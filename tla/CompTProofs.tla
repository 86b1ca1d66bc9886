---------------------------- MODULE CompTProofs -----------------------------
(***************************************************************************)
(* Proofs about CompT for every fraction, base and input: the pair the     *)
(* encoder packs is the input rounded to the nearest multiple of its unit. *)
(*                                                                         *)
(* While the loop runs, value is the input divided by unit and rnd says    *)
(* whether the remainder is half a unit or more; rounding up by one then   *)
(* leaves an error of at most half a unit, also when it carries.           *)
(***************************************************************************)
EXTENDS CompT, WellFoundedInduction, TLAPS

(* value and rnd after the digits worth unit have been cut off.            *)
Cut ==
  LET rest == input - value * unit
  IN /\ 0 <= rest /\ rest < unit
     /\ IF rnd THEN 2 * rest >= unit ELSE 2 * rest < unit

Typed ==
  /\ input \in Nat /\ value \in Nat /\ exp \in Nat /\ unit \in Nat \ {0}
  /\ rnd \in BOOLEAN
  /\ pc \in {"loop", "pack", "done"}

IInv ==
  /\ Typed
  /\ pc = "loop" => Cut
  /\ Nearest

(* Dividing by Base splits a number into quotient and last digit.          *)
LEMMA LastDigit ==
  ASSUME NEW v \in Nat
  PROVE  /\ v \div Base \in Nat
         /\ v % Base \in 0 .. (Base - 1)
         /\ v = (v \div Base) * Base + (v % Base)
<1>1. Base \in Nat /\ Base > 0
  BY CompTAssumption
<1>2. QED
  BY <1>1, Z3

LEMMA HalfBase ==
  /\ Base \div 2 \in Nat
  /\ Base = 2 * (Base \div 2)
BY CompTAssumption

(* Cutting one more digit d off a value v whose rest is r.                 *)
LEMMA CutDigit ==
  ASSUME NEW i \in Nat, NEW v \in Nat, NEW u \in Nat \ {0},
         0 <= i - v * u, i - v * u < u
  PROVE  LET q == v \div Base
             rest == i - q * (u * Base)
         IN /\ u * Base \in Nat \ {0}
            /\ 0 <= rest /\ rest < u * Base
            /\ TopBit(v) => 2 * rest >= u * Base
            /\ ~TopBit(v) => 2 * rest < u * Base
<1> DEFINE q == v \div Base
           d == v % Base
           h == Base \div 2
           r == i - v * u
<1>1. /\ q \in Nat /\ d \in Nat /\ d <= Base - 1 /\ v = q * Base + d
      /\ Base \in Nat /\ Base > 0
  BY LastDigit, CompTAssumption
<1>2. h \in Nat /\ Base = 2 * h
  BY HalfBase
<1>3. r \in Int /\ 0 <= r /\ r < u
  BY Z3
<1>4. TopBit(v) <=> d >= h
  BY DEF TopBit
<1> HIDE DEF q, d, h
<1>5. v * u = q * (u * Base) + d * u
  BY <1>1, Z3
<1>6. /\ q * (u * Base) \in Int /\ d * u \in Int /\ v * u \in Int
      /\ u * Base \in Nat \ {0}
  BY <1>1, Z3
<1>7. i - q * (u * Base) = d * u + r
  BY <1>5, <1>6, Z3
<1>8. 0 <= d * u /\ d * u <= (Base - 1) * u
  BY <1>1, Z3
<1>9. (Base - 1) * u = u * Base - u
  BY <1>1, Z3
<1>10. u * Base = 2 * (h * u) /\ h * u \in Int
  BY <1>2, Z3
<1>11. d >= h => d * u >= h * u
  BY <1>1, <1>2, Z3
<1>12. d < h => d * u + u <= h * u
  <2>1. d < h => (d + 1) * u <= h * u
    BY <1>1, <1>2, Z3
  <2>2. (d + 1) * u = d * u + u
    BY <1>1, Z3
  <2>3. QED
    BY <2>1, <2>2
<1> HIDE DEF r
<1>13. 0 <= d * u + r /\ d * u + r < u * Base
  BY <1>3, <1>6, <1>8, <1>9
<1>14. TopBit(v) => 2 * (d * u + r) >= u * Base
  BY <1>1, <1>2, <1>3, <1>4, <1>6, <1>10, <1>11
<1>15. ~TopBit(v) => 2 * (d * u + r) < u * Base
  BY <1>1, <1>2, <1>3, <1>4, <1>6, <1>10, <1>12
<1>16. QED
  BY <1>6, <1>7, <1>13, <1>14, <1>15 DEF q

(* Rounding up by one.                                                     *)
LEMMA RoundUp ==
  ASSUME NEW i \in Nat, NEW v \in Nat, NEW u \in Nat \ {0},
         0 <= i - v * u, i - v * u < u, 2 * (i - v * u) >= u
  PROVE  Within((v + 1) * u, i, u)
<1>1. (v + 1) * u = v * u + u /\ v * u \in Int
  BY Z3
<1>2. QED
  BY <1>1 DEF Within

LEMMA InitInv == Init => IInv
<1> SUFFICES ASSUME Init PROVE IInv
  OBVIOUS
<1>1. input \in Nat
  <2>1. PICK n \in 0 .. MaxInput : input \in {n, usec_to_AHZ(n)}
    BY DEF Init
  <2>2. n \in Nat /\ Tick \in Nat /\ Tick > 0
    BY CompTAssumption
  <2>3. n \div Tick \in Nat
    BY <2>2, Z3
  <2>4. QED
    BY <2>1, <2>2, <2>3 DEF usec_to_AHZ
<1>2. Typed
  <2>1. rnd \in BOOLEAN
    BY DEF Init
  <2>2. /\ input \in Nat /\ value \in Nat /\ exp \in Nat /\ unit \in Nat \ {0}
        /\ pc \in {"loop", "pack", "done"}
    BY <1>1 DEF Init
  <2>3. QED
    BY <2>1, <2>2 DEF Typed
<1>3. Cut
  BY <1>1 DEF Init, Cut
<1>4. Nearest
  BY DEF Init, Nearest
<1>5. QED
  BY <1>2, <1>3, <1>4 DEF IInv

LEMMA StepInv == IInv /\ [Next]_vars => IInv'
<1> SUFFICES ASSUME IInv, [Next]_vars PROVE IInv'
  OBVIOUS
<1>a. /\ Typed /\ Nearest
      /\ input \in Nat /\ value \in Nat /\ exp \in Nat /\ unit \in Nat \ {0}
      /\ Base \in Nat /\ Base >= 2 /\ Frac \in Nat /\ Frac > 0
  BY CompTAssumption DEF IInv, Typed
<1>1. CASE Shift
  <2>1. /\ pc = "loop" /\ pc' = "loop" /\ input' = input /\ exp' = exp + 1
        /\ value' = value \div Base /\ unit' = unit * Base
        /\ rnd' = TopBit(value)
    BY <1>1 DEF Shift
  <2>2. 0 <= input - value * unit /\ input - value * unit < unit
    BY <2>1 DEF IInv, Cut
  <2>3. /\ unit' \in Nat \ {0} /\ value' \in Nat
        /\ 0 <= input - value' * unit' /\ input - value' * unit' < unit'
        /\ TopBit(value) => 2 * (input - value' * unit') >= unit'
        /\ ~TopBit(value) => 2 * (input - value' * unit') < unit'
    BY <1>a, <2>1, <2>2, CutDigit, LastDigit
  <2>4. Typed'
    BY <1>a, <2>1, <2>3 DEF Typed, TopBit
  <2>5. Cut'
    BY <2>1, <2>3 DEF Cut
  <2>6. Nearest'
    BY <2>1 DEF Nearest
  <2>7. QED
    BY <2>4, <2>5, <2>6 DEF IInv
<1>2. CASE Round
  <2>1. /\ pc = "loop" /\ pc' = "pack" /\ input' = input /\ rnd' = rnd
        /\ value <= Frac
    BY <1>2 DEF Round, maxfract
  <2>2. 0 <= input - value * unit /\ input - value * unit < unit
    BY <2>1 DEF IInv, Cut
  <2>3. CASE ~rnd /\ UNCHANGED <<value, exp, unit>>
    <3>1. 2 * (input - value * unit) < unit /\ value * unit \in Int
      BY <1>a, <2>1, <2>3, Z3 DEF IInv, Cut
    <3>2. Within(value * unit, input, unit)
      BY <1>a, <2>2, <3>1 DEF Within
    <3>3. Nearest'
      BY <2>1, <2>3, <3>2 DEF Nearest
    <3>4. Typed'
      BY <1>a, <2>1, <2>3 DEF Typed
    <3>5. QED
      BY <2>1, <3>3, <3>4 DEF IInv
  <2>4. CASE /\ rnd /\ value + 1 <= Frac
             /\ value' = value + 1 /\ UNCHANGED <<exp, unit>>
    <3>1. Within((value + 1) * unit, input, unit)
      BY <1>a, <2>1, <2>2, <2>4, RoundUp DEF IInv, Cut
    <3>2. Nearest'
      BY <2>1, <2>4, <3>1 DEF Nearest
    <3>3. Typed'
      BY <1>a, <2>1, <2>4 DEF Typed
    <3>4. QED
      BY <2>1, <3>2, <3>3 DEF IInv
  <2>5. CASE /\ rnd /\ value + 1 > Frac
             /\ value' = (value + 1) \div Base
             /\ exp' = exp + 1 /\ unit' = unit * Base
    <3> DEFINE q == (value + 1) \div Base
               d == (value + 1) % Base
    <3>1. /\ q \in Nat /\ d \in Nat /\ value + 1 = q * Base + d
          /\ value = Frac
      BY <1>a, <2>1, <2>5, LastDigit
    <3>2. d = 1
      <4>1. Frac % Base = 0
        BY CompTAssumption
      <4>2. QED
        BY <1>a, <3>1, <4>1, Z3
    <3>3. q * (unit * Base) = value * unit
      <4> HIDE DEF q, d
      <4>1. q * Base = value
        BY <1>a, <3>1, <3>2, Z3
      <4>2. q * (unit * Base) = (q * Base) * unit
        BY <1>a, <3>1, Z3
      <4>3. QED
        BY <4>1, <4>2
    <3>4. /\ unit * Base \in Nat \ {0} /\ 2 * unit <= unit * Base
          /\ value * unit \in Int
      BY <1>a, Z3
    <3>5. Within(q * (unit * Base), input, unit * Base)
      BY <1>a, <2>2, <3>3, <3>4 DEF Within
    <3>6. q <= Frac
      <4> HIDE DEF q, d
      <4>1. q * Base = value
        BY <1>a, <3>1, <3>2, Z3
      <4>2. q <= q * Base
        BY <1>a, <3>1, Z3
      <4>3. QED
        BY <3>1, <4>1, <4>2
    <3>7. Nearest'
      BY <2>1, <2>5, <3>5, <3>6 DEF Nearest
    <3>8. Typed'
      BY <1>a, <2>1, <2>5, <3>1, <3>4 DEF Typed
    <3>9. QED
      BY <2>1, <3>7, <3>8 DEF IInv
  <2>6. QED
    BY <1>2, <2>3, <2>4, <2>5 DEF Round, maxfract
<1>3. CASE Pack
  BY <1>3 DEF Pack, IInv, Typed, Nearest
<1>4. CASE UNCHANGED vars
  BY <1>4 DEF vars, IInv, Typed, Nearest, Cut
<1>5. QED
  BY <1>1, <1>2, <1>3, <1>4 DEF Next

(* The encoder's fraction and exponent are the input rounded to the        *)
(* nearest multiple of Base ^ exp, for every input.                        *)
THEOREM EncodesNearest == Spec => []Nearest
<1>1. IInv => Nearest
  BY DEF IInv
<1>2. QED
  BY <1>1, InitInv, StepInv, PTL DEF Spec

-----------------------------------------------------------------------------

(* After a division the fraction keeps its leading digit, in the loop too. *)
LeadingDigit == exp > 0 => Base * value >= Frac

(* Cutting a digit off a number above the limit leaves a leading digit,    *)
(* because the limit is a multiple of the base.                            *)
LEMMA DigitLeft ==
  ASSUME NEW v \in Nat, v >= Frac
  PROVE  Base * (v \div Base) >= Frac
<1> DEFINE q == v \div Base
           d == v % Base
           f == Frac \div Base
<1>1. Base \in Nat /\ Base >= 2 /\ Frac \in Nat /\ Frac % Base = 0
  BY CompTAssumption
<1>2. q \in Nat /\ d \in Nat /\ d <= Base - 1 /\ v = q * Base + d
  BY <1>1, LastDigit
<1>3. f \in Nat /\ Frac = f * Base
  BY <1>1, LastDigit
<1> HIDE DEF q, d, f
<1>4. f * Base < (q + 1) * Base
  <2>1. (q + 1) * Base = q * Base + Base /\ q * Base \in Nat
    BY <1>1, <1>2, Z3
  <2>2. QED
    BY <1>1, <1>2, <1>3, <2>1
<1>5. f < q + 1
  BY <1>1, <1>2, <1>3, <1>4, Z3
<1>6. f * Base <= Base * q
  BY <1>1, <1>2, <1>3, <1>5, Z3
<1>7. QED
  BY <1>3, <1>6 DEF q

LEMMA LeadingStep == Typed /\ LeadingDigit /\ [Next]_vars => LeadingDigit'
<1> SUFFICES ASSUME Typed, LeadingDigit, [Next]_vars PROVE LeadingDigit'
  OBVIOUS
<1>a. value \in Nat /\ exp \in Nat /\ Base \in Nat /\ Frac \in Nat
  BY CompTAssumption DEF Typed
<1>1. CASE Shift
  <2>1. value' = value \div Base /\ value >= Frac
    BY <1>a, <1>1 DEF Shift, maxfract
  <2>2. QED
    BY <1>a, <2>1, DigitLeft DEF LeadingDigit
<1>2. CASE Round
  <2>1. CASE UNCHANGED <<value, exp>>
    BY <2>1 DEF LeadingDigit
  <2>2. CASE value' = value + 1 /\ exp' = exp
    <3>1. Base * (value + 1) = Base * value + Base /\ Base * value \in Nat
      BY <1>a, Z3
    <3>2. QED
      BY <1>a, <2>2, <3>1 DEF LeadingDigit
  <2>3. CASE value + 1 > Frac /\ value' = (value + 1) \div Base
    <3>1. value + 1 \in Nat /\ value + 1 >= Frac
      BY <1>a, <2>3
    <3>2. QED
      BY <2>3, <3>1, DigitLeft DEF LeadingDigit
  <2>4. QED
    BY <1>2, <2>1, <2>2, <2>3 DEF Round, maxfract
<1>3. CASE Pack
  BY <1>3 DEF Pack, LeadingDigit
<1>4. CASE UNCHANGED vars
  BY <1>4 DEF vars, LeadingDigit
<1>5. QED
  BY <1>1, <1>2, <1>3, <1>4 DEF Next

(* The encoder gives up no more precision than the format makes it: when   *)
(* it has divided at all, the fraction's leading digit is not zero.        *)
THEOREM KeepsLeadingDigit == Spec => []Tight
<1>1. Init => LeadingDigit
  BY DEF Init, LeadingDigit
<1>2. IInv /\ LeadingDigit /\ [Next]_vars => LeadingDigit'
  BY LeadingStep DEF IInv
<1>3. LeadingDigit => Tight
  BY DEF LeadingDigit, Tight
<1>4. QED
  BY <1>1, <1>2, <1>3, InitInv, StepInv, PTL DEF Spec

-----------------------------------------------------------------------------

(* A reader of the record finds the fraction and the exponent again, and   *)
(* with the exponent's unit the rounded input.                             *)
FieldsApart ==
  pc = "done" /\ value < Frac /\ exp < Base =>
    /\ comp % Frac = value
    /\ comp \div Frac = exp
    /\ Within((comp % Frac) * unit, input, unit)

Packed == pc = "done" => comp = (exp * Frac + value) % (Frac * Base)

LEMMA Unpack ==
  ASSUME NEW v \in Nat, NEW e \in Nat, v < Frac, e < Base
  PROVE  LET c == (e * Frac + v) % (Frac * Base)
         IN c % Frac = v /\ c \div Frac = e
<1> DEFINE n == e * Frac + v
<1>1. Base \in Nat /\ Base > 0 /\ Frac \in Nat /\ Frac > 0
  BY CompTAssumption
<1>2. n \in Nat /\ n < Frac * Base
  <2>1. (e + 1) * Frac <= Frac * Base
    BY <1>1, Z3
  <2>2. (e + 1) * Frac = e * Frac + Frac /\ e * Frac \in Nat
    BY <1>1, Z3
  <2>3. Frac * Base \in Nat
    BY <1>1, Z3
  <2>4. QED
    BY <1>1, <2>1, <2>2, <2>3
<1>3. n % (Frac * Base) = n
  <2> DEFINE m == Frac * Base
  <2>1. m \in Nat /\ m > 0 /\ n < m
    BY <1>1, <1>2, Z3
  <2> HIDE DEF n, m
  <2>2. n % m = n
    BY <1>2, <2>1, Z3
  <2>3. QED
    BY <2>2 DEF m
<1>4. n % Frac = v /\ n \div Frac = e
  BY <1>1, Z3
<1>5. QED
  BY <1>3, <1>4

(* The two fields do not run into each other.                              *)
THEOREM PacksFieldsApart == Spec => []FieldsApart
<1>1. Init => Packed
  BY DEF Init, Packed
<1>2. Packed /\ [Next]_vars => Packed'
  BY DEF Packed, Next, Shift, Round, Pack, vars
<1>3. ASSUME IInv, Packed PROVE FieldsApart
  <2> SUFFICES ASSUME pc = "done", value < Frac, exp < Base
               PROVE  /\ comp % Frac = value
                      /\ comp \div Frac = exp
                      /\ Within((comp % Frac) * unit, input, unit)
    BY DEF FieldsApart
  <2>1. value \in Nat /\ exp \in Nat
    BY <1>3 DEF IInv, Typed
  <2>2. comp % Frac = value /\ comp \div Frac = exp
    BY <1>3, <2>1, Unpack DEF Packed
  <2>3. Within(value * unit, input, unit)
    BY <1>3 DEF IInv, Nearest
  <2>4. QED
    BY <2>2, <2>3
<1>4. IInv /\ Packed => FieldsApart
  BY <1>3
<1>5. QED
  BY <1>1, <1>2, <1>4, InitInv, StepInv, PTL DEF Spec

-----------------------------------------------------------------------------
(* Powers.  Induction is by the least number that a set of numbers has.    *)

LEMMA LeastOf ==
  ASSUME NEW S, S \subseteq Nat, S # {}
  PROVE  \E n \in S : \A m \in S : ~(m < n)
<1> DEFINE R == OpToRel(<, Nat)
<1>1. IsWellFoundedOn(R, Nat)
  BY NatLessThanWellFounded
<1>2. \A m, n \in Nat : m < n => <<m, n>> \in R
  BY DEF OpToRel
<1> HIDE DEF R
<1>3. PICK n \in S : \A m \in S : ~(<<m, n>> \in R)
  BY <1>1, WFMin
<1>4. QED
  BY <1>2, <1>3

LEMMA AllOf ==
  ASSUME NEW S, 0 \in S, \A n \in Nat : n \in S => n + 1 \in S
  PROVE  Nat \subseteq S
<1> SUFFICES ASSUME Nat \ S # {} PROVE FALSE
  OBVIOUS
<1>1. PICK n \in Nat \ S : \A m \in Nat \ S : ~(m < n)
  BY LeastOf
<1>2. n # 0 /\ n - 1 \in Nat /\ n - 1 \in S
  BY <1>1
<1>3. QED
  BY <1>2

IsPower(f, n) == f = [e \in 0 .. n |-> IF e = 0 THEN 1 ELSE Base * f[e - 1]]

LEMMA PowerExists == \A n \in Nat : \E f : IsPower(f, n)
<1> DEFINE S == {n \in Nat : \E f : IsPower(f, n)}
<1>1. 0 \in S
  <2>1. IsPower([e \in 0 .. 0 |-> 1], 0)
    BY DEF IsPower
  <2>2. QED
    BY <2>1
<1>2. ASSUME NEW n \in Nat, n \in S PROVE n + 1 \in S
  <2>1. PICK f : IsPower(f, n)
    BY <1>2
  <2>2. PICK g : g = [e \in 0 .. (n + 1) |-> IF e <= n THEN f[e] ELSE Base * f[n]]
    OBVIOUS
  <2>3. ASSUME NEW e \in 0 .. (n + 1)
        PROVE  g[e] = IF e = 0 THEN 1 ELSE Base * g[e - 1]
    <3>1. CASE e = n + 1
      BY <3>1, <2>2
    <3>2. CASE e <= n
      <4>1. g[e] = f[e] /\ (e # 0 => g[e - 1] = f[e - 1])
        BY <3>2, <2>2
      <4>2. f[e] = IF e = 0 THEN 1 ELSE Base * f[e - 1]
        BY <3>2, <2>1 DEF IsPower
      <4>3. QED
        BY <4>1, <4>2
    <3>3. QED
      BY <3>1, <3>2
  <2>4. IsPower(g, n + 1)
    BY <2>2, <2>3 DEF IsPower
  <2>5. QED
    BY <2>4
<1> HIDE DEF S
<1>3. Nat \subseteq S
  BY <1>1, <1>2, AllOf
<1>4. QED
  BY <1>3 DEF S

LEMMA PowerDef ==
  \A e \in 0 .. (Base - 1) : Power[e] = IF e = 0 THEN 1 ELSE Base * Power[e - 1]
<1> DEFINE P(f) == f = [e \in 0 .. (Base - 1) |-> IF e = 0 THEN 1 ELSE Base * f[e - 1]]
<1>1. \E f : P(f)
  <2>1. Base - 1 \in Nat
    BY CompTAssumption
  <2>2. QED
    BY <2>1, PowerExists DEF IsPower
<1>2. Power = CHOOSE f : P(f)
  BY DEF Power
<1>3. P(CHOOSE f : P(f))
  BY <1>1
<1>4. P(Power)
  BY <1>2, <1>3
<1>5. QED
  BY <1>4

(* The unit is the power of the exponent that is stored.                   *)
UnitIsPower == exp < Base => unit = Power[exp]

LEMMA UnitStep == IInv /\ UnitIsPower /\ [Next]_vars => UnitIsPower'
<1> SUFFICES ASSUME IInv, UnitIsPower, [Next]_vars PROVE UnitIsPower'
  OBVIOUS
<1>1. exp \in Nat /\ unit \in Nat /\ Base \in Nat
  BY CompTAssumption DEF IInv, Typed
<1>2. CASE exp' = exp + 1 /\ unit' = unit * Base
  <2>1. exp + 1 < Base => Power[exp + 1] = Base * Power[exp]
    <3>1. exp + 1 < Base => exp + 1 \in 0 .. (Base - 1) /\ exp + 1 # 0 /\ (exp + 1) - 1 = exp
      BY <1>1
    <3>2. QED
      BY <3>1, PowerDef
  <2>2. Base * unit = unit * Base
    BY <1>1, Z3
  <2>3. exp + 1 < Base => exp < Base
    BY <1>1
  <2>4. QED
    BY <1>2, <2>1, <2>2, <2>3 DEF UnitIsPower
<1>3. CASE exp' = exp /\ unit' = unit
  BY <1>3 DEF UnitIsPower
<1>4. QED
  BY <1>2, <1>3 DEF Next, Shift, Round, Pack, vars

(* A stored fraction below 1 << mantsize and an exponent that fits are     *)
(* decoded to the input, rounded to a multiple of the exponent's unit.     *)
THEOREM DecodesRounded == Spec => []RoundTrip
<1>1. Init => UnitIsPower
  <2>1. Power[0] = 1
    BY PowerDef, CompTAssumption
  <2>2. QED
    BY <2>1 DEF Init, UnitIsPower
<1>2. Init => Packed
  BY DEF Init, Packed
<1>3. Packed /\ [Next]_vars => Packed'
  BY DEF Packed, Next, Shift, Round, Pack, vars
<1>4. ASSUME IInv, Packed, UnitIsPower PROVE RoundTrip
  <2> SUFFICES ASSUME pc = "done", value < Frac, exp < Base
               PROVE  Within(Decode(comp), input, unit)
    BY DEF RoundTrip
  <2>1. value \in Nat /\ exp \in Nat
    BY <1>4 DEF IInv, Typed
  <2>2. comp % Frac = value /\ comp \div Frac = exp
    BY <1>4, <2>1, Unpack DEF Packed
  <2>3. Within(value * unit, input, unit)
    BY <1>4 DEF IInv, Nearest
  <2>4. QED
    BY <1>4, <2>2, <2>3 DEF Decode, UnitIsPower
<1>5. IInv /\ Packed /\ UnitIsPower => RoundTrip
  BY <1>4
<1>6. QED
  BY <1>1, <1>2, <1>3, <1>5, UnitStep, InitInv, StepInv, PTL DEF Spec
=============================================================================
