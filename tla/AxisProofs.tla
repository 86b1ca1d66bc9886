----------------------------- MODULE AxisProofs -----------------------------
(***************************************************************************)
(* Proofs about Axis for all values that its powers of ten are enough for. *)
(*                                                                         *)
(* A value r is known by any fraction n/d that it is (Is).  What GetInc()  *)
(* does with integers is linear for each power of ten, and 11 distances    *)
(* from the start of the axis are beyond the end (Reach).                  *)
(***************************************************************************)
EXTENDS Axis, WellFoundedInduction, TLAPS

-----------------------------------------------------------------------------
(* Gcd, which ends as its second argument gets smaller.                    *)

LEMMA LeastNumber ==
  ASSUME NEW S, S \subseteq Nat, S # {}
  PROVE  \E n \in S : \A m \in S : ~(m < n)
<1> DEFINE R == OpToRel(<, Nat)
<1>1. IsWellFoundedOn(R, Nat)
  BY NatLessThanWellFounded
<1>2. \A m, n \in Nat : m < n => <<m, n>> \in R
  BY DEF OpToRel
<1> HIDE DEF R
<1>3. PICK n \in S : \A m \in S : ~(<<m, n>> \in R)
  BY <1>1, WFMin
<1>4. QED
  BY <1>2, <1>3

LEMMA Rest ==
  ASSUME NEW a \in Nat, NEW b \in Nat, b # 0
  PROVE  a % b \in Nat /\ a % b < b /\ a \div b \in Nat /\ a = b * (a \div b) + (a % b)
BY Z3

Divides(k, a) == \E x \in Nat : a = k * x

LEMMA DividesRest ==
  ASSUME NEW a \in Nat, NEW b \in Nat, b # 0, NEW k \in Nat, Divides(k, b)
  PROVE  Divides(k, a) <=> Divides(k, a % b)
<1>1. PICK q, r : q = a \div b /\ r = a % b
  OBVIOUS
<1>2. r \in Nat /\ q \in Nat /\ a = b * q + r /\ r < b
  BY <1>1, Rest
<1>3. PICK y \in Nat : b = k * y
  BY DEF Divides
<1>4. PICK z \in Nat : z = y * q
  BY <1>2, Z3
<1>5. b * q = k * z
  BY <1>2, <1>3, <1>4, Z3
<1>6. ASSUME NEW x \in Nat, r = k * x PROVE Divides(k, a)
  <2>1. a = k * (z + x) /\ z + x \in Nat
    BY <1>2, <1>5, <1>6, Z3
  <2>2. QED
    BY <2>1 DEF Divides
<1>7. ASSUME NEW x \in Nat, a = k * x PROVE Divides(k, r)
  <2>1. r = k * (x - z)
    BY <1>2, <1>5, <1>7, Z3
  <2>2. CASE x >= z
    BY <2>1, <2>2 DEF Divides
  <2>3. CASE x < z
    <3>1. k * (z - x) >= 0
      BY <2>3, Z3
    <3>2. k * (x - z) = -(k * (z - x))
      BY Z3
    <3>3. r = 0 /\ r = k * 0
      BY <1>2, <2>1, <3>1, <3>2, Z3
    <3>4. QED
      BY <3>3 DEF Divides
  <2>4. QED
    BY <2>2, <2>3
<1>8. QED
  BY <1>1, <1>6, <1>7 DEF Divides

Greatest(S) == CHOOSE x \in S : \A y \in S : y <= x
Common(a, b) == {k \in Nat : Divides(k, a) /\ Divides(k, b)}

LEMMA GreatestOfOne ==
  ASSUME NEW b \in Nat, b # 0
  PROVE  Greatest(Common(b, 0)) = b
<1>1. Divides(b, b) /\ Divides(b, 0)
  <2>1. b = b * 1 /\ 0 = b * 0
    BY Z3
  <2>2. QED
    BY <2>1 DEF Divides
<1>2. ASSUME NEW k \in Nat, Divides(k, b) PROVE k <= b
  <2>1. PICK x \in Nat : b = k * x
    BY <1>2 DEF Divides
  <2>2. x # 0
    BY <2>1, Z3
  <2>3. QED
    BY <2>1, <2>2, Z3
<1>3. b \in Common(b, 0) /\ \A k \in Common(b, 0) : k \in Nat /\ k <= b
  BY <1>1, <1>2 DEF Common
<1>4. QED
  BY <1>3 DEF Greatest

IsGcd(g) == g = [p \in Nat \X Nat |-> IF p[2] = 0 THEN p[1] ELSE g[<<p[2], p[1] % p[2]>>]]

LEMMA GcdExists == \E g : IsGcd(g)
<1>1. PICK g : g = [p \in Nat \X Nat |-> IF p[2] = 0 THEN p[1] ELSE Greatest(Common(p[1], p[2]))]
  OBVIOUS
<1>2. ASSUME NEW a \in Nat, NEW b \in Nat
      PROVE  g[<<a, b>>] = IF b = 0 THEN a ELSE Greatest(Common(a, b))
  BY <1>1
<1>3. ASSUME NEW a \in Nat, NEW b \in Nat, b # 0 PROVE g[<<a, b>>] = g[<<b, a % b>>]
  <2>1. a % b \in Nat
    BY <1>3, Rest
  <2>2. Common(a, b) = Common(b, a % b)
    BY <1>3, DividesRest DEF Common
  <2>3. a % b = 0 => Greatest(Common(b, a % b)) = b
    BY <1>3, GreatestOfOne
  <2>4. g[<<a, b>>] = Greatest(Common(a, b))
    BY <1>2, <1>3
  <2>5. g[<<b, a % b>>] = IF a % b = 0 THEN b ELSE Greatest(Common(b, a % b))
    BY <1>2, <2>1
  <2>6. QED
    BY <2>2, <2>3, <2>4, <2>5
<1>4. ASSUME NEW a \in Nat, NEW b \in Nat
      PROVE  g[<<a, b>>] = IF b = 0 THEN a ELSE g[<<b, a % b>>]
  BY <1>2, <1>3, <1>4
<1>5. g = [p \in Nat \X Nat |-> g[p]]
  BY <1>1
<1>6. ASSUME NEW p \in Nat \X Nat
      PROVE  g[p] = IF p[2] = 0 THEN p[1] ELSE g[<<p[2], p[1] % p[2]>>]
  <2>1. PICK a \in Nat, b \in Nat : p = <<a, b>>
    OBVIOUS
  <2>2. QED
    BY <1>4, <2>1
<1>7. IsGcd(g)
  BY <1>5, <1>6 DEF IsGcd
<1>8. QED
  BY <1>7

LEMMA GcdDef ==
  ASSUME NEW a \in Nat, NEW b \in Nat
  PROVE  Gcd[<<a, b>>] = IF b = 0 THEN a ELSE Gcd[<<b, a % b>>]
<1>1. Gcd = CHOOSE g : IsGcd(g)
  BY DEF Gcd, IsGcd
<1>2. IsGcd(Gcd)
  BY <1>1, GcdExists
<1>3. QED
  BY <1>2 DEF IsGcd

LEMMA GcdDivides ==
  ASSUME NEW a \in Nat, NEW b \in Nat, a + b > 0
  PROVE  /\ Gcd[<<a, b>>] \in Nat \ {0}
         /\ Divides(Gcd[<<a, b>>], a) /\ Divides(Gcd[<<a, b>>], b)
<1> DEFINE Good(x, y) == /\ Gcd[<<x, y>>] \in Nat \ {0}
                         /\ Divides(Gcd[<<x, y>>], x) /\ Divides(Gcd[<<x, y>>], y)
           Bad == {y \in Nat : \E x \in Nat : x + y > 0 /\ ~Good(x, y)}
<1>1. ASSUME Bad # {} PROVE FALSE
  <2>1. PICK y \in Bad : \A z \in Bad : ~(z < y)
    BY <1>1, LeastNumber
  <2>2. PICK x \in Nat : x + y > 0 /\ ~Good(x, y)
    BY <2>1
  <2>3. y \in Nat
    BY <2>1
  <2>4. CASE y = 0
    <3>1. Gcd[<<x, y>>] = x /\ x \in Nat \ {0}
      <4>1. Gcd[<<x, 0>>] = IF 0 = 0 THEN x ELSE Gcd[<<0, x % 0>>]
        BY GcdDef
      <4>2. QED
        BY <2>2, <2>4, <4>1
    <3>2. x = x * 1 /\ 0 = x * 0
      BY Z3
    <3>3. QED
      BY <2>2, <2>4, <3>1, <3>2 DEF Divides
  <2>5. CASE y # 0
    <3>1. Gcd[<<x, y>>] = Gcd[<<y, x % y>>] /\ x % y \in Nat /\ x % y < y
      BY <2>3, <2>5, GcdDef, Rest
    <3>2. x % y \notin Bad
      BY <2>1, <3>1
    <3>3. Good(y, x % y)
      BY <2>3, <2>5, <3>1, <3>2
    <3>4. Divides(Gcd[<<x, y>>], x)
      BY <2>3, <2>5, <3>1, <3>3, DividesRest
    <3>5. QED
      BY <2>2, <3>1, <3>3, <3>4
  <2>6. QED
    BY <2>4, <2>5
<1>2. QED
  BY <1>1

-----------------------------------------------------------------------------
(* Fractions.                                                              *)

Is(r, n, d) == /\ r = <<r[1], r[2]>> /\ r[1] \in Nat /\ r[2] \in Nat \ {0}
               /\ r[1] * d = n * r[2]

LEMMA QuotientBy ==
  ASSUME NEW g \in Nat \ {0}, NEW x \in Nat
  PROVE  (g * x) \div g = x
<1>1. PICK q, r : q = (g * x) \div g /\ r = (g * x) % g
  OBVIOUS
<1>2. g * x \in Nat
  BY Z3
<1>3. q \in Nat /\ r \in Nat /\ r < g /\ g * x = g * q + r
  BY <1>1, <1>2, Rest
<1>4. CASE q >= x + 1
  <2>1. g * q >= g * (x + 1) /\ g * (x + 1) = g * x + g
    BY <1>3, <1>4, Z3
  <2>2. QED
    BY <1>2, <1>3, <2>1, Z3
<1>5. CASE q <= x - 1
  <2>1. g * q <= g * (x - 1) /\ g * (x - 1) = g * x - g
    BY <1>3, <1>5, Z3
  <2>2. QED
    BY <1>2, <1>3, <2>1, Z3
<1>6. QED
  BY <1>1, <1>3, <1>4, <1>5

LEMMA RatioIs ==
  ASSUME NEW n \in Nat, NEW d \in Nat \ {0}
  PROVE  Is(Ratio(n, d), n, d) /\ (n = 0 => Ratio(n, d) = <<0, 1>>)
<1>1. PICK g : g = Gcd[<<n, d>>]
  OBVIOUS
<1>2. g \in Nat \ {0} /\ Divides(g, n) /\ Divides(g, d)
  BY <1>1, GcdDivides
<1>3. PICK x \in Nat, y \in Nat : n = g * x /\ d = g * y
  BY <1>2 DEF Divides
<1>4. n \div g = x /\ d \div g = y
  BY <1>2, <1>3, QuotientBy
<1>5. y # 0
  BY <1>2, <1>3, Z3
<1>6. Magnitude(n) = n /\ Magnitude(d) = d
  BY DEF Magnitude
<1>7. Ratio(n, d) = <<1 * (n \div g), 1 * (d \div g)>>
  BY <1>1, <1>6 DEF Ratio
<1>8. Ratio(n, d) = <<x, y>>
  BY <1>4, <1>7
<1>9. x * d = n * y
  BY <1>2, <1>3, Z3
<1>10. n = 0 => x = 0 /\ y = 1
  <2> HAVE n = 0
  <2>1. x = 0
    BY <1>2, <1>3, Z3
  <2>2. g = d
    <3>1. Gcd[<<0, d>>] = Gcd[<<d, 0 % d>>] /\ 0 % d = 0
      <4>1. Gcd[<<0, d>>] = IF d = 0 THEN 0 ELSE Gcd[<<d, 0 % d>>]
        BY GcdDef
      <4>2. QED
        BY <4>1
    <3>2. Gcd[<<d, 0>>] = IF 0 = 0 THEN d ELSE Gcd[<<0, d % 0>>]
      BY GcdDef
    <3>3. QED
      BY <1>1, <3>1, <3>2
  <2>3. d = d * 1 /\ 1 \in Nat
    OBVIOUS
  <2>4. d \div d = 1
    BY <2>2, <2>3, <1>2, QuotientBy
  <2>5. QED
    BY <1>4, <2>1, <2>2, <2>4
<1>11. QED
  BY <1>5, <1>8, <1>9, <1>10 DEF Is

(* A fraction that is n/d is any other n'/d' that n/d is.                  *)
LEMMA Crossed ==
  ASSUME NEW x \in Nat, NEW y \in Nat \ {0}, NEW n \in Nat, NEW d \in Nat \ {0},
         NEW m \in Nat, NEW e \in Nat \ {0}, x * d = n * y, n * e = m * d
  PROVE  x * e = m * y
<1>1. (x * e) * d = (x * d) * e
  BY Z3
<1>2. (x * d) * e = (n * y) * e
  OBVIOUS
<1>3. (n * y) * e = (n * e) * y
  BY Z3
<1>4. (n * e) * y = (m * d) * y
  OBVIOUS
<1>5. (m * d) * y = (m * y) * d
  BY Z3
<1>6. (x * e) * d = (m * y) * d
  BY <1>1, <1>2, <1>3, <1>4, <1>5
<1>7. QED
  BY <1>6, Z3

LEMMA IsToo ==
  ASSUME NEW r, NEW n \in Nat, NEW d \in Nat \ {0}, Is(r, n, d),
         NEW m \in Nat, NEW e \in Nat \ {0}, n * e = m * d
  PROVE  Is(r, m, e)
<1>1. PICK x, y : x = r[1] /\ y = r[2]
  OBVIOUS
<1>2. x \in Nat /\ y \in Nat \ {0} /\ x * d = n * y
  BY <1>1 DEF Is
<1>3. x * e = m * y
  BY ONLY <1>2, n \in Nat, d \in Nat \ {0}, m \in Nat, e \in Nat \ {0}, n * e = m * d, Crossed
<1>4. QED
  BY <1>1, <1>3 DEF Is

LEMMA ScaledLess ==
  ASSUME NEW u \in Int, NEW v \in Int, NEW k \in Nat \ {0}
  PROVE  u < v <=> u * k < v * k
<1>1. u < v => u * k < v * k
  BY Z3
<1>2. v <= u => v * k <= u * k
  BY Z3
<1>3. u * k \in Int /\ v * k \in Int
  BY Z3
<1>4. QED
  BY <1>1, <1>2, <1>3

LEMMA TimesIs ==
  ASSUME NEW x, NEW n \in Nat, NEW d \in Nat \ {0}, Is(x, n, d),
         NEW y, NEW m \in Nat, NEW e \in Nat \ {0}, Is(y, m, e)
  PROVE  Is(Times(x, y), n * m, d * e)
<1>1. PICK a, b, f, g : x = <<a, b>> /\ y = <<f, g>>
  BY DEF Is
<1>2. /\ a \in Nat /\ b \in Nat \ {0} /\ a * d = n * b
      /\ f \in Nat /\ g \in Nat \ {0} /\ f * e = m * g
  BY <1>1 DEF Is
<1>3. /\ a * f \in Nat /\ b * g \in Nat \ {0} /\ n * m \in Nat /\ d * e \in Nat \ {0}
  BY <1>2, Z3
<1>4. Times(x, y) = Ratio(a * f, b * g)
  BY <1>1 DEF Times
<1>5. Is(Ratio(a * f, b * g), a * f, b * g)
  BY <1>3, RatioIs
<1>6. (a * f) * (d * e) = (n * m) * (b * g)
  <2>1. (a * f) * (d * e) = (a * d) * (f * e)
    BY <1>2, Z3
  <2>2. (n * m) * (b * g) = (n * b) * (m * g)
    BY <1>2, Z3
  <2>3. QED
    BY <1>2, <2>1, <2>2
<1>7. Is(Ratio(a * f, b * g), n * m, d * e)
  BY <1>3, <1>5, <1>6, IsToo
<1>8. QED
  BY <1>4, <1>7

LEMMA PlusIs ==
  ASSUME NEW x, NEW n \in Nat, NEW d \in Nat \ {0}, Is(x, n, d),
         NEW y, NEW m \in Nat, NEW e \in Nat \ {0}, Is(y, m, e)
  PROVE  Is(Plus(x, y), n * e + m * d, d * e)
<1>1. PICK a, b, f, g : x = <<a, b>> /\ y = <<f, g>>
  BY DEF Is
<1>2. /\ a \in Nat /\ b \in Nat \ {0} /\ a * d = n * b
      /\ f \in Nat /\ g \in Nat \ {0} /\ f * e = m * g
  BY <1>1 DEF Is
<1>3. /\ a * g + f * b \in Nat /\ b * g \in Nat \ {0}
      /\ n * e + m * d \in Nat /\ d * e \in Nat \ {0}
  BY <1>2, Z3
<1>4. Plus(x, y) = Ratio(a * g + f * b, b * g)
  BY <1>1 DEF Plus
<1>5. Is(Ratio(a * g + f * b, b * g), a * g + f * b, b * g)
  BY <1>3, RatioIs
<1>6. (a * g + f * b) * (d * e) = (n * e + m * d) * (b * g)
  <2>1. (a * g + f * b) * (d * e) = (a * d) * (g * e) + (f * e) * (b * d)
    BY <1>2, Z3
  <2>2. (n * e + m * d) * (b * g) = (n * b) * (g * e) + (m * g) * (b * d)
    BY <1>2, Z3
  <2>3. QED
    BY <1>2, <2>1, <2>2
<1>7. Is(Ratio(a * g + f * b, b * g), n * e + m * d, d * e)
  BY <1>3, <1>5, <1>6, IsToo
<1>8. QED
  BY <1>4, <1>7

LEMMA MinusIs ==
  ASSUME NEW x, NEW n \in Nat, NEW d \in Nat \ {0}, Is(x, n, d),
         NEW y, NEW m \in Nat, Is(y, m, d), m <= n
  PROVE  Is(Minus(x, y), n - m, d)
<1>1. PICK a, b, f, g : x = <<a, b>> /\ y = <<f, g>>
  BY DEF Is
<1>2. /\ a \in Nat /\ b \in Nat \ {0} /\ a * d = n * b
      /\ f \in Nat /\ g \in Nat \ {0} /\ f * d = m * g
  BY <1>1 DEF Is
<1>3. Minus(x, y) = Ratio(a * g + (-f) * b, b * g)
  BY <1>1 DEF Minus, Plus, Negated
<1>4. PICK c : c = a * g + (-f) * b
  OBVIOUS
<1>5. c \in Int /\ b * g \in Nat \ {0}
  BY <1>2, <1>4, Z3
<1>6. c * d = (n - m) * (b * g)
  <2>1. c * d = (a * d) * g - (f * d) * b
    BY <1>2, <1>4, Z3
  <2>2. (n - m) * (b * g) = (n * b) * g - (m * g) * b
    BY <1>2, Z3
  <2>3. QED
    BY <1>2, <2>1, <2>2
<1>7. c \in Nat
  <2>1. (n - m) * (b * g) >= 0
    <3>1. n - m \in Nat
      OBVIOUS
    <3>2. QED
      BY <1>5, <3>1, Z3
  <2>2. ~(c < 0)
    <3>1. c < 0 => c * d < 0 * d
      BY <1>5, ScaledLess
    <3>2. 0 * d = 0 /\ c * d \in Int
      BY <1>5, Z3
    <3>3. c * d >= 0
      BY <1>6, <2>1
    <3>4. QED
      BY <3>1, <3>2, <3>3
  <2>3. QED
    BY <1>5, <2>2
<1>8. Is(Ratio(c, b * g), c, b * g)
  BY <1>5, <1>7, RatioIs
<1>9. Is(Ratio(c, b * g), n - m, d)
  <2>1. n - m \in Nat
    OBVIOUS
  <2>2. QED
    BY <1>5, <1>6, <1>7, <1>8, <2>1, IsToo
<1>10. QED
  BY <1>3, <1>4, <1>9

LEMMA LessIs ==
  ASSUME NEW x, NEW n \in Nat, NEW d \in Nat \ {0}, Is(x, n, d),
         NEW y, NEW m \in Nat, NEW e \in Nat \ {0}, Is(y, m, e)
  PROVE  Less(x, y) <=> n * e < m * d
<1>1. PICK a, b, f, g : x = <<a, b>> /\ y = <<f, g>>
  BY DEF Is
<1>2. /\ a \in Nat /\ b \in Nat \ {0} /\ a * d = n * b
      /\ f \in Nat /\ g \in Nat \ {0} /\ f * e = m * g
  BY <1>1 DEF Is
<1>3. /\ a * g \in Int /\ f * b \in Int /\ n * e \in Int /\ m * d \in Int
      /\ d * e \in Nat \ {0} /\ b * g \in Nat \ {0}
  BY <1>2, Z3
<1>4. (a * g) * (d * e) = (n * e) * (b * g)
  <2>1. (a * g) * (d * e) = (a * d) * (g * e)
    BY <1>2, Z3
  <2>2. (n * e) * (b * g) = (n * b) * (g * e)
    BY <1>2, Z3
  <2>3. QED
    BY <1>2, <2>1, <2>2
<1>5. (f * b) * (d * e) = (m * d) * (b * g)
  <2>1. (f * b) * (d * e) = (f * e) * (b * d)
    BY <1>2, Z3
  <2>2. (m * d) * (b * g) = (m * g) * (b * d)
    BY <1>2, Z3
  <2>3. QED
    BY <1>2, <2>1, <2>2
<1>6. a * g < f * b <=> (a * g) * (d * e) < (f * b) * (d * e)
  BY <1>3, ScaledLess
<1>7. n * e < m * d <=> (n * e) * (b * g) < (m * d) * (b * g)
  BY <1>3, ScaledLess
<1>8. Less(x, y) <=> a * g < f * b
  BY <1>1 DEF Less
<1>9. QED
  BY <1>4, <1>5, <1>6, <1>7, <1>8

LEMMA CutIs ==
  ASSUME NEW r, NEW n \in Nat, NEW d \in Nat \ {0}, Is(r, n, d)
  PROVE  Whole0(r) \in Nat /\ Whole0(r) * d <= n /\ n < (Whole0(r) + 1) * d
<1>1. PICK a, b, q : r = <<a, b>> /\ q = a \div b
  BY DEF Is
<1>2. a \in Nat /\ b \in Nat \ {0} /\ a * d = n * b
  BY <1>1 DEF Is
<1>3. PICK s : s = a % b
  OBVIOUS
<1>4. q \in Nat /\ s \in Nat /\ s < b /\ a = b * q + s
  BY <1>1, <1>2, <1>3, Rest
<1>5. q * d \in Int /\ (q + 1) * d \in Int
  BY <1>4, Z3
<1>6. ~(n < q * d)
  <2>1. n < q * d => n * b < (q * d) * b
    BY <1>2, <1>5, ScaledLess
  <2>2. (q * d) * b <= a * d
    BY <1>2, <1>4, Z3
  <2>3. (q * d) * b \in Int /\ n * b \in Int
    BY <1>2, <1>5, Z3
  <2>4. QED
    BY <1>2, <2>1, <2>2, <2>3
<1>7. n < (q + 1) * d
  <2>1. n < (q + 1) * d <=> n * b < ((q + 1) * d) * b
    BY <1>2, <1>5, ScaledLess
  <2>2. a < b * (q + 1)
    BY <1>2, <1>4, Z3
  <2>3. a * d < (b * (q + 1)) * d
    BY <1>2, <1>4, <2>2, ScaledLess, Z3
  <2>4. (b * (q + 1)) * d = ((q + 1) * d) * b
    BY <1>2, <1>4, Z3
  <2>5. QED
    BY <1>2, <2>1, <2>3, <2>4
<1>8. Whole0(r) = q
  BY <1>1 DEF Whole0
<1>9. QED
  BY <1>4, <1>5, <1>6, <1>7, <1>8

-----------------------------------------------------------------------------
(* The distance of the labels, in units.                                   *)

LEMMA LeastIs ==
  ASSUME NEW S, S \subseteq Nat, S # {}
  PROVE  Least(S) \in S /\ \A n \in S : Least(S) <= n
<1>1. PICK n \in S : \A m \in S : ~(m < n)
  BY LeastNumber
<1>2. \A m \in S : n <= m
  BY <1>1
<1>3. QED
  BY <1>2 DEF Least

(* The labels of v0 .. v1 are this far before the first.                   *)
Start(v0, v1) == Lower(v0, v1) - (Lower(v0, v1) % Step(v0, v1))

LEMMA Reach ==
  ASSUME NEW v0 \in Nat, NEW v1 \in Nat, v0 <= v1, v1 - v0 <= 101
  PROVE  /\ Step(v0, v1) \in {1, 2, 5, 10}
         /\ Start(v0, v1) \in Nat /\ Start(v0, v1) <= v0
         /\ v1 <= Start(v0, v1) + 11 * Step(v0, v1)
         /\ v1 - v0 <= 100 => v1 + 1 <= Start(v0, v1) + 11 * Step(v0, v1)
<1>1. CASE v1 - v0 <= 10
  <2>1. Step(v0, v1) = 1 /\ Lower(v0, v1) = v0
    BY <1>1 DEF Step, Lower
  <2>2. Start(v0, v1) = v0
    BY <2>1 DEF Start
  <2>3. QED
    BY <1>1, <2>1, <2>2
<1>2. CASE v1 - v0 > 10 /\ v1 - v0 <= 20
  <2>1. Step(v0, v1) = 2 /\ Lower(v0, v1) = v0
    BY <1>2 DEF Step, Lower
  <2>2. Start(v0, v1) = v0 - (v0 % 2)
    BY <2>1 DEF Start
  <2>3. QED
    BY <1>2, <2>1, <2>2
<1>3. CASE v1 - v0 > 20
  <2>1. Lower(v0, v1) = v0 - (v0 % 10)
    BY <1>3 DEF Lower
  <2>2. PICK w : w = v0 - (v0 % 10)
    OBVIOUS
  <2>3. w \in Nat /\ w <= v0 /\ v0 <= w + 9 /\ w % 10 = 0 /\ w % 5 = 0
    BY <2>2
  <2>4. CASE v1 % 10 # 0 /\ ((v1 + 10) - (v1 % 10)) - w <= 50
    <3>1. Step(v0, v1) = 5
      BY <1>3, <2>2, <2>4 DEF Step
    <3>2. Start(v0, v1) = w
      BY <2>1, <2>2, <2>3, <3>1 DEF Start
    <3>3. QED
      BY <2>3, <2>4, <3>1, <3>2
  <2>5. CASE ~(v1 % 10 # 0 /\ ((v1 + 10) - (v1 % 10)) - w <= 50)
    <3>1. Step(v0, v1) = 10
      BY <1>3, <2>2, <2>5 DEF Step
    <3>2. Start(v0, v1) = w
      BY <2>1, <2>2, <2>3, <3>1 DEF Start
    <3>3. QED
      BY <2>3, <3>1, <3>2
  <2>6. QED
    BY <2>4, <2>5
<1>4. QED
  BY <1>1, <1>2, <1>3

LEMMA NumberIs == ASSUME NEW n \in Nat PROVE Is(Number(n), n, 1)
BY DEF Number, Is

(* Eleven distances from its origin an axis has had a label above the end. *)
LEMMA AxisReaches ==
  ASSUME NEW f \in Nat \ {0}, NEW ff \in Nat \ {0},
         NEW v0 \in Nat, NEW v1 \in Nat, v0 <= v1, v1 - v0 <= 101,
         NEW d \in Nat \ {0}, NEW n \in Nat, NEW vMin, Is(vMin, n, d),
         NEW m \in Nat, NEW vEnd, Is(vEnd, m, d),
         (v0 * f) * d <= n * ff,
         m * ff < ((Start(v0, v1) + 11 * Step(v0, v1)) * f) * d
  PROVE  LET axis == AxisOf(Spread(ff, f, v0, v1), vEnd)
         IN  ~Less(vMin, axis.origin) /\ axis.labels <= 11
<1>1. PICK s, i : s = Start(v0, v1) /\ i = Step(v0, v1)
  OBVIOUS
<1>2. s \in Nat /\ i \in Nat \ {0} /\ s <= v0
  <2>1. i \in {1, 2, 5, 10} /\ s \in Nat /\ s <= v0
    BY <1>1, Reach, Zenon
  <2>2. QED
    BY <2>1
<1>3. PICK g : g = Spread(ff, f, v0, v1)
  OBVIOUS
<1>4. g.first = Ratio((s + i) * f, ff) /\ g.inc = Ratio(i * f, ff)
  BY <1>1, <1>3 DEF Spread, Start
<1>5. (s + i) * f \in Nat /\ i * f \in Nat /\ s * f \in Nat /\ (s + i) * f = s * f + i * f
  BY <1>2, Z3
<1>6. Is(g.first, (s + i) * f, ff) /\ Is(g.inc, i * f, ff)
  BY <1>4, <1>5, RatioIs
<1>7. PICK axis : axis = AxisOf(g, vEnd)
  OBVIOUS
<1>8. ~Less(vMin, axis.origin)
  <2>1. axis.origin = Minus(g.first, g.inc)
    BY <1>7 DEF AxisOf
  <2>2. Is(axis.origin, (s + i) * f - i * f, ff)
    <3>1. i * f <= (s + i) * f
      BY <1>5
    <3>2. Is(Minus(g.first, g.inc), (s + i) * f - i * f, ff)
      BY ONLY ff \in Nat \ {0}, <1>5, <1>6, <3>1, MinusIs
    <3>3. QED
      BY <2>1, <3>2
  <2>3. (s + i) * f - i * f = s * f
    BY <1>5
  <2>4. Is(axis.origin, s * f, ff)
    BY <2>2, <2>3
  <2>5. Less(vMin, axis.origin) <=> n * ff < (s * f) * d
    BY <1>5, <2>4, LessIs
  <2>6. (s * f) * d <= (v0 * f) * d
    <3>1. s * f <= v0 * f
      BY <1>2, Z3
    <3>2. v0 * f \in Nat
      BY Z3
    <3>3. QED
      BY <1>5, <3>1, <3>2, Z3
  <2>7. n * ff \in Int /\ (s * f) * d \in Int /\ (v0 * f) * d \in Int
    <3>1. v0 * f \in Nat
      BY Z3
    <3>2. QED
      BY <1>5, <3>1, Z3
  <2>8. QED
    BY <2>5, <2>6, <2>7
<1>9. axis.labels <= 11
  <2> DEFINE Label(k) == Plus(g.first, Times(Number(k), g.inc))
             Past == {k \in 0 .. 200 : Less(vEnd, Label(k))}
  <2>1. axis.labels = 1 + Least(Past)
    BY <1>7 DEF AxisOf
  <2>2. Is(Times(Number(10), g.inc), 10 * (i * f), 1 * ff)
    <3>1. Is(Number(10), 10, 1) /\ 10 \in Nat /\ 1 \in Nat \ {0}
      BY NumberIs
    <3>2. QED
      BY ONLY ff \in Nat \ {0}, <1>5, <1>6, <3>1, TimesIs
  <2>3. Is(Label(10), ((s + i) * f) * ff + (10 * (i * f)) * ff, ff * ff)
    <3>1. 1 * ff = ff /\ 10 * (i * f) \in Nat
      BY <1>5
    <3>2. QED
      BY <1>5, <1>6, <2>2, <3>1, PlusIs
  <2>4. Is(Label(10), (s + 11 * i) * f, ff)
    <3>1. /\ ((s + i) * f) * ff + (10 * (i * f)) * ff \in Nat
          /\ ff * ff \in Nat \ {0} /\ (s + 11 * i) * f \in Nat
      BY <1>2, <1>5, Z3
    <3>2. (s + 11 * i) * f = (s + i) * f + 10 * (i * f)
      BY <1>2, Z3
    <3>3. (((s + i) * f) * ff + (10 * (i * f)) * ff) * ff = ((s + 11 * i) * f) * (ff * ff)
      <4>1. PICK a, b : a = (s + i) * f /\ b = 10 * (i * f)
        OBVIOUS
      <4>2. a \in Nat /\ b \in Nat
        BY <1>5, <4>1
      <4>3. (a * ff + b * ff) * ff = (a + b) * (ff * ff)
        BY <4>2, Z3
      <4>4. QED
        BY <3>2, <4>1, <4>3
    <3>4. QED
      <4> HIDE DEF Label
      <4>1. QED
        BY <2>3, <3>1, <3>3, IsToo
  <2>5. 10 \in Past
    <3>1. (s + 11 * i) * f \in Nat
      BY <1>2, Z3
    <3>2. Less(vEnd, Label(10)) <=> m * ff < ((s + 11 * i) * f) * d
      <4> HIDE DEF Label
      <4>1. QED
        BY <2>4, <3>1, LessIs
    <3>3. QED
      BY <1>1, <3>2
  <2>6. Least(Past) \in Nat /\ Least(Past) <= 10
    <3>1. Past \subseteq Nat
      OBVIOUS
    <3> HIDE DEF Past
    <3>2. QED
      BY <2>5, <3>1, LeastIs
  <2>7. QED
    BY <2>1, <2>6
<1>10. QED
  BY <1>3, <1>7, <1>8, <1>9

-----------------------------------------------------------------------------
(* The powers of ten that are chosen.                                      *)

Highest == 999999
LEMMA HighestNumber == Highest \in Nat /\ Highest > 10
BY Z3 DEF Highest

LEMMA ScaleIs ==
  ASSUME NEW d \in Nat \ {0}, NEW m \in Nat, m # 0 => d < 10000 * m, m <= Highest * d
  PROVE  Scale(Ratio(m, d)) \in Tens /\ m * Scale(Ratio(m, d)) <= Highest * d
<1>1. PICK v : v = Ratio(m, d)
  OBVIOUS
<1>2. Is(v, m, d) /\ (m = 0 => v = <<0, 1>>)
  BY <1>1, RatioIs
<1>3. CASE m = 0
  <2>1. Scale(v) = 1
    BY <1>2, <1>3 DEF Scale, Number
  <2>2. QED
    BY <1>1, <1>3, <2>1 DEF Tens
<1>4. CASE m # 0
  <2>1. v # Number(0)
    <3>1. m * 1 = 0 * d => m = 0
      OBVIOUS
    <3>2. v = Number(0) => 0 * d = m * 1
      BY <1>2 DEF Is, Number
    <3>3. QED
      BY <1>4, <3>1, <3>2
  <2> DEFINE S == {t \in Tens : Less(Number(1), Times(v, Number(t)))}
  <2>2. S = {t \in Tens : Less(Number(1), Times(v, Number(t)))}
    OBVIOUS
  <2>3. Scale(v) = Least(S)
    BY <2>1 DEF Scale
  <2>4. ASSUME NEW t \in Tens PROVE t \in S <=> d < m * t
    <3>1. t \in Nat /\ 1 \in Nat \ {0} /\ d * 1 = d /\ 1 * d = d
      BY DEF Tens
    <3>2. Is(Number(t), t, 1) /\ Is(Number(1), 1, 1)
      BY <3>1, NumberIs
    <3>3. Is(Times(v, Number(t)), m * t, d * 1)
      BY ONLY <1>2, <3>1, <3>2, d \in Nat \ {0}, m \in Nat, TimesIs
    <3>4. m * t \in Nat
      BY <3>1, Z3
    <3>5. Less(Number(1), Times(v, Number(t))) <=> 1 * d < (m * t) * 1
      BY ONLY <3>1, <3>2, <3>3, <3>4, d \in Nat \ {0}, LessIs
    <3>6. (m * t) * 1 = m * t
      BY <3>4
    <3>7. QED
      BY <2>2, <3>1, <3>5, <3>6
  <2> HIDE DEF S
  <2>5. S \subseteq Nat
    BY <2>2 DEF Tens
  <2>6. 10000 \in S
    BY <1>4, <2>4 DEF Tens
  <2>7. PICK ff : ff = Least(S)
    OBVIOUS
  <2>8. ff \in S /\ \A t \in S : ff <= t
    <3>1. S # {}
      BY <2>6
    <3>2. Least(S) \in S /\ \A t \in S : Least(S) <= t
      BY ONLY <2>5, <3>1, LeastIs
    <3>3. QED
      BY ONLY <2>7, <3>2
  <2>9. ff \in Tens
    BY <2>2, <2>8
  <2>10. ff # 1 => m * ff <= 10 * d
    <3>1. 10 \in Tens /\ 100 \in Tens /\ 1000 \in Tens /\ 1 \in Tens
      BY DEF Tens
    <3>2. \A t \in Tens : t < ff => m * t <= d
      <4> TAKE t \in Tens
      <4>1. t < ff => t \notin S
        BY <2>8, <2>9 DEF Tens
      <4>2. QED
        BY <2>4, <4>1 DEF Tens
    <3>3. QED
      BY <2>9, <3>1, <3>2 DEF Tens
  <2>11. m * ff <= Highest * d
    <3>1. 10 * d <= Highest * d
      BY HighestNumber, Z3
    <3>2. m * ff \in Int /\ Highest * d \in Int
      BY <2>9, HighestNumber, Z3 DEF Tens
    <3>3. CASE ff = 1
      BY <3>3
    <3>4. CASE ff # 1
      BY <2>10, <3>1, <3>2, <3>4
    <3>5. QED
      BY <3>3, <3>4
  <2>12. QED
    BY <1>1, <2>3, <2>7, <2>9, <2>11
<1>5. QED
  BY <1>1, <1>3, <1>4

LEMMA UnitIs ==
  ASSUME NEW a \in Nat, NEW b \in Nat, a < b, b - a <= Highest,
         NEW f, f = Unit(b - a)
  PROVE  /\ f \in Nat \ {0}
         /\ a \div f \in Nat /\ b \div f \in Nat /\ a \div f <= b \div f
         /\ (a \div f) * f <= a /\ b < (b \div f + 1) * f
         /\ b \div f - a \div f <= 100
<1>1. PICK S : S = {t \in Tens : (b - a) \div t < 100}
  OBVIOUS
<1>2. S \subseteq Nat /\ 10000 \in S
  BY <1>1, Z3 DEF Tens, Highest
<1>3. f \in S
  <2>1. f = Least(S)
    BY <1>1 DEF Unit
  <2>2. Least(S) \in S
    <3>1. S \subseteq Nat /\ S # {}
      BY <1>2
    <3>2. QED
      BY ONLY <3>1, LeastIs
  <2>3. QED
    BY <2>1, <2>2
<1>4. f \in {1, 10, 100, 1000, 10000} /\ (b - a) \div f < 100
  BY <1>1, <1>3 DEF Tens
<1>5. QED
  BY <1>4

(* All values that Tens is enough for are on the axis that GetAxis() gives *)
(* for them, and it has at most eleven labels.                             *)
THEOREM ValuesOnAxis ==
  ASSUME NEW d \in Nat \ {0}, NEW n \in Nat, NEW m \in Nat, n <= m,
         m # 0 => d < 10000 * m, m <= Highest * d
  PROVE  AxisFits(Ratio(n, d), Ratio(m, d))
<1>1. PICK vMin, vMax : vMin = Ratio(n, d) /\ vMax = Ratio(m, d)
  OBVIOUS
<1>2. Is(vMin, n, d) /\ Is(vMax, m, d)
  BY <1>1, RatioIs
<1>3. PICK ff : ff = Scale(vMax)
  OBVIOUS
<1>4. ff \in Nat \ {0} /\ m * ff <= Highest * d
  BY <1>1, <1>3, ScaleIs DEF Tens
<1>5. PICK N, M : N = n * ff /\ M = m * ff
  OBVIOUS
<1>6. N \in Nat /\ M \in Nat /\ N <= M /\ M <= Highest * d
  BY <1>4, <1>5, Z3
<1>7. PICK lo, hi, up : /\ lo = Times(vMin, Number(ff)) /\ hi = Times(vMax, Number(ff))
                        /\ up = Plus(hi, Ratio(99, 100))
  OBVIOUS
<1>8. Is(lo, N, d) /\ Is(hi, M, d)
  <2>1. Is(Number(ff), ff, 1) /\ 1 \in Nat \ {0} /\ d * 1 = d
    BY <1>4, NumberIs
  <2>2. Is(lo, n * ff, d * 1)
    BY ONLY <1>2, <1>4, <1>7, <2>1, d \in Nat \ {0}, n \in Nat, TimesIs
  <2>3. Is(hi, m * ff, d * 1)
    BY ONLY <1>2, <1>4, <1>7, <2>1, d \in Nat \ {0}, m \in Nat, TimesIs
  <2>4. QED
    BY <1>5, <2>1, <2>2, <2>3
<1>9. Is(up, M * 100 + 99 * d, d * 100)
  <2>1. Is(Ratio(99, 100), 99, 100) /\ 99 \in Nat /\ 100 \in Nat \ {0}
    BY RatioIs
  <2>2. QED
    BY ONLY <1>6, <1>7, <1>8, <2>1, d \in Nat \ {0}, PlusIs
<1>10. PICK a, b0 : a = Whole0(lo) /\ b0 = Whole0(up)
  OBVIOUS
<1>11. a \in Nat /\ a * d <= N /\ N < (a + 1) * d
  BY <1>6, <1>8, <1>10, CutIs
<1>12. b0 \in Nat /\ b0 * (d * 100) <= M * 100 + 99 * d /\ M * 100 + 99 * d < (b0 + 1) * (d * 100)
  <2>1. M * 100 + 99 * d \in Nat /\ d * 100 \in Nat \ {0}
    BY <1>6
  <2>2. QED
    BY <1>9, <1>10, <2>1, CutIs
<1>13. M * 100 < (100 * b0 + 1) * d
  <2>1. (b0 + 1) * (d * 100) = (100 * b0 + 1) * d + 99 * d
    BY <1>12, Z3
  <2>2. (100 * b0 + 1) * d \in Int
    BY <1>12, Z3
  <2>3. QED
    BY <1>6, <1>12, <2>1, <2>2
<1>14. a <= b0 /\ b0 <= Highest
  <2>1. (100 * a) * d < (100 * b0 + 1) * d
    <3>1. (100 * a) * d = 100 * (a * d) /\ a * d \in Int
      BY <1>11, Z3
    <3>2. (100 * b0 + 1) * d \in Int
      BY <1>12, Z3
    <3>3. QED
      BY <1>6, <1>11, <1>13, <3>1, <3>2
  <2>2. 100 * a < 100 * b0 + 1
    BY <1>11, <1>12, <2>1, ScaledLess
  <2>3. (100 * b0) * d < (100 * (Highest + 1)) * d
    <3>1. (100 * b0) * d = b0 * (d * 100)
      BY <1>12, Z3
    <3>2. (100 * (Highest + 1)) * d = 100 * (Highest * d) + 100 * d /\ Highest * d \in Int
      BY HighestNumber, Z3
    <3>3. b0 * (d * 100) \in Int
      BY <1>12, Z3
    <3>4. QED
      BY <1>6, <1>12, <3>1, <3>2, <3>3
  <2>4. 100 * b0 < 100 * (Highest + 1)
    <3>1. 100 * b0 \in Int /\ 100 * (Highest + 1) \in Int
      BY <1>12, HighestNumber
    <3>2. QED
      BY ONLY <2>3, <3>1, d \in Nat \ {0}, ScaledLess
  <2>5. QED
    BY <1>11, <1>12, <2>2, <2>4, HighestNumber
<1>15. PICK b : b = IF b0 = a THEN a + 1 ELSE b0
  OBVIOUS
<1>16. b \in Nat /\ a < b /\ b0 <= b /\ b - a <= Highest
  BY <1>11, <1>12, <1>14, <1>15, HighestNumber
<1>17. PICK f : f = Unit(b - a)
  OBVIOUS
<1>18. PICK v0, w : v0 = a \div f /\ w = b \div f
  OBVIOUS
<1>19. /\ f \in Nat \ {0} /\ v0 \in Nat /\ w \in Nat /\ v0 <= w
       /\ v0 * f <= a /\ b < (w + 1) * f /\ w - v0 <= 100
  BY <1>11, <1>16, <1>17, <1>18, UnitIs
<1>20. PICK v1 : v1 = IF ~(\E k \in 0 .. a : lo = Number(k * f)) /\ hi = Number(w)
                     THEN w + 1 ELSE w
  OBVIOUS
<1>21. GetInc(vMin, vMax) = Spread(ff, f, v0, v1)
  <2>1. GetInc(vMin, vMax) = InUnits(ff, f, lo, hi, a, b)
    <3>1. b0 = Whole99(hi)
      BY <1>7, <1>10 DEF Whole99
    <3>2. QED
      BY ONLY <1>3, <1>7, <1>10, <1>15, <1>17, <3>1, Zenon DEF GetInc
  <2>2. InUnits(ff, f, lo, hi, a, b) = Spread(ff, f, v0, v1)
    BY ONLY <1>18, <1>20, Zenon DEF InUnits
  <2>3. QED
    BY <2>1, <2>2
<1>22. v1 \in Nat /\ v0 <= v1 /\ v1 - v0 <= 101
       /\ (v1 = w \/ (v1 = w + 1 /\ hi = Number(w)))
  BY <1>19, <1>20
<1>23. PICK x : x = Start(v0, v1) + 11 * Step(v0, v1)
  OBVIOUS
<1>24. x \in Nat /\ w + 1 <= x
  <2>1. /\ Step(v0, v1) \in {1, 2, 5, 10} /\ Start(v0, v1) \in Nat
        /\ v1 <= x /\ (v1 - v0 <= 100 => v1 + 1 <= x)
    BY ONLY <1>19, <1>22, <1>23, Reach
  <2>2. x \in Nat
    BY <1>23, <2>1
  <2>3. QED
    BY <1>19, <1>22, <2>1, <2>2
<1>25. (w + 1) * f <= x * f /\ (w + 1) * f \in Nat /\ x * f \in Nat
  BY <1>19, <1>24, Z3
<1>26. M < (x * f) * d
  <2>1. CASE v1 = w
    <3>1. 100 * b0 + 1 < 100 * (x * f)
      BY <1>12, <1>16, <1>19, <1>25
    <3>2. (100 * b0 + 1) * d < (100 * (x * f)) * d
      BY <1>12, <1>25, <3>1, ScaledLess
    <3>3. (100 * (x * f)) * d = 100 * ((x * f) * d) /\ (x * f) * d \in Int
          /\ (100 * b0 + 1) * d \in Int
      BY <1>12, <1>25, Z3
    <3>4. QED
      BY <1>6, <1>13, <3>2, <3>3
  <2>2. CASE hi = Number(w)
    <3>1. w * d = M * 1
      BY <1>8, <2>2 DEF Is, Number
    <3>2. w < x * f
      <4>1. w + 1 <= (w + 1) * f
        BY <1>19, Z3
      <4>2. QED
        BY <1>19, <1>25, <4>1
    <3>3. w * d < (x * f) * d
      BY <1>19, <1>25, <3>2, ScaledLess
    <3>4. QED
      BY <1>6, <3>1, <3>3
  <2>3. QED
    BY <1>22, <2>1, <2>2
<1>27. (v0 * f) * d <= N
  <2>1. v0 * f \in Nat
    BY <1>19, Z3
  <2>2. (v0 * f) * d <= a * d /\ (v0 * f) * d \in Int /\ a * d \in Int
    BY <1>11, <1>19, <2>1, Z3
  <2>3. QED
    BY <1>6, <1>11, <2>2
<1>28. LET axis == AxisOf(Spread(ff, f, v0, v1), vMax)
       IN  ~Less(vMin, axis.origin) /\ axis.labels <= 11
  <2>1. (v0 * f) * d <= n * ff /\ m * ff < ((Start(v0, v1) + 11 * Step(v0, v1)) * f) * d
    BY <1>5, <1>23, <1>26, <1>27
  <2>2. QED
    BY ONLY <1>2, <1>4, <1>19, <1>22, <2>1, d \in Nat \ {0}, n \in Nat, m \in Nat,
            AxisReaches
<1>29. QED
  BY <1>1, <1>21, <1>28 DEF AxisFits, GetAxis
=============================================================================
