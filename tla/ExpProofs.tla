----------------------------- MODULE ExpProofs -----------------------------
(***************************************************************************)
(* Proofs about Exp for any files, commands and number of commands.        *)
(***************************************************************************)
EXTENDS Exp, FiniteSetTheorems, WellFoundedInduction, TLAPS

LEMMA SameOperators ==
  /\ \A s : T!ToSet(s) = ToSet(s)
  /\ \A x, y : T!Less(x, y) <=> Less(x, y)
  /\ \A x : T!Val(x) = Val(x)
  /\ \A S : T!Cardinality(S) = Cardinality(S)
<1>1. \A s : T!ToSet(s) = ToSet(s)
  BY DEF T!ToSet, ToSet
<1>2. \A x, y : T!Less(x, y) <=> Less(x, y)
  BY DEF T!Less, Less
<1>3. \A x : T!Val(x) = Val(x)
  BY DEF T!Val, Val
<1>4. \A S : T!Cardinality(S) = Cardinality(S)
  BY DEF T!Cardinality, Cardinality
<1>5. QED
  BY <1>1, <1>2, <1>3, <1>4

(* Lists.                                                                  *)
LEMMA ListOf ==
  ASSUME NEW W, NEW s \in Seq(W) PROVE List(s)
BY DEF List, ToSet

LEMMA ListAt ==
  ASSUME NEW s, List(s)
  PROVE  /\ Len(s) \in Nat /\ DOMAIN s = 1..Len(s)
         /\ s = [i \in 1..Len(s) |-> s[i]]
         /\ \A x : x \in ToSet(s) <=> \E i \in 1..Len(s) : s[i] = x
BY DEF List, ToSet

LEMMA ListMade ==
  ASSUME NEW n \in Nat, NEW s, s = [i \in 1..n |-> s[i]]
  PROVE  List(s) /\ Len(s) = n
BY DEF List, ToSet

LEMMA ListIn ==
  ASSUME NEW s, List(s), NEW W, ToSet(s) \subseteq W
  PROVE  s \in Seq(W)
<1>1. Len(s) \in Nat /\ s = [i \in 1..Len(s) |-> s[i]] /\ \A i \in 1..Len(s) : s[i] \in W
  BY ListAt
<1>2. QED
  BY <1>1

LEMMA AppendedList ==
  ASSUME NEW s, NEW e, List(s)
  PROVE  /\ List(Append(s, e)) /\ Len(Append(s, e)) = Len(s) + 1
         /\ \A i \in 1..Len(s) : Append(s, e)[i] = s[i]
         /\ Append(s, e)[Len(s) + 1] = e
<1> DEFINE W == ToSet(s) \cup {e}
<1>0. ToSet(s) \subseteq W
  OBVIOUS
<1>2. e \in W
  OBVIOUS
<1> HIDE DEF W
<1>1. s \in Seq(W)
  BY <1>0, ListIn
<1>3. Append(s, e) \in Seq(W)
  BY <1>1, <1>2
<1>4. List(Append(s, e))
  BY <1>3, ListOf
<1>5. QED
  BY <1>1, <1>2, <1>4

LEMMA JoinedLists ==
  ASSUME NEW s, NEW t, List(s), List(t)
  PROVE  /\ List(s \o t) /\ Len(s \o t) = Len(s) + Len(t)
         /\ \A i \in 1..Len(s) : (s \o t)[i] = s[i]
         /\ \A i \in 1..Len(t) : (s \o t)[Len(s) + i] = t[i]
<1> DEFINE W == ToSet(s) \cup ToSet(t)
<1>0. ToSet(s) \subseteq W /\ ToSet(t) \subseteq W
  OBVIOUS
<1> HIDE DEF W
<1>1. s \in Seq(W) /\ t \in Seq(W)
  BY <1>0, ListIn
<1>2. s \o t \in Seq(W)
  BY <1>1
<1>3. List(s \o t)
  BY <1>2, ListOf
<1>4. QED
  BY <1>1, <1>3

-----------------------------------------------------------------------------
(* Induction is by the least number that a set of numbers has.             *)

LEMMA LeastNumber ==
  ASSUME NEW S, S \subseteq Nat, S # {}
  PROVE  \E n \in S : \A m \in S : ~(m < n)
<1> DEFINE R == OpToRel(<, Nat)
<1>1. IsWellFoundedOn(R, Nat)
  BY NatLessThanWellFounded
<1>2. \A m, n \in Nat : m < n => <<m, n>> \in R
  BY DEF OpToRel
<1> HIDE DEF R
<1>3. PICK n \in S : \A m \in S : ~(<<m, n>> \in R)
  BY <1>1, WFMin
<1>4. QED
  BY <1>2, <1>3

LEMMA EveryNumber ==
  ASSUME NEW S, 0 \in S, \A n \in Nat : n \in S => n + 1 \in S
  PROVE  Nat \subseteq S
<1> SUFFICES ASSUME Nat \ S # {} PROVE FALSE
  OBVIOUS
<1>1. PICK n \in Nat \ S : \A m \in Nat \ S : ~(m < n)
  BY LeastNumber
<1>2. n # 0 /\ n - 1 \in Nat /\ n - 1 \in S
  BY <1>1
<1>3. QED
  BY <1>2

-----------------------------------------------------------------------------
(* A finite set of numbers can be put in order.                            *)

LEMMA ScaledOrder ==
  ASSUME NEW x \in Int, NEW y \in Int, NEW d \in Nat, d > 0
  PROVE  x <= y <=> x * d <= y * d
OBVIOUS

LEMMA CrossOrder ==
  ASSUME NEW a \in Int, NEW c \in Int, NEW e \in Int,
         NEW b \in Nat, NEW d \in Nat, NEW f \in Nat, b > 0, d > 0, f > 0,
         a * d <= c * b, c * f <= e * d
  PROVE  a * f <= e * b
<1>1. (a * d) * f <= (c * b) * f
  BY ScaledOrder
<1>2. (c * f) * b <= (e * d) * b
  BY ScaledOrder
<1>3. (a * f) * d <= (e * b) * d
  BY <1>1, <1>2
<1>4. a * f \in Int /\ e * b \in Int
  OBVIOUS
<1>5. QED
  BY <1>3, <1>4, ScaledOrder

AtMost(a, b) == ~Less(Val(b), Val(a))

LEMMA NumbersOrdered ==
  ASSUME NEW x \in IterCells, NEW y \in IterCells, NEW z \in IterCells
  PROVE  /\ AtMost(x, y) \/ AtMost(y, x)
         /\ AtMost(x, y) /\ AtMost(y, z) => AtMost(x, z)
<1>1. /\ x[2] \in Int /\ y[2] \in Int /\ z[2] \in Int
      /\ x[3] \in Nat /\ y[3] \in Nat /\ z[3] \in Nat
      /\ x[3] > 0 /\ y[3] > 0 /\ z[3] > 0
  BY DEF IterCells
<1>2. /\ AtMost(x, y) <=> x[2] * y[3] <= y[2] * x[3]
      /\ AtMost(y, x) <=> y[2] * x[3] <= x[2] * y[3]
      /\ AtMost(y, z) <=> y[2] * z[3] <= z[2] * y[3]
      /\ AtMost(x, z) <=> x[2] * z[3] <= z[2] * x[3]
  BY <1>1 DEF AtMost, Less, Val
<1>3. AtMost(x, y) \/ AtMost(y, x)
  BY <1>1, <1>2
<1>4. AtMost(x, y) /\ AtMost(y, z) => AtMost(x, z)
  BY <1>1, <1>2, CrossOrder
<1>5. QED
  BY <1>3, <1>4

(* s is S, which has n elements, in order.                                 *)
InTurn(S, n, s) ==
  /\ s \in [1..n -> S]
  /\ \A x \in S : \E i \in 1..n : s[i] = x
  /\ \A i, j \in 1..n : i # j => s[i] # s[j]
  /\ \A i, j \in 1..n : i < j => AtMost(s[i], s[j])

LEMMA GreatestLast ==
  ASSUME NEW S, S \subseteq IterCells, NEW m \in S, \A k \in S : AtMost(k, m),
         NEW n \in Nat, NEW s, InTurn(S \ {m}, n, s)
  PROVE  \E t : InTurn(S, n + 1, t)
<1> DEFINE t == [i \in 1..(n + 1) |-> IF i = n + 1 THEN m ELSE s[i]]
<1>1. \A i \in 1..n : t[i] = s[i] /\ s[i] \in S \ {m}
  BY DEF InTurn
<1>2. t[n + 1] = m /\ n + 1 \in 1..(n + 1)
  OBVIOUS
<1>3. t \in [1..(n + 1) -> S]
  <2>1. \A i \in 1..(n + 1) : i # n + 1 => i \in 1..n
    OBVIOUS
  <2>2. \A i \in 1..n : s[i] \in S
    BY <1>1
  <2>3. \A i \in 1..(n + 1) : (IF i = n + 1 THEN m ELSE s[i]) \in S
    BY <2>1, <2>2
  <2>4. QED
    BY <2>3
<1> HIDE DEF t
<1>4. \A i \in 1..(n + 1) : i \in 1..n \/ i = n + 1
  OBVIOUS
<1>5. \A x \in S : \E i \in 1..(n + 1) : t[i] = x
  <2> TAKE x \in S
  <2>1. CASE x = m
    BY <2>1, <1>2
  <2>2. CASE x # m
    <3>1. PICK i \in 1..n : s[i] = x
      BY <2>2 DEF InTurn
    <3>2. i \in 1..(n + 1)
      OBVIOUS
    <3>3. QED
      BY <1>1, <3>1, <3>2
  <2>3. QED
    BY <2>1, <2>2
<1>6. \A i, j \in 1..(n + 1) : i # j => t[i] # t[j]
  BY <1>1, <1>2, <1>4 DEF InTurn
<1>7. \A i, j \in 1..(n + 1) : i < j => AtMost(t[i], t[j])
  <2> TAKE i, j \in 1..(n + 1)
  <2> HAVE i < j
  <2>1. i \in 1..n
    OBVIOUS
  <2>2. CASE j = n + 1
    BY <2>1, <2>2, <1>1, <1>2
  <2>3. CASE j \in 1..n
    BY <2>1, <2>3, <1>1 DEF InTurn
  <2>4. QED
    BY <1>4, <2>2, <2>3
<1>8. QED
  BY <1>3, <1>5, <1>6, <1>7 DEF InTurn

LEMMA OrderExists ==
  ASSUME NEW n \in Nat, NEW S, S \subseteq IterCells, IsFiniteSet(S), Cardinality(S) = n
  PROVE  \E s : InTurn(S, n, s)
<1> DEFINE Sets(k) == {A \in SUBSET S : IsFiniteSet(A) /\ Cardinality(A) = k}
           P == {k \in Nat : \A A \in Sets(k) : \E s : InTurn(A, k, s)}
<1>1. 0 \in P
  <2> SUFFICES ASSUME NEW A \in Sets(0) PROVE \E s : InTurn(A, 0, s)
    OBVIOUS
  <2>1. A = {}
    BY FS_EmptySet
  <2>2. InTurn({}, 0, <<>>)
    BY DEF InTurn
  <2>3. QED
    BY <2>1, <2>2
<1>2. ASSUME NEW k \in Nat, k \in P PROVE k + 1 \in P
  <2> SUFFICES ASSUME NEW A \in Sets(k + 1) PROVE \E s : InTurn(A, k + 1, s)
    OBVIOUS
  <2>1. A # {}
    BY FS_EmptySet
  <2>2. ASSUME NEW x \in A PROVE \E s : InTurn(A \ {x}, k, s)
    <3>1. IsFiniteSet(A \ {x}) /\ Cardinality(A \ {x}) = k
      <4>1. IsFiniteSet(A) /\ Cardinality(A) = k + 1
        OBVIOUS
      <4>2. /\ IsFiniteSet(A \ {x})
            /\ Cardinality(A \ {x}) = Cardinality(A) - 1
        BY <4>1, FS_RemoveElement
      <4>3. QED
        BY <4>1, <4>2
    <3>2. QED
      BY <3>1, <1>2
  <2>3. PICK x : x \in A
    BY <2>1
  <2>4. PICK s : InTurn(A \ {x}, k, s)
    BY <2>2, <2>3
  <2>5. A \subseteq IterCells
    OBVIOUS
  <2>6. ASSUME NEW y, y \in A PROVE AtMost(y, y)
    BY <2>5, <2>6, NumbersOrdered
  <2>7. ASSUME NEW m \in A, \A y \in A : AtMost(y, m)
        PROVE  \E t : InTurn(A, k + 1, t)
    <3>1. PICK t : InTurn(A \ {m}, k, t)
      BY <2>2
    <3>2. QED
      BY <2>5, <2>7, <3>1, GreatestLast
  <2> HIDE DEF Sets, P
  <2>8. CASE \A y \in A : AtMost(y, x)
    BY <2>3, <2>7, <2>8
  <2>9. CASE ~(\A y \in A : AtMost(y, x))
    <3>1. PICK y \in A : ~AtMost(y, x)
      BY <2>9
    <3>2. y # x /\ AtMost(x, y)
      BY <2>3, <2>5, <2>6, <3>1, NumbersOrdered
    <3>3. PICK i \in 1..k : s[i] = y
      BY <2>4, <3>2 DEF InTurn
    <3>4. k \in 1..k /\ i <= k
      OBVIOUS
    <3>5. s[k] \in A
      BY <2>4, <3>4 DEF InTurn
    <3>6. \A z \in A \ {x} : AtMost(z, s[k])
      <4> TAKE z \in A \ {x}
      <4>1. PICK j \in 1..k : s[j] = z
        BY <2>4 DEF InTurn
      <4>2. CASE j = k
        BY <4>1, <4>2, <2>6, <3>5
      <4>3. CASE j < k
        BY <4>1, <4>3, <2>4, <3>4 DEF InTurn
      <4>4. QED
        BY <4>2, <4>3
    <3>7. AtMost(x, s[k])
      <4>1. AtMost(y, s[k])
        BY <3>2, <3>6
      <4>2. QED
        BY <2>3, <2>5, <3>2, <3>5, <4>1, NumbersOrdered
    <3>8. \A z \in A : AtMost(z, s[k])
      BY <3>6, <3>7
    <3>9. QED
      BY <2>7, <3>5, <3>8
  <2>10. QED
    BY <2>8, <2>9
<1>3. n \in P
  <2> HIDE DEF P
  <2>1. Nat \subseteq P
    BY <1>1, <1>2, EveryNumber
  <2>2. QED
    BY <2>1
<1>4. QED
  BY <1>3

LEMMA InOrderLists ==
  ASSUME NEW S, IsFiniteSet(S)
  PROVE  /\ List(T!InOrder(S)) /\ ToSet(T!InOrder(S)) \subseteq S
         /\ \A s \in T!SetToSeqs(S) : T!Ordered(s) => T!Ordered(T!InOrder(S))
<1> DEFINE n == Cardinality(S)
           Q(s) == {f \in T!SetToSeqs(S) : T!Ordered(f)} = {} \/ s \in {f \in T!SetToSeqs(S) : T!Ordered(f)}
<1>1. n \in Nat
  BY FS_CardinalityType
<1>2. \A f : f \in T!SetToSeqs(S) <=>
        f \in [1..n -> S] /\ \A i, j \in 1..n : i # j => f[i] # f[j]
  BY SameOperators DEF T!SetToSeqs
<1>3. PICK s : s \in T!SetToSeqs(S)
  <2>1. PICK m \in Nat : ExistsBijection(1..m, S)
    BY FS_NatBijection
  <2>2. m = n
    BY <2>1, FS_CountingElements
  <2>3. PICK f : f \in Bijection(1..n, S)
    BY <2>1, <2>2 DEF ExistsBijection
  <2>4. f \in [1..n -> S] /\ \A i, j \in 1..n : f[i] = f[j] => i = j
    BY <2>3 DEF Bijection, Injection, IsInjective
  <2>5. QED
    BY <1>2, <2>4
<1>4. T!InOrder(S) = CHOOSE f \in T!SetToSeqs(S) : Q(f)
  BY DEF T!InOrder
<1>5. \E f \in T!SetToSeqs(S) : Q(f)
  BY <1>3
<1>6. T!InOrder(S) \in T!SetToSeqs(S) /\ Q(T!InOrder(S))
  <2> HIDE DEF Q
  <2>1. QED
    BY <1>4, <1>5
<1>7. T!InOrder(S) \in [1..n -> S]
  BY <1>2, <1>6
<1>8. T!InOrder(S) \in Seq(S)
  <2> HIDE DEF n
  <2>1. QED
    BY <1>1, <1>7
<1>9. List(T!InOrder(S)) /\ ToSet(T!InOrder(S)) \subseteq S
  BY <1>8, ListOf DEF ToSet
<1>10. QED
  BY <1>6, <1>9

(* select= leaves numbers in their order.                                  *)
LEMMA Sorted ==
  ASSUME NEW S, S \subseteq IterCells, IsFiniteSet(S)
  PROVE  /\ List(T!InOrder(S)) /\ ToSet(T!InOrder(S)) \subseteq S
         /\ T!Ordered(T!InOrder(S))
<1> DEFINE n == Cardinality(S)
<1>1. n \in Nat
  BY FS_CardinalityType
<1>2. PICK s : InTurn(S, n, s)
  BY <1>1, OrderExists
<1>3. \A f : f \in T!SetToSeqs(S) <=>
        f \in [1..n -> S] /\ \A i, j \in 1..n : i # j => f[i] # f[j]
  BY SameOperators DEF T!SetToSeqs
<1>4. s \in T!SetToSeqs(S)
  BY <1>2, <1>3 DEF InTurn
<1>5. DOMAIN s = 1..n
  BY <1>2 DEF InTurn
<1>6. T!Ordered(s)
  BY <1>2, <1>5, SameOperators DEF InTurn, AtMost, T!Ordered
<1>7. QED
  BY <1>4, <1>6, InOrderLists

-----------------------------------------------------------------------------
(* The loops of exp.py: Step is a turn of the one that p names, which goes *)
(* from s with the element e of a list; h[i] is what it has after i turns. *)

Step(p, s, e) ==
  CASE p[1] = "select"  -> s \cup getSelectedRows(e, ToSet(SelectedRowList) \ s)
    [] p[1] = "rows"    -> IF e = T!AllRows THEN ReadRowList
                           ELSE IF e \in DOMAIN iterDict THEN Append(s, e) ELSE s
    [] p[1] = "average" -> AverageRow(s, iterDict[e], p[2], p[3], p[4])
    [] p[1] = "divide"  -> [s EXCEPT ![p[2][e]] = Divided(@, p[3][e], p[4], p[5])]
    [] p[1] = "those"   -> IF e \in p[2] THEN Append(s, e) ELSE s
    [] p[1] = "distinct" -> IF e \in ToSet(s) THEN s ELSE Append(s, e)

Turns(p, base, seq, n, h) ==
  h[0] = base /\ \A i \in 1..n : h[i] = Step(p, h[i - 1], seq[i])

(* g is the function that FoldLeft is defined with.                        *)
Iterates(p, base, seq, g, D) ==
  g = [s \in SUBSET D |->
         IF s = {} THEN base ELSE Step(p, g[s \ {Max(s)}], seq[Max(s)])]

LEMMA MaxOf ==
  ASSUME NEW m \in Nat, NEW s, s \subseteq 0..m, s # {}
  PROVE  Max(s) \in s /\ \A x \in s : x <= Max(s)
<1> DEFINE U == {m - x : x \in s}
<1>1. U \subseteq Nat /\ U # {}
  <2>1. \A x \in s : m - x \in Nat
    OBVIOUS
  <2>2. PICK x : x \in s
    OBVIOUS
  <2>3. m - x \in U
    BY <2>2
  <2>4. QED
    BY <2>1, <2>3
<1> HIDE DEF U
<1>2. PICK u \in U : \A v \in U : ~(v < u)
  BY <1>1, LeastNumber
<1>3. PICK x \in s : u = m - x
  BY DEF U
<1>4. \A y \in s : m - y \in U
  BY DEF U
<1>5. \A y \in s : x >= y
  BY <1>2, <1>3, <1>4
<1>6. Max(s) = CHOOSE z \in s : \A y \in s : z >= y
  BY DEF Max
<1>7. Max(s) \in s /\ \A y \in s : Max(s) >= y
  BY <1>5, <1>6
<1>8. QED
  BY <1>7

LEMMA MaxIs ==
  ASSUME NEW m \in Nat, NEW s, s \subseteq 1..m, s # {}
  PROVE  Max(s) \in s /\ \A x \in s : x <= Max(s)
<1>1. s \subseteq 0..m
  OBVIOUS
<1>2. QED
  BY <1>1, MaxOf

LEMMA IteratesOnce ==
  ASSUME NEW p, NEW base, NEW seq, NEW m \in Nat, NEW f,
         Iterates(p, base, seq, f, 1..m)
  PROVE  \E g : Iterates(p, base, seq, g, 1..(m + 1))
<1>1. PICK g : g = [s \in SUBSET (1..(m + 1)) |->
                      IF m + 1 \in s THEN Step(p, f[s \ {m + 1}], seq[m + 1]) ELSE f[s]]
  OBVIOUS
<1>2. \A s \in SUBSET (1..m) : f[s] =
        IF s = {} THEN base ELSE Step(p, f[s \ {Max(s)}], seq[Max(s)])
  BY DEF Iterates
<1>3. \A s \in SUBSET (1..m) : g[s] = f[s]
  <2> TAKE s \in SUBSET (1..m)
  <2>1. s \in SUBSET (1..(m + 1)) /\ m + 1 \notin s
    OBVIOUS
  <2>2. QED
    BY <1>1, <2>1, Zenon
<1>4. ASSUME NEW s \in SUBSET (1..(m + 1))
      PROVE  g[s] = IF s = {} THEN base ELSE Step(p, g[s \ {Max(s)}], seq[Max(s)])
  <2>1. CASE m + 1 \in s
    <3>1. s # {} /\ s \ {m + 1} \in SUBSET (1..m)
      BY <2>1
    <3>2. Max(s) = m + 1
      <4>1. s \subseteq 1..(m + 1) /\ m + 1 \in Nat
        OBVIOUS
      <4>2. Max(s) \in s /\ \A x \in s : x <= Max(s)
        BY <3>1, <4>1, MaxIs
      <4>3. Max(s) \in 1..(m + 1) /\ m + 1 <= Max(s)
        BY <2>1, <4>1, <4>2, Zenon
      <4>4. QED
        BY <4>1, <4>3
    <3>3. g[s] = Step(p, f[s \ {m + 1}], seq[m + 1])
      BY <1>1, <2>1, Zenon
    <3>4. g[s \ {m + 1}] = f[s \ {m + 1}]
      BY <1>3, <3>1
    <3>5. QED
      BY <3>1, <3>2, <3>3, <3>4, Zenon
  <2>2. CASE m + 1 \notin s
    <3>0. \A x \in 1..(m + 1) : x # m + 1 => x \in 1..m
      OBVIOUS
    <3>1. s \in SUBSET (1..m) /\ s \ {Max(s)} \in SUBSET (1..m)
      BY <2>2, <3>0, Zenon
    <3>2. g[s] = f[s] /\ g[s \ {Max(s)}] = f[s \ {Max(s)}]
      BY <1>3, <3>1
    <3>3. f[s] = IF s = {} THEN base ELSE Step(p, f[s \ {Max(s)}], seq[Max(s)])
      BY <1>2, <3>1
    <3>4. QED
      BY <3>2, <3>3, Zenon
  <2>3. QED
    BY <2>1, <2>2
<1>5. DOMAIN g = SUBSET (1..(m + 1))
  BY <1>1, Zenon
<1>6. g = [s \in SUBSET (1..(m + 1)) |-> g[s]]
  BY <1>1, <1>5, Zenon
<1>7. Iterates(p, base, seq, g, 1..(m + 1))
  BY <1>4, <1>6, Zenon DEF Iterates
<1>8. QED
  BY <1>7

LEMMA IteratesExists ==
  ASSUME NEW p, NEW base, NEW seq, NEW n \in Nat
  PROVE  \E g : Iterates(p, base, seq, g, 1..n)
<1> DEFINE P == {k \in Nat : \E g : Iterates(p, base, seq, g, 1..k)}
<1>1. 0 \in P
  <2>1. PICK g : g = [s \in SUBSET {} |-> base]
    OBVIOUS
  <2>2. 1..0 = {} /\ \A s \in SUBSET {} : s = {}
    OBVIOUS
  <2>3. g = [s \in SUBSET {} |-> IF s = {} THEN base
                                 ELSE Step(p, g[s \ {Max(s)}], seq[Max(s)])]
    BY <2>1, <2>2, Zenon
  <2>4. Iterates(p, base, seq, g, 1..0)
    BY <2>2, <2>3, Zenon DEF Iterates
  <2>5. QED
    BY <2>4
<1>2. ASSUME NEW k \in Nat, k \in P PROVE k + 1 \in P
  BY <1>2, IteratesOnce
<1>3. Nat \subseteq P
  <2> HIDE DEF P
  <2>1. QED
    BY <1>1, <1>2, EveryNumber
<1>4. QED
  BY <1>3

LEMMA IteratesTurns ==
  ASSUME NEW p, NEW base, NEW seq, NEW n \in Nat, NEW g,
         Iterates(p, base, seq, g, 1..n)
  PROVE  \E h : Turns(p, base, seq, n, h) /\ g[1..n] = h[n]
<1>1. PICK h : h = [i \in 0..n |-> g[1..i]]
  OBVIOUS
<1>2. \A s \in SUBSET (1..n) : g[s] =
        IF s = {} THEN base ELSE Step(p, g[s \ {Max(s)}], seq[Max(s)])
  BY DEF Iterates
<1>3. h[0] = base
  <2>1. 1..0 = {} /\ {} \in SUBSET (1..n) /\ 0 \in 0..n
    OBVIOUS
  <2>2. g[{}] = base
    BY <1>2, <2>1, Zenon
  <2>3. h[0] = g[1..0]
    BY <1>1, <2>1, Zenon
  <2>4. QED
    BY <2>1, <2>2, <2>3
<1>4. ASSUME NEW i \in 1..n PROVE h[i] = Step(p, h[i - 1], seq[i])
  <2>1. /\ 1..i \in SUBSET (1..n) /\ 1..i # {} /\ (1..i) \ {i} = 1..(i - 1)
        /\ i \in 0..n /\ i - 1 \in 0..n
    OBVIOUS
  <2>2. Max(1..i) = i
    <3>1. Max(1..i) \in 1..i /\ \A x \in 1..i : x <= Max(1..i)
      BY <2>1, MaxIs
    <3>2. QED
      BY <3>1
  <2>3. h[i] = g[1..i] /\ h[i - 1] = g[1..(i - 1)]
    BY <1>1, <2>1, Zenon
  <2>4. g[1..i] = Step(p, g[(1..i) \ {Max(1..i)}], seq[Max(1..i)])
    BY <1>2, <2>1, Zenon
  <2>5. QED
    BY <2>1, <2>2, <2>3, <2>4, Zenon
<1>5. h[n] = g[1..n]
  <2>1. n \in 0..n
    OBVIOUS
  <2>2. QED
    BY <1>1, <2>1, Zenon
<1>6. Turns(p, base, seq, n, h)
  BY <1>3, <1>4 DEF Turns
<1>7. QED
  BY <1>5, <1>6

LEMMA SelectTurns ==
  ASSUME NEW seq, NEW n \in Nat, DOMAIN seq = 1..n, NEW base, base = {}, NEW p, p = <<"select">>
  PROVE  \E h : Turns(p, base, seq, n, h) /\ Chosen(seq) = h[n]
<1> DEFINE P(g) == g = [s \in SUBSET (1..n) |-> IF s = {} THEN base
                          ELSE LET x == Max(s) IN g[s \ {x}] \cup
                               getSelectedRows(seq[x], ToSet(SelectedRowList) \ g[s \ {x}])]
<1>1. Chosen(seq) = (CHOOSE g : P(g))[1..n]
  BY DEF Chosen, FoldLeft, MapThenFoldSet
<1>2. \A g : P(g) <=> Iterates(p, base, seq, g, 1..n)
  BY DEF Iterates, Step
<1> HIDE DEF P
<1>3. \E g : P(g)
  BY <1>2, IteratesExists
<1>4. PICK g : g = (CHOOSE f : P(f)) /\ Iterates(p, base, seq, g, 1..n)
  BY <1>2, <1>3, Zenon
<1>5. PICK h : Turns(p, base, seq, n, h) /\ g[1..n] = h[n]
  <2>1. n \in Nat /\ Iterates(p, base, seq, g, 1..n)
    BY <1>4
  <2>2. QED
    BY ONLY <2>1, IteratesTurns
<1>6. QED
  BY <1>1, <1>4, <1>5

LEMMA FoundTurns ==
  ASSUME NEW seq, NEW n \in Nat, DOMAIN seq = 1..n, NEW base, base = <<>>, NEW p, p = <<"rows">>
  PROVE  \E h : Turns(p, base, seq, n, h) /\ Found(seq) = h[n]
<1> DEFINE P(g) == g = [s \in SUBSET (1..n) |-> IF s = {} THEN base
                          ELSE LET x == Max(s) IN IF seq[x] = T!AllRows THEN ReadRowList
                               ELSE IF seq[x] \in DOMAIN iterDict
                               THEN Append(g[s \ {x}], seq[x]) ELSE g[s \ {x}]]
<1>1. Found(seq) = (CHOOSE g : P(g))[1..n]
  BY DEF Found, FoldLeft, MapThenFoldSet
<1>2. \A g : P(g) <=> Iterates(p, base, seq, g, 1..n)
  BY DEF Iterates, Step
<1> HIDE DEF P
<1>3. \E g : P(g)
  BY <1>2, IteratesExists
<1>4. PICK g : g = (CHOOSE f : P(f)) /\ Iterates(p, base, seq, g, 1..n)
  BY <1>2, <1>3, Zenon
<1>5. PICK h : Turns(p, base, seq, n, h) /\ g[1..n] = h[n]
  <2>1. n \in Nat /\ Iterates(p, base, seq, g, 1..n)
    BY <1>4
  <2>2. QED
    BY ONLY <2>1, IteratesTurns
<1>6. QED
  BY <1>1, <1>4, <1>5

LEMMA SummedTurns ==
  ASSUME NEW seq, NEW n \in Nat, DOMAIN seq = 1..n, NEW base,
         NEW rows, NEW by, NEW byCols, seq = SelectedRowList,
         base = [rows |-> rows, reps |-> <<>>, counts |-> <<>>, raised |-> FALSE],
         NEW p, p = <<"average", by, fieldDict[IterName], byCols>>
  PROVE  \E h : Turns(p, base, seq, n, h) /\ Summed(rows, by, byCols) = h[n]
<1> DEFINE P(g) == g = [s \in SUBSET (1..n) |-> IF s = {} THEN base
                          ELSE LET x == Max(s) IN AverageRow(g[s \ {x}], iterDict[seq[x]], by,
                                          fieldDict[IterName], byCols)]
<1>1. Summed(rows, by, byCols) = (CHOOSE g : P(g))[1..n]
  BY DEF Summed, FoldLeft, MapThenFoldSet
<1>2. \A g : P(g) <=> Iterates(p, base, seq, g, 1..n)
  BY DEF Iterates, Step
<1> HIDE DEF P
<1>3. \E g : P(g)
  BY <1>2, IteratesExists
<1>4. PICK g : g = (CHOOSE f : P(f)) /\ Iterates(p, base, seq, g, 1..n)
  BY <1>2, <1>3, Zenon
<1>5. PICK h : Turns(p, base, seq, n, h) /\ g[1..n] = h[n]
  <2>1. n \in Nat /\ Iterates(p, base, seq, g, 1..n)
    BY <1>4
  <2>2. QED
    BY ONLY <2>1, IteratesTurns
<1>6. QED
  BY <1>1, <1>4, <1>5

Upto(n) == [a \in 1..n |-> a]

LEMMA DividedTurns ==
  ASSUME NEW seq, NEW n \in Nat, DOMAIN seq = 1..n, NEW base,
         NEW u, NEW avgCnt, NEW byCols, base = u.rows, DOMAIN u.reps = 1..n,
         seq = Upto(n),
         NEW p, p = <<"divide", u.reps, u.counts, avgCnt, byCols>>
  PROVE  \E h : Turns(p, base, seq, n, h) /\ DividedRows(u, avgCnt, byCols) = h[n]
<1> DEFINE P(g) == g = [s \in SUBSET (1..n) |-> IF s = {} THEN base
                          ELSE LET x == Max(s) IN [g[s \ {x}] EXCEPT ![u.reps[seq[x]]] =
                                 Divided(@, u.counts[seq[x]], avgCnt, byCols)]]
<1>1. DividedRows(u, avgCnt, byCols) = (CHOOSE g : P(g))[1..n]
  BY DEF DividedRows, FoldLeft, MapThenFoldSet, Upto
<1>2. \A g : P(g) <=> Iterates(p, base, seq, g, 1..n)
  BY DEF Iterates, Step
<1> HIDE DEF P
<1>3. \E g : P(g)
  BY <1>2, IteratesExists
<1>4. PICK g : g = (CHOOSE f : P(f)) /\ Iterates(p, base, seq, g, 1..n)
  BY <1>2, <1>3, Zenon
<1>5. PICK h : Turns(p, base, seq, n, h) /\ g[1..n] = h[n]
  <2>1. n \in Nat /\ Iterates(p, base, seq, g, 1..n)
    BY <1>4
  <2>2. QED
    BY ONLY <2>1, IteratesTurns
<1>6. QED
  BY <1>1, <1>4, <1>5

-----------------------------------------------------------------------------
(* What the loops do.                                                      *)

LEMMA ChosenAmong ==
  ASSUME NEW seq, List(seq)
  PROVE  Chosen(seq) \subseteq ToSet(SelectedRowList)
<1> DEFINE R == ToSet(SelectedRowList)
<1>1. PICK p, base, n : p = <<"select">> /\ base = {} /\ n = Len(seq)
  OBVIOUS
<1>2. n \in Nat /\ DOMAIN seq = 1..n
  BY <1>1, ListAt
<1>3. PICK h : Turns(p, base, seq, n, h) /\ Chosen(seq) = h[n]
  BY <1>1, <1>2, SelectTurns
<1>4. \A i \in 1..n : h[i] = h[i - 1] \cup getSelectedRows(seq[i], R \ h[i - 1])
  BY <1>1, <1>3 DEF Turns, Step
<1>5. \A conds, S : getSelectedRows(conds, S) \subseteq S
  BY DEF getSelectedRows
<1>6. h[0] = {}
  BY <1>1, <1>3 DEF Turns
<1> DEFINE P == {k \in Nat : k <= n => h[k] \subseteq R}
<1> HIDE DEF R
<1>7. 0 \in P
  BY <1>6
<1>8. ASSUME NEW k \in Nat, k \in P PROVE k + 1 \in P
  <2> SUFFICES ASSUME k + 1 <= n PROVE h[k + 1] \subseteq R
    OBVIOUS
  <2>1. k + 1 \in 1..n /\ (k + 1) - 1 = k /\ h[k] \subseteq R
    BY <1>2, <1>8
  <2>2. h[k + 1] = h[k] \cup getSelectedRows(seq[k + 1], R \ h[k])
    BY <1>4, <2>1
  <2>3. QED
    BY <1>5, <2>1, <2>2
<1> HIDE DEF P
<1>9. n \in P
  BY <1>2, <1>7, <1>8, EveryNumber
<1>10. QED
  BY <1>2, <1>3, <1>9 DEF P, R

LEMMA FoundThere ==
  ASSUME NEW seq, List(seq), List(ReadRowList),
         T!AllRows \in ToSet(seq) => ToSet(ReadRowList) \subseteq DOMAIN iterDict
  PROVE  List(Found(seq)) /\ ToSet(Found(seq)) \subseteq DOMAIN iterDict
<1> DEFINE D == DOMAIN iterDict
<1>1. PICK p, base, n : p = <<"rows">> /\ base = <<>> /\ n = Len(seq)
  OBVIOUS
<1>2. n \in Nat /\ DOMAIN seq = 1..n /\ \A i \in 1..n : seq[i] \in ToSet(seq)
  BY <1>1, ListAt
<1>3. PICK h : Turns(p, base, seq, n, h) /\ Found(seq) = h[n]
  BY <1>1, <1>2, FoundTurns
<1>4. \A i \in 1..n : h[i] = IF seq[i] = T!AllRows THEN ReadRowList
                             ELSE IF seq[i] \in D THEN Append(h[i - 1], seq[i]) ELSE h[i - 1]
  BY <1>1, <1>3 DEF Turns, Step
<1>6. h[0] = <<>>
  BY <1>1, <1>3 DEF Turns
<1>10. ReadRowList \in Seq(D) \/ T!AllRows \notin ToSet(seq)
  BY ListIn
<1> DEFINE P == {k \in Nat : k <= n => h[k] \in Seq(D)}
<1> HIDE DEF D
<1>7. 0 \in P
  <2>1. <<>> \in Seq(D)
    OBVIOUS
  <2>2. h[0] \in Seq(D)
    BY <1>6, <2>1
  <2>3. QED
    BY <2>2
<1>8. ASSUME NEW k \in Nat, k \in P PROVE k + 1 \in P
  <2> SUFFICES ASSUME k + 1 <= n PROVE h[k + 1] \in Seq(D)
    OBVIOUS
  <2>1. k + 1 \in 1..n /\ (k + 1) - 1 = k /\ h[k] \in Seq(D)
    BY <1>2, <1>8
  <2>2. h[k + 1] = IF seq[k + 1] = T!AllRows THEN ReadRowList
                   ELSE IF seq[k + 1] \in D THEN Append(h[k], seq[k + 1]) ELSE h[k]
    BY <1>4, <2>1
  <2>3. seq[k + 1] \in D => Append(h[k], seq[k + 1]) \in Seq(D)
    BY <2>1
  <2>4. QED
    BY <1>2, <1>10, <2>1, <2>2, <2>3
<1> HIDE DEF P
<1>9. n \in P
  BY <1>2, <1>7, <1>8, EveryNumber
<1>11. Found(seq) \in Seq(D)
  BY <1>2, <1>3, <1>9 DEF P
<1>12. List(Found(seq))
  BY <1>11, ListOf
<1>13. \A x \in ToSet(Found(seq)) : x \in D
  BY <1>11, <1>12, ListAt
<1>14. QED
  BY <1>12, <1>13 DEF D

(* rows2 has rows as long as those of rows, with the same number.          *)
Alike(rows, rows2, col) ==
  /\ DOMAIN rows2 = DOMAIN rows
  /\ \A i \in DOMAIN rows : /\ List(rows2[i]) /\ Len(rows2[i]) = Len(rows[i])
                            /\ rows2[i][col] = rows[i][col]

LEMMA AlikeExcept ==
  ASSUME NEW rows, NEW rows2, NEW col, Alike(rows, rows2, col), NEW i, NEW r,
         i \in DOMAIN rows => /\ r = [j \in DOMAIN rows2[i] |-> r[j]]
                              /\ r[col] = rows2[i][col]
  PROVE  Alike(rows, [rows2 EXCEPT ![i] = r], col)
<1> DEFINE rows3 == [rows2 EXCEPT ![i] = r]
<1>1. DOMAIN rows3 = DOMAIN rows /\ \A j \in DOMAIN rows : rows3[j] = IF j = i THEN r ELSE rows2[j]
  BY DEF Alike
<1>2. i \in DOMAIN rows => List(r) /\ Len(r) = Len(rows2[i])
  <2> HAVE i \in DOMAIN rows
  <2>1. DOMAIN rows2[i] = 1..Len(rows2[i]) /\ Len(rows2[i]) \in Nat
    BY ONLY ListAt DEF Alike
  <2>2. QED
    BY <2>1, ListMade
<1> HIDE DEF rows3
<1>3. QED
  BY <1>1, <1>2 DEF Alike, rows3

(* An average has each row of the table once.                              *)
Averaging(s, rows, col, seq, n) ==
  /\ DOMAIN s = {"rows", "reps", "counts", "raised"}
  /\ Alike(rows, s.rows, col)
  /\ List(s.reps) /\ IsInjective(s.reps)
  /\ \A x \in ToSet(s.reps) : \E i \in 1..n : x = iterDict[seq[i]]

LEMMA AverageRowOnce ==
  ASSUME NEW rows, NEW col \in 1..3, NEW seq, NEW n \in Nat, NEW s,
         Averaging(s, rows, col, seq, n), NEW by, NEW byCols,
         \A i \in 1..n : iterDict[seq[i]] # iterDict[seq[n + 1]],
         \A i \in DOMAIN rows : Len(rows[i]) \in Nat /\ col <= Len(rows[i])
  PROVE  Averaging(AverageRow(s, iterDict[seq[n + 1]], by, col, byCols), rows, col, seq, n + 1)
<1>1. PICK i, row, t : /\ i = iterDict[seq[n + 1]] /\ row = s.rows[i]
                       /\ t = AverageRow(s, i, by, col, byCols)
  OBVIOUS
<1>2. \/ t = [s EXCEPT !.raised = TRUE]
      \/ t = [s EXCEPT !.reps = Append(@, i), !.counts = Append(@, 1)]
      \/ \E a, rep : t = [s EXCEPT !.counts[a] = @ + 1,
                                   !.rows[rep] = Merged(s.rows[rep], row, col, byCols)]
  BY <1>1 DEF AverageRow
<1>3. \A x \in ToSet(s.reps) : \E j \in 1..(n + 1) : x = iterDict[seq[j]]
  BY DEF Averaging
<1>4. CASE t = [s EXCEPT !.raised = TRUE]
  <2>1. DOMAIN t = DOMAIN s /\ t.rows = s.rows /\ t.reps = s.reps
    BY <1>4 DEF Averaging
  <2>2. QED
    BY <1>1, <1>3, <2>1 DEF Averaging
<1>5. CASE t = [s EXCEPT !.reps = Append(@, i), !.counts = Append(@, 1)]
  <2>1. DOMAIN t = DOMAIN s /\ t.rows = s.rows /\ t.reps = Append(s.reps, i)
    BY <1>5 DEF Averaging
  <2>2. PICK u : u = s.reps
    OBVIOUS
  <2>3. /\ List(u) /\ Len(u) \in Nat /\ List(Append(u, i)) /\ Len(Append(u, i)) = Len(u) + 1
        /\ \A j \in 1..Len(u) : Append(u, i)[j] = u[j] /\ u[j] \in ToSet(u)
        /\ Append(u, i)[Len(u) + 1] = i
        /\ DOMAIN u = 1..Len(u)
    BY <2>2, AppendedList, ListAt DEF Averaging
  <2>4. i \notin ToSet(u)
    BY <1>1, <2>2 DEF Averaging
  <2>5. DOMAIN Append(u, i) = 1..(Len(u) + 1)
    BY <2>3, ListAt
  <2>6. IsInjective(Append(u, i))
    <3> SUFFICES ASSUME NEW a \in 1..(Len(u) + 1), NEW b \in 1..(Len(u) + 1),
                        Append(u, i)[a] = Append(u, i)[b]
                 PROVE  a = b
      BY <2>5 DEF IsInjective
    <3>1. \A c \in 1..(Len(u) + 1) : c \in 1..Len(u) \/ c = Len(u) + 1
      BY <2>3
    <3>2. \A c, d \in 1..Len(u) : u[c] = u[d] => c = d
      BY <2>2, <2>3 DEF Averaging, IsInjective
    <3>3. QED
      BY <2>3, <2>4, <3>1, <3>2
  <2>7. \A x \in ToSet(Append(u, i)) : x \in ToSet(u) \/ x = i
    <3> TAKE x \in ToSet(Append(u, i))
    <3>1. PICK w : w = Append(u, i)
      OBVIOUS
    <3>2. List(w) /\ Len(w) = Len(u) + 1 /\ x \in ToSet(w)
      BY <2>3, <3>1
    <3>3. PICK j \in 1..(Len(u) + 1) : w[j] = x
      BY ONLY <3>2, ListAt
    <3>4. j \in 1..Len(u) \/ j = Len(u) + 1
      BY <2>3
    <3>5. QED
      BY <2>3, <3>1, <3>3, <3>4
  <2>8. n + 1 \in 1..(n + 1)
    OBVIOUS
  <2>9. QED
    BY <1>1, <1>3, <2>1, <2>2, <2>3, <2>6, <2>7, <2>8 DEF Averaging
<1>6. ASSUME NEW a, NEW rep,
             t = [s EXCEPT !.counts[a] = @ + 1,
                           !.rows[rep] = Merged(s.rows[rep], row, col, byCols)]
      PROVE  Averaging(t, rows, col, seq, n + 1)
  <2>1. PICK r, u : r = Merged(u[rep], row, col, byCols) /\ u = s.rows
    OBVIOUS
  <2>2. DOMAIN t = DOMAIN s /\ t.rows = [u EXCEPT ![rep] = r] /\ t.reps = s.reps
    BY <1>6, <2>1 DEF Averaging
  <2>3. rep \in DOMAIN rows => /\ r = [j \in DOMAIN u[rep] |-> r[j]] /\ r[col] = u[rep][col]
    <3> HAVE rep \in DOMAIN rows
    <3>1. List(u[rep]) /\ Len(u[rep]) = Len(rows[rep])
      BY <2>1 DEF Averaging, Alike
    <3>2. col \in DOMAIN u[rep] /\ ~(col > 3)
      BY <3>1, ListAt
    <3>3. r[col] = u[rep][col]
      BY <2>1, <3>2 DEF Merged
    <3>4. QED
      BY <2>1, <3>3 DEF Merged
  <2>4. Alike(rows, t.rows, col)
    BY <2>1, <2>2, <2>3, AlikeExcept DEF Averaging
  <2>5. QED
    BY <1>3, <2>2, <2>4 DEF Averaging
<1>7. QED
  BY ONLY <1>1, <1>2, <1>4, <1>5, <1>6, ZenonT(60)

LEMMA SummedOnce ==
  ASSUME NEW rows, NEW col \in 1..3, col = fieldDict[IterName], NEW by, NEW byCols,
         List(rows), \A i \in DOMAIN rows : List(rows[i]) /\ col <= Len(rows[i]),
         List(SelectedRowList), NEW n, n = Len(SelectedRowList),
         \A i, j \in 1..n : i # j => iterDict[SelectedRowList[i]] # iterDict[SelectedRowList[j]]
  PROVE  Averaging(Summed(rows, by, byCols), rows, col, SelectedRowList, n)
<1>1. PICK p, base, seq :
        /\ p = <<"average", by, fieldDict[IterName], byCols>>
        /\ base = [rows |-> rows, reps |-> <<>>, counts |-> <<>>, raised |-> FALSE]
        /\ seq = SelectedRowList
  OBVIOUS
<1>2. n \in Nat /\ DOMAIN seq = 1..n
  BY <1>1, ListAt
<1>3. PICK h : Turns(p, base, seq, n, h) /\ Summed(rows, by, byCols) = h[n]
  BY <1>1, <1>2, SummedTurns
<1>4. \A i \in 1..n : h[i] = AverageRow(h[i - 1], iterDict[seq[i]], by, col, byCols)
  BY <1>1, <1>3 DEF Turns, Step
<1>5. h[0] = base
  BY <1>3 DEF Turns
<1>6. \A i \in DOMAIN rows : Len(rows[i]) \in Nat /\ col <= Len(rows[i])
  BY ListAt
<1> DEFINE P == {k \in Nat : k <= n => Averaging(h[k], rows, col, seq, k)}
<1>7. 0 \in P
  <2>1. DOMAIN base = {"rows", "reps", "counts", "raised"} /\ base.rows = rows /\ base.reps = <<>>
    BY <1>1
  <2>2. Alike(rows, rows, col)
    BY DEF Alike
  <2>3. List(<<>>) /\ IsInjective(<<>>) /\ ToSet(<<>>) = {}
    BY DEF List, IsInjective, ToSet
  <2>4. Averaging(base, rows, col, seq, 0)
    BY <2>1, <2>2, <2>3 DEF Averaging
  <2>5. QED
    BY <1>5, <2>4
<1>8. ASSUME NEW k \in Nat, k \in P PROVE k + 1 \in P
  <2> SUFFICES ASSUME k + 1 <= n PROVE Averaging(h[k + 1], rows, col, seq, k + 1)
    OBVIOUS
  <2>1. k + 1 \in 1..n /\ (k + 1) - 1 = k
    BY <1>2
  <2>2. Averaging(h[k], rows, col, seq, k)
    BY <1>2, <1>8
  <2>3. h[k + 1] = AverageRow(h[k], iterDict[seq[k + 1]], by, col, byCols)
    BY <1>4, <2>1
  <2>4. \A i \in 1..k : iterDict[seq[i]] # iterDict[seq[k + 1]]
    <3> TAKE i \in 1..k
    <3>1. i \in 1..n /\ i # k + 1
      BY <1>2
    <3>2. QED
      BY <1>1, <2>1, <3>1
  <2>5. col \in 1..3
    OBVIOUS
  <2>6. Averaging(AverageRow(h[k], iterDict[seq[k + 1]], by, col, byCols),
                  rows, col, seq, k + 1)
    BY ONLY <1>6, <1>8, <2>2, <2>4, <2>5, AverageRowOnce
  <2>7. QED
    BY <2>3, <2>6
<1> HIDE DEF P
<1>9. n \in P
  BY <1>2, <1>7, <1>8, EveryNumber
<1>10. QED
  BY <1>1, <1>2, <1>3, <1>9 DEF P

DividesOne(g, g2, avgCnt, byCols) ==
  \E j, c : g2 = [g EXCEPT ![j] = Divided(g[j], c, avgCnt, byCols)]

LEMMA DividedAlike ==
  ASSUME NEW u, NEW avgCnt, NEW byCols, NEW rows, NEW col \in 1..3, col # avgCnt,
         List(u.reps), Alike(rows, u.rows, col),
         \A i \in DOMAIN rows : Len(rows[i]) \in Nat /\ col <= Len(rows[i])
  PROVE  Alike(rows, DividedRows(u, avgCnt, byCols), col)
<1>1. PICK p, base, n, seq :
        /\ p = <<"divide", u.reps, u.counts, avgCnt, byCols>> /\ base = u.rows
        /\ n = Len(u.reps) /\ seq = Upto(n)
  OBVIOUS
<1>2. n \in Nat /\ DOMAIN u.reps = 1..n /\ DOMAIN seq = 1..n
  BY <1>1, ListAt DEF Upto
<1>3. PICK h : Turns(p, base, seq, n, h) /\ DividedRows(u, avgCnt, byCols) = h[n]
  BY <1>1, <1>2, DividedTurns
<1>4. \A i \in 1..n : DividesOne(h[i - 1], h[i], avgCnt, byCols)
  <2> TAKE i \in 1..n
  <2>1. h[i] = Step(p, h[i - 1], seq[i])
    BY <1>3 DEF Turns
  <2>2. h[i] = [h[i - 1] EXCEPT ![u.reps[seq[i]]] =
                  Divided(h[i - 1][u.reps[seq[i]]], u.counts[seq[i]], avgCnt, byCols)]
    BY <1>1, <2>1 DEF Step
  <2>3. QED
    BY <2>2 DEF DividesOne
<1>5. h[0] = u.rows
  BY <1>1, <1>3 DEF Turns
<1> DEFINE P == {k \in Nat : k <= n => Alike(rows, h[k], col)}
<1>7. 0 \in P
  BY <1>5
<1>8. ASSUME NEW k \in Nat, k \in P PROVE k + 1 \in P
  <2> SUFFICES ASSUME k + 1 <= n PROVE Alike(rows, h[k + 1], col)
    OBVIOUS
  <2>1. k + 1 \in 1..n /\ (k + 1) - 1 = k
    BY <1>2
  <2>2. Alike(rows, h[k], col)
    BY <1>2, <1>8
  <2>3. PICK g, g2 : g = h[k] /\ g2 = h[k + 1] /\ DividesOne(g, g2, avgCnt, byCols)
    BY <1>4, <2>1
  <2>8. PICK j, c : g2 = [g EXCEPT ![j] = Divided(g[j], c, avgCnt, byCols)]
    BY <2>3 DEF DividesOne
  <2>9. PICK r : r = Divided(g[j], c, avgCnt, byCols)
    OBVIOUS
  <2>4. j \in DOMAIN rows => /\ r = [i \in DOMAIN g[j] |-> r[i]] /\ r[col] = g[j][col]
    <3> HAVE j \in DOMAIN rows
    <3>1. List(g[j]) /\ Len(g[j]) = Len(rows[j])
      BY <2>2, <2>3 DEF Alike
    <3>2. col \in DOMAIN g[j] /\ ~(col > 3)
      BY <3>1, ListAt
    <3>3. r[col] = g[j][col]
      BY <2>9, <3>2 DEF Divided
    <3>4. QED
      BY <2>9, <3>3 DEF Divided
  <2>5. Alike(rows, g, col)
    BY <2>2, <2>3
  <2>6. Alike(rows, [g EXCEPT ![j] = r], col)
    BY ONLY <2>4, <2>5, AlikeExcept
  <2>7. QED
    BY <2>3, <2>6, <2>8, <2>9
<1> HIDE DEF P
<1>9. n \in P
  BY <1>2, <1>7, <1>8, EveryNumber
<1>10. QED
  BY <1>2, <1>3, <1>9 DEF P

-----------------------------------------------------------------------------
(* The two dictionaries.                                                   *)

LEMMA ListCounted ==
  ASSUME NEW s, List(s), IsInjective(s)
  PROVE  IsFiniteSet(ToSet(s)) /\ Cardinality(ToSet(s)) = Len(s)
<1>1. PICK n, S : n = Len(s) /\ S = ToSet(s)
  OBVIOUS
<1>2. n \in Nat /\ DOMAIN s = 1..n /\ s = [i \in 1..n |-> s[i]] /\ \A x : x \in S <=> \E i \in 1..n : s[i] = x
  BY <1>1, ListAt
<1>3. s \in Bijection(1..n, S)
  BY <1>2 DEF Bijection, Injection, Surjection, IsInjective
<1>4. ExistsBijection(1..n, S)
  BY <1>3 DEF ExistsBijection
<1>5. QED
  BY <1>1, <1>2, <1>4, FS_CountingElements, FS_NatBijection

(* Columns and where they are.                                             *)
FieldsOK(list, dict) ==
  /\ List(list) /\ DOMAIN dict = ToSet(list)
  /\ \A i \in DOMAIN list : dict[list[i]] = i
  /\ IterName \in ToSet(list) /\ dict[IterName] <= 3

(* Rows of that width and where their numbers are found.                   *)
RowsOK(rows, dict, width, col) ==
  /\ List(rows)
  /\ \A i \in DOMAIN rows :
       /\ List(rows[i]) /\ Len(rows[i]) = width
       /\ rows[i][col] \in DOMAIN dict /\ dict[rows[i][col]] = i
  /\ \A k \in DOMAIN dict :
       k \in IterCells /\ dict[k] \in DOMAIN rows /\ rows[dict[k]][col] = k

LEMMA FieldsCounted ==
  ASSUME NEW list, NEW dict, FieldsOK(list, dict)
  PROVE  /\ Cardinality(DOMAIN dict) = Len(list) /\ Len(list) \in Nat
         /\ dict[IterName] \in 1..3 /\ dict[IterName] <= Len(list)
         /\ list[dict[IterName]] = IterName
         /\ \A c \in DOMAIN dict : dict[c] \in 1..Len(list) /\ list[dict[c]] = c
<1>1. List(list) /\ IsInjective(list)
  BY DEF FieldsOK, IsInjective
<1>2. Cardinality(DOMAIN dict) = Len(list)
  BY <1>1, ListCounted DEF FieldsOK
<1>3. Len(list) \in Nat /\ DOMAIN list = 1..Len(list)
  BY <1>1, ListAt
<1>4. \A c \in DOMAIN dict : dict[c] \in 1..Len(list) /\ list[dict[c]] = c
  <2> TAKE c \in DOMAIN dict
  <2>1. PICK i \in 1..Len(list) : list[i] = c
    BY <1>1, ListAt DEF FieldsOK
  <2>2. QED
    BY <1>3, <2>1 DEF FieldsOK
<1>5. QED
  BY <1>2, <1>3, <1>4 DEF FieldsOK

LEMMA RowsCounted ==
  ASSUME NEW rows, NEW dict, NEW width, NEW col, RowsOK(rows, dict, width, col)
  PROVE  IsFiniteSet(DOMAIN dict) /\ Cardinality(DOMAIN dict) = Len(rows)
<1>1. PICK s : s = [i \in 1..Len(rows) |-> rows[i][col]]
  OBVIOUS
<1>2. Len(rows) \in Nat /\ DOMAIN rows = 1..Len(rows)
  BY ListAt DEF RowsOK
<1>3. List(s) /\ Len(s) = Len(rows) /\ DOMAIN s = 1..Len(rows)
  BY <1>1, <1>2, ListMade
<1>4. \A i \in 1..Len(rows) : dict[s[i]] = i /\ s[i] \in DOMAIN dict
  BY <1>1, <1>2 DEF RowsOK
<1>5. IsInjective(s)
  BY <1>3, <1>4 DEF IsInjective
<1>6. \A k \in DOMAIN dict : \E i \in 1..Len(rows) : s[i] = k
  BY <1>1, <1>2 DEF RowsOK
<1>7. ToSet(s) = DOMAIN dict
  BY <1>3, <1>4, <1>6 DEF ToSet
<1>8. QED
  BY <1>3, <1>5, <1>7, ListCounted

LEMMA IndexedRows ==
  ASSUME NEW rows, List(rows), NEW width, NEW col,
         \A i \in DOMAIN rows : List(rows[i]) /\ Len(rows[i]) = width /\ rows[i][col] \in IterCells,
         \A i, j \in DOMAIN rows : rows[i][col] = rows[j][col] => i = j
  PROVE  RowsOK(rows, Indexed(rows, col), width, col)
<1>1. PICK d : d = Indexed(rows, col)
  OBVIOUS
<1>2. Len(rows) \in Nat /\ DOMAIN rows = 1..Len(rows)
  BY ListAt
<1>3. DOMAIN d = {r[col] : r \in ToSet(rows)}
  BY <1>1 DEF Indexed
<1>4. ASSUME NEW i \in DOMAIN rows PROVE rows[i][col] \in DOMAIN d /\ d[rows[i][col]] = i
  <2>1. rows[i] \in ToSet(rows) /\ rows[i][col] \in DOMAIN d
    BY <1>3 DEF ToSet
  <2>2. d[rows[i][col]] = CHOOSE m \in DOMAIN rows :
          /\ rows[m][col] = rows[i][col]
          /\ \A j \in DOMAIN rows : rows[j][col] = rows[i][col] => j <= m
    BY <1>1, <1>3, <2>1 DEF Indexed
  <2>3. \A j \in DOMAIN rows : rows[j][col] = rows[i][col] => j <= i
    BY <1>2
  <2>4. d[rows[i][col]] \in DOMAIN rows /\ rows[d[rows[i][col]]][col] = rows[i][col]
    BY <2>2, <2>3
  <2>5. QED
    BY <2>1, <2>4
<1>5. ASSUME NEW k \in DOMAIN d
      PROVE  k \in IterCells /\ d[k] \in DOMAIN rows /\ rows[d[k]][col] = k
  <2>1. PICK i \in DOMAIN rows : rows[i][col] = k
    BY <1>3 DEF ToSet
  <2>2. QED
    BY <1>4, <2>1
<1>6. QED
  BY <1>1, <1>4, <1>5 DEF RowsOK

(* The table as commands find it.                                          *)
Consistent ==
  /\ FieldsOK(fieldList, fieldDict)
  /\ RowsOK(Rows, iterDict, Len(fieldList), fieldDict[IterName])
  /\ List(SelectedRowList) /\ ToSet(SelectedRowList) \subseteq DOMAIN iterDict
  /\ List(ReadRowList)

(* Before the first file there is nothing; ended sessions have no table.   *)
IInv ==
  /\ over = "start" =>
       /\ fieldList = <<>> /\ DOMAIN fieldDict = {}
       /\ Rows = <<>> /\ DOMAIN iterDict = {} /\ SelectedRowList = <<>>
  /\ over = "no" /\ ~doubt => Consistent

LEMMA HeaderFields ==
  ASSUME NEW h, NEW rs, ResultsFile(h, rs), DOMAIN fieldDict \subseteq ToSet(h)
  PROVE  /\ FieldsOK(h, getFields(h)) /\ List(rs)
         /\ getFields(h)[IterName] = T!Position(h, IterName)
         /\ \A i \in DOMAIN rs : /\ List(rs[i]) /\ Len(rs[i]) = Len(h)
                                 /\ rs[i][getFields(h)[IterName]] \in IterCells
         /\ \A i, j \in DOMAIN rs :
              rs[i][getFields(h)[IterName]] = rs[j][getFields(h)[IterName]] => i = j
<1>1. /\ List(h) /\ IsInjective(h) /\ List(rs)
      /\ \A r \in ToSet(rs) : List(r) /\ Len(r) = Len(h)
  BY DEF ResultsFile
<1>2. PICK col \in DOMAIN h :
       /\ col <= 3 /\ h[col] = IterName
       /\ \A r \in ToSet(rs) : r[col] \in IterCells
       /\ \A i, j \in DOMAIN rs : rs[i][col] = rs[j][col] => i = j
  BY DEF ResultsFile
<1>3. \A i \in DOMAIN h : T!Position(h, h[i]) = i
  BY <1>1 DEF T!Position, IsInjective
<1>4. PICK d : d = getFields(h)
  OBVIOUS
<1>5. DOMAIN d = ToSet(h) /\ \A c \in ToSet(h) : d[c] = T!Position(h, c)
  BY <1>4 DEF getFields
<1>6. \A i \in DOMAIN h : h[i] \in ToSet(h) /\ d[h[i]] = i
  BY <1>3, <1>5 DEF ToSet
<1>7. d[IterName] = col /\ IterName \in ToSet(h) /\ T!Position(h, IterName) = col
  BY <1>2, <1>3, <1>6
<1>8. FieldsOK(h, d)
  BY <1>1, <1>2, <1>5, <1>6, <1>7 DEF FieldsOK
<1>9. \A i \in DOMAIN rs : rs[i] \in ToSet(rs)
  BY DEF ToSet
<1>10. QED
  BY <1>1, <1>2, <1>4, <1>7, <1>8, <1>9

(* No doubt means that the columns are those of the file, or none yet.     *)
LEMMA NotMixed ==
  ASSUME NEW f, IInv, over \in {"start", "no"}, ~doubt, ~T!Mixed(f)
  PROVE  /\ DOMAIN fieldDict \subseteq ToSet(Files[f].header)
         /\ over = "no" => Consistent /\ fieldList = Files[f].header
<1>1. fieldList = <<>> \/ fieldList = Files[f].header
  BY DEF T!Mixed
<1>2. CASE over = "start"
  BY <1>2 DEF IInv
<1>3. CASE over = "no"
  <2>1. Consistent
    BY <1>3 DEF IInv
  <2>2. IterName \in ToSet(fieldList) /\ DOMAIN fieldDict = ToSet(fieldList)
    BY <2>1 DEF Consistent, FieldsOK
  <2>3. fieldList # <<>>
    BY <2>2 DEF ToSet
  <2>4. QED
    BY <1>1, <1>3, <2>1, <2>2, <2>3
<1>4. QED
  BY <1>2, <1>3

LEMMA ReadStep ==
  ASSUME NEW f \in DOMAIN Files, IInv, over \in {"start", "no"}, readCsvFile(f), ~doubt'
  PROVE  Consistent'
<1>1. PICK h, rs : h = Files[f].header /\ rs = Files[f].rows
  OBVIOUS
<1>2. ~doubt /\ ~T!Mixed(f)
  BY DEF readCsvFile
<1>3. DOMAIN fieldDict \subseteq ToSet(h) /\ ResultsFile(h, rs)
  BY <1>1, <1>2, NotMixed, ExpAssumption
<1>4. PICK d, col : d = getFields(h) /\ col = T!Position(h, IterName)
  OBVIOUS
<1>5. /\ fieldList' = h /\ fieldDict' = d /\ Rows' = rs /\ iterDict' = Indexed(rs, col)
      /\ ReadRowList' = [i \in DOMAIN rs |-> rs[i][col]] /\ SelectedRowList' = ReadRowList'
  BY <1>1, <1>4 DEF readCsvFile
<1>6. /\ FieldsOK(h, d) /\ List(rs) /\ d[IterName] = col
      /\ \A i \in DOMAIN rs : List(rs[i]) /\ Len(rs[i]) = Len(h) /\ rs[i][col] \in IterCells
      /\ \A i, j \in DOMAIN rs : rs[i][col] = rs[j][col] => i = j
  BY <1>3, <1>4, HeaderFields
<1>7. RowsOK(rs, Indexed(rs, col), Len(h), col)
  BY <1>6, IndexedRows
<1>8. DOMAIN rs = 1..Len(rs) /\ Len(rs) \in Nat
  BY <1>6, ListAt
<1>9. List(SelectedRowList') /\ DOMAIN SelectedRowList' = 1..Len(rs)
  BY <1>5, <1>8, ListMade
<1>10. ToSet(SelectedRowList)' \subseteq DOMAIN iterDict'
  BY <1>5, <1>7, <1>8, <1>9 DEF RowsOK, ToSet
<1>11. QED
  BY <1>5, <1>6, <1>7, <1>9, <1>10 DEF Consistent, List

LEMMA SelectStep ==
  ASSUME Consistent, NEW alternatives \in Selections,
         SelectedRowList' = T!InOrder(Chosen(alternatives)),
         UNCHANGED table
  PROVE  Consistent'
<1>1. PICK C : C = Chosen(alternatives)
  OBVIOUS
<1>2. List(alternatives)
  BY ExpAssumption
<1>3. C \subseteq ToSet(SelectedRowList)
  BY <1>1, <1>2, ChosenAmong
<1>4. C \subseteq DOMAIN iterDict /\ C \subseteq IterCells
  BY <1>3 DEF Consistent, RowsOK
<1>5. IsFiniteSet(C)
  <2>1. IsFiniteSet(DOMAIN iterDict)
    BY RowsCounted DEF Consistent
  <2>2. QED
    BY <1>4, <2>1, FS_Subset
<1>6. List(T!InOrder(C)) /\ ToSet(T!InOrder(C)) \subseteq C
  BY <1>4, <1>5, Sorted
<1>7. PICK s : s = T!InOrder(C) /\ SelectedRowList' = s
  BY <1>1
<1>8. List(s) /\ ToSet(s) \subseteq DOMAIN iterDict
  BY <1>4, <1>6, <1>7
<1>9. QED
  BY <1>7, <1>8 DEF Consistent, table, List, ToSet

LEMMA OtherSelections ==
  ASSUME Consistent, ~doubt', SelectAll \/ \E l \in RowLists : selectRows(l), over' = "no"
  PROVE  Consistent'
<1>1. CASE SelectAll
  <2>1. SelectedRowList' = ReadRowList /\ ToSet(ReadRowList) \subseteq DOMAIN iterDict
        /\ UNCHANGED table
    BY <1>1 DEF SelectAll, T!Lost, Tabled, T!ToSet, ToSet
  <2>2. QED
    BY <2>1 DEF Consistent, table, List, ToSet
<1>2. ASSUME NEW l \in RowLists, selectRows(l) PROVE Consistent'
  <2>1. CASE Fails("raise")
    BY <2>1 DEF Fails
  <2>2. CASE /\ SelectedRowList' = Found(l)
             /\ doubt' = (doubt \/ (T!AllRows \in ToSet(l) /\ T!Lost))
             /\ UNCHANGED <<table, SelectedCols, page, over>>
    <3>1. T!AllRows \in ToSet(l) => ToSet(ReadRowList) \subseteq DOMAIN iterDict
      BY <2>2 DEF T!Lost, Tabled, T!ToSet, ToSet
    <3>2. List(l) /\ List(ReadRowList)
      BY ExpAssumption DEF Consistent
    <3>3. List(Found(l)) /\ ToSet(Found(l)) \subseteq DOMAIN iterDict
      BY <3>1, <3>2, FoundThere
    <3>4. PICK s : s = Found(l) /\ SelectedRowList' = s
      BY <2>2
    <3>5. UNCHANGED table
      BY <2>2
    <3>6. QED
      BY <3>3, <3>4, <3>5 DEF Consistent, table, List, ToSet
  <2>3. QED
    BY <1>2, <2>1, <2>2 DEF selectRows
<1>3. QED
  BY <1>1, <1>2

LEMMA FieldsAdded ==
  ASSUME NEW list, NEW dict, FieldsOK(list, dict), NEW name, name \notin DOMAIN dict,
         NEW d, d = [c \in DOMAIN dict \cup {name} |->
                       IF c = name THEN Len(list) + 1 ELSE dict[c]]
  PROVE  FieldsOK(Append(list, name), d)
<1>1. PICK s : s = Append(list, name)
  OBVIOUS
<1>2. List(list) /\ DOMAIN dict = ToSet(list)
  BY DEF FieldsOK
<1>3. /\ List(s) /\ Len(s) = Len(list) + 1 /\ s[Len(list) + 1] = name
      /\ \A i \in 1..Len(list) : s[i] = list[i]
  BY <1>1, <1>2, AppendedList
<1>4. /\ DOMAIN s = 1..(Len(list) + 1) /\ DOMAIN list = 1..Len(list) /\ Len(list) \in Nat
      /\ \A x : x \in ToSet(s) <=> \E i \in 1..(Len(list) + 1) : s[i] = x
      /\ \A x : x \in ToSet(list) <=> \E i \in 1..Len(list) : list[i] = x
  BY <1>2, <1>3, ListAt
<1>5. \A i \in 1..(Len(list) + 1) : i \in 1..Len(list) \/ i = Len(list) + 1
  BY <1>4
<1>6. \A i \in 1..Len(list) : i \in 1..(Len(list) + 1)
  BY <1>4
<1>7. Len(list) + 1 \in 1..(Len(list) + 1)
  BY <1>4
<1>8. \A x : x \in ToSet(s) <=> x \in ToSet(list) \/ x = name
  BY <1>3, <1>4, <1>5, <1>6, <1>7
<1>9. \A i \in 1..Len(list) : dict[list[i]] = i /\ list[i] \in DOMAIN dict
  BY <1>2, <1>4 DEF FieldsOK
<1>10. \A i \in DOMAIN s : d[s[i]] = i
  BY <1>3, <1>4, <1>5, <1>9
<1>11. IterName \in ToSet(s) /\ d[IterName] <= 3
  BY <1>2, <1>8 DEF FieldsOK
<1>12. QED
  BY <1>1, <1>2, <1>3, <1>8, <1>10, <1>11 DEF FieldsOK

(* A column is added to all rows.                                          *)
LEMMA RowsGrown ==
  ASSUME NEW rows, NEW dict, NEW width \in Nat, NEW col \in 1..width,
         RowsOK(rows, dict, width, col), NEW grown, NEW v,
         grown = [i \in DOMAIN rows |-> Append(rows[i], v[i])]
  PROVE  RowsOK(grown, dict, width + 1, col)
<1>1. DOMAIN rows = 1..Len(rows) /\ Len(rows) \in Nat
  BY ListAt DEF RowsOK
<1>2. List(grown) /\ DOMAIN grown = DOMAIN rows
  BY <1>1, ListMade
<1>3. ASSUME NEW i \in DOMAIN rows
      PROVE  List(grown[i]) /\ Len(grown[i]) = width + 1 /\ grown[i][col] = rows[i][col]
  <2>1. List(rows[i]) /\ Len(rows[i]) = width /\ col \in 1..Len(rows[i])
    BY DEF RowsOK
  <2>2. grown[i] = Append(rows[i], v[i])
    OBVIOUS
  <2>3. PICK r, e : r = rows[i] /\ e = v[i]
    OBVIOUS
  <2>4. /\ List(Append(r, e)) /\ Len(Append(r, e)) = Len(r) + 1
        /\ \A j \in 1..Len(r) : Append(r, e)[j] = r[j]
    BY ONLY <2>1, <2>3, AppendedList
  <2>5. QED
    BY <2>1, <2>2, <2>3, <2>4
<1>4. QED
  BY <1>2, <1>3 DEF RowsOK

(* A row for each of the groups that rows were summed up in.               *)
LEMMA AveragedRows ==
  ASSUME NEW grown, NEW width \in Nat, NEW col \in 1..3, col <= width,
         col = fieldDict[IterName], RowsOK(grown, iterDict, width, col),
         List(SelectedRowList), ToSet(SelectedRowList) \subseteq DOMAIN iterDict,
         IsInjective(SelectedRowList), NEW by, NEW byCols, NEW avgCnt, avgCnt # col,
         NEW u, u = Summed(grown, by, byCols), NEW rows,
         rows = [a \in DOMAIN u.reps |-> DividedRows(u, avgCnt, byCols)[u.reps[a]]]
  PROVE  RowsOK(rows, Indexed(rows, col), width, col)
<1>1. PICK n, seq, div : /\ n = Len(SelectedRowList) /\ seq = SelectedRowList
                         /\ div = DividedRows(u, avgCnt, byCols)
  OBVIOUS
<1>2. DOMAIN seq = 1..n /\ n \in Nat /\ \A i \in 1..n : seq[i] \in DOMAIN iterDict
  <2>1. DOMAIN seq = 1..n /\ n \in Nat /\ \A i \in 1..n : seq[i] \in ToSet(seq)
    BY <1>1, ListAt
  <2>2. QED
    BY <1>1, <2>1
<1>3. \A j, k \in DOMAIN iterDict : iterDict[j] = iterDict[k] => j = k
  BY DEF RowsOK
<1>4. \A i, j \in 1..n : i # j => iterDict[seq[i]] # iterDict[seq[j]]
  BY <1>1, <1>2, <1>3 DEF IsInjective
<1>5. List(grown) /\ \A i \in DOMAIN grown : List(grown[i]) /\ col <= Len(grown[i])
  BY DEF RowsOK
<1>6. Averaging(u, grown, col, seq, n)
  BY <1>1, <1>4, <1>5, SummedOnce
<1>7. \A i \in DOMAIN grown : Len(grown[i]) \in Nat /\ col <= Len(grown[i])
  BY <1>5, ListAt
<1>8. Alike(grown, div, col)
  <2>1. List(u.reps) /\ Alike(grown, u.rows, col)
    BY <1>6 DEF Averaging
  <2>2. QED
    BY <1>1, <1>7, <2>1, DividedAlike
<1>9. PICK reps : reps = u.reps
  OBVIOUS
<1>10. /\ List(reps) /\ IsInjective(reps)
       /\ \A a \in DOMAIN reps : reps[a] \in DOMAIN grown
  <2>1. List(reps) /\ IsInjective(reps) /\ \A x \in ToSet(reps) : \E i \in 1..n : x = iterDict[seq[i]]
    BY <1>6, <1>9 DEF Averaging
  <2>2. \A a \in DOMAIN reps : reps[a] \in ToSet(reps)
    BY DEF ToSet
  <2>3. \A k \in DOMAIN iterDict : iterDict[k] \in DOMAIN grown
    BY DEF RowsOK
  <2>4. QED
    BY <1>2, <2>1, <2>2, <2>3
<1>11. DOMAIN reps = 1..Len(reps) /\ Len(reps) \in Nat
  BY <1>10, ListAt
<1>12. rows = [a \in DOMAIN reps |-> div[reps[a]]]
  BY <1>1, <1>9
<1>13. List(rows) /\ DOMAIN rows = DOMAIN reps
  BY <1>11, <1>12, ListMade
<1>14. \A a \in DOMAIN rows : /\ List(rows[a]) /\ Len(rows[a]) = width
                              /\ rows[a][col] = grown[reps[a]][col]
  BY <1>8, <1>10, <1>12 DEF Alike, RowsOK
<1>15. \A i \in DOMAIN grown : /\ grown[i][col] \in IterCells
                               /\ iterDict[grown[i][col]] = i
  <2>1. \A i \in DOMAIN grown : /\ grown[i][col] \in DOMAIN iterDict
                                /\ iterDict[grown[i][col]] = i
    BY DEF RowsOK
  <2>2. \A k \in DOMAIN iterDict : k \in IterCells
    BY DEF RowsOK
  <2>3. QED
    BY ONLY <2>1, <2>2
<1>19. \A a \in DOMAIN rows : reps[a] \in DOMAIN grown
  BY ONLY <1>10, <1>13
<1>16. \A a, b \in DOMAIN rows : rows[a][col] = rows[b][col] => a = b
  <2> SUFFICES ASSUME NEW a \in DOMAIN rows, NEW b \in DOMAIN rows,
                      rows[a][col] = rows[b][col]
               PROVE  a = b
    OBVIOUS
  <2>0. a \in DOMAIN rows /\ b \in DOMAIN rows /\ rows[a][col] = rows[b][col]
    OBVIOUS
  <2>1. grown[reps[a]][col] = grown[reps[b]][col]
    BY ONLY <1>14, <2>0
  <2>2. reps[a] = reps[b]
    BY ONLY <1>15, <1>19, <2>0, <2>1
  <2>3. QED
    BY ONLY <1>10, <1>13, <2>0, <2>2 DEF IsInjective
<1>17. \A a \in DOMAIN rows : rows[a][col] \in IterCells
  BY ONLY <1>14, <1>15, <1>19
<1>18. QED
  BY ONLY <1>13, <1>14, <1>16, <1>17, IndexedRows

LEMMA AverageStep ==
  ASSUME Consistent, NEW by, doAverage(by), over' = "no", ~doubt'
  PROVE  Consistent'
<1> DEFINE counted == "avgCnt" \in DOMAIN fieldDict
           known0  == KnownOf(by)
           byCols0 == {fieldDict[b[1]] : b \in ToSet(known0)}
           list0   == IF counted THEN fieldList ELSE Append(fieldList, "avgCnt")
           avgCnt0 == IF counted THEN fieldDict["avgCnt"] ELSE Len(list0)
           grown0  == IF counted THEN Rows ELSE [i \in DOMAIN Rows |-> Append(Rows[i], Whole(1))]
           u0      == Summed(grown0, known0, byCols0)
           rows0   == [a \in DOMAIN u0.reps |-> DividedRows(u0, avgCnt0, byCols0)[u0.reps[a]]]
<1>a. /\ fieldList' = list0
      /\ fieldDict' = [c \in DOMAIN fieldDict \cup {"avgCnt"} |->
                         IF c = "avgCnt" THEN avgCnt0 ELSE fieldDict[c]]
      /\ Rows' = rows0 /\ iterDict' = Indexed(rows0, fieldDict[IterName])
      /\ SelectedRowList' = [a \in DOMAIN rows0 |-> rows0[a][fieldDict[IterName]]]
      /\ doubt' = (doubt \/ ~T!Listed \/ ~T!Alike(by))
      /\ ReadRowList' = ReadRowList
  BY Zenon DEF doAverage, Fails
<1>b. PICK known, byCols, col, list, avgCnt, grown, u, rows :
        /\ known = known0 /\ byCols = byCols0 /\ col = fieldDict[IterName] /\ list = list0
        /\ avgCnt = avgCnt0 /\ grown = grown0 /\ u = u0 /\ rows = rows0
  OBVIOUS
<1>c. avgCnt0 = IF counted THEN fieldDict["avgCnt"] ELSE Len(list0)
  OBVIOUS
<1>d. /\ u0 = Summed(grown0, known0, byCols0)
      /\ rows0 = [a \in DOMAIN u0.reps |-> DividedRows(u0, avgCnt0, byCols0)[u0.reps[a]]]
  OBVIOUS
<1>e. /\ list0 = IF counted THEN fieldList ELSE Append(fieldList, "avgCnt")
      /\ grown0 = IF counted THEN Rows ELSE [i \in DOMAIN Rows |-> Append(Rows[i], Whole(1))]
  OBVIOUS
<1> HIDE DEF known0, byCols0, list0, avgCnt0, grown0, u0, rows0
<1>1. /\ col = fieldDict[IterName]
      /\ list = IF counted THEN fieldList ELSE Append(fieldList, "avgCnt")
      /\ avgCnt = IF counted THEN fieldDict["avgCnt"] ELSE Len(list)
      /\ grown = IF counted THEN Rows
                 ELSE [i \in DOMAIN Rows |-> Append(Rows[i], Whole(1))]
      /\ u = Summed(grown, known, byCols)
      /\ rows = [a \in DOMAIN u.reps |-> DividedRows(u, avgCnt, byCols)[u.reps[a]]]
      /\ fieldList' = list
      /\ fieldDict' = [c \in DOMAIN fieldDict \cup {"avgCnt"} |->
                         IF c = "avgCnt" THEN avgCnt ELSE fieldDict[c]]
      /\ Rows' = rows /\ iterDict' = Indexed(rows, col)
      /\ SelectedRowList' = [a \in DOMAIN rows |-> rows[a][col]]
      /\ doubt' = (doubt \/ ~T!Listed \/ ~T!Alike(by))
      /\ ReadRowList' = ReadRowList
  BY ONLY <1>a, <1>b, <1>c, <1>d, <1>e, SMTT(60)
<1>2. IsInjective(SelectedRowList)
  BY <1>1 DEF T!Listed, T!IsInjective, IsInjective
<1>3. PICK width : width = Len(fieldList)
  BY Zenon
<1>4. /\ FieldsOK(fieldList, fieldDict) /\ RowsOK(Rows, iterDict, width, col)
      /\ List(SelectedRowList) /\ ToSet(SelectedRowList) \subseteq DOMAIN iterDict
      /\ List(ReadRowList) /\ List(fieldList)
  BY <1>1, <1>3 DEF Consistent, FieldsOK
<1>5. /\ width \in Nat /\ col \in 1..3 /\ col \in 1..width /\ fieldList[col] = IterName
      /\ \A c \in DOMAIN fieldDict : fieldDict[c] \in 1..width /\ fieldList[fieldDict[c]] = c
      /\ IterName # "avgCnt"
  <2>1. FieldsOK(fieldList, fieldDict)
    BY <1>4
  <2>2. /\ Len(fieldList) \in Nat /\ fieldDict[IterName] \in 1..3
        /\ fieldDict[IterName] <= Len(fieldList)
        /\ fieldList[fieldDict[IterName]] = IterName
        /\ \A c \in DOMAIN fieldDict :
             fieldDict[c] \in 1..Len(fieldList) /\ fieldList[fieldDict[c]] = c
    BY ONLY <2>1, FieldsCounted, SMTT(60)
  <2>3. col = fieldDict[IterName]
    BY <1>1
  <2>4. QED
    BY ONLY <1>3, <2>2, <2>3, ExpAssumption
<1>6. /\ FieldsOK(list, fieldDict') /\ Len(list) \in Nat /\ col <= Len(list) /\ avgCnt # col
      /\ fieldDict'[IterName] = col /\ RowsOK(grown, iterDict, Len(list), col)
  <2>1. fieldDict'[IterName] = col
    BY <1>1, <1>4, <1>5 DEF FieldsOK
  <2>2. CASE "avgCnt" \in DOMAIN fieldDict
    <3>1. list = fieldList /\ grown = Rows /\ avgCnt = fieldDict["avgCnt"]
      BY <1>1, <2>2
    <3>2. avgCnt # col
      BY <1>5, <2>2, <3>1
    <3>3. /\ DOMAIN fieldDict' = DOMAIN fieldDict
          /\ \A c \in DOMAIN fieldDict : fieldDict'[c] = fieldDict[c]
      BY <1>1, <2>2, <3>1
    <3>4. FieldsOK(fieldList, fieldDict')
      BY <1>4, <3>3 DEF FieldsOK, ToSet
    <3>5. QED
      BY <1>3, <1>4, <1>5, <2>1, <3>1, <3>2, <3>4
  <2>3. CASE "avgCnt" \notin DOMAIN fieldDict
    <3>1. /\ list = Append(fieldList, "avgCnt") /\ avgCnt = Len(list)
          /\ grown = [i \in DOMAIN Rows |-> Append(Rows[i], Whole(1))]
      BY <1>1, <2>3
    <3>2. Len(list) = width + 1
      BY <1>3, <1>4, <3>1, AppendedList
    <3>3. FieldsOK(list, fieldDict')
      <4>1. fieldDict' = [c \in DOMAIN fieldDict \cup {"avgCnt"} |->
                            IF c = "avgCnt" THEN Len(fieldList) + 1 ELSE fieldDict[c]]
        BY <1>1, <1>3, <3>1, <3>2
      <4>2. QED
        BY <1>4, <2>3, <3>1, <4>1, FieldsAdded
    <3>4. RowsOK(grown, iterDict, width + 1, col)
      <4>1. PICK v : v = [i \in DOMAIN Rows |-> Whole(1)]
        OBVIOUS
      <4>2. grown = [i \in DOMAIN Rows |-> Append(Rows[i], v[i])]
        BY <3>1, <4>1
      <4>3. QED
        BY <1>4, <1>5, <4>2, RowsGrown
    <3>5. QED
      BY <1>5, <2>1, <3>1, <3>2, <3>3, <3>4, SMTT(60)
  <2>4. QED
    BY <2>2, <2>3, SMTT(60)
<1>7. RowsOK(rows, Indexed(rows, col), Len(list), col)
  <2>1. /\ col = fieldDict[IterName] /\ u = Summed(grown, known, byCols)
        /\ rows = [a \in DOMAIN u.reps |-> DividedRows(u, avgCnt, byCols)[u.reps[a]]]
    BY ONLY <1>1, ZenonT(60)
  <2>2. QED
    BY ONLY <1>2, <1>4, <1>5, <1>6, <2>1, AveragedRows, SMTT(60)
<1>8. PICK s : s = [a \in DOMAIN rows |-> rows[a][col]] /\ SelectedRowList' = s
  BY <1>1
<1>9. DOMAIN rows = 1..Len(rows) /\ Len(rows) \in Nat
  BY <1>7, ListAt DEF RowsOK
<1>10. List(s) /\ DOMAIN s = DOMAIN rows
  BY <1>8, <1>9, ListMade
<1>11. ToSet(s) \subseteq DOMAIN Indexed(rows, col)
  BY <1>7, <1>8, <1>10 DEF RowsOK, ToSet
<1>13. PICK dict, fields : dict = Indexed(rows, col) /\ fields = fieldDict'
  OBVIOUS
<1>14. PICK read : read = ReadRowList
  BY Zenon
<1>15. /\ fieldList' = list /\ fieldDict' = fields /\ Rows' = rows /\ iterDict' = dict
       /\ SelectedRowList' = s /\ ReadRowList' = read
  BY <1>1, <1>8, <1>13, <1>14
<1>16. /\ FieldsOK(list, fields) /\ RowsOK(rows, dict, Len(list), col) /\ fields[IterName] = col
       /\ List(s) /\ ToSet(s) \subseteq DOMAIN dict /\ List(read)
  BY <1>4, <1>6, <1>7, <1>10, <1>11, <1>13, <1>14
<1>12. QED
  BY ONLY <1>15, <1>16 DEF Consistent, List, ToSet

(* No row was added to those that were read: all rows get the new cell.    *)
LEMMA NewColStep ==
  ASSUME Consistent, NEW nc, doNewCol1(nc), over' = "no", ~doubt'
  PROVE  Consistent'
<1> DEFINE vs == VarsOf(nc.expr)
           Value(k) == mathRowExpression(Env(Row(k), vs), nc.expr)
           There(i) == \E k \in ToSet(ReadRowList) : iterDict[k] = i
           value0 == [i \in DOMAIN Rows |->
                        Value(CHOOSE k \in ToSet(ReadRowList) : iterDict[k] = i)]
<1>1. /\ nc.name \notin DOMAIN fieldDict
      /\ fieldList' = Append(fieldList, nc.name)
      /\ fieldDict' = [c \in DOMAIN fieldDict \cup {nc.name} |->
                         IF c = nc.name THEN Cardinality(DOMAIN fieldDict) + 1
                         ELSE fieldDict[c]]
      /\ Rows' = [i \in DOMAIN Rows |->
                    IF There(i)
                    THEN Append(Rows[i],
                                Value(CHOOSE k \in ToSet(ReadRowList) : iterDict[k] = i))
                    ELSE Rows[i]]
      /\ doubt' = (doubt \/ T!Added)
      /\ UNCHANGED <<iterDict, ReadRowList, SelectedRowList>>
  BY Zenon DEF doNewCol1, Fails
<1>2. PICK v, name, width, col :
        /\ v = value0 /\ name = nc.name /\ width = Len(fieldList) /\ col = fieldDict[IterName]
  OBVIOUS
<1>3. DOMAIN iterDict \subseteq ToSet(ReadRowList)
  BY <1>1, SameOperators DEF T!Added, Tabled
<1>4. /\ FieldsOK(fieldList, fieldDict) /\ RowsOK(Rows, iterDict, width, col)
      /\ List(SelectedRowList) /\ ToSet(SelectedRowList) \subseteq DOMAIN iterDict
      /\ List(ReadRowList) /\ List(fieldList)
  BY <1>2 DEF Consistent, FieldsOK
<1>5. /\ width \in Nat /\ col \in 1..width /\ Cardinality(DOMAIN fieldDict) = width
      /\ IterName \in DOMAIN fieldDict
  <2>1. /\ Cardinality(DOMAIN fieldDict) = width /\ width \in Nat
        /\ col \in 1..3 /\ col <= width
    BY <1>2, <1>4, FieldsCounted
  <2>2. IterName \in DOMAIN fieldDict
    BY <1>4 DEF FieldsOK
  <2>3. QED
    BY <2>1, <2>2
<1>6. ASSUME NEW i \in DOMAIN Rows PROVE There(i)
  <2>1. Rows[i][col] \in DOMAIN iterDict /\ iterDict[Rows[i][col]] = i
    BY <1>4 DEF RowsOK
  <2>2. QED
    BY <1>3, <2>1
<1>7. Rows' = [i \in DOMAIN Rows |-> Append(Rows[i], v[i])]
  <2>1. \A i \in DOMAIN Rows :
          v[i] = Value(CHOOSE k \in ToSet(ReadRowList) : iterDict[k] = i)
    BY <1>2
  <2> DEFINE NewCell(i) == Value(CHOOSE k \in ToSet(ReadRowList) : iterDict[k] = i)
  <2>2. Rows' = [i \in DOMAIN Rows |-> IF There(i) THEN Append(Rows[i], NewCell(i)) ELSE Rows[i]]
    BY <1>1, Zenon
  <2> HIDE DEF NewCell, There
  <2>3. \A i \in DOMAIN Rows : NewCell(i) = v[i]
    BY <2>1, Zenon DEF NewCell
  <2>4. \A i \in DOMAIN Rows : There(i)
    BY <1>6
  <2>5. QED
    BY ONLY <2>2, <2>3, <2>4
<1> HIDE DEF vs, Value, There, value0
<1>8. PICK list, fields, rows : list = fieldList' /\ fields = fieldDict' /\ rows = Rows'
  OBVIOUS
<1>9. rows = [i \in DOMAIN Rows |-> Append(Rows[i], v[i])]
  BY <1>7, <1>8
<1>10. RowsOK(rows, iterDict, width + 1, col)
  BY ONLY <1>4, <1>5, <1>9, RowsGrown
<1>11. list = Append(fieldList, name) /\ name \notin DOMAIN fieldDict
  BY <1>1, <1>2, <1>8
<1>12. fields = [c \in DOMAIN fieldDict \cup {name} |->
                   IF c = name THEN Len(fieldList) + 1 ELSE fieldDict[c]]
  BY <1>1, <1>2, <1>5, <1>8
<1>13. FieldsOK(list, fields)
  BY ONLY <1>4, <1>11, <1>12, FieldsAdded
<1>14. Len(list) = width + 1 /\ fields[IterName] = col
  <2>1. Len(list) = width + 1
    BY <1>2, <1>4, <1>11, AppendedList
  <2>2. fields[IterName] = col
    BY <1>2, <1>5, <1>11, <1>12
  <2>3. QED
    BY <2>1, <2>2
<1>15. PICK dict, sel, read :
         dict = iterDict /\ sel = SelectedRowList /\ read = ReadRowList
  OBVIOUS
<1>16. /\ fieldList' = list /\ fieldDict' = fields /\ Rows' = rows /\ iterDict' = dict
       /\ SelectedRowList' = sel /\ ReadRowList' = read
  BY <1>1, <1>8, <1>15
<1>17. /\ FieldsOK(list, fields) /\ RowsOK(rows, dict, Len(list), fields[IterName])
       /\ List(sel) /\ ToSet(sel) \subseteq DOMAIN dict /\ List(read)
  BY <1>4, <1>10, <1>13, <1>14, <1>15
<1>18. QED
  BY ONLY <1>16, <1>17 DEF Consistent, List, ToSet

(* Rows with other numbers follow.                                         *)
LEMMA RowsJoined ==
  ASSUME NEW rows, NEW dict, NEW width, NEW col, RowsOK(rows, dict, width, col),
         NEW new, List(new), NEW d,
         \A j \in DOMAIN new : /\ List(new[j]) /\ Len(new[j]) = width
                               /\ new[j][col] \in IterCells
                               /\ d[new[j][col]] = Len(rows) + j,
         \A k \in DOMAIN dict : d[k] = dict[k],
         \A k : k \in DOMAIN d <=> \/ k \in DOMAIN dict
                                   \/ \E j \in DOMAIN new : k = new[j][col]
  PROVE  RowsOK(rows \o new, d, width, col)
<1>1. PICK all, n, m : all = rows \o new /\ n = Len(rows) /\ m = Len(new)
  OBVIOUS
<1>2. List(rows)
  BY DEF RowsOK
<1>3. /\ List(all) /\ Len(all) = n + m
      /\ \A i \in 1..n : all[i] = rows[i]
      /\ \A j \in 1..m : all[n + j] = new[j]
  BY <1>1, <1>2, JoinedLists
<1>4. /\ n \in Nat /\ DOMAIN rows = 1..n /\ m \in Nat /\ DOMAIN new = 1..m
      /\ DOMAIN all = 1..(n + m)
  BY <1>1, <1>2, <1>3, ListAt
<1>5. ASSUME NEW i \in 1..n
      PROVE  /\ i \in DOMAIN all /\ List(all[i]) /\ Len(all[i]) = width
             /\ all[i][col] \in DOMAIN d /\ d[all[i][col]] = i
  <2>1. /\ List(rows[i]) /\ Len(rows[i]) = width
        /\ rows[i][col] \in DOMAIN dict /\ dict[rows[i][col]] = i
    BY <1>4 DEF RowsOK
  <2>2. i \in 1..(n + m)
    BY <1>4
  <2>3. QED
    BY <1>3, <1>4, <2>1, <2>2
<1>6. ASSUME NEW j \in 1..m
      PROVE  /\ n + j \in DOMAIN all /\ List(all[n + j]) /\ Len(all[n + j]) = width
             /\ all[n + j][col] \in DOMAIN d /\ d[all[n + j][col]] = n + j
  <2>1. n + j \in 1..(n + m)
    BY <1>4
  <2>2. all[n + j] = new[j] /\ j \in DOMAIN new
    BY <1>3, <1>4
  <2>3. QED
    BY <1>1, <1>4, <2>1, <2>2
<1>7. ASSUME NEW i \in DOMAIN all
      PROVE  i \in 1..n \/ \E j \in 1..m : i = n + j
  <2>1. i \in 1..(n + m)
    BY <1>4
  <2>2. CASE i > n
    <3>1. i - n \in 1..m /\ i = n + (i - n)
      BY <1>4, <2>1, <2>2
    <3>2. QED
      BY <3>1
  <2>3. QED
    BY <1>4, <2>1, <2>2
<1>8. ASSUME NEW i \in DOMAIN all
      PROVE  /\ List(all[i]) /\ Len(all[i]) = width
             /\ all[i][col] \in DOMAIN d /\ d[all[i][col]] = i
  BY <1>5, <1>6, <1>7
<1>9. ASSUME NEW k \in DOMAIN d
      PROVE  k \in IterCells /\ d[k] \in DOMAIN all /\ all[d[k]][col] = k
  <2>1. CASE k \in DOMAIN dict
    <3>1. d[k] = dict[k] /\ dict[k] \in 1..n /\ k \in IterCells /\ rows[dict[k]][col] = k
      BY <1>4, <2>1 DEF RowsOK
    <3>2. QED
      BY <1>3, <1>5, <3>1
  <2>2. ASSUME NEW j \in DOMAIN new, k = new[j][col]
        PROVE  k \in IterCells /\ d[k] \in DOMAIN all /\ all[d[k]][col] = k
    <3>1. j \in 1..m /\ d[k] = n + j /\ k \in IterCells
      BY <1>1, <1>4, <2>2
    <3>2. QED
      BY <1>3, <1>6, <2>2, <3>1
  <2>3. QED
    BY <2>1, <2>2
<1>10. QED
  BY <1>1, <1>3, <1>8, <1>9 DEF RowsOK

LEMMA Bounded ==
  ASSUME NEW n \in Nat, NEW f, \A i \in 1..n : f[i] \in Nat
  PROVE  \E b \in Nat : \A i \in 1..n : f[i] <= b
<1> DEFINE P == {k \in Nat : k <= n => \E b \in Nat : \A i \in 1..k : f[i] <= b}
<1>1. 0 \in P
  OBVIOUS
<1>2. ASSUME NEW k \in Nat, k \in P PROVE k + 1 \in P
  <2> SUFFICES ASSUME k + 1 <= n PROVE \E b \in Nat : \A i \in 1..(k + 1) : f[i] <= b
    OBVIOUS
  <2>1. PICK b \in Nat : \A i \in 1..k : f[i] <= b
    BY <1>2
  <2>2. f[k + 1] \in Nat /\ \A i \in 1..k : f[i] \in Nat
    OBVIOUS
  <2>3. \A i \in 1..(k + 1) : i \in 1..k \/ i = k + 1
    OBVIOUS
  <2>4. b + f[k + 1] \in Nat /\ \A i \in 1..(k + 1) : f[i] <= b + f[k + 1]
    BY <2>1, <2>2, <2>3
  <2>5. QED
    BY <2>4
<1>3. n \in P
  <2> HIDE DEF P
  <2>1. Nat \subseteq P
    BY <1>1, <1>2, EveryNumber
  <2>2. QED
    BY <2>1
<1>4. QED
  BY <1>3

(* The numbers that appendCsvFile() gives come after those there are.      *)
Beyond(dict) == 100 * ((100 + Max({0} \cup {k[2] : k \in DOMAIN dict})) \div 100)

LEMMA NextHundred ==
  ASSUME NEW m \in Nat
  PROVE  100 * ((100 + m) \div 100) \in Nat /\ m < 100 * ((100 + m) \div 100)
OBVIOUS

LEMMA NumbersBeyond ==
  ASSUME NEW rows, NEW dict, NEW width, NEW col, RowsOK(rows, dict, width, col),
         \A k \in DOMAIN dict : IntKey(k)
  PROVE  Beyond(dict) \in Nat /\ \A k \in DOMAIN dict : k[2] < Beyond(dict)
<1> DEFINE S == {0} \cup {k[2] : k \in DOMAIN dict}
<1>1. PICK n, f : n = Len(rows) /\ f = [i \in 1..n |-> rows[i][col][2]]
  OBVIOUS
<1>2. n \in Nat /\ DOMAIN rows = 1..n
  BY <1>1, ListAt DEF RowsOK
<1>3. \A k \in DOMAIN dict : k[2] \in Nat
  BY DEF RowsOK, IterCells, IntKey
<1>4. \A i \in 1..n : f[i] \in Nat
  BY <1>1, <1>2, <1>3 DEF RowsOK
<1>5. PICK b \in Nat : \A i \in 1..n : f[i] <= b
  BY <1>2, <1>4, Bounded
<1>6. ASSUME NEW k \in DOMAIN dict PROVE k[2] \in 0..b
  <2>1. dict[k] \in 1..n /\ rows[dict[k]][col] = k
    BY <1>2 DEF RowsOK
  <2>2. f[dict[k]] = k[2]
    BY <1>1, <2>1
  <2>3. QED
    BY <1>3, <1>5, <2>1, <2>2
<1>7. S \subseteq 0..b /\ S # {}
  BY <1>6
<1>8. Max(S) \in S /\ \A x \in S : x <= Max(S)
  <2> HIDE DEF S
  <2>1. QED
    BY <1>7, MaxOf
<1>9. PICK m : m = Max(S)
  OBVIOUS
<1>10. m \in Nat /\ \A k \in DOMAIN dict : k[2] <= m
  BY <1>7, <1>8, <1>9
<1>11. Beyond(dict) = 100 * ((100 + m) \div 100)
  BY <1>9 DEF Beyond
<1>12. Beyond(dict) \in Nat /\ m < Beyond(dict)
  BY <1>10, <1>11, NextHundred
<1>13. QED
  BY <1>3, <1>10, <1>12

LEMMA AppendStep ==
  ASSUME IInv, NEW f \in DOMAIN Files, appendCsvFile(f), over = "no", over' = "no", ~doubt'
  PROVE  Consistent'
<1>1. PICK h, rs : h = Files[f].header /\ rs = Files[f].rows
  OBVIOUS
<1> DEFINE dict0 == getFields(Files[f].header)
           beyond0 == Beyond(iterDict)
           Number1(r) == Whole(r[dict0[IterName]][2] + beyond0)
           NewCell(r, i) == IF fieldList[i] = IterName THEN Number1(r)
                         ELSE r[dict0[fieldList[i]]]
           new0 == [j \in DOMAIN Files[f].rows |->
                      [i \in DOMAIN fieldList |-> NewCell(Files[f].rows[j], i)]]
           keys0 == [k \in DOMAIN iterDict \cup {Number1(r) : r \in ToSet(Files[f].rows)} |->
                       IF \E r \in ToSet(Files[f].rows) : Number1(r) = k
                       THEN Len(Rows) + CHOOSE i \in DOMAIN Files[f].rows :
                              Number1(Files[f].rows[i]) = k
                       ELSE iterDict[k]]
<1>2. /\ \A k \in DOMAIN iterDict : IntKey(k)
      /\ \A r \in ToSet(Files[f].rows) : IntKey(r[dict0[IterName]])
      /\ fieldDict' = dict0
      /\ Rows' = Rows \o new0
      /\ iterDict' = keys0
      /\ doubt' = (doubt \/ T!Mixed(f))
      /\ UNCHANGED <<fieldList, ReadRowList, SelectedRowList>>
  BY Zenon DEF appendCsvFile, Fails, Beyond
<1>3. PICK dict, beyond, new, keys :
        dict = dict0 /\ beyond = beyond0 /\ new = new0 /\ keys = keys0
  OBVIOUS
<1>4. /\ Consistent /\ fieldList = h /\ DOMAIN fieldDict \subseteq ToSet(h) /\ ResultsFile(h, rs)
  BY <1>1, <1>2, NotMixed, ExpAssumption
<1>5. /\ FieldsOK(h, dict) /\ List(rs)
      /\ \A i \in DOMAIN rs : /\ List(rs[i]) /\ Len(rs[i]) = Len(h)
                              /\ rs[i][dict[IterName]] \in IterCells
      /\ \A i, j \in DOMAIN rs :
           rs[i][dict[IterName]] = rs[j][dict[IterName]] => i = j
  BY <1>1, <1>3, <1>4, HeaderFields
<1>6. PICK col, width : col = dict[IterName] /\ width = Len(h)
  OBVIOUS
<1>7. /\ FieldsOK(h, fieldDict) /\ RowsOK(Rows, iterDict, width, fieldDict[IterName])
      /\ List(SelectedRowList) /\ ToSet(SelectedRowList) \subseteq DOMAIN iterDict
      /\ List(ReadRowList) /\ List(h)
  BY <1>4, <1>6 DEF Consistent, FieldsOK
<1>8. /\ width \in Nat /\ DOMAIN h = 1..width /\ col \in 1..width /\ h[col] = IterName
      /\ fieldDict[IterName] = col
  <2>1. Len(h) \in Nat /\ col \in 1..3 /\ col <= Len(h) /\ h[col] = IterName
    BY <1>5, <1>6, FieldsCounted
  <2>2. DOMAIN h = 1..Len(h)
    BY <1>7, ListAt
  <2>3. fieldDict[h[col]] = col
    BY ONLY <1>7, <2>1, <2>2, SMTT(60) DEF FieldsOK
  <2>4. QED
    BY <1>6, <2>1, <2>2, <2>3
<1>9. beyond \in Nat /\ \A k \in DOMAIN iterDict : k[2] < beyond
  BY <1>2, <1>3, <1>7, NumbersBeyond
<1> DEFINE Key(j) == Whole(rs[j][col][2] + beyond)
<1>10. /\ DOMAIN new = DOMAIN rs
       /\ \A j \in DOMAIN rs : new[j] = [i \in DOMAIN h |-> NewCell(rs[j], i)]
       /\ \A j \in DOMAIN rs : new[j][col] = Key(j)
  <2>1. DOMAIN new = DOMAIN rs
    BY <1>1, <1>3
  <2>2. \A j \in DOMAIN rs : new[j] = [i \in DOMAIN h |-> NewCell(rs[j], i)]
    <3> HIDE DEF NewCell
    <3>1. QED
      BY <1>1, <1>3, <1>4
  <2>3. \A j \in DOMAIN rs : new[j][col] = NewCell(rs[j], col)
    <3> HIDE DEF NewCell
    <3>1. QED
      BY <1>8, <2>2
  <2>4. \A j \in DOMAIN rs : NewCell(rs[j], col) = Key(j)
    BY <1>3, <1>4, <1>6, <1>8
  <2>5. QED
    BY <2>1, <2>2, <2>3, <2>4
<1>11. ASSUME NEW j \in DOMAIN rs
       PROVE  /\ rs[j][col][1] = "int" /\ rs[j][col][2] \in Nat
              /\ rs[j][col] = Whole(rs[j][col][2]) /\ Key(j) \in IterCells
              /\ Key(j)[2] = rs[j][col][2] + beyond
  <2>1. IntKey(rs[j][col]) /\ rs[j][col] \in IterCells
    BY <1>1, <1>2, <1>3, <1>5, <1>6 DEF ToSet
  <2>2. PICK c : c = rs[j][col]
    OBVIOUS
  <2>3. c[1] = "int" /\ c[2] \in Nat /\ c = <<"int", c[2], 1>>
    BY <2>1, <2>2 DEF IterCells, IntKey
  <2>4. Whole(c[2] + beyond) \in IterCells /\ Whole(c[2] + beyond)[2] = c[2] + beyond
    BY <1>9, <2>3 DEF IterCells, Whole
  <2>5. QED
    BY ONLY <2>2, <2>3, <2>4, SMTT(60) DEF Whole
<1>12. \A i, j \in DOMAIN rs : Key(i) = Key(j) => i = j
  <2> SUFFICES ASSUME NEW i \in DOMAIN rs, NEW j \in DOMAIN rs, Key(i) = Key(j) PROVE i = j
    OBVIOUS
  <2>1. rs[i][col][2] + beyond = rs[j][col][2] + beyond
    <3>1. Key(i)[2] = Key(j)[2]
      OBVIOUS
    <3> HIDE DEF Key
    <3>2. QED
      BY <1>11, <3>1
  <2>2. rs[i][col][2] = rs[j][col][2]
    BY <1>9, <1>11, <2>1
  <2>3. rs[i][col] = rs[j][col]
    BY <1>11, <2>2
  <2>4. QED
    BY <1>5, <1>6, <2>3
<1>13. \A j \in DOMAIN rs : Key(j) \notin DOMAIN iterDict
  <2> SUFFICES ASSUME NEW j \in DOMAIN rs, NEW k \in DOMAIN iterDict, k = Key(j) PROVE FALSE
    OBVIOUS
  <2>1. k[2] = rs[j][col][2] + beyond /\ rs[j][col][2] \in Nat
    BY <1>11
  <2>2. QED
    BY <1>9, <2>1
<1>14. keys = [k \in DOMAIN iterDict \cup {Number1(r) : r \in ToSet(rs)} |->
                 IF \E r \in ToSet(rs) : Number1(r) = k
                 THEN Len(Rows) + CHOOSE i \in DOMAIN rs : Number1(rs[i]) = k
                 ELSE iterDict[k]]
  BY <1>1, <1>3
<1>15. \A j \in DOMAIN rs : Number1(rs[j]) = Key(j)
  BY <1>3, <1>6
<1> HIDE DEF Key, Number1, NewCell, dict0, beyond0, new0, keys0
<1>16. \A r : r \in ToSet(rs) <=> \E j \in DOMAIN rs : r = rs[j]
  BY DEF ToSet
<1>17. \A k : k \in DOMAIN keys <=> \/ k \in DOMAIN iterDict
                                    \/ \E j \in DOMAIN rs : k = Key(j)
  BY <1>14, <1>15, <1>16
<1>18. \A k \in DOMAIN iterDict : keys[k] = iterDict[k]
  <2> TAKE k \in DOMAIN iterDict
  <2>1. ~ \E r \in ToSet(rs) : Number1(r) = k
    BY <1>13, <1>15, <1>16
  <2>2. QED
    BY <1>14, <2>1
<1>19. \A j \in DOMAIN rs : keys[Key(j)] = Len(Rows) + j
  <2> TAKE j \in DOMAIN rs
  <2>1. \E r \in ToSet(rs) : Number1(r) = Key(j)
    BY <1>15, <1>16
  <2>2. keys[Key(j)] = Len(Rows) + CHOOSE i \in DOMAIN rs : Number1(rs[i]) = Key(j)
    BY <1>14, <1>17, <2>1
  <2>3. (CHOOSE i \in DOMAIN rs : Number1(rs[i]) = Key(j)) = j
    BY <1>12, <1>15
  <2>4. QED
    BY <2>2, <2>3
<1>20. List(new)
  <2>1. DOMAIN rs = 1..Len(rs) /\ Len(rs) \in Nat
    BY <1>5, ListAt
  <2>2. new = [j \in 1..Len(rs) |-> new[j]]
    BY <1>3, <1>10, <2>1 DEF new0
  <2>3. QED
    BY ONLY <2>1, <2>2, ListMade
<1>21. ASSUME NEW j \in DOMAIN new
       PROVE  /\ List(new[j]) /\ Len(new[j]) = width
              /\ new[j][col] \in IterCells /\ keys[new[j][col]] = Len(Rows) + j
  <2>1. PICK r : r = new[j]
    OBVIOUS
  <2>2. r = [i \in 1..width |-> r[i]]
    BY <1>8, <1>10, <2>1
  <2>3. List(r) /\ Len(r) = width
    BY ONLY <1>8, <2>2, ListMade
  <2>4. new[j][col] \in IterCells /\ keys[new[j][col]] = Len(Rows) + j
    BY <1>10, <1>11, <1>19
  <2>5. QED
    BY <2>1, <2>3, <2>4
<1>22. \A k : k \in DOMAIN keys <=> \/ k \in DOMAIN iterDict
                                    \/ \E j \in DOMAIN new : k = new[j][col]
  BY <1>10, <1>17
<1>23. RowsOK(Rows, iterDict, width, col)
  BY <1>7, <1>8
<1>24. RowsOK(Rows \o new, keys, width, col)
  BY ONLY <1>18, <1>20, <1>21, <1>22, <1>23, RowsJoined
<1>25. PICK all, sel, read :
         all = Rows \o new /\ sel = SelectedRowList /\ read = ReadRowList
  OBVIOUS
<1>26. /\ fieldList' = h /\ fieldDict' = dict /\ Rows' = all /\ iterDict' = keys
       /\ SelectedRowList' = sel /\ ReadRowList' = read
  BY <1>2, <1>3, <1>4, <1>25
<1>27. /\ FieldsOK(h, dict) /\ RowsOK(all, keys, Len(h), dict[IterName])
       /\ List(sel) /\ ToSet(sel) \subseteq DOMAIN keys /\ List(read)
  BY <1>5, <1>6, <1>7, <1>17, <1>24, <1>25
<1>28. QED
  BY ONLY <1>26, <1>27 DEF Consistent, List, ToSet

-----------------------------------------------------------------------------
LEMMA Kept ==
  ASSUME Consistent, UNCHANGED <<table, SelectedRowList>>
  PROVE  Consistent'
BY DEF Consistent, table, List, ToSet

(* What a command has to do for the invariant: it goes on with a table     *)
(* that is consistent, or ends the session.                                *)
LEMMA Suffices ==
  ASSUME over' # "start", over' = "no" /\ ~doubt' => Consistent'
  PROVE  IInv'
BY DEF IInv

LEMMA InitInvariant == Init => IInv
BY DEF Init, IInv

LEMMA StepInvariant == IInv /\ [Next]_vars => IInv'
<1> SUFFICES ASSUME IInv, [Next]_vars PROVE IInv'
  OBVIOUS
<1> USE DEF Command
<1>1. CASE UNCHANGED vars
  <2>1. UNCHANGED <<table, SelectedRowList, over, doubt>>
    BY <1>1 DEF vars
  <2>2. CASE over = "start"
    BY <2>1, <2>2 DEF IInv, table
  <2>3. CASE over # "start"
    <3>1. over' = "no" /\ ~doubt' => Consistent
      BY <2>1 DEF IInv
    <3>2. QED
      BY <2>1, <2>3, <3>1, Kept, Suffices
  <2>4. QED
    BY <2>2, <2>3
<1>2. ASSUME NEW how, Fails(how), how \in Ends PROVE IInv'
  BY <1>2, Suffices DEF Fails, Ends
<1>3. ASSUME over = "no", UNCHANGED <<table, SelectedRowList, over, doubt>> PROVE IInv'
  <2>1. over' # "start"
    BY <1>3
  <2>2. over' = "no" /\ ~doubt' => Consistent
    BY <1>3 DEF IInv
  <2>3. QED
    BY <1>3, <2>1, <2>2, Kept, Suffices
<1>4. ASSUME over = "no", ~doubt PROVE Consistent
  BY <1>4 DEF IInv
<1>5. ASSUME NEW f \in DOMAIN Files, File(f) PROVE IInv'
  <2>1. over = "start" /\ over' = "no" /\ readCsvFile(f)
    BY <1>5 DEF File
  <2>2. QED
    BY <2>1, ReadStep, Suffices
<1>6. ASSUME NEW f \in DOMAIN Files, Read(f) PROVE IInv'
  <2>1. over = "no" /\ over' = "no" /\ readCsvFile(f)
    BY <1>6 DEF Read
  <2>2. QED
    BY <2>1, ReadStep, Suffices
<1>7. ASSUME NEW f \in DOMAIN Files, appendCsvFile(f) PROVE IInv'
  <2>1. over = "no" /\ over' \in {"no", "raise"}
    BY <1>7 DEF appendCsvFile, Fails
  <2>2. over' = "no" /\ ~doubt' => Consistent'
    BY <1>7, <2>1, AppendStep
  <2>3. QED
    BY ONLY <2>1, <2>2, Suffices, SMTT(60)
<1>8. CASE NoFile
  BY <1>2, <1>8 DEF NoFile, Ends
<1>9. ASSUME NEW s \in Selections, doSelect(s) PROVE IInv'
  <2>1. CASE Fails("raise")
    BY <1>2, <2>1 DEF Ends
  <2>2. CASE /\ SelectedRowList' = T!InOrder(Chosen(s))
             /\ doubt' = (doubt \/ T!Inverted(s))
             /\ UNCHANGED <<table, over>>
    <3>1. over = "no" /\ UNCHANGED <<table, over>> /\ (~doubt' => ~doubt)
      BY <1>9, <2>2 DEF doSelect
    <3>2. ASSUME ~doubt' PROVE Consistent'
      BY <1>4, <2>2, <3>1, <3>2, SelectStep
    <3>3. QED
      BY <3>1, <3>2, Suffices
  <2>3. QED
    BY <1>9, <2>1, <2>2, Zenon DEF doSelect
<1>10. CASE SelectAll
  <2>1. over = "no" /\ over' = "no" /\ (~doubt' => ~doubt)
    BY <1>10 DEF SelectAll
  <2>2. QED
    BY <1>4, <1>10, <2>1, OtherSelections, Suffices
<1>11. ASSUME NEW l \in RowLists, selectRows(l) PROVE IInv'
  <2>1. over = "no" /\ over' \in {"no", "raise"} /\ (~doubt' => ~doubt)
    BY <1>11 DEF selectRows, Fails
  <2>2. over' = "no" /\ ~doubt' => Consistent'
    BY <1>4, <1>11, <2>1, OtherSelections
  <2>3. QED
    BY <2>1, <2>2, Suffices
<1>12. ASSUME NEW l \in ColLists, selectCols(l) \/ removeCols(l) PROVE IInv'
  BY <1>3, <1>12 DEF selectCols, removeCols
<1>13. ASSUME NEW by \in Averages, doAverage(by) PROVE IInv'
  <2>1. over = "no" /\ over' \in {"no", "raise"} /\ (~doubt' => ~doubt)
    BY <1>13, Zenon DEF doAverage, Fails
  <2>2. over' = "no" /\ ~doubt' => Consistent'
    BY <1>4, <1>13, <2>1, AverageStep
  <2>3. QED
    BY <2>1, <2>2, Suffices
<1>14. ASSUME NEW nc \in NewCols, doNewCol1(nc) PROVE IInv'
  <2>1. over = "no" /\ over' # "start" /\ (~doubt' => ~doubt)
    BY <1>14 DEF doNewCol1, Fails
  <2>2. over' = "no" /\ ~doubt' => Consistent'
    BY <1>4, <1>14, <2>1, NewColStep
  <2>3. QED
    BY <2>1, <2>2, Suffices
<1>15. ASSUME NEW percent \in BOOLEAN, doTable(percent) PROVE IInv'
  BY <1>2, <1>3, <1>15 DEF doTable, Ends
<1>16. ASSUME NEW p \in Plots, doPlot0(p) PROVE IInv'
  BY <1>2, <1>3, <1>16 DEF doPlot0, Ends
<1>17. CASE doEnd
  BY <1>2, <1>17 DEF doEnd, Ends
<1>18. QED
  BY <1>1, <1>5, <1>6, <1>7, <1>8, <1>9, <1>10, <1>11, <1>12, <1>13, <1>14,
     <1>15, <1>16, <1>17 DEF Next

LEMMA ConsistentFinds ==
  ASSUME Consistent
  PROVE  RowsFound
<1>1. /\ FieldsOK(fieldList, fieldDict)
      /\ RowsOK(Rows, iterDict, Len(fieldList), fieldDict[IterName])
      /\ ToSet(SelectedRowList) \subseteq DOMAIN iterDict
  BY DEF Consistent
<1>2. Cardinality(DOMAIN iterDict) = Len(Rows)
  BY <1>1, RowsCounted
<1>3. \A k \in DOMAIN iterDict :
        iterDict[k] \in DOMAIN Rows /\ Row(k)[fieldDict[IterName]] = k
  BY <1>1 DEF RowsOK, Row
<1>4. Known(ToSet(SelectedRowList))
  BY <1>1 DEF Known
<1>5. \A r \in ToSet(Rows) : Len(r) = Len(fieldList)
  BY <1>1 DEF RowsOK, ToSet
<1>6. \A i \in DOMAIN fieldList : fieldDict[fieldList[i]] = i
  BY <1>1 DEF FieldsOK
<1>7. QED
  BY <1>2, <1>3, <1>4, <1>5, <1>6 DEF RowsFound

LEMMA InvariantFinds == IInv => RowsFound
<1>1. IInv /\ over = "no" /\ ~doubt => Consistent
  BY DEF IInv
<1>2. IInv /\ over = "start" => RowsFound
  <2> SUFFICES ASSUME IInv, over = "start" PROVE RowsFound
    OBVIOUS
  <2>1. /\ fieldList = <<>> /\ Rows = <<>> /\ DOMAIN iterDict = {}
        /\ SelectedRowList = <<>>
    BY DEF IInv
  <2>2. Cardinality(DOMAIN iterDict) = Len(Rows)
    BY <2>1, FS_EmptySet
  <2>3. Known(ToSet(SelectedRowList)) /\ ToSet(Rows) = {} /\ DOMAIN fieldList = {}
    BY <2>1 DEF Known, ToSet
  <2>4. QED
    BY <2>1, <2>2, <2>3 DEF RowsFound
<1>3. over \notin {"start", "no"} \/ doubt => RowsFound
  BY DEF RowsFound
<1>4. QED
  BY <1>1, <1>2, <1>3, ConsistentFinds

(* The two indexes of exp.py lead from every number of the table, and from *)
(* every selected one, to the one row that has it, whatever files were     *)
(* read and appended and whatever commands were given, until one of the    *)
(* conditions of ExpTable is met (doubt).                                  *)
THEOREM IndexesLeadBack == Spec => []RowsFound
<1>1. Init => IInv
  BY InitInvariant
<1>2. IInv /\ [Next]_vars => IInv'
  BY StepInvariant
<1>3. IInv => RowsFound
  BY InvariantFinds
<1>4. QED
  BY <1>1, <1>2, <1>3, PTL DEF Spec


-----------------------------------------------------------------------------
(* The lists of selected and of read numbers are lists, also where nothing *)
(* is promised of the table any more.                                      *)

Lists == List(SelectedRowList) /\ List(ReadRowList)

LEMMA FiniteList ==
  ASSUME NEW s, List(s)
  PROVE  IsFiniteSet(ToSet(s))
<1>1. PICK n : n = Len(s) /\ n \in Nat /\ s = [i \in 1..n |-> s[i]]
               /\ \A x : x \in ToSet(s) <=> \E i \in 1..n : s[i] = x
  BY ListAt
<1>2. s \in Surjection(1..n, ToSet(s))
  <2>1. s \in [1..n -> ToSet(s)]
    BY <1>1
  <2>2. QED
    BY <1>1, <2>1 DEF Surjection
<1>3. IsFiniteSet(1..n)
  BY <1>1, FS_Interval
<1>4. QED
  BY <1>2, <1>3, FS_Surjection

LEMMA FoundList ==
  ASSUME NEW seq, List(seq), List(ReadRowList)
  PROVE  List(Found(seq))
<1>1. PICK p, base, n : p = <<"rows">> /\ base = <<>> /\ n = Len(seq)
  OBVIOUS
<1>2. n \in Nat /\ DOMAIN seq = 1..n
  BY <1>1, ListAt
<1>3. PICK h : Turns(p, base, seq, n, h) /\ Found(seq) = h[n]
  BY <1>1, <1>2, FoundTurns
<1>4. \A i \in 1..n : \/ h[i] = ReadRowList
                      \/ h[i] = h[i - 1]
                      \/ h[i] = Append(h[i - 1], seq[i])
  BY <1>1, <1>3 DEF Turns, Step
<1>5. h[0] = <<>>
  BY <1>1, <1>3 DEF Turns
<1>6. List(<<>>)
  BY DEF List, ToSet
<1>7. \A s, e : List(s) => List(Append(s, e))
  BY AppendedList
<1> DEFINE P == {k \in Nat : k <= n => List(h[k])}
<1>8. 0 \in P
  BY <1>5, <1>6
<1>9. ASSUME NEW k \in Nat, k \in P PROVE k + 1 \in P
  <2> SUFFICES ASSUME k + 1 <= n PROVE List(h[k + 1])
    OBVIOUS
  <2>1. k + 1 \in 1..n /\ (k + 1) - 1 = k /\ List(h[k])
    BY <1>2, <1>9
  <2>2. \/ h[k + 1] = ReadRowList \/ h[k + 1] = h[k]
        \/ h[k + 1] = Append(h[k], seq[k + 1])
    BY <1>4, <2>1
  <2>3. QED
    BY <1>7, <2>1, <2>2
<1> HIDE DEF P
<1>10. n \in P
  BY <1>2, <1>8, <1>9, EveryNumber
<1>11. QED
  BY <1>2, <1>3, <1>10 DEF P

(* What doAverage() has added up.                                          *)
Sums(s) == DOMAIN s = {"rows", "reps", "counts", "raised"} /\ List(s.reps)

LEMMA AverageRowSums ==
  ASSUME NEW s, Sums(s), NEW i, NEW by, NEW col, NEW byCols
  PROVE  Sums(AverageRow(s, i, by, col, byCols))
<1>1. PICK row, t : row = s.rows[i] /\ t = AverageRow(s, i, by, col, byCols)
  OBVIOUS
<1>2. \/ t = [s EXCEPT !.raised = TRUE]
      \/ t = [s EXCEPT !.reps = Append(@, i), !.counts = Append(@, 1)]
      \/ \E a, rep : t = [s EXCEPT !.counts[a] = @ + 1,
                                   !.rows[rep] = Merged(s.rows[rep], row, col, byCols)]
  BY <1>1 DEF AverageRow
<1>3. List(Append(s.reps, i))
  BY AppendedList DEF Sums
<1>4. DOMAIN t = DOMAIN s /\ (t.reps = s.reps \/ t.reps = Append(s.reps, i))
  BY <1>2 DEF Sums
<1>5. QED
  BY <1>1, <1>3, <1>4 DEF Sums

LEMMA SummedList ==
  ASSUME List(SelectedRowList), NEW rows, NEW by, NEW byCols
  PROVE  List(Summed(rows, by, byCols).reps)
<1>1. PICK p, base, seq, n :
        /\ p = <<"average", by, fieldDict[IterName], byCols>>
        /\ base = [rows |-> rows, reps |-> <<>>, counts |-> <<>>, raised |-> FALSE]
        /\ seq = SelectedRowList /\ n = Len(seq)
  OBVIOUS
<1>2. n \in Nat /\ DOMAIN seq = 1..n
  BY <1>1, ListAt
<1>3. PICK h : Turns(p, base, seq, n, h) /\ Summed(rows, by, byCols) = h[n]
  BY <1>1, <1>2, SummedTurns
<1>4. PICK col : col = fieldDict[IterName]
  OBVIOUS
<1>5. \A i \in 1..n : h[i] = AverageRow(h[i - 1], iterDict[seq[i]], by, col, byCols)
  BY <1>1, <1>3, <1>4 DEF Turns, Step
<1>6. h[0] = base
  BY <1>3 DEF Turns
<1>7. Sums(base)
  <2>1. DOMAIN base = {"rows", "reps", "counts", "raised"} /\ base.reps = <<>>
    BY <1>1
  <2>2. List(<<>>)
    BY DEF List, ToSet
  <2>3. QED
    BY <2>1, <2>2 DEF Sums
<1> DEFINE P == {k \in Nat : k <= n => Sums(h[k])}
<1>8. 0 \in P
  BY <1>6, <1>7
<1>9. ASSUME NEW k \in Nat, k \in P PROVE k + 1 \in P
  <2> SUFFICES ASSUME k + 1 <= n PROVE Sums(h[k + 1])
    OBVIOUS
  <2>1. k + 1 \in 1..n /\ (k + 1) - 1 = k /\ Sums(h[k])
    BY <1>2, <1>9
  <2>2. h[k + 1] = AverageRow(h[k], iterDict[seq[k + 1]], by, col, byCols)
    BY <1>5, <2>1
  <2>3. QED
    BY <2>1, <2>2, AverageRowSums
<1> HIDE DEF P
<1>10. n \in P
  BY <1>2, <1>8, <1>9, EveryNumber
<1>11. QED
  BY <1>2, <1>3, <1>10 DEF P, Sums

LEMMA ReadLists ==
  ASSUME NEW f \in DOMAIN Files, readCsvFile(f)
  PROVE  Lists'
<1>1. PICK rs, col, nums : /\ rs = Files[f].rows /\ col = T!Position(Files[f].header, IterName)
                           /\ nums = [i \in DOMAIN rs |-> rs[i][col]]
  OBVIOUS
<1>2. SelectedRowList' = nums /\ ReadRowList' = nums
  BY <1>1 DEF readCsvFile
<1>3. List(rs)
  BY <1>1, ExpAssumption DEF ResultsFile
<1>4. List(nums)
  <2>1. DOMAIN rs = 1..Len(rs) /\ Len(rs) \in Nat
    BY <1>3, ListAt
  <2>2. nums = [i \in 1..Len(rs) |-> nums[i]]
    BY <1>1, <2>1
  <2>3. QED
    BY <2>1, <2>2, ListMade
<1>5. QED
  BY <1>2, <1>4 DEF Lists, List, ToSet

LEMMA AverageLists ==
  ASSUME Lists, NEW by, doAverage(by)
  PROVE  Lists'
<1> DEFINE counted == "avgCnt" \in DOMAIN fieldDict
           known0  == KnownOf(by)
           byCols0 == {fieldDict[b[1]] : b \in ToSet(known0)}
           list0   == IF counted THEN fieldList ELSE Append(fieldList, "avgCnt")
           avgCnt0 == IF counted THEN fieldDict["avgCnt"] ELSE Len(list0)
           grown0  == IF counted THEN Rows ELSE [i \in DOMAIN Rows |-> Append(Rows[i], Whole(1))]
           u0      == Summed(grown0, known0, byCols0)
           rows0   == [a \in DOMAIN u0.reps |-> DividedRows(u0, avgCnt0, byCols0)[u0.reps[a]]]
<1>1. \/ UNCHANGED <<SelectedRowList, ReadRowList>>
      \/ /\ SelectedRowList' = [a \in DOMAIN rows0 |-> rows0[a][fieldDict[IterName]]]
         /\ ReadRowList' = ReadRowList
  BY Zenon DEF doAverage, Fails, table
<1>2. List(u0.reps)
  <2> HIDE DEF known0, byCols0, grown0
  <2>1. QED
    BY SummedList DEF Lists
<1>3. DOMAIN rows0 = DOMAIN u0.reps
  OBVIOUS
<1> HIDE DEF u0, rows0
<1>4. PICK s : s = [a \in DOMAIN rows0 |-> rows0[a][fieldDict[IterName]]]
  OBVIOUS
<1>5. List(s)
  <2>1. DOMAIN u0.reps = 1..Len(u0.reps) /\ Len(u0.reps) \in Nat
    BY <1>2, ListAt
  <2>2. PICK m \in Nat : DOMAIN rows0 = 1..m
    BY <1>3, <2>1
  <2>3. s = [a \in 1..m |-> s[a]]
    BY <1>4, <2>2
  <2>4. QED
    BY <2>2, <2>3, ListMade
<1>6. CASE UNCHANGED <<SelectedRowList, ReadRowList>>
  BY <1>6 DEF Lists, List, ToSet
<1>7. CASE SelectedRowList' = s /\ ReadRowList' = ReadRowList
  BY <1>5, <1>7 DEF Lists, List, ToSet
<1>8. QED
  BY <1>1, <1>4, <1>6, <1>7

LEMMA InitLists == Init => Lists
BY DEF Init, Lists, List, ToSet

LEMMA StepLists == Lists /\ [Next]_vars => Lists'
<1> SUFFICES ASSUME Lists, [Next]_vars PROVE Lists'
  OBVIOUS
<1>1. ASSUME UNCHANGED <<SelectedRowList, ReadRowList>> PROVE Lists'
  BY <1>1 DEF Lists, List, ToSet
<1>2. CASE UNCHANGED vars
  BY <1>1, <1>2 DEF vars, table
<1>3. ASSUME NEW how, Fails(how) PROVE Lists'
  BY <1>1, <1>3 DEF Fails, table
<1>4. ASSUME NEW f \in DOMAIN Files, File(f) \/ Read(f) PROVE Lists'
  BY <1>4, ReadLists DEF File, Read
<1>5. ASSUME NEW f \in DOMAIN Files, appendCsvFile(f) PROVE Lists'
  <2>1. UNCHANGED <<SelectedRowList, ReadRowList>>
    BY <1>5, Zenon DEF appendCsvFile, Fails, table
  <2>2. QED
    BY <1>1, <2>1
<1>6. CASE NoFile
  BY <1>3, <1>6 DEF NoFile
<1>7. ASSUME NEW s \in Selections, doSelect(s) PROVE Lists'
  <2>1. CASE Fails("raise")
    BY <1>3, <2>1
  <2>2. CASE SelectedRowList' = T!InOrder(Chosen(s)) /\ ReadRowList' = ReadRowList
    <3>1. PICK C : C = Chosen(s)
      OBVIOUS
    <3>2. List(s)
      BY ExpAssumption
    <3>3. C \subseteq ToSet(SelectedRowList)
      BY <3>1, <3>2, ChosenAmong
    <3>4. IsFiniteSet(C)
      BY <3>3, FiniteList, FS_Subset DEF Lists
    <3>5. PICK list : list = T!InOrder(C) /\ SelectedRowList' = list
      BY <2>2, <3>1
    <3>6. List(list)
      BY <3>4, <3>5, InOrderLists
    <3>7. QED
      BY <2>2, <3>5, <3>6 DEF Lists, List, ToSet
  <2>3. QED
    BY <1>7, <2>1, <2>2, Zenon DEF doSelect, table
<1>8. CASE SelectAll
  BY <1>8 DEF SelectAll, table, Lists, List, ToSet
<1>9. ASSUME NEW l \in RowLists, selectRows(l) PROVE Lists'
  <2>1. CASE Fails("raise")
    BY <1>3, <2>1
  <2>2. CASE SelectedRowList' = Found(l) /\ ReadRowList' = ReadRowList
    <3>1. PICK list : list = Found(l) /\ SelectedRowList' = list
      BY <2>2
    <3>2. List(list)
      BY <3>1, FoundList, ExpAssumption DEF Lists
    <3>3. QED
      BY <2>2, <3>1, <3>2 DEF Lists, List, ToSet
  <2>3. QED
    BY <1>9, <2>1, <2>2, Zenon DEF selectRows, table
<1>10. ASSUME NEW l \in ColLists, selectCols(l) \/ removeCols(l) PROVE Lists'
  BY <1>1, <1>10 DEF selectCols, removeCols, table
<1>11. ASSUME NEW by \in Averages, doAverage(by) PROVE Lists'
  BY <1>11, AverageLists
<1>12. ASSUME NEW nc \in NewCols, doNewCol1(nc) PROVE Lists'
  <2>1. UNCHANGED <<SelectedRowList, ReadRowList>>
    BY <1>12, Zenon DEF doNewCol1, Fails, table
  <2>2. QED
    BY <1>1, <2>1
<1>13. ASSUME NEW percent \in BOOLEAN, doTable(percent) PROVE Lists'
  BY <1>1, <1>13 DEF doTable, Fails, table
<1>14. ASSUME NEW p \in Plots, doPlot0(p) PROVE Lists'
  BY <1>1, <1>14 DEF doPlot0, Fails, table
<1>15. CASE doEnd
  BY <1>3, <1>15 DEF doEnd
<1>16. QED
  BY <1>2, <1>4, <1>5, <1>6, <1>7, <1>8, <1>9, <1>10, <1>11, <1>12, <1>13, <1>14, <1>15
     DEF Next

-----------------------------------------------------------------------------
(* What doPlot() hands on.                                                 *)

LEMMA ThoseTurns ==
  ASSUME NEW seq, NEW n \in Nat, DOMAIN seq = 1..n, NEW base, base = <<>>, NEW S,
         NEW p, p = <<"those", S>>
  PROVE  \E h : Turns(p, base, seq, n, h) /\ Those(seq, S) = h[n]
<1> DEFINE P(g) == g = [s \in SUBSET (1..n) |-> IF s = {} THEN base
                          ELSE LET x == Max(s) IN
                               IF seq[x] \in S THEN Append(g[s \ {x}], seq[x])
                               ELSE g[s \ {x}]]
<1>1. Those(seq, S) = (CHOOSE g : P(g))[1..n]
  BY DEF Those, FoldLeft, MapThenFoldSet
<1>2. \A g : P(g) <=> Iterates(p, base, seq, g, 1..n)
  BY DEF Iterates, Step
<1> HIDE DEF P
<1>3. \E g : P(g)
  BY <1>2, IteratesExists
<1>4. PICK g : g = (CHOOSE f : P(f)) /\ Iterates(p, base, seq, g, 1..n)
  BY <1>2, <1>3, Zenon
<1>5. PICK h : Turns(p, base, seq, n, h) /\ g[1..n] = h[n]
  <2>1. n \in Nat /\ Iterates(p, base, seq, g, 1..n)
    BY <1>4
  <2>2. QED
    BY ONLY <2>1, IteratesTurns
<1>6. QED
  BY <1>1, <1>4, <1>5

(* s is what is in S of the first k of seq.                                *)
Left(s, seq, k, S) ==
  /\ List(s)
  /\ \A x : x \in ToSet(s) <=> x \in S /\ \E j \in 1..k : seq[j] = x
  /\ (\A j \in 1..k : seq[j] \in S) => Len(s) = k /\ \A i \in 1..k : s[i] = seq[i]

LEMMA AppendedSet ==
  ASSUME NEW s, List(s), NEW e
  PROVE  ToSet(Append(s, e)) = ToSet(s) \cup {e}
<1>1. PICK t, n : t = Append(s, e) /\ n = Len(s)
  OBVIOUS
<1>2. /\ n \in Nat /\ List(t) /\ Len(t) = n + 1 /\ t[n + 1] = e
      /\ \A i \in 1..n : t[i] = s[i]
  BY <1>1, AppendedList, ListAt
<1>3. \A x : x \in ToSet(s) <=> \E i \in 1..n : s[i] = x
  BY <1>1, ListAt
<1>4. \A x : x \in ToSet(t) <=> \E i \in 1..(n + 1) : t[i] = x
  BY <1>2, ListAt
<1>5. \A i : i \in 1..(n + 1) <=> i \in 1..n \/ i = n + 1
  BY <1>2
<1>6. QED
  BY ONLY <1>1, <1>2, <1>3, <1>4, <1>5

LEMMA LeftNext ==
  ASSUME NEW seq, NEW k \in Nat, NEW S, NEW s, Left(s, seq, k, S), NEW t,
         t = IF seq[k + 1] \in S THEN Append(s, seq[k + 1]) ELSE s
  PROVE  Left(t, seq, k + 1, S)
<1>1. List(s) /\ \A i : i \in 1..(k + 1) <=> i \in 1..k \/ i = k + 1
  BY DEF Left
<1>2. \A x : x \in ToSet(s) <=> x \in S /\ \E j \in 1..k : seq[j] = x
  BY DEF Left
<1>3. CASE seq[k + 1] \notin S
  <2>1. t = s /\ k + 1 \in 1..(k + 1)
    BY <1>3
  <2>2. \A x : x \in ToSet(t) <=> x \in S /\ \E j \in 1..(k + 1) : seq[j] = x
    BY <1>1, <1>2, <1>3, <2>1
  <2>3. QED
    BY <1>1, <1>3, <2>1, <2>2 DEF Left
<1>4. CASE seq[k + 1] \in S
  <2>1. t = Append(s, seq[k + 1])
    BY <1>4
  <2>2. List(t) /\ ToSet(t) = ToSet(s) \cup {seq[k + 1]}
    BY <1>1, <2>1, AppendedList, AppendedSet
  <2>3. \A x : x \in ToSet(t) <=> x \in S /\ \E j \in 1..(k + 1) : seq[j] = x
    BY <1>1, <1>2, <1>4, <2>2
  <2>4. ASSUME \A j \in 1..(k + 1) : seq[j] \in S
        PROVE  Len(t) = k + 1 /\ \A i \in 1..(k + 1) : t[i] = seq[i]
    <3>1. Len(s) = k /\ \A i \in 1..k : s[i] = seq[i]
      BY <1>1, <2>4 DEF Left
    <3>2. Len(t) = k + 1 /\ t[k + 1] = seq[k + 1] /\ \A i \in 1..k : t[i] = s[i]
      BY <1>1, <2>1, <3>1, AppendedList
    <3>3. QED
      BY <1>1, <3>1, <3>2
  <2>5. QED
    BY <2>2, <2>3, <2>4 DEF Left
<1>5. QED
  BY <1>3, <1>4

(* Those of a list that are in a set, in their order.                      *)
LEMMA ThoseRows ==
  ASSUME NEW rs, List(rs), NEW S
  PROVE  /\ List(Those(rs, S)) /\ ToSet(Those(rs, S)) = ToSet(rs) \cap S
         /\ ToSet(rs) \subseteq S => Those(rs, S) = rs
<1>1. PICK p, base, n : p = <<"those", S>> /\ base = <<>> /\ n = Len(rs)
  OBVIOUS
<1>2. n \in Nat /\ DOMAIN rs = 1..n /\ rs = [i \in 1..n |-> rs[i]]
      /\ \A x : x \in ToSet(rs) <=> \E i \in 1..n : rs[i] = x
  BY <1>1, ListAt
<1>3. PICK h : Turns(p, base, rs, n, h) /\ Those(rs, S) = h[n]
  <2>1. n \in Nat /\ DOMAIN rs = 1..n /\ base = <<>> /\ p = <<"those", S>>
    BY <1>1, <1>2
  <2>2. QED
    BY ONLY <2>1, ThoseTurns
<1>4. \A i \in 1..n : h[i] = IF rs[i] \in S THEN Append(h[i - 1], rs[i]) ELSE h[i - 1]
  BY <1>1, <1>3 DEF Turns, Step
<1>5. h[0] = <<>>
  BY <1>1, <1>3 DEF Turns
<1> DEFINE P == {k \in Nat : k <= n => Left(h[k], rs, k, S)}
<1>6. 0 \in P
  <2>1. Left(<<>>, rs, 0, S)
    BY DEF Left, List, ToSet
  <2>2. QED
    BY <1>5, <2>1
<1>7. ASSUME NEW k \in Nat, k \in P PROVE k + 1 \in P
  <2> SUFFICES ASSUME k + 1 <= n PROVE Left(h[k + 1], rs, k + 1, S)
    OBVIOUS
  <2>1. k + 1 \in 1..n /\ (k + 1) - 1 = k /\ Left(h[k], rs, k, S)
    BY <1>2, <1>7
  <2>2. h[k + 1] = IF rs[k + 1] \in S THEN Append(h[k], rs[k + 1]) ELSE h[k]
    BY <1>4, <2>1
  <2>3. QED
    BY <2>1, <2>2, LeftNext
<1> HIDE DEF P
<1>8. n \in P
  BY <1>2, <1>6, <1>7, EveryNumber
<1>9. PICK t : t = Those(rs, S) /\ Left(t, rs, n, S)
  BY <1>2, <1>3, <1>8 DEF P
<1>10. List(t) /\ ToSet(t) = ToSet(rs) \cap S
  BY <1>2, <1>9 DEF Left
<1>11. ASSUME ToSet(rs) \subseteq S PROVE t = rs
  <2>1. \A j \in 1..n : rs[j] \in S
    BY <1>2, <1>11
  <2>2. Len(t) = n /\ \A i \in 1..n : t[i] = rs[i]
    BY <1>9, <2>1 DEF Left
  <2>3. t = [i \in 1..n |-> t[i]]
    BY <1>10, <2>2, ListAt
  <2>4. QED
    BY <1>2, <2>2, <2>3
<1>12. QED
  BY <1>9, <1>10, <1>11

LEMMA DistinctTurns ==
  ASSUME NEW seq, NEW n \in Nat, DOMAIN seq = 1..n, NEW base, base = <<>>,
         NEW p, p = <<"distinct">>
  PROVE  \E h : Turns(p, base, seq, n, h) /\ Distinct(seq) = h[n]
<1> DEFINE P(g) == g = [s \in SUBSET (1..n) |-> IF s = {} THEN base
                          ELSE LET x == Max(s) IN
                               IF seq[x] \in ToSet(g[s \ {x}]) THEN g[s \ {x}]
                               ELSE Append(g[s \ {x}], seq[x])]
<1>1. Distinct(seq) = (CHOOSE g : P(g))[1..n]
  BY DEF Distinct, FoldLeft, MapThenFoldSet
<1>2. \A g : P(g) <=> Iterates(p, base, seq, g, 1..n)
  BY DEF Iterates, Step
<1> HIDE DEF P
<1>3. \E g : P(g)
  BY <1>2, IteratesExists
<1>4. PICK g : g = (CHOOSE f : P(f)) /\ Iterates(p, base, seq, g, 1..n)
  BY <1>2, <1>3, Zenon
<1>5. PICK h : Turns(p, base, seq, n, h) /\ g[1..n] = h[n]
  <2>1. n \in Nat /\ Iterates(p, base, seq, g, 1..n)
    BY <1>4
  <2>2. QED
    BY ONLY <2>1, IteratesTurns
<1>6. QED
  BY <1>1, <1>4, <1>5

Met(s, seq, k) ==
  /\ List(s)
  /\ \A x : x \in ToSet(s) <=> \E j \in 1..k : seq[j] = x

(* No value of a list is missing from its different values.                *)
LEMMA DistinctValues ==
  ASSUME NEW rs, List(rs)
  PROVE  List(Distinct(rs)) /\ ToSet(Distinct(rs)) = ToSet(rs)
<1>1. PICK p, base, n : p = <<"distinct">> /\ base = <<>> /\ n = Len(rs)
  OBVIOUS
<1>2. n \in Nat /\ DOMAIN rs = 1..n
      /\ \A x : x \in ToSet(rs) <=> \E i \in 1..n : rs[i] = x
  BY <1>1, ListAt
<1>3. PICK h : Turns(p, base, rs, n, h) /\ Distinct(rs) = h[n]
  <2>1. n \in Nat /\ DOMAIN rs = 1..n /\ base = <<>> /\ p = <<"distinct">>
    BY <1>1, <1>2
  <2>2. QED
    BY ONLY <2>1, DistinctTurns
<1>4. \A i \in 1..n : h[i] = IF rs[i] \in ToSet(h[i - 1]) THEN h[i - 1]
                             ELSE Append(h[i - 1], rs[i])
  BY <1>1, <1>3 DEF Turns, Step
<1>5. h[0] = <<>>
  BY <1>1, <1>3 DEF Turns
<1> DEFINE P == {k \in Nat : k <= n => Met(h[k], rs, k)}
<1>6. 0 \in P
  <2>1. Met(<<>>, rs, 0)
    BY DEF Met, List, ToSet
  <2>2. QED
    BY <1>5, <2>1
<1>7. ASSUME NEW k \in Nat, k \in P PROVE k + 1 \in P
  <2> SUFFICES ASSUME k + 1 <= n PROVE Met(h[k + 1], rs, k + 1)
    OBVIOUS
  <2>1. k + 1 \in 1..n /\ (k + 1) - 1 = k /\ Met(h[k], rs, k)
    BY <1>2, <1>7
  <2>2. h[k + 1] = IF rs[k + 1] \in ToSet(h[k]) THEN h[k] ELSE Append(h[k], rs[k + 1])
    BY <1>4, <2>1
  <2>3. List(h[k + 1]) /\ ToSet(h[k + 1]) = ToSet(h[k]) \cup {rs[k + 1]}
    BY <2>1, <2>2, AppendedList, AppendedSet DEF Met
  <2>4. \A j : j \in 1..(k + 1) <=> j \in 1..k \/ j = k + 1
    BY <1>7
  <2>5. QED
    BY <2>1, <2>3, <2>4 DEF Met
<1> HIDE DEF P
<1>8. n \in P
  BY <1>2, <1>6, <1>7, EveryNumber
<1>9. QED
  BY <1>2, <1>3, <1>8 DEF P, Met

(* What is left of the rows are those that can be plotted.                 *)
LEMMA UsableRows ==
  ASSUME NEW rs, List(rs), NEW p, NEW dict
  PROVE  /\ List(Usable(p, dict, rs)) /\ ToSet(Usable(p, dict, rs)) = Plottable(p, dict, rs)
         /\ Plottable(p, dict, rs) = ToSet(rs) => Usable(p, dict, rs) = rs
<1> DEFINE Fine(r, f) == isFloat(Cell(dict, r, f)) \/ Cell(dict, r, f) = Empty
<1>1. PICK a : a = WithX(p, dict, rs)
  OBVIOUS
<1>2. PICK b : b = WithY1(p, dict, rs)
  OBVIOUS
<1>3. PICK c : c = WithY2(p, dict, rs)
  OBVIOUS
<1>4. PICK d : d = Usable(p, dict, rs)
  OBVIOUS
<1>5. /\ List(a) /\ ToSet(a) = {r \in ToSet(rs) : Cell(dict, r, p.x) \notin {Blank, Empty}}
      /\ ToSet(a) = ToSet(rs) => a = rs
  <2>1. PICK S : S = {r \in ToSet(rs) : Cell(dict, r, p.x) \notin {Blank, Empty}}
    OBVIOUS
  <2>2. a = Those(rs, S)
    BY <1>1, <2>1 DEF WithX, removeEmptyFieldRows
  <2>3. QED
    BY <2>1, <2>2, ThoseRows
<1>6. ASSUME NEW s, List(s), NEW f, NEW t, t = removeNonFloatFieldRows(dict, s, f)
      PROVE  /\ List(t) /\ ToSet(t) = {r \in ToSet(s) : Fine(r, f)}
             /\ ToSet(t) = ToSet(s) => t = s
  <2>1. PICK S : S = {r \in ToSet(s) : Fine(r, f)}
    OBVIOUS
  <2>2. t = Those(s, S)
    BY <1>6, <2>1 DEF removeNonFloatFieldRows
  <2>3. QED
    BY <1>6, <2>1, <2>2, ThoseRows
<1>7. /\ List(b) /\ ToSet(b) = {r \in ToSet(a) : Fine(r, p.y1)}
      /\ ToSet(b) = ToSet(a) => b = a
  BY <1>1, <1>2, <1>5, <1>6 DEF WithY1
<1>8. /\ List(c) /\ ToSet(c) = {r \in ToSet(b) : Fine(r, p.y2)}
      /\ ToSet(c) = ToSet(b) => c = b
  BY <1>2, <1>3, <1>6, <1>7 DEF WithY2
<1>9. /\ List(d) /\ ToSet(d) = {r \in ToSet(c) : p.y3 # "" => Fine(r, p.y3)}
      /\ ToSet(d) = ToSet(c) => d = c
  <2>1. CASE p.y3 = ""
    <3>1. d = c
      BY <1>3, <1>4, <2>1 DEF Usable
    <3>2. QED
      BY <1>8, <2>1, <3>1
  <2>2. CASE p.y3 # ""
    <3>1. d = removeNonFloatFieldRows(dict, c, p.y3)
      BY <1>3, <1>4, <2>2 DEF Usable
    <3>2. /\ List(d) /\ ToSet(d) = {r \in ToSet(c) : Fine(r, p.y3)}
          /\ ToSet(d) = ToSet(c) => d = c
      BY <1>6, <1>8, <3>1
    <3>3. QED
      BY <2>2, <3>2
  <2>3. QED
    BY <2>1, <2>2
<1>10. PICK few : few = Plottable(p, dict, rs)
  OBVIOUS
<1>11. few = {r \in ToSet(rs) : /\ Cell(dict, r, p.x) \notin {Blank, Empty}
                                /\ Fine(r, p.y1) /\ Fine(r, p.y2)
                                /\ p.y3 # "" => Fine(r, p.y3)}
  BY <1>10 DEF Plottable, Fields
<1> HIDE DEF Fine
<1>12. ToSet(d) = few
  BY ONLY <1>5, <1>7, <1>8, <1>9, <1>11
<1>13. ASSUME few = ToSet(rs) PROVE d = rs
  BY ONLY <1>5, <1>7, <1>8, <1>9, <1>12, <1>13
<1>14. QED
  BY <1>4, <1>9, <1>10, <1>12, <1>13

LEMMA SeriesAmong ==
  ASSUME NEW rs, List(rs), NEW dict, NEW f, NEW v
  PROVE  /\ List(SeriesRows(dict, rs, f, v))
         /\ ToSet(SeriesRows(dict, rs, f, v)) =
              {r \in ToSet(rs) : f \in DOMAIN dict /\ Cell(dict, r, f) = v}
<1>1. List(<<>>) /\ ToSet(<<>>) = {}
  BY DEF List, ToSet
<1>2. PICK S : S = {r \in ToSet(rs) : Cell(dict, r, f) = v}
  OBVIOUS
<1>3. SeriesRows(dict, rs, f, v) = IF f \in DOMAIN dict THEN Those(rs, S) ELSE <<>>
  BY <1>2 DEF SeriesRows
<1>4. QED
  BY <1>1, <1>2, <1>3, ThoseRows

LEMMA StringsOf ==
  ASSUME NEW rs, List(rs), NEW dict, NEW f
  PROVE  /\ List(Strings(dict, rs, f)) /\ Len(Strings(dict, rs, f)) = Len(rs)
         /\ \A i \in 1..Len(rs) : Strings(dict, rs, f)[i] = Cell(dict, rs[i], f)
<1>1. PICK n : n = Len(rs) /\ n \in Nat /\ DOMAIN rs = 1..n
  BY ListAt
<1>2. PICK xs : xs = Strings(dict, rs, f)
  OBVIOUS
<1>3. /\ xs = [i \in 1..n |-> xs[i]]
      /\ \A i \in 1..n : xs[i] = Cell(dict, rs[i], f)
  BY <1>1, <1>2 DEF Strings
<1>4. List(xs) /\ Len(xs) = n
  BY <1>1, <1>3, ListMade
<1>5. QED
  BY <1>1, <1>2, <1>3, <1>4

(* The points of the rows in S.                                            *)
PointsOf(p, dict, S, f, div, none) == {Point(p, dict, r, f, div, none) : r \in S}

(* Rows with their own x are drawn one by one.                             *)
LEMMA BarsOfRows ==
  ASSUME NEW us, List(us), NEW p, NEW dict, \A r \in ToSet(us) : Cell(dict, r, p.x) # Blank,
         NEW f, NEW div, NEW none
  PROVE  Drawn(Strings(dict, us, p.x), scaleList(Vals(dict, us, f, none), div)) =
           PointsOf(p, dict, ToSet(us), f, div, none)
<1>1. PICK n : n = Len(us) /\ n \in Nat /\ DOMAIN us = 1..n
               /\ \A r : r \in ToSet(us) <=> \E k \in 1..n : us[k] = r
  BY ListAt
<1>2. PICK xs : xs = Strings(dict, us, p.x)
  OBVIOUS
<1>3. DOMAIN xs = 1..n /\ \A k \in 1..n : xs[k] = Cell(dict, us[k], p.x) /\ xs[k] # Blank
  BY <1>1, <1>2 DEF Strings
<1>4. PICK vals : vals = Vals(dict, us, f, none)
  OBVIOUS
<1>5. /\ DOMAIN vals = 1..n
      /\ \A k \in 1..n : LET c == Cell(dict, us[k], f) IN
           vals[k] = IF isFloat(c) THEN Val(c) ELSE none
  BY <1>1, <1>4 DEF Vals
<1>6. PICK ys : ys = scaleList(vals, div)
  OBVIOUS
<1>7. /\ DOMAIN ys = 1..n
      /\ \A k \in 1..n : ys[k] = IF div = 0 THEN vals[k] ELSE Over(vals[k], Number(div))
  BY <1>5, <1>6 DEF scaleList
<1>8. \A k \in 1..n : <<xs[k], ys[k]>> = Point(p, dict, us[k], f, div, none)
  BY <1>3, <1>5, <1>7 DEF Point
<1>9. Drawn(xs, ys) = {<<xs[k], ys[k]>> : k \in 1..n}
  <2>1. {k \in DOMAIN xs \cap DOMAIN ys : k = Len(xs) => xs[k] # Blank} = 1..n
    BY <1>3, <1>7
  <2>2. QED
    BY <2>1 DEF Drawn
<1>10. PICK drawn, asked : /\ drawn = Drawn(xs, ys)
                           /\ asked = {Point(p, dict, r, f, div, none) : r \in ToSet(us)}
  OBVIOUS
<1>11. \A e : e \in drawn <=> \E k \in 1..n : e = <<xs[k], ys[k]>>
  BY <1>9, <1>10
<1>12. \A e : e \in asked <=> \E r \in ToSet(us) : e = Point(p, dict, r, f, div, none)
  BY <1>10
<1>13. \A e : e \in asked <=> \E k \in 1..n : e = Point(p, dict, us[k], f, div, none)
  BY ONLY <1>1, <1>12
<1>14. drawn = asked
  BY ONLY <1>8, <1>11, <1>13
<1>15. asked = PointsOf(p, dict, ToSet(us), f, div, none)
  BY ONLY <1>10 DEF PointsOf
<1>16. QED
  BY ONLY <1>2, <1>4, <1>6, <1>10, <1>14, <1>15

LEMMA PointsOfRows ==
  ASSUME NEW us, List(us), NEW p, NEW dict, \A r \in ToSet(us) : Cell(dict, r, p.x) # Blank,
         NEW xs, xs = Strings(dict, us, p.x), NEW none
  PROVE  Shows(p, dict, ToSet(us), none, Points(p, dict, us, xs, none))
<1>1. PICK y2div : y2div = IF p.y2div = 0 THEN 0 ELSE p.y1div
  OBVIOUS
<1>2. p.y2div \in {0, p.y1div} => y2div = p.y2div
  BY <1>1
<1>3. PICK b1, b2, b3 :
        /\ b1 = Drawn(xs, scaleList(Vals(dict, us, p.y1, none), p.y1div))
        /\ b2 = Drawn(xs, scaleList(Vals(dict, us, p.y2, none), y2div))
        /\ b3 = Drawn(xs, scaleList(Vals(dict, us, p.y3, none), y2div))
  OBVIOUS
<1>4. ASSUME NEW f, NEW div
      PROVE  Drawn(xs, scaleList(Vals(dict, us, f, none), div)) =
               PointsOf(p, dict, ToSet(us), f, div, none)
  <2>1. Drawn(Strings(dict, us, p.x), scaleList(Vals(dict, us, f, none), div)) =
          PointsOf(p, dict, ToSet(us), f, div, none)
    BY ONLY BarsOfRows, List(us), \A r \in ToSet(us) : Cell(dict, r, p.x) # Blank
  <2>2. QED
    BY ONLY <2>1, xs = Strings(dict, us, p.x)
<1>5. /\ b1 = PointsOf(p, dict, ToSet(us), p.y1, p.y1div, none)
      /\ b2 = PointsOf(p, dict, ToSet(us), p.y2, y2div, none)
      /\ b3 = PointsOf(p, dict, ToSet(us), p.y3, y2div, none)
  BY ONLY <1>3, <1>4
<1>6. /\ p.y2div \in {0, p.y1div} => b2 = PointsOf(p, dict, ToSet(us), p.y2, p.y2div, none)
      /\ p.y2div \in {0, p.y1div} => b3 = PointsOf(p, dict, ToSet(us), p.y3, p.y2div, none)
  BY ONLY <1>2, <1>5
<1>7. PICK points : points = Points(p, dict, us, xs, none)
  OBVIOUS
<1>8. points = [y1 |-> b1, y2 |-> b2, y3 |-> IF p.y3 = "" THEN {} ELSE b3]
  BY <1>1, <1>3, <1>7 DEF Points
<1>9. points.y1 = b1 /\ points.y2 = b2 /\ (p.y3 # "" => points.y3 = b3)
  BY <1>8
<1>10. /\ points.y1 = {Point(p, dict, r, p.y1, p.y1div, none) : r \in ToSet(us)}
       /\ p.y2div \in {0, p.y1div} =>
            /\ points.y2 = {Point(p, dict, r, p.y2, p.y2div, none) : r \in ToSet(us)}
            /\ p.y3 # "" =>
                 points.y3 = {Point(p, dict, r, p.y3, p.y2div, none) : r \in ToSet(us)}
  BY ONLY <1>5, <1>6, <1>9 DEF PointsOf
<1>11. Shows(p, dict, ToSet(us), none, points)
  BY ONLY <1>10, Zenon DEF Shows
<1>12. QED
  BY <1>7, <1>11

LEMMA ListsOfRows ==
  ASSUME NEW rs, List(rs), NEW p, NEW dict, NEW sList, sList = SeriesList(p, dict, rs),
         ~Shifted(p, dict, rs), NEW lists, lists = PlotLists(p, dict, rs, sList)
  PROVE  /\ DOMAIN lists = IF sList = <<>> THEN {1} ELSE DOMAIN sList
         /\ \A i \in DOMAIN lists :
              /\ List(lists[i].rows) /\ lists[i].xs = Strings(dict, lists[i].rows, p.x)
              /\ ToSet(lists[i].rows) = Members(p, dict, rs, sList, i)
<1>1. PICK us : us = Usable(p, dict, rs)
  OBVIOUS
<1>2. PICK few : few = Plottable(p, dict, rs)
  OBVIOUS
<1>3. List(us) /\ ToSet(us) = few /\ (few = ToSet(rs) => us = rs)
  BY <1>1, <1>2, UsableRows
<1>4. CASE sList = <<>>
  <2>1. PICK all : all = IF Uniform(p, Strings(dict, rs, p.x)) THEN Strings(dict, rs, p.x)
                         ELSE Strings(dict, us, p.x)
    OBVIOUS
  <2>2. lists = <<[xs |-> all, rows |-> us]>>
    BY <1>1, <1>4, <2>1 DEF PlotLists
  <2>3. all = Strings(dict, us, p.x)
    <3>1. Uniform(p, Strings(dict, rs, p.x)) => us = rs
      BY <1>2, <1>3, <1>4 DEF Shifted
    <3>2. QED
      BY <2>1, <3>1
  <2>4. DOMAIN lists = {1} /\ lists[1].rows = us /\ lists[1].xs = all
    BY <2>2
  <2>5. \A i : Members(p, dict, rs, sList, i) = few
    BY <1>2, <1>4 DEF Members
  <2>6. QED
    BY ONLY <1>3, <1>4, <2>3, <2>4, <2>5
<1>5. CASE sList # <<>>
  <2>1. /\ DOMAIN lists = DOMAIN sList
        /\ \A i \in DOMAIN sList :
             LET vs == SeriesRows(dict, us, p.series, sList[i])
             IN  lists[i].rows = vs /\ lists[i].xs = Strings(dict, vs, p.x)
    BY <1>1, <1>5 DEF PlotLists
  <2>2. ASSUME NEW i \in DOMAIN lists
        PROVE  /\ List(lists[i].rows) /\ lists[i].xs = Strings(dict, lists[i].rows, p.x)
               /\ ToSet(lists[i].rows) = Members(p, dict, rs, sList, i)
    <3>1. PICK vs : vs = SeriesRows(dict, us, p.series, sList[i])
      OBVIOUS
    <3>2. lists[i].rows = vs /\ lists[i].xs = Strings(dict, vs, p.x)
      BY <2>1, <2>2, <3>1
    <3>3. /\ List(vs)
          /\ ToSet(vs) = {r \in few : p.series \in DOMAIN dict /\ Cell(dict, r, p.series) = sList[i]}
      BY <1>3, <3>1, SeriesAmong
    <3>4. Members(p, dict, rs, sList, i) =
            {r \in few : p.series \in DOMAIN dict /\ Cell(dict, r, p.series) = sList[i]}
      BY <1>2, <1>5 DEF Members
    <3>5. QED
      BY <3>2, <3>3, <3>4
  <2>3. QED
    BY <1>5, <2>1, <2>2
<1>6. QED
  BY <1>4, <1>5

(* A series was found for every row, unless its name was escaped.          *)
LEMMA RowsInSeries ==
  ASSUME NEW rs, List(rs), NEW p, NEW dict, NEW sList, sList = SeriesList(p, dict, rs),
         sList # <<>>, Discovers(p, dict), NEW r \in ToSet(rs),
         Cell(dict, r, p.series) \notin WithParens
  PROVE  p.series \in DOMAIN dict /\ \E i \in DOMAIN sList : Cell(dict, r, p.series) = sList[i]
<1>1. PICK all, found : all = Strings(dict, rs, p.series) /\ found = Distinct(all)
  OBVIOUS
<1>2. /\ List(all) /\ Len(all) = Len(rs)
      /\ \A i \in 1..Len(rs) : all[i] = Cell(dict, rs[i], p.series)
  BY <1>1, StringsOf
<1>3. PICK i \in 1..Len(rs) : rs[i] = r
  BY ListAt
<1>4. Cell(dict, r, p.series) \in ToSet(all)
  BY <1>2, <1>3, ListAt
<1>5. List(found) /\ ToSet(found) = ToSet(all)
  BY <1>1, <1>2, DistinctValues
<1>6. PICK k \in DOMAIN found : found[k] = Cell(dict, r, p.series)
  BY <1>4, <1>5, ListAt
<1>7. sList = [j \in DOMAIN found |-> Escaped(found[j])]
  BY <1>1 DEF SeriesList
<1>8. k \in DOMAIN sList /\ sList[k] = Escaped(found[k])
  BY <1>7
<1>9. Escaped(found[k]) = found[k]
  BY <1>6 DEF Escaped
<1>10. QED
  BY <1>6, <1>8, <1>9 DEF Discovers

LEMMA PlotSelected ==
  ASSUME NEW rs, List(rs), NEW p, NEW dict, doPlot(p, dict, rs)[1] = "plot"
  PROVE  LET drawn == doPlot(p, dict, rs) IN AsSelected(drawn[2], dict, rs, drawn[3])
<1>1. PICK sList, none : sList = SeriesList(p, dict, rs) /\ none = NoNumber(sList)
  OBVIOUS
<1>2. NoPlot[1] # "plot" /\ PlotRaises[1] # "plot"
  BY DEF NoPlot, PlotRaises
<1>3. doPlot(p, dict, rs) = doPlotSeries(p, dict, rs, sList)
  BY <1>1, <1>2 DEF doPlot
<1>4. PICK lists : lists = PlotLists(p, dict, rs, sList)
  OBVIOUS
<1>5. PICK points : points = [i \in DOMAIN lists |->
                                Points(p, dict, lists[i].rows, lists[i].xs, none)]
  OBVIOUS
<1>6. doPlot(p, dict, rs) = <<"plot", p, points>>
  BY <1>1, <1>2, <1>3, <1>4, <1>5 DEF doPlotSeries
<1>7. ASSUME ~Shifted(p, dict, rs)
      PROVE  /\ DOMAIN points = IF sList = <<>> THEN {1} ELSE DOMAIN sList
             /\ \A i \in DOMAIN points :
                  Shows(p, dict, Members(p, dict, rs, sList, i), none, points[i])
  <2>1. /\ DOMAIN lists = IF sList = <<>> THEN {1} ELSE DOMAIN sList
        /\ \A i \in DOMAIN lists :
              /\ List(lists[i].rows) /\ lists[i].xs = Strings(dict, lists[i].rows, p.x)
              /\ ToSet(lists[i].rows) = Members(p, dict, rs, sList, i)
    BY <1>1, <1>4, <1>7, ListsOfRows
  <2>2. DOMAIN points = DOMAIN lists
    BY <1>5
  <2>3. ASSUME NEW i \in DOMAIN points
        PROVE  Shows(p, dict, Members(p, dict, rs, sList, i), none, points[i])
    <3>1. PICK us, xs : us = lists[i].rows /\ xs = lists[i].xs
      OBVIOUS
    <3>2. List(us) /\ xs = Strings(dict, us, p.x) /\ ToSet(us) = Members(p, dict, rs, sList, i)
      BY <2>1, <2>2, <2>3, <3>1
    <3>3. \A r \in ToSet(us) : Cell(dict, r, p.x) # Blank
      BY <3>2 DEF Members, Plottable
    <3>4. points[i] = Points(p, dict, us, xs, none)
      BY <1>5, <2>2, <2>3, <3>1
    <3>5. QED
      BY <3>2, <3>3, <3>4, PointsOfRows
  <2>4. QED
    BY <2>1, <2>2, <2>3
<1>8. ASSUME ~Shifted(p, dict, rs), Discovers(p, dict), NEW r \in Plottable(p, dict, rs),
             Cell(dict, r, p.series) \notin WithParens
      PROVE  \E i \in DOMAIN points : r \in Members(p, dict, rs, sList, i)
  <2>1. r \in ToSet(rs)
    BY <1>8 DEF Plottable
  <2>2. CASE sList = <<>>
    BY <1>7, <1>8, <2>2 DEF Members
  <2>3. CASE sList # <<>>
    <3>1. p.series \in DOMAIN dict /\ \E i \in DOMAIN sList : Cell(dict, r, p.series) = sList[i]
      BY <1>1, <1>8, <2>1, <2>3, RowsInSeries
    <3>2. DOMAIN points = DOMAIN sList
      BY <1>7, <1>8, <2>3
    <3>3. QED
      BY <1>8, <3>1, <3>2 DEF Members
  <2>4. QED
    BY <2>2, <2>3
<1>9. AsSelected(p, dict, rs, points)
  BY ONLY <1>1, <1>7, <1>8, Zenon DEF AsSelected
<1>10. QED
  BY <1>6, <1>9

Plotted ==
  page' # page /\ page'[1] = "plot" =>
    AsSelected(page'[2], fieldDict,
            [i \in DOMAIN SelectedRowList |-> Row(SelectedRowList[i])], page'[3])

LEMMA StepDraws ==
  ASSUME Lists, Next
  PROVE  Plotted
<1>1. ASSUME page' = page PROVE Plotted
  BY <1>1 DEF Plotted
<1>2. ASSUME NEW how, Fails(how) PROVE Plotted
  BY <1>1, <1>2 DEF Fails
<1>3. ASSUME NEW f \in DOMAIN Files, File(f) \/ Read(f) PROVE Plotted
  BY <1>1, <1>3 DEF File, Read, readCsvFile
<1>4. ASSUME NEW f \in DOMAIN Files, appendCsvFile(f) PROVE Plotted
  <2>1. page' = page
    BY <1>4, Zenon DEF appendCsvFile, Fails
  <2>2. QED
    BY <1>1, <2>1
<1>5. CASE NoFile
  BY <1>2, <1>5 DEF NoFile
<1>6. ASSUME NEW s \in Selections, doSelect(s) PROVE Plotted
  <2>1. page' = page
    BY <1>6, Zenon DEF doSelect, Fails
  <2>2. QED
    BY <1>1, <2>1
<1>7. CASE SelectAll
  BY <1>1, <1>7 DEF SelectAll
<1>8. ASSUME NEW l \in RowLists, selectRows(l) PROVE Plotted
  <2>1. page' = page
    BY <1>8, Zenon DEF selectRows, Fails
  <2>2. QED
    BY <1>1, <2>1
<1>9. ASSUME NEW l \in ColLists, selectCols(l) \/ removeCols(l) PROVE Plotted
  BY <1>1, <1>9 DEF selectCols, removeCols
<1>10. ASSUME NEW by \in Averages, doAverage(by) PROVE Plotted
  <2>1. page' = page
    BY <1>10, Zenon DEF doAverage, Fails
  <2>2. QED
    BY <1>1, <2>1
<1>11. ASSUME NEW nc \in NewCols, doNewCol1(nc) PROVE Plotted
  <2>1. page' = page
    BY <1>11, Zenon DEF doNewCol1, Fails
  <2>2. QED
    BY <1>1, <2>1
<1>12. ASSUME NEW percent \in BOOLEAN, doTable(percent) PROVE Plotted
  <2>1. page' = page \/ \E t : page' = <<"table", t>>
    BY <1>12, Zenon DEF doTable, Fails
  <2>2. QED
    BY <1>1, <2>1 DEF Plotted
<1>13. ASSUME NEW p \in Plots, doPlot0(p) PROVE Plotted
  <2>1. PICK rs : rs = [i \in DOMAIN SelectedRowList |-> Row(SelectedRowList[i])]
    OBVIOUS
  <2>2. page' = page \/ page' = NoPlot \/ page' = doPlot(p, fieldDict, rs)
    <3>1. PICK known, unnoticed :
            /\ known = Known(ToSet(SelectedRowList))
            /\ unnoticed = (Incomplete(p) /\ ~Discovers(p, fieldDict))
      OBVIOUS
    <3>2. PICK drawn : drawn = IF known THEN doPlot(p, fieldDict, rs)
                               ELSE IF unnoticed THEN NoPlot ELSE PlotRaises
      OBVIOUS
    <3>3. IF drawn = PlotRaises THEN Fails("raise")
          ELSE /\ page' = drawn
               /\ UNCHANGED <<table, SelectedRowList, SelectedCols, over, doubt>>
      BY <1>13, <2>1, <3>1, <3>2, Zenon DEF doPlot0
    <3>4. page' = page \/ (page' = drawn /\ drawn # PlotRaises)
      BY <3>3 DEF Fails
    <3>5. QED
      BY <3>2, <3>4
  <2>3. List(rs)
    <3>1. DOMAIN SelectedRowList = 1..Len(SelectedRowList) /\ Len(SelectedRowList) \in Nat
      BY ONLY ListAt DEF Lists
    <3>2. PICK n \in Nat : DOMAIN SelectedRowList = 1..n
      BY <3>1
    <3>3. rs = [i \in 1..n |-> rs[i]]
      BY <2>1, <3>2
    <3>4. QED
      BY <3>2, <3>3, ListMade
  <2>4. ASSUME page' = doPlot(p, fieldDict, rs), page'[1] = "plot"
        PROVE  AsSelected(page'[2], fieldDict, rs, page'[3])
    BY <2>3, <2>4, PlotSelected
  <2>5. QED
    BY <1>1, <2>1, <2>2, <2>4 DEF Plotted, NoPlot
<1>14. CASE doEnd
  BY <1>2, <1>14 DEF doEnd
<1>15. QED
  BY <1>3, <1>4, <1>5, <1>6, <1>7, <1>8, <1>9, <1>10, <1>11, <1>12, <1>13, <1>14
     DEF Next

(* Whatever was read, averaged and selected, and also where nothing is     *)
(* promised of the table any more, exp.py draws one point for each of the  *)
(* selected rows that can be plotted, with this row's x and y, and no      *)
(* others; excepted are the cases that AsSelected names, text axes from    *)
(* which a row was taken out and a second axis with a divisor of its own.  *)
THEOREM PointsFromRows == Spec => PlotPairs
<1>1. Init => Lists
  BY InitLists
<1>2. Lists /\ [Next]_vars => Lists'
  BY StepLists
<1>3. Lists /\ [Next]_vars =>
        [page' # page /\ page'[1] = "plot" =>
           AsSelected(page'[2], fieldDict,
                   [i \in DOMAIN SelectedRowList |-> Row(SelectedRowList[i])],
                   page'[3])]_vars
  BY StepDraws DEF Plotted
<1>4. QED
  BY <1>1, <1>2, <1>3, PTL DEF Spec, PlotPairs
=============================================================================
