-------------------------- MODULE ExperimentProofs --------------------------
(***************************************************************************)
(* Proofs about Experiment for any hosts, sequences of servers and clients *)
(* and number of repetitions of MServerRR.                                 *)
(***************************************************************************)
EXTENDS Experiment, WellFoundedInduction, TLAPS

-----------------------------------------------------------------------------
(* Sequences.  Induction is by the least number that a set of numbers has. *)

LEMMA LeastNumber ==
  ASSUME NEW S, S \subseteq Nat, S # {}
  PROVE  \E n \in S : \A m \in S : ~(m < n)
<1> DEFINE R == OpToRel(<, Nat)
<1>1. IsWellFoundedOn(R, Nat)
  BY NatLessThanWellFounded
<1>2. \A m, n \in Nat : m < n => <<m, n>> \in R
  BY DEF OpToRel
<1> HIDE DEF R
<1>3. PICK n \in S : \A m \in S : ~(<<m, n>> \in R)
  BY <1>1, WFMin
<1>4. QED
  BY <1>2, <1>3

LEMMA OneAfterAnother ==
  ASSUME NEW S, 1 \in S, \A n \in Nat \ {0} : n \in S => n + 1 \in S
  PROVE  Nat \ {0} \subseteq S
<1> SUFFICES ASSUME (Nat \ {0}) \ S # {} PROVE FALSE
  OBVIOUS
<1>1. PICK n \in (Nat \ {0}) \ S : \A m \in (Nat \ {0}) \ S : ~(m < n)
  BY LeastNumber
<1>2. n # 1 /\ n - 1 \in Nat \ {0} /\ n - 1 \in S
  BY <1>1
<1>3. QED
  BY <1>2

LEMMA JoinedSeqs ==
  ASSUME NEW T, NEW a \in Seq(T), NEW b \in Seq(T)
  PROVE  /\ a \o b \in Seq(T) /\ Len(a \o b) = Len(a) + Len(b)
         /\ Len(a) \in Nat /\ Len(b) \in Nat
         /\ \A n \in 1..Len(a) : (a \o b)[n] = a[n]
         /\ \A n \in (Len(a) + 1)..(Len(a) + Len(b)) : (a \o b)[n] = b[n - Len(a)]
OBVIOUS

(* x is a, the first n of it, and b, up to m.                              *)
Joined(x, a, b, n, m) ==
  /\ Len(x) = m /\ n \in Nat /\ m \in Nat /\ n <= m
  /\ \A p \in 1..n : x[p] = a[p]
  /\ \A p \in (n + 1)..m : p - n \in 1..Len(b) /\ x[p] = b[p - n]

LEMMA AppendedAt ==
  ASSUME NEW T, NEW a \in Seq(T), NEW b \in Seq(T), NEW x, x = a \o b,
         NEW n, NEW m, Len(a) = n, m = n + Len(b)
  PROVE  x \in Seq(T) /\ Joined(x, a, b, n, m)
BY JoinedSeqs DEF Joined

Occurs(x, s) == \E p \in 1..Len(s) : s[p] = x

LEMMA JoinedOccurs ==
  ASSUME NEW T, NEW a \in Seq(T), NEW b \in Seq(T), NEW x,
         Occurs(x, a) \/ Occurs(x, b)
  PROVE  Occurs(x, a \o b)
<1>1. /\ Len(a \o b) = Len(a) + Len(b) /\ Len(a) \in Nat /\ Len(b) \in Nat
      /\ \A n \in 1..Len(a) : (a \o b)[n] = a[n]
      /\ \A n \in (Len(a) + 1)..(Len(a) + Len(b)) : (a \o b)[n] = b[n - Len(a)]
  BY JoinedSeqs
<1>2. CASE Occurs(x, a)
  <2>1. PICK p \in 1..Len(a) : a[p] = x
    BY <1>2 DEF Occurs
  <2>2. p \in 1..Len(a \o b) /\ (a \o b)[p] = x
    BY <1>1, <2>1
  <2>3. QED
    BY <2>2 DEF Occurs
<1>3. CASE Occurs(x, b)
  <2>1. PICK p \in 1..Len(b) : b[p] = x
    BY <1>3 DEF Occurs
  <2>2. PICK q : q = Len(a) + p
    OBVIOUS
  <2>3. q \in (Len(a) + 1)..(Len(a) + Len(b)) /\ q - Len(a) = p /\ q \in 1..Len(a \o b)
    BY <1>1, <2>1, <2>2
  <2>4. (a \o b)[q] = x
    BY <1>1, <2>1, <2>3
  <2>5. QED
    BY <2>3, <2>4 DEF Occurs
<1>4. QED
  BY <1>2, <1>3

(* The concatenation of the first n of some sequences.                     *)
Flat(g, seqs, n) == g = [i \in 1..n |-> IF i = 1 THEN seqs[i] ELSE g[i - 1] \o seqs[i]]

LEMMA FlatExists ==
  ASSUME NEW seqs
  PROVE  \A n \in Nat \ {0} : \E g : Flat(g, seqs, n)
<1> DEFINE S == {n \in Nat \ {0} : \E g : Flat(g, seqs, n)}
<1>1. 1 \in S
  <2>1. Flat([i \in 1..1 |-> seqs[i]], seqs, 1)
    BY DEF Flat
  <2>2. QED
    BY <2>1
<1>2. ASSUME NEW n \in Nat \ {0}, n \in S PROVE n + 1 \in S
  <2>1. PICK f : Flat(f, seqs, n)
    BY <1>2
  <2>2. PICK g : g = [i \in 1..(n + 1) |-> IF i <= n THEN f[i] ELSE f[n] \o seqs[i]]
    OBVIOUS
  <2>3. ASSUME NEW i \in 1..(n + 1)
        PROVE  g[i] = IF i = 1 THEN seqs[i] ELSE g[i - 1] \o seqs[i]
    <3>1. CASE i = n + 1
      <4>1. i # 1 /\ ~(i <= n) /\ i - 1 = n /\ n \in 1..(n + 1) /\ n <= n
        BY <3>1
      <4>2. g[i] = f[n] \o seqs[i]
        BY <4>1, <2>2, Zenon
      <4>3. g[n] = f[n]
        BY <4>1, <2>2, Zenon
      <4>4. QED
        BY <4>1, <4>2, <4>3
    <3>2. CASE i <= n
      <4>1. g[i] = f[i] /\ (i # 1 => g[i - 1] = f[i - 1])
        BY <3>2, <2>2
      <4>2. i \in 1..n
        BY <3>2
      <4>3. f[i] = IF i = 1 THEN seqs[i] ELSE f[i - 1] \o seqs[i]
        BY <4>2, <2>1, Zenon DEF Flat
      <4>4. QED
        BY <4>1, <4>3
    <3>3. QED
      BY <3>1, <3>2
  <2>4. Flat(g, seqs, n + 1)
    BY <2>2, <2>3 DEF Flat
  <2>5. QED
    BY <2>4
<1> HIDE DEF S
<1>3. Nat \ {0} \subseteq S
  BY <1>1, <1>2, OneAfterAnother
<1>4. QED
  BY <1>3 DEF S

LEMMA FlattenIs ==
  ASSUME NEW seqs, NEW n \in Nat \ {0}, Len(seqs) = n
  PROVE  \E g : Flat(g, seqs, n) /\ FlattenSeq(seqs) = g[n]
<1> DEFINE P(g) == Flat(g, seqs, n)
<1>1. P(CHOOSE g : P(g))
  <2>1. \E g : P(g)
    BY FlatExists
  <2>2. QED
    BY <2>1
<1>2. FlattenSeq(seqs) = (CHOOSE g : P(g))[n]
  BY DEF FlattenSeq, Flat
<1>3. QED
  BY <1>1, <1>2

(* What is true of the concatenation of sequences over T.                  *)
LEMMA FlattenSeqs ==
  ASSUME NEW T, NEW n \in Nat, NEW seqs, Len(seqs) = n, n = 0 => seqs = <<>>,
         \A i \in 1..n : seqs[i] \in Seq(T)
  PROVE  /\ FlattenSeq(seqs) \in Seq(T)
         /\ \A i \in 1..n : \A x : Occurs(x, seqs[i]) => Occurs(x, FlattenSeq(seqs))
<1>1. CASE n = 0
  BY <1>1 DEF FlattenSeq
<1>2. CASE n # 0
  <2>1. PICK g : Flat(g, seqs, n) /\ FlattenSeq(seqs) = g[n]
    BY <1>2, FlattenIs
  <2>2. g[1] = seqs[1]
    BY <1>2, <2>1 DEF Flat
  <2>3. \A i \in 1..n : i # 1 => g[i] = g[i - 1] \o seqs[i]
    BY <2>1, Zenon DEF Flat
  <2> DEFINE Good(m) == /\ g[m] \in Seq(T)
                        /\ \A i \in 1..m : \A x : Occurs(x, seqs[i]) => Occurs(x, g[m])
             S == {m \in Nat \ {0} : m <= n => Good(m)}
  <2>4. 1 \in S
    <3>1. Good(1)
      BY <1>2, <2>2
    <3>2. QED
      BY <3>1
  <2>5. ASSUME NEW m \in Nat \ {0}, m \in S PROVE m + 1 \in S
    <3> SUFFICES ASSUME m + 1 <= n PROVE Good(m + 1)
      OBVIOUS
    <3>1. Good(m) /\ m + 1 \in 1..n /\ m + 1 # 1 /\ (m + 1) - 1 = m
      BY <2>5
    <3>2. g[m + 1] = g[m] \o seqs[m + 1]
      BY <3>1, <2>3
    <3>3. g[m] \in Seq(T) /\ seqs[m + 1] \in Seq(T)
      BY <3>1
    <3>4. g[m + 1] \in Seq(T)
      BY <3>2, <3>3, JoinedSeqs
    <3>5. ASSUME NEW i \in 1..(m + 1), NEW x, Occurs(x, seqs[i]) PROVE Occurs(x, g[m + 1])
      <4>1. Occurs(x, g[m]) \/ Occurs(x, seqs[m + 1])
        <5>1. i \in 1..m \/ i = m + 1
          OBVIOUS
        <5>2. QED
          BY <3>1, <3>5, <5>1
      <4>2. QED
        BY <3>2, <3>3, <4>1, JoinedOccurs
    <3>6. QED
      BY <3>4, <3>5
  <2> HIDE DEF S
  <2>6. Nat \ {0} \subseteq S
    BY <2>4, <2>5, OneAfterAnother
  <2>7. Good(n)
    <3>1. n \in S /\ n <= n
      BY <1>2, <2>6
    <3> HIDE DEF Good
    <3>2. QED
      BY <3>1 DEF S
  <2>8. QED
    BY <2>1, <2>7
<1>3. QED
  BY <1>1, <1>2

-----------------------------------------------------------------------------
(* The lines of MServerRR, by what they may be.                            *)

ServerLines(n) == {DoServer(h, n) : h \in ToSet(Servers)}
ClientLines == {DoClient(h, s) : h \in ToSet(Clients), s \in ToSet(Servers)} \cup {RandWait}
GetLines(list) == {GetData(h) : h \in ToSet(list)}

LEMMA DoServersIs ==
  ASSUME NEW n
  PROVE  /\ DoServers(n) \in Seq(ServerLines(n))
         /\ \A h \in ToSet(Servers) : Occurs(DoServer(h, n), DoServers(n))
<1> DEFINE m == Len(Servers)
           seqs == [i \in 1..m |-> <<DoServer(Servers[i], n)>>]
<1>1. m \in Nat /\ \A i \in 1..m : Servers[i] \in ToSet(Servers)
  BY ExperimentAssumption DEF ToSet
<1>2. DoServers(n) = FlattenSeq(seqs)
  BY DEF DoServers, ForEach
<1>3. Len(seqs) = m /\ (m = 0 => seqs = <<>>)
  BY <1>1
<1>4. \A i \in 1..m : seqs[i] = <<DoServer(Servers[i], n)>>
  OBVIOUS
<1>5. \A i \in 1..m : /\ seqs[i] \in Seq(ServerLines(n))
                      /\ Occurs(DoServer(Servers[i], n), seqs[i])
  BY <1>1, <1>4 DEF ServerLines, Occurs
<1> HIDE DEF seqs
<1>6. /\ FlattenSeq(seqs) \in Seq(ServerLines(n))
      /\ \A i \in 1..m : \A x : Occurs(x, seqs[i]) => Occurs(x, FlattenSeq(seqs))
  BY <1>1, <1>3, <1>5, FlattenSeqs
<1>7. \A h \in ToSet(Servers) : \E i \in 1..m : h = Servers[i]
  BY ExperimentAssumption DEF ToSet
<1>8. QED
  BY <1>2, <1>5, <1>6, <1>7

LEMMA GetDatasIs ==
  ASSUME NEW list \in Seq(Hosts)
  PROVE  /\ GetDatas(list) \in Seq(GetLines(list))
         /\ \A h \in ToSet(list) : Occurs(GetData(h), GetDatas(list))
<1> DEFINE m == Len(list)
           seqs == [i \in 1..m |-> <<GetData(list[i])>>]
<1>1. m \in Nat /\ \A i \in 1..m : list[i] \in ToSet(list)
  BY DEF ToSet
<1>2. GetDatas(list) = FlattenSeq(seqs)
  BY DEF GetDatas, ForEach
<1>3. Len(seqs) = m /\ (m = 0 => seqs = <<>>)
  BY <1>1
<1>4. \A i \in 1..m : seqs[i] = <<GetData(list[i])>>
  OBVIOUS
<1>5. \A i \in 1..m : /\ seqs[i] \in Seq(GetLines(list))
                      /\ Occurs(GetData(list[i]), seqs[i])
  BY <1>1, <1>4 DEF GetLines, Occurs
<1> HIDE DEF seqs
<1>6. /\ FlattenSeq(seqs) \in Seq(GetLines(list))
      /\ \A i \in 1..m : \A x : Occurs(x, seqs[i]) => Occurs(x, FlattenSeq(seqs))
  BY <1>1, <1>3, <1>5, FlattenSeqs
<1>7. \A h \in ToSet(list) : \E i \in 1..m : h = list[i]
  BY DEF ToSet
<1>8. QED
  BY <1>2, <1>5, <1>6, <1>7

LEMMA DoClientsIs == DoClients(Clients) \in Seq(ClientLines)
<1> DEFINE T == ClientLines
           rs == [r \in 1..Reqs |-> r]
           inner(c, s) == [i \in 1..Len(rs) |-> <<DoClient(c, s), RandWait>>]
           middle(c) == [i \in 1..Len(Servers) |-> FlattenSeq(inner(c, Servers[i]))]
           outer == [i \in 1..Len(Clients) |-> FlattenSeq(middle(Clients[i]))]
<1>1. DoClients(Clients) = FlattenSeq(outer)
  BY DEF DoClients, ForEach
<1>2. Len(rs) = Reqs /\ Reqs \in Nat
  BY ExperimentAssumption
<1>3. \A i \in 1..Len(Clients) : Clients[i] \in ToSet(Clients)
  BY ExperimentAssumption DEF ToSet
<1>4. \A i \in 1..Len(Servers) : Servers[i] \in ToSet(Servers)
  BY ExperimentAssumption DEF ToSet
<1>5. ASSUME NEW c \in ToSet(Clients), NEW s \in ToSet(Servers)
      PROVE  FlattenSeq(inner(c, s)) \in Seq(T)
  <2> DEFINE seqs == inner(c, s)
  <2>1. Len(seqs) = Len(rs) /\ (Len(rs) = 0 => seqs = <<>>) /\ Len(rs) \in Nat
    BY <1>2
  <2>2. \A i \in 1..Len(rs) : seqs[i] = <<DoClient(c, s), RandWait>>
    OBVIOUS
  <2>3. <<DoClient(c, s), RandWait>> \in Seq(T)
    BY DEF ClientLines
  <2> HIDE DEF seqs, T, rs
  <2>4. FlattenSeq(seqs) \in Seq(T)
    BY <2>1, <2>2, <2>3, FlattenSeqs
  <2>5. QED
    BY <2>4 DEF seqs
<1>6. ASSUME NEW c \in ToSet(Clients) PROVE FlattenSeq(middle(c)) \in Seq(T)
  <2> DEFINE seqs == middle(c)
             m == Len(Servers)
  <2>1. Len(seqs) = m /\ (m = 0 => seqs = <<>>) /\ m \in Nat
    BY ExperimentAssumption
  <2>2. \A i \in 1..m : seqs[i] \in Seq(T)
    BY <1>4, <1>5
  <2> HIDE DEF seqs, m, T
  <2>3. FlattenSeq(seqs) \in Seq(T)
    BY <2>1, <2>2, FlattenSeqs
  <2>4. QED
    BY <2>3 DEF seqs
<1>7. FlattenSeq(outer) \in Seq(T)
  <2> DEFINE seqs == outer
             m == Len(Clients)
  <2>1. Len(seqs) = m /\ (m = 0 => seqs = <<>>) /\ m \in Nat
    BY ExperimentAssumption
  <2>2. \A i \in 1..m : seqs[i] \in Seq(T)
    BY <1>3, <1>6
  <2> HIDE DEF seqs, m, T
  <2>3. FlattenSeq(seqs) \in Seq(T)
    BY <2>1, <2>2, FlattenSeqs
  <2>4. QED
    BY <2>3 DEF seqs
<1>8. QED
  BY <1>1, <1>7

(* The last lines of its loops: DO_SERVER, DO_CLIENT, the second DO_SERVER,*)
(* GET_DATA of the servers and of the clients.                             *)
S0 == Len(DoServers(0))
C0 == S0 + Len(DoClients(Clients))
S1 == C0 + 2 + Len(DoServers(1))
G0 == S1 + 1 + Len(GetDatas(Servers))
G1 == G0 + Len(GetDatas(Clients))

Places ==
  /\ S0 \in Nat /\ C0 \in Nat /\ S1 \in Nat /\ G0 \in Nat /\ G1 \in Nat
  /\ S0 <= C0 /\ C0 + 2 <= S1 /\ S1 + 1 <= G0 /\ G0 <= G1
  /\ Len(Lines) = G1 + 3

LinesAre ==
  /\ \A p \in 1..S0 : Lines[p] \in ServerLines(0)
  /\ \A p \in (S0 + 1)..C0 : Lines[p] \in ClientLines
  /\ Lines[C0 + 1] = Wait(Dur) /\ Lines[C0 + 2] = Wait(10)
  /\ \A p \in (C0 + 3)..S1 : Lines[p] \in ServerLines(1)
  /\ Lines[S1 + 1] = Wait(5)
  /\ \A p \in (S1 + 2)..G0 : Lines[p] \in GetLines(Servers)
  /\ \A p \in (G0 + 1)..G1 : Lines[p] \in GetLines(Clients)
  /\ Lines[G1 + 1] = Wait(10) /\ Lines[G1 + 2] = ProcessExp /\ Lines[G1 + 3] = Wait(15)

LEMMA LinesOfMServerRR ==
  ASSUME Function = "MServerRR"
  PROVE  /\ Places /\ LinesAre
         /\ \A h \in ToSet(Clients) : \E p \in (G0 + 1)..G1 : Lines[p] = GetData(h)
<1> DEFINE T == ServerLines(0) \cup ClientLines \cup ServerLines(1) \cup GetLines(Servers)
                \cup GetLines(Clients)
                \cup {Wait(Dur), Wait(10), Wait(5), Wait(15), ProcessExp}
<1>0. Servers \in Seq(Hosts) /\ Clients \in Seq(Hosts)
  BY ExperimentAssumption
<1> PICK sa : sa = DoServers(0)
  OBVIOUS
<1> PICK sb : sb = DoClients(Clients)
  OBVIOUS
<1> PICK sc : sc = <<Wait(Dur), Wait(10)>>
  OBVIOUS
<1> PICK sd : sd = DoServers(1)
  OBVIOUS
<1> PICK se : se = <<Wait(5)>>
  OBVIOUS
<1> PICK sf : sf = GetDatas(Servers)
  OBVIOUS
<1> PICK sg : sg = GetDatas(Clients)
  OBVIOUS
<1> PICK sh : sh = <<Wait(10), ProcessExp, Wait(15)>>
  OBVIOUS
<1> PICK x2 : x2 = sa \o sb
  OBVIOUS
<1> PICK x3 : x3 = x2 \o sc
  OBVIOUS
<1> PICK x4 : x4 = x3 \o sd
  OBVIOUS
<1> PICK x5 : x5 = x4 \o se
  OBVIOUS
<1> PICK x6 : x6 = x5 \o sf
  OBVIOUS
<1> PICK x7 : x7 = x6 \o sg
  OBVIOUS
<1> PICK x8 : x8 = x7 \o sh
  OBVIOUS
<1>1. Lines = x8
  BY DEF Lines, MServerRR
<1>2. /\ sa \in Seq(ServerLines(0)) /\ sb \in Seq(ClientLines) /\ sd \in Seq(ServerLines(1))
      /\ sf \in Seq(GetLines(Servers)) /\ sg \in Seq(GetLines(Clients))
  BY <1>0, DoServersIs, DoClientsIs, GetDatasIs
<1>3. /\ Len(sc) = 2 /\ sc[1] = Wait(Dur) /\ sc[2] = Wait(10)
      /\ Len(se) = 1 /\ se[1] = Wait(5)
      /\ Len(sh) = 3 /\ sh[1] = Wait(10) /\ sh[2] = ProcessExp /\ sh[3] = Wait(15)
  OBVIOUS
<1>4. /\ sa \in Seq(T) /\ sb \in Seq(T) /\ sc \in Seq(T) /\ sd \in Seq(T)
      /\ se \in Seq(T) /\ sf \in Seq(T) /\ sg \in Seq(T) /\ sh \in Seq(T)
  <2>1. sa \in Seq(T) /\ sb \in Seq(T) /\ sd \in Seq(T) /\ sf \in Seq(T) /\ sg \in Seq(T)
    BY ONLY <1>2, Z3
  <2>2. sc \in Seq(T) /\ se \in Seq(T) /\ sh \in Seq(T)
    OBVIOUS
  <2>3. QED
    BY <2>1, <2>2
<1> HIDE DEF T
<1>5. x2 \in Seq(T) /\ Joined(x2, sa, sb, S0, C0)
  <2>1. Len(sa) = S0 /\ C0 = S0 + Len(sb)
    BY DEF Joined, S0, C0
  <2>2. sa \in Seq(T) /\ sb \in Seq(T) /\ x2 = sa \o sb
    BY <1>4
  <2>3. QED
    BY ONLY <2>1, <2>2, AppendedAt
<1>6. x3 \in Seq(T) /\ Joined(x3, x2, sc, C0, C0 + 2)
  <2>1. Len(x2) = C0 /\ C0 + 2 = C0 + Len(sc)
    BY <1>3, <1>5 DEF Joined
  <2>2. x2 \in Seq(T) /\ sc \in Seq(T) /\ x3 = x2 \o sc
    BY <1>4, <1>5
  <2>3. QED
    BY ONLY <2>1, <2>2, AppendedAt
<1>7. x4 \in Seq(T) /\ Joined(x4, x3, sd, C0 + 2, S1)
  <2>1. Len(x3) = C0 + 2 /\ S1 = C0 + 2 + Len(sd)
    BY <1>3, <1>6 DEF Joined, S1
  <2>2. x3 \in Seq(T) /\ sd \in Seq(T) /\ x4 = x3 \o sd
    BY <1>4, <1>6
  <2>3. QED
    BY ONLY <2>1, <2>2, AppendedAt
<1>8. x5 \in Seq(T) /\ Joined(x5, x4, se, S1, S1 + 1)
  <2>1. Len(x4) = S1 /\ S1 + 1 = S1 + Len(se)
    BY <1>3, <1>7 DEF Joined
  <2>2. x4 \in Seq(T) /\ se \in Seq(T) /\ x5 = x4 \o se
    BY <1>4, <1>7
  <2>3. QED
    BY ONLY <2>1, <2>2, AppendedAt
<1>9. x6 \in Seq(T) /\ Joined(x6, x5, sf, S1 + 1, G0)
  <2>1. Len(x5) = S1 + 1 /\ G0 = S1 + 1 + Len(sf)
    BY <1>3, <1>8 DEF Joined, G0
  <2>2. x5 \in Seq(T) /\ sf \in Seq(T) /\ x6 = x5 \o sf
    BY <1>4, <1>8
  <2>3. QED
    BY ONLY <2>1, <2>2, AppendedAt
<1>10. x7 \in Seq(T) /\ Joined(x7, x6, sg, G0, G1)
  <2>1. Len(x6) = G0 /\ G1 = G0 + Len(sg)
    BY <1>3, <1>9 DEF Joined, G1
  <2>2. x6 \in Seq(T) /\ sg \in Seq(T) /\ x7 = x6 \o sg
    BY <1>4, <1>9
  <2>3. QED
    BY ONLY <2>1, <2>2, AppendedAt
<1>11. x8 \in Seq(T) /\ Joined(x8, x7, sh, G1, G1 + 3)
  <2>1. Len(x7) = G1 /\ G1 + 3 = G1 + Len(sh)
    BY <1>3, <1>10 DEF Joined
  <2>2. x7 \in Seq(T) /\ sh \in Seq(T) /\ x8 = x7 \o sh
    BY <1>4, <1>10
  <2>3. QED
    BY ONLY <2>1, <2>2, AppendedAt
<1>12. Places
  BY ONLY <1>1, <1>5, <1>6, <1>7, <1>8, <1>9, <1>10, <1>11 DEF Places, Joined
<1>13. \A p \in 1..G1 : Lines[p] = x7[p]
  BY ONLY <1>1, <1>11 DEF Joined
<1>14. \A p \in 1..G0 : Lines[p] = x6[p]
  BY ONLY <1>10, <1>13 DEF Joined
<1>15. \A p \in 1..(S1 + 1) : Lines[p] = x5[p]
  BY ONLY <1>9, <1>14 DEF Joined
<1>16. \A p \in 1..S1 : Lines[p] = x4[p]
  BY ONLY <1>8, <1>15 DEF Joined
<1>17. \A p \in 1..(C0 + 2) : Lines[p] = x3[p]
  BY ONLY <1>7, <1>16 DEF Joined
<1>18. \A p \in 1..C0 : Lines[p] = x2[p]
  BY ONLY <1>6, <1>17 DEF Joined
<1>19. \A p \in 1..S0 : Lines[p] = sa[p]
  BY ONLY <1>5, <1>18 DEF Joined
<1>20. LinesAre
  <2>1. \A p \in 1..S0 : Lines[p] \in ServerLines(0)
    <3>1. Len(sa) = S0
      BY DEF S0
    <3>2. QED
      BY ONLY <1>2, <1>19, <3>1
  <2>2. \A p \in (S0 + 1)..C0 : Lines[p] \in ClientLines
    <3>1. \A p \in (S0 + 1)..C0 : p \in 1..C0 /\ p - S0 \in 1..Len(sb) /\ x2[p] = sb[p - S0]
      BY ONLY <1>5 DEF Joined
    <3>2. \A i \in 1..Len(sb) : sb[i] \in ClientLines
      BY ONLY <1>2
    <3>3. QED
      BY ONLY <3>1, <3>2, <1>18
  <2>3. Lines[C0 + 1] = Wait(Dur) /\ Lines[C0 + 2] = Wait(10)
    BY ONLY <1>3, <1>5, <1>6, <1>17 DEF Joined
  <2>4. \A p \in (C0 + 3)..S1 : Lines[p] \in ServerLines(1)
    <3>1. \A p \in (C0 + 3)..S1 : /\ p \in 1..S1 /\ p - (C0 + 2) \in 1..Len(sd)
                                  /\ x4[p] = sd[p - (C0 + 2)]
      BY ONLY <1>5, <1>7 DEF Joined
    <3>2. \A i \in 1..Len(sd) : sd[i] \in ServerLines(1)
      BY ONLY <1>2
    <3>3. QED
      BY ONLY <3>1, <3>2, <1>16
  <2>5. Lines[S1 + 1] = Wait(5)
    BY ONLY <1>3, <1>7, <1>8, <1>15 DEF Joined
  <2>6. \A p \in (S1 + 2)..G0 : Lines[p] \in GetLines(Servers)
    <3>1. \A p \in (S1 + 2)..G0 : /\ p \in 1..G0 /\ p - (S1 + 1) \in 1..Len(sf)
                                  /\ x6[p] = sf[p - (S1 + 1)]
      BY ONLY <1>8, <1>9 DEF Joined
    <3>2. \A i \in 1..Len(sf) : sf[i] \in GetLines(Servers)
      BY ONLY <1>2
    <3>3. QED
      BY ONLY <3>1, <3>2, <1>14
  <2>7. \A p \in (G0 + 1)..G1 : Lines[p] \in GetLines(Clients)
    <3>1. \A p \in (G0 + 1)..G1 : p \in 1..G1 /\ p - G0 \in 1..Len(sg) /\ x7[p] = sg[p - G0]
      BY ONLY <1>9, <1>10 DEF Joined
    <3>2. \A i \in 1..Len(sg) : sg[i] \in GetLines(Clients)
      BY ONLY <1>2
    <3>3. QED
      BY ONLY <3>1, <3>2, <1>13
  <2>8. Lines[G1 + 1] = Wait(10) /\ Lines[G1 + 2] = ProcessExp /\ Lines[G1 + 3] = Wait(15)
    BY ONLY <1>1, <1>3, <1>10, <1>11 DEF Joined
  <2>9. QED
    BY ONLY <2>1, <2>2, <2>3, <2>4, <2>5, <2>6, <2>7, <2>8 DEF LinesAre
<1>21. ASSUME NEW h \in ToSet(Clients)
       PROVE  \E p \in (G0 + 1)..G1 : Lines[p] = GetData(h)
  <2>1. PICK k \in 1..Len(sg) : sg[k] = GetData(h)
    BY <1>0, <1>21, GetDatasIs DEF Occurs
  <2>2. G0 + Len(sg) = G1 /\ G0 \in Nat /\ Len(sg) \in Nat
    BY <1>2, <1>10 DEF G1, Joined
  <2>3. PICK p : p = G0 + k
    OBVIOUS
  <2>4. p \in (G0 + 1)..G1 /\ p - G0 = k /\ p \in 1..G1
    BY ONLY <2>1, <2>2, <2>3
  <2>5. Lines[p] = GetData(h)
    BY ONLY <1>10, <1>13, <2>1, <2>4 DEF Joined
  <2>6. QED
    BY ONLY <2>4, <2>5
<1>22. QED
  BY ONLY <1>12, <1>20, <1>21

-----------------------------------------------------------------------------
(* How long a transfer lasts.                                              *)
Transfer == Dur * Second

(* The ticks until the controller asks for the hosts' directories, and     *)
(* until it has the servers' last statistics taken, at the least, when it  *)
(* is at line p and has l ticks to wait.                                   *)
ToGet(p, l) ==
  IF p <= C0 + 1 THEN Transfer + 15 * Second
  ELSE IF p = C0 + 2 THEN l + 15 * Second
  ELSE IF p <= S1 + 1 THEN l + 5 * Second
  ELSE IF p = S1 + 2 THEN l ELSE 0

ToStats(p, l) ==
  IF p <= C0 + 1 THEN Transfer + 10 * Second
  ELSE IF p = C0 + 2 THEN l + 10 * Second
  ELSE IF p = C0 + 3 THEN l ELSE 0

ServerJob ==
  [script : {"doServer"}, exp : Nat, host : ToSet(Servers), order : {0, 1}, left : Nat]
ClientJob ==
  [script : {"doClient"}, exp : Nat, host : ToSet(Clients), server : ToSet(Servers),
   group : Nat \ {0}, phase : {"stats0", "sleep", "stats1", "write"}, served : BOOLEAN,
   left : Nat]
Flow ==
  [exp : Nat, host : Hosts, server : Hosts, group : Nat \ {0}, instance : 1..Instances,
   left : Nat]

Starting(j) == j.script = "doClient" /\ j.phase = "stats0"
Started(j) == j.script = "doClient" /\ j.phase # "stats0"

(* The ticks until a script has ended at the latest.                       *)
ToEnd(j) ==
  IF j.script = "doServer" THEN j.left
  ELSE IF j.phase = "stats0"
       THEN j.left + Transfer + 12 * Second + StatsMax + ProcessMax
  ELSE IF j.phase = "sleep" THEN j.left + StatsMax + ProcessMax
  ELSE IF j.phase = "stats1" THEN j.left + ProcessMax ELSE j.left

(* When the flows of a script have ended at the latest; when a script takes*)
(* its last statistics at the earliest.                                    *)
FlowEnd(j) == j.left + Transfer + NetLag
Limit(j) == IF j.phase = "sleep" THEN j.left ELSE 0

JobOK(j, p, l, e, g) ==
  /\ j \in ServerJob \cup ClientJob
  /\ j.exp = e /\ ToEnd(j) < ToGet(p, l)
  /\ j.script = "doServer" /\ j.order = 1 => p > C0 + 3
  /\ j.script = "doClient" => j.group < g /\ (p <= C0 => l + (C0 - p) < C0 - S0)
  /\ Starting(j) => j.left <= StatsMax /\ FlowEnd(j) < ToStats(p, l)
  /\ Started(j) =>
       /\ j.served
       /\ p <= C0 => l + (C0 - p) + StatsMax + Transfer + NetLag < Limit(j)

FlowOK(f, p, l, e) ==
  f \in Flow /\ f.exp = e /\ f.left <= Transfer + NetLag /\ f.left < ToStats(p, l)

(* No flow is under way, or still to begin, when j takes its last          *)
(* statistics.                                                             *)
After(j, J, F) ==
  Started(j) => /\ \A f \in F : f.left < Limit(j)
                /\ \A k \in J : Starting(k) => FlowEnd(k) < Limit(j)

CtlOK ==
  /\ ctl \in [pc : 1..(G1 + 3), rep : Nat \ {0}, left : Nat]
  /\ lastExp \in Nat /\ lastGroup \in Nat \ {0}
  /\ ctl.pc = 1 => lastExp = ctl.rep - 1
  /\ ctl.pc > 1 => lastExp = ctl.rep /\ ctl.rep <= Reps
  /\ ctl.pc <= S0 + 1 \/ ctl.pc = G1 + 3 => lastGroup = 1
  /\ ToSet(Servers) \subseteq netserver

ScriptsAt(J, F, p, l, e, g) ==
  /\ \A j \in J : JobOK(j, p, l, e, g)
  /\ \A f \in F : FlowOK(f, p, l, e)
  /\ \A j \in J : After(j, J, F)
  /\ p = 1 => J = {} /\ F = {}

ScriptsOK == ScriptsAt(jobs, flows, ctl.pc, ctl.left, lastExp, lastGroup)

InTime == CtlOK /\ ScriptsOK

(* What the hosts' directories and the controller's hold.                  *)
Result == [group : Nat, complete : BOOLEAN]
Results == SUBSET Result

DirsOK ==
  /\ dirs \in [Hosts -> [Exps -> [there : BOOLEAN, results : Results]]]
  /\ fetched \in [Exps -> Results]
  /\ \A h \in Hosts, e \in Exps :
       /\ ~dirs[h][e].there => dirs[h][e].results = {}
       /\ e > lastExp => dirs[h][e].results = {}
  /\ \A e \in Exps : e > lastExp => fetched[e] = {}

Underway == ctl.pc > 1 /\ ctl.pc <= G1 + 2

(* The results of the experiment, where they are, are those of its groups. *)
ResultsOK(S) == \A x \in S : x.complete /\ x.group \in 1..(lastGroup - 1)
HaveResults ==
  Underway => /\ ResultsOK(fetched[lastExp])
              /\ \A h \in Hosts : ResultsOK(dirs[h][lastExp].results)

(* No group is lost: its script is at work, its results are on a host that *)
(* was not asked, or were fetched.                                         *)
AtWork(g) == \E j \in jobs : j.script = "doClient" /\ j.group = g
OnHost(g) ==
  \E h \in ToSet(Clients) \ getDataHostDict :
    \E x \in dirs[h][lastExp].results : x.group = g
Fetched(g) == \E x \in fetched[lastExp] : x.group = g
Accounted ==
  Underway => \A g \in 1..(lastGroup - 1) : AtWork(g) \/ OnHost(g) \/ Fetched(g)

Asked ==
  /\ lastGroup > 1 /\ ctl.pc <= S1 + 2 => getDataHostDict = {}
  /\ \A p \in (S1 + 2)..G1 :
       p < ctl.pc /\ ctl.pc <= G1 + 2 => Lines[p].host \in getDataHostDict

DataOK == DirsOK /\ HaveResults /\ Accounted /\ Asked /\ NoOrphan /\ RowComplete

-----------------------------------------------------------------------------
(* Scripts and transfers, one at a time.                                   *)

LEMMA Numbers ==
  /\ Instances \in Nat \ {0} /\ Second \in Nat \ {0} /\ Reps \in Nat \ {0}
  /\ StatsMax \in Nat /\ ProcessMax \in Nat /\ NetLag \in Nat /\ Transfer \in Nat
  /\ (Dur + 12) * Second = Transfer + 12 * Second
<1>1. Dur \in Nat /\ Second \in Nat
  BY ExperimentAssumption
<1>2. \A m, n \in Nat : m * n \in Nat /\ (m + 12) * n = m * n + 12 * n
  OBVIOUS
<1>3. QED
  BY <1>1, <1>2, ExperimentAssumption DEF Transfer

LEMMA Positions ==
  ASSUME Timely
  PROVE  /\ Places /\ LinesAre /\ 1 <= S0
         /\ \A h \in ToSet(Clients) : \E p \in (G0 + 1)..G1 : Lines[p] = GetData(h)
<1>1. 1 <= S0
  <2>1. Servers \in Seq(Hosts) /\ Servers # <<>>
    BY ExperimentAssumption DEF Timely
  <2>2. Servers[1] \in ToSet(Servers)
    BY <2>1 DEF ToSet
  <2>3. Occurs(DoServer(Servers[1], 0), DoServers(0))
    BY <2>2, DoServersIs
  <2>4. Len(DoServers(0)) \in Nat
    BY DoServersIs
  <2>5. QED
    BY <2>3, <2>4 DEF Occurs, S0
<1>2. QED
  BY <1>1, LinesOfMServerRR DEF Timely

Dec(x) == [x EXCEPT !.left = @ - 1]

LEMMA DecIs ==
  /\ \A j \in ServerJob : j.left > 0 =>
       /\ Dec(j) \in ServerJob /\ Dec(j).left = j.left - 1 /\ Dec(j).script = j.script
       /\ Dec(j).exp = j.exp /\ Dec(j).order = j.order /\ Dec(j).host = j.host
  /\ \A j \in ClientJob : j.left > 0 =>
       /\ Dec(j) \in ClientJob /\ Dec(j).left = j.left - 1 /\ Dec(j).script = j.script
       /\ Dec(j).exp = j.exp /\ Dec(j).group = j.group /\ Dec(j).phase = j.phase
       /\ Dec(j).served = j.served /\ Dec(j).host = j.host
  /\ \A f \in Flow : f.left > 0 =>
       /\ Dec(f) \in Flow /\ Dec(f).left = f.left - 1 /\ Dec(f).exp = f.exp
BY DEF Dec, ServerJob, ClientJob, Flow

(* What kind of script has which fields.                                   *)
LEMMA Scripts ==
  /\ \A j \in ServerJob : /\ j.script = "doServer" /\ j.script # "doClient"
                          /\ j.left \in Nat /\ j.order \in {0, 1} /\ j.host \in ToSet(Servers)
  /\ \A j \in ClientJob :
       /\ j.script = "doClient" /\ j.script # "doServer" /\ j.left \in Nat
       /\ j.group \in Nat \ {0} /\ j.phase \in {"stats0", "sleep", "stats1", "write"}
       /\ j.host \in ToSet(Clients) /\ j.server \in ToSet(Servers)
       /\ j.served \in BOOLEAN
  /\ \A f \in Flow : f.left \in Nat
BY DEF ServerJob, ClientJob, Flow

(* A tick.                                                                 *)
LEMMA JobTick ==
  ASSUME Timely, NEW p \in 1..(G1 + 3), NEW l \in Nat, l > 0, NEW e, NEW g, NEW j,
         JobOK(j, p, l, e, g), j.left > 0
  PROVE  JobOK(Dec(j), p, l - 1, e, g)
<1>1. ToGet(p, l - 1) >= ToGet(p, l) - 1 /\ ToGet(p, l) \in Nat /\ ToGet(p, l - 1) \in Nat
  BY Numbers, Positions DEF ToGet, Places
<1>2. ToStats(p, l - 1) >= ToStats(p, l) - 1 /\ ToStats(p, l) \in Nat /\ ToStats(p, l - 1) \in Nat
  BY Numbers, Positions DEF ToStats, Places
<1>3. S0 \in Nat /\ C0 \in Nat /\ StatsMax \in Nat /\ ProcessMax \in Nat /\ NetLag \in Nat
      /\ Transfer \in Nat /\ Second \in Nat
  BY Numbers, Positions DEF Places
<1>4. CASE j \in ServerJob
  BY <1>1, <1>3, <1>4, DecIs, Scripts DEF JobOK, ToEnd, Starting, Started
<1>5. CASE j \in ClientJob
  <2>1. /\ Dec(j) \in ClientJob /\ Dec(j).left = j.left - 1 /\ Dec(j).script = "doClient"
        /\ j.script = "doClient" /\ Dec(j).exp = j.exp /\ Dec(j).group = j.group
        /\ Dec(j).phase = j.phase /\ Dec(j).served = j.served /\ j.left \in Nat
    BY <1>5, DecIs, Scripts
  <2>2. ToEnd(Dec(j)) < ToGet(p, l - 1)
    BY <1>1, <1>3, <2>1 DEF JobOK, ToEnd
  <2>3. Starting(j) => FlowEnd(Dec(j)) < ToStats(p, l - 1)
    BY <1>2, <1>3, <2>1 DEF JobOK, FlowEnd, Starting
  <2>4. Started(j) => (p <= C0 => (l - 1) + (C0 - p) + StatsMax + Transfer + NetLag < Limit(Dec(j)))
    BY <1>3, <2>1 DEF JobOK, Limit, Started
  <2>5. p <= C0 => (l - 1) + (C0 - p) < C0 - S0
    BY <1>3, <2>1 DEF JobOK
  <2>6. QED
    BY <1>3, <2>1, <2>2, <2>3, <2>4, <2>5 DEF JobOK, Starting, Started
<1>6. QED
  BY <1>4, <1>5 DEF JobOK

LEMMA FlowTick ==
  ASSUME Timely, NEW p \in 1..(G1 + 3), NEW l \in Nat, l > 0, NEW e, NEW f,
         FlowOK(f, p, l, e), f.left > 0
  PROVE  FlowOK(Dec(f), p, l - 1, e)
<1>1. ToStats(p, l - 1) >= ToStats(p, l) - 1 /\ ToStats(p, l) \in Nat /\ ToStats(p, l - 1) \in Nat
  BY Numbers, Positions DEF ToStats, Places
<1>2. Transfer + NetLag \in Nat
  BY Numbers
<1>3. Dec(f) \in Flow /\ Dec(f).left = f.left - 1 /\ Dec(f).exp = f.exp /\ f.left \in Nat
  BY DecIs, Scripts DEF FlowOK
<1>4. QED
  BY <1>1, <1>2, <1>3 DEF FlowOK

LEMMA AfterTick ==
  ASSUME NEW J, NEW F, NEW j \in J, After(j, J, F),
         \A k \in J : k \in ServerJob \cup ClientJob /\ k.left > 0,
         \A f \in F : f \in Flow /\ f.left > 0
  PROVE  After(Dec(j), Less(J), Less(F))
<1>1. Less(J) = {Dec(k) : k \in J} /\ Less(F) = {Dec(f) : f \in F}
  BY DEF Less, Dec
<1>2. \A f \in F : Dec(f).left = f.left - 1 /\ f.left \in Nat
  BY DecIs, Scripts
<1>3. \A k \in J : /\ Dec(k).left = k.left - 1 /\ k.left \in Nat
                   /\ Dec(k).script = k.script
                   /\ k.script = "doClient" => Dec(k).phase = k.phase
  BY DecIs, Scripts
<1>4. Transfer + NetLag \in Nat /\ Transfer \in Nat /\ NetLag \in Nat
  BY Numbers
<1>5. SUFFICES ASSUME Started(Dec(j))
               PROVE  /\ \A f \in F : Dec(f).left < Limit(Dec(j))
                      /\ \A k \in J : Starting(Dec(k)) => FlowEnd(Dec(k)) < Limit(Dec(j))
  BY <1>1 DEF After
<1>6. Started(j) /\ Dec(j).phase = j.phase /\ Dec(j).left = j.left - 1 /\ j.left \in Nat
  BY <1>3, <1>5 DEF Started
<1>7. ASSUME NEW f \in F PROVE Dec(f).left < Limit(Dec(j))
  BY <1>2, <1>6 DEF After, Limit
<1>8. ASSUME NEW k \in J, Starting(Dec(k)) PROVE FlowEnd(Dec(k)) < Limit(Dec(j))
  <2>1. Starting(k)
    BY <1>3, <1>8 DEF Starting
  <2>2. FlowEnd(k) < Limit(j)
    BY <1>6, <2>1 DEF After
  <2>3. QED
    BY <1>3, <1>4, <1>6, <2>2 DEF FlowEnd, Limit
<1>9. QED
  BY <1>7, <1>8

(* The controller goes on from line p to the next, in l ticks.             *)
Moves(p, l) ==
  /\ p \in 1..(G1 + 2) /\ l \in Nat
  /\ p <= C0 => l <= 1
  /\ p = C0 + 1 => l = Transfer
  /\ p = C0 + 2 => l = 10 * Second
  /\ p >= C0 + 3 /\ p <= S1 => l = 0
  /\ p = S1 + 1 => l = 5 * Second

LEMMA TimesMove ==
  ASSUME Timely, NEW p, NEW l, Moves(p, l)
  PROVE  ToGet(p + 1, l) = ToGet(p, 0) /\ ToStats(p + 1, l) = ToStats(p, 0)
<1>1. S0 \in Nat /\ C0 \in Nat /\ S1 \in Nat /\ G1 \in Nat /\ C0 + 3 <= S1
      /\ Transfer \in Nat /\ Second \in Nat
  <2>1. 1 <= S0 /\ Servers \in Seq(Hosts) /\ Servers # <<>>
    BY ExperimentAssumption, Positions DEF Timely
  <2>2. Occurs(DoServer(Servers[1], 1), DoServers(1)) /\ Len(DoServers(1)) \in Nat
    <3>1. Servers[1] \in ToSet(Servers)
      BY <2>1 DEF ToSet
    <3>2. QED
      BY <3>1, DoServersIs
  <2>3. Len(DoServers(1)) >= 1
    BY <2>2 DEF Occurs
  <2>4. QED
    BY <2>2, <2>3, Numbers, Positions, SMTT(60) DEF Places, S1
<1>2. ToGet(p + 1, l) = ToGet(p, 0)
  BY <1>1 DEF Moves, ToGet
<1>3. ToStats(p + 1, l) = ToStats(p, 0)
  BY <1>1 DEF Moves, ToStats
<1>4. QED
  BY <1>2, <1>3

LEMMA JobMoves ==
  ASSUME Timely, NEW p, NEW l, Moves(p, l), NEW e, NEW g \in Nat, NEW g2 \in Nat, g <= g2,
         NEW j, JobOK(j, p, 0, e, g)
  PROVE  JobOK(j, p + 1, l, e, g2)
<1>1. ToGet(p + 1, l) = ToGet(p, 0) /\ ToStats(p + 1, l) = ToStats(p, 0)
  BY TimesMove
<1>2. S0 \in Nat /\ C0 \in Nat /\ StatsMax \in Nat /\ NetLag \in Nat /\ Transfer \in Nat
  BY Numbers, Positions DEF Places
<1>3. p \in Nat /\ l \in Nat /\ (p <= C0 => l <= 1)
  BY Positions DEF Moves, Places
<1>4. j.script = "doServer" /\ j.order = 1 => p + 1 > C0 + 3
  BY <1>2, <1>3 DEF JobOK
<1>5. j.script = "doClient" => j.group < g2 /\ (p + 1 <= C0 => l + (C0 - (p + 1)) < C0 - S0)
  <2>1. j.script = "doClient" => j.group \in Nat
    BY Scripts DEF JobOK
  <2>2. QED
    BY <2>1, <1>2, <1>3 DEF JobOK
<1>6. Started(j) => (p + 1 <= C0 =>
        l + (C0 - (p + 1)) + StatsMax + Transfer + NetLag < Limit(j))
  <2>1. Started(j) => Limit(j) \in Nat
    BY Scripts DEF JobOK, Limit, Started
  <2>2. QED
    BY <2>1, <1>2, <1>3 DEF JobOK
<1>7. QED
  BY <1>1, <1>4, <1>5, <1>6 DEF JobOK

LEMMA FlowMoves ==
  ASSUME Timely, NEW p, NEW l, Moves(p, l), NEW e, NEW f, FlowOK(f, p, 0, e)
  PROVE  FlowOK(f, p + 1, l, e)
BY TimesMove DEF FlowOK

(* The scripts that the controller has started.                            *)
LEMMA NewServerJob ==
  ASSUME Timely, NEW p \in 1..(G1 + 3), NEW e \in Nat, NEW g, NEW h \in ToSet(Servers),
         NEW n \in 0..StatsMax, NEW o \in {0, 1}, p <= S1 + 1, o = 1 => p > C0 + 3,
         NEW j, j = [script |-> "doServer", exp |-> e, host |-> h, order |-> o, left |-> n]
  PROVE  JobOK(j, p, 0, e, g)
<1>1. StatsMax \in Nat /\ ProcessMax \in Nat /\ Second \in Nat /\ Transfer \in Nat
      /\ 2 * StatsMax + ProcessMax < 3 * Second /\ n \in Nat
  BY Numbers DEF Timely
<1>2. C0 \in Nat /\ S1 \in Nat
  BY Positions DEF Places
<1>3. j \in ServerJob /\ j.script = "doServer" /\ j.exp = e /\ j.left = n /\ j.order = o
  BY <1>1 DEF ServerJob
<1>4. n < ToGet(p, 0)
  BY <1>1, <1>2 DEF ToGet
<1>5. QED
  BY <1>3, <1>4 DEF JobOK, ToEnd, Starting, Started

LEMMA NewClientJob ==
  ASSUME Timely, NEW p \in (S0 + 1)..C0, NEW e \in Nat, NEW g \in Nat \ {0},
         NEW h \in ToSet(Clients), NEW s \in ToSet(Servers), NEW n \in 0..StatsMax,
         NEW j, j = [script |-> "doClient", exp |-> e, host |-> h, server |-> s, group |-> g,
                     phase |-> "stats0", served |-> FALSE, left |-> n]
  PROVE  JobOK(j, p + 1, 0, e, g + 1) /\ Starting(j) /\ j.left <= StatsMax
<1>1. StatsMax \in Nat /\ ProcessMax \in Nat /\ Second \in Nat /\ Transfer \in Nat /\ NetLag \in Nat
      /\ 2 * StatsMax + ProcessMax < 3 * Second /\ StatsMax + NetLag < 10 * Second
      /\ n \in Nat /\ n <= StatsMax
  BY Numbers DEF Timely
<1>2. S0 \in Nat /\ C0 \in Nat
  BY Positions DEF Places
<1>3. j \in ClientJob /\ j.script = "doClient" /\ j.exp = e /\ j.left = n /\ j.group = g
      /\ j.phase = "stats0"
  BY <1>1 DEF ClientJob
<1>4. ToEnd(j) < ToGet(p + 1, 0) /\ FlowEnd(j) < ToStats(p + 1, 0)
  BY <1>1, <1>2, <1>3 DEF ToGet, ToStats, ToEnd, FlowEnd
<1>5. p + 1 <= C0 => 0 + (C0 - (p + 1)) < C0 - S0
  BY <1>2
<1>6. QED
  BY <1>1, <1>3, <1>4, <1>5 DEF JobOK, Starting, Started

-----------------------------------------------------------------------------
(* The scripts and transfers together.                                     *)

LEMMA ScriptsTick ==
  ASSUME Timely, NEW p \in 1..(G1 + 3), NEW l \in Nat, l > 0, NEW e, NEW g, NEW J, NEW F,
         ScriptsAt(J, F, p, l, e, g), \A x \in J \cup F : x.left > 0
  PROVE  ScriptsAt(Less(J), Less(F), p, l - 1, e, g)
<1>1. Less(J) = {Dec(k) : k \in J} /\ Less(F) = {Dec(f) : f \in F}
  BY DEF Less, Dec
<1>2. \A j \in J : JobOK(Dec(j), p, l - 1, e, g)
  BY JobTick DEF ScriptsAt
<1>3. \A f \in F : FlowOK(Dec(f), p, l - 1, e)
  BY FlowTick DEF ScriptsAt
<1>4. \A j \in J : After(Dec(j), Less(J), Less(F))
  <2>1. \A k \in J : k \in ServerJob \cup ClientJob /\ k.left > 0
    BY DEF ScriptsAt, JobOK
  <2>2. \A f \in F : f \in Flow /\ f.left > 0
    BY DEF ScriptsAt, FlowOK
  <2>3. QED
    BY <2>1, <2>2, AfterTick DEF ScriptsAt
<1>5. p = 1 => Less(J) = {} /\ Less(F) = {}
  BY <1>1 DEF ScriptsAt
<1>6. QED
  BY <1>1, <1>2, <1>3, <1>4, <1>5 DEF ScriptsAt

LEMMA ScriptsMove ==
  ASSUME Timely, NEW p, NEW l, Moves(p, l), NEW e, NEW g \in Nat, NEW g2 \in Nat, g <= g2,
         NEW J, NEW F, ScriptsAt(J, F, p, 0, e, g)
  PROVE  ScriptsAt(J, F, p + 1, l, e, g2)
<1>1. \A j \in J : JobOK(j, p + 1, l, e, g2)
  BY JobMoves DEF ScriptsAt
<1>2. \A f \in F : FlowOK(f, p + 1, l, e)
  BY FlowMoves DEF ScriptsAt
<1>3. p + 1 # 1
  BY Positions DEF Moves, Places
<1>4. QED
  BY <1>1, <1>2, <1>3 DEF ScriptsAt

LEMMA ScriptsFewer ==
  ASSUME NEW p, NEW l, NEW e, NEW g, NEW J, NEW F, ScriptsAt(J, F, p, l, e, g),
         NEW J2 \in SUBSET J, NEW F2 \in SUBSET F
  PROVE  ScriptsAt(J2, F2, p, l, e, g)
BY DEF ScriptsAt, After

LEMMA ScriptsServer ==
  ASSUME NEW p, NEW l, NEW e, NEW g, NEW J, NEW F, ScriptsAt(J, F, p, l, e, g), p # 1,
         NEW j, JobOK(j, p, l, e, g), j.script = "doServer"
  PROVE  ScriptsAt(J \cup {j}, F, p, l, e, g)
<1>1. ~Starting(j) /\ ~Started(j)
  BY DEF Starting, Started
<1>2. QED
  BY <1>1 DEF ScriptsAt, After

LEMMA ScriptsClient ==
  ASSUME Timely, NEW p \in (S0 + 1)..C0, NEW e, NEW g \in Nat, NEW J, NEW F,
         ScriptsAt(J, F, p, 0, e, g),
         NEW j, JobOK(j, p + 1, 0, e, g + 1), Starting(j), j.left <= StatsMax
  PROVE  ScriptsAt(J \cup {j}, F, p + 1, 0, e, g + 1)
<1>1. S0 \in Nat /\ C0 \in Nat /\ StatsMax \in Nat /\ NetLag \in Nat /\ Transfer \in Nat
      /\ p + 1 # 1 /\ p <= C0 /\ C0 + 2 <= S1 /\ S1 + 1 <= G0 /\ G0 <= G1
      /\ S1 \in Nat /\ G0 \in Nat /\ G1 \in Nat
  BY Numbers, Positions, SMTT(60) DEF Places
<1>2. Moves(p, 0)
  BY <1>1 DEF Moves
<1>3. ScriptsAt(J, F, p + 1, 0, e, g + 1)
  BY <1>2, ScriptsMove
<1>4. j.left \in Nat
  BY Scripts DEF JobOK
<1>5. \A k \in J : Started(k) => FlowEnd(j) < Limit(k)
  <2> TAKE k \in J
  <2>1. Started(k) => (C0 - p) + StatsMax + Transfer + NetLag < Limit(k) /\ Limit(k) \in Nat
    BY <1>1, Scripts DEF ScriptsAt, JobOK, Started, Limit
  <2>2. QED
    BY <1>1, <1>4, <2>1 DEF FlowEnd
<1>6. ~Started(j)
  BY DEF Starting, Started
<1>7. QED
  BY <1>1, <1>3, <1>5, <1>6 DEF ScriptsAt, After

(* doClient.sh's steps.                                                    *)
Goes(j, phase, n) == [j EXCEPT !.phase = phase, !.left = n, !.served = TRUE]

Gone(k, j, phase, n) ==
  /\ k \in ClientJob /\ k.phase = phase /\ k.left = n /\ k.served
  /\ k.script = "doClient" /\ k.exp = j.exp /\ k.group = j.group /\ k.host = j.host
  /\ k.server = j.server

LEMMA GoesIs ==
  ASSUME NEW j \in ClientJob, NEW phase \in {"sleep", "stats1", "write"}, NEW n \in Nat
  PROVE  Gone(Goes(j, phase, n), j, phase, n)
BY DEF Gone, Goes, ClientJob

(* The first statistics taken: its flows begin and it sleeps.              *)
LEMMA ScriptsStart ==
  ASSUME Timely, NEW p, NEW l \in Nat, NEW e, NEW g \in Nat, NEW J, NEW F,
         p \in 1..(G1 + 3), ScriptsAt(J, F, p, l, e, g),
         NEW j \in J, Starting(j), j.left = 0, j \in ClientJob,
         NEW n, n = Transfer + 12 * Second, NEW k, k = Goes(j, "sleep", n),
         NEW N, \A f \in N : /\ f \in Flow /\ f.exp = e /\ f.left <= Transfer + NetLag
  PROVE  ScriptsAt((J \ {j}) \cup {k}, F \cup N, p, l, e, g)
<1>1. /\ S0 \in Nat /\ C0 \in Nat /\ StatsMax \in Nat /\ NetLag \in Nat /\ Transfer \in Nat
      /\ ProcessMax \in Nat /\ Second \in Nat
      /\ S0 <= C0 /\ (C0 - S0) + StatsMax + NetLag < 12 * Second
  <2>1. C0 - S0 = Len(DoClients(Clients))
    BY DoServersIs, DoClientsIs DEF C0, S0
  <2>2. QED
    BY <2>1, Numbers, Positions DEF Timely, Places
<1>2. /\ k \in ClientJob /\ k.phase = "sleep" /\ k.left = n /\ k.served
      /\ k.script = "doClient" /\ k.exp = j.exp /\ k.group = j.group
  <2>1. n \in Nat
    BY <1>1
  <2>2. Gone(k, j, "sleep", n)
    BY <2>1, GoesIs
  <2>3. QED
    BY ONLY <2>2 DEF Gone
<1>3. p # 1
  BY DEF ScriptsAt
<1>4. Started(k) /\ ~Starting(k) /\ Limit(k) = n
  BY <1>2 DEF Started, Starting, Limit
<1>5. JobOK(j, p, l, e, g) /\ j.script = "doClient" /\ j.phase = "stats0"
  BY DEF ScriptsAt, Starting
<1>6. JobOK(k, p, l, e, g)
  <2>1. ToEnd(k) = ToEnd(j)
    BY <1>1, <1>2, <1>5 DEF ToEnd
  <2>2. p <= C0 => l + (C0 - p) + StatsMax + Transfer + NetLag < Limit(k)
    BY <1>1, <1>4, <1>5 DEF JobOK
  <2>3. QED
    BY <1>2, <1>4, <1>5, <2>1, <2>2 DEF JobOK
<1>7. \A f \in F : f.left \in Nat /\ f.left <= Transfer + NetLag
  BY Scripts DEF ScriptsAt, FlowOK
<1>8. \A f \in N : f.left \in Nat /\ f.left <= Transfer + NetLag
  BY Scripts
<1>9. \A i \in J : Starting(i) => i.left \in Nat /\ i.left <= StatsMax
  BY Scripts DEF ScriptsAt, JobOK
<1>10. \A f \in N : FlowOK(f, p, l, e)
  <2>1. Transfer + NetLag < ToStats(p, l)
    BY <1>1, <1>5 DEF JobOK, Starting, FlowEnd
  <2>2. ToStats(p, l) \in Nat
    BY <1>1, Positions DEF ToStats, Places
  <2>3. QED
    BY <1>1, <1>8, <2>1, <2>2 DEF FlowOK
<1>11. After(k, (J \ {j}) \cup {k}, F \cup N)
  <2>1. Timely
    OBVIOUS
  <2>2. \A f \in F \cup N : f.left < Limit(k)
    <3>1. Transfer + NetLag < n /\ n \in Nat /\ Transfer + NetLag \in Nat
      BY <1>1, Timely DEF Timely
    <3>2. QED
      BY ONLY <1>4, <1>7, <1>8, <3>1
  <2>3. \A i \in J : Starting(i) => FlowEnd(i) < Limit(k)
    BY <1>1, <1>4, <1>9 DEF FlowEnd
  <2>4. QED
    BY <1>4, <2>2, <2>3 DEF After
<1>12. \A i \in J : After(i, (J \ {j}) \cup {k}, F \cup N)
  <2> SUFFICES ASSUME NEW i \in J, Started(i)
               PROVE  /\ \A f \in F \cup N : f.left < Limit(i)
                      /\ \A m \in (J \ {j}) \cup {k} : Starting(m) => FlowEnd(m) < Limit(i)
    BY DEF After
  <2>1. After(i, J, F) /\ Limit(i) \in Nat
    BY Scripts DEF ScriptsAt, JobOK, Limit, Started
  <2>2. Transfer + NetLag < Limit(i)
    BY <1>1, <2>1 DEF After, FlowEnd
  <2>3. \A f \in F \cup N : f.left < Limit(i)
    BY <1>1, <1>8, <2>1, <2>2 DEF After
  <2>4. QED
    BY <1>4, <2>1, <2>3 DEF After
<1>13. QED
  BY <1>3, <1>6, <1>10, <1>11, <1>12 DEF ScriptsAt

(* The further steps.                                                      *)
LEMMA ScriptsGo ==
  ASSUME Timely, NEW p \in 1..(G1 + 3), NEW l \in Nat, NEW e, NEW g \in Nat, NEW J, NEW F,
         ScriptsAt(J, F, p, l, e, g),
         NEW j \in J, j.left = 0, j \in ClientJob, NEW phase, NEW n \in Nat,
         \/ j.phase = "sleep" /\ phase = "stats1" /\ n <= StatsMax
         \/ j.phase = "stats1" /\ phase = "write" /\ n <= ProcessMax,
         NEW k, k = Goes(j, phase, n)
  PROVE  ScriptsAt((J \ {j}) \cup {k}, F, p, l, e, g) /\ F = {}
<1>1. /\ S0 \in Nat /\ C0 \in Nat /\ StatsMax \in Nat /\ NetLag \in Nat /\ Transfer \in Nat
      /\ ProcessMax \in Nat /\ ToGet(p, l) \in Nat
  BY Numbers, Positions DEF Places, ToGet
<1>2. phase \in {"stats1", "write"}
  OBVIOUS
<1>3. /\ k \in ClientJob /\ k.phase = phase /\ k.left = n /\ k.served
      /\ k.script = "doClient" /\ k.exp = j.exp /\ k.group = j.group
  <2>1. Gone(k, j, phase, n)
    BY <1>2, GoesIs
  <2>2. QED
    BY ONLY <2>1 DEF Gone
<1>4. p # 1
  BY DEF ScriptsAt
<1>5. JobOK(j, p, l, e, g) /\ Started(j) /\ Limit(j) = 0 /\ j.script = "doClient"
  BY Scripts DEF ScriptsAt, Started, Limit
<1>6. Started(k) /\ ~Starting(k) /\ Limit(k) = 0
  BY <1>2, <1>3 DEF Started, Starting, Limit
<1>7. F = {} /\ \A i \in J : ~Starting(i)
  <2>1. \A f \in F : f.left \in Nat
    BY Scripts DEF ScriptsAt, FlowOK
  <2>2. \A i \in J : Starting(i) => FlowEnd(i) \in Nat
    BY <1>1, Scripts DEF ScriptsAt, JobOK, FlowEnd
  <2>3. After(j, J, F)
    BY DEF ScriptsAt
  <2>4. QED
    BY <1>5, <2>1, <2>2, <2>3 DEF After
<1>8. ToEnd(k) <= ToEnd(j) /\ ToEnd(j) \in Nat /\ ToEnd(k) \in Nat
  BY <1>1, <1>2, <1>3, <1>5 DEF ToEnd
<1>9. ~(p <= C0)
  BY <1>1, <1>5 DEF JobOK
<1>10. JobOK(k, p, l, e, g)
  BY <1>1, <1>3, <1>5, <1>6, <1>8, <1>9 DEF JobOK
<1>11. \A i \in (J \ {j}) \cup {k} : After(i, (J \ {j}) \cup {k}, F)
  BY <1>6, <1>7 DEF After
<1>12. QED
  BY <1>4, <1>7, <1>10, <1>11 DEF ScriptsAt

-----------------------------------------------------------------------------
(* The controller.                                                         *)

LEMMA Commands ==
  ASSUME Timely, NEW p \in 1..(G1 + 3)
  PROVE  /\ Lines[p].cmd = "DO_SERVER" =>
              \E h \in ToSet(Servers), o \in {0, 1} :
                /\ Lines[p] = DoServer(h, o)
                /\ \/ o = 0 /\ p <= S0
                   \/ o = 1 /\ p >= C0 + 3 /\ p <= S1
         /\ Lines[p].cmd = "DO_CLIENT" =>
              p \in (S0 + 1)..C0 /\ \E h \in ToSet(Clients), s \in ToSet(Servers) :
                                      Lines[p] = DoClient(h, s)
         /\ Lines[p].cmd = "WAIT" =>
              \/ p = C0 + 1 /\ Lines[p].ticks = Transfer
              \/ p = C0 + 2 /\ Lines[p].ticks = 10 * Second
              \/ p = S1 + 1 /\ Lines[p].ticks = 5 * Second
              \/ p = G1 + 1 /\ Lines[p].ticks = 10 * Second
              \/ p = G1 + 3 /\ Lines[p].ticks = 15 * Second
         /\ Lines[p].cmd = "RAND_WAIT" => p \in (S0 + 1)..C0
         /\ Lines[p].cmd = "GET_DATA" =>
              p \in (S1 + 2)..G1 /\ \E h \in Hosts : Lines[p] = GetData(h)
         /\ (Lines[p].cmd = "PROCESS_EXP") = (p = G1 + 2)
<1>1. /\ S0 \in Nat /\ C0 \in Nat /\ S1 \in Nat /\ G0 \in Nat /\ G1 \in Nat
      /\ S0 <= C0 /\ C0 + 2 <= S1 /\ S1 + 1 <= G0 /\ G0 <= G1
  BY Positions DEF Places
<1>2. LinesAre
  BY Positions
<1>3. ToSet(Servers) \subseteq Hosts /\ ToSet(Clients) \subseteq Hosts
  BY ExperimentAssumption DEF ToSet
<1>4. PICK L : L = Lines[p]
  OBVIOUS
<1>5. CASE p \in 1..S0
  <2>1. PICK h \in ToSet(Servers) : L = DoServer(h, 0)
    BY <1>2, <1>4, <1>5 DEF LinesAre, ServerLines
  <2>2. L.cmd = "DO_SERVER"
    BY <2>1 DEF DoServer
  <2>3. QED
    BY <1>1, <1>4, <1>5, <2>1, <2>2
<1>6. CASE p \in (S0 + 1)..C0
  <2>1. L \in ClientLines
    BY <1>2, <1>4, <1>6 DEF LinesAre
  <2>2. CASE L = RandWait
    <3>1. L.cmd = "RAND_WAIT"
      BY <2>2 DEF RandWait
    <3>2. QED
      BY <1>1, <1>4, <1>6, <3>1
  <2>3. CASE \E h \in ToSet(Clients), s \in ToSet(Servers) : L = DoClient(h, s)
    <3>1. L.cmd = "DO_CLIENT"
      BY <2>3 DEF DoClient
    <3>2. QED
      BY <1>1, <1>4, <1>6, <2>3, <3>1
  <2>4. QED
    BY <2>1, <2>2, <2>3 DEF ClientLines
<1>7. CASE p \in {C0 + 1, C0 + 2, S1 + 1, G1 + 1, G1 + 3}
  <2>1. /\ p = C0 + 1 => L = Wait(Dur)
        /\ p = C0 + 2 => L = Wait(10)
        /\ p = S1 + 1 => L = Wait(5)
        /\ p = G1 + 1 => L = Wait(10)
        /\ p = G1 + 3 => L = Wait(15)
    BY <1>2, <1>4 DEF LinesAre
  <2>2. \A n : Wait(n).cmd = "WAIT" /\ Wait(n).ticks = n * Second
    BY DEF Wait
  <2>3. Wait(Dur).ticks = Transfer
    BY <2>2 DEF Transfer
  <2>4. L.cmd = "WAIT"
    BY <1>7, <2>1, <2>2
  <2>5. QED
    BY <1>1, <1>4, <1>7, <2>1, <2>2, <2>3, <2>4
<1>8. CASE p \in (C0 + 3)..S1
  <2>1. PICK h \in ToSet(Servers) : L = DoServer(h, 1)
    BY <1>2, <1>4, <1>8 DEF LinesAre, ServerLines
  <2>2. L.cmd = "DO_SERVER"
    BY <2>1 DEF DoServer
  <2>3. QED
    BY <1>1, <1>4, <1>8, <2>1, <2>2
<1>9. CASE p \in (S1 + 2)..G1
  <2>1. p \in (S1 + 2)..G0 \/ p \in (G0 + 1)..G1
    BY <1>1, <1>9
  <2>2. L \in GetLines(Servers) \cup GetLines(Clients)
    BY <1>2, <1>4, <2>1 DEF LinesAre
  <2>3. PICK h \in Hosts : L = GetData(h)
    BY <1>3, <2>2 DEF GetLines
  <2>4. L.cmd = "GET_DATA"
    BY <2>3 DEF GetData
  <2>5. QED
    BY <1>1, <1>4, <1>9, <2>3, <2>4
<1>10. CASE p = G1 + 2
  <2>1. L.cmd = "PROCESS_EXP"
    BY <1>2, <1>4, <1>10 DEF LinesAre, ProcessExp
  <2>2. QED
    BY <1>1, <1>4, <1>10, <2>1
<1>11. QED
  BY <1>1, <1>5, <1>6, <1>7, <1>8, <1>9, <1>10

LEMMA Advances ==
  ASSUME Timely, CtlOK, NEW n \in Nat, Advance(n)
  PROVE  /\ ctl' \in [pc : 1..(G1 + 3), rep : Nat \ {0}, left : Nat] /\ ctl'.left = n
         /\ ctl.pc < G1 + 3 => ctl'.pc = ctl.pc + 1 /\ ctl'.rep = ctl.rep
         /\ ctl.pc = G1 + 3 => ctl'.pc = 1 /\ ctl'.rep = ctl.rep + 1
<1>1. Len(Lines) = G1 + 3 /\ G1 \in Nat
  BY Positions DEF Places
<1>2. ctl \in [pc : 1..(G1 + 3), rep : Nat \ {0}, left : Nat]
  BY DEF CtlOK
<1>3. CASE ctl.pc < G1 + 3
  <2>1. ctl' = [ctl EXCEPT !.pc = ctl.pc + 1, !.left = n]
    BY <1>1, <1>3 DEF Advance
  <2>2. ctl.pc + 1 \in 1..(G1 + 3)
    BY <1>1, <1>2, <1>3
  <2>3. /\ ctl' \in [pc : 1..(G1 + 3), rep : Nat \ {0}, left : Nat]
        /\ ctl'.left = n /\ ctl'.pc = ctl.pc + 1 /\ ctl'.rep = ctl.rep
    <3> PICK c, d, m : c = ctl /\ d = ctl' /\ m = ctl.pc + 1
      OBVIOUS
    <3>1. c \in [pc : 1..(G1 + 3), rep : Nat \ {0}, left : Nat] /\ m \in 1..(G1 + 3)
          /\ n \in Nat /\ d = [c EXCEPT !.pc = m, !.left = n]
      BY <1>2, <2>1, <2>2
    <3>2. d \in [pc : 1..(G1 + 3), rep : Nat \ {0}, left : Nat] /\ d.left = n
          /\ d.pc = m /\ d.rep = c.rep
      BY ONLY <3>1
    <3>3. QED
      BY <3>2
  <2>4. QED
    BY <1>1, <1>3, <2>3
<1>4. CASE ctl.pc = G1 + 3
  <2>1. ctl' = [pc |-> 1, rep |-> ctl.rep + 1, left |-> n]
    BY <1>1, <1>4 DEF Advance
  <2>2. QED
    BY <1>1, <1>2, <1>4, <2>1
<1>5. QED
  BY <1>1, <1>2, <1>3, <1>4

(* Where the controller is, in numbers.                                    *)
LEMMA Where ==
  ASSUME Timely, CtlOK
  PROVE  /\ S0 \in Nat /\ C0 \in Nat /\ S1 \in Nat /\ G0 \in Nat /\ G1 \in Nat
         /\ 1 <= S0 /\ S0 <= C0 /\ C0 + 2 <= S1 /\ S1 + 1 <= G0 /\ G0 <= G1
         /\ ctl.pc \in 1..(G1 + 3) /\ ctl.pc \in Nat /\ ctl.left \in Nat
         /\ ctl.rep \in Nat \ {0} /\ lastGroup \in Nat \ {0} /\ lastExp \in Nat
         /\ Reps \in Nat /\ Transfer \in Nat /\ Second \in Nat
<1>1. ctl \in [pc : 1..(G1 + 3), rep : Nat \ {0}, left : Nat]
  BY DEF CtlOK
<1>2. ctl.pc \in 1..(G1 + 3) /\ ctl.left \in Nat /\ ctl.rep \in Nat \ {0}
  BY <1>1
<1>3. QED
  BY <1>2, Numbers, Positions, SMTT(60) DEF CtlOK, Places

LEMMA ServerInTime ==
  ASSUME Timely, InTime, CtlDoServer
  PROVE  InTime'
<1>1. CtlOK /\ ScriptsOK
  BY DEF InTime
<1>2. ctl.left = 0 /\ ctl.rep <= Reps /\ Advance(0)
      /\ lastExp' = (IF ctl.pc = 1 THEN lastExp + 1 ELSE lastExp)
      /\ UNCHANGED <<lastGroup, flows, netserver>>
  BY DEF CtlDoServer, At, Exp
<1>3. PICK h \in ToSet(Servers), o \in {0, 1} :
        /\ Lines[ctl.pc] = DoServer(h, o)
        /\ \/ o = 0 /\ ctl.pc <= S0
           \/ o = 1 /\ ctl.pc >= C0 + 3 /\ ctl.pc <= S1
  <2>1. Lines[ctl.pc].cmd = "DO_SERVER" /\ ctl.pc \in 1..(G1 + 3)
    BY <1>1, Where DEF CtlDoServer, At
  <2>2. QED
    BY <2>1, Commands
<1>4. PICK n \in 0..StatsMax :
        jobs' = jobs \cup {[script |-> "doServer", exp |-> lastExp', host |-> h,
                            order |-> o, left |-> n]}
  BY <1>2, <1>3 DEF CtlDoServer, Line, Exp, DoServer
<1>5. ctl.pc < G1 + 3 /\ ctl'.pc = ctl.pc + 1 /\ ctl'.rep = ctl.rep /\ ctl'.left = 0
      /\ ctl' \in [pc : 1..(G1 + 3), rep : Nat \ {0}, left : Nat]
  BY <1>1, <1>2, <1>3, Where, Advances
<1>6. CtlOK'
  <2>1. lastExp' \in Nat /\ lastExp' = ctl.rep
    BY <1>1, <1>2, Where DEF CtlOK
  <2>2. ctl'.pc > 1 /\ (ctl'.pc <= S0 + 1 \/ ctl'.pc = G1 + 3 => lastGroup = 1)
    BY <1>1, <1>3, <1>5, Where DEF CtlOK
  <2>3. lastGroup' = lastGroup /\ netserver' = netserver
    BY <1>2
  <2>4. QED
    BY <1>1, <1>2, <1>5, <2>1, <2>2, <2>3 DEF CtlOK
<1>7. ScriptsOK'
  <2> PICK p, e, e2, g, J, F, j :
        /\ p = ctl.pc /\ e = lastExp /\ e2 = lastExp' /\ g = lastGroup /\ J = jobs /\ F = flows
        /\ j = [script |-> "doServer", exp |-> e2, host |-> h, order |-> o, left |-> n]
    OBVIOUS
  <2>1. p \in 1..(G1 + 2) /\ p + 1 \in 1..(G1 + 3) /\ p + 1 # 1 /\ g \in Nat /\ e2 \in Nat
        /\ Moves(p, 0) /\ p + 1 <= S1 + 1 /\ (o = 1 => p + 1 > C0 + 3)
    <3>1. e2 \in Nat
      BY <1>6 DEF CtlOK
    <3>2. QED
      BY <1>1, <1>3, <1>5, <3>1, Where DEF Moves
  <2>2. ScriptsAt(J, F, p, 0, e, g)
    BY <1>1, <1>2 DEF ScriptsOK
  <2>3. ScriptsAt(J, F, p + 1, 0, e2, g)
    <3>1. CASE p = 1
      <4>1. J = {} /\ F = {}
        BY <2>2, <3>1 DEF ScriptsAt
      <4>2. QED
        BY <4>1 DEF ScriptsAt
    <3>2. CASE p # 1
      <4>1. e2 = e
        BY <1>2, <3>2
      <4>2. QED
        BY <2>1, <2>2, <4>1, ScriptsMove
    <3>3. QED
      BY <3>1, <3>2
  <2>4. JobOK(j, p + 1, 0, e2, g)
    <3>1. h \in Hosts
      BY ExperimentAssumption DEF ToSet
    <3>2. QED
      BY <2>1, <3>1, NewServerJob
  <2>5. ScriptsAt(J \cup {j}, F, p + 1, 0, e2, g)
    BY <2>1, <2>3, <2>4, ScriptsServer
  <2>6. jobs' = J \cup {j} /\ flows' = F /\ ctl'.pc = p + 1 /\ ctl'.left = 0 /\ lastExp' = e2
        /\ lastGroup' = g
    BY <1>2, <1>4, <1>5
  <2>7. QED
    BY ONLY <2>5, <2>6 DEF ScriptsOK
<1>8. QED
  BY <1>6, <1>7 DEF InTime

LEMMA ClientInTime ==
  ASSUME Timely, InTime, CtlDoClient
  PROVE  InTime'
<1>1. CtlOK /\ ScriptsOK
  BY DEF InTime
<1>2. ctl.left = 0 /\ ctl.rep <= Reps /\ Advance(0) /\ lastGroup' = lastGroup + 1
      /\ UNCHANGED <<lastExp, flows, netserver>>
  BY DEF CtlDoClient, At
<1>3. PICK h \in ToSet(Clients), s \in ToSet(Servers) :
        ctl.pc \in (S0 + 1)..C0 /\ Lines[ctl.pc] = DoClient(h, s)
  <2>1. Lines[ctl.pc].cmd = "DO_CLIENT" /\ ctl.pc \in 1..(G1 + 3)
    BY <1>1, Where DEF CtlDoClient, At
  <2>2. QED
    BY <2>1, Commands
<1>4. PICK n \in 0..StatsMax :
        jobs' = jobs \cup {[script |-> "doClient", exp |-> lastExp, host |-> h, server |-> s,
                            group |-> lastGroup, phase |-> "stats0", served |-> FALSE,
                            left |-> n]}
  BY <1>3 DEF CtlDoClient, Line, DoClient
<1>5. ctl.pc < G1 + 3 /\ ctl'.pc = ctl.pc + 1 /\ ctl'.rep = ctl.rep /\ ctl'.left = 0
      /\ ctl' \in [pc : 1..(G1 + 3), rep : Nat \ {0}, left : Nat]
  BY <1>1, <1>2, <1>3, Where, Advances
<1>6. CtlOK'
  <2>1. lastExp' = lastExp /\ netserver' = netserver /\ lastGroup' \in Nat \ {0}
    BY <1>1, <1>2, Where
  <2>2. ctl.pc > 1 /\ ctl'.pc > 1 /\ ~(ctl'.pc <= S0 + 1) /\ ctl'.pc # G1 + 3
    BY <1>1, <1>3, <1>5, Where
  <2>3. QED
    BY <1>1, <1>2, <1>5, <2>1, <2>2 DEF CtlOK
<1>7. ScriptsOK'
  <2> PICK p, e, g, J, F, j :
        /\ p = ctl.pc /\ e = lastExp /\ g = lastGroup /\ J = jobs /\ F = flows
        /\ j = [script |-> "doClient", exp |-> e, host |-> h, server |-> s, group |-> g,
                phase |-> "stats0", served |-> FALSE, left |-> n]
    OBVIOUS
  <2>1. p \in (S0 + 1)..C0 /\ g \in Nat \ {0} /\ e \in Nat
    BY <1>1, <1>3, Where
  <2>2. ScriptsAt(J, F, p, 0, e, g)
    BY <1>1, <1>2 DEF ScriptsOK
  <2>3. JobOK(j, p + 1, 0, e, g + 1) /\ Starting(j) /\ j.left <= StatsMax
    BY <2>1, NewClientJob
  <2>4. ScriptsAt(J \cup {j}, F, p + 1, 0, e, g + 1)
    BY <2>1, <2>2, <2>3, ScriptsClient
  <2>5. jobs' = J \cup {j} /\ flows' = F /\ ctl'.pc = p + 1 /\ ctl'.left = 0 /\ lastExp' = e
        /\ lastGroup' = g + 1
    BY <1>2, <1>4, <1>5
  <2>6. QED
    BY ONLY <2>4, <2>5 DEF ScriptsOK
<1>8. QED
  BY <1>6, <1>7 DEF InTime

(* The commands that start nothing.                                        *)
LEMMA OthersInTime ==
  ASSUME Timely, InTime, CtlWait \/ CtlGetData \/ CtlProcessExp
  PROVE  InTime'
<1>1. CtlOK /\ ScriptsOK
  BY DEF InTime
<1>2. ctl.left = 0 /\ ctl.rep <= Reps /\ UNCHANGED <<lastExp, jobs, flows, netserver>>
      /\ lastGroup' = (IF ctl.pc = G1 + 2 THEN 1 ELSE lastGroup)
  <2>1. (Lines[ctl.pc].cmd = "PROCESS_EXP") = (ctl.pc = G1 + 2)
    BY <1>1, Where, Commands
  <2>2. CASE CtlProcessExp
    BY <2>1, <2>2 DEF CtlProcessExp, At, hostVars
  <2>3. CASE CtlWait
    BY <2>1, <2>3 DEF CtlWait, At, hostVars
  <2>4. CASE CtlGetData
    BY <2>1, <2>4 DEF CtlGetData, At
  <2>5. QED
    BY <2>2, <2>3, <2>4
<1>3. ctl.pc > S0
  <2>1. ctl.pc \in 1..(G1 + 3)
    BY <1>1, Where
  <2>2. CASE CtlProcessExp
    <3>1. Lines[ctl.pc].cmd = "PROCESS_EXP"
      BY <2>2 DEF CtlProcessExp, At
    <3>2. QED
      BY <1>1, <2>1, <3>1, Commands, Where
  <2>3. CASE CtlWait
    <3>1. Lines[ctl.pc].cmd = "WAIT" \/ Lines[ctl.pc].cmd = "RAND_WAIT"
      BY <2>3 DEF CtlWait, At
    <3>2. QED
      BY <1>1, <2>1, <3>1, Commands, Where
  <2>4. CASE CtlGetData
    <3>1. Lines[ctl.pc].cmd = "GET_DATA"
      BY <2>4 DEF CtlGetData, At
    <3>2. QED
      BY <1>1, <2>1, <3>1, Commands, Where
  <2>5. QED
    BY <2>2, <2>3, <2>4
<1>4. PICK n \in Nat : Advance(n) /\ (ctl.pc <= G1 + 2 => Moves(ctl.pc, n))
  <2>1. ctl.pc \in 1..(G1 + 3)
    BY <1>1, Where
  <2>2. CASE CtlProcessExp
    <3>1. Lines[ctl.pc].cmd = "PROCESS_EXP" /\ Advance(0)
      BY <2>2 DEF CtlProcessExp, At
    <3>2. Moves(ctl.pc, 0)
      BY <1>1, <2>1, <3>1, Commands, Where DEF Moves
    <3>3. QED
      BY <3>1, <3>2
  <2>3. CASE At("WAIT") /\ Advance(Line.ticks)
    <3>1. Lines[ctl.pc].cmd = "WAIT"
      BY <2>3 DEF At
    <3>2. PICK n : n = Line.ticks
      OBVIOUS
    <3>3. \/ ctl.pc = C0 + 1 /\ n = Transfer
          \/ ctl.pc = C0 + 2 /\ n = 10 * Second
          \/ ctl.pc = S1 + 1 /\ n = 5 * Second
          \/ ctl.pc = G1 + 1 /\ n = 10 * Second
          \/ ctl.pc = G1 + 3 /\ n = 15 * Second
      BY <2>1, <3>1, <3>2, Commands DEF Line
    <3>4. n \in Nat /\ (ctl.pc <= G1 + 2 => Moves(ctl.pc, n))
      BY <1>1, <2>1, <3>3, Where DEF Moves
    <3>5. QED
      BY <2>3, <3>2, <3>4
  <2>4. CASE At("RAND_WAIT") /\ \E n \in 0..1 : Advance(n)
    <3>1. Lines[ctl.pc].cmd = "RAND_WAIT"
      BY <2>4 DEF At
    <3>2. PICK n \in 0..1 : Advance(n)
      BY <2>4
    <3>3. ctl.pc \in (S0 + 1)..C0
      BY <2>1, <3>1, Commands
    <3>4. Moves(ctl.pc, n)
      BY <1>1, <3>3, Where DEF Moves
    <3>5. QED
      BY <3>2, <3>4
  <2>5. CASE CtlGetData
    <3>1. Lines[ctl.pc].cmd = "GET_DATA"
      BY <2>5 DEF CtlGetData, At
    <3>2. PICK n \in 0..1 : Advance(n)
      BY <2>5 DEF CtlGetData
    <3>3. ctl.pc \in (S1 + 2)..G1
      BY <2>1, <3>1, Commands
    <3>4. Moves(ctl.pc, n)
      BY <1>1, <3>3, Where DEF Moves
    <3>5. QED
      BY <3>2, <3>4
  <2>6. QED
    BY <2>2, <2>3, <2>4, <2>5 DEF CtlWait
<1>5. /\ ctl' \in [pc : 1..(G1 + 3), rep : Nat \ {0}, left : Nat] /\ ctl'.left = n
      /\ ctl.pc < G1 + 3 => ctl'.pc = ctl.pc + 1 /\ ctl'.rep = ctl.rep
      /\ ctl.pc = G1 + 3 => ctl'.pc = 1 /\ ctl'.rep = ctl.rep + 1
  BY <1>1, <1>4, Advances
<1>6. CtlOK'
  <2>1. lastExp' = lastExp /\ netserver' = netserver
        /\ lastGroup' = (IF ctl.pc = G1 + 2 THEN 1 ELSE lastGroup)
    BY <1>2
  <2>2. lastGroup' \in Nat \ {0} /\ (ctl'.pc <= S0 + 1 \/ ctl'.pc = G1 + 3 => lastGroup' = 1)
    BY <1>1, <1>3, <1>5, <2>1, Where DEF CtlOK
  <2>3. lastExp = ctl.rep /\ ctl.rep <= Reps
    BY <1>1, <1>3, Where DEF CtlOK
  <2>4. /\ ctl'.pc = 1 => lastExp = ctl'.rep - 1
        /\ ctl'.pc > 1 => lastExp = ctl'.rep /\ ctl'.rep <= Reps
    BY <1>1, <1>3, <1>5, <2>3, Where
  <2>5. QED
    BY <1>1, <1>5, <2>1, <2>2, <2>4 DEF CtlOK
<1>7. ScriptsOK'
  <2> PICK p, q, e, g, g2, J, F :
        /\ p = ctl.pc /\ q = ctl'.pc /\ e = lastExp /\ g = lastGroup /\ g2 = lastGroup'
        /\ J = jobs /\ F = flows
    OBVIOUS
  <2>1. ScriptsAt(J, F, p, 0, e, g)
    BY <1>1, <1>2 DEF ScriptsOK
  <2>2. p \in Nat /\ g \in Nat /\ g2 \in Nat
    BY <1>1, <1>6, Where DEF CtlOK
  <2>3. CASE p >= G1 + 2
    <3>1. ToGet(p, 0) = 0
      BY <1>1, <2>3, Where DEF ToGet
    <3>2. J = {}
      <4>1. \A j \in J : ToEnd(j) \in Nat /\ ToEnd(j) < ToGet(p, 0)
        BY <2>1, Numbers, Scripts DEF ScriptsAt, JobOK, ToEnd
      <4>2. QED
        BY <3>1, <4>1
    <3>3. ToStats(p, 0) = 0
      BY <1>1, <2>3, Where DEF ToStats
    <3>4. F = {}
      <4>1. \A f \in F : f.left \in Nat /\ f.left < ToStats(p, 0)
        BY <2>1, Scripts DEF ScriptsAt, FlowOK
      <4>2. QED
        BY <3>3, <4>1
    <3>5. ScriptsAt({}, {}, q, n, e, g2)
      BY DEF ScriptsAt
    <3>6. QED
      BY <1>2, <1>5, <3>2, <3>4, <3>5 DEF ScriptsOK
  <2>4. CASE p < G1 + 2
    <3>1. Moves(p, n) /\ q = p + 1 /\ g <= g2
      BY <1>1, <1>2, <1>4, <1>5, <2>4, Where
    <3>2. ScriptsAt(J, F, q, n, e, g2)
      BY <2>1, <2>2, <3>1, ScriptsMove
    <3>3. QED
      BY <1>2, <1>5, <3>2 DEF ScriptsOK
  <2>5. QED
    BY <1>1, <2>2, <2>3, <2>4, Where
<1>8. QED
  BY <1>6, <1>7 DEF InTime

-----------------------------------------------------------------------------
(* The hosts, and time.                                                    *)

LEMMA TickInTime ==
  ASSUME Timely, InTime, Tick
  PROVE  InTime'
<1>1. CtlOK /\ ScriptsOK
  BY DEF InTime
<1>2. ctl.left > 0 /\ UNCHANGED <<lastExp, lastGroup, netserver>>
      /\ jobs' = Less(jobs) /\ flows' = Less(flows)
      /\ (\A x \in jobs \cup flows : x.left > 0) /\ ctl' = [ctl EXCEPT !.left = ctl.left - 1]
  BY DEF Tick
<1>3. /\ ctl' \in [pc : 1..(G1 + 3), rep : Nat \ {0}, left : Nat]
      /\ ctl'.pc = ctl.pc /\ ctl'.rep = ctl.rep /\ ctl'.left = ctl.left - 1
  <2> PICK c, d, m : c = ctl /\ d = ctl' /\ m = ctl.left - 1
    OBVIOUS
  <2>1. c \in [pc : 1..(G1 + 3), rep : Nat \ {0}, left : Nat] /\ m \in Nat
        /\ d = [c EXCEPT !.left = m]
    BY <1>1, <1>2, Where DEF CtlOK
  <2>2. d \in [pc : 1..(G1 + 3), rep : Nat \ {0}, left : Nat] /\ d.left = m
        /\ d.pc = c.pc /\ d.rep = c.rep
    BY ONLY <2>1
  <2>3. QED
    BY <2>2
<1>4. CtlOK'
  <2>1. lastExp' = lastExp /\ lastGroup' = lastGroup /\ netserver' = netserver
    BY <1>2
  <2>2. QED
    BY <1>1, <1>3, <2>1 DEF CtlOK
<1>5. ScriptsOK'
  <2> PICK p, l, e, g, J, F :
        p = ctl.pc /\ l = ctl.left /\ e = lastExp /\ g = lastGroup /\ J = jobs /\ F = flows
    OBVIOUS
  <2>1. p \in 1..(G1 + 3) /\ l \in Nat /\ l > 0 /\ \A x \in J \cup F : x.left > 0
    BY <1>1, <1>2, Where
  <2>2. ScriptsAt(J, F, p, l, e, g)
    BY <1>1 DEF ScriptsOK
  <2>3. ScriptsAt(Less(J), Less(F), p, l - 1, e, g)
    BY <2>1, <2>2, ScriptsTick
  <2>4. jobs' = Less(J) /\ flows' = Less(F) /\ ctl'.pc = p /\ ctl'.left = l - 1 /\ lastExp' = e
        /\ lastGroup' = g
    BY <1>2, <1>3
  <2>5. QED
    BY ONLY <2>3, <2>4 DEF ScriptsOK
<1>6. QED
  BY <1>4, <1>5 DEF InTime

(* What the hosts do leaves the controller alone.                          *)
LEMMA HostsCtl ==
  ASSUME Timely, CtlOK, UNCHANGED ctlVars, netserver \subseteq netserver'
  PROVE  CtlOK'
BY DEF CtlOK, ctlVars

LEMMA FlowInTime ==
  ASSUME Timely, InTime, FlowEnds
  PROVE  InTime'
<1>1. UNCHANGED ctlVars /\ netserver \subseteq netserver'
  BY DEF FlowEnds
<1>2. CtlOK'
  BY <1>1, HostsCtl DEF InTime
<1>3. ScriptsOK'
  <2> PICK p, l, e, g, J, F, F2 :
        /\ p = ctl.pc /\ l = ctl.left /\ e = lastExp /\ g = lastGroup /\ J = jobs /\ F = flows
        /\ F2 = flows'
    OBVIOUS
  <2>1. ScriptsAt(J, F, p, l, e, g)
    BY DEF InTime, ScriptsOK
  <2>2. F2 \in SUBSET F
    BY DEF FlowEnds
  <2>3. ScriptsAt(J, F2, p, l, e, g)
    BY <2>1, <2>2, ScriptsFewer
  <2>4. jobs' = J /\ flows' = F2 /\ ctl'.pc = p /\ ctl'.left = l /\ lastExp' = e
        /\ lastGroup' = g
    BY DEF FlowEnds, ctlVars
  <2>5. QED
    BY ONLY <2>3, <2>4 DEF ScriptsOK
<1>4. QED
  BY <1>2, <1>3 DEF InTime

(* A script ends.                                                          *)
LEMMA EndInTime ==
  ASSUME Timely, InTime, UNCHANGED ctlVars, netserver \subseteq netserver',
         NEW j \in jobs, jobs' = (jobs \ {j}) \cup {}, flows' = flows
  PROVE  InTime'
<1>1. CtlOK'
  BY HostsCtl DEF InTime
<1>2. ScriptsOK'
  <2> PICK p, l, e, g, J, F :
        p = ctl.pc /\ l = ctl.left /\ e = lastExp /\ g = lastGroup /\ J = jobs /\ F = flows
    OBVIOUS
  <2>1. ScriptsAt(J, F, p, l, e, g)
    BY DEF InTime, ScriptsOK
  <2>2. ScriptsAt(J \ {j}, F, p, l, e, g)
    BY <2>1, ScriptsFewer
  <2>3. jobs' = J \ {j} /\ flows' = F /\ ctl'.pc = p /\ ctl'.left = l /\ lastExp' = e
        /\ lastGroup' = g
    BY DEF ctlVars
  <2>4. QED
    BY ONLY <2>2, <2>3 DEF ScriptsOK
<1>3. QED
  BY <1>1, <1>2 DEF InTime

(* The kinds of a script, and what it has of the experiment.               *)
LEMMA JobIs ==
  ASSUME ScriptsOK, NEW j \in jobs
  PROVE  /\ j \in ServerJob \cup ClientJob /\ j.exp = lastExp
         /\ j.script = "doClient" => j \in ClientJob
         /\ Started(j) => j.served
BY Scripts DEF ScriptsOK, ScriptsAt, JobOK

(* netserver runs on the servers: doServer.sh ends without the sleep.      *)
LEMMA ServerEnds ==
  ASSUME InTime, NEW j \in jobs, ServerStep(j)
  PROVE  /\ jobs' = jobs \ {j} /\ j.script = "doServer"
         /\ UNCHANGED <<flows, dirs, netserver>>
<1>1. ToSet(Servers) \subseteq netserver /\ j \in ServerJob
  BY JobIs, Scripts DEF InTime, CtlOK, ServerStep
<1>2. j.host \in netserver
  BY <1>1, Scripts
<1>3. QED
  BY <1>2 DEF ServerStep, Becomes

LEMMA StartIs ==
  ASSUME Timely, InTime, NEW j \in jobs, ClientStart(j)
  PROVE  /\ jobs' = (jobs \ {j}) \cup {Goes(j, "sleep", Transfer + 12 * Second)}
         /\ \E N : /\ flows' = flows \cup N
                   /\ \A f \in N : /\ f \in Flow /\ f.exp = lastExp
                                   /\ f.left <= Transfer + NetLag
<1>1. j \in ClientJob /\ j.exp = lastExp /\ j.server \in ToSet(Servers)
      /\ j.host \in ToSet(Clients) /\ j.group \in Nat \ {0}
  BY JobIs, Scripts DEF ClientStart, InTime
<1>2. j.server \in netserver
  BY <1>1 DEF InTime, CtlOK
<1>3. jobs' = (jobs \ {j}) \cup {Goes(j, "sleep", Transfer + 12 * Second)}
  <2>1. [j EXCEPT !.phase = "sleep", !.left = (Dur + 12) * Second, !.served = j.server \in netserver]
          = Goes(j, "sleep", Transfer + 12 * Second)
    <3>1. (Dur + 12) * Second = Transfer + 12 * Second /\ (j.server \in netserver) = TRUE
      BY <1>2, Numbers
    <3>2. QED
      BY ONLY <3>1 DEF Goes
  <2>2. QED
    BY <2>1 DEF ClientStart, Becomes
<1>4. PICK lag \in [1..Instances -> 0..NetLag] :
        flows' = flows \cup
          {[exp |-> j.exp, host |-> j.host, server |-> j.server,
            group |-> j.group, instance |-> i, left |-> Dur * Second + lag[i]] :
              i \in 1..Instances}
  BY <1>2 DEF ClientStart
<1>5. PICK N : N = {[exp |-> j.exp, host |-> j.host, server |-> j.server, group |-> j.group,
                     instance |-> i, left |-> Dur * Second + lag[i]] : i \in 1..Instances}
  OBVIOUS
<1>6. ASSUME NEW f \in N
      PROVE  f \in Flow /\ f.exp = lastExp /\ f.left <= Transfer + NetLag
  <2>1. PICK i \in 1..Instances :
          f = [exp |-> j.exp, host |-> j.host, server |-> j.server, group |-> j.group,
               instance |-> i, left |-> Dur * Second + lag[i]]
    BY <1>5
  <2>2. PICK n : n = Dur * Second + lag[i]
    OBVIOUS
  <2>3. n \in Nat /\ n <= Transfer + NetLag
    <3>1. lag[i] \in 0..NetLag
      OBVIOUS
    <3>2. Transfer \in Nat /\ NetLag \in Nat /\ n = Transfer + lag[i]
      BY <2>2, Numbers DEF Transfer
    <3>3. QED
      BY ONLY <3>1, <3>2
  <2>4. j.exp \in Nat /\ j.host \in Hosts /\ j.server \in Hosts
    <3>1. ToSet(Servers) \subseteq Hosts /\ ToSet(Clients) \subseteq Hosts
      BY ExperimentAssumption DEF ToSet
    <3>2. QED
      BY <1>1, <3>1, Where DEF InTime
  <2>5. f = [exp |-> j.exp, host |-> j.host, server |-> j.server, group |-> j.group,
             instance |-> i, left |-> n]
    BY <2>1, <2>2
  <2>6. QED
    BY ONLY <1>1, <2>3, <2>4, <2>5, i \in 1..Instances DEF Flow
<1>7. QED
  BY <1>3, <1>4, <1>5, <1>6

LEMMA StartInTime ==
  ASSUME Timely, InTime, UNCHANGED ctlVars, NEW j \in jobs, j.left = 0, ClientStart(j)
  PROVE  InTime'
<1>1. CtlOK'
  BY HostsCtl DEF InTime, ClientStart
<1>2. ScriptsOK'
  <2> PICK p, l, e, g, J, F, k, n :
        /\ p = ctl.pc /\ l = ctl.left /\ e = lastExp /\ g = lastGroup /\ J = jobs /\ F = flows
        /\ n = Transfer + 12 * Second /\ k = Goes(j, "sleep", n)
    OBVIOUS
  <2>1. p \in 1..(G1 + 3) /\ l \in Nat /\ g \in Nat /\ ScriptsAt(J, F, p, l, e, g)
    BY Where DEF InTime, ScriptsOK
  <2>2. j \in J /\ j \in ClientJob /\ Starting(j)
    BY JobIs DEF InTime, ClientStart, Starting
  <2>3. PICK N : /\ flows' = F \cup N
                 /\ \A f \in N : f \in Flow /\ f.exp = e /\ f.left <= Transfer + NetLag
    BY StartIs
  <2>4. ScriptsAt((J \ {j}) \cup {k}, F \cup N, p, l, e, g)
    BY <2>1, <2>2, <2>3, ScriptsStart
  <2>5. jobs' = (J \ {j}) \cup {k} /\ ctl'.pc = p /\ ctl'.left = l /\ lastExp' = e
        /\ lastGroup' = g
    BY StartIs DEF ctlVars
  <2>6. QED
    BY ONLY <2>3, <2>4, <2>5 DEF ScriptsOK
<1>3. QED
  BY <1>1, <1>2 DEF InTime

(* The last statistics, and the reading of netperf's output: all flows have*)
(* ended.                                                                  *)
LEMMA GoIs ==
  ASSUME Timely, InTime, NEW j \in jobs, j.left = 0, ClientStats(j) \/ ClientRead(j)
  PROVE  /\ flows = {}
         /\ \E phase, n : /\ jobs' = (jobs \ {j}) \cup {Goes(j, phase, n)} /\ n \in Nat
                          /\ \/ j.phase = "sleep" /\ phase = "stats1" /\ n <= StatsMax
                             \/ j.phase = "stats1" /\ phase = "write" /\ n <= ProcessMax
<1>1. j \in ClientJob /\ j.served \in BOOLEAN /\ Started(j) /\ j.served
  BY JobIs, Scripts DEF ClientStats, ClientRead, InTime, Started
<1>2. flows = {}
  <2>1. Limit(j) = 0 /\ After(j, jobs, flows) /\ \A f \in flows : f.left \in Nat
    BY <1>1, Scripts
    DEF ClientStats, ClientRead, Limit, InTime, ScriptsOK, ScriptsAt, FlowOK
  <2>2. QED
    BY <1>1, <2>1 DEF After
<1>3. CASE ClientStats(j)
  <2>1. PICK n \in 0..StatsMax :
          jobs' = (jobs \ {j}) \cup {[j EXCEPT !.phase = "stats1", !.left = n]}
    BY <1>3 DEF ClientStats, Becomes
  <2>2. [j EXCEPT !.phase = "stats1", !.left = n] = Goes(j, "stats1", n)
    BY <1>1, Zenon DEF Goes, ClientJob
  <2>3. n \in Nat /\ n <= StatsMax
    BY Numbers
  <2>4. QED
    BY <1>2, <1>3, <2>1, <2>2, <2>3 DEF ClientStats
<1>4. CASE ClientRead(j)
  <2>1. PICK n \in 0..ProcessMax :
          jobs' = (jobs \ {j}) \cup {[j EXCEPT !.phase = "write", !.left = n,
                                               !.served = j.served /\ Ended(j)]}
    BY <1>4 DEF ClientRead, Becomes
  <2>2. (j.served /\ Ended(j)) = TRUE
    BY <1>1, <1>2 DEF Ended
  <2>3. [j EXCEPT !.phase = "write", !.left = n, !.served = j.served /\ Ended(j)]
          = Goes(j, "write", n)
    BY ONLY <2>2 DEF Goes
  <2>4. n \in Nat /\ n <= ProcessMax
    BY Numbers
  <2>5. QED
    BY <1>2, <1>4, <2>1, <2>3, <2>4 DEF ClientRead
<1>5. QED
  BY <1>3, <1>4

LEMMA GoInTime ==
  ASSUME Timely, InTime, UNCHANGED ctlVars, NEW j \in jobs, j.left = 0,
         ClientStats(j) \/ ClientRead(j)
  PROVE  InTime'
<1>1. CtlOK'
  BY HostsCtl DEF InTime, ClientStats, ClientRead
<1>2. ScriptsOK'
  <2> PICK p, l, e, g, J, F :
        p = ctl.pc /\ l = ctl.left /\ e = lastExp /\ g = lastGroup /\ J = jobs /\ F = flows
    OBVIOUS
  <2>1. PICK phase, n :
          /\ jobs' = (jobs \ {j}) \cup {Goes(j, phase, n)} /\ n \in Nat
          /\ \/ j.phase = "sleep" /\ phase = "stats1" /\ n <= StatsMax
             \/ j.phase = "stats1" /\ phase = "write" /\ n <= ProcessMax
    BY GoIs
  <2> PICK k : k = Goes(j, phase, n)
    OBVIOUS
  <2>2. p \in 1..(G1 + 3) /\ l \in Nat /\ g \in Nat /\ ScriptsAt(J, F, p, l, e, g)
    BY Where DEF InTime, ScriptsOK
  <2>3. j \in J /\ j \in ClientJob
    BY JobIs DEF InTime, ClientStats, ClientRead
  <2>4. ScriptsAt((J \ {j}) \cup {k}, F, p, l, e, g)
    BY <2>1, <2>2, <2>3, ScriptsGo
  <2>5. jobs' = (J \ {j}) \cup {k} /\ flows' = F /\ ctl'.pc = p /\ ctl'.left = l /\ lastExp' = e
        /\ lastGroup' = g
    BY <2>1 DEF ctlVars, ClientStats, ClientRead
  <2>6. QED
    BY ONLY <2>4, <2>5 DEF ScriptsOK
<1>3. QED
  BY <1>1, <1>2 DEF InTime

LEMMA InitInTime ==
  ASSUME Timely, Init
  PROVE  InTime
<1>1. /\ ctl = [pc |-> 1, rep |-> 1, left |-> 0] /\ lastExp = 0 /\ lastGroup = 1
      /\ jobs = {} /\ flows = {} /\ netserver = Running
  BY DEF Init
<1>2. G1 \in Nat
  BY Positions DEF Places
<1>3. CtlOK
  BY <1>1, <1>2 DEF CtlOK, Timely
<1>4. ScriptsOK
  BY <1>1 DEF ScriptsOK, ScriptsAt
<1>5. QED
  BY <1>3, <1>4 DEF InTime

LEMMA StepInTime ==
  ASSUME Timely, InTime, [Next]_vars
  PROVE  InTime'
<1>1. CASE CtlStep
  BY <1>1, ServerInTime, ClientInTime, OthersInTime DEF CtlStep
<1>2. CASE ScriptStep
  <2>1. PICK j \in jobs : j.left = 0 /\ (ServerStep(j) \/ ClientStep(j))
    BY <1>2 DEF ScriptStep
  <2>2. UNCHANGED ctlVars
    BY <1>2 DEF ScriptStep
  <2>3. CASE ServerStep(j)
    <3>1. netserver \subseteq netserver' /\ jobs' = (jobs \ {j}) \cup {} /\ flows' = flows
      BY <2>3, ServerEnds
    <3>2. QED
      BY <2>2, <3>1, EndInTime
  <2>4. CASE ClientStart(j)
    BY <2>1, <2>2, <2>4, StartInTime
  <2>5. CASE ClientStats(j) \/ ClientRead(j)
    BY <2>1, <2>2, <2>5, GoInTime
  <2>6. CASE ClientWrite(j)
    <3>1. netserver \subseteq netserver' /\ jobs' = (jobs \ {j}) \cup {} /\ flows' = flows
      BY <2>6 DEF ClientWrite, Becomes
    <3>2. QED
      BY <2>2, <3>1, EndInTime
  <2>7. QED
    BY <2>1, <2>3, <2>4, <2>5, <2>6 DEF ClientStep
<1>3. CASE FlowEnds
  BY <1>3, FlowInTime
<1>4. CASE Tick
  BY <1>4, TickInTime
<1>5. CASE UNCHANGED vars
  <2>1. UNCHANGED <<ctl, lastExp, lastGroup, jobs, flows, netserver>>
    BY <1>5 DEF vars, ctlVars, hostVars
  <2>2. CtlOK'
    BY <2>1 DEF InTime, CtlOK
  <2>3. ScriptsOK'
    BY <2>1 DEF InTime, ScriptsOK
  <2>4. QED
    BY <2>2, <2>3 DEF InTime
<1>6. QED
  BY <1>1, <1>2, <1>3, <1>4, <1>5 DEF Next

LEMMA AlwaysInTime ==
  ASSUME Timely
  PROVE  Spec => []InTime
<1>1. Init => InTime
  BY InitInTime
<1>2. InTime /\ [Next]_vars => InTime'
  BY StepInTime
<1>3. QED
  BY <1>1, <1>2, PTL DEF Spec

(* The last statistics are taken when no transfer is under way: servers'   *)
(* ten seconds after the clients' flows should have ended, doClient.sh's   *)
(* twelve, whatever the scripts and netperf take within Timely.            *)
THEOREM StatisticsAfterTransfers == Timely => (Spec => []StatsAfter)
<1> SUFFICES ASSUME Timely PROVE Spec => []StatsAfter
  OBVIOUS
<1>1. InTime => StatsAfter
  <2> SUFFICES ASSUME InTime, NEW j \in jobs,
                      \/ j.script = "doServer" /\ j.order = 1
                      \/ j.script = "doClient" /\ j.phase = "stats1"
               PROVE  flows = {}
    BY DEF StatsAfter
  <2>1. \A f \in flows : f.left \in Nat /\ f.left < ToStats(ctl.pc, ctl.left)
    BY Scripts DEF InTime, ScriptsOK, ScriptsAt, FlowOK
  <2>2. CASE j.script = "doServer" /\ j.order = 1
    <3>1. ctl.pc > C0 + 3
      BY <2>2 DEF InTime, ScriptsOK, ScriptsAt, JobOK
    <3>2. ToStats(ctl.pc, ctl.left) = 0
      BY <3>1, Where DEF ToStats, InTime
    <3>3. QED
      BY <2>1, <3>2
  <2>3. CASE j.script = "doClient" /\ j.phase = "stats1"
    <3>1. Started(j) /\ Limit(j) = 0 /\ After(j, jobs, flows)
      BY <2>3 DEF Started, Limit, InTime, ScriptsOK, ScriptsAt
    <3>2. QED
      BY <2>1, <3>1 DEF After
  <2>4. QED
    BY <2>2, <2>3
<1>2. Spec => []InTime
  BY AlwaysInTime
<1>3. QED
  BY <1>1, <1>2, PTL

(* netperf processes of a host have different ports: those of an experiment*)
(* by their groups, and there are none left of the experiment before.      *)
THEOREM PortsNeverShared == Timely => (Spec => []PortsDistinct)
<1> SUFFICES ASSUME Timely PROVE Spec => []PortsDistinct
  OBVIOUS
<1>1. InTime => PortsDistinct
  <2> SUFFICES ASSUME InTime, NEW f \in flows, NEW g \in flows,
                      Port(f.group, f.instance) = Port(g.group, g.instance)
               PROVE  f.exp = g.exp /\ f.group = g.group /\ f.instance = g.instance
    BY DEF PortsDistinct
  <2>1. f.exp = lastExp /\ g.exp = lastExp /\ f \in Flow /\ g \in Flow
    BY DEF InTime, ScriptsOK, ScriptsAt, FlowOK
  <2>2. PICK a, b, m, n : a = f.group /\ b = g.group /\ m = f.instance /\ n = g.instance
    OBVIOUS
  <2>3. a \in Nat /\ b \in Nat /\ m \in 1..32 /\ n \in 1..32
    <3>1. Instances \in Nat /\ Instances <= 32
      BY Numbers DEF Timely
    <3>2. a \in Nat /\ b \in Nat /\ m \in 1..Instances /\ n \in 1..Instances
      BY <2>1, <2>2 DEF Flow
    <3>3. QED
      BY ONLY <3>1, <3>2
  <2>4. 32 * (a - 1) + m + 31850 = 32 * (b - 1) + n + 31850
    BY <2>2 DEF Port
  <2>5. a = b /\ m = n
    BY ONLY <2>3, <2>4
  <2>6. QED
    BY <2>1, <2>2, <2>5
<1>2. Spec => []InTime
  BY AlwaysInTime
<1>3. QED
  BY <1>1, <1>2, PTL

-----------------------------------------------------------------------------
(* The directories.                                                        *)

Dirs == [Hosts -> [Exps -> [there : BOOLEAN, results : Results]]]

LEMMA DirOf ==
  ASSUME NEW D \in Dirs, NEW h \in Hosts, NEW e \in Exps
  PROVE  /\ D[h] \in [Exps -> [there : BOOLEAN, results : Results]]
         /\ D[h][e] \in [there : BOOLEAN, results : Results]
         /\ D[h][e].there \in BOOLEAN /\ D[h][e].results \in Results
BY DEF Dirs

(* Directory e of host h is replaced by d.                                 *)
Replaced(D, D2, h, e, d) ==
  /\ D2 \in Dirs /\ D2[h][e] = d
  /\ \A h2 \in Hosts, e2 \in Exps : h2 # h \/ e2 # e => D2[h2][e2] = D[h2][e2]

LEMMA DirSet ==
  ASSUME NEW D \in Dirs, NEW h \in Hosts, NEW e \in Exps,
         NEW d \in [there : BOOLEAN, results : Results],
         NEW D2, D2 = [D EXCEPT ![h][e] = d]
  PROVE  Replaced(D, D2, h, e, d)
<1>1. D2 = [D EXCEPT ![h] = [D[h] EXCEPT ![e] = d]]
  OBVIOUS
<1> PICK r : r = [D[h] EXCEPT ![e] = d]
  OBVIOUS
<1>2. /\ r \in [Exps -> [there : BOOLEAN, results : Results]] /\ r[e] = d
      /\ \A e2 \in Exps : e2 # e => r[e2] = D[h][e2]
  BY DirOf
<1>3. D2 \in Dirs /\ D2[h] = r /\ \A h2 \in Hosts : h2 # h => D2[h2] = D[h2]
  BY <1>1, <1>2 DEF Dirs
<1>4. QED
  BY <1>2, <1>3 DEF Replaced

(* A result comes to it.                                                   *)
Gained(D, D2, h, e, x) ==
  /\ D2 \in Dirs
  /\ D2[h][e].results = D[h][e].results \cup {x} /\ D2[h][e].there = D[h][e].there
  /\ \A h2 \in Hosts, e2 \in Exps : h2 # h \/ e2 # e => D2[h2][e2] = D[h2][e2]

LEMMA DirGains ==
  ASSUME NEW D \in Dirs, NEW h \in Hosts, NEW e \in Exps, NEW x \in Result,
         NEW D2, D2 = [D EXCEPT ![h][e].results = @ \cup {x}]
  PROVE  Gained(D, D2, h, e, x)
<1> PICK d : d = [D[h][e] EXCEPT !.results = D[h][e].results \cup {x}]
  OBVIOUS
<1>1. D2 = [D EXCEPT ![h][e] = d]
  OBVIOUS
<1>2. /\ d \in [there : BOOLEAN, results : Results]
      /\ d.results = D[h][e].results \cup {x} /\ d.there = D[h][e].there
  <2> PICK r, s : r = D[h][e] /\ s = D[h][e].results \cup {x}
    OBVIOUS
  <2>1. s \in Results /\ r \in [there : BOOLEAN, results : Results]
    BY DirOf DEF Results
  <2>2. d = [r EXCEPT !.results = s]
    OBVIOUS
  <2>3. d \in [there : BOOLEAN, results : Results] /\ d.results = s /\ d.there = r.there
    BY ONLY <2>1, <2>2
  <2>4. QED
    BY <2>3
<1>3. Replaced(D, D2, h, e, d)
  BY <1>1, <1>2, DirSet
<1>4. QED
  BY ONLY <1>2, <1>3 DEF Replaced, Gained

(* mkdir: no results come or go.                                           *)
Made(D, D2, h, e) ==
  /\ D2 \in Dirs /\ D2[h][e].there
  /\ \A h2 \in Hosts, e2 \in Exps :
       /\ D2[h2][e2].results = D[h2][e2].results
       /\ D[h2][e2].there => D2[h2][e2].there
       /\ ~D2[h2][e2].there => D2[h2][e2].results = {}

LEMMA MakeDirIs ==
  ASSUME DirsOK, NEW h \in Hosts, NEW e \in Exps, dirs' = MakeDir(h, e)
  PROVE  Made(dirs, dirs', h, e)
<1> PICK D, D2 : D = dirs /\ D2 = dirs'
  OBVIOUS
<1>1. D \in Dirs /\ \A h2 \in Hosts, e2 \in Exps : ~D[h2][e2].there => D[h2][e2].results = {}
  BY DEF DirsOK, Dirs
<1>2. CASE D[h][e].there
  <2>1. D2 = D
    BY <1>2 DEF MakeDir
  <2>2. QED
    BY <1>1, <1>2, <2>1 DEF Made
<1>3. CASE ~D[h][e].there
  <2>1. D2 = [D EXCEPT ![h][e] = EmptyDir]
    BY <1>3 DEF MakeDir
  <2>2. EmptyDir \in [there : BOOLEAN, results : Results] /\ EmptyDir.there
        /\ EmptyDir.results = {}
    BY DEF EmptyDir, Results
  <2>3. Replaced(D, D2, h, e, EmptyDir)
    BY <1>1, <2>1, <2>2, DirSet
  <2>4. D[h][e].results = {}
    BY <1>1, <1>3
  <2>5. ASSUME NEW h2 \in Hosts, NEW e2 \in Exps
        PROVE  /\ D2[h2][e2].results = D[h2][e2].results
               /\ D[h2][e2].there => D2[h2][e2].there
               /\ ~D2[h2][e2].there => D2[h2][e2].results = {}
    <3>1. CASE h2 = h /\ e2 = e
      BY <2>2, <2>3, <2>4, <3>1 DEF Replaced
    <3>2. CASE h2 # h \/ e2 # e
      <4>1. D2[h2][e2] = D[h2][e2]
        BY <2>3, <3>2 DEF Replaced
      <4>2. QED
        BY <1>1, <4>1
    <3>3. QED
      BY <3>1, <3>2
  <2>6. D2 \in Dirs /\ D2[h][e].there
    BY <2>2, <2>3 DEF Replaced
  <2>7. QED
    BY <2>5, <2>6 DEF Made
<1>4. QED
  BY <1>2, <1>3

(* The experiment that is under way has its place in the directories.      *)
LEMMA ExpIs ==
  ASSUME Timely, CtlOK
  PROVE  /\ ctl.pc > 1 => lastExp \in Exps
         /\ ctl.pc = 1 => lastExp + 1 = ctl.rep
BY Where DEF CtlOK, Exps

LEMMA NoJobsLate ==
  ASSUME Timely, InTime, ctl.pc > S1 + 2 \/ (ctl.pc = S1 + 2 /\ ctl.left = 0)
  PROVE  jobs = {}
<1>1. ToGet(ctl.pc, ctl.left) = 0
  BY Where DEF ToGet, InTime
<1>2. \A j \in jobs : ToEnd(j) \in Nat /\ ToEnd(j) < ToGet(ctl.pc, ctl.left)
  BY Numbers, Scripts DEF InTime, ScriptsOK, ScriptsAt, JobOK, ToEnd
<1>3. QED
  BY <1>1, <1>2

(* Where only scripts and time go on, nothing is lost.                     *)
LEMMA HostsData ==
  ASSUME DataOK, UNCHANGED <<lastExp, lastGroup, getDataHostDict, fetched, rows, dirs>>,
         ctl'.pc = ctl.pc,
         \A k \in jobs' : \E j \in jobs : k.host = j.host /\ k.exp = j.exp,
         \A j \in jobs : j.script = "doClient" =>
           \E k \in jobs' : k.script = "doClient" /\ k.group = j.group
  PROVE  DataOK'
<1>1. DirsOK' /\ Asked' /\ RowComplete'
  BY DEF DataOK, DirsOK, Asked, RowComplete
<1>2. HaveResults'
  BY DEF DataOK, HaveResults, ResultsOK, Underway
<1>3. NoOrphan'
  BY DEF DataOK, NoOrphan
<1>4. Accounted'
  <2> SUFFICES ASSUME Underway', NEW g \in 1..(lastGroup' - 1)
               PROVE  (AtWork(g) \/ OnHost(g) \/ Fetched(g))'
    BY DEF Accounted
  <2>1. AtWork(g) \/ OnHost(g) \/ Fetched(g)
    BY DEF DataOK, Accounted, Underway
  <2>2. AtWork(g) => AtWork(g)'
    BY DEF AtWork
  <2>3. OnHost(g) => OnHost(g)'
    BY DEF OnHost
  <2>4. Fetched(g) => Fetched(g)'
    BY DEF Fetched
  <2>5. QED
    BY <2>1, <2>2, <2>3, <2>4
<1>5. QED
  BY <1>1, <1>2, <1>3, <1>4 DEF DataOK

(* A script is started on host h, which has the directory for it.          *)
LEMMA StartData ==
  ASSUME Timely, InTime, InTime', DataOK, UNCHANGED <<fetched, rows>>,
         NEW h \in Hosts, NEW e, e = lastExp', Made(dirs, dirs', h, e),
         NEW j, jobs' = jobs \cup {j}, j.host = h, j.exp = e,
         ctl.pc <= S1, ctl'.pc = ctl.pc + 1,
         lastExp' = (IF ctl.pc = 1 THEN lastExp + 1 ELSE lastExp),
         \/ lastGroup' = lastGroup /\ getDataHostDict' = getDataHostDict
         \/ /\ lastGroup' = lastGroup + 1 /\ getDataHostDict' = {}
            /\ j.script = "doClient" /\ j.group = lastGroup
  PROVE  DataOK'
<1>1. /\ CtlOK /\ CtlOK' /\ ctl.pc \in 1..S1 /\ S1 \in Nat /\ S1 + 1 <= G1 /\ G1 \in Nat
      /\ lastGroup \in Nat \ {0} /\ lastGroup' \in Nat \ {0} /\ lastGroup <= lastGroup'
      /\ lastExp \in Nat /\ 1 <= S0 /\ S0 \in Nat
  BY Where DEF InTime, CtlOK
<1>2. e \in Exps /\ e \in Nat
  <2>1. ctl'.pc > 1 /\ ctl'.rep \in Nat \ {0} /\ Reps \in Nat
    BY <1>1, Numbers DEF CtlOK
  <2>2. lastExp' = ctl'.rep /\ ctl'.rep <= Reps
    BY <1>1, <2>1 DEF CtlOK
  <2>3. QED
    BY <2>1, <2>2 DEF Exps
<1>3. /\ dirs' \in Dirs /\ dirs'[h][e].there
      /\ \A h2 \in Hosts, e2 \in Exps :
           /\ dirs'[h2][e2].results = dirs[h2][e2].results
           /\ dirs[h2][e2].there => dirs'[h2][e2].there
           /\ ~dirs'[h2][e2].there => dirs'[h2][e2].results = {}
  BY DEF Made
<1>4. DirsOK /\ HaveResults /\ Accounted /\ Asked /\ NoOrphan /\ RowComplete
  BY DEF DataOK
<1>5. DirsOK'
  <2>1. \A e2 \in Exps : e2 > lastExp' => e2 > lastExp
    BY <1>1 DEF Exps
  <2>2. \A h2 \in Hosts, e2 \in Exps : e2 > lastExp' => dirs'[h2][e2].results = {}
    BY <1>3, <1>4, <2>1 DEF DirsOK
  <2>3. \A e2 \in Exps : e2 > lastExp' => fetched'[e2] = {}
    BY <1>4, <2>1 DEF DirsOK
  <2>4. fetched' \in [Exps -> Results]
    BY <1>4 DEF DirsOK
  <2>5. QED
    BY ONLY <1>3, <2>2, <2>3, <2>4 DEF DirsOK, Dirs
<1>6. ctl.pc = 1 => lastGroup = 1
  BY <1>1 DEF CtlOK
<1>7. ctl.pc # 1 => Underway /\ lastExp' = lastExp
  BY <1>1 DEF Underway
<1>8. HaveResults'
  <2>1. CASE ctl.pc = 1
    <3>1. e > lastExp
      BY <1>1, <2>1
    <3>2. fetched'[e] = {} /\ \A h2 \in Hosts : dirs'[h2][e].results = {}
      BY <1>2, <1>3, <1>4, <3>1 DEF DirsOK
    <3>3. QED
      BY <3>2 DEF HaveResults, ResultsOK
  <2>2. CASE ctl.pc # 1
    <3>1. /\ \A x \in fetched[e] : x.complete /\ x.group \in 1..(lastGroup - 1)
          /\ \A h2 \in Hosts : \A x \in dirs[h2][e].results :
               x.complete /\ x.group \in 1..(lastGroup - 1)
      BY <1>4, <1>7, <2>2 DEF HaveResults, ResultsOK
    <3>2. \A g \in 1..(lastGroup - 1) : g \in 1..(lastGroup' - 1)
      <4> PICK m, n : m = lastGroup /\ n = lastGroup'
        OBVIOUS
      <4>1. m \in Nat /\ n \in Nat /\ m <= n
        BY <1>1
      <4>2. \A g \in 1..(m - 1) : g \in 1..(n - 1)
        BY ONLY <4>1
      <4>3. QED
        BY <4>2
    <3>3. /\ \A x \in fetched'[e] : x.complete /\ x.group \in 1..(lastGroup' - 1)
          /\ \A h2 \in Hosts : \A x \in dirs'[h2][e].results :
               x.complete /\ x.group \in 1..(lastGroup' - 1)
      BY <1>2, <1>3, <3>1, <3>2
    <3>4. QED
      BY <3>3 DEF HaveResults, ResultsOK
  <2>3. QED
    BY <2>1, <2>2
<1>9. Accounted'
  <2> SUFFICES ASSUME NEW g \in 1..(lastGroup' - 1)
               PROVE  (AtWork(g) \/ OnHost(g) \/ Fetched(g))'
    BY DEF Accounted
  <2>1. CASE g \in 1..(lastGroup - 1)
    <3>1. ctl.pc # 1
      BY <1>1, <1>6, <2>1
    <3>2. AtWork(g) \/ OnHost(g) \/ Fetched(g)
      BY <1>4, <1>7, <2>1, <3>1 DEF Accounted
    <3>3. AtWork(g) => AtWork(g)'
      BY DEF AtWork
    <3>4. OnHost(g) => OnHost(g)'
      <4>1. ToSet(Clients) \subseteq Hosts
        BY ExperimentAssumption DEF ToSet
      <4>2. \A h2 \in Hosts : dirs'[h2][lastExp'].results = dirs[h2][lastExp].results
        BY <1>2, <1>3, <1>7, <3>1
      <4>3. getDataHostDict' \subseteq getDataHostDict
        OBVIOUS
      <4>4. QED
        BY ONLY <4>1, <4>2, <4>3 DEF OnHost
    <3>5. Fetched(g) => Fetched(g)'
      BY <1>7, <3>1 DEF Fetched
    <3>6. QED
      BY <3>2, <3>3, <3>4, <3>5
  <2>2. CASE g \notin 1..(lastGroup - 1)
    <3>1. j.script = "doClient" /\ j.group = g
      <4> PICK m, n : m = lastGroup /\ n = lastGroup'
        OBVIOUS
      <4>1. m \in Nat \ {0} /\ g \in 1..(n - 1) /\ g \notin 1..(m - 1) /\ (n = m \/ n = m + 1)
        BY <1>1, <2>2
      <4>2. n = m + 1 /\ g = m
        BY ONLY <4>1
      <4>3. lastGroup' # lastGroup
        BY <1>1, <4>2
      <4>4. QED
        BY <4>2, <4>3
    <3>2. QED
      BY <3>1 DEF AtWork
  <2>3. QED
    BY <2>1, <2>2
<1>10. Asked'
  <2>1. lastGroup' > 1 => getDataHostDict' = {}
    BY <1>1, <1>4 DEF Asked
  <2>2. \A p \in (S1 + 2)..G1 : ~(p < ctl'.pc)
    BY <1>1
  <2>3. QED
    BY <2>1, <2>2 DEF Asked
<1>11. NoOrphan'
  <2> SUFFICES ASSUME NEW k \in jobs PROVE dirs'[k.host][k.exp].there
    BY <1>3 DEF NoOrphan
  <2>1. ctl.pc # 1
    BY DEF InTime, ScriptsOK, ScriptsAt
  <2>2. k.host \in Hosts /\ k.exp = e
    <3>1. ToSet(Clients) \subseteq Hosts /\ ToSet(Servers) \subseteq Hosts
      BY ExperimentAssumption DEF ToSet
    <3>2. k.exp = lastExp /\ (k \in ServerJob \/ k \in ClientJob)
      BY JobIs DEF InTime
    <3>3. QED
      BY <1>7, <2>1, <3>1, <3>2, Scripts
  <2>3. dirs[k.host][k.exp].there
    BY <1>4 DEF NoOrphan
  <2>4. QED
    BY <1>2, <1>3, <2>2, <2>3
<1>12. RowComplete'
  BY <1>4 DEF RowComplete
<1>13. QED
  BY <1>5, <1>8, <1>9, <1>10, <1>11, <1>12 DEF DataOK

LEMMA ServerData ==
  ASSUME Timely, InTime, InTime', DataOK, CtlDoServer
  PROVE  DataOK'
<1>1. CtlOK /\ Advance(0) /\ lastExp' = (IF ctl.pc = 1 THEN lastExp + 1 ELSE lastExp)
      /\ UNCHANGED <<lastGroup, getDataHostDict, fetched, rows>>
  BY DEF CtlDoServer, Exp, InTime
<1>2. PICK h \in ToSet(Servers), o \in {0, 1} :
        /\ Lines[ctl.pc] = DoServer(h, o)
        /\ \/ o = 0 /\ ctl.pc <= S0
           \/ o = 1 /\ ctl.pc >= C0 + 3 /\ ctl.pc <= S1
  <2>1. Lines[ctl.pc].cmd = "DO_SERVER" /\ ctl.pc \in 1..(G1 + 3)
    BY <1>1, Where DEF CtlDoServer, At
  <2>2. QED
    BY <2>1, Commands
<1>3. h \in Hosts /\ Lines[ctl.pc].host = h
  BY <1>2, ExperimentAssumption DEF ToSet, DoServer
<1>4. PICK j : jobs' = jobs \cup {j} /\ j.host = h /\ j.exp = lastExp'
  <2>1. PICK n \in 0..StatsMax :
          jobs' = jobs \cup {[script |-> "doServer", exp |-> lastExp', host |-> h,
                              order |-> Line.order, left |-> n]}
    BY <1>1, <1>3 DEF CtlDoServer, Line, Exp
  <2> PICK j : j = [script |-> "doServer", exp |-> lastExp', host |-> h, order |-> Line.order,
                    left |-> n]
    OBVIOUS
  <2>2. j.host = h /\ j.exp = lastExp'
    OBVIOUS
  <2>3. QED
    BY <2>1, <2>2
<1>5. ctl.pc <= S1 /\ ctl'.pc = ctl.pc + 1
  BY <1>1, <1>2, Where, Advances
<1>6. Made(dirs, dirs', h, lastExp')
  <2>1. lastExp' \in Exps
    <3>1. ctl'.pc > 1 /\ CtlOK'
      BY <1>1, <1>5, Where DEF InTime
    <3>2. ctl'.rep \in Nat \ {0} /\ Reps \in Nat /\ lastExp' = ctl'.rep /\ ctl'.rep <= Reps
      BY <3>1, Numbers DEF CtlOK
    <3>3. QED
      BY <3>2 DEF Exps
  <2>2. dirs' = MakeDir(h, lastExp')
    BY <1>1, <1>3 DEF CtlDoServer, Line, Exp
  <2>3. QED
    BY <1>3, <2>1, <2>2, MakeDirIs DEF DataOK
<1>7. QED
  BY <1>1, <1>3, <1>4, <1>5, <1>6, StartData

LEMMA ClientData ==
  ASSUME Timely, InTime, InTime', DataOK, CtlDoClient
  PROVE  DataOK'
<1>1. CtlOK /\ Advance(0) /\ lastGroup' = lastGroup + 1 /\ getDataHostDict' = {}
      /\ UNCHANGED <<lastExp, fetched, rows>>
  BY DEF CtlDoClient, InTime
<1>2. PICK h \in ToSet(Clients), s \in ToSet(Servers) :
        ctl.pc \in (S0 + 1)..C0 /\ Lines[ctl.pc] = DoClient(h, s)
  <2>1. Lines[ctl.pc].cmd = "DO_CLIENT" /\ ctl.pc \in 1..(G1 + 3)
    BY <1>1, Where DEF CtlDoClient, At
  <2>2. QED
    BY <2>1, Commands
<1>3. h \in Hosts /\ Lines[ctl.pc].host = h
  BY <1>2, ExperimentAssumption DEF ToSet, DoClient
<1>4. PICK j : /\ jobs' = jobs \cup {j} /\ j.host = h /\ j.exp = lastExp
               /\ j.script = "doClient" /\ j.group = lastGroup
  <2>1. PICK n \in 0..StatsMax :
          jobs' = jobs \cup {[script |-> "doClient", exp |-> lastExp, host |-> h,
                              server |-> Line.server, group |-> lastGroup,
                              phase |-> "stats0", served |-> FALSE, left |-> n]}
    BY <1>3 DEF CtlDoClient, Line
  <2> PICK j : j = [script |-> "doClient", exp |-> lastExp, host |-> h, server |-> Line.server,
                    group |-> lastGroup, phase |-> "stats0", served |-> FALSE, left |-> n]
    OBVIOUS
  <2>2. j.host = h /\ j.exp = lastExp /\ j.script = "doClient" /\ j.group = lastGroup
    OBVIOUS
  <2>3. QED
    BY <2>1, <2>2
<1>5. ctl.pc <= S1 /\ ctl.pc # 1 /\ ctl'.pc = ctl.pc + 1
  BY <1>1, <1>2, Where, Advances
<1>6. lastExp' = lastExp
  BY <1>1
<1>7. Made(dirs, dirs', h, lastExp)
  <2>1. lastExp \in Exps
    BY <1>1, <1>5, ExpIs, Where
  <2>2. dirs' = MakeDir(h, lastExp)
    BY <1>3 DEF CtlDoClient, Line
  <2>3. QED
    BY <1>3, <2>1, <2>2, MakeDirIs DEF DataOK
<1>8. QED
  BY <1>1, <1>3, <1>4, <1>5, <1>6, <1>7, StartData

(* The controller goes on; the hosts and what was fetched stay as they are.*)
LEMMA OnData ==
  ASSUME DataOK, UNCHANGED <<lastExp, lastGroup, getDataHostDict, fetched, jobs, dirs>>,
         RowComplete', Underway' => Underway, Asked'
  PROVE  DataOK'
<1>1. DirsOK' /\ NoOrphan'
  BY DEF DataOK, DirsOK, NoOrphan
<1>2. HaveResults'
  BY DEF DataOK, HaveResults, ResultsOK
<1>3. Accounted'
  <2> SUFFICES ASSUME Underway', NEW g \in 1..(lastGroup' - 1)
               PROVE  (AtWork(g) \/ OnHost(g) \/ Fetched(g))'
    BY DEF Accounted
  <2>1. AtWork(g) \/ OnHost(g) \/ Fetched(g)
    BY DEF DataOK, Accounted
  <2>2. AtWork(g) => AtWork(g)'
    BY DEF AtWork
  <2>3. OnHost(g) => OnHost(g)'
    BY DEF OnHost
  <2>4. Fetched(g) => Fetched(g)'
    BY DEF Fetched
  <2>5. QED
    BY <2>1, <2>2, <2>3, <2>4
<1>4. QED
  BY <1>1, <1>2, <1>3 DEF DataOK

LEMMA WaitData ==
  ASSUME Timely, InTime, DataOK, CtlWait
  PROVE  DataOK'
<1>1. CtlOK /\ UNCHANGED <<lastExp, lastGroup, getDataHostDict, fetched, rows, jobs, dirs>>
  BY DEF InTime, CtlWait, hostVars
<1>2. PICK n \in Nat : /\ Advance(n) /\ ctl.pc > 1
                       /\ ctl.pc <= S1 + 1 \/ ctl.pc = G1 + 1 \/ ctl.pc = G1 + 3
  <2>1. ctl.pc \in 1..(G1 + 3)
    BY <1>1, Where
  <2>2. CASE At("WAIT") /\ Advance(Line.ticks)
    <3>1. Lines[ctl.pc].cmd = "WAIT"
      BY <2>2 DEF At
    <3>2. PICK n : n = Line.ticks
      OBVIOUS
    <3>3. \/ ctl.pc = C0 + 1 /\ n = Transfer
          \/ ctl.pc = C0 + 2 /\ n = 10 * Second
          \/ ctl.pc = S1 + 1 /\ n = 5 * Second
          \/ ctl.pc = G1 + 1 /\ n = 10 * Second
          \/ ctl.pc = G1 + 3 /\ n = 15 * Second
      BY <2>1, <3>1, <3>2, Commands DEF Line
    <3>4. QED
      BY <1>1, <2>2, <3>2, <3>3, Where
  <2>3. CASE At("RAND_WAIT") /\ \E n \in 0..1 : Advance(n)
    <3>1. Lines[ctl.pc].cmd = "RAND_WAIT"
      BY <2>3 DEF At
    <3>2. ctl.pc \in (S0 + 1)..C0
      BY <2>1, <3>1, Commands
    <3>3. QED
      BY <1>1, <2>3, <3>2, Where
  <2>4. QED
    BY <2>2, <2>3 DEF CtlWait
<1>3. /\ ctl.pc < G1 + 3 => ctl'.pc = ctl.pc + 1
      /\ ctl.pc = G1 + 3 => ctl'.pc = 1
  BY <1>1, <1>2, Advances
<1>4. Underway' => Underway
  BY <1>1, <1>2, <1>3, Where DEF Underway
<1>5. Asked'
  <2>1. lastGroup > 1 /\ ctl'.pc <= S1 + 2 => getDataHostDict = {}
    <3>1. ctl.pc = G1 + 3 => lastGroup = 1
      BY <1>1 DEF CtlOK
    <3>2. ctl.pc < G1 + 3 /\ ctl'.pc <= S1 + 2 => ctl.pc <= S1 + 2
      BY <1>1, <1>3, Where
    <3>3. ctl.pc < G1 + 3 \/ ctl.pc = G1 + 3
      BY <1>1, Where
    <3>4. ~(1 > 1)
      OBVIOUS
    <3>5. QED
      BY <3>1, <3>2, <3>3, <3>4 DEF DataOK, Asked
  <2>2. ASSUME NEW p \in (S1 + 2)..G1, p < ctl'.pc, ctl'.pc <= G1 + 2
        PROVE  Lines[p].host \in getDataHostDict
    <3>1. p < ctl.pc /\ ctl.pc <= G1 + 2
      BY <1>1, <1>2, <1>3, <2>2, Where
    <3>2. QED
      BY <3>1 DEF DataOK, Asked
  <2>3. QED
    BY <1>1, <2>1, <2>2 DEF Asked
<1>6. RowComplete'
  BY <1>1 DEF DataOK, RowComplete
<1>7. QED
  BY <1>1, <1>4, <1>5, <1>6, OnData

LEMMA ProcessData ==
  ASSUME Timely, InTime, DataOK, CtlProcessExp
  PROVE  DataOK'
<1>1. /\ CtlOK /\ Advance(0) /\ lastGroup' = 1 /\ ctl.left = 0
      /\ UNCHANGED <<lastExp, getDataHostDict, fetched, jobs, dirs>>
      /\ rows' = rows \cup {[exp |-> lastExp, groups |-> 1..(lastGroup - 1),
                             results |-> fetched[lastExp]]}
  BY DEF InTime, CtlProcessExp, hostVars, At
<1>2. ctl.pc = G1 + 2
  <2>1. Lines[ctl.pc].cmd = "PROCESS_EXP" /\ ctl.pc \in 1..(G1 + 3)
    BY <1>1, Where DEF CtlProcessExp, At
  <2>2. QED
    BY <2>1, Commands
<1>3. ctl'.pc = G1 + 3 /\ ~Underway' /\ Underway
  <2>1. CtlOK /\ Advance(0) /\ 0 \in Nat
    BY <1>1
  <2>2. ctl.pc < G1 + 3 /\ G1 \in Nat
    BY <1>2, <2>1, Where
  <2>3. ctl'.pc = ctl.pc + 1
    BY ONLY Timely, <2>1, <2>2, Advances
  <2>4. QED
    BY ONLY <1>2, <2>2, <2>3 DEF Underway
<1>4. jobs = {}
  BY <1>1, <1>2, Where, NoJobsLate, SMTT(60)
<1>5. \A h \in ToSet(Clients) : h \in getDataHostDict
  <2> TAKE h \in ToSet(Clients)
  <2>1. PICK p \in (G0 + 1)..G1 : Lines[p] = GetData(h)
    BY Positions
  <2>2. p \in (S1 + 2)..G1 /\ p < ctl.pc /\ ctl.pc <= G1 + 2
    <3>1. S1 \in Nat /\ G0 \in Nat /\ G1 \in Nat /\ S1 + 1 <= G0
      BY Positions DEF Places
    <3>2. QED
      BY ONLY <1>2, <3>1, p \in (G0 + 1)..G1
  <2>3. Lines[p].host = h
    BY <2>1 DEF GetData
  <2>4. QED
    BY <2>2, <2>3 DEF DataOK, Asked
<1>6. /\ \A g \in 1..(lastGroup - 1) : Fetched(g)
      /\ \A x \in fetched[lastExp] : x.complete /\ x.group \in 1..(lastGroup - 1)
  <2>1. \A g : ~AtWork(g) /\ ~OnHost(g)
    BY <1>4, <1>5 DEF AtWork, OnHost
  <2>2. QED
    BY <1>3, <2>1 DEF DataOK, Accounted, HaveResults, ResultsOK
<1>7. RowComplete'
  <2> PICK r : r = [exp |-> lastExp, groups |-> 1..(lastGroup - 1),
                    results |-> fetched[lastExp]]
    OBVIOUS
  <2>1. r.groups = 1..(lastGroup - 1) /\ r.results = fetched[lastExp]
    OBVIOUS
  <2>2. {x.group : x \in r.results} = r.groups /\ \A x \in r.results : x.complete
    BY <1>6, <2>1 DEF Fetched
  <2>3. \A q \in rows : {x.group : x \in q.results} = q.groups /\ \A x \in q.results : x.complete
    BY DEF DataOK, RowComplete
  <2>4. rows' = rows \cup {r}
    BY <1>1
  <2>5. QED
    BY ONLY <2>2, <2>3, <2>4 DEF RowComplete
<1>8. DirsOK' /\ NoOrphan'
  BY <1>1 DEF DataOK, DirsOK, NoOrphan
<1>9. HaveResults' /\ Accounted'
  BY <1>3 DEF HaveResults, Accounted
<1>10. Asked'
  <2>1. ~(lastGroup' > 1) /\ ~(ctl'.pc <= G1 + 2)
    BY <1>1, <1>3, Where
  <2>2. QED
    BY <2>1 DEF Asked
<1>11. QED
  BY <1>7, <1>8, <1>9, <1>10 DEF DataOK

LEMMA GetDataData ==
  ASSUME Timely, InTime, DataOK, CtlGetData
  PROVE  DataOK'
<1>1. CtlOK /\ ctl.left = 0 /\ UNCHANGED <<lastExp, lastGroup, rows, jobs>>
  BY DEF InTime, CtlGetData, At
<1>2. PICK h \in Hosts : ctl.pc \in (S1 + 2)..G1 /\ Lines[ctl.pc] = GetData(h)
  <2>1. Lines[ctl.pc].cmd = "GET_DATA" /\ ctl.pc \in 1..(G1 + 3)
    BY <1>1, Where DEF CtlGetData, At
  <2>2. QED
    BY <2>1, Commands
<1>3. Line.host = h /\ Lines[ctl.pc].host = h
  BY <1>2 DEF Line, GetData
<1>4. ctl'.pc = ctl.pc + 1 /\ ctl.pc > 1 /\ ctl.pc > S1 + 1 /\ ctl.pc <= G1
      /\ S1 \in Nat /\ G1 \in Nat /\ ctl.pc \in Nat
  <2>1. PICK n \in Nat : Advance(n)
    BY DEF CtlGetData
  <2>2. ctl.pc < G1 + 3
    BY <1>1, <1>2, Where
  <2>3. ctl'.pc = ctl.pc + 1
    BY ONLY Timely, <1>1, <2>1, <2>2, Advances
  <2>4. QED
    BY <1>1, <1>2, <2>3, Where
<1>5. jobs = {}
  BY <1>1, <1>4, NoJobsLate
<1>6. Underway /\ lastExp \in Exps
  BY <1>1, <1>4, ExpIs DEF Underway
<1>7. getDataHostDict' = getDataHostDict \cup {h}
  BY <1>3 DEF CtlGetData
<1>8. Asked'
  <2>1. ~(ctl'.pc <= S1 + 2)
    BY <1>4
  <2>2. ASSUME NEW p \in (S1 + 2)..G1, p < ctl'.pc PROVE Lines[p].host \in getDataHostDict'
    <3>1. CASE p = ctl.pc
      BY <1>3, <1>7, <3>1
    <3>2. CASE p # ctl.pc
      <4>1. p < ctl.pc /\ ctl.pc <= G1 + 2
        BY <1>4, <2>2, <3>2
      <4>2. QED
        BY <1>7, <4>1 DEF DataOK, Asked
    <3>3. QED
      BY <3>1, <3>2
  <2>3. QED
    BY <2>1, <2>2 DEF Asked
<1>9. RowComplete' /\ NoOrphan'
  BY <1>1, <1>5 DEF DataOK, RowComplete, NoOrphan
<1>10. CASE h \in getDataHostDict
  <2>1. UNCHANGED <<getDataHostDict, fetched, dirs>>
    BY <1>3, <1>10 DEF CtlGetData
  <2>2. QED
    BY <1>1, <1>6, <1>8, <1>9, <2>1, OnData
<1>11. CASE h \notin getDataHostDict
  <2> PICK D, D2, e, R : D = dirs /\ D2 = dirs' /\ e = lastExp /\ R = dirs[h][lastExp].results
    OBVIOUS
  <2>1. D \in Dirs /\ e \in Exps /\ DirsOK /\ R \in Results
    BY <1>6, DirOf DEF DataOK, DirsOK, Dirs
  <2>2. Replaced(D, D2, h, e, NoDir) /\ NoDir.results = {}
    <3>1. D2 = [D EXCEPT ![h][e] = NoDir]
      BY <1>3, <1>11 DEF CtlGetData
    <3>2. NoDir \in [there : BOOLEAN, results : Results] /\ NoDir.results = {}
      BY DEF NoDir, Results
    <3>3. QED
      BY <2>1, <3>1, <3>2, DirSet
  <2>3. /\ fetched' \in [Exps -> Results] /\ fetched'[e] = fetched[e] \cup R
        /\ \A e2 \in Exps : e2 # e => fetched'[e2] = fetched[e2]
    <3>1. fetched' = [fetched EXCEPT ![e] = fetched[e] \cup R]
      BY <1>3, <1>11 DEF CtlGetData
    <3>2. fetched \in [Exps -> Results] /\ fetched[e] \cup R \in Results
      BY <2>1 DEF DirsOK, Results
    <3>3. QED
      BY <2>1, <3>1, <3>2
  <2>4. \A h2 \in Hosts, e2 \in Exps : h2 # h \/ e2 # e => D2[h2][e2] = D[h2][e2]
    BY <2>2 DEF Replaced
  <2>5. D2 \in Dirs /\ D2[h][e].results = {}
    BY <2>2 DEF Replaced
  <2>6. DirsOK'
    <3>1. \A h2 \in Hosts, e2 \in Exps :
            /\ ~D2[h2][e2].there => D2[h2][e2].results = {}
            /\ e2 > e => D2[h2][e2].results = {}
      BY <2>1, <2>4, <2>5 DEF DirsOK
    <3>2. \A e2 \in Exps : e2 > e => fetched'[e2] = {}
      <4>1. \A e2 \in Exps : e2 > e => e2 # e
        BY <2>1 DEF Exps
      <4>2. QED
        BY <2>1, <2>3, <4>1 DEF DirsOK
    <3>3. QED
      BY <1>1, <2>3, <2>5, <3>1, <3>2 DEF DirsOK, Dirs
  <2>7. HaveResults'
    <3>1. /\ \A x \in fetched[e] : x.complete /\ x.group \in 1..(lastGroup - 1)
          /\ \A h2 \in Hosts : \A x \in D[h2][e].results :
               x.complete /\ x.group \in 1..(lastGroup - 1)
      BY <1>6 DEF DataOK, HaveResults, ResultsOK
    <3>2. \A x \in fetched'[e] : x.complete /\ x.group \in 1..(lastGroup - 1)
      BY <2>3, <3>1
    <3>3. \A h2 \in Hosts : \A x \in D2[h2][e].results :
            x.complete /\ x.group \in 1..(lastGroup - 1)
      BY <2>1, <2>4, <2>5, <3>1
    <3>4. QED
      BY <1>1, <3>2, <3>3 DEF HaveResults, ResultsOK
  <2>8. Accounted'
    <3> SUFFICES ASSUME NEW g \in 1..(lastGroup' - 1) PROVE OnHost(g)' \/ Fetched(g)'
      BY DEF Accounted
    <3>1. OnHost(g) \/ Fetched(g)
      BY <1>1, <1>5, <1>6 DEF DataOK, Accounted, AtWork
    <3>2. CASE Fetched(g)
      BY <1>1, <2>3, <3>2 DEF Fetched
    <3>3. CASE OnHost(g)
      <4>1. PICK c, x : /\ c \in ToSet(Clients) \ getDataHostDict
                         /\ x \in D[c][e].results /\ x.group = g
        BY <3>3 DEF OnHost
      <4>2. CASE c = h
        <5>1. x \in fetched'[e]
          BY <2>3, <4>1, <4>2
        <5>2. QED
          BY <1>1, <4>1, <5>1 DEF Fetched
      <4>3. CASE c # h
        <5>1. c \in Hosts
          BY <4>1, ExperimentAssumption DEF ToSet
        <5>2. D2[c][e] = D[c][e] /\ c \notin getDataHostDict'
          BY <1>7, <2>1, <2>4, <4>1, <4>3, <5>1
        <5>3. QED
          BY <1>1, <4>1, <5>2 DEF OnHost
      <4>4. QED
        BY <4>2, <4>3
    <3>4. QED
      BY <3>1, <3>2, <3>3
  <2>9. QED
    BY <1>8, <1>9, <2>6, <2>7, <2>8 DEF DataOK
<1>12. QED
  BY <1>10, <1>11

LEMMA WriteData ==
  ASSUME Timely, InTime, DataOK, UNCHANGED ctlVars, NEW j \in jobs, ClientWrite(j)
  PROVE  DataOK'
<1>1. UNCHANGED <<ctl, lastExp, lastGroup, getDataHostDict, fetched, rows>> /\ CtlOK /\ ScriptsOK
  BY DEF ctlVars, InTime
<1>2. /\ j \in ClientJob /\ j.exp = lastExp /\ j.served /\ j.group \in Nat \ {0}
      /\ j.host \in ToSet(Clients) /\ j.group < lastGroup
  BY <1>1, JobIs, Scripts DEF ClientWrite, Started, ScriptsOK, ScriptsAt, JobOK
<1>3. jobs' = jobs \ {j}
  BY DEF ClientWrite, Becomes
<1>4. ctl.pc > 1 /\ ctl.pc <= S1 + 2
  <2>1. ctl.pc # 1
    BY <1>1 DEF ScriptsOK, ScriptsAt
  <2>2. ~(ctl.pc > S1 + 2)
    BY NoJobsLate
  <2>3. QED
    BY <1>1, <2>1, <2>2, Where
<1>5. Underway /\ lastExp \in Exps /\ lastGroup > 1 /\ getDataHostDict = {}
  <2>1. Underway /\ lastExp \in Exps /\ lastGroup > 1
    BY <1>1, <1>2, <1>4, ExpIs, Where DEF Underway
  <2>2. QED
    BY <1>4, <2>1 DEF DataOK, Asked
<1> PICK D, D2, h, e, x :
      /\ D = dirs /\ D2 = dirs' /\ h = j.host /\ e = lastExp
      /\ x = [group |-> j.group, complete |-> TRUE]
  OBVIOUS
<1>6. D \in Dirs /\ h \in Hosts /\ h \in ToSet(Clients) /\ e \in Exps
  <2>1. ToSet(Clients) \subseteq Hosts
    BY ExperimentAssumption DEF ToSet
  <2>2. QED
    BY <1>2, <1>5, <2>1 DEF DataOK, DirsOK, Dirs
<1>7. x \in Result /\ x.group = j.group /\ x.complete /\ x.group \in 1..(lastGroup - 1)
  <2>1. x.group \in 1..(lastGroup - 1)
    BY <1>1, <1>2, Where
  <2>2. QED
    BY <1>2, <2>1 DEF Result
<1>8. /\ D2 \in Dirs
      /\ D2[h][e].results = D[h][e].results \cup {x} /\ D2[h][e].there = D[h][e].there
      /\ \A h2 \in Hosts, e2 \in Exps : h2 # h \/ e2 # e => D2[h2][e2] = D[h2][e2]
      /\ D[h][e].there
  <2>1. D[h][e].there
    BY <1>2 DEF DataOK, NoOrphan
  <2>2. D2 = [D EXCEPT ![h][e].results = @ \cup {[group |-> j.group, complete |-> j.served]}]
    BY <1>2, <2>1 DEF ClientWrite
  <2>3. [group |-> j.group, complete |-> j.served] = x
    <3>1. j.served = TRUE
      BY <1>2, Scripts
    <3>2. QED
      BY ONLY <3>1, x = [group |-> j.group, complete |-> TRUE]
  <2>4. D2 = [D EXCEPT ![h][e].results = @ \cup {x}]
    BY <2>2, <2>3
  <2>5. Gained(D, D2, h, e, x)
    BY ONLY <1>6, <1>7, <2>4, DirGains
  <2>6. QED
    BY ONLY <2>1, <2>5 DEF Gained
<1>9. \A h2 \in Hosts, e2 \in Exps :
        /\ D2[h2][e2].there = D[h2][e2].there
        /\ D[h2][e2].results \subseteq D2[h2][e2].results
        /\ D2[h2][e2].results \subseteq D[h2][e2].results \cup {x}
        /\ e2 # e => D2[h2][e2].results = D[h2][e2].results
  <2> TAKE h2 \in Hosts, e2 \in Exps
  <2>1. CASE h2 = h /\ e2 = e
    BY ONLY <1>8, <2>1
  <2>2. CASE h2 # h \/ e2 # e
    <3>1. D2[h2][e2] = D[h2][e2]
      BY ONLY <1>8, <2>2, h2 \in Hosts, e2 \in Exps
    <3>2. QED
      BY ONLY <3>1
  <2>3. QED
    BY <2>1, <2>2
<1>10. DirsOK'
  <2>1. \A h2 \in Hosts, e2 \in Exps : ~D2[h2][e2].there => D2[h2][e2].results = {}
    <3> TAKE h2 \in Hosts, e2 \in Exps
    <3>1. CASE h2 = h /\ e2 = e
      BY <1>8, <3>1
    <3>2. CASE h2 # h \/ e2 # e
      <4>1. D2[h2][e2] = D[h2][e2]
        BY <1>8, <3>2
      <4>2. QED
        BY <4>1 DEF DataOK, DirsOK
    <3>3. QED
      BY <3>1, <3>2
  <2>2. \A h2 \in Hosts, e2 \in Exps : e2 > e => D2[h2][e2].results = {}
    <3>1. \A e2 \in Exps : e2 > e => e2 # e
      BY <1>6 DEF Exps
    <3>2. QED
      BY <1>9, <3>1 DEF DataOK, DirsOK
  <2>3. QED
    BY <1>1, <1>8, <2>1, <2>2 DEF DataOK, DirsOK, Dirs
<1>11. HaveResults'
  <2>1. /\ \A y \in fetched[e] : y.complete /\ y.group \in 1..(lastGroup - 1)
        /\ \A h2 \in Hosts : \A y \in D[h2][e].results :
             y.complete /\ y.group \in 1..(lastGroup - 1)
    BY <1>5 DEF DataOK, HaveResults, ResultsOK
  <2>2. \A h2 \in Hosts : \A y \in D2[h2][e].results :
          y.complete /\ y.group \in 1..(lastGroup - 1)
    BY <1>6, <1>7, <1>9, <2>1
  <2>3. QED
    BY <1>1, <2>1, <2>2 DEF HaveResults, ResultsOK
<1>12. Accounted'
  <2> SUFFICES ASSUME NEW g \in 1..(lastGroup' - 1)
               PROVE  (AtWork(g) \/ OnHost(g) \/ Fetched(g))'
    BY DEF Accounted
  <2>1. AtWork(g) \/ OnHost(g) \/ Fetched(g)
    BY <1>1, <1>5 DEF DataOK, Accounted
  <2>2. CASE AtWork(g)
    <3>1. PICK k \in jobs : k.script = "doClient" /\ k.group = g
      BY <2>2 DEF AtWork
    <3>2. CASE k = j
      <4>1. x \in D2[h][e].results /\ x.group = g
        BY <1>7, <1>8, <3>1, <3>2
      <4>2. h \in ToSet(Clients) \ getDataHostDict'
        BY <1>1, <1>5, <1>6
      <4>3. QED
        BY <1>1, <4>1, <4>2 DEF OnHost
    <3>3. CASE k # j
      BY <1>3, <3>1, <3>3 DEF AtWork
    <3>4. QED
      BY <3>2, <3>3
  <2>3. CASE OnHost(g)
    <3>1. PICK c, y : /\ c \in ToSet(Clients) \ getDataHostDict
                       /\ y \in D[c][e].results /\ y.group = g
      BY <2>3 DEF OnHost
    <3>2. c \in Hosts
      BY <3>1, ExperimentAssumption DEF ToSet
    <3>3. y \in D2[c][e].results
      BY <1>6, <1>9, <3>1, <3>2
    <3>4. QED
      BY <1>1, <3>1, <3>3 DEF OnHost
  <2>4. CASE Fetched(g)
    BY <1>1, <2>4 DEF Fetched
  <2>5. QED
    BY <2>1, <2>2, <2>3, <2>4
<1>13. Asked' /\ RowComplete'
  BY <1>1 DEF DataOK, Asked, RowComplete
<1>14. NoOrphan'
  <2> SUFFICES ASSUME NEW k \in jobs PROVE D2[k.host][k.exp].there
    BY <1>3 DEF NoOrphan
  <2>1. k.host \in Hosts /\ k.exp = e
    <3>1. ToSet(Clients) \subseteq Hosts /\ ToSet(Servers) \subseteq Hosts
      BY ExperimentAssumption DEF ToSet
    <3>2. k.exp = lastExp /\ (k \in ServerJob \/ k \in ClientJob)
      BY <1>1, JobIs
    <3>3. QED
      BY <3>1, <3>2, Scripts
  <2>2. D[k.host][k.exp].there
    BY DEF DataOK, NoOrphan
  <2>3. QED
    BY <1>6, <1>9, <2>1, <2>2
<1>15. QED
  BY <1>10, <1>11, <1>12, <1>13, <1>14 DEF DataOK

LEMMA InitData ==
  ASSUME Timely, Init
  PROVE  DataOK
<1>1. /\ ctl.pc = 1 /\ lastExp = 0 /\ lastGroup = 1 /\ getDataHostDict = {}
      /\ fetched = [e \in Exps |-> {}] /\ rows = {} /\ jobs = {}
      /\ dirs = [h \in Hosts |-> [e \in Exps |-> NoDir]]
  BY DEF Init
<1>2. NoDir \in [there : BOOLEAN, results : Results] /\ NoDir.results = {}
      /\ {} \in Results
  BY DEF NoDir, Results
<1>3. DirsOK
  <2>1. dirs \in [Hosts -> [Exps -> [there : BOOLEAN, results : Results]]]
        /\ fetched \in [Exps -> Results]
    BY <1>1, <1>2
  <2>2. \A h \in Hosts, e \in Exps : dirs[h][e].results = {}
    BY <1>1, <1>2
  <2>3. \A e \in Exps : fetched[e] = {}
    BY <1>1
  <2>4. QED
    BY <2>1, <2>2, <2>3 DEF DirsOK
<1>4. ~Underway
  BY <1>1 DEF Underway
<1>5. Asked
  <2>1. ~(lastGroup > 1) /\ \A p \in (S1 + 2)..G1 : ~(p < ctl.pc)
    BY <1>1, Positions DEF Places
  <2>2. QED
    BY <2>1 DEF Asked
<1>6. QED
  BY <1>1, <1>3, <1>4, <1>5 DEF DataOK, HaveResults, Accounted, NoOrphan, RowComplete

(* What the hosts and the clock do to the scripts, as HostsData wants it.  *)
LEMMA HostStepData ==
  ASSUME Timely, InTime, DataOK, UNCHANGED ctlVars,
         NEW j \in jobs, j.left = 0, ServerStep(j) \/ ClientStep(j)
  PROVE  DataOK'
<1>1. UNCHANGED <<ctl, lastExp, lastGroup, getDataHostDict, fetched, rows>>
  BY DEF ctlVars
<1>2. CASE ServerStep(j)
  <2>1. jobs' = jobs \ {j} /\ dirs' = dirs /\ j.script # "doClient"
    BY <1>2, ServerEnds
  <2>2. QED
    BY <1>1, <2>1, HostsData
<1>3. ASSUME NEW k, k.host = j.host, k.exp = j.exp, k.script = "doClient", k.group = j.group,
             jobs' = (jobs \ {j}) \cup {k}, dirs' = dirs
      PROVE  DataOK'
  BY <1>1, <1>3, HostsData
<1>4. CASE ClientStart(j)
  <2> PICK k : k = Goes(j, "sleep", Transfer + 12 * Second)
    OBVIOUS
  <2>1. Gone(k, j, "sleep", Transfer + 12 * Second)
    <3>1. j \in ClientJob
      BY <1>4, JobIs DEF ClientStart, InTime
    <3>2. QED
      BY <3>1, GoesIs, Numbers
  <2>2. jobs' = (jobs \ {j}) \cup {k} /\ dirs' = dirs
    BY <1>4, StartIs DEF ClientStart
  <2>3. QED
    BY <1>3, <2>1, <2>2 DEF Gone
<1>5. CASE ClientStats(j) \/ ClientRead(j)
  <2>1. PICK phase, n : /\ jobs' = (jobs \ {j}) \cup {Goes(j, phase, n)} /\ n \in Nat
                        /\ phase \in {"sleep", "stats1", "write"}
    <3>1. PICK phase, n :
            /\ jobs' = (jobs \ {j}) \cup {Goes(j, phase, n)} /\ n \in Nat
            /\ \/ j.phase = "sleep" /\ phase = "stats1" /\ n <= StatsMax
               \/ j.phase = "stats1" /\ phase = "write" /\ n <= ProcessMax
      BY <1>5, GoIs
    <3>2. phase \in {"sleep", "stats1", "write"}
      BY <3>1
    <3>3. QED
      BY <3>1, <3>2
  <2> PICK k : k = Goes(j, phase, n)
    OBVIOUS
  <2>2. Gone(k, j, phase, n)
    <3>1. j \in ClientJob
      BY <1>5, JobIs DEF ClientStats, ClientRead, InTime
    <3>2. QED
      BY <2>1, <3>1, GoesIs
  <2>3. jobs' = (jobs \ {j}) \cup {k} /\ dirs' = dirs
    BY <1>5, <2>1 DEF ClientStats, ClientRead
  <2>4. QED
    BY <1>3, <2>2, <2>3 DEF Gone
<1>6. CASE ClientWrite(j)
  BY <1>6, WriteData
<1>7. QED
  BY <1>2, <1>4, <1>5, <1>6 DEF ClientStep

LEMMA TickData ==
  ASSUME Timely, InTime, DataOK, Tick
  PROVE  DataOK'
<1>1. UNCHANGED <<lastExp, lastGroup, getDataHostDict, fetched, rows, dirs>>
      /\ jobs' = Less(jobs) /\ (\A x \in jobs \cup flows : x.left > 0)
  BY DEF Tick
<1>2. ctl'.pc = ctl.pc
  <2>1. ctl' = [ctl EXCEPT !.left = ctl.left - 1] /\ CtlOK
    BY DEF Tick, InTime
  <2>2. QED
    BY <2>1 DEF CtlOK
<1>3. jobs' = {Dec(k) : k \in jobs}
  BY <1>1 DEF Less, Dec
<1>4. \A k \in jobs : /\ Dec(k).host = k.host /\ Dec(k).exp = k.exp
                      /\ Dec(k).script = k.script
                      /\ k.script = "doClient" => Dec(k).group = k.group
  <2> TAKE k \in jobs
  <2>1. k.left > 0 /\ (k \in ServerJob \/ k \in ClientJob)
    BY <1>1, JobIs DEF InTime
  <2>2. QED
    BY <2>1, DecIs, Scripts
<1>5. \A k \in jobs' : \E j \in jobs : k.host = j.host /\ k.exp = j.exp
  BY <1>3, <1>4
<1>6. \A j \in jobs : j.script = "doClient" =>
        \E k \in jobs' : k.script = "doClient" /\ k.group = j.group
  BY <1>3, <1>4
<1>7. QED
  BY <1>1, <1>2, <1>5, <1>6, HostsData

LEMMA StepData ==
  ASSUME Timely, InTime, InTime', DataOK, [Next]_vars
  PROVE  DataOK'
<1>1. CASE CtlStep
  BY <1>1, ServerData, ClientData, WaitData, GetDataData, ProcessData DEF CtlStep
<1>2. CASE ScriptStep
  BY <1>2, HostStepData DEF ScriptStep
<1>3. CASE FlowEnds
  <2>1. UNCHANGED <<ctl, lastExp, lastGroup, getDataHostDict, fetched, rows, dirs, jobs>>
    BY <1>3 DEF FlowEnds, ctlVars
  <2>2. QED
    BY <2>1, HostsData
<1>4. CASE Tick
  BY <1>4, TickData
<1>5. CASE UNCHANGED vars
  <2>1. UNCHANGED <<ctl, lastExp, lastGroup, getDataHostDict, fetched, rows, dirs, jobs>>
    BY <1>5 DEF vars, ctlVars, hostVars
  <2>2. QED
    BY <2>1, HostsData
<1>6. QED
  BY <1>1, <1>2, <1>3, <1>4, <1>5 DEF Next

LEMMA AlwaysData ==
  ASSUME Timely
  PROVE  Spec => []DataOK
<1>1. Init => DataOK
  BY InitData
<1>2. InTime /\ InTime' /\ DataOK /\ [Next]_vars => DataOK'
  BY StepData
<1>3. Spec => []InTime
  BY AlwaysInTime
<1>4. QED
  BY <1>1, <1>2, <1>3, PTL DEF Spec

(* A row of exp.csv has the complete results of all groups that were       *)
(* started: for any number of servers, clients, requests and repetitions,  *)
(* if what the scripts take is within Timely.                              *)
THEOREM RowsComplete == Timely => (Spec => []RowComplete)
<1> SUFFICES ASSUME Timely PROVE Spec => []RowComplete
  OBVIOUS
<1>1. Spec => []DataOK
  BY AlwaysData
<1>2. DataOK => RowComplete
  BY DEF DataOK
<1>3. QED
  BY <1>1, <1>2, PTL

(* No script is at work in a directory that was fetched and removed.       *)
THEOREM NoScriptOrphaned == Timely => (Spec => []NoOrphan)
<1> SUFFICES ASSUME Timely PROVE Spec => []NoOrphan
  OBVIOUS
<1>1. Spec => []DataOK
  BY AlwaysData
<1>2. DataOK => NoOrphan
  BY DEF DataOK
<1>3. QED
  BY <1>1, <1>2, PTL
=============================================================================
