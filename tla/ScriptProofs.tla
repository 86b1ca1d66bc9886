---------------------------- MODULE ScriptProofs ----------------------------
(***************************************************************************)
(* Proofs about Script for any lines, library and functions.               *)
(*                                                                         *)
(* Each block has an owner, the function in which it was read (None for    *)
(* the script).  A stored FORLOOP leads to a later block of the same owner,*)
(* a stored RUN to a function of a lower level; so the loops being run are *)
(* in an order in which none comes twice, although the globals that        *)
(* describe them also serve the blocks being read.                         *)
(*                                                                         *)
(* In what follows o has the owners of the blocks, L is forLoopList, A the *)
(* blocks in progress from the outermost (Act), S the calls and D the      *)
(* dictionaries: operators of these are the same in both states of a step. *)
(***************************************************************************)
EXTENDS Script, FiniteSetTheorems, TLAPS

(* A sequence, of whatever elements.                                       *)
IsSeq(s) == s \in Seq({s[n] : n \in 1..Len(s)})

Owner == Funs \cup {None}
Lower(x, y) == y \in Funs /\ MayRun(x, y)

AllFiles(S) == \A k \in 1..Len(S) : S[k].kind = "file"

(* The loops among the first k calls.                                      *)
Loops(S, k) == Cardinality({i \in 1..k : S[i].kind = "loop"})

(* The blocks in progress as forDict, forStack and forCount tell them.     *)
Act(fd, fs, fc) ==
  [j \in 1..fc |-> IF j = fc THEN fd ELSE fs[Len(fs) - (fc - 1) + j]]

(* A loop of block e may be run inside one of block d, not the reverse.    *)
Inner(o, d, e) == Lower(o[d], o[e]) \/ (o[d] = o[e] /\ d < e)

(* A line stored in function x, in a block d of it.                        *)
Stored(o, L, line, x, d) ==
  \/ line.op \in {"SET", "DO"}
  \/ line.op = "RUN" /\ Lower(x, line.name)
  \/ /\ line.op = "FORLOOP" /\ line.n \in 1..Len(L)
     /\ L[line.n] > d /\ o[L[line.n]] = x

Body(o, L, lines, x, d) ==
  IsSeq(lines) /\ \A n \in 1..Len(lines) : Stored(o, L, lines[n], x, d)

Fields == {"name", "term", "lines", "varIndx", "lineIndx"}

Dict(o, L, dict, d) ==
  /\ DOMAIN dict = Fields /\ dict.lineIndx \in Nat
  /\ Body(o, L, dict.lines, o[d], d)

Dicts(o, L, D) ==
  /\ IsSeq(D)
  /\ \A d \in 1..Len(D) : Dict(o, L, D[d], d)

(* The calls: files are read outside of everything else, and a function is *)
(* of a lower level than the owners of all loops it is run in.             *)
FileFrame(S, k) ==
  /\ S[k].kind = "file" /\ S[k].lines = Library /\ S[k].pos \in Nat
  /\ DOMAIN S[k] = {"kind", "lines", "pos", "args"}
  /\ \A i \in 1..k : S[i].kind = "file"

RunFrame(o, L, A, S, k) ==
  /\ S[k].kind = "run" /\ S[k].pos \in Nat
  /\ DOMAIN S[k] = {"kind", "lines", "pos", "reps", "ca", "cas"}
  /\ \E f \in Funs :
       /\ Body(o, L, S[k].lines, f, 0)
       /\ \A j \in 1..Loops(S, k) : Lower(o[A[j]], f)

Frames(o, L, A, S) ==
  /\ IsSeq(S)
  /\ \A k \in 1..Len(S) :
       S[k].kind = "loop" \/ FileFrame(S, k) \/ RunFrame(o, L, A, S, k)

(* The globals about blocks, of n dictionaries.                            *)
Stacks(n, L, fs, fd, fc) ==
  /\ IsSeq(L) /\ IsSeq(fs)
  /\ \A k \in 1..Len(L) : L[k] \in 1..n
  /\ \A k \in 1..Len(fs) : fs[k] \in 1..n
  /\ fd # None => fd \in 1..n
  /\ fc \in Nat
  /\ fc > 0 => fd # None /\ Len(fs) >= fc - 1

(* Blocks being read are nested as they were opened and are not yet in     *)
(* forLoopList; loops being run are as many as the calls that run one.     *)
Open(o, L, A, fc, x) ==
  /\ fc >= 1
  /\ \A j \in 1..fc : o[A[j]] = x /\ \A k \in 1..Len(L) : L[k] # A[j]
  /\ \A i, j \in 1..fc : i < j => A[i] < A[j]

Looping(o, A, fc, S) ==
  /\ fc = Loops(S, Len(S))
  /\ \A i, j \in 1..fc : i < j => Inner(o, A[i], A[j])

Blocks(o, L, A, fc, flag, x, S) ==
  /\ flag \/ x # None => AllFiles(S)
  /\ IF flag THEN Open(o, L, A, fc, x) ELSE Looping(o, A, fc, S)

Bodies(o, L, x, lines, dict) ==
  /\ x # None => Body(o, L, lines, x, 0)
  /\ \A f \in Funs : dict[f] # None => Body(o, L, dict[f], f, 0)

Scalars ==
  /\ exited \in BOOLEAN /\ forDefFlag \in BOOLEAN /\ sourced \in BOOLEAN
  /\ forloopCounter \in 0..ForloopMax
  /\ funName \in Owner
  /\ DOMAIN varDict = Vars /\ DOMAIN funDict = Funs

Acts == Act(forDict, forStack, forCount)

Good(o, S, D) ==
  /\ o \in [1..Len(D) -> Owner]
  /\ Dicts(o, forLoopList, D)
  /\ Frames(o, forLoopList, Acts, S)
  /\ Stacks(Len(D), forLoopList, forStack, forDict, forCount)
  /\ Blocks(o, forLoopList, Acts, forCount, forDefFlag, funName, S)
  /\ Bodies(o, forLoopList, funName, funLineList, funDict)
  /\ Scalars

IInv == \E o \in [1..Len(dicts) -> Owner] : Good(o, stack, dicts)

-----------------------------------------------------------------------------
(* Sequences.                                                              *)

LEMMA SeqFacts ==
  ASSUME NEW s, IsSeq(s)
  PROVE  Len(s) \in Nat /\ DOMAIN s = 1..Len(s)
BY DEF IsSeq

LEMMA SeqIs ==
  ASSUME NEW T, NEW s \in Seq(T)
  PROVE  IsSeq(s)
BY DEF IsSeq

LEMMA AppendFacts ==
  ASSUME NEW s, NEW e, IsSeq(s)
  PROVE  /\ IsSeq(Append(s, e)) /\ Len(Append(s, e)) = Len(s) + 1
         /\ \A n \in 1..Len(s) : Append(s, e)[n] = s[n]
         /\ Append(s, e)[Len(s) + 1] = e
<1> DEFINE T == {s[n] : n \in 1..Len(s)} \cup {e}
<1>1. s \in Seq(T)
  BY DEF IsSeq
<1>2. e \in T
  OBVIOUS
<1> HIDE DEF T
<1>3. Append(s, e) \in Seq(T)
  BY <1>1, <1>2
<1>4. IsSeq(Append(s, e))
  BY <1>3, SeqIs
<1>5. QED
  BY <1>1, <1>2, <1>4

LEMMA FrontSeq ==
  ASSUME NEW T, NEW s \in Seq(T), NEW m \in Nat, m = Len(s) - 1
  PROVE  /\ Front(s) \in Seq(T) /\ Len(Front(s)) = m
         /\ \A n \in 1..m : Front(s)[n] = s[n]
<1>1. Front(s) = SubSeq(s, 1, m)
  BY DEF Front
<1>2. /\ SubSeq(s, 1, m) \in Seq(T) /\ Len(SubSeq(s, 1, m)) = m
      /\ \A n \in 1..m : SubSeq(s, 1, m)[n] = s[n]
  OBVIOUS
<1>3. QED
  BY <1>1, <1>2

LEMMA FrontFacts ==
  ASSUME NEW s, IsSeq(s), Len(s) > 0
  PROVE  /\ IsSeq(Front(s)) /\ Len(Front(s)) = Len(s) - 1
         /\ \A n \in 1..(Len(s) - 1) : Front(s)[n] = s[n]
         /\ Last(s) = s[Len(s)]
<1> DEFINE T == {s[n] : n \in 1..Len(s)}
<1>1. s \in Seq(T)
  BY DEF IsSeq
<1> HIDE DEF T
<1>2. PICK m \in Nat : m = Len(s) - 1
  BY <1>1
<1>3. /\ Front(s) \in Seq(T) /\ Len(Front(s)) = m
      /\ \A n \in 1..m : Front(s)[n] = s[n]
  BY <1>1, <1>2, FrontSeq
<1>4. IsSeq(Front(s))
  BY <1>3, SeqIs
<1>5. QED
  BY <1>2, <1>3, <1>4 DEF Last

LEMMA ExceptFacts ==
  ASSUME NEW s, IsSeq(s), NEW d \in 1..Len(s), NEW e
  PROVE  LET t == [s EXCEPT ![d] = e]
         IN /\ IsSeq(t) /\ Len(t) = Len(s) /\ t[d] = e
            /\ \A n \in 1..Len(s) : n # d => t[n] = s[n]
<1> DEFINE T == {s[n] : n \in 1..Len(s)} \cup {e}
           t == [s EXCEPT ![d] = e]
<1>1. s \in Seq(T)
  BY DEF IsSeq
<1>2. e \in T
  OBVIOUS
<1> HIDE DEF T
<1>3. t \in Seq(T) /\ Len(t) = Len(s)
  BY <1>1, <1>2
<1>4. IsSeq(t)
  BY <1>3, SeqIs
<1>5. /\ t[d] = e
      /\ \A n \in 1..Len(s) : n # d => t[n] = s[n]
  BY <1>1
<1>6. QED
  BY <1>3, <1>4, <1>5

(***************************************************************************)
(* Counting loops                                                          *)
(***************************************************************************)
LEMMA LoopsSame ==
  ASSUME NEW S, NEW T, NEW k,
         \A i \in 1..k : S[i].kind = T[i].kind
  PROVE  Loops(S, k) = Loops(T, k)
<1>1. {i \in 1..k : S[i].kind = "loop"} = {i \in 1..k : T[i].kind = "loop"}
  OBVIOUS
<1>2. QED
  BY <1>1 DEF Loops

LEMMA LoopsBound ==
  ASSUME NEW S, NEW k \in Nat, NEW m \in Nat, k <= m
  PROVE  Loops(S, k) \in Nat /\ Loops(S, k) <= Loops(S, m)
<1> DEFINE K == {i \in 1..k : S[i].kind = "loop"}
           M == {i \in 1..m : S[i].kind = "loop"}
<1>1. IsFiniteSet(1..m) /\ IsFiniteSet(1..k)
  BY FS_Interval
<1>2. IsFiniteSet(M)
  BY <1>1, FS_Subset
<1>3. K \subseteq M
  OBVIOUS
<1>4. QED
  BY <1>2, <1>3, FS_Subset, FS_CardinalityType DEF Loops

LEMMA LoopsNext ==
  ASSUME NEW S, NEW k \in Nat
  PROVE  Loops(S, k + 1) = Loops(S, k) + (IF S[k + 1].kind = "loop" THEN 1 ELSE 0)
<1> DEFINE K == {i \in 1..k : S[i].kind = "loop"}
           M == {i \in 1..(k + 1) : S[i].kind = "loop"}
<1>1. IsFiniteSet(K) /\ k + 1 \notin K /\ Cardinality(K) \in Nat
  <2>1. IsFiniteSet(1..k)
    BY FS_Interval
  <2>2. IsFiniteSet(K)
    BY <2>1, FS_Subset
  <2>3. QED
    BY <2>2, FS_CardinalityType
<1>2. CASE S[k + 1].kind = "loop"
  <2>1. M = K \cup {k + 1}
    BY <1>2
  <2>2. Cardinality(M) = Cardinality(K) + 1
    BY <1>1, <2>1, FS_AddElement
  <2>3. QED
    BY <1>2, <2>2 DEF Loops
<1>3. CASE S[k + 1].kind # "loop"
  <2>1. M = K
    BY <1>3
  <2>2. QED
    BY <1>1, <1>3, <2>1 DEF Loops
<1>4. QED
  BY <1>2, <1>3

LEMMA LoopsNone ==
  ASSUME NEW S, AllFiles(S)
  PROVE  Loops(S, Len(S)) = 0
<1>1. {i \in 1..Len(S) : S[i].kind = "loop"} = {}
  BY DEF AllFiles
<1>2. QED
  BY <1>1, FS_EmptySet DEF Loops

(***************************************************************************)
(* Blocks and forLoopList only grow.                                       *)
(***************************************************************************)
Grown(o, n, L, p, m, M) ==
  /\ n \in Nat /\ m \in Nat /\ n <= m
  /\ o \in [1..n -> Owner] /\ p \in [1..m -> Owner]
  /\ \A d \in 1..n : p[d] = o[d]
  /\ IsSeq(L) /\ IsSeq(M) /\ Len(L) <= Len(M)
  /\ \A k \in 1..Len(L) : L[k] \in 1..n /\ M[k] = L[k]

LEMMA StoredKept ==
  ASSUME NEW o, NEW n, NEW L, NEW p, NEW m, NEW M, Grown(o, n, L, p, m, M),
         NEW line, NEW x, NEW d, Stored(o, L, line, x, d)
  PROVE  Stored(p, M, line, x, d)
<1>1. CASE line.op = "FORLOOP" /\ line.n \in 1..Len(L)
           /\ L[line.n] > d /\ o[L[line.n]] = x
  <2>1. Len(L) \in Nat /\ Len(M) \in Nat /\ Len(L) <= Len(M)
    BY SeqFacts DEF Grown
  <2>2. line.n \in 1..Len(M) /\ M[line.n] = L[line.n] /\ p[L[line.n]] = o[L[line.n]]
    BY <1>1, <2>1 DEF Grown
  <2>3. QED
    BY <1>1, <2>2 DEF Stored
<1>2. QED
  BY <1>1 DEF Stored

LEMMA BodyKept ==
  ASSUME NEW o, NEW n, NEW L, NEW p, NEW m, NEW M, Grown(o, n, L, p, m, M),
         NEW lines, NEW x, NEW d, Body(o, L, lines, x, d)
  PROVE  Body(p, M, lines, x, d)
BY StoredKept DEF Body

LEMMA DictsKept ==
  ASSUME NEW o, NEW L, NEW p, NEW m, NEW M, NEW D,
         Grown(o, Len(D), L, p, m, M), Dicts(o, L, D)
  PROVE  Dicts(p, M, D)
<1>1. ASSUME NEW d \in 1..Len(D) PROVE Dict(p, M, D[d], d)
  <2>1. Dict(o, L, D[d], d) /\ p[d] = o[d]
    BY DEF Dicts, Grown
  <2>2. Body(p, M, D[d].lines, o[d], d)
    BY <2>1, BodyKept DEF Dict
  <2>3. QED
    BY <2>1, <2>2 DEF Dict
<1>2. QED
  BY <1>1 DEF Dicts

LEMMA BodiesKept ==
  ASSUME NEW o, NEW n, NEW L, NEW p, NEW m, NEW M, Grown(o, n, L, p, m, M),
         NEW x, NEW lines, NEW dict, Bodies(o, L, x, lines, dict)
  PROVE  Bodies(p, M, x, lines, dict)
BY BodyKept DEF Bodies

(* Calls keep their place when the blocks in progress among them do.       *)
LEMMA FramesKept ==
  ASSUME NEW o, NEW n, NEW L, NEW p, NEW m, NEW M, Grown(o, n, L, p, m, M),
         NEW A, NEW B, NEW S, Frames(o, L, A, S),
         \A j \in 1..Loops(S, Len(S)) : A[j] \in 1..n /\ B[j] = A[j]
  PROVE  Frames(p, M, B, S)
<1>1. ASSUME NEW k \in 1..Len(S), RunFrame(o, L, A, S, k)
      PROVE  RunFrame(p, M, B, S, k)
  <2>1. PICK f \in Funs : Body(o, L, S[k].lines, f, 0)
                          /\ \A j \in 1..Loops(S, k) : Lower(o[A[j]], f)
    BY <1>1 DEF RunFrame
  <2>2. Body(p, M, S[k].lines, f, 0)
    BY <2>1, BodyKept
  <2>3. Len(S) \in Nat
    BY SeqFacts DEF Frames
  <2>4. /\ Loops(S, k) \in Nat /\ Loops(S, Len(S)) \in Nat
        /\ Loops(S, k) <= Loops(S, Len(S))
    BY <2>3, LoopsBound
  <2>5. ASSUME NEW j \in 1..Loops(S, k) PROVE Lower(p[B[j]], f)
    <3>1. j \in 1..Loops(S, Len(S))
      BY <2>4
    <3>2. B[j] = A[j] /\ A[j] \in 1..n
      BY <3>1
    <3>3. p[A[j]] = o[A[j]]
      BY <3>2 DEF Grown
    <3>4. QED
      BY <2>1, <3>2, <3>3
  <2>6. QED
    BY <1>1, <2>2, <2>5 DEF RunFrame
<1>2. QED
  BY <1>1 DEF Frames

(***************************************************************************)
(* The blocks in progress when one is added or ends.                       *)
(***************************************************************************)
LEMMA ActIn ==
  ASSUME NEW n, NEW L, NEW fs, NEW fd, NEW fc, Stacks(n, L, fs, fd, fc),
         NEW j \in 1..fc
  PROVE  Act(fd, fs, fc)[j] \in 1..n
<1>1. fc \in Nat /\ fc > 0 /\ fd \in 1..n /\ Len(fs) >= fc - 1 /\ Len(fs) \in Nat
  BY SeqFacts DEF Stacks
<1>2. CASE j = fc
  BY <1>1, <1>2 DEF Act
<1>3. CASE j # fc
  <2>1. Len(fs) - (fc - 1) + j \in 1..Len(fs)
    BY <1>1, <1>3
  <2>2. QED
    BY <1>1, <1>3, <2>1 DEF Act, Stacks
<1>4. QED
  BY <1>2, <1>3

(* A block d is pushed: forStack gets forDict, or nothing is in progress.  *)
LEMMA ActPush ==
  ASSUME NEW n, NEW L, NEW fs, NEW fd, NEW fc, Stacks(n, L, fs, fd, fc),
         NEW gs, NEW d, fc > 0 => gs = Append(fs, fd)
  PROVE  /\ \A j \in 1..fc : Act(d, gs, fc + 1)[j] = Act(fd, fs, fc)[j]
         /\ Act(d, gs, fc + 1)[fc + 1] = d
<1>1. fc \in Nat
  BY DEF Stacks
<1>2. ASSUME NEW j \in 1..fc PROVE Act(d, gs, fc + 1)[j] = Act(fd, fs, fc)[j]
  <2>1. fc > 0 /\ gs = Append(fs, fd) /\ Len(fs) >= fc - 1 /\ Len(fs) \in Nat
    BY <1>1, <1>2, SeqFacts DEF Stacks
  <2>2. /\ Len(gs) = Len(fs) + 1 /\ gs[Len(fs) + 1] = fd
        /\ \A k \in 1..Len(fs) : gs[k] = fs[k]
    BY <2>1, AppendFacts DEF Stacks
  <2>3. Act(d, gs, fc + 1)[j] = gs[Len(gs) - fc + j]
    BY <1>1, <1>2 DEF Act
  <2>4. CASE j = fc
    <3>1. Len(gs) - fc + j = Len(fs) + 1
      BY <1>1, <2>1, <2>2, <2>4
    <3>2. QED
      BY <2>2, <2>3, <2>4, <3>1 DEF Act
  <2>5. CASE j # fc
    <3>1. /\ Len(gs) - fc + j = Len(fs) - (fc - 1) + j
          /\ Len(fs) - (fc - 1) + j \in 1..Len(fs)
      BY <1>1, <2>1, <2>2, <2>5
    <3>2. QED
      BY <2>2, <2>3, <2>5, <3>1 DEF Act
  <2>6. QED
    BY <2>4, <2>5
<1>3. fc + 1 \in 1..(fc + 1)
  BY <1>1
<1>4. Act(d, gs, fc + 1)[fc + 1] = d
  BY <1>3 DEF Act
<1>5. QED
  BY <1>2, <1>4

LEMMA StacksPush ==
  ASSUME NEW n, NEW m, NEW L, NEW fs, NEW fd, NEW fc, Stacks(n, L, fs, fd, fc),
         n \in Nat, m \in Nat, n <= m,
         NEW M, IsSeq(M), \A k \in 1..Len(M) : M[k] \in 1..m,
         NEW gs, NEW d \in 1..m,
         \/ gs = Append(fs, fd) /\ fd # None
         \/ gs = fs /\ fc = 0,
         None \notin Nat
  PROVE  Stacks(m, M, gs, d, fc + 1)
<1>1. fc \in Nat /\ IsSeq(fs) /\ Len(fs) \in Nat
  BY SeqFacts DEF Stacks
<1>2. IsSeq(gs) /\ Len(gs) >= fc /\ \A k \in 1..Len(gs) : gs[k] \in 1..m
  <2>1. CASE gs = fs /\ fc = 0
    BY <1>1, <2>1 DEF Stacks
  <2>2. CASE gs = Append(fs, fd) /\ fd # None
    <3>1. /\ IsSeq(gs) /\ Len(gs) = Len(fs) + 1 /\ gs[Len(fs) + 1] = fd
          /\ \A k \in 1..Len(fs) : gs[k] = fs[k]
      BY <1>1, <2>2, AppendFacts
    <3>2. fd \in 1..m /\ \A k \in 1..Len(fs) : fs[k] \in 1..m
      BY <2>2 DEF Stacks
    <3>3. Len(gs) >= fc
      BY <1>1, <3>1 DEF Stacks
    <3>4. QED
      BY <1>1, <3>1, <3>2, <3>3
  <2>3. QED
    BY <2>1, <2>2
<1>3. d # None
  OBVIOUS
<1>4. QED
  BY <1>1, <1>2, <1>3 DEF Stacks

LEMMA ActPop ==
  ASSUME NEW n, NEW L, NEW fs, NEW fd, NEW fc, Stacks(n, L, fs, fd, fc), fc > 1,
         n \in Nat, None \notin Nat,
         NEW M, IsSeq(M), \A k \in 1..Len(M) : M[k] \in 1..n
  PROVE  /\ Stacks(n, M, Front(fs), Last(fs), fc - 1)
         /\ \A j \in 1..(fc - 1) :
              Act(Last(fs), Front(fs), fc - 1)[j] = Act(fd, fs, fc)[j]
<1>1. fc \in Nat /\ IsSeq(fs) /\ Len(fs) \in Nat /\ Len(fs) >= fc - 1 /\ Len(fs) > 0
  BY SeqFacts DEF Stacks
<1>2. /\ IsSeq(Front(fs)) /\ Len(Front(fs)) = Len(fs) - 1
      /\ \A k \in 1..(Len(fs) - 1) : Front(fs)[k] = fs[k]
      /\ Last(fs) = fs[Len(fs)]
  BY <1>1, FrontFacts
<1>3. \A k \in 1..Len(fs) : fs[k] \in 1..n
  BY DEF Stacks
<1>4. Last(fs) \in 1..n /\ Last(fs) # None
  BY <1>1, <1>2, <1>3
<1>5. Stacks(n, M, Front(fs), Last(fs), fc - 1)
  BY <1>1, <1>2, <1>3, <1>4 DEF Stacks
<1>6. ASSUME NEW j \in 1..(fc - 1)
      PROVE  Act(Last(fs), Front(fs), fc - 1)[j] = Act(fd, fs, fc)[j]
  <2>1. Act(fd, fs, fc)[j] = fs[Len(fs) - (fc - 1) + j]
    BY <1>1 DEF Act
  <2>2. CASE j = fc - 1
    <3>1. Len(fs) - (fc - 1) + j = Len(fs)
      BY <1>1, <2>2
    <3>2. QED
      BY <1>1, <1>2, <2>1, <2>2, <3>1 DEF Act
  <2>3. CASE j # fc - 1
    <3>1. /\ Len(Front(fs)) - (fc - 1 - 1) + j = Len(fs) - (fc - 1) + j
          /\ Len(fs) - (fc - 1) + j \in 1..(Len(fs) - 1)
      BY <1>1, <1>2, <2>3
    <3>2. Act(Last(fs), Front(fs), fc - 1)[j] = Front(fs)[Len(Front(fs)) - (fc - 1 - 1) + j]
      BY <1>1, <2>3 DEF Act
    <3>3. QED
      BY <1>2, <2>1, <3>1, <3>2
  <2>4. QED
    BY <2>2, <2>3
<1>7. QED
  BY <1>5, <1>6

(***************************************************************************)
(* Calls that begin, go on and end.                                        *)
(***************************************************************************)

(* A frame depends on the calls up to it and the blocks run in them.       *)
LEMMA FrameAlike ==
  ASSUME NEW o, NEW L, NEW A, NEW B, NEW S, NEW T, NEW k \in Nat,
         \A i \in 1..k : S[i].kind = T[i].kind,
         T[k] = S[k],
         \A j \in 1..Loops(S, k) : B[j] = A[j],
         k > 0,
         S[k].kind = "loop" \/ FileFrame(S, k) \/ RunFrame(o, L, A, S, k)
  PROVE  T[k].kind = "loop" \/ FileFrame(T, k) \/ RunFrame(o, L, B, T, k)
<1>1. CASE S[k].kind = "loop"
  BY <1>1
<1>2. CASE FileFrame(S, k)
  BY <1>2 DEF FileFrame
<1>3. CASE RunFrame(o, L, A, S, k)
  <2>1. Loops(T, k) = Loops(S, k)
    BY LoopsSame
  <2>2. QED
    BY <1>3, <2>1 DEF RunFrame
<1>4. QED
  BY <1>1, <1>2, <1>3

LEMMA FramesPush ==
  ASSUME NEW o, NEW L, NEW A, NEW B, NEW S, NEW f,
         Frames(o, L, A, S),
         \A j \in 1..Loops(S, Len(S)) : B[j] = A[j],
         \/ f.kind = "loop"
         \/ FileFrame(Append(S, f), Len(S) + 1)
         \/ RunFrame(o, L, B, Append(S, f), Len(S) + 1)
  PROVE  /\ Frames(o, L, B, Append(S, f))
         /\ Loops(Append(S, f), Len(Append(S, f)))
              = Loops(S, Len(S)) + (IF f.kind = "loop" THEN 1 ELSE 0)
<1> DEFINE T == Append(S, f)
<1>1. /\ IsSeq(T) /\ Len(T) = Len(S) + 1 /\ T[Len(S) + 1] = f
      /\ \A n \in 1..Len(S) : T[n] = S[n]
  BY AppendFacts DEF Frames
<1>2. Len(S) \in Nat
  BY SeqFacts DEF Frames
<1> HIDE DEF T
<1>3. ASSUME NEW k \in 1..Len(S)
      PROVE  T[k].kind = "loop" \/ FileFrame(T, k) \/ RunFrame(o, L, B, T, k)
  <2>1. /\ k \in Nat /\ k > 0 /\ T[k] = S[k]
        /\ \A i \in 1..k : S[i].kind = T[i].kind
    BY <1>1, <1>2
  <2>2. \A j \in 1..Loops(S, k) : B[j] = A[j]
    <3>1. /\ Loops(S, k) \in Nat /\ Loops(S, Len(S)) \in Nat
          /\ Loops(S, k) <= Loops(S, Len(S))
      BY <1>2, LoopsBound
    <3>2. QED
      BY <3>1
  <2>3. S[k].kind = "loop" \/ FileFrame(S, k) \/ RunFrame(o, L, A, S, k)
    BY DEF Frames
  <2>4. QED
    BY ONLY <2>1, <2>2, <2>3, FrameAlike
<1>4. Frames(o, L, B, T)
  <2>1. ASSUME NEW k \in 1..Len(T)
        PROVE  T[k].kind = "loop" \/ FileFrame(T, k) \/ RunFrame(o, L, B, T, k)
    <3>1. CASE k = Len(S) + 1
      BY <1>1, <3>1 DEF T
    <3>2. CASE k # Len(S) + 1
      <4>1. k \in 1..Len(S)
        BY <1>1, <1>2, <3>2
      <4>2. QED
        BY <1>3, <4>1
    <3>3. QED
      BY <3>1, <3>2
  <2>2. QED
    BY <1>1, <2>1 DEF Frames
<1>5. Loops(T, Len(T)) = Loops(S, Len(S)) + (IF f.kind = "loop" THEN 1 ELSE 0)
  <2>1. Loops(T, Len(S)) = Loops(S, Len(S))
    BY <1>1, LoopsSame
  <2>2. QED
    BY <1>1, <1>2, <2>1, LoopsNext
<1>6. QED
  BY <1>4, <1>5 DEF T

LEMMA FramesPop ==
  ASSUME NEW o, NEW L, NEW A, NEW B, NEW S,
         Frames(o, L, A, S), Len(S) > 0,
         \A j \in 1..Loops(S, Len(S) - 1) : B[j] = A[j]
  PROVE  LET T == Front(S)
         IN /\ Frames(o, L, B, T)
            /\ Loops(S, Len(S)) = Loops(T, Len(T)) + (IF Last(S).kind = "loop" THEN 1 ELSE 0)
            /\ AllFiles(S) => AllFiles(T)
<1> DEFINE T == Front(S)
<1>1. /\ IsSeq(T) /\ Len(T) = Len(S) - 1 /\ Last(S) = S[Len(S)]
      /\ \A n \in 1..(Len(S) - 1) : T[n] = S[n]
  BY FrontFacts DEF Frames
<1>2. Len(S) \in Nat /\ Len(T) \in Nat
  BY <1>1, SeqFacts DEF Frames
<1> HIDE DEF T
<1>3. ASSUME NEW k \in 1..Len(T)
      PROVE  T[k].kind = "loop" \/ FileFrame(T, k) \/ RunFrame(o, L, B, T, k)
  <2>1. /\ k \in Nat /\ k > 0 /\ T[k] = S[k] /\ k \in 1..Len(S)
        /\ \A i \in 1..k : S[i].kind = T[i].kind
    BY <1>1, <1>2
  <2>2. \A j \in 1..Loops(S, k) : B[j] = A[j]
    <3>1. Len(S) - 1 \in Nat /\ k <= Len(S) - 1
      BY <1>1, <1>2
    <3>2. /\ Loops(S, k) \in Nat /\ Loops(S, Len(S) - 1) \in Nat
          /\ Loops(S, k) <= Loops(S, Len(S) - 1)
      BY <2>1, <3>1, LoopsBound
    <3>3. QED
      BY <3>2
  <2>3. S[k].kind = "loop" \/ FileFrame(S, k) \/ RunFrame(o, L, A, S, k)
    BY <2>1 DEF Frames
  <2>4. QED
    BY ONLY <2>1, <2>2, <2>3, FrameAlike
<1>4. Loops(S, Len(S)) = Loops(T, Len(T)) + (IF Last(S).kind = "loop" THEN 1 ELSE 0)
  <2>1. Loops(T, Len(T)) = Loops(S, Len(T))
    BY <1>1, LoopsSame
  <2>2. Len(S) = Len(T) + 1
    BY <1>1, <1>2
  <2>3. Loops(S, Len(T) + 1) = Loops(S, Len(T))
                                 + (IF S[Len(T) + 1].kind = "loop" THEN 1 ELSE 0)
    BY <1>2, LoopsNext
  <2>4. QED
    BY <1>1, <2>1, <2>2, <2>3
<1>5. AllFiles(S) => AllFiles(T)
  BY <1>1, <1>2 DEF AllFiles
<1>6. QED
  BY <1>1, <1>3, <1>4, <1>5 DEF T, Frames

(* The innermost call changes its position in its lines.                   *)
LEMMA FramesTop ==
  ASSUME NEW o, NEW L, NEW A, NEW S, NEW f,
         Frames(o, L, A, S), Len(S) > 0,
         LET t == Last(S)
         IN /\ t.kind # "loop" /\ f.kind = t.kind /\ f.lines = t.lines
            /\ DOMAIN f = DOMAIN t /\ f.pos \in Nat
  PROVE  LET T == Append(Front(S), f)
         IN /\ Frames(o, L, A, T) /\ Len(T) = Len(S)
            /\ Loops(T, Len(T)) = Loops(S, Len(S))
            /\ AllFiles(S) => AllFiles(T)
<1> DEFINE T == Append(Front(S), f)
           m == Len(S)
<1>1. /\ IsSeq(Front(S)) /\ Len(Front(S)) = m - 1 /\ Last(S) = S[m]
      /\ \A n \in 1..(m - 1) : Front(S)[n] = S[n]
      /\ m \in Nat /\ m > 0
  BY FrontFacts, SeqFacts DEF Frames
<1>2. /\ IsSeq(T) /\ Len(T) = m /\ T[m] = f
      /\ \A n \in 1..(m - 1) : T[n] = S[n]
  BY <1>1, AppendFacts
<1> HIDE DEF T, m
<1>3. \A k \in 1..m : S[k].kind = T[k].kind
  BY <1>1, <1>2
<1>4. \A k \in 1..m : Loops(T, k) = Loops(S, k)
  <2> TAKE k \in 1..m
  <2>1. \A i \in 1..k : S[i].kind = T[i].kind
    BY <1>1, <1>3
  <2>2. QED
    BY <2>1, LoopsSame
<1>5. ASSUME NEW k \in 1..m
      PROVE  T[k].kind = "loop" \/ FileFrame(T, k) \/ RunFrame(o, L, A, T, k)
  <2>1. S[k].kind = "loop" \/ FileFrame(S, k) \/ RunFrame(o, L, A, S, k)
    BY DEF Frames, m
  <2>2. \A i \in 1..k : S[i].kind = T[i].kind
    BY <1>1, <1>3
  <2>3. CASE k # m
    <3>1. k \in Nat /\ k > 0 /\ T[k] = S[k]
      BY <1>1, <1>2, <2>3
    <3>2. QED
      BY ONLY <2>1, <2>2, <3>1, FrameAlike
  <2>4. CASE k = m
    <3>1. /\ T[k].kind = S[k].kind /\ T[k].lines = S[k].lines /\ S[k].kind # "loop"
          /\ DOMAIN T[k] = DOMAIN S[k] /\ T[k].pos \in Nat
      BY <1>1, <1>2, <2>4
    <3>2. CASE FileFrame(S, k)
      BY <2>2, <3>1, <3>2 DEF FileFrame
    <3>3. CASE RunFrame(o, L, A, S, k)
      BY <1>4, <3>1, <3>3 DEF RunFrame
    <3>4. QED
      BY <2>1, <3>1, <3>2, <3>3
  <2>5. QED
    BY <2>3, <2>4
<1>6. Frames(o, L, A, T)
  BY <1>2, <1>5 DEF Frames
<1>7. Loops(T, Len(T)) = Loops(S, Len(S))
  BY <1>1, <1>2, <1>4 DEF m
<1>8. AllFiles(S) => AllFiles(T)
  BY <1>2, <1>3 DEF AllFiles, m
<1>9. QED
  BY <1>2, <1>6, <1>7, <1>8 DEF T, m

(* A file is the innermost call only when all calls are files.             *)
LEMMA TopFile ==
  ASSUME NEW o, NEW L, NEW A, NEW S, Frames(o, L, A, S), Len(S) > 0,
         Last(S).kind = "file"
  PROVE  AllFiles(S) /\ FileFrame(S, Len(S)) /\ Last(S) = S[Len(S)]
<1>1. Len(S) \in Nat /\ Last(S) = S[Len(S)]
  BY SeqFacts, FrontFacts DEF Frames
<1>2. FileFrame(S, Len(S))
  BY <1>1 DEF Frames, RunFrame
<1>3. QED
  BY <1>1, <1>2 DEF FileFrame, AllFiles

-----------------------------------------------------------------------------
(* Steps.                                                                  *)

Good2(p, S, D, L, fs, fd, fc, flag, x, lines, dict) ==
  /\ p \in [1..Len(D) -> Owner]
  /\ Dicts(p, L, D)
  /\ Frames(p, L, Act(fd, fs, fc), S)
  /\ Stacks(Len(D), L, fs, fd, fc)
  /\ Blocks(p, L, Act(fd, fs, fc), fc, flag, x, S)
  /\ Bodies(p, L, x, lines, dict)

LEMMA GoodIs ==
  ASSUME NEW o, NEW S, NEW D
  PROVE  Good(o, S, D) <=>
           /\ Good2(o, S, D, forLoopList, forStack, forDict, forCount, forDefFlag,
                    funName, funLineList, funDict)
           /\ Scalars
BY DEF Good, Good2, Acts

LEMMA GoodNext ==
  ASSUME NEW p,
         Good2(p, stack', dicts', forLoopList', forStack', forDict', forCount',
               forDefFlag', funName', funLineList', funDict'),
         Scalars'
  PROVE  IInv'
BY DEF Good2, Good, IInv, Acts

(* What is the same in both states but for calls and dictionaries.         *)
LEMMA GoodSame ==
  ASSUME NEW o, NEW S, NEW D, Good(o, S, D), stack' = S, dicts' = D,
         UNCHANGED <<forDict, forStack, forLoopList, forCount, forDefFlag, funVars>>,
         Scalars'
  PROVE  IInv'
<1>1. Good2(o, S, D, forLoopList, forStack, forDict, forCount, forDefFlag,
            funName, funLineList, funDict)
  BY GoodIs
<1>2. Good2(o, stack', dicts', forLoopList', forStack', forDict', forCount',
            forDefFlag', funName', funLineList', funDict')
  BY <1>1 DEF funVars
<1>3. QED
  BY <1>2, GoodNext

(* The line that is next: from the input or a file, or one that was stored *)
(* in function x, in a block d of it, and is being run.                    *)
Running0(o, line, x, d) ==
  /\ Stored(o, forLoopList, line, x, d)
  /\ \A j \in 1..forCount :
       Lower(o[Acts[j]], x) \/ (o[Acts[j]] = x /\ Acts[j] <= d)

Fits(o, line, S) ==
  \/ AllFiles(S) /\ Command(line) /\ Considered(line)
  \/ /\ ~forDefFlag /\ funName = None
     /\ \E x \in Owner, d \in Nat : Running0(o, line, x, d)

LEMMA ErrorKeeps ==
  ASSUME NEW o, Good(o, stack, dicts), Error
  PROVE  IInv'
<1>1. Scalars'
  BY DEF Good, Scalars, Error, blockVars, funVars
<1>2. QED
  BY <1>1, GoodSame DEF Error, blockVars, funVars

(* A line that is stored in the block or function being read.              *)
LEMMA Storable ==
  ASSUME NEW o, NEW S, NEW line, Fits(o, line, S), NEW d,
         forDefFlag \/ funName # None,
         line.op \notin {"FOR", "DONE"},
         ~forDefFlag => line.op # "END"
  PROVE  Stored(o, forLoopList, line, funName, d) /\ AllFiles(S)
<1>1. AllFiles(S) /\ Command(line) /\ Considered(line)
  BY DEF Fits
<1>2. line.op \in {"SET", "DO", "RUN"}
  BY <1>1 DEF Command, Commands, Considered
<1>3. QED
  BY <1>1, <1>2 DEF Stored, Lower, Command, Considered

LEMMA BodyAppend ==
  ASSUME NEW o, NEW L, NEW lines, NEW x, NEW d, NEW line,
         Body(o, L, lines, x, d), Stored(o, L, line, x, d)
  PROVE  Body(o, L, Append(lines, line), x, d)
<1>1. /\ IsSeq(Append(lines, line)) /\ Len(Append(lines, line)) = Len(lines) + 1
      /\ \A n \in 1..Len(lines) : Append(lines, line)[n] = lines[n]
      /\ Append(lines, line)[Len(lines) + 1] = line
      /\ Len(lines) \in Nat
  BY AppendFacts, SeqFacts DEF Body
<1>2. ASSUME NEW n \in 1..(Len(lines) + 1)
      PROVE  Stored(o, L, Append(lines, line)[n], x, d)
  <2>1. CASE n = Len(lines) + 1
    BY <1>1, <2>1
  <2>2. CASE n # Len(lines) + 1
    BY <1>1, <2>2 DEF Body
  <2>3. QED
    BY <2>1, <2>2
<1>3. QED
  BY <1>1, <1>2 DEF Body

LEMMA BodyEmpty ==
  ASSUME NEW o, NEW L, NEW x, NEW d
  PROVE  Body(o, L, <<>>, x, d)
BY DEF Body, IsSeq

LEMMA DictsExcept ==
  ASSUME NEW o, NEW L, NEW D, NEW e \in 1..Len(D), NEW E,
         Dicts(o, L, D), Dict(o, L, E, e)
  PROVE  LET D2 == [D EXCEPT ![e] = E]
         IN Dicts(o, L, D2) /\ Len(D2) = Len(D)
<1> DEFINE D2 == [D EXCEPT ![e] = E]
<1>1. /\ IsSeq(D2) /\ Len(D2) = Len(D) /\ D2[e] = E
      /\ \A n \in 1..Len(D) : n # e => D2[n] = D[n]
  BY ExceptFacts DEF Dicts
<1> HIDE DEF D2
<1>2. \A n \in 1..Len(D) : Dict(o, L, D2[n], n)
  BY <1>1 DEF Dicts
<1>3. QED
  BY <1>1, <1>2 DEF D2, Dicts

-----------------------------------------------------------------------------
(* The actions of processCmd().                                            *)

LEMMA EndFunctionKeeps ==
  ASSUME NEW o, NEW S, NEW D, NEW line, Good(o, S, D), Good(o, stack, dicts),
         EndFunction(line, S, D)
  PROVE  IInv'
<1>1. CASE Error
  BY <1>1, ErrorKeeps
<1>2. CASE /\ funDict' = [funDict EXCEPT ![funName] = funLineList]
           /\ funName' = None /\ funLineList' = <<>>
           /\ stack' = S /\ dicts' = D
           /\ UNCHANGED <<forDict, blockVars, varDict, sourced, trace, exited>>
  <2>1. funName # None /\ forDefFlag = FALSE /\ funName \in Funs
        /\ DOMAIN funDict = Funs
    BY DEF EndFunction, InFunction, Good, Scalars, Owner
  <2>2. Bodies(o, forLoopList, None, <<>>, funDict')
    BY <1>2, <2>1 DEF Good, Bodies
  <2>3. Blocks(o, forLoopList, Acts, forCount, FALSE, None, S)
    BY <2>1 DEF Good, Blocks
  <2>4. Good2(o, S, D, forLoopList, forStack, forDict, forCount, FALSE,
              None, <<>>, funDict')
    BY <2>2, <2>3 DEF Good, Good2, Acts
  <2>5. Good2(o, stack', dicts', forLoopList', forStack', forDict', forCount',
              forDefFlag', funName', funLineList', funDict')
    BY <1>2, <2>1, <2>4 DEF blockVars
  <2>6. Scalars'
    BY <1>2, <2>1 DEF Good, Scalars, blockVars, Owner
  <2>7. QED
    BY <2>5, <2>6, GoodNext
<1>3. QED
  BY <1>1, <1>2 DEF EndFunction

LEMMA StoreInFunctionKeeps ==
  ASSUME NEW o, NEW S, NEW D, NEW line, Good(o, S, D), Fits(o, line, S),
         StoreInFunction(line, S, D)
  PROVE  IInv'
<1>1. /\ funLineList' = Append(funLineList, line) /\ stack' = S /\ dicts' = D
      /\ UNCHANGED <<forDict, blockVars, funName, funDict, varDict, sourced, exited>>
      /\ funName # None /\ ~forDefFlag
      /\ line.op \notin {"FOR", "DONE"} /\ line.op # "END"
  BY DEF StoreInFunction, InFunction
<1>2. Stored(o, forLoopList, line, funName, 0)
  BY <1>1, Storable
<1>3. Body(o, forLoopList, funLineList, funName, 0)
  BY <1>1 DEF Good, Bodies
<1>4. Body(o, forLoopList, funLineList', funName, 0)
  BY <1>1, <1>2, <1>3, BodyAppend
<1>5. Bodies(o, forLoopList, funName, funLineList', funDict)
  BY <1>4 DEF Good, Bodies
<1>6. Good2(o, S, D, forLoopList, forStack, forDict, forCount, forDefFlag,
            funName, funLineList', funDict)
  BY <1>5 DEF Good, Good2, Acts
<1>7. Good2(o, stack', dicts', forLoopList', forStack', forDict', forCount',
            forDefFlag', funName', funLineList', funDict')
  BY <1>1, <1>6 DEF blockVars
<1>8. Scalars'
  BY <1>1 DEF Good, Scalars, blockVars
<1>9. QED
  BY <1>7, <1>8, GoodNext

LEMMA StoreInBlockKeeps ==
  ASSUME NEW o, NEW S, NEW D, NEW line, Good(o, S, D), Fits(o, line, S),
         StoreInBlock(line, S, D)
  PROVE  IInv'
<1>1. /\ dicts' = [D EXCEPT ![forDict].lines = Append(@, line)] /\ stack' = S
      /\ UNCHANGED <<forDict, blockVars, funVars, varDict, sourced, exited>>
      /\ forDefFlag /\ line.op \notin {"FOR", "DONE"}
  BY DEF StoreInBlock
<1>2. /\ Open(o, forLoopList, Acts, forCount, funName)
      /\ Stacks(Len(D), forLoopList, forStack, forDict, forCount)
  BY <1>1 DEF Good, Blocks
<1>3. forCount \in Nat /\ forCount >= 1 /\ forDict \in 1..Len(D)
  BY <1>2 DEF Open, Stacks
<1>4. o[forDict] = funName
  <2>1. forCount \in 1..forCount /\ Acts[forCount] = forDict
    BY <1>3 DEF Acts, Act
  <2>2. QED
    BY <1>2, <2>1 DEF Open
<1>5. Stored(o, forLoopList, line, o[forDict], forDict)
  BY <1>1, <1>4, Storable
<1>6. Dict(o, forLoopList, D[forDict], forDict)
  BY <1>3 DEF Good, Dicts
<1> DEFINE E == [D[forDict] EXCEPT !.lines = Append(@, line)]
<1>7. Dict(o, forLoopList, E, forDict)
  <2>1. Body(o, forLoopList, Append(D[forDict].lines, line), o[forDict], forDict)
    BY <1>5, <1>6, BodyAppend DEF Dict
  <2>2. /\ DOMAIN E = Fields /\ E.lineIndx \in Nat
        /\ E.lines = Append(D[forDict].lines, line)
    BY <1>6 DEF Dict, Fields
  <2>3. QED
    BY <2>1, <2>2 DEF Dict
<1>8. dicts' = [D EXCEPT ![forDict] = E]
  BY <1>1
<1> HIDE DEF E
<1>9. Dicts(o, forLoopList, dicts') /\ Len(dicts') = Len(D)
  <2>1. Dicts(o, forLoopList, D)
    BY DEF Good
  <2>2. PICK e \in 1..Len(D) : e = forDict
    BY <1>3
  <2>3. Dict(o, forLoopList, E, e)
    BY <1>7, <2>2
  <2>4. /\ Dicts(o, forLoopList, [D EXCEPT ![e] = E])
        /\ Len([D EXCEPT ![e] = E]) = Len(D)
    BY ONLY <2>1, <2>3, e \in 1..Len(D), DictsExcept
  <2>5. QED
    BY <1>8, <2>2, <2>4
<1>10. Good2(o, S, dicts', forLoopList, forStack, forDict, forCount, forDefFlag,
             funName, funLineList, funDict)
  BY <1>9 DEF Good, Good2, Acts
<1>11. Good2(o, stack', dicts', forLoopList', forStack', forDict', forCount',
             forDefFlag', funName', funLineList', funDict')
  BY <1>1, <1>10 DEF blockVars, funVars
<1>12. Scalars'
  BY <1>1 DEF Good, Scalars, blockVars, funVars
<1>13. QED
  BY <1>11, <1>12, GoodNext

(* Without a loop, all other calls have no blocks in progress.             *)
LEMMA FilesFree ==
  ASSUME NEW o, NEW S, NEW D, Good(o, S, D), AllFiles(S)
  PROVE  /\ Loops(S, Len(S)) = 0
         /\ ~forDefFlag => forCount = 0
BY LoopsNone DEF Good, Blocks, Looping

LEMMA FilesKept ==
  ASSUME NEW o, NEW n, NEW L, NEW p, NEW m, NEW M, Grown(o, n, L, p, m, M),
         NEW A, NEW B, NEW S, Frames(o, L, A, S), AllFiles(S)
  PROVE  Frames(p, M, B, S)
<1>1. Loops(S, Len(S)) = 0
  BY LoopsNone
<1>2. \A j \in 1..Loops(S, Len(S)) : A[j] \in 1..n /\ B[j] = A[j]
  BY <1>1
<1>3. QED
  BY <1>2, FramesKept

(* A block ends: it is added to forLoopList.                               *)
LEMMA GrownLoop ==
  ASSUME NEW o, NEW S, NEW D, Good(o, S, D), NEW d \in 1..Len(D)
  PROVE  LET M == Append(forLoopList, d)
         IN /\ Grown(o, Len(D), forLoopList, o, Len(D), M)
            /\ IsSeq(M) /\ Len(M) = Len(forLoopList) + 1 /\ Len(M) \in 1..Len(M)
            /\ M[Len(M)] = d
            /\ \A k \in 1..Len(M) : M[k] \in 1..Len(D)
            /\ \A k \in 1..Len(M) :
                 M[k] = d \/ \E i \in 1..Len(forLoopList) : M[k] = forLoopList[i]
<1> DEFINE L == forLoopList
           M == Append(L, d)
<1>1. /\ IsSeq(L) /\ Len(L) \in Nat /\ \A k \in 1..Len(L) : L[k] \in 1..Len(D)
      /\ Len(D) \in Nat
  BY SeqFacts DEF Good, Stacks, Dicts
<1>2. /\ IsSeq(M) /\ Len(M) = Len(L) + 1 /\ M[Len(L) + 1] = d
      /\ \A k \in 1..Len(L) : M[k] = L[k]
  BY <1>1, AppendFacts
<1>3. o \in [1..Len(D) -> Owner]
  BY DEF Good
<1> HIDE DEF L, M
<1>4. Grown(o, Len(D), L, o, Len(D), M)
  BY <1>1, <1>2, <1>3 DEF Grown
<1>5. ASSUME NEW k \in 1..Len(M)
      PROVE  (M[k] = d \/ \E i \in 1..Len(L) : M[k] = L[i]) /\ M[k] \in 1..Len(D)
  <2>1. CASE k = Len(L) + 1
    BY <1>2, <2>1
  <2>2. CASE k # Len(L) + 1
    <3>1. k \in 1..Len(L)
      BY <1>1, <1>2, <2>2
    <3>2. QED
      BY <1>1, <1>2, <3>1
  <2>3. QED
    BY <2>1, <2>2
<1>6. QED
  BY <1>1, <1>2, <1>4, <1>5 DEF L, M

LEMMA DoneInnerKeeps ==
  ASSUME NEW o, NEW S, NEW D, NEW line, Good(o, S, D), DoneInner(line, S, D)
  PROVE  IInv'
<1> DEFINE L == forLoopList
           A == Acts
           d == forDict
           e == Last(forStack)
           M == Append(L, d)
           fs2 == Front(forStack)
           B == Act(e, fs2, forCount - 1)
           E == [D[e] EXCEPT !.lines = Append(@, FORLOOP(Len(M)))]
<1>1. /\ forLoopList' = M /\ forCount' = forCount - 1 /\ forDict' = e
      /\ forStack' = fs2 /\ stack' = S
      /\ dicts' = [D EXCEPT ![e] = E]
      /\ UNCHANGED <<forDefFlag, forloopCounter, funVars, varDict, sourced, exited>>
      /\ forDefFlag /\ forCount > 1
  BY DEF DoneInner
<1>2. /\ Open(o, L, A, forCount, funName)
      /\ Stacks(Len(D), L, forStack, d, forCount)
      /\ Frames(o, L, A, S) /\ AllFiles(S) /\ Dicts(o, L, D)
      /\ Bodies(o, L, funName, funLineList, funDict)
      /\ o \in [1..Len(D) -> Owner]
  BY <1>1 DEF Good, Blocks
<1>3. forCount \in Nat /\ d \in 1..Len(D) /\ Len(D) \in Nat /\ None \notin Nat
  BY <1>1, <1>2, SeqFacts, ScriptAssumption DEF Stacks, Dicts
<1>4. /\ Grown(o, Len(D), L, o, Len(D), M)
      /\ IsSeq(M) /\ Len(M) \in 1..Len(M) /\ M[Len(M)] = d
      /\ \A k \in 1..Len(M) : M[k] \in 1..Len(D)
      /\ \A k \in 1..Len(M) : M[k] = d \/ \E i \in 1..Len(L) : M[k] = L[i]
  BY <1>3, GrownLoop
<1>5. /\ Stacks(Len(D), M, fs2, e, forCount - 1)
      /\ \A j \in 1..(forCount - 1) : B[j] = A[j]
  <2> HIDE DEF M
  <2>1. IsSeq(M) /\ \A k \in 1..Len(M) : M[k] \in 1..Len(D)
    BY <1>4
  <2>2. /\ Stacks(Len(D), M, Front(forStack), Last(forStack), forCount - 1)
        /\ \A j \in 1..(forCount - 1) :
             Act(Last(forStack), Front(forStack), forCount - 1)[j]
               = Act(d, forStack, forCount)[j]
    BY ONLY <1>1, <1>2, <1>3, <2>1, ActPop
  <2>3. QED
    BY <2>2 DEF Acts
<1>6. A[forCount] = d /\ B[forCount - 1] = e
  BY <1>1, <1>3 DEF Acts, Act
<1> HIDE DEF L, A, M, fs2, B
<1>7. /\ A[forCount - 1] = e /\ e < d /\ o[e] = funName /\ o[d] = funName
  <2>1. forCount - 1 \in 1..forCount /\ forCount \in 1..forCount
        /\ forCount - 1 < forCount /\ forCount - 1 \in 1..(forCount - 1)
    BY <1>1, <1>3
  <2>2. A[forCount - 1] = e
    BY <1>5, <1>6, <2>1
  <2>3. QED
    BY <1>2, <1>6, <2>1, <2>2 DEF Open
<1>8. e \in 1..Len(D)
  <2>1. e # None
    BY <1>1, <1>3, <1>5 DEF Stacks
  <2>2. QED
    BY <1>5, <2>1 DEF Stacks
<1>9. Dicts(o, M, dicts') /\ Len(dicts') = Len(D)
  <2>1. Dicts(o, M, D)
    BY <1>2, <1>4, DictsKept
  <2>2. Dict(o, M, D[e], e)
    BY <1>8, <2>1 DEF Dicts
  <2>3. Stored(o, M, FORLOOP(Len(M)), o[e], e)
    BY <1>3, <1>4, <1>7, <1>8 DEF Stored, FORLOOP, Line
  <2>4. Body(o, M, Append(D[e].lines, FORLOOP(Len(M))), o[e], e)
    BY <2>2, <2>3, BodyAppend DEF Dict
  <2>5. /\ DOMAIN E = Fields /\ E.lineIndx \in Nat
        /\ E.lines = Append(D[e].lines, FORLOOP(Len(M)))
    BY <2>2 DEF Dict, Fields
  <2>6. Dict(o, M, E, e)
    BY <2>4, <2>5 DEF Dict
  <2> HIDE DEF E, e
  <2>7. PICK c \in 1..Len(D) : c = e
    BY <1>8
  <2>8. Dict(o, M, E, c)
    BY <2>6, <2>7
  <2>9. /\ Dicts(o, M, [D EXCEPT ![c] = E])
        /\ Len([D EXCEPT ![c] = E]) = Len(D)
    BY ONLY <2>1, <2>8, c \in 1..Len(D), DictsExcept
  <2>10. QED
    BY <1>1, <2>7, <2>9
<1>10. Frames(o, M, B, S)
  BY <1>2, <1>4, FilesKept
<1>11. Bodies(o, M, funName, funLineList, funDict)
  BY <1>2, <1>4, BodiesKept
<1>12. Open(o, M, B, forCount - 1, funName)
  <2>1. forCount - 1 >= 1
    BY <1>1, <1>3
  <2>2. ASSUME NEW j \in 1..(forCount - 1)
        PROVE  /\ o[B[j]] = funName
               /\ \A k \in 1..Len(M) : M[k] # B[j]
    <3>1. j \in 1..forCount /\ j < forCount /\ forCount \in 1..forCount /\ B[j] = A[j]
      BY <1>1, <1>3, <1>5
    <3>2. A[j] < d /\ d \in 1..Len(D) /\ o[A[j]] = funName
      BY <1>2, <1>3, <1>6, <3>1 DEF Open
    <3>3. \A k \in 1..Len(L) : L[k] # A[j]
      BY <1>2, <3>1 DEF Open
    <3>4. A[j] # d
      <4>1. A[j] \in 1..Len(D)
        BY <1>2, <3>1, ActIn DEF A, Acts, d
      <4>2. QED
        BY <1>3, <3>2, <4>1
    <3>5. QED
      BY <1>4, <3>1, <3>2, <3>3, <3>4
  <2>3. \A i, j \in 1..(forCount - 1) : i < j => B[i] < B[j]
    <3> SUFFICES ASSUME NEW i \in 1..(forCount - 1), NEW j \in 1..(forCount - 1), i < j
                 PROVE  B[i] < B[j]
      OBVIOUS
    <3>1. i \in 1..forCount /\ j \in 1..forCount /\ B[i] = A[i] /\ B[j] = A[j]
      BY <1>3, <1>5
    <3>2. QED
      BY <1>2, <3>1 DEF Open
  <2>4. QED
    BY <2>1, <2>2, <2>3 DEF Open
<1>13. Good2(o, S, dicts', M, fs2, e, forCount - 1, TRUE, funName, funLineList, funDict)
  <2>1. Blocks(o, M, B, forCount - 1, TRUE, funName, S)
    BY <1>2, <1>12 DEF Blocks
  <2>2. QED
    BY <1>2, <1>5, <1>9, <1>10, <1>11, <2>1 DEF Good2, B
<1>14. Good2(o, stack', dicts', forLoopList', forStack', forDict', forCount',
             forDefFlag', funName', funLineList', funDict')
  <2>1. forDefFlag = TRUE
    BY <1>1 DEF Good, Scalars
  <2>2. QED
    BY <1>1, <1>13, <2>1 DEF funVars
<1>15. Scalars'
  BY <1>1 DEF Good, Scalars, funVars
<1>16. QED
  BY <1>14, <1>15, GoodNext

(* A loop begins, count being the number of those it is in.                *)
LEMMA RunLoopKeeps ==
  ASSUME NEW o, NEW S, NEW D, NEW k, NEW args, NEW loops, NEW count,
         Good(o, stack, dicts),
         RunLoop(k, args, S, D, loops, count),
         o \in [1..Len(D) -> Owner],
         Dicts(o, loops, D),
         Frames(o, loops, Act(forDict, forStack, count), S),
         Stacks(Len(D), loops, forStack, forDict, count),
         Looping(o, Act(forDict, forStack, count), count, S),
         Bodies(o, loops, None, funLineList, funDict),
         funName = None,
         k \in 1..Len(loops),
         \A j \in 1..count : Inner(o, Act(forDict, forStack, count)[j], loops[k]),
         Scalars
  PROVE  IInv'
<1>1. CASE Error
  <2>1. QED
    BY <1>1, ErrorKeeps
<1>2. CASE ~Error
  <2> DEFINE d == loops[k]
             list == Value(D[d].term, args)
             f == [kind |-> "loop", args |-> args, list |-> list]
             gs == IF count > 0 THEN Append(forStack, forDict) ELSE forStack
             E == [D[d] EXCEPT !.varIndx = 0, !.lineIndx = Len(D[d].lines)]
             A == Act(forDict, forStack, count)
             B == Act(d, gs, count + 1)
             T == Append(S, f)
  <2>1. /\ stack' = T
        /\ dicts' = [D EXCEPT ![d].varIndx = 0, ![d].lineIndx = Len(D[d].lines)]
        /\ forStack' = gs /\ forDict' = d /\ forCount' = count + 1
        /\ forLoopList' = loops /\ forDefFlag' = FALSE
        /\ forloopCounter' = forloopCounter + 1
        /\ forloopCounter + 1 <= ForloopMax
        /\ UNCHANGED <<funVars, varDict, sourced, exited>>
    <3>1. ~(list = <<>> \/ forloopCounter + 1 > ForloopMax)
      BY <1>2 DEF RunLoop
    <3>2. forloopCounter \in Nat /\ ForloopMax \in Nat
      BY ScriptAssumption DEF Scalars
    <3>3. QED
      BY <1>2, <3>1, <3>2 DEF RunLoop
  <2>2. /\ IsSeq(loops) /\ IsSeq(forStack) /\ count \in Nat /\ Len(D) \in Nat
        /\ \A i \in 1..Len(loops) : loops[i] \in 1..Len(D)
        /\ count > 0 => forDict # None
        /\ None \notin Nat /\ Len(D) <= Len(D) /\ d \in 1..Len(D)
    BY SeqFacts, ScriptAssumption DEF Stacks, Dicts
  <2>3. Dicts(o, loops, dicts') /\ Len(dicts') = Len(D)
    <3>1. PICK c \in 1..Len(D) : c = d
      BY <2>2
    <3>2. Dict(o, loops, D[c], c)
      BY DEF Dicts
    <3>3. Dict(o, loops, E, c)
      <4>1. /\ DOMAIN E = Fields /\ E.lines = D[c].lines
            /\ E.lineIndx = Len(D[c].lines)
        BY <3>1, <3>2 DEF Dict, Fields
      <4>2. Len(D[c].lines) \in Nat
        BY <3>2, SeqFacts DEF Dict, Body
      <4>3. QED
        BY <3>2, <4>1, <4>2 DEF Dict
    <3>4. dicts' = [D EXCEPT ![c] = E]
      BY <2>1, <3>1
    <3> HIDE DEF E, d
    <3>5. /\ Dicts(o, loops, [D EXCEPT ![c] = E])
          /\ Len([D EXCEPT ![c] = E]) = Len(D)
      BY ONLY Dicts(o, loops, D), <3>3, c \in 1..Len(D), DictsExcept
    <3>6. QED
      BY <3>4, <3>5
  <2> HIDE DEF d, E
  <2>4. /\ \A j \in 1..count : B[j] = A[j]
        /\ B[count + 1] = d
    <3>1. count > 0 => gs = Append(forStack, forDict)
      OBVIOUS
    <3> HIDE DEF gs
    <3>2. QED
      BY ONLY <3>1, Stacks(Len(D), loops, forStack, forDict, count), ActPush
         DEF A, B
  <2>5. Stacks(Len(D), loops, gs, d, count + 1)
    <3>1. \/ gs = Append(forStack, forDict) /\ forDict # None
          \/ gs = forStack /\ count = 0
      BY <2>2
    <3> HIDE DEF gs
    <3>2. QED
      BY ONLY <2>2, <3>1, Stacks(Len(D), loops, forStack, forDict, count), StacksPush
  <2>6. f.kind = "loop" /\ count = Loops(S, Len(S))
    BY DEF Looping
  <2> HIDE DEF f, gs, A, B
  <2>7. Frames(o, loops, B, T) /\ Loops(T, Len(T)) = count + 1
    <3>1. Frames(o, loops, A, S)
      BY DEF A
    <3>2. \A j \in 1..Loops(S, Len(S)) : B[j] = A[j]
      BY <2>4, <2>6
    <3>3. PICK g, a, b : g = f /\ a = A /\ b = B
      OBVIOUS
    <3>4. /\ Frames(o, loops, a, S) /\ \A j \in 1..Loops(S, Len(S)) : b[j] = a[j]
          /\ g.kind = "loop"
      BY <2>6, <3>1, <3>2, <3>3
    <3>5. /\ Frames(o, loops, b, Append(S, g))
          /\ Loops(Append(S, g), Len(Append(S, g)))
               = Loops(S, Len(S)) + (IF g.kind = "loop" THEN 1 ELSE 0)
      BY ONLY <3>4, FramesPush
    <3>6. QED
      BY <2>6, <3>3, <3>4, <3>5
  <2> HIDE DEF T
  <2>8. Looping(o, B, count + 1, T)
    <3> SUFFICES ASSUME NEW i \in 1..(count + 1), NEW j \in 1..(count + 1), i < j
                 PROVE  Inner(o, B[i], B[j])
      BY <2>7 DEF Looping
    <3>1. i \in 1..count /\ B[i] = A[i]
      BY <2>2, <2>4
    <3>2. CASE j = count + 1
      BY <2>4, <3>1, <3>2 DEF A, d
    <3>3. CASE j # count + 1
      <4>1. j \in 1..count /\ B[j] = A[j]
        BY <2>2, <2>4, <3>3
      <4>2. QED
        BY <3>1, <4>1 DEF Looping, A
    <3>4. QED
      BY <3>2, <3>3
  <2>9. Good2(o, T, dicts', loops, gs, d, count + 1, FALSE, None, funLineList, funDict)
    <3>1. Blocks(o, loops, B, count + 1, FALSE, None, T)
      BY <2>8 DEF Blocks
    <3>2. QED
      BY <2>3, <2>5, <2>7, <3>1 DEF Good2, B
  <2>10. Good2(o, stack', dicts', forLoopList', forStack', forDict', forCount',
              forDefFlag', funName', funLineList', funDict')
    BY <2>1, <2>9 DEF funVars
  <2>11. Scalars'
    <3>1. forloopCounter' \in 0..ForloopMax
      BY <2>1, ScriptAssumption DEF Scalars
    <3>2. QED
      BY <2>1, <3>1 DEF Scalars, funVars
  <2>12. QED
    BY <2>10, <2>11, GoodNext
<1>3. QED
  BY <1>1, <1>2

LEMMA LowerTrans ==
  ASSUME NEW x \in Owner, NEW y \in Owner, NEW z, Lower(x, y), Lower(y, z)
  PROVE  Lower(x, z)
<1>1. y \in Funs /\ z \in Funs /\ y # None /\ Level[y] \in Nat /\ Level[z] \in Nat
  BY ScriptAssumption DEF Lower
<1>2. Level[z] < Level[y]
  BY <1>1 DEF Lower, MayRun
<1>3. x # None => Level[x] \in Nat /\ Level[y] < Level[x]
  BY ScriptAssumption DEF Lower, MayRun, Owner
<1>4. QED
  BY <1>1, <1>2, <1>3 DEF Lower, MayRun

LEMMA ForloopKeeps ==
  ASSUME NEW o, NEW S, NEW D, NEW line, NEW args, Good(o, S, D), Good(o, stack, dicts),
         Fits(o, line, S), Forloop(line, args, S, D)
  PROVE  IInv'
<1>1. /\ RunLoop(line.n, args, S, D, forLoopList, forCount)
      /\ line.op = "FORLOOP" /\ forDefFlag = FALSE /\ funName = None
  BY DEF Forloop, Runs, Good, Scalars
<1>2. PICK x \in Owner, d \in Nat : Running0(o, line, x, d)
  BY <1>1 DEF Fits, Command, Commands
<1>3. /\ line.n \in 1..Len(forLoopList) /\ forLoopList[line.n] > d
      /\ o[forLoopList[line.n]] = x
  BY <1>1, <1>2 DEF Running0, Stored
<1>4. /\ Looping(o, Acts, forCount, S)
      /\ Stacks(Len(D), forLoopList, forStack, forDict, forCount)
  BY <1>1 DEF Good, Blocks
<1>5. forLoopList[line.n] \in Nat /\ forCount \in Nat /\ Len(D) \in Nat
  BY <1>3, <1>4, SeqFacts DEF Stacks, Good, Dicts
<1>6. ASSUME NEW j \in 1..forCount PROVE Inner(o, Acts[j], forLoopList[line.n])
  <2>1. Acts[j] \in 1..Len(D)
    BY <1>4, ActIn DEF Acts
  <2>2. Lower(o[Acts[j]], x) \/ (o[Acts[j]] = x /\ Acts[j] <= d)
    BY <1>2 DEF Running0
  <2>3. QED
    BY <1>3, <1>5, <2>1, <2>2 DEF Inner
<1>7. /\ o \in [1..Len(D) -> Owner] /\ Dicts(o, forLoopList, D)
      /\ Frames(o, forLoopList, Acts, S) /\ Scalars
      /\ Bodies(o, forLoopList, None, funLineList, funDict)
  BY <1>1 DEF Good
<1>8. QED
  BY <1>1, <1>3, <1>4, <1>6, <1>7, RunLoopKeeps DEF Acts

(* DONE comes from the input or a file.                                    *)
LEMMA DoneFits ==
  ASSUME NEW o, NEW S, NEW line, Fits(o, line, S),
         line.op \notin {"SET", "DO", "RUN", "FORLOOP"}
  PROVE  AllFiles(S) /\ Command(line) /\ Considered(line)
BY DEF Fits, Running0, Stored

LEMMA DoneOuterKeeps ==
  ASSUME NEW o, NEW S, NEW D, NEW line, NEW args, Good(o, S, D), Good(o, stack, dicts),
         Fits(o, line, S), DoneOuter(line, args, S, D)
  PROVE  IInv'
<1> DEFINE L == forLoopList
           d == forDict
           M == Append(L, d)
<1>1. line.op = "DONE" /\ forDefFlag = TRUE /\ forCount = 1 /\ AllFiles(S)
  BY DoneFits DEF DoneOuter, Good, Scalars
<1>2. /\ Open(o, L, Acts, forCount, funName)
      /\ Stacks(Len(D), L, forStack, d, forCount)
      /\ Frames(o, L, Acts, S) /\ Dicts(o, L, D)
      /\ Bodies(o, L, funName, funLineList, funDict)
      /\ o \in [1..Len(D) -> Owner] /\ Scalars
  BY <1>1 DEF Good, Blocks
<1>3. d \in 1..Len(D) /\ Len(D) \in Nat
  BY <1>1, <1>2, SeqFacts DEF Stacks, Dicts
<1>4. o[d] = funName
  <2>1. Acts[1] = d /\ 1 \in 1..forCount
    BY <1>1 DEF Acts, Act
  <2>2. QED
    BY <1>2, <2>1 DEF Open
<1>5. /\ Grown(o, Len(D), L, o, Len(D), M)
      /\ IsSeq(M) /\ Len(M) \in 1..Len(M) /\ M[Len(M)] = d
      /\ \A k \in 1..Len(M) : M[k] \in 1..Len(D)
  BY <1>3, GrownLoop
<1> HIDE DEF L, M, d
<1>6. /\ Dicts(o, M, D)
      /\ Bodies(o, M, funName, funLineList, funDict)
  BY <1>2, <1>5, DictsKept, BodiesKept
<1>7. Frames(o, M, Act(d, forStack, 0), S)
  BY <1>1, <1>2, <1>5, FilesKept
<1>8. Stacks(Len(D), M, forStack, d, 0)
  BY <1>2, <1>5 DEF Stacks
<1>9. Looping(o, Act(d, forStack, 0), 0, S)
  BY <1>1, LoopsNone DEF Looping
<1>10. CASE funName # None
  <2>1. /\ forLoopList' = M /\ forCount' = 0 /\ forDefFlag' = FALSE
        /\ funLineList' = Append(funLineList, FORLOOP(Len(M)))
        /\ stack' = S /\ dicts' = D
        /\ UNCHANGED <<forDict, forStack, forloopCounter, funName, funDict,
                       varDict, sourced, exited>>
    BY <1>10 DEF DoneOuter, L, M, d
  <2>2. Stored(o, M, FORLOOP(Len(M)), funName, 0)
    BY <1>3, <1>4, <1>5 DEF Stored, FORLOOP, Line
  <2>3. Body(o, M, funLineList, funName, 0)
    BY <1>6, <1>10 DEF Bodies
  <2>4. Body(o, M, funLineList', funName, 0)
    BY <2>1, <2>2, <2>3, BodyAppend
  <2>5. Bodies(o, M, funName, funLineList', funDict)
    BY <1>6, <2>4 DEF Bodies
  <2>6. Blocks(o, M, Act(d, forStack, 0), 0, FALSE, funName, S)
    BY <1>1, <1>9 DEF Blocks
  <2>7. Good2(o, S, D, M, forStack, d, 0, FALSE, funName, funLineList', funDict)
    BY <1>2, <1>6, <1>7, <1>8, <2>5, <2>6 DEF Good2
  <2>8. Good2(o, stack', dicts', forLoopList', forStack', forDict', forCount',
              forDefFlag', funName', funLineList', funDict')
    BY <2>1, <2>7 DEF d
  <2>9. Scalars'
    BY <1>2, <2>1 DEF Scalars
  <2>10. QED
    BY <2>8, <2>9, GoodNext
<1>11. CASE funName = None
  <2>1. RunLoop(Len(M), args, S, D, M, 0)
    BY <1>11 DEF DoneOuter, L, M, d
  <2>2. \A j \in 1..0 : Inner(o, Act(forDict, forStack, 0)[j], M[Len(M)])
    OBVIOUS
  <2>3. /\ Frames(o, M, Act(forDict, forStack, 0), S)
        /\ Stacks(Len(D), M, forStack, forDict, 0)
        /\ Looping(o, Act(forDict, forStack, 0), 0, S)
        /\ Bodies(o, M, None, funLineList, funDict)
    BY <1>6, <1>7, <1>8, <1>9, <1>11 DEF d
  <2>4. QED
    BY ONLY <1>2, <1>5, <1>6, <1>11, <2>1, <2>2, <2>3, Good(o, stack, dicts),
            RunLoopKeeps
<1>12. QED
  BY <1>10, <1>11

LEMMA ForKeeps ==
  ASSUME NEW o, NEW S, NEW D, NEW line, NEW args, Good(o, S, D), Fits(o, line, S),
         For(line, args, S, D)
  PROVE  IInv'
<1> DEFINE L == forLoopList
           A == Acts
           n == Len(D) + 1
           p == [d \in 1..n |-> IF d = n THEN funName ELSE o[d]]
           gs == IF forDict # None THEN Append(forStack, forDict) ELSE forStack
           B == Act(n, gs, forCount + 1)
           now == ~forDefFlag /\ funName = None /\ Value(line.term, args) # <<>>
           term == IF now THEN Lit(Value(line.term, args)) ELSE line.term
           new == [name |-> line.name, term |-> term, lines |-> <<>>,
                   varIndx |-> 0, lineIndx |-> 0]
<1>1. /\ dicts' = Append(D, new) /\ forDict' = Len(dicts') /\ forStack' = gs
      /\ forCount' = forCount + 1 /\ forDefFlag' = TRUE /\ stack' = S
      /\ UNCHANGED <<forLoopList, forloopCounter, funVars, varDict, sourced, exited>>
  BY DEF For
<1>2. AllFiles(S)
  BY DoneFits DEF For
<1>3. /\ Stacks(Len(D), L, forStack, forDict, forCount)
      /\ Frames(o, L, A, S) /\ Dicts(o, L, D)
      /\ Bodies(o, L, funName, funLineList, funDict)
      /\ o \in [1..Len(D) -> Owner] /\ Scalars /\ funName \in Owner
  BY DEF Good, Scalars
<1>4. /\ IsSeq(D) /\ Len(D) \in Nat /\ n \in Nat /\ n \in 1..n /\ Len(D) <= n
      /\ IsSeq(L) /\ Len(L) \in Nat /\ forCount \in Nat /\ None \notin Nat
      /\ \A k \in 1..Len(L) : L[k] \in 1..Len(D)
  BY <1>3, SeqFacts, ScriptAssumption DEF Dicts, Stacks
<1>5. /\ IsSeq(dicts') /\ Len(dicts') = n /\ dicts'[n] = new
      /\ \A d \in 1..Len(D) : dicts'[d] = D[d]
  BY <1>1, <1>4, AppendFacts
<1>6. /\ DOMAIN new = Fields /\ new.lines = <<>> /\ new.lineIndx = 0
  BY DEF Fields
<1> HIDE DEF L, A, now, term, new
<1>7. p \in [1..n -> Owner] /\ p[n] = funName /\ \A d \in 1..Len(D) : p[d] = o[d]
  BY <1>3, <1>4
<1> HIDE DEF p
<1>8. Grown(o, Len(D), L, p, n, L)
  BY <1>3, <1>4, <1>7 DEF Grown
<1>9. Dicts(p, L, dicts')
  <2>1. Dicts(p, L, D)
    BY <1>3, <1>8, DictsKept
  <2>2. Dict(p, L, new, n)
    BY <1>6, BodyEmpty DEF Dict
  <2>3. ASSUME NEW d \in 1..n PROVE Dict(p, L, dicts'[d], d)
    <3>1. CASE d = n
      BY <1>5, <2>2, <3>1
    <3>2. CASE d # n
      <4>1. d \in 1..Len(D)
        BY <1>4, <3>2
      <4>2. QED
        BY <1>5, <2>1, <4>1 DEF Dicts
    <3>3. QED
      BY <3>1, <3>2
  <2>4. QED
    BY <1>5, <2>3 DEF Dicts
<1>10. Stacks(n, L, gs, n, forCount + 1)
  <2>1. \/ gs = Append(forStack, forDict) /\ forDict # None
        \/ gs = forStack /\ forCount = 0
    BY <1>3, <1>4 DEF Stacks
  <2>2. \A k \in 1..Len(L) : L[k] \in 1..n
    BY <1>4
  <2>3. PICK m \in Nat : m = n
    BY <1>4
  <2>4. /\ m \in 1..m /\ Len(D) <= m /\ \A k \in 1..Len(L) : L[k] \in 1..m
    BY <1>4, <2>2, <2>3
  <2> HIDE DEF gs, n
  <2>5. Stacks(m, L, gs, m, forCount + 1)
    BY ONLY <1>3, <1>4, <2>1, <2>4, m \in Nat, StacksPush
  <2>6. QED
    BY <2>3, <2>5
<1>11. /\ \A j \in 1..forCount : B[j] = A[j]
       /\ B[forCount + 1] = n
  <2>1. forCount > 0 => gs = Append(forStack, forDict)
    BY <1>3, <1>4 DEF Stacks
  <2> HIDE DEF gs, n
  <2>2. QED
    BY ONLY <1>3, <2>1, ActPush DEF A, B, Acts
<1>12. \A j \in 1..forCount : A[j] \in 1..Len(D)
  BY <1>3, ActIn DEF A, Acts
<1> HIDE DEF gs, B
<1>13. Frames(p, L, B, S)
  BY <1>2, <1>3, <1>8, FilesKept
<1>14. Bodies(p, L, funName, funLineList, funDict)
  BY <1>3, <1>8, BodiesKept
<1>15. Open(p, L, B, forCount + 1, funName)
  <2>1. forCount > 0 => Open(o, L, A, forCount, funName)
    <3>1. forDefFlag \/ forCount = 0
      BY <1>2, FilesFree
    <3>2. forDefFlag => Open(o, L, A, forCount, funName)
      BY DEF Good, Blocks, L, A
    <3>3. QED
      BY <1>4, <3>1, <3>2
  <2>2. ASSUME NEW j \in 1..(forCount + 1)
        PROVE  p[B[j]] = funName /\ \A k \in 1..Len(L) : L[k] # B[j]
    <3>1. CASE j = forCount + 1
      <4>1. \A k \in 1..Len(L) : L[k] # n
        BY <1>4
      <4>2. QED
        BY <1>7, <1>11, <3>1, <4>1
    <3>2. CASE j # forCount + 1
      <4>1. j \in 1..forCount /\ forCount > 0
        BY <1>4, <3>2
      <4>2. /\ B[j] = A[j] /\ A[j] \in 1..Len(D) /\ o[A[j]] = funName
            /\ \A k \in 1..Len(L) : L[k] # A[j]
        BY <1>11, <1>12, <2>1, <4>1 DEF Open
      <4>3. QED
        BY <1>7, <4>2
    <3>3. QED
      BY <3>1, <3>2
  <2>3. \A i, j \in 1..(forCount + 1) : i < j => B[i] < B[j]
    <3> SUFFICES ASSUME NEW i \in 1..(forCount + 1), NEW j \in 1..(forCount + 1), i < j
                 PROVE  B[i] < B[j]
      OBVIOUS
    <3>1. i \in 1..forCount /\ forCount > 0 /\ B[i] = A[i] /\ A[i] \in 1..Len(D)
      BY <1>4, <1>11, <1>12
    <3>2. CASE j = forCount + 1
      BY <1>4, <1>11, <3>1, <3>2
    <3>3. CASE j # forCount + 1
      <4>1. j \in 1..forCount /\ B[j] = A[j]
        BY <1>4, <1>11, <3>3
      <4>2. QED
        BY <2>1, <3>1, <4>1 DEF Open
    <3>4. QED
      BY <3>2, <3>3
  <2>4. QED
    BY <1>4, <2>2, <2>3 DEF Open
<1>16. Good2(p, S, dicts', L, gs, n, forCount + 1, TRUE, funName, funLineList, funDict)
  <2>1. Blocks(p, L, B, forCount + 1, TRUE, funName, S)
    BY <1>2, <1>15 DEF Blocks
  <2>2. QED
    BY <1>5, <1>7, <1>9, <1>10, <1>13, <1>14, <2>1 DEF Good2, B
<1>17. Good2(p, stack', dicts', forLoopList', forStack', forDict', forCount',
             forDefFlag', funName', funLineList', funDict')
  BY <1>1, <1>5, <1>16 DEF funVars, L
<1>18. Scalars'
  BY <1>1, <1>3 DEF Scalars, funVars
<1>19. QED
  BY <1>17, <1>18, GoodNext

LEMMA BeginKeeps ==
  ASSUME NEW o, NEW S, NEW D, NEW line, Good(o, S, D), Fits(o, line, S),
         Begin(line, S, D)
  PROVE  IInv'
<1>1. /\ line.op = "BEGIN" /\ forDefFlag = FALSE /\ funName = None
      /\ funName' = line.name /\ funLineList' = <<>> /\ stack' = S /\ dicts' = D
      /\ UNCHANGED <<forDict, blockVars, funDict, varDict, sourced, exited>>
  BY DEF Begin, Runs, Good, Scalars
<1>2. AllFiles(S) /\ line.name \in Owner
  BY <1>1, DoneFits DEF Command, Owner
<1>3. Blocks(o, forLoopList, Acts, forCount, FALSE, line.name, S)
  BY <1>1, <1>2 DEF Good, Blocks
<1>4. Bodies(o, forLoopList, line.name, <<>>, funDict)
  BY BodyEmpty DEF Good, Bodies
<1>5. Good2(o, S, D, forLoopList, forStack, forDict, forCount, FALSE,
            line.name, <<>>, funDict)
  BY <1>3, <1>4 DEF Good, Good2, Acts
<1>6. Good2(o, stack', dicts', forLoopList', forStack', forDict', forCount',
            forDefFlag', funName', funLineList', funDict')
  BY <1>1, <1>5 DEF blockVars
<1>7. Scalars'
  BY <1>1, <1>2 DEF Good, Scalars, blockVars
<1>8. QED
  BY <1>6, <1>7, GoodNext

LEMMA SkipKeeps ==
  ASSUME NEW o, NEW S, NEW D, NEW line, Good(o, S, D), Skip(line, S, D)
  PROVE  IInv'
<1>1. Scalars'
  BY DEF Skip, Good, Scalars, blockVars, funVars
<1>2. QED
  BY <1>1, GoodSame DEF Skip, blockVars

LEMMA SetKeeps ==
  ASSUME NEW o, NEW S, NEW D, NEW line, Good(o, S, D), Set(line, S, D)
  PROVE  IInv'
<1>1. Scalars'
  BY DEF Set, Good, Scalars, blockVars, funVars
<1>2. QED
  BY <1>1, GoodSame DEF Set, blockVars

LEMMA OtherKeeps ==
  ASSUME NEW o, NEW S, NEW D, NEW line, NEW args, Good(o, S, D), Good(o, stack, dicts),
         Other(line, args, S, D)
  PROVE  IInv'
<1>1. CASE Error
  BY <1>1, ErrorKeeps
<1>2. CASE ~Error
  <2>1. Scalars'
    BY <1>2 DEF Other, Good, Scalars, blockVars, funVars
  <2>2. QED
    BY <1>2, <2>1, GoodSame DEF Other, blockVars
<1>3. QED
  BY <1>1, <1>2

(* A call is made: of a function that is lower than the owners of all      *)
(* loops being run, or of a file.                                          *)
LEMMA CallKeeps ==
  ASSUME NEW o, NEW S, NEW D, NEW f, Good(o, S, D),
         forDefFlag = FALSE, funName = None,
         stack' = Append(S, f), dicts' = D, f.kind # "loop",
         \/ FileFrame(Append(S, f), Len(S) + 1)
         \/ RunFrame(o, forLoopList, Acts, Append(S, f), Len(S) + 1),
         UNCHANGED <<forDict, forStack, forLoopList, forCount, forDefFlag, funVars>>,
         Scalars'
  PROVE  IInv'
<1>1. /\ Frames(o, forLoopList, Acts, Append(S, f))
      /\ Loops(Append(S, f), Len(Append(S, f))) = Loops(S, Len(S))
  <2>1. Frames(o, forLoopList, Acts, S) /\ Loops(S, Len(S)) \in Nat
    <3>1. Frames(o, forLoopList, Acts, S)
      BY DEF Good
    <3>2. Len(S) \in Nat
      BY <3>1, SeqFacts DEF Frames
    <3>3. QED
      BY <3>1, <3>2, LoopsBound
  <2>2. PICK a, L : a = Acts /\ L = forLoopList
    OBVIOUS
  <2>3. /\ Frames(o, L, a, S) /\ \A j \in 1..Loops(S, Len(S)) : a[j] = a[j]
        /\ \/ FileFrame(Append(S, f), Len(S) + 1)
           \/ RunFrame(o, L, a, Append(S, f), Len(S) + 1)
    BY <2>1, <2>2
  <2>4. /\ Frames(o, L, a, Append(S, f))
        /\ Loops(Append(S, f), Len(Append(S, f)))
             = Loops(S, Len(S)) + (IF f.kind = "loop" THEN 1 ELSE 0)
    BY ONLY <2>3, FramesPush
  <2>5. QED
    BY <2>1, <2>2, <2>4
<1>2. Blocks(o, forLoopList, Acts, forCount, FALSE, None, Append(S, f))
  <2>1. Looping(o, Acts, forCount, S)
    BY DEF Good, Blocks
  <2>2. Looping(o, Acts, forCount, Append(S, f))
    BY <1>1, <2>1 DEF Looping
  <2>3. QED
    BY <2>2 DEF Blocks
<1>3. Good2(o, Append(S, f), D, forLoopList, forStack, forDict, forCount, FALSE,
            None, funLineList, funDict)
  BY <1>1, <1>2 DEF Good, Good2, Acts
<1>4. Good2(o, stack', dicts', forLoopList', forStack', forDict', forCount',
            forDefFlag', funName', funLineList', funDict')
  BY <1>3 DEF funVars
<1>5. QED
  BY <1>4, GoodNext

LEMMA RunKeeps ==
  ASSUME NEW o, NEW S, NEW D, NEW line, NEW args, Good(o, S, D), Good(o, stack, dicts),
         Fits(o, line, S), Run(line, args, S, D)
  PROVE  IInv'
<1> DEFINE f == [kind |-> "run", lines |-> funDict[line.name], pos |-> 0,
                 reps |-> line.n - 1, ca |-> 1, cas |-> Value(line.term, args)]
           T == Append(S, f)
<1>1. CASE Error
  BY <1>1, ErrorKeeps
<1>2. CASE ~Error
  <2>1. /\ line.op = "RUN" /\ forDefFlag = FALSE /\ funName = None
        /\ funDict[line.name] # None
        /\ stack' = IF line.n = 0 THEN S ELSE T
        /\ dicts' = D
        /\ UNCHANGED <<forDict, blockVars, funVars, varDict, sourced, exited>>
    BY <1>2 DEF Run, Runs, Good, Scalars
  <2>2. Scalars'
    BY <2>1 DEF Good, Scalars, blockVars, funVars
  <2>3. CASE line.n = 0
    BY <2>1, <2>2, <2>3, GoodSame DEF blockVars
  <2>4. CASE line.n # 0
    <3>1. /\ Looping(o, Acts, forCount, S) /\ forCount \in Nat
          /\ o \in [1..Len(D) -> Owner]
          /\ Stacks(Len(D), forLoopList, forStack, forDict, forCount)
      BY <2>1 DEF Good, Blocks, Stacks
    <3>2. /\ line.name \in Funs
          /\ \A j \in 1..forCount : Lower(o[Acts[j]], line.name)
      <4>1. CASE AllFiles(S) /\ Command(line)
        <5>1. forCount = 0
          BY <2>1, <4>1, FilesFree
        <5>2. QED
          BY <2>1, <4>1, <5>1 DEF Command
      <4>2. CASE \E x \in Owner, d \in Nat : Running0(o, line, x, d)
        <5>1. PICK x \in Owner, d \in Nat : Running0(o, line, x, d)
          BY <4>2
        <5>2. Lower(x, line.name) /\ line.name \in Funs
          BY <2>1, <5>1 DEF Running0, Stored, Lower
        <5>3. ASSUME NEW j \in 1..forCount PROVE Lower(o[Acts[j]], line.name)
          <6>1. Acts[j] \in 1..Len(D)
            BY <3>1, ActIn DEF Acts
          <6>2. o[Acts[j]] \in Owner
            BY <3>1, <6>1
          <6>3. Lower(o[Acts[j]], x) \/ o[Acts[j]] = x
            BY <5>1 DEF Running0
          <6>4. QED
            BY <5>2, <6>2, <6>3, LowerTrans
        <5>4. QED
          BY <5>2, <5>3
      <4>3. QED
        BY <4>1, <4>2 DEF Fits
    <3>3. Body(o, forLoopList, funDict[line.name], line.name, 0)
      BY <2>1, <3>2 DEF Good, Bodies
    <3>4. /\ f.kind = "run" /\ f.pos = 0 /\ f.lines = funDict[line.name]
          /\ DOMAIN f = {"kind", "lines", "pos", "reps", "ca", "cas"}
      OBVIOUS
    <3> HIDE DEF f
    <3>5. Len(S) \in Nat /\ T[Len(S) + 1] = f /\ \A k \in 1..Len(S) : T[k] = S[k]
      BY SeqFacts, AppendFacts DEF Good, Frames
    <3>6. Loops(T, Len(S) + 1) = forCount
      <4>1. Loops(T, Len(S)) = Loops(S, Len(S))
        BY <3>5, LoopsSame
      <4>2. T[Len(S) + 1].kind # "loop"
        BY <3>4, <3>5
      <4>3. Loops(T, Len(S) + 1) = Loops(T, Len(S)) + 0
        BY <3>5, <4>2, LoopsNext
      <4>4. Loops(S, Len(S)) = forCount
        BY <3>1 DEF Looping
      <4>5. QED
        BY <3>1, <4>1, <4>3, <4>4
    <3> HIDE DEF T
    <3>7. RunFrame(o, forLoopList, Acts, T, Len(S) + 1)
      BY <3>2, <3>3, <3>4, <3>5, <3>6 DEF RunFrame
    <3>8. QED
      BY <2>1, <2>2, <2>4, <3>4, <3>7, CallKeeps DEF T, blockVars
  <2>5. QED
    BY <2>3, <2>4
<1>3. QED
  BY <1>1, <1>2

LEMMA SourceKeeps ==
  ASSUME NEW o, NEW S, NEW D, NEW line, NEW args, Good(o, S, D), Fits(o, line, S),
         Source(line, args, S, D)
  PROVE  IInv'
<1> DEFINE f == [kind |-> "file", lines |-> Library, pos |-> 0, args |-> args]
           T == Append(S, f)
<1>1. /\ line.op = "SOURCE" /\ forDefFlag = FALSE /\ funName = None
      /\ stack' = (IF sourced THEN S ELSE T) /\ dicts' = D /\ sourced' = TRUE
      /\ UNCHANGED <<forDict, blockVars, funVars, varDict, exited>>
  BY DEF Source, Runs, Good, Scalars
<1>2. AllFiles(S)
  BY <1>1, DoneFits
<1>3. Scalars'
  BY <1>1 DEF Good, Scalars, blockVars, funVars
<1>4. CASE sourced
  BY <1>1, <1>3, <1>4, GoodSame DEF blockVars
<1>5. CASE ~sourced
  <2>1. /\ f.kind = "file" /\ f.pos = 0 /\ f.lines = Library
        /\ DOMAIN f = {"kind", "lines", "pos", "args"}
    OBVIOUS
  <2> HIDE DEF f
  <2>2. Len(S) \in Nat /\ T[Len(S) + 1] = f /\ \A k \in 1..Len(S) : T[k] = S[k]
    BY SeqFacts, AppendFacts DEF Good, Frames
  <2> HIDE DEF T
  <2>3. \A k \in 1..(Len(S) + 1) : T[k].kind = "file"
    BY <1>2, <2>1, <2>2 DEF AllFiles
  <2>4. FileFrame(T, Len(S) + 1)
    BY <2>1, <2>2, <2>3 DEF FileFrame
  <2>5. QED
    BY <1>1, <1>3, <1>5, <2>1, <2>4, CallKeeps DEF T, blockVars
<1>6. QED
  BY <1>4, <1>5

LEMMA ProcessKeeps ==
  ASSUME NEW o, NEW S, NEW D, NEW line, NEW args, Good(o, S, D), Good(o, stack, dicts),
         Fits(o, line, S), ProcessCmd(line, args, S, D)
  PROVE  IInv'
<1>1. CASE EndFunction(line, S, D)
  BY <1>1, EndFunctionKeeps
<1>2. CASE StoreInFunction(line, S, D)
  BY <1>2, StoreInFunctionKeeps
<1>3. CASE DoneInner(line, S, D)
  BY <1>3, DoneInnerKeeps
<1>4. CASE DoneOuter(line, args, S, D)
  BY <1>4, DoneOuterKeeps
<1>5. CASE DoneUnexpected(line) \/ EndUnexpected(line)
  BY <1>5, ErrorKeeps DEF DoneUnexpected, EndUnexpected
<1>6. CASE StoreInBlock(line, S, D)
  BY <1>6, StoreInBlockKeeps
<1>7. CASE For(line, args, S, D)
  BY <1>7, ForKeeps
<1>8. CASE Skip(line, S, D)
  BY <1>8, SkipKeeps
<1>9. CASE Forloop(line, args, S, D)
  BY <1>9, ForloopKeeps
<1>10. CASE Begin(line, S, D)
  BY <1>10, BeginKeeps
<1>11. CASE Set(line, S, D)
  BY <1>11, SetKeeps
<1>12. CASE Run(line, args, S, D)
  BY <1>12, RunKeeps
<1>13. CASE Source(line, args, S, D)
  BY <1>13, SourceKeeps
<1>14. CASE Other(line, args, S, D)
  BY <1>14, OtherKeeps
<1>15. QED
  BY <1>1, <1>2, <1>3, <1>4, <1>5, <1>6, <1>7, <1>8, <1>9, <1>10, <1>11, <1>12,
     <1>13, <1>14 DEF ProcessCmd

-----------------------------------------------------------------------------
(* Blocks that have been read stay as they are, seen from the dictionaries *)
(* D before a step and E after it, L and M being forLoopList.              *)
Fixed(L, D, M, E) ==
  \A k \in 1..Len(L) :
    /\ M[k] = L[k]
    /\ E[L[k]].lines = D[L[k]].lines /\ E[L[k]].term = D[L[k]].term

LEMMA FixedSame ==
  ASSUME NEW L, NEW D
  PROVE  Fixed(L, D, L, D)
BY DEF Fixed

LEMMA FixedTwice ==
  ASSUME NEW L, NEW D, NEW M, NEW E, NEW C, Fixed(L, C, L, D), Fixed(L, D, M, E)
  PROVE  Fixed(L, C, M, E)
BY DEF Fixed

LEMMA FixedExcept ==
  ASSUME NEW L, NEW M, NEW D, NEW d, NEW E, IsSeq(D), d \in 1..Len(D),
         \A k \in 1..Len(L) :
           /\ M[k] = L[k] /\ L[k] \in 1..Len(D)
           /\ L[k] = d => E.lines = D[d].lines /\ E.term = D[d].term
  PROVE  Fixed(L, D, M, [D EXCEPT ![d] = E])
<1> DEFINE D2 == [D EXCEPT ![d] = E]
<1>1. /\ D2[d] = E /\ \A n \in 1..Len(D) : n # d => D2[n] = D[n]
  BY ExceptFacts
<1> HIDE DEF D2
<1>2. Fixed(L, D, M, D2)
  BY <1>1 DEF Fixed
<1>3. QED
  BY <1>2 DEF D2

-----------------------------------------------------------------------------
(* Where lines come from.                                                  *)

(* The line that a step carries out, in a state that is good but for the   *)
(* place in the lines, which has been moved.                               *)
Carried(o) ==
  \E line, args, S, D :
    /\ Good(o, S, D) /\ Fits(o, line, S)
    /\ Fixed(forLoopList, dicts, forLoopList, D)
    /\ ProcessCmd(line, args, S, D)

LEMMA ReadLineCarries ==
  ASSUME NEW o, Good(o, stack, dicts), NEW line \in Lines, ReadLine(line)
  PROVE  Carried(o)
<1>1. AllFiles(stack)
  BY DEF ReadLine, AllFiles
<1>2. Fits(o, line, stack)
  BY <1>1, ScriptAssumption DEF ReadLine, Fits
<1>3. ProcessCmd(line, NoArgs, stack, dicts)
  BY DEF ReadLine
<1>4. QED
  BY <1>2, <1>3, FixedSame DEF Carried

(* The innermost call has another position in its lines.                   *)
LEMMA TopMoves ==
  ASSUME NEW o, Good(o, stack, dicts), NEW f, stack # <<>>,
         Top.kind # "loop", f.kind = Top.kind, f.lines = Top.lines,
         DOMAIN f = DOMAIN Top, f.pos \in Nat
  PROVE  Good(o, WithTop(f), dicts)
<1>1. Frames(o, forLoopList, Acts, stack) /\ Len(stack) > 0
  BY DEF Good, Frames, IsSeq
<1>2. /\ Frames(o, forLoopList, Acts, WithTop(f))
      /\ Loops(WithTop(f), Len(WithTop(f))) = Loops(stack, Len(stack))
      /\ AllFiles(stack) => AllFiles(WithTop(f))
  <2>1. PICK a, L : a = Acts /\ L = forLoopList
    OBVIOUS
  <2>2. Frames(o, L, a, stack) /\ Len(stack) > 0
    BY <1>1, <2>1
  <2>3. /\ Last(stack).kind # "loop" /\ f.kind = Last(stack).kind
        /\ f.lines = Last(stack).lines /\ DOMAIN f = DOMAIN Last(stack) /\ f.pos \in Nat
    BY DEF Top
  <2>4. LET T == Append(Front(stack), f)
        IN /\ Frames(o, L, a, T)
           /\ Loops(T, Len(T)) = Loops(stack, Len(stack))
           /\ AllFiles(stack) => AllFiles(T)
    BY ONLY <2>2, <2>3, FramesTop
  <2>5. QED
    BY <2>1, <2>4 DEF WithTop
<1>3. Blocks(o, forLoopList, Acts, forCount, forDefFlag, funName, WithTop(f))
  BY <1>2 DEF Good, Blocks, Looping
<1>4. QED
  BY <1>2, <1>3 DEF Good

(* While anything but files is being called, no block or function is read. *)
LEMMA CalledFree ==
  ASSUME NEW o, Good(o, stack, dicts), stack # <<>>, Top.kind # "file"
  PROVE  /\ ~forDefFlag /\ funName = None
         /\ Looping(o, Acts, forCount, stack)
         /\ Len(stack) \in Nat /\ Len(stack) > 0 /\ Top = stack[Len(stack)]
<1>1. Len(stack) \in Nat /\ Len(stack) > 0 /\ Top = stack[Len(stack)]
  <2>1. IsSeq(stack)
    BY DEF Good, Frames
  <2>2. Len(stack) > 0 /\ Len(stack) \in Nat
    BY <2>1 DEF IsSeq
  <2>3. QED
    BY <2>1, <2>2, FrontFacts DEF Top
<1>2. ~AllFiles(stack)
  BY <1>1 DEF AllFiles
<1>3. QED
  BY <1>1, <1>2 DEF Good, Blocks

LEMMA RunTop ==
  ASSUME NEW o, Good(o, stack, dicts), InFrame("run")
  PROVE  /\ RunFrame(o, forLoopList, Acts, stack, Len(stack))
         /\ Top = stack[Len(stack)] /\ Top.kind = "run"
<1>1. /\ Len(stack) \in Nat /\ Len(stack) > 0 /\ Top = stack[Len(stack)]
      /\ Top.kind = "run"
  BY CalledFree DEF InFrame
<1>2. Len(stack) \in 1..Len(stack)
  BY <1>1
<1>3. \/ stack[Len(stack)].kind = "loop" \/ FileFrame(stack, Len(stack))
      \/ RunFrame(o, forLoopList, Acts, stack, Len(stack))
  BY <1>2 DEF Good, Frames
<1>4. QED
  BY <1>1, <1>3 DEF FileFrame

LEMMA NextRunLineCarries ==
  ASSUME NEW o, Good(o, stack, dicts), NextRunLine
  PROVE  Carried(o)
<1> DEFINE f == [Top EXCEPT !.pos = @ + 1]
           line == Top.lines[Top.pos + 1]
<1>1. /\ InFrame("run") /\ stack # <<>> /\ Top.kind = "run"
      /\ Top.pos < Len(Top.lines)
      /\ ProcessCmd(line, RunArgs(Top), WithTop(f), dicts)
  BY DEF NextRunLine, InFrame
<1>2. /\ ~forDefFlag /\ funName = None /\ Looping(o, Acts, forCount, stack)
      /\ RunFrame(o, forLoopList, Acts, stack, Len(stack))
      /\ Top = stack[Len(stack)]
  BY <1>1, CalledFree, RunTop
<1>3. /\ f.kind = Top.kind /\ f.lines = Top.lines /\ DOMAIN f = DOMAIN Top
      /\ f.pos \in Nat /\ Top.pos \in Nat
  BY <1>2 DEF RunFrame
<1>4. Good(o, WithTop(f), dicts)
  BY <1>1, <1>3, TopMoves
<1>5. Fits(o, line, WithTop(f))
  <2>1. PICK g \in Funs :
          /\ Body(o, forLoopList, Top.lines, g, 0)
          /\ \A j \in 1..Loops(stack, Len(stack)) : Lower(o[Acts[j]], g)
    BY <1>2 DEF RunFrame
  <2>2. \A j \in 1..forCount : Lower(o[Acts[j]], g)
    BY <1>2, <2>1 DEF Looping
  <2>3. Top.pos + 1 \in 1..Len(Top.lines)
    BY <1>1, <1>3, <2>1, SeqFacts DEF Body
  <2>4. Stored(o, forLoopList, line, g, 0)
    BY <2>1, <2>3 DEF Body
  <2>5. Running0(o, line, g, 0)
    BY <2>2, <2>4 DEF Running0
  <2>6. QED
    BY <1>2, <2>5 DEF Fits, Owner
<1> HIDE DEF f, line
<1>6. QED
  BY <1>1, <1>4, <1>5, FixedSame DEF Carried

(* The innermost call ends, and the blocks in progress are then those of   *)
(* the others.                                                             *)
LEMMA CallEnds ==
  ASSUME NEW o, Good(o, stack, dicts), stack # <<>>, Top.kind # "loop",
         stack' = Front(stack), dicts' = dicts,
         UNCHANGED <<forDict, blockVars, funVars, varDict, sourced, exited>>
  PROVE  IInv'
<1>1. Frames(o, forLoopList, Acts, stack) /\ Len(stack) > 0
  BY DEF Good, Frames, IsSeq
<1>2. /\ Frames(o, forLoopList, Acts, Front(stack))
      /\ Loops(Front(stack), Len(Front(stack))) = Loops(stack, Len(stack))
      /\ AllFiles(stack) => AllFiles(Front(stack))
  <2>1. PICK a, L : a = Acts /\ L = forLoopList
    OBVIOUS
  <2>2. /\ Frames(o, L, a, stack) /\ Len(stack) > 0
        /\ \A j \in 1..Loops(stack, Len(stack) - 1) : a[j] = a[j]
    BY <1>1, <2>1
  <2>3. LET T == Front(stack)
        IN /\ Frames(o, L, a, T)
           /\ Loops(stack, Len(stack))
                = Loops(T, Len(T)) + (IF Last(stack).kind = "loop" THEN 1 ELSE 0)
           /\ AllFiles(stack) => AllFiles(T)
    BY ONLY <2>2, FramesPop
  <2>4. Len(Front(stack)) \in Nat
    BY <2>3, SeqFacts DEF Frames
  <2>5. Loops(Front(stack), Len(Front(stack))) \in Nat
    BY <2>4, LoopsBound
  <2>6. QED
    BY <2>1, <2>3, <2>5 DEF Top
<1>3. Blocks(o, forLoopList, Acts, forCount, forDefFlag, funName, Front(stack))
  BY <1>2 DEF Good, Blocks, Looping
<1>4. Good(o, Front(stack), dicts)
  BY <1>2, <1>3 DEF Good
<1>5. Scalars'
  BY DEF Good, Scalars, blockVars, funVars
<1>6. QED
  BY <1>4, <1>5, GoodSame DEF blockVars

LEMMA RunAgainKeeps ==
  ASSUME NEW o, Good(o, stack, dicts), RunAgain
  PROVE  IInv'
<1>1. /\ InFrame("run") /\ stack # <<>> /\ Top.kind = "run"
      /\ UNCHANGED <<dicts, forDict, blockVars, funVars, varDict, sourced, exited>>
  BY DEF RunAgain, InFrame
<1>2. /\ RunFrame(o, forLoopList, Acts, stack, Len(stack))
      /\ Top = stack[Len(stack)]
  BY <1>1, RunTop
<1>3. Scalars'
  BY <1>1 DEF Good, Scalars, blockVars, funVars
<1>4. ASSUME NEW f, stack' = WithTop(f), f.kind = Top.kind, f.lines = Top.lines,
             DOMAIN f = DOMAIN Top, f.pos \in Nat
      PROVE  IInv'
  <2>1. Good(o, WithTop(f), dicts)
    BY <1>1, <1>4, TopMoves
  <2>2. QED
    BY <1>1, <1>3, <1>4, <2>1, GoodSame DEF blockVars
<1>5. CASE stack' = WithTop([Top EXCEPT !.pos = 0, !.ca = @ + 1])
  <2> DEFINE f == [Top EXCEPT !.pos = 0, !.ca = @ + 1]
  <2>1. /\ f.kind = Top.kind /\ f.lines = Top.lines /\ DOMAIN f = DOMAIN Top
        /\ f.pos \in Nat
    BY <1>2 DEF RunFrame
  <2>2. QED
    BY <1>4, <1>5, <2>1
<1>6. CASE stack' = WithTop([Top EXCEPT !.pos = 0, !.ca = 1, !.reps = @ - 1])
  <2> DEFINE f == [Top EXCEPT !.pos = 0, !.ca = 1, !.reps = @ - 1]
  <2>1. /\ f.kind = Top.kind /\ f.lines = Top.lines /\ DOMAIN f = DOMAIN Top
        /\ f.pos \in Nat
    BY <1>2 DEF RunFrame
  <2>2. QED
    BY <1>4, <1>6, <2>1
<1>7. CASE stack' = Front(stack)
  BY <1>1, <1>7, CallEnds
<1>8. QED
  BY <1>5, <1>6, <1>7 DEF RunAgain

LEMMA NextFileLineCarries ==
  ASSUME NEW o, Good(o, stack, dicts), NextFileLine
  PROVE  \/ Carried(o)
         \/ /\ stack # <<>> /\ Top.kind # "loop" /\ stack' = Front(stack)
            /\ UNCHANGED <<dicts, forDict, blockVars, funVars, varDict, sourced, exited>>
<1> DEFINE f == [Top EXCEPT !.pos = @ + 1]
           line == Top.lines[Top.pos + 1]
<1>1. stack # <<>> /\ Top.kind = "file"
  BY DEF NextFileLine, InFrame
<1>2. /\ AllFiles(stack) /\ FileFrame(stack, Len(stack))
      /\ Top = stack[Len(stack)]
  <2>1. Frames(o, forLoopList, Acts, stack) /\ Len(stack) > 0 /\ Last(stack).kind = "file"
    BY <1>1 DEF Good, Frames, IsSeq, Top
  <2>2. PICK a, L : a = Acts /\ L = forLoopList
    OBVIOUS
  <2>3. Frames(o, L, a, stack) /\ Len(stack) > 0 /\ Last(stack).kind = "file"
    BY <2>1, <2>2
  <2>4. QED
    BY ONLY <2>3, TopFile DEF Top
<1>3. CASE Top.pos < Len(Top.lines)
  <2>1. /\ Considered(line)
        /\ ProcessCmd(line, Top.args, WithTop(f), dicts)
    BY <1>3 DEF NextFileLine
  <2>2. /\ f.kind = Top.kind /\ f.lines = Top.lines /\ DOMAIN f = DOMAIN Top
        /\ f.pos \in Nat /\ Top.pos \in Nat /\ Top.lines = Library
    BY <1>2 DEF FileFrame
  <2>3. Good(o, WithTop(f), dicts)
    BY <1>1, <2>2, TopMoves
  <2>4. Command(line)
    BY <1>3, <2>2, ScriptAssumption
  <2>5. AllFiles(WithTop(f))
    <3>1. IsSeq(stack) /\ Len(stack) > 0
      BY <1>1 DEF Good, Frames, IsSeq
    <3>2. /\ IsSeq(Front(stack)) /\ Len(Front(stack)) = Len(stack) - 1
          /\ \A n \in 1..(Len(stack) - 1) : Front(stack)[n] = stack[n]
      BY <3>1, FrontFacts
    <3> HIDE DEF f
    <3>3. /\ Len(WithTop(f)) = Len(Front(stack)) + 1
          /\ WithTop(f)[Len(Front(stack)) + 1] = f
          /\ \A n \in 1..Len(Front(stack)) : WithTop(f)[n] = Front(stack)[n]
          /\ Len(Front(stack)) \in Nat /\ Len(stack) \in Nat
      BY <3>1, <3>2, AppendFacts, SeqFacts DEF WithTop
    <3>4. QED
      BY <1>1, <1>2, <2>2, <3>2, <3>3 DEF AllFiles
  <2>6. Fits(o, line, WithTop(f))
    BY <2>1, <2>4, <2>5 DEF Fits
  <2> HIDE DEF f, line
  <2>7. QED
    BY <2>1, <2>3, <2>6, FixedSame DEF Carried
<1>4. CASE ~(Top.pos < Len(Top.lines))
  <2>1. /\ stack' = Front(stack)
        /\ UNCHANGED <<dicts, forDict, blockVars, funVars, varDict, sourced, exited>>
    BY <1>4 DEF NextFileLine
  <2>2. QED
    BY <1>1, <2>1
<1>5. QED
  BY <1>3, <1>4

(* A loop runs: its block is the last of those in progress.                *)
LEMMA LoopTop ==
  ASSUME NEW o, Good(o, stack, dicts), InFrame("loop")
  PROVE  /\ forDefFlag = FALSE /\ funName = None
         /\ Looping(o, Acts, forCount, stack)
         /\ forCount \in Nat /\ forCount >= 1 /\ forDict \in 1..Len(dicts)
         /\ Acts[forCount] = forDict
         /\ Dict(o, forLoopList, dicts[forDict], forDict)
<1>1. /\ ~forDefFlag /\ funName = None /\ Looping(o, Acts, forCount, stack)
      /\ Len(stack) \in Nat /\ Len(stack) > 0 /\ stack[Len(stack)].kind = "loop"
  BY CalledFree DEF InFrame
<1>2. forCount \in Nat
  BY DEF Good, Stacks
<1>3. forCount >= 1
  <2>1. PICK m \in Nat : m + 1 = Len(stack)
    BY <1>1
  <2>2. Loops(stack, m + 1) = Loops(stack, m) + 1 /\ Loops(stack, m) \in Nat
    <3>1. stack[m + 1].kind = "loop"
      BY <1>1, <2>1
    <3>2. Loops(stack, m) \in Nat
      BY LoopsBound
    <3>3. QED
      BY <3>1, <3>2, LoopsNext
  <2>3. Loops(stack, m + 1) = forCount
    BY <1>1, <2>1 DEF Looping
  <2>4. QED
    BY <2>2, <2>3
<1>4. forDict \in 1..Len(dicts)
  BY <1>2, <1>3 DEF Good, Stacks
<1>5. Acts[forCount] = forDict
  BY <1>2, <1>3 DEF Acts, Act
<1>6. forDefFlag = FALSE
  BY <1>1 DEF Good, Scalars
<1>7. Dict(o, forLoopList, dicts[forDict], forDict)
  BY <1>4 DEF Good, Dicts
<1>8. QED
  BY <1>1, <1>2, <1>3, <1>4, <1>5, <1>6, <1>7

(* A loop's place in its lines, and in its list, is in its dictionary.     *)
LEMMA PlaceMoves ==
  ASSUME NEW o, Good(o, stack, dicts), NEW d \in 1..Len(dicts), NEW E,
         DOMAIN E = Fields, E.lines = dicts[d].lines, E.lineIndx \in Nat
  PROVE  Good(o, stack, [dicts EXCEPT ![d] = E])
<1> DEFINE D == [dicts EXCEPT ![d] = E]
<1>1. Dict(o, forLoopList, E, d) /\ Dicts(o, forLoopList, dicts)
  BY DEF Good, Dicts, Dict
<1>2. Dicts(o, forLoopList, D) /\ Len(D) = Len(dicts)
  <2>1. PICK L, C : L = forLoopList /\ C = dicts
    OBVIOUS
  <2>2. d \in 1..Len(C) /\ Dicts(o, L, C) /\ Dict(o, L, E, d)
    BY <1>1, <2>1
  <2>3. LET D2 == [C EXCEPT ![d] = E]
        IN Dicts(o, L, D2) /\ Len(D2) = Len(C)
    BY ONLY <2>2, DictsExcept
  <2>4. QED
    BY <2>1, <2>3
<1> HIDE DEF D
<1>3. Good(o, stack, D)
  BY <1>2 DEF Good
<1>4. QED
  BY <1>3 DEF D

LEMMA PlaceFixed ==
  ASSUME NEW o, Good(o, stack, dicts), NEW d \in 1..Len(dicts), NEW E,
         E.lines = dicts[d].lines, E.term = dicts[d].term
  PROVE  Fixed(forLoopList, dicts, forLoopList, [dicts EXCEPT ![d] = E])
<1>1. /\ IsSeq(dicts) /\ \A k \in 1..Len(forLoopList) : forLoopList[k] \in 1..Len(dicts)
  BY DEF Good, Dicts, Stacks
<1>2. QED
  BY <1>1, FixedExcept

LEMMA NextLoopLineCarries ==
  ASSUME NEW o, Good(o, stack, dicts), NextLoopLine
  PROVE  Carried(o)
<1> DEFINE dict == dicts[forDict]
           line == dict.lines[dict.lineIndx + 1]
           E == [dict EXCEPT !.lineIndx = @ + 1]
           D == [dicts EXCEPT ![forDict] = E]
<1>1. /\ InFrame("loop") /\ dict.lineIndx < Len(dict.lines)
      /\ ProcessCmd(line, Top.args, stack, D)
  BY DEF NextLoopLine
<1>2. /\ forDefFlag = FALSE /\ funName = None
      /\ Looping(o, Acts, forCount, stack)
      /\ forCount \in Nat /\ forCount >= 1 /\ forDict \in 1..Len(dicts)
      /\ Acts[forCount] = forDict
      /\ Dict(o, forLoopList, dict, forDict)
      /\ o \in [1..Len(dicts) -> Owner]
  BY <1>1, LoopTop DEF Good
<1>3. /\ DOMAIN E = Fields /\ E.lines = dict.lines /\ E.term = dict.term
      /\ E.lineIndx \in Nat
  BY <1>2 DEF Dict, Fields
<1> HIDE DEF E
<1>4. Good(o, stack, D)
  BY <1>2, <1>3, PlaceMoves
<1>5. Fits(o, line, stack)
  <2>1. dict.lineIndx + 1 \in 1..Len(dict.lines)
    BY <1>1, <1>2, SeqFacts DEF Dict, Body
  <2>2. Stored(o, forLoopList, line, o[forDict], forDict)
    BY <1>2, <2>1 DEF Dict, Body
  <2>3. ASSUME NEW j \in 1..forCount
        PROVE  \/ Lower(o[Acts[j]], o[forDict])
               \/ o[Acts[j]] = o[forDict] /\ Acts[j] <= forDict
    <3>0. Acts[j] \in 1..Len(dicts) /\ Len(dicts) \in Nat
      BY <1>2, ActIn, SeqFacts DEF Acts, Good, Dicts
    <3>1. CASE j = forCount
      BY <1>2, <3>0, <3>1
    <3>2. CASE j # forCount
      <4>1. j < forCount /\ forCount \in 1..forCount
        BY <1>2, <3>2
      <4>2. Inner(o, Acts[j], Acts[forCount])
        BY <1>2, <4>1 DEF Looping
      <4>3. QED
        BY <1>2, <3>0, <4>2 DEF Inner
    <3>3. QED
      BY <3>1, <3>2
  <2>4. Running0(o, line, o[forDict], forDict)
    BY <2>2, <2>3 DEF Running0
  <2>5. o[forDict] \in Owner /\ forDict \in Nat
    BY <1>2
  <2>6. QED
    BY <1>2, <2>4, <2>5 DEF Fits
<1>6. Fixed(forLoopList, dicts, forLoopList, D)
  BY <1>2, <1>3, PlaceFixed
<1> HIDE DEF D, line
<1>7. QED
  BY <1>1, <1>4, <1>5, <1>6 DEF Carried

LEMMA NextValueKeeps ==
  ASSUME NEW o, Good(o, stack, dicts), NextValue
  PROVE  IInv' /\ Fixed(forLoopList, dicts, forLoopList', dicts')
<1> DEFINE dict == dicts[forDict]
           E == [dict EXCEPT !.varIndx = @ + 1, !.lineIndx = 0]
           D == [dicts EXCEPT ![forDict] = E]
<1>1. /\ InFrame("loop") /\ stack' = stack
      /\ UNCHANGED <<forDict, blockVars, funVars, sourced, exited>>
      /\ DOMAIN varDict' = DOMAIN varDict
  BY DEF NextValue
<1>2. forDict \in 1..Len(dicts) /\ Dict(o, forLoopList, dict, forDict)
  BY <1>1, LoopTop
<1>3. dicts' = D
  <2>1. dicts' = [dicts EXCEPT ![forDict].varIndx = @ + 1, ![forDict].lineIndx = 0]
    BY DEF NextValue
  <2>2. dicts = [d \in DOMAIN dicts |-> dicts[d]] /\ forDict \in DOMAIN dicts
    BY <1>2, SeqFacts DEF Good, Dicts, IsSeq
  <2>3. QED
    BY <2>1, <2>2
<1>4. /\ DOMAIN E = Fields /\ E.lines = dict.lines /\ E.term = dict.term
      /\ E.lineIndx \in Nat
  BY <1>2 DEF Dict, Fields
<1> HIDE DEF E
<1>5. Good(o, stack, D) /\ Fixed(forLoopList, dicts, forLoopList, D)
  BY <1>2, <1>4, PlaceMoves, PlaceFixed
<1>6. Scalars'
  BY <1>1 DEF Good, Scalars, blockVars, funVars
<1> HIDE DEF D
<1>7. IInv'
  BY <1>1, <1>3, <1>5, <1>6, GoodSame DEF blockVars
<1>8. QED
  BY <1>1, <1>3, <1>5, <1>7 DEF blockVars

LEMMA LoopEnds ==
  ASSUME NEW o, Good(o, stack, dicts), EndLoop
  PROVE  IInv'
<1> DEFINE L == forLoopList
           A == Acts
           T == Front(stack)
           B == Act(forDict', forStack', forCount - 1)
<1>1. /\ InFrame("loop") /\ stack' = T /\ forCount' = forCount - 1
      /\ IF forCount > 1
         THEN forDict' = Last(forStack) /\ forStack' = Front(forStack)
         ELSE forDict' = forDict /\ forStack' = forStack
      /\ UNCHANGED <<dicts, forLoopList, forDefFlag, forloopCounter, funVars,
                     varDict, sourced, exited>>
  BY DEF EndLoop
<1>2. /\ forDefFlag = FALSE /\ funName = None
      /\ Looping(o, A, forCount, stack)
      /\ forCount \in Nat /\ forCount >= 1
  BY <1>1, LoopTop
<1>3. /\ Frames(o, L, A, stack) /\ Len(stack) > 0 /\ Last(stack).kind = "loop"
      /\ Len(dicts) \in Nat /\ None \notin Nat
      /\ Stacks(Len(dicts), L, forStack, forDict, forCount)
  BY <1>1, SeqFacts, ScriptAssumption DEF Good, Frames, IsSeq, InFrame, Top, Dicts
<1>4. /\ Stacks(Len(dicts), L, forStack', forDict', forCount - 1)
      /\ \A j \in 1..(forCount - 1) : B[j] = A[j]
  <2>1. CASE forCount > 1
    <3>1. IsSeq(L) /\ \A k \in 1..Len(L) : L[k] \in 1..Len(dicts)
      BY <1>3 DEF Stacks
    <3>2. /\ Stacks(Len(dicts), L, Front(forStack), Last(forStack), forCount - 1)
          /\ \A j \in 1..(forCount - 1) :
               Act(Last(forStack), Front(forStack), forCount - 1)[j] = A[j]
      BY ONLY <1>3, <2>1, <3>1, ActPop DEF Acts, A
    <3>3. QED
      BY <1>1, <2>1, <3>2
  <2>2. CASE forCount = 1
    BY <1>1, <1>3, <2>2 DEF Stacks
  <2>3. QED
    BY <1>2, <2>1, <2>2
<1>5. Loops(stack, Len(stack) - 1) = forCount - 1
  <2>1. PICK m \in Nat : m + 1 = Len(stack)
    BY <1>3, SeqFacts DEF Frames
  <2>2. stack[m + 1].kind = "loop"
    BY <1>3, <2>1, FrontFacts DEF Frames
  <2>3. Loops(stack, m) \in Nat
    BY LoopsBound
  <2>4. Loops(stack, m + 1) = Loops(stack, m) + 1
    BY <2>2, <2>3, LoopsNext
  <2>5. Loops(stack, m + 1) = forCount /\ m = Len(stack) - 1
    BY <1>2, <2>1 DEF Looping
  <2>6. QED
    BY <2>3, <2>4, <2>5
<1> HIDE DEF T, B, A, L
<1>6. Frames(o, L, B, T) /\ Loops(T, Len(T)) = forCount - 1
  <2>1. \A j \in 1..Loops(stack, Len(stack) - 1) : B[j] = A[j]
    BY <1>4, <1>5
  <2>2. LET S == Front(stack)
        IN /\ Frames(o, L, B, S)
           /\ Loops(stack, Len(stack))
                = Loops(S, Len(S)) + (IF Last(stack).kind = "loop" THEN 1 ELSE 0)
    BY ONLY <1>3, <2>1, FramesPop
  <2>3. Len(T) \in Nat
    BY <2>2, SeqFacts DEF Frames, T
  <2>4. Loops(T, Len(T)) \in Nat
    BY <2>3, LoopsBound
  <2>5. Loops(stack, Len(stack)) = forCount
    BY <1>2 DEF Looping
  <2>6. QED
    BY <1>2, <1>3, <2>2, <2>4, <2>5 DEF T
<1>7. Blocks(o, L, B, forCount - 1, FALSE, None, T)
  <2>1. \A i, j \in 1..(forCount - 1) : i < j => Inner(o, B[i], B[j])
    <3>1. \A i \in 1..(forCount - 1) : i \in 1..forCount
      BY <1>2
    <3>2. QED
      BY <1>2, <1>4, <3>1 DEF Looping
  <2>2. QED
    BY <1>6, <2>1 DEF Blocks, Looping
<1>8. Good2(o, T, dicts, L, forStack', forDict', forCount - 1, FALSE, None,
            funLineList, funDict)
  BY <1>2, <1>4, <1>6, <1>7 DEF Good2, Good, B, L
<1>9. Good2(o, stack', dicts', forLoopList', forStack', forDict', forCount',
            forDefFlag', funName', funLineList', funDict')
  BY <1>1, <1>2, <1>8 DEF funVars, L
<1>10. Scalars'
  BY <1>1 DEF Good, Scalars, funVars
<1>11. QED
  BY <1>9, <1>10, GoodNext

LEMMA ScriptInit ==
  Init => IInv
<1> SUFFICES ASSUME Init PROVE IInv
  OBVIOUS
<1> DEFINE o == [d \in 1..0 |-> None]
<1>1. /\ stack = <<>> /\ dicts = <<>> /\ forStack = <<>> /\ forLoopList = <<>>
      /\ forDict = None /\ forCount = 0 /\ forDefFlag = FALSE /\ funName = None
      /\ funDict = [f \in Funs |-> None]
      /\ Len(<<>>) = 0 /\ IsSeq(<<>>)
  BY DEF Init, IsSeq
<1>2. o \in [1..Len(dicts) -> Owner]
  BY <1>1 DEF Owner
<1>3. Dicts(o, forLoopList, dicts) /\ Frames(o, forLoopList, Acts, stack)
  BY <1>1 DEF Dicts, Frames
<1>4. Stacks(Len(dicts), forLoopList, forStack, forDict, forCount)
  BY <1>1 DEF Stacks
<1>5. Blocks(o, forLoopList, Acts, forCount, forDefFlag, funName, stack)
  <2>1. AllFiles(stack)
    BY <1>1 DEF AllFiles
  <2>2. QED
    BY <1>1, <2>1, LoopsNone DEF Blocks, Looping
<1>6. Bodies(o, forLoopList, funName, funLineList, funDict)
  BY <1>1 DEF Bodies
<1>7. Scalars
  <2>1. /\ exited = FALSE /\ forDefFlag = FALSE /\ sourced = FALSE
        /\ forloopCounter = 0 /\ funName = None
        /\ DOMAIN varDict = Vars /\ DOMAIN funDict = Funs
    BY DEF Init, NoArgs
  <2>2. 0 \in 0..ForloopMax
    BY ScriptAssumption
  <2>3. QED
    BY <2>1, <2>2 DEF Scalars, Owner
<1> HIDE DEF o
<1>8. QED
  BY <1>2, <1>3, <1>4, <1>5, <1>6, <1>7 DEF IInv, Good

LEMMA ScriptNext ==
  IInv /\ [Next]_vars => IInv'
<1> SUFFICES ASSUME IInv, [Next]_vars PROVE IInv'
  OBVIOUS
<1>0. PICK o : Good(o, stack, dicts)
  BY DEF IInv
<1>1. CASE Carried(o)
  <2>1. PICK line, args, S, D :
          /\ Good(o, S, D) /\ Fits(o, line, S)
          /\ Fixed(forLoopList, dicts, forLoopList, D)
          /\ ProcessCmd(line, args, S, D)
    BY <1>1 DEF Carried
  <2>2. QED
    BY <1>0, <2>1, ProcessKeeps
<1>2. ASSUME NEW line \in Lines, ReadLine(line) PROVE IInv'
  BY <1>0, <1>1, <1>2, ReadLineCarries
<1>3. CASE NextRunLine \/ NextLoopLine
  BY <1>0, <1>1, <1>3, NextRunLineCarries, NextLoopLineCarries
<1>4. CASE NextFileLine
  BY <1>0, <1>1, <1>4, NextFileLineCarries, CallEnds
<1>5. CASE RunAgain
  BY <1>0, <1>5, RunAgainKeeps
<1>6. CASE NextValue
  BY <1>0, <1>6, NextValueKeeps
<1>7. CASE EndLoop
  BY <1>0, <1>7, LoopEnds
<1>8. CASE UNCHANGED vars
  <2>1. Scalars'
    BY <1>0, <1>8 DEF Good, Scalars, vars, blockVars, funVars
  <2>2. QED
    BY <1>0, <1>8, <2>1, GoodSame DEF vars, blockVars
<1>9. QED
  BY <1>1, <1>2, <1>3, <1>4, <1>5, <1>6, <1>7, <1>8 DEF Next, Execute

LEMMA ScriptInvariant ==
  Spec => []IInv
BY ScriptInit, ScriptNext, PTL DEF Spec

-----------------------------------------------------------------------------
(* Each block in progress is there once: blocks being read are in the order*)
(* in which they were opened, and a loop runs only later blocks of the same*)
(* owner or functions of a lower level.                                    *)
LEMMA ActDistinct ==
  ASSUME NEW o, NEW L, NEW A, NEW fc, NEW flag, NEW x, NEW S, NEW n \in Nat, fc \in Nat,
         o \in [1..n -> Owner], \A j \in 1..fc : A[j] \in 1..n,
         Blocks(o, L, A, fc, flag, x, S)
  PROVE  \A i, j \in 1..fc : A[i] = A[j] => i = j
<1>1. ASSUME NEW i \in 1..fc, NEW j \in 1..fc, i < j
      PROVE  A[i] # A[j]
  <2>1. A[i] \in 1..n /\ A[j] \in 1..n /\ o[A[i]] \in Owner /\ o[A[j]] \in Owner
    OBVIOUS
  <2>2. CASE flag
    <3>1. A[i] < A[j]
      BY <1>1, <2>2 DEF Blocks, Open
    <3>2. QED
      BY <2>1, <3>1
  <2>3. CASE ~flag
    <3>1. Inner(o, A[i], A[j])
      BY <1>1, <2>3 DEF Blocks, Looping
    <3>2. ASSUME NEW y \in Owner PROVE ~Lower(y, y)
      <4>1. y \in Funs => y # None /\ Level[y] \in Nat
        BY ScriptAssumption
      <4>2. QED
        BY <4>1 DEF Lower, MayRun
    <3>3. QED
      BY <2>1, <3>1, <3>2 DEF Inner
  <2>4. QED
    BY <2>2, <2>3
<1>2. QED
  BY <1>1

(* The globals that describe blocks agree with each other: forDict and the *)
(* elements of forStack and forLoopList are dictionaries that exist, and   *)
(* forloopCounter stays within forloop_max.                                *)
THEOREM GlobalsAgree ==
  Spec => []TypeOK
<1>1. IInv => TypeOK
  <2> SUFFICES ASSUME NEW o, Good(o, stack, dicts) PROVE TypeOK
    BY DEF IInv
  <2>1. Stacks(Len(dicts), forLoopList, forStack, forDict, forCount) /\ Scalars
    BY DEF Good
  <2>2. QED
    BY <2>1 DEF Stacks, Scalars, TypeOK, Owner
<1>2. QED
  BY <1>1, ScriptInvariant, PTL

(* forCount, forDict and forStack describe the loops in progress: forCount *)
(* is the number of calls that run one, whatever blocks were read and run  *)
(* before, and no block is in progress twice, so that none loses the       *)
(* position that it keeps in its dictionary.                               *)
THEOREM PositionsOwn ==
  Spec => []OwnPosition
<1>1. IInv => OwnPosition
  <2> SUFFICES ASSUME NEW o, Good(o, stack, dicts) PROVE OwnPosition
    BY DEF IInv
  <2> DEFINE A == Acts
             n == Len(forStack) - (forCount - 1)
             active == {forDict} \cup {forStack[k] : k \in (n + 1)..Len(forStack)}
  <2>1. /\ Stacks(Len(dicts), forLoopList, forStack, forDict, forCount)
        /\ Blocks(o, forLoopList, A, forCount, forDefFlag, funName, stack)
        /\ o \in [1..Len(dicts) -> Owner] /\ Len(dicts) \in Nat
    BY SeqFacts DEF Good, Dicts
  <2>2. ~forDefFlag => forCount = Running
    BY <2>1 DEF Blocks, Looping, Running, Loops
  <2>3. ASSUME forCount > 0 PROVE n >= 0 /\ Cardinality(active) = forCount
    <3>1. /\ forCount \in Nat /\ Len(forStack) \in Nat /\ Len(forStack) >= forCount - 1
      BY <2>1, <2>3, SeqFacts DEF Stacks
    <3>2. \A j \in 1..forCount : A[j] \in 1..Len(dicts)
      BY <2>1, ActIn DEF Acts
    <3> HIDE DEF active, A
    <3>3. \A i, j \in 1..forCount : A[i] = A[j] => i = j
      BY <2>1, <3>1, <3>2, ActDistinct
    <3>4. A \in [1..forCount -> active]
      <4>1. ASSUME NEW j \in 1..forCount, j # forCount
            PROVE  forStack[Len(forStack) - (forCount - 1) + j] \in active
        <5>1. Len(forStack) - (forCount - 1) + j \in (n + 1)..Len(forStack)
          BY <3>1, <4>1
        <5>2. QED
          BY <5>1 DEF active
      <4>2. forDict \in active
        BY DEF active
      <4>3. QED
        BY <4>1, <4>2 DEF A, Acts, Act
    <3>5. ASSUME NEW d \in active PROVE \E j \in 1..forCount : A[j] = d
      <4>1. CASE d = forDict
        <5>1. forCount \in 1..forCount /\ A[forCount] = forDict
          BY <2>3, <3>1 DEF A, Acts, Act
        <5>2. QED
          BY <4>1, <5>1
      <4>2. CASE d # forDict
        <5>1. PICK k \in (n + 1)..Len(forStack) : d = forStack[k]
          BY <4>2 DEF active
        <5>2. PICK j : j = k - n
          OBVIOUS
        <5>3. j \in 1..forCount /\ j # forCount /\ k = n + j
          BY <3>1, <5>2
        <5>4. A[j] = d
          BY <5>1, <5>3 DEF A, Acts, Act
        <5>5. QED
          BY <5>3, <5>4
      <4>3. QED
        BY <4>1, <4>2
    <3>6. A \in Bijection(1..forCount, active)
      BY <3>3, <3>4, <3>5 DEF Bijection, Injection, Surjection, IsInjective
    <3>7. ExistsBijection(1..forCount, active)
      BY <3>6 DEF ExistsBijection
    <3>8. QED
      BY <3>1, <3>7, FS_CountingElements
  <2>4. QED
    BY <2>2, <2>3 DEF OwnPosition
<1>2. QED
  BY <1>1, ScriptInvariant, PTL

-----------------------------------------------------------------------------
(* A loop that begins changes only its place.                              *)
LEMMA RunLoopFixes ==
  ASSUME NEW L, NEW S, NEW D, NEW k, NEW args, NEW loops, NEW count, NEW o,
         L = forLoopList, Fixed(L, dicts, L, D),
         Dicts(o, L, D), \A i \in 1..Len(L) : L[i] \in 1..Len(D),
         \A i \in 1..Len(L) : loops[i] = L[i],
         loops[k] \in 1..Len(D),
         RunLoop(k, args, S, D, loops, count)
  PROVE  Fixed(L, dicts, forLoopList', dicts')
<1>1. CASE Error
  BY <1>1, FixedSame DEF Error, blockVars
<1>2. CASE ~Error
  <2> DEFINE d == loops[k]
             E == [D[d] EXCEPT !.varIndx = 0, !.lineIndx = Len(D[d].lines)]
  <2>1. forLoopList' = loops
    BY <1>2 DEF RunLoop
  <2>2. dicts' = [D EXCEPT ![d] = E]
    <3>1. dicts' = [D EXCEPT ![d].varIndx = 0, ![d].lineIndx = Len(D[d].lines)]
      BY <1>2 DEF RunLoop
    <3>2. D = [n \in DOMAIN D |-> D[n]] /\ d \in DOMAIN D
      BY SeqFacts DEF Dicts, IsSeq
    <3>3. QED
      BY <3>1, <3>2
  <2>3. E.lines = D[d].lines /\ E.term = D[d].term
    BY DEF Dicts, Dict, Fields
  <2>4. IsSeq(D) /\ d \in 1..Len(D)
    BY DEF Dicts
  <2> HIDE DEF E, d
  <2>5. Fixed(L, D, loops, [D EXCEPT ![d] = E])
    BY <2>3, <2>4, FixedExcept
  <2>6. QED
    BY <2>1, <2>2, <2>5, FixedTwice
<1>3. QED
  BY <1>1, <1>2

LEMMA ProcessFixes ==
  ASSUME NEW o, NEW S, NEW D, NEW line, NEW args, Good(o, S, D),
         Fits(o, line, S), Fixed(forLoopList, dicts, forLoopList, D),
         ProcessCmd(line, args, S, D)
  PROVE  Fixed(forLoopList, dicts, forLoopList', dicts')
<1> DEFINE L == forLoopList
           d == forDict
<1>1. /\ IsSeq(L) /\ Len(L) \in Nat /\ IsSeq(D) /\ Len(D) \in Nat /\ Dicts(o, L, D)
      /\ \A k \in 1..Len(L) : L[k] \in 1..Len(D)
      /\ Stacks(Len(D), L, forStack, d, forCount)
      /\ forDefFlag \in BOOLEAN
  BY SeqFacts DEF Good, Stacks, Dicts, Scalars
<1>2. forDefFlag => Open(o, L, Acts, forCount, funName)
  BY DEF Good, Blocks
<1>3. CASE Error
  BY <1>3, FixedSame DEF Error, blockVars
<1>4. CASE dicts' = D /\ forLoopList' = L
  BY <1>4
<1>5. CASE DoneInner(line, S, D)
  <2> DEFINE e == Last(forStack)
             M == Append(L, d)
             E == [D[e] EXCEPT !.lines = Append(@, FORLOOP(Len(M)))]
  <2>1. /\ forLoopList' = M /\ dicts' = [D EXCEPT ![e] = E]
        /\ forDefFlag /\ forCount > 1
    BY <1>5 DEF DoneInner
  <2>2. /\ forCount \in Nat /\ IsSeq(forStack) /\ Len(forStack) \in Nat
        /\ Len(forStack) >= forCount - 1
    BY <1>1, <2>1, SeqFacts DEF Stacks
  <2>3. Acts[forCount - 1] = e /\ forCount - 1 \in 1..forCount
    <3>1. e = forStack[Len(forStack)]
      BY <2>1, <2>2, FrontFacts
    <3>2. Len(forStack) - (forCount - 1) + (forCount - 1) = Len(forStack)
      BY <2>2
    <3>3. QED
      BY <2>1, <2>2, <3>1, <3>2 DEF Acts, Act
  <2>4. e \in 1..Len(D) /\ \A k \in 1..Len(L) : L[k] # e
    <3>1. \A k \in 1..Len(L) : L[k] # Acts[forCount - 1]
      BY <1>2, <2>1, <2>3 DEF Open
    <3>2. Acts[forCount - 1] \in 1..Len(D)
      BY <1>1, <2>3, ActIn DEF Acts
    <3>3. QED
      BY <2>3, <3>1, <3>2
  <2>5. \A k \in 1..Len(L) : M[k] = L[k]
    BY <1>1, AppendFacts
  <2> HIDE DEF e, M, E
  <2>6. Fixed(L, D, M, [D EXCEPT ![e] = E])
    BY <1>1, <2>4, <2>5, FixedExcept
  <2>7. QED
    BY <2>1, <2>6, FixedTwice
<1>6. CASE DoneOuter(line, args, S, D)
  <2> DEFINE M == Append(L, d)
  <2>1. d \in 1..Len(D)
    BY <1>1, <1>6 DEF DoneOuter, Stacks
  <2>2. M[Len(M)] = d /\ \A k \in 1..Len(L) : M[k] = L[k]
    BY <1>1, AppendFacts
  <2>3. CASE funName # None
    <3>1. forLoopList' = M /\ dicts' = D
      BY <1>6, <2>3 DEF DoneOuter
    <3>2. Fixed(L, D, M, D)
      BY <2>2 DEF Fixed
    <3>3. QED
      BY <3>1, <3>2, FixedTwice
  <2>4. CASE funName = None
    <3>1. RunLoop(Len(M), args, S, D, M, 0)
      BY <1>6, <2>4 DEF DoneOuter
    <3> HIDE DEF M
    <3>2. QED
      BY <1>1, <2>1, <2>2, <3>1, RunLoopFixes
  <2>5. QED
    BY <2>3, <2>4
<1>7. CASE StoreInBlock(line, S, D)
  <2> DEFINE E == [D[d] EXCEPT !.lines = Append(@, line)]
  <2>1. /\ forLoopList' = L /\ dicts' = [D EXCEPT ![d] = E] /\ forDefFlag
    BY <1>7 DEF StoreInBlock, blockVars
  <2>2. forCount \in 1..forCount /\ forCount > 0
    BY <1>1, <1>2, <2>1 DEF Open, Stacks
  <2>3. Acts[forCount] = d
    BY <2>2 DEF Acts, Act
  <2>4. d \in 1..Len(D) /\ \A k \in 1..Len(L) : L[k] # d
    BY <1>1, <1>2, <2>1, <2>2, <2>3 DEF Open, Stacks
  <2> HIDE DEF E, d
  <2>5. Fixed(L, D, L, [D EXCEPT ![d] = E])
    BY <1>1, <2>4, FixedExcept
  <2>6. QED
    BY <2>1, <2>5, FixedTwice
<1>8. CASE For(line, args, S, D)
  <2>1. forLoopList' = L /\ \E new : dicts' = Append(D, new)
    BY <1>8 DEF For
  <2>2. PICK new : dicts' = Append(D, new)
    BY <2>1
  <2>3. \A k \in 1..Len(D) : dicts'[k] = D[k]
    BY <1>1, <2>2, AppendFacts
  <2>4. Fixed(L, D, L, dicts')
    BY <1>1, <2>3 DEF Fixed
  <2>5. QED
    BY <2>1, <2>4, FixedTwice
<1>9. CASE Forloop(line, args, S, D)
  <2>1. /\ RunLoop(line.n, args, S, D, L, forCount)
        /\ line.op = "FORLOOP"
    BY <1>9 DEF Forloop, Runs
  <2>2. PICK x \in Owner, e \in Nat : Running0(o, line, x, e)
    BY <2>1 DEF Fits, Command, Commands
  <2>3. line.n \in 1..Len(L)
    BY <2>1, <2>2 DEF Running0, Stored
  <2>4. QED
    BY <1>1, <2>1, <2>3, RunLoopFixes
<1>10. CASE \/ EndFunction(line, S, D) \/ StoreInFunction(line, S, D)
            \/ DoneUnexpected(line) \/ Skip(line, S, D) \/ Begin(line, S, D)
            \/ EndUnexpected(line) \/ Set(line, S, D) \/ Run(line, args, S, D)
            \/ Source(line, args, S, D) \/ Other(line, args, S, D)
  <2>1. Error \/ (dicts' = D /\ forLoopList' = L)
    BY <1>10 DEF EndFunction, StoreInFunction, DoneUnexpected, Skip, Begin,
       EndUnexpected, Set, Run, Source, Other, blockVars
  <2>2. QED
    BY <1>3, <1>4, <2>1
<1>11. QED
  BY <1>5, <1>6, <1>7, <1>8, <1>9, <1>10 DEF ProcessCmd

LEMMA StepFixes ==
  ASSUME IInv, [Next]_vars
  PROVE  Fixed(forLoopList, dicts, forLoopList', dicts')
<1>0. PICK o : Good(o, stack, dicts)
  BY DEF IInv
<1>1. CASE dicts' = dicts /\ forLoopList' = forLoopList
  BY <1>1, FixedSame
<1>2. CASE Carried(o)
  <2>1. PICK line, args, S, D :
          /\ Good(o, S, D) /\ Fits(o, line, S)
          /\ Fixed(forLoopList, dicts, forLoopList, D)
          /\ ProcessCmd(line, args, S, D)
    BY <1>2 DEF Carried
  <2>2. QED
    BY <2>1, ProcessFixes
<1>3. ASSUME NEW line \in Lines, ReadLine(line)
      PROVE  Fixed(forLoopList, dicts, forLoopList', dicts')
  BY <1>0, <1>2, <1>3, ReadLineCarries
<1>4. CASE NextRunLine \/ NextLoopLine
  BY <1>0, <1>2, <1>4, NextRunLineCarries, NextLoopLineCarries
<1>5. CASE NextFileLine
  BY <1>0, <1>1, <1>2, <1>5, NextFileLineCarries DEF blockVars
<1>6. CASE NextValue
  BY <1>0, <1>6, NextValueKeeps
<1>7. CASE RunAgain \/ EndLoop \/ UNCHANGED vars
  <2>1. dicts' = dicts /\ forLoopList' = forLoopList
    BY <1>7 DEF RunAgain, EndLoop, vars, blockVars
  <2>2. QED
    BY <1>1, <2>1
<1>8. QED
  BY <1>3, <1>4, <1>5, <1>6, <1>7 DEF Next, Execute

(* A block whose DONE has been read does not change: not by the lines that *)
(* are read later, since blocks being read are not in forLoopList, and not *)
(* by running it or others, which changes only the place in its lines and  *)
(* its list.                                                               *)
THEOREM BlocksStay ==
  Spec => BlocksFixed
<1>1. IInv /\ [Next]_vars => [ReadBlocksStay]_vars
  BY StepFixes DEF Fixed, ReadBlocksStay
<1>2. QED
  BY <1>1, ScriptInvariant, PTL DEF Spec, BlocksFixed
=============================================================================
