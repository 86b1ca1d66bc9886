--------------------------- MODULE BsdacctdProofs ---------------------------
(***************************************************************************)
(* Proofs about Bsdacctd for every record, block and buffer length.        *)
(*                                                                         *)
(* The inductive invariant adds to TailIntact what makes it inductive: no  *)
(* block lies past the end of the file (so st_blocks exceeds st_size by    *)
(* less than one block), and while a punch is pending the file still has   *)
(* the size fstat() returned, or the consumer has truncated it.            *)
(***************************************************************************)
EXTENDS Bsdacctd, FiniteSetTheorems, TLAPS

BlocksInFile == \A b \in blocks : b * Blk < size

StatInv ==
  pc = "punch" =>
    /\ stat.real >= 2 * Buf
    /\ stat.real < stat.off + Blk
    /\ size = stat.off \/ size = 0

IInv == TypeOK /\ TailIntact /\ BlocksInFile /\ StatInv

(* The block a unit lies in starts at or before it and ends after it.      *)
LEMMA BlockOf ==
  ASSUME NEW u \in Nat
  PROVE  /\ u \div Blk \in Nat
         /\ (u \div Blk) * Blk <= u
         /\ u < (u \div Blk + 1) * Blk
<1>1. Blk \in Nat /\ Blk > 0
  BY BsdacctdAssumption
<1>2. QED
  BY <1>1, Z3

(* st_blocks counts at most the blocks the file spans.                     *)
LEMMA UsageBound ==
  ASSUME TypeOK, BlocksInFile
  PROVE  /\ Cardinality(blocks) \in Nat
         /\ Usage \in Nat
         /\ Usage < size + Blk
<1>1. Blk \in Nat /\ Blk > 0 /\ size \in Nat
  BY BsdacctdAssumption DEF TypeOK
<1>2. Cardinality(blocks) \in Nat
  BY FS_CardinalityType DEF TypeOK
<1>3. CASE size = 0
  <2>1. blocks = {}
    <3> SUFFICES ASSUME NEW b \in blocks PROVE FALSE
      OBVIOUS
    <3>1. b \in Nat /\ b * Blk < 0
      BY <1>3 DEF TypeOK, BlocksInFile
    <3>2. b * Blk >= 0
      BY <1>1, <3>1, Z3
    <3>3. b * Blk \in Int
      BY <1>1, <3>1, Z3
    <3>4. QED
      BY <3>1, <3>2, <3>3
  <2>2. Cardinality(blocks) = 0
    BY <2>1, FS_EmptySet
  <2>3. QED
    BY <1>1, <1>3, <2>2 DEF Usage
<1>4. CASE size > 0
  <2> DEFINE last == (size - 1) \div Blk
  <2>1. /\ last \in Nat
        /\ last * Blk <= size - 1
        /\ size - 1 < (last + 1) * Blk
    BY <1>1, <1>4, BlockOf
  <2> HIDE DEF last
  <2>2. ASSUME NEW b \in blocks PROVE b \in 0 .. last
    <3>1. b \in Nat /\ b * Blk < size
      BY DEF TypeOK, BlocksInFile
    <3>2. b * Blk < (last + 1) * Blk
      BY <1>1, <2>1, <3>1, Z3
    <3>3. b < last + 1
      BY <1>1, <2>1, <3>1, <3>2, Z3
    <3>4. QED
      BY <2>1, <3>1, <3>3
  <2>3. Cardinality(0 .. last) = last + 1 /\ IsFiniteSet(0 .. last)
    BY <2>1, FS_Interval
  <2>4. Cardinality(blocks) <= last + 1
    BY <2>2, <2>3, FS_Subset
  <2>5. Cardinality(blocks) * Blk <= (last + 1) * Blk
    BY <1>1, <1>2, <2>1, <2>4, Z3
  <2>6. (last + 1) * Blk = last * Blk + Blk
    BY <1>1, <2>1, Z3
  <2>7. QED
    BY <1>1, <1>2, <2>1, <2>5, <2>6, Z3 DEF Usage
<1>5. QED
  BY <1>1, <1>2, <1>3, <1>4

(* Appending keeps the file well formed.                                   *)
LEMMA GrowKeeps ==
  ASSUME TypeOK, TailIntact, BlocksInFile, NEW k \in Nat, Grow(k)
  PROVE  /\ size' \in Nat
         /\ blocks' \in SUBSET Nat /\ IsFiniteSet(blocks')
         /\ live' \in SUBSET (0 .. (size' - 1))
         /\ TailIntact'
         /\ BlocksInFile'
<1> DEFINE new == size .. (size + k - 1)
           opened == {u \div Blk : u \in new}
<1>1. /\ Blk \in Nat /\ Blk > 0 /\ size \in Nat
      /\ size' = size + k /\ live' = live \cup new
      /\ blocks' = blocks \cup opened
  BY BsdacctdAssumption DEF TypeOK, Grow
<1>2. ASSUME NEW b \in opened
      PROVE  b \in Nat /\ b * Blk < size + k
  <2>1. PICK u \in new : b = u \div Blk
    OBVIOUS
  <2>2. u \in Nat /\ u < size + k
    BY <1>1
  <2>3. b \in Nat /\ b * Blk <= u
    BY <2>1, <2>2, BlockOf
  <2>4. b * Blk \in Int
    BY <1>1, <2>3, Z3
  <2>5. QED
    BY <1>1, <2>2, <2>3, <2>4
<1>3. IsFiniteSet(opened)
  <2>1. \A b \in opened : b \in 0 .. (size + k)
    <3> SUFFICES ASSUME NEW b \in opened PROVE b \in 0 .. (size + k)
      OBVIOUS
    <3>1. b \in Nat /\ b * Blk < size + k
      BY <1>2
    <3>2. b <= b * Blk /\ b * Blk \in Int
      BY <1>1, <3>1, Z3
    <3>3. QED
      BY <1>1, <3>1, <3>2
  <2>2. IsFiniteSet(0 .. (size + k))
    BY <1>1, FS_Interval
  <2>3. QED
    BY <2>1, <2>2, FS_Subset
<1>4. blocks' \in SUBSET Nat /\ IsFiniteSet(blocks')
  BY <1>1, <1>2, <1>3, FS_Union DEF TypeOK
<1>5. size' \in Nat /\ live' \in SUBSET (0 .. (size' - 1))
  BY <1>1 DEF TypeOK
<1>6. TailIntact'
  <2> SUFFICES ASSUME NEW u \in 0 .. (size' - 1), u >= size' - Keep
               PROVE  u \in live'
    BY DEF TailIntact, Keep
  <2>1. CASE u >= size
    BY <1>1, <2>1
  <2>2. CASE u < size
    <3>1. u \in 0 .. (size - 1) /\ u >= size - Keep
      BY <1>1, <2>2, BsdacctdAssumption DEF Keep
    <3>2. QED
      BY <1>1, <3>1 DEF TailIntact
  <2>3. QED
    BY <1>1, <2>1, <2>2
<1>7. BlocksInFile'
  <2> SUFFICES ASSUME NEW b \in blocks' PROVE b * Blk < size + k
    BY <1>1 DEF BlocksInFile
  <2>1. CASE b \in opened
    BY <1>2, <2>1
  <2>2. CASE b \in blocks
    <3>1. b \in Nat /\ b * Blk < size
      BY <2>2 DEF TypeOK, BlocksInFile
    <3>2. b * Blk \in Int
      BY <1>1, <3>1, Z3
    <3>3. QED
      BY <1>1, <3>1, <3>2
  <2>3. QED
    BY <1>1, <2>1, <2>2
<1>8. QED
  BY <1>4, <1>5, <1>6, <1>7

(* A pending punch stops at least Keep units before the end of the file.   *)
LEMMA PunchStopsEarly ==
  ASSUME IInv, pc = "punch"
  PROVE  /\ PunchOffset \in Nat
         /\ \/ size = 0
            \/ PunchOffset + Buf <= size - Keep
<1>1. /\ Blk \in Nat /\ Blk > 0 /\ Buf \in Nat /\ size \in Nat
      /\ stat.real \in Nat /\ stat.off \in Nat
      /\ stat.real >= 2 * Buf /\ stat.real < stat.off + Blk
      /\ size = stat.off \/ size = 0
  BY BsdacctdAssumption DEF IInv, TypeOK, StatInv
<1>2. CASE stat.real > stat.off
  BY <1>1, <1>2 DEF PunchOffset, Keep
<1>3. CASE ~(stat.real > stat.off)
  BY <1>1, <1>3 DEF PunchOffset, Keep
<1>4. QED
  BY <1>2, <1>3

(* Punching a hole keeps the file well formed and its tail intact.         *)
LEMMA PunchKeeps ==
  ASSUME IInv, pc = "punch", PunchHole(PunchOffset, Buf)
  PROVE  /\ size' = size
         /\ blocks' \in SUBSET blocks
         /\ live' \in SUBSET live
         /\ \A u \in live : u >= size - Keep => u \in live'
<1>1. size' = size /\ blocks' \in SUBSET blocks /\ live' \in SUBSET live
  BY DEF PunchHole
<1>2. ASSUME NEW u \in live, u >= size - Keep PROVE u \in live'
  <2>1. /\ size \in Nat /\ u \in 0 .. (size - 1)
        /\ Buf \in Nat /\ Keep \in Int
    BY BsdacctdAssumption DEF IInv, TypeOK, Keep
  <2>2. PunchOffset \in Nat /\ PunchOffset + Buf <= size - Keep
    BY <2>1, PunchStopsEarly
  <2>3. u \notin PunchOffset .. (PunchOffset + Buf - 1)
    BY <1>2, <2>1, <2>2
  <2>4. QED
    BY <2>3 DEF PunchHole
<1>3. QED
  BY <1>1, <1>2

LEMMA InitInv == Init => IInv
<1> SUFFICES ASSUME Init PROVE IInv
  OBVIOUS
<1>1. IsFiniteSet({})
  BY FS_EmptySet
<1>2. TypeOK
  BY <1>1 DEF Init, TypeOK, Locations
<1>3. TailIntact
  BY DEF Init, TailIntact
<1>4. BlocksInFile
  BY DEF Init, BlocksInFile
<1>5. StatInv
  BY DEF Init, StatInv
<1>6. QED
  BY <1>2, <1>3, <1>4, <1>5 DEF IInv

(* The steps that leave the file alone.                                    *)
LEMMA QuietSteps ==
  ASSUME IInv, UNCHANGED file,
         pc' \in Locations, acctsz' \in Nat, stat' \in [real : Nat, off : Nat],
         synced' \in BOOLEAN, crashed' \in BOOLEAN, torn' \in BOOLEAN,
         pc' # "punch"
  PROVE  IInv'
<1>1. TypeOK'
  BY DEF IInv, TypeOK, file
<1>2. TailIntact' /\ BlocksInFile'
  BY DEF IInv, TailIntact, BlocksInFile, file, Keep
<1>3. StatInv'
  BY DEF StatInv
<1>4. QED
  BY <1>1, <1>2, <1>3 DEF IInv

LEMMA StepInv == IInv /\ [Next]_vars => IInv'
<1> SUFFICES ASSUME IInv, [Next]_vars PROVE IInv'
  OBVIOUS
<1>a. /\ TypeOK /\ TailIntact /\ BlocksInFile /\ StatInv
      /\ Rec \in Nat /\ Rec > 0 /\ Buf \in Nat /\ Buf > 0 /\ Blk \in Nat
      /\ pc \in Locations /\ acctsz \in Nat /\ stat \in [real : Nat, off : Nat]
      /\ synced \in BOOLEAN /\ crashed \in BOOLEAN /\ torn \in BOOLEAN
  BY BsdacctdAssumption DEF IInv, TypeOK
<1>1. CASE Open
  BY <1>a, <1>1, QuietSteps DEF Open, Locations
<1>2. CASE LoadFamily
  BY <1>a, <1>2, QuietSteps DEF LoadFamily, Locations, ghosts
<1>3. CASE Register
  BY <1>a, <1>3, QuietSteps DEF Register, Locations, ghosts
<1>4. CASE Recv
  BY <1>a, <1>4, QuietSteps DEF Recv, Locations, ghosts
<1>5. CASE Write
  <2>1. Grow(Rec) /\ pc' = "trim" /\ acctsz' = acctsz + Rec
        /\ UNCHANGED <<stat, ghosts>>
    BY <1>5 DEF Write
  <2>2. TypeOK' /\ TailIntact' /\ BlocksInFile'
    BY <1>a, <2>1, GrowKeeps DEF TypeOK, Locations, ghosts
  <2>3. StatInv'
    BY <2>1 DEF StatInv
  <2>4. QED
    BY <2>2, <2>3 DEF IInv
<1>6. CASE BadWrite
  <2>1. PICK k \in 0 .. (Rec - 1) : Grow(k) /\ torn' = (torn \/ k > 0)
    BY <1>6 DEF BadWrite
  <2>2. /\ pc' = "down" /\ crashed' = TRUE /\ torn' \in BOOLEAN
        /\ UNCHANGED <<acctsz, stat, synced>>
    BY <1>6, <2>1 DEF BadWrite
  <2>3. k \in Nat
    BY <1>a
  <2>4. TypeOK' /\ TailIntact' /\ BlocksInFile'
    BY <1>a, <2>1, <2>2, <2>3, GrowKeeps DEF TypeOK, Locations
  <2>5. StatInv'
    BY <2>2 DEF StatInv
  <2>6. QED
    BY <2>4, <2>5 DEF IInv
<1>7. CASE TrimCheck
  BY <1>a, <1>7, QuietSteps DEF TrimCheck, Locations, ghosts
<1>8. CASE Fstat
  <2>1. Usage \in Nat /\ Usage < size + Blk /\ size \in Nat
    BY <1>a, UsageBound DEF TypeOK
  <2>2. stat' = [real |-> Usage, off |-> size] /\ UNCHANGED <<file, crashed, torn>>
    BY <1>8 DEF Fstat
  <2>3. CASE Usage < 2 * Buf
    <3>1. pc' = "recv" /\ acctsz' = Usage /\ synced' = TRUE
      BY <1>a, <1>8, <2>1, <2>3 DEF Fstat
    <3>2. stat' \in [real : Nat, off : Nat] /\ UNCHANGED file
      BY <2>1, <2>2
    <3>3. QED
      BY <1>a, <2>1, <2>2, <3>1, <3>2, QuietSteps DEF Locations
  <2>4. CASE Usage >= 2 * Buf
    <3>1. pc' = "punch" /\ UNCHANGED <<acctsz, synced>>
      BY <1>a, <1>8, <2>1, <2>4 DEF Fstat
    <3>2. TypeOK'
      BY <1>a, <2>1, <2>2, <3>1 DEF TypeOK, Locations, file
    <3>3. TailIntact' /\ BlocksInFile'
      BY <1>a, <2>2 DEF TailIntact, BlocksInFile, file, Keep
    <3>4. StatInv'
      BY <2>1, <2>2, <2>4 DEF StatInv, file
    <3>5. QED
      BY <3>2, <3>3, <3>4 DEF IInv
  <2>5. QED
    BY <1>a, <2>1, <2>3, <2>4
<1>9. CASE Punch
  <2>1. /\ pc = "punch" /\ PunchHole(PunchOffset, Buf)
        /\ acctsz' = stat.real - Buf /\ synced' = TRUE /\ pc' = "recv"
        /\ UNCHANGED <<stat, crashed, torn>>
    BY <1>9 DEF Punch
  <2>2. /\ size' = size /\ blocks' \in SUBSET blocks /\ live' \in SUBSET live
        /\ \A u \in live : u >= size - Keep => u \in live'
    BY <2>1, PunchKeeps
  <2>3. acctsz' \in Nat
    BY <1>a, <2>1 DEF StatInv
  <2>4. IsFiniteSet(blocks')
    BY <1>a, <2>2, FS_Subset DEF TypeOK
  <2>5. TypeOK'
    BY <1>a, <2>1, <2>2, <2>3, <2>4 DEF TypeOK, Locations
  <2>6. TailIntact'
    BY <1>a, <2>2 DEF TailIntact, Keep
  <2>7. BlocksInFile'
    BY <1>a, <2>2 DEF BlocksInFile
  <2>8. StatInv'
    BY <2>1 DEF StatInv
  <2>9. QED
    BY <2>5, <2>6, <2>7, <2>8 DEF IInv
<1>10. CASE Crash
  BY <1>a, <1>10, QuietSteps DEF Crash, Locations
<1>11. CASE Truncate
  <2>1. /\ size' = 0 /\ live' = {} /\ blocks' = {} /\ torn' = FALSE
        /\ UNCHANGED <<pc, acctsz, stat, synced, crashed>>
    BY <1>11 DEF Truncate
  <2>2. IsFiniteSet({})
    BY FS_EmptySet
  <2>3. TypeOK'
    BY <1>a, <2>1, <2>2 DEF TypeOK
  <2>4. TailIntact' /\ BlocksInFile'
    BY <2>1 DEF TailIntact, BlocksInFile
  <2>5. StatInv'
    BY <1>a, <2>1 DEF StatInv
  <2>6. QED
    BY <2>3, <2>4, <2>5 DEF IInv
<1>12. CASE UNCHANGED vars
  <2>1. TypeOK' /\ TailIntact' /\ BlocksInFile' /\ StatInv'
    BY <1>a, <1>12 DEF vars, TypeOK, TailIntact, BlocksInFile, StatInv, Keep
  <2>2. QED
    BY <2>1 DEF IInv
<1>13. QED
  BY <1>1, <1>2, <1>3, <1>4, <1>5, <1>6, <1>7, <1>8, <1>9, <1>10, <1>11, <1>12
     DEF Next, Daemon

LEMMA Invariance == Spec => []IInv
BY InitInv, StepInv, PTL DEF Spec

(* The variables keep their types.                                         *)
THEOREM TypeCorrect == Spec => []TypeOK
<1>1. IInv => TypeOK
  BY DEF IInv
<1>2. QED
  BY <1>1, Invariance, PTL

(* Whatever the consumer truncates and however often the daemon dies, the  *)
(* last Buf - (Blk - 1) units of the file have never been punched.         *)
THEOREM TailNeverPunched == Spec => []TailIntact
<1>1. IInv => TailIntact
  BY DEF IInv
<1>2. QED
  BY <1>1, Invariance, PTL

(* A punch computed before a truncation removes nothing afterwards: the    *)
(* file is empty then, and no other writer has extended it.                *)
THEOREM LatePunchHarmless == Spec => PunchAfterTruncateHarmless
<1>1. ASSUME IInv, Next, pc = "punch", pc' = "recv", size # stat.off
      PROVE  UNCHANGED file
  <2>1. Punch
    BY <1>1 DEF Next, Daemon, Open, LoadFamily, Register, Recv, Write,
                TrimCheck, Fstat, BadWrite, Crash, Truncate
  <2>2. size = 0
    BY <1>1 DEF IInv, StatInv
  <2>3. live = {}
    BY <1>1, <2>2 DEF IInv, TypeOK
  <2>4. blocks = {}
    <3> SUFFICES ASSUME NEW b \in blocks PROVE FALSE
      OBVIOUS
    <3>1. b \in Nat /\ b * Blk < 0 /\ Blk \in Nat
      BY <1>1, <2>2, BsdacctdAssumption DEF IInv, TypeOK, BlocksInFile
    <3>2. b * Blk >= 0 /\ b * Blk \in Int
      BY <3>1, Z3
    <3>3. QED
      BY <3>1, <3>2
  <2>5. QED
    BY <2>1, <2>3, <2>4 DEF Punch, PunchHole, file
<1>2. IInv /\ [Next]_vars
        => [pc = "punch" /\ pc' = "recv" /\ size # stat.off => UNCHANGED file]_vars
  BY <1>1
<1>3. QED
  BY <1>2, Invariance, PTL DEF Spec, PunchAfterTruncateHarmless

(* Every behaviour of the daemon is one of the log AcctFile describes.     *)
THEOREM Refinement == Spec => ImplementsLog
<1>1. Init => Log!Init
  BY DEF Init, Log!Init, Log!Offsets
<1>2. IInv /\ [Next]_vars => [Log!Next]_(Log!vars)
  <2> SUFFICES ASSUME IInv, [Next]_vars
               PROVE  Log!Next \/ UNCHANGED file
    BY DEF file, Log!vars
  <2>1. CASE Write
    <3>1. Log!Append(Rec)
      BY <2>1 DEF Write, Grow, Log!Append
    <3>2. Rec \in 0 .. Rec
      BY BsdacctdAssumption
    <3>3. QED
      BY <3>1, <3>2 DEF Log!Next
  <2>2. CASE BadWrite
    <3>1. PICK k \in 0 .. (Rec - 1) : Grow(k)
      BY <2>2 DEF BadWrite
    <3>2. Log!Append(k) /\ k \in 0 .. Rec
      BY <3>1, BsdacctdAssumption DEF Grow, Log!Append
    <3>3. QED
      BY <3>2 DEF Log!Next
  <2>3. CASE Truncate
    BY <2>3 DEF Truncate, Log!Truncate, Log!Next
  <2>4. CASE Punch
    <3>1. /\ size' = size /\ live' \in SUBSET live
          /\ \A u \in live : u >= size - Keep => u \in live'
      BY <2>4, PunchKeeps DEF Punch
    <3>2. Log!Reclaim
      BY <3>1 DEF Log!Reclaim, Log!KeptTail
    <3>3. QED
      BY <3>2 DEF Log!Next
  <2>5. CASE Open \/ LoadFamily \/ Register \/ Recv \/ TrimCheck \/ Fstat
             \/ Crash \/ UNCHANGED vars
    BY <2>5 DEF Open, LoadFamily, Register, Recv, TrimCheck, Fstat, Crash, vars,
                file
  <2>6. QED
    BY <2>1, <2>2, <2>3, <2>4, <2>5 DEF Next, Daemon
<1>3. QED
  BY <1>1, <1>2, Invariance, PTL DEF Spec, ImplementsLog, Log!Spec

-----------------------------------------------------------------------------
(***************************************************************************)
(* Proofs about trimming, for every record, block and buffer length: what  *)
(* is left of the file is one piece of whole records, in no more blocks    *)
(* than it needs, and the daemon's estimate of its disk usage is close.    *)
(*                                                                         *)
(* What carries the proofs is the distance from the start of an allocated  *)
(* block to the end of the file: Extent(n) says that it is at most n for   *)
(* every block.  A record written adds as much to it as to acctsz, while   *)
(* disk usage itself grows by whole blocks at times acctsz cannot see.     *)
(***************************************************************************)

Extent(n) == \A b \in blocks : size - b * Blk <= n

(* Between two trims.                                                      *)
Idle == pc \in {"family", "register", "recv", "write"}

(* st_blocks of a pending punch is a number of blocks, and still that of   *)
(* the file unless the consumer has truncated it.                          *)
Pending ==
  pc = "punch" => /\ stat.real % Rec = 0
                  /\ size = stat.off => stat.real = Usage

(* acctsz falls behind by less than a block.                               *)
Estimated == synced /\ pc # "down" => Extent(acctsz + Blk)

(* Without restarts acctsz has counted every record from the first on.     *)
Counted ==
  ~crashed =>
    /\ ~torn
    /\ acctsz % Rec = 0
    /\ pc = "down" => size = 0
    /\ pc # "down" => Extent(acctsz + Blk)
    /\ Idle => Extent(2 * Buf + Blk - Rec)
    /\ Extent(2 * Buf + Blk)

TInv == IInv /\ OnePiece /\ NoLeak /\ Pending /\ WholeRecords /\ Estimated /\ Counted

-----------------------------------------------------------------------------
(* Multiples of the lengths.                                               *)

LEMMA Quotient ==
  ASSUME NEW d \in Nat \ {0}, NEW a \in Nat
  PROVE  /\ a \div d \in Nat
         /\ (a \div d) * d <= a
         /\ a < (a \div d + 1) * d
         /\ a % d = 0 => a = (a \div d) * d
BY Z3

LEMMA ProductDivides ==
  ASSUME NEW d \in Nat \ {0}, NEW q \in Nat
  PROVE  q * d \in Nat /\ (q * d) % d = 0
BY Z3

LEMMA SumDivides ==
  ASSUME NEW d \in Nat \ {0}, NEW a \in Nat, NEW b \in Nat,
         a % d = 0, b % d = 0
  PROVE  (a + b) % d = 0
<1> DEFINE q == a \div d
           r == b \div d
<1>1. q \in Nat /\ a = q * d /\ r \in Nat /\ b = r * d
  BY Quotient
<1> HIDE DEF q, r
<1>2. a + b = (q + r) * d
  BY <1>1, Z3
<1>3. QED
  BY <1>1, <1>2, ProductDivides

LEMMA DifferenceDivides ==
  ASSUME NEW d \in Nat \ {0}, NEW a \in Nat, NEW b \in Nat,
         a % d = 0, b % d = 0, b <= a
  PROVE  (a - b) % d = 0
<1> DEFINE q == a \div d
           r == b \div d
<1>1. q \in Nat /\ a = q * d /\ r \in Nat /\ b = r * d
  BY Quotient
<1> HIDE DEF q, r
<1>2. a - b = (q - r) * d
  BY <1>1, Z3
<1>3. r <= q
  BY <1>1, Z3
<1>4. QED
  BY <1>1, <1>2, <1>3, ProductDivides

(* Of two multiples the smaller is smaller by a whole length.              *)
LEMMA MultiplesApart ==
  ASSUME NEW d \in Nat \ {0}, NEW a \in Nat, NEW b \in Nat,
         a % d = 0, b % d = 0, a < b
  PROVE  a + d <= b
<1> DEFINE q == a \div d
           r == b \div d
<1>1. q \in Nat /\ a = q * d /\ r \in Nat /\ b = r * d
  BY Quotient
<1> HIDE DEF q, r
<1>2. q < r
  BY <1>1, Z3
<1>3. (q + 1) * d <= r * d
  BY <1>1, <1>2, Z3
<1>4. (q + 1) * d = q * d + d
  BY <1>1, Z3
<1>5. QED
  BY <1>1, <1>3, <1>4

LEMMA DividesTrans ==
  ASSUME NEW d \in Nat \ {0}, NEW e \in Nat \ {0}, NEW a \in Nat,
         e % d = 0, a % e = 0
  PROVE  a % d = 0
<1> DEFINE q == a \div e
           r == e \div d
<1>1. q \in Nat /\ a = q * e /\ r \in Nat /\ e = r * d
  BY Quotient
<1> HIDE DEF q, r
<1>2. a = (q * r) * d /\ q * r \in Nat
  BY <1>1, Z3
<1>3. QED
  BY <1>2, ProductDivides

(* Records tile blocks and blocks tile the buffer.                         *)
LEMMA Lengths ==
  /\ Rec \in Nat \ {0} /\ Blk \in Nat \ {0} /\ Buf \in Nat \ {0}
  /\ Rec <= Blk /\ Blk <= Buf
  /\ Keep \in Nat \ {0}
  /\ Blk % Rec = 0 /\ Buf % Blk = 0 /\ Buf % Rec = 0
  /\ (2 * Buf) % Blk = 0 /\ (2 * Buf + Blk) % Blk = 0
  /\ (2 * Buf) % Rec = 0 /\ (2 * Buf + Blk) % Rec = 0
<1>1. /\ Rec \in Nat \ {0} /\ Blk \in Nat \ {0} /\ Buf \in Nat \ {0}
      /\ Blk % Rec = 0 /\ Buf % Blk = 0
  BY BsdacctdAssumption
<1>2. Buf % Rec = 0
  BY <1>1, DividesTrans
<1>3. 0 % Rec = 0 /\ 0 % Blk = 0
  BY <1>1, Z3
<1>4. Rec <= Blk /\ Blk <= Buf
  BY <1>1, <1>3, MultiplesApart
<1>5. (2 * Buf) % Blk = 0 /\ (2 * Buf + Blk) % Blk = 0
  <2> DEFINE m == Buf \div Blk
  <2>1. m \in Nat /\ Buf = m * Blk
    BY <1>1, Quotient
  <2> HIDE DEF m
  <2>2. 2 * Buf = (2 * m) * Blk /\ 2 * Buf + Blk = (2 * m + 1) * Blk
    BY <1>1, <2>1, Z3
  <2>3. 2 * m \in Nat /\ 2 * m + 1 \in Nat
    BY <2>1
  <2>4. QED
    BY <1>1, <2>2, <2>3, ProductDivides
<1>6. (2 * Buf) % Rec = 0 /\ (2 * Buf + Blk) % Rec = 0
  <2>1. 2 * Buf \in Nat /\ 2 * Buf + Blk \in Nat
    BY <1>1
  <2>2. QED
    BY <1>1, <1>5, <2>1, DividesTrans
<1>7. QED
  BY <1>1, <1>2, <1>4, <1>5, <1>6 DEF Keep

-----------------------------------------------------------------------------
(* Disk usage and the distance of the blocks from the end of the file.     *)

(* Blocks that start at most n units before the end of the file use less   *)
(* than n units and a block.                                               *)
LEMMA UsageBelow ==
  ASSUME TypeOK, BlocksInFile, NEW n \in Nat, Extent(n)
  PROVE  Usage < n + Blk
<1>1. /\ Blk \in Nat /\ Blk > 0 /\ size \in Nat
      /\ Cardinality(blocks) \in Nat /\ IsFiniteSet(blocks)
      /\ \A b \in blocks : b \in Nat
  BY BsdacctdAssumption, UsageBound DEF TypeOK
<1>2. CASE blocks = {}
  <2>1. Cardinality(blocks) = 0
    BY <1>2, FS_EmptySet
  <2>2. Usage = 0
    BY <1>1, <2>1 DEF Usage
  <2>3. QED
    BY <1>1, <2>2
<1>3. CASE blocks # {}
  <2> DEFINE gap == IF size <= n THEN 0 ELSE size - n
             first == (gap + Blk - 1) \div Blk
             last == (size - 1) \div Blk
  <2>1. size > 0
    <3>1. PICK b \in blocks : TRUE
      BY <1>3
    <3>2. b \in Nat /\ b * Blk < size
      BY <1>1, <3>1 DEF BlocksInFile
    <3>3. b * Blk >= 0 /\ b * Blk \in Int
      BY <1>1, <3>2, Z3
    <3>4. QED
      BY <1>1, <3>2, <3>3
  <2>2. last \in Nat /\ last * Blk <= size - 1 /\ size - 1 < (last + 1) * Blk
    BY <1>1, <2>1, Quotient
  <2>3. gap \in Nat /\ size - n <= gap /\ gap <= size
        /\ (gap > 0 => gap = size - n)
    BY <1>1
  <2> HIDE DEF gap
  <2>4. /\ first \in Nat /\ first * Blk <= gap + Blk - 1
        /\ gap + Blk - 1 < (first + 1) * Blk
    BY <1>1, <2>3, Quotient
  <2> HIDE DEF first, last
  <2>5. /\ (first + 1) * Blk = first * Blk + Blk /\ first * Blk \in Nat
        /\ (last + 1) * Blk = last * Blk + Blk /\ last * Blk \in Nat
    BY <1>1, <2>2, <2>4, Z3
  <2>6. ASSUME NEW b \in blocks PROVE b \in first .. last
    <3>1. b \in Nat /\ b * Blk < size /\ size - b * Blk <= n
      BY <1>1 DEF Extent, BlocksInFile
    <3>2. b * Blk \in Nat
      BY <1>1, <3>1, Z3
    <3>3. b * Blk < (last + 1) * Blk
      BY <1>1, <2>2, <2>5, <3>1, <3>2
    <3>4. b < last + 1
      BY <1>1, <2>2, <3>1, <3>3, Z3
    <3>5. gap <= b * Blk
      BY <1>1, <2>3, <3>1, <3>2
    <3>6. first * Blk < b * Blk + Blk
      BY <1>1, <2>3, <2>4, <2>5, <3>2, <3>5
    <3>7. first < b + 1
      BY <1>1, <2>4, <3>1, <3>6, Z3
    <3>8. QED
      BY <2>2, <2>4, <3>1, <3>4, <3>7
  <2>7. first <= last
    BY <1>3, <2>2, <2>4, <2>6
  <2>8. /\ IsFiniteSet(first .. last)
        /\ Cardinality(first .. last) = last - first + 1
    BY <2>2, <2>4, <2>7, FS_Interval
  <2>9. Cardinality(blocks) <= last - first + 1
    BY <2>6, <2>8, FS_Subset
  <2>10. Cardinality(blocks) * Blk <= (last - first + 1) * Blk
    BY <1>1, <2>2, <2>4, <2>9, Z3
  <2>11. (last - first + 1) * Blk = last * Blk - first * Blk + Blk
    BY <1>1, <2>2, <2>4, Z3
  <2>12. last * Blk - first * Blk <= size - 1 - gap
    BY <1>1, <2>2, <2>3, <2>4, <2>5
  <2>13. Usage <= size - gap + Blk - 1 /\ Usage \in Nat
    BY <1>1, <2>2, <2>3, <2>5, <2>10, <2>11, <2>12, UsageBound DEF Usage
  <2>14. QED
    BY <1>1, <2>3, <2>13
<1>4. QED
  BY <1>2, <1>3

(* When the data that is left is one piece and no block is kept without    *)
(* data, every block from an allocated one to the end is allocated.        *)
LEMMA UsageAbove ==
  ASSUME TypeOK, OnePiece, NoLeak
  PROVE  Extent(Usage)
<1> SUFFICES ASSUME NEW b \in blocks PROVE size - b * Blk <= Usage
  BY DEF Extent
<1>1. /\ Blk \in Nat /\ Blk > 0 /\ size \in Nat
      /\ Cardinality(blocks) \in Nat /\ IsFiniteSet(blocks)
  BY BsdacctdAssumption, FS_CardinalityType DEF TypeOK
<1>2. PICK u \in live : b = u \div Blk
  BY DEF NoLeak
<1>3. u \in Nat /\ u < size /\ size > 0
  BY <1>1 DEF TypeOK
<1>4. b \in Nat /\ b * Blk <= u /\ u < (b + 1) * Blk
  BY <1>1, <1>2, <1>3, Quotient
<1> DEFINE last == (size - 1) \div Blk
<1>5. last \in Nat /\ last * Blk <= size - 1 /\ size - 1 < (last + 1) * Blk
  BY <1>1, <1>3, Quotient
<1> HIDE DEF last
<1>6. /\ (last + 1) * Blk = last * Blk + Blk /\ last * Blk \in Nat
      /\ (b + 1) * Blk = b * Blk + Blk /\ b * Blk \in Nat
  BY <1>1, <1>4, <1>5, Z3
<1>7. b <= last
  <2>1. b * Blk < (last + 1) * Blk
    BY <1>1, <1>3, <1>4, <1>5, <1>6
  <2>2. QED
    BY <1>1, <1>4, <1>5, <2>1, Z3
<1>8. ASSUME NEW c \in b .. last PROVE c \in blocks
  <2>1. CASE c = b
    BY <2>1
  <2>2. CASE c # b
    <3>1. c \in Nat /\ c >= b + 1 /\ c <= last
      BY <1>4, <1>5, <2>2
    <3>2. /\ c * Blk >= (b + 1) * Blk /\ c * Blk <= last * Blk
          /\ c * Blk \in Nat /\ (c * Blk) \div Blk = c
      BY <1>1, <1>4, <1>5, <3>1, Z3
    <3>3. c * Blk \in u .. (size - 1)
      BY <1>1, <1>3, <1>4, <1>5, <1>6, <3>2
    <3>4. c * Blk \in live
      BY <3>3 DEF OnePiece
    <3>5. QED
      BY <3>2, <3>4 DEF NoLeak
  <2>3. QED
    BY <2>1, <2>2
<1>9. Cardinality(b .. last) = last - b + 1
  BY <1>4, <1>5, <1>7, FS_Interval
<1>10. last - b + 1 <= Cardinality(blocks)
  BY <1>1, <1>8, <1>9, FS_Subset
<1>11. (last - b + 1) * Blk <= Cardinality(blocks) * Blk
  BY <1>1, <1>4, <1>5, <1>10, Z3
<1>12. (last - b + 1) * Blk = last * Blk - b * Blk + Blk
  BY <1>1, <1>4, <1>5, Z3
<1>13. Cardinality(blocks) * Blk \in Nat
  BY <1>1, Z3
<1>14. QED
  BY <1>1, <1>4, <1>5, <1>6, <1>11, <1>12, <1>13 DEF Usage

LEMMA ExtentGrows ==
  ASSUME TypeOK, NEW m \in Nat, NEW n \in Nat, m <= n, Extent(m)
  PROVE  Extent(n)
<1> SUFFICES ASSUME NEW b \in blocks PROVE size - b * Blk <= n
  BY DEF Extent
<1>1. b \in Nat /\ Blk \in Nat /\ size \in Nat
  BY BsdacctdAssumption DEF TypeOK
<1>2. b * Blk \in Nat
  BY <1>1, Z3
<1>3. QED
  BY <1>1, <1>2 DEF Extent

LEMMA NoBlocks ==
  ASSUME TypeOK, BlocksInFile, size = 0
  PROVE  blocks = {} /\ live = {}
<1>1. Blk \in Nat /\ Blk > 0
  BY BsdacctdAssumption
<1>2. ASSUME NEW b \in blocks PROVE FALSE
  <2>1. b \in Nat /\ b * Blk < 0
    BY DEF TypeOK, BlocksInFile
  <2>2. b * Blk >= 0 /\ b * Blk \in Int
    BY <1>1, <2>1, Z3
  <2>3. QED
    BY <2>1, <2>2
<1>3. QED
  BY <1>2 DEF TypeOK

(* Disk usage is a number of blocks, hence of records.                     *)
LEMMA UsageDivides ==
  ASSUME TypeOK
  PROVE  Usage \in Nat /\ Usage % Blk = 0 /\ Usage % Rec = 0
<1>1. Cardinality(blocks) \in Nat
  BY FS_CardinalityType DEF TypeOK
<1>2. Usage \in Nat /\ Usage % Blk = 0
  BY <1>1, Lengths, ProductDivides DEF Usage
<1>3. QED
  BY <1>2, Lengths, DividesTrans

-----------------------------------------------------------------------------
(* What appending and punching do to the shape of the file.                *)

LEMMA GrowShape ==
  ASSUME TypeOK, OnePiece, NoLeak, NEW k \in Nat, Grow(k)
  PROVE  OnePiece' /\ NoLeak'
<1> DEFINE new == size .. (size + k - 1)
<1>1. /\ size \in Nat /\ size' = size + k /\ live' = live \cup new
      /\ blocks' = blocks \cup {u \div Blk : u \in new}
      /\ live \in SUBSET (0 .. (size - 1))
  BY DEF TypeOK, Grow
<1>2. OnePiece'
  <2> SUFFICES ASSUME NEW u \in live', NEW w \in u .. (size' - 1)
               PROVE  w \in live'
    BY DEF OnePiece
  <2>1. u \in Nat /\ w \in Nat /\ u <= w /\ w < size + k
    BY <1>1
  <2>2. CASE w >= size
    BY <1>1, <2>1, <2>2
  <2>3. CASE w < size
    <3>1. u \in live /\ w \in u .. (size - 1)
      BY <1>1, <2>1, <2>3
    <3>2. QED
      BY <1>1, <3>1 DEF OnePiece
  <2>4. QED
    BY <1>1, <2>1, <2>2, <2>3
<1>3. NoLeak'
  BY <1>1 DEF NoLeak
<1>4. QED
  BY <1>2, <1>3

(* Appending k units moves the end of the file k units away from the old   *)
(* blocks, and starts new ones at most k and a block before it.            *)
LEMMA GrowExtent ==
  ASSUME TypeOK, NEW k \in Nat, Grow(k), NEW n \in Nat, Blk <= n, Extent(n)
  PROVE  Extent(n + k)'
<1>1. Blk \in Nat /\ Blk > 0 /\ size \in Nat
  BY BsdacctdAssumption DEF TypeOK
<1>2. /\ size' = size + k
      /\ blocks' = blocks \cup {u \div Blk : u \in size .. (size + k - 1)}
  BY DEF Grow
<1> SUFFICES ASSUME NEW b \in blocks' PROVE size' - b * Blk <= n + k
  BY DEF Extent
<1>3. CASE b \in blocks
  <2>1. b \in Nat /\ size - b * Blk <= n
    BY <1>3 DEF TypeOK, Extent
  <2>2. b * Blk \in Nat
    BY <1>1, <2>1, Z3
  <2>3. QED
    BY <1>1, <1>2, <2>1, <2>2
<1>4. CASE b \notin blocks
  <2>1. PICK u \in size .. (size + k - 1) : b = u \div Blk
    BY <1>2, <1>4
  <2>2. u \in Nat /\ size <= u
    BY <1>1
  <2>3. b \in Nat /\ u < (b + 1) * Blk
    BY <1>1, <2>1, <2>2, Quotient
  <2>4. b * Blk \in Nat /\ (b + 1) * Blk = b * Blk + Blk
    BY <1>1, <2>3, Z3
  <2>5. QED
    BY <1>1, <1>2, <2>2, <2>3, <2>4
<1>5. QED
  BY <1>3, <1>4

(* A whole record appended to whole records leaves whole records.          *)
LEMMA GrowRecord ==
  ASSUME TypeOK, WholeRecords, ~torn, Grow(Rec)
  PROVE  /\ size' % Rec = 0
         /\ \A u \in live' : \A v \in 0 .. (size' - 1) :
               u \div Rec = v \div Rec => v \in live'
<1>1. /\ Rec \in Nat \ {0} /\ size \in Nat /\ size % Rec = 0
      /\ live \in SUBSET (0 .. (size - 1))
      /\ size' = size + Rec /\ live' = live \cup size .. (size + Rec - 1)
  BY Lengths DEF TypeOK, WholeRecords, Grow
<1>2. size' % Rec = 0
  <2>1. Rec % Rec = 0
    BY <1>1, Z3
  <2>2. QED
    BY <1>1, <2>1, SumDivides
<1>3. ASSUME NEW u \in live', NEW v \in 0 .. (size' - 1),
             u \div Rec = v \div Rec
      PROVE  v \in live'
  <2>1. u \in Nat /\ v \in Nat /\ v < size + Rec
    BY <1>1
  <2>2. CASE v >= size
    BY <1>1, <2>1, <2>2
  <2>3. CASE v < size
    <3>1. u < size
      <4> DEFINE q == size \div Rec
                 c == v \div Rec
      <4>1. q \in Nat /\ size = q * Rec
        BY <1>1, Quotient
      <4>2. c \in Nat /\ c * Rec <= v /\ u < (c + 1) * Rec
        BY <1>1, <1>3, <2>1, Quotient
      <4> HIDE DEF q, c
      <4>3. c * Rec < q * Rec
        <5>1. c * Rec \in Nat
          BY <1>1, <4>2, Z3
        <5>2. QED
          BY <1>1, <2>1, <2>3, <4>1, <4>2, <5>1
      <4>4. c < q
        BY <1>1, <4>1, <4>2, <4>3, Z3
      <4>5. (c + 1) * Rec <= q * Rec /\ (c + 1) * Rec \in Nat
        BY <1>1, <4>1, <4>2, <4>4, Z3
      <4>6. QED
        BY <1>1, <2>1, <4>1, <4>2, <4>5
    <3>2. u \in live /\ v \in 0 .. (size - 1)
      BY <1>1, <2>1, <2>3, <3>1
    <3>3. QED
      BY <1>1, <1>3, <3>2 DEF WholeRecords
  <2>4. QED
    BY <1>1, <2>1, <2>2, <2>3
<1>4. QED
  BY <1>2, <1>3

(* What trim_acctfile knows of the file when it punches.                   *)
Shape == IInv /\ OnePiece /\ NoLeak /\ Pending

(* The hole starts at or before all data that is left and ends before the  *)
(* end of the file.                                                        *)
LEMMA PunchStart ==
  ASSUME Shape, pc = "punch", size # 0
  PROVE  /\ size = stat.off /\ stat.real = Usage
         /\ PunchOffset \in Nat
         /\ PunchOffset + Buf < size
         /\ size - PunchOffset <= Usage
         /\ \A b \in blocks : PunchOffset <= b * Blk
         /\ \A u \in live : PunchOffset <= u
<1>1. /\ TypeOK /\ OnePiece /\ NoLeak
      /\ Blk \in Nat \ {0} /\ Buf \in Nat \ {0} /\ Keep \in Nat \ {0}
      /\ size \in Nat /\ stat.real \in Nat /\ stat.off \in Nat
      /\ live \in SUBSET (0 .. (size - 1)) /\ blocks \in SUBSET Nat
  BY Lengths DEF Shape, IInv, TypeOK
<1>2. size = stat.off
  BY DEF Shape, IInv, StatInv
<1>3. stat.real = Usage
  BY <1>2 DEF Shape, Pending
<1>4. PunchOffset \in Nat /\ PunchOffset + Buf < size
  <2>1. PunchOffset \in Nat /\ PunchOffset + Buf <= size - Keep
    BY PunchStopsEarly DEF Shape
  <2>2. QED
    BY <1>1, <2>1
<1>5. size - PunchOffset <= Usage
  BY <1>1, <1>2, <1>3 DEF PunchOffset
<1>6. ASSUME NEW b \in blocks PROVE PunchOffset <= b * Blk
  <2>1. size - b * Blk <= Usage
    BY <1>1, UsageAbove DEF Extent
  <2>2. b * Blk \in Nat
    BY <1>1, Z3
  <2>3. QED
    BY <1>1, <1>2, <1>3, <2>1, <2>2 DEF PunchOffset
<1>7. ASSUME NEW u \in live PROVE PunchOffset <= u
  <2>1. u \in Nat
    BY <1>1
  <2>2. u \div Blk \in blocks
    BY <1>1 DEF NoLeak
  <2>3. (u \div Blk) \in Nat /\ (u \div Blk) * Blk <= u
    BY <1>1, <2>1, Quotient
  <2>4. (u \div Blk) * Blk \in Nat
    BY <1>1, <2>3, Z3
  <2>5. PunchOffset <= (u \div Blk) * Blk
    BY <1>6, <2>2
  <2>6. QED
    BY <1>1, <1>4, <2>1, <2>3, <2>4, <2>5
<1>8. QED
  BY <1>2, <1>3, <1>4, <1>5, <1>6, <1>7

(* The hole removes the start of the piece, and with it every block it     *)
(* leaves no data in.                                                      *)
LEMMA PunchShape ==
  ASSUME Shape, pc = "punch", PunchHole(PunchOffset, Buf)
  PROVE  OnePiece' /\ NoLeak'
<1> DEFINE p == PunchOffset
<1>1. /\ TypeOK /\ OnePiece /\ NoLeak
      /\ Blk \in Nat \ {0} /\ Buf \in Nat \ {0} /\ size \in Nat
      /\ live \in SUBSET (0 .. (size - 1)) /\ blocks \in SUBSET Nat
      /\ size' = size /\ live' = live \ p .. (p + Buf - 1)
      /\ blocks' = {b \in blocks : b * Blk < p \/ (b + 1) * Blk > p + Buf}
  BY Lengths DEF Shape, IInv, TypeOK, PunchHole
<1>2. CASE size = 0
  <2>1. live = {} /\ blocks = {}
    BY <1>2, NoBlocks DEF Shape, IInv
  <2>2. live' = {} /\ blocks' = {}
    BY <1>1, <2>1
  <2>3. QED
    BY <2>2 DEF OnePiece, NoLeak
<1>3. CASE size # 0
  <2>1. /\ p \in Nat /\ p + Buf < size
        /\ \A b \in blocks : p <= b * Blk
        /\ \A u \in live : p <= u
    BY <1>3, PunchStart
  <2> HIDE DEF p
  <2>2. OnePiece'
    <3> SUFFICES ASSUME NEW u \in live', NEW w \in u .. (size - 1)
                 PROVE  w \in live'
      BY <1>1 DEF OnePiece
    <3>1. u \in Nat /\ w \in Nat /\ u <= w /\ u \in live
      BY <1>1
    <3>2. w \in live
      BY <1>1, <3>1 DEF OnePiece
    <3>3. u >= p + Buf
      BY <1>1, <2>1, <3>1
    <3>4. QED
      BY <1>1, <2>1, <3>1, <3>2, <3>3
  <2>3. ASSUME NEW u \in live' PROVE u \div Blk \in blocks'
    <3>1. u \in live /\ u \in Nat /\ u >= p + Buf
      BY <1>1, <2>1
    <3>2. u \div Blk \in blocks
      BY <1>1, <3>1 DEF NoLeak
    <3>3. u \div Blk \in Nat /\ u < (u \div Blk + 1) * Blk
      BY <1>1, <3>1, Quotient
    <3>4. (u \div Blk + 1) * Blk \in Nat
      BY <1>1, <3>3, Z3
    <3>5. QED
      BY <1>1, <2>1, <3>1, <3>2, <3>3, <3>4
  <2>4. ASSUME NEW b \in blocks' PROVE \E w \in live' : b = w \div Blk
    <3>1. PICK u \in live : b = u \div Blk
      BY <1>1 DEF NoLeak
    <3>2. u \in Nat /\ u < size /\ p <= u
      BY <1>1, <2>1
    <3>3. b \in Nat /\ b * Blk <= u /\ u < (b + 1) * Blk
      BY <1>1, <3>1, <3>2, Quotient
    <3>4. p + Buf < (b + 1) * Blk
      <4>1. b \in blocks /\ p <= b * Blk /\ b * Blk \in Nat
        BY <1>1, <2>1, <3>3, Z3
      <4>2. QED
        BY <1>1, <2>1, <4>1
    <3> DEFINE w == IF u < p + Buf THEN p + Buf ELSE u
    <3>5. w \in u .. (size - 1)
      BY <1>1, <2>1, <3>2
    <3>6. w \in live
      BY <1>1, <3>5 DEF OnePiece
    <3>7. w >= p + Buf /\ u <= w /\ w < (b + 1) * Blk /\ w \in Nat
      BY <1>1, <2>1, <3>2, <3>3, <3>4
    <3> HIDE DEF w
    <3>8. w \in live'
      BY <1>1, <2>1, <3>6, <3>7
    <3>9. b = w \div Blk
      BY <1>1, <3>2, <3>3, <3>7, Z3
    <3>10. QED
      BY <3>8, <3>9
  <2>5. NoLeak'
    BY <2>3, <2>4 DEF NoLeak
  <2>6. QED
    BY <2>2, <2>5
<1>4. QED
  BY <1>2, <1>3

(* Every block that survives a punch starts less than the usage fstat()    *)
(* reported, less the buffer, plus a block before the end of the file.     *)
LEMMA PunchExtent ==
  ASSUME Shape, pc = "punch", PunchHole(PunchOffset, Buf)
  PROVE  \A b \in blocks' : size' - b * Blk < stat.real - Buf + Blk
<1> SUFFICES ASSUME NEW b \in blocks'
             PROVE  size' - b * Blk < stat.real - Buf + Blk
  OBVIOUS
<1>1. /\ Blk \in Nat \ {0} /\ Buf \in Nat \ {0} /\ size \in Nat /\ size' = size
      /\ blocks \in SUBSET Nat /\ b \in blocks /\ b \in Nat
      /\ b * Blk < PunchOffset \/ (b + 1) * Blk > PunchOffset + Buf
  BY Lengths DEF Shape, IInv, TypeOK, PunchHole
<1>2. size # 0
  BY <1>1, NoBlocks DEF Shape, IInv
<1>3. /\ PunchOffset \in Nat /\ PunchOffset <= b * Blk
      /\ size - PunchOffset <= Usage /\ stat.real = Usage
  BY <1>1, <1>2, PunchStart
<1>4. b * Blk \in Nat /\ (b + 1) * Blk = b * Blk + Blk
  BY <1>1, Z3
<1>5. Usage \in Nat
  BY UsageDivides DEF Shape, IInv
<1>6. QED
  BY <1>1, <1>3, <1>4, <1>5

(* The hole starts and ends at the bounds of records.                      *)
LEMMA PunchRecords ==
  ASSUME Shape, pc = "punch", PunchHole(PunchOffset, Buf), WholeRecords, ~torn
  PROVE  /\ size' % Rec = 0
         /\ \A u \in live' : \A v \in 0 .. (size' - 1) :
               u \div Rec = v \div Rec => v \in live'
<1> DEFINE p == PunchOffset
<1>1. /\ Rec \in Nat \ {0} /\ Buf \in Nat \ {0} /\ Buf % Rec = 0 /\ size \in Nat
      /\ live \in SUBSET (0 .. (size - 1))
      /\ size' = size /\ size % Rec = 0 /\ live' = live \ p .. (p + Buf - 1)
  BY Lengths DEF Shape, IInv, TypeOK, PunchHole, WholeRecords
<1> SUFFICES ASSUME NEW u \in live', NEW v \in 0 .. (size - 1),
                    u \div Rec = v \div Rec
             PROVE  v \in live'
  BY <1>1
<1>2. u \in live /\ u \in Nat /\ v \in Nat /\ size # 0
  BY <1>1
<1>3. v \in live
  BY <1>1, <1>2 DEF WholeRecords
<1>4. /\ p \in Nat /\ p <= u /\ size = stat.off /\ stat.real = Usage
  BY <1>2, PunchStart
<1>5. p % Rec = 0
  <2>1. Usage \in Nat /\ Usage % Rec = 0
    BY UsageDivides DEF Shape, IInv
  <2>2. CASE Usage > size
    <3>1. p = 0
      BY <1>4, <2>2 DEF PunchOffset
    <3>2. QED
      BY <1>1, <3>1, Z3
  <2>3. CASE ~(Usage > size)
    <3>1. p = size - Usage /\ Usage <= size
      BY <1>1, <1>4, <2>1, <2>3 DEF PunchOffset
    <3>2. QED
      BY <1>1, <2>1, <3>1, DifferenceDivides
  <2>4. QED
    BY <2>2, <2>3
<1> HIDE DEF p
<1>6. p + Buf \in Nat /\ (p + Buf) % Rec = 0 /\ u >= p + Buf
  <2>1. u >= p + Buf
    BY <1>1, <1>2, <1>4
  <2>2. (p + Buf) % Rec = 0
    BY <1>1, <1>4, <1>5, SumDivides
  <2>3. QED
    BY <1>1, <1>4, <2>1, <2>2
<1>7. v >= p + Buf
  <2> DEFINE q == (p + Buf) \div Rec
             r == u \div Rec
  <2>1. q \in Nat /\ p + Buf = q * Rec
    BY <1>1, <1>6, Quotient
  <2>2. /\ r \in Nat /\ r * Rec <= v /\ u < (r + 1) * Rec
    BY <1>1, <1>2, Quotient
  <2> HIDE DEF q, r
  <2>3. q * Rec < (r + 1) * Rec
    <3>1. (r + 1) * Rec \in Nat
      BY <1>1, <2>2, Z3
    <3>2. QED
      BY <1>2, <1>6, <2>1, <2>2, <3>1
  <2>4. q < r + 1
    BY <1>1, <2>1, <2>2, <2>3, Z3
  <2>5. q * Rec <= r * Rec /\ r * Rec \in Nat
    BY <1>1, <2>1, <2>2, <2>4, Z3
  <2>6. QED
    BY <1>2, <1>6, <2>1, <2>2, <2>5
<1>8. QED
  BY <1>1, <1>2, <1>3, <1>4, <1>7

-----------------------------------------------------------------------------
(* The inductive invariant.                                                *)

LEMMA TrimInit == Init => TInv
<1> SUFFICES ASSUME Init PROVE TInv
  OBVIOUS
<1>1. IInv
  BY InitInv
<1>2. OnePiece /\ NoLeak /\ Pending /\ Estimated
  BY DEF Init, OnePiece, NoLeak, Pending, Estimated
<1>3. 0 % Rec = 0
  BY Lengths, Z3
<1>4. WholeRecords /\ Counted
  BY <1>3 DEF Init, WholeRecords, Counted, Extent
<1>5. QED
  BY <1>1, <1>2, <1>4 DEF TInv

(* The steps that leave the file alone keep its shape.                     *)
LEMMA SameShape ==
  ASSUME TInv, UNCHANGED <<file, torn>>
  PROVE  OnePiece' /\ NoLeak' /\ WholeRecords'
BY DEF TInv, OnePiece, NoLeak, WholeRecords, file

LEMMA TrimIdle ==
  ASSUME TInv, IInv', Idle, Idle', UNCHANGED <<file, acctsz, ghosts>>
  PROVE  TInv'
<1>1. OnePiece' /\ NoLeak' /\ WholeRecords'
  BY SameShape DEF ghosts
<1>2. Pending'
  BY DEF Pending, Idle
<1>3. Estimated'
  BY DEF TInv, Estimated, Extent, Idle, file, ghosts
<1>4. Counted'
  BY DEF TInv, Counted, Extent, Idle, file, ghosts
<1>5. QED
  BY <1>1, <1>2, <1>3, <1>4 DEF TInv

LEMMA TrimOpen ==
  ASSUME TInv, IInv', Open PROVE TInv'
<1>1. /\ pc = "down" /\ pc' = "family" /\ acctsz' = 0 /\ synced' = FALSE
      /\ UNCHANGED <<file, stat, crashed, torn>>
  BY DEF Open
<1>2. OnePiece' /\ NoLeak' /\ WholeRecords'
  BY <1>1, SameShape
<1>3. Pending' /\ Estimated'
  BY <1>1 DEF Pending, Estimated
<1>4. Counted'
  <2> SUFFICES ASSUME ~crashed PROVE Counted'
    BY <1>1 DEF Counted
  <2>1. ~torn /\ size = 0
    BY <1>1 DEF TInv, Counted
  <2>2. blocks' = {}
    BY <1>1, <2>1, NoBlocks DEF TInv, IInv, file
  <2>3. 0 % Rec = 0
    BY Lengths, Z3
  <2>4. QED
    BY <1>1, <2>1, <2>2, <2>3 DEF Counted, Extent, Idle
<1>5. QED
  BY <1>2, <1>3, <1>4 DEF TInv

LEMMA TrimWrite ==
  ASSUME TInv, IInv', Write PROVE TInv'
<1>1. /\ Grow(Rec) /\ pc = "write" /\ pc' = "trim" /\ acctsz' = acctsz + Rec
      /\ UNCHANGED <<stat, ghosts>>
  BY DEF Write
<1>2. /\ TypeOK /\ OnePiece /\ NoLeak
      /\ Rec \in Nat \ {0} /\ Blk \in Nat \ {0} /\ Buf \in Nat \ {0}
      /\ Rec <= Blk /\ Blk <= Buf /\ acctsz \in Nat
  BY Lengths DEF TInv, IInv, TypeOK
<1>3. OnePiece' /\ NoLeak'
  BY <1>1, <1>2, GrowShape
<1>4. Pending'
  BY <1>1 DEF Pending
<1>5. WholeRecords'
  <2> SUFFICES ASSUME ~torn PROVE WholeRecords'
    BY <1>1 DEF WholeRecords, ghosts
  <2>1. /\ size' % Rec = 0
        /\ \A u \in live' : \A v \in 0 .. (size' - 1) :
              u \div Rec = v \div Rec => v \in live'
    BY <1>1, <1>2, GrowRecord DEF TInv
  <2>2. QED
    BY <2>1 DEF WholeRecords
<1>6. ASSUME Extent(acctsz + Blk)
      PROVE  \A b \in blocks' : size' - b * Blk <= acctsz' + Blk
  <2>1. PICK n \in Nat : n = acctsz + Blk
    BY <1>2
  <2>2. Extent(n + Rec)'
    <3>1. Extent(n)
      BY <1>6, <2>1
    <3>2. Blk <= n /\ Rec \in Nat
      BY <1>2, <2>1
    <3>3. QED
      BY <1>1, <1>2, <3>1, <3>2, GrowExtent
  <2>3. n + Rec = acctsz' + Blk
    BY <1>1, <1>2, <2>1
  <2>4. QED
    BY <2>2, <2>3 DEF Extent
<1>7. Estimated'
  BY <1>1, <1>6 DEF TInv, Estimated, Extent, ghosts
<1>8. Counted'
  <2> SUFFICES ASSUME ~crashed PROVE Counted'
    BY <1>1 DEF Counted, ghosts
  <2>1. /\ ~torn /\ acctsz % Rec = 0 /\ Extent(acctsz + Blk)
        /\ Extent(2 * Buf + Blk - Rec)
    BY <1>1 DEF TInv, Counted, Idle
  <2>2. acctsz' % Rec = 0
    <3>1. Rec % Rec = 0
      BY <1>2, Z3
    <3>2. QED
      BY <1>1, <1>2, <2>1, <3>1, SumDivides
  <2>3. Extent(2 * Buf + Blk)'
    <3>1. PICK n \in Nat : n = 2 * Buf + Blk - Rec
      BY <1>2
    <3>2. Extent(n) /\ Blk <= n /\ Rec \in Nat
      BY <1>2, <2>1, <3>1
    <3>3. Extent(n + Rec)'
      BY <1>1, <1>2, <3>2, GrowExtent
    <3>4. n + Rec = 2 * Buf + Blk
      BY <1>2, <3>1
    <3>5. QED
      BY <3>3, <3>4
  <2>4. QED
    BY <1>1, <1>6, <2>1, <2>2, <2>3 DEF Counted, Extent, Idle, ghosts
<1>9. QED
  BY <1>3, <1>4, <1>5, <1>7, <1>8 DEF TInv

LEMMA TrimBadWrite ==
  ASSUME TInv, IInv', BadWrite PROVE TInv'
<1>1. PICK k \in 0 .. (Rec - 1) : Grow(k) /\ torn' = (torn \/ k > 0)
  BY DEF BadWrite
<1>2. pc' = "down" /\ crashed' = TRUE
  BY DEF BadWrite
<1>3. TypeOK /\ OnePiece /\ NoLeak /\ k \in Nat /\ size \in Nat
  BY Lengths DEF TInv, IInv, TypeOK
<1>4. OnePiece' /\ NoLeak'
  BY <1>1, <1>3, GrowShape
<1>5. Pending' /\ Estimated' /\ Counted'
  BY <1>2 DEF Pending, Estimated, Counted
<1>6. WholeRecords'
  <2>1. CASE torn \/ k > 0
    BY <1>1, <2>1 DEF WholeRecords
  <2>2. CASE ~torn /\ k = 0
    <3>1. size' = size /\ live' = live
      BY <1>1, <1>3, <2>2 DEF Grow
    <3>2. QED
      BY <2>2, <3>1 DEF TInv, WholeRecords
  <2>3. QED
    BY <1>3, <2>1, <2>2
<1>7. QED
  BY <1>4, <1>5, <1>6 DEF TInv

LEMMA TrimTrimCheck ==
  ASSUME TInv, IInv', TrimCheck PROVE TInv'
<1>1. /\ pc = "trim" /\ pc' = IF acctsz < 2 * Buf THEN "recv" ELSE "fstat"
      /\ UNCHANGED <<file, acctsz, stat, ghosts>>
  BY DEF TrimCheck
<1>2. OnePiece' /\ NoLeak' /\ WholeRecords'
  BY <1>1, SameShape DEF ghosts
<1>3. Pending'
  BY <1>1 DEF Pending
<1>4. Estimated'
  BY <1>1 DEF TInv, Estimated, Extent, file, ghosts
<1>5. Counted'
  <2> SUFFICES ASSUME ~crashed PROVE Counted'
    BY <1>1 DEF Counted, ghosts
  <2>1. /\ ~torn /\ acctsz % Rec = 0 /\ Extent(acctsz + Blk)
        /\ Extent(2 * Buf + Blk)
    BY <1>1 DEF TInv, Counted
  <2>2. CASE acctsz < 2 * Buf
    <3>1. /\ TypeOK /\ acctsz \in Nat /\ Rec \in Nat \ {0} /\ Blk \in Nat \ {0}
          /\ Buf \in Nat \ {0} /\ Rec <= Blk /\ Blk <= Buf /\ Buf % Rec = 0
      BY Lengths DEF TInv, IInv, TypeOK
    <3>2. (2 * Buf) % Rec = 0
      BY Lengths
    <3>3. acctsz + Rec <= 2 * Buf
      <4>1. 2 * Buf \in Nat
        BY <3>1
      <4>2. QED
        BY <2>1, <2>2, <3>1, <3>2, <4>1, MultiplesApart
    <3>4. /\ acctsz + Blk \in Nat /\ 2 * Buf + Blk - Rec \in Nat
          /\ acctsz + Blk <= 2 * Buf + Blk - Rec
      BY <3>1, <3>3
    <3>5. Extent(2 * Buf + Blk - Rec)
      BY <2>1, <3>1, <3>4, ExtentGrows
    <3>6. QED
      BY <1>1, <2>1, <3>5 DEF Counted, Extent, Idle, file, ghosts
  <2>3. CASE ~(acctsz < 2 * Buf)
    <3>1. pc' = "fstat"
      BY <1>1, <2>3
    <3>2. QED
      BY <1>1, <2>1, <3>1 DEF Counted, Extent, Idle, file, ghosts
  <2>4. QED
    BY <2>2, <2>3
<1>6. QED
  BY <1>2, <1>3, <1>4, <1>5 DEF TInv

LEMMA TrimFstat ==
  ASSUME TInv, IInv', Fstat PROVE TInv'
<1>1. /\ pc = "fstat" /\ stat' = [real |-> Usage, off |-> size]
      /\ UNCHANGED <<file, crashed, torn>>
      /\ \/ /\ Usage < 2 * Buf
            /\ acctsz' = Usage /\ synced' = TRUE /\ pc' = "recv"
         \/ /\ pc' = "punch" /\ UNCHANGED <<acctsz, synced>>
  BY DEF Fstat
<1>2. /\ TypeOK /\ OnePiece /\ NoLeak /\ Usage \in Nat
      /\ Usage % Blk = 0 /\ Usage % Rec = 0 /\ Usage' = Usage
      /\ Rec \in Nat \ {0} /\ Blk \in Nat \ {0}
      /\ Buf \in Nat \ {0} /\ Rec <= Blk /\ Blk <= Buf /\ Buf % Blk = 0
  BY <1>1, Lengths, UsageDivides DEF TInv, IInv, Usage, file
<1>3. OnePiece' /\ NoLeak' /\ WholeRecords'
  BY <1>1, SameShape
<1>4. Pending'
  BY <1>1, <1>2 DEF Pending
<1>5. Extent(Usage)
  BY <1>2, UsageAbove
<1>6. Extent(Usage + Blk)
  <2>1. Usage + Blk \in Nat /\ Usage <= Usage + Blk
    BY <1>2
  <2>2. QED
    BY <1>2, <1>5, <2>1, ExtentGrows
<1>7. Estimated'
  BY <1>1, <1>6 DEF TInv, Estimated, Extent, file
<1>8. Counted'
  <2> SUFFICES ASSUME ~crashed PROVE Counted'
    BY <1>1 DEF Counted
  <2>1. /\ ~torn /\ acctsz % Rec = 0 /\ Extent(acctsz + Blk)
        /\ Extent(2 * Buf + Blk)
    BY <1>1 DEF TInv, Counted
  <2>2. CASE /\ Usage < 2 * Buf
             /\ acctsz' = Usage /\ synced' = TRUE /\ pc' = "recv"
    <3>1. /\ 2 * Buf + Blk - Rec \in Nat
          /\ Usage <= 2 * Buf + Blk - Rec
      BY <1>2, <2>2
    <3>2. Extent(2 * Buf + Blk - Rec)
      BY <1>2, <1>5, <3>1, ExtentGrows
    <3>3. QED
      BY <1>1, <1>2, <1>6, <2>1, <2>2, <3>2 DEF Counted, Extent, Idle, file
  <2>3. CASE pc' = "punch" /\ UNCHANGED <<acctsz, synced>>
    BY <1>1, <2>1, <2>3 DEF Counted, Extent, Idle, file
  <2>4. QED
    BY <1>1, <2>2, <2>3
<1>9. QED
  BY <1>3, <1>4, <1>7, <1>8 DEF TInv

LEMMA TrimPunch ==
  ASSUME TInv, IInv', Punch PROVE TInv'
<1>1. /\ pc = "punch" /\ PunchHole(PunchOffset, Buf)
      /\ acctsz' = stat.real - Buf /\ synced' = TRUE /\ pc' = "recv"
      /\ UNCHANGED <<stat, crashed, torn>>
  BY DEF Punch
<1>2. /\ Shape /\ TypeOK /\ BlocksInFile /\ stat.real \in Nat
      /\ stat.real >= 2 * Buf /\ stat.real % Rec = 0
      /\ size \in Nat /\ size' = size /\ TypeOK'
      /\ blocks \in SUBSET Nat /\ blocks' \in SUBSET blocks
  BY <1>1 DEF TInv, Shape, IInv, TypeOK, StatInv, Pending, PunchHole
<1>3. /\ Rec \in Nat \ {0} /\ Blk \in Nat \ {0} /\ Buf \in Nat \ {0}
      /\ Rec <= Blk /\ Blk <= Buf /\ Blk % Rec = 0 /\ Buf % Rec = 0
      /\ Buf % Blk = 0
  BY Lengths
<1>4. OnePiece' /\ NoLeak'
  BY <1>1, <1>2, PunchShape
<1>5. Pending'
  BY <1>1 DEF Pending
<1>6. WholeRecords'
  <2> SUFFICES ASSUME ~torn PROVE WholeRecords'
    BY <1>1 DEF WholeRecords
  <2>1. WholeRecords
    BY DEF TInv
  <2>2. /\ size' % Rec = 0
        /\ \A u \in live' : \A v \in 0 .. (size' - 1) :
              u \div Rec = v \div Rec => v \in live'
    BY <1>1, <1>2, <2>1, PunchRecords
  <2>3. QED
    BY <2>2 DEF WholeRecords
<1>7. \A b \in blocks' : size' - b * Blk < acctsz' + Blk
  BY <1>1, <1>2, PunchExtent
<1>8. \A b \in blocks' : size' - b * Blk <= acctsz' + Blk
  <2> SUFFICES ASSUME NEW b \in blocks' PROVE size' - b * Blk <= acctsz' + Blk
    OBVIOUS
  <2>1. b * Blk \in Nat
    <3>1. b \in Nat
      BY <1>2
    <3>2. QED
      BY <1>3, <3>1, Z3
  <2>2. QED
    BY <1>1, <1>2, <1>3, <1>7, <2>1
<1>9. Estimated'
  BY <1>8 DEF Estimated, Extent
<1>10. Counted'
  <2> SUFFICES ASSUME ~crashed PROVE Counted'
    BY <1>1 DEF Counted
  <2>1. ~torn /\ size % Rec = 0 /\ Extent(2 * Buf + Blk)
    BY DEF TInv, Counted, WholeRecords
  <2>2. acctsz' % Rec = 0
    BY <1>1, <1>2, <1>3, DifferenceDivides
  <2>3. (2 * Buf + Blk) % Rec = 0 /\ (2 * Buf + Blk) % Blk = 0
    BY Lengths
  <2>4. ASSUME NEW b \in blocks'
        PROVE  size' - b * Blk <= 2 * Buf + Blk - Rec
    <3>1. b \in Nat /\ b \in blocks
      BY <1>2
    <3>2. b * Blk \in Nat /\ (b * Blk) % Rec = 0
      <4>1. b * Blk \in Nat /\ (b * Blk) % Blk = 0
        BY <1>3, <3>1, ProductDivides
      <4>2. QED
        BY <1>3, <4>1, DividesTrans
    <3>3. size # 0 /\ b * Blk < size
      BY <1>2, <3>1, <3>2 DEF BlocksInFile
    <3>4. stat.real = Usage
      BY <1>1, <1>2, <3>3, PunchStart
    <3>5. 2 * Buf + Blk \in Nat
      BY <1>3
    <3>6. Usage < 2 * Buf + Blk + Blk
      BY <1>2, <2>1, <3>5, UsageBelow
    <3>7. Usage \in Nat /\ Usage % Blk = 0
      BY <1>2, UsageDivides
    <3>8. Usage <= 2 * Buf + Blk
      <4>1. 2 * Buf + Blk < Usage => 2 * Buf + Blk + Blk <= Usage
        BY <1>3, <2>3, <3>5, <3>7, MultiplesApart
      <4>2. QED
        BY <1>3, <3>5, <3>6, <3>7, <4>1
    <3>9. /\ size - b * Blk \in Nat
          /\ size - b * Blk < 2 * Buf + Blk
      BY <1>1, <1>2, <1>3, <1>7, <3>2, <3>3, <3>4, <3>7, <3>8
    <3>10. (size - b * Blk) % Rec = 0
      <4> DEFINE start == b * Blk
      <4>1. start \in Nat /\ start % Rec = 0 /\ start <= size
        BY <1>2, <3>2, <3>3
      <4> HIDE DEF start
      <4>2. (size - start) % Rec = 0
        BY <1>2, <1>3, <2>1, <4>1, DifferenceDivides
      <4>3. QED
        BY <4>2 DEF start
    <3>11. size - b * Blk + Rec <= 2 * Buf + Blk
      BY <1>3, <2>3, <3>5, <3>9, <3>10, MultiplesApart
    <3>12. QED
      BY <1>2, <1>3, <3>2, <3>11
  <2>5. ASSUME NEW b \in blocks'
        PROVE  size' - b * Blk <= 2 * Buf + Blk
    <3>1. b * Blk \in Nat
      <4>1. b \in Nat
        BY <1>2
      <4>2. QED
        BY <1>3, <4>1, Z3
    <3>2. QED
      BY <1>2, <1>3, <2>4, <3>1
  <2>6. QED
    BY <1>1, <1>8, <2>1, <2>2, <2>4, <2>5 DEF Counted, Extent, Idle
<1>11. QED
  BY <1>4, <1>5, <1>6, <1>9, <1>10 DEF TInv

LEMMA TrimCrash ==
  ASSUME TInv, IInv', Crash PROVE TInv'
<1>1. /\ pc' = "down" /\ crashed' = TRUE
      /\ UNCHANGED <<file, acctsz, stat, synced, torn>>
  BY DEF Crash
<1>2. OnePiece' /\ NoLeak' /\ WholeRecords'
  BY <1>1, SameShape
<1>3. Pending' /\ Estimated' /\ Counted'
  BY <1>1 DEF Pending, Estimated, Counted
<1>4. QED
  BY <1>2, <1>3 DEF TInv

LEMMA TrimTruncate ==
  ASSUME TInv, IInv', Truncate PROVE TInv'
<1>1. /\ size' = 0 /\ live' = {} /\ blocks' = {} /\ torn' = FALSE
      /\ UNCHANGED <<pc, acctsz, stat, synced, crashed>>
  BY DEF Truncate
<1>2. OnePiece' /\ NoLeak'
  BY <1>1 DEF OnePiece, NoLeak
<1>3. 0 % Rec = 0
  BY Lengths, Z3
<1>4. WholeRecords'
  BY <1>1, <1>3 DEF WholeRecords
<1>5. Pending'
  <2> SUFFICES ASSUME pc = "punch" PROVE Pending'
    BY <1>1 DEF Pending
  <2>1. stat.off > 0
    <3>1. /\ stat.real >= 2 * Buf /\ stat.real < stat.off + Blk
          /\ stat.real \in Nat /\ stat.off \in Nat
      BY DEF TInv, IInv, StatInv, TypeOK
    <3>2. QED
      BY <3>1, Lengths
  <2>2. QED
    BY <1>1, <2>1 DEF TInv, Pending
<1>6. Estimated'
  BY <1>1 DEF Estimated, Extent
<1>7. Counted'
  BY <1>1 DEF TInv, Counted, Extent
<1>8. QED
  BY <1>2, <1>4, <1>5, <1>6, <1>7 DEF TInv

LEMMA TrimStep == TInv /\ [Next]_vars => TInv'
<1> SUFFICES ASSUME TInv, [Next]_vars PROVE TInv'
  OBVIOUS
<1>a. IInv'
  BY StepInv DEF TInv
<1>1. CASE Open
  BY <1>a, <1>1, TrimOpen
<1>2. CASE LoadFamily
  BY <1>a, <1>2, TrimIdle DEF LoadFamily, Idle
<1>3. CASE Register
  BY <1>a, <1>3, TrimIdle DEF Register, Idle
<1>4. CASE Recv
  BY <1>a, <1>4, TrimIdle DEF Recv, Idle
<1>5. CASE Write
  BY <1>a, <1>5, TrimWrite
<1>6. CASE BadWrite
  BY <1>a, <1>6, TrimBadWrite
<1>7. CASE TrimCheck
  BY <1>a, <1>7, TrimTrimCheck
<1>8. CASE Fstat
  BY <1>a, <1>8, TrimFstat
<1>9. CASE Punch
  BY <1>a, <1>9, TrimPunch
<1>10. CASE Crash
  BY <1>a, <1>10, TrimCrash
<1>11. CASE Truncate
  BY <1>a, <1>11, TrimTruncate
<1>12. CASE UNCHANGED vars
  <2>1. OnePiece' /\ NoLeak' /\ WholeRecords'
    BY <1>12, SameShape DEF vars, file
  <2>2. Pending'
    BY <1>12 DEF vars, TInv, Pending, Usage
  <2>3. Estimated' /\ Counted'
    BY <1>12 DEF vars, TInv, Estimated, Counted, Extent, Idle
  <2>4. QED
    BY <1>a, <2>1, <2>2, <2>3 DEF TInv
<1>13. QED
  BY <1>1, <1>2, <1>3, <1>4, <1>5, <1>6, <1>7, <1>8, <1>9, <1>10, <1>11, <1>12
     DEF Next, Daemon

LEMMA TrimInvariance == Spec => []TInv
BY TrimInit, TrimStep, PTL DEF Spec

-----------------------------------------------------------------------------

(* What trimming leaves of the file is one piece that reaches its end.     *)
THEOREM LeavesOnePiece == Spec => []OnePiece
<1>1. TInv => OnePiece
  BY DEF TInv
<1>2. QED
  BY <1>1, TrimInvariance, PTL

(* Trimming leaves no allocated block without data, although its holes     *)
(* need not start at the bounds of blocks.                                 *)
THEOREM LeaksNoBlock == Spec => []NoLeak
<1>1. TInv => NoLeak
  BY DEF TInv
<1>2. QED
  BY <1>1, TrimInvariance, PTL

(* Trimming never splits a record unless a full disk cut one short.        *)
THEOREM KeepsWholeRecords == Spec => []WholeRecords
<1>1. TInv => WholeRecords
  BY DEF TInv
<1>2. QED
  BY <1>1, TrimInvariance, PTL

(* After each trim decision the daemon's estimate, which it never corrects *)
(* between two of them, is less than two blocks below the disk usage.      *)
THEOREM EstimateStaysClose == Spec => []EstimateClose
<1>1. ASSUME TInv PROVE EstimateClose
  <2> SUFFICES ASSUME synced, pc = "recv" PROVE Usage < acctsz + 2 * Blk
    BY DEF EstimateClose
  <2>1. TypeOK /\ BlocksInFile /\ Extent(acctsz + Blk)
    BY <1>1 DEF TInv, IInv, Estimated
  <2>2. /\ acctsz \in Nat /\ Blk \in Nat /\ acctsz + Blk \in Nat
        /\ Usage \in Nat
    BY <2>1, Lengths, UsageDivides DEF TypeOK
  <2>3. Usage < acctsz + Blk + Blk
    BY <2>1, <2>2, UsageBelow
  <2>4. QED
    BY <2>2, <2>3
<1>2. TInv => EstimateClose
  BY <1>1
<1>3. QED
  BY <1>2, TrimInvariance, PTL

(* A daemon that is never restarted keeps the file on two buffers and a    *)
(* block, for every length of record, block and buffer and whatever the    *)
(* consumer truncates.                                                     *)
THEOREM DiskUsageBounded == Spec => []DiskBound
<1>1. ASSUME TInv PROVE DiskBound
  <2> SUFFICES ASSUME ~crashed PROVE Usage <= 2 * Buf + Blk
    BY DEF DiskBound
  <2>1. TypeOK /\ BlocksInFile /\ Extent(2 * Buf + Blk)
    BY <1>1 DEF TInv, IInv, Counted
  <2>2. /\ Blk \in Nat \ {0} /\ 2 * Buf + Blk \in Nat
        /\ (2 * Buf + Blk) % Blk = 0
        /\ Usage \in Nat /\ Usage % Blk = 0
    BY <2>1, Lengths, UsageDivides
  <2>3. Usage < 2 * Buf + Blk + Blk
    BY <2>1, <2>2, UsageBelow
  <2>4. 2 * Buf + Blk < Usage => 2 * Buf + Blk + Blk <= Usage
    BY <2>2, MultiplesApart
  <2>5. QED
    BY <2>2, <2>3, <2>4, Lengths
<1>2. TInv => DiskBound
  BY <1>1
<1>3. QED
  BY <1>2, TrimInvariance, PTL

(* Every trim of a file that was not truncated under it frees the buffer   *)
(* but for a block.                                                        *)
THEOREM EveryTrimFrees == Spec => TrimFrees
<1> DEFINE Fits == \A n \in Nat :
                     TypeOK /\ BlocksInFile /\ Extent(n)
                       => /\ Usage \in Nat /\ Usage % Blk = 0
                          /\ Usage < n + Blk
<1>1. Fits
  BY UsageBelow, UsageDivides
<1>2. Fits'
  BY <1>1, PTL
<1>3. ASSUME TInv, TInv', Next, pc = "punch", pc' = "recv", size = stat.off
      PROVE  Usage' + Buf <= Usage + Blk
  <2>1. Punch
    BY <1>3 DEF Next, Daemon, Open, LoadFamily, Register, Recv, Write,
                TrimCheck, Fstat, BadWrite, Crash, Truncate
  <2>2. /\ Shape /\ stat.real = Usage /\ stat.real >= 2 * Buf
        /\ TypeOK /\ TypeOK' /\ BlocksInFile' /\ size' \in Nat
        /\ blocks' \in SUBSET Nat
    BY <1>3 DEF TInv, Shape, IInv, StatInv, Pending, TypeOK
  <2>3. Blk \in Nat \ {0} /\ Buf \in Nat \ {0} /\ Blk <= Buf
    BY Lengths
  <2>4. Usage \in Nat /\ Usage >= 2 * Buf
    BY <2>2, UsageDivides
  <2>5. PICK n \in Nat : n = Usage - Buf + Blk - 1
    BY <2>3, <2>4
  <2>6. ASSUME NEW b \in blocks' PROVE size' - b * Blk <= n
    <3>1. size' - b * Blk < Usage - Buf + Blk
      BY <2>1, <2>2, PunchExtent DEF Punch
    <3>2. b * Blk \in Nat
      <4>1. b \in Nat
        BY <2>2
      <4>2. QED
        BY <2>3, <4>1, Z3
    <3>3. size' \in Nat
      BY <2>2
    <3>4. QED
      BY <2>3, <2>4, <2>5, <3>1, <3>2, <3>3
  <2>7. Extent(n)'
    BY <2>6 DEF Extent
  <2>8. Usage' \in Nat /\ Usage' % Blk = 0 /\ Usage' < n + Blk
    BY <1>2, <2>2, <2>7
  <2> DEFINE kept == Usage - Buf + Blk
  <2>9. kept \in Nat
    BY <2>3, <2>4
  <2>10. kept % Blk = 0
    <3>1. Usage % Blk = 0 /\ Buf % Blk = 0
      BY <2>2, Lengths, UsageDivides
    <3> DEFINE rest == Usage - Buf
    <3>2. rest \in Nat /\ Buf <= Usage
      BY <2>3, <2>4
    <3>3. rest % Blk = 0
      BY <2>3, <2>4, <3>1, <3>2, DifferenceDivides
    <3> HIDE DEF rest
    <3>4. Blk % Blk = 0
      BY <2>3, Z3
    <3>5. (rest + Blk) % Blk = 0
      BY <2>3, <3>2, <3>3, <3>4, SumDivides
    <3>6. QED
      BY <3>5 DEF rest
  <2>11. kept = n + 1
    BY <2>3, <2>4, <2>5
  <2> HIDE DEF kept
  <2>12. kept < Usage' => kept + Blk <= Usage'
    BY <2>3, <2>8, <2>9, <2>10, MultiplesApart
  <2>13. Usage' <= kept
    <3>1. Usage' \in Nat /\ Usage' < n + Blk
      BY <2>8
    <3>2. QED
      BY <2>3, <2>5, <2>9, <2>11, <2>12, <3>1
  <2>14. QED
    <3>1. PICK left \in Nat : left = Usage'
      BY <2>8
    <3>2. left <= Usage - Buf + Blk
      BY <2>13, <3>1 DEF kept
    <3>3. left + Buf <= Usage + Blk
      BY <2>3, <2>4, <3>2
    <3>4. QED
      BY <3>1, <3>3
<1>4. TInv /\ TInv' /\ [Next]_vars
        => [pc = "punch" /\ pc' = "recv" /\ size = stat.off
              => Usage' + Buf <= Usage + Blk]_vars
  BY <1>3
<1>5. QED
  BY <1>4, TrimInvariance, PTL DEF Spec, TrimFrees
=============================================================================
