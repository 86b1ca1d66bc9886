------------------------------ MODULE Bsdacctd ------------------------------
(***************************************************************************)
(* bsdacctd: the daemon that turns taskstats netlink messages into BSD     *)
(* accounting records, appends them to a file, and punches holes at the    *)
(* front of the file so that its disk usage stays bounded                  *)
(* (bsdacctd/bsdacctd.c), together with the file, the consumer that may    *)
(* truncate it at any moment, and crashes and restarts of the daemon.      *)
(*                                                                         *)
(* Lengths and offsets are in units: a record is Rec units, a file system  *)
(* block Blk units, acctfile_buffer Buf units.  (In the code: 64, 4096 and *)
(* 2097152 bytes.)                                                         *)
(***************************************************************************)
EXTENDS Integers, FiniteSets, Sequences

CONSTANTS Rec, Blk, Buf,
          MaxSize   (* bound: no task exits that would grow the file past it *)

ASSUME BsdacctdAssumption ==
  /\ Rec \in Nat \ {0}
  /\ Blk \in Nat \ {0}
  /\ Buf \in Nat \ {0}
  /\ Blk % Rec = 0
  /\ Buf % Blk = 0
  /\ MaxSize \in Nat

VARIABLES
  size,      (* st_size of the accounting file                             *)
  blocks,    (* numbers of its blocks that are allocated                   *)
  live,      (* offsets of the file whose data has not been punched        *)
  pc,        (* where the daemon is                                        *)
  acctsz,    (* main()'s running estimate of the file's disk usage         *)
  stat,      (* what fstat() last returned to trim_acctfile()              *)
  (* The last three only serve to state properties.                        *)
  synced,    (* has this incarnation of the daemon set acctsz from fstat() *)
  crashed,   (* has the daemon ever stopped                                *)
  torn       (* does the file hold a record that was written in part       *)

file == <<size, blocks, live>>
ghosts == <<synced, crashed, torn>>
vars == <<size, blocks, live, pc, acctsz, stat, synced, crashed, torn>>

Locations == {"down", "family", "register", "recv", "write", "trim", "fstat",
              "punch"}

Usage == Cardinality(blocks) * Blk   (* st_blocks * 512                    *)

-----------------------------------------------------------------------------
(* Messages of the taskstats family, by what the code tells apart.         *)

AttrTypes == {"AGGR_PID", "AGGR_TGID", "NULL", "UNKNOWN"}
AttrLists == {<<>>} \cup {<<a>> : a \in AttrTypes}
                    \cup {<<a, b>> : a \in AttrTypes, b \in AttrTypes}

Failures == {"ENOBUFS", "EAGAIN", "errno", "short", "nlerror>=0",
             "nlerror EAGAIN", "nlerror ESRCH", "nlerror", "old version"}

(* taskstats_recv: "record" when it returns a struct taskstats, "skip"     *)
(* when it returns NULL, "fatal" when it aborts the daemon.                *)
OnFailure(f) ==
  IF f \in {"ENOBUFS", "EAGAIN", "nlerror>=0", "nlerror EAGAIN",
            "nlerror ESRCH"}
  THEN "skip" ELSE "fatal"

OnAttributes(attrs) ==
  IF \E i \in DOMAIN attrs : attrs[i] = "AGGR_PID" THEN "record" ELSE "skip"

Received == {OnFailure(f) : f \in Failures}
              \cup {OnAttributes(as) : as \in AttrLists}

-----------------------------------------------------------------------------

Init ==
  /\ size = 0 /\ live = {}   (* no accounting file yet: open() creates it *)
  /\ blocks = {}
  /\ pc = "down"
  /\ acctsz = 0
  /\ stat = [real |-> 0, off |-> 0]
  /\ synced = FALSE /\ crashed = FALSE /\ torn = FALSE

(* The file grows by k units, and the blocks they fall in are allocated.   *)
Grow(k) ==
  LET new == size .. (size + k - 1)
  IN /\ size' = size + k
     /\ live' = live \cup new
     /\ blocks' = blocks \cup {u \div Blk : u \in new}

(* open_acctfile() appends to a file that exists; acctsz starts from zero. *)
Open ==
  /\ pc = "down"
  /\ pc' = "family"
  /\ acctsz' = 0
  /\ synced' = FALSE
  /\ UNCHANGED <<file, stat, crashed, torn>>

LoadFamily ==
  /\ pc = "family"
  /\ pc' = "register"
  /\ UNCHANGED <<file, acctsz, stat, ghosts>>

Register ==
  /\ pc = "register"
  /\ pc' = "recv"
  /\ UNCHANGED <<file, acctsz, stat, ghosts>>

Recv ==
  /\ pc = "recv"
  /\ \E r \in Received :
       \/ r = "record" /\ size + Rec <= MaxSize /\ pc' = "write"
       \/ r = "skip" /\ pc' = "recv"
  /\ UNCHANGED <<file, acctsz, stat, ghosts>>

(* Mutant: main() drops the sum.                                           *)
WriteUncounted ==
  /\ pc = "write"
  /\ Grow(Rec)
  /\ pc' = "trim"
  /\ UNCHANGED <<acctsz, stat, ghosts>>

(* One write() per record; acctsz counts it.                               *)
Write ==
  /\ pc = "write"
  /\ Grow(Rec)
  /\ acctsz' = acctsz + Rec
  /\ pc' = "trim"
  /\ UNCHANGED <<stat, ghosts>>

(* The disk is full: part of the record, or nothing, is written, and the   *)
(* daemon aborts because write() did not return the record's size.         *)
BadWrite ==
  /\ pc = "write"
  /\ \E k \in 0 .. (Rec - 1) : Grow(k) /\ torn' = (torn \/ k > 0)
  /\ pc' = "down"
  /\ crashed' = TRUE
  /\ UNCHANGED <<acctsz, stat, synced>>

TrimCheck ==
  /\ pc = "trim"
  /\ pc' = IF acctsz < 2 * Buf THEN "recv" ELSE "fstat"
  /\ UNCHANGED <<file, acctsz, stat, ghosts>>

(* Mutant: trims whatever fstat() says.                                    *)
FstatUnchecked ==
  /\ pc = "fstat"
  /\ stat' = [real |-> Usage, off |-> size]
  /\ pc' = "punch"
  /\ UNCHANGED <<file, acctsz, ghosts>>

Fstat ==
  /\ pc = "fstat"
  /\ stat' = [real |-> Usage, off |-> size]
  /\ \/ /\ Usage < 2 * Buf
        /\ acctsz' = Usage
        /\ synced' = TRUE
        /\ pc' = "recv"
     \/ /\ Usage >= 2 * Buf
        /\ pc' = "punch"
        /\ UNCHANGED <<acctsz, synced>>
  /\ UNCHANGED <<file, crashed, torn>>

(* Mutants: punch the end of the file; or from a fixed distance; or from   *)
(* the estimate; or always from the start.                                 *)
PunchOffsetAtEnd == IF Buf > stat.off THEN 0 ELSE stat.off - Buf
PunchOffsetFixed == IF 2 * Buf > stat.off THEN 0 ELSE stat.off - 2 * Buf
PunchOffsetEstimated == IF acctsz > stat.off THEN 0 ELSE stat.off - acctsz
PunchOffsetZero == 0

PunchOffset == IF stat.real > stat.off THEN 0 ELSE stat.off - stat.real

(* Mutant: without FALLOC_FL_KEEP_SIZE.                                    *)
PunchHoleExtending(p, n) ==
  /\ size' = IF p + n > size THEN p + n ELSE size
  /\ live' = live \ p .. (p + n - 1)
  /\ blocks' = {b \in blocks : b * Blk < p \/ (b + 1) * Blk > p + n}

(* FALLOC_FL_PUNCH_HOLE | FALLOC_FL_KEEP_SIZE of n units at offset p: data *)
(* in the range is gone, blocks wholly inside it are freed, st_size stays. *)
PunchHole(p, n) ==
  /\ size' = size
  /\ live' = live \ p .. (p + n - 1)
  /\ blocks' = {b \in blocks : b * Blk < p \/ (b + 1) * Blk > p + n}

(* Mutants: a hole one unit short; or an estimate that starts from zero.   *)
PunchShort ==
  /\ pc = "punch"
  /\ PunchHole(PunchOffset, Buf - 1)
  /\ acctsz' = stat.real - Buf
  /\ synced' = TRUE
  /\ pc' = "recv"
  /\ UNCHANGED <<stat, crashed, torn>>

PunchForgets ==
  /\ pc = "punch"
  /\ PunchHole(PunchOffset, Buf)
  /\ acctsz' = 0
  /\ synced' = TRUE
  /\ pc' = "recv"
  /\ UNCHANGED <<stat, crashed, torn>>

Punch ==
  /\ pc = "punch"
  /\ PunchHole(PunchOffset, Buf)
  /\ acctsz' = stat.real - Buf
  /\ synced' = TRUE
  /\ pc' = "recv"
  /\ UNCHANGED <<stat, crashed, torn>>

(* fatal() of any call, a kill, a reboot.                                  *)
Crash ==
  /\ pc # "down"
  /\ pc' = "down"
  /\ crashed' = TRUE
  /\ UNCHANGED <<file, acctsz, stat, synced, torn>>

(* The consumer truncates the file, at any moment.                         *)
Truncate ==
  /\ size > 0
  /\ size' = 0
  /\ live' = {}
  /\ blocks' = {}
  /\ torn' = FALSE
  /\ UNCHANGED <<pc, acctsz, stat, synced, crashed>>

Daemon ==
  \/ Open \/ LoadFamily \/ Register \/ Recv \/ Write \/ TrimCheck \/ Fstat
  \/ Punch

Next == Daemon \/ BadWrite \/ Crash \/ Truncate

Spec == Init /\ [][Next]_vars

-----------------------------------------------------------------------------
(* The values the variables take.                                          *)
TypeOK ==
  /\ size \in Nat
  /\ blocks \in SUBSET Nat /\ IsFiniteSet(blocks)
  /\ live \in SUBSET (0 .. (size - 1))
  /\ pc \in Locations
  /\ acctsz \in Nat
  /\ stat \in [real : Nat, off : Nat]
  /\ synced \in BOOLEAN /\ crashed \in BOOLEAN /\ torn \in BOOLEAN

(* What trim_acctfile keeps of the acctfile_buffer it means to keep: the   *)
(* rounding of st_blocks costs it up to one block.                         *)
Keep == Buf - (Blk - 1)

(* However the daemon's fstat() and fallocate() interleave with the        *)
(* consumer's truncations, and after any number of crashes, the last Keep  *)
(* units before the end of the file have never been punched.               *)
TailIntact == \A u \in 0 .. (size - 1) : u >= size - Keep => u \in live

(* The punched part is one piece at the front of the file: each trim       *)
(* starts where the earlier ones ended and strands no old data.            *)
OnePiece == \A u \in live : u .. (size - 1) \subseteq live

(* No block stays allocated once all of its data is punched: two trims     *)
(* that each cover a part of a block must not leave it behind.             *)
NoLeak == blocks = {u \div Blk : u \in live}

(* As long as no record was cut short by a full disk, trimming never       *)
(* splits a record ("a clean multiple of the size", bsdacctd.c:33).        *)
WholeRecords ==
  ~torn => /\ size % Rec = 0
           /\ \A u \in live : \A v \in 0 .. (size - 1) :
                 u \div Rec = v \div Rec => v \in live

(* Once acctsz has been set from fstat(), it lags the real disk usage by   *)
(* less than two blocks, so the next trim is never late by more.           *)
EstimateClose == synced /\ pc = "recv" => Usage < acctsz + 2 * Blk

(* A daemon that is never restarted keeps the file on less than twice the  *)
(* buffer and one block, whatever the consumer truncates.                  *)
DiskBound == ~crashed => Usage <= 2 * Buf + Blk

(* Each trim of a file that was not truncated under it frees at least the  *)
(* buffer less one block, so that a backlog left by restarts shrinks.      *)
TrimFrees ==
  [][pc = "punch" /\ pc' = "recv" /\ size = stat.off
       => Usage' + Buf <= Usage + Blk]_vars

(* If the consumer truncates between fstat() and fallocate(), the punch    *)
(* changes nothing of the file ("harmless", bsdacctd.c:324).               *)
PunchAfterTruncateHarmless ==
  [][pc = "punch" /\ pc' = "recv" /\ size # stat.off => UNCHANGED file]_vars

(* The daemon implements the log the consumers rely on.                    *)
Log == INSTANCE AcctFile WITH Rec <- Rec, Keep <- Keep,
                              size <- size, live <- live
ImplementsLog == Log!Spec
=============================================================================
