------------------------------ MODULE AcctFile ------------------------------
(***************************************************************************)
(* What bsdacctd promises to the consumers of the accounting file: the     *)
(* file is a log that only grows, except that a consumer may truncate it   *)
(* to zero, and old data may vanish from its front (a hole reads as        *)
(* zeros), but never any of the last Keep units before the end of file.    *)
(*                                                                         *)
(* Offsets and lengths are in units; a whole record is Rec units.          *)
(***************************************************************************)
EXTENDS Integers

CONSTANTS Rec,   (* length of one accounting record                        *)
          Keep   (* length of the tail that is never reclaimed             *)

VARIABLES size,  (* st_size                                                *)
          live   (* offsets whose data can still be read                   *)

vars == <<size, live>>

Offsets(n) == 0 .. (n - 1)

KeptTail(n) == {u \in Offsets(n) : u >= n - Keep}

Init ==
  /\ size \in Nat
  /\ live = Offsets(size)

(* A write appends a whole record; a write cut short by a full disk (after *)
(* which the writer aborts) appends less.                                  *)
Append(k) ==
  /\ size' = size + k
  /\ live' = live \cup size .. (size + k - 1)

Truncate ==
  /\ size' = 0
  /\ live' = {}

Reclaim ==
  /\ size' = size
  /\ live' \in SUBSET live
  /\ live \cap KeptTail(size) \subseteq live'

Next ==
  \/ \E k \in 0 .. Rec : Append(k)
  \/ Truncate
  \/ Reclaim

Spec == Init /\ [][Next]_vars

-----------------------------------------------------------------------------

TypeOK ==
  /\ size \in Nat
  /\ live \in SUBSET Offsets(size)

(* The tail of the file a consumer may still be reading is intact.         *)
TailIntact == KeptTail(size) \subseteq live
=============================================================================
