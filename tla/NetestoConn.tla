---------------------------- MODULE NetestoConn -----------------------------
(***************************************************************************)
(* The TCP connections between netesto controllers and netesto daemons,    *)
(* and the messages on them (netesto.py, which runs as either side).       *)
(*                                                                         *)
(* A message is a header and, for most types, a body of a fixed length; a  *)
(* file follows its MSG_FILE message in pieces.  The unit of transmission  *)
(* here is one such part, so that a reader can be left waiting for a part  *)
(* that was never sent, or find a part it does not expect.                 *)
(***************************************************************************)
EXTENDS Integers, Sequences, FiniteSets

CONSTANTS Controllers,   (* controller processes                           *)
          Hosts,         (* hosts, each with at most one daemon            *)
          Exps,          (* experiment numbers                             *)
          Slots,         (* bound: connections that can exist at once      *)
          Chunks,        (* pieces a file is sent in                       *)
          Window,        (* parts a connection holds before send() blocks  *)
          Commands,      (* the remote commands scripts use                *)
          None           (* not a slot, controller or host                 *)

ASSUME NetestoAssumption ==
  /\ IsFiniteSet(Slots)
  /\ Chunks \in Nat \ {0} /\ Window \in Nat \ {0}
  /\ None \notin Slots /\ None \notin Controllers /\ None \notin Hosts
  /\ Commands \subseteq {"DO_SERVER", "DO_CLIENT", "GET_DATA", "SET_QDISC",
                         "SET_SYSCTL", "CLOSE", "EXIT"}

VARIABLE conn   (* [Slots -> connection]                                   *)

(* Parts: type is a command, "RV" (MSG_RETURN_VALUE) or "FILE" (MSG_FILE);  *)
(* data is what of an experiment's directory a piece of its archive is of; *)
(* id, the number of the command in its controller's run, is not on the    *)
(* wire and serves to tell apart what commands caused.                     *)
Part(kind, type, exp, id) ==
  [kind |-> kind, type |-> type, exp |-> exp, id |-> id, data |-> {}]

(* rcvMsg(): a header whose length is not zero is followed by a body.      *)
HasBody(type) == type \notin {"RV", "CLOSE", "EXIT"}

(* A connection: its two ends; ctl is whether the controller has it open,  *)
(* srv what the daemon did with it: not yet accepted, in readList, accepted*)
(* from a client not in clients.txt, or closed; and the parts in flight.   *)
NoConn == [c |-> None, h |-> None, ctl |-> FALSE, srv |-> "closed",
           req |-> <<>>, rep |-> <<>>]

FreeSlots == {i \in Slots : conn[i] = NoConn}

NewConn(c, h) ==
  [c |-> c, h |-> h, ctl |-> TRUE, srv |-> "queued", req |-> <<>>, rep |-> <<>>]

(* send(): parts for an end that is gone are lost.                         *)
ToDaemon(cn, parts) ==
  IF cn.srv = "closed" THEN cn ELSE [cn EXCEPT !.req = @ \o parts]

ToController(cn, parts) ==
  IF cn.ctl THEN [cn EXCEPT !.rep = @ \o parts] ELSE cn

(* Closing one end: the other still reads what was sent before.            *)
CloseController(cn) ==
  IF cn.srv = "closed" THEN NoConn ELSE [cn EXCEPT !.ctl = FALSE, !.rep = <<>>]

CloseDaemon(cn) ==
  IF ~cn.ctl THEN NoConn ELSE [cn EXCEPT !.srv = "closed", !.req = <<>>]

InitConn == conn = [i \in Slots |-> NoConn]
=============================================================================
