------------------------- MODULE NetestoController --------------------------
(***************************************************************************)
(* The netesto controller (netesto/local/netesto.py): processCmd()'s remote*)
(* commands.  Each is one request on the socket of its host, followed by   *)
(* rcvMsg() for the reply; GET_DATA's reply is followed by a file.         *)
(***************************************************************************)
EXTENDS NetestoConn

CONSTANTS NoRun,      (* controllers started with -n                       *)
          Bare,       (* may scripts set no known parameter in SET_SYSCTL  *)
          MaxCmds     (* bound: remote commands of each controller         *)

ASSUME ControllerAssumption == Bare \in BOOLEAN /\ MaxCmds \in Nat

VARIABLES ctl,        (* what each controller is doing                     *)
          hostDict,   (* its sockets, by host                              *)
          getData,    (* getDataHostDict: hosts GET_DATA was run for       *)
          got         (* <<host, file>> unpacked in its directory          *)

controllerVars == <<ctl, hostDict, getData, got>>

Idle == [pc |-> "idle", com |-> "", host |-> None, exp |-> None, left |-> 0,
         id |-> 0]

InitController ==
  /\ ctl = [c \in Controllers |-> Idle]
  /\ hostDict = [c \in Controllers |-> [h \in Hosts |-> None]]
  /\ getData = [c \in Controllers |-> {}]
  /\ got = [c \in Controllers |-> {}]

Done(c) == [Idle EXCEPT !.id = ctl[c].id]

(* The part of processCmd() before the socket is looked up: DO_SERVER and  *)
(* DO_CLIENT forget which hosts GET_DATA was run for, GET_DATA notes it.   *)
NoteGetData(c, com, h) ==
  getData' = [getData EXCEPT ![c] =
    CASE com \in {"DO_SERVER", "DO_CLIENT"} -> {}
      [] com = "GET_DATA" -> @ \cup {h}
      [] OTHER -> @]

StartCmd(c, com) ==
  /\ ctl[c].pc = "idle"
  /\ ctl[c].id < MaxCmds
  /\ com \in Commands

(* GET_DATA of any experiment e: only the host is looked up.               *)
SkipGetData(c, h, e) ==
  /\ StartCmd(c, "GET_DATA")
  /\ h \in getData[c]
  /\ ctl' = [ctl EXCEPT ![c].id = @ + 1]
  /\ UNCHANGED <<conn, hostDict, getData, got>>

Runs(c, com, h) == ~(com = "GET_DATA" /\ h \in getData[c])

(* getSocket(): the daemon does not answer, and the command is dropped.    *)
NoSocket(c, com, h, listening) ==
  /\ StartCmd(c, com)
  /\ Runs(c, com, h)
  /\ hostDict[c][h] = None
  /\ h \notin listening
  /\ NoteGetData(c, com, h)
  /\ ctl' = [ctl EXCEPT ![c].id = @ + 1]
  /\ UNCHANGED <<conn, hostDict, got>>

(* getSocket(): the slot and the state of the host's connection.           *)
Socket(c, h, listening) ==
  IF hostDict[c][h] # None
  THEN {<<hostDict[c][h], conn[hostDict[c][h]]>>}
  ELSE IF h \in listening
  THEN {<<i, NewConn(c, h)>> : i \in FreeSlots}
  ELSE {}

(* What each sendMsg function puts on the wire; SET_SYSCTL leaves out the  *)
(* body, but not the header that announces it, when no argument names a    *)
(* known sysctl.                                                           *)
Request(com, e, id, bare) ==
  IF ~HasBody(com) \/ (com = "SET_SYSCTL" /\ bare)
  THEN <<Part("hdr", com, None, id)>>
  ELSE <<Part("hdr", com, None, id), Part("body", com, e, id)>>

SendCmd(c, com, h, e, bare, listening) ==
  /\ StartCmd(c, com)
  /\ com # "CLOSE"
  /\ Runs(c, com, h)
  /\ NoteGetData(c, com, h)
  /\ \E s \in Socket(c, h, listening) :
       /\ conn' = [conn EXCEPT ![s[1]] =
                     ToDaemon(s[2], Request(com, e, ctl[c].id + 1, bare))]
       /\ hostDict' = [hostDict EXCEPT ![c][h] = s[1]]
  /\ ctl' = [ctl EXCEPT ![c] = [pc |-> "wait", com |-> com, host |-> h,
               exp |-> e, left |-> 0, id |-> ctl[c].id + 1]]
  /\ UNCHANGED got

(* sendMsgClose() closes the socket; reading the reply from it fails.      *)
SendClose(c, h, listening) ==
  /\ StartCmd(c, "CLOSE")
  /\ \E s \in Socket(c, h, listening) :
       conn' = [conn EXCEPT ![s[1]] =
         CloseController(ToDaemon(s[2], Request("CLOSE", None, ctl[c].id + 1, FALSE)))]
  /\ hostDict' = [hostDict EXCEPT ![c][h] = None]
  /\ ctl' = [ctl EXCEPT ![c].id = @ + 1]
  /\ UNCHANGED <<getData, got>>

(* All of a controller's sockets close with its process.                   *)
Die(c) ==
  /\ conn' = [i \in Slots |->
       IF conn[i].c = c THEN CloseController(conn[i]) ELSE conn[i]]
  /\ ctl' = [ctl EXCEPT ![c] = [Done(c) EXCEPT !.pc = "dead"]]
  /\ hostDict' = [hostDict EXCEPT ![c] = [h \in Hosts |-> None]]
  /\ getData' = [getData EXCEPT ![c] = {}]
  /\ UNCHANGED got

(* send() fails on a connection the daemon's host has reset: the call of   *)
(* closeClientSocket() lacks an argument, and the exception ends the run.  *)
SendFails(c, com, h) ==
  /\ StartCmd(c, com)
  /\ com # "CLOSE"
  /\ Runs(c, com, h)
  /\ hostDict[c][h] # None /\ conn[hostDict[c][h]].srv = "closed"
  /\ Die(c)

Reading(c, pc) == ctl[c].pc = pc /\ hostDict[c][ctl[c].host] # None

Sock(c) == hostDict[c][ctl[c].host]

(* rcvMsg(): the reply.  MSG_RETURN_VALUE, whatever the value, ends the    *)
(* command; so does MSG_FILE with -n, which leaves the file unread.        *)
ReceiveReply(c) ==
  /\ Reading(c, "wait")
  /\ conn[Sock(c)].rep # <<>>
  /\ LET hdr == Head(conn[Sock(c)].rep)
     IN /\ hdr.kind = "hdr"
        /\ ctl' = [ctl EXCEPT ![c] =
             IF hdr.type = "FILE" /\ c \notin NoRun
             THEN [@ EXCEPT !.pc = "file", !.left = Chunks]
             ELSE Done(c)]
  /\ conn' = [conn EXCEPT ![Sock(c)].rep = Tail(@)]
  /\ UNCHANGED <<hostDict, getData, got>>

(* Mutants: the closed socket stays in hostDict; and the end of the stream *)
(* is waited out instead of reported.                                      *)
ReplyFailsKeepsSocket(c) ==
  /\ Reading(c, "wait")
  /\ conn[Sock(c)].rep = <<>> /\ conn[Sock(c)].srv = "closed"
  /\ conn' = [conn EXCEPT ![Sock(c)] = CloseController(@)]
  /\ ctl' = [ctl EXCEPT ![c] = Done(c)]
  /\ UNCHANGED <<hostDict, getData, got>>

ReplyFailsNotAtEnd(c) ==
  /\ Reading(c, "wait")
  /\ conn[Sock(c)].rep # <<>> /\ Head(conn[Sock(c)].rep).kind = "chunk"
  /\ conn' = [conn EXCEPT ![Sock(c)] = CloseController(@)]
  /\ hostDict' = [hostDict EXCEPT ![c][ctl[c].host] = None]
  /\ ctl' = [ctl EXCEPT ![c] = Done(c)]
  /\ UNCHANGED <<getData, got>>

(* rcvMsg() returns ERROR at the end of the stream, or when it takes file  *)
(* contents for a header; closeClientSocket() drops the connection, and    *)
(* the script goes on.                                                     *)
ReplyFails(c) ==
  /\ Reading(c, "wait")
  /\ LET cn == conn[Sock(c)]
     IN \/ cn.rep = <<>> /\ cn.srv = "closed"
        \/ cn.rep # <<>> /\ Head(cn.rep).kind = "chunk"
  /\ conn' = [conn EXCEPT ![Sock(c)] = CloseController(@)]
  /\ hostDict' = [hostDict EXCEPT ![c][ctl[c].host] = None]
  /\ ctl' = [ctl EXCEPT ![c] = Done(c)]
  /\ UNCHANGED <<getData, got>>

(* A mutant: readFile() stops a piece early.                               *)
ReceiveChunkShort(c) ==
  /\ Reading(c, "file")
  /\ conn[Sock(c)].rep # <<>>
  /\ conn' = [conn EXCEPT ![Sock(c)].rep = Tail(@)]
  /\ ctl' = [ctl EXCEPT ![c] = Done(c)]
  /\ got' = [got EXCEPT ![c] =
                @ \cup ({ctl[c].host} \X Head(conn[Sock(c)].rep).data)]
  /\ UNCHANGED <<hostDict, getData>>

(* readFile(): the next piece; after the last, the directory is unpacked.  *)
ReceiveChunk(c) ==
  /\ Reading(c, "file")
  /\ conn[Sock(c)].rep # <<>>
  /\ conn' = [conn EXCEPT ![Sock(c)].rep = Tail(@)]
  /\ IF ctl[c].left > 1
     THEN /\ ctl' = [ctl EXCEPT ![c].left = @ - 1]
          /\ UNCHANGED got
     ELSE /\ ctl' = [ctl EXCEPT ![c] = Done(c)]
          /\ got' = [got EXCEPT ![c] =
                @ \cup ({ctl[c].host} \X Head(conn[Sock(c)].rep).data)]
  /\ UNCHANGED <<hostDict, getData>>

(* readFile() returns ERROR, which nobody looks at; the socket stays.      *)
FileFails(c) ==
  /\ Reading(c, "file")
  /\ conn[Sock(c)].rep = <<>> /\ conn[Sock(c)].srv = "closed"
  /\ ctl' = [ctl EXCEPT ![c] = Done(c)]
  /\ UNCHANGED <<conn, hostDict, getData, got>>

(* The script ends, error(), or an interrupt; and a next run.              *)
StopController(c) == ctl[c].pc # "dead" /\ Die(c)

StartController(c) ==
  /\ ctl[c].pc = "dead"
  /\ ctl' = [ctl EXCEPT ![c].pc = "idle"]
  /\ UNCHANGED <<conn, hostDict, getData, got>>

Receive(c) ==
  ReceiveReply(c) \/ ReplyFails(c) \/ ReceiveChunk(c) \/ FileFails(c)

Command(c, h, e, listening) ==
  \/ SkipGetData(c, h, e)
  \/ SendClose(c, h, listening)
  \/ \E com \in Commands :
       \/ NoSocket(c, com, h, listening)
       \/ SendFails(c, com, h)
       \/ \E bare \in {FALSE, Bare} : SendCmd(c, com, h, e, bare, listening)
=============================================================================
