------------------------------ MODULE Netesto -------------------------------
(***************************************************************************)
(* Netesto: controllers and daemons together, and what must hold of the    *)
(* conversation between them and of the results it is there to collect.    *)
(***************************************************************************)
EXTENDS NetestoController, NetestoDaemon

CONSTANT Patient   (* do scripts pause until no result can still be        *)
                   (* written when its directory is being collected?       *)

ASSUME PatientAssumption == Patient \in BOOLEAN

VARIABLE owed   (* <<host, file>> written and not knowingly given up: only *)
                (* properties speak of it                                  *)

vars == <<conn, dmn, jobs, disk, ctl, hostDict, getData, got, owed>>

Init == InitConn /\ InitDaemon /\ InitController /\ owed = {}

Listening == {h \in Hosts : dmn[h].pc # "down"}

(* The files on their way over connection i.                               *)
InTransit(i) ==
  (UNION {{conn[i].h} \X conn[i].rep[n].data : n \in 1..Len(conn[i].rep)})
    \cup (UNION {{h} \X dmn[h].data : h \in {g \in Hosts : dmn[g].slot = i}})

(* What was on its way to a controller that ended, or runs with -n and so  *)
(* stores nothing, is given up once its host has removed it.               *)
GiveUp ==
  LET dropped == {i \in Slots : ~conn'[i].ctl \/ conn[i].c \in NoRun}
  IN owed' = owed \ {o \in UNION {InTransit(i) : i \in dropped} :
                       o[2] \notin disk'[o[1]]}

ControllerStep(c, A) == A /\ UNCHANGED daemonVars /\ GiveUp

DaemonStep(h, A) == A /\ UNCHANGED controllerVars /\ GiveUp

ReceiveStep(c) == ControllerStep(c, Receive(c))
ServeStep(h) == DaemonStep(h, Serve(h))
ServeSocketStep(h, i) == DaemonStep(h, ServeSocket(h, i))

ScriptStep(h, x) ==
  /\ ScriptWrites(h, x)
  /\ Patient => ~(dmn[h].pc = "file" /\ dmn[h].exp = x.exp)
  /\ owed' = owed \cup {<<h, x>>}
  /\ UNCHANGED controllerVars

Next ==
  \/ \E c \in Controllers :
       \/ \E h \in Hosts, e \in Exps :
            ControllerStep(c, Command(c, h, e, Listening))
       \/ ReceiveStep(c)
       \/ ControllerStep(c, StopController(c))
       \/ ControllerStep(c, StartController(c))
  \/ \E h \in Hosts :
       \/ ServeStep(h)
       \/ \E i \in Slots : ServeSocketStep(h, i)
       \/ DaemonStep(h, StopDaemon(h))
       \/ DaemonStep(h, StartDaemon(h))
       \/ \E x \in jobs[h] : ScriptStep(h, x)

Spec == Init /\ [][Next]_vars

(***************************************************************************)
(* Fairness: processes run.  A daemon's loop visits every socket select()  *)
(* reports, in turn (for sock in readyRead), so no socket is passed over   *)
(* for ever though each visit disables the others'.                        *)
(***************************************************************************)
Fairness ==
  /\ \A c \in Controllers : WF_vars(ReceiveStep(c))
  /\ \A h \in Hosts :
       /\ WF_vars(ServeStep(h))
       /\ \A i \in Slots : SF_vars(ServeSocketStep(h, i))

FairSpec == Spec /\ Fairness

(***************************************************************************)
(* Properties                                                              *)
(***************************************************************************)
Files == [exp : Exps, by : Controllers, id : 1..MaxCmds]
Types == {"RV", "FILE"} \cup Commands
Parts == [kind : {"hdr", "body", "chunk"}, type : Types, exp : Exps \cup {None},
          id : 1..MaxCmds, data : SUBSET Files]

(* Types: the connections, what the daemons and the controllers do, the    *)
(* sockets in hostDict (which are connections to that host), and the files.*)
TypeOK ==
  /\ \A i \in Slots :
       /\ conn[i].c \in Controllers \cup {None} /\ conn[i].h \in Hosts \cup {None}
       /\ conn[i].ctl \in BOOLEAN
       /\ conn[i].srv \in {"queued", "listed", "ignored", "closed"}
       /\ \A n \in 1..Len(conn[i].req) : conn[i].req[n] \in Parts
       /\ Len(conn[i].rep) <= Window + 1
       /\ \A n \in 1..Len(conn[i].rep) : conn[i].rep[n] \in Parts
  /\ \A h \in Hosts :
       /\ dmn[h].pc \in {"down", "select", "body", "file"}
       /\ dmn[h].pc \in {"body", "file"} => conn[dmn[h].slot].h = h
       /\ dmn[h].left \in 0..Chunks
       /\ jobs[h] \subseteq Files /\ disk[h] \subseteq Files
  /\ \A c \in Controllers :
       /\ ctl[c].pc \in {"idle", "wait", "file", "dead"}
       /\ ctl[c].id \in 0..MaxCmds /\ ctl[c].left \in 0..Chunks
       /\ \A h \in Hosts : hostDict[c][h] # None =>
            conn[hostDict[c][h]].c = c /\ conn[hostDict[c][h]].h = h
              /\ conn[hostDict[c][h]].ctl
       /\ getData[c] \subseteq Hosts /\ got[c] \subseteq Hosts \X Files

(* A controller's connections are quiet between commands: when processCmd()*)
(* is back at its input, nothing of an earlier command is still on any     *)
(* socket of hostDict in either direction, and the daemon is not serving it*)
(* any more, but perhaps to remove a directory it has sent.  (Not with -n.)*)
IdleQuiet ==
  \A c \in Controllers \ NoRun, h \in Hosts :
    ctl[c].pc = "idle" /\ hostDict[c][h] # None =>
      LET i == hostDict[c][h]
      IN /\ conn[i].rep = <<>> /\ conn[i].req = <<>>
         /\ dmn[h].slot = i => dmn[h].pc = "file" /\ dmn[h].left = 0

(* rcvMsg() and readFile() take what they read for the answer of the       *)
(* command in hand without a look at what it answers: it must be.          *)
AnswersOwn ==
  \A c \in Controllers \ NoRun :
    ctl[c].pc \in {"wait", "file"} /\ hostDict[c][ctl[c].host] # None =>
      LET rep == conn[hostDict[c][ctl[c].host]].rep
      IN \A n \in 1..Len(rep) : rep[n].id = ctl[c].id

(* A controller and a daemon never both wait for the other: of a           *)
(* connection a controller reads from, and whose daemon still has it, some *)
(* part is unread, or the daemon is in the middle of the file.  This is    *)
(* what keeps the single-threaded daemon from stalling every controller.   *)
NeverBothWait ==
  \A c \in Controllers : ctl[c].pc \in {"wait", "file"} =>
    LET i == hostDict[c][ctl[c].host]
    IN conn[i].srv = "closed" \/ conn[i].rep # <<>> \/ conn[i].req # <<>>
         \/ \E h \in Hosts : dmn[h].slot = i /\ dmn[h].pc = "file" /\ dmn[h].left > 0

(* Results are never lost on the way: each file a script wrote is on its   *)
(* host, on its way to a controller that is reading it, or stored by one   *)
(* (GET_DATA removes the directory before the controller has read it).     *)
(* README: "the raw data is also stored in the controller".                *)
Retained ==
  \A o \in owed :
    \/ o[2] \in disk[o[1]]
    \/ \E c \in Controllers : o \in got[c]
    \/ \E c \in Controllers : ctl[c].pc \in {"wait", "file"}
         /\ o \in InTransit(hostDict[c][ctl[c].host])

Waiting(c) == ctl[c].pc \in {"wait", "file"}

(* The two ways in which the daemon of a host may wait for one controller  *)
(* for ever and serve no other: to send on with a file that a controller   *)
(* with -n (testing) has asked for, does not read and leaves on its full   *)
(* connection; and for the body that the header of a SET_SYSCTL without a  *)
(* known parameter announces.                                              *)
LeftUnread(h) ==
  LET i == dmn[h].slot
  IN /\ dmn[h].pc = "file" /\ dmn[h].left > 0
     /\ Len(conn[i].rep) >= Window
     /\ conn[i].c \in NoRun /\ ~Waiting(conn[i].c)

HeaderOnly(h) ==
  /\ dmn[h].pc = "body" /\ dmn[h].type = "SET_SYSCTL"
  /\ conn[dmn[h].slot].req = <<>>

(* Nothing but these two keeps a listed controller waiting: its command    *)
(* ends, or the daemon it waits for gets into one of them; however slowly  *)
(* others read, whatever sockets EXIT, restarts and broken files leave in  *)
(* their hostDict and its own, and however often daemons are restarted.    *)
Answered ==
  \A c \in Controllers \cap Allowed :
    Waiting(c) ~> \/ ~Waiting(c)
                  \/ LeftUnread(ctl[c].host)
                  \/ HeaderOnly(ctl[c].host)
=============================================================================
