--------------------------- MODULE NetestoDaemon ----------------------------
(***************************************************************************)
(* netesto.py -s, the daemon on each host (netesto/remote/netesto.py): one *)
(* select() loop that accepts connections, reads a message from each ready *)
(* socket to its end, carries it out and answers it before it looks at the *)
(* next.  Of doServer.sh and doClient.sh there is here only that they go   *)
(* on after the answer, and at some time leave a file, named after the     *)
(* command that started them, in the directory of their experiment.        *)
(***************************************************************************)
EXTENDS NetestoConn

CONSTANT Allowed   (* the controllers listed in clients.txt                *)

VARIABLES dmn,     (* what each host's daemon is doing                     *)
          jobs,    (* what scripts running on each host will write         *)
          disk     (* and what they have written and is still there        *)

daemonVars == <<dmn, jobs, disk>>

(* What the script started for c's command id writes.                      *)
File(exp, c, id) == [exp |-> exp, by |-> c, id |-> id]

Down == [pc |-> "down", slot |-> None, type |-> "", exp |-> None, id |-> 0,
         data |-> {}, left |-> 0]
Select == [Down EXCEPT !.pc = "select"]

InitDaemon ==
  /\ dmn = [h \in Hosts |-> Select]
  /\ jobs = [h \in Hosts |-> {}]
  /\ disk = [h \in Hosts |-> {}]

(* accept(): a client that is not allowed stays connected, but only until  *)
(* the next accept() overwrites clientSocket, the last reference to it.    *)
Accept(h, i) ==
  /\ dmn[h].pc = "select"
  /\ conn[i].h = h /\ conn[i].srv = "queued"
  /\ conn' = [j \in Slots |->
       IF j = i
       THEN [conn[i] EXCEPT !.srv = IF conn[i].c \in Allowed THEN "listed"
                                                              ELSE "ignored"]
       ELSE IF conn[j].h = h /\ conn[j].srv = "ignored"
            THEN CloseDaemon(conn[j]) ELSE conn[j]]
  /\ UNCHANGED daemonVars

Listed(h, i) == conn[i].h = h /\ conn[i].srv = "listed"

EndOfStream(i) == conn[i].req = <<>> /\ ~conn[i].ctl

(* closeAServerSocket().                                                   *)
CloseAServerSocket(h, i) ==
  /\ conn' = [conn EXCEPT ![i] = CloseDaemon(@)]
  /\ dmn' = [dmn EXCEPT ![h] = Select]
  /\ UNCHANGED <<jobs, disk>>

(* rcvMsg(), the header of the next message.                               *)
ReadHeader(h, i) ==
  /\ dmn[h].pc = "select"
  /\ Listed(h, i)
  /\ conn[i].req # <<>>
  /\ LET hdr == Head(conn[i].req)
     IN /\ HasBody(hdr.type)
        /\ dmn' = [dmn EXCEPT ![h] = [Down EXCEPT !.pc = "body", !.slot = i,
                     !.type = hdr.type, !.id = hdr.id]]
  /\ conn' = [conn EXCEPT ![i].req = Tail(@)]
  /\ UNCHANGED <<jobs, disk>>

(* rcvMsg() fails between two messages or inside one.                      *)
ReadFails(h, i) ==
  /\ \/ dmn[h].pc = "select" /\ Listed(h, i)
     \/ dmn[h].pc = "body" /\ dmn[h].slot = i
  /\ EndOfStream(i)
  /\ CloseAServerSocket(h, i)

MsgClose(h, i) ==
  /\ dmn[h].pc = "select"
  /\ Listed(h, i)
  /\ conn[i].req # <<>>
  /\ Head(conn[i].req).type = "CLOSE"
  /\ CloseAServerSocket(h, i)

(* The daemon's process ends: every socket it has is closed; closing one   *)
(* with unread input resets it, and what the controller has not read from  *)
(* it yet may be lost.                                                     *)
CloseAll(h, cs) ==
  \E cut \in SUBSET {j \in Slots : cs[j].h = h /\ cs[j].ctl /\ cs[j].req # <<>>} :
    conn' = [j \in Slots |->
      IF cs[j].h # h THEN cs[j]
      ELSE IF j \in cut THEN [CloseDaemon(cs[j]) EXCEPT !.rep = <<>>]
      ELSE CloseDaemon(cs[j])]

(* MSG_EXIT is answered before the daemon exits.                           *)
MsgExit(h, i) ==
  /\ dmn[h].pc = "select"
  /\ Listed(h, i)
  /\ conn[i].req # <<>>
  /\ LET hdr == Head(conn[i].req)
         read == [conn[i] EXCEPT !.req = Tail(@)]
     IN /\ hdr.type = "EXIT"
        /\ CloseAll(h, [conn EXCEPT ![i] =
                          ToController(read, <<Part("hdr", "RV", None, hdr.id)>>)])
  /\ dmn' = [dmn EXCEPT ![h] = Down]
  /\ UNCHANGED <<jobs, disk>>

(* sendMsgRV(): if the controller is gone the send may fail, and then the  *)
(* socket leaves readList.                                                 *)
Answer(h, i, cn, id) ==
  /\ \/ conn' = [conn EXCEPT ![i] =
                   ToController(cn, <<Part("hdr", "RV", None, id)>>)]
     \/ ~cn.ctl /\ conn' = [conn EXCEPT ![i] = CloseDaemon(cn)]
  /\ dmn' = [dmn EXCEPT ![h] = Select]

HasRead(h, types) ==
  /\ dmn[h].pc = "body" /\ dmn[h].type \in types
  /\ conn[dmn[h].slot].req # <<>>

(* The message body, and the connection without it.                        *)
Body(i) == Head(conn[i].req)
Rest(i) == [conn[i] EXCEPT !.req = Tail(@)]

(* A mutant: the branch returns 1 itself, as GET_DATA's does, unanswered.  *)
RunScriptSilent(h) ==
  LET i == dmn[h].slot
  IN /\ HasRead(h, {"DO_SERVER", "DO_CLIENT"})
     /\ jobs' = [jobs EXCEPT ![h] =
                   @ \cup {File(Body(i).exp, conn[i].c, dmn[h].id)}]
     /\ conn' = [conn EXCEPT ![i] = Rest(i)]
     /\ dmn' = [dmn EXCEPT ![h] = Select]
     /\ UNCHANGED disk

(* processMsg() once the body has been read: runCmd() starts a script and  *)
(* does not wait for it.                                                   *)
RunScript(h) ==
  LET i == dmn[h].slot
  IN /\ HasRead(h, {"DO_SERVER", "DO_CLIENT"})
     /\ jobs' = [jobs EXCEPT ![h] =
                   @ \cup {File(Body(i).exp, conn[i].c, dmn[h].id)}]
     /\ Answer(h, i, Rest(i), dmn[h].id)
     /\ UNCHANGED disk

ChangeSetting(h) ==
  LET i == dmn[h].slot
  IN /\ HasRead(h, {"SET_QDISC", "SET_SYSCTL"})
     /\ Answer(h, i, Rest(i), dmn[h].id)
     /\ UNCHANGED <<jobs, disk>>

(* GET_DATA: tar, then the MSG_FILE message.                               *)
OfExp(h, exp) == {x \in disk[h] : x.exp = exp}

SendMsgFile(h) ==
  LET i == dmn[h].slot
      exp == Body(i).exp
  IN /\ HasRead(h, {"GET_DATA"})
     /\ conn' = [conn EXCEPT ![i] =
                   ToController(Rest(i), <<Part("hdr", "FILE", exp, dmn[h].id)>>)]
     /\ dmn' = [dmn EXCEPT ![h].pc = "file", ![h].exp = exp,
                           ![h].data = OfExp(h, exp), ![h].left = Chunks]
     /\ UNCHANGED <<jobs, disk>>

(* sendFile(): the next piece, when the connection has room for it.        *)
SendChunk(h) ==
  LET d == dmn[h]
  IN /\ d.pc = "file" /\ d.left > 0
     /\ Len(conn[d.slot].rep) < Window
     /\ conn' = [conn EXCEPT ![d.slot] = ToController(@,
            <<[Part("chunk", "FILE", d.exp, d.id) EXCEPT !.data = d.data]>>)]
     /\ dmn' = [dmn EXCEPT ![h].left = @ - 1]
     /\ UNCHANGED <<jobs, disk>>

(* send() fails because the controller is gone: nothing is removed, and    *)
(* processMsg() still returns 1.                                           *)
SendFileFails(h) ==
  /\ dmn[h].pc = "file" /\ dmn[h].left > 0
  /\ ~conn[dmn[h].slot].ctl
  /\ dmn' = [dmn EXCEPT ![h] = Select]
  /\ UNCHANGED <<conn, jobs, disk>>

(* Mutants: the directory is removed before the last piece is sent; and    *)
(* GET_DATA falls through to the sendMsgRV() that ends processMsg().       *)
RemoveDataEarly(h) ==
  /\ dmn[h].pc = "file" /\ dmn[h].left <= 1
  /\ disk' = [disk EXCEPT ![h] = @ \ OfExp(h, dmn[h].exp)]
  /\ dmn' = [dmn EXCEPT ![h] = Select]
  /\ UNCHANGED <<conn, jobs>>

RemoveDataAnswers(h) ==
  /\ dmn[h].pc = "file" /\ dmn[h].left = 0
  /\ disk' = [disk EXCEPT ![h] = @ \ OfExp(h, dmn[h].exp)]
  /\ Answer(h, dmn[h].slot, conn[dmn[h].slot], dmn[h].id)
  /\ UNCHANGED jobs

(* Every piece has been handed to the kernel: rm -fR of the directory.     *)
RemoveData(h) ==
  /\ dmn[h].pc = "file" /\ dmn[h].left = 0
  /\ disk' = [disk EXCEPT ![h] = @ \ OfExp(h, dmn[h].exp)]
  /\ dmn' = [dmn EXCEPT ![h] = Select]
  /\ UNCHANGED <<conn, jobs>>

(* A script leaves its results.                                            *)
ScriptWrites(h, x) ==
  /\ x \in jobs[h]
  /\ jobs' = [jobs EXCEPT ![h] = @ \ {x}]
  /\ disk' = [disk EXCEPT ![h] = @ \cup {x}]
  /\ UNCHANGED <<conn, dmn>>

(* The daemon is killed, or exits after being idle for long; its host and  *)
(* its disk stay.  It is started again by hand.                            *)
StopDaemon(h) ==
  /\ dmn[h].pc # "down"
  /\ CloseAll(h, conn)
  /\ dmn' = [dmn EXCEPT ![h] = Down]
  /\ UNCHANGED <<jobs, disk>>

StartDaemon(h) ==
  /\ dmn[h].pc = "down"
  /\ dmn' = [dmn EXCEPT ![h] = Select]
  /\ UNCHANGED <<conn, jobs, disk>>

Serve(h) ==
  \/ RunScript(h) \/ ChangeSetting(h) \/ SendMsgFile(h) \/ SendChunk(h)
  \/ SendFileFails(h) \/ RemoveData(h)

ServeSocket(h, i) ==
  Accept(h, i) \/ ReadHeader(h, i) \/ ReadFails(h, i) \/ MsgClose(h, i)
    \/ MsgExit(h, i)
=============================================================================
