---------------------------- MODULE NetestoProofs ----------------------------
(***************************************************************************)
(* Proofs about the netesto link for any number of controllers, hosts and  *)
(* connections, when scripts set a known parameter in every SET_SYSCTL     *)
(* (Bare is FALSE: otherwise the daemon waits for a body never sent).      *)
(*                                                                         *)
(* The invariant looks at one connection at a time, with what its          *)
(* controller asks over it and what its daemon does for it.  A connection  *)
(* carries at most one request and the answer to it; the pieces of a file  *)
(* still to come add up to what the controller expects; and a directory is *)
(* removed only when all of it is on the connection or stored.             *)
(***************************************************************************)
EXTENDS Netesto, TLAPS

Conns == [c : Controllers \cup {None}, h : Hosts \cup {None}, ctl : BOOLEAN,
          srv : {"queued", "listed", "ignored", "closed"},
          req : Seq(Parts), rep : Seq(Parts)]
Askers == [pc : {"idle", "wait", "file", "dead"}, com : Commands \cup {""},
           host : Hosts \cup {None}, exp : Exps \cup {None}, left : 0..Chunks,
           id : 0..MaxCmds]
Servers == [pc : {"down", "select", "body", "file"}, slot : Slots \cup {None},
            type : Commands \cup {""}, exp : Exps \cup {None}, id : 0..MaxCmds,
            data : SUBSET Files, left : 0..Chunks]

Typed ==
  /\ conn \in [Slots -> Conns]
  /\ dmn \in [Hosts -> Servers]
  /\ jobs \in [Hosts -> SUBSET Files] /\ disk \in [Hosts -> SUBSET Files]
  /\ ctl \in [Controllers -> Askers]
  /\ hostDict \in [Controllers -> [Hosts -> Slots \cup {None}]]
  /\ getData \in [Controllers -> SUBSET Hosts]
  /\ got \in [Controllers -> SUBSET (Hosts \X Files)]

(* hostDict and the connections point at each other; who waits has a       *)
(* socket; a daemon serves a connection of its own.                        *)
LinksOut ==
  \A c \in Controllers, h \in Hosts : hostDict[c][h] # None =>
    LET cn == conn[hostDict[c][h]] IN cn.c = c /\ cn.h = h /\ cn.ctl
LinksIn ==
  \A i \in Slots : conn[i].ctl =>
    /\ conn[i].c \in Controllers /\ conn[i].h \in Hosts
    /\ hostDict[conn[i].c][conn[i].h] = i
Ends ==
  \A i \in Slots : conn[i].srv # "closed" =>
    conn[i].c \in Controllers /\ conn[i].h \in Hosts
Waits ==
  \A c \in Controllers :
    IF ctl[c].pc \in {"wait", "file"}
    THEN ctl[c].host \in Hosts /\ hostDict[c][ctl[c].host] # None
    ELSE ctl[c].host = None
Serves ==
  \A h \in Hosts :
    IF dmn[h].pc \in {"body", "file"}
    THEN dmn[h].slot \in Slots /\ conn[dmn[h].slot].h = h
    ELSE dmn[h].slot = None
Links == LinksOut /\ LinksIn /\ Ends /\ Waits /\ Serves

(* What the controller of a connection cn asks over it, what the daemon    *)
(* does for it if it is connection i, and what the controller has stored.  *)
Asker(cn) == IF cn.ctl /\ ctl[cn.c].host = cn.h THEN ctl[cn.c] ELSE Idle
Server(cn, i) ==
  IF cn.h \in Hosts /\ dmn[cn.h].slot = i THEN dmn[cn.h] ELSE Select
Stored(cn) == IF cn.ctl THEN got[cn.c] ELSE {}

(* A request, and what is left of it when its header has been read.        *)
Whole(s) ==
  \/ Len(s) = 1 /\ s[1].kind = "hdr" /\ s[1].type \in Commands /\ ~HasBody(s[1].type)
  \/ /\ Len(s) = 2 /\ s[1].kind = "hdr" /\ s[1].type \in Commands
     /\ HasBody(s[1].type) /\ s[2].kind = "body" /\ s[2].exp \in Exps
     /\ s[2].id = s[1].id
Half(s) == Len(s) = 1 /\ s[1].kind = "body" /\ s[1].exp \in Exps

AllChunks(s) == \A n \in 1..Len(s) : s[n].kind = "chunk"

(* The connection's request side, and what closed ends have.               *)
Requests(cn, d) ==
  /\ \/ Len(cn.req) = 0 /\ d.pc # "body"
     \/ Whole(cn.req) /\ d.pc # "body"
     \/ Half(cn.req) /\ d.pc = "body" /\ HasBody(d.type)
  /\ ~cn.ctl => Len(cn.rep) = 0
  /\ cn.srv = "closed" => Len(cn.req) = 0
  /\ d.pc \in {"body", "file"} => cn.srv = "listed" /\ d.id >= 1

(* What holds of the replies to any controller.                            *)
Replies(cn, q) ==
  /\ q.pc \in {"idle", "wait", "file"}
  /\ q.pc # "idle" => q.id >= 1
  /\ q.pc # "wait" => Len(cn.req) = 0
  /\ Len(cn.rep) <= Window + 1
  /\ Len(cn.req) > 0 \/ q.pc = "idle" => AllChunks(cn.rep) /\ Len(cn.rep) <= Window
  /\ \A n \in 1..Len(cn.rep) :
       \/ cn.rep[n].kind = "chunk"
       \/ cn.rep[n].kind = "hdr" /\ cn.rep[n].type \in {"RV", "FILE"}
  /\ \A n \in 2..Len(cn.rep) :
       cn.rep[1].kind = "hdr" => cn.rep[n].kind = "chunk"
  /\ q.pc = "wait" /\ cn.srv # "closed" => Len(cn.req) > 0 \/ Len(cn.rep) > 0
  /\ q.pc = "file" => cn.c \notin NoRun

(* The pieces still to be sent, and whether m pieces on the connection are *)
(* what of n is still to be received (fewer if the daemon is gone).        *)
ToSend(d) == IF d.pc = "file" THEN d.left ELSE 0
AddsUp(cn, d, m, n) ==
  m + ToSend(d) <= n /\ (cn.srv # "closed" => m + ToSend(d) = n)

(* All of data, of host h, is stored.                                      *)
AllIn(h, data, stored) == \A x \in data : <<h, x>> \in stored

(* What holds of the replies to a controller that reads files.             *)
Answers(cn, q, d, stored) ==
  /\ Len(cn.req) > 0 \/ q.pc = "idle" => Len(cn.rep) = 0 /\ ToSend(d) = 0
  /\ \A n \in 1..Len(cn.req) : cn.req[n].id = q.id
  /\ \A n \in 1..Len(cn.rep) : cn.rep[n].id = q.id
  /\ d.pc = "body" \/ ToSend(d) > 0 => d.id = q.id
  /\ q.pc = "wait" /\ Len(cn.rep) > 0 =>
       /\ cn.rep[1].kind = "hdr"
       /\ IF cn.rep[1].type = "FILE"
          THEN AddsUp(cn, d, Len(cn.rep) - 1, Chunks)
          ELSE Len(cn.rep) = 1 /\ d.pc = "select"
  /\ q.pc = "file" =>
       AllChunks(cn.rep) /\ q.left >= 1 /\ AddsUp(cn, d, Len(cn.rep), q.left)
  /\ \A m, n \in 1..Len(cn.rep) :
       cn.rep[m].kind = "chunk" /\ cn.rep[n].kind = "chunk"
         => cn.rep[m].data = cn.rep[n].data
  /\ d.pc = "file" =>
       /\ \A n \in 1..Len(cn.rep) : cn.rep[n].kind = "chunk" => cn.rep[n].data = d.data
       /\ d.left = 0 /\ Len(cn.rep) = 0 => AllIn(cn.h, d.data, stored)

Talk(cn, q, d, stored) ==
  /\ Requests(cn, d)
  /\ cn.ctl => Replies(cn, q)
  /\ cn.ctl /\ cn.c \notin NoRun => Answers(cn, q, d, stored)

Talks == \A i \in Slots :
           Talk(conn[i], Asker(conn[i]), Server(conn[i], i), Stored(conn[i]))

-----------------------------------------------------------------------------
(* Sequences.                                                              *)

LEMMA EmptySeq ==
  ASSUME NEW S, NEW s \in Seq(S)
  PROVE  Len(s) \in Nat /\ (s = <<>> <=> Len(s) = 0)
OBVIOUS

(* t is s without its first part, and s with x added to its end.           *)
Dropped(s, t) ==
  /\ Len(t) \in Nat /\ Len(t) = Len(s) - 1
  /\ \A n \in 1..Len(t) : n + 1 \in 2..Len(s) /\ n + 1 \in 1..Len(s) /\ t[n] = s[n + 1]
Added(s, x, t) ==
  /\ Len(t) \in Nat /\ Len(t) = Len(s) + 1
  /\ \A n \in 1..Len(s) : n \in 1..Len(t) /\ t[n] = s[n]
  /\ t[Len(t)] = x
  /\ \A n \in 1..Len(t) : n \in 1..Len(s) \/ n = Len(t)

LEMMA TailSeq ==
  ASSUME NEW S, NEW s \in Seq(S), Len(s) > 0
  PROVE  /\ Tail(s) \in Seq(S) /\ Dropped(s, Tail(s))
         /\ Head(s) = s[1] /\ s[1] \in S
<1>1. Tail(s) \in Seq(S) /\ Len(Tail(s)) = Len(s) - 1 /\ Len(s) \in Nat
  OBVIOUS
<1>2. \A n \in 1..(Len(s) - 1) : Tail(s)[n] = s[n + 1]
  OBVIOUS
<1>3. Head(s) = s[1] /\ s[1] \in S
  OBVIOUS
<1>4. QED
  BY <1>1, <1>2, <1>3 DEF Dropped

LEMMA AddSeq ==
  ASSUME NEW S, NEW s \in Seq(S), NEW x \in S
  PROVE  s \o <<x>> \in Seq(S) /\ Added(s, x, s \o <<x>>)
<1>1. /\ s \o <<x>> \in Seq(S) /\ Len(s \o <<x>>) = Len(s) + 1 /\ Len(s) \in Nat
      /\ \A n \in 1..Len(s) : (s \o <<x>>)[n] = s[n]
      /\ (s \o <<x>>)[Len(s) + 1] = x
  OBVIOUS
<1>2. QED
  BY <1>1 DEF Added

LEMMA SomeLeft ==
  ASSUME NEW n \in Nat, NEW m \in Nat, NEW k \in Nat, n + m = k, m = 0, k > 0
  PROVE  n # 0
OBVIOUS

LEMMA LastPiece ==
  ASSUME NEW n \in Nat, NEW n2 \in Nat, NEW m \in Nat, NEW k \in Nat,
         n > 0, n2 = n - 1, n + m <= k, ~(k > 1)
  PROVE  n = 1 /\ n2 = 0 /\ m = 0
OBVIOUS

LEMMA ConnFields ==
  ASSUME NEW cn \in Conns
  PROVE  /\ cn.c \in Controllers \cup {None} /\ cn.h \in Hosts \cup {None}
         /\ cn.ctl \in BOOLEAN
         /\ cn.srv \in {"queued", "listed", "ignored", "closed"}
         /\ cn.req \in Seq(Parts) /\ cn.rep \in Seq(Parts)
         /\ Len(cn.req) \in Nat /\ Len(cn.rep) \in Nat
BY DEF Conns

LEMMA Counts ==
  /\ Chunks \in Nat \ {0} /\ Window \in Nat \ {0} /\ MaxCmds \in Nat
  /\ \A q \in Askers : q.left \in Nat /\ q.id \in 0..MaxCmds /\ q.id \in Nat
  /\ \A d \in Servers : d.left \in Nat /\ d.id \in 0..MaxCmds /\ d.id \in Nat
                      /\ ToSend(d) \in Nat
  /\ ToSend(Select) = 0 /\ Select.pc = "select"
<1>1. /\ Chunks \in Nat \ {0} /\ Window \in Nat \ {0} /\ MaxCmds \in Nat
  BY NetestoAssumption, ControllerAssumption
<1>2. \A q \in Askers : q.left \in 0..Chunks /\ q.id \in 0..MaxCmds
  BY DEF Askers
<1>3. \A d \in Servers : d.left \in 0..Chunks /\ d.id \in 0..MaxCmds
  BY DEF Servers
<1>4. \A d \in Servers : d.left \in Nat
  BY <1>1, <1>3
<1>5. \A d \in Servers : ToSend(d) \in Nat
  BY <1>4 DEF ToSend
<1>6. ToSend(Select) = 0 /\ Select.pc = "select"
  BY DEF ToSend, Select, Down
<1>7. QED
  BY <1>1, <1>2, <1>3, <1>4, <1>5, <1>6

-----------------------------------------------------------------------------
(* What each step does to one connection, cn becoming cn2, its asker q, q2 *)
(* and its server d, d2.  First, one end closes.                           *)

LEMMA NoTalk == ASSUME NEW st PROVE Talk(NoConn, Idle, Select, st)
BY DEF Talk, Requests, NoConn, Idle, Select, Down

LEMMA ControllerCloses ==
  ASSUME NEW cn \in Conns, NEW cn2 \in Conns, NEW d \in Servers, NEW q, NEW st,
         Talk(cn, q, d, st), ~cn2.ctl, Len(cn2.rep) = 0, cn2.req = cn.req,
         cn2.srv = cn.srv
  PROVE  Talk(cn2, Idle, d, {})
BY DEF Talk, Requests

LEMMA DaemonCloses ==
  ASSUME NEW cn \in Conns, NEW cn2 \in Conns, NEW q \in Askers,
         NEW d \in Servers, NEW st,
         Talk(cn, q, d, st),
         cn2.c = cn.c, cn2.h = cn.h, cn2.ctl = cn.ctl, cn2.srv = "closed",
         Len(cn2.req) = 0,
         cn2.rep = cn.rep \/ (Len(cn.req) > 0 /\ Len(cn2.rep) = 0)
  PROVE  Talk(cn2, q, Select, st)
<1>a. /\ Len(cn.rep) \in Nat /\ Len(cn2.rep) \in Nat /\ Len(cn.req) \in Nat
      /\ d.left \in Nat /\ Chunks \in Nat /\ Window \in Nat /\ q.left \in Nat
  BY ConnFields, Counts
<1>1. Requests(cn2, Select)
  BY <1>a, Counts DEF Talk, Requests
<1>2. ASSUME cn.ctl PROVE Replies(cn2, q)
  <2>1. Replies(cn, q)
    BY <1>2 DEF Talk
  <2>2. CASE cn2.rep = cn.rep
    BY <1>a, <2>1, <2>2 DEF Replies, AllChunks
  <2>3. CASE Len(cn.req) > 0 /\ Len(cn2.rep) = 0
    BY <1>a, <2>1, <2>3 DEF Replies, AllChunks
  <2>4. QED
    BY <2>2, <2>3
<1>3. ASSUME cn.ctl, cn.c \notin NoRun PROVE Answers(cn2, q, Select, st)
  <2>1. Replies(cn, q) /\ Answers(cn, q, d, st)
    BY <1>3 DEF Talk
  <2>2. ToSend(Select) = 0 /\ ToSend(d) \in Nat
    BY Counts
  <2>3. Select.pc = "select"
    BY Counts
  <2>4. CASE cn2.rep = cn.rep
    <3>1. \A m, n \in Nat : AddsUp(cn, d, m, n) => AddsUp(cn2, Select, m, n)
      <4> SUFFICES ASSUME NEW m \in Nat, NEW n \in Nat, m + ToSend(d) <= n
                   PROVE  m + 0 <= n
        BY <2>2 DEF AddsUp
      <4>1. QED
        BY <2>2
    <3>2. Len(cn.rep) > 0 => Len(cn.rep) - 1 \in Nat
      BY <1>a
    <3>3. QED
      BY <1>a, <2>1, <2>2, <2>3, <2>4, <3>1, <3>2 DEF Answers
  <2>5. CASE Len(cn.req) > 0 /\ Len(cn2.rep) = 0
    BY <1>a, <2>1, <2>2, <2>3, <2>5 DEF Answers, Replies, AllChunks, AddsUp
  <2>6. QED
    BY <2>4, <2>5
<1>4. QED
  BY <1>1, <1>2, <1>3 DEF Talk

(* The controller sends a request.                                         *)
LEMMA ControllerAsks ==
  ASSUME NEW cn \in Conns, NEW cn2 \in Conns, NEW q \in Askers, NEW q2 \in Askers,
         NEW d \in Servers, NEW st,
         Talk(cn, q, d, st), cn.ctl, q.pc = "idle", q2.pc = "wait", q2.id >= 1,
         cn2.c = cn.c, cn2.h = cn.h, cn2.ctl, cn2.srv = cn.srv, cn2.rep = cn.rep,
         IF cn.srv = "closed" THEN cn2.req = cn.req
         ELSE Whole(cn2.req) /\ \A n \in 1..Len(cn2.req) : cn2.req[n].id = q2.id
  PROVE  Talk(cn2, q2, d, st)
<1>a. /\ Len(cn.rep) \in Nat /\ Len(cn2.req) \in Nat /\ Len(cn.req) \in Nat
      /\ d.left \in Nat /\ Chunks \in Nat /\ Window \in Nat /\ ToSend(d) \in Nat
  BY ConnFields, Counts
<1>1. Requests(cn, d) /\ Replies(cn, q)
  BY DEF Talk
<1>2. Len(cn.req) = 0 /\ d.pc # "body"
  BY <1>1 DEF Requests, Replies, Whole, Half
<1>3. Requests(cn2, d)
  <2>1. CASE cn.srv = "closed"
    BY <1>1, <1>2, <2>1 DEF Requests
  <2>2. CASE cn.srv # "closed"
    BY <1>1, <1>2, <2>2 DEF Requests
  <2>3. QED
    BY <2>1, <2>2
<1>4. cn2.srv # "closed" => Len(cn2.req) > 0
  BY <1>a DEF Whole
<1>5. Replies(cn2, q2)
  BY <1>a, <1>1, <1>4 DEF Replies, AllChunks
<1>6. ASSUME cn.c \notin NoRun PROVE Answers(cn2, q2, d, st)
  <2>1. Answers(cn, q, d, st)
    BY <1>6 DEF Talk
  <2>2. Len(cn.rep) = 0 /\ ToSend(d) = 0
    BY <2>1 DEF Answers
  <2>3. \A n \in 1..Len(cn2.req) : cn2.req[n].id = q2.id
    BY <1>2
  <2>4. QED
    BY <1>a, <1>2, <2>1, <2>2, <2>3 DEF Answers
<1>7. QED
  BY <1>3, <1>5, <1>6 DEF Talk

(* The controller reads the reply.                                         *)
LEMMA ReplyRead ==
  ASSUME NEW cn \in Conns, NEW cn2 \in Conns, NEW q \in Askers, NEW q2 \in Askers,
         NEW d \in Servers, NEW st,
         Talk(cn, q, d, st), cn.ctl, q.pc = "wait", Len(cn.rep) > 0,
         cn.rep[1].kind = "hdr",
         cn2.c = cn.c, cn2.h = cn.h, cn2.ctl, cn2.srv = cn.srv, cn2.req = cn.req,
         Dropped(cn.rep, cn2.rep),
         IF cn.rep[1].type = "FILE" /\ cn.c \notin NoRun
         THEN q2.pc = "file" /\ q2.left = Chunks /\ q2.id = q.id
         ELSE q2.pc = "idle"
  PROVE  Talk(cn2, q2, d, st)
<1>a. /\ Len(cn.rep) \in Nat /\ Len(cn2.rep) \in Nat /\ Len(cn.req) \in Nat
      /\ Len(cn.rep) > 0 /\ Chunks \in Nat \ {0} /\ d.left \in Nat /\ Window \in Nat /\ ToSend(d) \in Nat
  BY ConnFields, Counts
<1>b. /\ Len(cn2.rep) = Len(cn.rep) - 1
      /\ \A n \in 1..Len(cn2.rep) : /\ n + 1 \in 2..Len(cn.rep) /\ n + 1 \in 1..Len(cn.rep)
                                   /\ cn2.rep[n] = cn.rep[n + 1]
  BY DEF Dropped
<1>1. Requests(cn, d) /\ Replies(cn, q)
  BY DEF Talk
<1>2. Len(cn.req) = 0
  BY <1>a, <1>1 DEF Replies, AllChunks
<1>3. Requests(cn2, d)
  BY <1>1 DEF Requests
<1>4. AllChunks(cn2.rep)
  BY <1>a, <1>b, <1>1 DEF Replies, AllChunks
<1>5. Replies(cn2, q2)
  BY <1>a, <1>b, <1>1, <1>2, <1>4 DEF Replies, AllChunks
<1>6. ASSUME cn.c \notin NoRun PROVE Answers(cn2, q2, d, st)
  <2>1. Answers(cn, q, d, st)
    BY <1>6 DEF Talk
  <2>2. CASE cn.rep[1].type = "FILE"
    <3>1. q2.pc = "file" /\ q2.left = Chunks /\ q2.id = q.id
      BY <1>6, <2>2
    <3>2. AddsUp(cn2, d, Len(cn2.rep), q2.left)
      BY <1>b, <2>1, <2>2, <3>1 DEF Answers, AddsUp
    <3>3. d.pc = "file" /\ d.left = 0 => Len(cn2.rep) # 0
      <4> SUFFICES ASSUME d.pc = "file", d.left = 0 PROVE Len(cn2.rep) # 0
        OBVIOUS
      <4>1. cn2.srv # "closed"
        BY <1>1 DEF Requests
      <4>2. ToSend(d) = 0
        BY DEF ToSend
      <4>3. Len(cn2.rep) + ToSend(d) = Chunks
        BY <3>1, <3>2, <4>1 DEF AddsUp
      <4>4. QED
        <5>1. Chunks \in Nat /\ Chunks > 0
          BY <1>a
        <5>2. QED
          BY <1>a, <4>2, <4>3, <5>1, SomeLeft
    <3>4. /\ \A n \in 1..Len(cn2.rep) : cn2.rep[n].id = q2.id
          /\ \A m, n \in 1..Len(cn2.rep) : cn2.rep[m].data = cn2.rep[n].data
          /\ d.pc = "file" => \A n \in 1..Len(cn2.rep) : cn2.rep[n].data = d.data
      <4>1. \A n \in 1..Len(cn2.rep) : cn.rep[n + 1].kind = "chunk"
        BY <1>b, <1>4 DEF AllChunks
      <4>2. \A n \in 1..Len(cn.rep) : cn.rep[n].id = q.id
        BY <2>1 DEF Answers
      <4>3. \A m, n \in 1..Len(cn.rep) :
              cn.rep[m].kind = "chunk" /\ cn.rep[n].kind = "chunk"
                => cn.rep[m].data = cn.rep[n].data
        BY <2>1 DEF Answers
      <4>4. d.pc = "file" => \A n \in 1..Len(cn.rep) :
              cn.rep[n].kind = "chunk" => cn.rep[n].data = d.data
        BY <2>1 DEF Answers
      <4>5. \A n \in 1..Len(cn2.rep) : cn2.rep[n].id = q2.id
        BY <1>b, <3>1, <4>2
      <4>6. \A m, n \in 1..Len(cn2.rep) : cn2.rep[m].data = cn2.rep[n].data
        <5> SUFFICES ASSUME NEW m \in 1..Len(cn2.rep), NEW n \in 1..Len(cn2.rep)
                     PROVE  cn2.rep[m].data = cn2.rep[n].data
          OBVIOUS
        <5>1. /\ m + 1 \in 1..Len(cn.rep) /\ n + 1 \in 1..Len(cn.rep)
              /\ cn2.rep[m] = cn.rep[m + 1] /\ cn2.rep[n] = cn.rep[n + 1]
          BY <1>b
        <5>2. cn.rep[m + 1].kind = "chunk" /\ cn.rep[n + 1].kind = "chunk"
          BY <4>1
        <5>3. cn.rep[m + 1].data = cn.rep[n + 1].data
          BY <4>3, <5>1, <5>2
        <5>4. QED
          BY <5>1, <5>3
      <4>7. d.pc = "file" => \A n \in 1..Len(cn2.rep) : cn2.rep[n].data = d.data
        BY <1>b, <4>1, <4>4
      <4>8. QED
        BY <4>5, <4>6, <4>7
    <3>5. QED
      BY <1>a, <1>b, <1>2, <1>4, <2>1, <3>1, <3>2, <3>3, <3>4 DEF Answers
  <2>3. CASE cn.rep[1].type # "FILE"
    <3>1. q2.pc = "idle" /\ Len(cn2.rep) = 0 /\ d.pc = "select"
      BY <1>a, <1>b, <2>1, <2>3 DEF Answers
    <3>2. ToSend(d) = 0
      BY <3>1 DEF ToSend
    <3>3. QED
      BY <1>2, <3>1, <3>2 DEF Answers
  <2>4. QED
    BY <2>2, <2>3
<1>7. QED
  BY <1>3, <1>5, <1>6 DEF Talk

(* The controller reads a piece of the file.                               *)
LEMMA ChunkRead ==
  ASSUME NEW cn \in Conns, NEW cn2 \in Conns, NEW q \in Askers, NEW q2 \in Askers,
         NEW d \in Servers, NEW st, NEW st2,
         Talk(cn, q, d, st), cn.ctl, q.pc = "file", Len(cn.rep) > 0,
         cn2.c = cn.c, cn2.h = cn.h, cn2.ctl, cn2.srv = cn.srv, cn2.req = cn.req,
         Dropped(cn.rep, cn2.rep), \A h, data : AllIn(h, data, st) => AllIn(h, data, st2),
         IF q.left > 1
         THEN q2.pc = "file" /\ q2.left = q.left - 1 /\ q2.id = q.id
         ELSE q2.pc = "idle" /\ AllIn(cn.h, cn.rep[1].data, st2)
  PROVE  Talk(cn2, q2, d, st2)
<1>a. /\ Len(cn.rep) \in Nat /\ Len(cn2.rep) \in Nat /\ Len(cn.req) \in Nat
      /\ Len(cn.rep) > 0 /\ Chunks \in Nat \ {0} /\ d.left \in Nat /\ Window \in Nat /\ ToSend(d) \in Nat /\ q.left \in Nat
  BY ConnFields, Counts
<1>b. /\ Len(cn2.rep) = Len(cn.rep) - 1
      /\ \A n \in 1..Len(cn2.rep) : /\ n + 1 \in 2..Len(cn.rep) /\ n + 1 \in 1..Len(cn.rep)
                                   /\ cn2.rep[n] = cn.rep[n + 1]
  BY DEF Dropped
<1>1. /\ Requests(cn, d) /\ Replies(cn, q) /\ cn.c \notin NoRun
      /\ Answers(cn, q, d, st)
  BY DEF Talk, Replies
<1>2. Len(cn.req) = 0
  BY <1>1 DEF Replies
<1>3. Requests(cn2, d)
  BY <1>1 DEF Requests
<1>4. AllChunks(cn.rep) /\ AllChunks(cn2.rep)
  BY <1>a, <1>b, <1>1 DEF Answers, AllChunks
<1>5. Len(cn.rep) + ToSend(d) <= q.left
      /\ (cn.srv # "closed" => Len(cn.rep) + ToSend(d) = q.left)
  BY <1>1 DEF Answers, AddsUp
<1>6. CASE q.left > 1
  <2>1. q2.pc = "file" /\ q2.left = q.left - 1 /\ q2.id = q.id
    BY <1>6
  <2>2. Replies(cn2, q2)
    BY <1>a, <1>b, <1>1, <1>2, <1>4, <2>1 DEF Replies, AllChunks
  <2>3. AddsUp(cn2, d, Len(cn2.rep), q2.left)
    BY <1>a, <1>b, <1>5, <2>1 DEF AddsUp
  <2>4. d.pc = "file" /\ d.left = 0 => Len(cn2.rep) # 0
    <3> SUFFICES ASSUME d.pc = "file", d.left = 0 PROVE Len(cn2.rep) # 0
      OBVIOUS
    <3>1. cn.srv # "closed"
      BY <1>1 DEF Requests
    <3>2. ToSend(d) = 0
      BY DEF ToSend
    <3>3. Len(cn2.rep) + ToSend(d) = q.left - 1
      BY <1>5, <2>1, <2>3, <3>1 DEF AddsUp
    <3>4. q.left - 1 \in Nat /\ q.left - 1 > 0
      BY <1>a, <1>6
    <3>5. QED
      BY <1>a, <3>2, <3>3, <3>4, SomeLeft
  <2>5. Answers(cn2, q2, d, st2)
    <3>1. /\ \A n \in 1..Len(cn2.rep) : cn2.rep[n].id = q2.id
          /\ \A m, n \in 1..Len(cn2.rep) : cn2.rep[m].data = cn2.rep[n].data
          /\ d.pc = "file" => \A n \in 1..Len(cn2.rep) : cn2.rep[n].data = d.data
      <4>1. \A n \in 1..Len(cn2.rep) : cn.rep[n + 1].kind = "chunk"
        BY <1>b, <1>4 DEF AllChunks
      <4>2. \A n \in 1..Len(cn.rep) : cn.rep[n].id = q.id
        BY <1>1 DEF Answers
      <4>3. \A m, n \in 1..Len(cn.rep) :
              cn.rep[m].kind = "chunk" /\ cn.rep[n].kind = "chunk"
                => cn.rep[m].data = cn.rep[n].data
        BY <1>1 DEF Answers
      <4>4. d.pc = "file" => \A n \in 1..Len(cn.rep) :
              cn.rep[n].kind = "chunk" => cn.rep[n].data = d.data
        BY <1>1 DEF Answers
      <4>5. \A n \in 1..Len(cn2.rep) : cn2.rep[n].id = q2.id
        BY <1>b, <2>1, <4>2
      <4>6. \A m, n \in 1..Len(cn2.rep) : cn2.rep[m].data = cn2.rep[n].data
        <5> SUFFICES ASSUME NEW m \in 1..Len(cn2.rep), NEW n \in 1..Len(cn2.rep)
                     PROVE  cn2.rep[m].data = cn2.rep[n].data
          OBVIOUS
        <5>1. /\ m + 1 \in 1..Len(cn.rep) /\ n + 1 \in 1..Len(cn.rep)
              /\ cn2.rep[m] = cn.rep[m + 1] /\ cn2.rep[n] = cn.rep[n + 1]
          BY <1>b
        <5>2. cn.rep[m + 1].kind = "chunk" /\ cn.rep[n + 1].kind = "chunk"
          BY <4>1
        <5>3. cn.rep[m + 1].data = cn.rep[n + 1].data
          BY <4>3, <5>1, <5>2
        <5>4. QED
          BY <5>1, <5>3
      <4>7. d.pc = "file" => \A n \in 1..Len(cn2.rep) : cn2.rep[n].data = d.data
        BY <1>b, <4>1, <4>4
      <4>8. QED
        BY <4>5, <4>6, <4>7
    <3>2. QED
      BY <1>a, <1>b, <1>1, <1>2, <1>4, <1>6, <2>1, <2>3, <2>4, <3>1 DEF Answers
  <2>6. QED
    BY <1>3, <2>2, <2>5 DEF Talk
<1>7. CASE ~(q.left > 1)
  <2>1. q2.pc = "idle" /\ AllIn(cn.h, cn.rep[1].data, st2)
    BY <1>7
  <2>2. Len(cn.rep) = 1 /\ Len(cn2.rep) = 0 /\ ToSend(d) = 0
    <3>1. Len(cn.rep) + ToSend(d) <= q.left /\ Len(cn2.rep) = Len(cn.rep) - 1
      BY <1>b, <1>5
    <3>2. QED
      BY <1>a, <1>7, <3>1, LastPiece
  <2>3. Replies(cn2, q2)
    <3>1. Len(cn2.req) = 0
      BY <1>2
    <3>2. Len(cn2.rep) <= Window /\ Len(cn2.rep) <= Window + 1
      BY <1>a, <2>2
    <3>3. \A n \in 1..Len(cn2.rep) : FALSE
      BY <2>2
    <3>4. \A n \in 2..Len(cn2.rep) : FALSE
      BY <2>2
    <3>5. q2.pc = "idle"
      BY <2>1
    <3>6. QED
      BY <1>4, <3>1, <3>2, <3>3, <3>4, <3>5 DEF Replies
  <2>4. d.pc # "body"
    BY <1>1, <1>2 DEF Requests, Half
  <2>5. d.pc = "file" => AllIn(cn2.h, d.data, st2)
    BY <1>1, <1>4, <2>1, <2>2 DEF Answers, AllChunks
  <2>6. Answers(cn2, q2, d, st2)
    BY <1>2, <2>1, <2>2, <2>4, <2>5 DEF Answers
  <2>7. QED
    BY <1>3, <2>3, <2>6 DEF Talk
<1>8. QED
  BY <1>6, <1>7

(* readFile() fails.                                                       *)
LEMMA FileEnds ==
  ASSUME NEW cn \in Conns, NEW q \in Askers, NEW q2 \in Askers, NEW d \in Servers,
         NEW st,
         Talk(cn, q, d, st), cn.ctl, q.pc = "file", Len(cn.rep) = 0,
         cn.srv = "closed", q2.pc = "idle"
  PROVE  Talk(cn, q2, d, st)
<1>1. /\ Requests(cn, d) /\ Replies(cn, q) /\ cn.c \notin NoRun
      /\ Answers(cn, q, d, st)
  BY DEF Talk, Replies
<1>2. d.pc \notin {"body", "file"} /\ Len(cn.req) = 0 /\ ToSend(d) = 0
  BY <1>1 DEF Requests, ToSend
<1>3. Replies(cn, q2)
  BY <1>1, <1>2, Counts DEF Replies, AllChunks
<1>4. Answers(cn, q2, d, st)
  BY <1>1, <1>2 DEF Answers
<1>5. QED
  BY <1>1, <1>3, <1>4 DEF Talk

(* The daemon accepts the connection, or goes on to another.               *)
LEMMA Accepted ==
  ASSUME NEW cn \in Conns, NEW cn2 \in Conns, NEW q, NEW d, NEW st,
         Talk(cn, q, d, st), cn.srv = "queued", cn2.srv \in {"listed", "ignored"},
         cn2.c = cn.c, cn2.h = cn.h, cn2.ctl = cn.ctl, cn2.req = cn.req,
         cn2.rep = cn.rep
  PROVE  Talk(cn2, q, d, st)
<1>1. Requests(cn2, d)
  BY DEF Talk, Requests
<1>2. ASSUME cn.ctl PROVE Replies(cn2, q)
  BY <1>2 DEF Talk, Replies
<1>3. ASSUME cn.ctl, cn.c \notin NoRun PROVE Answers(cn2, q, d, st)
  <2>1. Answers(cn, q, d, st)
    BY <1>3 DEF Talk
  <2>2. \A m, n : AddsUp(cn, d, m, n) => AddsUp(cn2, d, m, n)
    BY DEF AddsUp
  <2>3. QED
    BY <2>1, <2>2 DEF Answers
<1>4. QED
  BY <1>1, <1>2, <1>3 DEF Talk

(* The daemon reads a header.                                              *)
LEMMA HeaderRead ==
  ASSUME NEW cn \in Conns, NEW cn2 \in Conns, NEW q, NEW d \in Servers,
         NEW d2 \in Servers, NEW st,
         Talk(cn, q, d, st), d.pc = "select", cn.srv = "listed", Len(cn.req) > 0,
         HasBody(cn.req[1].type), d2.pc = "body", d2.type = cn.req[1].type,
         d2.id = cn.req[1].id, d2.id >= 1,
         cn2.c = cn.c, cn2.h = cn.h, cn2.ctl = cn.ctl, cn2.srv = cn.srv,
         cn2.rep = cn.rep, Dropped(cn.req, cn2.req)
  PROVE  Talk(cn2, q, d2, st)
<1>a. Len(cn.rep) \in Nat /\ Len(cn2.req) \in Nat /\ Len(cn.req) \in Nat
  BY ConnFields
<1>b. /\ Len(cn2.req) = Len(cn.req) - 1
      /\ \A n \in 1..Len(cn2.req) : cn2.req[n] = cn.req[n + 1]
  BY DEF Dropped
<1>1. Requests(cn, d)
  BY DEF Talk
<1>2. Whole(cn.req) /\ Len(cn.req) = 2
  BY <1>a, <1>1 DEF Requests, Whole
<1>3. Len(cn2.req) = 1 /\ cn2.req[1] = cn.req[2]
  <2>1. Len(cn2.req) = 1
    BY <1>b, <1>2
  <2>2. 1 \in 1..Len(cn2.req) /\ 1 + 1 = 2
    BY <2>1
  <2>3. cn2.req[1] = cn.req[1 + 1]
    BY <1>b, <2>2
  <2>4. QED
    BY <2>1, <2>2, <2>3
<1>4. Half(cn2.req)
  BY <1>2, <1>3 DEF Whole, Half
<1>5. Requests(cn2, d2)
  BY <1>1, <1>3, <1>4 DEF Requests
<1>6. ASSUME cn.ctl PROVE Replies(cn2, q)
  <2>1. Replies(cn, q)
    BY <1>6 DEF Talk
  <2>2. QED
    BY <1>2, <1>3, <2>1 DEF Replies
<1>7. ASSUME cn.ctl, cn.c \notin NoRun PROVE Answers(cn2, q, d2, st)
  <2>1. Answers(cn, q, d, st) /\ Replies(cn, q)
    BY <1>7 DEF Talk
  <2>2. Len(cn.rep) = 0 /\ q.pc = "wait"
    BY <1>2, <2>1 DEF Answers, Replies
  <2>3. ToSend(d2) = 0
    BY DEF ToSend
  <2>4. cn.req[1].id = q.id /\ cn.req[2].id = q.id
    BY <1>2, <2>1 DEF Answers
  <2>5. \A n \in 1..Len(cn2.req) : cn2.req[n].id = q.id
    BY <1>3, <2>4
  <2>6. d2.id = q.id
    BY <2>4
  <2>7. QED
    BY <2>2, <2>3, <2>5, <2>6 DEF Answers
<1>8. QED
  BY <1>5, <1>6, <1>7 DEF Talk

(* The daemon has read a whole message and answers it with r; for MSG_FILE *)
(* it goes on to send the file.                                            *)
LEMMA Replied ==
  ASSUME NEW cn \in Conns, NEW cn2 \in Conns, NEW q \in Askers,
         NEW d \in Servers, NEW d2 \in Servers, NEW st, NEW r,
         Talk(cn, q, d, st), Len(cn.req) = 1, cn.srv = "listed",
         r.kind = "hdr", r.type \in {"RV", "FILE"},
         r.id = IF d.pc = "body" THEN d.id ELSE cn.req[1].id,
         r.type = "RV" => d2.pc = "select",
         r.type = "FILE" => d2.pc = "file" /\ d2.left = Chunks /\ d2.id = r.id
                              /\ d2.id >= 1,
         cn2.c = cn.c, cn2.h = cn.h, cn2.ctl = cn.ctl, cn2.srv = cn.srv,
         Len(cn2.req) = 0,
         cn.ctl => Added(cn.rep, r, cn2.rep), ~cn.ctl => cn2.rep = cn.rep
  PROVE  Talk(cn2, q, d2, st)
<1>a. /\ Len(cn.rep) \in Nat /\ Len(cn2.rep) \in Nat
      /\ Chunks \in Nat /\ Chunks > 0 /\ Window \in Nat
  BY ConnFields, Counts
<1>1. Requests(cn, d)
  BY DEF Talk
<1>2. Requests(cn2, d2)
  BY <1>1 DEF Requests
<1>3. ASSUME cn.ctl PROVE Replies(cn2, q) /\ q.pc = "wait" /\ Len(cn2.rep) > 0
  <2>1. Replies(cn, q) /\ Added(cn.rep, r, cn2.rep)
    BY <1>3 DEF Talk
  <2>2. /\ q.pc = "wait" /\ q.id >= 1 /\ Len(cn.rep) <= Window
        /\ \A n \in 1..Len(cn.rep) : cn.rep[n].kind = "chunk"
    BY <2>1 DEF Replies, AllChunks
  <2>3. /\ Len(cn2.rep) = Len(cn.rep) + 1 /\ cn2.rep[Len(cn2.rep)] = r
        /\ \A n \in 1..Len(cn.rep) : cn2.rep[n] = cn.rep[n]
        /\ \A n \in 1..Len(cn2.rep) : n \in 1..Len(cn.rep) \/ n = Len(cn2.rep)
    BY <2>1 DEF Added
  <2>4. Len(cn2.rep) <= Window + 1 /\ Len(cn2.rep) > 0
    BY <1>a, <2>2, <2>3
  <2>5. \A n \in 1..Len(cn2.rep) :
          \/ cn2.rep[n].kind = "chunk"
          \/ cn2.rep[n].kind = "hdr" /\ cn2.rep[n].type \in {"RV", "FILE"}
    BY <2>2, <2>3
  <2>6. ASSUME NEW n \in 2..Len(cn2.rep), cn2.rep[1].kind = "hdr" PROVE FALSE
    <3>1. 1 \in 1..Len(cn.rep)
      BY <1>a, <2>3, <2>6
    <3>2. cn2.rep[1].kind = "chunk"
      BY <2>2, <2>3, <3>1
    <3>3. QED
      BY <2>6, <3>2
  <2>7. QED
    BY <2>2, <2>4, <2>5, <2>6 DEF Replies
<1>4. ASSUME cn.ctl, cn.c \notin NoRun PROVE Answers(cn2, q, d2, st)
  <2>1. /\ Answers(cn, q, d, st) /\ Replies(cn, q) /\ Added(cn.rep, r, cn2.rep)
        /\ q.pc = "wait"
    BY <1>3, <1>4 DEF Talk
  <2>2. Len(cn.rep) = 0
    BY <2>1 DEF Answers
  <2>3. Len(cn2.rep) = 1 /\ cn2.rep[1] = r
    BY <2>1, <2>2 DEF Added
  <2>4. r.id = q.id
    BY <2>1 DEF Answers
  <2>5. \A n \in 1..Len(cn2.rep) : n = 1
    BY <2>3
  <2>6. d2.pc = "file" => d2.left = Chunks /\ d2.id = q.id /\ r.type = "FILE"
    BY <2>4
  <2>7. ToSend(d2) > 0 => d2.id = q.id
    BY <2>6 DEF ToSend
  <2>8. r.type = "FILE" => AddsUp(cn2, d2, Len(cn2.rep) - 1, Chunks)
    <3>1. r.type = "FILE" => ToSend(d2) = Chunks
      BY DEF ToSend
    <3>2. Len(cn2.rep) - 1 = 0
      BY <2>3
    <3>3. 0 + Chunks <= Chunks /\ 0 + Chunks = Chunks
      BY <1>a
    <3>4. QED
      BY <3>1, <3>2, <3>3 DEF AddsUp
  <2>9. \A n \in 1..Len(cn2.rep) : cn2.rep[n].kind = "hdr" /\ cn2.rep[n].id = q.id
    BY <2>3, <2>4, <2>5
  <2>10. QED
    BY <1>a, <2>1, <2>3, <2>6, <2>7, <2>8, <2>9 DEF Answers
<1>5. QED
  BY <1>2, <1>3, <1>4 DEF Talk

(* The daemon sends a piece of the file.                                   *)
LEMMA ChunkSent ==
  ASSUME NEW cn \in Conns, NEW cn2 \in Conns, NEW q \in Askers,
         NEW d \in Servers, NEW d2 \in Servers, NEW st, NEW r,
         Talk(cn, q, d, st), d.pc = "file", d.left > 0, Len(cn.rep) < Window,
         r.kind = "chunk", r.id = d.id, r.data = d.data,
         d2.pc = "file", d2.left = d.left - 1, d2.id = d.id, d2.data = d.data,
         cn2.c = cn.c, cn2.h = cn.h, cn2.ctl = cn.ctl, cn2.srv = cn.srv,
         cn2.req = cn.req,
         cn.ctl => Added(cn.rep, r, cn2.rep), ~cn.ctl => cn2.rep = cn.rep
  PROVE  Talk(cn2, q, d2, st)
<1>a. /\ Len(cn.rep) \in Nat /\ Len(cn2.rep) \in Nat /\ Len(cn.req) \in Nat
      /\ Chunks \in Nat /\ Window \in Nat /\ d.left \in Nat /\ q.left \in Nat
  BY ConnFields, Counts
<1>1. Requests(cn, d) /\ cn.srv = "listed"
  BY DEF Talk, Requests
<1>2. Requests(cn2, d2)
  BY <1>1 DEF Requests
<1>b. ASSUME cn.ctl
      PROVE  /\ Len(cn2.rep) = Len(cn.rep) + 1 /\ cn2.rep[Len(cn2.rep)] = r
             /\ \A n \in 1..Len(cn.rep) : n \in 1..Len(cn2.rep) /\ cn2.rep[n] = cn.rep[n]
             /\ \A n \in 1..Len(cn2.rep) : n \in 1..Len(cn.rep) \/ n = Len(cn2.rep)
  BY <1>b DEF Added
<1>3. ASSUME cn.ctl PROVE Replies(cn2, q)
  <2>1. Replies(cn, q)
    BY <1>3 DEF Talk
  <2>2. AllChunks(cn.rep) => AllChunks(cn2.rep)
    BY <1>3, <1>b DEF AllChunks
  <2>3. Len(cn2.rep) <= Window /\ Len(cn2.rep) <= Window + 1 /\ Len(cn2.rep) > 0
    BY <1>3, <1>a, <1>b
  <2>4. \A n \in 1..Len(cn2.rep) :
          \/ cn2.rep[n].kind = "chunk"
          \/ cn2.rep[n].kind = "hdr" /\ cn2.rep[n].type \in {"RV", "FILE"}
    BY <1>3, <1>b, <2>1 DEF Replies
  <2>5. ASSUME NEW n \in 2..Len(cn2.rep), cn2.rep[1].kind = "hdr"
        PROVE  cn2.rep[n].kind = "chunk"
    <3>1. CASE n = Len(cn2.rep)
      BY <1>3, <1>b, <3>1
    <3>2. CASE n # Len(cn2.rep)
      <4>1. n \in 1..Len(cn2.rep)
        BY <1>a
      <4>2. n \in 1..Len(cn.rep)
        BY <1>3, <1>b, <3>2, <4>1
      <4>3. 1 \in 1..Len(cn.rep) /\ n \in 2..Len(cn.rep)
        BY <1>a, <4>2
      <4>4. cn2.rep[1] = cn.rep[1] /\ cn2.rep[n] = cn.rep[n]
        BY <1>3, <1>b, <4>2, <4>3
      <4>5. QED
        BY <2>1, <2>5, <4>3, <4>4 DEF Replies
    <3>3. QED
      BY <3>1, <3>2
  <2>6. QED
    BY <2>1, <2>2, <2>3, <2>4, <2>5 DEF Replies
<1>4. ASSUME cn.ctl, cn.c \notin NoRun PROVE Answers(cn2, q, d2, st)
  <2>1. /\ Answers(cn, q, d, st) /\ Replies(cn, q)
    BY <1>4 DEF Talk
  <2>2. ToSend(d) = d.left /\ ToSend(d2) = d.left - 1
    BY DEF ToSend
  <2>3. Len(cn.req) = 0 /\ q.pc # "idle" /\ d.id = q.id
    BY <1>a, <2>1, <2>2 DEF Answers
  <2>4. \A m, n \in Int : AddsUp(cn, d, m, n) => AddsUp(cn2, d2, m + 1, n)
    BY <1>a, <2>2 DEF AddsUp
  <2>5. \A n \in 1..Len(cn2.rep) :
          cn2.rep[n].id = q.id /\ (cn2.rep[n].kind = "chunk" => cn2.rep[n].data = d.data)
    BY <1>4, <1>b, <2>1, <2>3, SMTT(60) DEF Answers
  <2>6. ASSUME q.pc = "wait"
        PROVE  /\ cn2.rep[1].kind = "hdr" /\ cn2.rep[1].type = "FILE"
               /\ AddsUp(cn2, d2, Len(cn2.rep) - 1, Chunks)
    <3>1. Len(cn.rep) > 0
      BY <1>a, <1>1, <2>1, <2>3, <2>6 DEF Replies
    <3>2. 1 \in 1..Len(cn.rep)
      BY <1>a, <3>1
    <3>3. cn2.rep[1] = cn.rep[1]
      BY <1>4, <1>b, <3>2
    <3>4. /\ cn.rep[1].kind = "hdr" /\ cn.rep[1].type = "FILE"
          /\ AddsUp(cn, d, Len(cn.rep) - 1, Chunks)
      BY <2>1, <2>6, <3>1 DEF Answers
    <3>5. /\ Len(cn.rep) - 1 \in Int /\ Len(cn2.rep) - 1 = (Len(cn.rep) - 1) + 1
          /\ Chunks \in Int
      BY <1>4, <1>a, <1>b
    <3>6. AddsUp(cn2, d2, (Len(cn.rep) - 1) + 1, Chunks)
      BY <2>4, <3>4, <3>5
    <3>7. QED
      BY <3>3, <3>4, <3>5, <3>6
  <2>7. ASSUME q.pc = "file"
        PROVE  AllChunks(cn2.rep) /\ q.left >= 1 /\ AddsUp(cn2, d2, Len(cn2.rep), q.left)
    <3>1. AllChunks(cn.rep) /\ q.left >= 1 /\ AddsUp(cn, d, Len(cn.rep), q.left)
      BY <2>1, <2>7 DEF Answers
    <3>2. AllChunks(cn2.rep)
      BY <1>4, <1>b, <3>1 DEF AllChunks
    <3>3. QED
      BY <1>4, <1>a, <1>b, <2>4, <3>1, <3>2
  <2>8. Len(cn2.rep) # 0
    BY <1>4, <1>a, <1>b
  <2>9. QED
    BY <2>3, <2>5, <2>6, <2>7, <2>8 DEF Answers
<1>5. QED
  BY <1>2, <1>3, <1>4 DEF Talk

(* The file cannot be sent: the controller is gone.                        *)
LEMMA FileDropped ==
  ASSUME NEW cn, NEW q, NEW d, NEW st, Talk(cn, q, d, st), ~cn.ctl, d.pc # "body"
  PROVE  Talk(cn, q, Select, st)
BY Counts DEF Talk, Requests

(* The directory is removed.                                               *)
LEMMA DataRemoved ==
  ASSUME NEW cn, NEW q, NEW d, NEW st, Talk(cn, q, d, st), d.pc = "file", d.left = 0
  PROVE  Talk(cn, q, Select, st)
<1>1. Select.pc = "select" /\ ToSend(Select) = 0 /\ ToSend(d) = 0
  BY Counts DEF ToSend
<1>2. Requests(cn, Select)
  BY <1>1 DEF Talk, Requests
<1>3. ASSUME cn.ctl, cn.c \notin NoRun PROVE Answers(cn, q, Select, st)
  <2>1. Answers(cn, q, d, st)
    BY <1>3 DEF Talk
  <2>2. \A m, n : AddsUp(cn, d, m, n) => AddsUp(cn, Select, m, n)
    BY <1>1 DEF AddsUp
  <2>3. QED
    BY <1>1, <2>1, <2>2 DEF Answers
<1>4. QED
  BY <1>2, <1>3 DEF Talk

(* More is stored.                                                         *)
LEMMA StoredGrows ==
  ASSUME NEW cn, NEW q, NEW d, NEW st, NEW st2, Talk(cn, q, d, st),
         \A x \in st : x \in st2
  PROVE  Talk(cn, q, d, st2)
<1>1. \A h, data : AllIn(h, data, st) => AllIn(h, data, st2)
  BY DEF AllIn
<1>2. Answers(cn, q, d, st) => Answers(cn, q, d, st2)
  BY <1>1 DEF Answers
<1>3. QED
  BY <1>2 DEF Talk

-----------------------------------------------------------------------------
(* Every step keeps the invariant; and what follows from it.               *)

IInv == Typed /\ Links /\ Talks

-----------------------------------------------------------------------------
(* Types of what the operators on connections return.                      *)

LEMMA ConnTypes ==
  ASSUME NEW cn \in Conns
  PROVE  /\ NoConn \in Conns /\ CloseController(cn) \in Conns
         /\ CloseDaemon(cn) \in Conns
         /\ \A s \in Seq(Parts) : /\ [cn EXCEPT !.req = s] \in Conns
                                  /\ [cn EXCEPT !.rep = s] \in Conns
<1>1. NoConn \in Conns
  BY EmptySeq DEF NoConn, Conns
<1>2. /\ cn.c \in Controllers \cup {None} /\ cn.h \in Hosts \cup {None}
      /\ cn.req \in Seq(Parts) /\ cn.rep \in Seq(Parts) /\ <<>> \in Seq(Parts)
      /\ cn = [c |-> cn.c, h |-> cn.h, ctl |-> cn.ctl, srv |-> cn.srv,
               req |-> cn.req, rep |-> cn.rep]
      /\ cn.ctl \in BOOLEAN /\ cn.srv \in {"queued", "listed", "ignored", "closed"}
  BY DEF Conns
<1>3. CloseController(cn) \in Conns
  BY <1>1, <1>2 DEF CloseController, Conns
<1>4. CloseDaemon(cn) \in Conns
  BY <1>1, <1>2 DEF CloseDaemon, Conns
<1>5. \A s \in Seq(Parts) : [cn EXCEPT !.req = s] \in Conns /\ [cn EXCEPT !.rep = s] \in Conns
  BY <1>2 DEF Conns
<1>6. QED
  BY <1>1, <1>3, <1>4, <1>5

LEMMA NewConnType ==
  ASSUME NEW c \in Controllers, NEW h \in Hosts
  PROVE  NewConn(c, h) \in Conns
<1>1. <<>> \in Seq(Parts)
  OBVIOUS
<1>2. QED
  BY <1>1 DEF NewConn, Conns

(* What closing an end leaves.                                             *)
LEMMA Closing ==
  ASSUME NEW cn \in Conns
  PROVE  /\ IF cn.srv = "closed" THEN CloseController(cn) = NoConn
            ELSE LET cn2 == CloseController(cn)
                 IN /\ cn2.c = cn.c /\ cn2.h = cn.h /\ ~cn2.ctl
                    /\ cn2.srv = cn.srv /\ cn2.req = cn.req /\ Len(cn2.rep) = 0
         /\ IF ~cn.ctl THEN CloseDaemon(cn) = NoConn
            ELSE LET cn2 == CloseDaemon(cn)
                 IN /\ cn2.c = cn.c /\ cn2.h = cn.h /\ cn2.ctl
                    /\ cn2.srv = "closed" /\ Len(cn2.req) = 0 /\ cn2.rep = cn.rep
BY EmptySeq DEF CloseController, CloseDaemon, Conns

LEMMA NoConnFields ==
  /\ NoConn.c = None /\ NoConn.h = None /\ ~NoConn.ctl /\ NoConn.srv = "closed"
  /\ None \notin Controllers /\ None \notin Hosts /\ None \notin Slots
BY NetestoAssumption DEF NoConn

LEMMA IdleFields ==
  /\ Idle \in Askers /\ Idle.pc = "idle" /\ Idle.host = None /\ Idle.id = 0
  /\ Select \in Servers /\ Select.pc = "select" /\ Select.slot = None
  /\ Down \in Servers /\ Down.pc = "down" /\ Down.slot = None
<1>1. 0 \in 0..Chunks /\ 0 \in 0..MaxCmds
  BY Counts
<1>2. Idle \in Askers /\ Idle.pc = "idle" /\ Idle.host = None /\ Idle.id = 0
  BY <1>1 DEF Idle, Askers
<1>3. Down \in Servers /\ Down.pc = "down" /\ Down.slot = None
  BY <1>1 DEF Down, Servers
<1>4. \A d \in Servers : LET e == [d EXCEPT !.pc = "select"]
                        IN e \in Servers /\ e.pc = "select" /\ e.slot = d.slot
  BY DEF Servers
<1>5. Select \in Servers /\ Select.pc = "select" /\ Select.slot = None
  BY <1>3, <1>4 DEF Select
<1>6. QED
  BY <1>2, <1>3, <1>5

-----------------------------------------------------------------------------
(* A step leaves the connections it is not about as they are.              *)

(* A step of controller c, about connection i if about any.                *)
LEMMA ControllerElsewhere ==
  ASSUME Typed, Links, Talks, NEW c \in Controllers, NEW i, NEW j \in Slots,
         j # i, conn'[j] = conn[j], dmn' = dmn,
         \A c2 \in Controllers : c2 # c => ctl'[c2] = ctl[c2] /\ got'[c2] = got[c2],
         \A x \in got[c] : x \in got'[c],
         ctl[c].host \in Hosts => hostDict[c][ctl[c].host] \in {i, None},
         ctl'[c].host \in Hosts => hostDict[c][ctl'[c].host] \in {i, None}
  PROVE  Talk(conn'[j], Asker(conn[j])', Server(conn[j], j)', Stored(conn[j])')
<1>1. Talk(conn[j], Asker(conn[j]), Server(conn[j], j), Stored(conn[j]))
  BY DEF Talks
<1>2. Server(conn[j], j)' = Server(conn[j], j)
  BY DEF Server
<1>3. j # None
  BY NoConnFields
<1>4. Asker(conn[j])' = Asker(conn[j])
  <2>1. CASE ~conn[j].ctl
    BY <2>1 DEF Asker
  <2>2. CASE conn[j].ctl
    <3>1. /\ conn[j].c \in Controllers /\ conn[j].h \in Hosts
          /\ hostDict[conn[j].c][conn[j].h] = j
      BY <2>2 DEF Links, LinksIn
    <3>2. CASE conn[j].c = c
      <4>1. ctl[c].host # conn[j].h /\ ctl'[c].host # conn[j].h
        BY <1>3, <3>1, <3>2
      <4>2. QED
        BY <3>2, <4>1 DEF Asker
    <3>3. CASE conn[j].c # c
      BY <3>1, <3>3 DEF Asker
    <3>4. QED
      BY <3>2, <3>3
  <2>3. QED
    BY <2>1, <2>2
<1>5. \A x \in Stored(conn[j]) : x \in Stored(conn[j])'
  <2>1. CASE ~conn[j].ctl
    BY <2>1 DEF Stored
  <2>2. CASE conn[j].ctl
    <3>1. conn[j].c \in Controllers
      BY <2>2 DEF Links, LinksIn
    <3>2. QED
      BY <2>2, <3>1 DEF Stored
  <2>3. QED
    BY <2>1, <2>2
<1>6. QED
  BY <1>1, <1>2, <1>4, <1>5, StoredGrows

(* A step of host h's daemon, about connection i if about any.             *)
LEMMA DaemonElsewhere ==
  ASSUME Typed, Links, Talks, NEW h \in Hosts, NEW i, NEW j \in Slots,
         j # i, conn'[j] = conn[j], ctl' = ctl, got' = got,
         \A h2 \in Hosts : h2 # h => dmn'[h2] = dmn[h2],
         dmn[h].slot \in {i, None}, dmn'[h].slot \in {i, None}
  PROVE  Talk(conn'[j], Asker(conn[j])', Server(conn[j], j)', Stored(conn[j])')
<1>1. Talk(conn[j], Asker(conn[j]), Server(conn[j], j), Stored(conn[j]))
  BY DEF Talks
<1>2. j # None
  BY NoConnFields
<1>3. Server(conn[j], j)' = Server(conn[j], j)
  BY <1>2 DEF Server
<1>4. Asker(conn[j])' = Asker(conn[j]) /\ Stored(conn[j])' = Stored(conn[j])
  BY DEF Asker, Stored
<1>5. QED
  BY <1>1, <1>3, <1>4

(* What is known of the connection a controller reads from.                *)
LEMMA Socketed ==
  ASSUME IInv, NEW c \in Controllers, ctl[c].pc \in {"wait", "file"}
  PROVE  LET i == Sock(c)  cn == conn[i]
         IN /\ i \in Slots /\ cn \in Conns /\ ctl[c].host \in Hosts
            /\ hostDict[c][ctl[c].host] = i
            /\ cn.c = c /\ cn.h = ctl[c].host /\ cn.ctl
            /\ Stored(cn) = got[c] /\ Server(cn, i) \in Servers /\ ctl[c] \in Askers
            /\ Talk(cn, ctl[c], Server(cn, i), got[c])
<1>1. /\ ctl[c] \in Askers /\ ctl[c].host \in Hosts
      /\ hostDict[c][ctl[c].host] # None
  BY DEF IInv, Typed, Links, Waits
<1>2. Sock(c) \in Slots
  BY <1>1 DEF IInv, Typed, Sock
<1>3. LET cn == conn[Sock(c)]
      IN cn \in Conns /\ cn.c = c /\ cn.h = ctl[c].host /\ cn.ctl
  BY <1>1, <1>2 DEF IInv, Typed, Links, LinksOut, Sock
<1>4. Server(conn[Sock(c)], Sock(c)) \in Servers
  BY <1>2, IdleFields DEF IInv, Typed, Server
<1>5. /\ Asker(conn[Sock(c)]) = ctl[c] /\ Stored(conn[Sock(c)]) = got[c]
  BY <1>3 DEF Asker, Stored
<1>6. Talk(conn[Sock(c)], ctl[c], Server(conn[Sock(c)], Sock(c)), got[c])
  BY <1>2, <1>5 DEF IInv, Talks
<1>7. QED
  BY <1>1, <1>2, <1>3, <1>4, <1>5, <1>6 DEF Sock

LEMMA DoneFields ==
  ASSUME Typed, NEW c \in Controllers
  PROVE  /\ Done(c) \in Askers /\ Done(c).pc = "idle" /\ Done(c).host = None
         /\ [Done(c) EXCEPT !.pc = "dead"] \in Askers
         /\ [Done(c) EXCEPT !.pc = "dead"].pc = "dead"
         /\ [Done(c) EXCEPT !.pc = "dead"].host = None
<1>1. ctl[c].id \in 0..MaxCmds
  BY DEF Typed, Askers
<1>2. \A q \in Askers, n \in 0..MaxCmds :
        LET r == [q EXCEPT !.id = n] IN r \in Askers /\ r.pc = q.pc /\ r.host = q.host
  BY DEF Askers
<1>3. \A q \in Askers :
        LET r == [q EXCEPT !.pc = "dead"]
        IN r \in Askers /\ r.pc = "dead" /\ r.host = q.host
  BY DEF Askers
<1>4. Done(c) \in Askers /\ Done(c).pc = "idle" /\ Done(c).host = None
  BY <1>1, <1>2, IdleFields DEF Done
<1>5. QED
  BY <1>3, <1>4

(* The rest of the invariant, when a step changes one connection and       *)
(* closes neither end of it.                                               *)
LEMMA LinksKept ==
  ASSUME Typed, Links, NEW i \in Slots, NEW x \in Conns,
         conn' = [conn EXCEPT ![i] = x], x.c = conn[i].c, x.h = conn[i].h,
         x.ctl = conn[i].ctl, x.srv # "closed" => conn[i].srv # "closed",
         hostDict' = hostDict
  PROVE  LinksOut' /\ LinksIn' /\ Ends' /\ (dmn' = dmn => Serves')
<1>1. \A j \in Slots :
        /\ conn'[j].c = conn[j].c /\ conn'[j].h = conn[j].h
        /\ conn'[j].ctl = conn[j].ctl
        /\ conn'[j].srv # "closed" => conn[j].srv # "closed"
  BY DEF Typed
<1>2. LinksOut'
  BY <1>1 DEF Links, LinksOut, Typed
<1>3. LinksIn'
  BY <1>1 DEF Links, LinksIn
<1>4. Ends'
  BY <1>1 DEF Links, Ends
<1>5. dmn' = dmn => Serves'
  BY <1>1 DEF Links, Serves
<1>6. QED
  BY <1>2, <1>3, <1>4, <1>5

LEMMA ControllerTalks ==
  ASSUME Typed, Links, Talks, NEW c \in Controllers, NEW i \in Slots, NEW x,
         conn' = [conn EXCEPT ![i] = x], dmn' = dmn,
         \A c2 \in Controllers : c2 # c => ctl'[c2] = ctl[c2] /\ got'[c2] = got[c2],
         \A o \in got[c] : o \in got'[c],
         ctl[c].host \in Hosts => hostDict[c][ctl[c].host] \in {i, None},
         ctl'[c].host \in Hosts => hostDict[c][ctl'[c].host] \in {i, None},
         Talk(x, Asker(conn[i])', Server(conn[i], i)', Stored(conn[i])')
  PROVE  Talks'
<1>1. ASSUME NEW j \in Slots
      PROVE  Talk(conn'[j], Asker(conn[j])', Server(conn[j], j)', Stored(conn[j])')
  <2>1. CASE j = i
    <3>1. conn'[j] = x
      BY <2>1 DEF Typed
    <3>2. QED
      BY <2>1, <3>1
  <2>2. CASE j # i
    <3>1. conn'[j] = conn[j]
      BY <2>2 DEF Typed
    <3>2. QED
      BY <2>2, <3>1, ControllerElsewhere
  <2>3. QED
    BY <2>1, <2>2
<1>2. QED
  BY <1>1 DEF Talks

-----------------------------------------------------------------------------
(* The controllers' steps.                                                 *)

LEMMA ReceiveReplyKeeps ==
  ASSUME IInv, NEW c \in Controllers, ReceiveReply(c), UNCHANGED daemonVars
  PROVE  IInv'
<1>0. PICK i : i = Sock(c)
  OBVIOUS
<1> DEFINE cn == conn[i]
           d == Server(cn, i)
           cn2 == [cn EXCEPT !.rep = Tail(@)]
<1>1. /\ ctl[c].pc = "wait" /\ Len(cn.rep) > 0 /\ Head(cn.rep).kind = "hdr"
      /\ ctl' = [ctl EXCEPT ![c] =
           IF Head(cn.rep).type = "FILE" /\ c \notin NoRun
           THEN [@ EXCEPT !.pc = "file", !.left = Chunks] ELSE Done(c)]
      /\ conn' = [conn EXCEPT ![i] = cn2]
      /\ hostDict' = hostDict /\ getData' = getData /\ got' = got
      /\ dmn' = dmn /\ jobs' = jobs /\ disk' = disk
  <2>1. i \in Slots /\ cn \in Conns
    BY <1>0, Socketed DEF ReceiveReply, Reading
  <2>2. cn.rep # <<>> => Len(cn.rep) > 0
    BY <2>1, ConnFields, EmptySeq
  <2>3. QED
    BY <1>0, <2>2 DEF ReceiveReply, Reading, daemonVars
<1>2. /\ i \in Slots /\ cn \in Conns /\ ctl[c].host \in Hosts
      /\ hostDict[c][ctl[c].host] = i
      /\ cn.c = c /\ cn.h = ctl[c].host /\ cn.ctl
      /\ Stored(cn) = got[c] /\ d \in Servers /\ ctl[c] \in Askers
      /\ Talk(cn, ctl[c], d, got[c])
  BY <1>0, <1>1, Socketed
<1>3. /\ Head(cn.rep) = cn.rep[1] /\ Tail(cn.rep) \in Seq(Parts)
      /\ Dropped(cn.rep, Tail(cn.rep))
  BY <1>1, <1>2, ConnFields, TailSeq
<1>4. /\ cn2 \in Conns /\ cn2.c = cn.c /\ cn2.h = cn.h /\ cn2.ctl = cn.ctl
      /\ cn2.srv = cn.srv /\ cn2.req = cn.req /\ Dropped(cn.rep, cn2.rep)
  BY <1>2, <1>3, ConnTypes DEF Conns
<1>5. /\ ctl'[c] \in Askers
      /\ IF cn.rep[1].type = "FILE" /\ cn.c \notin NoRun
         THEN /\ ctl'[c].pc = "file" /\ ctl'[c].left = Chunks /\ ctl'[c].id = ctl[c].id
              /\ ctl'[c].host = ctl[c].host
         ELSE ctl'[c].pc = "idle" /\ ctl'[c].host = None
  <2>1. /\ ctl \in [Controllers -> Askers] /\ Typed /\ Chunks \in 0..Chunks
    BY Counts DEF IInv, Typed
  <2>2. LET q == [ctl[c] EXCEPT !.pc = "file", !.left = Chunks]
        IN /\ q \in Askers /\ q.pc = "file" /\ q.left = Chunks /\ q.id = ctl[c].id
           /\ q.host = ctl[c].host
    BY <1>2, <2>1 DEF Askers
  <2>3. QED
    BY <1>1, <1>2, <1>3, <2>1, <2>2, DoneFields
<1>6. conn'[i] = cn2 /\ conn' \in [Slots -> Conns] /\ ctl' \in [Controllers -> Askers]
      /\ \A c2 \in Controllers : c2 # c => ctl'[c2] = ctl[c2]
  BY <1>1, <1>2, <1>4, <1>5 DEF IInv, Typed
<1>7. Typed'
  BY <1>1, <1>6 DEF IInv, Typed
<1>8. Links'
  <2>1. LinksOut' /\ LinksIn' /\ Ends' /\ Serves'
    BY <1>1, <1>2, <1>4, LinksKept, ZenonT(60) DEF IInv
  <2>2. Waits'
    BY <1>1, <1>2, <1>5, <1>6 DEF IInv, Links, Waits
  <2>3. QED
    BY <2>1, <2>2 DEF Links
<1>9. Talks'
  <2>1. PICK q2 : q2 = Asker(conn[i])'
    OBVIOUS
  <2>a. PICK x : x = cn2
    OBVIOUS
  <2>b. conn'[i] = x /\ x.c = c /\ x.h = ctl[c].host /\ x.ctl
    BY <1>2, <1>4, <1>6, <2>a
  <2>2. /\ q2 \in Askers
        /\ IF cn.rep[1].type = "FILE" /\ cn.c \notin NoRun
           THEN q2.pc = "file" /\ q2.left = Chunks /\ q2.id = ctl[c].id
           ELSE q2.pc = "idle"
    BY <1>2, <1>5, <2>1, <2>b, IdleFields, NoConnFields DEF Asker
  <2>3. Server(conn[i], i)' = d /\ Stored(conn[i])' = got[c]
    BY <1>1, <1>2, <2>b DEF Server, Stored
  <2>4. Talk(x, q2, d, got[c])
    <3>1. /\ x \in Conns /\ x.c = cn.c /\ x.h = cn.h /\ x.ctl /\ x.srv = cn.srv
          /\ x.req = cn.req /\ Dropped(cn.rep, x.rep)
      BY <1>2, <1>4, <2>a
    <3>2. cn.rep[1].kind = "hdr"
      BY <1>1, <1>3
    <3> HIDE DEF cn, cn2, d
    <3>3. QED
      BY <1>1, <1>2, <2>2, <3>1, <3>2, ReplyRead
  <2>5. \A o \in got[c] : o \in got'[c]
    BY <1>1
  <2>6. ctl'[c].host \in Hosts => hostDict[c][ctl'[c].host] \in {i, None}
    BY <1>2, <1>5, NoConnFields
  <2>7. QED
    BY <1>1, <1>2, <1>6, <2>1, <2>a, <2>3, <2>4, <2>5, <2>6, ControllerTalks, ZenonT(60) DEF IInv
<1>10. QED
  BY <1>7, <1>8, <1>9 DEF IInv

LEMMA ReceiveChunkKeeps ==
  ASSUME IInv, NEW c \in Controllers, ReceiveChunk(c), UNCHANGED daemonVars
  PROVE  IInv'
<1>0. PICK i : i = Sock(c)
  OBVIOUS
<1> DEFINE cn == conn[i]
           d == Server(cn, i)
           cn2 == [cn EXCEPT !.rep = Tail(@)]
<1>1. /\ ctl[c].pc = "file" /\ Len(cn.rep) > 0
      /\ conn' = [conn EXCEPT ![i] = cn2]
      /\ IF ctl[c].left > 1
         THEN ctl' = [ctl EXCEPT ![c].left = @ - 1] /\ got' = got
         ELSE /\ ctl' = [ctl EXCEPT ![c] = Done(c)]
              /\ got' = [got EXCEPT ![c] = @ \cup ({ctl[c].host} \X Head(cn.rep).data)]
      /\ hostDict' = hostDict /\ getData' = getData
      /\ dmn' = dmn /\ jobs' = jobs /\ disk' = disk
  <2>1. i \in Slots /\ cn \in Conns
    BY <1>0, Socketed DEF ReceiveChunk, Reading
  <2>2. cn.rep # <<>> => Len(cn.rep) > 0
    BY <2>1, ConnFields, EmptySeq
  <2>3. QED
    BY <1>0, <2>2 DEF ReceiveChunk, Reading, daemonVars
<1>2. /\ i \in Slots /\ cn \in Conns /\ ctl[c].host \in Hosts
      /\ hostDict[c][ctl[c].host] = i
      /\ cn.c = c /\ cn.h = ctl[c].host /\ cn.ctl
      /\ Stored(cn) = got[c] /\ d \in Servers /\ ctl[c] \in Askers
      /\ Talk(cn, ctl[c], d, got[c])
  BY <1>0, <1>1, Socketed
<1>3. /\ Head(cn.rep) = cn.rep[1] /\ cn.rep[1] \in Parts
      /\ Tail(cn.rep) \in Seq(Parts) /\ Dropped(cn.rep, Tail(cn.rep))
  BY <1>1, <1>2, ConnFields, TailSeq
<1>4. /\ cn2 \in Conns /\ cn2.c = cn.c /\ cn2.h = cn.h /\ cn2.ctl = cn.ctl
      /\ cn2.srv = cn.srv /\ cn2.req = cn.req /\ Dropped(cn.rep, cn2.rep)
  BY <1>2, <1>3, ConnTypes DEF Conns
<1>5. /\ ctl'[c] \in Askers
      /\ IF ctl[c].left > 1
         THEN /\ ctl'[c].pc = "file" /\ ctl'[c].left = ctl[c].left - 1
              /\ ctl'[c].id = ctl[c].id /\ ctl'[c].host = ctl[c].host
         ELSE ctl'[c].pc = "idle" /\ ctl'[c].host = None
  <2>1. /\ ctl \in [Controllers -> Askers] /\ Typed
    BY DEF IInv, Typed
  <2>2. ctl[c].left > 1 => ctl[c].left - 1 \in 0..Chunks
    <3>1. ctl[c].left \in 0..Chunks
      BY <1>2 DEF Askers
    <3>2. QED
      BY <3>1, Counts
  <2>3. \A n \in 0..Chunks :
          LET q == [ctl[c] EXCEPT !.left = n]
          IN /\ q \in Askers /\ q.pc = ctl[c].pc /\ q.left = n /\ q.id = ctl[c].id
             /\ q.host = ctl[c].host
    BY <1>2, <2>1 DEF Askers
  <2>4. CASE ctl[c].left > 1
    BY ONLY <1>1, <2>1, <2>2, <2>3, <2>4, ZenonT(60)
  <2>5. CASE ~(ctl[c].left > 1)
    BY <1>1, <2>1, <2>5, DoneFields
  <2>6. QED
    BY <2>4, <2>5
<1>a. /\ got' \in [Controllers -> SUBSET (Hosts \X Files)]
      /\ \A o \in got[c] : o \in got'[c]
      /\ \A c2 \in Controllers : c2 # c => got'[c2] = got[c2]
      /\ ~(ctl[c].left > 1) => AllIn(cn.h, cn.rep[1].data, got'[c])
  <2>1. got \in [Controllers -> SUBSET (Hosts \X Files)]
    BY DEF IInv, Typed
  <2>2. CASE ctl[c].left > 1
    BY <1>1, <2>1, <2>2
  <2>3. CASE ~(ctl[c].left > 1)
    <3>1. PICK new : new = {ctl[c].host} \X cn.rep[1].data
      OBVIOUS
    <3>2. cn.rep[1].data \in SUBSET Files
      BY <1>3 DEF Parts
    <3>3. new \in SUBSET (Hosts \X Files) /\ \A x \in cn.rep[1].data : <<cn.h, x>> \in new
      BY <1>2, <3>1, <3>2
    <3>4. got' = [got EXCEPT ![c] = @ \cup new]
      BY <1>1, <1>3, <2>3, <3>1
    <3>5. got'[c] = got[c] \cup new
      BY <2>1, <3>4
    <3>6. \A x \in cn.rep[1].data : <<cn.h, x>> \in got'[c]
      BY <3>3, <3>5
    <3>7. AllIn(cn.h, cn.rep[1].data, got'[c])
      BY <3>6 DEF AllIn
    <3>8. QED
      BY <2>1, <3>3, <3>4, <3>5, <3>7
  <2>4. QED
    BY <2>2, <2>3
<1>6. conn'[i] = cn2 /\ conn' \in [Slots -> Conns] /\ ctl' \in [Controllers -> Askers]
      /\ \A c2 \in Controllers : c2 # c => ctl'[c2] = ctl[c2]
  <2>1. conn \in [Slots -> Conns] /\ ctl \in [Controllers -> Askers]
    BY DEF IInv, Typed
  <2>2. conn'[i] = cn2 /\ conn' \in [Slots -> Conns]
    BY <1>1, <1>2, <1>4, <2>1
  <2>3. CASE ctl[c].left > 1
    <3>1. ctl' = [ctl EXCEPT ![c].left = @ - 1]
      BY <1>1, <2>3
    <3>2. QED
      BY <1>5, <2>1, <2>2, <3>1
  <2>4. CASE ~(ctl[c].left > 1)
    <3>1. ctl' = [ctl EXCEPT ![c] = Done(c)]
      BY <1>1, <2>4
    <3>2. QED
      BY <1>5, <2>1, <2>2, <3>1
  <2>5. QED
    BY <2>3, <2>4
<1>7. Typed'
  BY <1>1, <1>a, <1>6 DEF IInv, Typed
<1>8. Links'
  <2>1. LinksOut' /\ LinksIn' /\ Ends' /\ Serves'
    BY <1>1, <1>2, <1>4, LinksKept DEF IInv
  <2>2. Waits'
    BY <1>1, <1>2, <1>5, <1>6 DEF IInv, Links, Waits
  <2>3. QED
    BY <2>1, <2>2 DEF Links
<1>9. Talks'
  <2>1. PICK q2 : q2 = Asker(conn[i])'
    OBVIOUS
  <2>a. PICK x : x = cn2
    OBVIOUS
  <2>c. PICK st : st = got'[c]
    OBVIOUS
  <2>b. conn'[i] = x /\ x.c = c /\ x.h = ctl[c].host /\ x.ctl
    BY <1>2, <1>4, <1>6, <2>a
  <2>2. /\ q2 \in Askers
        /\ IF ctl[c].left > 1
           THEN q2.pc = "file" /\ q2.left = ctl[c].left - 1 /\ q2.id = ctl[c].id
           ELSE q2.pc = "idle" /\ AllIn(cn.h, cn.rep[1].data, st)
    BY <1>2, <1>5, <1>a, <2>1, <2>b, <2>c, IdleFields, NoConnFields DEF Asker
  <2>3. Server(conn[i], i)' = d /\ Stored(conn[i])' = st
    BY <1>1, <1>2, <2>b, <2>c DEF Server, Stored
  <2>4. Talk(x, q2, d, st)
    <3>1. /\ x \in Conns /\ x.c = cn.c /\ x.h = cn.h /\ x.ctl /\ x.srv = cn.srv
          /\ x.req = cn.req /\ Dropped(cn.rep, x.rep)
      BY <1>2, <1>4, <2>a
    <3>2. \A h, data : AllIn(h, data, got[c]) => AllIn(h, data, st)
      BY <1>a, <2>c DEF AllIn
    <3> HIDE DEF cn, cn2, d
    <3>3. QED
      BY <1>1, <1>2, <2>2, <3>1, <3>2, ChunkRead
  <2>6. ctl'[c].host \in Hosts => hostDict[c][ctl'[c].host] \in {i, None}
    BY <1>2, <1>5, NoConnFields
  <2>7. /\ conn' = [conn EXCEPT ![i] = x] /\ dmn' = dmn
        /\ Typed /\ Links /\ Talks /\ \A o \in got[c] : o \in got'[c]
        /\ \A c2 \in Controllers : c2 # c => ctl'[c2] = ctl[c2] /\ got'[c2] = got[c2]
        /\ ctl[c].host \in Hosts => hostDict[c][ctl[c].host] \in {i, None}
    BY <1>1, <1>2, <1>a, <1>6, <2>a DEF IInv
  <2>8. Talk(x, Asker(conn[i])', Server(conn[i], i)', Stored(conn[i])')
    BY <2>1, <2>3, <2>4
  <2>9. QED
    BY <1>2, <2>6, <2>7, <2>8, ControllerTalks
<1>10. QED
  BY <1>7, <1>8, <1>9 DEF IInv

LEMMA FileFailsKeeps ==
  ASSUME IInv, NEW c \in Controllers, FileFails(c), UNCHANGED daemonVars
  PROVE  IInv'
<1>0. PICK i : i = Sock(c)
  OBVIOUS
<1> DEFINE cn == conn[i]
           d == Server(cn, i)
<1>1. /\ ctl[c].pc = "file" /\ cn.rep = <<>> /\ cn.srv = "closed"
      /\ ctl' = [ctl EXCEPT ![c] = Done(c)]
      /\ conn' = conn /\ hostDict' = hostDict /\ getData' = getData /\ got' = got
      /\ dmn' = dmn /\ jobs' = jobs /\ disk' = disk
  BY <1>0 DEF FileFails, Reading, daemonVars
<1>2. /\ i \in Slots /\ cn \in Conns /\ ctl[c].host \in Hosts
      /\ hostDict[c][ctl[c].host] = i
      /\ cn.c = c /\ cn.h = ctl[c].host /\ cn.ctl
      /\ d \in Servers /\ ctl[c] \in Askers /\ Talk(cn, ctl[c], d, got[c])
  BY <1>0, <1>1, Socketed
<1>3. ctl'[c] = Done(c) /\ Done(c) \in Askers /\ Done(c).pc = "idle" /\ Done(c).host = None
      /\ \A c2 \in Controllers : c2 # c => ctl'[c2] = ctl[c2]
  BY <1>1, DoneFields DEF IInv, Typed
<1>4. Typed'
  BY <1>1, <1>3 DEF IInv, Typed
<1>5. Links'
  <2>1. LinksOut' /\ LinksIn' /\ Ends' /\ Serves'
    BY <1>1 DEF IInv, Links, LinksOut, LinksIn, Ends, Serves
  <2>2. Waits'
    BY <1>1, <1>3 DEF IInv, Links, Waits
  <2>3. QED
    BY <2>1, <2>2 DEF Links
<1>6. Talks'
  <2>1. Asker(conn[i])' = Idle /\ Server(conn[i], i)' = d /\ Stored(conn[i])' = got[c]
    BY <1>1, <1>2, <1>3, NoConnFields DEF Asker, Server, Stored
  <2>2. Talk(cn, Idle, d, got[c])
    <3>1. Len(cn.rep) = 0
      BY <1>1
    <3> HIDE DEF cn, d
    <3>2. QED
      BY <1>1, <1>2, <3>1, IdleFields, FileEnds
  <2>3. ctl'[c].host \notin Hosts
    BY <1>3, NoConnFields
  <2>4. conn' = [conn EXCEPT ![i] = conn[i]]
    BY <1>1, <1>2 DEF IInv, Typed
  <2>5. PICK x : x = conn[i]
    OBVIOUS
  <2>6. /\ conn' = [conn EXCEPT ![i] = x] /\ dmn' = dmn
        /\ Typed /\ Links /\ Talks /\ \A o \in got[c] : o \in got'[c]
        /\ \A c2 \in Controllers : c2 # c => ctl'[c2] = ctl[c2] /\ got'[c2] = got[c2]
        /\ ctl[c].host \in Hosts => hostDict[c][ctl[c].host] \in {i, None}
    BY <1>1, <1>2, <1>3, <2>4, <2>5 DEF IInv
  <2>7. Talk(x, Asker(conn[i])', Server(conn[i], i)', Stored(conn[i])')
    BY <2>1, <2>2, <2>5
  <2>8. QED
    BY <1>2, <2>3, <2>6, <2>7, ControllerTalks
<1>7. QED
  BY <1>4, <1>5, <1>6 DEF IInv

(* What is known of the connection a daemon serves.                        *)
LEMMA Served ==
  ASSUME IInv, NEW h \in Hosts, dmn[h].pc \in {"body", "file"}
  PROVE  LET i == dmn[h].slot  cn == conn[i]
         IN /\ i \in Slots /\ cn \in Conns /\ cn.h = h /\ cn.c \in Controllers
            /\ cn.srv = "listed" /\ dmn[h].id >= 1
            /\ Server(cn, i) = dmn[h] /\ dmn[h] \in Servers /\ Asker(cn) \in Askers
            /\ Talk(cn, Asker(cn), dmn[h], Stored(cn))
<1>0. PICK i : i = dmn[h].slot
  OBVIOUS
<1>1. i \in Slots /\ conn[i].h = h /\ conn[i] \in Conns /\ dmn[h] \in Servers
  BY <1>0 DEF IInv, Typed, Links, Serves
<1>2. Server(conn[i], i) = dmn[h]
  BY <1>0, <1>1 DEF Server
<1>3. Talk(conn[i], Asker(conn[i]), dmn[h], Stored(conn[i]))
  BY <1>1, <1>2 DEF IInv, Talks
<1>4. conn[i].srv = "listed" /\ dmn[h].id >= 1
  BY <1>3 DEF Talk, Requests
<1>5. conn[i].c \in Controllers
  BY <1>1, <1>4 DEF IInv, Links, Ends
<1>6. Asker(conn[i]) \in Askers
  BY <1>5, IdleFields DEF Asker, IInv, Typed
<1>7. QED
  BY <1>0, <1>1, <1>2, <1>3, <1>4, <1>5, <1>6

LEMMA Unserved ==
  ASSUME IInv, NEW h \in Hosts, NEW i \in Slots, dmn[h].slot = i
  PROVE  conn[i].srv = "listed" /\ conn[i].h = h
<1>1. dmn[h].pc \in {"body", "file"}
  BY NoConnFields DEF IInv, Links, Serves
<1>2. QED
  BY <1>1, Served

(* A controller closes its socket to h, an old one or a new one.           *)
LEMMA SocketCloses ==
  ASSUME IInv, NEW c \in Controllers, NEW h \in Hosts, NEW i \in Slots,
         NEW cn \in Conns, NEW q, cn.c = c, cn.h = h,
         \/ hostDict[c][h] = i /\ cn.srv = conn[i].srv
         \/ hostDict[c][h] = None /\ conn[i] = NoConn /\ cn.srv = "queued",
         Talk(cn, q, Server(cn, i), got[c]),
         conn' = [conn EXCEPT ![i] = CloseController(cn)],
         hostDict' = [hostDict EXCEPT ![c][h] = None],
         UNCHANGED <<dmn, jobs, disk, got>>,
         getData' \in [Controllers -> SUBSET Hosts],
         ctl' \in [Controllers -> Askers], ctl'[c].pc = "idle", ctl'[c].host = None,
         \A c2 \in Controllers : c2 # c => ctl'[c2] = ctl[c2],
         ctl[c].host \in {h, None}
  PROVE  IInv'
<1>1. PICK x : x = CloseController(cn)
  OBVIOUS
<1>2. /\ x \in Conns
      /\ IF cn.srv = "closed" THEN x = NoConn
         ELSE /\ x.c = c /\ x.h = h /\ ~x.ctl /\ x.srv = cn.srv
              /\ x.req = cn.req /\ Len(x.rep) = 0
  BY <1>1, ConnTypes, Closing
<1>3. ~x.ctl
  BY <1>2, NoConnFields
<1>4. /\ conn' = [conn EXCEPT ![i] = x] /\ conn' \in [Slots -> Conns] /\ conn'[i] = x
      /\ \A j \in Slots : j # i => conn'[j] = conn[j]
      /\ hostDict' \in [Controllers -> [Hosts -> Slots \cup {None}]]
      /\ hostDict'[c][h] = None
      /\ \A c2 \in Controllers, h2 \in Hosts :
           ~(c2 = c /\ h2 = h) => hostDict'[c2][h2] = hostDict[c2][h2]
  BY <1>1, <1>2 DEF IInv, Typed
<1>5. Typed'
  BY <1>4 DEF IInv, Typed
<1>6. hostDict[c][h] = i => conn[i].c = c /\ conn[i].h = h
  BY NoConnFields DEF IInv, Links, LinksOut
<1>7. LinksOut'
  <2> SUFFICES ASSUME NEW c2 \in Controllers, NEW h2 \in Hosts, hostDict'[c2][h2] # None
               PROVE  LET y == conn'[hostDict'[c2][h2]]
                      IN y.c = c2 /\ y.h = h2 /\ y.ctl
    BY DEF LinksOut
  <2>1. ~(c2 = c /\ h2 = h) /\ hostDict'[c2][h2] = hostDict[c2][h2]
    BY <1>4
  <2>2. /\ hostDict[c2][h2] \in Slots
        /\ conn[hostDict[c2][h2]].c = c2 /\ conn[hostDict[c2][h2]].h = h2
        /\ conn[hostDict[c2][h2]].ctl
    BY <2>1 DEF IInv, Typed, Links, LinksOut
  <2>3. hostDict[c2][h2] # i
    BY <1>6, <2>1, <2>2, NoConnFields
  <2>4. QED
    BY <1>4, <2>1, <2>2, <2>3
<1>8. LinksIn'
  <2> SUFFICES ASSUME NEW j \in Slots, conn'[j].ctl
               PROVE  /\ conn'[j].c \in Controllers /\ conn'[j].h \in Hosts
                      /\ hostDict'[conn'[j].c][conn'[j].h] = j
    BY DEF LinksIn
  <2>1. j # i /\ conn'[j] = conn[j]
    BY <1>3, <1>4
  <2>2. /\ conn[j].c \in Controllers /\ conn[j].h \in Hosts
        /\ hostDict[conn[j].c][conn[j].h] = j
    BY <2>1 DEF IInv, Links, LinksIn
  <2>3. j # None
    BY NoConnFields
  <2>4. QED
    BY <1>4, <2>1, <2>2, <2>3
<1>9. Ends'
  <2> SUFFICES ASSUME NEW j \in Slots, conn'[j].srv # "closed"
               PROVE  conn'[j].c \in Controllers /\ conn'[j].h \in Hosts
    BY DEF Ends
  <2>1. CASE j = i
    BY <1>2, <1>4, <2>1, NoConnFields
  <2>2. CASE j # i
    BY <1>4, <2>2 DEF IInv, Links, Ends
  <2>3. QED
    BY <2>1, <2>2
<1>10. Serves'
  <2> SUFFICES ASSUME NEW g \in Hosts
               PROVE  IF dmn[g].pc \in {"body", "file"}
                      THEN dmn[g].slot \in Slots /\ conn'[dmn[g].slot].h = g
                      ELSE dmn[g].slot = None
    BY DEF Serves
  <2>1. CASE dmn[g].pc \notin {"body", "file"}
    BY <2>1 DEF IInv, Links, Serves
  <2>2. CASE dmn[g].pc \in {"body", "file"}
    <3>1. dmn[g].slot \in Slots /\ conn[dmn[g].slot].h = g
      BY <2>2 DEF IInv, Links, Serves
    <3>2. CASE dmn[g].slot = i
      <4>1. conn[i].srv = "listed" /\ conn[i].h = g
        BY <3>2, Unserved
      <4>2. cn.srv = "listed" /\ g = h
        BY <1>6, <4>1, NoConnFields
      <4>3. QED
        BY <1>2, <1>4, <2>2, <3>2, <4>2
    <3>3. CASE dmn[g].slot # i
      BY <1>4, <2>2, <3>1, <3>3
    <3>4. QED
      BY <3>2, <3>3
  <2>3. QED
    BY <2>1, <2>2
<1>11. Waits'
  <2> SUFFICES ASSUME NEW c2 \in Controllers
               PROVE  IF ctl'[c2].pc \in {"wait", "file"}
                      THEN ctl'[c2].host \in Hosts /\ hostDict'[c2][ctl'[c2].host] # None
                      ELSE ctl'[c2].host = None
    BY DEF Waits
  <2>1. CASE c2 = c
    BY <2>1
  <2>2. CASE c2 # c
    BY <1>4, <2>2 DEF IInv, Links, Waits
  <2>3. QED
    BY <2>1, <2>2
<1>12. Talks'
  <2>1. Asker(conn[i])' = Idle /\ Stored(conn[i])' = {}
    BY <1>3, <1>4 DEF Asker, Stored
  <2>2. Talk(x, Idle, Server(conn[i], i)', {})
    <3>1. CASE cn.srv = "closed"
      <4>1. Server(conn[i], i)' = Select
        BY <1>2, <1>4, <3>1, NoConnFields DEF Server
      <4>2. QED
        BY <1>2, <3>1, <4>1, NoTalk
    <3>2. CASE cn.srv # "closed"
      <4>1. Server(conn[i], i)' = Server(cn, i) /\ Server(cn, i) \in Servers
        BY <1>2, <1>4, <3>2, IdleFields DEF Server, IInv, Typed
      <4>2. PICK d : d = Server(cn, i)
        OBVIOUS
      <4>3. PICK st : st = got[c]
        OBVIOUS
      <4>4. Talk(cn, q, d, st) /\ d \in Servers
        BY <4>1, <4>2, <4>3
      <4>5. Talk(x, Idle, d, {})
        BY <1>2, <3>2, <4>4, ControllerCloses
      <4>6. QED
        BY <4>1, <4>2, <4>5
    <3>3. QED
      BY <3>1, <3>2
  <2>3. /\ Typed /\ Links /\ Talks /\ dmn' = dmn /\ \A o \in got[c] : o \in got'[c]
        /\ \A c2 \in Controllers : c2 # c => ctl'[c2] = ctl[c2] /\ got'[c2] = got[c2]
        /\ ctl[c].host \in Hosts => hostDict[c][ctl[c].host] \in {i, None}
        /\ ctl'[c].host \in Hosts => hostDict[c][ctl'[c].host] \in {i, None}
    BY NoConnFields DEF IInv
  <2>4. Talk(x, Asker(conn[i])', Server(conn[i], i)', Stored(conn[i])')
    BY <2>1, <2>2
  <2>5. c \in Controllers /\ i \in Slots /\ conn' = [conn EXCEPT ![i] = x]
    BY <1>4
  <2>6. QED
    BY ONLY <2>3, <2>4, <2>5, ControllerTalks
<1>13. QED
  BY <1>5, <1>7, <1>8, <1>9, <1>10, <1>11, <1>12 DEF IInv, Links

LEMMA ReplyFailsKeeps ==
  ASSUME IInv, NEW c \in Controllers, ReplyFails(c), UNCHANGED daemonVars
  PROVE  IInv'
<1>0. PICK i : i = Sock(c)
  OBVIOUS
<1>1. PICK h : h = ctl[c].host
  OBVIOUS
<1>2. PICK cn : cn = conn[i]
  OBVIOUS
<1>3. /\ ctl[c].pc = "wait" /\ conn' = [conn EXCEPT ![i] = CloseController(cn)]
      /\ hostDict' = [hostDict EXCEPT ![c][h] = None]
      /\ ctl' = [ctl EXCEPT ![c] = Done(c)]
      /\ getData' = getData /\ got' = got
      /\ dmn' = dmn /\ jobs' = jobs /\ disk' = disk
  <2>1. i \in Slots
    BY <1>0, Socketed DEF ReplyFails, Reading
  <2>2. QED
    BY <1>0, <1>1, <1>2, <2>1 DEF ReplyFails, Reading, daemonVars, IInv, Typed
<1>4. /\ i \in Slots /\ cn \in Conns /\ h \in Hosts /\ hostDict[c][h] = i
      /\ cn.c = c /\ cn.h = h /\ Talk(cn, ctl[c], Server(cn, i), got[c])
  BY <1>0, <1>1, <1>2, <1>3, Socketed
<1>5. PICK q : q = ctl[c]
  OBVIOUS
<1>6. /\ ctl' \in [Controllers -> Askers] /\ ctl'[c].pc = "idle" /\ ctl'[c].host = None
      /\ \A c2 \in Controllers : c2 # c => ctl'[c2] = ctl[c2]
  BY <1>3, DoneFields DEF IInv, Typed
<1>7. /\ UNCHANGED <<dmn, jobs, disk, got>>
      /\ getData' \in [Controllers -> SUBSET Hosts]
  BY <1>3 DEF IInv, Typed
<1>8. Talk(cn, q, Server(cn, i), got[c])
  BY <1>4, <1>5
<1>9. hostDict[c][h] = i /\ cn.srv = conn[i].srv /\ ctl[c].host \in {h, None}
  BY <1>1, <1>2, <1>4
<1>10. IInv /\ c \in Controllers
  OBVIOUS
<1>11. QED
  BY ONLY <1>3, <1>4, <1>6, <1>7, <1>8, <1>9, <1>10, SocketCloses

(* A request is sent, on an old connection or a new one.                   *)
LEMMA NewTalk ==
  ASSUME NEW c, NEW h, NEW q, NEW st, q.pc = "idle"
  PROVE  Talk(NewConn(c, h), q, Select, st)
<1>1. PICK cn : cn = NewConn(c, h)
  OBVIOUS
<1>2. /\ cn.c = c /\ cn.h = h /\ cn.ctl = TRUE /\ cn.srv = "queued"
      /\ Len(cn.req) = 0 /\ Len(cn.rep) = 0
  BY <1>1 DEF NewConn
<1>3. Select.pc = "select" /\ ToSend(Select) = 0 /\ Window \in Nat /\ 0 <= Window /\ 0 <= Window + 1
  BY Counts
<1>4. Requests(cn, Select)
  BY <1>2, <1>3 DEF Requests
<1>5. (\A n \in 1..0 : FALSE) /\ (\A n \in 2..0 : FALSE)
  OBVIOUS
<1>6. Replies(cn, q)
  BY <1>2, <1>3, <1>5 DEF Replies, AllChunks
<1>7. Answers(cn, q, Select, st)
  BY <1>2, <1>3, <1>5 DEF Answers
<1>8. QED
  BY <1>1, <1>4, <1>6, <1>7 DEF Talk

LEMMA PartTypes ==
  ASSUME NEW type \in Types, NEW exp \in Exps \cup {None}, NEW id \in 1..MaxCmds,
         NEW kind \in {"hdr", "body", "chunk"}
  PROVE  LET p == Part(kind, type, exp, id)
         IN /\ p \in Parts /\ p.kind = kind /\ p.type = type /\ p.exp = exp /\ p.id = id
            /\ \A data \in SUBSET Files :
                 LET r == [p EXCEPT !.data = data]
                 IN r \in Parts /\ r.kind = kind /\ r.id = id /\ r.data = data
BY DEF Part, Parts

LEMMA RequestSeq ==
  ASSUME NEW com \in Commands, NEW e, HasBody(com) => e \in Exps, NEW id \in 1..MaxCmds,
         NEW bare, ~bare
  PROVE  LET s == Request(com, e, id, bare)
         IN s \in Seq(Parts) /\ Whole(s) /\ \A n \in 1..Len(s) : s[n].id = id
<1>1. com \in Types
  BY DEF Types
<1>2. PICK p : p = Part("hdr", com, None, id)
  OBVIOUS
<1>3. p \in Parts /\ p.kind = "hdr" /\ p.type = com /\ p.id = id
  BY <1>1, <1>2 DEF Part, Parts
<1>4. CASE ~HasBody(com)
  <2>1. Request(com, e, id, bare) = <<p>>
    BY <1>2, <1>4 DEF Request
  <2>2. <<p>> \in Seq(Parts) /\ Len(<<p>>) = 1 /\ <<p>>[1] = p
        /\ \A n \in 1..1 : <<p>>[n] = p
    BY <1>3
  <2>3. QED
    BY <1>3, <1>4, <2>1, <2>2 DEF Whole
<1>5. CASE HasBody(com)
  <2>1. PICK b : b = Part("body", com, e, id)
    OBVIOUS
  <2>2. b \in Parts /\ b.kind = "body" /\ b.exp = e /\ b.id = id /\ e \in Exps
    BY <1>1, <1>5, <2>1, PartTypes
  <2>3. Request(com, e, id, bare) = <<p, b>>
    BY <1>2, <1>5, <2>1 DEF Request
  <2>4. <<p, b>> \in Seq(Parts) /\ Len(<<p, b>>) = 2 /\ <<p, b>>[1] = p /\ <<p, b>>[2] = b
        /\ \A n \in 1..2 : n = 1 \/ n = 2
    BY <1>3, <2>2
  <2>5. \A n \in 1..2 : <<p, b>>[n].id = id
    BY <1>3, <2>2, <2>4
  <2>6. QED
    BY <1>3, <1>5, <2>2, <2>3, <2>4, <2>5 DEF Whole
<1>6. QED
  BY <1>4, <1>5

LEMMA Asks ==
  ASSUME NEW cn \in Conns, NEW q \in Askers, NEW q2 \in Askers, NEW d \in Servers,
         NEW st, Talk(cn, q, d, st), cn.ctl, q.pc = "idle", q2.pc = "wait",
         NEW com \in Commands, NEW e, HasBody(com) => e \in Exps,
         q2.id \in 1..MaxCmds, NEW bare, ~bare
  PROVE  LET cn2 == ToDaemon(cn, Request(com, e, q2.id, bare))
         IN /\ cn2 \in Conns /\ cn2.c = cn.c /\ cn2.h = cn.h /\ cn2.ctl = cn.ctl
            /\ cn2.srv = cn.srv /\ Talk(cn2, q2, d, st)
<1>1. PICK s : s = Request(com, e, q2.id, bare)
  OBVIOUS
<1>2. s \in Seq(Parts) /\ Whole(s) /\ \A n \in 1..Len(s) : s[n].id = q2.id
  BY <1>1, RequestSeq
<1>3. Len(cn.req) = 0 /\ cn.req = <<>> /\ cn.rep \in Seq(Parts)
  BY ConnFields, EmptySeq DEF Talk, Replies
<1>4. <<>> \o s = s
  BY <1>2
<1>5. PICK cn2 : cn2 = ToDaemon(cn, s)
  OBVIOUS
<1>6. CASE cn.srv = "closed"
  <2>1. cn2 = cn
    BY <1>5, <1>6 DEF ToDaemon
  <2>2. Talk(cn2, q2, d, st)
    BY <1>6, <2>1, ControllerAsks, Counts
  <2>3. QED
    BY <1>1, <1>5, <2>1, <2>2
<1>7. CASE cn.srv # "closed"
  <2>1. cn2 = [cn EXCEPT !.req = s]
    BY <1>3, <1>4, <1>5, <1>7 DEF ToDaemon, Conns
  <2>2. /\ cn2 \in Conns /\ cn2.c = cn.c /\ cn2.h = cn.h /\ cn2.ctl = cn.ctl
        /\ cn2.srv = cn.srv /\ cn2.rep = cn.rep /\ cn2.req = s
    BY <1>2, <2>1, ConnTypes DEF Conns
  <2>3. Whole(cn2.req) /\ \A n \in 1..Len(cn2.req) : cn2.req[n].id = q2.id
    BY <1>2, <2>2
  <2>4. q2.id >= 1 /\ cn2.ctl
    BY <2>2, Counts
  <2>5. Talk(cn2, q2, d, st)
    BY <1>7, <2>2, <2>3, <2>4, ControllerAsks
  <2>6. QED
    BY <1>1, <1>5, <2>2, <2>5
<1>8. QED
  BY <1>6, <1>7

(* The socket a command is sent on.                                        *)
LEMMA SocketOf ==
  ASSUME IInv, NEW c \in Controllers, NEW h \in Hosts, NEW L,
         ctl[c].pc = "idle", NEW s \in Socket(c, h, L)
  PROVE  /\ s[1] \in Slots /\ s[2] \in Conns /\ s[2].c = c /\ s[2].h = h /\ s[2].ctl
         /\ \/ hostDict[c][h] = s[1] /\ s[2] = conn[s[1]]
            \/ hostDict[c][h] = None /\ conn[s[1]] = NoConn /\ s[2].srv = "queued"
         /\ Server(s[2], s[1]) \in Servers
         /\ Talk(s[2], Idle, Server(s[2], s[1]), got[c])
<1>1. ctl[c].host = None
  BY DEF IInv, Links, Waits
<1>2. CASE hostDict[c][h] # None
  <2>1. PICK i : i = hostDict[c][h]
    OBVIOUS
  <2>2. s = <<i, conn[i]>>
    BY <1>2, <2>1 DEF Socket
  <2>3. /\ i \in Slots /\ conn[i] \in Conns /\ conn[i].c = c /\ conn[i].h = h
        /\ conn[i].ctl
    BY <1>2, <2>1 DEF IInv, Typed, Links, LinksOut
  <2>4. Asker(conn[i]) = Idle /\ Stored(conn[i]) = got[c]
    BY <1>1, <2>3, NoConnFields DEF Asker, Stored
  <2>5. Talk(conn[i], Idle, Server(conn[i], i), got[c])
    BY <2>3, <2>4 DEF IInv, Talks
  <2>6. Server(conn[i], i) \in Servers
    BY <2>3, IdleFields DEF Server, IInv, Typed
  <2>7. QED
    BY <2>1, <2>2, <2>3, <2>5, <2>6
<1>3. CASE hostDict[c][h] = None
  <2>1. PICK i \in FreeSlots : s = <<i, NewConn(c, h)>>
    BY <1>3 DEF Socket
  <2>2. i \in Slots /\ conn[i] = NoConn
    BY <2>1 DEF FreeSlots
  <2>3. PICK cn : cn = NewConn(c, h)
    OBVIOUS
  <2>4. cn \in Conns /\ cn.c = c /\ cn.h = h /\ cn.ctl /\ cn.srv = "queued"
    BY <2>3, NewConnType DEF NewConn
  <2>5. dmn[h].slot # i
    BY <2>2, Unserved, NoConnFields
  <2>6. Server(cn, i) = Select /\ Select \in Servers
    BY <2>4, <2>5, IdleFields DEF Server
  <2>7. Talk(cn, Idle, Select, got[c])
    BY <2>3, NewTalk, IdleFields
  <2>8. QED
    BY <1>3, <2>1, <2>2, <2>3, <2>4, <2>6, <2>7
<1>4. QED
  BY <1>2, <1>3

(* The number of the next command.                                         *)
LEMMA NextId ==
  ASSUME Typed, NEW c \in Controllers, ctl[c].id < MaxCmds
  PROVE  /\ ctl[c].id + 1 \in 1..MaxCmds
         /\ LET q == [ctl[c] EXCEPT !.id = @ + 1]
            IN q \in Askers /\ q.pc = ctl[c].pc /\ q.host = ctl[c].host
         /\ \A com \in Commands, h \in Hosts, e \in Exps :
              LET q == [pc |-> "wait", com |-> com, host |-> h, exp |-> e, left |-> 0,
                        id |-> ctl[c].id + 1]
              IN /\ q \in Askers /\ q.pc = "wait" /\ q.host = h
                 /\ q.id = ctl[c].id + 1
         /\ \E q \in Askers : q.pc = "wait" /\ q.id = ctl[c].id + 1
<1>1. ctl[c] \in Askers /\ ctl[c].id \in 0..MaxCmds
  BY DEF Typed, Askers
<1>2. PICK n : n = ctl[c].id + 1
  OBVIOUS
<1>3. n \in 1..MaxCmds /\ n \in 0..MaxCmds /\ 0 \in 0..Chunks
  BY <1>1, <1>2, Counts
<1>4. LET q == [ctl[c] EXCEPT !.id = n]
      IN q \in Askers /\ q.pc = ctl[c].pc /\ q.host = ctl[c].host
  BY <1>1, <1>3 DEF Askers
<1>5. \A com \in Commands, h \in Hosts, e \in Exps :
        LET q == [pc |-> "wait", com |-> com, host |-> h, exp |-> e, left |-> 0,
                  id |-> n]
        IN q \in Askers /\ q.pc = "wait" /\ q.host = h /\ q.id = n
  BY <1>3 DEF Askers
<1>6. LET q == [pc |-> "wait", com |-> "", host |-> None, exp |-> None, left |-> 0,
                id |-> n]
      IN q \in Askers /\ q.pc = "wait" /\ q.id = n
  BY <1>3 DEF Askers
<1>7. QED
  BY <1>2, <1>3, <1>4, <1>5, <1>6

LEMMA SendCloseKeeps ==
  ASSUME IInv, NEW c \in Controllers, NEW h \in Hosts, NEW L,
         SendClose(c, h, L), UNCHANGED daemonVars
  PROVE  IInv'
<1>1. /\ ctl[c].pc = "idle" /\ ctl[c].id < MaxCmds /\ "CLOSE" \in Commands
      /\ hostDict' = [hostDict EXCEPT ![c][h] = None]
      /\ ctl' = [ctl EXCEPT ![c].id = @ + 1]
      /\ getData' = getData /\ got' = got /\ dmn' = dmn /\ jobs' = jobs /\ disk' = disk
  BY DEF SendClose, StartCmd, daemonVars
<1>2. PICK s \in Socket(c, h, L) :
        conn' = [conn EXCEPT ![s[1]] =
          CloseController(ToDaemon(s[2], Request("CLOSE", None, ctl[c].id + 1, FALSE)))]
  BY DEF SendClose
<1>3. /\ s[1] \in Slots /\ s[2] \in Conns /\ s[2].c = c /\ s[2].h = h /\ s[2].ctl
      /\ \/ hostDict[c][h] = s[1] /\ s[2] = conn[s[1]]
         \/ hostDict[c][h] = None /\ conn[s[1]] = NoConn /\ s[2].srv = "queued"
      /\ Server(s[2], s[1]) \in Servers
      /\ Talk(s[2], Idle, Server(s[2], s[1]), got[c])
  BY <1>1, SocketOf
<1>4. PICK q2 \in Askers : q2.pc = "wait" /\ q2.id = ctl[c].id + 1 /\ q2.id \in 1..MaxCmds
  BY <1>1, NextId DEF IInv
<1>5. PICK cn : cn = ToDaemon(s[2], Request("CLOSE", None, q2.id, FALSE))
  OBVIOUS
<1>6. /\ cn \in Conns /\ cn.c = s[2].c /\ cn.h = s[2].h /\ cn.ctl = s[2].ctl
      /\ cn.srv = s[2].srv /\ Talk(cn, q2, Server(s[2], s[1]), got[c])
  <2>1. ~HasBody("CLOSE")
    BY DEF HasBody
  <2>2. PICK d, st, cn0 : d = Server(s[2], s[1]) /\ st = got[c] /\ cn0 = s[2]
    OBVIOUS
  <2>3. /\ cn0 \in Conns /\ d \in Servers /\ cn0.ctl /\ Talk(cn0, Idle, d, st)
        /\ "CLOSE" \in Commands /\ q2 \in Askers /\ q2.pc = "wait" /\ q2.id \in 1..MaxCmds
    BY <1>1, <1>3, <1>4, <1>5, <2>2
  <2>4. /\ cn \in Conns /\ cn.c = cn0.c /\ cn.h = cn0.h /\ cn.ctl = cn0.ctl
        /\ cn.srv = cn0.srv /\ Talk(cn, q2, d, st)
    <3>1. (HasBody("CLOSE") => None \in Exps) /\ Idle \in Askers /\ Idle.pc = "idle"
      BY <2>1, IdleFields
    <3>2. PICK bare : bare = FALSE
      OBVIOUS
    <3>3. ~bare
      BY <3>2
    <3>4. cn = ToDaemon(cn0, Request("CLOSE", None, q2.id, bare))
      BY <1>5, <2>2, <3>2
    <3>5. LET cn2 == ToDaemon(cn0, Request("CLOSE", None, q2.id, bare))
          IN /\ cn2 \in Conns /\ cn2.c = cn0.c /\ cn2.h = cn0.h /\ cn2.ctl = cn0.ctl
             /\ cn2.srv = cn0.srv /\ Talk(cn2, q2, d, st)
      BY ONLY <2>3, <3>1, <3>3, Asks
    <3>6. QED
      BY <3>4, <3>5
  <2>5. QED
    BY <2>2, <2>4
<1>7. PICK i : i = s[1]
  OBVIOUS
<1>8. Server(cn, i) = Server(s[2], i)
  BY <1>6 DEF Server
<1>9. /\ i \in Slots /\ cn.c = c /\ cn.h = h /\ Talk(cn, q2, Server(cn, i), got[c])
      /\ conn' = [conn EXCEPT ![i] = CloseController(cn)]
      /\ \/ hostDict[c][h] = i /\ cn.srv = conn[i].srv
         \/ hostDict[c][h] = None /\ conn[i] = NoConn /\ cn.srv = "queued"
  BY <1>2, <1>3, <1>4, <1>5, <1>6, <1>7, <1>8
<1>10. /\ ctl' \in [Controllers -> Askers] /\ ctl'[c].pc = "idle" /\ ctl'[c].host = None
       /\ \A c2 \in Controllers : c2 # c => ctl'[c2] = ctl[c2]
       /\ ctl[c].host = None
  <2>1. ctl[c].host = None /\ ctl \in [Controllers -> Askers]
    BY <1>1 DEF IInv, Typed, Links, Waits
  <2>2. LET q == [ctl[c] EXCEPT !.id = @ + 1]
        IN q \in Askers /\ q.pc = "idle" /\ q.host = None
    BY <1>1, <2>1, NextId DEF IInv
  <2>3. QED
    BY <1>1, <2>1, <2>2
<1>11. /\ UNCHANGED <<dmn, jobs, disk, got>> /\ getData' \in [Controllers -> SUBSET Hosts]
       /\ IInv /\ c \in Controllers /\ h \in Hosts /\ ctl[c].host \in {h, None}
  BY <1>1, <1>10 DEF IInv, Typed
<1>12. QED
  BY ONLY <1>1, <1>6, <1>9, <1>10, <1>11, SocketCloses

LEMMA NoteTypes ==
  ASSUME Typed, NEW c \in Controllers, NEW h \in Hosts, NEW com, NoteGetData(c, com, h)
  PROVE  getData' \in [Controllers -> SUBSET Hosts]
<1>1. getData \in [Controllers -> SUBSET Hosts]
  BY DEF Typed
<1>2. \E S \in SUBSET Hosts : getData' = [getData EXCEPT ![c] = S]
  <2>1. CASE com \in {"DO_SERVER", "DO_CLIENT"}
    <3>1. getData' = [getData EXCEPT ![c] = {}]
      BY <2>1 DEF NoteGetData
    <3>2. QED
      BY <3>1
  <2>2. CASE com = "GET_DATA"
    <3>1. getData' = [getData EXCEPT ![c] = getData[c] \cup {h}]
      BY <1>1, <2>2 DEF NoteGetData
    <3>2. QED
      BY <1>1, <3>1
  <2>3. CASE com \notin {"DO_SERVER", "DO_CLIENT", "GET_DATA"}
    <3>1. getData' = [getData EXCEPT ![c] = getData[c]]
      BY <1>1, <2>3 DEF NoteGetData
    <3>2. QED
      BY <1>1, <3>1
  <2>4. QED
    BY <2>1, <2>2, <2>3
<1>3. QED
  BY <1>1, <1>2

LEMMA SendCmdKeeps ==
  ASSUME IInv, ~Bare, NEW c \in Controllers, NEW com \in Commands, NEW h \in Hosts,
         NEW e \in Exps, NEW bare \in {FALSE, Bare}, NEW L,
         SendCmd(c, com, h, e, bare, L), UNCHANGED daemonVars
  PROVE  IInv'
<1>1. /\ ctl[c].pc = "idle" /\ ctl[c].id < MaxCmds /\ got' = got
      /\ ctl' = [ctl EXCEPT ![c] = [pc |-> "wait", com |-> com, host |-> h,
                   exp |-> e, left |-> 0, id |-> ctl[c].id + 1]]
      /\ dmn' = dmn /\ jobs' = jobs /\ disk' = disk
  BY DEF SendCmd, StartCmd, daemonVars
<1>2. PICK s \in Socket(c, h, L) :
        /\ conn' = [conn EXCEPT ![s[1]] =
                      ToDaemon(s[2], Request(com, e, ctl[c].id + 1, bare))]
        /\ hostDict' = [hostDict EXCEPT ![c][h] = s[1]]
  BY DEF SendCmd
<1>3. PICK i, cn0, cn, q2, d, st :
        /\ i = s[1] /\ cn0 = s[2] /\ q2 = ctl'[c] /\ d = Server(cn0, i) /\ st = got[c]
        /\ cn = ToDaemon(cn0, Request(com, e, ctl[c].id + 1, bare))
  OBVIOUS
<1>4. /\ i \in Slots /\ cn0 \in Conns /\ cn0.c = c /\ cn0.h = h /\ cn0.ctl
      /\ \/ hostDict[c][h] = i /\ cn0 = conn[i]
         \/ hostDict[c][h] = None /\ conn[i] = NoConn /\ cn0.srv = "queued"
      /\ d \in Servers /\ Talk(cn0, Idle, d, st)
  BY <1>1, <1>3, SocketOf
<1>5. /\ q2 \in Askers /\ q2.pc = "wait" /\ q2.id = ctl[c].id + 1 /\ q2.id \in 1..MaxCmds
      /\ q2.host = h /\ ctl' \in [Controllers -> Askers] /\ ctl'[c] = q2
      /\ \A c2 \in Controllers : c2 # c => ctl'[c2] = ctl[c2]
  <2>1. ctl \in [Controllers -> Askers] /\ Typed
    BY DEF IInv, Typed
  <2>2. ctl[c].id + 1 \in 1..MaxCmds
    BY <1>1, <2>1, NextId
  <2>3. PICK q : q = [pc |-> "wait", com |-> com, host |-> h, exp |-> e, left |-> 0,
                      id |-> ctl[c].id + 1]
    OBVIOUS
  <2>4. q \in Askers /\ q.pc = "wait" /\ q.host = h /\ q.id = ctl[c].id + 1
    BY <1>1, <2>1, <2>3, NextId
  <2>5. ctl' = [ctl EXCEPT ![c] = q]
    BY <1>1, <2>3
  <2>6. ctl'[c] = q
    BY <2>1, <2>5
  <2>7. QED
    BY <1>3, <2>1, <2>2, <2>4, <2>5, <2>6
<1>6. /\ cn \in Conns /\ cn.c = c /\ cn.h = h /\ cn.ctl /\ cn.srv = cn0.srv
      /\ Talk(cn, q2, d, st)
  <2>0. com \in Commands /\ (HasBody(com) => e \in Exps)
    OBVIOUS
  <2>1. ~bare
    OBVIOUS
  <2>2. LET cn2 == ToDaemon(cn0, Request(com, e, q2.id, bare))
        IN /\ cn2 \in Conns /\ cn2.c = cn0.c /\ cn2.h = cn0.h /\ cn2.ctl = cn0.ctl
           /\ cn2.srv = cn0.srv /\ Talk(cn2, q2, d, st)
    <3>1. /\ cn0 \in Conns /\ d \in Servers /\ cn0.ctl /\ Talk(cn0, Idle, d, st)
          /\ com \in Commands /\ q2 \in Askers /\ q2.pc = "wait" /\ q2.id \in 1..MaxCmds
          /\ Idle \in Askers /\ Idle.pc = "idle"
      BY <1>4, <1>5, IdleFields
    <3>2. QED
      BY ONLY <2>0, <2>1, <3>1, Asks
  <2>3. QED
    BY <1>3, <1>4, <1>5, <2>2
<1>7. /\ conn' = [conn EXCEPT ![i] = cn] /\ conn' \in [Slots -> Conns] /\ conn'[i] = cn
      /\ \A j \in Slots : j # i => conn'[j] = conn[j]
      /\ hostDict' \in [Controllers -> [Hosts -> Slots \cup {None}]]
      /\ hostDict'[c][h] = i
      /\ \A c2 \in Controllers, h2 \in Hosts :
           ~(c2 = c /\ h2 = h) => hostDict'[c2][h2] = hostDict[c2][h2]
  BY <1>2, <1>3, <1>4, <1>6 DEF IInv, Typed
<1>8. Typed'
  <2>1. NoteGetData(c, com, h)
    BY DEF SendCmd
  <2>2. getData' \in [Controllers -> SUBSET Hosts]
    BY <2>1, NoteTypes DEF IInv
  <2>3. QED
    BY <1>1, <1>5, <1>7, <2>2 DEF IInv, Typed
<1>9. \A c2 \in Controllers, h2 \in Hosts :
        conn[i].c = c2 /\ conn[i].h = h2 => c2 = c /\ h2 = h /\ hostDict[c][h] = i
  BY <1>4, NoConnFields
<1>10. LinksOut'
  <2> SUFFICES ASSUME NEW c2 \in Controllers, NEW h2 \in Hosts, hostDict'[c2][h2] # None
               PROVE  LET y == conn'[hostDict'[c2][h2]]
                      IN y.c = c2 /\ y.h = h2 /\ y.ctl
    BY DEF LinksOut
  <2>1. CASE c2 = c /\ h2 = h
    BY <1>6, <1>7, <2>1
  <2>2. CASE ~(c2 = c /\ h2 = h)
    <3>1. hostDict'[c2][h2] = hostDict[c2][h2]
      BY <1>7, <2>2
    <3>2. /\ hostDict[c2][h2] \in Slots
          /\ conn[hostDict[c2][h2]].c = c2 /\ conn[hostDict[c2][h2]].h = h2
          /\ conn[hostDict[c2][h2]].ctl
      BY <3>1 DEF IInv, Typed, Links, LinksOut
    <3>3. hostDict[c2][h2] # i
      BY <1>9, <2>2, <3>2
    <3>4. QED
      BY <1>7, <3>1, <3>2, <3>3
  <2>3. QED
    BY <2>1, <2>2
<1>11. LinksIn'
  <2> SUFFICES ASSUME NEW j \in Slots, conn'[j].ctl
               PROVE  /\ conn'[j].c \in Controllers /\ conn'[j].h \in Hosts
                      /\ hostDict'[conn'[j].c][conn'[j].h] = j
    BY DEF LinksIn
  <2>1. CASE j = i
    BY <1>6, <1>7, <2>1
  <2>2. CASE j # i
    <3>1. conn'[j] = conn[j] /\ j # None
      BY <1>7, <2>2, NoConnFields
    <3>2. /\ conn[j].c \in Controllers /\ conn[j].h \in Hosts
          /\ hostDict[conn[j].c][conn[j].h] = j
      BY <3>1 DEF IInv, Links, LinksIn
    <3>3. ~(conn[j].c = c /\ conn[j].h = h)
      BY <1>4, <2>2, <3>1, <3>2
    <3>4. QED
      BY <1>7, <3>1, <3>2, <3>3
  <2>3. QED
    BY <2>1, <2>2
<1>12. Ends' /\ Waits'
  <2>1. Ends'
    BY <1>6, <1>7 DEF IInv, Links, Ends
  <2>2. i # None
    BY <1>4, NoConnFields
  <2>3. ASSUME NEW c2 \in Controllers
        PROVE  IF ctl'[c2].pc \in {"wait", "file"}
               THEN ctl'[c2].host \in Hosts /\ hostDict'[c2][ctl'[c2].host] # None
               ELSE ctl'[c2].host = None
    <3>1. CASE c2 = c
      BY <1>5, <1>7, <2>2, <3>1
    <3>2. CASE c2 # c
      BY <1>5, <1>7, <3>2 DEF IInv, Links, Waits
    <3>3. QED
      BY <3>1, <3>2
  <2>4. QED
    BY <2>1, <2>3 DEF Waits
<1>13. Serves'
  <2> SUFFICES ASSUME NEW g \in Hosts
               PROVE  IF dmn[g].pc \in {"body", "file"}
                      THEN dmn[g].slot \in Slots /\ conn'[dmn[g].slot].h = g
                      ELSE dmn[g].slot = None
    BY <1>1 DEF Serves
  <2>1. CASE dmn[g].pc \notin {"body", "file"}
    BY <2>1 DEF IInv, Links, Serves
  <2>2. CASE dmn[g].pc \in {"body", "file"}
    <3>1. dmn[g].slot \in Slots /\ conn[dmn[g].slot].h = g
      BY <2>2 DEF IInv, Links, Serves
    <3>2. CASE dmn[g].slot = i
      BY <1>4, <1>6, <1>7, <2>2, <3>1, <3>2, NoConnFields
    <3>3. CASE dmn[g].slot # i
      BY <1>7, <2>2, <3>1, <3>3
    <3>4. QED
      BY <3>2, <3>3
  <2>3. QED
    BY <2>1, <2>2
<1>14. Talks'
  <2>1. Asker(conn[i])' = q2 /\ Stored(conn[i])' = st
    BY <1>1, <1>3, <1>5, <1>6, <1>7 DEF Asker, Stored
  <2>2. Server(conn[i], i)' = d
    BY <1>1, <1>3, <1>4, <1>6, <1>7 DEF Server
  <2>3. /\ Typed /\ Links /\ Talks /\ dmn' = dmn /\ \A o \in got[c] : o \in got'[c]
        /\ \A c2 \in Controllers : c2 # c => ctl'[c2] = ctl[c2] /\ got'[c2] = got[c2]
        /\ ctl[c].host \in Hosts => hostDict[c][ctl[c].host] \in {i, None}
        /\ ctl'[c].host \in Hosts => hostDict[c][ctl'[c].host] \in {i, None}
    <3>1. ctl[c].host = None
      BY <1>1 DEF IInv, Links, Waits
    <3>2. QED
      BY <1>1, <1>4, <1>5, <3>1, NoConnFields DEF IInv
  <2>4. Talk(cn, Asker(conn[i])', Server(conn[i], i)', Stored(conn[i])')
    BY <1>6, <2>1, <2>2
  <2>5. c \in Controllers /\ i \in Slots /\ conn' = [conn EXCEPT ![i] = cn]
    BY <1>4, <1>7
  <2>6. QED
    BY ONLY <2>3, <2>4, <2>5, ControllerTalks
<1>15. QED
  BY <1>8, <1>10, <1>11, <1>12, <1>13, <1>14 DEF IInv, Links

(* A step of a controller that waits for no answer and sends nothing.      *)
LEMMA AloneKeeps ==
  ASSUME IInv, NEW c \in Controllers, NEW q \in Askers,
         ctl' = [ctl EXCEPT ![c] = q], ctl[c].pc \in {"idle", "dead"},
         q.pc \in {"idle", "dead"}, q.host = None,
         getData' \in [Controllers -> SUBSET Hosts],
         UNCHANGED <<conn, hostDict, got, daemonVars>>
  PROVE  IInv'
<1>1. /\ ctl' \in [Controllers -> Askers] /\ ctl'[c] = q /\ ctl[c].host = None
      /\ \A c2 \in Controllers : c2 # c => ctl'[c2] = ctl[c2]
      /\ conn' = conn /\ dmn' = dmn /\ got' = got /\ hostDict' = hostDict
  BY DEF IInv, Typed, Links, Waits, daemonVars
<1>2. Typed'
  BY <1>1 DEF IInv, Typed, daemonVars
<1>3. Links'
  <2>1. LinksOut' /\ LinksIn' /\ Ends' /\ Serves'
    BY <1>1 DEF IInv, Links, LinksOut, LinksIn, Ends, Serves
  <2>2. Waits'
    BY <1>1 DEF IInv, Links, Waits
  <2>3. QED
    BY <2>1, <2>2 DEF Links
<1>4. Talks'
  <2>1. /\ Typed /\ Links /\ Talks /\ dmn' = dmn
        /\ \A c2 \in Controllers : c2 # c => ctl'[c2] = ctl[c2] /\ got'[c2] = got[c2]
        /\ \A x \in got[c] : x \in got'[c]
        /\ ctl[c].host \notin Hosts /\ ctl'[c].host \notin Hosts
    BY <1>1, NoConnFields DEF IInv
  <2>2. ASSUME NEW j \in Slots
        PROVE  Talk(conn'[j], Asker(conn[j])', Server(conn[j], j)', Stored(conn[j])')
    <3>1. j # None /\ conn'[j] = conn[j] /\ c \in Controllers
      BY <1>1, NoConnFields
    <3>2. QED
      BY ONLY <2>1, <2>2, <3>1, ControllerElsewhere
  <2>3. QED
    BY <2>2 DEF Talks
<1>5. QED
  BY <1>2, <1>3, <1>4 DEF IInv

LEMMA SkipGetDataKeeps ==
  ASSUME IInv, NEW c \in Controllers, NEW h, NEW e, SkipGetData(c, h, e),
         UNCHANGED daemonVars
  PROVE  IInv'
<1>1. PICK q : q = [ctl[c] EXCEPT !.id = @ + 1]
  OBVIOUS
<1>2. ctl[c].pc = "idle" /\ ctl[c].id < MaxCmds /\ ctl[c].host = None
  BY DEF SkipGetData, StartCmd, IInv, Links, Waits
<1>3. q \in Askers /\ q.pc = "idle" /\ q.host = None
  BY <1>1, <1>2, NextId DEF IInv
<1>4. ctl' = [ctl EXCEPT ![c] = q]
  BY <1>1 DEF SkipGetData, IInv, Typed
<1>5. UNCHANGED <<conn, hostDict, got, daemonVars>> /\ getData' \in [Controllers -> SUBSET Hosts]
  BY DEF SkipGetData, IInv, Typed
<1>6. QED
  BY <1>2, <1>3, <1>4, <1>5, AloneKeeps

LEMMA NoSocketKeeps ==
  ASSUME IInv, NEW c \in Controllers, NEW com, NEW h \in Hosts, NEW L,
         NoSocket(c, com, h, L), UNCHANGED daemonVars
  PROVE  IInv'
<1>1. PICK q : q = [ctl[c] EXCEPT !.id = @ + 1]
  OBVIOUS
<1>2. ctl[c].pc = "idle" /\ ctl[c].id < MaxCmds /\ ctl[c].host = None
  BY DEF NoSocket, StartCmd, IInv, Links, Waits
<1>3. q \in Askers /\ q.pc = "idle" /\ q.host = None
  BY <1>1, <1>2, NextId DEF IInv
<1>4. ctl' = [ctl EXCEPT ![c] = q]
  BY <1>1 DEF NoSocket, IInv, Typed
<1>5. UNCHANGED <<conn, hostDict, got, daemonVars>> /\ NoteGetData(c, com, h)
  BY DEF NoSocket
<1>6. getData' \in [Controllers -> SUBSET Hosts]
  BY <1>5, NoteTypes DEF IInv
<1>7. QED
  BY <1>2, <1>3, <1>4, <1>5, <1>6, AloneKeeps

LEMMA StartControllerKeeps ==
  ASSUME IInv, NEW c \in Controllers, StartController(c), UNCHANGED daemonVars
  PROVE  IInv'
<1>1. PICK q : q = [ctl[c] EXCEPT !.pc = "idle"]
  OBVIOUS
<1>2. ctl[c].pc = "dead" /\ ctl[c].host = None /\ ctl[c] \in Askers
  BY DEF StartController, IInv, Typed, Links, Waits
<1>3. q \in Askers /\ q.pc = "idle" /\ q.host = None
  BY <1>1, <1>2 DEF Askers
<1>4. ctl' = [ctl EXCEPT ![c] = q]
  BY <1>1 DEF StartController, IInv, Typed
<1>5. UNCHANGED <<conn, hostDict, got, daemonVars>> /\ getData' \in [Controllers -> SUBSET Hosts]
  BY DEF StartController, IInv, Typed
<1>6. QED
  BY <1>2, <1>3, <1>4, <1>5, AloneKeeps

(* A controller ends, and with it its end of all of its connections.       *)
LEMMA DieKeeps ==
  ASSUME IInv, NEW c \in Controllers, Die(c), UNCHANGED daemonVars
  PROVE  IInv'
<1>1. PICK q : q = [Done(c) EXCEPT !.pc = "dead"]
  OBVIOUS
<1>2. q \in Askers /\ q.pc = "dead" /\ q.host = None
  BY <1>1, DoneFields DEF IInv
<1>3. /\ ctl' \in [Controllers -> Askers] /\ ctl'[c] = q
      /\ \A c2 \in Controllers : c2 # c => ctl'[c2] = ctl[c2]
      /\ hostDict' \in [Controllers -> [Hosts -> Slots \cup {None}]]
      /\ \A h \in Hosts : hostDict'[c][h] = None
      /\ \A c2 \in Controllers : c2 # c => hostDict'[c2] = hostDict[c2]
      /\ getData' \in [Controllers -> SUBSET Hosts] /\ got' = got
      /\ dmn' = dmn /\ jobs' = jobs /\ disk' = disk
  <2>1. /\ ctl \in [Controllers -> Askers] /\ getData \in [Controllers -> SUBSET Hosts]
        /\ hostDict \in [Controllers -> [Hosts -> Slots \cup {None}]]
    BY DEF IInv, Typed
  <2>2. /\ ctl' = [ctl EXCEPT ![c] = q]
        /\ hostDict' = [hostDict EXCEPT ![c] = [h \in Hosts |-> None]]
        /\ getData' = [getData EXCEPT ![c] = {}] /\ got' = got
        /\ dmn' = dmn /\ jobs' = jobs /\ disk' = disk
    BY <1>1 DEF Die, daemonVars
  <2>3. QED
    BY <1>2, <2>1, <2>2
<1>4. \A j \in Slots : conn[j] \in Conns
  BY DEF IInv, Typed
<1>5. conn' = [j \in Slots |-> IF conn[j].c = c THEN CloseController(conn[j]) ELSE conn[j]]
  BY DEF Die
<1>6. ASSUME NEW j \in Slots
      PROVE  IF conn[j].c # c THEN conn'[j] = conn[j]
             ELSE IF conn[j].srv = "closed" THEN conn'[j] = NoConn
             ELSE /\ conn'[j].c = c /\ conn'[j].h = conn[j].h /\ ~conn'[j].ctl
                  /\ conn'[j].srv = conn[j].srv /\ conn'[j].req = conn[j].req
                  /\ Len(conn'[j].rep) = 0
  BY <1>4, <1>5, Closing
<1>7. conn' \in [Slots -> Conns]
  <2>1. \A j \in Slots : CloseController(conn[j]) \in Conns
    BY <1>4, ConnTypes
  <2>2. QED
    BY <1>4, <1>5, <2>1
<1>8. Typed'
  BY <1>3, <1>7 DEF IInv, Typed
<1>9. LinksOut'
  <2> SUFFICES ASSUME NEW c2 \in Controllers, NEW h2 \in Hosts, hostDict'[c2][h2] # None
               PROVE  LET y == conn'[hostDict'[c2][h2]]
                      IN y.c = c2 /\ y.h = h2 /\ y.ctl
    BY DEF LinksOut
  <2>1. c2 # c /\ hostDict'[c2][h2] = hostDict[c2][h2]
    BY <1>3
  <2>2. /\ hostDict[c2][h2] \in Slots
        /\ conn[hostDict[c2][h2]].c = c2 /\ conn[hostDict[c2][h2]].h = h2
        /\ conn[hostDict[c2][h2]].ctl
    BY <2>1 DEF IInv, Typed, Links, LinksOut
  <2>3. conn'[hostDict[c2][h2]] = conn[hostDict[c2][h2]]
    BY <1>6, <2>1, <2>2
  <2>4. QED
    BY <2>1, <2>2, <2>3
<1>10. LinksIn'
  <2> SUFFICES ASSUME NEW j \in Slots, conn'[j].ctl
               PROVE  /\ conn'[j].c \in Controllers /\ conn'[j].h \in Hosts
                      /\ hostDict'[conn'[j].c][conn'[j].h] = j
    BY DEF LinksIn
  <2>1. conn[j].c # c /\ conn'[j] = conn[j]
    BY <1>6, NoConnFields
  <2>2. /\ conn[j].c \in Controllers /\ conn[j].h \in Hosts
        /\ hostDict[conn[j].c][conn[j].h] = j
    BY <2>1 DEF IInv, Links, LinksIn
  <2>3. QED
    BY <1>3, <2>1, <2>2
<1>11. Ends'
  BY <1>6, NoConnFields DEF IInv, Links, Ends
<1>12. Serves'
  <2> SUFFICES ASSUME NEW g \in Hosts
               PROVE  IF dmn[g].pc \in {"body", "file"}
                      THEN dmn[g].slot \in Slots /\ conn'[dmn[g].slot].h = g
                      ELSE dmn[g].slot = None
    BY <1>3 DEF Serves
  <2>1. CASE dmn[g].pc \notin {"body", "file"}
    BY <2>1 DEF IInv, Links, Serves
  <2>2. CASE dmn[g].pc \in {"body", "file"}
    <3>1. dmn[g].slot \in Slots /\ conn[dmn[g].slot].h = g /\ conn[dmn[g].slot].srv = "listed"
      BY <2>2, Served
    <3>2. conn'[dmn[g].slot].h = g
      BY <1>6, <3>1
    <3>3. QED
      BY <2>2, <3>1, <3>2
  <2>3. QED
    BY <2>1, <2>2
<1>13. Waits'
  BY <1>2, <1>3 DEF IInv, Links, Waits
<1>14. Talks'
  <2> SUFFICES ASSUME NEW j \in Slots
               PROVE  Talk(conn'[j], Asker(conn[j])', Server(conn[j], j)', Stored(conn[j])')
    BY DEF Talks
  <2>1. Talk(conn[j], Asker(conn[j]), Server(conn[j], j), Stored(conn[j]))
    BY DEF IInv, Talks
  <2>2. CASE conn[j].c # c
    <3>1. conn'[j] = conn[j]
      BY <1>6, <2>2
    <3>2. conn[j].ctl => conn[j].c \in Controllers
      BY DEF IInv, Links, LinksIn
    <3>3. Asker(conn[j])' = Asker(conn[j]) /\ Stored(conn[j])' = Stored(conn[j])
      BY <1>3, <2>2, <3>1, <3>2 DEF Asker, Stored
    <3>4. Server(conn[j], j)' = Server(conn[j], j)
      BY <1>3, <3>1 DEF Server
    <3>5. QED
      BY <2>1, <3>1, <3>3, <3>4
  <2>3. CASE conn[j].c = c /\ conn[j].srv = "closed"
    <3>1. conn'[j] = NoConn
      BY <1>6, <2>3
    <3>2. Asker(conn[j])' = Idle /\ Stored(conn[j])' = {} /\ Server(conn[j], j)' = Select
      BY <3>1, NoConnFields DEF Asker, Stored, Server
    <3>3. QED
      BY <3>1, <3>2, NoTalk
  <2>4. CASE conn[j].c = c /\ conn[j].srv # "closed"
    <3>1. /\ conn'[j].c = c /\ conn'[j].h = conn[j].h /\ ~conn'[j].ctl
          /\ conn'[j].srv = conn[j].srv /\ conn'[j].req = conn[j].req
          /\ Len(conn'[j].rep) = 0
      BY <1>6, <2>4
    <3>2. Asker(conn[j])' = Idle /\ Stored(conn[j])' = {}
      BY <3>1 DEF Asker, Stored
    <3>3. Server(conn[j], j)' = Server(conn[j], j) /\ Server(conn[j], j) \in Servers
      BY <1>3, <3>1, IdleFields DEF Server, IInv, Typed
    <3>4. conn[j] \in Conns /\ conn'[j] \in Conns
      BY <1>4, <1>7
    <3>5. PICK cn, cn2, d, q0, st : /\ cn = conn[j] /\ cn2 = conn'[j] /\ d = Server(conn[j], j)
                                    /\ q0 = Asker(conn[j]) /\ st = Stored(conn[j])
      OBVIOUS
    <3>6. /\ cn \in Conns /\ cn2 \in Conns /\ d \in Servers /\ Talk(cn, q0, d, st)
          /\ ~cn2.ctl /\ Len(cn2.rep) = 0 /\ cn2.req = cn.req /\ cn2.srv = cn.srv
      BY <2>1, <3>1, <3>3, <3>4, <3>5
    <3>7. Talk(cn2, Idle, d, {})
      BY ONLY <3>6, ControllerCloses
    <3>8. QED
      BY <3>2, <3>3, <3>5, <3>7
  <2>5. QED
    BY <2>2, <2>3, <2>4
<1>15. QED
  BY <1>8, <1>9, <1>10, <1>11, <1>12, <1>13, <1>14 DEF IInv, Links

-----------------------------------------------------------------------------
(* The daemons' steps.                                                     *)

(* What a step of h's daemon may make of connection j, d2 being what the   *)
(* daemon does next: nothing; free it; or change it, and then the talk goes*)
(* on.                                                                     *)
Carried(h, d2, j) ==
  \/ conn'[j] = conn[j] /\ dmn[h].slot # j /\ d2.slot # j
  \/ conn[j].h = h /\ ~conn[j].ctl /\ conn'[j] = NoConn /\ d2.slot # j
  \/ /\ conn[j].h = h /\ conn'[j].c = conn[j].c /\ conn'[j].h = h
     /\ conn'[j].ctl = conn[j].ctl
     /\ conn'[j].srv # "closed" => conn[j].srv # "closed"
     /\ Talk(conn'[j], Asker(conn[j]), IF d2.slot = j THEN d2 ELSE Select,
             Stored(conn[j]))

LEMMA DaemonKeeps ==
  ASSUME IInv, NEW h \in Hosts, NEW d2 \in Servers,
         dmn' = [dmn EXCEPT ![h] = d2],
         IF d2.pc \in {"body", "file"}
         THEN d2.slot \in Slots /\ conn'[d2.slot].h = h ELSE d2.slot = None,
         UNCHANGED controllerVars,
         jobs' \in [Hosts -> SUBSET Files], disk' \in [Hosts -> SUBSET Files],
         conn' \in [Slots -> Conns], \A j \in Slots : Carried(h, d2, j)
  PROVE  IInv'
<1>1. /\ ctl' = ctl /\ hostDict' = hostDict /\ getData' = getData /\ got' = got
      /\ dmn' \in [Hosts -> Servers] /\ dmn'[h] = d2
      /\ \A g \in Hosts : g # h => dmn'[g] = dmn[g]
  BY DEF controllerVars, IInv, Typed
<1>2. Typed'
  BY <1>1 DEF IInv, Typed
<1>3. \A j \in Slots :
        \/ conn'[j] = conn[j]
        \/ conn[j].h = h /\ ~conn[j].ctl /\ conn'[j] = NoConn
        \/ /\ conn'[j].c = conn[j].c /\ conn'[j].h = conn[j].h
           /\ conn'[j].ctl = conn[j].ctl
           /\ conn'[j].srv # "closed" => conn[j].srv # "closed"
  BY DEF Carried
<1>4. LinksOut'
  <2> SUFFICES ASSUME NEW c \in Controllers, NEW g \in Hosts, hostDict[c][g] # None
               PROVE  LET y == conn'[hostDict[c][g]] IN y.c = c /\ y.h = g /\ y.ctl
    BY <1>1 DEF LinksOut
  <2>1. /\ hostDict[c][g] \in Slots /\ conn[hostDict[c][g]].c = c
        /\ conn[hostDict[c][g]].h = g /\ conn[hostDict[c][g]].ctl
    BY DEF IInv, Typed, Links, LinksOut
  <2>2. QED
    BY <1>3, <2>1
<1>5. LinksIn'
  <2> SUFFICES ASSUME NEW j \in Slots, conn'[j].ctl
               PROVE  /\ conn'[j].c \in Controllers /\ conn'[j].h \in Hosts
                      /\ hostDict[conn'[j].c][conn'[j].h] = j
    BY <1>1 DEF LinksIn
  <2>1. conn'[j].c = conn[j].c /\ conn'[j].h = conn[j].h /\ conn[j].ctl
    BY <1>3, NoConnFields
  <2>2. QED
    BY <2>1 DEF IInv, Links, LinksIn
<1>6. Ends'
  BY <1>3, NoConnFields DEF IInv, Links, Ends
<1>7. Waits'
  BY <1>1 DEF IInv, Links, Waits
<1>8. Serves'
  <2> SUFFICES ASSUME NEW g \in Hosts
               PROVE  IF dmn'[g].pc \in {"body", "file"}
                      THEN dmn'[g].slot \in Slots /\ conn'[dmn'[g].slot].h = g
                      ELSE dmn'[g].slot = None
    BY DEF Serves
  <2>1. CASE g = h
    BY <1>1, <2>1
  <2>2. CASE g # h /\ dmn[g].pc \notin {"body", "file"}
    BY <1>1, <2>2 DEF IInv, Links, Serves
  <2>3. CASE g # h /\ dmn[g].pc \in {"body", "file"}
    <3>1. dmn'[g] = dmn[g] /\ dmn[g].slot \in Slots /\ conn[dmn[g].slot].h = g
      BY <1>1, <2>3 DEF IInv, Links, Serves
    <3>2. conn'[dmn[g].slot].h = g
      BY <1>3, <2>3, <3>1
    <3>3. QED
      BY <2>3, <3>1, <3>2
  <2>4. QED
    BY <2>1, <2>2, <2>3
<1>9. Talks'
  <2> SUFFICES ASSUME NEW j \in Slots
               PROVE  Talk(conn'[j], Asker(conn[j])', Server(conn[j], j)', Stored(conn[j])')
    BY DEF Talks
  <2>0. j # None /\ Carried(h, d2, j)
    BY NoConnFields
  <2>1. CASE conn'[j] = conn[j] /\ dmn[h].slot # j /\ d2.slot # j
    <3>1. Talk(conn[j], Asker(conn[j]), Server(conn[j], j), Stored(conn[j]))
      BY DEF IInv, Talks
    <3>2. Asker(conn[j])' = Asker(conn[j]) /\ Stored(conn[j])' = Stored(conn[j])
      BY <1>1, <2>1 DEF Asker, Stored
    <3>3. Server(conn[j], j)' = Server(conn[j], j)
      BY <1>1, <2>1 DEF Server
    <3>4. QED
      BY <2>1, <3>1, <3>2, <3>3
  <2>2. CASE conn[j].h = h /\ ~conn[j].ctl /\ conn'[j] = NoConn /\ d2.slot # j
    <3>1. Asker(conn[j])' = Idle /\ Stored(conn[j])' = {} /\ Server(conn[j], j)' = Select
      BY <2>2, NoConnFields DEF Asker, Stored, Server
    <3>2. QED
      BY <2>2, <3>1, NoTalk
  <2>3. CASE /\ conn[j].h = h /\ conn'[j].c = conn[j].c /\ conn'[j].h = h
             /\ conn'[j].ctl = conn[j].ctl
             /\ Talk(conn'[j], Asker(conn[j]), IF d2.slot = j THEN d2 ELSE Select,
                     Stored(conn[j]))
    <3>1. Asker(conn[j])' = Asker(conn[j]) /\ Stored(conn[j])' = Stored(conn[j])
      BY <1>1, <2>3 DEF Asker, Stored
    <3>2. Server(conn[j], j)' = IF d2.slot = j THEN d2 ELSE Select
      BY <1>1, <2>3 DEF Server
    <3>3. QED
      BY <2>3, <3>1, <3>2
  <2>4. QED
    BY <2>0, <2>1, <2>2, <2>3 DEF Carried
<1>10. QED
  BY <1>2, <1>4, <1>5, <1>6, <1>7, <1>8, <1>9 DEF IInv, Links

(* The same for a step about connection i only, after which cn is x.       *)
LEMMA DaemonKeepsOne ==
  ASSUME IInv, NEW h \in Hosts, NEW i \in Slots, NEW x \in Conns, NEW d2 \in Servers,
         conn' = [conn EXCEPT ![i] = x], dmn' = [dmn EXCEPT ![h] = d2],
         IF d2.pc \in {"body", "file"} THEN d2.slot = i ELSE d2.slot = None,
         dmn[h].slot \in {i, None},
         UNCHANGED controllerVars,
         jobs' \in [Hosts -> SUBSET Files], disk' \in [Hosts -> SUBSET Files],
         conn[i].h = h, x.c = conn[i].c, x.h = h, x.ctl = conn[i].ctl,
         x.srv # "closed" => conn[i].srv # "closed",
         Talk(x, Asker(conn[i]), IF d2.slot = i THEN d2 ELSE Select, Stored(conn[i]))
  PROVE  IInv'
<1>1. /\ conn' \in [Slots -> Conns] /\ conn'[i] = x
      /\ \A j \in Slots : j # i => conn'[j] = conn[j] /\ j # None
  BY NoConnFields DEF IInv, Typed
<1>2. Carried(h, d2, i)
  BY <1>1 DEF Carried
<1>3. \A j \in Slots : j # i => Carried(h, d2, j)
  BY <1>1 DEF Carried
<1>4. IF d2.pc \in {"body", "file"}
      THEN d2.slot \in Slots /\ conn'[d2.slot].h = h ELSE d2.slot = None
  BY <1>1
<1>5. /\ IInv /\ h \in Hosts /\ d2 \in Servers /\ dmn' = [dmn EXCEPT ![h] = d2]
      /\ UNCHANGED controllerVars
      /\ jobs' \in [Hosts -> SUBSET Files] /\ disk' \in [Hosts -> SUBSET Files]
      /\ \A j \in Slots : Carried(h, d2, j)
  BY <1>2, <1>3
<1>6. QED
  BY ONLY <1>1, <1>4, <1>5, DaemonKeeps

LEMMA ReadHeaderKeeps ==
  ASSUME IInv, NEW h \in Hosts, NEW i \in Slots, ReadHeader(h, i),
         UNCHANGED controllerVars
  PROVE  IInv'
<1>1. PICK cn, x, hdr, d2, q, st :
        /\ cn = conn[i] /\ x = [cn EXCEPT !.req = Tail(@)] /\ hdr = Head(cn.req)
        /\ d2 = [Down EXCEPT !.pc = "body", !.slot = i, !.type = hdr.type, !.id = hdr.id]
        /\ q = Asker(cn) /\ st = Stored(cn)
  OBVIOUS
<1>2. /\ dmn[h].pc = "select" /\ cn.h = h /\ cn.srv = "listed" /\ cn.req # <<>>
      /\ HasBody(hdr.type) /\ dmn' = [dmn EXCEPT ![h] = d2]
      /\ conn' = [conn EXCEPT ![i] = x] /\ jobs' = jobs /\ disk' = disk
  BY <1>1 DEF ReadHeader, Listed
<1>3. /\ cn \in Conns /\ dmn[h].slot = None /\ Server(cn, i) = Select
      /\ Talk(cn, q, Select, st)
  <2>1. cn \in Conns /\ dmn[h].slot = None
    BY <1>1, <1>2 DEF IInv, Typed, Links, Serves
  <2>2. Server(cn, i) = Select
    BY <2>1, <1>2, NoConnFields DEF Server
  <2>3. QED
    BY <1>1, <2>1, <2>2 DEF IInv, Talks
<1>4. /\ Len(cn.req) > 0 /\ hdr = cn.req[1] /\ hdr \in Parts
      /\ Tail(cn.req) \in Seq(Parts) /\ Dropped(cn.req, Tail(cn.req))
  <2>1. Len(cn.req) > 0
    BY <1>2, <1>3, ConnFields, EmptySeq
  <2>2. QED
    BY <1>1, <1>3, <2>1, ConnFields, TailSeq
<1>5. /\ x \in Conns /\ x.c = cn.c /\ x.h = cn.h /\ x.ctl = cn.ctl /\ x.srv = cn.srv
      /\ x.rep = cn.rep /\ Dropped(cn.req, x.req)
  <2>1. x = [cn EXCEPT !.req = Tail(cn.req)]
    BY <1>1, <1>3 DEF Conns
  <2>2. QED
    BY ONLY <1>3, <1>4, <2>1, ConnTypes, ZenonT(60) DEF Conns
<1>6. hdr.type \in Commands /\ hdr.id \in 1..MaxCmds
  <2>1. Whole(cn.req)
    BY <1>3, <1>4, Counts DEF Talk, Requests
  <2>2. QED
    BY <1>4, <2>1 DEF Whole, Parts
<1>7. /\ d2 \in Servers /\ d2.pc = "body" /\ d2.slot = i /\ d2.type = hdr.type
      /\ d2.id = hdr.id /\ d2.id >= 1
  <2>1. hdr.id \in 0..MaxCmds /\ hdr.id >= 1 /\ 0 \in 0..Chunks
    BY <1>6, Counts
  <2>2. QED
    BY <1>1, <1>6, <2>1 DEF Down, Servers
<1>8. Talk(x, q, d2, st)
  <2>1. Select \in Servers /\ Select.pc = "select"
    BY IdleFields
  <2>2. HasBody(cn.req[1].type) /\ d2.type = cn.req[1].type /\ d2.id = cn.req[1].id
    BY <1>2, <1>4, <1>7
  <2>3. QED
    BY <1>2, <1>3, <1>4, <1>5, <1>7, <2>1, <2>2, HeaderRead
<1>9. Talk(x, Asker(conn[i]), IF d2.slot = i THEN d2 ELSE Select, Stored(conn[i]))
  BY <1>1, <1>7, <1>8
<1>10. /\ conn[i].h = h /\ x.c = conn[i].c /\ x.h = h /\ x.ctl = conn[i].ctl
       /\ x.srv # "closed" => conn[i].srv # "closed"
  BY <1>1, <1>2, <1>5
<1>11. /\ jobs' \in [Hosts -> SUBSET Files] /\ disk' \in [Hosts -> SUBSET Files]
       /\ IF d2.pc \in {"body", "file"} THEN d2.slot = i ELSE d2.slot = None
       /\ dmn[h].slot \in {i, None}
  BY <1>2, <1>3, <1>7 DEF IInv, Typed
<1>12. QED
  BY <1>2, <1>5, <1>7, <1>9, <1>10, <1>11, DaemonKeepsOne

(* The connection once the message body has been read.                     *)
LEMMA RestOf ==
  ASSUME IInv, NEW h \in Hosts, dmn[h].pc = "body", conn[dmn[h].slot].req # <<>>
  PROVE  LET i == dmn[h].slot  cn == conn[i]  x == Rest(i)
         IN /\ Len(cn.req) = 1 /\ Body(i).exp \in Exps
            /\ x \in Conns /\ x.c = cn.c /\ x.h = cn.h /\ x.ctl = cn.ctl
            /\ x.srv = cn.srv /\ x.rep = cn.rep /\ Len(x.req) = 0
<1>1. PICK i, cn : i = dmn[h].slot /\ cn = conn[i]
  OBVIOUS
<1>2. i \in Slots /\ cn \in Conns /\ Requests(cn, dmn[h])
  BY <1>1, Served DEF Talk
<1>3. Half(cn.req)
  BY <1>1, <1>2, ConnFields, EmptySeq DEF Requests
<1>4. Len(cn.req) = 1 /\ cn.req[1].exp \in Exps
  BY <1>3 DEF Half
<1>5. /\ Tail(cn.req) \in Seq(Parts) /\ Dropped(cn.req, Tail(cn.req))
      /\ Head(cn.req) = cn.req[1]
  BY <1>2, <1>4, ConnFields, TailSeq
<1>6. Len(Tail(cn.req)) = 0
  BY <1>4, <1>5 DEF Dropped
<1>7. Rest(i) = [cn EXCEPT !.req = Tail(cn.req)]
  BY <1>1, <1>2 DEF Rest, Conns
<1>8. PICK t : t = Tail(cn.req)
  OBVIOUS
<1>9. Rest(i) = [cn EXCEPT !.req = t] /\ t \in Seq(Parts) /\ Len(t) = 0
  BY <1>5, <1>6, <1>7, <1>8
<1>10. LET x == [cn EXCEPT !.req = t]
       IN /\ x \in Conns /\ x.c = cn.c /\ x.h = cn.h /\ x.ctl = cn.ctl
          /\ x.srv = cn.srv /\ x.rep = cn.rep /\ x.req = t
  BY <1>2, <1>9, ConnTypes DEF Conns
<1>11. QED
  BY <1>1, <1>4, <1>5, <1>9, <1>10 DEF Body

(* A part sent to the controller.                                          *)
LEMMA Sent ==
  ASSUME NEW cn \in Conns, NEW r \in Parts
  PROVE  LET x == ToController(cn, <<r>>)
         IN /\ x \in Conns /\ x.c = cn.c /\ x.h = cn.h /\ x.ctl = cn.ctl
            /\ x.srv = cn.srv /\ x.req = cn.req
            /\ cn.ctl => Added(cn.rep, r, x.rep)
            /\ ~cn.ctl => x.rep = cn.rep
<1>1. cn.rep \in Seq(Parts)
  BY ConnFields
<1>2. PICK t : t = cn.rep \o <<r>>
  OBVIOUS
<1>3. t \in Seq(Parts) /\ Added(cn.rep, r, t)
  BY <1>1, <1>2, AddSeq
<1>4. LET x == [cn EXCEPT !.rep = t]
      IN /\ x \in Conns /\ x.c = cn.c /\ x.h = cn.h /\ x.ctl = cn.ctl
         /\ x.srv = cn.srv /\ x.req = cn.req /\ x.rep = t
  BY <1>3, ConnTypes DEF Conns
<1>5. CASE cn.ctl
  <2>1. ToController(cn, <<r>>) = [cn EXCEPT !.rep = t]
    BY <1>2, <1>5 DEF ToController, Conns
  <2>2. QED
    BY <1>3, <1>4, <1>5, <2>1
<1>6. CASE ~cn.ctl
  BY <1>6 DEF ToController
<1>7. QED
  BY <1>5, <1>6

LEMMA AnswerKeeps ==
  ASSUME IInv, NEW h \in Hosts, dmn[h].pc = "body", conn[dmn[h].slot].req # <<>>,
         Answer(h, dmn[h].slot, Rest(dmn[h].slot), dmn[h].id),
         jobs' \in [Hosts -> SUBSET Files], disk' \in [Hosts -> SUBSET Files],
         UNCHANGED controllerVars
  PROVE  IInv'
<1>1. PICK i, cn, cn2, d, q, st, r :
        /\ i = dmn[h].slot /\ cn = conn[i] /\ cn2 = Rest(i) /\ d = dmn[h]
        /\ q = Asker(cn) /\ st = Stored(cn) /\ r = Part("hdr", "RV", None, d.id)
  OBVIOUS
<1>2. /\ i \in Slots /\ cn \in Conns /\ cn.h = h /\ cn.srv = "listed" /\ d.id >= 1
      /\ d \in Servers /\ q \in Askers /\ Talk(cn, q, d, st)
  BY <1>1, Served
<1>3. /\ Len(cn.req) = 1 /\ cn2 \in Conns /\ cn2.c = cn.c /\ cn2.h = cn.h
      /\ cn2.ctl = cn.ctl /\ cn2.srv = cn.srv /\ cn2.rep = cn.rep /\ Len(cn2.req) = 0
  BY <1>1, RestOf
<1>4. dmn' = [dmn EXCEPT ![h] = Select]
  BY DEF Answer
<1>5. Select \in Servers /\ Select.pc = "select" /\ Select.slot = None /\ Select.slot # i
  BY <1>2, IdleFields, NoConnFields
<1>6. CASE conn' = [conn EXCEPT ![i] = ToController(cn2, <<r>>)]
  <2>1. r \in Parts /\ r.kind = "hdr" /\ r.type = "RV" /\ r.id = d.id
    <3>1. d.id \in 1..MaxCmds /\ "RV" \in Types
      BY <1>2, Counts DEF Types
    <3>2. QED
      BY <1>1, <3>1 DEF Part, Parts
  <2>2. PICK x : x = ToController(cn2, <<r>>)
    OBVIOUS
  <2>3. /\ x \in Conns /\ x.c = cn.c /\ x.h = cn.h /\ x.ctl = cn.ctl
        /\ x.srv = cn.srv /\ Len(x.req) = 0
        /\ cn.ctl => Added(cn.rep, r, x.rep)
        /\ ~cn.ctl => x.rep = cn.rep
    BY <1>3, <2>1, <2>2, Sent
  <2>4. d.pc = "body"
    BY <1>1
  <2>5. /\ r.type \in {"RV", "FILE"} /\ r.id = IF d.pc = "body" THEN d.id ELSE cn.req[1].id
        /\ r.type = "RV" => Select.pc = "select"
        /\ r.type = "FILE" => Select.pc = "file" /\ Select.left = Chunks
                                /\ Select.id = r.id /\ Select.id >= 1
    BY <1>5, <2>1, <2>4
  <2>6. Talk(x, q, Select, st)
    BY ONLY <1>2, <1>3, <1>5, <2>1, <2>3, <2>5, Replied
  <2>7. Talk(x, Asker(conn[i]), IF Select.slot = i THEN Select ELSE Select, Stored(conn[i]))
    BY <1>1, <2>6
  <2>8. /\ conn[i].h = h /\ x.c = conn[i].c /\ x.h = h /\ x.ctl = conn[i].ctl
        /\ x.srv # "closed" => conn[i].srv # "closed"
        /\ conn' = [conn EXCEPT ![i] = x] /\ dmn[h].slot \in {i, None}
        /\ IF Select.pc \in {"body", "file"} THEN Select.slot = i ELSE Select.slot = None
    BY <1>1, <1>2, <1>5, <1>6, <2>2, <2>3
  <2>9. QED
    BY <1>2, <1>4, <1>5, <2>3, <2>7, <2>8, DaemonKeepsOne
<1>7. CASE ~cn2.ctl /\ conn' = [conn EXCEPT ![i] = CloseDaemon(cn2)]
  <2>1. conn' = [conn EXCEPT ![i] = NoConn]
    BY <1>3, <1>7, Closing
  <2>2. NoConn \in Conns
    BY <1>2, ConnTypes
  <2>3. /\ conn' \in [Slots -> Conns] /\ conn'[i] = NoConn
        /\ \A j \in Slots : j # i => conn'[j] = conn[j] /\ j # None
    BY <1>2, <2>1, <2>2, NoConnFields DEF IInv, Typed
  <2>4. \A j \in Slots : Carried(h, Select, j)
    BY <1>1, <1>2, <1>3, <1>5, <1>7, <2>3 DEF Carried
  <2>5. IF Select.pc \in {"body", "file"}
        THEN Select.slot \in Slots /\ conn'[Select.slot].h = h ELSE Select.slot = None
    BY <1>5
  <2>6. QED
    BY <1>4, <1>5, <2>3, <2>4, <2>5, DaemonKeeps
<1>8. QED
  BY <1>1, <1>6, <1>7 DEF Answer

LEMMA RunScriptKeeps ==
  ASSUME IInv, NEW h \in Hosts, RunScript(h), UNCHANGED controllerVars
  PROVE  IInv'
<1>1. PICK i, f : i = dmn[h].slot /\ f = File(Body(i).exp, conn[i].c, dmn[h].id)
  OBVIOUS
<1>2. /\ dmn[h].pc = "body" /\ conn[dmn[h].slot].req # <<>>
      /\ jobs' = [jobs EXCEPT ![h] = @ \cup {f}] /\ disk' = disk
      /\ Answer(h, dmn[h].slot, Rest(dmn[h].slot), dmn[h].id)
  BY <1>1 DEF RunScript, HasRead
<1>3. f \in Files
  <2>1. Body(i).exp \in Exps
    BY <1>1, <1>2, RestOf
  <2>2. conn[i].c \in Controllers /\ dmn[h].id \in 1..MaxCmds
    BY <1>1, <1>2, Served, Counts
  <2>3. QED
    BY <1>1, <2>1, <2>2 DEF File, Files
<1>4. jobs' \in [Hosts -> SUBSET Files] /\ disk' \in [Hosts -> SUBSET Files]
  BY <1>2, <1>3 DEF IInv, Typed
<1>5. QED
  BY <1>2, <1>4, AnswerKeeps

LEMMA ChangeSettingKeeps ==
  ASSUME IInv, NEW h \in Hosts, ChangeSetting(h), UNCHANGED controllerVars
  PROVE  IInv'
<1>1. /\ dmn[h].pc = "body" /\ conn[dmn[h].slot].req # <<>>
      /\ Answer(h, dmn[h].slot, Rest(dmn[h].slot), dmn[h].id)
      /\ jobs' = jobs /\ disk' = disk
  BY DEF ChangeSetting, HasRead
<1>2. jobs' \in [Hosts -> SUBSET Files] /\ disk' \in [Hosts -> SUBSET Files]
  BY <1>1 DEF IInv, Typed
<1>3. QED
  BY <1>1, <1>2, AnswerKeeps

LEMMA SendMsgFileKeeps ==
  ASSUME IInv, NEW h \in Hosts, SendMsgFile(h), UNCHANGED controllerVars
  PROVE  IInv'
<1>1. PICK i, cn, cn2, d, q, st, exp, r, x, d2 :
        /\ i = dmn[h].slot /\ cn = conn[i] /\ cn2 = Rest(i) /\ d = dmn[h]
        /\ q = Asker(cn) /\ st = Stored(cn) /\ exp = Body(i).exp
        /\ r = Part("hdr", "FILE", exp, d.id) /\ x = ToController(cn2, <<r>>)
        /\ d2 = [d EXCEPT !.pc = "file", !.exp = exp, !.data = OfExp(h, exp),
                          !.left = Chunks]
  OBVIOUS
<1>2. /\ d.pc = "body" /\ cn.req # <<>> /\ conn' = [conn EXCEPT ![i] = x]
      /\ dmn' = [dmn EXCEPT ![h] = d2] /\ jobs' = jobs /\ disk' = disk
  BY <1>1 DEF SendMsgFile, HasRead, IInv, Typed
<1>3. /\ i \in Slots /\ cn \in Conns /\ cn.h = h /\ cn.srv = "listed" /\ d.id >= 1
      /\ d \in Servers /\ q \in Askers /\ Talk(cn, q, d, st)
  BY <1>1, <1>2, Served
<1>4. /\ Len(cn.req) = 1 /\ cn2 \in Conns /\ cn2.c = cn.c /\ cn2.h = cn.h /\ exp \in Exps
      /\ cn2.ctl = cn.ctl /\ cn2.srv = cn.srv /\ cn2.rep = cn.rep /\ Len(cn2.req) = 0
  BY <1>1, <1>2, RestOf
<1>5. r \in Parts /\ r.kind = "hdr" /\ r.type = "FILE" /\ r.id = d.id
  <2>1. d.id \in 1..MaxCmds /\ "FILE" \in Types
    BY <1>3, Counts DEF Types
  <2>2. QED
    BY <1>1, <1>4, <2>1 DEF Part, Parts
<1>6. /\ x \in Conns /\ x.c = cn.c /\ x.h = cn.h /\ x.ctl = cn.ctl
      /\ x.srv = cn.srv /\ Len(x.req) = 0
      /\ cn.ctl => Added(cn.rep, r, x.rep)
      /\ ~cn.ctl => x.rep = cn.rep
  BY <1>1, <1>4, <1>5, Sent
<1>7. /\ d2 \in Servers /\ d2.pc = "file" /\ d2.slot = i /\ d2.left = Chunks
      /\ d2.id = d.id
  <2>1. OfExp(h, exp) \in SUBSET Files
    BY DEF OfExp, IInv, Typed
  <2>2. Chunks \in 0..Chunks
    BY Counts
  <2>3. d.slot = i
    BY <1>1
  <2>4. QED
    BY <1>1, <1>3, <1>4, <2>1, <2>2, <2>3 DEF Servers
<1>8. Talk(x, q, d2, st)
  <2>1. /\ r.type \in {"RV", "FILE"} /\ r.id = IF d.pc = "body" THEN d.id ELSE cn.req[1].id
        /\ r.type = "RV" => d2.pc = "select"
        /\ r.type = "FILE" => d2.pc = "file" /\ d2.left = Chunks /\ d2.id = r.id
                                /\ d2.id >= 1
    BY <1>2, <1>3, <1>5, <1>7
  <2>2. QED
    BY ONLY <1>3, <1>4, <1>5, <1>6, <1>7, <2>1, Replied
<1>9. /\ Talk(x, Asker(conn[i]), IF d2.slot = i THEN d2 ELSE Select, Stored(conn[i]))
      /\ conn[i].h = h /\ x.c = conn[i].c /\ x.h = h /\ x.ctl = conn[i].ctl
      /\ x.srv # "closed" => conn[i].srv # "closed"
      /\ dmn[h].slot \in {i, None}
      /\ IF d2.pc \in {"body", "file"} THEN d2.slot = i ELSE d2.slot = None
      /\ jobs' \in [Hosts -> SUBSET Files] /\ disk' \in [Hosts -> SUBSET Files]
  BY <1>1, <1>2, <1>3, <1>6, <1>7, <1>8 DEF IInv, Typed
<1>10. QED
  BY <1>2, <1>3, <1>6, <1>7, <1>9, DaemonKeepsOne

LEMMA SendChunkKeeps ==
  ASSUME IInv, NEW h \in Hosts, SendChunk(h), UNCHANGED controllerVars
  PROVE  IInv'
<1>1. PICK i, cn, d, q, st, r, x, d2 :
        /\ i = dmn[h].slot /\ cn = conn[i] /\ d = dmn[h]
        /\ q = Asker(cn) /\ st = Stored(cn)
        /\ r = [Part("chunk", "FILE", d.exp, d.id) EXCEPT !.data = d.data]
        /\ x = ToController(cn, <<r>>) /\ d2 = [d EXCEPT !.left = @ - 1]
  OBVIOUS
<1>2. /\ d.pc = "file" /\ d.left > 0 /\ Len(cn.rep) < Window
      /\ conn' = [conn EXCEPT ![i] = x]
      /\ dmn' = [dmn EXCEPT ![h] = d2] /\ jobs' = jobs /\ disk' = disk
  BY <1>1 DEF SendChunk, IInv, Typed
<1>3. /\ i \in Slots /\ cn \in Conns /\ cn.h = h /\ cn.srv = "listed" /\ d.id >= 1
      /\ d \in Servers /\ q \in Askers /\ Talk(cn, q, d, st)
  BY <1>1, <1>2, Served
<1>4. r \in Parts /\ r.kind = "chunk" /\ r.id = d.id /\ r.data = d.data
  <2>1. d.id \in 1..MaxCmds /\ "FILE" \in Types
    BY <1>3, Counts DEF Types
  <2>2. d.exp \in Exps \cup {None} /\ d.data \in SUBSET Files
    BY <1>3 DEF Servers
  <2>3. PICK p : p = Part("chunk", "FILE", d.exp, d.id)
    OBVIOUS
  <2>4. p \in Parts /\ p.kind = "chunk" /\ p.id = d.id
    BY <2>1, <2>2, <2>3 DEF Part, Parts
  <2>5. r = [p EXCEPT !.data = d.data]
    BY <1>1, <2>3
  <2>6. QED
    BY <2>2, <2>4, <2>5 DEF Parts
<1>5. /\ x \in Conns /\ x.c = cn.c /\ x.h = cn.h /\ x.ctl = cn.ctl
      /\ x.srv = cn.srv /\ x.req = cn.req
      /\ cn.ctl => Added(cn.rep, r, x.rep)
      /\ ~cn.ctl => x.rep = cn.rep
  BY <1>1, <1>3, <1>4, Sent
<1>6. /\ d2 \in Servers /\ d2.pc = "file" /\ d2.slot = i /\ d2.left = d.left - 1
      /\ d2.id = d.id /\ d2.data = d.data
  <2>1. d.left \in 0..Chunks
    BY <1>3 DEF Servers
  <2>2. d.left - 1 \in 0..Chunks
    BY <1>2, <2>1, Counts
  <2>3. d.slot = i
    BY <1>1
  <2>4. QED
    BY <1>1, <1>2, <1>3, <2>2, <2>3 DEF Servers
<1>7. Talk(x, q, d2, st)
  BY ONLY <1>2, <1>3, <1>4, <1>5, <1>6, ChunkSent
<1>8. /\ Talk(x, Asker(conn[i]), IF d2.slot = i THEN d2 ELSE Select, Stored(conn[i]))
      /\ conn[i].h = h /\ x.c = conn[i].c /\ x.h = h /\ x.ctl = conn[i].ctl
      /\ x.srv # "closed" => conn[i].srv # "closed"
      /\ dmn[h].slot \in {i, None}
      /\ IF d2.pc \in {"body", "file"} THEN d2.slot = i ELSE d2.slot = None
      /\ jobs' \in [Hosts -> SUBSET Files] /\ disk' \in [Hosts -> SUBSET Files]
  BY <1>1, <1>2, <1>3, <1>5, <1>6, <1>7 DEF IInv, Typed
<1>9. QED
  BY <1>2, <1>3, <1>5, <1>6, <1>8, DaemonKeepsOne

(* The daemon goes back to select() without a word.                        *)
LEMMA BackToSelect ==
  ASSUME IInv, NEW h \in Hosts, dmn[h].pc = "file",
         conn' = conn, dmn' = [dmn EXCEPT ![h] = Select], UNCHANGED controllerVars,
         jobs' \in [Hosts -> SUBSET Files], disk' \in [Hosts -> SUBSET Files],
         ~conn[dmn[h].slot].ctl \/ dmn[h].left = 0
  PROVE  IInv'
<1>1. PICK i, cn, d, q, st : /\ i = dmn[h].slot /\ cn = conn[i] /\ d = dmn[h]
                             /\ q = Asker(cn) /\ st = Stored(cn)
  OBVIOUS
<1>2. /\ i \in Slots /\ cn \in Conns /\ cn.h = h /\ d.pc = "file" /\ Talk(cn, q, d, st)
      /\ ~cn.ctl \/ d.left = 0
  BY <1>1, Served
<1>3. Talk(cn, q, Select, st)
  <2>1. d.pc # "body"
    BY <1>2
  <2>2. CASE ~cn.ctl
    BY ONLY <1>2, <2>1, <2>2, FileDropped
  <2>3. CASE d.left = 0
    BY ONLY <1>2, <2>3, DataRemoved
  <2>4. QED
    BY <1>2, <2>2, <2>3
<1>4. Select \in Servers /\ Select.pc = "select" /\ Select.slot = None
  BY IdleFields
<1>5. /\ conn' = [conn EXCEPT ![i] = cn] /\ dmn[h].slot \in {i, None}
      /\ conn[i].h = h /\ cn.c = conn[i].c /\ cn.h = h /\ cn.ctl = conn[i].ctl
      /\ cn.srv # "closed" => conn[i].srv # "closed"
      /\ IF Select.pc \in {"body", "file"} THEN Select.slot = i ELSE Select.slot = None
      /\ Talk(cn, Asker(conn[i]), IF Select.slot = i THEN Select ELSE Select, Stored(conn[i]))
  BY <1>1, <1>2, <1>3, <1>4 DEF IInv, Typed
<1>6. QED
  BY <1>2, <1>4, <1>5, DaemonKeepsOne

LEMMA SendFileFailsKeeps ==
  ASSUME IInv, NEW h \in Hosts, SendFileFails(h), UNCHANGED controllerVars
  PROVE  IInv'
<1>1. /\ dmn[h].pc = "file" /\ conn' = conn /\ dmn' = [dmn EXCEPT ![h] = Select]
      /\ ~conn[dmn[h].slot].ctl
      /\ jobs' \in [Hosts -> SUBSET Files] /\ disk' \in [Hosts -> SUBSET Files]
  BY DEF SendFileFails, IInv, Typed
<1>2. QED
  BY <1>1, BackToSelect

LEMMA RemoveDataKeeps ==
  ASSUME IInv, NEW h \in Hosts, RemoveData(h), UNCHANGED controllerVars
  PROVE  IInv'
<1>1. /\ dmn[h].pc = "file" /\ conn' = conn /\ dmn' = [dmn EXCEPT ![h] = Select]
      /\ dmn[h].left = 0
      /\ jobs' \in [Hosts -> SUBSET Files] /\ disk' \in [Hosts -> SUBSET Files]
  BY DEF RemoveData, IInv, Typed
<1>2. QED
  BY <1>1, BackToSelect

(* The daemon closes connection j; unread, its replies may be lost.        *)
LEMMA ClosingCarries ==
  ASSUME IInv, NEW h \in Hosts, NEW d2, NEW j \in Slots, conn[j].h = h, d2.slot # j,
         \/ conn'[j] = CloseDaemon(conn[j])
         \/ /\ conn[j].ctl /\ conn[j].req # <<>>
            /\ conn'[j] = [CloseDaemon(conn[j]) EXCEPT !.rep = <<>>]
  PROVE  Carried(h, d2, j)
<1>1. PICK cn, x, q, d, st : /\ cn = conn[j] /\ x = conn'[j] /\ q = Asker(cn)
                             /\ d = Server(cn, j) /\ st = Stored(cn)
  OBVIOUS
<1>2. cn \in Conns /\ d \in Servers /\ Talk(cn, q, d, st)
  BY <1>1, IdleFields DEF IInv, Typed, Talks, Server
<1>3. CASE ~cn.ctl
  BY <1>1, <1>2, <1>3, Closing DEF Carried
<1>4. CASE cn.ctl
  <2>1. q \in Askers
    <3>1. cn.c \in Controllers
      BY <1>1, <1>4 DEF IInv, Links, LinksIn
    <3>2. QED
      BY <1>1, <3>1, IdleFields DEF Asker, IInv, Typed
  <2>2. PICK y : y = CloseDaemon(cn)
    OBVIOUS
  <2>3. /\ y \in Conns /\ y.c = cn.c /\ y.h = cn.h /\ y.ctl /\ y.srv = "closed"
        /\ Len(y.req) = 0 /\ y.rep = cn.rep
    BY <1>2, <1>4, <2>2, Closing, ConnTypes
  <2>4. /\ x \in Conns /\ x.c = cn.c /\ x.h = cn.h /\ x.ctl = cn.ctl
        /\ x.srv = "closed" /\ Len(x.req) = 0
        /\ x.rep = cn.rep \/ (Len(cn.req) > 0 /\ Len(x.rep) = 0)
    <3>1. CASE x = y
      BY <1>2, <1>4, <2>3, <3>1 DEF Conns
    <3>2. CASE cn.req # <<>> /\ x = [y EXCEPT !.rep = <<>>]
      <4>1. Len(cn.req) > 0
        BY <1>2, <3>2, ConnFields, EmptySeq
      <4>2. <<>> \in Seq(Parts) /\ Len(<<>>) = 0
        OBVIOUS
      <4>3. PICK e : e = <<>>
        OBVIOUS
      <4>4. e \in Seq(Parts) /\ Len(e) = 0 /\ x = [y EXCEPT !.rep = e]
        BY <3>2, <4>2, <4>3
      <4>5. /\ x \in Conns /\ x.c = y.c /\ x.h = y.h /\ x.ctl = y.ctl /\ x.srv = y.srv
            /\ x.req = y.req /\ x.rep = e
        BY <2>3, <4>4, ConnTypes DEF Conns
      <4>6. cn.ctl = TRUE /\ y.ctl = TRUE
        BY <1>2, <1>4, <2>3 DEF Conns
      <4>7. QED
        BY <2>3, <4>1, <4>4, <4>5, <4>6
    <3>3. QED
      BY <1>1, <2>2, <3>1, <3>2
  <2>5. Talk(x, q, Select, st)
    BY ONLY <1>2, <2>1, <2>4, DaemonCloses
  <2>6. QED
    BY <1>1, <2>4, <2>5 DEF Carried
<1>5. QED
  BY <1>3, <1>4

(* closeAServerSocket().                                                   *)
LEMMA CloseAServerSocketKeeps ==
  ASSUME IInv, NEW h \in Hosts, NEW i \in Slots, CloseAServerSocket(h, i),
         conn[i].h = h, dmn[h].slot \in {i, None}, UNCHANGED controllerVars
  PROVE  IInv'
<1>1. /\ conn' = [conn EXCEPT ![i] = CloseDaemon(conn[i])]
      /\ dmn' = [dmn EXCEPT ![h] = Select]
      /\ jobs' \in [Hosts -> SUBSET Files] /\ disk' \in [Hosts -> SUBSET Files]
  BY DEF CloseAServerSocket, IInv, Typed
<1>2. Select \in Servers /\ Select.pc = "select" /\ Select.slot = None
  BY IdleFields
<1>3. PICK y : y = CloseDaemon(conn[i])
  OBVIOUS
<1>4. y \in Conns
  BY <1>3, ConnTypes DEF IInv, Typed
<1>5. /\ conn' \in [Slots -> Conns] /\ conn'[i] = y
      /\ \A j \in Slots : j # i => conn'[j] = conn[j] /\ j # None
  BY <1>1, <1>3, <1>4, NoConnFields DEF IInv, Typed
<1>6. Carried(h, Select, i)
  BY <1>2, <1>3, <1>5, ClosingCarries, NoConnFields
<1>7. \A j \in Slots : Carried(h, Select, j)
  BY <1>2, <1>5, <1>6 DEF Carried
<1>8. IF Select.pc \in {"body", "file"}
      THEN Select.slot \in Slots /\ conn'[Select.slot].h = h ELSE Select.slot = None
  BY <1>2
<1>9. QED
  BY <1>1, <1>2, <1>5, <1>7, <1>8, DaemonKeeps

LEMMA ReadFailsKeeps ==
  ASSUME IInv, NEW h \in Hosts, NEW i \in Slots, ReadFails(h, i), UNCHANGED controllerVars
  PROVE  IInv'
<1>1. CloseAServerSocket(h, i)
  BY DEF ReadFails
<1>2. conn[i].h = h /\ dmn[h].slot \in {i, None}
  <2>1. CASE dmn[h].pc = "select" /\ Listed(h, i)
    BY <2>1 DEF Listed, IInv, Links, Serves
  <2>2. CASE dmn[h].pc = "body" /\ dmn[h].slot = i
    BY <2>2, Unserved
  <2>3. QED
    BY <2>1, <2>2 DEF ReadFails
<1>3. QED
  BY <1>1, <1>2, CloseAServerSocketKeeps

LEMMA MsgCloseKeeps ==
  ASSUME IInv, NEW h \in Hosts, NEW i \in Slots, MsgClose(h, i), UNCHANGED controllerVars
  PROVE  IInv'
<1>1. CloseAServerSocket(h, i) /\ conn[i].h = h /\ dmn[h].slot = None
  BY DEF MsgClose, Listed, IInv, Links, Serves
<1>2. QED
  BY <1>1, CloseAServerSocketKeeps

(* Its process ends.                                                       *)
LEMMA StopDaemonKeeps ==
  ASSUME IInv, NEW h \in Hosts, StopDaemon(h), UNCHANGED controllerVars
  PROVE  IInv'
<1>1. PICK cut \in SUBSET {j \in Slots : conn[j].h = h /\ conn[j].ctl /\ conn[j].req # <<>>} :
        conn' = [j \in Slots |->
          IF conn[j].h # h THEN conn[j]
          ELSE IF j \in cut THEN [CloseDaemon(conn[j]) EXCEPT !.rep = <<>>]
          ELSE CloseDaemon(conn[j])]
  BY DEF StopDaemon, CloseAll
<1>2. /\ dmn' = [dmn EXCEPT ![h] = Down]
      /\ jobs' \in [Hosts -> SUBSET Files] /\ disk' \in [Hosts -> SUBSET Files]
  BY DEF StopDaemon, IInv, Typed
<1>3. Down \in Servers /\ Down.pc = "down" /\ Down.slot = None
  BY IdleFields
<1>4. ASSUME NEW j \in Slots PROVE conn'[j] \in Conns /\ Carried(h, Down, j)
  <2>1. conn[j] \in Conns /\ j # None
    BY NoConnFields DEF IInv, Typed
  <2>2. CASE conn[j].h # h
    <3>1. conn'[j] = conn[j]
      BY <1>1, <2>2
    <3>2. dmn[h].slot # j
      BY <2>2, Unserved
    <3>3. QED
      BY <1>3, <2>1, <3>1, <3>2 DEF Carried
  <2>3. CASE conn[j].h = h /\ j \notin cut
    <3>1. conn'[j] = CloseDaemon(conn[j])
      BY <1>1, <2>3
    <3>2. QED
      BY <1>3, <2>1, <2>3, <3>1, ConnTypes, ClosingCarries
  <2>4. CASE conn[j].h = h /\ j \in cut
    <3>1. /\ conn'[j] = [CloseDaemon(conn[j]) EXCEPT !.rep = <<>>]
          /\ conn[j].ctl /\ conn[j].req # <<>>
      BY <1>1, <2>4
    <3>2. PICK y : y = CloseDaemon(conn[j])
      OBVIOUS
    <3>3. y \in Conns /\ <<>> \in Seq(Parts)
      BY <2>1, <3>2, ConnTypes
    <3>4. [y EXCEPT !.rep = <<>>] \in Conns
      BY <3>3, ConnTypes
    <3>5. QED
      BY <1>3, <2>1, <2>4, <3>1, <3>2, <3>4, ClosingCarries
  <2>5. QED
    BY <2>2, <2>3, <2>4
<1>5. conn' \in [Slots -> Conns]
  <2>1. conn' = [j \in Slots |-> conn'[j]]
    BY <1>1
  <2>2. QED
    BY <1>4, <2>1
<1>6. IF Down.pc \in {"body", "file"}
      THEN Down.slot \in Slots /\ conn'[Down.slot].h = h ELSE Down.slot = None
  BY <1>3
<1>7. QED
  BY <1>2, <1>3, <1>4, <1>5, <1>6, DaemonKeeps

LEMMA StartDaemonKeeps ==
  ASSUME IInv, NEW h \in Hosts, StartDaemon(h), UNCHANGED controllerVars
  PROVE  IInv'
<1>1. /\ conn' = conn /\ dmn' = [dmn EXCEPT ![h] = Select] /\ dmn[h].slot = None
      /\ jobs' \in [Hosts -> SUBSET Files] /\ disk' \in [Hosts -> SUBSET Files]
      /\ conn' \in [Slots -> Conns]
  BY DEF StartDaemon, IInv, Typed, Links, Serves
<1>2. Select \in Servers /\ Select.pc = "select" /\ Select.slot = None
  BY IdleFields
<1>3. \A j \in Slots : Carried(h, Select, j)
  BY <1>1, <1>2, NoConnFields DEF Carried
<1>4. IF Select.pc \in {"body", "file"}
      THEN Select.slot \in Slots /\ conn'[Select.slot].h = h ELSE Select.slot = None
  BY <1>2
<1>5. QED
  BY <1>1, <1>2, <1>3, <1>4, DaemonKeeps

LEMMA AcceptKeeps ==
  ASSUME IInv, NEW h \in Hosts, NEW i \in Slots, Accept(h, i), UNCHANGED controllerVars
  PROVE  IInv'
<1>1. /\ dmn[h].pc = "select" /\ conn[i].h = h /\ conn[i].srv = "queued"
      /\ dmn' = dmn /\ jobs' = jobs /\ disk' = disk
      /\ conn' = [j \in Slots |->
           IF j = i
           THEN [conn[i] EXCEPT !.srv = IF conn[i].c \in Allowed THEN "listed" ELSE "ignored"]
           ELSE IF conn[j].h = h /\ conn[j].srv = "ignored"
                THEN CloseDaemon(conn[j]) ELSE conn[j]]
  BY DEF Accept, daemonVars
<1>2. PICK d2 : d2 = dmn[h]
  OBVIOUS
<1>3. d2 \in Servers /\ d2.pc = "select" /\ d2.slot = None /\ dmn' = [dmn EXCEPT ![h] = d2]
  BY <1>1, <1>2 DEF IInv, Typed, Links, Serves
<1>4. ASSUME NEW j \in Slots PROVE conn'[j] \in Conns /\ Carried(h, d2, j)
  <2>1. conn[j] \in Conns /\ j # None
    BY NoConnFields DEF IInv, Typed
  <2>2. CASE j = i
    <3>1. PICK cn, x, q, d, st : /\ cn = conn[j] /\ x = conn'[j] /\ q = Asker(cn)
                                 /\ d = Server(cn, j) /\ st = Stored(cn)
      OBVIOUS
    <3>2. PICK srv \in {"listed", "ignored"} : x = [cn EXCEPT !.srv = srv]
      BY <1>1, <2>2, <3>1
    <3>3. /\ x \in Conns /\ x.c = cn.c /\ x.h = cn.h /\ x.ctl = cn.ctl /\ x.req = cn.req
          /\ x.rep = cn.rep /\ x.srv \in {"listed", "ignored"}
      BY <2>1, <3>1, <3>2 DEF Conns
    <3>4. /\ cn \in Conns /\ cn.srv = "queued" /\ cn.h = h /\ Talk(cn, q, d, st)
          /\ d = Select
      BY <1>1, <1>2, <1>3, <2>1, <2>2, <3>1 DEF IInv, Talks, Server
    <3>5. Talk(x, q, Select, st)
      BY <3>3, <3>4, Accepted
    <3>6. QED
      BY <1>3, <2>1, <3>1, <3>3, <3>4, <3>5 DEF Carried
  <2>3. CASE j # i /\ conn[j].h = h /\ conn[j].srv = "ignored"
    <3>1. conn'[j] = CloseDaemon(conn[j])
      BY <1>1, <2>3
    <3>2. QED
      BY <1>3, <2>1, <2>3, <3>1, ConnTypes, ClosingCarries
  <2>4. CASE j # i /\ ~(conn[j].h = h /\ conn[j].srv = "ignored")
    <3>1. conn'[j] = conn[j]
      BY <1>1, <2>4
    <3>2. QED
      BY <1>2, <1>3, <2>1, <3>1 DEF Carried
  <2>5. QED
    BY <2>2, <2>3, <2>4
<1>5. conn' \in [Slots -> Conns]
  <2>1. conn' = [j \in Slots |-> conn'[j]]
    BY <1>1
  <2>2. QED
    BY <1>4, <2>1
<1>6. /\ IF d2.pc \in {"body", "file"}
         THEN d2.slot \in Slots /\ conn'[d2.slot].h = h ELSE d2.slot = None
      /\ jobs' \in [Hosts -> SUBSET Files] /\ disk' \in [Hosts -> SUBSET Files]
  BY <1>1, <1>3 DEF IInv, Typed
<1>7. QED
  BY <1>3, <1>4, <1>5, <1>6, DaemonKeeps

(* A script leaves its results.                                            *)
LEMMA ScriptWritesKeeps ==
  ASSUME IInv, NEW h \in Hosts, NEW x, ScriptWrites(h, x), UNCHANGED controllerVars
  PROVE  IInv'
<1>1. /\ conn' = conn /\ dmn' = dmn /\ ctl' = ctl /\ hostDict' = hostDict
      /\ getData' = getData /\ got' = got
      /\ jobs' \in [Hosts -> SUBSET Files] /\ disk' \in [Hosts -> SUBSET Files]
  BY DEF ScriptWrites, controllerVars, IInv, Typed
<1>2. Typed'
  BY <1>1 DEF IInv, Typed
<1>3. Links'
  BY <1>1 DEF IInv, Links, LinksOut, LinksIn, Ends, Waits, Serves
<1>4. Talks'
  <2>1. ASSUME NEW j \in Slots
        PROVE  Talk(conn'[j], Asker(conn[j])', Server(conn[j], j)', Stored(conn[j])')
    <3>1. /\ Asker(conn[j])' = Asker(conn[j]) /\ Server(conn[j], j)' = Server(conn[j], j)
          /\ Stored(conn[j])' = Stored(conn[j]) /\ conn'[j] = conn[j]
      BY <1>1 DEF Asker, Server, Stored
    <3>2. QED
      BY <3>1 DEF IInv, Talks
  <2>2. QED
    BY <2>1 DEF Talks
<1>5. QED
  BY <1>2, <1>3, <1>4 DEF IInv

(* EXIT: the answer, and then the end of the process.                      *)
LEMMA ExitAnswered ==
  ASSUME IInv, NEW h \in Hosts, NEW i \in Slots, dmn[h].pc = "select", Listed(h, i),
         conn[i].req # <<>>, Head(conn[i].req).type = "EXIT"
  PROVE  LET cn == conn[i]
             x == ToController([cn EXCEPT !.req = Tail(@)],
                               <<Part("hdr", "RV", None, Head(cn.req).id)>>)
         IN /\ x \in Conns /\ x.c = cn.c /\ x.h = cn.h /\ x.ctl = cn.ctl
            /\ x.srv = cn.srv /\ Len(x.req) = 0
            /\ Talk(x, Asker(cn), Select, Stored(cn))
<1>1. PICK cn, hdr, t, q, st, r :
        /\ cn = conn[i] /\ hdr = Head(cn.req) /\ t = Tail(cn.req)
        /\ q = Asker(cn) /\ st = Stored(cn) /\ r = Part("hdr", "RV", None, hdr.id)
  OBVIOUS
<1>2. /\ cn \in Conns /\ cn.h = h /\ cn.srv = "listed" /\ dmn[h].slot = None
      /\ Server(cn, i) = Select /\ Talk(cn, q, Select, st)
  <2>1. cn \in Conns /\ cn.h = h /\ cn.srv = "listed" /\ dmn[h].slot = None
    BY <1>1 DEF Listed, IInv, Typed, Links, Serves
  <2>2. Server(cn, i) = Select
    BY <2>1, NoConnFields DEF Server
  <2>3. QED
    BY <1>1, <2>1, <2>2 DEF IInv, Talks
<1>3. q \in Askers
  <2>1. cn.c \in Controllers
    BY <1>1, <1>2 DEF IInv, Links, Ends
  <2>2. QED
    BY <1>1, <2>1, IdleFields DEF Asker, IInv, Typed
<1>4. /\ Len(cn.req) > 0 /\ hdr = cn.req[1] /\ hdr \in Parts /\ hdr.type = "EXIT"
      /\ t \in Seq(Parts) /\ Dropped(cn.req, t)
  <2>1. Len(cn.req) > 0
    BY <1>1, <1>2, ConnFields, EmptySeq
  <2>2. QED
    BY <1>1, <1>2, <2>1, ConnFields, TailSeq
<1>5. Select \in Servers /\ Select.pc = "select"
  BY IdleFields
<1>6. Whole(cn.req)
  BY <1>2, <1>4, <1>5, Counts, ConnFields DEF Talk, Requests
<1>7. Len(cn.req) = 1 /\ Len(t) = 0
  <2>1. Len(cn.req) = 1
    BY <1>4, <1>6 DEF Whole, HasBody
  <2>2. QED
    BY <1>4, <2>1 DEF Dropped
<1>8. r \in Parts /\ r.kind = "hdr" /\ r.type = "RV" /\ r.id = hdr.id
  <2>1. hdr.id \in 1..MaxCmds /\ "RV" \in Types
    BY <1>4 DEF Parts, Types
  <2>2. QED
    BY <1>1, <2>1 DEF Part, Parts
<1>9. PICK y : y = [cn EXCEPT !.req = t]
  OBVIOUS
<1>10. /\ y \in Conns /\ y.c = cn.c /\ y.h = cn.h /\ y.ctl = cn.ctl /\ y.srv = cn.srv
       /\ y.rep = cn.rep /\ y.req = t
  <2>1. t \in Seq(Parts)
    BY <1>4
  <2>2. [cn EXCEPT !.req = t] \in Conns
    BY <1>2, <2>1, ConnTypes
  <2>3. QED
    BY ONLY <1>2, <1>9, <2>2 DEF Conns
<1>11. PICK x : x = ToController(y, <<r>>)
  OBVIOUS
<1>12. /\ x \in Conns /\ x.c = cn.c /\ x.h = cn.h /\ x.ctl = cn.ctl
       /\ x.srv = cn.srv /\ x.req = t
       /\ cn.ctl => Added(cn.rep, r, x.rep)
       /\ ~cn.ctl => x.rep = cn.rep
  BY <1>8, <1>10, <1>11, Sent
<1>13. /\ Len(x.req) = 0
       /\ r.type \in {"RV", "FILE"}
       /\ r.id = IF Select.pc = "body" THEN Select.id ELSE cn.req[1].id
       /\ r.type = "RV" => Select.pc = "select"
       /\ r.type = "FILE" => Select.pc = "file" /\ Select.left = Chunks
                               /\ Select.id = r.id /\ Select.id >= 1
  BY <1>4, <1>5, <1>7, <1>8, <1>12
<1>14. Talk(x, q, Select, st)
  BY ONLY <1>2, <1>3, <1>5, <1>7, <1>8, <1>12, <1>13, Replied
<1>15. ToController([cn EXCEPT !.req = Tail(@)],
                    <<Part("hdr", "RV", None, Head(cn.req).id)>>) = x
  <2>1. [cn EXCEPT !.req = Tail(@)] = [cn EXCEPT !.req = Tail(cn.req)]
    BY <1>2 DEF Conns
  <2>2. QED
    BY <1>1, <1>9, <1>11, <2>1
<1>16. QED
  BY <1>1, <1>12, <1>13, <1>14, <1>15

LEMMA MsgExitKeeps ==
  ASSUME IInv, NEW h \in Hosts, NEW i \in Slots, MsgExit(h, i), UNCHANGED controllerVars
  PROVE  IInv'
<1>1. PICK x : x = ToController([conn[i] EXCEPT !.req = Tail(@)],
                      <<Part("hdr", "RV", None, Head(conn[i].req).id)>>)
  OBVIOUS
<1>2. /\ dmn[h].pc = "select" /\ conn[i].h = h /\ conn[i].srv = "listed"
      /\ dmn' = [dmn EXCEPT ![h] = Down] /\ dmn[h].slot = None
      /\ jobs' \in [Hosts -> SUBSET Files] /\ disk' \in [Hosts -> SUBSET Files]
  BY DEF MsgExit, Listed, IInv, Typed, Links, Serves
<1>3. /\ x \in Conns /\ x.c = conn[i].c /\ x.h = h /\ x.ctl = conn[i].ctl
      /\ x.srv = conn[i].srv /\ Len(x.req) = 0
      /\ Talk(x, Asker(conn[i]), Select, Stored(conn[i]))
  BY <1>1, <1>2, ExitAnswered DEF MsgExit
<1>4. PICK cs : cs = [conn EXCEPT ![i] = x]
  OBVIOUS
<1>5. cs[i] = x /\ \A j \in Slots : j # i => cs[j] = conn[j]
  BY <1>4 DEF IInv, Typed
<1>6. CloseAll(h, cs)
  BY <1>1, <1>4 DEF MsgExit
<1>7. PICK cut \in SUBSET {j \in Slots : cs[j].h = h /\ cs[j].ctl /\ cs[j].req # <<>>} :
        conn' = [j \in Slots |->
          IF cs[j].h # h THEN cs[j]
          ELSE IF j \in cut THEN [CloseDaemon(cs[j]) EXCEPT !.rep = <<>>]
          ELSE CloseDaemon(cs[j])]
  BY <1>6 DEF CloseAll
<1>8. Down \in Servers /\ Down.pc = "down" /\ Down.slot = None
  BY IdleFields
<1>9. ASSUME NEW j \in Slots, j # i PROVE conn'[j] \in Conns /\ Carried(h, Down, j)
  <2>1. conn[j] \in Conns /\ j # None /\ cs[j] = conn[j]
    BY <1>5, <1>9, NoConnFields DEF IInv, Typed
  <2>2. CASE conn[j].h # h
    <3>1. conn'[j] = conn[j]
      BY <1>7, <2>1, <2>2
    <3>2. QED
      BY <1>2, <1>8, <2>1, <3>1 DEF Carried
  <2>3. CASE conn[j].h = h /\ j \notin cut
    <3>1. conn'[j] = CloseDaemon(conn[j])
      BY <1>7, <2>1, <2>3
    <3>2. QED
      BY <1>8, <2>1, <2>3, <3>1, ConnTypes, ClosingCarries
  <2>4. CASE conn[j].h = h /\ j \in cut
    <3>1. /\ conn'[j] = [CloseDaemon(conn[j]) EXCEPT !.rep = <<>>]
          /\ conn[j].ctl /\ conn[j].req # <<>>
      BY <1>7, <2>1, <2>4
    <3>2. PICK y : y = CloseDaemon(conn[j])
      OBVIOUS
    <3>3. y \in Conns /\ <<>> \in Seq(Parts)
      BY <2>1, <3>2, ConnTypes
    <3>4. [y EXCEPT !.rep = <<>>] \in Conns
      BY <3>3, ConnTypes
    <3>5. QED
      BY <1>8, <2>1, <2>4, <3>1, <3>2, <3>4, ClosingCarries
  <2>5. QED
    BY <2>2, <2>3, <2>4
<1>10. conn'[i] = CloseDaemon(x)
  <2>1. i \notin cut
    <3>1. x.req = <<>>
      BY <1>3, ConnFields, EmptySeq
    <3>2. QED
      BY <1>5, <1>7, <3>1
  <2>2. QED
    BY <1>3, <1>5, <1>7, <2>1
<1>11. conn'[i] \in Conns /\ Carried(h, Down, i)
  <2>1. PICK y : y = CloseDaemon(x)
    OBVIOUS
  <2>2. y \in Conns /\ i # None /\ conn'[i] = y
    BY <1>3, <1>10, <2>1, ConnTypes, NoConnFields
  <2>3. CASE ~x.ctl
    <3>1. y = NoConn
      BY <1>3, <2>1, <2>3, Closing
    <3>2. QED
      BY <1>2, <1>3, <1>8, <2>2, <2>3, <3>1 DEF Carried
  <2>4. CASE x.ctl
    <3>1. /\ y.c = x.c /\ y.h = x.h /\ y.ctl = TRUE /\ y.srv = "closed"
          /\ Len(y.req) = 0 /\ y.rep = x.rep /\ x.ctl = TRUE
      BY <1>3, <2>1, <2>4, Closing, ConnTypes, ZenonT(60) DEF Conns
    <3>2. PICK q, st : q = Asker(conn[i]) /\ st = Stored(conn[i])
      OBVIOUS
    <3>3. q \in Askers
      <4>1. conn[i].c \in Controllers
        BY <1>2 DEF IInv, Links, Ends
      <4>2. QED
        BY <3>2, <4>1, IdleFields DEF Asker, IInv, Typed
    <3>4. x \in Conns /\ Select \in Servers /\ Talk(x, q, Select, st)
      BY <1>3, <3>2, IdleFields
    <3>5. /\ y \in Conns /\ y.c = x.c /\ y.h = x.h /\ y.ctl = x.ctl /\ y.srv = "closed"
          /\ Len(y.req) = 0 /\ y.rep = x.rep
      BY <2>2, <3>1
    <3>6. Talk(y, q, Select, st)
      BY ONLY <3>3, <3>4, <3>5, DaemonCloses
    <3>7. QED
      BY <1>2, <1>3, <1>8, <2>2, <3>1, <3>2, <3>6 DEF Carried
  <2>5. QED
    BY <2>3, <2>4
<1>12. conn' \in [Slots -> Conns]
  <2>1. conn' = [j \in Slots |-> conn'[j]]
    BY <1>7
  <2>2. QED
    BY <1>9, <1>11, <2>1
<1>13. /\ \A j \in Slots : Carried(h, Down, j)
       /\ IF Down.pc \in {"body", "file"}
          THEN Down.slot \in Slots /\ conn'[Down.slot].h = h ELSE Down.slot = None
  BY <1>8, <1>9, <1>11
<1>14. QED
  BY <1>2, <1>8, <1>12, <1>13, DaemonKeeps

-----------------------------------------------------------------------------
(* The invariant holds in the first state, and every step keeps it.        *)

LEMMA InitHolds == Init => IInv
<1> SUFFICES ASSUME Init PROVE IInv
  OBVIOUS
<1>1. /\ conn = [i \in Slots |-> NoConn]
      /\ dmn = [h \in Hosts |-> Select] /\ jobs = [h \in Hosts |-> {}]
      /\ disk = [h \in Hosts |-> {}] /\ ctl = [c \in Controllers |-> Idle]
      /\ hostDict = [c \in Controllers |-> [h \in Hosts |-> None]]
      /\ getData = [c \in Controllers |-> {}] /\ got = [c \in Controllers |-> {}]
  BY DEF Init, InitConn, InitDaemon, InitController
<1>2. NoConn \in Conns
  <2>1. <<>> \in Seq(Parts)
    OBVIOUS
  <2>2. QED
    BY <2>1 DEF NoConn, Conns
<1>3. Typed
  BY <1>1, <1>2, IdleFields DEF Typed
<1>4. Links
  BY <1>1, NoConnFields, IdleFields
     DEF Links, LinksOut, LinksIn, Ends, Waits, Serves
<1>5. Talks
  <2> SUFFICES ASSUME NEW i \in Slots
               PROVE  Talk(conn[i], Asker(conn[i]), Server(conn[i], i), Stored(conn[i]))
    BY DEF Talks
  <2>1. conn[i] = NoConn
    BY <1>1
  <2>2. Asker(conn[i]) = Idle /\ Server(conn[i], i) = Select
    BY <2>1, NoConnFields DEF Asker, Server
  <2>3. QED
    BY <2>1, <2>2, NoTalk
<1>6. QED
  BY <1>3, <1>4, <1>5 DEF IInv

LEMMA CommandKeeps ==
  ASSUME IInv, ~Bare, NEW c \in Controllers, NEW h \in Hosts, NEW e \in Exps, NEW L,
         Command(c, h, e, L), UNCHANGED daemonVars
  PROVE  IInv'
<1>1. CASE SkipGetData(c, h, e)
  BY <1>1, SkipGetDataKeeps
<1>2. CASE SendClose(c, h, L)
  BY <1>2, SendCloseKeeps
<1>3. ASSUME NEW com \in Commands, NoSocket(c, com, h, L) PROVE IInv'
  BY <1>3, NoSocketKeeps
<1>4. ASSUME NEW com \in Commands, SendFails(c, com, h) PROVE IInv'
  BY <1>4, DieKeeps DEF SendFails
<1>5. ASSUME NEW com \in Commands, NEW bare \in {FALSE, Bare},
             SendCmd(c, com, h, e, bare, L)
      PROVE  IInv'
  BY <1>5, SendCmdKeeps
<1>6. QED
  BY <1>1, <1>2, <1>3, <1>4, <1>5 DEF Command

LEMMA ReceiveKeeps ==
  ASSUME IInv, NEW c \in Controllers, Receive(c), UNCHANGED daemonVars
  PROVE  IInv'
BY ReceiveReplyKeeps, ReplyFailsKeeps, ReceiveChunkKeeps, FileFailsKeeps DEF Receive

LEMMA ServeKeeps ==
  ASSUME IInv, NEW h \in Hosts, Serve(h), UNCHANGED controllerVars
  PROVE  IInv'
BY RunScriptKeeps, ChangeSettingKeeps, SendMsgFileKeeps, SendChunkKeeps,
   SendFileFailsKeeps, RemoveDataKeeps DEF Serve

LEMMA ServeSocketKeeps ==
  ASSUME IInv, NEW h \in Hosts, NEW i \in Slots, ServeSocket(h, i),
         UNCHANGED controllerVars
  PROVE  IInv'
BY AcceptKeeps, ReadHeaderKeeps, ReadFailsKeeps, MsgCloseKeeps, MsgExitKeeps
   DEF ServeSocket

LEMMA StepKeeps ==
  ASSUME IInv, ~Bare, [Next]_vars
  PROVE  IInv'
<1>1. ASSUME NEW c \in Controllers, NEW h \in Hosts, NEW e \in Exps,
             ControllerStep(c, Command(c, h, e, Listening))
      PROVE  IInv'
  BY <1>1, CommandKeeps DEF ControllerStep
<1>2. ASSUME NEW c \in Controllers, ReceiveStep(c) PROVE IInv'
  BY <1>2, ReceiveKeeps DEF ReceiveStep, ControllerStep
<1>3. ASSUME NEW c \in Controllers, ControllerStep(c, StopController(c)) PROVE IInv'
  BY <1>3, DieKeeps DEF ControllerStep, StopController
<1>4. ASSUME NEW c \in Controllers, ControllerStep(c, StartController(c)) PROVE IInv'
  BY <1>4, StartControllerKeeps DEF ControllerStep
<1>5. ASSUME NEW h \in Hosts, ServeStep(h) PROVE IInv'
  BY <1>5, ServeKeeps DEF ServeStep, DaemonStep
<1>6. ASSUME NEW h \in Hosts, NEW i \in Slots, ServeSocketStep(h, i) PROVE IInv'
  BY <1>6, ServeSocketKeeps DEF ServeSocketStep, DaemonStep
<1>7. ASSUME NEW h \in Hosts, DaemonStep(h, StopDaemon(h)) PROVE IInv'
  BY <1>7, StopDaemonKeeps DEF DaemonStep
<1>8. ASSUME NEW h \in Hosts, DaemonStep(h, StartDaemon(h)) PROVE IInv'
  BY <1>8, StartDaemonKeeps DEF DaemonStep
<1>9. ASSUME NEW h \in Hosts, NEW x \in jobs[h], ScriptStep(h, x) PROVE IInv'
  BY <1>9, ScriptWritesKeeps DEF ScriptStep
<1>10. CASE UNCHANGED vars
  BY <1>10 DEF vars, IInv, Typed, Links, LinksOut, LinksIn, Ends, Waits, Serves,
               Talks, Asker, Server, Stored
<1>11. QED
  BY <1>1, <1>2, <1>3, <1>4, <1>5, <1>6, <1>7, <1>8, <1>9, <1>10 DEF Next

LEMMA Invariance == ~Bare => (Spec => []IInv)
<1> SUFFICES ASSUME ~Bare PROVE Spec => []IInv
  OBVIOUS
<1>1. IInv /\ [Next]_vars => IInv'
  BY StepKeeps
<1>2. QED
  BY <1>1, InitHolds, PTL DEF Spec

-----------------------------------------------------------------------------
(* What follows from it, for any number of controllers, hosts, connections *)
(* and commands, whatever the window and the pieces of a file, and however *)
(* controllers and daemons end and start again.                            *)

(* The connections, the messages on them, the daemons and the controllers  *)
(* keep their types; no more than Window + 1 parts are ever on the way to a*)
(* controller; and every socket of hostDict is a connection to its host.   *)
THEOREM LinkTypes == ~Bare => (Spec => []TypeOK)
<1>1. ASSUME IInv PROVE TypeOK
  <2>1. ASSUME NEW i \in Slots
        PROVE  /\ conn[i].c \in Controllers \cup {None} /\ conn[i].h \in Hosts \cup {None}
               /\ conn[i].ctl \in BOOLEAN
               /\ conn[i].srv \in {"queued", "listed", "ignored", "closed"}
               /\ \A n \in 1..Len(conn[i].req) : conn[i].req[n] \in Parts
               /\ Len(conn[i].rep) <= Window + 1
               /\ \A n \in 1..Len(conn[i].rep) : conn[i].rep[n] \in Parts
    <3>1. PICK cn, q, d, st : /\ cn = conn[i] /\ q = Asker(cn) /\ d = Server(cn, i)
                              /\ st = Stored(cn)
      OBVIOUS
    <3>2. cn \in Conns /\ Talk(cn, q, d, st)
      BY <1>1, <3>1 DEF IInv, Typed, Talks
    <3>3. Len(cn.rep) <= Window + 1
      BY <3>2, ConnFields, Counts DEF Talk, Requests, Replies
    <3>4. /\ \A n \in 1..Len(cn.req) : cn.req[n] \in Parts
          /\ \A n \in 1..Len(cn.rep) : cn.rep[n] \in Parts
      BY <3>2, ConnFields
    <3>5. QED
      BY <3>1, <3>2, <3>3, <3>4, ConnFields
  <2>2. \A h \in Hosts :
          /\ dmn[h].pc \in {"down", "select", "body", "file"}
          /\ dmn[h].pc \in {"body", "file"} => conn[dmn[h].slot].h = h
          /\ dmn[h].left \in 0..Chunks
          /\ jobs[h] \subseteq Files /\ disk[h] \subseteq Files
    BY <1>1 DEF IInv, Typed, Servers, Links, Serves
  <2>3. ASSUME NEW c \in Controllers
        PROVE  /\ ctl[c].pc \in {"idle", "wait", "file", "dead"}
               /\ ctl[c].id \in 0..MaxCmds /\ ctl[c].left \in 0..Chunks
               /\ \A h \in Hosts : hostDict[c][h] # None =>
                    conn[hostDict[c][h]].c = c /\ conn[hostDict[c][h]].h = h
                      /\ conn[hostDict[c][h]].ctl
               /\ getData[c] \subseteq Hosts /\ got[c] \subseteq Hosts \X Files
    BY ONLY <1>1, ZenonT(60) DEF IInv, Typed, Askers, Links, LinksOut
  <2>4. QED
    BY <2>1, <2>2, <2>3 DEF TypeOK
<1>2. IInv => TypeOK
  BY <1>1
<1>3. QED
  BY <1>2, Invariance, PTL

(* The connection of a controller's socket to h, and what is asked over it.*)
LEMMA Talking ==
  ASSUME IInv, NEW c \in Controllers, NEW h \in Hosts, hostDict[c][h] # None
  PROVE  LET i == hostDict[c][h]  cn == conn[i]  q == Asker(cn)  d == Server(cn, i)
         IN /\ i \in Slots /\ cn \in Conns /\ cn.c = c /\ cn.h = h
            /\ d \in Servers /\ q \in Askers
            /\ d = IF dmn[h].slot = i THEN dmn[h] ELSE Select
            /\ q = IF ctl[c].pc \in {"wait", "file"} /\ ctl[c].host = h
                   THEN ctl[c] ELSE Idle
            /\ Requests(cn, d) /\ Replies(cn, q)
            /\ c \notin NoRun => Answers(cn, q, d, Stored(cn))
<1>1. PICK i, cn, q, d, st : /\ i = hostDict[c][h] /\ cn = conn[i] /\ q = Asker(cn)
                             /\ d = Server(cn, i) /\ st = Stored(cn)
  OBVIOUS
<1>2. i \in Slots /\ cn \in Conns /\ cn.c = c /\ cn.h = h /\ cn.ctl
  BY <1>1 DEF IInv, Typed, Links, LinksOut
<1>3. Talk(cn, q, d, st)
  BY <1>1, <1>2 DEF IInv, Talks
<1>4. d = IF dmn[h].slot = i THEN dmn[h] ELSE Select
  BY <1>1, <1>2 DEF Server
<1>5. d \in Servers
  BY <1>4, IdleFields DEF IInv, Typed
<1>6. q = IF ctl[c].pc \in {"wait", "file"} /\ ctl[c].host = h THEN ctl[c] ELSE Idle
  <2>1. q = IF ctl[c].host = h THEN ctl[c] ELSE Idle
    BY <1>1, <1>2 DEF Asker
  <2>2. ctl[c].host = h => ctl[c].pc \in {"wait", "file"}
    BY NoConnFields DEF IInv, Links, Waits
  <2>3. QED
    BY <2>1, <2>2
<1>7. q \in Askers
  BY <1>6, IdleFields DEF IInv, Typed
<1>8. QED
  BY <1>1, <1>2, <1>3, <1>4, <1>5, <1>6, <1>7 DEF Talk

(* Between commands a controller's connections are quiet: nothing of an    *)
(* earlier command is on any of them, in either direction, and no daemon is*)
(* in the middle of serving one; so the next reply read is of the next     *)
(* command.                                                                *)
THEOREM QuietBetweenCommands == ~Bare => (Spec => []IdleQuiet)
<1>1. ASSUME IInv PROVE IdleQuiet
  <2> SUFFICES ASSUME NEW c \in Controllers \ NoRun, NEW h \in Hosts,
                      ctl[c].pc = "idle", hostDict[c][h] # None
               PROVE  LET i == hostDict[c][h]
                      IN /\ conn[i].rep = <<>> /\ conn[i].req = <<>>
                         /\ dmn[h].slot = i => dmn[h].pc = "file" /\ dmn[h].left = 0
    BY DEF IdleQuiet
  <2>1. PICK i, cn, q, d, st : /\ i = hostDict[c][h] /\ cn = conn[i] /\ q = Asker(cn)
                               /\ d = Server(cn, i) /\ st = Stored(cn)
    OBVIOUS
  <2>2. /\ i \in Slots /\ cn \in Conns /\ cn.h = h
        /\ d = (IF dmn[h].slot = i THEN dmn[h] ELSE Select) /\ q = Idle
        /\ Requests(cn, d) /\ Replies(cn, q) /\ Answers(cn, q, d, st)
    BY <1>1, <2>1, Talking
  <2>3. Len(cn.rep) = 0 /\ ToSend(d) = 0 /\ Len(cn.req) = 0
    BY <2>2, IdleFields DEF Answers, Replies
  <2>4. cn.rep = <<>> /\ cn.req = <<>>
    BY <2>2, <2>3, ConnFields, EmptySeq
  <2>5. ASSUME dmn[h].slot = i PROVE dmn[h].pc = "file" /\ dmn[h].left = 0
    <3>1. dmn[h].pc \in {"body", "file"}
      BY <1>1, <2>2, <2>5, NoConnFields DEF IInv, Links, Serves
    <3>2. dmn[h].pc # "body"
      BY <2>2, <2>3, <2>5 DEF Requests, Half, Whole
    <3>3. QED
      BY <2>2, <2>3, <2>5, <3>1, <3>2 DEF ToSend
  <2>6. QED
    BY <2>1, <2>4, <2>5
<1>2. IInv => IdleQuiet
  BY <1>1
<1>3. QED
  BY <1>2, Invariance, PTL

(* What a controller that waits for an answer finds on its socket is of its*)
(* own command: rcvMsg() and readFile() need not look at what it answers.  *)
THEOREM AnswersAreOwn == ~Bare => (Spec => []AnswersOwn)
<1>1. ASSUME IInv PROVE AnswersOwn
  <2> SUFFICES ASSUME NEW c \in Controllers \ NoRun, ctl[c].pc \in {"wait", "file"},
                      hostDict[c][ctl[c].host] # None
               PROVE  LET rep == conn[hostDict[c][ctl[c].host]].rep
                      IN \A n \in 1..Len(rep) : rep[n].id = ctl[c].id
    BY DEF AnswersOwn
  <2>1. PICK h, i, cn, q, d, st :
          /\ h = ctl[c].host /\ i = hostDict[c][h] /\ cn = conn[i] /\ q = Asker(cn)
          /\ d = Server(cn, i) /\ st = Stored(cn)
    OBVIOUS
  <2>2. h \in Hosts
    BY <1>1, <2>1 DEF IInv, Links, Waits
  <2>3. q = ctl[c] /\ Answers(cn, q, d, st)
    <3>1. c \in Controllers /\ c \notin NoRun /\ h \in Hosts /\ hostDict[c][h] # None
      BY <2>1, <2>2
    <3>2. LET j == hostDict[c][h]  rn == conn[j]  p == Asker(rn)  e == Server(rn, j)
          IN /\ p = (IF ctl[c].pc \in {"wait", "file"} /\ ctl[c].host = h
                     THEN ctl[c] ELSE Idle)
             /\ Answers(rn, p, e, Stored(rn))
      BY ONLY <1>1, <3>1, Talking
    <3>3. /\ q = (IF ctl[c].pc \in {"wait", "file"} /\ ctl[c].host = h
                  THEN ctl[c] ELSE Idle)
          /\ Answers(cn, q, d, st)
      BY ONLY <2>1, <3>2, Zenon
    <3>4. QED
      BY <2>1, <3>3
  <2>4. \A n \in 1..Len(cn.rep) : cn.rep[n].id = q.id
    BY ONLY <2>3, SMTT(60) DEF Answers
  <2>5. QED
    BY <2>1, <2>3, <2>4
<1>2. IInv => AnswersOwn
  BY <1>1
<1>3. QED
  BY <1>2, Invariance, PTL

(* A controller and a daemon never both wait for the other: the daemon,    *)
(* which serves every controller in one thread, cannot be made to stall by *)
(* the order in which their messages are read.                             *)
THEOREM OneCanGoOn == ~Bare => (Spec => []NeverBothWait)
<1>1. ASSUME IInv PROVE NeverBothWait
  <2> SUFFICES ASSUME NEW c \in Controllers, ctl[c].pc \in {"wait", "file"}
               PROVE  LET i == hostDict[c][ctl[c].host]
                      IN \/ conn[i].srv = "closed" \/ conn[i].rep # <<>>
                         \/ conn[i].req # <<>>
                         \/ \E h \in Hosts : /\ dmn[h].slot = i /\ dmn[h].pc = "file"
                                             /\ dmn[h].left > 0
    BY DEF NeverBothWait
  <2>1. PICK h, i, cn, q, d, st :
          /\ h = ctl[c].host /\ i = hostDict[c][h] /\ cn = conn[i] /\ q = Asker(cn)
          /\ d = Server(cn, i) /\ st = Stored(cn)
    OBVIOUS
  <2>2. h \in Hosts /\ i # None
    BY <1>1, <2>1 DEF IInv, Links, Waits
  <2>3. /\ cn \in Conns /\ cn.c = c /\ d \in Servers /\ q \in Askers /\ q = ctl[c]
        /\ d = (IF dmn[h].slot = i THEN dmn[h] ELSE Select)
        /\ Replies(cn, q) /\ (c \notin NoRun => Answers(cn, q, d, st))
    <3>1. c \in Controllers /\ h \in Hosts /\ hostDict[c][h] # None
      BY <2>1, <2>2
    <3>2. /\ cn \in Conns /\ cn.c = c /\ d \in Servers /\ q \in Askers
          /\ d = (IF dmn[h].slot = i THEN dmn[h] ELSE Select)
          /\ q = (IF ctl[c].pc \in {"wait", "file"} /\ ctl[c].host = h THEN ctl[c] ELSE Idle)
          /\ Replies(cn, q) /\ (c \notin NoRun => Answers(cn, q, d, st))
      <4>1. LET j == hostDict[c][h]  rn == conn[j]  p == Asker(rn)  e == Server(rn, j)
            IN /\ rn \in Conns /\ rn.c = c /\ e \in Servers /\ p \in Askers
               /\ e = (IF dmn[h].slot = j THEN dmn[h] ELSE Select)
               /\ p = (IF ctl[c].pc \in {"wait", "file"} /\ ctl[c].host = h
                       THEN ctl[c] ELSE Idle)
               /\ Replies(rn, p) /\ (c \notin NoRun => Answers(rn, p, e, Stored(rn)))
        BY ONLY <1>1, <3>1, Talking
      <4>2. QED
        BY ONLY <2>1, <4>1, Zenon
    <3>3. q = ctl[c]
      BY <2>1, <3>2, SMTT(60)
    <3>4. QED
      BY <3>2, <3>3
  <2>4. CASE q.pc = "wait"
    <3>1. cn.srv = "closed" \/ Len(cn.req) > 0 \/ Len(cn.rep) > 0
      BY ONLY <2>3, <2>4, SMTT(60) DEF Replies
    <3>2. QED
      BY <2>1, <2>3, <3>1, ConnFields, EmptySeq
  <2>5. CASE q.pc = "file" /\ cn.srv # "closed" /\ cn.rep = <<>>
    <3>1. /\ q.left >= 1 /\ Len(cn.rep) + ToSend(d) = q.left
      BY <2>3, <2>5 DEF Replies, Answers, AddsUp
    <3>2. Len(cn.rep) = 0 /\ q.left \in Nat /\ ToSend(d) \in Nat
      BY <2>3, <2>5, ConnFields, Counts, EmptySeq
    <3>3. ToSend(d) > 0
      BY <3>1, <3>2
    <3>4. d = dmn[h] /\ dmn[h].slot = i /\ d.pc = "file" /\ d.left > 0
      BY <2>3, <3>3, Counts DEF ToSend
    <3>5. QED
      BY <2>1, <2>2, <3>4
  <2>6. QED
    BY <2>1, <2>3, <2>4, <2>5
<1>2. IInv => NeverBothWait
  BY <1>1
<1>3. QED
  BY <1>2, Invariance, PTL

-----------------------------------------------------------------------------
(***************************************************************************)
(* No result is lost on its way, when scripts wait for a directory to be   *)
(* complete before they collect it (Patient).  The daemon removes the      *)
(* directory once its kernel has the last piece, which is long before the  *)
(* controller has read it: from then on the results are on the connection  *)
(* only, and must stay there whatever anybody else does.                   *)
(***************************************************************************)

(* rep is all of the reply that q waits for, and o is among what it brings.*)
Brings(q, rep, o) ==
  /\ \/ q.pc = "wait" /\ Len(rep) = Chunks + 1
        /\ rep[1].kind = "hdr" /\ rep[1].type = "FILE"
     \/ q.pc = "file" /\ Len(rep) = q.left
  /\ q.host = o[1]
  /\ \E n \in 1..Len(rep) : rep[n].kind = "chunk" /\ o[2] \in rep[n].data

OnWire(c, o) == c \notin NoRun /\ Brings(ctl[c], conn[Sock(c)].rep, o)

Somewhere(o) ==
  \/ o[2] \in disk[o[1]]
  \/ \E c \in Controllers : o \in got[c]
  \/ \E c \in Controllers : OnWire(c, o)

(* What is removed once it is sent is what was sent.                       *)
Sending == \A h \in Hosts : dmn[h].pc = "file" => dmn[h].data = OfExp(h, dmn[h].exp)

Kept == owed \subseteq Hosts \X Files /\ Sending /\ \A o \in owed : Somewhere(o)

-----------------------------------------------------------------------------
(* What is on the wire.                                                    *)

LEMMA WireFacts ==
  ASSUME IInv, NEW c \in Controllers, NEW o, OnWire(c, o)
  PROVE  LET i == Sock(c)  cn == conn[i]  q == ctl[c]  d == Server(cn, i)
         IN /\ i \in Slots /\ cn \in Conns /\ q \in Askers /\ d \in Servers
            /\ q.pc \in {"wait", "file"} /\ q.host = o[1] /\ q.host \in Hosts
            /\ hostDict[c][q.host] = i
            /\ cn.c = c /\ cn.h = q.host /\ cn.ctl
            /\ Replies(cn, q) /\ Answers(cn, q, d, got[c])
            /\ cn.req = <<>> /\ ToSend(d) = 0 /\ d.pc # "body" /\ Len(cn.rep) > 0
            /\ \A n \in 1..Len(cn.rep) :
                 cn.rep[n].kind = "chunk" => o[2] \in cn.rep[n].data
<1>1. PICK i, cn, q, d : /\ i = Sock(c) /\ cn = conn[i] /\ q = ctl[c]
                         /\ d = Server(cn, i)
  OBVIOUS
<1>2. c \notin NoRun /\ Brings(q, cn.rep, o)
  BY <1>1 DEF OnWire
<1>3. q.pc \in {"wait", "file"} /\ q.host = o[1]
  BY <1>2 DEF Brings
<1>4. /\ i \in Slots /\ cn \in Conns /\ q \in Askers /\ d \in Servers
      /\ q.host \in Hosts /\ hostDict[c][q.host] = i
      /\ cn.c = c /\ cn.h = q.host /\ cn.ctl
      /\ Talk(cn, q, d, got[c])
  BY <1>1, <1>3, Socketed
<1>5. Requests(cn, d) /\ Replies(cn, q) /\ Answers(cn, q, d, got[c])
  BY <1>2, <1>4 DEF Talk
<1>6. /\ Len(cn.rep) \in Nat /\ Len(cn.req) \in Nat /\ q.left \in Nat
      /\ Chunks \in Nat \ {0} /\ ToSend(d) \in Nat
  BY <1>4, ConnFields, Counts
<1>7. Len(cn.rep) > 0
  BY <1>2, <1>6 DEF Brings
<1>8. Len(cn.req) = 0
  BY <1>5, <1>6, <1>7 DEF Answers
<1>9. ToSend(d) = 0
  <2>1. CASE q.pc = "wait"
    <3>1. Len(cn.rep) = Chunks + 1 /\ AddsUp(cn, d, Len(cn.rep) - 1, Chunks)
      BY <1>2, <1>5, <1>7, <2>1 DEF Brings, Answers
    <3>2. QED
      BY <1>6, <3>1 DEF AddsUp
  <2>2. CASE q.pc = "file"
    <3>1. Len(cn.rep) = q.left /\ AddsUp(cn, d, Len(cn.rep), q.left)
      BY <1>2, <1>5, <2>2 DEF Brings, Answers
    <3>2. QED
      BY <1>6, <3>1 DEF AddsUp
  <2>3. QED
    BY <1>3, <2>1, <2>2
<1>10. cn.req = <<>> /\ d.pc # "body"
  <2>1. cn.req = <<>>
    BY <1>4, <1>8, ConnFields, EmptySeq
  <2>2. d.pc # "body"
    BY <1>5, <1>8 DEF Requests, Whole, Half
  <2>3. QED
    BY <2>1, <2>2
<1>11. \A n \in 1..Len(cn.rep) : cn.rep[n].kind = "chunk" => o[2] \in cn.rep[n].data
  <2>1. PICK m \in 1..Len(cn.rep) : cn.rep[m].kind = "chunk" /\ o[2] \in cn.rep[m].data
    BY <1>2 DEF Brings
  <2>2. \A n \in 1..Len(cn.rep) :
          cn.rep[n].kind = "chunk" => cn.rep[m].data = cn.rep[n].data
    BY <1>5, <2>1 DEF Answers
  <2>3. QED
    BY <2>1, <2>2
<1>12. QED
  BY <1>1, <1>3, <1>4, <1>5, <1>7, <1>9, <1>10, <1>11

(* It is kept by what does not touch the connection or its controller.     *)
LEMMA WireStays ==
  ASSUME NEW c \in Controllers, NEW o, OnWire(c, o),
         ctl'[c] = ctl[c], hostDict'[c] = hostDict[c],
         conn'[Sock(c)].rep = conn[Sock(c)].rep
  PROVE  OnWire(c, o)'
<1>1. PICK i, q, rep : i = Sock(c) /\ q = ctl[c] /\ rep = conn[Sock(c)].rep
  OBVIOUS
<1>2. Sock(c)' = i
  BY <1>1 DEF Sock
<1>3. c \notin NoRun /\ Brings(q, rep, o)
  BY <1>1 DEF OnWire
<1>4. ctl'[c] = q /\ conn'[i].rep = rep
  BY <1>1
<1>5. QED
  BY <1>2, <1>3, <1>4 DEF OnWire

(* What a connection carries, and what its daemon has still to send.       *)
LEMMA Carries ==
  ASSUME NEW i, NEW o
  PROVE  /\ \A f \in Hosts :
              dmn[f].slot = i /\ o \in {f} \X dmn[f].data => o \in InTransit(i)
         /\ \A m \in 1..Len(conn[i].rep) :
              o \in {conn[i].h} \X conn[i].rep[m].data => o \in InTransit(i)
<1> DEFINE sent == UNION {{conn[i].h} \X conn[i].rep[n].data : n \in 1..Len(conn[i].rep)}
           unsent == UNION {{h} \X dmn[h].data : h \in {g \in Hosts : dmn[g].slot = i}}
<1>1. \A f \in Hosts : dmn[f].slot = i /\ o \in {f} \X dmn[f].data => o \in unsent
  OBVIOUS
<1>2. \A m \in 1..Len(conn[i].rep) :
        o \in {conn[i].h} \X conn[i].rep[m].data => o \in sent
  OBVIOUS
<1>3. InTransit(i) = sent \cup unsent
  BY DEF InTransit
<1> HIDE DEF sent, unsent
<1>4. QED
  BY <1>1, <1>2, <1>3

-----------------------------------------------------------------------------
(* The controllers' steps.                                                 *)

LEMMA OthersCommand ==
  ASSUME IInv, NEW c \in Controllers, NEW o, OnWire(c, o),
         NEW b \in Controllers, b # c, NEW h \in Hosts, NEW e, NEW L,
         Command(b, h, e, L)
  PROVE  /\ ctl'[c] = ctl[c] /\ hostDict'[c] = hostDict[c]
         /\ conn'[Sock(c)].rep = conn[Sock(c)].rep
<1>1. PICK i : i = Sock(c)
  OBVIOUS
<1>2. i \in Slots /\ conn[i].c = c /\ conn[i].ctl
  BY <1>1, WireFacts
<1>3. /\ ctl \in [Controllers -> Askers] /\ conn \in [Slots -> Conns]
      /\ hostDict \in [Controllers -> [Hosts -> Slots \cup {None}]]
  BY DEF IInv, Typed
<1>4. \A s \in Socket(b, h, L) : s[1] # i
  <2>1. hostDict[b][h] # None => conn[hostDict[b][h]].c = b
    BY DEF IInv, Links, LinksOut
  <2>2. i \notin FreeSlots
    BY <1>2, NoConnFields DEF FreeSlots
  <2>3. QED
    BY <1>2, <2>1, <2>2 DEF Socket
<1>5. CASE SkipGetData(b, h, e)
  BY <1>3, <1>5 DEF SkipGetData
<1>6. CASE SendClose(b, h, L)
  <2>1. PICK s, x : s \in Socket(b, h, L) /\ conn' = [conn EXCEPT ![s[1]] = x]
    BY <1>6 DEF SendClose
  <2>2. conn'[i] = conn[i]
    BY <1>2, <1>3, <1>4, <2>1
  <2>3. ctl'[c] = ctl[c] /\ hostDict'[c] = hostDict[c]
    BY <1>3, <1>6 DEF SendClose
  <2>4. QED
    BY <1>1, <2>2, <2>3
<1>7. ASSUME NEW com \in Commands, NoSocket(b, com, h, L)
      PROVE  ctl'[c] = ctl[c] /\ hostDict'[c] = hostDict[c] /\ conn'[i].rep = conn[i].rep
  BY <1>3, <1>7 DEF NoSocket
<1>8. ASSUME NEW com \in Commands, SendFails(b, com, h)
      PROVE  ctl'[c] = ctl[c] /\ hostDict'[c] = hostDict[c] /\ conn'[i].rep = conn[i].rep
  BY <1>2, <1>3, <1>8 DEF SendFails, Die
<1>9. ASSUME NEW com \in Commands, NEW bare \in {FALSE, Bare},
             SendCmd(b, com, h, e, bare, L)
      PROVE  ctl'[c] = ctl[c] /\ hostDict'[c] = hostDict[c] /\ conn'[i].rep = conn[i].rep
  <2>1. PICK s, x :
          /\ s \in Socket(b, h, L) /\ conn' = [conn EXCEPT ![s[1]] = x]
          /\ hostDict' = [hostDict EXCEPT ![b][h] = s[1]]
    BY <1>9 DEF SendCmd
  <2>2. conn'[i] = conn[i] /\ hostDict'[c] = hostDict[c]
    BY <1>2, <1>3, <1>4, <2>1
  <2>3. ctl'[c] = ctl[c]
    BY <1>3, <1>9 DEF SendCmd
  <2>4. QED
    BY <2>2, <2>3
<1>10. QED
  BY <1>1, <1>5, <1>6, <1>7, <1>8, <1>9 DEF Command

LEMMA OthersReceive ==
  ASSUME IInv, NEW c \in Controllers, NEW o, OnWire(c, o),
         NEW b \in Controllers, b # c, Receive(b)
  PROVE  /\ ctl'[c] = ctl[c] /\ hostDict'[c] = hostDict[c]
         /\ conn'[Sock(c)].rep = conn[Sock(c)].rep
<1>1. PICK i, j : i = Sock(c) /\ j = Sock(b)
  OBVIOUS
<1>2. i \in Slots /\ conn[i].c = c
  BY <1>1, WireFacts
<1>3. /\ ctl \in [Controllers -> Askers] /\ conn \in [Slots -> Conns]
      /\ hostDict \in [Controllers -> [Hosts -> Slots \cup {None}]]
  BY DEF IInv, Typed
<1>4. ctl[b].pc \in {"wait", "file"}
  BY DEF Receive, ReceiveReply, ReplyFails, ReceiveChunk, FileFails, Reading
<1>5. i # j
  BY <1>1, <1>2, <1>4, Socketed
<1>6. /\ ctl'[c] = ctl[c] /\ hostDict'[c] = hostDict[c]
      /\ conn' = conn \/ \E x : conn' = [conn EXCEPT ![j] = x]
  <2>1. CASE ReceiveReply(b)
    BY <1>1, <1>3, <2>1 DEF ReceiveReply
  <2>2. CASE ReplyFails(b)
    BY <1>1, <1>3, <2>2 DEF ReplyFails
  <2>3. CASE ReceiveChunk(b)
    BY <1>1, <1>3, <2>3 DEF ReceiveChunk
  <2>4. CASE FileFails(b)
    BY <1>3, <2>4 DEF FileFails
  <2>5. QED
    BY <2>1, <2>2, <2>3, <2>4 DEF Receive
<1>7. conn'[i] = conn[i]
  BY <1>2, <1>3, <1>5, <1>6
<1>8. QED
  BY <1>1, <1>6, <1>7

(* Its own controller reads on.                                            *)
LEMMA WireRead ==
  ASSUME IInv, NEW c \in Controllers, NEW o \in Hosts \X Files, OnWire(c, o), Receive(c)
  PROVE  OnWire(c, o)' \/ o \in got'[c]
<1>1. PICK i, cn, q, d, rep, t :
        /\ i = Sock(c) /\ cn = conn[i] /\ q = ctl[c] /\ d = Server(cn, i)
        /\ rep = cn.rep /\ t = Tail(rep)
  OBVIOUS
<1>2. /\ i \in Slots /\ cn \in Conns /\ q \in Askers /\ d \in Servers
      /\ q.pc \in {"wait", "file"} /\ q.host = o[1] /\ q.host \in Hosts
      /\ hostDict[c][q.host] = i
      /\ Replies(cn, q) /\ Answers(cn, q, d, got[c])
      /\ Len(rep) > 0
      /\ \A n \in 1..Len(rep) : rep[n].kind = "chunk" => o[2] \in rep[n].data
  BY <1>1, WireFacts
<1>3. /\ c \notin NoRun /\ Brings(q, rep, o)
      /\ Chunks \in Nat \ {0} /\ q.left \in Nat /\ Len(rep) \in Nat
  BY <1>1, <1>2, ConnFields, Counts DEF OnWire
<1>4. /\ Head(rep) = rep[1] /\ Dropped(rep, t) /\ rep # <<>>
  BY <1>1, <1>2, ConnFields, EmptySeq, TailSeq
<1>5. Len(t) = 0 \/ (o[2] \in t[1].data /\ t[1].kind = "chunk")
  <2>1. Len(t) > 0 => 1 + 1 \in 2..Len(rep) /\ 1 + 1 \in 1..Len(rep) /\ t[1] = rep[1 + 1]
    BY <1>4 DEF Dropped
  <2>2. Len(t) > 0 => rep[1 + 1].kind = "chunk"
    <3>1. q.pc = "wait" => rep[1].kind = "hdr"
      BY <1>3 DEF Brings
    <3>2. q.pc = "file" => AllChunks(rep)
      BY <1>1, <1>2 DEF Answers
    <3>3. QED
      BY <1>1, <1>2, <2>1, <3>1, <3>2 DEF Replies, AllChunks
  <2>3. QED
    BY <1>2, <1>3, <1>4, <2>1, <2>2 DEF Dropped
<1>6. /\ ctl \in [Controllers -> Askers] /\ conn \in [Slots -> Conns]
      /\ got \in [Controllers -> SUBSET (Hosts \X Files)]
  BY DEF IInv, Typed
<1>7. ASSUME NEW q2, Brings(q2, t, o), ctl'[c] = q2, q2.host = q.host,
             conn' = [conn EXCEPT ![Sock(c)].rep = Tail(@)], hostDict' = hostDict
      PROVE  OnWire(c, o)'
  <2>1. Sock(c)' = i
    BY <1>1, <1>7 DEF Sock
  <2>2. conn'[i].rep = t
    BY <1>1, <1>2, <1>6, <1>7 DEF Conns
  <2>3. QED
    BY <1>3, <1>7, <2>1, <2>2 DEF OnWire
<1>8. CASE ReceiveReply(c)
  <2>1. /\ q.pc = "wait" /\ conn' = [conn EXCEPT ![Sock(c)].rep = Tail(@)]
        /\ hostDict' = hostDict
        /\ ctl' = [ctl EXCEPT ![c] =
             IF Head(rep).type = "FILE" /\ c \notin NoRun
             THEN [@ EXCEPT !.pc = "file", !.left = Chunks] ELSE Done(c)]
    BY <1>1, <1>8 DEF ReceiveReply, Reading
  <2>2. Len(rep) = Chunks + 1 /\ rep[1].type = "FILE"
    BY <1>3, <2>1 DEF Brings
  <2>3. PICK q2 : q2 = [q EXCEPT !.pc = "file", !.left = Chunks]
    OBVIOUS
  <2>4. ctl'[c] = q2
    BY <1>1, <1>3, <1>4, <1>6, <2>1, <2>2, <2>3
  <2>5. q2.pc = "file" /\ q2.left = Chunks /\ q2.host = q.host
    BY <1>2, <2>3 DEF Askers
  <2>6. Len(t) = Chunks /\ 1 \in 1..Len(t)
    BY <1>3, <1>4, <2>2 DEF Dropped
  <2>7. Brings(q2, t, o)
    BY <1>2, <1>3, <1>5, <2>5, <2>6 DEF Brings
  <2>8. QED
    BY <1>7, <2>1, <2>4, <2>5, <2>7
<1>9. CASE ReplyFails(c)
  <2>1. q.pc = "wait" /\ Head(rep).kind = "chunk"
    BY <1>1, <1>4, <1>9 DEF ReplyFails, Reading
  <2>2. rep[1].kind = "hdr"
    BY <1>3, <2>1 DEF Brings
  <2>3. QED
    BY <1>4, <2>1, <2>2
<1>10. CASE ReceiveChunk(c) /\ ctl[c].left > 1
  <2>1. /\ q.pc = "file" /\ conn' = [conn EXCEPT ![Sock(c)].rep = Tail(@)]
        /\ hostDict' = hostDict /\ ctl' = [ctl EXCEPT ![c].left = @ - 1]
    BY <1>1, <1>10 DEF ReceiveChunk, Reading
  <2>2. PICK q2 : q2 = [q EXCEPT !.left = @ - 1]
    OBVIOUS
  <2>3. ctl'[c] = q2
    BY <1>1, <1>6, <2>1, <2>2
  <2>4. q2.pc = "file" /\ q2.left = q.left - 1 /\ q2.host = q.host
    BY <1>2, <2>1, <2>2 DEF Askers
  <2>5. Len(rep) = q.left
    BY <1>3, <2>1 DEF Brings
  <2>6. Len(t) = q.left - 1 /\ 1 \in 1..Len(t)
    BY <1>1, <1>3, <1>4, <1>10, <2>5 DEF Dropped
  <2>7. Brings(q2, t, o)
    BY <1>2, <1>3, <1>5, <2>4, <2>6 DEF Brings
  <2>8. QED
    BY <1>7, <2>1, <2>3, <2>4, <2>7
<1>11. CASE ReceiveChunk(c) /\ ~(ctl[c].left > 1)
  <2>1. /\ q.pc = "file"
        /\ got' = [got EXCEPT ![c] = @ \cup ({ctl[c].host} \X Head(conn[Sock(c)].rep).data)]
    BY <1>1, <1>11 DEF ReceiveChunk, Reading
  <2>2. rep[1].kind = "chunk"
    BY <1>1, <1>2, <1>3, <2>1 DEF Answers, AllChunks
  <2>3. o[2] \in rep[1].data
    BY <1>2, <1>3, <2>2
  <2>4. got'[c] = got[c] \cup ({q.host} \X rep[1].data)
    BY <1>1, <1>4, <1>6, <2>1
  <2>5. o = <<o[1], o[2]>>
    OBVIOUS
  <2>6. QED
    BY <1>2, <2>3, <2>4, <2>5
<1>12. CASE FileFails(c)
  BY <1>1, <1>4, <1>12 DEF FileFails
<1>13. QED
  BY <1>8, <1>9, <1>10, <1>11, <1>12 DEF Receive

-----------------------------------------------------------------------------
(* The daemons' steps leave the replies that are on the wire alone.        *)

LEMMA WireClosing ==
  ASSUME NEW cs, NEW i \in Slots, NEW h, CloseAll(h, cs),
         cs[i] \in Conns, cs[i].ctl, cs[i].req = <<>>
  PROVE  conn'[i].rep = cs[i].rep
<1>1. PICK cut \in SUBSET {j \in Slots : cs[j].h = h /\ cs[j].ctl /\ cs[j].req # <<>>} :
        conn' = [j \in Slots |->
          IF cs[j].h # h THEN cs[j]
          ELSE IF j \in cut THEN [CloseDaemon(cs[j]) EXCEPT !.rep = <<>>]
          ELSE CloseDaemon(cs[j])]
  BY DEF CloseAll
<1>2. i \notin cut
  BY <1>1
<1>3. conn'[i] = cs[i] \/ conn'[i] = CloseDaemon(cs[i])
  BY <1>1, <1>2
<1>4. QED
  BY <1>3, Closing

LEMMA WireServed ==
  ASSUME IInv, NEW c \in Controllers, NEW o, OnWire(c, o), NEW h \in Hosts, Serve(h)
  PROVE  conn'[Sock(c)].rep = conn[Sock(c)].rep
<1>1. PICK i, cn, d, j : /\ i = Sock(c) /\ cn = conn[i] /\ d = Server(cn, i)
                         /\ j = dmn[h].slot
  OBVIOUS
<1>2. /\ i \in Slots /\ cn \in Conns /\ cn.req = <<>> /\ ToSend(d) = 0 /\ d.pc # "body"
  BY <1>1, WireFacts
<1>3. conn \in [Slots -> Conns]
  BY DEF IInv, Typed
<1>4. \A types : HasRead(h, types) => j # i
  BY <1>1, <1>2 DEF HasRead
<1>5. ASSUME NEW x, conn' = [conn EXCEPT ![j] = x], j # i PROVE conn'[i].rep = cn.rep
  BY <1>1, <1>2, <1>3, <1>5
<1>6. CASE RunScript(h) \/ ChangeSetting(h)
  <2>1. j # i
    BY <1>4, <1>6 DEF RunScript, ChangeSetting
  <2>2. \E x : conn' = [conn EXCEPT ![j] = x]
    BY <1>1, <1>6 DEF RunScript, ChangeSetting, Answer
  <2>3. QED
    BY <1>1, <1>5, <2>1, <2>2
<1>7. CASE SendMsgFile(h)
  <2>1. j # i
    BY <1>4, <1>7 DEF SendMsgFile
  <2>2. \E x : conn' = [conn EXCEPT ![j] = x]
    BY <1>1, <1>7 DEF SendMsgFile
  <2>3. QED
    BY <1>1, <1>5, <2>1, <2>2
<1>8. CASE SendChunk(h)
  <2>1. dmn[h].pc = "file" /\ dmn[h].left > 0
    BY <1>8 DEF SendChunk
  <2>2. j # i
    <3> SUFFICES ASSUME j = i PROVE FALSE
      OBVIOUS
    <3>1. d = dmn[h]
      BY <1>1, <2>1, Served
    <3>2. dmn[h].left = 0 /\ dmn[h].left > 0
      BY <1>2, <2>1, <3>1 DEF ToSend
    <3>3. QED
      BY <3>2
  <2>3. \E x : conn' = [conn EXCEPT ![j] = x]
    BY <1>1, <1>8 DEF SendChunk
  <2>4. QED
    BY <1>1, <1>5, <2>2, <2>3
<1>9. CASE SendFileFails(h) \/ RemoveData(h)
  BY <1>9 DEF SendFileFails, RemoveData
<1>10. QED
  BY <1>6, <1>7, <1>8, <1>9 DEF Serve

LEMMA WireSocketServed ==
  ASSUME IInv, NEW c \in Controllers, NEW o, OnWire(c, o), NEW h \in Hosts,
         NEW j \in Slots, ServeSocket(h, j)
  PROVE  conn'[Sock(c)].rep = conn[Sock(c)].rep
<1>1. PICK i, cn : i = Sock(c) /\ cn = conn[i]
  OBVIOUS
<1>2. i \in Slots /\ cn \in Conns /\ cn.req = <<>> /\ cn.ctl
  BY <1>1, WireFacts
<1>3. conn \in [Slots -> Conns]
  BY DEF IInv, Typed
<1>4. ASSUME NEW x, conn' = [conn EXCEPT ![j] = x], j # i PROVE conn'[i].rep = cn.rep
  BY <1>1, <1>2, <1>3, <1>4
<1>5. CASE Accept(h, j)
  <2>1. PICK s \in {"listed", "ignored"} :
          conn' = [k \in Slots |->
             IF k = j THEN [conn[j] EXCEPT !.srv = s]
             ELSE IF conn[k].h = h /\ conn[k].srv = "ignored"
                  THEN CloseDaemon(conn[k]) ELSE conn[k]]
    <3>1. PICK s : s = IF conn[j].c \in Allowed THEN "listed" ELSE "ignored"
      OBVIOUS
    <3>2. QED
      BY <1>5, <3>1 DEF Accept
  <2>2. \/ conn'[i] = [cn EXCEPT !.srv = s] \/ conn'[i] = CloseDaemon(cn)
        \/ conn'[i] = cn
    BY <1>1, <1>2, <2>1
  <2>3. [cn EXCEPT !.srv = s].rep = cn.rep
    BY <1>2 DEF Conns
  <2>4. CloseDaemon(cn).rep = cn.rep
    BY <1>2, Closing
  <2>5. conn'[i].rep = cn.rep
    BY <2>2, <2>3, <2>4
  <2>6. QED
    BY <1>1, <2>5
<1>6. CASE ReadHeader(h, j)
  BY <1>1, <1>2, <1>4, <1>6 DEF ReadHeader
<1>7. CASE ReadFails(h, j)
  <2>1. j # i
    BY <1>1, <1>2, <1>7 DEF ReadFails, EndOfStream
  <2>2. QED
    BY <1>1, <1>4, <1>7, <2>1 DEF ReadFails, CloseAServerSocket
<1>8. CASE MsgClose(h, j)
  <2>1. j # i
    BY <1>1, <1>2, <1>8 DEF MsgClose
  <2>2. QED
    BY <1>1, <1>4, <1>8, <2>1 DEF MsgClose, CloseAServerSocket
<1>9. CASE MsgExit(h, j)
  <2>1. j # i
    BY <1>1, <1>2, <1>9 DEF MsgExit
  <2>2. PICK x : CloseAll(h, [conn EXCEPT ![j] = x])
    BY <1>9 DEF MsgExit
  <2>3. PICK cs : cs = [conn EXCEPT ![j] = x]
    OBVIOUS
  <2>4. cs[i] = cn
    BY <1>1, <1>2, <1>3, <2>1, <2>3
  <2>5. CloseAll(h, cs)
    BY <2>2, <2>3
  <2>6. QED
    BY <1>1, <1>2, <2>4, <2>5, WireClosing
<1>10. QED
  BY <1>5, <1>6, <1>7, <1>8, <1>9 DEF ServeSocket

LEMMA WireStopped ==
  ASSUME IInv, NEW c \in Controllers, NEW o, OnWire(c, o), NEW h \in Hosts, StopDaemon(h)
  PROVE  conn'[Sock(c)].rep = conn[Sock(c)].rep
BY WireFacts, WireClosing DEF StopDaemon

(* A directory is removed when each of its files is on the wire or stored, *)
(* or when its controller is gone or keeps nothing.                        *)
LEMMA RemovedIsSent ==
  ASSUME IInv, Sending, NEW h \in Hosts, NEW o \in Hosts \X Files,
         RemoveData(h), GiveUp, UNCHANGED controllerVars,
         o \in owed', o[2] \in disk[o[1]], o[2] \notin disk'[o[1]]
  PROVE  \E c \in Controllers : o \in got[c] \/ OnWire(c, o)'
<1>1. PICK i, cn, d, q, c, rep : /\ i = dmn[h].slot /\ cn = conn[i] /\ d = dmn[h]
                                 /\ q = Asker(cn) /\ c = cn.c /\ rep = cn.rep
  OBVIOUS
<1>2. /\ d.pc = "file" /\ d.left = 0 /\ conn' = conn
      /\ disk' = [disk EXCEPT ![h] = @ \ OfExp(h, d.exp)]
  BY <1>1 DEF RemoveData
<1>3. /\ i \in Slots /\ cn \in Conns /\ cn.h = h /\ c \in Controllers
      /\ cn.srv = "listed" /\ Server(cn, i) = d /\ d \in Servers /\ q \in Askers
      /\ Talk(cn, q, d, Stored(cn))
  BY <1>1, <1>2, Served
<1>4. o[1] = h /\ o[2] \in d.data
  <2>1. disk \in [Hosts -> SUBSET Files]
    BY DEF IInv, Typed
  <2>2. o[1] = h /\ o[2] \in OfExp(h, d.exp)
    BY <1>2, <2>1
  <2>3. QED
    BY <1>1, <1>2, <2>2 DEF Sending
<1>5. cn.ctl /\ c \notin NoRun
  <2> SUFFICES ASSUME ~cn.ctl \/ c \in NoRun PROVE FALSE
    OBVIOUS
  <2>1. PICK dropped : dropped = {j \in Slots : ~conn'[j].ctl \/ conn[j].c \in NoRun}
    OBVIOUS
  <2>2. i \in dropped
    BY <1>1, <1>2, <1>3, <2>1
  <2>3. o \in {h} \X dmn[h].data
    <3>1. o = <<o[1], o[2]>>
      OBVIOUS
    <3>2. QED
      BY <1>1, <1>4, <3>1
  <2>4. o \in InTransit(i)
    BY <1>1, <2>3, Carries
  <2>5. owed' = owed \ {p \in UNION {InTransit(j) : j \in dropped} :
                           p[2] \notin disk'[p[1]]}
    BY <2>1 DEF GiveUp
  <2>6. QED
    BY <2>2, <2>4, <2>5
<1>6. Requests(cn, d) /\ Replies(cn, q) /\ Answers(cn, q, d, got[c])
  BY <1>1, <1>3, <1>5 DEF Talk, Stored
<1>7. /\ Len(rep) \in Nat /\ q.left \in Nat /\ Chunks \in Nat \ {0} /\ ToSend(d) = 0
  BY <1>1, <1>2, <1>3, ConnFields, Counts DEF ToSend
<1>8. CASE Len(rep) = 0
  <2>1. AllIn(h, d.data, got[c])
    BY <1>1, <1>2, <1>3, <1>6, <1>8 DEF Answers
  <2>2. <<h, o[2]>> \in got[c]
    BY <1>4, <2>1 DEF AllIn
  <2>3. o = <<o[1], o[2]>>
    OBVIOUS
  <2>4. QED
    BY ONLY <1>3, <1>4, <2>2, <2>3, SMTT(60)
<1>9. CASE Len(rep) > 0
  <2>1. q.pc \in {"wait", "file"}
    <3>1. q.pc = "idle" => Len(rep) = 0
      BY <1>1, <1>6 DEF Answers
    <3>2. q.pc \in {"idle", "wait", "file"}
      BY <1>6 DEF Replies
    <3>3. QED
      BY ONLY <1>9, <3>1, <3>2, SMTT(60)
  <2>2. q = ctl[c] /\ q.host = h /\ Sock(c) = i
    <3>1. q = IF ctl[c].host = h THEN ctl[c] ELSE Idle
      BY <1>1, <1>3, <1>5 DEF Asker
    <3>2. q = ctl[c] /\ ctl[c].host = h
      BY <2>1, <3>1, IdleFields
    <3>3. hostDict[c][h] = i
      BY <1>1, <1>3, <1>5 DEF IInv, Links, LinksIn
    <3>4. QED
      BY ONLY <3>2, <3>3, SMTT(60) DEF Sock
  <2>3. \A n \in 1..Len(rep) : rep[n].kind = "chunk" => o[2] \in rep[n].data
    BY ONLY <1>1, <1>2, <1>4, <1>6, ZenonT(60) DEF Answers
  <2>4. CASE q.pc = "wait"
    <3>1. rep[1].kind = "hdr" /\ rep[1].type = "FILE" /\ AddsUp(cn, d, Len(rep) - 1, Chunks)
      BY <1>1, <1>2, <1>6, <1>9, <2>4 DEF Answers
    <3>2. Len(rep) = Chunks + 1
      BY <1>3, <1>7, <3>1 DEF AddsUp
    <3>3. 2 \in 2..Len(rep) /\ 2 \in 1..Len(rep)
      BY <1>7, <3>2
    <3>4. rep[2].kind = "chunk"
      BY <1>1, <1>6, <3>1, <3>3 DEF Replies
    <3>5. Brings(q, rep, o)
      BY <1>4, <2>2, <2>3, <2>4, <3>1, <3>2, <3>3, <3>4 DEF Brings
    <3>6. OnWire(c, o)
      BY ONLY <1>1, <1>5, <2>2, <3>5, SMTT(60) DEF OnWire
    <3>7. QED
      BY <1>2, <1>3, <3>6, WireStays DEF controllerVars
  <2>5. CASE q.pc = "file"
    <3>1. AllChunks(rep) /\ AddsUp(cn, d, Len(rep), q.left)
      BY <1>1, <1>6, <2>5 DEF Answers
    <3>2. Len(rep) = q.left /\ 1 \in 1..Len(rep)
      BY <1>3, <1>7, <1>9, <3>1 DEF AddsUp
    <3>3. rep[1].kind = "chunk"
      BY <3>1, <3>2 DEF AllChunks
    <3>4. Brings(q, rep, o)
      BY <1>4, <2>2, <2>3, <2>5, <3>2, <3>3 DEF Brings
    <3>5. OnWire(c, o)
      BY <1>1, <1>5, <2>2, <3>4 DEF OnWire
    <3>6. QED
      BY <1>2, <1>3, <3>5, WireStays DEF controllerVars
  <2>6. QED
    BY <2>1, <2>4, <2>5
<1>10. QED
  BY <1>7, <1>8, <1>9

-----------------------------------------------------------------------------
(* Every step keeps every result somewhere, or gives it up.                *)

LEMMA Stays ==
  ASSUME NEW o, Somewhere(o),
         o[2] \in disk[o[1]] => Somewhere(o)',
         \A c \in Controllers : o \in got[c] => o \in got'[c],
         \A c \in Controllers : OnWire(c, o) => Somewhere(o)'
  PROVE  Somewhere(o)'
<1>1. CASE \E c \in Controllers : o \in got[c]
  BY <1>1 DEF Somewhere
<1>2. QED
  BY <1>1 DEF Somewhere

LEMMA SendingStays ==
  ASSUME Typed, Sending, NEW h \in Hosts, NEW d2, dmn' = [dmn EXCEPT ![h] = d2],
         d2.pc = "file" => d2.data = OfExp(h, d2.exp)',
         \A g \in Hosts : g # h => disk'[g] = disk[g]
  PROVE  Sending'
<1>1. ASSUME NEW g \in Hosts, dmn'[g].pc = "file"
      PROVE  dmn'[g].data = {x \in disk'[g] : x.exp = dmn'[g].exp}
  <2>1. CASE g = h
    <3>1. dmn'[g] = d2
      BY <2>1 DEF Typed
    <3>2. QED
      BY <1>1, <2>1, <3>1 DEF OfExp
  <2>2. CASE g # h
    <3>1. dmn'[g] = dmn[g] /\ disk'[g] = disk[g]
      BY <2>2 DEF Typed
    <3>2. QED
      BY <1>1, <3>1 DEF Sending, OfExp
  <2>3. QED
    BY <2>1, <2>2
<1>2. QED
  BY <1>1 DEF Sending, OfExp

LEMMA GivenUp == ASSUME GiveUp PROVE owed' \subseteq owed
BY DEF GiveUp

(* A step of controller b, but its end.                                    *)
LEMMA ControllerLoses ==
  ASSUME IInv, Kept, NEW b \in Controllers,
         \/ \E h \in Hosts, e \in Exps, L \in {Listening} : Command(b, h, e, L)
         \/ Receive(b) \/ StartController(b),
         UNCHANGED daemonVars, GiveUp
  PROVE  Kept'
<1>1. owed' \subseteq owed /\ owed \subseteq Hosts \X Files
  BY GivenUp DEF Kept
<1>2. Sending'
  BY DEF Kept, Sending, OfExp, daemonVars
<1>3. got \in [Controllers -> SUBSET (Hosts \X Files)] /\ ctl \in [Controllers -> Askers]
  BY DEF IInv, Typed
<1>4. \A c \in Controllers : got[c] \subseteq got'[c]
  <2>1. ASSUME NEW h \in Hosts, NEW e \in Exps, Command(b, h, e, Listening) PROVE got' = got
    BY <2>1 DEF Command, SkipGetData, SendClose, NoSocket, SendFails, Die, SendCmd
  <2>2. CASE Receive(b)
    BY <1>3, <2>2 DEF Receive, ReceiveReply, ReplyFails, ReceiveChunk, FileFails
  <2>3. CASE StartController(b)
    BY <2>3 DEF StartController
  <2>4. QED
    BY <2>1, <2>2, <2>3
<1>5. ASSUME NEW o \in owed, NEW c \in Controllers, OnWire(c, o)
      PROVE  OnWire(c, o)' \/ o \in got'[c]
  <2>1. ctl[c].pc \in {"wait", "file"}
    BY <1>5, WireFacts
  <2>2. ASSUME NEW h \in Hosts, NEW e \in Exps, Command(b, h, e, Listening)
        PROVE  OnWire(c, o)'
    <3>1. ctl[b].pc = "idle"
      BY <2>2 DEF Command, SkipGetData, SendClose, NoSocket, SendFails, SendCmd, StartCmd
    <3>2. b # c
      BY <2>1, <3>1
    <3>3. QED
      BY <1>5, <2>2, <3>2, OthersCommand, WireStays
  <2>3. CASE Receive(b) /\ b # c
    BY <1>5, <2>3, OthersReceive, WireStays
  <2>4. CASE Receive(b) /\ b = c
    BY <1>1, <1>5, <2>4, WireRead
  <2>5. CASE StartController(b)
    <3>1. /\ b # c /\ ctl'[c] = ctl[c] /\ conn' = conn /\ hostDict' = hostDict
      BY <1>3, <2>1, <2>5 DEF StartController
    <3>2. QED
      BY <1>5, <3>1, WireStays
  <2>6. QED
    BY <2>2, <2>3, <2>4, <2>5
<1>6. ASSUME NEW o \in owed PROVE Somewhere(o)'
  <2>1. Somewhere(o)
    BY DEF Kept
  <2>2. o[2] \in disk[o[1]] => Somewhere(o)'
    BY DEF Somewhere, daemonVars
  <2>3. \A c \in Controllers : OnWire(c, o) => Somewhere(o)'
    BY <1>5 DEF Somewhere
  <2>4. \A c \in Controllers : o \in got[c] => o \in got'[c]
    BY <1>4
  <2>5. QED
    BY <2>1, <2>2, <2>3, <2>4, Stays
<1>7. QED
  BY <1>1, <1>2, <1>6 DEF Kept

(* Controller b ends: what it was reading is given up.                     *)
LEMMA EndLoses ==
  ASSUME IInv, Kept, NEW b \in Controllers, Die(b), UNCHANGED daemonVars, GiveUp
  PROVE  Kept'
<1>1. owed' \subseteq owed /\ owed \subseteq Hosts \X Files
  BY GivenUp DEF Kept
<1>2. Sending'
  BY DEF Kept, Sending, OfExp, daemonVars
<1>3. ASSUME NEW o \in owed', NEW c \in Controllers, OnWire(c, o) PROVE Somewhere(o)'
  <2>1. PICK i : i = Sock(c)
    OBVIOUS
  <2>2. i \in Slots /\ conn[i] \in Conns /\ conn[i].c = c /\ conn[i].h = o[1]
    BY <1>3, <2>1, WireFacts
  <2>3. /\ ctl \in [Controllers -> Askers] /\ conn \in [Slots -> Conns]
        /\ hostDict \in [Controllers -> [Hosts -> Slots \cup {None}]]
    BY DEF IInv, Typed
  <2>4. CASE b # c
    <3>1. ctl'[c] = ctl[c] /\ hostDict'[c] = hostDict[c] /\ conn'[i] = conn[i]
      BY <2>2, <2>3, <2>4 DEF Die
    <3>2. QED
      BY <1>3, <2>1, <3>1, WireStays DEF Somewhere
  <2>5. CASE b = c
    <3>1. conn'[i] = CloseController(conn[i])
      BY <2>2, <2>5 DEF Die
    <3>2. ~conn'[i].ctl
      BY <2>2, <3>1, Closing, NoConnFields
    <3>3. PICK m \in 1..Len(conn[i].rep) : o[2] \in conn[i].rep[m].data
      BY <1>3, <2>1 DEF OnWire, Brings
    <3>4. o = <<o[1], o[2]>>
      BY <1>1
    <3>5. o \in {conn[i].h} \X conn[i].rep[m].data
      BY <2>2, <3>3, <3>4
    <3>6. o \in InTransit(i)
      BY <3>5, Carries
    <3>7. o[2] \in disk'[o[1]]
      BY <2>2, <3>2, <3>6 DEF GiveUp
    <3>8. QED
      BY <3>7 DEF Somewhere
  <2>6. QED
    BY <2>4, <2>5
<1>4. ASSUME NEW o \in owed' PROVE Somewhere(o)'
  <2>1. Somewhere(o)
    BY <1>1 DEF Kept
  <2>2. o[2] \in disk[o[1]] => Somewhere(o)'
    BY DEF Somewhere, daemonVars
  <2>3. got' = got
    BY DEF Die
  <2>4. QED
    BY <1>3, <2>1, <2>2, <2>3, Stays
<1>5. QED
  BY <1>1, <1>2, <1>4 DEF Kept

(* A step of h's daemon that removes nothing.                              *)
LEMMA DaemonLoses ==
  ASSUME IInv, Kept, NEW h \in Hosts, Sending', disk' = disk,
         UNCHANGED controllerVars, GiveUp,
         \A c \in Controllers, o \in owed :
           OnWire(c, o) => conn'[Sock(c)].rep = conn[Sock(c)].rep
  PROVE  Kept'
<1>1. owed' \subseteq owed /\ owed \subseteq Hosts \X Files
  BY GivenUp DEF Kept
<1>2. ctl' = ctl /\ hostDict' = hostDict /\ got' = got
  BY DEF controllerVars
<1>3. ASSUME NEW o \in owed, NEW c \in Controllers, OnWire(c, o) PROVE OnWire(c, o)'
  BY <1>2, <1>3, WireStays
<1>4. ASSUME NEW o \in owed PROVE Somewhere(o)'
  BY <1>2, <1>3 DEF Kept, Somewhere
<1>5. QED
  BY <1>1, <1>4 DEF Kept

LEMMA RemoveDataLoses ==
  ASSUME IInv, Kept, NEW h \in Hosts, RemoveData(h), UNCHANGED controllerVars, GiveUp
  PROVE  Kept'
<1>1. owed' \subseteq owed /\ owed \subseteq Hosts \X Files
  BY GivenUp DEF Kept
<1>2. Sending'
  <2>1. /\ dmn' = [dmn EXCEPT ![h] = Select] /\ \A g \in Hosts : g # h => disk'[g] = disk[g]
    BY DEF RemoveData, IInv, Typed
  <2>2. Select.pc # "file"
    BY IdleFields
  <2>3. QED
    BY <2>1, <2>2, SendingStays DEF IInv, Kept
<1>3. ctl' = ctl /\ hostDict' = hostDict /\ got' = got /\ conn' = conn
  BY DEF controllerVars, RemoveData
<1>4. ASSUME NEW o \in owed' PROVE Somewhere(o)'
  <2>1. Somewhere(o) /\ o \in Hosts \X Files
    BY <1>1 DEF Kept
  <2>2. ASSUME o[2] \in disk[o[1]] PROVE Somewhere(o)'
    <3>1. CASE o[2] \in disk'[o[1]]
      BY <3>1 DEF Somewhere
    <3>2. CASE o[2] \notin disk'[o[1]]
      <4>1. \E c \in Controllers : o \in got[c] \/ OnWire(c, o)'
        BY <1>4, <2>1, <2>2, <3>2, RemovedIsSent DEF Kept
      <4>2. QED
        BY <1>3, <4>1 DEF Somewhere
    <3>3. QED
      BY <3>1, <3>2
  <2>3. ASSUME NEW c \in Controllers, OnWire(c, o) PROVE Somewhere(o)'
    BY <1>3, <2>3, WireStays DEF Somewhere
  <2>4. QED
    BY <1>3, <2>1, <2>2, <2>3, Stays
<1>5. QED
  BY <1>1, <1>2, <1>4 DEF Kept

LEMMA ServeLoses ==
  ASSUME IInv, Kept, NEW h \in Hosts, Serve(h), UNCHANGED controllerVars, GiveUp
  PROVE  Kept'
<1>1. CASE RemoveData(h)
  BY <1>1, RemoveDataLoses
<1>2. CASE Serve(h) /\ ~RemoveData(h)
  <2>1. disk' = disk
    BY <1>2 DEF Serve, RunScript, ChangeSetting, SendMsgFile, SendChunk, SendFileFails
  <2>2. Select.pc # "file" /\ dmn \in [Hosts -> Servers] /\ Sending /\ Typed
    BY IdleFields DEF IInv, Typed, Kept
  <2>3. Sending'
    <3>1. CASE RunScript(h) \/ ChangeSetting(h) \/ SendFileFails(h)
      <4>1. dmn' = [dmn EXCEPT ![h] = Select]
        BY <3>1 DEF RunScript, ChangeSetting, SendFileFails, Answer
      <4>2. QED
        BY <2>1, <2>2, <4>1, SendingStays
    <3>2. CASE SendMsgFile(h)
      <4>1. PICK exp, d2 :
              /\ d2 = [dmn[h] EXCEPT !.pc = "file", !.exp = exp,
                                     !.data = OfExp(h, exp), !.left = Chunks]
              /\ dmn' = [dmn EXCEPT ![h] = d2]
        BY <2>2, <3>2 DEF SendMsgFile
      <4>2. d2.data = OfExp(h, exp) /\ d2.exp = exp
        BY <2>2, <4>1 DEF Servers
      <4>3. d2.data = OfExp(h, d2.exp)'
        BY <2>1, <4>2 DEF OfExp
      <4>4. QED
        BY <2>1, <2>2, <4>1, <4>3, SendingStays
    <3>3. CASE SendChunk(h)
      <4>1. PICK d2 : d2 = [dmn[h] EXCEPT !.left = @ - 1]
        OBVIOUS
      <4>2. dmn' = [dmn EXCEPT ![h] = d2] /\ dmn[h].pc = "file"
        BY <2>2, <3>3, <4>1 DEF SendChunk
      <4>3. d2.data = dmn[h].data /\ d2.exp = dmn[h].exp
        BY <2>2, <4>1 DEF Servers
      <4>4. d2.data = OfExp(h, d2.exp)'
        BY <2>1, <2>2, <4>2, <4>3 DEF Sending, OfExp
      <4>5. QED
        BY <2>1, <2>2, <4>2, <4>4, SendingStays
    <3>4. QED
      BY <1>2, <3>1, <3>2, <3>3 DEF Serve
  <2>4. \A c \in Controllers, o \in owed :
          OnWire(c, o) => conn'[Sock(c)].rep = conn[Sock(c)].rep
    BY WireServed
  <2>5. QED
    BY <2>1, <2>3, <2>4, DaemonLoses
<1>3. QED
  BY <1>1, <1>2

LEMMA ServeSocketLoses ==
  ASSUME IInv, Kept, NEW h \in Hosts, NEW i \in Slots, ServeSocket(h, i),
         UNCHANGED controllerVars, GiveUp
  PROVE  Kept'
<1>1. disk' = disk
  BY DEF ServeSocket, Accept, ReadHeader, ReadFails, MsgClose, MsgExit,
         CloseAServerSocket, daemonVars
<1>2. /\ Select.pc # "file" /\ Down.pc # "file" /\ Sending /\ Typed
  BY IdleFields DEF IInv, Kept
<1>3. Sending'
  <2>1. CASE Accept(h, i)
    BY <1>2, <2>1 DEF Accept, daemonVars, Sending, OfExp
  <2>2. CASE ReadHeader(h, i)
    <3>1. PICK type, id, d2 : /\ d2 = [Down EXCEPT !.pc = "body", !.slot = i,
                                                   !.type = type, !.id = id]
                              /\ dmn' = [dmn EXCEPT ![h] = d2]
      BY <2>2 DEF ReadHeader
    <3>2. d2.pc = "body"
      BY <3>1 DEF Down
    <3>3. QED
      BY <1>1, <1>2, <3>1, <3>2, SendingStays
  <2>3. CASE ReadFails(h, i) \/ MsgClose(h, i)
    <3>1. dmn' = [dmn EXCEPT ![h] = Select]
      BY <2>3 DEF ReadFails, MsgClose, CloseAServerSocket
    <3>2. QED
      BY <1>1, <1>2, <3>1, SendingStays
  <2>4. CASE MsgExit(h, i)
    <3>1. dmn' = [dmn EXCEPT ![h] = Down]
      BY <2>4 DEF MsgExit
    <3>2. QED
      BY <1>1, <1>2, <3>1, SendingStays
  <2>5. QED
    BY <2>1, <2>2, <2>3, <2>4 DEF ServeSocket
<1>4. \A c \in Controllers, o \in owed :
        OnWire(c, o) => conn'[Sock(c)].rep = conn[Sock(c)].rep
  BY WireSocketServed
<1>5. QED
  BY <1>1, <1>3, <1>4, DaemonLoses

LEMMA StopLoses ==
  ASSUME IInv, Kept, NEW h \in Hosts, StopDaemon(h) \/ StartDaemon(h),
         UNCHANGED controllerVars, GiveUp
  PROVE  Kept'
<1>1. disk' = disk /\ \E d2 \in {Down, Select} : dmn' = [dmn EXCEPT ![h] = d2]
  BY DEF StopDaemon, StartDaemon
<1>2. Sending'
  BY <1>1, SendingStays, IdleFields DEF IInv, Kept
<1>3. \A c \in Controllers, o \in owed :
        OnWire(c, o) => conn'[Sock(c)].rep = conn[Sock(c)].rep
  BY WireStopped DEF StartDaemon
<1>4. QED
  BY <1>1, <1>2, <1>3, DaemonLoses

(* A script's results are on its host's disk, not in a directory that is   *)
(* being sent.                                                             *)
LEMMA ScriptLoses ==
  ASSUME IInv, Kept, Patient, NEW h \in Hosts, NEW x \in jobs[h], ScriptStep(h, x)
  PROVE  Kept'
<1>1. /\ conn' = conn /\ dmn' = dmn /\ ctl' = ctl /\ hostDict' = hostDict /\ got' = got
      /\ disk' = [disk EXCEPT ![h] = @ \cup {x}] /\ owed' = owed \cup {<<h, x>>}
      /\ ~(dmn[h].pc = "file" /\ dmn[h].exp = x.exp)
  BY DEF ScriptStep, ScriptWrites, controllerVars
<1>2. /\ disk \in [Hosts -> SUBSET Files] /\ x \in Files /\ Typed
      /\ owed \subseteq Hosts \X Files /\ Sending
  BY DEF IInv, Typed, Kept
<1>3. owed' \subseteq Hosts \X Files
  BY <1>1, <1>2
<1>4. Sending'
  <2>1. ASSUME NEW g \in Hosts, dmn[g].pc = "file"
        PROVE  {y \in disk'[g] : y.exp = dmn[g].exp} = {y \in disk[g] : y.exp = dmn[g].exp}
    BY <1>1, <1>2, <2>1
  <2>2. QED
    BY <1>1, <1>2, <2>1 DEF Sending, OfExp
<1>5. ASSUME NEW o \in owed PROVE Somewhere(o)'
  <2>1. Somewhere(o) /\ o[1] \in Hosts
    BY <1>2 DEF Kept
  <2>2. o[2] \in disk[o[1]] => o[2] \in disk'[o[1]]
    BY <1>1, <1>2, <2>1
  <2>3. ASSUME NEW c \in Controllers, OnWire(c, o) PROVE OnWire(c, o)'
    BY <1>1, <2>3, WireStays
  <2>4. QED
    BY <1>1, <2>1, <2>2, <2>3 DEF Somewhere
<1>6. Somewhere(<<h, x>>)'
  BY <1>1, <1>2 DEF Somewhere
<1>7. QED
  BY <1>1, <1>3, <1>4, <1>5, <1>6 DEF Kept

LEMMA StepLoses ==
  ASSUME IInv, Kept, Patient, [Next]_vars
  PROVE  Kept'
<1>1. ASSUME NEW c \in Controllers, NEW h \in Hosts, NEW e \in Exps,
             ControllerStep(c, Command(c, h, e, Listening))
      PROVE  Kept'
  BY <1>1, ControllerLoses DEF ControllerStep
<1>2. ASSUME NEW c \in Controllers, ReceiveStep(c) PROVE Kept'
  BY <1>2, ControllerLoses DEF ReceiveStep, ControllerStep
<1>3. ASSUME NEW c \in Controllers, ControllerStep(c, StopController(c)) PROVE Kept'
  BY <1>3, EndLoses DEF ControllerStep, StopController
<1>4. ASSUME NEW c \in Controllers, ControllerStep(c, StartController(c)) PROVE Kept'
  BY <1>4, ControllerLoses DEF ControllerStep
<1>5. ASSUME NEW h \in Hosts, ServeStep(h) PROVE Kept'
  BY <1>5, ServeLoses DEF ServeStep, DaemonStep
<1>6. ASSUME NEW h \in Hosts, NEW i \in Slots, ServeSocketStep(h, i) PROVE Kept'
  BY <1>6, ServeSocketLoses DEF ServeSocketStep, DaemonStep
<1>7. ASSUME NEW h \in Hosts,
             DaemonStep(h, StopDaemon(h)) \/ DaemonStep(h, StartDaemon(h))
      PROVE  Kept'
  BY <1>7, StopLoses DEF DaemonStep
<1>8. ASSUME NEW h \in Hosts, NEW x \in jobs[h], ScriptStep(h, x) PROVE Kept'
  BY <1>8, ScriptLoses
<1>9. CASE UNCHANGED vars
  BY <1>9, ZenonT(60) DEF vars, Kept, Sending, OfExp, Somewhere, OnWire, Brings, Sock
<1>10. QED
  BY <1>1, <1>2, <1>3, <1>4, <1>5, <1>6, <1>7, <1>8, <1>9 DEF Next

LEMMA InitKept == Init => Kept
<1> SUFFICES ASSUME Init PROVE Kept
  OBVIOUS
<1>1. owed = {} /\ \A h \in Hosts : dmn[h] = Select
  BY DEF Init, InitDaemon
<1>2. QED
  BY <1>1, IdleFields DEF Kept, Sending

LEMMA KeptInvariance == ~Bare /\ Patient => (Spec => [](IInv /\ Kept))
<1> SUFFICES ASSUME ~Bare, Patient PROVE Spec => [](IInv /\ Kept)
  OBVIOUS
<1>1. IInv /\ Kept /\ [Next]_vars => (IInv /\ Kept)'
  BY StepKeeps, StepLoses
<1>2. QED
  BY <1>1, InitHolds, InitKept, PTL DEF Spec

-----------------------------------------------------------------------------

(* Each file a script wrote is on its host, on its way to a controller that*)
(* is reading it, or stored by one, unless it was on its way to a          *)
(* controller that ended or that keeps nothing: GET_DATA's early removal of*)
(* the directory loses nothing.                                            *)
THEOREM ResultsRetained == ~Bare /\ Patient => (Spec => []Retained)
<1>1. ASSUME IInv, Kept PROVE Retained
  <2> SUFFICES ASSUME NEW o \in owed, NEW c \in Controllers, OnWire(c, o)
               PROVE  ctl[c].pc \in {"wait", "file"} /\ o \in InTransit(hostDict[c][ctl[c].host])
    BY <1>1 DEF Retained, Kept, Somewhere
  <2>1. PICK i : i = Sock(c)
    OBVIOUS
  <2>2. /\ ctl[c].pc \in {"wait", "file"} /\ conn[i].h = o[1]
        /\ i = hostDict[c][ctl[c].host]
    BY <1>1, <2>1, WireFacts
  <2>3. PICK m \in 1..Len(conn[i].rep) : o[2] \in conn[i].rep[m].data
    BY <2>1 DEF OnWire, Brings
  <2>4. o = <<o[1], o[2]>>
    BY <1>1 DEF Kept
  <2>5. o \in {conn[i].h} \X conn[i].rep[m].data
    BY <2>2, <2>3, <2>4
  <2>6. o \in InTransit(i)
    BY <2>5, Carries
  <2>7. QED
    BY <2>2, <2>6
<1>2. IInv /\ Kept => Retained
  BY <1>1
<1>3. QED
  BY <1>2, KeptInvariance, PTL
=============================================================================
