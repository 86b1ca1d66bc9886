----------------------------- MODULE Experiment -----------------------------
(***************************************************************************)
(* Netesto's experiments in time.  The controller carries out a function of*)
(* netesto/local/inlib: it has doServer.sh and doClient.sh started on the  *)
(* hosts, waits, fetches the hosts' directories and processes them.  The   *)
(* daemons do not wait for the scripts (runCmd()), so the function's WAITs *)
(* and the scripts' sleeps are all that keeps them in step.                *)
(*                                                                         *)
(* What runs has the ticks it will still take (left) and takes its next    *)
(* step when they are 0; times shorter than a tick are 0 or 1.             *)
(***************************************************************************)
EXTENDS Integers, Sequences, FiniteSets, SequencesExt

CONSTANTS
  Hosts,
  Servers, Clients,  (* sequences of hosts: the arguments servers and clients *)
  Client1,           (* the sequence client1 of MServerRR_1                *)
  Reqs,              (* how many request sizes: flows of a client to a server *)
  Instances,         (* netperf processes of a flow                        *)
  Second,            (* ticks in a second                                  *)
  Dur,               (* seconds that a transfer lasts                      *)
  Reps,              (* how often the function is run                      *)
  Function,          (* "MServerRR" or "MServerRR_1"                       *)
  Running,           (* hosts where netserver runs from the beginning      *)
  StatsMax,          (* getStaticStats takes up to that many ticks         *)
  ProcessMax,        (* and doClient.sh's reading of its results           *)
  NetLag             (* netperf ends up to that many ticks after Dur       *)

ASSUME ExperimentAssumption ==
  /\ {Reqs, Instances, Second, Dur, Reps} \subseteq Nat \ {0}
  /\ {StatsMax, ProcessMax, NetLag} \subseteq Nat
  /\ Function \in {"MServerRR", "MServerRR_1"} /\ Running \subseteq Hosts
  /\ {Servers, Clients, Client1} \subseteq Seq(Hosts)

VARIABLES
  ctl,        (* the controller: position in the function, repetition, ticks *)
  lastExp, lastGroup,
  getDataHostDict,
  fetched,    (* the results (.exp.out) in the controller's directories    *)
  rows,       (* what PROCESS_EXP has put into exp.csv                     *)
  jobs,       (* scripts running on the hosts                              *)
  flows,      (* netperf processes running on the hosts                    *)
  dirs,       (* the hosts' directories: what is in them, if they are there *)
  netserver   (* hosts where netserver runs                                *)

ctlVars == <<ctl, lastExp, lastGroup, getDataHostDict, fetched, rows>>
hostVars == <<jobs, flows, dirs, netserver>>
vars == <<ctlVars, hostVars>>

(***************************************************************************)
(* The functions of inlib                                                  *)
(***************************************************************************)
DoServer(h, n) == [cmd |-> "DO_SERVER", host |-> h, order |-> n]
DoClient(h, s) == [cmd |-> "DO_CLIENT", host |-> h, server |-> s]
Wait(n) == [cmd |-> "WAIT", ticks |-> n * Second]
GetData(h) == [cmd |-> "GET_DATA", host |-> h]
RandWait == [cmd |-> "RAND_WAIT"]
ProcessExp == [cmd |-> "PROCESS_EXP"]

ForEach(list, Lines(_)) == FlattenSeq([i \in 1..Len(list) |-> Lines(list[i])])

DoServers(n) == ForEach(Servers, LAMBDA s : <<DoServer(s, n)>>)
DoClients(clients) ==
  ForEach(clients, LAMBDA c : ForEach(Servers, LAMBDA s :
    ForEach([r \in 1..Reqs |-> r], LAMBDA r : <<DoClient(c, s), RandWait>>)))
GetDatas(hosts) == ForEach(hosts, LAMBDA h : <<GetData(h)>>)

(* Mutants: the servers' last statistics are taken too early; there is no  *)
(* time for them and for the clients to finish.                            *)
MServerRRShort ==
  DoServers(0) \o DoClients(Clients) \o <<Wait(Dur)>>
    \o DoServers(1) \o <<Wait(15)>> \o GetDatas(Servers) \o GetDatas(Clients)
    \o <<Wait(10), ProcessExp, Wait(15)>>

MServerRRHasty ==
  DoServers(0) \o DoClients(Clients) \o <<Wait(Dur), Wait(10)>>
    \o DoServers(1) \o GetDatas(Servers) \o GetDatas(Clients)
    \o <<Wait(10), ProcessExp, Wait(15)>>

MServerRR ==
  DoServers(0) \o DoClients(Clients) \o <<Wait(Dur), Wait(10)>>
    \o DoServers(1) \o <<Wait(5)>> \o GetDatas(Servers) \o GetDatas(Clients)
    \o <<Wait(10), ProcessExp, Wait(15)>>

MServerRR_1 ==
  DoServers(0) \o DoClients(Clients) \o DoClients(Client1) \o <<Wait(Dur), Wait(10)>>
    \o GetDatas(Servers)
    \o ForEach(Clients, LAMBDA c : <<GetData(c)>> \o GetDatas(Client1))
    \o <<Wait(10), ProcessExp, Wait(15)>>

Lines == IF Function = "MServerRR" THEN MServerRR ELSE MServerRR_1

(***************************************************************************)
(* The hosts                                                               *)
(***************************************************************************)
NoDir == [there |-> FALSE, results |-> {}]
EmptyDir == [there |-> TRUE, results |-> {}]
Exps == 1..Reps

Init ==
  /\ ctl = [pc |-> 1, rep |-> 1, left |-> 0]
  /\ lastExp = 0 /\ lastGroup = 1 /\ getDataHostDict = {}
  /\ fetched = [e \in Exps |-> {}] /\ rows = {}
  /\ jobs = {} /\ flows = {}
  /\ dirs = [h \in Hosts |-> [e \in Exps |-> NoDir]]
  /\ netserver = Running

(* mkdir $exp, if it is not there.                                         *)
MakeDir(h, e) == IF dirs[h][e].there THEN dirs ELSE [dirs EXCEPT ![h][e] = EmptyDir]

(* Replace job j by the set new of what it is next.                        *)
Becomes(j, new) == jobs' = (jobs \ {j}) \cup new

(* doServer.sh has taken its statistics.  At the beginning of an experiment*)
(* it starts netserver, unless one runs already, and sleeps; the last thing*)
(* it does is to start doSs.sh, which writes no results.                   *)
ServerStep(j) ==
  /\ j.script = "doServer"
  /\ IF j.order = 0 /\ j.host \notin netserver
     THEN /\ netserver' = netserver \cup {j.host}
          /\ Becomes(j, {[j EXCEPT !.left = 3 * Second]})
     ELSE UNCHANGED netserver /\ Becomes(j, {})
  /\ UNCHANGED <<flows, dirs>>

(* Mutants: groups' ports overlap.                                         *)
PortOverlaps(group, instance) == group - 1 + instance + 31850

Port(group, instance) == 32 * (group - 1) + instance + 31850

(* doClient.sh after its first statistics: the netperf processes.  One that*)
(* finds no netserver ends at once.                                        *)
ClientStart(j) ==
  /\ j.script = "doClient" /\ j.phase = "stats0"
  /\ \E lag \in [1..Instances -> 0..NetLag] :
       flows' = flows \cup
         (IF j.server \notin netserver THEN {}
          ELSE {[exp |-> j.exp, host |-> j.host, server |-> j.server,
                 group |-> j.group, instance |-> i, left |-> Dur * Second + lag[i]] :
                  i \in 1..Instances})
  /\ Becomes(j, {[j EXCEPT !.phase = "sleep", !.left = (Dur + 12) * Second,
                           !.served = j.server \in netserver]})
  /\ UNCHANGED <<dirs, netserver>>

(* The statistics at the end.                                              *)
ClientStats(j) ==
  /\ j.script = "doClient" /\ j.phase = "sleep"
  /\ \E n \in 0..StatsMax : Becomes(j, {[j EXCEPT !.phase = "stats1", !.left = n]})
  /\ UNCHANGED <<flows, dirs, netserver>>

(* netperf's output is read: complete if the processes ran and have ended. *)
Ended(j) == \A f \in flows : ~(f.exp = j.exp /\ f.host = j.host /\ f.group = j.group)

ClientRead(j) ==
  /\ j.script = "doClient" /\ j.phase = "stats1"
  /\ \E n \in 0..ProcessMax :
       Becomes(j, {[j EXCEPT !.phase = "write", !.left = n,
                             !.served = j.served /\ Ended(j)]})
  /\ UNCHANGED <<flows, dirs, netserver>>

(* The results are written, if the directory is still there.  The file is  *)
(* begun some time earlier in this phase (writeExpInfo); begun it holds no *)
(* result, and is fetched, processed or removed as if it were not there.   *)
ClientWrite(j) ==
  /\ j.script = "doClient" /\ j.phase = "write"
  /\ dirs' = IF dirs[j.host][j.exp].there
             THEN [dirs EXCEPT ![j.host][j.exp].results =
                     @ \cup {[group |-> j.group, complete |-> j.served]}]
             ELSE dirs
  /\ Becomes(j, {})
  /\ UNCHANGED <<flows, netserver>>

ClientStep(j) == ClientStart(j) \/ ClientStats(j) \/ ClientRead(j) \/ ClientWrite(j)

ScriptStep ==
  /\ \E j \in jobs : j.left = 0 /\ (ServerStep(j) \/ ClientStep(j))
  /\ UNCHANGED ctlVars

FlowEnds ==
  /\ \E f \in flows : f.left = 0 /\ flows' = flows \ {f}
  /\ UNCHANGED <<ctlVars, jobs, dirs, netserver>>

(***************************************************************************)
(* The controller                                                          *)
(***************************************************************************)
At(cmd) == ctl.rep <= Reps /\ ctl.left = 0 /\ Lines[ctl.pc].cmd = cmd
Line == Lines[ctl.pc]

(* On to the next line, n ticks later; after the last the function is run  *)
(* again.                                                                  *)
Advance(n) ==
  ctl' = IF ctl.pc < Len(Lines)
         THEN [ctl EXCEPT !.pc = @ + 1, !.left = n]
         ELSE [pc |-> 1, rep |-> ctl.rep + 1, left |-> n]

(* exp is COUNTER in the first line of a function and PREV in the others.  *)
Exp == IF ctl.pc = 1 THEN lastExp + 1 ELSE lastExp

CtlDoServer ==
  /\ At("DO_SERVER")
  /\ lastExp' = Exp
  /\ dirs' = MakeDir(Line.host, Exp)
  /\ \E n \in 0..StatsMax :
       jobs' = jobs \cup {[script |-> "doServer", exp |-> Exp, host |-> Line.host,
                           order |-> Line.order, left |-> n]}
  /\ Advance(0)
  /\ UNCHANGED <<lastGroup, getDataHostDict, fetched, rows, flows, netserver>>

(* Mutants: what was fetched is not forgotten.                             *)
CtlDoClientRemembers ==
  /\ At("DO_CLIENT")
  /\ dirs' = MakeDir(Line.host, lastExp)
  /\ \E n \in 0..StatsMax :
       jobs' = jobs \cup {[script |-> "doClient", exp |-> lastExp, host |-> Line.host,
                           server |-> Line.server, group |-> lastGroup,
                           phase |-> "stats0", served |-> FALSE, left |-> n]}
  /\ lastGroup' = lastGroup + 1
  /\ Advance(0)
  /\ UNCHANGED <<lastExp, getDataHostDict, fetched, rows, flows, netserver>>

CtlDoClient ==
  /\ At("DO_CLIENT")
  /\ dirs' = MakeDir(Line.host, lastExp)
  /\ \E n \in 0..StatsMax :
       jobs' = jobs \cup {[script |-> "doClient", exp |-> lastExp, host |-> Line.host,
                           server |-> Line.server, group |-> lastGroup,
                           phase |-> "stats0", served |-> FALSE, left |-> n]}
  /\ lastGroup' = lastGroup + 1
  /\ getDataHostDict' = {}
  /\ Advance(0)
  /\ UNCHANGED <<lastExp, fetched, rows, flows, netserver>>

CtlWait ==
  /\ \/ At("WAIT") /\ Advance(Line.ticks)
     \/ At("RAND_WAIT") /\ \E n \in 0..1 : Advance(n)
  /\ UNCHANGED <<lastExp, lastGroup, getDataHostDict, fetched, rows, hostVars>>

(* The host's directory comes to the controller and is removed.            *)
CtlGetData ==
  /\ At("GET_DATA")
  /\ IF Line.host \in getDataHostDict
     THEN UNCHANGED <<getDataHostDict, fetched, dirs>> /\ Advance(0)
     ELSE /\ getDataHostDict' = getDataHostDict \cup {Line.host}
          /\ fetched' = [fetched EXCEPT ![lastExp] = @ \cup dirs[Line.host][lastExp].results]
          /\ dirs' = [dirs EXCEPT ![Line.host][lastExp] = NoDir]
          /\ \E n \in 0..1 : Advance(n)
  /\ UNCHANGED <<lastExp, lastGroup, rows, jobs, flows, netserver>>

(* processExp(): all results there are, of the groups that were started.   *)
CtlProcessExp ==
  /\ At("PROCESS_EXP")
  /\ rows' = rows \cup {[exp |-> lastExp, groups |-> 1..(lastGroup - 1),
                         results |-> fetched[lastExp]]}
  /\ lastGroup' = 1
  /\ Advance(0)
  /\ UNCHANGED <<lastExp, getDataHostDict, fetched, hostVars>>

CtlStep == CtlDoServer \/ CtlDoClient \/ CtlWait \/ CtlGetData \/ CtlProcessExp

(* Time passes when nothing is due.                                        *)
Less(S) == {[x EXCEPT !.left = @ - 1] : x \in S}

Tick ==
  /\ \A x \in jobs \cup flows : x.left > 0
  /\ ctl.rep <= Reps /\ ctl.left > 0
  /\ ctl' = [ctl EXCEPT !.left = @ - 1]
  /\ jobs' = Less(jobs) /\ flows' = Less(flows)
  /\ UNCHANGED <<lastExp, lastGroup, getDataHostDict, fetched, rows, dirs, netserver>>

Next == CtlStep \/ ScriptStep \/ FlowEnds \/ Tick

Spec == Init /\ [][Next]_vars

(* What MServerRR is given: servers, where netserver runs, at most 32      *)
(* netperf processes of a flow (Port), and scripts so quick that its WAITs *)
(* and the scripts' sleeps are long enough.                                *)
Timely ==
  /\ Function = "MServerRR"
  /\ Servers # <<>> /\ ToSet(Servers) \subseteq Running
  /\ Instances <= 32
  /\ 2 * StatsMax + ProcessMax < 3 * Second
  /\ StatsMax + NetLag < 10 * Second
  /\ Len(DoClients(Clients)) + StatsMax + NetLag < 12 * Second

(***************************************************************************)
(* Properties                                                              *)
(***************************************************************************)
(* A row of exp.csv has the results of every flow of its experiment, each  *)
(* computed from the output of netperf processes that had ended: although  *)
(* nobody waits for doClient.sh, which sleeps, takes statistics and reads  *)
(* before it writes, and although GET_DATA asks each host only once.       *)
RowComplete ==
  \A r \in rows :
    /\ {x.group : x \in r.results} = r.groups
    /\ \A x \in r.results : x.complete

(* Once a host's directory was fetched and removed, no script of that      *)
(* experiment is still at work on the host.                                *)
NoOrphan ==
  \A j \in jobs : dirs[j.host][j.exp].there

(* The statistics at the end of an experiment, of clients and servers, are *)
(* taken when no transfer of it to or from that host is under way: the     *)
(* differences to those at the beginning cover the transfers.              *)
StatsAfter ==
  \A j \in jobs :
    \/ j.script = "doServer" /\ j.order = 1
    \/ j.script = "doClient" /\ j.phase = "stats1"
    => \A f \in flows : f.exp = j.exp => j.host \notin {f.host, f.server}

(* netperf processes on one host have different ports, also those left     *)
(* from an experiment when the next one counts its groups from 1 again.    *)
PortsDistinct ==
  \A f, g \in flows :
    f.host = g.host /\ Port(f.group, f.instance) = Port(g.group, g.instance)
      => f.exp = g.exp /\ f.group = g.group /\ f.instance = g.instance
=============================================================================
