------------------------------ MODULE SuiteRun ------------------------------
(***************************************************************************)
(* Suite.run() of benchpress (benchpress/benchpress/suites/suite.py): the  *)
(* hooks' before(), the test as a child process, parse(), and in the       *)
(* finally clause the hooks' after() in reverse order; then the reporter.  *)
(* Hooks are FileHook and ShellHook; they share the working directory and  *)
(* the file system with each other and with the test.                      *)
(*                                                                         *)
(* A path is a sequence of names below the directory benchpress was started*)
(* in, which is <<>>.                                                      *)
(***************************************************************************)
EXTENDS Integers, Sequences, SequencesExt

CONSTANTS
  Suites,    (* suites: hooks, checkReturncode, timeout, timeoutIsPass, lazy *)
  Dirs0,     (* directories there are at first                             *)
  Out        (* the name of the file the test writes its details to        *)

VARIABLES
  suite, phase,
  turn,      (* the hook whose turn it is, in the order of the loop        *)
  pc,        (* position in its operations                                 *)
  cwd, dirs, files,
  saved,     (* original_dir of each ShellHook                             *)
  created,   (* the paths that FileHooks have created                      *)
  proc,      (* the test: none, running, exited, killed, or orphan: killed *)
             (* with children that live on                                 *)
  where,     (* the test's working directory                               *)
  rc,        (* did it return 0                                            *)
  outcome,   (* what run() is going to do, or did: return or raise         *)
  details    (* what parse() found: none, found, missing                   *)

fsVars == <<cwd, dirs, files, saved, created>>
procVars == <<proc, where, rc>>
vars == <<suite, phase, turn, pc, fsVars, procVars, outcome, details>>

(***************************************************************************)
(* Hooks.  Hook i's before() and after() as sequences of operations, each  *)
(* of which may raise.                                                     *)
(***************************************************************************)
FileHook(opts) == [kind |-> "file", opts |-> opts]
ShellHook(before, after) == [kind |-> "shell", before |-> before, after |-> after]
DirOpt(path) == [type |-> "dir", path |-> path]
FileOpt(path) == [type |-> "file", path |-> path]
Command == [op |-> "command"]
Cd(path) == [op |-> "cd", path |-> path]

(* What the configuration of a suite may have.                             *)
Path == Seq(STRING)
List(s) == s \in Seq({s[n] : n \in 1..Len(s)})
Operations(s) ==
  List(s) /\ \A n \in 1..Len(s) : s[n] = Command \/ (s[n] = Cd(s[n].path) /\ s[n].path \in Path)

Option(opt) == opt = DirOpt(opt.path) \/ opt = FileOpt(opt.path)
HookOk(hook) ==
  \/ /\ hook.kind = "file" /\ List(hook.opts)
     /\ \A n \in 1..Len(hook.opts) : Option(hook.opts[n]) /\ hook.opts[n].path \in Path
  \/ hook.kind = "shell" /\ Operations(hook.before) /\ Operations(hook.after)

ASSUME SuiteAssumption ==
  /\ Out \in STRING
  /\ Dirs0 \subseteq Path /\ <<>> \in Dirs0
  /\ \A s \in Suites : List(s.hooks) /\ \A i \in 1..Len(s.hooks) : HookOk(s.hooks[i])

Before(hook, i) ==
  IF hook.kind = "file"
  THEN [n \in 1..Len(hook.opts) |->
          [op |-> "create", type |-> hook.opts[n].type, path |-> hook.opts[n].path]]
  ELSE <<[op |-> "save", hook |-> i]>> \o hook.before

After(hook, i) ==
  IF hook.kind = "file"
  THEN [n \in 1..Len(hook.opts) |->
          [op |-> "delete", type |-> hook.opts[n].type, path |-> hook.opts[n].path]]
  ELSE hook.after \o <<[op |-> "return", hook |-> i]>>

(* A mutant: not in reverse order.                                         *)
Forward(k) == k

(* after() is called in reverse order.                                     *)
Reversed(k) == Len(suite.hooks) + 1 - k

Hook == IF phase = "before" THEN turn ELSE Reversed(turn)

Ops ==
  IF phase = "before" THEN Before(suite.hooks[Hook], Hook) ELSE After(suite.hooks[Hook], Hook)

Init ==
  /\ suite \in Suites
  /\ phase = "before" /\ turn = 1 /\ pc = 1
  /\ cwd = <<>> /\ dirs = Dirs0 /\ files = {}
  /\ saved = [i \in 1..Len(suite.hooks) |-> <<>>] /\ created = {}
  /\ proc = "none" /\ where = <<>> /\ rc = TRUE
  /\ outcome = "none" /\ details = "none"

Parent(p) == IF p = <<>> THEN p ELSE Front(p)
Below(p) == {q \in dirs \cup files : IsPrefix(p, q)}
Parents(p) == {SubSeq(p, 1, n) : n \in 0..Len(p)}

Create(type, p) ==
  /\ IF type = "dir"
     THEN /\ Parents(Parent(p)) \cap files = {}
          /\ dirs' = dirs \cup (Parents(p) \ files)         (* EEXIST is fine     *)
          /\ UNCHANGED files
     ELSE /\ p \notin dirs \cup files /\ Parent(p) \in dirs
          /\ files' = files \cup {p} /\ UNCHANGED dirs
  /\ created' = created \cup {p}
  /\ UNCHANGED <<cwd, saved>>

Delete(type, p) ==
  /\ IF type = "dir"
     THEN p \in dirs /\ dirs' = dirs \ Below(p) /\ files' = files \ Below(p)
     ELSE p \in files /\ files' = files \ {p} /\ UNCHANGED dirs
  /\ UNCHANGED <<cwd, saved, created>>

Chdir(p) == p \in dirs /\ cwd' = p /\ UNCHANGED <<dirs, files, saved, created>>

DoOp(op) ==
  CASE op.op = "create" -> Create(op.type, cwd \o op.path)
    [] op.op = "delete" -> Delete(op.type, cwd \o op.path)
    [] op.op = "cd" -> Chdir(cwd \o op.path)
    [] op.op = "command" -> UNCHANGED fsVars
    [] op.op = "save" ->
         cwd \in dirs /\ saved' = [saved EXCEPT ![op.hook] = cwd]
           /\ UNCHANGED <<cwd, dirs, files, created>>
    [] op.op = "return" -> cwd \in dirs /\ Chdir(saved[op.hook])

InHooks == phase \in {"before", "after"} /\ turn <= Len(suite.hooks)

HookOp ==
  /\ InHooks /\ pc <= Len(Ops)
  /\ DoOp(Ops[pc])
  /\ pc' = pc + 1
  /\ UNCHANGED <<suite, phase, turn, procVars, outcome, details>>

NextHook ==
  /\ InHooks /\ pc > Len(Ops)
  /\ turn' = turn + 1 /\ pc' = 1
  /\ UNCHANGED <<suite, phase, fsVars, procVars, outcome, details>>

(* What may raise: of a ShellHook a command, and what cannot be done with  *)
(* the working directory; of a FileHook a directory or file that cannot be *)
(* created or, because an orphan writes to it, removed (what rmtree() has  *)
(* removed by then is left out: the exception is the outcome).             *)
ShellMayRaise(op) ==
  CASE op.op = "command" -> TRUE
    [] op.op = "cd" -> cwd \o op.path \notin dirs
    [] op.op = "save" -> cwd \notin dirs
    [] op.op = "return" -> cwd \notin dirs \/ saved[op.hook] \notin dirs

FileMayRaise(op) ==
  CASE op.op = "create" -> TRUE
    [] op.op = "delete" ->
         \/ proc = "orphan" /\ IsPrefix(cwd \o op.path, where)
         \/ cwd \o op.path \notin (IF op.type = "dir" THEN dirs ELSE files)

MayRaise(op) ==
  IF op.op \in {"create", "delete"} THEN FileMayRaise(op) ELSE ShellMayRaise(op)

(* before() is called outside of the try, so that run() ends at once; an   *)
(* exception from after() replaces what run() was going to do.             *)
HookRaises ==
  /\ InHooks /\ pc <= Len(Ops)
  /\ MayRaise(Ops[pc])
  /\ phase' = "end" /\ outcome' = "raise"
  /\ UNCHANGED <<suite, turn, pc, fsVars, procVars, details>>

(***************************************************************************)
(* run_to_completion() and the test                                        *)
(***************************************************************************)
Finally(out) == phase' = "after" /\ turn' = 1 /\ pc' = 1 /\ outcome' = out

Popen ==
  /\ phase = "before" /\ turn > Len(suite.hooks)
  /\ \/ /\ proc' = "running" /\ where' = cwd /\ phase' = "test"
        /\ UNCHANGED <<turn, pc, outcome, rc>>
     \/ Finally("raise") /\ UNCHANGED procVars         (* no such binary   *)
  /\ UNCHANGED <<suite, fsVars, details>>

(* The test, or what it left behind, writes to its working directory.      *)
TestWrites ==
  /\ proc \in {"running", "orphan"}
  /\ where \in dirs
  /\ files' = files \cup {Append(where, Out)}
  /\ UNCHANGED <<suite, phase, turn, pc, cwd, dirs, saved, created, procVars, outcome,
                 details>>

TestExits ==
  /\ proc = "running"
  /\ proc' = "exited"
  /\ rc' \in BOOLEAN
  /\ UNCHANGED <<suite, phase, turn, pc, fsVars, where, outcome, details>>

(* parse() reads the files that tell details of failed cases; as a         *)
(* generator it does so when the reporter asks for the results.            *)
Look == IF Append(cwd, Out) \in files THEN "found" ELSE "missing"

(* A mutant: the return code is not looked at.                             *)
CompletedAnyhow ==
  /\ phase = "test" /\ proc = "exited"
  /\ Finally("return")
  /\ details' = IF suite.lazy THEN details ELSE Look
  /\ UNCHANGED <<suite, fsVars, procVars>>

(* tee_output may be a file that cannot be opened, and parse() may raise.  *)
Completed ==
  /\ phase = "test" /\ proc = "exited"
  /\ \/ Finally("raise") /\ UNCHANGED details
     \/ /\ suite.checkReturncode => rc
        /\ Finally("return")
        /\ details' = IF suite.lazy THEN details ELSE Look
  /\ UNCHANGED <<suite, fsVars, procVars>>

(* A mutant: after kill() it waits until all children have closed the pipe.*)
TimeoutWaits ==
  /\ phase = "test" /\ proc = "running" /\ suite.timeout
  /\ proc' \in {"killed", "orphan"} /\ rc' = FALSE
  /\ IF proc' = "orphan" THEN UNCHANGED <<phase, turn, pc, outcome>>
     ELSE Finally(IF suite.timeoutIsPass THEN "return" ELSE "raise")
  /\ UNCHANGED <<suite, fsVars, where, details>>

(* communicate() raises TimeoutExpired; kill() does not reach children.    *)
(* The output of a timeout that is a pass has no case in it to look for;   *)
(* parse() of it may raise.                                                *)
Timeout ==
  /\ phase = "test" /\ proc = "running" /\ suite.timeout
  /\ proc' \in {"killed", "orphan"} /\ rc' = FALSE
  /\ \/ Finally("raise")
     \/ suite.timeoutIsPass /\ Finally("return")
  /\ UNCHANGED <<suite, fsVars, where, details>>

(* The reporter iterates over what run() returned; a test that timed out   *)
(* has no output with cases in it.                                         *)
Report ==
  /\ phase = "after" /\ turn > Len(suite.hooks)
  /\ phase' = "end"
  /\ details' = IF outcome = "return" /\ suite.lazy /\ proc = "exited" THEN Look ELSE details
  /\ UNCHANGED <<suite, turn, pc, fsVars, procVars, outcome>>

Benchpress == HookOp \/ NextHook \/ HookRaises \/ Popen \/ Completed \/ Timeout \/ Report

Next == Benchpress \/ TestWrites \/ TestExits

(* Benchpress goes on; a test may run, and write, for ever.                *)
Spec == Init /\ [][Next]_vars /\ WF_vars(Benchpress)

(***************************************************************************)
(* Properties                                                              *)
(***************************************************************************)
Clean == cwd = <<>> /\ created \cap (dirs \cup files) = {}

(* When run() returns results, the working directory is the first one and  *)
(* no path that FileHooks were told to create is left (the parents that    *)
(* makedirs() made for it are), wherever relative paths led at the time,   *)
(* and although a killed test may have left children that go on writing    *)
(* (other files than the hooks').                                          *)
ReturnsClean == phase = "end" /\ outcome = "return" => Clean

(* Results are returned only of a test that was started and ended, with 0  *)
(* unless the suite does not care, or whose timeout counts as a pass.      *)
ReturnsEarned ==
  phase = "end" /\ outcome = "return" =>
    \/ proc = "exited" /\ (rc \/ ~suite.checkReturncode)
    \/ proc \in {"killed", "orphan"} /\ suite.timeout /\ suite.timeoutIsPass

(* A suite with a timeout comes to an end whatever the test does.          *)
Ends == suite.timeout => <>(phase = "end")

(* TestCaseResult: details are "detailed output from this test case": what *)
(* the test has written is found.                                          *)
DetailsFound ==
  details = "missing" => ~(where \in dirs) \/ Append(where, Out) \notin files
=============================================================================
