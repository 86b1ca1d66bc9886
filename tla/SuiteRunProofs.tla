--------------------------- MODULE SuiteRunProofs ---------------------------
(***************************************************************************)
(* Proofs about SuiteRun for any suites, hooks and directories.            *)
(***************************************************************************)
EXTENDS SuiteRun, TLAPS

(* What run() may return results of.                                       *)
Earned ==
  \/ proc = "exited" /\ (rc \/ ~suite.checkReturncode)
  \/ proc \in {"killed", "orphan"} /\ suite.timeout /\ suite.timeoutIsPass

(* Run() decides to return once, when the test has ended: from then on it  *)
(* is no longer "running", so that its end, or the timeout, cannot come    *)
(* late and change what the decision was taken on.                         *)
Decided == outcome = "return" => phase \in {"after", "end"} /\ Earned

LEMMA DecidedInit == Init => Decided
BY DEF Init, Decided

LEMMA DecidedStep == Decided /\ [Next]_vars => Decided'
<1> SUFFICES ASSUME Decided, [Next]_vars PROVE Decided'
  OBVIOUS
<1>1. CASE HookOp
  BY <1>1 DEF HookOp, InHooks, Decided, Earned, procVars
<1>2. CASE HookRaises
  BY <1>2 DEF HookRaises, Decided
<1>3. CASE Popen
  BY <1>3 DEF Popen, Finally, Decided
<1>4. CASE TestWrites
  BY <1>4 DEF TestWrites, Decided, Earned, procVars
<1>5. CASE TestExits
  <2>1. ~Earned
    BY <1>5 DEF TestExits, Earned
  <2>2. QED
    BY <1>5, <2>1 DEF TestExits, Decided
<1>6. CASE Completed
  BY <1>6 DEF Completed, Finally, Decided, Earned, procVars
<1>7. CASE Timeout
  BY <1>7 DEF Timeout, Finally, Decided, Earned
<1>8. CASE Report
  BY <1>8 DEF Report, Decided, Earned, procVars
<1>9. CASE UNCHANGED vars
  BY <1>9 DEF vars, procVars, Decided, Earned
<1>10. CASE NextHook
  BY <1>10 DEF NextHook, InHooks, Decided, Earned, procVars
<1>11. QED
  BY <1>1, <1>2, <1>3, <1>4, <1>5, <1>6, <1>7, <1>8, <1>9, <1>10 DEF Next, Benchpress

(* Suite.run() returns results only of a test that ran and returned 0, or  *)
(* whose return code or timeout the suite accepts, whatever hooks there    *)
(* are and wherever they raise.                                            *)
THEOREM ResultsEarned == Spec => []ReturnsEarned
<1>1. Decided => ReturnsEarned
  BY DEF Decided, Earned, ReturnsEarned
<1>2. QED
  BY <1>1, DecidedInit, DecidedStep, PTL DEF Spec

-----------------------------------------------------------------------------
(* What a suite leaves behind.                                             *)

(* Out is not a name in the paths of hooks and the directories there are:  *)
(* with a hook that creates that file, what a killed test has left could   *)
(* create it again when the hook has deleted it.                           *)
Plain == Seq(STRING \ {Out})

PlainCds(ops) == \A n \in 1..Len(ops) : ops[n].op = "cd" => ops[n].path \in Plain

PlainHook(hook) ==
  IF hook.kind = "file" THEN \A n \in 1..Len(hook.opts) : hook.opts[n].path \in Plain
  ELSE PlainCds(hook.before) /\ PlainCds(hook.after)

OutApart ==
  /\ Dirs0 \subseteq Plain
  /\ \A s \in Suites : \A i \in 1..Len(s.hooks) : PlainHook(s.hooks[i])

(* A hook that is run can be any of these.                                 *)
FileOps(hook, ops, op) ==
  /\ Len(ops) = Len(hook.opts) /\ Len(ops) \in Nat
  /\ \A n \in 1..Len(ops) :
       /\ ops[n].op = op /\ ops[n].type = hook.opts[n].type
       /\ ops[n].path = hook.opts[n].path /\ ops[n].path \in Plain
       /\ ops[n].type \in {"dir", "file"}

ShellOp(op) == op.op = "command" \/ (op.op = "cd" /\ op.path \in Plain)

SaveFirst(ops, i) ==
  /\ Len(ops) \in Nat /\ Len(ops) >= 1
  /\ ops[1] = [op |-> "save", hook |-> i]
  /\ \A n \in 2..Len(ops) : ShellOp(ops[n])

ReturnLast(ops, i) ==
  /\ Len(ops) \in Nat /\ Len(ops) >= 1
  /\ ops[Len(ops)] = [op |-> "return", hook |-> i]
  /\ \A n \in 1..(Len(ops) - 1) : ShellOp(ops[n])

LEMMA OptionType ==
  ASSUME NEW opt, Option(opt) PROVE opt.type \in {"dir", "file"}
<1> DEFINE p == opt.path
<1>1. DirOpt(p).type = "dir" /\ FileOpt(p).type = "file"
  BY DEF DirOpt, FileOpt
<1>2. opt = DirOpt(p) \/ opt = FileOpt(p)
  BY DEF Option
<1> HIDE DEF p
<1>3. QED
  BY <1>1, <1>2

LEMMA BeforeFile ==
  ASSUME NEW hook, NEW i, HookOk(hook), PlainHook(hook), hook.kind = "file"
  PROVE  FileOps(hook, Before(hook, i), "create")
<1> DEFINE m == Len(hook.opts)
           ops == [n \in 1..m |-> [op |-> "create", type |-> hook.opts[n].type,
                                   path |-> hook.opts[n].path]]
<1>1. List(hook.opts) /\ \A n \in 1..m : Option(hook.opts[n]) /\ hook.opts[n].path \in Plain
  BY DEF HookOk, PlainHook
<1>2. m \in Nat
  BY <1>1 DEF List
<1>3. Before(hook, i) = ops
  BY DEF Before
<1>4. \A n \in 1..m : hook.opts[n].type \in {"dir", "file"}
  BY <1>1, OptionType
<1>5. Len(ops) = m
  BY <1>2
<1>6. QED
  BY <1>1, <1>2, <1>3, <1>4, <1>5 DEF FileOps

LEMMA AfterFile ==
  ASSUME NEW hook, NEW i, HookOk(hook), PlainHook(hook), hook.kind = "file"
  PROVE  FileOps(hook, After(hook, i), "delete")
<1> DEFINE m == Len(hook.opts)
           ops == [n \in 1..m |-> [op |-> "delete", type |-> hook.opts[n].type,
                                   path |-> hook.opts[n].path]]
<1>1. List(hook.opts) /\ \A n \in 1..m : Option(hook.opts[n]) /\ hook.opts[n].path \in Plain
  BY DEF HookOk, PlainHook
<1>2. m \in Nat
  BY <1>1 DEF List
<1>3. After(hook, i) = ops
  BY DEF After
<1>4. \A n \in 1..m : hook.opts[n].type \in {"dir", "file"}
  BY <1>1, OptionType
<1>5. Len(ops) = m
  BY <1>2
<1>6. QED
  BY <1>1, <1>2, <1>3, <1>4, <1>5 DEF FileOps

LEMMA ShellOps ==
  ASSUME NEW ops, Operations(ops), PlainCds(ops)
  PROVE  \A n \in 1..Len(ops) : ShellOp(ops[n])
<1> SUFFICES ASSUME NEW n \in 1..Len(ops) PROVE ShellOp(ops[n])
  OBVIOUS
<1> DEFINE op == ops[n]
           p == op.path
<1>1. Command.op = "command" /\ Cd(p).op = "cd"
  BY DEF Command, Cd
<1>2. op = Command \/ op = Cd(p)
  BY DEF Operations
<1>3. op.op = "cd" => p \in Plain
  BY DEF PlainCds
<1> HIDE DEF op, p
<1>4. ShellOp(op)
  <2>1. op.op = "command" \/ op.op = "cd"
    BY <1>1, <1>2
  <2>2. p = op.path
    BY DEF p
  <2>3. QED
    BY <1>3, <2>1, <2>2 DEF ShellOp
<1>5. QED
  BY <1>4 DEF op

LEMMA JoinedSeq ==
  ASSUME NEW T, NEW a \in Seq(T), NEW b \in Seq(T)
  PROVE  /\ a \o b \in Seq(T) /\ Len(a \o b) = Len(a) + Len(b)
         /\ Len(a) \in Nat /\ Len(b) \in Nat
         /\ \A n \in 1..Len(a) : (a \o b)[n] = a[n]
         /\ \A n \in (Len(a) + 1)..(Len(a) + Len(b)) : (a \o b)[n] = b[n - Len(a)]
OBVIOUS

LEMMA BeforeShell ==
  ASSUME NEW hook, NEW i, HookOk(hook), PlainHook(hook), hook.kind # "file"
  PROVE  SaveFirst(Before(hook, i), i)
<1> DEFINE s == hook.before
           T == {s[n] : n \in 1..Len(s)} \cup {[op |-> "save", hook |-> i]}
           one == <<[op |-> "save", hook |-> i]>>
<1>1. Operations(s) /\ \A n \in 1..Len(s) : ShellOp(s[n])
  BY ShellOps DEF HookOk, PlainHook
<1>2. Before(hook, i) = one \o s
  BY DEF Before
<1>3. s \in Seq(T)
  BY <1>1 DEF Operations, List
<1>4. one \in Seq(T) /\ Len(one) = 1 /\ one[1] = [op |-> "save", hook |-> i]
  OBVIOUS
<1> HIDE DEF T, one, s
<1>5. /\ Len(one \o s) = 1 + Len(s) /\ Len(s) \in Nat
      /\ (one \o s)[1] = one[1]
      /\ \A n \in 2..(1 + Len(s)) : (one \o s)[n] = s[n - 1]
  <2>1. /\ Len(one \o s) = Len(one) + Len(s) /\ Len(s) \in Nat
        /\ \A n \in 1..Len(one) : (one \o s)[n] = one[n]
        /\ \A n \in (Len(one) + 1)..(Len(one) + Len(s)) : (one \o s)[n] = s[n - Len(one)]
    BY <1>3, <1>4, JoinedSeq
  <2>2. QED
    BY ONLY <2>1, <1>4
<1>6. ASSUME NEW n \in 2..(1 + Len(s)) PROVE ShellOp((one \o s)[n])
  <2>1. n - 1 \in 1..Len(s)
    BY <1>5
  <2>2. QED
    BY <1>1, <1>5, <2>1
<1>7. QED
  BY <1>2, <1>4, <1>5, <1>6 DEF SaveFirst

LEMMA AfterShell ==
  ASSUME NEW hook, NEW i, HookOk(hook), PlainHook(hook), hook.kind # "file"
  PROVE  ReturnLast(After(hook, i), i)
<1> DEFINE s == hook.after
           T == {s[n] : n \in 1..Len(s)} \cup {[op |-> "return", hook |-> i]}
           one == <<[op |-> "return", hook |-> i]>>
<1>1. Operations(s) /\ \A n \in 1..Len(s) : ShellOp(s[n])
  BY ShellOps DEF HookOk, PlainHook
<1>2. After(hook, i) = s \o one
  BY DEF After
<1>3. s \in Seq(T)
  BY <1>1 DEF Operations, List
<1>4. one \in Seq(T) /\ Len(one) = 1 /\ one[1] = [op |-> "return", hook |-> i]
  OBVIOUS
<1> HIDE DEF T, one, s
<1>5. /\ Len(s \o one) = Len(s) + 1 /\ Len(s) \in Nat
      /\ (s \o one)[Len(s) + 1] = one[1]
      /\ \A n \in 1..Len(s) : (s \o one)[n] = s[n]
  BY <1>3, <1>4, JoinedSeq
<1>6. QED
  BY <1>1, <1>2, <1>4, <1>5 DEF ReturnLast

(***************************************************************************)
(* The invariant.  w has the working directory that each hook's before()   *)
(* was called in, and after the last hook the test.                        *)
(***************************************************************************)
N == Len(suite.hooks)

Types ==
  /\ suite \in Suites /\ turn \in 1..(N + 1) /\ pc \in Nat /\ pc >= 1
  /\ dirs \subseteq Plain /\ created \subseteq Plain /\ dirs \cap files = {}
  /\ cwd \in Plain /\ saved \in [1..N -> Plain]

(* Hook k keeps the directory, or has saved it.                            *)
Left(w, k) ==
  IF suite.hooks[k].kind = "file" THEN w[k + 1] = w[k] ELSE saved[k] = w[k]

(* p was created by hook k for its n-th option.                            *)
Made(w, p, k, n) ==
  /\ suite.hooks[k].kind = "file" /\ n \in 1..Len(suite.hooks[k].opts)
  /\ p = w[k] \o suite.hooks[k].opts[n].path

Begun(w) ==
  phase = "before" =>
    /\ \A k \in 1..N : k < turn => Left(w, k)
    /\ \/ cwd = w[turn]
       \/ turn <= N /\ suite.hooks[turn].kind # "file" /\ pc > 1
    /\ turn <= N /\ suite.hooks[turn].kind # "file" /\ pc > 1 => saved[turn] = w[turn]
    /\ \A p \in created : \E k \in 1..N, n \in Nat :
         Made(w, p, k, n) /\ (k < turn \/ (k = turn /\ n < pc))

Tested(w) ==
  phase = "test" =>
    /\ \A k \in 1..N : Left(w, k)
    /\ cwd = w[N + 1]
    /\ \A p \in created : \E k \in 1..N, n \in Nat : Made(w, p, k, n)

Undone(w) ==
  phase = "after" =>
    /\ \A k \in 1..N : Left(w, k)
    /\ turn = N + 1 => cwd = w[1]
    /\ turn <= N =>
         /\ pc = 1 => cwd = w[Hook + 1]
         /\ suite.hooks[Hook].kind = "file" \/ pc > Len(Ops) => cwd = w[Hook]
    /\ \A p \in created \cap (dirs \cup files) : \E k \in 1..N, n \in Nat :
         Made(w, p, k, n) /\ (k < Hook \/ (k = Hook /\ n >= pc))

Trail(w) ==
  /\ w \in [1..(N + 1) -> Plain] /\ w[1] = <<>>
  /\ Begun(w) /\ Tested(w) /\ Undone(w)

CInv == Types /\ ReturnsClean /\ \E w : Trail(w)

-----------------------------------------------------------------------------
(* What the operations do.                                                 *)

LEMMA HookIs ==
  ASSUME OutApart, Types, NEW i \in 1..N
  PROVE  HookOk(suite.hooks[i]) /\ PlainHook(suite.hooks[i])
BY SuiteAssumption DEF OutApart, Types, N

LEMMA NIsNat == Types => N \in Nat
BY SuiteAssumption DEF Types, N, List

LEMMA HookInRange ==
  ASSUME Types, turn <= N PROVE Hook \in 1..N /\ (phase = "before" => Hook = turn)
                                /\ (phase # "before" => Hook = N + 1 - turn)
BY NIsNat DEF Types, Hook, Reversed, N

LEMMA OpsBefore ==
  ASSUME OutApart, Types, turn <= N, phase = "before"
  PROVE  IF suite.hooks[turn].kind = "file" THEN FileOps(suite.hooks[turn], Ops, "create")
         ELSE SaveFirst(Ops, turn)
<1>1. turn \in 1..N /\ Ops = Before(suite.hooks[turn], turn)
  BY NIsNat DEF Types, Ops, Hook
<1>2. QED
  BY <1>1, HookIs, BeforeFile, BeforeShell

LEMMA OpsAfter ==
  ASSUME OutApart, Types, turn <= N, phase # "before"
  PROVE  IF suite.hooks[Hook].kind = "file" THEN FileOps(suite.hooks[Hook], Ops, "delete")
         ELSE ReturnLast(Ops, Hook)
<1>1. Hook \in 1..N /\ Ops = After(suite.hooks[Hook], Hook)
  BY HookInRange DEF Ops
<1>2. QED
  BY <1>1, HookIs, AfterFile, AfterShell

LEMMA PlainJoined ==
  ASSUME NEW p \in Plain, NEW q \in Plain PROVE p \o q \in Plain
BY DEF Plain

LEMMA PlainParents ==
  ASSUME NEW p \in Plain PROVE Parents(p) \subseteq Plain
BY DEF Plain, Parents

LEMMA DoCreate ==
  ASSUME Types, NEW op, op.op = "create", op.type \in {"dir", "file"}, op.path \in Plain,
         DoOp(op)
  PROVE  /\ created' = created \cup {cwd \o op.path} /\ cwd \o op.path \in Plain
         /\ dirs' \subseteq Plain /\ dirs' \cap files' = {}
         /\ cwd' = cwd /\ saved' = saved
<1> DEFINE p == cwd \o op.path
<1>1. p \in Plain
  BY PlainJoined DEF Types
<1>2. Create(op.type, p)
  BY DEF DoOp
<1>3. Parents(p) \subseteq Plain
  BY <1>1, PlainParents
<1> HIDE DEF p
<1>4. QED
  BY <1>1, <1>2, <1>3 DEF Create, Types, p

LEMMA DoDelete ==
  ASSUME Types, NEW op, op.op = "delete", op.type \in {"dir", "file"}, op.path \in Plain,
         DoOp(op)
  PROVE  /\ cwd \o op.path \notin dirs' \cup files'
         /\ dirs' \subseteq dirs /\ files' \subseteq files
         /\ cwd' = cwd /\ saved' = saved /\ created' = created
<1> DEFINE p == cwd \o op.path
<1>1. p \in Plain
  BY PlainJoined DEF Types
<1>2. Delete(op.type, p)
  BY DEF DoOp
<1>3. IsPrefix(p, p)
  BY <1>1 DEF IsPrefix, Plain
<1> HIDE DEF p
<1>4. QED
  BY <1>1, <1>2, <1>3 DEF Delete, Below, Types, p

LEMMA DoShell ==
  ASSUME Types, NEW op, ShellOp(op), DoOp(op)
  PROVE  /\ cwd' \in Plain
         /\ dirs' = dirs /\ files' = files /\ saved' = saved /\ created' = created
<1>1. CASE op.op = "command"
  BY <1>1 DEF DoOp, fsVars, Types
<1>2. CASE op.op = "cd" /\ op.path \in Plain
  <2>1. Chdir(cwd \o op.path)
    BY <1>2 DEF DoOp
  <2>2. QED
    BY <1>2, <2>1, PlainJoined DEF Chdir, Types
<1>3. QED
  BY <1>1, <1>2 DEF ShellOp

LEMMA DoSave ==
  ASSUME NEW i, NEW op, op = [op |-> "save", hook |-> i], DoOp(op)
  PROVE  /\ saved' = [saved EXCEPT ![i] = cwd]
         /\ cwd' = cwd /\ dirs' = dirs /\ files' = files /\ created' = created
<1>1. op.op = "save" /\ op.hook = i
  OBVIOUS
<1>2. QED
  BY ONLY <1>1, DoOp(op) DEF DoOp

LEMMA DoReturn ==
  ASSUME NEW i, NEW op, op = [op |-> "return", hook |-> i], DoOp(op)
  PROVE  /\ cwd' = saved[i]
         /\ saved' = saved /\ dirs' = dirs /\ files' = files /\ created' = created
<1>1. op.op = "return" /\ op.hook = i
  OBVIOUS
<1>2. QED
  BY ONLY <1>1, DoOp(op) DEF DoOp, Chdir

-----------------------------------------------------------------------------
(* Each action.                                                            *)

LEMMA CInvInit == OutApart /\ Init => CInv
<1> SUFFICES ASSUME OutApart, Init PROVE CInv
  OBVIOUS
<1> DEFINE w == [k \in 1..(N + 1) |-> <<>>]
<1>1. N \in Nat /\ suite \in Suites
  BY SuiteAssumption DEF Init, N, List
<1>2. <<>> \in Plain
  BY DEF Plain
<1>3. Types
  BY <1>1, <1>2 DEF Init, Types, OutApart, N
<1>4. ReturnsClean
  BY DEF Init, ReturnsClean
<1>5. w \in [1..(N + 1) -> Plain] /\ w[1] = <<>>
  BY <1>1, <1>2
<1>6. Begun(w) /\ Tested(w) /\ Undone(w)
  BY <1>1, <1>5 DEF Init, Begun, Tested, Undone
<1>7. QED
  BY <1>3, <1>4, <1>5, <1>6 DEF CInv, Trail

(* before() of a FileHook makes files in the directory it was called in;   *)
(* that of a ShellHook saves the directory first.                          *)
LEMMA HookOpBefore ==
  ASSUME OutApart, Types, NEW w, Trail(w), HookOp, phase = "before"
  PROVE  Types' /\ Trail(w)'
<1> DEFINE op == Ops[pc]
<1>1. /\ turn \in 1..N /\ N \in Nat /\ pc \in 1..Len(Ops) /\ pc \in Nat /\ DoOp(op)
      /\ pc' = pc + 1 /\ suite' = suite /\ phase' = phase /\ turn' = turn
  <2>1. N \in Nat /\ turn \in 1..(N + 1) /\ pc \in Nat /\ pc >= 1
    BY NIsNat DEF Types
  <2>2. turn <= N /\ pc <= Len(Ops) /\ DoOp(op) /\ pc' = pc + 1
        /\ suite' = suite /\ phase' = phase /\ turn' = turn
    BY DEF HookOp, InHooks, N
  <2>3. Len(Ops) \in Nat
    BY <2>2, OpsBefore DEF FileOps, SaveFirst
  <2>4. QED
    BY <2>1, <2>2, <2>3
<1>2. N' = N
  BY <1>1 DEF N
<1>3. CASE suite.hooks[turn].kind = "file"
  <2>1. op.op = "create" /\ op.type \in {"dir", "file"} /\ op.path \in Plain
        /\ op.path = suite.hooks[turn].opts[pc].path /\ pc \in 1..Len(suite.hooks[turn].opts)
    BY <1>1, <1>3, OpsBefore DEF FileOps
  <2>2. /\ created' = created \cup {cwd \o op.path} /\ cwd \o op.path \in Plain
        /\ dirs' \subseteq Plain /\ dirs' \cap files' = {} /\ cwd' = cwd /\ saved' = saved
    BY <1>1, <2>1, DoCreate
  <2> HIDE DEF op
  <2>3. Types'
    <3>1. pc' \in Nat /\ pc' >= 1
      BY <1>1
    <3>2. created' \subseteq Plain
      BY <2>2 DEF Types
    <3>3. QED
      BY <1>1, <1>2, <2>2, <3>1, <3>2 DEF Types
  <2>4. cwd = w[turn]
    BY <1>3 DEF Trail, Begun
  <2>5. \A p \in created' : \E k \in 1..N, n \in Nat :
          Made(w, p, k, n)' /\ (k < turn' \/ (k = turn' /\ n < pc'))
    <3> SUFFICES ASSUME NEW p \in created'
                 PROVE \E k \in 1..N, n \in Nat :
                   Made(w, p, k, n)' /\ (k < turn' \/ (k = turn' /\ n < pc'))
      OBVIOUS
    <3>1. CASE p \in created
      <4>1. PICK k \in 1..N, n \in Nat : Made(w, p, k, n) /\ (k < turn \/ (k = turn /\ n < pc))
        BY <3>1 DEF Trail, Begun
      <4>2. Made(w, p, k, n)'
        BY <4>1, <1>1 DEF Made
      <4>3. QED
        BY <4>1, <4>2, <1>1
    <3>2. CASE p = cwd \o op.path
      <4>1. PICK k, n : k = turn /\ n = pc
        OBVIOUS
      <4>2. Made(w, p, k, n)'
        BY <3>2, <4>1, <2>1, <2>4, <1>1, <1>3 DEF Made
      <4>3. k \in 1..N /\ n \in Nat /\ k = turn' /\ n < pc'
        BY <4>1, <1>1
      <4>4. QED
        BY <4>2, <4>3
    <3>3. QED
      BY <3>1, <3>2, <2>2
  <2>6. Trail(w)'
    BY <1>1, <1>2, <1>3, <2>2, <2>4, <2>5 DEF Trail, Begun, Tested, Undone, Left
  <2>7. QED
    BY <2>3, <2>6
<1>4. CASE suite.hooks[turn].kind # "file"
  <2>1. SaveFirst(Ops, turn)
    BY <1>1, <1>4, OpsBefore
  <2>2. /\ dirs' = dirs /\ files' = files /\ created' = created /\ cwd' \in Plain
        /\ saved' = IF pc = 1 THEN [saved EXCEPT ![turn] = cwd] ELSE saved
    <3>1. CASE pc = 1
      BY <3>1, <2>1, <1>1, DoSave DEF SaveFirst, Types
    <3>2. CASE pc # 1
      <4>1. ShellOp(op)
        BY <3>2, <2>1, <1>1 DEF SaveFirst
      <4>2. QED
        BY <3>2, <4>1, <1>1, DoShell
    <3>3. QED
      BY <3>1, <3>2
  <2> HIDE DEF op
  <2>3. Types'
    BY <1>1, <1>2, <2>2 DEF Types
  <2>4. saved'[turn] = w[turn]
    <3>1. pc = 1 => cwd = w[turn]
      BY <1>1 DEF Trail, Begun
    <3>2. pc # 1 => saved[turn] = w[turn]
      BY <1>1, <1>4 DEF Trail, Begun
    <3>3. QED
      BY <3>1, <3>2, <2>2, <1>1 DEF Types
  <2>5. \A k \in 1..N : k < turn => Left(w, k)'
    <3>1. \A k \in 1..N : k < turn => saved'[k] = saved[k]
      BY <2>2, <1>1 DEF Types
    <3>2. QED
      BY <3>1, <1>1 DEF Trail, Begun, Left
  <2>6. \A p \in created' : \E k \in 1..N, n \in Nat :
          Made(w, p, k, n)' /\ (k < turn' \/ (k = turn' /\ n < pc'))
    <3> SUFFICES ASSUME NEW p \in created'
                 PROVE \E k \in 1..N, n \in Nat :
                   Made(w, p, k, n)' /\ (k < turn' \/ (k = turn' /\ n < pc'))
      OBVIOUS
    <3>1. PICK k \in 1..N, n \in Nat : Made(w, p, k, n) /\ (k < turn \/ (k = turn /\ n < pc))
      BY <2>2, <1>1 DEF Trail, Begun
    <3>2. Made(w, p, k, n)'
      BY <3>1, <1>1 DEF Made
    <3>3. QED
      BY <3>1, <3>2, <1>1
  <2>7. Trail(w)'
    BY <1>1, <1>2, <1>4, <2>4, <2>5, <2>6 DEF Trail, Begun, Tested, Undone
  <2>8. QED
    BY <2>3, <2>7
<1>5. QED
  BY <1>3, <1>4

(* after() of a FileHook is called where before() was, so that it deletes  *)
(* what that one made; that of a ShellHook returns there.                  *)
LEMMA HookOpAfter ==
  ASSUME OutApart, Types, NEW w, Trail(w), HookOp, phase = "after"
  PROVE  Types' /\ Trail(w)'
<1> DEFINE op == Ops[pc]
<1> PICK h, c : h = Hook /\ c = pc
  OBVIOUS
<1>1. /\ turn \in 1..N /\ N \in Nat /\ h \in 1..N /\ c \in 1..Len(Ops) /\ c \in Nat /\ DoOp(op)
      /\ pc' = c + 1 /\ suite' = suite /\ phase' = phase /\ turn' = turn /\ Len(Ops) \in Nat
  <2>1. N \in Nat /\ turn \in 1..(N + 1) /\ pc \in Nat /\ pc >= 1
    BY NIsNat DEF Types
  <2>2. turn <= N /\ pc <= Len(Ops) /\ DoOp(op) /\ pc' = pc + 1
        /\ suite' = suite /\ phase' = phase /\ turn' = turn
    BY DEF HookOp, InHooks, N
  <2>3. Len(Ops) \in Nat
    BY <2>2, OpsAfter DEF FileOps, ReturnLast
  <2>4. QED
    BY <2>1, <2>2, <2>3, HookInRange
<1>2. N' = N /\ Hook' = h /\ Ops' = Ops
  BY <1>1 DEF N, Hook, Reversed, Ops
<1>3. CASE suite.hooks[h].kind = "file"
  <2>1. op.op = "delete" /\ op.type \in {"dir", "file"} /\ op.path \in Plain
        /\ op.path = suite.hooks[h].opts[c].path
    BY <1>1, <1>3, OpsAfter DEF FileOps
  <2>2. /\ cwd \o op.path \notin dirs' \cup files' /\ dirs' \subseteq dirs /\ files' \subseteq files
        /\ cwd' = cwd /\ saved' = saved /\ created' = created
    BY <1>1, <2>1, DoDelete
  <2> HIDE DEF op
  <2>3. Types'
    <3>1. pc' \in Nat /\ pc' >= 1
      BY <1>1
    <3>2. dirs' \cap files' = {} /\ dirs' \subseteq Plain
      BY <2>2 DEF Types
    <3>3. QED
      BY <1>1, <1>2, <2>2, <3>1, <3>2 DEF Types
  <2>4. cwd = w[h]
    BY <1>1, <1>3 DEF Trail, Undone
  <2>5. \A p \in created' \cap (dirs' \cup files') : \E k \in 1..N, n \in Nat :
          Made(w, p, k, n)' /\ (k < h \/ (k = h /\ n >= c + 1))
    <3> SUFFICES ASSUME NEW p \in created' \cap (dirs' \cup files')
                 PROVE \E k \in 1..N, n \in Nat :
                   Made(w, p, k, n)' /\ (k < h \/ (k = h /\ n >= c + 1))
      OBVIOUS
    <3>1. PICK k \in 1..N, n \in Nat : Made(w, p, k, n) /\ (k < h \/ (k = h /\ n >= c))
      BY <2>2, <1>1 DEF Trail, Undone
    <3>2. ~(k = h /\ n = c)
      BY <3>1, <2>1, <2>2, <2>4 DEF Made
    <3>3. Made(w, p, k, n)'
      BY <3>1, <1>1 DEF Made
    <3>4. QED
      BY <3>1, <3>2, <3>3, <1>1
  <2>6. \A k \in 1..N : Left(w, k)'
    BY <1>1, <2>2 DEF Trail, Undone, Left
  <2>7. Undone(w)'
    BY ONLY <1>1, <1>2, <1>3, <2>2, <2>4, <2>5, <2>6 DEF Undone
  <2>8. Trail(w)'
    BY <1>1, <1>2, <2>7 DEF Trail, Begun, Tested
  <2>9. QED
    BY <2>3, <2>8
<1>4. CASE suite.hooks[h].kind # "file"
  <2>1. ReturnLast(Ops, h)
    BY <1>1, <1>4, OpsAfter
  <2>2. saved[h] = w[h] /\ saved[h] \in Plain
    BY <1>1, <1>4 DEF Trail, Undone, Left, Types
  <2>3. /\ dirs' = dirs /\ files' = files /\ created' = created /\ cwd' \in Plain
        /\ saved' = saved /\ (c = Len(Ops) => cwd' = w[h])
    <3>1. CASE c = Len(Ops)
      BY <3>1, <2>1, <2>2, <1>1, DoReturn DEF ReturnLast
    <3>2. CASE c # Len(Ops)
      <4>1. ShellOp(op)
        BY <3>2, <2>1, <1>1 DEF ReturnLast
      <4>2. QED
        BY <3>2, <4>1, <1>1, DoShell
    <3>3. QED
      BY <3>1, <3>2
  <2> HIDE DEF op
  <2>4. Types'
    <3>1. pc' \in Nat /\ pc' >= 1
      BY <1>1
    <3>2. QED
      BY <1>1, <1>2, <2>3, <3>1 DEF Types
  <2>5. \A p \in created' \cap (dirs' \cup files') : \E k \in 1..N, n \in Nat :
          Made(w, p, k, n)' /\ (k < h \/ (k = h /\ n >= c + 1))
    <3> SUFFICES ASSUME NEW p \in created' \cap (dirs' \cup files')
                 PROVE \E k \in 1..N, n \in Nat :
                   Made(w, p, k, n)' /\ (k < h \/ (k = h /\ n >= c + 1))
      OBVIOUS
    <3>1. PICK k \in 1..N, n \in Nat : Made(w, p, k, n) /\ (k < h \/ (k = h /\ n >= c))
      BY <2>3, <1>1 DEF Trail, Undone
    <3>2. k # h
      BY <3>1, <1>4 DEF Made
    <3>3. Made(w, p, k, n)'
      BY <3>1, <1>1 DEF Made
    <3>4. QED
      BY <3>1, <3>2, <3>3, <1>1
  <2>6. \A k \in 1..N : Left(w, k)'
    BY <1>1, <2>3 DEF Trail, Undone, Left
  <2>7. (pc' > Len(Ops) => cwd' = w[h]) /\ pc' # 1
    BY <1>1, <2>3
  <2>8. Undone(w)'
    BY ONLY <1>1, <1>2, <1>4, <2>3, <2>5, <2>6, <2>7 DEF Undone
  <2>9. Trail(w)'
    BY <1>1, <1>2, <2>8 DEF Trail, Begun, Tested
  <2>10. QED
    BY <2>4, <2>9
<1>5. QED
  BY <1>3, <1>4

LEMMA NextHookBefore ==
  ASSUME OutApart, Types, NEW w, Trail(w), NextHook, phase = "before"
  PROVE  Types' /\ \E v : Trail(v)'
<1> PICK h : h = turn
  OBVIOUS
<1> PICK v : v = [w EXCEPT ![h + 1] = cwd]
  OBVIOUS
<1>1. /\ h \in 1..N /\ N \in Nat /\ pc > Len(Ops) /\ turn' = h + 1 /\ pc' = 1
      /\ suite' = suite /\ phase' = phase /\ cwd' = cwd /\ dirs' = dirs /\ files' = files
      /\ saved' = saved /\ created' = created
  BY NIsNat DEF NextHook, InHooks, N, fsVars, Types
<1>2. N' = N
  BY <1>1 DEF N
<1>3. Types'
  BY <1>1, <1>2 DEF Types
<1>4. /\ v \in [1..(N + 1) -> Plain] /\ v[1] = <<>> /\ v[h + 1] = cwd
      /\ \A k \in 1..N : k # h + 1 => v[k] = w[k]
  BY <1>1 DEF Trail, Types
<1>5. \A k \in 1..h : v[k] = w[k]
  BY <1>1, <1>4
<1>6. Left(v, h)
  <2>1. CASE suite.hooks[h].kind = "file"
    BY <2>1, <1>1, <1>4, <1>5 DEF Trail, Begun, Left
  <2>2. CASE suite.hooks[h].kind # "file"
    <3>1. SaveFirst(Ops, h)
      BY <2>2, <1>1, OpsBefore
    <3>2. pc > 1
      BY <3>1, <1>1 DEF SaveFirst, Types
    <3>3. QED
      BY <2>2, <3>2, <1>1, <1>5 DEF Trail, Begun, Left
  <2>3. QED
    BY <2>1, <2>2
<1>7. \A k \in 1..N : k < h + 1 => Left(v, k)'
  <2> SUFFICES ASSUME NEW k \in 1..N, k < h + 1 PROVE Left(v, k)'
    OBVIOUS
  <2>1. Left(v, k)
    <3>1. CASE k = h
      BY <3>1, <1>6
    <3>2. CASE k < h
      <4>1. Left(w, k)
        BY <3>2, <1>1 DEF Trail, Begun
      <4>2. v[k] = w[k] /\ v[k + 1] = w[k + 1]
        BY <3>2, <1>1, <1>5
      <4>3. QED
        BY <4>1, <4>2 DEF Left
    <3>3. QED
      BY <3>1, <3>2, <1>1
  <2>2. QED
    BY <2>1, <1>1 DEF Left
<1>8. \A p \in created' : \E k \in 1..N, n \in Nat : Made(v, p, k, n)' /\ k < h + 1
  <2> SUFFICES ASSUME NEW p \in created'
               PROVE \E k \in 1..N, n \in Nat : Made(v, p, k, n)' /\ k < h + 1
    OBVIOUS
  <2>1. PICK k \in 1..N, n \in Nat : Made(w, p, k, n) /\ k <= h
    BY <1>1 DEF Trail, Begun
  <2>2. v[k] = w[k]
    BY <2>1, <1>5, <1>1
  <2>3. Made(v, p, k, n)'
    BY <2>1, <2>2, <1>1 DEF Made
  <2>4. QED
    BY <2>1, <2>3, <1>1
<1>9. Begun(v)'
  BY ONLY <1>1, <1>2, <1>4, <1>7, <1>8 DEF Begun
<1>10. Trail(v)'
  BY <1>1, <1>2, <1>4, <1>9 DEF Trail, Tested, Undone
<1>11. QED
  BY <1>3, <1>10

LEMMA NextHookAfter ==
  ASSUME OutApart, Types, NEW w, Trail(w), NextHook, phase = "after"
  PROVE  Types' /\ Trail(w)'
<1> PICK h, t : h = Hook /\ t = turn
  OBVIOUS
<1>1. /\ h \in 1..N /\ N \in Nat /\ t \in 1..N /\ h = N + 1 - t
      /\ pc > Len(Ops) /\ turn' = t + 1 /\ pc' = 1
      /\ suite' = suite /\ phase' = phase /\ cwd' = cwd /\ dirs' = dirs /\ files' = files
      /\ saved' = saved /\ created' = created
  BY NIsNat, HookInRange DEF NextHook, InHooks, N, fsVars, Types
<1>2. N' = N /\ Hook' = h - 1
  <2>1. N' = N /\ phase' # "before"
    BY <1>1 DEF N
  <2>2. Hook' = N' + 1 - turn'
    BY <2>1 DEF N, Hook, Reversed
  <2>3. QED
    BY ONLY <1>1, <2>1, <2>2
<1>3. Types'
  BY <1>1, <1>2 DEF Types
<1>4. cwd = w[h]
  BY <1>1 DEF Trail, Undone
<1>5. \A k \in 1..N : Left(w, k)'
  BY <1>1 DEF Trail, Undone, Left
<1>6. \A p \in created' \cap (dirs' \cup files') : \E k \in 1..N, n \in Nat :
        Made(w, p, k, n)' /\ (k < h - 1 \/ (k = h - 1 /\ n >= 1))
  <2> SUFFICES ASSUME NEW p \in created' \cap (dirs' \cup files')
               PROVE \E k \in 1..N, n \in Nat :
                 Made(w, p, k, n)' /\ (k < h - 1 \/ (k = h - 1 /\ n >= 1))
    OBVIOUS
  <2>1. PICK k \in 1..N, n \in Nat : Made(w, p, k, n) /\ (k < h \/ (k = h /\ n >= pc))
    BY <1>1 DEF Trail, Undone
  <2>2. ~(k = h /\ n >= pc)
    <3> SUFFICES ASSUME k = h, n >= pc PROVE FALSE
      OBVIOUS
    <3>1. n \in 1..Len(suite.hooks[h].opts) /\ suite.hooks[h].kind = "file"
      BY <2>1 DEF Made
    <3>2. Len(Ops) = Len(suite.hooks[h].opts) /\ Len(Ops) \in Nat
      BY <1>1, <3>1, OpsAfter DEF FileOps
    <3>3. QED
      BY <1>1, <3>1, <3>2 DEF Types
  <2>3. n >= 1 /\ Made(w, p, k, n)'
    BY <2>1, <1>1 DEF Made
  <2>4. QED
    BY <2>1, <2>2, <2>3, <1>1
<1>7. t < N => /\ h - 1 \in 1..N
               /\ suite.hooks[h - 1].kind = "file" => cwd = w[h - 1]
               /\ suite.hooks[h - 1].kind # "file" => ~(1 > Len(Ops'))
  <2> SUFFICES ASSUME t < N
               PROVE /\ h - 1 \in 1..N
                     /\ suite.hooks[h - 1].kind = "file" => cwd = w[h - 1]
                     /\ suite.hooks[h - 1].kind # "file" => ~(1 > Len(Ops'))
    OBVIOUS
  <2>1. h - 1 \in 1..N /\ (h - 1) + 1 = h
    BY <1>1
  <2>2. Left(w, h - 1)
    BY <2>1, <1>1 DEF Trail, Undone
  <2>3. Ops' = After(suite.hooks[h - 1], h - 1)
    BY <1>1, <1>2 DEF Ops
  <2>4. suite.hooks[h - 1].kind # "file" => ReturnLast(Ops', h - 1)
    BY <2>1, <2>3, HookIs, AfterShell
  <2>5. QED
    BY <2>1, <2>2, <2>4, <1>4 DEF Left, ReturnLast
<1>8. Undone(w)'
  <2>1. turn' = N' + 1 => cwd' = w[1]
    BY <1>1, <1>2, <1>4
  <2>2. turn' <= N' => (pc' = 1 => cwd' = w[Hook' + 1])
    BY <1>1, <1>2, <1>4
  <2>3. turn' <= N' =>
          (suite'.hooks[Hook'].kind = "file" \/ pc' > Len(Ops') => cwd' = w[Hook'])
    BY ONLY <1>1, <1>2, <1>7
  <2>4. QED
    BY ONLY <2>1, <2>2, <2>3, <1>1, <1>2, <1>5, <1>6 DEF Undone
<1>9. Trail(w)'
  BY <1>1, <1>2, <1>8 DEF Trail, Begun, Tested
<1>10. QED
  BY <1>3, <1>9

(* The finally clause begins where the last hook's before() has led.       *)
LEMMA FinallyUndone ==
  ASSUME OutApart, Types, NEW w \in [1..(N + 1) -> Plain], w[1] = <<>>,
         \A k \in 1..N : Left(w, k), cwd = w[N + 1],
         \A p \in created : \E k \in 1..N, n \in Nat : Made(w, p, k, n),
         NEW out, Finally(out), suite' = suite, UNCHANGED fsVars
  PROVE  Types' /\ ReturnsClean' /\ Trail(w)'
<1>1. /\ N \in Nat /\ turn' = 1 /\ pc' = 1 /\ phase' = "after" /\ cwd' = cwd /\ dirs' = dirs
      /\ files' = files /\ saved' = saved /\ created' = created
  BY NIsNat DEF Finally, fsVars
<1>2. N' = N /\ Hook' = N
  BY <1>1 DEF N, Hook, Reversed
<1>3. Types'
  BY <1>1, <1>2 DEF Types
<1>4. \A k \in 1..N : Left(w, k)'
  BY <1>1 DEF Left
<1>5. \A p \in created' : \E k \in 1..N, n \in Nat :
        Made(w, p, k, n)' /\ (k < N \/ (k = N /\ n >= 1))
  <2> SUFFICES ASSUME NEW p \in created'
               PROVE \E k \in 1..N, n \in Nat :
                 Made(w, p, k, n)' /\ (k < N \/ (k = N /\ n >= 1))
    OBVIOUS
  <2>1. PICK k \in 1..N, n \in Nat : Made(w, p, k, n)
    BY <1>1
  <2>2. n >= 1 /\ Made(w, p, k, n)'
    BY <2>1, <1>1 DEF Made
  <2>3. QED
    BY <2>2, <1>1
<1>6. 1 <= N => /\ suite.hooks[N].kind = "file" => cwd = w[N]
                /\ suite.hooks[N].kind # "file" => ~(1 > Len(Ops'))
  <2> SUFFICES ASSUME 1 <= N
               PROVE /\ suite.hooks[N].kind = "file" => cwd = w[N]
                     /\ suite.hooks[N].kind # "file" => ~(1 > Len(Ops'))
    OBVIOUS
  <2>1. N \in 1..N
    BY <1>1
  <2>2. Ops' = After(suite.hooks[N], N)
    BY <1>1, <1>2 DEF Ops
  <2>3. suite.hooks[N].kind # "file" => ReturnLast(Ops', N)
    BY <2>1, <2>2, HookIs, AfterShell
  <2>4. QED
    BY <2>1, <2>3 DEF Left, ReturnLast
<1>7. Undone(w)'
  <2>1. turn' = N' + 1 => cwd' = w[1]
    BY <1>1, <1>2
  <2>2. turn' <= N' =>
          /\ pc' = 1 => cwd' = w[Hook' + 1]
          /\ suite'.hooks[Hook'].kind = "file" \/ pc' > Len(Ops') => cwd' = w[Hook']
    BY <1>1, <1>2, <1>6
  <2>3. QED
    BY ONLY <2>1, <2>2, <1>1, <1>2, <1>4, <1>5 DEF Undone
<1>8. Trail(w)'
  BY <1>1, <1>2, <1>7 DEF Trail, Begun, Tested
<1>9. ReturnsClean'
  BY <1>1 DEF ReturnsClean
<1>10. QED
  BY <1>3, <1>8, <1>9

LEMMA PopenClean ==
  ASSUME OutApart, Types, NEW w, Trail(w), Popen
  PROVE  Types' /\ ReturnsClean' /\ Trail(w)'
<1>1. /\ N \in Nat /\ turn = N + 1 /\ phase = "before" /\ suite' = suite
      /\ cwd' = cwd /\ dirs' = dirs /\ files' = files /\ saved' = saved /\ created' = created
  BY NIsNat DEF Popen, N, fsVars, Types
<1>2. /\ \A k \in 1..N : Left(w, k)
      /\ cwd = w[N + 1]
      /\ \A p \in created : \E k \in 1..N, n \in Nat : Made(w, p, k, n)
  BY <1>1 DEF Trail, Begun
<1>3. N' = N
  BY <1>1 DEF N
<1>4. CASE phase' = "test" /\ turn' = turn /\ pc' = pc
  <2>1. Types'
    BY <1>1, <1>3, <1>4 DEF Types
  <2>2. \A k \in 1..N : Left(w, k)'
    BY <1>1, <1>2 DEF Left
  <2>3. \A p \in created' : \E k \in 1..N, n \in Nat : Made(w, p, k, n)'
    BY <1>1, <1>2 DEF Made
  <2>4. Tested(w)'
    BY ONLY <1>1, <1>2, <1>3, <2>2, <2>3 DEF Tested
  <2>5. QED
    BY <1>3, <1>4, <2>1, <2>4 DEF Trail, Begun, Undone, ReturnsClean
<1>5. CASE Finally("raise")
  BY <1>1, <1>2, <1>5, FinallyUndone DEF Trail, fsVars
<1>6. QED
  BY <1>4, <1>5 DEF Popen

LEMMA EndOfTest ==
  ASSUME OutApart, Types, NEW w, Trail(w), Completed \/ Timeout
  PROVE  Types' /\ ReturnsClean' /\ Trail(w)'
<1>1. phase = "test" /\ suite' = suite /\ UNCHANGED fsVars /\ \E out : Finally(out)
  BY DEF Completed, Timeout
<1>2. QED
  BY <1>1, FinallyUndone DEF Trail, Tested

(* Unchanged as the hooks see it: whatever the test writes is not theirs.  *)
LEMMA Aside ==
  ASSUME Types, ReturnsClean, NEW w, Trail(w),
         suite' = suite, phase' = phase, turn' = turn, pc' = pc, cwd' = cwd, dirs' = dirs,
         saved' = saved, created' = created, outcome' = outcome,
         files' \cap Plain = files \cap Plain
  PROVE  Types' /\ ReturnsClean' /\ Trail(w)'
<1>1. N' = N /\ Hook' = Hook /\ Ops' = Ops
  BY DEF N, Hook, Reversed, Ops
<1>2. created' \cap (dirs' \cup files') = created \cap (dirs \cup files)
      /\ dirs' \cap files' = {}
  BY DEF Types
<1>3. Types'
  BY <1>1, <1>2 DEF Types
<1>4. ReturnsClean'
  BY <1>2 DEF ReturnsClean, Clean
<1>5. \A k : Left(w, k)' = Left(w, k)
  BY DEF Left
<1>6. \A p, k, n : Made(w, p, k, n)' = Made(w, p, k, n)
  BY DEF Made
<1>7. Begun(w)' /\ Tested(w)'
  BY <1>1, <1>5, <1>6 DEF Trail, Begun, Tested
<1>8. Undone(w)'
  BY <1>1, <1>2, <1>5, <1>6 DEF Trail, Undone
<1>9. QED
  BY <1>1, <1>3, <1>4, <1>7, <1>8 DEF Trail

LEMMA TestWritesAside ==
  ASSUME Types, TestWrites PROVE files' \cap Plain = files \cap Plain
<1>1. where \in Plain
  BY DEF TestWrites, Types
<1>2. Append(where, Out) \notin Plain
  BY <1>1, SuiteAssumption DEF Plain
<1>3. QED
  BY <1>2 DEF TestWrites

LEMMA CInvStep == OutApart /\ CInv /\ [Next]_vars => CInv'
<1> SUFFICES ASSUME OutApart, CInv, [Next]_vars PROVE CInv'
  OBVIOUS
<1> PICK w : Trail(w)
  BY DEF CInv
<1>0. Types /\ ReturnsClean
  BY DEF CInv
<1> SUFFICES Types' /\ ReturnsClean' /\ \E v : Trail(v)'
  BY DEF CInv
<1>1. CASE HookOp
  <2>1. phase' = phase /\ phase \in {"before", "after"}
    BY <1>1 DEF HookOp, InHooks
  <2>2. ReturnsClean'
    BY <2>1 DEF ReturnsClean
  <2>3. QED
    BY <1>0, <1>1, <2>1, <2>2, HookOpBefore, HookOpAfter
<1>2. CASE NextHook
  <2>1. phase' = phase /\ phase \in {"before", "after"}
    BY <1>2 DEF NextHook, InHooks
  <2>2. ReturnsClean'
    BY <2>1 DEF ReturnsClean
  <2>3. QED
    BY <1>0, <1>2, <2>1, <2>2, NextHookBefore, NextHookAfter
<1>3. CASE HookRaises
  <2>1. /\ phase' = "end" /\ outcome' = "raise" /\ suite' = suite /\ turn' = turn /\ pc' = pc
        /\ cwd' = cwd /\ dirs' = dirs /\ files' = files /\ saved' = saved /\ created' = created
    BY <1>3 DEF HookRaises, fsVars
  <2>2. N' = N
    BY <2>1 DEF N
  <2>3. Types' /\ ReturnsClean'
    BY <1>0, <2>1, <2>2 DEF Types, ReturnsClean
  <2>4. Trail(w)'
    BY <2>1, <2>2 DEF Trail, Begun, Tested, Undone
  <2>5. QED
    BY <2>3, <2>4
<1>4. CASE Popen
  BY <1>0, <1>4, PopenClean
<1>5. CASE Completed \/ Timeout
  BY <1>0, <1>5, EndOfTest
<1>6. CASE Report
  <2>1. /\ phase = "after" /\ phase' = "end" /\ suite' = suite /\ turn' = turn /\ pc' = pc
        /\ turn > N
        /\ cwd' = cwd /\ dirs' = dirs /\ files' = files /\ saved' = saved /\ created' = created
    BY <1>6 DEF Report, fsVars, N
  <2>2. N' = N /\ N \in Nat /\ turn = N + 1 /\ Hook = 0
    <3>1. N' = N /\ N \in Nat /\ turn = N + 1
      BY <1>0, <2>1, NIsNat DEF N, Types
    <3>2. Hook = N + 1 - turn
      BY <2>1 DEF Hook, Reversed, N
    <3>3. QED
      BY ONLY <3>1, <3>2
  <2>3. Types'
    BY <1>0, <2>1, <2>2 DEF Types
  <2>4. cwd = <<>>
    BY <2>1, <2>2 DEF Trail, Undone
  <2>5. created \cap (dirs \cup files) = {}
    <3> SUFFICES ASSUME NEW p \in created \cap (dirs \cup files) PROVE FALSE
      OBVIOUS
    <3>1. PICK k \in 1..N, n \in Nat : k < Hook \/ (k = Hook /\ n >= pc)
      BY <2>1 DEF Trail, Undone
    <3>2. QED
      BY ONLY <3>1, <2>2
  <2>6. ReturnsClean'
    BY <2>1, <2>4, <2>5 DEF ReturnsClean, Clean
  <2>7. Trail(w)'
    BY <2>1, <2>2 DEF Trail, Begun, Tested, Undone
  <2>8. QED
    BY <2>3, <2>6, <2>7
<1>7. CASE TestWrites
  BY <1>0, <1>7, Aside, TestWritesAside DEF TestWrites
<1>8. CASE TestExits
  BY <1>0, <1>8, Aside DEF TestExits, fsVars
<1>9. CASE UNCHANGED vars
  BY <1>0, <1>9, Aside DEF vars, fsVars
<1>10. QED
  BY <1>1, <1>2, <1>3, <1>4, <1>5, <1>6, <1>7, <1>8, <1>9 DEF Next, Benchpress

(* Suite.run() returns results with the working directory it was called    *)
(* in, and leaves none of the paths its FileHooks created, whatever hooks  *)
(* there are, in whatever directories they run, and wherever a step fails. *)
THEOREM ReturnsLeaveNothing == ASSUME OutApart PROVE Spec => []ReturnsClean
<1>1. Init => CInv
  BY CInvInit
<1>2. CInv /\ [Next]_vars => CInv'
  BY CInvStep
<1>3. CInv => ReturnsClean
  BY DEF CInv
<1>4. QED
  BY <1>1, <1>2, <1>3, PTL DEF Spec
=============================================================================
