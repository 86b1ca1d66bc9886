------------------------------- MODULE Script -------------------------------
(***************************************************************************)
(* processCmd() of the netesto controller (netesto/local/netesto.py) as    *)
(* the interpreter of its scripts: FOR ... DONE, BEGIN ... END, RUN, SOURCE*)
(* and variables.  A FOR block is stored while it is read and runs when its*)
(* DONE has been read; inside a function or another block it is replaced   *)
(* by a FORLOOP line that names it.                                        *)
(*                                                                         *)
(* The interpreter is recursive in Python; stack holds its calls.  All     *)
(* loops being read and all loops being run share the globals forDict,     *)
(* forStack, forCount and forDefFlag.                                      *)
(***************************************************************************)
EXTENDS Integers, Sequences, SequencesExt, FiniteSets

CONSTANTS
  Lines,        (* the lines a script may have                             *)
  Library,      (* the lines of the file that SOURCE reads                 *)
  Vars, Funs,   (* names of variables and functions                        *)
  Level,        (* a function's level: functions run those of lower levels *)
  MaxLines,     (* bound: standard input's lines, if one of them is that   *)
  ForloopMax,   (* forloop_max, FORLOOP calls before it gives up           *)
  None          (* no function, no loop, no variable                       *)

(* The commands of a script; FORLOOP is one that only blocks are given.    *)
Commands == {"FOR", "DONE", "BEGIN", "END", "RUN", "SOURCE", "SET", "DO"}

Command(line) ==
  /\ line.op \in Commands
  /\ line.op \in {"BEGIN", "RUN"} => line.name \in Funs

ASSUME ScriptAssumption ==
  /\ "ca" \in Vars
  /\ MaxLines \in [Lines -> Nat] /\ ForloopMax \in Nat
  /\ None \notin Vars /\ None \notin Funs /\ None \notin Nat
  /\ Level \in [Funs -> Nat]
  /\ \A line \in Lines : Command(line)
  /\ Library \in Seq({Library[n] : n \in 1..Len(Library)})
  /\ \A n \in 1..Len(Library) : Command(Library[n])

VARIABLES
  script,       (* the lines read from standard input so far               *)
  stack,        (* calls in progress, the innermost last                   *)
  dicts,        (* the loops' dictionaries, shared by reference            *)
  forDict, forStack, forLoopList, forCount, forDefFlag, forloopCounter,
  funName, funLineList, funDict,
  varDict,      (* variables' values: lists, <<>> when undefined           *)
  sourced,      (* was the library read (sourceFileDict)                   *)
  trace,        (* the other commands carried out, with their argument     *)
  exited        (* error() ended the run                                   *)

blockVars == <<forStack, forLoopList, forCount, forDefFlag, forloopCounter>>
funVars == <<funName, funLineList, funDict>>
vars == <<script, stack, dicts, forDict, blockVars, funVars, varDict, sourced,
          trace, exited>>

(* A term is a literal list or a variable; a line has an operation, a name *)
(* (variable or function), a term and a number; ifdef is the function of an*)
(* IF_DEF in front of it.                                                  *)
Lit(list) == [ref |-> None, list |-> list]
Ref(x) == [ref |-> x, list |-> <<>>]
Line(op, name, term, n) ==
  [op |-> op, name |-> name, term |-> term, n |-> n, ifdef |-> None]
IfDef(f, line) == [line EXCEPT !.ifdef = f]

FORLOOP(k) == Line("FORLOOP", None, Lit(<<>>), k)

(* getValue(): the arguments of the function hide the variables.           *)
NoArgs == [x \in Vars |-> <<>>]
Value(term, args) ==
  IF term.ref = None THEN term.list
  ELSE IF args[term.ref] # <<>> THEN args[term.ref] ELSE varDict[term.ref]

Init ==
  /\ script = <<>> /\ stack = <<>> /\ dicts = <<>>
  /\ forDict = None /\ forStack = <<>> /\ forLoopList = <<>>
  /\ forCount = 0 /\ forDefFlag = FALSE /\ forloopCounter = 0
  /\ funName = None /\ funLineList = <<>> /\ funDict = [f \in Funs |-> None]
  /\ varDict = NoArgs
  /\ sourced = FALSE /\ trace = <<>> /\ exited = FALSE

(* error()                                                                 *)
Error ==
  /\ exited' = TRUE
  /\ UNCHANGED <<stack, dicts, forDict, blockVars, funVars, varDict, sourced, trace>>

(***************************************************************************)
(* processCmd(line, args).  S and D are the calls and the dictionaries     *)
(* after the line was taken from where it stood.                           *)
(***************************************************************************)

(* FORLOOP k: loops is forLoopList and count is forCount by then.          *)
RunLoop(k, args, S, D, loops, count) ==
  LET d == loops[k]
      list == Value(D[d].term, args)
  IN IF list = <<>> \/ forloopCounter + 1 > ForloopMax
     THEN Error
     ELSE /\ stack' = Append(S, [kind |-> "loop", args |-> args, list |-> list])
          /\ dicts' = [D EXCEPT ![d].varIndx = 0, ![d].lineIndx = Len(D[d].lines)]
          /\ forStack' = IF count > 0 THEN Append(forStack, forDict) ELSE forStack
          /\ forDict' = d
          /\ forCount' = count + 1
          /\ forLoopList' = loops
          /\ forloopCounter' = forloopCounter + 1
          /\ forDefFlag' = FALSE
          /\ UNCHANGED <<funVars, varDict, sourced, trace, exited>>

(* Inside BEGIN ... END, outside of a FOR block.                           *)
InFunction == funName # None /\ ~forDefFlag

EndFunction(line, S, D) ==
  /\ InFunction /\ line.op = "END"
  /\ IF line.name = funName
     THEN /\ funDict' = [funDict EXCEPT ![funName] = funLineList]
          /\ funName' = None /\ funLineList' = <<>>
          /\ stack' = S /\ dicts' = D
          /\ UNCHANGED <<forDict, blockVars, varDict, sourced, trace, exited>>
     ELSE Error

StoreInFunction(line, S, D) ==
  /\ InFunction /\ line.op \notin {"END", "FOR", "DONE"}
  /\ funLineList' = Append(funLineList, line)
  /\ stack' = S /\ dicts' = D
  /\ UNCHANGED <<forDict, blockVars, funName, funDict, varDict, sourced, trace, exited>>

(* DONE of a block inside another: the outer block gets a FORLOOP line.    *)
DoneInner(line, S, D) ==
  /\ line.op = "DONE" /\ forDefFlag /\ forCount > 1
  /\ forLoopList' = Append(forLoopList, forDict)
  /\ forCount' = forCount - 1
  /\ forDict' = Last(forStack) /\ forStack' = Front(forStack)
  /\ dicts' = [D EXCEPT ![forDict'].lines = Append(@, FORLOOP(Len(forLoopList')))]
  /\ stack' = S
  /\ UNCHANGED <<forDefFlag, forloopCounter, funVars, varDict, sourced, trace, exited>>

(* DONE of an outermost block: stored in a function, or run at once.       *)
DoneOuter(line, args, S, D) ==
  /\ line.op = "DONE" /\ forDefFlag /\ forCount = 1
  /\ LET loops == Append(forLoopList, forDict)
     IN IF funName # None
        THEN /\ forLoopList' = loops
             /\ forCount' = 0 /\ forDefFlag' = FALSE
             /\ funLineList' = Append(funLineList, FORLOOP(Len(loops)))
             /\ stack' = S /\ dicts' = D
             /\ UNCHANGED <<forDict, forStack, forloopCounter, funName, funDict,
                            varDict, sourced, trace, exited>>
        ELSE RunLoop(Len(loops), args, S, D, loops, 0)

DoneUnexpected(line) == line.op = "DONE" /\ ~forDefFlag /\ Error

StoreInBlock(line, S, D) ==
  /\ forDefFlag /\ line.op \notin {"FOR", "DONE"}
  /\ dicts' = [D EXCEPT ![forDict].lines = Append(@, line)]
  /\ stack' = S
  /\ UNCHANGED <<forDict, blockVars, funVars, varDict, sourced, trace, exited>>

(* Mutants: the dictionary of the last block is used again; and an outer   *)
(* block that is being read is forgotten.                                  *)
ForReuses(line, args, S, D) ==
  /\ line.op = "FOR"
  /\ LET new == [name |-> line.name, term |-> line.term, lines |-> <<>>,
                 varIndx |-> 0, lineIndx |-> 0]
     IN IF forDict = None \/ forDefFlag
        THEN dicts' = Append(D, new) /\ forDict' = Len(dicts')
        ELSE dicts' = [D EXCEPT ![forDict] = new] /\ UNCHANGED forDict
  /\ forStack' = IF forDict # None THEN Append(forStack, forDict) ELSE forStack
  /\ forCount' = forCount + 1
  /\ forDefFlag' = TRUE
  /\ stack' = S
  /\ UNCHANGED <<forLoopList, forloopCounter, funVars, varDict, sourced, trace, exited>>

ForForgets(line, args, S, D) ==
  /\ line.op = "FOR"
  /\ dicts' = Append(D, [name |-> line.name, term |-> line.term, lines |-> <<>>,
                         varIndx |-> 0, lineIndx |-> 0])
  /\ forDict' = Len(dicts')
  /\ forStack' = Append(forStack, forDict')
  /\ forCount' = forCount + 1
  /\ forDefFlag' = TRUE
  /\ stack' = S
  /\ UNCHANGED <<forLoopList, forloopCounter, funVars, varDict, sourced, trace, exited>>

(* Outside of blocks and functions the list is looked up here.             *)
For(line, args, S, D) ==
  /\ line.op = "FOR"
  /\ LET now == ~forDefFlag /\ funName = None /\ Value(line.term, args) # <<>>
         term == IF now THEN Lit(Value(line.term, args)) ELSE line.term
     IN dicts' = Append(D, [name |-> line.name, term |-> term, lines |-> <<>>,
                            varIndx |-> 0, lineIndx |-> 0])
  /\ forDict' = Len(dicts')
  /\ forStack' = IF forDict # None THEN Append(forStack, forDict) ELSE forStack
  /\ forCount' = forCount + 1
  /\ forDefFlag' = TRUE
  /\ stack' = S
  /\ UNCHANGED <<forLoopList, forloopCounter, funVars, varDict, sourced, trace, exited>>

(* Everything below happens outside of blocks and functions.               *)
Skipped(line) == line.ifdef # None /\ funDict[line.ifdef] = None

Runs(line, op) == line.op = op /\ ~Skipped(line) /\ ~forDefFlag /\ funName = None

(* IF_DEF of a function that is not defined.                               *)
Skip(line, S, D) ==
  /\ Skipped(line) /\ ~forDefFlag /\ funName = None
  /\ stack' = S /\ dicts' = D
  /\ UNCHANGED <<forDict, blockVars, funVars, varDict, sourced, trace, exited>>

Forloop(line, args, S, D) ==
  /\ Runs(line, "FORLOOP")
  /\ RunLoop(line.n, args, S, D, forLoopList, forCount)

Begin(line, S, D) ==
  /\ Runs(line, "BEGIN")
  /\ funName' = line.name /\ funLineList' = <<>>
  /\ stack' = S /\ dicts' = D
  /\ UNCHANGED <<forDict, blockVars, funDict, varDict, sourced, trace, exited>>

(* END f with no function open: no local command takes it, and as a remote *)
(* one it lacks its host.                                                  *)
EndUnexpected(line) == Runs(line, "END") /\ Error

Set(line, S, D) ==
  /\ Runs(line, "SET")
  /\ varDict' = [varDict EXCEPT ![line.name] = line.term.list]
  /\ stack' = S /\ dicts' = D
  /\ UNCHANGED <<forDict, blockVars, funVars, sourced, trace, exited>>

(* RUN f,n with, perhaps, ca=: n times, each for every value of ca.        *)
Run(line, args, S, D) ==
  /\ Runs(line, "RUN")
  /\ IF \/ funDict[line.name] = None
        \/ line.n > 0 /\ line.term # Lit(<<>>) /\ Value(line.term, args) = <<>>
     THEN Error
     ELSE /\ stack' = IF line.n = 0 THEN S
                      ELSE Append(S, [kind |-> "run", lines |-> funDict[line.name],
                             pos |-> 0, reps |-> line.n - 1, ca |-> 1,
                             cas |-> Value(line.term, args)])
          /\ dicts' = D
          /\ UNCHANGED <<forDict, blockVars, funVars, varDict, sourced, trace, exited>>

Source(line, args, S, D) ==
  /\ Runs(line, "SOURCE")
  /\ stack' = IF sourced THEN S
              ELSE Append(S, [kind |-> "file", lines |-> Library, pos |-> 0,
                              args |-> args])
  /\ sourced' = TRUE
  /\ dicts' = D
  /\ UNCHANGED <<forDict, blockVars, funVars, varDict, trace, exited>>

(* Any other command; one with an undefined variable ends the run.         *)
Other(line, args, S, D) ==
  /\ Runs(line, "DO")
  /\ IF Value(line.term, args) = <<>>
     THEN Error
     ELSE /\ trace' = Append(trace, Value(line.term, args))
          /\ stack' = S /\ dicts' = D
          /\ UNCHANGED <<forDict, blockVars, funVars, varDict, sourced, exited>>

ProcessCmd(line, args, S, D) ==
  \/ EndFunction(line, S, D)
  \/ StoreInFunction(line, S, D)
  \/ DoneInner(line, S, D)
  \/ DoneOuter(line, args, S, D)
  \/ DoneUnexpected(line)
  \/ StoreInBlock(line, S, D)
  \/ For(line, args, S, D)
  \/ Skip(line, S, D)
  \/ Forloop(line, args, S, D)
  \/ Begin(line, S, D)
  \/ EndUnexpected(line)
  \/ Set(line, S, D)
  \/ Run(line, args, S, D)
  \/ Source(line, args, S, D)
  \/ Other(line, args, S, D)

(***************************************************************************)
(* Where lines come from: standard input, a function, a file, a loop.      *)
(***************************************************************************)
Top == Last(stack)
InFrame(kind) == ~exited /\ stack # <<>> /\ Top.kind = kind
WithTop(frame) == Append(Front(stack), frame)

(* Scripts considered: no block or function is opened inside a function's  *)
(* or block's wrong place, no function runs itself, not through others     *)
(* either, and the library, which has blocks of its own, is not read       *)
(* inside a block or function.                                             *)
MayRun(x, f) == x # None => Level[f] < Level[x]

Considered(line) ==
  /\ line.op \in {"BEGIN", "SOURCE"} => ~forDefFlag /\ funName = None
  /\ line.op = "END" => ~forDefFlag
  /\ line.op = "RUN" => MayRun(funName, line.name)

ReadLine(line) ==
  /\ ~exited /\ stack = <<>>
  /\ \A l \in ToSet(script) \cup {line} : Len(script) < MaxLines[l]
  /\ Considered(line)
  /\ script' = Append(script, line)
  /\ ProcessCmd(line, NoArgs, stack, dicts)

RunArgs(frame) ==
  IF frame.cas = <<>> THEN NoArgs ELSE [NoArgs EXCEPT !["ca"] = <<frame.cas[frame.ca]>>]

NextRunLine ==
  /\ InFrame("run")
  /\ Top.pos < Len(Top.lines)
  /\ ProcessCmd(Top.lines[Top.pos + 1], RunArgs(Top),
                WithTop([Top EXCEPT !.pos = @ + 1]), dicts)
  /\ UNCHANGED script

(* The function's lines again, for the next value of ca or the next time.  *)
RunAgain ==
  /\ InFrame("run")
  /\ Top.pos = Len(Top.lines)
  /\ \/ Top.ca < Len(Top.cas)
        /\ stack' = WithTop([Top EXCEPT !.pos = 0, !.ca = @ + 1])
     \/ Top.ca >= Len(Top.cas) /\ Top.reps > 0
        /\ stack' = WithTop([Top EXCEPT !.pos = 0, !.ca = 1, !.reps = @ - 1])
     \/ Top.ca >= Len(Top.cas) /\ Top.reps = 0
        /\ stack' = Front(stack)
  /\ UNCHANGED <<script, dicts, forDict, blockVars, funVars, varDict, sourced,
                 trace, exited>>

NextFileLine ==
  /\ InFrame("file")
  /\ IF Top.pos < Len(Top.lines)
     THEN /\ Considered(Top.lines[Top.pos + 1])
          /\ ProcessCmd(Top.lines[Top.pos + 1], Top.args,
                        WithTop([Top EXCEPT !.pos = @ + 1]), dicts)
     ELSE /\ stack' = Front(stack)
          /\ UNCHANGED <<dicts, forDict, blockVars, funVars, varDict, sourced,
                         trace, exited>>
  /\ UNCHANGED script

NextLoopLine ==
  /\ InFrame("loop")
  /\ LET dict == dicts[forDict]
     IN /\ dict.lineIndx < Len(dict.lines)
        /\ ProcessCmd(dict.lines[dict.lineIndx + 1], Top.args, stack,
                      [dicts EXCEPT ![forDict].lineIndx = @ + 1])
  /\ UNCHANGED script

(* A mutant: varIndx is not increased.                                     *)
NextValueAgain ==
  /\ InFrame("loop")
  /\ LET dict == dicts[forDict]
     IN /\ dict.lineIndx = Len(dict.lines)
        /\ dict.varIndx < Len(Top.list)
        /\ varDict' = [varDict EXCEPT ![dict.name] = <<Top.list[dict.varIndx + 1]>>]
  /\ dicts' = [dicts EXCEPT ![forDict].lineIndx = 0]
  /\ UNCHANGED <<script, stack, forDict, blockVars, funVars, sourced, trace, exited>>

NextValue ==
  /\ InFrame("loop")
  /\ LET dict == dicts[forDict]
     IN /\ dict.lineIndx = Len(dict.lines)
        /\ dict.varIndx < Len(Top.list)
        /\ varDict' = [varDict EXCEPT ![dict.name] = <<Top.list[dict.varIndx + 1]>>]
  /\ dicts' = [dicts EXCEPT ![forDict].varIndx = @ + 1, ![forDict].lineIndx = 0]
  /\ UNCHANGED <<script, stack, forDict, blockVars, funVars, sourced, trace, exited>>

(* Mutants: the loop around the one that ends is not restored; or forCount *)
(* was not increased for it.                                               *)
EndLoopKeeps ==
  /\ InFrame("loop")
  /\ dicts[forDict].lineIndx = Len(dicts[forDict].lines)
  /\ dicts[forDict].varIndx = Len(Top.list)
  /\ stack' = Front(stack)
  /\ forCount' = forCount - 1
  /\ UNCHANGED <<script, dicts, forDict, forStack, forLoopList, forDefFlag,
                 forloopCounter, funVars, varDict, sourced, trace, exited>>

EndLoopUncounted ==
  /\ InFrame("loop")
  /\ dicts[forDict].lineIndx = Len(dicts[forDict].lines)
  /\ dicts[forDict].varIndx = Len(Top.list)
  /\ stack' = Front(stack)
  /\ forCount' = forCount - 2
  /\ UNCHANGED <<script, dicts, forDict, forStack, forLoopList, forDefFlag,
                 forloopCounter, funVars, varDict, sourced, trace, exited>>

EndLoop ==
  /\ InFrame("loop")
  /\ dicts[forDict].lineIndx = Len(dicts[forDict].lines)
  /\ dicts[forDict].varIndx = Len(Top.list)
  /\ stack' = Front(stack)
  /\ forCount' = forCount - 1
  /\ IF forCount > 1
     THEN forDict' = Last(forStack) /\ forStack' = Front(forStack)
     ELSE UNCHANGED <<forDict, forStack>>
  /\ UNCHANGED <<script, dicts, forLoopList, forDefFlag, forloopCounter, funVars,
                 varDict, sourced, trace, exited>>

Execute ==
  NextRunLine \/ RunAgain \/ NextFileLine \/ NextLoopLine \/ NextValue \/ EndLoop

Next == (\E line \in Lines : ReadLine(line)) \/ Execute

Spec == Init /\ [][Next]_vars /\ WF_vars(Execute)

(***************************************************************************)
(* Properties of the shared state, of any scripts (those of their meaning  *)
(* are in ScriptMeaning)                                                   *)
(***************************************************************************)
(* Types: the globals that describe blocks agree with each other.          *)
TypeOK ==
  /\ exited \in BOOLEAN /\ forDefFlag \in BOOLEAN /\ sourced \in BOOLEAN
  /\ forCount \in Nat /\ forloopCounter \in 0..ForloopMax
  /\ forCount > 0 => forDict \in 1..Len(dicts)
  /\ \A k \in 1..Len(forStack) : forStack[k] \in 1..Len(dicts)
  /\ \A k \in 1..Len(forLoopList) : forLoopList[k] \in 1..Len(dicts)
  /\ funName \in Funs \cup {None}
  /\ DOMAIN varDict = Vars

(* forDict, forStack and forCount describe the loops in progress: as many  *)
(* as there are calls running one or blocks being read, and all different, *)
(* because a loop keeps its position in its dictionary.                    *)
Running == Cardinality({k \in 1..Len(stack) : stack[k].kind = "loop"})

OwnPosition ==
  /\ ~forDefFlag /\ ~exited => forCount = Running
  /\ forCount > 0 =>
       LET n == Len(forStack) - (forCount - 1)
           active == {forDict} \cup {forStack[k] : k \in (n + 1)..Len(forStack)}
       IN n >= 0 /\ Cardinality(active) = forCount

(* A block that has been read does not change: running it, or reading      *)
(* others, leaves its lines and list alone.                                *)
ReadBlocksStay ==
  \A k \in 1..Len(forLoopList) :
    LET d == forLoopList[k]
    IN /\ forLoopList'[k] = d
       /\ dicts'[d].lines = dicts[d].lines /\ dicts'[d].term = dicts[d].term

BlocksFixed == [][ReadBlocksStay]_vars
=============================================================================
