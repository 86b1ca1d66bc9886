--------------------------- MODULE ScriptMeaning ---------------------------
(***************************************************************************)
(* What a script means, by structure: a block is repeated for each value   *)
(* of its list, a function's lines are those between its BEGIN and END.    *)
(* The interpreter of Script is held against this.                         *)
(***************************************************************************)
EXTENDS Script, FiniteSetsExt

(* An environment: variables, functions, was the library read, what was    *)
(* carried out, and did an error end it.                                   *)
Env0 == [vars |-> NoArgs, funs |-> [f \in Funs |-> None], src |-> FALSE,
         trace |-> <<>>, err |-> FALSE]

Count(lines, op, j) == Cardinality({i \in 1..j : lines[i].op = op})

(* Where the block or function that the first line opens ends, 0 if it is  *)
(* still open.                                                             *)
EndOfBlock(lines) ==
  LET ends == {j \in 1..Len(lines) :
                 lines[j].op = "DONE" /\ Count(lines, "FOR", j) = Count(lines, "DONE", j)}
  IN IF ends = {} THEN 0 ELSE Min(ends)

EndOfFunction(lines) ==
  LET ends == {j \in 1..Len(lines) : lines[j].op = "END"}
  IN IF ends = {} THEN 0 ELSE Min(ends)

IllFormed(lines) ==
  \E j \in 1..Len(lines) : Count(lines, "DONE", j) > Count(lines, "FOR", j)

Look(term, args, vs) ==
  IF term.ref = None THEN term.list
  ELSE IF args[term.ref] # <<>> THEN args[term.ref] ELSE vs[term.ref]

Fail(env) == [env EXCEPT !.err = TRUE]

RECURSIVE Meaning(_, _, _)
Meaning(lines, args, env) ==
  IF lines = <<>> \/ env.err THEN env ELSE
  LET line == Head(lines)
      list == Look(line.term, args, env.vars)
      Then(e) == Meaning(Tail(lines), args, e)
  IN IF line.ifdef # None /\ env.funs[line.ifdef] = None THEN Then(env) ELSE
     CASE line.op = "DO" ->
            Then(IF list = <<>> THEN Fail(env)
                 ELSE [env EXCEPT !.trace = Append(@, list)])
       [] line.op = "SET" -> Then([env EXCEPT !.vars[line.name] = line.term.list])
       [] line.op = "SOURCE" ->
            Then(IF env.src THEN env
                 ELSE Meaning(Library, args, [env EXCEPT !.src = TRUE]))
       [] line.op = "FOR" ->
            LET j == EndOfBlock(lines)
                body == SubSeq(lines, 2, j - 1)
                Once(e, v) == Meaning(body, args, [e EXCEPT !.vars[line.name] = <<v>>])
            IN IF j = 0 THEN env
               ELSE Meaning(SubSeq(lines, j + 1, Len(lines)), args,
                      IF list = <<>> THEN Fail(env) ELSE FoldLeft(Once, env, list))
       [] line.op = "BEGIN" ->
            LET j == EndOfFunction(lines)
                body == SubSeq(lines, 2, j - 1)
            IN IF j = 0 THEN IF IllFormed(Tail(lines)) THEN Fail(env) ELSE env
               ELSE Meaning(SubSeq(lines, j + 1, Len(lines)), args,
                      IF lines[j].name # line.name \/ IllFormed(body) THEN Fail(env)
                      ELSE [env EXCEPT !.funs[line.name] = body])
       [] line.op = "RUN" ->
            LET body == env.funs[line.name]
                cas == IF list = <<>> THEN <<NoArgs>>
                       ELSE [i \in 1..Len(list) |-> [NoArgs EXCEPT !["ca"] = <<list[i]>>]]
                Once(e, a) == Meaning(body, a, e)
                Rep(e, n) == FoldLeft(Once, e, cas)
            IN Then(IF body = None \/ (line.n > 0 /\ line.term # Lit(<<>>) /\ list = <<>>) THEN Fail(env)
                    ELSE FoldLeft(Rep, env, [n \in 1..line.n |-> n]))
       [] OTHER -> Fail(env)

(***************************************************************************)
(* Properties                                                              *)
(***************************************************************************)
AtPrompt == ~exited /\ stack = <<>> /\ ~forDefFlag /\ funName = None

(* What processCmd() has carried out when it is back at its input is what  *)
(* the script read so far means, and so are the values of the variables;   *)
(* when error() has ended it, it had done nothing else until then, and     *)
(* there is an error, or forloop_max was reached.                          *)
Faithful ==
  (AtPrompt \/ exited) =>
    LET m == Meaning(script, NoArgs, Env0)
    IN IF exited
       THEN IsPrefix(trace, m.trace) /\ (m.err \/ forloopCounter = ForloopMax)
       ELSE ~m.err /\ trace = m.trace /\ varDict = m.vars

(* Every command comes back to the input, or ends the run.                 *)
Returns == stack # <<>> ~> (stack = <<>> \/ exited)
=============================================================================
