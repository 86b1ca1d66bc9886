----------------------------- MODULE LtpParser -----------------------------
(***************************************************************************)
(* LtpSuite.test_cases(): the results in the output of ltp, where a test   *)
(* has its own lines between marks.  A line is <<"mark", m>>, <<"status",  *)
(* case, s>> or other; case names are model values.                        *)
(***************************************************************************)
EXTENDS Integers, SequencesExt

Mark(m)      == <<"mark", m>>
Status(c, s) == <<"status", c, s>>
Other        == <<"other">>

(* The words of test_format_re; TCONF, for a test that does not apply, is  *)
(* none of them.                                                           *)
Words == {"TFAIL", "TPASS", "TBROK", "TWARN", "TINFO"}

Index(lines, m) == Min({i \in DOMAIN lines : lines[i] = Mark(m)})

(* TINFO is no result.                                                     *)
Cases(output) ==
  LET results == SelectSeq(output, LAMBDA l :
                   Len(l) = 3 /\ l[3] \in Words \ {"TINFO"})
  IN  [i \in DOMAIN results |->
         [name |-> results[i][2],
          status |-> IF results[i][3] = "TPASS" THEN "PASSED" ELSE "FAILED"]]

(* index() of what is not there ends parse() with an exception.            *)
Ended(s) ==
  LET marks == {m \in {"output", "status"} : \E l \in ToSet(s.lines) : l = Mark(m)}
  IN  IF marks # {"output", "status"} THEN [s EXCEPT !.raised = TRUE]
      ELSE [s EXCEPT !.cases = @ \o Cases(SubSeq(s.lines, Index(s.lines, "output") + 1,
                                                 Index(s.lines, "status") - 1))]

(* Mutant of Line: the lines of a test are kept when the next begins.      *)
LineKeeps(s, line) ==
  LET t == IF line = Mark("end") THEN Ended(s) ELSE s
  IN  IF s.raised THEN s ELSE [t EXCEPT !.lines = Append(@, line)]

Line(s, line) ==
  LET begun == IF line = Mark("start") THEN [s EXCEPT !.lines = <<>>] ELSE s
      ended == IF line = Mark("end") THEN Ended(begun) ELSE begun
  IN  IF s.raised THEN s ELSE [ended EXCEPT !.lines = Append(@, line)]

test_cases(stdout) ==
  FoldLeft(Line, [lines |-> <<>>, cases |-> <<>>, raised |-> FALSE], stdout)

-----------------------------------------------------------------------------
(* The reference: what ltp writes is tests one after the other, any of     *)
(* which may be cut off, and the marks of a test are in order.             *)
Marks(stdout) ==
  LET ms == SelectSeq(stdout, LAMBDA l : l[1] = "mark")
  IN  [i \in DOMAIN ms |-> ms[i][2]]

Next(m) == CASE m = "start"  -> {"output", "start"}
             [] m = "output" -> {"status", "start"}
             [] m = "status" -> {"end", "start"}
             [] m = "end"    -> {"start"}

Proper(stdout) ==
  LET ms == Marks(stdout) IN
  /\ ms # <<>> => ms[1] = "start"
  /\ \A i \in 1 .. Len(ms) - 1 : ms[i + 1] \in Next(ms[i])

(* The lines that a finished test has written.                             *)
Written(stdout) ==
  LET Before(i) == Marks(SubSeq(stdout, 1, i))
      After(i)  == Marks(SubSeq(stdout, i + 1, Len(stdout)))
      mine == {i \in DOMAIN stdout :
                 /\ stdout[i][1] # "mark"
                 /\ Before(i) # <<>> /\ Last(Before(i)) = "output"
                 /\ Len(After(i)) >= 2 /\ SubSeq(After(i), 1, 2) = <<"status", "end">>}
      is   == SetToSortSeq(mine, <)
  IN  [i \in DOMAIN is |-> stdout[is[i]]]

(* parse() reports every result of a test that ended, once and in order,   *)
(* and none that is not: a test cut off before its end, or text outside of *)
(* a test, neither adds results nor takes those of other tests.            *)
ReportsEnded(stdout) ==
  Proper(stdout) =>
    /\ ~test_cases(stdout).raised
    /\ test_cases(stdout).cases = Cases(Written(stdout))
=============================================================================
