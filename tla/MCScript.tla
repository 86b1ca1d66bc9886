------------------------------ MODULE MCScript ------------------------------
(* Scripts of a few lines over two variables, a function of the script and  *)
(* one of the library, which has a block in it.                             *)
EXTENDS ScriptMeaning, TLC

NoTerm == Lit(<<>>)

MCLibrary == <<Line("BEGIN", "g", NoTerm, 0), Line("FOR", "ca", Lit(<<3, 4>>), 0),
               Line("DO", None, Ref("ca"), 0), Line("DONE", None, NoTerm, 0),
               Line("END", "g", NoTerm, 0)>>

MCLines ==
  {Line("FOR", "x", Lit(<<1, 2>>), 0), Line("FOR", "ca", Ref("x"), 0),
   Line("DONE", None, NoTerm, 0), Line("BEGIN", "f", NoTerm, 0),
   Line("END", "f", NoTerm, 0), Line("DO", None, Ref("x"), 0), Line("DO", None, Ref("ca"), 0),
   Line("SET", "x", Lit(<<5, 6>>), 0), Line("RUN", "f", NoTerm, 2),
   Line("RUN", "f", Lit(<<7, 8>>), 1), IfDef("g", Line("RUN", "g", NoTerm, 1)),
   Line("SOURCE", None, NoTerm, 0)}

(* Fewer kinds of lines, for longer scripts.                                *)
FewLines ==
  {Line("FOR", "x", Lit(<<1, 2>>), 0), Line("FOR", "ca", Ref("x"), 0),
   Line("DONE", None, NoTerm, 0), Line("BEGIN", "f", NoTerm, 0),
   Line("END", "f", NoTerm, 0), Line("DO", None, Ref("ca"), 0),
   Line("RUN", "f", NoTerm, 1)}

AllLines == MCLines \cup FewLines
MCMaxLines == [l \in AllLines |-> IF l \in FewLines THEN 8 ELSE 6]

(* f may run g, and neither itself.                                         *)
MCLevel == [h \in {"f", "g"} |-> IF h = "f" THEN 1 ELSE 0]
=============================================================================
