----------------------------- MODULE MCSuiteRun -----------------------------
(* Suites whose hooks work in each other's directories.                     *)
EXTENDS SuiteRun

A(hooks) ==
  [hooks : {hooks}, checkReturncode : BOOLEAN, timeout : BOOLEAN,
   timeoutIsPass : BOOLEAN, lazy : BOOLEAN]

(* A directory made and entered; files made below it; one that exists, made *)
(* and entered from within; a nested one.                                   *)
InDirectory == <<FileHook(<<DirOpt(<<"t">>)>>), ShellHook(<<Cd(<<"t">>), Command>>, <<>>),
                 FileHook(<<FileOpt(<<"f">>)>>)>>
InAnother == <<ShellHook(<<Cd(<<"x">>)>>, <<Command>>), FileHook(<<DirOpt(<<"t", "u">>)>>),
               ShellHook(<<Cd(<<"t", "u">>)>>, <<Cd(<<>>)>>)>>
Existing == <<ShellHook(<<Cd(<<"x">>)>>, <<>>), FileHook(<<DirOpt(<<>>)>>)>>
Nested == <<ShellHook(<<Cd(<<"x">>)>>, <<>>),
            FileHook(<<DirOpt(<<"t">>), FileOpt(<<"t", "f">>)>>)>>

Stacked == <<ShellHook(<<Cd(<<"x">>)>>, <<>>), ShellHook(<<Command>>, <<>>)>>

MCSuites == A(Stacked) \cup A(InDirectory) \cup A(InAnother) \cup A(Existing) \cup A(Nested) \cup A(<<>>)

(* Suites for one question each.                                            *)
One(hooks, lazy) ==
  {[hooks |-> hooks, checkReturncode |-> TRUE, timeout |-> FALSE,
    timeoutIsPass |-> FALSE, lazy |-> lazy]}
Lazy == One(<<ShellHook(<<Cd(<<"x">>)>>, <<>>)>>, TRUE)

MCDirs == {<<>>, <<"x">>}
=============================================================================
