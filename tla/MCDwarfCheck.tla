---------------------------- MODULE MCDwarfCheck ----------------------------
(* Small instances of DwarfCheck.                                           *)
EXTENDS DwarfCheck

\* The line of the README's basic workflow.
BuildAndRun == {<< <<"build">>, <<"run">> >>}

EveryLine ==
  {<<command>> : command \in Commands} \union BuildAndRun
    \union {<< <<"run">>, <<"analyze">> >>}
=============================================================================
