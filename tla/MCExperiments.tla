---------------------------- MODULE MCExperiments ----------------------------
(* A small instance of Experiments: one workload and level, both ways of    *)
(* compiling it for the device.                                             *)
EXTENDS Experiments

CONSTANTS Jit, Ahead

BothModes == <<Jit, Ahead>>

EveryLine ==
  {<<command>> : command \in Commands}
    \union {<< <<"build">>, <<"run">> >>, << <<"run">>, <<"analyze">> >>}
=============================================================================
