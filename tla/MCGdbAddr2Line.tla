--------------------------- MODULE MCGdbAddr2Line ---------------------------
(* The instance TLC checks has its bounds in the configuration: five        *)
(* addresses, a pipe that holds two answers, reads of at most two.          *)
EXTENDS GdbAddr2Line
=============================================================================
