--------------------------- MODULE MCKernelTracer ---------------------------
(* A small instance of KernelTracer: its constants are in the .cfg.         *)
EXTENDS KernelTracer
=============================================================================
