---------------------------- MODULE KernelCapture ----------------------------
(***************************************************************************)
(* What data generation promises of kernel_debug.json: the kernels that    *)
(* were captured while the workload ran, all of them and in their order,   *)
(* put down when no more can be captured; or no manifest.                  *)
(***************************************************************************)
EXTENDS Sequences

CONSTANT Record  \* what may be recorded of a kernel

VARIABLES
  capturing,  \* kernels may still be captured
  captured,   \* the kernels of the current run
  manifest    \* the manifest, as a sequence of at most one

Init == capturing = FALSE /\ captured = << >> /\ manifest = << >>

Begin == ~ capturing /\ capturing' \in BOOLEAN /\ captured' = << >> /\ UNCHANGED manifest

Capture ==
  /\ capturing /\ \E r \in Record : captured' = Append(captured, r)
  /\ UNCHANGED <<capturing, manifest>>

End == capturing /\ capturing' = FALSE /\ UNCHANGED <<captured, manifest>>

\* The manifest of the last run goes before the next one comes.
Discard == ~ capturing /\ manifest' = << >> /\ UNCHANGED <<capturing, captured>>

Publish ==
  /\ ~ capturing /\ manifest' = <<captured>>
  /\ UNCHANGED <<capturing, captured>>

Next == Begin \/ Capture \/ End \/ Discard \/ Publish

Spec == Init /\ [][Next]_<<capturing, captured, manifest>>

=============================================================================
