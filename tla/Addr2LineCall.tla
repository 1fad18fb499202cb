--------------------------- MODULE Addr2LineCall ---------------------------
(***************************************************************************)
(* What run_addr2line of the GDB adapter promises its caller: it returns   *)
(* once, with an error or with the answers to all addresses, in order.     *)
(* Two failures the adapter does not notice are excepted.  After the disk  *)
(* was full the answers may be those to an input that was cut; after a     *)
(* read failed they may be the beginning of the answers, the last one cut. *)
(***************************************************************************)
EXTENDS Integers, Sequences

CONSTANTS
  Requested,  \* the addresses of the request
  CutInputs   \* what a disk that fills up may leave of them

VARIABLES
  result,     \* pending, error, exception or output
  output,     \* the answered addresses
  diskFull,   \* the file system lost part of the input
  readFailed  \* reading the answers failed

vars == <<result, output, diskFull, readFailed>>

Init == result = "pending" /\ output = << >> /\ diskFull = FALSE /\ readFailed = FALSE

FillDisk ==
  /\ result = "pending" /\ ~ diskFull /\ diskFull' = TRUE
  /\ UNCHANGED <<result, output, readFailed>>

FailToRead ==
  /\ result = "pending" /\ ~ readFailed /\ readFailed' = TRUE
  /\ UNCHANGED <<result, output, diskFull>>

Fail ==
  /\ result = "pending" /\ result' \in {"error", "exception"}
  /\ UNCHANGED <<output, diskFull, readFailed>>

\* Some first answers, and they with what is left of the next one.
Beginnings(answers) ==
       {SubSeq(answers, 1, n) : n \in 0 .. Len(answers)}
  \union {Append(SubSeq(answers, 1, n), 0) : n \in 0 .. Len(answers) - 1}

Answer ==
  /\ result = "pending" /\ result' = "output"
  /\ LET complete == IF diskFull THEN CutInputs ELSE {Requested}
     IN  \/ output' \in complete
         \/ readFailed /\ \E answers \in complete : output' \in Beginnings(answers)
  /\ UNCHANGED <<diskFull, readFailed>>

Next == FillDisk \/ FailToRead \/ Fail \/ Answer
\* What it never does, and that it returns.
Safety == Init /\ [][Next]_vars
Spec == Safety /\ WF_vars(Fail \/ Answer)

=============================================================================
