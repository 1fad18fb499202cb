---------------------------- MODULE GdbAddr2Line ----------------------------
(***************************************************************************)
(* run_addr2line of src/adapters/gdb/gdb_intel_adapter.cpp: the resolver   *)
(* writes the addresses to a temporary file, forks addr2line with the file *)
(* as its standard input and a pipe as its standard output, reads the pipe *)
(* to its end and waits for the child.  Parent and child interleave freely *)
(* and every system call may fail but close, whose result nobody looks at. *)
(* A failing read is taken for the end of the output, and a file that      *)
(* cannot be removed ends the call by an exception.                        *)
(***************************************************************************)
EXTENDS Integers, Sequences

CONSTANTS
  Count,         \* bound: how many addresses the request has
  PipeCapacity,  \* how many answers the pipe holds
  ReadSize       \* how many answers a read returns at most

ASSUME SizesAssumption ==
  Count \in Nat /\ PipeCapacity \in Nat \ {0} /\ ReadSize \in Nat \ {0}

\* Addresses are numbered by their place in the request; 0 is the number that
\* is left of an address whose last digits are lost.
FirstAddresses(n) == [k \in 1 .. n |-> k]
Requested == FirstAddresses(Count)
CutInputs ==
  LET cuts == {FirstAddresses(n) : n \in 0 .. Count - 1}
  IN  cuts \union {Append(cut, 0) : cut \in cuts}
\* What stands for the content of a file that does not exist.
Gone == <<-1>>

Writers == {"parent_write", "child_write", "child_stdout"}
ParentEnds == {"parent_read", "parent_write"}
ChildEnds == {"child_read", "child_write", "child_stdout"}

VARIABLES
  parent,    \* the next call of run_addr2line
  child,     \* none, the child's next call, exited or reaped
  file,      \* the temporary file's content, or Gone
  diskFull,  \* the file system lost part of the file
  failed,    \* which of the blocking calls failed: read, even inside an
             \* answer, and waitpid
  ends,      \* the open descriptors of the pipe
  pipe,      \* answers written and not yet read
  stdin,     \* the file the child has open
  answered,  \* how many of its lines addr2line has answered
  exitCode,  \* of the child
  received,  \* output: the answers the parent has read
  result     \* pending, error, exception or output

childState == <<child, stdin, answered, exitCode>>
call == <<received, result>>
vars == <<parent, file, diskFull, failed, ends, pipe, childState, call>>

Init ==
  /\ parent = "mkstemp" /\ child = "none"
  /\ file = Gone /\ diskFull = FALSE /\ failed = {}
  /\ ends = {} /\ pipe = << >>
  /\ stdin = << >> /\ answered = 0 /\ exitCode = "none"
  /\ received = << >> /\ result = "pending"

-----------------------------------------------------------------------------
(* The parent.                                                             *)

Goto(next) == parent' = next /\ UNCHANGED call
Return(outcome) == parent' = "done" /\ result' = outcome /\ UNCHANGED received

\* What the code does about an error removes the file first, and remove throws
\* when it fails: the file stays, as what it was left as.
GiveUp(left) ==
  \/ Return("error") /\ file' = Gone
  \/ Return("exception") /\ file' \in left

CreateInput ==
  /\ parent = "mkstemp"
  /\ \/ Goto("write") /\ file' = << >>
     \/ Return("error") /\ UNCHANGED file
  /\ UNCHANGED <<diskFull, failed, ends, pipe, childState>>

\* write_addresses looks at the stream before its destructor writes the rest
\* of the buffer: what a full disk loses then goes unnoticed.
WriteAddresses ==
  /\ parent = "write"
  /\ \/ Goto("pipe") /\ file' = Requested /\ UNCHANGED diskFull
     \/ Goto("pipe") /\ file' \in CutInputs /\ diskFull' = TRUE
     \/ GiveUp(CutInputs \union {<< >>}) /\ UNCHANGED diskFull
  /\ UNCHANGED <<failed, ends, pipe, childState>>

MakePipeUnchecked ==
  /\ parent = "pipe"
  /\ \/ Goto("fork") /\ ends' = ParentEnds
     \/ Goto("fork") /\ UNCHANGED ends
  /\ UNCHANGED <<file, diskFull, failed, pipe, childState>>

MakePipe ==
  /\ parent = "pipe"
  /\ \/ Goto("fork") /\ ends' = ParentEnds /\ UNCHANGED file
     \/ GiveUp({file}) /\ UNCHANGED ends
  /\ UNCHANGED <<diskFull, failed, pipe, childState>>

\* fork: the child has both ends; when it fails the ends are closed first.
ForkChild(endsAfterFailure, fileInChild) ==
  /\ parent = "fork"
  /\ \/ /\ Goto("close_write") /\ child' = "open" /\ file' = fileInChild
        /\ ends' = ends \union {"child_read", "child_write"}
     \/ GiveUp({file}) /\ UNCHANGED child /\ ends' = endsAfterFailure
  /\ UNCHANGED <<diskFull, failed, pipe, stdin, answered, exitCode>>

ForkLeakingPipe == ForkChild(ends, file)
ForkAndRemoveInput == ForkChild({}, Gone)
Fork == ForkChild({}, file)

KeepWriteEnd ==
  /\ parent = "close_write" /\ Goto("read")
  /\ UNCHANGED <<file, diskFull, failed, ends, pipe, childState>>

CloseWriteEnd ==
  /\ parent = "close_write" /\ Goto("read")
  /\ ends' = ends \ {"parent_write"}
  /\ UNCHANGED <<file, diskFull, failed, pipe, childState>>

\* One read: it blocks on an empty pipe somebody can still write to, and
\* returns 0, which ends the loop, when nobody can.
ReadPipe ==
  LET taken == IF Len(pipe) < ReadSize THEN Len(pipe) ELSE ReadSize
  IN  /\ parent = "read"
      /\ \/ /\ pipe # << >>
            /\ received' = received \o SubSeq(pipe, 1, taken)
            /\ pipe' = SubSeq(pipe, taken + 1, Len(pipe))
            /\ UNCHANGED <<parent, result>>
         \/ /\ pipe = << >> /\ ends \intersect Writers = {}
            /\ Goto("close_read") /\ UNCHANGED pipe
      /\ UNCHANGED <<file, diskFull, failed, ends, childState>>

\* A read that fails ends the loop, too, and what was read so far is kept: whole
\* answers, and the beginning of the next one when the last read ended inside it.
ReadFails ==
  /\ parent = "read" /\ Goto("close_read")
  /\ \/ failed' = {"read"}
     \/ Len(received) < Len(stdin) /\ failed' = {"read", "inside_answer"}
  /\ UNCHANGED <<file, diskFull, ends, pipe, childState>>

CloseReadEnd ==
  /\ parent = "close_read" /\ Goto("remove")
  /\ ends' = ends \ {"parent_read"}
  /\ UNCHANGED <<file, diskFull, failed, pipe, childState>>

\* A remove that throws leaves the child to itself.
RemoveInput ==
  /\ parent = "remove"
  /\ \/ Goto("wait") /\ file' = Gone
     \/ Return("exception") /\ UNCHANGED file
  /\ UNCHANGED <<diskFull, failed, ends, pipe, childState>>

WaitFor(codes) ==
  /\ parent = "wait" /\ child = "exited" /\ child' = "reaped"
  /\ Return(IF exitCode \in codes THEN "output" ELSE "error")
  /\ UNCHANGED <<file, diskFull, failed, ends, pipe, stdin, answered, exitCode>>

WaitIgnoringExitCode == WaitFor({"success", "failure"})
Wait == WaitFor({"success"})

WaitFails ==
  /\ parent = "wait" /\ Return("error") /\ failed' = failed \union {"waitpid"}
  /\ UNCHANGED <<file, diskFull, ends, pipe, childState>>

ParentStep ==
  \/ CreateInput \/ WriteAddresses \/ MakePipe \/ Fork \/ CloseWriteEnd
  \/ ReadPipe \/ CloseReadEnd \/ RemoveInput \/ Wait

\* The failures of the calls that block.
ParentFailure == ReadFails \/ WaitFails

-----------------------------------------------------------------------------
(* The child: the code between fork and execv, then addr2line.             *)

ChildGoto(next) == child' = next /\ UNCHANGED exitCode
ChildExit(code) == child' = "exited" /\ exitCode' = code /\ ends' = ends \ ChildEnds

ChildOpenInput ==
  /\ child = "open"
  /\ \/ file # Gone /\ ChildGoto("dup") /\ stdin' = file /\ UNCHANGED ends
     \/ ChildExit("failure") /\ UNCHANGED stdin
  /\ UNCHANGED <<parent, file, diskFull, failed, pipe, answered, call>>

ChildDup ==
  /\ child = "dup"
  /\ \/ ChildGoto("close") /\ ends' = ends \union {"child_stdout"}
     \/ ChildExit("failure")
  /\ UNCHANGED <<parent, file, diskFull, failed, pipe, stdin, answered, call>>

ChildCloseEnds ==
  /\ child = "close" /\ ChildGoto("exec")
  /\ ends' = ends \ {"child_read", "child_write"}
  /\ UNCHANGED <<parent, file, diskFull, failed, pipe, stdin, answered, call>>

ChildExec ==
  /\ child = "exec"
  /\ \/ ChildGoto("addr2line") /\ UNCHANGED ends
     \/ ChildExit("failure")
  /\ UNCHANGED <<parent, file, diskFull, failed, pipe, stdin, answered, call>>

\* addr2line answers line by line, blocks while the pipe is full and dies of
\* a pipe nobody reads, even a full one.
ChildAnswer ==
  /\ child = "addr2line" /\ answered < Len(stdin)
  /\ \/ /\ ends \intersect {"parent_read", "child_read"} = {}
        /\ ChildExit("failure") /\ UNCHANGED <<pipe, answered>>
     \/ /\ ends \intersect {"parent_read", "child_read"} # {} /\ Len(pipe) < PipeCapacity
        /\ pipe' = Append(pipe, stdin[answered + 1])
        /\ answered' = answered + 1
        /\ UNCHANGED <<child, exitCode, ends>>
  /\ UNCHANGED <<parent, file, diskFull, failed, stdin, call>>

\* It exits when its input is answered, or fails at any time.
ChildEnd ==
  /\ child = "addr2line"
  /\ \/ answered = Len(stdin) /\ ChildExit("success")
     \/ ChildExit("failure")
  /\ UNCHANGED <<parent, file, diskFull, failed, pipe, stdin, answered, call>>

ChildStep ==
  \/ ChildOpenInput \/ ChildDup \/ ChildCloseEnds \/ ChildExec
  \/ ChildAnswer \/ ChildEnd

Next == ParentStep \/ ParentFailure \/ ChildStep

\* Both processes are scheduled, and addr2line neither loops nor sleeps.  No
\* read or waitpid that waits in vain is rescued by a failure.
Spec == Init /\ [][Next]_vars /\ WF_vars(ParentStep) /\ WF_vars(ChildStep)

-----------------------------------------------------------------------------
(* Properties.                                                             *)

Inputs == CutInputs \union {Requested}

\* Every variable holds a value of its type, and the descriptors a process is
\* about to use are open.
TypeOK ==
  /\ parent \in {"mkstemp", "write", "pipe", "fork", "close_write", "read",
                 "close_read", "remove", "wait", "done"}
  /\ child \in {"none", "open", "dup", "close", "exec", "addr2line", "exited", "reaped"}
  /\ file \in Inputs \union {Gone, << >>} /\ diskFull \in BOOLEAN
  /\ failed \subseteq {"read", "inside_answer", "waitpid"}
  /\ ends \subseteq ParentEnds \union ChildEnds
  /\ pipe \in Seq(0 .. Count) /\ Len(pipe) <= PipeCapacity
  /\ stdin \in Inputs \union {<< >>} /\ answered \in 0 .. Len(stdin)
  /\ exitCode \in {"none", "success", "failure"}
  /\ received \in Seq(0 .. Count) /\ result \in {"pending", "error", "exception", "output"}
  /\ parent \in {"fork", "close_write"} => ParentEnds \subseteq ends
  /\ parent \in {"read", "close_read"} => "parent_read" \in ends
  /\ child \in {"open", "dup", "close"} => {"child_read", "child_write"} \subseteq ends
  /\ child \in {"exec", "addr2line"} => "child_stdout" \in ends

\* However the call ends, the parent has no descriptor of the pipe left.  Unless
\* it ends by the exception of a remove that failed, the temporary file is gone;
\* and unless that or waitpid failed, no child is left running or unreaped and
\* nobody has a descriptor, even if the output was given up half-way.
NothingLeaks ==
  parent = "done" =>
    /\ ends \intersect ParentEnds = {}
    /\ result # "exception" => file = Gone
    /\ result # "exception" /\ "waitpid" \notin failed => ends = {} /\ child \in {"none", "reaped"}

\* The child opens the file before the parent removes it, unless a read failed:
\* only the end of the output, which a child that has yet to open the file holds
\* open, keeps the parent from removing it.
InputPresentUntilOpened == child = "open" => file # Gone \/ "read" \in failed

\* An answer that was cut is 0, as a cut address is.
Call == INSTANCE Addr2LineCall WITH
  readFailed <- "read" \in failed,
  output <- IF result # "output" THEN << >>
            ELSE IF "inside_answer" \in failed THEN Append(received, 0) ELSE received

\* run_addr2line implements its promise: all answers or an error, but for a disk
\* that was full and a read that failed, and a return.
KeepsPromise == Call!Spec

\* The call returns: parent and child never wait for each other forever.
Returns == <>(parent = "done")

=============================================================================
