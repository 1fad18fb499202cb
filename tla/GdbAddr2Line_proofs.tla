------------------------ MODULE GdbAddr2Line_proofs ------------------------
(***************************************************************************)
(* Proofs about the call of addr2line, for every number of addresses, pipe *)
(* capacity and read size.  They follow the descriptors: unless a read     *)
(* fails the loop ends only when no writer is left, a child that has not   *)
(* exited holds a writing end, so at the end of the loop the child has     *)
(* exited.  And they follow the answers: what was received and what is in  *)
(* the pipe are the first answers to the input, all of it without a failed *)
(* read, so the call keeps the promise of Addr2LineCall but for its        *)
(* liveness.                                                               *)
(***************************************************************************)
EXTENDS GdbAddr2Line, SequenceTheorems, TLAPS

Working == {"open", "dup", "close", "exec", "addr2line"}

\* What the child holds open at each of its steps.
ChildDescriptors ==
  /\ child \in Working \union {"none", "exited", "reaped"}
  /\ child \in {"none", "exited", "reaped"} => ends \intersect ChildEnds = {}
  /\ child \in {"open", "dup", "close"} => "child_write" \in ends
  /\ child \in {"close", "exec", "addr2line"} => "child_stdout" \in ends

\* What the parent holds open, and has left in /tmp, before each of its steps.
ParentDescriptors ==
  /\ ends \subseteq ParentEnds \union ChildEnds
  /\ parent \in {"mkstemp", "write", "pipe"} => ends = {} /\ child = "none"
  /\ parent = "fork" => ends = ParentEnds /\ child = "none"
  /\ parent \in {"mkstemp", "wait"} => file = Gone
  /\ parent \in {"pipe", "fork", "close_write", "read", "close_read", "remove"} => file # Gone
  /\ parent \in {"close_write", "read", "close_read", "remove", "wait"}
       => child \in Working \union {"exited"}
  /\ parent \in {"read", "close_read"} => "parent_write" \notin ends
  /\ parent \in {"remove", "wait", "done"} => ends \intersect ParentEnds = {}
  /\ parent \in {"close_read", "remove", "wait"} /\ "read" \notin failed => child = "exited"
  /\ child = "open" => file # Gone \/ "read" \in failed
  /\ parent # "done" => "waitpid" \notin failed
  /\ parent = "done" /\ result # "exception"
       => file = Gone /\ ("waitpid" \notin failed => child \in {"none", "reaped"})
  /\ parent \in {"mkstemp", "write", "pipe", "fork", "close_write", "read",
                 "close_read", "remove", "wait", "done"}

DescriptorInv == ChildDescriptors /\ ParentDescriptors

\* Neither the request nor what is left of it stands for a missing file.
LEMMA InputsArePresent ==
  ASSUME NEW input \in Inputs
  PROVE  input # Gone
<1>1. Requested # Gone
  <2>1. ASSUME Requested = Gone
        PROVE  FALSE
    <3>1. DOMAIN Requested = 1 .. Count /\ DOMAIN Gone = 1 .. 1 /\ Gone[1] = -1
      BY DEF Requested, FirstAddresses, Gone
    <3>2. 1 \in 1 .. Count
      <4>1. 1 \in DOMAIN Gone
        BY <3>1
      <4>2. 1 \in DOMAIN Requested
        BY <2>1, <4>1
      <4>3. QED
        BY <3>1, <4>2
    <3>3. Requested[1] = 1
      BY <3>2 DEF Requested, FirstAddresses
    <3>4. QED
      BY <2>1, <3>1, <3>3
  <2>2. QED
    BY <2>1
<1>2. ASSUME NEW n \in Nat
      PROVE  FirstAddresses(n) # Gone /\ Append(FirstAddresses(n), 0) # Gone
  <2>1. FirstAddresses(n) \in Seq(Nat) /\ Len(FirstAddresses(n)) = n
    <3>1. FirstAddresses(n) \in [1 .. n -> Nat]
      BY DEF FirstAddresses
    <3>2. QED
      BY <3>1
  <2>2. Gone = <<-1>> /\ Len(Gone) = 1 /\ Gone[1] = -1
    BY DEF Gone
  <2>3. FirstAddresses(n) # Gone
    <3>1. n = 1 => FirstAddresses(n)[1] = 1
      BY DEF FirstAddresses
    <3>2. QED
      BY <2>1, <2>2, <3>1
  <2>4. Append(FirstAddresses(n), 0) # Gone
    <3>1. /\ Len(Append(FirstAddresses(n), 0)) = n + 1
          /\ Append(FirstAddresses(n), 0)[n + 1] = 0
      BY <2>1, AppendProperties
    <3>2. ASSUME Append(FirstAddresses(n), 0) = Gone
          PROVE  FALSE
      <4>1. n + 1 = 1
        BY <2>2, <3>1, <3>2
      <4>2. Gone[1] = 0
        BY <3>1, <3>2, <4>1
      <4>3. QED
        BY <2>2, <4>2
    <3>3. QED
      BY <3>2
  <2>5. QED
    BY <2>3, <2>4
<1>3. input = Requested \/ \E n \in Nat : \/ input = FirstAddresses(n)
                                          \/ input = Append(FirstAddresses(n), 0)
  BY SizesAssumption DEF Inputs, CutInputs
<1>4. QED
  BY <1>1, <1>2, <1>3

\* The descriptors of parent and child are as described in every state.
LEMMA DescriptorsCorrect == Spec => []DescriptorInv
<1>1. Init => DescriptorInv
  BY DEF Init, DescriptorInv, ChildDescriptors, ParentDescriptors
<1>2. DescriptorInv /\ [Next]_vars => DescriptorInv'
  <2> SUFFICES ASSUME DescriptorInv, [Next]_vars
               PROVE  DescriptorInv'
    OBVIOUS
  <2> USE DEF DescriptorInv, ChildDescriptors, ParentDescriptors, ParentEnds, ChildEnds,
              Writers, Working, call, childState
  <2>1. CASE CreateInput
    <3>1. << >> # Gone
      BY DEF Gone
    <3>2. QED
      BY <2>1, <3>1 DEF CreateInput, Goto, Return, childState
  <2>2. CASE WriteAddresses
    <3>1. parent' = "pipe" => file' # Gone
      <4>1. parent' = "pipe" => file' \in Inputs
        BY <2>2 DEF WriteAddresses, GiveUp, Return, Inputs
      <4>2. QED
        BY <4>1, InputsArePresent
    <3>2. QED
      BY <2>2, <3>1 DEF WriteAddresses, Goto, GiveUp, Return
  <2>3. CASE MakePipe
    <3>1. CASE Goto("fork")
      BY <2>3, <3>1 DEF MakePipe, Goto, GiveUp, Return
    <3>2. CASE GiveUp({file}) /\ UNCHANGED ends
      BY <2>3, <3>2 DEF MakePipe, GiveUp, Return
    <3>3. QED
      BY <2>3, <3>1, <3>2 DEF MakePipe
  <2>4. CASE Fork
    BY <2>4 DEF Fork, ForkChild, Goto, GiveUp, Return
  <2>5. CASE CloseWriteEnd
    BY <2>5 DEF CloseWriteEnd, Goto, childState
  <2>6. CASE ReadPipe
    BY <2>6 DEF ReadPipe, Goto, childState
  <2>7. CASE CloseReadEnd
    BY <2>7 DEF CloseReadEnd, Goto, childState
  <2>8. CASE RemoveInput
    BY <2>8 DEF RemoveInput, Goto, Return
  <2>9. CASE Wait
    BY <2>9 DEF Wait, WaitFor, Return
  <2>10. CASE ChildOpenInput
    BY <2>10 DEF ChildOpenInput, ChildGoto, ChildExit
  <2>11. CASE ChildDup
    BY <2>11 DEF ChildDup, ChildGoto, ChildExit
  <2>12. CASE ChildCloseEnds
    <3>1. ChildDescriptors'
      BY <2>12 DEF ChildCloseEnds, ChildGoto
    <3>2. ParentDescriptors'
      BY <2>12 DEF ChildCloseEnds, ChildGoto
    <3>3. QED
      BY <3>1, <3>2
  <2>13. CASE ChildExec
    BY <2>13 DEF ChildExec, ChildGoto, ChildExit
  <2>14. CASE ChildAnswer
    BY <2>14 DEF ChildAnswer, ChildExit
  <2>15. CASE ChildEnd
    BY <2>15 DEF ChildEnd, ChildExit
  <2>16. CASE ReadFails
    BY <2>16 DEF ReadFails, Goto
  <2>17. CASE WaitFails
    BY <2>17 DEF WaitFails, Return
  <2>18. CASE UNCHANGED vars
    BY <2>18 DEF vars
  <2>19. QED
    BY <2>1, <2>2, <2>3, <2>4, <2>5, <2>6, <2>7, <2>8, <2>9, <2>10, <2>11, <2>12,
       <2>13, <2>14, <2>15, <2>16, <2>17, <2>18
    DEF Next, ParentStep, ParentFailure, ChildStep
<1>3. QED
  BY <1>1, <1>2, PTL DEF Spec

\* However the call ends, the parent keeps no descriptor; a file stays only when
\* remove throws, a child only then and when waitpid fails.
THEOREM CallLeaksNothing == Spec => []NothingLeaks
<1>1. DescriptorInv => NothingLeaks
  BY DEF DescriptorInv, ParentDescriptors, ChildDescriptors, NothingLeaks
<1>2. QED
  BY <1>1, DescriptorsCorrect, PTL

\* Unless a read fails, the parent does not remove the file before the child has
\* opened it.
THEOREM ChildFindsItsInput == Spec => []InputPresentUntilOpened
<1>1. DescriptorInv => InputPresentUntilOpened
  BY DEF DescriptorInv, ParentDescriptors, ChildDescriptors, InputPresentUntilOpened,
         Working, ChildEnds, ParentEnds
<1>2. QED
  BY <1>1, DescriptorsCorrect, PTL

-----------------------------------------------------------------------------
(* The answers on their way.                                               *)

\* Numbers of addresses, and the one that is left of a cut address.
Numbers == 0 .. Count

\* What the file holds once it is written.
WholeOrCut == IF diskFull THEN CutInputs ELSE {Requested}

\* Until the call returns it has no result, and the input is written once.
InputInv ==
  /\ result = "pending" <=> parent # "done"
  /\ parent \in {"mkstemp", "write", "pipe", "fork", "close_write", "read"} => failed = {}
  /\ parent \in {"mkstemp", "write"} => ~ diskFull
  /\ parent \notin {"mkstemp", "write"} /\ child # "none" => file = Gone \/ file \in WholeOrCut
  /\ parent \in {"pipe", "fork"} => file \in WholeOrCut
  /\ child \in {"dup", "close", "exec", "addr2line"} => stdin \in WholeOrCut
  /\ child \in {"exited", "reaped"} /\ exitCode = "success" => stdin \in WholeOrCut

\* Every answer is read or in the pipe, in the order of the input, and a child
\* that succeeded has answered all of it; without a failed read all was read, and
\* an answer that was cut was still to come.
AnswersInv ==
  /\ received \o pipe = SubSeq(stdin, 1, answered)
  /\ child \notin {"addr2line", "exited", "reaped"} => answered = 0
  /\ child \in {"exited", "reaped"} /\ exitCode = "success" => answered = Len(stdin)
  /\ parent \in {"close_read", "remove", "wait"} /\ "read" \notin failed => pipe = << >>
  /\ "inside_answer" \in failed => "read" \in failed /\ Len(received) < Len(stdin)
  /\ child \in {"none", "open"} => stdin = << >>

CallInv == DescriptorInv /\ TypeOK /\ InputInv /\ AnswersInv

\* An input is a sequence of numbers.
LEMMA InputsAreSequences ==
  ASSUME NEW input \in Inputs \union {<< >>}
  PROVE  input \in Seq(Numbers)
<1>1. ASSUME NEW n \in 0 .. Count
      PROVE  FirstAddresses(n) \in Seq(Numbers)
  <2>1. n \in Nat /\ FirstAddresses(n) \in [1 .. n -> Numbers]
    BY SizesAssumption DEF FirstAddresses, Numbers
  <2>2. QED
    BY <2>1
<1>2. 0 \in Numbers
  BY SizesAssumption DEF Numbers
<1>3. ASSUME NEW n \in 0 .. Count
      PROVE  Append(FirstAddresses(n), 0) \in Seq(Numbers)
  BY <1>1, <1>2, AppendProperties
<1>4. Requested \in Seq(Numbers)
  BY <1>1, SizesAssumption DEF Requested
<1>5. << >> \in Seq(Numbers)
  BY EmptySeq
<1>6. ASSUME input \in CutInputs
      PROVE  input \in Seq(Numbers)
  <2> DEFINE cuts == {FirstAddresses(n) : n \in 0 .. Count - 1}
  <2>1. \A cut \in cuts : cut \in Seq(Numbers) /\ Append(cut, 0) \in Seq(Numbers)
    BY <1>1, <1>3, SizesAssumption
  <2>2. input \in cuts \/ \E cut \in cuts : input = Append(cut, 0)
    BY <1>6 DEF CutInputs
  <2>3. QED
    BY <2>1, <2>2
<1>7. QED
  BY <1>4, <1>5, <1>6 DEF Inputs

\* What a read takes and what it leaves are the pipe.
LEMMA ReadKeepsOrder ==
  ASSUME NEW r \in Seq(Numbers), NEW p \in Seq(Numbers), NEW n \in 0 .. Len(p)
  PROVE  /\ r \o SubSeq(p, 1, n) \in Seq(Numbers)
         /\ SubSeq(p, n + 1, Len(p)) \in Seq(Numbers)
         /\ Len(SubSeq(p, n + 1, Len(p))) = Len(p) - n
         /\ (r \o SubSeq(p, 1, n)) \o SubSeq(p, n + 1, Len(p)) = r \o p
<1> DEFINE taken == SubSeq(p, 1, n)
           left == SubSeq(p, n + 1, Len(p))
<1>1. \A i \in 1 .. Len(p) : p[i] \in Numbers
  OBVIOUS
<1>2. taken \in Seq(Numbers)
  BY <1>1, SubSeqProperties
<1>3. left \in Seq(Numbers) /\ Len(left) = Len(p) - n
  BY <1>1, SubSeqProperties
<1>4. taken \o left = p
  <2>1. 1 \in 1 .. Len(p) + 1 /\ n \in 1 - 1 .. Len(p) /\ Len(p) \in n .. Len(p)
    OBVIOUS
  <2>2. taken \o left = SubSeq(p, 1, Len(p))
    BY <2>1, ConcatAdjacentSubSeq, Zenon
  <2>3. QED
    BY <2>2, SubSeqFull
<1> HIDE DEF taken, left
<1>5. r \o taken \in Seq(Numbers)
  BY <1>2, ConcatProperties, Zenon
<1>6. (r \o taken) \o left = r \o (taken \o left)
  BY <1>2, <1>3, ConcatAssociative, SMTT(30)
<1>7. QED
  BY <1>3, <1>4, <1>5, <1>6 DEF taken, left

\* Appending to the second of two sequences is appending to both.
LEMMA AppendToSecond ==
  ASSUME NEW S, NEW s \in Seq(S), NEW t \in Seq(S), NEW e \in S
  PROVE  s \o Append(t, e) = Append(s \o t, e)
<1>1. /\ s \o Append(t, e) \in Seq(S) /\ Append(s \o t, e) \in Seq(S)
      /\ Len(s \o Append(t, e)) = Len(Append(s \o t, e))
  BY AppendProperties, ConcatProperties
<1>2. \A i \in 1 .. Len(s \o Append(t, e)) : (s \o Append(t, e))[i] = Append(s \o t, e)[i]
  OBVIOUS
<1>3. QED
  BY <1>1, <1>2, SeqEqual

\* The first elements of a sequence, and the next one appended to them.
LEMMA FirstElementsGrow ==
  ASSUME NEW S, NEW s \in Seq(S), NEW n \in 0 .. Len(s) - 1
  PROVE  SubSeq(s, 1, n + 1) = Append(SubSeq(s, 1, n), s[n + 1])
<1>1. n + 1 \in 1 .. Len(s) /\ 1 \in 1 .. n + 1 /\ 1 \in 1 .. Len(s) /\ n + 1 \in 1 .. Len(s)
  OBVIOUS
<1>2. SubSeq(s, 1, n + 1) = SubSeq(s, 1, (n + 1) - 1) \o << s[n + 1] >>
  BY <1>1, SubSeqRecursiveSecond
<1>3. SubSeq(s, 1, n) \in Seq(S) /\ s[n + 1] \in S
  BY SubSeqProperties
<1>4. QED
  BY <1>2, <1>3, AppendIsConcat

\* An answer that is put into the pipe is the next one of the input.
LEMMA AnswerIsNext ==
  ASSUME NEW r \in Seq(Numbers), NEW p \in Seq(Numbers), NEW s \in Seq(Numbers),
         NEW n \in 0 .. Len(s) - 1, r \o p = SubSeq(s, 1, n)
  PROVE  /\ Append(p, s[n + 1]) \in Seq(Numbers)
         /\ Len(Append(p, s[n + 1])) = Len(p) + 1
         /\ r \o Append(p, s[n + 1]) = SubSeq(s, 1, n + 1)
<1>1. s[n + 1] \in Numbers
  OBVIOUS
<1>2. QED
  BY <1>1, AppendToSecond, FirstElementsGrow, AppendProperties

\* A step keeps the types, the input and the answers as described.
LEMMA CallInvPreserved ==
  CallInv /\ DescriptorInv' /\ [Next]_vars => CallInv'
<1> SUFFICES ASSUME CallInv, DescriptorInv', [Next]_vars
             PROVE  TypeOK' /\ InputInv' /\ AnswersInv'
  BY DEF CallInv
<1>0. /\ DescriptorInv /\ TypeOK /\ InputInv /\ AnswersInv
      /\ ParentDescriptors /\ ChildDescriptors /\ ParentDescriptors' /\ ChildDescriptors'
  BY DEF CallInv, DescriptorInv
<1> USE DEF call, childState
<1>1. CASE CreateInput
  BY <1>0, <1>1 DEF CreateInput, Goto, Return, TypeOK, InputInv, AnswersInv,
                    WholeOrCut, ParentDescriptors, ChildDescriptors, Working
<1>2. CASE WriteAddresses
  <2>1. TypeOK'
    <3>1. /\ file' \in Inputs \union {Gone, << >>} /\ diskFull' \in BOOLEAN
          /\ parent' \in {"pipe", "done"} /\ result' \in {"pending", "error", "exception", "output"}
      BY <1>0, <1>2, ZenonT(60) DEF WriteAddresses, Goto, GiveUp, Return, TypeOK, Inputs
    <3>2. UNCHANGED <<failed, ends, pipe, childState, received>>
      BY <1>2 DEF WriteAddresses, Goto, GiveUp, Return
    <3>3. QED
      BY <1>0, <3>1, <3>2 DEF TypeOK
  <2>2. InputInv'
    BY <1>0, <1>2 DEF WriteAddresses, Goto, GiveUp, Return, InputInv, WholeOrCut,
                      ParentDescriptors
  <2>3. AnswersInv'
    BY <1>0, <1>2 DEF WriteAddresses, Goto, GiveUp, Return, AnswersInv
  <2>4. QED
    BY <2>1, <2>2, <2>3
<1>3. CASE MakePipe
  <2>1. TypeOK'
    BY <1>0, <1>3 DEF MakePipe, Goto, GiveUp, Return, TypeOK, ParentDescriptors, ParentEnds
  <2>2. InputInv' /\ AnswersInv'
    BY <1>0, <1>3 DEF MakePipe, Goto, GiveUp, Return, InputInv, WholeOrCut, AnswersInv,
                      ParentDescriptors
  <2>3. QED
    BY <2>1, <2>2
<1>4. CASE Fork
  <2>1. TypeOK'
    BY <1>0, <1>4 DEF Fork, ForkChild, Goto, GiveUp, Return, TypeOK, ParentDescriptors,
                      ParentEnds, ChildEnds
  <2>2. InputInv' /\ AnswersInv'
    BY <1>0, <1>4 DEF Fork, ForkChild, Goto, GiveUp, Return, InputInv, WholeOrCut,
                      AnswersInv, ParentDescriptors
  <2>3. QED
    BY <2>1, <2>2
<1>5. CASE CloseWriteEnd
  <2>1. TypeOK'
    BY <1>0, <1>5 DEF CloseWriteEnd, Goto, TypeOK, ParentEnds
  <2>2. InputInv' /\ AnswersInv'
    BY <1>0, <1>5 DEF CloseWriteEnd, Goto, InputInv, WholeOrCut, AnswersInv
  <2>3. QED
    BY <2>1, <2>2
<1>6. CASE ReadPipe
  <2> DEFINE taken == IF Len(pipe) < ReadSize THEN Len(pipe) ELSE ReadSize
  <2>1. received \in Seq(Numbers) /\ pipe \in Seq(Numbers) /\ taken \in 0 .. Len(pipe)
    BY <1>0, SizesAssumption DEF TypeOK, Numbers
  <2>2. /\ received \o SubSeq(pipe, 1, taken) \in Seq(Numbers)
        /\ SubSeq(pipe, taken + 1, Len(pipe)) \in Seq(Numbers)
        /\ Len(SubSeq(pipe, taken + 1, Len(pipe))) = Len(pipe) - taken
        /\ (received \o SubSeq(pipe, 1, taken)) \o SubSeq(pipe, taken + 1, Len(pipe))
              = received \o pipe
    BY <2>1, ReadKeepsOrder
  <2>3. \/ /\ received' = received \o SubSeq(pipe, 1, taken)
           /\ pipe' = SubSeq(pipe, taken + 1, Len(pipe))
           /\ UNCHANGED <<parent, result>>
        \/ pipe = << >> /\ parent' = "close_read" /\ UNCHANGED <<pipe, received, result>>
    BY <1>6 DEF ReadPipe, Goto
  <2>4. /\ received' \in Seq(Numbers) /\ pipe' \in Seq(Numbers) /\ Len(pipe') <= PipeCapacity
        /\ received' \o pipe' = received \o pipe
    <3>1. Len(pipe) <= PipeCapacity /\ Len(pipe) \in Nat /\ PipeCapacity \in Nat
      BY <1>0, SizesAssumption DEF TypeOK
    <3>2. CASE /\ received' = received \o SubSeq(pipe, 1, taken)
               /\ pipe' = SubSeq(pipe, taken + 1, Len(pipe))
      <4>1. Len(pipe') = Len(pipe) - taken
        BY <2>2, <3>2
      <4>2. Len(pipe') <= PipeCapacity
        BY <2>1, <3>1, <4>1
      <4>3. QED
        BY <2>2, <3>2, <4>2, Zenon
    <3>3. CASE UNCHANGED <<pipe, received>>
      BY <2>1, <3>1, <3>3
    <3>4. QED
      BY <2>3, <3>2, <3>3
  <2>5. UNCHANGED <<file, diskFull, failed, ends, childState>> /\ parent = "read"
    BY <1>6 DEF ReadPipe
  <2>6. TypeOK'
    BY <1>0, <2>3, <2>4, <2>5 DEF TypeOK, Numbers
  <2>7. InputInv'
    BY <1>0, <2>3, <2>5 DEF InputInv, WholeOrCut
  <2>8. AnswersInv'
    BY <1>0, <2>3, <2>4, <2>5 DEF AnswersInv, InputInv
  <2>9. QED
    BY <2>6, <2>7, <2>8
<1>7. CASE CloseReadEnd
  <2>1. TypeOK'
    BY <1>0, <1>7 DEF CloseReadEnd, Goto, TypeOK, ParentEnds, ParentDescriptors
  <2>2. InputInv' /\ AnswersInv'
    BY <1>0, <1>7 DEF CloseReadEnd, Goto, InputInv, WholeOrCut, AnswersInv
  <2>3. QED
    BY <2>1, <2>2
<1>8. CASE RemoveInput
  <2>1. TypeOK'
    BY <1>0, <1>8 DEF RemoveInput, Goto, Return, TypeOK
  <2>2. InputInv'
    BY <1>0, <1>8 DEF RemoveInput, Goto, Return, InputInv, WholeOrCut
  <2>3. AnswersInv'
    BY <1>0, <1>8 DEF RemoveInput, Goto, Return, AnswersInv
  <2>4. QED
    BY <2>1, <2>2, <2>3
<1>9. CASE Wait
  BY <1>0, <1>9 DEF Wait, WaitFor, Return, TypeOK, InputInv, WholeOrCut, AnswersInv
<1>10. CASE ChildOpenInput
  <2>1. /\ file # Gone => file \in WholeOrCut
        /\ answered = 0 /\ child' # "addr2line" /\ stdin' \in {stdin, file}
    BY <1>0, <1>10 DEF ChildOpenInput, ChildGoto, ChildExit, InputInv, AnswersInv,
                       ParentDescriptors, ChildDescriptors
  <2>2. stdin' \in Inputs \union {<< >>} /\ Len(stdin') \in Nat
    <3>1. stdin' \in Inputs \union {<< >>}
      BY <1>0, <1>10 DEF ChildOpenInput, ChildGoto, ChildExit, TypeOK
    <3>2. QED
      BY <3>1, InputsAreSequences
  <2>3. TypeOK'
    <3>1. answered' \in 0 .. Len(stdin')
      BY <1>10, <2>1, <2>2 DEF ChildOpenInput
    <3>2. CASE ChildGoto("dup") /\ UNCHANGED ends
      BY <1>0, <1>10, <2>2, <3>1, <3>2 DEF ChildOpenInput, ChildGoto, TypeOK
    <3>3. CASE ChildExit("failure")
      BY <1>0, <1>10, <2>2, <3>1, <3>3 DEF ChildOpenInput, ChildExit, TypeOK, ChildEnds,
                                           ParentEnds
    <3>4. QED
      BY <1>10, <3>2, <3>3 DEF ChildOpenInput
  <2>4. InputInv'
    BY <1>0, <1>10, <2>1 DEF ChildOpenInput, ChildGoto, ChildExit, InputInv, WholeOrCut
  <2>5. SubSeq(stdin, 1, answered) = << >> /\ SubSeq(stdin', 1, answered) = << >>
    BY <2>1, SubSeqEmpty
  <2>6. AnswersInv'
    <3>1. received' \o pipe' = SubSeq(stdin', 1, answered')
      BY <1>0, <1>10, <2>1, <2>5 DEF ChildOpenInput, AnswersInv
    <3>2. /\ child' \notin {"addr2line", "exited", "reaped"} => answered' = 0
          /\ child' \in {"exited", "reaped"} /\ exitCode' = "success" => answered' = Len(stdin')
          /\ parent' \in {"close_read", "remove", "wait"} /\ "read" \notin failed' => pipe' = << >>
          /\ "inside_answer" \in failed' => "read" \in failed' /\ Len(received') < Len(stdin')
          /\ child' \in {"none", "open"} => stdin' = << >>
      BY <1>0, <1>10, <2>1 DEF ChildOpenInput, ChildGoto, ChildExit, AnswersInv
    <3>3. QED
      BY <3>1, <3>2 DEF AnswersInv
  <2>7. QED
    BY <2>3, <2>4, <2>6
<1>11. CASE ChildDup
  <2>1. TypeOK'
    <3>1. CASE ChildGoto("close") /\ ends' = ends \union {"child_stdout"}
      BY <1>0, <1>11, <3>1 DEF ChildDup, ChildGoto, TypeOK, ChildEnds, ParentEnds
    <3>2. CASE ChildExit("failure")
      BY <1>0, <1>11, <3>2 DEF ChildDup, ChildExit, TypeOK, ChildEnds, ParentEnds
    <3>3. QED
      BY <1>11, <3>1, <3>2 DEF ChildDup
  <2>2. InputInv' /\ AnswersInv'
    BY <1>0, <1>11 DEF ChildDup, ChildGoto, ChildExit, InputInv, WholeOrCut, AnswersInv
  <2>3. QED
    BY <2>1, <2>2
<1>12. CASE ChildCloseEnds
  <2>1. TypeOK'
    BY <1>0, <1>12 DEF ChildCloseEnds, ChildGoto, TypeOK, ChildEnds, ParentEnds,
                       ChildDescriptors
  <2>2. InputInv' /\ AnswersInv'
    BY <1>0, <1>12 DEF ChildCloseEnds, ChildGoto, InputInv, WholeOrCut, AnswersInv
  <2>3. QED
    BY <2>1, <2>2
<1>13. CASE ChildExec
  <2>1. TypeOK'
    <3>1. CASE ChildGoto("addr2line") /\ UNCHANGED ends
      BY <1>0, <1>13, <3>1 DEF ChildExec, ChildGoto, TypeOK
    <3>2. CASE ChildExit("failure")
      BY <1>0, <1>13, <3>2 DEF ChildExec, ChildExit, TypeOK, ChildEnds, ParentEnds
    <3>3. QED
      BY <1>13, <3>1, <3>2 DEF ChildExec
  <2>2. InputInv' /\ AnswersInv'
    BY <1>0, <1>13 DEF ChildExec, ChildGoto, ChildExit, InputInv, WholeOrCut, AnswersInv
  <2>3. QED
    BY <2>1, <2>2
<1>14. CASE ChildAnswer
  <2>1. /\ received \in Seq(Numbers) /\ pipe \in Seq(Numbers) /\ stdin \in Seq(Numbers)
        /\ answered \in 0 .. Len(stdin) - 1 /\ received \o pipe = SubSeq(stdin, 1, answered)
    <3>1. stdin \in Seq(Numbers)
      BY <1>0, InputsAreSequences DEF TypeOK
    <3>2. QED
      BY <1>0, <1>14, <3>1 DEF TypeOK, Numbers, ChildAnswer, AnswersInv
  <2>2. /\ Append(pipe, stdin[answered + 1]) \in Seq(Numbers)
        /\ Len(Append(pipe, stdin[answered + 1])) = Len(pipe) + 1
        /\ received \o Append(pipe, stdin[answered + 1]) = SubSeq(stdin, 1, answered + 1)
    BY <2>1, AnswerIsNext
  <2>3. CASE UNCHANGED <<pipe, answered>> /\ ChildExit("failure")
    <3>1. TypeOK'
      BY <1>0, <1>14, <2>3 DEF ChildAnswer, ChildExit, TypeOK, ChildEnds, ParentEnds
    <3>2. InputInv' /\ AnswersInv'
      BY <1>0, <1>14, <2>3 DEF ChildAnswer, ChildExit, InputInv, WholeOrCut, AnswersInv
    <3>3. QED
      BY <3>1, <3>2
  <2>4. CASE /\ pipe' = Append(pipe, stdin[answered + 1]) /\ answered' = answered + 1
             /\ UNCHANGED <<child, exitCode, ends>>
    <3>1. Len(pipe') <= PipeCapacity
      BY <1>0, <1>14, <2>1, <2>2, <2>4, SizesAssumption DEF ChildAnswer, TypeOK
    <3>2. TypeOK'
      BY <1>0, <1>14, <2>1, <2>2, <2>4, <3>1 DEF ChildAnswer, TypeOK, Numbers
    <3>3. InputInv'
      BY <1>0, <1>14, <2>4 DEF ChildAnswer, InputInv, WholeOrCut
    <3>4. AnswersInv'
      <4>1. received' \o pipe' = SubSeq(stdin', 1, answered')
        BY <1>14, <2>2, <2>4 DEF ChildAnswer
      <4>2. /\ child' \notin {"addr2line", "exited", "reaped"} => answered' = 0
            /\ child' \in {"exited", "reaped"} /\ exitCode' = "success"
                 => answered' = Len(stdin')
            /\ parent' \in {"close_read", "remove", "wait"} /\ "read" \notin failed'
                 => pipe' = << >>
            /\ "inside_answer" \in failed' => "read" \in failed' /\ Len(received') < Len(stdin')
            /\ child' \in {"none", "open"} => stdin' = << >>
        BY <1>0, <1>14, <2>4 DEF ChildAnswer, AnswersInv, ParentDescriptors
      <4>3. QED
        BY <4>1, <4>2 DEF AnswersInv
    <3>5. QED
      BY <3>2, <3>3, <3>4
  <2>5. QED
    BY <1>14, <2>3, <2>4 DEF ChildAnswer
<1>15. CASE ChildEnd
  <2>1. TypeOK'
    <3>1. \E code \in {"success", "failure"} : ChildExit(code)
      BY <1>15 DEF ChildEnd
    <3>2. QED
      BY <1>0, <1>15, <3>1 DEF ChildEnd, ChildExit, TypeOK, ChildEnds, ParentEnds
  <2>2. InputInv' /\ AnswersInv'
    BY <1>0, <1>15 DEF ChildEnd, ChildExit, InputInv, WholeOrCut, AnswersInv
  <2>3. QED
    BY <2>1, <2>2
<1>16. CASE ReadFails
  <2>1. TypeOK'
    BY <1>0, <1>16 DEF ReadFails, Goto, TypeOK
  <2>2. InputInv' /\ AnswersInv'
    BY <1>0, <1>16 DEF ReadFails, Goto, InputInv, WholeOrCut, AnswersInv
  <2>3. QED
    BY <2>1, <2>2
<1>17. CASE WaitFails
  <2>1. TypeOK'
    BY <1>0, <1>17 DEF WaitFails, Return, TypeOK
  <2>2. InputInv' /\ AnswersInv'
    BY <1>0, <1>17 DEF WaitFails, Return, InputInv, WholeOrCut, AnswersInv
  <2>3. QED
    BY <2>1, <2>2
<1>18. CASE UNCHANGED vars
  BY <1>0, <1>18 DEF vars, TypeOK, InputInv, WholeOrCut, AnswersInv
<1>19. QED
  BY <1>1, <1>2, <1>3, <1>4, <1>5, <1>6, <1>7, <1>8, <1>9, <1>10, <1>11, <1>12,
     <1>13, <1>14, <1>15, <1>16, <1>17, <1>18
  DEF Next, ParentStep, ParentFailure, ChildStep

\* The first of two sequences is the beginning of both.
LEMMA FirstPart ==
  ASSUME NEW S, NEW r \in Seq(S), NEW p \in Seq(S), NEW s \in Seq(S), r \o p = s
  PROVE  /\ Len(r) \in 0 .. Len(s) /\ r = SubSeq(s, 1, Len(r))
         /\ p = << >> => r = s
<1>1. Len(s) = Len(r) + Len(p) /\ Len(r) \in Nat /\ Len(p) \in Nat
  BY ConcatProperties
<1>2. \A k \in 1 .. Len(r) : s[k] = r[k]
  BY ConcatProperties
<1>3. /\ SubSeq(s, 1, Len(r)) \in Seq(S) /\ Len(SubSeq(s, 1, Len(r))) = Len(r)
      /\ \A k \in 1 .. Len(r) : SubSeq(s, 1, Len(r))[k] = s[k]
  BY <1>1, SubSeqProperties
<1>4. r = SubSeq(s, 1, Len(r))
  BY <1>2, <1>3, SeqEqual
<1>5. QED
  BY <1>1, <1>4, ConcatEmptySeq

\* What was received of the answers is their beginning.
LEMMA FirstReceived ==
  ASSUME stdin \in Seq(Numbers), received \in Seq(Numbers), pipe \in Seq(Numbers),
         received \o pipe = stdin
  PROVE  /\ Len(received) \in 0 .. Len(stdin) /\ received = SubSeq(stdin, 1, Len(received))
         /\ pipe = << >> => received = stdin
<1> DEFINE Part(S, r, p, s) == /\ Len(r) \in 0 .. Len(s) /\ r = SubSeq(s, 1, Len(r))
                               /\ p = << >> => r = s
<1>1. \A S : \A r, p, s \in Seq(S) : r \o p = s => Part(S, r, p, s)
  BY FirstPart
<1> HIDE DEF Part
<1>2. Part(Numbers, received, pipe, stdin)
  BY <1>1
<1>3. QED
  BY <1>2 DEF Part

\* Types, input and answers are as described in every state.
LEMMA CallInvariant == Spec => []CallInv
<1>1. Init => CallInv
  <2>1. ASSUME Init
        PROVE  TypeOK
    <3>1. << >> \in Seq(0 .. Count) /\ Len(<< >>) = 0
      BY EmptySeq
    <3>2. /\ pipe \in Seq(0 .. Count) /\ Len(pipe) <= PipeCapacity
          /\ received \in Seq(0 .. Count) /\ answered \in 0 .. Len(stdin)
      BY <2>1, <3>1, SizesAssumption DEF Init
    <3>3. QED
      BY <2>1, <3>2 DEF Init, TypeOK
  <2>2. ASSUME Init
        PROVE  AnswersInv
    <3>1. << >> \o << >> = << >> /\ SubSeq(<< >>, 1, 0) = << >>
      BY SubSeqEmpty, ConcatEmptySeq, EmptySeq
    <3>2. QED
      BY <2>2, <3>1 DEF Init, AnswersInv
  <2>3. Init => InputInv /\ DescriptorInv
    BY DEF Init, InputInv, DescriptorInv, ChildDescriptors, ParentDescriptors
  <2>4. QED
    BY <2>1, <2>2, <2>3 DEF CallInv
<1>2. CallInv /\ DescriptorInv' /\ [Next]_vars => CallInv'
  BY CallInvPreserved
<1>3. QED
  BY <1>1, <1>2, DescriptorsCorrect, PTL DEF Spec

\* Every variable keeps its type, and a process only uses descriptors that are
\* open.
THEOREM TypeCorrect == Spec => []TypeOK
<1>1. CallInv => TypeOK
  BY DEF CallInv
<1>2. QED
  BY <1>1, CallInvariant, PTL

\* The call keeps the safety part of its promise: it returns once, an error or
\* the answers to the whole request in its order, however reads and writes are
\* cut into pieces; there are fewer only of a request the disk has cut, and after
\* a read that failed, when they are the beginning of the answers.
THEOREM AnswersAllOrFails == Spec => Call!Safety
<1>1. Init => Call!Init
  BY DEF Init, Call!Init
<1>2. CallInv /\ [Next]_vars => [Call!Next]_Call!vars
  <2> SUFFICES ASSUME CallInv, [Next]_vars
               PROVE  [Call!Next]_Call!vars
    OBVIOUS
  <2>0. /\ DescriptorInv /\ TypeOK /\ InputInv /\ AnswersInv /\ ParentDescriptors
        /\ result = "pending" <=> parent # "done"
    BY DEF CallInv, DescriptorInv, InputInv
  <2> USE DEF Call!Next, Call!vars, Call!FillDisk, Call!FailToRead, Call!Fail,
              Call!Answer, call, childState
  <2>1. CASE CreateInput
    BY <2>0, <2>1 DEF CreateInput, Goto, Return
  <2>2. CASE WriteAddresses
    BY <2>0, <2>2 DEF WriteAddresses, Goto, GiveUp, Return, InputInv
  <2>3. CASE MakePipe
    BY <2>0, <2>3 DEF MakePipe, Goto, GiveUp, Return
  <2>4. CASE Fork
    BY <2>0, <2>4 DEF Fork, ForkChild, Goto, GiveUp, Return
  <2>5. CASE CloseWriteEnd \/ CloseReadEnd \/ RemoveInput
    BY <2>0, <2>5 DEF CloseWriteEnd, CloseReadEnd, RemoveInput, Goto, Return
  <2>6. CASE ReadPipe
    BY <2>0, <2>6 DEF ReadPipe, Goto
  <2>7. CASE Wait /\ exitCode = "success"
    <3> DEFINE complete == IF diskFull THEN CutInputs ELSE {Requested}
               output == IF "inside_answer" \in failed THEN Append(received, 0) ELSE received
    <3>1. /\ stdin \in complete /\ received \o pipe = SubSeq(stdin, 1, Len(stdin))
          /\ "read" \notin failed => pipe = << >>
      BY <2>0, <2>7 DEF Wait, WaitFor, InputInv, AnswersInv, WholeOrCut
    <3>2. stdin \in Seq(Numbers) /\ received \in Seq(Numbers) /\ pipe \in Seq(Numbers)
      BY <2>0, InputsAreSequences DEF TypeOK, Numbers
    <3>3. received \o pipe = stdin
      BY <3>1, <3>2, SubSeqFull
    <3>4. /\ Len(received) \in 0 .. Len(stdin) /\ received = SubSeq(stdin, 1, Len(received))
          /\ pipe = << >> => received = stdin
      BY <3>2, <3>3, FirstReceived
    <3>5. /\ result = "pending" /\ result' = "output"
          /\ UNCHANGED <<received, failed, diskFull>>
      BY <2>0, <2>7 DEF Wait, WaitFor, Return
    <3>6. CASE "read" \notin failed
      <4>1. output = stdin
        BY <2>0, <3>1, <3>4, <3>6 DEF AnswersInv
      <4>2. QED
        BY <3>1, <3>5, <4>1
    <3>7. CASE "read" \in failed
      <4>1. output \in Call!Beginnings(stdin)
        <5>1. CASE "inside_answer" \in failed
          <6>1. Len(received) \in 0 .. Len(stdin) - 1
            BY <2>0, <3>2, <3>4, <5>1 DEF AnswersInv
          <6>2. QED
            BY <3>4, <5>1, <6>1 DEF Call!Beginnings
        <5>2. CASE "inside_answer" \notin failed
          BY <3>4, <5>2 DEF Call!Beginnings
        <5>3. QED
          BY <5>1, <5>2
      <4> HIDE DEF output
      <4>2. output \in Call!Beginnings(stdin) /\ stdin \in complete /\ "read" \in failed
        BY <3>1, <3>7, <4>1
      <4>3. (IF result' # "output" THEN << >>
             ELSE IF "inside_answer" \in failed' THEN Append(received', 0) ELSE received') = output
        BY <3>5 DEF output
      <4>4. QED
        BY <3>5, <4>2, <4>3
    <3>8. QED
      BY <3>6, <3>7
  <2>8. CASE (Wait /\ exitCode # "success") \/ WaitFails
    BY <2>0, <2>8 DEF Wait, WaitFor, WaitFails, Return
  <2>9. CASE ReadFails
    BY <2>0, <2>9 DEF ReadFails, Goto, InputInv
  <2>10. CASE ChildStep
    BY <2>10 DEF ChildStep, ChildOpenInput, ChildDup, ChildCloseEnds, ChildExec, ChildAnswer,
                 ChildEnd
  <2>11. CASE UNCHANGED vars
    BY <2>11 DEF vars
  <2>12. QED
    BY <2>1, <2>2, <2>3, <2>4, <2>5, <2>6, <2>7, <2>8, <2>9, <2>10, <2>11
    DEF Next, ParentStep, ParentFailure
<1>3. QED
  BY <1>1, <1>2, CallInvariant, PTL DEF Spec, Call!Safety
=============================================================================
