------------------------- MODULE KernelTracer_proofs -------------------------
(***************************************************************************)
(* Proofs about KernelTracer: its variables keep their types, the vector   *)
(* is never accessed by two threads at once, main never uses a pointer     *)
(* into it that has become stale, the manifest is what was captured, and   *)
(* the files it names hold what this run captured.                         *)
(***************************************************************************)
EXTENDS KernelTracer, SequenceTheorems, TLAPS

-----------------------------------------------------------------------------
(* The inductive invariant: the types, in the groups the steps change them *)
(* in, and who may be where.                                               *)

HostTypes ==
  /\ run \in 0 .. MaxRuns /\ host \in HostPlaces
  /\ status \in {"none", "running", "success", "failure", "killed"}
  /\ tracer \in {"none", "enabled", "disabled"}
ResultType == valid \in BOOLEAN
CallbackTypes == thread \in [Threads -> CallbackState] /\ mutex \in Threads \union {NoThread}
VectorTypes == records \in Seq(Record) /\ moved \in Nat /\ creations \in Seq(Creation)
WriterTypes == count \in Nat /\ index \in 1 .. count + 1 /\ pointer \in Nat /\ listed \in Seq(Record)
DiskTypes == files \in [Files -> SUBSET Image] /\ json \in Manifest

\* Who is inside the vector holds the mutex, and only they do.
MutexInv == \A t \in Threads : Storing(t) <=> mutex = t

\* Without a tracer no thread is in a callback, and main has no tracer any
\* more when it begins to write the manifest.
ShutdownInv ==
  /\ tracer = "none" => Quiet
  /\ host \in {"open_json", "count", "fetch", "read"} => tracer = "none"

\* Nothing has been recorded since main took its pointer, which it does from the
\* first record on; and a process that runs has a number.
PointerInv ==
  /\ host = "read" => pointer = moved /\ index <= Len(records) /\ index <= count
  /\ host \in {"workload", "shutdown", "open_json", "count"} => index = 1
  /\ host # "idle" => run # 0
  /\ (\E t \in Threads : thread[t].at # "out") => run # 0

TracerInv ==
  /\ HostTypes /\ ResultType /\ CallbackTypes /\ VectorTypes /\ WriterTypes /\ DiskTypes
  /\ MutexInv /\ ShutdownInv /\ PointerInv

LEMMA OutsideType == Outside \in CallbackState /\ Outside.at = "out"
  BY TracerAssumption DEF Outside, CallbackState, Places

LEMMA InitInv == Init => TracerInv
<1> SUFFICES ASSUME Init PROVE TracerInv OBVIOUS
<1>1. HostTypes BY TracerAssumption DEF Init, HostTypes, HostPlaces
<1>9. ResultType BY Zenon DEF Init, ResultType
<1>2. CallbackTypes BY OutsideType DEF Init, CallbackTypes
<1>3. VectorTypes BY DEF Init, VectorTypes
<1>4. WriterTypes BY DEF Init, WriterTypes
<1>5. DiskTypes BY TracerAssumption DEF Init, DiskTypes, Manifest
<1>6. MutexInv BY OutsideType, TracerAssumption DEF Init, MutexInv, Storing
<1>7. ShutdownInv BY OutsideType DEF Init, ShutdownInv, Quiet
<1>8. PointerInv BY OutsideType DEF Init, PointerInv
<1> QED BY <1>1, <1>2, <1>3, <1>4, <1>5, <1>6, <1>7, <1>8, <1>9 DEF TracerInv

-----------------------------------------------------------------------------
(* Steps that begin and end a process.                                     *)

LEMMA StartStep == TracerInv /\ Start => TracerInv'
<1> SUFFICES ASSUME TracerInv, Start PROVE TracerInv' OBVIOUS
<1>1. HostTypes' BY TracerAssumption DEF TracerInv, Start, HostTypes, HostPlaces
<1>9. ResultType' BY Zenon DEF Start, ResultType
<1>2. CallbackTypes' BY OutsideType DEF Start, CallbackTypes
<1>3. VectorTypes' BY DEF TracerInv, Start, VectorTypes
<1>4. WriterTypes' BY DEF Start, WriterTypes
<1>5. DiskTypes' BY DEF TracerInv, Start, DiskTypes, disk
<1>6. MutexInv' BY OutsideType, TracerAssumption DEF Start, MutexInv, Storing
<1>7. ShutdownInv' BY OutsideType DEF Start, ShutdownInv, Quiet
<1>8. PointerInv' BY OutsideType, TracerAssumption DEF TracerInv, HostTypes, Start, PointerInv
<1> QED BY <1>1, <1>2, <1>3, <1>4, <1>5, <1>6, <1>7, <1>8, <1>9 DEF TracerInv

LEMMA KillStep == TracerInv /\ Kill => TracerInv'
<1> SUFFICES ASSUME TracerInv, Kill PROVE TracerInv' OBVIOUS
<1>1. HostTypes' BY DEF TracerInv, Kill, Exit, HostTypes, HostPlaces
<1>9. ResultType' BY Zenon DEF TracerInv, Kill, ResultType
<1>2. CallbackTypes' BY OutsideType DEF Kill, CallbackTypes
<1>3. VectorTypes' BY DEF TracerInv, Kill, VectorTypes
<1>4. WriterTypes' BY DEF TracerInv, Kill, WriterTypes, writer
<1>5. DiskTypes' BY DEF TracerInv, Kill, DiskTypes, disk
<1>6. MutexInv' BY OutsideType, TracerAssumption DEF Kill, MutexInv, Storing
<1>7. ShutdownInv' BY OutsideType DEF Kill, Exit, ShutdownInv, Quiet
<1>8. PointerInv' BY OutsideType DEF Kill, Exit, PointerInv
<1> QED BY <1>1, <1>2, <1>3, <1>4, <1>5, <1>6, <1>7, <1>8, <1>9 DEF TracerInv

-----------------------------------------------------------------------------
(* The steps of main.                                                      *)

LEMMA FinishWorkloadStep == TracerInv /\ FinishWorkload => TracerInv'
<1> SUFFICES ASSUME TracerInv, FinishWorkload PROVE TracerInv' OBVIOUS
<1>1. HostTypes' BY DEF TracerInv, FinishWorkload, process, HostTypes, HostPlaces
<1>2. ResultType' BY Zenon DEF FinishWorkload, ResultType
<1>3. CallbackTypes' /\ VectorTypes'
  BY DEF TracerInv, FinishWorkload, process, CallbackTypes, VectorTypes
<1>4. WriterTypes' /\ DiskTypes'
  BY DEF TracerInv, FinishWorkload, writer, disk, WriterTypes, DiskTypes
<1>5. MutexInv' BY DEF TracerInv, FinishWorkload, process, MutexInv, Storing
<1>6. ShutdownInv' /\ PointerInv'
  BY DEF TracerInv, FinishWorkload, process, writer, ShutdownInv, PointerInv, Quiet
<1> QED BY <1>1, <1>2, <1>3, <1>4, <1>5, <1>6 DEF TracerInv

LEMMA DisableTracerStep == TracerInv /\ DisableTracer => TracerInv'
<1> SUFFICES ASSUME TracerInv, DisableTracer PROVE TracerInv' OBVIOUS
<1>1. HostTypes' BY DEF TracerInv, DisableTracer, HostTypes
<1>2. ResultType' BY Zenon DEF TracerInv, DisableTracer, ResultType
<1>3. CallbackTypes' /\ VectorTypes' BY DEF TracerInv, DisableTracer, CallbackTypes, VectorTypes
<1>4. WriterTypes' /\ DiskTypes'
  BY DEF TracerInv, DisableTracer, writer, disk, WriterTypes, DiskTypes
<1>5. MutexInv' BY DEF TracerInv, DisableTracer, MutexInv, Storing
<1>6. ShutdownInv' /\ PointerInv'
  BY DEF TracerInv, DisableTracer, writer, ShutdownInv, PointerInv, Quiet
<1> QED BY <1>1, <1>2, <1>3, <1>4, <1>5, <1>6 DEF TracerInv

\* Where the tracer was, no callback is left: this is what the wait is for.
LEMMA DestroyTracerStep == TracerInv /\ DestroyTracer => TracerInv'
<1> SUFFICES ASSUME TracerInv, DestroyTracer PROVE TracerInv' OBVIOUS
<1> USE DEF DestroyTracer, ShutdownOr
<1>1. HostTypes' BY DEF TracerInv, Exit, HostTypes, HostPlaces
<1>2. ResultType' BY Zenon DEF TracerInv, ResultType
<1>3. CallbackTypes' /\ VectorTypes' BY DEF TracerInv, CallbackTypes, VectorTypes
<1>4. WriterTypes' /\ DiskTypes' BY DEF TracerInv, writer, disk, WriterTypes, DiskTypes
<1>5. MutexInv' BY DEF TracerInv, MutexInv, Storing
<1>6. Quiet BY DEF TracerInv, TracerGone, ShutdownInv
<1>7. ShutdownInv' BY <1>6 DEF ShutdownInv, Quiet
<1>8. PointerInv' BY DEF TracerInv, Exit, writer, PointerInv
<1> QED BY <1>1, <1>2, <1>3, <1>4, <1>5, <1>7, <1>8 DEF TracerInv

LEMMA OpenJsonStep == TracerInv /\ OpenJson => TracerInv'
<1> SUFFICES ASSUME TracerInv, OpenJson PROVE TracerInv' OBVIOUS
<1>1. HostTypes' BY DEF TracerInv, OpenJson, Exit, process, HostTypes, HostPlaces
<1>2. ResultType' BY Zenon DEF TracerInv, OpenJson, ResultType
<1>3. CallbackTypes' /\ VectorTypes'
  BY DEF TracerInv, OpenJson, process, CallbackTypes, VectorTypes
<1>4. WriterTypes' BY DEF TracerInv, OpenJson, writer, WriterTypes
<1>5. DiskTypes'
  <2>1. run \in 0 .. MaxRuns BY DEF TracerInv, HostTypes
  <2>2. [run |-> run, records |-> << >>, complete |-> FALSE] \in Manifest
    BY <2>1 DEF Manifest
  <2> QED BY <2>2 DEF TracerInv, OpenJson, DiskTypes
<1>6. MutexInv' BY DEF TracerInv, OpenJson, process, MutexInv, Storing
<1>7. ShutdownInv' BY DEF TracerInv, OpenJson, Exit, process, ShutdownInv, Quiet
<1>8. PointerInv' BY DEF TracerInv, OpenJson, Exit, process, writer, PointerInv
<1> QED BY <1>1, <1>2, <1>3, <1>4, <1>5, <1>6, <1>7, <1>8 DEF TracerInv

LEMMA CountRecordsStep == TracerInv /\ CountRecords => TracerInv'
<1> SUFFICES ASSUME TracerInv, CountRecords PROVE TracerInv' OBVIOUS
<1>1. HostTypes' BY DEF TracerInv, CountRecords, process, HostTypes, HostPlaces
<1>2. ResultType' BY Zenon DEF TracerInv, CountRecords, ResultType
<1>3. CallbackTypes' /\ VectorTypes'
  BY DEF TracerInv, CountRecords, process, CallbackTypes, VectorTypes
<1>4. WriterTypes' BY DEF TracerInv, CountRecords, WriterTypes, VectorTypes, PointerInv
<1>5. DiskTypes' BY DEF TracerInv, CountRecords, disk, DiskTypes
<1>6. MutexInv' BY DEF TracerInv, CountRecords, process, MutexInv, Storing
<1>7. ShutdownInv' BY DEF TracerInv, CountRecords, process, ShutdownInv, Quiet
<1>8. PointerInv' BY DEF TracerInv, CountRecords, process, PointerInv
<1> QED BY <1>1, <1>2, <1>3, <1>4, <1>5, <1>6, <1>7, <1>8 DEF TracerInv

LEMMA FetchRecordStep == TracerInv /\ FetchRecord => TracerInv'
<1> SUFFICES ASSUME TracerInv, FetchRecord PROVE TracerInv' OBVIOUS
<1> USE DEF FetchRecord, FetchUpTo
<1>1. HostTypes' BY DEF TracerInv, process, HostTypes, HostPlaces
<1>2. ResultType' BY Zenon DEF TracerInv, ResultType
<1>3. CallbackTypes' /\ VectorTypes' BY DEF TracerInv, process, CallbackTypes, VectorTypes
<1>4. WriterTypes' BY DEF TracerInv, process, WriterTypes, VectorTypes
<1>5. DiskTypes' BY DEF TracerInv, disk, DiskTypes
<1>6. MutexInv' BY DEF TracerInv, process, MutexInv, Storing
<1>7. ShutdownInv' BY DEF TracerInv, process, ShutdownInv, Quiet
<1>8. PointerInv' BY DEF TracerInv, process, PointerInv
<1> QED BY <1>1, <1>2, <1>3, <1>4, <1>5, <1>6, <1>7, <1>8 DEF TracerInv

LEMMA ReadRecordStep == TracerInv /\ ReadRecord => TracerInv'
<1> SUFFICES ASSUME TracerInv, ReadRecord PROVE TracerInv' OBVIOUS
<1>1. HostTypes' BY DEF TracerInv, ReadRecord, process, HostTypes, HostPlaces
<1>2. ResultType' BY Zenon DEF TracerInv, ReadRecord, ResultType
<1>3. CallbackTypes' /\ VectorTypes'
  BY DEF TracerInv, ReadRecord, process, CallbackTypes, VectorTypes
<1>4. WriterTypes'
  <2>1. records[index] \in Record
    BY DEF TracerInv, ReadRecord, WriterTypes, VectorTypes, PointerInv
  <2> QED BY <2>1 DEF TracerInv, ReadRecord, WriterTypes, PointerInv
<1>5. DiskTypes' BY DEF TracerInv, ReadRecord, disk, DiskTypes
<1>6. MutexInv' BY DEF TracerInv, ReadRecord, process, MutexInv, Storing
<1>7. ShutdownInv' BY DEF TracerInv, ReadRecord, process, ShutdownInv, Quiet
<1>8. PointerInv' BY DEF TracerInv, ReadRecord, process, PointerInv
<1> QED BY <1>1, <1>2, <1>3, <1>4, <1>5, <1>6, <1>7, <1>8 DEF TracerInv

LEMMA FinishJsonStep == TracerInv /\ FinishJson => TracerInv'
<1> SUFFICES ASSUME TracerInv, FinishJson PROVE TracerInv' OBVIOUS
<1> USE DEF FinishJson, FinishJsonAfter, Exit
<1>1. HostTypes' BY DEF TracerInv, process, HostTypes, HostPlaces
<1>2. ResultType' BY Zenon DEF TracerInv, ResultType
<1>3. CallbackTypes' /\ VectorTypes' BY DEF TracerInv, process, CallbackTypes, VectorTypes
<1>4. WriterTypes' BY DEF TracerInv, writer, WriterTypes
<1>5. DiskTypes'
  <2>1. run \in 0 .. MaxRuns BY DEF TracerInv, HostTypes
  <2>2. listed \in Seq(Record) BY DEF TracerInv, WriterTypes
  <2>3. [run |-> run, records |-> listed, complete |-> TRUE] \in Manifest
    BY <2>1, <2>2 DEF Manifest
  <2> QED BY <2>3 DEF TracerInv, DiskTypes
<1>6. MutexInv' BY DEF TracerInv, process, MutexInv, Storing
<1>7. ShutdownInv' BY DEF TracerInv, process, ShutdownInv, Quiet
<1>8. PointerInv' BY DEF TracerInv, process, writer, PointerInv
<1> QED BY <1>1, <1>2, <1>3, <1>4, <1>5, <1>6, <1>7, <1>8 DEF TracerInv

-----------------------------------------------------------------------------
(* The steps of a callback.  Only three things matter of each: that it     *)
(* runs under an enabled or a disabled tracer, where its thread goes, and  *)
(* who has the mutex afterwards.                                           *)

\* A thread inside a callback has a tracer around it, so main is not writing.
LEMMA CallbackHasTracer ==
  ASSUME TracerInv, NEW t \in Threads, thread[t].at # "out"
  PROVE  /\ tracer # "none" /\ run # 0
         /\ host \notin {"open_json", "count", "fetch", "read"}
  BY DEF TracerInv, ShutdownInv, PointerInv, Quiet

\* A step of a callback that touches neither mutex nor vector.
LEMMA MoveStep ==
  ASSUME TracerInv, NEW t \in Threads, thread[t].at \notin {"out", "store", "unlock"},
         NEW s \in CallbackState, s.at \notin {"store", "unlock"},
         thread' = [thread EXCEPT ![t] = s], DiskTypes',
         UNCHANGED <<run, host, valid, status, tracer, mutex, records, moved, creations, writer>>
  PROVE  TracerInv'
<1>1. tracer # "none" /\ run # 0 /\ host \notin {"open_json", "count", "fetch", "read"}
  BY CallbackHasTracer
<1>2. HostTypes' BY DEF TracerInv, HostTypes
<1>3. ResultType' BY Zenon DEF TracerInv, ResultType
<1>4. CallbackTypes' BY DEF TracerInv, CallbackTypes
<1>5. VectorTypes' /\ WriterTypes' BY DEF TracerInv, writer, VectorTypes, WriterTypes
<1>6. MutexInv' BY DEF TracerInv, MutexInv, Storing, CallbackTypes
<1>7. ShutdownInv' BY <1>1 DEF TracerInv, ShutdownInv
<1>8. PointerInv' BY <1>1 DEF TracerInv, writer, PointerInv
<1> QED BY <1>2, <1>3, <1>4, <1>5, <1>6, <1>7, <1>8 DEF TracerInv

LEMMA GoToState ==
  ASSUME TracerInv, NEW t \in Threads, NEW place \in Places
  PROVE  LET s == [thread[t] EXCEPT !.at = place]
         IN  /\ s \in CallbackState /\ s.at = place
             /\ [thread EXCEPT ![t].at = place] = [thread EXCEPT ![t] = s]
  BY DEF TracerInv, CallbackTypes, CallbackState

LEMMA QueryStep ==
  ASSUME TracerInv, NEW t \in Threads, GetNativeBinary(t) \/ GetDebugInfo(t)
  PROVE  TracerInv'
<1>1. PICK s \in CallbackState :
        s.at \notin {"store", "unlock"} /\ thread' = [thread EXCEPT ![t] = s]
  <2>1. CASE \E place \in Places \ {"store", "unlock"} : GoTo(t, place)
    BY <2>1, GoToState DEF GoTo
  <2>2. CASE Return(t) BY <2>2, OutsideType DEF Return
  <2> QED BY <2>1, <2>2 DEF GetNativeBinary, GetDebugInfo, Places
<1>2. /\ thread[t].at \notin {"out", "store", "unlock"}
      /\ UNCHANGED <<run, host, valid, status, tracer, mutex, records, moved, creations, writer>>
  BY DEF GetNativeBinary, GetDebugInfo
<1>3. DiskTypes' BY DEF TracerInv, GetNativeBinary, GetDebugInfo, disk, DiskTypes
<1> QED BY <1>1, <1>2, <1>3, MoveStep

LEMMA OpenFileStep ==
  ASSUME TracerInv, NEW t \in Threads, NEW kind \in Kinds, OpenFile(t, kind)
  PROVE  TracerInv'
<1> USE DEF OpenFile, OpenFileNaming
<1>1. thread[t].paths \in SUBSET Kinds /\ {kind} \in SUBSET Kinds /\ {} \in SUBSET Kinds
  BY DEF TracerInv, CallbackTypes, CallbackState
<1>2. Writing(kind) \in Places \ {"store", "unlock"} /\ AfterFile(kind) \in Places \ {"store", "unlock"}
  BY DEF Writing, AfterFile, Places
<1>3. PICK place \in Places \ {"store", "unlock"}, more \in SUBSET Kinds :
        thread' = [thread EXCEPT ![t].at = place, ![t].paths = @ \union more]
  <2>1. CASE thread' = [thread EXCEPT ![t].at = Writing(kind), ![t].paths = @ \union {kind}]
    BY <1>1, <1>2, <2>1
  <2>2. CASE thread' = [thread EXCEPT ![t].at = AfterFile(kind), ![t].paths = @ \union {}]
    BY <1>1, <1>2, <2>2
  <2> QED BY <2>1, <2>2
<1> DEFINE s == [thread[t] EXCEPT !.at = place, !.paths = @ \union more]
<1>4. s \in CallbackState /\ s.at = place /\ thread' = [thread EXCEPT ![t] = s]
  BY <1>1, <1>3, ZenonT(60) DEF TracerInv, CallbackTypes, CallbackState
<1>5. thread[t].at \notin {"out", "store", "unlock"} BY DEF Opening
<1>6. DiskTypes' BY DEF TracerInv, DiskTypes
<1> QED BY <1>3, <1>4, <1>5, <1>6, MoveStep

LEMMA WriteFileStep ==
  ASSUME TracerInv, NEW t \in Threads, NEW kind \in Kinds, WriteFile(t, kind)
  PROVE  TracerInv'
<1> USE DEF WriteFile
<1>1. thread[t].at \notin {"out", "store", "unlock"} /\ AfterFile(kind) \in Places \ {"store", "unlock"}
  BY DEF Writing, AfterFile, Places
<1>2. DiskTypes'
  <2>1. thread[t] \in CallbackState BY DEF TracerInv, CallbackTypes
  <2>2. FileOf(t, kind) \in Files BY <2>1 DEF FileOf, Files, CallbackState
  <2>3. run \in 1 .. MaxRuns
    BY <1>1, CallbackHasTracer, TracerAssumption DEF TracerInv, HostTypes
  <2>4. ImageOf(t) \in Image BY <2>1, <2>3 DEF ImageOf, Image, CallbackState
  <2>5. PICK kept \in {{}, files[FileOf(t, kind)]} :
          files' = [files EXCEPT ![FileOf(t, kind)] = kept \union {ImageOf(t)}]
    OBVIOUS
  <2>6. kept \union {ImageOf(t)} \in SUBSET Image BY <2>2, <2>4 DEF TracerInv, DiskTypes
  <2> QED BY <2>5, <2>6 DEF TracerInv, DiskTypes
<1> DEFINE s == [thread[t] EXCEPT !.at = AfterFile(kind)]
<1>3. s \in CallbackState /\ s.at = AfterFile(kind) /\ thread' = [thread EXCEPT ![t] = s]
  BY <1>1, GoToState DEF GoTo
<1> QED BY <1>1, <1>2, <1>3, MoveStep

LEMMA EnterCallbackStep ==
  ASSUME TracerInv, NEW t \in Threads, EnterCallback(t)
  PROVE  TracerInv'
<1>1. PICK n \in Names, m \in Modules :
        /\ thread' = [thread EXCEPT ![t] = [at |-> "native_binary", name |-> n,
                                            module |-> m, paths |-> {}]]
        /\ creations' = Append(creations, [name |-> n, module |-> m, run |-> run])
  BY DEF EnterCallback
<1>2. /\ host # "idle" /\ tracer = "enabled" /\ thread[t].at = "out"
      /\ UNCHANGED <<run, host, valid, status, tracer, mutex, records, moved, writer, disk>>
  BY DEF EnterCallback
<1> DEFINE s == [at |-> "native_binary", name |-> n, module |-> m, paths |-> {}]
<1>3. s \in CallbackState /\ s.at = "native_binary" BY DEF CallbackState, Places
<1>4. HostTypes' BY <1>2 DEF TracerInv, HostTypes
<1>5. ResultType' BY <1>2, Zenon DEF TracerInv, ResultType
<1>6. CallbackTypes' BY <1>1, <1>2, <1>3 DEF TracerInv, CallbackTypes
<1>7. VectorTypes'
  <2>1. run \in 1 .. MaxRuns BY <1>2, TracerAssumption DEF TracerInv, HostTypes, PointerInv
  <2>2. [name |-> n, module |-> m, run |-> run] \in Creation BY <2>1 DEF Creation
  <2> QED BY <1>1, <1>2, <2>2 DEF TracerInv, VectorTypes
<1>8. WriterTypes' /\ DiskTypes' BY <1>2 DEF TracerInv, writer, disk, WriterTypes, DiskTypes
<1>9. MutexInv' BY <1>1, <1>2, <1>3 DEF TracerInv, MutexInv, Storing, CallbackTypes
<1>10. ShutdownInv' BY <1>2 DEF TracerInv, ShutdownInv
<1>11. PointerInv' BY <1>2 DEF TracerInv, ShutdownInv, PointerInv, writer
<1> QED BY <1>4, <1>5, <1>6, <1>7, <1>8, <1>9, <1>10, <1>11 DEF TracerInv

LEMMA LockStep ==
  ASSUME TracerInv, NEW t \in Threads, Lock(t)
  PROVE  TracerInv'
<1> USE DEF Lock
<1>1. tracer # "none" /\ run # 0 /\ host \notin {"open_json", "count", "fetch", "read"}
  BY CallbackHasTracer
<1> DEFINE s == [thread[t] EXCEPT !.at = "store"]
<1>2. s \in CallbackState /\ s.at = "store" /\ thread' = [thread EXCEPT ![t] = s]
  BY GoToState DEF GoTo, Places
<1>3. HostTypes' BY DEF TracerInv, HostTypes
<1>4. ResultType' BY Zenon DEF TracerInv, ResultType
<1>5. CallbackTypes' BY <1>2 DEF TracerInv, CallbackTypes
<1>6. VectorTypes' /\ WriterTypes' /\ DiskTypes'
  BY DEF TracerInv, VectorTypes, writer, WriterTypes, disk, DiskTypes
<1>7. MutexInv' BY <1>2, TracerAssumption DEF TracerInv, MutexInv, Storing, CallbackTypes
<1>8. ShutdownInv' /\ PointerInv' BY <1>1 DEF TracerInv, writer, ShutdownInv, PointerInv
<1> QED BY <1>3, <1>4, <1>5, <1>6, <1>7, <1>8 DEF TracerInv

LEMMA StoreStep ==
  ASSUME TracerInv, NEW t \in Threads, Store(t)
  PROVE  TracerInv'
<1> USE DEF Store
<1>1. tracer # "none" /\ run # 0 /\ host \notin {"open_json", "count", "fetch", "read"}
  BY CallbackHasTracer
<1> DEFINE s == [thread[t] EXCEPT !.at = "unlock"]
<1>2. s \in CallbackState /\ s.at = "unlock" /\ thread' = [thread EXCEPT ![t] = s]
  BY GoToState DEF GoTo, Places
<1>3. HostTypes' BY DEF TracerInv, HostTypes
<1>4. ResultType' BY Zenon DEF TracerInv, ResultType
<1>5. CallbackTypes' BY <1>2 DEF TracerInv, CallbackTypes
<1>6. VectorTypes'
  <2>1. RecordOf(t) \in Record
    BY DEF TracerInv, CallbackTypes, CallbackState, RecordOf, Record
  <2> QED BY <2>1 DEF TracerInv, VectorTypes
<1>7. WriterTypes' /\ DiskTypes' BY DEF TracerInv, writer, WriterTypes, disk, DiskTypes
<1>8. MutexInv' BY <1>2 DEF TracerInv, MutexInv, Storing, CallbackTypes
<1>9. ShutdownInv' /\ PointerInv' BY <1>1 DEF TracerInv, writer, ShutdownInv, PointerInv
<1> QED BY <1>3, <1>4, <1>5, <1>6, <1>7, <1>8, <1>9 DEF TracerInv

LEMMA UnlockStep ==
  ASSUME TracerInv, NEW t \in Threads, Unlock(t)
  PROVE  TracerInv'
<1> USE DEF Unlock
<1>1. tracer # "none" /\ run # 0 /\ host \notin {"open_json", "count", "fetch", "read"}
  BY CallbackHasTracer
<1>2. Outside \in CallbackState /\ Outside.at = "out" /\ thread' = [thread EXCEPT ![t] = Outside]
  BY OutsideType DEF Return
<1>3. HostTypes' BY DEF TracerInv, HostTypes
<1>4. ResultType' BY Zenon DEF TracerInv, ResultType
<1>5. CallbackTypes' BY <1>2 DEF TracerInv, CallbackTypes
<1>6. VectorTypes' /\ WriterTypes' /\ DiskTypes'
  BY DEF TracerInv, VectorTypes, writer, WriterTypes, disk, DiskTypes
<1>7. MutexInv' BY <1>2, TracerAssumption DEF TracerInv, MutexInv, Storing, CallbackTypes
<1>8. ShutdownInv' /\ PointerInv' BY <1>1 DEF TracerInv, writer, ShutdownInv, PointerInv
<1> QED BY <1>3, <1>4, <1>5, <1>6, <1>7, <1>8 DEF TracerInv

-----------------------------------------------------------------------------
(* The theorems.                                                           *)

LEMMA NextStep == TracerInv /\ [Next]_vars => TracerInv'
<1> SUFFICES ASSUME TracerInv, [Next]_vars PROVE TracerInv' OBVIOUS
<1>1. CASE Start BY <1>1, StartStep
<1>2. CASE Kill BY <1>2, KillStep
<1>3. CASE Host
  BY <1>3, FinishWorkloadStep, DisableTracerStep, DestroyTracerStep, OpenJsonStep,
     CountRecordsStep, FetchRecordStep, ReadRecordStep, FinishJsonStep DEF Host
<1>4. ASSUME NEW t \in Threads, EnterCallback(t) \/ Callback(t) PROVE TracerInv'
  BY <1>4, EnterCallbackStep, QueryStep, OpenFileStep, WriteFileStep, LockStep, StoreStep,
     UnlockStep DEF Callback
<1>5. CASE UNCHANGED vars
  <2>1. HostTypes' BY <1>5 DEF TracerInv, vars, process, HostTypes
  <2>2. ResultType' BY <1>5, Zenon DEF TracerInv, vars, ResultType
  <2>3. CallbackTypes' /\ VectorTypes' BY <1>5 DEF TracerInv, vars, process, CallbackTypes, VectorTypes
  <2>4. WriterTypes' /\ DiskTypes'
    BY <1>5 DEF TracerInv, vars, writer, disk, WriterTypes, DiskTypes
  <2>5. MutexInv' BY <1>5 DEF TracerInv, vars, process, MutexInv, Storing
  <2>6. ShutdownInv' /\ PointerInv'
    BY <1>5 DEF TracerInv, vars, process, writer, ShutdownInv, PointerInv, Quiet
  <2> QED BY <2>1, <2>2, <2>3, <2>4, <2>5, <2>6 DEF TracerInv
<1> QED BY <1>1, <1>2, <1>3, <1>4, <1>5 DEF Next

LEMMA Invariance == Spec => []TracerInv
  BY InitInv, NextStep, PTL DEF Spec

\* Type correctness of the tracer and the writer, however many threads, names,
\* modules and runs there are; the loop over the records stays in its bounds.
THEOREM TypeCorrect == Spec => []TypeOK
<1>1. TracerInv => TypeOK
  BY DEF TracerInv, HostTypes, ResultType, CallbackTypes, VectorTypes, WriterTypes, DiskTypes,
         TypeOK
<1> QED BY <1>1, Invariance, PTL

\* No two threads are ever inside gKernelDebugData, main's unlocked use of a
\* record included.
THEOREM RaceFree == Spec => []NoDataRace
<1>1. TracerInv => NoDataRace
  BY DEF TracerInv, MutexInv, ShutdownInv, NoDataRace, Storing, Quiet
<1> QED BY <1>1, Invariance, PTL

\* The pointer main reads a record through still points to it.
THEOREM PointerStaysCurrent == Spec => []PointerIsCurrent
<1>1. TracerInv => PointerIsCurrent BY DEF TracerInv, PointerInv, PointerIsCurrent
<1> QED BY <1>1, Invariance, PTL

-----------------------------------------------------------------------------
(* The manifest is the abstract one: KernelTracer implements KernelCapture. *)

\* While main writes, nothing is recorded: the count is that of the records,
\* and the text has the first ones of them.  No tracer outlives its process.
SnapshotInv ==
  /\ host = "idle" => tracer = "none"
  /\ host \in {"workload", "shutdown", "open_json", "count"} => listed = << >>
  /\ host \in {"fetch", "read"} =>
       /\ count = Len(records) /\ index = Len(listed) + 1
       /\ \A k \in 1 .. Len(listed) : listed[k] = records[k]

\* A step of a callback leaves main alone, and main is not writing.
LEMMA CallbackSnapshot ==
  ASSUME TracerInv, SnapshotInv, NEW t \in Threads, EnterCallback(t) \/ Callback(t)
  PROVE  SnapshotInv'
<1>1. UNCHANGED <<host, tracer, listed>>
  BY DEF EnterCallback, Callback, GetNativeBinary, GetDebugInfo, OpenFile, OpenFileNaming,
         WriteFile, Lock, Store, Unlock, writer
<1>2. host \notin {"fetch", "read"}
  <2>1. CASE EnterCallback(t) BY <2>1 DEF EnterCallback, TracerInv, ShutdownInv
  <2>2. CASE Callback(t)
    <3>1. thread[t].at # "out"
      BY <2>2 DEF Callback, GetNativeBinary, GetDebugInfo, OpenFile, OpenFileNaming, WriteFile,
                  Opening, Writing, Lock, Store, Unlock
    <3> QED BY <3>1, CallbackHasTracer
  <2> QED BY <2>1, <2>2
<1> QED BY <1>1, <1>2 DEF SnapshotInv

LEMMA HostSnapshot ==
  ASSUME TracerInv, SnapshotInv, Host
  PROVE  SnapshotInv'
<1>1. CASE FinishWorkload BY <1>1 DEF FinishWorkload, process, writer, SnapshotInv
<1>2. CASE DisableTracer BY <1>2 DEF DisableTracer, writer, SnapshotInv
<1>3. CASE DestroyTracer BY <1>3 DEF DestroyTracer, ShutdownOr, Exit, writer, SnapshotInv
<1>4. CASE OpenJson
  BY <1>4 DEF OpenJson, Exit, process, writer, SnapshotInv, TracerInv, ShutdownInv
<1>5. CASE CountRecords
  BY <1>5, Len(<< >>) = 0 DEF CountRecords, process, SnapshotInv, TracerInv, PointerInv
<1>6. CASE FetchRecord
  BY <1>6 DEF FetchRecord, FetchUpTo, process, SnapshotInv, TracerInv, WriterTypes
<1>7. CASE ReadRecord
  <2> USE <1>7 DEF ReadRecord
  <2>1. index = Len(listed) + 1 /\ count = Len(records) BY DEF SnapshotInv
  <2>2. listed \in Seq(Record) /\ records[index] \in Record
    BY DEF TracerInv, WriterTypes, VectorTypes, PointerInv
  <2>3. /\ Len(listed') = Len(listed) + 1 /\ listed'[Len(listed) + 1] = records[index]
        /\ \A k \in 1 .. Len(listed) : listed'[k] = listed[k]
    BY <2>2
  <2>4. \A k \in 1 .. Len(listed') : listed'[k] = records'[k]
    BY <2>1, <2>2, <2>3 DEF SnapshotInv, process
  <2> QED BY <2>1, <2>2, <2>3, <2>4 DEF SnapshotInv, process
<1>8. CASE FinishJson
  BY <1>8 DEF FinishJson, FinishJsonAfter, Exit, process, SnapshotInv, TracerInv, ShutdownInv
<1> QED BY <1>1, <1>2, <1>3, <1>4, <1>5, <1>6, <1>7, <1>8 DEF Host

LEMMA SnapshotInvariance == Spec => []SnapshotInv
<1>1. Init => SnapshotInv BY DEF Init, SnapshotInv
<1>2. TracerInv /\ SnapshotInv /\ [Next]_vars => SnapshotInv'
  <2> SUFFICES ASSUME TracerInv, SnapshotInv, [Next]_vars PROVE SnapshotInv' OBVIOUS
  <2>1. CASE Start BY <2>1 DEF Start, SnapshotInv
  <2>2. CASE Kill BY <2>2 DEF Kill, Exit, SnapshotInv
  <2>3. CASE Host BY <2>3, HostSnapshot
  <2>4. CASE \E t \in Threads : EnterCallback(t) \/ Callback(t) BY <2>4, CallbackSnapshot
  <2>5. CASE UNCHANGED vars BY <2>5 DEF vars, process, writer, SnapshotInv
  <2> QED BY <2>1, <2>2, <2>3, <2>4, <2>5 DEF Next
<1> QED BY <1>1, <1>2, Invariance, PTL DEF Spec

\* The variables of KernelCapture, as KernelTracer has them.
AbstractManifest == IF json.complete THEN <<json.records>> ELSE << >>
abstractVars == <<tracer # "none", records, AbstractManifest>>

\* Steps that KernelCapture does not see.
LEMMA CallbackMaps ==
  ASSUME TracerInv, NEW t \in Threads, EnterCallback(t) \/ Callback(t)
  PROVE  [Capture!Next]_abstractVars
<1>1. CASE Store(t)
  <2>1. tracer # "none" /\ UNCHANGED <<tracer, json>>
    BY <1>1, CallbackHasTracer DEF Store, disk
  <2>2. RecordOf(t) \in Record /\ records' = Append(records, RecordOf(t))
    BY <1>1 DEF Store, TracerInv, CallbackTypes, CallbackState, RecordOf, Record
  <2> QED BY <2>1, <2>2 DEF Capture!Next, Capture!Capture
<1>2. CASE ~ Store(t)
  <2>1. UNCHANGED <<tracer, records, json>>
    BY <1>2 DEF EnterCallback, Callback, GetNativeBinary, GetDebugInfo, OpenFile,
                OpenFileNaming, WriteFile, Lock, Unlock, disk
  <2> QED BY <2>1 DEF abstractVars, AbstractManifest
<1> QED BY <1>1, <1>2

\* The step that writes the manifest publishes exactly what was captured.
LEMMA FinishPublishes ==
  ASSUME TracerInv, SnapshotInv, FinishJson
  PROVE  Capture!Publish
<1> USE DEF FinishJson, FinishJsonAfter
<1>1. host = "fetch" /\ tracer = "none" BY DEF TracerInv, ShutdownInv
<1>2. listed \in Seq(Record) /\ records \in Seq(Record) BY DEF TracerInv, WriterTypes, VectorTypes
<1>3. index \in 1 .. count + 1 /\ index > count /\ count \in Nat
  BY DEF TracerInv, WriterTypes
<1>4. Len(listed) = Len(records) /\ \A k \in 1 .. Len(listed) : listed[k] = records[k]
  BY <1>1, <1>2, <1>3 DEF SnapshotInv
<1>5. listed = records BY <1>2, <1>4, SeqEqual
<1>6. json'.complete /\ json'.records = records BY <1>5
<1> QED BY <1>1, <1>6 DEF Capture!Publish, process

LEMMA HostMaps ==
  ASSUME TracerInv, SnapshotInv, Host
  PROVE  [Capture!Next]_abstractVars
<1> USE DEF abstractVars, AbstractManifest
<1>1. CASE FinishWorkload BY <1>1 DEF FinishWorkload, process, disk
<1>2. CASE DisableTracer BY <1>2 DEF DisableTracer, disk
<1>3. CASE DestroyTracer
  <2>1. tracer' = "none" /\ UNCHANGED <<records, json>> BY <1>3 DEF DestroyTracer, ShutdownOr, disk
  <2> QED BY <2>1 DEF Capture!Next, Capture!End
<1>4. CASE OpenJson
  <2>1. tracer = "none" /\ UNCHANGED <<tracer, records>>
    BY <1>4 DEF OpenJson, process, TracerInv, ShutdownInv
  <2>2. UNCHANGED json \/ ~ json'.complete BY <1>4 DEF OpenJson
  <2> QED BY <2>1, <2>2 DEF Capture!Next, Capture!Discard
<1>5. CASE CountRecords BY <1>5 DEF CountRecords, process, disk
<1>6. CASE FetchRecord BY <1>6 DEF FetchRecord, FetchUpTo, process, disk
<1>7. CASE ReadRecord BY <1>7 DEF ReadRecord, process, disk
<1>8. CASE FinishJson BY <1>8, FinishPublishes DEF Capture!Next
<1> QED BY <1>1, <1>2, <1>3, <1>4, <1>5, <1>6, <1>7, <1>8 DEF Host

\* Whatever threads, names, modules and runs there are, kernel_debug.json is
\* the list of all kernels captured, taken when no more can be captured.
THEOREM TracerPublishesCaptured == Spec => PublishesCaptured
<1>1. Init => Capture!Init BY DEF Init, Capture!Init
<1>2. TracerInv /\ SnapshotInv /\ [Next]_vars => [Capture!Next]_abstractVars
  <2> SUFFICES ASSUME TracerInv, SnapshotInv, [Next]_vars PROVE [Capture!Next]_abstractVars
    OBVIOUS
  <2>1. CASE Start
    <3>1. tracer = "none" BY <2>1 DEF Start, SnapshotInv
    <3>2. records' = << >> /\ UNCHANGED json BY <2>1 DEF Start, disk
    <3> QED BY <3>1, <3>2 DEF Capture!Next, Capture!Begin
  <2>2. CASE Kill
    <3>1. tracer' = "none" /\ UNCHANGED <<records, json>> BY <2>2 DEF Kill, disk
    <3> QED BY <3>1 DEF Capture!Next, Capture!End, abstractVars, AbstractManifest
  <2>3. CASE Host BY <2>3, HostMaps
  <2>4. CASE \E t \in Threads : EnterCallback(t) \/ Callback(t) BY <2>4, CallbackMaps
  <2>5. CASE UNCHANGED vars
    BY <2>5 DEF vars, process, disk, abstractVars, AbstractManifest
  <2> QED BY <2>1, <2>2, <2>3, <2>4, <2>5 DEF Next
<1> QED
  BY <1>1, <1>2, Invariance, SnapshotInvariance, PTL
  DEF Spec, PublishesCaptured, Capture!Spec, abstractVars, AbstractManifest

-----------------------------------------------------------------------------
(* The artifacts: what the files named by records hold.                    *)

\* A file somebody names in this run has this run's images only, each from a
\* module with a kernel of its name, and none only while a thread that has
\* truncated it is about to write.
FileSound(n, kind) ==
  /\ \A i \in files[<<n, kind>>] : i.run = run /\ i.module \in CreatedAs(n)
  /\ files[<<n, kind>>] = {} => \E t \in Threads : thread[t].at = Writing(kind) /\ thread[t].name = n

TracedAs(n, m, paths) == m \in CreatedAs(n) /\ \A kind \in paths : FileSound(n, kind)

\* Of a record, or of a callback that is putting one together.
Traced(entry) == TracedAs(entry.name, entry.module, entry.paths)

ArtifactInv ==
  /\ host # "idle" =>
       /\ \A t \in Threads : thread[t].at # "out" => Traced(thread[t])
       /\ \A k \in DOMAIN records : Traced(records[k])
  /\ \A t \in Threads, kind \in Kinds : thread[t].at = Writing(kind) => kind \in thread[t].paths
  /\ ManifestNamesOwnImages

\* Creations are only added, and only to the run they happen in.
LEMMA CreatedGrows ==
  ASSUME TracerInv, NEW n \in Names, run' = run,
         creations' = creations \/ \E c \in Creation : creations' = Append(creations, c)
  PROVE  CreatedAs(n) \subseteq CreatedAs(n)'
<1>1. creations \in Seq(Creation) BY DEF TracerInv, VectorTypes
<1>2. ASSUME NEW k \in DOMAIN creations
      PROVE  k \in DOMAIN creations' /\ creations'[k] = creations[k]
  BY <1>1
<1> QED BY <1>2 DEF CreatedAs

\* Who leaves the files alone and was not writing one keeps every file sound.
LEMMA SoundKept ==
  ASSUME TracerInv, NEW n \in Names, NEW kind \in Kinds, FileSound(n, kind),
         run' = run, CreatedAs(n) \subseteq CreatedAs(n)', files' = files,
         NEW t \in Threads, thread[t].at # Writing(kind),
         \A s \in Threads \ {t} : thread'[s] = thread[s]
  PROVE  FileSound(n, kind)'
  BY DEF FileSound

LEMMA SoundOpened ==
  ASSUME TracerInv, NEW t \in Threads, NEW kind \in Kinds, OpenFile(t, kind),
         NEW n \in Names, NEW k \in Kinds, FileSound(n, k) \/ (n = thread[t].name /\ k \in thread'[t].paths \ thread[t].paths)
  PROVE  FileSound(n, k)'
<1>1. CreatedAs(n)' = CreatedAs(n) /\ run' = run BY DEF OpenFile, OpenFileNaming, CreatedAs
<1>2. /\ thread[t] \in CallbackState /\ thread \in [Threads -> CallbackState]
      /\ files \in [Files -> SUBSET Image] /\ <<n, k>> \in Files /\ FileOf(t, kind) \in Files
  BY DEF TracerInv, CallbackTypes, DiskTypes, CallbackState, Files, FileOf
<1>3. CASE /\ thread' = [thread EXCEPT ![t].at = Writing(kind), ![t].paths = @ \union {kind}]
           /\ files' = [files EXCEPT ![FileOf(t, kind)] = {}]
  <2>1. thread'[t].at = Writing(kind) /\ thread'[t].name = thread[t].name
        /\ thread'[t].paths = thread[t].paths \union {kind}
        /\ \A s \in Threads \ {t} : thread'[s] = thread[s]
    BY <1>2, <1>3 DEF CallbackState
  <2>2. CASE n = thread[t].name /\ k = kind
    <3>1. files'[<<n, k>>] = {} BY <1>2, <1>3, <2>2 DEF FileOf
    <3> QED BY <3>1, <2>1, <2>2 DEF FileSound
  <2>3. CASE ~ (n = thread[t].name /\ k = kind)
    <3>1. <<n, k>> # FileOf(t, kind) BY <2>3 DEF FileOf
    <3>2. files'[<<n, k>>] = files[<<n, k>>] BY <1>2, <1>3, <3>1
    <3>3. FileSound(n, k) BY <2>1, <2>3
    <3>4. thread[t].at # Writing(k) BY DEF OpenFile, OpenFileNaming, Opening, Writing
    <3> QED BY <1>1, <2>1, <3>2, <3>3, <3>4 DEF FileSound
  <2> QED BY <2>2, <2>3
<1>4. CASE /\ thread' = [thread EXCEPT ![t].at = AfterFile(kind), ![t].paths = @ \union {}]
           /\ UNCHANGED files
  <2>1. thread'[t].paths = thread[t].paths /\ \A s \in Threads \ {t} : thread'[s] = thread[s]
    BY <1>2, <1>4 DEF CallbackState
  <2>2. FileSound(n, k) BY <2>1
  <2>3. thread[t].at # Writing(k) BY DEF OpenFile, OpenFileNaming, Opening, Writing
  <2> QED BY <1>1, <1>4, <2>1, <2>2, <2>3, SoundKept
<1> QED BY <1>3, <1>4 DEF OpenFile, OpenFileNaming

\* The writer fills the file it truncated, and with an image of its own run.
LEMMA SoundWritten ==
  ASSUME TracerInv, NEW t \in Threads, Traced(thread[t]), NEW kind \in Kinds, WriteFile(t, kind),
         NEW n \in Names, NEW k \in Kinds, FileSound(n, k)
  PROVE  FileSound(n, k)'
<1>1. CreatedAs(n)' = CreatedAs(n) /\ run' = run BY DEF WriteFile, CreatedAs
<1>2. /\ thread[t] \in CallbackState /\ thread \in [Threads -> CallbackState]
      /\ files \in [Files -> SUBSET Image] /\ <<n, k>> \in Files /\ FileOf(t, kind) \in Files
  BY DEF TracerInv, CallbackTypes, DiskTypes, CallbackState, Files, FileOf
<1>3. \A s \in Threads \ {t} : thread'[s] = thread[s] BY <1>2 DEF WriteFile, GoTo
<1>4. PICK kept \in {{}, files[FileOf(t, kind)]} :
        files' = [files EXCEPT ![FileOf(t, kind)] = kept \union {ImageOf(t)}]
  BY DEF WriteFile
<1>5. CASE n = thread[t].name /\ k = kind
  <2>1. files'[<<n, k>>] = kept \union {ImageOf(t)} /\ kept \subseteq files[<<n, k>>]
    BY <1>2, <1>4, <1>5 DEF FileOf
  <2>2. ImageOf(t).run = run /\ ImageOf(t).module \in CreatedAs(n)
    BY <1>5 DEF ImageOf, Traced, TracedAs
  <2>3. files'[<<n, k>>] # {} BY <2>1
  <2>4. \A i \in files'[<<n, k>>] : i.run = run' /\ i.module \in CreatedAs(n)'
    BY <1>1, <2>1, <2>2 DEF FileSound
  <2> QED BY <2>3, <2>4 DEF FileSound
<1>6. CASE ~ (n = thread[t].name /\ k = kind)
  <2>1. files'[<<n, k>>] = files[<<n, k>>] BY <1>2, <1>4, <1>6 DEF FileOf
  <2>2. ~ (thread[t].at = Writing(k) /\ thread[t].name = n)
    BY <1>6 DEF WriteFile, Writing, Kinds
  <2> QED BY <1>1, <1>3, <2>1, <2>2 DEF FileSound
<1> QED BY <1>5, <1>6

\* What a step of a callback owes to the invariant: what was sound stays so, and
\* the paths it sets are of sound files.
LEMMA CallbackSound ==
  ASSUME TracerInv, ArtifactInv, NEW t \in Threads, Callback(t)
  PROVE  /\ host # "idle" => Traced(thread[t])
         /\ \A n \in Names : CreatedAs(n)' = CreatedAs(n)
         /\ \A n \in Names, k \in Kinds :
              /\ host # "idle" /\ FileSound(n, k) => FileSound(n, k)'
              /\ n = thread[t].name /\ k \in thread'[t].paths \ thread[t].paths => FileSound(n, k)'
<1>1. thread[t].at # "out"
  BY DEF Callback, GetNativeBinary, GetDebugInfo, OpenFile, OpenFileNaming, WriteFile, Opening,
         Writing, Lock, Store, Unlock
<1>2. host # "idle" => Traced(thread[t]) BY <1>1 DEF ArtifactInv
<1>3. UNCHANGED <<run, creations>>
  BY DEF Callback, GetNativeBinary, GetDebugInfo, OpenFile, OpenFileNaming, WriteFile, Lock,
         Store, Unlock
<1>4. \A n \in Names : CreatedAs(n)' = CreatedAs(n) BY <1>3 DEF CreatedAs
<1>5. SUFFICES ASSUME NEW n \in Names, NEW k \in Kinds
      PROVE  /\ host # "idle" /\ FileSound(n, k) => FileSound(n, k)'
             /\ n = thread[t].name /\ k \in thread'[t].paths \ thread[t].paths => FileSound(n, k)'
  BY <1>2, <1>4
<1>6. thread \in [Threads -> CallbackState] /\ thread[t].paths \in SUBSET Kinds
  BY DEF TracerInv, CallbackTypes, CallbackState
<1>7. CASE \E kind \in Kinds : OpenFile(t, kind) BY <1>7, SoundOpened
<1>8. CASE \E kind \in Kinds : WriteFile(t, kind)
  <2>1. thread'[t].paths = thread[t].paths
    BY <1>6, <1>8 DEF WriteFile, GoTo, CallbackState
  <2> QED BY <1>2, <1>8, <2>1, SoundWritten
<1>9. CASE GetNativeBinary(t) \/ GetDebugInfo(t) \/ Lock(t) \/ Store(t) \/ Unlock(t)
  <2>1. files' = files /\ thread[t].at # Writing(k)
    BY <1>9 DEF GetNativeBinary, GetDebugInfo, Lock, Store, Unlock, disk, Writing
  <2>2. /\ \A s \in Threads \ {t} : thread'[s] = thread[s]
        /\ thread'[t].paths \subseteq thread[t].paths
    BY <1>6, <1>9 DEF GetNativeBinary, GetDebugInfo, Lock, Store, Unlock, GoTo, Return, Outside,
                      CallbackState
  <2> QED BY <1>3, <1>4, <2>1, <2>2, SoundKept
<1> QED BY <1>7, <1>8, <1>9 DEF Callback

LEMMA CallbackArtifacts ==
  ASSUME TracerInv, SnapshotInv, ArtifactInv, NEW t \in Threads, Callback(t)
  PROVE  ArtifactInv'
<1>1. thread[t].at # "out" /\ host' = host
  BY DEF Callback, GetNativeBinary, GetDebugInfo, OpenFile, OpenFileNaming, WriteFile, Opening,
         Writing, Lock, Store, Unlock
<1>2. host # "idle" BY <1>1 DEF TracerInv, ShutdownInv, SnapshotInv, Quiet
<1>3. Traced(thread[t]) BY <1>2, CallbackSound
<1>4. thread \in [Threads -> CallbackState] /\ thread[t] \in CallbackState
  BY DEF TracerInv, CallbackTypes
<1>5. records \in Seq(Record) BY DEF TracerInv, VectorTypes
<1>6. ASSUME NEW n \in Names, NEW m, NEW p \in SUBSET Kinds, TracedAs(n, m, p)
      PROVE  TracedAs(n, m, p)'
  <2>1. m \in CreatedAs(n)' BY <1>6, CallbackSound DEF TracedAs
  <2>2. ASSUME NEW kind \in p PROVE FileSound(n, kind)'
    BY <1>2, <1>6, CallbackSound DEF TracedAs
  <2> QED BY <2>1, <2>2 DEF TracedAs
<1>7. /\ \A s \in Threads \ {t} : thread'[s] = thread[s]
      /\ \/ thread'[t] = Outside
         \/ thread'[t].name = thread[t].name /\ thread'[t].module = thread[t].module
  <2>1. CASE Return(t) BY <1>4, <2>1 DEF Return
  <2>2. CASE \E place \in Places : GoTo(t, place) BY <1>4, <2>2 DEF GoTo, CallbackState
  <2>3. CASE \E kind \in Kinds : OpenFile(t, kind)
    BY <1>4, <2>3 DEF OpenFile, OpenFileNaming, CallbackState
  <2> QED
    BY <2>1, <2>2, <2>3 DEF Callback, GetNativeBinary, GetDebugInfo, WriteFile, AfterFile, Lock,
                            Store, Unlock, Places
<1>9. \A s \in Threads : thread'[s].at # "out" => Traced(thread[s])'
  <2>1. ASSUME NEW s \in Threads \ {t}, thread'[s].at # "out" PROVE Traced(thread[s])'
    <3>1. thread'[s] = thread[s] /\ thread[s].at # "out" BY <1>7, <2>1
    <3>2. Traced(thread[s]) BY <1>2, <3>1 DEF ArtifactInv
    <3>3. thread[s].name \in Names /\ thread[s].paths \in SUBSET Kinds BY <1>4 DEF CallbackState
    <3>4. TracedAs(thread[s].name, thread[s].module, thread[s].paths)
      BY <3>2 DEF Traced
    <3>5. ASSUME NEW e, e = thread[s] PROVE TracedAs(e.name, e.module, e.paths)'
      BY <1>6, <3>3, <3>4, <3>5
    <3> QED BY <3>1, <3>5 DEF Traced
  <2>2. ASSUME thread'[t].at # "out" PROVE Traced(thread[t])'
    <3>1. thread'[t].name = thread[t].name /\ thread'[t].module = thread[t].module
      BY <1>7, <2>2, OutsideType
    <3>2. PICK n \in Names, m \in Modules : n = thread[t].name /\ m = thread[t].module
      BY <1>4 DEF CallbackState
    <3>3. m \in CreatedAs(n)' BY <1>3, <3>2, CallbackSound DEF Traced, TracedAs
    <3>4. TracerInv' BY NextStep DEF Next
    <3>5. thread'[t].paths \subseteq Kinds BY <3>4 DEF TracerInv, CallbackTypes, CallbackState
    <3>6. ASSUME NEW kind \in thread'[t].paths PROVE FileSound(n, kind)'
      BY <1>2, <1>3, <3>2, <3>5, <3>6, CallbackSound DEF Traced, TracedAs
    <3> QED BY <3>1, <3>2, <3>3, <3>6 DEF Traced, TracedAs
  <2> QED BY <2>1, <2>2
<1>10. \A k \in DOMAIN records' : Traced(records[k])'
  <2>1. ASSUME NEW k \in DOMAIN records, records'[k] = records[k] PROVE Traced(records[k])'
    <3>1. records[k].name \in Names /\ records[k].paths \in SUBSET Kinds
      <4>1. records[k] \in Record BY <1>5
      <4> QED BY <4>1 DEF Record
    <3>2. TracedAs(records[k].name, records[k].module, records[k].paths)
      BY <1>2 DEF ArtifactInv, Traced
    <3>3. ASSUME NEW e, e = records[k] PROVE TracedAs(e.name, e.module, e.paths)'
      BY <1>6, <3>1, <3>2, <3>3
    <3> QED BY <2>1, <3>3 DEF Traced
  <2>2. CASE records' = records BY <2>1, <2>2
  <2>3. CASE Store(t)
    <3>1. PICK r \in Record : r = RecordOf(t) /\ records' = Append(records, r)
      BY <1>4, <2>3 DEF Store, RecordOf, Record, CallbackState
    <3>2. TracedAs(r.name, r.module, r.paths)' BY <1>3, <1>6, <3>1 DEF Traced, RecordOf, Record
    <3>3. /\ DOMAIN records' = DOMAIN records \union {Len(records) + 1}
          /\ records'[Len(records) + 1] = r
          /\ \A k \in DOMAIN records : records'[k] = records[k]
      BY <1>5, <3>1
    <3>4. ASSUME NEW k, k = Len(records) + 1 PROVE Traced(records[k])'
      BY <3>2, <3>3, <3>4 DEF Traced
    <3> QED BY <2>1, <3>3, <3>4
  <2> QED
    BY <2>2, <2>3 DEF Callback, GetNativeBinary, GetDebugInfo, OpenFile, OpenFileNaming, WriteFile,
                      Lock, Unlock
<1>11. \A s \in Threads, kind \in Kinds : thread'[s].at = Writing(kind) => kind \in thread'[s].paths
  <2>1. ASSUME NEW s \in Threads \ {t}, NEW kind \in Kinds, thread'[s].at = Writing(kind)
        PROVE  kind \in thread'[s].paths
    BY <1>7, <2>1 DEF ArtifactInv
  <2>2. ASSUME NEW kind \in Kinds, thread'[t].at = Writing(kind)
        PROVE  kind \in thread'[t].paths
    <3>1. CASE \E k \in Kinds : OpenFile(t, k)
      BY <1>4, <2>2, <3>1 DEF OpenFile, OpenFileNaming, Writing, AfterFile, CallbackState, Kinds
    <3>2. CASE Return(t) BY <1>4, <2>2, <3>2, OutsideType DEF Return, Writing
    <3>3. CASE \E place \in Places \ {"write_zebin", "write_dwarf"} : GoTo(t, place)
      BY <1>4, <2>2, <3>3 DEF GoTo, Writing, CallbackState
    <3> QED
      BY <3>1, <3>2, <3>3 DEF Callback, GetNativeBinary, GetDebugInfo, WriteFile, AfterFile, Lock,
                              Store, Unlock, Places
  <2> QED BY <2>1, <2>2
<1> QED BY <1>1, <1>2, <1>9, <1>10, <1>11 DEF ArtifactInv, ManifestNamesOwnImages

LEMMA EnterArtifacts ==
  ASSUME TracerInv, ArtifactInv, NEW t \in Threads, EnterCallback(t)
  PROVE  ArtifactInv'
<1>1. PICK n \in Names, m \in Modules :
        /\ thread' = [thread EXCEPT ![t] = [at |-> "native_binary", name |-> n,
                                            module |-> m, paths |-> {}]]
        /\ creations' = Append(creations, [name |-> n, module |-> m, run |-> run])
  BY DEF EnterCallback
<1>2. /\ host # "idle" /\ thread[t].at = "out" /\ thread \in [Threads -> CallbackState]
      /\ UNCHANGED <<host, run, records, files>>
      /\ creations \in Seq(Creation) /\ records \in Seq(Record)
  BY DEF EnterCallback, TracerInv, CallbackTypes, VectorTypes, disk
<1>3. run \in 1 .. MaxRuns BY <1>2, TracerAssumption DEF TracerInv, HostTypes, PointerInv
<1>4. \A nn \in Names : CreatedAs(nn) \subseteq CreatedAs(nn)'
  BY <1>1, <1>2, <1>3, CreatedGrows DEF Creation
<1>5. m \in CreatedAs(n)'
  <2> DEFINE c == [name |-> n, module |-> m, run |-> run]
             k == Len(creations) + 1
  <2>1. c \in Creation BY <1>3 DEF Creation
  <2>2. k \in DOMAIN creations' /\ creations'[k] = c BY <1>1, <1>2, <2>1
  <2> QED BY <1>2, <2>2 DEF CreatedAs
<1>6. \A s \in Threads \ {t} : thread'[s] = thread[s] BY <1>1, <1>2
<1>7. thread'[t] = [at |-> "native_binary", name |-> n, module |-> m, paths |-> {}]
  BY <1>1, <1>2
<1>8. ASSUME NEW nn \in Names, NEW mm, NEW p \in SUBSET Kinds, TracedAs(nn, mm, p)
      PROVE  TracedAs(nn, mm, p)'
  <2>1. mm \in CreatedAs(nn)' BY <1>4, <1>8 DEF TracedAs
  <2>2. ASSUME NEW kind \in p PROVE FileSound(nn, kind)'
    BY <1>2, <1>4, <1>6, <1>8, SoundKept DEF TracedAs, Writing
  <2> QED BY <2>1, <2>2 DEF TracedAs
<1>9. \A s \in Threads : thread'[s].at # "out" => Traced(thread[s])'
  <2>1. ASSUME NEW s \in Threads \ {t}, thread'[s].at # "out" PROVE Traced(thread[s])'
    <3>1. thread'[s] = thread[s] /\ thread[s].at # "out" BY <1>6, <2>1
    <3>2. TracedAs(thread[s].name, thread[s].module, thread[s].paths)
      BY <1>2, <3>1 DEF ArtifactInv, Traced
    <3>3. thread[s].name \in Names /\ thread[s].paths \in SUBSET Kinds BY <1>2 DEF CallbackState
    <3>4. ASSUME NEW e, e = thread[s] PROVE TracedAs(e.name, e.module, e.paths)'
      BY <1>8, <3>2, <3>3, <3>4
    <3> QED BY <3>1, <3>4 DEF Traced
  <2>2. Traced(thread[t])' BY <1>5, <1>7 DEF Traced, TracedAs
  <2> QED BY <2>1, <2>2
<1>10. \A k \in DOMAIN records' : Traced(records[k])'
  <2> SUFFICES ASSUME NEW k \in DOMAIN records PROVE Traced(records[k])' BY <1>2
  <2>1. records[k].name \in Names /\ records[k].paths \in SUBSET Kinds
    <3>1. records[k] \in Record BY <1>2
    <3> QED BY <3>1 DEF Record
  <2>2. TracedAs(records[k].name, records[k].module, records[k].paths)
    BY <1>2 DEF ArtifactInv, Traced
  <2>3. ASSUME NEW e, e = records[k] PROVE TracedAs(e.name, e.module, e.paths)'
    BY <1>8, <2>1, <2>2, <2>3
  <2> QED BY <1>2, <2>3 DEF Traced
<1>11. \A s \in Threads, kind \in Kinds : thread'[s].at = Writing(kind) => kind \in thread'[s].paths
  BY <1>6, <1>7 DEF ArtifactInv, Writing
<1> QED BY <1>2, <1>9, <1>10, <1>11 DEF ArtifactInv, ManifestNamesOwnImages

\* No step of main touches the artifacts.  The manifest it completes lists the
\* records, and by then nobody is writing a file.
LEMMA HostArtifacts ==
  ASSUME TracerInv, SnapshotInv, ArtifactInv, Host
  PROVE  ArtifactInv'
<1>1. UNCHANGED <<run, thread, records, creations, files>> /\ host # "idle"
  BY DEF Host, FinishWorkload, DisableTracer, DestroyTracer, ShutdownOr, OpenJson, CountRecords,
         FetchRecord, FetchUpTo, ReadRecord, FinishJson, FinishJsonAfter, process, disk
<1>2. /\ \A t \in Threads : thread'[t].at # "out" => Traced(thread[t])'
      /\ \A k \in DOMAIN records' : Traced(records[k])'
      /\ \A t \in Threads, kind \in Kinds : thread'[t].at = Writing(kind) => kind \in thread'[t].paths
  BY <1>1 DEF ArtifactInv, Traced, TracedAs, FileSound, CreatedAs
<1>3. CASE ~ FinishJson
  <2>1. host' = "idle" => status' = "failure"
    BY <1>3 DEF Host, FinishWorkload, DisableTracer, DestroyTracer, ShutdownOr, OpenJson,
                CountRecords, FetchRecord, FetchUpTo, ReadRecord, Exit, TracerInv, HostTypes
  <2> QED BY <1>2, <2>1 DEF ArtifactInv, ManifestNamesOwnImages
<1>4. CASE FinishJson
  <2>1. json' = [run |-> run, records |-> listed, complete |-> TRUE] /\ host = "fetch"
    BY <1>4 DEF FinishJson, FinishJsonAfter
  <2>2. Quiet BY <2>1 DEF TracerInv, ShutdownInv
  <2>3. ASSUME NEW k \in DOMAIN listed, NEW kind \in listed[k].paths
        PROVE  LET images == files[<<listed[k].name, kind>>]
               IN  /\ images # {}
                   /\ \A i \in images : i.run = run /\ i.module \in CreatedAs(listed[k].name)
                   /\ listed[k].module \in CreatedAs(listed[k].name)
    <3>1. listed \in Seq(Record) /\ records \in Seq(Record) /\ k \in 1 .. Len(listed)
      BY DEF TracerInv, WriterTypes, VectorTypes
    <3>2. /\ listed[k] = records[k] /\ Len(listed) = index - 1 /\ index \in Nat
          /\ count = Len(records) /\ index <= count + 1
      BY <2>1, <3>1 DEF SnapshotInv, TracerInv, WriterTypes
    <3>3. k \in DOMAIN records BY <3>1, <3>2
    <3>4. Traced(listed[k]) BY <1>1, <3>2, <3>3 DEF ArtifactInv
    <3>5. listed[k].module \in CreatedAs(listed[k].name) /\ FileSound(listed[k].name, kind)
      BY <2>3, <3>4 DEF Traced, TracedAs
    <3>6. ~ \E t \in Threads : thread[t].at = Writing(kind) BY <2>2 DEF Quiet, Writing
    <3> QED BY <3>5, <3>6 DEF FileSound
  <2>4. ManifestNamesOwnImages'
    BY <1>1, <2>1, <2>3 DEF ManifestNamesOwnImages, CreatedAs
  <2> QED BY <1>2, <2>4 DEF ArtifactInv
<1> QED BY <1>3, <1>4

LEMMA ArtifactInvariance == Spec => []ArtifactInv
<1>1. Init => ArtifactInv
  BY OutsideType DEF Init, ArtifactInv, ManifestNamesOwnImages, Writing
<1>2. TracerInv /\ SnapshotInv /\ ArtifactInv /\ [Next]_vars => ArtifactInv'
  <2> SUFFICES ASSUME TracerInv, SnapshotInv, ArtifactInv, [Next]_vars PROVE ArtifactInv'
    OBVIOUS
  <2>1. CASE Start
    BY <2>1, OutsideType DEF Start, ArtifactInv, ManifestNamesOwnImages, Writing
  <2>2. CASE Kill
    BY <2>2, OutsideType DEF Kill, Exit, ArtifactInv, ManifestNamesOwnImages, Writing
  <2>3. CASE Host BY <2>3, HostArtifacts
  <2>4. CASE \E t \in Threads : EnterCallback(t) BY <2>4, EnterArtifacts
  <2>5. CASE \E t \in Threads : Callback(t) BY <2>5, CallbackArtifacts
  <2>6. CASE UNCHANGED vars
    BY <2>6 DEF vars, process, disk, ArtifactInv, ManifestNamesOwnImages, Traced, TracedAs,
                FileSound, CreatedAs
  <2> QED BY <2>1, <2>2, <2>3, <2>4, <2>5, <2>6 DEF Next
<1> QED BY <1>1, <1>2, Invariance, SnapshotInvariance, PTL DEF Spec

\* However many threads capture kernels, and wherever earlier runs were killed:
\* after a successful run every path in the manifest names a file that holds this
\* run's images only, from modules with a kernel of that name.
THEOREM ManifestIsOwn == Spec => []ManifestNamesOwnImages
<1>1. ArtifactInv => ManifestNamesOwnImages BY DEF ArtifactInv
<1> QED BY <1>1, ArtifactInvariance, PTL

=============================================================================
