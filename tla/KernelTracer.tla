---------------------------- MODULE KernelTracer ----------------------------
(***************************************************************************)
(* The workload process (data_generation/main.cpp): the tracer of          *)
(* kernel_debug_info.cpp, which the driver calls on every thread that      *)
(* creates a kernel, and the writer of workload_utils.cpp, which puts its  *)
(* records down in kernel_debug.json.  Runs follow each other over one     *)
(* directory and may be killed anywhere.                                   *)
(*                                                                         *)
(* An image stands for the bytes of a module in one run.  Handles, sizes   *)
(* and base addresses only fill fields of a record and are left out.       *)
(***************************************************************************)
EXTENDS Naturals, Sequences

CONSTANTS
  Threads,        \* threads of the workload that create kernels
  Names,          \* kernel names
  Modules,        \* modules they are created from
  NoThread,       \* the holder of a free mutex
  MaxCreations,   \* bound on the kernels created in all runs
  MaxRuns         \* bound on the runs

ASSUME TracerAssumption ==
  /\ NoThread \notin Threads /\ Names # {} /\ Modules # {}
  /\ MaxCreations \in Nat /\ MaxRuns \in Nat

VARIABLES
  run,        \* runs started so far
  host,       \* where main is
  valid,      \* what Workload returned
  status,     \* how the last run ended
  tracer,     \* gTracer: "none", "enabled" or "disabled"
  thread,     \* the callback each thread is in
  mutex,      \* gDebugDataMutex: its holder
  records,    \* gKernelDebugData
  moved,      \* how often growing has moved the vector's elements
  count,      \* kernelCount
  index,      \* of the loop over the records
  pointer,    \* `moved` when dbg was taken
  listed,     \* the records already put into the text
  files,      \* images with bytes in an artifact file; none if absent or empty
  json,       \* kernel_debug.json
  creations   \* every creation traced so far, an observer

process == <<tracer, thread, mutex, records, moved, creations>>
writer == <<count, index, pointer, listed>>
disk == <<files, json>>
vars == <<run, host, valid, status, process, writer, disk>>

-----------------------------------------------------------------------------
(* Data.                                                                   *)

Kinds == {"zebin", "dwarf"}
Files == Names \X Kinds

Image == [module : Modules, run : 1 .. MaxRuns]

\* The paths of a record are set unless its file could not be opened.
Record == [name : Names, module : Modules, paths : SUBSET Kinds]

Manifest == [run : 0 .. MaxRuns, records : Seq(Record), complete : BOOLEAN]

Places == {"out", "native_binary", "open_zebin", "write_zebin", "debug_info",
           "open_dwarf", "write_dwarf", "lock", "store", "unlock"}

\* Where a thread is in the callback, and the locals of its call.
CallbackState == [at : Places, name : Names, module : Modules, paths : SUBSET Kinds]

Creation == [name : Names, module : Modules, run : 1 .. MaxRuns]

Outside == [at |-> "out", name |-> CHOOSE n \in Names : TRUE,
            module |-> CHOOSE m \in Modules : TRUE, paths |-> {}]

Init ==
  /\ run = 0 /\ host = "idle" /\ valid = FALSE /\ status = "none"
  /\ tracer = "none" /\ thread = [t \in Threads |-> Outside] /\ mutex = NoThread
  /\ records = << >> /\ moved = 0 /\ creations = << >>
  /\ count = 0 /\ index = 1 /\ pointer = 0 /\ listed = << >>
  /\ files = [f \in Files |-> {}]
  /\ json = [run |-> 0, records |-> << >>, complete |-> FALSE]

-----------------------------------------------------------------------------
(* A callback: OnExitKernelCreate on one thread.                           *)

GoTo(t, place) == thread' = [thread EXCEPT ![t].at = place]
Return(t) == thread' = [thread EXCEPT ![t] = Outside]

\* A failed creation and one without a name end the callback at once.
EnterCallback(t) ==
  /\ host # "idle" /\ tracer = "enabled" /\ thread[t].at = "out"
  /\ Len(creations) < MaxCreations
  /\ \E n \in Names, m \in Modules :
       /\ thread' = [thread EXCEPT ![t] = [at |-> "native_binary", name |-> n,
                                           module |-> m, paths |-> {}]]
       /\ creations' = Append(creations, [name |-> n, module |-> m, run |-> run])
  /\ UNCHANGED <<run, host, valid, status, tracer, mutex, records, moved, writer, disk>>

\* The size query or the query itself may fail.
GetNativeBinary(t) ==
  /\ thread[t].at = "native_binary"
  /\ GoTo(t, "open_zebin") \/ GoTo(t, "debug_info")
  /\ UNCHANGED <<run, host, valid, status, tracer, mutex, records, moved, creations,
                 writer, disk>>

\* Without debug info there is no record, whatever was written before.
GetDebugInfo(t) ==
  /\ thread[t].at = "debug_info"
  /\ GoTo(t, "open_dwarf") \/ Return(t)
  /\ UNCHANGED <<run, host, valid, status, tracer, mutex, records, moved, creations,
                 writer, disk>>

Opening(kind) == IF kind = "zebin" THEN "open_zebin" ELSE "open_dwarf"
Writing(kind) == IF kind = "zebin" THEN "write_zebin" ELSE "write_dwarf"
AfterFile(kind) == IF kind = "zebin" THEN "debug_info" ELSE "lock"
FileOf(t, kind) == <<thread[t].name, kind>>
ImageOf(t) == [module |-> thread[t].module, run |-> run]

OpenFileNaming(t, kind, named) ==
  /\ thread[t].at = Opening(kind)
  /\ \/ /\ thread' = [thread EXCEPT ![t].at = Writing(kind), ![t].paths = @ \union {kind}]
        /\ files' = [files EXCEPT ![FileOf(t, kind)] = {}]
     \/ /\ thread' = [thread EXCEPT ![t].at = AfterFile(kind), ![t].paths = @ \union named]
        /\ UNCHANGED files
  /\ UNCHANGED <<run, host, valid, status, tracer, mutex, records, moved, creations,
                 writer, json>>

\* A mutant: the path is returned although the stream did not open.
OpenFileNamingAnyway(t, kind) == OpenFileNaming(t, kind, {kind})

\* The stream is opened without the mutex and truncates what is there; one that
\* cannot be opened leaves the path of the record empty.
OpenFile(t, kind) == OpenFileNaming(t, kind, {})

\* Of what another thread wrote meanwhile, something or nothing may remain.
WriteFile(t, kind) ==
  /\ thread[t].at = Writing(kind)
  /\ \E kept \in {{}, files[FileOf(t, kind)]} :
       files' = [files EXCEPT ![FileOf(t, kind)] = kept \union {ImageOf(t)}]
  /\ GoTo(t, AfterFile(kind))
  /\ UNCHANGED <<run, host, valid, status, tracer, mutex, records, moved, creations,
                 writer, json>>

\* A mutant: the mutex is not waited for.
LockUnguarded(t) ==
  /\ thread[t].at = "lock"
  /\ GoTo(t, "store") /\ mutex' = t
  /\ UNCHANGED <<run, host, valid, status, tracer, records, moved, creations, writer, disk>>

Lock(t) ==
  /\ thread[t].at = "lock" /\ mutex = NoThread
  /\ GoTo(t, "store") /\ mutex' = t
  /\ UNCHANGED <<run, host, valid, status, tracer, records, moved, creations, writer, disk>>

RecordOf(t) == [name |-> thread[t].name, module |-> thread[t].module,
                paths |-> thread[t].paths]

\* push_back moves the elements when it exceeds the capacity.
Store(t) ==
  /\ thread[t].at = "store"
  /\ records' = Append(records, RecordOf(t))
  /\ moved' \in {moved, moved + 1}
  /\ GoTo(t, "unlock")
  /\ UNCHANGED <<run, host, valid, status, tracer, mutex, creations, writer, disk>>

\* A mutant: the mutex is not given back.
UnlockNothing(t) ==
  /\ thread[t].at = "unlock"
  /\ Return(t) /\ UNCHANGED mutex
  /\ UNCHANGED <<run, host, valid, status, tracer, records, moved, creations, writer, disk>>

Unlock(t) ==
  /\ thread[t].at = "unlock"
  /\ Return(t) /\ mutex' = NoThread
  /\ UNCHANGED <<run, host, valid, status, tracer, records, moved, creations, writer, disk>>

Callback(t) ==
  \/ GetNativeBinary(t) \/ GetDebugInfo(t)
  \/ \E kind \in Kinds : OpenFile(t, kind) \/ WriteFile(t, kind)
  \/ Lock(t) \/ Store(t) \/ Unlock(t)

-----------------------------------------------------------------------------
(* main and the manifest writer.                                           *)

Quiet == \A t \in Threads : thread[t].at = "out"

\* InitKernelTracer; without a tracer the workload runs all the same.
Start ==
  /\ host = "idle" /\ run < MaxRuns
  /\ run' = run + 1 /\ host' = "workload" /\ valid' = FALSE /\ status' = "running"
  /\ tracer' \in {"enabled", "none"}
  /\ thread' = [t \in Threads |-> Outside] /\ mutex' = NoThread
  /\ records' = << >> /\ moved' = 0
  /\ count' = 0 /\ index' = 1 /\ pointer' = 0 /\ listed' = << >>
  /\ UNCHANGED <<creations, disk>>

FinishWorkload ==
  /\ host = "workload" /\ host' = "shutdown" /\ valid' \in BOOLEAN
  /\ UNCHANGED <<run, status, process, writer, disk>>

\* After zelTracerSetEnabled no callback starts; the ones under way go on.
DisableTracer ==
  /\ host = "shutdown" /\ tracer = "enabled" /\ tracer' = "disabled"
  /\ UNCHANGED <<run, host, valid, status, thread, mutex, records, moved, creations,
                 writer, disk>>

\* zelTracerDestroy waits until no thread is in a callback.
TracerGone == tracer = "none" \/ (tracer = "disabled" /\ Quiet)
TracerIdle == tracer \in {"none", "disabled"}

Exit(code) == host' = "idle" /\ status' = code

ShutdownOr(gone) ==
  /\ host = "shutdown" /\ gone /\ tracer' = "none"
  /\ IF valid THEN host' = "open_json" /\ UNCHANGED status ELSE Exit("failure")
  /\ UNCHANGED <<run, valid, thread, mutex, records, moved, creations, writer, disk>>

\* A mutant: the tracer goes while callbacks run.
ShutdownWithoutWaiting == ShutdownOr(TracerIdle)
DestroyTracer == ShutdownOr(TracerGone)

OpenJson ==
  /\ host = "open_json"
  /\ \/ /\ host' = "count" /\ json' = [run |-> run, records |-> << >>, complete |-> FALSE]
        /\ UNCHANGED status
     \/ Exit("failure") /\ UNCHANGED json
  /\ UNCHANGED <<run, valid, process, writer, files>>

CountRecords ==
  /\ host = "count" /\ mutex = NoThread
  /\ count' = Len(records) /\ host' = "fetch"
  /\ UNCHANGED <<run, valid, status, process, index, pointer, listed, disk>>

\* The pointer outlives the lock that was held to take it.
FetchUpTo(last) ==
  /\ host = "fetch" /\ index <= last /\ mutex = NoThread
  /\ IF index <= Len(records)
     THEN pointer' = moved /\ host' = "read" /\ UNCHANGED index
     ELSE index' = index + 1 /\ UNCHANGED <<pointer, host>>
  /\ UNCHANGED <<run, valid, status, process, count, listed, disk>>

\* A mutant: the loop has one iteration more.
FetchPastTheCount == FetchUpTo(count + 1)
FetchRecord == FetchUpTo(count)

ReadRecord ==
  /\ host = "read" /\ host' = "fetch"
  /\ listed' = Append(listed, records[index]) /\ index' = index + 1
  /\ UNCHANGED <<run, valid, status, process, count, pointer, disk>>

\* Without debug data there is an empty list, and it is a success.
FinishJsonAfter(last) ==
  /\ host = "fetch" /\ index > last
  /\ json' = [run |-> run, records |-> listed, complete |-> TRUE] /\ Exit("success")
  /\ UNCHANGED <<run, valid, process, writer, files>>

\* A mutant: the loop has one iteration less.
FinishJsonEarly == FinishJsonAfter(count - 1)
FinishJson == FinishJsonAfter(count)

Host ==
  \/ FinishWorkload \/ DisableTracer \/ DestroyTracer
  \/ OpenJson \/ CountRecords \/ FetchRecord \/ ReadRecord \/ FinishJson

\* The process ends where it is, an exception in Workload included.
Kill ==
  /\ host # "idle" /\ Exit("killed")
  /\ tracer' = "none" /\ thread' = [t \in Threads |-> Outside] /\ mutex' = NoThread
  /\ UNCHANGED <<run, valid, records, moved, creations, writer, disk>>

Next ==
  \/ Start \/ Host \/ Kill
  \/ \E t \in Threads : EnterCallback(t) \/ Callback(t)

Fairness == WF_vars(Host) /\ \A t \in Threads : WF_vars(Callback(t))

Spec == Init /\ [][Next]_vars /\ Fairness

-----------------------------------------------------------------------------
(* Properties.                                                             *)

HostPlaces == {"idle", "workload", "shutdown", "open_json", "count", "fetch", "read"}

\* Every variable holds a value of its type, and the writer's index stays in its
\* loop.
TypeOK ==
  /\ run \in 0 .. MaxRuns /\ host \in HostPlaces /\ valid \in BOOLEAN
  /\ status \in {"none", "running", "success", "failure", "killed"}
  /\ tracer \in {"none", "enabled", "disabled"}
  /\ thread \in [Threads -> CallbackState]
  /\ mutex \in Threads \union {NoThread}
  /\ records \in Seq(Record) /\ moved \in Nat /\ creations \in Seq(Creation)
  /\ count \in Nat /\ index \in 1 .. count + 1 /\ pointer \in Nat /\ listed \in Seq(Record)
  /\ files \in [Files -> SUBSET Image] /\ json \in Manifest

\* Between the lock_guard's construction and its destruction.
Storing(t) == thread[t].at \in {"store", "unlock"}

\* gKernelDebugData is never changed by two threads at once, nor read by main
\* through a pointer (workload_utils.cpp:79-91, without the mutex) while a
\* callback changes it.
NoDataRace ==
  /\ \A s, t \in Threads : Storing(s) /\ Storing(t) => s = t
  /\ host = "read" => \A t \in Threads : ~ Storing(t)

\* The pointer GetKernelDebugDataByIndex handed out still points to an element
\* when main uses it: the vector has not grown since.
PointerIsCurrent == host = "read" => pointer = moved /\ index <= Len(records)

\* The modules this run created kernels of a name from.
CreatedAs(name) ==
  {m \in Modules : \E k \in DOMAIN creations :
                     creations[k] = [name |-> name, module |-> m, run |-> run]}

\* After a successful run the manifest is this run's, and every path in it names
\* a file with an image this run took from a module that has a kernel of the
\* record's name: the record's own module, where the name is unique.
ManifestNamesOwnImages ==
  host = "idle" /\ status = "success" =>
    /\ json.run = run /\ json.complete
    /\ \A k \in DOMAIN json.records :
         LET record == json.records[k]
         IN  \A kind \in record.paths :
               LET images == files[<<record.name, kind>>]
               IN  /\ images # {}
                   /\ \A i \in images : i.run = run /\ i.module \in CreatedAs(record.name)
                   /\ record.module \in CreatedAs(record.name)

\* The manifest is a snapshot of all kernels captured, taken when capturing is
\* over.
Capture == INSTANCE KernelCapture WITH
  capturing <- tracer # "none",
  captured  <- records,
  manifest  <- IF json.complete THEN <<json.records>> ELSE << >>

PublishesCaptured == Capture!Spec

\* Every run of the process ends: shutting the tracer down waits for callbacks,
\* and none of them waits for main.
EveryRunEnds == host # "idle" ~> host = "idle"

=============================================================================
