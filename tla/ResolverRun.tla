---------------------------- MODULE ResolverRun ----------------------------
(***************************************************************************)
(* The resolver process (main of src/main.cpp) run again and again over    *)
(* one output directory: options, manifests, adapter selection, the loop   *)
(* over adapters and kernels, and the two report files of each adapter.    *)
(*                                                                         *)
(* What an adapter finds for a kernel is module KernelAnalysis; here it is *)
(* the choice whether it has any location.  A report file is buffered by   *)
(* its ofstream: opening truncates it, and it is complete when the stream  *)
(* is destroyed, at the end of the adapter's iteration or by unwinding.    *)
(***************************************************************************)
EXTENDS Naturals, SequencesExt

CONSTANTS
  Compiled,     \* compiled_adapter_descriptors: the adapters of this build
  Labels,       \* --comparison-label values
  Invocations,  \* command lines, with the files they name
  MaxRuns       \* bound: how often the resolver is run

Adapters == Range(Compiled)
Options == {"run", "help", "rejected"}
Forms == {"plain", "braces", "invalid"}

\* A record of kernel_debug.json, of the sampling tool's manifest.
KernelRecord == [name : STRING, form : Forms, hasElf : BOOLEAN]
ManifestRecord == [name : STRING, form : Forms,
                   ipList : {"listed", "unlisted", "unreadable"},
                   reference : {"rows", "no_rows", "unreadable"}]

IsInvocation(i) ==
  /\ i.options \in Options /\ i.label \in Labels
  /\ i.kernels \in Seq(KernelRecord)
  /\ i.manifestFile \in {"not_given", "unreadable", "readable"}
  /\ i.manifest \in Seq(ManifestRecord)
  /\ i.referenceOption \in BOOLEAN
  /\ i.selection \in Seq(STRING)

ASSUME ResolverAssumption ==
  /\ Compiled \in Seq(STRING) /\ IsInjective(Compiled)
  /\ MaxRuns \in Nat
  /\ \A i \in Invocations : IsInvocation(i)

VARIABLES
  run,          \* how many times the resolver was started
  invocation,   \* this run's command line
  pc,           \* where main is
  kernels,      \* load_kernel_debug_manifest
  queue,        \* create_adapters: the selected adapters, in order
  adapter,      \* index of the adapter loop
  kernel,       \* index of the kernel loop
  report,       \* adapter_report: one row per resolution
  resolvedAny,  \* resolved_any_kernel
  status,       \* how each run ended
  csv,          \* adapter_<name>_result_dwarf_parser.csv, of each adapter
  json          \* adapter_<name>_<label>_comparison.json

inputs == <<run, invocation>>
loaded == <<kernels, queue>>
loop == <<adapter, kernel, report, resolvedAny>>
files == <<csv, json>>
vars == <<inputs, pc, loaded, loop, status, files>>

-----------------------------------------------------------------------------
(* Reading the inputs.                                                     *)

\* The elements of a sequence at some of its indices, in their order.
TakenUpTo(s, indices) ==
  LET taken[n \in 0 .. Len(s)] ==
        IF n = 0 THEN << >>
        ELSE IF n \in indices THEN Append(taken[n - 1], s[n]) ELSE taken[n - 1]
  IN  taken
Taken(s, indices) == TakenUpTo(s, indices)[Len(s)]

\* The manifests are cut into records by a regular expression that knows no
\* strings: a record with a brace in a name is not found.  A record that is
\* found and has a field the loader rejects ends the load.
Loaded(records) == Taken(records, {n \in DOMAIN records : records[n].form # "braces"})
Rejected(records) == \E n \in DOMAIN records : records[n].form = "invalid"

\* create_adapters: "all" alone, or names of which repetitions are dropped.
WithoutRepetition(names) ==
  Taken(names, {n \in DOMAIN names : \A m \in 1 .. n - 1 : names[m] # names[n]})
SelectionAccepted(selection) ==
  \/ selection = <<"all">>
  \/ selection # << >> /\ Range(selection) \subseteq Adapters \ {"all"}
SelectedAdapters(selection) ==
  IF selection = <<"all">> THEN Compiled ELSE WithoutRepetition(selection)

Manifest ==
  IF invocation.manifestFile = "readable" THEN Loaded(invocation.manifest) ELSE << >>

\* find_manifest_entry: the first entry of the name, 0 if there is none.
EntryFor(name) ==
  LET entries == {n \in DOMAIN Manifest : Manifest[n].name = name}
  IN  IF entries = {} THEN 0 ELSE CHOOSE n \in entries : \A m \in entries : n <= m

-----------------------------------------------------------------------------
(* The report files.                                                       *)

Absent == [run |-> 0, complete |-> TRUE, kernels |-> << >>, useful |-> FALSE]
Opened == [run |-> run, complete |-> FALSE, kernels |-> << >>, useful |-> FALSE]

\* ResolveReport::empty and is_skipped: whether a run counts as resolving.
Useful(rows) == \E n \in DOMAIN rows : rows[n].located \/ rows[n].skipped
Written(rows) ==
  [run |-> run, complete |-> TRUE, useful |-> Useful(rows),
   kernels |-> [n \in DOMAIN rows |-> rows[n].kernel]]

-----------------------------------------------------------------------------
(* The process.                                                            *)

Init ==
  /\ run = 0 /\ invocation \in Invocations /\ pc = "exited"
  /\ kernels = << >> /\ queue = << >>
  /\ adapter = 1 /\ kernel = 1 /\ report = << >> /\ resolvedAny = FALSE
  /\ status = << >>
  /\ csv = [a \in Adapters |-> Absent]
  /\ json = [a \in Adapters |-> [l \in Labels |-> Absent]]

\* The exit status is 0 on success and 1 on failure.
Exit(code) == pc' = "exited" /\ status' = Append(status, code)
Goto(next) == pc' = next /\ UNCHANGED status

\* The locals of main start afresh; the files are those the last run left.
Start ==
  /\ pc = "exited" /\ run < MaxRuns
  /\ run' = run + 1 /\ invocation' \in Invocations
  /\ kernels' = << >> /\ queue' = << >>
  /\ adapter' = 1 /\ kernel' = 1 /\ report' = << >> /\ resolvedAny' = FALSE
  /\ Goto("parse") /\ UNCHANGED files

ParseCli ==
  /\ pc = "parse"
  /\ CASE invocation.options = "run"      -> Goto("load_kernels")
       [] invocation.options = "help"     -> Exit("success")
       [] invocation.options = "rejected" -> Exit("failure")
  /\ UNCHANGED <<inputs, loaded, loop, files>>

LoadKernels ==
  /\ pc = "load_kernels"
  /\ \/ /\ Rejected(invocation.kernels) \/ Loaded(invocation.kernels) = << >>
        /\ Exit("failure") /\ UNCHANGED kernels
     \/ /\ ~ Rejected(invocation.kernels) /\ Loaded(invocation.kernels) # << >>
        /\ kernels' = Loaded(invocation.kernels) /\ Goto("load_manifest")
  /\ UNCHANGED <<inputs, queue, loop, files>>

LoadManifest ==
  /\ pc = "load_manifest"
  /\ LET failed == \/ invocation.manifestFile = "unreadable"
                   \/ invocation.manifestFile = "readable" /\ Rejected(invocation.manifest)
     IN  IF failed THEN Exit("failure") ELSE Goto("create_adapters")
  /\ UNCHANGED <<inputs, loaded, loop, files>>

\* The output directory is created first, which may fail.
CreateAdapters ==
  /\ pc = "create_adapters"
  /\ \/ /\ SelectionAccepted(invocation.selection)
        /\ SelectedAdapters(invocation.selection) # << >>
        /\ queue' = SelectedAdapters(invocation.selection) /\ Goto("analyze")
     \/ UNCHANGED queue /\ Exit("failure")
  /\ UNCHANGED <<inputs, kernels, loop, files>>

\* One kernel for the current adapter.  Without an entry that lists IPs the
\* run ends, whether --reference is given or not.  An adapter that does not
\* support the request makes no resolution; the reference is loaded anyway.
AnalyzeOr(WithoutIps) ==
  /\ pc = "analyze" /\ kernel <= Len(kernels)
  /\ LET entry == Manifest[EntryFor(kernels[kernel].name)]
         usable == /\ EntryFor(kernels[kernel].name) # 0
                   /\ entry.ipList = "listed" /\ entry.reference # "unreadable"
     IN  \/ ~ usable /\ WithoutIps
         \/ /\ usable /\ kernel' = kernel + 1 /\ Goto("analyze")
            /\ \/ /\ kernels[kernel].hasElf
                  /\ \E located \in BOOLEAN :
                       report' = Append(report,
                         [kernel |-> kernels[kernel].name, located |-> located,
                          skipped |-> entry.reference = "no_rows"])
               \/ ~ kernels[kernel].hasElf /\ UNCHANGED report
  /\ UNCHANGED <<inputs, loaded, adapter, resolvedAny, files>>

AnalyzeOrGoOn ==
  AnalyzeOr(kernel' = kernel + 1 /\ Goto("analyze") /\ UNCHANGED report)
AnalyzeKernel == AnalyzeOr(Exit("failure") /\ UNCHANGED <<kernel, report>>)

OpenCsvOrGoOn ==
  /\ pc = "analyze" /\ kernel > Len(kernels)
  /\ \/ Goto("open_json") /\ UNCHANGED csv
     \/ Goto("open_json") /\ csv' = [csv EXCEPT ![queue[adapter]] = Opened]
  /\ UNCHANGED <<inputs, loaded, loop, json>>

OpenCsv ==
  /\ pc = "analyze" /\ kernel > Len(kernels)
  /\ \/ Exit("failure") /\ UNCHANGED csv
     \/ Goto("open_json") /\ csv' = [csv EXCEPT ![queue[adapter]] = Opened]
  /\ UNCHANGED <<inputs, loaded, loop, json>>

OpenJsonWithoutUnwinding ==
  /\ pc = "open_json"
  /\ \/ Exit("failure") /\ UNCHANGED files
     \/ /\ Goto("close_json") /\ UNCHANGED csv
        /\ json' = [json EXCEPT ![queue[adapter]][invocation.label] = Opened]
  /\ UNCHANGED <<inputs, loaded, loop>>

\* When the JSON report cannot be opened, unwinding completes the CSV report.
OpenJson ==
  /\ pc = "open_json"
  /\ \/ /\ Exit("failure") /\ UNCHANGED json
        /\ csv' = [csv EXCEPT ![queue[adapter]] = Written(report)]
     \/ /\ Goto("close_json") /\ UNCHANGED csv
        /\ json' = [json EXCEPT ![queue[adapter]][invocation.label] = Opened]
  /\ UNCHANGED <<inputs, loaded, loop>>

\* The end of an adapter's iteration destroys the streams, JSON first.
CloseJson ==
  /\ pc = "close_json" /\ Goto("close_csv")
  /\ json' = [json EXCEPT ![queue[adapter]][invocation.label] = Written(report)]
  /\ UNCHANGED <<inputs, loaded, loop, csv>>

EndIteration(resolved, more) ==
  /\ pc = "close_csv"
  /\ csv' = [csv EXCEPT ![queue[adapter]] = Written(report)]
  /\ resolvedAny' = resolved
  /\ IF more THEN Goto("analyze")
     ELSE Exit(IF resolvedAny' THEN "success" ELSE "failure")
  /\ adapter' = adapter + 1 /\ kernel' = 1 /\ report' = << >>
  /\ UNCHANGED <<inputs, loaded, json>>

EndIterationForgetting == EndIteration(Useful(report), adapter < Len(queue))
EndIterationPastTheLast == EndIteration(resolvedAny \/ Useful(report), adapter <= Len(queue))
CloseCsv == EndIteration(resolvedAny \/ Useful(report), adapter < Len(queue))

\* The process is killed, or an adapter's library crashes it.
Kill ==
  /\ pc # "exited" /\ Exit("killed")
  /\ UNCHANGED <<inputs, loaded, loop, files>>

Next ==
  \/ Start \/ ParseCli \/ LoadKernels \/ LoadManifest \/ CreateAdapters
  \/ AnalyzeKernel \/ OpenCsv \/ OpenJson \/ CloseJson \/ CloseCsv \/ Kill

Spec == Init /\ [][Next]_vars

-----------------------------------------------------------------------------
(* Properties.                                                             *)

Row == [kernel : STRING, located : BOOLEAN, skipped : BOOLEAN]
File == [run : 0 .. MaxRuns, complete : BOOLEAN, kernels : Seq(STRING), useful : BOOLEAN]
Places == {"exited", "parse", "load_kernels", "load_manifest", "create_adapters",
           "analyze", "open_json", "close_json", "close_csv"}

\* Every variable holds a value of its type, and the loops of main stay within
\* the adapters that were created and the kernels that were loaded.
TypeOK ==
  /\ run \in 0 .. MaxRuns /\ invocation \in Invocations /\ pc \in Places
  /\ kernels \in Seq(KernelRecord) /\ queue \in Seq(Adapters)
  /\ adapter \in 1 .. Len(queue) + 1 /\ kernel \in 1 .. Len(kernels) + 1
  /\ pc \in {"analyze", "open_json", "close_json", "close_csv"} => adapter <= Len(queue)
  /\ report \in Seq(Row) /\ resolvedAny \in BOOLEAN
  /\ status \in Seq({"success", "failure", "killed"})
  /\ csv \in [Adapters -> File] /\ json \in [Adapters -> [Labels -> File]]

Selected == Range(queue)
Ended(code) == pc = "exited" /\ run > 0 /\ status[run] = code
Resolving == invocation.options = "run"

Supported == {n \in DOMAIN kernels : kernels[n].hasElf}
ReportedKernels ==
  LET supported == Taken(kernels, Supported)
  IN  [n \in DOMAIN supported |-> supported[n].name]

\* Success means that both reports of every selected adapter are of this
\* run, complete, and hold every loaded kernel, in the manifest's order.
SuccessMeansReports ==
  Ended("success") /\ Resolving =>
    \A a \in Selected : \A file \in {csv[a], json[a][invocation.label]} :
      file.run = run /\ file.complete /\ file.kernels = ReportedKernels

\* Of the runs that reach the end of the adapter loop, exactly those whose
\* reports have a location or a skipped comparison succeed.
ExitReflectsReports ==
  /\ Resolving /\ Selected # {} /\ (Ended("success") \/ Ended("failure"))
  /\ \A a \in Selected : \A file \in {csv[a], json[a][invocation.label]} : file.run = run
  => (Ended("success") <=> \E a \in Selected : csv[a].useful)

\* Between runs a report file is incomplete only if the run that opened it was
\* killed: every other failure leaves complete files.
PartialOnlyWhenKilled ==
  pc = "exited" =>
    \A a \in Adapters : \A file \in {csv[a]} \union Range(json[a]) :
      ~ file.complete => status[file.run] = "killed"

\* A comparison report is never newer than the address report beside it, and
\* between runs it is older only if the newer run failed, was killed or
\* compared under another label.
ReportsPaired ==
  \A a \in Adapters, l \in Labels :
    /\ json[a][l].run <= csv[a].run
    /\ pc = "exited" /\ json[a][l].run < csv[a].run /\ status[csv[a].run] = "success" =>
         \E m \in Labels \ {l} : json[a][m].run = csv[a].run

\* "By default, analysis emits an address report for every kernel captured in
\* kernel_debug.json" (README.md:91): a successful run reports every record
\* whose ELF file was written.
EveryCapturedKernelReported ==
  Ended("success") /\ Resolving =>
    \A a \in Selected : \A n \in DOMAIN invocation.kernels :
      invocation.kernels[n].hasElf =>
        Contains(csv[a].kernels, invocation.kernels[n].name)

\* The README's direct use of the resolver: kernels, adapters, an output
\* directory and --reference, without a sample manifest.
DirectUse ==
  /\ Resolving /\ invocation.manifestFile = "not_given" /\ invocation.referenceOption
  /\ ~ Rejected(invocation.kernels) /\ Loaded(invocation.kernels) # << >>
  /\ SelectionAccepted(invocation.selection)

\* "The compiled resolver accepts a manifest, adapter selection, optional
\* reference, and report output directory" (README.md:186): the direct use
\* gets past its first kernel once the adapters are created.
DirectUseAccepted ==
  DirectUse /\ queue # << >> /\ Ended("failure") => report # << >> \/ adapter > 1

=============================================================================
