# A TLA+ model of dwarf-parser-check

dwarf-parser-check measures how well DWARF parsers map Intel GPU instruction
addresses back to source lines. A workload runs under a profiler (VTune or
unitrace), a tracer captures the kernels' ELF/DWARF images, scripts turn the
profiler's output into a list of sampled addresses and a reference table, and
the *resolver*, a C++ program with one adapter per parser, resolves the
addresses and compares its locations with the reference.

This directory holds TLA+ modules that model the program, TLC configurations
that check them on small instances, and proofs that TLAPS checks for every value
of the constants. Paths below are those of the repository.

## 1. Inventory

### 1.1 The resolver (`src/`, `include/`)

| Component | State it keeps | Operations |
|---|---|---|
| Process, `src/main.cpp`, `src/core.cpp` | kernels, manifest entries, adapters, `resolved_any_kernel`, one `adapter_report`; on disk two report files per adapter | parse, load manifests, create adapters, one iteration per adapter and kernel, write reports, exit |
| Options and report writers, `src/cli.cpp` | none | `parse_cli`, `print_report`, `write_report_csv`, `write_report_json` |
| Manifest loaders, `src/kernel_debug_manifest.cpp` | none | `load_kernel_debug_manifest`, `load_vtune_manifest` |
| IP normalization, `src/ip_resolution.cpp` | none | `load_ip_list`, `normalize_ip_list`, `canonicalize_intel_gpu_address` |
| Comparison, `src/compare.cpp` | `compared_ips`, `matched_resolved`, `items` | `load_reference_locations`, `compare_locations` |
| rust-gimli adapter, `src/adapters/gimli/` | result array owned across a C boundary, thread-local last error | `dpc_addr2line_resolve_addresses`, dispose |
| gdb-intel adapter, `src/adapters/gdb/` | temporary file, pipe, child process | `run_addr2line`, parsing its output |
| PTI adapter, `src/adapters/pti/` | ELF sections, symbols, line rows | ELF parsing, unit selection, line program interpreter, look-up |
| IGA adapter, `src/adapters/iga/` | rows of all units (`locations`) | symbol look-up in the ELF file, rows of every line table through libdw, look-up of addresses |

The resolver is one thread. It talks to other actors in two places: the
gdb-intel adapter forks `addr2line` and exchanges a file and a pipe with it, and
consecutive runs share the output directory. Control flow is by exceptions, so
the interesting failures are those that leave a loop in the middle.

What makes it correct: an address gets the offset that was sampled whichever of
its forms the list has; a comparison reports each offset and location once and
its verdicts hold of the inputs; the exit status and the report files agree; a
call of `addr2line` returns, with all answers or an error, and leaves nothing
behind (the code keeps this but for the failures section 6 names); the PTI interpreter finds the rows the line program means, and finds them in the
line table of the kernel it was asked for.

### 1.2 Data generation (`data_generation/`)

| Component | State | Operations |
|---|---|---|
| Kernel tracer, `kernel_debug_info.cpp` | vector of records under a mutex, artifact files per kernel name, tracer handle | `OnExitKernelCreate` (concurrent callbacks), `InitKernelTracer`, `DestroyKernelTracer`, access by index |
| Manifest writer, `workload_utils.cpp` | `kernel_debug.json` | `BuildCollectedKernelDebugDataJson`, `WriteCollectedKernelDebugDataJson` |
| VTune extraction, `extract_addr_srcline.py`, `correlate_vtune_report.py` | reference CSVs, IP lists, `vtune_manifest.json` | decode lines, correlate, write per kernel |
| Unitrace extraction, `extract_unitrace_stalls.py` | the same for unitrace | match samples to kernels, write per kernel |
| Diagnostics, plots, workloads | none | print, draw, compute |

The tracer is the concurrent part: the driver calls it from the threads that
create kernels, and the manifest writer reads its vector meanwhile. Correct means
that each record of the manifest describes one kernel as it was captured.

### 1.3 Workflow (`dwarf-check.sh`, `run_experiments.sh`)

State is the artifact tree: builds, `kernel_debug.json`, profiler result
directories, shader dumps, references, manifests, reports. Commands (`build`,
`run`, `analyze`, `all`, `adapter`) create, reuse and remove parts of it, with
retries of the profilers. Every command may fail in the middle and later commands
work on what is left. Correct means that an analysis reports on the run it claims
to report on, and that the matrix counts every experiment that failed.

`PROJECT.json` lists the hazards of all these parts at their lines, those no
property covers with the reason, or the module that is planned for them.

## 2. Plan

In this order. Everything but the points marked *open* is done.

1. `IpResolution`, `KernelAnalysis`: one kernel through one adapter, from address
   list to verdicts. The program's purpose stands or falls with it.
2. `ResolverRun`: the process around it, over consecutive runs.
3. `Addr2LineCall`, `GdbAddr2Line`: the one place with two processes, as an
   abstract promise and an implementation of it.
4. `DwarfLineMachine`, `PtiLookup`: the parser whose source is in the repository,
   against the meaning of line programs and against the reference's look-up.
5. `KernelCapture`, `KernelTracer`: concurrent creation callbacks, artifact files
   that share a name, the manifest writer reading by index; again an abstract
   promise and an implementation of it.
6. `DwarfCheck`, `Experiments`: the workflow's commands over the artifact tree,
   with failing profilers and kills, by hand in any order and from the matrix.
7. `ElfUnits`: which compilation and line unit the PTI parser takes for a kernel,
   what the IGA adapter answers without selecting any, and what the reference
   takes.
8. Proofs about `KernelAnalysis`, `GdbAddr2Line`, `KernelTracer`, `ResolverRun`,
   `DwarfCheck`, `Experiments`, `ElfUnits` and `PtiLookup` (section 5).
9. *Open:* `ReferenceExtraction`: samples and kernels to manifests, composed with
   `ResolverRun`: which manifests that the scripts write the resolver accepts.
10. *Open:* `GimliFfi`: ownership of the result array across the C boundary.

## 3. The modules

### IpResolution and KernelAnalysis

`IpResolution` has the arithmetic of `normalize_ip_list`, with the two widths of
an address as constants: the code is the instance `HalfSpace = 2^47`,
`HighPatterns = 2^16`. All sums are taken modulo the word.

`KernelAnalysis` is one iteration of the inner loop of `main`: `phase` names the
loop that runs and `pos` is its index, so each loop of the code is a phase and
each iteration a step.

| Phase | Code | Actions |
|---|---|---|
| `load_ips` | `load_ip_list` | `LoadIpLine`, `FinishIpList` |
| `normalize` | `normalize_ip_list` | `NormalizeIp`, `StartResolve` |
| `resolve` | `resolve_kernel` of three adapters | `ResolveAddress`, `FinishResolve` |
| `load_reference` | `load_reference_locations`, `resolve_request` | `LoadReferenceLine`, `FinishReference` |
| `compare` | first loop of `compare_locations` | `CompareReference`, `FinishCompare` |
| `flag` | second loop | `FlagUnmatched`, `FinishFlag` |
| `done`, `failed` | return, exception | |

`ips`, `offsets`, `resolved`, `references`, `compared`, `matched`, `items`,
`skipped` are the code's variables of these names. A `job` holds the inputs. Each
address line also remembers the offset the profiler sampled (`at`), which no
action reads except through `AddressOf`: it is the truth the offsets are judged
against. DWARF data is a function from offsets to rows; what a parser does to
find a row is not in this module.

### ResolverRun

The process, run up to `MaxRuns` times over one output directory: `pc` is the
place in `main`, `adapter` and `kernel` are the loop indices, `csv` and `json`
the report files. A file is `Opened` (truncated, nothing flushed) when its stream
is constructed and `Written` when it is destroyed, at the end of the iteration or
by unwinding. `Kill` ends the process anywhere. Whether an adapter finds a
location is a choice.

### Addr2LineCall and GdbAddr2Line

`Addr2LineCall` is the promise: the call returns once, with an error or with the
answers to all addresses in order. Its two exceptions are failures the code does not
notice: a disk that fills up after the stream was checked, for which it allows the
answers to a cut input, and a read that fails, which the code takes for the end of
the output, for which it allows the beginning of the answers (`Beginnings`).
`GdbAddr2Line` has one action per system call of the parent (`parent`) and the
child (`child`), the descriptors of the pipe (`ends`) and its content. Each call may
fail but `close`, whose result the code does not look at: those that block in
`ReadFails` and `WaitFails`, which `failed` remembers, and the removal of the file by
the exception `std::filesystem::remove` throws, on the way to `waitpid`
(`RemoveInput`) and on the error paths (`GiveUp`). `addr2line` and the kernel are
external: it answers the lines of its input in order, may exit with a failure or be
killed at any point, and dies when it writes to a pipe nobody reads.

### DwarfLineMachine and PtiLookup

`DwarfLineMachine` is the state machine with one action per opcode, registers
with their widths, and `Abort` for every failing `PTI_ASSERT`. The same module
defines what a program means without a machine: `Addresses` counts the operations
moved since the last one that set the address, `LinesMoved` all lines moved,
`FileAfter` takes the last file that was set, and `RowsOf` lists the rows. `PtiLookup` is `resolve_kernel` around it: early
returns, the sort, whose order among equal addresses the library does not
promise, and a step per address. Its reference part is the look-up of
`correlate_vtune_report.py`. That script takes the file offset of the text section
off the address of a VTune report and looks the rest, the offset in the section, up
as it is in the rows `readelf` decodes (`ReferenceRows`) of another file, the `.zebin`
of VTune's results; PTI adds the address its own file has the section at. The two
agree if the `.zebin` has its text sections at address 0, which the script relies on
and cannot see. `ZebinSectionAtZero` says so and is a premise of what compares them.

### KernelCapture and KernelTracer

`KernelCapture` is what data generation promises of `kernel_debug.json`: the list
of the kernels captured, all of them and in their order, put down when no more can
be captured, or no manifest. `KernelTracer` is the workload process.

| State | Code | Actions |
|---|---|---|
| `thread[t]` | `OnExitKernelCreate` on thread `t`, with the locals of its call | `EnterCallback`, then a step per place of the callback up to the unlocking |
| `mutex`, `records` | `gDebugDataMutex`, `gKernelDebugData` | lock, store, unlock |
| `host`, `tracer` | `main`, `InitKernelTracer`, `DestroyKernelTracer` | start, workload, shut-down, which waits for callbacks |
| `count`, `index`, `pointer`, `listed` | `BuildCollectedKernelDebugDataJson` | one step per call it makes |
| `files`, `json` | artifact files, `kernel_debug.json` | opened, written, left by a killed run |

A thread enters a callback only while the tracer is enabled, and
`zelTracerDestroy` returns when no callback is under way: this is the driver's
part, and external. `moved` counts how often growing has moved the vector's
elements and `creations` the kernels that were created; no action reads them. The
first makes a dangling pointer visible, the second says whose image a file is.

### DwarfCheck and Experiments

`DwarfCheck` is the workflow script. `todo` holds the commands of the line and
the steps a command was replaced by (`StepsOf`); each step is an action over what
the configuration's directory holds (`disk`), and ends the script when it fails,
as `set -e` does. `Kill` ends it between any two steps, and steps that write
several files may leave some. An artifact is not its content but where that comes
from: `of`, the version of the workload's source; `whole`, for partial results of
failed attempts; `fresh`, made by this invocation. Guards read no more of it than
a script can see: whether the artifact is there (`of` is not 0), and `whole` where
a script or a reader of the file would notice; `of` and `fresh` are what the
properties compare. Retries count in `attempt`.

`Experiments` extends it with `run_experiments.sh`, whose experiments are
invocations of `all`; commands by hand come before it, and one goes on to its own
end when the experiment script is killed.

### ElfUnits

The way from a kernel to its line table, twice. PTI: `Open` (with the retry on a
file whose string table comes last), `WalkInfo` over the compilation units,
`SelectInfo`, `ReadAttribute` for the compilation directory, `WalkLines` over the
line units, `Map`. IGA: `FindSymbol`, `ReadUnit` for each unit, `Resolve`. The
bytes of ELF and DWARF headers are the fields of `InfoUnit`, `LineUnit` and
`Relocation`; a row carries the kernel whose code it describes (`kernel`), which
only the properties read. The reference's look-up is `ReferenceRow`, of the offset
in the section among the rows of the unit at the kernel's index in the `.zebin`
(`zebin`), with the premise `ZebinSectionAtZero` as in `PtiLookup`. A kernel's
`address` stands for three numbers that are taken to be equal: the address of its text
section, the value of its symbol, and where its rows are counted from.

## 4. The runs

| Run | Checks | Distinct states |
|---|---|---|
| `kernel_analysis` | `TypeOK`, `OffsetsAreExact`, `OneItemPerReferenceOffset`, `EveryLocationReportedOnce`, `VerdictsReflectInputs`, `DwarfReferenceMismatchesOnlyAtLineZero` | 903,316 |
| `resolver_run` | `TypeOK`, `SuccessMeansReports`, `ExitReflectsReports`, `PartialOnlyWhenKilled`, `ReportsPaired` | 109,364 |
| `gdb_addr2line` | `TypeOK`, `NothingLeaks`, `InputPresentUntilOpened`, refinement `KeepsPromise`, liveness `Returns` | 3,322 |
| `pti_lookup` | `TypeOK`, `RowsAreTheProgramsRows`, `MatchesEveryMappedIp`, `NothingOutsideTheSequence` | 18,634 |
| `kernel_tracer` | `TypeOK`, `NoDataRace`, `PointerIsCurrent`, `ManifestNamesOwnImages`, refinement `PublishesCaptured`, liveness `EveryRunEnds` | 898,045 |
| `experiments` | `ScriptTypeOK`, `CollectedTogether`, `ReportsAreOfTheSamples`, `CleanLeavesNothingOld`, `PassedMeansCompared`, `SuccessMeansMatrixCompared`, action property `AnalyzeKeepsItsInputs`, liveness `EveryMatrixEnds` | 1,239,215 |
| `elf_units` | `TypeOK`, `PtiNeverAnswersForASibling`, `PtiFindsTheReferencesUnit`, `IgaAgreesWithPti`, `IgaStraysOnlyBeforeItsFirstRow` | 58,544 |
| `duplicate_locations`, `captured_kernels`, `direct_use`, `clean_run_keeps_dump`, `wide_instructions` | one property each, violated (section 6) | |

What four of them show:

- `gdb_addr2line`: a call always ends. Output means all answers, in order, unless
  the disk was full or a read failed; the file is gone unless removing it threw; a
  child is left only then or when `waitpid` failed; and the child finds its input
  although the parent removes it first, unless a read failed. Each exception is
  reached in the run: without it the property fails.
- `kernel_tracer`: whatever the threads and the driver do, the manifest of a
  successful run lists exactly the kernels captured, with paths to images of this
  run. Images of two modules with a kernel of one name share a file; the property
  says that the file then holds one or several of theirs and nothing else.
- `experiments`: samples, workload manifest and binary of a successful collection
  belong together although attempts fail and both collectors run the workload; an
  analysis reports on the samples that are there; a PASS is of a comparison its
  own experiment made; success of the script means a record for each entry of the
  matrix and, with VTune among the tools, none that failed.
- `elf_units`: PTI answers with the rows the reference pairs the kernel with, or
  not at all, and never with a sibling's. IGA agrees wherever that answer has a
  line; where it has line 0 or there is none, IGA may answer with the row of the kernel
  before it, and `IgaStraysOnlyBeforeItsFirstRow` says exactly where.

Every property of a passing run is also checked to fail for a plausible bug in
the code (`mutants` in `PROJECT.json`); the mutated forms stand before the
definitions they mutate and no specification uses them.

All runs have `CHECK_DEADLOCK FALSE`: an iteration, a call and a look-up end, and
processes and scripts are not started again after `MaxRuns` runs or
`MaxInvocations` invocations.

### Bounds and why they are enough

- `kernel_analysis`: addresses of 4 significant bits and one bit above them; a
  kernel of two instructions at no address, in the lower half, in the upper half
  in both spellings, and at an address that is zero in canonical form; lists of
  up to two addresses in every form, among them those just outside the kernel;
  DWARF tables and references that cover each offset with no, one or several
  rows, with equal, differently spelled and different files, with line 0, with
  empty files. Two references to one offset, two locations at one offset and one
  row between them are the cases the two loops of the comparison can confuse; a
  third reference row lets two of them be at one offset and one at another.
- A list holds display addresses exactly if the manifest has a section offset, as
  the two extraction scripts write it, and satisfies `FormsAssumption` (section 5):
  a plain offset inside the section's window, say, is read as a display address by
  design.
- `resolver_run`: two adapters, two kernels, two labels, two runs. The second run
  meets every kind of leftover of the first; a third one meets no new kind.
- `gdb_addr2line`: five addresses, a pipe of two answers, reads of two: the child
  blocks on a full pipe and the parent reads in pieces. Any call may fail, `read`
  and `waitpid` once each, after which they are not called again.
- `pti_lookup`: every program of up to three operations between the start and the
  end of a sequence, with a representative of each opcode, and addresses below,
  in and past the sequence. Units have one sequence, whose end is above its other
  rows, and one operation an instruction, as compilers for this target emit them.
  The registers wrap at 256 and 64 instead of `2^64` and `2^32`, operands at 32
  instead of `2^28`. Rows name files of the unit's table; one request has two rows
  at an address of which only the second has a file. The text section is at 4, 200 or
  0 in the adapter's file and at 0 in the `.zebin`, but for one request whose `.zebin`
  is not as the script relies on.
- `kernel_tracer`: two threads, two names, two modules, two creations and two
  runs. Two callbacks are what it takes to race, to move the vector and to share a
  file; the second run meets every leftover of the first, killed anywhere.
- `experiments`: a JIT and an AOT configuration, each the matrix once, after one
  line of commands by hand, or two lines by hand; two attempts; two versions of
  the source. An artifact is of this version or an older one, and made by this
  invocation or an earlier one, which two of each tell apart.
- `elf_units`: two kernels of four instructions, at adjacent addresses, in
  reversed order with a gap, or both at 0 (an unrelocated file), and a kernel the
  file has not; every assignment of relocations to two units, relocations with
  addend; units of versions 3 to 5, readable and not, with and without the
  attribute that is looked for, before and after others; line programs that are
  plain, have lines of number 0, begin late, have two sequences, or two rows at
  an address. The `.zebin` has the same rows counted from the beginning of each
  section.

### Fairness

`KernelAnalysis` has weak fairness of its next-state relation: it is a sequential
loop. `GdbAddr2Line` has weak fairness of the parent and of the child: both are
runnable processes unless they wait for each other through the pipe or `waitpid`,
and `addr2line` is taken to go on answering until it ends or is killed. The failures
of `read` and `waitpid` have no fairness, so that no process that waits in vain is
rescued by one.
`Returns` fails as soon as the parent keeps the pipe's writing end open.

`KernelTracer` has weak fairness of `main` and of each callback: threads are
runnable unless they wait for the mutex, whose holder is a callback, or for the
driver, which waits for callbacks only. `Experiments` has weak fairness of the
script and of the steps of the command it runs: profilers, builds and the resolver
are taken to end, for the scripts set no time limit. Nothing is assumed of kills,
edits, commands by hand or new callbacks. `ResolverRun`, `DwarfLineMachine`,
`PtiLookup`, `ElfUnits` and `DwarfCheck` by itself are loops over finite inputs
and state no fairness.

## 5. What is proved

Constants are arbitrary but for the named assumptions: `WidthAssumption`,
`JobAssumption`, `SizesAssumption`, `ResolverAssumption`, `TracerAssumption`,
`SpacesAssumption`, `RequestsAssumption`, `DwarfCheckAssumption`, `LinesAssumption` and `MatrixAssumption` say that widths,
counts and inputs have their types (a set address and an opcode fit in their
operands, and a line register holds 1), that adapter names differ, that the mutex's free
holder is no thread, that command lines consist of the script's commands (any other
word ends it where it stands) and that the matrix has an entry (the scripts' default
lists do; a list of blanks is not modelled), and nothing of any size. A file's
line programs consist of sequences, each of one kernel and ended above its rows
(`InSequences`), as DWARF has it. So the theorems
hold for every number of adapters, runs, threads, kernels, addresses, command lines,
invocations, retries and matrix entries.

`FormsAssumption` is the one assumption about content. `normalize_ip_list` is not told
which form an address has and tries one after the other, so no proof can do without
it: an address of a list does not look like a form that is tried before its own, one
sampled outside the kernel looks like none, and the kernel does not lie across the
gap between the two halves of the canonical addresses. The inputs of the program are
like this because the scripts write display addresses only beside a section offset,
because runtime addresses are far above sizes and file offsets, and because the
driver allocates a kernel in one piece. What holds without it (types, and everything
reported once) is proved without it.

| Theorem | Statement |
|---|---|
| `TypeCorrect` | `Spec => []TypeOK` of `KernelAnalysis` |
| `OffsetsReportedOnce` | `Spec => []OneItemPerReferenceOffset` |
| `LocationsReportedOnce` | `Spec => []EveryLocationReportedOnce` |
| `OffsetsExact` | `Spec => []OffsetsAreExact` |
| `VerdictsAreTrue` | `Spec => []VerdictsReflectInputs` |
| `DwarfAgreesWithItself` | `Spec => []DwarfReferenceMismatchesOnlyAtLineZero` |
| `OnlyKillsLeavePartialFiles` | `Spec => []PartialOnlyWhenKilled` of `ResolverRun` |
| `ReportsStayPaired` | `Spec => []ReportsPaired` |
| `ResolverTypeCorrect` | `Spec => []TypeOK` of `ResolverRun` |
| `SuccessHasItsReports` | `Spec => []SuccessMeansReports` |
| `ExitTellsWhatReportsHold` | `Spec => []ExitReflectsReports` |
| `CallLeaksNothing` | `Spec => []NothingLeaks` of `GdbAddr2Line` |
| `ChildFindsItsInput` | `Spec => []InputPresentUntilOpened` |
| `TypeCorrect` | `Spec => []TypeOK` of `GdbAddr2Line` |
| `AnswersAllOrFails` | `Spec => Call!Safety`: `GdbAddr2Line` implements `Addr2LineCall` but for its fairness |
| `TypeCorrect` | `Spec => []TypeOK` of `KernelTracer` |
| `RaceFree` | `Spec => []NoDataRace` |
| `PointerStaysCurrent` | `Spec => []PointerIsCurrent` |
| `ManifestIsOwn` | `Spec => []ManifestNamesOwnImages` |
| `TracerPublishesCaptured` | `Spec => PublishesCaptured`: `KernelTracer` implements `KernelCapture` |
| `WorkflowTypeOK` | `Spec => []TypeOK` of `DwarfCheck` |
| `SuccessIsOneCollection` | `Spec => []CollectedTogether` |
| `SuccessIsOfTheSamples` | `Spec => []ReportsAreOfTheSamples` |
| `CleanIsComplete` | `Spec => []CleanLeavesNothingOld` |
| `AnalysisOnlyReads` | `Spec => AnalyzeKeepsItsInputs` |
| `ScriptTypesHold` | `ScriptSpec => []ScriptTypeOK` of `Experiments` |
| `WorkflowPromisesHold` | the four properties of `DwarfCheck` under `ScriptSpec` |
| `RecordsTellTheTruth` | `ScriptSpec => []PassedMeansCompared` |
| `SuccessIsTheWholeMatrix` | `ScriptSpec => []SuccessMeansMatrixCompared` |
| `TypeCorrect` | `Spec => []TypeOK` of `ElfUnits` |
| `PtiKeepsToItsKernel` | `Spec => []PtiNeverAnswersForASibling` |
| `IgaStrays` | `Spec => []IgaStraysOnlyBeforeItsFirstRow` |
| `PtiFindsIt` | `Spec => []PtiFindsTheReferencesUnit` |
| `IgaAgrees` | `Spec => []IgaAgreesWithPti` |
| `LookupTypeCorrect` | `Spec => []TypeOK` of `PtiLookup` and `DwarfLineMachine` |
| `RowsAreExact` | `Spec => [](Regular(header, ops) => RowsAreTheProgramsRows)` |
| `OneOperationRowsAreExact` | the same of every program, with one operation an instruction |
| `EveryMappedIpMatched` | `Spec => [](Regular(header, ops) => MatchesEveryMappedIp)` |
| `NothingOutside` | `Spec => [](Regular(header, ops) /\ EndIsAbove => NothingOutsideTheSequence)` |

The theorems of `DwarfCheck` and those of `Experiments` are both in
`Experiments_proofs`, those of `DwarfLineMachine` and `PtiLookup` in
`PtiLookup_proofs`; `NumberLemmas` has what several modules cite.

**The comparison.** The two properties speak of finished loops and are not
inductive. `ComparisonInv` says where the loops are: nothing is reported before
the first (`NothingYet`), the rows it has passed are in `compared`
(`RowsCompared`), items of reference rows and compared offsets are in bijection
(`ItemsOfRows`), items with a location are those of matched ones and of the ones
the second loop has passed, each once (`ItemsOfLocations`), and the passed ones
have an item (`LocationsReported`). The step that needs all of it is the first
loop's: a fresh offset matches a location no other item has, because an item's
location has the item's offset.

**The verdicts.** `InputInv` follows an address through the loops before the
comparison: `ListInv` ties the entries of `ips` to the lines of the file they come
from, `OffsetsInv` gives each entry the offset that `normalize_ip_list` computes for
it, `ResolvedInv` each location an entry and a row of the kernel's line data. That
the computed offset is the sampled one (`SampledOffset`) is modular arithmetic: the
addresses of a kernel have distinct low bits (`ModUnique`), a canonical address is
given by its half and its low bits (`CanonicalHalves`), and within one half
differences survive (`RuntimeAddress`). What `main` asks a backend for, base plus
offset wrapped around, has that offset again (`OffsetRoundTrip`). `VerdictInv` says
what of all this an item was made from; with `OffsetsAreExact` it is a verdict about
what was sampled.

**The call.** `DescriptorInv` follows the descriptors. Unless a read fails, the read
loop ends only when no writer is left, a child that has not exited holds a writing
end of the pipe, so at the loop's end the child has exited; what the parent removes
then nobody needs any more. This is why removing the file before `waitpid` is safe
as long as reads do not fail. Whether they fail or not, the wait that follows reaps
the child if it is reached and does not fail itself.

For the answers, `AnswersInv` says that what the parent received, followed by what
is in the pipe, is the answers to the first `answered` lines of the input; that a
child that exits with success has answered all of them; and that, without a failed
read, the pipe is empty when the loop has ended. So at the one place where the call
returns output, what it received are all answers, and after a failed read the
beginning of them (`FirstPart`), cut inside an answer only where one was still to come.

**The report files.** Two invariants are inductive only with the place in `main`
beside the files: `CompleteInv` says that an incomplete file is open in the current
iteration or of a killed run, `PairedInv` that a run which wrote the address report
and not the comparison is between the two openings or has failed or been killed.
`RunInv` has the numbers that make a file's run one whose status is known. The
interesting step is `OpenJson`, which may fail when the address report is open:
unwinding completes it.

What the files hold is a second invariant on top of it. `RowsInv` says that the rows
are of the supported kernels the inner loop has gone past, `IterationInv` that the
adapters the outer loop has gone past have both reports of this run, whole, and that
those to come have no comparison report of it, `ResolvedInv` that `resolvedAny` is
whether one of the former is useful. That one adapter's files are not another's needs
`LoopInv`: no adapter is queued twice, for `create_adapters` drops repetitions. The
sequences that the code filters are defined by recursion along the sequence
(`TakenUpTo`); `TakenDef` shows that the recursive function exists and `TakenFacts`
what it takes, both by induction over a set of numbers. `NumberLemmas` has that
induction for all modules (`NatSetInduction`, which follows from every non-empty set of
numbers having a least member) and with it that a function defined from its predecessor
exists (`Recursion`).

**The tracer.** `MutexInv` says that a thread that stores holds the mutex.
`ShutdownInv` says that without a tracer no thread is in a callback: the shut-down
waits for them, and no callback begins afterwards. All reads through the pointer
come after it, so nobody moves the vector under the pointer (`PointerInv`) or adds
a record the count does not include (`SnapshotInv`: what is listed are the first
records). The mutex alone would not do, for it is released before the pointer is
used.

That the manifest's files are its own takes `ArtifactInv`: a file that a record or a
callback of this run names holds images of this run only, each of a module with a
kernel of that name, and it is empty only while a thread that has truncated it is about
to write. What a killed run left in it is gone by then, for a callback truncates a file
before it names it.

**The workflow.** What the script promises at its end depends on what it did and in
which order, so the invariant speaks of what is still to be done (`Pending`). Every
step has a rank, and `QueueInv` says that `todo` is in the order of the ranks, with
the commands that were not begun last: what a step may rely on is what is no longer
pending. `CollectOrder` relates the two collectors: who cleans collects for every
selected tool, VTune first. `CollectedInv` says that the samples there are already
are of the binary, that the manifest agrees with it when the last collector is done
(the first one's run of the workload is overwritten by the second's) and that no
execution is left to come in between. `BuiltInv`, `CleanInv` and `ReportInv` do the
same for the binary, the leftovers and the reports; `AttemptInv` says that a retry
is of a collection whose requirements were met. `DirectorySound` is what is true of
any directory, whatever was killed: nothing is whole or fresh that is not there.

One lemma a step shows that `WorkflowInv` is kept. A step that dies empties the queue,
after which only `DirectorySound` says anything (`DieStep`); one that finishes
removes the head of the queue, which changes no other step's place (`FinishStep`).
A command that is replaced by its steps keeps the order because all ranks of steps
are below those of commands (`StartQueue`).

**The matrix.** `ScriptInv` adds the loop: the records are those of the first
`next - 1` entries (`ProgressInv`), and without a failed command there is none that
says FAIL (`FailedInv`). The step that matters is `WriteRecord`: `all` has succeeded,
so `WorkflowInv` gives a whole and fresh report of VTune's samples
(`ReportsAreOfTheSamples`); if it has not, the status is FAIL whatever lies there.

**The line tables.** A look-up in a sorted table finds a row at or below the address
with none nearer (`LookUp`, whichever of several rows at one address the sort puts
last). `UnitsInv` carries this to the end: `PtiInv` says that an answer is such a row
of the first sequence of a unit that holds a relocation to the kernel, `IgaInv` that it
is such a row among all that were kept, and `WalkInv` and `LocationsInv` say the same of
what the walks have gathered so far. A row that is not the end of its sequence has the
end behind it (`SequenceEnd`); if the address were not in the row's kernel the end would
be the nearer row. So with addresses that tell kernels apart PTI answers within the
kernel, and otherwise its relocation names the row's kernel. For iga, a sibling's row
that is nearer than the kernel's own lies at the end of the sibling and the beginning of
the kernel at once, and only an end of a sequence can.

That PTI finds what the reference finds is the opposite direction, and an invariant of
its own. The reference looks up an offset in the `.zebin` and PTI an address in its own
file; `SameRow` shows that with `ZebinSectionAtZero`, which moves all rows of the kernel
by the address of its section, both look-ups are of the same row (`RowBelow`), and the
rest of the proof is about that row. `OfferInv` says that, in a file in order, of the units the walk has passed
exactly the kernel's is selected, so that the parser neither gives up for a second one
nor reads another's. This needs that units do not overlap: where a unit begins
(`Begins`) is a sum that grows with the index, by induction (`BeginsFacts`,
`UnitsApart`), so an offset in a section is of one unit only. All rows of such a unit
are of the one sequence PTI reads (`OneProgram`), so a row the reference sees is in the
table. `ReadInv` says that an answer means the walk over `.debug_line` got to its end;
hence iga read all units, too, has the row PTI found, and what it finds instead is of
the same address, as a sibling's row cannot be nearer (`IgaAgrees`).

**The line programs.** The interpreter moves its registers operation by operation,
each addition taken modulo its width, and the address by whole instructions whose
rest it keeps in `operation`. The meaning counts once: all operations moved since the
address was last set, divided by `maxOps`. `Decodes` says that both are the same
after each prefix of the program. The step for the address (`AddressMoves`) is that
division distributes over a sum if the first rest is carried (`DivAdd`) and that
wrapping early or late is the same (`ModAdd`); both follow from the uniqueness of
quotient and rest. `OperationStep` reduces the eleven opcodes to one description of a
step (`Runs`). The recursive functions of the meaning exist by `Recursion`
(`SumsFacts`, `AddressesDef`, `RowsOfDef`); that of the addresses refers to any earlier
value and is rebuilt from one that carries where its count begins.

`Regular` has the premises without which the code does not find the program's
rows. The bytes of an advance fit in 32 bits: `UpdateAddress` computes them in a
`uint32_t`. And, with several operations an instruction, there is no special opcode (section
6) and the address is set only where an instruction begins, because
`DW_LNE_set_address` leaves the operation register as it is
(`dwarf_state_machine.cpp:276`). With one operation an instruction only the first is
left, and since the parser aborts on operands from `2^28` on, it holds of every
program whose instructions are counted in up to 16 bytes (`OneOperationPrograms`):
of all that GPU compilers emit.

For the look-up, `SameRow` turns the reference's look-up of an offset in the `.zebin`
into one of the address in the adapter's file, by `ZebinSectionAtZero`. `Sorting` is what any order by `std::sort` guarantees, that nothing
is lost included (an injection of the indices reaches all of them). `AnswersInv` says
that the locations are the answers to the addresses passed, each once; `EndInv` that
an end of a sequence is the last row. The mapping PTI finds has the address of the
reference's row (`FoundIsClosest`); were it the end of the sequence, the reference,
which takes the last of the rows at that address, would have taken it, too. It need
not be the reference's row, however, and the attempt to prove `MatchesEveryMappedIp`
showed that its earlier form, without the exception for rows without a file, was
false: `pti_lookup` has the request that violates it. `EndIsAbove` is what DWARF asks
of the end of a sequence, at the first byte past it; without it the sort may bury
the end among other rows. All of `LookupInv` was checked by TLC over `pti_lookup`,
where every program is `Regular` and every sequence ends above its rows.

**Only model-checked.** Out of the prover's reach are liveness and the parts that
need `ENABLED` (`Returns`, the fairness in `KeepsPromise`, `EveryRunEnds`,
`EveryMatrixEnds`). Every invariant and every other property of a passing run is
proved.

## 6. Disagreements found

- **One offset twice** (`duplicate_locations`): an IP list with one offset in two
  forms gives two equal locations, and the second is reported as "not present in
  the reference file" (`src/compare.cpp:263`), where it is present.
- **Braces in names** (`captured_kernels`): `kernel_debug.json` is cut into
  records by a regular expression; the demangled name of a lambda has braces, its
  record is dropped, and the run succeeds without "an address report for every
  kernel captured" (`README.md:91`).
- **Direct use** (`direct_use`): the call `README.md:190-194` shows, with
  `--reference` and without a sample manifest, always fails
  (`src/main.cpp:125-128`).
- **Cleaning between build and run** (`clean_run_keeps_dump`): with
  `--device-code aot --tool unitrace --clean-results build run`, the build writes
  the shader dump below the results directory, `run` removes that directory
  (`dwarf-check.sh:496`) and then refuses to collect, asking for the build that
  was just done (`dwarf-check.sh:441`). `all` cleans first and is not affected.
- **Wide instructions** (`wide_instructions`): a special opcode updates the
  operation register before it computes the address from it
  (`dwarf_state_machine.cpp:96-97`), other opcodes the other way round. With one
  operation an instruction, what the GPU compilers emit, both are the same
  (`OneOperationRowsAreExact`).

Met while reading, and without a run of their own because a property of a passing
run already states the true half, or because the models leave the matter out:

- `WORKLOAD_CORPUS.md:29-31` wants every backend to answer for a kernel from its
  own address range. IGA keeps the rows of all units, drops those of line 0
  (`iga_adapter.cpp:157-160`) and does not look at ends of sequences, so an address
  before the kernel's first row gets the row of a sibling.
- PTI sorts its rows by address alone. Of two rows at one address, of which only the
  second has a file, the first may come last and takes the location of every address
  up to the next row, where the reference has one; `MatchesEveryMappedIp` excepts it.
- A line table of DWARF 5 gives PTI no mapping, silently, and one sibling unit it
  cannot read takes the mapping from every kernel of the file
  (`elf_parser.cpp:477`); `PtiFindsTheReferencesUnit` excepts just these.
- A matrix with `TOOL=unitrace` still judges by VTune's comparison: it records FAIL,
  or what an earlier experiment left, and succeeds. A FAIL record may carry numbers
  of an earlier comparison.
- The gdb adapter takes a read that fails for the end of the output
  (`gdb_intel_adapter.cpp:200`): if the child has written everything and exits with 0,
  the part that was read is returned as all answers. `std::filesystem::remove` throws
  when it fails (204), between `close` and `waitpid`, and the child is never reaped; so
  it is when `waitpid` fails (207). `KeepsPromise`, `InputPresentUntilOpened` and
  `NothingLeaks` except just these.
- `correlate_vtune_report.py:238` looks offsets in a section up as addresses. With a
  `.zebin` whose text sections are not at 0 it finds another row or none, silently.
- `analyze --result-dir X` reads its reference from a fixed path
  (`extract_addr_srcline.py:39`).
- The exit status of the Python program in the process substitution at
  `dwarf-check.sh:532` is lost.

## 7. What is not modelled

Of the modelled parts:

- the text of hexadecimal numbers, CSV, JSON and of printed reports; columns,
  discriminators and inline chains; write errors of report and artifact files
  after they were opened; exhausted memory.
- `KernelAnalysis`: the gdb backend answers all addresses or none. That it succeeds
  with fewer, of an input the disk cut or after a failed read, is in `GdbAddr2Line`
  only.
- `GdbAddr2Line`: a `close` that fails, a read or wait that a signal interrupts and
  that would be worth repeating (it is a failed one).
- `DwarfCheck` and `Experiments`: options that redirect single paths, the names and
  modes the scripts validate, the `test` command, more than one adapter name. A
  profiler that succeeds has run the workload to its successful end, and `rm -rf`
  is one step. A dump that is there satisfies an AOT collection even if it is of an
  older binary (`dwarf-check.sh:439`): after `run` alone no property asks for more,
  after `all` `CollectedTogether` does. Two runs of one binary are the same to the
  model, although they load kernels at different addresses.
- `ElfUnits`: 64-bit DWARF headers, unit types of DWARF 5, files without `.symtab`
  or abbreviations, section names that share a suffix in the string table, file
  names; the C API and accessors nothing calls.
- `KernelTracer`: sizes, handles and base addresses of a record, the device query. A
  record may name the image of another module's kernel of that name;
  `ManifestNamesOwnImages` does not tell the two apart.

Of the rest:

- the reference extraction apart from its look-up, its pairing of units and the
  moments its manifests are written, and the C boundary of the gimli adapter, both
  open in section 2;
- the assembly comparison tools and the plots, which print or draw finished files
  and keep no state; the workloads, numeric code whose line tables are an input.
