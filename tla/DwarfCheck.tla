----------------------------- MODULE DwarfCheck -----------------------------
(***************************************************************************)
(* The workflow script (dwarf-check.sh): invocations that follow each      *)
(* other over the directories of the configurations, each a line of        *)
(* commands that set -e ends at the first failing step, or that is killed. *)
(*                                                                         *)
(* A file or directory is known by the version of the workload's source it *)
(* comes from, by whether it is whole, and by whether this invocation made *)
(* it.  Paths are the default ones; a profiler that succeeds ran the       *)
(* workload to its successful end, as the stubs of the tests do.           *)
(***************************************************************************)
EXTENDS Naturals, Sequences

CONSTANTS
  Configurations,  \* each with directories of its own
  Aot,             \* those with --device-code aot
  Lines,           \* command lines
  MaxAttempts,     \* VTUNE_MAX_ATTEMPTS and UNITRACE_MAX_ATTEMPTS
  MaxVersions,     \* bound on the versions of the workload's source
  MaxInvocations   \* bound on the invocations by hand

ASSUME DwarfCheckAssumption ==
  /\ Aot \subseteq Configurations
  /\ MaxAttempts \in Nat \ {0} /\ MaxVersions \in Nat \ {0}
  /\ MaxInvocations \in Nat

VARIABLES
  version,        \* of the workload's source
  resolver,       \* BUILD_DIR has the resolver
  disk,           \* what each configuration's directories hold
  configuration,  \* of the invocation, with its options and its commands
  tools,
  clean,
  line,
  todo,           \* steps and commands yet to be done
  attempt,        \* of the collection under way; 0 before the first
  exit,
  invocations     \* by hand, so far

given == <<configuration, tools, clean, line, invocations>>
vars == <<version, resolver, disk, given, todo, attempt, exit>>

-----------------------------------------------------------------------------
(* Data.                                                                   *)

Tools == {"vtune", "unitrace"}

Artifact == [of : 0 .. MaxVersions, whole : BOOLEAN, fresh : BOOLEAN]

Absent == [of |-> 0, whole |-> FALSE, fresh |-> FALSE]
Present(a) == a.of # 0
New(of, whole) == [of |-> of, whole |-> whole, fresh |-> TRUE]
Aged(a) == [a EXCEPT !.fresh = FALSE]

\* A dump is whole when it has an .asm file; a manifest is whole when the samples
\* it was made of are, and a report when its manifest is and the kernels it
\* resolved are those sampled.
Directory == [binary : Artifact, json : Artifact, dump : Artifact,
              samples : [Tools -> Artifact], manifest : [Tools -> Artifact],
              report : [Tools -> Artifact]]

Empty == [binary |-> Absent, json |-> Absent, dump |-> Absent,
          samples |-> [t \in Tools |-> Absent], manifest |-> [t \in Tools |-> Absent],
          report |-> [t \in Tools |-> Absent]]

AgedDirectory(d) ==
  [binary |-> Aged(d.binary), json |-> Aged(d.json), dump |-> Aged(d.dump),
   samples |-> [t \in Tools |-> Aged(d.samples[t])],
   manifest |-> [t \in Tools |-> Aged(d.manifest[t])],
   report |-> [t \in Tools |-> Aged(d.report[t])]]

\* tool_selected guards what is done for a tool.
IfSelected(t, steps) == IF t \in tools THEN steps ELSE << >>

Collection ==
  IfSelected("vtune", << <<"collect", "vtune">> >>)
    \o IfSelected("unitrace", << <<"collect", "unitrace">> >>)

Analysis ==
  IfSelected("vtune", << <<"reference", "vtune">>, <<"resolve", "vtune">> >>)
    \o IfSelected("unitrace", << <<"reference", "unitrace">>, <<"resolve", "unitrace">> >>)

\* The steps of a command; adapter run resolves with VTune's manifest.
StepsOf(command) ==
  CASE command = <<"adapter build">>  -> << <<"build resolver">> >>
    [] command = <<"adapter clean">>  -> << <<"remove resolver">> >>
    [] command = <<"adapter run">>    -> << <<"resolve", "vtune">> >>
    [] command = <<"workload build">> -> << <<"build binary">> >>
    [] command = <<"build">>   -> << <<"build binary">>, <<"build resolver">> >>
    [] command = <<"run">>     -> << <<"clean">> >> \o Collection
    [] command = <<"analyze">> -> << <<"require json">> >> \o Analysis
    [] command = <<"all">>     -> << <<"clean">>, <<"build binary">> >> \o Collection \o Analysis

Commands == {<<"adapter build">>, <<"adapter clean">>, <<"adapter run">>, <<"workload build">>,
             <<"build">>, <<"run">>, <<"analyze">>, <<"all">>}

Steps ==
  {<<"clean">>, <<"require json">>, <<"remove resolver">>, <<"build binary">>,
   <<"build resolver">>, <<"execute">>}
    \union {"collect", "reference", "resolve"} \X Tools

\* Of what the command lines are made; any other word ends the script where it stands.
ASSUME LinesAssumption == Lines \subseteq Seq(Commands)

Init ==
  /\ version = 1 /\ resolver = FALSE /\ disk = [c \in Configurations |-> Empty]
  /\ configuration \in Configurations /\ tools = Tools /\ clean = FALSE /\ line = << >>
  /\ todo = << >> /\ attempt = 0 /\ exit = "none" /\ invocations = 0

-----------------------------------------------------------------------------
(* How an invocation proceeds.                                             *)

here == disk[configuration]
aot == configuration \in Aot
Change(d) == disk' = [disk EXCEPT ![configuration] = d]

Running == exit = "running"
Doing(step) == Running /\ todo # << >> /\ Head(todo) = step
Finish == todo' = Tail(todo) /\ attempt' = 0 /\ UNCHANGED exit
First(steps) == todo' = steps \o todo /\ UNCHANGED <<attempt, exit>>
Stop(code) == todo' = << >> /\ attempt' = 0 /\ exit' = code
Die == Stop("failure")

Invoke(c, ts, cleaning, commands) ==
  /\ ~ Running
  /\ configuration' = c /\ tools' = ts /\ clean' = cleaning /\ line' = commands
  /\ todo' = commands /\ attempt' = 0 /\ exit' = "running"
  /\ disk' = [d \in Configurations |-> AgedDirectory(disk[d])]
  /\ UNCHANGED <<version, resolver>>

StartCommand ==
  /\ Running /\ todo # << >> /\ Head(todo) \in Commands
  /\ todo' = StepsOf(Head(todo)) \o Tail(todo)
  /\ UNCHANGED <<version, resolver, disk, given, attempt, exit>>

EndOfLine ==
  /\ Running /\ todo = << >> /\ Stop("success")
  /\ UNCHANGED <<version, resolver, disk, given>>

Kill == Running /\ Stop("killed") /\ UNCHANGED <<version, resolver, disk, given>>

-----------------------------------------------------------------------------
(* The steps.                                                              *)

BuildResolver ==
  /\ Doing(<<"build resolver">>)
  /\ (Finish /\ resolver' = TRUE) \/ (Die /\ resolver' \in {resolver, FALSE})
  /\ UNCHANGED <<version, disk, given>>

RemoveResolver ==
  /\ Doing(<<"remove resolver">>) /\ Finish /\ resolver' = FALSE
  /\ UNCHANGED <<version, disk, given>>

\* With a shader dump to write, everything is built anew.
BuildBinary ==
  LET dumping == aot /\ "unitrace" \in tools
      built == [here EXCEPT !.binary = New(version, TRUE)]
  IN  /\ Doing(<<"build binary">>)
      /\ \/ /\ Finish
            /\ Change(IF dumping THEN [built EXCEPT !.dump = New(version, TRUE)] ELSE built)
         \/ Die /\ UNCHANGED disk
         \/ /\ Die /\ dumping
            /\ \E dumped \in BOOLEAN :
                 Change([here EXCEPT !.binary = Absent, !.dump = New(version, dumped)])
         \/ Die /\ ~ dumping /\ Change([here EXCEPT !.binary = Absent])
      /\ UNCHANGED <<version, resolver, given>>

CleanResults(cleaned) ==
  /\ Doing(<<"clean">>) /\ Finish
  /\ IF clean THEN Change(cleaned) ELSE UNCHANGED disk
  /\ UNCHANGED <<version, resolver, given>>

\* A mutant: only the samples are removed.
CleanSamplesOnly == CleanResults([here EXCEPT !.samples = Empty.samples])

\* The directory of results, which the shader dump is in.
Clean == CleanResults([Empty EXCEPT !.binary = here.binary])

\* The workload puts its manifest down some time before it ends.
JsonOf(outcome) ==
  CASE outcome = "nothing" -> here.json
    [] outcome = "opened"  -> New(here.binary.of, FALSE)
    [] outcome = "written" -> New(here.binary.of, TRUE)

Outcomes == {"nothing", "opened", "written"}

\* Only when no manifest of the workload exists: adapter run by itself.
ExecuteWorkload ==
  /\ Doing(<<"execute">>)
  /\ \/ Present(here.binary) /\ Finish /\ Change([here EXCEPT !.json = JsonOf("written")])
     \/ Die /\ Present(here.binary)
        /\ \E outcome \in Outcomes : Change([here EXCEPT !.json = JsonOf(outcome)])
     \/ Die /\ ~ Present(here.binary) /\ UNCHANGED disk
  /\ UNCHANGED <<version, resolver, given>>

DumpRequired(t) == t = "unitrace" /\ aot /\ ~ here.dump.whole

\* The system may not allow profiling; what an earlier run left stays then.
StartCollect(t) ==
  /\ Doing(<<"collect", t>>) /\ attempt = 0
  /\ \/ Die /\ UNCHANGED disk
     \/ Present(here.binary) /\ DumpRequired(t) /\ Stop("dump required") /\ UNCHANGED disk
     \/ /\ Present(here.binary) /\ ~ DumpRequired(t)
        /\ attempt' = 1 /\ UNCHANGED <<todo, exit>>
        /\ Change(IF t = "unitrace" /\ ~ aot
                  THEN [here EXCEPT !.dump = New(here.binary.of, FALSE)] ELSE here)
  /\ UNCHANGED <<version, resolver, given>>

\* Each attempt removes the last one's samples before it profiles.
Profiled(t, outcome, sampled, whole) ==
  [here EXCEPT !.json = JsonOf(outcome),
               !.samples[t] = IF sampled THEN New(here.binary.of, whole) ELSE Absent,
               !.dump = IF t = "unitrace" /\ ~ aot /\ outcome # "nothing"
                        THEN New(here.binary.of, TRUE) ELSE @]

Collect(t) ==
  /\ Doing(<<"collect", t>>) /\ attempt > 0 /\ Finish
  /\ Change(Profiled(t, "written", TRUE, TRUE))
  /\ UNCHANGED <<version, resolver, given>>

\* Unitrace may also succeed without populated metrics, which counts as a failure.
FailOnce(t, last, again, giveUp) ==
  /\ Doing(<<"collect", t>>) /\ attempt > 0
  /\ \E outcome \in Outcomes, sampled \in BOOLEAN :
       Change(Profiled(t, outcome, sampled, FALSE))
  /\ IF attempt < last
     THEN attempt' = again /\ UNCHANGED <<todo, exit>>
     ELSE giveUp
  /\ UNCHANGED <<version, resolver, given>>

\* A mutant: the last attempt is accepted whatever it was.
FailOrAcceptTheLast(t) == FailOnce(t, MaxAttempts, attempt + 1, Finish)
\* A mutant: the attempts are not counted.
FailUncounted(t) == FailOnce(t, MaxAttempts, attempt, Die)
\* A mutant: there is one attempt more.
FailOnceMore(t) == FailOnce(t, MaxAttempts + 1, attempt + 1, Die)
FailToCollect(t) == FailOnce(t, MaxAttempts, attempt + 1, Die)

\* A mutant: the manifest is not asked for.
RequireJsonUnchecked ==
  /\ Doing(<<"require json">>) /\ Finish
  /\ UNCHANGED <<version, resolver, disk, given>>

RequireJson ==
  /\ Doing(<<"require json">>)
  /\ IF Present(here.json) THEN Finish ELSE Die
  /\ UNCHANGED <<version, resolver, disk, given>>

\* VTune's manifest is made of the samples alone; unitrace's also takes the
\* kernels of the workload's manifest and their dumps.
CanRefer(t) ==
  /\ Present(here.samples[t])
  /\ t = "unitrace" => here.json.whole /\ here.dump.whole

ManifestOf(t) ==
  LET sampled == here.samples[t]
  IN  New(sampled.of, sampled.whole /\ (t = "unitrace" => sampled.of = here.json.of))

\* VTune's manifest is written before the extraction has come to its end.
ReferenceOr(t, failed) ==
  /\ Doing(<<"reference", t>>)
  /\ \/ Finish /\ CanRefer(t) /\ Change([here EXCEPT !.manifest[t] = ManifestOf(t)])
     \/ failed /\ UNCHANGED disk
     \/ /\ failed /\ t = "vtune" /\ CanRefer(t)
        /\ Change([here EXCEPT !.manifest[t] = ManifestOf(t)])
  /\ UNCHANGED <<version, resolver, given>>

\* A mutant: the extraction's failure is passed over.
ReferenceOrGoOn(t) == ReferenceOr(t, Finish)
Reference(t) == ReferenceOr(t, Die)

PrepareResolve(t) ==
  /\ Doing(<<"resolve", t>>)
  /\ \/ ~ resolver /\ First(<< <<"build resolver">> >>)
     \/ resolver /\ ~ Present(here.json) /\ First(<< <<"build binary">>, <<"execute">> >>)
  /\ UNCHANGED <<version, resolver, disk, given>>

ReportOf(t) ==
  New(here.manifest[t].of, here.manifest[t].whole /\ here.manifest[t].of = here.json.of)

\* Without a manifest, or when it lacks a kernel, the resolver fails.  A failing
\* or killed one may leave a report that cannot be read, which counts as none, or
\* a whole one: main.cpp:160 exits with 1 after it has written it when no adapter
\* located or skipped anything.
Resolve(t) ==
  /\ Doing(<<"resolve", t>>) /\ resolver /\ Present(here.json)
  /\ \/ /\ Finish \/ Die
        /\ here.json.whole /\ Present(here.manifest[t])
        /\ Change([here EXCEPT !.report[t] = ReportOf(t)])
     \/ Die /\ UNCHANGED disk
     \/ Die /\ Change([here EXCEPT !.report[t] = Absent])
  /\ UNCHANGED <<version, resolver, given>>

Step ==
  \/ StartCommand \/ EndOfLine
  \/ BuildResolver \/ RemoveResolver \/ BuildBinary \/ Clean \/ ExecuteWorkload \/ RequireJson
  \/ \E t \in Tools : \/ StartCollect(t) \/ Collect(t) \/ FailToCollect(t)
                      \/ Reference(t) \/ PrepareResolve(t) \/ Resolve(t)

\* Between two invocations.
EditSource ==
  /\ ~ Running /\ version < MaxVersions /\ version' = version + 1
  /\ UNCHANGED <<resolver, disk, given, todo, attempt, exit>>

InvokeByHand ==
  /\ invocations < MaxInvocations /\ invocations' = invocations + 1
  /\ \E c \in Configurations, ts \in (SUBSET Tools) \ {{}}, cleaning \in BOOLEAN, l \in Lines :
       Invoke(c, ts, cleaning, l)

User == EditSource \/ InvokeByHand

Next == User \/ Step \/ Kill

Spec == Init /\ [][Next]_vars

-----------------------------------------------------------------------------
(* Properties.                                                             *)

ExitCodes == {"none", "running", "success", "failure", "dump required", "killed"}

\* Every variable holds a value of its type, and no collection makes more than
\* MaxAttempts attempts.
TypeOK ==
  /\ version \in 1 .. MaxVersions /\ resolver \in BOOLEAN
  /\ disk \in [Configurations -> Directory]
  /\ configuration \in Configurations /\ tools \in SUBSET Tools /\ clean \in BOOLEAN
  /\ todo \in Seq(Steps \union Commands) /\ attempt \in 0 .. MaxAttempts /\ exit \in ExitCodes
  /\ invocations \in 0 .. MaxInvocations

Asked(command) == \E i \in DOMAIN line : line[i] = <<command>>
Succeeded(command) == exit = "success" /\ Asked(command)
EndsWith(command) == line # << >> /\ line[Len(line)] = <<command>>

\* A run that succeeded has whole samples of its own from every selected tool, all
\* of one binary, which is also the one the workload's manifest is of; after all,
\* it is the one just built, and so is the dump that unitrace's samples are shown in.
CollectedTogether ==
  Succeeded("run") \/ Succeeded("all") =>
    /\ \A t \in tools : LET sampled == here.samples[t]
                        IN  sampled.whole /\ sampled.fresh /\ sampled.of = here.json.of
    /\ here.json.whole /\ here.json.fresh
    /\ Asked("all") =>
         /\ here.binary.fresh /\ here.binary.of = here.json.of
         /\ "unitrace" \in tools => here.dump.whole /\ here.dump.of = here.json.of

\* An analysis that succeeded reported on every selected tool, from the samples
\* that are there and not from a manifest of an earlier analysis.
ReportsAreOfTheSamples ==
  exit = "success" /\ (EndsWith("analyze") \/ EndsWith("all")) =>
    \A t \in tools :
      LET reported == here.report[t]
      IN  /\ reported.fresh /\ reported.of = here.samples[t].of
          /\ Asked("run") \/ Asked("all") => reported.whole

\* With --clean-results nothing that is older than a successful run remains for a
\* later analysis to take up.
CleanLeavesNothingOld ==
  clean /\ (Succeeded("run") \/ Succeeded("all")) =>
    LET results == {here.json, here.dump}
                     \union UNION {{here.samples[t], here.manifest[t], here.report[t]} : t \in Tools}
    IN  \A a \in results : Present(a) => a.fresh

\* An analysis never starts a collection, nor builds or runs the workload: what it
\* analyses stays as it is (README.md:22).
AnalyzeKeepsItsInputs ==
  [][Running /\ line = << <<"analyze">> >> =>
       \A c \in Configurations :
         /\ disk'[c].binary = disk[c].binary /\ disk'[c].json = disk[c].json
         /\ disk'[c].dump = disk[c].dump /\ disk'[c].samples = disk[c].samples]_vars

\* "AOT unitrace collection requires an IGC shader dump; run 'dwarf-check build'
\* with --tool unitrace first" (dwarf-check.sh:441): once that was done, the
\* collection is not refused for want of a dump.
BuiltForUnitraceCollects == exit = "dump required" => line # << <<"build">>, <<"run">> >>

=============================================================================
