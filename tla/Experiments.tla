----------------------------- MODULE Experiments -----------------------------
(***************************************************************************)
(* The experiment script (run_experiments.sh): it builds the resolver and  *)
(* then invokes the workflow script for every entry of the matrix, whose   *)
(* outcome and reports it puts into a record.  Commands given by hand      *)
(* before it may have left anything in the directories of the entries.     *)
(*                                                                         *)
(* ADAPTERS has one name, and every entry of the matrix its configuration. *)
(***************************************************************************)
EXTENDS DwarfCheck, FiniteSets

CONSTANTS
  Matrix,    \* the configurations in the order of the loops
  MaxBefore  \* bound on the invocations by hand before the script

ASSUME MatrixAssumption ==
  Matrix \in Seq(Configurations) /\ Matrix # << >> /\ MaxBefore \in Nat

VARIABLES
  script,   \* where the script is
  next,     \* the entry of the matrix it has come to
  failed,   \* the entries whose command failed
  records,  \* the lines of EXPERIMENT_RECORDS_FILE
  summary   \* the summary file, none at first

scripting == <<script, next, failed, records, summary>>
allVars == <<vars, scripting>>

Statuses == {"PASS", "SKIP", "FAIL"}

\* What a record keeps of its entry, and of the comparisons it has read.
Entry == [configuration : Configurations, status : Statuses, comparison : [Tools -> Artifact]]

Counts(recorded) ==
  [s \in Statuses |-> Cardinality({i \in DOMAIN recorded : recorded[i].status = s})]

NoSummary == [counts |-> Counts(<< >>), entries |-> << >>, written |-> FALSE]

ScriptInit ==
  /\ Init /\ script = "none" /\ next = 1 /\ failed = << >> /\ records = << >>
  /\ summary = NoSummary

\* The resolver is built once; set -e ends the script when that fails.
StartScript ==
  /\ script = "none" /\ script' = "building" /\ invocations <= MaxBefore
  /\ \E ts \in (SUBSET Tools) \ {{}}, cleaning \in BOOLEAN :
       Invoke(Matrix[1], ts, cleaning, << <<"adapter build">> >>)
  /\ UNCHANGED <<invocations, next, failed, records, summary>>

EndOfBuild ==
  /\ script = "building" /\ ~ Running
  /\ script' = IF exit = "success" THEN "matrix" ELSE "failed"
  /\ UNCHANGED <<vars, next, failed, records, summary>>

\* Tools and cleaning are those the script was given.
StartExperiment ==
  /\ script = "matrix" /\ next <= Len(Matrix) /\ script' = "experiment"
  /\ Invoke(Matrix[next], tools, clean, << <<"all">> >>)
  /\ UNCHANGED <<invocations, next, failed, records, summary>>

\* Reports that cannot be read count as none.  VTune's comparison decides: an entry
\* is skipped when all its kernels were, for want of locations in the reference.
StatusOf(succeeded, skipped) ==
  IF ~ succeeded \/ ~ Present(here.report["vtune"]) THEN "FAIL"
  ELSE IF skipped THEN "SKIP" ELSE "PASS"

WriteRecordCounting(succeeded, failing) ==
  /\ script = "experiment" /\ ~ Running
  /\ \E skipped \in BOOLEAN :
       records' = Append(records, [configuration |-> configuration,
                                   status |-> StatusOf(succeeded, skipped),
                                   comparison |-> here.report])
  /\ failed' = IF failing THEN Append(failed, configuration) ELSE failed
  /\ next' = next + 1 /\ script' = "matrix"
  /\ UNCHANGED <<vars, summary>>

\* A mutant: the commands' exit status is not looked at for the record.
WriteRecordOfAnyExit == WriteRecordCounting(TRUE, exit # "success")
\* A mutant: a failure is recorded and not counted.
WriteRecordUncounted == WriteRecordCounting(exit = "success", FALSE)
WriteRecord == WriteRecordCounting(exit = "success", exit # "success")

\* The status of the script is that of the commands, not that of the records.
WriteSummary ==
  /\ script = "matrix" /\ next > Len(Matrix)
  /\ summary' = [counts |-> Counts(records), entries |-> records, written |-> TRUE]
  /\ script' = IF failed = << >> THEN "succeeded" ELSE "failed"
  /\ UNCHANGED <<vars, next, failed, records>>

ScriptEnded == script \in {"succeeded", "failed"}

\* The script ends at once; the command it was in may go on to its own end.
KillScript ==
  /\ script # "none" /\ ~ ScriptEnded /\ script' = "failed"
  /\ UNCHANGED <<vars, next, failed, records, summary>>

Script == EndOfBuild \/ StartExperiment \/ WriteRecord \/ WriteSummary

ByHand == script = "none" /\ User /\ UNCHANGED scripting

ScriptNext ==
  \/ ByHand \/ StartScript \/ Script \/ KillScript
  \/ (Step \/ Kill) /\ UNCHANGED scripting

ScriptFairness == WF_allVars(Step /\ UNCHANGED scripting) /\ WF_allVars(Script)

ScriptSpec == ScriptInit /\ [][ScriptNext]_allVars /\ ScriptFairness

-----------------------------------------------------------------------------
(* Properties.                                                             *)

\* Every variable holds a value of its type, and the loops stay in the matrix.
ScriptTypeOK ==
  /\ TypeOK
  /\ script \in {"none", "building", "matrix", "experiment", "succeeded", "failed"}
  /\ next \in 1 .. Len(Matrix) + 1
  /\ failed \in Seq(Configurations) /\ records \in Seq(Entry)
  /\ summary.entries \in Seq(Entry)

\* A record says PASS or SKIP only of a comparison its own experiment made, of
\* whole samples and of the kernels they were taken from, whatever was left in the
\* directory before.
PassedMeansCompared ==
  \A i \in DOMAIN records :
    LET record == records[i]
    IN  record.status # "FAIL" /\ "vtune" \in tools =>
          record.comparison["vtune"].fresh /\ record.comparison["vtune"].whole

\* When the script succeeds with VTune among the tools, the summary has an entry
\* for each of the matrix, in its order, and none of them failed.
SuccessMeansMatrixCompared ==
  script = "succeeded" =>
    /\ summary.written
    /\ [i \in DOMAIN summary.entries |-> summary.entries[i].configuration] = Matrix
    /\ "vtune" \in tools => summary.counts["FAIL"] = 0

\* A script that is started comes to its end.
EveryMatrixEnds == script # "none" ~> ScriptEnded

=============================================================================
