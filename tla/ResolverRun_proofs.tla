------------------------- MODULE ResolverRun_proofs -------------------------
(***************************************************************************)
(* Proofs about the report files that consecutive runs of the resolver     *)
(* leave and about what its exit status says of them, for every set of     *)
(* adapters, labels and command lines and any number of runs.              *)
(***************************************************************************)
EXTENDS ResolverRun, NumberLemmas, SequenceTheorems, TLAPS

Codes == {"success", "failure", "killed"}

\* Every run has a number and, once it ended, a status; a file is of a run that
\* was started.
RunInv ==
  /\ run \in Nat /\ (pc # "exited" => run > 0)
  /\ status \in Seq(Codes) /\ Len(status) = IF pc = "exited" THEN run ELSE run - 1
  /\ invocation \in Invocations
  /\ DOMAIN csv = Adapters /\ DOMAIN json = Adapters
  /\ \A a \in Adapters : /\ DOMAIN json[a] = Labels
                         /\ csv[a].run \in 0 .. run /\ csv[a].complete \in BOOLEAN
  /\ \A a \in Adapters, l \in Labels :
       json[a][l].run \in 0 .. run /\ json[a][l].complete \in BOOLEAN

\* How a run ended, which an unended one has not.
EndedAs(r, codes) == r \in 1 .. Len(status) /\ status[r] \in codes

Current(a) == a = queue[adapter]

\* An incomplete file is one that the current iteration has open, or is left of a
\* killed run.
CompleteInv ==
  /\ \A a \in Adapters : ~ csv[a].complete =>
       \/ EndedAs(csv[a].run, {"killed"})
       \/ csv[a].run = run /\ Current(a) /\ pc \in {"open_json", "close_json", "close_csv"}
  /\ \A a \in Adapters, l \in Labels : ~ json[a][l].complete =>
       \/ EndedAs(json[a][l].run, {"killed"})
       \/ json[a][l].run = run /\ Current(a) /\ l = invocation.label /\ pc = "close_json"

\* The address report is opened first, and without a comparison report beside it
\* a run has just opened it or did not succeed.
PairedInv ==
  /\ \A a \in Adapters :
       Current(a) /\ pc \in {"open_json", "close_json", "close_csv"} => csv[a].run = run
  /\ \A a \in Adapters, l \in Labels : json[a][l].run <= csv[a].run
  /\ \A a \in Adapters : csv[a].run > 0 =>
       \/ \E m \in Labels : json[a][m].run = csv[a].run
       \/ csv[a].run = run /\ Current(a) /\ pc = "open_json"
       \/ EndedAs(csv[a].run, {"failure", "killed"})

FilesInv == RunInv /\ CompleteInv /\ PairedInv

-----------------------------------------------------------------------------
(* Steps.                                                                  *)

Early == {"parse", "load_kernels", "load_manifest", "create_adapters", "analyze"}

\* A command line has one of the labels.
LEMMA LabelKnown ==
  ASSUME RunInv
  PROVE  invocation.label \in Labels
  BY ResolverAssumption DEF RunInv, IsInvocation

\* When a run ends, the earlier ones keep their status.
LEMMA ExitExtends ==
  ASSUME RunInv, pc # "exited", NEW code \in Codes, Exit(code)
  PROVE  /\ pc' = "exited" /\ status' \in Seq(Codes) /\ Len(status') = run
         /\ status'[run] = code
         /\ \A r : \A codes : EndedAs(r, codes) => r \in 1 .. Len(status') /\ status'[r] \in codes
<1>1. run \in Nat /\ status \in Seq(Codes) /\ Len(status) = run - 1 /\ status' = Append(status, code)
  BY DEF RunInv, Exit
<1>2. /\ status' \in Seq(Codes) /\ Len(status') = Len(status) + 1
      /\ \A k \in 1 .. Len(status) : status'[k] = status[k]
      /\ status'[Len(status) + 1] = code
  BY <1>1, AppendProperties
<1>3. QED
  BY <1>1, <1>2 DEF Exit, EndedAs

\* A step of a run that writes only files of this run keeps the run's own facts.
LEMMA FilesOfARun ==
  ASSUME RunInv, pc # "exited", UNCHANGED <<run, invocation>>,
         status' \in Seq(Codes), Len(status') = IF pc' = "exited" THEN run ELSE run - 1,
         DOMAIN csv' = Adapters, DOMAIN json' = Adapters,
         \A a \in Adapters : DOMAIN json'[a] = Labels,
         \A a \in Adapters : csv'[a].run \in {run, csv[a].run} /\ csv'[a].complete \in BOOLEAN,
         \A a \in Adapters, l \in Labels :
           json'[a][l].run \in {run, json[a][l].run} /\ json'[a][l].complete \in BOOLEAN
  PROVE  RunInv'
<1>1. \A a \in Adapters : csv[a].run \in 0 .. run
  BY DEF RunInv
<1>2. \A a \in Adapters, l \in Labels : json[a][l].run \in 0 .. run
  BY DEF RunInv
<1>3. run \in Nat /\ run > 0 /\ invocation \in Invocations
  BY DEF RunInv
<1>4. \A a \in Adapters : csv'[a].run \in 0 .. run
  BY <1>1, <1>3
<1>5. \A a \in Adapters, l \in Labels : json'[a][l].run \in 0 .. run
  BY <1>2, <1>3
<1>6. QED
  BY <1>3, <1>4, <1>5 DEF RunInv

\* A step that opens and closes no file, before the files of an iteration.
LEMMA EarlyStep ==
  ASSUME FilesInv, pc \in Early, UNCHANGED <<inputs, files>>,
         \/ pc' \in Early /\ UNCHANGED status
         \/ \E code \in Codes : Exit(code)
  PROVE  FilesInv'
<1> USE DEF Early, inputs, files
<1>1. RunInv /\ pc # "exited"
  BY DEF FilesInv
<1>2. CASE pc' \in Early /\ UNCHANGED status
  <2>1. RunInv'
    BY <1>1, <1>2 DEF RunInv
  <2>2. CompleteInv'
    BY <1>2 DEF FilesInv, CompleteInv, EndedAs, Current
  <2>3. PairedInv'
    BY <1>2 DEF FilesInv, PairedInv, EndedAs, Current
  <2>4. QED
    BY <2>1, <2>2, <2>3 DEF FilesInv
<1>3. CASE \E code \in Codes : Exit(code)
  <2>1. PICK code \in Codes : Exit(code)
    BY <1>3
  <2>2. /\ pc' = "exited" /\ status' \in Seq(Codes) /\ Len(status') = run
        /\ \A r : \A codes : EndedAs(r, codes) => EndedAs(r, codes)'
    BY <1>1, <2>1, ExitExtends DEF EndedAs
  <2>3. RunInv'
    BY <1>1, <2>2 DEF RunInv
  <2>4. CompleteInv'
    BY <2>2 DEF FilesInv, CompleteInv
  <2>5. PairedInv'
    BY <2>2 DEF FilesInv, PairedInv
  <2>6. QED
    BY <2>3, <2>4, <2>5 DEF FilesInv
<1>4. QED
  BY <1>2, <1>3

\* A step keeps the invariant.
LEMMA FilesInvPreserved == FilesInv /\ [Next]_vars => FilesInv'
<1> SUFFICES ASSUME FilesInv, [Next]_vars
             PROVE  FilesInv'
  OBVIOUS
<1>0. RunInv /\ CompleteInv /\ PairedInv /\ invocation.label \in Labels
  BY LabelKnown DEF FilesInv
<1>1. CASE Start
  <2>1. RunInv'
    BY <1>0, <1>1 DEF Start, Goto, RunInv, files
  <2>2. CompleteInv'
    BY <1>0, <1>1 DEF Start, Goto, RunInv, CompleteInv, EndedAs, files
  <2>3. PairedInv'
    BY <1>0, <1>1 DEF Start, Goto, RunInv, PairedInv, EndedAs, files
  <2>4. QED
    BY <2>1, <2>2, <2>3 DEF FilesInv
<1>2. CASE ParseCli
  <2>1. invocation.options \in {"run", "help", "rejected"}
    BY <1>0, ResolverAssumption DEF RunInv, IsInvocation, Options
  <2>2. pc = "parse" /\ UNCHANGED <<inputs, files>>
    BY <1>2 DEF ParseCli
  <2>3. Goto("load_kernels") \/ Exit("success") \/ Exit("failure")
    BY <1>2, <2>1 DEF ParseCli
  <2>4. QED
    BY <2>2, <2>3, EarlyStep DEF Goto, Early, Codes
<1>3. CASE LoadKernels
  BY <1>3, EarlyStep DEF LoadKernels, Goto, Early, Codes
<1>4. CASE LoadManifest
  BY <1>4, EarlyStep DEF LoadManifest, Goto, Early, Codes
<1>5. CASE CreateAdapters
  BY <1>5, EarlyStep DEF CreateAdapters, Goto, Early, Codes
<1>6. CASE AnalyzeKernel
  <2>1. pc = "analyze" /\ UNCHANGED <<inputs, files>>
    BY <1>6 DEF AnalyzeKernel, AnalyzeOr
  <2>2. Exit("failure") \/ Goto("analyze")
    BY <1>6 DEF AnalyzeKernel, AnalyzeOr
  <2>3. QED
    BY <2>1, <2>2, EarlyStep DEF Goto, Early, Codes
<1>7. CASE OpenCsv
  <2>1. CASE Exit("failure") /\ UNCHANGED csv
    BY <1>7, <2>1, EarlyStep DEF OpenCsv, Early, Codes, files
  <2>2. CASE Goto("open_json") /\ csv' = [csv EXCEPT ![queue[adapter]] = Opened]
    <3>1. /\ UNCHANGED <<run, invocation, status, json, queue, adapter>>
          /\ pc = "analyze" /\ pc' = "open_json" /\ DOMAIN csv' = Adapters
          /\ \A a \in Adapters : /\ Current(a) => csv'[a] = Opened
                                 /\ ~ Current(a) => csv'[a] = csv[a]
      BY <1>0, <1>7, <2>2 DEF OpenCsv, Goto, inputs, loaded, loop, RunInv, Current
    <3>2. \A a \in Adapters : Current(a) => csv'[a].run = run /\ csv'[a].complete = FALSE
      BY <3>1 DEF Opened, Current
    <3>3. RunInv'
      <4>1. \A a \in Adapters : csv'[a].run \in {run, csv[a].run} /\ csv'[a].complete \in BOOLEAN
        <5> TAKE a \in Adapters
        <5>1. csv[a].complete \in BOOLEAN
          BY <1>0 DEF RunInv
        <5>2. QED
          BY <3>1, <3>2, <5>1
      <4>2. QED
        BY <1>0, <3>1, <4>1, FilesOfARun DEF RunInv
    <3>4. CompleteInv'
      BY <1>0, <3>1, <3>2 DEF CompleteInv, EndedAs, Current
    <3>5. PairedInv'
      BY <1>0, <3>1, <3>2 DEF RunInv, PairedInv, EndedAs, Current
    <3>6. QED
      BY <3>3, <3>4, <3>5 DEF FilesInv
  <2>3. QED
    BY <1>7, <2>1, <2>2 DEF OpenCsv
<1>8. CASE OpenJson
  <2>1. CASE /\ Exit("failure") /\ UNCHANGED json
             /\ csv' = [csv EXCEPT ![queue[adapter]] = Written(report)]
    <3>1. /\ UNCHANGED <<run, invocation, json, queue, adapter>>
          /\ pc = "open_json" /\ pc' = "exited" /\ DOMAIN csv' = Adapters
          /\ \A a \in Adapters : /\ Current(a) => csv'[a] = Written(report)
                                 /\ ~ Current(a) => csv'[a] = csv[a]
      BY <1>0, <1>8, <2>1 DEF OpenJson, Exit, inputs, loaded, loop, RunInv, Current
    <3>2. \A a \in Adapters : Current(a) => csv'[a].run = run /\ csv'[a].complete = TRUE
      BY <3>1 DEF Written, Current
    <3>3. /\ status' \in Seq(Codes) /\ Len(status') = run /\ status'[run] = "failure"
          /\ \A r : \A codes : EndedAs(r, codes) => EndedAs(r, codes)'
      BY <1>0, <2>1, <3>1, ExitExtends DEF Codes, EndedAs
    <3>4. RunInv'
      <4>1. \A a \in Adapters : csv'[a].run \in {run, csv[a].run} /\ csv'[a].complete \in BOOLEAN
        <5> TAKE a \in Adapters
        <5>1. csv[a].complete \in BOOLEAN
          BY <1>0 DEF RunInv
        <5>2. QED
          BY <3>1, <3>2, <5>1
      <4>2. QED
        BY <1>0, <3>1, <3>3, <4>1, FilesOfARun DEF RunInv
    <3>5. CompleteInv'
      BY <1>0, <3>1, <3>2, <3>3 DEF CompleteInv, Current
    <3>6. PairedInv'
      <4>1. run > 0 => EndedAs(run, {"failure", "killed"})'
        BY <1>0, <3>1, <3>3 DEF RunInv, EndedAs
      <4>2. QED
        BY <1>0, <3>1, <3>2, <3>3, <4>1 DEF RunInv, PairedInv, Current
    <3>7. QED
      BY <3>4, <3>5, <3>6 DEF FilesInv
  <2>2. CASE /\ Goto("close_json") /\ UNCHANGED csv
             /\ json' = [json EXCEPT ![queue[adapter]][invocation.label] = Opened]
    <3>1. /\ UNCHANGED <<run, invocation, status, csv, queue, adapter>>
          /\ pc = "open_json" /\ pc' = "close_json" /\ DOMAIN json' = Adapters
          /\ \A a \in Adapters : DOMAIN json'[a] = Labels
          /\ \A a \in Adapters, l \in Labels :
               IF Current(a) /\ l = invocation.label THEN json'[a][l] = Opened
               ELSE json'[a][l] = json[a][l]
      BY <1>0, <1>8, <2>2 DEF OpenJson, Goto, inputs, loaded, loop, RunInv, Current
    <3>2. \A a \in Adapters, l \in Labels : Current(a) /\ l = invocation.label =>
            json'[a][l].run = run /\ json'[a][l].complete = FALSE
      BY <3>1 DEF Opened, Current
    <3>3. RunInv'
      <4>1. \A a \in Adapters, l \in Labels :
              json'[a][l].run \in {run, json[a][l].run} /\ json'[a][l].complete \in BOOLEAN
        <5> TAKE a \in Adapters, l \in Labels
        <5>1. json[a][l].complete \in BOOLEAN
          BY <1>0 DEF RunInv
        <5>2. QED
          BY <3>1, <3>2, <5>1, ZenonT(60)
      <4>2. QED
        BY <1>0, <3>1, <4>1, FilesOfARun DEF RunInv
    <3>4. CompleteInv'
      BY <1>0, <3>1, <3>2 DEF CompleteInv, EndedAs, Current
    <3>5. PairedInv'
      BY <1>0, <3>1, <3>2 DEF RunInv, PairedInv, EndedAs, Current
    <3>6. QED
      BY <3>3, <3>4, <3>5 DEF FilesInv
  <2>3. QED
    BY <1>8, <2>1, <2>2 DEF OpenJson
<1>9. CASE CloseJson
  <2>1. /\ UNCHANGED <<run, invocation, status, csv, queue, adapter>>
        /\ pc = "close_json" /\ pc' = "close_csv" /\ DOMAIN json' = Adapters
        /\ \A a \in Adapters : DOMAIN json'[a] = Labels
        /\ \A a \in Adapters, l \in Labels :
             IF Current(a) /\ l = invocation.label THEN json'[a][l] = Written(report)
             ELSE json'[a][l] = json[a][l]
    BY <1>0, <1>9 DEF CloseJson, Goto, inputs, loaded, loop, RunInv, Current
  <2>2. Written(report).run = run /\ Written(report).complete = TRUE
    BY DEF Written
  <2>3. RunInv'
    <3>1. \A a \in Adapters, l \in Labels :
            json'[a][l].run \in {run, json[a][l].run} /\ json'[a][l].complete \in BOOLEAN
      <4> TAKE a \in Adapters, l \in Labels
      <4>1. json[a][l].complete \in BOOLEAN
        BY <1>0 DEF RunInv
      <4>2. QED
        BY <2>1, <2>2, <4>1
    <3>2. QED
      BY <1>0, <2>1, <3>1, FilesOfARun DEF RunInv
  <2>4. CompleteInv'
    BY <1>0, <2>1, <2>2 DEF CompleteInv, EndedAs, Current
  <2>5. PairedInv'
    BY <1>0, <2>1, <2>2 DEF RunInv, PairedInv, EndedAs, Current
  <2>6. QED
    BY <2>3, <2>4, <2>5 DEF FilesInv
<1>10. CASE CloseCsv
  <2>1. /\ UNCHANGED <<run, invocation, json, queue>>
        /\ pc = "close_csv" /\ DOMAIN csv' = Adapters
        /\ \A a \in Adapters : csv'[a] = IF Current(a) THEN Written(report) ELSE csv[a]
    BY <1>0, <1>10 DEF CloseCsv, EndIteration, inputs, loaded, RunInv, Current
  <2>2. Written(report).run = run /\ Written(report).complete = TRUE
    BY DEF Written
  <2>3. /\ \A a \in Adapters : csv'[a].run = csv[a].run /\ (csv'[a].complete => csv'[a].complete \in BOOLEAN)
        /\ \A a \in Adapters : csv'[a].complete \in BOOLEAN
        /\ \A a \in Adapters : ~ csv'[a].complete => EndedAs(csv[a].run, {"killed"})
        /\ \A a \in Adapters, l \in Labels : ~ json[a][l].complete => EndedAs(json[a][l].run, {"killed"})
        /\ \A a \in Adapters : csv[a].run > 0 =>
             (\E m \in Labels : json[a][m].run = csv[a].run) \/ EndedAs(csv[a].run, {"failure", "killed"})
    BY <1>0, <2>1, <2>2 DEF RunInv, CompleteInv, PairedInv
  <2>4. CASE pc' = "analyze" /\ UNCHANGED status
    <3>1. RunInv'
      BY <1>0, <2>1, <2>3, <2>4 DEF RunInv
    <3>2. CompleteInv' /\ PairedInv'
      BY <1>0, <2>1, <2>3, <2>4 DEF CompleteInv, PairedInv, EndedAs
    <3>3. QED
      BY <3>1, <3>2 DEF FilesInv
  <2>5. CASE \E code \in Codes : Exit(code)
    <3>1. PICK code \in Codes : Exit(code)
      BY <2>5
    <3>2. /\ pc' = "exited" /\ status' \in Seq(Codes) /\ Len(status') = run
          /\ \A r : \A codes : EndedAs(r, codes) => EndedAs(r, codes)'
      BY <1>0, <2>1, <3>1, ExitExtends DEF EndedAs
    <3>3. RunInv'
      BY <1>0, <2>1, <2>3, <3>2 DEF RunInv
    <3>4. CompleteInv' /\ PairedInv'
      BY <1>0, <2>1, <2>3, <3>2 DEF CompleteInv, PairedInv
    <3>5. QED
      BY <3>3, <3>4 DEF FilesInv
  <2>6. Goto("analyze") \/ Exit("success") \/ Exit("failure")
    BY <1>10 DEF CloseCsv, EndIteration
  <2>7. QED
    BY <2>4, <2>5, <2>6 DEF Goto, Codes
<1>11. CASE Kill
  <2>1. /\ UNCHANGED <<run, invocation, csv, json>> /\ pc # "exited" /\ pc' = "exited"
        /\ Exit("killed")
    BY <1>11 DEF Kill, Exit, inputs, files
  <2>2. /\ status' \in Seq(Codes) /\ Len(status') = run /\ status'[run] = "killed"
        /\ \A r : \A codes : EndedAs(r, codes) => EndedAs(r, codes)'
    BY <1>0, <2>1, ExitExtends DEF Codes, EndedAs
  <2>3. EndedAs(run, {"killed"})' /\ EndedAs(run, {"failure", "killed"})'
    BY <1>0, <2>1, <2>2 DEF RunInv, EndedAs
  <2>4. RunInv'
    BY <1>0, <2>1, <2>2 DEF RunInv
  <2>5. CompleteInv'
    BY <1>0, <2>1, <2>2, <2>3 DEF CompleteInv
  <2>6. PairedInv'
    BY <1>0, <2>1, <2>2, <2>3 DEF PairedInv
  <2>7. QED
    BY <2>4, <2>5, <2>6 DEF FilesInv
<1>12. CASE UNCHANGED vars
  BY <1>12 DEF vars, inputs, loaded, loop, files, FilesInv, RunInv, CompleteInv, PairedInv,
               EndedAs, Current
<1>13. QED
  BY <1>1, <1>2, <1>3, <1>4, <1>5, <1>6, <1>7, <1>8, <1>9, <1>10, <1>11, <1>12 DEF Next

\* The files are as described in every state.
LEMMA FilesInvariant == Spec => []FilesInv
<1>1. Init => FilesInv
  <2> SUFFICES ASSUME Init
               PROVE  FilesInv
    OBVIOUS
  <2>1. status \in Seq(Codes) /\ Len(status) = 0
    BY EmptySeq DEF Init
  <2>2. Absent.run = 0 /\ Absent.complete = TRUE
    BY DEF Absent
  <2>3. /\ DOMAIN csv = Adapters /\ \A a \in Adapters : csv[a].run = 0 /\ csv[a].complete = TRUE
        /\ DOMAIN json = Adapters /\ \A a \in Adapters : DOMAIN json[a] = Labels
        /\ \A a \in Adapters, l \in Labels : json[a][l].run = 0 /\ json[a][l].complete = TRUE
    BY <2>2 DEF Init
  <2>4. run = 0 /\ pc = "exited" /\ invocation \in Invocations
    BY DEF Init
  <2>5. RunInv
    <3>1. 0 \in 0 .. run
      BY <2>4
    <3>2. \A a \in Adapters : csv[a].run \in 0 .. run /\ csv[a].complete \in BOOLEAN
      BY <2>3, <3>1
    <3>3. \A a \in Adapters, l \in Labels :
            json[a][l].run \in 0 .. run /\ json[a][l].complete \in BOOLEAN
      BY <2>3, <3>1
    <3>4. QED
      BY <2>1, <2>3, <2>4, <3>2, <3>3 DEF RunInv
  <2>6. CompleteInv /\ PairedInv
    BY <2>3, <2>4 DEF CompleteInv, PairedInv
  <2>7. QED
    BY <2>5, <2>6 DEF FilesInv
<1>2. FilesInv /\ [Next]_vars => FilesInv'
  BY FilesInvPreserved
<1>3. QED
  BY <1>1, <1>2, PTL DEF Spec

-----------------------------------------------------------------------------
(* Theorems: whole files, in pairs.                                        *)

\* Between runs, a report file that is cut short is left of a killed run: a run
\* that fails, wherever it does, leaves whole files.
THEOREM OnlyKillsLeavePartialFiles == Spec => []PartialOnlyWhenKilled
<1>1. FilesInv => PartialOnlyWhenKilled
  <2> SUFFICES ASSUME FilesInv, pc = "exited", NEW a \in Adapters,
                      NEW file \in {csv[a]} \union Range(json[a]), ~ file.complete
               PROVE  status[file.run] = "killed"
    BY DEF PartialOnlyWhenKilled
  <2>1. CASE file = csv[a]
    BY <2>1 DEF FilesInv, CompleteInv, EndedAs
  <2>2. CASE file \in Range(json[a])
    <3>1. PICK l \in Labels : file = json[a][l]
      BY <2>2 DEF Range, FilesInv, RunInv
    <3>2. QED
      BY <3>1 DEF FilesInv, CompleteInv, EndedAs
  <2>3. QED
    BY <2>1, <2>2
<1>2. QED
  BY <1>1, FilesInvariant, PTL

\* A comparison report is never newer than the address report beside it, and is
\* older after a successful run only if that compared under another label.
THEOREM ReportsStayPaired == Spec => []ReportsPaired
<1>1. FilesInv => ReportsPaired
  <2> SUFFICES ASSUME FilesInv, NEW a \in Adapters, NEW l \in Labels
               PROVE  /\ json[a][l].run <= csv[a].run
                      /\ pc = "exited" /\ json[a][l].run < csv[a].run
                           /\ status[csv[a].run] = "success"
                         => \E m \in Labels \ {l} : json[a][m].run = csv[a].run
    BY DEF ReportsPaired
  <2>1. json[a][l].run <= csv[a].run
    BY DEF FilesInv, PairedInv
  <2>2. ASSUME pc = "exited", json[a][l].run < csv[a].run, status[csv[a].run] = "success"
        PROVE  \E m \in Labels \ {l} : json[a][m].run = csv[a].run
    <3>1. json[a][l].run \in Nat /\ csv[a].run \in Nat /\ csv[a].run > 0
      BY <2>2 DEF FilesInv, RunInv
    <3>2. PICK m \in Labels : json[a][m].run = csv[a].run
      BY <2>2, <3>1 DEF FilesInv, PairedInv, EndedAs
    <3>3. QED
      BY <2>2, <3>1, <3>2
  <2>3. QED
    BY <2>1, <2>2
<1>2. QED
  BY <1>1, FilesInvariant, PTL

-----------------------------------------------------------------------------
(* Sequences of which some elements are taken.                             *)

\* TakenUpTo is the function its definition describes, and its values are
\* sequences.
LEMMA TakenDef ==
  ASSUME NEW T, NEW s \in Seq(T), NEW indices
  PROVE  LET t == TakenUpTo(s, indices)
         IN  /\ t[0] = << >> /\ \A n \in 0 .. Len(s) : t[n] \in Seq(T)
             /\ \A n \in 1 .. Len(s) :
                  t[n] = IF n \in indices THEN Append(t[n - 1], s[n]) ELSE t[n - 1]
<1> DEFINE N == Len(s)
           V == Seq(T)
           G == [p \in (1 .. N) \X V |-> IF p[1] \in indices THEN Append(p[2], s[p[1]]) ELSE p[2]]
           IsTaken(t) == t = [n \in 0 .. N |->
                               IF n = 0 THEN << >>
                               ELSE IF n \in indices THEN Append(t[n - 1], s[n]) ELSE t[n - 1]]
           t == TakenUpTo(s, indices)
<1>1. N \in Nat /\ << >> \in V /\ G \in [(1 .. N) \X V -> V]
  OBVIOUS
<1>2. PICK f \in [0 .. N -> V] : f[0] = << >> /\ \A n \in 1 .. N : f[n] = G[<<n, f[n - 1]>>]
  <2> HIDE DEF N, V, G
  <2>1. \E f \in [0 .. N -> V] : Recurs(f, N, << >>, G)
    BY <1>1, Recursion
  <2>2. QED
    BY <2>1 DEF Recurs
<1>3. ASSUME NEW n \in 1 .. N
      PROVE  f[n] = IF n \in indices THEN Append(f[n - 1], s[n]) ELSE f[n - 1]
  <2>1. n - 1 \in 0 .. N /\ <<n, f[n - 1]>> \in (1 .. N) \X V
    <3> HIDE DEF N, V, G
    <3>1. n - 1 \in 0 .. N
      BY <1>1
    <3>2. f[n - 1] \in V
      BY <1>2, <3>1
    <3>3. QED
      BY <3>1, <3>2
  <2>2. G[<<n, f[n - 1]>>] = IF n \in indices THEN Append(f[n - 1], s[n]) ELSE f[n - 1]
    BY <2>1
  <2> HIDE DEF G, N, V
  <2>3. QED
    BY <1>2, <2>2
<1>4. IsTaken(f)
  <2>1. \A n \in 0 .. N : n = 0 \/ n \in 1 .. N
    BY <1>1
  <2> HIDE DEF G, V, N
  <2>2. \A n \in 0 .. N : f[n] = IF n = 0 THEN << >>
                               ELSE IF n \in indices THEN Append(f[n - 1], s[n]) ELSE f[n - 1]
    BY <1>2, <1>3, <2>1
  <2>3. QED
    BY <1>2, <2>2
<1>5. t = CHOOSE taken : IsTaken(taken)
  BY DEF TakenUpTo
<1>6. IsTaken(t)
  <2> HIDE DEF IsTaken
  <2>1. QED
    BY <1>4, <1>5
<1>7. t[0] = << >> /\ \A n \in 1 .. N : t[n] = IF n \in indices THEN Append(t[n - 1], s[n]) ELSE t[n - 1]
  <2> HIDE DEF t, N
  <2>1. \A n \in 0 .. N : t[n] = IF n = 0 THEN << >>
                               ELSE IF n \in indices THEN Append(t[n - 1], s[n]) ELSE t[n - 1]
    BY <1>6
  <2>2. QED
    BY <1>1, <2>1
<1> HIDE DEF t
<1>8. \A n \in 0 .. N : t[n] \in V
  <2> DEFINE S == {n \in Nat : n <= N => t[n] \in V}
  <2>1. 0 \in S
    BY <1>1, <1>7
  <2>2. ASSUME NEW n \in Nat, n \in S
        PROVE  n + 1 \in S
    <3>1. SUFFICES ASSUME n + 1 <= N PROVE t[n + 1] \in V
      OBVIOUS
    <3>2. t[n] \in V /\ n + 1 \in 1 .. N /\ s[n + 1] \in T
      BY <1>1, <2>2, <3>1
    <3>3. t[n + 1] = IF n + 1 \in indices THEN Append(t[n], s[n + 1]) ELSE t[n]
      BY <1>7, <3>2
    <3>4. QED
      BY <3>2, <3>3
  <2> HIDE DEF S
  <2>3. Nat \subseteq S
    BY <2>1, <2>2, NatSetInduction
  <2>4. QED
    BY <2>3 DEF S
<1>9. QED
  BY <1>7, <1>8 DEF t


\* The elements taken are the sequence's, from the indices gone past, and of
\* different elements none is taken twice.
LEMMA TakenFacts ==
  ASSUME NEW T, NEW s \in Seq(T), NEW indices, NEW n \in 0 .. Len(s)
  PROVE  LET t == TakenUpTo(s, indices)[n]
         IN  /\ \A k \in DOMAIN t : \E m \in 1 .. n : m \in indices /\ t[k] = s[m]
             /\ (\A l, m \in indices \cap DOMAIN s : s[l] = s[m] => l = m) => IsInjective(t)
<1> DEFINE t == TakenUpTo(s, indices)
           From(i)   == \A k \in DOMAIN t[i] : \E m \in 1 .. i : m \in indices /\ t[i][k] = s[m]
           Different == \A l, m \in indices \cap DOMAIN s : s[l] = s[m] => l = m
           S         == {i \in Nat : i <= Len(s) => From(i) /\ (Different => IsInjective(t[i]))}
<1>1. /\ t[0] = << >> /\ \A i \in 0 .. Len(s) : t[i] \in Seq(T)
      /\ \A i \in 1 .. Len(s) :
           t[i] = IF i \in indices THEN Append(t[i - 1], s[i]) ELSE t[i - 1]
  BY TakenDef
<1> HIDE DEF t
<1>2. 0 \in S
  BY <1>1 DEF IsInjective
<1>3. ASSUME NEW i \in Nat, i \in S
      PROVE  i + 1 \in S
  <2>1. SUFFICES ASSUME i + 1 <= Len(s)
                 PROVE  From(i + 1) /\ (Different => IsInjective(t[i + 1]))
    OBVIOUS
  <2>2. From(i) /\ (Different => IsInjective(t[i]))
    BY <1>3, <2>1
  <2>3. /\ i + 1 \in 1 .. Len(s) /\ t[i] \in Seq(T) /\ s[i + 1] \in T
        /\ t[i + 1] = IF i + 1 \in indices THEN Append(t[i], s[i + 1]) ELSE t[i]
    BY <1>1, <2>1
  <2>4. CASE i + 1 \notin indices
    <3>1. t[i + 1] = t[i]
      BY <2>3, <2>4
    <3>2. 1 .. i \subseteq 1 .. i + 1
      OBVIOUS
    <3>3. From(i + 1)
      BY <2>2, <3>1, <3>2
    <3>4. QED
      BY <2>2, <3>1, <3>3
  <2>5. CASE i + 1 \in indices
    <3>1. /\ DOMAIN t[i + 1] = 1 .. Len(t[i]) + 1 /\ t[i + 1][Len(t[i]) + 1] = s[i + 1]
          /\ DOMAIN t[i] = 1 .. Len(t[i]) /\ Len(t[i]) \in Nat
          /\ \A k \in DOMAIN t[i] : t[i + 1][k] = t[i][k]
      BY <2>3, <2>5, AppendProperties
    <3>2. \A k \in DOMAIN t[i + 1] : k \in DOMAIN t[i] \/ k = Len(t[i]) + 1
      BY <3>1
    <3>3. From(i + 1)
      <4> TAKE k \in DOMAIN t[i + 1]
      <4>1. CASE k \in DOMAIN t[i]
        <5>1. PICK m \in 1 .. i : m \in indices /\ t[i][k] = s[m]
          BY <2>2, <4>1
        <5>2. m \in 1 .. i + 1
          OBVIOUS
        <5>3. QED
          BY <3>1, <4>1, <5>1, <5>2
      <4>2. CASE k = Len(t[i]) + 1
        <5>1. i + 1 \in 1 .. i + 1
          OBVIOUS
        <5>2. QED
          BY <2>5, <3>1, <4>2, <5>1
      <4>3. QED
        BY <3>2, <4>1, <4>2
    <3>4. ASSUME Different
          PROVE  IsInjective(t[i + 1])
      <4>1. \A k \in DOMAIN t[i] : t[i][k] # s[i + 1]
        <5> SUFFICES ASSUME NEW k \in DOMAIN t[i], t[i][k] = s[i + 1]
                     PROVE  FALSE
          OBVIOUS
        <5>1. PICK m \in 1 .. i : m \in indices /\ t[i][k] = s[m]
          BY <2>2
        <5>2. m \in DOMAIN s /\ i + 1 \in DOMAIN s /\ m # i + 1
          BY <2>1
        <5>3. QED
          BY <2>5, <3>4, <5>1, <5>2
      <4>2. IsInjective(t[i])
        BY <2>2, <3>4
      <4>3. QED
        BY <3>1, <3>2, <4>1, <4>2 DEF IsInjective
    <3>5. QED
      BY <3>3, <3>4
  <2>6. QED
    BY <2>4, <2>5
<1> HIDE DEF S
<1>4. Nat \subseteq S
  BY <1>2, <1>3, NatSetInduction
<1>5. n \in S /\ n <= Len(s)
  BY <1>4
<1>6. QED
  BY <1>5 DEF S, t

\* What the loaders and create_adapters make of their inputs.
LEMMA LoadedType ==
  ASSUME NEW T, NEW records \in Seq(T)
  PROVE  Loaded(records) \in Seq(T)
<1>1. Len(records) \in 0 .. Len(records)
  OBVIOUS
<1>2. QED
  BY <1>1, TakenDef DEF Loaded, Taken

LEMMA SelectedAdaptersType ==
  ASSUME NEW selection \in Seq(STRING), SelectionAccepted(selection)
  PROVE  SelectedAdapters(selection) \in Seq(Adapters) /\ IsInjective(SelectedAdapters(selection))
<1>1. CASE selection = <<"all">>
  <2>1. Compiled \in Seq(STRING) /\ IsInjective(Compiled)
    BY ResolverAssumption
  <2>2. Compiled \in Seq(Adapters)
    BY <2>1 DEF Adapters, Range
  <2>3. QED
    BY <1>1, <2>1, <2>2 DEF SelectedAdapters
<1>2. CASE selection # <<"all">>
  <2> DEFINE first == {n \in DOMAIN selection : \A m \in 1 .. n - 1 : selection[m] # selection[n]}
  <2>1. Range(selection) \subseteq Adapters
    BY <1>2 DEF SelectionAccepted
  <2>2. selection \in Seq(Adapters)
    BY <2>1 DEF Range
  <2>3. Len(selection) \in 0 .. Len(selection)
    OBVIOUS
  <2>4. \A l, m \in first \cap DOMAIN selection : selection[l] = selection[m] => l = m
    <3> SUFFICES ASSUME NEW l \in first, NEW m \in first, selection[l] = selection[m], l # m
                 PROVE  FALSE
      OBVIOUS
    <3>1. l \in Nat /\ m \in Nat /\ l >= 1 /\ m >= 1
      OBVIOUS
    <3>2. l < m \/ m < l
      BY <3>1
    <3>3. QED
      BY <3>1, <3>2
  <2> HIDE DEF first
  <2>5. /\ Taken(selection, first) \in Seq(Adapters) /\ IsInjective(Taken(selection, first))
    BY <2>2, <2>3, <2>4, TakenDef, TakenFacts DEF Taken
  <2>6. QED
    BY <1>2, <2>5 DEF SelectedAdapters, WithoutRepetition, first
<1>3. QED
  BY <1>1, <1>2

-----------------------------------------------------------------------------
(* What the reports hold and what the exit status says.                    *)

Preparing == {"parse", "load_kernels", "load_manifest", "create_adapters"}
Writing == {"open_json", "close_json", "close_csv"}

\* The reports of an adapter when its iteration is over.
Reported(a) ==
  /\ csv[a].run = run /\ csv[a].complete /\ csv[a].kernels = ReportedKernels
  /\ json[a][invocation.label].run = run /\ json[a][invocation.label].complete
  /\ json[a][invocation.label].kernels = ReportedKernels

\* The loops begin afresh, and are over an adapter once each and every kernel.
LoopInv ==
  /\ IsInjective(queue)
  /\ pc \in Preparing =>
       queue = << >> /\ adapter = 1 /\ kernel = 1 /\ report = << >> /\ resolvedAny = FALSE
  /\ pc \in Writing => kernel = Len(kernels) + 1

\* The rows are of the supported kernels that the kernel loop has gone past.
RowsInv ==
  LET seen == TakenUpTo(kernels, Supported)[kernel - 1]
  IN  /\ DOMAIN report = DOMAIN seen
      /\ \A n \in DOMAIN report : report[n].kernel = seen[n].name

\* The iterations that are over left their reports, those to come none yet.
IterationInv ==
  /\ pc \in Preparing => \A a \in Adapters : json[a][invocation.label].run < run
  /\ \A n \in DOMAIN queue : n < adapter => Reported(queue[n])
  /\ \A n \in DOMAIN queue :
       \/ n > adapter
       \/ n = adapter /\ (pc \in {"analyze", "open_json"} \/ Ended("failure"))
       => json[queue[n]][invocation.label].run < run
  /\ pc = "close_csv" =>
       LET file == json[queue[adapter]][invocation.label]
       IN  file.run = run /\ file.complete /\ file.kernels = ReportedKernels

\* The exit status tells whether an iteration that is over resolved anything.
ResolvedInv ==
  /\ resolvedAny <=> \E n \in DOMAIN queue : n < adapter /\ csv[queue[n]].useful
  /\ Ended("success") /\ Resolving => adapter = Len(queue) + 1 /\ resolvedAny
  /\ Ended("failure") /\ adapter = Len(queue) + 1 /\ queue # << >> => ~ resolvedAny

\* The reports as a success promises them, and as they are on the way to it.
ReportsInv == TypeOK /\ LoopInv /\ RowsInv /\ IterationInv /\ ResolvedInv

\* What main opens and writes are files.
LEMMA FileTypes ==
  ASSUME TypeOK
  PROVE  /\ Opened \in File /\ Written(report) \in File
         /\ Absent \in File
<1>1. run \in 0 .. MaxRuns /\ report \in Seq(Row) /\ MaxRuns \in Nat
  BY ResolverAssumption DEF TypeOK
<1>2. << >> \in Seq(STRING) /\ 0 \in 0 .. MaxRuns
  BY <1>1
<1>3. [n \in DOMAIN report |-> report[n].kernel] \in Seq(STRING)
  <2>1. \A n \in DOMAIN report : report[n].kernel \in STRING
    <3> TAKE n \in DOMAIN report
    <3>1. report[n] \in Row
      BY <1>1
    <3>2. QED
      BY <3>1 DEF Row
  <2>2. DOMAIN report = 1 .. Len(report) /\ Len(report) \in Nat
    BY <1>1
  <2>3. QED
    BY <2>1, <2>2
<1>4. Useful(report) \in BOOLEAN
  BY DEF Useful
<1>5. QED
  BY <1>1, <1>2, <1>3, <1>4 DEF Opened, Written, Absent, File

\* A step keeps the files' type.
LEMMA FilesKeepType ==
  ASSUME TypeOK, [Next]_vars
  PROVE  csv' \in [Adapters -> File] /\ json' \in [Adapters -> [Labels -> File]]
<1>1. /\ csv \in [Adapters -> File] /\ json \in [Adapters -> [Labels -> File]]
      /\ Opened \in File /\ Written(report) \in File
  BY FileTypes DEF TypeOK
<1>2. \A f \in {Opened, Written(report)} :
        /\ [csv EXCEPT ![queue[adapter]] = f] \in [Adapters -> File]
        /\ [json EXCEPT ![queue[adapter]][invocation.label] = f] \in [Adapters -> [Labels -> File]]
  <2> TAKE f \in {Opened, Written(report)}
  <2>1. f \in File
    BY <1>1
  <2> HIDE DEF File
  <2>2. [csv EXCEPT ![queue[adapter]] = f] \in [Adapters -> File]
    BY <1>1, <2>1
  <2>3. [json EXCEPT ![queue[adapter]][invocation.label] = f] \in [Adapters -> [Labels -> File]]
    BY <1>1, <2>1
  <2>4. QED
    BY <2>2, <2>3
<1>3. CASE UNCHANGED files
  BY <1>1, <1>3 DEF files
<1>4. CASE OpenCsv
  BY <1>1, <1>2, <1>4 DEF OpenCsv
<1>5. CASE OpenJson
  BY <1>1, <1>2, <1>5 DEF OpenJson
<1>6. CASE CloseJson
  BY <1>1, <1>2, <1>6 DEF CloseJson
<1>7. CASE CloseCsv
  BY <1>1, <1>2, <1>7 DEF CloseCsv, EndIteration
<1>8. QED
  BY <1>3, <1>4, <1>5, <1>6, <1>7
     DEF Next, vars, Start, ParseCli, LoadKernels, LoadManifest, CreateAdapters, AnalyzeKernel,
         AnalyzeOr, Kill

\* A step keeps the type, and the loops as they are described.
LEMMA ShapePreserved ==
  ASSUME TypeOK, LoopInv, RunInv, [Next]_vars
  PROVE  TypeOK' /\ LoopInv'
<1> USE DEF Preparing, Writing
<1>1. /\ csv' \in [Adapters -> File] /\ json' \in [Adapters -> [Labels -> File]]
  BY FilesKeepType
<1>2. /\ run \in 0 .. MaxRuns /\ invocation \in Invocations /\ IsInvocation(invocation)
      /\ status \in Seq(Codes) /\ kernels \in Seq(KernelRecord) /\ queue \in Seq(Adapters)
      /\ report \in Seq(Row) /\ MaxRuns \in Nat
  BY ResolverAssumption DEF TypeOK, RunInv
<1> DEFINE Rest == /\ run \in 0 .. MaxRuns /\ invocation \in Invocations /\ pc \in Places
                   /\ kernels \in Seq(KernelRecord) /\ queue \in Seq(Adapters)
                   /\ adapter \in 1 .. Len(queue) + 1 /\ kernel \in 1 .. Len(kernels) + 1
                   /\ (pc \in {"analyze", "open_json", "close_json", "close_csv"} =>
                         adapter <= Len(queue))
                   /\ report \in Seq(Row) /\ resolvedAny \in BOOLEAN
                   /\ status \in Seq(Codes)
<1>3. Rest /\ LoopInv
  BY DEF TypeOK, Codes
<1>4. SUFFICES Rest' /\ LoopInv'
  BY <1>1 DEF TypeOK, Codes
<1>5. \A code \in Codes : Exit(code) => status' \in Seq(Codes)
  BY <1>2, AppendProperties DEF Exit
<1>6. << >> \in Seq(KernelRecord) /\ << >> \in Seq(Adapters) /\ << >> \in Seq(Row) /\ Len(<< >>) = 0
      /\ IsInjective(<< >>)
  BY DEF IsInjective
<1> DEFINE Places4 == {"analyze", "open_json", "close_json", "close_csv"}
\* A step that goes on within an iteration, or ends the run.
<1>7. ASSUME UNCHANGED <<run, invocation, kernels, queue, adapter, resolvedAny>>,
             pc \in {"analyze", "open_json", "close_json", "close_csv"},
             kernel' \in 1 .. Len(kernels) + 1, report' \in Seq(Row),
             (\/ pc' \in {"analyze", "open_json", "close_json", "close_csv"} /\ UNCHANGED status
              \/ \E code \in Codes : Exit(code)),
             pc' \in Writing => kernel' = Len(kernels) + 1
      PROVE  Rest' /\ LoopInv'
  <2>1. status' \in Seq(Codes) /\ pc' \in Places /\ pc' \notin Preparing
        /\ (pc' \in {"analyze", "open_json", "close_json", "close_csv"} => adapter <= Len(queue))
    BY <1>3, <1>5, <1>7 DEF Places, Exit
  <2>2. Rest'
    BY <1>3, <1>7, <2>1
  <2>3. LoopInv'
    BY <1>3, <1>7, <2>1 DEF LoopInv
  <2>4. QED
    BY <2>2, <2>3
\* A step of the preparations that loads nothing.
<1>8. ASSUME UNCHANGED <<inputs, loaded, loop>>, pc \in Preparing,
             (\/ pc' \in Preparing /\ UNCHANGED status
              \/ \E code \in Codes : Exit(code))
      PROVE  Rest' /\ LoopInv'
  <2>1. status' \in Seq(Codes) /\ pc' \in Places /\ pc' \notin Places4 /\ pc' \notin Writing
    BY <1>3, <1>5, <1>8 DEF Places, Exit
  <2>2. QED
    BY <1>3, <1>8, <2>1 DEF LoopInv, inputs, loaded, loop
<1>9. CASE Start
  <2>1. run' \in 0 .. MaxRuns
    BY <1>2, <1>9 DEF Start
  <2>2. /\ invocation' \in Invocations /\ pc' = "parse" /\ UNCHANGED status
        /\ kernels' = << >> /\ queue' = << >> /\ adapter' = 1 /\ kernel' = 1
        /\ report' = << >> /\ resolvedAny' = FALSE
    BY <1>9 DEF Start, Goto
  <2>3. Rest'
    <3>1. Len(queue') + 1 = 1 /\ Len(kernels') + 1 = 1 /\ 1 \in 1 .. 1
      BY <1>6, <2>2
    <3>2. adapter' \in 1 .. Len(queue') + 1 /\ kernel' \in 1 .. Len(kernels') + 1
      BY <2>2, <3>1
    <3>3. /\ kernels' \in Seq(KernelRecord) /\ queue' \in Seq(Adapters) /\ report' \in Seq(Row)
          /\ status' \in Seq(Codes) /\ resolvedAny' \in BOOLEAN
      BY <1>2, <1>6, <2>2
    <3>4. /\ pc' \in Places
          /\ pc' \notin {"analyze", "open_json", "close_json", "close_csv"}
      BY <2>2 DEF Places
    <3>5. QED
      BY <2>1, <2>2, <3>2, <3>3, <3>4
  <2>4. LoopInv'
    BY <1>6, <2>2 DEF LoopInv
  <2>5. QED
    BY <2>3, <2>4
<1>10. CASE ParseCli
  <2>1. invocation.options \in {"run", "help", "rejected"}
    BY <1>2 DEF IsInvocation, Options
  <2>2. UNCHANGED <<inputs, loaded, loop>> /\ pc = "parse"
    BY <1>10 DEF ParseCli
  <2>3. Goto("load_kernels") \/ Exit("success") \/ Exit("failure")
    BY <1>10, <2>1 DEF ParseCli
  <2>4. QED
    BY <1>8, <2>2, <2>3 DEF Goto, Codes
<1>11. CASE LoadKernels
  <2>1. CASE Exit("failure") /\ UNCHANGED kernels
    BY <1>8, <1>11, <2>1 DEF LoadKernels, loaded, Codes
  <2>2. CASE kernels' = Loaded(invocation.kernels) /\ Goto("load_manifest")
    <3>1. kernels' \in Seq(KernelRecord)
      BY <1>2, <2>2, LoadedType DEF IsInvocation
    <3>2. /\ pc = "load_kernels" /\ pc' = "load_manifest" /\ kernel = 1
          /\ UNCHANGED <<run, invocation, queue, adapter, kernel, report, resolvedAny, status>>
      BY <1>3, <1>11, <2>2 DEF LoadKernels, Goto, LoopInv, inputs, loop
    <3>3. kernel' \in 1 .. Len(kernels') + 1
      BY <3>1, <3>2
    <3>4. QED
      BY <1>3, <3>1, <3>2, <3>3 DEF Places, LoopInv
  <2>3. QED
    BY <1>11, <2>1, <2>2 DEF LoadKernels
<1>12. CASE LoadManifest
  BY <1>8, <1>12 DEF LoadManifest, Goto, Codes
<1>13. CASE CreateAdapters
  <2>1. CASE Exit("failure") /\ UNCHANGED queue
    BY <1>8, <1>13, <2>1 DEF CreateAdapters, loaded, Codes
  <2>2. CASE /\ SelectionAccepted(invocation.selection)
             /\ SelectedAdapters(invocation.selection) # << >>
             /\ queue' = SelectedAdapters(invocation.selection) /\ Goto("analyze")
    <3>1. queue' \in Seq(Adapters) /\ IsInjective(queue') /\ queue' # << >>
      BY <1>2, <2>2, SelectedAdaptersType DEF IsInvocation
    <3>2. /\ pc = "create_adapters" /\ pc' = "analyze" /\ adapter = 1
          /\ UNCHANGED <<run, invocation, kernels, adapter, kernel, report, resolvedAny, status>>
      BY <1>3, <1>13, <2>2 DEF CreateAdapters, Goto, LoopInv, inputs, loop
    <3>3. adapter' \in 1 .. Len(queue') + 1 /\ adapter' <= Len(queue')
      BY <3>1, <3>2
    <3>4. QED
      BY <1>3, <3>1, <3>2, <3>3 DEF Places, LoopInv
  <2>3. QED
    BY <1>13, <2>1, <2>2 DEF CreateAdapters
<1>14. CASE AnalyzeKernel
  <2>1. /\ pc = "analyze" /\ kernel <= Len(kernels)
        /\ UNCHANGED <<run, invocation, kernels, queue, adapter, resolvedAny>>
    BY <1>14 DEF AnalyzeKernel, AnalyzeOr, inputs, loaded
  <2>2. CASE Exit("failure") /\ UNCHANGED <<kernel, report>>
    BY <1>3, <1>7, <2>1, <2>2 DEF Exit, Codes
  <2>3. CASE kernel' = kernel + 1 /\ Goto("analyze") /\ report' \in Seq(Row)
    <3>1. kernel' \in 1 .. Len(kernels) + 1
      BY <1>3, <2>1, <2>3
    <3>2. QED
      BY <1>7, <2>1, <2>3, <3>1 DEF Goto
  <2>4. \/ Exit("failure") /\ UNCHANGED <<kernel, report>>
        \/ kernel' = kernel + 1 /\ Goto("analyze") /\ report' \in Seq(Row)
    <3>1. kernels[kernel].name \in STRING
      <4>1. kernels[kernel] \in KernelRecord
        BY <1>2, <1>3, <2>1
      <4>2. QED
        BY <4>1 DEF KernelRecord
    <3>2. ASSUME NEW located \in BOOLEAN, NEW skipped \in BOOLEAN,
                 report' = Append(report, [kernel |-> kernels[kernel].name, located |-> located,
                                           skipped |-> skipped])
          PROVE  report' \in Seq(Row)
      BY <1>2, <3>1, <3>2 DEF Row
    <3>3. QED
      BY <1>2, <1>14, <3>2 DEF AnalyzeKernel, AnalyzeOr
  <2>5. QED
    BY <2>2, <2>3, <2>4
<1>15. CASE OpenCsv
  <2>1. /\ pc = "analyze" /\ kernel > Len(kernels)
        /\ UNCHANGED <<run, invocation, kernels, queue, adapter, kernel, report, resolvedAny>>
        /\ (Exit("failure") \/ Goto("open_json"))
    BY <1>15 DEF OpenCsv, inputs, loaded, loop
  <2>2. kernel = Len(kernels) + 1
    BY <1>3, <2>1
  <2>3. QED
    BY <1>3, <1>7, <2>1, <2>2 DEF Goto, Codes
<1>16. CASE OpenJson
  BY <1>3, <1>7, <1>16 DEF OpenJson, Goto, Exit, Codes, LoopInv, inputs, loaded, loop
<1>17. CASE CloseJson
  BY <1>3, <1>7, <1>17 DEF CloseJson, Goto, Codes, LoopInv, inputs, loaded, loop
<1>18. CASE CloseCsv
  <2>1. /\ UNCHANGED <<run, invocation, kernels, queue>> /\ pc = "close_csv"
        /\ adapter' = adapter + 1 /\ kernel' = 1 /\ report' = << >> /\ resolvedAny' \in BOOLEAN
        /\ adapter <= Len(queue)
    BY <1>3, <1>18 DEF CloseCsv, EndIteration, inputs, loaded, Useful
  <2>2. \/ adapter < Len(queue) /\ pc' = "analyze" /\ UNCHANGED status
        \/ pc' = "exited" /\ status' \in Seq(Codes)
    BY <1>5, <1>18 DEF CloseCsv, EndIteration, Goto, Exit, Codes
  <2>3. adapter' \in 1 .. Len(queue) + 1 /\ kernel' \in 1 .. Len(kernels) + 1
    BY <1>2, <1>3, <2>1
  <2>4. pc' = "analyze" => adapter' <= Len(queue)
    BY <1>2, <1>3, <2>1, <2>2
  <2>5. QED
    BY <1>3, <1>6, <2>1, <2>2, <2>3, <2>4 DEF Places, LoopInv
<1>19. CASE Kill
  <2>1. pc' = "exited" /\ status' \in Seq(Codes) /\ UNCHANGED <<inputs, loaded, loop>>
    BY <1>5, <1>19 DEF Kill, Exit, Codes
  <2>2. QED
    BY <1>3, <2>1 DEF Places, LoopInv, inputs, loaded, loop
<1>20. CASE UNCHANGED vars
  BY <1>3, <1>20 DEF vars, inputs, loaded, loop, LoopInv
<1>21. QED
  BY <1>9, <1>10, <1>11, <1>12, <1>13, <1>14, <1>15, <1>16, <1>17, <1>18, <1>19, <1>20 DEF Next

\* A step keeps what the rows are of.
LEMMA RowsPreserved ==
  ASSUME TypeOK, LoopInv, RowsInv, [Next]_vars, TypeOK', LoopInv'
  PROVE  RowsInv'
<1>1. CASE kernel' = 1 /\ report' = << >>
  <2>1. kernels' \in Seq(KernelRecord)
    BY DEF TypeOK
  <2>2. TakenUpTo(kernels', Supported')[0] = << >>
    BY <2>1, TakenDef
  <2>3. kernel' - 1 = 0
    BY <1>1
  <2>4. QED
    BY <1>1, <2>2, <2>3 DEF RowsInv
<1>2. CASE UNCHANGED <<kernels, kernel, report>>
  BY <1>2 DEF RowsInv, Supported
<1>3. CASE /\ UNCHANGED kernels /\ kernel \in DOMAIN kernels /\ kernel' = kernel + 1
           /\ IF kernels[kernel].hasElf
              THEN \E row \in Row : report' = Append(report, row) /\ row.kernel = kernels[kernel].name
              ELSE UNCHANGED report
  <2> DEFINE t == TakenUpTo(kernels, Supported)
  <2>1. kernels \in Seq(KernelRecord) /\ report \in Seq(Row) /\ kernel \in 1 .. Len(kernels)
    <3>1. kernels \in Seq(KernelRecord) /\ report \in Seq(Row)
      BY DEF TypeOK
    <3> HIDE DEF KernelRecord, Row
    <3>2. DOMAIN kernels = 1 .. Len(kernels)
      BY <3>1
    <3>3. QED
      BY <1>3, <3>1, <3>2
  <2>2. /\ kernel - 1 \in 0 .. Len(kernels) /\ t[kernel - 1] \in Seq(KernelRecord)
        /\ t[kernel] = IF kernel \in Supported THEN Append(t[kernel - 1], kernels[kernel])
                       ELSE t[kernel - 1]
    <3>1. kernel - 1 \in 0 .. Len(kernels)
      BY <2>1
    <3>2. QED
      BY <2>1, <3>1, TakenDef
  <2>3. TakenUpTo(kernels', Supported')[kernel' - 1] = t[kernel]
    <3>1. kernel' - 1 = kernel
      BY <1>3, <2>1
    <3>2. QED
      BY <1>3, <3>1 DEF Supported
  <2>4. kernel \in Supported <=> kernels[kernel].hasElf
    BY <1>3 DEF Supported
  <2> HIDE DEF t
  <2>5. DOMAIN report = DOMAIN t[kernel - 1] /\ \A n \in DOMAIN report : report[n].kernel = t[kernel - 1][n].name
    BY DEF RowsInv, t
  <2>6. CASE ~ kernels[kernel].hasElf
    <3>1. t[kernel] = t[kernel - 1] /\ report' = report
      BY <1>3, <2>2, <2>4, <2>6
    <3>2. QED
      BY <2>3, <2>5, <3>1 DEF RowsInv
  <2>7. CASE kernels[kernel].hasElf
    <3>1. PICK row \in Row : report' = Append(report, row) /\ row.kernel = kernels[kernel].name
      BY <1>3, <2>7
    <3>2. t[kernel] = Append(t[kernel - 1], kernels[kernel]) /\ kernels[kernel] \in KernelRecord
      BY <2>1, <2>2, <2>4, <2>7
    <3>3. /\ DOMAIN report = 1 .. Len(report) /\ DOMAIN t[kernel - 1] = 1 .. Len(t[kernel - 1])
          /\ Len(report) = Len(t[kernel - 1]) /\ Len(report) \in Nat
      BY <2>1, <2>2, <2>5
    <3>4. /\ DOMAIN report' = 1 .. Len(report) + 1 /\ report'[Len(report) + 1] = row
          /\ \A n \in 1 .. Len(report) : report'[n] = report[n]
      BY <2>1, <3>1, AppendProperties
    <3>5. /\ DOMAIN t[kernel] = 1 .. Len(report) + 1 /\ t[kernel][Len(report) + 1] = kernels[kernel]
          /\ \A n \in 1 .. Len(report) : t[kernel][n] = t[kernel - 1][n]
      BY <2>2, <3>2, <3>3, AppendProperties
    <3>6. \A n \in DOMAIN report' : n \in 1 .. Len(report) \/ n = Len(report) + 1
      BY <3>3, <3>4
    <3>7. \A n \in DOMAIN report' : report'[n].kernel = t[kernel][n].name
      BY <2>5, <3>1, <3>3, <3>4, <3>5, <3>6
    <3>8. QED
      BY <2>3, <3>4, <3>5, <3>7 DEF RowsInv
  <2>8. QED
    BY <2>6, <2>7
<1>4. CASE AnalyzeKernel
  <2>1. /\ kernel \in DOMAIN kernels /\ UNCHANGED kernels
        /\ kernels[kernel] \in KernelRecord
    BY <1>4 DEF AnalyzeKernel, AnalyzeOr, loaded, TypeOK
  <2>2. kernels[kernel].name \in STRING /\ kernels[kernel].hasElf \in BOOLEAN
    BY <2>1 DEF KernelRecord
  <2>3. \A located, skipped \in BOOLEAN :
          LET row == [kernel |-> kernels[kernel].name, located |-> located, skipped |-> skipped]
          IN  row \in Row /\ row.kernel = kernels[kernel].name
    BY <2>2 DEF Row
  <2>4. \/ UNCHANGED <<kernel, report>>
        \/ /\ kernel' = kernel + 1
           /\ \/ kernels[kernel].hasElf /\ \E row \in Row : report' = Append(report, row) /\ row.kernel = kernels[kernel].name
              \/ ~ kernels[kernel].hasElf /\ UNCHANGED report
    BY <1>4, <2>3 DEF AnalyzeKernel, AnalyzeOr
  <2>5. QED
    BY <1>2, <1>3, <2>1, <2>4
<1>5. CASE LoadKernels
  <2>1. kernel' = 1 /\ report' = << >>
    BY <1>5 DEF LoadKernels, LoopInv, Preparing, loop
  <2>2. QED
    BY <1>1, <2>1
<1>6. QED
  BY <1>1, <1>2, <1>4, <1>5
     DEF Next, vars, Start, ParseCli, LoadManifest, CreateAdapters, OpenCsv, OpenJson, CloseJson,
         CloseCsv, EndIteration, Kill, inputs, loaded, loop

\* How a run ended is how its last step did.
LEMMA EndedIsTheExit ==
  ASSUME RunInv, pc # "exited", UNCHANGED run, NEW code \in Codes, Exit(code)
  PROVE  \A c : Ended(c)' <=> c = code
<1>1. pc' = "exited" /\ status'[run] = code
  BY ExitExtends
<1>2. run > 0
  BY DEF RunInv
<1>3. QED
  BY <1>1, <1>2 DEF Ended

\* The files of the current iteration are not those of another.
LEMMA CurrentFiles ==
  ASSUME TypeOK, LoopInv, adapter <= Len(queue), NEW f
  PROVE  \A n \in DOMAIN queue :
           /\ [csv EXCEPT ![queue[adapter]] = f][queue[n]]
                = IF n = adapter THEN f ELSE csv[queue[n]]
           /\ [json EXCEPT ![queue[adapter]][invocation.label] = f][queue[n]][invocation.label]
                = IF n = adapter THEN f ELSE json[queue[n]][invocation.label]
<1> TAKE n \in DOMAIN queue
<1>1. /\ queue \in Seq(Adapters) /\ adapter \in DOMAIN queue /\ invocation.label \in Labels
      /\ DOMAIN csv = Adapters /\ DOMAIN json = Adapters /\ \A a \in Adapters : DOMAIN json[a] = Labels
  BY ResolverAssumption DEF TypeOK, IsInvocation
<1>2. queue[n] \in Adapters /\ queue[adapter] \in Adapters /\ (queue[n] = queue[adapter] => n = adapter)
  BY <1>1 DEF LoopInv, IsInjective
<1>3. QED
  BY <1>1, <1>2

\* With every kernel gone past, what is written is the loaded kernels' names.
LEMMA WrittenIsReported ==
  ASSUME TypeOK, RowsInv, kernel = Len(kernels) + 1
  PROVE  /\ Written(report).run = run /\ Written(report).complete = TRUE
         /\ Written(report).kernels = ReportedKernels
         /\ Written(report).useful = Useful(report)
<1>1. kernels \in Seq(KernelRecord) /\ kernel - 1 = Len(kernels)
  BY DEF TypeOK
<1>2. Taken(kernels, Supported) = TakenUpTo(kernels, Supported)[kernel - 1]
  BY <1>1 DEF Taken
<1>3. [n \in DOMAIN report |-> report[n].kernel] = ReportedKernels
  BY <1>2 DEF RowsInv, ReportedKernels
<1>4. QED
  BY <1>3 DEF Written

\* A step keeps what the iterations left and what the exit status tells.
LEMMA IterationPreserved ==
  ASSUME RunInv, TypeOK, LoopInv, RowsInv, IterationInv, ResolvedInv, [Next]_vars,
         TypeOK', LoopInv'
  PROVE  IterationInv' /\ ResolvedInv'
<1> USE DEF Preparing, Writing
<1> DEFINE label == invocation.label
           Stays(n) == /\ csv'[queue[n]] = csv[queue[n]]
                       /\ json'[queue[n]][label] = json[queue[n]][label]
           Iterating == {"analyze", "open_json", "close_json", "close_csv"}
<1>1. /\ queue \in Seq(Adapters) /\ adapter \in 1 .. Len(queue) + 1 /\ run \in Nat
      /\ DOMAIN queue = 1 .. Len(queue) /\ Len(queue) \in Nat /\ label \in Labels
      /\ (pc \in Iterating => adapter <= Len(queue)) /\ (pc # "exited" => run > 0)
  BY LabelKnown DEF TypeOK, RunInv
<1>2. \A a \in Adapters : UNCHANGED <<run, invocation, kernels, csv[a], json[a][label]>> /\ Reported(a)
                            => Reported(a)'
  BY DEF Reported, ReportedKernels, Supported
\* The preparations have no iteration.
<1>3. ASSUME queue' = << >>, pc' \in Preparing \union {"exited"}, adapter' = 1,
             resolvedAny' = FALSE, ~ (Ended("success") /\ Resolving)',
             pc' \in Preparing =>
               \A a \in Adapters : json'[a][invocation'.label].run < run'
      PROVE  IterationInv' /\ ResolvedInv'
  <2>1. DOMAIN queue' = {}
    BY <1>3
  <2>2. IterationInv'
    BY <1>3, <2>1 DEF IterationInv
  <2>3. ResolvedInv'
    BY <1>3, <2>1 DEF ResolvedInv
  <2>4. QED
    BY <2>2, <2>3
\* A step of an iteration that is not its last.
<1>4. ASSUME UNCHANGED <<run, invocation, kernels, queue, adapter, resolvedAny>>,
             pc \in Iterating, pc' \in Iterating \union {"exited"},
             \A n \in DOMAIN queue : n # adapter => Stays(n),
             ~ Ended("success")',
             pc' \in {"analyze", "open_json"} \/ Ended("failure")' =>
               pc \in {"analyze", "open_json"} /\ json'[queue[adapter]][label] = json[queue[adapter]][label],
             pc' = "close_csv" =>
               LET file == json'[queue[adapter]][label]
               IN  file.run = run /\ file.complete /\ file.kernels = ReportedKernels
      PROVE  IterationInv' /\ ResolvedInv'
  <2>1. ReportedKernels' = ReportedKernels
    BY <1>4 DEF ReportedKernels, Supported
  <2>2. \A n \in DOMAIN queue : n < adapter => Reported(queue[n])'
    BY <1>1, <1>2, <1>4 DEF IterationInv
  <2>3. adapter \in DOMAIN queue
    BY <1>1, <1>4
  <2>4. \A n \in DOMAIN queue :
          \/ n > adapter
          \/ n = adapter /\ (pc' \in {"analyze", "open_json"} \/ Ended("failure")')
          => json'[queue[n]][label].run < run
    BY <1>1, <1>4 DEF IterationInv
  <2>5. IterationInv'
    <3>1. (\A n \in DOMAIN queue : n < adapter => Reported(queue[n]))'
      BY <1>4, <2>2
    <3>2. pc' \notin Preparing
      BY <1>4
    <3>3. pc' = "close_csv" =>
            LET file == json'[queue'[adapter']][invocation'.label]
            IN  file.run = run' /\ file.complete /\ file.kernels = ReportedKernels'
      BY <1>4, <2>1
    <3>4. QED
      BY <1>4, <2>4, <3>1, <3>2, <3>3 DEF IterationInv
  <2>6. (\E n \in DOMAIN queue : n < adapter /\ csv'[queue[n]].useful)
          <=> \E n \in DOMAIN queue : n < adapter /\ csv[queue[n]].useful
    BY <1>1, <1>4
  <2>7. adapter # Len(queue) + 1
    BY <1>1, <1>4
  <2>8. QED
    BY <1>4, <2>5, <2>6, <2>7 DEF ResolvedInv
<1>5. CASE Start
  <2>1. /\ queue' = << >> /\ pc' = "parse" /\ adapter' = 1 /\ resolvedAny' = FALSE
        /\ run' = run + 1 /\ invocation' \in Invocations /\ UNCHANGED json
    BY <1>5 DEF Start, Goto, files
  <2>2. invocation'.label \in Labels
    BY <2>1, ResolverAssumption DEF IsInvocation
  <2>3. \A a \in Adapters : json'[a][invocation'.label].run < run'
    BY <1>1, <2>1, <2>2 DEF RunInv
  <2>4. QED
    BY <1>3, <2>1, <2>3 DEF Ended
<1>6. CASE ParseCli \/ LoadKernels \/ LoadManifest
  <2>1. /\ pc \in Preparing /\ UNCHANGED <<run, invocation, queue, adapter, resolvedAny, csv, json>>
        /\ \/ pc' \in Preparing
           \/ Exit("failure")
           \/ Exit("success") /\ ~ Resolving
    <3>1. invocation.options \in {"run", "help", "rejected"}
      BY ResolverAssumption DEF TypeOK, IsInvocation, Options
    <3>2. CASE ParseCli
      BY <3>1, <3>2 DEF ParseCli, Goto, Resolving, inputs, loaded, loop, files
    <3>3. CASE LoadKernels
      BY <3>3 DEF LoadKernels, Goto, inputs, loop, files
    <3>4. CASE LoadManifest
      BY <3>4 DEF LoadManifest, Goto, inputs, loaded, loop, files
    <3>5. QED
      BY <1>6, <3>2, <3>3, <3>4
  <2>2. queue' = << >> /\ adapter' = 1 /\ resolvedAny' = FALSE
    BY <2>1 DEF LoopInv
  <2>3. \A a \in Adapters : json'[a][invocation'.label].run < run'
    BY <2>1 DEF IterationInv
  <2>4. pc' \in Preparing \union {"exited"} /\ ~ (Ended("success") /\ Resolving)'
    <3>1. CASE pc' \in Preparing
      BY <3>1 DEF Ended
    <3>2. CASE Exit("failure")
      BY <2>1, <3>2, EndedIsTheExit DEF Codes, Exit
    <3>3. CASE Exit("success") /\ ~ Resolving
      BY <2>1, <3>3 DEF Exit, Resolving
    <3>4. QED
      BY <2>1, <3>1, <3>2, <3>3
  <2>5. QED
    BY <1>3, <2>2, <2>3, <2>4
<1>7. CASE CreateAdapters
  <2>1. /\ pc = "create_adapters" /\ UNCHANGED <<run, invocation, adapter, resolvedAny, csv, json>>
        /\ adapter = 1 /\ resolvedAny = FALSE /\ queue = << >>
        /\ \A a \in Adapters : json[a][label].run < run
    BY <1>7 DEF CreateAdapters, LoopInv, IterationInv, inputs, loop, files
  <2>2. CASE Exit("failure") /\ UNCHANGED queue
    <3>1. ~ Ended("success")' /\ pc' = "exited"
      BY <2>1, <2>2, EndedIsTheExit DEF Codes, Exit
    <3>2. QED
      BY <1>3, <2>1, <2>2, <3>1
  <2>3. CASE pc' = "analyze"
    <3>1. queue' \in Seq(Adapters) /\ \A n \in DOMAIN queue' : n \in Nat /\ n >= 1 /\ queue'[n] \in Adapters
      <4>1. queue' \in Seq(Adapters)
        BY DEF TypeOK
      <4>2. QED
        BY <4>1
    <3>2. \A n \in DOMAIN queue' : ~ (n < adapter') /\ json'[queue'[n]][invocation'.label].run < run'
      BY <2>1, <3>1
    <3>3. IterationInv'
      BY <2>3, <3>2 DEF IterationInv
    <3>4. ResolvedInv'
      BY <2>1, <2>3, <3>2 DEF ResolvedInv, Ended
    <3>5. QED
      BY <3>3, <3>4
  <2>4. QED
    BY <1>7, <2>2, <2>3 DEF CreateAdapters, Goto
<1>8. CASE AnalyzeKernel
  <2>1. /\ pc = "analyze" /\ UNCHANGED <<run, invocation, kernels, queue, adapter, resolvedAny, csv, json>>
        /\ (Exit("failure") \/ pc' = "analyze")
    BY <1>8 DEF AnalyzeKernel, AnalyzeOr, Goto, inputs, loaded, files
  <2>2. ~ Ended("success")' /\ pc' \in {"analyze", "exited"}
    BY <2>1, EndedIsTheExit DEF Codes, Exit, Ended
  <2>3. QED
    BY <1>4, <2>1, <2>2
<1>9. CASE OpenCsv
  <2>1. /\ pc = "analyze" /\ UNCHANGED <<run, invocation, kernels, queue, adapter, resolvedAny, json>>
        /\ \/ Exit("failure") /\ UNCHANGED csv
           \/ pc' = "open_json" /\ csv' = [csv EXCEPT ![queue[adapter]] = Opened]
    BY <1>9 DEF OpenCsv, Goto, inputs, loaded, loop
  <2>2. ~ Ended("success")' /\ pc' \in {"open_json", "exited"}
    BY <2>1, EndedIsTheExit DEF Codes, Exit, Ended
  <2>3. \A n \in DOMAIN queue : n # adapter => Stays(n)
    <3>1. CASE UNCHANGED csv
      BY <2>1, <3>1
    <3>2. CASE csv' = [csv EXCEPT ![queue[adapter]] = Opened]
      <4>1. \A n \in DOMAIN queue : csv'[queue[n]] = IF n = adapter THEN Opened ELSE csv[queue[n]]
        BY <1>1, <2>1, <3>2, CurrentFiles
      <4>2. QED
        BY <2>1, <4>1
    <3>3. QED
      BY <2>1, <3>1, <3>2
  <2>4. QED
    BY <1>4, <2>1, <2>2, <2>3
<1>10. CASE OpenJson
  <2>1. pc = "open_json" /\ UNCHANGED <<run, invocation, kernels, queue, adapter, resolvedAny>>
    BY <1>10 DEF OpenJson, inputs, loaded, loop
  <2>2. CASE /\ Exit("failure") /\ UNCHANGED json
             /\ csv' = [csv EXCEPT ![queue[adapter]] = Written(report)]
    <3>1. ~ Ended("success")' /\ pc' = "exited"
      BY <2>1, <2>2, EndedIsTheExit DEF Codes, Exit
    <3>2. \A n \in DOMAIN queue : n # adapter => Stays(n)
      <4>1. \A n \in DOMAIN queue :
              csv'[queue[n]] = IF n = adapter THEN Written(report) ELSE csv[queue[n]]
        BY <1>1, <2>1, <2>2, CurrentFiles
      <4>2. QED
        BY <2>2, <4>1
    <3>3. QED
      BY <1>4, <2>1, <2>2, <3>1, <3>2
  <2>3. CASE /\ pc' = "close_json" /\ UNCHANGED csv
             /\ json' = [json EXCEPT ![queue[adapter]][invocation.label] = Opened]
    <3>1. \A n \in DOMAIN queue : n # adapter => Stays(n)
      <4>1. \A n \in DOMAIN queue :
              json'[queue[n]][label] = IF n = adapter THEN Opened ELSE json[queue[n]][label]
        BY <1>1, <2>1, <2>3, CurrentFiles
      <4>2. QED
        BY <2>3, <4>1
    <3>2. QED
      BY <1>4, <2>1, <2>3, <3>1 DEF Ended
  <2>4. QED
    BY <1>10, <2>2, <2>3 DEF OpenJson, Goto
<1>11. CASE CloseJson
  <2>1. /\ pc = "close_json" /\ pc' = "close_csv" /\ UNCHANGED csv
        /\ UNCHANGED <<run, invocation, kernels, queue, adapter, resolvedAny>>
        /\ json' = [json EXCEPT ![queue[adapter]][invocation.label] = Written(report)]
    BY <1>11 DEF CloseJson, Goto, inputs, loaded, loop
  <2>2. \A n \in DOMAIN queue :
          json'[queue[n]][label] = IF n = adapter THEN Written(report) ELSE json[queue[n]][label]
    BY <1>1, <2>1, CurrentFiles
  <2>3. /\ adapter \in DOMAIN queue /\ json'[queue[adapter]][label] = Written(report)
        /\ \A n \in DOMAIN queue : n # adapter => Stays(n)
    BY <1>1, <2>1, <2>2
  <2>4. /\ Written(report).run = run /\ Written(report).complete
        /\ Written(report).kernels = ReportedKernels
    BY <2>1, WrittenIsReported DEF LoopInv
  <2>5. QED
    BY <1>4, <2>1, <2>2, <2>3, <2>4 DEF Ended
<1>12. CASE CloseCsv
  <2>1. /\ pc = "close_csv" /\ UNCHANGED <<run, invocation, kernels, queue, json>>
        /\ csv' = [csv EXCEPT ![queue[adapter]] = Written(report)]
        /\ resolvedAny' = (resolvedAny \/ Useful(report)) /\ adapter' = adapter + 1
        /\ IF adapter < Len(queue) THEN pc' = "analyze"
           ELSE Exit(IF resolvedAny' THEN "success" ELSE "failure")
    BY <1>12 DEF CloseCsv, EndIteration, Goto, inputs, loaded
  <2>2. /\ \A n \in DOMAIN queue : csv'[queue[n]] = IF n = adapter THEN Written(report) ELSE csv[queue[n]]
        /\ \A n \in DOMAIN queue : json'[queue[n]][label] = json[queue[n]][label]
    BY <1>1, <2>1, CurrentFiles
  <2>3. /\ Written(report).run = run /\ Written(report).complete
        /\ Written(report).kernels = ReportedKernels
        /\ Written(report).useful = Useful(report)
    BY <2>1, WrittenIsReported DEF LoopInv
  <2>4. ReportedKernels' = ReportedKernels /\ adapter \in DOMAIN queue
    BY <1>1, <2>1 DEF ReportedKernels, Supported
  <2>5. \A n \in DOMAIN queue : n < adapter + 1 => n < adapter \/ n = adapter
    BY <1>1
  <2>6. \A n \in DOMAIN queue : n < adapter + 1 => Reported(queue[n])'
    <3> SUFFICES ASSUME NEW n \in DOMAIN queue, n < adapter + 1
                 PROVE  Reported(queue[n])'
      OBVIOUS
    <3>1. CASE n = adapter
      <4>1. /\ json[queue[n]][label].run = run /\ json[queue[n]][label].complete
            /\ json[queue[n]][label].kernels = ReportedKernels
        BY <2>1, <3>1 DEF IterationInv
      <4>2. csv'[queue[n]] = Written(report) /\ json'[queue[n]][label] = json[queue[n]][label]
        BY <2>2, <3>1
      <4>3. QED
        BY <2>1, <2>3, <2>4, <4>1, <4>2 DEF Reported
    <3>2. CASE n < adapter
      <4>1. Reported(queue[n])
        BY <3>2 DEF IterationInv
      <4>2. csv'[queue[n]] = csv[queue[n]] /\ queue[n] \in Adapters /\ n # adapter
        BY <1>1, <2>2, <3>2
      <4>3. QED
        BY <1>2, <2>1, <4>1, <4>2
    <3>3. QED
      BY <2>5, <3>1, <3>2
  <2>7. \A n \in DOMAIN queue : n > adapter + 1 \/ n = adapter + 1 => json'[queue[n]][label].run < run
    BY <1>1, <2>2 DEF IterationInv
  <2>8. (resolvedAny \/ Useful(report)) <=> \E n \in DOMAIN queue : n < adapter + 1 /\ csv'[queue[n]].useful
    <3>1. resolvedAny <=> \E n \in DOMAIN queue : n < adapter /\ csv[queue[n]].useful
      BY DEF ResolvedInv
    <3>2. \A n \in DOMAIN queue : n < adapter => n # adapter /\ n < adapter + 1
      BY <1>1
    <3>3. adapter < adapter + 1
      BY <1>1
    <3>4. csv'[queue[adapter]].useful = Useful(report)
      BY <2>2, <2>3, <2>4
    <3>5. ASSUME resolvedAny
          PROVE  \E n \in DOMAIN queue : n < adapter + 1 /\ csv'[queue[n]].useful
      BY <2>2, <3>1, <3>2, <3>5
    <3>6. ASSUME NEW n \in DOMAIN queue, n < adapter + 1, csv'[queue[n]].useful
          PROVE  resolvedAny \/ Useful(report)
      <4>1. CASE n = adapter
        BY <3>4, <3>6, <4>1
      <4>2. CASE n < adapter
        BY <2>2, <3>1, <3>2, <3>6, <4>2
      <4>3. QED
        BY <2>5, <3>6, <4>1, <4>2
    <3>7. QED
      BY <2>4, <3>3, <3>4, <3>5, <3>6
  <2>9. /\ pc' \in {"analyze", "exited"}
        /\ (pc' = "exited" => adapter + 1 = Len(queue) + 1)
        /\ (Ended("success")' => adapter + 1 = Len(queue) + 1 /\ resolvedAny')
        /\ (Ended("failure")' => ~ resolvedAny')
    <3>1. CASE adapter < Len(queue)
      BY <2>1, <3>1 DEF Ended
    <3>2. CASE ~ (adapter < Len(queue))
      <4>1. adapter = Len(queue)
        BY <1>1, <2>4, <3>2
      <4>2. CASE resolvedAny'
        <5>1. Exit("success")
          BY <2>1, <3>2, <4>2
        <5>2. QED
          BY <2>1, <4>1, <4>2, <5>1, EndedIsTheExit DEF Codes, Exit
      <4>3. CASE ~ resolvedAny'
        <5>1. Exit("failure")
          BY <2>1, <3>2, <4>3
        <5>2. QED
          BY <2>1, <4>1, <4>3, <5>1, EndedIsTheExit DEF Codes, Exit
      <4>4. QED
        BY <4>2, <4>3
    <3>3. QED
      BY <3>1, <3>2
  <2>10. IterationInv'
    BY <2>1, <2>6, <2>7, <2>9 DEF IterationInv
  <2>11. ResolvedInv'
    BY <2>1, <2>8, <2>9 DEF ResolvedInv
  <2>12. QED
    BY <2>10, <2>11
<1>13. CASE Kill
  <2>1. /\ pc # "exited" /\ pc' = "exited"
        /\ UNCHANGED <<run, invocation, kernels, queue, adapter, resolvedAny, csv, json>>
    BY <1>13 DEF Kill, Exit, inputs, loaded, loop, files
  <2>2. ~ Ended("success")' /\ ~ Ended("failure")'
    BY <1>13, <2>1, EndedIsTheExit DEF Kill, Codes
  <2>3. CASE pc \in Preparing
    BY <1>3, <2>1, <2>2, <2>3 DEF LoopInv
  <2>4. CASE pc \in Iterating
    BY <1>4, <2>1, <2>2, <2>4
  <2>5. QED
    BY <2>1, <2>3, <2>4 DEF TypeOK, Places
<1>14. CASE UNCHANGED vars
  BY <1>14 DEF vars, inputs, loaded, loop, files, IterationInv, ResolvedInv, Reported,
               ReportedKernels, Supported, Ended, Resolving
<1>15. QED
  BY <1>5, <1>6, <1>7, <1>8, <1>9, <1>10, <1>11, <1>12, <1>13, <1>14 DEF Next

\* The reports are as described in every state.
LEMMA ReportsInvariant == Spec => []ReportsInv
<1>1. Init => ReportsInv
  <2> SUFFICES ASSUME Init
               PROVE  ReportsInv
    OBVIOUS
  <2>1. /\ run = 0 /\ MaxRuns \in Nat /\ invocation \in Invocations /\ pc = "exited"
        /\ kernels = << >> /\ queue = << >> /\ adapter = 1 /\ kernel = 1 /\ report = << >>
        /\ resolvedAny = FALSE /\ status = << >>
    BY ResolverAssumption DEF Init
  <2>2. csv \in [Adapters -> File] /\ json \in [Adapters -> [Labels -> File]]
    <3>1. << >> \in Seq(STRING) /\ 0 \in 0 .. MaxRuns
      BY <2>1
    <3>2. Absent \in File
      BY <3>1 DEF Absent, File
    <3> HIDE DEF File, Absent
    <3>3. QED
      BY <3>2 DEF Init
  <2>3. /\ kernels \in Seq(KernelRecord) /\ queue \in Seq(Adapters) /\ report \in Seq(Row)
        /\ status \in Seq({"success", "failure", "killed"})
        /\ adapter \in 1 .. Len(queue) + 1 /\ kernel \in 1 .. Len(kernels) + 1
    BY <2>1
  <2>4. TypeOK
    <3>1. run \in 0 .. MaxRuns /\ pc \in Places
          /\ pc \notin {"analyze", "open_json", "close_json", "close_csv"}
      BY <2>1 DEF Places
    <3>2. QED
      BY <2>1, <2>2, <2>3, <3>1 DEF TypeOK
  <2>5. DOMAIN queue = {} /\ ~ Ended("success") /\ ~ Ended("failure")
    BY <2>1 DEF Ended
  <2>6. LoopInv
    BY <2>1, <2>5 DEF LoopInv, IsInjective, Preparing, Writing
  <2>7. RowsInv
    <3>1. kernels \in Seq(KernelRecord)
      BY <2>3
    <3>2. TakenUpTo(kernels, Supported)[0] = << >>
      BY <3>1, TakenDef
    <3>3. kernel - 1 = 0
      BY <2>1
    <3>4. QED
      BY <2>1, <3>2, <3>3 DEF RowsInv
  <2>8. IterationInv /\ ResolvedInv
    BY <2>1, <2>5 DEF IterationInv, ResolvedInv, Preparing
  <2>9. QED
    BY <2>4, <2>6, <2>7, <2>8 DEF ReportsInv
<1>2. FilesInv /\ ReportsInv /\ [Next]_vars => ReportsInv'
  <2> SUFFICES ASSUME FilesInv, ReportsInv, [Next]_vars
               PROVE  ReportsInv'
    OBVIOUS
  <2>1. RunInv /\ TypeOK /\ LoopInv /\ RowsInv /\ IterationInv /\ ResolvedInv
    BY DEF FilesInv, ReportsInv
  <2>2. TypeOK' /\ LoopInv'
    BY <2>1, ShapePreserved
  <2>3. RowsInv'
    BY <2>1, <2>2, RowsPreserved
  <2>4. IterationInv' /\ ResolvedInv'
    BY <2>1, <2>2, IterationPreserved
  <2>5. QED
    BY <2>2, <2>3, <2>4 DEF ReportsInv
<1>3. QED
  BY <1>1, <1>2, FilesInvariant, PTL DEF Spec

-----------------------------------------------------------------------------
(* Theorems: what the files hold.                                          *)

\* Every variable of main has its type, and its loops stay within the adapters
\* that were created and the kernels that were loaded.
THEOREM ResolverTypeCorrect == Spec => []TypeOK
<1>1. ReportsInv => TypeOK
  BY DEF ReportsInv
<1>2. QED
  BY <1>1, ReportsInvariant, PTL

\* A run that ends in success has left both reports of every selected adapter
\* whole, of this run, with every loaded kernel that has an ELF file.
THEOREM SuccessHasItsReports == Spec => []SuccessMeansReports
<1>1. ReportsInv => SuccessMeansReports
  <2> SUFFICES ASSUME ReportsInv, Ended("success"), Resolving, NEW a \in Selected,
                      NEW file \in {csv[a], json[a][invocation.label]}
               PROVE  file.run = run /\ file.complete /\ file.kernels = ReportedKernels
    BY DEF SuccessMeansReports
  <2>1. queue \in Seq(Adapters) /\ adapter = Len(queue) + 1
    BY DEF ReportsInv, TypeOK, ResolvedInv
  <2>2. PICK n \in DOMAIN queue : a = queue[n]
    BY DEF Selected, Range
  <2>3. n < adapter
    BY <2>1
  <2>4. Reported(a)
    BY <2>2, <2>3 DEF ReportsInv, IterationInv
  <2>5. QED
    BY <2>4 DEF Reported
<1>2. QED
  BY <1>1, ReportsInvariant, PTL

\* A run that wrote both reports of every selected adapter succeeded exactly if
\* one of its reports is useful.
THEOREM ExitTellsWhatReportsHold == Spec => []ExitReflectsReports
<1>1. ReportsInv => ExitReflectsReports
  <2> SUFFICES ASSUME ReportsInv, Resolving, Selected # {}, Ended("success") \/ Ended("failure"),
                      \A a \in Selected : \A file \in {csv[a], json[a][invocation.label]} :
                        file.run = run
               PROVE  Ended("success") <=> \E a \in Selected : csv[a].useful
    BY DEF ExitReflectsReports
  <2>1. /\ queue \in Seq(Adapters) /\ adapter \in 1 .. Len(queue) + 1
        /\ Selected = {queue[n] : n \in DOMAIN queue} /\ queue # << >>
    BY DEF ReportsInv, TypeOK, Selected, Range
  <2>2. adapter = Len(queue) + 1
    <3> SUFFICES ASSUME Ended("failure"), adapter <= Len(queue)
                 PROVE  FALSE
      BY <2>1 DEF ReportsInv, ResolvedInv
    <3>1. adapter \in DOMAIN queue
      BY <2>1
    <3>2. json[queue[adapter]][invocation.label].run < run
      BY <3>1 DEF ReportsInv, IterationInv
    <3>3. json[queue[adapter]][invocation.label].run = run /\ run \in Nat
      BY <2>1, <3>1, ResolverAssumption DEF ReportsInv, TypeOK
    <3>4. QED
      BY <3>2, <3>3
  <2>3. resolvedAny <=> \E a \in Selected : csv[a].useful
    <3>1. \A n \in DOMAIN queue : n < adapter
      BY <2>1, <2>2
    <3>2. QED
      BY <2>1, <3>1 DEF ReportsInv, ResolvedInv
  <2>4. ~ (Ended("success") /\ Ended("failure"))
    BY DEF Ended
  <2>5. QED
    BY <2>1, <2>2, <2>3, <2>4 DEF ReportsInv, ResolvedInv
<1>2. QED
  BY <1>1, ReportsInvariant, PTL
=============================================================================
