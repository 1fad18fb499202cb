-------------------------- MODULE Experiments_proofs --------------------------
(***************************************************************************)
(* Proofs about the two scripts.  First about DwarfCheck: what a           *)
(* successful invocation of the workflow script says of samples, reports   *)
(* and leftovers, for every command line.  Then about Experiments: what    *)
(* the experiment script may claim of the entries of its matrix, whatever  *)
(* was done by hand before it and wherever it or a command of it is        *)
(* killed; they rest on the invariant of the workflow script, which the    *)
(* script of the matrix preserves.                                         *)
(***************************************************************************)
EXTENDS Experiments, SequenceTheorems, FiniteSetTheorems, TLAPS

-----------------------------------------------------------------------------
(* The order of the steps: each has a rank, and what is to be done is in   *)
(* the order of its ranks, the commands of the line last.                  *)

Rank(s) ==
  CASE s \in {<<"clean">>, <<"require json">>, <<"remove resolver">>} -> 1
    [] s = <<"build binary">> -> 2
    [] s = <<"build resolver">> -> 3
    [] s = <<"execute">> -> 4
    [] s = <<"collect", "vtune">> -> 5
    [] s = <<"collect", "unitrace">> -> 6
    [] s = <<"reference", "vtune">> -> 7
    [] s = <<"resolve", "vtune">> -> 8
    [] s = <<"reference", "unitrace">> -> 9
    [] s = <<"resolve", "unitrace">> -> 10
    [] OTHER -> 11

Pending(s) == \E i \in DOMAIN todo : todo[i] = s

Ordered(steps) ==
  \A i, j \in DOMAIN steps :
    i < j => Rank(steps[i]) < Rank(steps[j]) \/ {steps[i], steps[j]} \subseteq Commands

\* The commands to come are the last ones of the line.
QueueInv ==
  /\ todo \in Seq(Steps \union Commands) /\ Ordered(todo)
  /\ exit # "running" => todo = << >>
  /\ line \in Seq(Commands)
  /\ (\E c \in Commands : Pending(c)) => line # << >> /\ todo[Len(todo)] = line[Len(line)]

ToClean == Pending(<<"clean">>)
ToBuild == Pending(<<"build binary">>)
ToExecute == Pending(<<"execute">>)
ToCollect(t) == Pending(<<"collect", t>>)
ToRefer(t) == Pending(<<"reference", t>>)
ToResolve(t) == Pending(<<"resolve", t>>)
Collecting == \E t \in Tools : ToCollect(t)

\* Only run and all clean and collect, and they collect for all selected tools.
CollectOrder ==
  /\ Pending(<<"clean">>) => \A t \in tools : Pending(<<"collect", t>>)
  /\ Pending(<<"collect", "unitrace">>) /\ "vtune" \in tools =>
       Pending(<<"collect", "vtune">>) \/ Head(todo) = <<"collect", "unitrace">>
  /\ Pending(<<"collect", "vtune">>) /\ "unitrace" \in tools => Pending(<<"collect", "unitrace">>)

-----------------------------------------------------------------------------
(* What the directories hold.                                              *)

\* Nothing comes from a source that does not exist, so whole and fresh things do.
Sound(a) == a \in Artifact /\ (a.of = 0 => ~ a.whole /\ ~ a.fresh)

DirectorySound(d) ==
  /\ d \in Directory /\ Sound(d.binary) /\ Sound(d.json) /\ Sound(d.dump)
  /\ \A t \in Tools : Sound(d.samples[t]) /\ Sound(d.manifest[t]) /\ Sound(d.report[t])

StateTypes ==
  /\ version \in 1 .. MaxVersions /\ configuration \in Configurations
  /\ tools \in SUBSET Tools /\ tools # {} /\ exit \in ExitCodes
  /\ attempt \in 0 .. MaxAttempts /\ invocations \in 0 .. MaxInvocations
BooleanTypes == resolver \in BOOLEAN /\ clean \in BOOLEAN
DiskInv == disk \in [Configurations -> Directory] /\ \A c \in Configurations : DirectorySound(disk[c])

\* An attempt is made of a collection whose requirements are met.
AttemptInv ==
  attempt > 0 =>
    /\ Running /\ todo # << >> /\ Present(here.binary)
    /\ \E t \in Tools : Head(todo) = <<"collect", t>> /\ ~ DumpRequired(t)

Alive == exit \in {"running", "success"}
\* The last run or all of the line has begun.
Past == Alive /\ (Asked("run") \/ Asked("all")) /\ ~ Pending(<<"run">>) /\ ~ Pending(<<"all">>)

\* What is collected already is of the binary, and in the end of the manifest.
CollectedInv ==
  Past =>
    /\ \A t \in tools : ~ ToCollect(t) =>
         /\ here.samples[t].whole /\ here.samples[t].fresh
         /\ Collecting => here.samples[t].of = here.binary.of
    /\ ~ Collecting =>
         /\ here.json.whole /\ here.json.fresh /\ ~ ToExecute
         /\ \A t \in tools : here.samples[t].of = here.json.of

\* After all has built, everything is of the version it has built.
BuiltInv ==
  Alive /\ Asked("all") /\ ~ Pending(<<"all">>) =>
    /\ Running /\ ~ (ToBuild /\ Collecting) =>
         /\ here.binary.fresh /\ here.binary.of = version
         /\ aot /\ "unitrace" \in tools /\ here.dump.whole => here.dump.of = version
    /\ ~ Collecting /\ ~ Pending(<<"run">>) =>
         /\ here.binary.fresh /\ here.binary.of = here.json.of
         /\ "unitrace" \in tools => here.dump.whole /\ here.dump.of = here.json.of

FreshDirectory(d) ==
  /\ Present(d.json) => d.json.fresh
  /\ Present(d.dump) => d.dump.fresh
  /\ \A t \in Tools :
       /\ Present(d.samples[t]) => d.samples[t].fresh
       /\ Present(d.manifest[t]) => d.manifest[t].fresh
       /\ Present(d.report[t]) => d.report[t].fresh

CleanInv == Past /\ clean /\ ~ ToClean => FreshDirectory(here)

\* Analysing, as the last command of the line.
Analysing ==
  Alive /\ (EndsWith("analyze") \/ EndsWith("all")) /\ ~ \E c \in Commands : Pending(c)

ReportInv ==
  Analysing =>
    \A t \in tools :
      /\ ToClean \/ Collecting => ToRefer(t)
      /\ ToRefer(t) => ToResolve(t)
      /\ ~ ToRefer(t) =>
           /\ here.manifest[t].of = here.samples[t].of
           /\ Asked("run") \/ Asked("all") => here.manifest[t].whole
      /\ ~ ToResolve(t) =>
           /\ here.report[t].fresh /\ here.report[t].of = here.samples[t].of
           /\ Asked("run") \/ Asked("all") => here.report[t].whole

\* analyze alone requires the workload's manifest before anything could make one.
AnalyzeInv ==
  Running /\ line = << <<"analyze">> >> =>
    \/ todo = << <<"analyze">> >>
    \/ /\ \A i \in DOMAIN todo :
            todo[i] \in {<<"require json">>, <<"build resolver">>} \union {"reference", "resolve"} \X Tools
       /\ Pending(<<"require json">>) \/ Present(here.json)

WorkflowInv ==
  /\ QueueInv /\ CollectOrder /\ StateTypes /\ BooleanTypes /\ DiskInv /\ AttemptInv
  /\ CollectedInv /\ BuiltInv /\ CleanInv /\ ReportInv /\ AnalyzeInv

-----------------------------------------------------------------------------
(* Lemmas about the queue: what is pending after each kind of step.        *)

LEMMA RankValues ==
  /\ Rank(<<"clean">>) = 1 /\ Rank(<<"require json">>) = 1 /\ Rank(<<"remove resolver">>) = 1
  /\ Rank(<<"build binary">>) = 2 /\ Rank(<<"build resolver">>) = 3 /\ Rank(<<"execute">>) = 4
  /\ Rank(<<"collect", "vtune">>) = 5 /\ Rank(<<"collect", "unitrace">>) = 6
  /\ Rank(<<"reference", "vtune">>) = 7 /\ Rank(<<"resolve", "vtune">>) = 8
  /\ Rank(<<"reference", "unitrace">>) = 9 /\ Rank(<<"resolve", "unitrace">>) = 10
  BY DEF Rank

LEMMA CommandRanks ==
  /\ Rank(<<"adapter build">>) = 11 /\ Rank(<<"adapter clean">>) = 11
  /\ Rank(<<"adapter run">>) = 11 /\ Rank(<<"workload build">>) = 11
  /\ Rank(<<"build">>) = 11 /\ Rank(<<"run">>) = 11 /\ Rank(<<"analyze">>) = 11
  /\ Rank(<<"all">>) = 11
  BY DEF Rank

LEMMA StepShapes ==
  /\ \A s \in Steps : s \notin Commands /\ Rank(s) \in 1 .. 10
  /\ \A c \in Commands : Rank(c) = 11
  /\ \A s \in Steps \union Commands : Rank(s) \in 1 .. 11
<1>1. \A c \in Commands : Rank(c) = 11 BY CommandRanks, Zenon DEF Commands
<1>2. ASSUME NEW s \in Steps PROVE Rank(s) \in 1 .. 10
  <2>1. CASE s \in {"collect", "reference", "resolve"} \X Tools
    <3>1. PICK k \in {"collect", "reference", "resolve"}, t \in Tools : s = <<k, t>> BY <2>1
    <3> QED BY <3>1 DEF Rank, Tools
  <2>2. CASE s \notin {"collect", "reference", "resolve"} \X Tools
    <3>1. Rank(s) \in {1, 2, 3, 4} BY <2>2, RankValues, Zenon DEF Steps
    <3> QED BY <3>1
  <2> QED BY <2>1, <2>2
<1>3. \A s \in Steps : s \notin Commands BY <1>1, <1>2
<1> QED BY <1>1, <1>2, <1>3

\* The first thing to do has the least rank.
LEMMA HeadLeast ==
  ASSUME QueueInv, NEW s, Pending(s)
  PROVE  /\ todo # << >> /\ s \in Steps \union Commands /\ Head(todo) \in Steps \union Commands
         /\ s = Head(todo) \/ Rank(Head(todo)) < Rank(s) \/ {s, Head(todo)} \subseteq Commands
<1>1. PICK i \in DOMAIN todo : todo[i] = s BY DEF Pending
<1>2. todo \in Seq(Steps \union Commands) /\ Ordered(todo) BY DEF QueueInv
<1>3. i \in 1 .. Len(todo) /\ 1 \in DOMAIN todo /\ Head(todo) = todo[1] /\ todo # << >>
  BY <1>1, <1>2
<1>4. s \in Steps \union Commands /\ Head(todo) \in Steps \union Commands BY <1>1, <1>2, <1>3
<1>5. CASE i = 1 BY <1>1, <1>3, <1>4, <1>5
<1>6. CASE 1 < i BY <1>1, <1>2, <1>3, <1>4, <1>6 DEF Ordered
<1> QED BY <1>3, <1>4, <1>5, <1>6

\* A step that is done is pending no more, everything else still is.
LEMMA FinishQueue ==
  ASSUME QueueInv, Running, todo # << >>, Head(todo) \in Steps, todo' = Tail(todo),
         UNCHANGED <<exit, line>>
  PROVE  /\ QueueInv'
         /\ \A s : Pending(s)' <=> Pending(s) /\ s # Head(todo)
<1>1. todo \in Seq(Steps \union Commands) /\ Ordered(todo) /\ Len(todo) \in Nat \ {0}
  BY DEF QueueInv
<1>2. /\ todo' \in Seq(Steps \union Commands) /\ Len(todo') = Len(todo) - 1
      /\ \A i \in 1 .. Len(todo') : todo'[i] = todo[i + 1]
      /\ Head(todo) = todo[1] /\ DOMAIN todo' = 1 .. Len(todo') /\ DOMAIN todo = 1 .. Len(todo)
  BY <1>1
<1>3. ASSUME NEW s PROVE Pending(s)' <=> Pending(s) /\ s # Head(todo)
  <2>1. ASSUME Pending(s)' PROVE Pending(s) /\ s # Head(todo)
    <3>1. PICK i \in 1 .. Len(todo') : todo'[i] = s BY <1>2, <2>1 DEF Pending
    <3>2. i + 1 \in DOMAIN todo /\ todo[i + 1] = s /\ 1 \in DOMAIN todo /\ 1 < i + 1
      BY <1>1, <1>2, <3>1
    <3>3. Rank(todo[1]) < Rank(s) \/ {todo[1], s} \subseteq Commands BY <1>1, <3>2 DEF Ordered
    <3>4. todo[1] \notin Commands /\ Rank(todo[1]) \in Nat BY <1>2, StepShapes
    <3>5. s # todo[1] BY <3>3, <3>4
    <3> QED BY <1>2, <3>2, <3>5 DEF Pending
  <2>2. ASSUME Pending(s), s # Head(todo) PROVE Pending(s)'
    <3>1. PICK i \in 1 .. Len(todo) : todo[i] = s BY <1>2, <2>2 DEF Pending
    <3>2. i - 1 \in 1 .. Len(todo') /\ todo'[i - 1] = s
      BY <1>1, <1>2, <2>2, <3>1
    <3> QED BY <1>2, <3>2 DEF Pending
  <2> QED BY <2>1, <2>2
<1>4. Ordered(todo')
  <2> SUFFICES ASSUME NEW i \in DOMAIN todo', NEW j \in DOMAIN todo', i < j
               PROVE  Rank(todo'[i]) < Rank(todo'[j]) \/ {todo'[i], todo'[j]} \subseteq Commands
    BY DEF Ordered
  <2>1. i + 1 \in DOMAIN todo /\ j + 1 \in DOMAIN todo /\ i + 1 < j + 1 BY <1>1, <1>2
  <2>2. todo'[i] = todo[i + 1] /\ todo'[j] = todo[j + 1] BY <1>2
  <2> QED BY <1>1, <2>1, <2>2 DEF Ordered
<1>5. ASSUME NEW c \in Commands, Pending(c)'
      PROVE  line # << >> /\ todo'[Len(todo')] = line[Len(line)]
  <2>1. Pending(c) BY <1>3, <1>5
  <2>2. line # << >> /\ todo[Len(todo)] = line[Len(line)] BY <2>1 DEF QueueInv
  <2>3. Len(todo') \in 1 .. Len(todo') BY <1>1, <1>2, <1>5 DEF Pending
  <2>4. todo'[Len(todo')] = todo[Len(todo)] BY <1>1, <1>2, <2>3
  <2> QED BY <2>2, <2>4
<1>6. line' \in Seq(Commands) /\ exit' = "running" BY DEF QueueInv, Running
<1>7. QueueInv' BY <1>2, <1>4, <1>5, <1>6 DEF QueueInv
<1> QED BY <1>3, <1>7

-----------------------------------------------------------------------------
(* Plans: ordered sequences of steps and commands, by their elements.      *)

IsPlan(steps, S) ==
  /\ steps \in Seq(Steps \union Commands) /\ Ordered(steps)
  /\ \A s : s \in S <=> \E i \in DOMAIN steps : steps[i] = s

LEMMA PlanNone == IsPlan(<< >>, {})
  BY DEF IsPlan, Ordered

LEMMA PlanOne ==
  ASSUME NEW s \in Steps
  PROVE  IsPlan(<<s>>, {s})
<1>1. DOMAIN <<s>> = {1} /\ <<s>>[1] = s /\ <<s>> \in Seq(Steps \union Commands) OBVIOUS
<1> QED BY <1>1 DEF IsPlan, Ordered

LEMMA PlanConcat ==
  ASSUME NEW p, NEW q, NEW S, NEW R, IsPlan(p, S), IsPlan(q, R),
         \A s \in S, r \in R : Rank(s) < Rank(r)
  PROVE  IsPlan(p \o q, S \union R)
<1> DEFINE pq == p \o q
<1>1. /\ p \in Seq(Steps \union Commands) /\ q \in Seq(Steps \union Commands)
      /\ Ordered(p) /\ Ordered(q)
  BY DEF IsPlan
<1>2. /\ pq \in Seq(Steps \union Commands) /\ Len(pq) = Len(p) + Len(q)
      /\ \A i \in 1 .. Len(p) : pq[i] = p[i]
      /\ \A i \in Len(p) + 1 .. Len(p) + Len(q) : pq[i] = q[i - Len(p)]
      /\ DOMAIN pq = 1 .. Len(pq) /\ DOMAIN p = 1 .. Len(p) /\ DOMAIN q = 1 .. Len(q)
      /\ Len(p) \in Nat /\ Len(q) \in Nat
  BY <1>1
<1> HIDE DEF pq
<1>3. ASSUME NEW i \in DOMAIN pq
      PROVE  \/ i \in DOMAIN p /\ pq[i] = p[i] /\ pq[i] \in S
             \/ i - Len(p) \in DOMAIN q /\ pq[i] = q[i - Len(p)] /\ pq[i] \in R
  <2>1. CASE i <= Len(p)
    <3>1. i \in DOMAIN p /\ pq[i] = p[i] BY <1>2, <2>1
    <3> QED BY <3>1 DEF IsPlan
  <2>2. CASE Len(p) < i
    <3>1. i - Len(p) \in DOMAIN q /\ pq[i] = q[i - Len(p)] BY <1>2, <2>2
    <3> QED BY <3>1 DEF IsPlan
  <2> QED BY <1>2, <2>1, <2>2
<1>4. ASSUME NEW s PROVE s \in S \union R <=> \E i \in DOMAIN pq : pq[i] = s
  <2>1. ASSUME s \in S PROVE \E i \in DOMAIN pq : pq[i] = s
    <3>1. PICK i \in DOMAIN p : p[i] = s BY <2>1 DEF IsPlan
    <3>2. i \in DOMAIN pq /\ pq[i] = s BY <1>2, <3>1
    <3> QED BY <3>2
  <2>2. ASSUME s \in R PROVE \E i \in DOMAIN pq : pq[i] = s
    <3>1. PICK i \in DOMAIN q : q[i] = s BY <2>2 DEF IsPlan
    <3>2. i + Len(p) \in DOMAIN pq /\ pq[i + Len(p)] = s BY <1>2, <3>1
    <3> QED BY <3>2
  <2> QED BY <1>3, <2>1, <2>2
<1>5. Ordered(pq)
  <2> SUFFICES ASSUME NEW i \in DOMAIN pq, NEW j \in DOMAIN pq, i < j
               PROVE  Rank(pq[i]) < Rank(pq[j]) \/ {pq[i], pq[j]} \subseteq Commands
    BY DEF Ordered
  <2>1. CASE i \in DOMAIN p /\ j \in DOMAIN p BY <1>1, <1>2, <2>1 DEF Ordered
  <2>2. CASE i \in DOMAIN p /\ j \notin DOMAIN p BY <1>2, <1>3, <2>2
  <2>3. CASE i \notin DOMAIN p
    <3>1. /\ i - Len(p) \in DOMAIN q /\ j - Len(p) \in DOMAIN q /\ i - Len(p) < j - Len(p)
          /\ pq[i] = q[i - Len(p)] /\ pq[j] = q[j - Len(p)]
      BY <1>2, <2>3
    <3> QED BY <1>1, <3>1 DEF Ordered
  <2> QED BY <2>1, <2>2, <2>3
<1> QED BY <1>2, <1>4, <1>5 DEF IsPlan, pq

CollectionSet == {<<"collect", t>> : t \in tools}
AnalysisSet == {"reference", "resolve"} \X tools

\* The steps of a command.
PlanSet(c) ==
  CASE c = <<"adapter build">>  -> {<<"build resolver">>}
    [] c = <<"adapter clean">>  -> {<<"remove resolver">>}
    [] c = <<"adapter run">>    -> {<<"resolve", "vtune">>}
    [] c = <<"workload build">> -> {<<"build binary">>}
    [] c = <<"build">>   -> {<<"build binary">>, <<"build resolver">>}
    [] c = <<"run">>     -> {<<"clean">>} \union CollectionSet
    [] c = <<"analyze">> -> {<<"require json">>} \union AnalysisSet
    [] c = <<"all">>     -> {<<"clean">>, <<"build binary">>} \union CollectionSet \union AnalysisSet

LEMMA StepsAre ==
  /\ {<<"clean">>, <<"require json">>, <<"remove resolver">>, <<"build binary">>,
      <<"build resolver">>, <<"execute">>} \subseteq Steps
  /\ \A t \in Tools : {<<"collect", t>>, <<"reference", t>>, <<"resolve", t>>} \subseteq Steps
  BY DEF Steps

LEMMA PlanTwo ==
  ASSUME NEW s \in Steps, NEW r \in Steps, Rank(s) < Rank(r)
  PROVE  IsPlan(<<s, r>>, {s, r})
<1>1. <<s>> \o <<r>> = <<s, r>>
  <2>1. <<s>> \in Seq(Steps) /\ <<r>> \in Seq(Steps) /\ <<s, r>> \in Seq(Steps) OBVIOUS
  <2>2. /\ <<s>> \o <<r>> \in Seq(Steps) /\ Len(<<s>> \o <<r>>) = 2 /\ Len(<<s, r>>) = 2
        /\ (<<s>> \o <<r>>)[1] = s /\ (<<s>> \o <<r>>)[2] = r
    BY <2>1
  <2>3. <<s, r>>[1] = s /\ <<s, r>>[2] = r OBVIOUS
  <2>4. \A i \in 1 .. 2 : (<<s>> \o <<r>>)[i] = <<s, r>>[i] BY <2>2, <2>3
  <2> QED BY <2>1, <2>2, <2>4, SeqEqual
<1>2. IsPlan(<<s>> \o <<r>>, {s} \union {r}) BY PlanOne, PlanConcat
<1>3. {s} \union {r} = {s, r} OBVIOUS
<1> QED BY <1>1, <1>2, <1>3

\* Collecting comes before analysing, VTune before unitrace.
LEMMA RankOrder ==
  ASSUME tools \in SUBSET Tools
  PROVE  /\ \A s \in CollectionSet : s \in Steps /\ Rank(s) \in {5, 6}
         /\ \A s \in AnalysisSet : s \in Steps /\ Rank(s) \in 7 .. 10
<1>1. ASSUME NEW s \in CollectionSet PROVE s \in Steps /\ Rank(s) \in {5, 6}
  <2>1. PICK t \in Tools : s = <<"collect", t>> BY <1>1 DEF CollectionSet
  <2>2. s \in Steps BY <2>1, StepsAre
  <2>3. Rank(s) \in {5, 6} BY <2>1 DEF Rank, Tools
  <2> QED BY <2>2, <2>3
<1>2. ASSUME NEW s \in AnalysisSet PROVE s \in Steps /\ Rank(s) \in 7 .. 10
  <2>1. PICK t \in Tools : s = <<"reference", t>> \/ s = <<"resolve", t>> BY <1>2 DEF AnalysisSet
  <2>2. s \in Steps BY <2>1, StepsAre
  <2>3. Rank(s) \in {7, 8, 9, 10} BY <2>1, RankValues, Zenon DEF Tools
  <2> QED BY <2>2, <2>3
<1> QED BY <1>1, <1>2

LEMMA CollectionPlan ==
  ASSUME tools \in SUBSET Tools
  PROVE  IsPlan(Collection, CollectionSet)
<1> DEFINE v == <<"collect", "vtune">>
           u == <<"collect", "unitrace">>
           one == IF "vtune" \in tools THEN {v} ELSE {}
           two == IF "unitrace" \in tools THEN {u} ELSE {}
<1>1. v \in Steps /\ u \in Steps /\ Rank(v) < Rank(u)
  <2>1. v \in Steps /\ u \in Steps BY StepsAre DEF Tools
  <2>2. Rank(v) = 5 /\ Rank(u) = 6 BY RankValues
  <2> QED BY <2>1, <2>2
<1>2. CollectionSet = one \union two BY DEF CollectionSet, Tools
<1>3. Collection = IfSelected("vtune", <<v>>) \o IfSelected("unitrace", <<u>>) BY DEF Collection
<1> HIDE DEF v, u
<1>4. IsPlan(IfSelected("vtune", <<v>>), one) BY <1>1, PlanNone, PlanOne DEF IfSelected
<1>5. IsPlan(IfSelected("unitrace", <<u>>), two) BY <1>1, PlanNone, PlanOne DEF IfSelected
<1>6. \A s \in one, r \in two : Rank(s) < Rank(r) BY <1>1
<1> HIDE DEF one, two
<1> QED BY <1>2, <1>3, <1>4, <1>5, <1>6, PlanConcat

LEMMA AnalysisPlan ==
  ASSUME tools \in SUBSET Tools
  PROVE  IsPlan(Analysis, AnalysisSet)
<1> DEFINE v == <<"reference", "vtune">>
           w == <<"resolve", "vtune">>
           u == <<"reference", "unitrace">>
           x == <<"resolve", "unitrace">>
           one == IF "vtune" \in tools THEN {v, w} ELSE {}
           two == IF "unitrace" \in tools THEN {u, x} ELSE {}
<1>1. /\ {v, w, u, x} \subseteq Steps
      /\ Rank(v) = 7 /\ Rank(w) = 8 /\ Rank(u) = 9 /\ Rank(x) = 10
  BY RankValues, StepsAre DEF Tools
<1>2. AnalysisSet = one \union two
  <2>1. AnalysisSet = {<<"reference", t>> : t \in tools} \union {<<"resolve", t>> : t \in tools}
    BY DEF AnalysisSet
  <2> QED BY <2>1 DEF Tools
<1>3. Analysis = IfSelected("vtune", <<v, w>>) \o IfSelected("unitrace", <<u, x>>) BY DEF Analysis
<1> HIDE DEF v, u, w, x
<1>4. IsPlan(IfSelected("vtune", <<v, w>>), one) BY <1>1, PlanNone, PlanTwo DEF IfSelected
<1>5. IsPlan(IfSelected("unitrace", <<u, x>>), two) BY <1>1, PlanNone, PlanTwo DEF IfSelected
<1>6. \A s \in one, r \in two : Rank(s) < Rank(r) BY <1>1
<1> HIDE DEF one, two
<1> QED BY <1>2, <1>3, <1>4, <1>5, <1>6, PlanConcat

LEMMA CommandPlan ==
  ASSUME tools \in SUBSET Tools, NEW c \in Commands
  PROVE  IsPlan(StepsOf(c), PlanSet(c)) /\ PlanSet(c) \subseteq Steps
<1> DEFINE first == <<"clean">>
           req == <<"require json">>
           bin == <<"build binary">>
           res == <<"build resolver">>
<1>1. /\ {first, req, bin, res} \subseteq Steps
      /\ Rank(first) = 1 /\ Rank(req) = 1 /\ Rank(bin) = 2 /\ Rank(res) = 3
  BY RankValues, StepsAre
<1>2. /\ StepsOf(<<"run">>) = <<first>> \o Collection
      /\ PlanSet(<<"run">>) = {first} \union CollectionSet
  BY DEF StepsOf, PlanSet
<1>3. /\ StepsOf(<<"analyze">>) = <<req>> \o Analysis
      /\ PlanSet(<<"analyze">>) = {req} \union AnalysisSet
  BY DEF StepsOf, PlanSet
<1>4. /\ StepsOf(<<"all">>) = <<first, bin>> \o Collection \o Analysis
      /\ PlanSet(<<"all">>) = {first, bin} \union CollectionSet \union AnalysisSet
  BY DEF StepsOf, PlanSet
<1>5. StepsOf(<<"build">>) = <<bin, res>> /\ PlanSet(<<"build">>) = {bin, res}
  BY DEF StepsOf, PlanSet
<1>6. c \in {<<"adapter build">>, <<"adapter clean">>, <<"adapter run">>, <<"workload build">>} =>
        \E s \in Steps : StepsOf(c) = <<s>> /\ PlanSet(c) = {s}
  <2> DEFINE rem == <<"remove resolver">>
             run == <<"resolve", "vtune">>
  <2>1. StepsOf(<<"adapter build">>) = <<res>> /\ PlanSet(<<"adapter build">>) = {res}
    BY DEF StepsOf, PlanSet
  <2>2. StepsOf(<<"workload build">>) = <<bin>> /\ PlanSet(<<"workload build">>) = {bin}
    BY DEF StepsOf, PlanSet
  <2>3. StepsOf(<<"adapter clean">>) = <<rem>> /\ PlanSet(<<"adapter clean">>) = {rem}
    BY DEF StepsOf, PlanSet
  <2>4. StepsOf(<<"adapter run">>) = <<run>> /\ PlanSet(<<"adapter run">>) = {run}
    BY DEF StepsOf, PlanSet
  <2>5. rem \in Steps /\ run \in Steps BY StepsAre DEF Tools
  <2> HIDE DEF bin, res, rem, run
  <2> QED BY <1>1, <2>1, <2>2, <2>3, <2>4, <2>5, Zenon
<1> HIDE DEF first, req, bin, res
<1>7. CASE c = <<"run">>
  <2>1. \A s \in {first}, r \in CollectionSet : Rank(s) < Rank(r) BY <1>1, RankOrder
  <2>2. IsPlan(<<first>> \o Collection, {first} \union CollectionSet)
    BY <1>1, <2>1, CollectionPlan, PlanOne, PlanConcat
  <2> QED BY <1>1, <1>2, <1>7, <2>2, RankOrder
<1>8. CASE c = <<"analyze">>
  <2>1. \A s \in {req}, r \in AnalysisSet : Rank(s) < Rank(r) BY <1>1, RankOrder
  <2>2. IsPlan(<<req>> \o Analysis, {req} \union AnalysisSet)
    BY <1>1, <2>1, AnalysisPlan, PlanOne, PlanConcat
  <2> QED BY <1>1, <1>3, <1>8, <2>2, RankOrder
<1>9. CASE c = <<"all">>
  <2>1. IsPlan(<<first, bin>>, {first, bin}) BY <1>1, PlanTwo
  <2>2. \A s \in {first, bin}, r \in CollectionSet : Rank(s) < Rank(r) BY <1>1, RankOrder
  <2>3. IsPlan(<<first, bin>> \o Collection, {first, bin} \union CollectionSet)
    BY <2>1, <2>2, CollectionPlan, PlanConcat
  <2>4. \A s \in {first, bin} \union CollectionSet, r \in AnalysisSet : Rank(s) < Rank(r)
    <3> TAKE s \in {first, bin} \union CollectionSet, r \in AnalysisSet
    <3>1. Rank(s) \in 1 .. 6 BY <1>1, RankOrder
    <3>2. Rank(r) \in 7 .. 10 BY RankOrder
    <3> QED BY <3>1, <3>2
  <2>5. IsPlan(<<first, bin>> \o Collection \o Analysis,
               {first, bin} \union CollectionSet \union AnalysisSet)
    BY <2>3, <2>4, AnalysisPlan, PlanConcat
  <2> QED BY <1>1, <1>4, <1>9, <2>5, RankOrder
<1>10. CASE c = <<"build">> BY <1>1, <1>5, <1>10, PlanTwo
<1>11. CASE c \in {<<"adapter build">>, <<"adapter clean">>, <<"adapter run">>, <<"workload build">>}
  BY <1>6, <1>11, PlanOne
<1> QED BY <1>7, <1>8, <1>9, <1>10, <1>11, Zenon DEF Commands

\* A command that is begun is replaced by its steps.
LEMMA StartQueue ==
  ASSUME QueueInv, tools \in SUBSET Tools, Running, NEW c \in Commands, todo # << >>,
         Head(todo) = c, todo' = StepsOf(c) \o Tail(todo), UNCHANGED <<exit, line>>
  PROVE  /\ QueueInv'
         /\ \A s \in Steps : ~ Pending(s) /\ (Pending(s)' <=> s \in PlanSet(c))
         /\ \A d \in Commands : (Pending(d)' => Pending(d)) /\ (Pending(d) => d = c \/ Pending(d)')
         /\ \A i \in DOMAIN todo' : todo'[i] \in PlanSet(c) \union Commands
<1> DEFINE rest == Tail(todo)
           S == {todo[i] : i \in 2 .. Len(todo)}
<1>1. todo \in Seq(Steps \union Commands) /\ Ordered(todo) /\ Len(todo) \in Nat \ {0}
      /\ todo[1] = c /\ DOMAIN todo = 1 .. Len(todo)
  BY DEF QueueInv
<1>2. /\ rest \in Seq(Steps \union Commands) /\ Len(rest) = Len(todo) - 1
      /\ \A i \in 1 .. Len(rest) : rest[i] = todo[i + 1]
      /\ DOMAIN rest = 1 .. Len(rest)
  BY <1>1
<1> HIDE DEF rest
<1>3. ASSUME NEW i \in 1 .. Len(todo) PROVE todo[i] \in Commands
  <2>1. CASE i = 1 BY <1>1, <2>1
  <2>2. CASE 1 < i
    <3>1. Rank(c) < Rank(todo[i]) \/ {c, todo[i]} \subseteq Commands
      BY <1>1, <2>2 DEF Ordered
    <3>2. Rank(c) = 11 /\ Rank(todo[i]) \in 1 .. 11 BY <1>1, StepShapes
    <3> QED BY <3>1, <3>2
  <2> QED BY <2>1, <2>2
<1>4. IsPlan(rest, S)
  <2>1. Ordered(rest)
    <3> SUFFICES ASSUME NEW i \in DOMAIN rest, NEW j \in DOMAIN rest
                 PROVE  rest[i] \in Commands /\ rest[j] \in Commands
      BY DEF Ordered
    <3>1. /\ i + 1 \in 1 .. Len(todo) /\ rest[i] = todo[i + 1]
          /\ j + 1 \in 1 .. Len(todo) /\ rest[j] = todo[j + 1]
      BY <1>1, <1>2
    <3> QED BY <1>3, <3>1
  <2>2. ASSUME NEW s PROVE s \in S <=> \E i \in DOMAIN rest : rest[i] = s
    <3>1. ASSUME NEW i \in 2 .. Len(todo) PROVE i - 1 \in DOMAIN rest /\ rest[i - 1] = todo[i]
      BY <1>1, <1>2
    <3>2. ASSUME NEW i \in DOMAIN rest PROVE i + 1 \in 2 .. Len(todo) /\ rest[i] = todo[i + 1]
      BY <1>1, <1>2
    <3> QED BY <3>1, <3>2
  <2> QED BY <1>2, <2>1, <2>2 DEF IsPlan
<1>5. S \subseteq Commands BY <1>1, <1>3
<1>6. IsPlan(StepsOf(c), PlanSet(c)) /\ PlanSet(c) \subseteq Steps BY CommandPlan
<1>7. IsPlan(todo', PlanSet(c) \union S)
  <2>1. ASSUME NEW s \in PlanSet(c), NEW r \in S PROVE Rank(s) < Rank(r)
    <3>1. s \in Steps /\ r \in Commands BY <1>5, <1>6
    <3> QED BY <3>1, StepShapes
  <2> QED BY <1>4, <1>6, <2>1, PlanConcat DEF rest
<1>8. \A s : Pending(s)' <=> s \in PlanSet(c) \union S BY <1>7 DEF IsPlan, Pending
<1>9. \A s : Pending(s) <=> s = c \/ s \in S
  <2>1. ASSUME NEW i \in DOMAIN todo PROVE todo[i] = c \/ todo[i] \in S BY <1>1
  <2>2. ASSUME NEW s \in S PROVE Pending(s) BY <1>1 DEF Pending
  <2>3. Pending(c) BY <1>1 DEF Pending
  <2> QED BY <2>1, <2>2, <2>3 DEF Pending
<1>10. /\ \A s \in Steps : ~ Pending(s) /\ (Pending(s)' <=> s \in PlanSet(c))
       /\ \A d \in Commands : (Pending(d)' => Pending(d)) /\ (Pending(d) => d = c \/ Pending(d)')
  BY <1>5, <1>6, <1>8, <1>9, StepShapes
<1>11. \A i \in DOMAIN todo' : todo'[i] \in PlanSet(c) \union Commands
  BY <1>5, <1>7 DEF IsPlan
<1>12. ASSUME NEW d \in Commands, Pending(d)'
       PROVE  line # << >> /\ todo'[Len(todo')] = line[Len(line)]
  <2>1. d \in S BY <1>6, <1>8, <1>12, StepShapes
  <2>2. line # << >> /\ todo[Len(todo)] = line[Len(line)]
    BY <1>9, <2>1 DEF QueueInv
  <2>3. Len(rest) \in Nat \ {0} /\ rest[Len(rest)] = todo[Len(todo)] BY <1>1, <1>2, <2>1
  <2>4. StepsOf(c) \in Seq(Steps \union Commands) BY <1>6 DEF IsPlan
  <2>5. todo'[Len(todo')] = rest[Len(rest)] BY <1>2, <2>3, <2>4 DEF rest
  <2> QED BY <2>2, <2>3, <2>5
<1>13. QueueInv'
  <2>1. line' \in Seq(Commands) /\ exit' = "running" BY DEF QueueInv, Running
  <2> QED BY <1>7, <1>12, <2>1 DEF QueueInv, IsPlan
<1> QED BY <1>10, <1>11, <1>13

\* Steps that a resolve turns out to need are done before it.
LEMMA FirstQueue ==
  ASSUME QueueInv, Running, NEW t \in Tools, todo # << >>, Head(todo) = <<"resolve", t>>,
         NEW steps, NEW S, IsPlan(steps, S), \A s \in S : s \in Steps /\ Rank(s) \in 1 .. 4,
         todo' = steps \o todo, UNCHANGED <<exit, line>>
  PROVE  /\ QueueInv'
         /\ \A s : Pending(s)' <=> Pending(s) \/ s \in S
<1> DEFINE R == {todo[i] : i \in DOMAIN todo}
<1>1. todo \in Seq(Steps \union Commands) /\ Ordered(todo) /\ Len(todo) \in Nat \ {0}
      /\ DOMAIN todo = 1 .. Len(todo)
  BY DEF QueueInv
<1>2. IsPlan(todo, R) BY <1>1 DEF IsPlan
<1>3. \A s \in S, r \in R : Rank(s) < Rank(r)
  <2> TAKE s \in S, r \in R
  <2>1. Pending(r) BY DEF Pending
  <2>2. Rank(<<"resolve", t>>) \in {8, 10} BY RankValues DEF Tools
  <2>3. <<"resolve", t>> \in Steps /\ <<"resolve", t>> \notin Commands BY StepsAre, StepShapes
  <2>4. r = Head(todo) \/ Rank(Head(todo)) < Rank(r) BY <2>1, <2>3, HeadLeast
  <2>5. Rank(r) \in 1 .. 11 /\ Rank(s) \in 1 .. 4 BY <1>1, StepShapes
  <2>6. Rank(Head(todo)) \in {8, 10} BY <2>2
  <2> QED BY <2>4, <2>5, <2>6
<1>4. IsPlan(todo', S \union R) BY <1>2, <1>3, PlanConcat
<1>5. \A s : Pending(s)' <=> s \in S \union R BY <1>4 DEF IsPlan, Pending
<1>6. \A s : Pending(s) <=> s \in R BY DEF Pending
<1>7. ASSUME NEW d \in Commands, Pending(d)'
      PROVE  line # << >> /\ todo'[Len(todo')] = line[Len(line)]
  <2>1. d \in R BY <1>5, <1>7, StepShapes
  <2>2. line # << >> /\ todo[Len(todo)] = line[Len(line)] BY <1>6, <2>1 DEF QueueInv
  <2>3. steps \in Seq(Steps \union Commands) BY DEF IsPlan
  <2>4. todo'[Len(todo')] = todo[Len(todo)] BY <1>1, <2>3
  <2> QED BY <2>2, <2>4
<1>8. QueueInv'
  <2>1. line' \in Seq(Commands) /\ exit' = "running" BY DEF QueueInv, Running
  <2> QED BY <1>4, <1>7, <2>1 DEF QueueInv, IsPlan
<1> QED BY <1>5, <1>6, <1>8

\* A line of commands that is given has all of itself to do.
LEMMA InvokeQueue ==
  ASSUME NEW commands \in Seq(Commands), todo' = commands, line' = commands, exit' = "running"
  PROVE  /\ QueueInv'
         /\ \A s \in Steps : ~ Pending(s)'
         /\ \A c \in Commands : Pending(c)' <=> \E i \in DOMAIN commands : commands[i] = c
<1>1. \A i \in DOMAIN commands : commands[i] \in Commands OBVIOUS
<1>2. commands \in Seq(Steps \union Commands) OBVIOUS
<1>3. Ordered(todo') BY <1>1 DEF Ordered
<1>4. commands = << >> \/ (Len(commands) \in DOMAIN commands) OBVIOUS
<1>5. QueueInv' BY <1>2, <1>3, <1>4 DEF QueueInv, Pending
<1> QED BY <1>1, <1>5, StepShapes DEF Pending

\* A script that has stopped has nothing left to do.
LEMMA StopQueue ==
  ASSUME QueueInv, todo' = << >>, UNCHANGED line
  PROVE  QueueInv' /\ \A s : ~ Pending(s)'
  BY DEF QueueInv, Ordered, Pending

-----------------------------------------------------------------------------
(* What steps have in common.                                              *)

\* A step that makes no manifest and no report and comes no nearer to making one.
LEMMA ReportKept ==
  ASSUME ReportInv, Analysing' => Analysing, UNCHANGED <<line, tools>>,
         ToClean' \/ Collecting' => ToClean \/ Collecting,
         \A t \in tools :
           /\ here'.manifest[t] = here.manifest[t] /\ here'.report[t] = here.report[t]
           /\ here'.samples[t] = here.samples[t]
           /\ ToRefer(t)' <=> ToRefer(t)
           /\ ToResolve(t)' <=> ToResolve(t)
  PROVE  ReportInv'
<1> SUFFICES ASSUME Analysing', NEW t \in tools'
             PROVE  (/\ ToClean \/ Collecting => ToRefer(t)
                     /\ ToRefer(t) => ToResolve(t)
                     /\ ~ ToRefer(t) =>
                          /\ here.manifest[t].of = here.samples[t].of
                          /\ Asked("run") \/ Asked("all") => here.manifest[t].whole
                     /\ ~ ToResolve(t) =>
                          /\ here.report[t].fresh /\ here.report[t].of = here.samples[t].of
                          /\ Asked("run") \/ Asked("all") => here.report[t].whole)'
  BY DEF ReportInv
<1>1. Analysing /\ t \in tools OBVIOUS
<1>2. /\ here'.manifest[t] = here.manifest[t] /\ here'.report[t] = here.report[t]
      /\ here'.samples[t] = here.samples[t]
      /\ ToRefer(t)' <=> ToRefer(t)
      /\ ToResolve(t)' <=> ToResolve(t)
      /\ Asked("run")' <=> Asked("run")
      /\ Asked("all")' <=> Asked("all")
  BY <1>1 DEF Asked
<1>3. /\ ToClean \/ Collecting => ToRefer(t)
      /\ ToRefer(t) => ToResolve(t)
      /\ ~ ToRefer(t) =>
           /\ here.manifest[t].of = here.samples[t].of
           /\ Asked("run") \/ Asked("all") => here.manifest[t].whole
      /\ ~ ToResolve(t) =>
           /\ here.report[t].fresh /\ here.report[t].of = here.samples[t].of
           /\ Asked("run") \/ Asked("all") => here.report[t].whole
  BY <1>1, Zenon DEF ReportInv
<1> QED BY <1>2, <1>3

\* A script that dies leaves nothing but directories behind.
LEMMA DieStep ==
  ASSUME WorkflowInv, todo' = << >>, attempt' = 0,
         exit' \in ExitCodes, exit' \notin {"running", "success"},
         UNCHANGED <<version, given>>, DiskInv', BooleanTypes'
  PROVE  WorkflowInv'
<1>1. QueueInv' /\ \A s : ~ Pending(s)' BY StopQueue DEF WorkflowInv, given
<1>2. CollectOrder' BY <1>1 DEF CollectOrder
<1>3. StateTypes'
  <2>1. 0 \in 0 .. MaxAttempts BY DwarfCheckAssumption
  <2>2. UNCHANGED <<version, configuration, tools, invocations>> BY DEF given
  <2>3. StateTypes BY DEF WorkflowInv
  <2> QED BY <2>1, <2>2, <2>3 DEF StateTypes
<1>4. AttemptInv' BY DEF AttemptInv
<1>5. CollectedInv' /\ BuiltInv' /\ CleanInv' /\ ReportInv' /\ AnalyzeInv'
  BY DEF CollectedInv, BuiltInv, CleanInv, ReportInv, AnalyzeInv, Past, Analysing, Alive, Running
<1> QED BY <1>1, <1>2, <1>3, <1>4, <1>5 DEF WorkflowInv

\* Where the script is, from what it is about to do.
LEMMA DoingPending ==
  ASSUME QueueInv, NEW s \in Steps, Doing(s)
  PROVE  /\ Running /\ todo # << >> /\ Head(todo) = s /\ Pending(s)
         /\ \A r : Pending(r) => r = s \/ Rank(s) < Rank(r)
<1>1. Running /\ todo # << >> /\ Head(todo) = s BY DEF Doing
<1>2. todo \in Seq(Steps \union Commands) BY DEF QueueInv
<1>3. Pending(s)
  <2>1. 1 \in DOMAIN todo /\ todo[1] = s BY <1>1, <1>2
  <2> QED BY <2>1 DEF Pending
<1>4. s \notin Commands BY StepShapes
<1> QED BY <1>1, <1>3, <1>4, HeadLeast

\* The order of collections survives the end of a step.
LEMMA FinishOrder ==
  ASSUME QueueInv, CollectOrder, NEW s \in Steps, Doing(s), Finish, UNCHANGED <<line, tools>>
  PROVE  /\ QueueInv' /\ CollectOrder'
         /\ \A r : Pending(r)' <=> Pending(r) /\ r # s
         /\ ~ Pending(<<"clean">>)'
<1> DEFINE v == <<"collect", "vtune">>
           u == <<"collect", "unitrace">>
           cl == <<"clean">>
<1>1. /\ Running /\ todo # << >> /\ Head(todo) = s
      /\ \A r : Pending(r) => r = s \/ Rank(s) < Rank(r)
  BY DoingPending
<1>2. QueueInv' /\ \A r : Pending(r)' <=> Pending(r) /\ r # s
  BY <1>1, FinishQueue DEF Finish
<1>3. Rank(v) = 5 /\ Rank(u) = 6 /\ Rank(cl) = 1 /\ Rank(s) \in 1 .. 10 BY RankValues, StepShapes
<1>4. u \notin Commands /\ v \notin Commands BY StepsAre, StepShapes DEF Tools
<1>5. u # v OBVIOUS
<1>6. /\ Pending(u) /\ "vtune" \in tools => Pending(v) \/ Head(todo) = u
      /\ Pending(v) /\ "unitrace" \in tools => Pending(u)
  BY DEF CollectOrder
<1> HIDE DEF v, u, cl
<1>7. ~ Pending(cl)' BY <1>1, <1>2, <1>3
<1>8. ASSUME Pending(u)', "vtune" \in tools PROVE Pending(v)' \/ Head(todo)' = u
  <2>1. Pending(u) /\ s # u BY <1>2, <1>8
  <2>2. Pending(v) BY <1>1, <1>6, <1>8, <2>1
  <2>3. CASE s = v
    <3>1. /\ todo' # << >> /\ Head(todo') \in Steps \union Commands
          /\ u = Head(todo') \/ Rank(Head(todo')) < Rank(u)
      <4>1. todo' # << >> /\ todo' \in Seq(Steps \union Commands)
        <5>1. \E i \in DOMAIN todo' : todo'[i] = u BY <1>8 DEF Pending
        <5> QED BY <1>2, <5>1 DEF QueueInv
      <4>2. Ordered(todo') BY <1>2 DEF QueueInv
      <4>3. PICK i \in DOMAIN todo' : todo'[i] = u BY <1>8 DEF Pending
      <4>4. 1 \in DOMAIN todo' /\ Head(todo') = todo'[1] /\ i \in 1 .. Len(todo') BY <4>1, <4>3
      <4>5. i = 1 \/ 1 < i BY <4>1, <4>4
      <4> QED BY <1>4, <4>1, <4>2, <4>3, <4>4, <4>5 DEF Ordered
    <3>2. ASSUME NEW h, h = Head(todo') PROVE Pending(h)'
      <4>1. todo' \in Seq(Steps \union Commands) BY <1>2 DEF QueueInv
      <4>2. 1 \in DOMAIN todo' /\ h = todo'[1] BY <3>1, <3>2, <4>1
      <4> QED BY <4>2 DEF Pending
    <3>3. Rank(v) < Rank(Head(todo'))
      <4>1. ASSUME NEW h, h = Head(todo') PROVE Rank(v) < Rank(h) BY <1>1, <1>2, <2>3, <3>2, <4>1
      <4> QED BY <4>1
    <3>4. Rank(Head(todo')) \in 1 .. 11 BY <3>1, StepShapes
    <3> QED BY <1>3, <3>1, <3>3, <3>4
  <2> QED BY <1>2, <2>2, <2>3
<1>9. ASSUME Pending(v)', "unitrace" \in tools PROVE Pending(u)'
  <2>1. Pending(v) /\ s # v BY <1>2, <1>9
  <2>2. Pending(u) /\ Rank(s) < Rank(v) BY <1>1, <1>6, <1>9, <2>1
  <2>3. s # u BY <1>3, <2>2
  <2> QED BY <1>2, <2>2, <2>3
<1>10. CollectOrder' BY <1>7, <1>8, <1>9 DEF CollectOrder, v, u, cl
<1> QED BY <1>2, <1>7, <1>10 DEF cl

\* What an analysis alone may have to do.
AnalyzeSteps ==
  {<<"require json">>, <<"build resolver">>} \union {"reference", "resolve"} \X Tools

\* The end of a step leaves the script in the same part of its line.
LEMMA FinishStep ==
  ASSUME WorkflowInv, NEW s \in Steps, Doing(s), Finish, UNCHANGED <<version, given>>
  PROVE  /\ QueueInv' /\ CollectOrder' /\ StateTypes' /\ AttemptInv'
         /\ Running /\ Running' /\ (Past' <=> Past) /\ (Analysing' <=> Analysing)
         /\ \A r : Pending(r)' <=> Pending(r) /\ r # s
         /\ \A c \in Commands : Pending(c)' <=> Pending(c)
         /\ \A r : Pending(r) => r = s \/ Rank(s) < Rank(r)
         /\ line = << <<"analyze">> >> =>
              s \in AnalyzeSteps /\ \A i \in DOMAIN todo' : todo'[i] \in AnalyzeSteps
<1>1. QueueInv /\ CollectOrder /\ StateTypes BY DEF WorkflowInv
<1>2. UNCHANGED <<line, tools, configuration, invocations, clean, exit>> BY DEF given, Finish
<1>3. /\ QueueInv' /\ CollectOrder' /\ \A r : Pending(r)' <=> Pending(r) /\ r # s
      /\ Running /\ todo # << >> /\ Head(todo) = s /\ Pending(s)
      /\ \A r : Pending(r) => r = s \/ Rank(s) < Rank(r)
  BY <1>1, <1>2, DoingPending, FinishOrder
<1>4. StateTypes'
  <2>1. attempt' \in 0 .. MaxAttempts BY DwarfCheckAssumption DEF Finish
  <2> QED BY <1>1, <1>2, <2>1 DEF StateTypes
<1>5. AttemptInv' BY DEF AttemptInv, Finish
<1>6. \A c \in Commands : Pending(c)' <=> Pending(c) BY <1>3, StepShapes
<1>7. (Past' <=> Past) /\ (Analysing' <=> Analysing)
  <2>1. <<"run">> \in Commands /\ <<"all">> \in Commands BY DEF Commands
  <2> QED BY <1>2, <1>6, <2>1, Zenon DEF Past, Analysing, Alive, Asked, EndsWith
<1>8. Running' BY <1>2, <1>3 DEF Running
<1>9. ASSUME line = << <<"analyze">> >>
      PROVE  s \in AnalyzeSteps /\ \A i \in DOMAIN todo' : todo'[i] \in AnalyzeSteps
  <2>1. todo # << <<"analyze">> >>
    <3>1. <<"analyze">> \notin Steps BY StepShapes DEF Commands
    <3>2. Head(<< <<"analyze">> >>) = <<"analyze">> OBVIOUS
    <3> QED BY <1>3, <3>1, <3>2
  <2>2. \A i \in DOMAIN todo : todo[i] \in AnalyzeSteps
    BY <1>3, <1>9, <2>1 DEF WorkflowInv, AnalyzeInv, AnalyzeSteps
  <2>3. \A r : Pending(r) => r \in AnalyzeSteps BY <2>2 DEF Pending
  <2>4. ASSUME NEW i \in DOMAIN todo' PROVE todo'[i] \in AnalyzeSteps
    <3>1. ASSUME NEW r, r = todo'[i] PROVE r \in AnalyzeSteps
      <4>1. Pending(r)' BY <3>1 DEF Pending
      <4> QED BY <1>3, <2>3, <4>1
    <3> QED BY <3>1
  <2> QED BY <1>3, <2>3, <2>4
<1> QED BY <1>3, <1>4, <1>5, <1>6, <1>7, <1>8, <1>9

\* A change of the directory the invocation works in.
LEMMA ChangeSound ==
  ASSUME DiskInv, StateTypes, NEW d, DirectorySound(d), Change(d), UNCHANGED configuration
  PROVE  DiskInv' /\ here' = d
<1>1. configuration \in Configurations BY DEF StateTypes
<1>2. /\ disk' = [disk EXCEPT ![configuration] = d]
      /\ disk \in [Configurations -> Directory] /\ \A c \in Configurations : DirectorySound(disk[c])
  BY DEF Change, DiskInv
<1>3. d \in Directory BY DEF DirectorySound
<1>4. disk' \in [Configurations -> Directory] /\ disk'[configuration] = d BY <1>1, <1>2, <1>3
<1>5. \A c \in Configurations : DirectorySound(disk'[c])
  <2> TAKE c \in Configurations
  <2>1. CASE c = configuration BY <1>4, <2>1
  <2>2. CASE c # configuration
    <3>1. disk'[c] = disk[c] BY <1>2, <2>2
    <3> QED BY <1>2, <3>1
  <2> QED BY <2>1, <2>2
<1> QED BY <1>4, <1>5 DEF DiskInv, here, DirectorySound, Sound

LEMMA HereSound ==
  ASSUME DiskInv, StateTypes
  PROVE  DirectorySound(here)
  BY DEF DiskInv, StateTypes, here

\* The ranks of the steps of a tool.
LEMMA ToolRanks ==
  ASSUME NEW t \in Tools
  PROVE  /\ {<<"collect", t>>, <<"reference", t>>, <<"resolve", t>>} \subseteq Steps
         /\ Rank(<<"collect", t>>) \in {5, 6} /\ Rank(<<"reference", t>>) \in {7, 9}
         /\ Rank(<<"resolve", t>>) \in {8, 10} /\ Rank(<<"reference", t>>) < Rank(<<"resolve", t>>)
<1>1. {<<"collect", t>>, <<"reference", t>>, <<"resolve", t>>} \subseteq Steps BY StepsAre, Zenon
<1>2. \/ /\ Rank(<<"collect", t>>) = 5 /\ Rank(<<"reference", t>>) = 7
         /\ Rank(<<"resolve", t>>) = 8
      \/ /\ Rank(<<"collect", t>>) = 6 /\ Rank(<<"reference", t>>) = 9
         /\ Rank(<<"resolve", t>>) = 10
  BY RankValues, Zenon DEF Tools
<1> QED BY <1>1, <1>2

\* What is still to do after a step, by the rank of the step.
LEMMA FinishFlags ==
  ASSUME WorkflowInv, NEW s \in Steps, Doing(s), Finish, UNCHANGED <<version, given>>
  PROVE  /\ ~ ToClean' /\ (ToBuild' => ToBuild) /\ (ToExecute' => ToExecute)
         /\ Rank(s) # 2 => (ToBuild' <=> ToBuild)
         /\ Rank(s) > 1 => ~ ToClean
         /\ Rank(s) > 2 => ~ ToBuild
         /\ Rank(s) > 4 => ~ ToExecute
         /\ Rank(s) > 6 => ~ Collecting
         /\ \A t \in Tools :
              /\ ToCollect(t)' <=> ToCollect(t) /\ s # <<"collect", t>>
              /\ ToRefer(t)' <=> ToRefer(t) /\ s # <<"reference", t>>
              /\ ToResolve(t)' <=> ToResolve(t) /\ s # <<"resolve", t>>
              /\ Rank(s) \notin {5, 6} => (ToCollect(t)' <=> ToCollect(t))
              /\ Rank(s) \notin {7, 9} => (ToRefer(t)' <=> ToRefer(t))
              /\ Rank(s) \notin {8, 10} => (ToResolve(t)' <=> ToResolve(t))
         /\ Rank(s) \notin {5, 6} => (Collecting' <=> Collecting)
<1> DEFINE col(t) == <<"collect", t>>
           ref(t) == <<"reference", t>>
           rep(t) == <<"resolve", t>>
           exe == <<"execute">>
           cl == <<"clean">>
           bin == <<"build binary">>
<1>1. /\ \A r : Pending(r)' <=> Pending(r) /\ r # s
      /\ \A r : Pending(r) => r = s \/ Rank(s) < Rank(r)
      /\ Rank(s) \in 1 .. 10
  BY FinishStep, StepShapes
<1>2. /\ \A t \in Tools : Rank(col(t)) \in {5, 6} /\ Rank(ref(t)) \in {7, 9} /\ Rank(rep(t)) \in {8, 10}
      /\ Rank(exe) = 4 /\ Rank(bin) = 2 /\ Rank(cl) = 1
  BY ToolRanks, RankValues, Zenon
<1>3. ~ Pending(cl)' BY FinishOrder DEF WorkflowInv, given
<1> HIDE DEF col, ref, rep, exe, cl, bin
<1>4. /\ (Pending(bin)' => Pending(bin)) /\ (Pending(exe)' => Pending(exe))
      /\ Rank(s) # 2 => (Pending(bin)' <=> Pending(bin))
      /\ Rank(s) > 1 => ~ Pending(cl)
      /\ Rank(s) > 2 => ~ Pending(bin)
      /\ Rank(s) > 4 => ~ Pending(exe)
  BY <1>1, <1>2
<1>5. ASSUME NEW t \in Tools
      PROVE  /\ Pending(col(t))' <=> Pending(col(t)) /\ s # col(t)
             /\ Pending(ref(t))' <=> Pending(ref(t)) /\ s # ref(t)
             /\ Pending(rep(t))' <=> Pending(rep(t)) /\ s # rep(t)
             /\ Rank(s) \notin {5, 6} => (Pending(col(t))' <=> Pending(col(t)))
             /\ Rank(s) \notin {7, 9} => (Pending(ref(t))' <=> Pending(ref(t)))
             /\ Rank(s) \notin {8, 10} => (Pending(rep(t))' <=> Pending(rep(t)))
             /\ Rank(s) > 6 => ~ Pending(col(t))
  <2>1. Rank(col(t)) \in {5, 6} /\ Rank(ref(t)) \in {7, 9} /\ Rank(rep(t)) \in {8, 10} BY <1>2
  <2>2. /\ Pending(col(t))' <=> Pending(col(t)) /\ s # col(t)
        /\ Pending(ref(t))' <=> Pending(ref(t)) /\ s # ref(t)
        /\ Pending(rep(t))' <=> Pending(rep(t)) /\ s # rep(t)
    BY <1>1
  <2>3. Rank(s) > 6 => ~ Pending(col(t)) BY <1>1, <2>1
  <2> QED BY <2>1, <2>2, <2>3
<1>6. /\ Rank(s) > 6 => ~ Collecting
      /\ Rank(s) \notin {5, 6} => (Collecting' <=> Collecting)
  BY <1>5, Zenon DEF Collecting, ToCollect, col
<1> QED BY <1>3, <1>4, <1>5, <1>6, Zenon
        DEF ToClean, ToBuild, ToExecute, ToCollect, ToRefer, ToResolve, col, ref, rep, exe, cl, bin

-----------------------------------------------------------------------------
(* One lemma for each kind of step.                                        *)

LEMMA AnalyzeAlone == Head(<< <<"analyze">> >>) = <<"analyze">> /\ <<"analyze">> \notin Steps
<1>1. <<"analyze">> \notin Steps BY StepShapes DEF Commands
<1>2. Head(<< <<"analyze">> >>) = <<"analyze">> OBVIOUS
<1> QED BY <1>1, <1>2

LEMMA AnalyzeRanks ==
  /\ \A s \in AnalyzeSteps : s # <<"clean">> /\ Rank(s) \in {1, 3, 7, 8, 9, 10}
  /\ \A s : s = <<"clean">> \/ Rank(s) \in {2, 4, 5, 6} => s \notin AnalyzeSteps /\ s # <<"require json">>
<1> DEFINE req == <<"require json">>
           res == <<"build resolver">>
           cl == <<"clean">>
<1>1. req # cl /\ res # cl OBVIOUS
<1>2. Rank(req) = 1 /\ Rank(res) = 3 /\ Rank(cl) = 1 BY RankValues
<1> HIDE DEF req, res, cl
<1>3. ASSUME NEW s \in AnalyzeSteps PROVE s # cl /\ Rank(s) \in {1, 3, 7, 8, 9, 10}
  <2>1. s = req \/ s = res \/ \E t \in Tools : s = <<"reference", t>> \/ s = <<"resolve", t>>
    <3> DEFINE S == {"reference", "resolve"} \X Tools
    <3>1. s \in {req, res} \union S BY <1>3, Zenon DEF AnalyzeSteps, req, res
    <3>2. ASSUME s \in S PROVE \E t \in Tools : s = <<"reference", t>> \/ s = <<"resolve", t>>
      BY <3>2
    <3> HIDE DEF S
    <3> QED BY <3>1, <3>2
  <2>2. CASE s = req \/ s = res BY <1>1, <1>2, <2>2
  <2>3. CASE \E t \in Tools : s = <<"reference", t>> \/ s = <<"resolve", t>>
    <3>1. Rank(s) \in {7, 8, 9, 10} BY <2>3, RankValues, Zenon DEF Tools
    <3> QED BY <1>2, <3>1
  <2> QED BY <2>1, <2>2, <2>3
<1>4. ASSUME NEW s, s = cl \/ Rank(s) \in {2, 4, 5, 6} PROVE s \notin AnalyzeSteps /\ s # req
  BY <1>1, <1>2, <1>3, <1>4
<1> QED BY <1>3, <1>4 DEF cl, req

\* An analysis alone that ends a step keeps, or has just found, the manifest.
LEMMA FinishAnalyze ==
  ASSUME WorkflowInv, NEW s \in Steps, Doing(s), Finish, UNCHANGED <<version, given>>,
         s = <<"require json">> => Present(here.json)',
         s \in AnalyzeSteps => here'.json = here.json
  PROVE  AnalyzeInv'
<1>1. /\ \A r : Pending(r)' <=> Pending(r) /\ r # s
      /\ Running /\ Pending(s) /\ todo # << >> /\ Head(todo) = s
      /\ line = << <<"analyze">> >> =>
           s \in AnalyzeSteps /\ \A i \in DOMAIN todo' : todo'[i] \in AnalyzeSteps
  BY FinishStep, DoingPending DEF WorkflowInv
<1>2. UNCHANGED line BY DEF given
<1>3. ASSUME line = << <<"analyze">> >>, ~ Pending(<<"require json">>)' PROVE Present(here.json)'
  <2>1. CASE s = <<"require json">> BY <2>1
  <2>2. CASE s # <<"require json">>
    <3>1. ~ Pending(<<"require json">>) BY <1>1, <1>3, <2>2
    <3>2. todo # << <<"analyze">> >> BY <1>1, AnalyzeAlone
    <3>3. Present(here.json) BY <1>1, <1>3, <3>1, <3>2 DEF WorkflowInv, AnalyzeInv
    <3>4. here'.json = here.json BY <1>1, <1>3
    <3> QED BY <3>3, <3>4 DEF Present
  <2> QED BY <2>1, <2>2
<1>4. ASSUME line = << <<"analyze">> >> PROVE \A i \in DOMAIN todo' : todo'[i] \in AnalyzeSteps
  BY <1>1, <1>4
<1> QED BY <1>2, <1>3, <1>4 DEF AnalyzeInv, AnalyzeSteps

\* Steps that leave the directories alone.
QuietSteps == {<<"build resolver">>, <<"remove resolver">>, <<"require json">>}

LEMMA QuietFinish ==
  ASSUME WorkflowInv, NEW s \in QuietSteps, Doing(s), Finish,
         UNCHANGED <<version, disk, given>>, resolver' \in BOOLEAN, AnalyzeInv'
  PROVE  WorkflowInv'
<1>1. s \in Steps /\ Rank(s) \in {1, 3} /\ s # <<"clean">>
  <2>1. Rank(s) = 1 \/ Rank(s) = 3 BY RankValues, Zenon DEF QuietSteps
  <2>2. /\ <<"build resolver">> # <<"clean">> /\ <<"remove resolver">> # <<"clean">>
        /\ <<"require json">> # <<"clean">>
    OBVIOUS
  <2>3. s # <<"clean">> BY <2>2, Zenon DEF QuietSteps
  <2>4. s \in Steps BY StepsAre, Zenon DEF QuietSteps
  <2> QED BY <2>1, <2>3, <2>4
<1>2. /\ QueueInv' /\ CollectOrder' /\ StateTypes' /\ AttemptInv'
      /\ Running /\ Running' /\ (Past' <=> Past) /\ (Analysing' <=> Analysing)
      /\ \A r : Pending(r)' <=> Pending(r) /\ r # s
      /\ \A c \in Commands : Pending(c)' <=> Pending(c)
  BY <1>1, FinishStep
<1>3. UNCHANGED <<here, aot, tools, clean, line, configuration, exit>> BY DEF here, aot, given, Finish
<1>4. /\ ToClean' <=> ToClean
      /\ ToBuild' <=> ToBuild
      /\ ToExecute' => ToExecute
      /\ \A t \in Tools : /\ ToCollect(t)' <=> ToCollect(t)
                          /\ ToRefer(t)' <=> ToRefer(t)
                          /\ ToResolve(t)' <=> ToResolve(t)
      /\ Collecting' <=> Collecting
  <2>1. ToClean' <=> ToClean BY <1>1, <1>2, Zenon DEF ToClean
  <2> QED BY <1>1, <2>1, FinishFlags
<1>5. tools \subseteq Tools BY DEF WorkflowInv, StateTypes
<1>6. CollectedInv' BY <1>2, <1>3, <1>4, <1>5, Zenon DEF WorkflowInv, CollectedInv
<1>7. BuiltInv'
  <2>1. <<"all">> \in Commands /\ <<"run">> \in Commands BY DEF Commands
  <2> QED BY <1>2, <1>3, <1>4, <2>1, Zenon DEF WorkflowInv, BuiltInv, Alive, Asked
<1>8. CleanInv' BY <1>2, <1>3, <1>4, Zenon DEF WorkflowInv, CleanInv
<1>9. ReportInv' BY <1>2, <1>3, <1>4, <1>5, Zenon DEF WorkflowInv, ReportInv, Asked
<1>10. DiskInv' /\ BooleanTypes' BY <1>3 DEF WorkflowInv, DiskInv, BooleanTypes
<1> QED BY <1>2, <1>6, <1>7, <1>8, <1>9, <1>10 DEF WorkflowInv

\* Artifacts that are made, and their places in a directory.
LEMMA NewSound ==
  ASSUME NEW v \in 1 .. MaxVersions, NEW w \in BOOLEAN
  PROVE  Sound(New(v, w)) /\ New(v, w).of = v /\ New(v, w).whole = w /\ New(v, w).fresh
<1>1. v \in 0 .. MaxVersions /\ v # 0 BY DwarfCheckAssumption
<1> QED BY <1>1 DEF Sound, New, Artifact

LEMMA AbsentSound ==
  Sound(Absent) /\ ~ Present(Absent) /\ ~ Absent.whole
<1>1. 0 \in 0 .. MaxVersions BY DwarfCheckAssumption
<1> QED BY <1>1 DEF Sound, Absent, Artifact, Present

LEMMA PresentSound ==
  ASSUME NEW a, Sound(a)
  PROVE  /\ a.of \in 0 .. MaxVersions /\ a.whole \in BOOLEAN /\ a.fresh \in BOOLEAN
         /\ a.whole \/ a.fresh => Present(a)
         /\ Present(a) => a.of \in 1 .. MaxVersions
<1>1. MaxVersions \in Nat BY DwarfCheckAssumption
<1> QED BY <1>1 DEF Sound, Artifact, Present

LEMMA DirectoryChanges ==
  ASSUME NEW d, DirectorySound(d), NEW a, Sound(a)
  PROVE  /\ DirectorySound([d EXCEPT !.binary = a])
         /\ DirectorySound([d EXCEPT !.json = a])
         /\ DirectorySound([d EXCEPT !.dump = a])
         /\ \A t \in Tools : /\ DirectorySound([d EXCEPT !.samples[t] = a])
                             /\ DirectorySound([d EXCEPT !.manifest[t] = a])
                             /\ DirectorySound([d EXCEPT !.report[t] = a])
<1>1. a \in Artifact BY DEF Sound
<1>2. d \in Directory /\ Sound(d.binary) /\ Sound(d.json) /\ Sound(d.dump)
  BY DEF DirectorySound
<1>3. \A t \in Tools : Sound(d.samples[t]) /\ Sound(d.manifest[t]) /\ Sound(d.report[t])
  BY DEF DirectorySound
<1>4. DirectorySound([d EXCEPT !.binary = a]) BY <1>1, <1>2, <1>3 DEF DirectorySound, Directory
<1>5. DirectorySound([d EXCEPT !.json = a]) BY <1>1, <1>2, <1>3 DEF DirectorySound, Directory
<1>6. DirectorySound([d EXCEPT !.dump = a]) BY <1>1, <1>2, <1>3 DEF DirectorySound, Directory
<1>7. ASSUME NEW t \in Tools
      PROVE  /\ DirectorySound([d EXCEPT !.samples[t] = a])
             /\ DirectorySound([d EXCEPT !.manifest[t] = a])
             /\ DirectorySound([d EXCEPT !.report[t] = a])
  <2>1. DirectorySound([d EXCEPT !.samples[t] = a]) BY <1>1, <1>2, <1>3 DEF DirectorySound, Directory
  <2>2. DirectorySound([d EXCEPT !.manifest[t] = a]) BY <1>1, <1>2, <1>3 DEF DirectorySound, Directory
  <2>3. DirectorySound([d EXCEPT !.report[t] = a]) BY <1>1, <1>2, <1>3 DEF DirectorySound, Directory
  <2> QED BY <2>1, <2>2, <2>3
<1> QED BY <1>4, <1>5, <1>6, <1>7

LEMMA BuildBinaryStep ==
  ASSUME WorkflowInv, BuildBinary
  PROVE  WorkflowInv'
<1> DEFINE s == <<"build binary">>
           dumping == aot /\ "unitrace" \in tools
           binary == New(version, TRUE)
           built == [here EXCEPT !.binary = binary]
           dumped == [built EXCEPT !.dump = binary]
<1>1. /\ Doing(s) /\ s \in Steps /\ Rank(s) = 2
      /\ \A t \in Tools : s # <<"collect", t>>
  BY RankValues, StepsAre, ToolRanks DEF BuildBinary
<1>2. UNCHANGED <<version, resolver, given>> BY DEF BuildBinary
<1>3. StateTypes /\ DiskInv /\ BooleanTypes /\ QueueInv /\ CollectOrder BY DEF WorkflowInv
<1>4. UNCHANGED <<configuration, tools, clean, line, aot>> /\ BooleanTypes'
  BY <1>2, <1>3 DEF given, aot, BooleanTypes
<1>5. /\ DirectorySound(here) /\ Sound(binary) /\ Sound(Absent)
      /\ DirectorySound(built) /\ DirectorySound(dumped)
  BY <1>3, HereSound, NewSound, AbsentSound, DirectoryChanges DEF StateTypes
<1>6. CASE Die /\ DiskInv'
  BY <1>2, <1>4, <1>6, DieStep, Zenon DEF Die, Stop, ExitCodes
<1>7. ASSUME Die, UNCHANGED disk PROVE DiskInv'
  BY <1>3, <1>7 DEF DiskInv
<1>8. ASSUME Change([here EXCEPT !.binary = Absent]) PROVE DiskInv'
  BY <1>3, <1>4, <1>5, <1>8, ChangeSound, DirectoryChanges
<1>9. ASSUME NEW w \in BOOLEAN, Change([here EXCEPT !.binary = Absent, !.dump = New(version, w)])
      PROVE  DiskInv'
  <2>1. Sound(New(version, w)) BY <1>3, NewSound DEF StateTypes
  <2>2. DirectorySound([[here EXCEPT !.binary = Absent] EXCEPT !.dump = New(version, w)])
    BY <1>5, <2>1, DirectoryChanges
  <2>3. [[here EXCEPT !.binary = Absent] EXCEPT !.dump = New(version, w)]
          = [here EXCEPT !.binary = Absent, !.dump = New(version, w)]
    OBVIOUS
  <2> QED BY <1>3, <1>4, <1>9, <2>2, <2>3, ChangeSound
<1>10. CASE Finish /\ Change(IF dumping THEN dumped ELSE built)
  <2>1. /\ QueueInv' /\ CollectOrder' /\ StateTypes' /\ AttemptInv'
        /\ Running /\ Running' /\ (Past' <=> Past) /\ (Analysing' <=> Analysing)
        /\ \A c \in Commands : Pending(c)' <=> Pending(c)
    BY <1>1, <1>2, <1>10, FinishStep
  <2> DEFINE d == IF dumping THEN dumped ELSE built
  <2>2. DirectorySound(d) /\ Change(d) BY <1>5, <1>10
  <2>3. /\ d.binary = binary /\ d.json = here.json /\ d.samples = here.samples
        /\ d.manifest = here.manifest /\ d.report = here.report
        /\ d.dump = IF dumping THEN binary ELSE here.dump
        /\ binary.of = version /\ binary.whole /\ binary.fresh
    BY <1>3, <1>5, NewSound DEF DirectorySound, Directory, StateTypes
  <2> HIDE DEF d, binary, built, dumped, s
  <2>4. DiskInv' /\ here' = d BY <1>3, <1>4, <2>2, ChangeSound
  <2>5. /\ (Collecting' <=> Collecting) /\ ~ ToClean /\ ~ ToClean'
        /\ (ToExecute' => ToExecute)
        /\ \A t \in Tools : /\ ToCollect(t)' <=> ToCollect(t)
                            /\ ToRefer(t)' <=> ToRefer(t)
                            /\ ToResolve(t)' <=> ToResolve(t)
    BY <1>1, <1>2, <1>10, FinishFlags
  <2>6. tools \subseteq Tools BY <1>3 DEF StateTypes
  <2>7. <<"all">> \in Commands /\ <<"run">> \in Commands BY DEF Commands
  <2>8. CollectedInv'
    <3>1. ASSUME Collecting, NEW t \in tools PROVE ToCollect(t)
      <4>1. Head(todo) = s BY <1>1, <1>3, DoingPending
      <4>2. /\ ToCollect("unitrace") /\ "vtune" \in tools => ToCollect("vtune")
            /\ ToCollect("vtune") /\ "unitrace" \in tools => ToCollect("unitrace")
        BY <1>1, <1>3, <4>1, Zenon DEF CollectOrder, ToCollect, Tools
      <4> QED BY <2>6, <3>1, <4>2, Zenon DEF Collecting, Tools
    <3>2. ASSUME Past, NEW t \in tools, ~ ToCollect(t)
          PROVE  here'.samples[t].whole /\ here'.samples[t].fresh
      BY <1>4, <2>3, <2>4, <3>2 DEF WorkflowInv, CollectedInv
    <3>3. ASSUME Past, ~ Collecting
          PROVE  /\ here'.json.whole /\ here'.json.fresh /\ ~ ToExecute'
                 /\ \A t \in tools : here'.samples[t].of = here'.json.of
      BY <1>4, <2>3, <2>4, <2>5, <3>3 DEF WorkflowInv, CollectedInv
    <3> QED BY <1>4, <2>1, <2>4, <2>5, <2>6, <3>1, <3>2, <3>3 DEF CollectedInv
  <2>9. BuiltInv'
    <3>1. /\ here'.binary.fresh /\ here'.binary.of = version
          /\ aot /\ "unitrace" \in tools => here'.dump.of = version /\ here'.dump.whole
          /\ ~ (aot /\ "unitrace" \in tools) => here'.dump = here.dump
      BY <2>3, <2>4 DEF dumping
    <3>2. ASSUME Alive, Asked("all"), ~ Pending(<<"all">>), ~ Collecting, ~ Pending(<<"run">>)
          PROVE  /\ version = here.json.of
                 /\ "unitrace" \in tools => here.dump.whole /\ here.dump.of = here.json.of
      BY <2>1, <3>2 DEF WorkflowInv, BuiltInv
    <3> QED BY <1>2, <1>4, <2>1, <2>3, <2>4, <2>5, <2>7, <3>1, <3>2 DEF BuiltInv, Alive, Asked, Running
  <2>10. CleanInv'
    BY <1>4, <2>1, <2>3, <2>4, <2>5 DEF WorkflowInv, CleanInv, FreshDirectory
  <2>11. ReportInv'
    <3>1. \A t \in tools :
            /\ here'.manifest[t] = here.manifest[t] /\ here'.report[t] = here.report[t]
            /\ here'.samples[t] = here.samples[t]
            /\ ToRefer(t)' <=> ToRefer(t)
            /\ ToResolve(t)' <=> ToResolve(t)
      BY <2>3, <2>4, <2>5, <2>6
    <3> QED BY <1>4, <2>1, <2>5, <3>1, ReportKept, Zenon DEF WorkflowInv
  <2>12. AnalyzeInv'
    <3>1. s \notin AnalyzeSteps /\ s # <<"require json">>
      <4>1. Rank(s) \in {2, 4, 5, 6} BY <1>1
      <4> QED BY <4>1, AnalyzeRanks, Zenon
    <3> QED BY <1>1, <1>2, <1>10, <3>1, FinishAnalyze
  <2> QED BY <1>4, <2>1, <2>4, <2>8, <2>9, <2>10, <2>11, <2>12 DEF WorkflowInv
<1> QED BY <1>6, <1>7, <1>8, <1>9, <1>10 DEF BuildBinary

LEMMA EmptySound == DirectorySound(Empty)
<1>1. Sound(Absent) /\ Absent \in Artifact BY AbsentSound DEF Sound
<1>2. Empty \in Directory BY <1>1 DEF Empty, Directory
<1> QED BY <1>1, <1>2 DEF DirectorySound, Empty

\* The results are cleared before anything is collected.
LEMMA CleanStep ==
  ASSUME WorkflowInv, Clean
  PROVE  WorkflowInv'
<1> DEFINE s == <<"clean">>
           cleared == [Empty EXCEPT !.binary = here.binary]
           d == IF clean THEN cleared ELSE here
<1>1. Doing(s) /\ s \in Steps /\ Rank(s) = 1 /\ Finish /\ UNCHANGED <<version, given>>
  BY RankValues, StepsAre DEF Clean, CleanResults
<1>2. StateTypes /\ DiskInv /\ BooleanTypes /\ QueueInv /\ CollectOrder BY DEF WorkflowInv
<1>3. UNCHANGED <<configuration, tools, clean, line, aot>> /\ BooleanTypes'
  BY <1>2 DEF given, aot, BooleanTypes, Clean, CleanResults
<1>4. DirectorySound(here) /\ Sound(here.binary) /\ DirectorySound(cleared)
  BY <1>2, HereSound, EmptySound, DirectoryChanges DEF DirectorySound
<1>5. /\ QueueInv' /\ CollectOrder' /\ StateTypes' /\ AttemptInv'
      /\ Running /\ Running' /\ (Past' <=> Past) /\ (Analysing' <=> Analysing)
      /\ \A c \in Commands : Pending(c)' <=> Pending(c)
  BY <1>1, FinishStep
<1>6. DiskInv' /\ here' = d
  <2>1. CASE clean
    <3>1. Change(cleared) BY <2>1 DEF Clean, CleanResults
    <3> HIDE DEF cleared
    <3>2. DiskInv' /\ here' = cleared BY <1>2, <1>3, <1>4, <3>1, ChangeSound
    <3> QED BY <2>1, <3>2
  <2>2. CASE ~ clean
    <3>1. UNCHANGED disk BY <2>2 DEF Clean, CleanResults
    <3> QED BY <1>2, <1>3, <2>2, <3>1 DEF DiskInv, here
  <2> QED BY <2>1, <2>2
<1>7. /\ d.binary = here.binary
      /\ d.dump.whole => d.dump = here.dump
      /\ clean => FreshDirectory(d)
  BY <1>4, AbsentSound DEF Empty, Directory, DirectorySound, FreshDirectory
<1>8. /\ (Collecting' <=> Collecting) /\ (ToBuild' <=> ToBuild)
      /\ \A t \in Tools : /\ ToCollect(t)' <=> ToCollect(t)
                          /\ ToRefer(t)' <=> ToRefer(t)
                          /\ ToResolve(t)' <=> ToResolve(t)
  BY <1>1, FinishFlags
<1>9. tools \subseteq Tools /\ tools # {} BY <1>2 DEF StateTypes
<1>10. ToClean /\ Collecting /\ \A t \in tools : ToCollect(t)
  <2>1. ToClean BY <1>1, <1>2, DoingPending, Zenon DEF ToClean
  <2>2. \A t \in tools : ToCollect(t) BY <1>2, <2>1, Zenon DEF CollectOrder, ToClean, ToCollect
  <2> QED BY <1>9, <2>1, <2>2 DEF Collecting
<1> HIDE DEF d, cleared
<1>11. CollectedInv' BY <1>3, <1>8, <1>9, <1>10, Zenon DEF CollectedInv
<1>12. BuiltInv'
  <2>1. <<"all">> \in Commands /\ <<"run">> \in Commands BY DEF Commands
  <2> QED BY <1>1, <1>3, <1>5, <1>6, <1>7, <1>8, <1>10, <2>1, Zenon
          DEF WorkflowInv, BuiltInv, Alive, Asked, Running
<1>13. CleanInv' BY <1>3, <1>6, <1>7 DEF CleanInv
<1>14. ReportInv'
  BY <1>3, <1>5, <1>8, <1>9, <1>10, Zenon DEF WorkflowInv, ReportInv
<1>15. AnalyzeInv' BY <1>1, AnalyzeRanks, FinishAnalyze
<1> QED BY <1>3, <1>5, <1>6, <1>11, <1>12, <1>13, <1>14, <1>15 DEF WorkflowInv

LEMMA JsonOfSound ==
  ASSUME DirectorySound(here), Present(here.binary), NEW outcome \in Outcomes
  PROVE  /\ Sound(JsonOf(outcome))
         /\ JsonOf(outcome) = here.json \/ JsonOf(outcome).fresh
<1>1. here.binary.of \in 1 .. MaxVersions /\ Sound(here.json)
  BY PresentSound DEF DirectorySound
<1>2. JsonOf(outcome) \in {here.json, New(here.binary.of, FALSE), New(here.binary.of, TRUE)}
  BY DEF JsonOf, Outcomes
<1> QED BY <1>1, <1>2, NewSound

\* The workload is executed for its manifest, when no collection has begun.
LEMMA ExecuteStep ==
  ASSUME WorkflowInv, ExecuteWorkload
  PROVE  WorkflowInv'
<1> DEFINE s == <<"execute">>
           d(outcome) == [here EXCEPT !.json = JsonOf(outcome)]
<1>1. Doing(s) /\ s \in Steps /\ Rank(s) = 4 /\ UNCHANGED <<version, given>>
  BY RankValues, StepsAre DEF ExecuteWorkload
<1>2. StateTypes /\ DiskInv /\ BooleanTypes /\ QueueInv /\ CollectOrder BY DEF WorkflowInv
<1>3. UNCHANGED <<configuration, tools, clean, line, aot>> /\ BooleanTypes'
  BY <1>2 DEF given, aot, BooleanTypes, ExecuteWorkload
<1>4. DirectorySound(here) BY <1>2, HereSound
<1>5. ASSUME NEW outcome \in Outcomes, Present(here.binary), Change(d(outcome))
      PROVE  DiskInv' /\ here' = d(outcome)
  <2>1. DirectorySound(d(outcome)) BY <1>4, <1>5, JsonOfSound, DirectoryChanges
  <2> QED BY <1>2, <1>3, <1>5, <2>1, ChangeSound
<1>6. ASSUME Die, DiskInv' PROVE WorkflowInv'
  BY <1>1, <1>3, <1>6, DieStep, Zenon DEF Die, Stop, ExitCodes
<1>7. ASSUME UNCHANGED disk PROVE DiskInv' BY <1>2, <1>7 DEF DiskInv
<1>8. CASE Present(here.binary) /\ Finish /\ Change(d("written"))
  <2>1. /\ QueueInv' /\ CollectOrder' /\ StateTypes' /\ AttemptInv'
        /\ Running /\ Running' /\ (Past' <=> Past) /\ (Analysing' <=> Analysing)
        /\ \A c \in Commands : Pending(c)' <=> Pending(c)
    BY <1>1, <1>8, FinishStep
  <2>2. DiskInv' /\ here' = d("written") BY <1>5, <1>8 DEF Outcomes
  <2>3. /\ here'.binary = here.binary /\ here'.dump = here.dump /\ here'.samples = here.samples
        /\ here'.manifest = here.manifest /\ here'.report = here.report /\ here'.json.fresh
    BY <1>4, <2>2 DEF DirectorySound, Directory, JsonOf, New
  <2>4. /\ (Collecting' <=> Collecting) /\ ~ ToClean /\ ~ ToClean' /\ (ToBuild' <=> ToBuild)
        /\ \A t \in Tools : /\ ToCollect(t)' <=> ToCollect(t)
                            /\ ToRefer(t)' <=> ToRefer(t)
                            /\ ToResolve(t)' <=> ToResolve(t)
    BY <1>1, <1>8, FinishFlags
  <2>5. tools \subseteq Tools BY <1>2 DEF StateTypes
  <2>6. Past => Collecting
    <3>1. ToExecute BY <1>1, <1>2, DoingPending, Zenon DEF ToExecute
    <3> QED BY <3>1 DEF WorkflowInv, CollectedInv
  <2> HIDE DEF s, d
  <2>7. CollectedInv'
    BY <1>3, <2>1, <2>3, <2>4, <2>5, <2>6, Zenon DEF WorkflowInv, CollectedInv
  <2>8. BuiltInv'
    <3>1. <<"all">> \in Commands /\ <<"run">> \in Commands BY DEF Commands
    <3>2. Alive /\ Asked("all") /\ ~ Pending(<<"all">>) /\ ~ Pending(<<"run">>) => Collecting
      BY <2>6 DEF Past
    <3> QED BY <1>1, <1>3, <2>1, <2>3, <2>4, <3>1, <3>2, Zenon
            DEF WorkflowInv, BuiltInv, Alive, Asked, Running
  <2>9. CleanInv'
    BY <1>3, <2>1, <2>3, <2>4 DEF WorkflowInv, CleanInv, FreshDirectory
  <2>10. ReportInv'
    <3>1. \A t \in tools :
            /\ here'.manifest[t] = here.manifest[t] /\ here'.report[t] = here.report[t]
            /\ here'.samples[t] = here.samples[t]
            /\ ToRefer(t)' <=> ToRefer(t)
            /\ ToResolve(t)' <=> ToResolve(t)
      BY <2>3, <2>4, <2>5
    <3> QED BY <1>3, <2>1, <2>4, <3>1, ReportKept, Zenon DEF WorkflowInv
  <2>11. AnalyzeInv' BY <1>1, <1>8, AnalyzeRanks, FinishAnalyze
  <2> QED BY <1>3, <2>1, <2>2, <2>7, <2>8, <2>9, <2>10, <2>11 DEF WorkflowInv
<1> QED BY <1>5, <1>6, <1>7, <1>8 DEF ExecuteWorkload

-----------------------------------------------------------------------------
(* The collections.                                                        *)

\* An attempt puts new things down, or removes the samples.
Attempted(d, t, outcome, sampled, whole) ==
  /\ DirectorySound(d)
  /\ d.binary = here.binary /\ d.json = JsonOf(outcome)
  /\ d.samples = [here.samples EXCEPT ![t] = IF sampled THEN New(here.binary.of, whole)
                                             ELSE Absent]
  /\ d.manifest = here.manifest /\ d.report = here.report
  /\ d.dump = IF t = "unitrace" /\ ~ aot /\ outcome # "nothing"
              THEN New(here.binary.of, TRUE) ELSE here.dump
  /\ FreshDirectory(here) => FreshDirectory(d)

LEMMA ProfiledDirectory ==
  ASSUME DirectorySound(here), Present(here.binary), NEW t \in Tools, NEW outcome \in Outcomes,
         NEW sampled \in BOOLEAN, NEW whole \in BOOLEAN
  PROVE  Attempted(Profiled(t, outcome, sampled, whole), t, outcome, sampled, whole)
<1> DEFINE d == Profiled(t, outcome, sampled, whole)
           sample == IF sampled THEN New(here.binary.of, whole) ELSE Absent
           dump == IF t = "unitrace" /\ ~ aot /\ outcome # "nothing"
                   THEN New(here.binary.of, TRUE) ELSE here.dump
           one == [here EXCEPT !.json = JsonOf(outcome)]
           two == [one EXCEPT !.samples[t] = sample]
<1>1. here.binary.of \in 1 .. MaxVersions /\ Sound(here.dump) /\ here \in Directory
  BY PresentSound DEF DirectorySound
<1>2. /\ Sound(sample) /\ Sound(dump) /\ Sound(JsonOf(outcome))
      /\ sample = Absent \/ sample.fresh
      /\ dump = here.dump \/ dump.fresh
      /\ JsonOf(outcome) = here.json \/ JsonOf(outcome).fresh
  BY <1>1, NewSound, AbsentSound, JsonOfSound
<1>3. d = [two EXCEPT !.dump = dump]
  BY <1>1 DEF Profiled, Directory
<1> HIDE DEF d
<1>4. DirectorySound(d)
  <2> HIDE DEF sample, dump
  <2>1. DirectorySound(one) BY <1>2, DirectoryChanges
  <2> HIDE DEF one
  <2>2. DirectorySound(two) BY <1>2, <2>1, DirectoryChanges
  <2> HIDE DEF two
  <2>3. DirectorySound([two EXCEPT !.dump = dump]) BY <1>2, <2>2, DirectoryChanges
  <2> QED BY <1>3, <2>3
<1> HIDE DEF sample, dump
<1>5. /\ d.binary = here.binary /\ d.json = JsonOf(outcome)
      /\ d.samples = [here.samples EXCEPT ![t] = sample]
      /\ d.manifest = here.manifest /\ d.report = here.report /\ d.dump = dump
  BY <1>1, <1>3 DEF Directory
<1>6. ASSUME FreshDirectory(here) PROVE FreshDirectory(d)
  <2>1. \A u \in Tools : d.samples[u] = here.samples[u] \/ d.samples[u] = sample
    BY <1>1, <1>5 DEF Directory
  <2> QED BY <1>2, <1>5, <1>6, <2>1, AbsentSound DEF FreshDirectory
<1> QED BY <1>4, <1>5, <1>6 DEF Attempted, sample, dump, d

\* What a collection knows of the queue before and after itself.
LEMMA CollectingNow ==
  ASSUME WorkflowInv, NEW t \in Tools, Doing(<<"collect", t>>)
  PROVE  /\ <<"collect", t>> \in Steps /\ Rank(<<"collect", t>>) \in {5, 6}
         /\ ToCollect(t) /\ Collecting /\ Running /\ ~ ToBuild /\ ~ ToClean /\ ~ ToExecute
         /\ line # << <<"analyze">> >>
<1> DEFINE s == <<"collect", t>>
           bin == <<"build binary">>
           cl == <<"clean">>
           exe == <<"execute">>
<1>1. s \in Steps /\ Rank(s) \in {5, 6} BY ToolRanks
<1>2. Rank(bin) = 2 /\ Rank(cl) = 1 /\ Rank(exe) = 4 BY RankValues
<1> HIDE DEF s, bin, cl, exe
<1>3. /\ Running /\ todo # << >> /\ Head(todo) = s /\ Pending(s)
      /\ \A r : Pending(r) => r = s \/ Rank(s) < Rank(r)
  BY <1>1, DoingPending DEF WorkflowInv, s
<1>4. ~ Pending(bin) /\ ~ Pending(cl) /\ ~ Pending(exe) BY <1>1, <1>2, <1>3
<1>5. line # << <<"analyze">> >>
  <2>1. SUFFICES ASSUME line = << <<"analyze">> >> PROVE FALSE OBVIOUS
  <2>2. todo # << <<"analyze">> >> BY <1>1, <1>3, AnalyzeAlone
  <2>3. \A i \in DOMAIN todo : todo[i] \in AnalyzeSteps
    BY <1>3, <2>1, <2>2 DEF WorkflowInv, AnalyzeInv, AnalyzeSteps
  <2>4. s \in AnalyzeSteps BY <1>3, <2>3 DEF Pending
  <2>5. Rank(s) \in {2, 4, 5, 6} BY <1>1
  <2> QED BY <2>4, <2>5, AnalyzeRanks, Zenon
<1>6. Collecting BY <1>3 DEF Collecting, ToCollect, s
<1> QED BY <1>1, <1>3, <1>4, <1>5, <1>6 DEF ToCollect, ToBuild, ToClean, ToExecute, s, bin, cl, exe

\* While a tool is collected for the queue stays; only what is new appears.
LEMMA AttemptStep ==
  ASSUME WorkflowInv, NEW t \in Tools, Doing(<<"collect", t>>), UNCHANGED <<version, given, todo, exit>>,
         DiskInv', BooleanTypes', attempt' \in 0 .. MaxAttempts,
         Present(here.binary), ~ DumpRequired(t), here'.binary = here.binary,
         \A u \in Tools : u # t => here'.samples[u] = here.samples[u],
         here'.dump = here.dump \/ (t = "unitrace" /\ ~ aot),
         here'.manifest = here.manifest, here'.report = here.report,
         FreshDirectory(here) => FreshDirectory(here')
  PROVE  WorkflowInv'
<1>1. ToCollect(t) /\ Collecting /\ Running /\ line # << <<"analyze">> >> BY CollectingNow
<1>2. UNCHANGED <<tools, clean, line, aot, configuration, invocations, version, todo, exit>>
  BY DEF given, aot
<1>3. tools \subseteq Tools BY DEF WorkflowInv, StateTypes
<1>4. \A r : Pending(r)' <=> Pending(r) BY <1>2 DEF Pending
<1>5. QueueInv' /\ CollectOrder' BY <1>2 DEF WorkflowInv, QueueInv, CollectOrder, Pending
<1>6. (Past' <=> Past) /\ (Analysing' <=> Analysing) /\ Running' /\ (Alive' <=> Alive)
  BY <1>1, <1>2, <1>4, Zenon DEF Past, Analysing, Alive, Asked, EndsWith, Running
<1>7. /\ (Collecting' <=> Collecting) /\ (ToBuild' <=> ToBuild) /\ (ToClean' <=> ToClean)
      /\ (ToExecute' <=> ToExecute)
      /\ \A u \in Tools : /\ ToCollect(u)' <=> ToCollect(u)
                          /\ ToRefer(u)' <=> ToRefer(u)
                          /\ ToResolve(u)' <=> ToResolve(u)
  BY <1>4, Zenon DEF Collecting, ToBuild, ToClean, ToExecute, ToCollect, ToRefer, ToResolve
<1>8. StateTypes' BY <1>2 DEF WorkflowInv, StateTypes
<1>9. AttemptInv'
  <2>1. ~ DumpRequired(t)' BY <1>2 DEF DumpRequired
  <2>2. Present(here.binary)' BY DEF Present
  <2> QED BY <1>2, <1>6, <2>1, <2>2, Zenon DEF AttemptInv, Doing
<1>10. CollectedInv'
  BY <1>1, <1>2, <1>3, <1>6, <1>7, Zenon DEF WorkflowInv, CollectedInv
<1>11. BuiltInv'
  <2>1. aot /\ "unitrace" \in tools /\ here'.dump.whole => here'.dump = here.dump OBVIOUS
  <2>2. Asked("all")' <=> Asked("all") BY <1>2 DEF Asked
  <2> QED BY <1>1, <1>2, <1>4, <1>6, <1>7, <2>1, <2>2, Zenon DEF WorkflowInv, BuiltInv
<1>12. CleanInv' BY <1>2, <1>6, <1>7, Zenon DEF WorkflowInv, CleanInv
<1>13. ReportInv' BY <1>1, <1>2, <1>3, <1>6, <1>7, Zenon DEF WorkflowInv, ReportInv
<1>14. AnalyzeInv' BY <1>1, <1>2 DEF AnalyzeInv
<1> QED BY <1>5, <1>8, <1>9, <1>10, <1>11, <1>12, <1>13, <1>14 DEF WorkflowInv

LEMMA StartCollectStep ==
  ASSUME WorkflowInv, NEW t \in Tools, StartCollect(t)
  PROVE  WorkflowInv'
<1> DEFINE dump == New(here.binary.of, FALSE)
           dumping == t = "unitrace" /\ ~ aot
           opened == [here EXCEPT !.dump = dump]
           d == IF dumping THEN opened ELSE here
<1>1. Doing(<<"collect", t>>) /\ UNCHANGED <<version, given>> BY DEF StartCollect
<1>2. StateTypes /\ DiskInv /\ BooleanTypes BY DEF WorkflowInv
<1>3. UNCHANGED configuration /\ BooleanTypes' BY <1>2 DEF given, BooleanTypes, StartCollect
<1>4. DirectorySound(here) BY <1>2, HereSound
<1>5. ASSUME UNCHANGED disk PROVE DiskInv' BY <1>2, <1>5 DEF DiskInv
<1>6. CASE Die /\ UNCHANGED disk
  BY <1>1, <1>3, <1>5, <1>6, DieStep, Zenon DEF Die, Stop, ExitCodes
<1>7. CASE Stop("dump required") /\ UNCHANGED disk
  BY <1>1, <1>3, <1>5, <1>7, DieStep, Zenon DEF Stop, ExitCodes
<1>8. CASE /\ Present(here.binary) /\ ~ DumpRequired(t)
           /\ attempt' = 1 /\ UNCHANGED <<todo, exit>> /\ Change(d)
  <2>1. Sound(dump) /\ dump.fresh
    BY <1>4, <1>8, PresentSound, NewSound DEF DirectorySound
  <2>2. DirectorySound(d) BY <1>4, <2>1, DirectoryChanges
  <2>3. Change(d) BY <1>8
  <2>4. /\ d.binary = here.binary /\ d.samples = here.samples
        /\ d.manifest = here.manifest /\ d.report = here.report
        /\ d.dump = here.dump \/ dumping
        /\ FreshDirectory(here) => FreshDirectory(d)
    BY <1>4, <2>1 DEF DirectorySound, Directory, FreshDirectory
  <2>5. attempt' \in 0 .. MaxAttempts BY <1>8, DwarfCheckAssumption
  <2> HIDE DEF d
  <2>6. DiskInv' /\ here' = d BY <1>2, <1>3, <2>2, <2>3, ChangeSound
  <2> QED BY <1>1, <1>3, <1>8, <2>4, <2>5, <2>6, AttemptStep
<1> QED BY <1>6, <1>7, <1>8 DEF StartCollect

LEMMA FailToCollectStep ==
  ASSUME WorkflowInv, NEW t \in Tools, FailToCollect(t)
  PROVE  WorkflowInv'
<1>1. Doing(<<"collect", t>>) /\ attempt > 0 /\ UNCHANGED <<version, given>>
  BY DEF FailToCollect, FailOnce
<1>2. StateTypes /\ DiskInv /\ BooleanTypes /\ AttemptInv /\ QueueInv BY DEF WorkflowInv
<1>3. UNCHANGED configuration /\ BooleanTypes'
  BY <1>2 DEF given, BooleanTypes, FailToCollect, FailOnce
<1>4. DirectorySound(here) BY <1>2, HereSound
<1>5. Present(here.binary) /\ ~ DumpRequired(t)
  <2>1. PICK u \in Tools : Head(todo) = <<"collect", u>> /\ ~ DumpRequired(u)
    BY <1>1, <1>2 DEF AttemptInv
  <2>2. u = t BY <1>1, <2>1 DEF Doing
  <2> QED BY <1>1, <1>2, <2>1, <2>2 DEF AttemptInv
<1>6. PICK outcome \in Outcomes, sampled \in BOOLEAN : Change(Profiled(t, outcome, sampled, FALSE))
  BY DEF FailToCollect, FailOnce
<1> DEFINE d == Profiled(t, outcome, sampled, FALSE)
<1>7. Attempted(d, t, outcome, sampled, FALSE)
  <2>1. FALSE \in BOOLEAN OBVIOUS
  <2> QED BY <1>4, <1>5, <2>1, ProfiledDirectory, Zenon
<1> HIDE DEF d
<1>8. /\ DirectorySound(d) /\ d.binary = here.binary
      /\ d.samples = [here.samples EXCEPT ![t] = IF sampled THEN New(here.binary.of, FALSE)
                                                 ELSE Absent]
      /\ d.manifest = here.manifest /\ d.report = here.report
      /\ d.dump = here.dump \/ (t = "unitrace" /\ ~ aot)
      /\ FreshDirectory(here) => FreshDirectory(d)
  BY <1>7 DEF Attempted
<1>9. DiskInv' /\ here' = d BY <1>2, <1>3, <1>6, <1>8, ChangeSound DEF d
<1>10. \A u \in Tools : u # t => here'.samples[u] = here.samples[u]
  BY <1>4, <1>8, <1>9 DEF DirectorySound, Directory
<1>11. CASE attempt < MaxAttempts
  <2>1. attempt' \in 0 .. MaxAttempts /\ UNCHANGED <<todo, exit>>
    BY <1>2, <1>11, DwarfCheckAssumption DEF FailToCollect, FailOnce, StateTypes
  <2> QED BY <1>1, <1>3, <1>5, <1>8, <1>9, <1>10, <2>1, AttemptStep
<1>12. CASE ~ attempt < MaxAttempts
  <2>1. Die BY <1>12 DEF FailToCollect, FailOnce
  <2> QED BY <1>1, <1>3, <1>9, <2>1, DieStep, Zenon DEF Die, Stop, ExitCodes
<1> QED BY <1>11, <1>12

\* The last collection to end leaves everything of one binary.
LEMMA CollectStep ==
  ASSUME WorkflowInv, NEW t \in Tools, Collect(t)
  PROVE  WorkflowInv'
<1> DEFINE s == <<"collect", t>>
           d == Profiled(t, "written", TRUE, TRUE)
<1>1. Doing(s) /\ attempt > 0 /\ Finish /\ Change(d) /\ UNCHANGED <<version, given>> BY DEF Collect
<1>2. StateTypes /\ DiskInv /\ BooleanTypes /\ AttemptInv /\ QueueInv /\ CollectOrder
  BY DEF WorkflowInv
<1>3. UNCHANGED <<configuration, tools, clean, line, aot>> /\ BooleanTypes'
  BY <1>2 DEF given, aot, BooleanTypes, Collect
<1>4. DirectorySound(here) BY <1>2, HereSound
<1>5. Present(here.binary) /\ ~ DumpRequired(t)
  <2>1. PICK u \in Tools : Head(todo) = <<"collect", u>> /\ ~ DumpRequired(u)
    BY <1>1, <1>2 DEF AttemptInv
  <2>2. u = t BY <1>1, <2>1 DEF Doing
  <2> QED BY <1>1, <1>2, <2>1, <2>2 DEF AttemptInv
<1>6. Attempted(d, t, "written", TRUE, TRUE)
  <2>1. TRUE \in BOOLEAN /\ "written" \in Outcomes BY DEF Outcomes
  <2> QED BY <1>4, <1>5, <2>1, ProfiledDirectory, Zenon
<1> HIDE DEF d
<1>7. DiskInv' /\ here' = d BY <1>1, <1>2, <1>3, <1>6, ChangeSound DEF Attempted
<1>8. LET new == New(here.binary.of, TRUE)
      IN  /\ new.whole /\ new.fresh /\ new.of = here.binary.of
          /\ here'.json = new /\ here'.samples[t] = new
          /\ t = "unitrace" /\ ~ aot => here'.dump = new
          /\ t = "vtune" \/ aot => here'.dump = here.dump
  BY <1>4, <1>6, <1>7 DEF Attempted, JsonOf, New, DirectorySound, Directory
<1>9. /\ here'.binary = here.binary /\ here'.manifest = here.manifest /\ here'.report = here.report
      /\ \A u \in Tools : u # t => here'.samples[u] = here.samples[u]
      /\ FreshDirectory(here) => FreshDirectory(here')
  BY <1>4, <1>6, <1>7 DEF Attempted, DirectorySound, Directory
<1>10. /\ s \in Steps /\ Rank(s) \in {5, 6} /\ ToCollect(t) /\ Collecting
       /\ ~ ToBuild /\ ~ ToClean /\ ~ ToExecute
  BY <1>1, CollectingNow
<1>11. /\ QueueInv' /\ CollectOrder' /\ StateTypes' /\ AttemptInv'
       /\ Running /\ Running' /\ (Past' <=> Past) /\ (Analysing' <=> Analysing)
       /\ \A c \in Commands : Pending(c)' <=> Pending(c)
  BY <1>1, <1>10, FinishStep
<1>12. /\ ~ ToClean' /\ ~ ToBuild' /\ ~ ToExecute'
       /\ \A u \in Tools : /\ ToCollect(u)' <=> ToCollect(u) /\ u # t
                           /\ ToRefer(u)' <=> ToRefer(u)
                           /\ ToResolve(u)' <=> ToResolve(u)
  <2>1. \A u \in Tools : s # <<"collect", u>> <=> u # t OBVIOUS
  <2> HIDE DEF s
  <2> QED BY <1>1, <1>10, <2>1, FinishFlags
<1>13. tools \subseteq Tools BY <1>2 DEF StateTypes
<1> HIDE DEF s
<1>14. CollectedInv'
  <2>1. ASSUME Past, NEW u \in tools, ~ ToCollect(u)'
        PROVE  here'.samples[u].whole /\ here'.samples[u].fresh /\ here'.samples[u].of = here.binary.of
    <3>1. CASE u = t BY <1>8, <3>1
    <3>2. CASE u # t
      <4>1. ~ ToCollect(u) /\ here'.samples[u] = here.samples[u] BY <1>9, <1>12, <1>13, <2>1, <3>2
      <4> QED BY <1>10, <2>1, <4>1 DEF WorkflowInv, CollectedInv
    <3> QED BY <3>1, <3>2
  <2>2. ~ Collecting' => \A u \in tools : ~ ToCollect(u)' BY <1>13 DEF Collecting
  <2> QED BY <1>3, <1>8, <1>9, <1>11, <1>12, <1>13, <2>1, <2>2 DEF CollectedInv
<1>15. BuiltInv'
  <2>1. <<"all">> \in Commands /\ <<"run">> \in Commands BY DEF Commands
  <2>2. ASSUME Alive, Asked("all"), ~ Pending(<<"all">>)
        PROVE  /\ here.binary.fresh /\ here.binary.of = version
               /\ aot /\ "unitrace" \in tools /\ here.dump.whole => here.dump.of = version
    BY <1>10, <1>11, <2>2 DEF WorkflowInv, BuiltInv
  <2>3. ASSUME Alive, Asked("all"), ~ Pending(<<"all">>)
        PROVE  aot /\ "unitrace" \in tools /\ here'.dump.whole => here'.dump.of = version
    BY <1>8, <2>2, <2>3
  <2>4. ASSUME Alive, Asked("all"), ~ Pending(<<"all">>), ~ Collecting', "unitrace" \in tools
        PROVE  here'.dump.whole /\ here'.dump.of = here'.json.of
    <3>1. t = "unitrace"
      <4>1. "vtune" # "unitrace" /\ Head(todo) = s BY <1>1, <1>2, <1>10, DoingPending
      <4>2. t = "vtune" => ToCollect("unitrace")
        BY <1>2, <1>10, <2>4, Zenon DEF CollectOrder, ToCollect
      <4>3. "unitrace" \in Tools BY DEF Tools
      <4>4. ToCollect("unitrace") /\ t # "unitrace" => Collecting'
        BY <1>12, <4>3, Zenon DEF Collecting
      <4> QED BY <2>4, <4>1, <4>2, <4>4, Zenon DEF Tools
    <3>2. CASE ~ aot BY <1>8, <3>1, <3>2
    <3>3. CASE aot
      <4>1. here.dump.whole BY <1>5, <3>1, <3>3 DEF DumpRequired
      <4> QED BY <1>8, <2>2, <2>4, <3>3, <4>1
    <3> QED BY <3>2, <3>3
  <2> QED BY <1>1, <1>3, <1>8, <1>9, <1>11, <2>1, <2>2, <2>3, <2>4 DEF BuiltInv, Alive, Asked, Running
<1>16. CleanInv' BY <1>3, <1>9, <1>10, <1>11, Zenon DEF WorkflowInv, CleanInv
<1>17. ReportInv' BY <1>3, <1>10, <1>11, <1>12, <1>13, Zenon DEF WorkflowInv, ReportInv
<1>18. AnalyzeInv' BY <1>3, <1>1, CollectingNow DEF AnalyzeInv, s
<1> QED BY <1>3, <1>7, <1>11, <1>14, <1>15, <1>16, <1>17, <1>18 DEF WorkflowInv

-----------------------------------------------------------------------------
(* The analyses, and the steps that change no directory.                   *)

\* What is collected stays while a manifest or a report is made of it.
LEMMA AnalysisStep ==
  ASSUME WorkflowInv, NEW s \in Steps, Rank(s) \in 7 .. 10, Doing(s), Finish,
         UNCHANGED <<version, given>>,
         here'.binary = here.binary, here'.json = here.json, here'.dump = here.dump,
         here'.samples = here.samples,
         \A u \in Tools : /\ here'.manifest[u] = here.manifest[u] \/ here'.manifest[u].fresh
                          /\ here'.report[u] = here.report[u] \/ here'.report[u].fresh
  PROVE  CollectedInv' /\ BuiltInv' /\ CleanInv' /\ AnalyzeInv'
<1>1. UNCHANGED <<configuration, tools, clean, line, aot>> BY DEF given, aot
<1>2. /\ Running /\ Running' /\ (Past' <=> Past)
      /\ \A c \in Commands : Pending(c)' <=> Pending(c)
  BY FinishStep
<1>3. /\ ~ ToClean /\ ~ ToClean' /\ ~ ToBuild /\ ~ ToBuild' /\ ~ ToExecute /\ ~ ToExecute'
      /\ ~ Collecting /\ ~ Collecting'
      /\ \A u \in Tools : ToCollect(u)' <=> ToCollect(u)
  BY FinishFlags
<1>4. tools \subseteq Tools BY DEF WorkflowInv, StateTypes
<1>5. CollectedInv' BY <1>1, <1>2, <1>3, <1>4, Zenon DEF WorkflowInv, CollectedInv
<1>6. BuiltInv'
  <2>1. <<"all">> \in Commands /\ <<"run">> \in Commands BY DEF Commands
  <2> QED BY <1>1, <1>2, <1>3, <2>1, Zenon DEF WorkflowInv, BuiltInv, Alive, Asked, Running, Finish
<1>7. CleanInv' BY <1>1, <1>2, <1>3 DEF WorkflowInv, CleanInv, FreshDirectory
<1>8. AnalyzeInv'
  <2>1. s # <<"require json">>
    <3>1. Rank(s) # 1 OBVIOUS
    <3> QED BY <3>1, RankValues, Zenon
  <2> QED BY <2>1, FinishAnalyze
<1> QED BY <1>5, <1>6, <1>7, <1>8

\* An analysis that follows a collection has its samples.
LEMMA AnalysingSamples ==
  ASSUME WorkflowInv, Analysing, ~ Collecting, Asked("run") \/ Asked("all"), NEW t \in tools
  PROVE  here.samples[t].whole /\ here.samples[t].of = here.json.of
<1>1. <<"run">> \in Commands /\ <<"all">> \in Commands BY DEF Commands
<1>2. Past BY <1>1 DEF Past, Analysing
<1>3. ~ ToCollect(t) BY DEF WorkflowInv, StateTypes, Collecting
<1> QED BY <1>2, <1>3 DEF WorkflowInv, CollectedInv

LEMMA ReferenceStep ==
  ASSUME WorkflowInv, NEW t \in Tools, Reference(t)
  PROVE  WorkflowInv'
<1> DEFINE s == <<"reference", t>>
           manifest == ManifestOf(t)
           d == [here EXCEPT !.manifest[t] = manifest]
<1>1. Doing(s) /\ s \in Steps /\ Rank(s) \in {7, 9} /\ UNCHANGED <<version, given>>
  BY ToolRanks DEF Reference, ReferenceOr
<1>2. StateTypes /\ DiskInv /\ BooleanTypes BY DEF WorkflowInv
<1>3. UNCHANGED <<configuration, tools, clean, line, aot>> /\ BooleanTypes'
  BY <1>2 DEF given, aot, BooleanTypes, Reference, ReferenceOr
<1>4. DirectorySound(here) BY <1>2, HereSound
<1>5. ASSUME CanRefer(t)
      PROVE  /\ Sound(manifest) /\ manifest.fresh /\ manifest.of = here.samples[t].of
             /\ manifest.whole <=>
                  here.samples[t].whole /\ (t = "unitrace" => here.samples[t].of = here.json.of)
  <2>1. here.samples[t].of \in 1 .. MaxVersions /\ here.samples[t].whole \in BOOLEAN
    BY <1>4, <1>5, PresentSound DEF CanRefer, DirectorySound
  <2> DEFINE whole == here.samples[t].whole /\ (t = "unitrace" => here.samples[t].of = here.json.of)
  <2>2. manifest = New(here.samples[t].of, whole) BY DEF ManifestOf
  <2>3. whole \in BOOLEAN OBVIOUS
  <2> HIDE DEF whole, manifest
  <2>4. Sound(manifest) /\ manifest.fresh /\ manifest.of = here.samples[t].of /\ manifest.whole = whole
    BY <2>1, <2>2, <2>3, NewSound
  <2> QED BY <2>4 DEF whole
<1> HIDE DEF manifest
<1>6. ASSUME CanRefer(t), Change(d)
      PROVE  DiskInv' /\ here' = d
  <2>1. DirectorySound(d) BY <1>4, <1>5, <1>6, DirectoryChanges
  <2> HIDE DEF d
  <2> QED BY <1>2, <1>3, <1>6, <2>1, ChangeSound
<1>7. ASSUME Die, DiskInv' PROVE WorkflowInv'
  BY <1>1, <1>3, <1>7, DieStep, Zenon DEF Die, Stop, ExitCodes
<1>8. ASSUME UNCHANGED disk PROVE DiskInv' BY <1>2, <1>8 DEF DiskInv
<1>9. CASE Finish /\ CanRefer(t) /\ Change(d)
  <2>1. /\ QueueInv' /\ CollectOrder' /\ StateTypes' /\ AttemptInv'
        /\ (Analysing' <=> Analysing)
    BY <1>1, <1>9, FinishStep
  <2>2. DiskInv' /\ here' = d BY <1>6, <1>9
  <2>3. /\ here'.binary = here.binary /\ here'.json = here.json /\ here'.dump = here.dump
        /\ here'.samples = here.samples /\ here'.report = here.report
        /\ here'.manifest[t] = manifest
        /\ \A u \in Tools : u # t => here'.manifest[u] = here.manifest[u]
    BY <1>4, <2>2 DEF DirectorySound, Directory
  <2>4. CollectedInv' /\ BuiltInv' /\ CleanInv' /\ AnalyzeInv'
    <3>1. Rank(s) \in 7 .. 10 BY <1>1
    <3>2. \A u \in Tools : here'.manifest[u] = here.manifest[u] \/ here'.manifest[u].fresh
      BY <1>5, <1>9, <2>3
    <3> HIDE DEF s
    <3> QED BY <1>1, <1>9, <2>3, <3>1, <3>2, AnalysisStep
  <2>5. /\ ~ ToClean' /\ ~ Collecting /\ ~ Collecting'
        /\ \A u \in Tools : /\ ToRefer(u)' <=> ToRefer(u) /\ u # t
                            /\ ToResolve(u)' <=> ToResolve(u)
        /\ ToRefer(t)
    <3>1. \A u \in Tools : s # <<"reference", u>> <=> u # t OBVIOUS
    <3>2. ToRefer(t) BY <1>1, DoingPending DEF WorkflowInv, ToRefer
    <3> HIDE DEF s
    <3> QED BY <1>1, <1>9, <3>1, <3>2, FinishFlags
  <2>6. tools \subseteq Tools BY <1>2 DEF StateTypes
  <2>7. ReportInv'
    <3>1. ASSUME Analysing, NEW u \in tools
          PROVE  /\ ToRefer(u)' => ToResolve(u)'
                 /\ ~ ToRefer(u)' =>
                      /\ here'.manifest[u].of = here'.samples[u].of
                      /\ Asked("run") \/ Asked("all") => here'.manifest[u].whole
                 /\ ~ ToResolve(u)' =>
                      /\ here'.report[u].fresh /\ here'.report[u].of = here'.samples[u].of
                      /\ Asked("run") \/ Asked("all") => here'.report[u].whole
      <4>1. CASE u = t
        <5>1. ToResolve(u)' BY <2>5, <2>6, <3>1, <4>1 DEF WorkflowInv, ReportInv
        <5>2. here'.manifest[u].of = here'.samples[u].of BY <1>5, <1>9, <2>3, <4>1
        <5>3. Asked("run") \/ Asked("all") => here'.manifest[u].whole
          BY <1>5, <1>9, <2>3, <2>5, <3>1, <4>1, AnalysingSamples
        <5> QED BY <5>1, <5>2, <5>3
      <4>2. CASE u # t
        BY <2>3, <2>5, <2>6, <3>1, <4>2 DEF WorkflowInv, ReportInv
      <4> QED BY <4>1, <4>2
    <3> QED BY <1>3, <2>1, <2>5, <3>1 DEF ReportInv, Asked
  <2> QED BY <1>3, <2>1, <2>2, <2>4, <2>7 DEF WorkflowInv
<1> QED BY <1>6, <1>7, <1>8, <1>9 DEF Reference, ReferenceOr, manifest

LEMMA ResolveStep ==
  ASSUME WorkflowInv, NEW t \in Tools, Resolve(t)
  PROVE  WorkflowInv'
<1> DEFINE s == <<"resolve", t>>
           report == ReportOf(t)
           d == [here EXCEPT !.report[t] = report]
           none == [here EXCEPT !.report[t] = Absent]
<1>1. Doing(s) /\ s \in Steps /\ Rank(s) \in {8, 10} /\ UNCHANGED <<version, given>>
      /\ Rank(<<"reference", t>>) < Rank(s)
  BY ToolRanks DEF Resolve
<1>2. StateTypes /\ DiskInv /\ BooleanTypes BY DEF WorkflowInv
<1>3. UNCHANGED <<configuration, tools, clean, line, aot>> /\ BooleanTypes'
  BY <1>2 DEF given, aot, BooleanTypes, Resolve
<1>4. DirectorySound(here) /\ DirectorySound(none) BY <1>2, HereSound, AbsentSound, DirectoryChanges
<1>5. ASSUME Present(here.manifest[t])
      PROVE  /\ Sound(report) /\ report.fresh /\ report.of = here.manifest[t].of
             /\ report.whole <=> here.manifest[t].whole /\ here.manifest[t].of = here.json.of
  <2>1. here.manifest[t].of \in 1 .. MaxVersions /\ here.manifest[t].whole \in BOOLEAN
    BY <1>4, <1>5, PresentSound DEF DirectorySound
  <2> DEFINE whole == here.manifest[t].whole /\ here.manifest[t].of = here.json.of
  <2>2. report = New(here.manifest[t].of, whole) BY DEF ReportOf
  <2>3. whole \in BOOLEAN OBVIOUS
  <2> HIDE DEF whole, report
  <2>4. Sound(report) /\ report.fresh /\ report.of = here.manifest[t].of /\ report.whole = whole
    BY <2>1, <2>2, <2>3, NewSound
  <2> QED BY <2>4 DEF whole
<1> HIDE DEF report
<1>6. ASSUME Present(here.manifest[t]), Change(d)
      PROVE  DiskInv' /\ here' = d
  <2>1. DirectorySound(d) BY <1>4, <1>5, <1>6, DirectoryChanges
  <2> HIDE DEF d
  <2> QED BY <1>2, <1>3, <1>6, <2>1, ChangeSound
<1>7. ASSUME Die, DiskInv' PROVE WorkflowInv'
  BY <1>1, <1>3, <1>7, DieStep, Zenon DEF Die, Stop, ExitCodes
<1>8. ASSUME UNCHANGED disk PROVE DiskInv' BY <1>2, <1>8 DEF DiskInv
<1>9. ASSUME Change(none) PROVE DiskInv'
  <2> HIDE DEF none
  <2> QED BY <1>2, <1>3, <1>4, <1>9, ChangeSound
<1>10. CASE Finish /\ Present(here.manifest[t]) /\ Change(d)
  <2>1. /\ QueueInv' /\ CollectOrder' /\ StateTypes' /\ AttemptInv'
        /\ (Analysing' <=> Analysing)
    BY <1>1, <1>10, FinishStep
  <2>2. DiskInv' /\ here' = d BY <1>6, <1>10
  <2>3. /\ here'.binary = here.binary /\ here'.json = here.json /\ here'.dump = here.dump
        /\ here'.samples = here.samples /\ here'.manifest = here.manifest
        /\ here'.report[t] = report
        /\ \A u \in Tools : u # t => here'.report[u] = here.report[u]
    BY <1>4, <2>2 DEF DirectorySound, Directory
  <2>4. CollectedInv' /\ BuiltInv' /\ CleanInv' /\ AnalyzeInv'
    <3>1. Rank(s) \in 7 .. 10 BY <1>1
    <3>2. \A u \in Tools : here'.report[u] = here.report[u] \/ here'.report[u].fresh
      BY <1>5, <1>10, <2>3
    <3> HIDE DEF s
    <3> QED BY <1>1, <1>10, <2>3, <3>1, <3>2, AnalysisStep
  <2>5. /\ ~ ToClean' /\ ~ Collecting /\ ~ Collecting'
        /\ \A u \in Tools : /\ ToRefer(u)' <=> ToRefer(u)
                            /\ ToResolve(u)' <=> ToResolve(u) /\ u # t
        /\ ~ ToRefer(t)
    <3>1. \A u \in Tools : s # <<"resolve", u>> <=> u # t OBVIOUS
    <3>2. ~ ToRefer(t)
      <4> DEFINE r == <<"reference", t>>
      <4> HIDE DEF r, s
      <4>1. \A x : Pending(x) => x = s \/ Rank(s) < Rank(x)
        BY <1>1, DoingPending DEF WorkflowInv
      <4>2. Rank(r) < Rank(s) /\ Rank(r) \in {7, 9} BY <1>1, ToolRanks DEF r
      <4>3. ~ Pending(r) BY <1>1, <4>1, <4>2
      <4> QED BY <4>3 DEF ToRefer, r
    <3> HIDE DEF s
    <3> QED BY <1>1, <1>10, <3>1, <3>2, FinishFlags
  <2>6. tools \subseteq Tools BY <1>2 DEF StateTypes
  <2>7. ReportInv'
    <3>1. ASSUME Analysing, NEW u \in tools
          PROVE  /\ ToRefer(u)' => ToResolve(u)'
                 /\ ~ ToRefer(u)' =>
                      /\ here'.manifest[u].of = here'.samples[u].of
                      /\ Asked("run") \/ Asked("all") => here'.manifest[u].whole
                 /\ ~ ToResolve(u)' =>
                      /\ here'.report[u].fresh /\ here'.report[u].of = here'.samples[u].of
                      /\ Asked("run") \/ Asked("all") => here'.report[u].whole
      <4>1. CASE u = t
        <5>1. here.manifest[t].of = here.samples[t].of
          BY <2>5, <3>1, <4>1 DEF WorkflowInv, ReportInv
        <5>2. Asked("run") \/ Asked("all") =>
                here.manifest[t].whole /\ here.samples[t].of = here.json.of
          BY <2>5, <3>1, <4>1, AnalysingSamples DEF WorkflowInv, ReportInv
        <5> QED BY <1>5, <1>10, <2>3, <2>5, <2>6, <4>1, <5>1, <5>2
      <4>2. CASE u # t
        BY <2>3, <2>5, <2>6, <3>1, <4>2 DEF WorkflowInv, ReportInv
      <4> QED BY <4>1, <4>2
    <3> QED BY <1>3, <2>1, <2>5, <3>1 DEF ReportInv, Asked
  <2> QED BY <1>3, <2>1, <2>2, <2>4, <2>7 DEF WorkflowInv
<1> QED BY <1>6, <1>7, <1>8, <1>9, <1>10 DEF Resolve, report

\* What a resolve lacks is made before it, and never after a collection.
LEMMA PrepareResolveStep ==
  ASSUME WorkflowInv, NEW t \in Tools, PrepareResolve(t)
  PROVE  WorkflowInv'
<1> DEFINE s == <<"resolve", t>>
           res == <<"build resolver">>
           bin == <<"build binary">>
           exe == <<"execute">>
           cl == <<"clean">>
           req == <<"require json">>
           col(u) == <<"collect", u>>
           ref(u) == <<"reference", u>>
           rep(u) == <<"resolve", u>>
<1> HIDE DEF s, res, bin, exe, cl, req, col, ref, rep
<1>1. /\ Doing(s) /\ s \in Steps /\ Rank(s) \in {8, 10}
      /\ UNCHANGED <<version, resolver, disk, given, attempt, exit>>
  BY ToolRanks DEF PrepareResolve, First, s
<1>2. /\ StateTypes /\ DiskInv /\ BooleanTypes /\ AttemptInv /\ QueueInv /\ CollectOrder
      /\ CollectedInv /\ BuiltInv /\ CleanInv /\ ReportInv /\ AnalyzeInv
  BY DEF WorkflowInv
<1>3. UNCHANGED <<configuration, tools, clean, line, aot, here, exit, version>>
  BY <1>1 DEF given, aot, here
<1>4. /\ Running /\ todo # << >> /\ Head(todo) = s /\ Pending(s)
      /\ \A r : Pending(r) => r = s \/ Rank(s) < Rank(r)
  BY <1>1, <1>2, DoingPending
<1>5. /\ {res, bin, exe} \subseteq Steps
      /\ Rank(res) = 3 /\ Rank(bin) = 2 /\ Rank(exe) = 4 /\ Rank(cl) = 1 /\ Rank(req) = 1
  BY StepsAre, RankValues, Zenon DEF res, bin, exe, cl, req
<1>6. \A u \in Tools : Rank(col(u)) \in {5, 6} /\ Rank(ref(u)) \in {7, 9} /\ Rank(rep(u)) \in {8, 10}
  BY ToolRanks, Zenon DEF col, ref, rep
<1>7. PICK S \in {{res}, {bin, exe}} :
        /\ QueueInv' /\ \A r : Pending(r)' <=> Pending(r) \/ r \in S
        /\ S = {bin, exe} => ~ Present(here.json)
  <2>1. CASE First(<<res>>)
    <3>1. IsPlan(<<res>>, {res}) BY <1>5, PlanOne
    <3>2. todo' = <<res>> \o todo BY <2>1 DEF First
    <3>3. \A r \in {res} : r \in Steps /\ Rank(r) \in 1 .. 4 BY <1>5
    <3>4. QueueInv' /\ \A r : Pending(r)' <=> Pending(r) \/ r \in {res}
      BY <1>2, <1>3, <1>4, <3>1, <3>2, <3>3, FirstQueue DEF s
    <3>5. {res} # {bin, exe} BY <1>5
    <3> QED BY <3>4, <3>5
  <2>2. CASE ~ Present(here.json) /\ First(<<bin, exe>>)
    <3>1. IsPlan(<<bin, exe>>, {bin, exe}) BY <1>5, PlanTwo
    <3>2. todo' = <<bin, exe>> \o todo BY <2>2 DEF First
    <3>3. \A r \in {bin, exe} : r \in Steps /\ Rank(r) \in 1 .. 4 BY <1>5
    <3>4. QueueInv' /\ \A r : Pending(r)' <=> Pending(r) \/ r \in {bin, exe}
      BY <1>2, <1>3, <1>4, <3>1, <3>2, <3>3, FirstQueue DEF s
    <3> QED BY <2>2, <3>4
  <2> QED BY <2>1, <2>2 DEF PrepareResolve, res, bin, exe
<1>8. \A r \in S : r \in {res, bin, exe} /\ Rank(r) \in {2, 3, 4} BY <1>5, <1>7
<1>9. ~ Pending(cl) /\ ~ Pending(cl)' /\ ~ Pending(bin) /\ ~ Pending(exe) /\ ~ Pending(req)
  BY <1>1, <1>4, <1>5, <1>7, <1>8
<1>10. \A u \in Tools : /\ ~ ToCollect(u) /\ ~ ToCollect(u)'
                        /\ ToRefer(u)' <=> ToRefer(u)
                        /\ ToResolve(u)' <=> ToResolve(u)
  <2> TAKE u \in Tools
  <2>1. Rank(col(u)) \in {5, 6} /\ Rank(ref(u)) \in {7, 9} /\ Rank(rep(u)) \in {8, 10} BY <1>6
  <2>2. ~ Pending(col(u)) BY <1>1, <1>4, <2>1
  <2>3. col(u) \notin S /\ ref(u) \notin S /\ rep(u) \notin S BY <1>8, <2>1
  <2> QED BY <1>7, <2>2, <2>3 DEF ToCollect, ToRefer, ToResolve, col, ref, rep
<1>11. \A c \in Commands : Pending(c)' <=> Pending(c) BY <1>5, <1>7, <1>8, StepShapes
<1>12. ~ Collecting /\ ~ Collecting' /\ ~ ToClean /\ ~ ToClean' /\ ~ ToBuild
  BY <1>9, <1>10 DEF Collecting, ToClean, ToBuild, cl, bin
<1>13. tools \subseteq Tools BY <1>2 DEF StateTypes
<1>14. CollectOrder' BY <1>10, <1>12, <1>13 DEF CollectOrder, ToCollect, ToClean, Tools
<1>15. StateTypes' /\ DiskInv' /\ BooleanTypes'
  BY <1>1, <1>2, <1>3 DEF StateTypes, DiskInv, BooleanTypes, given
<1>16. AttemptInv'
  <2>1. ASSUME NEW u \in Tools PROVE Head(todo) # col(u)
    <3>1. Rank(col(u)) \in {5, 6} BY <1>6
    <3> QED BY <1>1, <1>4, <3>1
  <2>2. ~ attempt > 0 BY <1>2, <2>1 DEF AttemptInv, col
  <2> QED BY <1>1, <2>2 DEF AttemptInv
<1>17. (Past' <=> Past) /\ (Analysing' <=> Analysing) /\ (Alive' <=> Alive) /\ Running'
  <2>1. <<"run">> \in Commands /\ <<"all">> \in Commands BY DEF Commands
  <2> QED BY <1>3, <1>4, <1>11, <2>1, Zenon DEF Past, Analysing, Alive, Asked, EndsWith, Running
<1>18. Past => S = {res} /\ ~ ToExecute'
  <2>1. Past => Present(here.json)
    <3>1. Past => here.json.whole BY <1>2, <1>12 DEF CollectedInv
    <3>2. Sound(here.json) BY <1>2, HereSound DEF DirectorySound
    <3> QED BY <3>1, <3>2, PresentSound
  <2>2. Past => S = {res} BY <1>7, <2>1
  <2>3. exe \notin {res} BY <1>5
  <2> QED BY <1>7, <1>9, <2>2, <2>3 DEF ToExecute, exe
<1>19. CollectedInv'
  BY <1>2, <1>3, <1>12, <1>10, <1>13, <1>17, <1>18, Zenon DEF CollectedInv
<1>20. BuiltInv'
  <2>1. <<"run">> \in Commands /\ <<"all">> \in Commands BY DEF Commands
  <2> QED BY <1>2, <1>3, <1>4, <1>11, <1>12, <1>17, <2>1, Zenon DEF BuiltInv, Asked
<1>21. CleanInv' BY <1>2, <1>3, <1>12, <1>17, Zenon DEF CleanInv
<1>22. ReportInv' BY <1>2, <1>3, <1>10, <1>12, <1>13, <1>17, Zenon DEF ReportInv, Asked
<1>23. AnalyzeInv'
  <2> SUFFICES ASSUME line = << <<"analyze">> >>
               PROVE  (\A i \in DOMAIN todo' : todo'[i] \in AnalyzeSteps) /\ Present(here.json)'
    BY <1>3 DEF AnalyzeInv, AnalyzeSteps
  <2>1. todo # << <<"analyze">> >> BY <1>1, <1>4, AnalyzeAlone
  <2>2. \A i \in DOMAIN todo : todo[i] \in AnalyzeSteps
    BY <1>2, <1>4, <2>1 DEF AnalyzeInv, AnalyzeSteps
  <2>3. Present(here.json) BY <1>2, <1>4, <1>9, <2>1 DEF AnalyzeInv, req
  <2>4. \A r : Pending(r)' => r \in AnalyzeSteps
    <3>1. res \in AnalyzeSteps BY Zenon DEF AnalyzeSteps, res
    <3>2. \A r : Pending(r) => r \in AnalyzeSteps BY <2>2 DEF Pending
    <3> QED BY <1>7, <2>3, <3>1, <3>2
  <2>5. ASSUME NEW i \in DOMAIN todo' PROVE todo'[i] \in AnalyzeSteps
    <3>1. ASSUME NEW r, r = todo'[i] PROVE r \in AnalyzeSteps
      <4>1. Pending(r)' BY <3>1 DEF Pending
      <4> QED BY <2>4, <4>1
    <3> QED BY <3>1
  <2> QED BY <1>3, <2>3, <2>5 DEF Present
<1> QED BY <1>7, <1>14, <1>15, <1>16, <1>19, <1>20, <1>21, <1>22, <1>23 DEF WorkflowInv

\* Which commands bring which steps.
LEMMA PlanMembers ==
  ASSUME tools \in SUBSET Tools, NEW c \in Commands
  PROVE  /\ <<"execute">> \notin PlanSet(c)
         /\ c = <<"run">> \/ c = <<"all">> =>
              /\ <<"clean">> \in PlanSet(c)
              /\ \A t \in tools : <<"collect", t>> \in PlanSet(c)
         /\ ~ (c = <<"run">> \/ c = <<"all">>) =>
              /\ <<"clean">> \notin PlanSet(c)
              /\ \A t \in Tools : <<"collect", t>> \notin PlanSet(c)
         /\ c = <<"all">> => <<"build binary">> \in PlanSet(c)
         /\ c = <<"analyze">> \/ c = <<"all">> =>
              \A t \in tools : <<"reference", t>> \in PlanSet(c) /\ <<"resolve", t>> \in PlanSet(c)
         /\ c = <<"analyze">> => PlanSet(c) \subseteq AnalyzeSteps /\ <<"require json">> \in PlanSet(c)
<1> DEFINE res == <<"build resolver">>
           rem == <<"remove resolver">>
           bin == <<"build binary">>
           exe == <<"execute">>
           cl == <<"clean">>
           req == <<"require json">>
           col(t) == <<"collect", t>>
           ref(t) == <<"reference", t>>
           rep(t) == <<"resolve", t>>
<1>1. /\ rem # cl /\ req # cl
      /\ PlanSet(<<"adapter build">>) = {res} /\ PlanSet(<<"adapter clean">>) = {rem}
      /\ PlanSet(<<"adapter run">>) = {rep("vtune")} /\ PlanSet(<<"workload build">>) = {bin}
      /\ PlanSet(<<"build">>) = {bin, res} /\ PlanSet(<<"run">>) = {cl} \union CollectionSet
      /\ PlanSet(<<"analyze">>) = {req} \union AnalysisSet
      /\ PlanSet(<<"all">>) = {cl, bin} \union CollectionSet \union AnalysisSet
  <2>1. rem # cl /\ req # cl OBVIOUS
  <2>2. PlanSet(<<"adapter build">>) = {res} BY DEF PlanSet
  <2>3. PlanSet(<<"adapter clean">>) = {rem} BY DEF PlanSet
  <2>4. PlanSet(<<"adapter run">>) = {rep("vtune")} BY DEF PlanSet
  <2>5. PlanSet(<<"workload build">>) = {bin} BY DEF PlanSet
  <2>6. PlanSet(<<"build">>) = {bin, res} BY DEF PlanSet
  <2>7. PlanSet(<<"run">>) = {cl} \union CollectionSet BY DEF PlanSet
  <2>8. PlanSet(<<"analyze">>) = {req} \union AnalysisSet BY DEF PlanSet
  <2>9. PlanSet(<<"all">>) = {cl, bin} \union CollectionSet \union AnalysisSet BY DEF PlanSet
  <2> QED BY <2>1, <2>2, <2>3, <2>4, <2>5, <2>6, <2>7, <2>8, <2>9, Zenon
<1>2. /\ Rank(res) = 3 /\ Rank(bin) = 2 /\ Rank(exe) = 4 /\ Rank(cl) = 1 /\ Rank(req) = 1
      /\ Rank(rem) = 1 /\ Rank(rep("vtune")) = 8
  BY RankValues, Zenon
<1>3. \A t \in Tools : Rank(col(t)) \in {5, 6} /\ Rank(ref(t)) \in {7, 9} /\ Rank(rep(t)) \in {8, 10}
  BY ToolRanks, Zenon
<1>4. /\ \A t \in tools : col(t) \in CollectionSet /\ ref(t) \in AnalysisSet /\ rep(t) \in AnalysisSet
      /\ \A s \in CollectionSet : Rank(s) \in {5, 6}
      /\ \A s \in AnalysisSet : Rank(s) \in 7 .. 10
  BY RankOrder DEF CollectionSet, AnalysisSet
<1>5. req \in AnalyzeSteps /\ AnalysisSet \subseteq AnalyzeSteps BY DEF AnalyzeSteps, AnalysisSet
<1> DEFINE run == <<"run">>
           analyze == <<"analyze">>
           all == <<"all">>
           S == PlanSet(c)
<1>6. run # all /\ run # analyze /\ all # analyze
  <2>1. run # all OBVIOUS
  <2>2. run # analyze OBVIOUS
  <2>3. all # analyze OBVIOUS
  <2> QED BY <2>1, <2>2, <2>3
<1> HIDE DEF res, rem, bin, exe, cl, req, col, ref, rep, run, analyze, all
<1>7. CASE c \in {run, all}
  <2>1. /\ S \subseteq {cl, bin} \union CollectionSet \union AnalysisSet
        /\ cl \in S /\ CollectionSet \subseteq S
        /\ c = all => bin \in S /\ AnalysisSet \subseteq S
    BY <1>1, <1>6, <1>7, Zenon DEF run, all
  <2>2. exe \notin S
    <3>1. exe \notin CollectionSet /\ exe \notin AnalysisSet /\ exe # cl /\ exe # bin BY <1>2, <1>4
    <3> QED BY <2>1, <3>1, Zenon
  <2>3. /\ \A t \in tools : col(t) \in S
        /\ c = all => \A t \in tools : ref(t) \in S /\ rep(t) \in S
    BY <1>4, <2>1, Zenon
  <2>4. c # analyze BY <1>6, <1>7, Zenon
  <2> QED BY <1>7, <2>1, <2>2, <2>3, <2>4, Zenon DEF exe, cl, bin, col, ref, rep, run, analyze, all
<1>8. CASE c \notin {run, all}
  <2>1. c = analyze => S \subseteq AnalyzeSteps /\ req \in S /\ \A t \in tools : ref(t) \in S /\ rep(t) \in S
    BY <1>1, <1>4, <1>5, Zenon DEF analyze
  <2>2. S \subseteq {res, rem, bin, req, rep("vtune")} \union AnalysisSet
    BY <1>1, <1>8, Zenon DEF Commands, run, all
  <2>3. ASSUME NEW s \in S PROVE s # cl /\ Rank(s) \in {1, 2, 3, 7, 8, 9, 10}
    <3>1. CASE s \in AnalysisSet BY <1>2, <1>4, <3>1
    <3>2. CASE s \in {res, rem, bin, req, rep("vtune")}
      <4>1. res # cl /\ bin # cl /\ rep("vtune") # cl BY <1>2
      <4> QED BY <1>1, <1>2, <3>2, <4>1, Zenon
    <3> QED BY <2>2, <3>1, <3>2
  <2>4. exe \notin S /\ cl \notin S BY <1>2, <2>3
  <2>5. \A t \in Tools : col(t) \notin S
    <3> TAKE t \in Tools
    <3>1. Rank(col(t)) \in {5, 6} BY <1>3
    <3> QED BY <2>3, <3>1
  <2> QED BY <1>8, <2>1, <2>4, <2>5, Zenon DEF exe, cl, req, col, ref, rep, run, analyze, all
<1> QED BY <1>7, <1>8

\* A command is begun when all steps of the one before it are done.
LEMMA StartCommandStep ==
  ASSUME WorkflowInv, StartCommand
  PROVE  WorkflowInv'
<1> DEFINE run == <<"run">>
           analyze == <<"analyze">>
           all == <<"all">>
           c == Head(todo)
           S == PlanSet(c)
<1> HIDE DEF run, analyze, all, S
<1>1. /\ StateTypes /\ DiskInv /\ BooleanTypes /\ AttemptInv /\ QueueInv /\ CollectOrder
      /\ CollectedInv /\ BuiltInv /\ CleanInv /\ ReportInv /\ AnalyzeInv
  BY DEF WorkflowInv
<1>2. /\ Running /\ todo # << >> /\ c \in Commands /\ todo' = StepsOf(c) \o Tail(todo)
      /\ UNCHANGED <<version, resolver, disk, given, attempt, exit>>
  BY DEF StartCommand
<1>3. UNCHANGED <<configuration, tools, clean, line, aot, here, exit, version>>
  BY <1>2 DEF given, aot, here
<1>4. tools \in SUBSET Tools /\ tools # {} BY <1>1 DEF StateTypes
<1>5. /\ QueueInv'
      /\ \A s \in Steps : ~ Pending(s) /\ (Pending(s)' <=> s \in S)
      /\ \A d \in Commands : (Pending(d)' => Pending(d)) /\ (Pending(d) => d = c \/ Pending(d)')
  BY <1>1, <1>2, <1>3, <1>4, StartQueue, Zenon DEF S
<1>6. /\ run \in Commands /\ all \in Commands /\ analyze \in Commands
      /\ run # all /\ run # analyze /\ all # analyze
  <2>1. run \in Commands /\ all \in Commands /\ analyze \in Commands
    BY Zenon DEF Commands, run, all, analyze
  <2>2. run # all BY DEF run, all
  <2>3. run # analyze BY DEF run, analyze
  <2>4. all # analyze BY DEF all, analyze
  <2> QED BY <2>1, <2>2, <2>3, <2>4
<1>7. /\ ~ ToClean /\ ~ ToBuild /\ ~ ToExecute /\ ~ ToExecute'
      /\ \A t \in Tools : ~ ToCollect(t) /\ ~ ToRefer(t) /\ ~ ToResolve(t)
      /\ c = run \/ c = all => ToClean' /\ \A t \in tools : ToCollect(t)'
      /\ ~ (c = run \/ c = all) => ~ ToClean' /\ \A t \in Tools : ~ ToCollect(t)'
      /\ c = all => ToBuild'
      /\ c = analyze \/ c = all => \A t \in tools : ToRefer(t)' /\ ToResolve(t)'
      /\ c = analyze => S \subseteq AnalyzeSteps /\ Pending(<<"require json">>)'
  <2>1. /\ <<"clean">> \in Steps /\ <<"build binary">> \in Steps /\ <<"execute">> \in Steps
        /\ <<"require json">> \in Steps
        /\ \A t \in Tools : /\ <<"collect", t>> \in Steps /\ <<"reference", t>> \in Steps
                            /\ <<"resolve", t>> \in Steps
    BY StepsAre, Zenon
  <2>2. tools \subseteq Tools BY <1>4
  <2>3. /\ <<"execute">> \notin S
        /\ c = run \/ c = all => <<"clean">> \in S /\ \A t \in tools : <<"collect", t>> \in S
        /\ ~ (c = run \/ c = all) =>
             <<"clean">> \notin S /\ \A t \in Tools : <<"collect", t>> \notin S
        /\ c = all => <<"build binary">> \in S
        /\ c = analyze \/ c = all => \A t \in tools : <<"reference", t>> \in S /\ <<"resolve", t>> \in S
        /\ c = analyze => S \subseteq AnalyzeSteps /\ <<"require json">> \in S
    BY <1>2, <1>4, PlanMembers, Zenon DEF S, run, all, analyze
  <2>4. ~ ToClean /\ ~ ToBuild /\ ~ ToExecute /\ ~ ToExecute'
    BY <1>5, <2>1, <2>3, Zenon DEF ToClean, ToBuild, ToExecute
  <2>5. \A t \in Tools : ~ ToCollect(t) /\ ~ ToRefer(t) /\ ~ ToResolve(t)
    BY <1>5, <2>1, Zenon DEF ToCollect, ToRefer, ToResolve
  <2>6. c = run \/ c = all => ToClean' /\ \A t \in tools : ToCollect(t)'
    BY <1>5, <2>1, <2>2, <2>3, Zenon DEF ToClean, ToCollect
  <2>7. ~ (c = run \/ c = all) => ~ ToClean' /\ \A t \in Tools : ~ ToCollect(t)'
    BY <1>5, <2>1, <2>3, Zenon DEF ToClean, ToCollect
  <2>8. c = all => ToBuild' BY <1>5, <2>1, <2>3, Zenon DEF ToBuild
  <2>9. c = analyze \/ c = all => \A t \in tools : ToRefer(t)' /\ ToResolve(t)'
    BY <1>5, <2>1, <2>2, <2>3, Zenon DEF ToRefer, ToResolve
  <2>10. c = analyze => S \subseteq AnalyzeSteps /\ Pending(<<"require json">>)'
    BY <1>5, <2>1, <2>3, Zenon
  <2> QED BY <2>4, <2>5, <2>6, <2>7, <2>8, <2>9, <2>10
<1>8. /\ ~ Collecting
      /\ Collecting' <=> c = run \/ c = all
  BY <1>4, <1>7 DEF Collecting
<1>9. CollectOrder'
  <2>1. /\ Pending(<<"clean">>)' <=> c = run \/ c = all
        /\ \A t \in Tools : Pending(<<"collect", t>>)' => (c = run \/ c = all)
        /\ c = run \/ c = all => \A t \in tools : Pending(<<"collect", t>>)'
    BY <1>7, Zenon DEF ToClean, ToCollect
  <2>2. "vtune" \in Tools /\ "unitrace" \in Tools BY DEF Tools
  <2> QED BY <1>3, <2>1, <2>2, Zenon DEF CollectOrder
<1>10. StateTypes' /\ DiskInv' /\ BooleanTypes'
  BY <1>1, <1>2, <1>3 DEF StateTypes, DiskInv, BooleanTypes, given
<1>11. AttemptInv'
  <2>1. ASSUME NEW t \in Tools PROVE c # <<"collect", t>>
    BY <1>2, StepsAre, StepShapes, Zenon
  <2>2. ~ attempt > 0 BY <1>1, <2>1 DEF AttemptInv
  <2> QED BY <1>2, <2>2 DEF AttemptInv
<1>12. Alive /\ Alive' /\ Running' BY <1>2, <1>3 DEF Alive, Running
<1>13. (Past' /\ c # run /\ c # all) => Past
  BY <1>3, <1>5, <1>6, <1>12, Zenon DEF Past, Asked, run, all
<1>14. CollectedInv'
  BY <1>1, <1>3, <1>4, <1>7, <1>8, <1>13, Zenon DEF CollectedInv
<1>15. BuiltInv'
  <2>1. ASSUME Asked("all"), ~ Pending(all)', c # all
        PROVE  /\ here.binary.fresh /\ here.binary.of = version
               /\ aot /\ "unitrace" \in tools /\ here.dump.whole => here.dump.of = version
               /\ c # run /\ ~ Pending(run)' =>
                   /\ here.binary.of = here.json.of
                   /\ "unitrace" \in tools => here.dump.whole /\ here.dump.of = here.json.of
    <3>1. ~ Pending(all) BY <1>5, <1>6, <2>1
    <3>2. ~ Pending(run)' /\ c # run => ~ Pending(run) BY <1>5, <1>6
    <3> QED BY <1>1, <1>2, <1>7, <1>8, <1>12, <2>1, <3>1, <3>2, Zenon DEF BuiltInv, all, run
  <2> QED BY <1>3, <1>7, <1>8, <1>12, <2>1, Zenon DEF BuiltInv, Asked, all, run
<1>16. CleanInv' BY <1>1, <1>3, <1>7, <1>13, Zenon DEF CleanInv
<1>17. ReportInv'
  <2>1. ASSUME Analysing' PROVE c = analyze \/ c = all
    <3>1. \A d \in Commands : Pending(d) => d = c BY <1>5, <2>1 DEF Analysing
    <3>2. Pending(c) /\ Pending(todo[Len(todo)])
      <4>1. 1 \in DOMAIN todo /\ todo[1] = c /\ Len(todo) \in DOMAIN todo
        BY <1>1, <1>2 DEF QueueInv
      <4> QED BY <4>1 DEF Pending
    <3>3. line # << >> /\ line \in Seq(Commands) /\ todo[Len(todo)] = line[Len(line)]
      BY <1>1, <1>2, <3>2 DEF QueueInv
    <3>4. line[Len(line)] \in Commands BY <3>3
    <3>5. c = line[Len(line)] BY <3>1, <3>2, <3>3, <3>4
    <3> QED BY <1>3, <2>1, <3>5, Zenon DEF Analysing, EndsWith, analyze, all
  <2> QED BY <1>3, <1>7, <2>1, Zenon DEF ReportInv
<1>18. AnalyzeInv'
  <2> SUFFICES ASSUME line = << <<"analyze">> >>
               PROVE  /\ \A i \in DOMAIN todo' : todo'[i] \in AnalyzeSteps
                      /\ Pending(<<"require json">>)'
    BY <1>3, Zenon DEF AnalyzeInv, AnalyzeSteps
  <2>1. todo = << <<"analyze">> >>
    <3>1. c \notin AnalyzeSteps
      <4>1. AnalyzeSteps \subseteq Steps BY StepsAre, Zenon DEF AnalyzeSteps, Steps, Tools
      <4> QED BY <1>2, <4>1, StepShapes
    <3>2. 1 \in DOMAIN todo /\ todo[1] = c BY <1>1, <1>2 DEF QueueInv
    <3> QED BY <1>1, <1>2, <3>1, <3>2 DEF AnalyzeInv, AnalyzeSteps
  <2>2. c = analyze BY <2>1, AnalyzeAlone, Zenon DEF analyze
  <2>3. IsPlan(StepsOf(c), S) BY <1>2, <1>4, CommandPlan, Zenon DEF S
  <2>4. todo' = StepsOf(c)
    <3>1. Tail(<< <<"analyze">> >>) = << >> OBVIOUS
    <3>2. StepsOf(c) \in Seq(Steps \union Commands) BY <2>3 DEF IsPlan
    <3>3. \A q \in Seq(Steps \union Commands) : q \o << >> = q OBVIOUS
    <3> QED BY <1>2, <2>1, <3>1, <3>2, <3>3, Zenon
  <2>5. \A i \in DOMAIN todo' : todo'[i] \in S BY <2>3, <2>4 DEF IsPlan
  <2> QED BY <1>7, <2>2, <2>5
<1> QED BY <1>5, <1>9, <1>10, <1>11, <1>14, <1>15, <1>16, <1>17, <1>18 DEF WorkflowInv

\* Building or removing the resolver, or asking for the manifest.
LEMMA QuietStep ==
  ASSUME WorkflowInv, NEW s \in QuietSteps, Doing(s), UNCHANGED <<version, disk, given>>,
         resolver' \in BOOLEAN, Die \/ (Finish /\ (s = <<"require json">> => Present(here.json)))
  PROVE  WorkflowInv'
<1>1. s \in Steps BY StepsAre, Zenon DEF QuietSteps
<1>2. DiskInv' /\ UNCHANGED here BY DEF WorkflowInv, DiskInv, here, given
<1>3. BooleanTypes' BY DEF WorkflowInv, BooleanTypes, given
<1>4. CASE Die BY <1>2, <1>3, <1>4, DieStep, Zenon DEF Die, Stop, ExitCodes
<1>5. CASE Finish /\ (s = <<"require json">> => Present(here.json))
  <2>1. s = <<"require json">> => Present(here.json)' BY <1>2, <1>5, Zenon DEF Present
  <2>2. here'.json = here.json BY <1>2
  <2>3. AnalyzeInv' BY <1>1, <1>5, <2>1, <2>2, FinishAnalyze, Zenon
  <2> QED BY <1>5, <2>3, QuietFinish, Zenon
<1> QED BY <1>4, <1>5

LEMMA BuildResolverStep ==
  ASSUME WorkflowInv, BuildResolver
  PROVE  WorkflowInv'
<1> DEFINE s == <<"build resolver">>
<1>1. s \in QuietSteps /\ s # <<"require json">>
  <2>1. s \in QuietSteps BY Zenon DEF QuietSteps
  <2>2. s # <<"require json">> OBVIOUS
  <2> QED BY <2>1, <2>2
<1>2. resolver' \in BOOLEAN BY DEF WorkflowInv, BooleanTypes, BuildResolver
<1> HIDE DEF s
<1> QED BY <1>1, <1>2, QuietStep, Zenon DEF BuildResolver, s

LEMMA RemoveResolverStep ==
  ASSUME WorkflowInv, RemoveResolver
  PROVE  WorkflowInv'
<1> DEFINE s == <<"remove resolver">>
<1>1. s \in QuietSteps /\ s # <<"require json">>
  <2>1. s \in QuietSteps BY Zenon DEF QuietSteps
  <2>2. s # <<"require json">> OBVIOUS
  <2> QED BY <2>1, <2>2
<1>2. resolver' \in BOOLEAN BY DEF RemoveResolver
<1> HIDE DEF s
<1> QED BY <1>1, <1>2, QuietStep, Zenon DEF RemoveResolver, s

LEMMA RequireJsonStep ==
  ASSUME WorkflowInv, RequireJson
  PROVE  WorkflowInv'
<1>1. <<"require json">> \in QuietSteps BY Zenon DEF QuietSteps
<1>2. resolver' \in BOOLEAN BY DEF WorkflowInv, BooleanTypes, RequireJson
<1> QED BY <1>1, <1>2, QuietStep, Zenon DEF RequireJson

LEMMA KillStep ==
  ASSUME WorkflowInv, Kill
  PROVE  WorkflowInv'
<1>1. DiskInv' BY DEF WorkflowInv, DiskInv, Kill
<1>2. BooleanTypes' BY DEF WorkflowInv, BooleanTypes, Kill, given
<1> QED BY <1>1, <1>2, DieStep, Zenon DEF Kill, Stop, ExitCodes

\* At the end of its line an invocation has nothing left to do.
LEMMA EndOfLineStep ==
  ASSUME WorkflowInv, EndOfLine
  PROVE  WorkflowInv'
<1>1. /\ Running /\ todo = << >> /\ todo' = << >> /\ attempt' = 0 /\ exit' = "success"
      /\ UNCHANGED <<version, resolver, disk, given>>
  BY DEF EndOfLine, Stop
<1>2. UNCHANGED <<configuration, tools, clean, line, aot, here>> BY <1>1 DEF given, aot, here
<1>3. QueueInv' /\ \A s : ~ Pending(s)' BY <1>1, <1>2, StopQueue DEF WorkflowInv
<1>4. \A s : ~ Pending(s) BY <1>1 DEF Pending
<1>5. CollectOrder' BY <1>3 DEF CollectOrder
<1>6. StateTypes'
  <2>1. 0 \in 0 .. MaxAttempts BY DwarfCheckAssumption
  <2>2. exit' \in ExitCodes BY <1>1, Zenon DEF ExitCodes
  <2> QED BY <1>1, <1>2, <2>1, <2>2 DEF WorkflowInv, StateTypes, given
<1>7. DiskInv' /\ BooleanTypes' BY <1>1, <1>2 DEF WorkflowInv, DiskInv, BooleanTypes
<1>8. AttemptInv' BY <1>1 DEF AttemptInv
<1>9. Alive /\ Alive' /\ ~ Running' BY <1>1 DEF Alive, Running
<1>10. (Past' <=> Past) /\ (Analysing' <=> Analysing)
  BY <1>2, <1>3, <1>4, <1>9, Zenon DEF Past, Analysing, Asked, EndsWith
<1>11. /\ ~ Collecting /\ ~ Collecting' /\ ~ ToClean /\ ~ ToClean' /\ ~ ToExecute /\ ~ ToExecute'
       /\ \A t \in Tools : /\ ~ ToCollect(t) /\ ~ ToCollect(t)' /\ ~ ToRefer(t) /\ ~ ToRefer(t)'
                           /\ ~ ToResolve(t) /\ ~ ToResolve(t)'
  BY <1>3, <1>4, Zenon DEF Collecting, ToClean, ToExecute, ToCollect, ToRefer, ToResolve
<1>12. tools \subseteq Tools BY DEF WorkflowInv, StateTypes
<1>13. CollectedInv' BY <1>2, <1>10, <1>11, <1>12, Zenon DEF WorkflowInv, CollectedInv
<1>14. BuiltInv' BY <1>2, <1>3, <1>4, <1>9, <1>11, Zenon DEF WorkflowInv, BuiltInv, Asked
<1>15. CleanInv' BY <1>2, <1>10, <1>11, Zenon DEF WorkflowInv, CleanInv
<1>16. ReportInv' BY <1>2, <1>10, <1>11, <1>12, Zenon DEF WorkflowInv, ReportInv, Asked
<1>17. AnalyzeInv' BY <1>9 DEF AnalyzeInv
<1> QED BY <1>3, <1>5, <1>6, <1>7, <1>8, <1>13, <1>14, <1>15, <1>16, <1>17 DEF WorkflowInv

-----------------------------------------------------------------------------
(* Between the invocations.                                                *)

LEMMA EditSourceStep ==
  ASSUME WorkflowInv, EditSource
  PROVE  WorkflowInv'
<1>1. /\ ~ Running /\ version' = version + 1 /\ version < MaxVersions
      /\ UNCHANGED <<resolver, disk, given, todo, attempt, exit>>
  BY DEF EditSource
<1>2. UNCHANGED <<configuration, tools, clean, line, invocations, aot, here, todo, attempt, exit>>
  BY <1>1 DEF given, aot, here
<1>3. \A s : Pending(s)' <=> Pending(s) BY <1>1 DEF Pending
<1>4. QueueInv' /\ CollectOrder'
  BY <1>2 DEF WorkflowInv, QueueInv, CollectOrder, Pending
<1>5. version' \in 1 .. MaxVersions
  BY <1>1, DwarfCheckAssumption DEF WorkflowInv, StateTypes
<1>6. StateTypes' /\ DiskInv' /\ BooleanTypes' /\ AttemptInv'
  <2>1. StateTypes' BY <1>2, <1>5 DEF WorkflowInv, StateTypes
  <2>2. DiskInv' BY <1>1 DEF WorkflowInv, DiskInv
  <2>3. BooleanTypes' BY <1>1, <1>2 DEF WorkflowInv, BooleanTypes
  <2>4. AttemptInv' BY <1>1, <1>2 DEF WorkflowInv, AttemptInv
  <2> QED BY <2>1, <2>2, <2>3, <2>4
<1>7. /\ ~ Running' /\ (Past' <=> Past) /\ (Analysing' <=> Analysing) /\ (Alive' <=> Alive)
  BY <1>1, <1>2, <1>3, Zenon DEF Past, Analysing, Alive, Asked, EndsWith, Running
<1>8. /\ (Collecting' <=> Collecting) /\ (ToClean' <=> ToClean) /\ (ToExecute' <=> ToExecute)
      /\ \A t \in Tools : /\ ToCollect(t)' <=> ToCollect(t)
                          /\ ToRefer(t)' <=> ToRefer(t)
                          /\ ToResolve(t)' <=> ToResolve(t)
  BY <1>3, Zenon DEF Collecting, ToClean, ToExecute, ToCollect, ToRefer, ToResolve
<1>9. tools \subseteq Tools BY DEF WorkflowInv, StateTypes
<1>10. CollectedInv' BY <1>2, <1>7, <1>8, <1>9, Zenon DEF WorkflowInv, CollectedInv
<1>11. BuiltInv' BY <1>2, <1>3, <1>7, <1>8, Zenon DEF WorkflowInv, BuiltInv, Asked
<1>12. CleanInv' BY <1>2, <1>7, <1>8, Zenon DEF WorkflowInv, CleanInv
<1>13. ReportInv' BY <1>2, <1>7, <1>8, <1>9, Zenon DEF WorkflowInv, ReportInv, Asked
<1>14. AnalyzeInv' BY <1>7 DEF AnalyzeInv
<1> QED BY <1>4, <1>6, <1>10, <1>11, <1>12, <1>13, <1>14 DEF WorkflowInv

\* An invocation starts with all of its line to do, and with nothing it made.
LEMMA InvokeStep ==
  ASSUME WorkflowInv, NEW c \in Configurations, NEW ts \in SUBSET Tools, ts # {},
         NEW cleaning \in BOOLEAN, NEW commands \in Seq(Commands), Invoke(c, ts, cleaning, commands),
         invocations' \in 0 .. MaxInvocations
  PROVE  WorkflowInv'
<1>1. /\ configuration' = c /\ tools' = ts /\ clean' = cleaning /\ line' = commands
      /\ todo' = commands /\ attempt' = 0 /\ exit' = "running"
      /\ disk' = [d \in Configurations |-> AgedDirectory(disk[d])]
      /\ UNCHANGED <<version, resolver>>
  BY DEF Invoke
<1>2. /\ QueueInv' /\ \A s \in Steps : ~ Pending(s)'
      /\ \A d \in Commands : Pending(d)' <=> \E i \in DOMAIN commands : commands[i] = d
  BY <1>1, InvokeQueue
<1>3. CollectOrder'
  <2>1. <<"clean">> \in Steps /\ \A t \in Tools : <<"collect", t>> \in Steps BY StepsAre, Zenon
  <2>2. "vtune" \in Tools /\ "unitrace" \in Tools BY DEF Tools
  <2> QED BY <1>2, <2>1, <2>2, Zenon DEF CollectOrder
<1>4. StateTypes'
  <2>1. 0 \in 0 .. MaxAttempts BY DwarfCheckAssumption
  <2>2. exit' \in ExitCodes BY <1>1, Zenon DEF ExitCodes
  <2> QED BY <1>1, <2>1, <2>2 DEF WorkflowInv, StateTypes
<1>5. BooleanTypes' BY <1>1 DEF WorkflowInv, BooleanTypes
<1>6. DiskInv'
  <2>1. \A a : Sound(a) => Sound(Aged(a)) /\ Aged(a) \in Artifact BY DEF Sound, Aged, Artifact
  <2>2. ASSUME NEW d \in Configurations PROVE DirectorySound(AgedDirectory(disk[d]))
    <3>1. DirectorySound(disk[d]) BY DEF WorkflowInv, DiskInv
    <3>2. AgedDirectory(disk[d]) \in Directory
      BY <2>1, <3>1 DEF DirectorySound, AgedDirectory, Directory
    <3> QED BY <2>1, <3>1, <3>2 DEF DirectorySound, AgedDirectory
  <2>3. \A d \in Configurations : AgedDirectory(disk[d]) \in Directory BY <2>2 DEF DirectorySound
  <2> QED BY <1>1, <2>2, <2>3 DEF DiskInv
<1>7. AttemptInv' BY <1>1 DEF AttemptInv
<1>8. /\ ~ Past' /\ (Asked("all")' => Pending(<<"all">>)')
      /\ ~ Analysing'
  <2>1. <<"run">> \in Commands /\ <<"all">> \in Commands BY DEF Commands
  <2>2. /\ Asked("all")' => Pending(<<"all">>)'
        /\ Asked("run")' => Pending(<<"run">>)'
    BY <1>1, <1>2, <2>1 DEF Asked
  <2>3. ASSUME Analysing' PROVE FALSE
    <3>1. commands # << >> BY <1>1, <2>3 DEF Analysing, EndsWith
    <3>2. 1 \in DOMAIN commands /\ commands[1] \in Commands BY <3>1
    <3> QED BY <1>2, <2>3, <3>2 DEF Analysing
  <2> QED BY <2>2, <2>3 DEF Past
<1>9. CollectedInv' /\ BuiltInv' /\ CleanInv' /\ ReportInv'
  BY <1>8 DEF CollectedInv, BuiltInv, CleanInv, ReportInv
<1>10. AnalyzeInv' BY <1>1 DEF AnalyzeInv
<1> QED BY <1>2, <1>3, <1>4, <1>5, <1>6, <1>7, <1>9, <1>10 DEF WorkflowInv

-----------------------------------------------------------------------------
(* The invariant, and what follows from it.                                *)

LEMMA InitWorkflow ==
  ASSUME Init
  PROVE  WorkflowInv
<1>1. todo = << >> /\ line = << >> /\ attempt = 0 /\ exit = "none" BY DEF Init
<1>2. \A s : ~ Pending(s) BY <1>1 DEF Pending
<1>3. QueueInv BY <1>1, <1>2 DEF QueueInv, Ordered
<1>4. CollectOrder BY <1>2 DEF CollectOrder
<1>5. StateTypes
  <2>1. exit \in ExitCodes BY <1>1, Zenon DEF ExitCodes
  <2>2. /\ 1 \in 1 .. MaxVersions /\ 0 \in 0 .. MaxAttempts /\ 0 \in 0 .. MaxInvocations
    BY DwarfCheckAssumption
  <2>3. Tools \in SUBSET Tools /\ Tools # {} BY DEF Tools
  <2> QED BY <2>1, <2>2, <2>3 DEF Init, StateTypes
<1>6. BooleanTypes BY DEF Init, BooleanTypes
<1>7. DiskInv
  <2>1. Empty \in Directory BY EmptySound DEF DirectorySound
  <2> QED BY <2>1, EmptySound DEF Init, DiskInv
<1>8. AttemptInv BY <1>1 DEF AttemptInv
<1>9. ~ Alive BY <1>1 DEF Alive
<1>10. CollectedInv /\ BuiltInv /\ CleanInv /\ ReportInv /\ AnalyzeInv
  BY <1>1, <1>9 DEF CollectedInv, BuiltInv, CleanInv, ReportInv, AnalyzeInv, Past, Analysing, Running
<1> QED BY <1>3, <1>4, <1>5, <1>6, <1>7, <1>8, <1>10 DEF WorkflowInv

LEMMA StepWorkflow ==
  ASSUME WorkflowInv, Step \/ Kill
  PROVE  WorkflowInv'
<1>1. ASSUME NEW t \in Tools,
             StartCollect(t) \/ Collect(t) \/ FailToCollect(t)
               \/ Reference(t) \/ PrepareResolve(t) \/ Resolve(t)
      PROVE  WorkflowInv'
  BY <1>1, StartCollectStep, CollectStep, FailToCollectStep, ReferenceStep, PrepareResolveStep,
     ResolveStep, Zenon
<1>2. CASE \/ StartCommand \/ EndOfLine \/ BuildResolver \/ RemoveResolver \/ BuildBinary
           \/ Clean \/ ExecuteWorkload \/ RequireJson \/ Kill
  BY <1>2, StartCommandStep, EndOfLineStep, BuildResolverStep, RemoveResolverStep, BuildBinaryStep,
     CleanStep, ExecuteStep, RequireJsonStep, KillStep, Zenon
<1> QED BY <1>1, <1>2, Zenon DEF Step

LEMMA UserWorkflow ==
  ASSUME WorkflowInv, User
  PROVE  WorkflowInv'
<1>1. CASE EditSource BY <1>1, EditSourceStep
<1>2. CASE InvokeByHand
  <2>1. invocations' \in 0 .. MaxInvocations
    BY <1>2, DwarfCheckAssumption DEF InvokeByHand, WorkflowInv, StateTypes
  <2>2. PICK c \in Configurations, ts \in (SUBSET Tools) \ {{}}, cleaning \in BOOLEAN, l \in Lines :
          Invoke(c, ts, cleaning, l)
    BY <1>2 DEF InvokeByHand
  <2>3. l \in Seq(Commands) BY LinesAssumption
  <2>4. ts \in SUBSET Tools /\ ts # {} OBVIOUS
  <2> QED BY <2>1, <2>2, <2>3, <2>4, InvokeStep, Zenon
<1> QED BY <1>1, <1>2 DEF User

LEMMA StutterWorkflow ==
  ASSUME WorkflowInv, UNCHANGED vars
  PROVE  WorkflowInv'
<1>1. UNCHANGED <<version, resolver, disk, configuration, tools, clean, line, invocations, todo,
                  attempt, exit>>
  BY DEF vars, given
<1>2. UNCHANGED <<here, aot>> /\ (Running' <=> Running) /\ (Alive' <=> Alive)
  BY <1>1 DEF here, aot, Running, Alive
<1>3. \A s : Pending(s)' <=> Pending(s) BY <1>1 DEF Pending
<1>4. QueueInv' /\ CollectOrder'
  BY <1>1 DEF WorkflowInv, QueueInv, CollectOrder, Pending
<1>5. StateTypes' /\ BooleanTypes' /\ DiskInv' /\ AttemptInv'
  BY <1>1, <1>2 DEF WorkflowInv, StateTypes, BooleanTypes, DiskInv, AttemptInv, DumpRequired
<1>6. /\ (Past' <=> Past) /\ (Analysing' <=> Analysing)
      /\ (Collecting' <=> Collecting) /\ (ToClean' <=> ToClean) /\ (ToExecute' <=> ToExecute)
      /\ (ToBuild' <=> ToBuild)
      /\ \A t \in Tools : /\ ToCollect(t)' <=> ToCollect(t)
                          /\ ToRefer(t)' <=> ToRefer(t)
                          /\ ToResolve(t)' <=> ToResolve(t)
  BY <1>1, <1>2, <1>3, Zenon
     DEF Past, Analysing, Asked, EndsWith, Collecting, ToClean, ToExecute, ToBuild, ToCollect,
         ToRefer, ToResolve
<1>7. tools \subseteq Tools BY DEF WorkflowInv, StateTypes
<1>8. CollectedInv' BY <1>1, <1>2, <1>6, <1>7, Zenon DEF WorkflowInv, CollectedInv
<1>9. BuiltInv' BY <1>1, <1>2, <1>3, <1>6, Zenon DEF WorkflowInv, BuiltInv, Asked
<1>10. CleanInv' BY <1>1, <1>2, <1>6, Zenon DEF WorkflowInv, CleanInv
<1>11. ReportInv' BY <1>1, <1>2, <1>6, <1>7, Zenon DEF WorkflowInv, ReportInv, Asked
<1>12. AnalyzeInv' BY <1>1, <1>2, <1>3 DEF WorkflowInv, AnalyzeInv
<1> QED BY <1>4, <1>5, <1>8, <1>9, <1>10, <1>11, <1>12 DEF WorkflowInv

LEMMA WorkflowInvariance == Spec => []WorkflowInv
<1>1. Init => WorkflowInv BY InitWorkflow
<1>2. WorkflowInv /\ [Next]_vars => WorkflowInv'
  BY StepWorkflow, UserWorkflow, StutterWorkflow DEF Next
<1> QED BY <1>1, <1>2, PTL DEF Spec

\* A script that has succeeded has nothing left to do.
LEMMA SuccessIsDone ==
  ASSUME WorkflowInv, exit = "success"
  PROVE  /\ \A s : ~ Pending(s)
         /\ Alive /\ ~ Running /\ ~ Collecting /\ ~ ToClean /\ tools \subseteq Tools
         /\ \A t \in Tools : ~ ToCollect(t) /\ ~ ToRefer(t) /\ ~ ToResolve(t)
<1>1. todo = << >> BY DEF WorkflowInv, QueueInv
<1>2. \A s : ~ Pending(s) BY <1>1 DEF Pending
<1>3. Alive /\ ~ Running BY DEF Alive, Running
<1>4. tools \subseteq Tools BY DEF WorkflowInv, StateTypes
<1> QED BY <1>2, <1>3, <1>4, Zenon
        DEF Collecting, ToClean, ToCollect, ToRefer, ToResolve

LEMMA WorkflowTypes == WorkflowInv => TypeOK
<1>1. QueueInv => todo \in Seq(Steps \union Commands) BY DEF QueueInv
<1> QED BY <1>1, Zenon DEF WorkflowInv, StateTypes, BooleanTypes, DiskInv, TypeOK

LEMMA WorkflowCollected == WorkflowInv => CollectedTogether
<1> SUFFICES ASSUME WorkflowInv, Succeeded("run") \/ Succeeded("all") PROVE CollectedTogether
  BY DEF CollectedTogether
<1>1. exit = "success" /\ (Asked("run") \/ Asked("all")) BY DEF Succeeded
<1>2. /\ Past /\ ~ Running /\ ~ Collecting /\ tools \subseteq Tools
      /\ \A s : ~ Pending(s)
      /\ \A t \in Tools : ~ ToCollect(t)
  BY <1>1, SuccessIsDone DEF Past
<1>3. /\ \A t \in tools : here.samples[t].whole /\ here.samples[t].fresh
      /\ here.json.whole /\ here.json.fresh
      /\ \A t \in tools : here.samples[t].of = here.json.of
  BY <1>2 DEF WorkflowInv, CollectedInv
<1>4. Asked("all") => /\ here.binary.fresh /\ here.binary.of = here.json.of
                      /\ "unitrace" \in tools => here.dump.whole /\ here.dump.of = here.json.of
  BY <1>2 DEF WorkflowInv, BuiltInv, Past
<1> QED BY <1>3, <1>4 DEF CollectedTogether

LEMMA WorkflowReports == WorkflowInv => ReportsAreOfTheSamples
<1> SUFFICES ASSUME WorkflowInv, exit = "success", EndsWith("analyze") \/ EndsWith("all")
             PROVE  ReportsAreOfTheSamples
  BY DEF ReportsAreOfTheSamples
<1>1. Analysing /\ tools \subseteq Tools /\ \A t \in Tools : ~ ToResolve(t)
  BY SuccessIsDone DEF Analysing
<1> QED BY <1>1 DEF WorkflowInv, ReportInv, ReportsAreOfTheSamples

LEMMA WorkflowClean == WorkflowInv => CleanLeavesNothingOld
<1> SUFFICES ASSUME WorkflowInv, clean, Succeeded("run") \/ Succeeded("all")
             PROVE  CleanLeavesNothingOld
  BY DEF CleanLeavesNothingOld
<1>1. exit = "success" /\ (Asked("run") \/ Asked("all")) BY DEF Succeeded
<1>2. Past /\ ~ ToClean BY <1>1, SuccessIsDone DEF Past
<1>3. FreshDirectory(here) BY <1>2 DEF WorkflowInv, CleanInv
<1> QED BY <1>3 DEF FreshDirectory, CleanLeavesNothingOld

\* No step of an analysis alone touches what it analyses.
LEMMA WorkflowAnalyze ==
  ASSUME WorkflowInv, Step \/ Kill, line = << <<"analyze">> >>, NEW c \in Configurations
  PROVE  /\ disk'[c].binary = disk[c].binary /\ disk'[c].json = disk[c].json
         /\ disk'[c].dump = disk[c].dump /\ disk'[c].samples = disk[c].samples
<1> DEFINE Kept == /\ disk'[c].binary = disk[c].binary /\ disk'[c].json = disk[c].json
                   /\ disk'[c].dump = disk[c].dump /\ disk'[c].samples = disk[c].samples
<1>1. ASSUME NEW s \in Steps, Doing(s) PROVE s \in AnalyzeSteps
  <2>1. Running /\ todo # << >> /\ Head(todo) = s /\ Pending(s)
    BY <1>1, DoingPending DEF WorkflowInv
  <2>2. todo # << <<"analyze">> >> BY <2>1, AnalyzeAlone
  <2> QED BY <2>1, <2>2 DEF WorkflowInv, AnalyzeInv, AnalyzeSteps, Pending
<1>2. ~ BuildBinary /\ ~ Clean /\ ~ ExecuteWorkload
  <2> DEFINE bin == <<"build binary">>
             exe == <<"execute">>
             cl == <<"clean">>
  <2>1. bin \in Steps /\ exe \in Steps /\ cl \in Steps BY StepsAre, Zenon
  <2>2. bin \notin AnalyzeSteps /\ exe \notin AnalyzeSteps /\ cl \notin AnalyzeSteps
    <3>1. Rank(bin) = 2 /\ Rank(exe) = 4 BY RankValues
    <3> HIDE DEF bin, exe
    <3>2. Rank(bin) \in {2, 4, 5, 6} /\ Rank(exe) \in {2, 4, 5, 6} BY <3>1
    <3> QED BY <3>2, AnalyzeRanks, Zenon
  <2>3. ~ Doing(bin) /\ ~ Doing(exe) /\ ~ Doing(cl) BY <1>1, <2>1, <2>2, Zenon
  <2> QED BY <2>3, Zenon DEF BuildBinary, Clean, CleanResults, ExecuteWorkload
<1>3. ASSUME NEW t \in Tools PROVE ~ StartCollect(t) /\ ~ Collect(t) /\ ~ FailToCollect(t)
  BY CollectingNow, Zenon DEF StartCollect, Collect, FailToCollect, FailOnce
<1>4. CASE UNCHANGED disk BY <1>4
<1>5. DirectorySound(here) /\ configuration \in Configurations
      /\ disk \in [Configurations -> Directory]
  BY HereSound DEF WorkflowInv, StateTypes, DiskInv
<1>6. ASSUME NEW t \in Tools, NEW a,
             Change([here EXCEPT !.manifest[t] = a]) \/ Change([here EXCEPT !.report[t] = a])
      PROVE  Kept
  <2>1. PICK d : /\ d = [here EXCEPT !.manifest[t] = a] \/ d = [here EXCEPT !.report[t] = a]
                 /\ disk' = [disk EXCEPT ![configuration] = d]
    BY <1>6 DEF Change
  <2>2. here \in Directory BY <1>5 DEF DirectorySound
  <2>3. d.binary = here.binary /\ d.json = here.json /\ d.dump = here.dump /\ d.samples = here.samples
    BY <2>1, <2>2 DEF Directory
  <2>4. CASE c = configuration
    <3>1. disk'[c] = d /\ disk[c] = here BY <1>5, <2>1, <2>4 DEF here
    <3> QED BY <2>3, <3>1
  <2>5. CASE c # configuration
    <3>1. disk'[c] = disk[c] BY <1>5, <2>1, <2>5
    <3> QED BY <3>1
  <2> QED BY <2>4, <2>5
<1>7. ASSUME NEW t \in Tools, Reference(t) \/ Resolve(t) PROVE Kept
  BY <1>4, <1>6, <1>7, Zenon DEF Reference, ReferenceOr, Resolve
<1>8. CASE \/ StartCommand \/ EndOfLine \/ BuildResolver \/ RemoveResolver \/ RequireJson \/ Kill
           \/ \E t \in Tools : PrepareResolve(t)
  BY <1>4, <1>8
     DEF StartCommand, EndOfLine, BuildResolver, RemoveResolver, RequireJson, Kill, PrepareResolve
<1> QED BY <1>2, <1>3, <1>7, <1>8, Zenon DEF Step

LEMMA WorkflowKeeps ==
  ASSUME WorkflowInv, Step \/ Kill \/ ~ Running \/ UNCHANGED vars
  PROVE  Running /\ line = << <<"analyze">> >> =>
           \A c \in Configurations :
             /\ disk'[c].binary = disk[c].binary /\ disk'[c].json = disk[c].json
             /\ disk'[c].dump = disk[c].dump /\ disk'[c].samples = disk[c].samples
<1>1. CASE Step \/ Kill BY <1>1, WorkflowAnalyze, Zenon
<1>2. CASE ~ Running BY <1>2
<1>3. CASE UNCHANGED vars BY <1>3 DEF vars
<1> QED BY <1>1, <1>2, <1>3

-----------------------------------------------------------------------------
(* What holds of the invocations given by hand.                            *)

\* Every variable keeps its type through any sequence of invocations, and no
\* collection is tried more often than the script allows (dwarf-check.sh's loops
\* over VTUNE_MAX_ATTEMPTS and UNITRACE_MAX_ATTEMPTS).
THEOREM WorkflowTypeOK == Spec => []TypeOK
<1> QED BY WorkflowInvariance, WorkflowTypes, PTL

\* Whatever was killed, retried or edited before: when run or all ends well, the
\* samples of all selected tools and the workload's manifest are of one binary.
THEOREM SuccessIsOneCollection == Spec => []CollectedTogether
<1> QED BY WorkflowInvariance, WorkflowCollected, PTL

\* When a line that ends with an analysis ends well, every report is of the samples
\* that are there, and never of what an earlier analysis extracted.
THEOREM SuccessIsOfTheSamples == Spec => []ReportsAreOfTheSamples
<1> QED BY WorkflowInvariance, WorkflowReports, PTL

\* With --clean-results a successful run leaves nothing of an earlier one.
THEOREM CleanIsComplete == Spec => []CleanLeavesNothingOld
<1> QED BY WorkflowInvariance, WorkflowClean, PTL

\* An analysis by itself never touches binary, manifest, dump or samples
\* (README.md:22).
THEOREM AnalysisOnlyReads == Spec => AnalyzeKeepsItsInputs
<1>1. User => ~ Running BY DEF User, EditSource, InvokeByHand, Invoke
<1>2. WorkflowInv /\ [Next]_vars =>
        [Running /\ line = << <<"analyze">> >> =>
           \A c \in Configurations :
             /\ disk'[c].binary = disk[c].binary /\ disk'[c].json = disk[c].json
             /\ disk'[c].dump = disk[c].dump /\ disk'[c].samples = disk[c].samples]_vars
  BY <1>1, WorkflowKeeps, Zenon DEF Next
<1> QED BY <1>2, WorkflowInvariance, PTL DEF Spec, AnalyzeKeepsItsInputs

-----------------------------------------------------------------------------
(* The matrix: the invariant.                                              *)

ScriptTypes ==
  /\ script \in {"none", "building", "matrix", "experiment", "succeeded", "failed"}
  /\ next \in 1 .. Len(Matrix) + 1
  /\ failed \in Seq(Configurations) /\ records \in Seq(Entry)
  /\ summary.entries \in Seq(Entry)

\* The records are those of the entries that are done, in the order of the matrix.
ProgressInv ==
  /\ script \in {"none", "building"} => records = << >> /\ failed = << >>
  /\ script = "experiment" =>
       next <= Len(Matrix) /\ configuration = Matrix[next] /\ line = << <<"all">> >>
  /\ next = Len(records) + 1
  /\ \A i \in DOMAIN records : records[i].configuration = Matrix[i]

\* Without a failed command there is no record of one.
FailedInv ==
  failed = << >> /\ "vtune" \in tools => \A i \in DOMAIN records : records[i].status # "FAIL"

SummaryInv ==
  script = "succeeded" =>
    /\ next = Len(Matrix) + 1 /\ failed = << >>
    /\ summary = [counts |-> Counts(records), entries |-> records, written |-> TRUE]

ScriptInv ==
  WorkflowInv /\ ScriptTypes /\ ProgressInv /\ PassedMeansCompared /\ FailedInv /\ SummaryInv

-----------------------------------------------------------------------------
(* The steps.                                                              *)

\* Neither a step of a command nor its end changes what it was given.
LEMMA StepKeepsGiven == Step \/ Kill => UNCHANGED given
<1>1. ASSUME NEW t \in Tools,
             StartCollect(t) \/ Collect(t) \/ FailToCollect(t)
               \/ Reference(t) \/ PrepareResolve(t) \/ Resolve(t)
      PROVE  UNCHANGED given
  BY <1>1, Zenon DEF StartCollect, Collect, FailToCollect, FailOnce, Reference, ReferenceOr,
                     PrepareResolve, Resolve
<1>2. ASSUME \/ StartCommand \/ EndOfLine \/ BuildResolver \/ RemoveResolver \/ BuildBinary
             \/ Clean \/ ExecuteWorkload \/ RequireJson \/ Kill
      PROVE  UNCHANGED given
  BY <1>2, Zenon DEF StartCommand, EndOfLine, BuildResolver, RemoveResolver, BuildBinary, Clean,
                     CleanResults, ExecuteWorkload, RequireJson, Kill
<1> QED BY <1>1, <1>2, Zenon DEF Step

\* As long as the script does nothing itself and it has no records that the tools
\* or the command line under way would matter to.
LEMMA UnchangedScript ==
  ASSUME ScriptInv, UNCHANGED scripting, UNCHANGED given \/ script = "none"
  PROVE  (ScriptTypes /\ ProgressInv /\ PassedMeansCompared /\ FailedInv /\ SummaryInv)'
<1>1. UNCHANGED <<script, next, failed, records, summary>> BY DEF scripting
<1>2. UNCHANGED <<tools, line, configuration>> \/ (script = "none" /\ records = << >>)
  BY DEF given, ScriptInv, ProgressInv
<1>3. ScriptTypes' BY <1>1 DEF ScriptInv, ScriptTypes
<1>4. ProgressInv' BY <1>1, <1>2 DEF ScriptInv, ProgressInv
<1>5. PassedMeansCompared' BY <1>1, <1>2 DEF ScriptInv, PassedMeansCompared
<1>6. FailedInv' BY <1>1, <1>2 DEF ScriptInv, FailedInv
<1>7. SummaryInv' BY <1>1 DEF ScriptInv, SummaryInv, Counts
<1> QED BY <1>3, <1>4, <1>5, <1>6, <1>7

LEMMA StartScriptStep ==
  ASSUME ScriptInv, StartScript
  PROVE  ScriptInv'
<1>1. /\ script = "none" /\ script' = "building"
      /\ UNCHANGED <<invocations, next, failed, records, summary>>
  BY DEF StartScript
<1>2. PICK ts \in (SUBSET Tools) \ {{}}, cleaning \in BOOLEAN :
        Invoke(Matrix[1], ts, cleaning, << <<"adapter build">> >>)
  BY DEF StartScript
<1>3. Matrix[1] \in Configurations BY MatrixAssumption
<1>4. << <<"adapter build">> >> \in Seq(Commands)
  <2>1. <<"adapter build">> \in Commands BY Zenon DEF Commands
  <2>2. \A c \in Commands : <<c>> \in Seq(Commands) OBVIOUS
  <2> QED BY <2>1, <2>2, Zenon
<1>5. invocations' \in 0 .. MaxInvocations BY <1>1 DEF ScriptInv, WorkflowInv, StateTypes
<1>6. ts \in SUBSET Tools /\ ts # {} OBVIOUS
<1>7. WorkflowInv' BY <1>2, <1>3, <1>4, <1>5, <1>6, InvokeStep, Zenon DEF ScriptInv
<1>8. records = << >> /\ failed = << >> BY <1>1 DEF ScriptInv, ProgressInv
<1>9. ScriptTypes' BY <1>1 DEF ScriptInv, ScriptTypes
<1>10. ProgressInv' BY <1>1, <1>8 DEF ScriptInv, ProgressInv
<1>11. PassedMeansCompared' /\ FailedInv' /\ SummaryInv'
  BY <1>1, <1>8 DEF PassedMeansCompared, FailedInv, SummaryInv
<1> QED BY <1>7, <1>9, <1>10, <1>11 DEF ScriptInv

LEMMA StartExperimentStep ==
  ASSUME ScriptInv, StartExperiment
  PROVE  ScriptInv'
<1>1. /\ script = "matrix" /\ script' = "experiment" /\ next <= Len(Matrix)
      /\ Invoke(Matrix[next], tools, clean, << <<"all">> >>)
      /\ UNCHANGED <<invocations, next, failed, records, summary>>
  BY DEF StartExperiment
<1>2. Matrix[next] \in Configurations BY <1>1, MatrixAssumption DEF ScriptInv, ScriptTypes
<1>3. << <<"all">> >> \in Seq(Commands)
  <2>1. <<"all">> \in Commands BY Zenon DEF Commands
  <2>2. \A c \in Commands : <<c>> \in Seq(Commands) OBVIOUS
  <2> QED BY <2>1, <2>2, Zenon
<1>4. invocations' \in 0 .. MaxInvocations BY <1>1 DEF ScriptInv, WorkflowInv, StateTypes
<1>5. tools \in SUBSET Tools /\ tools # {} /\ clean \in BOOLEAN
  BY DEF ScriptInv, WorkflowInv, StateTypes, BooleanTypes
<1>6. WorkflowInv' BY <1>1, <1>2, <1>3, <1>4, <1>5, InvokeStep, Zenon DEF ScriptInv
<1>7. /\ UNCHANGED tools /\ configuration' = Matrix[next] /\ line' = << <<"all">> >>
  BY <1>1 DEF Invoke
<1>8. ScriptTypes' BY <1>1 DEF ScriptInv, ScriptTypes
<1>9. ProgressInv' BY <1>1, <1>7 DEF ScriptInv, ProgressInv
<1>10. PassedMeansCompared' BY <1>1, <1>7 DEF ScriptInv, PassedMeansCompared
<1>11. FailedInv' /\ SummaryInv' BY <1>1, <1>7 DEF ScriptInv, FailedInv, SummaryInv
<1> QED BY <1>6, <1>8, <1>9, <1>10, <1>11 DEF ScriptInv

\* What the record of an experiment says of its report.
LEMMA RecordOfExperiment ==
  ASSUME ScriptInv, script = "experiment", ~ Running, NEW skipped \in BOOLEAN
  PROVE  LET status == StatusOf(exit = "success", skipped)
         IN  /\ status \in Statuses
             /\ status # "FAIL" /\ "vtune" \in tools =>
                  here.report["vtune"].fresh /\ here.report["vtune"].whole
             /\ exit = "success" /\ "vtune" \in tools => status # "FAIL"
             /\ status # "FAIL" => exit = "success"
<1>1. StatusOf(exit = "success", skipped) \in Statuses BY DEF StatusOf, Statuses
<1>2. line = << <<"all">> >> BY DEF ScriptInv, ProgressInv
<1>3. Asked("all") /\ EndsWith("all") BY <1>2 DEF Asked, EndsWith
<1>4. ASSUME exit = "success", "vtune" \in tools
      PROVE  /\ here.report["vtune"].fresh /\ here.report["vtune"].whole
             /\ Present(here.report["vtune"])
  <2>1. here.report["vtune"].fresh /\ here.report["vtune"].whole
    BY <1>3, <1>4, WorkflowReports DEF ScriptInv, ReportsAreOfTheSamples
  <2>2. Sound(here.report["vtune"])
    BY HereSound DEF ScriptInv, WorkflowInv, DirectorySound, Tools
  <2> QED BY <2>1, <2>2, PresentSound
<1>5. StatusOf(exit = "success", skipped) # "FAIL" <=>
        exit = "success" /\ Present(here.report["vtune"])
  BY DEF StatusOf
<1> QED BY <1>1, <1>4, <1>5

LEMMA WriteRecordStep ==
  ASSUME ScriptInv, WriteRecord
  PROVE  ScriptInv'
<1>1. /\ script = "experiment" /\ ~ Running /\ next' = next + 1 /\ script' = "matrix"
      /\ failed' = IF exit # "success" THEN Append(failed, configuration) ELSE failed
      /\ UNCHANGED <<vars, summary>>
  BY DEF WriteRecord, WriteRecordCounting
<1>2. PICK skipped \in BOOLEAN :
        records' = Append(records, [configuration |-> configuration,
                                    status |-> StatusOf(exit = "success", skipped),
                                    comparison |-> here.report])
  BY DEF WriteRecord, WriteRecordCounting
<1> DEFINE status == StatusOf(exit = "success", skipped)
           record == [configuration |-> configuration, status |-> status, comparison |-> here.report]
<1>3. /\ status \in Statuses
      /\ status # "FAIL" /\ "vtune" \in tools =>
           here.report["vtune"].fresh /\ here.report["vtune"].whole
      /\ exit = "success" /\ "vtune" \in tools => status # "FAIL"
  BY <1>1, RecordOfExperiment
<1> HIDE DEF status
<1>4. /\ record.configuration = configuration /\ record.status = status
      /\ record.comparison = here.report
  OBVIOUS
<1>5. record \in Entry
  <2>1. configuration \in Configurations BY DEF ScriptInv, WorkflowInv, StateTypes
  <2>2. here.report \in [Tools -> Artifact]
    BY HereSound DEF ScriptInv, WorkflowInv, DirectorySound, Directory
  <2> QED BY <1>3, <2>1, <2>2 DEF Entry
<1>6. records' = Append(records, record) BY <1>2 DEF status
<1> HIDE DEF record
<1>7. /\ records \in Seq(Entry) /\ next = Len(records) + 1 /\ next <= Len(Matrix)
      /\ configuration = Matrix[next] /\ Len(records) \in Nat
  BY <1>1 DEF ScriptInv, ScriptTypes, ProgressInv
<1>8. /\ records' \in Seq(Entry) /\ Len(records') = Len(records) + 1
      /\ records'[next] = record /\ DOMAIN records' = 1 .. next
      /\ \A i \in DOMAIN records : records'[i] = records[i]
      /\ \A i \in DOMAIN records' : i \in DOMAIN records \/ i = next
  BY <1>5, <1>6, <1>7
<1>9. UNCHANGED <<version, resolver, disk, given, todo, attempt, exit>> BY <1>1 DEF vars
<1>10. WorkflowInv' BY <1>1, StutterWorkflow DEF ScriptInv
<1>11. UNCHANGED <<tools, configuration>> BY <1>9 DEF given
<1>12. ScriptTypes'
  <2>1. failed' \in Seq(Configurations)
    BY <1>1 DEF ScriptInv, ScriptTypes, WorkflowInv, StateTypes
  <2>2. next' \in 1 .. Len(Matrix) + 1 BY <1>1, <1>7, MatrixAssumption
  <2> QED BY <1>1, <1>8, <2>1, <2>2 DEF ScriptInv, ScriptTypes
<1>13. ProgressInv'
  <2>1. \A i \in DOMAIN records' : records'[i].configuration = Matrix[i]
    BY <1>4, <1>7, <1>8 DEF ScriptInv, ProgressInv
  <2>2. next' = Len(records') + 1 BY <1>1, <1>7, <1>8
  <2> QED BY <1>1, <2>1, <2>2 DEF ProgressInv
<1>14. PassedMeansCompared'
  BY <1>3, <1>4, <1>8, <1>11 DEF ScriptInv, PassedMeansCompared
<1>15. FailedInv'
  <2>1. ASSUME failed' = << >> PROVE exit = "success" /\ failed = << >>
    BY <1>1, <2>1 DEF ScriptInv, ScriptTypes
  <2> QED BY <1>3, <1>4, <1>8, <1>11, <2>1 DEF ScriptInv, FailedInv
<1>16. SummaryInv' BY <1>1 DEF SummaryInv
<1> QED BY <1>10, <1>12, <1>13, <1>14, <1>15, <1>16 DEF ScriptInv

\* The steps that leave the commands and the records alone.
LEMMA TurnStep ==
  ASSUME ScriptInv, EndOfBuild \/ WriteSummary \/ KillScript
  PROVE  ScriptInv'
<1>1. UNCHANGED <<vars, next, failed, records>> BY DEF EndOfBuild, WriteSummary, KillScript
<1>2. WorkflowInv' BY <1>1, StutterWorkflow DEF ScriptInv
<1>3. UNCHANGED <<tools, line, configuration>> BY <1>1 DEF vars, given
<1>4. /\ script' \in {"matrix", "succeeded", "failed"}
      /\ script' = "succeeded" =>
           /\ script = "matrix" /\ next > Len(Matrix) /\ failed = << >>
           /\ summary' = [counts |-> Counts(records), entries |-> records, written |-> TRUE]
      /\ UNCHANGED summary \/ summary'.entries = records
  BY DEF EndOfBuild, WriteSummary, KillScript
<1>5. ScriptTypes' BY <1>1, <1>4 DEF ScriptInv, ScriptTypes
<1>6. ProgressInv' BY <1>1, <1>4 DEF ScriptInv, ProgressInv
<1>7. PassedMeansCompared' BY <1>1, <1>3 DEF ScriptInv, PassedMeansCompared
<1>8. FailedInv' BY <1>1, <1>3 DEF ScriptInv, FailedInv
<1>9. SummaryInv'
  <2>1. Counts(records)' = Counts(records) BY <1>1 DEF Counts
  <2>2. next > Len(Matrix) => next = Len(Matrix) + 1
    BY MatrixAssumption DEF ScriptInv, ScriptTypes
  <2> QED BY <1>1, <1>4, <2>1, <2>2 DEF SummaryInv
<1> QED BY <1>2, <1>5, <1>6, <1>7, <1>8, <1>9 DEF ScriptInv

LEMMA ScriptInitInv ==
  ASSUME ScriptInit
  PROVE  ScriptInv
<1>1. WorkflowInv BY InitWorkflow DEF ScriptInit
<1>2. /\ script = "none" /\ next = 1 /\ failed = << >> /\ records = << >> /\ summary = NoSummary
  BY DEF ScriptInit
<1>3. ScriptTypes
  <2>1. 1 \in 1 .. Len(Matrix) + 1 BY MatrixAssumption
  <2>2. summary.entries = << >> BY <1>2 DEF NoSummary
  <2> QED BY <1>2, <2>1, <2>2 DEF ScriptTypes
<1>4. ProgressInv /\ PassedMeansCompared /\ FailedInv /\ SummaryInv
  BY <1>2 DEF ProgressInv, PassedMeansCompared, FailedInv, SummaryInv
<1> QED BY <1>1, <1>3, <1>4 DEF ScriptInv

LEMMA ScriptStep ==
  ASSUME ScriptInv, [ScriptNext]_allVars
  PROVE  ScriptInv'
<1>1. CASE ByHand
  <2>1. script = "none" /\ User /\ UNCHANGED scripting BY <1>1 DEF ByHand
  <2>2. WorkflowInv' BY <2>1, UserWorkflow DEF ScriptInv
  <2> QED BY <2>1, <2>2, UnchangedScript, Zenon DEF ScriptInv
<1>2. CASE (Step \/ Kill) /\ UNCHANGED scripting
  <2>1. WorkflowInv' BY <1>2, StepWorkflow, Zenon DEF ScriptInv
  <2>2. UNCHANGED given BY <1>2, StepKeepsGiven, Zenon
  <2> QED BY <1>2, <2>1, <2>2, UnchangedScript, Zenon DEF ScriptInv
<1>3. CASE StartScript BY <1>3, StartScriptStep
<1>4. CASE Script \/ KillScript
  BY <1>4, StartExperimentStep, WriteRecordStep, TurnStep, Zenon DEF Script
<1>5. CASE UNCHANGED allVars
  <2>1. UNCHANGED vars /\ UNCHANGED scripting BY <1>5 DEF allVars
  <2>2. WorkflowInv' BY <2>1, StutterWorkflow DEF ScriptInv
  <2>3. UNCHANGED given BY <2>1 DEF vars
  <2> QED BY <2>1, <2>2, <2>3, UnchangedScript, Zenon DEF ScriptInv
<1> QED BY <1>1, <1>2, <1>3, <1>4, <1>5, Zenon DEF ScriptNext

LEMMA ScriptInvariance == ScriptSpec => []ScriptInv
<1> QED BY ScriptInitInv, ScriptStep, PTL DEF ScriptSpec

LEMMA SummaryOfTheMatrix == ScriptInv => SuccessMeansMatrixCompared
<1> SUFFICES ASSUME ScriptInv, script = "succeeded" PROVE SuccessMeansMatrixCompared
  BY DEF SuccessMeansMatrixCompared
<1>1. /\ next = Len(Matrix) + 1 /\ failed = << >>
      /\ summary = [counts |-> Counts(records), entries |-> records, written |-> TRUE]
  BY DEF ScriptInv, SummaryInv
<1>2. summary.written /\ summary.entries = records /\ summary.counts = Counts(records) BY <1>1
<1>3. [i \in DOMAIN records |-> records[i].configuration] = Matrix
  <2>1. /\ records \in Seq(Entry) /\ Matrix \in Seq(Configurations) /\ Len(records) = Len(Matrix)
        /\ \A i \in DOMAIN records : records[i].configuration = Matrix[i]
    BY <1>1, MatrixAssumption DEF ScriptInv, ScriptTypes, ProgressInv
  <2>2. DOMAIN records = DOMAIN Matrix /\ Matrix = [i \in DOMAIN Matrix |-> Matrix[i]] BY <2>1
  <2> QED BY <2>1, <2>2
<1>4. ASSUME "vtune" \in tools PROVE Counts(records)["FAIL"] = 0
  <2>1. {i \in DOMAIN records : records[i].status = "FAIL"} = {}
    BY <1>1, <1>4 DEF ScriptInv, FailedInv
  <2>2. Counts(records)["FAIL"] = Cardinality({i \in DOMAIN records : records[i].status = "FAIL"})
    BY DEF Counts, Statuses
  <2> QED BY <2>1, <2>2, FS_EmptySet
<1> QED BY <1>2, <1>3, <1>4 DEF SuccessMeansMatrixCompared

-----------------------------------------------------------------------------
(* What holds of the experiment script.                                    *)

\* Every variable of both scripts keeps its type, and the loops stay in the matrix.
THEOREM ScriptTypesHold == ScriptSpec => []ScriptTypeOK
<1>1. ScriptInv => ScriptTypeOK
  BY WorkflowTypes, Zenon DEF ScriptInv, ScriptTypes, ScriptTypeOK
<1> QED BY <1>1, ScriptInvariance, PTL

\* The experiment script relies on the workflow script's promises: they hold of every
\* command, given by hand before it or by the script, also after it was killed.
THEOREM WorkflowPromisesHold ==
  ScriptSpec => /\ []CollectedTogether /\ []ReportsAreOfTheSamples /\ []CleanLeavesNothingOld
                /\ AnalyzeKeepsItsInputs
<1>1. ScriptInv => CollectedTogether /\ ReportsAreOfTheSamples /\ CleanLeavesNothingOld
  BY WorkflowCollected, WorkflowReports, WorkflowClean DEF ScriptInv
<1>2. ASSUME ScriptInv, [ScriptNext]_allVars
      PROVE  [Running /\ line = << <<"analyze">> >> =>
                \A c \in Configurations :
                  /\ disk'[c].binary = disk[c].binary /\ disk'[c].json = disk[c].json
                  /\ disk'[c].dump = disk[c].dump /\ disk'[c].samples = disk[c].samples]_vars
  <2>1. Step \/ Kill \/ ~ Running \/ UNCHANGED vars
    BY <1>2, Zenon
       DEF ScriptNext, allVars, ByHand, User, EditSource, InvokeByHand, StartScript, Script,
           EndOfBuild, StartExperiment, WriteRecord, WriteRecordCounting, WriteSummary, KillScript,
           Invoke
  <2> QED BY <1>2, <2>1, WorkflowKeeps, Zenon DEF ScriptInv
<1> QED BY <1>1, <1>2, ScriptInvariance, PTL DEF ScriptSpec, AnalyzeKeepsItsInputs

\* A record that does not say FAIL is of a whole comparison its own experiment made.
THEOREM RecordsTellTheTruth == ScriptSpec => []PassedMeansCompared
<1>1. ScriptInv => PassedMeansCompared BY DEF ScriptInv
<1> QED BY <1>1, ScriptInvariance, PTL

\* The script succeeds only with a summary of the whole matrix without a failed entry.
THEOREM SuccessIsTheWholeMatrix == ScriptSpec => []SuccessMeansMatrixCompared
<1> QED BY SummaryOfTheMatrix, ScriptInvariance, PTL

=============================================================================
