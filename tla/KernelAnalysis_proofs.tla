----------------------- MODULE KernelAnalysis_proofs -----------------------
(***************************************************************************)
(* Proofs about the analysis of one kernel, for every set of jobs and both *)
(* address widths.                                                         *)
(***************************************************************************)
EXTENDS KernelAnalysis, NumberLemmas, SequenceTheorems, TLAPS

-----------------------------------------------------------------------------
(* Lemmas about the operators.                                             *)

\* A nonempty set of indices has a first one, and First is it.
LEMMA FirstIsLeast ==
  ASSUME NEW S, S \subseteq Nat, S # {}
  PROVE  First(S) \in S /\ \A k \in S : First(S) <= k
<1>1. \E i \in S : \A k \in S : ~ (<<k, i>> \in OpToRel(<, Nat))
  BY NatLessThanWellFounded, WFMin
<1>2. PICK i \in S : \A k \in S : ~ (<<k, i>> \in OpToRel(<, Nat))
  BY <1>1
<1>3. ASSUME NEW k \in S
      PROVE  i <= k
  <2>1. i \in Nat /\ k \in Nat
    OBVIOUS
  <2>2. k < i => <<k, i>> \in OpToRel(<, Nat)
    BY <2>1 DEF OpToRel
  <2>3. ~ (k < i)
    BY <1>2, <2>2
  <2>4. QED
    BY <2>1, <2>3
<1>4. QED
  BY <1>3 DEF First

\* A canonical address is an address.
LEMMA CanonicalIsAddress ==
  ASSUME NEW a \in Int
  PROVE  /\ CanonicalizeIntelGpuAddress(a) \in Address
         /\ CanonicalizeIntelGpuAddress(a) \in Nat
<1>1. AddressSpace \in Nat \ {0}
  BY WidthAssumption DEF AddressSpace
<1>2. Word \in Nat /\ AddressSpace <= Word
  <2>1. HighPatterns - 1 \in Nat
    BY WidthAssumption
  <2>2. AddressSpace * (HighPatterns - 1) \in Nat
    BY <1>1, <2>1
  <2>3. Word = AddressSpace + AddressSpace * (HighPatterns - 1)
    BY <1>1, WidthAssumption DEF Word
  <2>4. QED
    BY <1>1, <2>2, <2>3
<1>3. a % AddressSpace \in 0 .. AddressSpace - 1
  BY <1>1
<1>4. QED
  BY <1>1, <1>2, <1>3, WidthAssumption DEF CanonicalizeIntelGpuAddress, Address

\* KernelOffset never leaves the kernel.
LEMMA KernelOffsetInKernel ==
  ASSUME NEW a \in Nat, NEW base \in Nat, NEW size \in Nat, NEW sfo \in Nat
  PROVE  KernelOffset(a, base, size, sfo) \in (0 .. size - 1) \union {NoOffset}
<1>1. /\ CanonicalizeIntelGpuAddress(a) \in Int
      /\ CanonicalizeIntelGpuAddress(base) \in Int
  BY CanonicalIsAddress DEF Address
<1>2. QED
  BY <1>1 DEF KernelOffset, OffsetFromBase, NoOffset

-----------------------------------------------------------------------------
(* Type correctness.                                                       *)

\* The fields of the job a state holds.
LEMMA JobFields ==
  ASSUME TypeOK
  PROVE  /\ job.base \in Address /\ job.base \in Nat /\ job.size \in Nat
         /\ job.sectionFileOffset \in Nat
         /\ job.ipLines \in Seq(IpLine)
         /\ \A k \in 1 .. Len(job.ipLines) : AddressOf(job, job.ipLines[k]) \in Address
         /\ \A offset \in DOMAIN job.dwarf : job.dwarf[offset] \in DwarfRow
         /\ job.referenceLines \in Seq(ReferenceLine)
  BY JobAssumption DEF TypeOK, IsJob, Address

\* An answer of a backend at an address is a location.
LEMMA AnswerIsLocation ==
  ASSUME TypeOK, NEW offset \in Address, Answers(job, offset)
  PROVE  AnswerAt(job, offset) \in Location
<1>1. job.dwarf[offset] \in DwarfRow
  BY JobFields DEF Answers
<1>2. job.dwarf[offset].file \in Files /\ job.dwarf[offset].line \in Nat
  BY <1>1 DEF DwarfRow
<1>3. AnswerLine(job, offset) \in Nat \union {NoLine}
  BY <1>2 DEF AnswerLine
<1>4. QED
  BY <1>2, <1>3 DEF AnswerAt, Location

\* The modulus of addresses keeps every integer an address.
LEMMA WrapIsAddress ==
  ASSUME NEW n \in Int
  PROVE  n % Word \in Address
<1>1. Word \in Nat \ {0}
  <2>1. AddressSpace \in Nat \ {0}
    BY WidthAssumption DEF AddressSpace
  <2>2. QED
    BY <2>1, WidthAssumption DEF Word
<1>2. QED
  BY <1>1 DEF Address

\* The item of a reference row names a row at its offset and, if the backend
\* has a location there, that location.
LEMMA ItemOfReference ==
  ASSUME TypeOK, NEW p \in 1 .. Len(references)
  PROVE  LET ip   == references[p].ip
             item == ReferenceItem(ip)
         IN  /\ item \in Item
             /\ item.reference \in 1 .. Len(references)
             /\ references[item.reference].ip = ip
             /\ Hits(ip) = {} => item.resolved = 0
             /\ Hits(ip) # {} => /\ item.resolved = First(Hits(ip))
                                 /\ First(Hits(ip)) \in 1 .. Len(resolved)
                                 /\ resolved[First(Hits(ip))].ip = ip
<1> DEFINE ip == references[p].ip
           hit == First(Hits(ip))
           matching == {k \in Candidates(ip) :
                          ComparePair(resolved[hit], references[k]) = "match"}
           chosen == IF matching # {} THEN First(matching) ELSE First(Candidates(ip))
<1>1. /\ Candidates(ip) \subseteq Nat /\ Candidates(ip) # {}
      /\ Candidates(ip) \subseteq 1 .. Len(references)
      /\ \A k \in Candidates(ip) : references[k].ip = ip
  BY DEF Candidates
<1>2. First(Candidates(ip)) \in Candidates(ip)
  BY <1>1, FirstIsLeast
<1>3. matching \subseteq Candidates(ip) /\ matching \subseteq Nat
  BY <1>1
<1>4. matching # {} => First(matching) \in matching
  BY <1>3, FirstIsLeast
<1>5. chosen \in Candidates(ip)
  BY <1>2, <1>3, <1>4
<1>6. Hits(ip) \subseteq Nat /\ Hits(ip) \subseteq 1 .. Len(resolved)
      /\ \A k \in Hits(ip) : resolved[k].ip = ip
  BY DEF Hits, TypeOK
<1>7. Hits(ip) # {} => hit \in Hits(ip)
  BY <1>6, FirstIsLeast
<1>8. \A l, r : ComparePair(l, r) \in Statuses
  BY DEF ComparePair, Statuses
<1>9. CASE Hits(ip) = {}
  <2>1. ReferenceItem(ip) = [status |-> "missing_in_backend", resolved |-> 0,
                             reference |-> First(Candidates(ip))]
    BY <1>9 DEF ReferenceItem
  <2>2. QED
    BY <1>1, <1>2, <1>9, <2>1 DEF Item, Statuses
<1>10. CASE Hits(ip) # {}
  <2>1. ReferenceItem(ip) = [status |-> ComparePair(resolved[hit], references[chosen]),
                             resolved |-> hit, reference |-> chosen]
    BY <1>10 DEF ReferenceItem
  <2>2. ReferenceItem(ip) \in Item
    <3>1. hit \in Nat /\ chosen \in Nat
      BY <1>1, <1>5, <1>6, <1>7, <1>10
    <3>2. QED
      BY <1>8, <2>1, <3>1 DEF Item
  <2>3. /\ ReferenceItem(ip).reference = chosen
        /\ ReferenceItem(ip).resolved = hit
    BY <2>1
  <2>4. QED
    BY <1>1, <1>5, <1>6, <1>7, <1>10, <2>2, <2>3
<1>11. QED
  BY <1>9, <1>10

\* The empty sequence is a sequence over every set.
LEMMA EmptyIsSeq ==
  ASSUME NEW S
  PROVE  << >> \in Seq(S)
  BY EmptySeq

\* Appending an element keeps a sequence a sequence.
LEMMA AppendIsSeq ==
  ASSUME NEW S, NEW s \in Seq(S), NEW e \in S
  PROVE  Append(s, e) \in Seq(S)
  BY AppendProperties

\* A step keeps every variable's type.
LEMMA TypePreserved == TypeOK /\ [Next]_vars => TypeOK'
<1> SUFFICES ASSUME TypeOK, [Next]_vars
             PROVE  TypeOK'
  OBVIOUS
<1>0. /\ job.base \in Address /\ job.base \in Nat /\ job.size \in Nat
      /\ job.sectionFileOffset \in Nat
      /\ job.ipLines \in Seq(IpLine)
      /\ \A k \in 1 .. Len(job.ipLines) : AddressOf(job, job.ipLines[k]) \in Address
      /\ job.referenceLines \in Seq(ReferenceLine)
  BY JobFields
<1>1. CASE LoadIpLine
  <2>1. job.ipLines[pos].kind = "address" =>
          [address |-> AddressOf(job, job.ipLines[pos]), line |-> pos]
            \in InputIp
    BY <1>1, <1>0 DEF LoadIpLine, TypeOK, InputIp
  <2>2. ips' \in Seq(InputIp)
    BY <1>1, <2>1, AppendIsSeq DEF LoadIpLine, TypeOK
  <2>3. QED
    BY <1>1, <2>2 DEF LoadIpLine, Advance, Throw, TypeOK, Phases
<1>2. CASE FinishIpList
  BY <1>2 DEF FinishIpList, Enter, Throw, TypeOK, Phases
<1>3. CASE NormalizeIp
  <2>1. ips[pos].address \in Nat
    <3>1. ips[pos] \in InputIp
      BY <1>3, ElementOfSeq DEF NormalizeIp, TypeOK
    <3>2. QED
      BY <3>1 DEF InputIp, Address
  <2>2. KernelOffset(ips[pos].address, job.base, job.size, job.sectionFileOffset)
          \in (0 .. job.size - 1) \union {NoOffset}
    BY <1>0, <2>1, KernelOffsetInKernel
  <2>3. offsets' \in Seq((0 .. job.size - 1) \union {NoOffset})
    BY <1>3, <2>2, AppendIsSeq DEF NormalizeIp, TypeOK
  <2>4. QED
    BY <1>3, <2>3 DEF NormalizeIp, Advance, TypeOK
<1>4. CASE StartResolve
  BY <1>4 DEF StartResolve, Enter, TypeOK, Phases
<1>5. CASE ResolveAddress
  <2> DEFINE base   == CanonicalizeIntelGpuAddress(job.base)
             offset == (Addr2LineIp(offsets[pos], job.base) - base) % Word
  <2>1. base \in Int
    <3>1. job.base \in Int
      BY <1>0
    <3>2. base \in Nat
      BY <3>1, CanonicalIsAddress
    <3>3. QED
      BY <3>2
  <2>2. offsets[pos] \in Int
    <3>1. offsets[pos] \in (0 .. job.size - 1) \union {NoOffset}
      BY <1>5, ElementOfSeq DEF ResolveAddress, ResolveOffset, TypeOK
    <3>2. QED
      BY <1>0, <3>1 DEF NoOffset
  <2>3. Addr2LineIp(offsets[pos], job.base) \in Int
    BY <2>1, <2>2, WrapIsAddress DEF Addr2LineIp, Address
  <2>4. offset \in Address
    BY <2>1, <2>3, WrapIsAddress
  <2>5. Answers(job, offset) => AnswerAt(job, offset) \in Location
    BY <2>4, AnswerIsLocation
  <2>6. resolved' = resolved \/ resolved' = << >>
        \/ (Answers(job, offset) /\ resolved' = Append(resolved, AnswerAt(job, offset)))
    BY <1>5 DEF ResolveAddress, ResolveOffset
  <2>7. resolved' \in Seq(Location)
    BY <2>5, <2>6, EmptyIsSeq, AppendIsSeq DEF TypeOK
  <2>8. /\ UNCHANGED <<job, ips, offsets, references, compared, matched, items, skipped>>
        /\ phase' = phase \/ phase' = "load_reference"
        /\ pos' = 1 \/ pos' = pos + 1
    BY <1>5, Zenon DEF ResolveAddress, ResolveOffset, Enter, Advance
  <2>9. QED
    BY <2>7, <2>8 DEF TypeOK, Phases
<1>6. CASE FinishResolve
  BY <1>6 DEF FinishResolve, Enter, TypeOK, Phases
<1>7. CASE LoadReferenceLine
  <2> DEFINE line == job.referenceLines[pos]
  <2>1. line \in ReferenceLine
    BY <1>0, <1>7 DEF LoadReferenceLine, TypeOK
  <2>2. [ip |-> line.ip, file |-> line.file, line |-> line.line] \in Reference
    BY <2>1 DEF ReferenceLine, Reference
  <2>3. references' \in Seq(Reference)
    BY <1>7, <2>2, AppendIsSeq DEF LoadReferenceLine, TypeOK
  <2>4. QED
    BY <1>7, <2>3 DEF LoadReferenceLine, Advance, Throw, TypeOK, Phases
<1>8. CASE FinishReference
  <2>1. skipped' \in BOOLEAN
    BY <1>8 DEF FinishReference, TypeOK
  <2>2. phase' \in Phases /\ pos' \in Nat \ {0}
    BY <1>8 DEF FinishReference, Enter, Throw, TypeOK, Phases
  <2>3. QED
    BY <1>8, <2>1, <2>2 DEF FinishReference, TypeOK
<1>9. CASE CompareReference
  <2> DEFINE ip == references[pos].ip
  <2>1. pos \in 1 .. Len(references)
    BY <1>9 DEF CompareReference, CompareRow, TypeOK
  <2>2. ip \in Nat
    <3>1. references[pos] \in Reference
      BY <2>1, ElementOfSeq DEF TypeOK
    <3>2. QED
      BY <3>1 DEF Reference
  <2>3. ReferenceItem(ip) \in Item
    BY <2>1, ItemOfReference
  <2>4. Hits(ip) # {} => First(Hits(ip)) \in Nat
    <3>1. Hits(ip) # {} => First(Hits(ip)) \in 1 .. Len(resolved)
      BY <2>1, ItemOfReference
    <3>2. QED
      BY <3>1
  <2>5. items' \in Seq(Item)
    <3>1. items' = items \/ items' = Append(items, ReferenceItem(ip))
      BY <1>9 DEF CompareReference, CompareRow
    <3>2. QED
      BY <2>3, <3>1, AppendIsSeq DEF TypeOK
  <2>6. compared' \subseteq Nat /\ matched' \subseteq Nat
    BY <1>9, <2>2, <2>4 DEF CompareReference, CompareRow, TypeOK
  <2>7. QED
    BY <1>9, <2>5, <2>6 DEF CompareReference, CompareRow, Advance, TypeOK
<1>10. CASE FinishCompare
  BY <1>10 DEF FinishCompare, Enter, TypeOK, Phases
<1>11. CASE FlagUnmatched
  <2>1. [status |-> "missing_in_reference", resolved |-> pos, reference |-> 0] \in Item
    BY DEF TypeOK, Item, Statuses
  <2>2. items' \in Seq(Item)
    BY <1>11, <2>1, AppendIsSeq DEF FlagUnmatched, TypeOK
  <2>3. QED
    BY <1>11, <2>2 DEF FlagUnmatched, Advance, TypeOK
<1>12. CASE FinishFlag
  BY <1>12 DEF FinishFlag, TypeOK, Phases
<1>13. CASE UNCHANGED vars
  BY <1>13 DEF vars, TypeOK
<1>14. QED
  BY <1>1, <1>2, <1>3, <1>4, <1>5, <1>6, <1>7, <1>8, <1>9, <1>10, <1>11, <1>12, <1>13
     DEF Next

\* The initial values have their types.
LEMMA InitTypeOK == Init => TypeOK
<1> SUFFICES ASSUME Init
             PROVE  TypeOK
  OBVIOUS
<1>1. /\ ips \in Seq(InputIp) /\ resolved \in Seq(Location)
      /\ references \in Seq(Reference) /\ items \in Seq(Item)
      /\ offsets \in Seq((0 .. job.size - 1) \union {NoOffset})
  BY EmptyIsSeq DEF Init
<1>2. skipped \in BOOLEAN
  BY DEF Init
<1>3. QED
  BY <1>1, <1>2 DEF Init, TypeOK, Phases

\* Every variable keeps its type: an IP list of 64-bit addresses gives offsets
\* of the kernel only, backends give locations, the comparison items.
THEOREM TypeCorrect == Spec => []TypeOK
<1>1. Init => TypeOK
  BY InitTypeOK
<1>2. TypeOK /\ [Next]_vars => TypeOK'
  BY TypePreserved
<1>3. QED
  BY <1>1, <1>2, PTL DEF Spec

-----------------------------------------------------------------------------
(* The comparison reports every offset and every location once.            *)

Indices(s) == 1 .. Len(s)

\* Nothing is compared before the reference is loaded.
NothingYet ==
  phase \in {"load_ips", "normalize", "resolve", "load_reference"} =>
    compared = {} /\ matched = {} /\ items = << >>

\* The offsets of the rows the first loop has passed are compared.
RowsCompared ==
  \A k \in Indices(references) :
    (phase = "compare" /\ k < pos) \/ phase \in {"flag", "done"} =>
      references[k].ip \in compared

\* Items of reference rows and compared offsets are in bijection.
ItemsOfRows ==
  /\ \A n \in Indices(items) :
       items[n].reference # 0 =>
         /\ items[n].reference \in Indices(references)
         /\ references[items[n].reference].ip \in compared
  /\ \A ip \in compared :
       \E n \in Indices(items) :
         items[n].reference # 0 /\ references[items[n].reference].ip = ip
  /\ \A n, m \in Indices(items) :
       /\ items[n].reference # 0 /\ items[m].reference # 0
       /\ references[items[n].reference].ip = references[items[m].reference].ip
       => n = m

\* Locations with an item are the matched ones and, in the second loop, those
\* it has passed; no location has two items.
ItemsOfLocations ==
  /\ \A k \in matched : \E n \in Indices(items) : items[n].resolved = k
  /\ \A n \in Indices(items) :
       /\ items[n].resolved # 0 /\ items[n].reference # 0 =>
            /\ items[n].resolved \in matched
            /\ resolved[items[n].resolved].ip = references[items[n].reference].ip
       /\ items[n].reference = 0 =>
            /\ items[n].resolved # 0 /\ items[n].resolved \notin matched
            /\ phase = "done" \/ (phase = "flag" /\ items[n].resolved < pos)
  /\ \A n, m \in Indices(items) :
       items[n].resolved # 0 /\ items[n].resolved = items[m].resolved => n = m

\* The locations the second loop has passed have an item.
LocationsReported ==
  \A k \in Indices(resolved) :
    (phase = "flag" /\ k < pos) \/ (phase = "done" /\ ~ skipped) =>
      \E n \in Indices(items) : items[n].resolved = k

ComparisonInv ==
  /\ TypeOK /\ NothingYet /\ RowsCompared
  /\ ItemsOfRows /\ ItemsOfLocations /\ LocationsReported

\* What appending one item to the report does.
LEMMA AppendItem ==
  ASSUME NEW s \in Seq(Item), NEW item \in Item
  PROVE  LET t == Append(s, item)
         IN  /\ Len(s) \in Nat /\ Len(t) = Len(s) + 1
             /\ \A n \in 1 .. Len(s) : t[n] = s[n]
             /\ t[Len(s) + 1] = item
  BY AppendProperties, LenProperties

\* As long as nothing is reported the invariant asks for little.
LEMMA NothingReported ==
  ASSUME compared' = {}, matched' = {}, items' = << >>,
         phase' # "flag",
         phase' = "compare" => pos' = 1,
         phase' = "done" => skipped' /\ references' = << >>
  PROVE  /\ NothingYet' /\ RowsCompared' /\ ItemsOfRows'
         /\ ItemsOfLocations' /\ LocationsReported'
<1>1. Indices(items') = {}
  BY DEF Indices
<1>2. NothingYet'
  BY DEF NothingYet
<1>3. RowsCompared'
  BY DEF RowsCompared, Indices
<1>4. ItemsOfRows' /\ ItemsOfLocations'
  BY <1>1 DEF ItemsOfRows, ItemsOfLocations
<1>5. LocationsReported'
  BY DEF LocationsReported
<1>6. QED
  BY <1>2, <1>3, <1>4, <1>5

\* A step of the first loop of compare_locations.
LEMMA CompareStep ==
  ASSUME ComparisonInv, TypeOK', CompareReference
  PROVE  ComparisonInv'
<1> DEFINE ip   == references[pos].ip
           item == ReferenceItem(ip)
           last == Len(items) + 1
<1>1. /\ phase = "compare" /\ phase' = "compare" /\ pos' = pos + 1
      /\ pos \in Indices(references) /\ pos \in Nat
      /\ references' = references /\ resolved' = resolved
  BY DEF CompareReference, CompareRow, Advance, ComparisonInv, TypeOK, Indices
<1>2. NothingYet' /\ LocationsReported'
  BY <1>1 DEF NothingYet, LocationsReported
<1>3. \A n \in Indices(items) : items[n].reference # 0
  BY <1>1 DEF ComparisonInv, ItemsOfLocations
<1>4. RowsCompared'
  <2>1. ip \in compared' /\ compared \subseteq compared'
    BY DEF CompareReference, CompareRow
  <2>2. ASSUME NEW k \in Indices(references), k < pos + 1
        PROVE  references[k].ip \in compared'
    <3>1. k = pos \/ k < pos
      BY <1>1, <2>2 DEF Indices
    <3>2. k < pos => references[k].ip \in compared
      BY <1>1 DEF ComparisonInv, RowsCompared
    <3>3. QED
      BY <2>1, <3>1, <3>2
  <2>3. QED
    BY <1>1, <2>2 DEF RowsCompared
<1>5. CASE ip \in compared
  <2>1. UNCHANGED <<compared, matched, items>>
    BY <1>5 DEF CompareReference, CompareRow
  <2>2. ItemsOfRows'
    BY <1>1, <2>1 DEF ComparisonInv, ItemsOfRows
  <2>3. ItemsOfLocations'
    BY <1>1, <1>3, <2>1 DEF ComparisonInv, ItemsOfLocations
  <2>4. QED
    BY <1>2, <1>4, <2>2, <2>3 DEF ComparisonInv
<1>6. CASE ip \notin compared
  <2>1. /\ compared' = compared \union {ip}
        /\ items' = Append(items, item)
        /\ matched' = IF Hits(ip) = {} THEN matched ELSE matched \union {First(Hits(ip))}
    BY <1>6 DEF CompareReference, CompareRow
  <2>2. /\ item \in Item
        /\ item.reference \in Indices(references)
        /\ references[item.reference].ip = ip
        /\ Hits(ip) = {} => item.resolved = 0
        /\ Hits(ip) # {} => /\ item.resolved = First(Hits(ip))
                            /\ item.resolved \in 1 .. Len(resolved)
                            /\ resolved[item.resolved].ip = ip
    BY <1>1, ItemOfReference DEF ComparisonInv, Indices
  <2>3. item.reference # 0
    BY <2>2 DEF Indices
  <2>4. /\ Len(items) \in Nat
        /\ Indices(items') = Indices(items) \union {last}
        /\ last \notin Indices(items)
        /\ \A n \in Indices(items) : items'[n] = items[n]
        /\ items'[last] = item
    <3>1. items \in Seq(Item)
      BY DEF ComparisonInv, TypeOK
    <3>2. /\ Len(items) \in Nat /\ Len(items') = Len(items) + 1
          /\ \A n \in 1 .. Len(items) : items'[n] = items[n]
          /\ items'[last] = item
      BY <2>1, <2>2, <3>1, AppendItem
    <3>3. QED
      BY <3>2 DEF Indices
  <2>5. ItemsOfRows'
    <3>1. ASSUME NEW n \in Indices(items')
          PROVE  /\ items'[n].reference \in Indices(references)
                 /\ references[items'[n].reference].ip \in compared'
                 /\ n # last => references[items'[n].reference].ip # ip
      <4>1. CASE n = last
        BY <2>1, <2>2, <2>4, <4>1
      <4>2. CASE n \in Indices(items)
        <5>1. /\ items[n].reference \in Indices(references)
              /\ references[items[n].reference].ip \in compared
          BY <1>3, <4>2 DEF ComparisonInv, ItemsOfRows
        <5>2. QED
          BY <1>6, <2>1, <2>4, <4>2, <5>1
      <4>3. QED
        BY <2>4, <4>1, <4>2
    <3>2. ASSUME NEW i \in compared'
          PROVE  \E n \in Indices(items') :
                   items'[n].reference # 0 /\ references[items'[n].reference].ip = i
      <4>1. CASE i = ip
        BY <2>2, <2>3, <2>4, <4>1
      <4>2. CASE i \in compared
        <5>1. PICK n \in Indices(items) :
                items[n].reference # 0 /\ references[items[n].reference].ip = i
          BY <4>2 DEF ComparisonInv, ItemsOfRows
        <5>2. QED
          BY <2>4, <5>1
      <4>3. QED
        BY <2>1, <4>1, <4>2
    <3>3. ASSUME NEW n \in Indices(items'), NEW m \in Indices(items'),
                 references[items'[n].reference].ip = references[items'[m].reference].ip
          PROVE  n = m
      <4>1. CASE n = last \/ m = last
        BY <2>2, <2>4, <3>1, <3>3, <4>1
      <4>2. CASE n \in Indices(items) /\ m \in Indices(items)
        BY <1>3, <2>4, <3>3, <4>2 DEF ComparisonInv, ItemsOfRows
      <4>3. QED
        BY <2>4, <4>1, <4>2
    <3>4. QED
      BY <1>1, <3>1, <3>2, <3>3 DEF ItemsOfRows
  <2>6. ItemsOfLocations'
    <3>1. ASSUME NEW n \in Indices(items), items[n].resolved # 0
          PROVE  /\ items[n].resolved \in matched
                 /\ resolved[items[n].resolved].ip = references[items[n].reference].ip
      BY <1>3, <3>1 DEF ComparisonInv, ItemsOfLocations
    <3>2. ASSUME NEW n \in Indices(items), item.resolved # 0
          PROVE  items[n].resolved # item.resolved
      <4>1. references[items[n].reference].ip \in compared
        BY <1>3 DEF ComparisonInv, ItemsOfRows
      <4>2. resolved[item.resolved].ip = ip
        BY <2>2, <3>2
      <4>3. QED
        BY <1>6, <3>1, <3>2, <4>1, <4>2
    <3>3. ASSUME NEW k \in matched'
          PROVE  \E n \in Indices(items') : items'[n].resolved = k
      <4>1. CASE k \in matched
        <5>1. PICK n \in Indices(items) : items[n].resolved = k
          BY <4>1 DEF ComparisonInv, ItemsOfLocations
        <5>2. QED
          BY <2>4, <5>1
      <4>2. CASE Hits(ip) # {} /\ k = First(Hits(ip))
        BY <2>2, <2>4, <4>2
      <4>3. QED
        BY <2>1, <4>1, <4>2
    <3>4. ASSUME NEW n \in Indices(items'), items'[n].resolved # 0
          PROVE  /\ items'[n].resolved \in matched'
                 /\ resolved[items'[n].resolved].ip = references[items'[n].reference].ip
      <4>1. CASE n = last
        BY <2>1, <2>2, <2>4, <3>4, <4>1
      <4>2. CASE n \in Indices(items)
        BY <2>1, <2>4, <3>1, <3>4, <4>2
      <4>3. QED
        BY <2>4, <4>1, <4>2
    <3>5. ASSUME NEW n \in Indices(items')
          PROVE  items'[n].reference # 0
      BY <1>3, <2>3, <2>4
    <3>6. ASSUME NEW n \in Indices(items'), NEW m \in Indices(items'),
                 items'[n].resolved # 0, items'[n].resolved = items'[m].resolved
          PROVE  n = m
      <4>1. CASE n = last \/ m = last
        BY <2>4, <3>2, <3>6, <4>1
      <4>2. CASE n \in Indices(items) /\ m \in Indices(items)
        BY <2>4, <3>6, <4>2 DEF ComparisonInv, ItemsOfLocations
      <4>3. QED
        BY <2>4, <4>1, <4>2
    <3>7. QED
      BY <1>1, <3>3, <3>4, <3>5, <3>6 DEF ItemsOfLocations
  <2>7. QED
    BY <1>2, <1>4, <2>5, <2>6 DEF ComparisonInv
<1>7. QED
  BY <1>5, <1>6

\* A step of the second loop of compare_locations.
LEMMA FlagStep ==
  ASSUME ComparisonInv, TypeOK', FlagUnmatched
  PROVE  ComparisonInv'
<1> DEFINE item == [status |-> "missing_in_reference", resolved |-> pos, reference |-> 0]
           last == Len(items) + 1
<1>1. /\ phase = "flag" /\ phase' = "flag" /\ pos' = pos + 1
      /\ pos \in Indices(resolved) /\ pos \in Nat \ {0}
      /\ references' = references /\ resolved' = resolved
      /\ compared' = compared /\ matched' = matched
  BY DEF FlagUnmatched, Advance, ComparisonInv, TypeOK, Indices
<1>2. NothingYet' /\ RowsCompared'
  BY <1>1 DEF NothingYet, RowsCompared, ComparisonInv
<1>3. ASSUME NEW n \in Indices(items), items[n].reference = 0
      PROVE  /\ items[n].resolved \in Nat \ {0} /\ items[n].resolved < pos
             /\ items[n].resolved # pos /\ items[n].resolved < pos + 1
             /\ items[n].resolved \notin matched
  <2>1. /\ items[n].resolved < pos /\ items[n].resolved # 0
        /\ items[n].resolved \notin matched
    BY <1>1, <1>3 DEF ComparisonInv, ItemsOfLocations
  <2>2. items[n] \in Item
    BY ElementOfSeq DEF ComparisonInv, TypeOK, Indices
  <2>3. items[n].resolved \in Nat
    BY <2>2 DEF Item
  <2>4. QED
    BY <1>1, <2>1, <2>3
<1>4. CASE pos \in matched
  <2>1. items' = items
    BY <1>4 DEF FlagUnmatched
  <2>2. ItemsOfRows'
    BY <1>1, <2>1 DEF ComparisonInv, ItemsOfRows
  <2>3. ItemsOfLocations'
    <3>1. \A n \in Indices(items) :
            items[n].reference = 0 => items[n].resolved < pos + 1
      BY <1>3
    <3>2. QED
      BY <1>1, <2>1, <3>1 DEF ComparisonInv, ItemsOfLocations
  <2>4. LocationsReported'
    <3>1. \E n \in Indices(items) : items[n].resolved = pos
      BY <1>4 DEF ComparisonInv, ItemsOfLocations
    <3>2. ASSUME NEW k \in Indices(resolved), k < pos + 1
          PROVE  \E n \in Indices(items) : items[n].resolved = k
      <4>1. k = pos \/ k < pos
        BY <1>1, <3>2 DEF Indices
      <4>2. QED
        BY <1>1, <3>1, <4>1 DEF ComparisonInv, LocationsReported
    <3>3. QED
      BY <1>1, <2>1, <3>2 DEF LocationsReported
  <2>5. QED
    BY <1>2, <2>2, <2>3, <2>4 DEF ComparisonInv
<1>5. CASE pos \notin matched
  <2>1. items' = Append(items, item)
    BY <1>5 DEF FlagUnmatched
  <2>2. /\ Indices(items') = Indices(items) \union {last}
        /\ last \notin Indices(items)
        /\ \A n \in Indices(items) : items'[n] = items[n]
        /\ items'[last] = item
    <3>1. items \in Seq(Item) /\ item \in Item
      BY <1>1 DEF ComparisonInv, TypeOK, Item, Statuses
    <3>2. /\ Len(items) \in Nat /\ Len(items') = Len(items) + 1
          /\ \A n \in 1 .. Len(items) : items'[n] = items[n]
          /\ items'[last] = item
      BY <2>1, <3>1, AppendItem
    <3>3. QED
      BY <3>2 DEF Indices
  <2>3. item.reference = 0 /\ item.resolved = pos /\ pos # 0
    BY <1>1
  <2>4. \A n \in Indices(items) : items[n].resolved # pos
    BY <1>3, <1>5, <2>3 DEF ComparisonInv, ItemsOfLocations
  <2>5. ItemsOfRows'
    <3>1. ASSUME NEW n \in Indices(items'), items'[n].reference # 0
          PROVE  n \in Indices(items) /\ items'[n] = items[n]
      BY <2>2, <2>3, <3>1
    <3>2. ASSUME NEW n \in Indices(items'), items'[n].reference # 0
          PROVE  /\ items'[n].reference \in Indices(references)
                 /\ references[items'[n].reference].ip \in compared
      BY <3>1, <3>2 DEF ComparisonInv, ItemsOfRows
    <3>3. ASSUME NEW i \in compared
          PROVE  \E n \in Indices(items') :
                   items'[n].reference # 0 /\ references[items'[n].reference].ip = i
      <4>1. PICK n \in Indices(items) :
              items[n].reference # 0 /\ references[items[n].reference].ip = i
        BY DEF ComparisonInv, ItemsOfRows
      <4>2. QED
        BY <2>2, <4>1
    <3>4. ASSUME NEW n \in Indices(items'), NEW m \in Indices(items'),
                 items'[n].reference # 0, items'[m].reference # 0,
                 references[items'[n].reference].ip = references[items'[m].reference].ip
          PROVE  n = m
      BY <3>1, <3>4 DEF ComparisonInv, ItemsOfRows
    <3>5. QED
      BY <1>1, <3>2, <3>3, <3>4 DEF ItemsOfRows
  <2>6. ItemsOfLocations'
    <3>1. ASSUME NEW k \in matched
          PROVE  \E n \in Indices(items') : items'[n].resolved = k
      <4>1. PICK n \in Indices(items) : items[n].resolved = k
        BY DEF ComparisonInv, ItemsOfLocations
      <4>2. QED
        BY <2>2, <4>1
    <3>2. ASSUME NEW n \in Indices(items'), items'[n].reference # 0, items'[n].resolved # 0
          PROVE  /\ items'[n].resolved \in matched
                 /\ resolved[items'[n].resolved].ip = references[items'[n].reference].ip
      <4>1. n \in Indices(items) /\ items'[n] = items[n]
        BY <2>2, <2>3, <3>2
      <4>2. QED
        BY <3>2, <4>1 DEF ComparisonInv, ItemsOfLocations
    <3>3. ASSUME NEW n \in Indices(items'), items'[n].reference = 0
          PROVE  /\ items'[n].resolved # 0 /\ items'[n].resolved \notin matched
                 /\ items'[n].resolved < pos + 1
      <4>1. CASE n = last
        BY <1>1, <1>5, <2>2, <2>3, <4>1
      <4>2. CASE n \in Indices(items)
        <5>1. items[n].reference = 0 /\ items'[n] = items[n]
          BY <2>2, <3>3, <4>2
        <5>2. QED
          BY <1>3, <4>2, <5>1
      <4>3. QED
        BY <2>2, <4>1, <4>2
    <3>4. ASSUME NEW n \in Indices(items'), NEW m \in Indices(items'),
                 items'[n].resolved # 0, items'[n].resolved = items'[m].resolved
          PROVE  n = m
      <4>1. CASE n = last \/ m = last
        BY <2>2, <2>3, <2>4, <3>4, <4>1
      <4>2. CASE n \in Indices(items) /\ m \in Indices(items)
        BY <2>2, <3>4, <4>2 DEF ComparisonInv, ItemsOfLocations
      <4>3. QED
        BY <2>2, <4>1, <4>2
    <3>5. QED
      BY <1>1, <3>1, <3>2, <3>3, <3>4 DEF ItemsOfLocations
  <2>7. LocationsReported'
    <3>1. ASSUME NEW k \in Indices(resolved), k < pos + 1
          PROVE  \E n \in Indices(items') : items'[n].resolved = k
      <4>1. CASE k = pos
        BY <2>2, <2>3, <4>1
      <4>2. CASE k < pos
        <5>1. PICK n \in Indices(items) : items[n].resolved = k
          BY <1>1, <4>2 DEF ComparisonInv, LocationsReported
        <5>2. QED
          BY <2>2, <5>1
      <4>3. QED
        BY <1>1, <3>1, <4>1, <4>2 DEF Indices
    <3>2. QED
      BY <1>1, <3>1 DEF LocationsReported
  <2>8. QED
    BY <1>2, <2>5, <2>6, <2>7 DEF ComparisonInv
<1>6. QED
  BY <1>4, <1>5

\* The invariant of the comparison is inductive.
LEMMA ComparisonPreserved == ComparisonInv /\ [Next]_vars => ComparisonInv'
<1> SUFFICES ASSUME ComparisonInv, [Next]_vars
             PROVE  ComparisonInv'
  OBVIOUS
<1>1. TypeOK'
  BY TypePreserved DEF ComparisonInv
<1>2. CASE \/ LoadIpLine \/ FinishIpList \/ NormalizeIp \/ StartResolve \/ ResolveAddress
           \/ FinishResolve \/ LoadReferenceLine \/ FinishReference
  <2>1. phase \in {"load_ips", "normalize", "resolve", "load_reference"}
        /\ UNCHANGED <<compared, matched, items>>
    BY <1>2 DEF LoadIpLine, FinishIpList, NormalizeIp, StartResolve, ResolveAddress,
                ResolveOffset, FinishResolve, LoadReferenceLine, FinishReference
  <2>2. compared' = {} /\ matched' = {} /\ items' = << >>
    BY <2>1 DEF ComparisonInv, NothingYet
  <2>3. /\ phase' # "flag"
        /\ phase' = "compare" => pos' = 1
        /\ phase' = "done" => skipped' /\ references' = << >>
    BY <1>2, <2>1 DEF LoadIpLine, FinishIpList, NormalizeIp, StartResolve, ResolveAddress,
                ResolveOffset, FinishResolve, LoadReferenceLine, FinishReference,
                Enter, Advance, Throw
  <2>4. QED
    BY <1>1, <2>2, <2>3, NothingReported DEF ComparisonInv
<1>3. CASE CompareReference
  BY <1>1, <1>3, CompareStep
<1>4. CASE FinishCompare
  <2>1. /\ phase = "compare" /\ phase' = "flag" /\ pos' = 1 /\ pos \in Nat
        /\ pos > Len(references) /\ Len(references) \in Nat
        /\ UNCHANGED <<resolved, references, compared, matched, items, skipped>>
    BY <1>4, LenProperties DEF FinishCompare, Enter, ComparisonInv, TypeOK
  <2>2. NothingYet' /\ ItemsOfRows'
    BY <2>1 DEF NothingYet, ItemsOfRows, ComparisonInv
  <2>3. RowsCompared'
    <3>1. \A k \in Indices(references) : k < pos
      BY <2>1 DEF Indices
    <3>2. QED
      BY <2>1, <3>1 DEF RowsCompared, ComparisonInv
  <2>4. ItemsOfLocations'
    BY <2>1 DEF ItemsOfLocations, ComparisonInv
  <2>5. LocationsReported'
    BY <2>1 DEF LocationsReported, Indices
  <2>6. QED
    BY <1>1, <2>2, <2>3, <2>4, <2>5 DEF ComparisonInv
<1>5. CASE FlagUnmatched
  BY <1>1, <1>5, FlagStep
<1>6. CASE FinishFlag
  <2>1. /\ phase = "flag" /\ phase' = "done" /\ pos \in Nat
        /\ pos > Len(resolved) /\ Len(resolved) \in Nat
        /\ UNCHANGED <<resolved, references, compared, matched, items, skipped>>
    BY <1>6, LenProperties DEF FinishFlag, ComparisonInv, TypeOK
  <2>2. NothingYet' /\ RowsCompared' /\ ItemsOfRows'
    BY <2>1 DEF NothingYet, RowsCompared, ItemsOfRows, ComparisonInv
  <2>3. ItemsOfLocations'
    BY <2>1 DEF ItemsOfLocations, ComparisonInv
  <2>4. LocationsReported'
    <3>1. \A k \in Indices(resolved) : k < pos
      BY <2>1 DEF Indices
    <3>2. QED
      BY <2>1, <3>1 DEF LocationsReported, ComparisonInv
  <2>5. QED
    BY <1>1, <2>2, <2>3, <2>4 DEF ComparisonInv
<1>7. CASE UNCHANGED vars
  BY <1>1, <1>7 DEF vars, ComparisonInv, NothingYet, RowsCompared, ItemsOfRows,
                    ItemsOfLocations, LocationsReported
<1>8. QED
  BY <1>2, <1>3, <1>4, <1>5, <1>6, <1>7 DEF Next

\* The invariant of the comparison holds of every behaviour.
LEMMA ComparisonCorrect == Spec => []ComparisonInv
<1>1. Init => ComparisonInv
  <2> SUFFICES ASSUME Init
               PROVE  ComparisonInv
    OBVIOUS
  <2>1. TypeOK
    BY InitTypeOK
  <2>2. Indices(items) = {} /\ Indices(references) = {} /\ Indices(resolved) = {}
    BY DEF Init, Indices
  <2>3. NothingYet /\ RowsCompared /\ ItemsOfRows /\ ItemsOfLocations /\ LocationsReported
    BY <2>2 DEF Init, NothingYet, RowsCompared, ItemsOfRows, ItemsOfLocations,
                LocationsReported
  <2>4. QED
    BY <2>1, <2>3 DEF ComparisonInv
<1>2. QED
  BY <1>1, ComparisonPreserved, PTL DEF Spec

\* compare_locations reports each offset of the reference by exactly one item.
THEOREM OffsetsReportedOnce == Spec => []OneItemPerReferenceOffset
<1>1. ComparisonInv => OneItemPerReferenceOffset
  <2> SUFFICES ASSUME ComparisonInv, phase \in {"flag", "done"},
                      NEW k \in 1 .. Len(references)
               PROVE  \E n \in 1 .. Len(items) :
                        /\ items[n].reference # 0
                        /\ references[items[n].reference].ip = references[k].ip
                        /\ \A m \in 1 .. Len(items) :
                             /\ items[m].reference # 0
                             /\ references[items[m].reference].ip = references[k].ip
                             => m = n
    BY DEF OneItemPerReferenceOffset
  <2>1. references[k].ip \in compared
    BY DEF ComparisonInv, RowsCompared, Indices
  <2>2. PICK n \in Indices(items) :
          items[n].reference # 0 /\ references[items[n].reference].ip = references[k].ip
    BY <2>1 DEF ComparisonInv, ItemsOfRows
  <2>3. QED
    BY <2>2 DEF ComparisonInv, ItemsOfRows, Indices
<1>2. QED
  BY <1>1, ComparisonCorrect, PTL

\* A finished comparison has every location of the backend in exactly one item.
THEOREM LocationsReportedOnce == Spec => []EveryLocationReportedOnce
<1>1. ComparisonInv => EveryLocationReportedOnce
  <2> SUFFICES ASSUME ComparisonInv, phase = "done", ~ skipped,
                      NEW k \in 1 .. Len(resolved)
               PROVE  \E n \in 1 .. Len(items) :
                        /\ items[n].resolved = k
                        /\ \A m \in 1 .. Len(items) : items[m].resolved = k => m = n
    BY DEF EveryLocationReportedOnce
  <2>1. PICK n \in Indices(items) : items[n].resolved = k
    BY DEF ComparisonInv, LocationsReported, Indices
  <2>2. k # 0
    OBVIOUS
  <2>3. QED
    BY <2>1, <2>2 DEF ComparisonInv, ItemsOfLocations, Indices
<1>2. QED
  BY <1>1, ComparisonCorrect, PTL
-----------------------------------------------------------------------------
(* The offsets of the addresses are those that were sampled.               *)

LEMMA Multiples ==
  ASSUME NEW n \in Int, NEW h \in Int
  PROVE  n * h = n + n * (h - 1) /\ n * h = n + n + n * (h - 2)
  OBVIOUS

LEMMA Widths ==
  /\ HalfSpace \in Nat \ {0} /\ AddressSpace = HalfSpace + HalfSpace
  /\ AddressSpace \in Nat \ {0} /\ Word \in Nat /\ AddressSpace + AddressSpace <= Word
  /\ HighPatterns - 1 \in Nat /\ Word - AddressSpace = AddressSpace * (HighPatterns - 1)
<1>1. /\ HalfSpace \in Nat \ {0} /\ AddressSpace = HalfSpace + HalfSpace
      /\ AddressSpace \in Nat \ {0}
  BY WidthAssumption DEF AddressSpace
<1>2. HighPatterns - 1 \in Nat /\ HighPatterns - 2 \in Nat BY WidthAssumption
<1>3. AddressSpace * (HighPatterns - 2) \in Nat BY <1>1, <1>2
<1>4. Word = AddressSpace * HighPatterns BY DEF Word
<1>5. /\ Word = AddressSpace + AddressSpace * (HighPatterns - 1)
      /\ Word = AddressSpace + AddressSpace + AddressSpace * (HighPatterns - 2)
  BY <1>1, <1>4, Multiples, WidthAssumption
<1> QED BY <1>1, <1>2, <1>3, <1>4, <1>5

\* The canonical address is in the half that the low bits say, and has these bits.
LEMMA CanonicalHalves ==
  ASSUME NEW a \in Int
  PROVE  LET low == a % AddressSpace
         IN  /\ low \in 0 .. AddressSpace - 1
             /\ low < HalfSpace => CanonicalizeIntelGpuAddress(a) = low
             /\ low >= HalfSpace => CanonicalizeIntelGpuAddress(a) = (Word - AddressSpace) + low
<1>1. a % AddressSpace \in 0 .. AddressSpace - 1 BY Widths
<1> QED BY <1>1, Widths DEF CanonicalizeIntelGpuAddress

LEMMA LowBits ==
  ASSUME NEW low \in 0 .. AddressSpace - 1
  PROVE  low % AddressSpace = low /\ ((Word - AddressSpace) + low) % AddressSpace = low
<1>1. AddressSpace \in Nat \ {0} /\ HighPatterns - 1 \in Int BY Widths
<1>2. (AddressSpace * (HighPatterns - 1) + low) % AddressSpace = low BY <1>1, ModUnique
<1>3. (AddressSpace * 0 + low) % AddressSpace = low BY <1>1, ModUnique
<1> QED BY <1>1, <1>2, <1>3, Widths

LEMMA CanonicalOfBits ==
  ASSUME NEW bits \in 0 .. AddressSpace - 1
  PROVE  LET a == IF bits < HalfSpace THEN bits ELSE (Word - AddressSpace) + bits
         IN  /\ CanonicalizeIntelGpuAddress(a) = a
             /\ CanonicalizeIntelGpuAddress(a % AddressSpace) = a
             /\ a \in Nat /\ a < Word
<1> DEFINE a == IF bits < HalfSpace THEN bits ELSE (Word - AddressSpace) + bits
<1>1. bits % AddressSpace = bits /\ ((Word - AddressSpace) + bits) % AddressSpace = bits
  BY LowBits
<1>2. a % AddressSpace = bits BY <1>1
<1>3. a \in Nat /\ a < Word BY Widths
<1>4. CanonicalizeIntelGpuAddress(a) = a BY <1>2 DEF CanonicalizeIntelGpuAddress
<1>5. CanonicalizeIntelGpuAddress(bits) = a BY <1>1 DEF CanonicalizeIntelGpuAddress
<1> QED BY <1>2, <1>3, <1>4, <1>5

\* An address of a kernel is canonical, and the same from its low bits alone.
LEMMA RuntimeAddress ==
  ASSUME NEW j, j.base \in Int, j.size \in Nat, InOneHalf(j), NEW at \in 0 .. j.size - 1
  PROVE  LET a == CanonicalizeIntelGpuAddress(j.base) + at
         IN  /\ CanonicalizeIntelGpuAddress(a) = a
             /\ CanonicalizeIntelGpuAddress(a % AddressSpace) = a
             /\ a \in Nat /\ a < Word
<1> DEFINE low == j.base % AddressSpace
           base == CanonicalizeIntelGpuAddress(j.base)
           bits == low + at
<1>1. /\ low \in 0 .. AddressSpace - 1
      /\ low < HalfSpace => base = low
      /\ low >= HalfSpace => base = (Word - AddressSpace) + low
  BY CanonicalHalves
<1>2. low + j.size <= IF low < HalfSpace THEN HalfSpace ELSE AddressSpace BY DEF InOneHalf
<1> HIDE DEF low, base
<1>3. bits \in 0 .. AddressSpace - 1 /\ (bits < HalfSpace <=> low < HalfSpace)
  BY <1>1, <1>2, Widths
<1>4. base + at = IF bits < HalfSpace THEN bits ELSE (Word - AddressSpace) + bits
  BY <1>1, <1>3, Widths
<1> HIDE DEF bits
<1> QED BY <1>3, <1>4, CanonicalOfBits DEF base

\* An address with other low bits than the kernel's has no offset from its base.
LEMMA NoAlias ==
  ASSUME NEW j, j.base \in Int, j.size \in Nat, InOneHalf(j), NEW address \in Int,
         address % AddressSpace
           \notin j.base % AddressSpace .. (j.base % AddressSpace) + j.size - 1
  PROVE  OffsetFromBase(CanonicalizeIntelGpuAddress(address),
                        CanonicalizeIntelGpuAddress(j.base), j.size) = NoOffset
<1> DEFINE low == j.base % AddressSpace
           base == CanonicalizeIntelGpuAddress(j.base)
           bits == address % AddressSpace
           a == CanonicalizeIntelGpuAddress(address)
<1>1. /\ low \in 0 .. AddressSpace - 1
      /\ low < HalfSpace => base = low
      /\ low >= HalfSpace => base = (Word - AddressSpace) + low
  BY CanonicalHalves
<1>2. /\ bits \in 0 .. AddressSpace - 1
      /\ bits < HalfSpace => a = bits
      /\ bits >= HalfSpace => a = (Word - AddressSpace) + bits
  BY CanonicalHalves
<1>3. low + j.size <= IF low < HalfSpace THEN HalfSpace ELSE AddressSpace BY DEF InOneHalf
<1>4. bits \notin low .. low + j.size - 1 OBVIOUS
<1> HIDE DEF low, base, bits, a
<1>5. ~ (a >= base /\ a - base < j.size)
  BY <1>1, <1>2, <1>3, <1>4, Widths
<1> QED BY <1>5 DEF OffsetFromBase, base, a

\* normalize_ip_list finds the offset that was sampled, in every form.
LEMMA SampledOffset ==
  ASSUME NEW j \in Jobs, NEW k \in 1 .. Len(j.ipLines), j.ipLines[k].kind = "address"
  PROVE  LET line == j.ipLines[k]
         IN  KernelOffset(AddressOf(j, line), j.base, j.size, j.sectionFileOffset)
               = IF line.at \in 0 .. j.size - 1 THEN line.at ELSE NoOffset
<1> DEFINE line == j.ipLines[k]
           address == AddressOf(j, line)
           low == j.base % AddressSpace
           base == CanonicalizeIntelGpuAddress(j.base)
           sfo == j.sectionFileOffset
<1>1. /\ j.base \in Int /\ j.size \in Nat /\ sfo \in Nat /\ address \in Int
      /\ line \in IpLine /\ InOneHalf(j) /\ Unambiguous(j, line)
  BY JobAssumption, FormsAssumption DEF IsJob, Address
<1>2. line.at \in Int /\ line.form \in AddressForms BY <1>1 DEF IpLine
<1>3. /\ line.form = "display" => sfo # 0
      /\ line.form # "display" /\ sfo # 0 => address - sfo \notin 0 .. j.size - 1
      /\ line.form \in {"runtime", "truncated"} \/ line.at \notin 0 .. j.size - 1 =>
           address >= j.size
      /\ line.at \notin 0 .. j.size - 1 => address % AddressSpace \notin low .. low + j.size - 1
  BY <1>1 DEF Unambiguous
<1>4. /\ line.form = "display" => address = sfo + line.at
      /\ line.form = "relative" => address = line.at
      /\ line.form = "runtime" => address = base + line.at
      /\ line.form = "truncated" => address = (base + line.at) % AddressSpace
  BY DEF AddressOf
<1>5. CASE line.at \notin 0 .. j.size - 1
  <2>1. OffsetFromBase(CanonicalizeIntelGpuAddress(address), base, j.size) = NoOffset
    BY <1>1, <1>3, <1>5, NoAlias
  <2>2. ~ (sfo # 0 /\ address >= sfo /\ address - sfo < j.size)
    <3> HIDE DEF address, sfo
    <3>1. CASE line.form = "display"
      <4>1. address - sfo = line.at BY <1>1, <1>2, <1>4, <3>1
      <4> QED BY <1>1, <1>2, <1>5, <4>1
    <3>2. CASE line.form # "display" /\ sfo # 0
      <4>1. address - sfo \notin 0 .. j.size - 1 BY <1>3, <3>2
      <4> QED BY <1>1, <4>1
    <3> QED BY <3>1, <3>2
  <2>3. ~ (address < j.size) BY <1>1, <1>3, <1>5
  <2> QED BY <1>5, <2>1, <2>2, <2>3 DEF KernelOffset
<1>6. CASE line.at \in 0 .. j.size - 1 /\ line.form = "display"
  <2>1. sfo # 0 /\ address = sfo + line.at BY <1>3, <1>4, <1>6
  <2>2. address >= sfo /\ address - sfo < j.size /\ address - sfo = line.at
    <3>1. line.at \in Nat /\ line.at < j.size /\ sfo \in Nat BY <1>1, <1>6
    <3> HIDE DEF address, line, sfo
    <3> QED BY <2>1, <3>1
  <2> QED BY <1>6, <2>1, <2>2 DEF KernelOffset
<1>7. CASE line.at \in 0 .. j.size - 1 /\ line.form = "relative"
  <2>1. address = line.at /\ address < j.size BY <1>1, <1>4, <1>7
  <2>2. ~ (sfo # 0 /\ address >= sfo /\ address - sfo < j.size) BY <1>1, <1>3, <1>7, <2>1
  <2> QED BY <1>7, <2>1, <2>2 DEF KernelOffset
<1>8. CASE line.at \in 0 .. j.size - 1 /\ line.form \in {"runtime", "truncated"}
  <2>1. CanonicalizeIntelGpuAddress(address) = base + line.at /\ base \in Nat
    BY <1>1, <1>4, <1>8, RuntimeAddress, CanonicalIsAddress
  <2>2. OffsetFromBase(base + line.at, base, j.size) = line.at
    BY <1>1, <1>8, <2>1 DEF OffsetFromBase
  <2>3. ~ (sfo # 0 /\ address >= sfo /\ address - sfo < j.size) BY <1>1, <1>3, <1>8
  <2>4. ~ (address < j.size) BY <1>1, <1>3, <1>8
  <2> QED BY <1>8, <2>1, <2>2, <2>3, <2>4 DEF KernelOffset
<1> QED BY <1>2, <1>5, <1>6, <1>7, <1>8 DEF AddressForms

LEMMA AppendIndices ==
  ASSUME NEW s \in Seq(Item), NEW e \in Item
  PROVE  /\ Indices(Append(s, e)) = Indices(s) \union {Len(s) + 1}
         /\ Append(s, e)[Len(s) + 1] = e
         /\ \A i \in Indices(s) : Append(s, e)[i] = s[i]
  BY AppendProperties, LenProperties DEF Indices

\* Every address of the list is loaded, as long as the list has no malformed line.
ListInv ==
  /\ \A i \in Indices(ips) :
       LET k == ips[i].line
       IN  /\ k \in Indices(job.ipLines) /\ job.ipLines[k].kind = "address"
           /\ ips[i].address = AddressOf(job, job.ipLines[k])
  /\ \A k \in Indices(job.ipLines) :
       job.ipLines[k].kind = "address" /\ (phase = "load_ips" => k < pos) =>
         phase = "failed" \/ \E i \in Indices(ips) : ips[i].line = k

\* normalize_ip_list has gone through the addresses in order.
OffsetsInv ==
  /\ phase = "load_ips" => offsets = << >>
  /\ phase = "normalize" => Len(offsets) = pos - 1
  /\ Len(offsets) <= Len(ips)
  /\ phase \notin {"load_ips", "normalize", "failed"} => Len(offsets) = Len(ips)
  /\ OffsetsAreExact

\* The offsets that the backend is asked for and has an answer to.
Answered(i) == offsets[i] # NoOffset /\ Answers(job, offsets[i])

\* The locations are the answers to the offsets, and after the backend's loop they
\* are all the answers, or none.
ResolvedInv ==
  /\ phase \in {"load_ips", "normalize"} => resolved = << >>
  /\ \A k \in Indices(resolved) :
       \E i \in Indices(offsets) : Answered(i) /\ resolved[k] = AnswerAt(job, offsets[i])
  /\ phase # "failed" =>
       \/ phase # "resolve" /\ resolved = << >>
       \/ \A i \in Indices(offsets) :
            Answered(i) /\ (phase = "resolve" => i < pos) =>
              \E k \in Indices(resolved) : resolved[k].ip = offsets[i]

InputInv == TypeOK /\ ListInv /\ OffsetsInv /\ ResolvedInv

\* Every item is the one its reference row or its location asks for.
VerdictInv ==
  /\ phase = "failed" => items = << >>
  /\ \A n \in Indices(items) :
       /\ items[n].reference # 0 =>
            /\ items[n].reference \in Indices(references)
            /\ items[n] = ReferenceItem(references[items[n].reference].ip)
       /\ items[n].reference = 0 =>
            items[n].status = "missing_in_reference" /\ items[n].resolved \in Indices(resolved)

LEMMA InitInput == Init => InputInv
<1> SUFFICES ASSUME Init PROVE InputInv OBVIOUS
<1>1. /\ phase = "load_ips" /\ pos = 1
      /\ ips = << >> /\ offsets = << >> /\ resolved = << >>
  BY DEF Init
<1>2. Len(<< >>) = 0 OBVIOUS
<1>3. Indices(ips) = {} /\ Indices(offsets) = {} /\ Indices(resolved) = {}
  BY <1>1, <1>2 DEF Indices
<1>4. ListInv
  <2>1. \A k \in Indices(job.ipLines) : ~ (k < 1) BY DEF Indices
  <2> QED BY <1>1, <1>3, <2>1 DEF ListInv
<1>5. OffsetsInv BY <1>1, <1>2 DEF OffsetsInv, OffsetsAreExact
<1>6. ResolvedInv BY <1>1, <1>3 DEF ResolvedInv
<1> QED BY <1>4, <1>5, <1>6, InitTypeOK DEF InputInv

\* load_ip_list.
LEMMA LoadIpStep ==
  ASSUME InputInv, LoadIpLine, TypeOK'
  PROVE  InputInv'
<1> DEFINE line == job.ipLines[pos]
           ip == [address |-> AddressOf(job, line), line |-> pos]
<1>1. /\ phase = "load_ips" /\ pos \in Indices(job.ipLines) /\ pos \in Nat
      /\ UNCHANGED <<job, offsets, resolved>> /\ offsets = << >> /\ resolved = << >>
      /\ job.ipLines \in Seq(IpLine) /\ ips \in Seq(InputIp) /\ Len(ips) \in Nat
  BY JobFields DEF LoadIpLine, InputInv, OffsetsInv, ResolvedInv, TypeOK, Indices
<1>2. Indices(offsets) = {} /\ Indices(resolved) = {} /\ Len(offsets) = 0
  BY <1>1 DEF Indices
<1>3. OffsetsInv'
  <2>1. phase' \in {"load_ips", "failed"} BY <1>1 DEF LoadIpLine, Advance, Throw
  <2>2. Len(ips') \in Nat BY DEF TypeOK
  <2> QED BY <1>1, <1>2, <2>1, <2>2 DEF OffsetsInv, OffsetsAreExact
<1>4. ResolvedInv' BY <1>1, <1>2 DEF ResolvedInv, Indices
<1>5. CASE line.kind = "malformed"
  <2>1. phase' = "failed" /\ UNCHANGED ips BY <1>5 DEF LoadIpLine, Throw
  <2> QED BY <1>1, <1>3, <1>4, <2>1 DEF InputInv, ListInv, Indices
<1>6. CASE line.kind = "blank"
  <2>1. UNCHANGED <<phase, ips>> /\ pos' = pos + 1 BY <1>6 DEF LoadIpLine, Advance
  <2>2. \A k \in Indices(job.ipLines) : k < pos + 1 => k < pos \/ k = pos
    BY <1>1 DEF Indices
  <2> QED BY <1>1, <1>3, <1>4, <1>6, <2>1, <2>2 DEF InputInv, ListInv, Indices
<1>7. CASE line.kind = "address"
  <2>1. UNCHANGED phase /\ pos' = pos + 1 /\ ips' = Append(ips, ip)
    BY <1>7 DEF LoadIpLine, Advance
  <2>2. ip \in InputIp
    <3>1. AddressOf(job, line) \in Address BY <1>1, JobFields DEF InputInv, Indices
    <3> QED BY <1>1, <3>1 DEF InputIp, Indices
  <2>3. /\ ip.line = pos /\ ip.address = AddressOf(job, line) OBVIOUS
  <2> HIDE DEF ip
  <2>4. /\ Indices(ips') = Indices(ips) \union {Len(ips) + 1}
        /\ ips'[Len(ips) + 1] = ip /\ \A i \in Indices(ips) : ips'[i] = ips[i]
    BY <1>1, <2>1, <2>2 DEF Indices
  <2>5. \A k \in Indices(job.ipLines) : k < pos + 1 => k < pos \/ k = pos
    BY <1>1 DEF Indices
  <2>6. ListInv'
    <3>1. ASSUME NEW i \in Indices(ips')
          PROVE  /\ ips'[i].line \in Indices(job.ipLines)
                 /\ job.ipLines[ips'[i].line].kind = "address"
                 /\ ips'[i].address = AddressOf(job, job.ipLines[ips'[i].line])
      <4>1. CASE i \in Indices(ips) BY <2>4, <4>1 DEF InputInv, ListInv
      <4>2. CASE i = Len(ips) + 1 BY <1>1, <1>7, <2>3, <2>4, <4>2
      <4> QED BY <2>4, <4>1, <4>2
    <3>2. ASSUME NEW k \in Indices(job.ipLines), job.ipLines[k].kind = "address", k < pos + 1
          PROVE  \E i \in Indices(ips') : ips'[i].line = k
      <4>1. CASE k < pos BY <1>1, <2>4, <3>2, <4>1 DEF InputInv, ListInv
      <4>2. CASE k = pos BY <2>3, <2>4, <4>2
      <4> QED BY <2>5, <3>2, <4>1, <4>2
    <3> QED BY <1>1, <2>1, <3>1, <3>2 DEF ListInv, Indices
  <2> QED BY <1>3, <1>4, <2>6 DEF InputInv
<1> QED BY <1>1, <1>5, <1>6, <1>7 DEF LoadIpLine

\* normalize_ip_list.
LEMMA NormalizeStep ==
  ASSUME InputInv, NormalizeIp, TypeOK'
  PROVE  InputInv'
<1> DEFINE offset == KernelOffset(ips[pos].address, job.base, job.size, job.sectionFileOffset)
<1>1. /\ phase = "normalize" /\ UNCHANGED <<phase, job, ips, resolved>> /\ pos' = pos + 1
      /\ pos \in Indices(ips) /\ pos \in Nat /\ Len(offsets) = pos - 1
      /\ offsets' = Append(offsets, offset) /\ resolved = << >>
      /\ ips \in Seq(InputIp)
  BY DEF NormalizeIp, Advance, InputInv, OffsetsInv, ResolvedInv, TypeOK, Indices
<1>2. /\ ips[pos].line \in Indices(job.ipLines)
      /\ job.ipLines[ips[pos].line].kind = "address"
      /\ ips[pos].address = AddressOf(job, job.ipLines[ips[pos].line])
  BY <1>1 DEF InputInv, ListInv
<1>3. offset = IF InKernel(job.ipLines[ips[pos].line].at)
               THEN job.ipLines[ips[pos].line].at ELSE NoOffset
  BY <1>2, SampledOffset DEF InputInv, TypeOK, InKernel, Indices
<1> HIDE DEF offset
<1>4. /\ Len(offsets') = pos /\ offsets'[pos] = offset
      /\ \A i \in 1 .. Len(offsets) : offsets'[i] = offsets[i]
      /\ \A i \in 1 .. pos : i = pos \/ i \in 1 .. Len(offsets)
  BY <1>1 DEF InputInv, TypeOK
<1>5. OffsetsAreExact'
  <2> SUFFICES ASSUME NEW i \in 1 .. Len(offsets')
               PROVE  offsets'[i] = IF InKernel(job.ipLines[ips[i].line].at)
                                    THEN job.ipLines[ips[i].line].at ELSE NoOffset
    BY <1>1 DEF OffsetsAreExact, InKernel
  <2>1. CASE i = pos BY <1>3, <1>4, <2>1
  <2>2. CASE i \in 1 .. Len(offsets)
    BY <1>4, <2>2, Zenon DEF InputInv, OffsetsInv, OffsetsAreExact
  <2> QED BY <1>4, <2>1, <2>2
<1>6. OffsetsInv' BY <1>1, <1>4, <1>5 DEF OffsetsInv, Indices
<1>7. ListInv' BY <1>1 DEF InputInv, ListInv, Indices
<1>8. ResolvedInv' BY <1>1 DEF ResolvedInv, Indices
<1> QED BY <1>6, <1>7, <1>8 DEF InputInv

\* An offset in the kernel survives the way to the runtime address and back.
LEMMA OffsetRoundTrip ==
  ASSUME TypeOK, NEW offset \in 0 .. job.size - 1
  PROVE  LET base == CanonicalizeIntelGpuAddress(job.base)
             address == Addr2LineIp(offset, job.base)
         IN  (address - base) % Word = offset /\ ~ (address < base)
<1> DEFINE base == CanonicalizeIntelGpuAddress(job.base)
<1>1. job.base \in Int /\ job.size \in Nat /\ InOneHalf(job)
  BY JobFields, FormsAssumption DEF TypeOK
<1>2. base \in Nat /\ base + offset \in Nat /\ base + offset < Word
  BY <1>1, RuntimeAddress, CanonicalIsAddress
<1>3. Word \in Nat \ {0} BY Widths
<1> HIDE DEF base
<1>4. ASSUME NEW a \in Nat, a < Word PROVE a % Word = a
  <2>1. a \in 0 .. Word - 1 BY <1>3, <1>4
  <2>2. (Word * 0 + a) % Word = a BY <1>3, <2>1, ModUnique
  <2>3. Word * 0 + a = a BY <1>3, <1>4
  <2> QED BY <2>2, <2>3
<1>5. (base + offset) % Word = base + offset BY <1>2, <1>4
<1>6. offset \in Nat /\ offset < Word
  <2>1. offset \in Nat BY <1>1
  <2> QED BY <1>2, <1>3, <2>1
<1>7. offset % Word = offset BY <1>4, <1>6
<1>8. (base + offset) - base = offset BY <1>2, <1>6
<1> QED BY <1>2, <1>5, <1>6, <1>7, <1>8 DEF Addr2LineIp, base

\* resolve_kernel.
LEMMA ResolveStep ==
  ASSUME InputInv, ResolveAddress, TypeOK'
  PROVE  InputInv'
<1> DEFINE base     == CanonicalizeIntelGpuAddress(job.base)
           address  == Addr2LineIp(offsets[pos], job.base)
           offset   == (address - base) % Word
           answered == offsets[pos] # NoOffset /\ Answers(job, offset)
           answer   == AnswerAt(job, offsets[pos])
<1>1. /\ phase = "resolve" /\ UNCHANGED <<job, ips, offsets>>
      /\ pos \in Indices(offsets) /\ pos \in Nat
      /\ resolved \in Seq(Location) /\ Len(resolved) \in Nat
  BY DEF ResolveAddress, ResolveOffset, InputInv, TypeOK, Indices
<1>2. offsets[pos] # NoOffset => offset = offsets[pos] /\ ~ (address < base)
  <2>1. offsets[pos] \in (0 .. job.size - 1) \union {NoOffset}
    BY <1>1 DEF InputInv, TypeOK, Indices
  <2> QED BY <2>1, OffsetRoundTrip DEF InputInv
<1>3. answered <=> Answered(pos) BY <1>2 DEF Answered
<1>4. \/ phase' = "load_reference" /\ resolved' = << >>
      \/ /\ phase' = "resolve" /\ pos' = pos + 1
         /\ resolved' = IF Answered(pos) THEN Append(resolved, answer) ELSE resolved
  <2>1. \/ phase' = "load_reference" /\ resolved' = << >>
        \/ /\ phase' = "resolve" /\ pos' = pos + 1
           /\ resolved' = IF answered /\ (address < base => job.backend = "gdb-intel")
                          THEN Append(resolved, AnswerAt(job, offset)) ELSE resolved
    BY <1>1 DEF ResolveAddress, ResolveOffset, Enter, Advance
  <2> QED BY <1>2, <1>3, <2>1 DEF Answered
<1> HIDE DEF answer, base, address, offset, answered
<1>5. ListInv' BY <1>1, <1>4 DEF InputInv, ListInv, Indices
<1>6. OffsetsInv' BY <1>1, <1>4 DEF InputInv, OffsetsInv, OffsetsAreExact, InKernel
<1>7. \A i : Answered(i)' <=> Answered(i) BY <1>1 DEF Answered, Answers
<1>8. ASSUME NEW i PROVE AnswerAt(job, offsets[i])' = AnswerAt(job, offsets[i])
  BY <1>1 DEF AnswerAt, AnswerLine
<1>9. Indices(offsets') = Indices(offsets) BY <1>1 DEF Indices
<1>10. CASE phase' = "load_reference" /\ resolved' = << >>
  <2>1. Indices(resolved') = {} BY <1>10 DEF Indices
  <2> QED BY <1>5, <1>6, <1>10, <2>1 DEF InputInv, ResolvedInv
<1>11. CASE phase' = "resolve" /\ pos' = pos + 1 /\ ~ Answered(pos) /\ UNCHANGED resolved
  <2>1. \A i \in Indices(offsets) : i < pos + 1 => i < pos \/ i = pos BY <1>1 DEF Indices
  <2>2. Indices(resolved') = Indices(resolved) BY <1>11 DEF Indices
  <2>3. \A k \in Indices(resolved) :
          \E i \in Indices(offsets) : Answered(i) /\ resolved[k] = AnswerAt(job, offsets[i])
    BY DEF InputInv, ResolvedInv
  <2>4. \A i \in Indices(offsets) :
          Answered(i) /\ i < pos => \E k \in Indices(resolved) : resolved[k].ip = offsets[i]
    BY <1>1 DEF InputInv, ResolvedInv
  <2> QED BY <1>1, <1>5, <1>6, <1>7, <1>8, <1>9, <1>11, <2>1, <2>2, <2>3, <2>4 DEF InputInv, ResolvedInv
<1>12. CASE /\ phase' = "resolve" /\ pos' = pos + 1 /\ Answered(pos)
            /\ resolved' = Append(resolved, answer)
  <2>1. \A i \in Indices(offsets) : i < pos + 1 => i < pos \/ i = pos BY <1>1 DEF Indices
  <2>2. /\ Indices(resolved') = Indices(resolved) \union {Len(resolved) + 1}
        /\ resolved'[Len(resolved) + 1] = answer
        /\ \A k \in Indices(resolved) : resolved'[k] = resolved[k]
    BY <1>1, <1>12 DEF Indices
  <2>3. answer = AnswerAt(job, offsets[pos]) /\ answer.ip = offsets[pos]
    BY DEF answer, AnswerAt
  <2>4. \A k \in Indices(resolved) :
          \E i \in Indices(offsets) : Answered(i) /\ resolved[k] = AnswerAt(job, offsets[i])
    BY DEF InputInv, ResolvedInv
  <2>5. \A i \in Indices(offsets) :
          Answered(i) /\ i < pos => \E k \in Indices(resolved) : resolved[k].ip = offsets[i]
    BY <1>1 DEF InputInv, ResolvedInv
  <2>6. ASSUME NEW k \in Indices(resolved')
        PROVE  \E i \in Indices(offsets) : Answered(i) /\ resolved'[k] = AnswerAt(job, offsets[i])
    BY <1>1, <1>12, <2>2, <2>3, <2>4
  <2>7. ASSUME NEW i \in Indices(offsets), Answered(i), i < pos + 1
        PROVE  \E k \in Indices(resolved') : resolved'[k].ip = offsets[i]
    <3>1. CASE i < pos BY <2>2, <2>5, <2>7, <3>1
    <3>2. CASE i = pos BY <2>2, <2>3, <3>2
    <3> QED BY <2>1, <2>7, <3>1, <3>2
  <2> QED BY <1>1, <1>5, <1>6, <1>7, <1>8, <1>9, <1>12, <2>6, <2>7 DEF InputInv, ResolvedInv
<1> QED BY <1>4, <1>10, <1>11, <1>12

\* The steps between the loops, and those after the backend has answered.
LEMMA OtherInputStep ==
  ASSUME InputInv, TypeOK',
         \/ FinishIpList \/ StartResolve \/ FinishResolve \/ LoadReferenceLine \/ FinishReference
         \/ CompareReference \/ FinishCompare \/ FlagUnmatched \/ FinishFlag \/ UNCHANGED vars
  PROVE  InputInv'
<1>1. UNCHANGED <<job, ips, offsets, resolved>>
  BY Zenon DEF FinishIpList, StartResolve, FinishResolve, LoadReferenceLine, FinishReference,
         CompareReference, CompareRow, FinishCompare, FlagUnmatched, FinishFlag, vars
<1> DEFINE after == {"load_reference", "compare", "flag", "done", "failed"}
<1>2. /\ pos \in Nat \ {0} /\ Len(offsets) \in Nat /\ Len(ips) \in Nat
      /\ Len(job.ipLines) \in Nat /\ phase \in Phases
  <2>1. job.ipLines \in Seq(IpLine) BY JobFields DEF InputInv
  <2> QED BY <2>1, LenProperties DEF InputInv, TypeOK
<1>3. \/ UNCHANGED <<phase, pos>>
      \/ phase' = "failed"
      \/ phase = "load_ips" /\ pos > Len(job.ipLines) /\ phase' = "normalize" /\ pos' = 1
      \/ phase = "normalize" /\ pos > Len(ips) /\ phase' = "resolve" /\ pos' = 1
      \/ phase = "normalize" /\ pos > Len(ips) /\ phase' = "load_reference"
      \/ phase = "resolve" /\ pos > Len(offsets) /\ phase' = "load_reference"
      \/ phase \in after /\ phase # "failed" /\ phase' \in after
  BY DEF FinishIpList, StartResolve, FinishResolve, LoadReferenceLine, FinishReference,
         CompareReference, CompareRow, FinishCompare, FlagUnmatched, FinishFlag, vars,
         Enter, Advance, Throw
<1>4. ListInv'
  <2>1. \A k \in Indices(job.ipLines) : pos > Len(job.ipLines) => k < pos
    BY <1>2 DEF Indices
  <2> QED BY <1>1, <1>3, <2>1 DEF InputInv, ListInv, Indices
<1>5. OffsetsInv'
  <2>1. phase = "normalize" /\ pos > Len(ips) => Len(offsets) = Len(ips)
    BY <1>2 DEF InputInv, OffsetsInv
  <2>2. OffsetsAreExact' BY <1>1 DEF InputInv, OffsetsInv, OffsetsAreExact, InKernel
  <2> QED BY <1>1, <1>2, <1>3, <2>1, <2>2 DEF InputInv, OffsetsInv
<1>6. ResolvedInv'
  <2>1. \A i : Answered(i)' <=> Answered(i) BY <1>1 DEF Answered, Answers
  <2>2. ASSUME NEW i PROVE AnswerAt(job, offsets[i])' = AnswerAt(job, offsets[i])
    BY <1>1 DEF AnswerAt, AnswerLine
  <2>3. /\ Indices(offsets') = Indices(offsets) /\ Indices(resolved') = Indices(resolved)
        /\ resolved = << >> => Indices(resolved) = {}
    BY <1>1 DEF Indices
  <2>4. \A i \in Indices(offsets) : pos > Len(offsets) => i < pos
    BY <1>2 DEF Indices
  <2>5. \A i \in Indices(offsets) : ~ (i < 1) BY DEF Indices
  <2>6. /\ phase' \in {"load_ips", "normalize"} => resolved' = << >>
        /\ \A k \in Indices(resolved') :
             \E i \in Indices(offsets') : Answered(i)' /\ resolved'[k] = AnswerAt(job, offsets[i])'
    BY <1>1, <1>3, <2>1, <2>2, <2>3 DEF InputInv, ResolvedInv
  <2>7. phase' # "failed" =>
          \/ phase' # "resolve" /\ resolved' = << >>
          \/ \A i \in Indices(offsets') :
               Answered(i)' /\ (phase' = "resolve" => i < pos') =>
                 \E k \in Indices(resolved') : resolved'[k].ip = offsets'[i]
    BY <1>1, <1>3, <2>1, <2>3, <2>4, <2>5 DEF InputInv, ResolvedInv
  <2> QED BY <2>6, <2>7 DEF ResolvedInv
<1> QED BY <1>4, <1>5, <1>6 DEF InputInv

LEMMA InputPreserved == InputInv /\ [Next]_vars => InputInv'
<1> SUFFICES ASSUME InputInv, [Next]_vars PROVE InputInv' OBVIOUS
<1>1. TypeOK' BY TypePreserved DEF InputInv
<1> QED BY <1>1, LoadIpStep, NormalizeStep, ResolveStep, OtherInputStep, Zenon DEF Next

LEMMA InputCorrect == Spec => []InputInv
<1> QED BY InitInput, InputPreserved, PTL DEF Spec

\* The offsets of a list's addresses are those that the profiler sampled, for every
\* form of address, kernel and width, and addresses outside the kernel have none.
THEOREM OffsetsExact == Spec => []OffsetsAreExact
<1>1. InputInv => OffsetsAreExact BY DEF InputInv, OffsetsInv
<1> QED BY <1>1, InputCorrect, PTL

-----------------------------------------------------------------------------
(* The verdicts hold of the inputs.                                        *)

LEMMA InitVerdict == Init => VerdictInv
<1> SUFFICES ASSUME Init PROVE VerdictInv OBVIOUS
<1>1. items = << >> BY DEF Init
<1> QED BY <1>1 DEF VerdictInv, Indices

LEMMA VerdictStep ==
  ASSUME VerdictInv, ComparisonInv, TypeOK', [Next]_vars
  PROVE  VerdictInv'
<1>1. CASE items = << >> /\ UNCHANGED items
  BY <1>1 DEF VerdictInv, Indices
<1>2. CASE CompareReference
  <2> DEFINE ip == references[pos].ip
  <2>1. /\ phase' = "compare" /\ pos \in Indices(references)
        /\ UNCHANGED <<references, resolved>>
        /\ items' = items \/ items' = Append(items, ReferenceItem(ip))
    BY <1>2 DEF CompareReference, CompareRow, Advance, ComparisonInv, TypeOK, Indices
  <2>2. /\ ReferenceItem(ip) \in Item
        /\ ReferenceItem(ip).reference \in Indices(references)
        /\ references[ReferenceItem(ip).reference].ip = ip
    BY <2>1, ItemOfReference DEF ComparisonInv, Indices
  <2>3. Indices(references') = Indices(references) /\ Indices(resolved') = Indices(resolved)
    BY <2>1 DEF Indices
  <2>4. \A r : ReferenceItem(r)' = ReferenceItem(r)
    BY <2>1 DEF ReferenceItem, Hits, Candidates
  <2>5. CASE items' = items
    <3>1. Indices(items') = Indices(items) BY <2>5 DEF Indices
    <3> QED BY <2>1, <2>3, <2>4, <2>5, <3>1 DEF VerdictInv
  <2>6. CASE items' = Append(items, ReferenceItem(ip))
    <3>1. /\ Indices(items') = Indices(items) \union {Len(items) + 1}
          /\ items'[Len(items) + 1] = ReferenceItem(ip)
          /\ \A n \in Indices(items) : items'[n] = items[n]
      <4>1. items \in Seq(Item) BY DEF ComparisonInv, TypeOK
      <4>2. ASSUME NEW e \in Item
            PROVE  /\ Indices(Append(items, e)) = Indices(items) \union {Len(items) + 1}
                   /\ Append(items, e)[Len(items) + 1] = e
                   /\ \A n \in Indices(items) : Append(items, e)[n] = items[n]
        BY <4>1, AppendIndices
      <4> QED BY <2>2, <2>6, <4>2, Zenon
    <3>2. ReferenceItem(ip).reference # 0 BY <2>2 DEF Indices
    <3>3. ASSUME NEW n \in Indices(items')
          PROVE  /\ items'[n].reference # 0 =>
                      /\ items'[n].reference \in Indices(references)
                      /\ items'[n] = ReferenceItem(references[items'[n].reference].ip)
                 /\ items'[n].reference = 0 =>
                      /\ items'[n].status = "missing_in_reference"
                      /\ items'[n].resolved \in Indices(resolved)
      <4>1. CASE n \in Indices(items) BY <3>1, <4>1 DEF VerdictInv
      <4>2. CASE n = Len(items) + 1 BY <2>2, <3>1, <3>2, <4>2
      <4> QED BY <3>1, <4>1, <4>2
    <3> QED BY <2>1, <2>3, <2>4, <3>3 DEF VerdictInv
  <2> QED BY <2>1, <2>5, <2>6
<1>3. CASE FlagUnmatched
  <2> DEFINE item == [status |-> "missing_in_reference", resolved |-> pos, reference |-> 0]
  <2>1. /\ phase' = "flag" /\ pos \in Indices(resolved) /\ UNCHANGED <<references, resolved>>
        /\ items' = items \/ items' = Append(items, item)
    BY <1>3 DEF FlagUnmatched, Advance, ComparisonInv, TypeOK, Indices
  <2>2. item \in Item BY DEF Item, Statuses, ComparisonInv, TypeOK
  <2>3. Indices(references') = Indices(references) /\ Indices(resolved') = Indices(resolved)
    BY <2>1 DEF Indices
  <2>4. \A r : ReferenceItem(r)' = ReferenceItem(r)
    BY <2>1 DEF ReferenceItem, Hits, Candidates
  <2>5. CASE items' = items
    <3>1. Indices(items') = Indices(items) BY <2>5 DEF Indices
    <3> QED BY <2>1, <2>3, <2>4, <2>5, <3>1 DEF VerdictInv
  <2>6. CASE items' = Append(items, item)
    <3>1. /\ Indices(items') = Indices(items) \union {Len(items) + 1}
          /\ items'[Len(items) + 1] = item
          /\ \A n \in Indices(items) : items'[n] = items[n]
      <4>1. items \in Seq(Item) BY DEF ComparisonInv, TypeOK
      <4>2. ASSUME NEW e \in Item
            PROVE  /\ Indices(Append(items, e)) = Indices(items) \union {Len(items) + 1}
                   /\ Append(items, e)[Len(items) + 1] = e
                   /\ \A n \in Indices(items) : Append(items, e)[n] = items[n]
        BY <4>1, AppendIndices
      <4> QED BY <2>2, <2>6, <4>2, Zenon
    <3>2. /\ item.reference = 0 /\ item.status = "missing_in_reference"
          /\ item.resolved \in Indices(resolved)
      BY <2>1
    <3> HIDE DEF item
    <3>3. ASSUME NEW n \in Indices(items')
          PROVE  /\ items'[n].reference # 0 =>
                      /\ items'[n].reference \in Indices(references)
                      /\ items'[n] = ReferenceItem(references[items'[n].reference].ip)
                 /\ items'[n].reference = 0 =>
                      /\ items'[n].status = "missing_in_reference"
                      /\ items'[n].resolved \in Indices(resolved)
      <4>1. CASE n \in Indices(items) BY <3>1, <4>1 DEF VerdictInv
      <4>2. CASE n = Len(items) + 1 BY <3>1, <3>2, <4>2
      <4> QED BY <3>1, <4>1, <4>2
    <3> QED BY <2>1, <2>3, <2>4, <3>3 DEF VerdictInv
  <2> QED BY <2>1, <2>5, <2>6
<1>4. CASE FinishCompare \/ FinishFlag \/ UNCHANGED vars
  <2>1. /\ UNCHANGED <<items, references, resolved>>
        /\ phase' = "failed" => phase = "failed"
    BY <1>4 DEF FinishCompare, FinishFlag, Enter, vars
  <2>2. \A r : ReferenceItem(r)' = ReferenceItem(r)
    BY <2>1 DEF ReferenceItem, Hits, Candidates
  <2> QED BY <2>1, <2>2 DEF VerdictInv, Indices
<1>5. CASE \/ LoadIpLine \/ FinishIpList \/ NormalizeIp \/ StartResolve \/ ResolveAddress
           \/ FinishResolve \/ LoadReferenceLine \/ FinishReference
  <2>1. UNCHANGED items /\ phase \in {"load_ips", "normalize", "resolve", "load_reference"}
    BY <1>5 DEF LoadIpLine, FinishIpList, NormalizeIp, StartResolve, ResolveAddress,
            ResolveOffset, FinishResolve, LoadReferenceLine, FinishReference
  <2> QED BY <1>1, <2>1 DEF ComparisonInv, NothingYet
<1> QED BY <1>2, <1>3, <1>4, <1>5, Zenon DEF Next

LEMMA VerdictCorrect == Spec => []VerdictInv
<1>1. VerdictInv /\ ComparisonInv /\ [Next]_vars => VerdictInv'
  BY VerdictStep, TypePreserved DEF ComparisonInv
<1> QED BY <1>1, InitVerdict, ComparisonCorrect, PTL DEF Spec

\* What an item is of, in terms of its offset.
LEMMA ItemFacts ==
  ASSUME ComparisonInv, InputInv, VerdictInv, NEW n \in Indices(items)
  PROVE  LET item == items[n]
             offset == ItemOffset(item)
         IN  \/ /\ item.reference = 0 /\ item.status = "missing_in_reference"
                /\ item.resolved \in Indices(resolved)
                /\ offset = resolved[item.resolved].ip
             \/ /\ item.reference \in Indices(references) /\ Hits(offset) = {}
                /\ offset = references[item.reference].ip
                /\ item.status = "missing_in_backend"
             \/ /\ item.reference \in Candidates(offset) /\ item.resolved \in Hits(offset)
                /\ offset = references[item.reference].ip
                /\ item.status = ComparePair(resolved[item.resolved], references[item.reference])
                /\ (\E k \in Candidates(offset) :
                       ComparePair(resolved[item.resolved], references[k]) = "match")
                     => item.status = "match"
<1> DEFINE item == items[n]
           offset == ItemOffset(item)
<1>1. CASE item.reference = 0
  BY <1>1 DEF VerdictInv, ItemOffset
<1>2. CASE item.reference # 0
  <2>1. /\ item.reference \in Indices(references) /\ offset = references[item.reference].ip
        /\ item = ReferenceItem(offset)
    BY <1>2 DEF VerdictInv, ItemOffset
  <2> HIDE DEF item, offset
  <2> DEFINE hit == First(Hits(offset))
             matching == {k \in Candidates(offset) :
                            ComparePair(resolved[hit], references[k]) = "match"}
             chosen == IF matching # {} THEN First(matching) ELSE First(Candidates(offset))
  <2>2. CASE Hits(offset) = {}
    <3>1. item.status = "missing_in_backend" BY <2>1, <2>2 DEF ReferenceItem
    <3> QED BY <2>1, <2>2, <3>1 DEF item, offset
  <2>3. CASE Hits(offset) # {}
    <3>1. /\ item.status = ComparePair(resolved[hit], references[chosen])
          /\ item.resolved = hit /\ item.reference = chosen
      BY <2>1, <2>3 DEF ReferenceItem
    <3>2. hit \in Hits(offset)
      <4>1. Hits(offset) \subseteq Nat BY DEF Hits
      <4> QED BY <2>3, <4>1, FirstIsLeast
    <3>3. item.reference \in Candidates(offset)
      BY <2>1 DEF Candidates, Indices
    <3>4. matching # {} => item.status = "match"
      <4>1. matching \subseteq Nat BY DEF Candidates
      <4>2. matching # {} => First(matching) \in matching BY <4>1, FirstIsLeast
      <4> QED BY <3>1, <4>2
    <3> QED BY <2>1, <3>1, <3>2, <3>3, <3>4 DEF item, offset
  <2> QED BY <2>2, <2>3 DEF item, offset
<1> QED BY <1>1, <1>2

\* What a location is, in terms of its offset: a sampled one of the kernel, with the
\* line row that the backend answers with.
LEMMA LocationFacts ==
  ASSUME InputInv, NEW k \in Indices(resolved)
  PROVE  LET offset == resolved[k].ip
         IN  /\ InKernel(offset) /\ offset \in Sampled /\ Answers(job, offset)
             /\ resolved[k] = AnswerAt(job, offset)
<1>1. PICK i \in Indices(offsets) : Answered(i) /\ resolved[k] = AnswerAt(job, offsets[i])
  BY DEF InputInv, ResolvedInv
<1>2. resolved[k].ip = offsets[i] /\ offsets[i] # NoOffset /\ Answers(job, offsets[i])
  BY <1>1 DEF AnswerAt, Answered
<1> DEFINE at == job.ipLines[ips[i].line].at
<1>3. offsets[i] = IF InKernel(at) THEN at ELSE NoOffset
  BY Zenon DEF InputInv, OffsetsInv, OffsetsAreExact, Indices
<1>4. InKernel(at) /\ offsets[i] = at BY <1>2, <1>3
<1>5. at \in Sampled
  <2>1. i \in Indices(ips) BY DEF InputInv, OffsetsInv, Indices, TypeOK
  <2>2. ips[i].line \in Indices(job.ipLines) /\ job.ipLines[ips[i].line].kind = "address"
    BY <2>1 DEF InputInv, ListInv
  <2> QED BY <2>2 DEF Sampled, Indices
<1> QED BY <1>1, <1>2, <1>4, <1>5

\* A backend that did not fail as a whole has a location at every sampled offset it
\* has a line row for.
LEMMA AnswersAreThere ==
  ASSUME InputInv, phase \in {"compare", "flag", "done"}, resolved # << >>,
         NEW offset \in Sampled, InKernel(offset), Answers(job, offset)
  PROVE  Hits(offset) # {}
<1>1. PICK k \in Indices(job.ipLines) :
        job.ipLines[k].kind = "address" /\ job.ipLines[k].at = offset
  BY DEF Sampled, Indices
<1>2. PICK i \in Indices(ips) : ips[i].line = k
  BY <1>1 DEF InputInv, ListInv
<1>3. i \in Indices(offsets) BY DEF InputInv, OffsetsInv, Indices
<1>4. offsets[i] = IF InKernel(job.ipLines[ips[i].line].at)
                   THEN job.ipLines[ips[i].line].at ELSE NoOffset
  BY <1>3, Zenon DEF InputInv, OffsetsInv, OffsetsAreExact, Indices
<1>5. offsets[i] = offset BY <1>1, <1>2, <1>4
<1>6. offset # NoOffset
  <2>1. job.size \in Nat BY JobFields DEF InputInv
  <2> QED BY <2>1 DEF InKernel, NoOffset
<1>7. Answered(i) BY <1>5, <1>6 DEF Answered
<1>8. PICK l \in Indices(resolved) : resolved[l].ip = offsets[i]
  BY <1>3, <1>7 DEF InputInv, ResolvedInv
<1> QED BY <1>5, <1>8 DEF Hits, Indices

LEMMA ReportingPhases ==
  ASSUME ComparisonInv, VerdictInv, NEW n \in Indices(items)
  PROVE  phase \in {"compare", "flag", "done"}
<1>1. items # << >> BY DEF Indices
<1> QED BY <1>1 DEF ComparisonInv, VerdictInv, NothingYet, TypeOK, Phases

\* A match is agreement of the DWARF row with the reference row.
LEMMA MatchIsAgreement ==
  ASSUME InputInv, NEW k \in Indices(resolved), NEW row
  PROVE  ComparePair(resolved[k], row) = "match" <=> Agrees(resolved[k].ip, row)
<1>1. resolved[k] = AnswerAt(job, resolved[k].ip) BY LocationFacts
<1>2. /\ resolved[k].file = job.dwarf[resolved[k].ip].file
      /\ resolved[k].line = AnswerLine(job, resolved[k].ip)
  BY <1>1 DEF AnswerAt
<1> QED BY <1>2 DEF ComparePair, Agrees

LEMMA VerdictsHold ==
  ASSUME ComparisonInv, InputInv, VerdictInv
  PROVE  VerdictsReflectInputs
<1> SUFFICES ASSUME NEW n \in 1 .. Len(items)
             PROVE  LET offset == ItemOffset(items[n])
                        answered == InKernel(offset) /\ offset \in Sampled /\ Answers(job, offset)
                    IN  IF items[n].status = "missing_in_backend"
                        THEN resolved = << >> \/ ~ answered
                        ELSE /\ answered
                             /\ items[n].status # "missing_in_reference" =>
                                  ( items[n].status = "match"
                                    <=> \E k \in RowsAt(offset) : Agrees(offset, references[k]) )
  BY DEF VerdictsReflectInputs
<1> DEFINE item == items[n]
           offset == ItemOffset(item)
           answered == InKernel(offset) /\ offset \in Sampled /\ Answers(job, offset)
<1>1. n \in Indices(items) BY DEF Indices
<1>2. phase \in {"compare", "flag", "done"} BY <1>1, ReportingPhases
<1>3. CASE /\ item.reference = 0 /\ item.status = "missing_in_reference"
           /\ item.resolved \in Indices(resolved) /\ offset = resolved[item.resolved].ip
  <2>1. answered BY <1>3, LocationFacts
  <2> QED BY <1>3, <2>1
<1>4. CASE item.status = "missing_in_backend" /\ Hits(offset) = {}
  BY <1>2, <1>4, AnswersAreThere
<1>5. CASE /\ item.reference \in Candidates(offset) /\ item.resolved \in Hits(offset)
           /\ item.status = ComparePair(resolved[item.resolved], references[item.reference])
           /\ (\E k \in Candidates(offset) :
                  ComparePair(resolved[item.resolved], references[k]) = "match")
                => item.status = "match"
  <2>1. item.resolved \in Indices(resolved) /\ resolved[item.resolved].ip = offset
    BY <1>5 DEF Hits, Indices
  <2>2. answered BY <2>1, LocationFacts
  <2>3. RowsAt(offset) = Candidates(offset) BY DEF RowsAt, Candidates
  <2>4. \A row : ComparePair(resolved[item.resolved], row) = "match" <=> Agrees(offset, row)
    BY <2>1, MatchIsAgreement
  <2>5. item.status \notin {"missing_in_backend", "missing_in_reference"}
    BY <1>5 DEF ComparePair
  <2>6. item.status = "match" <=> \E k \in RowsAt(offset) : Agrees(offset, references[k])
    BY <1>5, <2>3, <2>4
  <2> HIDE DEF item, offset
  <2> QED BY <2>2, <2>5, <2>6 DEF item, offset
<1> QED BY <1>1, <1>3, <1>4, <1>5, ItemFacts

\* A verdict is about what was sampled and what the DWARF says there, and no offset is
\* called missing in a backend that has a line row for it and did not fail.
THEOREM VerdictsAreTrue == Spec => []VerdictsReflectInputs
<1> QED BY VerdictsHold, ComparisonCorrect, InputCorrect, VerdictCorrect, PTL

LEMMA DwarfMismatches ==
  ASSUME ComparisonInv, InputInv, VerdictInv
  PROVE  DwarfReferenceMismatchesOnlyAtLineZero
<1> SUFFICES ASSUME ReferenceIsDwarf, NEW n \in 1 .. Len(items)
             PROVE  /\ items[n].status # "file_mismatch"
                    /\ items[n].status = "line_mismatch" =>
                         job.backend = "rust-gimli" /\ references[items[n].reference].line = 0
  BY DEF DwarfReferenceMismatchesOnlyAtLineZero
<1> DEFINE item == items[n]
           offset == ItemOffset(item)
<1>1. n \in Indices(items) BY DEF Indices
<1>2. CASE item.status \in {"missing_in_reference", "missing_in_backend"} BY <1>2
<1>3. CASE /\ item.reference \in Candidates(offset) /\ item.resolved \in Hits(offset)
           /\ item.status = ComparePair(resolved[item.resolved], references[item.reference])
  <2> DEFINE location == resolved[item.resolved]
             row == references[item.reference]
  <2>1. /\ item.resolved \in Indices(resolved) /\ location.ip = offset
        /\ item.reference \in 1 .. Len(references) /\ row.ip = offset
    BY <1>3 DEF Hits, Candidates, Indices
  <2>2. location = AnswerAt(job, offset) BY <2>1, LocationFacts
  <2>3. location.file = job.dwarf[offset].file /\ location.line = AnswerLine(job, offset)
    BY <2>2 DEF AnswerAt
  <2>4. NormalPath[row.file] = NormalPath[job.dwarf[offset].file] /\ row.line = job.dwarf[offset].line
    BY <2>1 DEF ReferenceIsDwarf
  <2> HIDE DEF location, row, item, offset
  <2>5. /\ ComparePair(location, row) # "file_mismatch"
        /\ ComparePair(location, row) = "line_mismatch" =>
             job.backend = "rust-gimli" /\ row.line = 0
    BY <2>3, <2>4 DEF ComparePair, AnswerLine
  <2> QED BY <1>3, <2>5 DEF location, row, item
<1> QED BY <1>1, <1>2, <1>3, ItemFacts

\* Against the DWARF rows themselves a comparison finds no wrong file, and a wrong line
\* only where gimli takes line 0 for none.
THEOREM DwarfAgreesWithItself == Spec => []DwarfReferenceMismatchesOnlyAtLineZero
<1> QED BY DwarfMismatches, ComparisonCorrect, InputCorrect, VerdictCorrect, PTL

=============================================================================
