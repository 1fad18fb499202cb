-------------------------- MODULE ElfUnits_proofs --------------------------
(***************************************************************************)
(* Proofs about how the two adapters find a kernel's rows, for all files   *)
(* and kernels that are asked for.                                         *)
(***************************************************************************)
EXTENDS ElfUnits, NumberLemmas, FiniteSetTheorems, TLAPS

-----------------------------------------------------------------------------
(* Lemmas about the operators.                                             *)

\* Of a single selected unit, every way to choose gives that unit.
LEMMA OneSelected ==
  ASSUME NEW S, NEW n \in Nat, S \subseteq 1 .. n, Cardinality(S) = 1
  PROVE  Max(S) \in S
<1>1. IsFiniteSet(S)
  <2>1. IsFiniteSet(1 .. n) /\ S \in SUBSET (1 .. n)
    BY FS_Interval
  <2>2. QED
    BY <2>1, FS_Subset
<1>2. S # {}
  BY FS_EmptySet
<1>3. S \subseteq Nat /\ \A k \in S : k <= n
  OBVIOUS
<1>4. QED
  BY <1>2, <1>3, MaxIsGreatest

\* A table has an entry for each address of a row, which is such a row.
LEMMA TableFacts ==
  ASSUME NEW rows, NEW table \in Tables(rows)
  PROVE  /\ DOMAIN table = {r.address : r \in rows}
         /\ \A a \in DOMAIN table : table[a] \in rows /\ table[a].address = a
<1> DEFINE at(a) == {r \in rows : r.address = a}
           addresses == {r.address : r \in rows}
           tied == {a \in addresses : Cardinality(at(a)) > 1}
<1>1. PICK last \in [tied -> rows] :
        /\ \A a \in tied : last[a] \in at(a)
        /\ table = [a \in addresses |-> IF a \in tied THEN last[a] ELSE CHOOSE r \in at(a) : TRUE]
  BY DEF Tables
<1>2. ASSUME NEW a \in addresses
      PROVE  table[a] \in at(a)
  <2>1. (CHOOSE r \in at(a) : TRUE) \in at(a)
    OBVIOUS
  <2>2. QED
    BY <1>1, <2>1
<1>3. QED
  BY <1>1, <1>2

\* A look-up finds a row at or below the address, and none is nearer.
LEMMA LookUp ==
  ASSUME NEW rows, rows \subseteq Row, NEW table \in Tables(rows), NEW address \in Nat
  PROVE  LET below == Found(table, address)
             row   == table[Max(below)]
         IN  /\ below = {} <=> \A r \in rows : ~ (r.address <= address)
             /\ below # {} =>
                  /\ row \in rows /\ row.address <= address
                  /\ \A r \in rows : r.address <= address => r.address <= row.address
<1> DEFINE below == Found(table, address)
           row   == table[Max(below)]
<1>1. \A r \in rows : r.address \in Nat
  BY DEF Row
<1>2. below = {a \in {r.address : r \in rows} : a <= address}
  BY TableFacts DEF Found
<1>3. below = {} <=> \A r \in rows : ~ (r.address <= address)
  BY <1>2
<1>4. ASSUME below # {}
      PROVE  /\ row \in rows /\ row.address <= address
             /\ \A r \in rows : r.address <= address => r.address <= row.address
  <2>1. below \subseteq Nat /\ \A a \in below : a <= address
    BY <1>1, <1>2
  <2>2. Max(below) \in below /\ \A a \in below : a <= Max(below)
    BY <1>4, <2>1, MaxIsGreatest
  <2>3. row \in rows /\ row.address = Max(below)
    BY <1>2, <2>2, TableFacts
  <2>4. QED
    BY <1>2, <2>1, <2>2, <2>3
<1>5. QED
  BY <1>3, <1>4

-----------------------------------------------------------------------------
(* The invariant.                                                          *)

\* A walk begins only for a kernel that is in the file, and the walk over
\* .debug_line selects only units that hold a relocation to it.
WalkInv ==
  /\ phase \in {"info", "comp_dir", "aborted", "lines", "units"} => kernel \in DOMAIN file.kernels
  /\ phase = "lines" => \A k \in selected : Holds(file.lines, k, file.lineRelocations)

\* The rows of the first sequence, by their index.
InFirst(rows, n) == n \in DOMAIN rows /\ \A j \in 1 .. n - 1 : ~ rows[j].end

\* The location is that of row n, at or below the address and the nearest in the
\* first sequence of the kernel's line unit k, where the sequence has not ended.
PtiAnswer(location, address, k, n) ==
  LET rows == file.lines[k].rows
  IN  /\ Holds(file.lines, k, file.lineRelocations)
      /\ InFirst(rows, n) /\ ~ rows[n].end
      /\ location = Location(rows[n]) /\ rows[n].address <= address
      /\ \A m \in DOMAIN rows :
           InFirst(rows, m) /\ rows[m].address <= address => rows[m].address <= rows[n].address

PtiInv ==
  \A o \in Offsets : answers.pti[o] # Absent =>
    /\ kernel \in DOMAIN file.kernels
    /\ \E k \in DOMAIN file.lines : \E n \in DOMAIN file.lines[k].rows :
         PtiAnswer(answers.pti[o], RuntimeAddress(o), k, n)

\* What iga keeps of the first units.
KeptOf(units) ==
  {row \in AllRows : row.line > 0 /\ \E j \in units :
     file.lines[file.info[j].lines].fits /\ row \in Range(file.lines[file.info[j].lines].rows)}

LocationsInv ==
  /\ phase \in {"units", "done"} \/ locations = {}
  /\ phase = "symbol" => unit = 1
  /\ phase = "units" => locations = KeptOf(1 .. unit - 1)

IgaAnswer(location, address, row) ==
  /\ row.line > 0 /\ location = Location(row) /\ row.address <= address
  /\ \A other \in KeptOf(DOMAIN file.info) :
       other.address <= address => other.address <= row.address

IgaInv ==
  \A o \in Offsets : answers.iga[o] # Absent =>
    /\ phase = "done" /\ kernel \in DOMAIN file.kernels
    /\ \E row \in AllRows : IgaAnswer(answers.iga[o], RuntimeAddress(o), row)

UnitsInv == TypeOK /\ WalkInv /\ PtiInv /\ LocationsInv /\ IgaInv

-----------------------------------------------------------------------------
(* The steps.                                                              *)

\* What a request says of the file.
LEMMA FileFacts ==
  ASSUME TypeOK
  PROVE  /\ IsFile(file) /\ kernel \in Nat
         /\ file.info \in Seq(InfoUnit) /\ file.lines \in Seq(LineUnit) /\ file.kernels \in Seq(Kernel)
         /\ \A k \in DOMAIN file.kernels : file.kernels[k].address \in Nat /\ file.kernels[k].size \in Nat \ {0}
         /\ \A j \in DOMAIN file.info : file.info[j].lines \in DOMAIN file.lines
<1>1. IsRequest([file |-> file, kernel |-> kernel])
  BY DEF TypeOK
<1>2. IsFile(file) /\ kernel \in 1 .. Len(file.kernels) + 1
  BY <1>1 DEF IsRequest
<1>3. file.info \in Seq(InfoUnit) /\ file.lines \in Seq(LineUnit) /\ file.kernels \in Seq(Kernel)
      /\ \A j \in DOMAIN file.info : file.info[j].lines \in DOMAIN file.lines
  BY <1>2 DEF IsFile
<1>4. \A k \in DOMAIN file.kernels : file.kernels[k] \in Kernel
  BY <1>3
<1>5. \A k \in DOMAIN file.kernels : file.kernels[k].address \in Nat /\ file.kernels[k].size \in Nat \ {0}
  BY <1>4 DEF Kernel
<1>6. QED
  BY <1>2, <1>3, <1>5

\* The rows of a line unit, and of all.
LEMMA RowFacts ==
  ASSUME TypeOK
  PROVE  /\ \A k \in DOMAIN file.lines :
              /\ file.lines[k].rows \in Seq(Row) /\ InSequences(file.lines[k].rows)
              /\ Range(file.lines[k].rows) \subseteq AllRows
              /\ \A n \in DOMAIN file.lines[k].rows : file.lines[k].rows[n] \in AllRows
         /\ AllRows \subseteq Row
         /\ \A row \in AllRows : row.kernel \in DOMAIN file.kernels
<1>1. IsFile(file) /\ file.lines \in Seq(LineUnit)
  BY FileFacts
<1>2. ASSUME NEW k \in DOMAIN file.lines
      PROVE  /\ file.lines[k].rows \in Seq(Row) /\ InSequences(file.lines[k].rows)
             /\ Range(file.lines[k].rows) \subseteq AllRows
             /\ Range(file.lines[k].rows) \subseteq Row
             /\ \A n \in DOMAIN file.lines[k].rows : file.lines[k].rows[n] \in AllRows
             /\ \A row \in Range(file.lines[k].rows) : row.kernel \in DOMAIN file.kernels
  <2>1. file.lines[k] \in LineUnit
    BY <1>1
  <2>2. file.lines[k].rows \in Seq(Row)
    BY <2>1 DEF LineUnit
  <2>3. Range(file.lines[k].rows) \subseteq Row
    BY <2>2 DEF Range
  <2>4. Range(file.lines[k].rows) \subseteq AllRows
    BY DEF AllRows
  <2>5. \A n \in DOMAIN file.lines[k].rows : file.lines[k].rows[n] \in Range(file.lines[k].rows)
    BY DEF Range
  <2>6. InSequences(file.lines[k].rows) /\ \A row \in Range(file.lines[k].rows) : row.kernel \in DOMAIN file.kernels
    BY <1>1 DEF IsFile
  <2>7. QED
    BY <2>2, <2>3, <2>4, <2>5, <2>6
<1>3. \A row \in AllRows : \E k \in DOMAIN file.lines : row \in Range(file.lines[k].rows)
  BY DEF AllRows
<1>4. QED
  BY <1>2, <1>3

LEMMA InitInv == Init => UnitsInv
<1> SUFFICES ASSUME Init
             PROVE  UnitsInv
  OBVIOUS
<1>1. PICK r \in Requests : file = r.file /\ kernel = r.kernel
  BY DEF Init
<1>2. IsRequest(r) /\ IsRequest([file |-> file, kernel |-> kernel])
  BY <1>1, RequestsAssumption DEF IsRequest
<1>3. file.info \in Seq(InfoUnit) /\ file.kernels \in Seq(Kernel)
  BY <1>1, <1>2 DEF IsRequest, IsFile
<1>4. NoAnswer \in [Offsets -> [line : Nat, kernel : 0 .. Len(file.kernels)]]
  <2>1. Absent \in [line : Nat, kernel : 0 .. Len(file.kernels)]
    BY <1>3 DEF Absent
  <2>2. QED
    BY <2>1 DEF NoAnswer
<1>5. TypeOK
  <2>1. 1 \in 1 .. Len(file.info) + 1
    BY <1>3
  <2>2. QED
    BY <1>2, <1>4, <2>1 DEF Init, TypeOK
<1>6. \A o \in Offsets : answers.pti[o] = Absent /\ answers.iga[o] = Absent
  BY DEF Init, NoAnswer
<1>7. PtiInv /\ IgaInv
  BY <1>6 DEF PtiInv, IgaInv
<1>8. WalkInv /\ LocationsInv
  BY DEF Init, WalkInv, LocationsInv
<1>9. QED
  BY <1>5, <1>7, <1>8 DEF UnitsInv

\* The answers of the PTI adapter stay right while they are the same.
LEMMA SamePti ==
  ASSUME PtiInv, file' = file, kernel' = kernel, answers'.pti = answers.pti
  PROVE  PtiInv'
<1>1. Offsets' = Offsets /\ \A o \in Offsets : RuntimeAddress(o)' = RuntimeAddress(o)
  BY DEF Offsets, RuntimeAddress
<1>2. RelocationsOf(file.lineRelocations)' = RelocationsOf(file.lineRelocations)
  BY DEF RelocationsOf
<1>3. ASSUME NEW o \in Offsets, answers'.pti[o] # Absent
      PROVE  /\ kernel \in DOMAIN file.kernels
             /\ (\E k \in DOMAIN file.lines : \E n \in DOMAIN file.lines[k].rows :
                   PtiAnswer(answers.pti[o], RuntimeAddress(o), k, n))'
  <2>1. kernel \in DOMAIN file.kernels
    BY <1>3 DEF PtiInv
  <2>2. PICK k \in DOMAIN file.lines : \E n \in DOMAIN file.lines[k].rows :
          PtiAnswer(answers.pti[o], RuntimeAddress(o), k, n)
    BY <1>3 DEF PtiInv
  <2>3. PICK n \in DOMAIN file.lines[k].rows : PtiAnswer(answers.pti[o], RuntimeAddress(o), k, n)
    BY <2>2
  <2>4. PtiAnswer(answers.pti[o], RuntimeAddress(o), k, n)'
    BY <1>1, <1>2, <2>3 DEF PtiAnswer, Holds, InFirst
  <2>5. QED
    BY <2>1, <2>3, <2>4
<1>4. QED
  BY <1>1, <1>3 DEF PtiInv

\* A step that neither answers nor moves iga's walk on leaves the answers right.
LEMMA SameAnswers ==
  ASSUME UnitsInv, UNCHANGED <<request, answers>>, phase = "done" => phase' = "done"
  PROVE  PtiInv' /\ IgaInv'
<1>1. file' = file /\ kernel' = kernel /\ answers' = answers
  BY DEF request
<1>2. PtiInv'
  BY <1>1, SamePti DEF UnitsInv
<1>3. KeptOf(DOMAIN file.info)' = KeptOf(DOMAIN file.info) /\ AllRows' = AllRows
  BY <1>1 DEF KeptOf, AllRows
<1>4. IgaInv'
  BY <1>1, <1>3 DEF UnitsInv, IgaInv, IgaAnswer, Offsets, RuntimeAddress
<1>5. QED
  BY <1>2, <1>4

\* What TypeOK says of request and answers stays true while they are the same.
LEMMA SameTypes ==
  ASSUME TypeOK, UNCHANGED <<request, answers, locations>>
  PROVE  /\ IsRequest([file |-> file, kernel |-> kernel])'
         /\ locations' \subseteq Row
         /\ LET LookUps == [Offsets -> [line : Nat, kernel : 0 .. Len(file.kernels)]]
            IN  (answers \in [pti : LookUps, iga : LookUps])'
<1>1. file' = file /\ kernel' = kernel /\ answers' = answers /\ locations' = locations
  BY DEF request
<1>2. QED
  BY <1>1 DEF TypeOK, Offsets

\* Giving up leads to the iga adapter.
LEMMA GiveUpStep ==
  ASSUME UnitsInv, phase \notin {"units", "done"}, GiveUp, UNCHANGED <<request, locations>>,
         padded' \in BOOLEAN
  PROVE  UnitsInv'
<1>1. /\ phase' = "symbol" /\ unit' = 1 /\ selected' = {} /\ answers' = answers
      /\ file' = file /\ kernel' = kernel /\ locations' = locations
  BY DEF GiveUp, request
<1>2. PtiInv' /\ IgaInv'
  BY <1>1, SameAnswers
<1>3. TypeOK'
  <2>1. file.info \in Seq(InfoUnit)
    BY FileFacts DEF UnitsInv
  <2>2. 1 \in 1 .. Len(file.info) + 1
    BY <2>1
  <2>3. QED
    BY <1>1, <2>2, SameTypes DEF UnitsInv, TypeOK
<1>4. WalkInv' /\ LocationsInv'
  BY <1>1 DEF UnitsInv, WalkInv, LocationsInv
<1>5. QED
  BY <1>2, <1>3, <1>4 DEF UnitsInv

LEMMA OpenStep == UnitsInv /\ Open => UnitsInv'
<1> SUFFICES ASSUME UnitsInv, Open
             PROVE  UnitsInv'
  OBVIOUS
<1>1. /\ phase = "open" /\ file' = file /\ kernel' = kernel /\ locations' = locations
      /\ padded' = file.stringsAtEnd /\ padded' \in BOOLEAN
  BY FileFacts DEF UnitsInv, Open, request, IsFile
<1>2. CASE kernel \notin DOMAIN file.kernels
  BY <1>1, <1>2, GiveUpStep DEF Open, request
<1>3. CASE kernel \in DOMAIN file.kernels
  <2>1. phase' = "info" /\ UNCHANGED <<unit, attribute, selected, answers>>
    BY <1>3 DEF Open
  <2>2. PtiInv' /\ IgaInv'
    BY <1>1, <2>1, SameAnswers DEF request
  <2>3. TypeOK'
    BY <1>1, <2>1, SameTypes DEF UnitsInv, TypeOK, request
  <2>4. WalkInv' /\ LocationsInv'
    BY <1>1, <1>3, <2>1 DEF UnitsInv, WalkInv, LocationsInv
  <2>5. QED
    BY <2>2, <2>3, <2>4 DEF UnitsInv
<1>4. QED
  BY <1>2, <1>3

LEMMA WalkInfoStep == UnitsInv /\ WalkInfo => UnitsInv'
<1> SUFFICES ASSUME UnitsInv, WalkInfo
             PROVE  UnitsInv'
  OBVIOUS
<1>1. /\ phase = "info" /\ unit <= Len(file.info) /\ file' = file /\ kernel' = kernel
      /\ locations' = locations /\ padded' = padded /\ padded \in BOOLEAN
  BY DEF UnitsInv, TypeOK, WalkInfo, Walk, request
<1>2. CASE GiveUp
  BY <1>1, <1>2, GiveUpStep DEF request
<1>3. CASE ~ GiveUp
  <2>1. /\ unit' = unit + 1 /\ UNCHANGED <<phase, attribute, answers>>
        /\ selected' \in {selected, selected \union {unit}}
    BY <1>3 DEF WalkInfo, Walk
  <2>2. PtiInv' /\ IgaInv'
    BY <1>1, <2>1, SameAnswers DEF request
  <2>3. TypeOK'
    <3>1. file.info \in Seq(InfoUnit)
      BY FileFacts DEF UnitsInv
    <3>2. unit \in DOMAIN file.info /\ unit + 1 \in 1 .. Len(file.info) + 1
      BY <1>1, <3>1 DEF UnitsInv, TypeOK
    <3>3. selected' \subseteq DOMAIN file.info
      BY <1>1, <2>1, <3>2 DEF UnitsInv, TypeOK
    <3>4. QED
      BY <1>1, <2>1, <3>2, <3>3, SameTypes DEF UnitsInv, TypeOK, request
  <2>4. WalkInv' /\ LocationsInv'
    BY <1>1, <2>1 DEF UnitsInv, WalkInv, LocationsInv
  <2>5. QED
    BY <2>2, <2>3, <2>4 DEF UnitsInv
<1>4. QED
  BY <1>2, <1>3

LEMMA WalkLinesStep == UnitsInv /\ WalkLines => UnitsInv'
<1> SUFFICES ASSUME UnitsInv, WalkLines
             PROVE  UnitsInv'
  OBVIOUS
<1>1. /\ phase = "lines" /\ unit <= Len(file.lines) /\ file' = file /\ kernel' = kernel
      /\ locations' = locations /\ padded' = padded /\ padded \in BOOLEAN
  BY DEF UnitsInv, TypeOK, WalkLines, Walk, request
<1>2. CASE GiveUp
  BY <1>1, <1>2, GiveUpStep DEF request
<1>3. CASE ~ GiveUp
  <2>1. /\ unit' = unit + 1 /\ UNCHANGED <<phase, attribute, answers>>
        /\ selected' = IF Holds(file.lines, unit, file.lineRelocations) THEN selected \union {unit} ELSE selected
    BY <1>3 DEF WalkLines, Walk
  <2>2. PtiInv' /\ IgaInv'
    BY <1>1, <2>1, SameAnswers DEF request
  <2>3. TypeOK'
    <3>1. file.lines \in Seq(LineUnit)
      BY FileFacts DEF UnitsInv
    <3>2. unit \in DOMAIN file.lines /\ unit + 1 \in 1 .. Len(file.lines) + 1
      BY <1>1, <3>1 DEF UnitsInv, TypeOK
    <3>3. selected' \subseteq DOMAIN file.lines
      BY <1>1, <2>1, <3>2 DEF UnitsInv, TypeOK
    <3>4. QED
      BY <1>1, <2>1, <3>2, <3>3, SameTypes DEF UnitsInv, TypeOK, request
  <2>4. WalkInv'
    <3>1. \A k \in selected' : Holds(file.lines, k, file.lineRelocations)
      BY <1>1, <2>1 DEF UnitsInv, WalkInv
    <3>2. QED
      BY <1>1, <2>1, <3>1 DEF UnitsInv, WalkInv, Holds, RelocationsOf
  <2>5. LocationsInv'
    BY <1>1, <2>1 DEF UnitsInv, LocationsInv
  <2>6. QED
    BY <2>2, <2>3, <2>4, <2>5 DEF UnitsInv
<1>4. QED
  BY <1>2, <1>3

LEMMA SelectInfoStep == UnitsInv /\ SelectInfo => UnitsInv'
<1> SUFFICES ASSUME UnitsInv, SelectInfo
             PROVE  UnitsInv'
  OBVIOUS
<1>1. /\ phase = "info" /\ file' = file /\ kernel' = kernel
      /\ locations' = locations /\ padded' = padded /\ padded \in BOOLEAN
  BY DEF UnitsInv, TypeOK, SelectInfo, request
<1>2. CASE Cardinality(selected) # 1
  BY <1>1, <1>2, GiveUpStep DEF SelectInfo, request
<1>3. CASE Cardinality(selected) = 1
  <2>1. phase' = "comp_dir" /\ UNCHANGED <<unit, selected, answers>>
    BY <1>3 DEF SelectInfo, TakeInfo
  <2>2. PtiInv' /\ IgaInv'
    BY <1>1, <2>1, SameAnswers DEF request
  <2>3. TypeOK'
    BY <1>1, <1>3, <2>1, SameTypes DEF UnitsInv, TypeOK, request
  <2>4. WalkInv' /\ LocationsInv'
    BY <1>1, <2>1 DEF UnitsInv, WalkInv, LocationsInv
  <2>5. QED
    BY <2>2, <2>3, <2>4 DEF UnitsInv
<1>4. QED
  BY <1>2, <1>3

LEMMA ReadAttributeStep == UnitsInv /\ ReadAttribute => UnitsInv'
<1> SUFFICES ASSUME UnitsInv, ReadAttribute
             PROVE  UnitsInv'
  OBVIOUS
<1>1. /\ phase = "comp_dir" /\ file' = file /\ kernel' = kernel
      /\ locations' = locations /\ padded' = padded /\ padded \in BOOLEAN
  BY DEF UnitsInv, TypeOK, ReadAttribute, request
<1>2. CASE GiveUp
  BY <1>1, <1>2, GiveUpStep DEF request
<1>3. CASE ~ GiveUp
  <2>1. /\ answers' = answers
        /\ \/ phase' = "lines" /\ unit' = 1 /\ selected' = {}
           \/ phase' \in {"comp_dir", "aborted"} /\ unit' = unit /\ selected' = selected
    BY <1>1, <1>3 DEF ReadAttribute, Abort
  <2>2. PtiInv' /\ IgaInv'
    BY <1>1, <2>1, SameAnswers DEF request
  <2>3. TypeOK'
    <3>1. file.lines \in Seq(LineUnit)
      BY FileFacts DEF UnitsInv
    <3>2. 1 \in 1 .. Len(file.lines) + 1
      BY <3>1
    <3>3. QED
      BY <1>1, <2>1, <3>2, SameTypes DEF UnitsInv, TypeOK, request
  <2>4. WalkInv' /\ LocationsInv'
    BY <1>1, <2>1 DEF UnitsInv, WalkInv, LocationsInv
  <2>5. QED
    BY <2>2, <2>3, <2>4 DEF UnitsInv
<1>4. QED
  BY <1>2, <1>3

LEMMA FindSymbolStep == UnitsInv /\ FindSymbol => UnitsInv'
<1> SUFFICES ASSUME UnitsInv, FindSymbol
             PROVE  UnitsInv'
  OBVIOUS
<1>1. /\ phase = "symbol" /\ file' = file /\ kernel' = kernel /\ unit' = unit /\ answers' = answers
      /\ locations' = locations /\ padded' = padded /\ selected' = selected
      /\ phase' \in {"units", "done"} /\ (phase' = "units" => kernel \in DOMAIN file.kernels)
  BY DEF FindSymbol, request
<1>2. PtiInv' /\ IgaInv'
  BY <1>1, SameAnswers DEF request
<1>3. TypeOK'
  BY <1>1, SameTypes DEF UnitsInv, TypeOK, request
<1>4. WalkInv'
  BY <1>1 DEF UnitsInv, WalkInv
<1>5. LocationsInv'
  <2>1. locations = {} /\ unit = 1
    BY <1>1 DEF UnitsInv, LocationsInv
  <2>2. KeptOf(1 .. unit - 1)' = {}
    BY <1>1, <2>1 DEF KeptOf
  <2>3. QED
    BY <1>1, <2>1, <2>2 DEF LocationsInv
<1>6. QED
  BY <1>2, <1>3, <1>4, <1>5 DEF UnitsInv

LEMMA ReadUnitStep == UnitsInv /\ ReadUnit => UnitsInv'
<1> SUFFICES ASSUME UnitsInv, ReadUnit
             PROVE  UnitsInv'
  OBVIOUS
<1> DEFINE lines == file.lines[file.info[unit].lines]
           kept  == IF lines.fits THEN {row \in Range(lines.rows) : row.line > 0} ELSE {}
<1>1. /\ phase = "units" /\ file' = file /\ kernel' = kernel /\ answers' = answers /\ phase' = phase
      /\ padded' = padded /\ selected' = selected /\ unit' = unit + 1 /\ unit <= Len(file.info)
      /\ locations' = locations \union kept
  BY DEF ReadUnit, KeepRows, request
<1>2. PtiInv' /\ IgaInv'
  BY <1>1, SameAnswers DEF request
<1>3. file.info \in Seq(InfoUnit) /\ unit \in DOMAIN file.info /\ unit \in Nat
  BY <1>1, FileFacts DEF UnitsInv, TypeOK
<1>4. file.info[unit].lines \in DOMAIN file.lines
  BY <1>3, FileFacts DEF UnitsInv
<1>5. Range(lines.rows) \subseteq AllRows /\ AllRows \subseteq Row
  BY <1>4, RowFacts DEF UnitsInv
<1>6. LocationsInv'
  <2>1. locations = KeptOf(1 .. unit - 1)
    BY <1>1 DEF UnitsInv, LocationsInv
  <2>2. 1 .. unit = (1 .. unit - 1) \union {unit} /\ unit' - 1 = unit
    BY <1>1, <1>3
  <2>3. KeptOf(1 .. unit) = KeptOf(1 .. unit - 1) \union kept
    BY <1>5, <2>2 DEF KeptOf
  <2>4. KeptOf(1 .. unit - 1)' = KeptOf(1 .. unit)
    BY <1>1, <2>2 DEF KeptOf, AllRows
  <2>5. QED
    BY <1>1, <2>1, <2>3, <2>4 DEF LocationsInv
<1>7. TypeOK'
  <2>1. locations' \subseteq Row
    BY <1>1, <1>5 DEF UnitsInv, TypeOK
  <2>2. unit' \in 1 .. Len(file.info) + 1
    BY <1>1, <1>3
  <2>3. QED
    BY <1>1, <2>1, <2>2 DEF UnitsInv, TypeOK, Offsets
<1>8. WalkInv'
  BY <1>1 DEF UnitsInv, WalkInv
<1>9. QED
  BY <1>2, <1>6, <1>7, <1>8 DEF UnitsInv

\* What a look-up in rows of the file finds for an offset.
LEMMA AnswerFacts ==
  ASSUME TypeOK, kernel \in DOMAIN file.kernels, NEW rows, rows \subseteq AllRows,
         NEW table \in Tables(rows), NEW o \in Offsets
  PROVE  LET below == Found(table, RuntimeAddress(o))
             row   == table[Max(below)]
         IN  below # {} =>
               /\ row \in rows /\ row.address <= RuntimeAddress(o)
               /\ \A r \in rows : r.address <= RuntimeAddress(o) => r.address <= row.address
               /\ Location(row) \in [line : Nat, kernel : 0 .. Len(file.kernels)]
<1>1. RuntimeAddress(o) \in Nat
  <2>1. file.kernels[kernel].address \in Nat /\ file.kernels[kernel].size \in Nat
    BY FileFacts
  <2>2. QED
    BY <2>1 DEF RuntimeAddress, Offsets
<1>2. rows \subseteq Row
  BY RowFacts
<1>3. ASSUME NEW r \in rows
      PROVE  Location(r) \in [line : Nat, kernel : 0 .. Len(file.kernels)]
  <2>1. r \in Row /\ r.kernel \in DOMAIN file.kernels /\ file.kernels \in Seq(Kernel)
    BY <1>2, RowFacts, FileFacts
  <2>2. r.line \in Nat /\ r.kernel \in 0 .. Len(file.kernels)
    BY <2>1 DEF Row
  <2>3. QED
    BY <2>2 DEF Location
<1>4. QED
  BY <1>1, <1>2, <1>3, LookUp

LEMMA MapStep == UnitsInv /\ Map => UnitsInv'
<1> SUFFICES ASSUME UnitsInv, Map
             PROVE  UnitsInv'
  OBVIOUS
<1> DEFINE k     == Max(selected)
           rows  == file.lines[k].rows
<1>1. /\ phase = "lines" /\ file' = file /\ kernel' = kernel /\ kernel \in DOMAIN file.kernels
      /\ locations' = locations /\ padded' = padded /\ padded \in BOOLEAN
  BY DEF UnitsInv, TypeOK, WalkInv, Map, request
<1>2. CASE GiveUp
  BY <1>1, <1>2, GiveUpStep DEF request
<1>3. CASE ~ GiveUp
  <2>1. /\ Cardinality(selected) = 1 /\ phase' = "symbol" /\ unit' = 1 /\ selected' = {}
        /\ \E table \in Tables(FirstSequence(rows)) :
             answers' = Answer("pti", table, Found, LAMBDA row : ~ row.end)
    BY <1>3 DEF Map
  <2>2. PICK table \in Tables(FirstSequence(rows)) :
          answers' = Answer("pti", table, Found, LAMBDA row : ~ row.end)
    BY <2>1
  <2> DEFINE below(o) == Found(table, RuntimeAddress(o))
             row(o)   == table[Max(below(o))]
             found    == [o \in Offsets |-> IF below(o) = {} THEN Absent
                            ELSE IF ~ row(o).end THEN Location(row(o)) ELSE Absent]
             LookUps  == [Offsets -> [line : Nat, kernel : 0 .. Len(file.kernels)]]
  <2>3. answers' = [answers EXCEPT !["pti"] = found]
    BY <2>2 DEF Answer, RuntimeAddress
  <2>4. k \in DOMAIN file.lines /\ Holds(file.lines, k, file.lineRelocations)
    <3>1. /\ file.lines \in Seq(LineUnit) /\ Len(file.lines) \in Nat
          /\ selected \subseteq DOMAIN file.lines /\ DOMAIN file.lines = 1 .. Len(file.lines)
      BY <1>1, FileFacts DEF UnitsInv, TypeOK
    <3>2. k \in selected
      BY <2>1, <3>1, OneSelected
    <3>3. QED
      BY <1>1, <3>1, <3>2 DEF UnitsInv, WalkInv
  <2>5. FirstSequence(rows) = {rows[m] : m \in {m \in DOMAIN rows : InFirst(rows, m)}}
    BY DEF FirstSequence, InFirst
  <2>6. FirstSequence(rows) \subseteq AllRows
    BY <2>4, <2>5, RowFacts DEF UnitsInv
  <2>7. ASSUME NEW o \in Offsets
        PROVE  below(o) # {} =>
                 /\ row(o) \in FirstSequence(rows) /\ row(o).address <= RuntimeAddress(o)
                 /\ \A r \in FirstSequence(rows) : r.address <= RuntimeAddress(o) => r.address <= row(o).address
                 /\ Location(row(o)) \in [line : Nat, kernel : 0 .. Len(file.kernels)]
    BY <1>1, <2>6, AnswerFacts DEF UnitsInv
  <2>8. Absent \in [line : Nat, kernel : 0 .. Len(file.kernels)]
    BY FileFacts DEF UnitsInv, Absent
  <2>9. found \in LookUps
    BY <2>7, <2>8
  <2>10. answers \in [pti : LookUps, iga : LookUps]
    BY DEF UnitsInv, TypeOK
  <2>11. answers' \in [pti : LookUps, iga : LookUps] /\ answers'.pti = found /\ answers'.iga = answers.iga
    BY <2>3, <2>9, <2>10
  <2>12. TypeOK'
    <3>1. file.info \in Seq(InfoUnit)
      BY FileFacts DEF UnitsInv
    <3>2. 1 \in 1 .. Len(file.info) + 1
      BY <3>1
    <3>3. Offsets' = Offsets
      BY <1>1 DEF Offsets
    <3>4. QED
      BY <1>1, <2>1, <2>11, <3>2, <3>3 DEF UnitsInv, TypeOK
  <2>13. ASSUME NEW o \in Offsets, found[o] # Absent
         PROVE  \E n \in DOMAIN rows : PtiAnswer(found[o], RuntimeAddress(o), k, n)
    <3>1. below(o) # {} /\ ~ row(o).end /\ found[o] = Location(row(o))
      BY <2>13
    <3>2. PICK n \in DOMAIN rows : InFirst(rows, n) /\ row(o) = rows[n]
      BY <2>5, <2>7, <3>1
    <3>3. \A m \in DOMAIN rows : InFirst(rows, m) => rows[m] \in FirstSequence(rows)
      BY <2>5
    <3>4. QED
      BY <2>4, <2>7, <3>1, <3>2, <3>3 DEF PtiAnswer
  <2>14. PtiInv'
    <3>1. \A o \in Offsets : answers'.pti[o] # Absent =>
            /\ kernel \in DOMAIN file.kernels
            /\ \E i \in DOMAIN file.lines : \E n \in DOMAIN file.lines[i].rows :
                 PtiAnswer(answers'.pti[o], RuntimeAddress(o), i, n)
      BY <1>1, <2>4, <2>11, <2>13
    <3>2. QED
      BY <1>1, <3>1 DEF PtiInv, PtiAnswer, Holds, RelocationsOf, Offsets, RuntimeAddress, InFirst
  <2>15. IgaInv'
    <3>1. \A o \in Offsets : answers'.iga[o] = Absent
      BY <1>1, <2>11 DEF UnitsInv, IgaInv
    <3>2. QED
      BY <1>1, <3>1 DEF IgaInv, Offsets
  <2>16. WalkInv' /\ LocationsInv'
    BY <1>1, <2>1 DEF UnitsInv, WalkInv, LocationsInv
  <2>17. QED
    BY <2>12, <2>14, <2>15, <2>16 DEF UnitsInv
<1>4. QED
  BY <1>2, <1>3

LEMMA ResolveStep == UnitsInv /\ Resolve => UnitsInv'
<1> SUFFICES ASSUME UnitsInv, Resolve
             PROVE  UnitsInv'
  OBVIOUS
<1>1. /\ phase = "units" /\ file' = file /\ kernel' = kernel /\ kernel \in DOMAIN file.kernels
      /\ locations' = locations /\ padded' = padded /\ selected' = selected /\ unit' = unit
      /\ phase' = "done" /\ unit > Len(file.info)
  BY DEF UnitsInv, WalkInv, Resolve, ResolveBy, request
<1>2. PICK table \in Tables(locations) :
        answers' = Answer("iga", table, Found, LAMBDA row : TRUE)
  BY DEF Resolve, ResolveBy
<1> DEFINE below(o) == Found(table, RuntimeAddress(o))
           row(o)   == table[Max(below(o))]
           found    == [o \in Offsets |-> IF below(o) = {} THEN Absent ELSE Location(row(o))]
           LookUps  == [Offsets -> [line : Nat, kernel : 0 .. Len(file.kernels)]]
<1>3. answers' = [answers EXCEPT !["iga"] = found]
  BY <1>2 DEF Answer, RuntimeAddress
<1>4. locations = KeptOf(DOMAIN file.info)
  <2>1. file.info \in Seq(InfoUnit)
    BY FileFacts DEF UnitsInv
  <2>2. 1 .. unit - 1 = DOMAIN file.info
    BY <1>1, <2>1 DEF UnitsInv, TypeOK
  <2>3. QED
    BY <1>1, <2>2 DEF UnitsInv, LocationsInv
<1>5. locations \subseteq AllRows /\ \A r \in locations : r.line > 0
  BY <1>4 DEF KeptOf
<1>6. ASSUME NEW o \in Offsets
      PROVE  below(o) # {} =>
               /\ row(o) \in locations /\ row(o).address <= RuntimeAddress(o)
               /\ \A r \in locations : r.address <= RuntimeAddress(o) => r.address <= row(o).address
               /\ Location(row(o)) \in [line : Nat, kernel : 0 .. Len(file.kernels)]
  BY <1>1, <1>5, AnswerFacts DEF UnitsInv
<1>7. Absent \in [line : Nat, kernel : 0 .. Len(file.kernels)]
  BY FileFacts DEF UnitsInv, Absent
<1>8. found \in LookUps
  BY <1>6, <1>7
<1>9. answers \in [pti : LookUps, iga : LookUps]
  BY DEF UnitsInv, TypeOK
<1>10. answers' \in [pti : LookUps, iga : LookUps] /\ answers'.iga = found /\ answers'.pti = answers.pti
  BY <1>3, <1>8, <1>9
<1>11. Offsets' = Offsets
  BY <1>1 DEF Offsets
<1>12. TypeOK'
  BY <1>1, <1>10, <1>11 DEF UnitsInv, TypeOK
<1>13. PtiInv'
  BY <1>1, <1>10, SamePti DEF UnitsInv
<1>14. ASSUME NEW o \in Offsets, found[o] # Absent
       PROVE  \E r \in AllRows : IgaAnswer(found[o], RuntimeAddress(o), r)
  <2>1. below(o) # {} /\ found[o] = Location(row(o))
    BY <1>14
  <2>2. row(o) \in AllRows /\ IgaAnswer(found[o], RuntimeAddress(o), row(o))
    BY <1>4, <1>5, <1>6, <2>1 DEF IgaAnswer
  <2>3. QED
    BY <2>2
<1>15. IgaInv'
  <2>1. \A o \in Offsets : answers'.iga[o] # Absent =>
          \E r \in AllRows : IgaAnswer(answers'.iga[o], RuntimeAddress(o), r)
    BY <1>10, <1>14
  <2>2. QED
    BY <1>1, <2>1 DEF IgaInv, IgaAnswer, KeptOf, AllRows, Offsets, RuntimeAddress
<1>16. WalkInv' /\ LocationsInv'
  BY <1>1 DEF WalkInv, LocationsInv
<1>17. QED
  BY <1>12, <1>13, <1>15, <1>16 DEF UnitsInv

LEMMA StutterStep == UnitsInv /\ UNCHANGED vars => UnitsInv'
<1> SUFFICES ASSUME UnitsInv, UNCHANGED vars
             PROVE  UnitsInv'
  OBVIOUS
<1>1. UNCHANGED <<request, answers, locations, phase, padded, unit, selected>> /\ file' = file /\ kernel' = kernel
  BY DEF vars, request
<1>2. PtiInv' /\ IgaInv'
  BY <1>1, SameAnswers
<1>3. TypeOK'
  BY <1>1, SameTypes DEF UnitsInv, TypeOK
<1>4. WalkInv'
  BY <1>1 DEF UnitsInv, WalkInv, Holds, RelocationsOf
<1>5. LocationsInv'
  BY <1>1 DEF UnitsInv, LocationsInv, KeptOf, AllRows
<1>6. QED
  BY <1>2, <1>3, <1>4, <1>5 DEF UnitsInv

LEMMA UnitsCorrect == Spec => []UnitsInv
<1>1. UnitsInv /\ [Next]_vars => UnitsInv'
  BY OpenStep, WalkInfoStep, SelectInfoStep, ReadAttributeStep, WalkLinesStep, MapStep,
     FindSymbolStep, ReadUnitStep, ResolveStep, StutterStep DEF Next
<1>2. QED
  BY InitInv, <1>1, PTL DEF Spec

-----------------------------------------------------------------------------
(* The properties.                                                         *)

\* Every variable holds a value of its type, in every state, for all requests:
\* the walks of elf_parser.cpp stay in their sections, and what the adapters
\* answer is no location or that of a row.
THEOREM TypeCorrect == Spec => []TypeOK
<1>1. UnitsInv => TypeOK
  BY DEF UnitsInv
<1>2. QED
  BY UnitsCorrect, <1>1, PTL

\* A row that is not the end of its sequence is below the end of its kernel,
\* and the end of the first sequence is of the same kernel.
LEMMA SequenceEnd ==
  ASSUME TypeOK, NEW k \in DOMAIN file.lines, NEW n \in DOMAIN file.lines[k].rows,
         ~ file.lines[k].rows[n].end
  PROVE  LET rows == file.lines[k].rows
         IN  \E m \in DOMAIN rows :
               /\ rows[m].end /\ rows[m].kernel = rows[n].kernel /\ rows[n].address < rows[m].address
               /\ InFirst(rows, n) => InFirst(rows, m)
<1> DEFINE rows == file.lines[k].rows
<1>1. rows \in Seq(Row) /\ InSequences(rows)
  BY RowFacts
<1>2. PICK m \in DOMAIN rows :
        /\ n < m /\ rows[m].end /\ \A j \in n .. m - 1 : ~ rows[j].end
        /\ rows[m].kernel = rows[n].kernel /\ rows[n].address < rows[m].address
  BY <1>1 DEF InSequences
<1>3. InFirst(rows, n) => InFirst(rows, m)
  <2>1. n \in Nat /\ m \in Nat
    BY <1>1
  <2>2. \A j \in 1 .. m - 1 : j \in 1 .. n - 1 \/ j \in n .. m - 1
    BY <2>1
  <2>3. QED
    BY <1>2, <2>2 DEF InFirst
<1>4. QED
  BY <1>2, <1>3

\* With addresses that tell kernels apart, a row lies in its kernel, and an
\* offset is an address of the kernel asked for and of no other.
LEMMA InItsKernel ==
  ASSUME TypeOK, Relocated, kernel \in DOMAIN file.kernels
  PROVE  /\ \A row \in AllRows :
              LET own == file.kernels[row.kernel]
              IN  /\ row.kernel \in DOMAIN file.kernels /\ row.address \in Nat
                  /\ own.address \in Nat /\ own.size \in Nat
                  /\ own.address <= row.address /\ row.address <= own.address + own.size
                  /\ row.kernel # kernel =>
                       \/ own.address + own.size <= file.kernels[kernel].address
                       \/ file.kernels[kernel].address + file.kernels[kernel].size <= own.address
         /\ \A o \in Offsets :
              /\ RuntimeAddress(o) \in Nat /\ file.kernels[kernel].address <= RuntimeAddress(o)
              /\ RuntimeAddress(o) < file.kernels[kernel].address + file.kernels[kernel].size
         /\ file.kernels[kernel].address \in Nat /\ file.kernels[kernel].size \in Nat
<1>1. file.kernels[kernel].address \in Nat /\ file.kernels[kernel].size \in Nat
  BY FileFacts
<1>2. ASSUME NEW o \in Offsets
      PROVE  /\ RuntimeAddress(o) \in Nat /\ file.kernels[kernel].address <= RuntimeAddress(o)
             /\ RuntimeAddress(o) < file.kernels[kernel].address + file.kernels[kernel].size
  BY <1>1 DEF Offsets, RuntimeAddress
<1>3. ASSUME NEW row \in AllRows
      PROVE  LET own == file.kernels[row.kernel]
             IN  /\ row.kernel \in DOMAIN file.kernels /\ row.address \in Nat
                 /\ own.address \in Nat /\ own.size \in Nat
                 /\ own.address <= row.address /\ row.address <= own.address + own.size
                 /\ row.kernel # kernel =>
                      \/ own.address + own.size <= file.kernels[kernel].address
                      \/ file.kernels[kernel].address + file.kernels[kernel].size <= own.address
  <2>1. row \in Row /\ row.kernel \in DOMAIN file.kernels
    BY RowFacts
  <2>2. row.address \in Nat /\ file.kernels[row.kernel].address \in Nat /\ file.kernels[row.kernel].size \in Nat
    BY <2>1, FileFacts DEF Row
  <2>3. QED
    BY <2>1, <2>2 DEF Relocated
<1>4. QED
  BY <1>1, <1>2, <1>3

\* The PTI adapter never answers with a location of another kernel, where
\* addresses tell kernels apart or every line unit is of one kernel: what
\* selecting units by relocations in elf_parser.cpp is to achieve.
THEOREM PtiKeepsToItsKernel == Spec => []PtiNeverAnswersForASibling
<1>1. UnitsInv => PtiNeverAnswersForASibling
  <2> SUFFICES ASSUME UnitsInv, Relocated \/ OneKernelPerUnit,
                      NEW o \in Offsets, answers.pti[o] # Absent
               PROVE  answers.pti[o].kernel = kernel
    BY DEF PtiNeverAnswersForASibling
  <2>1. TypeOK /\ kernel \in DOMAIN file.kernels
    BY DEF UnitsInv, PtiInv
  <2>2. PICK k \in DOMAIN file.lines : \E n \in DOMAIN file.lines[k].rows :
          PtiAnswer(answers.pti[o], RuntimeAddress(o), k, n)
    BY DEF UnitsInv, PtiInv
  <2> DEFINE rows == file.lines[k].rows
  <2>3. PICK n \in DOMAIN rows : PtiAnswer(answers.pti[o], RuntimeAddress(o), k, n)
    BY <2>2
  <2>4. answers.pti[o].kernel = rows[n].kernel
    <3>1. answers.pti[o] = Location(rows[n])
      BY <2>3 DEF PtiAnswer
    <3>2. QED
      BY <3>1 DEF Location
  <2>5. CASE Relocated
    <3>1. PICK m \in DOMAIN rows :
            /\ rows[m].kernel = rows[n].kernel /\ rows[n].address < rows[m].address
            /\ InFirst(rows, m)
      BY <2>1, <2>3, SequenceEnd DEF PtiAnswer
    <3>2. rows[n] \in AllRows /\ rows[m] \in AllRows
      BY <2>1, RowFacts
    <3>3. rows[n].address \in Nat /\ rows[m].address \in Nat /\ RuntimeAddress(o) \in Nat
      BY <2>1, <2>5, <3>2, InItsKernel
    <3>4. rows[n].address <= RuntimeAddress(o) /\ RuntimeAddress(o) < rows[m].address
      BY <2>3, <3>1, <3>3 DEF PtiAnswer
    <3> DEFINE own   == file.kernels[rows[n].kernel]
               mine  == file.kernels[kernel]
    <3>5. /\ own.address \in Nat /\ own.size \in Nat
          /\ own.address <= rows[n].address /\ rows[m].address <= own.address + own.size
          /\ rows[n].kernel # kernel =>
               own.address + own.size <= mine.address \/ mine.address + mine.size <= own.address
      BY <2>1, <2>5, <3>1, <3>2, InItsKernel
    <3>6. /\ mine.address <= RuntimeAddress(o) /\ RuntimeAddress(o) < mine.address + mine.size
          /\ mine.address \in Nat /\ mine.size \in Nat
      BY <2>1, <2>5, InItsKernel, FileFacts
    <3> HIDE DEF own, mine
    <3>7. rows[n].kernel = kernel
      BY <3>3, <3>4, <3>5, <3>6
    <3>8. QED
      BY <2>4, <3>7
  <2>6. CASE OneKernelPerUnit
    <3>1. rows[n] \in Range(rows)
      BY DEF Range
    <3>2. PICK r \in RelocationsOf(file.lineRelocations) :
            r.offset > Offset(file.lines, k) /\ r.offset < Offset(file.lines, k) + file.lines[k].size
      BY <2>3 DEF PtiAnswer, Holds
    <3>3. r \in file.lineRelocations /\ r.kernel = kernel
      BY DEF RelocationsOf
    <3>4. r.kernel = rows[n].kernel
      BY <2>6, <3>1, <3>2, <3>3 DEF OneKernelPerUnit
    <3>5. QED
      BY <2>4, <3>3, <3>4
  <2>7. QED
    BY <2>5, <2>6
<1>2. QED
  BY UnitsCorrect, <1>1, PTL

\* Where the iga adapter answers with a location of another kernel, that kernel's
\* sequence ends at the very address of the row the adapter passed over, or there
\* is no such row: what leaving out rows of line 0 in iga_adapter.cpp can cause.
THEOREM IgaStrays == Spec => []IgaStraysOnlyBeforeItsFirstRow
<1>1. UnitsInv => IgaStraysOnlyBeforeItsFirstRow
  <2> SUFFICES ASSUME UnitsInv, Relocated, NEW o \in Offsets,
                      answers.iga[o] # Absent, answers.iga[o].kernel # kernel,
                      NEW j \in DOMAIN file.info,
                      NEW own \in Range(file.lines[file.info[j].lines].rows),
                      file.lines[file.info[j].lines].fits, own.kernel = kernel, own.line > 0,
                      own.address <= RuntimeAddress(o)
               PROVE  \E other \in AllRows : other.end /\ other.kernel # kernel
                                              /\ other.address = own.address
    BY DEF IgaStraysOnlyBeforeItsFirstRow
  <2>1. TypeOK /\ kernel \in DOMAIN file.kernels
    BY DEF UnitsInv, IgaInv
  <2>2. PICK row \in AllRows : IgaAnswer(answers.iga[o], RuntimeAddress(o), row)
    BY DEF UnitsInv, IgaInv
  <2>3. row.kernel # kernel /\ row.address <= RuntimeAddress(o)
    BY <2>2 DEF IgaAnswer, Location
  <2>4. own \in AllRows
    BY <2>1, FileFacts, RowFacts
  <2>5. own.address <= row.address
    <3>1. own \in KeptOf(DOMAIN file.info)
      BY <2>4 DEF KeptOf
    <3>2. QED
      BY <2>2, <3>1 DEF IgaAnswer
  <2> DEFINE sibling == file.kernels[row.kernel]
             end     == sibling.address + sibling.size
  <2>6. /\ row.address = own.address /\ row.address = end
        /\ end \in Nat /\ row.kernel \in DOMAIN file.kernels
    <3> DEFINE mine == file.kernels[kernel]
    <3>1. /\ row.kernel \in DOMAIN file.kernels /\ row.address \in Nat
          /\ sibling.address \in Nat /\ sibling.size \in Nat
          /\ sibling.address <= row.address /\ row.address <= end
          /\ (end <= mine.address \/ mine.address + mine.size <= sibling.address)
      BY <2>1, <2>3, InItsKernel
    <3>2. own.address \in Nat /\ mine.address <= own.address
      BY <2>1, <2>4, InItsKernel
    <3>3. RuntimeAddress(o) \in Nat /\ RuntimeAddress(o) < mine.address + mine.size
          /\ mine.address \in Nat /\ mine.size \in Nat
      BY <2>1, InItsKernel
    <3>4. QED
      BY <2>3, <2>5, <3>1, <3>2, <3>3
  <2>7. row.end
    <3>1. SUFFICES ASSUME ~ row.end PROVE FALSE
      OBVIOUS
    <3>2. PICK k \in DOMAIN file.lines : row \in Range(file.lines[k].rows)
      BY DEF AllRows
    <3>3. PICK n \in DOMAIN file.lines[k].rows : row = file.lines[k].rows[n]
      BY <3>2 DEF Range
    <3>4. PICK m \in DOMAIN file.lines[k].rows :
            /\ file.lines[k].rows[m].kernel = row.kernel /\ row.address < file.lines[k].rows[m].address
      BY <2>1, <3>1, <3>3, SequenceEnd
    <3>5. file.lines[k].rows[m] \in AllRows
      BY <2>1, RowFacts
    <3>6. file.lines[k].rows[m].address \in Nat /\ file.lines[k].rows[m].address <= end
      BY <2>1, <3>4, <3>5, InItsKernel
    <3>7. QED
      BY <2>6, <3>4, <3>6
  <2>8. QED
    BY <2>3, <2>6, <2>7
<1>2. QED
  BY UnitsCorrect, <1>1, PTL

-----------------------------------------------------------------------------
(* Where the files are as the reference relies on.                         *)

Regular == KernelsInOrder /\ kernel \in DOMAIN file.kernels

\* The row the reference would have if it looked an address up in the file the
\* adapters read.
RowBelow(address) ==
  LET rows  == file.lines[kernel].rows
      below == {n \in DOMAIN rows : rows[n].address <= address}
      top   == {n \in below : \A m \in below : rows[m].address <= rows[n].address}
  IN  Max(top \union {0})
MapsBelow(address) ==
  RowBelow(address) # 0 /\ ~ file.lines[kernel].rows[RowBelow(address)].end

NamesCompDir(a) == a = [name |-> "comp_dir", form |-> "string"]

\* The walk over .debug_line has read what it has passed, and PTI answers only
\* after it has read all.
ReadInv ==
  /\ phase = "lines" => \A k \in 1 .. unit - 1 : file.lines[k].fits
  /\ \A o \in Offsets : answers.pti[o] # Absent => \A k \in DOMAIN file.lines : file.lines[k].fits

\* Of the units the parser has passed it has selected the kernel's, so it never
\* gives up but for a unit it cannot read, and finds what the reference finds.
OfferInv ==
  Regular /\ Supported =>
    /\ phase \in {"open", "info", "lines"} => selected = {k \in 1 .. unit - 1 : k = kernel}
    /\ phase = "comp_dir" =>
         /\ selected = {kernel} /\ attribute \in Nat \ {0}
         /\ \A j \in 1 .. attribute - 1 : ~ NamesCompDir(file.info[kernel].attributes[j])
    /\ PtiReturned =>
         \A o \in Offsets : answers.pti[o] = Absent => ~ MapsBelow(RuntimeAddress(o))

\* iga answers nothing only if it has kept no row at or below the address.
NothingKeptInv ==
  phase = "done" /\ kernel \in DOMAIN file.kernels /\ file.kernels[kernel].function =>
    \A o \in Offsets : answers.iga[o] = Absent =>
      \A row \in KeptOf(DOMAIN file.info) : ~ (row.address <= RuntimeAddress(o))

FoundInv == ReadInv /\ OfferInv /\ NothingKeptInv

\* Where units begin is the sum of the sizes before them, so they do not overlap.
LEMMA BeginsFacts ==
  ASSUME NEW T, NEW units \in Seq(T), \A k \in DOMAIN units : units[k].size \in Nat
  PROVE  /\ \A k \in 0 .. Len(units) : Begins(units)[k] \in Nat
         /\ \A k \in DOMAIN units :
              Begins(units)[k - 1] \in Nat /\ Begins(units)[k] = Begins(units)[k - 1] + units[k].size
         /\ \A j, k \in 0 .. Len(units) : j <= k => Begins(units)[j] <= Begins(units)[k]
<1> DEFINE N == Len(units)
           G == [p \in (1 .. N) \X Nat |-> p[2] + units[p[1]].size]
           Is(begin) == begin = [k \in 0 .. N |-> IF k = 0 THEN 0 ELSE begin[k - 1] + units[k].size]
           b == Begins(units)
<1>1. N \in Nat /\ 0 \in Nat /\ G \in [(1 .. N) \X Nat -> Nat] /\ DOMAIN units = 1 .. N
  OBVIOUS
<1>2. PICK f \in [0 .. N -> Nat] : f[0] = 0 /\ \A k \in 1 .. N : f[k] = G[<<k, f[k - 1]>>]
  <2> HIDE DEF N, G
  <2>1. \E f \in [0 .. N -> Nat] : Recurs(f, N, 0, G)
    BY <1>1, Recursion
  <2>2. QED
    BY <2>1 DEF Recurs
<1>3. ASSUME NEW k \in 1 .. N
      PROVE  f[k] = f[k - 1] + units[k].size
  <2>1. k - 1 \in 0 .. N
    BY <1>1
  <2>2. f[k - 1] \in Nat
    BY <1>2, <2>1
  <2>3. G[<<k, f[k - 1]>>] = f[k - 1] + units[k].size
    BY <2>2
  <2> HIDE DEF G, N
  <2>4. QED
    BY <1>2, <2>3
<1>4. Is(f)
  <2>1. \A k \in 0 .. N : k = 0 \/ k \in 1 .. N
    BY <1>1
  <2> HIDE DEF G, N
  <2>2. \A k \in 0 .. N : f[k] = IF k = 0 THEN 0 ELSE f[k - 1] + units[k].size
    BY <1>2, <1>3, <2>1
  <2>3. QED
    BY <1>2, <2>2
<1>5. b = CHOOSE begin : Is(begin)
  BY DEF Begins
<1>6. Is(b)
  <2> HIDE DEF Is
  <2>1. QED
    BY <1>4, <1>5
<1>7. b[0] = 0 /\ \A k \in 1 .. N : b[k] = b[k - 1] + units[k].size
  <2> HIDE DEF b, N
  <2>1. \A k \in 0 .. N : b[k] = IF k = 0 THEN 0 ELSE b[k - 1] + units[k].size
    BY <1>6
  <2>2. QED
    BY <1>1, <2>1
<1> HIDE DEF b, Is
<1>8. \A k \in 0 .. N : b[k] \in Nat /\ \A j \in 0 .. k : b[j] <= b[k]
  <2> DEFINE S == {k \in Nat : k <= N => b[k] \in Nat /\ \A j \in 0 .. k : b[j] \in Nat /\ b[j] <= b[k]}
  <2>1. 0 \in S
    BY <1>7
  <2>2. ASSUME NEW k \in Nat, k \in S
        PROVE  k + 1 \in S
    <3>1. SUFFICES ASSUME k + 1 <= N
                   PROVE  b[k + 1] \in Nat /\ \A j \in 0 .. k + 1 : b[j] \in Nat /\ b[j] <= b[k + 1]
      OBVIOUS
    <3>2. b[k] \in Nat /\ \A j \in 0 .. k : b[j] \in Nat /\ b[j] <= b[k]
      BY <1>1, <2>2, <3>1
    <3>3. k + 1 \in 1 .. N /\ units[k + 1].size \in Nat
      BY <1>1, <3>1
    <3>4. b[k + 1] = b[k] + units[k + 1].size
      <4>1. k + 1 - 1 = k
        OBVIOUS
      <4>2. QED
        BY <1>7, <3>3, <4>1
    <3>5. b[k + 1] \in Nat /\ b[k] <= b[k + 1]
      BY <3>2, <3>3, <3>4
    <3>6. \A j \in 0 .. k + 1 : j \in 0 .. k \/ j = k + 1
      OBVIOUS
    <3>7. QED
      BY <3>2, <3>5, <3>6
  <2> HIDE DEF S
  <2>3. Nat \subseteq S
    BY <2>1, <2>2, NatSetInduction
  <2>4. QED
    BY <1>1, <2>3 DEF S
<1>9. \A k \in 1 .. N : k - 1 \in 0 .. N
  BY <1>1
<1>10. \A j, k \in 0 .. N : j <= k => j \in 0 .. k
  BY <1>1
<1>11. QED
  BY <1>1, <1>7, <1>8, <1>9, <1>10 DEF b

\* Of two units, the places behind their beginnings are in one only.
LEMMA UnitsApart ==
  ASSUME NEW T, NEW units \in Seq(T), \A k \in DOMAIN units : units[k].size \in Nat,
         NEW j \in DOMAIN units, NEW k \in DOMAIN units, NEW place \in Nat,
         Offset(units, j) < place, place < Offset(units, j) + units[j].size,
         Offset(units, k) < place, place < Offset(units, k) + units[k].size
  PROVE  j = k
<1>1. /\ j \in 1 .. Len(units) /\ k \in 1 .. Len(units) /\ Len(units) \in Nat
      /\ j \in 0 .. Len(units) /\ k \in 0 .. Len(units)
      /\ j - 1 \in 0 .. Len(units) /\ k - 1 \in 0 .. Len(units)
  OBVIOUS
<1> DEFINE b == Begins(units)
<1>2. /\ b[j - 1] \in Nat /\ b[k - 1] \in Nat /\ b[j] \in Nat /\ b[k] \in Nat
      /\ b[j] = b[j - 1] + units[j].size /\ b[k] = b[k - 1] + units[k].size
      /\ (j <= k - 1 => b[j] <= b[k - 1]) /\ (k <= j - 1 => b[k] <= b[j - 1])
  BY <1>1, BeginsFacts
<1> HIDE DEF b
<1>3. b[j - 1] < place /\ place < b[j] /\ b[k - 1] < place /\ place < b[k]
  BY <1>2 DEF Offset, b
<1>4. ~ (j <= k - 1) /\ ~ (k <= j - 1)
  BY <1>2, <1>3
<1>5. QED
  BY <1>1, <1>4

\* The units that hold a relocation to the kernel are the one that owns it.
LEMMA OwnerHolds ==
  ASSUME NEW T, NEW units \in Seq(T), \A k \in DOMAIN units : units[k].size \in Nat,
         DOMAIN units = DOMAIN file.kernels, kernel \in DOMAIN file.kernels,
         NEW relocations, relocations \subseteq Relocation, EachOwns(units, relocations),
         NEW k \in DOMAIN units
  PROVE  Holds(units, k, relocations) <=> k = kernel
<1>1. \A r \in relocations : r.offset \in Nat
  BY DEF Relocation
<1>2. ASSUME Holds(units, k, relocations)
      PROVE  k = kernel
  <2>1. PICK r \in relocations : r.kernel = kernel /\ r.offset > Offset(units, k)
                                 /\ r.offset < Offset(units, k) + units[k].size
    BY <1>2 DEF Holds, RelocationsOf
  <2>2. Offset(units, k) < r.offset
    <3>1. Offset(units, k) \in Nat
      BY BeginsFacts DEF Offset
    <3>2. QED
      BY <1>1, <2>1, <3>1
  <2>3. Offset(units, kernel) < r.offset /\ r.offset < Offset(units, kernel) + units[kernel].size
        /\ kernel \in DOMAIN units /\ r.offset \in Nat
    BY <1>1, <2>1 DEF EachOwns
  <2>4. QED
    BY <2>1, <2>2, <2>3, UnitsApart
<1>3. ASSUME k = kernel
      PROVE  Holds(units, k, relocations)
  <2>1. PICK r \in relocations : r.kernel = kernel /\ r.addend = 0
    BY DEF EachOwns
  <2>2. Offset(units, k) < r.offset /\ r.offset < Offset(units, k) + units[k].size
    BY <1>3, <2>1 DEF EachOwns
  <2>3. r.offset > Offset(units, k)
    <3>1. Offset(units, k) \in Nat
      BY BeginsFacts DEF Offset
    <3>2. QED
      BY <1>1, <2>2, <3>1
  <2>4. QED
    BY <2>1, <2>2, <2>3 DEF Holds, RelocationsOf
<1>4. QED
  BY <1>2, <1>3

\* Where the files are as the reference relies on, the units with a relocation to
\* the kernel are the kernel's, and its line program is one sequence.
LEMMA OwnUnit ==
  ASSUME TypeOK, Regular
  PROVE  /\ kernel \in DOMAIN file.info /\ kernel \in DOMAIN file.lines
         /\ Len(file.info) = Len(file.lines) /\ file.info[kernel].lines = kernel
         /\ \A k \in DOMAIN file.info : Holds(file.info, k, file.infoRelocations) <=> k = kernel
         /\ \A k \in DOMAIN file.lines : Holds(file.lines, k, file.lineRelocations) <=> k = kernel
<1>1. /\ file.info \in Seq(InfoUnit) /\ file.lines \in Seq(LineUnit) /\ file.kernels \in Seq(Kernel)
      /\ file.infoRelocations \subseteq Relocation /\ file.lineRelocations \subseteq Relocation
  BY FileFacts DEF IsFile
<1>2. /\ Len(file.info) = Len(file.kernels) /\ Len(file.lines) = Len(file.kernels)
      /\ kernel \in DOMAIN file.kernels /\ \A k \in DOMAIN file.kernels : file.info[k].lines = k
  BY DEF Regular, KernelsInOrder
<1>3. DOMAIN file.info = DOMAIN file.kernels /\ DOMAIN file.lines = DOMAIN file.kernels
  BY <1>1, <1>2
<1>5. /\ \A k \in DOMAIN file.info : file.info[k].size \in Nat
      /\ \A k \in DOMAIN file.lines : file.lines[k].size \in Nat
  <2>1. /\ \A k \in DOMAIN file.info : file.info[k] \in InfoUnit
        /\ \A k \in DOMAIN file.lines : file.lines[k] \in LineUnit
    BY <1>1
  <2>2. QED
    BY <2>1 DEF InfoUnit, LineUnit
<1>6. EachOwns(file.info, file.infoRelocations) /\ EachOwns(file.lines, file.lineRelocations)
  BY DEF Regular, KernelsInOrder
<1>7. \A k \in DOMAIN file.info : Holds(file.info, k, file.infoRelocations) <=> k = kernel
  BY <1>1, <1>2, <1>3, <1>5, <1>6, OwnerHolds
<1>8. \A k \in DOMAIN file.lines : Holds(file.lines, k, file.lineRelocations) <=> k = kernel
  BY <1>1, <1>2, <1>3, <1>5, <1>6, OwnerHolds
<1>9. QED
  BY <1>2, <1>3, <1>7, <1>8

\* Its rows are of the kernel and all in the first sequence, and the end is above
\* the others.
LEMMA OneProgram ==
  ASSUME TypeOK, Regular
  PROVE  LET rows == file.lines[kernel].rows
         IN  /\ rows \in Seq(Row)
             /\ \A n \in DOMAIN rows :
                  InFirst(rows, n) /\ rows[n].kernel = kernel /\ rows[n].address \in Nat
             /\ \A n, m \in DOMAIN rows : rows[m].end /\ ~ rows[n].end => rows[n].address < rows[m].address
             /\ \A k \in DOMAIN file.lines : \A n \in DOMAIN file.lines[k].rows :
                  file.lines[k].rows[n].kernel = k
<1> DEFINE rows == file.lines[kernel].rows
<1>1. kernel \in DOMAIN file.lines /\ DOMAIN file.lines = DOMAIN file.kernels
  <2>1. file.kernels \in Seq(Kernel) /\ file.lines \in Seq(LineUnit) /\ Len(file.lines) = Len(file.kernels)
    BY FileFacts DEF Regular, KernelsInOrder
  <2>2. QED
    BY <2>1 DEF Regular
<1>2. rows \in Seq(Row) /\ InSequences(rows)
  BY <1>1, RowFacts
<1>3. \A n \in DOMAIN rows : rows[n].end <=> n = Len(rows)
  BY <1>1 DEF Regular, KernelsInOrder
<1>4. \A k \in DOMAIN file.lines : \A n \in DOMAIN file.lines[k].rows : file.lines[k].rows[n].kernel = k
  BY <1>1 DEF Regular, KernelsInOrder
<1>5. ASSUME NEW n \in DOMAIN rows
      PROVE  InFirst(rows, n) /\ rows[n].kernel = kernel /\ rows[n].address \in Nat
  <2>1. rows[n] \in Row
    BY <1>2
  <2>2. rows[n].address \in Nat
    BY <2>1 DEF Row
  <2>3. \A j \in 1 .. n - 1 : j \in DOMAIN rows /\ j # Len(rows)
    BY <1>2
  <2>4. QED
    BY <1>1, <1>3, <1>4, <2>2, <2>3 DEF InFirst
<1>6. ASSUME NEW n \in DOMAIN rows, NEW m \in DOMAIN rows, rows[m].end, ~ rows[n].end
      PROVE  rows[n].address < rows[m].address
  <2>1. PICK i \in DOMAIN rows : rows[i].end /\ rows[n].address < rows[i].address
    BY <1>2, <1>6 DEF InSequences
  <2>2. i = m
    BY <1>3, <1>6, <2>1
  <2>3. QED
    BY <2>1, <2>2
<1>7. QED
  BY <1>2, <1>4, <1>5, <1>6

\* With the section at 0 in the zebin, a look-up of the offset there and of the
\* address here find the same row.
LEMMA SameRow ==
  ASSUME TypeOK, Regular, ZebinSectionAtZero, NEW o \in Offsets
  PROVE  LET rows  == file.lines[kernel].rows
             zebin == ReferenceRows
         IN  /\ DOMAIN zebin = DOMAIN rows
             /\ \A n \in DOMAIN rows :
                  /\ rows[n].address \in Nat /\ Location(zebin[n]) = Location(rows[n])
                  /\ zebin[n].address = rows[n].address - file.kernels[kernel].address
             /\ ReferenceRow(o) = RowBelow(RuntimeAddress(o))
             /\ ReferenceMaps(o) <=> MapsBelow(RuntimeAddress(o))
<1> DEFINE rows  == file.lines[kernel].rows
           zebin == ReferenceRows
           start == file.kernels[kernel].address
           D     == DOMAIN rows
           there == {n \in D : zebin[n].address <= o}
           here  == {n \in D : rows[n].address <= RuntimeAddress(o)}
           topThere == {n \in there : \A m \in there : zebin[m].address <= zebin[n].address}
           topHere  == {n \in here : \A m \in here : rows[m].address <= rows[n].address}
<1>1. rows \in Seq(Row) /\ start \in Nat /\ o \in Int
  <2>1. file.kernels[kernel].size \in Nat /\ start \in Nat
    BY FileFacts DEF Regular
  <2>2. QED
    BY <2>1, OneProgram DEF Offsets, Regular
<1>2. DOMAIN zebin = D
  BY DEF ZebinSectionAtZero
<1>3. ASSUME NEW n \in D
      PROVE  /\ rows[n].address \in Nat /\ zebin[n].address = rows[n].address - start
             /\ zebin[n].end = rows[n].end /\ Location(zebin[n]) = Location(rows[n])
  <2>1. zebin[n] = [rows[n] EXCEPT !.address = rows[n].address - start]
    BY DEF ZebinSectionAtZero
  <2>2. rows[n] \in Row
    BY <1>1
  <2> HIDE DEF rows, zebin, start
  <2>3. QED
    BY <2>1, <2>2 DEF Row, Location
<1>4. \A n \in D : zebin[n].address <= o <=> rows[n].address <= RuntimeAddress(o)
  <2> RuntimeAddress(o) = start + o
    BY DEF RuntimeAddress
  <2> HIDE DEF rows, zebin, start
  <2> QED
    BY <1>1, <1>3
<1>5. there = here
  BY <1>4
<1>6. \A n, m \in D : zebin[m].address <= zebin[n].address <=> rows[m].address <= rows[n].address
  <2> HIDE DEF rows, zebin, start
  <2> QED
    BY <1>1, <1>3
<1>7. topThere = topHere
  BY <1>5, <1>6
<1>8. ReferenceRow(o) = Max(topThere \union {0})
  BY <1>2, Zenon DEF ReferenceRow
<1>9. RowBelow(RuntimeAddress(o)) = Max(topHere \union {0})
  BY Zenon DEF RowBelow
<1>10. ReferenceRow(o) = RowBelow(RuntimeAddress(o))
  BY <1>7, <1>8, <1>9
<1>11. ASSUME ReferenceRow(o) # 0
       PROVE  ReferenceRow(o) \in D
  <2> DEFINE S == topThere \union {0}
  <2>1. S \subseteq Nat /\ S # {} /\ Len(rows) \in Nat /\ \A k \in S : k <= Len(rows)
    BY <1>1
  <2>2. \A k \in S : k # 0 => k \in D
    OBVIOUS
  <2>3. ReferenceRow(o) = Max(S)
    BY <1>8
  <2> HIDE DEF S, D
  <2>4. Max(S) \in S
    BY <2>1, MaxIsGreatest
  <2>5. QED
    BY <1>11, <2>2, <2>3, <2>4
<1>12. ReferenceMaps(o) <=> MapsBelow(RuntimeAddress(o))
  BY <1>3, <1>10, <1>11 DEF ReferenceMaps, MapsBelow
<1>13. QED
  BY <1>2, <1>3, <1>10, <1>12

\* The row of the reference is at or below the address, and none is nearer.
LEMMA ReferenceFacts ==
  ASSUME TypeOK, Regular, NEW address \in Nat, MapsBelow(address)
  PROVE  LET rows == file.lines[kernel].rows
             n    == RowBelow(address)
         IN  /\ n \in DOMAIN rows /\ ~ rows[n].end /\ rows[n].address <= address
             /\ \A m \in DOMAIN rows : rows[m].address <= address => rows[m].address <= rows[n].address
<1> DEFINE rows  == file.lines[kernel].rows
           below == {n \in DOMAIN rows : rows[n].address <= address}
           top   == {n \in below : \A m \in below : rows[m].address <= rows[n].address}
           n     == RowBelow(address)
<1>1. n = Max(top \union {0}) /\ n # 0 /\ ~ rows[n].end
  BY DEF RowBelow, MapsBelow
<1>2. rows \in Seq(Row) /\ Len(rows) \in Nat /\ DOMAIN rows = 1 .. Len(rows)
  BY OneProgram
<1>3. top \union {0} \subseteq Nat /\ top \union {0} # {} /\ \A k \in top \union {0} : k <= Len(rows)
  <2>1. top \subseteq 1 .. Len(rows)
    BY <1>2
  <2> HIDE DEF top, rows
  <2>2. QED
    BY <1>2, <2>1
<1>4. n \in top
  <2> DEFINE S == top \union {0}
  <2>1. S \subseteq Nat /\ S # {} /\ Len(rows) \in Nat /\ \A k \in S : k <= Len(rows)
    BY <1>2, <1>3
  <2>2. n = Max(S)
    BY <1>1
  <2> HIDE DEF S
  <2>3. Max(S) \in S
    BY <2>1, MaxIsGreatest
  <2>4. QED
    BY <1>1, <2>2, <2>3 DEF S
<1>5. QED
  BY <1>1, <1>4

\* What stays the same with the request.
LEMMA SameRequest ==
  ASSUME file' = file, kernel' = kernel
  PROVE  /\ (Regular <=> Regular') /\ (Supported <=> Supported') /\ Offsets' = Offsets
         /\ \A o : RuntimeAddress(o)' = RuntimeAddress(o)
         /\ \A a : MapsBelow(a)' <=> MapsBelow(a)
         /\ KeptOf(DOMAIN file.info)' = KeptOf(DOMAIN file.info)
<1>1. Offsets' = Offsets /\ \A o : RuntimeAddress(o)' = RuntimeAddress(o)
  BY DEF Offsets, RuntimeAddress
<1>2. Supported <=> Supported'
  BY DEF Supported
<1>3. KernelsInOrder <=> KernelsInOrder'
  BY DEF KernelsInOrder, EachOwns
<1>4. \A a : RowBelow(a)' = RowBelow(a)
  BY DEF RowBelow
<1>5. \A a : MapsBelow(a)' <=> MapsBelow(a)
  BY <1>4 DEF MapsBelow
<1>6. KeptOf(DOMAIN file.info)' = KeptOf(DOMAIN file.info)
  BY DEF KeptOf, AllRows
<1>7. QED
  BY <1>1, <1>2, <1>3, <1>5, <1>6 DEF Regular

\* Only Map makes PTI's answers and only Resolve iga's.
LEMMA SameFound ==
  ASSUME FoundInv, file' = file, kernel' = kernel, answers' = answers,
         phase' = "lines" => \A k \in 1 .. unit' - 1 : file.lines[k].fits,
         phase' = "done" => phase = "done" \/ ~ (kernel \in DOMAIN file.kernels /\ file.kernels[kernel].function),
         Regular /\ Supported =>
           /\ phase' \in {"open", "info", "lines"} => selected' = {k \in 1 .. unit' - 1 : k = kernel}
           /\ phase' = "comp_dir" =>
                /\ selected' = {kernel} /\ attribute' \in Nat \ {0}
                /\ \A j \in 1 .. attribute' - 1 : ~ NamesCompDir(file.info[kernel].attributes[j])
           /\ PtiReturned' => PtiReturned
  PROVE  FoundInv'
<1>1. ReadInv'
  BY SameRequest DEF FoundInv, ReadInv
<1>2. OfferInv'
  <2>1. Regular /\ Supported /\ PtiReturned' =>
          \A o \in Offsets : answers.pti[o] = Absent => ~ MapsBelow(RuntimeAddress(o))
    BY DEF FoundInv, OfferInv
  <2>2. (Regular /\ Supported /\ PtiReturned =>
           \A o \in Offsets : answers.pti[o] = Absent => ~ MapsBelow(RuntimeAddress(o)))'
    BY <2>1, SameRequest
  <2>3. QED
    BY <2>2, SameRequest DEF OfferInv
<1>3. NothingKeptInv'
  BY SameRequest DEF FoundInv, NothingKeptInv
<1>4. QED
  BY <1>1, <1>2, <1>3 DEF FoundInv

\* Supported files are not given up, whatever else is true of the step.
LEMMA GiveUpFound ==
  ASSUME FoundInv, file' = file, kernel' = kernel, GiveUp, phase \notin {"units", "done"},
         ~ (Regular /\ Supported)
  PROVE  FoundInv'
<1>1. answers' = answers /\ phase' = "symbol"
  BY DEF GiveUp
<1>2. QED
  BY <1>1, SameFound

LEMMA OpenFound == UnitsInv /\ FoundInv /\ Open => FoundInv'
<1> SUFFICES ASSUME UnitsInv, FoundInv, Open
             PROVE  FoundInv'
  OBVIOUS
<1>1. phase = "open" /\ file' = file /\ kernel' = kernel
  BY DEF Open, request
<1>2. CASE kernel \notin DOMAIN file.kernels
  BY <1>1, <1>2, GiveUpFound DEF Open, Regular
<1>3. CASE kernel \in DOMAIN file.kernels
  <2>1. phase' = "info" /\ UNCHANGED <<unit, attribute, selected, answers>>
    BY <1>3 DEF Open
  <2>2. Regular /\ Supported => selected = {k \in 1 .. unit - 1 : k = kernel}
    BY <1>1 DEF FoundInv, OfferInv
  <2>3. QED
    BY <1>1, <2>1, <2>2, SameFound DEF PtiReturned
<1>4. QED
  BY <1>2, <1>3

\* The units walked over: the next is the kernel's or not.
LEMMA SelectedNext ==
  ASSUME NEW n \in Nat \ {0}, NEW own \in Nat, NEW found, found = {k \in 1 .. n - 1 : k = own}
  PROVE  /\ n = own => found \union {n} = {k \in 1 .. n + 1 - 1 : k = own}
         /\ n # own => found = {k \in 1 .. n + 1 - 1 : k = own}
<1>1. \A k : k \in 1 .. n + 1 - 1 <=> k \in 1 .. n - 1 \/ k = n
  OBVIOUS
<1>2. QED
  BY <1>1

LEMMA WalkInfoFound == UnitsInv /\ FoundInv /\ WalkInfo => FoundInv'
<1> SUFFICES ASSUME UnitsInv, FoundInv, WalkInfo
             PROVE  FoundInv'
  OBVIOUS
<1>1. /\ phase = "info" /\ unit <= Len(file.info) /\ file' = file /\ kernel' = kernel
      /\ unit \in Nat \ {0} /\ kernel \in Nat /\ unit \in DOMAIN file.info
  <2>1. file.info \in Seq(InfoUnit) /\ kernel \in Nat
    BY FileFacts DEF UnitsInv
  <2>2. phase = "info" /\ unit <= Len(file.info) /\ file' = file /\ kernel' = kernel
    BY DEF WalkInfo, Walk, request
  <2>3. unit \in 1 .. Len(file.info) + 1
    BY <2>2 DEF UnitsInv, TypeOK
  <2>4. QED
    BY <2>1, <2>2, <2>3
<1>2. CASE ~ (file.info[unit].version \in {4, 5})
  <2>1. GiveUp /\ ~ Supported
    BY <1>1, <1>2 DEF WalkInfo, Walk, Supported
  <2>2. QED
    BY <1>1, <2>1, GiveUpFound
<1>3. CASE file.info[unit].version \in {4, 5}
  <2>1. /\ unit' = unit + 1 /\ phase' = "info" /\ answers' = answers
        /\ selected' = IF Holds(file.info, unit, file.infoRelocations) THEN selected \union {unit} ELSE selected
    BY <1>1, <1>3 DEF WalkInfo, Walk
  <2>2. ASSUME Regular, Supported
        PROVE  selected' = {k \in 1 .. unit' - 1 : k = kernel}
    <3>1. selected = {k \in 1 .. unit - 1 : k = kernel}
      BY <1>1, <2>2 DEF FoundInv, OfferInv
    <3>2. Holds(file.info, unit, file.infoRelocations) <=> unit = kernel
      BY <1>1, <2>2, OwnUnit DEF UnitsInv
    <3>3. QED
      BY <1>1, <2>1, <3>1, <3>2, SelectedNext
  <2>3. QED
    BY <1>1, <2>1, <2>2, SameFound DEF PtiReturned
<1>4. QED
  BY <1>2, <1>3

LEMMA WalkLinesFound == UnitsInv /\ FoundInv /\ WalkLines => FoundInv'
<1> SUFFICES ASSUME UnitsInv, FoundInv, WalkLines
             PROVE  FoundInv'
  OBVIOUS
<1>1. /\ phase = "lines" /\ unit <= Len(file.lines) /\ file' = file /\ kernel' = kernel
      /\ unit \in Nat \ {0} /\ kernel \in Nat /\ unit \in DOMAIN file.lines
  <2>1. file.lines \in Seq(LineUnit) /\ kernel \in Nat
    BY FileFacts DEF UnitsInv
  <2>2. phase = "lines" /\ unit <= Len(file.lines) /\ file' = file /\ kernel' = kernel
    BY DEF WalkLines, Walk, request
  <2>3. unit \in 1 .. Len(file.lines) + 1
    BY <2>2 DEF UnitsInv, TypeOK
  <2>4. QED
    BY <2>1, <2>2, <2>3
<1>2. CASE ~ file.lines[unit].fits
  <2>1. GiveUp /\ ~ Supported
    BY <1>1, <1>2 DEF WalkLines, Walk, Supported
  <2>2. QED
    BY <1>1, <2>1, GiveUpFound
<1>3. CASE file.lines[unit].fits
  <2>1. /\ unit' = unit + 1 /\ phase' = "lines" /\ answers' = answers
        /\ selected' = IF Holds(file.lines, unit, file.lineRelocations) THEN selected \union {unit} ELSE selected
    BY <1>1, <1>3 DEF WalkLines, Walk
  <2>2. ASSUME Regular, Supported
        PROVE  selected' = {k \in 1 .. unit' - 1 : k = kernel}
    <3>1. selected = {k \in 1 .. unit - 1 : k = kernel}
      BY <1>1, <2>2 DEF FoundInv, OfferInv
    <3>2. Holds(file.lines, unit, file.lineRelocations) <=> unit = kernel
      BY <1>1, <2>2, OwnUnit DEF UnitsInv
    <3>3. QED
      BY <1>1, <2>1, <3>1, <3>2, SelectedNext
  <2>3. \A k \in 1 .. unit' - 1 : file.lines[k].fits
    <3>1. \A k \in 1 .. unit - 1 : file.lines[k].fits
      BY <1>1 DEF FoundInv, ReadInv
    <3>2. \A k \in 1 .. unit' - 1 : k \in 1 .. unit - 1 \/ k = unit
      BY <1>1, <2>1
    <3>3. QED
      BY <1>3, <3>1, <3>2
  <2>4. QED
    BY <1>1, <2>1, <2>2, <2>3, SameFound DEF PtiReturned
<1>4. QED
  BY <1>2, <1>3

LEMMA SelectInfoFound == UnitsInv /\ FoundInv /\ SelectInfo => FoundInv'
<1> SUFFICES ASSUME UnitsInv, FoundInv, SelectInfo
             PROVE  FoundInv'
  OBVIOUS
<1>1. phase = "info" /\ file' = file /\ kernel' = kernel /\ unit > Len(file.info)
  BY DEF SelectInfo, request
<1>2. ASSUME Regular, Supported
      PROVE  selected = {kernel} /\ Cardinality(selected) = 1
  <2>1. file.info \in Seq(InfoUnit) /\ kernel \in DOMAIN file.info
    BY <1>2, FileFacts, OwnUnit DEF UnitsInv
  <2>2. unit \in Nat
    BY <1>1, <2>1 DEF UnitsInv, TypeOK
  <2>3. Len(file.info) \in Nat /\ kernel \in 1 .. Len(file.info)
    BY <2>1
  <2>4. selected = {k \in 1 .. unit - 1 : k = kernel}
    BY <1>1, <1>2 DEF FoundInv, OfferInv
  <2>5. unit > Len(file.info)
    BY <1>1
  <2>6. QED
    <3>1. kernel \in 1 .. unit - 1
      BY <2>2, <2>3, <2>5
    <3>2. selected = {kernel}
      BY <2>4, <3>1
    <3>3. QED
      BY <3>2, FS_Singleton
<1>3. CASE Cardinality(selected) # 1
  BY <1>1, <1>2, <1>3, GiveUpFound DEF SelectInfo
<1>4. CASE Cardinality(selected) = 1
  <2>1. phase' = "comp_dir" /\ attribute' = 1 /\ UNCHANGED <<unit, selected, answers>>
    BY <1>4 DEF SelectInfo, TakeInfo
  <2>2. \A j \in 1 .. attribute' - 1 : FALSE
    BY <2>1
  <2>3. QED
    BY <1>1, <1>2, <2>1, <2>2, SameFound DEF PtiReturned
<1>5. QED
  BY <1>3, <1>4

LEMMA ReadAttributeFound == UnitsInv /\ FoundInv /\ ReadAttribute => FoundInv'
<1> SUFFICES ASSUME UnitsInv, FoundInv, ReadAttribute
             PROVE  FoundInv'
  OBVIOUS
<1> DEFINE attributes == InfoSelected.attributes
<1>1. phase = "comp_dir" /\ file' = file /\ kernel' = kernel
  BY DEF ReadAttribute, request
<1>2. ASSUME Regular, Supported
      PROVE  /\ selected = {kernel} /\ attribute \in Nat \ {0} /\ attributes = file.info[kernel].attributes
             /\ \A j \in 1 .. attribute - 1 : ~ NamesCompDir(attributes[j])
             /\ attribute <= Len(attributes) /\ Len(attributes) \in Nat
  <2>1. /\ selected = {kernel} /\ attribute \in Nat \ {0}
        /\ \A j \in 1 .. attribute - 1 : ~ NamesCompDir(file.info[kernel].attributes[j])
    BY <1>1, <1>2 DEF FoundInv, OfferInv
  <2>2. (CHOOSE k \in selected : TRUE) = kernel
    BY <2>1
  <2>3. attributes = file.info[kernel].attributes
    BY <2>2 DEF InfoSelected
  <2>4. attributes \in Seq(Attribute)
    <3>1. file.info \in Seq(InfoUnit) /\ kernel \in DOMAIN file.info
      BY <1>2, FileFacts, OwnUnit DEF UnitsInv
    <3>2. file.info[kernel] \in InfoUnit
      BY <3>1
    <3>3. QED
      BY <2>3, <3>2 DEF InfoUnit
  <2>5. PICK n \in DOMAIN attributes : NamesCompDir(attributes[n])
    BY <1>2, <2>3 DEF Supported, NamesCompDir
  <2>6. ~ (n \in 1 .. attribute - 1)
    BY <2>1, <2>3, <2>5
  <2> HIDE DEF attributes
  <2>7. attribute <= Len(attributes) /\ Len(attributes) \in Nat
    BY <2>1, <2>4, <2>5, <2>6
  <2>8. QED
    BY <2>1, <2>3, <2>7 DEF attributes
<1>3. CASE GiveUp /\ attribute > Len(attributes)
  <2>1. ~ (Regular /\ Supported)
    <3>1. SUFFICES ASSUME Regular, Supported PROVE FALSE
      OBVIOUS
    <3>2. attribute \in Nat /\ Len(attributes) \in Nat /\ attribute <= Len(attributes)
      BY <1>2, <3>1
    <3>3. QED
      BY <1>3, <3>2
  <2>2. QED
    BY <1>1, <1>3, <2>1, GiveUpFound
<1>4. CASE Abort
  BY <1>1, <1>4, SameFound DEF Abort, PtiReturned
<1>5. CASE phase' = "lines" /\ unit' = 1 /\ selected' = {} /\ answers' = answers
  <2>1. \A k \in 1 .. unit' - 1 : FALSE
    BY <1>5
  <2>2. selected' = {k \in 1 .. unit' - 1 : k = kernel}
    BY <1>5, <2>1
  <2>3. QED
    BY <1>1, <1>5, <2>1, <2>2, SameFound DEF PtiReturned
<1>6. CASE /\ ~ NamesCompDir(attributes[attribute]) /\ attribute' = attribute + 1
           /\ UNCHANGED <<phase, unit, selected, answers>>
  <2>1. ASSUME Regular, Supported
        PROVE  /\ selected' = {kernel} /\ attribute' \in Nat \ {0}
               /\ \A j \in 1 .. attribute' - 1 : ~ NamesCompDir(file.info[kernel].attributes[j])
    <3>1. attribute \in Nat \ {0} /\ \A j \in 1 .. attribute' - 1 : j \in 1 .. attribute - 1 \/ j = attribute
      BY <1>2, <1>6, <2>1
    <3>2. attribute' \in Nat \ {0} /\ selected' = {kernel}
      BY <1>2, <1>6, <2>1, <3>1
    <3>3. QED
      BY <1>2, <1>6, <2>1, <3>1, <3>2
  <2>2. QED
    BY <1>1, <1>6, <2>1, SameFound DEF PtiReturned
<1>7. QED
  BY <1>3, <1>4, <1>5, <1>6 DEF ReadAttribute, NamesCompDir, Skipped

\* Without an entry to find, no row is at or below the address.
LEMMA NothingBelow ==
  ASSUME TypeOK, kernel \in DOMAIN file.kernels, NEW rows, rows \subseteq AllRows,
         NEW table \in Tables(rows), NEW o \in Offsets
  PROVE  /\ RuntimeAddress(o) \in Nat
         /\ Found(table, RuntimeAddress(o)) = {} => \A r \in rows : ~ (r.address <= RuntimeAddress(o))
<1>1. RuntimeAddress(o) \in Nat
  <2>1. file.kernels[kernel].address \in Nat /\ file.kernels[kernel].size \in Nat
    BY FileFacts
  <2>2. QED
    BY <2>1 DEF RuntimeAddress, Offsets
<1>2. rows \subseteq Row
  BY RowFacts
<1>3. QED
  BY <1>1, <1>2, LookUp

LEMMA MapFound == UnitsInv /\ FoundInv /\ Map => FoundInv'
<1> SUFFICES ASSUME UnitsInv, FoundInv, Map
             PROVE  FoundInv'
  OBVIOUS
<1> DEFINE k     == Max(selected)
           rows  == file.lines[k].rows
<1>1. /\ phase = "lines" /\ file' = file /\ kernel' = kernel /\ kernel \in DOMAIN file.kernels
      /\ unit > Len(file.lines)
  BY DEF UnitsInv, WalkInv, Map, request
<1>2. /\ file.lines \in Seq(LineUnit) /\ unit \in Nat /\ Len(file.lines) \in Nat
      /\ DOMAIN file.lines = 1 .. Len(file.lines) /\ selected \subseteq DOMAIN file.lines
  BY <1>1, FileFacts DEF UnitsInv, TypeOK
<1>3. Cardinality(selected) = 1 => k \in selected
  BY <1>2, OneSelected
<1>4. ASSUME Regular, Supported
      PROVE  Cardinality(selected) = 1 /\ k = kernel /\ file.lines[k].version = 4
  <2>1. kernel \in 1 .. unit - 1
    <3>1. kernel \in DOMAIN file.lines
      BY <1>4, OwnUnit DEF UnitsInv
    <3>2. QED
      BY <1>1, <1>2, <3>1
  <2>2. selected = {j \in 1 .. unit - 1 : j = kernel}
    BY <1>1, <1>4 DEF FoundInv, OfferInv
  <2>3. selected = {kernel}
    BY <2>1, <2>2
  <2>4. Cardinality(selected) = 1
    BY <2>3, FS_Singleton
  <2>5. k = kernel
    BY <1>3, <2>3, <2>4
  <2>6. QED
    BY <1>4, <2>4, <2>5 DEF Supported
<1>5. CASE Cardinality(selected) # 1 \/ file.lines[k].version # 4
  <2>1. GiveUp
    BY <1>5 DEF Map
  <2>2. QED
    BY <1>1, <1>4, <1>5, <2>1, GiveUpFound
<1>6. CASE ~ (Cardinality(selected) # 1 \/ file.lines[k].version # 4)
  <2>1. PICK table \in Tables(FirstSequence(rows)) :
          answers' = Answer("pti", table, Found, LAMBDA row : ~ row.end) /\ phase' = "symbol"
    BY <1>6 DEF Map
  <2> DEFINE below(o) == Found(table, RuntimeAddress(o))
             row(o)   == table[Max(below(o))]
             found    == [o \in Offsets |-> IF below(o) = {} THEN Absent
                            ELSE IF ~ row(o).end THEN Location(row(o)) ELSE Absent]
             LookUps  == [Offsets -> [line : Nat, kernel : 0 .. Len(file.kernels)]]
  <2>2. answers' = [answers EXCEPT !["pti"] = found]
    BY <2>1 DEF Answer, RuntimeAddress
  <2>3. answers \in [pti : LookUps, iga : LookUps]
    BY DEF UnitsInv, TypeOK
  <2>4. answers'.pti = found /\ answers'.iga = answers.iga
    BY <2>2, <2>3
  <2>5. \A j \in DOMAIN file.lines : file.lines[j].fits
    <3>1. \A j \in 1 .. unit - 1 : file.lines[j].fits
      BY <1>1 DEF FoundInv, ReadInv
    <3>2. \A j \in DOMAIN file.lines : j \in 1 .. unit - 1
      BY <1>1, <1>2
    <3>3. QED
      BY <3>1, <3>2
  <2>6. ReadInv'
    BY <1>1, <2>1, <2>5, SameRequest DEF ReadInv
  <2>7. NothingKeptInv'
    BY <2>1 DEF NothingKeptInv
  <2>8. ASSUME Regular, Supported, NEW o \in Offsets, found[o] = Absent,
               MapsBelow(RuntimeAddress(o))
        PROVE  FALSE
    <3>1. k = kernel /\ TypeOK /\ kernel \in DOMAIN file.lines
      BY <1>4, <2>8, OwnUnit DEF UnitsInv
    <3>2. FirstSequence(rows) = {rows[m] : m \in DOMAIN rows}
      <4>1. \A m \in DOMAIN rows : InFirst(rows, m)
        BY <2>8, <3>1, OneProgram
      <4>2. {m \in DOMAIN rows : \A j \in 1 .. m - 1 : ~ rows[j].end} = DOMAIN rows
        BY <4>1 DEF InFirst
      <4> HIDE DEF rows
      <4>3. QED
        BY <4>2 DEF FirstSequence
    <3>3. FirstSequence(rows) \subseteq AllRows
      BY <3>1, <3>2, RowFacts
    <3>4. RuntimeAddress(o) \in Nat
      BY <1>1, <2>1, <3>1, <3>3, NothingBelow
    <3> DEFINE n == RowBelow(RuntimeAddress(o))
    <3>5. /\ n \in DOMAIN rows /\ ~ rows[n].end /\ rows[n].address <= RuntimeAddress(o)
          /\ \A m \in DOMAIN rows :
               rows[m].address <= RuntimeAddress(o) => rows[m].address <= rows[n].address
      BY <2>8, <3>1, <3>4, ReferenceFacts
    <3>6. rows[n] \in FirstSequence(rows)
      BY <3>2, <3>5
    <3>7. below(o) # {}
      BY <1>1, <2>1, <3>1, <3>3, <3>5, <3>6, NothingBelow
    <3>8. /\ row(o) \in FirstSequence(rows) /\ row(o).address <= RuntimeAddress(o)
          /\ \A r \in FirstSequence(rows) :
               r.address <= RuntimeAddress(o) => r.address <= row(o).address
      BY <1>1, <2>1, <3>1, <3>3, <3>7, AnswerFacts
    <3>9. PICK m \in DOMAIN rows : row(o) = rows[m]
      BY <3>2, <3>8
    <3>10. row(o).end
      <4>1. row(o).kernel # 0
        <5>1. row(o).kernel \in DOMAIN file.kernels /\ file.kernels \in Seq(Kernel)
          BY <3>1, <3>3, <3>8, RowFacts, FileFacts
        <5>2. QED
          BY <5>1
      <4>2. Location(row(o)) # Absent
        BY <4>1 DEF Location, Absent
      <4>3. QED
        BY <2>8, <3>7, <4>2
    <3>11. /\ rows[n].address \in Nat /\ rows[m].address \in Nat
           /\ rows[n].address < rows[m].address /\ rows[m].address <= rows[n].address
      BY <2>8, <3>1, <3>5, <3>8, <3>9, <3>10, OneProgram
    <3>12. QED
      BY <3>11
  <2>9. OfferInv'
    <3>1. Regular /\ Supported =>
            \A o \in Offsets : answers'.pti[o] = Absent => ~ MapsBelow(RuntimeAddress(o))
      BY <2>4, <2>8
    <3>2. (Regular /\ Supported =>
             \A o \in Offsets : answers.pti[o] = Absent => ~ MapsBelow(RuntimeAddress(o)))'
      BY <1>1, <3>1, SameRequest
    <3>3. phase' = "symbol"
      BY <2>1
    <3>4. QED
      BY <3>2, <3>3 DEF OfferInv
  <2>10. QED
    BY <2>6, <2>7, <2>9 DEF FoundInv
<1>7. QED
  BY <1>5, <1>6

LEMMA ResolveFound == UnitsInv /\ FoundInv /\ Resolve => FoundInv'
<1> SUFFICES ASSUME UnitsInv, FoundInv, Resolve
             PROVE  FoundInv'
  OBVIOUS
<1>1. /\ phase = "units" /\ file' = file /\ kernel' = kernel /\ kernel \in DOMAIN file.kernels
      /\ phase' = "done" /\ unit > Len(file.info)
  BY DEF UnitsInv, WalkInv, Resolve, ResolveBy, request
<1>2. PICK table \in Tables(locations) :
        answers' = Answer("iga", table, Found, LAMBDA row : TRUE)
  BY DEF Resolve, ResolveBy
<1> DEFINE below(o) == Found(table, RuntimeAddress(o))
           row(o)   == table[Max(below(o))]
           found    == [o \in Offsets |-> IF below(o) = {} THEN Absent ELSE Location(row(o))]
           LookUps  == [Offsets -> [line : Nat, kernel : 0 .. Len(file.kernels)]]
<1>3. answers' = [answers EXCEPT !["iga"] = found]
  BY <1>2 DEF Answer, RuntimeAddress
<1>4. answers \in [pti : LookUps, iga : LookUps]
  BY DEF UnitsInv, TypeOK
<1>5. answers'.iga = found /\ answers'.pti = answers.pti
  BY <1>3, <1>4
<1>6. locations = KeptOf(DOMAIN file.info) /\ locations \subseteq AllRows
  <2>1. file.info \in Seq(InfoUnit)
    BY FileFacts DEF UnitsInv
  <2>2. 1 .. unit - 1 = DOMAIN file.info
    BY <1>1, <2>1 DEF UnitsInv, TypeOK
  <2>3. locations = KeptOf(DOMAIN file.info)
    BY <1>1, <2>2 DEF UnitsInv, LocationsInv
  <2>4. QED
    BY <2>3 DEF KeptOf
<1>7. ASSUME NEW o \in Offsets, found[o] = Absent, NEW r \in KeptOf(DOMAIN file.info)
      PROVE  ~ (r.address <= RuntimeAddress(o))
  <2>1. below(o) = {}
    <3>1. SUFFICES ASSUME below(o) # {} PROVE FALSE
      OBVIOUS
    <3>2. row(o) \in locations
      BY <1>1, <1>2, <1>6, <3>1, AnswerFacts DEF UnitsInv
    <3>3. row(o).kernel \in DOMAIN file.kernels /\ file.kernels \in Seq(Kernel)
      BY <1>6, <3>2, RowFacts, FileFacts DEF UnitsInv
    <3>4. row(o).kernel # 0
      BY <3>3
    <3>5. Location(row(o)) # Absent
      BY <3>4 DEF Location, Absent
    <3>6. QED
      BY <1>7, <3>1, <3>5
  <2>2. QED
    BY <1>1, <1>2, <1>6, <2>1, NothingBelow DEF UnitsInv
<1>8. NothingKeptInv'
  <2>1. \A o \in Offsets : answers'.iga[o] = Absent =>
          \A r \in KeptOf(DOMAIN file.info) : ~ (r.address <= RuntimeAddress(o))
    BY <1>5, <1>7
  <2>2. (\A o \in Offsets : answers.iga[o] = Absent =>
           \A r \in KeptOf(DOMAIN file.info) : ~ (r.address <= RuntimeAddress(o)))'
    BY <1>1, <2>1, SameRequest
  <2>3. QED
    BY <2>2 DEF NothingKeptInv
<1>9. ReadInv'
  BY <1>1, <1>5, SameRequest DEF FoundInv, ReadInv
<1>10. OfferInv'
  <2>1. Regular /\ Supported =>
          \A o \in Offsets : answers'.pti[o] = Absent => ~ MapsBelow(RuntimeAddress(o))
    BY <1>1, <1>5 DEF FoundInv, OfferInv, PtiReturned
  <2>2. (Regular /\ Supported =>
           \A o \in Offsets : answers.pti[o] = Absent => ~ MapsBelow(RuntimeAddress(o)))'
    BY <1>1, <2>1, SameRequest
  <2>3. QED
    BY <1>1, <2>2 DEF OfferInv
<1>11. QED
  BY <1>8, <1>9, <1>10 DEF FoundInv

LEMMA FoundPreserved == UnitsInv /\ FoundInv /\ [Next]_vars => FoundInv'
<1> SUFFICES ASSUME UnitsInv, FoundInv, [Next]_vars
             PROVE  FoundInv'
  OBVIOUS
<1>1. CASE FindSymbol
  <2>1. /\ phase = "symbol" /\ file' = file /\ kernel' = kernel /\ answers' = answers
        /\ phase' \in {"units", "done"}
        /\ (phase' = "done" => ~ (kernel \in DOMAIN file.kernels /\ file.kernels[kernel].function))
    BY <1>1 DEF FindSymbol, request
  <2>2. QED
    BY <2>1, SameFound DEF PtiReturned
<1>2. CASE ReadUnit
  <2>1. /\ phase = "units" /\ file' = file /\ kernel' = kernel /\ answers' = answers /\ phase' = phase
    BY <1>2 DEF ReadUnit, KeepRows, request
  <2>2. QED
    BY <2>1, SameFound DEF PtiReturned
<1>3. CASE UNCHANGED vars
  <2>1. /\ file' = file /\ kernel' = kernel /\ answers' = answers /\ phase' = phase
        /\ unit' = unit /\ selected' = selected /\ attribute' = attribute
    BY <1>3 DEF vars, request
  <2>2. QED
    BY <2>1, SameFound DEF FoundInv, ReadInv, OfferInv, PtiReturned
<1>4. QED
  BY <1>1, <1>2, <1>3, OpenFound, WalkInfoFound, SelectInfoFound, ReadAttributeFound,
     WalkLinesFound, MapFound, ResolveFound DEF Next

LEMMA FoundCorrect == Spec => [](UnitsInv /\ FoundInv)
<1>1. Init => FoundInv
  <2> SUFFICES ASSUME Init
               PROVE  FoundInv
    OBVIOUS
  <2>1. \A o \in Offsets : answers.pti[o] = Absent
    BY DEF Init, NoAnswer
  <2>2. selected = {k \in 1 .. unit - 1 : k = kernel} /\ phase = "open"
    BY DEF Init
  <2>3. QED
    BY <2>1, <2>2 DEF FoundInv, ReadInv, OfferInv, NothingKeptInv, PtiReturned
<1>2. QED
  BY <1>1, FoundPreserved, UnitsCorrect, PTL DEF Spec

\* With a zebin as the reference relies on, whose text sections are at address 0,
\* what the reference maps PTI answers alike, up to rows of equal address, and it
\* is silent only where it cannot read a unit: selecting by relocation in
\* elf_parser.cpp finds the unit that pairing by position finds.
THEOREM PtiFindsIt == Spec => []PtiFindsTheReferencesUnit
<1>1. UnitsInv /\ FoundInv => PtiFindsTheReferencesUnit
  <2> DEFINE rows  == file.lines[kernel].rows
             zebin == ReferenceRows
  <2> SUFFICES ASSUME UnitsInv, FoundInv, PtiReturned, kernel \in DOMAIN file.kernels,
                      KernelsInOrder, ZebinSectionAtZero,
                      NEW o \in Offsets, ReferenceMaps(o)
               PROVE  \/ answers.pti[o] = Absent /\ ~ Supported
                      \/ \E n \in DOMAIN zebin :
                           /\ zebin[n].address = zebin[ReferenceRow(o)].address
                           /\ answers.pti[o] = Location(zebin[n])
    BY DEF PtiFindsTheReferencesUnit
  <2>1. Regular /\ TypeOK
    BY DEF Regular, UnitsInv
  <2>2. /\ ReferenceRow(o) = RowBelow(RuntimeAddress(o)) /\ MapsBelow(RuntimeAddress(o))
        /\ DOMAIN zebin = DOMAIN rows
        /\ \A n \in DOMAIN rows :
             /\ rows[n].address \in Nat /\ Location(zebin[n]) = Location(rows[n])
             /\ zebin[n].address = rows[n].address - file.kernels[kernel].address
    BY <2>1, SameRow
  <2>3. answers.pti[o] = Absent => ~ Supported
    BY <2>1, <2>2 DEF FoundInv, OfferInv
  <2>4. ASSUME answers.pti[o] # Absent
        PROVE  \E n \in DOMAIN zebin :
                 /\ zebin[n].address = zebin[ReferenceRow(o)].address
                 /\ answers.pti[o] = Location(zebin[n])
    <3>1. PICK k \in DOMAIN file.lines : \E n \in DOMAIN file.lines[k].rows :
            PtiAnswer(answers.pti[o], RuntimeAddress(o), k, n)
      BY <2>4 DEF UnitsInv, PtiInv
    <3>2. k = kernel
      BY <2>1, <3>1, OwnUnit DEF PtiAnswer
    <3>3. PICK n \in DOMAIN rows : PtiAnswer(answers.pti[o], RuntimeAddress(o), kernel, n)
      BY <3>1, <3>2
    <3>4. RuntimeAddress(o) \in Nat
      <4>1. file.kernels[kernel].address \in Nat /\ file.kernels[kernel].size \in Nat
        BY <2>1, FileFacts
      <4>2. QED
        BY <4>1 DEF RuntimeAddress, Offsets
    <3> DEFINE m == RowBelow(RuntimeAddress(o))
    <3>5. /\ m \in DOMAIN rows /\ rows[m].address <= RuntimeAddress(o)
          /\ \A i \in DOMAIN rows :
               rows[i].address <= RuntimeAddress(o) => rows[i].address <= rows[m].address
      BY <2>1, <2>2, <3>4, ReferenceFacts
    <3>6. /\ answers.pti[o] = Location(rows[n]) /\ rows[n].address <= RuntimeAddress(o)
          /\ \A i \in DOMAIN rows :
               InFirst(rows, i) /\ rows[i].address <= RuntimeAddress(o) => rows[i].address <= rows[n].address
      BY <3>3 DEF PtiAnswer
    <3>7. InFirst(rows, m) /\ rows[m].address \in Nat /\ rows[n].address \in Nat
      BY <2>1, <3>5, OneProgram
    <3>8. rows[n].address = rows[m].address
      BY <3>5, <3>6, <3>7
    <3>9. zebin[n].address = zebin[m].address /\ answers.pti[o] = Location(zebin[n])
      BY <2>2, <3>5, <3>6, <3>8
    <3>10. QED
      BY <2>2, <3>3, <3>9
  <2>5. QED
    BY <2>3, <2>4
<1>2. QED
  BY <1>1, FoundCorrect, PTL

\* Where addresses tell kernels apart, iga, which selects no unit, answers what PTI
\* answers wherever that is a line: a sibling's row is nearer only if it is of
\* equal address, whatever iga_adapter.cpp mixes.
THEOREM IgaAgrees == Spec => []IgaAgreesWithPti
<1>1. UnitsInv /\ FoundInv => IgaAgreesWithPti
  <2> SUFFICES ASSUME UnitsInv, FoundInv, phase = "done", KernelsInOrder, Relocated,
                      kernel \in DOMAIN file.kernels, file.kernels[kernel].function,
                      NEW o \in Offsets, answers.pti[o] # Absent, answers.pti[o].line > 0
               PROVE  \E row, other \in AllRows :
                        /\ row.address = other.address
                        /\ answers.pti[o] = Location(row) /\ answers.iga[o] = Location(other)
    BY DEF IgaAgreesWithPti
  <2> DEFINE rows == file.lines[kernel].rows
             mine == file.kernels[kernel]
  <2>1. Regular /\ TypeOK
    BY DEF Regular, UnitsInv
  <2>2. PICK k \in DOMAIN file.lines : \E n \in DOMAIN file.lines[k].rows :
          PtiAnswer(answers.pti[o], RuntimeAddress(o), k, n)
    BY DEF UnitsInv, PtiInv
  <2>3. k = kernel
    BY <2>1, <2>2, OwnUnit DEF PtiAnswer
  <2>4. PICK n \in DOMAIN rows : PtiAnswer(answers.pti[o], RuntimeAddress(o), kernel, n)
    BY <2>2, <2>3
  <2>5. /\ answers.pti[o] = Location(rows[n]) /\ rows[n].address <= RuntimeAddress(o)
        /\ rows[n].line > 0
        /\ \A i \in DOMAIN rows :
             InFirst(rows, i) /\ rows[i].address <= RuntimeAddress(o) => rows[i].address <= rows[n].address
    <3>1. /\ answers.pti[o] = Location(rows[n]) /\ rows[n].address <= RuntimeAddress(o)
          /\ \A i \in DOMAIN rows :
               InFirst(rows, i) /\ rows[i].address <= RuntimeAddress(o) => rows[i].address <= rows[n].address
      BY <2>4 DEF PtiAnswer
    <3>2. answers.pti[o].line = rows[n].line
      BY <3>1 DEF Location
    <3>3. QED
      BY <3>1, <3>2
  <2>6. rows[n] \in AllRows /\ rows[n] \in Range(rows) /\ rows[n].kernel = kernel
    BY <2>1, <2>3, RowFacts, OneProgram DEF Range
  <2>7. rows[n] \in KeptOf(DOMAIN file.info)
    <3>1. file.lines[kernel].fits
      BY <2>3 DEF FoundInv, ReadInv
    <3>2. kernel \in DOMAIN file.info /\ file.info[kernel].lines = kernel
      BY <2>1, OwnUnit
    <3>3. QED
      BY <2>5, <2>6, <3>1, <3>2 DEF KeptOf
  <2>8. answers.iga[o] # Absent
    BY <2>5, <2>7 DEF FoundInv, NothingKeptInv
  <2>9. PICK other \in AllRows : IgaAnswer(answers.iga[o], RuntimeAddress(o), other)
    BY <2>8 DEF UnitsInv, IgaInv
  <2>10. /\ answers.iga[o] = Location(other) /\ other.address <= RuntimeAddress(o)
         /\ rows[n].address <= other.address
    BY <2>5, <2>7, <2>9 DEF IgaAnswer
  <2>11. /\ rows[n].address \in Nat /\ other.address \in Nat /\ RuntimeAddress(o) \in Nat
         /\ mine.address \in Nat /\ mine.size \in Nat
         /\ mine.address <= rows[n].address /\ RuntimeAddress(o) < mine.address + mine.size
    BY <2>1, <2>6, InItsKernel
  <2>12. other.address <= rows[n].address
    <3>1. CASE other.kernel = kernel
      <4>1. PICK j \in DOMAIN file.lines : other \in Range(file.lines[j].rows)
        BY DEF AllRows
      <4>2. PICK i \in DOMAIN file.lines[j].rows : other = file.lines[j].rows[i]
        BY <4>1 DEF Range
      <4>3. j = kernel
        BY <2>1, <3>1, <4>2, OneProgram
      <4>4. i \in DOMAIN rows /\ InFirst(rows, i) /\ other = rows[i]
        BY <2>1, <4>2, <4>3, OneProgram
      <4>5. QED
        BY <2>5, <2>10, <4>4
    <3>2. CASE other.kernel # kernel
      <4> DEFINE own == file.kernels[other.kernel]
      <4>1. /\ own.address \in Nat /\ own.size \in Nat
            /\ own.address <= other.address /\ other.address <= own.address + own.size
            /\ (own.address + own.size <= mine.address \/ mine.address + mine.size <= own.address)
        BY <2>1, <3>2, InItsKernel
      <4>2. QED
        BY <2>10, <2>11, <4>1
    <3>3. QED
      BY <3>1, <3>2
  <2>13. rows[n].address = other.address
    BY <2>10, <2>11, <2>12
  <2>14. QED
    BY <2>5, <2>6, <2>10, <2>13
<1>2. QED
  BY <1>1, FoundCorrect, PTL

=============================================================================
