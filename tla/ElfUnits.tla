------------------------------ MODULE ElfUnits ------------------------------
(***************************************************************************)
(* How two adapters find the line table of one kernel among those of a GPU *)
(* ELF file.  The PTI parser (elf_parser.cpp, section_debug_info.cpp) walks *)
(* .debug_info and .debug_line, keeps the units that hold a relocation to  *)
(* the kernel and goes on only with a single one of each.  The iga adapter *)
(* (iga_adapter.cpp) looks the kernel's symbol up and mixes the rows of    *)
(* all units.  The reference (correlate_vtune_report.py) reads another     *)
(* file, the .zebin of VTune's results, pairs its i-th text section with   *)
(* its i-th unit and looks offsets in the section up in the unit's rows.   *)
(*                                                                         *)
(* Kernels are numbered in the order of their text sections.  A row keeps  *)
(* the kernel whose code it describes, which only the properties look at.  *)
(***************************************************************************)
EXTENDS Integers, SequencesExt

CONSTANT Requests  \* the files and the kernels asked for

Versions == 3 .. 5
Forms == {"string", "fixed", "sec_offset", "other"}
Attribute == [name : {"comp_dir", "stmt_list", "another"}, form : Forms]

InfoUnit == [size : Nat \ {0}, version : Versions, compileUnit : BOOLEAN,
             attributes : Seq(Attribute), lines : Nat]
Row == [address : Nat, line : Nat, end : BOOLEAN, kernel : Nat]
LineUnit == [size : Nat \ {0}, fits : BOOLEAN, version : Versions, rows : Seq(Row)]
Relocation == [offset : Nat, addend : Nat, kernel : Nat]
Kernel == [address : Nat, size : Nat \ {0}, function : BOOLEAN]

\* A row is in a sequence, which describes code of one kernel and ends with a
\* row at the first address behind that code.
InSequences(rows) ==
  \A n \in DOMAIN rows : ~ rows[n].end =>
    \E m \in DOMAIN rows :
      /\ n < m /\ rows[m].end /\ \A j \in n .. m - 1 : ~ rows[j].end
      /\ rows[m].kernel = rows[n].kernel /\ rows[n].address < rows[m].address

\* The string table may be the last thing in the file, and a kernel may have
\* no text section; unit k refers to line unit info[k].lines.  A kernel's address
\* stands for three numbers of the code, taken to be equal: the address of its
\* text section (elf_parser.cpp:281), the value of its symbol (iga_adapter.cpp:119)
\* and where its rows are counted from after adding libdw's bias (there, 170).
\* zebin[k] are the rows readelf prints of the k-th unit of the .zebin.
IsFile(f) ==
  /\ f.stringsAtEnd \in BOOLEAN /\ f.kernels \in Seq(Kernel)
  /\ f.info \in Seq(InfoUnit) /\ f.lines \in Seq(LineUnit)
  /\ f.zebin \in Seq(Seq(Row))
  /\ f.infoRelocations \subseteq Relocation /\ f.lineRelocations \subseteq Relocation
  /\ \A k \in DOMAIN f.info : f.info[k].lines \in DOMAIN f.lines
  /\ \A k \in DOMAIN f.lines :
       /\ InSequences(f.lines[k].rows)
       /\ \A row \in Range(f.lines[k].rows) : row.kernel \in DOMAIN f.kernels

IsRequest(r) == IsFile(r.file) /\ r.kernel \in 1 .. Len(r.file.kernels) + 1

ASSUME RequestsAssumption == \A r \in Requests : IsRequest(r)

Absent == [line |-> 0, kernel |-> 0]   \* no location: the code of no kernel

VARIABLES
  file, kernel,  \* the request, fixed; a kernel past the last is in no section
  phase,         \* where resolve_kernel of the one, then the other adapter is
  padded,        \* a zero byte was appended to the file
  unit,          \* index of the unit the walk is at
  attribute,     \* index of the attribute GetCompDir is at
  selected,      \* debug_info_units, then debug_line_units
  locations,     \* dwarf_locations, the rows iga keeps
  answers        \* what each adapter answered, by offset

request == <<file, kernel>>
vars == <<request, phase, padded, unit, attribute, selected, locations, answers>>

-----------------------------------------------------------------------------
(* Units, relocations and rows.                                            *)

\* Where a unit begins in its section: the walk goes on by the size of each.
Begins(units) ==
  LET begin[k \in 0 .. Len(units)] == IF k = 0 THEN 0 ELSE begin[k - 1] + units[k].size
  IN  begin
Offset(units, k) == Begins(units)[k - 1]

\* A mutant: the kernel of a relocation is not compared.
RelocationsOfAny(relocations) == {r \in relocations : r.addend = 0}

\* GetRelaForKernel: relocations without addend to the kernel's text section.
RelocationsOf(relocations) == {r \in relocations : r.addend = 0 /\ r.kernel = kernel}

Holds(units, k, relocations) ==
  \E r \in RelocationsOf(relocations) :
    r.offset > Offset(units, k) /\ r.offset < Offset(units, k) + units[k].size

\* The rows up to the first end of a sequence, which is where the state
\* machine stops.
FirstSequence(rows) ==
  {rows[k] : k \in {k \in DOMAIN rows : \A j \in 1 .. k - 1 : ~ rows[j].end}}

\* The tables a sort by address can leave, as the row a look-up finds for each
\* address: std::sort may put any of the rows of an address last.
Tables(rows) ==
  LET at(a) == {r \in rows : r.address = a}
      addresses == {r.address : r \in rows}
      tied == {a \in addresses : Cardinality(at(a)) > 1}
  IN  {[a \in addresses |-> IF a \in tied THEN last[a] ELSE CHOOSE r \in at(a) : TRUE] :
         last \in {t \in [tied -> rows] : \A a \in tied : t[a] \in at(a)}}

\* The entry before upper_bound.
FoundBelow(table, address) == {a \in DOMAIN table : a < address}
Found(table, address) == {a \in DOMAIN table : a <= address}

Location(row) == [line |-> row.line, kernel |-> row.kernel]
Offsets == 0 .. (IF kernel \in DOMAIN file.kernels THEN file.kernels[kernel].size ELSE 1) - 1
NoAnswer == [o \in Offsets |-> Absent]

-----------------------------------------------------------------------------
(* The PTI adapter.                                                        *)

Init ==
  /\ \E r \in Requests : file = r.file /\ kernel = r.kernel
  /\ phase = "open" /\ padded = FALSE /\ unit = 1 /\ attribute = 1
  /\ selected = {} /\ locations = {} /\ answers = [pti |-> NoAnswer, iga |-> NoAnswer]

\* The parser returns no mapping, and the adapter no location.
GiveUp == phase' = "symbol" /\ unit' = 1 /\ selected' = {} /\ UNCHANGED <<attribute, answers>>

\* A mutant: what the parser rejects is not tried again.
OpenOnce ==
  /\ phase = "open" /\ UNCHANGED <<request, padded, locations>>
  /\ IF file.stringsAtEnd \/ kernel \notin DOMAIN file.kernels
     THEN GiveUp
     ELSE phase' = "info" /\ UNCHANGED <<unit, attribute, selected, answers>>

\* resolve_kernel up to the mapping.  The parser rejects a string table that
\* ends with the file; a byte is appended and it is tried again.
Open ==
  /\ phase = "open" /\ UNCHANGED <<request, locations>>
  /\ padded' = file.stringsAtEnd
  /\ IF kernel \notin DOMAIN file.kernels
     THEN GiveUp
     ELSE phase' = "info" /\ UNCHANGED <<unit, attribute, selected, answers>>

\* One iteration over a section: a unit the parser cannot read ends it all,
\* whichever kernel it belongs to.
Walk(units, readable(_), relocations) ==
  /\ unit <= Len(units) /\ UNCHANGED <<request, padded, locations>>
  /\ IF ~ readable(units[unit])
     THEN GiveUp
     ELSE /\ unit' = unit + 1
          /\ selected' = IF Holds(units, unit, relocations) THEN selected \union {unit} ELSE selected
          /\ UNCHANGED <<phase, attribute, answers>>

WalkInfo ==
  phase = "info" /\ Walk(file.info, LAMBDA u : u.version \in {4, 5}, file.infoRelocations)

TakeInfo ==
  phase' = "comp_dir" /\ attribute' = 1 /\ UNCHANGED <<unit, selected, answers>>

\* A mutant: of several units one is taken.
SelectAnyInfo ==
  /\ phase = "info" /\ unit > Len(file.info) /\ UNCHANGED <<request, padded, locations>>
  /\ IF selected = {} THEN GiveUp ELSE TakeInfo

\* Of no unit or of several, none is taken.
SelectInfo ==
  /\ phase = "info" /\ unit > Len(file.info) /\ UNCHANGED <<request, padded, locations>>
  /\ IF Cardinality(selected) # 1 THEN GiveUp ELSE TakeInfo

InfoSelected == file.info[CHOOSE k \in selected : TRUE]
Abort == phase' = "aborted" /\ UNCHANGED <<unit, attribute, selected, answers>>

\* GetCompDir: an attribute is skipped by the size of its form; what the
\* switch does not know fails an assertion.
Skipped(a) ==
  \/ a.form = "fixed"
  \/ a.form = "string" /\ a.name # "comp_dir"
  \/ a.form = "sec_offset" /\ a.name = "stmt_list"

ReadAttribute ==
  LET attributes == InfoSelected.attributes
      a == attributes[attribute]
  IN  /\ phase = "comp_dir" /\ UNCHANGED <<request, padded, locations>>
      /\ \/ ~ InfoSelected.compileUnit /\ Abort
         \/ InfoSelected.compileUnit /\ attribute > Len(attributes) /\ GiveUp
         \/ /\ InfoSelected.compileUnit /\ attribute <= Len(attributes)
            /\ \/ /\ a = [name |-> "comp_dir", form |-> "string"]
                  /\ phase' = "lines" /\ unit' = 1 /\ selected' = {}
                  /\ UNCHANGED <<attribute, answers>>
               \/ /\ Skipped(a) /\ attribute' = attribute + 1
                  /\ UNCHANGED <<phase, unit, selected, answers>>
               \/ a.form = "other" /\ Abort
               \/ a.form = "sec_offset" /\ a.name # "stmt_list" /\ Abort

WalkLines ==
  phase = "lines" /\ Walk(file.lines, LAMBDA u : u.fits, file.lineRelocations)

\* GetMapping of the line unit and the look-up of every address.
Answer(adapter, table, found(_, _), usable(_)) ==
  [answers EXCEPT ![adapter] =
     [o \in Offsets |->
        LET below == found(table, file.kernels[kernel].address + o)
            row == table[Max(below)]
        IN  IF below = {} THEN Absent ELSE IF usable(row) THEN Location(row) ELSE Absent]]

\* Of the line units, too, exactly one must be the kernel's; its program must
\* be of version 4, whichever version its unit in .debug_info has.
Map ==
  /\ phase = "lines" /\ unit > Len(file.lines) /\ UNCHANGED <<request, padded, locations>>
  /\ LET lines == file.lines[Max(selected)] IN
       IF Cardinality(selected) # 1 \/ lines.version # 4
       THEN GiveUp
       ELSE /\ \E table \in Tables(FirstSequence(lines.rows)) :
                 answers' = Answer("pti", table, Found, LAMBDA row : ~ row.end)
            /\ phase' = "symbol" /\ unit' = 1 /\ selected' = {} /\ UNCHANGED attribute

-----------------------------------------------------------------------------
(* The iga adapter.                                                        *)

\* load_kernel_dwarf_address: the nonempty function symbol of the name.
FindSymbol ==
  /\ phase = "symbol" /\ UNCHANGED <<request, padded, unit, attribute, selected, locations, answers>>
  /\ phase' = IF kernel \in DOMAIN file.kernels /\ file.kernels[kernel].function
              THEN "units" ELSE "done"

\* One iteration over dwarf_get_units: lines libdw cannot read are left out.
KeepRows(usable(_)) ==
  /\ phase = "units" /\ unit <= Len(file.info) /\ unit' = unit + 1
  /\ LET lines == file.lines[file.info[unit].lines]
     IN  locations' = locations \union
           (IF lines.fits THEN {row \in Range(lines.rows) : usable(row)} ELSE {})
  /\ UNCHANGED <<request, phase, padded, attribute, selected, answers>>

\* A mutant: line 1 is left out with line 0.
ReadUnitPastLineOne == KeepRows(LAMBDA row : row.line > 1)

\* Rows without line are left out, the ends of sequences are kept.
ReadUnit == KeepRows(LAMBDA row : row.line > 0)

\* The sort and the look-up of every address, among the rows of all kernels.
ResolveBy(found(_, _)) ==
  /\ phase = "units" /\ unit > Len(file.info) /\ phase' = "done"
  /\ \E table \in Tables(locations) : answers' = Answer("iga", table, found, LAMBDA row : TRUE)
  /\ UNCHANGED <<request, padded, unit, attribute, selected, locations>>

\* A mutant: a row at the very address is passed over.
ResolveBelow == ResolveBy(FoundBelow)
Resolve == ResolveBy(Found)

Next ==
  \/ Open \/ WalkInfo \/ SelectInfo \/ ReadAttribute \/ WalkLines \/ Map
  \/ FindSymbol \/ ReadUnit \/ Resolve

Spec == Init /\ [][Next]_vars

-----------------------------------------------------------------------------
(* Properties.                                                             *)

\* Every variable holds a value of its type; the walks stay in their sections.
TypeOK ==
  /\ IsRequest([file |-> file, kernel |-> kernel])
  /\ phase \in {"open", "info", "comp_dir", "lines", "symbol", "units", "done", "aborted"}
  /\ padded \in BOOLEAN
  /\ unit \in 1 .. (IF phase = "lines" THEN Len(file.lines) ELSE Len(file.info)) + 1
  /\ selected \subseteq (IF phase = "lines" THEN DOMAIN file.lines ELSE DOMAIN file.info)
  /\ phase \in {"comp_dir", "aborted"} => Cardinality(selected) = 1
  /\ locations \subseteq Row
  /\ LET LookUps == [Offsets -> [line : Nat, kernel : 0 .. Len(file.kernels)]]
     IN  answers \in [pti : LookUps, iga : LookUps]

PtiReturned == phase \in {"symbol", "units", "done"}
AllRows == UNION {Range(file.lines[k].rows) : k \in DOMAIN file.lines}
RuntimeAddress(offset) == file.kernels[kernel].address + offset

\* No two kernels share addresses, and rows lie in their kernel.
Relocated ==
  LET End(k) == file.kernels[k].address + file.kernels[k].size
  IN  /\ \A j, k \in DOMAIN file.kernels :
           j # k => End(j) <= file.kernels[k].address \/ End(k) <= file.kernels[j].address
      /\ \A row \in AllRows : file.kernels[row.kernel].address <= row.address
                              /\ row.address <= End(row.kernel)

\* Every line unit describes one kernel, the one its relocations name.
OneKernelPerUnit ==
  \A k \in DOMAIN file.lines :
    /\ \A row, other \in Range(file.lines[k].rows) : row.kernel = other.kernel
    /\ \A r \in file.lineRelocations : \A row \in Range(file.lines[k].rows) :
         Offset(file.lines, k) < r.offset /\ r.offset < Offset(file.lines, k) + file.lines[k].size
           => r.kernel = row.kernel

\* The k-th unit holds the relocations to kernel k, one of them to its first
\* instruction.
EachOwns(units, relocations) ==
  /\ \A k \in DOMAIN file.kernels : \E r \in relocations : r.kernel = k /\ r.addend = 0
  /\ \A r \in relocations :
       /\ r.kernel \in DOMAIN file.kernels
       /\ Offset(units, r.kernel) < r.offset
       /\ r.offset < Offset(units, r.kernel) + units[r.kernel].size

\* What the reference relies on and IGC writes: the k-th units are the k-th
\* kernel's and its line program is one sequence.
KernelsInOrder ==
  /\ Len(file.info) = Len(file.kernels) /\ Len(file.lines) = Len(file.kernels)
  /\ EachOwns(file.info, file.infoRelocations) /\ EachOwns(file.lines, file.lineRelocations)
  /\ \A k \in DOMAIN file.kernels :
       /\ file.info[k].lines = k
       /\ LET rows == file.lines[k].rows IN
            \A n \in DOMAIN rows : rows[n].kernel = k /\ (rows[n].end <=> n = Len(rows))

\* "each selected symbol resolves only to its own address range and never
\* returns locations from its sibling kernels" (WORKLOAD_CORPUS.md:30), for
\* PTI: with addresses that tell kernels apart, or units that do.
PtiNeverAnswersForASibling ==
  PtiReturned /\ (Relocated \/ OneKernelPerUnit) =>
    \A o \in Offsets : answers.pti[o] # Absent => answers.pti[o].kernel = kernel

\* The rows the reference reads: of the unit at the kernel's index.
ReferenceRows == file.zebin[kernel]

\* The row it has for an offset, the address of a VTune report less the file
\* offset of the text section: the last row at or below that very number, in the
\* order of the program.
ReferenceRow(offset) ==
  LET below == {n \in DOMAIN ReferenceRows : ReferenceRows[n].address <= offset}
      top   == {n \in below : \A m \in below :
                  ReferenceRows[m].address <= ReferenceRows[n].address}
  IN  Max(top \union {0})
ReferenceMaps(offset) ==
  ReferenceRow(offset) # 0 /\ ~ ReferenceRows[ReferenceRow(offset)].end

\* What the reference relies on: in the zebin the kernel's unit is at the same
\* index and its text section at address 0, wherever the file read here has it.
ZebinSectionAtZero ==
  LET rows == file.lines[kernel].rows
      Moved(row) == [row EXCEPT !.address = @ - file.kernels[kernel].address]
  IN  /\ kernel \in DOMAIN file.zebin
      /\ ReferenceRows = [n \in DOMAIN rows |-> Moved(rows[n])]

\* Everything the parser walks over it can read, units of siblings included.
Supported ==
  /\ \A k \in DOMAIN file.info : file.info[k].version \in {4, 5}
  /\ \A k \in DOMAIN file.lines : file.lines[k].fits
  /\ file.lines[kernel].version = 4
  /\ \E n \in DOMAIN file.info[kernel].attributes :
       file.info[kernel].attributes[n] = [name |-> "comp_dir", form |-> "string"]

\* Selecting by relocation and pairing by position lead to the same rows: with
\* a zebin as the reference relies on, what the reference maps, PTI answers alike,
\* up to rows of equal address, or it answers nothing for a unit it cannot read.
PtiFindsTheReferencesUnit ==
  PtiReturned /\ kernel \in DOMAIN file.kernels /\ KernelsInOrder /\ ZebinSectionAtZero =>
    \A o \in Offsets :
      ReferenceMaps(o) =>
        \/ answers.pti[o] = Absent /\ ~ Supported
        \/ \E n \in DOMAIN ReferenceRows :
             /\ ReferenceRows[n].address = ReferenceRows[ReferenceRow(o)].address
             /\ answers.pti[o] = Location(ReferenceRows[n])

\* Selecting no unit at all leads there too: where addresses tell kernels
\* apart, iga answers what PTI answers, up to rows of equal address and to
\* lines of number 0.
IgaAgreesWithPti ==
  /\ phase = "done" /\ KernelsInOrder /\ Relocated
  /\ kernel \in DOMAIN file.kernels /\ file.kernels[kernel].function
  => \A o \in Offsets :
       answers.pti[o] # Absent /\ answers.pti[o].line > 0 =>
         \E row, other \in AllRows :
           /\ row.address = other.address
           /\ answers.pti[o] = Location(row) /\ answers.iga[o] = Location(other)

\* When iga does answer with a sibling's location, the kernel has no row with
\* a line there yet, or the sibling's sequence ends at the address of that row.
IgaStraysOnlyBeforeItsFirstRow ==
  phase = "done" /\ Relocated =>
    \A o \in Offsets :
      answers.iga[o] # Absent /\ answers.iga[o].kernel # kernel =>
        \A k \in {file.info[j].lines : j \in DOMAIN file.info} :
        \A row \in Range(file.lines[k].rows) :
          file.lines[k].fits /\ row.kernel = kernel /\ row.line > 0
            /\ row.address <= RuntimeAddress(o)
            => \E other \in AllRows : other.end /\ other.kernel # kernel
                                      /\ other.address = row.address

=============================================================================
