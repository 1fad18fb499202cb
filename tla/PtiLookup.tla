------------------------------ MODULE PtiLookup ------------------------------
(***************************************************************************)
(* resolve_kernel of the PTI adapter (pti_elf_parser_adapter.cpp): it runs *)
(* the line program of the kernel's unit, sorts the rows and looks every   *)
(* address up; and the reference it is compared with, for which            *)
(* correlate_vtune_report.py looks the offsets of the same addresses up in *)
(* the rows that readelf decodes from the unit in another file, the .zebin *)
(* of VTune's results.                                                     *)
(***************************************************************************)
EXTENDS DwarfLineMachine

CONSTANT Requests  \* the requests a behaviour may start from

\* A kernel that is found in the ELF file has a text section at elfAddress; the
\* kernel's unit has one sequence, whose rows name files of the unit's table.  In
\* the zebin, which places its sections itself, its line program is zebinOps.
IsRequest(r) ==
  /\ r.header \in Header /\ r.ops \in Seq(Op) /\ r.zebinOps \in Seq(Op) /\ r.found \in BOOLEAN
  /\ r.elfAddress \in 0 .. AddressSpace - 1 /\ r.base \in 0 .. AddressSpace - 1
  /\ r.ips \in Seq(0 .. AddressSpace - 1)
  /\ \A k \in 1 .. Len(r.ops) : r.ops[k].kind = "end_sequence" => k = Len(r.ops)

ASSUME RequestsAssumption == \A r \in Requests : IsRequest(r)

VARIABLES
  request,    \* the ResolveRequest and what the parser finds for it, fixed
  mappings,   \* the rows, sorted
  ip,         \* index of the loop over addr2line_ips
  locations   \* KernelResolution::locations

lookup == <<request, mappings, ip, locations>>
vars == <<machine, lookup>>

-----------------------------------------------------------------------------
(* The adapter.                                                            *)

Init ==
  /\ request \in Requests
  /\ header = request.header /\ ops = request.ops
  /\ MachineInit
  /\ mappings = << >> /\ ip = 1 /\ locations = << >>

\* Without runtime address, addresses or kernel nothing is parsed.
Answerable == request.base # 0 /\ request.ips # << >> /\ request.found

Return == phase' = "done" /\ UNCHANGED <<header, ops, pos, state, rows>>

RejectRequest ==
  /\ phase = "run" /\ pos = 1 /\ ~ Answerable
  /\ Return /\ UNCHANGED lookup

RunMachine == Answerable /\ RunOperation /\ UNCHANGED lookup

\* Orders of the rows by address.  std::sort promises no order of rows that
\* have the same address.
SortedByAddress ==
  LET n == Len(rows)
  IN  {[k \in 1 .. n |-> rows[order[k]]] :
         order \in {p \in [1 .. n -> 1 .. n] :
                      /\ IsInjective(p)
                      /\ \A k \in 2 .. n : rows[p[k - 1]].address <= rows[p[k]].address}}

\* A unit without rows has no mapping.
SortMappings ==
  /\ Answerable /\ phase = "run" /\ pos > Len(ops)
  /\ \/ rows = << >> /\ Return /\ UNCHANGED lookup
     \/ /\ rows # << >> /\ phase' = "look_up" /\ UNCHANGED <<header, ops, pos, state, rows>>
        /\ mappings' \in SortedByAddress
        /\ UNCHANGED <<request, ip, locations>>

\* The last mapping at or below an address, 0 if there is none.
LowerBound(address) ==
  Max({k \in DOMAIN mappings : mappings[k].address < address} \union {0})
UpperBound(address) ==
  Max({k \in DOMAIN mappings : mappings[k].address <= address} \union {0})

Locate(found(_), usable(_)) ==
  LET runtimeIp == request.ips[ip]
      offset    == runtimeIp - request.base
      address   == request.elfAddress + offset
      mapping   == mappings[found(address)]
      located   == /\ runtimeIp >= request.base /\ address < AddressSpace
                   /\ found(address) # 0 /\ usable(mapping)
  IN  /\ phase = "look_up" /\ ip <= Len(request.ips) /\ ip' = ip + 1
      /\ locations' = IF located
           THEN Append(locations, [ip |-> offset, file |-> mapping.file, line |-> mapping.line])
           ELSE locations
      /\ UNCHANGED <<machine, request, mappings>>

\* The end of the sequence is no location, nor is a row of file 0, which has
\* no name.
Usable(mapping) == ~ mapping.end /\ mapping.file # 0
HasFile(mapping) == mapping.file # 0

LookUpBelow == Locate(LowerBound, Usable)
LookUpPastTheEnd == Locate(UpperBound, HasFile)
LookUp == Locate(UpperBound, Usable)

FinishLookUp ==
  /\ phase = "look_up" /\ ip > Len(request.ips)
  /\ Return /\ UNCHANGED lookup

Next == RejectRequest \/ RunMachine \/ SortMappings \/ LookUp \/ FinishLookUp

Spec == Init /\ [][Next]_vars

-----------------------------------------------------------------------------
(* The reference: kernel_text_sections, decoded_lines_from_block, correlate. *)

\* The rows of the unit in the file the adapter reads, and those readelf prints
\* of the zebin.
DecodedRows == RowsOf(header, ops)[Len(ops)]
ReferenceRows == RowsOf(header, request.zebinOps)[Len(request.zebinOps)]

\* An address of a VTune report counts from the beginning of the file; the file
\* offset of the text section is taken off it and what is left, the offset in the
\* section, is looked up as it is.  Of the rows, sorted with their order kept, it
\* is the last one at or below the offset.
ReferenceRow(offset) ==
  LET below == {k \in DOMAIN ReferenceRows : ReferenceRows[k].address <= offset}
      top   == {k \in below : \A m \in below :
                  ReferenceRows[m].address <= ReferenceRows[k].address}
  IN  Max(top \union {0})

ReferenceMaps(offset) ==
  LET k == ReferenceRow(offset) IN k # 0 /\ Usable(ReferenceRows[k])

-----------------------------------------------------------------------------
(* Properties.                                                             *)

\* Every variable holds a value of its type; the machine's registers keep
\* their widths and the mappings are the rows in another order.
TypeOK ==
  /\ MachineTypeOK /\ request \in Requests
  /\ phase \in {"run", "look_up", "done", "aborted"}
  /\ mappings = << >> \/ Len(mappings) = Len(rows)
  /\ Range(mappings) \subseteq Range(rows)
  /\ ip \in 1 .. Len(request.ips) + 1
  /\ locations \in Seq([ip : 0 .. AddressSpace - 1, file : Nat, line : 0 .. Uint32Space - 1])

ElfAddress(offset) == request.elfAddress + offset
Asked == {request.ips[k] - request.base : k \in DOMAIN request.ips}

\* What the reference relies on: the zebin has the kernel's rows with its text
\* section at address 0, wherever the adapter's file has it.
ZebinSectionAtZero ==
  ReferenceRows =
    [k \in DOMAIN DecodedRows |-> [DecodedRows[k] EXCEPT !.address = @ - request.elfAddress]]

\* "PTI matches every DWARF-mapped IP" (EXPERIMENT_RESULTS.md:35): with a zebin
\* as the reference relies on, the adapter answers every address of the kernel
\* the reference maps, by the reference's row or by one that has the same
\* address, unless one of these has no file: the sort may put that one last.
MatchesEveryMappedIp ==
  phase = "done" /\ Answerable /\ ZebinSectionAtZero =>
    \A offset \in {o \in Asked : o >= 0 /\ ElfAddress(o) < AddressSpace} :
      LET same == {k \in DOMAIN ReferenceRows :
                     ReferenceRows[k].address = ReferenceRows[ReferenceRow(offset)].address}
      IN  ReferenceMaps(offset) /\ (\A k \in same : HasFile(ReferenceRows[k])) =>
            \E n \in DOMAIN locations : \E k \in same :
              /\ locations[n].ip = offset
              /\ locations[n].file = ReferenceRows[k].file
              /\ locations[n].line = ReferenceRows[k].line

\* The adapter gives no location to an address the line table does not cover,
\* before its first row or from its end on, and answers no address twice
\* unless it was asked twice.
NothingOutsideTheSequence ==
  /\ \A n \in DOMAIN locations :
       /\ locations[n].ip \in Asked
       /\ \E k \in DOMAIN DecodedRows : DecodedRows[k].address <= ElfAddress(locations[n].ip)
       /\ \A k \in DOMAIN DecodedRows :
            DecodedRows[k].end => ElfAddress(locations[n].ip) < DecodedRows[k].address
  /\ IsInjective(request.ips) =>
       \A m, n \in DOMAIN locations : locations[m].ip = locations[n].ip => m = n

=============================================================================
