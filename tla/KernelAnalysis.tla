--------------------------- MODULE KernelAnalysis ---------------------------
(***************************************************************************)
(* What the resolver does for one kernel and one backend: it loads the     *)
(* kernel's IP list, normalizes the addresses, has the backend resolve     *)
(* them, loads the reference rows and compares (one iteration of the inner *)
(* loop of src/main.cpp, resolve_request of src/core.cpp and               *)
(* src/compare.cpp).  A loop of the code is a phase, one step an iteration.*)
(*                                                                         *)
(* A job is what the iteration finds: the kernel's record, its manifest    *)
(* entry, the IP list, the DWARF line rows and the reference file.  An     *)
(* address line remembers the offset the profiler sampled (at), which the  *)
(* program never sees: it is what the offsets are judged against.          *)
(***************************************************************************)
EXTENDS IpResolution

CONSTANTS
  Jobs,         \* the jobs a behaviour may start from
  Files,        \* spellings of source paths, EmptyPath among them
  NormalPath,   \* the lexically normal spelling of each
  EmptyPath     \* the empty path

NoLine == -1    \* std::nullopt of Location::line
Backends == {"rust-gimli", "gdb-intel", "pti-elf-parser"}
AddressForms == {"display", "relative", "runtime", "truncated"}

IpLine == [kind : {"address", "blank", "malformed"},
           form : AddressForms, at : Int]
ReferenceLine == [kind : {"row", "skipped", "invalid"},
                  ip : Nat, file : Files, line : Nat]
DwarfRow == [file : Files, line : Nat, framesReadable : BOOLEAN]

\* The address an IP list holds for offset `at` of the kernel, in the form a
\* VTune display address, a unitrace offset, or a runtime address with or
\* without the sign extension has.
AddressOf(j, line) ==
  CASE line.form = "display"   -> j.sectionFileOffset + line.at
    [] line.form = "relative"  -> line.at
    [] line.form = "runtime"   -> CanonicalizeIntelGpuAddress(j.base) + line.at
    [] line.form = "truncated" ->
         (CanonicalizeIntelGpuAddress(j.base) + line.at) % AddressSpace

IsJob(j) ==
  /\ j.base \in Address /\ j.size \in Nat /\ j.sectionFileOffset \in Nat
  /\ j.ipListReadable \in BOOLEAN /\ j.ipLines \in Seq(IpLine)
  /\ \A k \in 1 .. Len(j.ipLines) : AddressOf(j, j.ipLines[k]) \in Address
  /\ j.backend \in Backends
  /\ DOMAIN j.dwarf \subseteq Nat
  /\ \A offset \in DOMAIN j.dwarf : j.dwarf[offset] \in DwarfRow
  /\ j.format \in {"csv", "csv_without_columns", "text", "unreadable"}
  /\ j.referenceLines \in Seq(ReferenceLine)

ASSUME JobAssumption ==
  /\ \A j \in Jobs : IsJob(j)
  /\ NormalPath \in [Files -> Files]
  /\ EmptyPath \in Files

\* A kernel does not span the gap between the halves of the canonical addresses.
InOneHalf(j) ==
  LET low == j.base % AddressSpace
  IN  low + j.size <= IF low < HalfSpace THEN HalfSpace ELSE AddressSpace

\* An address itself does not say which form it has: normalize_ip_list tries one
\* after the other.  In a list it must not look like a form that is tried before
\* its own, and one that was sampled outside the kernel like none of them.
Unambiguous(j, line) ==
  LET address  == AddressOf(j, line)
      low      == j.base % AddressSpace
      inKernel == line.at \in 0 .. j.size - 1
      runtime  == line.form \in {"runtime", "truncated"}
  IN  /\ line.form = "display" => j.sectionFileOffset # 0
      /\ line.form # "display" /\ j.sectionFileOffset # 0 =>
           address - j.sectionFileOffset \notin 0 .. j.size - 1
      /\ runtime \/ ~ inKernel => address >= j.size
      /\ ~ inKernel => address % AddressSpace \notin low .. low + j.size - 1

ASSUME FormsAssumption ==
  \A j \in Jobs :
    /\ InOneHalf(j)
    /\ \A k \in 1 .. Len(j.ipLines) :
         j.ipLines[k].kind = "address" => Unambiguous(j, j.ipLines[k])

VARIABLES
  job,         \* the inputs, fixed
  phase,       \* the loop that is running
  pos,         \* its index
  ips,         \* load_ip_list: InputIp, an address and its line number
  offsets,     \* normalize_ip_list: NormalizedIp::kernel_offset
  resolved,    \* KernelResolution::locations
  references,  \* ReferenceLocations::locations
  compared,    \* compared_ips of compare_locations
  matched,     \* matched_resolved of compare_locations: the indices set
  items,       \* ComparisonReport::items
  skipped      \* ComparisonReport::skip_reason has a value

vars == <<job, phase, pos, ips, offsets, resolved, references,
          compared, matched, items, skipped>>

-----------------------------------------------------------------------------
(* The backends.                                                           *)

\* The rows a backend answers with: gimli hands on whatever it finds, the
\* GDB adapter drops answers without file or line, PTI those without file.
Answers(j, offset) ==
  /\ offset \in DOMAIN j.dwarf
  /\ j.backend # "rust-gimli" => j.dwarf[offset].file # EmptyPath
  /\ j.backend = "gdb-intel" => j.dwarf[offset].line # 0

\* PTI keeps line 0 of a DWARF row; for gimli it is an absent line.
AnswerLine(j, offset) ==
  IF j.dwarf[offset].line = 0 /\ j.backend = "rust-gimli"
  THEN NoLine ELSE j.dwarf[offset].line

\* The location resolve_kernel appends for an offset it can answer.
AnswerAt(j, offset) ==
  [ip |-> offset, file |-> j.dwarf[offset].file, line |-> AnswerLine(j, offset)]

-----------------------------------------------------------------------------
(* The comparison.                                                         *)

First(indices) == CHOOSE i \in indices : \A k \in indices : i <= k

\* compare_pair: files are compared in their normal spelling, then lines.
\* Columns are compared only under an option no caller sets.
CompareRawPaths(location, row) ==
  IF location.file # row.file THEN "file_mismatch"
  ELSE IF location.line # row.line THEN "line_mismatch"
       ELSE "match"

ComparePair(location, row) ==
  IF NormalPath[location.file] # NormalPath[row.file] THEN "file_mismatch"
  ELSE IF location.line # row.line THEN "line_mismatch"
       ELSE "match"

Candidates(ip) == {k \in 1 .. Len(references) : references[k].ip = ip}
Hits(ip) == {k \in 1 .. Len(resolved) : resolved[k].ip = ip}

\* The item for the offset of one reference row: all rows at the offset are
\* candidates, the first location the backend has there is compared with each
\* and the first match wins.
FirstCandidateItem(ip) ==
  LET hit == First(Hits(ip))
  IN  IF Hits(ip) = {}
      THEN [status |-> "missing_in_backend", resolved |-> 0,
            reference |-> First(Candidates(ip))]
      ELSE [status |-> ComparePair(resolved[hit], references[First(Candidates(ip))]),
            resolved |-> hit, reference |-> First(Candidates(ip))]

ReferenceItem(ip) ==
  LET hit      == First(Hits(ip))
      matching == {k \in Candidates(ip) :
                     ComparePair(resolved[hit], references[k]) = "match"}
      chosen   == IF matching # {} THEN First(matching) ELSE First(Candidates(ip))
  IN  IF Hits(ip) = {}
      THEN [status |-> "missing_in_backend", resolved |-> 0,
            reference |-> First(Candidates(ip))]
      ELSE [status |-> ComparePair(resolved[hit], references[chosen]),
            resolved |-> hit, reference |-> chosen]

-----------------------------------------------------------------------------
(* The machine.                                                            *)

Init ==
  /\ job \in Jobs
  /\ phase = "load_ips" /\ pos = 1
  /\ ips = << >> /\ offsets = << >> /\ resolved = << >> /\ references = << >>
  /\ compared = {} /\ matched = {} /\ items = << >> /\ skipped = FALSE

Enter(next) == phase' = next /\ pos' = 1
Advance == pos' = pos + 1 /\ UNCHANGED phase
Throw == phase' = "failed" /\ UNCHANGED pos

\* load_ip_list: a line is an address, blank or a comment, or malformed.
LoadIpLine ==
  /\ phase = "load_ips" /\ job.ipListReadable /\ pos <= Len(job.ipLines)
  /\ LET line == job.ipLines[pos]
     IN  \/ line.kind = "address" /\ Advance
            /\ ips' = Append(ips, [address |-> AddressOf(job, line), line |-> pos])
         \/ line.kind = "blank" /\ Advance /\ UNCHANGED ips
         \/ line.kind = "malformed" /\ Throw /\ UNCHANGED ips
  /\ UNCHANGED <<job, offsets, resolved, references, compared, matched, items, skipped>>

FinishIpList ==
  /\ phase = "load_ips"
  /\ \/ ~ job.ipListReadable /\ Throw
     \/ job.ipListReadable /\ pos > Len(job.ipLines) /\ Enter("normalize")
  /\ UNCHANGED <<job, ips, offsets, resolved, references, compared, matched, items, skipped>>

\* normalize_ip_list
NormalizeIp ==
  /\ phase = "normalize" /\ pos <= Len(ips) /\ Advance
  /\ offsets' = Append(offsets,
                  KernelOffset(ips[pos].address, job.base, job.size, job.sectionFileOffset))
  /\ UNCHANGED <<job, ips, resolved, references, compared, matched, items, skipped>>

\* Without a canonical runtime address no backend answers; the GDB backend's
\* child may fail, whatever it is asked.  It answers all addresses or none here:
\* an input the disk has cut and a failed read, with which it succeeds with
\* fewer (GdbAddr2Line), are left out.
StartResolve ==
  /\ phase = "normalize" /\ pos > Len(ips)
  /\ LET based == CanonicalizeIntelGpuAddress(job.base) # 0
     IN  \/ based /\ Enter("resolve")
         \/ (~ based \/ job.backend = "gdb-intel") /\ Enter("load_reference")
  /\ UNCHANGED <<job, ips, offsets, resolved, references, compared, matched, items, skipped>>

\* resolve_kernel of the three backends, one address an iteration.  Addresses
\* outside the kernel were dropped (addr2line_ips_from_normalized).  One
\* address that gimli cannot look up, below the base or with frames it cannot
\* read, disposes of every location found so far and ends the call; PTI skips
\* an address below the base; GDB subtracts the base modulo 2^64.
ResolveOffset(afterFailure) ==
  LET base     == CanonicalizeIntelGpuAddress(job.base)
      address  == Addr2LineIp(offsets[pos], job.base)
      offset   == (address - base) % Word
      answered == offsets[pos] # NoOffset /\ Answers(job, offset)
      below    == address < base
      failed   == /\ offsets[pos] # NoOffset /\ job.backend = "rust-gimli"
                  /\ below \/ (answered /\ ~ job.dwarf[offset].framesReadable)
      usable   == answered /\ (below => job.backend = "gdb-intel")
  IN  /\ phase = "resolve" /\ pos <= Len(offsets)
      /\ \/ failed /\ Enter("load_reference") /\ resolved' = afterFailure
         \/ ~ failed /\ Advance
            /\ resolved' = IF usable THEN Append(resolved, AnswerAt(job, offset)) ELSE resolved
      /\ UNCHANGED <<job, ips, offsets, references, compared, matched, items, skipped>>

ResolveKeepingPartial == ResolveOffset(resolved)
ResolveAddress == ResolveOffset(<< >>)

FinishResolve ==
  /\ phase = "resolve" /\ pos > Len(offsets) /\ Enter("load_reference")
  /\ UNCHANGED <<job, ips, offsets, resolved, references, compared, matched, items, skipped>>

\* load_reference_locations: a row, a line that is left out (a CSV row
\* without file or line, a comment, another kernel's line), or an invalid one.
ReferenceReadable == job.format \in {"csv", "text"}

LoadReferenceLine ==
  /\ phase = "load_reference" /\ ReferenceReadable
  /\ pos <= Len(job.referenceLines)
  /\ LET line == job.referenceLines[pos]
     IN  \/ line.kind = "row" /\ Advance
            /\ references' = Append(references,
                               [ip |-> line.ip, file |-> line.file, line |-> line.line])
         \/ line.kind = "skipped" /\ Advance /\ UNCHANGED references
         \/ line.kind = "invalid" /\ Throw /\ UNCHANGED references
  /\ UNCHANGED <<job, ips, offsets, resolved, compared, matched, items, skipped>>

\* A CSV reference without a usable row skips the comparison; a text
\* reference without one is compared.
FinishReference ==
  /\ phase = "load_reference"
  /\ \/ ~ ReferenceReadable /\ Throw /\ UNCHANGED skipped
     \/ /\ ReferenceReadable /\ pos > Len(job.referenceLines)
        /\ skipped' = (job.format = "csv" /\ references = << >>)
        /\ Enter(IF skipped' THEN "done" ELSE "compare")
  /\ UNCHANGED <<job, ips, offsets, resolved, references, compared, matched, items>>

\* The first loop of compare_locations; `everyRow` forgets compared_ips.
CompareRow(everyRow) ==
  LET ip == references[pos].ip
  IN  /\ phase = "compare" /\ pos <= Len(references) /\ Advance
      /\ IF ip \in compared /\ ~ everyRow
         THEN UNCHANGED <<compared, matched, items>>
         ELSE /\ compared' = compared \union {ip}
              /\ items' = Append(items, ReferenceItem(ip))
              /\ matched' = IF Hits(ip) = {} THEN matched
                            ELSE matched \union {First(Hits(ip))}
      /\ UNCHANGED <<job, ips, offsets, resolved, references, skipped>>

CompareEveryReference == CompareRow(TRUE)
CompareReference == CompareRow(FALSE)

FinishCompare ==
  /\ phase = "compare" /\ pos > Len(references) /\ Enter("flag")
  /\ UNCHANGED <<job, ips, offsets, resolved, references, compared, matched, items, skipped>>

\* The second loop of compare_locations: locations no reference row used.
FlagOnlyUncompared ==
  /\ phase = "flag" /\ pos <= Len(resolved) /\ Advance
  /\ items' = IF resolved[pos].ip \in compared THEN items
              ELSE Append(items, [status |-> "missing_in_reference",
                                  resolved |-> pos, reference |-> 0])
  /\ UNCHANGED <<job, ips, offsets, resolved, references, compared, matched, skipped>>

FlagUnmatched ==
  /\ phase = "flag" /\ pos <= Len(resolved) /\ Advance
  /\ items' = IF pos \in matched THEN items
              ELSE Append(items, [status |-> "missing_in_reference",
                                  resolved |-> pos, reference |-> 0])
  /\ UNCHANGED <<job, ips, offsets, resolved, references, compared, matched, skipped>>

FinishFlag ==
  /\ phase = "flag" /\ pos > Len(resolved) /\ phase' = "done"
  /\ UNCHANGED <<job, pos, ips, offsets, resolved, references,
                 compared, matched, items, skipped>>

Next ==
  \/ LoadIpLine \/ FinishIpList \/ NormalizeIp
  \/ StartResolve \/ ResolveAddress \/ FinishResolve
  \/ LoadReferenceLine \/ FinishReference
  \/ CompareReference \/ FinishCompare \/ FlagUnmatched \/ FinishFlag

\* One thread runs the loops to their end.
Spec == Init /\ [][Next]_vars /\ WF_vars(Next)

-----------------------------------------------------------------------------
(* Properties.                                                             *)

InputIp == [address : Address, line : Nat \ {0}]
Location == [ip : Address, file : Files, line : Nat \union {NoLine}]
Reference == [ip : Nat, file : Files, line : Nat]
Statuses == {"match", "file_mismatch", "line_mismatch",
             "missing_in_backend", "missing_in_reference"}
Item == [status : Statuses, resolved : Nat, reference : Nat]
Phases == {"load_ips", "normalize", "resolve", "load_reference", "compare", "flag",
           "done", "failed"}

\* Every variable holds a value of its type: offsets are offsets of the kernel
\* or NoOffset, locations have 64-bit offsets (src/compare.cpp, src/types.h).
TypeOK ==
  /\ job \in Jobs
  /\ phase \in Phases /\ pos \in Nat \ {0}
  /\ ips \in Seq(InputIp)
  /\ offsets \in Seq((0 .. job.size - 1) \union {NoOffset})
  /\ resolved \in Seq(Location) /\ references \in Seq(Reference)
  /\ compared \subseteq Nat /\ matched \subseteq Nat
  /\ items \in Seq(Item) /\ skipped \in BOOLEAN

InKernel(at) == at \in 0 .. job.size - 1
Sampled ==
  {job.ipLines[k].at : k \in {n \in 1 .. Len(job.ipLines) : job.ipLines[n].kind = "address"}}

\* normalize_ip_list gives every sampled address the offset the profiler
\* sampled, whichever form the list has it in, and no offset to an address
\* outside the kernel.
OffsetsAreExact ==
  \A i \in 1 .. Len(offsets) :
    LET at == job.ipLines[ips[i].line].at
    IN  offsets[i] = IF InKernel(at) THEN at ELSE NoOffset

\* compare_locations reports each offset of the reference by one item, however
\* many rows it has there.
OneItemPerReferenceOffset ==
  phase \in {"flag", "done"} /\ ~ skipped =>
    \A k \in 1 .. Len(references) :
      \E n \in 1 .. Len(items) :
        /\ items[n].reference # 0
        /\ references[items[n].reference].ip = references[k].ip
        /\ \A m \in 1 .. Len(items) :
             /\ items[m].reference # 0
             /\ references[items[m].reference].ip = references[k].ip
             => m = n

\* Every location a backend returned is in exactly one item of a finished
\* comparison: none is dropped, none is counted twice.
EveryLocationReportedOnce ==
  phase = "done" /\ ~ skipped =>
    \A k \in 1 .. Len(resolved) :
      \E n \in 1 .. Len(items) :
        /\ items[n].resolved = k
        /\ \A m \in 1 .. Len(items) : items[m].resolved = k => m = n

ItemOffset(item) ==
  IF item.reference # 0 THEN references[item.reference].ip ELSE resolved[item.resolved].ip

Agrees(offset, row) ==
  /\ NormalPath[job.dwarf[offset].file] = NormalPath[row.file]
  /\ AnswerLine(job, offset) = row.line

RowsAt(offset) == {k \in 1 .. Len(references) : references[k].ip = offset}

\* A verdict holds of the inputs, not only of the lists it was computed from:
\* an offset with a verdict about its location was sampled and has a DWARF row,
\* which agrees with a reference row there exactly if the verdict is a match;
\* an offset is missing in the backend only if it was not sampled, has no row
\* the backend can use, or the backend failed as a whole.
VerdictsReflectInputs ==
  \A n \in 1 .. Len(items) :
    LET offset == ItemOffset(items[n])
        answered == InKernel(offset) /\ offset \in Sampled /\ Answers(job, offset)
    IN  IF items[n].status = "missing_in_backend"
        THEN resolved = << >> \/ ~ answered
        ELSE /\ answered
             /\ items[n].status # "missing_in_reference" =>
                  ( items[n].status = "match"
                    <=> \E k \in RowsAt(offset) : Agrees(offset, references[k]) )

ReferenceIsDwarf ==
  \A k \in 1 .. Len(references) :
    /\ references[k].ip \in DOMAIN job.dwarf
    /\ NormalPath[references[k].file] = NormalPath[job.dwarf[references[k].ip].file]
    /\ references[k].line = job.dwarf[references[k].ip].line

\* Against a reference made from the same DWARF rows the only mismatches are
\* line mismatches of rust-gimli at rows of line 0 (EXPERIMENT_RESULTS.md:34).
DwarfReferenceMismatchesOnlyAtLineZero ==
  ReferenceIsDwarf =>
    \A n \in 1 .. Len(items) :
      /\ items[n].status # "file_mismatch"
      /\ items[n].status = "line_mismatch" =>
           job.backend = "rust-gimli" /\ references[items[n].reference].line = 0

\* The note of a missing_in_reference item, "backend returned a location not
\* present in the reference file" (src/compare.cpp:263), is true: no reference
\* row has that location's offset, file and line.
MissingInReferenceIsTruthful ==
  \A n \in 1 .. Len(items) :
    items[n].status = "missing_in_reference" =>
      \A k \in RowsAt(ItemOffset(items[n])) :
        ComparePair(resolved[items[n].resolved], references[k]) # "match"

=============================================================================
