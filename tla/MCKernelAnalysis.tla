-------------------------- MODULE MCKernelAnalysis --------------------------
(* A small instance of KernelAnalysis: 4 significant address bits of 5, a   *)
(* kernel of two instructions.                                              *)
EXTENDS KernelAnalysis, SequencesExt

MCEmptyPath == ""
MCFiles == {"a", "./a", "b", MCEmptyPath}
MCNormalPath == [f \in MCFiles |-> IF f = "./a" THEN "a" ELSE f]

Line(form, at) == [kind |-> "address", form |-> form, at |-> at]
Blank == [kind |-> "blank", form |-> "relative", at |-> 0]
Malformed == [kind |-> "malformed", form |-> "relative", at |-> 0]
Row(ip, file, line) == [kind |-> "row", ip |-> ip, file |-> file, line |-> line]
NoRow(kind) == [kind |-> kind, ip |-> 0, file |-> MCEmptyPath, line |-> 0]

Dwarf(file, line, frames) == [file |-> file, line |-> line, framesReadable |-> frames]

\* The kernel is at address 28, in the upper half of the space (12 is 28
\* without its sign extension), or at 6, in the lower half.
RuntimeForms(base) ==
  IF CanonicalizeIntelGpuAddress(base) = 0 THEN {}
  ELSE {Line("runtime", at) : at \in -1 .. 2} \union {Line("truncated", at) : at \in {0, 2}}
ListForms(base, sectionFileOffset) ==
  RuntimeForms(base) \union
    {Line(IF sectionFileOffset = 0 THEN "relative" ELSE "display", at) : at \in 0 .. 2}

Placed(base, sectionFileOffset, ipLines) ==
  [base |-> base, size |-> 2, sectionFileOffset |-> sectionFileOffset,
   ipListReadable |-> TRUE, ipLines |-> ipLines,
   backend |-> "pti-elf-parser", dwarf |-> (0 :> Dwarf("a", 1, TRUE)),
   format |-> "csv", referenceLines |-> <<Row(0, "./a", 1)>>]

\* Every placement of the kernel with every list of up to two addresses.
PlacementJobs ==
  UNION {{Placed(base, sfo, ipLines) :
            ipLines \in BoundedSeq(ListForms(base, sfo) \union {Blank}, 2)}
         : base \in {0, 6, 12, 16, 28}, sfo \in {0, 1, 3}}

DwarfRows ==
  {Dwarf("a", 1, TRUE), Dwarf("./a", 0, TRUE), Dwarf("a", 1, FALSE), Dwarf(MCEmptyPath, 1, TRUE)}
IpLists ==
  {<<>>, <<Line("relative", 0)>>, <<Line("relative", 0), Line("relative", 1)>>,
   <<Line("runtime", 1), Line("truncated", 0), Line("relative", 0)>>}
ReferenceRows ==
  {Row(0, "./a", 1), Row(0, "b", 1), Row(0, "a", 0), Row(1, "a", 1), Row(1, "b", 0)}

\* Every DWARF table of two rows with every reference of up to three rows.
ComparisonJobs ==
  [base : {28}, size : {2}, sectionFileOffset : {0}, ipListReadable : {TRUE},
   ipLines : IpLists, backend : Backends,
   dwarf : UNION {[covered -> DwarfRows] : covered \in SUBSET (0 .. 1)},
   format : {"csv"}, referenceLines : BoundedSeq(ReferenceRows, 3)]

\* Files that are missing or hold lines the loaders reject or leave out.
FaultyJobs ==
  [base : {28}, size : {2}, sectionFileOffset : {0}, ipListReadable : BOOLEAN,
   ipLines : {<<Line("relative", 0), Blank, Malformed>>, <<Line("relative", 0), Blank>>},
   backend : {"pti-elf-parser"}, dwarf : {0 :> Dwarf("a", 1, TRUE)},
   format : {"csv", "csv_without_columns", "text", "unreadable"},
   referenceLines : BoundedSeq({Row(0, "a", 1), NoRow("skipped"), NoRow("invalid")}, 2)]

MCJobs == PlacementJobs \union ComparisonJobs \union FaultyJobs
=============================================================================
