------------------------------ MODULE MCElfUnits ------------------------------
(* Two kernels of four instructions.  One family of files varies units and   *)
(* relocations, the other line programs and addresses.                       *)
EXTENDS ElfUnits

Size == 4
R(k, address, line) == [address |-> address, line |-> line, end |-> FALSE, kernel |-> k]
E(k, address, line) == [address |-> address, line |-> line, end |-> TRUE, kernel |-> k]

\* Line programs of kernel k that begins at address a: plain, one that begins
\* or goes on with line 0, one that begins late, one of two sequences, one
\* with two rows of an address.
Plain(k, a)    == <<R(k, a, 1), R(k, a + 2, 2), E(k, a + 4, 2)>>
ZeroLine(k, a) == <<R(k, a, 0), R(k, a + 1, 1), R(k, a + 2, 0), E(k, a + 4, 0)>>
Late(k, a)     == <<R(k, a + 1, 2), E(k, a + 3, 3)>>
Split(k, a)    == <<R(k, a, 1), E(k, a + 2, 1), R(k, a + 2, 2), E(k, a + 4, 2)>>
Tied(k, a)     == <<R(k, a, 1), R(k, a + 1, 2), R(k, a + 1, 3), R(k, a + 3, 1), E(k, a + 4, 1)>>
Programs(k, a) == {Plain(k, a), ZeroLine(k, a), Late(k, a), Split(k, a), Tied(k, a)}

CompDir == [name |-> "comp_dir", form |-> "string"]
Before == {<< >>, <<[name |-> "stmt_list", form |-> "sec_offset"],
                    [name |-> "another", form |-> "string"], [name |-> "another", form |-> "fixed"]>>}
Attributes == {b \o <<CompDir>> : b \in Before}
              \union {<<[name |-> "comp_dir", form |-> "other"]>>, << >>,
                      <<[name |-> "another", form |-> "sec_offset"]>>}

UnitSize == 10
Info(version, attributes, k) ==
  [size |-> UnitSize, version |-> version, compileUnit |-> TRUE, attributes |-> attributes, lines |-> k]
Lines(fits, version, rows) == [size |-> UnitSize, fits |-> fits, version |-> version, rows |-> rows]

Usual(k) == Info(4, <<CompDir>>, k)
InfoUnits(k) ==
  {Info(v, <<CompDir>>, k) : v \in Versions} \union {Info(5, a, k) : a \in Attributes}
  \union {[Usual(k) EXCEPT !.compileUnit = FALSE]}

\* Relocations to each kernel in the units it is in: to its first instruction
\* and to a later one.
RelocationsIn(where) ==
  {[offset |-> UnitSize * (p[1] - 1) + 5 + addend, addend |-> addend, kernel |-> p[2]] :
     p \in {q \in (1 .. 2) \X (1 .. 2) : q[1] \in where[q[2]]}, addend \in {0, 2}}

Kernels(layout, functions) ==
  [k \in 1 .. 2 |-> [address |-> layout[k], size |-> Size, function |-> functions[k]]]
Apart == << {1}, {2} >>
BothFunctions == <<TRUE, TRUE>>

\* The zebin has the same rows, each text section at address 0.
Zebin(kernels, lines) ==
  [u \in DOMAIN lines |-> [n \in DOMAIN lines[u].rows |->
     LET row == lines[u].rows[n] IN [row EXCEPT !.address = @ - kernels[row.kernel].address]]]

File(atEnd, kernels, info, inInfo, lines, inLines) ==
  [stringsAtEnd |-> atEnd, kernels |-> kernels, info |-> info, lines |-> lines,
   zebin |-> Zebin(kernels, lines),
   infoRelocations |-> inInfo, lineRelocations |-> inLines]

\* Adjacent kernels, kernels in the other order with a gap, and kernels that
\* were not given addresses.
Layouts == {<<0, Size>>, <<2 * Size, 0>>, <<0, 0>>}

\* A line unit has the programs of the kernels it has relocations to.
RowsOf(where, layout, u) ==
  (IF u \in where[1] THEN Plain(1, layout[1]) ELSE << >>)
  \o (IF u \in where[2] THEN Plain(2, layout[2]) ELSE << >>)

UnitFiles ==
  {File(FALSE, Kernels(layout, BothFunctions), <<Usual(1), Usual(2)>>, RelocationsIn(inInfo),
        [u \in 1 .. 2 |-> Lines(TRUE, 4, RowsOf(inLines, layout, u))], RelocationsIn(inLines)) :
     layout \in Layouts, inInfo \in [1 .. 2 -> SUBSET (1 .. 2)], inLines \in [1 .. 2 -> SUBSET (1 .. 2)]}
InfoFiles ==
  {File(atEnd, Kernels(layout, BothFunctions), <<first, second>>, RelocationsIn(Apart) ,
        <<Lines(fits, 4, Plain(1, layout[1])), Lines(TRUE, version, Plain(2, layout[2]))>>,
        RelocationsIn(Apart)) :
     atEnd \in BOOLEAN, layout \in Layouts, first \in InfoUnits(1), second \in InfoUnits(2),
     fits \in BOOLEAN, version \in {4, 5}}
ProgramFiles ==
  UNION {
    {File(FALSE, Kernels(layout, functions), <<Usual(1), Usual(2)>>, RelocationsIn(Apart),
          <<Lines(TRUE, 4, first), Lines(TRUE, 4, second)>>, RelocationsIn(Apart)) :
       functions \in {BothFunctions, <<TRUE, FALSE>>},
       first \in Programs(1, layout[1]), second \in Programs(2, layout[2])} : layout \in Layouts}

\* Each of the two kernels is asked for, and one that is in no file.
MCRequests ==
  {[file |-> f, kernel |-> k] : f \in UnitFiles \union InfoFiles \union ProgramFiles, k \in 1 .. 3}

=============================================================================
