---------------------------- MODULE MCPtiLookup ----------------------------
(* A small instance of PtiLookup: every program of up to three operations   *)
(* between the start and the end of a sequence, with the opcode numbers of  *)
(* DWARF 4; and the programs of a machine with two operations in a word.    *)
EXTENDS PtiLookup

One(kind) == [kind |-> kind, n |-> 0]
N(kind, n) == [kind |-> kind, n |-> n]

\* The end of a sequence is above its other rows, as compilers have it.
\* Special opcodes 5 + a + 14 * b move a lines and b operations on.
Operations ==
  {N("special", 6), N("special", 19), One("copy"), N("advance_pc", 1), One("const_add_pc"),
   N("advance_line", -1), N("set_file", 2), N("set_file", 0), N("fixed_advance_pc", 3),
   One("no_effect")}
Failing == {One("unsupported"), N("advance_pc", 32), N("advance_line", 16)}

Sequence(start, body) ==
  <<N("set_address", start)>> \o body \o <<N("advance_pc", 2), One("end_sequence")>>

MCHeader(maxOps) ==
  [minInst |-> 2, maxOps |-> maxOps, lineBase |-> -5, lineRange |-> 14, opcodeBase |-> 13]

\* The text section is at address 4 of the file the adapter reads and at address
\* 0 of the zebin.
Request(maxOps, program, zebinProgram) ==
  [header |-> MCHeader(maxOps), ops |-> program, zebinOps |-> zebinProgram, found |-> TRUE,
   elfAddress |-> 4, base |-> 100, ips |-> <<99, 100, 101, 102, 104, 140, 142>>]
Placed(maxOps, body) == Request(maxOps, Sequence(4, body), Sequence(0, body))
\* Two rows at an address, and only the second has a file.
FileLate == Placed(1, <<N("set_file", 0), One("copy"), N("set_file", 2), One("copy")>>)
Plain == Placed(1, <<One("copy"), N("special", 20)>>)

\* Plain with its section elsewhere: near the end of the address space, where
\* both files have it at 0, and where the zebin has it where the other file has.
Elsewhere ==
  {[Plain EXCEPT !.elfAddress = 200, !.ips = <<100, 255>>,
                 !.ops = Sequence(200, <<One("copy"), N("special", 20)>>)],
   [Plain EXCEPT !.elfAddress = 0, !.ops = Plain.zebinOps],
   [Plain EXCEPT !.zebinOps = Plain.ops]}

MCRequests ==
       {Placed(1, body) : body \in BoundedSeq(Operations, 3)}
  \union {Placed(1, <<One("copy"), op>>) : op \in Failing}
  \union {Request(1, <<op>>, <<op>>) : op \in Operations \union {One("extended")}}
  \union {FileLate, [Plain EXCEPT !.base = 0], [Plain EXCEPT !.ips = << >>],
          [Plain EXCEPT !.found = FALSE], [Plain EXCEPT !.ips = <<100, 100>>]}
  \union Elsewhere

\* Two operations in an instruction word.
WideRequests == {Placed(2, body) : body \in BoundedSeq(Operations, 2)}
=============================================================================
