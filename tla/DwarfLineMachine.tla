-------------------------- MODULE DwarfLineMachine --------------------------
(***************************************************************************)
(* The PTI parser's interpreter of a DWARF line number program             *)
(* (src/adapters/pti/gpu_elf_parser/src/dwarf_state_machine.cpp), and what *)
(* the program means: the rows any decoder has to find in it.              *)
(*                                                                         *)
(* A program is a header and a sequence of decoded operations.  Columns,   *)
(* discriminators, ISA and statement flags decide no row's address, file   *)
(* or line and are left out.  A failing PTI_ASSERT aborts the process.     *)
(***************************************************************************)
EXTENDS Integers, FiniteSetsExt, SequencesExt

CONSTANTS
  AddressSpace,   \* 2^64: values of DwarfState::address
  Uint32Space,    \* 2^32: values of DwarfState::line, of an address advance
  OperandLimit    \* 2^28: the least LEB128 operand Decode32 cannot finish

\* The line register starts at 1.
ASSUME SpacesAssumption ==
  /\ AddressSpace \in Nat \ {0} /\ Uint32Space \in Nat \ {0, 1}
  /\ OperandLimit \in Nat \ {0}

Kinds == {"special", "copy", "advance_pc", "advance_line", "set_file", "const_add_pc",
          "fixed_advance_pc", "set_address", "end_sequence", "no_effect", "extended",
          "unsupported"}

\* Only advance_line has a signed operand.
Op == {op \in [kind : Kinds, n : Int] :
         /\ op.kind = "special" => op.n \in 0 .. 255
         /\ op.kind = "set_address" => op.n \in 0 .. AddressSpace - 1
         /\ op.kind # "advance_line" => op.n \in Nat}
Header == [minInst : Nat, maxOps : Nat \ {0}, lineBase : Int, lineRange : Nat \ {0},
           opcodeBase : 1 .. 13]

VARIABLES
  header,   \* header_, fixed
  ops,      \* the operations between the header and the end of the unit, fixed
  phase,    \* "run" while the machine runs
  pos,      \* the operation ptr points to
  state,    \* state_
  rows      \* line_info_

machine == <<header, ops, phase, pos, state, rows>>

-----------------------------------------------------------------------------
(* The interpreter.                                                        *)

InitialState == [address |-> 0, operation |-> 0, file |-> 1, line |-> 1]

MachineInit == phase = "run" /\ pos = 1 /\ state = InitialState /\ rows = << >>

UpdateAddress(s, advance) ==
  LET bytes == header.minInst * ((s.operation + advance) \div header.maxOps)
  IN  [s EXCEPT !.address = (@ + (bytes % Uint32Space)) % AddressSpace]

UpdateOperationUnreduced(s, advance) == [s EXCEPT !.operation = @ + advance]

UpdateOperation(s, advance) ==
  [s EXCEPT !.operation = (@ + advance) % header.maxOps]

UpdateLine(s, opcode) ==
  [s EXCEPT !.line = (@ + header.lineBase + (opcode % header.lineRange)) % Uint32Space]

UpdateLineInfo(s, isEnd) ==
  rows' = Append(rows, [address |-> s.address, file |-> s.file, line |-> s.line,
                        end |-> isEnd])

\* Decode32 gives up after four bytes of seven bits.
Decodable(op) ==
  CASE op.kind \in {"advance_pc", "set_file", "no_effect", "extended"} -> op.n < OperandLimit
    [] op.kind = "advance_line" ->
         2 * op.n \in (- OperandLimit) .. (OperandLimit - 1)
    [] OTHER -> TRUE

\* After every operation but an extended one the unit must go on.
Reads(kind) ==
  /\ phase = "run" /\ pos <= Len(ops) /\ ops[pos].kind = kind
  /\ Decodable(ops[pos])
  /\ pos = Len(ops) => kind \in {"end_sequence", "extended"}

Continue == pos' = pos + 1 /\ UNCHANGED <<header, ops, phase>>

\* Opcode 255, less the base, in operation advances.
ConstantAdvance(h) == (255 - h.opcodeBase) \div h.lineRange

RunSpecialForgettingLine ==
  /\ Reads("special") /\ Continue
  /\ LET advance == ops[pos].n \div header.lineRange
     IN  state' = UpdateAddress(UpdateOperation(state, advance), advance)
  /\ UpdateLineInfo(state', FALSE)

\* The operation register is updated before the address is computed from it.
RunSpecial ==
  /\ Reads("special") /\ Continue
  /\ LET advance == ops[pos].n \div header.lineRange
     IN  state' = UpdateAddress(UpdateOperation(UpdateLine(state, ops[pos].n), advance), advance)
  /\ UpdateLineInfo(state', FALSE)

RunCopy ==
  /\ Reads("copy") /\ Continue
  /\ UpdateLineInfo(state, FALSE) /\ UNCHANGED state

RunAdvancePc ==
  /\ Reads("advance_pc") /\ Continue
  /\ state' = UpdateOperation(UpdateAddress(state, ops[pos].n), ops[pos].n)
  /\ UNCHANGED rows

RunConstAddPc ==
  /\ Reads("const_add_pc") /\ Continue
  /\ LET advance == ConstantAdvance(header)
     IN  state' = UpdateOperation(UpdateAddress(state, advance), advance)
  /\ UNCHANGED rows

RunFixedAdvancePc ==
  /\ Reads("fixed_advance_pc") /\ Continue
  /\ state' = [state EXCEPT !.address = (@ + ops[pos].n) % AddressSpace, !.operation = 0]
  /\ UNCHANGED rows

RunAdvanceLine ==
  /\ Reads("advance_line") /\ Continue
  /\ state' = [state EXCEPT !.line = (@ + ops[pos].n) % Uint32Space]
  /\ UNCHANGED rows

RunSetFile ==
  /\ Reads("set_file") /\ Continue
  /\ state' = [state EXCEPT !.file = ops[pos].n] /\ UNCHANGED rows

RunSetAddress ==
  /\ Reads("set_address") /\ Continue
  /\ state' = [state EXCEPT !.address = ops[pos].n] /\ UNCHANGED rows

\* Flags, columns and ISA, and the extended discriminators and vendor opcodes.
RunNoEffect ==
  /\ \E kind \in {"no_effect", "extended"} : Reads(kind)
  /\ Continue /\ UNCHANGED <<state, rows>>

\* The end of a sequence is taken for the end of the unit.
RunEndSequence ==
  /\ Reads("end_sequence") /\ pos' = Len(ops) + 1
  /\ UpdateLineInfo(state, TRUE) /\ UNCHANGED <<header, ops, phase, state>>

\* An operation the parser does not know, cannot decode or cannot be last.
Abort ==
  /\ phase = "run" /\ pos <= Len(ops)
  /\ \A kind \in Kinds \ {"unsupported"} : ~ Reads(kind)
  /\ phase' = "aborted" /\ UNCHANGED <<header, ops, pos, state, rows>>

RunOperation ==
  \/ RunSpecial \/ RunCopy \/ RunAdvancePc \/ RunConstAddPc \/ RunFixedAdvancePc
  \/ RunAdvanceLine \/ RunSetFile \/ RunSetAddress \/ RunNoEffect
  \/ RunEndSequence \/ Abort

-----------------------------------------------------------------------------
(* The meaning of the operations p under the header h.                     *)

\* How far an operation moves, in operations.
OperationAdvance(h, op) ==
  CASE op.kind = "special"      -> op.n \div h.lineRange
    [] op.kind = "advance_pc"   -> op.n
    [] op.kind = "const_add_pc" -> ConstantAdvance(h)
    [] OTHER -> 0

LineAdvance(h, op) ==
  CASE op.kind = "special"      -> h.lineBase + (op.n % h.lineRange)
    [] op.kind = "advance_line" -> op.n
    [] OTHER -> 0

\* Of a sequence of numbers, the sum of the first i.
Sums(s) ==
  LET sum[i \in 0 .. Len(s)] == IF i = 0 THEN 0 ELSE sum[i - 1] + s[i]
  IN  sum
OperationsMoved(h, p) == Sums([k \in DOMAIN p |-> OperationAdvance(h, p[k])])
LinesMoved(h, p) == Sums([k \in DOMAIN p |-> LineAdvance(h, p[k])])

\* The last of the first i operations of one of the kinds, 0 if there is none.
LastOf(p, kinds, i) == Max({k \in 1 .. i : p[k].kind \in kinds} \union {0})
LastReset(p, i) == LastOf(p, {"set_address", "fixed_advance_pc"}, i)

\* The address after the first i operations: they are counted from the last
\* one that set the address, and maxOps of them make an instruction.
Addresses(h, p) ==
  LET address[i \in 0 .. Len(p)] ==
        LET reset == LastReset(p, i)
            from  == IF reset = 0 THEN 0
                     ELSE IF p[reset].kind = "set_address" THEN p[reset].n
                     ELSE address[reset - 1] + p[reset].n
            done  == OperationsMoved(h, p)[i] - OperationsMoved(h, p)[reset]
        IN  (from + h.minInst * (done \div h.maxOps)) % AddressSpace
  IN  address

FileAfter(p, i) == LET k == LastOf(p, {"set_file"}, i) IN IF k = 0 THEN 1 ELSE p[k].n

RowAfter(h, p, i) ==
  [address |-> Addresses(h, p)[i], file |-> FileAfter(p, i),
   line |-> (1 + LinesMoved(h, p)[i]) % Uint32Space, end |-> p[i].kind = "end_sequence"]

\* The rows the first i operations append, in their order.
Appending == {"special", "copy", "end_sequence"}
RowsOf(h, p) ==
  LET after[i \in 0 .. Len(p)] ==
        IF i = 0 THEN << >>
        ELSE IF p[i].kind \in Appending THEN Append(after[i - 1], RowAfter(h, p, i))
        ELSE after[i - 1]
  IN  after

-----------------------------------------------------------------------------
(* Properties.                                                             *)

SourceRow == [address : 0 .. AddressSpace - 1, file : Nat, line : 0 .. Uint32Space - 1,
              end : BOOLEAN]

MachineTypeOK ==
  /\ header \in Header /\ ops \in Seq(Op)
  /\ pos \in 1 .. Len(ops) + 1
  /\ state.address \in 0 .. AddressSpace - 1 /\ state.operation \in 0 .. header.maxOps - 1
  /\ state.file \in Nat /\ state.line \in 0 .. Uint32Space - 1
  /\ rows \in Seq(SourceRow)

\* "The Dwarf line program state machine is used to extract information such as
\* addresses, file names, line numbers" (dwarf_state_machine.hpp:11): after any
\* number of operations the rows are those the operations mean.
RowsAreTheProgramsRows == phase = "run" => rows = RowsOf(header, ops)[pos - 1]

=============================================================================
