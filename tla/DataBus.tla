-------------------------------- MODULE DataBus --------------------------------
(***************************************************************************)
(* The internal data bus of cpu_execute.c: what the locations of a control *)
(* word stand for (fetch_data_, write_data_), with the register numbers,   *)
(* sizes and ALU functions that the decode tables and the microcode leave  *)
(* out, for the instructions that move data and the arithmetic that writes *)
(* its operand back.                                                       *)
(***************************************************************************)
EXTENDS Alu, Mucode

\* Mnemonics, as the decode tables name them, of the instructions in question.
Moves == {"LD", "LDSX", "LDQ", "LD.P r24, hml"}
Updates == (ArithLogic \ {"CP"}) \cup {"ADQ"}

-----------------------------------------------------------------------------
\* A register is accessed whole, as its low or middle byte, or as the low bits that
\* the size says (ACCESS_REG_BITS_).
RmRegister(rm, size) ==
  LET r == Bits(rm, 4, 2)
  IN IF size # 8 THEN [reg |-> r, part |-> "whole"]
     ELSE [reg |-> r % 4, part |-> IF r < 4 THEN "low" ELSE "middle"]
Field(op) == [reg |-> Bits(op, 10, 8), part |-> "sized"]

\* Where the second operand of an instruction is the register in bits 10-8; else
\* that is the first one, or the destination of a move to a register.
FieldSecond(op) == Bits(op, 13, 12) = 3

CoreRegister(name, op, role) ==
  CASE role = "src1" -> IF Bits(op, 13, 12) = 2 THEN Field(op) ELSE RmRegister(op % 64, Size(op))
    [] role = "src2" -> IF FieldSecond(op) THEN Field(op) ELSE RmRegister(op % 64, Size(op))
    [] role = "dest" -> IF name \in Moves THEN Field(op) ELSE RmRegister(op % 64, Size(op))
EntryRegister(s) == [reg |-> s.sel % 8, part |-> "whole"]

ReadRegister(regs, place, size) ==
  LET r == regs[place.reg] IN
  CASE place.part = "whole"  -> r
    [] place.part = "low"    -> r % 256
    [] place.part = "middle" -> (r \div 256) % 256
    [] place.part = "sized"  -> Truncated(r, size)

WriteRegister(regs, place, size, value) ==
  LET r == regs[place.reg]
      kept(bits) == r - Truncated(r, bits)
  IN [regs EXCEPT ![place.reg] =
       CASE place.part = "whole"  -> Truncated(value, 24)
         [] place.part = "low"    -> kept(8) + Truncated(value, 8)
         [] place.part = "middle" -> kept(16) + 256 * Truncated(value, 8) + Truncated(r, 8)
         [] place.part = "sized"  -> kept(size) + Truncated(value, size)]

-----------------------------------------------------------------------------
\* Two words of an immediate.
ThreeBytes(high, low) == 65536 * (high % 256) + low

\* DATA_SIZE.  The stack pointer moves by two.
StepOf(size, of_sp) == IF size = 16 \/ of_sp THEN 2 ELSE IF size = 8 THEN 1 ELSE 4

-----------------------------------------------------------------------------
\* What the ALU does, and the sizes of its inputs.  The immediate operand of a move
\* has the size of the immediate.
MoveControl(name, op, size) ==
  LET rm == op % 64
      immediate == Mode[rm] = "immediate"
      long == Bits(rm, 2, 2) = 1
  IN CASE name = "LD" ->
            [PlainControl(size) EXCEPT
               !.size2 = IF ~immediate THEN @ ELSE IF long THEN 24 ELSE 16,
               !.sx2 = immediate /\ ~long]
       [] name = "LDSX" -> [PlainControl(24) EXCEPT !.size2 = size, !.sx2 = TRUE]
       [] name = "LDQ"  -> [PlainControl(24) EXCEPT !.size2 = 8, !.sx2 = TRUE]
       [] OTHER         -> PlainControl(24)

CoreAlu(name, op) ==
  CASE name \in Moves      -> MoveControl(name, op, Size(op))
    [] name \in ArithLogic -> ArithLogicControl(name, Size(op))
    [] name = "ADQ"        -> QuickControl(IF Bits(op, 7, 7) = 1 THEN "SBQ" ELSE "ADQ", Size(op))

\* The entries of operand routines add a step to a register or to MAR, or do nothing.
Stepping(s) == [PlainControl(24) EXCEPT !.operation = "ALU_ADD", !.dest_size = s.size]
EntryAlu(s) ==
  CASE s.idx \in {"MU_IND_MAR_AUTO", "MU_IND_MAR_POST_AUTO"} -> [Stepping(s) EXCEPT !.size2 = 16]
    [] s.idx = "MU_IND_REG_AUTO"                             -> [Stepping(s) EXCEPT !.negate = TRUE]
    [] OTHER                                                 -> Stepping(s)
================================================================================
