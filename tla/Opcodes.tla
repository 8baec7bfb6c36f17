-------------------------------- MODULE Opcodes --------------------------------
(***************************************************************************)
(* The instruction decoder of cpu_decode.c: what decode_inst_ makes of an  *)
(* opcode.  A work record w holds the fields of work_regs and the decode   *)
(* state that matter beyond this stage; `name' is the mnemonic the code    *)
(* gives the branch in a comment, and is not in the program.               *)
(*                                                                         *)
(* The tests are made in the order of the code, and branches that an       *)
(* earlier test shadows are kept.  Which ALU function, shift and flags an  *)
(* instruction uses is left out.                                           *)
(***************************************************************************)
EXTENDS Operands

Opcode == 0..(2^16 - 1)

\* decode_inst_ resets every field first.
Blank ==
  [name |-> "ILLEGAL", words |-> 0, rm_ops |-> 0, rm2_offset |-> 0,
   before |-> NoEntry, core |-> IdleControl, after |-> NoEntry, repeat |-> "MU_NONE",
   illegal |-> FALSE, restart |-> FALSE, disable_clk |-> FALSE, predict |-> "none"]

Illegal == [Blank EXCEPT !.illegal = TRUE]

\* Size of the operands, from bits 15-14; the value 3 is taken by other groups.
Size(op) == <<8, 16, 24>>[Bits(op, 15, 14) + 1]

Named(name) == [Blank EXCEPT !.name = name]

\* An instruction whose core operation is an ALU operation from two locations.
Computes(name, src1, src2, dest) ==
  [Named(name) EXCEPT !.core.alu = TRUE, !.core.src1 = src1, !.core.src2 = src2, !.core.dest = dest]

WithFlags(w) == [w EXCEPT !.core.flags = TRUE]
WithDest(w, dest) == [w EXCEPT !.core.dest = dest]

\* Branch conditions 0-13 come in pairs of a test and its negation.
CondAlways == 14
CondCall == 15
CondDjnz == 16

-----------------------------------------------------------------------------
\* decode_inst_branch_.  The tests on repeat_op never fire: it has been reset.
ThenBranch(w, idx, cond) == [w EXCEPT !.after.idx = idx, !.after.sel = cond]

\* An address in the low byte of the opcode and one more word, left in MAR.  The
\* ALU is off.
BranchToHml(name, cond) ==
  ThenBranch([Named(name) EXCEPT !.words = 1, !.core.src1 = "IMM_HML", !.core.dest = "MEM_ADDR"],
             "MU_BR_HML_TEST_HML", cond)

BranchToOperand(name, op, suppress, cond) ==
  ThenBranch([Operand(Named(name), Bits(op, 5, 0), FALSE, FALSE, 24)
                EXCEPT !.core.suppress = suppress], "MU_BR_MAR", cond)

\* The next instruction is to be executed as often as the low bits say.
RepeatImmediate ==
  [Computes("REPI", "ZERO", "IMM_0", "REPI") EXCEPT
     !.core.aux = "LATCH_AUX_ZERO", !.repeat = "MU_REPI"]

DecodeBranch(op) ==
  IF Bits(op, 15, 8) = 255 THEN
    [Named("RST") EXCEPT !.restart = TRUE, !.predict = "vector"]
  ELSE IF Bits(op, 15, 5) = 2032 THEN RepeatImmediate
  ELSE IF Bits(op, 15, 11) = 30 THEN
    CASE Bits(op, 7, 0) = 0 ->
           [Computes("REPR", "ZERO", "IMM_0", "REPR") EXCEPT
              !.before.idx = "MU_ADJUST_PGC", !.repeat = "MU_REPR"]
      [] Bits(op, 7, 7) = 1 ->
           [Computes("DJNZ", "REG", "ZERO", "REG") EXCEPT
              !.core.aux = "LATCH_AUX_ZERO", !.after.idx = "MU_IND_DJNZ", !.predict = "relative"]
      [] OTHER -> Illegal
  ELSE IF Bits(op, 15, 12) = 14 THEN
    [ThenBranch(Computes("JR", "PGC", "IMM_0", "MEM_ADDR"), "MU_BR_MAR_COND", Bits(op, 11, 8))
       EXCEPT !.predict = "relative"]
  ELSE
    CASE Bits(op, 10, 8) = 0 -> BranchToHml("JP hml", CondAlways)
      [] Bits(op, 10, 8) = 1 -> BranchToHml("CALL hml", CondCall)
      [] Bits(op, 10, 8) = 2 /\ Bits(op, 8, 6) = 0 -> BranchToOperand("JP rm24", op, FALSE, CondAlways)
      [] Bits(op, 10, 8) = 2 /\ Bits(op, 8, 6) = 1 -> BranchToOperand("JEA", op, TRUE, CondAlways)
      [] Bits(op, 10, 8) = 2 /\ Bits(op, 8, 6) = 4 -> BranchToOperand("CALL rm24", op, FALSE, CondCall)
      [] Bits(op, 10, 8) = 2 /\ Bits(op, 8, 6) = 5 -> BranchToOperand("CEA", op, TRUE, CondCall)
      [] OTHER -> Illegal

-----------------------------------------------------------------------------
\* decode_inst_bit_.  The bit number comes from the opcode or from M0.
BitOperation(op) ==
  LET name == <<"BIT", "CHG", "RES", "SET">>[Bits(op, 7, 6) + 1]
      w == Operand(WithFlags(Computes(name, "ZERO", "ZERO", "ZERO")), Bits(op, 5, 0),
                   name = "BIT", TRUE, 8)
  IN [w EXCEPT !.core.src2 = "BITS", !.core.dest = IF name = "BIT" THEN "ZERO" ELSE @]

DecodeBit(op) ==
  IF Bits(op, 11, 11) = 0 THEN BitOperation(op)
  ELSE IF Bits(op, 11, 11) = 1 THEN BitOperation(op)
  ELSE IF Bits(op, 11, 3) = 352 THEN [Named("LD IRL, imm") EXCEPT !.core.src2 = "IMM_0", !.core.dest = "IRL"]
  ELSE IF Bits(op, 11, 10) = 3 THEN
    Computes(<<"AND F, imm", "XOR F, imm", "OR F, imm", "LD F, imm">>[Bits(op, 9, 8) + 1],
             "F", IF Bits(op, 9, 8) = 3 THEN "ZERO" ELSE "IMM_0", "F")
  ELSE Illegal

\* decode_inst_ld_other_
DecodeLdOther(op) ==
  IF Bits(op, 11, 11) = 0
  THEN [Computes("LD.P r24, hml", "ZERO", "IMM_HML", "REG") EXCEPT !.words = 1]
  ELSE Computes("LDQ", "ZERO", "IMM_0", "REG")

-----------------------------------------------------------------------------
\* decode_inst_arithlogic_.  Operation 15 has an immediate operand, whose words
\* come before those of the RM operand; that one counts as the second.
Arithmetic == <<"ADD", "ADX", "SUB", "SBX", "AND", "XOR", "OR", "CP">>

DecodeArithLogic(op) ==
  LET operation == Bits(op, 7, 6) + 4 * Bits(op, 12, 11)
      rm == Bits(op, 5, 0)
      size == Size(op)
      imm == operation = 15
      name == Arithmetic[1 + IF imm THEN Bits(op, 10, 8) ELSE operation % 8]
      w == WithFlags(Computes(name, "ZERO", "ZERO", "ZERO"))
      from_rm == [Operand(w, rm, FALSE, FALSE, size) EXCEPT !.core.src1 = "REG"]
      to_rm == [Operand(w, rm, TRUE, TRUE, size) EXCEPT !.core.src2 = "REG"]
      from_imm == Operand([w EXCEPT !.words = IF size = 24 THEN 2 ELSE 1, !.rm_ops = 1,
                                    !.core.src2 = IF size = 24 THEN "IMM_HML_RM" ELSE "IMM_1"],
                          rm, name # "CP", TRUE, size)
      decoded == IF imm THEN from_imm ELSE IF operation < 8 THEN from_rm ELSE to_rm
  IN IF name = "CP" THEN WithDest(decoded, "ZERO") ELSE decoded

\* decode_inst_ld_group_.  LEA decodes a five-bit specifier for its auto-index.
DecodeLdGroup(op) ==
  LET size == Size(op)
      rm == Bits(op, 5, 0)
      w == Computes("LD", "ZERO", "ZERO", "ZERO")
      ldsx == Bits(op, 15, 15) = 0 /\ Bits(op, 11, 11) = 1
      lea == Bits(op, 15, 12) = 9
      dummy == IF Bits(op, 7, 7) = 1 THEN Bits(op, 11, 7)
               ELSE 16 * Bits(op, 11, 11) + 2 * Bits(op, 9, 8)
      indexed == [Operand(w, dummy, TRUE, FALSE, size) EXCEPT !.core.suppress = TRUE, !.name = "LEA"]
      one == CASE lea  -> indexed
               [] ldsx -> [WithDest(w, "REG") EXCEPT !.name = "LDSX"]
               [] OTHER -> w
  IN IF Bits(op, 7, 6) = 3
     THEN Operand(one, rm, FALSE, FALSE, size)
     ELSE Operand(Operand(w, rm, FALSE, FALSE, size), Bits(op, 11, 6), TRUE, FALSE, size)

-----------------------------------------------------------------------------
\* decode_inst_other_
StatusRegister(op) == IF Size(op) = 16 THEN "WF" ELSE "F"

DecodeOther(op) ==
  LET size == Size(op)
      rm == Bits(op, 5, 0)
      Rmw(name, src2) == Operand(WithFlags(Computes(name, "ZERO", src2, "ZERO")), rm, TRUE, TRUE, size)
      Reads(w) == Operand(w, rm, FALSE, FALSE, size)
      Shift == <<"RLC", "RRC", "RL", "RR", "SLA", "SRA", "SWAP", "SRL">>
  IN
  IF op = 0 THEN Computes("NOP", "ZERO", "ZERO", "ZERO")
  ELSE IF op = 1 THEN [Computes("HALT", "ZERO", "ZERO", "ZERO") EXCEPT !.disable_clk = TRUE]
  ELSE IF Bits(op, 15, 15) = 0 /\ Bits(op, 11, 6) = 4 THEN
    WithDest(Reads(Computes("LD F, rm", "ZERO", "ZERO", "ZERO")), StatusRegister(op))
  ELSE IF Bits(op, 15, 15) = 0 /\ Bits(op, 11, 6) = 28 THEN
    Operand(Computes("LD rm, F", "ZERO", StatusRegister(op), "ZERO"), rm, TRUE, FALSE, size)
  ELSE IF Bits(op, 11, 11) = 0 /\ Bits(op, 6, 6) = 1 THEN Rmw("ADQ", "SFI_2")
  ELSE IF Bits(op, 11, 11) = 0 /\ Bits(op, 7, 6) = 2 THEN Rmw(Shift[Bits(op, 10, 8) + 1], "ZERO")
  ELSE IF Bits(op, 11, 6) = 32 THEN
    WithDest(Reads(WithFlags(Computes("TST", "REG", "ZERO", "ZERO"))), "ZERO")
  ELSE IF Bits(op, 11, 6) = 33 THEN WithDest(Rmw("CPL", "ZERO"), "ZERO")
  ELSE IF Bits(op, 11, 6) = 34 THEN WithDest(Rmw("NEG", "ZERO"), "ZERO")
  ELSE IF Bits(op, 11, 8) = 8 THEN WithDest(Rmw("NGX", "ZERO"), "ZERO")
  ELSE IF Bits(op, 11, 11) = 1 /\ Bits(op, 7, 7) = 0 THEN
    [WithDest(Reads(Computes("MUL", "ZERO", "ZERO", "ZERO")), "FACTOR_B")
       EXCEPT !.after.idx = "MU_MUL_LD_FACTOR_A", !.after.size = size,
              !.after.sel = 24 * Bits(op, 6, 6)]
  ELSE IF Bits(op, 11, 11) = 1 /\ Bits(op, 7, 6) = 2 THEN
    [WithDest(Reads(Computes("DIV", "ZERO", "ZERO", "ZERO")), "FACTOR_B")
       EXCEPT !.core.aux = "LATCH_AUX_ZERO", !.after.idx = "MU_DIV_TEST_DIVIDEND_HI",
              !.after.size = size]
  ELSE Illegal

\* decode_inst_
Decoded(op) ==
  IF Bits(op, 15, 12) >= 14 THEN DecodeBranch(op)
  ELSE IF Bits(op, 15, 12) = 13 THEN DecodeBit(op)
  ELSE IF Bits(op, 15, 12) = 12 THEN DecodeLdOther(op)
  ELSE IF Bits(op, 13, 13) = 1 THEN DecodeArithLogic(op)
  ELSE IF Bits(op, 13, 12) = 1 THEN DecodeLdGroup(op)
  ELSE DecodeOther(op)

\* decode_branch_addr as Decode.tla takes it: the distance back from pgc, or the
\* address of the vector.  The displacement is or-ed into a constant, so that
\* bits 7-0 of its double are all that is left of it for JR, bits 8-0 for DJNZ.
PredictedArgUndoubled(op, name) ==
  LET offset == Bits(op, 7, 0)
  IN CASE name = "JR"   -> 256 - offset
       [] name = "DJNZ" -> 512 - offset
       [] name = "RST"  -> 16764928 + 16 * offset
       [] OTHER                     -> 0
PredictedArg(op, name) ==
  LET doubled == 2 * Bits(op, 7, 0)
  IN CASE name = "JR"   -> 256 - (doubled % 256)
       [] name = "DJNZ" -> 512 - doubled
       [] name = "RST"  -> 16764928 + 16 * Bits(op, 7, 0)
       [] OTHER                     -> 0
=============================================================================
