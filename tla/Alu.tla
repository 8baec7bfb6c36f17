---------------------------------- MODULE Alu ----------------------------------
(***************************************************************************)
(* The ALU of cpu_execute.c (execute_half2_result_latch_ and the functions *)
(* it calls) as a function of the control word, the flags and latches and  *)
(* the two operands; the control words of the single-cycle instructions;   *)
(* and what the branch conditions make of the flags.                       *)
(*                                                                         *)
(* A word is a natural number, F the set of the flags that are set.  Words *)
(* in the ALU have 24 bits, and one or two more after a left shift.        *)
(*                                                                         *)
(* The bitwise functions are defined here, by a recursive function and not *)
(* by the recursive operators of Bitwise, so that Datapath can be proved   *)
(* about.                                                                  *)
(***************************************************************************)
EXTENDS Integers

Sizes == {8, 16, 24}
Flags == {"S", "Z", "C", "V", "D", "X"}
WordSize == 2 ^ 24

Bit(a, i) == (a \div 2 ^ i) % 2
IsSet(a, i) == Bit(a, i) = 1
Number(p) == IF p THEN 1 ELSE 0
Truncated(a, size) == a % 2 ^ size

\* The bits that a and b share; what they have together, and what one of them has.
Common[a \in Nat] ==
  [b \in Nat |->
     IF a = 0 \/ b = 0 THEN 0 ELSE (a % 2) * (b % 2) + 2 * Common[a \div 2][b \div 2]]
BitAnd(a, b) == Common[a][b]
BitOr(a, b)  == a + b - Common[a][b]
BitXor(a, b) == a + b - 2 * Common[a][b]

\* The part of execute_control_word the ALU reads; sx2 is sign_extend of src2.
PlainControl(size) ==
  [operation |-> "ALU_OR", size1 |-> size, size2 |-> size, dest_size |-> size, sx2 |-> FALSE,
   add1 |-> FALSE, add_carry |-> FALSE, negate |-> FALSE, and_aux |-> FALSE,
   shifter |-> "SHIFTER_NONE", aux |-> "LATCH_AUX_NONE", mask |-> {}, invert |-> FALSE,
   z_mode |-> "FLAG_Z_NORMAL", v_mode |-> "FLAG_V_NORMAL"]

-----------------------------------------------------------------------------
\* The carry that goes into an operand or a shift.
CarryIn(c, s) == IF c.aux = "LATCH_AUX_CARRY" THEN s.latch_aux ELSE "X" \in s.F

Extended(a, size, signed) ==
  LET word == Truncated(a, size)
  IN IF signed /\ IsSet(word, size - 1) THEN word + WordSize - 2 ^ size ELSE word

\* The transformations of src2, in the order of the code.
Increased(c, s, b) == b + Number(c.add1) + Number(c.add_carry /\ CarryIn(c, s))
Negated(c, b) ==
  IF c.negate THEN Truncated(2 ^ c.size2 - Truncated(b, c.size2), c.size2) ELSE b
Gated(c, s, b) == IF c.and_aux /\ ~s.latch_aux THEN 0 ELSE b

PreparedNegatedFirst(c, s, b) ==
  Extended(Gated(c, s, Increased(c, s, Negated(c, b))), c.size2, c.sx2)
Prepared(c, s, b) ==
  Extended(Gated(c, s, Negated(c, Increased(c, s, b))), c.size2, c.sx2)

\* alu_operate_shifter_: the shifted operand and the bit that fell out.  A left shift
\* is not cut to the size; no operand that is shifted right is sign-extended.
LeftShifts == {"SHIFTER_LEFT", "SHIFTER_LEFT_CARRY", "SHIFTER_LEFT_BARREL"}
RightShifts == {"SHIFTER_RIGHT_LOGICAL", "SHIFTER_RIGHT_ARITH", "SHIFTER_RIGHT_CARRY",
                "SHIFTER_RIGHT_BARREL"}

ShiftedIn(c, s, b) ==
  CASE c.shifter \in {"SHIFTER_LEFT_CARRY", "SHIFTER_RIGHT_CARRY"}  -> Number(CarryIn(c, s))
    [] c.shifter \in {"SHIFTER_LEFT_BARREL", "SHIFTER_RIGHT_ARITH"} -> Bit(b, c.size2 - 1)
    [] c.shifter = "SHIFTER_RIGHT_BARREL"                           -> Bit(b, 0)
    [] OTHER                                                        -> 0

\* The outer bytes, or halves of the byte, change places.
Swapped(b, size) ==
  LET part == 2 ^ (IF size = 8 THEN 4 ELSE 8)
      outer == (2 ^ size) \div part
      low == b % part
  IN (b \div outer) + ((b % outer) - low) + low * outer

Shifted(c, s, b) ==
  CASE c.shifter \in LeftShifts  -> 2 * b + ShiftedIn(c, s, b)
    [] c.shifter \in RightShifts -> (b \div 2) + ShiftedIn(c, s, b) * 2 ^ (c.size2 - 1)
    [] c.shifter = "SHIFTER_SWAP" -> Swapped(b, c.size2)
    [] OTHER                     -> b

ShiftedOut(c, b) ==
  CASE c.shifter \in LeftShifts  -> IsSet(b, c.size2 - 1) # c.invert
    [] c.shifter \in RightShifts -> IsSet(b, 0) # c.invert
    [] OTHER                     -> FALSE

-----------------------------------------------------------------------------
Operated(operation, a, b) ==
  CASE operation = "ALU_ADD" -> (a + b) % WordSize
    [] operation = "ALU_AND" -> BitAnd(a, b)
    [] operation = "ALU_OR"  -> BitOr(a, b)
    [] operation = "ALU_XOR" -> BitXor(a, b)

\* Bit i of `carries': the carry into that bit.
CarryInto(c, a, b, result, i) ==
  c.operation = "ALU_ADD" /\ (Bit(a, i) + Bit(b, i) + Bit(result, i)) % 2 = 1

\* The result in decimal mode, where one 16 is added.
Adjusted(c, s, a, b, result) ==
  IF c.dest_size = 8 /\ "D" \in s.F /\ CarryInto(c, a, b, result, 3) THEN result + 16 ELSE result

\* alu_parity, whose bits are tested all together.
Folded(a, n) == BitXor(a, a \div 2 ^ n)
Parity(size, result) ==
  LET in_byte == Folded(Folded(Folded(result, 4), 2), 1) IN
  CASE size = 8  -> in_byte
    [] size = 16 -> Folded(in_byte, 8)
    [] size = 24 -> BitXor(Folded(in_byte, 8), in_byte \div 2 ^ 16)

OverflowUnsigned(msb, a, b, result) == Bit(a, msb) + Bit(b, msb) > Bit(result, msb)
Overflow(msb, a, b, result) == Bit(b, msb) # Bit(result, msb) /\ Bit(a, msb) # Bit(result, msb)

\* execute_half2_result_latch_ with the ALU on: a and b are the input latches, s the
\* flags and latches before.
AluResult(c, s, src1, src2) ==
  LET a == Truncated(src1, c.size1)
      unshifted == Prepared(c, s, src2)
      b == Shifted(c, s, unshifted)
      shifter_carry == ShiftedOut(c, unshifted)
      result == Operated(c.operation, a, b)
      out == Adjusted(c, s, a, b, result)
      msb == c.size1 - 1
      carry == CarryInto(c, a, b, out, msb) # c.invert
      zero == Truncated(out, c.size1) = 0
      used_z == CASE c.z_mode = "FLAG_Z_NORMAL"   -> zero
                  [] c.z_mode = "FLAG_Z_ACCUM"    -> s.used_z /\ zero
                  [] c.z_mode = "FLAG_Z_BIT_TEST" -> BitAnd(a, b) = 0
      computed == IF c.operation = "ALU_ADD" THEN Overflow(msb, a, b, out)
                  ELSE Parity(c.size1, out) # 0
      overflow == CASE c.v_mode = "FLAG_V_NORMAL"        -> computed
                    [] c.v_mode = "FLAG_V_CLEAR"         -> FALSE
                    [] c.v_mode = "FLAG_V_SHIFTER_CARRY" -> shifter_carry
                    [] c.v_mode = "FLAG_V_ACCUM"         -> computed \/ "V" \in s.F
      source == {f \in Flags : \/ f = "S" /\ IsSet(out, msb)
                               \/ f = "Z" /\ used_z
                               \/ f = "V" /\ overflow
                               \/ f \in {"C", "X"} /\ carry}
  IN [out |-> out,
      F |-> (s.F \ c.mask) \cup (source \cap c.mask),
      used_z |-> used_z,
      latch_aux |-> CASE c.aux = "LATCH_AUX_NONE"  -> s.latch_aux
                      [] c.aux = "LATCH_AUX_CLEAR" -> FALSE
                      [] c.aux = "LATCH_AUX_ZERO"  -> used_z
                      [] c.aux = "LATCH_AUX_CARRY" ->
                           IF c.operation = "ALU_ADD" THEN carry ELSE shifter_carry]

-----------------------------------------------------------------------------
\* Control words of the instructions with a memory or register operand that is read
\* and written; the same function with another destination only lacks the adjustment
\* of 8-bit results.
ArithmeticFlags == {"S", "Z", "V", "C"}

\* decode_inst_arithlogic_
ArithLogicControl(name, size) ==
  LET c == [PlainControl(size) EXCEPT !.mask = ArithmeticFlags] IN
  CASE name \in {"ADD", "ADX", "SUB", "SBX"} ->
         [c EXCEPT !.operation = "ALU_ADD", !.add_carry = name \in {"ADX", "SBX"},
                   !.negate = name \in {"SUB", "SBX"}, !.invert = name \in {"SUB", "SBX"},
                   !.mask = @ \cup {"X"}]
    [] name = "AND" -> [c EXCEPT !.operation = "ALU_AND"]
    [] name = "XOR" -> [c EXCEPT !.operation = "ALU_XOR"]
    [] name = "OR"  -> c
    [] name = "CP"  -> [c EXCEPT !.operation = "ALU_ADD", !.negate = TRUE, !.invert = TRUE,
                                 !.sx2 = TRUE, !.dest_size = 24]

\* decode_inst_other_.  Instructions with one operand have it as src1; src2, which is
\* the one that is shifted or negated, stays zero (of 24 bits).
ShiftControl(name, size) ==
  [PlainControl(size) EXCEPT !.size2 = 24, !.mask = ArithmeticFlags \cup {"X"},
     !.shifter = CASE name = "RLC"  -> "SHIFTER_LEFT_CARRY"
                   [] name = "RRC"  -> "SHIFTER_RIGHT_CARRY"
                   [] name = "RL"   -> "SHIFTER_LEFT_BARREL"
                   [] name = "RR"   -> "SHIFTER_RIGHT_BARREL"
                   [] name = "SLA"  -> "SHIFTER_LEFT"
                   [] name = "SRA"  -> "SHIFTER_RIGHT_ARITH"
                   [] name = "SWAP" -> "SHIFTER_SWAP"
                   [] name = "SRL"  -> "SHIFTER_RIGHT_LOGICAL"]

UnaryControl(name, size) ==
  LET c == [PlainControl(size) EXCEPT !.size2 = 24, !.mask = {"S", "Z", "V"},
                                      !.v_mode = "FLAG_V_SHIFTER_CARRY"]
  IN CASE name = "CPL" -> [c EXCEPT !.add1 = TRUE, !.negate = TRUE]
       [] name = "NEG" -> [c EXCEPT !.negate = TRUE]
       [] name = "NGX" -> [c EXCEPT !.add_carry = TRUE, !.invert = TRUE]

TestControl(size) ==
  [PlainControl(size) EXCEPT !.operation = "ALU_AND", !.mask = {"S", "Z", "V"},
     !.v_mode = "FLAG_V_SHIFTER_CARRY", !.dest_size = 24]

\* decode_inst_bit_: src2 has the one bit set.
BitControl(name) ==
  LET c == [PlainControl(8) EXCEPT !.mask = {"Z"}, !.z_mode = "FLAG_Z_BIT_TEST"] IN
  CASE name \in {"BIT", "SET"} -> c
    [] name = "CHG" -> [c EXCEPT !.operation = "ALU_XOR"]
    [] name = "RES" -> [c EXCEPT !.operation = "ALU_AND", !.add1 = TRUE, !.negate = TRUE]

\* The operand of ADQ and SBQ is one less than what is added.
QuickControl(name, size) ==
  [PlainControl(size) EXCEPT !.operation = "ALU_ADD", !.mask = ArithmeticFlags,
     !.add1 = TRUE, !.negate = name = "SBQ"]

ArithLogic == {"ADD", "ADX", "SUB", "SBX", "AND", "XOR", "OR", "CP"}
Shifts == {"RLC", "RRC", "RL", "RR", "SLA", "SRA", "SWAP", "SRL"}
Unaries == {"CPL", "NEG", "NGX"}
Quick == {"ADQ", "SBQ"}
BitOperations == {"BIT", "CHG", "RES", "SET"}

ControlOf(name, size) ==
  CASE name \in ArithLogic    -> ArithLogicControl(name, size)
    [] name \in Shifts        -> ShiftControl(name, size)
    [] name \in Unaries       -> UnaryControl(name, size)
    [] name \in Quick         -> QuickControl(name, size)
    [] name \in BitOperations -> BitControl(name)
    [] name = "TST"           -> TestControl(size)

-----------------------------------------------------------------------------
\* execute_sequencer_branch_test_, for the conditions on flags.
Holds(cond, F) ==
  LET less == ("S" \in F) # ("V" \in F) IN
  CASE cond = "COND_LE"   -> "Z" \in F \/ less
    [] cond = "COND_GT"   -> "Z" \notin F /\ ~less
    [] cond = "COND_LT"   -> less
    [] cond = "COND_GE"   -> ~less
    [] cond = "COND_U_LE" -> "C" \in F \/ "Z" \in F
    [] cond = "COND_U_GT" -> "C" \notin F /\ "Z" \notin F
    [] cond = "COND_C"    -> "C" \in F
    [] cond = "COND_NC"   -> "C" \notin F
    [] cond = "COND_M"    -> "S" \in F
    [] cond = "COND_P"    -> "S" \notin F
    [] cond = "COND_OV"   -> "V" \in F
    [] cond = "COND_NOV"  -> "V" \notin F
    [] cond = "COND_Z"    -> "Z" \in F
    [] cond = "COND_NZ"   -> "Z" \notin F
===============================================================================
