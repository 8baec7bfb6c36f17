-------------------------------- MODULE Datapath --------------------------------
(***************************************************************************)
(* The execute unit as a calculator: one instruction with its operands,    *)
(* started with any flags, in one cycle of the ALU or, for MUL, entry by   *)
(* entry of its microcode.  The microcode module gives sources,            *)
(* destinations and successors, this one what it leaves out: what the ALU  *)
(* does in each entry of MUL, and the values of registers and latches.     *)
(***************************************************************************)
EXTENDS Alu, Mucode

CONSTANT Values  \* for each size, the operands that are tried

ASSUME DatapathAssumption ==
  \A size \in Sizes : Values[size] \subseteq 0..(2 ^ size - 1)

VARIABLES
  core,  \* of Pilot_cpu_regs and the execute state: flags, latches, and the registers MUL uses
  at,    \* the entry of the microcode that is executed next
  inst   \* the instruction, its operands and how far it is; not in the program

vars == <<core, at, inst>>

SingleCycle == ArithLogic \cup Shifts \cup Unaries \cup Quick \cup BitOperations \cup {"TST"}
Multiplications == {"MULU", "MULS"}

\* In the other operations the second operand is free; here it has its range.
SecondOperands(name, size) ==
  CASE name \in Shifts \cup Unaries -> {0}
    [] name \in Quick               -> 0..7
    [] name \in BitOperations       -> {2 ^ i : i \in 0..7}
    [] OTHER                        -> Values[size]

SizesOf(name) == IF name \in BitOperations THEN {8} ELSE Sizes

\* The register that is multiplied (rd) is not the one that takes the high half (r0).
Init ==
  \E name \in SingleCycle \cup Multiplications : \E size \in SizesOf(name) :
    \E a \in Values[size], b \in SecondOperands(name, size), F \in SUBSET {"D", "X"} :
      /\ inst = [name |-> name, size |-> size, a |-> a, b |-> b, F |-> F, stage |-> "offered"]
      /\ core = [F |-> F, latch_aux |-> FALSE, used_z |-> FALSE, out |-> 0, repi |-> 0,
                 rd |-> a, r0 |-> 0, factor_a |-> 0, factor_b |-> 0]
      /\ at = NoEntry

-----------------------------------------------------------------------------
\* write_data_ to a register keeps what is above the size.
Written(old, size, value) == (old - Truncated(old, size)) + Truncated(value, size)

WithResult(x, r) ==
  [x EXCEPT !.F = r.F, !.latch_aux = r.latch_aux, !.used_z = r.used_z, !.out = r.out]

Compute ==
  /\ inst.stage = "offered" /\ inst.name \in SingleCycle
  /\ core' = WithResult(core, AluResult(ControlOf(inst.name, inst.size), core, inst.a, inst.b))
  /\ inst' = [inst EXCEPT !.stage = "done"]
  /\ UNCHANGED at

-----------------------------------------------------------------------------
\* The core operation of MUL loads the second factor; run_after is the routine.
StartMul ==
  /\ inst.stage = "offered" /\ inst.name \in Multiplications
  /\ LET r == AluResult(PlainControl(inst.size), core, 0, inst.b)
     IN core' = [WithResult(core, r) EXCEPT !.factor_b = r.out]
  /\ at' = [NoEntry EXCEPT !.idx = "MU_MUL_LD_FACTOR_A", !.size = inst.size,
                           !.sel = IF inst.name = "MULS" THEN 24 ELSE 0]
  /\ inst' = [inst EXCEPT !.stage = "running"]

\* What the ALU does in an entry.  Bit 3 of sel: signed; bit 4: the first loop.
ShiftLeft(s, shifter) ==
  [PlainControl(s.size) EXCEPT !.shifter = shifter, !.aux = "LATCH_AUX_CARRY"]

AddProductLoAlways(s) ==
  [PlainControl(s.size) EXCEPT !.operation = "ALU_ADD", !.size2 = 24,
     !.negate = s.sel >= 16, !.invert = s.sel >= 16, !.mask = {"Z", "C"}]
AddProductLo(s) ==
  [PlainControl(s.size) EXCEPT !.operation = "ALU_ADD", !.size2 = 24,
     !.negate = s.sel >= 16, !.and_aux = TRUE, !.invert = s.sel >= 16, !.mask = {"Z", "C"}]

AddProductHi(s) ==
  [PlainControl(s.size) EXCEPT !.operation = "ALU_ADD", !.size2 = 24,
     !.add1 = Bits(s.sel, 3, 3) = 1, !.negate = s.sel < 16, !.and_aux = TRUE,
     !.invert = s.sel >= 16, !.z_mode = "FLAG_Z_ACCUM", !.v_mode = "FLAG_V_CLEAR",
     !.aux = "LATCH_AUX_CLEAR", !.mask = {"V", "S", "C", "Z"}]

CountDown ==
  [PlainControl(8) EXCEPT !.operation = "ALU_ADD", !.sx2 = TRUE, !.add1 = TRUE,
                          !.negate = TRUE, !.aux = "LATCH_AUX_ZERO"]

AluOfEntry(s) ==
  CASE s.idx = "MU_MUL_SHIFT_PRODUCT_HI_LEFT" -> ShiftLeft(s, "SHIFTER_LEFT_CARRY")
    [] s.idx \in {"MU_MUL_SHIFT_PRODUCT_LO_LEFT", "MU_MUL_SHIFT_FACTOR_B_LEFT"} ->
         ShiftLeft(s, "SHIFTER_LEFT")
    [] s.idx = "MU_MUL_ADD_PRODUCT_LO" -> AddProductLo(s)
    [] s.idx = "MU_MUL_ADD_PRODUCT_HI" -> AddProductHi(s)
    [] s.idx = "MU_MUL_LOOP"           -> CountDown
    [] OTHER                           -> [PlainControl(s.size) EXCEPT !.size2 = 24]

\* fetch_data_, for the locations MUL reads; sizes are cut by the ALU.
Fetched(location, size) ==
  CASE location = "REG"      -> core.rd
    [] location = "R0"       -> core.r0
    [] location = "FACTOR_A" -> core.factor_a
    [] location = "FACTOR_B" -> core.factor_b
    [] location = "REPI"     -> core.repi
    [] location = "NUM_BITS" -> size
    [] location = "CARRY"    -> IF "C" \in core.F THEN 2 ^ size - 1 ELSE 0
    [] location = "ZERO"     -> 0

RepiUncut(value) == value
Repi(value) == value % 32

\* write_data_, for the locations MUL writes
Stored(x, location, size) ==
  CASE location = "REG"      -> [x EXCEPT !.rd = Written(@, size, x.out)]
    [] location = "R0"       -> [x EXCEPT !.r0 = Written(@, size, x.out)]
    [] location = "FACTOR_A" -> [x EXCEPT !.factor_a = Truncated(x.out, 24)]
    [] location = "FACTOR_B" -> [x EXCEPT !.factor_b = Truncated(x.out, 24)]
    [] location = "REPI"     -> [x EXCEPT !.repi = Repi(x.out)]

MulStepEnds ==
  /\ inst.stage = "running"
  /\ LET e == Entry(at)
         c == AluOfEntry(at)
         r == AluResult(c, core, Fetched(e.operation.src1, c.size1),
                                 Fetched(e.operation.src2, c.size2))
         x == Stored(WithResult(core, r), e.operation.dest, c.size1)
         following == IF e.branch /\ x.latch_aux THEN e.next_no_branch ELSE e.next
     IN /\ core' = x
        /\ at' = following
        /\ inst' = [inst EXCEPT !.stage = IF following.idx = "MU_NONE" THEN "done" ELSE @]

Next == Compute \/ StartMul \/ MulStepEnds
Spec == Init /\ [][Next]_vars
==============================================================================
