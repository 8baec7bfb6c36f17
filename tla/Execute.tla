------------------------------- MODULE Execute -------------------------------
(***************************************************************************)
(* The execute unit of cpu_execute.c: the two halves of a cycle, and the   *)
(* sequencer that turns a decoded instruction into control words (entries  *)
(* of the microcode before and after a core operation, repeats, traps).    *)
(*                                                                         *)
(* Both functions fall through from one `if' to the next, so an action is  *)
(* one call, `phase' is where the next call resumes, and a phase of the    *)
(* sequencer is a function on what the call has computed so far.           *)
(*                                                                         *)
(* Registers, flags and memory hold no values here, except REPI and PGC,   *)
(* which steer the sequencer: what a flag is, whether a result is zero and *)
(* which address is accessed are choices.                                  *)
(***************************************************************************)
EXTENDS Mucode, MemCtl, Interconnect

CONSTANTS
  DataAddrs,     \* values of mem_addr when an access is asserted
  IllegalVector  \* the handler of illegal instructions, 0xffcfe0

ASSUME ExecuteAssumption ==
  /\ DataAddrs # {} /\ DataAddrs \subseteq Nat
  /\ IllegalVector \in 0..(AddrSpace - 1) /\ IllegalVector % 2 = 0

VARIABLE exec  \* pilot_execute_state, with core.pgc, core.repi and core.latch_aux

\* What the decoder hands over: decode_inst_'s record for op, and of the data
\* in its words the values that matter here.  at: not in the program, the address
\* of the opcode; targets: the addresses it may write to PGC; bad_index: the
\* register field of an index is not one.
Instruction(op, at, decoded, inst_pgc, targets, bad_index) ==
  [op |-> op, at |-> at, inst_pgc |-> inst_pgc, targets |-> targets, bad_index |-> bad_index,
   before |-> decoded.before, core |-> decoded.core, after |-> decoded.after,
   repeat |-> decoded.repeat, illegal |-> decoded.illegal, restart |-> decoded.restart,
   disable_clk |-> decoded.disable_clk]

NowhereYet == -1

Nothing == [stage |-> "DONE", at |-> NoEntry]

\* Static storage: everything is zero.  control is a null pointer; the buffer is
\* what it names here, so that an instruction that leaves it alone (a trap as the
\* very first one) has no control word to execute.
ExecuteInit ==
  exec = [phase |-> "START", seq |-> "WAIT_NEXT_INS",
          inst |-> Instruction(0, NowhereYet, Blank, 0, {}, FALSE),
          mucode_control |-> [NoEntry EXCEPT !.size = 8],
          buffer |-> Base([NoEntry EXCEPT !.size = 8]), control |-> "buffer",
          repeat_type |-> "MU_NONE", branched |-> FALSE, used_z |-> FALSE,
          latch_aux |-> FALSE, repi |-> 0, pgc |-> 0, waiting |-> FALSE,
          \* not in the program: the address of the access that is waited for, and
          \* the routine and entry that control was last set to
          asked |-> 0, doing |-> Nothing]

Phases == {"START", "HALF1_READY", "HALF1_MEM_WAIT", "HALF1_MEM_ASSERT",
           "HALF2_READY", "HALF2_MEM_ASSERT"}
SequencerPhases ==
  {"WAIT_NEXT_INS", "WAIT_CACHED_INS", "EVAL_CONTROL", "RUN_BEFORE", "CORE_OP",
   "CORE_OP_EXECUTED", "RUN_AFTER", "REPEAT_OP", "REPEAT_OP_BRANCH", "FINAL_STEPS", "PUSH_PGC"}

\* *state->control: the core operation of the instruction itself or the operation of
\* the buffered entry.  Both are changed when they have been used.
Control(x) == IF x.control = "core_op" THEN x.inst.core ELSE x.buffer.operation
WithControl(x, c) ==
  IF x.control = "core_op" THEN [x EXCEPT !.inst.core = c] ELSE [x EXCEPT !.buffer.operation = c]

PgcMasked(a) == a % AddrSpace
PgcAligned(a) == 2 * ((a % AddrSpace) \div 2)

-----------------------------------------------------------------------------
\* Memory accesses.
AccessesInHalf(c, h) ==
  /\ ~c.suppress
  /\ c.latch \in IF h = 1 THEN {"MEM_LATCH_HALF1"} ELSE {"MEM_LATCH_HALF2", "MEM_LATCH_HALF2_MAR"}

BusAccess(c, a) ==
  \/ c.write \in {"MEM_READ", "UNINITIALIZED"} /\ AddrReadAssert(c.wide, a)
  \/ c.write # "MEM_READ" /\ AddrWriteAssert(c.wide, a)

\* The access has been asserted: its answer is awaited, the latch is spent.
Asserted(x, a) ==
  [WithControl(x, [Control(x) EXCEPT !.latch = "MEM_NO_LATCH"])
     EXCEPT !.waiting = TRUE, !.asked = a]

-----------------------------------------------------------------------------
\* First half of a cycle: collect an answer, latch the operands, assert an access.
InFirstHalf ==
  ~disable_clk /\ exec.phase \in {"HALF1_READY", "HALF1_MEM_WAIT", "HALF1_MEM_ASSERT"}

NeedsMemData(c) == "MEM_DATA" \in {c.src1, c.src2, c.dest}

WaitsForOwnFlag ==
  /\ exec.phase # "HALF1_MEM_ASSERT"
  /\ exec.waiting /\ NeedsMemData(Control(exec))
Waits ==
  /\ exec.phase # "HALF1_MEM_ASSERT"
  /\ exec.waiting /\ ~data_valid /\ NeedsMemData(Control(exec))

\* fetch_data_ of an index that names no register: execute_invalid_opcode_, after
\* which the call goes on.
InvalidIndex(x) ==
  x.inst.bad_index /\ {Control(x).src1, Control(x).src2} \cap {"REG_IMM_2", "REG_RM_2"} # {}

OperandsLatchedOnDemand ==
  [exec EXCEPT !.waiting = @ /\ ~NeedsMemData(Control(exec))]
OperandsLatched ==
  IF exec.phase = "HALF1_MEM_ASSERT" THEN exec
  ELSE [exec EXCEPT !.waiting = @ /\ ~data_valid,
                    !.asked = IF data_valid THEN 0 ELSE @,
                    !.seq = IF InvalidIndex(exec) THEN "EVAL_CONTROL" ELSE @,
                    !.inst.illegal = @ \/ InvalidIndex(exec)]

ExecWaits ==
  /\ InFirstHalf /\ Waits
  /\ exec' = [exec EXCEPT !.phase = "HALF1_MEM_WAIT"]
  /\ UNCHANGED mcvars

ExecLatches ==
  /\ InFirstHalf /\ ~Waits
  /\ ~AccessesInHalf(Control(exec), 1)
  /\ exec' = [OperandsLatched EXCEPT !.phase = "HALF2_READY"]
  /\ UNCHANGED mcvars

ExecAsserts ==
  /\ InFirstHalf /\ ~Waits
  /\ AccessesInHalf(Control(exec), 1)
  /\ \E a \in DataAddrs :
       /\ BusAccess(Control(exec), a)
       /\ exec' = [Asserted(OperandsLatched, a) EXCEPT !.phase = "HALF2_READY"]

ExecHeld ==
  /\ InFirstHalf /\ ~Waits
  /\ AccessesInHalf(Control(exec), 1) /\ ~BusReady
  /\ exec' = [OperandsLatched EXCEPT !.phase = "HALF1_MEM_ASSERT"]
  /\ UNCHANGED mcvars

ExecSkipsHalf1 == ~InFirstHalf /\ UNCHANGED <<exec, mcvars>>

ExecHalf1 ==
  /\ ExecWaits \/ ExecLatches \/ ExecAsserts \/ ExecHeld \/ ExecSkipsHalf1
  /\ UNCHANGED icvars

-----------------------------------------------------------------------------
(***************************************************************************)
(* Second half: store the result, assert an access, advance the sequencer. *)
(* A call works on a record w: x is the execute state; offered is          *)
(* decoded_inst_semaph, stops is disable_clk, and target is the address    *)
(* written to PGC, all as the call has left them so far.                   *)
(***************************************************************************)
NoTarget == -1

\* write_data_ to PGC
WritePgc(w, a) ==
  [w EXCEPT !.x.pgc = PgcAligned(a), !.x.branched = TRUE, !.target = PgcAligned(a)]

\* What the data may be in this call.
FreeData == [zero : BOOLEAN, carry : BOOLEAN, flag : BOOLEAN]

RepeatCount(op) == (Bits(op, 4, 0) + 1) % 32

\* Values of the ALU output: of REPI from REPI (decimal mode adds 16), the number of bits
\* of MUL, or the operand; of PGC one word back, or a target (of a wild jump, anything).
RepiResult(x) ==
  CASE Control(x).src1 = "REPI"     -> (x.repi + 31) % 32
    [] Control(x).src1 = "NUM_BITS" -> x.inst.after.size
    [] OTHER                        -> RepeatCount(x.inst.op)
PgcResults(x) ==
  IF Control(x).src1 = "PGC" /\ Control(x).src2 = "SIZE" THEN {x.pgc + AddrSpace - 2}
  ELSE IF x.inst.targets # {} THEN x.inst.targets ELSE DataAddrs

\* execute_half2_result_latch_
ResultLatched(w, d, a) ==
  LET c == Control(w.x)
      zero == IF c.dest = "REPI" THEN RepiResult(w.x) = 0 /\ c.src1 = "REPI" ELSE d.zero
      aux == CASE c.aux = "LATCH_AUX_NONE"  -> w.x.latch_aux
               [] c.aux = "LATCH_AUX_CLEAR" -> FALSE
               [] c.aux = "LATCH_AUX_ZERO"  -> zero
               [] c.aux = "LATCH_AUX_CARRY" -> d.carry
      written == IF c.dest = "PGC" THEN WritePgc(w, a) ELSE w
      spent == WithControl(written.x, [c EXCEPT !.alu = FALSE])
  IN IF ~c.alu THEN w
     ELSE [written EXCEPT
            !.x = [spent EXCEPT
                     !.used_z = zero, !.latch_aux = aux,
                     !.repi = IF c.dest = "REPI" THEN RepiResult(w.x) ELSE @]]

-----------------------------------------------------------------------------
\* execute_sequencer_branch_test_: conditions on the flags may have any outcome.
BranchTest(x, d) ==
  CASE x.buffer.branch_cond \in {CondAlways, CondCall} -> TRUE
    [] x.buffer.branch_cond = CondDjnz                 -> ~x.latch_aux
    [] OTHER                                           -> d.flag

\* execute_sequencer_mucode_run_: the next entry of the routine becomes the control
\* word; the phase of the sequencer is left when none follows it.  Whether there is a
\* choice of entries is read from the entry that was decoded last.
RunRoutine(w, d, finished) ==
  LET x == w.x
      spec == IF ~x.buffer.branch THEN x.mucode_control
              ELSE IF BranchTest(x, d) THEN x.buffer.next ELSE x.buffer.next_no_branch
      entry == EntryOf[spec]
      more == entry.branch \/ entry.next.idx # "MU_NONE"
  IN IF x.buffer.branch /\ spec.idx = "MU_NONE"
     THEN [w EXCEPT !.x.mucode_control = spec, !.x.seq = finished]
     ELSE [w EXCEPT !.x.buffer = entry, !.x.control = "buffer",
                    !.x.mucode_control = IF entry.branch THEN spec ELSE entry.next,
                    !.x.seq = IF more THEN @ ELSE finished,
                    !.x.doing = [stage |-> x.seq, at |-> spec]]

-----------------------------------------------------------------------------
\* The phases of the sequencer, in the order in which a call falls through them.
CoreOpExecutedKeeps(w) ==
  IF w.x.seq # "CORE_OP_EXECUTED" THEN w
  ELSE [w EXCEPT !.x.seq = IF w.x.inst.after.idx = "MU_NONE" THEN "FINAL_STEPS" ELSE "RUN_AFTER"]
CoreOpExecuted(w) ==
  IF w.x.seq # "CORE_OP_EXECUTED" THEN w
  ELSE IF w.x.inst.after.idx = "MU_NONE" THEN [w EXCEPT !.x.seq = "FINAL_STEPS"]
  ELSE [w EXCEPT !.x.seq = "RUN_AFTER", !.x.mucode_control = w.x.inst.after]

RepeatOpBranch(w, d) ==
  IF w.x.seq # "REPEAT_OP_BRANCH" THEN w
  ELSE IF w.x.used_z \/ (w.x.repeat_type = "MU_REPR" /\ d.flag)
  THEN [w EXCEPT !.x.repeat_type = "MU_NONE", !.x.seq = "FINAL_STEPS"]
  ELSE [w EXCEPT !.x.seq = "WAIT_CACHED_INS"]

StartRepeatKeeps(w, idx) == [w EXCEPT !.x.repeat_type = idx, !.x.seq = "REPEAT_OP"]
StartRepeat(w, idx) ==
  [w EXCEPT !.x.repeat_type = idx, !.x.mucode_control = [NoEntry EXCEPT !.idx = idx],
            !.x.seq = "REPEAT_OP", !.x.inst.repeat = "MU_NONE"]

FinalSteps(w) ==
  CASE w.x.seq # "FINAL_STEPS"          -> w
    [] w.x.seq = "FINAL_STEPS" /\ w.x.inst.repeat # "MU_NONE" -> StartRepeat(w, w.x.inst.repeat)
    [] w.x.seq = "FINAL_STEPS" /\ w.x.inst.repeat = "MU_NONE" /\ w.x.repeat_type # "MU_NONE" ->
         StartRepeat(w, w.x.repeat_type)
    [] OTHER ->
         IF w.x.branched THEN [w EXCEPT !.x.branched = FALSE, !.offered = FALSE,
                                        !.x.seq = "WAIT_NEXT_INS"]
         ELSE IF w.x.inst.disable_clk THEN [w EXCEPT !.stops = TRUE]
         ELSE [w EXCEPT !.x.seq = "WAIT_NEXT_INS"]

WaitNextInsKeepsOffer(w, inst) ==
  IF w.x.seq # "WAIT_NEXT_INS" \/ ~w.offered THEN w
  ELSE [w EXCEPT !.x.inst = inst, !.x.seq = "EVAL_CONTROL", !.x.pgc = inst.inst_pgc]
WaitNextInsKeepsPgc(w, inst) ==
  IF w.x.seq # "WAIT_NEXT_INS" \/ ~w.offered THEN w
  ELSE [w EXCEPT !.x.inst = inst, !.offered = FALSE, !.x.seq = "EVAL_CONTROL"]

\* REPR interrupted by a trap: the instruction that is waiting is dropped.
WaitNextIns(w, inst) ==
  IF w.x.seq # "WAIT_NEXT_INS" \/ ~w.offered THEN w
  ELSE IF w.x.repeat_type = "MU_REPR"
  THEN [w EXCEPT !.x.inst = inst, !.offered = FALSE, !.x.repeat_type = "MU_NONE",
                 !.x.doing = Nothing]
  ELSE [w EXCEPT !.x.inst = inst, !.offered = FALSE, !.x.seq = "EVAL_CONTROL",
                 !.x.pgc = inst.inst_pgc]

PushPgc(w, d) == IF w.x.seq = "PUSH_PGC" THEN RunRoutine(w, d, "WAIT_NEXT_INS") ELSE w

WaitCachedInsTakes(w, inst) ==
  IF w.x.seq = "WAIT_CACHED_INS"
  THEN [w EXCEPT !.x.inst = inst, !.offered = FALSE, !.x.seq = "EVAL_CONTROL"] ELSE w

\* The repeated instruction, whether it has been offered yet or not.
WaitCachedIns(w, inst) ==
  IF w.x.seq = "WAIT_CACHED_INS" THEN [w EXCEPT !.x.inst = inst, !.x.seq = "EVAL_CONTROL"] ELSE w

TrappedStays(w) == [WritePgc(w, IllegalVector) EXCEPT !.x.doing = Nothing]
Trapped(w) ==
  [WritePgc(w, IllegalVector) EXCEPT !.x.seq = "WAIT_NEXT_INS", !.x.doing = Nothing]

EvalControl(w, a) ==
  LET inst == w.x.inst IN
  IF w.x.seq # "EVAL_CONTROL" THEN w
  ELSE IF inst.illegal THEN Trapped(w)
  ELSE IF inst.restart
  THEN [WritePgc(w, a) EXCEPT !.x.seq = "PUSH_PGC",
          !.x.mucode_control.idx = "MU_PUSH_PGC_IND_SP_AUTO",
          !.x.doing = [stage |-> "RESTART", at |-> NoEntry]]
  ELSE IF inst.before.idx # "MU_NONE"
  THEN [w EXCEPT !.x.seq = "RUN_BEFORE", !.x.mucode_control = inst.before]
  ELSE [w EXCEPT !.x.seq = "CORE_OP"]

CoreOp(w) ==
  IF w.x.seq # "CORE_OP" THEN w
  ELSE [w EXCEPT !.x.control = "core_op", !.x.seq = "CORE_OP_EXECUTED",
                 !.x.doing = [stage |-> "CORE_OP", at |-> NoEntry]]

RunBefore(w, d) == IF w.x.seq = "RUN_BEFORE" THEN RunRoutine(w, d, "CORE_OP") ELSE w
RunAfter(w, d) == IF w.x.seq = "RUN_AFTER" THEN RunRoutine(w, d, "FINAL_STEPS") ELSE w
RepeatOp(w, d) == IF w.x.seq = "REPEAT_OP" THEN RunRoutine(w, d, "REPEAT_OP_BRANCH") ELSE w

\* execute_half2_advance_sequencer_, and the end of the call
Advanced(w, inst, d, a) ==
  LET finished == FinalSteps(RepeatOpBranch(CoreOpExecuted(w), d))
      taken == WaitCachedIns(PushPgc(WaitNextIns(finished, inst), d), inst)
      evaluated == CoreOp(EvalControl(taken, a))
      loaded == RepeatOp(RunAfter(RunBefore(evaluated, d), d), d)
  IN [loaded EXCEPT !.x.phase = "HALF1_READY"]

-----------------------------------------------------------------------------
\* The access that execute_memory_backoff announces: one of the next cycle.
AnnouncesFirstHalf(c) == c.latch = "MEM_LATCH_HALF1" /\ ~c.suppress
Announces(c) == c.latch # "MEM_NO_LATCH" /\ ~c.suppress

UnwrittenByExecute == <<fetch_word_semaph, fetch_word, fetch_addr, decode_branch,
                        decode_branch_addr, decode_stall>>

\* The call leaves what it has computed in the state and on the lines.
Effects(w) ==
  /\ exec' = w.x
  /\ decoded_inst_semaph' = w.offered
  /\ disable_clk' = w.stops
  /\ execute_branch' = (execute_branch \/ w.target # NoTarget)
  /\ execute_branch_addr' = IF w.target = NoTarget THEN execute_branch_addr ELSE w.target

Started == [x |-> exec, offered |-> decoded_inst_semaph, stops |-> FALSE, target |-> NoTarget]

InSecondHalf ==
  /\ ~disable_clk
  /\ \/ exec.phase \in {"HALF2_READY", "HALF2_MEM_ASSERT"}
     \/ exec.phase = "START" /\ decoded_inst_semaph

\* The state after the result latch, which only a call from HALF2_READY enters.
Result(d, a) ==
  IF exec.phase = "HALF2_READY" THEN ResultLatched(Started, d, a) ELSE Started

\* Only the data a call looks at are chosen.
RelevantData ==
  {d \in FreeData :
    /\ d.carry => Control(exec).aux = "LATCH_AUX_CARRY"
    /\ d.zero => Control(exec).alu /\ Control(exec).dest # "REPI"}

Completes(w, inst, d, a) ==
  /\ Effects(Advanced(w, inst, d, a))
  /\ execute_memory_backoff' = Announces(Control(exec'))
  /\ UNCHANGED UnwrittenByExecute

ExecAdvances(inst, d, a) ==
  /\ InSecondHalf
  /\ exec.phase # "START" => ~AccessesInHalf(Control(exec), 2)
  /\ Completes(Result(d, a), inst, d, a)
  /\ UNCHANGED mcvars

ExecAccesses(inst, d, a) ==
  /\ InSecondHalf /\ exec.phase # "START"
  /\ AccessesInHalf(Control(exec), 2)
  /\ \E m \in DataAddrs :
       /\ BusAccess(Control(exec), m)
       /\ Completes([Result(d, a) EXCEPT !.x = Asserted(@, m)], inst, d, a)

ExecBlocked(d, a) ==
  /\ InSecondHalf /\ exec.phase # "START"
  /\ AccessesInHalf(Control(exec), 2) /\ ~BusReady
  /\ Effects([Result(d, a) EXCEPT !.x.phase = "HALF2_MEM_ASSERT"])
  /\ UNCHANGED <<execute_memory_backoff, UnwrittenByExecute, mcvars>>

ExecSkipsHalf2 == ~InSecondHalf /\ UNCHANGED <<exec, icvars, mcvars>>

\* inst: what interconnects.decoded_inst points to
ExecHalf2(inst) ==
  \/ \E d \in RelevantData :
       \E a \in PgcResults(exec) \cup (IF inst.restart THEN inst.targets ELSE {}) :
         ExecAdvances(inst, d, a) \/ ExecAccesses(inst, d, a) \/ ExecBlocked(d, a)
  \/ ExecSkipsHalf2
==============================================================================
