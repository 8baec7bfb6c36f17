------------------------------ MODULE MCExecute ------------------------------
(***************************************************************************)
(* Instructions and constants for model checking ExecuteUnit, the          *)
(* properties of the execute unit, and the mapping of its state to the     *)
(* sequencer's promise.                                                    *)
(***************************************************************************)
EXTENDS ExecuteUnit

CONSTANT Opcodes

\* Targets of branches are odd where PGC is not: write_data_ clears bit 0.
Branches == {63488, 63744, 65282}

Tabulated(bad_index) ==
  [op \in Opcodes |-> Instruction(op, 0, Decoded(op), 0, IF op \in Branches THEN {7} ELSE {}, bad_index)]

\* A bad index needs an operand with an index.
Offers ==
  {Tabulated(FALSE)[op] : op \in Opcodes}
    \cup {Tabulated(TRUE)[op] : op \in Opcodes \cap {125, 1853}}

\* HALT, an illegal word, RST, REPI twice, REPR, CALL to an address, ADQ (r)+
Sequenced == {1, 61441, 65282, 65025, 61440, 63744, 96}

\* REPI twice, CALL, ADQ (r)+ in 8 bits, LD from (r)+ to (r) in 24 bits, LD F to an
\* indexed address
Accessing == {65025, 63744, 96, 37024, 1853}

\* The fetch unit is called before, between or after the others.
DecodeFirst == {<<"decode", "execute">>}

\* the same with JR
WithConditional == {0, 96, 57344}

-----------------------------------------------------------------------------
TypeOK ==
  /\ exec.phase \in Phases /\ exec.seq \in SequencerPhases
  /\ exec.mucode_control \in EntrySpec
  /\ exec.control \in {"core_op", "buffer"}
  /\ exec.buffer.next \in EntrySpec /\ exec.buffer.next_no_branch \in EntrySpec
  /\ exec.repi \in 0..31
  /\ exec.pgc \in {a \in Addr : a % 2 = 0}
  /\ execute_branch_addr \in {a \in Addr : a % 2 = 0}
  /\ mc_state \in MemCtlStates
  /\ {data_valid, is_16bit, decoded_inst_semaph, execute_branch, execute_memory_backoff,
      disable_clk, exec.branched, exec.used_z, exec.latch_aux, exec.waiting} \subseteq BOOLEAN

\* An answer the unit waits for is for its own last access, and is still to come or
\* lasts until the unit's next first half: it is not missed.  (Of a device that may
\* take several ticks it can be, while the next access is retried; a stopped clock
\* misses any.)
AnswerReaches ==
  exec.waiting /\ MustAnswer(exec.asked) =>
    /\ addr_reg = exec.asked
    /\ \/ ~BusReady
       \/ data_valid /\ half = 1 /\ "execute" \notin ran /\ exec.phase = "HALF1_READY"
       \/ disable_clk

\* execute_memory_backoff "goes high if the execute unit is going to access memory"
\* (cpu_interconnect.h:25): no access without it.
AccessAnnounced ==
  [][BusReady /\ ~BusReady' /\ exec' # exec => execute_memory_backoff]_vars

-----------------------------------------------------------------------------
\* Successors of an entry, without what is left in a specification that ends one.
Canonical(s) == IF s.idx = "MU_NONE" THEN NoEntry ELSE s
SuccessorsOf == [s \in EntrySpec |->
  LET e == EntryOf[s] IN {Canonical(e.next)} \cup IF e.branch THEN {Canonical(e.next_no_branch)} ELSE {}]
Following(s) == SuccessorsOf[s]
Promise == INSTANCE Microprogram WITH
  PushEntries <- {s \in EntrySpec : s.idx = "MU_PUSH_PGC_IND_SP_AUTO"},
  RepeatEntry <- LAMBDA idx : [NoEntry EXCEPT !.idx = idx],
  inst <- [before |-> Canonical(exec.inst.before), after |-> Canonical(exec.inst.after),
           repeat |-> exec.inst.repeat, restart |-> exec.inst.restart,
           illegal |-> exec.inst.illegal],
  stage <- exec.doing.stage, at <- Canonical(exec.doing.at), repeating <- exec.repeat_type

\* The unit runs the routines it was given, entry by entry.
RunsMicroprograms == Promise!Spec

\* "run_before: if not MU_NONE, is executed before core_op" (types.h:352): the core
\* operation is reached from the routine before it.
RunBeforeExecuted ==
  [][exec'.doing.stage = "CORE_OP" /\ exec'.doing # exec.doing /\ exec'.inst.before.idx # "MU_NONE"
       => exec.doing.stage = "RUN_BEFORE"]_vars

\* A dispatched instruction is taken or dropped: the one before it has ended.  (The
\* counter of REPR is data; an invalid index is trapped again and again.)
OfferTaken ==
  decoded_inst_semaph ~>
    ~decoded_inst_semaph \/ disable_clk \/ exec.repeat_type = "MU_REPR" \/ exec.inst.bad_index
==============================================================================
