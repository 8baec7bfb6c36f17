---------------------------- MODULE SequencerProofs ----------------------------
(***************************************************************************)
(* Types of the execute unit: whatever the data are, a call leaves it with *)
(* well-formed control words and entries, an even PGC, and has raised a    *)
(* branch to an even address, taken the offer or left it alone.            *)
(***************************************************************************)
EXTENDS Execute, TableProofs

EvenAddrs == {a \in Addr : a % 2 = 0}

\* Instructions whose index may be bad if TRUE \in Bad.
InstructionRecords(Bad) ==
  [op : Opcode, at : Addr \cup {NowhereYet}, inst_pgc : EvenAddrs, targets : SUBSET Nat,
   bad_index : Bad, before : EntrySpec, core : ControlWords, after : EntrySpec, repeat : Repeats,
   illegal : BOOLEAN, restart : BOOLEAN, disable_clk : BOOLEAN]

Doings == [stage : SequencerPhases \cup {"DONE", "RESTART"}, at : EntrySpec]

ExecStates(Bad) ==
  [phase : Phases, seq : SequencerPhases, inst : InstructionRecords(Bad),
   mucode_control : EntrySpec, buffer : DecodedEntries, control : {"core_op", "buffer"},
   repeat_type : Repeats, branched : BOOLEAN, used_z : BOOLEAN, latch_aux : BOOLEAN,
   repi : 0..31, pgc : EvenAddrs, waiting : BOOLEAN, asked : DataAddrs \cup {0}, doing : Doings]

\* What a call works on, when it has been offered an instruction or not.
Works(Bad, o) ==
  [x : ExecStates(Bad), offered : {o, FALSE}, stops : BOOLEAN, target : EvenAddrs \cup {NoTarget}]

-----------------------------------------------------------------------------
\* PGC is aligned whatever is written to it.
LEMMA PgcAlignedEven == \A a \in Int : PgcAligned(a) \in EvenAddrs
<1> SUFFICES ASSUME NEW a \in Int PROVE PgcAligned(a) \in EvenAddrs
  OBVIOUS
<1>1. a % AddrSpace \in 0..(AddrSpace - 1)
  BY AddrAssumption
<1>2. \A n \in 0..(AddrSpace - 1) : 2 * (n \div 2) \in 0..(AddrSpace - 1)
  BY AddrAssumption
<1>3. \A r \in Int : (2 * (r \div 2)) % 2 = 0
  OBVIOUS
<1> QED
  BY <1>1, <1>2, <1>3 DEF PgcAligned, EvenAddrs, Addr

\* Writing one field of the unit's state with a value of its type.
LEMMA ExecUpdates ==
  ASSUME NEW Bad, NEW x \in ExecStates(Bad)
  PROVE  /\ \A y \in Phases : [x EXCEPT !.phase = y] \in ExecStates(Bad)
         /\ \A y \in SequencerPhases : [x EXCEPT !.seq = y] \in ExecStates(Bad)
         /\ \A y \in InstructionRecords(Bad) : [x EXCEPT !.inst = y] \in ExecStates(Bad)
         /\ \A y \in EntrySpec : [x EXCEPT !.mucode_control = y] \in ExecStates(Bad)
         /\ \A y \in DecodedEntries : [x EXCEPT !.buffer = y] \in ExecStates(Bad)
         /\ \A y \in {"core_op", "buffer"} : [x EXCEPT !.control = y] \in ExecStates(Bad)
         /\ \A y \in Repeats : [x EXCEPT !.repeat_type = y] \in ExecStates(Bad)
         /\ \A y \in BOOLEAN : [x EXCEPT !.branched = y] \in ExecStates(Bad)
         /\ \A y \in BOOLEAN : [x EXCEPT !.used_z = y] \in ExecStates(Bad)
         /\ \A y \in BOOLEAN : [x EXCEPT !.latch_aux = y] \in ExecStates(Bad)
         /\ \A y \in 0..31 : [x EXCEPT !.repi = y] \in ExecStates(Bad)
         /\ \A y \in EvenAddrs : [x EXCEPT !.pgc = y] \in ExecStates(Bad)
         /\ \A y \in BOOLEAN : [x EXCEPT !.waiting = y] \in ExecStates(Bad)
         /\ \A y \in DataAddrs \cup {0} : [x EXCEPT !.asked = y] \in ExecStates(Bad)
         /\ \A y \in Doings : [x EXCEPT !.doing = y] \in ExecStates(Bad)
  BY DEF ExecStates

\* Reading the fields of the unit's state.
LEMMA ExecFields ==
  ASSUME NEW Bad, NEW x \in ExecStates(Bad)
  PROVE  /\ x.phase \in Phases /\ x.seq \in SequencerPhases /\ x.inst \in InstructionRecords(Bad)
         /\ x.mucode_control \in EntrySpec /\ x.buffer \in DecodedEntries
         /\ x.control \in {"core_op", "buffer"} /\ x.repeat_type \in Repeats
         /\ x.branched \in BOOLEAN /\ x.used_z \in BOOLEAN /\ x.latch_aux \in BOOLEAN
         /\ x.repi \in 0..31 /\ x.pgc \in EvenAddrs /\ x.waiting \in BOOLEAN
         /\ x.asked \in DataAddrs \cup {0} /\ x.doing \in Doings
  BY DEF ExecStates

\* Reading the fields of an instruction.
LEMMA InstructionFields ==
  ASSUME NEW Bad, NEW i \in InstructionRecords(Bad)
  PROVE  /\ i.op \in Opcode /\ i.inst_pgc \in EvenAddrs /\ i.targets \subseteq Nat
         /\ i.before \in EntrySpec /\ i.core \in ControlWords /\ i.after \in EntrySpec
         /\ i.repeat \in Repeats /\ i.illegal \in BOOLEAN /\ i.bad_index \in Bad
  BY DEF InstructionRecords

\* The control word in use, and writing it.
LEMMA ControlType ==
  ASSUME NEW Bad, NEW x \in ExecStates(Bad)
  PROVE  /\ Control(x) \in ControlWords
         /\ \A c \in ControlWords : WithControl(x, c) \in ExecStates(Bad)
<1>1. Control(x) \in ControlWords
  BY ExecFields DEF Control, InstructionRecords, DecodedEntries
<1>2. ASSUME NEW c \in ControlWords PROVE WithControl(x, c) \in ExecStates(Bad)
  <2>1. [x EXCEPT !.inst.core = c] \in ExecStates(Bad)
    BY DEF ExecStates, InstructionRecords
  <2>2. [x EXCEPT !.buffer.operation = c] \in ExecStates(Bad)
    BY DEF ExecStates, DecodedEntries
  <2> QED
    BY <2>1, <2>2 DEF WithControl
<1> QED
  BY <1>1, <1>2

\* Writing one field of a second half in progress.
LEMMA WorkUpdates ==
  ASSUME NEW Bad, NEW o \in BOOLEAN, NEW w \in Works(Bad, o)
  PROVE  /\ \A y \in ExecStates(Bad) : [w EXCEPT !.x = y] \in Works(Bad, o)
         /\ [w EXCEPT !.offered = FALSE] \in Works(Bad, o)
         /\ [w EXCEPT !.stops = TRUE] \in Works(Bad, o)
         /\ \A y \in EvenAddrs : [w EXCEPT !.target = y] \in Works(Bad, o)
  BY DEF Works

\* The same one level down, in the state that the second half is making.
LEMMA WorkExecUpdates ==
  ASSUME NEW Bad, NEW o \in BOOLEAN, NEW w \in Works(Bad, o)
  PROVE  /\ \A y \in SequencerPhases : [w EXCEPT !.x.seq = y] \in Works(Bad, o)
         /\ \A y \in InstructionRecords(Bad) : [w EXCEPT !.x.inst = y] \in Works(Bad, o)
         /\ \A y \in EntrySpec : [w EXCEPT !.x.mucode_control = y] \in Works(Bad, o)
         /\ \A y \in DecodedEntries : [w EXCEPT !.x.buffer = y] \in Works(Bad, o)
         /\ \A y \in {"core_op", "buffer"} : [w EXCEPT !.x.control = y] \in Works(Bad, o)
         /\ \A y \in Repeats : [w EXCEPT !.x.repeat_type = y] \in Works(Bad, o)
         /\ \A y \in Repeats : [w EXCEPT !.x.inst.repeat = y] \in Works(Bad, o)
         /\ \A y \in BOOLEAN : [w EXCEPT !.x.branched = y] \in Works(Bad, o)
         /\ \A y \in EvenAddrs : [w EXCEPT !.x.pgc = y] \in Works(Bad, o)
         /\ \A y \in Doings : [w EXCEPT !.x.doing = y] \in Works(Bad, o)
         /\ \A y \in MucodeEntries : [w EXCEPT !.x.mucode_control.idx = y] \in Works(Bad, o)
         /\ \A y \in Phases : [w EXCEPT !.x.phase = y] \in Works(Bad, o)
<1>1. /\ \A y \in SequencerPhases : [w EXCEPT !.x.seq = y] \in Works(Bad, o)
      /\ \A y \in InstructionRecords(Bad) : [w EXCEPT !.x.inst = y] \in Works(Bad, o)
      /\ \A y \in EntrySpec : [w EXCEPT !.x.mucode_control = y] \in Works(Bad, o)
      /\ \A y \in DecodedEntries : [w EXCEPT !.x.buffer = y] \in Works(Bad, o)
      /\ \A y \in {"core_op", "buffer"} : [w EXCEPT !.x.control = y] \in Works(Bad, o)
      /\ \A y \in Repeats : [w EXCEPT !.x.repeat_type = y] \in Works(Bad, o)
      /\ \A y \in BOOLEAN : [w EXCEPT !.x.branched = y] \in Works(Bad, o)
      /\ \A y \in EvenAddrs : [w EXCEPT !.x.pgc = y] \in Works(Bad, o)
      /\ \A y \in Doings : [w EXCEPT !.x.doing = y] \in Works(Bad, o)
      /\ \A y \in Phases : [w EXCEPT !.x.phase = y] \in Works(Bad, o)
  BY DEF Works, ExecStates
<1>2. \A y \in Repeats : [w EXCEPT !.x.inst.repeat = y] \in Works(Bad, o)
  BY DEF Works, ExecStates, InstructionRecords
<1>3. \A y \in MucodeEntries : [w EXCEPT !.x.mucode_control.idx = y] \in Works(Bad, o)
  BY DEF Works, ExecStates, EntrySpec
<1> QED
  BY <1>1, <1>2, <1>3


\* Reading the fields of a second half in progress.
LEMMA WorkFields ==
  ASSUME NEW Bad, NEW o \in BOOLEAN, NEW w \in Works(Bad, o)
  PROVE  w.x \in ExecStates(Bad) /\ w.offered \in BOOLEAN /\ w.stops \in BOOLEAN
  BY DEF Works

-----------------------------------------------------------------------------
\* The two halves' own parts.
LEMMA AssertedType ==
  ASSUME NEW Bad, NEW x \in ExecStates(Bad), NEW a \in DataAddrs
  PROVE  Asserted(x, a) \in ExecStates(Bad)
<1>1. [Control(x) EXCEPT !.latch = "MEM_NO_LATCH"] \in ControlWords
  BY ControlType, ControlUpdates DEF AddressLatches
<1>2. WithControl(x, [Control(x) EXCEPT !.latch = "MEM_NO_LATCH"]) \in ExecStates(Bad)
  BY <1>1, ControlType
<1> QED
  BY <1>2, ExecUpdates DEF Asserted

\* PGC stays even whatever is written to it.
LEMMA WritePgcType ==
  ASSUME NEW Bad, NEW o \in BOOLEAN, NEW w \in Works(Bad, o), NEW a \in Int
  PROVE  WritePgc(w, a) \in Works(Bad, o)
<1>1. PgcAligned(a) \in EvenAddrs
  BY PgcAlignedEven
<1> HIDE DEF PgcAligned
<1> QED
  BY <1>1, WorkUpdates, WorkExecUpdates DEF WritePgc

\* REPI stays a five-bit counter.
LEMMA RepiResultType ==
  ASSUME NEW Bad, NEW x \in ExecStates(Bad)
  PROVE  RepiResult(x) \in 0..31
<1>1. (x.repi + 31) % 32 \in 0..31
  BY ExecFields
<1>2. x.inst.after.size \in 0..31
  BY ExecFields, InstructionFields, FieldTypes
<1>3. RepeatCount(x.inst.op) \in 0..31
  <2>1. x.inst.op \in Opcode
    BY ExecFields, InstructionFields
  <2>2. \A op \in Opcode : Bits(op, 4, 0) \in Nat
    BY OpcodeIsNat DEF Bits
  <2>3. \A n \in Nat : (n + 1) % 32 \in 0..31
    OBVIOUS
  <2> QED
    BY <2>1, <2>2, <2>3 DEF RepeatCount
<1> QED
  BY <1>1, <1>2, <1>3, Zenon DEF RepiResult

\* Latching the result keeps the types.
LEMMA ResultLatchedType ==
  ASSUME NEW Bad, NEW o \in BOOLEAN, NEW w \in Works(Bad, o), NEW d \in FreeData, NEW a \in Int
  PROVE  ResultLatched(w, d, a) \in Works(Bad, o)
<1> DEFINE c == Control(w.x)
           zero == IF c.dest = "REPI" THEN RepiResult(w.x) = 0 /\ c.src1 = "REPI" ELSE d.zero
           aux == CASE c.aux = "LATCH_AUX_NONE"  -> w.x.latch_aux
                    [] c.aux = "LATCH_AUX_CLEAR" -> FALSE
                    [] c.aux = "LATCH_AUX_ZERO"  -> zero
                    [] c.aux = "LATCH_AUX_CARRY" -> d.carry
           written == IF c.dest = "PGC" THEN WritePgc(w, a) ELSE w
           spent == WithControl(written.x, [c EXCEPT !.alu = FALSE])
           repi == IF c.dest = "REPI" THEN RepiResult(w.x) ELSE spent.repi
           x == [spent EXCEPT !.used_z = zero, !.latch_aux = aux, !.repi = repi]
<1>1. c \in ControlWords /\ w.x \in ExecStates(Bad)
  BY WorkFields, ControlType
<1>2. written \in Works(Bad, o) /\ written.x \in ExecStates(Bad)
  BY WritePgcType, WorkFields
<1>3. zero \in BOOLEAN
  BY DEF FreeData
<1>4. aux \in BOOLEAN
  BY <1>1, <1>3, ExecFields DEF FreeData, ControlWords, AuxLatches
<1>5. spent \in ExecStates(Bad)
  <2>1. [c EXCEPT !.alu = FALSE] \in ControlWords
    BY <1>1, ControlUpdates
  <2> QED
    BY <1>2, <2>1, ControlType
<1>6. repi \in 0..31
  BY <1>1, <1>5, RepiResultType, ExecFields
<1>7. ResultLatched(w, d, a) = IF ~c.alu THEN w ELSE [written EXCEPT !.x = x]
  BY DEF ResultLatched
<1> HIDE DEF c, zero, aux, written, spent, repi
<1>8. x \in ExecStates(Bad)
  BY <1>3, <1>4, <1>5, <1>6, ExecUpdates
<1> HIDE DEF x
<1>9. [written EXCEPT !.x = x] \in Works(Bad, o)
  BY <1>2, <1>8, WorkUpdates
<1> QED
  BY <1>7, <1>9

-----------------------------------------------------------------------------
\* The phases of the sequencer.
LEMMA RunRoutineType ==
  ASSUME NEW Bad, NEW o \in BOOLEAN, NEW w \in Works(Bad, o), NEW d \in FreeData,
         NEW finished \in SequencerPhases
  PROVE  RunRoutine(w, d, finished) \in Works(Bad, o)
<1> DEFINE x == w.x
           spec == IF ~x.buffer.branch THEN x.mucode_control
                   ELSE IF BranchTest(x, d) THEN x.buffer.next ELSE x.buffer.next_no_branch
           entry == EntryOf[spec]
           more == entry.branch \/ entry.next.idx # "MU_NONE"
           control == IF entry.branch THEN spec ELSE entry.next
           seq == IF more THEN w.x.seq ELSE finished
           doing == [stage |-> x.seq, at |-> spec]
<1>1. /\ x.mucode_control \in EntrySpec /\ x.buffer.next \in EntrySpec
      /\ x.buffer.next_no_branch \in EntrySpec /\ x.seq \in SequencerPhases
  BY WorkFields, ExecFields DEF DecodedEntries
<1>2. spec \in EntrySpec
  BY <1>1
<1> HIDE DEF x, spec
<1>3. entry \in DecodedEntries
  BY <1>2, EntryType
<1> HIDE DEF entry
<1>4. control \in EntrySpec /\ seq \in SequencerPhases /\ doing \in Doings
  BY <1>1, <1>2, <1>3 DEF DecodedEntries, Doings, x
<1> HIDE DEF control, seq, doing
<1>5. [w EXCEPT !.x.mucode_control = spec, !.x.seq = finished] \in Works(Bad, o)
  BY <1>2, WorkExecUpdates
<1>6. [w EXCEPT !.x.buffer = entry, !.x.control = "buffer", !.x.mucode_control = control,
                !.x.seq = seq, !.x.doing = doing] \in Works(Bad, o)
  BY <1>3, <1>4, WorkExecUpdates
<1>7. RunRoutine(w, d, finished) =
        IF x.buffer.branch /\ spec.idx = "MU_NONE"
        THEN [w EXCEPT !.x.mucode_control = spec, !.x.seq = finished]
        ELSE [w EXCEPT !.x.buffer = entry, !.x.control = "buffer", !.x.mucode_control = control,
                       !.x.seq = seq, !.x.doing = doing]
  BY DEF RunRoutine, control, seq, doing, entry, spec, x
<1> QED
  BY <1>5, <1>6, <1>7

\* The phases that end an instruction keep the types.
LEMMA EndingTypes ==
  ASSUME NEW Bad, NEW o \in BOOLEAN, NEW w \in Works(Bad, o), NEW d \in FreeData
  PROVE  /\ CoreOpExecuted(w) \in Works(Bad, o)
         /\ RepeatOpBranch(w, d) \in Works(Bad, o)
         /\ FinalSteps(w) \in Works(Bad, o)
<1>1. {"FINAL_STEPS", "RUN_AFTER", "WAIT_CACHED_INS", "REPEAT_OP", "WAIT_NEXT_INS"} \subseteq SequencerPhases
  BY DEF SequencerPhases
<1>2. /\ w.x.inst.after \in EntrySpec /\ w.x.inst.repeat \in Repeats /\ w.x.repeat_type \in Repeats
      /\ "MU_NONE" \in Repeats
  BY WorkFields, ExecFields, InstructionFields DEF Repeats
<1>3. CoreOpExecuted(w) \in Works(Bad, o)
  BY <1>1, <1>2, WorkExecUpdates DEF CoreOpExecuted
<1>4. RepeatOpBranch(w, d) \in Works(Bad, o)
  BY <1>1, <1>2, WorkExecUpdates DEF RepeatOpBranch
<1>5. ASSUME NEW idx \in Repeats PROVE StartRepeat(w, idx) \in Works(Bad, o)
  <2>1. [NoEntry EXCEPT !.idx = idx] \in EntrySpec
    BY NoEntryType, SpecUpdates DEF Repeats, MucodeEntries
  <2> QED
    BY <1>1, <1>2, <2>1, WorkExecUpdates DEF StartRepeat
<1>6. FinalSteps(w) \in Works(Bad, o)
  <2>1. /\ [w EXCEPT !.x.branched = FALSE, !.offered = FALSE, !.x.seq = "WAIT_NEXT_INS"] \in Works(Bad, o)
        /\ [w EXCEPT !.stops = TRUE] \in Works(Bad, o)
        /\ [w EXCEPT !.x.seq = "WAIT_NEXT_INS"] \in Works(Bad, o)
    BY <1>1, WorkUpdates, WorkExecUpdates
  <2>2. StartRepeat(w, w.x.inst.repeat) \in Works(Bad, o) /\ StartRepeat(w, w.x.repeat_type) \in Works(Bad, o)
    BY <1>2, <1>5
  <2> QED
    BY <2>1, <2>2, Zenon DEF FinalSteps
<1> QED
  BY <1>3, <1>4, <1>6

\* The phases that take an instruction keep the types.
LEMMA TakingTypes ==
  ASSUME NEW Bad, NEW o \in BOOLEAN, NEW w \in Works(Bad, o), NEW d \in FreeData,
         NEW inst \in InstructionRecords(Bad)
  PROVE  /\ WaitNextIns(w, inst) \in Works(Bad, o)
         /\ PushPgc(w, d) \in Works(Bad, o)
         /\ WaitCachedIns(w, inst) \in Works(Bad, o)
<1>1. /\ {"EVAL_CONTROL", "WAIT_NEXT_INS"} \subseteq SequencerPhases /\ "MU_NONE" \in Repeats
      /\ inst.inst_pgc \in EvenAddrs
  BY InstructionFields DEF SequencerPhases, Repeats
<1>2. Nothing \in Doings
  BY NoEntryType DEF Nothing, Doings
<1>3. WaitNextIns(w, inst) \in Works(Bad, o)
  <2>1. [w EXCEPT !.x.inst = inst, !.offered = FALSE, !.x.repeat_type = "MU_NONE",
                  !.x.doing = Nothing] \in Works(Bad, o)
    BY <1>1, <1>2, WorkUpdates, WorkExecUpdates
  <2>2. [w EXCEPT !.x.inst = inst, !.offered = FALSE, !.x.seq = "EVAL_CONTROL",
                  !.x.pgc = inst.inst_pgc] \in Works(Bad, o)
    BY <1>1, WorkUpdates, WorkExecUpdates
  <2> QED
    BY <2>1, <2>2 DEF WaitNextIns
<1>4. PushPgc(w, d) \in Works(Bad, o)
  BY <1>1, RunRoutineType DEF PushPgc
<1>5. WaitCachedIns(w, inst) \in Works(Bad, o)
  BY <1>1, WorkExecUpdates DEF WaitCachedIns
<1> QED
  BY <1>3, <1>4, <1>5

\* The phases that carry out a control word keep the types.
LEMMA EvaluatingTypes ==
  ASSUME NEW Bad, NEW o \in BOOLEAN, NEW w \in Works(Bad, o), NEW a \in Int
  PROVE  EvalControl(w, a) \in Works(Bad, o) /\ CoreOp(w) \in Works(Bad, o)
<1>1. /\ {"WAIT_NEXT_INS", "PUSH_PGC", "RUN_BEFORE", "CORE_OP", "CORE_OP_EXECUTED"} \subseteq SequencerPhases
      /\ "MU_PUSH_PGC_IND_SP_AUTO" \in MucodeEntries
      /\ w.x.inst.before \in EntrySpec
  BY WorkFields, ExecFields, InstructionFields DEF SequencerPhases, MucodeEntries
<1>2. Nothing \in Doings /\ [stage |-> "RESTART", at |-> NoEntry] \in Doings
      /\ [stage |-> "CORE_OP", at |-> NoEntry] \in Doings
  BY NoEntryType DEF Nothing, Doings, SequencerPhases
<1>3. Trapped(w) \in Works(Bad, o)
  <2>1. WritePgc(w, IllegalVector) \in Works(Bad, o)
    BY WritePgcType, ExecuteAssumption
  <2> QED
    BY <1>1, <1>2, <2>1, WorkExecUpdates DEF Trapped
<1>4. [WritePgc(w, a) EXCEPT !.x.seq = "PUSH_PGC",
                             !.x.mucode_control.idx = "MU_PUSH_PGC_IND_SP_AUTO",
                             !.x.doing = [stage |-> "RESTART", at |-> NoEntry]] \in Works(Bad, o)
  BY <1>1, <1>2, WritePgcType, WorkExecUpdates
<1>5. /\ [w EXCEPT !.x.seq = "RUN_BEFORE", !.x.mucode_control = w.x.inst.before] \in Works(Bad, o)
      /\ [w EXCEPT !.x.seq = "CORE_OP"] \in Works(Bad, o)
  BY <1>1, WorkExecUpdates
<1>6. CoreOp(w) \in Works(Bad, o)
  BY <1>1, <1>2, WorkExecUpdates DEF CoreOp
<1>7. EvalControl(w, a) \in Works(Bad, o)
  BY <1>3, <1>4, <1>5 DEF EvalControl
<1> QED
  BY <1>6, <1>7

\* The phases that load the next routine keep the types.
LEMMA LoadingTypes ==
  ASSUME NEW Bad, NEW o \in BOOLEAN, NEW w \in Works(Bad, o), NEW d \in FreeData
  PROVE  /\ RunBefore(w, d) \in Works(Bad, o)
         /\ RunAfter(w, d) \in Works(Bad, o)
         /\ RepeatOp(w, d) \in Works(Bad, o)
  BY RunRoutineType DEF RunBefore, RunAfter, RepeatOp, SequencerPhases

\* The whole call.
LEMMA AdvancedType ==
  ASSUME NEW Bad, NEW o \in BOOLEAN, NEW w \in Works(Bad, o), NEW d \in FreeData, NEW a \in Int,
         NEW inst \in InstructionRecords(Bad)
  PROVE  Advanced(w, inst, d, a) \in Works(Bad, o)
<1> DEFINE finished == FinalSteps(RepeatOpBranch(CoreOpExecuted(w), d))
           taken == WaitCachedIns(PushPgc(WaitNextIns(finished, inst), d), inst)
           evaluated == CoreOp(EvalControl(taken, a))
           loaded == RepeatOp(RunAfter(RunBefore(evaluated, d), d), d)
<1>1. finished \in Works(Bad, o)
  BY EndingTypes
<1> HIDE DEF finished
<1>2. taken \in Works(Bad, o)
  BY <1>1, TakingTypes
<1> HIDE DEF taken
<1>3. evaluated \in Works(Bad, o)
  BY <1>2, EvaluatingTypes
<1> HIDE DEF evaluated
<1>5. loaded \in Works(Bad, o)
  BY <1>3, LoadingTypes
<1> HIDE DEF loaded
<1>6. [loaded EXCEPT !.x.phase = "HALF1_READY"] \in Works(Bad, o)
  BY <1>5, WorkExecUpdates DEF Phases
<1> QED
  BY <1>6 DEF Advanced, loaded, evaluated, taken, finished

-----------------------------------------------------------------------------
(***************************************************************************)
(* A call and the announcement it makes: in the first half of a cycle      *)
(* execute_memory_backoff says whether the control word accesses memory.   *)
(***************************************************************************)
FirstHalfPhases == {"HALF1_READY", "HALF1_MEM_WAIT", "HALF1_MEM_ASSERT"}

Announced ==
  /\ exec.phase = "START" => ~execute_memory_backoff
  /\ exec.phase \in FirstHalfPhases => execute_memory_backoff = Announces(Control(exec))
  /\ exec.phase # "START" /\ Announces(Control(exec)) => execute_memory_backoff

UnitTyped(Bad) ==
  /\ exec \in ExecStates(Bad)
  /\ {decoded_inst_semaph, execute_branch, execute_memory_backoff, disable_clk} \subseteq BOOLEAN

RaisesEven ==
  \/ UNCHANGED <<execute_branch, execute_branch_addr>>
  \/ execute_branch' = TRUE /\ execute_branch_addr' \in EvenAddrs

\* The initial state is typed, and waits for an instruction.
LEMMA InitTyped ==
  ASSUME NEW Bad, FALSE \in Bad, ExecuteInit
  PROVE  exec \in ExecStates(Bad) /\ exec.phase = "START" /\ exec.seq = "WAIT_NEXT_INS"
<1>1. 0 \in EvenAddrs /\ 0 \in Addr /\ 0 \in Opcode
  BY AddrAssumption DEF EvenAddrs, Addr, Opcode
<1>2. [NoEntry EXCEPT !.size = 8] \in EntrySpec
  BY NoEntryType, SpecUpdates
<1>3. Instruction(0, NowhereYet, Blank, 0, {}, FALSE) \in InstructionRecords(Bad)
  <2>1. /\ Blank.before \in EntrySpec /\ Blank.core \in ControlWords /\ Blank.after \in EntrySpec
        /\ Blank.repeat \in Repeats
        /\ {Blank.illegal, Blank.restart, Blank.disable_clk} \subseteq BOOLEAN
    BY BlankType DEF WellFormed
  <2> QED
    BY <1>1, <2>1 DEF Instruction, InstructionRecords
<1>4. Base([NoEntry EXCEPT !.size = 8]) \in DecodedEntries
  BY <1>2, BaseType
<1>5. Nothing \in Doings
  BY NoEntryType DEF Nothing, Doings
<1>6. /\ "START" \in Phases /\ "WAIT_NEXT_INS" \in SequencerPhases /\ "MU_NONE" \in Repeats
      /\ 0 \in 0..31 /\ 0 \in DataAddrs \cup {0} /\ "buffer" \in {"core_op", "buffer"}
  BY DEF Phases, SequencerPhases, Repeats
<1> HIDE DEF Instruction, Base, Nothing
<1>7. exec \in ExecStates(Bad)
  BY <1>1, <1>2, <1>3, <1>4, <1>5, <1>6 DEF ExecuteInit, ExecStates
<1> QED
  BY <1>7 DEF ExecuteInit

-----------------------------------------------------------------------------
\* Latching the operands of a first half keeps the types.
LEMMA OperandsLatchedType ==
  ASSUME NEW Bad, Bad \subseteq BOOLEAN, exec \in ExecStates(Bad)
  PROVE  /\ OperandsLatched \in ExecStates(Bad)
         /\ Control(OperandsLatched) = Control(exec)
         /\ OperandsLatched.phase = exec.phase
         /\ TRUE \notin Bad => OperandsLatched.seq = exec.seq
<1> DEFINE waiting == exec.waiting /\ ~data_valid
           asked == IF data_valid THEN 0 ELSE exec.asked
           seq == IF InvalidIndex(exec) THEN "EVAL_CONTROL" ELSE exec.seq
           ill == exec.inst.illegal \/ InvalidIndex(exec)
           x == [exec EXCEPT !.waiting = waiting, !.asked = asked, !.seq = seq, !.inst.illegal = ill]
<1>1. /\ waiting \in BOOLEAN /\ asked \in DataAddrs \cup {0} /\ seq \in SequencerPhases
      /\ ill \in BOOLEAN
  BY ExecFields DEF SequencerPhases
<1>2. TRUE \notin Bad => ~InvalidIndex(exec)
  BY ExecFields, InstructionFields DEF InvalidIndex
<1>3. TRUE \notin Bad => seq = exec.seq
  BY <1>2
<1>4. OperandsLatched = IF exec.phase = "HALF1_MEM_ASSERT" THEN exec ELSE x
  BY DEF OperandsLatched
<1> HIDE DEF waiting, asked, seq, ill
<1>5. x \in ExecStates(Bad)
  BY <1>1 DEF ExecStates, InstructionRecords
<1>6. /\ Control(x) = Control(exec) /\ x.phase = exec.phase /\ x.seq = seq
  BY DEF Control, ExecStates, InstructionRecords
<1> HIDE DEF x
<1> QED
  BY <1>3, <1>4, <1>5, <1>6

\* Asserting an address consumes the announcement and starts the wait for the answer.
LEMMA AssertedFacts ==
  ASSUME NEW Bad, NEW x \in ExecStates(Bad), NEW a \in DataAddrs
  PROVE  /\ Control(Asserted(x, a)).latch = "MEM_NO_LATCH"
         /\ Asserted(x, a).phase = x.phase /\ Asserted(x, a).seq = x.seq
         /\ Asserted(x, a).waiting = TRUE /\ Asserted(x, a).asked = a
  BY DEF Asserted, Control, WithControl, ExecStates, InstructionRecords, DecodedEntries, ControlWords

\* What changing the bus phase changes, and what it does not.
LEMMA PhaseFacts ==
  ASSUME NEW Bad, NEW x \in ExecStates(Bad), NEW p \in Phases
  PROVE  /\ [x EXCEPT !.phase = p] \in ExecStates(Bad)
         /\ [x EXCEPT !.phase = p].phase = p
         /\ [x EXCEPT !.phase = p].seq = x.seq
         /\ [x EXCEPT !.phase = p].waiting = x.waiting
         /\ [x EXCEPT !.phase = p].asked = x.asked
         /\ Control([x EXCEPT !.phase = p]) = Control(x)
  BY DEF Control, ExecStates

\* First half of a cycle.
LEMMA Half1Typed ==
  ASSUME NEW Bad, Bad \subseteq BOOLEAN, exec \in ExecStates(Bad), ExecHalf1
  PROVE  exec' \in ExecStates(Bad)
<1>1. {"HALF1_MEM_WAIT", "HALF2_READY", "HALF1_MEM_ASSERT"} \subseteq Phases
  BY DEF Phases
<1>2. OperandsLatched \in ExecStates(Bad)
  BY OperandsLatchedType
<1>3. CASE ExecWaits
  BY <1>1, <1>3, PhaseFacts DEF ExecWaits
<1>4. CASE ExecLatches \/ ExecHeld
  BY <1>1, <1>2, <1>4, PhaseFacts DEF ExecLatches, ExecHeld
<1>5. CASE ExecAsserts
  BY <1>1, <1>2, <1>5, PhaseFacts, AssertedType DEF ExecAsserts
<1>6. CASE ExecSkipsHalf1
  BY <1>6 DEF ExecSkipsHalf1
<1> QED
  BY <1>3, <1>4, <1>5, <1>6 DEF ExecHalf1

\* A first half leaves no announcement that the second half must not find.
LEMMA Half1Announced ==
  ASSUME NEW Bad, Bad \subseteq BOOLEAN, exec \in ExecStates(Bad), Announced, ExecHalf1
  PROVE  Announced'
<1>0. execute_memory_backoff' = execute_memory_backoff
  BY DEF ExecHalf1, icvars
<1>1. {"HALF1_MEM_WAIT", "HALF2_READY", "HALF1_MEM_ASSERT"} \subseteq Phases
  BY DEF Phases
<1>2. OperandsLatched \in ExecStates(Bad) /\ Control(OperandsLatched) = Control(exec)
  BY OperandsLatchedType
<1>3. CASE ExecWaits
  <2>1. exec'.phase = "HALF1_MEM_WAIT" /\ Control(exec') = Control(exec)
    BY <1>1, <1>3, PhaseFacts DEF ExecWaits
  <2> QED
    BY <1>0, <1>3, <2>1 DEF ExecWaits, InFirstHalf, Announced, Announces, FirstHalfPhases
<1>4. CASE ExecLatches \/ ExecHeld
  <2>0. PICK p \in {"HALF2_READY", "HALF1_MEM_ASSERT"} : exec' = [OperandsLatched EXCEPT !.phase = p]
    BY <1>4 DEF ExecLatches, ExecHeld
  <2>1. exec'.phase = p /\ Control(exec') = Control(exec)
    BY <1>1, <1>2, <2>0, PhaseFacts
  <2>2. exec.phase \in FirstHalfPhases
    BY <1>4 DEF ExecLatches, ExecHeld, InFirstHalf, FirstHalfPhases
  <2> QED
    BY <1>0, <2>1, <2>2 DEF Announced, FirstHalfPhases
<1>5. CASE ExecAsserts
  <2>1. PICK a \in DataAddrs : exec' = [Asserted(OperandsLatched, a) EXCEPT !.phase = "HALF2_READY"]
    BY <1>5 DEF ExecAsserts
  <2>2. Asserted(OperandsLatched, a) \in ExecStates(Bad)
    BY <1>2, AssertedType
  <2>3. exec'.phase = "HALF2_READY" /\ Control(exec') = Control(Asserted(OperandsLatched, a))
    BY <1>1, <2>1, <2>2, PhaseFacts
  <2>4. Control(Asserted(OperandsLatched, a)).latch = "MEM_NO_LATCH"
    BY <1>2, AssertedFacts
  <2>5. ~Announces(Control(exec'))
    BY <2>3, <2>4 DEF Announces
  <2> QED
    BY <1>0, <2>3, <2>5 DEF Announced, FirstHalfPhases
<1>6. CASE ExecSkipsHalf1
  BY <1>0, <1>6 DEF ExecSkipsHalf1, Announced
<1> QED
  BY <1>3, <1>4, <1>5, <1>6 DEF ExecHalf1

-----------------------------------------------------------------------------
\* Second half.
LEMMA PgcResultsType ==
  ASSUME NEW Bad, exec \in ExecStates(Bad)
  PROVE  PgcResults(exec) \subseteq Int
<1> DEFINE before == exec.pgc + AddrSpace - 2
<1>1. before \in Int
  BY ExecFields, AddrAssumption DEF EvenAddrs, Addr
<1>2. exec.inst.targets \subseteq Int
  BY ExecFields, InstructionFields
<1>3. PgcResults(exec) = {before} \/ PgcResults(exec) = exec.inst.targets \/ PgcResults(exec) = DataAddrs
  BY DEF PgcResults
<1>4. {before} \subseteq Int /\ DataAddrs \subseteq Int
  BY <1>1, ExecuteAssumption
<1> HIDE DEF before
<1> QED
  BY <1>2, <1>3, <1>4

\* The result of the ALU is typed.
LEMMA ResultType ==
  ASSUME NEW Bad, UnitTyped(Bad), NEW d \in FreeData, NEW a \in Int
  PROVE  Result(d, a) \in Works(Bad, decoded_inst_semaph)
<1>1. Started \in Works(Bad, decoded_inst_semaph)
  BY DEF Started, Works, UnitTyped
<1> HIDE DEF Started
<1>2. ResultLatched(Started, d, a) \in Works(Bad, decoded_inst_semaph)
  BY <1>1, ResultLatchedType DEF UnitTyped
<1> QED
  BY <1>1, <1>2 DEF Result

\* Storing a result does not change which accesses the control word makes.
LEMMA WritePgcFacts ==
  ASSUME NEW Bad, NEW o \in BOOLEAN, NEW w \in Works(Bad, o), NEW a
  PROVE  /\ Control(WritePgc(w, a).x) = Control(w.x)
         /\ WritePgc(w, a).x.phase = w.x.phase
         /\ WritePgc(w, a).x.waiting = w.x.waiting
         /\ WritePgc(w, a).x.asked = w.x.asked
  BY DEF WritePgc, Control, Works, ExecStates

\* Latching the result leaves what the bus is asked for alone.
LEMMA ResultLatchedFacts ==
  ASSUME NEW Bad, NEW o \in BOOLEAN, NEW w \in Works(Bad, o), NEW d \in FreeData, NEW a \in Int
  PROVE  /\ Control(ResultLatched(w, d, a).x).latch = Control(w.x).latch
         /\ Control(ResultLatched(w, d, a).x).suppress = Control(w.x).suppress
         /\ ResultLatched(w, d, a).x.waiting = w.x.waiting
         /\ ResultLatched(w, d, a).x.asked = w.x.asked
         /\ ~Control(w.x).alu => ResultLatched(w, d, a) = w
<1> DEFINE c == Control(w.x)
           zero == IF c.dest = "REPI" THEN RepiResult(w.x) = 0 /\ c.src1 = "REPI" ELSE d.zero
           aux == CASE c.aux = "LATCH_AUX_NONE"  -> w.x.latch_aux
                    [] c.aux = "LATCH_AUX_CLEAR" -> FALSE
                    [] c.aux = "LATCH_AUX_ZERO"  -> zero
                    [] c.aux = "LATCH_AUX_CARRY" -> d.carry
           written == IF c.dest = "PGC" THEN WritePgc(w, a) ELSE w
           spent == WithControl(written.x, [c EXCEPT !.alu = FALSE])
           repi == IF c.dest = "REPI" THEN RepiResult(w.x) ELSE spent.repi
           x == [spent EXCEPT !.used_z = zero, !.latch_aux = aux, !.repi = repi]
<1>1. ResultLatched(w, d, a) = IF ~c.alu THEN w ELSE [written EXCEPT !.x = x]
  BY DEF ResultLatched
<1>2. c \in ControlWords
  BY WorkFields, ControlType
<1>3. /\ written \in Works(Bad, o) /\ Control(written.x) = c
      /\ written.x.waiting = w.x.waiting /\ written.x.asked = w.x.asked
  BY WritePgcType, WritePgcFacts
<1> HIDE DEF c, written
<1>4. [c EXCEPT !.alu = FALSE] \in ControlWords
  BY <1>2, ControlUpdates
<1> DEFINE cc == [c EXCEPT !.alu = FALSE]
<1>5. cc.latch = c.latch /\ cc.suppress = c.suppress
  BY <1>2 DEF ControlWords
<1> HIDE DEF cc
<1>6. /\ Control(spent) = cc /\ spent \in ExecStates(Bad)
      /\ spent.waiting = written.x.waiting /\ spent.asked = written.x.asked
  <2>1. written.x \in ExecStates(Bad)
    BY <1>3, WorkFields
  <2>2. \A y \in ExecStates(Bad) :
          /\ Control(WithControl(y, cc)) = cc
          /\ WithControl(y, cc).waiting = y.waiting /\ WithControl(y, cc).asked = y.asked
    BY DEF Control, WithControl, ExecStates, InstructionRecords, DecodedEntries
  <2>3. WithControl(written.x, cc) \in ExecStates(Bad)
    BY <1>4, <2>1, ControlType DEF cc
  <2> QED
    BY <2>1, <2>2, <2>3 DEF cc
<1> HIDE DEF spent, zero, aux, repi
<1>7. Control(x) = Control(spent) /\ x.waiting = spent.waiting /\ x.asked = spent.asked
  BY <1>6 DEF ExecStates, Control
<1> HIDE DEF x
<1>8. [written EXCEPT !.x = x].x = x
  BY <1>3 DEF Works
<1> QED
  BY <1>1, <1>3, <1>5, <1>6, <1>7, <1>8 DEF c

\* The sequencer leaves alone what the unit waits for.
KeepsWait(v, w) == v.x.waiting = w.x.waiting /\ v.x.asked = w.x.asked

\* Running a routine asks the bus for nothing.
LEMMA RunRoutineKeepsWait ==
  ASSUME NEW Bad, NEW o \in BOOLEAN, NEW w \in Works(Bad, o), NEW d, NEW finished
  PROVE  KeepsWait(RunRoutine(w, d, finished), w)
<1> DEFINE x == w.x
           spec == IF ~x.buffer.branch THEN x.mucode_control
                   ELSE IF BranchTest(x, d) THEN x.buffer.next ELSE x.buffer.next_no_branch
           entry == EntryOf[spec]
           more == entry.branch \/ entry.next.idx # "MU_NONE"
           control == IF entry.branch THEN spec ELSE entry.next
           seq == IF more THEN w.x.seq ELSE finished
           doing == [stage |-> x.seq, at |-> spec]
           ends == [w EXCEPT !.x.mucode_control = spec, !.x.seq = finished]
           goes == [w EXCEPT !.x.buffer = entry, !.x.control = "buffer", !.x.mucode_control = control,
                             !.x.seq = seq, !.x.doing = doing]
<1>1. RunRoutine(w, d, finished) = IF x.buffer.branch /\ spec.idx = "MU_NONE" THEN ends ELSE goes
  BY DEF RunRoutine
<1> HIDE DEF x, spec, entry, more, control, seq, doing
<1>2. KeepsWait(ends, w) /\ KeepsWait(goes, w)
  BY DEF KeepsWait, Works, ExecStates
<1> QED
  BY <1>1, <1>2

\* No sequencer phase asks the bus for anything.
LEMMA PhasesKeepWait ==
  ASSUME NEW Bad, NEW o \in BOOLEAN, NEW w \in Works(Bad, o), NEW d, NEW a, NEW inst
  PROVE  /\ KeepsWait(CoreOpExecuted(w), w) /\ KeepsWait(RepeatOpBranch(w, d), w)
         /\ KeepsWait(FinalSteps(w), w)
         /\ KeepsWait(WaitNextIns(w, inst), w) /\ KeepsWait(PushPgc(w, d), w)
         /\ KeepsWait(WaitCachedIns(w, inst), w)
         /\ KeepsWait(EvalControl(w, a), w) /\ KeepsWait(CoreOp(w), w)
         /\ KeepsWait(RunBefore(w, d), w) /\ KeepsWait(RunAfter(w, d), w)
         /\ KeepsWait(RepeatOp(w, d), w)
<1>1. KeepsWait(w, w)
  BY DEF KeepsWait
<1>2. /\ KeepsWait(PushPgc(w, d), w) /\ KeepsWait(RunBefore(w, d), w)
      /\ KeepsWait(RunAfter(w, d), w) /\ KeepsWait(RepeatOp(w, d), w)
  BY <1>1, RunRoutineKeepsWait DEF PushPgc, RunBefore, RunAfter, RepeatOp
<1>3. KeepsWait(CoreOpExecuted(w), w)
  BY DEF CoreOpExecuted, KeepsWait, Works, ExecStates
<1>4. KeepsWait(RepeatOpBranch(w, d), w)
  BY DEF RepeatOpBranch, KeepsWait, Works, ExecStates
<1>5. KeepsWait(FinalSteps(w), w)
  <2>1. \A idx : KeepsWait(StartRepeat(w, idx), w)
    BY DEF StartRepeat, KeepsWait, Works, ExecStates
  <2>2. /\ KeepsWait([w EXCEPT !.x.branched = FALSE, !.offered = FALSE, !.x.seq = "WAIT_NEXT_INS"], w)
        /\ KeepsWait([w EXCEPT !.stops = TRUE], w)
        /\ KeepsWait([w EXCEPT !.x.seq = "WAIT_NEXT_INS"], w)
    BY DEF KeepsWait, Works, ExecStates
  <2> QED
    BY <1>1, <2>1, <2>2, Zenon DEF FinalSteps
<1>6. KeepsWait(WaitNextIns(w, inst), w)
  BY DEF WaitNextIns, KeepsWait, Works, ExecStates
<1>7. KeepsWait(WaitCachedIns(w, inst), w)
  BY DEF WaitCachedIns, KeepsWait, Works, ExecStates
<1>8. KeepsWait(EvalControl(w, a), w)
  <2>1. KeepsWait(Trapped(w), w)
    BY DEF Trapped, WritePgc, KeepsWait, Works, ExecStates
  <2>2. KeepsWait([WritePgc(w, a) EXCEPT !.x.seq = "PUSH_PGC",
                     !.x.mucode_control.idx = "MU_PUSH_PGC_IND_SP_AUTO",
                     !.x.doing = [stage |-> "RESTART", at |-> NoEntry]], w)
    BY DEF WritePgc, KeepsWait, Works, ExecStates
  <2>3. /\ KeepsWait([w EXCEPT !.x.seq = "RUN_BEFORE", !.x.mucode_control = w.x.inst.before], w)
        /\ KeepsWait([w EXCEPT !.x.seq = "CORE_OP"], w)
    BY DEF KeepsWait, Works, ExecStates
  <2> QED
    BY <1>1, <2>1, <2>2, <2>3, Zenon DEF EvalControl
<1>9. KeepsWait(CoreOp(w), w)
  BY DEF CoreOp, KeepsWait, Works, ExecStates
<1> QED
  BY <1>2, <1>3, <1>4, <1>5, <1>6, <1>7, <1>8, <1>9

\* Nor does the chain of phases of one call.
LEMMA AdvancedKeepsWait ==
  ASSUME NEW Bad, NEW o \in BOOLEAN, NEW w \in Works(Bad, o), NEW d \in FreeData, NEW a \in Int,
         NEW inst \in InstructionRecords(Bad)
  PROVE  KeepsWait(Advanced(w, inst, d, a), w)
<1> DEFINE w1 == CoreOpExecuted(w)
           w2 == RepeatOpBranch(w1, d)
           w3 == FinalSteps(w2)
           w4 == WaitNextIns(w3, inst)
           w5 == PushPgc(w4, d)
           w6 == WaitCachedIns(w5, inst)
           w7 == EvalControl(w6, a)
           w8 == CoreOp(w7)
           w9 == RunBefore(w8, d)
           w10 == RunAfter(w9, d)
           w11 == RepeatOp(w10, d)
<1>1. Advanced(w, inst, d, a) = [w11 EXCEPT !.x.phase = "HALF1_READY"]
  BY DEF Advanced
<1>2. w1 \in Works(Bad, o) /\ KeepsWait(w1, w)
  BY EndingTypes, PhasesKeepWait
<1> HIDE DEF w1
<1>3. w2 \in Works(Bad, o) /\ KeepsWait(w2, w1)
  BY <1>2, EndingTypes, PhasesKeepWait
<1> HIDE DEF w2
<1>4. w3 \in Works(Bad, o) /\ KeepsWait(w3, w2)
  BY <1>3, EndingTypes, PhasesKeepWait
<1> HIDE DEF w3
<1>5. w4 \in Works(Bad, o) /\ KeepsWait(w4, w3)
  BY <1>4, TakingTypes, PhasesKeepWait
<1> HIDE DEF w4
<1>6. w5 \in Works(Bad, o) /\ KeepsWait(w5, w4)
  BY <1>5, TakingTypes, PhasesKeepWait
<1> HIDE DEF w5
<1>7. w6 \in Works(Bad, o) /\ KeepsWait(w6, w5)
  BY <1>6, TakingTypes, PhasesKeepWait
<1> HIDE DEF w6
<1>8. w7 \in Works(Bad, o) /\ KeepsWait(w7, w6)
  BY <1>7, EvaluatingTypes, PhasesKeepWait
<1> HIDE DEF w7
<1>9. w8 \in Works(Bad, o) /\ KeepsWait(w8, w7)
  BY <1>8, EvaluatingTypes, PhasesKeepWait
<1> HIDE DEF w8
<1>10. w9 \in Works(Bad, o) /\ KeepsWait(w9, w8)
  BY <1>9, LoadingTypes, PhasesKeepWait
<1> HIDE DEF w9
<1>11. w10 \in Works(Bad, o) /\ KeepsWait(w10, w9)
  BY <1>10, LoadingTypes, PhasesKeepWait
<1> HIDE DEF w10
<1>12. w11 \in Works(Bad, o) /\ KeepsWait(w11, w10)
  BY <1>11, LoadingTypes, PhasesKeepWait
<1> HIDE DEF w11
<1>13. KeepsWait([w11 EXCEPT !.x.phase = "HALF1_READY"], w11)
  BY <1>12 DEF KeepsWait, Works, ExecStates
<1> QED
  BY <1>1, <1>2, <1>3, <1>4, <1>5, <1>6, <1>7, <1>8, <1>9, <1>10, <1>11, <1>12, <1>13 DEF KeepsWait

\* What a second half that is not skipped does to the unit, its lines and the bus.
Stores ==
  /\ exec.phase # "START" => ~AccessesInHalf(Control(exec), 2)
  /\ exec'.phase = "HALF1_READY"
  /\ exec'.waiting = exec.waiting /\ exec'.asked = exec.asked
  /\ UNCHANGED mcvars
Accesses ==
  /\ exec.phase # "START" /\ AccessesInHalf(Control(exec), 2)
  /\ exec'.phase = "HALF1_READY" /\ exec'.waiting
  /\ exec'.asked \in DataAddrs /\ BusAccess(Control(exec), exec'.asked)
Stalls ==
  /\ exec.phase # "START" /\ AccessesInHalf(Control(exec), 2) /\ ~BusReady
  /\ exec'.phase = "HALF2_MEM_ASSERT"
  /\ exec'.waiting = exec.waiting /\ exec'.asked = exec.asked
  /\ UNCHANGED <<execute_memory_backoff, mcvars>>
  /\ Announces(Control(exec')) => Announces(Control(exec))

CallEnds(Bad) ==
  /\ exec' \in ExecStates(Bad)
  /\ decoded_inst_semaph' \in {decoded_inst_semaph, FALSE} /\ disable_clk' \in BOOLEAN
  /\ RaisesEven
  /\ UNCHANGED UnwrittenByExecute
  /\ \/ (Stores \/ Accesses) /\ execute_memory_backoff' = Announces(Control(exec'))
     \/ Stalls

\* What a completed call writes to the interconnect is typed.
LEMMA EffectsTyped ==
  ASSUME NEW Bad, UnitTyped(Bad), NEW w \in Works(Bad, decoded_inst_semaph), Effects(w)
  PROVE  /\ exec' \in ExecStates(Bad)
         /\ decoded_inst_semaph' \in {decoded_inst_semaph, FALSE} /\ disable_clk' \in BOOLEAN
         /\ RaisesEven
<1>1. /\ w.x \in ExecStates(Bad) /\ w.offered \in {decoded_inst_semaph, FALSE}
      /\ w.stops \in BOOLEAN /\ w.target \in EvenAddrs \cup {NoTarget}
  BY DEF Works
<1>2. CASE w.target = NoTarget
  BY <1>1, <1>2 DEF Effects, RaisesEven, UnitTyped
<1>3. CASE w.target # NoTarget
  BY <1>1, <1>3 DEF Effects, RaisesEven, UnitTyped
<1> QED
  BY <1>2, <1>3

\* A completed call leaves the unit ready for a first half.
LEMMA AdvancedReady ==
  ASSUME NEW Bad, NEW o \in BOOLEAN, NEW w \in Works(Bad, o), NEW d \in FreeData, NEW a \in Int,
         NEW inst \in InstructionRecords(Bad)
  PROVE  Advanced(w, inst, d, a).x.phase = "HALF1_READY"
<1> DEFINE loaded == RepeatOp(RunAfter(RunBefore(CoreOp(EvalControl(WaitCachedIns(PushPgc(WaitNextIns(
                       FinalSteps(RepeatOpBranch(CoreOpExecuted(w), d)), inst), d), inst), a)), d), d), d)
<1>1. Advanced(w, inst, d, a) = [loaded EXCEPT !.x.phase = "HALF1_READY"]
  BY DEF Advanced
<1>2. Advanced(w, inst, d, a) \in Works(Bad, o)
  BY AdvancedType
<1> HIDE DEF loaded
<1> QED
  BY <1>1, <1>2 DEF Works, ExecStates

\* Computing the result asks the bus for nothing.
LEMMA ResultFacts ==
  ASSUME NEW Bad, UnitTyped(Bad), NEW d \in FreeData, NEW a \in Int
  PROVE  /\ Control(Result(d, a).x).latch = Control(exec).latch
         /\ Control(Result(d, a).x).suppress = Control(exec).suppress
         /\ Result(d, a).x.waiting = exec.waiting /\ Result(d, a).x.asked = exec.asked
         /\ ~Control(exec).alu => Result(d, a) = Started
<1>1. Started \in Works(Bad, decoded_inst_semaph) /\ Started.x = exec
  BY DEF Started, Works, UnitTyped
<1> HIDE DEF Started
<1>2. decoded_inst_semaph \in BOOLEAN
  BY DEF UnitTyped
<1> DEFINE r == ResultLatched(Started, d, a)
<1>3. /\ Control(r.x).latch = Control(exec).latch
      /\ Control(r.x).suppress = Control(exec).suppress
      /\ r.x.waiting = exec.waiting /\ r.x.asked = exec.asked
      /\ ~Control(exec).alu => r = Started
  BY <1>1, <1>2, ResultLatchedFacts
<1>4. Result(d, a) = r \/ Result(d, a) = Started
  BY DEF Result
<1> HIDE DEF r
<1> QED
  BY <1>1, <1>3, <1>4

\* The ways a second half ends: it completes, accesses the bus, or waits for it.
LEMMA Half2Ends ==
  ASSUME NEW Bad, UnitTyped(Bad), NEW inst \in InstructionRecords(Bad), ExecHalf2(inst)
  PROVE  ExecSkipsHalf2 \/ (InSecondHalf /\ CallEnds(Bad))
<1>1. CASE ExecSkipsHalf2
  BY <1>1
<1>2. ASSUME NEW d \in RelevantData, NEW a \in PgcResults(exec) \cup (IF inst.restart THEN inst.targets ELSE {}),
             ExecAdvances(inst, d, a) \/ ExecAccesses(inst, d, a) \/ ExecBlocked(d, a)
      PROVE  InSecondHalf /\ CallEnds(Bad)
  <2>1. d \in FreeData /\ a \in Int /\ decoded_inst_semaph \in BOOLEAN
    BY PgcResultsType, InstructionFields DEF RelevantData, UnitTyped
  <2>2. /\ Result(d, a) \in Works(Bad, decoded_inst_semaph)
        /\ Result(d, a).x.waiting = exec.waiting /\ Result(d, a).x.asked = exec.asked
    BY <2>1, ResultType, ResultFacts
  <2>3. ASSUME NEW w \in Works(Bad, decoded_inst_semaph), Completes(w, inst, d, a)
        PROVE  /\ exec'.phase = "HALF1_READY" /\ exec'.waiting = w.x.waiting /\ exec'.asked = w.x.asked
               /\ (Stores \/ Accesses) => CallEnds(Bad)
    <3>1. Advanced(w, inst, d, a) \in Works(Bad, decoded_inst_semaph)
      BY <2>1, AdvancedType
    <3>2. /\ Advanced(w, inst, d, a).x.phase = "HALF1_READY"
          /\ KeepsWait(Advanced(w, inst, d, a), w)
      BY <2>1, AdvancedReady, AdvancedKeepsWait
    <3>3. /\ exec' \in ExecStates(Bad)
          /\ decoded_inst_semaph' \in {decoded_inst_semaph, FALSE} /\ disable_clk' \in BOOLEAN
          /\ RaisesEven
      BY <2>3, <3>1, EffectsTyped DEF Completes
    <3>4. exec' = Advanced(w, inst, d, a).x
      BY <2>3 DEF Completes, Effects
    <3> QED
      BY <2>3, <3>2, <3>3, <3>4 DEF Completes, CallEnds, KeepsWait
  <2>4. CASE ExecAdvances(inst, d, a)
    <3>1. Completes(Result(d, a), inst, d, a) /\ UNCHANGED mcvars /\ InSecondHalf
          /\ (exec.phase # "START" => ~AccessesInHalf(Control(exec), 2))
      BY <2>4 DEF ExecAdvances
    <3>2. Stores
      BY <2>2, <2>3, <3>1 DEF Stores
    <3> QED
      BY <2>2, <2>3, <3>1, <3>2
  <2>5. CASE ExecAccesses(inst, d, a)
    <3>0. InSecondHalf /\ exec.phase # "START" /\ AccessesInHalf(Control(exec), 2)
      BY <2>5 DEF ExecAccesses
    <3>1. PICK m \in DataAddrs : /\ BusAccess(Control(exec), m)
                                 /\ Completes([Result(d, a) EXCEPT !.x = Asserted(@, m)], inst, d, a)
      BY <2>5 DEF ExecAccesses
    <3> DEFINE x == Asserted(Result(d, a).x, m)
               w == [Result(d, a) EXCEPT !.x = x]
    <3>2. x \in ExecStates(Bad) /\ x.waiting = TRUE /\ x.asked = m
      <4>1. Result(d, a).x \in ExecStates(Bad)
        BY <2>1, <2>2, WorkFields
      <4>2. Asserted(Result(d, a).x, m) \in ExecStates(Bad)
        BY <4>1, AssertedType
      <4>3. Asserted(Result(d, a).x, m).waiting = TRUE /\ Asserted(Result(d, a).x, m).asked = m
        BY <4>1, AssertedFacts
      <4> QED
        BY <4>2, <4>3
    <3> HIDE DEF x
    <3>3. w \in Works(Bad, decoded_inst_semaph) /\ w.x = x
      BY <2>1, <2>2, <3>2, WorkUpdates DEF Works
    <3>4. Completes(w, inst, d, a)
      BY <3>1 DEF x
    <3> HIDE DEF w
    <3>5. Accesses
      BY <2>3, <3>0, <3>1, <3>2, <3>3, <3>4 DEF Accesses
    <3> QED
      BY <2>3, <3>0, <3>3, <3>4, <3>5
  <2>6. CASE ExecBlocked(d, a)
    <3> DEFINE w == [Result(d, a) EXCEPT !.x.phase = "HALF2_MEM_ASSERT"]
    <3>1. "HALF2_MEM_ASSERT" \in Phases
      BY DEF Phases
    <3>2. w \in Works(Bad, decoded_inst_semaph)
      BY <2>1, <2>2, <3>1, WorkExecUpdates
    <3>3. /\ w.x.phase = "HALF2_MEM_ASSERT" /\ Control(w.x) = Control(Result(d, a).x)
          /\ w.x.waiting = exec.waiting /\ w.x.asked = exec.asked
      BY <2>2 DEF Works, ExecStates, Control
    <3>4. /\ exec' \in ExecStates(Bad)
          /\ decoded_inst_semaph' \in {decoded_inst_semaph, FALSE} /\ disable_clk' \in BOOLEAN
          /\ RaisesEven
      BY <2>6, <3>2, EffectsTyped DEF ExecBlocked
    <3>5. /\ exec' = w.x /\ InSecondHalf /\ exec.phase # "START"
          /\ AccessesInHalf(Control(exec), 2) /\ ~BusReady
          /\ UNCHANGED <<execute_memory_backoff, mcvars, UnwrittenByExecute>>
      BY <2>6 DEF ExecBlocked, Effects
    <3>6. /\ Control(Result(d, a).x).latch = Control(exec).latch
          /\ Control(Result(d, a).x).suppress = Control(exec).suppress
      BY <2>1, ResultFacts
    <3> HIDE DEF w
    <3>7. Announces(Control(exec')) => Announces(Control(exec))
      BY <3>3, <3>5, <3>6 DEF Announces
    <3> QED
      BY <3>3, <3>4, <3>5, <3>7 DEF CallEnds, Stalls
  <2> QED
    BY <1>2, <2>4, <2>5, <2>6
<1> QED
  BY <1>1, <1>2 DEF ExecHalf2

\* A second half keeps the unit typed and its next access announced.
LEMMA Half2Typed ==
  ASSUME NEW Bad, UnitTyped(Bad), Announced, NEW inst \in InstructionRecords(Bad), ExecHalf2(inst)
  PROVE  UnitTyped(Bad)' /\ Announced'
<1>1. CASE ExecSkipsHalf2
  BY <1>1 DEF ExecSkipsHalf2, UnitTyped, Announced, icvars
<1>2. CASE CallEnds(Bad)
  <2>1. execute_memory_backoff' \in BOOLEAN
    BY <1>2 DEF CallEnds, Stalls, UnitTyped, Announces
  <2>2. execute_branch' \in BOOLEAN
    BY <1>2 DEF CallEnds, RaisesEven, UnitTyped
  <2>3. UnitTyped(Bad)'
    BY <1>2, <2>1, <2>2 DEF CallEnds, UnitTyped
  <2>4. Announced'
    BY <1>2 DEF CallEnds, Stores, Accesses, Stalls, Announced, FirstHalfPhases, UnitTyped
  <2> QED
    BY <2>3, <2>4
<1> QED
  BY <1>1, <1>2, Half2Ends

-----------------------------------------------------------------------------
(***************************************************************************)
(* A call that finds the sequencer waiting for an instruction: without an  *)
(* offer it does nothing, and with one it takes it.                        *)
(***************************************************************************)
LEMMA IdleAdvance ==
  ASSUME NEW w, NEW d, NEW a, NEW inst, w.x.seq = "WAIT_NEXT_INS", ~w.offered
  PROVE  Advanced(w, inst, d, a) = [w EXCEPT !.x.phase = "HALF1_READY"]
<1>1. CoreOpExecuted(w) = w /\ RepeatOpBranch(w, d) = w /\ FinalSteps(w) = w
  BY DEF CoreOpExecuted, RepeatOpBranch, FinalSteps
<1>2. WaitNextIns(w, inst) = w /\ PushPgc(w, d) = w /\ WaitCachedIns(w, inst) = w
  BY DEF WaitNextIns, PushPgc, WaitCachedIns
<1>3. EvalControl(w, a) = w /\ CoreOp(w) = w
  BY DEF EvalControl, CoreOp
<1>4. RunBefore(w, d) = w /\ RunAfter(w, d) = w /\ RepeatOp(w, d) = w
  BY DEF RunBefore, RunAfter, RepeatOp
<1> QED
  BY <1>1, <1>2, <1>3, <1>4 DEF Advanced

\* Only the end of an instruction stops the clock.
LEMMA RunRoutineKeepsClock ==
  ASSUME NEW Bad, NEW o \in BOOLEAN, NEW w \in Works(Bad, o), NEW d, NEW finished
  PROVE  RunRoutine(w, d, finished).stops = w.stops
<1> DEFINE x == w.x
           spec == IF ~x.buffer.branch THEN x.mucode_control
                   ELSE IF BranchTest(x, d) THEN x.buffer.next ELSE x.buffer.next_no_branch
           entry == EntryOf[spec]
           more == entry.branch \/ entry.next.idx # "MU_NONE"
           control == IF entry.branch THEN spec ELSE entry.next
           seq == IF more THEN w.x.seq ELSE finished
           doing == [stage |-> x.seq, at |-> spec]
           ends == [w EXCEPT !.x.mucode_control = spec, !.x.seq = finished]
           goes == [w EXCEPT !.x.buffer = entry, !.x.control = "buffer", !.x.mucode_control = control,
                             !.x.seq = seq, !.x.doing = doing]
<1>1. RunRoutine(w, d, finished) = IF x.buffer.branch /\ spec.idx = "MU_NONE" THEN ends ELSE goes
  BY DEF RunRoutine
<1> HIDE DEF x, spec, entry, more, control, seq, doing
<1>2. ends.stops = w.stops /\ goes.stops = w.stops
  BY DEF Works
<1> QED
  BY <1>1, <1>2

\* Only FINAL_STEPS stops the clock.
LEMMA PhasesKeepClock ==
  ASSUME NEW Bad, NEW o \in BOOLEAN, NEW w \in Works(Bad, o), NEW d, NEW a, NEW inst
  PROVE  /\ WaitNextIns(w, inst).stops = w.stops /\ PushPgc(w, d).stops = w.stops
         /\ WaitCachedIns(w, inst).stops = w.stops
         /\ EvalControl(w, a).stops = w.stops /\ CoreOp(w).stops = w.stops
         /\ RunBefore(w, d).stops = w.stops /\ RunAfter(w, d).stops = w.stops
         /\ RepeatOp(w, d).stops = w.stops
<1>1. /\ PushPgc(w, d).stops = w.stops /\ RunBefore(w, d).stops = w.stops
      /\ RunAfter(w, d).stops = w.stops /\ RepeatOp(w, d).stops = w.stops
  BY RunRoutineKeepsClock DEF PushPgc, RunBefore, RunAfter, RepeatOp
<1>2. WaitNextIns(w, inst).stops = w.stops /\ WaitCachedIns(w, inst).stops = w.stops
  BY DEF WaitNextIns, WaitCachedIns, Works
<1>3. EvalControl(w, a).stops = w.stops
  <2>1. Trapped(w).stops = w.stops
    BY DEF Trapped, WritePgc, Works
  <2>2. [WritePgc(w, a) EXCEPT !.x.seq = "PUSH_PGC",
           !.x.mucode_control.idx = "MU_PUSH_PGC_IND_SP_AUTO",
           !.x.doing = [stage |-> "RESTART", at |-> NoEntry]].stops = w.stops
    BY DEF WritePgc, Works
  <2>3. /\ [w EXCEPT !.x.seq = "RUN_BEFORE", !.x.mucode_control = w.x.inst.before].stops = w.stops
        /\ [w EXCEPT !.x.seq = "CORE_OP"].stops = w.stops
    BY DEF Works
  <2> QED
    BY <2>1, <2>2, <2>3, Zenon DEF EvalControl
<1>4. CoreOp(w).stops = w.stops
  BY DEF CoreOp, Works
<1> QED
  BY <1>1, <1>2, <1>3, <1>4

\* A call that finds an instruction offered takes it, and does not stop the clock.
LEMMA TakingAdvance ==
  ASSUME NEW Bad, NEW o \in BOOLEAN, NEW w \in Works(Bad, o), NEW d \in FreeData, NEW a \in Int,
         NEW inst \in InstructionRecords(Bad), w.x.seq = "WAIT_NEXT_INS", w.offered
  PROVE  ~Advanced(w, inst, d, a).offered /\ Advanced(w, inst, d, a).stops = w.stops
<1> DEFINE w1 == WaitNextIns(w, inst)
           w2 == PushPgc(w1, d)
           w3 == WaitCachedIns(w2, inst)
           w4 == EvalControl(w3, a)
           w5 == CoreOp(w4)
           w6 == RunBefore(w5, d)
           w7 == RunAfter(w6, d)
           w8 == RepeatOp(w7, d)
<1>1. Advanced(w, inst, d, a) = [w8 EXCEPT !.x.phase = "HALF1_READY"]
  <2>1. CoreOpExecuted(w) = w /\ RepeatOpBranch(w, d) = w /\ FinalSteps(w) = w
    BY DEF CoreOpExecuted, RepeatOpBranch, FinalSteps
  <2> QED
    BY <2>1 DEF Advanced
<1>2. w1 \in Works(Bad, FALSE) /\ w1.stops = w.stops
  <2>1. w1 \in Works(Bad, o) /\ w1.stops = w.stops
    BY TakingTypes, PhasesKeepClock
  <2>2. w1.offered = FALSE
    BY DEF WaitNextIns, Works
  <2> HIDE DEF w1
  <2> QED
    BY <2>1, <2>2 DEF Works
<1> HIDE DEF w1
<1>3. w2 \in Works(Bad, FALSE) /\ w2.stops = w1.stops
  BY <1>2, TakingTypes, PhasesKeepClock
<1> HIDE DEF w2
<1>4. w3 \in Works(Bad, FALSE) /\ w3.stops = w2.stops
  BY <1>3, TakingTypes, PhasesKeepClock
<1> HIDE DEF w3
<1>5. w4 \in Works(Bad, FALSE) /\ w4.stops = w3.stops
  BY <1>4, EvaluatingTypes, PhasesKeepClock
<1> HIDE DEF w4
<1>6. w5 \in Works(Bad, FALSE) /\ w5.stops = w4.stops
  BY <1>5, EvaluatingTypes, PhasesKeepClock
<1> HIDE DEF w5
<1>7. w6 \in Works(Bad, FALSE) /\ w6.stops = w5.stops
  BY <1>6, LoadingTypes, PhasesKeepClock
<1> HIDE DEF w6
<1>8. w7 \in Works(Bad, FALSE) /\ w7.stops = w6.stops
  BY <1>7, LoadingTypes, PhasesKeepClock
<1> HIDE DEF w7
<1>9. w8 \in Works(Bad, FALSE) /\ w8.stops = w7.stops
  BY <1>8, LoadingTypes, PhasesKeepClock
<1> HIDE DEF w8
<1>10. /\ ~[w8 EXCEPT !.x.phase = "HALF1_READY"].offered
       /\ [w8 EXCEPT !.x.phase = "HALF1_READY"].stops = w8.stops
  BY <1>9 DEF Works
<1> QED
  BY <1>1, <1>2, <1>3, <1>4, <1>5, <1>6, <1>7, <1>8, <1>9, <1>10
================================================================================
