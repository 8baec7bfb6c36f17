------------------------------ MODULE ExecuteProofs ------------------------------
(***************************************************************************)
(* What the execute unit promises, for any set of decodable instructions,   *)
(* any addresses and any order of the calls.                               *)
(***************************************************************************)
EXTENDS MCExecute, SequencerProofs

\* What ExecuteUnitAssumption says of Instructions gives them their types.
LEMMA InstructionsTyped == Instructions \subseteq InstructionRecords(BOOLEAN)
<1> SUFFICES ASSUME NEW i \in Instructions PROVE i \in InstructionRecords(BOOLEAN)
  OBVIOUS
<1> DEFINE d == Decoded(i.op)
<1>1. /\ i = Instruction(i.op, i.at, d, i.inst_pgc, i.targets, i.bad_index)
      /\ i.op \in Opcode /\ i.at \in Addr \cup {NowhereYet} /\ i.targets \subseteq Nat
      /\ i.inst_pgc \in EvenAddrs /\ i.bad_index \in BOOLEAN
  BY ExecuteUnitAssumption DEF EvenAddrs
<1>2. WellFormed(d)
  BY <1>1, DecodedType
<1> HIDE DEF d
<1>3. Instruction(i.op, i.at, d, i.inst_pgc, i.targets, i.bad_index) \in InstructionRecords(BOOLEAN)
  BY <1>1, <1>2 DEF Instruction, InstructionRecords, WellFormed
<1> QED
  BY <1>1, <1>3

-----------------------------------------------------------------------------
\* The types of the unit, of its lines and of the bus, and the announcement of accesses.
BusTyped == mc_state \in MemCtlStates /\ {data_valid, is_16bit} \subseteq BOOLEAN
UnitInv ==
  /\ UnitTyped(BOOLEAN) /\ offer \in InstructionRecords(BOOLEAN)
  /\ execute_branch_addr \in EvenAddrs
  /\ BusTyped
  /\ Announced

\* UnitInv is stronger than the type invariant that the runs check.
LEMMA UnitInvTypes ==
  ASSUME UnitInv PROVE TypeOK
<1>1. /\ exec.phase \in Phases /\ exec.seq \in SequencerPhases /\ exec.mucode_control \in EntrySpec
      /\ exec.control \in {"core_op", "buffer"}
      /\ exec.repi \in 0..31 /\ exec.pgc \in EvenAddrs
      /\ exec.branched \in BOOLEAN /\ exec.used_z \in BOOLEAN /\ exec.latch_aux \in BOOLEAN
      /\ exec.waiting \in BOOLEAN
  BY ExecFields DEF UnitInv, UnitTyped
<1>2. exec.buffer.next \in EntrySpec /\ exec.buffer.next_no_branch \in EntrySpec
  BY ExecFields DEF UnitInv, UnitTyped, DecodedEntries
<1> QED
  BY <1>1, <1>2 DEF TypeOK, UnitInv, UnitTyped, BusTyped, EvenAddrs

\* An access of the unit finds the bus ready and makes it busy.
LEMMA AccessTyped ==
  ASSUME BusTyped, NEW c \in ControlWords, NEW a, BusAccess(c, a)
  PROVE  BusTyped' /\ BusReady /\ ~BusReady' /\ addr_reg' = a
<1>1. c.wide \in BOOLEAN
  BY DEF ControlWords
<1> QED
  BY <1>1 DEF BusTyped, BusAccess, AddrReadAssert, AddrWriteAssert, BusReady, MemCtlStates

\* A tick of the memory controller keeps the types of the bus.
LEMMA TickTyped ==
  ASSUME BusTyped, MemCtlTick PROVE BusTyped'
  BY DEF BusTyped, MemCtlTick, TickIdle, TickBusy, TickDone, MemCtlStates

\* The invariant holds initially.
LEMMA UnitInit ==
  ASSUME Init PROVE UnitInv
<1>1. exec \in ExecStates(BOOLEAN) /\ exec.phase = "START"
  BY InitTyped DEF Init
<1>2. offer \in InstructionRecords(BOOLEAN)
  BY <1>1, ExecFields DEF Init
<1>3. 0 \in EvenAddrs
  BY AddrAssumption DEF EvenAddrs, Addr
<1> QED
  BY <1>1, <1>2, <1>3
  DEF Init, UnitInv, UnitTyped, Announced, BusTyped, MemCtlInit, MemCtlStates, InterconnectInit, FirstHalfPhases

\* The other units and the clock leave the execute unit alone.
LEMMA OthersKeepUnit ==
  ASSUME UnitInv, UNCHANGED <<exec, execute_memory_backoff, execute_branch_addr>>, BusTyped',
         offer' \in InstructionRecords(BOOLEAN),
         {decoded_inst_semaph', execute_branch', disable_clk'} \subseteq BOOLEAN
  PROVE  UnitInv'
  BY DEF UnitInv, UnitTyped, Announced

\* Every step keeps it.
LEMMA UnitStep ==
  ASSUME UnitInv, [Next]_vars PROVE UnitInv'
<1>1. CASE RunFetchHalf1 \/ DecodeWorks \/ EndHalf1 \/ UNCHANGED vars
  BY <1>1, OthersKeepUnit
  DEF RunFetchHalf1, DecodeWorks, EndHalf1, vars, mcvars, icvars, UnitInv, UnitTyped, BusTyped
<1>2. CASE RunFetchHalf2
  <2>1. BusTyped'
    BY <1>2 DEF RunFetchHalf2, WordRead, AddrReadAssert, mcvars, UnitInv, BusTyped, MemCtlStates
  <2>2. /\ UNCHANGED <<exec, offer, execute_memory_backoff, execute_branch_addr>>
        /\ {decoded_inst_semaph', execute_branch', disable_clk'} \subseteq BOOLEAN
    BY <1>2 DEF RunFetchHalf2, BranchSeen, icvars, UnitInv, UnitTyped
  <2> QED
    BY <2>1, <2>2, OthersKeepUnit DEF UnitInv
<1>3. CASE RunDecodeHalf1
  BY <1>3, OthersKeepUnit
  DEF RunDecodeHalf1, OfferDropped, branchlines, icvars, mcvars, UnitInv, UnitTyped, BusTyped
<1>4. CASE DecodeOffers
  <2>1. offer' \in InstructionRecords(BOOLEAN)
    BY <1>4, InstructionsTyped DEF DecodeOffers, Offered
  <2> QED
    BY <1>4, <2>1, OthersKeepUnit
    DEF DecodeOffers, Offered, branchlines, mcvars, UnitInv, UnitTyped, BusTyped
<1>5. CASE RunExecuteHalf1
  <2>1. exec' \in ExecStates(BOOLEAN) /\ Announced'
    BY <1>5, Half1Typed, Half1Announced DEF RunExecuteHalf1, UnitInv, UnitTyped
  <2>2. BusTyped'
    <3>1. Control(exec) \in ControlWords
      BY ControlType DEF UnitInv, UnitTyped
    <3>2. \/ UNCHANGED mcvars
          \/ \E a \in DataAddrs : BusAccess(Control(exec), a)
      BY <1>5 DEF RunExecuteHalf1, ExecHalf1, ExecWaits, ExecLatches, ExecAsserts, ExecHeld, ExecSkipsHalf1
    <3> QED
      BY <3>1, <3>2, AccessTyped DEF UnitInv, BusTyped, mcvars
  <2> QED
    BY <1>5, <2>1, <2>2 DEF RunExecuteHalf1, ExecHalf1, icvars, UnitInv, UnitTyped
<1>6. CASE RunExecuteHalf2
  <2>1. UnitTyped(BOOLEAN)' /\ Announced'
    BY <1>6, Half2Typed DEF RunExecuteHalf2, UnitInv
  <2>2. ExecSkipsHalf2 \/ (InSecondHalf /\ CallEnds(BOOLEAN))
    BY <1>6, Half2Ends DEF RunExecuteHalf2, UnitInv
  <2>3. execute_branch_addr' \in EvenAddrs
    BY <2>2 DEF ExecSkipsHalf2, CallEnds, RaisesEven, UnitInv, icvars
  <2>4. BusTyped'
    <3>1. Control(exec) \in ControlWords
      BY ControlType DEF UnitInv, UnitTyped
    <3>2. UNCHANGED mcvars \/ \E a \in DataAddrs : BusAccess(Control(exec), a)
      BY <2>2 DEF ExecSkipsHalf2, CallEnds, Stores, Accesses, Stalls
    <3> QED
      BY <3>1, <3>2, AccessTyped DEF UnitInv, BusTyped, mcvars
  <2> QED
    BY <1>6, <2>1, <2>3, <2>4 DEF RunExecuteHalf2, UnitInv
<1>7. CASE EndCycle
  <2>1. BusTyped'
    BY <1>7, TickTyped DEF EndCycle, UnitInv
  <2> QED
    BY <1>7, <2>1, OthersKeepUnit DEF EndCycle, icvars, UnitInv, UnitTyped
<1> QED
  BY <1>1, <1>2, <1>3, <1>4, <1>5, <1>6, <1>7 DEF Next

\* So it always holds.
LEMMA UnitInvariant == Spec => []UnitInv
  BY UnitInit, UnitStep, PTL DEF Spec

\* Type correctness: whatever is decoded, and in whatever order the units are called, the
\* sequencer keeps to microcode entries that exist, REPI to 5 bits and PGC to even addresses.
THEOREM ExecuteTypeCorrect == Spec => []TypeOK
  BY UnitInvariant, UnitInvTypes, PTL

\* The execute unit accesses the bus only in a cycle for which the last second half
\* raised execute_memory_backoff (cpu_interconnect.h:25).
THEOREM AccessesAnnounced == Spec => AccessAnnounced
<1>1. ASSUME UnitInv, [Next]_vars
      PROVE  [BusReady /\ ~BusReady' /\ exec' # exec => execute_memory_backoff]_vars
  <2> SUFFICES ASSUME Next, BusReady, ~BusReady', exec' # exec PROVE execute_memory_backoff
    BY <1>1
  <2>1. CASE RunExecuteHalf1
    <3>1. ExecAsserts
      BY <2>1 DEF RunExecuteHalf1, ExecHalf1, ExecWaits, ExecLatches, ExecHeld, ExecSkipsHalf1, mcvars, BusReady
    <3> QED
      BY <1>1, <3>1
      DEF ExecAsserts, InFirstHalf, AccessesInHalf, Announces, UnitInv, Announced, FirstHalfPhases
  <2>2. CASE RunExecuteHalf2
    <3>1. ExecSkipsHalf2 \/ (InSecondHalf /\ CallEnds(BOOLEAN))
      BY <1>1, <2>2, Half2Ends DEF RunExecuteHalf2, UnitInv
    <3>2. exec.phase # "START" /\ AccessesInHalf(Control(exec), 2)
      BY <3>1 DEF ExecSkipsHalf2, CallEnds, Stores, Stalls, Accesses, mcvars, BusReady
    <3> QED
      BY <1>1, <3>2 DEF AccessesInHalf, Announces, UnitInv, Announced
  <2> QED
    BY <2>1, <2>2
    DEF Next, RunFetchHalf1, RunFetchHalf2, RunDecodeHalf1, DecodeOffers, DecodeWorks, EndHalf1, EndCycle
<1> QED
  BY <1>1, UnitInvariant, PTL DEF Spec, AccessAnnounced

-----------------------------------------------------------------------------
(***************************************************************************)
(* An answer that must come reaches the unit.  Where the access is in the  *)
(* cycle: it has been asserted in the first half, or in the second, or it  *)
(* has been answered and the unit's next first half has not begun.         *)
(***************************************************************************)
Coming ==
  /\ addr_reg = exec.asked
  /\ \/ disable_clk
     \/ /\ ~BusReady /\ exec.phase = "HALF2_READY" /\ Control(exec).latch = "MEM_NO_LATCH"
        /\ half = 1 <=> "execute" \in ran
     \/ ~BusReady /\ exec.phase = "HALF1_READY" /\ half = 2 /\ "execute" \in ran
     \/ data_valid /\ exec.phase = "HALF1_READY" /\ half = 1 /\ "execute" \notin ran

AnswerTracked == exec.waiting /\ MustAnswer(exec.asked) => Coming

\* First halves keep track of the answer: it is latched, or it is still to come.
LEMMA TrackedHalf1 ==
  ASSUME UnitInv, AnswerTracked, RunExecuteHalf1 PROVE AnswerTracked'
<1> SUFFICES ASSUME exec'.waiting, MustAnswer(exec'.asked) PROVE Coming'
  BY DEF AnswerTracked, MustAnswer
<1>1. /\ half = 1 /\ half' = 1 /\ "execute" \notin ran /\ "execute" \in ran'
      /\ ExecHalf1 /\ UNCHANGED icvars
  BY DEF RunExecuteHalf1, Call, Units, ExecHalf1
<1>2. exec \in ExecStates(BOOLEAN) /\ Control(exec) \in ControlWords
  BY ControlType DEF UnitInv, UnitTyped
<1>3. OperandsLatched \in ExecStates(BOOLEAN)
  BY <1>2, OperandsLatchedType
<1>4. {"HALF1_MEM_WAIT", "HALF2_READY", "HALF1_MEM_ASSERT"} \subseteq Phases
  BY DEF Phases
<1>5. ASSUME exec.waiting, MustAnswer(exec.asked), InFirstHalf
      PROVE  exec.phase = "HALF1_READY" /\ data_valid
  BY <1>1, <1>5 DEF AnswerTracked, Coming, InFirstHalf
<1>6. CASE ExecWaits
  <2>1. exec'.waiting = exec.waiting /\ exec'.asked = exec.asked
    BY <1>2, <1>4, <1>6, PhaseFacts, ZenonT(30) DEF ExecWaits
  <2> QED
    BY <1>5, <1>6, <2>1 DEF ExecWaits, Waits
<1>7. CASE ExecLatches \/ ExecHeld
  <2>1. PICK p \in {"HALF2_READY", "HALF1_MEM_ASSERT"} : exec' = [OperandsLatched EXCEPT !.phase = p]
    BY <1>7 DEF ExecLatches, ExecHeld
  <2>2. exec'.waiting = OperandsLatched.waiting /\ exec'.asked = OperandsLatched.asked
    BY <1>3, <2>1 DEF ExecStates
  <2>3. InFirstHalf
    BY <1>7 DEF ExecLatches, ExecHeld
  <2>4. OperandsLatched.waiting /\ MustAnswer(OperandsLatched.asked) => exec.waiting /\ MustAnswer(exec.asked) /\ (exec.phase = "HALF1_MEM_ASSERT" \/ ~data_valid)
    BY <1>2 DEF OperandsLatched, ExecStates
  <2> QED
    BY <1>5, <2>2, <2>3, <2>4
<1>8. CASE ExecAsserts
  <2>1. PICK a \in DataAddrs : /\ BusAccess(Control(exec), a)
                               /\ exec' = [Asserted(OperandsLatched, a) EXCEPT !.phase = "HALF2_READY"]
    BY <1>8 DEF ExecAsserts
  <2>2. /\ Asserted(OperandsLatched, a) \in ExecStates(BOOLEAN)
        /\ Asserted(OperandsLatched, a).asked = a
        /\ Control(Asserted(OperandsLatched, a)).latch = "MEM_NO_LATCH"
    BY <1>3, AssertedType, AssertedFacts
  <2>3. /\ exec'.phase = "HALF2_READY" /\ exec'.asked = a
        /\ Control(exec').latch = "MEM_NO_LATCH"
    BY <1>4, <2>1, <2>2, PhaseFacts
  <2>4. ~BusReady' /\ addr_reg' = a
    BY <1>2, <2>1, AccessTyped DEF UnitInv
  <2> QED
    BY <1>1, <2>3, <2>4 DEF Coming
<1>9. CASE ExecSkipsHalf1
  <2>1. UNCHANGED <<exec, mcvars, icvars>>
    BY <1>1, <1>9 DEF ExecSkipsHalf1
  <2>2. Coming
    BY <2>1 DEF AnswerTracked
  <2> QED
    BY <1>1, <1>9, <2>1, <2>2 DEF ExecSkipsHalf1, InFirstHalf, Coming, mcvars, icvars, BusReady
<1> QED
  BY <1>1, <1>6, <1>7, <1>8, <1>9 DEF ExecHalf1

\* Second halves ask while nothing is awaited.
LEMMA TrackedHalf2 ==
  ASSUME UnitInv, AnswerTracked, RunExecuteHalf2 PROVE AnswerTracked'
<1> SUFFICES ASSUME exec'.waiting, MustAnswer(exec'.asked) PROVE Coming'
  BY DEF AnswerTracked, MustAnswer
<1>1. half = 2 /\ half' = 2 /\ "execute" \notin ran /\ "execute" \in ran'
  BY DEF RunExecuteHalf2, Call, Units
<1>2. Control(exec) \in ControlWords
  BY ControlType DEF UnitInv, UnitTyped
<1>3. ExecSkipsHalf2 \/ (InSecondHalf /\ CallEnds(BOOLEAN))
  BY Half2Ends DEF RunExecuteHalf2, UnitInv
<1>4. ASSUME exec.waiting, MustAnswer(exec.asked)
      PROVE  /\ addr_reg = exec.asked
             /\ ~disable_clk => ~BusReady /\ exec.phase = "HALF2_READY" /\ Control(exec).latch = "MEM_NO_LATCH"
  BY <1>1, <1>4 DEF AnswerTracked, Coming
<1>5. CASE ExecSkipsHalf2
  BY <1>4, <1>5 DEF ExecSkipsHalf2, InSecondHalf, Coming, mcvars, icvars
<1>6. CASE InSecondHalf /\ Stores
  BY <1>1, <1>4, <1>6 DEF InSecondHalf, Stores, Coming, mcvars, BusReady
<1>7. CASE Accesses
  BY <1>1, <1>2, <1>7, AccessTyped DEF Accesses, Coming, UnitInv
<1>8. CASE InSecondHalf /\ Stalls
  BY <1>4, <1>8 DEF InSecondHalf, Stalls, AccessesInHalf
<1> QED
  BY <1>3, <1>5, <1>6, <1>7, <1>8 DEF CallEnds

\* Every step keeps track of the answer.
LEMMA TrackedStep ==
  ASSUME UnitInv, AnswerTracked, [Next]_vars PROVE AnswerTracked'
<1>1. CASE RunFetchHalf1 \/ RunDecodeHalf1 \/ DecodeOffers \/ DecodeWorks
  <2>1. UNCHANGED <<exec, mcvars, half, disable_clk>> /\ ("execute" \in ran' <=> "execute" \in ran)
    BY <1>1 DEF RunFetchHalf1, RunDecodeHalf1, DecodeOffers, DecodeWorks, Call, Units, OfferDropped, Offered, icvars
  <2> QED
    BY <2>1 DEF AnswerTracked, Coming, mcvars, BusReady
<1>2. CASE RunFetchHalf2
  <2>1. /\ UNCHANGED <<exec, disable_clk>> /\ half = 2 /\ half' = 2
        /\ ("execute" \in ran' <=> "execute" \in ran)
        /\ UNCHANGED mcvars \/ (~disable_clk /\ BusReady)
    BY <1>2 DEF RunFetchHalf2, Call, Units, BranchSeen, WordRead, AddrReadAssert, icvars
  <2> QED
    BY <2>1 DEF AnswerTracked, Coming, mcvars, BusReady
<1>3. CASE EndHalf1
  BY <1>3 DEF EndHalf1, HalfEnds, Units, AnswerTracked, Coming, mcvars, icvars, BusReady
<1>4. CASE EndCycle
  <2>1. /\ half = 2 /\ half' = 1 /\ "execute" \in ran /\ "execute" \notin ran' /\ MemCtlTick
        /\ UNCHANGED <<exec, icvars>>
    BY <1>4 DEF EndCycle, HalfEnds, Units
  <2> QED
    BY <2>1 DEF AnswerTracked, Coming, MemCtlTick, TickIdle, TickBusy, TickDone, icvars, BusReady
<1>5. CASE UNCHANGED vars
  BY <1>5 DEF vars, mcvars, icvars, clockvars, AnswerTracked, Coming, BusReady
<1> QED
  BY <1>1, <1>2, <1>3, <1>4, <1>5, TrackedHalf1, TrackedHalf2 DEF Next

\* The unit never misses an answer that it waits for, from memory that answers at once:
\* the flag is the bus controller's, and lasts for one tick, whoever accesses the bus next.
THEOREM AnswersReach == Spec => []AnswerReaches
<1>1. Init => AnswerTracked
  BY DEF Init, ExecuteInit, AnswerTracked
<1>2. UnitInv /\ AnswerTracked /\ [Next]_vars => AnswerTracked'
  BY TrackedStep
<1>3. AnswerTracked => AnswerReaches
  BY DEF AnswerTracked, Coming, AnswerReaches
<1> QED
  BY <1>1, <1>2, <1>3, UnitInvariant, PTL DEF Spec

-----------------------------------------------------------------------------
(***************************************************************************)
(* The unit keeps the promise of Microprogram.  It cannot for every        *)
(* instruction: an entry that a condition makes the last of its routine    *)
(* stays in the buffer with branch set, and the next routine starts where  *)
(* it points (run Execute_stale).  So the instructions are assumed to be   *)
(* straight.  The proof follows one call: what the unit has promised so    *)
(* far is a record v, and each phase of the sequencer is shown to leave a  *)
(* state from which the rest of the call makes one step of the promise.    *)
(***************************************************************************)
\* What the promise lets follow an entry is what the entry names.
LEMMA FollowingEntry ==
  ASSUME NEW s \in EntrySpec
  PROVE  /\ Canonical(EntryOf[s].next) \in Following(s)
         /\ EntryOf[s].branch => Canonical(EntryOf[s].next_no_branch) \in Following(s)
  BY DEF Following, SuccessorsOf

\* The state that the promise is about, as a record.
SeenInst(i) ==
  [before |-> Canonical(i.before), after |-> Canonical(i.after), repeat |-> i.repeat,
   restart |-> i.restart, illegal |-> i.illegal]
Seen(x) ==
  [inst |-> SeenInst(x.inst), stage |-> x.doing.stage, at |-> Canonical(x.doing.at),
   repeating |-> x.repeat_type]

\* The steps of the promise between two such records.
Leaves(v, s) == v.stage = s /\ NoEntry \in Following(v.at)
Ends(v) == (v.stage = "CORE_OP" /\ v.inst.after = NoEntry) \/ Leaves(v, "RUN_AFTER")
Idles(v) ==
  \/ Ends(v) /\ v.inst.repeat = "MU_NONE" /\ v.repeating = "MU_NONE"
  \/ Leaves(v, "PUSH_PGC") \/ Leaves(v, "REPEAT_OP") \/ v.stage = "DONE"
Repeated(v) == IF v.inst.repeat # "MU_NONE" THEN v.inst.repeat ELSE v.repeating

Enters(u, s, e) == u.stage = s /\ u.at = e
Goes(v, u, s, e) == u.inst = v.inst /\ u.repeating = v.repeating /\ Enters(u, s, e)

Begins(u) ==
  \/ u.inst.illegal /\ Enters(u, "DONE", NoEntry)
  \/ ~u.inst.illegal /\ u.inst.restart /\ Enters(u, "RESTART", NoEntry)
  \/ /\ ~u.inst.illegal /\ ~u.inst.restart
     /\ u.inst.before = NoEntry /\ Enters(u, "CORE_OP", NoEntry)
  \/ /\ ~u.inst.illegal /\ ~u.inst.restart
     /\ u.inst.before # NoEntry /\ Enters(u, "RUN_BEFORE", u.inst.before)

Promised(v, u) ==
  \/ u = v
  \/ v.at # NoEntry /\ u.at \in Following(v.at) \ {NoEntry} /\ Goes(v, u, v.stage, u.at)
  \/ Leaves(v, "RUN_BEFORE") /\ Goes(v, u, "CORE_OP", NoEntry)
  \/ v.stage = "CORE_OP" /\ v.inst.after # NoEntry /\ Goes(v, u, "RUN_AFTER", v.inst.after)
  \/ /\ v.stage = "RESTART" /\ Goes(v, u, "PUSH_PGC", u.at)
     /\ u.at \in EntrySpec /\ u.at.idx = "MU_PUSH_PGC_IND_SP_AUTO"
  \/ /\ Ends(v) /\ Repeated(v) # "MU_NONE"
     /\ u.repeating = Repeated(v) /\ u.inst = [v.inst EXCEPT !.repeat = "MU_NONE"]
     /\ Enters(u, "REPEAT_OP", [NoEntry EXCEPT !.idx = Repeated(v)])
  \/ Idles(v) /\ u.repeating \in {v.repeating, "MU_NONE"} /\ Begins(u)
  \/ /\ Idles(v) /\ v.repeating # "MU_NONE" /\ u.repeating = "MU_NONE"
     /\ Enters(u, "DONE", NoEntry)
  \/ Idles(v) /\ u.repeating = "MU_NONE" /\ u.inst = v.inst /\ Enters(u, v.stage, v.at)
  \/ /\ u.inst = [v.inst EXCEPT !.illegal = TRUE]
     /\ u.repeating = v.repeating /\ Enters(u, v.stage, v.at)
  \/ v.inst.illegal /\ Goes(v, u, "DONE", NoEntry)

\* They are the steps of Microprogram.
LEMMA PromisedSteps ==
  ASSUME Promised(Seen(exec), Seen(exec'))
  PROVE  \/ Promise!Next
         \/ UNCHANGED <<SeenInst(exec.inst), exec.doing.stage, Canonical(exec.doing.at), exec.repeat_type>>
<1> DEFINE v == Seen(exec)
           u == Seen(exec')
<1>1. /\ v.inst = SeenInst(exec.inst) /\ v.stage = exec.doing.stage
      /\ v.at = Canonical(exec.doing.at) /\ v.repeating = exec.repeat_type
  BY DEF Seen
<1>2. /\ u.inst = SeenInst(exec'.inst) /\ u.stage = exec'.doing.stage
      /\ u.at = Canonical(exec'.doing.at) /\ u.repeating = exec'.repeat_type
  BY DEF Seen
<1>3. Promised(v, u)
  OBVIOUS
<1>4. \A s : Leaves(v, s) <=> Promise!MayLeave(s)
  BY <1>1 DEF Leaves, Promise!MayLeave
<1>5. Ends(v) <=> Promise!InstructionEnds
  BY <1>1, <1>4 DEF Ends, Promise!InstructionEnds, SeenInst
<1>6. Idles(v) <=> Promise!Idle
  BY <1>1, <1>4, <1>5 DEF Idles, Promise!Idle, Promise!NoRepeat, SeenInst
<1>7. \A s, e : Enters(u, s, e) <=> Promise!Enter(s, e)
  BY <1>2 DEF Enters, Promise!Enter, Canonical
<1> HIDE DEF v, u
<1>8. CASE u = v
  BY <1>1, <1>2, <1>8 DEF SeenInst, Canonical
<1>9. CASE v.at # NoEntry /\ u.at \in Following(v.at) \ {NoEntry} /\ Goes(v, u, v.stage, u.at)
  BY <1>1, <1>2, <1>9 DEF Goes, Enters, Promise!Next, Promise!Advance, SeenInst, Canonical
<1>10. CASE Leaves(v, "RUN_BEFORE") /\ Goes(v, u, "CORE_OP", NoEntry)
  BY <1>1, <1>2, <1>4, <1>7, <1>10 DEF Goes, Promise!Next, Promise!CoreOp, SeenInst, Canonical
<1>11. CASE v.stage = "CORE_OP" /\ v.inst.after # NoEntry /\ Goes(v, u, "RUN_AFTER", v.inst.after)
  BY <1>1, <1>2, <1>7, <1>11 DEF Goes, Promise!Next, Promise!RunAfter, SeenInst, Canonical
<1>12. CASE /\ v.stage = "RESTART" /\ Goes(v, u, "PUSH_PGC", u.at)
            /\ u.at \in EntrySpec /\ u.at.idx = "MU_PUSH_PGC_IND_SP_AUTO"
  BY <1>1, <1>2, <1>7, <1>12 DEF Goes, Promise!Next, Promise!PushPgc, SeenInst, Canonical
<1>13. CASE /\ Ends(v) /\ Repeated(v) # "MU_NONE"
            /\ u.repeating = Repeated(v) /\ u.inst = [v.inst EXCEPT !.repeat = "MU_NONE"]
            /\ Enters(u, "REPEAT_OP", [NoEntry EXCEPT !.idx = Repeated(v)])
  BY <1>1, <1>2, <1>5, <1>7, <1>13
  DEF Repeated, Promise!Next, Promise!Repeat, Promise!NoRepeat, SeenInst, Canonical
<1>14. CASE Idles(v) /\ u.repeating \in {v.repeating, "MU_NONE"} /\ Begins(u)
  BY <1>1, <1>2, <1>6, <1>7, <1>14
  DEF Begins, Promise!Next, Promise!Begin, Promise!NoRepeat, SeenInst, Canonical
<1>15. CASE /\ Idles(v) /\ v.repeating # "MU_NONE" /\ u.repeating = "MU_NONE"
            /\ Enters(u, "DONE", NoEntry)
  BY <1>1, <1>2, <1>6, <1>7, <1>15 DEF Promise!Next, Promise!Drop, Promise!NoRepeat
<1>16. CASE Idles(v) /\ u.repeating = "MU_NONE" /\ u.inst = v.inst /\ Enters(u, v.stage, v.at)
  BY <1>1, <1>2, <1>6, <1>16
  DEF Enters, Promise!Next, Promise!StopRepeating, Promise!NoRepeat, SeenInst, Canonical
<1>17. CASE /\ u.inst = [v.inst EXCEPT !.illegal = TRUE]
            /\ u.repeating = v.repeating /\ Enters(u, v.stage, v.at)
  BY <1>1, <1>2, <1>17 DEF Enters, Promise!Next, Promise!Invalidate, SeenInst, Canonical
<1>18. CASE v.inst.illegal /\ Goes(v, u, "DONE", NoEntry)
  BY <1>1, <1>2, <1>7, <1>18 DEF Goes, Promise!Next, Promise!Trap, SeenInst, Canonical
<1> QED
  BY <1>3, <1>8, <1>9, <1>10, <1>11, <1>12, <1>13, <1>14, <1>15, <1>16, <1>17, <1>18 DEF Promised

\* The entries that the next call of RunRoutine may load.
Ahead(x) ==
  IF ~x.buffer.branch THEN {x.mucode_control}
  ELSE IF x.buffer.branch_cond \in Unconditional THEN {x.buffer.next}
  ELSE {x.buffer.next, x.buffer.next_no_branch}

\* In the middle of a routine.
Inside(x) ==
  /\ x.doing.stage = x.seq /\ x.doing.at.idx # "MU_NONE"
  /\ \A s \in Ahead(x) : s.idx # "MU_NONE" /\ Straight(s) /\ s \in Following(x.doing.at)

\* Between two calls.
AtPhase(x) ==
  LET v == Seen(x) IN
  \/ x.seq = "WAIT_NEXT_INS" /\ Idles(v)
  \/ /\ x.seq = "FINAL_STEPS"
     /\ Ends(v) \/ (Idles(v) /\ x.inst.repeat = "MU_NONE" /\ x.repeat_type = "MU_NONE")
  \/ x.seq = "EVAL_CONTROL" /\ x.inst.illegal
  \/ x.seq \in {"RUN_BEFORE", "RUN_AFTER", "PUSH_PGC"} /\ Inside(x)
  \/ x.seq = "CORE_OP" /\ Leaves(v, "RUN_BEFORE")
  \/ x.seq = "CORE_OP_EXECUTED" /\ x.doing.stage = "CORE_OP"
  \/ x.seq = "REPEAT_OP_BRANCH" /\ Leaves(v, "REPEAT_OP") /\ x.inst.repeat = "MU_NONE"
  \/ /\ x.seq = "PUSH_PGC" /\ x.doing.stage = "RESTART"
     /\ ~x.buffer.branch /\ x.mucode_control.idx = "MU_PUSH_PGC_IND_SP_AUTO"

StraightInst(i) == Straight(i.before) /\ Straight(i.after)

OnTrack(x) ==
  /\ StraightInst(x.inst)
  /\ x.buffer.branch => /\ x.control = "buffer" /\ NoIndex(x.buffer.operation)
                        /\ x.seq \in {"RUN_BEFORE", "RUN_AFTER", "PUSH_PGC"}
  /\ AtPhase(x)

\* What a call that started from v has made of the unit.
Tracked(v, x) == OnTrack(x) /\ Promised(v, Seen(x))

\* It is about to load an entry.
Running(x, s) ==
  [inst |-> SeenInst(x.inst), stage |-> x.seq, at |-> s, repeating |-> x.repeat_type]
Loads(v, x) ==
  /\ StraightInst(x.inst)
  /\ \A s \in Ahead(x) : s.idx # "MU_NONE" /\ Straight(s) /\ Promised(v, Running(x, s))
  /\ x.seq = "REPEAT_OP" => /\ x.inst.repeat = "MU_NONE"
                            /\ \A s \in Ahead(x) : s.idx \in {"MU_REPI", "MU_REPR"}

\* Each routine, and where the sequencer goes when it has loaded its last entry.
Routines ==
  {<<"RUN_BEFORE", "CORE_OP">>, <<"RUN_AFTER", "FINAL_STEPS">>,
   <<"REPEAT_OP", "REPEAT_OP_BRANCH">>, <<"PUSH_PGC", "WAIT_NEXT_INS">>}

\* y is x with entry s loaded, the last of its routine or not.
Loaded(x, s, finished, y) ==
  LET e == EntryOf[s] IN
  /\ y.inst = x.inst /\ y.repeat_type = x.repeat_type
  /\ y.buffer = e /\ y.control = "buffer"
  /\ y.mucode_control = IF e.branch THEN s ELSE e.next
  /\ y.seq = IF e.branch \/ e.next.idx # "MU_NONE" THEN x.seq ELSE finished
  /\ y.doing = [stage |-> x.seq, at |-> s]

\* RunRoutine loads one of the entries ahead.
LEMMA RunRoutineLoads ==
  ASSUME NEW o \in BOOLEAN, NEW w \in Works(BOOLEAN, o), NEW d \in FreeData, NEW finished,
         \A s \in Ahead(w.x) : s.idx # "MU_NONE"
  PROVE  \E s \in Ahead(w.x) : s \in EntrySpec /\ Loaded(w.x, s, finished, RunRoutine(w, d, finished).x)
<1> DEFINE x == w.x
           spec == IF ~x.buffer.branch THEN x.mucode_control
                   ELSE IF BranchTest(x, d) THEN x.buffer.next ELSE x.buffer.next_no_branch
           entry == EntryOf[spec]
           more == entry.branch \/ entry.next.idx # "MU_NONE"
           control == IF entry.branch THEN spec ELSE entry.next
           seq == IF more THEN w.x.seq ELSE finished
           doing == [stage |-> x.seq, at |-> spec]
           goes == [w EXCEPT !.x.buffer = entry, !.x.control = "buffer", !.x.mucode_control = control,
                             !.x.seq = seq, !.x.doing = doing]
<1>1. /\ x.mucode_control \in EntrySpec /\ x.buffer.next \in EntrySpec
      /\ x.buffer.next_no_branch \in EntrySpec
  BY WorkFields, ExecFields DEF DecodedEntries
<1>2. x.buffer.branch_cond \in Unconditional => BranchTest(x, d)
  BY DEF BranchTest, Unconditional, CondAlways, CondCall, CondDjnz
<1>3. spec \in EntrySpec /\ spec \in Ahead(x) /\ spec.idx # "MU_NONE"
  BY <1>1, <1>2 DEF Ahead
<1>4. RunRoutine(w, d, finished) =
        IF x.buffer.branch /\ spec.idx = "MU_NONE"
        THEN [w EXCEPT !.x.mucode_control = spec, !.x.seq = finished]
        ELSE goes
  BY DEF RunRoutine
<1>5. RunRoutine(w, d, finished) = goes
  BY <1>3, <1>4
<1>6. w.x \in ExecStates(BOOLEAN)
  BY WorkFields
<1> HIDE DEF spec, entry, more, control, seq, doing
<1>7. /\ goes.x.inst = w.x.inst /\ goes.x.repeat_type = w.x.repeat_type
      /\ goes.x.buffer = entry /\ goes.x.control = "buffer"
      /\ goes.x.mucode_control = control /\ goes.x.seq = seq /\ goes.x.doing = doing
  BY <1>6 DEF Works, ExecStates
<1> HIDE DEF goes
<1>8. Loaded(x, spec, finished, goes.x)
  BY <1>7 DEF Loaded, entry, more, control, seq, doing
<1> QED
  BY <1>3, <1>5, <1>8

\* An entry that may be loaded leaves the unit on track when it is.
LEMMA LoadedTracked ==
  ASSUME NEW v, NEW x \in ExecStates(BOOLEAN), NEW y, NEW finished, <<x.seq, finished>> \in Routines,
         Loads(v, x), NEW s \in Ahead(x), s \in EntrySpec, Loaded(x, s, finished, y)
  PROVE  /\ Tracked(v, y) /\ y.seq \in {x.seq, finished}
         /\ x.seq = "REPEAT_OP" => y.seq = finished
<1> DEFINE e == EntryOf[s]
<1>1. /\ StraightInst(x.inst)
      /\ s.idx # "MU_NONE" /\ Straight(s) /\ Promised(v, Running(x, s))
      /\ x.seq = "REPEAT_OP" => x.inst.repeat = "MU_NONE" /\ s.idx \in {"MU_REPI", "MU_REPR"}
  BY DEF Loads
<1>2. /\ e \in DecodedEntries /\ e.next.idx \in Plain
      /\ e.branch => /\ e.next.idx # "MU_NONE" /\ NoIndex(e.operation)
                     /\ \/ e.branch_cond \in Unconditional
                        \/ e.next_no_branch.idx \in Plain \ {"MU_NONE"}
  BY <1>1, StraightEntry
<1>3. /\ Canonical(e.next) \in Following(s)
      /\ e.branch => Canonical(e.next_no_branch) \in Following(s)
  BY FollowingEntry
<1>4. x.seq = "REPEAT_OP" => ~e.branch /\ e.next.idx = "MU_NONE"
  <2>1. s.idx \in {"MU_REPI", "MU_REPR"} => s.idx \in Plain
    BY DEF Plain, Looping, MucodeEntries
  <2> QED
    BY <1>1, <2>1, PlainGoesOn, RepeatEnds DEF GoesOn
<1>5. /\ y.inst = x.inst /\ y.repeat_type = x.repeat_type /\ y.buffer = e /\ y.control = "buffer"
      /\ y.mucode_control = IF e.branch THEN s ELSE e.next
      /\ y.seq = IF e.branch \/ e.next.idx # "MU_NONE" THEN x.seq ELSE finished
      /\ y.doing = [stage |-> x.seq, at |-> s]
  BY DEF Loaded
<1> HIDE DEF e
<1>6. Seen(y) = Running(x, s)
  BY <1>1, <1>5 DEF Seen, Running, Canonical
<1>7. x.seq \in {"RUN_BEFORE", "RUN_AFTER", "REPEAT_OP", "PUSH_PGC"}
  BY DEF Routines
<1>8. CASE e.branch \/ e.next.idx # "MU_NONE"
  <2>1. y.seq = x.seq /\ x.seq \in {"RUN_BEFORE", "RUN_AFTER", "PUSH_PGC"}
    BY <1>4, <1>5, <1>7, <1>8
  <2>2. \A t \in Ahead(y) : t.idx # "MU_NONE" /\ Straight(t) /\ t \in Following(s)
    <3>1. CASE ~e.branch
      <4>1. Ahead(y) = {e.next}
        BY <1>5, <3>1 DEF Ahead
      <4> QED
        BY <1>2, <1>3, <1>8, <3>1, <4>1, PlainIsStraight DEF Canonical
    <3>2. CASE e.branch
      <4>1. Ahead(y) = IF e.branch_cond \in Unconditional THEN {e.next} ELSE {e.next, e.next_no_branch}
        BY <1>5, <3>2 DEF Ahead
      <4> QED
        BY <1>2, <1>3, <3>2, <4>1, PlainIsStraight DEF Canonical
    <3> QED
      BY <3>1, <3>2, <1>2 DEF DecodedEntries
  <2>3. Inside(y)
    BY <1>1, <1>5, <2>1, <2>2 DEF Inside
  <2> QED
    BY <1>1, <1>2, <1>5, <1>6, <1>7, <1>8, <2>1, <2>3, <1>4 DEF Tracked, OnTrack, AtPhase
<1>9. CASE ~e.branch /\ e.next.idx = "MU_NONE"
  <2>1. y.seq = finished /\ ~y.buffer.branch
    BY <1>5, <1>9
  <2>2. Leaves(Seen(y), x.seq)
    BY <1>3, <1>6, <1>9 DEF Leaves, Running, Canonical
  <2>3. AtPhase(y)
    BY <1>1, <1>5, <2>1, <2>2 DEF AtPhase, Routines, Ends, Idles
  <2> QED
    BY <1>1, <1>5, <1>6, <2>1, <2>3 DEF Tracked, OnTrack
<1> QED
  BY <1>8, <1>9

\* Running one routine.
LEMMA RoutineTracked ==
  ASSUME NEW o \in BOOLEAN, NEW w \in Works(BOOLEAN, o), NEW d \in FreeData,
         NEW finished \in SequencerPhases, <<w.x.seq, finished>> \in Routines,
         NEW v, Loads(v, w.x)
  PROVE  /\ Tracked(v, RunRoutine(w, d, finished).x)
         /\ RunRoutine(w, d, finished).x.seq \in {w.x.seq, finished}
         /\ w.x.seq = "REPEAT_OP" => RunRoutine(w, d, finished).x.seq = finished
<1>1. PICK s \in Ahead(w.x) : s \in EntrySpec /\ Loaded(w.x, s, finished, RunRoutine(w, d, finished).x)
  BY RunRoutineLoads DEF Loads
<1>2. w.x \in ExecStates(BOOLEAN)
  BY WorkFields
<1> QED
  BY <1>1, <1>2, LoadedTracked

-----------------------------------------------------------------------------
\* x and y are at the same point of the same instruction.
SameRun(x, y) ==
  /\ y.seq = x.seq /\ y.control = x.control /\ y.mucode_control = x.mucode_control
  /\ y.doing = x.doing /\ y.repeat_type = x.repeat_type
  /\ y.inst.before = x.inst.before /\ y.inst.after = x.inst.after
  /\ y.inst.repeat = x.inst.repeat /\ y.inst.restart = x.inst.restart
  /\ y.inst.illegal = x.inst.illegal
  /\ y.buffer.branch = x.buffer.branch /\ y.buffer.branch_cond = x.buffer.branch_cond
  /\ y.buffer.next = x.buffer.next /\ y.buffer.next_no_branch = x.buffer.next_no_branch
  /\ y.buffer.operation.src1 = x.buffer.operation.src1
  /\ y.buffer.operation.src2 = x.buffer.operation.src2

\* Then the one is on track if the other is.
LEMMA SameTracked ==
  ASSUME NEW x, NEW y, SameRun(x, y)
  PROVE  Seen(y) = Seen(x) /\ (OnTrack(x) => OnTrack(y))
<1>1. Seen(y) = Seen(x)
  BY DEF SameRun, Seen, SeenInst
<1>2. Ahead(y) = Ahead(x)
  BY DEF SameRun, Ahead
<1>3. Inside(y) = Inside(x)
  BY <1>2 DEF SameRun, Inside
<1>4. AtPhase(x) => AtPhase(y)
  BY <1>1, <1>3 DEF SameRun, AtPhase
<1> QED
  BY <1>1, <1>4 DEF SameRun, OnTrack, StraightInst, NoIndex

\* Changing what the control word has been used for.
LEMMA WithControlSame ==
  ASSUME NEW x \in ExecStates(BOOLEAN), NEW c \in ControlWords,
         c.src1 = Control(x).src1, c.src2 = Control(x).src2
  PROVE  SameRun(x, WithControl(x, c))
<1>1. CASE x.control = "core_op"
  <2>1. WithControl(x, c) = [x EXCEPT !.inst.core = c]
    BY <1>1 DEF WithControl
  <2> QED
    BY <2>1 DEF SameRun, ExecStates, InstructionRecords
<1>2. CASE x.control # "core_op"
  <2>1. WithControl(x, c) = [x EXCEPT !.buffer.operation = c] /\ Control(x) = x.buffer.operation
    BY <1>2 DEF WithControl, Control
  <2> QED
    BY <2>1 DEF SameRun, ExecStates, DecodedEntries
<1> QED
  BY <1>1, <1>2

\* Asserting an access stays at the same point.
LEMMA AssertedSame ==
  ASSUME NEW x \in ExecStates(BOOLEAN), NEW a \in DataAddrs
  PROVE  SameRun(x, Asserted(x, a))
<1> DEFINE c == [Control(x) EXCEPT !.latch = "MEM_NO_LATCH"]
           y == WithControl(x, c)
<1>1. c \in ControlWords /\ c.src1 = Control(x).src1 /\ c.src2 = Control(x).src2
  <2>1. Control(x) \in ControlWords
    BY ControlType
  <2> QED
    BY <2>1, ControlUpdates DEF ControlWords, AddressLatches
<1>2. Asserted(x, a) = [y EXCEPT !.waiting = TRUE, !.asked = a]
  BY DEF Asserted
<1> HIDE DEF c
<1>3. SameRun(x, y) /\ y \in ExecStates(BOOLEAN)
  BY <1>1, WithControlSame, ControlType
<1> HIDE DEF y
<1> QED
  BY <1>2, <1>3 DEF SameRun, ExecStates

\* So does latching a result.
LEMMA ResultSame ==
  ASSUME NEW o \in BOOLEAN, NEW w \in Works(BOOLEAN, o), NEW d \in FreeData, NEW a \in Int
  PROVE  SameRun(w.x, ResultLatched(w, d, a).x)
<1> DEFINE c == Control(w.x)
           cc == [c EXCEPT !.alu = FALSE]
           zero == IF c.dest = "REPI" THEN RepiResult(w.x) = 0 /\ c.src1 = "REPI" ELSE d.zero
           aux == CASE c.aux = "LATCH_AUX_NONE"  -> w.x.latch_aux
                    [] c.aux = "LATCH_AUX_CLEAR" -> FALSE
                    [] c.aux = "LATCH_AUX_ZERO"  -> zero
                    [] c.aux = "LATCH_AUX_CARRY" -> d.carry
           written == IF c.dest = "PGC" THEN WritePgc(w, a) ELSE w
           spent == WithControl(written.x, cc)
           repi == IF c.dest = "REPI" THEN RepiResult(w.x) ELSE spent.repi
           x == [spent EXCEPT !.used_z = zero, !.latch_aux = aux, !.repi = repi]
<1>1. ResultLatched(w, d, a) = IF ~c.alu THEN w ELSE [written EXCEPT !.x = x]
  BY DEF ResultLatched
<1>2. cc \in ControlWords /\ cc.src1 = c.src1 /\ cc.src2 = c.src2 /\ w.x \in ExecStates(BOOLEAN)
  <2>1. c \in ControlWords /\ w.x \in ExecStates(BOOLEAN)
    BY WorkFields, ControlType
  <2>2. cc \in ControlWords
    BY <2>1, ControlUpdates
  <2>3. cc.src1 = c.src1 /\ cc.src2 = c.src2
    BY <2>1 DEF ControlWords
  <2> QED
    BY <2>1, <2>2, <2>3
<1>3. /\ written \in Works(BOOLEAN, o) /\ written.x \in ExecStates(BOOLEAN)
      /\ Control(written.x) = c
  BY WritePgcType, WritePgcFacts, WorkFields
<1>4. SameRun(w.x, written.x)
  BY <1>2 DEF SameRun, WritePgc, Works, ExecStates
<1> HIDE DEF c, cc, written
<1>5. SameRun(written.x, spent) /\ spent \in ExecStates(BOOLEAN)
  BY <1>2, <1>3, WithControlSame, ControlType
<1> HIDE DEF spent, zero, aux, repi
<1>6. SameRun(spent, x)
  BY <1>5 DEF SameRun, ExecStates
<1> HIDE DEF x
<1>7. [written EXCEPT !.x = x].x = x
  BY <1>3 DEF Works
<1>8. SameRun(w.x, w.x)
  BY DEF SameRun
<1> QED
  BY <1>1, <1>4, <1>5, <1>6, <1>7, <1>8 DEF SameRun

\* The unit has not moved since v, but for the repeat routine that may have ended.
Stands(v, x) ==
  /\ Seen(x).inst = v.inst /\ Seen(x).stage = v.stage /\ Seen(x).at = v.at
  /\ x.repeat_type \in {v.repeating, "MU_NONE"}

\* A call that started from v, after the phases that end an instruction.
Ended(v, x) ==
  \/ x.seq \in {"RUN_BEFORE", "RUN_AFTER", "REPEAT_OP", "PUSH_PGC"} /\ Loads(v, x)
  \/ x.seq = "FINAL_STEPS" /\ Tracked(v, x)
  \/ /\ StraightInst(x.inst) /\ ~x.buffer.branch
     /\ \/ x.seq = "WAIT_NEXT_INS" /\ Idles(v) /\ Stands(v, x)
        \/ x.seq = "WAIT_CACHED_INS" /\ Idles(v) /\ Seen(x) = v
        \/ x.seq = "EVAL_CONTROL" /\ x.inst.illegal /\ Seen(x) = v
        \/ x.seq = "CORE_OP" /\ Promised(v, Running(x, NoEntry))

\* Repeats that are not MU_NONE are straight routines.
LEMMA RepeatsStraight ==
  ASSUME NEW idx \in Repeats, idx # "MU_NONE"
  PROVE  /\ idx \in {"MU_REPI", "MU_REPR"} /\ [NoEntry EXCEPT !.idx = idx].idx = idx
         /\ Straight([NoEntry EXCEPT !.idx = idx])
<1>1. idx \in {"MU_REPI", "MU_REPR"} /\ [NoEntry EXCEPT !.idx = idx].idx = idx
  BY DEF Repeats, NoEntry
<1> QED
  BY <1>1 DEF Straight, Looping

\* A repeat routine starts when the instruction has ended.
LEMMA StartRepeatLoads ==
  ASSUME NEW o \in BOOLEAN, NEW w \in Works(BOOLEAN, o), NEW v, v = Seen(w.x),
         StraightInst(w.x.inst), ~w.x.buffer.branch, Ends(v), Repeated(v) # "MU_NONE"
  PROVE  Ended(v, StartRepeat(w, Repeated(v)).x)
<1> DEFINE idx == Repeated(v)
           x == StartRepeat(w, idx).x
           s == [NoEntry EXCEPT !.idx = idx]
<1>1. w.x \in ExecStates(BOOLEAN) /\ w.x.inst \in InstructionRecords(BOOLEAN)
  BY WorkFields, ExecFields
<1>2. v.inst = SeenInst(w.x.inst) /\ v.repeating = w.x.repeat_type
  BY DEF Seen
<1>3. idx \in Repeats
  BY <1>1, <1>2, ExecFields, InstructionFields DEF Repeated, SeenInst
<1> HIDE DEF idx
<1>4. /\ x.inst = [w.x.inst EXCEPT !.repeat = "MU_NONE"] /\ x.repeat_type = idx
      /\ x.mucode_control = s /\ x.seq = "REPEAT_OP" /\ x.buffer = w.x.buffer
  BY <1>1 DEF StartRepeat, Works, ExecStates
<1>5. /\ SeenInst(x.inst) = [v.inst EXCEPT !.repeat = "MU_NONE"] /\ x.inst.repeat = "MU_NONE"
      /\ StraightInst(x.inst)
  BY <1>1, <1>2, <1>4 DEF SeenInst, InstructionRecords, StraightInst
<1> HIDE DEF x
<1>6. Ahead(x) = {s}
  BY <1>4 DEF Ahead
<1>7. Promised(v, Running(x, s))
  BY <1>4, <1>5 DEF Promised, Running, Enters, idx
<1>8. Straight(s) /\ s.idx \in {"MU_REPI", "MU_REPR"}
  BY <1>3, RepeatsStraight DEF idx
<1> QED
  BY <1>4, <1>5, <1>6, <1>7, <1>8 DEF Ended, Loads, x, idx

\* FINAL_STEPS, when the instruction or the last repetition has ended.
LEMMA FinalStepsEnded ==
  ASSUME NEW o \in BOOLEAN, NEW w \in Works(BOOLEAN, o), NEW v, w.x.seq = "FINAL_STEPS",
         StraightInst(w.x.inst), ~w.x.buffer.branch, Stands(v, w.x),
         \/ Ends(v) /\ Seen(w.x) = v
         \/ Idles(v) /\ w.x.inst.repeat = "MU_NONE" /\ w.x.repeat_type = "MU_NONE"
  PROVE  Ended(v, FinalSteps(w).x)
<1>0. w.x \in ExecStates(BOOLEAN) /\ w.x.inst \in InstructionRecords(BOOLEAN)
  BY WorkFields, ExecFields
<1>1. v.inst = SeenInst(w.x.inst)
  BY DEF Stands, Seen
<1>2. CASE w.x.inst.repeat # "MU_NONE"
  <2>1. FinalSteps(w) = StartRepeat(w, w.x.inst.repeat)
    BY <1>2 DEF FinalSteps
  <2>2. Repeated(v) = w.x.inst.repeat
    BY <1>1, <1>2 DEF Repeated, SeenInst
  <2> QED
    BY <1>2, <2>1, <2>2, StartRepeatLoads
<1>3. CASE w.x.inst.repeat = "MU_NONE" /\ w.x.repeat_type # "MU_NONE"
  <2>1. FinalSteps(w) = StartRepeat(w, w.x.repeat_type)
    BY <1>3 DEF FinalSteps
  <2>2. Repeated(v) = w.x.repeat_type
    BY <1>1, <1>3 DEF Repeated, SeenInst, Seen
  <2> QED
    BY <1>3, <2>1, <2>2, StartRepeatLoads
<1>4. CASE w.x.inst.repeat = "MU_NONE" /\ w.x.repeat_type = "MU_NONE"
  <2>1. Idles(v)
    BY <1>1, <1>4 DEF Idles, SeenInst, Seen
  <2> DEFINE waits == [w EXCEPT !.x.branched = FALSE, !.offered = FALSE, !.x.seq = "WAIT_NEXT_INS"]
             stops == [w EXCEPT !.stops = TRUE]
             goes == [w EXCEPT !.x.seq = "WAIT_NEXT_INS"]
  <2>2. FinalSteps(w) \in {waits, stops, goes}
    BY <1>4, Zenon DEF FinalSteps
  <2>3. ASSUME NEW y \in {waits.x, goes.x} PROVE Ended(v, y)
    <3>1. /\ y.seq = "WAIT_NEXT_INS" /\ y.inst = w.x.inst /\ y.doing = w.x.doing
          /\ y.repeat_type = w.x.repeat_type /\ y.buffer = w.x.buffer
      BY <1>0 DEF Works, ExecStates
    <3>2. Stands(v, y)
      BY <3>1 DEF Stands, Seen
    <3> QED
      BY <2>1, <3>1, <3>2 DEF Ended
  <2>4. stops.x = w.x
    BY DEF Works
  <2>5. Tracked(v, w.x)
    <3>1. AtPhase(w.x)
      <4>1. Idles(Seen(w.x))
        BY <1>4, <2>1 DEF Stands, Idles, Ends, Leaves, Seen
      <4> QED
        BY <1>4, <4>1 DEF AtPhase
    <3>2. Promised(v, Seen(w.x))
      <4>1. Seen(w.x).repeating = "MU_NONE"
        BY <1>4 DEF Seen
      <4> QED
        BY <2>1, <4>1 DEF Promised, Stands, Enters
    <3> QED
      BY <3>1, <3>2 DEF Tracked, OnTrack
  <2> HIDE DEF waits, stops, goes
  <2> QED
    BY <2>2, <2>3, <2>4, <2>5 DEF Ended
<1> QED
  BY <1>2, <1>3, <1>4

\* In the middle of a routine the next entry is one that the promise allows.
LEMMA InsideLoads ==
  ASSUME NEW x, NEW v, v = Seen(x), StraightInst(x.inst), Inside(x), x.seq # "REPEAT_OP"
  PROVE  Loads(v, x)
<1> SUFFICES ASSUME NEW s \in Ahead(x) PROVE s.idx # "MU_NONE" /\ Straight(s) /\ Promised(v, Running(x, s))
  BY DEF Loads
<1>1. /\ s.idx # "MU_NONE" /\ Straight(s) /\ s \in Following(x.doing.at)
      /\ x.doing.stage = x.seq /\ x.doing.at.idx # "MU_NONE"
  BY DEF Inside
<1>2. v.at = x.doing.at /\ v.at # NoEntry /\ s # NoEntry
  BY <1>1 DEF Seen, Canonical, NoEntry
<1>3. Goes(v, Running(x, s), v.stage, s) /\ Running(x, s).at = s
  BY <1>1 DEF Goes, Enters, Running, Seen
<1> QED
  BY <1>1, <1>2, <1>3 DEF Promised

\* So it is when PGC is to be pushed.
LEMMA RestartLoads ==
  ASSUME NEW x \in ExecStates(BOOLEAN), NEW v, v = Seen(x), StraightInst(x.inst),
         x.seq = "PUSH_PGC", x.doing.stage = "RESTART", ~x.buffer.branch,
         x.mucode_control.idx = "MU_PUSH_PGC_IND_SP_AUTO"
  PROVE  Loads(v, x)
<1> DEFINE s == x.mucode_control
<1>1. Ahead(x) = {s} /\ s \in EntrySpec
  BY ExecFields DEF Ahead
<1>2. Straight(s)
  BY DEF Straight, Looping
<1>3. Promised(v, Running(x, s))
  BY <1>1 DEF Promised, Goes, Enters, Running, Seen
<1> QED
  BY <1>1, <1>2, <1>3 DEF Loads

\* The phases that end an instruction: what the call may do next is what the promise allows.
LEMMA EndingTracked ==
  ASSUME NEW o \in BOOLEAN, NEW w \in Works(BOOLEAN, o), NEW d \in FreeData,
         OnTrack(w.x), NEW v, v = Seen(w.x)
  PROVE  Ended(v, FinalSteps(RepeatOpBranch(CoreOpExecuted(w), d)).x)
<1>1. /\ w.x \in ExecStates(BOOLEAN) /\ w.x.inst \in InstructionRecords(BOOLEAN)
      /\ StraightInst(w.x.inst) /\ AtPhase(w.x)
      /\ w.x.buffer.branch => w.x.seq \in {"RUN_BEFORE", "RUN_AFTER", "PUSH_PGC"}
  BY WorkFields, ExecFields DEF OnTrack
<1>2. /\ v.inst = SeenInst(w.x.inst) /\ v.repeating = w.x.repeat_type
      /\ v.stage = w.x.doing.stage /\ v.at = Canonical(w.x.doing.at)
  BY DEF Seen
<1>3. Stands(v, w.x)
  BY <1>2 DEF Stands
<1>4. CASE w.x.seq \notin {"CORE_OP_EXECUTED", "REPEAT_OP_BRANCH", "FINAL_STEPS"}
  <2>1. FinalSteps(RepeatOpBranch(CoreOpExecuted(w), d)) = w
    BY <1>4 DEF FinalSteps, RepeatOpBranch, CoreOpExecuted
  <2>2. CASE w.x.seq \in {"RUN_BEFORE", "RUN_AFTER", "PUSH_PGC"}
    BY <1>1, <2>1, <2>2, InsideLoads, RestartLoads DEF AtPhase, Ended
  <2>3. CASE w.x.seq = "CORE_OP"
    <3>1. Leaves(v, "RUN_BEFORE")
      BY <1>1, <2>3 DEF AtPhase
    <3>2. Promised(v, Running(w.x, NoEntry))
      BY <1>2, <2>3, <3>1 DEF Promised, Goes, Enters, Running
    <3> QED
      BY <1>1, <2>1, <2>3, <3>2 DEF Ended
  <2> QED
    BY <1>1, <1>3, <1>4, <2>1, <2>2, <2>3 DEF AtPhase, Ended
<1>5. CASE w.x.seq = "CORE_OP_EXECUTED"
  <2>1. v.stage = "CORE_OP" /\ ~w.x.buffer.branch
    BY <1>1, <1>2, <1>5 DEF AtPhase
  <2>2. CASE w.x.inst.after.idx = "MU_NONE"
    <3> DEFINE w1 == [w EXCEPT !.x.seq = "FINAL_STEPS"]
    <3>1. RepeatOpBranch(CoreOpExecuted(w), d) = w1
      BY <1>5, <2>2 DEF CoreOpExecuted, RepeatOpBranch, Works, ExecStates
    <3>2. w1 \in Works(BOOLEAN, o)
      BY WorkExecUpdates DEF SequencerPhases
    <3>3. /\ w1.x.seq = "FINAL_STEPS" /\ w1.x.inst = w.x.inst /\ w1.x.doing = w.x.doing
          /\ w1.x.repeat_type = w.x.repeat_type /\ w1.x.buffer = w.x.buffer
      BY <1>1 DEF Works, ExecStates
    <3> HIDE DEF w1
    <3>4. Seen(w1.x) = v /\ Stands(v, w1.x)
      BY <3>3 DEF Seen, Stands
    <3>5. Ends(v)
      BY <1>2, <2>1, <2>2 DEF Ends, SeenInst, Canonical
    <3> QED
      BY <1>1, <2>1, <3>1, <3>2, <3>3, <3>4, <3>5, FinalStepsEnded
  <2>3. CASE w.x.inst.after.idx # "MU_NONE"
    <3> DEFINE w1 == [w EXCEPT !.x.seq = "RUN_AFTER", !.x.mucode_control = w.x.inst.after]
    <3>1. /\ w1.x.seq = "RUN_AFTER" /\ w1.x.inst = w.x.inst /\ w1.x.mucode_control = w.x.inst.after
          /\ w1.x.repeat_type = w.x.repeat_type /\ w1.x.buffer = w.x.buffer
      BY <1>1 DEF Works, ExecStates
    <3>2. CoreOpExecuted(w) = w1
      BY <1>5, <2>3 DEF CoreOpExecuted
    <3> HIDE DEF w1
    <3>3. FinalSteps(RepeatOpBranch(CoreOpExecuted(w), d)) = w1
      BY <3>1, <3>2 DEF FinalSteps, RepeatOpBranch
    <3>4. Ahead(w1.x) = {w.x.inst.after}
      BY <2>1, <3>1 DEF Ahead
    <3>5. v.inst.after = w.x.inst.after /\ v.inst.after # NoEntry
      BY <1>2, <2>3 DEF SeenInst, Canonical, NoEntry
    <3>6. Promised(v, Running(w1.x, w.x.inst.after))
      BY <1>2, <2>1, <3>1, <3>5 DEF Promised, Goes, Enters, Running
    <3>7. Loads(v, w1.x)
      BY <1>1, <2>3, <3>1, <3>4, <3>6 DEF Loads, StraightInst
    <3> QED
      BY <3>1, <3>3, <3>7 DEF Ended
  <2> QED
    BY <2>2, <2>3
<1>6. CASE w.x.seq = "REPEAT_OP_BRANCH"
  <2>1. Idles(v) /\ w.x.inst.repeat = "MU_NONE" /\ ~w.x.buffer.branch
    BY <1>1, <1>6 DEF AtPhase, Idles
  <2> DEFINE w1 == [w EXCEPT !.x.repeat_type = "MU_NONE", !.x.seq = "FINAL_STEPS"]
             w2 == [w EXCEPT !.x.seq = "WAIT_CACHED_INS"]
  <2>2. RepeatOpBranch(CoreOpExecuted(w), d) \in {w1, w2}
    BY <1>6 DEF CoreOpExecuted, RepeatOpBranch
  <2>3. w1 \in Works(BOOLEAN, o)
    BY WorkExecUpdates DEF SequencerPhases, Repeats
  <2>4. /\ w1.x.seq = "FINAL_STEPS" /\ w1.x.inst = w.x.inst /\ w1.x.doing = w.x.doing
        /\ w1.x.repeat_type = "MU_NONE" /\ w1.x.buffer = w.x.buffer
    BY <1>1 DEF Works, ExecStates
  <2>5. /\ w2.x.seq = "WAIT_CACHED_INS" /\ w2.x.inst = w.x.inst /\ w2.x.doing = w.x.doing
        /\ w2.x.repeat_type = w.x.repeat_type /\ w2.x.buffer = w.x.buffer
    BY <1>1 DEF Works, ExecStates
  <2> HIDE DEF w1, w2
  <2>6. Ended(v, FinalSteps(w1).x)
    <3>1. Stands(v, w1.x)
      BY <1>2, <2>4 DEF Stands, Seen
    <3> QED
      BY <1>1, <2>1, <2>3, <2>4, <3>1, FinalStepsEnded
  <2>7. Ended(v, FinalSteps(w2).x)
    <3>1. FinalSteps(w2) = w2
      BY <2>5 DEF FinalSteps
    <3>2. Seen(w2.x) = v
      BY <2>5 DEF Seen
    <3> QED
      BY <1>1, <2>1, <2>5, <3>1, <3>2 DEF Ended
  <2> QED
    BY <2>2, <2>6, <2>7
<1>7. CASE w.x.seq = "FINAL_STEPS"
  <2>1. RepeatOpBranch(CoreOpExecuted(w), d) = w
    BY <1>7 DEF CoreOpExecuted, RepeatOpBranch
  <2> QED
    BY <1>1, <1>3, <1>7, <2>1, FinalStepsEnded DEF AtPhase
<1> QED
  BY <1>4, <1>5, <1>6, <1>7

\* An instruction is being evaluated: it has been taken, or it is found to be illegal.
Evaluates(v, x) ==
  \/ Idles(v) /\ x.repeat_type \in {v.repeating, "MU_NONE"}
  \/ x.inst.illegal /\ Seen(x) = v

\* A call that started from v, after the phases that take an instruction.
Taken(v, x) ==
  \/ x.seq \in {"RUN_BEFORE", "RUN_AFTER", "REPEAT_OP"} /\ Loads(v, x)
  \/ x.seq \in {"FINAL_STEPS", "WAIT_NEXT_INS", "PUSH_PGC"} /\ Tracked(v, x)
  \/ /\ StraightInst(x.inst) /\ ~x.buffer.branch
     /\ \/ x.seq = "EVAL_CONTROL" /\ Evaluates(v, x)
        \/ x.seq = "CORE_OP" /\ Promised(v, Running(x, NoEntry))

\* A call that finds nothing to take, or drops what there is.
LEMMA WaitingTaken ==
  ASSUME NEW o \in BOOLEAN, NEW w \in Works(BOOLEAN, o), NEW y, NEW v, v = Seen(y),
         NEW inst \in InstructionRecords(BOOLEAN), StraightInst(inst),
         StraightInst(w.x.inst), ~w.x.buffer.branch,
         w.x.seq = "WAIT_NEXT_INS", Idles(v), Stands(v, w.x)
  PROVE  Taken(v, WaitNextIns(w, inst).x) /\ WaitNextIns(w, inst).x.seq \in {"WAIT_NEXT_INS", "EVAL_CONTROL"}
<1>0. w.x \in ExecStates(BOOLEAN)
  BY WorkFields
<1>1. CASE ~w.offered
  <2>1. WaitNextIns(w, inst) = w
    BY <1>1 DEF WaitNextIns
  <2>2. Idles(Seen(w.x))
    BY DEF Stands, Idles, Ends, Leaves, Seen
  <2>3. Promised(v, Seen(w.x))
    <3>1. CASE w.x.repeat_type = v.repeating
      BY <3>1 DEF Promised, Stands, Seen
    <3>2. CASE w.x.repeat_type = "MU_NONE"
      BY <3>2 DEF Promised, Stands, Seen, Enters
    <3> QED
      BY <3>1, <3>2 DEF Stands
  <2> QED
    BY <2>1, <2>2, <2>3 DEF Taken, Tracked, OnTrack, AtPhase
<1>2. CASE w.offered /\ w.x.repeat_type = "MU_REPR"
  <2> DEFINE w1 == [w EXCEPT !.x.inst = inst, !.offered = FALSE, !.x.repeat_type = "MU_NONE",
                             !.x.doing = Nothing]
  <2>1. WaitNextIns(w, inst) = w1
    BY <1>2 DEF WaitNextIns
  <2>2. /\ w1.x.seq = "WAIT_NEXT_INS" /\ w1.x.inst = inst /\ w1.x.repeat_type = "MU_NONE"
        /\ w1.x.doing = Nothing /\ w1.x.buffer = w.x.buffer
    BY <1>0 DEF Works, ExecStates
  <2> HIDE DEF w1
  <2>3. Seen(w1.x).stage = "DONE" /\ Seen(w1.x).at = NoEntry /\ Seen(w1.x).repeating = "MU_NONE"
    BY <2>2 DEF Seen, Nothing, Canonical
  <2>4. v.repeating = "MU_REPR"
    BY <1>2 DEF Stands
  <2>5. Promised(v, Seen(w1.x)) /\ Idles(Seen(w1.x))
    BY <2>3, <2>4 DEF Promised, Enters, Idles
  <2> QED
    BY <2>1, <2>2, <2>5 DEF Taken, Tracked, OnTrack, AtPhase
<1>3. CASE w.offered /\ w.x.repeat_type # "MU_REPR"
  <2> DEFINE w1 == [w EXCEPT !.x.inst = inst, !.offered = FALSE, !.x.seq = "EVAL_CONTROL",
                             !.x.pgc = inst.inst_pgc]
  <2>1. WaitNextIns(w, inst) = w1
    BY <1>3 DEF WaitNextIns
  <2>2. /\ w1.x.seq = "EVAL_CONTROL" /\ w1.x.inst = inst /\ w1.x.repeat_type = w.x.repeat_type
        /\ w1.x.buffer = w.x.buffer
    BY <1>0 DEF Works, ExecStates
  <2> HIDE DEF w1
  <2> QED
    BY <2>1, <2>2 DEF Taken, Evaluates, Stands
<1> QED
  BY <1>1, <1>2, <1>3

\* The phases that take an instruction.
LEMMA TakingTracked ==
  ASSUME NEW o \in BOOLEAN, NEW w \in Works(BOOLEAN, o), NEW y, NEW v, v = Seen(y),
         NEW d \in FreeData, NEW inst \in InstructionRecords(BOOLEAN), StraightInst(inst),
         Ended(v, w.x)
  PROVE  Taken(v, WaitCachedIns(PushPgc(WaitNextIns(w, inst), d), inst).x)
<1>0. w.x \in ExecStates(BOOLEAN)
  BY WorkFields
<1>1. CASE w.x.seq \notin {"WAIT_NEXT_INS", "PUSH_PGC", "WAIT_CACHED_INS"}
  <2>1. WaitCachedIns(PushPgc(WaitNextIns(w, inst), d), inst) = w
    BY <1>1 DEF WaitCachedIns, PushPgc, WaitNextIns
  <2> QED
    BY <1>1, <2>1 DEF Ended, Taken, Evaluates
<1>2. CASE w.x.seq = "PUSH_PGC"
  <2>1. WaitNextIns(w, inst) = w
    BY <1>2 DEF WaitNextIns
  <2> DEFINE w1 == RunRoutine(w, d, "WAIT_NEXT_INS")
  <2>2. Tracked(v, w1.x) /\ w1.x.seq \in {"PUSH_PGC", "WAIT_NEXT_INS"}
    BY <1>2, RoutineTracked DEF Ended, Routines, SequencerPhases
  <2>3. PushPgc(w, d) = w1
    BY <1>2 DEF PushPgc
  <2> HIDE DEF w1
  <2>4. WaitCachedIns(w1, inst) = w1
    BY <2>2 DEF WaitCachedIns
  <2> QED
    BY <2>1, <2>2, <2>3, <2>4 DEF Taken
<1>3. CASE w.x.seq = "WAIT_NEXT_INS"
  <2> DEFINE w1 == WaitNextIns(w, inst)
  <2>1. Taken(v, w1.x) /\ w1.x.seq \in {"WAIT_NEXT_INS", "EVAL_CONTROL"}
    BY <1>3, WaitingTaken DEF Ended
  <2> HIDE DEF w1
  <2>2. WaitCachedIns(PushPgc(w1, d), inst) = w1
    BY <2>1 DEF PushPgc, WaitCachedIns
  <2> QED
    BY <2>1, <2>2 DEF w1
<1>4. CASE w.x.seq = "WAIT_CACHED_INS"
  <2> DEFINE w1 == [w EXCEPT !.x.inst = inst, !.x.seq = "EVAL_CONTROL"]
  <2>1. WaitCachedIns(PushPgc(WaitNextIns(w, inst), d), inst) = w1
    BY <1>4 DEF WaitNextIns, PushPgc, WaitCachedIns
  <2>2. /\ w1.x.seq = "EVAL_CONTROL" /\ w1.x.inst = inst /\ w1.x.repeat_type = w.x.repeat_type
        /\ w1.x.buffer = w.x.buffer
    BY <1>0 DEF Works, ExecStates
  <2> HIDE DEF w1
  <2>3. Idles(v) /\ w.x.repeat_type = v.repeating /\ ~w.x.buffer.branch
    BY <1>4 DEF Ended, Seen
  <2> QED
    BY <2>1, <2>2, <2>3 DEF Taken, Evaluates
<1> QED
  BY <1>1, <1>2, <1>3, <1>4

-----------------------------------------------------------------------------
\* A call that started from v, after the phases that begin an instruction.
Evaluated(v, x) ==
  \/ x.seq \in {"RUN_BEFORE", "RUN_AFTER", "REPEAT_OP"} /\ Loads(v, x)
  \/ x.seq \in {"FINAL_STEPS", "WAIT_NEXT_INS", "PUSH_PGC", "CORE_OP_EXECUTED"} /\ Tracked(v, x)

\* The core operation.
LEMMA CoreOpTracked ==
  ASSUME NEW o \in BOOLEAN, NEW w \in Works(BOOLEAN, o), NEW v, w.x.seq = "CORE_OP",
         StraightInst(w.x.inst), ~w.x.buffer.branch, Promised(v, Running(w.x, NoEntry))
  PROVE  Evaluated(v, CoreOp(w).x)
<1> DEFINE w1 == [w EXCEPT !.x.control = "core_op", !.x.seq = "CORE_OP_EXECUTED",
                           !.x.doing = [stage |-> "CORE_OP", at |-> NoEntry]]
<1>1. CoreOp(w) = w1
  BY DEF CoreOp
<1>2. /\ w1.x.seq = "CORE_OP_EXECUTED" /\ w1.x.inst = w.x.inst /\ w1.x.buffer = w.x.buffer
      /\ w1.x.repeat_type = w.x.repeat_type
      /\ w1.x.doing = [stage |-> "CORE_OP", at |-> NoEntry]
  BY WorkFields DEF Works, ExecStates
<1> HIDE DEF w1
<1>3. Seen(w1.x) = Running(w.x, NoEntry)
  BY <1>2 DEF Seen, Running, Canonical
<1> QED
  BY <1>1, <1>2, <1>3 DEF Evaluated, Tracked, OnTrack, AtPhase

\* The phase that evaluates an instruction, and the core operation when nothing precedes it.
LEMMA EvalControlTracked ==
  ASSUME NEW o \in BOOLEAN, NEW w \in Works(BOOLEAN, o), NEW v, NEW a \in Int,
         w.x.seq = "EVAL_CONTROL", StraightInst(w.x.inst), ~w.x.buffer.branch, Evaluates(v, w.x)
  PROVE  Evaluated(v, CoreOp(EvalControl(w, a)).x)
<1>0. /\ w.x \in ExecStates(BOOLEAN)
      /\ w.x.inst.illegal \in BOOLEAN /\ w.x.inst.restart \in BOOLEAN
  BY WorkFields, ExecFields DEF InstructionRecords
<1>1. CASE w.x.inst.illegal
  <2> DEFINE w1 == Trapped(w)
  <2>1. EvalControl(w, a) = w1
    BY <1>1 DEF EvalControl
  <2>2. /\ w1.x.seq = "WAIT_NEXT_INS" /\ w1.x.inst = w.x.inst /\ w1.x.buffer = w.x.buffer
        /\ w1.x.repeat_type = w.x.repeat_type /\ w1.x.doing = Nothing
    BY <1>0 DEF Trapped, WritePgc, Works, ExecStates
  <2> HIDE DEF w1
  <2>3. CoreOp(w1) = w1
    BY <2>2 DEF CoreOp
  <2>4. /\ Seen(w1.x).stage = "DONE" /\ Seen(w1.x).at = NoEntry
        /\ Seen(w1.x).inst = SeenInst(w.x.inst) /\ Seen(w1.x).repeating = w.x.repeat_type
        /\ SeenInst(w.x.inst).illegal
    <3>1. Nothing.stage = "DONE" /\ Canonical(Nothing.at) = NoEntry
      BY DEF Nothing, Canonical
    <3>2. SeenInst(w.x.inst).illegal
      BY <1>0, <1>1 DEF SeenInst
    <3> QED
      BY <2>2, <3>1, <3>2 DEF Seen
  <2>5. Idles(Seen(w1.x))
    BY <2>4 DEF Idles
  <2>6. Promised(v, Seen(w1.x))
    <3>1. CASE Idles(v) /\ w.x.repeat_type \in {v.repeating, "MU_NONE"}
      BY <2>4, <3>1 DEF Promised, Begins, Enters
    <3>2. CASE Seen(w.x) = v
      BY <2>4, <3>2 DEF Promised, Goes, Enters, Seen
    <3> QED
      BY <3>1, <3>2 DEF Evaluates
  <2> QED
    BY <2>1, <2>2, <2>3, <2>5, <2>6 DEF Evaluated, Tracked, OnTrack, AtPhase
<1>2. ASSUME ~w.x.inst.illegal PROVE Idles(v) /\ w.x.repeat_type \in {v.repeating, "MU_NONE"}
  BY <1>2 DEF Evaluates
<1>3. CASE ~w.x.inst.illegal /\ w.x.inst.restart
  <2> DEFINE w1 == [WritePgc(w, a) EXCEPT !.x.seq = "PUSH_PGC",
                      !.x.mucode_control.idx = "MU_PUSH_PGC_IND_SP_AUTO",
                      !.x.doing = [stage |-> "RESTART", at |-> NoEntry]]
  <2>1. EvalControl(w, a) = w1
    BY <1>3 DEF EvalControl
  <2>2. /\ w1.x.seq = "PUSH_PGC" /\ w1.x.inst = w.x.inst /\ w1.x.buffer = w.x.buffer
        /\ w1.x.repeat_type = w.x.repeat_type
        /\ w1.x.doing = [stage |-> "RESTART", at |-> NoEntry]
        /\ w1.x.mucode_control.idx = "MU_PUSH_PGC_IND_SP_AUTO"
    BY <1>0 DEF WritePgc, Works, ExecStates, EntrySpec
  <2> HIDE DEF w1
  <2>3. CoreOp(w1) = w1
    BY <2>2 DEF CoreOp
  <2>4. /\ Seen(w1.x).stage = "RESTART" /\ Seen(w1.x).at = NoEntry
        /\ Seen(w1.x).inst.restart /\ ~Seen(w1.x).inst.illegal
        /\ Seen(w1.x).repeating = w.x.repeat_type
    BY <1>0, <1>3, <2>2 DEF Seen, SeenInst, Canonical
  <2>5. Promised(v, Seen(w1.x))
    BY <1>2, <1>3, <2>4 DEF Promised, Begins, Enters
  <2> QED
    BY <2>1, <2>2, <2>3, <2>5 DEF Evaluated, Tracked, OnTrack, AtPhase
<1>4. CASE ~w.x.inst.illegal /\ ~w.x.inst.restart /\ w.x.inst.before.idx # "MU_NONE"
  <2> DEFINE w1 == [w EXCEPT !.x.seq = "RUN_BEFORE", !.x.mucode_control = w.x.inst.before]
  <2>1. EvalControl(w, a) = w1
    BY <1>4 DEF EvalControl
  <2>2. /\ w1.x.seq = "RUN_BEFORE" /\ w1.x.inst = w.x.inst /\ w1.x.buffer = w.x.buffer
        /\ w1.x.repeat_type = w.x.repeat_type /\ w1.x.mucode_control = w.x.inst.before
    BY <1>0 DEF Works, ExecStates
  <2> HIDE DEF w1
  <2>3. CoreOp(w1) = w1
    BY <2>2 DEF CoreOp
  <2> DEFINE s == w.x.inst.before
             u == Running(w1.x, s)
  <2>4. Ahead(w1.x) = {s}
    BY <2>2 DEF Ahead
  <2>5. /\ u.stage = "RUN_BEFORE" /\ u.at = s /\ u.repeating = w.x.repeat_type
        /\ ~u.inst.restart /\ ~u.inst.illegal /\ u.inst.before = s /\ u.inst.before # NoEntry
    BY <1>0, <1>4, <2>2 DEF Running, SeenInst, Canonical, NoEntry
  <2>6. Promised(v, u)
    BY <1>2, <1>4, <2>5 DEF Promised, Begins, Enters
  <2>7. Loads(v, w1.x)
    BY <1>4, <2>2, <2>4, <2>6 DEF Loads, StraightInst
  <2> QED
    BY <2>1, <2>2, <2>3, <2>7 DEF Evaluated
<1>5. CASE ~w.x.inst.illegal /\ ~w.x.inst.restart /\ w.x.inst.before.idx = "MU_NONE"
  <2> DEFINE w1 == [w EXCEPT !.x.seq = "CORE_OP"]
  <2>1. EvalControl(w, a) = w1
    BY <1>5 DEF EvalControl
  <2>2. /\ w1.x.seq = "CORE_OP" /\ w1.x.inst = w.x.inst /\ w1.x.buffer = w.x.buffer
        /\ w1.x.repeat_type = w.x.repeat_type
    BY <1>0 DEF Works, ExecStates
  <2>3. w1 \in Works(BOOLEAN, o)
    BY WorkExecUpdates DEF SequencerPhases
  <2> HIDE DEF w1
  <2> DEFINE u == Running(w1.x, NoEntry)
  <2>4. /\ u.stage = "CORE_OP" /\ u.at = NoEntry /\ u.repeating = w.x.repeat_type
        /\ ~u.inst.restart /\ ~u.inst.illegal /\ u.inst.before = NoEntry
    BY <1>0, <1>5, <2>2 DEF Running, SeenInst, Canonical
  <2>5. Promised(v, u)
    BY <1>2, <1>5, <2>4 DEF Promised, Begins, Enters
  <2> QED
    BY <2>1, <2>2, <2>3, <2>5, CoreOpTracked
<1> QED
  BY <1>1, <1>3, <1>4, <1>5

\* The phases that begin an instruction.
LEMMA EvaluatingTracked ==
  ASSUME NEW o \in BOOLEAN, NEW w \in Works(BOOLEAN, o), NEW v, NEW a \in Int, Taken(v, w.x)
  PROVE  Evaluated(v, CoreOp(EvalControl(w, a)).x)
<1>1. CASE w.x.seq = "EVAL_CONTROL"
  BY <1>1, EvalControlTracked DEF Taken
<1>2. CASE w.x.seq = "CORE_OP"
  <2>1. EvalControl(w, a) = w
    BY <1>2 DEF EvalControl
  <2> QED
    BY <1>2, <2>1, CoreOpTracked DEF Taken
<1>3. CASE w.x.seq \notin {"EVAL_CONTROL", "CORE_OP"}
  <2>1. CoreOp(EvalControl(w, a)) = w
    BY <1>3 DEF CoreOp, EvalControl
  <2> QED
    BY <1>3, <2>1 DEF Taken, Evaluated
<1> QED
  BY <1>1, <1>2, <1>3

\* The phases that load the next entry of a routine.
LEMMA LoadingTracked ==
  ASSUME NEW o \in BOOLEAN, NEW w \in Works(BOOLEAN, o), NEW d \in FreeData, NEW v, Evaluated(v, w.x)
  PROVE  Tracked(v, RepeatOp(RunAfter(RunBefore(w, d), d), d).x)
<1>1. CASE w.x.seq = "RUN_BEFORE"
  <2> DEFINE w1 == RunRoutine(w, d, "CORE_OP")
  <2>1. Tracked(v, w1.x) /\ w1.x.seq \in {"RUN_BEFORE", "CORE_OP"}
    BY <1>1, RoutineTracked DEF Evaluated, Routines, SequencerPhases
  <2>2. RunBefore(w, d) = w1
    BY <1>1 DEF RunBefore
  <2> HIDE DEF w1
  <2>3. RepeatOp(RunAfter(w1, d), d) = w1
    BY <2>1 DEF RunAfter, RepeatOp
  <2> QED
    BY <2>1, <2>2, <2>3
<1>2. CASE w.x.seq = "RUN_AFTER"
  <2> DEFINE w1 == RunRoutine(w, d, "FINAL_STEPS")
  <2>1. Tracked(v, w1.x) /\ w1.x.seq \in {"RUN_AFTER", "FINAL_STEPS"}
    BY <1>2, RoutineTracked DEF Evaluated, Routines, SequencerPhases
  <2>2. RunAfter(RunBefore(w, d), d) = w1
    BY <1>2 DEF RunBefore, RunAfter
  <2> HIDE DEF w1
  <2>3. RepeatOp(w1, d) = w1
    BY <2>1 DEF RepeatOp
  <2> QED
    BY <2>1, <2>2, <2>3
<1>3. CASE w.x.seq = "REPEAT_OP"
  <2>1. Tracked(v, RunRoutine(w, d, "REPEAT_OP_BRANCH").x)
    BY <1>3, RoutineTracked DEF Evaluated, Routines, SequencerPhases
  <2>2. RepeatOp(RunAfter(RunBefore(w, d), d), d) = RunRoutine(w, d, "REPEAT_OP_BRANCH")
    BY <1>3 DEF RunBefore, RunAfter, RepeatOp
  <2> QED
    BY <2>1, <2>2
<1>4. CASE w.x.seq \notin {"RUN_BEFORE", "RUN_AFTER", "REPEAT_OP"}
  <2>1. RepeatOp(RunAfter(RunBefore(w, d), d), d) = w
    BY <1>4 DEF RunBefore, RunAfter, RepeatOp
  <2> QED
    BY <1>4, <2>1 DEF Evaluated
<1> QED
  BY <1>1, <1>2, <1>3, <1>4

\* Being at the same point after the same step.
LEMMA SameStep ==
  ASSUME NEW v, NEW x, NEW y, SameRun(x, y), Tracked(v, x) PROVE Tracked(v, y)
  BY SameTracked DEF Tracked

\* Changing what the next call resumes with.
LEMMA PhaseSame ==
  ASSUME NEW x \in ExecStates(BOOLEAN), NEW p PROVE SameRun(x, [x EXCEPT !.phase = p])
  BY DEF SameRun, ExecStates

\* A call that advances the sequencer takes a step of the promise, or none.
LEMMA AdvancedTracked ==
  ASSUME NEW o \in BOOLEAN, NEW w \in Works(BOOLEAN, o), NEW d \in FreeData, NEW a \in Int,
         NEW inst \in InstructionRecords(BOOLEAN), StraightInst(inst), OnTrack(w.x)
  PROVE  Tracked(Seen(w.x), Advanced(w, inst, d, a).x)
<1> DEFINE v == Seen(w.x)
           finished == FinalSteps(RepeatOpBranch(CoreOpExecuted(w), d))
           taken == WaitCachedIns(PushPgc(WaitNextIns(finished, inst), d), inst)
           evaluated == CoreOp(EvalControl(taken, a))
           loaded == RepeatOp(RunAfter(RunBefore(evaluated, d), d), d)
           ready == [loaded EXCEPT !.x.phase = "HALF1_READY"]
<1>1. finished \in Works(BOOLEAN, o) /\ Ended(v, finished.x)
  BY EndingTypes, EndingTracked
<1> HIDE DEF finished
<1>2. taken \in Works(BOOLEAN, o) /\ Taken(v, taken.x)
  <2>1. taken \in Works(BOOLEAN, o)
    BY <1>1, TakingTypes
  <2> QED
    BY <1>1, <2>1, TakingTracked
<1> HIDE DEF taken
<1>3. evaluated \in Works(BOOLEAN, o) /\ Evaluated(v, evaluated.x)
  <2>1. evaluated \in Works(BOOLEAN, o)
    BY <1>2, EvaluatingTypes
  <2> QED
    BY <1>2, <2>1, EvaluatingTracked
<1> HIDE DEF evaluated
<1>4. loaded \in Works(BOOLEAN, o) /\ Tracked(v, loaded.x)
  <2>1. loaded \in Works(BOOLEAN, o)
    BY <1>3, LoadingTypes
  <2> QED
    BY <1>3, <2>1, LoadingTracked
<1> HIDE DEF loaded
<1>5. SameRun(loaded.x, ready.x)
  <2>1. ready.x = [loaded.x EXCEPT !.phase = "HALF1_READY"] /\ loaded.x \in ExecStates(BOOLEAN)
    BY <1>4, WorkFields DEF Works
  <2> QED
    BY <2>1, PhaseSame
<1>6. Advanced(w, inst, d, a) = ready
  BY DEF Advanced, loaded, evaluated, taken, finished
<1> HIDE DEF v, ready
<1>7. Tracked(v, ready.x)
  BY <1>4, <1>5, SameStep
<1> QED
  BY <1>6, <1>7 DEF v

-----------------------------------------------------------------------------
\* What the promise sees of an instruction that differs in one field.
LEMMA MarkedInst ==
  ASSUME NEW i, NEW j, NEW mark, j.before = i.before, j.after = i.after, j.repeat = i.repeat,
         j.restart = i.restart, j.illegal = mark
  PROVE  SeenInst(j) = [SeenInst(i) EXCEPT !.illegal = mark]
  BY DEF SeenInst

\* Latching the operands may find the instruction to be illegal.
LEMMA LatchedTracked ==
  ASSUME exec \in ExecStates(BOOLEAN), OnTrack(exec)
  PROVE  Tracked(Seen(exec), OperandsLatched)
<1>1. CASE exec.phase = "HALF1_MEM_ASSERT" \/ ~InvalidIndex(exec)
  <2> DEFINE waiting == exec.waiting /\ ~data_valid
             asked == IF data_valid THEN 0 ELSE exec.asked
             seq == IF InvalidIndex(exec) THEN "EVAL_CONTROL" ELSE exec.seq
             ill == exec.inst.illegal \/ InvalidIndex(exec)
             x == [exec EXCEPT !.waiting = waiting, !.asked = asked, !.seq = seq, !.inst.illegal = ill]
  <2>0. exec.inst.illegal \in BOOLEAN
    BY ExecFields, InstructionFields
  <2>1. OperandsLatched = IF exec.phase = "HALF1_MEM_ASSERT" THEN exec ELSE x
    BY DEF OperandsLatched
  <2>2. exec.phase # "HALF1_MEM_ASSERT" => SameRun(exec, x)
    <3> SUFFICES ASSUME exec.phase # "HALF1_MEM_ASSERT", ~InvalidIndex(exec) PROVE SameRun(exec, x)
      BY <1>1
    <3>1. seq = exec.seq /\ ill = exec.inst.illegal
      BY <2>0
    <3> HIDE DEF waiting, asked, seq, ill
    <3> QED
      BY <3>1 DEF SameRun, ExecStates, InstructionRecords
  <2>3. SameRun(exec, exec) /\ Tracked(Seen(exec), exec)
    BY DEF SameRun, Tracked, Promised
  <2> HIDE DEF x
  <2> QED
    BY <2>1, <2>2, <2>3, SameStep
<1>2. CASE exec.phase # "HALF1_MEM_ASSERT" /\ InvalidIndex(exec)
  <2> DEFINE waiting == exec.waiting /\ ~data_valid
             asked == IF data_valid THEN 0 ELSE exec.asked
             x == [exec EXCEPT !.waiting = waiting, !.asked = asked, !.seq = "EVAL_CONTROL",
                               !.inst.illegal = TRUE]
  <2>1. OperandsLatched = x
    BY <1>2 DEF OperandsLatched
  <2> HIDE DEF waiting, asked
  <2>2. ~exec.buffer.branch
    BY <1>2 DEF OnTrack, NoIndex, InvalidIndex, Control
  <2>3. /\ x.seq = "EVAL_CONTROL" /\ x.buffer = exec.buffer /\ x.doing = exec.doing
        /\ x.repeat_type = exec.repeat_type /\ x.inst = [exec.inst EXCEPT !.illegal = TRUE]
    BY DEF ExecStates
  <2>4. /\ x.inst.before = exec.inst.before /\ x.inst.after = exec.inst.after /\ x.inst.illegal
        /\ SeenInst(x.inst) = [SeenInst(exec.inst) EXCEPT !.illegal = TRUE]
    <3>1. exec.inst \in InstructionRecords(BOOLEAN)
      BY ExecFields
    <3>2. /\ x.inst.before = exec.inst.before /\ x.inst.after = exec.inst.after /\ x.inst.illegal = TRUE
          /\ x.inst.repeat = exec.inst.repeat /\ x.inst.restart = exec.inst.restart
      BY <2>3, <3>1 DEF InstructionRecords
    <3> DEFINE mark == TRUE
    <3>3. x.inst.illegal = mark
      BY <3>2
    <3> HIDE DEF x, mark
    <3>4. SeenInst(x.inst) = [SeenInst(exec.inst) EXCEPT !.illegal = mark]
      BY <3>2, <3>3, MarkedInst
    <3> QED
      BY <3>2, <3>4 DEF mark
  <2> HIDE DEF x
  <2>5. Promised(Seen(exec), Seen(x))
    BY <2>3, <2>4 DEF Promised, Seen, Enters
  <2>6. OnTrack(x)
    BY <2>2, <2>3, <2>4 DEF OnTrack, StraightInst, AtPhase
  <2> QED
    BY <2>1, <2>5, <2>6 DEF Tracked
<1> QED
  BY <1>1, <1>2

\* A first half.
LEMMA Half1Tracked ==
  ASSUME exec \in ExecStates(BOOLEAN), OnTrack(exec), ExecHalf1
  PROVE  Tracked(Seen(exec), exec')
<1>1. OperandsLatched \in ExecStates(BOOLEAN)
  BY OperandsLatchedType
<1>2. Tracked(Seen(exec), OperandsLatched)
  BY LatchedTracked
<1>3. Tracked(Seen(exec), exec)
  BY DEF Tracked, Promised
<1>4. CASE ExecWaits
  BY <1>3, <1>4, PhaseSame, SameStep DEF ExecWaits
<1>5. CASE ExecLatches \/ ExecHeld
  BY <1>1, <1>2, <1>5, PhaseSame, SameStep DEF ExecLatches, ExecHeld
<1>6. CASE ExecAsserts
  <2>1. PICK a \in DataAddrs : exec' = [Asserted(OperandsLatched, a) EXCEPT !.phase = "HALF2_READY"]
    BY <1>6 DEF ExecAsserts
  <2>2. Asserted(OperandsLatched, a) \in ExecStates(BOOLEAN)
    BY <1>1, AssertedType
  <2>3. Tracked(Seen(exec), Asserted(OperandsLatched, a))
    BY <1>1, <1>2, AssertedSame, SameStep
  <2> QED
    BY <2>1, <2>2, <2>3, PhaseSame, SameStep
<1>7. CASE ExecSkipsHalf1
  BY <1>3, <1>7 DEF ExecSkipsHalf1
<1> QED
  BY <1>4, <1>5, <1>6, <1>7 DEF ExecHalf1

\* The result of the ALU leaves the unit where it is.
LEMMA ResultTracked ==
  ASSUME UnitTyped(BOOLEAN), OnTrack(exec), NEW d \in FreeData, NEW a \in Int
  PROVE  /\ Result(d, a) \in Works(BOOLEAN, decoded_inst_semaph)
         /\ Seen(Result(d, a).x) = Seen(exec) /\ OnTrack(Result(d, a).x)
<1>1. Result(d, a) \in Works(BOOLEAN, decoded_inst_semaph) /\ decoded_inst_semaph \in BOOLEAN
  BY ResultType DEF UnitTyped
<1>2. Started \in Works(BOOLEAN, decoded_inst_semaph) /\ Started.x = exec
  BY DEF Started, Works, UnitTyped
<1> HIDE DEF Started
<1>3. SameRun(exec, ResultLatched(Started, d, a).x)
  BY <1>1, <1>2, ResultSame
<1>4. SameRun(exec, exec)
  BY DEF SameRun
<1>5. SameRun(exec, Result(d, a).x)
  BY <1>2, <1>3, <1>4 DEF Result
<1> QED
  BY <1>1, <1>5, SameTracked

\* A second half.
LEMMA Half2Tracked ==
  ASSUME UnitTyped(BOOLEAN), OnTrack(exec), NEW inst \in InstructionRecords(BOOLEAN), StraightInst(inst),
         ExecHalf2(inst)
  PROVE  Tracked(Seen(exec), exec')
<1>1. CASE ExecSkipsHalf2
  BY <1>1 DEF ExecSkipsHalf2, Tracked, Promised
<1>2. ASSUME NEW d \in RelevantData, NEW a \in PgcResults(exec) \cup (IF inst.restart THEN inst.targets ELSE {}),
             ExecAdvances(inst, d, a) \/ ExecAccesses(inst, d, a) \/ ExecBlocked(d, a)
      PROVE  Tracked(Seen(exec), exec')
  <2>1. d \in FreeData /\ a \in Int /\ decoded_inst_semaph \in BOOLEAN
    BY PgcResultsType, InstructionFields DEF RelevantData, UnitTyped
  <2>2. /\ Result(d, a) \in Works(BOOLEAN, decoded_inst_semaph)
        /\ Seen(Result(d, a).x) = Seen(exec) /\ OnTrack(Result(d, a).x)
    BY <2>1, ResultTracked
  <2>3. Result(d, a).x \in ExecStates(BOOLEAN)
    BY <2>1, <2>2, WorkFields
  <2>4. ASSUME NEW w \in Works(BOOLEAN, decoded_inst_semaph), Seen(w.x) = Seen(exec), OnTrack(w.x),
               Completes(w, inst, d, a)
        PROVE  Tracked(Seen(exec), exec')
    BY <2>1, <2>4, AdvancedTracked DEF Completes, Effects
  <2>5. CASE ExecAdvances(inst, d, a)
    BY <2>2, <2>4, <2>5 DEF ExecAdvances
  <2>6. CASE ExecAccesses(inst, d, a)
    <3>1. PICK m \in DataAddrs : Completes([Result(d, a) EXCEPT !.x = Asserted(@, m)], inst, d, a)
      BY <2>6 DEF ExecAccesses
    <3> DEFINE x == Asserted(Result(d, a).x, m)
               w == [Result(d, a) EXCEPT !.x = x]
    <3>2. x \in ExecStates(BOOLEAN) /\ Seen(x) = Seen(exec) /\ OnTrack(x)
      BY <2>2, <2>3, AssertedType, AssertedSame, SameTracked
    <3> HIDE DEF x
    <3>3. w \in Works(BOOLEAN, decoded_inst_semaph) /\ w.x = x
      BY <2>1, <2>2, <3>2, WorkUpdates DEF Works
    <3>4. Completes(w, inst, d, a)
      BY <3>1 DEF x
    <3> HIDE DEF w
    <3> QED
      BY <2>4, <3>2, <3>3, <3>4
  <2>7. CASE ExecBlocked(d, a)
    <3> DEFINE x == [Result(d, a).x EXCEPT !.phase = "HALF2_MEM_ASSERT"]
    <3>1. exec' = x
      BY <2>2, <2>7 DEF ExecBlocked, Effects, Works
    <3>2. SameRun(Result(d, a).x, x)
      BY <2>3, PhaseSame
    <3>3. Tracked(Seen(exec), Result(d, a).x)
      BY <2>2 DEF Tracked, Promised
    <3> HIDE DEF x
    <3> QED
      BY <3>1, <3>2, <3>3, SameStep
  <2> QED
    BY <1>2, <2>5, <2>6, <2>7
<1> QED
  BY <1>1, <1>2 DEF ExecHalf2

-----------------------------------------------------------------------------
\* No conditional JR, no DJNZ and no MUL.
StraightInstructions == \A i \in Instructions : StraightInst(i)

\* What holds between two calls.
RunInv == UnitInv /\ OnTrack(exec) /\ StraightInst(offer)

\* Initially no instruction is in progress.
LEMMA RunInit ==
  ASSUME Init PROVE OnTrack(exec) /\ StraightInst(offer) /\ Promise!Init
<1>1. /\ exec.seq = "WAIT_NEXT_INS" /\ exec.doing = Nothing /\ exec.repeat_type = "MU_NONE"
      /\ exec.buffer = Base([NoEntry EXCEPT !.size = 8])
      /\ exec.inst = Instruction(0, NowhereYet, Blank, 0, {}, FALSE) /\ offer = exec.inst
  BY DEF Init, ExecuteInit
<1>2. exec.inst.before = Blank.before /\ exec.inst.after = Blank.after /\ exec.inst.repeat = Blank.repeat
  BY <1>1 DEF Instruction
<1>3. Blank.before = NoEntry /\ Blank.after = NoEntry /\ Blank.repeat = "MU_NONE"
  BY DEF Blank
<1>4. StraightInst(exec.inst)
  BY <1>2, <1>3 DEF StraightInst, Straight, Looping, NoEntry
<1>5. ~exec.buffer.branch
  BY <1>1, BaseGoesOn, NoEntryType, SpecUpdates DEF GoesOn
<1>6. exec.doing.stage = "DONE" /\ Canonical(exec.doing.at) = NoEntry
  BY <1>1 DEF Nothing, Canonical
<1>7. Idles(Seen(exec))
  BY <1>6 DEF Idles, Seen
<1> QED
  BY <1>1, <1>2, <1>3, <1>4, <1>5, <1>6, <1>7 DEF OnTrack, AtPhase, Promise!Init, Promise!NoRepeat

\* Every step is one of the promise, or leaves what it is about alone.
LEMMA RunStep ==
  ASSUME StraightInstructions, RunInv, [Next]_vars
  PROVE  Tracked(Seen(exec), exec') /\ StraightInst(offer)'
<1>1. exec \in ExecStates(BOOLEAN) /\ UnitTyped(BOOLEAN) /\ OnTrack(exec) /\ StraightInst(offer)
      /\ offer \in InstructionRecords(BOOLEAN)
  BY DEF RunInv, UnitInv, UnitTyped
<1>2. Tracked(Seen(exec), exec)
  BY <1>1 DEF Tracked, Promised
<1>3. CASE UNCHANGED <<exec, offer>>
  BY <1>1, <1>2, <1>3
<1>4. CASE RunExecuteHalf1
  BY <1>1, <1>4, Half1Tracked DEF RunExecuteHalf1
<1>5. CASE RunExecuteHalf2
  BY <1>1, <1>5, Half2Tracked DEF RunExecuteHalf2
<1>6. CASE DecodeOffers
  BY <1>2, <1>6 DEF DecodeOffers, Offered, StraightInstructions
<1> QED
  BY <1>3, <1>4, <1>5, <1>6
  DEF Next, RunFetchHalf1, RunFetchHalf2, RunDecodeHalf1, DecodeWorks, EndHalf1, EndCycle, vars

\* The sequencer keeps what types.h:350-358 says of an instruction, in any order of the
\* calls and with any waits for the bus: the routine before, the core operation once, the
\* routine after, the repeats, entry by entry and with nothing in between - as long as no
\* instruction leaves a branch behind in the buffer.
THEOREM MicroprogramsRun == ASSUME StraightInstructions PROVE Spec => RunsMicroprograms
<1>1. Init => OnTrack(exec) /\ StraightInst(offer) /\ Promise!Init
  BY RunInit
<1>2. UnitInv /\ OnTrack(exec) /\ StraightInst(offer) /\ [Next]_vars
        => OnTrack(exec)' /\ StraightInst(offer)'
  BY RunStep DEF RunInv, Tracked
<1>3. UnitInv /\ OnTrack(exec) /\ StraightInst(offer) /\ [Next]_vars
        => \/ Promise!Next
           \/ UNCHANGED <<SeenInst(exec.inst), exec.doing.stage, Canonical(exec.doing.at), exec.repeat_type>>
  BY RunStep, PromisedSteps DEF RunInv, Tracked
<1> QED
  BY <1>1, <1>2, <1>3, UnitInvariant, PTL DEF Spec, RunsMicroprograms, Promise!Spec, SeenInst
==================================================================================
