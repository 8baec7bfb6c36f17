------------------------------ MODULE PilotProofs ------------------------------
(***************************************************************************)
(* The execute unit keeps to its port, in every program: the processor     *)
(* implements the front end with an execute unit that may do anything its  *)
(* port allows.  What is proved of that front end holds of the processor.  *)
(* A program without branches is executed as the instruction set says.     *)
(***************************************************************************)
EXTENDS StraightProofs

FE == INSTANCE DecodeProofs WITH
  ExecAddr <- DataAddrs, BranchTargets <- WordAddrs, MayHalt <- TRUE, executing <- ~Waiting

\* The assumptions on the constants are those of the front end.
LEMMA PortAssumptions ==
  /\ Kinds \subseteq FE!DecodedKind
  /\ DataAddrs \subseteq 0..(IntSpace - 1)
  /\ WordAddrs \subseteq {a \in FE!Addr : a % 2 = 0}
  /\ StartAddrs \subseteq {a \in FE!Addr : a % 2 = 0}
  /\ Before1 \subseteq FE!Units \X FE!Units /\ Before2 \subseteq FE!Units \X FE!Units
  /\ TRUE \in BOOLEAN
  BY DecodeAssumption, PilotAssumption, ClockAssumption
  DEF FE!DecodedKind, DecodedKind, WordAddrs, Addr, FE!Addr, Units, FE!Units

-----------------------------------------------------------------------------
\* Words of the program.
LEMMA ProgramWords ==
  ASSUME program \in Programs, NEW a \in WordAddrs
  PROVE  /\ KindOf(program[a]) \in Kinds
         /\ program[a].op \in Opcode /\ program[a].targets \subseteq Nat
         /\ WellFormed(program[a].decoded)
<1> DEFINE w == program[a]
<1>1. /\ w = ProgramWord(w.op, w.arg, w.targets) /\ w.op \in Opcode /\ w.targets \subseteq Nat
      /\ KindOf(w) \in Kinds
  BY PilotAssumption
<1>2. w.decoded = Decoded(w.op)
  BY <1>1 DEF ProgramWord
<1>3. WellFormed(Decoded(w.op))
  BY <1>1, DecodedType
<1> QED
  BY <1>1, <1>2, <1>3

\* The instruction that a dispatch offers is one of the program.
Dispatchable(d) ==
  /\ d.words # <<>> => d.words[1] \in WordAddrs
  /\ d.inst_pgc \in EvenAddrs

\* The instruction offered with a dispatch is typed.
LEMMA OfferTyped ==
  ASSUME program \in Programs, offer \in InstructionRecords({FALSE}), NEW d, Dispatchable(d)
  PROVE  OfferedInstruction(d) \in InstructionRecords({FALSE})
<1> SUFFICES ASSUME d.words # <<>> PROVE OfferedInstruction(d) \in InstructionRecords({FALSE})
  BY DEF OfferedInstruction
<1> DEFINE a == d.words[1]
           w == program[a]
<1>1. a \in WordAddrs /\ a \in Addr /\ d.inst_pgc \in EvenAddrs
  BY DEF Dispatchable, WordAddrs
<1>2. w.op \in Opcode /\ w.targets \subseteq Nat /\ WellFormed(w.decoded)
  BY <1>1, ProgramWords
<1>3. OfferedInstruction(d) = Instruction(w.op, a, w.decoded, d.inst_pgc, w.targets, FALSE)
  BY DEF OfferedInstruction
<1> HIDE DEF a, w
<1>4. Instruction(w.op, a, w.decoded, d.inst_pgc, w.targets, FALSE) \in InstructionRecords({FALSE})
  BY <1>1, <1>2 DEF Instruction, InstructionRecords, WellFormed
<1> QED
  BY <1>3, <1>4

-----------------------------------------------------------------------------
(***************************************************************************)
(* The inductive invariant: that of the front end, for which the execute   *)
(* unit is an environment, and the types of what passes between the two.   *)
(***************************************************************************)
UnitInv ==
  /\ UnitTyped({FALSE}) /\ Announced
  /\ exec.phase = "START" => exec.seq = "WAIT_NEXT_INS"
OfferInv ==
  /\ program \in Programs /\ offer \in InstructionRecords({FALSE})
  /\ imm_words \in Seq(Addr) /\ (imm_words # <<>> => imm_words[1] \in WordAddrs)
  /\ Dispatchable(decoded_inst)
  /\ {pgc, inst_pgc} \subseteq EvenAddrs
FrontInv == FE!TypeOK /\ FE!ReadInv /\ FE!WordsAligned

\* What the invariant of the front end says of the word that the decoder reads.
LEMMA WordsEven ==
  ASSUME FrontInv PROVE fetch_word \in WordAddrs /\ fetch_addr \in EvenAddrs
  BY DEF FrontInv, FE!TypeOK, FE!WordsAligned, FE!Even, FE!Addr, WordAddrs, EvenAddrs, Addr

\* The invariant holds initially.
LEMMA OfferInit == Init => OfferInv /\ UnitInv
<1> SUFFICES ASSUME Init PROVE OfferInv /\ UnitInv
  OBVIOUS
<1>1. exec \in ExecStates({FALSE}) /\ exec.phase = "START" /\ exec.seq = "WAIT_NEXT_INS"
  BY InitTyped DEF Init
<1>2. offer \in InstructionRecords({FALSE})
  BY <1>1, ExecFields DEF Init
<1>3. 0 \in EvenAddrs
  BY AddrAssumption DEF EvenAddrs, Addr
<1>4. UnitInv
  BY <1>1 DEF Init, InterconnectInit, UnitInv, UnitTyped, Announced, FirstHalfPhases
<1>5. OfferInv
  BY <1>2, <1>3 DEF Init, DecodeInit, OfferInv, Dispatchable
<1> QED
  BY <1>4, <1>5

\* The first half of the decode unit reads words of the program, at even addresses.
LEMMA OfferDecodeHalf1 ==
  ASSUME FrontInv, OfferInv, RunDecodeHalf1 PROVE OfferInv'
<1>1. UNCHANGED <<program, offer, decoded_inst, inst_pgc>>
  BY DEF RunDecodeHalf1, DecodeInstWord, DecodeNoWord, DecodeSkipHalf1, decodevars
<1>2. CASE UNCHANGED <<imm_words, pgc>>
  BY <1>1, <1>2 DEF OfferInv, Dispatchable, WordAddrs
<1>3. CASE DecodesWord
  <2>1. imm_words' = <<fetch_word>> /\ pgc' = fetch_addr
    BY <1>3 DEF RunDecodeHalf1, DecodeInstWord
  <2>2. fetch_word \in Addr
    BY WordsEven DEF WordAddrs
  <2> QED
    BY <1>1, <2>1, <2>2, WordsEven DEF OfferInv, Dispatchable, WordAddrs
<1>4. CASE DecodeNoWord
  <2>1. (imm_words' = imm_words \/ imm_words' = <<>>) /\ pgc' = fetch_addr
    BY <1>4 DEF DecodeNoWord
  <2>2. imm_words' \in Seq(Addr) /\ (imm_words' # <<>> => imm_words'[1] \in WordAddrs)
    <3>1. << >> \in Seq(Addr)
      OBVIOUS
    <3> QED
      BY <2>1, <3>1 DEF OfferInv
  <2> QED
    BY <1>1, <2>1, <2>2, WordsEven DEF OfferInv, Dispatchable, WordAddrs
<1> QED
  BY <1>2, <1>3, <1>4 DEF RunDecodeHalf1, DecodeSkipHalf1, decodevars

\* So do its operand words.
LEMMA WordsReadType ==
  ASSUME FrontInv, OfferInv
  PROVE  WordsRead \in Seq(Addr) /\ (WordsRead # <<>> => WordsRead[1] \in WordAddrs)
<1>1. fetch_word \in Addr
  BY WordsEven DEF WordAddrs
<1>2. Append(imm_words, fetch_word) \in Seq(Addr)
  BY <1>1 DEF OfferInv
<1>3. Append(imm_words, fetch_word)[1] \in WordAddrs
  BY <1>1, WordsEven DEF OfferInv
<1> QED
  BY <1>2, <1>3 DEF WordsRead, OfferInv

\* The second half dispatches an instruction of the program.
LEMMA OfferDecodeHalf2 ==
  ASSUME FrontInv, OfferInv, RunDecodeHalf2 PROVE OfferInv'
<1>1. UNCHANGED <<program, pgc>> /\ offer' = OfferedInstruction(decoded_inst')
  BY DEF RunDecodeHalf2, DecodeHalf2, DecodeReadOperands, DecodeDispatch, DecodeSkipHalf2, decodevars
<1>2. Dispatchable(decoded_inst')
  BY WordsReadType
  DEF RunDecodeHalf2, DecodeHalf2, DecodeReadOperands, DecodeDispatch, DecodeSkipHalf2, decodevars,
      Dispatchable, DispatchedPgc, OfferInv
<1>3. offer' \in InstructionRecords({FALSE})
  BY <1>1, <1>2, OfferTyped DEF OfferInv
<1>4. imm_words' \in Seq(Addr) /\ (imm_words' # <<>> => imm_words'[1] \in WordAddrs) /\ inst_pgc' \in EvenAddrs
  BY WordsReadType
  DEF RunDecodeHalf2, DecodeHalf2, DecodeReadOperands, DecodeDispatch, DecodeSkipHalf2, decodevars,
      DispatchedPgc, OfferInv
<1> QED
  BY <1>1, <1>2, <1>3, <1>4 DEF OfferInv, Dispatchable, WordAddrs

\* The other units leave it alone.
LEMMA OfferOthers ==
  ASSUME OfferInv, UNCHANGED <<program, offer, decodevars>> PROVE OfferInv'
  BY DEF OfferInv, Dispatchable, decodevars, WordAddrs

\* The other units leave the execute unit alone.
LEMMA UnitOthers ==
  ASSUME UnitInv, FE!TypeOK', UNCHANGED <<exec, execute_memory_backoff>> PROVE UnitInv'
  BY DEF UnitInv, UnitTyped, Announced, FE!TypeOK

\* First halves of the execute unit keep its types.
LEMMA UnitHalf1 ==
  ASSUME UnitInv, ExecHalf1 PROVE UnitInv'
<1>1. exec' \in ExecStates({FALSE}) /\ Announced'
  BY Half1Typed, Half1Announced DEF UnitInv, UnitTyped
<1>2. exec' = exec \/ exec'.phase # "START"
  <2>1. {"HALF1_MEM_WAIT", "HALF2_READY", "HALF1_MEM_ASSERT"} \subseteq Phases /\ {FALSE} \subseteq BOOLEAN
    BY DEF Phases
  <2>2. exec \in ExecStates({FALSE}) /\ OperandsLatched \in ExecStates({FALSE})
    BY <2>1, OperandsLatchedType DEF UnitInv, UnitTyped
  <2>3. \A a \in DataAddrs : Asserted(OperandsLatched, a) \in ExecStates({FALSE})
    BY <2>2, AssertedType
  <2> QED
    BY <2>2, <2>3 DEF ExecHalf1, ExecWaits, ExecLatches, ExecAsserts, ExecHeld, ExecSkipsHalf1, ExecStates
<1> QED
  BY <1>1, <1>2 DEF ExecHalf1, icvars, UnitInv, UnitTyped

\* Second halves of the execute unit keep its types.
LEMMA UnitHalf2 ==
  ASSUME UnitInv, OfferInv, ExecHalf2(offer) PROVE UnitInv'
<1>1. UnitTyped({FALSE})' /\ Announced'
  BY Half2Typed DEF UnitInv, OfferInv
<1>2. exec' = exec \/ exec'.phase # "START"
  BY Half2Ends DEF UnitInv, OfferInv, ExecSkipsHalf2, CallEnds, Stores, Accesses, Stalls
<1> QED
  BY <1>1, <1>2 DEF UnitInv

-----------------------------------------------------------------------------
(***************************************************************************)
(* The port.  A unit that is told to wait does nothing, or takes what it   *)
(* is offered; one that has an instruction stays inside ExecuteSteps.      *)
(***************************************************************************)
LEMMA EvenAddrsAreWords == EvenAddrs = WordAddrs
  BY DEF EvenAddrs, WordAddrs

\* An access of the sequencer is one that the port allows.
LEMMA PortAccess ==
  ASSUME exec \in ExecStates({FALSE}), NEW a \in DataAddrs, BusAccess(Control(exec), a)
  PROVE  FE!ExecuteAccess
<1>1. Control(exec).wide \in BOOLEAN
  BY ControlType DEF ControlWords
<1> QED
  BY <1>1
  DEF BusAccess, FE!ExecuteAccess, AddrReadAssert, AddrWriteAssert, FE!AddrReadAssert,
      FE!AddrWriteAssert, BusReady, FE!BusReady

\* A call that stays within a first half leaves what there is to execute.
LEMMA PortHalf1 ==
  ASSUME UnitInv, RunExecuteHalf1 PROVE FE!RunExecuteHalf1
<1>0. {"HALF1_MEM_WAIT", "HALF2_READY", "HALF1_MEM_ASSERT"} \subseteq Phases /\ {FALSE} \subseteq BOOLEAN
  BY DEF Phases
<1>1. exec \in ExecStates({FALSE}) /\ ExecHalf1
  BY DEF UnitInv, UnitTyped, RunExecuteHalf1
<1>2. /\ OperandsLatched \in ExecStates({FALSE}) /\ Control(OperandsLatched) = Control(exec)
      /\ OperandsLatched.seq = exec.seq
  <2>1. TRUE \notin {FALSE}
    OBVIOUS
  <2> QED
    BY <1>0, <1>1, <2>1, OperandsLatchedType
<1>3. CASE ExecAsserts
  <2>1. FE!ExecuteAccess
    BY <1>1, <1>3, PortAccess DEF ExecAsserts
  <2>2. ~disable_clk /\ ~Waiting
    BY <1>3 DEF ExecAsserts, InFirstHalf, AccessesInHalf, Waiting, Spent, Announces
  <2>3. FE!ExecuteHalf1
    BY <1>1, <2>1, <2>2
    DEF FE!ExecuteHalf1, RunExecuteHalf1, ExecHalf1, icvars, FE!icvars, fetchvars, FE!fetchvars,
        decodevars, FE!decodevars
  <2> QED
    BY <2>3 DEF FE!RunExecuteHalf1, RunExecuteHalf1, Call, FE!Call, Units, FE!Units, Before, FE!Before
<1>4. CASE ExecWaits \/ ExecLatches \/ ExecHeld \/ ExecSkipsHalf1
  <2>1. ASSUME ExecWaits \/ ExecLatches \/ ExecHeld
        PROVE  UNCHANGED mcvars /\ Waiting' = Waiting
    <3>1. PICK x \in {exec, OperandsLatched}, p \in {"HALF1_MEM_WAIT", "HALF2_READY", "HALF1_MEM_ASSERT"} :
            exec' = [x EXCEPT !.phase = p]
      BY <2>1 DEF ExecWaits, ExecLatches, ExecHeld
    <3>2. x \in ExecStates({FALSE}) /\ p \in Phases /\ Control(x) = Control(exec) /\ x.seq = exec.seq
      BY <1>0, <1>1, <1>2
    <3>3. exec'.phase = p /\ exec'.seq = exec.seq /\ Control(exec') = Control(exec)
      BY <3>1, <3>2, PhaseFacts
    <3>4. exec.phase # "START" /\ UNCHANGED mcvars
      BY <2>1 DEF ExecWaits, ExecLatches, ExecHeld, InFirstHalf
    <3> QED
      BY <3>3, <3>4 DEF Waiting, Spent
  <2>2. UNCHANGED mcvars /\ Waiting' = Waiting
    BY <1>4, <2>1 DEF ExecSkipsHalf1, Waiting, Spent
  <2>3. FE!ExecuteHalf1
    BY <1>1, <2>2
    DEF FE!ExecuteHalf1, RunExecuteHalf1, ExecHalf1, icvars, FE!icvars, fetchvars, FE!fetchvars,
        decodevars, FE!decodevars, mcvars, FE!mcvars
  <2> QED
    BY <2>3 DEF FE!RunExecuteHalf1, RunExecuteHalf1, Call, FE!Call, Units, FE!Units, Before, FE!Before
<1> QED
  BY <1>1, <1>3, <1>4 DEF ExecHalf1

\* In a second half a waiting unit has nothing to access.
LEMMA WaitingAccessesNothing ==
  ASSUME UnitInv, OfferInv, Waiting, InSecondHalf, ExecHalf2(offer)
  PROVE  \E d \in RelevantData : \E a \in Int :
           Completes(Result(d, a), offer, d, a) /\ UNCHANGED mcvars /\ Result(d, a) = Started
<1>1. exec.phase # "START" => ~AccessesInHalf(Control(exec), 2) /\ ~Control(exec).alu
  BY DEF Waiting, Spent, AccessesInHalf, Announces
<1>2. PICK d \in RelevantData, a \in PgcResults(exec) \cup (IF offer.restart THEN offer.targets ELSE {}) :
        ExecAdvances(offer, d, a)
  BY <1>1 DEF ExecHalf2, ExecAccesses, ExecBlocked, ExecSkipsHalf2
<1>3. a \in Int /\ d \in FreeData
  BY PgcResultsType, InstructionFields DEF RelevantData, UnitInv, UnitTyped, OfferInv
<1>4. Result(d, a) = Started
  <2>1. exec.phase = "START" => Result(d, a) = Started
    BY DEF Result
  <2>2. exec.phase # "START" => Result(d, a) = Started
    BY <1>1, <1>3, ResultFacts DEF UnitInv
  <2> QED
    BY <2>1, <2>2
<1> QED
  BY <1>2, <1>3, <1>4 DEF ExecAdvances

\* A call that waits for an instruction idles, or takes the one offered.
LEMMA PortWaiting ==
  ASSUME UnitInv, OfferInv, Waiting, InSecondHalf, ExecHalf2(offer), UNCHANGED <<fetchvars, decodevars>>
  PROVE  FE!ExecuteIdles \/ FE!ExecuteTakes
<1>1. PICK d \in RelevantData, a \in Int :
        Completes(Result(d, a), offer, d, a) /\ UNCHANGED mcvars /\ Result(d, a) = Started
  BY WaitingAccessesNothing
<1>2. /\ Started \in Works({FALSE}, decoded_inst_semaph) /\ Started.x = exec
      /\ Started.offered = decoded_inst_semaph /\ Started.stops = FALSE /\ Started.target = NoTarget
  BY DEF Started, Works, UnitInv, UnitTyped
<1> HIDE DEF Started
<1>3. /\ d \in FreeData /\ offer \in InstructionRecords({FALSE}) /\ decoded_inst_semaph \in BOOLEAN
      /\ exec.seq = "WAIT_NEXT_INS" /\ ~disable_clk /\ disable_clk \in BOOLEAN
  BY DEF RelevantData, OfferInv, UnitInv, UnitTyped, Waiting, InSecondHalf
<1> DEFINE w == Advanced(Started, offer, d, a)
<1>4. Effects(w) /\ execute_memory_backoff' = Announces(Control(exec')) /\ UNCHANGED UnwrittenByExecute
  BY <1>1 DEF Completes
<1>5. CASE decoded_inst_semaph
  <2>1. ~w.offered /\ w.stops = FALSE
    BY <1>2, <1>3, <1>5, TakingAdvance, ZenonT(30)
  <2>2. w \in Works({FALSE}, decoded_inst_semaph)
    BY <1>2, <1>3, AdvancedType
  <2> HIDE DEF w
  <2>3. RaisesEven
    BY <1>4, <2>2, EffectsTyped DEF UnitInv
  <2>4. decoded_inst_semaph' = FALSE /\ disable_clk' = FALSE
    BY <1>4, <2>1, <2>2 DEF Effects, Works
  <2>5. FE!RaiseBranch
    BY <2>3, EvenAddrsAreWords DEF RaisesEven, FE!RaiseBranch
  <2>6. execute_memory_backoff' \in BOOLEAN /\ Waiting' \in BOOLEAN
    BY <1>4 DEF Announces, Waiting, Spent
  <2> QED
    BY <1>1, <1>3, <1>4, <1>5, <2>4, <2>5, <2>6
    DEF FE!ExecuteTakes, UnwrittenByExecute, FE!UnwrittenByExecute, fetchvars, FE!fetchvars,
        decodevars, FE!decodevars, mcvars, FE!mcvars
<1>6. CASE ~decoded_inst_semaph
  <2>1. w = [Started EXCEPT !.x.phase = "HALF1_READY"]
    BY <1>2, <1>3, <1>6, IdleAdvance
  <2>2. /\ w.x = [exec EXCEPT !.phase = "HALF1_READY"] /\ w.offered = decoded_inst_semaph
        /\ w.stops = FALSE /\ w.target = NoTarget
    BY <1>2, <2>1 DEF Works
  <2> HIDE DEF w
  <2>3. /\ exec' = [exec EXCEPT !.phase = "HALF1_READY"]
        /\ UNCHANGED <<decoded_inst_semaph, execute_branch, execute_branch_addr, disable_clk>>
    BY <1>3, <1>4, <2>2 DEF Effects, UnitInv, UnitTyped
  <2>4. exec'.phase = "HALF1_READY" /\ exec'.seq = exec.seq /\ Control(exec') = Control(exec)
    <3>1. "HALF1_READY" \in Phases /\ exec \in ExecStates({FALSE})
      BY DEF Phases, UnitInv, UnitTyped
    <3> QED
      BY <2>3, <3>1, PhaseFacts
  <2>5. exec.phase # "START" /\ Spent
    BY <1>6 DEF InSecondHalf, Waiting
  <2>6. execute_memory_backoff' = FALSE /\ Waiting'
    BY <1>3, <1>4, <2>4, <2>5 DEF Spent, Waiting, Announces
  <2> QED
    BY <1>1, <1>3, <1>4, <2>3, <2>6
    DEF FE!ExecuteIdles, UnwrittenByExecute, FE!UnwrittenByExecute, fetchvars, FE!fetchvars,
        decodevars, FE!decodevars, mcvars, FE!mcvars, branchlines, FE!branchlines
<1> QED
  BY <1>3, <1>5, <1>6

\* A call that has an instruction takes a step that the port allows.
LEMMA PortBusy ==
  ASSUME UnitInv, OfferInv, ~Waiting, InSecondHalf, ExecHalf2(offer), UNCHANGED <<fetchvars, decodevars>>
  PROVE  FE!ExecuteSteps
<1>1. CallEnds({FALSE})
  BY Half2Ends DEF UnitInv, OfferInv, ExecSkipsHalf2
<1>2. FE!ExecuteAccess \/ UNCHANGED mcvars
  BY <1>1, PortAccess DEF CallEnds, Stores, Accesses, Stalls, UnitInv, UnitTyped
<1>3. FE!RaiseBranch
  BY <1>1, EvenAddrsAreWords DEF CallEnds, RaisesEven, FE!RaiseBranch
<1>4. execute_memory_backoff' \in BOOLEAN /\ Waiting' \in BOOLEAN
  BY <1>1 DEF CallEnds, Stalls, UnitInv, UnitTyped, Announces, Waiting, Spent
<1> QED
  BY <1>1, <1>2, <1>3, <1>4
  DEF CallEnds, InSecondHalf, FE!ExecuteSteps, UnwrittenByExecute, FE!UnwrittenByExecute, fetchvars,
      FE!fetchvars, decodevars, FE!decodevars, mcvars, FE!mcvars

\* A call that waits for the bus does nothing.
LEMMA PortSkips ==
  ASSUME UnitInv, ~InSecondHalf, UNCHANGED <<exec, icvars, mcvars, fetchvars, decodevars>>
  PROVE  FE!ExecuteHalf2
<1>1. UNCHANGED Waiting
  BY DEF Waiting, Spent
<1>2. CASE disable_clk
  BY <1>1, <1>2
  DEF FE!ExecuteHalf2, FE!ExecuteSkips, icvars, FE!icvars, fetchvars, FE!fetchvars, decodevars,
      FE!decodevars, mcvars, FE!mcvars
<1>3. CASE ~disable_clk /\ ~Waiting
  <2>1. FE!RaiseBranch
    BY DEF FE!RaiseBranch, icvars
  <2>2. /\ decoded_inst_semaph' = decoded_inst_semaph /\ execute_memory_backoff' \in BOOLEAN
        /\ disable_clk' = FALSE /\ Waiting' \in BOOLEAN
    BY <1>3 DEF icvars, UnitInv, UnitTyped, Waiting, Spent, Announces
  <2> QED
    BY <1>3, <2>1, <2>2
    DEF FE!ExecuteHalf2, FE!ExecuteSteps, FE!UnwrittenByExecute, icvars, fetchvars, FE!fetchvars,
        decodevars, FE!decodevars, mcvars, FE!mcvars
<1>4. CASE ~disable_clk /\ Waiting
  <2>1. exec.phase = "START" \/ exec.phase \in FirstHalfPhases
    BY <1>4 DEF InSecondHalf, UnitInv, UnitTyped, ExecStates, Phases, FirstHalfPhases
  <2>2. execute_memory_backoff = FALSE
    BY <1>4, <2>1 DEF UnitInv, UnitTyped, Announced, Waiting, Spent, FirstHalfPhases
  <2> QED
    BY <1>1, <1>4, <2>2
    DEF FE!ExecuteHalf2, FE!ExecuteIdles, FE!UnwrittenByExecute, icvars, branchlines, FE!branchlines,
        fetchvars, FE!fetchvars, decodevars, FE!decodevars, mcvars, FE!mcvars
<1> QED
  BY <1>2, <1>3, <1>4 DEF UnitInv, UnitTyped

\* So every second half of the sequencer is one that the port allows.
LEMMA PortHalf2 ==
  ASSUME UnitInv, OfferInv, RunExecuteHalf2 PROVE FE!RunExecuteHalf2
<1>1. ExecHalf2(offer) /\ UNCHANGED <<fetchvars, decodevars>>
  BY DEF RunExecuteHalf2
<1>2. FE!ExecuteHalf2
  <2>1. CASE InSecondHalf /\ Waiting
    BY <1>1, <2>1, PortWaiting DEF FE!ExecuteHalf2
  <2>2. CASE InSecondHalf /\ ~Waiting
    BY <1>1, <2>2, PortBusy DEF FE!ExecuteHalf2
  <2>3. CASE ~InSecondHalf
    <3>1. UNCHANGED <<exec, icvars, mcvars>>
      BY <1>1, <2>3 DEF ExecHalf2, ExecSkipsHalf2, ExecAdvances, ExecAccesses, ExecBlocked
    <3> QED
      BY <1>1, <2>3, <3>1, PortSkips
  <2> QED
    BY <2>1, <2>2, <2>3
<1> QED
  BY <1>2 DEF FE!RunExecuteHalf2, RunExecuteHalf2, Call, FE!Call, Units, FE!Units, Before, FE!Before

-----------------------------------------------------------------------------
\* The other units are the same in both specifications.
LEMMA CallsAgree ==
  ASSUME NEW h \in {1, 2}
  PROVE  /\ \A u \in Units : Call(h, u) => FE!Call(h, u)
         /\ HalfEnds(h) => FE!HalfEnds(h)
  BY DEF Call, FE!Call, HalfEnds, FE!HalfEnds, Units, FE!Units, Before, FE!Before

\* Initial states agree.
LEMMA PortInit == Init => FE!Init
<1> SUFFICES ASSUME Init PROVE FE!Init
  OBVIOUS
<1>1. FE!MemCtlInit /\ FE!InterconnectInit /\ FE!ClockInit
  BY DEF Init, MemCtlInit, FE!MemCtlInit, InterconnectInit, FE!InterconnectInit, ClockInit, FE!ClockInit
<1>2. FE!FetchInit /\ FE!DecodeInit
  BY DEF Init, FetchInit, FE!FetchInit, EmptyQueue, FE!EmptyQueue, Slots, FE!Slots, DecodeInit, FE!DecodeInit
<1>3. FE!ExecutePortInit
  BY DEF Init, ExecuteInit, FE!ExecutePortInit, Waiting
<1> QED
  BY <1>1, <1>2, <1>3 DEF Init, FE!Init

\* Whether an instruction is awaited depends on the execute unit alone.
LEMMA WaitingKept == UNCHANGED exec => UNCHANGED Waiting
  BY DEF Waiting, Spent

\* The steps of the other units are those of the front end.
LEMMA PortFetchHalf1 == RunFetchHalf1 => FE!RunFetchHalf1
<1> SUFFICES ASSUME RunFetchHalf1 PROVE FE!RunFetchHalf1
  OBVIOUS
<1>1. FE!FetchHalf1
  BY DEF RunFetchHalf1, FetchHalf1, FetchMemWait, FetchDequeue, FetchSkipHalf1, FetchInHalf1,
         FE!FetchHalf1, FE!FetchMemWait, FE!FetchDequeue, FE!FetchSkipHalf1, FE!FetchInHalf1,
         ShiftedQueue, FE!ShiftedQueue, Shift, FE!Shift, LoadedQueue, FE!LoadedQueue,
         FetchLatchesWord, FE!FetchLatchesWord, LastSlot, FE!LastSlot, Slots, FE!Slots,
         NextWord, FE!NextWord, WordAlign, FE!WordAlign, branchlines, FE!branchlines,
         fetchvars, FE!fetchvars, mcvars, FE!mcvars, icvars, FE!icvars
<1>2. FE!Call(1, "fetch") /\ UNCHANGED <<decodevars, Waiting>>
  BY CallsAgree, WaitingKept DEF RunFetchHalf1, Units
<1> QED
  BY <1>1, <1>2 DEF FE!RunFetchHalf1, decodevars, FE!decodevars

\* The second half of the fetch unit.
LEMMA PortFetchHalf2 == RunFetchHalf2 => FE!RunFetchHalf2
<1> SUFFICES ASSUME RunFetchHalf2 PROVE FE!RunFetchHalf2
  OBVIOUS
<1>1. /\ ResolveBranch => FE!ResolveBranch
      /\ ResolvedQueue = FE!ResolvedQueue /\ ResolvedAddr = FE!ResolvedAddr
  BY DEF ResolveBranch, FE!ResolveBranch, Resolving, FE!Resolving, ResolvedQueue, FE!ResolvedQueue,
         ResolvedAddr, FE!ResolvedAddr, Flushes, FE!Flushes, DecodeBranches, FE!DecodeBranches,
         ExecuteBranches, FE!ExecuteBranches, ExecuteRedirects, FE!ExecuteRedirects,
         PredictedBefore, FE!PredictedBefore, Mispredicted, FE!Mispredicted, ReportedAddr,
         FE!ReportedAddr, EmptyQueue, FE!EmptyQueue, Slots, FE!Slots
<1>2. /\ QueueIsFull(ResolvedQueue) <=> FE!QueueIsFull(FE!ResolvedQueue)
      /\ NextWord(ResolvedAddr) = FE!NextWord(FE!ResolvedAddr)
      /\ AddrReadAssert(TRUE, ResolvedAddr) => FE!AddrReadAssert(TRUE, FE!ResolvedAddr)
      /\ BusReady <=> FE!BusReady
  BY <1>1
  DEF QueueIsFull, FE!QueueIsFull, Slots, FE!Slots, NextWord, FE!NextWord, WordAlign, FE!WordAlign,
      AddrReadAssert, FE!AddrReadAssert, BusReady, FE!BusReady
<1>3. FE!FetchHalf2
  BY <1>1, <1>2
  DEF RunFetchHalf2, FetchHalf2, FetchFull, FetchHold, FetchAssert, FetchSkipHalf2, FetchInHalf2,
      FE!FetchHalf2, FE!FetchFull, FE!FetchHold, FE!FetchAssert, FE!FetchSkipHalf2, FE!FetchInHalf2,
      fetchvars, FE!fetchvars, mcvars, FE!mcvars, icvars, FE!icvars
<1>4. FE!Call(2, "fetch") /\ UNCHANGED <<decodevars, Waiting>>
  BY CallsAgree, WaitingKept DEF RunFetchHalf2, Units
<1> QED
  BY <1>3, <1>4 DEF FE!RunFetchHalf2, decodevars, FE!decodevars

\* The word that is decoded is one of the program, and decodes to one of Kinds.
LEMMA PortDecodeHalf1 ==
  ASSUME FrontInv, OfferInv, RunDecodeHalf1 PROVE FE!RunDecodeHalf1
<1>1. ReadsInstWord <=> FE!ReadsInstWord
  BY DEF ReadsInstWord, FE!ReadsInstWord, StartsInstruction, FE!StartsInstruction
<1>2. CASE DecodesWord
  <2> DEFINE k == KindOf(program[fetch_word])
  <2>1. k \in Kinds
    BY WordsEven, ProgramWords DEF OfferInv
  <2>2. DecodeInstWord(k)
    BY <1>2 DEF RunDecodeHalf1
  <2> HIDE DEF k
  <2>3. FE!DecodeInstWord(k)
    BY <1>1, <2>2
    DEF DecodeInstWord, FE!DecodeInstWord, PredictedAddr, FE!PredictedAddr, UnwrittenByDecode,
        FE!UnwrittenByDecode, fetchvars, FE!fetchvars, mcvars, FE!mcvars
  <2>4. FE!DecodeHalf1
    BY <2>1, <2>3 DEF FE!DecodeHalf1
  <2> QED
    BY <2>4, CallsAgree, WaitingKept DEF RunDecodeHalf1, FE!RunDecodeHalf1, Units
<1>3. CASE ~DecodesWord
  <2>1. FE!DecodeNoWord \/ FE!DecodeSkipHalf1
    BY <1>1, <1>3
    DEF RunDecodeHalf1, DecodeNoWord, FE!DecodeNoWord, DecodeSkipHalf1, FE!DecodeSkipHalf1,
        StartsInstruction, FE!StartsInstruction, UnwrittenByDecode, FE!UnwrittenByDecode,
        fetchvars, FE!fetchvars, mcvars, FE!mcvars, decodevars, FE!decodevars, icvars, FE!icvars
  <2>2. FE!DecodeHalf1
    BY <2>1 DEF FE!DecodeHalf1
  <2> QED
    BY <2>2, CallsAgree, WaitingKept DEF RunDecodeHalf1, FE!RunDecodeHalf1, Units
<1> QED
  BY <1>2, <1>3

\* The second half of the decode unit.
LEMMA PortDecodeHalf2 == RunDecodeHalf2 => FE!RunDecodeHalf2
<1> SUFFICES ASSUME RunDecodeHalf2 PROVE FE!RunDecodeHalf2
  OBVIOUS
<1>1. FE!DecodeHalf2
  BY DEF RunDecodeHalf2, DecodeHalf2, DecodeReadOperands, DecodeDispatch, DecodeSkipHalf2,
         FE!DecodeHalf2, FE!DecodeReadOperands, FE!DecodeDispatch, FE!DecodeSkipHalf2,
         ReadsOperand, FE!ReadsOperand, WordsLeft, FE!WordsLeft, WordsRead, FE!WordsRead,
         DispatchedPgc, FE!DispatchedPgc, UnwrittenByDecode, FE!UnwrittenByDecode,
         fetchvars, FE!fetchvars, mcvars, FE!mcvars, decodevars, FE!decodevars, icvars, FE!icvars
<1> QED
  BY <1>1, CallsAgree, WaitingKept DEF RunDecodeHalf2, FE!RunDecodeHalf2, Units

\* The end of the first half.
LEMMA PortEndHalf1 == EndHalf1 => FE!EndHalf1
  BY CallsAgree, WaitingKept
  DEF EndHalf1, FE!EndHalf1, mcvars, FE!mcvars, icvars, FE!icvars, fetchvars, FE!fetchvars,
      decodevars, FE!decodevars

\* The end of the cycle.
LEMMA PortEndCycle == EndCycle => FE!EndCycle
<1>1. MemCtlTick => FE!MemCtlTick
  BY DEF MemCtlTick, FE!MemCtlTick, TickIdle, FE!TickIdle, TickBusy, FE!TickBusy, TickDone,
         FE!TickDone, BusReady, FE!BusReady, MayAnswer, FE!MayAnswer, MustAnswer, FE!MustAnswer
<1> QED
  BY <1>1, CallsAgree, WaitingKept
  DEF EndCycle, FE!EndCycle, icvars, FE!icvars, fetchvars, FE!fetchvars, decodevars, FE!decodevars

\* Stuttering steps agree.
LEMMA PortStutter == UNCHANGED vars => UNCHANGED FE!vars
  BY WaitingKept
  DEF vars, FE!vars, mcvars, FE!mcvars, icvars, FE!icvars, fetchvars, FE!fetchvars, decodevars,
      FE!decodevars, clockvars, FE!clockvars

\* Every step of the processor is one of the front end.
LEMMA PortStep ==
  ASSUME FrontInv, OfferInv, UnitInv, [Next]_vars PROVE [FE!Next]_FE!vars
  BY PortFetchHalf1, PortFetchHalf2, PortDecodeHalf1, PortDecodeHalf2, PortHalf1, PortHalf2,
     PortEndHalf1, PortEndCycle, PortStutter DEF Next, FE!Next

\* ... which keeps the invariant.
LEMMA PilotInit == Init => FrontInv /\ OfferInv /\ UnitInv
<1> SUFFICES ASSUME Init PROVE FrontInv
  BY OfferInit
<1>1. FE!Init
  BY PortInit
<1>2. FE!TypeOK
  BY <1>1, FE!TypeInit, PortAssumptions, AddrAssumption, QueueAssumption, DecodeAssumption
<1>3. FE!ReadInv
  BY <1>1, FE!ReadInit, PortAssumptions, AddrAssumption, QueueAssumption, DecodeAssumption
<1>4. FE!WordsAligned
  BY <1>1, FE!AlignInit, PortAssumptions, AddrAssumption, QueueAssumption, DecodeAssumption
<1> QED
  BY <1>2, <1>3, <1>4 DEF FrontInv

\* The invariant of the front end is kept by steps that are its own.
LEMMA FrontStep ==
  ASSUME FE!FetchBeforeExecute, FrontInv, [FE!Next]_FE!vars PROVE FrontInv'
<1>1. FE!TypeOK'
  BY FE!TypeStep, PortAssumptions, AddrAssumption, QueueAssumption, DecodeAssumption DEF FrontInv
<1>2. FE!ReadInv'
  BY FE!ReadStep, PortAssumptions, AddrAssumption, QueueAssumption, DecodeAssumption DEF FrontInv
<1>3. FE!WordsAligned'
  BY FE!AlignStep, PortAssumptions, AddrAssumption, QueueAssumption, DecodeAssumption DEF FrontInv
<1> QED
  BY <1>1, <1>2, <1>3 DEF FrontInv

\* Every step keeps the invariant, and is a step of the front end.
LEMMA PilotStep ==
  ASSUME FE!FetchBeforeExecute, FrontInv, OfferInv, UnitInv, [Next]_vars
  PROVE  FrontInv' /\ OfferInv' /\ UnitInv' /\ [FE!Next]_FE!vars
<1>1. [FE!Next]_FE!vars
  BY PortStep
<1>2. FrontInv'
  BY <1>1, FrontStep
<1>3. OfferInv'
  BY OfferDecodeHalf1, OfferDecodeHalf2, OfferOthers
  DEF Next, RunFetchHalf1, RunFetchHalf2, RunExecuteHalf1, RunExecuteHalf2, EndHalf1, EndCycle, vars
<1>4. UnitInv'
  <2>1. CASE RunExecuteHalf1
    BY <2>1, UnitHalf1 DEF RunExecuteHalf1
  <2>2. CASE RunExecuteHalf2
    BY <2>2, UnitHalf2 DEF RunExecuteHalf2
  <2>3. CASE UNCHANGED <<exec, execute_memory_backoff>>
    BY <1>2, <2>3, UnitOthers DEF FrontInv
  <2> QED
    BY <2>1, <2>2, <2>3
    DEF Next, RunFetchHalf1, FetchHalf1, FetchMemWait, FetchDequeue, FetchSkipHalf1,
        RunFetchHalf2, FetchHalf2, FetchFull, FetchHold, FetchAssert, FetchSkipHalf2, ResolveBranch,
        RunDecodeHalf1, DecodeNoWord, DecodeInstWord, DecodeSkipHalf1, UnwrittenByDecode,
        RunDecodeHalf2, DecodeHalf2, DecodeReadOperands, DecodeDispatch, DecodeSkipHalf2,
        EndHalf1, EndCycle, vars, icvars
<1> QED
  BY <1>1, <1>2, <1>3, <1>4

-----------------------------------------------------------------------------
\* FE and Port name the same specification.
LEMMA SamePort == /\ FE!Init => Port!Init
                  /\ FE!Next => Port!Next
                  /\ UNCHANGED FE!vars => UNCHANGED Port!vars
<1>1. FE!Init => Port!Init
  BY DEF FE!Init, Port!Init, FE!MemCtlInit, Port!MemCtlInit, FE!InterconnectInit,
      Port!InterconnectInit, FE!FetchInit, Port!FetchInit, FE!EmptyQueue, Port!EmptyQueue,
      FE!Slots, Port!Slots, FE!DecodeInit, Port!DecodeInit, FE!ExecutePortInit,
      Port!ExecutePortInit, FE!ClockInit, Port!ClockInit
<1>2. ASSUME NEW h \in {1, 2}
      PROVE  /\ \A u : FE!Call(h, u) => Port!Call(h, u)
             /\ FE!HalfEnds(h) => Port!HalfEnds(h)
  BY DEF FE!Call, Port!Call, FE!HalfEnds, Port!HalfEnds, FE!Units, Port!Units, FE!Before,
      Port!Before
<1>3. FE!RunFetchHalf1 => Port!RunFetchHalf1
  BY <1>2
  DEF FE!RunFetchHalf1, Port!RunFetchHalf1, FE!FetchHalf1, Port!FetchHalf1, FE!FetchMemWait,
      Port!FetchMemWait, FE!FetchDequeue, Port!FetchDequeue, FE!FetchSkipHalf1,
      Port!FetchSkipHalf1, FE!FetchInHalf1, Port!FetchInHalf1, FE!ShiftedQueue,
      Port!ShiftedQueue, FE!Shift, Port!Shift, FE!LoadedQueue, Port!LoadedQueue,
      FE!FetchLatchesWord, Port!FetchLatchesWord, FE!LastSlot, Port!LastSlot, FE!Slots,
      Port!Slots, FE!NextWord, Port!NextWord, FE!WordAlign, Port!WordAlign, FE!branchlines,
      Port!branchlines, FE!mcvars, Port!mcvars, FE!icvars, Port!icvars, FE!fetchvars,
      Port!fetchvars, FE!decodevars, Port!decodevars
<1>4. FE!RunFetchHalf2 => Port!RunFetchHalf2
  BY <1>2
  DEF FE!RunFetchHalf2, Port!RunFetchHalf2, FE!FetchHalf2, Port!FetchHalf2, FE!FetchFull,
      Port!FetchFull, FE!FetchHold, Port!FetchHold, FE!FetchAssert, Port!FetchAssert,
      FE!FetchSkipHalf2, Port!FetchSkipHalf2, FE!FetchInHalf2, Port!FetchInHalf2,
      FE!ResolveBranch, Port!ResolveBranch, FE!Resolving, Port!Resolving, FE!ResolvedQueue,
      Port!ResolvedQueue, FE!ResolvedAddr, Port!ResolvedAddr, FE!Flushes, Port!Flushes,
      FE!DecodeBranches, Port!DecodeBranches, FE!ExecuteBranches, Port!ExecuteBranches,
      FE!ExecuteRedirects, Port!ExecuteRedirects, FE!PredictedBefore, Port!PredictedBefore,
      FE!Mispredicted, Port!Mispredicted, FE!ReportedAddr, Port!ReportedAddr, FE!EmptyQueue,
      Port!EmptyQueue, FE!Slots, Port!Slots, FE!QueueIsFull, Port!QueueIsFull, FE!NextWord,
      Port!NextWord, FE!WordAlign, Port!WordAlign, FE!AddrReadAssert, Port!AddrReadAssert,
      FE!BusReady, Port!BusReady, FE!mcvars, Port!mcvars, FE!icvars, Port!icvars,
      FE!fetchvars, Port!fetchvars, FE!decodevars, Port!decodevars
<1>5. FE!RunDecodeHalf1 => Port!RunDecodeHalf1
  BY <1>2
  DEF FE!RunDecodeHalf1, Port!RunDecodeHalf1, FE!DecodeHalf1, Port!DecodeHalf1,
      FE!DecodeNoWord, Port!DecodeNoWord, FE!DecodeInstWord, Port!DecodeInstWord,
      FE!DecodeSkipHalf1, Port!DecodeSkipHalf1, FE!ReadsInstWord, Port!ReadsInstWord,
      FE!StartsInstruction, Port!StartsInstruction, FE!PredictedAddr, Port!PredictedAddr,
      FE!UnwrittenByDecode, Port!UnwrittenByDecode, FE!mcvars, Port!mcvars, FE!icvars,
      Port!icvars, FE!fetchvars, Port!fetchvars, FE!decodevars, Port!decodevars
<1>6. FE!RunDecodeHalf2 => Port!RunDecodeHalf2
  BY <1>2
  DEF FE!RunDecodeHalf2, Port!RunDecodeHalf2, FE!DecodeHalf2, Port!DecodeHalf2,
      FE!DecodeReadOperands, Port!DecodeReadOperands, FE!DecodeDispatch,
      Port!DecodeDispatch, FE!DecodeSkipHalf2, Port!DecodeSkipHalf2, FE!ReadsOperand,
      Port!ReadsOperand, FE!WordsLeft, Port!WordsLeft, FE!WordsRead, Port!WordsRead,
      FE!DispatchedPgc, Port!DispatchedPgc, FE!UnwrittenByDecode, Port!UnwrittenByDecode,
      FE!mcvars, Port!mcvars, FE!icvars, Port!icvars, FE!fetchvars, Port!fetchvars,
      FE!decodevars, Port!decodevars
<1>7. FE!RunExecuteHalf1 => Port!RunExecuteHalf1
  BY <1>2
  DEF FE!RunExecuteHalf1, Port!RunExecuteHalf1, FE!ExecuteHalf1, Port!ExecuteHalf1,
      FE!ExecuteAccess, Port!ExecuteAccess, FE!AddrReadAssert, Port!AddrReadAssert,
      FE!AddrWriteAssert, Port!AddrWriteAssert, FE!BusReady, Port!BusReady, FE!mcvars,
      Port!mcvars, FE!icvars, Port!icvars, FE!fetchvars, Port!fetchvars, FE!decodevars,
      Port!decodevars
<1>8. FE!RunExecuteHalf2 => Port!RunExecuteHalf2
  BY <1>2
  DEF FE!RunExecuteHalf2, Port!RunExecuteHalf2, FE!ExecuteHalf2, Port!ExecuteHalf2,
      FE!ExecuteIdles, Port!ExecuteIdles, FE!ExecuteTakes, Port!ExecuteTakes,
      FE!ExecuteSteps, Port!ExecuteSteps, FE!ExecuteSkips, Port!ExecuteSkips,
      FE!ExecuteAccess, Port!ExecuteAccess, FE!AddrReadAssert, Port!AddrReadAssert,
      FE!AddrWriteAssert, Port!AddrWriteAssert, FE!BusReady, Port!BusReady, FE!RaiseBranch,
      Port!RaiseBranch, FE!UnwrittenByExecute, Port!UnwrittenByExecute, FE!branchlines,
      Port!branchlines, FE!mcvars, Port!mcvars, FE!icvars, Port!icvars, FE!fetchvars,
      Port!fetchvars, FE!decodevars, Port!decodevars
<1>9. FE!EndHalf1 => Port!EndHalf1
  BY <1>2
  DEF FE!EndHalf1, Port!EndHalf1, FE!mcvars, Port!mcvars, FE!icvars, Port!icvars,
      FE!fetchvars, Port!fetchvars, FE!decodevars, Port!decodevars
<1>10. FE!EndCycle => Port!EndCycle
  BY <1>2
  DEF FE!EndCycle, Port!EndCycle, FE!MemCtlTick, Port!MemCtlTick, FE!TickIdle,
      Port!TickIdle, FE!TickBusy, Port!TickBusy, FE!TickDone, Port!TickDone, FE!BusReady,
      Port!BusReady, FE!MayAnswer, Port!MayAnswer, FE!MustAnswer, Port!MustAnswer,
      FE!mcvars, Port!mcvars, FE!icvars, Port!icvars, FE!fetchvars, Port!fetchvars,
      FE!decodevars, Port!decodevars
<1>11. UNCHANGED FE!vars => UNCHANGED Port!vars
  BY DEF FE!vars, Port!vars, FE!clockvars, Port!clockvars, FE!mcvars, Port!mcvars, FE!icvars,
      Port!icvars, FE!fetchvars, Port!fetchvars, FE!decodevars, Port!decodevars
<1> QED
  BY <1>1, <1>3, <1>4, <1>5, <1>6, <1>7, <1>8, <1>9, <1>10, <1>11 DEF FE!Next, Port!Next

-----------------------------------------------------------------------------
\* The processor implements the front end with the execute unit of ExecutePort.
THEOREM RefinesFrontEnd ==
  ASSUME FE!FetchBeforeExecute PROVE Spec => FE!Spec
<1>1. FrontInv /\ OfferInv /\ UnitInv /\ [Next]_vars
        => FrontInv' /\ OfferInv' /\ UnitInv' /\ [FE!Next]_FE!vars
  BY PilotStep
<1> QED
  BY <1>1, PortInit, PilotInit, PTL DEF Spec, FE!Spec

\* In any program whose code fits the decoder, and however the calls of the other units
\* are ordered as long as fetch precedes execute in first halves, the execute unit does
\* to the other units only what its port allows.
THEOREM PortIsKept ==
  ASSUME FE!FetchBeforeExecute PROVE Spec => KeepsToThePort
<1>1. Init => Port!Init
  BY PortInit, SamePort
<1>2. FrontInv /\ OfferInv /\ UnitInv /\ [Next]_vars
        => FrontInv' /\ OfferInv' /\ UnitInv' /\ [Port!Next]_Port!vars
  BY PilotStep, SamePort
<1> QED
  BY <1>1, <1>2, PilotInit, PTL DEF Spec, KeepsToThePort, Port!Spec

\* What no instruction of any program can spoil: the fetch unit gets its words from
\* the bus, has room for them, and hands them over whole and in order, and the decode
\* unit drops none of them and overwrites no instruction that it has dispatched.
THEOREM PilotSafe ==
  ASSUME FE!FetchBeforeExecute
  PROVE  Spec => /\ []FE!FetchOwnsItsRead /\ []FE!RoomForTheRead
                 /\ []FE!StreamInOrder /\ []FE!ReadsAligned
                 /\ FE!NoWordDropped /\ FE!NoPendingInstructionOverwritten
<1>1. FE!Spec => []FE!FetchOwnsItsRead
  BY FE!FetchReadSafe, PortAssumptions, AddrAssumption, QueueAssumption, DecodeAssumption
<1>2. FE!Spec => []FE!RoomForTheRead
  BY FE!ReadHasRoom, PortAssumptions, AddrAssumption, QueueAssumption, DecodeAssumption
<1>3. FE!Spec => []FE!StreamInOrder
  BY FE!StreamSafe, PortAssumptions, AddrAssumption, QueueAssumption, DecodeAssumption
<1>4. FE!Spec => []FE!ReadsAligned
  BY FE!ReadsWholeWords, PortAssumptions, AddrAssumption, QueueAssumption, DecodeAssumption
<1>5. FE!Spec => FE!NoWordDropped
  BY FE!WordsSafe, PortAssumptions, AddrAssumption, QueueAssumption, DecodeAssumption
<1>6. FE!Spec => FE!NoPendingInstructionOverwritten
  BY FE!OfferSafe, PortAssumptions, AddrAssumption, QueueAssumption, DecodeAssumption
<1>7. Spec => FE!Spec
  BY RefinesFrontEnd
<1> QED
  BY <1>1, <1>2, <1>3, <1>4, <1>5, <1>6, <1>7

\* The stream of words is that of the abstract specification in every program too: each
\* word between two branches is handed to the decoder once, in order.
THEOREM PilotStream ==
  ASSUME FE!FetchBeforeExecute PROVE Spec => FE!ImplementsWordStream
<1>1. FE!Spec => FE!ImplementsWordStream
  BY FE!ImplementsStream, PortAssumptions, AddrAssumption, QueueAssumption, DecodeAssumption
<1>2. Spec => FE!Spec
  BY RefinesFrontEnd
<1> QED
  BY <1>1, <1>2

-----------------------------------------------------------------------------
(***************************************************************************)
(* The decode unit reads the program in line.                              *)
(***************************************************************************)
\* The next word the decode unit reads, and the next opcode.
NextRead == IF fetch_word_semaph THEN fetch_word ELSE fetch_addr
Decoding == decoding_phase = "READ_OPERANDS"
NextOpcode == IF Decoding THEN imm_words[1] ELSE NextRead

\* It is that of the instruction after the one offered.  Of an instruction in progress
\* the words have been read from the first on.
InLine ==
  /\ IF offer.at = NowhereYet THEN NextOpcode \in StartAddrs
     ELSE NextOpcode = FollowerIn(program, offer.at)
  /\ Decoding =>
       /\ imm_words # <<>> /\ NextRead = Advance(imm_words[1], Len(imm_words))
       /\ words_to_read + Len(imm_words) = 1 + program[imm_words[1]].decoded.words
       /\ pgc = NextWord(imm_words[1]) /\ illegal = FALSE

\* Nothing is predicted and nothing dropped; the instruction offered is the one dispatched.
Quiet == FE!NothingPredicted /\ decode_stall = FALSE
OfferDispatched ==
  decoded_inst.words # <<>> =>
    offer = Instruction(program[decoded_inst.words[1]].op, decoded_inst.words[1],
                        program[decoded_inst.words[1]].decoded, decoded_inst.inst_pgc,
                        program[decoded_inst.words[1]].targets, FALSE)

\* The pipeline: until HALT is taken (then what is decoded does not matter), the decode
\* unit hands over what comes next.
HandedOffer == Handed(program, offer, decoded_inst_semaph, exec.inst.at, Left(program, exec))
ProgramInv ==
  /\ ExecInv(program, exec) /\ execute_branch = FALSE
  /\ FE!WorksWithoutOffer /\ OfferDispatched
  /\ ~exec.inst.disable_clk => HandedOffer /\ InLine /\ Quiet /\ FE!FetchAddrInStep

-----------------------------------------------------------------------------
(***************************************************************************)
(* The fetch unit hands over the words in line: what the decode unit reads *)
(* next only changes when it reads.                                        *)
(***************************************************************************)
\* The specifications agree on the next word.
LEMMA SameNextWord == \A x : FE!NextWord(x) = NextWord(x)
  BY DEF FE!NextWord, NextWord, FE!WordAlign, WordAlign

\* The address of a row whose latch is occupied is that of the word after it.
LEMMA LatchThenNext ==
  ASSUME NEW q, NEW req, NEW w \in Int, NEW a, FE!InStep(q, req, w, a) PROVE a = NextWord(w)
<1>1. /\ QueueLen \in FE!Cells /\ QueueLen # -1 /\ w # NoWord
      /\ \A j \in FE!Cells : ~(j > QueueLen)
  BY QueueAssumption DEF FE!Cells
<1>2. FE!Cell(QueueLen, q, req, w) = w
  BY <1>1 DEF FE!Cell
<1> QED
  BY <1>1, <1>2, SameNextWord DEF FE!InStep

\* The address reported with the word in the latch.
LEMMA LatchedAddr ==
  ASSUME FrontInv, FE!FetchAddrInStep, fetch_word_semaph PROVE fetch_addr = NextWord(fetch_word)
<1>1. FE!InStep(queue, FE!Requested, fetch_word, fetch_addr)
  BY DEF FE!FetchAddrInStep, FE!Latch
<1>2. fetch_word \in Int
  BY WordsEven DEF WordAddrs, Addr
<1> QED
  BY <1>1, <1>2, LatchThenNext

\* What a step may not change for the decode unit to find the same words.
Line == <<program, offer, exec, decodevars, decoded_inst_semaph, decode_branch, branch_predicted,
          execute_branch>>

\* A word that gets into the latch is the one whose address has been reported.
LEMMA Half1InLine ==
  ASSUME FrontInv, FrontInv', FE!FetchAddrInStep', RunFetchHalf1
  PROVE  UNCHANGED <<Line, NextRead>> /\ (decode_stall = FALSE => decode_stall' = FALSE)
<1>1. CASE FetchMemWait \/ FetchSkipHalf1
  BY <1>1
  DEF RunFetchHalf1, FetchMemWait, FetchSkipHalf1, fetchvars, icvars, Line, NextRead
<1>2. CASE FetchDequeue
  <2>1. UNCHANGED Line /\ decode_stall' = FALSE
    BY <1>2 DEF RunFetchHalf1, FetchDequeue, branchlines, Line
  <2>2. CASE FetchLatchesWord
    <3>1. /\ ~fetch_word_semaph /\ fetch_word_semaph'
          /\ fetch_addr' = NextWord(fetch_addr)
      BY <1>2, <2>2 DEF FetchDequeue, FetchLatchesWord
    <3>2. fetch_addr \in WordAddrs /\ fetch_word' \in WordAddrs
      BY WordsEven, EvenAddrsAreWords
      DEF FrontInv, FE!TypeOK, FE!WordsAligned, FE!Even, FE!Addr, WordAddrs, Addr
    <3>3. FE!InStep(queue', FE!Requested', fetch_word', fetch_addr')
      BY <3>1 DEF FE!FetchAddrInStep, FE!Latch
    <3>4. fetch_word' \in Int
      BY <3>2 DEF WordAddrs, Addr
    <3>5. fetch_addr' = NextWord(fetch_word')
      BY <3>3, <3>4, LatchThenNext
    <3>6. fetch_word' = fetch_addr
      BY <3>1, <3>2, <3>5, NextWordInjective
    <3> QED
      BY <2>1, <3>1, <3>6 DEF NextRead
  <2>3. CASE ~FetchLatchesWord
    BY <1>2, <2>1, <2>3 DEF FetchDequeue, NextRead
  <2> QED
    BY <2>2, <2>3
<1> QED
  BY <1>1, <1>2 DEF RunFetchHalf1, FetchHalf1

\* Without branches no word is dropped.
LEMMA Half2InLine ==
  ASSUME FrontInv, Quiet, execute_branch = FALSE, RunFetchHalf2
  PROVE  UNCHANGED <<Line, NextRead, decode_stall>>
<1>1. CASE FetchSkipHalf2
  BY <1>1 DEF RunFetchHalf2, FetchSkipHalf2, fetchvars, icvars, Line, NextRead
<1>2. CASE FetchFull \/ FetchHold \/ FetchAssert
  <2>1. ResolveBranch /\ UNCHANGED <<program, offer, exec, decodevars>>
    BY <1>2 DEF RunFetchHalf2, FetchFull, FetchHold, FetchAssert
  <2>2. ~Flushes /\ ~DecodeBranches /\ ~ExecuteBranches /\ ~Mispredicted /\ ~PredictedBefore
    BY DEF Quiet, FE!NothingPredicted, Flushes, ExecuteRedirects, DecodeBranches, ExecuteBranches,
           Mispredicted, PredictedBefore
  <2>3. /\ decode_branch' = FALSE /\ execute_branch' = FALSE /\ branch_predicted' = FALSE
        /\ decode_stall' = decode_stall /\ fetch_word_semaph' = fetch_word_semaph
        /\ UNCHANGED <<fetch_word, fetch_addr, decoded_inst_semaph>>
    <3>1. fetch_word_semaph \in BOOLEAN /\ decode_stall = FALSE
      BY DEF FrontInv, FE!TypeOK, Quiet
    <3> QED
      BY <2>1, <2>2, <3>1 DEF ResolveBranch, ReportedAddr, Quiet, FE!NothingPredicted
  <2> QED
    BY <2>1, <2>3 DEF Line, NextRead, Quiet, FE!NothingPredicted
<1> QED
  BY <1>1, <1>2 DEF RunFetchHalf2, FetchHalf2

\* The line stays when what it consists of does.
LEMMA LineKept ==
  ASSUME UNCHANGED <<program, offer, decodevars, NextRead>>, InLine PROVE InLine'
<1>1. UNCHANGED <<NextOpcode, Decoding>>
  BY DEF NextOpcode, Decoding, decodevars
<1> QED
  BY <1>1 DEF InLine, decodevars

\* What is offered stays, too.
LEMMA LineHanded ==
  ASSUME UNCHANGED Line, HandedOffer PROVE HandedOffer'
  BY DEF Line, HandedOffer
-----------------------------------------------------------------------------
(***************************************************************************)
(* The decode unit.                                                        *)
(***************************************************************************)
\* An opcode that comes after the instruction in execution, when nothing is offered, is
\* one of the code.
LEMMA NextInCode ==
  ASSUME program \in Programs, RunsStraight(program), ExecInv(program, exec),
         ~exec.inst.disable_clk, HandedOffer, ~decoded_inst_semaph, InLine
  PROVE  /\ NextOpcode \in CodeOf(program)
         /\ IF exec.inst.at = NowhereYet THEN NextOpcode \in StartAddrs
            ELSE NextOpcode = FollowerIn(program, exec.inst.at)
<1>1. offer.at = exec.inst.at
  BY DEF HandedOffer, Handed
<1>2. StartAddrs \subseteq CodeOf(program)
  BY CodeIsStraight DEF StraightCode
<1>3. exec.inst.at # NowhereYet => FollowerIn(program, exec.inst.at) \in CodeOf(program)
  <2>1. InHand(program, exec.inst)
    BY DEF ExecInv, Sound
  <2>2. exec.inst.at # NowhereYet => exec.inst.at \in CodeOf(program) /\ ~program[exec.inst.at].decoded.disable_clk
    BY <2>1 DEF InHand
  <2> QED
    BY <2>2, CodeGoesOn
<1> QED
  BY <1>1, <1>2, <1>3 DEF InLine

\* Taking an opcode starts an instruction of the code.
LEMMA OpcodeInLine ==
  ASSUME FrontInv, OfferInv, RunsStraight(program), ProgramInv, ~exec.inst.disable_clk,
         RunDecodeHalf1, DecodesWord
  PROVE  InLine' /\ Quiet'
<1> DEFINE k == KindOf(program[fetch_word])
           d == program[fetch_word].decoded
<1>0. HandedOffer /\ InLine /\ Quiet /\ FE!FetchAddrInStep /\ ExecInv(program, exec) /\ FE!WorksWithoutOffer
  BY DEF ProgramInv
<1>1. DecodeInstWord(k) /\ UNCHANGED <<program, offer, exec>>
  BY DEF RunDecodeHalf1
<1>2. ~Decoding /\ ~decoded_inst_semaph /\ NextOpcode = fetch_word /\ fetch_word_semaph
  BY <1>0
  DEF DecodesWord, ReadsInstWord, StartsInstruction, Quiet, FE!WorksWithoutOffer, Decoding,
      NextOpcode, NextRead
<1>3. fetch_word \in CodeOf(program) /\ fetch_word \in WordAddrs
  BY <1>0, <1>2, NextInCode, WordsEven DEF OfferInv
<1>4. k.branch = "none" /\ k.illegal = FALSE /\ k.extra = d.words
  <2>1. d.predict = "none" /\ ~d.illegal
    BY <1>3, CodeGoesOn
  <2>2. k \in DecodedKind
    BY <1>3, ProgramWords, DecodeAssumption DEF OfferInv
  <2>3. k.branch = d.predict /\ k.illegal = d.illegal /\ k.extra = d.words /\ k.illegal \in BOOLEAN
    <3>1. k.illegal \in BOOLEAN
      BY <2>2 DEF DecodedKind
    <3> QED
      BY <3>1 DEF KindOf
  <2> QED
    BY <2>1, <2>3
<1>5. k.extra \in Nat
  BY <1>3, ProgramWords, DecodeAssumption DEF OfferInv, DecodedKind
<1> HIDE DEF k
<1>6. /\ fetch_word_semaph' = FALSE /\ imm_words' = <<fetch_word>> /\ words_to_read' = k.extra
      /\ illegal' = FALSE /\ decode_branch' = decode_branch /\ decoding_phase' = "READ_OPERANDS"
      /\ pgc' = fetch_addr /\ decode_stall' = decode_stall /\ fetch_addr' = fetch_addr
      /\ branch_predicted' = branch_predicted
  BY <1>1, <1>4 DEF DecodeInstWord, UnwrittenByDecode, fetchvars, Quiet, ProgramInv, FE!NothingPredicted
<1>7. imm_words' # <<>> /\ imm_words'[1] = fetch_word /\ Len(imm_words') = 1
  BY <1>6
<1>8. fetch_addr = NextWord(fetch_word) /\ Advance(fetch_word, 1) = NextWord(fetch_word)
  BY <1>0, <1>2, <1>3, LatchedAddr, NextWordOf
<1>9. NextOpcode' = fetch_word /\ NextRead' = fetch_addr /\ Decoding'
  BY <1>6, <1>7 DEF NextOpcode, NextRead, Decoding
<1>10. words_to_read' + Len(imm_words') = 1 + d.words
  BY <1>4, <1>5, <1>6, <1>7
<1>11. IF offer.at = NowhereYet THEN fetch_word \in StartAddrs ELSE fetch_word = FollowerIn(program, offer.at)
  BY <1>0, <1>2 DEF InLine
<1>12. InLine'
  BY <1>1, <1>6, <1>7, <1>8, <1>9, <1>10, <1>11 DEF InLine
<1>13. Quiet'
  BY <1>0, <1>6 DEF Quiet, FE!NothingPredicted
<1> QED
  BY <1>12, <1>13

\* The first half of the decode unit stays in line.
LEMMA DecodeHalf1InLine ==
  ASSUME FrontInv, OfferInv, RunsStraight(program), ProgramInv, ~exec.inst.disable_clk, RunDecodeHalf1
  PROVE  InLine' /\ Quiet' /\ HandedOffer'
<1>0. InLine /\ Quiet /\ HandedOffer /\ FE!WorksWithoutOffer /\ decoded_inst_semaph \in BOOLEAN
  BY DEF ProgramInv, FrontInv, FE!TypeOK
<1>1. UNCHANGED <<program, offer, exec>>
  BY DEF RunDecodeHalf1
<1>2. CASE DecodesWord
  <2>1. decoded_inst_semaph' = decoded_inst_semaph
    BY <1>0, <1>2 DEF RunDecodeHalf1, DecodeInstWord, Quiet
  <2> QED
    BY <1>0, <1>1, <1>2, <2>1, OpcodeInLine DEF HandedOffer
<1>3. CASE DecodeNoWord
  <2>1. /\ decoded_inst_semaph' = decoded_inst_semaph /\ UNCHANGED NextRead
        /\ ~Decoding /\ ~Decoding'
        /\ UNCHANGED <<decode_branch, branch_predicted, decode_stall>>
    BY <1>0, <1>3
    DEF DecodeNoWord, UnwrittenByDecode, fetchvars, Quiet, NextRead, Decoding, ReadsInstWord,
        StartsInstruction
  <2>2. UNCHANGED NextOpcode
    BY <2>1 DEF NextOpcode
  <2> QED
    BY <1>0, <1>1, <2>1, <2>2 DEF HandedOffer, InLine, Quiet, FE!NothingPredicted
<1>4. CASE DecodeSkipHalf1
  <2>1. UNCHANGED <<Line, NextRead, decode_stall>>
    BY <1>1, <1>4 DEF DecodeSkipHalf1, icvars, fetchvars, NextRead, Line
  <2> QED
    BY <1>0, <1>1, <2>1, LineKept, LineHanded DEF Line, Quiet, FE!NothingPredicted
<1> QED
  BY <1>2, <1>3, <1>4 DEF RunDecodeHalf1

-----------------------------------------------------------------------------
\* The instruction that is offered is always the last one dispatched.
LEMMA OfferStays ==
  ASSUME OfferDispatched, RunDecodeHalf2
  PROVE  OfferDispatched' /\ (decoded_inst' = decoded_inst => offer' = offer)
<1>1. offer' = OfferedInstruction(decoded_inst') /\ program' = program
  BY DEF RunDecodeHalf2
<1>2. decoded_inst' = decoded_inst => offer' = offer
  BY <1>1 DEF OfferedInstruction, OfferDispatched
<1>3. OfferDispatched'
  BY <1>1 DEF OfferedInstruction, OfferDispatched
<1> QED
  BY <1>2, <1>3

\* One more word of the instruction in progress has been read.
LEMMA WordsGoOn ==
  ASSUME FrontInv, OfferInv, InLine, Decoding, FE!FetchAddrInStep
  PROVE  /\ WordsRead # <<>> /\ WordsRead[1] = imm_words[1]
         /\ WordsLeft \in Nat
         /\ WordsLeft + Len(WordsRead) = 1 + program[imm_words[1]].decoded.words
         /\ (IF ReadsOperand THEN fetch_addr ELSE NextRead) = Advance(imm_words[1], Len(WordsRead))
<1> DEFINE a == imm_words[1]
           n == Len(imm_words)
<1>0. /\ imm_words # <<>> /\ imm_words \in Seq(Addr) /\ a \in WordAddrs /\ words_to_read \in Nat
      /\ NextRead = Advance(a, n) /\ words_to_read + n = 1 + program[a].decoded.words
      /\ n \in Nat /\ n > 0
  BY DEF InLine, OfferInv, FrontInv, FE!TypeOK
<1>1. CASE ~ReadsOperand
  BY <1>0, <1>1 DEF WordsRead, WordsLeft
<1>2. CASE ReadsOperand
  <2>1. fetch_word \in WordAddrs /\ fetch_word \in Addr /\ NextRead = fetch_word /\ words_to_read > 0
    BY <1>2, WordsEven DEF ReadsOperand, NextRead, WordAddrs
  <2>2. WordsRead = Append(imm_words, fetch_word) /\ WordsLeft = words_to_read - 1
    BY <1>2 DEF WordsRead, WordsLeft
  <2>3. WordsRead # <<>> /\ WordsRead[1] = a /\ Len(WordsRead) = n + 1
    BY <1>0, <2>1, <2>2
  <2>4. fetch_addr = NextWord(fetch_word)
    BY <1>2, LatchedAddr DEF ReadsOperand
  <2>5. Advance(a, n) \in WordAddrs
    BY <1>0, <2>1
  <2>6. Advance(a, n + 1) = NextWord(Advance(a, n))
    BY <1>0, <2>5, AdvanceGoesOn, Zenon
  <2>7. WordsLeft \in Nat /\ WordsLeft + (n + 1) = words_to_read + n
    BY <1>0, <2>1, <2>2
  <2>8. fetch_addr = Advance(a, n + 1)
    BY <1>0, <2>1, <2>4, <2>6
  <2> QED
    BY <1>0, <1>2, <2>3, <2>7, <2>8
<1> QED
  BY <1>1, <1>2

\* The second half of the decode unit reads on, or dispatches what comes next.
LEMMA DecodeHalf2InLine ==
  ASSUME FrontInv, OfferInv, RunsStraight(program), ProgramInv, ~exec.inst.disable_clk, RunDecodeHalf2
  PROVE  InLine' /\ Quiet' /\ HandedOffer'
<1> DEFINE a == imm_words[1]
<1>0. /\ InLine /\ Quiet /\ HandedOffer /\ FE!WorksWithoutOffer /\ FE!FetchAddrInStep
      /\ OfferDispatched /\ ExecInv(program, exec) /\ program \in Programs
  BY DEF ProgramInv, OfferInv
<1>1. UNCHANGED <<program, exec>> /\ (decoded_inst' = decoded_inst => offer' = offer)
  BY <1>0, OfferStays DEF RunDecodeHalf2
<1>2. CASE DecodeSkipHalf2
  <2>1. UNCHANGED <<Line, NextRead, decode_stall>>
    BY <1>1, <1>2 DEF DecodeSkipHalf2, decodevars, icvars, fetchvars, NextRead, Line
  <2> QED
    BY <1>0, <2>1, LineKept, LineHanded DEF Line, Quiet, FE!NothingPredicted
<1>3. ASSUME DecodeReadOperands \/ DecodeDispatch
      PROVE  /\ Decoding /\ ~decoded_inst_semaph /\ Quiet'
             /\ imm_words' = WordsRead /\ UNCHANGED <<pgc, illegal>>
             /\ words_to_read' = WordsLeft
             /\ NextRead' = IF ReadsOperand THEN fetch_addr ELSE NextRead
  <2>1. Decoding /\ ~decoded_inst_semaph
    BY <1>0, <1>3 DEF DecodeReadOperands, DecodeDispatch, Decoding, FE!WorksWithoutOffer
  <2>2. /\ imm_words' = WordsRead /\ UNCHANGED <<pgc, illegal, fetch_word, fetch_addr, decode_branch,
                                               branch_predicted, decode_stall>>
        /\ words_to_read' = WordsLeft
        /\ fetch_word_semaph' = (fetch_word_semaph /\ ~ReadsOperand)
    BY <1>3 DEF DecodeReadOperands, DecodeDispatch, UnwrittenByDecode, fetchvars
  <2>3. NextRead' = IF ReadsOperand THEN fetch_addr ELSE NextRead
    BY <2>2 DEF NextRead, ReadsOperand
  <2> QED
    BY <1>0, <2>1, <2>2, <2>3 DEF Quiet, FE!NothingPredicted
<1>4. CASE DecodeReadOperands
  <2>1. /\ Decoding /\ Decoding' /\ UNCHANGED <<decoded_inst, decoded_inst_semaph>>
    BY <1>4 DEF DecodeReadOperands, Decoding
  <2>2. /\ WordsRead # <<>> /\ WordsRead[1] = a
        /\ WordsLeft + Len(WordsRead) = 1 + program[a].decoded.words
        /\ NextRead' = Advance(a, Len(WordsRead))
    BY <1>0, <1>3, <1>4, WordsGoOn
  <2>3. NextOpcode' = NextOpcode
    BY <1>3, <1>4, <2>1, <2>2 DEF NextOpcode
  <2>4. InLine'
    BY <1>0, <1>1, <1>3, <1>4, <2>1, <2>2, <2>3 DEF InLine
  <2> QED
    BY <1>0, <1>1, <1>3, <1>4, <2>1, <2>4 DEF HandedOffer
<1>5. CASE DecodeDispatch
  <2>1. Decoding /\ ~decoded_inst_semaph /\ Quiet'
    BY <1>3, <1>5
  <2>2. /\ WordsRead # <<>> /\ WordsRead[1] = a /\ WordsLeft = 0 /\ Len(WordsRead) \in Nat
        /\ WordsLeft + Len(WordsRead) = 1 + program[a].decoded.words
        /\ NextRead' = Advance(a, Len(WordsRead))
    BY <1>0, <1>3, <1>5, <2>1, WordsGoOn, WordsReadType DEF DecodeDispatch
  <2>3. /\ decoded_inst'.words = WordsRead /\ decoded_inst'.inst_pgc = NextWord(a)
        /\ decoded_inst_semaph' = TRUE /\ ~Decoding'
    BY <1>0, <1>5, <2>1 DEF DecodeDispatch, DispatchedPgc, InLine, Decoding
  <2>4. offer' = Of(program, a)
    BY <2>2, <2>3 DEF RunDecodeHalf2, OfferedInstruction, Of
  <2>5. NextOpcode = a /\ a \in CodeOf(program)
        /\ IF exec.inst.at = NowhereYet THEN a \in StartAddrs ELSE a = FollowerIn(program, exec.inst.at)
    BY <1>0, <2>1, NextInCode DEF NextOpcode
  <2>6. Of(program, a).at = a /\ a # NowhereYet
    BY <1>0, <2>5, OfFacts
  <2>7. NextOpcode' = FollowerIn(program, a)
    <3>1. NextOpcode' = NextRead'
      BY <2>3 DEF NextOpcode
    <3>2. Len(WordsRead) = 1 + program[a].decoded.words
      BY <2>2
    <3> QED
      BY <2>2, <3>1, <3>2, FollowerAdvances
  <2>8. InLine'
    BY <1>1, <2>3, <2>4, <2>6, <2>7 DEF InLine
  <2>9. ~(Left(program, exec) > 0)
    BY <1>0, <2>1 DEF HandedOffer, Handed
  <2>10. HandedOffer'
    BY <1>1, <2>3, <2>4, <2>5, <2>6, <2>9 DEF HandedOffer, Handed
  <2> QED
    BY <2>1, <2>8, <2>10
<1> QED
  BY <1>2, <1>4, <1>5 DEF RunDecodeHalf2, DecodeHalf2
-----------------------------------------------------------------------------
(***************************************************************************)
(* The invariant of the pipeline.                                          *)
(***************************************************************************)
\* The execute unit leaves the words alone.
LEMMA ExecuteLeavesLine ==
  ASSUME UNCHANGED <<program, offer, fetchvars, decodevars, UnwrittenByExecute>>
  PROVE  /\ UNCHANGED <<program, offer, decodevars, NextRead>> /\ (Quiet => Quiet')
  BY DEF UnwrittenByExecute, NextRead, Quiet, FE!NothingPredicted, fetchvars

\* Once HALT has been taken nothing else is.
LEMMA HaltIsLast ==
  ASSUME NEW p, NEW i, NEW j, NEW n, NEW m, InHand(p, i), InHand(p, j), i.disable_clk,
         Moves(p, i.at, n, j.at, m)
  PROVE  j.disable_clk
<1>1. i.at # NowhereYet /\ p[i.at].decoded.disable_clk
  BY DEF InHand
<1>2. j.at = i.at
  BY <1>1 DEF Moves
<1> QED
  BY <1>1, <1>2 DEF InHand

\* What a step of the execute unit does to the instruction and to what comes next.
LEMMA ExecuteInLine ==
  ASSUME UnitInv, OfferInv, RunsStraight(program), ProgramInv, RunExecuteHalf1 \/ RunExecuteHalf2
  PROVE  /\ ExecInv(program, exec)' /\ execute_branch' = FALSE
         /\ Moves(program, exec.inst.at, Left(program, exec), exec'.inst.at, Left(program, exec'))
         /\ ~exec'.inst.disable_clk => ~exec.inst.disable_clk /\ HandedOffer' /\ InLine' /\ Quiet'
<1>0. /\ ExecInv(program, exec) /\ execute_branch = FALSE /\ program \in Programs
      /\ exec \in ExecStates({FALSE}) /\ UnitTyped({FALSE}) /\ offer \in InstructionRecords({FALSE})
      /\ exec.phase = "START" => exec.seq = "WAIT_NEXT_INS"
      /\ ~exec.inst.disable_clk => HandedOffer /\ InLine /\ Quiet
  BY DEF ProgramInv, UnitInv, UnitTyped, OfferInv
<1>1. UNCHANGED <<program, offer, fetchvars, decodevars>>
  BY DEF RunExecuteHalf1, RunExecuteHalf2
<1>2. CASE RunExecuteHalf1
  <2>1. ExecHalf1 /\ UNCHANGED icvars
    BY <1>2 DEF RunExecuteHalf1, ExecHalf1
  <2>2. /\ ExecInv(program, exec') /\ exec'.inst.at = exec.inst.at
        /\ Left(program, exec') = Left(program, exec)
        /\ exec'.inst.disable_clk = exec.inst.disable_clk
    BY <1>0, <2>1, Half1Straight
  <2>3. UNCHANGED UnwrittenByExecute /\ UNCHANGED <<execute_branch, decoded_inst_semaph>>
    BY <2>1 DEF icvars, UnwrittenByExecute
  <2>4. HandedOffer => HandedOffer'
    BY <1>1, <2>2, <2>3 DEF HandedOffer
  <2> QED
    BY <1>0, <1>1, <2>2, <2>3, <2>4, ExecuteLeavesLine, LineKept DEF Moves
<1>3. CASE RunExecuteHalf2 /\ InSecondHalf
  <2>1. ExecHalf2(offer)
    BY <1>3 DEF RunExecuteHalf2
  <2>2. ~exec.inst.disable_clk =>
          Handed(program, offer, decoded_inst_semaph, exec.inst.at, Left(program, exec))
    BY <1>0 DEF HandedOffer
  <2>3. /\ ExecInv(program, exec') /\ UNCHANGED UnwrittenByExecute
        /\ Moves(program, exec.inst.at, Left(program, exec), exec'.inst.at, Left(program, exec'))
        /\ ~exec'.inst.disable_clk =>
             Handed(program, offer, decoded_inst_semaph', exec'.inst.at, Left(program, exec'))
        /\ ~execute_branch'
    BY <1>0, <1>3, <2>1, <2>2, Half2Straight
  <2>4. execute_branch' = FALSE
    <3>1. execute_branch' \in BOOLEAN
      BY <1>3, <2>1, Half2Typed DEF UnitInv, OfferInv, UnitTyped
    <3> QED
      BY <2>3, <3>1
  <2>5. exec.inst.disable_clk => exec'.inst.disable_clk
    BY <1>0, <2>3, HaltIsLast DEF ExecInv, Sound
  <2>6. ~exec'.inst.disable_clk => HandedOffer'
    BY <1>1, <2>3 DEF HandedOffer
  <2> QED
    BY <1>0, <1>1, <2>3, <2>4, <2>5, <2>6, ExecuteLeavesLine, LineKept
<1>4. CASE RunExecuteHalf2 /\ ~InSecondHalf
  <2>1. UNCHANGED <<exec, icvars>>
    BY <1>4 DEF RunExecuteHalf2, ExecHalf2, ExecSkipsHalf2, ExecAdvances, ExecAccesses, ExecBlocked
  <2>2. UNCHANGED UnwrittenByExecute /\ UNCHANGED <<exec, execute_branch, decoded_inst_semaph>>
    BY <2>1 DEF icvars, UnwrittenByExecute
  <2>3. HandedOffer => HandedOffer'
    BY <1>1, <2>2 DEF HandedOffer
  <2> QED
    BY <1>0, <1>1, <2>2, <2>3, ExecuteLeavesLine, LineKept DEF Moves
<1> QED
  BY <1>2, <1>3, <1>4

\* The other units raise no branch on the execute unit's line.
LEMMA BranchStays ==
  ASSUME execute_branch = FALSE,
         \/ RunFetchHalf1 \/ RunFetchHalf2 \/ RunDecodeHalf1 \/ RunDecodeHalf2
         \/ EndHalf1 \/ EndCycle \/ UNCHANGED vars
  PROVE  execute_branch' = FALSE
  BY DEF RunFetchHalf1, RunFetchHalf2, RunDecodeHalf1, RunDecodeHalf2, EndHalf1, EndCycle, vars,
      FetchHalf1, FetchHalf2, FetchMemWait, FetchDequeue, FetchSkipHalf1, FetchFull, FetchHold,
      FetchAssert, FetchSkipHalf2, ResolveBranch, DecodeNoWord, DecodeInstWord, DecodeSkipHalf1,
      DecodeHalf2, DecodeReadOperands, DecodeDispatch, DecodeSkipHalf2, UnwrittenByDecode,
      branchlines, icvars

\* What is left of a step of the other units.
LEMMA OthersInLine ==
  ASSUME FrontInv, FrontInv', FE!FetchAddrInStep', OfferInv, RunsStraight(program), ProgramInv,
         \/ RunFetchHalf1 \/ RunFetchHalf2 \/ RunDecodeHalf1 \/ RunDecodeHalf2
         \/ EndHalf1 \/ EndCycle \/ UNCHANGED vars
  PROVE  /\ UNCHANGED <<program, exec>> /\ execute_branch' = FALSE
         /\ ~exec.inst.disable_clk => HandedOffer' /\ InLine' /\ Quiet'
<1>0. /\ execute_branch = FALSE
      /\ ~exec.inst.disable_clk => HandedOffer /\ InLine /\ Quiet
  BY DEF ProgramInv
<1>1. UNCHANGED <<program, exec>>
  BY DEF RunFetchHalf1, RunFetchHalf2, RunDecodeHalf1, RunDecodeHalf2, EndHalf1, EndCycle, vars
<1>2. execute_branch' = FALSE
  BY <1>0, BranchStays
<1>3. ASSUME ~exec.inst.disable_clk PROVE HandedOffer' /\ InLine' /\ Quiet'
  <2>0. HandedOffer /\ InLine /\ Quiet
    BY <1>0, <1>3
  <2>1. CASE RunFetchHalf1
    <3>1. UNCHANGED <<Line, NextRead>> /\ decode_stall' = FALSE
      BY <2>0, <2>1, Half1InLine DEF Quiet
    <3> QED
      BY <2>0, <3>1, LineKept, LineHanded DEF Line, Quiet, FE!NothingPredicted
  <2>2. CASE RunFetchHalf2
    <3>1. UNCHANGED <<Line, NextRead, decode_stall>>
      BY <1>0, <2>0, <2>2, Half2InLine
    <3> QED
      BY <2>0, <3>1, LineKept, LineHanded DEF Line, Quiet, FE!NothingPredicted
  <2>3. CASE RunDecodeHalf1
    BY <1>3, <2>3, DecodeHalf1InLine
  <2>4. CASE RunDecodeHalf2
    BY <1>3, <2>4, DecodeHalf2InLine
  <2>5. CASE EndHalf1 \/ EndCycle \/ UNCHANGED vars
    <3>1. UNCHANGED <<Line, NextRead, decode_stall>>
      BY <2>5 DEF EndHalf1, EndCycle, vars, icvars, fetchvars, Line, NextRead
    <3> QED
      BY <2>0, <3>1, LineKept, LineHanded DEF Line, Quiet, FE!NothingPredicted
  <2> QED
    BY <2>1, <2>2, <2>3, <2>4, <2>5
<1> QED
  BY <1>1, <1>2, <1>3

\* The address reported stays in step.
LEMMA StepKept ==
  ASSUME FE!FetchBeforeExecute, FrontInv, FE!StreamInOrder, FE!NothingPredicted,
         FE!FetchAddrInStep, [FE!Next]_FE!vars
  PROVE  FE!FetchAddrInStep'
<1>1. FE!TypeOK /\ FE!ReadInv
  BY DEF FrontInv
<1>2. CASE FE!RunFetchHalf1
  BY <1>1, <1>2, FE!StepFetchHalf1, PortAssumptions, AddrAssumption, QueueAssumption, DecodeAssumption
<1>3. CASE FE!RunFetchHalf2
  BY <1>1, <1>3, FE!StepFetchHalf2, PortAssumptions, AddrAssumption, QueueAssumption, DecodeAssumption
<1>4. CASE ~FE!RunFetchHalf1 /\ ~FE!RunFetchHalf2
  <2>1. \/ FE!RunDecodeHalf1 \/ FE!RunDecodeHalf2 \/ FE!RunExecuteHalf1 \/ FE!RunExecuteHalf2
        \/ FE!EndHalf1 \/ FE!EndCycle \/ UNCHANGED FE!vars
    BY <1>4 DEF FE!Next
  <2> QED
    BY <1>1, <2>1, FE!StepOthers, PortAssumptions, AddrAssumption, QueueAssumption, DecodeAssumption
<1> QED
  BY <1>2, <1>3, <1>4

\* ... and nothing is offered while the decode unit works.
LEMMA NothingOfferedKept ==
  ASSUME FrontInv, FE!WorksWithoutOffer, [FE!Next]_FE!vars PROVE FE!WorksWithoutOffer'
<1>1. FE!TypeOK
  BY DEF FrontInv
<1>2. CASE FE!RunDecodeHalf1
  BY <1>1, <1>2, FE!OfferDecodeHalf1, PortAssumptions, AddrAssumption, QueueAssumption, DecodeAssumption
<1>3. CASE FE!RunDecodeHalf2
  BY <1>1, <1>3, FE!OfferDecodeHalf2, PortAssumptions, AddrAssumption, QueueAssumption, DecodeAssumption
<1>4. CASE ~FE!RunDecodeHalf1 /\ ~FE!RunDecodeHalf2
  <2>1. \/ FE!RunFetchHalf1 \/ FE!RunFetchHalf2 \/ FE!RunExecuteHalf1 \/ FE!RunExecuteHalf2
        \/ FE!EndHalf1 \/ FE!EndCycle \/ UNCHANGED FE!vars
    BY <1>4 DEF FE!Next
  <2> QED
    BY <1>1, <2>1, FE!OfferKept, PortAssumptions, AddrAssumption, QueueAssumption, DecodeAssumption
<1> QED
  BY <1>2, <1>3, <1>4

\* Every step keeps the invariant and goes on as the program says.
LEMMA ProgramStep ==
  ASSUME FE!FetchBeforeExecute, FrontInv, OfferInv, UnitInv, FE!StreamInOrder,
         RunsStraight(program), ProgramInv, [Next]_vars
  PROVE  /\ ProgramInv' /\ UNCHANGED program
         /\ Moves(program, exec.inst.at, Left(program, exec), exec'.inst.at, Left(program, exec'))
<1>1. FrontInv' /\ [FE!Next]_FE!vars
  BY PilotStep
<1>2. FE!WorksWithoutOffer'
  BY <1>1, NothingOfferedKept DEF ProgramInv
<1>3. ~exec.inst.disable_clk => FE!FetchAddrInStep'
  BY <1>1, StepKept DEF ProgramInv, Quiet
<1>4. OfferDispatched'
  <2>1. CASE RunDecodeHalf2
    BY <2>1, OfferStays DEF ProgramInv
  <2>2. CASE UNCHANGED <<program, offer, decoded_inst>>
    BY <2>2 DEF ProgramInv, OfferDispatched
  <2> QED
    BY <2>1, <2>2
    DEF Next, vars, decodevars, RunFetchHalf1, RunFetchHalf2, RunDecodeHalf1, DecodeInstWord,
        DecodeNoWord, DecodeSkipHalf1, RunExecuteHalf1, RunExecuteHalf2, EndHalf1, EndCycle
<1>5. CASE RunExecuteHalf1 \/ RunExecuteHalf2
  <2>1. /\ ExecInv(program, exec)' /\ execute_branch' = FALSE
        /\ Moves(program, exec.inst.at, Left(program, exec), exec'.inst.at, Left(program, exec'))
        /\ ~exec'.inst.disable_clk => ~exec.inst.disable_clk /\ HandedOffer' /\ InLine' /\ Quiet'
    BY <1>5, ExecuteInLine
  <2>2. UNCHANGED program
    BY <1>5 DEF RunExecuteHalf1, RunExecuteHalf2
  <2> QED
    BY <1>2, <1>3, <1>4, <2>1, <2>2 DEF ProgramInv
<1>6. CASE \/ RunFetchHalf1 \/ RunFetchHalf2 \/ RunDecodeHalf1 \/ RunDecodeHalf2
           \/ EndHalf1 \/ EndCycle \/ UNCHANGED vars
  <2>1. ExecInv(program, exec)
    BY DEF ProgramInv
  <2>2. CASE ~exec.inst.disable_clk
    <3>1. UNCHANGED <<program, exec>> /\ execute_branch' = FALSE /\ HandedOffer' /\ InLine' /\ Quiet'
      BY <1>1, <1>3, <1>6, <2>2, OthersInLine
    <3> QED
      BY <1>2, <1>3, <1>4, <2>1, <2>2, <3>1 DEF ProgramInv, Moves
  <2>3. CASE exec.inst.disable_clk
    <3>1. UNCHANGED <<program, exec>>
      BY <1>6 DEF RunFetchHalf1, RunFetchHalf2, RunDecodeHalf1, RunDecodeHalf2, EndHalf1, EndCycle, vars
    <3>2. execute_branch' = FALSE
      BY <1>6, BranchStays DEF ProgramInv
    <3> QED
      BY <1>2, <1>4, <2>1, <2>3, <3>1, <3>2 DEF ProgramInv, Moves
  <2> QED
    BY <2>2, <2>3
<1> QED
  BY <1>5, <1>6 DEF Next
\* Before the first instruction there is nothing to do.
LEMMA NothingToDo ==
  ASSUME NEW p, RunsStraight(p), ExecuteInit
  PROVE  ExecInv(p, exec) /\ exec.inst.at = NowhereYet /\ Left(p, exec) = 0
<1> DEFINE b == Base([NoEntry EXCEPT !.size = 8])
           i == Instruction(0, NowhereYet, Blank, 0, {}, FALSE)
<1>1. /\ exec.inst = i /\ exec.buffer = b /\ exec.phase = "START" /\ exec.seq = "WAIT_NEXT_INS"
      /\ exec.repeat_type = "MU_NONE" /\ exec.branched = FALSE
  BY DEF ExecuteInit
<1>2. b.branch = FALSE /\ b.operation.dest = "ZERO"
  BY DEF Base, IdleControl
<1>3. /\ i.at = NowhereYet /\ i.illegal = FALSE /\ i.restart = FALSE /\ i.disable_clk = FALSE
      /\ i.before.idx = "MU_NONE" /\ i.after.idx = "MU_NONE" /\ i.core.dest = "ZERO"
      /\ i.repeat = "MU_NONE"
  BY DEF Instruction, Blank, NoEntry, IdleControl
<1> HIDE DEF b, i
<1>4. InHand(p, exec.inst)
  BY <1>1, <1>3 DEF InHand, Repeating, OperandEntries
<1>5. ~Counting(p, exec) /\ ~Repeating(p, exec.inst)
  BY <1>1, <1>3 DEF Counting, Repeating
<1>6. Sound(p, exec) /\ InPlace(p, exec) /\ BufferSpent(exec) /\ Idle(p, exec)
  BY <1>1, <1>2, <1>3, <1>4, <1>5 DEF Sound, InPlace, BufferSpent, Idle
<1> QED
  BY <1>1, <1>3, <1>5, <1>6 DEF ExecInv, Left

\* The invariant holds initially.
LEMMA ProgramInit == Init /\ RunsStraight(program) => ProgramInv
<1> SUFFICES ASSUME Init, RunsStraight(program) PROVE ProgramInv
  OBVIOUS
<1>1. ExecInv(program, exec) /\ exec.inst.at = NowhereYet /\ Left(program, exec) = 0
  BY NothingToDo DEF Init
<1>2. HandedOffer
  BY <1>1 DEF Init, InterconnectInit, HandedOffer, Handed
<1>3. NextOpcode = fetch_addr /\ fetch_addr \in StartAddrs /\ ~Decoding /\ offer.at = NowhereYet
  BY <1>1 DEF Init, InterconnectInit, DecodeInit, NextOpcode, NextRead, Decoding
<1>4. InLine /\ Quiet
  BY <1>3 DEF InLine, Quiet, FE!NothingPredicted, Init, InterconnectInit, FetchInit
<1>5. FE!FetchAddrInStep
  BY PortInit, FE!StepInit, PortAssumptions, AddrAssumption, QueueAssumption, DecodeAssumption
<1>6. FE!WorksWithoutOffer /\ OfferDispatched
  BY DEF Init, DecodeInit, FE!WorksWithoutOffer, OfferDispatched
<1> QED
  BY <1>1, <1>2, <1>4, <1>5, <1>6 DEF ProgramInv, Init, InterconnectInit

-----------------------------------------------------------------------------
(***************************************************************************)
(* The instruction set.                                                    *)
(***************************************************************************)
\* How often is left to do, as the abstract specification sees it.
LEMMA TimesLeft ==
  ASSUME NEW p, NEW x, Sound(p, x)
  PROVE  Left(p, x) = IF x.repeat_type = "MU_REPI" /\ ~RepeatsIn(p, x.inst.at) THEN x.repi ELSE 0
  BY DEF Sound, Left, Counting, Repeating

\* Initially nothing has been executed.
LEMMA MeaningInit == Init /\ RunsStraight(program) => Meaning!Init
<1> SUFFICES ASSUME Init, RunsStraight(program) PROVE Meaning!Init
  OBVIOUS
<1>1. ExecInv(program, exec) /\ exec.inst.at = NowhereYet /\ Left(program, exec) = 0
  BY NothingToDo DEF Init
<1> QED
  BY <1>1, TimesLeft DEF Meaning!Init, ExecInv

\* A call that moves on does so to the instruction that the program has there.
LEMMA MeaningStep ==
  ASSUME ProgramInv, ProgramInv', RunsStraight(program), UNCHANGED program,
         Moves(program, exec.inst.at, Left(program, exec), exec'.inst.at, Left(program, exec'))
  PROVE  [Meaning!Next]_(Meaning!isavars)
<1> DEFINE a == exec.inst.at
           n == Left(program, exec)
           f == [b \in WordAddrs |-> FollowerIn(program, b)]
           g == [b \in WordAddrs |-> AgainIn(program, b)]
           t == IF exec.repeat_type = "MU_REPI" /\ ~RepeatsIn(program, exec.inst.at) THEN exec.repi ELSE 0
<1>1. n = t
  BY TimesLeft DEF ProgramInv, ExecInv
<1>2. Left(program, exec') = t'
  BY TimesLeft DEF ProgramInv, ExecInv
<1>3. f' = f /\ g' = g
  OBVIOUS
<1>4. a # NowhereYet => a \in WordAddrs
  BY CodeIsStraight DEF ProgramInv, ExecInv, Sound, InHand
<1>5. a # NowhereYet => f[a] = FollowerIn(program, a) /\ g[a] = AgainIn(program, a)
  BY <1>4
<1> HIDE DEF a, n, f, g, t
<1>6. CASE a' = a /\ t' = t
  BY <1>3, <1>6 DEF Meaning!isavars, a, f, g, t
<1>7. CASE a = NowhereYet /\ a' \in StartAddrs /\ t' = 0
  <2>1. Meaning!Start
    BY <1>3, <1>7 DEF Meaning!Start, Meaning!TheProgram, a, f, g, t
  <2> QED
    BY <2>1 DEF Meaning!Next
<1>8. CASE a # NowhereYet /\ t = 0 /\ a' = f[a] /\ t' = g[a]
  <2>1. Meaning!Proceed
    BY <1>3, <1>8 DEF Meaning!Proceed, Meaning!TheProgram, a, f, g, t
  <2> QED
    BY <2>1 DEF Meaning!Next
<1>9. CASE t > 0 /\ a' = a /\ t' = t - 1
  <2>1. Meaning!Repeat
    BY <1>3, <1>9 DEF Meaning!Repeat, Meaning!TheProgram, a, f, g, t
  <2> QED
    BY <2>1 DEF Meaning!Next
<1>10. Moves(program, a, t, a', t')
  BY <1>1, <1>2 DEF a, n
<1> QED
  BY <1>5, <1>6, <1>7, <1>8, <1>9, <1>10 DEF Moves

\* Everything that is known of the processor when it runs straight programs.
WholeInv == FrontInv /\ OfferInv /\ UnitInv /\ ProgramInv /\ RunsStraight(program)

\* The whole invariant, kept by every step; each step is one of the instruction set.
LEMMA WholeStep ==
  ASSUME FE!FetchBeforeExecute, WholeInv, FE!StreamInOrder, [Next]_vars
  PROVE  WholeInv' /\ [Meaning!Next]_(Meaning!isavars)
<1>1. FrontInv' /\ OfferInv' /\ UnitInv'
  BY PilotStep DEF WholeInv
<1>2. /\ ProgramInv' /\ UNCHANGED program
      /\ Moves(program, exec.inst.at, Left(program, exec), exec'.inst.at, Left(program, exec'))
  BY ProgramStep DEF WholeInv
<1>3. RunsStraight(program)'
  BY <1>2 DEF WholeInv
<1> QED
  BY <1>1, <1>2, <1>3, MeaningStep DEF WholeInv

\* The pipeline executes every straight program as the instruction set says: the
\* instructions that are in memory, in the order of their addresses, each once, or as
\* often as REPI in front of it says; whatever the bus does, and however the calls of
\* the units are ordered as long as fetch precedes execute in first halves.
THEOREM ExecutesStraightPrograms ==
  ASSUME FE!FetchBeforeExecute, \A p \in Programs : RunsStraight(p)
  PROVE  Spec => ExecutesTheProgram
<1>1. Init => WholeInv /\ Meaning!Init
  BY PilotInit, ProgramInit, MeaningInit DEF WholeInv, Init
<1>2. WholeInv /\ FE!StreamInOrder /\ [Next]_vars => WholeInv' /\ [Meaning!Next]_(Meaning!isavars)
  BY WholeStep
<1>3. Spec => []FE!StreamInOrder
  BY PilotSafe, PTL
<1> QED
  BY <1>1, <1>2, <1>3, PTL DEF Spec, ExecutesTheProgram, Meaning!Spec

\* In a straight program an instruction always runs with the PGC that follows its opcode.
THEOREM PgcIsInPlace ==
  ASSUME FE!FetchBeforeExecute, \A p \in Programs : RunsStraight(p)
  PROVE  Spec => []PgcOfInstruction
<1>1. Init => WholeInv
  BY PilotInit, ProgramInit DEF WholeInv, Init
<1>2. WholeInv /\ FE!StreamInOrder /\ [Next]_vars => WholeInv'
  BY WholeStep
<1>3. Spec => []FE!StreamInOrder
  BY PilotSafe, PTL
<1>4. WholeInv => PgcOfInstruction
  BY DEF WholeInv, ProgramInv, ExecInv, InPlace, Counting, PgcOfInstruction
<1> QED
  BY <1>1, <1>2, <1>3, <1>4, PTL DEF Spec
=============================================================================
