----------------------------- MODULE DecodeProofs -----------------------------
(***************************************************************************)
(* What the decode unit hands to the execute unit: an instruction is never *)
(* replaced before it is taken, and without predicted branches it carries  *)
(* the right PGC.                                                          *)
(***************************************************************************)
EXTENDS FrontEndProofs

-----------------------------------------------------------------------------
\* Only these steps touch the decode unit's state or the offer.
LEMMA OfferKept ==
  ASSUME TypeOK, WorksWithoutOffer,
         \/ RunFetchHalf1 \/ RunFetchHalf2 \/ RunExecuteHalf1 \/ RunExecuteHalf2
         \/ EndHalf1 \/ EndCycle \/ UNCHANGED vars
  PROVE  UNCHANGED decodevars /\ WorksWithoutOffer'
<1>1. UNCHANGED decodevars
  BY DEF RunFetchHalf1, RunFetchHalf2, RunExecuteHalf1, RunExecuteHalf2, ExecuteHalf1,
         ExecuteHalf2, ExecuteIdles, ExecuteTakes, ExecuteSteps, ExecuteSkips, EndHalf1,
         EndCycle, vars
<1>2. CASE RunFetchHalf1 \/ RunFetchHalf2 \/ EndHalf1 \/ EndCycle \/ UNCHANGED vars
  <2>1. UNCHANGED decoded_inst_semaph
    BY <1>2
    DEF RunFetchHalf1, RunFetchHalf2, FetchHalf1, FetchHalf2, FetchMemWait, FetchDequeue,
        FetchSkipHalf1, FetchFull, FetchHold, FetchAssert, FetchSkipHalf2, ResolveBranch,
        EndHalf1, EndCycle, vars, icvars
  <2> QED
    BY <1>1, <2>1 DEF WorksWithoutOffer, decodevars
<1>3. CASE RunExecuteHalf1 \/ RunExecuteHalf2
  <2>1. decoded_inst_semaph' = decoded_inst_semaph \/ decoded_inst_semaph' = FALSE
    BY <1>3
    DEF RunExecuteHalf1, RunExecuteHalf2, ExecuteHalf1, ExecuteHalf2, ExecuteIdles,
        ExecuteTakes, ExecuteSteps, ExecuteSkips, icvars
  <2> QED
    BY <1>1, <2>1 DEF WorksWithoutOffer, decodevars
<1> QED
  BY <1>1, <1>2, <1>3

\* The first half of the decode unit works only when nothing is offered,
LEMMA OfferDecodeHalf1 ==
  ASSUME TypeOK, WorksWithoutOffer, RunDecodeHalf1
  PROVE  WorksWithoutOffer' /\ decoded_inst' = decoded_inst
<1>1. CASE DecodeNoWord
  BY <1>1
  DEF TypeOK, DecodePhases, WorksWithoutOffer, DecodeNoWord, ReadsInstWord,
      StartsInstruction
<1>2. ASSUME NEW k \in Kinds, DecodeInstWord(k)
      PROVE WorksWithoutOffer' /\ decoded_inst' = decoded_inst
  BY <1>2
  DEF TypeOK, DecodePhases, WorksWithoutOffer, DecodeInstWord, ReadsInstWord,
      StartsInstruction
<1>3. CASE DecodeSkipHalf1
  BY <1>3 DEF WorksWithoutOffer, DecodeSkipHalf1, decodevars, icvars
<1> QED
  BY <1>1, <1>2, <1>3 DEF RunDecodeHalf1, DecodeHalf1

\* and so its second half dispatches only then.
LEMMA OfferDecodeHalf2 ==
  ASSUME TypeOK, WorksWithoutOffer, RunDecodeHalf2
  PROVE  WorksWithoutOffer' /\ (decoded_inst' # decoded_inst => ~decoded_inst_semaph)
<1>1. CASE DecodeReadOperands
  BY <1>1 DEF WorksWithoutOffer, DecodeReadOperands
<1>2. CASE DecodeDispatch
  BY <1>2 DEF WorksWithoutOffer, DecodeDispatch
<1>3. CASE DecodeSkipHalf2
  BY <1>3 DEF WorksWithoutOffer, DecodeSkipHalf2, decodevars, icvars
<1> QED
  BY <1>1, <1>2, <1>3 DEF RunDecodeHalf2, DecodeHalf2

\* No dispatched instruction is replaced while the execute unit has yet to take
\* it, whatever that unit does and in whatever order the units are called.
THEOREM OfferSafe == Spec => NoPendingInstructionOverwritten
<1>1. Init => WorksWithoutOffer
  BY DEF Init, DecodeInit, WorksWithoutOffer
<1>2. TypeOK /\ WorksWithoutOffer /\ [Next]_vars => WorksWithoutOffer'
  BY OfferKept, OfferDecodeHalf1, OfferDecodeHalf2 DEF Next
<1>3. TypeOK /\ WorksWithoutOffer /\ [Next]_vars =>
        [decoded_inst' # decoded_inst => ~decoded_inst_semaph]_vars
  <2> SUFFICES ASSUME TypeOK, WorksWithoutOffer, [Next]_vars, decoded_inst' # decoded_inst
               PROVE  ~decoded_inst_semaph
    OBVIOUS
  <2>1. CASE RunDecodeHalf1
    BY <2>1, OfferDecodeHalf1
  <2>2. CASE RunDecodeHalf2
    BY <2>2, OfferDecodeHalf2
  <2>3. CASE ~RunDecodeHalf1 /\ ~RunDecodeHalf2
    <3>1. UNCHANGED decodevars
      BY <2>3, OfferKept DEF Next
    <3> QED
      BY <3>1 DEF decodevars
  <2> QED
    BY <2>1, <2>2, <2>3
<1> QED
  BY TypeCorrect, <1>1, <1>2, <1>3, PTL DEF Spec, NoPendingInstructionOverwritten

-----------------------------------------------------------------------------
\* Who may empty the word latch, and what becomes of the word.
LEMMA WordKept ==
  ASSUME TypeOK, [Next]_vars, fetch_word_semaph
  PROVE  \/ fetch_word_semaph' /\ fetch_word' = fetch_word
         \/ imm_words' # <<>> /\ imm_words'[Len(imm_words')] = fetch_word
         \/ (decode_branch \/ execute_branch) /\ queue' = EmptyQueue
<1>1. CASE RunFetchHalf1
  BY <1>1
  DEF RunFetchHalf1, FetchHalf1, FetchMemWait, FetchDequeue, FetchLatchesWord,
      FetchSkipHalf1, icvars
<1>2. CASE RunFetchHalf2
  <2>1. CASE FetchSkipHalf2
    BY <2>1 DEF FetchSkipHalf2, icvars
  <2>2. CASE FetchFull \/ FetchHold \/ FetchAssert
    <3>1. fetch_word' = fetch_word /\ fetch_word_semaph' = ~Flushes
      BY <2>2 DEF FetchFull, FetchHold, FetchAssert, ResolveBranch
    <3>2. Flushes => (decode_branch \/ execute_branch) /\ queue' = EmptyQueue
      BY <2>2
      DEF FetchFull, FetchHold, FetchAssert, ResolvedQueue, Flushes, DecodeBranches,
          ExecuteRedirects, ExecuteBranches
    <3> QED
      BY <3>1, <3>2
  <2> QED
    BY <1>2, <2>1, <2>2 DEF RunFetchHalf2, FetchHalf2
<1>3. CASE RunDecodeHalf1
  <2>1. CASE DecodeNoWord
    BY <2>1 DEF DecodeNoWord
  <2>2. ASSUME NEW k \in Kinds, DecodeInstWord(k)
        PROVE  imm_words' # <<>> /\ imm_words'[Len(imm_words')] = fetch_word
    <3>1. imm_words' = <<fetch_word>>
      BY <2>2 DEF DecodeInstWord
    <3> QED
      BY <3>1
  <2>3. CASE DecodeSkipHalf1
    BY <2>3 DEF DecodeSkipHalf1, icvars
  <2> QED
    BY <1>3, <2>1, <2>2, <2>3 DEF RunDecodeHalf1, DecodeHalf1
<1>4. CASE RunDecodeHalf2
  <2>1. CASE DecodeSkipHalf2
    BY <2>1 DEF DecodeSkipHalf2, icvars
  <2>2. CASE DecodeReadOperands \/ DecodeDispatch
    <3>1. /\ imm_words' = WordsRead /\ fetch_word' = fetch_word
          /\ fetch_word_semaph' = ~ReadsOperand
      BY <2>2 DEF DecodeReadOperands, DecodeDispatch, UnwrittenByDecode
    <3>2. CASE ReadsOperand
      <4>1. imm_words' = Append(imm_words, fetch_word) /\ imm_words \in Seq(Addr)
        BY <3>1, <3>2 DEF TypeOK, WordsRead
      <4> QED
        BY <4>1
    <3> QED
      BY <3>1, <3>2
  <2> QED
    BY <1>4, <2>1, <2>2 DEF RunDecodeHalf2, DecodeHalf2
<1>5. CASE RunExecuteHalf1 \/ RunExecuteHalf2 \/ EndHalf1 \/ EndCycle \/ UNCHANGED vars
  BY <1>5
  DEF RunExecuteHalf1, RunExecuteHalf2, ExecuteHalf1, ExecuteHalf2, ExecuteIdles,
      ExecuteTakes, ExecuteSteps, ExecuteSkips, UnwrittenByExecute, EndHalf1, EndCycle,
      vars, icvars
<1> QED
  BY <1>1, <1>2, <1>3, <1>4, <1>5 DEF Next

\* No word that has reached the latch is lost on the way into an instruction,
\* in whatever order the units are called.
THEOREM WordsSafe == Spec => NoWordDropped
<1>1. TypeOK /\ [Next]_vars =>
        [fetch_word_semaph =>
           \/ fetch_word_semaph' /\ fetch_word' = fetch_word
           \/ imm_words' # <<>> /\ imm_words'[Len(imm_words')] = fetch_word
           \/ (decode_branch \/ execute_branch) /\ queue' = EmptyQueue]_vars
  BY WordKept
<1> QED
  BY TypeCorrect, <1>1, PTL DEF Spec, NoWordDropped

-----------------------------------------------------------------------------
(***************************************************************************)
(* PGC, when no branch is ever predicted.                                  *)
(***************************************************************************)
NoPredictions == \A k \in Kinds : k.branch = "none"
NothingPredicted == decode_branch = FALSE /\ branch_predicted = FALSE

\* No prediction is pending initially.
LEMMA PredictedInit == Init => NothingPredicted
  BY DEF Init, InterconnectInit, FetchInit, NothingPredicted

\* Without predicted branches none ever is.
LEMMA PredictedStep ==
  ASSUME NoPredictions, NothingPredicted, [Next]_vars
  PROVE  NothingPredicted'
<1>1. CASE RunFetchHalf1
  BY <1>1
  DEF NothingPredicted, RunFetchHalf1, FetchHalf1, FetchMemWait, FetchDequeue,
      FetchSkipHalf1, branchlines, icvars, fetchvars
<1>2. CASE RunFetchHalf2
  BY <1>2
  DEF NothingPredicted, RunFetchHalf2, FetchHalf2, FetchFull, FetchHold, FetchAssert,
      FetchSkipHalf2, ResolveBranch, PredictedBefore, DecodeBranches, icvars, fetchvars
<1>3. CASE RunDecodeHalf1
  BY <1>3
  DEF NoPredictions, NothingPredicted, RunDecodeHalf1, DecodeHalf1, DecodeNoWord,
      DecodeInstWord, DecodeSkipHalf1, icvars, fetchvars
<1>4. CASE RunDecodeHalf2
  BY <1>4
  DEF NothingPredicted, RunDecodeHalf2, DecodeHalf2, DecodeReadOperands, DecodeDispatch,
      DecodeSkipHalf2, icvars, fetchvars
<1>5. CASE RunExecuteHalf1 \/ RunExecuteHalf2
  BY <1>5
  DEF NothingPredicted, RunExecuteHalf1, RunExecuteHalf2, ExecuteHalf1, ExecuteHalf2,
      ExecuteIdles, ExecuteTakes, ExecuteSteps, ExecuteSkips, UnwrittenByExecute,
      branchlines, icvars, fetchvars
<1>6. CASE EndHalf1 \/ EndCycle \/ UNCHANGED vars
  BY <1>6 DEF NothingPredicted, EndHalf1, HalfEnds, EndCycle, vars, icvars, fetchvars
<1> QED
  BY <1>1, <1>2, <1>3, <1>4, <1>5, <1>6 DEF Next

\* The empty row is in step.
LEMMA StepInit == Init => FetchAddrInStep
<1> SUFFICES ASSUME Init PROVE FetchAddrInStep
  OBVIOUS
<1>1. queue = EmptyQueue /\ Latch = NoWord /\ Requested = fetch_addr
  BY DEF Init, FetchInit, InterconnectInit, Latch, Requested
<1> QED
  BY <1>1, TypeInit, RowTypes, FlushedRow DEF FetchAddrInStep

\* Loading and latching keep the row in step.
LEMMA StepFetchHalf1 ==
  TypeOK /\ ReadInv /\ FetchAddrInStep /\ RunFetchHalf1 => FetchAddrInStep'
<1> SUFFICES ASSUME TypeOK, ReadInv, FetchAddrInStep, RunFetchHalf1 PROVE FetchAddrInStep'
  OBVIOUS
<1>1. CASE FetchMemWait
  <2>1. InStep(ShiftedQueue, Requested, Latch, fetch_addr)
    BY RowTypes, ShiftInStep DEF ShiftedQueue, FetchAddrInStep
  <2>2. /\ queue' = ShiftedQueue /\ Requested' = Requested /\ Latch' = Latch
        /\ fetch_addr' = fetch_addr
    BY <1>1 DEF FetchMemWait, Requested, PendingAddr, BusReady, Latch, mcvars, icvars
  <2> QED
    BY <2>1, <2>2 DEF FetchAddrInStep
<1>2. CASE FetchDequeue
  <2>1. InStep(LoadedQueue, fetch_mem_addr, Latch, fetch_addr) /\ LoadedQueue \in Queues
    BY <1>2, LoadedRow, LoadedQueueType DEF FetchDequeue
  <2>2. Requested' = fetch_mem_addr
    BY <1>2 DEF FetchDequeue, Requested
  <2>3. CASE FetchLatchesWord
    <3>1. /\ queue' = [LoadedQueue EXCEPT ![LastSlot] = NoWord]
          /\ Latch' = LoadedQueue[LastSlot] /\ fetch_addr' = NextWord(fetch_addr)
      BY <1>2, <2>3 DEF FetchDequeue, Latch
    <3>2. InStep([LoadedQueue EXCEPT ![LastSlot] = NoWord], fetch_mem_addr,
                 LoadedQueue[LastSlot], NextWord(fetch_addr))
      BY <2>1, <2>3, RowTypes, LatchInStep DEF FetchLatchesWord, Latch
    <3> QED
      BY <2>2, <3>1, <3>2 DEF FetchAddrInStep
  <2>4. CASE ~FetchLatchesWord
    <3>1. queue' = LoadedQueue /\ Latch' = Latch /\ fetch_addr' = fetch_addr
      BY <1>2, <2>4 DEF FetchDequeue, Latch
    <3> QED
      BY <2>1, <2>2, <3>1 DEF FetchAddrInStep
  <2> QED
    BY <2>3, <2>4
<1>3. CASE FetchSkipHalf1
  BY <1>3
  DEF FetchSkipHalf1, FetchAddrInStep, Requested, PendingAddr, BusReady, Latch, mcvars,
      icvars, fetchvars
<1> QED
  BY <1>1, <1>2, <1>3 DEF RunFetchHalf1, FetchHalf1

\* Without predictions every flush goes where fetch_addr goes.
LEMMA StepFetchHalf2 ==
  TypeOK /\ ReadInv /\ NothingPredicted /\ FetchAddrInStep /\ RunFetchHalf2 => FetchAddrInStep'
<1> SUFFICES ASSUME TypeOK, ReadInv, NothingPredicted, FetchAddrInStep, RunFetchHalf2
             PROVE  FetchAddrInStep'
  OBVIOUS
<1>1. CASE FetchFull \/ FetchHold \/ FetchAssert
  <2>1. fetch_addr' = ReportedAddr
    BY <1>1 DEF FetchFull, FetchHold, FetchAssert, ResolveBranch
  <2>2. CASE Flushes
    <3>1. ReportedAddr = ResolvedAddr
      BY <2>2
      DEF NothingPredicted, Flushes, DecodeBranches, ExecuteRedirects, ReportedAddr,
          ResolvedAddr
    <3> QED
      BY <1>1, <2>1, <2>2, <3>1, ResolvedRow, RowTypes, FlushedRow DEF FetchAddrInStep
  <2>3. CASE ~Flushes
    <3>1. fetch_addr' = fetch_addr
      BY <2>1, <2>3
      DEF NothingPredicted, Flushes, DecodeBranches, ExecuteRedirects, PredictedBefore,
          ReportedAddr
    <3> QED
      BY <1>1, <2>3, <3>1, ResolvedRow DEF FetchAddrInStep
  <2> QED
    BY <2>2, <2>3
<1>2. CASE FetchSkipHalf2
  BY <1>2
  DEF FetchSkipHalf2, FetchAddrInStep, Requested, PendingAddr, BusReady, Latch, mcvars,
      icvars, fetchvars
<1> QED
  BY <1>1, <1>2 DEF RunFetchHalf2, FetchHalf2

\* The others at most take the word in the latch.
LEMMA StepOthers ==
  ASSUME FetchBeforeExecute, TypeOK, ReadInv, StreamInOrder, FetchAddrInStep,
         \/ RunDecodeHalf1 \/ RunDecodeHalf2 \/ RunExecuteHalf1 \/ RunExecuteHalf2
         \/ EndHalf1 \/ EndCycle \/ UNCHANGED vars
  PROVE  FetchAddrInStep'
<1>1. Requested' = Requested /\ queue' = queue
  BY RequestedKept DEF fetchvars
<1>2. fetch_addr' = fetch_addr
  BY DEF RunDecodeHalf1, RunDecodeHalf2, DecodeHalf1, DecodeHalf2, DecodeNoWord,
         DecodeInstWord, DecodeSkipHalf1, DecodeReadOperands, DecodeDispatch,
         DecodeSkipHalf2, UnwrittenByDecode, RunExecuteHalf1, RunExecuteHalf2,
         ExecuteHalf1, ExecuteHalf2, ExecuteIdles, ExecuteTakes, ExecuteSteps,
         ExecuteSkips, UnwrittenByExecute, EndHalf1, EndCycle, vars, icvars
<1>3. InStep(queue, Requested, NoWord, fetch_addr)
  <2>1. CASE Latch = NoWord
    BY <2>1 DEF FetchAddrInStep
  <2>2. CASE Latch # NoWord
    BY <2>2, RowTypes, TakeInStep DEF StreamInOrder, FetchAddrInStep, Contents
  <2> QED
    BY <2>1, <2>2
<1> QED
  BY <1>1, <1>2, <1>3, LatchTakenOrKept DEF FetchAddrInStep

-----------------------------------------------------------------------------
\* The address reported with a latched word is that of the next word.
LEMMA LatchedWordAddr ==
  ASSUME TypeOK, FetchAddrInStep, fetch_word_semaph
  PROVE  fetch_addr = NextWord(fetch_word)
<1>1. Latch = fetch_word /\ fetch_word # NoWord
  BY QueueAssumption DEF TypeOK, Latch, Addr
<1>2. Cell(QueueLen, queue, Requested, Latch) # NoWord /\ QueueLen \in Cells
  BY <1>1, CellFacts DEF Cell
<1>3. \A j \in Cells : ~(j > QueueLen)
  BY CellFacts
<1> QED
  BY <1>1, <1>2, <1>3 DEF FetchAddrInStep, InStep

PgcInv == PgcHeld /\ PgcFollowsOpcode

\* The PGC is recorded with the opcode and dispatched with the instruction.
LEMMA PgcStep ==
  ASSUME TypeOK, FetchAddrInStep, WorksWithoutOffer, PgcInv, [Next]_vars
  PROVE  PgcInv'
<1>1. CASE RunDecodeHalf1
  <2>1. CASE DecodeNoWord
    BY <2>1 DEF DecodeNoWord, PgcInv, PgcHeld, PgcFollowsOpcode
  <2>2. ASSUME NEW k \in Kinds, DecodeInstWord(k) PROVE PgcInv'
    <3>1. imm_words' = <<fetch_word>> /\ pgc' = fetch_addr /\ fetch_word_semaph
      BY <2>2 DEF DecodeInstWord
    <3>2. imm_words' # <<>> /\ pgc' = NextWord(imm_words'[1])
      BY <3>1, LatchedWordAddr
    <3> QED
      BY <2>2, <3>2 DEF DecodeInstWord, PgcInv, PgcHeld, PgcFollowsOpcode
  <2>3. CASE DecodeSkipHalf1
    BY <2>3 DEF DecodeSkipHalf1, PgcInv, PgcHeld, PgcFollowsOpcode, decodevars
  <2> QED
    BY <1>1, <2>1, <2>2, <2>3 DEF RunDecodeHalf1, DecodeHalf1
<1>2. CASE RunDecodeHalf2
  <2>1. ASSUME decoding_phase = "READ_OPERANDS"
        PROVE  WordsRead # <<>> /\ pgc = NextWord(WordsRead[1])
    BY <2>1 DEF TypeOK, PgcInv, PgcHeld, WordsRead
  <2>2. CASE DecodeReadOperands
    BY <2>1, <2>2 DEF DecodeReadOperands, PgcInv, PgcHeld, PgcFollowsOpcode
  <2>3. CASE DecodeDispatch
    BY <2>1, <2>3 DEF DecodeDispatch, DispatchedPgc, PgcInv, PgcHeld, PgcFollowsOpcode
  <2>4. CASE DecodeSkipHalf2
    BY <2>4 DEF DecodeSkipHalf2, PgcInv, PgcHeld, PgcFollowsOpcode, decodevars
  <2> QED
    BY <1>2, <2>2, <2>3, <2>4 DEF RunDecodeHalf2, DecodeHalf2
<1>3. CASE ~RunDecodeHalf1 /\ ~RunDecodeHalf2
  <2>1. UNCHANGED decodevars
    BY <1>3, OfferKept DEF Next
  <2> QED
    BY <2>1 DEF PgcInv, PgcHeld, PgcFollowsOpcode, decodevars
<1> QED
  BY <1>1, <1>2, <1>3

\* In programs without predicted branches, the address reported with a word is
\* the one after it, and what lies in the queue keeps step with it.
THEOREM AddrInStep ==
  ASSUME FetchBeforeExecute, NoPredictions PROVE Spec => []FetchAddrInStep
<1>1. Spec => []TypeOK /\ []ReadInv /\ []StreamInOrder
  BY TypeCorrect, ReadInvariant, StreamSafe
<1>2. NothingPredicted /\ [Next]_vars => NothingPredicted'
  BY PredictedStep
<1>3. TypeOK /\ ReadInv /\ StreamInOrder /\ NothingPredicted /\ FetchAddrInStep /\ [Next]_vars
        => FetchAddrInStep'
  BY StepFetchHalf1, StepFetchHalf2, StepOthers DEF Next
<1> QED
  BY PredictedInit, StepInit, <1>1, <1>2, <1>3, PTL DEF Spec

\* In programs without predicted branches, every legal instruction is dispatched
\* with the address of the word after its opcode, whatever branches execute.
THEOREM PgcCorrect ==
  ASSUME FetchBeforeExecute, NoPredictions PROVE Spec => []PgcFollowsOpcode
<1>1. Spec => []TypeOK /\ []FetchAddrInStep
  BY TypeCorrect, AddrInStep
<1>2. Init => WorksWithoutOffer /\ PgcInv
  BY DEF Init, DecodeInit, WorksWithoutOffer, PgcInv, PgcHeld, PgcFollowsOpcode
<1>3. TypeOK /\ WorksWithoutOffer /\ [Next]_vars => WorksWithoutOffer'
  BY OfferKept, OfferDecodeHalf1, OfferDecodeHalf2 DEF Next
<1>4. TypeOK /\ FetchAddrInStep /\ WorksWithoutOffer /\ PgcInv /\ [Next]_vars => PgcInv'
  BY PgcStep
<1>5. PgcInv => PgcFollowsOpcode
  BY DEF PgcInv
<1> QED
  BY <1>1, <1>2, <1>3, <1>4, <1>5, PTL DEF Spec
=============================================================================
