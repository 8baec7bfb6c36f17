---------------------------- MODULE FrontEndProofs ----------------------------
(***************************************************************************)
(* Proofs about FrontEnd for every queue length, address space, program,   *)
(* and behaviour of the execute unit: the types; and, provided the execute *)
(* unit is called after the fetch unit in the first half of a cycle, the   *)
(* word stream between memory and the decode stage stays in order, every   *)
(* word of it is at an even address, and it implements the abstract        *)
(* WordStream.                                                             *)
(***************************************************************************)
EXTENDS FrontEndStream, WellFoundedInduction, TLAPS

Contents == Addr \cup {NoWord}
Queues == [Slots -> Contents]

-----------------------------------------------------------------------------
\* Aligning an address keeps it in the address space.
LEMMA WordAlignInAddr == \A x \in Int : WordAlign(x) \in Addr
<1> SUFFICES ASSUME NEW x \in Int PROVE WordAlign(x) \in Addr
  OBVIOUS
<1> DEFINE r == x % AddrSpace
<1>1. r \in 0..(AddrSpace - 1)
  BY AddrAssumption
<1>2. \A n \in 0..(AddrSpace - 1) : 2 * (n \div 2) \in 0..(AddrSpace - 1)
  BY AddrAssumption
<1> QED
  BY <1>1, <1>2 DEF WordAlign, Addr

\* So is the address after any address.
LEMMA NextWordInAddr == \A x \in Int : NextWord(x) \in Addr
  BY WordAlignInAddr DEF NextWord

\* The slots are the first and the last one and what is between them.
LEMMA SlotFacts ==
  /\ 0 \in Slots
  /\ LastSlot \in Slots
  /\ \A i \in Slots : i \in Int /\ i >= 0 /\ i <= LastSlot
  /\ \A i \in Slots : i # 0 => i - 1 \in Slots
  BY QueueAssumption DEF Slots, LastSlot

\* Shifting and loading keep the queue a queue.
LEMMA ShiftType == \A q \in Queues : Shift(q) \in Queues
  BY SlotFacts DEF Shift, Queues, Contents

\* The emptied queue.
LEMMA EmptyQueueType == EmptyQueue \in Queues
  BY DEF EmptyQueue, Queues, Contents

\* The queue after a shift.
LEMMA ShiftedQueueType == TypeOK => ShiftedQueue \in Queues
  BY ShiftType DEF TypeOK, ShiftedQueue, Queues, Contents

\* The queue after the awaited word is stored.
LEMMA LoadedQueueType == TypeOK => LoadedQueue \in Queues
  BY ShiftedQueueType, SlotFacts DEF TypeOK, LoadedQueue, Queues, Contents

-----------------------------------------------------------------------------
\* What the actions of each unit keep of TypeOK.
LEMMA TypeInit == Init => TypeOK
<1> SUFFICES ASSUME Init PROVE TypeOK
  OBVIOUS
<1>1. 0 \in Addr /\ 0 \in Word32 /\ fetch_mem_addr \in Addr /\ fetch_mem_addr \in Word32
  BY AddrAssumption, DecodeAssumption, FrontEndAssumption DEF Init, Addr, Word32
<1>2. queue \in [Slots -> Addr \cup {NoWord}]
  BY DEF Init, FetchInit, EmptyQueue
<1>3. << >> \in Seq(Addr)
  OBVIOUS
<1>4. decoded_inst \in [words : Seq(Addr), inst_pgc : Addr, illegal : BOOLEAN]
  <2>1. decoded_inst = [words |-> << >>, inst_pgc |-> 0, illegal |-> FALSE]
    BY DEF Init, DecodeInit
  <2> QED
    BY ONLY <2>1, <1>1, <1>3
<1>5. imm_words \in Seq(Addr)
  <2>1. imm_words = << >>
    BY DEF Init, DecodeInit
  <2> QED
    BY <1>3, <2>1
<1>6. /\ decoding_phase = "DISPATCH_WAIT" /\ words_to_read = 0
      /\ pgc = 0 /\ illegal = FALSE /\ inst_pgc = 0
  BY DEF Init, DecodeInit
<1>7. /\ decoding_phase \in DecodePhases
      /\ pgc \in Addr /\ illegal \in BOOLEAN /\ inst_pgc \in Addr
  BY <1>1, <1>6, Zenon DEF DecodePhases
<1>8. words_to_read \in 0..4
  BY <1>6
<1>9. mc_state \in MemCtlStates /\ fetch_phase \in FetchPhases
  BY DEF Init, MemCtlInit, MemCtlStates, FetchInit, FetchPhases
<1>10. fetch_addr \in Addr /\ half \in {1, 2} /\ ran \subseteq Units /\ executing \in BOOLEAN
  BY <1>1 DEF Init, ExecutePortInit, ClockInit
<1> QED
  BY <1>1, <1>2, <1>4, <1>5, <1>7, <1>8, <1>9, <1>10, Zenon
  DEF Init, TypeOK, MemCtlInit, InterconnectInit, FetchInit

\* The first half of the fetch unit keeps the types.
LEMMA TypeFetchHalf1 == TypeOK /\ RunFetchHalf1 => TypeOK'
<1> SUFFICES ASSUME TypeOK, RunFetchHalf1 PROVE TypeOK'
  OBVIOUS
<1>1. half' \in {1, 2} /\ ran' \subseteq Units
  BY DEF TypeOK, RunFetchHalf1, Call
<1>2. CASE FetchMemWait
  <2>1. queue' \in [Slots -> Addr \cup {NoWord}]
    BY <1>2, ShiftedQueueType DEF FetchMemWait, Queues, Contents
  <2> QED
    BY <1>1, <1>2, <2>1
    DEF TypeOK, RunFetchHalf1, FetchMemWait, FetchPhases, mcvars, icvars, decodevars
<1>3. CASE FetchDequeue
  <2>1. queue' \in [Slots -> Addr \cup {NoWord}]
    BY <1>3, LoadedQueueType, SlotFacts DEF FetchDequeue, Queues, Contents
  <2>2. fetch_word' \in Addr
    BY <1>3, LoadedQueueType, SlotFacts
    DEF FetchDequeue, FetchLatchesWord, TypeOK, Queues, Contents
  <2>3. fetch_addr' \in {fetch_addr, NextWord(fetch_addr)} /\ fetch_word_semaph' \in BOOLEAN
    BY <1>3 DEF FetchDequeue, TypeOK
  <2>4. fetch_addr \in Addr /\ fetch_addr \in Int
    BY DEF TypeOK, Addr
  <2>5. fetch_addr' \in Addr
    BY <2>3, <2>4, NextWordInAddr
  <2> QED
    BY <1>1, <1>3, <2>1, <2>2, <2>3, <2>5, ZenonT(30)
    DEF TypeOK, RunFetchHalf1, FetchDequeue, FetchPhases, mcvars, branchlines, decodevars
<1>4. CASE FetchSkipHalf1
  BY <1>1, <1>4 DEF TypeOK, RunFetchHalf1, FetchSkipHalf1, mcvars, icvars, fetchvars, decodevars
<1> QED
  BY <1>2, <1>3, <1>4 DEF RunFetchHalf1, FetchHalf1

\* The address of a resolved branch.
LEMMA TypeResolved ==
  TypeOK => ResolvedQueue \in Queues /\ ResolvedAddr \in Word32 /\ ReportedAddr \in Addr
<1> SUFFICES ASSUME TypeOK PROVE ResolvedQueue \in Queues /\ ResolvedAddr \in Word32 /\ ReportedAddr \in Addr
  OBVIOUS
<1>1. execute_branch_addr \in Word32
  BY AddrAssumption, DecodeAssumption DEF TypeOK, Addr, Word32
<1> QED
  BY <1>1, EmptyQueueType
  DEF TypeOK, ResolvedQueue, ResolvedAddr, ReportedAddr, Queues, Contents

\* The second half of the fetch unit keeps the types.
LEMMA TypeFetchHalf2 == TypeOK /\ RunFetchHalf2 => TypeOK'
<1> SUFFICES ASSUME TypeOK, RunFetchHalf2 PROVE TypeOK'
  OBVIOUS
<1>1. half' \in {1, 2} /\ ran' \subseteq Units
  BY DEF TypeOK, RunFetchHalf2, Call
<1>2. ResolvedQueue \in [Slots -> Addr \cup {NoWord}] /\ ResolvedAddr \in Word32 /\ ReportedAddr \in Addr
  BY TypeResolved DEF Queues, Contents
<1>3. NextWord(ResolvedAddr) \in Word32
  BY <1>2, NextWordInAddr, AddrAssumption, DecodeAssumption DEF Addr, Word32
<1>4. ASSUME ResolveBranch
      PROVE  /\ decode_branch' \in BOOLEAN /\ execute_branch' \in BOOLEAN
             /\ branch_predicted' \in BOOLEAN /\ decode_stall' \in BOOLEAN
             /\ fetch_word_semaph' \in BOOLEAN /\ fetch_addr' \in Addr
  BY <1>2, <1>4 DEF TypeOK, ResolveBranch, PredictedBefore, Mispredicted, Flushes
<1>5. CASE FetchFull
  BY <1>1, <1>2, <1>4, <1>5
  DEF TypeOK, RunFetchHalf2, FetchFull, ResolveBranch, FetchPhases, mcvars, decodevars
<1>6. CASE FetchHold
  BY <1>1, <1>2, <1>4, <1>6
  DEF TypeOK, RunFetchHalf2, FetchHold, ResolveBranch, FetchPhases, mcvars, decodevars
<1>7. CASE FetchAssert
  BY <1>1, <1>2, <1>3, <1>4, <1>7
  DEF TypeOK, RunFetchHalf2, FetchAssert, AddrReadAssert, MemCtlStates, ResolveBranch,
      FetchPhases, decodevars
<1>8. CASE FetchSkipHalf2
  BY <1>1, <1>8 DEF TypeOK, RunFetchHalf2, FetchSkipHalf2, mcvars, icvars, fetchvars, decodevars
<1> QED
  BY <1>5, <1>6, <1>7, <1>8 DEF RunFetchHalf2, FetchHalf2

\* A 32-bit sum of an address and the two's complement of a displacement.
LEMMA PredictedAddrType ==
  TypeOK => \A k \in Kinds : k.branch # "none" => PredictedAddr(k) \in Word32
<1> SUFFICES ASSUME TypeOK, NEW k \in Kinds, k.branch # "none"
             PROVE PredictedAddr(k) \in Word32
  OBVIOUS
<1>1. k \in DecodedKind /\ k.branch \in {"relative", "vector"} /\ k.arg \in Nat
  BY DecodeAssumption DEF DecodedKind
<1>2. IntSpace \in Nat /\ IntSpace > 0 /\ AddrSpace \in Nat /\ AddrSpace <= IntSpace
  BY DecodeAssumption, AddrAssumption
<1>3. CASE k.branch = "vector"
  <2>1. k.arg < AddrSpace
    BY <1>3, DecodeAssumption
  <2> QED
    BY <1>1, <1>2, <1>3, <2>1 DEF PredictedAddr, Word32
<1>4. CASE k.branch = "relative"
  <2>1. fetch_addr + IntSpace - k.arg \in Int
    BY <1>1, <1>2 DEF TypeOK, Addr
  <2>2. \A x \in Int : x % IntSpace \in 0..(IntSpace - 1)
    BY <1>2
  <2> QED
    BY <1>4, <2>1, <2>2 DEF PredictedAddr, Word32
<1> QED
  BY <1>1, <1>3, <1>4

\* The first half of the decode unit keeps the types.
LEMMA TypeDecodeHalf1 == TypeOK /\ RunDecodeHalf1 => TypeOK'
<1> SUFFICES ASSUME TypeOK, RunDecodeHalf1 PROVE TypeOK'
  OBVIOUS
<1>1. half' \in {1, 2} /\ ran' \subseteq Units /\ executing' \in BOOLEAN
  BY DEF TypeOK, RunDecodeHalf1, Call
<1>2. CASE DecodeNoWord
  <2>1. imm_words' \in Seq(Addr) /\ words_to_read' \in 0..4
    BY <1>2 DEF TypeOK, DecodeNoWord
  <2>2. decoded_inst_semaph' \in BOOLEAN /\ decoding_phase' \in DecodePhases
    BY <1>2 DEF TypeOK, DecodeNoWord, DecodePhases
  <2> QED
    BY <1>1, <1>2, <2>1, <2>2
    DEF TypeOK, DecodeNoWord, UnwrittenByDecode, fetchvars, mcvars
<1>3. ASSUME NEW k \in Kinds, DecodeInstWord(k) PROVE TypeOK'
  <2>1. k.extra \in 0..4 /\ k.illegal \in BOOLEAN
    BY DecodeAssumption DEF DecodedKind
  <2>2. imm_words' \in Seq(Addr)
    BY <1>3 DEF TypeOK, DecodeInstWord
  <2>3. decode_branch_addr' \in Word32
    BY <1>3, PredictedAddrType DEF TypeOK, DecodeInstWord
  <2>4. /\ decoded_inst_semaph' \in BOOLEAN /\ decode_branch' \in BOOLEAN
        /\ decoding_phase' \in DecodePhases
    BY <1>3 DEF TypeOK, DecodeInstWord, DecodePhases
  <2> QED
    BY <1>1, <1>3, <2>1, <2>2, <2>3, <2>4
    DEF TypeOK, DecodeInstWord, UnwrittenByDecode, fetchvars, mcvars
<1>4. CASE DecodeSkipHalf1
  BY <1>1, <1>4 DEF TypeOK, DecodeSkipHalf1, decodevars, fetchvars, mcvars, icvars
<1> QED
  BY <1>2, <1>3, <1>4 DEF RunDecodeHalf1, DecodeHalf1

\* The second half of the decode unit keeps the types.
LEMMA TypeDecodeHalf2 == TypeOK /\ RunDecodeHalf2 => TypeOK'
<1> SUFFICES ASSUME TypeOK, RunDecodeHalf2 PROVE TypeOK'
  OBVIOUS
<1>1. half' \in {1, 2} /\ ran' \subseteq Units /\ executing' \in BOOLEAN
  BY DEF TypeOK, RunDecodeHalf2, Call
<1>2. WordsRead \in Seq(Addr) /\ WordsLeft \in 0..4
  BY DEF TypeOK, WordsRead, WordsLeft, ReadsOperand
<1>3. (fetch_word_semaph /\ ~ReadsOperand) \in BOOLEAN
  OBVIOUS
<1>4. CASE DecodeReadOperands
  BY <1>1, <1>2, <1>3, <1>4
  DEF TypeOK, DecodeReadOperands, UnwrittenByDecode, fetchvars, mcvars
<1>5. CASE DecodeDispatch
  <2>1. DispatchedPgc \in Addr
    BY DEF TypeOK, DispatchedPgc
  <2>2. decoded_inst' \in [words : Seq(Addr), inst_pgc : Addr, illegal : BOOLEAN]
    BY <1>2, <1>5, <2>1 DEF TypeOK, DecodeDispatch
  <2>3. words_to_read' \in 0..4 /\ decoding_phase' \in DecodePhases
    BY <1>5 DEF DecodeDispatch, DecodePhases
  <2> QED
    BY <1>1, <1>2, <1>3, <1>5, <2>1, <2>2, <2>3
    DEF TypeOK, DecodeDispatch, UnwrittenByDecode, fetchvars, mcvars
<1>6. CASE DecodeSkipHalf2
  BY <1>1, <1>6 DEF TypeOK, DecodeSkipHalf2, decodevars, fetchvars, mcvars, icvars
<1> QED
  BY <1>4, <1>5, <1>6 DEF RunDecodeHalf2, DecodeHalf2

\* An access of the execute unit, or none.
LEMMA TypeExecuteAccess ==
  TypeOK /\ (ExecuteAccess \/ UNCHANGED mcvars) =>
    /\ mc_state' \in MemCtlStates /\ data_valid' \in BOOLEAN /\ is_16bit' \in BOOLEAN
    /\ addr_reg' \in Word32 /\ data_reg_in' \in Addr
  BY ExecuteAssumption
  DEF TypeOK, ExecuteAccess, AddrReadAssert, AddrWriteAssert, MemCtlStates, Word32, mcvars

\* The first half of the execute unit keeps the types.
LEMMA TypeExecuteHalf1 == TypeOK /\ RunExecuteHalf1 => TypeOK'
<1> SUFFICES ASSUME TypeOK, RunExecuteHalf1 PROVE TypeOK'
  OBVIOUS
<1>1. half' \in {1, 2} /\ ran' \subseteq Units
  BY DEF TypeOK, RunExecuteHalf1, Call
<1>2. ExecuteAccess \/ UNCHANGED mcvars
  BY DEF RunExecuteHalf1, ExecuteHalf1
<1> QED
  BY <1>1, <1>2, TypeExecuteAccess
  DEF TypeOK, RunExecuteHalf1, ExecuteHalf1, decodevars, fetchvars, icvars

\* The second half of the execute unit keeps the types.
LEMMA TypeExecuteHalf2 == TypeOK /\ RunExecuteHalf2 => TypeOK'
<1> SUFFICES ASSUME TypeOK, RunExecuteHalf2 PROVE TypeOK'
  OBVIOUS
<1>1. half' \in {1, 2} /\ ran' \subseteq Units
  BY DEF TypeOK, RunExecuteHalf2, Call
<1>2. ASSUME RaiseBranch PROVE execute_branch' \in BOOLEAN /\ execute_branch_addr' \in Addr
  BY <1>2, ExecuteAssumption DEF TypeOK, RaiseBranch
<1>3. CASE ExecuteIdles
  BY <1>1, <1>3, ZenonT(30)
  DEF TypeOK, ExecuteIdles, UnwrittenByExecute, branchlines, decodevars, fetchvars, mcvars
<1>4. CASE ExecuteTakes
  BY <1>1, <1>2, <1>4
  DEF TypeOK, ExecuteTakes, UnwrittenByExecute, decodevars, fetchvars, mcvars
<1>5. CASE ExecuteSteps
  <2>1. disable_clk' \in BOOLEAN /\ decoded_inst_semaph' \in BOOLEAN
    BY <1>5, ExecuteAssumption DEF TypeOK, ExecuteSteps
  <2> QED
    BY <1>1, <1>2, <1>5, <2>1, TypeExecuteAccess
    DEF TypeOK, ExecuteSteps, UnwrittenByExecute, decodevars, fetchvars
<1>6. CASE ExecuteSkips
  BY <1>1, <1>6 DEF TypeOK, ExecuteSkips, decodevars, fetchvars, mcvars, icvars
<1> QED
  BY <1>3, <1>4, <1>5, <1>6 DEF RunExecuteHalf2, ExecuteHalf2

\* Only addresses of the 24-bit space are answered.
LEMMA TypeEndCycle == TypeOK /\ EndCycle => TypeOK'
<1> SUFFICES ASSUME TypeOK, EndCycle PROVE TypeOK'
  OBVIOUS
<1>1. ASSUME NEW a, MayAnswer(a) PROVE a \in Addr
  <2>1. HramStart..(AddrSpace - 1) \subseteq Addr
    BY AddrAssumption DEF Addr
  <2>2. Devices \subseteq Addr
    BY AddrAssumption DEF Addr
  <2> QED
    BY <1>1, <2>1, <2>2 DEF MayAnswer, MustAnswer
<1>2. /\ mc_state' \in MemCtlStates /\ data_valid' \in BOOLEAN /\ is_16bit' \in BOOLEAN
      /\ addr_reg' \in Word32 /\ data_reg_in' \in Addr
  BY <1>1
  DEF TypeOK, EndCycle, HalfEnds, MemCtlTick, TickIdle, TickBusy, TickDone, MemCtlStates
<1> QED
  BY <1>2 DEF TypeOK, EndCycle, HalfEnds, icvars, fetchvars, decodevars

\* So does the end of the first half,
LEMMA TypeEndHalf1 == TypeOK /\ EndHalf1 => TypeOK'
  BY DEF TypeOK, EndHalf1, HalfEnds, mcvars, icvars, fetchvars, decodevars

\* and a stuttering step.
LEMMA TypeStutter == TypeOK /\ UNCHANGED vars => TypeOK'
  BY DEF TypeOK, vars, mcvars, icvars, fetchvars, decodevars, clockvars

\* No line, register or queue slot ever holds a value outside its type, for any
\* queue length, address space and program.
THEOREM TypeCorrect == Spec => []TypeOK
<1>1. TypeOK /\ [Next]_vars => TypeOK'
  BY TypeFetchHalf1, TypeFetchHalf2, TypeDecodeHalf1, TypeDecodeHalf2, TypeExecuteHalf1,
     TypeExecuteHalf2, TypeEndHalf1, TypeEndCycle, TypeStutter DEF Next
<1> QED
  BY TypeInit, <1>1, PTL DEF Spec

-----------------------------------------------------------------------------
(***************************************************************************)
(* The row of cells.  Shifting moves words but keeps their order: Moved(q, *)
(* k) is where the content of cell k ends up.                              *)
(***************************************************************************)
HoleFrom(q, i) == \E j \in Slots : j >= i /\ q[j] = NoWord
Moved(q, k) == IF k \in Slots /\ HoleFrom(q, k) THEN k + 1 ELSE k

\* The cells of the row: the request, the slots and the latch.
LEMMA CellFacts ==
  /\ QueueLen \in Nat /\ QueueLen > 0 /\ LastSlot = QueueLen - 1
  /\ -1 \in Cells /\ QueueLen \in Cells
  /\ \A i : i \in Cells <=> i = -1 \/ i \in Slots \/ i = QueueLen
  /\ \A i : i \in Slots <=> i \in Int /\ 0 <= i /\ i < QueueLen
  BY QueueAssumption DEF Cells, Slots, LastSlot

\* An occupied cell keeps its content and its place in the order.
LEMMA ShiftMoves ==
  ASSUME NEW q \in Queues, NEW req \in Int, NEW latch \in Contents,
         NEW k \in Cells, Cell(k, q, req, latch) # NoWord
  PROVE  /\ Moved(q, k) \in Cells
         /\ Cell(Moved(q, k), Shift(q), req, latch) = Cell(k, q, req, latch)
         /\ k \in Slots => Moved(q, k) \in Slots
<1>1. CASE k \notin Slots
  BY <1>1, CellFacts DEF Moved, Cell
<1>2. CASE k \in Slots /\ ~HoleFrom(q, k)
  BY <1>2, CellFacts DEF Moved, Cell, Shift, HoleFrom
<1>3. CASE k \in Slots /\ HoleFrom(q, k)
  <2>1. q[k] # NoWord
    BY <1>3, CellFacts DEF Cell
  <2>2. PICK j \in Slots : j >= k /\ q[j] = NoWord
    BY <1>3 DEF HoleFrom
  <2>3. j >= k + 1 /\ k + 1 \in Slots
    BY <1>3, <2>1, <2>2, CellFacts
  <2>4. Shift(q)[k + 1] = q[k]
    BY <1>3, <2>2, <2>3, CellFacts DEF Shift
  <2> QED
    BY <1>3, <2>3, <2>4, CellFacts DEF Moved, Cell
<1> QED
  BY <1>1, <1>2, <1>3

\* Shifting keeps the words in their order.
LEMMA MovedMonotone ==
  ASSUME NEW q \in Queues, NEW req \in Int, NEW latch \in Contents,
         NEW i \in Cells, NEW j \in Cells, i < j, Cell(i, q, req, latch) # NoWord
  PROVE  Moved(q, i) < Moved(q, j)
<1>1. CASE i \in Slots /\ HoleFrom(q, i)
  <2>1. q[i] # NoWord
    BY <1>1, CellFacts DEF Cell
  <2>2. PICK h \in Slots : h >= i /\ q[h] = NoWord
    BY <1>1 DEF HoleFrom
  <2>3. h >= i + 1
    BY <1>1, <2>1, <2>2, CellFacts
  <2>4. CASE j = i + 1
    BY <1>1, <2>2, <2>3, <2>4, CellFacts DEF Moved, HoleFrom
  <2>5. CASE j # i + 1
    BY <1>1, <2>5, CellFacts DEF Moved
  <2> QED
    BY <2>4, <2>5
<1>2. CASE ~(i \in Slots /\ HoleFrom(q, i))
  BY <1>2, CellFacts DEF Moved
<1> QED
  BY <1>1, <1>2

\* Every occupied cell of the shifted row held its word, or the one below did.
LEMMA ShiftOrigin ==
  ASSUME NEW q \in Queues, NEW req \in Int, NEW latch \in Contents,
         NEW n \in Cells, Cell(n, Shift(q), req, latch) # NoWord
  PROVE  \E k \in Cells : /\ Moved(q, k) = n
                          /\ Cell(k, q, req, latch) = Cell(n, Shift(q), req, latch)
<1>1. CASE n \notin Slots
  BY <1>1, CellFacts DEF Moved, Cell
<1>2. CASE n \in Slots /\ ~HoleFrom(q, n)
  BY <1>2, CellFacts DEF Moved, Cell, Shift, HoleFrom
<1>3. CASE n \in Slots /\ HoleFrom(q, n)
  <2>1. Shift(q)[n] # NoWord
    BY <1>3, CellFacts DEF Cell
  <2>2. n # 0 /\ Shift(q)[n] = q[n - 1]
    BY <1>3, <2>1, CellFacts DEF Shift, HoleFrom
  <2>3. n - 1 \in Slots /\ HoleFrom(q, n - 1)
    BY <1>3, <2>2, CellFacts DEF HoleFrom
  <2> QED
    BY <1>3, <2>2, <2>3, CellFacts DEF Moved, Cell
<1> QED
  BY <1>1, <1>2, <1>3

\* So it keeps the row in order,
LEMMA ShiftInOrder ==
  ASSUME NEW q \in Queues, NEW req \in Int, NEW latch \in Contents, InOrder(q, req, latch)
  PROVE  InOrder(Shift(q), req, latch)
<1> DEFINE Old(k) == Cell(k, q, req, latch)
           New(k) == Cell(k, Shift(q), req, latch)
<1> SUFFICES ASSUME NEW i \in Cells, NEW j \in Cells, i < j, New(i) # NoWord, New(j) # NoWord,
                    \A k \in Cells : i < k /\ k < j => New(k) = NoWord
             PROVE  New(i) = NextWord(New(j))
  BY DEF InOrder
<1>1. PICK a \in Cells : Moved(q, a) = i /\ Old(a) = New(i)
  BY ShiftOrigin
<1>2. PICK b \in Cells : Moved(q, b) = j /\ Old(b) = New(j)
  BY ShiftOrigin
<1>3. a < b
  <2>1. a \in Int /\ b \in Int /\ i \in Int /\ j \in Int
    BY CellFacts
  <2>2. ~(b < a)
    BY <1>1, <1>2, <2>1, MovedMonotone
  <2>3. a # b
    BY <1>1, <1>2, <2>1
  <2> QED
    BY <2>1, <2>2, <2>3
<1>4. ASSUME NEW k \in Cells, a < k, k < b PROVE Old(k) = NoWord
  <2> SUFFICES ASSUME Old(k) # NoWord PROVE FALSE
    OBVIOUS
  <2>1. Moved(q, k) \in Cells /\ New(Moved(q, k)) # NoWord
    BY ShiftMoves
  <2>2. i < Moved(q, k) /\ Moved(q, k) < j
    BY <1>1, <1>2, <1>4, MovedMonotone
  <2> QED
    BY <2>1, <2>2
<1>5. Old(a) = NextWord(Old(b))
  BY <1>1, <1>2, <1>3, <1>4 DEF InOrder
<1> QED
  BY <1>1, <1>2, <1>5

\* and in step with the address reported.
LEMMA ShiftInStep ==
  ASSUME NEW q \in Queues, NEW req \in Int, NEW latch \in Contents, NEW addr,
         InStep(q, req, latch, addr)
  PROVE  InStep(Shift(q), req, latch, addr)
<1> DEFINE Old(k) == Cell(k, q, req, latch)
           New(k) == Cell(k, Shift(q), req, latch)
<1> SUFFICES ASSUME NEW i \in Cells, New(i) # NoWord, \A j \in Cells : j > i => New(j) = NoWord
             PROVE  addr = IF i = QueueLen THEN NextWord(latch) ELSE New(i)
  BY DEF InStep
<1>1. PICK a \in Cells : Moved(q, a) = i /\ Old(a) = New(i)
  BY ShiftOrigin
<1>2. ASSUME NEW k \in Cells, k > a PROVE Old(k) = NoWord
  <2> SUFFICES ASSUME Old(k) # NoWord PROVE FALSE
    OBVIOUS
  <2>1. Moved(q, k) \in Cells /\ New(Moved(q, k)) # NoWord
    BY ShiftMoves
  <2>2. a < k
    BY <1>2, CellFacts
  <2>3. i < Moved(q, k)
    BY <1>1, <2>2, MovedMonotone
  <2>4. Moved(q, k) > i
    BY <2>1, <2>3, CellFacts
  <2> QED
    BY <2>1, <2>4
<1>3. addr = IF a = QueueLen THEN NextWord(latch) ELSE Old(a)
  BY <1>1, <1>2 DEF InStep
<1>4. a = QueueLen <=> i = QueueLen
  BY <1>1, ShiftMoves, CellFacts DEF Moved
<1> QED
  BY <1>1, <1>3, <1>4

-----------------------------------------------------------------------------
\* The word that was requested enters slot 0 and the next one is requested.
LEMMA LoadInOrder ==
  ASSUME NEW q \in Queues, NEW req \in Int, NEW latch \in Contents,
         q[0] = NoWord, InOrder(q, req, latch)
  PROVE  InOrder([q EXCEPT ![0] = req], NextWord(req), latch)
<1> DEFINE loaded == [q EXCEPT ![0] = req]
           Old(k) == Cell(k, q, req, latch)
           New(k) == Cell(k, loaded, NextWord(req), latch)
           From(k) == IF k = 0 THEN -1 ELSE k
<1>1. req # NoWord /\ NextWord(req) # NoWord
  BY QueueAssumption, NextWordInAddr DEF Addr
<1>2. New(-1) = NextWord(req) /\ New(0) = req
  BY CellFacts DEF Cell, Queues
<1>3. \A k \in Cells : k # -1 => New(k) = Old(From(k))
  BY CellFacts DEF Cell, Queues
<1> HIDE DEF New
<1> SUFFICES ASSUME NEW i \in Cells, NEW j \in Cells, i < j, New(i) # NoWord, New(j) # NoWord,
                    \A k \in Cells : i < k /\ k < j => New(k) = NoWord
             PROVE  New(i) = NextWord(New(j))
  BY DEF InOrder, New
<1>4. CASE i = -1
  BY <1>1, <1>2, <1>4, CellFacts
<1>5. CASE i # -1
  <2>1. From(i) \in Cells /\ From(j) \in Cells /\ From(i) < From(j)
    BY <1>5, CellFacts
  <2>2. ASSUME NEW k \in Cells, From(i) < k, k < From(j) PROVE Old(k) = NoWord
    <3>1. CASE k = 0
      BY <3>1, CellFacts DEF Cell
    <3>2. CASE k # 0
      BY <1>3, <1>5, <2>2, <3>2, CellFacts
    <3> QED
      BY <3>1, <3>2
  <2>3. Old(From(i)) = NextWord(Old(From(j)))
    BY <1>3, <1>5, <2>1, <2>2, CellFacts DEF InOrder
  <2> QED
    BY <1>3, <1>5, <2>3, CellFacts
<1> QED
  BY <1>4, <1>5

\* Loading keeps the row in step,
LEMMA LoadInStep ==
  ASSUME NEW q \in Queues, NEW req \in Int, NEW latch \in Contents, NEW addr,
         q[0] = NoWord, InStep(q, req, latch, addr)
  PROVE  InStep([q EXCEPT ![0] = req], NextWord(req), latch, addr)
<1> DEFINE loaded == [q EXCEPT ![0] = req]
           Old(k) == Cell(k, q, req, latch)
           New(k) == Cell(k, loaded, NextWord(req), latch)
<1>1. req # NoWord
  BY QueueAssumption
<1>2. New(0) = req /\ Old(-1) = req /\ Old(0) = NoWord
  BY CellFacts DEF Cell, Queues
<1>3. \A k \in Cells : k # -1 /\ k # 0 => New(k) = Old(k)
  BY CellFacts DEF Cell, Queues
<1> HIDE DEF New, Old
<1> SUFFICES ASSUME NEW i \in Cells, New(i) # NoWord, \A j \in Cells : j > i => New(j) = NoWord
             PROVE  addr = IF i = QueueLen THEN NextWord(latch) ELSE New(i)
  BY DEF InStep, New
<1>4. i # -1
  BY <1>1, <1>2, CellFacts
<1>5. CASE i = 0
  <2>1. \A j \in Cells : j > -1 => Old(j) = NoWord
    BY <1>2, <1>3, <1>5, CellFacts
  <2>2. -1 \in Cells /\ -1 # QueueLen /\ 0 # QueueLen
    BY CellFacts
  <2>3. addr = IF -1 = QueueLen THEN NextWord(latch) ELSE Old(-1)
    BY <1>1, <1>2, <2>1, <2>2 DEF InStep, Old
  <2> QED
    BY <1>2, <1>5, <2>2, <2>3
<1>6. CASE i # 0
  <2>1. \A j \in Cells : j > i => Old(j) = NoWord
    BY <1>3, <1>4, <1>6, CellFacts
  <2>2. Old(i) = New(i)
    BY <1>3, <1>4, <1>6
  <2> QED
    BY <2>1, <2>2 DEF InStep, Old
<1> QED
  BY <1>5, <1>6

\* The word in the last slot moves to the free latch.
LEMMA LatchInOrder ==
  ASSUME NEW q \in Queues, NEW req \in Int, q[LastSlot] # NoWord, InOrder(q, req, NoWord)
  PROVE  InOrder([q EXCEPT ![LastSlot] = NoWord], req, q[LastSlot])
<1> DEFINE rest == [q EXCEPT ![LastSlot] = NoWord]
           Old(k) == Cell(k, q, req, NoWord)
           New(k) == Cell(k, rest, req, q[LastSlot])
           From(k) == IF k = QueueLen THEN LastSlot ELSE k
<1>1. New(LastSlot) = NoWord
  BY CellFacts DEF Cell, Queues
<1>2. \A k \in Cells : k # LastSlot => New(k) = Old(From(k))
  BY CellFacts DEF Cell, Queues
<1> HIDE DEF New
<1> SUFFICES ASSUME NEW i \in Cells, NEW j \in Cells, i < j, New(i) # NoWord, New(j) # NoWord,
                    \A k \in Cells : i < k /\ k < j => New(k) = NoWord
             PROVE  New(i) = NextWord(New(j))
  BY DEF InOrder, New
<1>3. i # LastSlot /\ j # LastSlot /\ i # QueueLen /\ From(i) = i
  BY <1>1, CellFacts
<1>4. From(j) \in Cells /\ i < From(j)
  BY <1>3, CellFacts
<1>5. ASSUME NEW k \in Cells, i < k, k < From(j) PROVE Old(k) = NoWord
  BY <1>2, <1>3, <1>5, CellFacts
<1>6. Old(i) = NextWord(Old(From(j)))
  BY <1>2, <1>3, <1>4, <1>5 DEF InOrder
<1> QED
  BY <1>2, <1>3, <1>6

\* latching does, with the address advanced,
LEMMA LatchInStep ==
  ASSUME NEW q \in Queues, NEW req \in Int, NEW addr, q[LastSlot] # NoWord,
         InStep(q, req, NoWord, addr)
  PROVE  InStep([q EXCEPT ![LastSlot] = NoWord], req, q[LastSlot], NextWord(addr))
<1>1. addr = q[LastSlot]
  BY CellFacts DEF InStep, Cell
<1>2. Cell(QueueLen, [q EXCEPT ![LastSlot] = NoWord], req, q[LastSlot]) # NoWord
  BY CellFacts DEF Cell
<1>3. \A i \in Cells : i # QueueLen => QueueLen > i
  BY CellFacts
<1> QED
  BY <1>1, <1>2, <1>3, CellFacts DEF InStep

\* The decode stage takes the word in the latch.
LEMMA TakeInOrder ==
  ASSUME NEW q \in Queues, NEW req \in Int, NEW latch \in Contents, InOrder(q, req, latch)
  PROVE  InOrder(q, req, NoWord)
<1>1. \A k \in Cells : k # QueueLen => Cell(k, q, req, NoWord) = Cell(k, q, req, latch)
  BY DEF Cell
<1>2. Cell(QueueLen, q, req, NoWord) = NoWord
  BY CellFacts DEF Cell
<1>3. \A k \in Cells : k # QueueLen => k < QueueLen
  BY CellFacts
<1> QED
  BY <1>1, <1>2, <1>3, CellFacts DEF InOrder

\* and taking the latched word does.
LEMMA TakeInStep ==
  ASSUME NEW q \in Queues, NEW req \in Int, NEW latch \in Addr, NEW addr,
         InOrder(q, req, latch), InStep(q, req, latch, addr)
  PROVE  InStep(q, req, NoWord, addr)
<1> DEFINE Old(k) == Cell(k, q, req, latch)
           New(k) == Cell(k, q, req, NoWord)
<1>1. \A k \in Cells : k # QueueLen => New(k) = Old(k)
  BY DEF Cell
<1>2. New(QueueLen) = NoWord /\ Old(QueueLen) = latch /\ latch # NoWord
  BY CellFacts, QueueAssumption DEF Cell, Addr
<1>3. \A k \in Cells : k # QueueLen => k < QueueLen
  BY CellFacts
<1>4. addr = NextWord(latch)
  BY <1>2, <1>3, CellFacts DEF InStep
<1> HIDE DEF Old, New
<1> SUFFICES ASSUME NEW i \in Cells, New(i) # NoWord, \A j \in Cells : j > i => New(j) = NoWord
             PROVE  addr = IF i = QueueLen THEN NextWord(NoWord) ELSE New(i)
  BY DEF InStep, New
<1>5. i # QueueLen /\ i < QueueLen /\ QueueLen \in Cells
  BY <1>2, <1>3, CellFacts
<1>6. \A k \in Cells : i < k /\ k < QueueLen => Old(k) = NoWord
  BY <1>1, CellFacts
<1>7. Old(i) = NextWord(Old(QueueLen))
  BY <1>1, <1>2, <1>5, <1>6 DEF InOrder, Old
<1> QED
  BY <1>1, <1>2, <1>4, <1>5, <1>7

\* After a branch nothing is on its way but the target.
LEMMA FlushedRow ==
  ASSUME NEW req \in Int
  PROVE  InOrder(EmptyQueue, req, NoWord) /\ InStep(EmptyQueue, req, NoWord, req)
<1>1. \A k \in Cells : k # -1 => Cell(k, EmptyQueue, req, NoWord) = NoWord
  BY CellFacts DEF Cell, EmptyQueue
<1>2. Cell(-1, EmptyQueue, req, NoWord) = req
  BY DEF Cell
<1> QED
  BY <1>1, <1>2, CellFacts DEF InOrder, InStep

-----------------------------------------------------------------------------
(***************************************************************************)
(* The read the fetch unit waits for.                                      *)
(***************************************************************************)
FetchBeforeExecute == <<"fetch", "execute">> \in Before1

\* The invariant of the read: initially,
LEMMA ReadInit == Init => ReadInv
  BY DEF Init, FetchInit, MemCtlInit, ReadInv, FetchOwnsItsRead, RoomForTheRead,
         WaitingResumes, ValidWhenReady

\* in the first half of the fetch unit,
LEMMA ReadFetchHalf1 == TypeOK /\ ReadInv /\ RunFetchHalf1 => ReadInv'
<1> SUFFICES ASSUME TypeOK, ReadInv, RunFetchHalf1 PROVE ReadInv'
  OBVIOUS
<1>1. CASE FetchMemWait
  <2>1. mc_state = "MCTL_MEM_R_BUSY" /\ UNCHANGED mcvars
    BY <1>1 DEF FetchMemWait, FetchInHalf1, ReadInv, FetchOwnsItsRead
  <2>2. ShiftedQueue' = ShiftedQueue
    BY <1>1 DEF FetchMemWait, ShiftedQueue
  <2> QED
    BY <1>1, <2>1, <2>2
    DEF FetchMemWait, ReadInv, FetchOwnsItsRead, RoomForTheRead, WaitingResumes,
        ValidWhenReady, PendingAddr, BusReady, mcvars
<1>2. CASE FetchDequeue
  BY <1>2
  DEF FetchDequeue, ReadInv, FetchOwnsItsRead, RoomForTheRead, WaitingResumes,
      ValidWhenReady, BusReady, mcvars
<1>3. CASE FetchSkipHalf1
  <2>1. fetch_waiting => disable_clk
    BY <1>3 DEF FetchSkipHalf1, FetchInHalf1, ReadInv, WaitingResumes
  <2> QED
    BY <1>3, <2>1
    DEF FetchSkipHalf1, ReadInv, FetchOwnsItsRead, RoomForTheRead, WaitingResumes,
        ValidWhenReady, ShiftedQueue, PendingAddr, BusReady, mcvars, icvars, fetchvars
<1> QED
  BY <1>1, <1>2, <1>3 DEF RunFetchHalf1, FetchHalf1

\* in its second half,
LEMMA ReadFetchHalf2 == TypeOK /\ ReadInv /\ RunFetchHalf2 => ReadInv'
<1> SUFFICES ASSUME TypeOK, ReadInv, RunFetchHalf2 PROVE ReadInv'
  OBVIOUS
<1>1. FetchInHalf2 => ~fetch_waiting
  BY DEF FetchInHalf2, ReadInv, WaitingResumes
<1>2. CASE FetchFull \/ FetchHold
  BY <1>1, <1>2
  DEF FetchFull, FetchHold, ReadInv, FetchOwnsItsRead, RoomForTheRead, WaitingResumes,
      ValidWhenReady, BusReady, mcvars
<1>3. CASE FetchAssert
  <2>1. PICK i \in Slots : queue'[i] = NoWord
    BY <1>3 DEF FetchAssert, QueueIsFull
  <2>2. ShiftedQueue'[0] = NoWord
    BY <1>3, <2>1, SlotFacts DEF FetchAssert, ShiftedQueue, Shift
  <2> QED
    BY <1>3, <2>2
    DEF FetchAssert, AddrReadAssert, ReadInv, FetchOwnsItsRead, RoomForTheRead,
        WaitingResumes, ValidWhenReady, PendingAddr, BusReady
<1>4. CASE FetchSkipHalf2
  BY <1>4
  DEF FetchSkipHalf2, RunFetchHalf2, Call, ReadInv, FetchOwnsItsRead, RoomForTheRead,
      WaitingResumes, ValidWhenReady, ShiftedQueue, PendingAddr, BusReady, mcvars, icvars,
      fetchvars
<1> QED
  BY <1>2, <1>3, <1>4 DEF RunFetchHalf2, FetchHalf2

\* The decode unit touches neither the bus nor the fetch unit.
LEMMA ReadDecode == ReadInv /\ (RunDecodeHalf1 \/ RunDecodeHalf2) => ReadInv'
<1> SUFFICES ASSUME ReadInv, RunDecodeHalf1 \/ RunDecodeHalf2 PROVE ReadInv'
  OBVIOUS
<1>1. UNCHANGED <<fetchvars, mcvars, disable_clk, half>> /\ ran' = ran \cup {"decode"}
  BY DEF RunDecodeHalf1, RunDecodeHalf2, Call, DecodeHalf1, DecodeHalf2, DecodeNoWord,
         DecodeInstWord, DecodeSkipHalf1, DecodeReadOperands, DecodeDispatch,
         DecodeSkipHalf2, UnwrittenByDecode, icvars
<1> QED
  BY <1>1
  DEF ReadInv, FetchOwnsItsRead, RoomForTheRead, WaitingResumes, ValidWhenReady,
      ShiftedQueue, PendingAddr, BusReady, mcvars, fetchvars

\* An execute unit called after the fetch unit finds the bus busy whenever the
\* fetch unit waits.
LEMMA ExecuteWhileFetchWaits ==
  ASSUME FetchBeforeExecute, ReadInv, fetch_waiting, ~disable_clk,
         RunExecuteHalf1 \/ RunExecuteHalf2
  PROVE  mc_state = "MCTL_MEM_R_BUSY" /\ UNCHANGED mcvars
<1>1. mc_state = "MCTL_MEM_R_BUSY"
  BY DEF ReadInv, FetchOwnsItsRead, FetchBeforeExecute, RunExecuteHalf1, RunExecuteHalf2,
         Call, Before, Units
<1>2. ~ExecuteAccess
  BY <1>1 DEF ExecuteAccess, AddrReadAssert, AddrWriteAssert, BusReady
<1> QED
  BY <1>1, <1>2
  DEF RunExecuteHalf1, RunExecuteHalf2, ExecuteHalf1, ExecuteHalf2, ExecuteIdles,
      ExecuteTakes, ExecuteSteps, ExecuteSkips

\* in the calls of the execute unit,
LEMMA ReadExecute ==
  ASSUME FetchBeforeExecute, TypeOK, ReadInv, RunExecuteHalf1 \/ RunExecuteHalf2
  PROVE  ReadInv'
<1>1. UNCHANGED <<fetchvars, half>> /\ (disable_clk => UNCHANGED <<mcvars, disable_clk>>)
  BY DEF RunExecuteHalf1, RunExecuteHalf2, Call, ExecuteHalf1, ExecuteHalf2, ExecuteIdles,
         ExecuteTakes, ExecuteSteps, ExecuteSkips, icvars
<1>2. ValidWhenReady'
  <2>1. ExecuteAccess \/ UNCHANGED mcvars
    BY DEF RunExecuteHalf1, RunExecuteHalf2, ExecuteHalf1, ExecuteHalf2, ExecuteIdles,
           ExecuteTakes, ExecuteSteps, ExecuteSkips
  <2> QED
    BY <2>1
    DEF ReadInv, ValidWhenReady, BusReady, ExecuteAccess, AddrReadAssert, AddrWriteAssert,
        mcvars
<1>3. CASE ~fetch_waiting
  BY <1>1, <1>2, <1>3
  DEF ReadInv, FetchOwnsItsRead, RoomForTheRead, WaitingResumes, fetchvars
<1>4. CASE fetch_waiting /\ disable_clk
  <2>1. ran' = ran \cup {"execute"}
    BY DEF RunExecuteHalf1, RunExecuteHalf2, Call
  <2> QED
    BY <1>1, <1>2, <1>4, <2>1
    DEF ReadInv, FetchOwnsItsRead, RoomForTheRead, WaitingResumes, ShiftedQueue,
        PendingAddr, BusReady, mcvars, fetchvars
<1>5. CASE fetch_waiting /\ ~disable_clk
  <2>1. mc_state = "MCTL_MEM_R_BUSY" /\ UNCHANGED mcvars
    BY <1>5, ExecuteWhileFetchWaits
  <2> QED
    BY <1>1, <1>2, <1>5, <2>1
    DEF ReadInv, FetchOwnsItsRead, RoomForTheRead, WaitingResumes, ShiftedQueue,
        PendingAddr, BusReady, mcvars, fetchvars
<1> QED
  BY <1>3, <1>4, <1>5

\* at the end of the first half,
LEMMA ReadEndHalf1 == ReadInv /\ EndHalf1 => ReadInv'
  BY DEF EndHalf1, HalfEnds, Units, ReadInv, FetchOwnsItsRead, RoomForTheRead, WaitingResumes,
         ValidWhenReady, ShiftedQueue, PendingAddr, BusReady, mcvars, icvars, fetchvars

\* at the end of the cycle, when the memory controller ticks,
LEMMA ReadEndCycle == TypeOK /\ ReadInv /\ EndCycle => ReadInv'
<1> SUFFICES ASSUME TypeOK, ReadInv, EndCycle PROVE ReadInv'
  OBVIOUS
<1>1. UNCHANGED <<fetchvars, disable_clk>> /\ half = 2 /\ half' = 1 /\ ran' = {}
  BY DEF EndCycle, HalfEnds, icvars
<1>2. RoomForTheRead'
  BY <1>1 DEF ReadInv, RoomForTheRead, ShiftedQueue, fetchvars
<1>3. FetchOwnsItsRead' /\ ValidWhenReady'
  BY <1>1
  DEF TypeOK, EndCycle, HalfEnds, MemCtlTick, TickIdle, TickBusy, TickDone, MemCtlStates, ReadInv,
      FetchOwnsItsRead, ValidWhenReady, BusReady, fetchvars
<1>4. fetch_waiting => PendingAddr' = PendingAddr
  BY <1>1
  DEF EndCycle, HalfEnds, MemCtlTick, TickIdle, TickBusy, TickDone, ReadInv, FetchOwnsItsRead,
      PendingAddr, BusReady
<1>5. WaitingResumes'
  BY <1>1, <1>4 DEF ReadInv, WaitingResumes, fetchvars
<1> QED
  BY <1>2, <1>3, <1>5 DEF ReadInv

\* and when nothing happens.
LEMMA ReadStutter == ReadInv /\ UNCHANGED vars => ReadInv'
  BY DEF vars, ReadInv, FetchOwnsItsRead, RoomForTheRead, WaitingResumes, ValidWhenReady,
         ShiftedQueue, PendingAddr, BusReady, mcvars, icvars, fetchvars, clockvars

\* The invariant of the fetch unit's read.
LEMMA ReadInvariant ==
  ASSUME FetchBeforeExecute PROVE Spec => []ReadInv
<1>1. TypeOK /\ ReadInv /\ [Next]_vars => ReadInv'
  BY ReadFetchHalf1, ReadFetchHalf2, ReadDecode, ReadExecute, ReadEndHalf1, ReadEndCycle,
     ReadStutter DEF Next
<1> QED
  BY ReadInit, TypeCorrect, <1>1, PTL DEF Spec

\* The bus never answers the fetch unit's read with another access, and the one
\* tick of data_valid is never missed but with a stopped clock.
THEOREM FetchReadSafe ==
  ASSUME FetchBeforeExecute PROVE Spec => []FetchOwnsItsRead
<1>1. ReadInv => FetchOwnsItsRead
  BY DEF ReadInv
<1> QED
  BY ReadInvariant, <1>1, PTL

\* The word of a read in flight always has a place in the queue when it comes.
THEOREM ReadHasRoom ==
  ASSUME FetchBeforeExecute PROVE Spec => []RoomForTheRead
<1>1. ReadInv => RoomForTheRead
  BY DEF ReadInv
<1> QED
  BY ReadInvariant, <1>1, PTL

-----------------------------------------------------------------------------
(***************************************************************************)
(* The order of the stream.                                                *)
(***************************************************************************)
LEMMA RowTypes ==
  TypeOK => /\ queue \in Queues /\ Requested \in Int /\ Latch \in Contents
            /\ fetch_mem_addr \in Int /\ ResolvedAddr \in Int
<1> SUFFICES ASSUME TypeOK
             PROVE  /\ queue \in Queues /\ Requested \in Int /\ Latch \in Contents
                    /\ fetch_mem_addr \in Int /\ ResolvedAddr \in Int
  OBVIOUS
<1>1. /\ fetch_mem_addr \in Int /\ addr_reg \in Int /\ data_reg_in \in Int
      /\ ResolvedAddr \in Int
  BY TypeResolved DEF TypeOK, Word32, Addr
<1>2. Requested \in Int
  BY <1>1 DEF Requested, PendingAddr
<1> QED
  BY <1>1, <1>2 DEF TypeOK, Queues, Contents, Latch

\* Only the fetch unit's own steps change what is requested.
LEMMA RequestedKept ==
  ASSUME FetchBeforeExecute, TypeOK, ReadInv,
         \/ RunDecodeHalf1 \/ RunDecodeHalf2 \/ RunExecuteHalf1 \/ RunExecuteHalf2
         \/ EndHalf1 \/ EndCycle \/ UNCHANGED vars
  PROVE  UNCHANGED <<fetchvars, Requested>>
<1>1. UNCHANGED fetchvars
  BY DEF RunDecodeHalf1, RunDecodeHalf2, DecodeHalf1, DecodeHalf2, DecodeNoWord,
         DecodeInstWord, DecodeSkipHalf1, DecodeReadOperands, DecodeDispatch,
         DecodeSkipHalf2, RunExecuteHalf1, RunExecuteHalf2, ExecuteHalf1, ExecuteHalf2,
         ExecuteIdles, ExecuteTakes, ExecuteSteps, ExecuteSkips, EndHalf1, EndCycle, vars
<1>2. fetch_waiting => PendingAddr' = PendingAddr
  <2>1. CASE RunExecuteHalf1 \/ RunExecuteHalf2
    <3>1. disable_clk => UNCHANGED mcvars
      BY <2>1
      DEF RunExecuteHalf1, RunExecuteHalf2, ExecuteHalf1, ExecuteHalf2, ExecuteIdles,
          ExecuteTakes, ExecuteSteps, ExecuteSkips
    <3> QED
      BY <2>1, <3>1, ExecuteWhileFetchWaits DEF PendingAddr, BusReady, mcvars
  <2>2. CASE EndCycle
    BY <2>2
    DEF EndCycle, HalfEnds, MemCtlTick, TickIdle, TickBusy, TickDone, ReadInv, FetchOwnsItsRead,
        PendingAddr, BusReady
  <2>3. CASE RunDecodeHalf1 \/ RunDecodeHalf2 \/ EndHalf1 \/ UNCHANGED vars
    <3>1. UNCHANGED mcvars
      BY <2>3
      DEF RunDecodeHalf1, RunDecodeHalf2, DecodeHalf1, DecodeHalf2, DecodeNoWord,
          DecodeInstWord, DecodeSkipHalf1, DecodeReadOperands, DecodeDispatch,
          DecodeSkipHalf2, EndHalf1, vars
    <3> QED
      BY <3>1 DEF PendingAddr, BusReady, mcvars
  <2> QED
    BY <2>1, <2>2, <2>3
<1> QED
  BY <1>1, <1>2 DEF Requested, fetchvars

\* Shifting, and storing the awaited word, advance the row to fetch_mem_addr.
LEMMA LoadedRow ==
  ASSUME TypeOK, ReadInv, fetch_waiting => data_valid
  PROVE  /\ StreamInOrder => InOrder(LoadedQueue, fetch_mem_addr, Latch)
         /\ FetchAddrInStep => InStep(LoadedQueue, fetch_mem_addr, Latch, fetch_addr)
<1>1. ShiftedQueue \in Queues
  BY ShiftedQueueType
<1>2. /\ StreamInOrder => InOrder(ShiftedQueue, Requested, Latch)
      /\ FetchAddrInStep => InStep(ShiftedQueue, Requested, Latch, fetch_addr)
  BY RowTypes, ShiftInOrder, ShiftInStep DEF ShiftedQueue, StreamInOrder, FetchAddrInStep
<1>3. CASE fetch_waiting
  <2>1. data_reg_in = Requested /\ fetch_mem_addr = NextWord(Requested)
    BY <1>3
    DEF ReadInv, ValidWhenReady, WaitingResumes, Requested, PendingAddr
  <2>2. ShiftedQueue[0] = NoWord
    BY <1>3 DEF ReadInv, RoomForTheRead
  <2>3. LoadedQueue = [ShiftedQueue EXCEPT ![0] = Requested]
    BY <1>3, <2>1 DEF LoadedQueue
  <2> QED
    BY <1>1, <1>2, <2>1, <2>2, <2>3, RowTypes, LoadInOrder, LoadInStep
<1>4. CASE ~fetch_waiting
  BY <1>2, <1>4 DEF LoadedQueue, Requested
<1> QED
  BY <1>3, <1>4

\* The empty row is in order.
LEMMA OrderInit == Init => StreamInOrder
<1> SUFFICES ASSUME Init PROVE StreamInOrder
  OBVIOUS
<1>1. Requested \in Int
  BY TypeInit, RowTypes
<1>2. queue = EmptyQueue /\ Latch = NoWord
  BY DEF Init, FetchInit, InterconnectInit, Latch
<1> QED
  BY <1>1, <1>2, FlushedRow DEF StreamInOrder

\* The first half of the fetch unit moves the row along.
LEMMA OrderFetchHalf1 == TypeOK /\ ReadInv /\ StreamInOrder /\ RunFetchHalf1 => StreamInOrder'
<1> SUFFICES ASSUME TypeOK, ReadInv, StreamInOrder, RunFetchHalf1 PROVE StreamInOrder'
  OBVIOUS
<1>1. CASE FetchMemWait
  <2>1. InOrder(ShiftedQueue, Requested, Latch)
    BY RowTypes, ShiftInOrder DEF ShiftedQueue, StreamInOrder
  <2>2. queue' = ShiftedQueue /\ Requested' = Requested /\ Latch' = Latch
    BY <1>1 DEF FetchMemWait, Requested, PendingAddr, BusReady, Latch, mcvars, icvars
  <2> QED
    BY <2>1, <2>2 DEF StreamInOrder
<1>2. CASE FetchDequeue
  <2>1. InOrder(LoadedQueue, fetch_mem_addr, Latch) /\ LoadedQueue \in Queues
    BY <1>2, LoadedRow, LoadedQueueType DEF FetchDequeue
  <2>2. Requested' = fetch_mem_addr
    BY <1>2 DEF FetchDequeue, Requested
  <2>3. CASE FetchLatchesWord
    <3>1. /\ queue' = [LoadedQueue EXCEPT ![LastSlot] = NoWord]
          /\ Latch' = LoadedQueue[LastSlot]
      BY <1>2, <2>3 DEF FetchDequeue, Latch
    <3>2. InOrder([LoadedQueue EXCEPT ![LastSlot] = NoWord], fetch_mem_addr,
                  LoadedQueue[LastSlot])
      BY <2>1, <2>3, RowTypes, LatchInOrder DEF FetchLatchesWord, Latch
    <3> QED
      BY <2>2, <3>1, <3>2 DEF StreamInOrder
  <2>4. CASE ~FetchLatchesWord
    <3>1. queue' = LoadedQueue /\ Latch' = Latch
      BY <1>2, <2>4 DEF FetchDequeue, Latch
    <3> QED
      BY <2>1, <2>2, <3>1 DEF StreamInOrder
  <2> QED
    BY <2>3, <2>4
<1>3. CASE FetchSkipHalf1
  BY <1>3
  DEF FetchSkipHalf1, StreamInOrder, Requested, PendingAddr, BusReady, Latch, mcvars,
      icvars, fetchvars
<1> QED
  BY <1>1, <1>2, <1>3 DEF RunFetchHalf1, FetchHalf1

\* What a second half leaves: the row of before, or only the target of a branch.
LEMMA ResolvedRow ==
  ASSUME TypeOK, ReadInv, FetchFull \/ FetchHold \/ FetchAssert
  PROVE  /\ queue' = ResolvedQueue /\ Requested' = ResolvedAddr
         /\ Flushes => queue' = EmptyQueue /\ Latch' = NoWord
         /\ ~Flushes => queue' = queue /\ Latch' = Latch /\ Requested' = Requested
<1>1. ~fetch_waiting
  BY DEF FetchFull, FetchHold, FetchAssert, FetchInHalf2, ReadInv, WaitingResumes
<1>2. queue' = ResolvedQueue /\ Requested' = ResolvedAddr
  BY <1>1
  DEF FetchFull, FetchHold, FetchAssert, AddrReadAssert, Requested, PendingAddr, BusReady
<1>3. Latch' = IF Flushes THEN NoWord ELSE Latch
  BY DEF TypeOK, FetchFull, FetchHold, FetchAssert, ResolveBranch, Latch
<1> QED
  BY <1>1, <1>2, <1>3 DEF ResolvedQueue, ResolvedAddr, Flushes, Requested

\* Its second half keeps the row or empties it.
LEMMA OrderFetchHalf2 == TypeOK /\ ReadInv /\ StreamInOrder /\ RunFetchHalf2 => StreamInOrder'
<1> SUFFICES ASSUME TypeOK, ReadInv, StreamInOrder, RunFetchHalf2 PROVE StreamInOrder'
  OBVIOUS
<1>1. CASE FetchFull \/ FetchHold \/ FetchAssert
  <2>1. CASE Flushes
    BY <1>1, <2>1, ResolvedRow, RowTypes, FlushedRow DEF StreamInOrder
  <2>2. CASE ~Flushes
    BY <1>1, <2>2, ResolvedRow DEF StreamInOrder
  <2> QED
    BY <2>1, <2>2
<1>2. CASE FetchSkipHalf2
  BY <1>2
  DEF FetchSkipHalf2, StreamInOrder, Requested, PendingAddr, BusReady, Latch, mcvars,
      icvars, fetchvars
<1> QED
  BY <1>1, <1>2 DEF RunFetchHalf2, FetchHalf2

\* The decode unit empties the latch or leaves it alone; nobody else touches it.
LEMMA LatchTakenOrKept ==
  ASSUME TypeOK,
         \/ RunDecodeHalf1 \/ RunDecodeHalf2 \/ RunExecuteHalf1 \/ RunExecuteHalf2
         \/ EndHalf1 \/ EndCycle \/ UNCHANGED vars
  PROVE  Latch' = Latch \/ Latch' = NoWord
<1>1. CASE RunDecodeHalf1 \/ RunDecodeHalf2
  <2>1. fetch_word' = fetch_word
    BY <1>1
    DEF RunDecodeHalf1, RunDecodeHalf2, DecodeHalf1, DecodeHalf2, DecodeNoWord,
        DecodeInstWord, DecodeSkipHalf1, DecodeReadOperands, DecodeDispatch,
        DecodeSkipHalf2, UnwrittenByDecode, icvars
  <2>2. fetch_word_semaph' = fetch_word_semaph \/ fetch_word_semaph' = FALSE
    BY <1>1, Zenon
    DEF TypeOK, RunDecodeHalf1, RunDecodeHalf2, DecodeHalf1, DecodeHalf2, DecodeNoWord,
        DecodeInstWord, DecodeSkipHalf1, DecodeReadOperands, DecodeDispatch,
        DecodeSkipHalf2, icvars
  <2> QED
    BY <2>1, <2>2 DEF Latch
<1>2. CASE RunExecuteHalf1 \/ RunExecuteHalf2 \/ EndHalf1 \/ EndCycle \/ UNCHANGED vars
  <2>1. UNCHANGED <<fetch_word, fetch_word_semaph>>
    BY <1>2
    DEF RunExecuteHalf1, RunExecuteHalf2, ExecuteHalf1, ExecuteHalf2, ExecuteIdles,
        ExecuteTakes, ExecuteSteps, ExecuteSkips, UnwrittenByExecute, EndHalf1, EndCycle,
        vars, icvars
  <2> QED
    BY <2>1 DEF Latch
<1> QED
  BY <1>1, <1>2

\* The others at most take the word in the latch.
LEMMA OrderOthers ==
  ASSUME FetchBeforeExecute, TypeOK, ReadInv, StreamInOrder,
         \/ RunDecodeHalf1 \/ RunDecodeHalf2 \/ RunExecuteHalf1 \/ RunExecuteHalf2
         \/ EndHalf1 \/ EndCycle \/ UNCHANGED vars
  PROVE  StreamInOrder'
<1>1. Requested' = Requested /\ queue' = queue
  BY RequestedKept DEF fetchvars
<1>2. InOrder(queue, Requested, Latch) /\ InOrder(queue, Requested, NoWord)
  BY RowTypes, TakeInOrder DEF StreamInOrder
<1> QED
  BY <1>1, <1>2, LatchTakenOrKept DEF StreamInOrder

\* Words reach the decode stage in the order of their addresses, none lost,
\* repeated or left over from before a branch.
THEOREM StreamSafe ==
  ASSUME FetchBeforeExecute
  PROVE  Spec => []StreamInOrder
<1>1. TypeOK /\ ReadInv /\ StreamInOrder /\ [Next]_vars => StreamInOrder'
  BY OrderFetchHalf1, OrderFetchHalf2, OrderOthers DEF Next
<1> QED
  BY ReadInvariant, OrderInit, TypeCorrect, <1>1, PTL DEF Spec

-----------------------------------------------------------------------------
(***************************************************************************)
(* The alignment of the stream: every address on its way from a branch or  *)
(* a read to the decode unit is even, so that the fetch unit reads whole   *)
(* words.                                                                  *)
(***************************************************************************)
Even(a) == a % 2 = 0

\* The inductive form of ReadsAligned: an odd address anywhere would be read, or be
\* added to one that is read, later.
WordsAligned ==
  /\ \A i \in Slots : queue[i] # NoWord => Even(queue[i])
  /\ Even(fetch_word) /\ Even(fetch_mem_addr) /\ Even(fetch_addr)
  /\ Even(decode_branch_addr) /\ Even(execute_branch_addr)
  /\ ReadsAligned

-----------------------------------------------------------------------------
\* The successor of any address is that of a word.
LEMMA NextWordEven == \A x \in Int : Even(NextWord(x))
<1> SUFFICES ASSUME NEW x \in Int PROVE Even(NextWord(x))
  OBVIOUS
<1>1. (x + 2) % AddrSpace \in Int
  BY AddrAssumption
<1>2. \A r \in Int : (2 * (r \div 2)) % 2 = 0
  OBVIOUS
<1> QED
  BY <1>1, <1>2 DEF NextWord, WordAlign, Even

\* Cutting a 32-bit sum to its width keeps its last bit.
LEMMA CutEven ==
  ASSUME NEW x \in Nat, NEW m \in Nat, m > 0, x < 2 * m, Even(m), Even(x)
  PROVE  Even(x % m)
<1>1. x % m = x \/ x % m = x - m
  OBVIOUS
<1> QED
  BY <1>1 DEF Even

\* A predicted address is even, also when the 32-bit sum wraps.
LEMMA PredictedEven ==
  ASSUME TypeOK, WordsAligned, NEW k \in Kinds, k.branch # "none"
  PROVE  Even(PredictedAddr(k))
<1>1. k.arg \in Nat /\ Even(k.arg)
  BY DecodeAssumption DEF DecodedKind, Even
<1>2. fetch_addr \in Int /\ Even(fetch_addr)
  BY DEF TypeOK, Addr, WordsAligned
<1>3. IntSpace \in Nat /\ IntSpace > 0 /\ Even(IntSpace)
  BY DecodeAssumption, AddrAssumption DEF Even
<1>4. CASE k.branch = "relative"
  <2> DEFINE sum == fetch_addr + IntSpace - k.arg
  <2>1. k.arg < IntSpace /\ fetch_addr >= 0 /\ fetch_addr < IntSpace
    BY <1>4, DecodeAssumption, AddrAssumption DEF TypeOK, Addr
  <2>2. sum \in Nat /\ sum < 2 * IntSpace
    BY <1>1, <1>2, <1>3, <2>1
  <2>3. Even(sum)
    BY <1>1, <1>2, <1>3 DEF Even
  <2> HIDE DEF sum
  <2>4. Even(sum % IntSpace)
    BY <1>3, <2>2, <2>3, CutEven
  <2> QED
    BY <1>4, <2>4 DEF PredictedAddr, sum
<1> QED
  BY <1>1, <1>4, DecodeAssumption DEF PredictedAddr, DecodedKind

\* Shifting keeps the slots even.
LEMMA ShiftEven ==
  ASSUME NEW q \in Queues, \A i \in Slots : q[i] # NoWord => Even(q[i])
  PROVE  \A i \in Slots : Shift(q)[i] # NoWord => Even(Shift(q)[i])
  BY SlotFacts DEF Shift

-----------------------------------------------------------------------------
\* The invariant holds initially.
LEMMA AlignInit == Init => WordsAligned
<1> SUFFICES ASSUME Init PROVE WordsAligned
  OBVIOUS
<1>1. Even(0)
  BY DEF Even
<1>2. Even(fetch_mem_addr)
  BY FrontEndAssumption DEF Init, Even
<1> QED
  BY <1>1, <1>2
  DEF Init, MemCtlInit, InterconnectInit, FetchInit, EmptyQueue, WordsAligned, ReadsAligned

\* The first half of the fetch unit moves even addresses along.
LEMMA AlignFetchHalf1 == TypeOK /\ ReadInv /\ WordsAligned /\ RunFetchHalf1 => WordsAligned'
<1> SUFFICES ASSUME TypeOK, ReadInv, WordsAligned, RunFetchHalf1 PROVE WordsAligned'
  OBVIOUS
<1>1. \A i \in Slots : ShiftedQueue[i] # NoWord => Even(ShiftedQueue[i])
  BY ShiftEven DEF WordsAligned, ShiftedQueue, TypeOK, Queues, Contents
<1>2. CASE FetchMemWait
  BY <1>1, <1>2
  DEF FetchMemWait, WordsAligned, ReadsAligned, PendingAddr, BusReady, mcvars, icvars
<1>3. CASE FetchDequeue
  <2>1. fetch_waiting => Even(data_reg_in)
    BY <1>3
    DEF FetchDequeue, ReadInv, ValidWhenReady, WordsAligned, ReadsAligned, PendingAddr, Even
  <2>2. \A i \in Slots : LoadedQueue[i] # NoWord => Even(LoadedQueue[i])
    BY <1>1, <2>1, ShiftedQueueType DEF LoadedQueue, Queues
  <2>3. \A i \in Slots : queue'[i] # NoWord => Even(queue'[i])
    BY <1>3, <2>2, LoadedQueueType DEF FetchDequeue, Queues
  <2>4. Even(fetch_word') /\ Even(fetch_addr')
    BY <1>3, <2>2, NextWordEven, SlotFacts
    DEF FetchDequeue, FetchLatchesWord, WordsAligned, TypeOK, Addr
  <2> QED
    BY <1>3, <2>3, <2>4 DEF FetchDequeue, WordsAligned, ReadsAligned, branchlines
<1>4. CASE FetchSkipHalf1
  BY <1>4
  DEF FetchSkipHalf1, WordsAligned, ReadsAligned, PendingAddr, BusReady, fetchvars, mcvars, icvars
<1> QED
  BY <1>2, <1>3, <1>4 DEF RunFetchHalf1, FetchHalf1

\* Its second half aligns what it is sent to.
LEMMA AlignFetchHalf2 == TypeOK /\ WordsAligned /\ RunFetchHalf2 => WordsAligned'
<1> SUFFICES ASSUME TypeOK, WordsAligned, RunFetchHalf2 PROVE WordsAligned'
  OBVIOUS
<1>1. /\ Even(ResolvedAddr) /\ Even(ReportedAddr)
      /\ \A i \in Slots : ResolvedQueue[i] # NoWord => Even(ResolvedQueue[i])
  BY DEF WordsAligned, ResolvedAddr, ReportedAddr, ResolvedQueue, EmptyQueue
<1>2. ResolvedAddr \in Int
  BY TypeResolved DEF Word32
<1>3. ASSUME ResolveBranch
      PROVE  /\ Even(fetch_addr') /\ Even(fetch_word')
             /\ Even(decode_branch_addr') /\ Even(execute_branch_addr')
  BY <1>1, <1>3 DEF ResolveBranch, WordsAligned
<1>4. CASE FetchFull \/ FetchHold
  BY <1>1, <1>3, <1>4
  DEF FetchFull, FetchHold, WordsAligned, ReadsAligned, PendingAddr, BusReady, mcvars
<1>5. CASE FetchAssert
  <2>1. Even(PendingAddr')
    BY <1>1, <1>5 DEF FetchAssert, AddrReadAssert, PendingAddr, BusReady
  <2>2. Even(fetch_mem_addr')
    BY <1>2, <1>5, NextWordEven DEF FetchAssert
  <2> QED
    BY <1>1, <1>3, <1>5, <2>1, <2>2 DEF FetchAssert, WordsAligned, ReadsAligned, Even
<1>6. CASE FetchSkipHalf2
  BY <1>6
  DEF FetchSkipHalf2, WordsAligned, ReadsAligned, PendingAddr, BusReady, fetchvars, mcvars, icvars
<1> QED
  BY <1>4, <1>5, <1>6 DEF RunFetchHalf2, FetchHalf2

\* The decode unit predicts even addresses.
LEMMA AlignDecode ==
  TypeOK /\ WordsAligned /\ (RunDecodeHalf1 \/ RunDecodeHalf2) => WordsAligned'
<1> SUFFICES ASSUME TypeOK, WordsAligned, RunDecodeHalf1 \/ RunDecodeHalf2 PROVE WordsAligned'
  OBVIOUS
<1>1. UNCHANGED <<fetchvars, mcvars, fetch_word, fetch_addr, execute_branch_addr>>
  BY DEF RunDecodeHalf1, RunDecodeHalf2, DecodeHalf1, DecodeHalf2, DecodeNoWord, DecodeInstWord,
         DecodeSkipHalf1, DecodeReadOperands, DecodeDispatch, DecodeSkipHalf2,
         UnwrittenByDecode, icvars
<1>2. Even(decode_branch_addr')
  <2>1. CASE UNCHANGED decode_branch_addr
    BY <2>1 DEF WordsAligned
  <2>2. ASSUME NEW k \in Kinds, DecodeInstWord(k) PROVE Even(decode_branch_addr')
    BY <2>2, PredictedEven DEF DecodeInstWord, WordsAligned
  <2> QED
    BY <2>1, <2>2
    DEF RunDecodeHalf1, RunDecodeHalf2, DecodeHalf1, DecodeHalf2, DecodeNoWord,
        DecodeSkipHalf1, DecodeReadOperands, DecodeDispatch, DecodeSkipHalf2, icvars
<1> QED
  BY <1>1, <1>2
  DEF WordsAligned, ReadsAligned, PendingAddr, BusReady, fetchvars, mcvars

\* The execute unit branches to even addresses.
LEMMA AlignExecute ==
  ASSUME FetchBeforeExecute, ReadInv, WordsAligned, RunExecuteHalf1 \/ RunExecuteHalf2
  PROVE  WordsAligned'
<1>1. UNCHANGED <<fetchvars, fetch_word, fetch_addr, decode_branch_addr>>
  BY DEF RunExecuteHalf1, RunExecuteHalf2, ExecuteHalf1, ExecuteHalf2, ExecuteIdles,
         ExecuteTakes, ExecuteSteps, ExecuteSkips, UnwrittenByExecute, branchlines, icvars
<1>2. Even(execute_branch_addr')
  BY ExecuteAssumption
  DEF RunExecuteHalf1, RunExecuteHalf2, ExecuteHalf1, ExecuteHalf2, ExecuteIdles, ExecuteTakes,
      ExecuteSteps, ExecuteSkips, RaiseBranch, branchlines, icvars, WordsAligned, Even
<1>3. fetch_waiting => UNCHANGED mcvars
  BY ExecuteWhileFetchWaits
  DEF RunExecuteHalf1, RunExecuteHalf2, ExecuteHalf1, ExecuteHalf2, ExecuteIdles, ExecuteTakes,
      ExecuteSteps, ExecuteSkips
<1> QED
  BY <1>1, <1>2, <1>3
  DEF WordsAligned, ReadsAligned, PendingAddr, BusReady, fetchvars, mcvars

\* The ends of the halves touch no address.
LEMMA AlignEndHalf ==
  TypeOK /\ ReadInv /\ WordsAligned /\ (EndHalf1 \/ EndCycle) => WordsAligned'
<1> SUFFICES ASSUME TypeOK, ReadInv, WordsAligned, EndHalf1 \/ EndCycle PROVE WordsAligned'
  OBVIOUS
<1>1. UNCHANGED <<fetchvars, icvars>>
  BY DEF EndHalf1, EndCycle
<1>2. fetch_waiting => PendingAddr' = PendingAddr
  BY <1>1
  DEF EndHalf1, EndCycle, HalfEnds, MemCtlTick, TickIdle, TickBusy, TickDone, ReadInv,
      FetchOwnsItsRead, PendingAddr, BusReady, mcvars
<1> QED
  BY <1>1, <1>2 DEF WordsAligned, ReadsAligned, fetchvars, icvars

\* Nor do stuttering steps.
LEMMA AlignStutter == WordsAligned /\ UNCHANGED vars => WordsAligned'
  BY DEF vars, WordsAligned, ReadsAligned, PendingAddr, BusReady, mcvars, icvars, fetchvars

\* The step forms of the invariants the proof uses: the types,
LEMMA TypeStep == TypeOK /\ [Next]_vars => TypeOK'
  BY TypeFetchHalf1, TypeFetchHalf2, TypeDecodeHalf1, TypeDecodeHalf2, TypeExecuteHalf1,
     TypeExecuteHalf2, TypeEndHalf1, TypeEndCycle, TypeStutter DEF Next

\* the read,
LEMMA ReadStep ==
  ASSUME FetchBeforeExecute, TypeOK, ReadInv, [Next]_vars
  PROVE  ReadInv'
  BY ReadFetchHalf1, ReadFetchHalf2, ReadDecode, ReadExecute, ReadEndHalf1, ReadEndCycle,
     ReadStutter DEF Next

\* and the alignment.
LEMMA AlignStep ==
  ASSUME FetchBeforeExecute, TypeOK, ReadInv, WordsAligned, [Next]_vars
  PROVE  WordsAligned'
  BY AlignFetchHalf1, AlignFetchHalf2, AlignDecode, AlignExecute, AlignEndHalf, AlignStutter
  DEF Next

\* The fetch unit never reads the bytes of two words, and never past the end of memory.
THEOREM ReadsWholeWords ==
  ASSUME FetchBeforeExecute
  PROVE  Spec => []ReadsAligned
<1>1. TypeOK /\ ReadInv /\ WordsAligned /\ [Next]_vars => (TypeOK /\ ReadInv /\ WordsAligned)'
  BY TypeStep, ReadStep, AlignStep
<1>2. Init => TypeOK /\ ReadInv /\ WordsAligned
  BY TypeInit, ReadInit, AlignInit
<1>3. WordsAligned => ReadsAligned
  BY DEF WordsAligned
<1> QED
  BY <1>1, <1>2, <1>3, PTL DEF Spec

-----------------------------------------------------------------------------
(***************************************************************************)
(* The refinement.  Row is the order the words are read ahead in, and      *)
(* WordsFrom goes through it from the far end, so what a step does to the  *)
(* words is shown by induction on the places: the library's theorem that < *)
(* is well founded on Nat, with a set for the induction hypothesis.        *)
(***************************************************************************)
\* The values of Row and of the lists of words.
Rows == [0..QueueLen -> Contents]
Words == Seq(Addr)
Far == QueueLen + 1

\* What the recursion of WordsFrom says.
FromPlace(f, row, i) ==
  IF i > QueueLen THEN <<>>
  ELSE IF row[i] = NoWord THEN f[i + 1] ELSE Append(f[i + 1], row[i])

\* What the lists of words do.
LEMMA WordLists ==
  /\ <<>> \in Words /\ Len(<<>>) = 0
  /\ \A x \in Addr : Append(<<>>, x) # <<>> /\ Tail(Append(<<>>, x)) = <<>>
  /\ \A ws \in Words, x \in Addr :
       /\ Append(ws, x) \in Words /\ Len(ws) \in Nat
       /\ Len(Append(ws, x)) = Len(ws) + 1
       /\ Append(ws, x) # <<>>
       /\ ws # <<>> => Tail(Append(ws, x)) = Append(Tail(ws), x)
  BY DEF Words

\* A set of naturals has a least element.
LEMMA Least ==
  ASSUME NEW T, T \subseteq Nat, T # {}
  PROVE  \E x \in T : \A y \in T : x <= y
<1> DEFINE R == OpToRel(<, Nat)
<1>1. IsWellFoundedOn(R, Nat)
  BY NatLessThanWellFounded
<1>2. \A x, y \in Nat : y < x => <<y, x>> \in R
  BY DEF OpToRel
<1> HIDE DEF R
<1>3. PICK x \in T : \A y \in T : ~ (<<y, x>> \in R)
  BY <1>1, WFMin
<1>4. x \in Nat /\ \A y \in T : y \in Nat
  OBVIOUS
<1>5. \A y \in T : ~(y < x)
  BY <1>2, <1>3, <1>4
<1> QED
  BY <1>4, <1>5

\* Induction down from n, with a set for the induction hypothesis.
LEMMA Downwards ==
  ASSUME NEW n \in Nat, NEW S, n \in S, \A i \in 0..(n - 1) : i + 1 \in S => i \in S
  PROVE  \A i \in 0..n : i \in S
<1> DEFINE T == {d \in 0..n : n - d \notin S}
<1> SUFFICES ASSUME NEW i \in 0..n, i \notin S PROVE FALSE
  OBVIOUS
<1>1. n - i \in T
  <2>1. n - (n - i) = i /\ n - i \in 0..n
    OBVIOUS
  <2> QED
    BY <2>1
<1>2. T \subseteq Nat /\ T # {}
  BY <1>1
<1>3. PICK d \in T : \A e \in T : d <= e
  BY <1>2, Least
<1>4. d \in 0..n /\ n - d \notin S
  BY <1>3
<1> HIDE DEF T
<1>5. d # 0
  BY <1>4
<1>6. d - 1 \notin T
  BY <1>3, <1>4
<1>7. n - (d - 1) \in S
  <2>1. d - 1 \in 0..n
    BY <1>4, <1>5
  <2> QED
    BY <1>6, <2>1 DEF T
<1>8. n - d \in 0..(n - 1) /\ (n - d) + 1 = n - (d - 1)
  BY <1>4, <1>5
<1> QED
  BY <1>4, <1>7, <1>8

\* The recursion has a solution.
LEMMA WordsFromSolved ==
  ASSUME NEW row \in Rows
  PROVE  \E f \in [0..Far -> Words] : f = [i \in 0..Far |-> FromPlace(f, row, i)]
<1> DEFINE S == {i \in 0..Far : \E f \in [0..Far -> Words] :
                                  \A j \in i..Far : f[j] = FromPlace(f, row, j)}
<1>1. Far \in Nat /\ QueueLen \in Nat /\ Far = QueueLen + 1
  BY QueueAssumption DEF Far
<1>2. Far \in S
  <2> DEFINE f == [j \in 0..Far |-> <<>>]
  <2>1. f \in [0..Far -> Words]
    BY DEF Words
  <2>2. \A j \in Far..Far : f[j] = FromPlace(f, row, j)
    BY <1>1 DEF FromPlace
  <2> QED
    BY <1>1, <2>1, <2>2
<1>3. ASSUME NEW i \in 0..(Far - 1), i + 1 \in S PROVE i \in S
  <2>1. PICK f \in [0..Far -> Words] : \A j \in (i + 1)..Far : f[j] = FromPlace(f, row, j)
    BY <1>3
  <2> DEFINE g == [f EXCEPT ![i] = FromPlace(f, row, i)]
  <2>2. i <= QueueLen /\ i \in 0..Far /\ i + 1 \in 0..Far /\ i \in 0..QueueLen
    BY <1>1
  <2>3. FromPlace(f, row, i) \in Words
    BY <2>2 DEF FromPlace, Words, Rows, Contents
  <2>4. g \in [0..Far -> Words]
    BY <2>3
  <2>5. \A j \in i..Far : g[j] = FromPlace(g, row, j)
    <3>1. \A j \in (i + 1)..Far : g[j] = f[j]
      BY <1>1, <2>2
    <3>2. g[i] = FromPlace(f, row, i)
      BY <2>2
    <3> HIDE DEF g
    <3>3. \A j \in i..Far : j <= QueueLen => g[j + 1] = f[j + 1]
      BY <1>1, <3>1
    <3>4. \A j \in i..Far : FromPlace(g, row, j) = FromPlace(f, row, j)
      BY <3>3, <1>1 DEF FromPlace
    <3>5. \A j \in i..Far : j = i \/ j \in (i + 1)..Far
      BY <1>1
    <3> QED
      BY <2>1, <3>1, <3>2, <3>4, <3>5
  <2> QED
    BY <2>2, <2>4, <2>5
<1>4. 0 \in S
  <2> HIDE DEF S
  <2>1. \A i \in 0..Far : i \in S
    BY <1>1, <1>2, <1>3, Downwards
  <2> QED
    BY <1>1, <2>1
<1>5. PICK f \in [0..Far -> Words] : \A j \in 0..Far : f[j] = FromPlace(f, row, j)
  BY <1>4
<1>6. f = [i \in 0..Far |-> FromPlace(f, row, i)]
  BY <1>5
<1> QED
  BY <1>6

\* WordsFrom is one.
LEMMA WordsFromUnfold ==
  ASSUME NEW row \in Rows
  PROVE  WordsFrom(row) = [i \in 0..Far |-> FromPlace(WordsFrom(row), row, i)]
<1> DEFINE F(f) == [i \in 0..Far |-> FromPlace(f, row, i)]
<1>1. \E f : f = F(f)
  BY WordsFromSolved
<1>2. WordsFrom(row) = CHOOSE f : f = F(f)
  BY DEF WordsFrom, FromPlace, Far
<1> HIDE DEF F
<1>3. WordsFrom(row) = F(WordsFrom(row))
  BY <1>1, <1>2
<1> QED
  BY <1>3 DEF F

\* One place more.
LEMMA WordsFromStep ==
  ASSUME NEW row \in Rows
  PROVE  /\ WordsFrom(row)[Far] = <<>>
         /\ \A i \in 0..QueueLen :
              WordsFrom(row)[i] = IF row[i] = NoWord THEN WordsFrom(row)[i + 1]
                                  ELSE Append(WordsFrom(row)[i + 1], row[i])
<1> DEFINE w == WordsFrom(row)
<1>1. Far \in Nat /\ QueueLen \in Nat /\ Far = QueueLen + 1
  BY QueueAssumption DEF Far
<1>2. w = [i \in 0..Far |-> FromPlace(w, row, i)]
  BY WordsFromUnfold
<1> HIDE DEF w
<1>3. \A i \in 0..Far : w[i] = FromPlace(w, row, i)
  BY <1>2
<1>4. w[Far] = <<>>
  BY <1>1, <1>3 DEF FromPlace
<1>5. ASSUME NEW i \in 0..QueueLen
      PROVE  w[i] = IF row[i] = NoWord THEN w[i + 1] ELSE Append(w[i + 1], row[i])
  BY <1>1, <1>3 DEF FromPlace
<1> QED
  BY <1>4, <1>5 DEF w

\* There are no more words than places.
LEMMA WordsFromType ==
  ASSUME NEW row \in Rows
  PROVE  \A i \in 0..Far : WordsFrom(row)[i] \in Words /\ Len(WordsFrom(row)[i]) <= Far - i
<1> DEFINE w == WordsFrom(row)
           S == {i \in 0..Far : w[i] \in Words /\ Len(w[i]) <= Far - i}
<1>1. Far \in Nat /\ QueueLen \in Nat /\ Far = QueueLen + 1
  BY QueueAssumption DEF Far
<1>2. Far \in S
  <2>1. w[Far] = <<>>
    BY WordsFromStep
  <2> QED
    BY <1>1, <2>1, WordLists
<1>3. ASSUME NEW i \in 0..(Far - 1), i + 1 \in S PROVE i \in S
  <2>1. w[i] = IF row[i] = NoWord THEN w[i + 1] ELSE Append(w[i + 1], row[i])
    BY <1>1, WordsFromStep
  <2>2. w[i + 1] \in Words /\ Len(w[i + 1]) <= Far - (i + 1)
    BY <1>3
  <2>3. row[i] \in Contents
    BY <1>1 DEF Rows
  <2> HIDE DEF w
  <2>4. w[i] \in Words /\ Len(w[i]) <= Far - i
    <3>1. CASE row[i] = NoWord
      BY <1>1, <2>1, <2>2, <3>1, WordLists
    <3>2. CASE row[i] # NoWord
      <4>1. row[i] \in Addr
        BY <2>3, <3>2 DEF Contents
      <4>2. w[i] = Append(w[i + 1], row[i])
        BY <2>1, <3>2
      <4>3. w[i] \in Words /\ Len(w[i + 1]) \in Nat /\ Len(w[i]) = Len(w[i + 1]) + 1
        BY <2>2, <4>1, <4>2, WordLists
      <4> QED
        BY <1>1, <2>2, <4>3
    <3> QED
      BY <3>1, <3>2
  <2> QED
    BY <1>1, <2>4
<1> HIDE DEF S
<1>4. \A i \in 0..Far : i \in S
  BY <1>1, <1>2, <1>3, Downwards
<1> QED
  BY <1>4 DEF S

\* Rows that are the same from a place on have the same words from there on.
LEMMA SamePlaces ==
  ASSUME NEW r \in Rows, NEW s \in Rows, NEW p \in 0..Far,
         \A i \in p..QueueLen : r[i] = s[i]
  PROVE  WordsFrom(r)[p] = WordsFrom(s)[p]
<1> DEFINE S == {i \in 0..Far : i >= p => WordsFrom(r)[i] = WordsFrom(s)[i]}
<1>1. Far \in Nat /\ QueueLen \in Nat /\ Far = QueueLen + 1
  BY QueueAssumption DEF Far
<1>2. Far \in S
  BY <1>1, WordsFromStep
<1>3. ASSUME NEW i \in 0..(Far - 1), i + 1 \in S PROVE i \in S
  <2>1. i \in 0..QueueLen /\ i \in 0..Far
    BY <1>1
  <2>2. ASSUME i >= p PROVE WordsFrom(r)[i] = WordsFrom(s)[i]
    <3>1. r[i] = s[i] /\ WordsFrom(r)[i + 1] = WordsFrom(s)[i + 1]
      BY <1>3, <2>1, <2>2
    <3> QED
      BY <2>1, <3>1, WordsFromStep
  <2> QED
    BY <2>1, <2>2
<1> HIDE DEF S
<1>4. p \in S
  BY <1>1, <1>2, <1>3, Downwards
<1> QED
  BY <1>4 DEF S

\* Nor does it matter which of the places behind hold them.
LEMMA SameWords ==
  ASSUME NEW r \in Rows, NEW s \in Rows, NEW p \in 0..Far,
         WordsFrom(r)[p] = WordsFrom(s)[p],
         \A i \in 0..(p - 1) : r[i] = s[i]
  PROVE  WordsFrom(r)[0] = WordsFrom(s)[0]
<1> DEFINE S == {i \in 0..p : WordsFrom(r)[i] = WordsFrom(s)[i]}
<1>1. Far \in Nat /\ QueueLen \in Nat /\ Far = QueueLen + 1 /\ p \in Nat
  BY QueueAssumption DEF Far
<1>2. p \in S
  BY <1>1
<1>3. ASSUME NEW i \in 0..(p - 1), i + 1 \in S PROVE i \in S
  <2>1. i \in 0..QueueLen /\ i \in 0..p
    BY <1>1
  <2>2. r[i] = s[i] /\ WordsFrom(r)[i + 1] = WordsFrom(s)[i + 1]
    BY <1>3
  <2> QED
    BY <2>1, <2>2, WordsFromStep
<1> HIDE DEF S
<1>4. 0 \in S
  BY <1>1, <1>2, <1>3, Downwards
<1> QED
  BY <1>4 DEF S

-----------------------------------------------------------------------------
\* Row, of any queue and latch.
RowOf(q, latch) == [i \in 0..QueueLen |-> IF i = QueueLen THEN latch ELSE q[i]]

\* Every queue and latch make a row.
LEMMA RowType == \A q \in Queues, latch \in Contents : RowOf(q, latch) \in Rows
  BY CellFacts DEF RowOf, Rows, Queues, Contents

\* Shifting changes places only.
LEMMA ShiftWords ==
  ASSUME NEW q \in Queues, NEW latch \in Contents
  PROVE  WordsFrom(RowOf(Shift(q), latch))[0] = WordsFrom(RowOf(q, latch))[0]
<1> DEFINE r == RowOf(q, latch)
           s == RowOf(Shift(q), latch)
           before == WordsFrom(r)
           after == WordsFrom(s)
           S == {i \in 0..QueueLen :
                   after[i] = IF HoleFrom(q, i) /\ i # 0 THEN before[i - 1] ELSE before[i]}
<1>1. Far \in Nat /\ QueueLen \in Nat /\ QueueLen > 0 /\ Far = QueueLen + 1
  BY QueueAssumption DEF Far
<1>2. r \in Rows /\ s \in Rows
  BY RowType, ShiftType
<1>3. QueueLen \in S
  <2>1. ~HoleFrom(q, QueueLen)
    BY CellFacts DEF HoleFrom
  <2>2. r[QueueLen] = s[QueueLen]
    BY <1>1 DEF RowOf
  <2>3. after[QueueLen] = before[QueueLen]
    BY <1>1, <1>2, <2>2, SamePlaces
  <2> QED
    BY <1>1, <2>1, <2>3
<1>4. ASSUME NEW i \in 0..(QueueLen - 1), i + 1 \in S PROVE i \in S
  <2>1. i \in 0..QueueLen /\ i \in Slots /\ i + 1 \in 0..QueueLen /\ i # QueueLen /\ i + 1 # 0
    BY <1>1, CellFacts
  <2>2. after[i + 1] = IF HoleFrom(q, i + 1) THEN before[i] ELSE before[i + 1]
    BY <1>4, <2>1
  <2>3. r[i] = q[i] /\ s[i] = IF HoleFrom(q, i) THEN IF i = 0 THEN NoWord ELSE q[i - 1] ELSE q[i]
    BY <2>1 DEF RowOf, Shift, HoleFrom
  <2>4. i # 0 => r[i - 1] = q[i - 1]
    BY <2>1, <1>1 DEF RowOf
  <2>5. HoleFrom(q, i) <=> HoleFrom(q, i + 1) \/ q[i] = NoWord
    BY <2>1, CellFacts DEF HoleFrom
  <2>6. /\ before[i] = IF r[i] = NoWord THEN before[i + 1] ELSE Append(before[i + 1], r[i])
        /\ after[i] = IF s[i] = NoWord THEN after[i + 1] ELSE Append(after[i + 1], s[i])
    BY <1>2, <2>1, WordsFromStep
  <2>7. i # 0 => before[i - 1] = IF r[i - 1] = NoWord THEN before[i] ELSE Append(before[i], r[i - 1])
    <3>1. ASSUME i # 0 PROVE i - 1 \in 0..QueueLen /\ (i - 1) + 1 = i
      BY <2>1, <1>1, <3>1
    <3> QED
      BY <1>2, <3>1, WordsFromStep
  <2> HIDE DEF r, s, before, after
  <2>8. after[i] = IF HoleFrom(q, i) /\ i # 0 THEN before[i - 1] ELSE before[i]
    <3>1. CASE HoleFrom(q, i) /\ i # 0
      BY <2>2, <2>3, <2>4, <2>5, <2>6, <2>7, <3>1
    <3>2. CASE HoleFrom(q, i) /\ i = 0
      BY <2>2, <2>3, <2>5, <2>6, <3>2
    <3>3. CASE ~HoleFrom(q, i)
      BY <2>2, <2>3, <2>5, <2>6, <3>3
    <3> QED
      BY <3>1, <3>2, <3>3
  <2> QED
    BY <2>1, <2>8
<1>5. 0 \in S
  <2> HIDE DEF S
  <2>1. \A i \in 0..QueueLen : i \in S
    BY <1>1, <1>3, <1>4, Downwards
  <2> QED
    BY <1>1, <2>1
<1> QED
  BY <1>5

\* A word stored in slot 0 is the youngest.
LEMMA LoadWords ==
  ASSUME NEW q \in Queues, NEW latch \in Contents, NEW a \in Addr, q[0] = NoWord
  PROVE  /\ WordsFrom(RowOf([q EXCEPT ![0] = a], latch))[0]
              = Append(WordsFrom(RowOf(q, latch))[0], a)
         /\ Len(WordsFrom(RowOf(q, latch))[0]) < QueueLen + 1
<1> DEFINE r == RowOf(q, latch)
           s == RowOf([q EXCEPT ![0] = a], latch)
<1>1. Far \in Nat /\ QueueLen \in Nat /\ QueueLen > 0 /\ Far = QueueLen + 1 /\ 0 \in Slots
  BY QueueAssumption DEF Far, Slots
<1>2. [q EXCEPT ![0] = a] \in Queues
  BY DEF Queues, Contents
<1>3. r \in Rows /\ s \in Rows
  BY <1>2, RowType
<1>4. r[0] = NoWord /\ s[0] = a /\ a # NoWord
  BY <1>1, QueueAssumption DEF RowOf, Queues, Addr
<1>5. \A i \in 1..QueueLen : r[i] = s[i]
  BY <1>1, CellFacts DEF RowOf, Queues
<1> HIDE DEF r, s
<1>6. WordsFrom(r)[1] = WordsFrom(s)[1]
  <2>1. 1 \in 0..Far
    BY <1>1
  <2> QED
    BY <1>3, <1>5, <2>1, SamePlaces
<1>7. WordsFrom(r)[0] = WordsFrom(r)[1] /\ WordsFrom(s)[0] = Append(WordsFrom(s)[1], a)
  <2>1. 0 \in 0..QueueLen /\ 0 + 1 = 1
    BY <1>1
  <2> QED
    BY <1>3, <1>4, <2>1, WordsFromStep
<1>8. WordsFrom(r)[1] \in Words /\ Len(WordsFrom(r)[1]) <= Far - 1
  <2>1. 1 \in 0..Far
    BY <1>1
  <2> QED
    BY <1>3, <2>1, WordsFromType
<1>9. Len(WordsFrom(r)[0]) < QueueLen + 1
  BY <1>1, <1>7, <1>8 DEF Words
<1> QED
  BY <1>6, <1>7, <1>9 DEF r, s

\* The latch is behind the last slot.
LEMMA LatchWords ==
  ASSUME NEW q \in Queues, q[LastSlot] # NoWord
  PROVE  WordsFrom(RowOf([q EXCEPT ![LastSlot] = NoWord], q[LastSlot]))[0]
           = WordsFrom(RowOf(q, NoWord))[0]
<1> DEFINE r == RowOf(q, NoWord)
           rest == [q EXCEPT ![LastSlot] = NoWord]
           s == RowOf(rest, q[LastSlot])
<1>1. /\ Far \in Nat /\ QueueLen \in Nat /\ QueueLen > 0 /\ Far = QueueLen + 1
      /\ LastSlot = QueueLen - 1 /\ LastSlot \in Slots
  BY QueueAssumption DEF Far, Slots, LastSlot
<1>2. rest \in Queues /\ q[LastSlot] \in Contents /\ NoWord \in Contents
  BY <1>1 DEF Queues, Contents
<1>3. r \in Rows /\ s \in Rows
  BY <1>2, RowType
<1>4. /\ r[LastSlot] = q[LastSlot] /\ r[QueueLen] = NoWord
      /\ s[LastSlot] = NoWord /\ s[QueueLen] = q[LastSlot]
  BY <1>1 DEF RowOf, Queues
<1>5. WordsFrom(r)[LastSlot] = WordsFrom(s)[LastSlot]
  <2>1. LastSlot \in 0..QueueLen /\ QueueLen \in 0..QueueLen /\ LastSlot + 1 = QueueLen /\ QueueLen + 1 = Far
    BY <1>1
  <2>2. WordsFrom(r)[QueueLen] = <<>> /\ WordsFrom(s)[QueueLen] = Append(<<>>, q[LastSlot])
    BY <1>3, <1>4, <2>1, WordsFromStep
  <2>3. /\ WordsFrom(r)[LastSlot] = Append(WordsFrom(r)[QueueLen], q[LastSlot])
        /\ WordsFrom(s)[LastSlot] = WordsFrom(s)[QueueLen]
    BY <1>3, <1>4, <2>1, WordsFromStep
  <2> QED
    BY <2>2, <2>3
<1>6. \A i \in 0..(LastSlot - 1) : r[i] = s[i]
  BY <1>1, CellFacts DEF RowOf, Queues
<1>7. LastSlot \in 0..Far
  BY <1>1
<1> QED
  BY <1>3, <1>5, <1>6, <1>7, SameWords

\* The word in the latch is the oldest.
LEMMA TakeWords ==
  ASSUME NEW q \in Queues, NEW latch \in Addr
  PROVE  /\ WordsFrom(RowOf(q, latch))[0] # <<>>
         /\ WordsFrom(RowOf(q, NoWord))[0] = Tail(WordsFrom(RowOf(q, latch))[0])
<1> DEFINE r == RowOf(q, latch)
           s == RowOf(q, NoWord)
           before == WordsFrom(r)
           after == WordsFrom(s)
           S == {i \in 0..QueueLen : before[i] # <<>> /\ after[i] = Tail(before[i])}
<1>1. Far \in Nat /\ QueueLen \in Nat /\ QueueLen > 0 /\ Far = QueueLen + 1
  BY QueueAssumption DEF Far
<1>2. latch \in Contents /\ NoWord \in Contents /\ latch # NoWord
  BY QueueAssumption DEF Contents, Addr
<1>3. r \in Rows /\ s \in Rows
  BY <1>2, RowType
<1>4. QueueLen \in S
  <2>1. r[QueueLen] = latch /\ s[QueueLen] = NoWord
    BY <1>1 DEF RowOf
  <2>2. QueueLen \in 0..QueueLen /\ QueueLen + 1 = Far
    BY <1>1
  <2>3. before[QueueLen] = Append(<<>>, latch) /\ after[QueueLen] = <<>>
    BY <1>2, <1>3, <2>1, <2>2, WordsFromStep
  <2> HIDE DEF before, after
  <2> QED
    BY <2>2, <2>3, WordLists
<1>5. ASSUME NEW i \in 0..(QueueLen - 1), i + 1 \in S PROVE i \in S
  <2>1. i \in 0..QueueLen /\ i # QueueLen /\ i + 1 \in 0..Far
    BY <1>1
  <2>2. r[i] = q[i] /\ s[i] = q[i] /\ q[i] \in Contents
    BY <2>1, CellFacts DEF RowOf, Queues
  <2>3. /\ before[i] = IF r[i] = NoWord THEN before[i + 1] ELSE Append(before[i + 1], r[i])
        /\ after[i] = IF s[i] = NoWord THEN after[i + 1] ELSE Append(after[i + 1], s[i])
    BY <1>3, <2>1, WordsFromStep
  <2>4. before[i + 1] \in Words
    BY <1>3, <2>1, WordsFromType
  <2>5. before[i + 1] # <<>> /\ after[i + 1] = Tail(before[i + 1])
    BY <1>5
  <2> HIDE DEF r, s, before, after
  <2>7. before[i] # <<>> /\ after[i] = Tail(before[i])
    <3>1. CASE q[i] = NoWord
      BY <2>2, <2>3, <2>5, <3>1
    <3>2. CASE q[i] # NoWord
      <4>1. q[i] \in Addr
        BY <2>2, <3>2 DEF Contents
      <4>2. before[i] = Append(before[i + 1], q[i]) /\ after[i] = Append(after[i + 1], q[i])
        BY <2>2, <2>3, <3>2
      <4>3. /\ Append(before[i + 1], q[i]) # <<>>
            /\ Tail(Append(before[i + 1], q[i])) = Append(Tail(before[i + 1]), q[i])
        BY <2>4, <2>5, <4>1, WordLists
      <4> QED
        BY <2>5, <4>2, <4>3
    <3> QED
      BY <3>1, <3>2
  <2> QED
    BY <2>1, <2>7
<1>6. 0 \in S
  <2> HIDE DEF S
  <2>1. \A i \in 0..QueueLen : i \in S
    BY <1>1, <1>4, <1>5, Downwards
  <2> QED
    BY <1>1, <2>1
<1> QED
  BY <1>6

\* A branch leaves no word.
LEMMA NoWords == WordsFrom(RowOf(EmptyQueue, NoWord))[0] = <<>>
<1> DEFINE r == RowOf(EmptyQueue, NoWord)
           S == {i \in 0..Far : WordsFrom(r)[i] = <<>>}
<1>1. Far \in Nat /\ QueueLen \in Nat /\ QueueLen > 0 /\ Far = QueueLen + 1
  BY QueueAssumption DEF Far
<1>2. r \in Rows
  BY RowType, EmptyQueueType DEF Contents
<1>3. Far \in S
  BY <1>1, <1>2, WordsFromStep
<1>4. ASSUME NEW i \in 0..(Far - 1), i + 1 \in S PROVE i \in S
  <2>1. i \in 0..QueueLen /\ i \in 0..Far
    BY <1>1
  <2>2. r[i] = NoWord
    BY <1>1, <2>1, CellFacts DEF RowOf, EmptyQueue
  <2> QED
    BY <1>2, <1>4, <2>1, <2>2, WordsFromStep
<1>5. 0 \in S
  <2> HIDE DEF S
  <2>1. \A i \in 0..Far : i \in S
    BY <1>1, <1>3, <1>4, Downwards
  <2> QED
    BY <1>1, <2>1
<1> QED
  BY <1>5
-----------------------------------------------------------------------------
\* The row of FrontEndStream.
LEMMA RowIs == Row = RowOf(queue, Latch) /\ Row' = RowOf(queue', Latch')
  BY DEF Row, RowOf

\* The shift of a call changes no word.
LEMMA ShiftedWords == TypeOK => ReadAhead = WordsFrom(RowOf(ShiftedQueue, Latch))[0]
  BY RowTypes, ShiftWords, RowIs DEF ShiftedQueue, ReadAhead

\* The fetch unit's first half shifts the row and stores the word it waited for.
LEMMA LoadsStream ==
  ASSUME TypeOK, ReadInv, fetch_waiting => data_valid
  PROVE  /\ fetch_waiting =>
              /\ WordsFrom(RowOf(LoadedQueue, Latch))[0] = Append(ReadAhead, Requested)
              /\ Len(ReadAhead) < QueueLen + 1
              /\ fetch_mem_addr = NextWord(Requested)
         /\ ~fetch_waiting =>
              /\ WordsFrom(RowOf(LoadedQueue, Latch))[0] = ReadAhead
              /\ fetch_mem_addr = Requested
<1>1. /\ queue \in Queues /\ Latch \in Contents /\ ShiftedQueue \in Queues
  BY RowTypes, ShiftedQueueType
<1>2. ReadAhead = WordsFrom(RowOf(ShiftedQueue, Latch))[0]
  BY ShiftedWords
<1>3. CASE fetch_waiting
  <2>1. data_reg_in = Requested /\ fetch_mem_addr = NextWord(Requested)
    BY <1>3
    DEF ReadInv, ValidWhenReady, WaitingResumes, Requested, PendingAddr
  <2>2. Requested \in Addr
    BY <2>1 DEF TypeOK
  <2>3. ShiftedQueue[0] = NoWord
    BY <1>3 DEF ReadInv, RoomForTheRead
  <2>4. LoadedQueue = [ShiftedQueue EXCEPT ![0] = Requested]
    BY <1>3, <2>1 DEF LoadedQueue
  <2>5. /\ WordsFrom(RowOf(LoadedQueue, Latch))[0]
             = Append(WordsFrom(RowOf(ShiftedQueue, Latch))[0], Requested)
        /\ Len(WordsFrom(RowOf(ShiftedQueue, Latch))[0]) < QueueLen + 1
    BY <1>1, <2>2, <2>3, <2>4, LoadWords
  <2> QED
    BY <1>2, <1>3, <2>1, <2>5
<1>4. CASE ~fetch_waiting
  BY <1>2, <1>4 DEF LoadedQueue, Requested
<1> QED
  BY <1>3, <1>4

\* It fills the stream, or only moves its words.
LEMMA StreamFetchHalf1 ==
  ASSUME TypeOK, ReadInv, RunFetchHalf1
  PROVE  Stream!Fill \/ UNCHANGED <<ReadAhead, Requested>>
<1>1. queue \in Queues /\ Latch \in Contents /\ LoadedQueue \in Queues
  BY RowTypes, LoadedQueueType
<1>2. CASE FetchMemWait
  <2>1. queue' = ShiftedQueue /\ Requested' = Requested /\ Latch' = Latch
    BY <1>2 DEF FetchMemWait, Requested, PendingAddr, BusReady, Latch, mcvars, icvars
  <2>2. ReadAhead' = ReadAhead
    BY <2>1, ShiftedWords, RowIs DEF ReadAhead
  <2> QED
    BY <2>1, <2>2
<1>3. CASE FetchDequeue
  <2>1. Requested' = fetch_mem_addr /\ (fetch_waiting => data_valid)
    BY <1>3 DEF FetchDequeue, Requested
  <2>2. ReadAhead' = WordsFrom(RowOf(LoadedQueue, Latch))[0]
    <3>1. CASE FetchLatchesWord
      <4>1. /\ queue' = [LoadedQueue EXCEPT ![LastSlot] = NoWord]
            /\ Latch' = LoadedQueue[LastSlot]
        BY <1>3, <3>1 DEF FetchDequeue, Latch
      <4>2. LoadedQueue[LastSlot] # NoWord /\ Latch = NoWord
        BY <3>1 DEF FetchLatchesWord, Latch
      <4> QED
        BY <1>1, <4>1, <4>2, LatchWords, RowIs DEF ReadAhead
    <3>2. CASE ~FetchLatchesWord
      <4>1. queue' = LoadedQueue /\ Latch' = Latch
        BY <1>3, <3>2 DEF FetchDequeue, Latch
      <4> QED
        BY <4>1, RowIs DEF ReadAhead
    <3> QED
      BY <3>1, <3>2
  <2> QED
    BY <2>1, <2>2, LoadsStream DEF Stream!Fill
<1>4. CASE FetchSkipHalf1
  <2>1. queue' = queue /\ Requested' = Requested /\ Latch' = Latch
    BY <1>4
    DEF FetchSkipHalf1, Requested, PendingAddr, BusReady, Latch, mcvars, icvars, fetchvars
  <2> QED
    BY <2>1, RowIs DEF ReadAhead
<1> QED
  BY <1>2, <1>3, <1>4 DEF RunFetchHalf1, FetchHalf1

\* The second half redirects it, or leaves it alone.
LEMMA StreamFetchHalf2 ==
  ASSUME TypeOK, ReadInv, RunFetchHalf2
  PROVE  Stream!Redirect \/ UNCHANGED <<ReadAhead, Requested>>
<1>1. CASE FetchFull \/ FetchHold \/ FetchAssert
  <2>1. CASE Flushes
    <3>1. queue' = EmptyQueue /\ Latch' = NoWord /\ Requested' = ResolvedAddr
      BY <1>1, <2>1, ResolvedRow
    <3>2. ReadAhead' = <<>>
      BY <3>1, NoWords, RowIs DEF ReadAhead
    <3>3. Requested' \in Word32
      BY <3>1, TypeResolved
    <3> QED
      BY <3>2, <3>3 DEF Stream!Redirect
  <2>2. CASE ~Flushes
    <3>1. queue' = queue /\ Latch' = Latch /\ Requested' = Requested
      BY <1>1, <2>2, ResolvedRow
    <3> QED
      BY <3>1, RowIs DEF ReadAhead
  <2> QED
    BY <2>1, <2>2
<1>2. CASE FetchSkipHalf2
  <2>1. queue' = queue /\ Requested' = Requested /\ Latch' = Latch
    BY <1>2
    DEF FetchSkipHalf2, Requested, PendingAddr, BusReady, Latch, mcvars, icvars, fetchvars
  <2> QED
    BY <2>1, RowIs DEF ReadAhead
<1> QED
  BY <1>1, <1>2 DEF RunFetchHalf2, FetchHalf2

\* The decode unit takes from it; nobody else does anything to it.
LEMMA StreamOthers ==
  ASSUME FetchBeforeExecute, TypeOK, ReadInv,
         \/ RunDecodeHalf1 \/ RunDecodeHalf2 \/ RunExecuteHalf1 \/ RunExecuteHalf2
         \/ EndHalf1 \/ EndCycle \/ UNCHANGED vars
  PROVE  Stream!Take \/ UNCHANGED <<ReadAhead, Requested>>
<1>1. queue' = queue /\ Requested' = Requested
  BY RequestedKept DEF fetchvars
<1>2. CASE Latch' = Latch
  BY <1>1, <1>2, RowIs DEF ReadAhead
<1>3. CASE Latch' = NoWord /\ Latch # NoWord
  <2>1. queue \in Queues /\ Latch \in Addr
    BY <1>3, RowTypes DEF Contents
  <2> QED
    BY <1>1, <1>3, <2>1, TakeWords, RowIs DEF ReadAhead, Stream!Take
<1> QED
  BY <1>2, <1>3, LatchTakenOrKept

\* The machine starts with an empty stream,
LEMMA StreamInit == Init => Stream!Init
<1> SUFFICES ASSUME Init PROVE Stream!Init
  OBVIOUS
<1>1. queue = EmptyQueue /\ Latch = NoWord
  BY DEF Init, FetchInit, InterconnectInit, Latch
<1>2. ReadAhead = <<>>
  BY <1>1, NoWords, RowIs DEF ReadAhead
<1>3. Requested \in Word32
  BY TypeInit DEF Init, FetchInit, Requested, TypeOK
<1> QED
  BY <1>2, <1>3 DEF Stream!Init

\* and each step is one of the stream, or a stutter.
LEMMA StreamStep ==
  ASSUME FetchBeforeExecute, TypeOK, ReadInv, [Next]_vars
  PROVE  [Stream!Next]_<<ReadAhead, Requested>>
  BY StreamFetchHalf1, StreamFetchHalf2, StreamOthers DEF Next, Stream!Next

\* Queue, latch and memory implement the abstract word stream: the fetch unit delivers
\* to the decode stage (cpu_fetch.c, cpu_decode.c) exactly the words that follow the
\* last branch, each once and in order, and never has more than fit on their way.
THEOREM ImplementsStream ==
  ASSUME FetchBeforeExecute
  PROVE  Spec => ImplementsWordStream
<1>1. TypeOK /\ ReadInv /\ [Next]_vars => [Stream!Next]_<<ReadAhead, Requested>>
  BY StreamStep
<1> QED
  BY ReadInvariant, TypeCorrect, StreamInit, <1>1, PTL DEF Spec, ImplementsWordStream, Stream!Spec
=============================================================================
