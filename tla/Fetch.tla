-------------------------------- MODULE Fetch --------------------------------
(***************************************************************************)
(* The fetch unit of cpu_fetch.c: a queue of prefetched words that move    *)
(* towards the decode stage one slot per cycle, and a latch that hands     *)
(* them over.  Words enter slot 0 and leave from the last slot.            *)
(*                                                                         *)
(* Each of the two functions runs its phases by falling through from one   *)
(* `if' to the next and returns early when memory makes it wait, so an     *)
(* action is one call and fetch_phase records where the next call resumes. *)
(* Phases that no call returns in (DEQUEUE, BRANCH) do not appear.         *)
(***************************************************************************)
EXTENDS MemCtl, Interconnect

CONSTANTS
  QueueLen,   \* number of slots of queue_words, 5 in the program
  NoWord      \* content of a slot whose queue_words_full is FALSE

ASSUME QueueAssumption == QueueLen \in Nat \ {0} /\ NoWord \notin Int

VARIABLES
  queue,             \* queue_words and queue_words_full
  fetch_mem_addr,    \* mem_addr: address of the next read to assert
  branch_predicted,
  fetch_waiting,     \* mem_access_waiting
  fetch_phase

fetchvars == <<queue, fetch_mem_addr, branch_predicted, fetch_waiting, fetch_phase>>

Slots == 0..(QueueLen - 1)
LastSlot == QueueLen - 1
EmptyQueue == [i \in Slots |-> NoWord]

FetchPhases == {"HALF1_READY", "HALF1_MEM_WAIT", "HALF2_READY", "HALF2_MEM_ASSERT"}

\* x & 0xfffffe, and the address of the word after x
WordAlign(x) == 2 * ((x % AddrSpace) \div 2)
NextByte(x) == (x + 1) % AddrSpace
NextWord(x) == WordAlign(x + 2)

FetchInit ==
  /\ queue = EmptyQueue
  /\ branch_predicted = FALSE
  /\ fetch_waiting = FALSE
  /\ fetch_phase = "HALF1_READY"

-----------------------------------------------------------------------------
\* First half of a cycle.

\* The shift loop: going down from the last slot, an empty slot takes the word
\* below it.  A word moves iff some slot from its own upwards is empty.
ShiftSkipsLast(q) ==
  [i \in Slots |-> IF \E j \in Slots : j >= i /\ j < LastSlot /\ q[j] = NoWord
                   THEN IF i = 0 THEN NoWord ELSE q[i - 1]
                   ELSE q[i]]
Shift(q) ==
  [i \in Slots |-> IF \E j \in Slots : j >= i /\ q[j] = NoWord
                   THEN IF i = 0 THEN NoWord ELSE q[i - 1]
                   ELSE q[i]]

\* The queue once this call has shifted it, and with the awaited word added.
ShiftedQueue == IF fetch_phase = "HALF1_READY" THEN Shift(queue) ELSE queue
LoadedQueue ==
  IF fetch_waiting THEN [ShiftedQueue EXCEPT ![0] = data_reg_in] ELSE ShiftedQueue

FetchInHalf1 == ~disable_clk /\ fetch_phase \in {"HALF1_READY", "HALF1_MEM_WAIT"}

\* Pilot_mem_data_wait says no: try again in the next cycle.
FetchMemWait ==
  /\ FetchInHalf1
  /\ fetch_waiting /\ ~data_valid
  /\ queue' = ShiftedQueue
  /\ fetch_phase' = "HALF1_MEM_WAIT"
  /\ UNCHANGED <<fetch_mem_addr, branch_predicted, fetch_waiting, mcvars, icvars>>

\* The awaited word has been stored; hand the oldest word over if the latch
\* is free.
FetchLatchesOverWord == LoadedQueue[LastSlot] # NoWord
FetchLatchesWord == ~fetch_word_semaph /\ LoadedQueue[LastSlot] # NoWord

FetchDequeue ==
  /\ FetchInHalf1
  /\ fetch_waiting => data_valid
  /\ fetch_waiting' = FALSE
  /\ decode_stall' = FALSE
  /\ IF FetchLatchesWord
     THEN /\ fetch_word' = LoadedQueue[LastSlot]
          /\ queue' = [LoadedQueue EXCEPT ![LastSlot] = NoWord]
          /\ fetch_addr' = NextWord(fetch_addr)
          /\ fetch_word_semaph' = TRUE
     ELSE /\ queue' = LoadedQueue
          /\ UNCHANGED <<fetch_word, fetch_addr, fetch_word_semaph>>
  /\ fetch_phase' = "HALF2_READY"
  /\ UNCHANGED <<fetch_mem_addr, branch_predicted, branchlines, decoded_inst_semaph,
                 execute_memory_backoff, disable_clk, mcvars>>

FetchSkipHalf1 ==
  /\ ~FetchInHalf1
  /\ UNCHANGED <<fetchvars, mcvars, icvars>>

FetchHalf1 == FetchMemWait \/ FetchDequeue \/ FetchSkipHalf1

-----------------------------------------------------------------------------
\* Second half of a cycle.
FetchInHalf2 == ~disable_clk /\ fetch_phase \in {"HALF2_READY", "HALF2_MEM_ASSERT"}

\* The branch lines are looked at once per cycle, in HALF2_READY; a call that
\* resumes in HALF2_MEM_ASSERT does not see a branch raised since.
Resolving == fetch_phase = "HALF2_READY"
DecodeBranches == Resolving /\ decode_branch
ExecuteBranches == Resolving /\ execute_branch
PredictedBefore == branch_predicted \/ DecodeBranches
Mispredicted ==
  /\ ExecuteBranches /\ PredictedBefore
  /\ decode_branch_addr # execute_branch_addr
ExecuteRedirects == ExecuteBranches /\ (PredictedBefore => Mispredicted)
FlushesOnPredictionOnly == DecodeBranches
Flushes == DecodeBranches \/ ExecuteRedirects

ResolvedQueue == IF Flushes THEN EmptyQueue ELSE queue
ResolvedAddr ==
  IF ExecuteRedirects THEN execute_branch_addr
  ELSE IF DecodeBranches THEN decode_branch_addr ELSE fetch_mem_addr

\* The address reported with the next word: a prediction leaves it alone.
ReportedAddrKept == fetch_addr
ReportedAddr == IF ExecuteBranches THEN execute_branch_addr ELSE fetch_addr

\* Everything the branch phase changes except the queue and the read address,
\* which the memory phase that follows it assigns.
ResolveBranch ==
  /\ decode_branch' = (decode_branch /\ ~Resolving)
  /\ execute_branch' = (execute_branch /\ ~Resolving)
  /\ branch_predicted' = (PredictedBefore /\ ~ExecuteBranches)
  /\ decode_stall' = (decode_stall \/ Mispredicted)
  /\ fetch_word_semaph' = (fetch_word_semaph /\ ~Flushes)
  /\ fetch_addr' = ReportedAddr
  /\ UNCHANGED <<decode_branch_addr, execute_branch_addr, fetch_word,
                 decoded_inst_semaph, execute_memory_backoff, disable_clk>>

QueueIsFullNever(q) == FALSE
QueueIsFull(q) == \A i \in Slots : q[i] # NoWord

\* No room: no read in this cycle.
FetchFull ==
  /\ FetchInHalf2
  /\ ResolveBranch
  /\ QueueIsFull(ResolvedQueue)
  /\ queue' = ResolvedQueue
  /\ fetch_mem_addr' = ResolvedAddr
  /\ fetch_phase' = "HALF1_READY"
  /\ UNCHANGED <<fetch_waiting, mcvars>>

\* The execute unit is about to use the bus, or the controller is busy.
FetchHold ==
  /\ FetchInHalf2
  /\ ResolveBranch
  /\ ~QueueIsFull(ResolvedQueue)
  /\ execute_memory_backoff \/ ~BusReady
  /\ queue' = ResolvedQueue
  /\ fetch_mem_addr' = ResolvedAddr
  /\ fetch_phase' = "HALF2_MEM_ASSERT"
  /\ UNCHANGED <<fetch_waiting, mcvars>>

FetchAssert ==
  /\ FetchInHalf2
  /\ ResolveBranch
  /\ ~QueueIsFull(ResolvedQueue)
  /\ ~execute_memory_backoff
  /\ AddrReadAssert(TRUE, ResolvedAddr)
  /\ queue' = ResolvedQueue
  /\ fetch_waiting' = TRUE
  /\ fetch_mem_addr' = NextWord(ResolvedAddr)
  /\ fetch_phase' = "HALF1_READY"

FetchSkipHalf2 ==
  /\ ~FetchInHalf2
  /\ UNCHANGED <<fetchvars, mcvars, icvars>>

FetchHalf2 == FetchFull \/ FetchHold \/ FetchAssert \/ FetchSkipHalf2

-----------------------------------------------------------------------------
(***************************************************************************)
(* The words on their way to the decode stage, seen as one row of cells:   *)
(* cell -1 is the read that will be stored next, cells 0..LastSlot are the *)
(* queue, cell QueueLen is the word latch.                                 *)
(***************************************************************************)
\* Address of the read in flight, or the one to be asserted next.
PendingAddr == IF BusReady THEN data_reg_in ELSE addr_reg
Requested == IF fetch_waiting THEN PendingAddr ELSE fetch_mem_addr
Latch == IF fetch_word_semaph THEN fetch_word ELSE NoWord

Cells == -1..QueueLen
Cell(i, q, req, latch) ==
  IF i = -1 THEN req ELSE IF i = QueueLen THEN latch ELSE q[i]

\* Neighbouring words, with nothing but empty cells between them, are
\* consecutive words of memory, the older one further along the row.
InOrder(q, req, latch) ==
  \A i, j \in Cells :
    (/\ i < j
     /\ Cell(i, q, req, latch) # NoWord
     /\ Cell(j, q, req, latch) # NoWord
     /\ \A k \in Cells : i < k /\ k < j => Cell(k, q, req, latch) = NoWord)
    => Cell(i, q, req, latch) = NextWord(Cell(j, q, req, latch))

\* a is the address of the oldest word, or the one after it once it is latched.
InStep(q, req, latch, a) ==
  \A i \in Cells :
    (/\ Cell(i, q, req, latch) # NoWord
     /\ \A j \in Cells : j > i => Cell(j, q, req, latch) = NoWord)
    => a = IF i = QueueLen THEN NextWord(latch) ELSE Cell(i, q, req, latch)
=============================================================================
