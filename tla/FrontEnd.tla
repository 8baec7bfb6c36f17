------------------------------- MODULE FrontEnd -------------------------------
(***************************************************************************)
(* The fetch and decode units, the memory controller and the port of the   *)
(* execute unit, clocked by the emulator's main loop.                      *)
(*                                                                         *)
(* The units share everything, so the order in which they are called       *)
(* inside a half decides what each of them sees.  Pilot_memctl_tick ends a *)
(* cycle.                                                                  *)
(***************************************************************************)
EXTENDS ExecutePort, Clock

CONSTANT StartAddrs  \* where the machine may be started

ASSUME FrontEndAssumption == StartAddrs \subseteq {a \in Addr : a % 2 = 0}

vars == <<mcvars, icvars, fetchvars, decodevars, executing, clockvars>>

Init ==
  /\ MemCtlInit
  /\ InterconnectInit
  /\ FetchInit
  /\ DecodeInit
  /\ ExecutePortInit
  /\ fetch_mem_addr \in StartAddrs
  /\ fetch_addr = fetch_mem_addr
  /\ ClockInit

-----------------------------------------------------------------------------
RunFetchHalf1 == Call(1, "fetch") /\ FetchHalf1 /\ UNCHANGED <<decodevars, executing>>
RunFetchHalf2 == Call(2, "fetch") /\ FetchHalf2 /\ UNCHANGED <<decodevars, executing>>
RunDecodeHalf1 == Call(1, "decode") /\ DecodeHalf1 /\ UNCHANGED executing
RunDecodeHalf2 == Call(2, "decode") /\ DecodeHalf2 /\ UNCHANGED executing
RunExecuteHalf1 == Call(1, "execute") /\ ExecuteHalf1
RunExecuteHalf2 == Call(2, "execute") /\ ExecuteHalf2

EndHalf1 ==
  /\ HalfEnds(1)
  /\ UNCHANGED <<mcvars, icvars, fetchvars, decodevars, executing>>

EndCycle ==
  /\ HalfEnds(2)
  /\ MemCtlTick
  /\ UNCHANGED <<icvars, fetchvars, decodevars, executing>>

Next ==
  \/ RunFetchHalf1 \/ RunDecodeHalf1 \/ RunExecuteHalf1 \/ EndHalf1
  \/ RunFetchHalf2 \/ RunDecodeHalf2 \/ RunExecuteHalf2 \/ EndCycle

Spec == Init /\ [][Next]_vars

\* The loop keeps calling the units, and every instruction ends.
FairSpec == Spec /\ WF_vars(Next) /\ SF_vars(RunExecuteHalf2 /\ executing /\ ~executing')

-----------------------------------------------------------------------------
Word32 == 0..(IntSpace - 1)

\* Every line and register holds a value of its C type, and where the code
\* masks or answers only real addresses, an address of the 24-bit space.
TypeOK ==
  /\ mc_state \in MemCtlStates
  /\ data_valid \in BOOLEAN
  /\ is_16bit \in BOOLEAN
  /\ addr_reg \in Word32
  /\ data_reg_in \in Addr
  /\ fetch_word_semaph \in BOOLEAN
  /\ fetch_word \in Addr
  /\ fetch_addr \in Addr
  /\ decode_branch \in BOOLEAN
  /\ decode_branch_addr \in Word32
  /\ decode_stall \in BOOLEAN
  /\ decoded_inst_semaph \in BOOLEAN
  /\ execute_branch \in BOOLEAN
  /\ execute_branch_addr \in Addr
  /\ execute_memory_backoff \in BOOLEAN
  /\ disable_clk \in BOOLEAN
  /\ queue \in [Slots -> Addr \cup {NoWord}]
  /\ fetch_mem_addr \in Word32
  /\ branch_predicted \in BOOLEAN
  /\ fetch_waiting \in BOOLEAN
  /\ fetch_phase \in FetchPhases
  /\ decoding_phase \in DecodePhases
  /\ imm_words \in Seq(Addr)
  /\ words_to_read \in 0..4
  /\ pgc \in Addr
  /\ illegal \in BOOLEAN
  /\ inst_pgc \in Addr
  /\ decoded_inst \in [words : Seq(Addr), inst_pgc : Addr, illegal : BOOLEAN]
  /\ executing \in BOOLEAN
  /\ half \in {1, 2}
  /\ ran \subseteq Units

\* The read the fetch unit waits for is the one the bus is doing or has just
\* done: no access of the execute unit takes its place, and the one-tick
\* data_valid flag is not missed.  (A stopped clock is the exception: the flag
\* expires while the fetch unit is not called.)
FetchOwnsItsRead ==
  fetch_waiting =>
    \/ mc_state = "MCTL_MEM_R_BUSY"
    \/ BusReady /\ data_valid /\ half = 1 /\ "fetch" \notin ran
    \/ BusReady /\ disable_clk

\* When a read is under way, slot 0 will be free for the word it returns.
RoomForTheRead == fetch_waiting => ShiftedQueue[0] = NoWord

\* While it waits, the fetch unit resumes where the answer is collected and will
\* then ask for the word after the one under way.
WaitingResumes ==
  fetch_waiting => /\ fetch_phase \in {"HALF1_READY", "HALF1_MEM_WAIT"}
                   /\ fetch_mem_addr = NextWord(PendingAddr)

\* Only a controller that is free again has data to hand out.
ValidWhenReady == data_valid => BusReady

\* The inductive form of the three: none of them is preserved without the others.
ReadInv == FetchOwnsItsRead /\ RoomForTheRead /\ WaitingResumes /\ ValidWhenReady

\* The word under way to the fetch unit is at an even address: no read takes its bytes
\* from two words, or reaches past the end of hram (memory_bus.c:59).
ReadsAligned == fetch_waiting => PendingAddr % 2 = 0

\* The words between memory and the decode stage are consecutive, oldest first:
\* none is lost, repeated, reordered, or left over from before a branch.
StreamInOrder == InOrder(queue, Requested, Latch)

\* A word in the latch stays there until the decode unit has it among the words
\* of its instruction, or a branch empties latch and queue together.
NoWordDropped ==
  [][fetch_word_semaph =>
       \/ fetch_word_semaph' /\ fetch_word' = fetch_word
       \/ imm_words' # <<>> /\ imm_words'[Len(imm_words')] = fetch_word
       \/ (decode_branch \/ execute_branch) /\ queue' = EmptyQueue]_vars

\* A decoder that works on an instruction has none waiting to be taken.
WorksWithoutOffer == decoding_phase # "DISPATCH_WAIT" => ~decoded_inst_semaph

\* A dispatched instruction is not replaced before it is taken or dropped.
NoPendingInstructionOverwritten ==
  [][decoded_inst' # decoded_inst => ~decoded_inst_semaph]_vars

\* fetch_addr is the address that follows the word in the latch or, with the
\* latch empty, the address of the oldest word still on its way.
FetchAddrInStep == InStep(queue, Requested, Latch, fetch_addr)

\* The PGC dispatched with a legal instruction is the address of the word after
\* its opcode, which is what relative branches and RM operands are based on.
PgcFollowsOpcode ==
  decoded_inst.words # <<>> /\ ~decoded_inst.illegal =>
    decoded_inst.inst_pgc = NextWord(decoded_inst.words[1])

\* The address the decoder holds while it reads operands is the one to dispatch.
PgcHeld ==
  decoding_phase = "READ_OPERANDS" =>
    imm_words # <<>> /\ pgc = NextWord(imm_words[1])

\* "Branch address latch (24 bits)" (cpu_decode.c:41)
BranchLatchIs24Bit == decode_branch => decode_branch_addr \in Addr

\* While a branch is signalled from the decode stage, the fetch stage does not
\* raise "word ready" (cpu_decode.c:13-19).
NoDeliveryUnderBranch ==
  [][decode_branch /\ fetch_word_semaph' => fetch_word_semaph]_vars

\* A decoder waiting for an opcode gets one, unless a branch intervenes or the
\* clock is stopped.
DecoderIsFed ==
  decoding_phase = "READ_INST_WORD" ~> fetch_word_semaph \/ execute_branch \/ disable_clk
=============================================================================
