------------------------------- MODULE Decode -------------------------------
(***************************************************************************)
(* The sequencing of the decode unit (pilot_decode_half1, _half2 and       *)
(* decode_try_read_word_ of cpu_decode.c): take an instruction word from   *)
(* the fetch latch, decode it, take the operand words it asks for, hand    *)
(* the instruction to the execute unit and wait until that has taken it.   *)
(*                                                                         *)
(* What decode_inst_ makes of an opcode is abstracted to the four things   *)
(* this sequencing depends on: how many more words it queued, whether it   *)
(* raised decode_branch and with which target, and whether it set          *)
(* `illegal'.  Any word may decode to any of Kinds, so every program is    *)
(* covered.                                                                *)
(***************************************************************************)
EXTENDS Fetch, Sequences

CONSTANTS
  IntSpace,  \* values of a uint32_t, 2^32 in the program
  Kinds      \* the outcomes of decode_inst_ under consideration

\* extra: words queued with decode_queue_read_word; imm_words holds five, the
\* opcode among them.  branch: "relative" adds 2^32 - arg to pgc (JR, DJNZ),
\* "vector" is the absolute address arg (RST).
DecodedKind ==
  [extra : 0..4, branch : {"none", "relative", "vector"}, arg : Nat, illegal : BOOLEAN]

ASSUME DecodeAssumption ==
  /\ IntSpace \in Nat /\ AddrSpace <= IntSpace
  /\ IntSpace % 2 = 0
  /\ Kinds \subseteq DecodedKind
  /\ \A k \in Kinds :
       /\ k.arg % 2 = 0
       /\ k.branch # "none" => k.extra = 0 /\ ~k.illegal
       /\ k.branch = "relative" => k.arg < IntSpace
       /\ k.branch = "vector" => k.arg < AddrSpace

VARIABLES
  decoding_phase,
  imm_words,       \* work_regs.imm_words up to inst_length, as addresses
  words_to_read,
  pgc,             \* state->pgc
  illegal,         \* work_regs.illegal
  inst_pgc,        \* work_regs.inst_pgc
  decoded_inst     \* the instruction offered to the execute unit

decodevars == <<decoding_phase, imm_words, words_to_read, pgc, illegal, inst_pgc, decoded_inst>>

DecodePhases == {"DISPATCH_WAIT", "READ_INST_WORD", "READ_OPERANDS"}

DecodeInit ==
  /\ decoding_phase = "DISPATCH_WAIT"
  /\ imm_words = <<>>
  /\ words_to_read = 0
  /\ pgc = 0
  /\ illegal = FALSE
  /\ inst_pgc = 0
  /\ decoded_inst = [words |-> <<>>, inst_pgc |-> 0, illegal |-> FALSE]

\* The lines of the interconnect that the decode unit never writes.
UnwrittenByDecode == <<fetch_word, fetch_addr, decode_stall, execute_branch,
                       execute_branch_addr, execute_memory_backoff, disable_clk>>

-----------------------------------------------------------------------------
\* First half of a cycle.  A stall drops the dispatched instruction and makes
\* the decoder start over; otherwise it starts when the last one was taken.
StartsWhenIdle == decode_stall \/ decoding_phase = "DISPATCH_WAIT"
StartsInstruction ==
  \/ decode_stall
  \/ decoding_phase = "DISPATCH_WAIT" /\ ~decoded_inst_semaph

ReadsInstWord == StartsInstruction \/ decoding_phase = "READ_INST_WORD"

\* decode_branch_addr as computed in decode_inst_branch_: a uint32_t sum that
\* is not masked to an address.
PredictedAddr(k) ==
  IF k.branch = "vector" THEN k.arg ELSE (fetch_addr + IntSpace - k.arg) % IntSpace

DecodeNoWord ==
  /\ ~disable_clk
  /\ ReadsInstWord
  /\ ~fetch_word_semaph
  /\ imm_words' = IF StartsInstruction THEN <<>> ELSE imm_words
  /\ words_to_read' = IF StartsInstruction THEN 0 ELSE words_to_read
  /\ decoded_inst_semaph' = (decoded_inst_semaph /\ ~decode_stall)
  /\ decoding_phase' = "READ_INST_WORD"
  /\ pgc' = fetch_addr
  /\ UNCHANGED <<illegal, inst_pgc, decoded_inst, fetch_word_semaph, decode_branch,
                 decode_branch_addr, UnwrittenByDecode, fetchvars, mcvars>>

DecodeInstWord(k) ==
  /\ ~disable_clk
  /\ ReadsInstWord
  /\ fetch_word_semaph
  /\ fetch_word_semaph' = FALSE
  /\ imm_words' = <<fetch_word>>
  /\ words_to_read' = k.extra
  /\ illegal' = k.illegal
  /\ decode_branch' = (decode_branch \/ k.branch # "none")
  /\ decode_branch_addr' = IF k.branch = "none" THEN decode_branch_addr ELSE PredictedAddr(k)
  /\ decoded_inst_semaph' = (decoded_inst_semaph /\ ~decode_stall)
  /\ decoding_phase' = "READ_OPERANDS"
  /\ pgc' = fetch_addr
  /\ UNCHANGED <<inst_pgc, decoded_inst, UnwrittenByDecode, fetchvars, mcvars>>

DecodeSkipHalf1 ==
  /\ disable_clk \/ ~ReadsInstWord
  /\ UNCHANGED <<decodevars, fetchvars, mcvars, icvars>>

DecodeHalf1 == DecodeNoWord \/ (\E k \in Kinds : DecodeInstWord(k)) \/ DecodeSkipHalf1

-----------------------------------------------------------------------------
\* Second half of a cycle: one operand word per call, and the dispatch in the
\* call that finds nothing left to read.
ReadsOperand == words_to_read > 0 /\ fetch_word_semaph
WordsLeftUnguarded == IF fetch_word_semaph THEN (words_to_read + 255) % 256 ELSE words_to_read
WordsLeft == IF ReadsOperand THEN words_to_read - 1 ELSE words_to_read
WordsRead == IF ReadsOperand THEN Append(imm_words, fetch_word) ELSE imm_words

DecodeReadOperands ==
  /\ ~disable_clk
  /\ decoding_phase = "READ_OPERANDS"
  /\ WordsLeft > 0
  /\ words_to_read' = WordsLeft
  /\ imm_words' = WordsRead
  /\ fetch_word_semaph' = (fetch_word_semaph /\ ~ReadsOperand)
  /\ UNCHANGED <<decoding_phase, pgc, illegal, inst_pgc, decoded_inst, decoded_inst_semaph,
                 decode_branch, decode_branch_addr, UnwrittenByDecode, fetchvars, mcvars>>

\* An illegal instruction keeps the inst_pgc of the one before it.
DispatchedPgcLate == IF illegal THEN inst_pgc ELSE fetch_addr
DispatchedPgc == IF illegal THEN inst_pgc ELSE pgc

DecodeDispatch ==
  /\ ~disable_clk
  /\ decoding_phase = "READ_OPERANDS"
  /\ WordsLeft = 0
  /\ words_to_read' = 0
  /\ imm_words' = WordsRead
  /\ fetch_word_semaph' = (fetch_word_semaph /\ ~ReadsOperand)
  /\ inst_pgc' = DispatchedPgc
  /\ decoded_inst' = [words |-> WordsRead, inst_pgc |-> DispatchedPgc, illegal |-> illegal]
  /\ decoded_inst_semaph' = TRUE
  /\ decoding_phase' = "DISPATCH_WAIT"
  /\ UNCHANGED <<pgc, illegal, decode_branch, decode_branch_addr, UnwrittenByDecode,
                 fetchvars, mcvars>>

DecodeSkipHalf2 ==
  /\ disable_clk \/ decoding_phase # "READ_OPERANDS"
  /\ UNCHANGED <<decodevars, fetchvars, mcvars, icvars>>

DecodeHalf2 == DecodeReadOperands \/ DecodeDispatch \/ DecodeSkipHalf2
=============================================================================
