------------------------------- MODULE MCOpcodes -------------------------------
(***************************************************************************)
(* The decode tables over all 65536 instruction words: Operands, Opcodes   *)
(* and Mucode contain no state of their own, so the specification steps    *)
(* through the words and keeps what decode_inst_ left in work_regs.        *)
(* A page is the words that share their high byte; all pages are scanned   *)
(* side by side so that a counterexample is short.                         *)
(***************************************************************************)
EXTENDS Mucode, FiniteSets

CONSTANTS
  FirstPage, LastPage,  \* high bytes under consideration
  MaxEntries            \* bound on the entries of a microroutine, one pass of a loop each

ASSUME ScanAssumption ==
  /\ FirstPage \in 0..255 /\ LastPage \in FirstPage..255
  /\ MaxEntries \in Nat

VARIABLES word, work_regs

vars == <<word, work_regs>>

Init ==
  /\ word \in {256 * page : page \in FirstPage..LastPage}
  /\ work_regs = Decoded(word)

\* The next word of the page.
DecodeInst ==
  /\ word' = 256 * (word \div 256) + ((word + 1) % 256)
  /\ work_regs' = Decoded(word')

Spec == Init /\ [][DecodeInst]_vars

-----------------------------------------------------------------------------
\* The entries that may follow an entry: a branching one has two successors, and
\* MU_NONE has none.
Successors(s) ==
  LET e == EntryOf[s]
      next == IF e.branch THEN {e.next, e.next_no_branch} ELSE {e.next}
  IN {t \in next : t.idx # "MU_NONE"}

\* The entries of a microroutine, and those in which it may be after MaxEntries
\* cycles when a multiplication leaves its loop the first time.
WithFollowing(specs) == specs \cup UNION {Successors(s) : s \in specs}
Following(specs) ==
  UNION {Successors(s) : s \in {t \in specs : t.idx # "MU_MUL_LOOP"}}

Entries(s) ==
  LET within[n \in 0..MaxEntries] == IF n = 0 THEN {s} ELSE WithFollowing(within[n - 1])
  IN IF s.idx = "MU_NONE" THEN {} ELSE within[MaxEntries]

Unfinished(s) ==
  LET at[n \in 0..MaxEntries] == IF n = 0 THEN {s} ELSE Following(at[n - 1])
  IN IF s.idx = "MU_NONE" THEN {} ELSE at[MaxEntries]

Slots == {work_regs.before, work_regs.after, [NoEntry EXCEPT !.idx = work_regs.repeat]}
ControlWords ==
  {work_regs.core} \cup {EntryOf[s].operation : s \in UNION {Entries(t) : t \in Slots}}

\* An address goes on the bus.
Accesses(c) == c.latch # "MEM_NO_LATCH" /\ ~c.suppress

-----------------------------------------------------------------------------
\* The K-map of rm_requires_mem_fetch_ names exactly the addressing modes whose
\* branch of decode_rm_specifier fills in a microcode entry: elsewhere the branch
\* would write through run_mucode, which nothing has set, or the operand would be
\* given a memory location and no routine that fetches it.
MemoryModesFetched == RequiresMemFetch(word % 64) <=> Mode[word % 64] \in MemoryModes

\* decode_inst_ stays within what the decoder's sequencing takes for granted
\* (DecodeAssumption of Decode.tla): the queued words fit into imm_words[5] behind
\* the opcode, and a predicted branch is a legal instruction of one word whose
\* target is even.
FitsDecode ==
  /\ work_regs.words \in 0..4
  /\ PredictedArg(word, work_regs.name) % 2 = 0
  /\ work_regs.predict # "none" => work_regs.words = 0 /\ ~work_regs.illegal
  /\ work_regs.predict = "relative" => PredictedArg(word, work_regs.name) \in 2..512
  /\ work_regs.predict = "vector" => PredictedArg(word, work_regs.name) \in 0..(2^24 - 1)

\* The words of imm_words[] that a location is taken from (fetch_data_ of
\* cpu_execute.c), those that hold the first operand and those of the second one.
\* Bit fields of the opcode do not count.
FirstOperandWords(location) ==
  CASE location \in {"IMM_1", "IMM_HML", "REG_IMM_1"} -> {1}
    [] location \in {"IMM_1_24", "IMM_HML_RM"}        -> {1, 2}
    [] location = "REG_IMM_2"                         -> {2}
    [] OTHER                                          -> {}

SecondOperandWords(location) ==
  LET rm2_offset == work_regs.rm2_offset IN
  CASE location \in {"RM_1", "REG_RM_1"}    -> {rm2_offset}
    [] location \in {"RM_1_24", "RM_HML"}   -> {rm2_offset, rm2_offset + 1}
    [] location = "REG_RM_2"                -> {rm2_offset + 1}
    [] OTHER                                -> {}

Read(WordsOf(_)) == UNION {WordsOf(c.src1) \cup WordsOf(c.src2) : c \in ControlWords}

\* The words queued for each operand.  An immediate that comes before the RM operand
\* counts as the first one.
FirstQueued ==
  1..(IF work_regs.rm_ops = 2 THEN work_regs.rm2_offset ELSE work_regs.words)
SecondQueued == (1..work_regs.words) \ FirstQueued

\* A 24-bit address takes two words and one of 16 bits (sign-extended: bit 3 of
\* reg_select) takes one, but these routines read it with the size they are given,
\* that of the operand.
AddressMisread(s) ==
  /\ s.idx \in {"MU_IND_IMM", "MU_IND_PGC_WITH_IMM_RM"}
  /\ (s.size = 24) # (s.sel % 16 < 8)

\* The operand latches read the words queued for their operand, all of them and no
\* others (those would be the opcode, words of the other operand or of an earlier
\* instruction), in every instruction but three kinds, and in none of those: with a
\* register-relative operand (see DisplacementQueued), with an address whose
\* length is not that of the operand, or with words of a second operand
\* (see SecondOperandOffset).
LatchesQueued ==
  (Read(FirstOperandWords) = FirstQueued /\ Read(SecondOperandWords) = SecondQueued)
  <=>
  /\ \A s \in Slots : s.idx # "MU_IND_REG_WITH_IMM" /\ ~AddressMisread(s)
  /\ SecondQueued = {}

\* Operand routines access memory once for 8 and 16 bits, twice for 24 bits and
\* never when the access is suppressed, always in the direction the decoder asked
\* for if they set one, and update the register of an auto-indexed mode once.
OperandModes ==
  {"MU_IND_IMM", "MU_IND_IMM_RM", "MU_IND_REG", "MU_IND_REG_POST_AUTO", "MU_IND_REG_AUTO",
   "MU_IND_REG_WITH_IMM", "MU_IND_IMM_WITH_BITS", "MU_IND_REG_WITH_BITS",
   "MU_IND_PGC_WITH_IMM_RM"}

WholeOperand ==
  \A s \in {t \in Slots : t.idx \in OperandModes} :
    LET accesses == {t \in Entries(s) : Accesses(EntryOf[t].operation)}
        updates == {t \in Entries(s) : EntryOf[t].operation.dest = "REG"}
    IN /\ Cardinality(accesses) = IF s.suppress THEN 0 ELSE IF s.size = 24 THEN 2 ELSE 1
       /\ \A t \in accesses : LET write == EntryOf[t].operation.write IN
            write = "UNINITIALIZED" \/ (write # "MEM_READ" <=> s.write)
       /\ Cardinality(updates) =
            IF s.idx \in {"MU_IND_REG_AUTO", "MU_IND_REG_POST_AUTO"} THEN 1 ELSE 0

\* Every routine reaches MU_NONE: the sequencer, which waits for that, gets to the
\* next instruction (a multiplication provided its counter runs out).
RoutinesEnd == \A s \in Slots : Unfinished(s) = {}

\* Writing PGC makes the sequencer drop the instruction that is waiting in
\* decoded_inst (`branched'): exactly the branches, the calls and REPR, which steps
\* PGC back, have a control word that does so or are a restart.
Redirects == work_regs.restart \/ \E c \in ControlWords : c.dest = "PGC"

RedirectsWhenBranching ==
  Redirects <=> word >= 57344 /\ ~work_regs.illegal /\ work_regs.name # "REPI"

-----------------------------------------------------------------------------
\* What comments say of the decode tables and the code does not do.

\* "Reads additional immediate value if needed" (cpu_decode_rm.c:11): a
\* register-relative operand has its displacement among the queued words.
DisplacementQueued ==
  \A s \in {t \in Slots : t.idx = "MU_IND_REG_WITH_IMM"} :
    IF s.sel < 16 THEN FirstQueued # {} ELSE SecondQueued # {}

\* "Offset of the second RM operand" (types.h:376): the words read at rm2_offset
\* are those queued for the second operand, behind the opcode and those of the first.
SecondOperandOffset == SecondQueued # {} => Read(SecondOperandWords) = SecondQueued

\* "fetch and set up writeback" (cpu_decode_rm.c:55), "source only, fetch" (72): the
\* routine that runs before the core operation fetches, so that every access of it
\* is a read.
FetchesRead ==
  \A t \in Entries(work_regs.before) :
    Accesses(EntryOf[t].operation) => EntryOf[t].operation.write = "MEM_READ"

\* "Stall" is the "signal ... that a branch misprediction has happened"
\* (cpu_decode.c:39): a branch that was predicted as taken and turns out not to be
\* redirects the fetch unit, as only a write of PGC does.
MispredictionSignalled ==
  work_regs.predict = "relative" =>
    \A s \in Entries(work_regs.after) :
      EntryOf[s].branch /\ EntryOf[s].next_no_branch.idx = "MU_NONE" =>
        EntryOf[s].branch_cond \in {CondAlways, CondCall}
=============================================================================
