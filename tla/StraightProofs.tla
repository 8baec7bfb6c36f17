----------------------------- MODULE StraightProofs -----------------------------
(***************************************************************************)
(* The execute unit on programs without branches: every call keeps to the  *)
(* instruction in hand, or goes on to the one that follows it in memory;   *)
(* and REPI has it executed as often as its operand says.                  *)
(***************************************************************************)
EXTENDS PilotProgram, SequencerProofs

-----------------------------------------------------------------------------
(***************************************************************************)
(* Straight programs.  Where the instructions of p are, and what the       *)
(* decode unit makes of the one at a.                                      *)
(***************************************************************************)
CodeOf(p) == CHOOSE code \in SUBSET WordAddrs : StraightCode(p, code)
Of(p, a) == Instruction(p[a].op, a, p[a].decoded, NextWord(a), p[a].targets, FALSE)

\* A repeat instruction; the execution of the instruction after it, and how often that
\* is left to do.
Repeating(p, i) == i.at # NowhereYet /\ RepeatsIn(p, i.at)
Counting(p, x) == x.repeat_type = "MU_REPI" /\ ~Repeating(p, x.inst)
Left(p, x) == IF Counting(p, x) THEN x.repi ELSE 0

\* An instruction of the program, or the one that is in the unit initially.
InHand(p, i) ==
  /\ i.at \in CodeOf(p) \cup {NowhereYet}
  /\ ~i.illegal /\ ~i.restart
  /\ {i.before.idx, i.after.idx} \subseteq OperandEntries
  /\ i.disable_clk = (i.at # NowhereYet /\ p[i.at].decoded.disable_clk)
  /\ Repeating(p, i) =>
       /\ i.core.dest = "REPI" /\ i.core.src1 = "ZERO" /\ i.core.latch = "MEM_NO_LATCH"
       /\ i.before.idx = "MU_NONE" /\ i.after.idx = "MU_NONE" /\ ~i.disable_clk
       /\ i.op = p[i.at].op /\ i.repeat \in {"MU_REPI", "MU_NONE"}
  /\ ~Repeating(p, i) => i.core.dest \notin {"PGC", "REPI"} /\ i.repeat = "MU_NONE"

-----------------------------------------------------------------------------
\* Of the sets of words that could be its code, one is chosen.
LEMMA CodeIsStraight ==
  ASSUME NEW p, RunsStraight(p) PROVE CodeOf(p) \subseteq WordAddrs /\ StraightCode(p, CodeOf(p))
  BY DEF RunsStraight, CodeOf

\* The record of a repeat instruction.
LEMMA RepiFacts ==
  /\ RepeatImmediate.core.alu = TRUE /\ RepeatImmediate.core.dest = "REPI" /\ RepeatImmediate.core.src1 = "ZERO"
  /\ RepeatImmediate.core.latch = "MEM_NO_LATCH" /\ RepeatImmediate.before.idx = "MU_NONE" /\ RepeatImmediate.after.idx = "MU_NONE"
  /\ RepeatImmediate.repeat = "MU_REPI" /\ RepeatImmediate.disable_clk = FALSE
<1> DEFINE b == Blank
           n == [b EXCEPT !.name = "REPI"]
           k == [n EXCEPT !.core.alu = TRUE, !.core.src1 = "ZERO", !.core.src2 = "IMM_0", !.core.dest = "REPI"]
           r == [k EXCEPT !.core.aux = "LATCH_AUX_ZERO", !.repeat = "MU_REPI"]
<1>1. b.core = IdleControl /\ b.before.idx = "MU_NONE" /\ b.after.idx = "MU_NONE" /\ b.disable_clk = FALSE
  BY DEF Blank, NoEntry
<1>2. RepeatImmediate = r
  BY DEF RepeatImmediate, Computes, Named
<1>3. WellFormed(b)
  BY BlankType
<1>4. DOMAIN b = DOMAIN Blank /\ {"name", "core", "before", "after", "repeat", "disable_clk"} \subseteq DOMAIN b
  BY DEF Blank
<1> HIDE DEF b
<1>5. n.core = IdleControl /\ n.before = b.before /\ n.after = b.after /\ n.disable_clk = b.disable_clk
      /\ DOMAIN n = DOMAIN b
  BY <1>1, <1>4
<1> HIDE DEF n
<1> DEFINE c == [n.core EXCEPT !.alu = TRUE, !.src1 = "ZERO", !.src2 = "IMM_0", !.dest = "REPI"]
<1>6. c.alu = TRUE /\ c.src1 = "ZERO" /\ c.dest = "REPI" /\ c.latch = "MEM_NO_LATCH" /\ c \in ControlWords
  <2>1. n.core \in ControlWords /\ n.core.latch = "MEM_NO_LATCH"
    BY <1>5, IdleControlType DEF IdleControl
  <2>2. {"ZERO", "IMM_0", "REPI"} \subseteq Locations
    BY DEF Locations
  <2> HIDE DEF c
  <2>3. c \in ControlWords
    BY <2>1, <2>2, ControlUpdates DEF c
  <2>4. c.src1 = "ZERO" /\ c.dest = "REPI" /\ c.latch = n.core.latch
    BY <2>1 DEF ControlWords, c
  <2>5. c.alu = TRUE
    BY <2>1, Zenon DEF ControlWords, c
  <2> QED
    BY <2>1, <2>3, <2>4, <2>5
<1>7. k.core = c /\ k.before = b.before /\ k.after = b.after /\ k.disable_clk = b.disable_clk
      /\ DOMAIN k = DOMAIN b
  BY <1>4, <1>5
<1> HIDE DEF k, c
<1> DEFINE e == [k.core EXCEPT !.aux = "LATCH_AUX_ZERO"]
<1>8. e.alu = c.alu /\ e.src1 = c.src1 /\ e.dest = c.dest /\ e.latch = c.latch
  <2>1. \A w \in ControlWords : \A y : /\ [w EXCEPT !.aux = y].alu = w.alu /\ [w EXCEPT !.aux = y].src1 = w.src1
                                     /\ [w EXCEPT !.aux = y].dest = w.dest /\ [w EXCEPT !.aux = y].latch = w.latch
    BY DEF ControlWords
  <2> QED
    BY <1>6, <1>7, <2>1
<1>9. r.core = e /\ r.before = b.before /\ r.after = b.after /\ r.disable_clk = b.disable_clk /\ r.repeat = "MU_REPI"
  BY <1>4, <1>7
<1> QED
  BY <1>1, <1>2, <1>6, <1>8, <1>9

\* What the sequencer is handed with an instruction of a straight program.
LEMMA OfFacts ==
  ASSUME NEW p \in Programs, RunsStraight(p), NEW a \in CodeOf(p)
  PROVE  /\ a \in WordAddrs /\ a \in Addr /\ a # NowhereYet
         /\ Of(p, a).at = a /\ Of(p, a).inst_pgc = NextWord(a)
         /\ InHand(p, Of(p, a))
         /\ RepeatsIn(p, a) => Of(p, a).core.alu /\ Of(p, a).repeat = "MU_REPI"
<1> DEFINE d == p[a].decoded
<1>1. a \in WordAddrs /\ StraightLine(d)
  BY CodeIsStraight DEF StraightCode
<1>2. a \in Addr /\ a # NowhereYet
  BY <1>1 DEF WordAddrs, Addr, NowhereYet
<1> HIDE DEF d
<1>3. /\ Of(p, a).at = a /\ Of(p, a).inst_pgc = NextWord(a) /\ Of(p, a).op = p[a].op
      /\ Of(p, a).core = d.core /\ Of(p, a).before = d.before /\ Of(p, a).after = d.after
      /\ Of(p, a).repeat = d.repeat /\ Of(p, a).illegal = d.illegal /\ Of(p, a).restart = d.restart
      /\ Of(p, a).disable_clk = d.disable_clk
  BY DEF Of, Instruction, d
<1>4. RepeatsIn(p, a) = (d.repeat = "MU_REPI")
  BY DEF RepeatsIn, d
<1>5. d.repeat = "MU_REPI" => d = RepeatImmediate
  BY <1>1 DEF StraightLine
<1>6. d.repeat # "MU_REPI" => d.repeat = "MU_NONE" /\ d.core.dest \notin {"PGC", "REPI"}
  BY <1>1, RepiFacts DEF StraightLine
<1>7. WellFormed(d)
  <2>1. /\ p[a] = ProgramWord(p[a].op, p[a].arg, p[a].targets) /\ p[a].op \in Opcode
    BY <1>1, PilotAssumption
  <2>2. d = Decoded(p[a].op)
    BY <2>1 DEF ProgramWord, d
  <2> QED
    BY <2>1, <2>2, DecodedType
<1>8. InHand(p, Of(p, a))
  <2>1. ~d.illegal /\ ~d.restart /\ {d.before.idx, d.after.idx} \subseteq OperandEntries /\ d.disable_clk \in BOOLEAN
    BY <1>1, <1>7 DEF StraightLine, WellFormed
  <2>2. Repeating(p, Of(p, a)) = (d.repeat = "MU_REPI")
    BY <1>2, <1>3, <1>4 DEF Repeating
  <2>3. d.disable_clk = (a # NowhereYet /\ p[a].decoded.disable_clk)
    BY <1>2, <2>1 DEF d
  <2>4. Of(p, a).disable_clk = (Of(p, a).at # NowhereYet /\ p[Of(p, a).at].decoded.disable_clk)
    BY <1>3, <2>3
  <2>5. Repeating(p, Of(p, a)) =>
          /\ d.core.dest = "REPI" /\ d.core.src1 = "ZERO" /\ d.core.latch = "MEM_NO_LATCH"
          /\ d.before.idx = "MU_NONE" /\ d.after.idx = "MU_NONE" /\ ~d.disable_clk
          /\ d.repeat \in {"MU_REPI", "MU_NONE"}
    BY <1>5, <2>2, RepiFacts
  <2>6. ~Repeating(p, Of(p, a)) => d.core.dest \notin {"PGC", "REPI"} /\ d.repeat = "MU_NONE"
    BY <1>6, <2>2
  <2> HIDE DEF Repeating
  <2> QED
    BY <1>3, <2>1, <2>4, <2>5, <2>6 DEF InHand
<1> QED
  BY <1>1, <1>2, <1>3, <1>4, <1>5, <1>8, RepiFacts

\* The code goes on after every instruction that does not stop the clock.
LEMMA CodeGoesOn ==
  ASSUME NEW p, RunsStraight(p), NEW a \in CodeOf(p)
  PROVE  /\ p[a].decoded.predict = "none" /\ ~p[a].decoded.illegal
         /\ p[a].decoded.disable_clk \/ FollowerIn(p, a) \in CodeOf(p)
         /\ RepeatsIn(p, a) => ~RepeatsIn(p, FollowerIn(p, a)) /\ ~p[FollowerIn(p, a)].decoded.disable_clk
  BY CodeIsStraight DEF StraightCode, StraightLine
-----------------------------------------------------------------------------
\* An entry of a memory operand: one successor, of the same kind, and no steering.
Accessing(e) ==
  /\ e \in DecodedEntries /\ ~e.branch
  /\ e.operation.dest \notin {"PGC", "REPI"} /\ e.next.idx \in OperandEntries

\* base_entry_ is one, and stays one when a field is written.
LEMMA BaseAccesses == ASSUME NEW s \in EntrySpec PROVE Accessing(Base(s))
<1>1. BaseNext(s).idx \in OperandEntries
  BY DEF BaseNext, OperandEntries, EntrySpec
<1>2. Base(s).operation.dest = "ZERO"
  BY DEF Base, IdleControl
<1>3. Base(s).branch = FALSE /\ Base(s).next = BaseNext(s)
  BY DEF Base
<1> QED
  BY <1>1, <1>2, <1>3, BaseType DEF Accessing

\* So do entries in which another register is read or written, or memory accessed.
LEMMA AccessingUpdates ==
  ASSUME NEW e, Accessing(e)
  PROVE  /\ \A x \in Locations : Accessing([e EXCEPT !.operation.src1 = x])
         /\ \A x \in Locations : Accessing([e EXCEPT !.operation.src2 = x])
         /\ \A x \in Locations \ {"PGC", "REPI"} : Accessing([e EXCEPT !.operation.dest = x])
         /\ \A x \in BOOLEAN : Accessing([e EXCEPT !.operation.alu = x])
         /\ \A x \in AddressLatches : Accessing([e EXCEPT !.operation.latch = x])
         /\ \A x \in WriteControls : Accessing([e EXCEPT !.operation.write = x])
         /\ \A x \in OperandEntries : Accessing([e EXCEPT !.next.idx = x])
         /\ \A x \in {8, 16, 24} : Accessing([e EXCEPT !.next.size = x])
<1>1. /\ e \in DecodedEntries /\ ~e.branch /\ e.operation.dest \notin {"PGC", "REPI"}
      /\ e.next.idx \in OperandEntries /\ OperandEntries \subseteq MucodeEntries
  BY DEF Accessing, OperandEntries, MucodeEntries
<1>2. /\ \A x : [e EXCEPT !.operation.src1 = x].branch = e.branch
      /\ \A x : [e EXCEPT !.operation.src2 = x].branch = e.branch
      /\ \A x : [e EXCEPT !.operation.dest = x].branch = e.branch
      /\ \A x : [e EXCEPT !.operation.alu = x].branch = e.branch
      /\ \A x : [e EXCEPT !.operation.latch = x].branch = e.branch
      /\ \A x : [e EXCEPT !.operation.write = x].branch = e.branch
      /\ \A x : [e EXCEPT !.next.idx = x].branch = e.branch
      /\ \A x : [e EXCEPT !.next.size = x].branch = e.branch
  BY <1>1 DEF DecodedEntries
<1>3. /\ \A x : [e EXCEPT !.operation.src1 = x].operation.dest = e.operation.dest
      /\ \A x : [e EXCEPT !.operation.src2 = x].operation.dest = e.operation.dest
      /\ \A x : [e EXCEPT !.operation.dest = x].operation.dest = x
      /\ \A x : [e EXCEPT !.operation.alu = x].operation.dest = e.operation.dest
      /\ \A x : [e EXCEPT !.operation.latch = x].operation.dest = e.operation.dest
      /\ \A x : [e EXCEPT !.operation.write = x].operation.dest = e.operation.dest
      /\ \A x : [e EXCEPT !.next.idx = x].operation.dest = e.operation.dest
      /\ \A x : [e EXCEPT !.next.size = x].operation.dest = e.operation.dest
  BY <1>1 DEF DecodedEntries, ControlWords
<1>4. /\ \A x : [e EXCEPT !.operation.src1 = x].next.idx = e.next.idx
      /\ \A x : [e EXCEPT !.operation.src2 = x].next.idx = e.next.idx
      /\ \A x : [e EXCEPT !.operation.dest = x].next.idx = e.next.idx
      /\ \A x : [e EXCEPT !.operation.alu = x].next.idx = e.next.idx
      /\ \A x : [e EXCEPT !.operation.latch = x].next.idx = e.next.idx
      /\ \A x : [e EXCEPT !.operation.write = x].next.idx = e.next.idx
      /\ \A x : [e EXCEPT !.next.idx = x].next.idx = x
      /\ \A x : [e EXCEPT !.next.size = x].next.idx = e.next.idx
  BY <1>1 DEF DecodedEntries, EntrySpec
<1> QED
  BY <1>1, <1>2, <1>3, <1>4, EntryUpdates DEF Accessing

\* The entries of OperandEntries are.
LEMMA OperandsAccess ==
  ASSUME NEW s \in EntrySpec, s.idx \in OperandEntries PROVE Accessing(EntryOf[s])
<1>1. /\ {"IMM_0", "IMM_1", "IMM_1_24", "RM_1", "RM_1_24", "REG", "SIZE", "PGC", "RM_HML", "REG_RM_2", "IMM_HML_RM",
          "REG_IMM_2", "REG_RM_1", "REG_IMM_1", "MEM_ADDR"} \subseteq Locations
      /\ {"REG", "MEM_ADDR"} \subseteq Locations \ {"PGC", "REPI"}
  BY DEF Locations
<1>2. /\ {"MU_POST_AUTOIDX", "MU_IND_MAR_POST_AUTO", "MU_NONE"} \subseteq OperandEntries
      /\ {"MEM_LATCH_HALF1", "MEM_LATCH_HALF2", "MEM_NO_LATCH"} \subseteq AddressLatches
      /\ {"MEM_WRITE_FROM_MDR", "MEM_READ", "MEM_WRITE_FROM_MDR_HIGH"} \subseteq WriteControls
  BY DEF OperandEntries, AddressLatches, WriteControls
<1>3. \A src1 \in Locations : Accessing(Indirect(s, src1))
  BY <1>2, BaseAccesses, AccessingUpdates DEF Indirect
<1>4. \A src1, src2 \in Locations : Accessing(AddressSum(s, src1, src2))
  BY <1>1, <1>2, BaseAccesses, AccessingUpdates DEF AddressSum
<1>5. /\ Accessing(ind_1cyc_imm_(s)) /\ Accessing(ind_1cyc_imm_rm_(s)) /\ Accessing(ind_1cyc_imm0_(s))
      /\ Accessing(ind_1cyc_reg_(s))
  BY <1>1, <1>3 DEF ind_1cyc_imm_, ind_1cyc_imm_rm_, ind_1cyc_imm0_, ind_1cyc_reg_, LatchOfSize
<1>6. /\ Accessing(ind_2cyc_imm_withbits_(s)) /\ Accessing(ind_2cyc_reg_withbits_(s))
      /\ Accessing(ind_2cyc_pgc_withimm_(s)) /\ Accessing(ind_2cyc_pgc_withimm_rm_(s))
  BY <1>1, <1>4
  DEF ind_2cyc_imm_withbits_, ind_2cyc_reg_withbits_, ind_2cyc_pgc_withimm_, ind_2cyc_pgc_withimm_rm_,
      LatchOfSize
<1>7. /\ Accessing(ind_1cyc_reg_post_auto_(s)) /\ Accessing(ind_1cyc_reg_auto_(s))
      /\ Accessing(after_autoidx_(s)) /\ Accessing(ind_2cyc_withimm_(s))
  BY <1>1, <1>2, <1>5, AccessingUpdates
  DEF ind_1cyc_reg_post_auto_, ind_1cyc_reg_auto_, after_autoidx_, ind_2cyc_withimm_
<1>8. Accessing(ind_2cyc_mar_auto_(s))
  BY <1>1, <1>2, BaseAccesses, AccessingUpdates DEF ind_2cyc_mar_auto_
<1>9. Accessing(ind_2cyc_mar_post_auto_(s))
  BY <1>2, <1>8, AccessingUpdates DEF ind_2cyc_mar_post_auto_
<1>10. Accessing(Entry(s))
  BY <1>5, <1>6, <1>7, <1>8, <1>9, BaseAccesses DEF Entry, OperandEntries
<1> QED
  BY <1>10 DEF EntryOf

\* The entry that counts down REPI.
LEMMA CountingEntry ==
  ASSUME NEW s \in EntrySpec, s.idx = "MU_REPI"
  PROVE  /\ EntryOf[s] \in DecodedEntries /\ ~EntryOf[s].branch /\ EntryOf[s].next.idx = "MU_NONE"
         /\ EntryOf[s].operation.alu /\ EntryOf[s].operation.src1 = "REPI"
         /\ EntryOf[s].operation.dest = "REPI" /\ EntryOf[s].operation.latch = "MEM_NO_LATCH"
<1> DEFINE b == Base(s)
           k == [b EXCEPT !.operation.src1 = "REPI", !.operation.src2 = "ZERO",
                          !.operation.dest = "REPI", !.operation.alu = TRUE, !.next.idx = "MU_NONE"]
           e == [k EXCEPT !.operation.aux = "LATCH_AUX_ZERO"]
<1>1. b \in DecodedEntries /\ b.operation.latch = "MEM_NO_LATCH"
  BY BaseType DEF Base, IdleControl
<1>2. EntryOf[s] = e
  BY DEF EntryOf, Entry, repi_, Computing
<1> HIDE DEF b
<1>3. /\ k.operation.src1 = "REPI" /\ k.operation.dest = "REPI"
      /\ k.operation.latch = b.operation.latch
  BY <1>1 DEF DecodedEntries, ControlWords
<1>4. k.operation.alu = TRUE
  <2> DEFINE o == [b.operation EXCEPT !.src1 = "REPI", !.src2 = "ZERO", !.dest = "REPI", !.alu = TRUE]
  <2>1. k.operation = o
    BY <1>1 DEF DecodedEntries
  <2>2. o.alu = TRUE
    <3>1. b.operation \in ControlWords
      BY <1>1 DEF DecodedEntries
    <3> QED
      BY <3>1, Zenon DEF ControlWords
  <2> QED
    BY <2>1, <2>2
<1>5. k \in DecodedEntries
  <2>1. {"REPI", "ZERO"} \subseteq Locations /\ "MU_NONE" \in MucodeEntries
    BY DEF Locations, MucodeEntries
  <2> QED
    BY <2>1, ComputingType DEF Computing, b
<1> HIDE DEF k
<1>6. /\ \A x : [k EXCEPT !.operation.aux = x].operation.src1 = k.operation.src1
      /\ \A x : [k EXCEPT !.operation.aux = x].operation.dest = k.operation.dest
      /\ \A x : [k EXCEPT !.operation.aux = x].operation.alu = k.operation.alu
      /\ \A x : [k EXCEPT !.operation.aux = x].operation.latch = k.operation.latch
  BY <1>5 DEF DecodedEntries, ControlWords
<1>7. EntryOf[s] \in DecodedEntries /\ ~EntryOf[s].branch
  <2>1. s.idx \in Plain /\ s.idx # "MU_BR_HML_TEST_HML"
    BY DEF Plain, MucodeEntries, Looping
  <2> QED
    BY <2>1, PlainGoesOn DEF GoesOn
<1>8. /\ e.operation.src1 = k.operation.src1 /\ e.operation.dest = k.operation.dest
      /\ e.operation.alu = k.operation.alu /\ e.operation.latch = k.operation.latch
  BY <1>6
<1> HIDE DEF e
<1>9. e.operation.alu = TRUE
  BY <1>4, <1>8
<1> QED
  BY <1>1, <1>2, <1>3, <1>7, <1>8, <1>9, RepeatEnds
-----------------------------------------------------------------------------
(***************************************************************************)
(* What the execute unit is doing with a straight program, between two     *)
(* calls and after each of the phases that a call falls through.           *)
(***************************************************************************)
\* PGC follows the instruction, except in a repetition.
InPlace(p, x) == x.inst.at # NowhereYet /\ ~Counting(p, x) => x.pgc = NextWord(x.inst.at)

\* What holds in every phase of the sequencer.
Sound(p, x) ==
  /\ InHand(p, x.inst) /\ ~x.branched
  /\ x.repeat_type \in {"MU_NONE", "MU_REPI"}
  /\ x.inst.disable_clk \/ x.inst.at = NowhereYet => x.repeat_type = "MU_NONE"
  /\ ~x.buffer.branch /\ x.buffer.operation.dest # "PGC"

\* The buffered entry does not write REPI (again).
BufferSpent(x) == x.buffer.operation.dest = "REPI" => ~x.buffer.operation.alu

\* It waits for an instruction: the last one and its repetitions have ended.
Idle(p, x) ==
  /\ x.seq = "WAIT_NEXT_INS" /\ x.repeat_type = "MU_NONE" /\ ~x.inst.disable_clk
  /\ Repeating(p, x.inst) => x.inst.repeat = "MU_NONE" /\ AgainIn(p, x.inst.at) = 0
\* It is before or after the core operation of an instruction.
Midway(p, x) ==
  /\ x.inst.at # NowhereYet /\ ~Repeating(p, x.inst)
  /\ \/ x.seq \in {"RUN_BEFORE", "RUN_AFTER"} /\ x.mucode_control.idx \in OperandEntries
     \/ x.seq \in {"CORE_OP", "FINAL_STEPS"}
\* The control word is the core operation.
Operating(p, x) ==
  /\ x.seq = "CORE_OP_EXECUTED" /\ x.inst.at # NowhereYet /\ x.control = "core_op"
  /\ Repeating(p, x.inst) => x.inst.repeat = "MU_REPI"
\* The control word counts down REPI.
Counts(p, x) ==
  /\ x.seq = "REPEAT_OP_BRANCH" /\ x.inst.at # NowhereYet
  /\ x.control = "buffer" /\ x.repeat_type = "MU_REPI" /\ x.inst.repeat = "MU_NONE"
  /\ x.buffer.operation.dest = "REPI" /\ x.buffer.operation.src1 = "REPI"
  /\ x.buffer.operation.latch = "MEM_NO_LATCH" /\ x.buffer.operation.alu
  /\ Repeating(p, x.inst) => x.repi = RepeatCount(x.inst.op)

\* Between two calls.
ExecInv(p, x) ==
  /\ Sound(p, x) /\ InPlace(p, x)
  /\ Counting(p, x) => x.repi > 0
  /\ \/ /\ BufferSpent(x)
        /\ \/ Idle(p, x) \/ Midway(p, x)
           \/ Operating(p, x) /\ (Repeating(p, x.inst) => x.inst.core.alu)
     \/ Counts(p, x)
  /\ x.phase = "HALF2_MEM_ASSERT" => Control(x).latch # "MEM_NO_LATCH"

\* What the execute unit is offered, if s, when it executes the instruction at a and has
\* it left to do n times.
Handed(p, i, s, a, n) ==
  /\ i.at = NowhereYet => a = NowhereYet /\ ~s
  /\ i.at # NowhereYet => i.at \in CodeOf(p) /\ i = Of(p, i.at)
  /\ n > 0 => s /\ i.at = a
  /\ n = 0 /\ s => IF a = NowhereYet THEN i.at \in StartAddrs ELSE i.at = FollowerIn(p, a)
  /\ ~s => i.at = a

\* How a call may change what is executed, and how often it is left to do.
Moves(p, a, n, b, m) ==
  \/ b = a /\ m = n
  \/ a = NowhereYet /\ b \in StartAddrs /\ m = 0
  \/ /\ a # NowhereYet /\ ~p[a].decoded.disable_clk
     /\ n = 0 /\ b = FollowerIn(p, a) /\ m = AgainIn(p, a)
  \/ n > 0 /\ b = a /\ m = n - 1

-----------------------------------------------------------------------------
\* The result has been latched; a and n as the call has found them.
Counted(p, a, n, x) ==
  /\ x.seq = "REPEAT_OP_BRANCH" /\ a # NowhereYet
  /\ x.repeat_type = "MU_REPI" /\ x.inst.repeat = "MU_NONE"
  /\ x.used_z <=> x.repi = 0
  /\ IF Repeating(p, x.inst) THEN n = 0 /\ x.repi = AgainIn(p, a) ELSE n = x.repi + 1
ResultIn(p, a, n, w) ==
  /\ Sound(p, w.x) /\ InPlace(p, w.x) /\ BufferSpent(w.x)
  /\ w.x.inst.at = a /\ w.target = NoTarget
  /\ \/ /\ n = Left(p, w.x) /\ (Counting(p, w.x) => w.x.repi > 0)
        /\ \/ Idle(p, w.x) \/ Midway(p, w.x)
           \/ /\ Operating(p, w.x)
              /\ Repeating(p, w.x.inst) => w.x.repi = RepeatCount(w.x.inst.op)
     \/ Counted(p, a, n, w.x)

\* The phases that end an instruction have been passed.
Recounts(p, x) ==
  /\ x.seq = "REPEAT_OP" /\ x.inst.at # NowhereYet /\ x.mucode_control.idx = "MU_REPI"
  /\ x.repeat_type = "MU_REPI" /\ x.inst.repeat = "MU_NONE"
  /\ Repeating(p, x.inst) => x.repi = RepeatCount(x.inst.op)
LastTime(p, a, n, x) ==
  /\ x.seq = "WAIT_NEXT_INS" /\ x.repeat_type = "MU_NONE" /\ ~x.inst.disable_clk
  /\ ~Repeating(p, x.inst) /\ a # NowhereYet /\ n = 1
OnceMore(p, a, n, x) ==
  /\ x.seq = "WAIT_CACHED_INS" /\ x.repeat_type = "MU_REPI" /\ a # NowhereYet /\ x.repi > 0
  /\ IF Repeating(p, x.inst) THEN n = 0 /\ x.repi = AgainIn(p, a) /\ InPlace(p, x)
     ELSE n = x.repi + 1
Finished(p, a, n, w) ==
  /\ Sound(p, w.x) /\ BufferSpent(w.x)
  /\ w.x.inst.at = a /\ w.target = NoTarget
  /\ \/ /\ InPlace(p, w.x) /\ n = Left(p, w.x) /\ (Counting(p, w.x) => w.x.repi > 0)
        /\ Idle(p, w.x) \/ Midway(p, w.x) \/ Recounts(p, w.x)
     \/ LastTime(p, a, n, w.x) \/ OnceMore(p, a, n, w.x)

\* An instruction has been taken or goes on; i is what is offered.
Underway(p, a, n, i, w) ==
  /\ Sound(p, w.x) /\ InPlace(p, w.x) /\ (Counting(p, w.x) => w.x.repi > 0)
  /\ w.target = NoTarget
  /\ Moves(p, a, n, w.x.inst.at, Left(p, w.x))
  /\ ~w.x.inst.disable_clk => Handed(p, i, w.offered, w.x.inst.at, Left(p, w.x))
Fresh(p, x) ==
  /\ x.seq = "EVAL_CONTROL" /\ x.inst.at # NowhereYet
  /\ Repeating(p, x.inst) => x.inst.core.alu /\ x.inst.repeat = "MU_REPI"
Took(p, a, n, i, w) ==
  /\ Underway(p, a, n, i, w) /\ BufferSpent(w.x)
  /\ Idle(p, w.x) \/ Midway(p, w.x) \/ Recounts(p, w.x) \/ Fresh(p, w.x)
SetUp(p, a, n, i, w) ==
  /\ Underway(p, a, n, i, w) /\ BufferSpent(w.x)
  /\ \/ Idle(p, w.x) \/ Midway(p, w.x) \/ Recounts(p, w.x)
     \/ Operating(p, w.x) /\ (Repeating(p, w.x.inst) => w.x.inst.core.alu)
LoadedIn(p, a, n, i, w) ==
  /\ Underway(p, a, n, i, w)
  /\ \/ /\ BufferSpent(w.x)
        /\ \/ Idle(p, w.x) \/ Midway(p, w.x)
           \/ Operating(p, w.x) /\ (Repeating(p, w.x.inst) => w.x.inst.core.alu)
     \/ Counts(p, w.x)

-----------------------------------------------------------------------------
\* What the counts depend on.
LEMMA HandKept ==
  ASSUME NEW p, NEW x, NEW y, y.inst = x.inst, y.repeat_type = x.repeat_type, y.repi = x.repi,
         y.pgc = x.pgc, y.branched = x.branched
  PROVE  /\ Repeating(p, y.inst) = Repeating(p, x.inst) /\ Counting(p, y) = Counting(p, x)
         /\ Left(p, y) = Left(p, x)
         /\ InPlace(p, y) = InPlace(p, x)
         /\ Sound(p, x) /\ ~y.buffer.branch /\ y.buffer.operation.dest # "PGC" => Sound(p, y)
<1>1. Counting(p, y) = Counting(p, x)
  BY DEF Counting
<1> QED
  BY <1>1 DEF Left, InPlace, Sound

\* What stays when an instruction is in progress and only its routine goes on.
LEMMA UnderwayKept ==
  ASSUME NEW p, NEW a, NEW n, NEW i, NEW w, NEW v, Underway(p, a, n, i, w),
         v.target = w.target, v.offered = w.offered,
         v.x.inst = w.x.inst, v.x.repeat_type = w.x.repeat_type, v.x.repi = w.x.repi,
         v.x.pgc = w.x.pgc, v.x.branched = w.x.branched,
         ~v.x.buffer.branch, v.x.buffer.operation.dest # "PGC"
  PROVE  Underway(p, a, n, i, v)
  BY HandKept DEF Underway

\* A routine without choices: its next entry is loaded.
LEMMA RoutineGoesOn ==
  ASSUME NEW o \in BOOLEAN, NEW w \in Works({FALSE}, o), NEW d \in FreeData, NEW finished,
         ~w.x.buffer.branch, NEW v, v = RunRoutine(w, d, finished),
         NEW s, s = w.x.mucode_control, ~EntryOf[s].branch
  PROVE  /\ v.target = w.target /\ v.offered = w.offered
         /\ v.x.inst = w.x.inst /\ v.x.repeat_type = w.x.repeat_type /\ v.x.repi = w.x.repi
         /\ v.x.pgc = w.x.pgc /\ v.x.branched = w.x.branched
         /\ v.x.buffer = EntryOf[s] /\ v.x.control = "buffer" /\ v.x.mucode_control = EntryOf[s].next
         /\ v.x.seq = IF EntryOf[s].next.idx # "MU_NONE" THEN w.x.seq ELSE finished
<1> DEFINE entry == EntryOf[s]
           seq == IF entry.next.idx # "MU_NONE" THEN w.x.seq ELSE finished
           doing == [stage |-> w.x.seq, at |-> s]
           next == entry.next
           goes == [w EXCEPT !.x.buffer = entry, !.x.control = "buffer", !.x.mucode_control = next,
                             !.x.seq = seq, !.x.doing = doing]
<1>1. v = goes
  BY DEF RunRoutine
<1> HIDE DEF entry, seq, doing, next
<1>2. /\ goes.target = w.target /\ goes.offered = w.offered
      /\ goes.x.inst = w.x.inst /\ goes.x.repeat_type = w.x.repeat_type /\ goes.x.repi = w.x.repi
      /\ goes.x.pgc = w.x.pgc /\ goes.x.branched = w.x.branched
      /\ goes.x.buffer = entry /\ goes.x.control = "buffer" /\ goes.x.mucode_control = next
      /\ goes.x.seq = seq
  BY DEF Works, ExecStates
<1> HIDE DEF goes
<1> QED
  BY <1>1, <1>2 DEF entry, seq, next

\* The phases that load an entry: it accesses memory, or counts down REPI.
LEMMA AccessLoaded ==
  ASSUME NEW p, NEW a, NEW n, NEW i, NEW o \in BOOLEAN, NEW w \in Works({FALSE}, o), NEW d \in FreeData,
         NEW finished \in {"CORE_OP", "FINAL_STEPS"}, w.x.seq \in {"RUN_BEFORE", "RUN_AFTER"},
         Underway(p, a, n, i, w), Midway(p, w.x)
  PROVE  LoadedIn(p, a, n, i, RunRoutine(w, d, finished))
<1> DEFINE s == w.x.mucode_control
           v == RunRoutine(w, d, finished)
<1>1. s \in EntrySpec /\ s.idx \in OperandEntries
  BY WorkFields, ExecFields DEF Midway
<1>2. Accessing(EntryOf[s])
  BY <1>1, OperandsAccess
<1>3. ~w.x.buffer.branch
  BY DEF Underway, Sound
<1>4. /\ v.target = w.target /\ v.offered = w.offered
      /\ v.x.inst = w.x.inst /\ v.x.repeat_type = w.x.repeat_type /\ v.x.repi = w.x.repi
      /\ v.x.pgc = w.x.pgc /\ v.x.branched = w.x.branched
      /\ v.x.buffer = EntryOf[s] /\ v.x.mucode_control = EntryOf[s].next
      /\ v.x.seq = IF EntryOf[s].next.idx # "MU_NONE" THEN w.x.seq ELSE finished
  BY <1>2, <1>3, RoutineGoesOn DEF Accessing
<1> HIDE DEF v, s
<1>5. ~v.x.buffer.branch /\ v.x.buffer.operation.dest \notin {"PGC", "REPI"}
      /\ v.x.mucode_control.idx \in OperandEntries
  BY <1>2, <1>4 DEF Accessing
<1>6. Underway(p, a, n, i, v)
  BY <1>4, <1>5, UnderwayKept
<1>7. Midway(p, v.x) /\ BufferSpent(v.x)
  BY <1>4, <1>5 DEF Midway, BufferSpent
<1>8. LoadedIn(p, a, n, i, v)
  BY <1>6, <1>7 DEF LoadedIn
<1> QED
  BY <1>8 DEF v

\* The entry of a repetition.
LEMMA CountLoaded ==
  ASSUME NEW p, NEW a, NEW n, NEW i, NEW o \in BOOLEAN, NEW w \in Works({FALSE}, o), NEW d \in FreeData,
         Underway(p, a, n, i, w), Recounts(p, w.x)
  PROVE  LoadedIn(p, a, n, i, RunRoutine(w, d, "REPEAT_OP_BRANCH"))
<1> DEFINE s == w.x.mucode_control
           v == RunRoutine(w, d, "REPEAT_OP_BRANCH")
<1>1. s \in EntrySpec /\ s.idx = "MU_REPI"
  BY WorkFields, ExecFields DEF Recounts
<1>2. /\ EntryOf[s] \in DecodedEntries /\ ~EntryOf[s].branch /\ EntryOf[s].next.idx = "MU_NONE"
      /\ EntryOf[s].operation.alu /\ EntryOf[s].operation.src1 = "REPI"
      /\ EntryOf[s].operation.dest = "REPI" /\ EntryOf[s].operation.latch = "MEM_NO_LATCH"
  BY <1>1, CountingEntry
<1>3. ~w.x.buffer.branch
  BY DEF Underway, Sound
<1>4. /\ v.target = w.target /\ v.offered = w.offered
      /\ v.x.inst = w.x.inst /\ v.x.repeat_type = w.x.repeat_type /\ v.x.repi = w.x.repi
      /\ v.x.pgc = w.x.pgc /\ v.x.branched = w.x.branched
      /\ v.x.buffer = EntryOf[s] /\ v.x.control = "buffer"
      /\ v.x.seq = "REPEAT_OP_BRANCH"
  BY <1>2, <1>3, RoutineGoesOn
<1> HIDE DEF v, s
<1>5. Underway(p, a, n, i, v)
  BY <1>2, <1>4, UnderwayKept
<1>6. Counts(p, v.x)
  BY <1>2, <1>4 DEF Counts, Recounts
<1>7. LoadedIn(p, a, n, i, v)
  BY <1>5, <1>6 DEF LoadedIn
<1> QED
  BY <1>7 DEF v

\* The phases that load.
LEMMA LoadsStraight ==
  ASSUME NEW p, NEW a, NEW n, NEW i, NEW o \in BOOLEAN, NEW w \in Works({FALSE}, o), NEW d \in FreeData,
         SetUp(p, a, n, i, w)
  PROVE  LoadedIn(p, a, n, i, RepeatOp(RunAfter(RunBefore(w, d), d), d))
<1>1. Underway(p, a, n, i, w)
  BY DEF SetUp
<1>2. CASE w.x.seq = "RUN_BEFORE"
  <2> DEFINE v == RunRoutine(w, d, "CORE_OP")
  <2>1. Midway(p, w.x)
    BY <1>2 DEF SetUp, Idle, Recounts, Operating
  <2>2. LoadedIn(p, a, n, i, v)
    BY <1>1, <1>2, <2>1, AccessLoaded
  <2>3. v.x.seq \in {"RUN_BEFORE", "CORE_OP"}
    <3>1. w.x.mucode_control \in EntrySpec /\ w.x.mucode_control.idx \in OperandEntries /\ ~w.x.buffer.branch
      BY <1>1, <1>2, <2>1, WorkFields, ExecFields DEF Midway, Underway, Sound
    <3>2. ~EntryOf[w.x.mucode_control].branch
      BY <3>1, OperandsAccess DEF Accessing
    <3> QED
      BY <1>2, <3>1, <3>2, RoutineGoesOn
  <2>4. RunBefore(w, d) = v
    BY <1>2 DEF RunBefore
  <2> HIDE DEF v
  <2>5. RepeatOp(RunAfter(v, d), d) = v
    BY <2>3 DEF RunAfter, RepeatOp
  <2> QED
    BY <2>2, <2>4, <2>5
<1>3. CASE w.x.seq = "RUN_AFTER"
  <2> DEFINE v == RunRoutine(w, d, "FINAL_STEPS")
  <2>1. Midway(p, w.x)
    BY <1>3 DEF SetUp, Idle, Recounts, Operating
  <2>2. LoadedIn(p, a, n, i, v)
    BY <1>1, <1>3, <2>1, AccessLoaded
  <2>3. v.x.seq \in {"RUN_AFTER", "FINAL_STEPS"}
    <3>1. w.x.mucode_control \in EntrySpec /\ w.x.mucode_control.idx \in OperandEntries /\ ~w.x.buffer.branch
      BY <1>1, <1>3, <2>1, WorkFields, ExecFields DEF Midway, Underway, Sound
    <3>2. ~EntryOf[w.x.mucode_control].branch
      BY <3>1, OperandsAccess DEF Accessing
    <3> QED
      BY <1>3, <3>1, <3>2, RoutineGoesOn
  <2>4. RunAfter(RunBefore(w, d), d) = v
    BY <1>3 DEF RunBefore, RunAfter
  <2> HIDE DEF v
  <2>5. RepeatOp(v, d) = v
    BY <2>3 DEF RepeatOp
  <2> QED
    BY <2>2, <2>4, <2>5
<1>4. CASE w.x.seq = "REPEAT_OP"
  <2>1. Recounts(p, w.x)
    BY <1>4 DEF SetUp, Idle, Midway, Operating
  <2>2. RepeatOp(RunAfter(RunBefore(w, d), d), d) = RunRoutine(w, d, "REPEAT_OP_BRANCH")
    BY <1>4 DEF RunBefore, RunAfter, RepeatOp
  <2> QED
    BY <1>1, <2>1, <2>2, CountLoaded
<1>5. CASE w.x.seq \notin {"RUN_BEFORE", "RUN_AFTER", "REPEAT_OP"}
  <2>1. RepeatOp(RunAfter(RunBefore(w, d), d), d) = w
    BY <1>5 DEF RunBefore, RunAfter, RepeatOp
  <2>2. ~Recounts(p, w.x)
    BY <1>5 DEF Recounts
  <2> QED
    BY <2>1, <2>2 DEF SetUp, LoadedIn
<1> QED
  BY <1>2, <1>3, <1>4, <1>5

-----------------------------------------------------------------------------
\* The core operation becomes the control word.
LEMMA OperationSetUp ==
  ASSUME NEW p, NEW a, NEW n, NEW i, NEW o \in BOOLEAN, NEW w \in Works({FALSE}, o),
         Underway(p, a, n, i, w), BufferSpent(w.x), w.x.seq = "CORE_OP", w.x.inst.at # NowhereYet,
         Repeating(p, w.x.inst) => w.x.inst.core.alu /\ w.x.inst.repeat = "MU_REPI"
  PROVE  SetUp(p, a, n, i, CoreOp(w))
<1> DEFINE v == [w EXCEPT !.x.control = "core_op", !.x.seq = "CORE_OP_EXECUTED",
                          !.x.doing = [stage |-> "CORE_OP", at |-> NoEntry]]
<1>1. CoreOp(w) = v
  BY DEF CoreOp
<1>2. /\ v.target = w.target /\ v.offered = w.offered
      /\ v.x.inst = w.x.inst /\ v.x.repeat_type = w.x.repeat_type /\ v.x.repi = w.x.repi
      /\ v.x.pgc = w.x.pgc /\ v.x.branched = w.x.branched /\ v.x.buffer = w.x.buffer
      /\ v.x.seq = "CORE_OP_EXECUTED" /\ v.x.control = "core_op"
  BY DEF Works, ExecStates
<1> HIDE DEF v
<1>3. Underway(p, a, n, i, v)
  BY <1>2, UnderwayKept DEF Underway, Sound
<1>4. Operating(p, v.x) /\ BufferSpent(v.x) /\ (Repeating(p, v.x.inst) => v.x.inst.core.alu)
  BY <1>2 DEF Operating, BufferSpent
<1> QED
  BY <1>1, <1>3, <1>4 DEF SetUp

\* The phases that choose what an instruction begins with.
LEMMA EvaluatesStraight ==
  ASSUME NEW p, NEW a, NEW n, NEW i, NEW o \in BOOLEAN, NEW w \in Works({FALSE}, o), NEW b,
         Took(p, a, n, i, w)
  PROVE  SetUp(p, a, n, i, CoreOp(EvalControl(w, b)))
<1>1. Underway(p, a, n, i, w) /\ BufferSpent(w.x) /\ InHand(p, w.x.inst)
  BY DEF Took, Underway, Sound
<1>2. CASE w.x.seq = "EVAL_CONTROL"
  <2>1. Fresh(p, w.x)
    BY <1>2 DEF Took, Idle, Midway, Recounts
  <2>2. ~w.x.inst.illegal /\ ~w.x.inst.restart /\ w.x.inst.before.idx \in OperandEntries
    BY <1>1 DEF InHand
  <2>3. CASE w.x.inst.before.idx # "MU_NONE"
    <3> DEFINE v == [w EXCEPT !.x.seq = "RUN_BEFORE", !.x.mucode_control = w.x.inst.before]
    <3>1. EvalControl(w, b) = v
      BY <1>2, <2>2, <2>3 DEF EvalControl
    <3>2. /\ v.target = w.target /\ v.offered = w.offered
          /\ v.x.inst = w.x.inst /\ v.x.repeat_type = w.x.repeat_type /\ v.x.repi = w.x.repi
          /\ v.x.pgc = w.x.pgc /\ v.x.branched = w.x.branched /\ v.x.buffer = w.x.buffer
          /\ v.x.seq = "RUN_BEFORE" /\ v.x.mucode_control = w.x.inst.before
      BY DEF Works, ExecStates
    <3> HIDE DEF v
    <3>3. Underway(p, a, n, i, v)
      BY <1>1, <3>2, UnderwayKept DEF Underway, Sound
    <3>4. Midway(p, v.x) /\ BufferSpent(v.x)
      BY <1>1, <2>1, <2>2, <2>3, <3>2 DEF Midway, BufferSpent, Fresh, InHand
    <3>5. CoreOp(v) = v
      BY <3>2 DEF CoreOp
    <3> QED
      BY <3>1, <3>3, <3>4, <3>5 DEF SetUp
  <2>4. CASE w.x.inst.before.idx = "MU_NONE"
    <3> DEFINE v == [w EXCEPT !.x.seq = "CORE_OP"]
    <3>1. EvalControl(w, b) = v
      BY <1>2, <2>2, <2>4 DEF EvalControl
    <3>2. /\ v.target = w.target /\ v.offered = w.offered
          /\ v.x.inst = w.x.inst /\ v.x.repeat_type = w.x.repeat_type /\ v.x.repi = w.x.repi
          /\ v.x.pgc = w.x.pgc /\ v.x.branched = w.x.branched /\ v.x.buffer = w.x.buffer
          /\ v.x.seq = "CORE_OP"
      BY DEF Works, ExecStates
    <3>3. v \in Works({FALSE}, o)
      BY WorkExecUpdates DEF SequencerPhases
    <3> HIDE DEF v
    <3>4. Underway(p, a, n, i, v)
      BY <1>1, <3>2, UnderwayKept DEF Underway, Sound
    <3>5. BufferSpent(v.x)
      BY <1>1, <3>2 DEF BufferSpent
    <3> QED
      BY <2>1, <3>1, <3>2, <3>3, <3>4, <3>5, OperationSetUp DEF Fresh
  <2> QED
    BY <2>3, <2>4
<1>3. CASE w.x.seq = "CORE_OP"
  <2>1. EvalControl(w, b) = w
    BY <1>3 DEF EvalControl
  <2>2. Midway(p, w.x)
    BY <1>3 DEF Took, Idle, Recounts, Fresh
  <2> QED
    BY <1>1, <1>3, <2>1, <2>2, OperationSetUp DEF Midway
<1>4. CASE w.x.seq \notin {"EVAL_CONTROL", "CORE_OP"}
  <2>1. CoreOp(EvalControl(w, b)) = w
    BY <1>4 DEF CoreOp, EvalControl
  <2> QED
    BY <1>4, <2>1 DEF Took, SetUp, Fresh
<1> QED
  BY <1>2, <1>3, <1>4

-----------------------------------------------------------------------------
\* The instruction that a unit takes is one of the program.
LEMMA HandedOver ==
  ASSUME NEW p \in Programs, RunsStraight(p), NEW i, NEW s, NEW a, NEW n, Handed(p, i, s, a, n),
         s \/ a # NowhereYet
  PROVE  /\ i.at # NowhereYet /\ i.at \in CodeOf(p) /\ i.inst_pgc = NextWord(i.at) /\ InHand(p, i)
         /\ Repeating(p, i) => i.core.alu /\ i.repeat = "MU_REPI"
         /\ i = Of(p, i.at)
<1>1. i.at # NowhereYet /\ i.at \in CodeOf(p) /\ i = Of(p, i.at)
  BY DEF Handed
<1> DEFINE b == i.at
<1>2. b \in CodeOf(p) /\ i = Of(p, b)
  BY <1>1
<1> HIDE DEF b
<1>3. /\ i.inst_pgc = NextWord(b) /\ InHand(p, i)
      /\ RepeatsIn(p, b) => i.core.alu /\ i.repeat = "MU_REPI"
  BY <1>2, OfFacts
<1> QED
  BY <1>1, <1>3 DEF b, Repeating

\* An instruction that is waited for is taken.
LEMMA NextTaken ==
  ASSUME NEW p \in Programs, RunsStraight(p), NEW a, NEW n, NEW i,
         NEW o \in BOOLEAN, NEW w \in Works({FALSE}, o), Finished(p, a, n, w),
         w.x.seq = "WAIT_NEXT_INS", w.offered, Handed(p, i, TRUE, a, n)
  PROVE  Took(p, a, n, i, WaitNextIns(w, i)) /\ WaitNextIns(w, i).x.seq = "EVAL_CONTROL"
<1> DEFINE v == [w EXCEPT !.x.inst = i, !.offered = FALSE, !.x.seq = "EVAL_CONTROL", !.x.pgc = i.inst_pgc]
<1>1. /\ i.at # NowhereYet /\ i.at \in CodeOf(p) /\ i.inst_pgc = NextWord(i.at) /\ InHand(p, i)
      /\ Repeating(p, i) => i.core.alu /\ i.repeat = "MU_REPI"
      /\ i = Of(p, i.at)
  BY HandedOver
<1>2. /\ w.x.repeat_type = "MU_NONE" /\ Sound(p, w.x) /\ BufferSpent(w.x) /\ w.target = NoTarget
      /\ w.x.inst.at = a /\ ~w.x.inst.disable_clk
      /\ \/ n = 0 /\ (Repeating(p, w.x.inst) => AgainIn(p, a) = 0)
         \/ a # NowhereYet /\ n = 1
  BY DEF Finished, Idle, Midway, Recounts, LastTime, OnceMore, Left, Counting
<1>3. WaitNextIns(w, i) = v
  BY <1>2 DEF WaitNextIns
<1>4. /\ v.target = w.target /\ v.offered = FALSE
      /\ v.x.inst = i /\ v.x.repeat_type = w.x.repeat_type /\ v.x.repi = w.x.repi
      /\ v.x.pgc = i.inst_pgc /\ v.x.branched = w.x.branched /\ v.x.buffer = w.x.buffer
      /\ v.x.seq = "EVAL_CONTROL"
  BY DEF Works, ExecStates
<1> HIDE DEF v
<1>5. Sound(p, v.x) /\ BufferSpent(v.x)
  BY <1>1, <1>2, <1>4 DEF Sound, BufferSpent
<1>6. ~Counting(p, v.x) /\ Left(p, v.x) = 0 /\ InPlace(p, v.x)
  BY <1>1, <1>2, <1>4 DEF Counting, Left, InPlace
<1>7. Moves(p, a, n, i.at, 0)
  <2>1. CASE a # NowhereYet /\ n = 1
    BY <2>1 DEF Handed, Moves
  <2>2. CASE n = 0 /\ a = NowhereYet
    BY <2>2 DEF Handed, Moves
  <2>3. CASE n = 0 /\ a # NowhereYet /\ (Repeating(p, w.x.inst) => AgainIn(p, a) = 0)
    <3>1. AgainIn(p, a) = 0
      BY <1>2, <2>3 DEF Repeating, AgainIn
    <3>2. (p[a].decoded.disable_clk => w.x.inst.disable_clk)
      BY <1>2, <2>3 DEF Sound, InHand
    <3> QED
      BY <1>2, <2>3, <3>1, <3>2 DEF Handed, Moves
  <2> QED
    BY <1>2, <2>1, <2>2, <2>3
<1>8. Handed(p, i, FALSE, i.at, 0)
  BY <1>1 DEF Handed
<1>9. Underway(p, a, n, i, v)
  BY <1>2, <1>4, <1>5, <1>6, <1>7, <1>8 DEF Underway
<1>10. Fresh(p, v.x)
  BY <1>1, <1>4 DEF Fresh
<1> QED
  BY <1>3, <1>4, <1>5, <1>9, <1>10 DEF Took

\* The repeated instruction is taken, for the first time or again, or the repeat
\* instruction once more.
LEMMA RepeatedTaken ==
  ASSUME NEW p \in Programs, RunsStraight(p), NEW a, NEW n, NEW i,
         NEW o \in BOOLEAN, NEW w \in Works({FALSE}, o), Finished(p, a, n, w),
         w.x.seq = "WAIT_CACHED_INS", Handed(p, i, w.offered, a, n)
  PROVE  Took(p, a, n, i, WaitCachedIns(w, i))
<1> DEFINE v == [w EXCEPT !.x.inst = i, !.x.seq = "EVAL_CONTROL"]
<1>1. /\ OnceMore(p, a, n, w.x) /\ Sound(p, w.x) /\ BufferSpent(w.x) /\ w.target = NoTarget
      /\ w.x.inst.at = a /\ a # NowhereYet
  BY DEF Finished, Idle, Midway, Recounts, LastTime, OnceMore
<1>2. /\ i.at # NowhereYet /\ i.at \in CodeOf(p) /\ InHand(p, i)
      /\ Repeating(p, i) => i.core.alu /\ i.repeat = "MU_REPI"
      /\ i = Of(p, i.at)
  BY <1>1, HandedOver
<1>3. WaitCachedIns(w, i) = v
  BY DEF WaitCachedIns
<1>4. /\ v.target = w.target /\ v.offered = w.offered
      /\ v.x.inst = i /\ v.x.repeat_type = w.x.repeat_type /\ v.x.repi = w.x.repi
      /\ v.x.pgc = w.x.pgc /\ v.x.branched = w.x.branched /\ v.x.buffer = w.x.buffer
      /\ v.x.seq = "EVAL_CONTROL"
  BY DEF Works, ExecStates
<1> HIDE DEF v
<1>5. w.x.repi \in Nat /\ w.x.repi > 0 /\ w.x.repeat_type = "MU_REPI"
  BY <1>1, WorkFields, ExecFields DEF OnceMore
<1>6. a \in CodeOf(p) /\ ~p[a].decoded.disable_clk
  <2>1. (p[a].decoded.disable_clk => w.x.inst.disable_clk) /\ ~w.x.inst.disable_clk /\ a \in CodeOf(p)
    BY <1>1, <1>5 DEF Sound, InHand
  <2> QED
    BY <2>1
<1>7. BufferSpent(v.x)
  BY <1>1, <1>4 DEF BufferSpent
<1>8. Fresh(p, v.x)
  BY <1>2, <1>4 DEF Fresh
<1>9. ~p[i.at].decoded.disable_clk => Sound(p, v.x)
  <2>1. i.disable_clk => p[i.at].decoded.disable_clk
    BY <1>2 DEF InHand
  <2> QED
    BY <1>1, <1>2, <1>4, <2>1 DEF Sound
<1>10. CASE Repeating(p, w.x.inst) /\ w.offered
  <2>1. n = 0 /\ i.at = FollowerIn(p, a) /\ w.x.repi = AgainIn(p, a)
    BY <1>1, <1>10 DEF OnceMore, Handed
  <2>2. ~RepeatsIn(p, FollowerIn(p, a)) /\ ~p[FollowerIn(p, a)].decoded.disable_clk
    BY <1>1, <1>6, <1>10, CodeGoesOn DEF Repeating
  <2>3. Counting(p, v.x) /\ Left(p, v.x) = w.x.repi
    BY <1>4, <1>5, <2>1, <2>2 DEF Counting, Left, Repeating
  <2>4. Moves(p, a, n, i.at, w.x.repi)
    BY <1>1, <1>6, <2>1 DEF Moves
  <2>5. Handed(p, i, w.offered, i.at, w.x.repi)
    BY <1>2, <1>5, <1>10 DEF Handed
  <2>6. InPlace(p, v.x)
    BY <2>3 DEF InPlace
  <2>7. Underway(p, a, n, i, v)
    BY <1>1, <1>4, <1>5, <1>9, <2>1, <2>2, <2>3, <2>4, <2>5, <2>6 DEF Underway
  <2> QED
    BY <1>3, <1>7, <1>8, <2>7 DEF Took
<1>11. CASE Repeating(p, w.x.inst) /\ ~w.offered
  <2>1. n = 0 /\ i.at = a /\ InPlace(p, w.x)
    BY <1>1, <1>11 DEF OnceMore, Handed
  <2>2. Repeating(p, i) /\ ~Counting(p, v.x) /\ Left(p, v.x) = 0
    BY <1>1, <1>2, <1>4, <1>11, <2>1 DEF Counting, Left, Repeating
  <2>3. Moves(p, a, n, i.at, 0)
    BY <2>1 DEF Moves
  <2>4. Handed(p, i, w.offered, i.at, 0)
    BY <1>2, <1>11 DEF Handed
  <2>5. InPlace(p, v.x)
    BY <1>1, <1>4, <1>11, <2>1 DEF InPlace, Counting
  <2>6. Underway(p, a, n, i, v)
    BY <1>1, <1>4, <1>6, <1>9, <2>1, <2>2, <2>3, <2>4, <2>5 DEF Underway
  <2> QED
    BY <1>3, <1>7, <1>8, <2>6 DEF Took
<1>12. CASE ~Repeating(p, w.x.inst)
  <2>1. n = w.x.repi + 1
    BY <1>1, <1>12 DEF OnceMore
  <2>2. n > 0 /\ w.offered /\ i.at = a
    BY <1>5, <2>1 DEF Handed
  <2>3. Counting(p, v.x) /\ Left(p, v.x) = w.x.repi
    BY <1>1, <1>2, <1>4, <1>5, <1>12, <2>2 DEF Counting, Left, Repeating
  <2>4. Moves(p, a, n, i.at, w.x.repi)
    BY <1>5, <2>1, <2>2 DEF Moves
  <2>5. Handed(p, i, w.offered, i.at, w.x.repi)
    BY <1>2, <1>5, <2>2 DEF Handed
  <2>6. InPlace(p, v.x)
    BY <2>3 DEF InPlace
  <2>7. Underway(p, a, n, i, v)
    BY <1>1, <1>4, <1>5, <1>6, <1>9, <2>2, <2>3, <2>4, <2>5, <2>6 DEF Underway
  <2> QED
    BY <1>3, <1>7, <1>8, <2>7 DEF Took
<1> QED
  BY <1>10, <1>11, <1>12

\* The phases that take an instruction.
LEMMA TakesStraight ==
  ASSUME NEW p \in Programs, RunsStraight(p), NEW a, NEW n, NEW i,
         NEW o \in BOOLEAN, NEW w \in Works({FALSE}, o), NEW d, Finished(p, a, n, w),
         ~w.x.inst.disable_clk => Handed(p, i, w.offered, a, n)
  PROVE  Took(p, a, n, i, WaitCachedIns(PushPgc(WaitNextIns(w, i), d), i))
<1>1. CASE w.x.seq = "WAIT_NEXT_INS" /\ w.offered
  <2> DEFINE v == WaitNextIns(w, i)
  <2>1. ~w.x.inst.disable_clk
    BY <1>1 DEF Finished, Idle, Midway, Recounts, LastTime, OnceMore
  <2>2. Took(p, a, n, i, v) /\ v.x.seq = "EVAL_CONTROL"
    <3>1. w.offered = TRUE
      BY <1>1, WorkFields
    <3> QED
      BY <1>1, <2>1, <3>1, NextTaken
  <2> HIDE DEF v
  <2>3. WaitCachedIns(PushPgc(v, d), i) = v
    BY <2>2 DEF WaitCachedIns, PushPgc
  <2> QED
    BY <2>2, <2>3 DEF v
<1>2. CASE w.x.seq = "WAIT_CACHED_INS"
  <2>1. PushPgc(WaitNextIns(w, i), d) = w
    BY <1>2 DEF PushPgc, WaitNextIns
  <2>2. ~w.x.inst.disable_clk
    BY <1>2 DEF Finished, Idle, Midway, Recounts, LastTime, OnceMore, Sound
  <2> QED
    BY <1>2, <2>1, <2>2, RepeatedTaken
<1>3. CASE w.x.seq # "WAIT_CACHED_INS" /\ (w.x.seq = "WAIT_NEXT_INS" => ~w.offered)
  <2>1. ~LastTime(p, a, n, w.x) /\ ~OnceMore(p, a, n, w.x)
    BY <1>3 DEF LastTime, OnceMore, Handed
  <2>2. w.x.seq # "PUSH_PGC"
    BY <2>1 DEF Finished, Idle, Midway, Recounts
  <2>3. WaitCachedIns(PushPgc(WaitNextIns(w, i), d), i) = w
    BY <1>3, <2>2 DEF PushPgc, WaitNextIns, WaitCachedIns
  <2>4. Moves(p, a, n, a, n)
    BY DEF Moves
  <2>5. /\ Sound(p, w.x) /\ BufferSpent(w.x) /\ w.x.inst.at = a /\ w.target = NoTarget
        /\ InPlace(p, w.x) /\ n = Left(p, w.x) /\ (Counting(p, w.x) => w.x.repi > 0)
        /\ Idle(p, w.x) \/ Midway(p, w.x) \/ Recounts(p, w.x)
    BY <2>1 DEF Finished
  <2>6. Underway(p, a, n, i, w)
    BY <2>4, <2>5 DEF Underway
  <2> QED
    BY <2>3, <2>5, <2>6 DEF Took
<1> QED
  BY <1>1, <1>2, <1>3

-----------------------------------------------------------------------------
\* A repetition starts.
LEMMA RepetitionStarts ==
  ASSUME NEW p, NEW a, NEW n, NEW o \in BOOLEAN, NEW w \in Works({FALSE}, o),
         Sound(p, w.x), BufferSpent(w.x), InPlace(p, w.x), w.x.inst.at = a, a # NowhereYet,
         w.target = NoTarget, n = Left(p, w.x), Counting(p, w.x) => w.x.repi > 0,
         IF Repeating(p, w.x.inst) THEN w.x.repi = RepeatCount(w.x.inst.op)
         ELSE w.x.repeat_type = "MU_REPI"
  PROVE  Finished(p, a, n, StartRepeat(w, "MU_REPI")) /\ StartRepeat(w, "MU_REPI").offered = w.offered
<1> DEFINE s == [NoEntry EXCEPT !.idx = "MU_REPI"]
           none == "MU_NONE"
           j == [w.x.inst EXCEPT !.repeat = none]
           v == [w EXCEPT !.x.repeat_type = "MU_REPI", !.x.mucode_control = s,
                          !.x.seq = "REPEAT_OP", !.x.inst.repeat = none]
<1>0. w.x \in ExecStates({FALSE}) /\ w.x.inst \in InstructionRecords({FALSE})
  BY WorkFields, ExecFields
<1>1. StartRepeat(w, "MU_REPI") = v
  BY DEF StartRepeat
<1>2. s.idx = "MU_REPI"
  BY DEF NoEntry
<1> HIDE DEF s
<1>3. /\ v.target = w.target /\ v.offered = w.offered
      /\ v.x.inst = j /\ v.x.repeat_type = "MU_REPI" /\ v.x.repi = w.x.repi
      /\ v.x.pgc = w.x.pgc /\ v.x.branched = w.x.branched /\ v.x.buffer = w.x.buffer
      /\ v.x.seq = "REPEAT_OP" /\ v.x.mucode_control = s
  BY DEF Works, ExecStates
<1> HIDE DEF v
<1>4. /\ j.at = w.x.inst.at /\ j.op = w.x.inst.op /\ j.before = w.x.inst.before /\ j.after = w.x.inst.after
      /\ j.core = w.x.inst.core /\ j.illegal = w.x.inst.illegal /\ j.restart = w.x.inst.restart
      /\ j.disable_clk = w.x.inst.disable_clk /\ j.repeat = none
  BY <1>0 DEF InstructionRecords
<1> HIDE DEF j
<1>5. Repeating(p, j) = Repeating(p, w.x.inst)
  BY <1>4 DEF Repeating
<1>6. InHand(p, j)
  BY <1>4, <1>5 DEF InHand, Sound
<1>7. w.x.inst.disable_clk => FALSE
  BY DEF Sound, InHand
<1>8. Sound(p, v.x) /\ BufferSpent(v.x)
  BY <1>3, <1>4, <1>6, <1>7 DEF Sound, BufferSpent
<1>9. Counting(p, v.x) = Counting(p, w.x)
  BY <1>3, <1>5 DEF Counting
<1>10. Left(p, v.x) = n /\ InPlace(p, v.x) /\ (Counting(p, v.x) => v.x.repi > 0)
  BY <1>3, <1>4, <1>9 DEF Left, InPlace
<1>11. Recounts(p, v.x)
  BY <1>2, <1>3, <1>4, <1>5 DEF Recounts
<1> QED
  BY <1>1, <1>3, <1>4, <1>8, <1>10, <1>11 DEF Finished

\* FINAL_STEPS.
LEMMA FinalStepsStraight ==
  ASSUME NEW p, NEW a, NEW n, NEW o \in BOOLEAN, NEW w \in Works({FALSE}, o), w.x.seq = "FINAL_STEPS",
         Sound(p, w.x), BufferSpent(w.x), InPlace(p, w.x), w.x.inst.at = a, a # NowhereYet,
         w.target = NoTarget, n = Left(p, w.x), Counting(p, w.x) => w.x.repi > 0,
         Repeating(p, w.x.inst) => w.x.repi = RepeatCount(w.x.inst.op) /\ w.x.inst.repeat = "MU_REPI"
  PROVE  /\ Finished(p, a, n, FinalSteps(w)) /\ FinalSteps(w).offered = w.offered
         /\ FinalSteps(w).x.inst.disable_clk = w.x.inst.disable_clk
<1>1. CASE Repeating(p, w.x.inst) \/ w.x.repeat_type # "MU_NONE"
  <2>1. FinalSteps(w) = StartRepeat(w, "MU_REPI")
    BY <1>1, Zenon DEF FinalSteps, Sound, InHand
  <2>2. Finished(p, a, n, StartRepeat(w, "MU_REPI")) /\ StartRepeat(w, "MU_REPI").offered = w.offered
    BY <1>1, RepetitionStarts DEF Sound
  <2>3. StartRepeat(w, "MU_REPI").x.inst.disable_clk = w.x.inst.disable_clk
    <3>1. w.x.inst \in InstructionRecords({FALSE})
      BY WorkFields, ExecFields
    <3> DEFINE j == [w.x.inst EXCEPT !.repeat = "MU_NONE"]
    <3>2. StartRepeat(w, "MU_REPI").x.inst = j
      BY DEF StartRepeat, Works, ExecStates
    <3>3. j.disable_clk = w.x.inst.disable_clk
      BY <3>1 DEF InstructionRecords
    <3> QED
      BY <3>2, <3>3
  <2> QED
    BY <2>1, <2>2, <2>3
<1>2. CASE ~Repeating(p, w.x.inst) /\ w.x.repeat_type = "MU_NONE"
  <2>1. w.x.inst.repeat = "MU_NONE" /\ ~w.x.branched
    BY <1>2 DEF Sound, InHand
  <2> DEFINE stops == [w EXCEPT !.stops = TRUE]
             goes == [w EXCEPT !.x.seq = "WAIT_NEXT_INS"]
  <2>2. FinalSteps(w) = IF w.x.inst.disable_clk THEN stops ELSE goes
    BY <1>2, <2>1 DEF FinalSteps
  <2>3. stops.x = w.x /\ stops.target = w.target /\ stops.offered = w.offered
    BY DEF Works
  <2>4. /\ goes.target = w.target /\ goes.offered = w.offered
        /\ goes.x.inst = w.x.inst /\ goes.x.repeat_type = w.x.repeat_type /\ goes.x.repi = w.x.repi
        /\ goes.x.pgc = w.x.pgc /\ goes.x.branched = w.x.branched /\ goes.x.buffer = w.x.buffer
        /\ goes.x.seq = "WAIT_NEXT_INS"
    BY DEF Works, ExecStates
  <2> HIDE DEF stops, goes
  <2>5. Midway(p, w.x)
    BY <1>2 DEF Midway
  <2>6. Finished(p, a, n, stops)
    BY <2>3, <2>5 DEF Finished
  <2>7. ~w.x.inst.disable_clk => Finished(p, a, n, goes)
    <3>1. /\ Sound(p, goes.x) /\ InPlace(p, goes.x) /\ Left(p, goes.x) = n
          /\ (Counting(p, goes.x) => goes.x.repi > 0)
      BY <2>4, HandKept DEF Sound
    <3>2. BufferSpent(goes.x)
      BY <2>4 DEF BufferSpent
    <3>3. ~w.x.inst.disable_clk => Idle(p, goes.x)
      BY <1>2, <2>4 DEF Idle
    <3> QED
      BY <2>4, <3>1, <3>2, <3>3 DEF Finished
  <2> QED
    BY <2>2, <2>3, <2>4, <2>6, <2>7
<1> QED
  BY <1>1, <1>2

\* The phases that end an instruction.
LEMMA EndsStraight ==
  ASSUME NEW p, NEW a, NEW n, NEW o \in BOOLEAN, NEW w \in Works({FALSE}, o), NEW d \in FreeData,
         ResultIn(p, a, n, w), NEW v, v = FinalSteps(RepeatOpBranch(CoreOpExecuted(w), d))
  PROVE  /\ Finished(p, a, n, v) /\ v.offered = w.offered
         /\ v.x.inst.disable_clk = w.x.inst.disable_clk
<1>0. /\ Sound(p, w.x) /\ InPlace(p, w.x) /\ BufferSpent(w.x)
      /\ w.x.inst.at = a /\ w.target = NoTarget
  BY DEF ResultIn
<1>1. CASE w.x.seq \notin {"CORE_OP_EXECUTED", "REPEAT_OP_BRANCH", "FINAL_STEPS"}
  <2>1. v = w
    BY <1>1 DEF CoreOpExecuted, RepeatOpBranch, FinalSteps
  <2>2. ~Counted(p, a, n, w.x) /\ ~Operating(p, w.x)
    BY <1>1 DEF Counted, Operating
  <2> QED
    BY <1>0, <2>1, <2>2 DEF ResultIn, Finished
<1>2. CASE w.x.seq = "FINAL_STEPS"
  <2>1. v = FinalSteps(w)
    BY <1>2 DEF CoreOpExecuted, RepeatOpBranch
  <2>2. Midway(p, w.x) /\ n = Left(p, w.x) /\ (Counting(p, w.x) => w.x.repi > 0)
    BY <1>2 DEF ResultIn, Counted, Idle, Operating
  <2> QED
    BY <1>0, <1>2, <2>1, <2>2, FinalStepsStraight DEF Midway
<1>3. CASE w.x.seq = "CORE_OP_EXECUTED"
  <2>1. /\ Operating(p, w.x) /\ n = Left(p, w.x) /\ (Counting(p, w.x) => w.x.repi > 0)
        /\ Repeating(p, w.x.inst) => w.x.repi = RepeatCount(w.x.inst.op)
    BY <1>3 DEF ResultIn, Counted, Idle, Midway
  <2>2. CASE w.x.inst.after.idx = "MU_NONE"
    <3> DEFINE w1 == [w EXCEPT !.x.seq = "FINAL_STEPS"]
    <3>1. RepeatOpBranch(CoreOpExecuted(w), d) = w1
      BY <1>3, <2>2 DEF CoreOpExecuted, RepeatOpBranch, Works, ExecStates
    <3>2. w1 \in Works({FALSE}, o)
      BY WorkExecUpdates DEF SequencerPhases
    <3>3. /\ w1.target = w.target /\ w1.offered = w.offered
          /\ w1.x.inst = w.x.inst /\ w1.x.repeat_type = w.x.repeat_type /\ w1.x.repi = w.x.repi
          /\ w1.x.pgc = w.x.pgc /\ w1.x.branched = w.x.branched /\ w1.x.buffer = w.x.buffer
          /\ w1.x.seq = "FINAL_STEPS"
      BY DEF Works, ExecStates
    <3> HIDE DEF w1
    <3>4. /\ Sound(p, w1.x) /\ InPlace(p, w1.x) /\ Left(p, w1.x) = n
          /\ (Counting(p, w1.x) => w1.x.repi > 0)
      BY <1>0, <2>1, <3>3, HandKept DEF Sound
    <3>5. BufferSpent(w1.x)
      BY <1>0, <3>3 DEF BufferSpent
    <3>6. Repeating(p, w1.x.inst) => w1.x.repi = RepeatCount(w1.x.inst.op) /\ w1.x.inst.repeat = "MU_REPI"
      BY <2>1, <3>3 DEF Operating
    <3> QED
      BY <1>0, <2>1, <3>1, <3>2, <3>3, <3>4, <3>5, <3>6, FinalStepsStraight DEF Operating
  <2>3. CASE w.x.inst.after.idx # "MU_NONE"
    <3> DEFINE w1 == [w EXCEPT !.x.seq = "RUN_AFTER", !.x.mucode_control = w.x.inst.after]
    <3>1. CoreOpExecuted(w) = w1
      BY <1>3, <2>3 DEF CoreOpExecuted
    <3>2. /\ w1.target = w.target /\ w1.offered = w.offered
          /\ w1.x.inst = w.x.inst /\ w1.x.repeat_type = w.x.repeat_type /\ w1.x.repi = w.x.repi
          /\ w1.x.pgc = w.x.pgc /\ w1.x.branched = w.x.branched /\ w1.x.buffer = w.x.buffer
          /\ w1.x.seq = "RUN_AFTER" /\ w1.x.mucode_control = w.x.inst.after
      BY DEF Works, ExecStates
    <3> HIDE DEF w1
    <3>3. FinalSteps(RepeatOpBranch(w1, d)) = w1
      BY <3>2 DEF FinalSteps, RepeatOpBranch
    <3>4. /\ Sound(p, w1.x) /\ InPlace(p, w1.x) /\ Left(p, w1.x) = n
          /\ (Counting(p, w1.x) => w1.x.repi > 0)
      BY <1>0, <2>1, <3>2, HandKept DEF Sound
    <3>5. BufferSpent(w1.x)
      BY <1>0, <3>2 DEF BufferSpent
    <3>6. Midway(p, w1.x)
      BY <1>0, <2>1, <2>3, <3>2 DEF Midway, Operating, Sound, InHand
    <3> QED
      BY <1>0, <3>1, <3>2, <3>3, <3>4, <3>5, <3>6 DEF Finished
  <2> QED
    BY <2>2, <2>3
<1>4. CASE w.x.seq = "REPEAT_OP_BRANCH"
  <2>0. Counted(p, a, n, w.x)
    BY <1>4 DEF ResultIn, Idle, Midway, Operating
  <2>1. /\ a # NowhereYet /\ w.x.repeat_type = "MU_REPI" /\ w.x.inst.repeat = "MU_NONE" /\ ~w.x.branched
        /\ ~w.x.inst.disable_clk /\ w.x.repi \in Nat
    BY <1>0, <2>0, WorkFields, ExecFields DEF Counted, Sound
  <2> DEFINE w1 == [w EXCEPT !.x.repeat_type = "MU_NONE", !.x.seq = "FINAL_STEPS"]
             w2 == [w EXCEPT !.x.seq = "WAIT_CACHED_INS"]
             w3 == [w1 EXCEPT !.x.seq = "WAIT_NEXT_INS"]
  <2>2. RepeatOpBranch(CoreOpExecuted(w), d) = IF w.x.used_z THEN w1 ELSE w2
    BY <1>4, <2>1 DEF CoreOpExecuted, RepeatOpBranch
  <2>3. /\ w1.x.inst = w.x.inst /\ w1.x.repeat_type = "MU_NONE" /\ w1.x.branched = w.x.branched
        /\ w1.x.seq = "FINAL_STEPS"
    BY DEF Works, ExecStates
  <2>4. /\ w2.target = w.target /\ w2.offered = w.offered
        /\ w2.x.inst = w.x.inst /\ w2.x.repeat_type = w.x.repeat_type /\ w2.x.repi = w.x.repi
        /\ w2.x.pgc = w.x.pgc /\ w2.x.branched = w.x.branched /\ w2.x.buffer = w.x.buffer
        /\ w2.x.seq = "WAIT_CACHED_INS"
    BY DEF Works, ExecStates
  <2>5. /\ w3.target = w.target /\ w3.offered = w.offered
        /\ w3.x.inst = w.x.inst /\ w3.x.repeat_type = "MU_NONE"
        /\ w3.x.pgc = w.x.pgc /\ w3.x.branched = w.x.branched /\ w3.x.buffer = w.x.buffer
        /\ w3.x.seq = "WAIT_NEXT_INS"
    BY DEF Works, ExecStates
  <2> HIDE DEF w3
  <2>6. FinalSteps(w1) = w3
    BY <2>1, <2>3, Zenon DEF FinalSteps, w3
  <2> HIDE DEF w1, w2
  <2>7. CASE w.x.used_z
    <3>1. v = w3
      BY <2>2, <2>6, <2>7
    <3>2. Sound(p, w3.x) /\ BufferSpent(w3.x)
      BY <1>0, <2>5 DEF Sound, BufferSpent
    <3>3. w.x.repi = 0
      BY <2>0, <2>7 DEF Counted
    <3>4. CASE Repeating(p, w.x.inst)
      <4>1. n = 0 /\ AgainIn(p, a) = 0
        BY <2>0, <3>3, <3>4 DEF Counted
      <4>2. Left(p, w3.x) = 0 /\ ~Counting(p, w3.x)
        BY <2>5 DEF Left, Counting
      <4>3. InPlace(p, w3.x)
        BY <1>0, <2>5, <3>4 DEF InPlace, Counting
      <4>4. Idle(p, w3.x)
        BY <1>0, <2>1, <2>5, <4>1 DEF Idle
      <4> QED
        BY <1>0, <2>5, <3>1, <3>2, <4>1, <4>2, <4>3, <4>4 DEF Finished
    <3>5. CASE ~Repeating(p, w.x.inst)
      <4>1. n = 1
        BY <2>0, <3>3, <3>5 DEF Counted
      <4>2. LastTime(p, a, n, w3.x)
        BY <1>0, <2>1, <2>5, <3>5, <4>1 DEF LastTime
      <4> QED
        BY <1>0, <2>5, <3>1, <3>2, <4>2 DEF Finished
    <3> QED
      BY <3>4, <3>5
  <2>8. CASE ~w.x.used_z
    <3>1. v = w2
      <4>1. FinalSteps(w2) = w2
        BY <2>4 DEF FinalSteps
      <4> QED
        BY <2>2, <2>8, <4>1
    <3>2. Sound(p, w2.x) /\ BufferSpent(w2.x) /\ InPlace(p, w2.x)
      BY <1>0, <2>4, HandKept DEF Sound, BufferSpent
    <3>3. w.x.repi > 0
      BY <2>0, <2>1, <2>8 DEF Counted
    <3>4. OnceMore(p, a, n, w2.x)
      BY <2>0, <2>1, <2>4, <3>2, <3>3 DEF OnceMore, Counted
    <3> QED
      BY <1>0, <2>4, <3>1, <3>2, <3>4 DEF Finished
  <2> QED
    BY <2>7, <2>8
<1> QED
  BY <1>1, <1>2, <1>3, <1>4

-----------------------------------------------------------------------------
(***************************************************************************)
(* What a call does before the sequencer advances: collect an answer,      *)
(* latch the result, assert an access.                                     *)
(***************************************************************************)
\* The control words do the same, but for what has been done with them.
SameControl(c, k) ==
  k.dest = c.dest /\ k.src1 = c.src1 /\ (c.latch = "MEM_NO_LATCH" => k.latch = "MEM_NO_LATCH")
\* x and y are at the same point of the same instruction; REPI is left to do as often.
SamePlace(x, y) ==
  /\ y.seq = x.seq /\ y.control = x.control /\ y.mucode_control = x.mucode_control
  /\ y.repeat_type = x.repeat_type /\ y.pgc = x.pgc /\ y.branched = x.branched
  /\ y.inst.at = x.inst.at /\ y.inst.op = x.inst.op /\ y.inst.before = x.inst.before
  /\ y.inst.after = x.inst.after /\ y.inst.repeat = x.inst.repeat
  /\ y.inst.illegal = x.inst.illegal /\ y.inst.restart = x.inst.restart
  /\ y.inst.disable_clk = x.inst.disable_clk
  /\ y.buffer.branch = x.buffer.branch
  /\ SameControl(x.inst.core, y.inst.core) /\ SameControl(x.buffer.operation, y.buffer.operation)
SameDuty(x, y) ==
  /\ SamePlace(x, y) /\ y.repi = x.repi /\ y.used_z = x.used_z
  /\ y.inst.core.alu = x.inst.core.alu /\ y.buffer.operation.alu = x.buffer.operation.alu

\* What depends on the place only.
LEMMA PlaceKept ==
  ASSUME NEW p, NEW x, NEW y, SamePlace(x, y)
  PROVE  /\ Repeating(p, y.inst) = Repeating(p, x.inst) /\ Counting(p, y) = Counting(p, x)
         /\ Sound(p, x) => Sound(p, y)
         /\ InPlace(p, x) => InPlace(p, y)
         /\ Idle(p, x) => Idle(p, y)
         /\ Midway(p, x) => Midway(p, y)
         /\ Operating(p, x) => Operating(p, y)
<1>1. Repeating(p, y.inst) = Repeating(p, x.inst)
  BY DEF SamePlace, Repeating
<1>2. Counting(p, y) = Counting(p, x)
  BY <1>1 DEF SamePlace, Counting
<1>3. InHand(p, x.inst) => InHand(p, y.inst)
  BY <1>1 DEF SamePlace, SameControl, InHand
<1>4. Sound(p, x) => Sound(p, y)
  BY <1>3 DEF SamePlace, SameControl, Sound
<1>5. /\ InPlace(p, x) => InPlace(p, y)
      /\ Idle(p, x) => Idle(p, y)
      /\ Midway(p, x) => Midway(p, y)
      /\ Operating(p, x) => Operating(p, y)
  BY <1>1, <1>2 DEF SamePlace, InPlace, Idle, Midway, Operating
<1> QED
  BY <1>1, <1>2, <1>4, <1>5

\* What depends on the duty.
LEMMA DutyKept ==
  ASSUME NEW p, NEW x, NEW y, SameDuty(x, y)
  PROVE  /\ Left(p, y) = Left(p, x)
         /\ BufferSpent(x) => BufferSpent(y)
         /\ Counts(p, x) => Counts(p, y)
         /\ ExecInv(p, x) /\ (y.phase = "HALF2_MEM_ASSERT" => Control(y).latch # "MEM_NO_LATCH")
              => ExecInv(p, y)
         /\ \A a, n : Counted(p, a, n, x) => Counted(p, a, n, y)
<1>0. SamePlace(x, y)
  BY DEF SameDuty
<1>1. /\ Repeating(p, y.inst) = Repeating(p, x.inst) /\ Counting(p, y) = Counting(p, x)
      /\ Sound(p, x) => Sound(p, y)
      /\ InPlace(p, x) => InPlace(p, y)
      /\ Idle(p, x) => Idle(p, y)
      /\ Midway(p, x) => Midway(p, y)
      /\ Operating(p, x) => Operating(p, y)
  BY <1>0, PlaceKept
<1>2. Left(p, y) = Left(p, x) /\ (BufferSpent(x) => BufferSpent(y))
  BY <1>1 DEF Left, BufferSpent, SameDuty, SamePlace, SameControl
<1>3. Counts(p, x) => Counts(p, y)
  BY <1>1 DEF Counts, SameDuty, SamePlace, SameControl
<1>4. (Operating(p, x) /\ (Repeating(p, x.inst) => x.inst.core.alu))
        => (Operating(p, y) /\ (Repeating(p, y.inst) => y.inst.core.alu))
  BY <1>1 DEF SameDuty
<1>5. y.repi = x.repi
  BY DEF SameDuty
<1>6. ExecInv(p, x) /\ (y.phase = "HALF2_MEM_ASSERT" => Control(y).latch # "MEM_NO_LATCH")
        => ExecInv(p, y)
  BY <1>1, <1>2, <1>3, <1>4, <1>5 DEF ExecInv
<1>7. \A a, n : Counted(p, a, n, x) => Counted(p, a, n, y)
  BY <1>1, <1>0 DEF Counted, SameDuty, SamePlace
<1> QED
  BY <1>2, <1>3, <1>6, <1>7

\* Unchanged twice is unchanged.
LEMMA DutyChain == \A x, y, z : SameDuty(x, y) /\ SameDuty(y, z) => SameDuty(x, z)
  BY DEF SameDuty, SamePlace, SameControl

\* Changing what the next call resumes with.
LEMMA PhaseDuty ==
  ASSUME NEW x \in ExecStates({FALSE}), NEW f PROVE SameDuty(x, [x EXCEPT !.phase = f])
  BY DEF SameDuty, SamePlace, SameControl, ExecStates

\* Writing the control word.
LEMMA WithControlPlace ==
  ASSUME NEW x \in ExecStates({FALSE}), NEW c \in ControlWords, SameControl(Control(x), c)
  PROVE  /\ SamePlace(x, WithControl(x, c))
         /\ WithControl(x, c).repi = x.repi /\ WithControl(x, c).used_z = x.used_z
         /\ c.alu = Control(x).alu => SameDuty(x, WithControl(x, c))
         /\ WithControl(x, c).buffer.operation = IF x.control = "core_op" THEN x.buffer.operation ELSE c
<1>1. CASE x.control = "core_op"
  <2>1. WithControl(x, c) = [x EXCEPT !.inst.core = c] /\ Control(x) = x.inst.core
    BY <1>1 DEF WithControl, Control
  <2> QED
    BY <1>1, <2>1 DEF SameDuty, SamePlace, SameControl, ExecStates, InstructionRecords
<1>2. CASE x.control # "core_op"
  <2>1. WithControl(x, c) = [x EXCEPT !.buffer.operation = c] /\ Control(x) = x.buffer.operation
    BY <1>2 DEF WithControl, Control
  <2> QED
    BY <1>2, <2>1 DEF SameDuty, SamePlace, SameControl, ExecStates, DecodedEntries
<1> QED
  BY <1>1, <1>2

\* Asserting an access leaves what there is to do.
LEMMA AssertedDuty ==
  ASSUME NEW x \in ExecStates({FALSE}), NEW a \in DataAddrs PROVE SameDuty(x, Asserted(x, a))
<1> DEFINE c == [Control(x) EXCEPT !.latch = "MEM_NO_LATCH"]
           y == WithControl(x, c)
<1>1. c \in ControlWords /\ SameControl(Control(x), c) /\ c.alu = Control(x).alu
  <2>1. Control(x) \in ControlWords
    BY ControlType
  <2>2. c \in ControlWords
    BY <2>1, ControlUpdates DEF AddressLatches
  <2>3. \A k \in ControlWords : /\ [k EXCEPT !.latch = "MEM_NO_LATCH"].dest = k.dest
                                /\ [k EXCEPT !.latch = "MEM_NO_LATCH"].src1 = k.src1
                                /\ [k EXCEPT !.latch = "MEM_NO_LATCH"].alu = k.alu
                                /\ [k EXCEPT !.latch = "MEM_NO_LATCH"].latch = "MEM_NO_LATCH"
    BY DEF ControlWords
  <2>4. c.dest = Control(x).dest /\ c.src1 = Control(x).src1 /\ c.alu = Control(x).alu /\ c.latch = "MEM_NO_LATCH"
    BY <2>1, <2>3
  <2> HIDE DEF c
  <2> QED
    BY <2>2, <2>4 DEF SameControl
<1>2. Asserted(x, a) = [y EXCEPT !.waiting = TRUE, !.asked = a]
  BY DEF Asserted
<1> HIDE DEF c
<1>3. SameDuty(x, y) /\ y \in ExecStates({FALSE})
  BY <1>1, WithControlPlace, ControlType
<1> HIDE DEF y
<1>4. SameDuty(y, Asserted(x, a))
  BY <1>2, <1>3 DEF SameDuty, SamePlace, SameControl, ExecStates
<1> QED
  BY <1>3, <1>4, DutyChain

\* So does collecting an answer.
LEMMA LatchedDuty == ASSUME exec \in ExecStates({FALSE}) PROVE SameDuty(exec, OperandsLatched)
<1> DEFINE waiting == exec.waiting /\ ~data_valid
           asked == IF data_valid THEN 0 ELSE exec.asked
           seq == IF InvalidIndex(exec) THEN "EVAL_CONTROL" ELSE exec.seq
           ill == exec.inst.illegal \/ InvalidIndex(exec)
           x == [exec EXCEPT !.waiting = waiting, !.asked = asked, !.seq = seq, !.inst.illegal = ill]
<1>1. exec.inst.illegal \in BOOLEAN /\ ~InvalidIndex(exec)
  BY ExecFields, InstructionFields DEF InvalidIndex
<1>2. OperandsLatched = IF exec.phase = "HALF1_MEM_ASSERT" THEN exec ELSE x
  BY DEF OperandsLatched
<1>3. seq = exec.seq /\ ill = exec.inst.illegal
  BY <1>1
<1> HIDE DEF waiting, asked, seq, ill
<1>4. SameDuty(exec, x)
  BY <1>3 DEF SameDuty, SamePlace, SameControl, ExecStates, InstructionRecords
<1>5. SameDuty(exec, exec)
  BY DEF SameDuty, SamePlace, SameControl
<1> QED
  BY <1>2, <1>4, <1>5

\* A first half leaves the execute unit where it is.
LEMMA Half1Straight ==
  ASSUME NEW p, exec \in ExecStates({FALSE}), ExecInv(p, exec), ExecHalf1
  PROVE  /\ ExecInv(p, exec') /\ exec'.inst.at = exec.inst.at /\ Left(p, exec') = Left(p, exec)
         /\ exec'.inst.disable_clk = exec.inst.disable_clk
         /\ exec'.phase = "START" => exec.phase = "START"
<1>0. {"HALF1_MEM_WAIT", "HALF2_READY", "HALF1_MEM_ASSERT"} \subseteq Phases \ {"START", "HALF2_MEM_ASSERT"}
  BY DEF Phases
<1>1. OperandsLatched \in ExecStates({FALSE}) /\ SameDuty(exec, OperandsLatched)
  BY OperandsLatchedType, LatchedDuty
<1>2. CASE ExecSkipsHalf1
  BY <1>2 DEF ExecSkipsHalf1
<1>3. CASE ~ExecSkipsHalf1
  <2>1. PICK x \in ExecStates({FALSE}), f \in Phases \ {"START", "HALF2_MEM_ASSERT"} :
          SameDuty(exec, x) /\ exec' = [x EXCEPT !.phase = f]
    <3>1. SameDuty(exec, exec)
      BY DEF SameDuty, SamePlace, SameControl
    <3>2. CASE ExecWaits
      BY <1>0, <3>1, <3>2 DEF ExecWaits
    <3>3. CASE ExecLatches
      BY <1>0, <1>1, <3>3 DEF ExecLatches
    <3>4. CASE ExecHeld
      BY <1>0, <1>1, <3>4 DEF ExecHeld
    <3>5. CASE ExecAsserts
      <4>1. PICK a \in DataAddrs : exec' = [Asserted(OperandsLatched, a) EXCEPT !.phase = "HALF2_READY"]
        BY <3>5 DEF ExecAsserts
      <4>2. /\ SameDuty(exec, Asserted(OperandsLatched, a))
            /\ Asserted(OperandsLatched, a) \in ExecStates({FALSE})
        BY <1>1, AssertedDuty, AssertedType, DutyChain
      <4> QED
        BY <1>0, <4>1, <4>2
    <3> QED
      BY <1>3, <3>2, <3>3, <3>4, <3>5 DEF ExecHalf1
  <2>2. SameDuty(exec, exec') /\ exec'.phase = f
    BY <2>1, PhaseDuty, DutyChain, PhaseFacts
  <2>3. ExecInv(p, exec') /\ Left(p, exec') = Left(p, exec)
    BY <2>1, <2>2, DutyKept
  <2> QED
    BY <2>2, <2>3 DEF SameDuty, SamePlace
<1> QED
  BY <1>2, <1>3

-----------------------------------------------------------------------------
\* Latching a result that is not written to PGC: what REPI and used_z become.
LEMMA ResultLatchedPlace ==
  ASSUME NEW o \in BOOLEAN, NEW w \in Works({FALSE}, o), NEW d \in FreeData, NEW a \in Int,
         Control(w.x).alu, Control(w.x).dest # "PGC", NEW v, v = ResultLatched(w, d, a)
  PROVE  /\ SamePlace(w.x, v.x) /\ v.target = w.target /\ v.offered = w.offered
         /\ v.x.repi = IF Control(w.x).dest = "REPI" THEN RepiResult(w.x) ELSE w.x.repi
         /\ Control(w.x).dest = "REPI" => (v.x.used_z <=> RepiResult(w.x) = 0 /\ Control(w.x).src1 = "REPI")
         /\ w.x.control = "core_op" => v.x.buffer.operation = w.x.buffer.operation
         /\ w.x.control # "core_op" => ~v.x.buffer.operation.alu
<1> DEFINE c == Control(w.x)
           cc == [c EXCEPT !.alu = FALSE]
           zero == IF c.dest = "REPI" THEN RepiResult(w.x) = 0 /\ c.src1 = "REPI" ELSE d.zero
           aux == CASE c.aux = "LATCH_AUX_NONE"  -> w.x.latch_aux
                    [] c.aux = "LATCH_AUX_CLEAR" -> FALSE
                    [] c.aux = "LATCH_AUX_ZERO"  -> zero
                    [] c.aux = "LATCH_AUX_CARRY" -> d.carry
           spent == WithControl(w.x, cc)
           repi == IF c.dest = "REPI" THEN RepiResult(w.x) ELSE spent.repi
           x == [spent EXCEPT !.used_z = zero, !.latch_aux = aux, !.repi = repi]
<1>0. w.x \in ExecStates({FALSE}) /\ c \in ControlWords
  BY WorkFields, ControlType
<1>1. ResultLatched(w, d, a) = [w EXCEPT !.x = x]
  BY DEF ResultLatched
<1>2. /\ cc \in ControlWords /\ cc.dest = c.dest /\ cc.src1 = c.src1 /\ cc.latch = c.latch
      /\ cc.alu = FALSE
  <2>1. cc \in ControlWords
    BY <1>0, ControlUpdates
  <2>2. cc.dest = c.dest /\ cc.src1 = c.src1 /\ cc.latch = c.latch
    BY <1>0 DEF ControlWords
  <2>3. cc.alu = FALSE
    BY <1>0, Zenon DEF ControlWords
  <2> QED
    BY <2>1, <2>2, <2>3
<1>3. c.dest = "REPI" => (zero <=> RepiResult(w.x) = 0 /\ c.src1 = "REPI")
  OBVIOUS
<1>4. repi = IF c.dest = "REPI" THEN RepiResult(w.x) ELSE spent.repi
  OBVIOUS
<1> HIDE DEF cc, zero, aux, repi
<1>5. SameControl(c, cc)
  BY <1>2 DEF SameControl
<1>6. /\ SamePlace(w.x, spent) /\ spent.repi = w.x.repi
      /\ spent.buffer.operation = IF w.x.control = "core_op" THEN w.x.buffer.operation ELSE cc
      /\ spent \in ExecStates({FALSE})
  BY <1>0, <1>2, <1>5, WithControlPlace, ControlType
<1> HIDE DEF spent
<1>7. /\ SamePlace(spent, x) /\ x.repi = repi /\ x.used_z = zero /\ x.buffer.operation = spent.buffer.operation
  BY <1>6 DEF SamePlace, SameControl, ExecStates
<1>8. SamePlace(w.x, x)
  BY <1>6, <1>7 DEF SamePlace, SameControl
<1> HIDE DEF x
<1>9. v.x = x /\ v.target = w.target /\ v.offered = w.offered
  BY <1>1 DEF Works
<1> HIDE DEF c
<1>10. (x.used_z <=> zero)
  BY <1>7
<1>11. x.repi = IF c.dest = "REPI" THEN RepiResult(w.x) ELSE w.x.repi
  BY <1>4, <1>6, <1>7
<1>12. w.x.control # "core_op" => ~x.buffer.operation.alu
  BY <1>2, <1>6, <1>7
<1>13. w.x.control = "core_op" => x.buffer.operation = w.x.buffer.operation
  BY <1>6, <1>7
<1> QED
  BY <1>3, <1>8, <1>9, <1>10, <1>11, <1>12, <1>13 DEF c

\* The core operation of a repeat instruction, and every other result, when there is one.
LEMMA LatchesStraight ==
  ASSUME NEW p, NEW o \in BOOLEAN, NEW w \in Works({FALSE}, o), NEW d \in FreeData, NEW a \in Int,
         ExecInv(p, w.x), w.target = NoTarget
  PROVE  /\ ResultIn(p, w.x.inst.at, Left(p, w.x), ResultLatched(w, d, a))
         /\ ResultLatched(w, d, a).offered = w.offered
         /\ ResultLatched(w, d, a).x.inst.disable_clk = w.x.inst.disable_clk
         /\ ResultLatched(w, d, a).x.seq = w.x.seq
<1> DEFINE c == Control(w.x)
           v == ResultLatched(w, d, a)
           n == Left(p, w.x)
<1>0. w.x \in ExecStates({FALSE}) /\ w.x.repi \in 0..31 /\ c \in ControlWords
  BY WorkFields, ExecFields, ControlType
<1>1. Sound(p, w.x) /\ InPlace(p, w.x) /\ (Counting(p, w.x) => w.x.repi > 0)
  BY DEF ExecInv
<1>2. CASE ~c.alu
  <2>1. ResultLatched(w, d, a) = w
    BY <1>2, ResultLatchedFacts
  <2>2. ~Counts(p, w.x)
    BY <1>2 DEF Counts, Control
  <2>3. Operating(p, w.x) /\ (Repeating(p, w.x.inst) => w.x.inst.core.alu) => ~Repeating(p, w.x.inst)
    BY <1>2 DEF Operating, Control
  <2> HIDE DEF v, c
  <2> QED
    BY <1>1, <2>1, <2>2, <2>3 DEF ExecInv, ResultIn
<1>3. CASE c.alu
  <2>1. c.dest # "PGC"
    BY <1>1 DEF Control, Sound, InHand
  <2>2. /\ SamePlace(w.x, v.x) /\ v.target = w.target /\ v.offered = w.offered
        /\ v.x.repi = IF c.dest = "REPI" THEN RepiResult(w.x) ELSE w.x.repi
        /\ c.dest = "REPI" => (v.x.used_z <=> RepiResult(w.x) = 0 /\ c.src1 = "REPI")
        /\ w.x.control = "core_op" => v.x.buffer.operation = w.x.buffer.operation
        /\ w.x.control # "core_op" => ~v.x.buffer.operation.alu
    BY <1>3, <2>1, ResultLatchedPlace
  <2> HIDE DEF v
  <2>3. /\ Repeating(p, v.x.inst) = Repeating(p, w.x.inst) /\ Counting(p, v.x) = Counting(p, w.x)
        /\ Sound(p, v.x) /\ InPlace(p, v.x)
        /\ Idle(p, w.x) => Idle(p, v.x)
        /\ Midway(p, w.x) => Midway(p, v.x)
        /\ Operating(p, w.x) => Operating(p, v.x)
    BY <1>1, <2>2, PlaceKept
  <2>4. BufferSpent(v.x)
    BY <2>2 DEF BufferSpent, ExecInv, Counts
  <2>5. /\ v.x.inst.at = w.x.inst.at /\ v.x.inst.disable_clk = w.x.inst.disable_clk
        /\ v.x.inst.op = w.x.inst.op /\ v.x.seq = w.x.seq
    BY <2>2 DEF SamePlace
  <2>6. CASE Counts(p, w.x)
    <3>1. c.dest = "REPI" /\ c.src1 = "REPI"
      BY <2>6 DEF Counts, Control
    <3>2. RepiResult(w.x) = (w.x.repi + 31) % 32
      BY <3>1 DEF RepiResult
    <3>3. v.x.repi = (w.x.repi + 31) % 32 /\ (v.x.used_z <=> v.x.repi = 0)
      BY <2>2, <3>1, <3>2
    <3>4. IF Repeating(p, v.x.inst) THEN n = 0 /\ v.x.repi = AgainIn(p, w.x.inst.at) ELSE n = v.x.repi + 1
      <4>1. CASE Repeating(p, w.x.inst)
        <5>1. w.x.repi = RepeatCount(p[w.x.inst.at].op) /\ RepeatsIn(p, w.x.inst.at)
          BY <1>1, <2>6, <4>1 DEF Sound, InHand, Counts, Repeating
        <5>2. n = 0
          BY <4>1 DEF Left, Counting
        <5> QED
          BY <2>3, <3>3, <4>1, <5>1, <5>2 DEF AgainIn
      <4>2. CASE ~Repeating(p, w.x.inst)
        <5>1. Counting(p, w.x) /\ n = w.x.repi
          BY <2>6, <4>2 DEF Counting, Counts, Left
        <5>2. w.x.repi \in 1..31
          BY <1>0, <1>1, <5>1
        <5>3. \A k \in 1..31 : ((k + 31) % 32) + 1 = k
          OBVIOUS
        <5> QED
          BY <2>3, <3>3, <4>2, <5>1, <5>2, <5>3
      <4> QED
        BY <4>1, <4>2
    <3>5. Counted(p, w.x.inst.at, n, v.x)
      BY <2>2, <2>6, <3>3, <3>4 DEF Counted, Counts, SamePlace
    <3> HIDE DEF n
    <3>6. ResultIn(p, w.x.inst.at, n, v)
      BY <2>2, <2>3, <2>4, <2>5, <3>5 DEF ResultIn
    <3> QED
      BY <2>2, <2>5, <3>6 DEF v, n
  <2>7. CASE ~Counts(p, w.x)
    <3>1. BufferSpent(w.x)
      BY <2>7 DEF ExecInv
    <3>2. w.x.control # "core_op" => c.dest # "REPI"
      BY <1>3, <3>1 DEF BufferSpent, Control
    <3>3. w.x.control = "core_op" /\ ~Repeating(p, w.x.inst) => c.dest # "REPI"
      BY <1>1 DEF Sound, InHand, Control
    <3>4. ~Repeating(p, w.x.inst) => v.x.repi = w.x.repi
      BY <2>2, <3>2, <3>3
    <3>5. Left(p, v.x) = n /\ (Counting(p, v.x) => v.x.repi > 0)
      BY <1>1, <2>3, <3>4 DEF Left, Counting
    <3>6. Operating(p, w.x) /\ Repeating(p, w.x.inst) => v.x.repi = RepeatCount(v.x.inst.op)
      <4> SUFFICES ASSUME Operating(p, w.x), Repeating(p, w.x.inst) PROVE v.x.repi = RepeatCount(v.x.inst.op)
        OBVIOUS
      <4>1. c.dest = "REPI" /\ c.src1 = "ZERO"
        BY <1>1 DEF Sound, InHand, Control, Operating
      <4>2. RepiResult(w.x) = RepeatCount(w.x.inst.op)
        BY <4>1 DEF RepiResult
      <4> QED
        BY <2>2, <2>5, <4>1, <4>2
    <3>7. Idle(p, w.x) \/ Midway(p, w.x) \/ Operating(p, w.x)
      BY <2>7 DEF ExecInv
    <3> HIDE DEF n, c
    <3>8. ResultIn(p, w.x.inst.at, n, v)
      BY <2>2, <2>3, <2>4, <2>5, <3>5, <3>6, <3>7 DEF ResultIn
    <3> QED
      BY <2>2, <2>5, <3>8 DEF v, n
  <2> QED
    BY <2>6, <2>7
<1> QED
  BY <1>2, <1>3

\* What a second half has when it has latched its result.
LEMMA ResultStraight ==
  ASSUME NEW p, UnitTyped({FALSE}), ExecInv(p, exec), NEW d \in FreeData, NEW a \in Int, InSecondHalf,
         exec.phase = "START" => exec.seq = "WAIT_NEXT_INS"
  PROVE  /\ Result(d, a) \in Works({FALSE}, decoded_inst_semaph)
         /\ ResultIn(p, exec.inst.at, Left(p, exec), Result(d, a))
         /\ Result(d, a).offered = decoded_inst_semaph
         /\ Result(d, a).x.inst.disable_clk = exec.inst.disable_clk
         /\ Result(d, a).x.seq = exec.seq
<1>1. Result(d, a) \in Works({FALSE}, decoded_inst_semaph)
  BY ResultType
<1>2. /\ Started \in Works({FALSE}, decoded_inst_semaph) /\ Started.x = exec
      /\ Started.offered = decoded_inst_semaph /\ Started.target = NoTarget /\ decoded_inst_semaph \in BOOLEAN
  BY DEF Started, Works, UnitTyped
<1> HIDE DEF Started
<1>3. CASE exec.phase = "HALF2_READY"
  <2>1. Result(d, a) = ResultLatched(Started, d, a)
    BY <1>3 DEF Result
  <2>2. ExecInv(p, Started.x)
    BY <1>2
  <2>3. /\ ResultIn(p, Started.x.inst.at, Left(p, Started.x), ResultLatched(Started, d, a))
        /\ ResultLatched(Started, d, a).offered = Started.offered
        /\ ResultLatched(Started, d, a).x.inst.disable_clk = Started.x.inst.disable_clk
        /\ ResultLatched(Started, d, a).x.seq = Started.x.seq
    BY <1>2, <2>2, LatchesStraight
  <2> QED
    BY <1>1, <1>2, <2>1, <2>3
<1>4. CASE exec.phase # "HALF2_READY"
  <2>1. Result(d, a) = Started
    BY <1>4 DEF Result
  <2>2. (exec.phase = "START" /\ exec.seq = "WAIT_NEXT_INS") \/ Control(exec).latch # "MEM_NO_LATCH"
    BY <1>4 DEF InSecondHalf, ExecInv
  <2>3. ~Counts(p, exec)
    BY <2>2 DEF Counts, Control
  <2>4. Operating(p, exec) => ~Repeating(p, exec.inst)
    BY <2>2 DEF Operating, Control, ExecInv, Sound, InHand
  <2> QED
    BY <1>1, <1>2, <2>1, <2>3, <2>4 DEF ResultIn, ExecInv
<1> QED
  BY <1>3, <1>4

-----------------------------------------------------------------------------
\* A call that advances the sequencer.
LEMMA AdvancedStraight ==
  ASSUME NEW p \in Programs, RunsStraight(p), NEW a, NEW n, NEW i \in InstructionRecords({FALSE}),
         NEW o \in BOOLEAN, NEW w \in Works({FALSE}, o), NEW d \in FreeData, NEW b \in Int,
         ResultIn(p, a, n, w), ~w.x.inst.disable_clk => Handed(p, i, w.offered, a, n),
         NEW v, v = Advanced(w, i, d, b)
  PROVE  Underway(p, a, n, i, v) /\ ExecInv(p, v.x) /\ v.x.phase = "HALF1_READY"
<1> DEFINE finished == FinalSteps(RepeatOpBranch(CoreOpExecuted(w), d))
           taken == WaitCachedIns(PushPgc(WaitNextIns(finished, i), d), i)
           evaluated == CoreOp(EvalControl(taken, b))
           loaded == RepeatOp(RunAfter(RunBefore(evaluated, d), d), d)
           ready == [loaded EXCEPT !.x.phase = "HALF1_READY"]
<1>1. /\ finished \in Works({FALSE}, o) /\ Finished(p, a, n, finished)
      /\ finished.offered = w.offered /\ finished.x.inst.disable_clk = w.x.inst.disable_clk
  <2>1. finished \in Works({FALSE}, o)
    BY EndingTypes
  <2> QED
    BY <2>1, EndsStraight
<1> HIDE DEF finished
<1>2. taken \in Works({FALSE}, o) /\ Took(p, a, n, i, taken)
  <2>1. taken \in Works({FALSE}, o)
    BY <1>1, TakingTypes
  <2> QED
    BY <1>1, <2>1, TakesStraight
<1> HIDE DEF taken
<1>3. evaluated \in Works({FALSE}, o) /\ SetUp(p, a, n, i, evaluated)
  <2>1. evaluated \in Works({FALSE}, o)
    BY <1>2, EvaluatingTypes
  <2> QED
    BY <1>2, <2>1, EvaluatesStraight
<1> HIDE DEF evaluated
<1>4. loaded \in Works({FALSE}, o) /\ LoadedIn(p, a, n, i, loaded)
  <2>1. loaded \in Works({FALSE}, o)
    BY <1>3, LoadingTypes
  <2> QED
    BY <1>3, <2>1, LoadsStraight
<1>5. v = ready
  BY DEF Advanced, loaded, evaluated, taken, finished
<1> HIDE DEF loaded
<1>6. /\ ready.x = [loaded.x EXCEPT !.phase = "HALF1_READY"] /\ loaded.x \in ExecStates({FALSE})
      /\ ready.target = loaded.target /\ ready.offered = loaded.offered
  BY <1>4, WorkFields DEF Works
<1> HIDE DEF ready
<1>7. /\ ready.x.inst = loaded.x.inst /\ ready.x.repeat_type = loaded.x.repeat_type
      /\ ready.x.repi = loaded.x.repi /\ ready.x.pgc = loaded.x.pgc
      /\ ready.x.branched = loaded.x.branched /\ ready.x.buffer = loaded.x.buffer
      /\ ready.x.phase = "HALF1_READY"
  BY <1>6 DEF ExecStates
<1>8. SameDuty(loaded.x, ready.x)
  BY <1>6, PhaseDuty
<1>9. Underway(p, a, n, i, loaded)
  BY <1>4 DEF LoadedIn
<1>10. /\ Sound(p, loaded.x) /\ InPlace(p, loaded.x) /\ (Counting(p, loaded.x) => loaded.x.repi > 0)
  BY <1>9 DEF Underway
<1>11. Underway(p, a, n, i, ready)
  <2>1. ~loaded.x.buffer.branch /\ loaded.x.buffer.operation.dest # "PGC"
    BY <1>10 DEF Sound
  <2> QED
    BY <1>6, <1>7, <1>9, <2>1, UnderwayKept
<1>12. ExecInv(p, ready.x)
  <2>1. /\ BufferSpent(loaded.x) => BufferSpent(ready.x)
        /\ Counts(p, loaded.x) => Counts(p, ready.x)
    BY <1>8, DutyKept
  <2>2. /\ Sound(p, ready.x) /\ InPlace(p, ready.x) /\ (Counting(p, ready.x) => ready.x.repi > 0)
    BY <1>11 DEF Underway
  <2>3. /\ Repeating(p, ready.x.inst) = Repeating(p, loaded.x.inst)
        /\ Idle(p, loaded.x) => Idle(p, ready.x)
        /\ Midway(p, loaded.x) => Midway(p, ready.x)
        /\ Operating(p, loaded.x) => Operating(p, ready.x)
    BY <1>8, PlaceKept DEF SameDuty
  <2> QED
    BY <1>4, <1>7, <2>1, <2>2, <2>3 DEF LoadedIn, ExecInv
<1> QED
  BY <1>5, <1>7, <1>11, <1>12

\* A second half executes the instruction it is at, goes on to the one it is handed, or
\* executes it once more.
LEMMA Half2Straight ==
  ASSUME NEW p \in Programs, RunsStraight(p), NEW i \in InstructionRecords({FALSE}),
         UnitTyped({FALSE}), ExecInv(p, exec), exec.phase = "START" => exec.seq = "WAIT_NEXT_INS",
         ~exec.inst.disable_clk => Handed(p, i, decoded_inst_semaph, exec.inst.at, Left(p, exec)),
         InSecondHalf, ExecHalf2(i)
  PROVE  /\ ExecInv(p, exec') /\ exec'.phase # "START"
         /\ Moves(p, exec.inst.at, Left(p, exec), exec'.inst.at, Left(p, exec'))
         /\ ~exec'.inst.disable_clk => Handed(p, i, decoded_inst_semaph', exec'.inst.at, Left(p, exec'))
         /\ ~execute_branch => ~execute_branch'
         /\ UNCHANGED UnwrittenByExecute
<1> DEFINE a == exec.inst.at
           n == Left(p, exec)
<1>1. PICK d \in RelevantData, b \in PgcResults(exec) \cup (IF i.restart THEN i.targets ELSE {}) :
        ExecAdvances(i, d, b) \/ ExecAccesses(i, d, b) \/ ExecBlocked(d, b)
  BY DEF ExecHalf2, ExecSkipsHalf2
<1>2. d \in FreeData /\ b \in Int /\ decoded_inst_semaph \in BOOLEAN
  BY PgcResultsType, InstructionFields DEF RelevantData, UnitTyped
<1> DEFINE r == Result(d, b)
<1>3. /\ r \in Works({FALSE}, decoded_inst_semaph) /\ ResultIn(p, a, n, r)
      /\ r.offered = decoded_inst_semaph /\ r.x.inst.disable_clk = exec.inst.disable_clk
      /\ r.x.seq = exec.seq
  BY <1>2, ResultStraight
<1>4. r.x \in ExecStates({FALSE})
  BY <1>2, <1>3, WorkFields
<1>5. ~exec.inst.disable_clk => Handed(p, i, decoded_inst_semaph, a, n)
  OBVIOUS
<1> HIDE DEF a, n
<1>6. ASSUME NEW w \in Works({FALSE}, decoded_inst_semaph), ResultIn(p, a, n, w),
             w.offered = decoded_inst_semaph, w.x.inst.disable_clk = exec.inst.disable_clk,
             Completes(w, i, d, b)
      PROVE  /\ ExecInv(p, exec') /\ exec'.phase # "START"
             /\ Moves(p, a, n, exec'.inst.at, Left(p, exec'))
             /\ ~exec'.inst.disable_clk => Handed(p, i, decoded_inst_semaph', exec'.inst.at, Left(p, exec'))
             /\ ~execute_branch => ~execute_branch'
             /\ UNCHANGED UnwrittenByExecute
  <2> DEFINE v == Advanced(w, i, d, b)
  <2>1. Underway(p, a, n, i, v) /\ ExecInv(p, v.x) /\ v.x.phase = "HALF1_READY"
    BY <1>2, <1>5, <1>6, AdvancedStraight
  <2>2. Effects(v) /\ UNCHANGED UnwrittenByExecute
    BY <1>6 DEF Completes
  <2> HIDE DEF v
  <2>3. exec' = v.x /\ decoded_inst_semaph' = v.offered /\ execute_branch' = (execute_branch \/ v.target # NoTarget)
    BY <2>2 DEF Effects
  <2> QED
    BY <2>1, <2>2, <2>3 DEF Underway
<1>7. CASE ExecAdvances(i, d, b)
  BY <1>3, <1>6, <1>7 DEF ExecAdvances, a, n
<1>8. CASE ExecAccesses(i, d, b)
  <2>1. PICK m \in DataAddrs : Completes([Result(d, b) EXCEPT !.x = Asserted(@, m)], i, d, b)
    BY <1>8 DEF ExecAccesses
  <2> DEFINE x == Asserted(r.x, m)
             w == [r EXCEPT !.x = x]
  <2>2. x \in ExecStates({FALSE}) /\ SameDuty(r.x, x)
    BY <1>4, AssertedType, AssertedDuty
  <2> HIDE DEF x
  <2>3. /\ w \in Works({FALSE}, decoded_inst_semaph) /\ w.x = x
        /\ w.offered = r.offered /\ w.target = r.target
    BY <1>2, <1>3, <2>2, WorkUpdates DEF Works
  <2>4. Completes(w, i, d, b)
    BY <2>1 DEF x
  <2> HIDE DEF w, r
  <2>5. SamePlace(r.x, x) /\ x.repi = r.x.repi
    BY <2>2 DEF SameDuty
  <2>6. /\ Left(p, x) = Left(p, r.x) /\ (BufferSpent(r.x) => BufferSpent(x))
        /\ (Counted(p, a, n, r.x) => Counted(p, a, n, x))
    BY <2>2, DutyKept
  <2>7. /\ Repeating(p, x.inst) = Repeating(p, r.x.inst) /\ Counting(p, x) = Counting(p, r.x)
        /\ Sound(p, r.x) => Sound(p, x)
        /\ InPlace(p, r.x) => InPlace(p, x)
        /\ Idle(p, r.x) => Idle(p, x)
        /\ Midway(p, r.x) => Midway(p, x)
        /\ Operating(p, r.x) => Operating(p, x)
    BY <2>5, PlaceKept
  <2>8. /\ x.inst.at = r.x.inst.at /\ x.inst.op = r.x.inst.op
        /\ x.inst.disable_clk = r.x.inst.disable_clk
    BY <2>5 DEF SamePlace
  <2>9. ResultIn(p, a, n, w)
    BY <1>3, <2>3, <2>5, <2>6, <2>7, <2>8 DEF ResultIn
  <2>10. w.offered = decoded_inst_semaph /\ w.x.inst.disable_clk = exec.inst.disable_clk
    BY <1>3, <2>3, <2>8
  <2> QED
    BY <1>6, <2>3, <2>4, <2>9, <2>10 DEF a, n
<1>9. CASE ExecBlocked(d, b)
  <2> DEFINE x == [r.x EXCEPT !.phase = "HALF2_MEM_ASSERT"]
  <2>1. /\ exec' = x /\ decoded_inst_semaph' = decoded_inst_semaph
        /\ execute_branch' = (execute_branch \/ r.target # NoTarget)
        /\ UNCHANGED UnwrittenByExecute
    BY <1>3, <1>9 DEF ExecBlocked, Effects, Works
  <2>2. Control(exec).latch # "MEM_NO_LATCH"
    BY <1>9 DEF ExecBlocked, AccessesInHalf
  <2>3. Control(r.x).latch # "MEM_NO_LATCH"
    BY <1>2, <2>2, ResultFacts
  <2>4. ~Counts(p, exec)
    BY <2>2 DEF Counts, Control
  <2>5. ~Counted(p, a, n, r.x)
    BY <1>3, <2>4 DEF ExecInv, Counted, Idle, Midway, Operating
  <2>6. Operating(p, r.x) => ~Repeating(p, r.x.inst)
    BY <1>3, <2>3 DEF ResultIn, Operating, Control, Sound, InHand
  <2>7. "HALF2_MEM_ASSERT" \in Phases
    BY DEF Phases
  <2>8. SameDuty(r.x, x) /\ x.phase = "HALF2_MEM_ASSERT" /\ Control(x) = Control(r.x)
    BY <1>4, <2>7, PhaseDuty, PhaseFacts
  <2> HIDE DEF x, r
  <2>9. ExecInv(p, [r.x EXCEPT !.phase = "HALF1_READY"]) /\ SameDuty([r.x EXCEPT !.phase = "HALF1_READY"], x)
    <3> DEFINE y == [r.x EXCEPT !.phase = "HALF1_READY"]
    <3>1. "HALF1_READY" \in Phases
      BY DEF Phases
    <3>2. SameDuty(r.x, y) /\ y.phase = "HALF1_READY"
      BY <1>4, <3>1, PhaseDuty, PhaseFacts
    <3> HIDE DEF y
    <3>3. /\ Left(p, y) = Left(p, r.x) /\ (BufferSpent(r.x) => BufferSpent(y))
      BY <3>2, DutyKept
    <3>4. /\ Repeating(p, y.inst) = Repeating(p, r.x.inst) /\ Counting(p, y) = Counting(p, r.x)
          /\ Sound(p, r.x) => Sound(p, y)
          /\ InPlace(p, r.x) => InPlace(p, y)
          /\ Idle(p, r.x) => Idle(p, y)
          /\ Midway(p, r.x) => Midway(p, y)
          /\ Operating(p, r.x) => Operating(p, y)
          /\ y.repi = r.x.repi
      BY <3>2, PlaceKept DEF SameDuty
    <3>5. ExecInv(p, y)
      BY <1>3, <2>5, <2>6, <3>2, <3>3, <3>4 DEF ResultIn, ExecInv
    <3>6. SameDuty(y, r.x)
      BY <1>4 DEF y, SameDuty, SamePlace, SameControl, ExecStates
    <3> QED
      BY <2>8, <3>5, <3>6, DutyChain DEF y
  <2>10. ExecInv(p, x)
    BY <2>3, <2>8, <2>9, DutyKept
  <2>11. x.inst.at = a /\ Left(p, x) = n /\ x.inst.disable_clk = exec.inst.disable_clk
    <3>1. Left(p, x) = Left(p, r.x)
      BY <2>8, DutyKept
    <3> QED
      BY <1>3, <2>5, <2>8, <3>1 DEF ResultIn, SameDuty, SamePlace
  <2>12. r.target = NoTarget
    BY <1>3 DEF ResultIn
  <2>13. Moves(p, a, n, x.inst.at, Left(p, x))
    BY <2>11 DEF Moves
  <2> QED
    BY <1>5, <2>1, <2>8, <2>10, <2>11, <2>12, <2>13 DEF a, n
<1> QED
  BY <1>1, <1>6, <1>7, <1>8, <1>9 DEF a, n

-----------------------------------------------------------------------------
(***************************************************************************)
(* Addresses of words that follow each other in memory.                    *)
(***************************************************************************)
\* The address n words after a.
Advance(a, n) == (a + 2 * n) % AddrSpace

\* A number is divided in one way.
LEMMA OneRemainder ==
  ASSUME NEW k \in Int, NEW b \in Int, 0 <= b, b < AddrSpace,
         NEW m \in Int, NEW c \in Int, 0 <= c, c < AddrSpace, AddrSpace * k + b = AddrSpace * m + c
  PROVE  b = c
<1>0. AddrSpace \in Nat /\ AddrSpace > 0
  BY AddrAssumption
<1>1. ASSUME NEW i \in Int, NEW j \in Int, i < j PROVE AddrSpace * j >= AddrSpace * i + AddrSpace
  <2>1. j - i - 1 \in Nat
    BY <1>1
  <2>2. AddrSpace * (j - i - 1) >= 0
    BY <1>0, <2>1
  <2>3. AddrSpace * (j - i - 1) = AddrSpace * j - AddrSpace * i - AddrSpace
    BY <1>0
  <2> QED
    BY <1>0, <2>2, <2>3
<1>2. ~(k < m)
  <2> SUFFICES ASSUME k < m PROVE FALSE
    OBVIOUS
  <2>1. AddrSpace * m >= AddrSpace * k + AddrSpace
    BY <1>1
  <2>2. AddrSpace * m \in Int /\ AddrSpace * k \in Int
    BY <1>0
  <2> QED
    BY <1>0, <2>1, <2>2
<1>3. ~(m < k)
  <2> SUFFICES ASSUME m < k PROVE FALSE
    OBVIOUS
  <2>1. AddrSpace * k >= AddrSpace * m + AddrSpace
    BY <1>1
  <2>2. AddrSpace * m \in Int /\ AddrSpace * k \in Int
    BY <1>0
  <2> QED
    BY <1>0, <2>1, <2>2
<1>4. k = m
  BY <1>2, <1>3
<1>5. AddrSpace * k \in Int
  BY <1>0
<1> QED
  BY <1>4, <1>5

\* What the remainder of an address and that of the next one have to do with each other.
LEMMA RemainderGoesOn ==
  ASSUME NEW x \in Nat, x % 2 = 0
  PROVE  /\ x % AddrSpace \in 0..(AddrSpace - 1)
         /\ (x + 2) % AddrSpace = IF (x % AddrSpace) + 2 < AddrSpace THEN (x % AddrSpace) + 2
                                  ELSE (x % AddrSpace) + 2 - AddrSpace
<1> DEFINE q == x \div AddrSpace
           r == x % AddrSpace
           z == (x + 2) \div AddrSpace
           s == (x + 2) % AddrSpace
<1>0. AddrSpace \in Nat /\ AddrSpace > 0 /\ AddrSpace % 2 = 0 /\ AddrSpace >= 2
  BY AddrAssumption
<1>1. q \in Int /\ r \in 0..(AddrSpace - 1) /\ x = AddrSpace * q + r
  BY <1>0
<1>2. z \in Int /\ s \in 0..(AddrSpace - 1) /\ x + 2 = AddrSpace * z + s
  BY <1>0
<1> HIDE DEF q, r, z, s
<1>3. AddrSpace * z \in Int /\ AddrSpace * q \in Int
  BY <1>0, <1>1, <1>2
<1>4. CASE r + 2 < AddrSpace
  <2> DEFINE t == r + 2
  <2>1. t \in Int /\ 0 <= t /\ t < AddrSpace /\ AddrSpace * z + s = AddrSpace * q + t
    BY <1>0, <1>1, <1>2, <1>3, <1>4
  <2>3. s \in Int /\ 0 <= s /\ s < AddrSpace
    BY <1>0, <1>2
  <2> HIDE DEF t
  <2>2. s = t
    BY <1>1, <1>2, <2>1, <2>3, OneRemainder, Zenon
  <2> QED
    BY <1>1, <1>4, <2>2 DEF t, r, s
<1>5. CASE r + 2 >= AddrSpace
  <2> DEFINE t == r + 2 - AddrSpace
             y == q + 1
  <2>1. AddrSpace * y = AddrSpace * q + AddrSpace
    BY <1>0, <1>1
  <2>2. y \in Int /\ t \in Int /\ 0 <= t /\ t < AddrSpace
    BY <1>0, <1>1, <1>5
  <2>3. AddrSpace * z + s = AddrSpace * y + t
    BY <1>0, <1>1, <1>2, <1>3, <2>1
  <2>5. s \in Int /\ 0 <= s /\ s < AddrSpace
    BY <1>0, <1>2
  <2> HIDE DEF t, y
  <2>4. s = t
    BY <1>2, <2>2, <2>3, <2>5, OneRemainder, Zenon
  <2> QED
    BY <1>0, <1>1, <1>5, <2>4 DEF t, r, s
<1> QED
  BY <1>0, <1>1, <1>4, <1>5

\* The word after a word, and the words after it.
LEMMA NextWordOf ==
  ASSUME NEW a \in WordAddrs
  PROVE  /\ NextWord(a) = IF a + 2 = AddrSpace THEN 0 ELSE a + 2
         /\ Advance(a, 1) = NextWord(a)
<1>0. a \in Nat /\ a % 2 = 0 /\ a < AddrSpace /\ AddrSpace % 2 = 0 /\ AddrSpace \in Nat
  BY AddrAssumption DEF WordAddrs, Addr
<1>1. a + 2 <= AddrSpace
  BY <1>0
<1>2. a % AddrSpace = a
  BY <1>0
<1>3. (a + 2) % AddrSpace = IF a + 2 = AddrSpace THEN 0 ELSE a + 2
  BY <1>0, <1>1, <1>2, RemainderGoesOn
<1>4. ((a + 2) % AddrSpace) % 2 = 0 /\ (a + 2) % AddrSpace \in Nat
  BY <1>0, <1>3
<1>5. \A r \in Nat : r % 2 = 0 => 2 * (r \div 2) = r
  OBVIOUS
<1> QED
  BY <1>0, <1>3, <1>4, <1>5 DEF NextWord, WordAlign, Advance

\* Words with the same successor are the same.
LEMMA NextWordInjective ==
  ASSUME NEW a \in WordAddrs, NEW b \in WordAddrs, NextWord(a) = NextWord(b) PROVE a = b
<1>1. a \in Nat /\ b \in Nat /\ AddrSpace \in Nat
  BY AddrAssumption DEF WordAddrs, Addr
<1> QED
  BY <1>1, NextWordOf

\* One word further.
LEMMA AdvanceGoesOn ==
  ASSUME NEW a \in WordAddrs, NEW n \in Nat, Advance(a, n) \in WordAddrs
  PROVE  Advance(a, n + 1) = NextWord(Advance(a, n))
<1> DEFINE x == a + 2 * n
<1>0. a \in Nat /\ a % 2 = 0 /\ AddrSpace \in Nat
  BY AddrAssumption DEF WordAddrs, Addr
<1>1. x \in Nat /\ x % 2 = 0
  BY <1>0
<1>2. a + 2 * (n + 1) = x + 2
  BY <1>0
<1>3. Advance(a, n) = x % AddrSpace /\ Advance(a, n + 1) = (x + 2) % AddrSpace
  BY <1>2 DEF Advance
<1> HIDE DEF x
<1>4. (x % AddrSpace) + 2 <= AddrSpace
  <2> DEFINE r == x % AddrSpace
  <2>1. r \in WordAddrs
    BY <1>3
  <2> HIDE DEF r
  <2>2. r \in Nat /\ r % 2 = 0 /\ r < AddrSpace /\ AddrSpace % 2 = 0
    BY <2>1, AddrAssumption DEF WordAddrs, Addr
  <2>3. r + 2 <= AddrSpace
    BY <1>0, <2>2
  <2> QED
    BY <2>3 DEF r
<1> DEFINE r == x % AddrSpace
           s == (x + 2) % AddrSpace
<1>5. /\ r \in 0..(AddrSpace - 1)
      /\ s = IF r + 2 < AddrSpace THEN r + 2 ELSE r + 2 - AddrSpace
  BY <1>1, RemainderGoesOn, Zenon
<1>6. NextWord(Advance(a, n)) = IF Advance(a, n) + 2 = AddrSpace THEN 0 ELSE Advance(a, n) + 2
  BY NextWordOf, Zenon
<1>7. Advance(a, n) = r /\ Advance(a, n + 1) = s /\ r + 2 <= AddrSpace
  BY <1>3, <1>4
<1> HIDE DEF r, s
<1>8. s = IF r + 2 = AddrSpace THEN 0 ELSE r + 2
  BY <1>0, <1>5, <1>7
<1> QED
  BY <1>6, <1>7, <1>8, Zenon

\* The address after all words of an instruction.
LEMMA FollowerAdvances ==
  ASSUME NEW p, NEW a PROVE FollowerIn(p, a) = Advance(a, 1 + p[a].decoded.words)
  BY DEF FollowerIn, LengthIn, Advance
================================================================================
