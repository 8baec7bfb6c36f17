------------------------------ MODULE PilotProgram ------------------------------
(***************************************************************************)
(* What the processor makes of a program without branches: the mapping to  *)
(* the instruction set, and the programs it is meant for.                  *)
(***************************************************************************)
EXTENDS Pilot

\* Addresses are by instruction; every word could be the opcode of one.
LengthIn(p, a) == 2 * (1 + p[a].decoded.words)
FollowerIn(p, a) == (a + LengthIn(p, a)) % AddrSpace
RepeatsIn(p, a) == p[a].decoded.repeat = "MU_REPI"

\* How often the instruction after the one at a is executed again.
AgainIn(p, a) == IF RepeatsIn(p, a) THEN (RepeatCount(p[a].op) + 31) % 32 ELSE 0

Meaning == INSTANCE Isa WITH
  First <- StartAddrs,
  Nowhere <- NowhereYet,
  follower <- [a \in WordAddrs |-> FollowerIn(program, a)],
  again <- [a \in WordAddrs |-> AgainIn(program, a)],
  at <- exec.inst.at,
  times <- IF exec.repeat_type = "MU_REPI" /\ ~RepeatsIn(program, exec.inst.at)
           THEN exec.repi ELSE 0

\* The pipeline executes the instructions of the program and no others, in order, and
\* a repeated one as often as REPI says.
ExecutesTheProgram == Meaning!Spec

\* core.pgc is the address of the word after the opcode, which PGC-relative operands,
\* branches and pushes use.  (A repeated instruction runs with the one of REPI.)
PgcOfInstruction ==
  exec.inst.at # NowhereYet /\ exec.repeat_type = "MU_NONE" => exec.pgc = NextWord(exec.inst.at)

-----------------------------------------------------------------------------
\* The routines of memory operands.  They write neither PGC nor REPI.
OperandEntries ==
  {"MU_IND_IMM", "MU_IND_IMM_RM", "MU_IND_REG", "MU_IND_REG_POST_AUTO", "MU_IND_REG_AUTO",
   "MU_IND_REG_WITH_IMM", "MU_IND_IMM0", "MU_IND_IMM_WITH_BITS", "MU_IND_REG_WITH_BITS",
   "MU_IND_PGC_WITH_IMM", "MU_IND_PGC_WITH_IMM_RM", "MU_IND_MAR_AUTO", "MU_IND_MAR_POST_AUTO",
   "MU_POST_AUTOIDX", "MU_NONE"}

\* Moves, arithmetic, LEA, bit operations, HALT, and REPI: what is decoded when
\* decode_inst_ has neither branched nor multiplied nor divided.
StraightLine(d) ==
  /\ ~d.illegal /\ ~d.restart /\ d.predict = "none"
  /\ {d.before.idx, d.after.idx} \subseteq OperandEntries
  /\ \/ d.repeat = "MU_NONE" /\ d.core.dest \notin {"PGC", "REPI"}
     \/ d = RepeatImmediate

\* code is where the instructions of p are; the other words are operands and data.
\* It ends with HALT, or runs around memory.  REPI repeats neither itself nor HALT.
StraightCode(p, code) ==
  /\ StartAddrs \subseteq code
  /\ \A a \in code :
       /\ StraightLine(p[a].decoded)
       /\ p[a].decoded.disable_clk \/ FollowerIn(p, a) \in code
       /\ RepeatsIn(p, a) =>
            ~RepeatsIn(p, FollowerIn(p, a)) /\ ~p[FollowerIn(p, a)].decoded.disable_clk

RunsStraight(p) == \E code \in SUBSET WordAddrs : StraightCode(p, code)
================================================================================
