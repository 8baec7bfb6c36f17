----------------------------- MODULE Microprogram -----------------------------
(***************************************************************************)
(* What the sequencer of the execute unit promises (types.h:350-358), with *)
(* no cycles, halves, bus or pipeline: the routine before the core         *)
(* operation, the core operation once, the routine after it, and for the   *)
(* repeat instructions the repeat routine, each entry followed by one of   *)
(* its successors.  RST pushes PGC instead; a trap abandons the            *)
(* instruction.                                                            *)
(***************************************************************************)
CONSTANTS
  NoEntry,        \* what follows the last entry of a routine
  Following(_),   \* the entries that may follow an entry, NoEntry among them
  PushEntries,           \* the first entries of the routine that pushes PGC
  RepeatEntry(_)  \* the entry of a repeat routine

VARIABLES
  inst,       \* before, after, repeat, restart, illegal of the instruction in progress
  stage,      \* which of its parts is running,
  at,         \* the entry of the routine it has reached,
  repeating   \* and the repeat routine that is in force

NoRepeat == "MU_NONE"

Init ==
  /\ inst.repeat = NoRepeat /\ repeating = NoRepeat
  /\ stage = "DONE" /\ at = NoEntry

-----------------------------------------------------------------------------
Enter(s, e) == stage' = s /\ at' = e
MayLeave(s) == stage = s /\ NoEntry \in Following(at)

\* The next entry of the routine that is running.
Advance ==
  /\ at # NoEntry
  /\ at' \in Following(at) \ {NoEntry}
  /\ UNCHANGED <<inst, stage, repeating>>

CoreOp ==
  /\ MayLeave("RUN_BEFORE")
  /\ Enter("CORE_OP", NoEntry)
  /\ UNCHANGED <<inst, repeating>>

RunAfter ==
  /\ stage = "CORE_OP" /\ inst.after # NoEntry
  /\ Enter("RUN_AFTER", inst.after)
  /\ UNCHANGED <<inst, repeating>>

PushPgc ==
  /\ stage = "RESTART"
  /\ \E e \in PushEntries : Enter("PUSH_PGC", e)
  /\ UNCHANGED <<inst, repeating>>

-----------------------------------------------------------------------------
InstructionEnds ==
  \/ stage = "CORE_OP" /\ inst.after = NoEntry
  \/ MayLeave("RUN_AFTER")

\* A repeat instruction, or the instruction it repeats, has ended.
Repeat ==
  /\ InstructionEnds
  /\ repeating' = IF inst.repeat # NoRepeat THEN inst.repeat ELSE repeating
  /\ repeating' # NoRepeat
  /\ inst' = [inst EXCEPT !.repeat = NoRepeat]
  /\ Enter("REPEAT_OP", RepeatEntry(repeating'))

Idle ==
  \/ InstructionEnds /\ inst.repeat = NoRepeat /\ repeating = NoRepeat
  \/ MayLeave("PUSH_PGC")
  \/ MayLeave("REPEAT_OP")
  \/ stage = "DONE"

\* The first step of an instruction; what was repeated may have been repeated for
\* the last time.
Begin ==
  /\ Idle
  /\ repeating' \in {repeating, NoRepeat}
  /\ \/ inst'.illegal /\ Enter("DONE", NoEntry)
     \/ ~inst'.illegal /\ inst'.restart /\ Enter("RESTART", NoEntry)
     \/ /\ ~inst'.illegal /\ ~inst'.restart
        /\ inst'.before = NoEntry /\ Enter("CORE_OP", NoEntry)
     \/ /\ ~inst'.illegal /\ ~inst'.restart
        /\ inst'.before # NoEntry /\ Enter("RUN_BEFORE", inst'.before)

\* A trap has interrupted REPR: the next instruction is dropped.
Drop ==
  /\ Idle
  /\ repeating # NoRepeat /\ repeating' = NoRepeat
  /\ Enter("DONE", NoEntry)

StopRepeating ==
  /\ Idle
  /\ repeating' = NoRepeat
  /\ UNCHANGED <<inst, stage, at>>

\* An operand turns out to be invalid, and is trapped.
Invalidate == inst' = [inst EXCEPT !.illegal = TRUE] /\ UNCHANGED <<stage, at, repeating>>
Trap == inst.illegal /\ Enter("DONE", NoEntry) /\ UNCHANGED <<inst, repeating>>

Next ==
  \/ Advance \/ CoreOp \/ RunAfter \/ PushPgc \/ Repeat
  \/ Begin \/ Drop \/ StopRepeating \/ Invalidate \/ Trap
Spec == Init /\ [][Next]_<<inst, stage, at, repeating>>
===============================================================================
