-------------------------------- MODULE MCPilot --------------------------------
(***************************************************************************)
(* Programs for model checking Pilot, and what a programmer relies on.     *)
(***************************************************************************)
EXTENDS PilotProgram

Word(op) == ProgramWord(op, 0, {})

\* ADQ (r)+ in 8 bits, LD (r), (r)+ in 24 bits, REPI twice, and LD.P, which
\* has an operand word.
StraightWords == {96, 37024, 65025, 49152}

StraightPrograms == {p \in [WordAddrs -> {Word(op) : op \in StraightWords}] : RunsStraight(p)}

\* JP to 0 with an operand word; NOPs.
JumpingWords == {63488, 0}
JumpingPrograms ==
  {[a \in WordAddrs |-> IF a = 0 THEN [Word(63488) EXCEPT !.targets = {1}] ELSE Word(0)]}

KindsOf == {KindOf(Word(op)) : op \in StraightWords \cup JumpingWords}
-----------------------------------------------------------------------------
\* Every instruction ends, however the fetch unit and it compete for memory.
InstructionsEnd ==
  \A a \in WordAddrs : exec.inst.at = a ~> exec.inst.at # a

\* "If branch cannot be predicted: [...] Wait for updated PC value from this
\* instructions's execution stage" (cpu_decode.c:60): what is executed after such
\* a branch is what it branches to.
AwaitsBranch ==
  [][exec'.inst.at # exec.inst.at /\ exec.inst.targets # {}
       => exec'.inst.at \in {PgcAligned(t) : t \in exec.inst.targets}]_vars
================================================================================
