----------------------------- MODULE ExecutePort -----------------------------
(***************************************************************************)
(* What the execute unit of cpu_execute.c may do to the rest of the        *)
(* machine in one call of pilot_execute_half1 or pilot_execute_half2,      *)
(* whatever instruction it is executing: assert a memory access, take or   *)
(* drop the decoded instruction, raise execute_branch, announce a memory   *)
(* access of the next cycle, stop the clock.                               *)
(*                                                                         *)
(* This is a specification of the port, not of the sequencer behind it: a  *)
(* unit that has an instruction may have any combination of these effects, *)
(* so what holds of the other units next to it holds for every program.    *)
(***************************************************************************)
EXTENDS Decode

CONSTANTS
  ExecAddr,       \* mem_addr values the execute unit puts on the bus
  BranchTargets,  \* values it writes to PGC
  MayHalt         \* whether a HALT can be executed

ASSUME ExecuteAssumption ==
  /\ ExecAddr \subseteq 0..(IntSpace - 1)
  /\ BranchTargets \subseteq {a \in Addr : a % 2 = 0}
  /\ MayHalt \in BOOLEAN

VARIABLE executing  \* FALSE in EXEC_START and while the sequencer waits for an instruction

ExecutePortInit == executing = FALSE

-----------------------------------------------------------------------------
\* execute_half1_mem_assert_ and execute_half2_mem_assert_: a read or a write,
\* given up for this call when the controller is busy.
ExecuteAccess ==
  \E a \in ExecAddr, wide \in BOOLEAN : AddrReadAssert(wide, a) \/ AddrWriteAssert(wide, a)

\* write_data_ to DATA_REG_PGC, from an instruction, RST or an illegal one
RaiseBranch ==
  \/ UNCHANGED <<execute_branch, execute_branch_addr>>
  \/ /\ execute_branch' = TRUE
     /\ execute_branch_addr' \in BranchTargets

\* An access may be all that was left to do.
ExecuteHalf1 ==
  /\ \/ ~disable_clk /\ executing /\ executing' \in BOOLEAN /\ ExecuteAccess
     \/ UNCHANGED <<executing, mcvars>>
  /\ UNCHANGED <<decodevars, fetchvars, icvars>>

UnwrittenByExecute == <<fetch_word_semaph, fetch_word, fetch_addr, decode_branch,
                        decode_branch_addr, decode_stall>>

\* Nothing to execute: the control word is spent and asserts nothing.  An offer stays
\* where it is while the last access is not answered.
ExecuteIdles ==
  /\ ~disable_clk
  /\ ~executing
  /\ execute_memory_backoff' = FALSE
  /\ UNCHANGED <<executing, branchlines, decoded_inst_semaph, disable_clk,
                 UnwrittenByExecute, decodevars, fetchvars, mcvars>>

\* The call that takes an instruction; it evaluates it at once, and an illegal
\* one or RST writes PGC there.
ExecuteTakes ==
  /\ ~disable_clk
  /\ ~executing /\ decoded_inst_semaph
  /\ decoded_inst_semaph' = FALSE
  /\ executing' \in BOOLEAN
  /\ RaiseBranch
  /\ execute_memory_backoff' \in BOOLEAN
  /\ UNCHANGED <<disable_clk, UnwrittenByExecute, decodevars, fetchvars, mcvars>>

\* A step of an instruction.  The last one may take the next instruction in the
\* same call, or drop it because a branch was taken, or stop the clock.
ExecuteSteps ==
  /\ ~disable_clk
  /\ executing
  /\ executing' \in BOOLEAN
  /\ ExecuteAccess \/ UNCHANGED mcvars
  /\ RaiseBranch
  /\ decoded_inst_semaph' \in {decoded_inst_semaph, FALSE}
  /\ execute_memory_backoff' \in BOOLEAN
  /\ disable_clk' \in {FALSE, MayHalt}
  /\ UNCHANGED <<UnwrittenByExecute, decodevars, fetchvars>>

ExecuteSkips ==
  /\ disable_clk
  /\ UNCHANGED <<executing, decodevars, fetchvars, mcvars, icvars>>

ExecuteHalf2 == ExecuteIdles \/ ExecuteTakes \/ ExecuteSteps \/ ExecuteSkips
=============================================================================
