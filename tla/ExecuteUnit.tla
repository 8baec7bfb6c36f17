----------------------------- MODULE ExecuteUnit -----------------------------
(***************************************************************************)
(* The execute unit on its own: clocked with a decode unit that may offer  *)
(* any of a set of instructions, in any order and as late as it likes, and *)
(* a fetch unit that reads words when it is allowed to.                    *)
(***************************************************************************)
EXTENDS Execute, Clock, FiniteSets

CONSTANTS
  Instructions,  \* what the decode unit may offer
  WordAddrs      \* addresses the fetch unit reads

ASSUME ExecuteUnitAssumption ==
  /\ WordAddrs \subseteq Nat /\ WordAddrs \cap DataAddrs = {}
  /\ \E i \in Instructions : ~i.illegal /\ ~i.restart
  /\ \A i \in Instructions :
       /\ i = Instruction(i.op, i.at, Decoded(i.op), i.inst_pgc, i.targets, i.bad_index)
       /\ i.op \in Opcode /\ (i.at \in Addr \/ i.at = NowhereYet) /\ i.targets \subseteq Nat
       /\ i.inst_pgc \in Addr /\ i.inst_pgc % 2 = 0 /\ i.bad_index \in BOOLEAN

VARIABLE offer  \* what interconnects.decoded_inst points to

vars == <<exec, offer, mcvars, icvars, clockvars>>

Init ==
  /\ ExecuteInit
  /\ MemCtlInit /\ InterconnectInit /\ fetch_addr = 0
  /\ offer = exec.inst
  /\ ClockInit

-----------------------------------------------------------------------------
\* decode_stall makes the decoder drop what it has dispatched.
OfferDropped ==
  /\ ~disable_clk
  /\ decoded_inst_semaph' = FALSE
  /\ UNCHANGED <<fetch_word_semaph, fetch_word, fetch_addr, branchlines, decode_stall,
                 execute_memory_backoff, disable_clk>>

\* The first instruction reaches the core operation (before that, control is a null
\* pointer), and no repeat instruction follows another.
MayFollow(i) ==
  /\ exec.phase = "START" => ~i.illegal /\ ~i.restart
  /\ {offer.repeat, exec.inst.repeat, exec.repeat_type} # {"MU_NONE"} => i.repeat = "MU_NONE"

Offered(i) ==
  /\ ~disable_clk
  /\ ~decoded_inst_semaph /\ MayFollow(i)
  /\ offer' = i
  /\ decoded_inst_semaph' = TRUE
  /\ UNCHANGED <<fetch_word_semaph, fetch_word, fetch_addr, branchlines, decode_stall,
                 execute_memory_backoff, disable_clk>>

\* The fetch unit acknowledges a branch, and reads unless it is told to back off.
BranchSeen ==
  /\ execute_branch' = FALSE
  /\ UNCHANGED <<fetch_word_semaph, fetch_word, fetch_addr, decode_branch, decode_branch_addr,
                 decode_stall, decoded_inst_semaph, execute_branch_addr,
                 execute_memory_backoff, disable_clk>>

WordRead == ~execute_memory_backoff /\ \E a \in WordAddrs : AddrReadAssert(TRUE, a)

-----------------------------------------------------------------------------
RunFetchHalf1 == Call(1, "fetch") /\ UNCHANGED <<exec, offer, mcvars, icvars>>
RunFetchHalf2 ==
  /\ Call(2, "fetch")
  /\ IF disable_clk THEN UNCHANGED <<mcvars, icvars>>
     ELSE BranchSeen /\ (WordRead \/ UNCHANGED mcvars)
  /\ UNCHANGED <<exec, offer>>

RunDecodeHalf1 ==
  /\ Call(1, "decode")
  /\ OfferDropped \/ UNCHANGED icvars
  /\ UNCHANGED <<exec, offer, mcvars>>
DecodeOffers == Call(2, "decode") /\ (\E i \in Instructions : Offered(i)) /\ UNCHANGED <<exec, mcvars>>
DecodeWorks == Call(2, "decode") /\ UNCHANGED <<exec, offer, mcvars, icvars>>

RunExecuteHalf1 == Call(1, "execute") /\ ExecHalf1 /\ UNCHANGED offer
RunExecuteHalf2 == Call(2, "execute") /\ ExecHalf2(offer) /\ UNCHANGED offer

EndHalf1 == HalfEnds(1) /\ UNCHANGED <<exec, offer, mcvars, icvars>>
EndCycle == HalfEnds(2) /\ MemCtlTick /\ UNCHANGED <<exec, offer, icvars>>

Next ==
  \/ RunFetchHalf1 \/ RunDecodeHalf1 \/ RunExecuteHalf1 \/ EndHalf1
  \/ RunFetchHalf2 \/ DecodeOffers \/ DecodeWorks \/ RunExecuteHalf2 \/ EndCycle

Spec == Init /\ [][Next]_vars

\* The loop keeps calling the units, and instructions keep coming.
FairSpec == Spec /\ WF_clockvars(Ticks) /\ SF_vars(DecodeOffers)
==============================================================================
