--------------------------------- MODULE Pilot ---------------------------------
(***************************************************************************)
(* The whole processor: fetch, decode and execute unit with the memory     *)
(* controller and the clock, running a program.  An instruction word is    *)
(* named by its address; program says what is there.                       *)
(***************************************************************************)
EXTENDS Decode, Execute, Clock

CONSTANTS
  Programs,   \* at every address of a word: an opcode, decoded, and what it encodes
  StartAddrs

WordAddrs == {a \in Addr : a % 2 = 0}

\* arg: the prediction's argument as Decode takes it; targets: what is written to PGC
ProgramWord(op, arg, targets) ==
  [op |-> op, decoded |-> Decoded(op), arg |-> arg, targets |-> targets]

\* What the sequencing of the decode unit sees of decode_inst_.
KindOf(w) ==
  [extra |-> w.decoded.words, branch |-> w.decoded.predict,
   arg |-> IF w.decoded.predict = "none" THEN 0 ELSE w.arg, illegal |-> w.decoded.illegal]

ASSUME PilotAssumption ==
  /\ StartAddrs \subseteq WordAddrs
  /\ DataAddrs \subseteq 0..(IntSpace - 1)
  /\ \A p \in Programs : p = [a \in WordAddrs |-> p[a]]
  /\ \A p \in Programs : \A a \in WordAddrs :
       LET w == p[a]
       IN /\ w = ProgramWord(w.op, w.arg, w.targets) /\ w.op \in Opcode /\ w.targets \subseteq Nat
          /\ KindOf(w) \in Kinds

VARIABLES
  program,  \* what is in memory; writes to it are not modelled
  offer     \* what interconnects.decoded_inst points to

\* The instruction that a dispatch of d hands over.
OfferedInstruction(d) ==
  IF d.words = <<>> THEN offer
  ELSE LET a == d.words[1]
           w == program[a]
       IN Instruction(w.op, a, w.decoded, d.inst_pgc, w.targets, FALSE)

vars == <<program, offer, exec, mcvars, icvars, fetchvars, decodevars, clockvars>>

Init ==
  /\ MemCtlInit /\ InterconnectInit /\ FetchInit /\ DecodeInit /\ ExecuteInit
  /\ program \in Programs /\ offer = exec.inst
  /\ fetch_mem_addr \in StartAddrs /\ fetch_addr = fetch_mem_addr
  /\ ClockInit

-----------------------------------------------------------------------------
RunFetchHalf1 == Call(1, "fetch") /\ FetchHalf1 /\ UNCHANGED <<program, offer, exec, decodevars>>
RunFetchHalf2 == Call(2, "fetch") /\ FetchHalf2 /\ UNCHANGED <<program, offer, exec, decodevars>>

DecodesWord == ReadsInstWord /\ fetch_word_semaph /\ ~disable_clk
RunDecodeHalf1 ==
  /\ Call(1, "decode")
  /\ IF DecodesWord THEN DecodeInstWord(KindOf(program[fetch_word])) ELSE DecodeNoWord \/ DecodeSkipHalf1
  /\ UNCHANGED <<program, offer, exec>>
RunDecodeHalf2 ==
  /\ Call(2, "decode") /\ DecodeHalf2
  /\ offer' = OfferedInstruction(decoded_inst')
  /\ UNCHANGED <<program, exec>>

RunExecuteHalf1 == Call(1, "execute") /\ ExecHalf1 /\ UNCHANGED <<program, offer, fetchvars, decodevars>>
RunExecuteHalf2 ==
  /\ Call(2, "execute")
  /\ ExecHalf2(offer)
  /\ UNCHANGED <<program, offer, fetchvars, decodevars>>

EndHalf1 == HalfEnds(1) /\ UNCHANGED <<program, offer, exec, mcvars, icvars, fetchvars, decodevars>>
EndCycle == HalfEnds(2) /\ MemCtlTick /\ UNCHANGED <<program, offer, exec, icvars, fetchvars, decodevars>>

Next ==
  \/ RunFetchHalf1 \/ RunDecodeHalf1 \/ RunExecuteHalf1 \/ EndHalf1
  \/ RunFetchHalf2 \/ RunDecodeHalf2 \/ RunExecuteHalf2 \/ EndCycle

Spec == Init /\ [][Next]_vars

\* The main loop keeps calling the units; nothing else is assumed.
FairSpec == Spec /\ WF_clockvars(Ticks)

-----------------------------------------------------------------------------
\* The execute unit has something to do unless it waits for an instruction and
\* its control word is spent.
Spent == ~Control(exec).alu /\ ~Announces(Control(exec))
Waiting == exec.phase = "START" \/ (exec.seq = "WAIT_NEXT_INS" /\ Spent)

Port == INSTANCE FrontEnd WITH
  ExecAddr <- DataAddrs, BranchTargets <- WordAddrs, MayHalt <- TRUE, executing <- ~Waiting

\* The execute unit does nothing to the other units that its port does not allow:
\* what holds of the front end holds of the machine.
KeepsToThePort == Port!Spec
=============================================================================
