------------------------------ MODULE ExecuteData ------------------------------
(***************************************************************************)
(* The execute unit with values: the registers, the input and output       *)
(* latches of the ALU, MAR and MDR, and the bytes of memory, next to the     *)
(* phases of Execute.  Every call is the one Execute describes; what is a  *)
(* choice there (the outcome of the ALU, the address of an access) is      *)
(* determined here.  The decode unit offers the instructions of a program  *)
(* in order, as late as it likes, and the fetch unit reads from a slow     *)
(* device in between.                                                      *)
(***************************************************************************)
EXTENDS ExecuteUnit, DataBus, Sequences

\* The routines whose data are modelled; no latch of theirs is uninitialized.
PlainEntries == {"MU_NONE", "MU_IND_REG", "MU_IND_REG_AUTO", "MU_IND_REG_POST_AUTO"}

CONSTANTS
  Programs,   \* sequences of instructions, each a sequence of words
  FirstRegs,  \* the registers a program may start with
  FirstMem    \* the bytes of memory it may use

ASSUME ExecuteDataAssumption ==
  /\ \A p \in Programs : \A n \in DOMAIN p :
       /\ \A word \in {p[n][i] : i \in DOMAIN p[n]} : word \in 0..65535
       /\ LET d == Decoded(p[n][1]) IN
            /\ d.name \in Moves \cup Updates
            /\ Len(p[n]) = 1 + d.words
            /\ {d.before.idx, d.after.idx} \subseteq PlainEntries
  /\ \A regs \in FirstRegs : regs \in [0..7 -> 0..(WordSize - 1)]
  /\ DOMAIN FirstMem \subseteq (HramStart..(AddrSpace - 1)) \cup Devices
  /\ \A a \in DataAddrs : {a, a + 1} \subseteq DOMAIN FirstMem

VARIABLES
  program,  \* not in the program: the code that is executed, and the registers it started with
  core,     \* of Pilot_cpu_regs: regs, and F, the flags that are set in wf
  latches,  \* alu_input_latches, alu_output_latch, mem_addr, mem_data, mem_access_was_read
  memory,   \* hram, and the cells of a memory behind a mapper, which answers when it likes
  bus       \* memctl.data_reg_out and data_reg_in

datavars == <<core, latches, memory, bus>>
allvars == <<vars, program, datavars>>

DataInit ==
  /\ Init
  /\ program \in [code : Programs, regs : FirstRegs]
  /\ core = [regs |-> program.regs, F |-> {}]
  /\ latches = [a |-> 0, b |-> 0, out |-> 0, mar |-> 0, mdr |-> 0, was_read |-> FALSE]
  /\ memory = FirstMem
  /\ bus = [out |-> 0, in |-> 0]

-----------------------------------------------------------------------------
\* imm_words as the decoder leaves them: an instruction overwrites as many as it has.
ImmWords ==
  LET after[n \in 0..Len(program.code)] ==
        [i \in 0..4 |-> IF n = 0 THEN 0
                        ELSE IF i < Len(program.code[n]) THEN program.code[n][i + 1] ELSE after[n - 1][i]]
  IN after[exec.inst.at]

\* What the calls below take as name: that of the instruction.
Mnemonic == Decoded(exec.inst.op).name

InCore == exec.control = "core_op"
RegisterIn(name, role) ==
  IF InCore THEN CoreRegister(name, exec.inst.op, role) ELSE EntryRegister(exec.doing.at)
AluControl(name) == IF InCore THEN CoreAlu(name, exec.inst.op) ELSE EntryAlu(exec.doing.at)

\* DATA_SIZE is asked for next to the stack pointer.
StepsStack == exec.buffer.operation.src1 = "REG" /\ EntryRegister(exec.doing.at).reg = 7

\* fetch_data_
Fetched(name, location, size, role, l) ==
  CASE location = "ZERO"       -> 0
    [] location = "REG"        -> ReadRegister(core.regs, RegisterIn(name, role), size)
    [] location = "SIZE"       -> StepOf(size, StepsStack)
    [] location = "MEM_ADDR"   -> l.mar
    [] location = "MEM_DATA"   -> l.mdr
    [] location = "IMM_0"      -> ImmWords[0]
    [] location = "IMM_1"      -> ImmWords[1]
    [] location = "IMM_1_24"   -> ThreeBytes(ImmWords[2], ImmWords[1])
    [] location = "IMM_HML"    -> ThreeBytes(ImmWords[0], ImmWords[1])
    [] location = "IMM_HML_RM" -> ThreeBytes(ImmWords[2], ImmWords[1])
    [] location = "SFI_1"      -> Bits(ImmWords[0], 5, 2)
    [] location = "SFI_2"      -> Bits(ImmWords[0], 11, 8)

-----------------------------------------------------------------------------
\* The register that goes on the data lines; WRITE_FROM_MDR_HIGH destroys the rest.
WrittenData(c, l) ==
  CASE c.write = "MEM_WRITE_FROM_DEST"     -> l.out
    [] c.write = "MEM_WRITE_FROM_MDR_HIGH" -> l.mdr \div 65536
    [] OTHER                               -> l.mdr

\* execute_half1_mem_wait_, the operand latches, execute_half1_mem_prepare_
Collected(l) == IF exec.waiting /\ data_valid /\ l.was_read THEN [l EXCEPT !.mdr = bus.in] ELSE l
Latched(name, l) ==
  LET c == Control(exec)
      alu == AluControl(name)
  IN [l EXCEPT !.a = Fetched(name, c.src1, alu.size1, "src1", l),
               !.b = Fetched(name, c.src2, alu.size2, "src2", l)]
PreparedInHalf1(l) ==
  LET c == Control(exec) IN
  IF c.latch # "MEM_LATCH_HALF1" THEN l
  ELSE [l EXCEPT !.mar = l.a, !.mdr = WrittenData(c, l)]

\* A call that resumes in EXEC_HALF1_MEM_ASSERT repeats none of it.
AfterHalf1(name) ==
  IF ~InFirstHalf \/ Waits \/ exec.phase = "HALF1_MEM_ASSERT" THEN latches
  ELSE PreparedInHalf1(Latched(name, Collected(latches)))

\* execute_half2_result_latch_, write_data_
AluOutcome(name) ==
  AluResult(AluControl(name), [F |-> core.F, latch_aux |-> exec.latch_aux, used_z |-> exec.used_z],
            latches.a, latches.b)
Outputs == exec.phase = "HALF2_READY" /\ Control(exec).alu
StoredLatches(result) ==
  LET out == result.out
  IN IF ~Outputs THEN latches
     ELSE [latches EXCEPT !.out = out,
             !.mdr = IF Control(exec).dest = "MEM_DATA" THEN Truncated(out, 24) ELSE @]
StoredCore(name, result) ==
  IF ~Outputs THEN core
  ELSE [F |-> result.F,
        regs |-> IF Control(exec).dest # "REG" THEN core.regs
                 ELSE WriteRegister(core.regs, RegisterIn(name, "dest"),
                                    AluControl(name).dest_size, result.out)]

\* execute_half2_mem_prepare_
PreparedInHalf2(l) ==
  LET c == Control(exec) IN
  IF c.latch \notin {"MEM_LATCH_HALF2", "MEM_LATCH_HALF2_MAR"} THEN l
  ELSE [l EXCEPT !.mar = IF c.latch = "MEM_LATCH_HALF2" THEN l.out ELSE @,
                 !.mdr = WrittenData(c, l)]

AfterHalf2PreparesAgain(result) ==
  IF exec.phase \in {"HALF2_READY", "HALF2_MEM_ASSERT"}
  THEN PreparedInHalf2(StoredLatches(result)) ELSE latches
AfterHalf2(result) ==
  IF exec.phase = "HALF2_READY" THEN PreparedInHalf2(StoredLatches(result)) ELSE latches

-----------------------------------------------------------------------------
\* What a call leaves in the latches and, if it asserts an access, on the bus.
Puts(l) ==
  LET asserts == BusReady /\ mc_state' # "MCTL_READY"
      reads == mc_state' = "MCTL_MEM_R_BUSY"
  IN /\ asserts => addr_reg' = l.mar
     /\ latches' = IF asserts THEN [l EXCEPT !.was_read = reads] ELSE l
     /\ bus' = IF asserts /\ ~reads THEN [bus EXCEPT !.out = l.mdr % 65536] ELSE bus

\* mem_read and mem_write; what the fetch unit reads is never an operand.
FetchedWord == 65535
AnswerOf(a, wide) ==
  IF a \in WordAddrs THEN FetchedWord ELSE memory[a] + IF wide THEN 256 * memory[a + 1] ELSE 0
MemWithUncut(a, wide, word) ==
  [x \in DOMAIN memory |-> IF x = a THEN word
                         ELSE IF wide /\ x = a + 1 THEN word \div 256 ELSE memory[x]]
MemWith(a, wide, word) ==
  [x \in DOMAIN memory |-> IF x = a THEN word % 256
                         ELSE IF wide /\ x = a + 1 THEN word \div 256 ELSE memory[x]]

-----------------------------------------------------------------------------
Offering == IF offer.at = NowhereYet THEN 1 ELSE offer.at + 1

DecodeOffersNext ==
  /\ Call(2, "decode")
  /\ Offering <= Len(program.code)
  /\ LET op == program.code[Offering][1]
     IN Offered(Instruction(op, Offering, Decoded(op), 0, {}, FALSE))
  /\ UNCHANGED <<exec, mcvars, program, datavars>>

\* The other calls of the decode and the fetch unit.
OthersRun ==
  /\ RunFetchHalf1 \/ RunFetchHalf2 \/ DecodeWorks \/ EndHalf1
       \/ (Call(1, "decode") /\ UNCHANGED <<exec, offer, mcvars, icvars>>)
  /\ UNCHANGED <<program, datavars>>

RunDataHalf1 ==
  /\ RunExecuteHalf1
  /\ Puts(AfterHalf1(Mnemonic))
  /\ UNCHANGED <<program, core, memory>>

\* The data that ExecHalf2 leaves open.
Outcome(result) ==
  [zero |-> Outputs /\ result.used_z, carry |-> Outputs /\ result.latch_aux, flag |-> FALSE]

Half2Results(name, result) ==
  /\ \/ ExecSkipsHalf2
     \/ ExecAdvances(offer, Outcome(result), 0)
     \/ ExecAccesses(offer, Outcome(result), 0)
     \/ ExecBlocked(Outcome(result), 0)
  /\ core' = StoredCore(name, result)
  /\ Puts(AfterHalf2(result))

Half2Computes(name) == Half2Results(name, AluOutcome(name))

RunDataHalf2 ==
  /\ Call(2, "execute")
  /\ Half2Computes(Mnemonic)
  /\ UNCHANGED <<offer, program, memory>>

EndDataCycle ==
  /\ EndCycle
  /\ LET answers == ~BusReady /\ mc_state' = "MCTL_READY"
         reads == mc_state = "MCTL_MEM_R_BUSY"
     IN /\ memory' = IF answers /\ ~reads THEN MemWith(addr_reg, is_16bit, bus.out) ELSE memory
        /\ bus' = IF answers /\ reads THEN [bus EXCEPT !.in = AnswerOf(addr_reg, is_16bit)] ELSE bus
  /\ UNCHANGED <<program, core, latches>>

DataNext ==
  \/ OthersRun \/ DecodeOffersNext
  \/ RunDataHalf1 \/ RunDataHalf2 \/ EndDataCycle

DataSpec == DataInit /\ [][DataNext]_allvars
================================================================================
