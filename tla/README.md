# A TLA+ development for the Hexheld emulator's pilot CPU

The repository is a C emulator of the CPU of a fantasy handheld console. The CPU
is a three-stage pipeline (fetch, decode, execute) with a one-access-at-a-time
memory controller. Each stage is a pair of functions, one per half of a clock
cycle, that run to completion and communicate through the plain fields of one
`Pilot_system`. There are no threads; what makes the code hard is that the
functions are interleaved by the emulator's main loop, that each of them may
return early and resume in a later cycle, and that every hand-over between the
stages is a flag and a latch that the other side may read, clear or overwrite
a half cycle later.

The repository has no main loop, no tests and no build file, so the order in
which the functions are called is a parameter of the model (see *Call order*).

## 1. Inventory

| Part (src/pilot-cpu) | State it keeps | Operations | Talks to |
| --- | --- | --- | --- |
| memory controller, `memory_bus.c` | `memctl`: state, `data_valid`, `is_16bit`, `addr_reg`, `data_reg_in/out`; `hram` | read/write assert, data wait, get data, tick | fetch and execute assert accesses and poll `data_valid` |
| fetch unit, `cpu_fetch.c` | five-slot queue, `mem_addr`, `branch_predicted`, `mem_access_waiting`, `fetch_phase` | `pilot_fetch_half1/2` | word latch and `fetch_addr` to decode; `decode_branch`, `execute_branch`, `execute_memory_backoff` in; `decode_stall` out |
| decode unit, sequencing, `cpu_decode.c:1148-1248` | `decoding_phase`, `imm_words`, `inst_length`, `words_to_read`, `pgc`, `work_regs` | `pilot_decode_half1/2`, `decode_try_read_word_` | takes words, offers `decoded_inst`, predicts branches |
| decode tables, `cpu_decode.c:85-1146`, `cpu_decode_rm.c` | `work_regs` | `decode_inst_*`, `decode_rm_specifier` | queue operand words; fill the control words |
| microcode, `cpu_mucode.c` | none (pure) | `decode_mucode_entry` | called by the execute sequencer |
| execute sequencer, `cpu_execute.c:409-526, 845-1252` | phases, `decoded_inst`, `mucode_control`, `mucode_decoded_buffer`, `control`, `repeat_type`, `branched`, memory registers | `pilot_execute_half1/2` | takes `decoded_inst`, raises `execute_branch`, asserts accesses, stops the clock |
| ALU, flags, register file, `cpu_execute.c:17-407, 528-843` | `core`, ALU latches | `fetch_data_`, `write_data_`, `alu_*` | used by the execute sequencer |
| interconnect, `cpu_interconnect.h` | the lines and latches between the stages | none | everything |
| interrupts | `decoded_inst.interrupt` | sequencer phases | nothing sets the flag in the repository |

Behaviours that are hard, and what makes each part correct:

* **Memory controller.** An answer is a flag that lasts one tick and that any
  new assertion clears. Correct when the unit that asserted an access is the one
  that sees its answer.
* **Fetch unit.** A read takes at least one tick, a branch can arrive at any
  point of it, and a call may resume in the middle of either half. Correct when
  the decode stage sees, in order and exactly once, the words of memory from the
  last branch target on, never loses a word to a full queue, and is never
  starved by the execute unit.
* **Decode sequencing.** The word latch has one place and is filled, emptied and
  flushed by different units in the same cycle; the decoded instruction is
  handed over in place. Correct when no word and no instruction is lost, and
  every instruction carries the PGC that follows its opcode.
* **Prediction.** The decoder redirects the fetch unit before the execute unit
  knows the branch. Correct when the execute unit's verdict always wins and the
  addresses reported with the words follow the redirection.
* **Execute sequencer.** An instruction is a chain of microcode entries around a
  core operation, with repeats of a cached instruction. Correct when every
  entry of an instruction runs in order, its memory operands are the ones read,
  and the saved PGC of a call is the one of the caller.
* **Decode tables.** Correct when no opcode asks for more words than
  `imm_words` holds, and each operand latch points at the words that were
  queued for that operand.
* **ALU and multiply microcode.** Correct when they compute their arithmetic at
  the operand size.

The hazards, each at its line with the properties that watch it, are listed in
`PROJECT.json`.

## 2. Modules

| Module | Models | How its state and actions correspond |
| --- | --- | --- |
| `MemCtl` | `memory_bus.c` | `mc_state`, `data_valid`, `is_16bit`, `addr_reg`, `data_reg_in` are the fields of `memctl`. `AddrReadAssert`/`AddrWriteAssert` are the TRUE branch of the two assert functions and `~BusReady` the FALSE one; `TickIdle`, `TickBusy`, `TickDone` are the outcomes of `Pilot_memctl_tick`. |
| `Interconnect` | `cpu_interconnect.h`, `core.disable_clk` | one variable per line or latch |
| `Fetch` | `cpu_fetch.c` | `FetchMemWait`, `FetchDequeue`, `FetchSkipHalf1` are the ways through `pilot_fetch_half1`; `FetchFull`, `FetchHold`, `FetchAssert`, `FetchSkipHalf2` the ways through `pilot_fetch_half2`. An action is a whole call; `fetch_phase` records where the next one resumes, so the phases no call returns in (DEQUEUE, BRANCH) do not appear. |
| `Decode` | `cpu_decode.c:1148-1248` and what the rest of the file asks of it | `DecodeNoWord`, `DecodeInstWord`, `DecodeSkipHalf1`; `DecodeReadOperands`, `DecodeDispatch`, `DecodeSkipHalf2`. What an opcode decodes to is a member of the constant `Kinds`. |
| `Clock` | the main loop, as far as the code fixes it | `half` and `ran` say which functions were called in this half; `Call` is one of them, `HalfEnds` begins the other half. |
| `ExecutePort` | what `pilot_execute_half1/2` may do to the other units | `ExecuteIdles`, `ExecuteTakes`, `ExecuteSteps`, `ExecuteSkips`; any instruction, any length. |
| `FrontEnd` | fetch and decode unit with the port, clocked | `Run*` call one function, `EndHalf1`, `EndCycle` advance the clock, `EndCycle` with the memory tick. |
| `WordStream` | abstract specification of the fetch unit | a bounded stream of consecutive words with `Fill`, `Take`, `Redirect` |
| `FrontEndStream` | the mapping of `FrontEnd` to `WordStream` | |
| `MCFrontEnd` | constants for TLC | |
| `FrontEndProofs`, `DecodeProofs` | proofs about `FrontEnd` | |
| `Operands` | `cpu_decode_rm.c` | `Operand` is `decode_rm_specifier`: the words it queues, the location it gives a source or destination (with the width at which a latch of queued words is read), and the microcode entry of a memory operand. `RequiresMemFetch` and `Mode` are the two classifications the code makes of the same six bits. |
| `Opcodes` | `cpu_decode.c:85-1146` | `Decoded` is `decode_inst_`; one operator per `decode_inst_*` function, the tests in the order of the code. A work record is what is left in `work_regs`. |
| `Mucode` | `cpu_mucode.c` | `Entry` is `decode_mucode_entry`; one operator per routine, with the routine's name. A routine that copies another and patches some of its fields is an EXCEPT of the other. |
| `TableProofs` | proofs about `Operands`, `Opcodes` and `Mucode` | |
| `MCOpcodes` | the tables over all instruction words | `DecodeInst` moves `work_regs` to what the next word decodes to. |
| `Execute` | `cpu_execute.c:409-526, 845-1252` | `exec` is `pilot_execute_state`, with PGC and REPI; an action is a whole call. `ExecWaits`, `ExecLatches`, `ExecAsserts`, `ExecHeld`, `ExecSkipsHalf1` are the ways through the first half; `ExecAdvances`, `ExecAccesses`, `ExecBlocked`, `ExecSkipsHalf2` through the second. The `if`s through which `execute_half2_advance_sequencer_` falls are functions applied one after the other (`Advanced`). |
| `ExecuteUnit` | the execute unit clocked with a decoder that offers anything and a fetch unit that reads whenever it may | `DecodeOffers`, `OfferDropped`, `WordRead` are the outside world |
| `Microprogram` | what the sequencer promises (`types.h:350-358`), without cycles, bus or pipeline | routine before, core operation, routine after, repeats, push of PGC, trap |
| `MCExecute` | instructions for TLC; the mapping to `Microprogram` | |
| `SequencerProofs`, `ExecuteProofs` | proofs about `Execute` (its calls, whatever surrounds them) and about `ExecuteUnit` | |
| `Alu` | `cpu_execute.c:528-843, 908-977` and the control words of the single-cycle instructions in `cpu_decode.c` | `AluResult` is `execute_half2_result_latch_` with the two functions it calls; `ControlOf` a decoded instruction, `Holds` the branch test. Real widths. |
| `Datapath` | one instruction with its operands through the ALU; a multiplication entry by entry | `core` is the part of `Pilot_cpu_regs` involved, `MulStepEnds` a cycle of the routine that `Mucode` gives |
| `MCDatapath` | operands for TLC, reference arithmetic | |
| `DatapathProofs` | proofs about `Alu` and `Datapath` | |
| `DataBus` | `fetch_data_` and `write_data_`; register numbers, sizes and ALU functions of moves, arithmetic and register-indirect operands | `CoreRegister` and `EntryRegister` say which register a location is, `CoreAlu` and `EntryAlu` what the ALU does |
| `ExecuteData` | the execute unit with values | `core`, `latches`, `memory` and `bus` are next to the variables of `Execute`; `RunDataHalf1`, `RunDataHalf2` and `EndDataCycle` are its calls with what they do to the values (`AfterHalf1`, `AfterHalf2`, `StoredCore`), in the order of the code |
| `MCExecuteData` | programs for TLC, an assembler and the meaning of the instructions | |
| `Pilot` | the whole processor: `Fetch`, `Decode`, `Execute`, `MemCtl`, `Clock` and a program | `program` says what is in memory; `DecodesWord` hands the decoder what `Opcodes` makes of the word; `offer` is what `interconnects.decoded_inst` points to |
| `Isa` | what a program without branches means to its programmer | `Proceed` to the next instruction, `Repeat` |
| `PilotProgram` | the mapping of `Pilot` to `Isa`; the programs it is meant for (`RunsStraight`) | |
| `MCPilot` | programs for TLC | |
| `StraightProofs` | proofs about `Execute` with the instructions of such a program | |
| `PilotProofs` | the simulation of `FrontEnd` by `Pilot`, and the execution of programs | |

The decode tables are stateless, so they are operators. `MCOpcodes` visits every
instruction word; the front end's constant `Kinds` stands for any table, and
`FitsDecode` shows that this one satisfies what `Decode` assumes of it; `Pilot`
uses the tables themselves for the words of its program.

How the modules are composed:

    WordStream  <=  FrontEnd = Fetch + Decode + ExecutePort + MemCtl + Clock
                        ^
                        |  KeepsToThePort (refinement)
                        |
    Isa  <=  Pilot = Fetch + Decode + Execute + MemCtl + Clock + program
                                        |
                    ExecuteUnit = Execute + Clock  =>  Microprogram
                        ^
                        |  with values
                        |
                    ExecuteData = ExecuteUnit + DataBus + Alu + memory

`A <= B` and `B => A`: B implements A. `KeepsToThePort` says that with the real
sequencer in the place of the port every step is one the port allows, so that
what is proved of `FrontEnd` holds of the machine.

Abstractions of `Execute`. Registers, flags and memory hold no values, except
PGC and REPI, which steer the sequencer: whether a result is zero, what a flag
says and which address is accessed are choices, restricted to those a call looks
at (`RelevantData`). `exec.asked` and `exec.doing` are not in the program: the
address an answer is awaited from, and the routine and entry `control` was last
set to; the first is read by `AnswerReaches`, the second by the mapping to
`Microprogram`, and neither by any action. So are `at` (the address of an
instruction), `targets` (what it may write to PGC) and `bad_index` of an
instruction.

Abstractions of `ExecuteData`. Every value is there, at its width, for the
instructions that `Moves` and `Updates` name with operands that are registers,
immediate, register-indirect, post-increment or pre-decrement (`PlainEntries`);
the decimal flag is clear. Of the other modes, the indexed and PGC-relative ones
leave the direction of the access uninitialized, and the register-relative ones
read a word that was never queued (see below); the absolute ones are left out
for the size of the model. A program is a list of
instructions, offered one after the other; the fetch unit reads `FetchedWord`
from a device of its own. `Devices` are cells that answer when they like, so that
a store is still on the bus when the next access is asserted. The model has
memory for the addresses of `DataAddrs`: a program that left them would find
`ExecAccesses` disabled, which the deadlock check would report.

Abstractions of the front end. A data word is named by the address it was read from, so the
contents of memory do not matter and "the right word" is "the word of the right
address". Any word may decode to any kind, so every program is covered. Only
the low bit of addresses, their wrap at the end of the address space and the
width of `decode_branch_addr` matter, so the spaces are small and even. A region
whose mapper is an empty branch never answers; `Devices` are addresses whose
mapper may answer after any number of ticks, as the comment at
`memory_bus.c:113-124` announces. The address registers below `HramStart` that
are not devices never answer: a machine that reads there waits for ever.

### Call order

`Before1` and `Before2` list which unit must be called before which in the first
and in the second half; otherwise every order is possible, in every cycle anew.
`Pilot_memctl_tick` ends a cycle. What the runs and proofs need is

* in first halves, fetch before execute (`FetchFirst`). If the execute unit
  asserts an access first, it clears `data_valid` before the fetch unit has
  looked, and the fetched word is lost (`memory_bus.c:136`).
* nothing in second halves.

`StageOrder` is the order in which `cpu_decode.c:6-77` describes the stages. It
satisfies `FetchFirst`; the disagreements with the documentation are shown under
it, so they do not depend on an unusual main loop. Under it the decode unit runs
after the fetch unit has lowered `decode_stall` again, so a stall raised in a
second half is only seen in an order that calls decode first; the runs that
include such orders use `FetchFirst`.

## 3. What the runs show

| Run | Question | Bounds and why they suffice |
| --- | --- | --- |
| `FrontEnd_safety` | Is a read, a word, or an instruction ever lost, displaced or out of order? (`FetchOwnsItsRead`, `RoomForTheRead`, `ReadsAligned`, `StreamInOrder`, `NoWordDropped`, `NoPendingInstructionOverwritten`, `TypeOK`) | 8 bytes of memory, half of it hram: a wrap-around, an address that never answers (2), a slow device (0) and two hram words. Two slots: a full queue, a gap and a shift all occur. One operand word; a backward branch; any execute behaviour with accesses at an odd address, one branch target and HALT; every call order with fetch before execute in first halves. |
| `FrontEnd_stream` | Do queue, latch and memory implement the abstract stream? (`ImplementsWordStream`) | The five slots of the code, four words of memory (the row of cells is longer than memory, so words recur), prediction and execute branch, the documented call order. |
| `FrontEnd_pgc` | Is the PGC of an instruction right without predictions, and is the decoder ever starved? (`FetchAddrInStep`, `PgcFollowsOpcode`, `DecoderIsFed`) | Three words of memory, so that a PGC one word too early differs from one too late; all of them answer. A legal instruction with an operand, during which the decoder holds the PGC, and an illegal one, which leaves the old one; branches of the execute unit and its accesses, in every order in second halves. |
| `Opcodes_scan` | Do the decode tables and the microcode fit together? (`MemoryModesFetched`, `FitsDecode`, `LatchesQueued`, `WholeOperand`, `RoutinesEnd`, `RedirectsWhenBranching`) | All 65536 instruction words, every routine each of them starts. `MaxEntries` = 12 cycles is more than the longest routine has (a multiplication, ten). |
| `Execute_bus` | Does the unit share the bus without missing an answer or coming unannounced, and does it run its routines meanwhile? (`AnswerReaches`, `AccessAnnounced`, `RunsMicroprograms`, `TypeOK`) | One hram address and one slow device for data, the fetch unit at another device; byte, word and 24-bit reads and writes, indexed operands (with a bad index too), auto-increment, CALL, REPI; the decoder before execute, the fetch unit anywhere in second halves. |
| `Execute_program` | Does the sequencer keep its promise for every kind of instruction, and is every dispatched one taken? (`RunsMicroprograms`, `OfferTaken`) | HALT, an illegal word, RST, REPI, REPR, CALL, auto-increment, in any order; hram only, because an address that does not answer ends everything. |
| `Execute_stale` | A statement of the types that the sequencer does not satisfy | JR, NOP and one memory operand |
| `Datapath_arith` | Are sums, differences, comparisons and products right? (`SumsAreRight`, `SignedConditions`, `ProductLow`, `TypeOK`) | Eight operands for each of the three sizes: both ends of the signed and the unsigned range and mixed bits; both values of D and X; every single-cycle operation and both multiplications. |
| `Pilot_program` | Does the whole machine execute programs? (`ExecutesTheProgram`, `PgcOfInstruction`, `InstructionsEnd`, `KeepsToThePort`) | All 213 programs of four words over ADQ (r)+ in 8 bits, LD (r), (r)+ in 24 bits, LD.P with an operand word, and REPI twice, whose code never has a REPI repeat a REPI (`RunsStraight`). The queue has two slots, programs wrap around, so every word is the opcode, the operand and the repeated instruction of some program. |
| `Pilot_jump` | A statement of the comments that the machine does not satisfy | a jump with an operand word among NOPs, the documented call order |

The runs with values:

| Run | Question | Bounds and why they suffice |
| --- | --- | --- |
| `ExecuteData_values` | Do instructions, one pipelined behind the other on one data register and a shared bus, do to registers and memory what they mean? (`EndsAsProgrammed`, `TypeOK`) | All 144 pairs of twelve instructions: moves from memory to memory in 8 and 16 bits between hram and a slow memory, 24-bit stores with post-increment and pre-decrement (two accesses and an update), byte registers, XOR and SUB, LDSX, LDQ, LD.P. Pairs, because what is left from one instruction (latches, MAR, MDR, an access in flight) is met by the next. The two hram operands are the same, overlap by a byte, or are neighbours. |
| `ExecuteData_copy` | A statement of the types that a 24-bit load does not satisfy | one 24-bit move |

The reference (`Done`) knows nothing of cycles, entries, latches or accesses: it
reads an operand, computes and stores.

The violations that have a run:

* **`RunBeforeExecuted`** (`types.h:352`, "if not MU_NONE, is executed before
  core_op"). `mucode_run_` (`cpu_execute.c:982`) tests `branch` of the entry it
  decoded last. A JR or DJNZ that is not taken, and a multiplication, end at such
  an entry; the first call for the next routine then takes the old branch once
  more, and the routine is skipped, or the target routine runs instead.
  `RunsMicroprograms` holds of the instructions of the other runs, none of which
  ends in this way.
* **`AwaitsBranch`** (`cpu_decode.c:60`). After a branch that is not predicted the
  decoder goes on dispatching. When the branch ends, `decoded_inst_semaph` is
  lowered once (`cpu_execute.c:1064`); the decoder, which works later in the same
  half or in the next, dispatches another word of the wrong path, and it is
  executed. This happens in the documented call order.

* **`CopiesWholeWord`** (`types.h:41`, "used for 24-bit accesses"). The read of the
  high byte replaces the low word in `mem_data` (`cpu_execute.c:419`), and the core
  operation works on the high byte alone.

Statements of the comments that TLC refutes when they are added to the cfg named
with them, kept as definitions with no run of their own: `BranchLatchIs24Bit`,
`NoDeliveryUnderBranch` and `PgcFollowsOpcode` under predictions (`FrontEnd`), and
`DisplacementQueued`, `SecondOperandOffset`, `FetchesRead` and
`MispredictionSignalled` (`MCOpcodes`, with `Opcodes_scan.cfg`),
`UnsignedCondition` (`MCDatapath`, with `Datapath_arith.cfg`), and `StepsBySize` and
`OperandFetched` (`MCExecuteData`, with `ExecuteData_copy.cfg` and `Listings <-
WordsInARow`, `Listings <- Adjustment`).

Those of the front end, in words:

* **`BranchLatchIs24Bit`** (`cpu_decode.c:41`, "Branch address latch (24 bits)").
  The prediction is a 32-bit sum that is not masked (`cpu_decode.c:213`, `:254`).
  When the sum does not carry out of 32 bits, as for a `JR` in the last words of
  HRAM whose PGC has wrapped to 0, the fetch unit asserts an address of more
  than 24 bits that no region answers.
* **`NoDeliveryUnderBranch`** (`cpu_decode.c:13-19`). The first half of the fetch
  unit never looks at `decode_branch`. Normally the second half has consumed it
  by then; a fetch unit that was held in MEM_ASSERT resumes behind the branch
  phase, does not see a branch raised meanwhile, and hands over the next word
  of the old path.
* **`PgcFollowsOpcode`** with predictions (`types.h:348`). A predicted branch
  redirects `mem_addr` but not `fetch_addr`; until the execute unit has raised
  `execute_branch`, words of the target are reported with addresses of the
  fall-through path.

Those of the decode tables:

* **`DisplacementQueued`**: a register-relative operand queues no word for its
  displacement; the routine reads an old one and the displacement in the program
  is executed as an instruction.
* **`SecondOperandOffset`**: `rm2_offset` does not count the opcode, but indexes
  the array that starts with it; when the first operand has no words, the opcode
  itself is taken for the first word of the second operand.
* **`FetchesRead`**: beside the fetch of a changed operand (`OperandFetched`), the
  indexed and PGC-relative routines leave the direction of the access
  uninitialized; the model gives such a control word the direction
  "UNINITIALIZED", which stands for every value.
* **`MispredictionSignalled`**: every conditional branch is predicted as taken, and
  the microcode of one that is not taken ends without a write of PGC, so nothing
  tells the fetch unit to come back.

Those of the values:

* **`UnsignedCondition`** (`types.h:326`, "carry set; unsigned less than"). The
  carry flag is bit 7 (15, 23) of `a ^ b ^ result`, which is the carry into the
  sign bit. `SignedConditions` and the sums hold: they do not use it.
* **`StepsBySize`** (`types.h:119`, DATA_SIZE is "the current ALU destination
  size"). `fetch_data_` takes the size of the source that DATA_SIZE is, not that of
  the destination, and `after_autoidx_` leaves it at 24 bits: post-increment moves
  by four whatever the operand.
* **`OperandFetched`** (`cpu_decode_rm.c:55`, "fetch and set up writeback"). The
  routine that should fetch an operand that is source and destination is given
  `is_write` (`cpu_decode_rm.c:78`), and writes what MDR holds over the operand.

Others are visible in the model. The routines of absolute and PGC-relative
operands read the address with the size they are given, that of the operand
(`cpu_mucode.c:75`, `:90`, `:228`; for PGC-relative operands it is always the initial
24 bits): a 16-bit address of a 24-bit operand, as in 0x9029, takes its high byte from a
word that was never queued, and of a 24-bit absolute address of a shorter operand the
high byte is queued and not read (`AddressMisread`). An operand
that is only a destination has no `src_affected`, and without that a register is
never made the destination (`cpu_decode_rm.c:177`, against "write into dest",
`cpu_decode.c:791`): `OperandCore` keeps `dest` for source "none". The pre-decrement,
indexed and PGC-relative modes never pass on the operand size and make a 24-bit
access whatever the instruction: `MemoryEntry`. The cases for `CALL rm24` and
`CEA` are inside one that has excluded them (`cpu_decode.c:259`, `:323`), and `LD
IRL` and the immediate operations on `F` come after tests that cover every word
(`:400`, `:438`): `DecodeBranch` and `DecodeBit` keep the unreachable branches.

Visible in `Execute`, `Alu` and `Datapath`:

* The operand of the shifts, CPL, NEG and NGX is `src1`, and the shifter, the
  increment and the negation act on `src2`, which is zero (`ShiftControl`,
  `UnaryControl`): they leave the operand as it is.
* A multiplication uses REPI, so one under REPI ends the repetition; of 24 bits
  it does its additions in 8 bits from the second entry on, and the high half is
  not the high half of the product. `ProductLow` says what does hold.
* The parity in V is "any bit of the folded word is set" (`cpu_execute.c:705`),
  which is the same as "not zero" for the operations that use it.
* CP negates its operand first, so the most negative one is compared wrongly
  (`SignedConditions` leaves it out).
* RST writes the vector `0xffd000 | imm << 4` of the whole opcode word, not of its
  low byte, so it does not go where `cpu_decode.c:124` predicted; and what it
  pushes is already the vector.
* A correctly predicted branch still raises `execute_branch` and drops what has
  been dispatched since.
* The guard against a repeat inside a repeat (`cpu_decode.c:106`) reads a field
  that has just been cleared, and never applies.
* An instruction that is repeated runs with the PGC of the REPI until its last
  execution; `PgcOfInstruction` says so.
* An access that is retried in EXEC_HALF2_MEM_ASSERT skips the first half, and may
  miss the answer of a device that takes several ticks to an earlier access;
  `AnswerReaches` is about those that answer at once.

* A pre-decrement operand keeps the size of 24 bits, so a 16-bit store through it
  writes three bytes (`cpu_decode_rm.c:91`); 16-bit arithmetic on a register writes
  all its bits (`:184`); the source in memory of LDSX or of arithmetic makes
  `mem_data` the destination (`:74`). The programs of `ExecuteData` leave these out.

The properties of `Opcodes_scan` hold beside these. `LatchesQueued` is an
equivalence: every operand latch of an instruction reads the words queued for its
operand, all of them and no others, exactly when the instruction has no
register-relative operand, no first operand whose address has another length than
the operand, and no words for a second operand. So it says in which instructions
the hazards are real, and fails when one of them is mended as well as when another
instruction joins them. `WholeOperand` asks for the right direction of an access
only where one is set.

**Fairness.** `Pilot_program` assumes only that the main loop keeps calling the
units (`WF_clockvars(Ticks)`): its liveness, `InstructionsEnd`, is that of the
machine, with the real sequencer and microcode. `FrontEnd_pgc` assumes the same
of the loop, and that every instruction ends (strong fairness of the step with
which the execute unit finishes one, because steps of other units lie between
its calls): that is what `InstructionsEnd` shows of the real one.
`Execute_program` assumes the loop, and that instructions keep coming (strong
fairness of `DecodeOffers`): the decoder is fed, as `DecoderIsFed` says. Where
liveness is checked, memory answers; nothing is assumed of it beyond the tick.

`CHECK_DEADLOCK` is left on in the clocked specifications: some function can
always be called. `Datapath` ends when its one instruction has been executed.

## 4. What is proved

Every theorem is for all values of the constants that satisfy the named
assumptions of the modules. Of the front end, for every address space, queue
length, set of devices, kinds, execute behaviour and start address:

| Theorem | Statement | Assumes |
| --- | --- | --- |
| `FrontEndProofs!TypeCorrect` | `Spec => []TypeOK` | nothing more |
| `FrontEndProofs!FetchReadSafe` | `Spec => []FetchOwnsItsRead` | fetch before execute in first halves |
| `FrontEndProofs!ReadHasRoom` | `Spec => []RoomForTheRead` | the same |
| `FrontEndProofs!StreamSafe` | `Spec => []StreamInOrder` | the same |
| `FrontEndProofs!ReadsWholeWords` | `Spec => []ReadsAligned` | the same |
| `FrontEndProofs!ImplementsStream` | `Spec => ImplementsWordStream`: queue, latch and bus implement `WordStream` | the same |
| `DecodeProofs!OfferSafe` | `Spec => NoPendingInstructionOverwritten` | nothing more |
| `DecodeProofs!WordsSafe` | `Spec => NoWordDropped` | nothing more |
| `DecodeProofs!AddrInStep` | `Spec => []FetchAddrInStep` | the same order, and no kind that predicts |
| `DecodeProofs!PgcCorrect` | `Spec => []PgcFollowsOpcode` | the same |

Of the tables, the execute unit and the processor, for every set of instructions,
every program, and every answer of registers, flags and memory:

| Theorem | Statement | Assumes |
| --- | --- | --- |
| `TableProofs!EntryType` | `decode_mucode_entry` maps entries that exist to entries that exist | nothing |
| `TableProofs!DecodedType` | each of the 65536 words decodes to a `WellFormed` instruction | nothing |
| `ExecuteProofs!ExecuteTypeCorrect` | `Spec => []TypeOK` | `ExecuteUnitAssumption` |
| `ExecuteProofs!AccessesAnnounced` | `Spec => AccessAnnounced` | the same |
| `ExecuteProofs!AnswersReach` | `Spec => []AnswerReaches` | the same |
| `ExecuteProofs!MicroprogramsRun` | `Spec => RunsMicroprograms`: the unit implements `Microprogram` | the same, and `StraightInstructions` |
| `PilotProofs!PortIsKept` | `Spec => KeepsToThePort` | fetch before execute in first halves |
| `PilotProofs!RefinesFrontEnd` | `Spec => FE!Spec` | the same |
| `PilotProofs!PilotSafe` | the safety properties of the front end hold of the processor | the same |
| `PilotProofs!PilotStream` | `Spec => FE!ImplementsWordStream`: so does the refinement of `WordStream` | the same |
| `PilotProofs!ExecutesStraightPrograms` | `Spec => ExecutesTheProgram`: the processor implements `Isa` | the same, and that every program `RunsStraight` |
| `PilotProofs!PgcIsInPlace` | `Spec => []PgcOfInstruction` | the same |

Of the ALU, for every two operands of 8, 16 and 24 bits (`DatapathAssumption`):

| Theorem | Statement |
| --- | --- |
| `DatapathProofs!SumsCorrect` | `Spec => []SumsAreRight`: sums and differences are those of integers, cut to the size |
| `DatapathProofs!ComparisonsCorrect` | `Spec => []SignedConditions` |
| `DatapathProofs!ProductsCorrect` | `Spec => []ProductLow`: the routine of MUL multiplies, for all factors of 8 and 16 bits, signed and unsigned |
| `DatapathProofs!DatapathTypes` | `Spec => []TypeOK`: registers and latches keep their ranges, whatever the ALU does |

### The arguments

**Front end.** `FetchOwnsItsRead` and `RoomForTheRead` are not inductive: the
proof strengthens them to `ReadInv`, which adds that a waiting fetch unit is in
one of the two phases that collect the answer and will next ask for the word
after the one on the bus (`WaitingResumes`), and that only a free controller
shows valid data (`ValidWhenReady`). The call order enters in one place: an
execute call in a first half can only assert an access when fetch has already
looked. `StreamInOrder` sees the read in flight, the queue and the latch as one
row of cells (`Cell`) and says that neighbouring words, with only empty cells
between them, are consecutive; each fetch operation is then a lemma about rows
(shifting, storing at the near end, handing over at the far end, emptying), and
`ReadInv` supplies that the stored word is the one the row expects.
For `ImplementsStream` the row is read from its far end: the n-th word of the
abstract stream is the row's n-th occupied cell. That the occupied cells keep their
number and order when the row shifts is an induction over its places; the
theorems of the library that take a predicate cannot be used, so the set of places
for which it fails is taken, and its least member (`WFMin`) refuted.
`ReadsAligned` becomes inductive as `WordsAligned`: every address in the queue, in the
latches and on the branch lines is even, because each comes from a branch target, a
prediction (a sum of even numbers cut to an even width) or `NextWord`, which clears
the last bit; `ReadInv` keeps an execute access, whose address may be odd, away from
a read that is waited for.
`NoPendingInstructionOverwritten` rests on `WorksWithoutOffer`: a decoder that
is past DISPATCH_WAIT has no instruction on offer. `PgcCorrect` adds `InStep`
(the address reported is that of the oldest word) to the row invariant, and
`PgcHeld` for the operand phase of the decoder.

**Tables.** What a routine or a group of opcodes returns is built by EXCEPT from one
base record, so the lemmas say that writing each field keeps the type, and every
routine is a chain of such writes. The index of a register is used as it is
(`sel`): that it names a register is not part of the type, because some indices
do not.

**Execute unit.** The second half is a composition of functions on a record (`Works`),
so the lemmas of `SequencerProofs` are about functions, not about steps: each keeps
the type (`AdvancedType`), and what it does to the lines is bounded by what the port
allows. They need the two table theorems, since the next entry the unit runs is
whatever `decode_mucode_entry` names. The invariant `UnitInv` ties the phase to the
half in which the next call comes and to what has been announced. The essential
strengthening is `Announced`: a control word that accesses memory in a half was
announced by `execute_memory_backoff` in the cycle before, also when the unit was
blocked and retries from EXEC_HALF2_MEM_ASSERT. `AnswerReaches` becomes inductive as
`AnswerTracked`: an answer that must come at once is still to come, or is on the bus
now, or was seen (`Coming`).

`RunsMicroprograms` cannot be proved for every instruction, because it is false for
some: an entry that is the last of its routine or not, as a condition decides, leaves
`branch` set in `mucode_decoded_buffer` for the next routine to find (run
`Execute_stale`). `StraightInstructions` excludes the routines with such an entry;
7296 of the 65536 instruction words have one, and they are the conditional JR, DJNZ and
MUL. It holds of the instructions of `Execute_bus` and `Execute_program`. What is then
to be shown is that the buffer branches only while the routine that filled it goes on:
`OnTrack` relates the phase of the sequencer to the stage of the microprogram, and in
the middle of a routine says that every entry the buffer or `mucode_control` may give
next (`Ahead`) is one that may follow the last (`Inside`). One call may end an
instruction, take the next and load its first entry, and is one step of the promise: so
the lemmas follow the call with the record `v` of what was seen when it began (`Ended`,
`Taken`, `Evaluated`, `Loads`), through each group of phases, until the last one makes
`Promised(v, u)` of what is seen when it ends. The tables supply that a straight entry
has one successor, or a choice of entries and never the end (`StraightEntry`). An index
that names no register makes an instruction illegal between any two entries; that this
meets no branch in the buffer is `NoIndex`.

**Processor.** `Pilot` and `FrontEnd` have most of their variables in common, so the
refinement maps the rest: the instruction on offer becomes its kind, and the
execute unit's phase disappears. The simulation holds under `FrontInv` (the
invariant of the front end, through the mapping), `OfferInv` (what is on offer is
what the tables make of a word of the program) and `UnitInv`: a step of the real
sequencer is a step of the port because what it announces, asserts and raises is
bounded by the lemmas above. With it the theorems of the front end are instantiated
at the processor (`PilotSafe`).

**Programs.** `ExecutesStraightPrograms` is about every program, of any length and
anywhere in memory, that has a set of addresses, its code, with an opcode at each,
closed under going on to the next instruction, and no branch, multiplication or
division among them (`StraightCode`); what the other words hold does not matter, also
when they would decode to a branch. That is 50722 of the 65536 instruction words: all
but RST, REPR, DJNZ, JR, JP, CALL, JEA, MUL, DIV and the illegal ones. Branches and illegal
instructions are left out because `Isa` has none, MUL because it leaves `branch` set in
the buffer, DIV because its routine does not exist, and a REPI that repeats a REPI
never ends. The last instruction may be HALT, or the program runs around memory.

The invariant `ProgramInv` has two sides. That of the execute unit (`ExecInv`) says where
in an instruction it is, how often the instruction is still to be executed (`Left`: REPI,
but not while the REPI instruction itself is ending), that PGC is that of the
instruction unless it is repeated, and that nothing the buffered entry will write is PGC
or REPI. `Half2Straight` follows one call through its phases, as for `Microprogram`: it
ends where it began, counts down, or has taken what is offered (`Moves`), and needs of the
offer only `Handed`: that it is the instruction after the one in hand, and, in a
repetition, that the repeated one is still the last one dispatched. The side of the
other units (`InLine`) says that the decode unit is reading that instruction: the
opcode it holds or will read next is the follower of the one it last dispatched, and of
the words it has read the next one is n words further. `FetchAddrInStep` supplies that
the word in the latch is the one before the address reported with it; the bus, the queue
and when words arrive do not appear. HALT ends all obligations but one: nothing else
is taken (`HaltIsLast`).

**ALU.** The code adds by `a + b + carry` in 32 bits and masks; subtraction is by
complement. `SumCut` and `DifferenceCut` say that cutting commutes with both, and
`SignedOrder` that the sign of the difference, corrected by the overflow, orders
two signed words.

The bitwise operations are a recursive function on bits (`Alu!Common`; TLC compares it
with the community module in `MCExecuteData`). That the function is what its recursion
says, and that two words have no more in common than each has (`CommonBounds`), are
inductions over the naturals. The theorem of the library that does that takes a predicate,
which the prover cannot instantiate; `Upwards` proves it for a set instead, from the least
number outside it (`WFMin`). With these bounds the output of the ALU has at most 26 bits
(`AluOutput`), from which `TypeInv` follows, with one thing more: that MUL only runs
entries of its own routine.

`ProductLow` is the induction over the rounds of MUL. `Taken(a, b, N, K, signed, p, f)`
says that p is the product of a with the bits of b from the one worth K on, and that f
has the others, moved to the top; the first bit of a signed word counts as its negative
(`Worth`). `NoneTaken` holds before the loop, `BitTaken` is one round, and `AllTaken` is
the product. `MulInv` says at each entry how far its round is: the product has been doubled
(`ProductMoved`), the bit is in the latch (`FactorMoved`), the factor has been added
(`AfterRound`); and that bit 4 of `sel`, which makes the addition a subtraction, is set in
the first round of MULS and in no other. What the ALU does in an entry is computed from its
control word (`ShiftOfAlu`, `AddOfAlu`, `CountOfAlu`), and what an entry reads, writes and
leads to from the routines of `Mucode` (`LoadEntries`, `LoopEntries`, `LoopEnds`).

### Only model-checked, and why

* `RunsMicroprograms` of instructions that are not straight, and `ExecutesTheProgram` of
  programs that are not, are false or not stated (see above).
* `MemoryModesFetched`, `FitsDecode`, `LatchesQueued`, `WholeOperand`, `RoutinesEnd` and
  `RedirectsWhenBranching` have no parameter: `Opcodes_scan` visits all 65536
  words, so the check is exhaustive and a proof would add nothing.
* `MCExecuteData!TypeOK` and `EndsAsProgrammed`: the second is about the programs of the
  run, and the module compares with the bitwise operators of the community module, which
  are declared RECURSIVE.
* Liveness (`DecoderIsFed`, `OfferTaken`, `InstructionsEnd`): liveness under fairness
  is out of the prover's reach.

## 5. Plan

1. Front end (done): `MemCtl`, `Interconnect`, `Fetch`, `Decode`, `ExecutePort`,
   `FrontEnd`, `WordStream`, and their proofs.
2. Decode tables (done): `Operands`, `Opcodes`, over all 65536 words.
3. Microcode (done): `Mucode`, every routine reached from every word.
4. Execute unit (done): `Execute` over `Mucode`, against `Microprogram`.
5. The machine (done for programs without branches): `Pilot`, against `FrontEnd`
   and `Isa`. Programs with branches are where the code departs from what is
   written of it (`AwaitsBranch`).
6. ALU (done): `Alu`, `Datapath`.
7. Contents of memory and of `mem_data` (done for moves, arithmetic and
   register-indirect operands): `DataBus`, `ExecuteData`. Left: the PGC that a call
   pushes, the operands of bit instructions.
8. Theorems (done): the front end, the tables, types and bus of the execute unit, the
   sequencer against `Microprogram`, the processor against `FrontEnd`, sums and
   comparisons.
9. Refinements (done): `WordStream` by the front end and by the processor, `Isa` by the
   processor for every straight program.
10. Left: an `Isa` with branches, for the programs whose branches the code handles
    as written.

## 6. Not modelled, and why

* The values of calls, branches, repeats, bit and shift instructions and of
  absolute, indexed and relative operands in the sequencer: a multiplication and
  the single-cycle operations are computed with values in isolation (`Datapath`),
  moves and arithmetic in the execute unit (`ExecuteData`). F and IRL as operands,
  the demultiplexers and the latches behind `rm2_offset` are locations only. The
  data that a call or RST pushes is therefore not stated.
* The ALU in microcode entries other than those of a multiplication and of
  register-indirect operands: their
  destinations and their effect on the sequencer are in `Mucode` and `Execute`,
  their flag masks are not.
* Interrupts: `decoded_inst.interrupt` is cleared for every instruction and set by
  nothing in the repository; nothing clears `core.disable_clk` either, so a
  machine that has executed HALT stays stopped.
* Division: its microcode is not written yet.
* `printf` tracing of the bus.
