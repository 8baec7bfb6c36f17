----------------------------- MODULE MCExecuteData -----------------------------
(***************************************************************************)
(* Programs for model checking ExecuteData, and what they should do: the   *)
(* instructions one after another on registers and memory, with neither    *)
(* pipeline, microcode, latches nor bus.                                   *)
(***************************************************************************)
EXTENDS ExecuteData, Bitwise

\* Operands.  reg and imm are registers (or byte registers) and numbers.
Reg(r) == [mode |-> "reg", n |-> r]
Imm(n) == [mode |-> "imm", n |-> n]
Ind(r) == [mode |-> "ind", n |-> r]
Inc(r) == [mode |-> "inc", n |-> r]
Dec(r) == [mode |-> "dec", n |-> r]

\* name to, from
Ins(name, size, to, from) == [name |-> name, size |-> size, to |-> to, from |-> from]

-----------------------------------------------------------------------------
\* The instruction words.
RmOf(o, size) ==
  CASE o.mode = "reg" -> 4 * o.n
    [] o.mode = "ind" -> 4 * o.n + 2
    [] o.mode = "inc" -> 4 * o.n + 32
    [] o.mode = "dec" -> 4 * o.n + 34
    [] o.mode = "imm" -> IF size = 24 THEN 37 ELSE 33

SizeBits(size) == 16384 * ((size \div 8) - 1)
ImmediateWords(o, size) ==
  IF o.mode # "imm" THEN <<>> ELSE IF size = 24 THEN <<o.n % 65536, o.n \div 65536>> ELSE <<o.n>>

ArithmeticCode(name) ==
  CASE name = "ADD" -> 0 [] name = "SUB" -> 2 [] name = "AND" -> 4 [] name = "XOR" -> 5 [] name = "OR" -> 6

Words(i) ==
  LET rm == RmOf(i.to, i.size)
      code == 8 + ArithmeticCode(i.name)
  IN CASE i.name = "LD" ->
            <<SizeBits(i.size) + 4096 + 64 * rm + RmOf(i.from, i.size)>>
              \o ImmediateWords(i.from, i.size)
       [] i.name = "LDSX" -> <<SizeBits(i.size) + 6336 + 256 * i.to.n + RmOf(i.from, i.size)>>
       [] i.name = "LDQ"  -> <<51200 + 256 * i.to.n + i.from.n>>
       [] i.name = "LDP"  -> <<49152 + 256 * i.to.n + i.from.n \div 65536, i.from.n % 65536>>
       [] i.name \in Quick ->
            <<SizeBits(i.size) + 256 * i.from.n + (IF i.name = "SBQ" THEN 192 ELSE 64) + rm>>
       [] i.from.mode = "reg" ->
            <<SizeBits(i.size) + 8192 + 2048 * (code \div 4) + 256 * i.from.n + 64 * (code % 4) + rm>>
       [] OTHER ->
            <<SizeBits(i.size) + 14528 + 256 * ArithmeticCode(i.name) + rm>>
              \o ImmediateWords(i.from, i.size)

-----------------------------------------------------------------------------
\* One instruction: st has regs and mem.
Bytes(size) == size \div 8
Stored(mem, a, size, value) ==
  [x \in DOMAIN mem |-> IF x \in a..(a + Bytes(size) - 1) THEN (value \div 256 ^ (x - a)) % 256 ELSE mem[x]]
Loaded(mem, a, size) ==
  mem[a] + (IF size > 8 THEN 256 * mem[a + 1] ELSE 0) + (IF size > 16 THEN 65536 * mem[a + 2] ELSE 0)

\* A word of three bytes takes four.
Stride(size) == IF size = 24 THEN 4 ELSE Bytes(size)

Value(o, size, st) ==
  CASE o.mode = "imm"                   -> Truncated(o.n, size)
    [] o.mode = "reg" /\ size = 8       -> Truncated(st.regs[o.n % 4] \div (IF o.n < 4 THEN 1 ELSE 256), 8)
    [] o.mode = "reg" /\ size # 8       -> Truncated(st.regs[o.n], size)
    [] o.mode \in {"ind", "inc", "dec"} -> Loaded(st.mem, st.regs[o.n], size)

PutIn(o, size, value, st) ==
  CASE o.mode = "reg" /\ size = 8 ->
         LET r == o.n % 4
             unit == IF o.n < 4 THEN 1 ELSE 256
             old == Value(o, 8, st)
         IN [st EXCEPT !.regs[r] = @ + unit * (value - old)]
    [] o.mode = "reg" /\ size # 8       -> [st EXCEPT !.regs[o.n] = value]
    [] o.mode \in {"ind", "inc", "dec"} -> [st EXCEPT !.mem = Stored(@, st.regs[o.n], size, value)]

SteppedBefore(o, size, st) ==
  IF o.mode = "dec" THEN [st EXCEPT !.regs[o.n] = (@ + WordSize - Stride(size)) % WordSize] ELSE st
SteppedAfter(o, size, st) ==
  IF o.mode = "inc" THEN [st EXCEPT !.regs[o.n] = (@ + Stride(size)) % WordSize] ELSE st

Computed(name, size, a, b) ==
  CASE name = "ADD" -> (a + b) % 2 ^ size
    [] name = "SUB" -> (a - b) % 2 ^ size
    [] name = "AND" -> a & b
    [] name = "OR"  -> a | b
    [] name = "XOR" -> a ^^ b
    [] name = "ADQ" -> (a + b + 1) % 2 ^ size
    [] name = "SBQ" -> (a - b - 1) % 2 ^ size

SignExtended(a, size) == IF a >= 2 ^ (size - 1) THEN a + WordSize - 2 ^ size ELSE a

Done(i, start) ==
  LET st == SteppedBefore(i.to, i.size, start)
      b == IF i.name \in Quick THEN i.from.n ELSE Value(i.from, i.size, st)
  IN CASE i.name = "LD"   -> SteppedAfter(i.to, i.size, PutIn(i.to, i.size, b, st))
       [] i.name = "LDSX" -> PutIn(i.to, 24, SignExtended(b, i.size), st)
       [] i.name = "LDQ"  -> PutIn(i.to, 24, SignExtended(b, 8), st)
       [] i.name = "LDP"  -> PutIn(i.to, 24, b, st)
       [] OTHER           -> PutIn(i.to, i.size, Computed(i.name, i.size, Value(i.to, i.size, st), b), st)

-----------------------------------------------------------------------------
\* Registers 0 and 1 point to hram, to operands that are the same, overlap or are
\* apart, 3 to a slow memory; 2 holds data.
Base0 == HramStart
SlowCells == 32764..32774
RegsWith(distance) ==
  [r \in 0..7 |-> CASE r = 0 -> Base0
                    [] r = 1 -> Base0 + distance
                    [] r = 2 -> 10390372
                    [] r = 3 -> 32772
                    [] OTHER -> 257 * r]
Overlapping == {RegsWith(d) : d \in 0..2}
Apart == {RegsWith(4)}
Cells == [x \in (Base0..(Base0 + 10)) \cup SlowCells |-> (37 * x + 129) % 256]
CellAddrs == (Base0..(Base0 + 8)) \cup (SlowCells \ {32774})
SlowDevices == SlowCells \cup {0}

Written ==
  {Ins("LD", 16, Ind(0), Ind(1)), Ins("LD", 16, Ind(3), Ind(0)), Ins("LD", 8, Ind(1), Ind(3)),
   Ins("LD", 24, Inc(0), Reg(2)), Ins("LD", 24, Dec(3), Imm(1193046)), Ins("LD", 16, Ind(1), Imm(33023)),
   Ins("LD", 8, Ind(0), Reg(6)), Ins("XOR", 8, Reg(6), Reg(1)), Ins("SUB", 24, Reg(2), Imm(70000)),
   Ins("LDSX", 16, Reg(4), Reg(2)), Ins("LDQ", 8, Reg(2), Imm(200)),
   Ins("LDP", 24, Reg(2), Imm(9568222))}

Pairs == {<<i, j>> : i \in Written, j \in Written}

\* Programs of one instruction, of kinds that Written has not.
WordsInARow == {<<Ins("LD", 16, Inc(0), Reg(2))>>}
Adjustment == {<<Ins("ADQ", 16, Ind(1), Imm(3))>>}
LongCopy == {<<Ins("LD", 24, Ind(0), Ind(1))>>}

\* The fetch unit is called before, between or after the others.
DecodeFirst == {<<"decode", "execute">>}

\* Assembled once.
CONSTANT Listings
Assembled == {[n \in DOMAIN l |-> Words(l[n])] : l \in Listings}
Offers == {Instruction(0, NowhereYet, Decoded(0), 0, {}, FALSE)}
ListingOf == [p \in Assembled |-> CHOOSE l \in Listings : p = [n \in DOMAIN l |-> Words(l[n])]]

\* Every instruction has been executed and every access answered.
Finished ==
  /\ Offering > Len(program.code) /\ ~decoded_inst_semaph
  /\ exec.seq = "WAIT_NEXT_INS" /\ exec.phase = "HALF1_READY" /\ BusReady

StartOf(regs) == [regs |-> regs, mem |-> FirstMem]
Outcomes ==
  [p \in Assembled, regs \in FirstRegs |->
    LET after[n \in 0..Len(p)] ==
          IF n = 0 THEN StartOf(regs) ELSE Done(ListingOf[p][n], after[n - 1])
    IN after[Len(p)]]

-----------------------------------------------------------------------------
TypeOK ==
  /\ core.regs \in [0..7 -> 0..(WordSize - 1)] /\ core.F \subseteq Flags
  /\ {latches.a, latches.b, latches.mar, latches.mdr} \subseteq 0..(WordSize - 1)
  /\ memory \in [DOMAIN FirstMem -> 0..255]
  /\ {bus.out, bus.in} \subseteq 0..65535

Expected == Outcomes[program.code, program.regs]

\* When a program has been executed, registers and memory are what the instructions
\* make of them one after another: no store is lost behind the next load, no latch is
\* prepared twice by an assertion that is tried again, no answer goes elsewhere.
EndsAsProgrammed == Finished => core.regs = Expected.regs /\ memory = Expected.mem

\* DATA_SIZE is "the current ALU destination size" (types.h:119): an operand with
\* post-increment moves its register to the next operand.
StepsBySize == Finished => core.regs = Expected.regs

\* Of an operand that is source and destination the decoder says "fetch and set up
\* writeback" (cpu_decode_rm.c:55): memory ends up changed as the operation changes what
\* it held.
OperandFetched == Finished => memory = Expected.mem

\* MU_IND_MAR_AUTO is "used for 24-bit accesses" (types.h:41): a load and a store of a
\* long word copy its three bytes.
CopiesWholeWord ==
  Finished => \A x \in 0..2 : memory[program.regs[0] + x] = FirstMem[program.regs[1] + x]
================================================================================
