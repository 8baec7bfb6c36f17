------------------------------- MODULE MCDatapath -------------------------------
(***************************************************************************)
(* Operands for model checking Datapath, the arithmetic the results are    *)
(* compared with, and the properties.                                      *)
(***************************************************************************)
EXTENDS Datapath

\* The ends of both ranges, the sign change, and words with mixed bits.
Edges(size) ==
  {0, 1, 2 ^ (size - 1) - 1, 2 ^ (size - 1), 2 ^ (size - 1) + 1, 2 ^ size - 1,
   7 * 2 ^ (size - 4) + 9, 5 * 2 ^ (size - 3) + 15}
EdgeValues == [size \in Sizes |-> Edges(size)]

Signed(a, size) == IF a >= 2 ^ (size - 1) THEN a - 2 ^ size ELSE a

\* a times b, byte by byte of b, for words of up to 16 bits.
Product(a, b, size) ==
  (a * (b % 256) + 256 * ((a * (b \div 256)) % (2 ^ size))) % (2 ^ size)

Done(names) == inst.stage = "done" /\ inst.name \in names

\* The decimal flag changes 8-bit sums.
Binary == "D" \notin inst.F

-----------------------------------------------------------------------------
TypeOK ==
  /\ core.F \subseteq Flags
  /\ {core.latch_aux, core.used_z} \subseteq BOOLEAN
  /\ core.out \in 0..(2 ^ 26) /\ core.repi \in 0..31
  /\ {core.rd, core.r0, core.factor_a, core.factor_b} \subseteq 0..(WordSize - 1)
  /\ at \in EntrySpec

\* Sums and differences, with and without the carry in, are those of integers cut to
\* the size, and the zero and sign flags are those of the result.
SumsAreRight ==
  Done({"ADD", "ADX", "SUB", "SBX", "ADQ", "SBQ"}) /\ Binary =>
    LET with_carry == IF inst.name \in {"ADX", "SBX"} /\ "X" \in inst.F THEN 1 ELSE 0
        more == IF inst.name \in Quick THEN 1 ELSE 0
        b == inst.b + with_carry + more
        exact == IF inst.name \in {"ADD", "ADX", "ADQ"} THEN inst.a + b ELSE inst.a - b
    IN /\ Truncated(core.out, inst.size) = exact % 2 ^ inst.size
       /\ "Z" \in core.F <=> exact % 2 ^ inst.size = 0
       /\ "S" \in core.F <=> Signed(exact % 2 ^ inst.size, inst.size) < 0

\* After CP the conditions LT, GE, LE and GT are those of the signed operands.  (The
\* most negative second operand has no negative, and is not compared right.)
SignedConditions ==
  Done({"CP"}) /\ inst.b # 2 ^ (inst.size - 1) =>
    LET a == Signed(inst.a, inst.size)
        b == Signed(inst.b, inst.size)
    IN /\ Holds("COND_LT", core.F) <=> a < b
       /\ Holds("COND_GE", core.F) <=> a >= b
       /\ Holds("COND_LE", core.F) <=> a <= b
       /\ Holds("COND_GT", core.F) <=> a > b
       /\ Holds("COND_Z", core.F) <=> a = b

\* MUL leaves the low half of the product in the register: of signed and unsigned
\* factors of 8 and 16 bits.
ProductLow ==
  Done(Multiplications) /\ Binary /\ inst.size # 24 =>
    Truncated(core.rd, inst.size) = Product(inst.a, inst.b, inst.size)

\* "carry set; unsigned less than" (types.h:326): what COND_C says after CP.
UnsignedCondition == Done({"CP"}) => (Holds("COND_C", core.F) <=> inst.a < inst.b)
==============================================================================
