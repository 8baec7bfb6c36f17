---------------------------- MODULE DatapathProofs ----------------------------
(***************************************************************************)
(* Sums, differences, comparisons and products are right for every operand *)
(* where the runs try the ends of the ranges; registers and latches keep   *)
(* their ranges; and the bitwise functions are what their recursion says.  *)
(***************************************************************************)
EXTENDS MCDatapath, TableProofs, WellFoundedInduction, TLAPS

-----------------------------------------------------------------------------
(***************************************************************************)
(* Arithmetic.  A word has N values; from H on they have the top bit set.  *)
(***************************************************************************)
Width(N, H) ==
  \/ N = 256 /\ H = 128
  \/ N = 65536 /\ H = 32768
  \/ N = 16777216 /\ H = 8388608

\* The widths of the machine.
LEMMA Widths == \A size \in Sizes : Width(2 ^ size, 2 ^ (size - 1))
<1> SUFFICES ASSUME NEW size \in Sizes PROVE Width(2 ^ size, 2 ^ (size - 1))
  OBVIOUS
<1>1. CASE size = 8
  BY <1>1, SMT DEF Width
<1>2. CASE size = 16
  BY <1>2, SMT DEF Width
<1>3. CASE size = 24
  BY <1>3, SMT DEF Width
<1> QED
  BY <1>1, <1>2, <1>3, SMT DEF Sizes

\* The top bit of a word.
LEMMA TopBit ==
  ASSUME NEW N, NEW H, Width(N, H), NEW x \in Nat
  PROVE  (x \div H) % 2 = 1 <=> x % N >= H
<1>1. CASE N = 256 /\ H = 128
  BY <1>1, SMT
<1>2. CASE N = 65536 /\ H = 32768
  BY <1>2, SMT
<1>3. CASE N = 16777216 /\ H = 8388608
  BY <1>3, SMT
<1> QED
  BY <1>1, <1>2, <1>3, SMT DEF Width

\* The sum of the machine, which has 24 bits, cut to the width.
LEMMA SumCut ==
  ASSUME NEW N, NEW H, Width(N, H), NEW a \in Nat, NEW b \in Nat, a < N, b <= N
  PROVE  ((a + (b % N)) % 16777216) % N = (a + b) % N
<1>1. CASE N = 256 /\ H = 128
  BY <1>1, SMT
<1>2. CASE N = 65536 /\ H = 32768
  BY <1>2, SMT
<1>3. CASE N = 16777216 /\ H = 8388608
  BY <1>3, SMT
<1> QED
  BY <1>1, <1>2, <1>3, SMT DEF Width

\* The difference is the sum with the two's complement.
LEMMA DifferenceCut ==
  ASSUME NEW N, NEW H, Width(N, H), NEW a \in Nat, NEW b \in Nat, a < N, b <= N
  PROVE  ((a + (((N - (b % N)) % N) % N)) % 16777216) % N = (a - b) % N
<1>1. CASE N = 256 /\ H = 128
  BY <1>1, SMT
<1>2. CASE N = 65536 /\ H = 32768
  BY <1>2, SMT
<1>3. CASE N = 16777216 /\ H = 8388608
  BY <1>3, SMT
<1> QED
  BY <1>1, <1>2, <1>3, SMT DEF Width

-----------------------------------------------------------------------------
(***************************************************************************)
(* What the ALU does with the control words of sums and comparisons.       *)
(***************************************************************************)
Sums == {"ADD", "ADX", "SUB", "SBX", "ADQ", "SBQ"}

\* An addition of the second operand, or of its negative.
Adds(c, size) ==
  /\ c.operation = "ALU_ADD" /\ c.size1 = size /\ c.size2 = size
  /\ c.shifter = "SHIFTER_NONE" /\ ~c.and_aux /\ c.aux = "LATCH_AUX_NONE"
  /\ c.z_mode = "FLAG_Z_NORMAL" /\ c.v_mode = "FLAG_V_NORMAL"
  /\ {"S", "Z", "V"} \subseteq c.mask

\* The control words of arithmetic instructions.
LEMMA ArithControls ==
  ASSUME NEW name \in {"ADD", "ADX", "SUB", "SBX", "CP"}, NEW size,
         NEW c, c = ControlOf(name, size)
  PROVE  /\ Adds(c, size) /\ ~c.add1
         /\ c.sx2 <=> name = "CP"
         /\ name = "CP" => c.dest_size = 24
         /\ c.add_carry <=> name \in {"ADX", "SBX"}
         /\ c.negate <=> name \in {"SUB", "SBX", "CP"}
<1> DEFINE plain == [PlainControl(size) EXCEPT !.mask = ArithmeticFlags]
<1>1. c = ArithLogicControl(name, size)
  BY DEF ControlOf, ArithLogic, Shifts, Unaries, Quick, BitOperations
<1>2. CASE name # "CP"
  <2>1. c = [plain EXCEPT
               !.operation = "ALU_ADD", !.add_carry = name \in {"ADX", "SBX"},
               !.negate = name \in {"SUB", "SBX"}, !.invert = name \in {"SUB", "SBX"},
               !.mask = plain.mask \cup {"X"}]
    BY <1>1, <1>2 DEF ArithLogicControl, PlainControl, ArithmeticFlags
  <2>2. /\ c.operation = "ALU_ADD" /\ c.size1 = size /\ c.size2 = size
        /\ c.shifter = "SHIFTER_NONE" /\ ~c.and_aux /\ c.aux = "LATCH_AUX_NONE"
        /\ c.z_mode = "FLAG_Z_NORMAL" /\ c.v_mode = "FLAG_V_NORMAL"
    BY <2>1 DEF PlainControl
  <2>3. c.mask = ArithmeticFlags \cup {"X"}
    BY <2>1 DEF PlainControl
  <2>4. ~c.add1 /\ ~c.sx2 /\ (c.negate <=> name \in {"SUB", "SBX"})
        /\ (c.add_carry <=> name \in {"ADX", "SBX"})
    BY <2>1 DEF PlainControl
  <2> QED
    BY <1>2, <2>2, <2>3, <2>4 DEF Adds, ArithmeticFlags
<1>3. CASE name = "CP"
  <2>1. c = [plain EXCEPT !.operation = "ALU_ADD", !.negate = TRUE, !.invert = TRUE,
                          !.sx2 = TRUE, !.dest_size = 24]
    BY <1>1, <1>3 DEF ArithLogicControl, PlainControl, ArithmeticFlags
  <2>2. /\ c.operation = "ALU_ADD" /\ c.size1 = size /\ c.size2 = size
        /\ c.shifter = "SHIFTER_NONE" /\ ~c.and_aux /\ c.aux = "LATCH_AUX_NONE"
        /\ c.z_mode = "FLAG_Z_NORMAL" /\ c.v_mode = "FLAG_V_NORMAL"
    BY <2>1 DEF PlainControl
  <2>3. c.mask = ArithmeticFlags /\ c.dest_size = 24
    BY <2>1 DEF PlainControl
  <2>4. ~c.add1 /\ c.sx2 /\ c.negate /\ ~c.add_carry
    BY <2>1 DEF PlainControl
  <2> QED
    BY <1>3, <2>2, <2>3, <2>4 DEF Adds, ArithmeticFlags
<1> QED
  BY <1>2, <1>3

\* The control words of ADQ and SBQ.
LEMMA QuickControls ==
  ASSUME NEW name \in Quick, NEW size, NEW c, c = ControlOf(name, size)
  PROVE  /\ Adds(c, size) /\ c.add1 /\ ~c.sx2 /\ ~c.add_carry
         /\ c.negate <=> name = "SBQ"
<1>1. c = QuickControl(name, size)
  BY DEF ControlOf, ArithLogic, Shifts, Unaries, Quick, BitOperations
<1>2. /\ c.operation = "ALU_ADD" /\ c.size1 = size /\ c.size2 = size
      /\ c.shifter = "SHIFTER_NONE" /\ ~c.and_aux /\ c.aux = "LATCH_AUX_NONE"
      /\ c.z_mode = "FLAG_Z_NORMAL" /\ c.v_mode = "FLAG_V_NORMAL"
  BY <1>1 DEF QuickControl, PlainControl
<1>3. c.mask = ArithmeticFlags /\ c.add1 /\ ~c.sx2 /\ ~c.add_carry /\ (c.negate <=> name = "SBQ")
  BY <1>1 DEF QuickControl, PlainControl
<1> QED
  BY <1>2, <1>3 DEF Adds, ArithmeticFlags

\* An addition: its output and its flags.
LEMMA Added ==
  ASSUME NEW size, NEW c, Adds(c, size), NEW s, NEW a, NEW b
  PROVE  LET r == AluResult(c, s, a, b)
             b2 == Prepared(c, s, b)
             sum == (Truncated(a, size) + b2) % WordSize
         IN /\ r.out = Adjusted(c, s, Truncated(a, size), b2, sum)
            /\ "Z" \in r.F <=> Truncated(r.out, size) = 0
            /\ "S" \in r.F <=> IsSet(r.out, size - 1)
            /\ "V" \in r.F <=> Overflow(size - 1, Truncated(a, size), b2, r.out)
<1> DEFINE b2 == Prepared(c, s, b)
           sum == (Truncated(a, size) + b2) % WordSize
           out == Adjusted(c, s, Truncated(a, size), b2, sum)
<1>1. Shifted(c, s, b2) = b2
  BY DEF Adds, Shifted, LeftShifts, RightShifts
<1>2. Operated(c.operation, Truncated(a, size), b2) = sum
  BY DEF Adds, Operated
<1> HIDE DEF b2, sum
<1>3. AluResult(c, s, a, b).out = out
  BY <1>1, <1>2 DEF AluResult, Adds, b2
<1> HIDE DEF out
<1>4. "Z" \in AluResult(c, s, a, b).F <=> Truncated(out, size) = 0
  BY <1>1, <1>2 DEF AluResult, Adds, b2, out, Flags
<1>5. "S" \in AluResult(c, s, a, b).F <=> IsSet(out, size - 1)
  BY <1>1, <1>2 DEF AluResult, Adds, b2, out, Flags
<1>6. "V" \in AluResult(c, s, a, b).F <=> Overflow(size - 1, Truncated(a, size), b2, out)
  BY <1>1, <1>2 DEF AluResult, Adds, b2, out, Flags
<1> QED
  BY <1>3, <1>4, <1>5, <1>6 DEF b2, sum, out

\* The second operand of a sum, which has the carry and the one of ADQ and SBQ added.
LEMMA SecondOperand ==
  ASSUME NEW size, NEW c, Adds(c, size), ~c.sx2, NEW s, NEW b,
         NEW more, more = b + Number(c.add1) + Number(c.add_carry /\ "X" \in s.F)
  PROVE  Prepared(c, s, b) =
           IF c.negate
           THEN Truncated(Truncated(2 ^ size - Truncated(more, size), size), size)
           ELSE Truncated(more, size)
<1>1. Increased(c, s, b) = more
  BY DEF Increased, CarryIn, Adds
<1>2. Negated(c, more) =
        IF c.negate THEN Truncated(2 ^ size - Truncated(more, size), size) ELSE more
  BY DEF Negated, Adds
<1> QED
  BY <1>1, <1>2 DEF Prepared, Extended, Gated, Adds

\* A sum of the ALU is the sum, or the difference, cut to the size.
LEMMA SumOfAlu ==
  ASSUME NEW size \in Sizes, NEW c, Adds(c, size), ~c.sx2, NEW s, "D" \notin s.F,
         NEW a \in Nat, a < 2 ^ size, NEW b,
         NEW more \in Nat, more = b + Number(c.add1) + Number(c.add_carry /\ "X" \in s.F),
         more <= 2 ^ size,
         NEW exact \in Int, exact = IF c.negate THEN a - more ELSE a + more
  PROVE  LET r == AluResult(c, s, a, b)
         IN /\ Truncated(r.out, size) = exact % 2 ^ size
            /\ "Z" \in r.F <=> exact % 2 ^ size = 0
            /\ "S" \in r.F <=> exact % 2 ^ size >= 2 ^ (size - 1)
<1> DEFINE N == 2 ^ size
           H == 2 ^ (size - 1)
           r == AluResult(c, s, a, b)
           b2 == Prepared(c, s, b)
<1>1. Width(N, H)
  BY Widths
<1>2. N \in Nat /\ N > 0 /\ H \in Nat /\ H > 0
  BY <1>1, SMT DEF Width
<1>3. Truncated(a, size) = a
  BY <1>2 DEF Truncated
<1>4. r.out = (a + b2) % WordSize
  BY <1>3, Added DEF Adjusted
<1>5. b2 = IF c.negate THEN ((N - (more % N)) % N) % N ELSE more % N
  BY SecondOperand DEF Truncated
<1> HIDE DEF N, H, r, b2
<1>6. WordSize = 16777216
  BY SMT DEF WordSize
<1>7. r.out % N = exact % N
  <2>1. CASE c.negate
    BY <1>1, <1>4, <1>5, <1>6, <2>1, DifferenceCut DEF N
  <2>2. CASE ~c.negate
    BY <1>1, <1>4, <1>5, <1>6, <2>2, SumCut DEF N
  <2> QED
    BY <2>1, <2>2
<1>8. r.out \in Nat
  BY <1>1, <1>2, <1>4, <1>5, <1>6, SMT DEF Width
<1>9. "S" \in r.F <=> exact % N >= H
  <2>1. "S" \in r.F <=> (r.out \div H) % 2 = 1
    BY Added DEF r, H, IsSet, Bit
  <2>2. (r.out \div H) % 2 = 1 <=> r.out % N >= H
    BY <1>1, <1>8, TopBit
  <2> QED
    BY <1>7, <2>1, <2>2
<1>10. "Z" \in r.F <=> Truncated(r.out, size) = 0
  BY Added DEF r
<1> QED
  BY <1>7, <1>9, <1>10 DEF Truncated, N, H, r

-----------------------------------------------------------------------------
(***************************************************************************)
(* Comparisons: the sign and the overflow of a difference tell which of    *)
(* two signed words is the less.                                           *)
(***************************************************************************)
\* The negative of a word, with its sign extended to 24 bits.
Opposite(b, N, H) ==
  LET word == ((N - (b % N)) % N) % N
  IN IF (word \div H) % 2 = 1 THEN word + 16777216 - N ELSE word

TopBitOf(x, H) == (x \div H) % 2

\* Sign and overflow differ exactly when the first word is the less.
LEMMA SignedOrder ==
  ASSUME NEW N, NEW H, Width(N, H), NEW a \in Nat, NEW b \in Nat, a < N, b < N, b # H,
         NEW b2, b2 = Opposite(b, N, H), NEW out, out = (a + b2) % 16777216,
         NEW sa, sa = IF a >= H THEN a - N ELSE a,
         NEW sb, sb = IF b >= H THEN b - N ELSE b,
         NEW ba, ba = TopBitOf(a, H), NEW bb, bb = TopBitOf(b2, H), NEW bo, bo = TopBitOf(out, H)
  PROVE  ((bo = 1) # (bb # bo /\ ba # bo)) <=> sa < sb
<1>1. CASE N = 256 /\ H = 128
  BY <1>1, SMT DEF Opposite, TopBitOf
<1>2. CASE N = 65536 /\ H = 32768
  BY <1>2, SMT DEF Opposite, TopBitOf
<1>3. CASE N = 16777216 /\ H = 8388608
  BY <1>3, SMT DEF Opposite, TopBitOf
<1> QED
  BY <1>1, <1>2, <1>3, SMT DEF Width

\* The difference is zero exactly when the words are the same.
LEMMA EqualWords ==
  ASSUME NEW N, NEW H, Width(N, H), NEW a \in Nat, NEW b \in Nat, a < N, b < N,
         NEW b2, b2 = Opposite(b, N, H), NEW out, out = (a + b2) % 16777216
  PROVE  out \in Nat /\ (out % N = 0 <=> a = b)
<1>1. CASE N = 256 /\ H = 128
  BY <1>1, SMT DEF Opposite
<1>2. CASE N = 65536 /\ H = 32768
  BY <1>2, SMT DEF Opposite
<1>3. CASE N = 16777216 /\ H = 8388608
  BY <1>3, SMT DEF Opposite
<1> QED
  BY <1>1, <1>2, <1>3, SMT DEF Width

\* The control word of CP.
Compares(c, size) ==
  Adds(c, size) /\ ~c.add1 /\ ~c.add_carry /\ c.sx2 /\ c.negate /\ c.dest_size = 24

\* The second operand of a comparison.
LEMMA ComparedOperand ==
  ASSUME NEW size, NEW c, Compares(c, size), NEW s, NEW b \in Nat
  PROVE  Prepared(c, s, b) = Opposite(b, 2 ^ size, 2 ^ (size - 1))
<1> DEFINE word == Truncated(Truncated(2 ^ size - Truncated(b, size), size), size)
<1>1. Increased(c, s, b) = b
  BY SMT DEF Increased, Number, Compares
<1>2. Negated(c, b) = Truncated(2 ^ size - Truncated(b, size), size)
  BY DEF Negated, Compares, Adds
<1>3. Gated(c, s, Negated(c, b)) = Negated(c, b)
  BY DEF Gated, Compares, Adds
<1>4. Prepared(c, s, b) = Extended(Negated(c, b), size, TRUE)
  BY <1>1, <1>3 DEF Prepared, Compares, Adds
<1>5. Extended(Negated(c, b), size, TRUE) =
        IF IsSet(word, size - 1) THEN word + WordSize - 2 ^ size ELSE word
  BY <1>2 DEF Extended
<1>6. WordSize = 16777216
  BY SMT DEF WordSize
<1>7. Opposite(b, 2 ^ size, 2 ^ (size - 1)) =
        IF IsSet(word, size - 1) THEN word + WordSize - 2 ^ size ELSE word
  BY <1>6, SMT DEF Opposite, IsSet, Bit, Truncated
<1> QED
  BY <1>4, <1>5, <1>7

\* The conditions after a comparison of the ALU are those of the signed operands.
LEMMA CompareOfAlu ==
  ASSUME NEW size \in Sizes, NEW c, Compares(c, size), NEW s,
         NEW a \in Nat, a < 2 ^ size, NEW b \in Nat, b < 2 ^ size, b # 2 ^ (size - 1),
         NEW F, F = AluResult(c, s, a, b).F
  PROVE  /\ Holds("COND_LT", F) <=> Signed(a, size) < Signed(b, size)
         /\ Holds("COND_GE", F) <=> Signed(a, size) >= Signed(b, size)
         /\ Holds("COND_LE", F) <=> Signed(a, size) <= Signed(b, size)
         /\ Holds("COND_GT", F) <=> Signed(a, size) > Signed(b, size)
         /\ Holds("COND_Z", F) <=> Signed(a, size) = Signed(b, size)
<1> DEFINE N == 2 ^ size
           H == 2 ^ (size - 1)
           b2 == Opposite(b, N, H)
           out == (a + b2) % WordSize
           sa == Signed(a, size)
           sb == Signed(b, size)
<1>1. Width(N, H)
  BY Widths
<1>2. Truncated(a, size) = a
  BY <1>1, SMT DEF Truncated, Width
<1>3. Adds(c, size) /\ c.dest_size = 24
  BY DEF Compares
<1>4. Prepared(c, s, b) = b2
  BY ComparedOperand
<1>5. WordSize = 16777216
  BY SMT DEF WordSize
<1>6. AluResult(c, s, a, b).out = out
  BY <1>2, <1>3, <1>4, Added DEF Adjusted
<1>7. "Z" \in F <=> out % N = 0
  BY <1>3, <1>6, Added DEF Truncated
<1>8. "S" \in F <=> TopBitOf(out, H) = 1
  BY <1>3, <1>6, Added DEF IsSet, Bit, TopBitOf
<1>9. "V" \in F <=> TopBitOf(b2, H) # TopBitOf(out, H) /\ TopBitOf(a, H) # TopBitOf(out, H)
  BY <1>2, <1>3, <1>4, <1>6, Added DEF Overflow, Bit, TopBitOf
<1>10. sa = (IF a >= H THEN a - N ELSE a) /\ sb = (IF b >= H THEN b - N ELSE b)
  BY DEF Signed
<1>11. a < N /\ b < N /\ b # H
  OBVIOUS
<1> HIDE DEF N, H, b2, out, sa, sb
<1>12. ((TopBitOf(out, H) = 1)
        # (TopBitOf(b2, H) # TopBitOf(out, H) /\ TopBitOf(a, H) # TopBitOf(out, H)))
       <=> sa < sb
  <2>1. out = (a + b2) % 16777216
    BY <1>5, SMT DEF out
  <2> QED
    BY <1>1, <1>10, <1>11, <2>1, SignedOrder, SMT DEF b2
<1>13. out % N = 0 <=> a = b
  <2>1. out = (a + b2) % 16777216
    BY <1>5, SMT DEF out
  <2> QED
    BY <1>1, <1>11, <2>1, EqualWords, SMT DEF b2
<1>14. sa \in Int /\ sb \in Int /\ (sa = sb <=> a = b)
  BY <1>1, <1>10, <1>11, SMT DEF Width
<1>15. (("S" \in F) # ("V" \in F)) <=> sa < sb
  BY <1>8, <1>9, <1>12
<1>16. "Z" \in F <=> sa = sb
  BY <1>7, <1>13, <1>14
<1> DEFINE z == "Z" \in F
           l == ("S" \in F) # ("V" \in F)
<1>17. /\ Holds("COND_LT", F) <=> l
       /\ Holds("COND_GE", F) <=> ~l
       /\ Holds("COND_LE", F) <=> (z \/ l)
       /\ Holds("COND_GT", F) <=> (~z /\ ~l)
       /\ Holds("COND_Z", F) <=> z
  BY DEF Holds
<1>18. (l <=> sa < sb) /\ (z <=> sa = sb)
  BY <1>15, <1>16
<1> HIDE DEF z, l
<1>19. /\ ~(sa < sb) <=> sa >= sb
       /\ (sa = sb \/ sa < sb) <=> sa <= sb
       /\ (sa # sb /\ ~(sa < sb)) <=> sa > sb
  BY <1>14, SMT
<1> QED
  BY <1>17, <1>18, <1>19 DEF sa, sb

-----------------------------------------------------------------------------
(***************************************************************************)
(* The instructions.                                                       *)
(***************************************************************************)
\* What the ALU makes of an addition or subtraction.
LEMMA SumOfInstruction ==
  ASSUME NEW name \in Sums, NEW size \in Sizes, NEW s, "D" \notin s.F,
         NEW a \in Nat, a < 2 ^ size, NEW b \in Nat, b < 2 ^ size,
         NEW r, r = AluResult(ControlOf(name, size), s, a, b),
         NEW with_carry, with_carry = IF name \in {"ADX", "SBX"} /\ "X" \in s.F THEN 1 ELSE 0,
         NEW one, one = IF name \in Quick THEN 1 ELSE 0,
         NEW more, more = b + with_carry + one,
         NEW exact, exact = IF name \in {"ADD", "ADX", "ADQ"} THEN a + more ELSE a - more
  PROVE  /\ Truncated(r.out, size) = exact % 2 ^ size
         /\ "Z" \in r.F <=> exact % 2 ^ size = 0
         /\ "S" \in r.F <=> Signed(exact % 2 ^ size, size) < 0
<1> DEFINE c == ControlOf(name, size)
           N == 2 ^ size
           H == 2 ^ (size - 1)
<1>1. /\ Adds(c, size) /\ ~c.sx2
      /\ c.negate <=> name \in {"SUB", "SBX", "SBQ"}
      /\ c.add_carry <=> name \in {"ADX", "SBX"}
      /\ c.add1 <=> name \in Quick
  <2>1. CASE name \in Quick
    BY <2>1, QuickControls DEF Quick
  <2>2. CASE name \in {"ADD", "ADX", "SUB", "SBX"}
    BY <2>2, ArithControls DEF Quick
  <2> QED
    BY <2>1, <2>2 DEF Sums, Quick
<1>2. Width(N, H)
  BY Widths
<1>3. /\ with_carry = Number(c.add_carry /\ "X" \in s.F)
      /\ one = Number(c.add1)
  BY <1>1 DEF Number
<1>4. with_carry \in {0, 1} /\ one \in {0, 1} /\ (with_carry = 0 \/ one = 0)
  BY DEF Quick
<1> HIDE DEF c, N, H
<1>5. more \in Nat /\ more = b + Number(c.add1) + Number(c.add_carry /\ "X" \in s.F)
  <2>1. more \in Nat /\ more = b + one + with_carry
    BY <1>4, SMT
  <2> QED
    BY <1>3, <2>1
<1>6. more <= N
  <2>1. b < N /\ N \in Nat
    BY <1>2, SMT DEF N, Width
  <2> QED
    BY <1>4, <2>1, SMT
<1>7. exact \in Int /\ exact = IF c.negate THEN a - more ELSE a + more
  <2>1. name \in {"ADD", "ADX", "ADQ"} <=> ~c.negate
    BY <1>1 DEF Sums
  <2> QED
    BY <1>5, <2>1, SMT
<1>8. /\ Truncated(r.out, size) = exact % N
      /\ "Z" \in r.F <=> exact % N = 0
      /\ "S" \in r.F <=> exact % N >= H
  BY <1>1, <1>5, <1>6, <1>7, SumOfAlu DEF c, N, H
<1>9. Signed(exact % N, size) < 0 <=> exact % N >= H
  <2>1. Signed(exact % N, size) = IF exact % N >= H THEN (exact % N) - N ELSE exact % N
    BY DEF Signed, N, H
  <2>2. exact % N \in Int /\ exact % N >= 0 /\ exact % N < N /\ N \in Int /\ H \in Int
    BY <1>2, <1>7, SMT DEF Width
  <2> QED
    BY <2>1, <2>2, SMT
<1> QED
  BY <1>8, <1>9 DEF N

\* What the sums are of, and that the flags are still the ones it was offered with.
Instruction ==
  /\ inst.name \in SingleCycle \cup Multiplications /\ inst.size \in SizesOf(inst.name)
  /\ inst.a \in Values[inst.size] /\ inst.b \in SecondOperands(inst.name, inst.size)
  /\ inst = [name |-> inst.name, size |-> inst.size, a |-> inst.a, b |-> inst.b,
             F |-> inst.F, stage |-> inst.stage]
Untouched == inst.stage = "offered" => core.F = inst.F
OnlyMulRuns == inst.stage = "running" => inst.name \in Multiplications
DatapathInv == Instruction /\ Untouched /\ OnlyMulRuns /\ SumsAreRight /\ SignedConditions

\* The operands of sums and comparisons are words of the size.
LEMMA Operands ==
  ASSUME Instruction, inst.name \in Sums \cup {"CP"}
  PROVE  /\ inst.size \in Sizes
         /\ inst.a \in Nat /\ inst.a < 2 ^ inst.size
         /\ inst.b \in Nat /\ inst.b < 2 ^ inst.size
<1> DEFINE N == 2 ^ inst.size
<1>1. inst.size \in Sizes
  BY DEF Instruction, SizesOf, Sums, BitOperations
<1>2. N \in Nat /\ N > 8
  BY <1>1, Widths, SMT DEF Width
<1>3. Values[inst.size] \subseteq 0..(N - 1)
  BY <1>1, DatapathAssumption
<1>4. inst.b \in 0..7 \/ inst.b \in Values[inst.size]
  BY DEF Instruction, SecondOperands, Sums, Quick, Shifts, Unaries, BitOperations
<1>5. inst.a \in Values[inst.size]
  BY DEF Instruction
<1> HIDE DEF N
<1>6. /\ inst.a \in Nat /\ inst.a < N
      /\ inst.b \in Nat /\ inst.b < N
  BY <1>2, <1>3, <1>4, <1>5, SMT
<1> QED
  BY <1>1, <1>6 DEF N

\* Names of instructions with one cycle of the ALU.
LEMMA Names ==
  /\ Sums \cup {"CP"} \subseteq SingleCycle
  /\ \A name \in Multiplications : name \notin Sums \cup {"CP"}
BY DEF Sums, SingleCycle, Multiplications, ArithLogic, Quick

\* The invariant holds before the first cycle.
LEMMA DatapathInvInit == Init => DatapathInv
BY DEF Init, DatapathInv, Instruction, Untouched, OnlyMulRuns, SumsAreRight,
       SignedConditions, Done

\* One cycle of the ALU leaves the right sum and the right flags.
LEMMA ComputeIsRight ==
  ASSUME DatapathInv, Compute
  PROVE  DatapathInv'
<1> DEFINE r == AluResult(ControlOf(inst.name, inst.size), core, inst.a, inst.b)
<1>1. /\ core' = WithResult(core, r) /\ inst' = [inst EXCEPT !.stage = "done"]
      /\ inst.stage = "offered" /\ inst.name \in SingleCycle /\ core.F = inst.F
      /\ Instruction
  BY DEF Compute, DatapathInv, Untouched
<1>2. /\ inst'.name = inst.name /\ inst'.size = inst.size /\ inst'.a = inst.a
      /\ inst'.b = inst.b /\ inst'.F = inst.F /\ inst'.stage = "done"
      /\ inst' = [name |-> inst.name, size |-> inst.size, a |-> inst.a, b |-> inst.b,
                  F |-> inst.F, stage |-> "done"]
  BY <1>1 DEF Instruction
<1>3. Instruction' /\ Untouched' /\ OnlyMulRuns'
  BY <1>1, <1>2 DEF Instruction, Untouched, OnlyMulRuns
<1>4. core'.out = r.out /\ core'.F = r.F
  BY <1>1 DEF WithResult
<1>5. SumsAreRight'
  <2> SUFFICES ASSUME inst.name \in Sums, "D" \notin inst.F PROVE SumsAreRight'
    BY <1>2 DEF SumsAreRight, Done, Binary, Sums
  <2>1. /\ inst.size \in Sizes
        /\ inst.a \in Nat /\ inst.a < 2 ^ inst.size
        /\ inst.b \in Nat /\ inst.b < 2 ^ inst.size
    BY <1>1, Operands
  <2> DEFINE with_carry == IF inst.name \in {"ADX", "SBX"} /\ "X" \in core.F THEN 1 ELSE 0
             one == IF inst.name \in Quick THEN 1 ELSE 0
             more == inst.b + with_carry + one
             exact == IF inst.name \in {"ADD", "ADX", "ADQ"} THEN inst.a + more
                      ELSE inst.a - more
  <2>2. /\ Truncated(r.out, inst.size) = exact % 2 ^ inst.size
        /\ "Z" \in r.F <=> exact % 2 ^ inst.size = 0
        /\ "S" \in r.F <=> Signed(exact % 2 ^ inst.size, inst.size) < 0
    <3> HIDE DEF with_carry, one, more, exact
    <3> USE DEF r
    <3>1. /\ with_carry = IF inst.name \in {"ADX", "SBX"} /\ "X" \in core.F THEN 1 ELSE 0
          /\ one = IF inst.name \in Quick THEN 1 ELSE 0
          /\ more = inst.b + with_carry + one
          /\ exact = IF inst.name \in {"ADD", "ADX", "ADQ"} THEN inst.a + more
                     ELSE inst.a - more
      BY DEF with_carry, one, more, exact
    <3>2. "D" \notin core.F
      BY <1>1
    <3> QED
      BY <2>1, <3>1, <3>2, SumOfInstruction
  <2> HIDE DEF r
  <2> QED
    BY <1>1, <1>2, <1>4, <2>2 DEF SumsAreRight
<1>6. SignedConditions'
  <2> SUFFICES ASSUME inst.name = "CP", inst.b # 2 ^ (inst.size - 1) PROVE SignedConditions'
    BY <1>2 DEF SignedConditions, Done
  <2>1. /\ inst.size \in Sizes
        /\ inst.a \in Nat /\ inst.a < 2 ^ inst.size
        /\ inst.b \in Nat /\ inst.b < 2 ^ inst.size
    BY <1>1, Operands
  <2>2. Compares(ControlOf("CP", inst.size), inst.size)
    BY ArithControls DEF Compares
  <2> DEFINE F == r.F
  <2>3. F = AluResult(ControlOf("CP", inst.size), core, inst.a, inst.b).F
    OBVIOUS
  <2> HIDE DEF F
  <2>4. /\ Holds("COND_LT", F) <=> Signed(inst.a, inst.size) < Signed(inst.b, inst.size)
        /\ Holds("COND_GE", F) <=> Signed(inst.a, inst.size) >= Signed(inst.b, inst.size)
        /\ Holds("COND_LE", F) <=> Signed(inst.a, inst.size) <= Signed(inst.b, inst.size)
        /\ Holds("COND_GT", F) <=> Signed(inst.a, inst.size) > Signed(inst.b, inst.size)
        /\ Holds("COND_Z", F) <=> Signed(inst.a, inst.size) = Signed(inst.b, inst.size)
    BY <2>1, <2>2, <2>3, CompareOfAlu
  <2>5. Signed(inst.a, inst.size) = Signed(inst.b, inst.size) <=> inst.a = inst.b
    <3>1. Width(2 ^ inst.size, 2 ^ (inst.size - 1))
      BY <2>1, Widths
    <3> QED
      BY <2>1, <3>1, SMT DEF Signed, Width
  <2>6. core'.F = F
    BY <1>4 DEF F
  <2> QED
    BY <1>2, <2>4, <2>6 DEF SignedConditions
<1> QED
  BY <1>3, <1>5, <1>6 DEF DatapathInv

\* Every step keeps the invariant.
LEMMA DatapathInvNext ==
  ASSUME DatapathInv, [Next]_vars
  PROVE  DatapathInv'
<1>1. CASE Compute
  BY <1>1, ComputeIsRight
<1>2. ASSUME StartMul \/ MulStepEnds PROVE DatapathInv'
  <2>1. inst.name \in Multiplications /\ Instruction
    BY <1>2 DEF StartMul, MulStepEnds, DatapathInv, OnlyMulRuns
  <2>2. PICK stage \in {"running", "done"} :
          /\ inst' = [name |-> inst.name, size |-> inst.size, a |-> inst.a, b |-> inst.b,
                      F |-> inst.F, stage |-> stage]
    BY <1>2, <2>1 DEF StartMul, MulStepEnds, Instruction
  <2>3. /\ inst'.name = inst.name /\ inst'.size = inst.size /\ inst'.a = inst.a
        /\ inst'.b = inst.b /\ inst'.F = inst.F /\ inst'.stage = stage
    BY <2>2
  <2>4. Instruction' /\ Untouched' /\ OnlyMulRuns'
    BY <2>1, <2>2, <2>3 DEF Instruction, Untouched, OnlyMulRuns
  <2>5. inst'.name \notin Sums \cup {"CP"}
    BY <2>1, <2>3, Names
  <2>6. SumsAreRight' /\ SignedConditions'
    BY <2>5 DEF SumsAreRight, SignedConditions, Done, Sums
  <2> QED
    BY <2>4, <2>6 DEF DatapathInv
<1>3. CASE UNCHANGED vars
  BY <1>3 DEF vars, DatapathInv, Instruction, Untouched, OnlyMulRuns, SumsAreRight,
              SignedConditions, Done, Binary
<1> QED
  BY <1>1, <1>2, <1>3 DEF Next

\* ADD, ADX, ADQ, SUB, SBX and SBQ give the sum or difference of integers, cut to the
\* size, and its sign and zero flags, for every two words, in the binary mode.
THEOREM SumsCorrect == Spec => []SumsAreRight
<1>1. DatapathInv => SumsAreRight
  BY DEF DatapathInv
<1> QED
  BY DatapathInvInit, DatapathInvNext, <1>1, PTL DEF Spec

\* After CP the conditions are those of the signed operands, for every two words but
\* the most negative second one.
THEOREM ComparisonsCorrect == Spec => []SignedConditions
<1>1. DatapathInv => SignedConditions
  BY DEF DatapathInv
<1> QED
  BY DatapathInvInit, DatapathInvNext, <1>1, PTL DEF Spec

\* A set of naturals has a least element.
LEMMA Least ==
  ASSUME NEW T, T \subseteq Nat, T # {}
  PROVE  \E x \in T : \A y \in T : x <= y
<1> DEFINE R == OpToRel(<, Nat)
<1>1. IsWellFoundedOn(R, Nat)
  BY NatLessThanWellFounded
<1>2. \A x, y \in Nat : y < x => <<y, x>> \in R
  BY DEF OpToRel
<1> HIDE DEF R
<1>3. PICK x \in T : \A y \in T : ~ (<<y, x>> \in R)
  BY <1>1, WFMin
<1>4. x \in Nat /\ \A y \in T : y \in Nat
  OBVIOUS
<1>5. \A y \in T : ~(y < x)
  BY <1>2, <1>3, <1>4
<1> QED
  BY <1>4, <1>5

\* Induction over the naturals, with a set for the induction hypothesis.
LEMMA Upwards ==
  ASSUME NEW S, \A n \in Nat : (\A m \in 0..(n - 1) : m \in S) => n \in S
  PROVE  \A n \in Nat : n \in S
<1> DEFINE T == {n \in Nat : n \notin S}
<1> SUFFICES ASSUME T # {} PROVE FALSE
  OBVIOUS
<1>1. T \subseteq Nat
  OBVIOUS
<1>2. PICK x \in T : \A y \in T : x <= y
  BY <1>1, Least
<1>3. x \in Nat /\ \A m \in 0..(x - 1) : m \in S
  BY <1>2
<1> QED
  BY <1>3

-----------------------------------------------------------------------------
(***************************************************************************)
(* Common, which is recursive over the bits.                               *)
(***************************************************************************)
Tables == [Nat -> [Nat -> Nat]]

\* What the recursion says.
BitByBit(f, a, b) ==
  IF a = 0 \/ b = 0 THEN 0 ELSE (a % 2) * (b % 2) + 2 * f[a \div 2][b \div 2]

SolvesUpTo(f, n) ==
  f \in Tables /\ \A a \in 0..n : \A b \in Nat : f[a][b] = BitByBit(f, a, b)

\* Halves of a number are smaller.
LEMMA Halves ==
  ASSUME NEW a \in Nat
  PROVE  /\ a \div 2 \in Nat /\ a % 2 \in {0, 1} /\ a = 2 * (a \div 2) + (a % 2)
         /\ a # 0 => a \div 2 <= a - 1
BY SMT

\* One step of the recursion gives a number.
LEMMA BitByBitType ==
  ASSUME NEW f \in Tables, NEW a \in Nat, NEW b \in Nat
  PROVE  BitByBit(f, a, b) \in Nat
<1>1. f[a \div 2][b \div 2] \in Nat
  BY Halves DEF Tables
<1>2. (a % 2) * (b % 2) \in Nat
  BY Halves, SMT
<1> QED
  BY <1>1, <1>2 DEF BitByBit

\* The recursion has solutions as far as one likes, ...
LEMMA Solved == \A n \in Nat : \E f : SolvesUpTo(f, n)
<1> DEFINE S == {n \in Nat : \E f : SolvesUpTo(f, n)}
<1>1. ASSUME NEW n \in Nat, \A m \in 0..(n - 1) : m \in S
      PROVE  n \in S
  <2>1. CASE n = 0
    <3> DEFINE f == [a \in Nat |-> [b \in Nat |-> 0]]
    <3>1. f \in Tables
      BY DEF Tables
    <3>2. \A b \in Nat : f[0][b] = 0
      OBVIOUS
    <3> HIDE DEF f
    <3>3. \A a \in 0..n : \A b \in Nat : f[a][b] = BitByBit(f, a, b)
      BY <2>1, <3>2 DEF BitByBit
    <3> QED
      BY <3>1, <3>3 DEF SolvesUpTo
  <2>2. CASE n # 0
    <3>1. n - 1 \in 0..(n - 1)
      BY <2>2
    <3>2. PICK f : SolvesUpTo(f, n - 1)
      BY <1>1, <3>1
    <3> DEFINE row == [b \in Nat |-> BitByBit(f, n, b)]
               g == [a \in Nat |-> IF a = n THEN row ELSE f[a]]
    <3>3. f \in Tables
      BY <3>2 DEF SolvesUpTo
    <3>4. row \in [Nat -> Nat] /\ \A b \in Nat : row[b] = BitByBit(f, n, b)
      BY <3>3, BitByBitType
    <3> HIDE DEF row
    <3>5. g \in Tables /\ \A a \in Nat : g[a] = IF a = n THEN row ELSE f[a]
      BY <3>3, <3>4 DEF Tables
    <3> HIDE DEF g
    <3>6. ASSUME NEW a \in 0..n, NEW b \in Nat PROVE g[a][b] = BitByBit(g, a, b)
      <4>1. a # 0 => a \div 2 \in Nat /\ a \div 2 # n
        BY Halves
      <4>2. a # 0 => g[a \div 2] = f[a \div 2]
        BY <3>5, <4>1
      <4>3. BitByBit(g, a, b) = BitByBit(f, a, b)
        BY <4>2 DEF BitByBit
      <4>4. a # n => f[a][b] = BitByBit(f, a, b)
        BY <3>2 DEF SolvesUpTo
      <4> QED
        BY <3>4, <3>5, <4>3, <4>4
    <3> QED
      BY <3>5, <3>6 DEF SolvesUpTo
  <2> QED
    BY <2>1, <2>2
<1> HIDE DEF S
<1>2. \A n \in Nat : n \in S
  BY <1>1, Upwards
<1> QED
  BY <1>2 DEF S

\* ... and so far they agree.
LEMMA SolutionsAgree ==
  ASSUME NEW f, NEW g, NEW n \in Nat, NEW k \in Nat, SolvesUpTo(f, n), SolvesUpTo(g, k)
  PROVE  \A a, b \in Nat : a <= n /\ a <= k => f[a][b] = g[a][b]
<1> DEFINE S == {a \in Nat : a <= n /\ a <= k => \A b \in Nat : f[a][b] = g[a][b]}
<1>1. ASSUME NEW a \in Nat, \A m \in 0..(a - 1) : m \in S
      PROVE  a \in S
  <2> SUFFICES ASSUME NEW b \in Nat, a <= n, a <= k PROVE f[a][b] = g[a][b]
    OBVIOUS
  <2>1. a # 0 => f[a \div 2][b \div 2] = g[a \div 2][b \div 2]
    <3> SUFFICES ASSUME a # 0 PROVE f[a \div 2][b \div 2] = g[a \div 2][b \div 2]
      OBVIOUS
    <3>1. a \div 2 \in Nat /\ a \div 2 <= a - 1 /\ b \div 2 \in Nat
      BY Halves
    <3>2. a \div 2 \in 0..(a - 1) /\ a \div 2 <= n /\ a \div 2 <= k
      BY <3>1
    <3>3. a \div 2 \in S
      BY <1>1, <3>2
    <3> QED
      BY <3>1, <3>2, <3>3
  <2>2. BitByBit(f, a, b) = BitByBit(g, a, b)
    BY <2>1 DEF BitByBit
  <2>3. a \in 0..n /\ a \in 0..k
    OBVIOUS
  <2> QED
    BY <2>2, <2>3 DEF SolvesUpTo
<1> HIDE DEF S
<1>2. \A a \in Nat : a \in S
  BY <1>1, Upwards
<1> QED
  BY <1>2 DEF S

\* So Common is what its definition says.
LEMMA CommonIs ==
  Common \in Tables /\ \A a, b \in Nat : Common[a][b] = BitByBit(Common, a, b)
<1> DEFINE Up(n) == CHOOSE f : SolvesUpTo(f, n)
           F == [a \in Nat |-> Up(a)[a]]
<1>1. \A n \in Nat : SolvesUpTo(Up(n), n)
  BY Solved
<1> HIDE DEF Up
<1>2. F \in Tables /\ \A a \in Nat : F[a] = Up(a)[a]
  BY <1>1 DEF SolvesUpTo, Tables
<1> HIDE DEF F
<1>3. ASSUME NEW a \in Nat, NEW b \in Nat PROVE F[a][b] = BitByBit(F, a, b)
  <2>1. Up(a)[a][b] = BitByBit(Up(a), a, b)
    <3>1. a \in 0..a
      OBVIOUS
    <3> QED
      BY <1>1, <3>1 DEF SolvesUpTo
  <2>2. a # 0 => Up(a)[a \div 2][b \div 2] = F[a \div 2][b \div 2]
    <3>1. a \div 2 \in Nat /\ b \div 2 \in Nat /\ a \div 2 <= a \div 2 /\ (a # 0 => a \div 2 <= a)
      BY Halves
    <3>2. SolvesUpTo(Up(a), a) /\ SolvesUpTo(Up(a \div 2), a \div 2)
      BY <1>1, <3>1
    <3>3. a # 0 => Up(a)[a \div 2][b \div 2] = Up(a \div 2)[a \div 2][b \div 2]
      BY <3>1, <3>2, SolutionsAgree
    <3> QED
      BY <1>2, <3>1, <3>3
  <2> QED
    BY <1>2, <2>1, <2>2 DEF BitByBit
<1>4. F = [a \in Nat |-> [b \in Nat |-> BitByBit(F, a, b)]]
  BY <1>2, <1>3 DEF Tables
<1>5. Common = CHOOSE f : f = [a \in Nat |-> [b \in Nat |-> BitByBit(f, a, b)]]
  BY DEF Common, BitByBit
<1>6. Common = [a \in Nat |-> [b \in Nat |-> BitByBit(Common, a, b)]]
  BY <1>4, <1>5
<1>7. \A a, b \in Nat : Common[a][b] = BitByBit(Common, a, b)
  BY <1>6
<1> DEFINE S == {a \in Nat : \A b \in Nat : Common[a][b] \in Nat}
<1>8. ASSUME NEW a \in Nat, \A m \in 0..(a - 1) : m \in S
      PROVE  a \in S
  <2> SUFFICES ASSUME NEW b \in Nat PROVE Common[a][b] \in Nat
    OBVIOUS
  <2>1. a # 0 => a \div 2 \in 0..(a - 1) /\ b \div 2 \in Nat
    BY Halves
  <2>2. a # 0 => Common[a \div 2][b \div 2] \in Nat
    BY <1>8, <2>1
  <2>3. (a % 2) * (b % 2) \in Nat
    BY Halves, SMT
  <2> QED
    BY <1>7, <2>2, <2>3 DEF BitByBit
<1> HIDE DEF S
<1>9. \A a \in Nat : a \in S
  BY <1>8, Upwards
<1>10. \A a \in Nat : [b \in Nat |-> BitByBit(Common, a, b)] \in [Nat -> Nat]
  BY <1>7, <1>9 DEF S
<1>11. Common \in Tables
  BY <1>6, <1>10 DEF Tables
<1> QED
  BY <1>7, <1>11

\* It shares with zero nothing, with a word never more than that.
LEMMA CommonBounds ==
  ASSUME NEW a \in Nat, NEW b \in Nat
  PROVE  /\ Common[a][b] \in Nat /\ Common[a][b] <= a /\ Common[a][b] <= b
         /\ a = 0 \/ b = 0 => Common[a][b] = 0
<1> DEFINE S == {x \in Nat : \A y \in Nat : Common[x][y] \in Nat /\ Common[x][y] <= x /\ Common[x][y] <= y}
<1>1. ASSUME NEW x \in Nat, \A m \in 0..(x - 1) : m \in S
      PROVE  x \in S
  <2> SUFFICES ASSUME NEW y \in Nat
               PROVE  Common[x][y] \in Nat /\ Common[x][y] <= x /\ Common[x][y] <= y
    OBVIOUS
  <2> DEFINE h == Common[x \div 2][y \div 2]
             bit == (x % 2) * (y % 2)
  <2>1. Common[x][y] = IF x = 0 \/ y = 0 THEN 0 ELSE bit + 2 * h
    BY CommonIs DEF BitByBit
  <2>2. x # 0 => h \in Nat /\ h <= x \div 2 /\ h <= y \div 2
    <3>1. x # 0 => x \div 2 \in 0..(x - 1) /\ y \div 2 \in Nat
      BY Halves
    <3> QED
      BY <1>1, <3>1
  <2>3. bit \in {0, 1} /\ bit <= x % 2 /\ bit <= y % 2
    BY Halves, SMT
  <2>4. y = 2 * (y \div 2) + (y % 2) /\ y \div 2 \in Nat
        /\ x = 2 * (x \div 2) + (x % 2) /\ x \div 2 \in Nat
    BY Halves
  <2>5. y % 2 \in Nat /\ x % 2 \in Nat
    BY Halves
  <2> HIDE DEF h, bit
  <2> QED
    BY <2>1, <2>2, <2>3, <2>4, <2>5, SMT
<1> HIDE DEF S
<1>2. \A x \in Nat : x \in S
  BY <1>1, Upwards
<1>3. a = 0 \/ b = 0 => Common[a][b] = 0
  BY CommonIs DEF BitByBit
<1> QED
  BY <1>2, <1>3 DEF S

-----------------------------------------------------------------------------
(***************************************************************************)
(* Multiplication: bit by bit, from the top, in words of 8 and 16 bits.    *)
(***************************************************************************)
LowPowers == {1, 2, 4, 8, 16, 32, 64, 128}
HighPowers == {256, 512, 1024, 2048, 4096, 8192, 16384, 32768}

\* A word of N values, cut below the bit that is worth K.
Digits(N, K) ==
  \/ N = 256 /\ K \in LowPowers
  \/ N = 65536 /\ K \in LowPowers \cup HighPowers

\* What the bits of b from the one of K on are worth; the top bit of a signed word is
\* worth its negative, and it is always the first that is taken.
Worth(b, N, K, signed) ==
  (b \div K) - (IF signed /\ K < N /\ b >= N \div 2 THEN N \div K ELSE 0)

\* p is the product with those bits, f has the bits below, moved to the top.
Taken(a, b, N, K, signed, p, f) ==
  p % N = (a * Worth(b, N, K, signed)) % N /\ f % N = (b % K) * (N \div K)

\* Powers of two.
LEMMA PowersOfTwo ==
  /\ 2 ^ 0 = 1 /\ 2 ^ 1 = 2 /\ 2 ^ 2 = 4 /\ 2 ^ 3 = 8 /\ 2 ^ 4 = 16 /\ 2 ^ 5 = 32 /\ 2 ^ 6 = 64
  /\ 2 ^ 7 = 128 /\ 2 ^ 8 = 256 /\ 2 ^ 9 = 512 /\ 2 ^ 10 = 1024 /\ 2 ^ 11 = 2048
  /\ 2 ^ 12 = 4096 /\ 2 ^ 13 = 8192 /\ 2 ^ 14 = 16384 /\ 2 ^ 15 = 32768 /\ 2 ^ 16 = 65536
BY SMT

\* Powers of two, one by one.
LEMMA PowersDouble ==
  ASSUME NEW k \in 1..16
  PROVE  /\ 2 ^ k = 2 * 2 ^ (k - 1)
         /\ Digits(2 ^ 16, 2 ^ (k - 1))
         /\ 2 ^ k = 2 ^ 16 <=> k = 16
         /\ k <= 8 => Digits(2 ^ 8, 2 ^ (k - 1))
         /\ 2 ^ k = 2 ^ 8 <=> k = 8
<1> USE PowersOfTwo DEF Digits, LowPowers, HighPowers
<1>1. CASE k = 1
  BY <1>1, SMT
<1>2. CASE k = 2
  BY <1>2, SMT
<1>3. CASE k = 3
  BY <1>3, SMT
<1>4. CASE k = 4
  BY <1>4, SMT
<1>5. CASE k = 5
  BY <1>5, SMT
<1>6. CASE k = 6
  BY <1>6, SMT
<1>7. CASE k = 7
  BY <1>7, SMT
<1>8. CASE k = 8
  BY <1>8, SMT
<1>9. CASE k = 9
  BY <1>9, SMT
<1>10. CASE k = 10
  BY <1>10, SMT
<1>11. CASE k = 11
  BY <1>11, SMT
<1>12. CASE k = 12
  BY <1>12, SMT
<1>13. CASE k = 13
  BY <1>13, SMT
<1>14. CASE k = 14
  BY <1>14, SMT
<1>15. CASE k = 15
  BY <1>15, SMT
<1>16. CASE k = 16
  BY <1>16, SMT
<1> QED
  BY <1>1, <1>2, <1>3, <1>4, <1>5, <1>6, <1>7, <1>8,
     <1>9, <1>10, <1>11, <1>12, <1>13, <1>14, <1>15, <1>16, SMT

\* Where a word of n bits is cut with k bits to go.
LEMMA Powers ==
  ASSUME NEW n \in {8, 16}, NEW k \in 1..n
  PROVE  /\ Digits(2 ^ n, 2 ^ (k - 1)) /\ 2 ^ k = 2 * 2 ^ (k - 1)
         /\ 2 ^ k = 2 ^ n <=> k = n
<1>1. k \in 1..16
  OBVIOUS
<1>2. CASE n = 8
  <2>1. k <= 8
    BY <1>2
  <2> QED
    BY <1>1, <1>2, <2>1, PowersDouble, Zenon
<1>3. CASE n = 16
  BY <1>1, <1>3, PowersDouble, Zenon
<1> QED
  BY <1>2, <1>3

\* The widths and the digits are powers of two, and divide each other.
LEMMA DigitsAre ==
  ASSUME NEW N, NEW K, Digits(N, K)
  PROVE  /\ N \in Nat /\ N > 0 /\ K \in Nat /\ K > 0 /\ 2 * K <= N
         /\ N \div K \in Nat /\ N \div K > 0 /\ K * (N \div K) = N
         /\ N \div (2 * K) \in Nat /\ N \div K = 2 * (N \div (2 * K))
         /\ N \div 2 = K * (N \div (2 * K))
<1>1. CASE N = 256 /\ K \in LowPowers
  BY <1>1, SMTT(30) DEF LowPowers
<1>2. CASE N = 65536 /\ K \in LowPowers
  BY <1>2, SMTT(30) DEF LowPowers
<1>3. CASE N = 65536 /\ K \in HighPowers
  BY <1>3, SMTT(30) DEF HighPowers
<1> QED
  BY <1>1, <1>2, <1>3 DEF Digits

\* The bit worth K of b is the top one of what is left.
LEMMA NextBit ==
  ASSUME NEW N, NEW K, Digits(N, K), NEW b \in Nat, b < N, NEW x \in Nat, x = b % (2 * K),
         NEW bit, bit = IF x >= K THEN 1 ELSE 0
  PROVE  b \div K = 2 * (b \div (2 * K)) + bit /\ b % K = x - bit * K
<1>1. CASE N = 256 /\ K \in LowPowers
  BY <1>1, SMTT(20) DEF LowPowers
<1>2. CASE N = 65536 /\ K \in LowPowers
  BY <1>2, SMTT(20) DEF LowPowers
<1>3. CASE N = 65536 /\ K \in HighPowers
  BY <1>3, SMTT(20) DEF HighPowers
<1> QED
  BY <1>1, <1>2, <1>3 DEF Digits

\* A number below K, moved to the top, is a word.
LEMMA PartOfWord ==
  ASSUME NEW K \in Nat, NEW M \in Nat, M > 0, NEW z \in 0..(K - 1)
  PROVE  z * M \in 0..(K * M - 1)
<1>1. (K - z) * M >= M
  BY SMT
<1>2. (K - z) * M = K * M - z * M
  BY SMT
<1>3. z * M >= 0 /\ z * M \in Int /\ K * M \in Int
  BY SMT
<1> QED
  BY <1>1, <1>2, <1>3, SMT

\* A bit moves out of what is left of the factor.
LEMMA Distributes ==
  ASSUME NEW K \in Nat, NEW M \in Nat, NEW x \in Nat, NEW bit \in {0, 1}
  PROVE  2 * (x * M) = (x - bit * K) * (2 * M) + bit * (K * (2 * M))
<1>1. CASE bit = 0
  BY <1>1, SMT
<1>2. CASE bit = 1
  BY <1>2, SMT
<1> QED
  BY <1>1, <1>2

\* Cutting a word takes its top bit away.
LEMMA TopBitGone ==
  ASSUME NEW N, N = 256 \/ N = 65536, NEW bit \in {0, 1}, NEW y \in 0..(N - 1),
         NEW z, z = y + bit * N
  PROVE  z % N = y
BY SMT

\* What is left of the second factor moves up.
LEMMA FactorMoves ==
  ASSUME NEW N, NEW K, Digits(N, K), NEW b \in Nat, b < N,
         NEW f \in Nat, f % N = (b % (2 * K)) * (N \div (2 * K)),
         NEW bit, bit = IF f % N >= N \div 2 THEN 1 ELSE 0
  PROVE  /\ (2 * f) % N = (b % K) * (N \div K)
         /\ b \div K = 2 * (b \div (2 * K)) + bit
         /\ bit = IF b % (2 * K) >= K THEN 1 ELSE 0
<1> DEFINE x == b % (2 * K)
           M == N \div (2 * K)
           first == IF x >= K THEN 1 ELSE 0
<1>1. /\ N \in Nat /\ N > 0 /\ K \in Nat /\ K > 0 /\ M \in Nat /\ N \div K = 2 * M
      /\ N \div K > 0 /\ K * (N \div K) = N /\ N \div 2 = K * M
  BY DigitsAre
<1>2. x \in Nat
  BY <1>1, SMT
<1>3. b \div K = 2 * (b \div (2 * K)) + first /\ b % K = x - first * K
  BY <1>2, NextBit
<1>4. b % K \in 0..(K - 1)
  BY <1>1, SMT
<1>5. f % N = x * M /\ first \in {0, 1}
  OBVIOUS
<1>6. first = bit
  <2>1. x >= K => x * M >= K * M
    BY <1>1, <1>2, SMT
  <2>2. x < K => x * M < K * M
    BY <1>1, <1>2, SMT
  <2>3. x * M \in Int /\ K * M \in Int
    BY <1>1, <1>2, SMT
  <2> HIDE DEF x, M
  <2> QED
    BY <1>1, <1>2, <1>5, <2>1, <2>2, <2>3
<1>7. (b % K) * (N \div K) \in 0..(N - 1)
  BY <1>1, <1>4, PartOfWord
<1>8. 2 * (x * M) = (b % K) * (N \div K) + first * N
  BY <1>1, <1>2, <1>3, <1>5, Distributes
<1>9. (2 * f) % N = (2 * (x * M)) % N
  <2>1. (2 * f) % N = (2 * (f % N)) % N
    BY SMT DEF Digits
  <2> QED
    BY <1>5, <2>1
<1>10. (2 * (x * M)) % N = (b % K) * (N \div K)
  BY <1>5, <1>7, <1>8, TopBitGone DEF Digits
<1> QED
  BY <1>3, <1>6, <1>9, <1>10

\* The product doubles and gets the bit.
LEMMA ProductGrows ==
  ASSUME NEW N, N = 256 \/ N = 65536, NEW a \in Nat, NEW w \in Int, NEW p \in Nat, NEW q \in Int,
         NEW e \in {-1, 0, 1}, p % N = (a * w) % N, q = 2 * p + e * a
  PROVE  q % N = (a * (2 * w + e)) % N
<1> DEFINE y == a * w
           z == e * a
<1>1. y \in Int /\ z \in Int
  BY SMT
<1>2. a * (2 * w + e) = 2 * y + z
  <2>1. CASE e = -1
    BY <2>1, SMT
  <2>2. CASE e = 0
    BY <2>2, SMT
  <2>3. CASE e = 1
    BY <2>3, SMT
  <2> QED
    BY <2>1, <2>2, <2>3
<1> HIDE DEF y, z
<1>3. (2 * p + z) % N = (2 * y + z) % N
  BY <1>1, SMT DEF y
<1> QED
  BY <1>2, <1>3 DEF z

\* What the bits are worth with the next one.
LEMMA WorthGrows ==
  ASSUME NEW N, NEW K, Digits(N, K), NEW b \in Nat, b < N, NEW signed \in BOOLEAN, NEW bit,
         bit = IF b % (2 * K) >= K THEN 1 ELSE 0, b \div K = 2 * (b \div (2 * K)) + bit,
         NEW e, e = IF signed /\ 2 * K = N THEN 0 - bit ELSE bit
  PROVE  Worth(b, N, K, signed) = 2 * Worth(b, N, 2 * K, signed) + e
<1>1. CASE 2 * K = N
  <2>1. CASE N = 256
    <3>1. K = 128
      BY <1>1, <2>1, SMT DEF Digits, LowPowers, HighPowers
    <3> QED
      BY <2>1, <3>1, SMT DEF Worth
  <2>2. CASE N = 65536
    <3>1. K = 32768
      BY <1>1, <2>2, SMT DEF Digits, LowPowers, HighPowers
    <3> QED
      BY <2>2, <3>1, SMT DEF Worth
  <2> QED
    BY <2>1, <2>2 DEF Digits
<1>2. CASE 2 * K # N
  <2> DEFINE d == b \div (2 * K)
             M == N \div (2 * K)
             top == b >= N \div 2
             more == 2 * K < N
  <2>1. more /\ K < N /\ N \div K = 2 * M /\ M \in Nat /\ d \in Nat
    <3>1. /\ N \in Nat /\ K \in Nat /\ K > 0 /\ 2 * K <= N
          /\ N \div K = 2 * M /\ M \in Nat
      BY DigitsAre
    <3>2. d \in Nat
      BY <3>1, SMT
    <3> HIDE DEF M, d
    <3> QED
      BY <1>2, <3>1, <3>2
  <2>2. /\ Worth(b, N, K, signed) = (2 * d + bit) - (IF signed /\ top THEN 2 * M ELSE 0)
        /\ Worth(b, N, 2 * K, signed) = d - (IF signed /\ top THEN M ELSE 0)
    BY <2>1 DEF Worth
  <2>3. e = bit /\ bit \in {0, 1}
    BY <1>2
  <2> HIDE DEF d, M, top, more
  <2> QED
    BY <2>1, <2>2, <2>3
<1> QED
  BY <1>1, <1>2

\* What bits are worth is a number, in a signed word maybe a negative one.
LEMMA WorthIsNumber ==
  ASSUME NEW N, NEW K, Digits(N, K), NEW b \in Nat, NEW signed \in BOOLEAN
  PROVE  Worth(b, N, 2 * K, signed) \in Int
<1>1. N \div (2 * K) \in Nat /\ K \in Nat /\ K > 0
  BY DigitsAre
<1>2. b \div (2 * K) \in Nat
  BY <1>1, SMT
<1> QED
  BY <1>1, <1>2 DEF Worth

\* A bit counts once, for or against.
LEMMA SignOfBit ==
  ASSUME NEW bit \in {0, 1}, NEW e, e = 0 - bit \/ e = bit
  PROVE  e \in {-1, 0, 1}
OBVIOUS

\* One round of the loop.
LEMMA BitTaken ==
  ASSUME NEW N, NEW K, Digits(N, K), NEW a \in Nat, NEW b \in Nat, b < N, NEW signed \in BOOLEAN,
         NEW p \in Nat, NEW f \in Nat, Taken(a, b, N, 2 * K, signed, p, f),
         NEW bit, bit = IF f % N >= N \div 2 THEN 1 ELSE 0,
         NEW e, e = IF signed /\ 2 * K = N THEN 0 - bit ELSE bit,
         NEW q \in Int, q = 2 * p + e * a
  PROVE  Taken(a, b, N, K, signed, q, 2 * f)
<1> DEFINE w == Worth(b, N, 2 * K, signed)
<1>1. /\ (2 * f) % N = (b % K) * (N \div K)
      /\ b \div K = 2 * (b \div (2 * K)) + bit
      /\ bit = IF b % (2 * K) >= K THEN 1 ELSE 0
  BY FactorMoves DEF Taken
<1>2. Worth(b, N, K, signed) = 2 * w + e
  BY <1>1, WorthGrows
<1>3. w \in Int
  BY WorthIsNumber
<1>4. e \in {-1, 0, 1}
  <2>1. bit = 0 \/ bit = 1
    OBVIOUS
  <2>2. e = bit \/ e = 0 - bit
    OBVIOUS
  <2> QED
    BY <2>1, <2>2, SignOfBit, Zenon
<1>5. p % N = (a * w) % N
  BY DEF Taken
<1>6. N = 256 \/ N = 65536
  BY DEF Digits
<1> HIDE DEF w
<1>7. q % N = (a * (2 * w + e)) % N
  BY <1>3, <1>4, <1>5, <1>6, ProductGrows
<1> QED
  BY <1>1, <1>2, <1>7 DEF Taken

\* Before the first bit nothing is taken.
LEMMA NoneTaken ==
  ASSUME NEW n \in {8, 16}, NEW N, N = 2 ^ n, NEW a \in Nat, NEW b \in Nat, b < N, NEW signed \in BOOLEAN
  PROVE  Taken(a, b, N, N, signed, 0, b)
<1>1. N = 256 \/ N = 65536
  <2>1. CASE n = 8
    BY <2>1, PowersOfTwo
  <2>2. CASE n = 16
    BY <2>2, PowersOfTwo
  <2> QED
    BY <2>1, <2>2
<1>2. b \div N = 0 /\ b % N = b /\ N \div N = 1 /\ 0 % N = 0
  BY <1>1, SMT
<1>3. Worth(b, N, N, signed) = 0
  BY <1>1, <1>2, SMT DEF Worth
<1> QED
  BY <1>2, <1>3, SMT DEF Taken

\* After the last bit the product is there.
LEMMA AllTaken ==
  ASSUME NEW n \in {8, 16}, NEW N, N = 2 ^ n, NEW a \in Nat, NEW b \in Nat, b < N, NEW signed \in BOOLEAN,
         NEW p, NEW f, Taken(a, b, N, 1, signed, p, f)
  PROVE  p % N = (a * b) % N
<1>1. N = 256 \/ N = 65536
  <2>1. CASE n = 8
    BY <2>1, PowersOfTwo
  <2>2. CASE n = 16
    BY <2>2, PowersOfTwo
  <2> QED
    BY <2>1, <2>2
<1>2. N \div 1 = N /\ b \div 1 = b /\ 1 < N
  BY <1>1, SMT
<1>3. Worth(b, N, 1, signed) = b \/ Worth(b, N, 1, signed) = b - N
  BY <1>2 DEF Worth
<1> DEFINE y == a * b
           z == a * N
<1>4. a * (b - N) = y - z /\ y \in Int
  BY <1>1, SMT
<1>5. (y - z) % N = y % N
  <2> HIDE DEF y
  <2>1. CASE N = 256
    BY <1>4, <2>1, SMT
  <2>2. CASE N = 65536
    BY <1>4, <2>2, SMT
  <2> QED
    BY <1>1, <2>1, <2>2
<1> QED
  BY <1>3, <1>4, <1>5 DEF Taken

Operations == {"ALU_ADD", "ALU_AND", "ALU_OR", "ALU_XOR"}
Shifters == LeftShifts \cup RightShifts \cup {"SHIFTER_SWAP", "SHIFTER_NONE"}
ZModes == {"FLAG_Z_NORMAL", "FLAG_Z_ACCUM", "FLAG_Z_BIT_TEST"}
VModes == {"FLAG_V_NORMAL", "FLAG_V_CLEAR", "FLAG_V_SHIFTER_CARRY", "FLAG_V_ACCUM"}

\* The control words of the ALU.
AluControls ==
  [operation : Operations, size1 : Sizes, size2 : Sizes, dest_size : Sizes, sx2 : BOOLEAN,
   add1 : BOOLEAN, add_carry : BOOLEAN, negate : BOOLEAN, and_aux : BOOLEAN,
   shifter : Shifters, aux : AuxLatches, mask : SUBSET (Flags \ {"D"}), invert : BOOLEAN,
   z_mode : ZModes, v_mode : VModes]

\* The control word all others start from.
LEMMA PlainControlType == \A size \in Sizes : PlainControl(size) \in AluControls
BY DEF PlainControl, AluControls, Operations, Shifters, ZModes, VModes, AuxLatches, Sizes

\* Writing one field of a control word.
LEMMA AluControlUpdates ==
  ASSUME NEW c \in AluControls
  PROVE  /\ \A x \in Operations : [c EXCEPT !.operation = x] \in AluControls
         /\ \A x \in Sizes : [c EXCEPT !.size2 = x] \in AluControls
         /\ \A x \in Sizes : [c EXCEPT !.dest_size = x] \in AluControls
         /\ \A x \in BOOLEAN : [c EXCEPT !.sx2 = x] \in AluControls
         /\ \A x \in BOOLEAN : [c EXCEPT !.add1 = x] \in AluControls
         /\ \A x \in BOOLEAN : [c EXCEPT !.add_carry = x] \in AluControls
         /\ \A x \in BOOLEAN : [c EXCEPT !.negate = x] \in AluControls
         /\ \A x \in BOOLEAN : [c EXCEPT !.and_aux = x] \in AluControls
         /\ \A x \in BOOLEAN : [c EXCEPT !.invert = x] \in AluControls
         /\ \A x \in Shifters : [c EXCEPT !.shifter = x] \in AluControls
         /\ \A x \in AuxLatches : [c EXCEPT !.aux = x] \in AluControls
         /\ \A x \in SUBSET (Flags \ {"D"}) : [c EXCEPT !.mask = x] \in AluControls
         /\ \A x \in ZModes : [c EXCEPT !.z_mode = x] \in AluControls
         /\ \A x \in VModes : [c EXCEPT !.v_mode = x] \in AluControls
  BY DEF AluControls

\* What is written into them.
LEMMA ControlParts ==
  /\ ArithmeticFlags \in SUBSET (Flags \ {"D"})
  /\ ArithmeticFlags \cup {"X"} \in SUBSET (Flags \ {"D"})
  /\ {"S", "Z", "V"} \in SUBSET (Flags \ {"D"}) /\ {"Z"} \in SUBSET (Flags \ {"D"})
  /\ {"Z", "C"} \in SUBSET (Flags \ {"D"}) /\ {"V", "S", "C", "Z"} \in SUBSET (Flags \ {"D"})
  /\ Operations = {"ALU_ADD", "ALU_AND", "ALU_OR", "ALU_XOR"}
  /\ "FLAG_Z_ACCUM" \in ZModes /\ "FLAG_Z_BIT_TEST" \in ZModes
  /\ "FLAG_V_CLEAR" \in VModes /\ "FLAG_V_SHIFTER_CARRY" \in VModes
  /\ "LATCH_AUX_CARRY" \in AuxLatches /\ "LATCH_AUX_CLEAR" \in AuxLatches
  /\ "LATCH_AUX_ZERO" \in AuxLatches
  /\ 8 \in Sizes /\ 24 \in Sizes /\ TRUE \in BOOLEAN
  BY DEF ArithmeticFlags, Flags, Operations, ZModes, VModes, AuxLatches, Sizes

\* The control words of the instructions, by family: sums, differences and logic,
LEMMA ArithLogicControls ==
  ASSUME NEW name \in ArithLogic, NEW size \in Sizes
  PROVE  ArithLogicControl(name, size) \in AluControls
<1> DEFINE c == [PlainControl(size) EXCEPT !.mask = ArithmeticFlags]
           d == [c EXCEPT !.operation = "ALU_ADD"]
<1>1. c \in AluControls /\ c.mask = ArithmeticFlags
  BY PlainControlType, AluControlUpdates, ControlParts DEF PlainControl
<1> HIDE DEF c
<1>2. d \in AluControls /\ [c EXCEPT !.operation = "ALU_AND"] \in AluControls
      /\ [c EXCEPT !.operation = "ALU_XOR"] \in AluControls
  BY <1>1, AluControlUpdates DEF Operations
<1>3. [d EXCEPT !.negate = TRUE, !.invert = TRUE, !.sx2 = TRUE, !.dest_size = 24] \in AluControls
  BY <1>2, AluControlUpdates, ControlParts
<1>4. ASSUME NEW p \in BOOLEAN, NEW q \in BOOLEAN
      PROVE  [d EXCEPT !.add_carry = p, !.negate = q, !.invert = q,
                       !.mask = ArithmeticFlags \cup {"X"}] \in AluControls
  <2> DEFINE e == [d EXCEPT !.add_carry = p, !.negate = q]
  <2>1. e \in AluControls
    BY <1>2, AluControlUpdates
  <2> HIDE DEF e
  <2>2. [e EXCEPT !.invert = q, !.mask = ArithmeticFlags \cup {"X"}] \in AluControls
    BY <2>1, AluControlUpdates, ControlParts
  <2> QED
    BY <2>2 DEF e
<1>5. [c EXCEPT !.operation = "ALU_ADD", !.add_carry = name \in {"ADX", "SBX"},
                !.negate = name \in {"SUB", "SBX"}, !.invert = name \in {"SUB", "SBX"},
                !.mask = @ \cup {"X"}] \in AluControls
  <2>1. (name \in {"ADX", "SBX"}) \in BOOLEAN /\ (name \in {"SUB", "SBX"}) \in BOOLEAN
    OBVIOUS
  <2>2. [d EXCEPT !.add_carry = name \in {"ADX", "SBX"}, !.negate = name \in {"SUB", "SBX"},
                  !.invert = name \in {"SUB", "SBX"}, !.mask = ArithmeticFlags \cup {"X"}]
        \in AluControls
    BY <1>4, <2>1
  <2> QED
    BY <1>1, <2>2
<1> QED
  BY <1>1, <1>2, <1>3, <1>5 DEF ArithLogicControl, ArithLogic, c

\* shifts,
LEMMA ShiftControls ==
  ASSUME NEW name \in Shifts, NEW size \in Sizes
  PROVE  ShiftControl(name, size) \in AluControls
<1> DEFINE c == [PlainControl(size) EXCEPT !.size2 = 24, !.mask = ArithmeticFlags \cup {"X"}]
<1>1. c \in AluControls
  BY PlainControlType, AluControlUpdates, ControlParts
<1>2. \A x \in Shifters : [PlainControl(size) EXCEPT !.size2 = 24, !.mask = ArithmeticFlags \cup {"X"},
                                                     !.shifter = x] \in AluControls
  BY <1>1, AluControlUpdates
<1> QED
  BY <1>2 DEF ShiftControl, Shifts, Shifters, LeftShifts, RightShifts

\* instructions with one operand,
LEMMA UnaryControls ==
  ASSUME NEW name \in Unaries, NEW size \in Sizes
  PROVE  UnaryControl(name, size) \in AluControls
<1> DEFINE c == [PlainControl(size) EXCEPT !.size2 = 24, !.mask = {"S", "Z", "V"},
                                           !.v_mode = "FLAG_V_SHIFTER_CARRY"]
<1>1. c \in AluControls
  BY PlainControlType, AluControlUpdates, ControlParts
<1> HIDE DEF c
<1>2. /\ [c EXCEPT !.add1 = TRUE, !.negate = TRUE] \in AluControls
      /\ [c EXCEPT !.negate = TRUE] \in AluControls
      /\ [c EXCEPT !.add_carry = TRUE, !.invert = TRUE] \in AluControls
  BY <1>1, AluControlUpdates
<1> QED
  BY <1>2 DEF UnaryControl, Unaries, c

\* and the rest.
LEMMA OtherControls ==
  ASSUME NEW size \in Sizes
  PROVE  /\ TestControl(size) \in AluControls
         /\ \A name \in BitOperations : BitControl(name) \in AluControls
         /\ \A name \in Quick : QuickControl(name, size) \in AluControls
<1>1. TestControl(size) \in AluControls
  BY PlainControlType, AluControlUpdates, ControlParts DEF TestControl
<1>2. ASSUME NEW name \in BitOperations PROVE BitControl(name) \in AluControls
  <2> DEFINE c == [PlainControl(8) EXCEPT !.mask = {"Z"}, !.z_mode = "FLAG_Z_BIT_TEST"]
  <2>1. c \in AluControls
    BY PlainControlType, AluControlUpdates, ControlParts
  <2> HIDE DEF c
  <2>2. /\ [c EXCEPT !.operation = "ALU_XOR"] \in AluControls
        /\ [c EXCEPT !.operation = "ALU_AND", !.add1 = TRUE, !.negate = TRUE] \in AluControls
    BY <2>1, AluControlUpdates, ControlParts
  <2> QED
    BY <2>1, <2>2 DEF BitControl, BitOperations, c
<1>3. ASSUME NEW name \in Quick PROVE QuickControl(name, size) \in AluControls
  <2> DEFINE c == [PlainControl(size) EXCEPT !.operation = "ALU_ADD", !.mask = ArithmeticFlags,
                                             !.add1 = TRUE]
  <2>1. c \in AluControls
    BY PlainControlType, AluControlUpdates, ControlParts
  <2>2. [c EXCEPT !.negate = name = "SBQ"] \in AluControls
    BY <2>1, AluControlUpdates
  <2> QED
    BY <2>2 DEF QuickControl
<1> QED
  BY <1>1, <1>2, <1>3

\* The control word of an instruction,
LEMMA ControlType ==
  ASSUME NEW name \in SingleCycle, NEW size \in Sizes
  PROVE  ControlOf(name, size) \in AluControls
BY ArithLogicControls, ShiftControls, UnaryControls, OtherControls DEF ControlOf, SingleCycle

\* and of an entry of MUL.
LEMMA EntryControlType ==
  ASSUME NEW s, s.size \in Sizes, s.sel \in 0..31
  PROVE  AluOfEntry(s) \in AluControls
<1> DEFINE p == PlainControl(s.size)
           o == [p EXCEPT !.operation = "ALU_ADD", !.size2 = 24]
           signed == s.sel >= 16
           unsigned == s.sel < 16
           one == Bits(s.sel, 3, 3) = 1
<1>1. p \in AluControls /\ PlainControl(8) \in AluControls
  BY PlainControlType, ControlParts
<1> HIDE DEF p
<1>2. o \in AluControls
  BY <1>1, AluControlUpdates, ControlParts
<1>3. ASSUME NEW x \in Shifters PROVE ShiftLeft(s, x) \in AluControls
  BY <1>1, AluControlUpdates, ControlParts DEF ShiftLeft, p
<1>4. signed \in BOOLEAN /\ unsigned \in BOOLEAN /\ one \in BOOLEAN
  BY SMT
<1> HIDE DEF o, signed, unsigned, one
<1>5. AddProductLo(s) \in AluControls
  <2> DEFINE q == [o EXCEPT !.negate = signed, !.and_aux = TRUE]
  <2>1. q \in AluControls
    BY <1>2, <1>4, AluControlUpdates, ControlParts
  <2> HIDE DEF q
  <2>2. [q EXCEPT !.invert = signed, !.mask = {"Z", "C"}] \in AluControls
    BY <1>4, <2>1, AluControlUpdates, ControlParts
  <2> QED
    BY <2>2 DEF AddProductLo, q, o, p, signed
<1>6. AddProductHi(s) \in AluControls
  <2> DEFINE q == [o EXCEPT !.add1 = one, !.negate = unsigned, !.and_aux = TRUE]
             r == [q EXCEPT !.invert = signed, !.z_mode = "FLAG_Z_ACCUM", !.v_mode = "FLAG_V_CLEAR"]
  <2>1. q \in AluControls
    BY <1>2, <1>4, AluControlUpdates, ControlParts
  <2> HIDE DEF q
  <2>2. r \in AluControls
    BY <1>4, <2>1, AluControlUpdates, ControlParts
  <2> HIDE DEF r
  <2>3. [r EXCEPT !.aux = "LATCH_AUX_CLEAR", !.mask = {"V", "S", "C", "Z"}] \in AluControls
    BY <2>2, AluControlUpdates, ControlParts
  <2> QED
    BY <2>3 DEF AddProductHi, r, q, o, p, signed, unsigned, one
<1>7. CountDown \in AluControls
  <2> DEFINE q == [PlainControl(8) EXCEPT !.operation = "ALU_ADD", !.sx2 = TRUE, !.add1 = TRUE]
  <2>1. q \in AluControls
    BY <1>1, AluControlUpdates, ControlParts
  <2> HIDE DEF q
  <2>2. [q EXCEPT !.negate = TRUE, !.aux = "LATCH_AUX_ZERO"] \in AluControls
    BY <2>1, AluControlUpdates, ControlParts
  <2> QED
    BY <2>2 DEF CountDown, q
<1>8. [p EXCEPT !.size2 = 24] \in AluControls
  BY <1>1, AluControlUpdates, ControlParts
<1>9. "SHIFTER_LEFT" \in Shifters /\ "SHIFTER_LEFT_CARRY" \in Shifters
  BY DEF Shifters, LeftShifts
<1> QED
  BY <1>3, <1>5, <1>6, <1>7, <1>8, <1>9 DEF AluOfEntry, p

-----------------------------------------------------------------------------
(***************************************************************************)
(* What comes out of the ALU: a number of at most 26 bits, flags, latches. *)
(***************************************************************************)
Words == {x \in Nat : x < 16777216}
LongWords == {x \in Nat : x < 33554432}
Results == {x \in Nat : x < 50331647}
Outputs == {x \in Nat : x <= 67108864}

\* The number of words.
LEMMA WordIs == WordSize = 16777216
BY SMT DEF WordSize

\* A word that is cut to a size.
LEMMA CutIsWord ==
  ASSUME NEW size \in Sizes, NEW N, N = 2 ^ size
  PROVE  /\ N \in Nat /\ N > 0 /\ N <= WordSize
         /\ \A x \in Int : Truncated(x, size) \in 0..(N - 1) /\ Truncated(x, size) \in Words
<1>1. Width(N, 2 ^ (size - 1))
  BY Widths
<1>2. N \in Nat /\ N > 0 /\ N <= WordSize
  BY <1>1, WordIs, SMT DEF Width
<1>3. \A x \in Int : x % N \in 0..(N - 1)
  BY <1>2, SMT
<1> QED
  BY <1>2, <1>3, WordIs, SMT DEF Truncated, Words

\* Bits.
LEMMA OneBitType ==
  ASSUME NEW size \in Sizes, NEW b \in Int
  PROVE  Bit(b, size - 1) \in {0, 1} /\ Bit(b, 0) \in {0, 1}
<1>1. \A H \in Nat \ {0} : (b \div H) % 2 \in {0, 1}
  BY SMT
<1>2. 2 ^ (size - 1) \in Nat \ {0} /\ 2 ^ 0 \in Nat \ {0}
  <2>1. Width(2 ^ size, 2 ^ (size - 1))
    BY Widths
  <2> QED
    BY <2>1, PowersOfTwo, SMT DEF Width
<1> QED
  BY <1>1, <1>2 DEF Bit

\* The second operand, before it is shifted,
LEMMA PreparedType ==
  ASSUME NEW c \in AluControls, NEW s, s.latch_aux \in BOOLEAN, NEW b \in Nat
  PROVE  Prepared(c, s, b) \in Words
<1> DEFINE i == Increased(c, s, b)
           n == Negated(c, i)
           g == Gated(c, s, n)
           N == 2 ^ c.size2
<1>1. c.size2 \in Sizes
  BY DEF AluControls
<1>2. i \in Nat
  BY SMT DEF Increased, Number
<1>3. n \in Int
  <2>1. Truncated(N - Truncated(i, c.size2), c.size2) \in Int
    BY <1>1, <1>2, CutIsWord, SMT
  <2> QED
    BY <1>2, <2>1 DEF Negated
<1>4. g \in Int
  BY <1>3 DEF Gated
<1> HIDE DEF g
<1>5. Truncated(g, c.size2) \in 0..(N - 1) /\ Truncated(g, c.size2) \in Words
      /\ N \in Nat /\ N <= WordSize
  BY <1>1, <1>4, CutIsWord
<1>6. Extended(g, c.size2, c.sx2) \in Words
  <2> HIDE DEF N
  <2> DEFINE t == Truncated(g, c.size2)
  <2>1. t + WordSize - N \in Words
    <3> HIDE DEF t
    <3>1. t \in 0..(N - 1)
      BY <1>5 DEF t
    <3> QED
      BY <1>5, <3>1, WordIs, SMT DEF Words
  <2>2. Extended(g, c.size2, c.sx2) = t \/ Extended(g, c.size2, c.sx2) = t + WordSize - N
    BY DEF Extended, N
  <2> QED
    BY <1>5, <2>1, <2>2
<1> QED
  BY <1>6 DEF Prepared, g

\* and shifted.
LEMMA SwappedType ==
  ASSUME NEW size \in Sizes, NEW b \in Words
  PROVE  Swapped(b, size) \in LongWords
<1>1. CASE size = 8
  <2>1. 2 ^ 8 = 256 /\ 2 ^ 4 = 16
    BY PowersOfTwo
  <2>2. Swapped(b, size) = (b \div 16) + ((b % 16) - (b % 16)) + (b % 16) * 16
    BY <1>1, <2>1, SMT DEF Swapped
  <2> QED
    BY <2>2, SMT DEF Words, LongWords
<1>2. CASE size = 16
  <2>1. 2 ^ 16 = 65536 /\ 2 ^ 8 = 256
    BY PowersOfTwo
  <2>2. Swapped(b, size) = (b \div 256) + ((b % 256) - (b % 256)) + (b % 256) * 256
    BY <1>2, <2>1, SMT DEF Swapped
  <2> QED
    BY <2>2, SMT DEF Words, LongWords
<1>3. CASE size = 24
  <2>1. 2 ^ 24 = 16777216 /\ 2 ^ 8 = 256
    BY PowersOfTwo, SMT
  <2>2. Swapped(b, size) = (b \div 65536) + ((b % 65536) - (b % 256)) + (b % 256) * 65536
    BY <1>3, <2>1, SMT DEF Swapped
  <2> QED
    BY <2>2, SMT DEF Words, LongWords
<1> QED
  BY <1>1, <1>2, <1>3 DEF Sizes

\* What the shifter leaves: a left shift may add a bit.
LEMMA ShiftedType ==
  ASSUME NEW c \in AluControls, NEW s, NEW b \in Words
  PROVE  Shifted(c, s, b) \in LongWords
<1> DEFINE in == ShiftedIn(c, s, b)
           H == 2 ^ (c.size2 - 1)
<1>1. c.size2 \in Sizes /\ b \in Int
  BY SMT DEF AluControls, Words
<1>2. in \in {0, 1}
  BY <1>1, OneBitType DEF ShiftedIn, Number
<1>3. H \in Nat /\ 2 * H <= WordSize
  <2>1. Width(2 ^ c.size2, H)
    BY <1>1, Widths
  <2> QED
    BY <2>1, WordIs, SMT DEF Width
<1> HIDE DEF in, H
<1>4. 2 * b + in \in LongWords
  BY <1>2, SMT DEF Words, LongWords
<1>5. (b \div 2) + in * H \in LongWords
  <2>1. CASE in = 0
    BY <1>3, <2>1, WordIs, SMT DEF Words, LongWords
  <2>2. CASE in = 1
    BY <1>3, <2>2, WordIs, SMT DEF Words, LongWords
  <2> QED
    BY <1>2, <2>1, <2>2
<1>6. b \in LongWords
  BY SMT DEF Words, LongWords
<1> QED
  BY <1>1, <1>4, <1>5, <1>6, SwappedType DEF Shifted, in, H

\* What the operation leaves.
LEMMA OperatedType ==
  ASSUME NEW operation \in Operations, NEW a \in Words, NEW b \in LongWords
  PROVE  Operated(operation, a, b) \in Results
<1>1. a \in Nat /\ b \in Nat
  BY SMT DEF Words, LongWords
<1> DEFINE x == Common[a][b]
<1>2. x \in Nat /\ x <= a /\ x <= b
  BY <1>1, CommonBounds
<1> HIDE DEF x
<1>3. /\ (a + b) % WordSize \in Results
      /\ x \in Results
      /\ a + b - x \in Results
      /\ a + b - 2 * x \in Results
  BY <1>2, WordIs, SMT DEF Words, LongWords, Results
<1> QED
  BY <1>3 DEF Operated, Operations, BitAnd, BitOr, BitXor, x

\* The output of the ALU,
LEMMA AluOutput ==
  ASSUME NEW c \in AluControls, NEW s, s.latch_aux \in BOOLEAN, NEW src1 \in Nat, NEW src2 \in Nat
  PROVE  AluResult(c, s, src1, src2).out \in Outputs
<1> DEFINE a == Truncated(src1, c.size1)
           b == Shifted(c, s, Prepared(c, s, src2))
           result == Operated(c.operation, a, b)
           out == Adjusted(c, s, a, b, result)
<1>1. c.size1 \in Sizes /\ c.operation \in Operations
  BY DEF AluControls
<1>2. a \in Words
  BY <1>1, CutIsWord
<1>3. b \in LongWords
  BY PreparedType, ShiftedType
<1>4. result \in Results
  BY <1>1, <1>2, <1>3, OperatedType
<1>5. AluResult(c, s, src1, src2).out = out
  BY DEF AluResult
<1>6. out = result \/ out = result + 16
  BY DEF Adjusted
<1> HIDE DEF result, out
<1> QED
  BY <1>4, <1>5, <1>6, SMT DEF Results, Outputs

\* and its flags and latches; the decimal flag is not touched.
LEMMA AluFlags ==
  ASSUME NEW c \in AluControls, NEW s, s.latch_aux \in BOOLEAN, s.used_z \in BOOLEAN,
         s.F \subseteq Flags, NEW src1, NEW src2, NEW r, r = AluResult(c, s, src1, src2)
  PROVE  /\ r.F \subseteq Flags /\ ("D" \in r.F <=> "D" \in s.F)
         /\ r.used_z \in BOOLEAN /\ r.latch_aux \in BOOLEAN
<1>1. /\ c.mask \subseteq Flags \ {"D"} /\ c.z_mode \in ZModes /\ c.aux \in AuxLatches
  BY DEF AluControls
<1>2. PICK source \in SUBSET Flags : r.F = (s.F \ c.mask) \cup (source \cap c.mask)
  BY Zenon DEF AluResult
<1>3. r.used_z \in BOOLEAN
  <2> DEFINE a == Truncated(src1, c.size1)
             b == Shifted(c, s, Prepared(c, s, src2))
             out == Adjusted(c, s, a, b, Operated(c.operation, a, b))
             zero == Truncated(out, c.size1) = 0
             none == BitAnd(a, b) = 0
  <2>1. r.used_z = CASE c.z_mode = "FLAG_Z_NORMAL"   -> zero
                     [] c.z_mode = "FLAG_Z_ACCUM"    -> s.used_z /\ zero
                     [] c.z_mode = "FLAG_Z_BIT_TEST" -> none
    BY Zenon DEF AluResult
  <2>2. zero \in BOOLEAN /\ none \in BOOLEAN
    OBVIOUS
  <2> HIDE DEF zero, none
  <2>3. CASE c.z_mode = "FLAG_Z_NORMAL"
    BY <2>1, <2>2, <2>3
  <2>4. CASE c.z_mode = "FLAG_Z_ACCUM"
    BY <2>1, <2>2, <2>4
  <2>5. CASE c.z_mode = "FLAG_Z_BIT_TEST"
    BY <2>1, <2>2, <2>5
  <2> QED
    BY <1>1, <2>3, <2>4, <2>5 DEF ZModes
<1>4. r.latch_aux \in BOOLEAN
  <2> DEFINE unshifted == Prepared(c, s, src2)
             a == Truncated(src1, c.size1)
             b == Shifted(c, s, unshifted)
             out == Adjusted(c, s, a, b, Operated(c.operation, a, b))
             sum == CarryInto(c, a, b, out, c.size1 - 1) # c.invert
             shift == ShiftedOut(c, unshifted)
             zero == Truncated(out, c.size1) = 0
             used_z == CASE c.z_mode = "FLAG_Z_NORMAL"   -> zero
                         [] c.z_mode = "FLAG_Z_ACCUM"    -> s.used_z /\ zero
                         [] c.z_mode = "FLAG_Z_BIT_TEST" -> BitAnd(a, b) = 0
  <2>1. r.used_z = used_z
    BY Zenon DEF AluResult
  <2>2. r.latch_aux = CASE c.aux = "LATCH_AUX_NONE"  -> s.latch_aux
                        [] c.aux = "LATCH_AUX_CLEAR" -> FALSE
                        [] c.aux = "LATCH_AUX_ZERO"  -> used_z
                        [] c.aux = "LATCH_AUX_CARRY" ->
                             IF c.operation = "ALU_ADD" THEN sum ELSE shift
    BY Zenon DEF AluResult
  <2>3. sum \in BOOLEAN /\ shift \in BOOLEAN
    BY DEF ShiftedOut
  <2> HIDE DEF sum, shift, used_z
  <2>4. CASE c.aux = "LATCH_AUX_CARRY"
    BY <2>2, <2>3, <2>4
  <2>5. CASE c.aux # "LATCH_AUX_CARRY"
    BY <1>1, <1>3, <2>1, <2>2, <2>5 DEF AuxLatches
  <2> QED
    BY <2>4, <2>5
<1> QED
  BY <1>1, <1>2, <1>3, <1>4

-----------------------------------------------------------------------------
(***************************************************************************)
(* The microcode of MUL.                                                   *)
(***************************************************************************)
\* An entry that takes two sources to a destination and goes on to idx.
Moves(e, s, src1, src2, dest, idx) ==
  /\ e.operation.src1 = src1 /\ e.operation.src2 = src2 /\ e.operation.dest = dest
  /\ ~e.branch /\ e.next.idx = idx /\ e.next.sel = s.sel

\* What a new entry has of the one before,
LEMMA BaseFields ==
  ASSUME NEW s \in EntrySpec
  PROVE  /\ Base(s) \in DecodedEntries /\ ~Base(s).branch
         /\ Base(s).next.sel = s.sel /\ (s.size # 24 => Base(s).next.size = s.size)
<1>1. Base(s).next = BaseNext(s) /\ ~Base(s).branch
  BY DEF Base
<1>2. BaseNext(s).sel = s.sel /\ (s.size # 24 => BaseNext(s).size = s.size)
  BY DEF BaseNext, EntrySpec
<1> QED
  BY <1>1, <1>2, BaseType

\* one that computes,
LEMMA ComputingFields ==
  ASSUME NEW s \in EntrySpec, NEW src1, NEW src2, NEW dest, NEW idx,
         NEW e, e = Computing(s, src1, src2, dest, idx)
  PROVE  Moves(e, s, src1, src2, dest, idx) /\ (s.size # 24 => e.next.size = s.size)
<1> DEFINE b == Base(s)
<1>1. b \in DecodedEntries /\ ~b.branch /\ b.next.sel = s.sel /\ (s.size # 24 => b.next.size = s.size)
  BY BaseFields
<1>2. e = [b EXCEPT !.operation.src1 = src1, !.operation.src2 = src2,
                  !.operation.dest = dest, !.operation.alu = TRUE, !.next.idx = idx]
  BY DEF Computing
<1> HIDE DEF b
<1>3. e.operation.src1 = src1 /\ e.operation.src2 = src2 /\ e.operation.dest = dest
  <2>1. e.operation = [b.operation EXCEPT !.src1 = src1, !.src2 = src2, !.dest = dest, !.alu = TRUE]
    BY <1>1, <1>2 DEF DecodedEntries
  <2>2. b.operation \in ControlWords
    BY <1>1 DEF DecodedEntries
  <2> QED
    BY <2>1, <2>2 DEF ControlWords
<1>4. e.branch = b.branch
  BY <1>1, <1>2, SMT DEF DecodedEntries
<1>5. e.next = [b.next EXCEPT !.idx = idx]
  BY <1>1, <1>2, SMT DEF DecodedEntries
<1>6. e.next.idx = idx /\ e.next.sel = b.next.sel /\ e.next.size = b.next.size
  <2>1. b.next \in EntrySpec
    BY <1>1 DEF DecodedEntries
  <2> QED
    BY <1>5, <2>1 DEF EntrySpec
<1> QED
  BY <1>1, <1>3, <1>4, <1>6 DEF Moves

\* and one of MUL, which keeps the size.
LEMMA MulStepFields ==
  ASSUME NEW s \in EntrySpec, NEW src1 \in Locations, NEW src2 \in Locations,
         NEW dest \in Locations, NEW idx \in MucodeEntries
  PROVE  /\ Moves(MulStep(s, src1, src2, dest, idx), s, src1, src2, dest, idx)
         /\ MulStep(s, src1, src2, dest, idx).next.size = s.size
         /\ MulStep(s, src1, src2, dest, idx) \in DecodedEntries
<1> DEFINE b == Computing(s, src1, src2, dest, idx)
           e == MulStep(s, src1, src2, dest, idx)
<1>1. b \in DecodedEntries /\ Moves(b, s, src1, src2, dest, idx)
  BY ComputingType, ComputingFields
<1>2. e = [b EXCEPT !.next.size = s.size]
  BY DEF MulStep
<1>3. e \in DecodedEntries
  BY MulStepType
<1> HIDE DEF b, e
<1>4. Moves(e, s, src1, src2, dest, idx) /\ e.next.size = s.size
  BY <1>1, <1>2, <1>3 DEF DecodedEntries, ControlWords, EntrySpec, Moves
<1> QED
  BY <1>3, <1>4 DEF e

\* Only the latches of the flags and of the carry change.
LEMMA MovesStays ==
  ASSUME NEW s, NEW e \in DecodedEntries, NEW src1, NEW src2, NEW dest, NEW idx,
         Moves(e, s, src1, src2, dest, idx), e.next.size = s.size,
         NEW f, \/ f = Carrying(e)
                \/ f = [e EXCEPT !.operation.flags = TRUE]
                \/ f = [e EXCEPT !.operation.flags = TRUE, !.operation.aux = "LATCH_AUX_CLEAR"]
  PROVE  Moves(f, s, src1, src2, dest, idx) /\ f.next.size = s.size
<1>1. e.operation \in ControlWords
  BY DEF DecodedEntries
<1>2. /\ \/ f.operation = [e.operation EXCEPT !.aux = "LATCH_AUX_CARRY"]
         \/ f.operation = [e.operation EXCEPT !.flags = TRUE]
         \/ f.operation = [e.operation EXCEPT !.flags = TRUE, !.aux = "LATCH_AUX_CLEAR"]
      /\ f.next = e.next /\ f.branch = e.branch
  BY DEF DecodedEntries, Carrying
<1>3. /\ f.operation.src1 = e.operation.src1 /\ f.operation.src2 = e.operation.src2
      /\ f.operation.dest = e.operation.dest
  BY <1>1, <1>2 DEF ControlWords
<1> QED
  BY <1>2, <1>3 DEF Moves

\* The routine.
Loads == {"MU_MUL_LD_FACTOR_A", "MU_MUL_LD_PRODUCT_LO", "MU_MUL_LD_PRODUCT_HI", "MU_MUL_LD_REPI"}
Loop ==
  {"MU_MUL_SHIFT_PRODUCT_LO_LEFT", "MU_MUL_SHIFT_PRODUCT_HI_LEFT", "MU_MUL_SHIFT_FACTOR_B_LEFT",
   "MU_MUL_ADD_PRODUCT_LO", "MU_MUL_ADD_PRODUCT_HI", "MU_MUL_LOOP"}

\* Names that stand in it.
LEMMA MulNames ==
  /\ "REG" \in Locations /\ "R0" \in Locations /\ "ZERO" \in Locations /\ "REPI" \in Locations
  /\ "FACTOR_A" \in Locations /\ "FACTOR_B" \in Locations /\ "CARRY" \in Locations
  /\ "MU_MUL_LD_PRODUCT_LO" \in MucodeEntries /\ "MU_MUL_LD_PRODUCT_HI" \in MucodeEntries
  /\ "MU_MUL_LD_REPI" \in MucodeEntries /\ "MU_MUL_SHIFT_PRODUCT_HI_LEFT" \in MucodeEntries
  /\ "MU_MUL_SHIFT_FACTOR_B_LEFT" \in MucodeEntries /\ "MU_MUL_ADD_PRODUCT_LO" \in MucodeEntries
  /\ "MU_MUL_ADD_PRODUCT_HI" \in MucodeEntries /\ "MU_MUL_LOOP" \in MucodeEntries
  /\ "MU_MUL_SHIFT_PRODUCT_LO_LEFT" \in MucodeEntries /\ "MU_NONE" \in MucodeEntries
  /\ "LATCH_AUX_CLEAR" \in AuxLatches /\ CondDjnz \in 0..16
BY DEF Locations, MucodeEntries, AuxLatches, CondDjnz

\* The entries before the loop,
LEMMA LoadEntries ==
  ASSUME NEW s \in EntrySpec, NEW e, e = Entry(s)
  PROVE  /\ s.idx = "MU_MUL_LD_FACTOR_A" =>
              Moves(e, s, "REG", "ZERO", "FACTOR_A", "MU_MUL_LD_PRODUCT_LO") /\ e.next.size = s.size
         /\ s.idx = "MU_MUL_LD_PRODUCT_LO" =>
              Moves(e, s, "ZERO", "ZERO", "REG", "MU_MUL_LD_PRODUCT_HI") /\ e.next.size = s.size
         /\ s.idx = "MU_MUL_LD_PRODUCT_HI" =>
              Moves(e, s, "ZERO", "ZERO", "R0", "MU_MUL_LD_REPI") /\ e.next.size = s.size
         /\ s.idx = "MU_MUL_LD_REPI" =>
              /\ Moves(e, s, "NUM_BITS", "ZERO", "REPI", "MU_MUL_SHIFT_PRODUCT_LO_LEFT")
              /\ s.size # 24 => e.next.size = s.size
<1>1. CASE s.idx = "MU_MUL_LD_FACTOR_A"
  <2>1. e = MulStep(s, "REG", "ZERO", "FACTOR_A", "MU_MUL_LD_PRODUCT_LO")
    <3>1. e = mul_1cyc_ld_factor_a_(s)
      BY <1>1 DEF Entry
    <3> QED
      BY <3>1 DEF mul_1cyc_ld_factor_a_
  <2>2. "REG" \in Locations /\ "ZERO" \in Locations /\ "FACTOR_A" \in Locations
        /\ "MU_MUL_LD_PRODUCT_LO" \in MucodeEntries
    BY MulNames
  <2>3. Moves(e, s, "REG", "ZERO", "FACTOR_A", "MU_MUL_LD_PRODUCT_LO") /\ e.next.size = s.size
    BY <2>2, <2>1, MulStepFields
  <2> QED
    BY <1>1, <2>3
<1>2. CASE s.idx = "MU_MUL_LD_PRODUCT_LO"
  <2>1. e = MulStep(s, "ZERO", "ZERO", "REG", "MU_MUL_LD_PRODUCT_HI")
    <3>1. e = mul_2cyc_ld_product_lo_(s)
      BY <1>2 DEF Entry
    <3> QED
      BY <3>1 DEF mul_2cyc_ld_product_lo_
  <2>2. "ZERO" \in Locations /\ "REG" \in Locations
        /\ "MU_MUL_LD_PRODUCT_HI" \in MucodeEntries
    BY MulNames
  <2>3. Moves(e, s, "ZERO", "ZERO", "REG", "MU_MUL_LD_PRODUCT_HI") /\ e.next.size = s.size
    BY <2>2, <2>1, MulStepFields
  <2> QED
    BY <1>2, <2>3
<1>3. CASE s.idx = "MU_MUL_LD_PRODUCT_HI"
  <2>1. e = MulStep(s, "ZERO", "ZERO", "R0", "MU_MUL_LD_REPI")
    <3>1. e = mul_3cyc_ld_product_hi_(s)
      BY <1>3 DEF Entry
    <3> QED
      BY <3>1 DEF mul_3cyc_ld_product_hi_
  <2>2. "ZERO" \in Locations /\ "R0" \in Locations
        /\ "MU_MUL_LD_REPI" \in MucodeEntries
    BY MulNames
  <2>3. Moves(e, s, "ZERO", "ZERO", "R0", "MU_MUL_LD_REPI") /\ e.next.size = s.size
    BY <2>2, <2>1, MulStepFields
  <2> QED
    BY <1>3, <2>3
<1>4. CASE s.idx = "MU_MUL_LD_REPI"
  <2>1. e = Computing(s, "NUM_BITS", "ZERO", "REPI", "MU_MUL_SHIFT_PRODUCT_LO_LEFT")
    <3>1. e = mul_4cyc_ld_repi_(s)
      BY <1>4 DEF Entry
    <3> QED
      BY <3>1 DEF mul_4cyc_ld_repi_
  <2> QED
    BY <1>4, <2>1, ComputingFields
<1> QED
  BY <1>1, <1>2, <1>3, <1>4

\* in the loop,
LEMMA LoopEntries ==
  ASSUME NEW s \in EntrySpec, NEW e, e = Entry(s), s.idx \in Loop \ {"MU_MUL_LOOP"}
  PROVE  /\ s.idx = "MU_MUL_SHIFT_PRODUCT_LO_LEFT" =>
              Moves(e, s, "ZERO", "REG", "REG", "MU_MUL_SHIFT_PRODUCT_HI_LEFT")
         /\ s.idx = "MU_MUL_SHIFT_PRODUCT_HI_LEFT" =>
              Moves(e, s, "ZERO", "R0", "R0", "MU_MUL_SHIFT_FACTOR_B_LEFT")
         /\ s.idx = "MU_MUL_SHIFT_FACTOR_B_LEFT" =>
              Moves(e, s, "ZERO", "FACTOR_B", "FACTOR_B", "MU_MUL_ADD_PRODUCT_LO")
         /\ s.idx = "MU_MUL_ADD_PRODUCT_LO" =>
              Moves(e, s, "REG", "FACTOR_A", "REG", "MU_MUL_ADD_PRODUCT_HI")
         /\ s.idx = "MU_MUL_ADD_PRODUCT_HI" =>
              Moves(e, s, "R0", "CARRY", "R0", "MU_MUL_LOOP")
         /\ e.next.size = s.size
<1>1. CASE s.idx = "MU_MUL_SHIFT_PRODUCT_LO_LEFT"
  <2> DEFINE m == MulStep(s, "ZERO", "REG", "REG", "MU_MUL_SHIFT_PRODUCT_HI_LEFT")
  <2>1. e = Carrying(m)
    <3>1. e = mul_ncyc_shift_product_lo_left_(s)
      BY <1>1 DEF Entry
    <3> QED
      BY <3>1 DEF mul_ncyc_shift_product_lo_left_
  <2>2. "ZERO" \in Locations /\ "REG" \in Locations
        /\ "MU_MUL_SHIFT_PRODUCT_HI_LEFT" \in MucodeEntries
    BY MulNames
  <2>3. m \in DecodedEntries /\ m.next.size = s.size
        /\ Moves(m, s, "ZERO", "REG", "REG", "MU_MUL_SHIFT_PRODUCT_HI_LEFT")
    BY <2>2, MulStepFields
  <2> HIDE DEF m
  <2>4. Moves(e, s, "ZERO", "REG", "REG", "MU_MUL_SHIFT_PRODUCT_HI_LEFT") /\ e.next.size = s.size
    BY <2>1, <2>3, MovesStays
  <2> QED
    BY <1>1, <2>4
<1>2. CASE s.idx = "MU_MUL_SHIFT_PRODUCT_HI_LEFT"
  <2> DEFINE m == MulStep(s, "ZERO", "R0", "R0", "MU_MUL_SHIFT_FACTOR_B_LEFT")
  <2>1. e = Carrying(m)
    <3>1. e = mul_n1cyc_shift_product_hi_left_(s)
      BY <1>2 DEF Entry
    <3> QED
      BY <3>1 DEF mul_n1cyc_shift_product_hi_left_
  <2>2. "ZERO" \in Locations /\ "R0" \in Locations
        /\ "MU_MUL_SHIFT_FACTOR_B_LEFT" \in MucodeEntries
    BY MulNames
  <2>3. m \in DecodedEntries /\ m.next.size = s.size
        /\ Moves(m, s, "ZERO", "R0", "R0", "MU_MUL_SHIFT_FACTOR_B_LEFT")
    BY <2>2, MulStepFields
  <2> HIDE DEF m
  <2>4. Moves(e, s, "ZERO", "R0", "R0", "MU_MUL_SHIFT_FACTOR_B_LEFT") /\ e.next.size = s.size
    BY <2>1, <2>3, MovesStays
  <2> QED
    BY <1>2, <2>4
<1>3. CASE s.idx = "MU_MUL_SHIFT_FACTOR_B_LEFT"
  <2> DEFINE m == MulStep(s, "ZERO", "FACTOR_B", "FACTOR_B", "MU_MUL_ADD_PRODUCT_LO")
  <2>1. e = Carrying(m)
    <3>1. e = mul_n2cyc_shift_factor_b_left_(s)
      BY <1>3 DEF Entry
    <3> QED
      BY <3>1 DEF mul_n2cyc_shift_factor_b_left_
  <2>2. "ZERO" \in Locations /\ "FACTOR_B" \in Locations
        /\ "MU_MUL_ADD_PRODUCT_LO" \in MucodeEntries
    BY MulNames
  <2>3. m \in DecodedEntries /\ m.next.size = s.size
        /\ Moves(m, s, "ZERO", "FACTOR_B", "FACTOR_B", "MU_MUL_ADD_PRODUCT_LO")
    BY <2>2, MulStepFields
  <2> HIDE DEF m
  <2>4. Moves(e, s, "ZERO", "FACTOR_B", "FACTOR_B", "MU_MUL_ADD_PRODUCT_LO") /\ e.next.size = s.size
    BY <2>1, <2>3, MovesStays
  <2> QED
    BY <1>3, <2>4
<1>4. CASE s.idx = "MU_MUL_ADD_PRODUCT_LO"
  <2> DEFINE m == MulStep(s, "REG", "FACTOR_A", "REG", "MU_MUL_ADD_PRODUCT_HI")
  <2>1. e = [m EXCEPT !.operation.flags = TRUE]
    <3>1. e = mul_n3cyc_add_product_lo_(s)
      BY <1>4 DEF Entry
    <3> QED
      BY <3>1 DEF mul_n3cyc_add_product_lo_
  <2>2. "REG" \in Locations /\ "FACTOR_A" \in Locations
        /\ "MU_MUL_ADD_PRODUCT_HI" \in MucodeEntries
    BY MulNames
  <2>3. m \in DecodedEntries /\ m.next.size = s.size
        /\ Moves(m, s, "REG", "FACTOR_A", "REG", "MU_MUL_ADD_PRODUCT_HI")
    BY <2>2, MulStepFields
  <2> HIDE DEF m
  <2>4. Moves(e, s, "REG", "FACTOR_A", "REG", "MU_MUL_ADD_PRODUCT_HI") /\ e.next.size = s.size
    BY <2>1, <2>3, MovesStays
  <2> QED
    BY <1>4, <2>4
<1>5. CASE s.idx = "MU_MUL_ADD_PRODUCT_HI"
  <2> DEFINE m == MulStep(s, "R0", "CARRY", "R0", "MU_MUL_LOOP")
  <2>1. e = [m EXCEPT !.operation.flags = TRUE, !.operation.aux = "LATCH_AUX_CLEAR"]
    <3>1. e = mul_n4cyc_add_product_hi_(s)
      BY <1>5 DEF Entry
    <3> QED
      BY <3>1 DEF mul_n4cyc_add_product_hi_
  <2>2. "R0" \in Locations /\ "CARRY" \in Locations
        /\ "MU_MUL_LOOP" \in MucodeEntries
    BY MulNames
  <2>3. m \in DecodedEntries /\ m.next.size = s.size
        /\ Moves(m, s, "R0", "CARRY", "R0", "MU_MUL_LOOP")
    BY <2>2, MulStepFields
  <2> HIDE DEF m
  <2>4. Moves(e, s, "R0", "CARRY", "R0", "MU_MUL_LOOP") /\ e.next.size = s.size
    BY <2>1, <2>3, MovesStays
  <2> QED
    BY <1>5, <2>4
<1> QED
  BY <1>1, <1>2, <1>3, <1>4, <1>5 DEF Loop

\* and at its end.
LEMMA LoopEnds ==
  ASSUME NEW s \in EntrySpec, NEW e, e = Entry(s), s.idx = "MU_MUL_LOOP"
  PROVE  /\ e.operation.src1 = "REPI" /\ e.operation.src2 = "ZERO" /\ e.operation.dest = "REPI"
         /\ e.branch /\ e.next_no_branch.idx = "MU_NONE"
         /\ e.next.idx = "MU_MUL_SHIFT_PRODUCT_LO_LEFT" /\ e.next.sel = s.sel % 16
         /\ e.next.size = s.size
<1> DEFINE c == Computing(s, "REPI", "ZERO", "REPI", "MU_NONE")
           r == repi_(s)
           b == Branching(r, CondDjnz, "MU_MUL_SHIFT_PRODUCT_LO_LEFT", "MU_NONE")
<1>1. c \in DecodedEntries /\ Moves(c, s, "REPI", "ZERO", "REPI", "MU_NONE")
  BY ComputingType, ComputingFields, MulNames
<1>2. r = [c EXCEPT !.operation.aux = "LATCH_AUX_ZERO"]
  BY DEF repi_
<1> HIDE DEF c, r
<1>3. r \in DecodedEntries /\ r.operation = [c.operation EXCEPT !.aux = "LATCH_AUX_ZERO"]
  BY <1>1, <1>2, EntryUpdates, ControlParts DEF DecodedEntries
<1>4. r.operation.src1 = "REPI" /\ r.operation.src2 = "ZERO" /\ r.operation.dest = "REPI"
  <2>1. c.operation \in ControlWords
    BY <1>1 DEF DecodedEntries
  <2> QED
    BY <1>1, <1>3, <2>1 DEF ControlWords, Moves
<1>5. /\ b.operation = r.operation /\ b.branch
      /\ b.next = [r.next EXCEPT !.idx = "MU_MUL_SHIFT_PRODUCT_LO_LEFT"]
      /\ b.next_no_branch = [r.next_no_branch EXCEPT !.idx = "MU_NONE"]
      /\ b \in DecodedEntries
  <2>1. b \in DecodedEntries
    BY <1>3, BranchingType, MulNames
  <2> QED
    BY <1>3, <2>1 DEF Branching, DecodedEntries
<1>6. e = [b EXCEPT !.next.sel = s.sel % 16, !.next.size = s.size]
  BY DEF Entry, mul_n5cyc_loop_, r
<1> HIDE DEF b
<1>7. /\ e.operation = b.operation /\ e.branch = b.branch /\ e.next_no_branch = b.next_no_branch
      /\ e.next = [b.next EXCEPT !.sel = s.sel % 16, !.size = s.size]
  BY <1>5, <1>6 DEF DecodedEntries
<1>8. r.next \in EntrySpec /\ r.next_no_branch \in EntrySpec /\ b.next \in EntrySpec
  BY <1>3, <1>5 DEF DecodedEntries
<1>9. /\ e.next.idx = "MU_MUL_SHIFT_PRODUCT_LO_LEFT" /\ e.next.sel = s.sel % 16
      /\ e.next.size = s.size /\ e.next_no_branch.idx = "MU_NONE"
  BY <1>5, <1>7, <1>8 DEF EntrySpec
<1> QED
  BY <1>4, <1>5, <1>7, <1>9

-----------------------------------------------------------------------------
(***************************************************************************)
(* The registers and latches keep their types.                             *)
(***************************************************************************)
Cores ==
  [F : SUBSET Flags, latch_aux : BOOLEAN, used_z : BOOLEAN, out : Outputs, repi : 0..31,
   rd : Words, r0 : Words, factor_a : Words, factor_b : Words]

MulEntries == Loads \cup Loop

TypeInv ==
  /\ Instruction /\ OnlyMulRuns
  /\ core \in Cores /\ at \in EntrySpec
  /\ inst.stage = "running" => at.idx \in MulEntries
  /\ "D" \in core.F <=> "D" \in inst.F

\* Numbers that are words, and results.
LEMMA SmallWords ==
  /\ 0 \in Words /\ 0 \in Outputs /\ Words \subseteq Nat /\ Outputs \subseteq Nat
  /\ 0..31 \subseteq Nat /\ Words \subseteq Outputs
BY SMT DEF Words, Outputs

\* The operands of the bit operations.
LEMMA BitsOfByte ==
  ASSUME NEW i \in 0..7
  PROVE  2 ^ i \in {1, 2, 4, 8, 16, 32, 64, 128}
<1>1. CASE i = 0
  BY <1>1, PowersOfTwo
<1>2. CASE i = 1
  BY <1>2, PowersOfTwo
<1>3. CASE i = 2
  BY <1>3, PowersOfTwo
<1>4. CASE i = 3
  BY <1>4, PowersOfTwo
<1>5. CASE i = 4
  BY <1>5, PowersOfTwo
<1>6. CASE i = 5
  BY <1>6, PowersOfTwo
<1>7. CASE i = 6
  BY <1>7, PowersOfTwo
<1>8. CASE i = 7
  BY <1>8, PowersOfTwo
<1>9. i \in {0, 1, 2, 3, 4, 5, 6, 7}
  BY SMT
<1> QED
  BY <1>1, <1>2, <1>3, <1>4, <1>5, <1>6, <1>7, <1>8, <1>9

\* Operands.
LEMMA InstructionWords ==
  ASSUME Instruction
  PROVE  inst.size \in Sizes /\ inst.a \in Words /\ inst.b \in Words
<1>1. inst.size \in Sizes
  BY DEF Instruction, SizesOf, Sizes
<1>2. Values[inst.size] \subseteq 0..(2 ^ inst.size - 1)
  BY <1>1, DatapathAssumption
<1>3. 0..(2 ^ inst.size - 1) \subseteq Words
  <2> DEFINE N == 2 ^ inst.size
  <2>1. N \in Nat /\ N <= WordSize
    BY <1>1, CutIsWord
  <2> HIDE DEF N
  <2>2. 0..(N - 1) \subseteq Words
    BY <2>1, WordIs, SMT DEF Words
  <2> QED
    BY <2>2 DEF N
<1>4. inst.a \in Words
  BY <1>2, <1>3 DEF Instruction
<1>5. 0..7 \subseteq Words
  BY SMT DEF Words
<1>6. {2 ^ i : i \in 0..7} \subseteq Words
  <2>1. {1, 2, 4, 8, 16, 32, 64, 128} \subseteq Words
    BY SMT DEF Words
  <2> QED
    BY <2>1, BitsOfByte
<1>7. inst.b \in {0} \/ inst.b \in 0..7 \/ inst.b \in {2 ^ i : i \in 0..7} \/ inst.b \in Values[inst.size]
  BY DEF Instruction, SecondOperands
<1> QED
  BY <1>1, <1>2, <1>3, <1>4, <1>5, <1>6, <1>7, SmallWords

\* A register of which a part is written.
LEMMA WrittenType ==
  ASSUME NEW size \in Sizes, NEW old \in Words, NEW v \in Nat, NEW N, N = 2 ^ size
  PROVE  Written(old, size, v) \in Words /\ Written(old, size, v) % N = v % N
<1> DEFINE w == (old - (old % N)) + (v % N)
<1>1. Written(old, size, v) = w
  BY DEF Written, Truncated
<1>2. Width(N, 2 ^ (size - 1))
  BY Widths
<1>3. CASE N = 256
  BY <1>1, <1>3, SMT DEF Words
<1>4. CASE N = 65536
  BY <1>1, <1>4, SMT DEF Words
<1>5. CASE N = 16777216
  BY <1>1, <1>5, SMT DEF Words
<1> QED
  BY <1>2, <1>3, <1>4, <1>5 DEF Width

\* What the ALU does with the first operand or the second, when the other is zero.
Copies(c) ==
  /\ c.operation = "ALU_OR" /\ c.shifter = "SHIFTER_NONE" /\ c.size1 \in Sizes /\ c.size2 \in Sizes
  /\ ~c.sx2 /\ ~c.add1 /\ ~c.add_carry /\ ~c.negate /\ ~c.and_aux

\* Such an instruction copies the operand that is not zero, cut to its size.
LEMMA CopyOfAlu ==
  ASSUME NEW c, Copies(c), NEW s, NEW a \in Nat, NEW b \in Nat, a = 0 \/ b = 0
  PROVE  AluResult(c, s, a, b).out = IF b = 0 THEN Truncated(a, c.size1) ELSE Truncated(b, c.size2)
<1> DEFINE x == Truncated(a, c.size1)
           y == Truncated(b, c.size2)
<1>1. Increased(c, s, b) = b
  BY SMT DEF Increased, Number, Copies
<1>2. Prepared(c, s, b) = y
  BY <1>1 DEF Prepared, Negated, Gated, Extended, Copies
<1>3. Shifted(c, s, y) = y
  BY DEF Shifted, Copies, LeftShifts, RightShifts
<1>4. x \in Nat /\ y \in Nat /\ (a = 0 => x = 0) /\ (b = 0 => y = 0)
  <2>1. \A size \in Sizes : Truncated(0, size) = 0
    <3> SUFFICES ASSUME NEW size \in Sizes PROVE Truncated(0, size) = 0
      OBVIOUS
    <3>1. 2 ^ size \in Nat /\ 2 ^ size > 0
      BY CutIsWord
    <3> QED
      BY <3>1, SMT DEF Truncated
  <2>2. x \in Words /\ y \in Words
    BY CutIsWord DEF Copies
  <2> QED
    BY <2>1, <2>2, SmallWords DEF Copies
<1> HIDE DEF x, y
<1>5. Operated(c.operation, x, y) = x + y - Common[x][y]
  BY DEF Operated, BitOr, Copies
<1>6. Common[x][y] = 0
  BY <1>4, CommonBounds
<1>7. AluResult(c, s, a, b).out = Adjusted(c, s, x, y, Operated(c.operation, x, y))
  BY <1>2, <1>3 DEF AluResult, x
<1>8. Adjusted(c, s, x, y, Operated(c.operation, x, y)) = Operated(c.operation, x, y)
  BY DEF Adjusted, CarryInto, Copies
<1>9. AluResult(c, s, a, b).out = x + y
  BY <1>4, <1>5, <1>6, <1>7, <1>8, SMT
<1> QED
  BY <1>4, <1>9 DEF x, y

\* Writing a result, and storing it.
LEMMA WithResultType ==
  ASSUME NEW x \in Cores, NEW c \in AluControls, NEW a \in Nat, NEW b \in Nat,
         NEW r, r = AluResult(c, x, a, b), NEW y, y = WithResult(x, r)
  PROVE  /\ y \in Cores /\ y.F = r.F /\ y.latch_aux = r.latch_aux /\ y.used_z = r.used_z
         /\ y.out = r.out /\ r.out \in Outputs
         /\ y.repi = x.repi /\ y.rd = x.rd /\ y.r0 = x.r0
         /\ y.factor_a = x.factor_a /\ y.factor_b = x.factor_b
         /\ "D" \in y.F <=> "D" \in x.F
<1>1. r.out \in Outputs
  BY AluOutput DEF Cores
<1>2. /\ r.F \subseteq Flags /\ ("D" \in r.F <=> "D" \in x.F)
      /\ r.used_z \in BOOLEAN /\ r.latch_aux \in BOOLEAN
  BY AluFlags DEF Cores
<1> QED
  BY <1>1, <1>2 DEF WithResult, Cores

\* Where results go.
Destinations == {"REG", "R0", "FACTOR_A", "FACTOR_B", "REPI"}

\* A result is stored in one place.
LEMMA StoredType ==
  ASSUME NEW x \in Cores, NEW location \in Destinations, NEW size \in Sizes,
         NEW y, y = Stored(x, location, size)
  PROVE  /\ y \in Cores /\ y.F = x.F /\ y.latch_aux = x.latch_aux
         /\ y.rd = IF location = "REG" THEN Written(x.rd, size, x.out) ELSE x.rd
         /\ y.factor_a = IF location = "FACTOR_A" THEN Truncated(x.out, 24) ELSE x.factor_a
         /\ y.factor_b = IF location = "FACTOR_B" THEN Truncated(x.out, 24) ELSE x.factor_b
         /\ y.repi = IF location = "REPI" THEN x.out % 32 ELSE x.repi
<1>1. x.out \in Nat /\ x.rd \in Words /\ x.r0 \in Words
  BY SmallWords DEF Cores
<1>2. Written(x.rd, size, x.out) \in Words /\ Written(x.r0, size, x.out) \in Words
  BY <1>1, WrittenType
<1>3. Truncated(x.out, 24) \in Words
  <2>1. 24 \in Sizes /\ x.out \in Int
    BY <1>1 DEF Sizes
  <2> QED
    BY <2>1, CutIsWord
<1>4. x.out % 32 \in 0..31
  BY <1>1, SMT
<1>5. CASE location = "REG"
  BY <1>2, <1>5 DEF Stored, Cores
<1>6. CASE location = "R0"
  BY <1>2, <1>6 DEF Stored, Cores
<1>7. CASE location = "FACTOR_A"
  BY <1>3, <1>7 DEF Stored, Cores
<1>8. CASE location = "FACTOR_B"
  BY <1>3, <1>8 DEF Stored, Cores
<1>9. CASE location = "REPI"
  BY <1>4, <1>9 DEF Stored, Cores, Repi
<1> QED
  BY <1>5, <1>6, <1>7, <1>8, <1>9 DEF Destinations

\* What is fetched.
Sources == {"REG", "R0", "FACTOR_A", "FACTOR_B", "REPI", "NUM_BITS", "CARRY", "ZERO"}

\* It is a number.
LEMMA FetchedType ==
  ASSUME core \in Cores, NEW location \in Sources, NEW size \in Sizes
  PROVE  Fetched(location, size) \in Nat
<1>1. core.rd \in Nat /\ core.r0 \in Nat /\ core.factor_a \in Nat /\ core.factor_b \in Nat /\ core.repi \in Nat
  BY SmallWords DEF Cores
<1>2. 2 ^ size - 1 \in Nat /\ size \in Nat /\ 0 \in Nat
  <2>1. 2 ^ size \in Nat /\ 2 ^ size > 0
    BY CutIsWord
  <2>2. size \in Nat
    BY DEF Sizes
  <2> QED
    BY <2>1, <2>2, SMT
<1>3. Fetched(location, size) \in
        {core.rd, core.r0, core.factor_a, core.factor_b, core.repi, size, 2 ^ size - 1, 0}
  BY DEF Fetched, Sources
<1> QED
  BY <1>1, <1>2, <1>3

\* Where the entries of MUL take their operands and leave their results.
LEMMA MulRow ==
  ASSUME NEW s \in EntrySpec, s.idx \in MulEntries, NEW e, e = Entry(s)
  PROVE  /\ e.operation.src1 \in Sources /\ e.operation.src2 \in Sources
         /\ e.operation.dest \in Destinations
         /\ e.next \in EntrySpec /\ e.next.idx \in MulEntries
         /\ e.branch <=> s.idx = "MU_MUL_LOOP"
         /\ e.branch => e.next_no_branch \in EntrySpec /\ e.next_no_branch.idx = "MU_NONE"
<1>1. e.next \in EntrySpec /\ e.next_no_branch \in EntrySpec
  <2>1. EntryOf[s] \in DecodedEntries
    BY EntryType
  <2> QED
    BY <2>1 DEF EntryOf, DecodedEntries
<1>2. CASE s.idx = "MU_MUL_LOOP"
  BY <1>1, <1>2, LoopEnds DEF Sources, Destinations, MulEntries, Loop
<1>3. CASE s.idx \in Loads
  <2>1. \E src1, src2 \in Sources, dest \in Destinations, idx \in MulEntries : Moves(e, s, src1, src2, dest, idx)
    BY <1>3, LoadEntries DEF Loads, Sources, Destinations, MulEntries, Loop
  <2> QED
    BY <1>1, <1>3, <2>1 DEF Moves, Loads
<1>4. CASE s.idx \in Loop \ {"MU_MUL_LOOP"}
  <2>1. \E src1, src2 \in Sources, dest \in Destinations, idx \in MulEntries : Moves(e, s, src1, src2, dest, idx)
    BY <1>4, LoopEntries DEF Loop, Sources, Destinations, MulEntries
  <2> QED
    BY <1>1, <1>4, <2>1 DEF Moves
<1> QED
  BY <1>2, <1>3, <1>4 DEF MulEntries, Loop

\* A step of MUL.
LEMMA MulStepShape ==
  ASSUME TypeInv, MulStepEnds,
         NEW e, e = Entry(at), NEW c, c = AluOfEntry(at),
         NEW a, a = Fetched(e.operation.src1, c.size1),
         NEW b, b = Fetched(e.operation.src2, c.size2), NEW r, r = AluResult(c, core, a, b)
  PROVE  /\ at.idx \in MulEntries /\ a \in Nat /\ b \in Nat /\ r.out \in Outputs
         /\ c \in AluControls
         /\ core' \in Cores /\ core'.latch_aux = r.latch_aux
         /\ "D" \in core'.F <=> "D" \in core.F
         /\ core'.rd = IF e.operation.dest = "REG" THEN Written(core.rd, c.size1, r.out) ELSE core.rd
         /\ core'.factor_a = IF e.operation.dest = "FACTOR_A" THEN Truncated(r.out, 24) ELSE core.factor_a
         /\ core'.factor_b = IF e.operation.dest = "FACTOR_B" THEN Truncated(r.out, 24) ELSE core.factor_b
         /\ core'.repi = IF e.operation.dest = "REPI" THEN r.out % 32 ELSE core.repi
         /\ at' = IF e.branch /\ r.latch_aux THEN e.next_no_branch ELSE e.next
         /\ at' \in EntrySpec /\ inst.stage = "running"
         /\ inst' = [inst EXCEPT !.stage = IF at'.idx = "MU_NONE" THEN "done" ELSE inst.stage]
         /\ at'.idx # "MU_NONE" => at'.idx \in MulEntries
<1> DEFINE w == WithResult(core, r)
           x == Stored(w, e.operation.dest, c.size1)
<1>1. /\ core \in Cores /\ at \in EntrySpec /\ at.idx \in MulEntries /\ inst.stage = "running"
  BY DEF TypeInv, MulStepEnds
<1>2. c \in AluControls /\ c.size1 \in Sizes /\ c.size2 \in Sizes
  <2>1. at.size \in Sizes /\ at.sel \in 0..31
    BY <1>1 DEF EntrySpec, Sizes
  <2> QED
    BY <2>1, EntryControlType DEF AluControls
<1>3. /\ e.operation.src1 \in Sources /\ e.operation.src2 \in Sources
      /\ e.operation.dest \in Destinations
      /\ e.next \in EntrySpec /\ e.next.idx \in MulEntries
      /\ e.branch => e.next_no_branch \in EntrySpec /\ e.next_no_branch.idx = "MU_NONE"
  BY <1>1, MulRow
<1>4. a \in Nat /\ b \in Nat
  BY <1>1, <1>2, <1>3, FetchedType
<1>5. /\ w \in Cores /\ w.latch_aux = r.latch_aux /\ w.out = r.out /\ r.out \in Outputs
      /\ w.rd = core.rd /\ w.repi = core.repi
      /\ w.factor_a = core.factor_a /\ w.factor_b = core.factor_b
      /\ "D" \in w.F <=> "D" \in core.F
  BY <1>1, <1>2, <1>4, WithResultType
<1>6. /\ core' = x
      /\ at' = IF e.branch /\ x.latch_aux THEN e.next_no_branch ELSE e.next
      /\ inst' = [inst EXCEPT !.stage = IF at'.idx = "MU_NONE" THEN "done" ELSE inst.stage]
  BY Zenon DEF MulStepEnds
<1> HIDE DEF w
<1>7. /\ x \in Cores /\ x.F = w.F /\ x.latch_aux = w.latch_aux
      /\ x.rd = IF e.operation.dest = "REG" THEN Written(w.rd, c.size1, w.out) ELSE w.rd
      /\ x.factor_a = IF e.operation.dest = "FACTOR_A" THEN Truncated(w.out, 24) ELSE w.factor_a
      /\ x.factor_b = IF e.operation.dest = "FACTOR_B" THEN Truncated(w.out, 24) ELSE w.factor_b
      /\ x.repi = IF e.operation.dest = "REPI" THEN w.out % 32 ELSE w.repi
  BY <1>2, <1>3, <1>5, StoredType
<1> HIDE DEF x
<1>8. at' \in EntrySpec /\ (at'.idx # "MU_NONE" => at'.idx \in MulEntries)
  BY <1>3, <1>6
<1> QED
  BY <1>1, <1>2, <1>4, <1>5, <1>6, <1>7, <1>8

\* The types hold before the first step,
LEMMA TypeInvInit == Init => TypeInv
<1> SUFFICES ASSUME Init PROVE TypeInv
  OBVIOUS
<1>1. Instruction /\ OnlyMulRuns /\ inst.stage = "offered"
  BY DEF Init, Instruction, OnlyMulRuns
<1>2. PICK F \in SUBSET {"D", "X"} :
        /\ inst.F = F
        /\ core = [F |-> F, latch_aux |-> FALSE, used_z |-> FALSE, out |-> 0, repi |-> 0,
                   rd |-> inst.a, r0 |-> 0, factor_a |-> 0, factor_b |-> 0]
  <2>1. PICK name, size, a, b, F :
          /\ F \in SUBSET {"D", "X"}
          /\ inst = [name |-> name, size |-> size, a |-> a, b |-> b, F |-> F, stage |-> "offered"]
          /\ core = [F |-> F, latch_aux |-> FALSE, used_z |-> FALSE, out |-> 0, repi |-> 0,
                     rd |-> a, r0 |-> 0, factor_a |-> 0, factor_b |-> 0]
    BY DEF Init
  <2>2. inst.F = F /\ inst.a = a
    BY <2>1
  <2> QED
    BY <2>1, <2>2
<1>3. inst.a \in Words /\ 0 \in Words /\ 0 \in Outputs /\ 0 \in 0..31
  BY <1>1, InstructionWords, SmallWords, SMT
<1>4. core \in Cores
  BY <1>2, <1>3 DEF Cores, Flags
<1>5. at \in EntrySpec
  BY NoEntryType DEF Init
<1> QED
  BY <1>1, <1>2, <1>4, <1>5 DEF TypeInv

\* An instruction keeps its name and its operands.
LEMMA InstructionKept ==
  ASSUME Instruction, NEW stage, inst' = [inst EXCEPT !.stage = stage]
  PROVE  /\ Instruction'
         /\ inst'.name = inst.name /\ inst'.size = inst.size /\ inst'.a = inst.a
         /\ inst'.b = inst.b /\ inst'.F = inst.F /\ inst'.stage = stage
<1>1. /\ inst'.name = inst.name /\ inst'.size = inst.size /\ inst'.a = inst.a
      /\ inst'.b = inst.b /\ inst'.F = inst.F /\ inst'.stage = stage
      /\ inst' = [name |-> inst.name, size |-> inst.size, a |-> inst.a, b |-> inst.b,
                  F |-> inst.F, stage |-> stage]
  BY DEF Instruction
<1> QED
  BY <1>1 DEF Instruction

\* and MUL starts with the second factor in its register.
LEMMA StartMulShape ==
  ASSUME TypeInv, StartMul
  PROVE  /\ core' \in Cores /\ core'.factor_b = inst.b /\ core'.rd = core.rd
         /\ "D" \in core'.F <=> "D" \in core.F
         /\ at' \in EntrySpec /\ at'.idx = "MU_MUL_LD_FACTOR_A" /\ at'.size = inst.size
         /\ at'.sel = IF inst.name = "MULS" THEN 24 ELSE 0
         /\ inst.stage = "offered" /\ inst.name \in Multiplications
         /\ inst' = [inst EXCEPT !.stage = "running"]
<1> DEFINE c == PlainControl(inst.size)
           r == AluResult(c, core, 0, inst.b)
           w == WithResult(core, r)
<1>1. inst.size \in Sizes /\ inst.b \in Words /\ inst.b \in Nat /\ 0 \in Nat /\ core \in Cores
  BY InstructionWords, SmallWords DEF TypeInv
<1>2. c \in AluControls
  BY <1>1, PlainControlType
<1>3. Copies(c) /\ c.size2 = inst.size /\ c.size1 = inst.size
  BY <1>1 DEF Copies, PlainControl
<1>4. r.out = IF inst.b = 0 THEN Truncated(0, inst.size) ELSE Truncated(inst.b, inst.size)
  BY <1>1, <1>3, CopyOfAlu
<1>5. w \in Cores /\ w.rd = core.rd /\ ("D" \in w.F <=> "D" \in core.F)
  BY <1>1, <1>2, WithResultType
<1>6. core' = [w EXCEPT !.factor_b = r.out]
  BY Zenon DEF StartMul
<1> HIDE DEF r, w, c
<1>7. inst.b < 2 ^ inst.size
  <2>1. inst.b \in Values[inst.size]
    BY DEF StartMul, TypeInv, Instruction, SecondOperands, Multiplications, Shifts, Unaries,
           Quick, BitOperations
  <2>2. Values[inst.size] \subseteq 0..(2 ^ inst.size - 1)
    BY <1>1, DatapathAssumption
  <2>3. 2 ^ inst.size \in Nat
    BY <1>1, CutIsWord
  <2> DEFINE N == 2 ^ inst.size
  <2>4. inst.b \in 0..(N - 1) /\ N \in Nat
    BY <2>1, <2>2, <2>3
  <2> HIDE DEF N
  <2>5. inst.b < N
    BY <2>4, SMT
  <2> QED
    BY <2>5 DEF N
<1>8. r.out = inst.b
  <2> DEFINE N == 2 ^ inst.size
  <2>1. N \in Nat /\ N > 0
    BY <1>1, CutIsWord
  <2>2. r.out = inst.b % N
    BY <1>4 DEF Truncated
  <2>3. inst.b < N
    BY <1>7
  <2> HIDE DEF N
  <2> QED
    BY <1>1, <2>1, <2>2, <2>3, SMT
<1>9. core' \in Cores /\ core'.factor_b = inst.b /\ core'.rd = core.rd /\ core'.F = w.F
  BY <1>1, <1>5, <1>6, <1>8 DEF Cores
<1>10. /\ at' = [NoEntry EXCEPT !.idx = "MU_MUL_LD_FACTOR_A", !.size = inst.size,
                                !.sel = IF inst.name = "MULS" THEN 24 ELSE 0]
       /\ inst.stage = "offered" /\ inst.name \in Multiplications
       /\ inst' = [inst EXCEPT !.stage = "running"]
  BY DEF StartMul
<1>11. /\ at' \in EntrySpec /\ at'.idx = "MU_MUL_LD_FACTOR_A" /\ at'.size = inst.size
       /\ at'.sel = IF inst.name = "MULS" THEN 24 ELSE 0
  <2> DEFINE sel == IF inst.name = "MULS" THEN 24 ELSE 0
             s == [NoEntry EXCEPT !.idx = "MU_MUL_LD_FACTOR_A", !.size = inst.size]
  <2>1. sel \in 0..31 /\ "MU_MUL_LD_FACTOR_A" \in MucodeEntries
    BY SMT DEF MucodeEntries
  <2>2. s \in EntrySpec
    BY <1>1, <2>1, NoEntryType, SpecUpdates DEF Sizes
  <2>3. at' = [s EXCEPT !.sel = sel]
    BY <1>10
  <2>4. s.idx = "MU_MUL_LD_FACTOR_A" /\ s.size = inst.size
    BY DEF NoEntry
  <2> HIDE DEF s, sel
  <2>5. at' \in EntrySpec /\ at'.idx = s.idx /\ at'.size = s.size /\ at'.sel = sel
    BY <2>1, <2>2, <2>3 DEF EntrySpec
  <2> QED
    BY <2>4, <2>5 DEF sel
<1> QED
  BY <1>5, <1>9, <1>10, <1>11

\* and every step keeps them.
LEMMA TypeInvNext ==
  ASSUME TypeInv, [Next]_vars
  PROVE  TypeInv'
<1>1. CASE Compute
  <2> DEFINE c == ControlOf(inst.name, inst.size)
             r == AluResult(c, core, inst.a, inst.b)
  <2>1. /\ inst.name \in SingleCycle /\ inst' = [inst EXCEPT !.stage = "done"]
        /\ core' = WithResult(core, r) /\ at' = at
    BY <1>1, Zenon DEF Compute
  <2>2. /\ core \in Cores /\ inst.size \in Sizes /\ inst.a \in Nat /\ inst.b \in Nat
    BY InstructionWords, SmallWords DEF TypeInv
  <2>3. c \in AluControls
    BY <2>1, <2>2, ControlType
  <2> HIDE DEF c
  <2>4. core' \in Cores /\ ("D" \in core'.F <=> "D" \in core.F)
    BY <2>1, <2>2, <2>3, WithResultType
  <2>5. Instruction' /\ inst'.F = inst.F /\ inst'.stage = "done"
    BY <2>1, InstructionKept DEF TypeInv
  <2> QED
    BY <2>1, <2>4, <2>5 DEF TypeInv, OnlyMulRuns
<1>2. CASE StartMul
  <2>1. /\ core' \in Cores /\ ("D" \in core'.F <=> "D" \in core.F)
        /\ at' \in EntrySpec /\ at'.idx = "MU_MUL_LD_FACTOR_A"
        /\ inst.name \in Multiplications /\ inst' = [inst EXCEPT !.stage = "running"]
    BY <1>2, StartMulShape
  <2>2. Instruction' /\ inst'.F = inst.F /\ inst'.name = inst.name
    BY <2>1, InstructionKept DEF TypeInv
  <2> QED
    BY <2>1, <2>2 DEF TypeInv, OnlyMulRuns, MulEntries, Loads
<1>3. CASE MulStepEnds
  <2>1. /\ core' \in Cores /\ ("D" \in core'.F <=> "D" \in core.F)
        /\ at' \in EntrySpec /\ (at'.idx # "MU_NONE" => at'.idx \in MulEntries)
        /\ inst' = [inst EXCEPT !.stage = IF at'.idx = "MU_NONE" THEN "done" ELSE inst.stage]
        /\ inst.stage = "running"
    BY <1>3, MulStepShape
  <2>2. /\ Instruction' /\ inst'.F = inst.F /\ inst'.name = inst.name
        /\ inst'.stage = IF at'.idx = "MU_NONE" THEN "done" ELSE inst.stage
    BY <2>1, InstructionKept DEF TypeInv
  <2> QED
    BY <2>1, <2>2 DEF TypeInv, OnlyMulRuns
<1>4. CASE UNCHANGED vars
  BY <1>4 DEF vars, TypeInv, Instruction, OnlyMulRuns
<1> QED
  BY <1>1, <1>2, <1>3, <1>4 DEF Next

\* Registers, latches, flags and the entry of the microcode stay in their ranges.
THEOREM DatapathTypes == Spec => []TypeOK
<1>1. TypeInv => TypeOK
  <2> SUFFICES ASSUME TypeInv PROVE TypeOK
    OBVIOUS
  <2>1. core \in Cores /\ at \in EntrySpec
    BY DEF TypeInv
  <2>2. Words \subseteq 0..(WordSize - 1)
    <3>1. WordSize \in Nat /\ \A x \in Words : x \in Nat /\ x < WordSize
      BY WordIs, SMT DEF Words
    <3> QED
      BY <3>1, SMT
  <2>3. Outputs \subseteq 0..(2 ^ 26)
    <3> DEFINE n == 2 ^ 26
    <3>1. n = 67108864
      BY SMT
    <3>2. n \in Nat /\ \A x \in Outputs : x \in Nat /\ x <= n
      BY <3>1, SMT DEF Outputs
    <3> HIDE DEF n
    <3>3. Outputs \subseteq 0..n
      BY <3>2, SMT
    <3> QED
      BY <3>3 DEF n
  <2> QED
    BY <2>1, <2>2, <2>3 DEF TypeOK, Cores
<1> QED
  BY TypeInvInit, TypeInvNext, <1>1, PTL DEF Spec

-----------------------------------------------------------------------------
(***************************************************************************)
(* What the ALU does in the loop of MUL.                                   *)
(***************************************************************************)
SmallWidth(size, N, H) == (size = 8 /\ N = 256 /\ H = 128) \/ (size = 16 /\ N = 65536 /\ H = 32768)

\* The widths for which the product is compared.
LEMMA SmallWidths ==
  ASSUME NEW size \in {8, 16}
  PROVE  SmallWidth(size, 2 ^ size, 2 ^ (size - 1))
<1>1. CASE size = 8
  BY <1>1, PowersOfTwo DEF SmallWidth
<1>2. CASE size = 16
  <2>1. size - 1 = 15
    BY <1>2
  <2>2. 2 ^ 16 = 65536 /\ 2 ^ 15 = 32768
    BY PowersOfTwo
  <2> QED
    BY <1>2, <2>1, <2>2 DEF SmallWidth
<1> QED
  BY <1>1, <1>2

\* What it latches.
LEMMA LatchOfShift ==
  ASSUME NEW c, NEW s, NEW a, NEW b, c.aux = "LATCH_AUX_CARRY", c.operation # "ALU_ADD"
  PROVE  AluResult(c, s, a, b).latch_aux = ShiftedOut(c, Prepared(c, s, b))
<1> DEFINE unshifted == Prepared(c, s, b)
           x == Truncated(a, c.size1)
           y == Shifted(c, s, unshifted)
           out == Adjusted(c, s, x, y, Operated(c.operation, x, y))
           sum == CarryInto(c, x, y, out, c.size1 - 1) # c.invert
           shift == ShiftedOut(c, unshifted)
           zero == Truncated(out, c.size1) = 0
           used_z == CASE c.z_mode = "FLAG_Z_NORMAL"   -> zero
                       [] c.z_mode = "FLAG_Z_ACCUM"    -> s.used_z /\ zero
                       [] c.z_mode = "FLAG_Z_BIT_TEST" -> BitAnd(x, y) = 0
<1>1. AluResult(c, s, a, b).latch_aux =
        CASE c.aux = "LATCH_AUX_NONE"  -> s.latch_aux
          [] c.aux = "LATCH_AUX_CLEAR" -> FALSE
          [] c.aux = "LATCH_AUX_ZERO"  -> used_z
          [] c.aux = "LATCH_AUX_CARRY" -> IF c.operation = "ALU_ADD" THEN sum ELSE shift
  BY Zenon DEF AluResult
<1> HIDE DEF sum, used_z, shift
<1>2. AluResult(c, s, a, b).latch_aux = shift
  BY <1>1
<1> QED
  BY <1>2 DEF shift

\* A zero latch shows whether the result is zero.
LEMMA LatchOfZero ==
  ASSUME NEW c, NEW s, NEW a, NEW b, c.aux = "LATCH_AUX_ZERO", c.z_mode = "FLAG_Z_NORMAL"
  PROVE  AluResult(c, s, a, b).latch_aux = (Truncated(AluResult(c, s, a, b).out, c.size1) = 0)
<1> DEFINE unshifted == Prepared(c, s, b)
           x == Truncated(a, c.size1)
           y == Shifted(c, s, unshifted)
           out == Adjusted(c, s, x, y, Operated(c.operation, x, y))
           sum == CarryInto(c, x, y, out, c.size1 - 1) # c.invert
           shift == ShiftedOut(c, unshifted)
           zero == Truncated(out, c.size1) = 0
           accum == s.used_z /\ zero
           tested == BitAnd(x, y) = 0
           used_z == CASE c.z_mode = "FLAG_Z_NORMAL"   -> zero
                       [] c.z_mode = "FLAG_Z_ACCUM"    -> accum
                       [] c.z_mode = "FLAG_Z_BIT_TEST" -> tested
<1>1. AluResult(c, s, a, b).latch_aux =
        CASE c.aux = "LATCH_AUX_NONE"  -> s.latch_aux
          [] c.aux = "LATCH_AUX_CLEAR" -> FALSE
          [] c.aux = "LATCH_AUX_ZERO"  -> used_z
          [] c.aux = "LATCH_AUX_CARRY" -> IF c.operation = "ALU_ADD" THEN sum ELSE shift
  BY Zenon DEF AluResult
<1>2. AluResult(c, s, a, b).out = out
  BY DEF AluResult
<1> HIDE DEF sum, shift, zero, accum, tested
<1>3. used_z = zero
  OBVIOUS
<1> HIDE DEF used_z
<1>4. AluResult(c, s, a, b).latch_aux = used_z
  BY <1>1
<1> QED
  BY <1>2, <1>3, <1>4 DEF zero

\* A left shift,
LEMMA ShiftOfAlu ==
  ASSUME NEW st, st.size \in {8, 16}, NEW s, NEW x \in Nat
  PROVE  /\ AluResult(ShiftLeft(st, "SHIFTER_LEFT"), s, 0, x).out = 2 * (x % 2 ^ st.size)
         /\ AluResult(ShiftLeft(st, "SHIFTER_LEFT"), s, 0, x).latch_aux <=>
              x % 2 ^ st.size >= 2 ^ st.size \div 2
<1> DEFINE size == st.size
           N == 2 ^ size
           c == ShiftLeft(st, "SHIFTER_LEFT")
           H == 2 ^ (size - 1)
           y == Truncated(x, size)
<1>1. SmallWidth(size, N, H)
  BY SmallWidths
<1>2. /\ c.operation = "ALU_OR" /\ c.shifter = "SHIFTER_LEFT" /\ c.size1 = size /\ c.size2 = size
      /\ ~c.sx2 /\ ~c.add1 /\ ~c.add_carry /\ ~c.negate /\ ~c.and_aux /\ c.invert = FALSE
      /\ c.aux = "LATCH_AUX_CARRY"
  BY DEF ShiftLeft, PlainControl
<1> HIDE DEF c
<1>3. Increased(c, s, x) = x
  BY <1>2, SMT DEF Increased, Number
<1>4. Prepared(c, s, x) = y
  BY <1>2, <1>3 DEF Prepared, Negated, Gated, Extended
<1>5. y \in Nat /\ Truncated(0, size) = 0 /\ y = x % N
  BY <1>1, SMT DEF Truncated, SmallWidth
<1> HIDE DEF y, H, N
<1>6. Shifted(c, s, y) = 2 * y
  <2>1. Shifted(c, s, y) = 2 * y + ShiftedIn(c, s, y)
    BY <1>2 DEF Shifted, LeftShifts, RightShifts
  <2>2. ShiftedIn(c, s, y) = 0
    BY <1>2 DEF ShiftedIn
  <2> QED
    BY <1>5, <2>1, <2>2, SMT
<1>7. AluResult(c, s, 0, x).out = 2 * y
  <2> DEFINE z == 2 * y
  <2>1. z \in Nat
    BY <1>5, SMT
  <2>2. Operated(c.operation, 0, z) = 0 + z - Common[0][z]
    BY <1>2 DEF Operated, BitOr
  <2>3. Common[0][z] = 0
    BY <2>1, CommonBounds
  <2>4. Operated(c.operation, 0, z) = z
    <3> HIDE DEF z
    <3> QED
      BY <2>1, <2>2, <2>3, SMT
  <2>5. AluResult(c, s, 0, x).out = Adjusted(c, s, 0, z, Operated(c.operation, 0, z))
    BY <1>2, <1>4, <1>5, <1>6 DEF AluResult
  <2> HIDE DEF z
  <2>6. AluResult(c, s, 0, x).out = z
    BY <1>2, <2>4, <2>5 DEF Adjusted, CarryInto
  <2> QED
    BY <2>6 DEF z
<1>8. AluResult(c, s, 0, x).latch_aux = ShiftedOut(c, y)
  <2>1. c.aux = "LATCH_AUX_CARRY" /\ c.operation # "ALU_ADD"
    BY <1>2
  <2>2. AluResult(c, s, 0, x).latch_aux = ShiftedOut(c, Prepared(c, s, x))
    BY <2>1, LatchOfShift
  <2> QED
    BY <1>4, <2>2
<1>9. ShiftedOut(c, y) <=> Bit(y, size - 1) = 1
  <2>1. c.shifter = "SHIFTER_LEFT" /\ c.invert = FALSE /\ c.size2 = size
    BY <1>2
  <2>2. ShiftedOut(c, y) <=> Bit(y, c.size2 - 1) = 1
    BY <2>1, Zenon DEF ShiftedOut, IsSet, LeftShifts, RightShifts
  <2> QED
    BY <2>1, <2>2, Zenon
<1>10. Bit(y, size - 1) = 1 <=> x % N >= N \div 2
  <2>1. Bit(y, size - 1) = (y \div H) % 2
    BY DEF Bit, H
  <2>2. CASE N = 256 /\ H = 128
    BY <1>5, <2>1, <2>2, SMT
  <2>3. CASE N = 65536 /\ H = 32768
    BY <1>5, <2>1, <2>3, SMT
  <2> QED
    BY <1>1, <2>2, <2>3 DEF SmallWidth
<1> QED
  BY <1>5, <1>7, <1>8, <1>9, <1>10 DEF c, N

\* the addition of the first factor, or its subtraction, when the bit is set,
LEMMA AddCut ==
  ASSUME NEW size, NEW N, NEW H, SmallWidth(size, N, H), NEW x \in Nat, NEW a \in Nat, a < N
  PROVE  /\ (((x % N) + (a % WordSize)) % WordSize) % N = (x + a) % N
         /\ (((x % N) + (((WordSize - a) % WordSize) % WordSize)) % WordSize) % N = (x + (0 - a)) % N
         /\ (((x % N) + (0 % WordSize)) % WordSize) % N = (x + 0) % N
<1>1. CASE N = 256
  BY <1>1, WordIs, SMT
<1>2. CASE N = 65536
  BY <1>2, WordIs, SMT
<1> QED
  BY <1>1, <1>2 DEF SmallWidth

\* In words of the width, the addition of the first factor, or its subtraction.
LEMMA AddOfAlu ==
  ASSUME NEW st, st.size \in {8, 16}, NEW s, "D" \notin s.F,
         NEW x \in Nat, NEW a \in Nat, a < 2 ^ st.size,
         NEW e, e = IF ~s.latch_aux THEN 0 ELSE IF st.sel >= 16 THEN 0 - a ELSE a
  PROVE  AluResult(AddProductLo(st), s, x, a).out % 2 ^ st.size = (x + e) % 2 ^ st.size
<1> DEFINE size == st.size
           N == 2 ^ size
           c == AddProductLo(st)
           r == AluResult(c, s, x, a)
           minus == st.sel >= 16
           n == IF minus THEN Truncated(2 ^ 24 - Truncated(a, 24), 24) ELSE a
           g == IF s.latch_aux THEN n ELSE 0
           y == Truncated(x, size)
           b == Truncated(g, 24)
           out == (y + b) % WordSize
<1>1. SmallWidth(size, N, 2 ^ (size - 1))
  BY SmallWidths
<1>2. /\ c.operation = "ALU_ADD" /\ c.shifter = "SHIFTER_NONE" /\ c.size1 = size /\ c.size2 = 24
      /\ ~c.sx2 /\ ~c.add1 /\ ~c.add_carry /\ c.negate = minus /\ c.and_aux
  BY DEF AddProductLo, PlainControl
<1> HIDE DEF c
<1>3. Increased(c, s, a) = a
  BY <1>2, SMT DEF Increased, Number
<1>4. Prepared(c, s, a) = b
  <2>1. Negated(c, a) = n
    BY <1>2 DEF Negated
  <2>2. Gated(c, s, n) = g
    BY <1>2 DEF Gated
  <2> QED
    BY <1>2, <1>3, <2>1, <2>2 DEF Prepared, Extended
<1> HIDE DEF b
<1>5. Shifted(c, s, b) = b
  BY <1>2 DEF Shifted, LeftShifts, RightShifts
<1>6. Operated(c.operation, y, b) = out
  BY <1>2 DEF Operated
<1> HIDE DEF y
<1>7. r.out = Adjusted(c, s, y, b, out)
  BY <1>2, <1>4, <1>5, <1>6 DEF AluResult, y
<1>8. r.out = out
  BY <1>7 DEF Adjusted
<1>9. y = x % N /\ b = g % WordSize
  BY DEF y, b, Truncated, WordSize
<1>10. n = IF minus THEN (WordSize - (a % WordSize)) % WordSize ELSE a
  BY DEF Truncated, WordSize
<1> HIDE DEF n
<1>17. a < N
  OBVIOUS
<1>18. SUFFICES r.out % N = (x + e) % N
  BY DEF r, c
<1> HIDE DEF r, N
<1>11. N = 256 \/ N = 65536
  BY <1>1 DEF SmallWidth
<1>12. a % WordSize = a
  BY <1>11, <1>17, WordIs, SMT
<1>13. r.out = ((x % N) + (g % WordSize)) % WordSize
  BY <1>8, <1>9
<1> HIDE DEF g
<1>14. CASE s.latch_aux /\ minus
  <2>1. g = (WordSize - a) % WordSize /\ e = 0 - a
    BY <1>10, <1>12, <1>14 DEF g
  <2>2. (((x % N) + (((WordSize - a) % WordSize) % WordSize)) % WordSize) % N = (x + (0 - a)) % N
    BY <1>1, <1>17, AddCut, Zenon
  <2> QED
    BY <1>13, <2>1, <2>2, Zenon
<1>15. CASE s.latch_aux /\ ~minus
  <2>1. g = a /\ e = a
    BY <1>10, <1>15 DEF g
  <2>2. (((x % N) + (a % WordSize)) % WordSize) % N = (x + a) % N
    BY <1>1, <1>17, AddCut, Zenon
  <2> QED
    BY <1>13, <2>1, <2>2, Zenon
<1>16. CASE ~s.latch_aux
  <2>1. g = 0 /\ e = 0
    BY <1>16 DEF g
  <2>2. (((x % N) + (0 % WordSize)) % WordSize) % N = (x + 0) % N
    BY <1>1, <1>17, AddCut, Zenon
  <2> QED
    BY <1>13, <2>1, <2>2, Zenon
<1> QED
  BY <1>14, <1>15, <1>16

\* and the count.
LEMMA CountOfAlu ==
  ASSUME NEW s, "D" \notin s.F, NEW k \in 1..16
  PROVE  /\ AluResult(CountDown, s, k, 0).out = k - 1
         /\ AluResult(CountDown, s, k, 0).latch_aux <=> k = 1
<1> DEFINE c == CountDown
           r == AluResult(CountDown, s, k, 0)
           b == WordSize - 1
<1>1. /\ c.operation = "ALU_ADD" /\ c.shifter = "SHIFTER_NONE" /\ c.size1 = 8 /\ c.size2 = 8
      /\ c.sx2 = TRUE /\ c.add1 /\ ~c.add_carry /\ c.negate /\ ~c.and_aux
      /\ c.aux = "LATCH_AUX_ZERO" /\ c.z_mode = "FLAG_Z_NORMAL"
  BY DEF CountDown, PlainControl
<1> HIDE DEF c
<1>2. Increased(c, s, 0) = 1
  BY <1>1, SMT DEF Increased, Number
<1>3. 2 ^ 8 = 256 /\ 2 ^ 7 = 128 /\ 8 - 1 = 7
  BY PowersOfTwo, SMT
<1>4. Negated(c, 1) = 255
  <2>1. Negated(c, 1) = (256 - (1 % 256)) % 256
    BY <1>1, <1>3 DEF Negated, Truncated
  <2> QED
    BY <2>1, SMT
<1>5. Gated(c, s, 255) = 255
  BY <1>1 DEF Gated
<1>6. Extended(255, 8, TRUE) = b
  <2>1. Truncated(255, 8) = 255
    BY <1>3, SMT DEF Truncated
  <2>2. IsSet(255, 7)
    BY <1>3, SMT DEF IsSet, Bit
  <2>3. Extended(255, 8, TRUE) = 255 + WordSize - 256
    BY <1>3, <2>1, <2>2 DEF Extended
  <2>4. 255 + WordSize - 256 = b
    BY WordIs, SMT
  <2> QED
    BY <2>3, <2>4
<1>7. Prepared(c, s, 0) = b
  <2>1. Prepared(c, s, 0) = Extended(Gated(c, s, Negated(c, Increased(c, s, 0))), c.size2, c.sx2)
    BY Zenon DEF Prepared
  <2>2. Gated(c, s, Negated(c, Increased(c, s, 0))) = 255
    BY <1>2, <1>4, <1>5
  <2>3. c.size2 = 8 /\ c.sx2 = TRUE
    BY <1>1
  <2> QED
    BY <1>6, <2>1, <2>2, <2>3, Zenon
<1>8. Shifted(c, s, b) = b
  BY <1>1 DEF Shifted, LeftShifts, RightShifts
<1>9. Truncated(k, 8) = k
  BY <1>3, SMT DEF Truncated
<1>10. Operated(c.operation, k, b) = k - 1
  <2>1. (k + (WordSize - 1)) % WordSize = k - 1
    BY WordIs, SMT
  <2> QED
    BY <1>1, <2>1 DEF Operated
<1> HIDE DEF b
<1>11. r = AluResult(c, s, k, 0)
  BY DEF c
<1> HIDE DEF r
<1>12. r.out = k - 1
  <2>1. r.out = Adjusted(c, s, k, b, k - 1)
    BY <1>1, <1>7, <1>8, <1>9, <1>10, <1>11 DEF AluResult
  <2> QED
    BY <2>1 DEF Adjusted
<1>13. r.latch_aux <=> Truncated(k - 1, 8) = 0
  <2>1. c.aux = "LATCH_AUX_ZERO" /\ c.z_mode = "FLAG_Z_NORMAL"
    BY <1>1
  <2>2. AluResult(c, s, k, 0).latch_aux = (Truncated(AluResult(c, s, k, 0).out, c.size1) = 0)
    BY <2>1, LatchOfZero
  <2>3. r.latch_aux = (Truncated(r.out, c.size1) = 0)
    BY <1>11, <2>2, Zenon
  <2>4. c.size1 = 8
    BY <1>1
  <2> QED
    BY <1>12, <2>3, <2>4, Zenon
<1>14. Truncated(k - 1, 8) = k - 1
  BY <1>3, SMT DEF Truncated
<1> QED
  BY <1>12, <1>13, <1>14 DEF r

-----------------------------------------------------------------------------
(***************************************************************************)
(* The loop of MUL.  i is the instruction, s the entry that is executed    *)
(* next, and x the registers and latches.                                  *)
(***************************************************************************)
\* Factors of 8 or 16 bits, and no decimal flag.
Small(i) == i.size \in {8, 16} /\ "D" \notin i.F

\* p is the product with the bits of the second factor from bit k on; f has the others.
Partial(i, p, f, k) == Taken(i.a, i.b, 2 ^ i.size, 2 ^ k, i.name = "MULS", p, f)

\* Before the loop the factors go to their registers and the product starts at zero.
Loading(i, s, x) ==
  /\ s.sel >= 16 <=> i.name = "MULS"
  /\ x.factor_b = i.b
  /\ IF s.idx = "MU_MUL_LD_FACTOR_A" THEN x.rd = i.a ELSE x.factor_a = i.a
  /\ s.idx \in {"MU_MUL_LD_PRODUCT_HI", "MU_MUL_LD_REPI"} => x.rd % 2 ^ i.size = 0

\* repi more bits are to be taken; rd has the product with those that are, factor_b the others.
BeforeRound(i, x) == Partial(i, x.rd, x.factor_b, x.repi)
ProductMoved(i, x) ==
  \E p \in Nat : x.rd % 2 ^ i.size = (2 * p) % 2 ^ i.size /\ Partial(i, p, x.factor_b, x.repi)
FactorMoved(i, x) ==
  \E p \in Nat, f \in Nat :
     /\ Partial(i, p, f, x.repi)
     /\ x.rd % 2 ^ i.size = (2 * p) % 2 ^ i.size /\ x.factor_b % 2 ^ i.size = (2 * f) % 2 ^ i.size
     /\ x.latch_aux <=> f % 2 ^ i.size >= 2 ^ i.size \div 2
AfterRound(i, x) == Partial(i, x.rd, x.factor_b, x.repi - 1)

\* Bit 4 of sel marks the round of the sign.
Rounds(i, s, x) ==
  /\ s.sel >= 16 <=> i.name = "MULS" /\ x.repi = i.size
  /\ x.factor_a = i.a /\ x.repi \in 1..i.size
  /\ s.idx = "MU_MUL_SHIFT_PRODUCT_LO_LEFT" => BeforeRound(i, x)
  /\ s.idx \in {"MU_MUL_SHIFT_PRODUCT_HI_LEFT", "MU_MUL_SHIFT_FACTOR_B_LEFT"} => ProductMoved(i, x)
  /\ s.idx = "MU_MUL_ADD_PRODUCT_LO" => FactorMoved(i, x)
  /\ s.idx \in {"MU_MUL_ADD_PRODUCT_HI", "MU_MUL_LOOP"} => AfterRound(i, x)

\* What holds at an entry, and at the end.
Multiplying(i, s, x) ==
  s.size = i.size /\ (s.idx \in Loads => Loading(i, s, x)) /\ (s.idx \in Loop => Rounds(i, s, x))
Multiplied(i, x) == x.rd % 2 ^ i.size = (i.a * i.b) % 2 ^ i.size

MulInv ==
  /\ inst.stage = "offered" => core.rd = inst.a
  /\ inst.stage = "running" /\ Small(inst) => Multiplying(inst, at, core)
  /\ inst.stage = "done" /\ inst.name \in Multiplications /\ Small(inst) => Multiplied(inst, core)

\* The factors.
LEMMA Factors ==
  ASSUME Instruction, inst.name \in Multiplications, Small(inst)
  PROVE  /\ inst.a \in Nat /\ inst.a < 2 ^ inst.size /\ inst.b \in Nat /\ inst.b < 2 ^ inst.size
         /\ inst.size \in {8, 16} /\ inst.size \in Nat /\ inst.size \in Sizes
         /\ SmallWidth(inst.size, 2 ^ inst.size, 2 ^ (inst.size - 1))
<1> DEFINE N == 2 ^ inst.size
<1>1. inst.size \in {8, 16} /\ inst.size \in Nat /\ inst.size \in Sizes
  BY DEF Small, Sizes
<1>2. inst.a \in Values[inst.size] /\ inst.b \in Values[inst.size]
  BY DEF Instruction, SecondOperands, Multiplications, Shifts, Unaries, Quick, BitOperations
<1>3. Values[inst.size] \subseteq 0..(N - 1)
  BY <1>1, DatapathAssumption
<1>4. N \in Nat
  BY <1>1, CutIsWord
<1>5. SmallWidth(inst.size, N, 2 ^ (inst.size - 1))
  BY <1>1, SmallWidths
<1> HIDE DEF N
<1>6. inst.a \in Nat /\ inst.a < N /\ inst.b \in Nat /\ inst.b < N
  BY <1>2, <1>3, <1>4, SMT
<1> QED
  BY <1>1, <1>5, <1>6 DEF N

\* A step that goes straight on.
LEMMA StraightStep ==
  ASSUME TypeInv, MulStepEnds,
         NEW src1, NEW src2, NEW dest, NEW idx \in MulEntries, NEW e, e = Entry(at),
         Moves(e, at, src1, src2, dest, idx),
         NEW c, c = AluOfEntry(at), NEW a, a = Fetched(src1, c.size1),
         NEW b, b = Fetched(src2, c.size2), NEW r, r = AluResult(c, core, a, b)
  PROVE  /\ r.out \in Nat /\ core \in Cores /\ core' \in Cores /\ core'.latch_aux = r.latch_aux
         /\ core'.rd = IF dest = "REG" THEN Written(core.rd, c.size1, r.out) ELSE core.rd
         /\ core'.factor_a = IF dest = "FACTOR_A" THEN Truncated(r.out, 24) ELSE core.factor_a
         /\ core'.factor_b = IF dest = "FACTOR_B" THEN Truncated(r.out, 24) ELSE core.factor_b
         /\ core'.repi = IF dest = "REPI" THEN r.out % 32 ELSE core.repi
         /\ at'.idx = idx /\ at'.sel = at.sel /\ at'.size = e.next.size
         /\ a \in Nat /\ b \in Nat
         /\ "D" \notin inst.F => "D" \notin core.F
<1>1. /\ e.operation.src1 = src1 /\ e.operation.src2 = src2 /\ e.operation.dest = dest
      /\ ~e.branch /\ e.next.idx = idx /\ e.next.sel = at.sel
  BY DEF Moves
<1>2. /\ a = Fetched(e.operation.src1, c.size1) /\ b = Fetched(e.operation.src2, c.size2)
  BY <1>1
<1>3. /\ a \in Nat /\ b \in Nat /\ r.out \in Outputs
      /\ core' \in Cores /\ core'.latch_aux = r.latch_aux
      /\ core'.rd = IF e.operation.dest = "REG" THEN Written(core.rd, c.size1, r.out) ELSE core.rd
      /\ core'.factor_a = IF e.operation.dest = "FACTOR_A" THEN Truncated(r.out, 24) ELSE core.factor_a
      /\ core'.factor_b = IF e.operation.dest = "FACTOR_B" THEN Truncated(r.out, 24) ELSE core.factor_b
      /\ core'.repi = IF e.operation.dest = "REPI" THEN r.out % 32 ELSE core.repi
      /\ at' = IF e.branch /\ r.latch_aux THEN e.next_no_branch ELSE e.next
  BY <1>2, MulStepShape
<1>4. at' = e.next
  BY <1>1, <1>3
<1>5. core \in Cores /\ ("D" \notin inst.F => "D" \notin core.F)
  BY DEF TypeInv
<1>6. r.out \in Nat
  BY <1>3, SmallWords
<1> QED
  BY <1>1, <1>3, <1>4, <1>5, <1>6

\* The sources of MUL.
LEMMA FetchedFrom ==
  ASSUME NEW size
  PROVE  /\ Fetched("REG", size) = core.rd /\ Fetched("ZERO", size) = 0
         /\ Fetched("R0", size) = core.r0 /\ Fetched("FACTOR_A", size) = core.factor_a
         /\ Fetched("FACTOR_B", size) = core.factor_b /\ Fetched("REPI", size) = core.repi
         /\ Fetched("NUM_BITS", size) = size
BY DEF Fetched

\* Small numbers are not cut.
LEMMA SmallUncut ==
  ASSUME NEW size, NEW N, NEW H, SmallWidth(size, N, H), N = 2 ^ size, NEW x \in Nat, x < N
  PROVE  Truncated(x, size) = x /\ Truncated(x, 24) = x /\ x < 65536
<1>1. Truncated(x, size) = x % N /\ Truncated(x, 24) = x % WordSize
  BY DEF Truncated, WordSize
<1>2. CASE N = 256
  BY <1>1, <1>2, WordIs, SMT
<1>3. CASE N = 65536
  BY <1>1, <1>3, WordIs, SMT
<1> QED
  BY <1>2, <1>3 DEF SmallWidth

\* Twice a word.
LEMMA TwiceCut ==
  ASSUME NEW size, NEW N, NEW H, SmallWidth(size, N, H), N = 2 ^ size, NEW x \in Nat
  PROVE  /\ (2 * (x % N)) % N = (2 * x) % N /\ Truncated(2 * (x % N), 24) % N = (2 * x) % N
         /\ 2 * (x % N) \in Nat
<1>1. Truncated(2 * (x % N), 24) = (2 * (x % N)) % WordSize
  BY DEF Truncated, WordSize
<1>2. CASE N = 256
  BY <1>1, <1>2, WordIs, SMT
<1>3. CASE N = 65536
  BY <1>1, <1>3, WordIs, SMT
<1> QED
  BY <1>2, <1>3 DEF SmallWidth

\* The controls of the loads.
LEMMA LoadControl ==
  ASSUME at.idx \in Loads, at.size \in Sizes
  PROVE  /\ Copies(AluOfEntry(at)) /\ AluOfEntry(at).size1 = at.size /\ AluOfEntry(at).size2 = 24
<1>1. AluOfEntry(at) = [PlainControl(at.size) EXCEPT !.size2 = 24]
  BY DEF AluOfEntry, Loads
<1> QED
  BY <1>1 DEF Copies, PlainControl, Sizes

\* The first load.
LEMMA FactorALoaded ==
  ASSUME TypeInv, MulStepEnds, Small(inst), inst.name \in Multiplications,
         at.idx = "MU_MUL_LD_FACTOR_A", Multiplying(inst, at, core)
  PROVE  Multiplying(inst, at', core')
<1> DEFINE e == Entry(at)
           c == AluOfEntry(at)
           r == AluResult(c, core, core.rd, 0)
<1>1. /\ inst.a \in Nat /\ inst.a < 2 ^ inst.size /\ inst.size \in Sizes
      /\ SmallWidth(inst.size, 2 ^ inst.size, 2 ^ (inst.size - 1))
  BY Factors DEF TypeInv
<1>2. /\ at.size = inst.size /\ (at.sel >= 16 <=> inst.name = "MULS")
      /\ core.factor_b = inst.b /\ core.rd = inst.a
  BY DEF Multiplying, Loading, Loads
<1>3. at \in EntrySpec
  BY DEF TypeInv
<1>4. Moves(e, at, "REG", "ZERO", "FACTOR_A", "MU_MUL_LD_PRODUCT_LO") /\ e.next.size = at.size
  BY <1>3, LoadEntries
<1>5. Copies(c) /\ c.size1 = inst.size
  BY <1>1, <1>2, LoadControl DEF Loads
<1>6. core.rd = Fetched("REG", c.size1) /\ 0 = Fetched("ZERO", c.size2)
  BY FetchedFrom
<1>7. "MU_MUL_LD_PRODUCT_LO" \in MulEntries
  BY DEF MulEntries, Loads
<1> HIDE DEF e, c
<1>8. /\ core'.factor_a = Truncated(r.out, 24) /\ core'.factor_b = core.factor_b
      /\ at'.idx = "MU_MUL_LD_PRODUCT_LO" /\ at'.sel = at.sel /\ at'.size = at.size
  BY <1>4, <1>6, <1>7, StraightStep DEF e, c
<1>9. r.out = Truncated(core.rd, c.size1)
  BY <1>1, <1>2, <1>5, CopyOfAlu
<1>10. Truncated(r.out, 24) = inst.a
  BY <1>1, <1>2, <1>5, <1>9, SmallUncut
<1> HIDE DEF r
<1> QED
  BY <1>2, <1>8, <1>10 DEF Multiplying, Loading, Loop

\* The second: the product starts at zero.
LEMMA ProductLoLoaded ==
  ASSUME TypeInv, MulStepEnds, Small(inst), inst.name \in Multiplications,
         at.idx = "MU_MUL_LD_PRODUCT_LO", Multiplying(inst, at, core)
  PROVE  Multiplying(inst, at', core')
<1> DEFINE e == Entry(at)
           c == AluOfEntry(at)
           r == AluResult(c, core, 0, 0)
<1>1. /\ inst.size \in Sizes
      /\ SmallWidth(inst.size, 2 ^ inst.size, 2 ^ (inst.size - 1))
  BY Factors DEF TypeInv
<1>2. /\ at.size = inst.size /\ (at.sel >= 16 <=> inst.name = "MULS")
      /\ core.factor_b = inst.b /\ core.factor_a = inst.a
  BY DEF Multiplying, Loading, Loads
<1>3. at \in EntrySpec
  BY DEF TypeInv
<1>4. Moves(e, at, "ZERO", "ZERO", "REG", "MU_MUL_LD_PRODUCT_HI") /\ e.next.size = at.size
  BY <1>3, LoadEntries
<1>5. Copies(c) /\ c.size1 = inst.size
  BY <1>1, <1>2, LoadControl DEF Loads
<1>6. 0 = Fetched("ZERO", c.size1) /\ 0 = Fetched("ZERO", c.size2)
  BY FetchedFrom
<1>7. "MU_MUL_LD_PRODUCT_HI" \in MulEntries
  BY DEF MulEntries, Loads
<1> HIDE DEF e, c
<1>8. /\ core'.factor_a = core.factor_a /\ core'.factor_b = core.factor_b
      /\ core'.rd = Written(core.rd, c.size1, r.out) /\ core \in Cores
      /\ at'.idx = "MU_MUL_LD_PRODUCT_HI" /\ at'.sel = at.sel /\ at'.size = at.size
  BY <1>4, <1>6, <1>7, StraightStep DEF e, c
<1>9. r.out = Truncated(0, inst.size)
  BY <1>5, CopyOfAlu
<1>10. r.out = 0 /\ 0 % 2 ^ inst.size = 0
  <2>1. 0 < 2 ^ inst.size
    BY <1>1, SMT DEF SmallWidth
  <2>2. Truncated(0, inst.size) = 0
    BY <1>1, <2>1, SmallUncut
  <2> QED
    BY <1>9, <2>2 DEF Truncated
<1>11. core'.rd % 2 ^ inst.size = 0
  <2>1. core.rd \in Words
    BY <1>8 DEF Cores
  <2>2. Written(core.rd, inst.size, 0) % 2 ^ inst.size = 0 % 2 ^ inst.size
    BY <1>1, <2>1, WrittenType
  <2> QED
    BY <1>5, <1>8, <1>10, <2>2
<1> HIDE DEF r
<1> QED
  BY <1>2, <1>8, <1>11 DEF Multiplying, Loading, Loop

\* The third does the same for the high half.
LEMMA ProductHiLoaded ==
  ASSUME TypeInv, MulStepEnds, Small(inst), inst.name \in Multiplications,
         at.idx = "MU_MUL_LD_PRODUCT_HI", Multiplying(inst, at, core)
  PROVE  Multiplying(inst, at', core')
<1> DEFINE e == Entry(at)
           c == AluOfEntry(at)
<1>1. /\ at.size = inst.size /\ (at.sel >= 16 <=> inst.name = "MULS")
      /\ core.factor_b = inst.b /\ core.factor_a = inst.a /\ core.rd % 2 ^ inst.size = 0
  BY DEF Multiplying, Loading, Loads
<1>2. at \in EntrySpec
  BY DEF TypeInv
<1>3. Moves(e, at, "ZERO", "ZERO", "R0", "MU_MUL_LD_REPI") /\ e.next.size = at.size
  BY <1>2, LoadEntries
<1>4. 0 = Fetched("ZERO", c.size1) /\ 0 = Fetched("ZERO", c.size2)
  BY FetchedFrom
<1>5. "MU_MUL_LD_REPI" \in MulEntries
  BY DEF MulEntries, Loads
<1> HIDE DEF e, c
<1>6. /\ core'.factor_a = core.factor_a /\ core'.factor_b = core.factor_b /\ core'.rd = core.rd
      /\ at'.idx = "MU_MUL_LD_REPI" /\ at'.sel = at.sel /\ at'.size = at.size
  BY <1>3, <1>4, <1>5, StraightStep DEF e, c
<1> QED
  BY <1>1, <1>6 DEF Multiplying, Loading, Loop

\* The last sets the number of rounds; no bit is taken yet.
LEMMA RepiLoaded ==
  ASSUME TypeInv, MulStepEnds, Small(inst), inst.name \in Multiplications,
         at.idx = "MU_MUL_LD_REPI", Multiplying(inst, at, core)
  PROVE  Multiplying(inst, at', core')
<1> DEFINE e == Entry(at)
           c == AluOfEntry(at)
           r == AluResult(c, core, inst.size, 0)
           N == 2 ^ inst.size
           signed == inst.name = "MULS"
<1>1. /\ inst.a \in Nat /\ inst.a < N /\ inst.b \in Nat /\ inst.b < N
      /\ inst.size \in {8, 16} /\ inst.size \in Nat /\ inst.size \in Sizes
      /\ SmallWidth(inst.size, N, 2 ^ (inst.size - 1))
  BY Factors DEF TypeInv
<1>2. /\ at.size = inst.size /\ (at.sel >= 16 <=> inst.name = "MULS")
      /\ core.factor_b = inst.b /\ core.factor_a = inst.a /\ core.rd % N = 0
  BY DEF Multiplying, Loading, Loads
<1>3. at \in EntrySpec
  BY DEF TypeInv
<1>4. /\ Moves(e, at, "NUM_BITS", "ZERO", "REPI", "MU_MUL_SHIFT_PRODUCT_LO_LEFT")
      /\ e.next.size = at.size
  <2>1. at.size # 24
    BY <1>1, <1>2
  <2> QED
    BY <1>3, <2>1, LoadEntries
<1>5. Copies(c) /\ c.size1 = inst.size
  BY <1>1, <1>2, LoadControl DEF Loads
<1>6. inst.size = Fetched("NUM_BITS", c.size1) /\ 0 = Fetched("ZERO", c.size2)
  BY <1>5, FetchedFrom
<1>7. "MU_MUL_SHIFT_PRODUCT_LO_LEFT" \in MulEntries
  BY DEF MulEntries, Loop
<1> HIDE DEF e, c, N
<1>8. /\ core'.factor_a = core.factor_a /\ core'.factor_b = core.factor_b /\ core'.rd = core.rd
      /\ core'.repi = r.out % 32
      /\ at'.idx = "MU_MUL_SHIFT_PRODUCT_LO_LEFT" /\ at'.sel = at.sel /\ at'.size = at.size
  BY <1>4, <1>6, <1>7, StraightStep DEF e, c
<1>9. r.out = inst.size
  <2>1. r.out = Truncated(inst.size, inst.size)
    BY <1>1, <1>5, CopyOfAlu
  <2>2. inst.size < N
    BY <1>1, SMT DEF SmallWidth
  <2>3. N = 2 ^ inst.size
    BY DEF N
  <2> QED
    BY <1>1, <2>1, <2>2, <2>3, SmallUncut
<1> HIDE DEF r
<1>10. core'.repi = inst.size
  BY <1>1, <1>8, <1>9, SMT
<1>11. BeforeRound(inst, core')
  <2>1. Taken(inst.a, inst.b, N, N, signed, 0, inst.b)
    BY <1>1, NoneTaken DEF N
  <2>2. 0 % N = 0
    BY <1>1, SMT DEF SmallWidth
  <2>3. Taken(inst.a, inst.b, N, N, signed, core.rd, inst.b)
    BY <1>2, <2>1, <2>2 DEF Taken
  <2> QED
    BY <1>2, <1>8, <1>10, <2>3 DEF BeforeRound, Partial, N
<1>12. inst.size \in 1..inst.size
  BY <1>1, SMT
<1> QED
  BY <1>2, <1>8, <1>10, <1>11, <1>12 DEF Multiplying, Rounds, Loads

\* A round moves the product,
LEMMA ProductLoShifted ==
  ASSUME TypeInv, MulStepEnds, Small(inst), inst.name \in Multiplications,
         at.idx = "MU_MUL_SHIFT_PRODUCT_LO_LEFT", Multiplying(inst, at, core)
  PROVE  Multiplying(inst, at', core')
<1> DEFINE e == Entry(at)
           c == AluOfEntry(at)
           r == AluResult(c, core, 0, core.rd)
           N == 2 ^ inst.size
<1>1. /\ inst.size \in {8, 16} /\ inst.size \in Sizes
      /\ SmallWidth(inst.size, N, 2 ^ (inst.size - 1))
  BY Factors DEF TypeInv
<1>2. /\ at.size = inst.size /\ (at.sel >= 16 <=> inst.name = "MULS" /\ core.repi = inst.size)
      /\ core.factor_a = inst.a /\ core.repi \in 1..inst.size /\ BeforeRound(inst, core)
  BY DEF Multiplying, Rounds, Loop
<1>3. at \in EntrySpec
  BY DEF TypeInv
<1>4. Moves(e, at, "ZERO", "REG", "REG", "MU_MUL_SHIFT_PRODUCT_HI_LEFT") /\ e.next.size = at.size
  <2>1. at.idx \in Loop \ {"MU_MUL_LOOP"}
    BY DEF Loop
  <2> QED
    BY <1>3, <2>1, LoopEntries
<1>5. c = ShiftLeft(at, "SHIFTER_LEFT") /\ c.size1 = inst.size
  BY <1>2 DEF AluOfEntry, ShiftLeft, PlainControl
<1>6. 0 = Fetched("ZERO", c.size1) /\ core.rd = Fetched("REG", c.size2)
  BY FetchedFrom
<1>7. "MU_MUL_SHIFT_PRODUCT_HI_LEFT" \in MulEntries
  BY DEF MulEntries, Loop
<1> HIDE DEF e, c
<1>8. /\ core'.factor_a = core.factor_a /\ core'.factor_b = core.factor_b
      /\ core'.rd = Written(core.rd, c.size1, r.out) /\ core'.repi = core.repi
      /\ at'.idx = "MU_MUL_SHIFT_PRODUCT_HI_LEFT" /\ at'.sel = at.sel /\ at'.size = at.size
      /\ core \in Cores
  BY <1>4, <1>6, <1>7, StraightStep DEF e, c
<1>9. core.rd \in Words /\ core.rd \in Nat
  BY <1>8, SmallWords DEF Cores
<1>10. r.out = 2 * (core.rd % N)
  BY <1>1, <1>2, <1>5, <1>9, ShiftOfAlu
<1> HIDE DEF r
<1>11. core'.rd % N = (2 * core.rd) % N
  <2> HIDE DEF N
  <2>1. N = 2 ^ inst.size
    BY DEF N
  <2>2. (2 * (core.rd % N)) % N = (2 * core.rd) % N /\ 2 * (core.rd % N) \in Nat
    BY <1>1, <1>9, <2>1, TwiceCut
  <2>3. Written(core.rd, inst.size, r.out) % N = r.out % N
    BY <1>1, <1>9, <1>10, <2>1, <2>2, WrittenType
  <2> QED
    BY <1>5, <1>8, <1>10, <2>2, <2>3
<1>12. ProductMoved(inst, core')
  <2>1. Partial(inst, core.rd, core'.factor_b, core'.repi)
    BY <1>2, <1>8 DEF BeforeRound
  <2>2. core'.rd % 2 ^ inst.size = (2 * core.rd) % 2 ^ inst.size
    BY <1>11
  <2> QED
    BY <1>9, <2>1, <2>2, Zenon DEF ProductMoved
<1> QED
  BY <1>2, <1>8, <1>12 DEF Multiplying, Rounds, Loads

\* of which the high half is in the other register,
LEMMA ProductHiShifted ==
  ASSUME TypeInv, MulStepEnds, Small(inst),
         at.idx = "MU_MUL_SHIFT_PRODUCT_HI_LEFT", Multiplying(inst, at, core)
  PROVE  Multiplying(inst, at', core')
<1> DEFINE e == Entry(at)
           c == AluOfEntry(at)
<1>1. /\ at.size = inst.size /\ (at.sel >= 16 <=> inst.name = "MULS" /\ core.repi = inst.size)
      /\ core.factor_a = inst.a /\ core.repi \in 1..inst.size /\ ProductMoved(inst, core)
  BY DEF Multiplying, Rounds, Loop
<1>2. at \in EntrySpec
  BY DEF TypeInv
<1>3. Moves(e, at, "ZERO", "R0", "R0", "MU_MUL_SHIFT_FACTOR_B_LEFT") /\ e.next.size = at.size
  <2>1. at.idx \in Loop \ {"MU_MUL_LOOP"}
    BY DEF Loop
  <2> QED
    BY <1>2, <2>1, LoopEntries
<1>4. 0 = Fetched("ZERO", c.size1) /\ core.r0 = Fetched("R0", c.size2)
  BY FetchedFrom
<1>5. "MU_MUL_SHIFT_FACTOR_B_LEFT" \in MulEntries
  BY DEF MulEntries, Loop
<1> HIDE DEF e, c
<1>6. /\ core'.factor_a = core.factor_a /\ core'.factor_b = core.factor_b
      /\ core'.rd = core.rd /\ core'.repi = core.repi
      /\ at'.idx = "MU_MUL_SHIFT_FACTOR_B_LEFT" /\ at'.sel = at.sel /\ at'.size = at.size
  BY <1>3, <1>4, <1>5, StraightStep DEF e, c
<1>7. ProductMoved(inst, core')
  BY <1>1, <1>6 DEF ProductMoved
<1> QED
  BY <1>1, <1>6, <1>7 DEF Multiplying, Rounds, Loads

\* and the second factor, whose top bit is latched,
LEMMA FactorBShifted ==
  ASSUME TypeInv, MulStepEnds, Small(inst), inst.name \in Multiplications,
         at.idx = "MU_MUL_SHIFT_FACTOR_B_LEFT", Multiplying(inst, at, core)
  PROVE  Multiplying(inst, at', core')
<1> DEFINE e == Entry(at)
           c == AluOfEntry(at)
           r == AluResult(c, core, 0, core.factor_b)
           N == 2 ^ inst.size
<1>1. /\ inst.size \in {8, 16} /\ inst.size \in Sizes
      /\ SmallWidth(inst.size, N, 2 ^ (inst.size - 1))
  BY Factors DEF TypeInv
<1>2. /\ at.size = inst.size /\ (at.sel >= 16 <=> inst.name = "MULS" /\ core.repi = inst.size)
      /\ core.factor_a = inst.a /\ core.repi \in 1..inst.size /\ ProductMoved(inst, core)
  BY DEF Multiplying, Rounds, Loop
<1>3. at \in EntrySpec
  BY DEF TypeInv
<1>4. Moves(e, at, "ZERO", "FACTOR_B", "FACTOR_B", "MU_MUL_ADD_PRODUCT_LO") /\ e.next.size = at.size
  <2>1. at.idx \in Loop \ {"MU_MUL_LOOP"}
    BY DEF Loop
  <2> QED
    BY <1>3, <2>1, LoopEntries
<1>5. c = ShiftLeft(at, "SHIFTER_LEFT") /\ c.size1 = inst.size
  BY <1>2 DEF AluOfEntry, ShiftLeft, PlainControl
<1>6. 0 = Fetched("ZERO", c.size1) /\ core.factor_b = Fetched("FACTOR_B", c.size2)
  BY FetchedFrom
<1>7. "MU_MUL_ADD_PRODUCT_LO" \in MulEntries
  BY DEF MulEntries, Loop
<1> HIDE DEF e, c
<1>8. /\ core'.factor_a = core.factor_a /\ core'.factor_b = Truncated(r.out, 24)
      /\ core'.rd = core.rd /\ core'.repi = core.repi /\ core'.latch_aux = r.latch_aux
      /\ at'.idx = "MU_MUL_ADD_PRODUCT_LO" /\ at'.sel = at.sel /\ at'.size = at.size
      /\ core \in Cores
  BY <1>4, <1>6, <1>7, StraightStep DEF e, c
<1>9. core.factor_b \in Nat
  BY <1>8, SmallWords DEF Cores
<1>10. r.out = 2 * (core.factor_b % N) /\ (r.latch_aux <=> core.factor_b % N >= N \div 2)
  BY <1>1, <1>2, <1>5, <1>9, ShiftOfAlu
<1> HIDE DEF r
<1>11. core'.factor_b % N = (2 * core.factor_b) % N
  <2> HIDE DEF N
  <2>1. N = 2 ^ inst.size
    BY DEF N
  <2>2. Truncated(2 * (core.factor_b % N), 24) % N = (2 * core.factor_b) % N
    BY <1>1, <1>9, <2>1, TwiceCut
  <2> QED
    BY <1>8, <1>10, <2>2
<1>12. FactorMoved(inst, core')
  <2>1. PICK p \in Nat : core.rd % N = (2 * p) % N /\ Partial(inst, p, core.factor_b, core.repi)
    BY <1>2, Zenon DEF ProductMoved
  <2>2. /\ Partial(inst, p, core.factor_b, core'.repi)
        /\ core'.rd % N = (2 * p) % N /\ core'.factor_b % N = (2 * core.factor_b) % N
        /\ core'.latch_aux <=> core.factor_b % N >= N \div 2
    BY <1>8, <1>10, <1>11, <2>1, Zenon
  <2> QED
    BY <1>9, <2>2, Zenon DEF FactorMoved
<1> QED
  BY <1>2, <1>8, <1>12 DEF Multiplying, Rounds, Loads

\* The sum of words that are equal in N values.
LEMMA SumOfEquals ==
  ASSUME NEW size, NEW N, NEW H, SmallWidth(size, N, H), NEW x \in Nat, NEW y \in Nat, NEW e \in Int,
         x % N = y % N
  PROVE  (x + e) % N = (y + e) % N
<1>1. CASE N = 256
  BY <1>1, SMT
<1>2. CASE N = 65536
  BY <1>2, SMT
<1> QED
  BY <1>1, <1>2 DEF SmallWidth

\* and adds the first factor when the bit was set: the bit is taken.
LEMMA ProductLoAdded ==
  ASSUME TypeInv, MulStepEnds, Small(inst), inst.name \in Multiplications,
         at.idx = "MU_MUL_ADD_PRODUCT_LO", Multiplying(inst, at, core)
  PROVE  Multiplying(inst, at', core')
<1> DEFINE e == Entry(at)
           c == AluOfEntry(at)
           r == AluResult(c, core, core.rd, inst.a)
           N == 2 ^ inst.size
           K == 2 ^ (core.repi - 1)
           signed == inst.name = "MULS"
<1>1. /\ inst.a \in Nat /\ inst.a < N /\ inst.b \in Nat /\ inst.b < N
      /\ inst.size \in {8, 16} /\ inst.size \in Sizes
      /\ SmallWidth(inst.size, N, 2 ^ (inst.size - 1))
  BY Factors DEF TypeInv
<1>2. /\ at.size = inst.size /\ (at.sel >= 16 <=> inst.name = "MULS" /\ core.repi = inst.size)
      /\ core.factor_a = inst.a /\ core.repi \in 1..inst.size /\ FactorMoved(inst, core)
  BY DEF Multiplying, Rounds, Loop
<1>3. at \in EntrySpec
  BY DEF TypeInv
<1>4. Moves(e, at, "REG", "FACTOR_A", "REG", "MU_MUL_ADD_PRODUCT_HI") /\ e.next.size = at.size
  <2>1. at.idx \in Loop \ {"MU_MUL_LOOP"}
    BY DEF Loop
  <2> QED
    BY <1>3, <2>1, LoopEntries
<1>5. c = AddProductLo(at) /\ c.size1 = inst.size
  BY <1>2 DEF AluOfEntry, AddProductLo, PlainControl
<1>6. core.rd = Fetched("REG", c.size1) /\ inst.a = Fetched("FACTOR_A", c.size2)
  BY <1>2, FetchedFrom
<1>7. "MU_MUL_ADD_PRODUCT_HI" \in MulEntries
  BY DEF MulEntries, Loop
<1> HIDE DEF e, c
<1>8. /\ core'.factor_a = core.factor_a /\ core'.factor_b = core.factor_b
      /\ core'.rd = Written(core.rd, c.size1, r.out) /\ core'.repi = core.repi
      /\ at'.idx = "MU_MUL_ADD_PRODUCT_HI" /\ at'.sel = at.sel /\ at'.size = at.size
      /\ core \in Cores /\ r.out \in Nat
      /\ "D" \notin inst.F => "D" \notin core.F
  BY <1>4, <1>6, <1>7, StraightStep DEF e, c
<1>9. core.rd \in Words /\ core.rd \in Nat /\ core.latch_aux \in BOOLEAN
  BY <1>8, SmallWords DEF Cores
<1> DEFINE t == IF ~core.latch_aux THEN 0 ELSE IF at.sel >= 16 THEN 0 - inst.a ELSE inst.a
<1>10. r.out % N = (core.rd + t) % N
  <2>1. "D" \notin core.F
    BY <1>8 DEF Small
  <2> QED
    BY <1>1, <1>2, <1>5, <1>9, <2>1, AddOfAlu
<1> HIDE DEF r
<1>11. core'.rd % N = (core.rd + t) % N
  <2>1. Written(core.rd, inst.size, r.out) % N = r.out % N
    BY <1>1, <1>8, <1>9, WrittenType
  <2> QED
    BY <1>5, <1>8, <1>10, <2>1
<1>12. PICK p \in Nat, f \in Nat :
          /\ Partial(inst, p, f, core.repi)
          /\ core.rd % N = (2 * p) % N /\ core.factor_b % N = (2 * f) % N
          /\ core.latch_aux <=> f % N >= N \div 2
  BY <1>2, Zenon DEF FactorMoved
<1> DEFINE bit == IF f % N >= N \div 2 THEN 1 ELSE 0
           g == IF signed /\ 2 * K = N THEN 0 - bit ELSE bit
           q == 2 * p + g * inst.a
<1>13. Digits(N, K) /\ 2 ^ core.repi = 2 * K /\ (2 * K = N <=> core.repi = inst.size)
  BY <1>1, <1>2, Powers
<1>14. Taken(inst.a, inst.b, N, 2 * K, signed, p, f)
  BY <1>12, <1>13 DEF Partial
<1> HIDE DEF N, K, signed
<1>15. bit \in {0, 1} /\ g \in {-1, 0, 1} /\ q \in Int
  <2>1. bit \in {0, 1}
    OBVIOUS
  <2> HIDE DEF bit
  <2>2. g = 0 - bit \/ g = bit
    OBVIOUS
  <2> HIDE DEF g
  <2>3. g \in {-1, 0, 1}
    BY <2>1, <2>2, SignOfBit
  <2>4. inst.a \in Nat
    BY <1>1
  <2>5. q \in Int
    BY <2>3, <2>4, SMT
  <2> QED
    BY <2>1, <2>3, <2>5
<1>16. Taken(inst.a, inst.b, N, K, signed, q, 2 * f)
  <2>1. inst.a \in Nat /\ inst.b \in Nat /\ inst.b < N /\ signed \in BOOLEAN
    BY <1>1 DEF signed
  <2> HIDE DEF q, g, bit
  <2>2. bit = (IF f % N >= N \div 2 THEN 1 ELSE 0)
    BY DEF bit
  <2>3. g = (IF signed /\ 2 * K = N THEN 0 - bit ELSE bit)
    BY DEF g
  <2>4. q = 2 * p + g * inst.a
    BY DEF q
  <2> QED
    BY <1>13, <1>14, <1>15, <2>1, <2>2, <2>3, <2>4, BitTaken
<1>17. t = g * inst.a /\ t \in Int
  <2>1. bit = IF core.latch_aux THEN 1 ELSE 0
    BY <1>12
  <2>2. signed /\ 2 * K = N <=> at.sel >= 16
    BY <1>2, <1>13 DEF signed
  <2> QED
    BY <1>1, <2>1, <2>2, SMT
<1>18. (core.rd + t) % N = q % N
  <2>1. 2 * p \in Nat
    BY SMT
  <2> HIDE DEF t, g
  <2>2. (core.rd + t) % N = (2 * p + t) % N
    BY <1>1, <1>9, <1>12, <1>17, <2>1, SumOfEquals
  <2> QED
    BY <1>17, <2>2
<1>19. AfterRound(inst, core')
  <2>1. core'.rd % N = q % N /\ core'.factor_b % N = (2 * f) % N
    BY <1>8, <1>11, <1>12, <1>18
  <2> HIDE DEF q
  <2>2. Taken(inst.a, inst.b, N, K, signed, core'.rd, core'.factor_b)
    BY <1>16, <2>1 DEF Taken
  <2> QED
    BY <1>8, <2>2 DEF AfterRound, Partial, N, K, signed
<1> QED
  BY <1>2, <1>8, <1>19 DEF Multiplying, Rounds, Loads

\* The carry goes to the high half,
LEMMA ProductHiAdded ==
  ASSUME TypeInv, MulStepEnds, Small(inst),
         at.idx = "MU_MUL_ADD_PRODUCT_HI", Multiplying(inst, at, core)
  PROVE  Multiplying(inst, at', core')
<1> DEFINE e == Entry(at)
           c == AluOfEntry(at)
<1>1. /\ at.size = inst.size /\ (at.sel >= 16 <=> inst.name = "MULS" /\ core.repi = inst.size)
      /\ core.factor_a = inst.a /\ core.repi \in 1..inst.size /\ AfterRound(inst, core)
  BY DEF Multiplying, Rounds, Loop
<1>2. at \in EntrySpec
  BY DEF TypeInv
<1>3. Moves(e, at, "R0", "CARRY", "R0", "MU_MUL_LOOP") /\ e.next.size = at.size
  <2>1. at.idx \in Loop \ {"MU_MUL_LOOP"}
    BY DEF Loop
  <2> QED
    BY <1>2, <2>1, LoopEntries
<1>4. "MU_MUL_LOOP" \in MulEntries
  BY DEF MulEntries, Loop
<1> HIDE DEF e, c
<1>5. /\ core'.factor_a = core.factor_a /\ core'.factor_b = core.factor_b
      /\ core'.rd = core.rd /\ core'.repi = core.repi
      /\ at'.idx = "MU_MUL_LOOP" /\ at'.sel = at.sel /\ at'.size = at.size
  BY <1>3, <1>4, StraightStep DEF e, c
<1>6. AfterRound(inst, core')
  BY <1>1, <1>5 DEF AfterRound
<1> QED
  BY <1>1, <1>5, <1>6 DEF Multiplying, Rounds, Loads

\* and the round is counted: after the last one the product is whole.
LEMMA RoundCounted ==
  ASSUME TypeInv, MulStepEnds, Small(inst), inst.name \in Multiplications,
         at.idx = "MU_MUL_LOOP", Multiplying(inst, at, core)
  PROVE  /\ at'.idx # "MU_NONE" => Multiplying(inst, at', core')
         /\ at'.idx = "MU_NONE" => Multiplied(inst, core')
<1> DEFINE e == Entry(at)
           c == AluOfEntry(at)
           r == AluResult(c, core, core.repi, 0)
           N == 2 ^ inst.size
           signed == inst.name = "MULS"
<1>1. /\ inst.a \in Nat /\ inst.a < N /\ inst.b \in Nat /\ inst.b < N
      /\ inst.size \in {8, 16} /\ inst.size \in Sizes
  BY Factors DEF TypeInv
<1>2. /\ at.size = inst.size /\ (at.sel >= 16 <=> inst.name = "MULS" /\ core.repi = inst.size)
      /\ core.factor_a = inst.a /\ core.repi \in 1..inst.size /\ AfterRound(inst, core)
  BY DEF Multiplying, Rounds, Loop
<1>3. at \in EntrySpec /\ at.sel \in 0..31
  BY DEF TypeInv, EntrySpec
<1>4. /\ e.operation.src1 = "REPI" /\ e.operation.src2 = "ZERO" /\ e.operation.dest = "REPI"
      /\ e.branch /\ e.next_no_branch.idx = "MU_NONE"
      /\ e.next.idx = "MU_MUL_SHIFT_PRODUCT_LO_LEFT" /\ e.next.sel = at.sel % 16
      /\ e.next.size = at.size
  BY <1>3, LoopEnds
<1>5. c = CountDown
  BY DEF AluOfEntry
<1> HIDE DEF e, c
<1>6. core.repi = Fetched(e.operation.src1, c.size1) /\ 0 = Fetched(e.operation.src2, c.size2)
  BY <1>4, FetchedFrom
<1>7. /\ core'.factor_a = core.factor_a /\ core'.factor_b = core.factor_b
      /\ core'.rd = core.rd /\ core'.repi = r.out % 32
      /\ at' = IF e.branch /\ r.latch_aux THEN e.next_no_branch ELSE e.next
  <2>1. /\ core'.rd = IF e.operation.dest = "REG" THEN Written(core.rd, c.size1, r.out) ELSE core.rd
        /\ core'.factor_a = IF e.operation.dest = "FACTOR_A" THEN Truncated(r.out, 24) ELSE core.factor_a
        /\ core'.factor_b = IF e.operation.dest = "FACTOR_B" THEN Truncated(r.out, 24) ELSE core.factor_b
        /\ core'.repi = IF e.operation.dest = "REPI" THEN r.out % 32 ELSE core.repi
        /\ at' = IF e.branch /\ r.latch_aux THEN e.next_no_branch ELSE e.next
    BY <1>6, MulStepShape DEF e, c
  <2> QED
    BY <1>4, <2>1
<1>8. core.repi \in 1..16 /\ core.repi - 1 \in Nat
  BY <1>1, <1>2, SMT
<1>9. r.out = core.repi - 1 /\ (r.latch_aux <=> core.repi = 1)
  <2>1. "D" \notin core.F
    BY DEF Small, TypeInv
  <2> QED
    BY <1>5, <1>8, <2>1, CountOfAlu
<1> HIDE DEF r
<1>10. core'.repi = core.repi - 1
  BY <1>7, <1>8, <1>9, SMT
<1>11. CASE core.repi = 1
  <2>1. at'.idx = "MU_NONE"
    BY <1>4, <1>7, <1>9, <1>11
  <2>2. Taken(inst.a, inst.b, N, 1, signed, core.rd, core.factor_b)
    <3>1. 2 ^ (core.repi - 1) = 1
      BY <1>11, PowersOfTwo
    <3> QED
      BY <1>2, <3>1 DEF AfterRound, Partial
  <2>3. core.rd % N = (inst.a * inst.b) % N
    <3>1. signed \in BOOLEAN
      OBVIOUS
    <3> HIDE DEF signed
    <3> QED
      BY <1>1, <2>2, <3>1, AllTaken
  <2> QED
    BY <1>7, <2>1, <2>3 DEF Multiplied
<1>12. CASE core.repi # 1
  <2>1. /\ at'.idx = "MU_MUL_SHIFT_PRODUCT_LO_LEFT" /\ at'.sel = at.sel % 16 /\ at'.size = at.size
    BY <1>4, <1>7, <1>9, <1>12
  <2>2. /\ ~(at'.sel >= 16) /\ core'.repi \in 1..inst.size /\ core'.repi # inst.size
    BY <1>1, <1>2, <1>3, <1>10, <1>12, <2>1, SMT
  <2>3. BeforeRound(inst, core')
    BY <1>2, <1>7, <1>10 DEF AfterRound, BeforeRound
  <2> QED
    BY <1>2, <1>7, <2>1, <2>2, <2>3 DEF Multiplying, Rounds, Loads
<1> QED
  BY <1>11, <1>12

\* Before the first step,
LEMMA MulInvInit == Init => MulInv
<1> SUFFICES ASSUME Init PROVE MulInv
  OBVIOUS
<1>1. inst.stage = "offered" /\ core.rd = inst.a
  <2>1. PICK name, size, a, b, F :
          /\ inst = [name |-> name, size |-> size, a |-> a, b |-> b, F |-> F, stage |-> "offered"]
          /\ core = [F |-> F, latch_aux |-> FALSE, used_z |-> FALSE, out |-> 0, repi |-> 0,
                     rd |-> a, r0 |-> 0, factor_a |-> 0, factor_b |-> 0]
    BY DEF Init
  <2> QED
    BY <2>1
<1> QED
  BY <1>1 DEF MulInv

\* The routine reads only the operands of its instruction.
LEMMA SameOperands ==
  ASSUME NEW i, NEW j, j.name = i.name, j.size = i.size, j.a = i.a, j.b = i.b, j.F = i.F,
         NEW s, NEW x
  PROVE  /\ Small(j) <=> Small(i)
         /\ Multiplying(j, s, x) <=> Multiplying(i, s, x)
         /\ Multiplied(j, x) <=> Multiplied(i, x)
<1>1. \A p, f, k : Partial(j, p, f, k) <=> Partial(i, p, f, k)
  BY DEF Partial
<1>2. Rounds(j, s, x) <=> Rounds(i, s, x)
  <2>1. /\ BeforeRound(j, x) <=> BeforeRound(i, x)
        /\ ProductMoved(j, x) <=> ProductMoved(i, x)
        /\ FactorMoved(j, x) <=> FactorMoved(i, x)
        /\ AfterRound(j, x) <=> AfterRound(i, x)
    BY <1>1, Zenon DEF BeforeRound, ProductMoved, FactorMoved, AfterRound
  <2> QED
    BY <2>1 DEF Rounds
<1>3. Loading(j, s, x) <=> Loading(i, s, x)
  BY DEF Loading
<1> QED
  BY <1>2, <1>3 DEF Small, Multiplying, Multiplied

\* and after each.
LEMMA MulInvNext ==
  ASSUME TypeInv, MulInv, [Next]_vars
  PROVE  MulInv'
<1>1. CASE Compute
  <2>1. inst.name \in SingleCycle /\ inst' = [inst EXCEPT !.stage = "done"]
    BY <1>1, Zenon DEF Compute
  <2>2. inst'.stage = "done" /\ inst'.name = inst.name
    BY <2>1, InstructionKept DEF TypeInv
  <2>3. inst.name \notin Multiplications
    BY <2>1 DEF SingleCycle, Multiplications, ArithLogic, Shifts, Unaries, Quick, BitOperations
  <2> QED
    BY <2>2, <2>3 DEF MulInv
<1>2. CASE StartMul
  <2>1. /\ core'.factor_b = inst.b /\ core'.rd = core.rd
        /\ at'.idx = "MU_MUL_LD_FACTOR_A" /\ at'.size = inst.size
        /\ at'.sel = IF inst.name = "MULS" THEN 24 ELSE 0
        /\ inst.stage = "offered" /\ inst' = [inst EXCEPT !.stage = "running"]
    BY <1>2, StartMulShape
  <2>2. /\ inst'.name = inst.name /\ inst'.size = inst.size /\ inst'.a = inst.a
        /\ inst'.b = inst.b /\ inst'.F = inst.F /\ inst'.stage = "running"
    BY <2>1, InstructionKept DEF TypeInv
  <2>3. core.rd = inst.a
    BY <2>1 DEF MulInv
  <2>4. at'.sel >= 16 <=> inst.name = "MULS"
    BY <2>1, SMT
  <2>5. Multiplying(inst, at', core')
    BY <2>1, <2>3, <2>4 DEF Multiplying, Loading, Loop
  <2>6. Multiplying(inst', at', core')
    BY <2>2, <2>5, SameOperands
  <2> QED
    BY <2>2, <2>6 DEF MulInv
<1>3. CASE MulStepEnds
  <2>1. /\ inst' = [inst EXCEPT !.stage = IF at'.idx = "MU_NONE" THEN "done" ELSE inst.stage]
        /\ inst.stage = "running" /\ at.idx \in MulEntries
    BY <1>3, MulStepShape
  <2>2. /\ inst'.name = inst.name /\ inst'.size = inst.size /\ inst'.a = inst.a
        /\ inst'.b = inst.b /\ inst'.F = inst.F
        /\ inst'.stage = IF at'.idx = "MU_NONE" THEN "done" ELSE "running"
    BY <2>1, InstructionKept DEF TypeInv
  <2>3. inst.name \in Multiplications
    BY <2>1 DEF TypeInv, OnlyMulRuns
  <2>4. ASSUME Small(inst)
        PROVE  /\ at'.idx # "MU_NONE" => Multiplying(inst, at', core')
               /\ at'.idx = "MU_NONE" => Multiplied(inst, core')
    <3>1. Multiplying(inst, at, core)
      BY <2>1, <2>4 DEF MulInv
    <3>2. CASE at.idx = "MU_MUL_LOOP"
      BY <1>3, <2>3, <2>4, <3>1, <3>2, RoundCounted
    <3>3. CASE at.idx # "MU_MUL_LOOP"
      <4>1. Multiplying(inst, at', core')
        BY <1>3, <2>1, <2>3, <2>4, <3>1, <3>3, FactorALoaded, ProductLoLoaded, ProductHiLoaded,
           RepiLoaded, ProductLoShifted, ProductHiShifted, FactorBShifted, ProductLoAdded,
           ProductHiAdded DEF MulEntries, Loads, Loop
      <4>2. at'.idx # "MU_NONE"
        <5>1. Entry(at).next.idx \in MulEntries /\ ~Entry(at).branch
          BY <2>1, <3>3, MulRow DEF TypeInv
        <5>2. at' = Entry(at).next
          BY <1>3, <5>1, MulStepShape
        <5> QED
          BY <5>1, <5>2 DEF MulEntries, Loads, Loop
      <4> QED
        BY <4>1, <4>2
    <3> QED
      BY <3>2, <3>3
  <2>5. Small(inst') <=> Small(inst)
    BY <2>2, SameOperands
  <2>6. Multiplying(inst, at', core') => Multiplying(inst', at', core')
    BY <2>2, SameOperands
  <2>7. Multiplied(inst, core') => Multiplied(inst', core')
    BY <2>2, SameOperands
  <2> QED
    BY <2>2, <2>4, <2>5, <2>6, <2>7 DEF MulInv
<1>4. CASE UNCHANGED vars
  BY <1>4 DEF vars, MulInv
<1> QED
  BY <1>1, <1>2, <1>3, <1>4 DEF Next

\* The product of the property is the product.
LEMMA ProductIs ==
  ASSUME NEW size, NEW N, NEW H, SmallWidth(size, N, H), N = 2 ^ size, NEW a \in Nat, NEW b \in Nat, b < N
  PROVE  Product(a, b, size) = (a * b) % N
<1> DEFINE u == b % 256
           v == b \div 256
           y == a * u
           z == a * v
<1>1. Product(a, b, size) = (y + 256 * (z % N)) % N
  BY DEF Product
<1>2. u \in Nat /\ v \in Nat /\ b = u + 256 * v
  BY SMT
<1> HIDE DEF u, v
<1>3. a * b = a * u + 256 * (a * v)
  BY <1>2, SMT
<1>4. a * u \in Nat /\ a * v \in Nat
  BY <1>2, SMT
<1> HIDE DEF y, z
<1>5. a * b = y + 256 * z /\ y \in Nat /\ z \in Nat
  BY <1>3, <1>4 DEF y, z
<1>6. (y + 256 * (z % N)) % N = (y + 256 * z) % N
  <2>1. CASE N = 256
    BY <1>5, <2>1, SMT
  <2>2. CASE N = 65536
    <3> DEFINE m == z % N
               t == 256 * (z \div N)
               w == y + 256 * m
    <3>1. m \in Nat /\ t \in Nat /\ 256 * z = 256 * m + N * t
      BY <1>5, <2>2, SMT
    <3> HIDE DEF m, t
    <3>2. w \in Nat /\ y + 256 * z = w + N * t
      BY <1>5, <3>1, SMT
    <3> HIDE DEF w
    <3>3. w % N = (w + N * t) % N
      BY <2>2, <3>1, <3>2, SMT
    <3> QED
      BY <3>2, <3>3 DEF w, m
  <2> QED
    BY <2>1, <2>2 DEF SmallWidth
<1> QED
  BY <1>1, <1>5, <1>6

\* MUL leaves the low half of the product in the register, for any factors of 8 and 16
\* bits, signed and unsigned.
THEOREM ProductsCorrect == Spec => []ProductLow
<1>1. TypeInv /\ MulInv => ProductLow
  <2> SUFFICES ASSUME TypeInv, MulInv, Done(Multiplications), Binary, inst.size # 24
               PROVE  Truncated(core.rd, inst.size) = Product(inst.a, inst.b, inst.size)
    BY DEF ProductLow
  <2>1. inst.stage = "done" /\ inst.name \in Multiplications /\ Instruction
    BY DEF Done, TypeInv
  <2>2. Small(inst)
    <3>1. inst.size \in Sizes
      BY <2>1, InstructionWords
    <3> QED
      BY <3>1 DEF Small, Binary, Sizes
  <2>3. core.rd % 2 ^ inst.size = (inst.a * inst.b) % 2 ^ inst.size
    BY <2>1, <2>2 DEF MulInv, Multiplied
  <2>4. Product(inst.a, inst.b, inst.size) = (inst.a * inst.b) % 2 ^ inst.size
    BY <2>1, <2>2, Factors, ProductIs
  <2> QED
    BY <2>3, <2>4 DEF Truncated
<1> QED
  BY TypeInvInit, TypeInvNext, MulInvInit, MulInvNext, <1>1, PTL DEF Spec
=============================================================================
