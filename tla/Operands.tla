------------------------------- MODULE Operands -------------------------------
(***************************************************************************)
(* The operand decoder of cpu_decode_rm.c.  It turns a six-bit RM          *)
(* specifier into operand words to queue, a data location of the core      *)
(* operation, and the microcode entry that fetches or stores the operand.  *)
(*                                                                         *)
(* Which register an operand names, and the sizes and sign extension of    *)
(* the ALU inputs, are data nothing here depends on and are left out: the  *)
(* location of every register is "REG".  The size of an input that is read *)
(* from imm_words says which words it takes, and is part of the location.  *)
(***************************************************************************)
EXTENDS Integers

Bits(word, hi, lo) == (word \div 2^lo) % 2^(hi - lo + 1)

\* READ_IMM_LATCH_: read at 24 bits a latch takes the next word too, and is then a
\* location of its own here.  Nothing reads IMM_0 at 24 bits.
LatchOfSize(latch, size) ==
  IF size # 24 THEN latch ELSE IF latch = "RM_1" THEN "RM_1_24" ELSE "IMM_1_24"

\* A mucode_entry_spec; sel is reg_select with its flag bits.
NoEntry == [idx |-> "MU_NONE", sel |-> 0, size |-> 24, write |-> FALSE, suppress |-> FALSE]

\* An execute_control_word.  alu: operation is not ALU_OFF.  flags: the mask of
\* flags to write has F_ZERO.  decode_inst_ does not reset mem_write_ctl and
\* is_16bit; they are only looked at when an address is latched, and whoever
\* latches one in the core operation sets them.
IdleControl ==
  [src1 |-> "ZERO", src2 |-> "ZERO", dest |-> "ZERO", alu |-> FALSE, flags |-> FALSE,
   aux |-> "LATCH_AUX_NONE", latch |-> "MEM_NO_LATCH", write |-> "MEM_READ",
   suppress |-> FALSE, wide |-> FALSE]

-----------------------------------------------------------------------------
\* The addressing mode, as the chain of tests on bits 5 and 1-0 and, for one
\* combination of those, on bits 4-3 tells them apart.
Mode == [rm \in 0..63 |->
  LET low == Bits(rm, 1, 0)
      high == Bits(rm, 5, 5)
  IN CASE low = 3             -> "short"
       [] high = 1 /\ low = 2 -> "predecrement"
       [] high = 1 /\ low = 1 -> <<"immediate", "absolute", "pgc", "indexed">>[Bits(rm, 4, 3) + 1]
       [] high = 1 /\ low = 0 -> "postincrement"
       [] high = 0 /\ low = 2 -> "indirect"
       [] high = 0 /\ low = 1 -> "relative"
       [] high = 0 /\ low = 0 -> "direct"]

\* rm_requires_mem_fetch_: the same distinction, made a second time by K-map.
RequiresMemFetchAll(rm) ==
  \/ Bits(rm, 5, 5) = 1 /\ Bits(rm, 0, 0) = 0
  \/ Bits(rm, 5, 5) = 0 /\ Bits(rm, 1, 0) \in {1, 2}
  \/ Bits(rm, 5, 5) = 1 /\ Bits(rm, 1, 0) = 1 /\ Bits(rm, 4, 2) > 0
RequiresMemFetch(rm) ==
  \/ Bits(rm, 5, 5) = 1 /\ Bits(rm, 0, 0) = 0
  \/ Bits(rm, 5, 5) = 0 /\ Bits(rm, 1, 0) \in {1, 2}
  \/ Bits(rm, 5, 5) = 1 /\ Bits(rm, 1, 0) = 1 /\ Bits(rm, 4, 2) > 1

\* The modes whose branch of the decoder fills in a microcode entry.
MemoryModes ==
  {"predecrement", "indexed", "pgc", "absolute", "postincrement", "indirect", "relative"}

\* decode_queue_read_word once or twice: bit 2 selects the 24-bit form.
OperandWordsOnce(rm) ==
  IF Mode[rm] \in {"indexed", "pgc", "absolute", "immediate"} THEN 1 ELSE 0
OperandWords(rm) ==
  IF Mode[rm] \in {"indexed", "pgc", "absolute", "immediate"} THEN 1 + Bits(rm, 2, 2) ELSE 0

\* The microcode entry of a memory operand.  Pre-decrement, indexed and
\* PGC-relative operands leave the size at its initial 24 bits.
MemoryEntry(rm, second, is_dest, suppress, size) ==
  LET mode == Mode[rm]
      short == Bits(rm, 2, 2) = 0
      idx == CASE mode = "predecrement"  -> "MU_IND_REG_AUTO"
               [] mode = "indexed"       -> IF short THEN "MU_IND_REG_WITH_BITS" ELSE "MU_IND_IMM_WITH_BITS"
               [] mode = "pgc"           -> "MU_IND_PGC_WITH_IMM_RM"
               [] mode = "absolute"      -> IF second THEN "MU_IND_IMM_RM" ELSE "MU_IND_IMM"
               [] mode = "postincrement" -> "MU_IND_REG_POST_AUTO"
               [] mode = "indirect"      -> "MU_IND_REG"
               [] mode = "relative"      -> "MU_IND_REG_WITH_IMM"
               [] OTHER                  -> "MU_NONE"
      sel == CASE mode = "indexed"            -> 0
               [] mode \in {"pgc", "absolute"} -> IF short THEN 8 ELSE 0
               [] OTHER                        -> Bits(rm, 4, 2)
  IN [idx |-> idx,
      sel |-> sel + IF second THEN 16 ELSE 0,
      size |-> IF mode \in {"predecrement", "indexed", "pgc"} THEN 24 ELSE size,
      write |-> is_dest,
      suppress |-> suppress]

-----------------------------------------------------------------------------
\* decode_rm_specifier.  The operand is the left source, the right source, or
\* only a destination and then no source at all.
Source(is_dest, is_left) == IF is_left THEN "src1" ELSE IF is_dest THEN "none" ELSE "src2"

SourceLocation(rm, second) ==
  LET mode == Mode[rm]
      latch == IF second THEN "RM_1" ELSE "IMM_1"
      width == IF Bits(rm, 2, 2) = 0 THEN 16 ELSE 24
  IN
  CASE mode \in MemoryModes -> "MEM_DATA"
    [] mode = "short"       -> IF second THEN "SFI_2" ELSE "SFI_1"
    [] mode = "immediate"   -> LatchOfSize(latch, width)
    [] mode = "direct"      -> "REG"

\* The part of the core operation an operand fills in.  A memory operand is
\* its destination whether it is written or not; a read-modify-write operand
\* is written back to the address that is left in MAR.
OperandCore(core, rm, second, is_dest, is_left, size) ==
  LET source == Source(is_dest, is_left)
      memory == RequiresMemFetch(rm)
      rmw == memory /\ is_dest /\ is_left
  IN [core EXCEPT
       !.src1 = IF source = "src1" THEN SourceLocation(rm, second) ELSE @,
       !.src2 = IF source = "src2" THEN SourceLocation(rm, second) ELSE @,
       !.dest = CASE memory -> "MEM_DATA"
                  [] Mode[rm] = "direct" /\ source # "none" /\ is_dest -> "REG"
                  [] OTHER -> @,
       !.latch = IF rmw THEN "MEM_LATCH_HALF2_MAR" ELSE @,
       !.write = IF rmw THEN "MEM_WRITE_FROM_DEST" ELSE @,
       !.wide = IF rmw THEN size >= 16 ELSE @]

Operand(w, rm, is_dest, is_left, size) ==
  LET second == w.rm_ops = 1
      slot == IF is_dest /\ ~is_left THEN "after" ELSE "before"
      entry == MemoryEntry(rm, second, is_dest, w.core.suppress, size)
      unread == Mode[rm] = "immediate" /\ Source(is_dest, is_left) = "none"
  IN [w EXCEPT
       !.rm_ops = @ + 1,
       !.rm2_offset = IF second THEN w.words ELSE @,
       !.words = IF unread THEN @ ELSE @ + OperandWords(rm),
       !.before = IF slot = "before" /\ RequiresMemFetch(rm) THEN entry ELSE @,
       !.after = IF slot = "after" /\ RequiresMemFetch(rm) THEN entry ELSE @,
       !.core = OperandCore(@, rm, second, is_dest, is_left, size)]
=============================================================================
