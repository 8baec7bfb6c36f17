-------------------------------- MODULE Mucode --------------------------------
(***************************************************************************)
(* The microcode of cpu_mucode.c: decode_mucode_entry as a function from   *)
(* an entry specification to the control word of one execute cycle and the *)
(* entry that follows it.                                                  *)
(*                                                                         *)
(* base_entry_ leaves mem_write_ctl uninitialized, and some routines latch *)
(* an address without setting it: "UNINITIALIZED" is any of its values.    *)
(***************************************************************************)
EXTENDS Opcodes

\* base_entry_: a 24-bit access is followed by one for the high byte.
BaseNextSameSize(s) ==
  IF s.size = 24 /\ ~s.suppress
  THEN [s EXCEPT !.idx = "MU_IND_MAR_AUTO"]
  ELSE [s EXCEPT !.idx = "MU_NONE"]
BaseNext(s) ==
  IF s.size = 24 /\ ~s.suppress
  THEN [s EXCEPT !.idx = "MU_IND_MAR_AUTO", !.size = 8]
  ELSE [s EXCEPT !.idx = "MU_NONE"]

Base(s) ==
  [operation |-> [IdleControl EXCEPT !.wide = s.size >= 16, !.suppress = s.suppress,
                                     !.write = "UNINITIALIZED"],
   branch |-> FALSE,
   branch_cond |-> CondAlways,
   next |-> BaseNext(s),
   next_no_branch |-> BaseNext(s)]

\* Both successors of an entry that is followed by a conditional one.
Branching(e, cond, taken, not_taken) ==
  [e EXCEPT !.branch = TRUE, !.branch_cond = cond,
            !.next.idx = taken, !.next_no_branch.idx = not_taken]

\* A cycle that computes and accesses nothing, followed by entry idx.
Computing(s, src1, src2, dest, idx) ==
  [Base(s) EXCEPT !.operation.src1 = src1, !.operation.src2 = src2,
                  !.operation.dest = dest, !.operation.alu = TRUE, !.next.idx = idx]

-----------------------------------------------------------------------------
\* Entries that put an address on the bus in the first half, from src1 ...
Indirect(s, src1) ==
  [Base(s) EXCEPT !.operation.src1 = src1,
                  !.operation.latch = "MEM_LATCH_HALF1",
                  !.operation.write = IF s.write THEN "MEM_WRITE_FROM_MDR" ELSE "MEM_READ"]

ind_1cyc_imm_(s)    == Indirect(s, LatchOfSize("IMM_1", s.size))
ind_1cyc_imm_rm_(s) == Indirect(s, LatchOfSize("RM_1", s.size))
ind_1cyc_imm0_(s)   == Indirect(s, "IMM_0")
ind_1cyc_reg_(s)    == Indirect(s, "REG")

ind_1cyc_reg_post_auto_swapped(s) ==
  [ind_1cyc_reg_(s) EXCEPT
     !.next.idx = IF s.size = 24 THEN "MU_POST_AUTOIDX" ELSE "MU_IND_MAR_POST_AUTO"]
ind_1cyc_reg_post_auto_(s) ==
  [ind_1cyc_reg_(s) EXCEPT
     !.next.idx = IF s.size # 24 THEN "MU_POST_AUTOIDX" ELSE "MU_IND_MAR_POST_AUTO"]

\* ... or in the second half, from the ALU.
ind_1cyc_reg_auto_(s) ==
  [ind_1cyc_reg_(s) EXCEPT !.operation.src2 = "SIZE", !.operation.alu = TRUE,
                           !.operation.dest = "REG", !.operation.latch = "MEM_LATCH_HALF2"]

\* Register relative adds the displacement but keeps the latch of the first half.
ind_2cyc_withimm_(s) ==
  [ind_1cyc_reg_(s) EXCEPT !.operation.src2 = IF s.sel >= 16 THEN "RM_1" ELSE "IMM_1",
                           !.operation.alu = TRUE]

AddressSum(s, src1, src2) ==
  [Base(s) EXCEPT !.operation.src1 = src1, !.operation.src2 = src2, !.operation.alu = TRUE,
                  !.operation.dest = "MEM_ADDR", !.operation.latch = "MEM_LATCH_HALF2"]

ind_2cyc_imm_withbits_(s) ==
  IF s.sel >= 16 THEN AddressSum(s, "RM_HML", "REG_RM_2") ELSE AddressSum(s, "IMM_HML_RM", "REG_IMM_2")
ind_2cyc_reg_withbits_(s) ==
  IF s.sel >= 16 THEN AddressSum(s, "REG_RM_1", "REG_RM_1") ELSE AddressSum(s, "REG_IMM_1", "REG_IMM_1")
ind_2cyc_pgc_withimm_(s) == AddressSum(s, "PGC", "IMM_0")
ind_2cyc_pgc_withimm_rm_(s) ==
  AddressSum(s, "PGC", LatchOfSize(IF s.sel >= 16 THEN "RM_1" ELSE "IMM_1", s.size))

\* The high byte of a 24-bit access, at the address after the one in MAR.
ind_2cyc_mar_auto_(s) ==
  [Base(s) EXCEPT !.operation.src1 = "MEM_ADDR", !.operation.src2 = "SIZE", !.operation.alu = TRUE,
                  !.operation.latch = "MEM_LATCH_HALF2",
                  !.operation.write = IF s.write THEN "MEM_WRITE_FROM_MDR_HIGH" ELSE "MEM_READ"]

ind_2cyc_mar_post_auto_(s) ==
  [ind_2cyc_mar_auto_(s) EXCEPT !.next.idx = "MU_POST_AUTOIDX", !.next.size = 24]

after_autoidx_(s) ==
  [ind_1cyc_reg_(s) EXCEPT !.operation.src2 = "SIZE", !.operation.alu = TRUE,
                           !.operation.dest = "REG", !.operation.latch = "MEM_NO_LATCH",
                           !.next.idx = "MU_NONE"]

-----------------------------------------------------------------------------
\* Repeat counters, and the step back of PGC that REPR asks for.
repi_(s) == [Computing(s, "REPI", "ZERO", "REPI", "MU_NONE") EXCEPT !.operation.aux = "LATCH_AUX_ZERO"]
repr_(s) == Computing(s, "REG_REPR", "ZERO", "REG_REPR", "MU_NONE")
adjust_pgc_(s) == Computing(s, "PGC", "SIZE", "PGC", "MU_NONE")

\* Multiplication: the operand size is handed on explicitly by every step except
\* the one that loads the counter.
MulStep(s, src1, src2, dest, idx) ==
  [Computing(s, src1, src2, dest, idx) EXCEPT !.next.size = s.size]

mul_1cyc_ld_factor_a_(s)   == MulStep(s, "REG", "ZERO", "FACTOR_A", "MU_MUL_LD_PRODUCT_LO")
mul_2cyc_ld_product_lo_(s) == MulStep(s, "ZERO", "ZERO", "REG", "MU_MUL_LD_PRODUCT_HI")
mul_3cyc_ld_product_hi_(s) == MulStep(s, "ZERO", "ZERO", "R0", "MU_MUL_LD_REPI")
mul_4cyc_ld_repi_(s) == Computing(s, "NUM_BITS", "ZERO", "REPI", "MU_MUL_SHIFT_PRODUCT_LO_LEFT")

Carrying(e) == [e EXCEPT !.operation.aux = "LATCH_AUX_CARRY"]
mul_ncyc_shift_product_lo_left_(s) ==
  Carrying(MulStep(s, "ZERO", "REG", "REG", "MU_MUL_SHIFT_PRODUCT_HI_LEFT"))
mul_n1cyc_shift_product_hi_left_(s) ==
  Carrying(MulStep(s, "ZERO", "R0", "R0", "MU_MUL_SHIFT_FACTOR_B_LEFT"))
mul_n2cyc_shift_factor_b_left_(s) ==
  Carrying(MulStep(s, "ZERO", "FACTOR_B", "FACTOR_B", "MU_MUL_ADD_PRODUCT_LO"))
mul_n3cyc_add_product_lo_(s) ==
  [MulStep(s, "REG", "FACTOR_A", "REG", "MU_MUL_ADD_PRODUCT_HI") EXCEPT !.operation.flags = TRUE]
mul_n4cyc_add_product_hi_(s) ==
  [MulStep(s, "R0", "CARRY", "R0", "MU_MUL_LOOP") EXCEPT
     !.operation.flags = TRUE, !.operation.aux = "LATCH_AUX_CLEAR"]
mul_n5cyc_loop_(s) ==
  [Branching(repi_(s), CondDjnz, "MU_MUL_SHIFT_PRODUCT_LO_LEFT", "MU_NONE") EXCEPT
     !.next.sel = s.sel % 16, !.next.size = s.size]

-----------------------------------------------------------------------------
\* Pushes: a decrement of the stack pointer that leaves its value in MAR, then a
\* write from the ALU output.
Predecrement(s, idx, size) ==
  [ind_1cyc_reg_auto_(s) EXCEPT !.operation.src1 = "SP", !.operation.suppress = TRUE,
     !.next.idx = idx, !.next.size = size, !.next.suppress = FALSE]

Push(s, src1) ==
  [Base(s) EXCEPT !.operation.src1 = src1, !.operation.alu = TRUE,
                  !.operation.latch = "MEM_LATCH_HALF2_MAR",
                  !.operation.write = "MEM_WRITE_FROM_DEST"]

push_pgc_1cyc_ind_sp_auto_(s) == Predecrement(s, "MU_PUSH_PGC_WR_PGC", 24)
push_pgc_2cyc_wr_pgc_(s)      == Push(s, "PGC")
push_wf_1cyc_ind_sp_auto_(s)  == Predecrement(s, "MU_PUSH_WF_WR_WF", 16)
push_wf_2cyc_wr_wf_(s)        == Push(s, "WF")

\* Branches.  A call pushes after it has written PGC.
ThenCall(e, s) ==
  IF s.sel % 32 = CondCall
  THEN [e EXCEPT !.next.idx = "MU_PUSH_PGC_IND_SP_AUTO", !.next_no_branch.idx = "MU_NONE"]
  ELSE e

ind_1cyc_djnz_(s) ==
  Branching([Base(s) EXCEPT !.operation.src1 = "PGC", !.operation.src2 = "IMM_0",
                            !.operation.alu = TRUE, !.operation.dest = "MEM_ADDR"],
            CondDjnz, "MU_BR_MAR", "MU_NONE")
br_mar_cond_(s) == Branching(Base(s), s.sel % 16, "MU_BR_MAR", "MU_NONE")
br_mar_to_mar(s) ==
  ThenCall([Base(s) EXCEPT !.operation.src1 = "MEM_ADDR", !.operation.dest = "MEM_ADDR",
                           !.operation.alu = TRUE], s)
br_mar_(s) ==
  ThenCall([Base(s) EXCEPT !.operation.src1 = "MEM_ADDR", !.operation.dest = "PGC",
                           !.operation.alu = TRUE], s)
br_hml_1cyc_test_hml_(s) ==
  Branching([Base(s) EXCEPT !.operation.src1 = "MEM_ADDR", !.operation.alu = TRUE,
                            !.operation.aux = "LATCH_AUX_ZERO"],
            CondDjnz, "MU_BR_HML_ADD_PGC", "MU_BR_MAR")
br_hml_2cyc_add_pgc_(s) ==
  ThenCall([Base(s) EXCEPT !.operation.src1 = "PGC", !.operation.src2 = "MEM_ADDR",
                           !.operation.dest = "PGC", !.operation.alu = TRUE,
                           !.operation.aux = "LATCH_AUX_CLEAR"], s)

-----------------------------------------------------------------------------
\* enum mucode_entry_idx, but for the division entries after the first.
MucodeEntries ==
  {"MU_IND_IMM", "MU_IND_IMM_RM", "MU_IND_REG", "MU_IND_REG_POST_AUTO",
   "MU_IND_REG_AUTO", "MU_IND_REG_WITH_IMM", "MU_IND_IMM0", "MU_IND_IMM_WITH_BITS",
   "MU_IND_REG_WITH_BITS", "MU_IND_PGC_WITH_IMM", "MU_IND_PGC_WITH_IMM_RM",
   "MU_IND_DJNZ", "MU_IND_MAR_AUTO", "MU_IND_MAR_POST_AUTO", "MU_POST_AUTOIDX",
   "MU_REPI", "MU_REPR", "MU_ADJUST_PGC", "MU_MUL_LD_FACTOR_A",
   "MU_MUL_LD_PRODUCT_LO", "MU_MUL_LD_PRODUCT_HI", "MU_MUL_LD_REPI",
   "MU_MUL_SHIFT_PRODUCT_LO_LEFT", "MU_MUL_SHIFT_PRODUCT_HI_LEFT",
   "MU_MUL_SHIFT_FACTOR_B_LEFT", "MU_MUL_ADD_PRODUCT_LO", "MU_MUL_ADD_PRODUCT_HI",
   "MU_MUL_LOOP", "MU_PUSH_PGC_IND_SP_AUTO", "MU_PUSH_PGC_WR_PGC",
   "MU_PUSH_WF_IND_SP_AUTO", "MU_PUSH_WF_WR_WF", "MU_BR_MAR_COND", "MU_BR_MAR",
   "MU_BR_HML_TEST_HML", "MU_BR_HML_ADD_PGC", "MU_NONE", "MU_DIV_TEST_DIVIDEND_HI"}

\* decode_mucode_entry.  An index without a routine (division) is reported as
\* unreachable and does nothing but what base_entry_ does.
Entry(s) ==
  CASE s.idx = "MU_IND_IMM"              -> ind_1cyc_imm_(s)
    [] s.idx = "MU_IND_IMM_RM"           -> ind_1cyc_imm_rm_(s)
    [] s.idx = "MU_IND_REG"              -> ind_1cyc_reg_(s)
    [] s.idx = "MU_IND_REG_POST_AUTO"    -> ind_1cyc_reg_post_auto_(s)
    [] s.idx = "MU_IND_REG_AUTO"         -> ind_1cyc_reg_auto_(s)
    [] s.idx = "MU_IND_REG_WITH_IMM"     -> ind_2cyc_withimm_(s)
    [] s.idx = "MU_IND_IMM0"             -> ind_1cyc_imm0_(s)
    [] s.idx = "MU_IND_IMM_WITH_BITS"    -> ind_2cyc_imm_withbits_(s)
    [] s.idx = "MU_IND_REG_WITH_BITS"    -> ind_2cyc_reg_withbits_(s)
    [] s.idx = "MU_IND_PGC_WITH_IMM"     -> ind_2cyc_pgc_withimm_(s)
    [] s.idx = "MU_IND_PGC_WITH_IMM_RM"  -> ind_2cyc_pgc_withimm_rm_(s)
    [] s.idx = "MU_IND_DJNZ"             -> ind_1cyc_djnz_(s)
    [] s.idx = "MU_IND_MAR_AUTO"         -> ind_2cyc_mar_auto_(s)
    [] s.idx = "MU_IND_MAR_POST_AUTO"    -> ind_2cyc_mar_post_auto_(s)
    [] s.idx = "MU_POST_AUTOIDX"         -> after_autoidx_(s)
    [] s.idx = "MU_REPI"                 -> repi_(s)
    [] s.idx = "MU_REPR"                 -> repr_(s)
    [] s.idx = "MU_ADJUST_PGC"           -> adjust_pgc_(s)
    [] s.idx = "MU_MUL_LD_FACTOR_A"      -> mul_1cyc_ld_factor_a_(s)
    [] s.idx = "MU_MUL_LD_PRODUCT_LO"    -> mul_2cyc_ld_product_lo_(s)
    [] s.idx = "MU_MUL_LD_PRODUCT_HI"    -> mul_3cyc_ld_product_hi_(s)
    [] s.idx = "MU_MUL_LD_REPI"          -> mul_4cyc_ld_repi_(s)
    [] s.idx = "MU_MUL_SHIFT_PRODUCT_LO_LEFT" -> mul_ncyc_shift_product_lo_left_(s)
    [] s.idx = "MU_MUL_SHIFT_PRODUCT_HI_LEFT" -> mul_n1cyc_shift_product_hi_left_(s)
    [] s.idx = "MU_MUL_SHIFT_FACTOR_B_LEFT"   -> mul_n2cyc_shift_factor_b_left_(s)
    [] s.idx = "MU_MUL_ADD_PRODUCT_LO"   -> mul_n3cyc_add_product_lo_(s)
    [] s.idx = "MU_MUL_ADD_PRODUCT_HI"   -> mul_n4cyc_add_product_hi_(s)
    [] s.idx = "MU_MUL_LOOP"             -> mul_n5cyc_loop_(s)
    [] s.idx = "MU_PUSH_PGC_IND_SP_AUTO" -> push_pgc_1cyc_ind_sp_auto_(s)
    [] s.idx = "MU_PUSH_PGC_WR_PGC"      -> push_pgc_2cyc_wr_pgc_(s)
    [] s.idx = "MU_PUSH_WF_IND_SP_AUTO"  -> push_wf_1cyc_ind_sp_auto_(s)
    [] s.idx = "MU_PUSH_WF_WR_WF"        -> push_wf_2cyc_wr_wf_(s)
    [] s.idx = "MU_BR_MAR_COND"          -> br_mar_cond_(s)
    [] s.idx = "MU_BR_MAR"               -> br_mar_(s)
    [] s.idx = "MU_BR_HML_TEST_HML"      -> br_hml_1cyc_test_hml_(s)
    [] s.idx = "MU_BR_HML_ADD_PGC"       -> br_hml_2cyc_add_pgc_(s)
    [] OTHER                             -> Base(s)

\* decode_mucode_entry, tabulated over the entry specifications the decoder and
\* the microcode make.
EntrySpec ==
  [idx : MucodeEntries, sel : 0..31, size : {8, 16, 24}, write : BOOLEAN, suppress : BOOLEAN]

EntryOf == [s \in EntrySpec |-> Entry(s)]
=============================================================================
