------------------------------ MODULE TableProofs ------------------------------
(***************************************************************************)
(* Types of what the decoder and the microcode make: every instruction     *)
(* word, and every entry of every routine, has its well-formed control     *)
(* words and its successors among the entries of the table.                *)
(***************************************************************************)
EXTENDS Mucode, TLAPS

\* enum data latches, enum mem_latch_ctl, enum mem_write_ctl
Locations ==
  {"ZERO", "SIZE", "BITS", "CARRY", "NUM_BITS", "F", "WF", "IRL", "REPI", "REPR", "PGC", "SP", "R0",
   "FACTOR_A", "FACTOR_B", "MEM_ADDR", "MEM_DATA", "SFI_1", "SFI_2", "REG", "REG_REPR",
   "REG_IMM_1", "REG_IMM_2", "REG_RM_1", "REG_RM_2", "IMM_0", "IMM_1", "IMM_HML", "IMM_HML_RM",
   "RM_1", "RM_HML", "IMM_1_24", "RM_1_24"}
AuxLatches == {"LATCH_AUX_NONE", "LATCH_AUX_CLEAR", "LATCH_AUX_ZERO", "LATCH_AUX_CARRY"}
AddressLatches == {"MEM_NO_LATCH", "MEM_LATCH_HALF1", "MEM_LATCH_HALF2", "MEM_LATCH_HALF2_MAR"}
WriteControls ==
  {"MEM_READ", "MEM_WRITE_FROM_DEST", "MEM_WRITE_FROM_MDR", "MEM_WRITE_FROM_MDR_HIGH",
   "UNINITIALIZED"}

ControlWords ==
  [src1 : Locations, src2 : Locations, dest : Locations, alu : BOOLEAN, flags : BOOLEAN,
   aux : AuxLatches, latch : AddressLatches, write : WriteControls,
   suppress : BOOLEAN, wide : BOOLEAN]

DecodedEntries ==
  [operation : ControlWords, branch : BOOLEAN, branch_cond : 0..16,
   next : EntrySpec, next_no_branch : EntrySpec]

Repeats == {"MU_NONE", "MU_REPI", "MU_REPR"}

-----------------------------------------------------------------------------
\* The control word of base_entry_.
LEMMA IdleControlType == IdleControl \in ControlWords
  BY DEF IdleControl, ControlWords, Locations, AuxLatches, AddressLatches, WriteControls

\* The entry that runs nothing.
LEMMA NoEntryType == NoEntry \in EntrySpec
  BY DEF NoEntry, EntrySpec, MucodeEntries

\* What base_entry_ fills in.
LEMMA BaseType == \A s \in EntrySpec : Base(s) \in DecodedEntries
<1> SUFFICES ASSUME NEW s \in EntrySpec PROVE Base(s) \in DecodedEntries
  OBVIOUS
<1>1. BaseNext(s) \in EntrySpec
  BY DEF BaseNext, EntrySpec, MucodeEntries
<1>2. [IdleControl EXCEPT !.wide = s.size >= 16, !.suppress = s.suppress, !.write = "UNINITIALIZED"] \in ControlWords
  <2>1. (s.size >= 16) \in BOOLEAN /\ s.suppress \in BOOLEAN /\ "UNINITIALIZED" \in WriteControls
    BY DEF EntrySpec, WriteControls
  <2> QED
    BY <2>1, IdleControlType DEF ControlWords
<1> QED
  BY <1>1, <1>2 DEF Base, DecodedEntries, CondAlways

-----------------------------------------------------------------------------
\* Assigning one field of a record keeps it well formed, one lemma per record.
LEMMA SpecUpdates ==
  ASSUME NEW s \in EntrySpec
  PROVE  /\ \A x \in MucodeEntries : [s EXCEPT !.idx = x] \in EntrySpec
         /\ \A x \in 0..31 : [s EXCEPT !.sel = x] \in EntrySpec
         /\ \A x \in {8, 16, 24} : [s EXCEPT !.size = x] \in EntrySpec
         /\ \A x \in BOOLEAN : [s EXCEPT !.suppress = x] \in EntrySpec
  BY DEF EntrySpec

\* Writing one field of a control word.
LEMMA ControlUpdates ==
  ASSUME NEW c \in ControlWords
  PROVE  /\ \A x \in Locations : [c EXCEPT !.src1 = x] \in ControlWords
         /\ \A x \in Locations : [c EXCEPT !.src2 = x] \in ControlWords
         /\ \A x \in Locations : [c EXCEPT !.dest = x] \in ControlWords
         /\ \A x \in BOOLEAN : [c EXCEPT !.alu = x] \in ControlWords
         /\ \A x \in BOOLEAN : [c EXCEPT !.flags = x] \in ControlWords
         /\ \A x \in AuxLatches : [c EXCEPT !.aux = x] \in ControlWords
         /\ \A x \in AddressLatches : [c EXCEPT !.latch = x] \in ControlWords
         /\ \A x \in WriteControls : [c EXCEPT !.write = x] \in ControlWords
         /\ \A x \in BOOLEAN : [c EXCEPT !.suppress = x] \in ControlWords
         /\ \A x \in BOOLEAN : [c EXCEPT !.wide = x] \in ControlWords
  BY DEF ControlWords

\* Writing one field of a decoded entry, or of its parts.
LEMMA EntryUpdates ==
  ASSUME NEW e \in DecodedEntries
  PROVE  /\ \A x \in Locations : [e EXCEPT !.operation.src1 = x] \in DecodedEntries
         /\ \A x \in Locations : [e EXCEPT !.operation.src2 = x] \in DecodedEntries
         /\ \A x \in Locations : [e EXCEPT !.operation.dest = x] \in DecodedEntries
         /\ \A x \in BOOLEAN : [e EXCEPT !.operation.alu = x] \in DecodedEntries
         /\ \A x \in BOOLEAN : [e EXCEPT !.operation.flags = x] \in DecodedEntries
         /\ \A x \in AuxLatches : [e EXCEPT !.operation.aux = x] \in DecodedEntries
         /\ \A x \in AddressLatches : [e EXCEPT !.operation.latch = x] \in DecodedEntries
         /\ \A x \in WriteControls : [e EXCEPT !.operation.write = x] \in DecodedEntries
         /\ \A x \in BOOLEAN : [e EXCEPT !.operation.suppress = x] \in DecodedEntries
         /\ \A x \in BOOLEAN : [e EXCEPT !.branch = x] \in DecodedEntries
         /\ \A x \in 0..16 : [e EXCEPT !.branch_cond = x] \in DecodedEntries
         /\ \A x \in MucodeEntries : [e EXCEPT !.next.idx = x] \in DecodedEntries
         /\ \A x \in 0..31 : [e EXCEPT !.next.sel = x] \in DecodedEntries
         /\ \A x \in {8, 16, 24} : [e EXCEPT !.next.size = x] \in DecodedEntries
         /\ \A x \in BOOLEAN : [e EXCEPT !.next.suppress = x] \in DecodedEntries
         /\ \A x \in MucodeEntries : [e EXCEPT !.next_no_branch.idx = x] \in DecodedEntries
  BY ZenonT(60) DEF DecodedEntries, ControlWords, EntrySpec

-----------------------------------------------------------------------------
\* What a routine reads of its specification.
LEMMA FieldTypes ==
  ASSUME NEW s \in EntrySpec
  PROVE  /\ s.sel \in 0..31 /\ s.size \in {8, 16, 24} /\ s.write \in BOOLEAN
         /\ s.suppress \in BOOLEAN /\ s.idx \in MucodeEntries
         /\ s.sel % 16 \in 0..15
  BY DEF EntrySpec

\* The building blocks of the routines.
LEMMA IndirectType ==
  ASSUME NEW s \in EntrySpec, NEW src1 \in Locations
  PROVE  Indirect(s, src1) \in DecodedEntries
<1>1. (IF s.write THEN "MEM_WRITE_FROM_MDR" ELSE "MEM_READ") \in WriteControls
      /\ "MEM_LATCH_HALF1" \in AddressLatches
  BY DEF WriteControls, AddressLatches
<1> QED
  BY <1>1, BaseType, EntryUpdates DEF Indirect

\* An entry that computes.
LEMMA ComputingType ==
  ASSUME NEW s \in EntrySpec, NEW src1 \in Locations, NEW src2 \in Locations,
         NEW dest \in Locations, NEW idx \in MucodeEntries
  PROVE  Computing(s, src1, src2, dest, idx) \in DecodedEntries
  BY BaseType, EntryUpdates DEF Computing

\* A step of the multiplication.
LEMMA MulStepType ==
  ASSUME NEW s \in EntrySpec, NEW src1 \in Locations, NEW src2 \in Locations,
         NEW dest \in Locations, NEW idx \in MucodeEntries
  PROVE  MulStep(s, src1, src2, dest, idx) \in DecodedEntries
  BY ComputingType, EntryUpdates, FieldTypes DEF MulStep

\* An entry that adds two sources into an address.
LEMMA AddressSumType ==
  ASSUME NEW s \in EntrySpec, NEW src1 \in Locations, NEW src2 \in Locations
  PROVE  AddressSum(s, src1, src2) \in DecodedEntries
<1>1. "MEM_ADDR" \in Locations /\ "MEM_LATCH_HALF2" \in AddressLatches
  BY DEF Locations, AddressLatches
<1> QED
  BY <1>1, BaseType, EntryUpdates DEF AddressSum

\* An entry that pushes.
LEMMA PushType ==
  ASSUME NEW s \in EntrySpec, NEW src1 \in Locations
  PROVE  Push(s, src1) \in DecodedEntries
<1>1. "MEM_LATCH_HALF2_MAR" \in AddressLatches /\ "MEM_WRITE_FROM_DEST" \in WriteControls
  BY DEF WriteControls, AddressLatches
<1> QED
  BY <1>1, BaseType, EntryUpdates DEF Push

\* An entry that branches.
LEMMA BranchingType ==
  ASSUME NEW e \in DecodedEntries, NEW cond \in 0..16,
         NEW taken \in MucodeEntries, NEW not_taken \in MucodeEntries
  PROVE  Branching(e, cond, taken, not_taken) \in DecodedEntries
  BY EntryUpdates DEF Branching

\* An entry that calls the next.
LEMMA ThenCallType ==
  ASSUME NEW e \in DecodedEntries, NEW s
  PROVE  ThenCall(e, s) \in DecodedEntries
<1>1. "MU_PUSH_PGC_IND_SP_AUTO" \in MucodeEntries /\ "MU_NONE" \in MucodeEntries
  BY DEF MucodeEntries
<1> QED
  BY <1>1, EntryUpdates DEF ThenCall

-----------------------------------------------------------------------------
\* The routines, in groups.
LEMMA OperandRoutines ==
  ASSUME NEW s \in EntrySpec
  PROVE  /\ ind_1cyc_imm_(s) \in DecodedEntries
         /\ ind_1cyc_imm_rm_(s) \in DecodedEntries
         /\ ind_1cyc_imm0_(s) \in DecodedEntries
         /\ ind_1cyc_reg_(s) \in DecodedEntries
         /\ ind_1cyc_reg_post_auto_(s) \in DecodedEntries
         /\ ind_1cyc_reg_auto_(s) \in DecodedEntries
         /\ ind_2cyc_withimm_(s) \in DecodedEntries
         /\ after_autoidx_(s) \in DecodedEntries
         /\ ind_2cyc_imm_withbits_(s) \in DecodedEntries
         /\ ind_2cyc_reg_withbits_(s) \in DecodedEntries
         /\ ind_2cyc_pgc_withimm_(s) \in DecodedEntries
         /\ ind_2cyc_pgc_withimm_rm_(s) \in DecodedEntries
         /\ ind_2cyc_mar_auto_(s) \in DecodedEntries
         /\ ind_2cyc_mar_post_auto_(s) \in DecodedEntries
<1>1. {"IMM_0", "IMM_1", "IMM_1_24", "RM_1", "RM_1_24", "REG", "SIZE", "PGC", "RM_HML", "REG_RM_2", "IMM_HML_RM",
       "REG_IMM_2", "REG_RM_1", "REG_IMM_1", "MEM_ADDR"} \subseteq Locations
  BY DEF Locations
<1>2. /\ {"MU_POST_AUTOIDX", "MU_IND_MAR_POST_AUTO", "MU_NONE"} \subseteq MucodeEntries
      /\ {"MEM_LATCH_HALF2", "MEM_NO_LATCH"} \subseteq AddressLatches
  BY DEF MucodeEntries, AddressLatches
<1>3. (IF s.write THEN "MEM_WRITE_FROM_MDR_HIGH" ELSE "MEM_READ") \in WriteControls
  BY DEF WriteControls
<1>4. ind_1cyc_reg_(s) \in DecodedEntries
  BY <1>1, IndirectType DEF ind_1cyc_reg_
<1>5. ind_2cyc_mar_auto_(s) \in DecodedEntries
  BY <1>1, <1>2, <1>3, BaseType, EntryUpdates DEF ind_2cyc_mar_auto_
<1>6. /\ ind_1cyc_imm_(s) \in DecodedEntries
      /\ ind_1cyc_imm_rm_(s) \in DecodedEntries
      /\ ind_1cyc_imm0_(s) \in DecodedEntries
  BY <1>1, IndirectType DEF ind_1cyc_imm_, ind_1cyc_imm_rm_, ind_1cyc_imm0_, LatchOfSize
<1>7. /\ ind_2cyc_imm_withbits_(s) \in DecodedEntries
      /\ ind_2cyc_reg_withbits_(s) \in DecodedEntries
      /\ ind_2cyc_pgc_withimm_(s) \in DecodedEntries
      /\ ind_2cyc_pgc_withimm_rm_(s) \in DecodedEntries
  BY <1>1, AddressSumType
  DEF ind_2cyc_imm_withbits_, ind_2cyc_reg_withbits_, ind_2cyc_pgc_withimm_,
      ind_2cyc_pgc_withimm_rm_, LatchOfSize
<1>8. /\ ind_1cyc_reg_post_auto_(s) \in DecodedEntries
      /\ ind_1cyc_reg_auto_(s) \in DecodedEntries
      /\ after_autoidx_(s) \in DecodedEntries
  BY <1>1, <1>2, <1>4, EntryUpdates
  DEF ind_1cyc_reg_post_auto_, ind_1cyc_reg_auto_, after_autoidx_
<1>9. ind_2cyc_withimm_(s) \in DecodedEntries
  BY <1>1, <1>4, EntryUpdates DEF ind_2cyc_withimm_
<1>10. ind_2cyc_mar_post_auto_(s) \in DecodedEntries
  BY <1>2, <1>5, EntryUpdates DEF ind_2cyc_mar_post_auto_
<1> QED
  BY <1>4, <1>5, <1>6, <1>7, <1>8, <1>9, <1>10

\* The loop counters and the multiplication.
LEMMA CounterRoutines ==
  ASSUME NEW s \in EntrySpec
  PROVE  /\ repi_(s) \in DecodedEntries
         /\ repr_(s) \in DecodedEntries
         /\ adjust_pgc_(s) \in DecodedEntries
         /\ mul_1cyc_ld_factor_a_(s) \in DecodedEntries
         /\ mul_2cyc_ld_product_lo_(s) \in DecodedEntries
         /\ mul_3cyc_ld_product_hi_(s) \in DecodedEntries
         /\ mul_4cyc_ld_repi_(s) \in DecodedEntries
         /\ mul_ncyc_shift_product_lo_left_(s) \in DecodedEntries
         /\ mul_n1cyc_shift_product_hi_left_(s) \in DecodedEntries
         /\ mul_n2cyc_shift_factor_b_left_(s) \in DecodedEntries
         /\ mul_n3cyc_add_product_lo_(s) \in DecodedEntries
         /\ mul_n4cyc_add_product_hi_(s) \in DecodedEntries
         /\ mul_n5cyc_loop_(s) \in DecodedEntries
<1>1. {"REPI", "ZERO", "REG_REPR", "PGC", "SIZE", "REG", "FACTOR_A", "FACTOR_B", "R0", "NUM_BITS",
       "CARRY"} \subseteq Locations
  BY DEF Locations
<1>2. {"MU_NONE", "MU_MUL_LD_PRODUCT_LO", "MU_MUL_LD_PRODUCT_HI", "MU_MUL_LD_REPI",
       "MU_MUL_SHIFT_PRODUCT_LO_LEFT", "MU_MUL_SHIFT_PRODUCT_HI_LEFT",
       "MU_MUL_SHIFT_FACTOR_B_LEFT", "MU_MUL_ADD_PRODUCT_LO", "MU_MUL_ADD_PRODUCT_HI",
       "MU_MUL_LOOP"} \subseteq MucodeEntries
  BY DEF MucodeEntries
<1>3. {"LATCH_AUX_ZERO", "LATCH_AUX_CARRY", "LATCH_AUX_CLEAR"} \subseteq AuxLatches
  BY DEF AuxLatches
<1>4. repi_(s) \in DecodedEntries
  BY <1>1, <1>2, <1>3, ComputingType, EntryUpdates DEF repi_
<1>5. /\ repr_(s) \in DecodedEntries /\ adjust_pgc_(s) \in DecodedEntries
      /\ mul_4cyc_ld_repi_(s) \in DecodedEntries
  BY <1>1, <1>2, ComputingType DEF repr_, adjust_pgc_, mul_4cyc_ld_repi_
<1>6. /\ mul_1cyc_ld_factor_a_(s) \in DecodedEntries
      /\ mul_2cyc_ld_product_lo_(s) \in DecodedEntries
      /\ mul_3cyc_ld_product_hi_(s) \in DecodedEntries
  BY <1>1, <1>2, MulStepType
  DEF mul_1cyc_ld_factor_a_, mul_2cyc_ld_product_lo_, mul_3cyc_ld_product_hi_
<1>7. /\ mul_ncyc_shift_product_lo_left_(s) \in DecodedEntries
      /\ mul_n1cyc_shift_product_hi_left_(s) \in DecodedEntries
      /\ mul_n2cyc_shift_factor_b_left_(s) \in DecodedEntries
  BY <1>1, <1>2, <1>3, MulStepType, EntryUpdates
  DEF Carrying, mul_ncyc_shift_product_lo_left_, mul_n1cyc_shift_product_hi_left_,
      mul_n2cyc_shift_factor_b_left_
<1>8. /\ mul_n3cyc_add_product_lo_(s) \in DecodedEntries
      /\ mul_n4cyc_add_product_hi_(s) \in DecodedEntries
  BY <1>1, <1>2, <1>3, MulStepType, EntryUpdates
  DEF mul_n3cyc_add_product_lo_, mul_n4cyc_add_product_hi_
<1>9. mul_n5cyc_loop_(s) \in DecodedEntries
  <2>1. Branching(repi_(s), CondDjnz, "MU_MUL_SHIFT_PRODUCT_LO_LEFT", "MU_NONE") \in DecodedEntries
    BY <1>2, <1>4, BranchingType DEF CondDjnz
  <2>2. s.sel % 16 \in 0..31 /\ s.size \in {8, 16, 24}
    BY FieldTypes
  <2> QED
    BY <2>1, <2>2, EntryUpdates DEF mul_n5cyc_loop_
<1> QED
  BY <1>4, <1>5, <1>6, <1>7, <1>8, <1>9

\* The routines that push and the routines that branch.
LEMMA StackAndBranchRoutines ==
  ASSUME NEW s \in EntrySpec
  PROVE  /\ push_pgc_1cyc_ind_sp_auto_(s) \in DecodedEntries
         /\ push_pgc_2cyc_wr_pgc_(s) \in DecodedEntries
         /\ push_wf_1cyc_ind_sp_auto_(s) \in DecodedEntries
         /\ push_wf_2cyc_wr_wf_(s) \in DecodedEntries
         /\ ind_1cyc_djnz_(s) \in DecodedEntries
         /\ br_mar_cond_(s) \in DecodedEntries
         /\ br_mar_(s) \in DecodedEntries
         /\ br_hml_1cyc_test_hml_(s) \in DecodedEntries
         /\ br_hml_2cyc_add_pgc_(s) \in DecodedEntries
<1>1. /\ {"PGC", "WF", "SP", "IMM_0", "MEM_ADDR"} \subseteq Locations
      /\ {"LATCH_AUX_ZERO", "LATCH_AUX_CLEAR"} \subseteq AuxLatches
      /\ {"MU_PUSH_PGC_WR_PGC", "MU_PUSH_WF_WR_WF", "MU_BR_MAR", "MU_NONE", "MU_BR_HML_ADD_PGC"}
           \subseteq MucodeEntries
  BY DEF Locations, AuxLatches, MucodeEntries
<1>2. CondDjnz \in 0..16 /\ s.sel % 16 \in 0..16
  BY FieldTypes DEF CondDjnz
<1>3. /\ push_pgc_1cyc_ind_sp_auto_(s) \in DecodedEntries
      /\ push_wf_1cyc_ind_sp_auto_(s) \in DecodedEntries
  BY <1>1, OperandRoutines, EntryUpdates
  DEF push_pgc_1cyc_ind_sp_auto_, push_wf_1cyc_ind_sp_auto_, Predecrement
<1>4. push_pgc_2cyc_wr_pgc_(s) \in DecodedEntries /\ push_wf_2cyc_wr_wf_(s) \in DecodedEntries
  BY <1>1, PushType DEF push_pgc_2cyc_wr_pgc_, push_wf_2cyc_wr_wf_
<1>5. ind_1cyc_djnz_(s) \in DecodedEntries
  <2>1. [Base(s) EXCEPT !.operation.src1 = "PGC", !.operation.src2 = "IMM_0",
                        !.operation.alu = TRUE, !.operation.dest = "MEM_ADDR"] \in DecodedEntries
    BY <1>1, BaseType, EntryUpdates
  <2> QED
    BY <1>1, <1>2, <2>1, BranchingType DEF ind_1cyc_djnz_
<1>6. br_mar_cond_(s) \in DecodedEntries
  BY <1>1, <1>2, BaseType, BranchingType DEF br_mar_cond_
<1>7. br_mar_(s) \in DecodedEntries
  <2>1. [Base(s) EXCEPT !.operation.src1 = "MEM_ADDR", !.operation.dest = "PGC",
                        !.operation.alu = TRUE] \in DecodedEntries
    BY <1>1, BaseType, EntryUpdates
  <2> QED
    BY <2>1, ThenCallType DEF br_mar_
<1>8. br_hml_1cyc_test_hml_(s) \in DecodedEntries
  <2>1. [Base(s) EXCEPT !.operation.src1 = "MEM_ADDR", !.operation.alu = TRUE,
                        !.operation.aux = "LATCH_AUX_ZERO"] \in DecodedEntries
    BY <1>1, BaseType, EntryUpdates
  <2> QED
    BY <1>1, <1>2, <2>1, BranchingType DEF br_hml_1cyc_test_hml_
<1>9. br_hml_2cyc_add_pgc_(s) \in DecodedEntries
  <2>1. [Base(s) EXCEPT !.operation.src1 = "PGC", !.operation.src2 = "MEM_ADDR",
                        !.operation.dest = "PGC", !.operation.alu = TRUE,
                        !.operation.aux = "LATCH_AUX_CLEAR"] \in DecodedEntries
    BY <1>1, BaseType, EntryUpdates
  <2> QED
    BY <2>1, ThenCallType DEF br_hml_2cyc_add_pgc_
<1> QED
  BY <1>3, <1>4, <1>5, <1>6, <1>7, <1>8, <1>9

\* Every entry of the table is one, and so are its successors.
THEOREM EntryType == \A s \in EntrySpec : EntryOf[s] \in DecodedEntries
<1> SUFFICES ASSUME NEW s \in EntrySpec PROVE Entry(s) \in DecodedEntries
  BY DEF EntryOf
<1> QED
  BY BaseType, OperandRoutines, CounterRoutines, StackAndBranchRoutines DEF Entry

-----------------------------------------------------------------------------
(***************************************************************************)
(* What follows an entry.  Most have one successor; those of DJNZ and MUL  *)
(* may go back to their beginning, and a conditional branch may be the     *)
(* last of its routine or not, as its condition decides.  A routine is     *)
(* straight when none of its entries is one of those.                      *)
(***************************************************************************)
\* The entries of DJNZ and MUL.
Looping ==
  {"MU_IND_DJNZ", "MU_MUL_LD_FACTOR_A", "MU_MUL_LD_PRODUCT_LO", "MU_MUL_LD_PRODUCT_HI",
   "MU_MUL_LD_REPI", "MU_MUL_SHIFT_PRODUCT_LO_LEFT", "MU_MUL_SHIFT_PRODUCT_HI_LEFT",
   "MU_MUL_SHIFT_FACTOR_B_LEFT", "MU_MUL_ADD_PRODUCT_LO", "MU_MUL_ADD_PRODUCT_HI", "MU_MUL_LOOP"}
Unconditional == {CondAlways, CondCall}
Straight(s) ==
  /\ s.idx \notin Looping
  /\ s.idx = "MU_BR_MAR_COND" => s.sel % 16 \in Unconditional
Plain == MucodeEntries \ (Looping \cup {"MU_BR_MAR_COND"})

\* An entry with one successor.
GoesOn(e) == e \in DecodedEntries /\ ~e.branch /\ e.next.idx \in Plain

\* base_entry_ goes on,
LEMMA BaseGoesOn == ASSUME NEW s \in EntrySpec PROVE GoesOn(Base(s))
<1>1. BaseNext(s).idx \in Plain
  BY DEF BaseNext, Plain, MucodeEntries, Looping, EntrySpec
<1> QED
  BY <1>1, BaseType DEF GoesOn, Base

\* and so does an entry when one field is written, but not next with an entry that loops.
LEMMA GoesOnUpdates ==
  ASSUME NEW e, GoesOn(e)
  PROVE  /\ \A x \in Locations : GoesOn([e EXCEPT !.operation.src1 = x])
         /\ \A x \in Locations : GoesOn([e EXCEPT !.operation.src2 = x])
         /\ \A x \in Locations : GoesOn([e EXCEPT !.operation.dest = x])
         /\ \A x \in BOOLEAN : GoesOn([e EXCEPT !.operation.alu = x])
         /\ \A x \in AuxLatches : GoesOn([e EXCEPT !.operation.aux = x])
         /\ \A x \in AddressLatches : GoesOn([e EXCEPT !.operation.latch = x])
         /\ \A x \in WriteControls : GoesOn([e EXCEPT !.operation.write = x])
         /\ \A x \in BOOLEAN : GoesOn([e EXCEPT !.operation.suppress = x])
         /\ \A x \in Plain : GoesOn([e EXCEPT !.next.idx = x])
         /\ \A x \in {8, 16, 24} : GoesOn([e EXCEPT !.next.size = x])
         /\ \A x \in BOOLEAN : GoesOn([e EXCEPT !.next.suppress = x])
         /\ \A x \in MucodeEntries : GoesOn([e EXCEPT !.next_no_branch.idx = x])
<1>1. e \in DecodedEntries /\ ~e.branch /\ e.next.idx \in Plain /\ e.next \in EntrySpec
      /\ Plain \subseteq MucodeEntries
  BY DEF GoesOn, DecodedEntries, Plain
<1>2. /\ \A x : [e EXCEPT !.operation.src1 = x].branch = e.branch
      /\ \A x : [e EXCEPT !.operation.src2 = x].branch = e.branch
      /\ \A x : [e EXCEPT !.operation.dest = x].branch = e.branch
      /\ \A x : [e EXCEPT !.operation.alu = x].branch = e.branch
      /\ \A x : [e EXCEPT !.operation.aux = x].branch = e.branch
      /\ \A x : [e EXCEPT !.operation.latch = x].branch = e.branch
      /\ \A x : [e EXCEPT !.operation.write = x].branch = e.branch
      /\ \A x : [e EXCEPT !.operation.suppress = x].branch = e.branch
      /\ \A x : [e EXCEPT !.next.idx = x].branch = e.branch
      /\ \A x : [e EXCEPT !.next.size = x].branch = e.branch
      /\ \A x : [e EXCEPT !.next.suppress = x].branch = e.branch
      /\ \A x : [e EXCEPT !.next_no_branch.idx = x].branch = e.branch
  BY <1>1 DEF DecodedEntries
<1>3. /\ \A x : [e EXCEPT !.operation.src1 = x].next = e.next
      /\ \A x : [e EXCEPT !.operation.src2 = x].next = e.next
      /\ \A x : [e EXCEPT !.operation.dest = x].next = e.next
      /\ \A x : [e EXCEPT !.operation.alu = x].next = e.next
      /\ \A x : [e EXCEPT !.operation.aux = x].next = e.next
      /\ \A x : [e EXCEPT !.operation.latch = x].next = e.next
      /\ \A x : [e EXCEPT !.operation.write = x].next = e.next
      /\ \A x : [e EXCEPT !.operation.suppress = x].next = e.next
      /\ \A x : [e EXCEPT !.next_no_branch.idx = x].next = e.next
  BY <1>1 DEF DecodedEntries
<1>4. /\ \A x : [e EXCEPT !.next.idx = x].next.idx = x
      /\ \A x : [e EXCEPT !.next.size = x].next.idx = e.next.idx
      /\ \A x : [e EXCEPT !.next.suppress = x].next.idx = e.next.idx
  BY <1>1 DEF DecodedEntries, EntrySpec
<1> QED
  BY <1>1, <1>2, <1>3, <1>4, EntryUpdates DEF GoesOn

\* The blocks that the routines are built from.
LEMMA BlocksGoOn ==
  ASSUME NEW s \in EntrySpec
  PROVE  /\ \A src1 \in Locations : GoesOn(Indirect(s, src1)) /\ GoesOn(Push(s, src1))
         /\ \A src1, src2 \in Locations : GoesOn(AddressSum(s, src1, src2))
         /\ \A src1, src2, dest \in Locations, idx \in Plain : GoesOn(Computing(s, src1, src2, dest, idx))
         /\ \A e : GoesOn(e) => GoesOn(ThenCall(e, s))
<1>1. /\ {"MEM_LATCH_HALF1", "MEM_LATCH_HALF2", "MEM_LATCH_HALF2_MAR"} \subseteq AddressLatches
      /\ {"MEM_WRITE_FROM_MDR", "MEM_READ", "MEM_WRITE_FROM_DEST"} \subseteq WriteControls
      /\ "MEM_ADDR" \in Locations
  BY DEF AddressLatches, WriteControls, Locations
<1>2. "MU_PUSH_PGC_IND_SP_AUTO" \in Plain /\ "MU_NONE" \in MucodeEntries
  BY DEF Plain, MucodeEntries, Looping
<1>3. ASSUME NEW src1 \in Locations PROVE GoesOn(Indirect(s, src1)) /\ GoesOn(Push(s, src1))
  BY <1>1, BaseGoesOn, GoesOnUpdates DEF Indirect, Push
<1>4. ASSUME NEW src1 \in Locations, NEW src2 \in Locations PROVE GoesOn(AddressSum(s, src1, src2))
  BY <1>1, BaseGoesOn, GoesOnUpdates DEF AddressSum
<1>5. ASSUME NEW src1 \in Locations, NEW src2 \in Locations, NEW dest \in Locations, NEW idx \in Plain
      PROVE  GoesOn(Computing(s, src1, src2, dest, idx))
  BY BaseGoesOn, GoesOnUpdates DEF Computing
<1>6. ASSUME NEW e, GoesOn(e) PROVE GoesOn(ThenCall(e, s))
  BY <1>2, <1>6, GoesOnUpdates DEF ThenCall
<1> QED
  BY <1>3, <1>4, <1>5, <1>6

\* The routines with operands.
LEMMA OperandsGoOn ==
  ASSUME NEW s \in EntrySpec
  PROVE  /\ GoesOn(ind_1cyc_imm_(s)) /\ GoesOn(ind_1cyc_imm_rm_(s)) /\ GoesOn(ind_1cyc_imm0_(s))
         /\ GoesOn(ind_1cyc_reg_(s)) /\ GoesOn(ind_1cyc_reg_post_auto_(s))
         /\ GoesOn(ind_1cyc_reg_auto_(s)) /\ GoesOn(ind_2cyc_withimm_(s)) /\ GoesOn(after_autoidx_(s))
         /\ GoesOn(ind_2cyc_imm_withbits_(s)) /\ GoesOn(ind_2cyc_reg_withbits_(s))
         /\ GoesOn(ind_2cyc_pgc_withimm_(s)) /\ GoesOn(ind_2cyc_pgc_withimm_rm_(s))
         /\ GoesOn(ind_2cyc_mar_auto_(s)) /\ GoesOn(ind_2cyc_mar_post_auto_(s))
<1>1. {"IMM_0", "IMM_1", "IMM_1_24", "RM_1", "RM_1_24", "REG", "SIZE", "PGC", "RM_HML", "REG_RM_2", "IMM_HML_RM",
       "REG_IMM_2", "REG_RM_1", "REG_IMM_1", "MEM_ADDR"} \subseteq Locations
  BY DEF Locations
<1>2. /\ {"MU_POST_AUTOIDX", "MU_IND_MAR_POST_AUTO", "MU_NONE"} \subseteq Plain
      /\ {"MEM_LATCH_HALF2", "MEM_NO_LATCH"} \subseteq AddressLatches
  BY DEF Plain, Looping, MucodeEntries, AddressLatches
<1>3. (IF s.write THEN "MEM_WRITE_FROM_MDR_HIGH" ELSE "MEM_READ") \in WriteControls
  BY DEF WriteControls
<1>4. GoesOn(ind_1cyc_reg_(s))
  BY <1>1, BlocksGoOn DEF ind_1cyc_reg_
<1>5. GoesOn(ind_2cyc_mar_auto_(s))
  BY <1>1, <1>2, <1>3, BaseGoesOn, GoesOnUpdates DEF ind_2cyc_mar_auto_
<1>6. GoesOn(ind_1cyc_imm_(s)) /\ GoesOn(ind_1cyc_imm_rm_(s)) /\ GoesOn(ind_1cyc_imm0_(s))
  BY <1>1, BlocksGoOn DEF ind_1cyc_imm_, ind_1cyc_imm_rm_, ind_1cyc_imm0_, LatchOfSize
<1>7. /\ GoesOn(ind_2cyc_imm_withbits_(s)) /\ GoesOn(ind_2cyc_reg_withbits_(s))
      /\ GoesOn(ind_2cyc_pgc_withimm_(s)) /\ GoesOn(ind_2cyc_pgc_withimm_rm_(s))
  BY <1>1, BlocksGoOn
  DEF ind_2cyc_imm_withbits_, ind_2cyc_reg_withbits_, ind_2cyc_pgc_withimm_,
      ind_2cyc_pgc_withimm_rm_, LatchOfSize
<1>8. /\ GoesOn(ind_1cyc_reg_post_auto_(s)) /\ GoesOn(ind_1cyc_reg_auto_(s))
      /\ GoesOn(after_autoidx_(s))
  BY <1>1, <1>2, <1>4, GoesOnUpdates
  DEF ind_1cyc_reg_post_auto_, ind_1cyc_reg_auto_, after_autoidx_
<1>9. GoesOn(ind_2cyc_withimm_(s))
  BY <1>1, <1>4, GoesOnUpdates DEF ind_2cyc_withimm_
<1>10. GoesOn(ind_2cyc_mar_post_auto_(s))
  BY <1>2, <1>5, GoesOnUpdates DEF ind_2cyc_mar_post_auto_
<1> QED
  BY <1>4, <1>5, <1>6, <1>7, <1>8, <1>9, <1>10

\* The counters, the pushes and the branches that are taken.
LEMMA OthersGoOn ==
  ASSUME NEW s \in EntrySpec
  PROVE  /\ GoesOn(repi_(s)) /\ GoesOn(repr_(s)) /\ GoesOn(adjust_pgc_(s))
         /\ GoesOn(push_pgc_1cyc_ind_sp_auto_(s)) /\ GoesOn(push_pgc_2cyc_wr_pgc_(s))
         /\ GoesOn(push_wf_1cyc_ind_sp_auto_(s)) /\ GoesOn(push_wf_2cyc_wr_wf_(s))
         /\ GoesOn(br_mar_(s)) /\ GoesOn(br_hml_2cyc_add_pgc_(s))
<1>1. /\ {"REPI", "REG_REPR", "SIZE", "ZERO", "PGC", "WF", "SP", "MEM_ADDR"} \subseteq Locations
      /\ {"LATCH_AUX_ZERO", "LATCH_AUX_CLEAR"} \subseteq AuxLatches
      /\ {"MU_PUSH_PGC_WR_PGC", "MU_PUSH_WF_WR_WF", "MU_NONE"} \subseteq Plain
  BY DEF Locations, AuxLatches, Plain, Looping, MucodeEntries
<1>2. GoesOn(repi_(s)) /\ GoesOn(repr_(s)) /\ GoesOn(adjust_pgc_(s))
  BY <1>1, BlocksGoOn, GoesOnUpdates DEF repi_, repr_, adjust_pgc_
<1>3. GoesOn(push_pgc_1cyc_ind_sp_auto_(s)) /\ GoesOn(push_wf_1cyc_ind_sp_auto_(s))
  BY <1>1, OperandsGoOn, GoesOnUpdates
  DEF push_pgc_1cyc_ind_sp_auto_, push_wf_1cyc_ind_sp_auto_, Predecrement
<1>4. GoesOn(push_pgc_2cyc_wr_pgc_(s)) /\ GoesOn(push_wf_2cyc_wr_wf_(s))
  BY <1>1, BlocksGoOn DEF push_pgc_2cyc_wr_pgc_, push_wf_2cyc_wr_wf_
<1>5. GoesOn(br_mar_(s))
  <2>1. GoesOn([Base(s) EXCEPT !.operation.src1 = "MEM_ADDR", !.operation.dest = "PGC",
                               !.operation.alu = TRUE])
    BY <1>1, BaseGoesOn, GoesOnUpdates
  <2> QED
    BY <2>1, BlocksGoOn DEF br_mar_
<1>6. GoesOn(br_hml_2cyc_add_pgc_(s))
  <2>1. GoesOn([Base(s) EXCEPT !.operation.src1 = "PGC", !.operation.src2 = "MEM_ADDR",
                               !.operation.dest = "PGC", !.operation.alu = TRUE,
                               !.operation.aux = "LATCH_AUX_CLEAR"])
    BY <1>1, BaseGoesOn, GoesOnUpdates
  <2> QED
    BY <2>1, BlocksGoOn DEF br_hml_2cyc_add_pgc_
<1> QED
  BY <1>2, <1>3, <1>4, <1>5, <1>6

\* So an entry that neither loops nor branches has one successor.
LEMMA PlainGoesOn ==
  ASSUME NEW s \in EntrySpec, s.idx \in Plain, s.idx # "MU_BR_HML_TEST_HML"
  PROVE  GoesOn(EntryOf[s])
<1>1. s.idx \notin Looping /\ s.idx # "MU_BR_MAR_COND"
  BY DEF Plain
<1>2. GoesOn(Entry(s))
  BY <1>1, BaseGoesOn, OperandsGoOn, OthersGoOn DEF Entry, Looping
<1> QED
  BY <1>2 DEF EntryOf

\* The repeat counters are one entry each.
LEMMA RepeatEnds ==
  ASSUME NEW s \in EntrySpec, s.idx \in {"MU_REPI", "MU_REPR"}
  PROVE  EntryOf[s].next.idx = "MU_NONE"
<1>1. \A src1, src2, dest : Computing(s, src1, src2, dest, "MU_NONE").next.idx = "MU_NONE"
  BY BaseType DEF Computing, DecodedEntries, EntrySpec
<1>2. repi_(s).next.idx = "MU_NONE"
  <2>1. {"REPI", "ZERO"} \subseteq Locations /\ "MU_NONE" \in MucodeEntries
    BY DEF Locations, MucodeEntries
  <2>2. Computing(s, "REPI", "ZERO", "REPI", "MU_NONE") \in DecodedEntries
    BY <2>1, ComputingType
  <2> QED
    BY <1>1, <2>2 DEF repi_, DecodedEntries
<1>3. repr_(s).next.idx = "MU_NONE"
  BY <1>1 DEF repr_
<1>4. Entry(s) = IF s.idx = "MU_REPI" THEN repi_(s) ELSE repr_(s)
  BY DEF Entry
<1> QED
  BY <1>2, <1>3, <1>4 DEF EntryOf

\* A control word that fetches no operand with an index.
NoIndex(c) == {c.src1, c.src2} \cap {"REG_IMM_2", "REG_RM_2"} = {}

\* What makes an entry branch.
LEMMA BranchingFacts ==
  ASSUME NEW e \in DecodedEntries, NEW cond, NEW taken, NEW not_taken,
         NEW b, b = Branching(e, cond, taken, not_taken)
  PROVE  /\ b.branch_cond = cond /\ b.operation = e.operation
         /\ b.next.idx = taken /\ b.next_no_branch.idx = not_taken
  BY DEF Branching, DecodedEntries, EntrySpec

\* A straight entry is followed by straight ones; when it branches there is one to go to.
LEMMA StraightEntry ==
  ASSUME NEW s \in EntrySpec, Straight(s)
  PROVE  LET e == EntryOf[s] IN
         /\ e \in DecodedEntries /\ e.next.idx \in Plain
         /\ e.branch => /\ e.next.idx # "MU_NONE" /\ NoIndex(e.operation)
                        /\ \/ e.branch_cond \in Unconditional
                           \/ e.next_no_branch.idx \in Plain \ {"MU_NONE"}
<1> DEFINE e == EntryOf[s]
<1>1. e \in DecodedEntries
  BY EntryType
<1>2. {"MU_BR_HML_ADD_PGC", "MU_BR_MAR"} \subseteq Plain \ {"MU_NONE"}
  BY DEF Plain, MucodeEntries, Looping
<1>3. /\ Base(s) \in DecodedEntries
      /\ Base(s).operation.src1 = "ZERO" /\ Base(s).operation.src2 = "ZERO"
  <2>1. Base(s).operation = [IdleControl EXCEPT !.wide = s.size >= 16, !.suppress = s.suppress,
                                                !.write = "UNINITIALIZED"]
    BY DEF Base
  <2> QED
    BY <2>1, BaseType DEF IdleControl
<1>4. CASE s.idx = "MU_BR_HML_TEST_HML"
  <2> DEFINE b == [Base(s) EXCEPT !.operation.src1 = "MEM_ADDR", !.operation.alu = TRUE,
                                  !.operation.aux = "LATCH_AUX_ZERO"]
  <2>1. b \in DecodedEntries
    BY <1>3, EntryUpdates DEF Locations, AuxLatches
  <2>2. b.operation.src1 = "MEM_ADDR" /\ b.operation.src2 = "ZERO"
    BY <1>3 DEF DecodedEntries, ControlWords
  <2> HIDE DEF b
  <2>3. e = Branching(b, CondDjnz, "MU_BR_HML_ADD_PGC", "MU_BR_MAR")
    BY <1>4 DEF EntryOf, Entry, br_hml_1cyc_test_hml_, b
  <2>4. /\ e.operation = b.operation
        /\ e.next.idx = "MU_BR_HML_ADD_PGC" /\ e.next_no_branch.idx = "MU_BR_MAR"
    BY <2>1, <2>3, BranchingFacts
  <2> QED
    BY <1>1, <1>2, <2>2, <2>4 DEF NoIndex
<1>5. CASE s.idx = "MU_BR_MAR_COND"
  <2>1. e = Branching(Base(s), s.sel % 16, "MU_BR_MAR", "MU_NONE")
    BY <1>5 DEF EntryOf, Entry, br_mar_cond_
  <2>2. /\ e.operation = Base(s).operation /\ e.next.idx = "MU_BR_MAR"
        /\ e.branch_cond = s.sel % 16
    BY <1>3, <2>1, BranchingFacts
  <2>3. s.sel % 16 \in Unconditional
    BY <1>5 DEF Straight
  <2> QED
    BY <1>1, <1>2, <1>3, <2>2, <2>3 DEF NoIndex
<1>6. CASE s.idx \notin {"MU_BR_HML_TEST_HML", "MU_BR_MAR_COND"}
  <2>1. s.idx \in Plain
    BY <1>6 DEF Straight, Plain, EntrySpec
  <2>2. GoesOn(e)
    BY <1>6, <2>1, PlainGoesOn
  <2> QED
    BY <2>2 DEF GoesOn
<1> QED
  BY <1>4, <1>5, <1>6

\* An entry of the table that is plain is straight.
LEMMA PlainIsStraight == ASSUME NEW s, s.idx \in Plain PROVE Straight(s)
  BY DEF Plain, Straight

-----------------------------------------------------------------------------
(***************************************************************************)
(* What the decoder makes of an opcode.  The name is not in the program    *)
(* and the numbers of words and operands matter to other components only.  *)
(***************************************************************************)
WellFormed(w) ==
  w \in [name : {w.name}, words : {w.words}, rm_ops : {w.rm_ops}, rm2_offset : {w.rm2_offset},
         predict : {w.predict}, before : EntrySpec, core : ControlWords, after : EntrySpec,
         repeat : Repeats, illegal : BOOLEAN, restart : BOOLEAN, disable_clk : BOOLEAN]

\* Writing one field of a decoded word.
LEMMA WordUpdates ==
  ASSUME NEW w, WellFormed(w)
  PROVE  /\ \A x : WellFormed([w EXCEPT !.name = x]) /\ WellFormed([w EXCEPT !.words = x])
         /\ \A x : WellFormed([w EXCEPT !.rm_ops = x]) /\ WellFormed([w EXCEPT !.rm2_offset = x])
         /\ \A x : WellFormed([w EXCEPT !.predict = x])
         /\ \A x \in EntrySpec : WellFormed([w EXCEPT !.before = x]) /\ WellFormed([w EXCEPT !.after = x])
         /\ \A x \in ControlWords : WellFormed([w EXCEPT !.core = x])
         /\ \A x \in Repeats : WellFormed([w EXCEPT !.repeat = x])
         /\ \A x \in BOOLEAN : WellFormed([w EXCEPT !.illegal = x]) /\ WellFormed([w EXCEPT !.restart = x])
         /\ \A x \in BOOLEAN : WellFormed([w EXCEPT !.disable_clk = x])
  BY DEF WellFormed

\* The same one level down, in its control word and its entries.
LEMMA WordFieldUpdates ==
  ASSUME NEW w, WellFormed(w)
  PROVE  /\ \A x \in Locations : WellFormed([w EXCEPT !.core.src1 = x])
         /\ \A x \in Locations : WellFormed([w EXCEPT !.core.src2 = x])
         /\ \A x \in Locations : WellFormed([w EXCEPT !.core.dest = x])
         /\ \A x \in BOOLEAN : WellFormed([w EXCEPT !.core.alu = x])
         /\ \A x \in BOOLEAN : WellFormed([w EXCEPT !.core.flags = x])
         /\ \A x \in BOOLEAN : WellFormed([w EXCEPT !.core.suppress = x])
         /\ \A x \in AuxLatches : WellFormed([w EXCEPT !.core.aux = x])
         /\ \A x \in MucodeEntries : WellFormed([w EXCEPT !.before.idx = x])
         /\ \A x \in MucodeEntries : WellFormed([w EXCEPT !.after.idx = x])
         /\ \A x \in 0..31 : WellFormed([w EXCEPT !.after.sel = x])
         /\ \A x \in {8, 16, 24} : WellFormed([w EXCEPT !.after.size = x])
  BY ZenonT(60) DEF WellFormed, ControlWords, EntrySpec

\* The words that the decoder starts from.
LEMMA BlankType == WellFormed(Blank) /\ WellFormed(Illegal)
<1>1. WellFormed(Blank)
  BY IdleControlType, NoEntryType DEF Blank, WellFormed, Repeats
<1> QED
  BY <1>1, WordUpdates DEF Illegal

\* A word that computes.
LEMMA ComputesType ==
  ASSUME NEW name, NEW src1 \in Locations, NEW src2 \in Locations, NEW dest \in Locations
  PROVE  WellFormed(Named(name)) /\ WellFormed(Computes(name, src1, src2, dest))
<1>1. WellFormed(Named(name))
  BY BlankType, WordUpdates DEF Named
<1> QED
  BY <1>1, WordFieldUpdates DEF Computes

\* A word with flags, or with another destination.
LEMMA WithType ==
  ASSUME NEW w, WellFormed(w)
  PROVE  WellFormed(WithFlags(w)) /\ \A dest \in Locations : WellFormed(WithDest(w, dest))
  BY WordFieldUpdates DEF WithFlags, WithDest

-----------------------------------------------------------------------------
\* The fields of an operand specifier.
RmFields == 0..63

\* The bit fields of an RM specifier.
LEMMA RmBits ==
  ASSUME NEW rm \in RmFields
  PROVE  /\ Bits(rm, 1, 0) \in 0..3 /\ Bits(rm, 5, 5) \in 0..1 /\ Bits(rm, 2, 2) \in 0..1
         /\ Bits(rm, 4, 3) \in 0..3 /\ Bits(rm, 4, 2) \in 0..7
  BY DEF Bits, RmFields

\* The entry of a memory operand.
LEMMA MemoryEntryType ==
  ASSUME NEW rm \in RmFields, NEW second \in BOOLEAN, NEW is_dest \in BOOLEAN,
         NEW suppress \in BOOLEAN, NEW size \in {8, 16, 24}
  PROVE  MemoryEntry(rm, second, is_dest, suppress, size) \in EntrySpec
<1> DEFINE e == MemoryEntry(rm, second, is_dest, suppress, size)
<1>1. e.idx \in MucodeEntries
  BY DEF MemoryEntry, MucodeEntries
<1>2. e.sel \in 0..31
  BY RmBits DEF MemoryEntry
<1> QED
  BY <1>1, <1>2 DEF MemoryEntry, EntrySpec

\* The control word of an operand.
LEMMA OperandCoreType ==
  ASSUME NEW core \in ControlWords, NEW rm \in RmFields, NEW second \in BOOLEAN,
         NEW is_dest \in BOOLEAN, NEW is_left \in BOOLEAN, NEW size \in {8, 16, 24}
  PROVE  OperandCore(core, rm, second, is_dest, is_left, size) \in ControlWords
<1>1. Mode[rm] \in MemoryModes \cup {"short", "immediate", "direct"}
  <2> DEFINE low == Bits(rm, 1, 0)
             high == Bits(rm, 5, 5)
             middle == <<"immediate", "absolute", "pgc", "indexed">>[Bits(rm, 4, 3) + 1]
  <2>1. low \in 0..3 /\ high \in 0..1
    BY RmBits
  <2>2. middle \in {"immediate", "absolute", "pgc", "indexed"}
    BY RmBits
  <2>3. Mode[rm] = CASE low = 3               -> "short"
                     [] high = 1 /\ low = 2 -> "predecrement"
                     [] high = 1 /\ low = 1 -> middle
                     [] high = 1 /\ low = 0 -> "postincrement"
                     [] high = 0 /\ low = 2 -> "indirect"
                     [] high = 0 /\ low = 1 -> "relative"
                     [] high = 0 /\ low = 0 -> "direct"
    BY DEF Mode, RmFields
  <2> HIDE DEF low, high, middle
  <2> QED
    BY <2>1, <2>2, <2>3 DEF MemoryModes
<1>2. SourceLocation(rm, second) \in Locations /\ {"MEM_DATA", "REG"} \subseteq Locations
  BY <1>1 DEF SourceLocation, LatchOfSize, Locations
<1>3. "MEM_LATCH_HALF2_MAR" \in AddressLatches /\ "MEM_WRITE_FROM_DEST" \in WriteControls
      /\ (size >= 16) \in BOOLEAN
  BY DEF AddressLatches, WriteControls
<1> DEFINE source == Source(is_dest, is_left)
           memory == RequiresMemFetch(rm)
           rmw == memory /\ is_dest /\ is_left
           src1 == IF source = "src1" THEN SourceLocation(rm, second) ELSE core.src1
           src2 == IF source = "src2" THEN SourceLocation(rm, second) ELSE core.src2
           dest == CASE memory -> "MEM_DATA"
                     [] Mode[rm] = "direct" /\ source # "none" /\ is_dest -> "REG"
                     [] OTHER -> core.dest
           latch == IF rmw THEN "MEM_LATCH_HALF2_MAR" ELSE core.latch
           write == IF rmw THEN "MEM_WRITE_FROM_DEST" ELSE core.write
           wide == IF rmw THEN size >= 16 ELSE core.wide
<1>4. src1 \in Locations /\ src2 \in Locations /\ dest \in Locations
  BY <1>2 DEF ControlWords
<1>5. latch \in AddressLatches /\ write \in WriteControls /\ wide \in BOOLEAN
  BY <1>3 DEF ControlWords
<1>6. OperandCore(core, rm, second, is_dest, is_left, size) =
        [core EXCEPT !.src1 = src1, !.src2 = src2, !.dest = dest, !.latch = latch,
                     !.write = write, !.wide = wide]
  BY DEF OperandCore
<1> HIDE DEF source, memory, rmw, src1, src2, dest, latch, write, wide
<1>7. [core EXCEPT !.src1 = src1, !.src2 = src2, !.dest = dest, !.latch = latch,
                   !.write = write, !.wide = wide] \in ControlWords
  BY <1>4, <1>5 DEF ControlWords
<1> QED
  BY <1>6, <1>7

\* decode_rm_specifier on a word.
LEMMA OperandType ==
  ASSUME NEW w, WellFormed(w), NEW rm \in RmFields, NEW is_dest \in BOOLEAN,
         NEW is_left \in BOOLEAN, NEW size \in {8, 16, 24}
  PROVE  WellFormed(Operand(w, rm, is_dest, is_left, size))
<1> DEFINE second == w.rm_ops = 1
           slot == IF is_dest /\ ~is_left THEN "after" ELSE "before"
           unread == Mode[rm] = "immediate" /\ Source(is_dest, is_left) = "none"
           entry == MemoryEntry(rm, second, is_dest, w.core.suppress, size)
           core == OperandCore(w.core, rm, second, is_dest, is_left, size)
<1>1. w.core \in ControlWords /\ w.core.suppress \in BOOLEAN /\ w.before \in EntrySpec /\ w.after \in EntrySpec
  BY DEF WellFormed, ControlWords
<1>2. second \in BOOLEAN
  OBVIOUS
<1> HIDE DEF second
<1>3. entry \in EntrySpec
  BY <1>1, <1>2, MemoryEntryType
<1>4. core \in ControlWords
  BY <1>1, <1>2, OperandCoreType
<1> HIDE DEF entry, core
<1> DEFINE before == IF slot = "before" /\ RequiresMemFetch(rm) THEN entry ELSE w.before
           after == IF slot = "after" /\ RequiresMemFetch(rm) THEN entry ELSE w.after
           rm2_offset == IF second THEN w.words ELSE w.rm2_offset
           words == IF unread THEN w.words ELSE w.words + OperandWords(rm)
<1>5. Operand(w, rm, is_dest, is_left, size) =
        [w EXCEPT !.rm_ops = w.rm_ops + 1, !.rm2_offset = rm2_offset, !.words = words,
                  !.before = before, !.after = after, !.core = core]
  BY DEF Operand, second, entry, core
<1>6. before \in EntrySpec /\ after \in EntrySpec
  BY <1>1, <1>3
<1> HIDE DEF slot, unread, before, after, rm2_offset, words
<1>7. WellFormed([w EXCEPT !.rm_ops = w.rm_ops + 1, !.rm2_offset = rm2_offset, !.words = words,
                           !.before = before, !.after = after, !.core = core])
  BY <1>4, <1>6 DEF WellFormed
<1> QED
  BY <1>5, <1>7

-----------------------------------------------------------------------------
\* The groups of the opcode map.
LEMMA OpcodeIsNat == ASSUME NEW op \in Opcode PROVE op \in Nat
  BY DEF Opcode

\* The fields that name operands.
LEMMA OpcodeBits ==
  ASSUME NEW op \in Opcode
  PROVE  /\ Bits(op, 5, 0) \in RmFields /\ Bits(op, 11, 6) \in RmFields
         /\ Bits(op, 11, 7) \in RmFields
         /\ 16 * Bits(op, 11, 11) + 2 * Bits(op, 9, 8) \in RmFields
         /\ Bits(op, 15, 14) \in 0..3 /\ Bits(op, 11, 8) \in 0..15 /\ Bits(op, 6, 6) \in 0..1
<1>1. op \in Nat
  BY OpcodeIsNat
<1>2. ASSUME NEW n \in Nat, n < 64 PROVE n \in RmFields
  BY <1>2 DEF RmFields
<1>3. /\ Bits(op, 5, 0) \in Nat /\ Bits(op, 5, 0) < 64
      /\ Bits(op, 11, 6) \in Nat /\ Bits(op, 11, 6) < 64
      /\ Bits(op, 11, 7) \in Nat /\ Bits(op, 11, 7) < 32
  BY <1>1 DEF Bits
<1>4. Bits(op, 11, 11) \in 0..1 /\ Bits(op, 9, 8) \in 0..3
  BY <1>1 DEF Bits
<1>5. 16 * Bits(op, 11, 11) + 2 * Bits(op, 9, 8) \in RmFields
  BY <1>2, <1>4
<1>6. Bits(op, 15, 14) \in 0..3 /\ Bits(op, 11, 8) \in 0..15 /\ Bits(op, 6, 6) \in 0..1
  BY <1>1 DEF Bits
<1> QED
  BY <1>2, <1>3, <1>5, <1>6

\* A word that branches at its end.
LEMMA ThenBranchType ==
  ASSUME NEW w, WellFormed(w), NEW idx \in MucodeEntries, NEW cond \in 0..31
  PROVE  WellFormed(ThenBranch(w, idx, cond))
  BY WordFieldUpdates DEF ThenBranch

\* A branch to HML.
LEMMA BranchToHmlType ==
  ASSUME NEW name, NEW cond \in 0..31
  PROVE  WellFormed(BranchToHml(name, cond))
<1>1. {"IMM_HML", "MEM_ADDR", "ZERO"} \subseteq Locations /\ "MU_BR_HML_TEST_HML" \in MucodeEntries
  BY DEF Locations, MucodeEntries
<1>2. WellFormed([Named(name) EXCEPT !.words = 1, !.core.src1 = "IMM_HML", !.core.dest = "MEM_ADDR"])
  BY <1>1, ComputesType, WordUpdates, WordFieldUpdates
<1> QED
  BY <1>1, <1>2, ThenBranchType DEF BranchToHml

\* A branch to an operand.
LEMMA BranchToOperandType ==
  ASSUME NEW name, NEW op \in Opcode, NEW suppress \in BOOLEAN, NEW cond \in 0..31
  PROVE  WellFormed(BranchToOperand(name, op, suppress, cond))
<1>1. "MU_BR_MAR" \in MucodeEntries /\ "ZERO" \in Locations
  BY DEF MucodeEntries, Locations
<1>2. WellFormed(Operand(Named(name), Bits(op, 5, 0), FALSE, FALSE, 24))
  BY <1>1, ComputesType, OperandType, OpcodeBits
<1>3. WellFormed([Operand(Named(name), Bits(op, 5, 0), FALSE, FALSE, 24)
                    EXCEPT !.core.suppress = suppress])
  BY <1>2, WordFieldUpdates
<1> QED
  BY <1>1, <1>3, ThenBranchType DEF BranchToOperand

\* Branches.
LEMMA BranchType == ASSUME NEW op \in Opcode PROVE WellFormed(DecodeBranch(op))
<1> DEFINE rst == [Named("RST") EXCEPT !.restart = TRUE, !.predict = "vector"]
           repi == [Computes("REPI", "ZERO", "IMM_0", "REPI") EXCEPT
                      !.core.aux = "LATCH_AUX_ZERO", !.repeat = "MU_REPI"]
           repr == [Computes("REPR", "ZERO", "IMM_0", "REPR") EXCEPT
                      !.before.idx = "MU_ADJUST_PGC", !.repeat = "MU_REPR"]
           djnz == [Computes("DJNZ", "REG", "ZERO", "REG") EXCEPT
                      !.core.aux = "LATCH_AUX_ZERO", !.after.idx = "MU_IND_DJNZ", !.predict = "relative"]
           jr == [ThenBranch(Computes("JR", "PGC", "IMM_0", "MEM_ADDR"), "MU_BR_MAR_COND", Bits(op, 11, 8))
                    EXCEPT !.predict = "relative"]
           other ==
             CASE Bits(op, 10, 8) = 0 -> BranchToHml("JP hml", CondAlways)
               [] Bits(op, 10, 8) = 1 -> BranchToHml("CALL hml", CondCall)
               [] Bits(op, 10, 8) = 2 /\ Bits(op, 8, 6) = 0 -> BranchToOperand("JP rm24", op, FALSE, CondAlways)
               [] Bits(op, 10, 8) = 2 /\ Bits(op, 8, 6) = 1 -> BranchToOperand("JEA", op, TRUE, CondAlways)
               [] Bits(op, 10, 8) = 2 /\ Bits(op, 8, 6) = 4 -> BranchToOperand("CALL rm24", op, FALSE, CondCall)
               [] Bits(op, 10, 8) = 2 /\ Bits(op, 8, 6) = 5 -> BranchToOperand("CEA", op, TRUE, CondCall)
               [] OTHER -> Illegal
<1>1. /\ {"ZERO", "IMM_0", "REPI", "REPR", "REG", "PGC", "MEM_ADDR"} \subseteq Locations
      /\ {"MU_ADJUST_PGC", "MU_IND_DJNZ", "MU_BR_MAR_COND"} \subseteq MucodeEntries
      /\ "LATCH_AUX_ZERO" \in AuxLatches /\ {"MU_REPI", "MU_REPR"} \subseteq Repeats
  BY DEF Locations, MucodeEntries, AuxLatches, Repeats
<1>2. CondAlways \in 0..31 /\ CondCall \in 0..31 /\ Bits(op, 11, 8) \in 0..31
  BY OpcodeBits DEF CondAlways, CondCall
<1>3. WellFormed(rst)
  BY <1>1, ComputesType, WordUpdates
<1>4. WellFormed(repi)
  BY <1>1, ComputesType, WordUpdates, WordFieldUpdates
<1>5. WellFormed(repr)
  BY <1>1, ComputesType, WordUpdates, WordFieldUpdates
<1>6. WellFormed(djnz)
  BY <1>1, ComputesType, WordUpdates, WordFieldUpdates
<1>7. WellFormed(jr)
  BY <1>1, <1>2, ComputesType, ThenBranchType, WordUpdates
<1>8. DecodeBranch(op) =
        IF Bits(op, 15, 8) = 255 THEN rst
        ELSE IF Bits(op, 15, 5) = 2032 THEN repi
        ELSE IF Bits(op, 15, 11) = 30 THEN
          CASE Bits(op, 7, 0) = 0 -> repr
            [] Bits(op, 7, 7) = 1 -> djnz
            [] OTHER -> Illegal
        ELSE IF Bits(op, 15, 12) = 14 THEN jr
        ELSE other
  BY Zenon DEF DecodeBranch, RepeatImmediate
<1>9. /\ WellFormed(BranchToHml("JP hml", CondAlways))
       /\ WellFormed(BranchToHml("CALL hml", CondCall))
       /\ WellFormed(BranchToOperand("JP rm24", op, FALSE, CondAlways))
       /\ WellFormed(BranchToOperand("JEA", op, TRUE, CondAlways))
       /\ WellFormed(BranchToOperand("CALL rm24", op, FALSE, CondCall))
       /\ WellFormed(BranchToOperand("CEA", op, TRUE, CondCall))
  BY <1>2, BranchToHmlType, BranchToOperandType
<1>10. WellFormed(Illegal)
  BY BlankType
<1>11. WellFormed(other)
  BY <1>9, <1>10, ZenonT(30)
<1> HIDE DEF rst, repi, repr, djnz, jr, other
<1>12. CASE Bits(op, 15, 8) = 255
  BY <1>3, <1>8, <1>12
<1>13. CASE Bits(op, 15, 8) # 255 /\ Bits(op, 15, 5) = 2032
  BY <1>4, <1>8, <1>13
<1>14. CASE Bits(op, 15, 8) # 255 /\ Bits(op, 15, 5) # 2032 /\ Bits(op, 15, 11) = 30
  BY <1>5, <1>6, <1>8, <1>10, <1>14
<1>15. CASE Bits(op, 15, 8) # 255 /\ Bits(op, 15, 5) # 2032 /\ Bits(op, 15, 11) # 30 /\ Bits(op, 15, 12) = 14
  BY <1>7, <1>8, <1>15
<1>16. CASE Bits(op, 15, 8) # 255 /\ Bits(op, 15, 5) # 2032 /\ Bits(op, 15, 11) # 30 /\ Bits(op, 15, 12) # 14
  BY <1>8, <1>11, <1>16
<1> QED
  BY <1>12, <1>13, <1>14, <1>15, <1>16

\* Bit operations.
LEMMA BitType == ASSUME NEW op \in Opcode PROVE WellFormed(DecodeBit(op))
<1>1. {"ZERO", "BITS", "IMM_0", "IRL", "F"} \subseteq Locations
  BY DEF Locations
<1>2. WellFormed(BitOperation(op))
  <2> DEFINE name == <<"BIT", "CHG", "RES", "SET">>[Bits(op, 7, 6) + 1]
             w == Operand(WithFlags(Computes(name, "ZERO", "ZERO", "ZERO")), Bits(op, 5, 0),
                          name = "BIT", TRUE, 8)
  <2>1. (name = "BIT") \in BOOLEAN
    OBVIOUS
  <2>2. WellFormed(WithFlags(Computes(name, "ZERO", "ZERO", "ZERO")))
    BY <1>1, ComputesType, WithType
  <2> HIDE DEF name
  <2>3. WellFormed(w)
    BY <2>1, <2>2, OperandType, OpcodeBits
  <2> HIDE DEF w
  <2>4. w.core.dest \in Locations
    BY <2>3 DEF WellFormed, ControlWords
  <2>5. WellFormed([w EXCEPT !.core.src2 = "BITS", !.core.dest = IF name = "BIT" THEN "ZERO" ELSE w.core.dest])
    BY <1>1, <2>3, <2>4, WordFieldUpdates
  <2> QED
    BY <2>3, <2>5 DEF BitOperation, name, w, WellFormed, ControlWords
<1>3. WellFormed([Named("LD IRL, imm") EXCEPT !.core.src2 = "IMM_0", !.core.dest = "IRL"])
  BY <1>1, ComputesType, WordFieldUpdates
<1>4. \A name : /\ WellFormed(Computes(name, "F", "ZERO", "F")) /\ WellFormed(Computes(name, "F", "IMM_0", "F"))
  BY <1>1, ComputesType
<1> QED
  BY <1>2, <1>3, <1>4, BlankType DEF DecodeBit

\* The other loads.
LEMMA LdOtherType == ASSUME NEW op \in Opcode PROVE WellFormed(DecodeLdOther(op))
<1>1. {"ZERO", "IMM_0", "IMM_HML", "REG"} \subseteq Locations
  BY DEF Locations
<1> QED
  BY <1>1, ComputesType, WordUpdates DEF DecodeLdOther

\* The size field names a size unless it is 3.
LEMMA SizeType == ASSUME NEW op \in Opcode PROVE Bits(op, 15, 14) # 3 => Size(op) \in {8, 16, 24}
  BY OpcodeBits DEF Size

\* The arithmetic and logic group.
LEMMA ArithLogicType ==
  ASSUME NEW op \in Opcode, Bits(op, 15, 14) # 3
  PROVE  WellFormed(DecodeArithLogic(op))
<1> DEFINE operation == Bits(op, 7, 6) + 4 * Bits(op, 12, 11)
           rm == Bits(op, 5, 0)
           size == Size(op)
           imm == operation = 15
           name == Arithmetic[1 + IF imm THEN Bits(op, 10, 8) ELSE operation % 8]
           w == WithFlags(Computes(name, "ZERO", "ZERO", "ZERO"))
           from_rm == [Operand(w, rm, FALSE, FALSE, size) EXCEPT !.core.src1 = "REG"]
           to_rm == [Operand(w, rm, TRUE, TRUE, size) EXCEPT !.core.src2 = "REG"]
           loaded == [w EXCEPT !.words = IF size = 24 THEN 2 ELSE 1, !.rm_ops = 1,
                               !.core.src2 = IF size = 24 THEN "IMM_HML_RM" ELSE "IMM_1"]
           from_imm == Operand(loaded, rm, name # "CP", TRUE, size)
           decoded == IF imm THEN from_imm ELSE IF operation < 8 THEN from_rm ELSE to_rm
<1>1. {"ZERO", "REG", "IMM_HML_RM", "IMM_1"} \subseteq Locations
  BY DEF Locations
<1>2. rm \in RmFields /\ size \in {8, 16, 24} /\ (name # "CP") \in BOOLEAN
  BY OpcodeBits, SizeType
<1> HIDE DEF name, rm, size, operation, imm
<1>3. WellFormed(w)
  BY <1>1, ComputesType, WithType
<1> HIDE DEF w
<1>4. WellFormed(from_rm) /\ WellFormed(to_rm)
  BY <1>1, <1>2, <1>3, OperandType, WordFieldUpdates
<1>5. WellFormed(loaded)
  <2>1. WellFormed([w EXCEPT !.words = IF size = 24 THEN 2 ELSE 1, !.rm_ops = 1])
    BY <1>3, WordUpdates
  <2>2. (IF size = 24 THEN "IMM_HML_RM" ELSE "IMM_1") \in Locations
    BY <1>1
  <2> QED
    BY <2>1, <2>2, WordFieldUpdates
<1> HIDE DEF loaded
<1>6. WellFormed(from_imm)
  BY <1>2, <1>5, OperandType
<1> HIDE DEF from_rm, to_rm, from_imm
<1>7. WellFormed(decoded)
  BY <1>4, <1>6, Zenon
<1> HIDE DEF decoded
<1>8. WellFormed(WithDest(decoded, "ZERO"))
  BY <1>1, <1>7, WithType
<1>9. DecodeArithLogic(op) = IF name = "CP" THEN WithDest(decoded, "ZERO") ELSE decoded
  BY DEF DecodeArithLogic, decoded, from_imm, loaded, to_rm, from_rm, w, name, imm, size, rm, operation
<1> QED
  BY <1>7, <1>8, <1>9, Zenon

\* The load group.
LEMMA LdGroupType ==
  ASSUME NEW op \in Opcode, Bits(op, 15, 14) # 3
  PROVE  WellFormed(DecodeLdGroup(op))
<1> DEFINE size == Size(op)
           rm == Bits(op, 5, 0)
           w == Computes("LD", "ZERO", "ZERO", "ZERO")
           ldsx == Bits(op, 15, 15) = 0 /\ Bits(op, 11, 11) = 1
           lea == Bits(op, 15, 12) = 9
           dummy == IF Bits(op, 7, 7) = 1 THEN Bits(op, 11, 7)
                    ELSE 16 * Bits(op, 11, 11) + 2 * Bits(op, 9, 8)
           indexed == [Operand(w, dummy, TRUE, FALSE, size) EXCEPT !.core.suppress = TRUE, !.name = "LEA"]
           extended == [WithDest(w, "REG") EXCEPT !.name = "LDSX"]
           one == CASE lea -> indexed [] ldsx -> extended [] OTHER -> w
<1>1. {"ZERO", "REG"} \subseteq Locations
  BY DEF Locations
<1>2. rm \in RmFields /\ dummy \in RmFields /\ Bits(op, 11, 6) \in RmFields /\ size \in {8, 16, 24}
  BY OpcodeBits, SizeType
<1>3. WellFormed(w)
  BY <1>1, ComputesType
<1> HIDE DEF size, rm, w, dummy, ldsx, lea
<1>4. WellFormed(indexed)
  BY <1>2, <1>3, OperandType, WordUpdates, WordFieldUpdates
<1>5. WellFormed(extended)
  BY <1>1, <1>3, WithType, WordUpdates
<1> HIDE DEF indexed, extended
<1>6. WellFormed(one)
  BY <1>3, <1>4, <1>5, Zenon
<1> HIDE DEF one
<1>7. /\ WellFormed(Operand(one, rm, FALSE, FALSE, size))
      /\ WellFormed(Operand(Operand(w, rm, FALSE, FALSE, size), Bits(op, 11, 6), TRUE, FALSE, size))
  BY <1>2, <1>3, <1>6, OperandType
<1>8. DecodeLdGroup(op) =
        IF Bits(op, 7, 6) = 3
        THEN Operand(one, rm, FALSE, FALSE, size)
        ELSE Operand(Operand(w, rm, FALSE, FALSE, size), Bits(op, 11, 6), TRUE, FALSE, size)
  BY DEF DecodeLdGroup, one, extended, indexed, dummy, lea, ldsx, w, rm, size
<1> QED
  BY <1>7, <1>8, Zenon

\* The remaining groups.
LEMMA OtherType ==
  ASSUME NEW op \in Opcode, Bits(op, 15, 14) # 3
  PROVE  WellFormed(DecodeOther(op))
<1> DEFINE size == Size(op)
           rm == Bits(op, 5, 0)
           Rmw(name, src2) == Operand(WithFlags(Computes(name, "ZERO", src2, "ZERO")), rm, TRUE, TRUE, size)
           Reads(w) == Operand(w, rm, FALSE, FALSE, size)
           Shift == <<"RLC", "RRC", "RL", "RR", "SLA", "SRA", "SWAP", "SRL">>
<1>1. {"ZERO", "REG", "SFI_2", "FACTOR_B", "F", "WF"} \subseteq Locations
      /\ StatusRegister(op) \in Locations
  BY DEF Locations, StatusRegister
<1>2. rm \in RmFields /\ size \in {8, 16, 24} /\ 24 * Bits(op, 6, 6) \in 0..31
  BY OpcodeBits, SizeType
<1>3. {"MU_MUL_LD_FACTOR_A", "MU_DIV_TEST_DIVIDEND_HI"} \subseteq MucodeEntries
      /\ "LATCH_AUX_ZERO" \in AuxLatches
  BY DEF MucodeEntries, AuxLatches
<1> HIDE DEF size, rm
<1>4. \A name : WellFormed(Rmw(name, "ZERO")) /\ WellFormed(Rmw(name, "SFI_2"))
  BY <1>1, <1>2, ComputesType, WithType, OperandType
<1>5. \A w : WellFormed(w) => WellFormed(Reads(w))
  BY <1>2, OperandType
<1> HIDE DEF Rmw, Reads
<1>6. WellFormed(Computes("NOP", "ZERO", "ZERO", "ZERO"))
      /\ WellFormed([Computes("HALT", "ZERO", "ZERO", "ZERO") EXCEPT !.disable_clk = TRUE])
  BY <1>1, ComputesType, WordUpdates
<1>7. WellFormed(WithDest(Reads(Computes("LD F, rm", "ZERO", "ZERO", "ZERO")), StatusRegister(op)))
  BY <1>1, <1>5, ComputesType, WithType
<1>8. WellFormed(Operand(Computes("LD rm, F", "ZERO", StatusRegister(op), "ZERO"), rm, TRUE, FALSE, size))
  BY <1>1, <1>2, ComputesType, OperandType
<1>9. WellFormed(WithDest(Reads(WithFlags(Computes("TST", "REG", "ZERO", "ZERO"))), "ZERO"))
  BY <1>1, <1>5, ComputesType, WithType
<1>10. \A name : WellFormed(WithDest(Rmw(name, "ZERO"), "ZERO"))
  BY <1>1, <1>4, WithType
<1>11. WellFormed([WithDest(Reads(Computes("MUL", "ZERO", "ZERO", "ZERO")), "FACTOR_B")
                     EXCEPT !.after.idx = "MU_MUL_LD_FACTOR_A", !.after.size = size,
                            !.after.sel = 24 * Bits(op, 6, 6)])
  <2>1. WellFormed(WithDest(Reads(Computes("MUL", "ZERO", "ZERO", "ZERO")), "FACTOR_B"))
    BY <1>1, <1>5, ComputesType, WithType
  <2> QED
    BY <1>2, <1>3, <2>1, WordFieldUpdates
<1>12. WellFormed([WithDest(Reads(Computes("DIV", "ZERO", "ZERO", "ZERO")), "FACTOR_B")
                     EXCEPT !.core.aux = "LATCH_AUX_ZERO", !.after.idx = "MU_DIV_TEST_DIVIDEND_HI",
                            !.after.size = size])
  <2>1. WellFormed(WithDest(Reads(Computes("DIV", "ZERO", "ZERO", "ZERO")), "FACTOR_B"))
    BY <1>1, <1>5, ComputesType, WithType
  <2> QED
    BY <1>2, <1>3, <2>1, WordFieldUpdates
<1> HIDE DEF Shift
<1> QED
  BY <1>4, <1>6, <1>7, <1>8, <1>9, <1>10, <1>11, <1>12, BlankType, ZenonT(60)
  DEF DecodeOther, Rmw, Reads, Shift, size, rm

\* The decoder makes a well-formed instruction of every one of the 65536 words.
THEOREM DecodedType == ASSUME NEW op \in Opcode PROVE WellFormed(Decoded(op))
<1>1. Bits(op, 15, 12) < 12 => Bits(op, 15, 14) # 3
  BY OpcodeIsNat DEF Bits
<1>2. Bits(op, 15, 12) \in 0..15
  BY OpcodeIsNat DEF Bits
<1>3. WellFormed(DecodeBranch(op)) /\ WellFormed(DecodeBit(op)) /\ WellFormed(DecodeLdOther(op))
  BY BranchType, BitType, LdOtherType
<1>4. CASE Bits(op, 15, 12) < 12
  <2>1. WellFormed(DecodeArithLogic(op)) /\ WellFormed(DecodeLdGroup(op)) /\ WellFormed(DecodeOther(op))
    BY <1>1, <1>4, ArithLogicType, LdGroupType, OtherType
  <2> QED
    BY <1>3, <2>1, Zenon DEF Decoded
<1>5. CASE Bits(op, 15, 12) >= 12
  <2>1. \/ Bits(op, 15, 12) >= 14 \/ Bits(op, 15, 12) = 13 \/ Bits(op, 15, 12) = 12
    BY <1>2, <1>5
  <2> QED
    BY <1>3, <2>1, Zenon DEF Decoded
<1> QED
  BY <1>2, <1>4, <1>5
================================================================================
