------------------------------- MODULE MemCtl -------------------------------
(***************************************************************************)
(* The memory controller of memory_bus.c: one access at a time, asserted   *)
(* by the fetch or the execute unit, advanced by Pilot_memctl_tick, and     *)
(* answered by a data_valid flag that lasts until the next tick.           *)
(*                                                                         *)
(* The contents of memory are abstracted: the data word a read returns is  *)
(* named by the address it was read from, and the data a write carries     *)
(* (data_reg_out and the bytes of hram it reaches) are left out.  What is  *)
(* kept is who may use the bus when, and which address an answer is for.   *)
(***************************************************************************)
EXTENDS Integers

CONSTANTS
  AddrSpace,   \* number of byte addresses, 2^24 in the program
  HramStart,   \* HRAM_START: hram answers from here to the end of the space
  Devices      \* addresses below HramStart whose mapper has been filled in

(***************************************************************************)
(* The mappers of the regions below HRAM are empty branches that fall      *)
(* through to "return FALSE", so Devices = {} is the program as it stands. *)
(* A non-empty Devices stands for the mappers the comments announce, which *)
(* answer after any number of ticks ("Tick 1+n, n >= 0", memory_bus.c:119).*)
(***************************************************************************)
ASSUME AddrAssumption ==
  /\ AddrSpace \in Nat /\ AddrSpace > 0 /\ AddrSpace % 2 = 0
  /\ HramStart \in 0..AddrSpace
  /\ Devices \subseteq 0..(HramStart - 1)

VARIABLES
  mc_state,     \* memctl.state: MCTL_READY, MCTL_MEM_R_BUSY, MCTL_MEM_W_BUSY
  data_valid,   \* memctl.data_valid
  is_16bit,     \* memctl.is_16bit
  addr_reg,     \* memctl.addr_reg
  data_reg_in   \* memctl.data_reg_in, as the address the data were read from

mcvars == <<mc_state, data_valid, is_16bit, addr_reg, data_reg_in>>

Addr == 0..(AddrSpace - 1)

MemCtlStates == {"MCTL_READY", "MCTL_MEM_R_BUSY", "MCTL_MEM_W_BUSY"}

\* The structure is static: every field starts at zero.
MemCtlInit ==
  /\ mc_state = "MCTL_READY"
  /\ data_valid = FALSE
  /\ is_16bit = FALSE
  /\ addr_reg = 0
  /\ data_reg_in = 0

-----------------------------------------------------------------------------
\* Which addresses mem_read and mem_write must answer, and may answer, in a
\* tick.  An address past the last region (a 32-bit sum that was not masked)
\* matches no branch and is never answered.
MustAnswer(a) == a \in HramStart..(AddrSpace - 1)
MayAnswer(a)  == MustAnswer(a) \/ a \in Devices

\* Pilot_mem_addr_read_assert; the caller's FALSE branch is ~BusReady.
BusReady == mc_state = "MCTL_READY"

AddrReadAssert(wide, a) ==
  /\ BusReady
  /\ addr_reg' = a
  /\ is_16bit' = wide
  /\ mc_state' = "MCTL_MEM_R_BUSY"
  /\ data_valid' = FALSE
  /\ UNCHANGED data_reg_in

\* Pilot_mem_addr_write_assert
AddrWriteAssertAnytime(wide, a) ==
  /\ addr_reg' = a
  /\ is_16bit' = wide
  /\ mc_state' = "MCTL_MEM_W_BUSY"
  /\ data_valid' = FALSE
  /\ UNCHANGED data_reg_in
AddrWriteAssert(wide, a) ==
  /\ BusReady
  /\ addr_reg' = a
  /\ is_16bit' = wide
  /\ mc_state' = "MCTL_MEM_W_BUSY"
  /\ data_valid' = FALSE
  /\ UNCHANGED data_reg_in

-----------------------------------------------------------------------------
\* Pilot_memctl_tick: nothing pending, the pending access is not answered in
\* this tick, or it is and data_valid is raised.
TickIdle ==
  /\ BusReady
  /\ data_valid' = FALSE
  /\ UNCHANGED <<mc_state, is_16bit, addr_reg, data_reg_in>>

TickBusy ==
  /\ ~BusReady
  /\ ~MustAnswer(addr_reg)
  /\ data_valid' = FALSE
  /\ UNCHANGED <<mc_state, is_16bit, addr_reg, data_reg_in>>

TickDone ==
  /\ ~BusReady
  /\ MayAnswer(addr_reg)
  /\ data_reg_in' = IF mc_state = "MCTL_MEM_R_BUSY" THEN addr_reg ELSE data_reg_in
  /\ mc_state' = "MCTL_READY"
  /\ data_valid' = TRUE
  /\ UNCHANGED <<is_16bit, addr_reg>>

MemCtlTick == TickIdle \/ TickBusy \/ TickDone
=============================================================================
