---------------------------- MODULE Interconnect ----------------------------
(***************************************************************************)
(* The latches and signal lines between the pipeline stages                *)
(* (pilot_interconnect in cpu_interconnect.h) and the clock gate of the    *)
(* core registers.  Every line is a plain variable of the one system       *)
(* structure: whichever unit is called next sees the last value written.   *)
(***************************************************************************)
VARIABLES
  fetch_word_semaph,      \* fetch -> decode: the word latch holds a word
  fetch_word,             \* the word latch, as the address of the word
  fetch_addr,             \* address the fetch unit reports for that word
  decode_branch,          \* decode -> fetch: a branch has been predicted
  decode_branch_addr,     \* ... to this address
  decode_stall,           \* fetch -> decode: the prediction was wrong
  decoded_inst_semaph,    \* decode -> execute: decoded_inst is fresh
  execute_branch,         \* execute -> fetch: PGC was written
  execute_branch_addr,    \* ... with this address
  execute_memory_backoff, \* execute -> fetch: the next cycle uses the bus
  disable_clk             \* core.disable_clk: HALT stopped the clock

branchlines == <<decode_branch, decode_branch_addr, execute_branch, execute_branch_addr>>
icvars == <<fetch_word_semaph, fetch_word, fetch_addr, decode_branch,
            decode_branch_addr, decode_stall, decoded_inst_semaph, execute_branch,
            execute_branch_addr, execute_memory_backoff, disable_clk>>

\* The structure is static and starts at zero; where the program starts, and so
\* fetch_addr, is set by whoever starts the machine.
InterconnectInit ==
  /\ fetch_word_semaph = FALSE
  /\ fetch_word = 0
  /\ decode_branch = FALSE
  /\ decode_branch_addr = 0
  /\ decode_stall = FALSE
  /\ decoded_inst_semaph = FALSE
  /\ execute_branch = FALSE
  /\ execute_branch_addr = 0
  /\ execute_memory_backoff = FALSE
  /\ disable_clk = FALSE
=============================================================================
