---------------------------------- MODULE Isa ----------------------------------
(***************************************************************************)
(* What a program without branches means, as the programmer of the machine *)
(* sees it: instructions are executed one after the other, in the order of *)
(* their addresses, each once; the one that follows a repeat instruction   *)
(* is executed as often as that says.                                      *)
(***************************************************************************)
EXTENDS Integers

CONSTANTS
  First,    \* where a program may start
  Nowhere

VARIABLES
  follower,  \* for every instruction, the address of the next
  again,     \* how often the instruction after this one is executed again
  at,        \* address of the instruction in execution
  times      \* how often it will be executed again

isavars == <<follower, again, at, times>>

Init == at = Nowhere /\ times = 0

TheProgram == <<follower, again>>

Start == at = Nowhere /\ at' \in First /\ times' = 0 /\ UNCHANGED TheProgram

Proceed ==
  /\ at # Nowhere /\ times = 0
  /\ at' = follower[at]
  /\ times' = again[at]
  /\ UNCHANGED TheProgram

Repeat == times > 0 /\ times' = times - 1 /\ UNCHANGED <<TheProgram, at>>

Next == Start \/ Proceed \/ Repeat

Spec == Init /\ [][Next]_isavars
================================================================================
