------------------------------ MODULE WordStream ------------------------------
(***************************************************************************)
(* What the fetch unit promises the decode unit, with no queue, latch,     *)
(* memory or clock: a stream of consecutive words that starts where the    *)
(* last branch went, of which at most Capacity are read ahead.             *)
(***************************************************************************)
EXTENDS Integers, Sequences

CONSTANTS
  Capacity,       \* words read ahead of the decode stage
  Targets,        \* addresses a branch can name
  Following(_)    \* the address after an address

VARIABLES
  stream,  \* addresses of the words read ahead, oldest first
  next     \* address of the word to be read next

Init == stream = <<>> /\ next \in Targets

\* Memory delivers the next word.
Fill ==
  /\ Len(stream) < Capacity
  /\ stream' = Append(stream, next)
  /\ next' = Following(next)

\* The decode stage takes the oldest word.
Take ==
  /\ stream # <<>>
  /\ stream' = Tail(stream)
  /\ UNCHANGED next

\* A branch empties the stream and restarts it.
Redirect ==
  /\ stream' = <<>>
  /\ next' \in Targets

Next == Fill \/ Take \/ Redirect
Spec == Init /\ [][Next]_<<stream, next>>
=============================================================================
