----------------------------- MODULE FrontEndStream -----------------------------
(***************************************************************************)
(* The words between memory and the decode stage as the abstract stream:   *)
(* the row of queue slots and word latch, read from its far end.           *)
(***************************************************************************)
EXTENDS FrontEnd

\* The places a word that has been read can be in, the latch last.
Row == [i \in 0..QueueLen |-> IF i = QueueLen THEN Latch ELSE queue[i]]

\* For each place, the words in it and in the places after it, oldest first.
WordsFrom(row) ==
  LET from[i \in 0..(QueueLen + 1)] ==
        IF i > QueueLen THEN <<>>
        ELSE IF row[i] = NoWord THEN from[i + 1] ELSE Append(from[i + 1], row[i])
  IN from

ReadAhead == WordsFrom(Row)[0]

Stream == INSTANCE WordStream WITH
  Capacity <- QueueLen + 1,
  Targets <- Word32,
  Following <- NextWord,
  stream <- ReadAhead,
  next <- Requested

\* The queue, the latch and the memory behind them implement the word stream: none of
\* its words is lost, repeated, reordered, invented or kept after a branch, and the
\* fetch unit never asks for one it has no room for.
ImplementsWordStream == Stream!Spec
=================================================================================
