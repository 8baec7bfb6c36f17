-------------------------------- MODULE Clock --------------------------------
(***************************************************************************)
(* The main loop of the emulator, as far as the code fixes it: a cycle has *)
(* two halves, every unit has one function per half, and each is called    *)
(* once.  The order of the calls inside a half is free except for the      *)
(* pairs in Before1 and Before2.                                           *)
(***************************************************************************)
EXTENDS Integers

CONSTANTS
  Before1,  \* <<u, v>>: in a first half, u is called before v
  Before2   \* the same for second halves

Units == {"fetch", "decode", "execute"}

ASSUME ClockAssumption ==
  /\ Before1 \subseteq Units \X Units
  /\ Before2 \subseteq Units \X Units

VARIABLES
  half,  \* 1 or 2: the half of the cycle in progress
  ran    \* the units that were already called in it

clockvars == <<half, ran>>

ClockInit == half = 1 /\ ran = {}

Before(h) == IF h = 1 THEN Before1 ELSE Before2

Call(h, u) ==
  /\ half = h
  /\ u \in Units \ ran
  /\ \A v \in Units : <<v, u>> \in Before(h) => v \in ran
  /\ ran' = ran \cup {u}
  /\ UNCHANGED half

\* All units have been called: the other half begins.
HalfEnds(h) ==
  /\ half = h /\ ran = Units
  /\ half' = 3 - h /\ ran' = {}

\* The main loop goes on.
Ticks == \E h \in {1, 2} : HalfEnds(h) \/ \E u \in Units : Call(h, u)

\* fetch before execute in first halves: see README, "Call order"
FetchFirst == {<<"fetch", "execute">>}

\* no order at all
FreeOrder == {}

\* the order in which cpu_decode.c:6-77 describes the stages
StageOrder == {<<"fetch", "decode">>, <<"decode", "execute">>}
==============================================================================
