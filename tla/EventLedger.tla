---------------------------- MODULE EventLedger ----------------------------
(***************************************************************************)
(* What events.jsonl and status.json promise together: a ledger that grows *)
(* by one numbered event at a time, atomically, until a fault freezes it   *)
(* for good.  HelperState shows that the step-by-step program implements   *)
(* this specification.                                                     *)
(***************************************************************************)
EXTENDS Naturals, Sequences

CONSTANTS
  Writer,     \* who may commit an event
  MaxEventId  \* the last event id

VARIABLES
  committed,  \* the writers of the events status.json has caught up with
  frozen      \* a fault left the two files in disagreement

vars == <<committed, frozen>>

Init == Len(committed) = 1 /\ ~frozen

\* Event number Len(committed) + 1 and the new status appear together.
Commit(w) ==
  /\ ~frozen
  /\ Len(committed) < MaxEventId
  /\ committed' = Append(committed, w)
  /\ UNCHANGED frozen

Freeze ==
  /\ frozen' = TRUE
  /\ UNCHANGED committed

Next == Freeze \/ \E w \in Writer : Commit(w)

Spec == Init /\ [][Next]_vars
=============================================================================
