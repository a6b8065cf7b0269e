---------------------------- MODULE MCGjcSession ----------------------------
(***************************************************************************)
(* Instances of GjcSession for TLC.                                        *)
(***************************************************************************)
EXTENDS GjcSession, TLC

CONSTANTS c1, c2

\* One packet has the native input of ralplan and ultragoal, the other has
\* none.
OneNative ==
  [c \in Command |-> IF c = "deep-interview" THEN {c2} ELSE {c1}]

\* A plan and a set of goals; interviews fail, as they have neither locks nor
\* KAT evidence and end like goals without them.
OneOfEach ==
  [c \in Command |-> CASE c = "ralplan"        -> {c2}
                       [] c = "ultragoal"      -> {c1}
                       [] c = "deep-interview" -> {}]

\* People append whatever they like, such as a callback of the first status.
ByHand == {Event("user", "gjc.callback_recorded", 1, 1)}

Symmetry == Permutations(Key)

(***************************************************************************)
(* Two states differ for TLC only in what later steps or the properties    *)
(* look at: the packet, the plan, the files and the snapshot that the      *)
(* ledger or the command in flight names and does not write next, ledgers  *)
(* of their processes and of none, and of an event whether it is a         *)
(* callback of the helper's, which status it answers, and its process.     *)
(***************************************************************************)
Named ==
  (IF ledger = None THEN {} ELSE {ledger})
    \cup (IF step \in {"session", "run", "evidence", "ledger"}
          THEN {op.status} ELSE {})
FileView ==
  [p \in Path |->
     IF \/ p \in {"packet", "plan"}
        \/ p = "brief" /\ \E s \in Named : s.brief # None
        \/ \E s \in Named :
             s.output # None /\ p \in {"receipt", Output[s.command]}
     THEN file[p] ELSE None]
SnapshotView ==
  IF step = "evidence" \/ \E s \in Named : s.kat # None
  THEN snapshot ELSE None
MadeView ==
  [h \in 1 .. Len(made) |->
     IF made[h].pid \in {0} \cup {s.pid : s \in Named}
     THEN made[h] ELSE made[h].pid]
LogView ==
  LET lines == SelectSeq(log, IsGJC)
  IN  [i \in 1 .. Len(lines) |->
         <<made[lines[i].hash].pid, lines[i].source, IsCallback(lines[i])>>]
View ==
  <<FileView, session, kat, SnapshotView, ledger, MadeView, LogView, Len(log),
    last, op, step, drift, edits>>
=============================================================================
