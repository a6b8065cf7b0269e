-------------------------- MODULE PhasePlanProofs ---------------------------
(***************************************************************************)
(* Proofs about PhasePlan, for any phases, graphs, instances and bounds:   *)
(* the helper's decisions end with the run, the plan is what its events    *)
(* say, a final validation that passes is backed by the log and the        *)
(* instance, and the log and status.json implement EventLedger.            *)
(***************************************************************************)
EXTENDS PhasePlan, FiniteSetTheorems, WellFoundedInduction,
  SequenceTheorems, TLAPS

EventOf(type) == [by : {"helper"}, type : {type}, phase : Phase \cup {"none"},
                  status : IF type = "recorded" THEN {"approved", "rejected"}
                                                ELSE Status \cup {"none"},
                  flag : Flag]
LineType == HandLine \cup UNION {EventOf(type) : type \in
  {"other", "initialized", "updated", "requested", "recorded", "finished"}}

\* Which event a command in flight will append, and where it stands.
OpInv ==
  /\ step \in {"idle", "append", "plan", "run", "status"}
  /\ step = "append" =>
       /\ op.event \in LineType
       /\ op.kind \in {"init", "set", "approval", "event", "finish"}
       /\ op.kind \in {"init", "set"} =>
            Recorded(op.event) \in {"initialized", "updated"}
       /\ op.kind = "approval" =>
            Recorded(op.event) \in {"requested", "recorded"}
       /\ op.kind = "event" => Recorded(op.event) = "other"
       /\ op.kind = "finish" => Recorded(op.event) = "finished"

LogInv ==
  /\ log \in Seq(LineType)
  /\ last \in Nat
  /\ last <= Len(log)
  /\ step = "append" => Len(log) = last
  /\ step \in {"plan", "run", "status"} => Len(log) = last + 1

FinishedIn(lines) == \E i \in 1 .. Len(lines) : Recorded(lines[i]) = "finished"

\* A finished run is stored as such before anything else happens, unless its
\* command stopped, and then nothing else happens; no decision is on its way
\* when a run finishes.
FinishInv ==
  /\ FinishedIn(log) => run = "finished" \/ (Len(log) # last
     /\ step \in {"idle", "run"})
  /\ step = "append" /\ op.kind = "approval" => run # "finished"
  /\ OnlyHandsDecideAfterFinish

LEMMA Lines ==
  /\ \A t \in {"other", "initialized", "finished"} : Plain(t) \in LineType
  /\ \A p \in Phase, s \in Status, f \in Flag :
       Event("updated", p, s, f) \in LineType
  /\ \A p \in Phase : Event("requested", p, "none", "keep") \in LineType
  /\ \A p \in Phase, d \in {"approved", "rejected"} :
       Event("recorded", p, d, "keep") \in LineType
  /\ \A line \in HandLine : line \in LineType /\ Recorded(line) = "other"
  /\ \A t, p, s, f : Recorded(Event(t, p, s, f)) = t
BY PhasePlanAssumption
   DEF Plain, Event, LineType, EventOf, Flag, Status, Recorded

LEMMA FinishHolds == Spec => [](OpInv /\ LogInv /\ FinishInv)
<1> DEFINE Inv == OpInv /\ LogInv /\ FinishInv
<1>1. Init => Inv
  <2> SUFFICES ASSUME Init PROVE Inv
    OBVIOUS
  <2>1. log = <<Plain("other")>> /\ Recorded(Plain("other")) = "other"
    BY Lines DEF Init, Plain
  <2>2. Plain("other") \in LineType
    BY Lines
  <2> QED
    BY <2>1, <2>2 DEF Init, OpInv, LogInv, FinishInv, FinishedIn,
       OnlyHandsDecideAfterFinish
<1>2. Inv /\ [Next]_vars => Inv'
  <2> SUFFICES ASSUME Inv, [Next]_vars PROVE Inv'
    OBVIOUS
  <2>0. /\ Len(log) \in Nat /\ last \in Nat /\ log \in Seq(LineType)
    BY DEF LogInv
  <2>1. ASSUME NEW o, Begin(o),
               o.event \in LineType,
               \/ o.kind = "init" /\ Recorded(o.event) = "initialized"
               \/ o.kind = "set" /\ Recorded(o.event) = "updated"
               \/ /\ o.kind = "approval" /\ run # "finished"
                  /\ Recorded(o.event) \in {"requested", "recorded"}
               \/ o.kind = "event" /\ Recorded(o.event) = "other"
               \/ o.kind = "finish" /\ Recorded(o.event) = "finished"
        PROVE  Inv'
    <3>1. ~FinishedIn(log) \/ run = "finished"
      BY <2>1 DEF Begin, Coherent, FinishInv
    <3>2. OpInv' /\ LogInv'
      BY <2>1 DEF Begin, Coherent, store, OpInv, LogInv
    <3>3. FinishInv'
      BY <2>1, <3>1 DEF Begin, store, FinishInv, OnlyHandsDecideAfterFinish
    <3> QED
      BY <3>2, <3>3
  <2>2. ASSUME NEW graph \in Graphs, InitPhasePlan(graph)
        PROVE  Inv'
    <3>1. PICK o : Begin(o) /\ o.kind = "init" /\ o.event = Plain("initialized")
      BY <2>2 DEF InitPhasePlan
    <3> QED
      BY <2>1, <3>1, Lines DEF Plain, Event
  <2>3. ASSUME NEW p \in Phase, NEW g \in Given, SetPhase(p, g[1], g[2], g[3])
        PROVE  Inv'
    <3>1. PICK o : /\ Begin(o) /\ o.kind = "set"
                   /\ o.event = Event("updated", p, g[1], g[3])
      BY <2>3 DEF SetPhase
    <3>2. g[1] \in Status /\ g[3] \in Flag
      BY PhasePlanAssumption
    <3>3. Event("updated", p, g[1], g[3]) \in LineType
      BY <3>2, Lines
    <3>4. Recorded(Event("updated", p, g[1], g[3])) = "updated"
      BY Lines
    <3> QED
      BY <2>1, <3>1, <3>3, <3>4
  <2>4. ASSUME NEW p \in Phase, RequestApproval(p)
        PROVE  Inv'
    <3>1. PICK o : /\ Begin(o) /\ o.kind = "approval" /\ run # "finished"
                   /\ o.event = Event("requested", p, "none", "keep")
      BY <2>4 DEF RequestApproval, MayDecide
    <3>2. Recorded(Event("requested", p, "none", "keep")) = "requested"
      BY Lines
    <3> QED
      BY <2>1, <3>1, <3>2, Lines
  <2>5. ASSUME NEW p \in Phase, NEW d \in {"approved", "rejected"},
               RecordApproval(p, d)
        PROVE  Inv'
    <3>1. PICK o : /\ Begin(o) /\ o.kind = "approval" /\ run # "finished"
                   /\ o.event = Event("recorded", p, d, "keep")
      BY <2>5 DEF RecordApproval, MayDecide
    <3>2. Recorded(Event("recorded", p, d, "keep")) = "recorded"
      BY Lines
    <3> QED
      BY <2>1, <3>1, <3>2, Lines
  <2>15. ASSUME NEW line \in HandLine, AppendEvent(line)
         PROVE  Inv'
    <3>1. PICK o : Begin(o) /\ o.kind = "event" /\ o.event = line
      BY <2>15 DEF AppendEvent
    <3> QED
      BY <2>1, <3>1, Lines
  <2>6. CASE FinishRun
    <3>1. PICK o : Begin(o) /\ o.kind = "finish" /\ o.event = Plain("finished")
      BY <2>6 DEF FinishRun
    <3> QED
      BY <2>1, <3>1, Lines DEF Plain, Event
  <2>7. CASE AppendLine
    <3>0. PICK n \in Nat : n = Len(log) + 1
      BY <2>0
    <3>1. /\ op.event \in LineType /\ step = "append" /\ Len(log) = last
          /\ log' = Append(log, op.event) /\ UNCHANGED <<run, last, op>>
      BY <2>7 DEF AppendLine, OpInv, LogInv
    <3>2. /\ Len(log') = n /\ log'[n] = op.event
          /\ log' \in Seq(LineType)
          /\ \A i \in 1 .. Len(log) : log'[i] = log[i]
          /\ 1 .. n = 1 .. Len(log) \cup {n}
      BY <2>0, <3>0, <3>1
    <3>3. /\ step' \in {"plan", "run", "status"}
          /\ Recorded(op.event) = "finished" => step' = "run"
          /\ Recorded(op.event) \in {"requested", "recorded"} =>
               run # "finished"
      BY <2>7 DEF AppendLine, OpInv, FinishInv
    <3>4. FinishedIn(log) => run = "finished"
      BY <3>1 DEF FinishInv
    <3>5. OnlyHandsDecideAfterFinish'
      BY <2>0, <3>0, <3>2, <3>3, <3>4
         DEF OnlyHandsDecideAfterFinish, FinishInv, FinishedIn
    <3>6. FinishedIn(log') =>
            run = "finished" \/ step' = "run"
      BY <3>2, <3>3, <3>4 DEF FinishedIn
    <3>7. OpInv' /\ LogInv'
      BY <2>0, <3>0, <3>1, <3>2, <3>3 DEF OpInv, LogInv
    <3> QED
      BY <2>0, <3>0, <3>1, <3>2, <3>3, <3>5, <3>6, <3>7 DEF FinishInv
  <2>8. CASE WritePlan
    BY <2>8 DEF WritePlan, OpInv, LogInv, FinishInv, OnlyHandsDecideAfterFinish
  <2>9. CASE WriteMetadata
    BY <2>9 DEF WriteMetadata, OpInv, LogInv, FinishInv,
       OnlyHandsDecideAfterFinish
  <2>10. CASE ReplaceStatus
    BY <2>10 DEF ReplaceStatus, OpInv, LogInv, FinishInv,
       OnlyHandsDecideAfterFinish
  <2>11. CASE Stop
    BY <2>0, <2>11
       DEF Stop, store, OpInv, LogInv, FinishInv, OnlyHandsDecideAfterFinish
  <2>12. CASE ReadPlan \/ ValidatePhasePlan
    BY <2>12 DEF ReadPlan, ValidatePhasePlan, store, OpInv, LogInv, FinishInv,
       OnlyHandsDecideAfterFinish
  <2>13. CASE EditPlan
    BY <2>13 DEF EditPlan, Edited, OpInv, LogInv, FinishInv,
       OnlyHandsDecideAfterFinish
  <2>14. CASE UNCHANGED vars
    BY <2>14 DEF vars, store, OpInv, LogInv, FinishInv,
       OnlyHandsDecideAfterFinish
  <2> QED
    BY <2>2, <2>3, <2>4, <2>5, <2>6, <2>7, <2>8, <2>9, <2>10, <2>11, <2>12,
       <2>13, <2>14, <2>15 DEF Next
<1> QED
  BY <1>1, <1>2, PTL DEF Spec

\* Once the helper has recorded that a run is finished it records no approval
\* for it; a later one in the log was appended by hand.
THEOREM AfterFinishOnlyHandsDecide == Spec => []OnlyHandsDecideAfterFinish
BY FinishHolds, PTL DEF FinishInv

-----------------------------------------------------------------------------
(***************************************************************************)
(* What a log says of the plan, with the log as a parameter.               *)
(***************************************************************************)

\* The largest of a bounded set of numbers is what Max chooses.
LEMMA MaxIsLargest ==
  ASSUME NEW n \in Nat, NEW S \in SUBSET (0 .. n), S # {}
  PROVE  Max(S) \in S /\ \A x \in S : x <= Max(S)
<1> DEFINE Above(x) == {y \in S : y > x}
           T == {Above(x) : x \in S}
<1>1. IsFiniteSet(S)
  <2>1. S \in SUBSET Nat /\ \A x \in S : x <= n
    OBVIOUS
  <2> QED
    BY <2>1, FS_BoundedSetOfNaturals
<1>2. T \subseteq FiniteSubsetsOf(S)
  BY <1>1, FS_Subset DEF FiniteSubsetsOf
<1>3. T # {}
  OBVIOUS
<1>4. PICK t \in T : \A u \in T : <<u, t>> \notin StrictSubsetOrdering(S)
  BY <1>2, <1>3, FS_StrictSubsetOrderingWellFounded, WFMin, Zenon
<1>5. PICK x \in S : t = Above(x)
  OBVIOUS
<1>6. ASSUME NEW y \in S, y > x
      PROVE  FALSE
  <2>1. /\ Above(y) \in T /\ Above(y) \subseteq Above(x)
        /\ y \in Above(x) /\ y \notin Above(y)
    <3>1. S \subseteq Nat /\ x \in Nat /\ y \in Nat
      OBVIOUS
    <3>2. Above(y) \in T
      OBVIOUS
    <3>3. ASSUME NEW z \in Above(y) PROVE z \in Above(x)
      BY <1>6, <3>1
    <3>4. y \in Above(x) /\ y \notin Above(y)
      BY <1>6, <3>1
    <3>5. Above(y) \subseteq Above(x)
      BY <3>3, Zenon
    <3> HIDE DEF T, Above
    <3> QED
      BY <3>2, <3>4, <3>5
  <2>2. <<Above(y), Above(x)>> \in StrictSubsetOrdering(S)
    BY <2>1 DEF StrictSubsetOrdering
  <2> QED
    BY <1>4, <1>5, <2>1, <2>2
<1>7. \A y \in S : x >= y
  BY <1>6
<1> QED
  BY <1>7 DEF Max

LastInitIn(lines, n) ==
  Max({0} \cup {i \in 1 .. n : Recorded(lines[i]) = "initialized"})
SetsIn(lines, n, p) ==
  {i \in LastInitIn(lines, n) .. n :
     i > 0 /\ Recorded(lines[i]) = "updated" /\ lines[i].phase = p}
FlagsIn(lines, n, p) == {i \in SetsIn(lines, n, p) : lines[i].flag # "keep"}
LastSetIn(lines, n, p) == Max({LastInitIn(lines, n)} \cup SetsIn(lines, n, p))
LastFlagIn(lines, n, p) ==
  Max({LastInitIn(lines, n)} \cup FlagsIn(lines, n, p))
SaysIn(lines, n, p, status) ==
  IF LastSetIn(lines, n, p) \in SetsIn(lines, n, p)
  THEN lines[LastSetIn(lines, n, p)].status = status
  ELSE status = "pending"
SaysFlagIn(lines, n, p) ==
  /\ LastFlagIn(lines, n, p) \in SetsIn(lines, n, p)
  /\ lines[LastFlagIn(lines, n, p)].flag = "yes"

\* The row of p among rows is what the first n lines say, as far as it has not
\* been changed by hand since line when.
Agrees(lines, n, p, rows, when) ==
  /\ when <= LastSetIn(lines, n, p) =>
       /\ p \in DOMAIN rows =>
            /\ LastInitIn(lines, n) > 0
            /\ SaysIn(lines, n, p, rows[p].status)
       /\ SetsIn(lines, n, p) # {} => p \in DOMAIN rows
  /\ when <= LastFlagIn(lines, n, p) =>
       (p \in DOMAIN rows => rows[p].approval = SaysFlagIn(lines, n, p))

\* A plan that is missing or unreadable has no rows.
RowsOf(file) ==
  IF file \notin {NoPlan, Unreadable} THEN file ELSE [p \in {} |-> Pending]

\* The last of a set of lines is one of them.
LEMMA LastLines ==
  ASSUME NEW lines, NEW n \in Nat, NEW p
  PROVE  /\ LastInitIn(lines, n) \in 0 .. n
         /\ LastInitIn(lines, n) > 0 =>
              Recorded(lines[LastInitIn(lines, n)]) = "initialized"
         /\ \A i \in 1 .. n : Recorded(lines[i]) = "initialized" =>
              i <= LastInitIn(lines, n)
         /\ LastSetIn(lines, n, p) \in {LastInitIn(lines, n)} \cup SetsIn(lines, n, p)
         /\ \A i \in {LastInitIn(lines, n)} \cup SetsIn(lines, n, p) :
              i <= LastSetIn(lines, n, p)
         /\ LastFlagIn(lines, n, p) \in {LastInitIn(lines, n)} \cup FlagsIn(lines, n, p)
         /\ \A i \in {LastInitIn(lines, n)} \cup FlagsIn(lines, n, p) :
              i <= LastFlagIn(lines, n, p)
         /\ SetsIn(lines, n, p) \subseteq 1 .. n
         /\ LastSetIn(lines, n, p) \in 0 .. n
         /\ LastFlagIn(lines, n, p) \in 0 .. n
<1> DEFINE I == {0} \cup {i \in 1 .. n : Recorded(lines[i]) = "initialized"}
           S == {LastInitIn(lines, n)} \cup SetsIn(lines, n, p)
           F == {LastInitIn(lines, n)} \cup FlagsIn(lines, n, p)
<1>1. I \in SUBSET (0 .. n) /\ I # {}
  OBVIOUS
<1>2. LastInitIn(lines, n) \in I /\ \A i \in I : i <= LastInitIn(lines, n)
  BY <1>1, MaxIsLargest DEF LastInitIn
<1>3. LastInitIn(lines, n) \in 0 .. n
  BY <1>1, <1>2
<1>4. SetsIn(lines, n, p) \subseteq 1 .. n
  BY <1>3 DEF SetsIn
<1>5. S \in SUBSET (0 .. n) /\ F \in SUBSET (0 .. n) /\ S # {} /\ F # {}
  BY <1>3, <1>4 DEF FlagsIn
<1>6. LastSetIn(lines, n, p) = Max(S) /\ LastFlagIn(lines, n, p) = Max(F)
  BY DEF LastSetIn, LastFlagIn
<1>7. /\ Max(S) \in S /\ \A i \in S : i <= Max(S)
      /\ Max(F) \in F /\ \A i \in F : i <= Max(F)
  BY <1>5, MaxIsLargest
<1> HIDE DEF S, F
<1>8. Max(S) \in 0 .. n /\ Max(F) \in 0 .. n
  BY <1>5, <1>7
<1>9. /\ LastInitIn(lines, n) > 0 =>
           Recorded(lines[LastInitIn(lines, n)]) = "initialized"
      /\ \A i \in 1 .. n : Recorded(lines[i]) = "initialized" =>
           i <= LastInitIn(lines, n)
  BY <1>2, <1>3
<1> QED
  BY <1>3, <1>4, <1>6, <1>7, <1>8, <1>9 DEF S, F

\* Nothing but the first n lines counts.
LEMMA PrefixSays ==
  ASSUME NEW lines, NEW more, NEW n \in Nat,
         NEW p, NEW rows, NEW when,
         \A i \in 1 .. n : more[i] = lines[i]
  PROVE  /\ LastInitIn(more, n) = LastInitIn(lines, n)
         /\ LastFlagIn(more, n, p) = LastFlagIn(lines, n, p)
         /\ SaysFlagIn(more, n, p) = SaysFlagIn(lines, n, p)
         /\ Agrees(more, n, p, rows, when) = Agrees(lines, n, p, rows, when)
<1>1. LastInitIn(more, n) = LastInitIn(lines, n)
  <2>1. {i \in 1 .. n : Recorded(more[i]) = "initialized"} =
          {i \in 1 .. n : Recorded(lines[i]) = "initialized"}
    OBVIOUS
  <2> QED
    BY <2>1 DEF LastInitIn
<1>2. LastInitIn(lines, n) \in 0 .. n
  BY LastLines
<1>3. SetsIn(more, n, p) = SetsIn(lines, n, p)
  <2>1. \A i \in LastInitIn(lines, n) .. n : i > 0 => more[i] = lines[i]
    BY <1>2
  <2> QED
    BY <1>1, <2>1 DEF SetsIn
<1>4. SetsIn(lines, n, p) \subseteq 1 .. n
  BY LastLines
<1>5. FlagsIn(more, n, p) = FlagsIn(lines, n, p)
  BY <1>3, <1>4 DEF FlagsIn
<1>6. /\ LastSetIn(more, n, p) = LastSetIn(lines, n, p)
      /\ LastFlagIn(more, n, p) = LastFlagIn(lines, n, p)
  BY <1>1, <1>3, <1>5 DEF LastSetIn, LastFlagIn
<1>7. \A s : SaysIn(more, n, p, s) = SaysIn(lines, n, p, s)
  BY <1>3, <1>4, <1>6 DEF SaysIn
<1>8. SaysFlagIn(more, n, p) = SaysFlagIn(lines, n, p)
  BY <1>3, <1>4, <1>6 DEF SaysFlagIn
<1> QED
  BY <1>1, <1>3, <1>6, <1>7, <1>8 DEF Agrees

\* A line that is neither an init nor a set of the phase says nothing of it.
LEMMA OtherLineSays ==
  ASSUME NEW lines, NEW n \in Nat, NEW p, NEW rows, NEW when,
         Recorded(lines[n + 1]) # "initialized",
         Recorded(lines[n + 1]) = "updated" => lines[n + 1].phase # p
  PROVE  /\ LastInitIn(lines, n + 1) = LastInitIn(lines, n)
         /\ Agrees(lines, n + 1, p, rows, when) = Agrees(lines, n, p, rows, when)
<1>0. \A i \in 1 .. n + 1 : i \in 1 .. n \/ i = n + 1
  OBVIOUS
<1>1. LastInitIn(lines, n + 1) = LastInitIn(lines, n)
  <2>1. {i \in 1 .. n + 1 : Recorded(lines[i]) = "initialized"} =
          {i \in 1 .. n : Recorded(lines[i]) = "initialized"}
    BY <1>0
  <2> QED
    BY <2>1 DEF LastInitIn
<1>2. LastInitIn(lines, n) \in 0 .. n
  BY LastLines
<1>3. SetsIn(lines, n + 1, p) = SetsIn(lines, n, p)
  <2>1. \A i \in LastInitIn(lines, n) .. n + 1 :
          i \in LastInitIn(lines, n) .. n \/ i = n + 1
    BY <1>2
  <2>2. \A i \in LastInitIn(lines, n) .. n : i \in LastInitIn(lines, n) .. n + 1
    BY <1>2
  <2> QED
    BY <1>1, <2>1, <2>2 DEF SetsIn
<1>4. FlagsIn(lines, n + 1, p) = FlagsIn(lines, n, p)
  BY <1>3 DEF FlagsIn
<1>5. /\ LastSetIn(lines, n + 1, p) = LastSetIn(lines, n, p)
      /\ LastFlagIn(lines, n + 1, p) = LastFlagIn(lines, n, p)
  BY <1>1, <1>3, <1>4 DEF LastSetIn, LastFlagIn
<1> QED
  BY <1>1, <1>3, <1>5 DEF Agrees, SaysIn, SaysFlagIn

\* After an init every row of the plan is pending, and flagged by nobody.
LEMMA InitSays ==
  ASSUME NEW lines, NEW n \in Nat, NEW p, NEW rows, NEW when,
         Recorded(lines[n + 1]) = "initialized",
         p \in DOMAIN rows => rows[p] = Pending
  PROVE  Agrees(lines, n + 1, p, rows, when)
<1>1. LastInitIn(lines, n + 1) = n + 1
  <2>1. n + 1 <= LastInitIn(lines, n + 1)
        /\ LastInitIn(lines, n + 1) \in 0 .. n + 1
    BY LastLines
  <2> QED
    BY <2>1
<1>2. SetsIn(lines, n + 1, p) = {}
  BY <1>1 DEF SetsIn
<1>3. SaysFlagIn(lines, n + 1, p) = FALSE /\ SaysIn(lines, n + 1, p, "pending")
  BY <1>2 DEF SaysFlagIn, SaysIn
<1>4. p \in DOMAIN rows => rows[p].status = "pending"
      /\ rows[p].approval = FALSE
  BY DEF Pending, Row
<1>5. LastInitIn(lines, n + 1) > 0
  BY <1>1
<1>6. p \in DOMAIN rows => SaysIn(lines, n + 1, p, rows[p].status)
  BY <1>3, <1>4
<1>7. p \in DOMAIN rows => rows[p].approval = SaysFlagIn(lines, n + 1, p)
  BY <1>3, <1>4
<1> QED
  BY <1>2, <1>5, <1>6, <1>7 DEF Agrees

\* After a set the row has the status and the flag it gave, and the flag of
\* before if it gave none.
LEMMA SetSays ==
  ASSUME NEW lines, NEW n \in Nat, NEW p, NEW rows, NEW when,
         Recorded(lines[n + 1]) = "updated", lines[n + 1].phase = p,
         p \in DOMAIN rows, LastInitIn(lines, n) > 0,
         rows[p].status = lines[n + 1].status,
         lines[n + 1].flag # "keep" =>
           rows[p].approval = (lines[n + 1].flag = "yes"),
         lines[n + 1].flag = "keep" /\ when <= LastFlagIn(lines, n, p) =>
           rows[p].approval = SaysFlagIn(lines, n, p)
  PROVE  Agrees(lines, n + 1, p, rows, when)
<1>0. \A i \in 1 .. n + 1 : i \in 1 .. n \/ i = n + 1
  OBVIOUS
<1>1. LastInitIn(lines, n + 1) = LastInitIn(lines, n)
  <2>1. {i \in 1 .. n + 1 : Recorded(lines[i]) = "initialized"} =
          {i \in 1 .. n : Recorded(lines[i]) = "initialized"}
    BY <1>0
  <2> QED
    BY <2>1 DEF LastInitIn
<1>2. LastInitIn(lines, n) \in 1 .. n
  <2>1. LastInitIn(lines, n) \in 0 .. n
    BY LastLines
  <2> QED
    BY <2>1
<1>3. SetsIn(lines, n + 1, p) = SetsIn(lines, n, p) \cup {n + 1}
  <2>1. \A i \in LastInitIn(lines, n) .. n + 1 :
          i \in LastInitIn(lines, n) .. n \/ i = n + 1
    BY <1>2
  <2>2. /\ \A i \in LastInitIn(lines, n) .. n : i \in LastInitIn(lines, n) .. n + 1
        /\ n + 1 \in LastInitIn(lines, n) .. n + 1 /\ n + 1 > 0
    BY <1>2
  <2> QED
    BY <1>1, <2>1, <2>2 DEF SetsIn
<1>4. LastSetIn(lines, n + 1, p) = n + 1
  <2>0. n + 1 \in Nat
    OBVIOUS
  <2>1. n + 1 <= LastSetIn(lines, n + 1, p)
        /\ LastSetIn(lines, n + 1, p) \in 0 .. n + 1
    BY <1>3, <2>0, LastLines
  <2> QED
    BY <2>1
<1>5. SaysIn(lines, n + 1, p, rows[p].status)
  BY <1>3, <1>4 DEF SaysIn
<1>6. CASE lines[n + 1].flag # "keep"
  <2>1. n + 1 \in FlagsIn(lines, n + 1, p)
    BY <1>3, <1>6 DEF FlagsIn
  <2>2. LastFlagIn(lines, n + 1, p) = n + 1
    <3>0. n + 1 \in Nat
      OBVIOUS
    <3>1. n + 1 <= LastFlagIn(lines, n + 1, p)
          /\ LastFlagIn(lines, n + 1, p) \in 0 .. n + 1
      BY <2>1, <3>0, LastLines
    <3> QED
      BY <3>1
  <2>3. SaysFlagIn(lines, n + 1, p) = (lines[n + 1].flag = "yes")
    BY <1>3, <2>2 DEF SaysFlagIn
  <2> QED
    BY <1>1, <1>2, <1>5, <1>6, <2>3 DEF Agrees
<1>7. CASE lines[n + 1].flag = "keep"
  <2>1. FlagsIn(lines, n + 1, p) = FlagsIn(lines, n, p)
    BY <1>3, <1>7 DEF FlagsIn
  <2>2. LastFlagIn(lines, n + 1, p) = LastFlagIn(lines, n, p)
    BY <1>1, <2>1 DEF LastFlagIn
  <2>3. LastFlagIn(lines, n, p) \in 0 .. n
    BY LastLines
  <2>4. SaysFlagIn(lines, n + 1, p) = SaysFlagIn(lines, n, p)
    BY <1>3, <2>2, <2>3 DEF SaysFlagIn
  <2> QED
    BY <1>1, <1>2, <1>5, <1>7, <2>2, <2>4 DEF Agrees
<1> QED
  BY <1>6, <1>7

-----------------------------------------------------------------------------
(***************************************************************************)
(* The plan is what the log says, up to its last event or the one before.  *)
(***************************************************************************)

PlanType == UNION {[S -> RowType] : S \in SUBSET Phase}

AgreeAt(lines, n, file, marks) ==
  \A p \in Phase : Agrees(lines, n, p, RowsOf(file), marks[p])

\* Rows as the first n lines say them, with event e carried out.
SetsRow(lines, n, marks, rows, e) ==
  /\ Recorded(e) = "updated" /\ e.phase \in DOMAIN rows
  /\ LastInitIn(lines, n) > 0
  /\ rows[e.phase].status = e.status
  /\ e.flag # "keep" => rows[e.phase].approval = (e.flag = "yes")
  /\ e.flag = "keep" /\ marks[e.phase] <= LastFlagIn(lines, n, e.phase) =>
       rows[e.phase].approval = SaysFlagIn(lines, n, e.phase)
  /\ \A q \in Phase \ {e.phase} : Agrees(lines, n, q, rows, marks[q])

\* What a command that will write the plan has in flight.
PlannedInv ==
  /\ step = "plan" => op.kind \in {"init", "set"} /\ log[last + 1] = op.event
  /\ step \in {"append", "plan"} /\ op.kind \in {"init", "set"} =>
       /\ op.plan \in PlanType
       /\ op.kind = "init" =>
            /\ Recorded(op.event) = "initialized"
            /\ \A p \in DOMAIN op.plan : op.plan[p] = Pending
       /\ op.kind = "set" => SetsRow(log, last, touched, op.plan, op.event)

Initialised(lines) ==
  \E i \in 1 .. Len(lines) : Recorded(lines[i]) = "initialized"

PlanInv ==
  /\ plan \in PlanType \cup {NoPlan, Unreadable}
  /\ plan # NoPlan => Initialised(log)
  /\ step = "plan" \/ Len(log) = last => AgreeAt(log, last, plan, touched)
  /\ step \in {"run", "status"} => AgreeAt(log, last + 1, plan, touched)
  /\ \/ AgreeAt(log, last, plan, touched)
     \/ AgreeAt(log, Len(log), plan, touched)

\* A plan has rows for phases, and is a file that can be read.
LEMMA PlanRows ==
  ASSUME NEW rows \in PlanType
  PROVE  /\ rows \notin {NoPlan, Unreadable} /\ RowsOf(rows) = rows
         /\ DOMAIN rows \subseteq Phase
         /\ \A p \in DOMAIN rows : rows[p] \in RowType
<1>1. PICK S \in SUBSET Phase : rows \in [S -> RowType]
  BY DEF PlanType
<1>2. {NoPlan, Unreadable} \cap [S -> RowType] = {}
  BY PhasePlanAssumption
<1> QED
  BY <1>1, <1>2 DEF RowsOf

\* Rows with a set carried out are what the log says with the set.
LEMMA SetWrites ==
  ASSUME NEW lines, NEW n \in Nat, NEW marks, NEW rows,
         SetsRow(lines, n, marks, rows, lines[n + 1]), NEW p \in Phase
  PROVE  Agrees(lines, n + 1, p, rows, marks[p])
<1>1. CASE p = lines[n + 1].phase
  BY <1>1, SetSays DEF SetsRow
<1>2. CASE p # lines[n + 1].phase
  <2>1. Agrees(lines, n, p, rows, marks[p])
    BY <1>2 DEF SetsRow
  <2>2. Agrees(lines, n + 1, p, rows, marks[p]) = Agrees(lines, n, p, rows, marks[p])
    BY <1>2, OtherLineSays DEF SetsRow
  <2> QED
    BY <2>1, <2>2
<1> QED
  BY <1>1, <1>2

\* A row that was changed by hand after line n need not be what it says.
LEMMA TouchedAgrees ==
  ASSUME NEW lines, NEW m \in Nat, NEW n \in 0 .. m, NEW p, NEW rows
  PROVE  Agrees(lines, n, p, rows, m + 1)
         /\ ~ (m + 1 <= LastFlagIn(lines, n, p))
<1>1. LastSetIn(lines, n, p) \in 0 .. n /\ LastFlagIn(lines, n, p) \in 0 .. n
  <2>1. n \in Nat
    OBVIOUS
  <2> QED
    BY <2>1, LastLines
<1> QED
  BY <1>1 DEF Agrees

\* A log that has an init says that the plan was initialised.
LEMMA InitialisedSays ==
  ASSUME NEW lines \in Seq(LineType), Initialised(lines)
  PROVE  LastInitIn(lines, Len(lines)) > 0
<1>1. PICK i \in 1 .. Len(lines) : Recorded(lines[i]) = "initialized"
  BY DEF Initialised
<1>2. Len(lines) \in Nat
  OBVIOUS
<1>3. i <= LastInitIn(lines, Len(lines)) /\ LastInitIn(lines,
      Len(lines)) \in 0 .. Len(lines)
  BY <1>1, <1>2, LastLines
<1> QED
  BY <1>3

\* Rows are what the log says after an edit if they were before it.
LEMMA EditAgrees ==
  ASSUME EditPlan, Len(log) \in Nat, PlanInv, NEW n \in 0 .. Len(log),
         NEW rows, NEW p \in Phase
  PROVE  /\ log' = log
         /\ Agrees(log, n, p, rows, touched[p]) =>
              Agrees(log, n, p, rows, touched'[p])
         /\ Agrees(log, n, p, RowsOf(plan), touched[p]) =>
              Agrees(log, n, p, RowsOf(plan'), touched'[p])
         /\ touched'[p] <= LastFlagIn(log, n, p) => touched'[p] = touched[p]
         /\ touched'[p] = 0 => touched[p] = 0
         /\ plan' \in PlanType \cup {NoPlan, Unreadable}
         /\ plan # NoPlan
<1>1. ASSUME NEW r \in Phase, HasPlan,
             plan' = [q \in DOMAIN plan \cup {r} |->
                        IF q = r THEN Row("complete", FALSE,
                        FALSE) ELSE plan[q]],
             Edited({r})
      PROVE  /\ RowsOf(plan') = plan' /\ plan' \in PlanType
                /\ RowsOf(plan) = plan
             /\ p # r => /\ touched'[p] = touched[p]
                         /\ p \in DOMAIN plan' <=> p \in DOMAIN plan
                         /\ p \in DOMAIN plan => plan'[p] = plan[p]
             /\ p = r => touched'[p] = Len(log) + 1
  <2>1. plan \in PlanType
    BY <1>1 DEF PlanInv, HasPlan
  <2>2. Row("complete", FALSE, FALSE) \in RowType
    BY DEF Row, RowType, Status
  <2>3. plan' \in [DOMAIN plan \cup {r} -> RowType]
    BY <1>1, <2>1, <2>2, PlanRows
  <2>4. DOMAIN plan \cup {r} \in SUBSET Phase
    BY <2>1, PlanRows
  <2>5. plan' \in PlanType
    BY <2>3, <2>4 DEF PlanType
  <2>6. RowsOf(plan') = plan' /\ RowsOf(plan) = plan
    BY <2>1, <2>5, PlanRows
  <2> QED
    BY <1>1, <2>5, <2>6 DEF Edited
<1>2. ASSUME NEW r \in Phase, HasPlan,
             plan' = [q \in DOMAIN plan \cup {r} |->
                        IF q = r THEN Row("complete", FALSE,
                        FALSE) ELSE plan[q]],
             Edited({r}), p # r,
             Agrees(log, n, p, RowsOf(plan), touched[p])
      PROVE  Agrees(log, n, p, RowsOf(plan'), touched'[p])
  BY <1>1, <1>2 DEF Agrees
<1>3. ASSUME plan # NoPlan, plan' \in {NoPlan, Unreadable}, Edited(Phase)
      PROVE  touched'[p] = Len(log) + 1
  BY <1>3 DEF Edited
<1>4. \A any : /\ Agrees(log, n, p, any, Len(log) + 1)
               /\ ~ (Len(log) + 1 <= LastFlagIn(log, n, p))
  BY TouchedAgrees
<1>5. log' = log
  BY DEF EditPlan, Edited
<1>6. Len(log) + 1 # 0
  OBVIOUS
<1>7. CASE plan # NoPlan /\ plan' \in {NoPlan, Unreadable} /\ Edited(Phase)
  BY <1>3, <1>4, <1>5, <1>6, <1>7
<1>8. ASSUME NEW r \in Phase, HasPlan,
             plan' = [q \in DOMAIN plan \cup {r} |->
                        IF q = r THEN Row("complete", FALSE,
                        FALSE) ELSE plan[q]],
             Edited({r})
      PROVE  /\ Agrees(log, n, p, rows, touched[p]) =>
                  Agrees(log, n, p, rows, touched'[p])
             /\ Agrees(log, n, p, RowsOf(plan), touched[p]) =>
                  Agrees(log, n, p, RowsOf(plan'), touched'[p])
             /\ touched'[p] <= LastFlagIn(log, n, p) => touched'[p] = touched[p]
             /\ touched'[p] = 0 => touched[p] = 0
             /\ plan' \in PlanType \cup {NoPlan, Unreadable}
             /\ plan # NoPlan
  <2>1. CASE p = r
    BY <1>1, <1>4, <1>6, <1>8, <2>1 DEF HasPlan
  <2>2. CASE p # r
    BY <1>1, <1>2, <1>8, <2>2 DEF HasPlan
  <2> QED
    BY <2>1, <2>2
<1> QED
  BY <1>5, <1>7, <1>8 DEF EditPlan

BaseInv == OpInv /\ LogInv /\ FinishInv

\* A command that begins has in flight what the log will say.
LEMMA BeginPlans ==
  ASSUME BaseInv, PlanInv, NEW o, Begin(o),
         o.kind \in {"init", "set"} =>
           /\ o.plan \in PlanType
           /\ o.kind = "init" =>
                /\ Recorded(o.event) = "initialized"
                /\ \A p \in DOMAIN o.plan : o.plan[p] = Pending
           /\ o.kind = "set" => SetsRow(log, last, touched, o.plan, o.event)
  PROVE  PlanInv' /\ PlannedInv'
<1>1. /\ op' = o /\ step' = "append" /\ Len(log) = last
      /\ UNCHANGED <<run, plan, log, last, touched>>
  BY DEF Begin, store, Coherent
<1>2. PlanInv'
  BY <1>1 DEF PlanInv
<1>3. PlannedInv'
  BY <1>1 DEF PlannedInv
<1> QED
  BY <1>2, <1>3

\* What the events say once the one in flight has been appended.
LEMMA AppendPlans ==
  ASSUME BaseInv, PlanInv, PlannedInv, AppendLine
  PROVE  PlanInv' /\ PlannedInv'
<1>1. /\ step = "append" /\ Len(log) = last /\ last \in Nat
         /\ log \in Seq(LineType)
      /\ op.event \in LineType /\ log' = Append(log, op.event)
      /\ UNCHANGED <<plan, last, op, touched>>
  BY DEF AppendLine, BaseInv, OpInv, LogInv
<1>2. /\ Len(log') = last + 1 /\ log'[last + 1] = op.event
      /\ \A i \in 1 .. last : log'[i] = log[i]
  BY <1>1
<1>0. \A p, rows, when :
         /\ LastInitIn(log', last) = LastInitIn(log, last)
         /\ LastFlagIn(log', last, p) = LastFlagIn(log, last, p)
         /\ SaysFlagIn(log', last, p) = SaysFlagIn(log, last, p)
         /\ Agrees(log', last, p, rows, when) = Agrees(log, last, p, rows, when)
  <2>1. ASSUME NEW more, more = log', NEW p, NEW rows, NEW when
        PROVE  /\ LastInitIn(more, last) = LastInitIn(log, last)
               /\ LastFlagIn(more, last, p) = LastFlagIn(log, last, p)
               /\ SaysFlagIn(more, last, p) = SaysFlagIn(log, last, p)
               /\ Agrees(more, last, p, rows, when) = Agrees(log, last, p, rows, when)
    <3>1. \A i \in 1 .. last : more[i] = log[i]
      BY <1>2, <2>1
    <3>2. last \in Nat
      BY <1>1
    <3>3. PICK n \in Nat : n = last
      BY <3>2
    <3>4. PICK lines : lines = log
      OBVIOUS
    <3>5. \A i \in 1 .. n : more[i] = lines[i]
      BY <3>1, <3>3, <3>4
    <3>6. /\ LastInitIn(more, n) = LastInitIn(lines, n)
          /\ LastFlagIn(more, n, p) = LastFlagIn(lines, n, p)
          /\ SaysFlagIn(more, n, p) = SaysFlagIn(lines, n, p)
          /\ Agrees(more, n, p, rows, when) = Agrees(lines, n, p, rows, when)
      BY <3>5, PrefixSays
    <3> QED
      BY <3>3, <3>4, <3>6
  <2> QED
    BY <2>1
<1>3. AgreeAt(log', last, plan, touched)
  <2>1. AgreeAt(log, last, plan, touched)
    BY <1>1 DEF PlanInv
  <2> QED
    BY <1>0, <2>1 DEF AgreeAt
<1>4. Initialised(log) => Initialised(log')
  BY <1>1, <1>2 DEF Initialised
<1>5. CASE op.kind \in {"init", "set"}
  <2>1. step' = "plan"
    BY <1>5 DEF AppendLine
  <2>2. PlanInv'
    BY <1>1, <1>2, <1>3, <1>4, <2>1 DEF PlanInv
  <2>3. SetsRow(log, last, touched, op.plan, op.event) =>
          SetsRow(log', last, touched, op.plan, op.event)
    BY <1>0 DEF SetsRow
  <2>4. PlannedInv'
    <3>1. /\ op.plan \in PlanType
          /\ op.kind = "init" =>
               /\ Recorded(op.event) = "initialized"
               /\ \A p \in DOMAIN op.plan : op.plan[p] = Pending
          /\ op.kind = "set" => SetsRow(log, last, touched, op.plan, op.event)
      BY <1>1, <1>5 DEF PlannedInv
    <3> QED
      BY <1>1, <1>2, <1>5, <2>1, <2>3, <3>1 DEF PlannedInv
  <2> QED
    BY <2>2, <2>4
<1>6. CASE op.kind \notin {"init", "set"}
  <2>1. step' \in {"run", "status"}
    BY <1>6 DEF AppendLine
  <2>2. Recorded(op.event) \notin {"initialized", "updated"}
    BY <1>1, <1>6 DEF BaseInv, OpInv
  <2>3. AgreeAt(log', last + 1, plan, touched)
    <3> SUFFICES ASSUME NEW p \in Phase
                 PROVE  Agrees(log', last + 1, p, RowsOf(plan), touched[p])
      BY DEF AgreeAt
    <3>1. Agrees(log', last, p, RowsOf(plan), touched[p])
      BY <1>3 DEF AgreeAt
    <3>2. ASSUME NEW more, more = log', NEW rows, NEW when,
                 Agrees(more, last, p, rows, when)
          PROVE  Agrees(more, last + 1, p, rows, when)
      <4>1. /\ Recorded(more[last + 1]) # "initialized"
            /\ Recorded(more[last + 1]) = "updated" => more[last + 1].phase # p
        BY <1>2, <2>2, <3>2
      <4>2. last \in Nat
        BY <1>1
      <4>3. Agrees(more, last + 1, p, rows, when) = Agrees(more, last, p, rows, when)
        BY <4>1, <4>2, OtherLineSays, Zenon
      <4> QED
        BY <3>2, <4>3
    <3> QED
      BY <3>1, <3>2
  <2>4. PlanInv'
    BY <1>1, <1>2, <1>3, <1>4, <2>1, <2>3 DEF PlanInv
  <2>5. PlannedInv'
    BY <2>1 DEF PlannedInv
  <2> QED
    BY <2>4, <2>5
<1> QED
  BY <1>5, <1>6

\* The plan is written as the last event has it.
LEMMA WritePlans ==
  ASSUME BaseInv, PlanInv, PlannedInv, WritePlan
  PROVE  PlanInv' /\ PlannedInv'
<1>1. /\ step = "plan" /\ step' = "status" /\ plan' = op.plan
      /\ UNCHANGED <<log, last, touched>>
      /\ Len(log) = last + 1 /\ last \in Nat /\ log \in Seq(LineType)
      /\ log[last + 1] = op.event /\ op.kind \in {"init", "set"}
  BY DEF WritePlan, BaseInv, LogInv, PlannedInv
<1>2. /\ op.plan \in PlanType /\ RowsOf(op.plan) = op.plan
      /\ op.plan \notin {NoPlan, Unreadable}
      /\ op.kind = "init" =>
           /\ Recorded(op.event) = "initialized"
           /\ \A p \in DOMAIN op.plan : op.plan[p] = Pending
      /\ op.kind = "set" => SetsRow(log, last, touched, op.plan, op.event)
  <2>1. op.plan \in PlanType
    BY <1>1 DEF PlannedInv
  <2> QED
    BY <1>1, <2>1, PlanRows DEF PlannedInv
<1>3. AgreeAt(log, last + 1, op.plan, touched)
  <2> SUFFICES ASSUME NEW p \in Phase
               PROVE  Agrees(log, last + 1, p, op.plan, touched[p])
    BY <1>2 DEF AgreeAt
  <2>1. CASE op.kind = "init"
    BY <1>1, <1>2, <2>1, InitSays
  <2>2. CASE op.kind = "set"
    BY <1>1, <1>2, <2>2, SetWrites
  <2> QED
    BY <1>1, <2>1, <2>2
<1>4. Initialised(log)
  <2>1. CASE op.kind = "init"
    BY <1>1, <1>2, <2>1 DEF Initialised
  <2>2. CASE op.kind = "set"
    <3>1. LastInitIn(log, last) > 0
      BY <1>2, <2>2 DEF SetsRow
    <3>2. LastInitIn(log, last) \in 0 .. last
          /\ Recorded(log[LastInitIn(log, last)]) = "initialized"
      BY <1>1, <3>1, LastLines
    <3> QED
      BY <1>1, <3>1, <3>2 DEF Initialised
  <2> QED
    BY <1>1, <2>1, <2>2
<1>5. PlanInv'
  BY <1>1, <1>2, <1>3, <1>4 DEF PlanInv
<1>6. PlannedInv'
  BY <1>1 DEF PlannedInv
<1> QED
  BY <1>5, <1>6

\* An edit marks what it changes.
LEMMA EditPlans ==
  ASSUME BaseInv, PlanInv, PlannedInv, EditPlan
  PROVE  PlanInv' /\ PlannedInv'
<1>1. /\ UNCHANGED <<log, last, op, step>>
      /\ last \in Nat /\ Len(log) \in Nat /\ last <= Len(log)
      /\ step \in {"plan", "run", "status"} => Len(log) = last + 1
      /\ step = "append" => Len(log) = last
  <2>1. UNCHANGED <<log, last, op, step>>
    BY DEF EditPlan, Edited
  <2> QED
    BY <2>1 DEF BaseInv, LogInv
<1>2. ASSUME NEW n \in 0 .. Len(log), AgreeAt(log, n, plan, touched)
      PROVE  AgreeAt(log, n, plan', touched')
  BY <1>1, <1>2, EditAgrees DEF AgreeAt
<1>3. /\ plan' \in PlanType \cup {NoPlan, Unreadable}
      /\ plan # NoPlan
  <2>1. CASE Phase = {}
    <3>1. plan' \in {NoPlan, Unreadable} /\ plan # NoPlan
      BY <2>1 DEF EditPlan
    <3> QED
      BY <3>1
  <2>2. CASE Phase # {}
    <3>1. PICK p \in Phase : TRUE
      BY <2>2
    <3>2. Len(log) \in 0 .. Len(log)
      BY <1>1
    <3> QED
      BY <1>1, <3>1, <3>2, EditAgrees
  <2> QED
    BY <2>1, <2>2
<1>4. last \in 0 .. Len(log) /\ Len(log) \in 0 .. Len(log)
  BY <1>1
<1>5. PlanInv'
  <2>1. step \in {"run", "status"} => AgreeAt(log, last + 1, plan', touched')
    <3>1. step \in {"run", "status"} => last + 1 \in 0 .. Len(log)
      BY <1>1
    <3> QED
      BY <1>2, <3>1 DEF PlanInv
  <2>2. step = "plan" \/ Len(log) = last => AgreeAt(log, last, plan', touched')
    BY <1>2, <1>4 DEF PlanInv
  <2>3. \/ AgreeAt(log, last, plan', touched')
        \/ AgreeAt(log, Len(log), plan', touched')
    BY <1>2, <1>4 DEF PlanInv
  <2>4. Initialised(log)
    BY <1>3 DEF PlanInv
  <2> QED
    BY <1>1, <1>3, <2>1, <2>2, <2>3, <2>4 DEF PlanInv
<1>6. ASSUME op.plan \in PlanType,
             SetsRow(log, last, touched, op.plan, op.event)
      PROVE  SetsRow(log, last, touched', op.plan, op.event)
  <2>1. op.event.phase \in Phase
    BY <1>6, PlanRows DEF SetsRow
  <2>2. touched'[op.event.phase] <= LastFlagIn(log, last, op.event.phase) =>
          touched'[op.event.phase] = touched[op.event.phase]
    BY <1>1, <1>4, <2>1, EditAgrees
  <2>3. \A q \in Phase : Agrees(log, last, q, op.plan, touched[q]) =>
                           Agrees(log, last, q, op.plan, touched'[q])
    BY <1>1, <1>4, EditAgrees
  <2> QED
    BY <1>6, <2>2, <2>3 DEF SetsRow
<1>7. PlannedInv'
  <2>1. step = "plan" => op.kind \in {"init", "set"} /\ log[last + 1] = op.event
    BY DEF PlannedInv
  <2>2. step \in {"append", "plan"} /\ op.kind \in {"init", "set"} =>
       /\ op.plan \in PlanType
       /\ op.kind = "init" =>
            /\ Recorded(op.event) = "initialized"
            /\ \A p \in DOMAIN op.plan : op.plan[p] = Pending
       /\ op.kind = "set" => SetsRow(log, last, touched', op.plan, op.event)
    BY <1>6 DEF PlannedInv
  <2> QED
    BY <1>1, <2>1, <2>2 DEF PlannedInv
<1> QED
  BY <1>5, <1>7

\* Commands, edits and interruptions keep the plan and the log together.
LEMMA PlanStep ==
  ASSUME BaseInv, PlanInv, PlannedInv, [Next]_vars
  PROVE  PlanInv' /\ PlannedInv'
<1>1. ASSUME NEW graph \in Graphs, InitPhasePlan(graph)
      PROVE  PlanInv' /\ PlannedInv'
  <2> DEFINE rows == [p \in RequiredPhases(graph) |-> Pending]
             o == [kind |-> "init", event |-> Plain("initialized"), plan |-> rows]
  <2>1. Begin(o)
    BY <1>1 DEF InitPhasePlan
  <2>2. RequiredPhases(graph) \in SUBSET Phase
    BY PhasePlanAssumption DEF RequiredPhases, Graphs
  <2>3. Pending \in RowType
    BY DEF Pending, Row, RowType, Status
  <2>4. rows \in PlanType
    BY <2>2, <2>3 DEF PlanType
  <2>5. Recorded(o.event) = "initialized"
    BY Lines DEF Plain
  <2>6. \A p \in DOMAIN rows : rows[p] = Pending
    OBVIOUS
  <2>7. o.kind = "init" /\ o.plan = rows
    OBVIOUS
  <2> HIDE DEF rows, o
  <2> QED
    BY <2>1, <2>4, <2>5, <2>6, <2>7, BeginPlans
<1>2. ASSUME NEW p \in Phase, NEW g \in Given, SetPhase(p, g[1], g[2], g[3])
      PROVE  PlanInv' /\ PlannedInv'
  <2> DEFINE row == Updated(plan[p], g[1], g[2], g[3])
             rows == [plan EXCEPT ![p] = row]
             e == Event("updated", p, g[1], g[3])
             o == [kind |-> "set", event |-> e, plan |-> rows]
  <2>1. Begin(o) /\ HasPlan /\ p \in DOMAIN plan
    BY <1>2 DEF SetPhase
  <2>2. g[1] \in Status /\ g[2] \in BOOLEAN /\ g[3] \in Flag
    BY PhasePlanAssumption
  <2>3. plan \in PlanType /\ RowsOf(plan) = plan
    BY <2>1, PlanRows DEF PlanInv, HasPlan
  <2>4. PICK S \in SUBSET Phase : plan \in [S -> RowType]
    BY <2>3 DEF PlanType
  <2>5. row \in RowType /\ row.status = g[1]
        /\ row.approval = IF g[3] = "keep" THEN plan[p].approval ELSE g[3] = "yes"
    BY <2>1, <2>2, <2>4 DEF Updated, Row, RowType
  <2>6. rows \in [S -> RowType] /\ rows[p] = row /\ DOMAIN rows = DOMAIN plan
        /\ \A q \in Phase \ {p} : q \in DOMAIN plan => rows[q] = plan[q]
    BY <2>1, <2>4, <2>5
  <2>7. rows \in PlanType
    BY <2>6 DEF PlanType
  <2>8. /\ Recorded(e) = "updated" /\ e.phase = p
        /\ e.status = g[1] /\ e.flag = g[3]
    BY Lines DEF Event
  <2>9. /\ Len(log) = last /\ last \in Nat /\ log \in Seq(LineType)
        /\ AgreeAt(log, last, plan, touched) /\ plan # NoPlan
    BY <2>1 DEF Begin, Coherent, BaseInv, LogInv, PlanInv, HasPlan
  <2>10. LastInitIn(log, last) > 0
    BY <2>9, InitialisedSays DEF PlanInv
  <2>11. Agrees(log, last, p, plan, touched[p])
    BY <2>3, <2>9 DEF AgreeAt
  <2>12. touched[p] <= LastFlagIn(log, last, p) =>
           plan[p].approval = SaysFlagIn(log, last, p)
    BY <2>1, <2>11 DEF Agrees
  <2>13. ASSUME NEW q \in Phase \ {p}
         PROVE  Agrees(log, last, q, rows, touched[q])
    <3>1. Agrees(log, last, q, plan, touched[q])
      BY <2>3, <2>9 DEF AgreeAt
    <3>2. /\ q \in DOMAIN rows <=> q \in DOMAIN plan
          /\ q \in DOMAIN plan => rows[q] = plan[q]
      BY <2>6
    <3> HIDE DEF rows
    <3> QED
      BY <3>1, <3>2 DEF Agrees
  <2>14. SetsRow(log, last, touched, rows, e)
    <3> HIDE DEF rows, row, e
    <3>1. rows[p].status = g[1]
      BY <2>5, <2>6
    <3>2. g[3] # "keep" => rows[p].approval = (g[3] = "yes")
      BY <2>5, <2>6
    <3>3. g[3] = "keep" => rows[p].approval = plan[p].approval
      BY <2>5, <2>6
    <3>4. p \in DOMAIN rows
      BY <2>1, <2>6
    <3> QED
      BY <2>8, <2>10, <2>12, <2>13, <3>1, <3>2, <3>3, <3>4 DEF SetsRow
  <2>15. o.kind = "set" /\ o.plan = rows /\ o.event = e
    OBVIOUS
  <2> HIDE DEF rows, e, o
  <2> QED
    BY <2>1, <2>7, <2>14, <2>15, BeginPlans
<1>3. ASSUME NEW o, Begin(o), o.kind \notin {"init", "set"}
      PROVE  PlanInv' /\ PlannedInv'
  BY <1>3, BeginPlans
<1>4. ASSUME NEW p \in Phase, RequestApproval(p)
      PROVE  PlanInv' /\ PlannedInv'
  <2>1. PICK o : Begin(o) /\ o.kind = "approval"
    BY <1>4 DEF RequestApproval
  <2> QED
    BY <1>3, <2>1
<1>5. ASSUME NEW p \in Phase, NEW d \in {"approved", "rejected"},
             RecordApproval(p, d)
      PROVE  PlanInv' /\ PlannedInv'
  <2>1. PICK o : Begin(o) /\ o.kind = "approval"
    BY <1>5 DEF RecordApproval
  <2> QED
    BY <1>3, <2>1
<1>14. ASSUME NEW line \in HandLine, AppendEvent(line)
       PROVE  PlanInv' /\ PlannedInv'
  <2>1. PICK o : Begin(o) /\ o.kind = "event"
    BY <1>14 DEF AppendEvent
  <2> QED
    BY <1>3, <2>1
<1>6. CASE FinishRun
  <2>1. PICK o : Begin(o) /\ o.kind = "finish"
    BY <1>6 DEF FinishRun
  <2> QED
    BY <1>3, <2>1
<1>7. CASE AppendLine
  BY <1>7, AppendPlans
<1>8. CASE WritePlan
  BY <1>8, WritePlans
<1>9. CASE WriteMetadata
  <2>1. step = "run" /\ step' = "status"
        /\ UNCHANGED <<plan, log, last, touched>>
    BY <1>9 DEF WriteMetadata
  <2> QED
    BY <2>1 DEF PlanInv, PlannedInv
<1>10. CASE ReplaceStatus
  <2>1. /\ step = "status" /\ step' = "idle" /\ UNCHANGED <<plan, log, touched>>
        /\ last' = last + 1 /\ Len(log) = last + 1
    BY <1>10 DEF ReplaceStatus, BaseInv, LogInv
  <2> QED
    BY <2>1 DEF PlanInv, PlannedInv
<1>11. CASE Stop
  <2>1. step' = "idle" /\ UNCHANGED <<plan, log, last, touched>>
    BY <1>11 DEF Stop, store
  <2> QED
    BY <2>1 DEF PlanInv, PlannedInv
<1>12. CASE ReadPlan \/ ValidatePhasePlan \/ UNCHANGED vars
  <2>1. UNCHANGED <<plan, log, last, touched, op, step>>
    BY <1>12 DEF ReadPlan, ValidatePhasePlan, vars, store
  <2> QED
    BY <2>1 DEF PlanInv, PlannedInv
<1>13. CASE EditPlan
  BY <1>13, EditPlans
<1> QED
  BY <1>1, <1>2, <1>4, <1>5, <1>6, <1>7, <1>8, <1>9, <1>10, <1>11, <1>12, <1>13,
     <1>14 DEF Next

\* At the start there is no plan and no event of one.
LEMMA PlanInit == Init => PlanInv /\ PlannedInv
<1> SUFFICES ASSUME Init PROVE PlanInv /\ PlannedInv
  OBVIOUS
<1>1. Len(log) = 1 /\ Recorded(log[1]) = "other" /\ last = 1 /\ plan = NoPlan
      /\ step = "idle"
  BY Lines DEF Init, Plain
<1>2. RowsOf(plan) = [p \in {} |-> Pending]
  BY <1>1 DEF RowsOf
<1>3. ASSUME NEW p \in Phase PROVE Agrees(log, 1, p, RowsOf(plan), touched[p])
  <2>1. LastInitIn(log, 1) = 0
    <3>1. {i \in 1 .. 1 : Recorded(log[i]) = "initialized"} = {}
      BY <1>1
    <3>2. {0} \cup {i \in 1 .. 1 : Recorded(log[i]) = "initialized"}
            \in SUBSET (0 .. 0)
      BY <3>1
    <3>3. LastInitIn(log, 1) \in 0 .. 1 /\
          (LastInitIn(log, 1) > 0 =>
             Recorded(log[LastInitIn(log, 1)]) = "initialized")
      BY LastLines
    <3> QED
      BY <1>1, <3>3
  <2>2. SetsIn(log, 1, p) = {}
    <3>1. \A i \in 0 .. 1 : i > 0 => i = 1
      OBVIOUS
    <3> QED
      BY <1>1, <2>1, <3>1 DEF SetsIn
  <2> QED
    BY <1>2, <2>2 DEF Agrees
<1>4. AgreeAt(log, 1, plan, touched)
  BY <1>3 DEF AgreeAt
<1> QED
  BY <1>1, <1>4 DEF PlanInv, PlannedInv

LEMMA PlanHolds == Spec => [](BaseInv /\ PlanInv /\ PlannedInv)
<1> DEFINE I == PlanInv /\ PlannedInv
<1>1. Init => I
  BY PlanInit
<1>2. BaseInv /\ I /\ [Next]_vars => I'
  BY PlanStep
<1>3. Spec => []BaseInv
  BY FinishHolds, PTL DEF BaseInv
<1> QED
  BY <1>1, <1>2, <1>3, PTL DEF Spec

\* What the property calls the last init, sets and flags are those of the log.
LEMMA SaysOfLog ==
  ASSUME NEW n, NEW p
  PROVE  /\ LastInit(n) = LastInitIn(log, n)
         /\ Sets(n, p) = SetsIn(log, n, p)
         /\ LastSet(n, p) = LastSetIn(log, n, p)
         /\ LastFlag(n, p) = LastFlagIn(log, n, p)
         /\ \A s : Says(n, p, s) = SaysIn(log, n, p, s)
         /\ SaysFlag(n, p) = SaysFlagIn(log, n, p)
BY DEF LastInit, LastInitIn, Sets, SetsIn, LastSet, LastSetIn, LastFlag,
   LastFlagIn, FlagsIn, Says, SaysIn, SaysFlag, SaysFlagIn

\* Each row of the plan has the status and the approval flag that the events
\* gave it, unless a hand changed it since; only the last event may be missing.
THEOREM PlansFollowTheLedger == Spec => []PlanFollowsLedger
<1>1. ASSUME PlanInv, BaseInv PROVE PlanFollowsLedger
  <2>1. ASSUME NEW n, NEW p \in Phase,
               Agrees(log, n, p, RowsOf(plan), touched[p])
        PROVE  RowAgrees(n, p)
    <3>1. (HasPlan /\ p \in DOMAIN plan) <=> p \in DOMAIN RowsOf(plan)
      BY DEF RowsOf, HasPlan
    <3>2. HasPlan => RowsOf(plan) = plan
      BY DEF RowsOf, HasPlan
    <3> QED
      BY <2>1, <3>1, <3>2, SaysOfLog DEF RowAgrees, Agrees
  <2> QED
    BY <1>1, <2>1 DEF PlanInv, AgreeAt, PlanFollowsLedger
<1> QED
  BY <1>1, PlanHolds, PTL

-----------------------------------------------------------------------------
(***************************************************************************)
(* A final validation that passes is backed by the log and the instance.   *)
(***************************************************************************)

\* What a validation has read is what the log said then, row by row.
ReaderInv ==
  reader # NotReading /\ reader.coherent =>
    /\ reader.seen \in 0 .. Len(log)
    /\ \A p \in Phase :
         touched[p] = 0 => Agrees(log, reader.seen, p, reader.rows, 0)

LEMMA ReaderStep ==
  ASSUME BaseInv, PlanInv, ReaderInv, [Next]_vars
  PROVE  ReaderInv'
<1>0. log \in Seq(LineType) /\ Len(log) \in Nat /\ last \in Nat
  BY DEF BaseInv, LogInv
<1>1. CASE ReadPlan
  <2>1. /\ reader' = [seen |-> Len(log), rows |-> plan, coherent |-> Coherent]
        /\ RowsOf(plan) = plan /\ UNCHANGED <<log, touched>>
    BY <1>1 DEF ReadPlan, store, HasPlan, RowsOf
  <2>2. Coherent => \A p \in Phase : touched[p] = 0 => Agrees(log,
        Len(log), p, plan, 0)
    <3> SUFFICES ASSUME Coherent, NEW p \in Phase, touched[p] = 0
                 PROVE  Agrees(log, Len(log), p, plan, 0)
      OBVIOUS
    <3>1. Agrees(log, last, p, RowsOf(plan), touched[p])
      BY DEF Coherent, PlanInv, AgreeAt
    <3> QED
      BY <2>1, <3>1 DEF Coherent
  <2> QED
    BY <1>0, <2>1, <2>2 DEF ReaderInv
<1>2. CASE ValidatePhasePlan
  BY <1>2 DEF ValidatePhasePlan, ReaderInv
<1>3. CASE AppendLine
  <2>1. /\ log' = Append(log, op.event) /\ UNCHANGED <<reader, touched>>
    BY <1>3 DEF AppendLine
  <2>2. /\ op.event \in LineType
    BY <1>3 DEF AppendLine, BaseInv, OpInv
  <2>3. /\ Len(log') = Len(log) + 1 /\ \A i \in 1 .. Len(log) : log'[i] = log[i]
    BY <1>0, <2>1, <2>2
  <2> SUFFICES ASSUME reader # NotReading, reader.coherent
               PROVE  /\ reader.seen \in 0 .. Len(log')
                      /\ \A p \in Phase : touched[p] = 0 =>
                           Agrees(log', reader.seen, p, reader.rows, 0)
    BY <2>1 DEF ReaderInv
  <2>4. reader.seen \in 0 .. Len(log)
    BY DEF ReaderInv
  <2>5. ASSUME NEW p \in Phase, touched[p] = 0
        PROVE  Agrees(log', reader.seen, p, reader.rows, 0)
    <3>1. PICK n \in Nat : n = reader.seen
      BY <1>0, <2>4
    <3>2. PICK lines : lines = log
      OBVIOUS
    <3>3. PICK more : more = log'
      OBVIOUS
    <3>4. PICK rows : rows = reader.rows
      OBVIOUS
    <3>5. \A i \in 1 .. n : more[i] = lines[i]
      BY <1>0, <2>3, <2>4, <3>1, <3>2, <3>3
    <3>6. Agrees(lines, n, p, rows, 0)
      BY <2>5, <3>1, <3>2, <3>4 DEF ReaderInv
    <3>7. Agrees(more, n, p, rows, 0) = Agrees(lines, n, p, rows, 0)
      BY <3>5, PrefixSays
    <3> QED
      BY <3>1, <3>3, <3>4, <3>6, <3>7
  <2> QED
    BY <1>0, <2>3, <2>4, <2>5
<1>4. CASE EditPlan
  <2>1. UNCHANGED <<log, reader>>
    BY <1>4 DEF EditPlan, Edited
  <2>2. \A p \in Phase : touched'[p] = 0 => touched[p] = 0
    <3>1. Len(log) \in 0 .. Len(log)
      BY <1>0
    <3> QED
      BY <1>0, <1>4, <3>1, EditAgrees
  <2> QED
    BY <2>1, <2>2 DEF ReaderInv
<1>5. CASE UNCHANGED <<log, reader, touched>>
  BY <1>5 DEF ReaderInv
<1> QED
  BY <1>1, <1>2, <1>3, <1>4, <1>5
     DEF Next, vars, store, InitPhasePlan, SetPhase, RequestApproval,
         RecordApproval, AppendEvent, FinishRun, Begin, WritePlan,
         WriteMetadata, ReplaceStatus, Stop

\* If the last decision on a phase is an approval, the phase stands approved.
LEMMA LastDecisionStands ==
  ASSUME BaseInv, NEW p, Approved(Len(log), p)
  PROVE  StandsApproved(p)
<1>0. log \in Seq(LineType) /\ Len(log) \in Nat
  BY DEF BaseInv, LogInv
<1> DEFINE D == Decisions(Len(log), p)
<1>1. D \in SUBSET (0 .. Len(log)) /\ D # {}
  BY DEF Decisions, Approved
<1>2. Max(D) \in D /\ \A j \in D : j <= Max(D)
  BY <1>0, <1>1, MaxIsLargest
<1>3. /\ Max(D) \in 1 .. Len(log) /\ log[Max(D)].type = "recorded"
      /\ log[Max(D)].phase = p /\ log[Max(D)].status = "approved"
  BY <1>2 DEF Decisions, Approved
<1>4. ASSUME NEW j \in Max(D) + 1 .. Len(log), log[j].type = "recorded",
             log[j].phase = p, log[j].status = "rejected"
      PROVE  FALSE
  <2>1. j \in 1 .. Len(log) /\ j > Max(D)
    BY <1>0, <1>3
  <2>2. j \in D
    BY <1>4, <2>1 DEF Decisions
  <2> QED
    BY <1>2, <1>3, <2>1, <2>2
<1> QED
  BY <1>3, <1>4 DEF StandsApproved

\* What a validation that passes says of a row that no hand ever changed.
LEMMA PassBacks ==
  ASSUME BaseInv, ReaderInv, reader # NotReading, reader.coherent,
         NEW graph \in Graphs, NEW sound \in Instances,
         FinalHolds(reader.rows, graph, sound),
         NEW p \in Phase, touched[p] = 0
  PROVE  /\ p \in Default => ~Says(reader.seen, p, "pending")
         /\ SaysFlag(reader.seen, p) => StandsApproved(p)
         /\ Managed /\ Says(reader.seen, p, "complete")
              /\ Candidates[p] # <<>> => NodeOf(p) \in sound
<1>1. PICK n \in Nat : n = reader.seen
  BY DEF ReaderInv, BaseInv, LogInv
<1>2. PICK rows : rows = reader.rows
  OBVIOUS
<1>3. Agrees(log, n, p, rows, 0)
  BY <1>1, <1>2 DEF ReaderInv
<1>4. 0 <= LastSetIn(log, n, p) /\ 0 <= LastFlagIn(log, n, p)
  BY LastLines
<1>5. /\ p \in DOMAIN rows => SaysIn(log, n, p, rows[p].status)
      /\ SetsIn(log, n, p) # {} => p \in DOMAIN rows
      /\ p \in DOMAIN rows => rows[p].approval = SaysFlagIn(log, n, p)
  BY <1>3, <1>4 DEF Agrees
<1>6. \A s \in {"pending", "complete"} :
        SaysIn(log, n, p, s) /\ p \in DOMAIN rows => rows[p].status = s
  BY <1>5 DEF SaysIn
<1>7. /\ FeedbackHolds(rows, graph) /\ Terminal(rows, graph)
      /\ ProjectionHolds(rows, sound)
      /\ \A q \in DOMAIN rows : rows[q].approval => Approved(Len(log), q)
  BY <1>2 DEF FinalHolds
<1>8. ASSUME p \in Default PROVE ~ SaysIn(log, n, p, "pending")
  <2>1. p \in DOMAIN rows /\ rows[p].status # "pending"
    BY <1>7, <1>8 DEF Terminal, FinalPhases, RequiredPhases
  <2> QED
    BY <1>6, <2>1
<1>9. ASSUME SaysFlagIn(log, n, p) PROVE StandsApproved(p)
  <2>1. SetsIn(log, n, p) # {}
    BY <1>9 DEF SaysFlagIn
  <2>2. p \in DOMAIN rows /\ rows[p].approval
    BY <1>5, <1>9, <2>1
  <2> QED
    BY <1>7, <2>2, LastDecisionStands
<1>10. ASSUME Managed, SaysIn(log, n, p, "complete"), Candidates[p] # <<>>
       PROVE  NodeOf(p) \in sound
  <2>1. SetsIn(log, n, p) # {}
    BY <1>10 DEF SaysIn
  <2>2. p \in DOMAIN rows /\ rows[p].status = "complete"
    BY <1>5, <1>6, <1>10, <2>1
  <2>3. p \in Projected(rows)
    BY <1>10, <2>2 DEF Projected
  <2> QED
    BY <1>7, <1>10, <2>3 DEF ProjectionHolds
<1> QED
  BY <1>1, <1>8, <1>9, <1>10, SaysOfLog

\* A final validation that began on a coherent store and passed means, for
\* every row no hand ever changed: a default phase had been finished, a
\* flagged one stands approved, and a complete one stands for a sound node.
THEOREM FinalPassesAreBacked == Spec => FinalPassIsBacked
<1> DEFINE I == BaseInv /\ PlanInv /\ PlannedInv
<1>1. Init => ReaderInv
  BY DEF Init, ReaderInv
<1>2. I /\ ReaderInv /\ [Next]_vars => ReaderInv'
  BY ReaderStep
<1>3. I /\ ReaderInv =>
     [/\ reader # NotReading /\ reader' = NotReading
     /\ reader.coherent
     => \A graph \in Graphs, sound \in Instances :
        FinalHolds(reader.rows, graph, sound) =>
        \A p \in Phase : touched[p] = 0 =>
          /\ p \in Default => ~Says(reader.seen, p, "pending")
          /\ SaysFlag(reader.seen, p) => StandsApproved(p)
          /\ Managed /\ Says(reader.seen, p, "complete")
               /\ Candidates[p] # <<>> => NodeOf(p) \in sound]_reader
  BY PassBacks
<1> QED
  BY <1>1, <1>2, <1>3, PlanHolds, PTL DEF Spec, FinalPassIsBacked

-----------------------------------------------------------------------------
(***************************************************************************)
(* The event log and status.json implement EventLedger, with the plan or   *)
(* the run written between the append and the status write.                *)
(***************************************************************************)

\* The events status.json has caught up with.
Committed == SubSeq(log, 1, last)

\* The log is ahead of status.json and no command in flight will mend that.
Frozen == ~Coherent /\ step \notin {"plan", "run", "status"}

Ledger == INSTANCE EventLedger WITH
            Writer <- LineType, committed <- Committed, frozen <- Frozen

\* The beginning of a log grows by the line after it.
LEMMA PrefixGrows ==
  ASSUME NEW S, NEW lines \in Seq(S), NEW n \in Nat, Len(lines) = n + 1
  PROVE  SubSeq(lines, 1, n + 1) = Append(SubSeq(lines, 1, n), lines[n + 1])
<1>1. /\ 1 \in 1 .. Len(lines) /\ n + 1 \in 1 .. Len(lines)
      /\ (n + 1) - 1 = n
  OBVIOUS
<1>2. SubSeq(lines, 1, n + 1) = SubSeq(lines, 1, n) \o <<lines[n + 1]>>
  <2>1. SubSeq(lines, 1, n + 1) =
          SubSeq(lines, 1, (n + 1) - 1) \o <<lines[n + 1]>>
    BY <1>1, SubSeqRecursiveSecond
  <2> QED
    BY <1>1, <2>1
<1>3. SubSeq(lines, 1, n) \in Seq(S) /\ lines[n + 1] \in S
  OBVIOUS
<1> QED
  BY <1>2, <1>3, AppendIsConcat

\* There is an event id left for a command that goes on to its append.
PaceInv ==
  /\ Len(log) <= MaxEventId
  /\ step = "append" => Len(log) < MaxEventId

\* A plan command commits one event or none: a finish that stops before the
\* run is stored as finished freezes the ledger with its event uncommitted.
THEOREM ImplementsLedger == Spec => Ledger!Spec
<1> USE PhasePlanAssumption
<1>1. Init => Ledger!Init /\ PaceInv
  <2> SUFFICES ASSUME Init PROVE Ledger!Init /\ PaceInv
    OBVIOUS
  <2>1. Len(log) = 1 /\ last = 1 /\ log = SubSeq(log, 1, 1)
    BY DEF Init
  <2> QED
    BY <2>1 DEF Init, Ledger!Init, Committed, Frozen, Coherent, PaceInv
<1>2. BaseInv /\ PaceInv /\ [Next]_vars => PaceInv'
  <2> SUFFICES ASSUME BaseInv, PaceInv, [Next]_vars
               PROVE  PaceInv'
    OBVIOUS
  <2>0. Len(log) \in Nat
    BY DEF BaseInv, OpInv, LogInv
  <2>1. CASE AppendLine
    <3>1. PICK e : log' = Append(log, e)
      BY <2>1 DEF AppendLine
    <3> QED
      BY <2>0, <2>1, <3>1 DEF AppendLine, PaceInv, BaseInv, OpInv, LogInv
  <2>2. CASE ~AppendLine
    BY <2>2 DEF PaceInv, BaseInv, OpInv, LogInv, Coherent, Next, vars, store,
       InitPhasePlan, SetPhase, RequestApproval, RecordApproval, AppendEvent,
       FinishRun, Begin, WritePlan, WriteMetadata, ReadPlan, ValidatePhasePlan,
       EditPlan, Edited, Stop, ReplaceStatus
  <2> QED
    BY <2>1, <2>2
<1>3. BaseInv /\ PaceInv /\ [Next]_vars => [Ledger!Next]_(Ledger!vars)
  <2> SUFFICES ASSUME BaseInv, PaceInv, [Next]_vars
               PROVE  [Ledger!Next]_(Ledger!vars)
    OBVIOUS
  <2>1. /\ log \in Seq(LineType) /\ Len(log) \in Nat /\ last \in Nat
        /\ last <= Len(log) /\ Len(log) <= MaxEventId
    BY DEF BaseInv, OpInv, LogInv, PaceInv
  <2>2. CASE AppendLine
    <3>1. PICK e : log' = Append(log, e)
      BY <2>2 DEF AppendLine
    <3>2. Committed' = Committed
      BY <2>1, <2>2, <3>1 DEF Committed, AppendLine
    <3>3. ~Frozen /\ ~Frozen'
      BY <2>2 DEF Frozen, AppendLine, BaseInv, OpInv, LogInv, PaceInv,
         Coherent
    <3> QED
      BY <3>2, <3>3 DEF Ledger!vars, Frozen
  <2>3. CASE ReplaceStatus
    <3>1. Len(log) = last + 1 /\ last' = last + 1 /\ log' = log
      BY <2>3 DEF ReplaceStatus, BaseInv, OpInv, LogInv, PaceInv
    <3>2. Len(Committed) = last /\ log[last + 1] \in LineType
      BY <2>1, <3>1 DEF Committed
    <3>3. Committed' = Append(Committed, log[last + 1])
      BY <2>1, <3>1, PrefixGrows DEF Committed
    <3>4. ~Frozen /\ ~Frozen'
      BY <2>3, <3>1 DEF Frozen, ReplaceStatus, Coherent
    <3> QED
      BY <2>1, <3>1, <3>2, <3>3, <3>4
      DEF Ledger!Next, Ledger!Commit, Frozen
  <2>4. CASE log' = log /\ last' = last /\ (Frozen => Frozen')
    BY <2>4 DEF Committed, Frozen, Ledger!Next, Ledger!Freeze, Ledger!vars
  <2>5. CASE ~AppendLine /\ ~ReplaceStatus
    <3>1. log' = log /\ last' = last
      BY <2>5 DEF Next, vars, store,
       InitPhasePlan, SetPhase, RequestApproval, RecordApproval, AppendEvent,
       FinishRun, Begin, WritePlan, WriteMetadata, ReadPlan, ValidatePhasePlan,
       EditPlan, Edited, Stop
    <3>2. Frozen => Frozen'
      BY <2>5, <3>1 DEF Frozen, Coherent, Next, vars, store,
       InitPhasePlan, SetPhase, RequestApproval, RecordApproval, AppendEvent,
       FinishRun, Begin, WritePlan, WriteMetadata, ReadPlan, ValidatePhasePlan,
       EditPlan, Edited, Stop
    <3> QED
      BY <2>4, <3>1, <3>2
  <2> QED
    BY <2>2, <2>3, <2>5
<1> QED
  BY <1>1, <1>2, <1>3, FinishHolds, PTL DEF Spec, Ledger!Spec, BaseInv
=============================================================================
