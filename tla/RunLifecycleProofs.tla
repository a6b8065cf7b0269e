------------------------- MODULE RunLifecycleProofs -------------------------
(***************************************************************************)
(* Proofs about RunLifecycle, for any set of runs and any MaxEventId.      *)
(***************************************************************************)
EXTENDS RunLifecycle, SequenceTheorems, TLAPS

\* Where the log stands beside status.json, and the command in its course.
LogInv ==
  /\ Len(log) \in status.last .. MaxEventId
  /\ step = "append" => Len(log) = status.last /\ Len(log) < MaxEventId
  /\ step \in {"metadata", "status"} => Len(log) # status.last

\* A command that is going to write metadata has a run to write it to.
OpInv == step = "metadata" => op.state # "none"
RunInv == op.state # "none" => op.line.run \in Run

TypeInv == TypeOK /\ LogInv /\ OpInv /\ RunInv

\* What the helper records is the type of the event; a line of event append
\* counts as some other event, whatever type it was given.
LEMMA HelperLine ==
  ASSUME NEW e, NEW r
  PROVE  /\ Event("helper", e, r).run = r
         /\ Recorded(Event("helper", e, r)) = e
         /\ e \in LifecycleEvent \cup OtherEvent /\ r \in Run =>
              Event("helper", e, r) \in LogLine
  BY DEF Event, Recorded, LogLine

LEMMA UserLine ==
  ASSUME NEW type, NEW r
  PROVE  /\ Event("user", type, r).run = r
         /\ Recorded(Event("user", type, r)) = "other"
         /\ type \in HandEvent /\ r \in Run =>
              Event("user", type, r) \in LogLine
  BY DEF Event, Recorded, LogLine

\* The beginning of a command, with an operation of the right type.
LEMMA BeginKeepsTypes ==
  ASSUME TypeInv,
         NEW line \in LogLine, line.run \in Run,
         NEW s \in RunState \cup {"none"},
         NEW a \in ActiveFields,
         Begin([line |-> line, state |-> s, active |-> a])
  PROVE  TypeInv'
  BY DEF TypeInv, TypeOK, LogInv, OpInv, RunInv, Begin, Coherent

\* The types hold in every reachable state, and with them the bounds of the
\* log: it is never more than one event ahead of the last id.
LEMMA TypesHold == Spec => []TypeInv
<1>1. Init => TypeInv
  BY RunLifecycleAssumption
  DEF Init, TypeInv, TypeOK, LogInv, OpInv, RunInv, LogLine, ActiveFields,
      NoOp, Op, Event, NoActive, Active, OtherEvent, RunState
<1>2. TypeInv /\ [Next]_vars => TypeInv'
  <2> SUFFICES ASSUME TypeInv, [Next]_vars
               PROVE  TypeInv'
    OBVIOUS
  <2>active. status.active \in ActiveFields /\ NoActive \in ActiveFields
    BY DEF TypeInv, TypeOK, ActiveFields
  <2>events. \A s \in RunState :
               EventOfState[s] \in LifecycleEvent \cup OtherEvent
    BY DEF LifecycleEvent
  <2>1. ASSUME NEW r \in Run, CreateRun(r)
        PROVE  TypeInv'
    <3>1. "run.created" = EventOfState["created"] /\ "created" \in RunState
      BY DEF EventOfState, RunState
    <3> QED
      BY <2>1, <2>active, <2>events, <3>1, BeginKeepsTypes, HelperLine
      DEF Op, CreateRun
  <2>2. ASSUME NEW r \in Run, NEW target \in {"active", "closed", "aborted"},
               TransitionRun(r, target)
        PROVE  TypeInv'
    <3>1. target \in RunState
      BY DEF RunState
    <3>2. ActiveAfter(r, target) \in ActiveFields
      BY <2>active DEF ActiveAfter, ActiveFields, Active
    <3> QED
      BY <2>2, <2>events, <3>1, <3>2, BeginKeepsTypes, HelperLine
      DEF Op, TransitionRun
  <2>3. ASSUME NEW r \in Run, InitArtifacts(r)
        PROVE  TypeInv'
    <3>1. meta[r] \in RunState /\ "artifact.written" \in OtherEvent
      BY <2>3 DEF InitArtifacts, RunState, OtherEvent
    <3> QED
      BY <2>3, <2>active, <3>1, BeginKeepsTypes, HelperLine
      DEF Op, InitArtifacts
  <2>4. ASSUME NEW r \in Run, CheckGate(r)
        PROVE  TypeInv'
    <3>1. meta[r] \in RunState /\ "gate.checked" \in OtherEvent
      BY <2>4 DEF CheckGate, OtherEvent
    <3> QED
      BY <2>4, <2>active, <3>1, BeginKeepsTypes, HelperLine
      DEF Op, CheckGate
  <2>5. ASSUME NEW r \in Run, NEW type \in HandEvent, AppendEvent(r, type)
        PROVE  TypeInv'
    BY <2>5, <2>active, BeginKeepsTypes, UserLine DEF AppendEvent, OtherEvent
  <2>6. CASE AppendLine
    <3>1. op.line \in LogLine
      BY DEF TypeInv, TypeOK, LogLine
    <3>2. log' \in Seq(LogLine) /\ Len(log') = Len(log) + 1
      BY <2>6, <3>1 DEF TypeInv, TypeOK, AppendLine
    <3>3. LogInv'
      BY <2>6, <3>2, RunLifecycleAssumption
      DEF TypeInv, TypeOK, LogInv, AppendLine
    <3> QED
      BY <2>6, <3>2, <3>3
      DEF TypeInv, TypeOK, OpInv, RunInv, AppendLine, WritesMetadata
  <2>7. CASE WriteMetadata
    BY <2>7 DEF TypeInv, TypeOK, LogInv, OpInv, RunInv, WriteMetadata
  <2>8. CASE ReplaceStatus
    <3>1. NoOp.state = "none" /\ NoOp.line \in LogLine
          /\ NoOp \in [line : LogLine, state : RunState \cup {"none"},
                       active : ActiveFields]
      BY <2>active DEF NoOp, Op, Event, OtherEvent, LogLine
    <3>2. Len(log) \in 1 .. MaxEventId /\ op.active \in ActiveFields
      BY RunLifecycleAssumption DEF TypeInv, TypeOK, LogInv
    <3> QED
      BY <2>8, <3>1, <3>2, RunLifecycleAssumption
      DEF TypeInv, TypeOK, LogInv, OpInv, RunInv, ReplaceStatus
  <2>9. CASE Stop
    <3>1. NoOp.state = "none"
          /\ NoOp \in [line : LogLine, state : RunState \cup {"none"},
                       active : ActiveFields]
      BY <2>active DEF NoOp, Op, Event, OtherEvent, LogLine
    <3> QED
      BY <2>9, <3>1 DEF TypeInv, TypeOK, LogInv, OpInv, RunInv, Stop
  <2>10. CASE UNCHANGED vars
    BY <2>10 DEF TypeInv, TypeOK, LogInv, OpInv, RunInv, vars
  <2> QED
    BY <2>1, <2>2, <2>3, <2>4, <2>5, <2>6, <2>7, <2>8, <2>9, <2>10 DEF Next
<1> QED
  BY <1>1, <1>2, PTL DEF Spec

\* Every variable of RunLifecycle stays within its type.
THEOREM TypeCorrect == Spec => []TypeOK
<1>1. TypeInv => TypeOK
  BY DEF TypeInv
<1> QED
  BY <1>1, TypesHold, PTL

-----------------------------------------------------------------------------
(* How far a run has come, by its metadata and by an event *)

Rank(s) == IF s = "absent" THEN 0 ELSE IF s = "created" THEN 1
           ELSE IF s = "active" THEN 2 ELSE 3
EventRank(e) == IF e = "run.created" THEN 1 ELSE IF e = "run.activated" THEN 2
                ELSE 3

\* The first n events do not go beyond the metadata.
NotAhead(n) ==
  \A i \in 1 .. n :
    Recorded(log[i]) \in LifecycleEvent =>
      /\ log[i].run \in Run
      /\ EventRank(Recorded(log[i])) <= Rank(meta[log[i].run])

\* Of each run the log has only steps forward.
Ordered ==
  \A i, j \in 1 .. Len(log) :
     i < j /\ log[i].run = log[j].run
       /\ {Recorded(log[i]), Recorded(log[j])} \subseteq LifecycleEvent
     => EventRank(Recorded(log[i])) < EventRank(Recorded(log[j]))

\* A command that is still to write metadata takes its run a step forward,
\* from a state that is not final, or stores again what it read.
StepInv ==
  step \in {"append", "metadata"} =>
    IF Recorded(op.line) \in LifecycleEvent
    THEN /\ op.state \in RunState /\ op.line.run \in Run
         /\ Recorded(op.line) = EventOfState[op.state]
         /\ Rank(op.state) = EventRank(Recorded(op.line))
         /\ EventRank(Recorded(op.line)) > Rank(meta[op.line.run])
         /\ meta[op.line.run] \notin Finished
    ELSE op.state # "none" => op.state = meta[op.line.run]

\* The metadata is behind the log by the event in flight at most, unless the
\* store is frozen.
RankInv ==
  /\ Ordered
  /\ Len(log) = status.last => NotAhead(Len(log))
  /\ step = "metadata" =>
       /\ NotAhead(Len(log) - 1)
       /\ log[Len(log)] = op.line
  /\ step = "status" => NotAhead(Len(log))

HistoryInv == StepInv /\ RankInv

\* A command begins: the log and the metadata are as they were.
LEMMA BeginKeepsHistory ==
  ASSUME TypeInv, HistoryInv,
         NEW line, NEW s, NEW a,
         Begin([line |-> line, state |-> s, active |-> a]),
         IF Recorded(line) \in LifecycleEvent
         THEN /\ s \in RunState /\ line.run \in Run
              /\ Recorded(line) = EventOfState[s]
              /\ Rank(s) = EventRank(Recorded(line))
              /\ EventRank(Recorded(line)) > Rank(meta[line.run])
              /\ meta[line.run] \notin Finished
         ELSE s # "none" => s = meta[line.run]
  PROVE  HistoryInv'
  BY DEF HistoryInv, StepInv, RankInv, Ordered, NotAhead, Begin, Coherent,
         TypeInv

\* No command takes a step that its run has taken already.
LEMMA HistoryHolds == Spec => []HistoryInv
<1>events. /\ LifecycleEvent = {"run.created", "run.activated", "run.closed",
                               "run.aborted"}
           /\ EventOfState["created"] = "run.created"
           /\ EventOfState["active"] = "run.activated"
           /\ EventOfState["closed"] = "run.closed"
           /\ EventOfState["aborted"] = "run.aborted"
  BY DEF LifecycleEvent, EventOfState, RunState
<1>1. Init => HistoryInv
  BY <1>events
  DEF Init, HistoryInv, StepInv, RankInv, Ordered, NotAhead, Event, Recorded
<1>2. TypeInv /\ HistoryInv /\ [Next]_vars => HistoryInv'
  <2> SUFFICES ASSUME TypeInv, HistoryInv, [Next]_vars
               PROVE  HistoryInv'
    OBVIOUS
  <2>1. ASSUME NEW r \in Run, CreateRun(r)
        PROVE  HistoryInv'
    BY <2>1, <1>events, BeginKeepsHistory, HelperLine
    DEF Op, CreateRun, RunState, Rank, EventRank, Finished
  <2>2. ASSUME NEW r \in Run, NEW target \in {"active", "closed", "aborted"},
               TransitionRun(r, target)
        PROVE  HistoryInv'
    <3>1. /\ target \in RunState /\ EventOfState[target] \in LifecycleEvent
          /\ Rank(target) = EventRank(EventOfState[target])
          /\ EventRank(EventOfState[target]) > Rank(meta[r])
          /\ meta[r] \notin Finished
      BY <2>2, <1>events
      DEF TransitionRun, MayBecome, RunState, Rank, EventRank, Finished
    <3> QED
      BY <2>2, <3>1, BeginKeepsHistory, HelperLine
      DEF Op, TransitionRun
  <2>3. ASSUME NEW r \in Run, InitArtifacts(r)
        PROVE  HistoryInv'
    BY <2>3, <1>events, BeginKeepsHistory, HelperLine DEF Op, InitArtifacts
  <2>4. ASSUME NEW r \in Run, CheckGate(r)
        PROVE  HistoryInv'
    BY <2>4, <1>events, BeginKeepsHistory, HelperLine DEF Op, CheckGate
  <2>5. ASSUME NEW r \in Run, NEW type \in HandEvent, AppendEvent(r, type)
        PROVE  HistoryInv'
    BY <2>5, <1>events, BeginKeepsHistory, UserLine DEF AppendEvent
  <2>6. CASE AppendLine
    <3> DEFINE line == op.line
    <3>1. /\ log \in Seq(LogLine) /\ line \in LogLine
          /\ Len(log) = status.last /\ Len(log) \in Nat
      BY <2>6, RunLifecycleAssumption
      DEF TypeInv, TypeOK, LogInv, LogLine, AppendLine
    <3>2. /\ Len(log') = Len(log) + 1
          /\ log'[Len(log) + 1] = line
          /\ \A i \in 1 .. Len(log) : log'[i] = log[i]
      BY <2>6, <3>1 DEF AppendLine
    <3>3. NotAhead(Len(log)) /\ Ordered
      BY <3>1 DEF HistoryInv, RankInv
    <3>4. Recorded(line) \in LifecycleEvent =>
            /\ WritesMetadata /\ line.run \in Run
            /\ EventRank(Recorded(line)) > Rank(meta[line.run])
      BY <2>6 DEF HistoryInv, StepInv, AppendLine, WritesMetadata, RunState
    <3>5. Ordered'
      <4> SUFFICES ASSUME NEW i \in 1 .. Len(log'), NEW j \in 1 .. Len(log'),
                          i < j, log'[i].run = log'[j].run,
                          Recorded(log'[i]) \in LifecycleEvent,
                          Recorded(log'[j]) \in LifecycleEvent
                   PROVE  EventRank(Recorded(log'[i]))
                            < EventRank(Recorded(log'[j]))
        BY DEF Ordered
      <4>1. i \in 1 .. Len(log) /\ log'[i] = log[i]
        BY <3>1, <3>2
      <4>2. CASE j \in 1 .. Len(log)
        BY <4>1, <4>2, <3>2, <3>3 DEF Ordered
      <4>3. CASE j = Len(log) + 1
        <5>1. /\ EventRank(Recorded(log[i])) <= Rank(meta[log[i].run])
              /\ Rank(meta[log[i].run]) < EventRank(Recorded(line))
          BY <4>1, <4>3, <3>2, <3>3, <3>4 DEF NotAhead
        <5> QED
          BY <5>1, <4>1, <4>3, <3>2 DEF EventRank, Rank
      <4> QED
        BY <4>2, <4>3, <3>1, <3>2
    <3>6. step' = "metadata" =>
            /\ NotAhead(Len(log) - 1)'
            /\ log'[Len(log')] = op'.line
      BY <2>6, <3>1, <3>2, <3>3 DEF AppendLine, NotAhead
    <3>7. step' = "status" => NotAhead(Len(log))'
      BY <2>6, <3>1, <3>2, <3>3, <3>4 DEF AppendLine, NotAhead
    <3>8. Len(log') # status'.last
      BY <2>6, <3>1, <3>2 DEF AppendLine
    <3>9. StepInv'
      BY <2>6 DEF HistoryInv, StepInv, AppendLine
    <3> QED
      BY <3>5, <3>6, <3>7, <3>8, <3>9 DEF HistoryInv, RankInv
  <2>7. CASE WriteMetadata
    <3>1. /\ op.line.run \in Run
          /\ meta' = [meta EXCEPT ![op.line.run] = op.state]
          /\ meta \in [Run -> RunState \cup {"absent"}]
          /\ UNCHANGED <<status, log, op>>
          /\ step = "metadata" /\ step' = "status"
          /\ Len(log) \in Nat
      BY <2>7 DEF TypeInv, TypeOK, OpInv, RunInv, WriteMetadata
    <3>2. /\ NotAhead(Len(log) - 1) /\ Ordered
          /\ log[Len(log)] = op.line
      BY <3>1 DEF HistoryInv, RankInv
    <3>3. /\ Rank(meta[op.line.run]) <= Rank(op.state)
          /\ Recorded(op.line) \in LifecycleEvent =>
               EventRank(Recorded(op.line)) = Rank(op.state)
      BY <3>1 DEF HistoryInv, StepInv, TypeInv, OpInv, Rank, EventRank
    <3>4. NotAhead(Len(log))'
      <4> SUFFICES ASSUME NEW i \in 1 .. Len(log),
                          Recorded(log[i]) \in LifecycleEvent
                   PROVE  /\ log[i].run \in Run
                          /\ EventRank(Recorded(log[i]))
                               <= Rank(meta'[log[i].run])
        BY <3>1 DEF NotAhead
      <4>1. CASE i \in 1 .. Len(log) - 1
        <5>1. log[i].run \in Run
              /\ EventRank(Recorded(log[i])) <= Rank(meta[log[i].run])
          BY <4>1, <3>2 DEF NotAhead
        <5>2. CASE log[i].run = op.line.run
          BY <5>1, <5>2, <3>1, <3>3 DEF Rank, EventRank
        <5>3. CASE log[i].run # op.line.run
          BY <5>1, <5>3, <3>1
        <5> QED
          BY <5>2, <5>3
      <4>2. CASE i = Len(log)
        BY <4>2, <3>1, <3>2, <3>3 DEF Rank, EventRank
      <4> QED
        BY <4>1, <4>2, <3>1
    <3> QED
      BY <3>1, <3>2, <3>4 DEF HistoryInv, StepInv, RankInv, Ordered
  <2>8. CASE ReplaceStatus
    BY <2>8 DEF HistoryInv, StepInv, RankInv, Ordered, NotAhead, ReplaceStatus
  <2>9. CASE Stop
    BY <2>9 DEF HistoryInv, StepInv, RankInv, Ordered, NotAhead, Stop
  <2>10. CASE UNCHANGED vars
    BY <2>10 DEF HistoryInv, StepInv, RankInv, Ordered, NotAhead, vars
  <2> QED
    BY <2>1, <2>2, <2>3, <2>4, <2>5, <2>6, <2>7, <2>8, <2>9, <2>10 DEF Next
<1> QED
  BY <1>1, <1>2, TypesHold, PTL DEF Spec

\* In the log a run is created, perhaps activated, and finished once, however
\* many commands fail between two of their writes and are tried again.
THEOREM LifecyclesInOrder == Spec => []LedgerIsLifecycle
<1>1. Ordered => LedgerIsLifecycle
  <2> SUFFICES ASSUME Ordered,
                      NEW i \in 1 .. Len(log), NEW j \in 1 .. Len(log),
                      i < j, log[i].run = log[j].run,
                      {Recorded(log[i]), Recorded(log[j])}
                        \subseteq LifecycleEvent
               PROVE  \/ /\ Recorded(log[i]) = "run.created"
                         /\ Recorded(log[j]) # "run.created"
                      \/ /\ Recorded(log[i]) = "run.activated"
                         /\ Recorded(log[j]) \in {"run.closed", "run.aborted"}
    BY DEF LedgerIsLifecycle
  <2>1. EventRank(Recorded(log[i])) < EventRank(Recorded(log[j]))
    BY DEF Ordered
  <2>2. {Recorded(log[i]), Recorded(log[j])} \subseteq
          {"run.created", "run.activated", "run.closed", "run.aborted"}
    BY DEF LifecycleEvent, EventOfState, RunState
  <2> QED
    BY <2>1, <2>2 DEF EventRank
<1> QED
  BY <1>1, HistoryHolds, PTL DEF HistoryInv, RankInv

\* A closed or aborted run never changes its state again: what a command
\* read stays true until its metadata write, and it stores nothing else.
THEOREM FinishedStaysFinished == Spec => FinishedIsFinal
<1> DEFINE Kept == \A r \in Run : meta[r] \in Finished => meta'[r] = meta[r]
<1>1. TypeInv /\ HistoryInv /\ [Next]_vars => [Kept]_meta
  <2> SUFFICES ASSUME TypeInv, HistoryInv, WriteMetadata
               PROVE  Kept
    BY DEF Next, Begin, CreateRun, TransitionRun, InitArtifacts, CheckGate,
           AppendEvent, AppendLine, ReplaceStatus, Stop, vars
  <2>1. meta \in [Run -> RunState \cup {"absent"}] /\ op.line.run \in Run
    BY DEF TypeInv, TypeOK, OpInv, RunInv, WriteMetadata
  <2>2. meta[op.line.run] \in Finished => op.state = meta[op.line.run]
    BY DEF HistoryInv, StepInv, TypeInv, OpInv, WriteMetadata
  <2> QED
    BY <2>1, <2>2 DEF WriteMetadata
<1> QED
  BY <1>1, TypesHold, HistoryHolds, PTL DEF Spec, FinishedIsFinal

-----------------------------------------------------------------------------
(* The active run *)

\* The metadata m and the active-run fields name the same run.
Names(m, active) == \A r \in Run : (m[r] = "active") <=> (active.run = r)

\* The metadata once the command in flight has written it.
After == IF op.state = "none" THEN meta
         ELSE [meta EXCEPT ![op.line.run] = op.state]

\* Whoever is active has been activated.
ActivatedInv ==
  \A r \in Run : meta[r] = "active" =>
    \E i \in 1 .. Len(log) :
      Recorded(log[i]) = "run.activated" /\ log[i].run = r

\* A run is about to be created beside an active one.
Splitting ==
  /\ step = "append" /\ Recorded(op.line) = "run.created"
  /\ \E r \in Run : meta[r] = "active"

\* Until that happens metadata and status agree before a command, and will
\* agree after its two writes.
LaneInv ==
  \/ CreatedBesideActive
  \/ /\ OneActiveRun
     /\ Coherent => Names(meta, status.active)
     /\ step = "append" => Splitting \/ Names(After, op.active)
     /\ step = "metadata" => Names(After, op.active)
     /\ step = "status" => Names(meta, op.active)

LEMMA ActiveIsActivated == Spec => []ActivatedInv
<1>1. Init => ActivatedInv
  BY DEF Init, ActivatedInv
<1>2. TypeInv /\ HistoryInv /\ ActivatedInv /\ [Next]_vars => ActivatedInv'
  <2> SUFFICES ASSUME TypeInv, HistoryInv, ActivatedInv, [Next]_vars
               PROVE  ActivatedInv'
    OBVIOUS
  <2>0. log \in Seq(LogLine) /\ Len(log) \in Nat
    BY DEF TypeInv, TypeOK
  <2>1. CASE UNCHANGED <<meta, log>>
    BY <2>1 DEF ActivatedInv
  <2>2. CASE AppendLine
    <3>1. /\ Len(log') = Len(log) + 1 /\ meta' = meta
          /\ \A i \in 1 .. Len(log) : i \in 1 .. Len(log') /\ log'[i] = log[i]
      BY <2>0, <2>2 DEF AppendLine
    <3> QED
      BY <3>1 DEF ActivatedInv
  <2>3. CASE WriteMetadata
    <3>1. /\ meta \in [Run -> RunState \cup {"absent"}]
          /\ meta' = [meta EXCEPT ![op.line.run] = op.state] /\ log' = log
          /\ op.line.run \in Run
      BY <2>3 DEF TypeInv, TypeOK, OpInv, RunInv, WriteMetadata
    <3>2. CASE op.state # "active" \/ Recorded(op.line) \notin LifecycleEvent
      BY <2>3, <3>1, <3>2
      DEF ActivatedInv, HistoryInv, StepInv, TypeInv, OpInv, WriteMetadata
    <3>3. CASE op.state = "active" /\ Recorded(op.line) \in LifecycleEvent
      <4>1. Recorded(op.line) = "run.activated"
        BY <2>3, <3>3 DEF HistoryInv, StepInv, WriteMetadata, Rank, EventRank
      <4>2. /\ Recorded(log[Len(log)]) = "run.activated"
            /\ log[Len(log)].run = op.line.run
        BY <2>3, <4>1 DEF HistoryInv, RankInv, WriteMetadata
      <4>3. Len(log) \in 1 .. Len(log)
        BY <2>0 DEF TypeInv, TypeOK, LogInv
      <4> QED
        BY <3>1, <4>2, <4>3 DEF ActivatedInv
    <3> QED
      BY <3>2, <3>3
  <2> QED
    BY <2>1, <2>2, <2>3
    DEF Next, CreateRun, TransitionRun, InitArtifacts, CheckGate, AppendEvent,
        Begin, ReplaceStatus, Stop, vars
<1> QED
  BY <1>1, <1>2, TypesHold, HistoryHolds, PTL DEF Spec

\* The log keeps what it says.
LEMMA SplitStays ==
  ASSUME log \in Seq(LogLine), NEW line \in LogLine, log' = Append(log, line),
         CreatedBesideActive
  PROVE  CreatedBesideActive'
<1>1. /\ Len(log) \in Nat /\ Len(log') = Len(log) + 1
      /\ \A i \in 1 .. Len(log) : i \in 1 .. Len(log') /\ log'[i] = log[i]
  OBVIOUS
<1>2. PICK i \in 1 .. Len(log), j \in 1 .. Len(log) :
        /\ i < j
        /\ Recorded(log[i]) = "run.activated"
        /\ Recorded(log[j]) = "run.created"
        /\ \A k \in i + 1 .. j :
             log[k].run = log[i].run =>
               Recorded(log[k]) \notin {"run.closed", "run.aborted"}
  BY DEF CreatedBesideActive
<1>3. /\ log'[i] = log[i] /\ log'[j] = log[j]
      /\ i \in 1 .. Len(log') /\ j \in 1 .. Len(log')
      /\ \A k \in i + 1 .. j : log'[k] = log[k]
  BY <1>1
<1>4. /\ Recorded(log'[i]) = "run.activated"
      /\ Recorded(log'[j]) = "run.created"
      /\ \A k \in i + 1 .. j :
           log'[k].run = log'[i].run =>
             Recorded(log'[k]) \notin {"run.closed", "run.aborted"}
  BY <1>2, <1>3
<1> QED
  BY <1>2, <1>3, <1>4 DEF CreatedBesideActive

\* A command begins in a coherent store, where metadata and status agree.
LEMMA BeginKeepsLane ==
  ASSUME TypeInv, LaneInv, ~CreatedBesideActive,
         NEW line, NEW s, NEW a,
         Begin([line |-> line, state |-> s, active |-> a]),
         \/ /\ Recorded(line) = "run.created"
            /\ \E q \in Run : meta[q] = "active"
         \/ Names(IF s = "none" THEN meta
                  ELSE [meta EXCEPT ![line.run] = s], a)
  PROVE  LaneInv'
<1>1. /\ step' = "append" /\ meta' = meta /\ log' = log /\ status' = status
      /\ op'.line = line /\ op'.state = s /\ op'.active = a
      /\ Coherent
  BY DEF Begin
<1>2. Splitting' \/ Names(After, op.active)'
  BY <1>1 DEF Splitting, Names, After
<1> QED
  BY <1>1, <1>2 DEF LaneInv, OneActiveRun, Names, Coherent

\* run create is the only way to two active runs.
LEMMA LaneHolds == Spec => []LaneInv
<1>1. Init => LaneInv
  BY RunLifecycleAssumption
  DEF Init, LaneInv, OneActiveRun, Names, NoActive, Active
<1>2. /\ TypeInv /\ HistoryInv /\ ActivatedInv /\ LaneInv /\ [Next]_vars
      => LaneInv'
  <2> SUFFICES ASSUME TypeInv, HistoryInv, ActivatedInv, LaneInv, [Next]_vars
               PROVE  LaneInv'
    OBVIOUS
  <2>types. /\ meta \in [Run -> RunState \cup {"absent"}]
            /\ log \in Seq(LogLine) /\ Len(log) \in Nat
            /\ status.active \in ActiveFields
            /\ NoRun \notin Run /\ NoActive.run = NoRun
    BY RunLifecycleAssumption DEF TypeInv, TypeOK, NoActive, Active
  <2>line. op.line \in LogLine
    BY DEF TypeInv, TypeOK, LogLine
  <2>split. CASE CreatedBesideActive
    <3>1. CASE log' = log
      BY <3>1, <2>split DEF LaneInv, CreatedBesideActive
    <3>2. CASE AppendLine
      BY <3>2, <2>split, <2>types, <2>line, SplitStays DEF LaneInv, AppendLine
    <3> QED
      BY <3>1, <3>2
      DEF Next, CreateRun, TransitionRun, InitArtifacts, CheckGate,
          AppendEvent, Begin, WriteMetadata, ReplaceStatus, Stop, vars
  <2> SUFFICES ASSUME ~CreatedBesideActive
               PROVE  LaneInv'
    BY <2>split
  <2>1. ASSUME NEW r \in Run, CreateRun(r)
        PROVE  LaneInv'
    <3>1. (\A q \in Run : meta[q] # "active")
            => Names([meta EXCEPT ![r] = "created"], NoActive)
      BY <2>types DEF Names
    <3> QED
      BY <2>1, <3>1, BeginKeepsLane, HelperLine DEF Op, CreateRun
  <2>2. ASSUME NEW r \in Run, NEW target \in {"active", "closed", "aborted"},
               TransitionRun(r, target)
        PROVE  LaneInv'
    <3>1. Names(meta, status.active)
      BY <2>2 DEF LaneInv, TransitionRun, Begin
    <3>2. CASE target = "active"
      <4>1. meta[r] = "created" /\ status.active.run \in {NoRun, r}
        BY <2>2, <3>2 DEF TransitionRun, MayBecome, Conflicts
      <4>2. \A q \in Run : meta[q] # "active"
        BY <3>1, <4>1, <2>types DEF Names
      <4>3. ActiveAfter(r, target).run = r
        BY <3>2 DEF ActiveAfter, Active
      <4>4. Names([meta EXCEPT ![r] = target], ActiveAfter(r, target))
        BY <3>2, <4>2, <4>3, <2>types DEF Names
      <4> QED
        BY <2>2, <4>4, BeginKeepsLane, HelperLine DEF Op, TransitionRun
    <3>3. CASE target # "active"
      <4>1. ActiveAfter(r, target) = IF status.active.run = r THEN NoActive
                                     ELSE status.active
        BY <3>3 DEF ActiveAfter
      <4>2. Names([meta EXCEPT ![r] = target], ActiveAfter(r, target))
        BY <3>1, <3>3, <4>1, <2>types DEF Names
      <4> QED
        BY <2>2, <4>2, BeginKeepsLane, HelperLine DEF Op, TransitionRun
    <3> QED
      BY <3>2, <3>3
  <2>3. ASSUME NEW r \in Run, InitArtifacts(r) \/ CheckGate(r)
        PROVE  LaneInv'
    <3>1. Names([meta EXCEPT ![r] = meta[r]], status.active)
      BY <2>3, <2>types DEF LaneInv, InitArtifacts, CheckGate, Begin, Names
    <3>2. meta[r] # "none"
      BY <2>3, <2>types DEF RunState
    <3> QED
      BY <2>3, <3>1, <3>2, BeginKeepsLane, HelperLine
      DEF Op, InitArtifacts, CheckGate
  <2>5. ASSUME NEW r \in Run, NEW type \in HandEvent, AppendEvent(r, type)
        PROVE  LaneInv'
    <3>1. Names(meta, status.active)
      BY <2>5 DEF LaneInv, AppendEvent, Begin
    <3> QED
      BY <2>5, <3>1, BeginKeepsLane, UserLine DEF AppendEvent
  <2>6. CASE AppendLine
    <3>1. /\ Len(log') = Len(log) + 1 /\ Len(log) = status.last
          /\ log'[Len(log')] = op.line
          /\ \A i \in 1 .. Len(log) : log'[i] = log[i]
          /\ UNCHANGED <<meta, status, op>>
      BY <2>6, <2>types DEF TypeInv, LogInv, AppendLine
    <3>2. CASE Splitting
      <4>1. PICK r \in Run : meta[r] = "active"
        BY <3>2 DEF Splitting
      <4>2. PICK i \in 1 .. Len(log) :
              Recorded(log[i]) = "run.activated" /\ log[i].run = r
        BY <4>1 DEF ActivatedInv
      <4>3. NotAhead(Len(log))
        BY <3>1 DEF HistoryInv, RankInv
      <4>4. {"run.closed", "run.aborted"} \subseteq LifecycleEvent
        BY DEF LifecycleEvent, EventOfState, RunState
      <4>5. ASSUME NEW k \in i + 1 .. Len(log'), log'[k].run = r
            PROVE  Recorded(log'[k]) \notin {"run.closed", "run.aborted"}
        <5>1. CASE k = Len(log')
          BY <5>1, <3>1, <3>2 DEF Splitting
        <5>2. CASE k # Len(log')
          <6>1. k \in 1 .. Len(log) /\ log'[k] = log[k]
            BY <5>2, <3>1, <2>types
          <6>2. Recorded(log[k]) \in LifecycleEvent =>
                  EventRank(Recorded(log[k])) <= 2
            BY <6>1, <4>1, <4>3, <4>5 DEF NotAhead, Rank
          <6> QED
            BY <6>1, <6>2, <4>4 DEF EventRank
        <5> QED
          BY <5>1, <5>2
      <4>6. i < Len(log') /\ i \in 1 .. Len(log')
        BY <3>1, <2>types
      <4>7. Recorded(log'[Len(log')]) = "run.created" /\ log'[i] = log[i]
        BY <3>1, <3>2 DEF Splitting
      <4>8. Len(log') \in 1 .. Len(log')
        BY <3>1, <2>types
      <4> QED
        BY <4>2, <4>5, <4>6, <4>7, <4>8 DEF LaneInv, CreatedBesideActive
    <3>3. CASE ~Splitting
      <4>1. OneActiveRun /\ Names(After, op.active)
        BY <2>6, <3>3 DEF LaneInv, AppendLine
      <4>2. Len(log') # status'.last
        BY <3>1, <2>types
      <4> QED
        BY <2>6, <3>1, <4>1, <4>2
        DEF LaneInv, OneActiveRun, Coherent, Names, After, AppendLine,
            WritesMetadata
    <3> QED
      BY <3>2, <3>3
  <2>7. CASE WriteMetadata
    <3>1. meta' = After /\ UNCHANGED <<status, log, op>> /\ step' = "status"
      BY <2>7 DEF TypeInv, OpInv, WriteMetadata, After
    <3>2. Names(After, op.active) /\ Len(log) # status.last
      BY <2>7 DEF LaneInv, WriteMetadata, TypeInv, LogInv
    <3> QED
      BY <3>1, <3>2 DEF LaneInv, Names, OneActiveRun, Coherent
  <2>8. CASE ReplaceStatus
    BY <2>8 DEF LaneInv, ReplaceStatus, OneActiveRun, Names, Coherent
  <2>9. CASE Stop
    BY <2>9 DEF LaneInv, Stop, OneActiveRun, Names, Coherent
  <2>10. CASE UNCHANGED vars
    BY <2>10
    DEF LaneInv, vars, OneActiveRun, Names, Coherent, Splitting, After
  <2> QED
    BY <2>1, <2>2, <2>3, <2>5, <2>6, <2>7, <2>8, <2>9, <2>10 DEF Next
<1> QED
  BY <1>1, <1>2, TypesHold, HistoryHolds, ActiveIsActivated, PTL DEF Spec

\* Two runs are active at once only after a run was created beside an active
\* one, whatever sequence of commands and failures there was.
THEOREM SplitByCreateOnly == Spec => []OnlyCreateSplitsTheLane
<1>1. LaneInv => OnlyCreateSplitsTheLane
  BY DEF LaneInv, OnlyCreateSplitsTheLane
<1> QED
  BY <1>1, LaneHolds, PTL

\* While the store is coherent status.json names the run whose metadata says
\* active, unless a run was created beside it.
THEOREM StatusNames == Spec => []StatusNamesActiveRun
<1>1. LaneInv => StatusNamesActiveRun
  BY DEF LaneInv, StatusNamesActiveRun, Names
<1> QED
  BY <1>1, LaneHolds, PTL

-----------------------------------------------------------------------------
(* The audit trail *)

\* The first n lines of a log say that run r is in state s.
Explains(lines, n, r, s) ==
  \/ /\ s = "absent"
     /\ \A i \in 1 .. n :
          lines[i].run = r => Recorded(lines[i]) \notin LifecycleEvent
  \/ /\ s \in RunState
     /\ \E i \in 1 .. n :
          /\ lines[i].run = r /\ Recorded(lines[i]) = EventOfState[s]
          /\ \A j \in 1 .. n : j > i /\ lines[j].run = r =>
               Recorded(lines[j]) \notin LifecycleEvent

ExplainInv ==
  \A r \in Run :
    \/ Explains(log, Len(log), r, meta[r])
    \/ /\ Len(log) # status.last /\ step # "status"
       /\ log[Len(log)].run = r
       /\ Explains(log, Len(log) - 1, r, meta[r])

\* What a log explains it explains whatever follows, ...
LEMMA ExplainsPrefix ==
  ASSUME NEW lines, NEW more, NEW n \in Nat, NEW r, NEW s,
         \A i \in 1 .. n : more[i] = lines[i],
         Explains(lines, n, r, s)
  PROVE  Explains(more, n, r, s)
<1>1. CASE s = "absent"
  BY <1>1 DEF Explains, RunState
<1>2. CASE s # "absent"
  <2>1. PICK i \in 1 .. n :
          /\ lines[i].run = r /\ Recorded(lines[i]) = EventOfState[s]
          /\ \A j \in 1 .. n : j > i /\ lines[j].run = r =>
               Recorded(lines[j]) \notin LifecycleEvent
    BY <1>2 DEF Explains
  <2>2. more[i].run = r /\ Recorded(more[i]) = EventOfState[s]
    BY <2>1
  <2>3. \A j \in 1 .. n : j > i /\ more[j].run = r =>
          Recorded(more[j]) \notin LifecycleEvent
    BY <2>1
  <2> QED
    BY <1>2, <2>2, <2>3 DEF Explains
<1> QED
  BY <1>1, <1>2

\* ... and one line more makes no difference unless it is about the run.
LEMMA ExplainsOneMore ==
  ASSUME NEW lines, NEW n \in Nat, NEW r, NEW s,
         Explains(lines, n, r, s),
         lines[n + 1].run # r \/ Recorded(lines[n + 1]) \notin LifecycleEvent
  PROVE  Explains(lines, n + 1, r, s)
<1>1. CASE s = "absent"
  BY <1>1 DEF Explains, RunState
<1>2. CASE s # "absent"
  <2>1. PICK i \in 1 .. n :
          /\ lines[i].run = r /\ Recorded(lines[i]) = EventOfState[s]
          /\ \A j \in 1 .. n : j > i /\ lines[j].run = r =>
               Recorded(lines[j]) \notin LifecycleEvent
    BY <1>2 DEF Explains
  <2>2. ASSUME NEW j \in 1 .. n + 1, j > i, lines[j].run = r
        PROVE  Recorded(lines[j]) \notin LifecycleEvent
    <3>1. CASE j = n + 1
      BY <2>2, <3>1
    <3>2. CASE j \in 1 .. n
      BY <2>1, <2>2, <3>2
    <3> QED
      BY <3>1, <3>2
  <2>3. i \in 1 .. n + 1
    OBVIOUS
  <2> QED
    BY <1>2, <2>1, <2>2, <2>3 DEF Explains
<1> QED
  BY <1>1, <1>2

\* What the log explains is what the property calls StateByLog.
LEMMA ExplainedIsByLog ==
  ASSUME NEW r \in Run, NEW n \in Nat, NEW s, Explains(log, n, r, s)
  PROVE  s = StateByLog(r, n)
<1> DEFINE at == {i \in 1 .. n : /\ log[i].run = r
                                 /\ Recorded(log[i]) \in LifecycleEvent}
<1>1. CASE s = "absent"
  <2>1. at = {}
    BY <1>1 DEF Explains, RunState
  <2> QED
    BY <1>1, <2>1 DEF StateByLog
<1>2. CASE s # "absent"
  <2>1. PICK i \in 1 .. n :
          /\ log[i].run = r /\ Recorded(log[i]) = EventOfState[s]
          /\ \A j \in 1 .. n : j > i /\ log[j].run = r =>
               Recorded(log[j]) \notin LifecycleEvent
    BY <1>2 DEF Explains
  <2>2. s \in RunState
    BY <1>2 DEF Explains
  <2>3. i \in at /\ \A j \in at : j <= i
    BY <2>1, <2>2 DEF LifecycleEvent
  <2>4. (CHOOSE k \in at : \A j \in at : j <= k) = i
    BY <2>3
  <2>5. StateByLog(r, n) =
          CHOOSE t \in RunState : EventOfState[t] = Recorded(log[i])
    BY <2>3, <2>4 DEF StateByLog
  <2>6. \A t, u \in RunState : EventOfState[t] = EventOfState[u] => t = u
    BY DEF EventOfState, RunState
  <2> QED
    BY <2>1, <2>2, <2>5, <2>6
<1> QED
  BY <1>1, <1>2

\* The log explains the metadata of every run; only the run of the last event
\* may be a step behind, while status.json is too.
THEOREM LedgerExplains == Spec => []LedgerExplainsMetadata
<1>1. Init => ExplainInv
  <2>1. "other" \notin LifecycleEvent
    BY DEF LifecycleEvent, EventOfState, RunState
  <2>2. SUFFICES ASSUME Init, NEW r \in Run
                 PROVE  Explains(log, Len(log), r, meta[r])
    BY DEF ExplainInv
  <2>3. meta[r] = "absent"
    BY <2>2 DEF Init
  <2>4. \A i \in 1 .. Len(log) : Recorded(log[i]) = "other"
    BY <2>2 DEF Init, Event, Recorded
  <2> QED
    BY <2>1, <2>3, <2>4 DEF Explains
<1>2. TypeInv /\ HistoryInv /\ ExplainInv /\ [Next]_vars => ExplainInv'
  <2> SUFFICES ASSUME TypeInv, HistoryInv, ExplainInv, [Next]_vars
               PROVE  ExplainInv'
    OBVIOUS
  <2>types. /\ meta \in [Run -> RunState \cup {"absent"}]
            /\ log \in Seq(LogLine) /\ Len(log) \in Nat \ {0}
    BY DEF TypeInv, TypeOK, LogInv
  <2>1. CASE UNCHANGED <<meta, log, status>> /\ step' # "status"
    BY <2>1 DEF ExplainInv
  <2>2. CASE AppendLine
    <3> DEFINE n == Len(log)
    <3>1. /\ Len(log') = n + 1 /\ n = status.last /\ n \in Nat
          /\ log'[n + 1] = op.line
          /\ \A i \in 1 .. n : log'[i] = log[i]
          /\ UNCHANGED <<meta, status, op>>
      BY <2>2, <2>types DEF TypeInv, LogInv, AppendLine
    <3>2. step' = "status" => Recorded(op.line) \notin LifecycleEvent
      BY <2>2 DEF AppendLine, WritesMetadata, HistoryInv, StepInv, RunState
    <3>3. SUFFICES ASSUME NEW r \in Run
                   PROVE  \/ Explains(log', n + 1, r, meta[r])
                          \/ /\ step' # "status"
                             /\ log'[n + 1].run = r
                             /\ Explains(log', n, r, meta[r])
      BY <3>1 DEF ExplainInv
    <3>4. Explains(log', n, r, meta[r])
      BY <3>1, ExplainsPrefix DEF ExplainInv
    <3>5. CASE r # op.line.run \/ Recorded(op.line) \notin LifecycleEvent
      BY <3>1, <3>4, <3>5, ExplainsOneMore
    <3>6. CASE r = op.line.run /\ Recorded(op.line) \in LifecycleEvent
      BY <3>1, <3>2, <3>4, <3>6
    <3> QED
      BY <3>5, <3>6
  <2>3. CASE WriteMetadata
    <3>1. /\ meta' = [meta EXCEPT ![op.line.run] = op.state] /\ log' = log
          /\ UNCHANGED <<status, op>> /\ op.line.run \in Run
          /\ log[Len(log)] = op.line
      BY <2>3 DEF TypeInv, OpInv, RunInv, WriteMetadata, HistoryInv, RankInv
    <3>2. SUFFICES Explains(log, Len(log), op.line.run, meta'[op.line.run])
      BY <3>1 DEF ExplainInv
    <3>3. CASE Recorded(op.line) \in LifecycleEvent
      <4>1. op.state \in RunState /\ Recorded(op.line) = EventOfState[op.state]
        BY <2>3, <3>3 DEF WriteMetadata, HistoryInv, StepInv
      <4>2. meta'[op.line.run] = op.state /\ Len(log) \in 1 .. Len(log)
        BY <3>1, <2>types
      <4> QED
        BY <3>1, <4>1, <4>2 DEF Explains
    <3>4. CASE Recorded(op.line) \notin LifecycleEvent
      <4>1. meta'[op.line.run] = meta[op.line.run]
        BY <2>3, <3>1, <3>4, <2>types
        DEF WriteMetadata, HistoryInv, StepInv, TypeInv, OpInv
      <4>2. PICK n \in Nat : n + 1 = Len(log) /\ n = Len(log) - 1
        BY <2>types
      <4>3. CASE Explains(log, Len(log), op.line.run, meta[op.line.run])
        BY <4>1, <4>3
      <4>4. CASE Explains(log, n, op.line.run, meta[op.line.run])
        <5>1. Recorded(log[n + 1]) \notin LifecycleEvent
          BY <3>1, <3>4, <4>2
        <5>2. Explains(log, n + 1, op.line.run, meta[op.line.run])
          BY <4>4, <5>1, ExplainsOneMore
        <5> QED
          BY <4>1, <4>2, <5>2
      <4> QED
        BY <3>1, <4>2, <4>3, <4>4 DEF ExplainInv
    <3> QED
      BY <3>3, <3>4
  <2>4. CASE ReplaceStatus
    BY <2>4 DEF ExplainInv, ReplaceStatus
  <2>5. CASE UNCHANGED vars
    BY <2>5 DEF ExplainInv, vars
  <2> QED
    BY <2>1, <2>2, <2>3, <2>4, <2>5
    DEF Next, CreateRun, TransitionRun, InitArtifacts, CheckGate, AppendEvent,
        Begin, Stop, vars
<1>3. TypeInv /\ ExplainInv => LedgerExplainsMetadata
  <2> SUFFICES ASSUME TypeInv, ExplainInv PROVE LedgerExplainsMetadata
    OBVIOUS
  <2>1. Len(log) \in Nat /\ Len(log) - 1 \in Nat
    BY DEF TypeInv, TypeOK, LogInv
  <2> QED
    BY <2>1, ExplainedIsByLog DEF ExplainInv, LedgerExplainsMetadata, Coherent
<1> QED
  BY <1>1, <1>2, <1>3, TypesHold, HistoryHolds, PTL DEF Spec
-----------------------------------------------------------------------------
(***************************************************************************)
(* The event log and status.json, whatever the runs, implement EventLedger: *)
(* an event counts from the moment status.json names it, and a command that *)
(* stops in between freezes the ledger.                                    *)
(***************************************************************************)

\* The events status.json has caught up with.
Committed == SubSeq(log, 1, status.last)

\* The log is ahead of status.json and no command in flight will mend that.
Frozen == ~Coherent /\ step \notin {"metadata", "status"}

Ledger == INSTANCE EventLedger WITH
            Writer <- LogLine, committed <- Committed, frozen <- Frozen

\* The beginning of a log grows by the line after it.
LEMMA PrefixGrows ==
  ASSUME NEW S, NEW lines \in Seq(S), NEW n \in Nat, Len(lines) = n + 1
  PROVE  SubSeq(lines, 1, n + 1) = Append(SubSeq(lines, 1, n), lines[n + 1])
<1>1. /\ 1 \in 1 .. Len(lines) /\ n + 1 \in 1 .. Len(lines)
      /\ (n + 1) - 1 = n
  OBVIOUS
<1>2. SubSeq(lines, 1, n + 1) = SubSeq(lines, 1, n) \o <<lines[n + 1]>>
  <2>1. SubSeq(lines, 1, n + 1) =
          SubSeq(lines, 1, (n + 1) - 1) \o <<lines[n + 1]>>
    BY <1>1, SubSeqRecursiveSecond
  <2> QED
    BY <1>1, <2>1
<1>3. SubSeq(lines, 1, n) \in Seq(S) /\ lines[n + 1] \in S
  OBVIOUS
<1> QED
  BY <1>2, <1>3, AppendIsConcat

\* An event is one ahead of status.json until it is caught up with.
PaceInv ==
  step \in {"metadata", "status"} => Len(log) = status.last + 1

\* Each command of the run lifecycle commits one event or none, and after a
\* command that stopped between its append and its status write no command
\* ever commits another.
THEOREM ImplementsLedger == Spec => Ledger!Spec
<1> USE RunLifecycleAssumption
<1>1. Init => Ledger!Init /\ PaceInv
  <2> SUFFICES ASSUME Init PROVE Ledger!Init /\ PaceInv
    OBVIOUS
  <2>1. Len(log) = 1 /\ status.last = 1 /\ log = SubSeq(log, 1, 1)
    BY DEF Init
  <2> QED
    BY <2>1 DEF Init, Ledger!Init, Committed, Frozen, Coherent, PaceInv
<1>2. TypeInv /\ PaceInv /\ [Next]_vars => PaceInv'
  <2> SUFFICES ASSUME TypeInv, PaceInv, [Next]_vars
               PROVE  PaceInv'
    OBVIOUS
  <2>0. Len(log) \in Nat
    BY DEF TypeInv, TypeOK, LogInv
  <2>1. CASE AppendLine
    <3>1. PICK e : log' = Append(log, e)
      BY <2>1 DEF AppendLine
    <3> QED
      BY <2>0, <2>1, <3>1 DEF AppendLine, PaceInv, TypeInv, TypeOK, LogInv
  <2>2. CASE ~AppendLine
    BY <2>2 DEF PaceInv, TypeInv, TypeOK, LogInv, Coherent, Next, vars,
       CreateRun, TransitionRun, InitArtifacts, CheckGate, AppendEvent,
       Begin, WriteMetadata, Stop, ReplaceStatus
  <2> QED
    BY <2>1, <2>2
<1>3. TypeInv /\ PaceInv /\ [Next]_vars => [Ledger!Next]_(Ledger!vars)
  <2> SUFFICES ASSUME TypeInv, PaceInv, [Next]_vars
               PROVE  [Ledger!Next]_(Ledger!vars)
    OBVIOUS
  <2>1. /\ log \in Seq(LogLine) /\ Len(log) \in Nat /\ status.last \in Nat
        /\ status.last <= Len(log) /\ Len(log) <= MaxEventId
    BY DEF TypeInv, TypeOK, LogInv, PaceInv
  <2>2. CASE AppendLine
    <3>1. PICK e : log' = Append(log, e)
      BY <2>2 DEF AppendLine
    <3>2. Committed' = Committed
      BY <2>1, <2>2, <3>1 DEF Committed, AppendLine
    <3>3. ~Frozen /\ ~Frozen'
      BY <2>2 DEF Frozen, AppendLine, TypeInv, TypeOK, LogInv, PaceInv,
         Coherent
    <3> QED
      BY <3>2, <3>3 DEF Ledger!vars, Frozen
  <2>3. CASE ReplaceStatus
    <3>1. /\ Len(log) = status.last + 1 /\ log' = log
          /\ status'.last = status.last + 1
      BY <2>3 DEF ReplaceStatus, TypeInv, TypeOK, LogInv, PaceInv
    <3>2. Len(Committed) = status.last /\ log[status.last + 1] \in LogLine
      BY <2>1, <3>1 DEF Committed
    <3>3. Committed' = Append(Committed, log[status.last + 1])
      BY <2>1, <3>1, PrefixGrows DEF Committed
    <3>4. ~Frozen /\ ~Frozen'
      BY <2>3, <3>1 DEF Frozen, ReplaceStatus, Coherent
    <3> QED
      BY <2>1, <3>1, <3>2, <3>3, <3>4
      DEF Ledger!Next, Ledger!Commit, Frozen
  <2>4. CASE log' = log /\ status'.last = status.last /\ (Frozen => Frozen')
    BY <2>4 DEF Committed, Frozen, Ledger!Next, Ledger!Freeze, Ledger!vars
  <2>5. CASE ~AppendLine /\ ~ReplaceStatus
    <3>1. log' = log /\ status'.last = status.last
      BY <2>5 DEF Next, vars,
       CreateRun, TransitionRun, InitArtifacts, CheckGate, AppendEvent,
       Begin, WriteMetadata, Stop
    <3>2. Frozen => Frozen'
      BY <2>5, <3>1 DEF Frozen, Coherent, Next, vars,
       CreateRun, TransitionRun, InitArtifacts, CheckGate, AppendEvent,
       Begin, WriteMetadata, Stop
    <3> QED
      BY <2>4, <3>1, <3>2
  <2> QED
    BY <2>2, <2>3, <2>5
<1> QED
  BY <1>1, <1>2, <1>3, TypesHold, PTL DEF Spec, Ledger!Spec
=============================================================================
