---------------------------- MODULE RunLifecycle ----------------------------
(***************************************************************************)
(* The lifecycle of runs (internal/project/run.go): the state in each      *)
(* run-metadata.json, the active run in status.json and the event log, and *)
(* the commands that change them.  HelperState justifies one command at a  *)
(* time (its OneWriter); a command still stops half-way when one of its    *)
(* file writes fails or its process dies, and the next one finds what it   *)
(* left behind.                                                            *)
(***************************************************************************)
EXTENDS Naturals, Sequences

CONSTANTS
  Run,        \* run ids, as run create generates them
  NoRun,      \* a JSON null
  HandEvent,  \* the event types people append with event append
  MaxEventId  \* the last event id: evt-999999 in the code

ASSUME RunLifecycleAssumption ==
  /\ NoRun \notin Run
  /\ HandEvent \subseteq STRING
  /\ MaxEventId \in Nat \ {0}

VARIABLES
  meta,    \* run -> the state in its run-metadata.json
  status,  \* status.json: last_event_id, active_run_id, active_run_state
  log,     \* events.jsonl: the type, run and origin of each event
  op,      \* the command in flight, with all it read
  step     \* its next file write, or "idle"

vars == <<meta, status, log, op, step>>

RunState == {"created", "active", "closed", "aborted"}
Finished == {"closed", "aborted"}

\* The event of each transition, and the state it leads to.
EventOfState ==
  [s \in RunState |-> CASE s = "created" -> "run.created"
                        [] s = "active"  -> "run.activated"
                        [] s = "closed"  -> "run.closed"
                        [] s = "aborted" -> "run.aborted"]
LifecycleEvent == {EventOfState[s] : s \in RunState}
OtherEvent == {"artifact.written", "gate.checked", "other"}

(***************************************************************************)
(* An event.  Those people append with event append may have any type, and *)
(* look like the helper's own; "by" tells them apart for the properties,   *)
(* which are about what the helper recorded.                               *)
(***************************************************************************)
Event(by, type, r) == [by |-> by, type |-> type, run |-> r]
Recorded(line) == IF line.by = "helper" THEN line.type ELSE "other"

Active(r, s) == [run |-> r, state |-> s]
NoActive == Active(NoRun, "none")

(***************************************************************************)
(* A command in flight: its event, the state its metadata write stores (or *)
(* "none" when it writes no metadata) and the active-run fields its status *)
(* write stores.                                                           *)
(***************************************************************************)
Op(e, r, s, a) ==
  [line |-> Event("helper", e, r), state |-> s, active |-> a]
NoOp == Op("other", NoRun, "none", NoActive)

Init ==
  /\ meta   = [r \in Run |-> "absent"]
  /\ status = [last |-> 1, active |-> NoActive]
  /\ log    = <<Event("helper", "other", NoRun)>>   \* project.initialized
  /\ op     = NoOp
  /\ step   = "idle"

\* preflightEventCoherence, and the same comparison before the append.
Coherent == Len(log) = status.last

\* (Mutant of Begin: no coherence check before the append.)
BeginWithoutPreflight(o) ==
  /\ step = "idle" /\ status.last < MaxEventId
  /\ op' = o /\ step' = "append"
  /\ UNCHANGED <<meta, status, log>>

\* A command that passed its checks goes on to the append.
Begin(o) ==
  /\ step = "idle"
  /\ Coherent
  /\ status.last < MaxEventId
  /\ op' = o
  /\ step' = "append"
  /\ UNCHANGED <<meta, status, log>>

\* A fresh id; the active-run fields are written as null.
CreateRun(r) ==
  /\ meta[r] = "absent"
  /\ Begin(Op("run.created", r, "created", NoActive))

\* (Mutants of MayBecome: finished runs start again, active ones twice.)
MayAlwaysBecome(r, target) == meta[r] # "absent"
MayBecomeAgain(r, target) == meta[r] \in {"created", "active"}

\* validateTransition
MayBecome(r, target) ==
  IF target = "active" THEN meta[r] = "created"
  ELSE meta[r] \in {"created", "active"}

\* (Mutant of Conflicts: the dropped check.)
NeverConflicts(r, target) == FALSE

\* active_run_conflict
Conflicts(r, target) ==
  target = "active" /\ status.active.run \notin {NoRun, r}

\* (Mutants of ActiveAfter: a finished run is stored as the active one, the
\* end of any run clears the fields.)
ActiveAfterAnything(r, target) == Active(r, target)
ActiveAfterCleared(r, target) ==
  IF target = "active" THEN Active(r, "active") ELSE NoActive

\* The active-run fields a transition writes to status.json.
ActiveAfter(r, target) ==
  CASE target = "active"       -> Active(r, "active")
    [] target # "active" /\ status.active.run = r  -> NoActive
    [] target # "active" /\ status.active.run # r -> status.active

\* run activate, run close, run abort
TransitionRun(r, target) ==
  /\ MayBecome(r, target)
  /\ ~Conflicts(r, target)
  /\ Begin(Op(EventOfState[target], r, target, ActiveAfter(r, target)))

\* artifact init stores the metadata it read, with the artifact manifest.
InitArtifacts(r) ==
  /\ meta[r] \in {"created", "active"}
  /\ Begin(Op("artifact.written", r, meta[r], status.active))

\* gate check stores the metadata it read, with the gate's state, whatever
\* the state of the run.
CheckGate(r) ==
  /\ meta[r] \in RunState
  /\ Begin(Op("gate.checked", r, meta[r], status.active))

\* event append, of any type; every other command that only records an event
\* is one of the type "other".
AppendEvent(r, type) ==
  Begin([line |-> Event("user", type, r), state |-> "none",
         active |-> status.active])

-----------------------------------------------------------------------------
WritesMetadata == op.state # "none"

AppendLine ==
  /\ step = "append"
  /\ log' = Append(log, op.line)
  /\ step' = IF WritesMetadata THEN "metadata" ELSE "status"
  /\ UNCHANGED <<meta, status, op>>

\* writeRunMetadataDuringEvent, from within the status mutation
WriteMetadata ==
  /\ step = "metadata"
  /\ meta' = [meta EXCEPT ![op.line.run] = op.state]
  /\ step' = "status"
  /\ UNCHANGED <<status, log, op>>

ReplaceStatus ==
  /\ step = "status"
  /\ status' = [last |-> Len(log), active |-> op.active]
  /\ step' = "idle"
  /\ op' = NoOp
  /\ UNCHANGED <<meta, log>>

\* The next write fails, or the process is killed before it: the command
\* ends, its lock is released or recovered, and nothing is undone.
Stop ==
  /\ step # "idle"
  /\ step' = "idle"
  /\ op' = NoOp
  /\ UNCHANGED <<meta, status, log>>

Next ==
  \/ \E r \in Run :
       \/ CreateRun(r)
       \/ \E target \in {"active", "closed", "aborted"} :
            TransitionRun(r, target)
       \/ InitArtifacts(r) \/ CheckGate(r)
       \/ \E type \in HandEvent : AppendEvent(r, type)
  \/ AppendLine \/ WriteMetadata \/ ReplaceStatus \/ Stop

Spec == Init /\ [][Next]_vars

-----------------------------------------------------------------------------
(* Properties *)

LogLine ==
  [by : {"helper"}, type : LifecycleEvent \cup OtherEvent,
   run : Run \cup {NoRun}]
  \cup [by : {"user"}, type : HandEvent, run : Run]
ActiveFields ==
  [run : Run, state : {"active"}] \cup {NoActive}

\* Every variable stays within its type.
TypeOK ==
  /\ meta \in [Run -> RunState \cup {"absent"}]
  /\ status \in [last : 1 .. MaxEventId, active : ActiveFields]
  /\ log \in Seq(LogLine)
  /\ op \in [line : LogLine, state : RunState \cup {"none"},
             active : ActiveFields]
  /\ step \in {"idle", "append", "metadata", "status"}

\* At most one run is active at a time, whatever sequence of commands and
\* failures: run activate fails closed if another run is already active.
OneActiveRun ==
  \A r, s \in Run : meta[r] = "active" /\ meta[s] = "active" => r = s

\* A run was created between the activation of another one and its end.
CreatedBesideActive ==
  \E i, j \in 1 .. Len(log) :
     /\ i < j
     /\ Recorded(log[i]) = "run.activated" /\ Recorded(log[j]) = "run.created"
     /\ \A k \in i + 1 .. j :
          log[k].run = log[i].run =>
            Recorded(log[k]) \notin {"run.closed", "run.aborted"}

\* Two runs are never active at once but after a run create beside an
\* active run: no other sequence of commands and failures leads there.
OnlyCreateSplitsTheLane == CreatedBesideActive \/ OneActiveRun

\* While the store is coherent, status.json names exactly the run whose
\* metadata says active, unless a run was created beside it: the two files
\* readers consult do not disagree.
StatusNamesActiveRun ==
  Coherent /\ ~CreatedBesideActive =>
    \A r \in Run : (meta[r] = "active") <=> (status.active.run = r)

\* The state the first n events of the log give to run r.
StateByLog(r, n) ==
  LET at == {i \in 1 .. n : /\ log[i].run = r
                            /\ Recorded(log[i]) \in LifecycleEvent}
  IN  IF at = {} THEN "absent"
      ELSE LET last == CHOOSE i \in at : \A j \in at : j <= i
           IN  CHOOSE s \in RunState : EventOfState[s] = Recorded(log[last])

\* The metadata of every run is what the audit trail says; only the run of
\* an event status.json has not caught up with may still be a step behind.
LedgerExplainsMetadata ==
  \A r \in Run :
     \/ meta[r] = StateByLog(r, Len(log))
     \/ /\ ~Coherent
        /\ log[Len(log)].run = r
        /\ meta[r] = StateByLog(r, Len(log) - 1)

\* In the log a run is created, perhaps activated, and finished once: no
\* retry after a failure records a transition twice or out of order.
LedgerIsLifecycle ==
  \A i, j \in 1 .. Len(log) :
     i < j /\ log[i].run = log[j].run
       /\ {Recorded(log[i]), Recorded(log[j])} \subseteq LifecycleEvent
     => \/ Recorded(log[i]) = "run.created" /\ Recorded(log[j]) # "run.created"
        \/ /\ Recorded(log[i]) = "run.activated"
           /\ Recorded(log[j]) \in {"run.closed", "run.aborted"}

\* A closed or aborted run never changes its state again, not even when a
\* gate check rewrites its metadata.
FinishedIsFinal ==
  [][\A r \in Run : meta[r] \in Finished => meta'[r] = meta[r]]_meta
=============================================================================
