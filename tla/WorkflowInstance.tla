-------------------------- MODULE WorkflowInstance --------------------------
(***************************************************************************)
(* The workflow instance of one run (internal/project/workflow_instance.go *)
(* and workflow_transition_order.go): workflow-instance.json, a task DAG   *)
(* with a state per node, is written before the event that records the     *)
(* transition, and a verifier later replays the events against it.         *)
(* Commands run one at a time (OneWriter of HelperState).                  *)
(***************************************************************************)
EXTENDS Naturals, Sequences, FiniteSets

CONSTANTS
  Node,            \* the nodes of the task DAG
  DependsOn,       \* node -> the nodes it depends on, all of which it joins
  NoInstance,      \* workflow-instance.json does not exist
  MaxManual,       \* how many transitions are written into the log by hand
  MaxRevision,     \* the last revision the model follows; the code has no last
  MaxEventId       \* the last event id: evt-999999 in the code

NodeState == {"pending", "running", "succeeded", "blocked"}
Transition == {"start", "complete", "block"}

ASSUME WorkflowInstanceAssumption ==
  /\ DependsOn \in [Node -> SUBSET Node]
  /\ NoInstance \notin [revision : Nat, created : Nat,
                        nodes : [Node -> [state : NodeState, event : Nat]]]
  /\ MaxManual \in Nat
  /\ MaxRevision \in Nat \ {0}
  /\ MaxEventId \in Nat \ {0}

VARIABLES
  instance,  \* workflow-instance.json
  log,       \* events.jsonl
  last,      \* last_event_id in status.json
  op,        \* the command in flight: the instance and event it will write
  step       \* its next file write, or "idle"

vars == <<instance, log, last, op, step>>

(***************************************************************************)
(* Events.  A transition carries the strict ledger payload; "by" tells the *)
(* helper's own events from those event append records, which may have any *)
(* type and payload.                                                       *)
(***************************************************************************)
Event(type, by) == [type |-> type, by |-> by]
TransitionEvent(kind, by, n, previous, from, to, expected) ==
  [type |-> kind, by |-> by, node |-> n, previous |-> previous,
   from |-> from, to |-> to, expected |-> expected]
NoExpectation == 0

\* (Mutants of NextId: an id too far, an id too few.)
NextIdSkipping == Len(log) + 2
NextIdBehind == Len(log)

\* nextEventID
NextId == Len(log) + 1
NoOp == [instance |-> NoInstance, event |-> Event("other", "user")]

Init ==
  /\ instance = NoInstance
  /\ log  = <<Event("other", "helper")>>   \* project.initialized
  /\ last = 1
  /\ op   = NoOp
  /\ step = "idle"

Coherent == Len(log) = last

Begin(first, i, e) ==
  /\ step = "idle"
  /\ Coherent
  /\ last < MaxEventId
  /\ op' = [instance |-> i, event |-> e]
  /\ step' = first
  /\ UNCHANGED <<instance, log, last>>

NodeRow(state, event) == [state |-> state, event |-> event]

\* workflow create, of a task DAG that is valid
CreateWorkflowInstance ==
  /\ instance = NoInstance
  /\ Begin("before",
           [revision |-> 1, created |-> NextId,
            nodes |-> [n \in Node |-> NodeRow("pending", NextId)]],
           Event("instance created", "helper"))

\* (Mutant of DependenciesSucceeded: any dependency will do.)
SomeDependencySucceeded(n) ==
  \/ DependsOn[n] = {}
  \/ \E d \in DependsOn[n] : instance.nodes[d].state = "succeeded"

\* workflowNodeDependenciesSucceeded, for nodes that join all dependencies
DependenciesSucceeded(n) ==
  \A d \in DependsOn[n] : instance.nodes[d].state = "succeeded"

\* (Mutant of Allowed: a node that succeeded is blocked after all.)
AllowedAfterSuccess(kind, n) ==
  LET s == instance.nodes[n].state
  IN  CASE kind = "start"    -> s = "pending" /\ DependenciesSucceeded(n)
        [] kind = "complete" -> s = "running"
        [] kind = "block"    -> TRUE

\* The callbacks of mutateWorkflowNode.  Whether the outputs and evidence of
\* a completion exist is up to the repository.
Allowed(kind, n) ==
  LET s == instance.nodes[n].state
  IN  CASE kind = "start"    -> s = "pending" /\ DependenciesSucceeded(n)
        [] kind = "complete" -> s = "running"
        [] kind = "block"    -> s # "succeeded"

StateAfter(kind) ==
  CASE kind = "start" -> "running" [] kind = "complete" -> "succeeded"
    [] kind = "block" -> "blocked"

\* (Mutant of AsExpected: a revision of the past will do.)
NotNewerThanExpected(expected) == expected <= instance.revision

\* --expect-revision, if it is given
AsExpected(expected) == expected \in {NoExpectation, instance.revision}

\* workflow node start, complete and block, with or without --expect-revision
MutateNode(kind, n, expected) ==
  /\ instance # NoInstance
  /\ instance.revision < MaxRevision
  /\ AsExpected(expected)
  /\ Allowed(kind, n)
  /\ Begin("before",
           [instance EXCEPT
              !.revision = @ + 1,
              !.nodes[n] = NodeRow(StateAfter(kind), NextId)],
           TransitionEvent(kind, "helper", n, instance.revision,
                           instance.nodes[n].state, StateAfter(kind),
                           expected))

-----------------------------------------------------------------------------
(* CheckWorkflowTransitionOrder: replay the transitions of the log, then   *)
(* correlate the outcome with the instance.                                *)

NoEvent == 0
ReplayStart ==
  [ok |-> TRUE, revision |-> 1,
   nodes |-> [n \in Node |-> NodeRow("pending", NoEvent)]]

\* applyWorkflowTransition
Applies(e, nodes) ==
  /\ e.from = nodes[e.node].state
  /\ CASE e.type = "start" ->
            /\ e.from = "pending"
            /\ \A d \in DependsOn[e.node] : nodes[d].state = "succeeded"
       [] e.type = "complete" ->
            /\ e.from = "running"
            /\ \A d \in DependsOn[e.node] : nodes[d].state = "succeeded"
       [] e.type = "block" -> e.from # "succeeded"
  /\ e.to = StateAfter(e.type)

\* One line of the scan: a diagnostic skips the transition.
ReplayLine(v, id) ==
  LET e == log[id]
  IN  IF e.type \notin Transition THEN v
      ELSE IF e.previous = v.revision /\ Applies(e, v.nodes)
           THEN [v EXCEPT !.revision = @ + 1,
                          !.nodes[e.node] = NodeRow(e.to, id)]
           ELSE [v EXCEPT !.ok = FALSE]

Replay ==
  LET upTo[n \in 0 .. Len(log)] ==
        IF n = 0 THEN ReplayStart ELSE ReplayLine(upTo[n - 1], n)
  IN  upTo[Len(log)]

\* (Mutant of Correlates: only the states are compared.)
StatesCorrelate(v) ==
  \A n \in Node : instance.nodes[n].state = v.nodes[n].state

\* correlateWorkflowTransitionInstance
Correlates(v) ==
  /\ instance.revision = v.revision
  /\ \A n \in Node :
       LET node == instance.nodes[n]
       IN  /\ node.state = v.nodes[n].state
           /\ \/ node.event = v.nodes[n].event
              \/ /\ v.nodes[n].event = NoEvent
                 /\ node.state = "pending"
                 /\ node.event = instance.created

TransitionOrderValid == Replay.ok /\ Correlates(Replay)

-----------------------------------------------------------------------------
\* The transitions of the log that nobody but event append recorded.
ByHand ==
  {i \in 1 .. Len(log) : log[i].type \in Transition /\ log[i].by = "user"}

\* event append accepts events of every type, those of transitions included;
\* the other commands of the helper record events of other types.  Of the
\* transitions by hand the model takes those that continue the log, which
\* are the ones hard to tell; their kind fits the node or does not.
AppendEvent ==
  \/ Begin("append", instance, Event("other", "user"))
  \/ /\ Cardinality(ByHand) < MaxManual
     /\ Replay.revision < MaxRevision
     /\ \E kind \in Transition, n \in Node :
          Begin("append", instance,
                TransitionEvent(kind, "user", n, Replay.revision,
                                Replay.nodes[n].state, StateAfter(kind),
                                NoExpectation))

-----------------------------------------------------------------------------
\* The BeforeAppend hook
WriteInstance ==
  /\ step = "before"
  /\ instance' = op.instance
  /\ step' = "append"
  /\ UNCHANGED <<log, last, op>>

AppendLine ==
  /\ step = "append"
  /\ log' = Append(log, op.event)
  /\ step' = "status"
  /\ UNCHANGED <<instance, last, op>>

ReplaceStatus ==
  /\ step = "status"
  /\ last' = Len(log)
  /\ step' = "idle"
  /\ op' = NoOp
  /\ UNCHANGED <<instance, log>>

\* The next write fails, or the process is killed before it.
Stop ==
  /\ step # "idle"
  /\ step' = "idle"
  /\ op' = NoOp
  /\ UNCHANGED <<instance, log, last>>

Next ==
  \/ CreateWorkflowInstance
  \/ \E kind \in Transition, n \in Node, expected \in 0 .. MaxRevision :
       MutateNode(kind, n, expected)
  \/ AppendEvent
  \/ WriteInstance \/ AppendLine \/ ReplaceStatus \/ Stop

Spec == Init /\ [][Next]_vars

-----------------------------------------------------------------------------
(* Properties *)

EventType == Transition \cup {"other", "instance created"}
EventRecord ==
  [type : {"other", "instance created"}, by : {"helper", "user"}]
    \cup [type : Transition, by : {"helper", "user"}, node : Node,
          previous : 1 .. MaxRevision, from : NodeState, to : NodeState,
          expected : 0 .. MaxRevision]
InstanceType ==
  {NoInstance}
    \cup [revision : 1 .. MaxRevision, created : 1 .. MaxEventId,
          nodes : [Node -> [state : NodeState, event : 1 .. MaxEventId]]]

\* Every variable stays within its type.
TypeOK ==
  /\ instance \in InstanceType
  /\ log \in Seq(EventRecord)
  /\ last \in 1 .. MaxEventId
  /\ op \in [instance : InstanceType, event : EventRecord]
  /\ step \in {"idle", "before", "append", "status"}

States == IF instance = NoInstance THEN [n \in Node |-> "pending"]
          ELSE [n \in Node |-> instance.nodes[n].state]
Dag == INSTANCE TaskDag WITH state <- States

\* Whatever fails and whatever anybody writes into the log, the nodes only
\* move as the task DAG allows.
FollowsTaskDag == Dag!Spec

\* There is an instance, and no event is about to record its last change.
Settled == instance # NoInstance /\ step # "append"

\* The events the helper itself recorded, one per revision if no command
\* stopped between its instance write and its append.
Recorded ==
  {i \in 1 .. Len(log) :
     log[i].by = "helper"
       /\ log[i].type \in Transition \cup {"instance created"}}
EveryRevisionRecorded == Cardinality(Recorded) = instance.revision

\* The transition-order check of the final gate accepts a workflow moved by
\* the helper's own commands exactly if none of its state changes lost its
\* event, even in a store another failure left incoherent.
HelperHistoryVerifies ==
  (Settled /\ ByHand = {}) =>
    (TransitionOrderValid <=> instance.revision - 1 =
       Cardinality({i \in Recorded : log[i].type \in Transition}))

\* A transition somebody appended to the log by hand is never mistaken for
\* the workflow's history, however well it fits.
ManualTransitionsDetected ==
  (Settled /\ EveryRevisionRecorded /\ ByHand # {}) => ~TransitionOrderValid

\* Of the commands that state the same expected revision at most one takes
\* effect: a stale client never overwrites what another one did.
ExpectedRevisionWinsOnce ==
  \A i, j \in 1 .. Len(log) :
     /\ {log[i].type, log[j].type} \subseteq Transition
     /\ log[i].expected # NoExpectation
     /\ log[i].expected = log[j].expected
     => i = j

\* Unless an event was lost, every event id stored in the instance names the
\* event that put it there.
EventIdsAreBacked ==
  Settled /\ EveryRevisionRecorded =>
    /\ instance.created <= Len(log)
    /\ log[instance.created].type = "instance created"
    /\ \A n \in Node :
         LET e == instance.nodes[n].event
         IN  \/ e = instance.created
             \/ e <= Len(log) /\ log[e].by = "helper"
                  /\ log[e].type \in Transition /\ log[e].node = n
=============================================================================
