----------------------------- MODULE PhasePlan -----------------------------
(***************************************************************************)
(* The phase plan of a run, its approvals and its projection onto the      *)
(* workflow instance (phase_plan.go, approval.go,                          *)
(* workflow_phase_projection.go).  init and set record an event and then   *)
(* write the whole plan; approvals are events only, and the last decision  *)
(* on a phase counts.  phase-plan validate takes no lock and checks no     *)
(* coherence: it reads the plan, and later the graph, the instance and the *)
(* log, while commands go on.  People edit the plan.  Commands run one at  *)
(* a time (OneWriter of HelperState); one may stop before any write.       *)
(***************************************************************************)
EXTENDS Naturals, Sequences, FiniteSets, FiniteSetsExt

CONSTANTS
  Phase,       \* the phase ids there are
  Default,     \* those every plan has: defaultPhaseIDs
  Given,       \* the <<status, evidence, flag>> that set may be given
  Graph,       \* what the workflow graph may be: [requires, required, allowed]
  Request,     \* feedback round -> its request phase
  Handle,      \* feedback round -> its handling phase
  Managed,     \* whether the run follows a workflow instance
  Node,        \* the nodes of the workflow instance
  Candidates,  \* phase -> the names of nodes it may project to, in order
  NoGraph,     \* the graph is missing, invalid or without feedback rounds
  NoPlan,      \* there is no phase-plan.yaml
  Unreadable,  \* it does not parse, or is of another run
  HandLine,    \* the events people append with event append
  MaxEdits,    \* how often the plan is changed by hand
  MaxEventId   \* the last event id: evt-999999 in the code

\* in_progress and blocked are like pending, not_applicable like skipped.
Status == {"pending", "complete", "skipped"}
Flag == {"keep", "yes", "no"}
RowType == [status : Status, evidence : BOOLEAN, approval : BOOLEAN]
Round == DOMAIN Request
Feedback == {Request[r] : r \in Round} \cup {Handle[r] : r \in Round}

ASSUME PhasePlanAssumption ==
  /\ Default \subseteq Phase
  /\ Given \subseteq Status \X BOOLEAN \X Flag
  /\ Handle \in [Round -> Phase]
  /\ Graph \subseteq [requires : SUBSET Phase, required : SUBSET Round,
                      allowed : SUBSET Round]
  /\ NoGraph \notin Graph
  /\ \A S \in SUBSET Phase : {NoPlan, Unreadable} \cap [S -> RowType] = {}
  /\ DOMAIN Candidates = Phase
  /\ Managed \in BOOLEAN
  /\ HandLine \subseteq
       [by : {"user"}, type : STRING, phase : Phase \cup {"none"},
        status : Status \cup {"approved", "rejected", "none"}, flag : Flag]
  /\ \A line \in HandLine :
       line.type = "recorded" => line.status \in {"approved", "rejected"}
  /\ MaxEdits \in Nat
  /\ MaxEventId \in Nat \ {0}

VARIABLES
  run,      \* the state in run.json: "active" or "finished"
  plan,     \* phase-plan.yaml: phase -> row
  log,      \* events.jsonl
  last,     \* last_event_id in status.json
  op,       \* the command in flight, with the plan it will write
  step,     \* its next write, or "idle"
  reader,   \* what a phase-plan validate --final has read so far
  touched,  \* phase -> the event id next in line when its row last changed
            \* by hand, 0 if it never did (for the properties only)
  edits     \* how often it did

store == <<run, plan, log, last>>
vars == <<store, op, step, reader, touched, edits>>

Row(status, evidence, approval) ==
  [status |-> status, evidence |-> evidence, approval |-> approval]
Pending == Row("pending", FALSE, FALSE)

\* An event of the helper, with the fields of all the types there are.
Event(type, phase, status, flag) ==
  [by |-> "helper", type |-> type, phase |-> phase, status |-> status,
   flag |-> flag]
Plain(type) == Event(type, "none", "none", "keep")

\* What the helper recorded: a line that was appended with event append looks
\* like its own, and only the properties tell them apart.
Recorded(line) == IF line.by = "helper" THEN line.type ELSE "other"

NoOp == [kind |-> "none"]
NotReading == [seen |-> 0]

Init ==
  /\ run     = "active"
  /\ plan    = NoPlan
  /\ log     = <<Plain("other")>>
  /\ last    = 1
  /\ op      = NoOp
  /\ step    = "idle"
  /\ reader  = NotReading
  /\ touched = [p \in Phase |-> 0]
  /\ edits   = 0

Coherent == Len(log) = last

Begin(o) ==
  /\ step = "idle"
  /\ Coherent
  /\ last < MaxEventId
  /\ op' = o
  /\ step' = "append"
  /\ UNCHANGED <<store, reader, touched, edits>>

-----------------------------------------------------------------------------
(* init and set *)

\* The graph belongs to GraphProposals and the instance to WorkflowInstance;
\* they are read as whatever they are at the moment.
Graphs    == Graph \cup {NoGraph}
Instances == SUBSET Node

\* phasePlanRequiredPhaseIDs: the defaults, and what a valid graph adds.
RequiredPhases(graph) ==
  Default \cup (IF graph = NoGraph THEN {} ELSE graph.requires)

InitPhasePlan(graph) ==
  /\ plan = NoPlan
  /\ Begin([kind |-> "init", event |-> Plain("initialized"),
            plan |-> [p \in RequiredPhases(graph) |-> Pending]])

\* (Mutant of Updated: the flag is taken from the command line alone.)
UpdatedAfresh(row, status, evidence, flag) ==
  Row(status, evidence, flag = "yes")

\* The row is written anew, only the approval flag outlives it.
Updated(row, status, evidence, flag) ==
  Row(status, evidence, IF flag = "keep" THEN row.approval ELSE flag = "yes")

HasPlan == plan \notin {NoPlan, Unreadable}

\* The other rows stay as they were read; a finished run is no obstacle.
SetPhase(p, status, evidence, flag) ==
  /\ HasPlan
  /\ p \in DOMAIN plan
  /\ Begin([kind |-> "set", event |-> Event("updated", p, status, flag),
            plan |-> [plan EXCEPT ![p] = Updated(@, status, evidence, flag)]])

-----------------------------------------------------------------------------
(* approval request and record, and other commands *)

\* Approvals are refused for closed and aborted runs.
MayDecide == run # "finished"

RequestApproval(p) ==
  /\ MayDecide
  /\ Begin([kind |-> "approval", event |-> Event("requested", p, "none",
                                                 "keep")])

RecordApproval(p, decision) ==
  /\ MayDecide
  /\ Begin([kind |-> "approval", event |-> Event("recorded", p, decision,
                                                 "keep")])

\* event append, whatever the state of the run: of an approval only the
\* phase and the decision are validated.
AppendEvent(line) == Begin([kind |-> "event", event |-> line])

\* run close and run abort
FinishRun ==
  /\ run # "finished"
  /\ Begin([kind |-> "finish", event |-> Plain("finished")])

-----------------------------------------------------------------------------
(* The writes of a command *)

AppendLine ==
  /\ step = "append"
  /\ log' = Append(log, op.event)
  /\ step' = CASE op.kind \in {"init", "set"} -> "plan"
               [] op.kind = "finish"          -> "run"
               [] OTHER                       -> "status"
  /\ UNCHANGED <<run, plan, last, op, reader,
                 touched, edits>>

\* init creates the file, set replaces it whatever it is by now.
WritePlan ==
  /\ step = "plan"
  /\ op.kind = "init" => plan = NoPlan
  /\ plan' = op.plan
  /\ step' = "status"
  /\ UNCHANGED <<run, log, last, op, reader,
                 touched, edits>>

WriteMetadata ==
  /\ step = "run"
  /\ run' = "finished"
  /\ step' = "status"
  /\ UNCHANGED <<plan, log, last, op, reader,
                 touched, edits>>

ReplaceStatus ==
  /\ step = "status"
  /\ last' = Len(log)
  /\ step' = "idle"
  /\ op' = NoOp
  /\ UNCHANGED <<run, plan, log, reader,
                 touched, edits>>

\* The next write fails, or the process is killed before it.
Stop ==
  /\ step # "idle"
  /\ step' = "idle"
  /\ op' = NoOp
  /\ UNCHANGED <<store, reader, touched, edits>>

-----------------------------------------------------------------------------
(* phase-plan validate --final *)

\* Feedback rounds are declared by the graph, complete, and in pairs.
FeedbackHolds(rows, graph) ==
  LET requests == {r \in Round : Request[r] \in DOMAIN rows}
      handles  == {r \in Round : Handle[r] \in DOMAIN rows}
  IN  /\ graph = NoGraph => requests \cup handles = {}
      /\ graph # NoGraph => /\ requests \cup handles \subseteq graph.allowed
                            /\ graph.required \subseteq requests
      /\ requests = handles

\* The rows that have to be finished, and are: the required ones and any
\* other round of feedback.
FinalPhases(rows, graph) ==
  (RequiredPhases(graph) \cup Feedback) \cap DOMAIN rows
Terminal(rows, graph) ==
  /\ RequiredPhases(graph) \subseteq DOMAIN rows
  /\ \A p \in FinalPhases(rows, graph) :
       /\ rows[p].status # "pending"
       /\ rows[p].status = "complete" => rows[p].evidence

\* The decisions on a phase in the first n lines of the log, whoever appended
\* them.
Decisions(n, p) ==
  {i \in 1 .. n : log[i].type = "recorded" /\ log[i].phase = p}

\* (Mutant of Approved: one approval is enough.)
EverApproved(n, p) == \E i \in Decisions(n, p) : log[i].status = "approved"

Approved(n, p) ==
  /\ Decisions(n, p) # {}
  /\ log[Max(Decisions(n, p))].status = "approved"

\* The first of its candidates that the instance has, if there is one.
NodesOf(p) == SelectSeq(Candidates[p], LAMBDA n : n \in Node)
NodeOf(p)  == Head(NodesOf(p))

\* The complete rows of a managed run stand for sound nodes (they succeeded,
\* their evidence and outputs are in place), each for one of its own, with
\* evidence of that node.
Projected(rows) ==
  {p \in DOMAIN rows : rows[p].status = "complete" /\ Candidates[p] # <<>>}
ProjectionHolds(rows, sound) ==
  Managed =>
    \A p \in Projected(rows) :
      /\ NodesOf(p) # <<>>
      /\ NodeOf(p) \in sound
      /\ rows[p].evidence
      /\ \A q \in Projected(rows) \ {p} : NodeOf(q) # NodeOf(p)

\* The plan is read first ...
ReadPlan ==
  /\ reader = NotReading
  /\ HasPlan
  /\ reader' = [seen |-> Len(log), rows |-> plan, coherent |-> Coherent]
  /\ UNCHANGED <<store, op, step, touched, edits>>

FinalHolds(rows, graph, sound) ==
  /\ FeedbackHolds(rows, graph)
  /\ Terminal(rows, graph)
  /\ ProjectionHolds(rows, sound)
  /\ \A p \in DOMAIN rows : rows[p].approval => Approved(Len(log), p)

\* ... and then the graph, the instance and the approvals in the log: the
\* verdict is FinalHolds of what was read, and nothing is stored.
ValidatePhasePlan ==
  /\ reader # NotReading
  /\ reader' = NotReading
  /\ UNCHANGED <<store, op, step, touched, edits>>

-----------------------------------------------------------------------------
(* What other commands and people do *)

Edited(ps) ==
  /\ edits < MaxEdits
  /\ edits' = edits + 1
  /\ touched' = [p \in Phase |-> IF p \in ps THEN Len(log) + 1 ELSE touched[p]]
  /\ UNCHANGED <<run, log, last, op, step, reader>>

\* Somebody ticks a row off, or deletes or garbles the plan.
EditPlan ==
  \/ \E p \in Phase :
       /\ HasPlan
       /\ plan' = [q \in DOMAIN plan \cup {p} |->
                     IF q = p THEN Row("complete", FALSE, FALSE) ELSE plan[q]]
       /\ Edited({p})
  \/ /\ plan # NoPlan
     /\ plan' \in {NoPlan, Unreadable}
     /\ Edited(Phase)

Next ==
  \/ \E graph \in Graphs : InitPhasePlan(graph)
  \/ \E p \in Phase, g \in Given : SetPhase(p, g[1], g[2], g[3])
  \/ \E p \in Phase : RequestApproval(p)
  \/ \E p \in Phase, d \in {"approved", "rejected"} : RecordApproval(p, d)
  \/ \E line \in HandLine : AppendEvent(line)
  \/ FinishRun
  \/ AppendLine \/ WritePlan \/ WriteMetadata \/ ReplaceStatus \/ Stop
  \/ ReadPlan \/ ValidatePhasePlan
  \/ EditPlan

Spec == Init /\ [][Next]_vars

-----------------------------------------------------------------------------
(* Properties *)

\* What the helper's events among the first n say: the plan began with the
\* last init, a row has the status of the last set after it, and the flag of
\* the last set that gave one.
LastInit(n) ==
  Max({0} \cup {i \in 1 .. n : Recorded(log[i]) = "initialized"})
Sets(n, p) ==
  {i \in LastInit(n) .. n :
     i > 0 /\ Recorded(log[i]) = "updated" /\ log[i].phase = p}
LastSet(n, p) == Max({LastInit(n)} \cup Sets(n, p))
LastFlag(n, p) ==
  Max({LastInit(n)} \cup {i \in Sets(n, p) : log[i].flag # "keep"})

Says(n, p, status) ==
  IF LastSet(n, p) \in Sets(n, p) THEN log[LastSet(n, p)].status = status
                                  ELSE status = "pending"
SaysFlag(n, p) ==
  LastFlag(n, p) \in Sets(n, p) /\ log[LastFlag(n, p)].flag = "yes"

RowAgrees(n, p) ==
  LET has == HasPlan /\ p \in DOMAIN plan
  IN  /\ touched[p] <= LastSet(n, p) =>
           /\ has => LastInit(n) > 0 /\ Says(n, p, plan[p].status)
           /\ Sets(n, p) # {} => has
      /\ touched[p] <= LastFlag(n, p) =>
           (has => plan[p].approval = SaysFlag(n, p))

\* The plan is the outcome of the events: each row has the status last set,
\* and the approval flag last given however many sets came after, unless a
\* hand changed the row since.  Only the last event may be missing from the
\* plan, in a store that refuses to go on.
PlanFollowsLedger ==
  \E n \in {last, Len(log)} : \A p \in Phase : RowAgrees(n, p)

\* The log has an approval of the phase and no rejection after it.
StandsApproved(p) ==
  \E i \in 1 .. Len(log) :
    /\ log[i].type = "recorded" /\ log[i].phase = p
    /\ log[i].status = "approved"
    /\ \A j \in i + 1 .. Len(log) :
         log[j].type = "recorded" /\ log[j].phase = p =>
           log[j].status # "rejected"

\* Although nothing is locked, a final validation that began on a coherent
\* store and passed means: every default phase had been finished and every
\* phase the ledger flagged had been approved, and not been rejected since,
\* when the log was read; in a managed run, every phase the ledger has as
\* complete stood for a node that was done.  (Rows no hand ever changed.)
FinalPassIsBacked ==
  [][/\ reader # NotReading /\ reader' = NotReading
     /\ reader.coherent
     => \A graph \in Graphs, sound \in Instances :
        FinalHolds(reader.rows, graph, sound) =>
        \A p \in Phase : touched[p] = 0 =>
          /\ p \in Default => ~Says(reader.seen, p, "pending")
          /\ SaysFlag(reader.seen, p) => StandsApproved(p)
          /\ Managed /\ Says(reader.seen, p, "complete")
               /\ Candidates[p] # <<>> => NodeOf(p) \in sound]_reader

\* Once the helper has recorded that the run is finished, it records no
\* request and no decision for it, not even after a finish that stopped
\* half-way: whatever comes later was appended by hand.
OnlyHandsDecideAfterFinish ==
  \A i, j \in 1 .. Len(log) :
     Recorded(log[i]) = "finished" /\ i < j =>
       Recorded(log[j]) \notin {"requested", "recorded"}
=============================================================================
