----------------------------- MODULE GraphDiff -----------------------------
(***************************************************************************)
(* The semantic diff between two workflow graphs, its risk flags, and what *)
(* they decide: which proposals may be recorded and applied (graph.go).    *)
(***************************************************************************)
EXTENDS GraphFile

\* The key of a row; an edge is known by its two ends.
Key(section, row) ==
  CASE section = "edges"     -> <<Field(row, "from"), Field(row, "to")>>
    [] section = "approvals" -> Field(row, "scope")
    [] OTHER                 -> Field(row, "id")
Keys(section, rows) == {Key(section, row) : row \in ToSet(rows)}

\* Of several rows with one key the last counts.
RowOf(section, rows, key) ==
  rows[SelectLastInSeq(rows, LAMBDA row : Key(section, row) = key)]

\* Defaults are filled in; the order of evidence and requirements is nothing
\* to tell rows apart, that of checks is.
Counts(seq) ==
  [v \in ToSet(seq) |-> Cardinality({i \in DOMAIN seq : seq[i] = v})]
Whole(keys, row) == [key \in ToSet(keys) |-> Field(row, key)]
CanonicalRow(section, row) ==
  [key \in ToSet(Order[section]) |->
     CASE key \in {"evidence", "requires"} -> Counts(Field(row, key))
       [] key = "checks" -> [i \in DOMAIN Field(row, key) |->
                               Whole(CheckOrder, row.checks[i])]
       [] OTHER -> Field(row, key)]

\* diffWorkflowGraphEntities: keys of the rows added, removed and modified
Changes(section, from, to) ==
  LET before == Keys(section, from[section])
      after  == Keys(section, to[section])
      row(graph, key) ==
        CanonicalRow(section, RowOf(section, graph[section], key))
  IN  [added |-> after \ before, removed |-> before \ after,
       modified |-> {key \in before \cap after :
                       row(from, key) # row(to, key)}]
NoChanges == [added |-> {}, removed |-> {}, modified |-> {}]

FeedbackChanged(from, to) ==
  {Whole(Order.feedback_intake, row) : row \in from.feedback_intake} #
  {Whole(Order.feedback_intake, row) : row \in to.feedback_intake}

\* diffLoadedWorkflowGraphs, for two graphs that validate
Diff(from, to) ==
  [section \in ListSections |-> Changes(section, from, to)]

\* workflowGraphRiskFlags: any one of them asks for an approval
Risk(from, to) ==
  LET diff == Diff(from, to)
      required(graph, key) ==
        Field(RowOf("phases", graph.phases, key), "required")
  IN  [graph_identity_changed |-> from.graph_id # to.graph_id
                                    \/ from.version # to.version,
       metadata_changed |-> Whole(Order.metadata, from.metadata)
                              # Whole(Order.metadata, to.metadata),
       phase_removed |-> diff.phases.removed # {},
       phase_required_changed |-> \E key \in diff.phases.modified :
                                    required(from, key) # required(to, key),
       dependencies_changed |-> diff.edges # NoChanges,
       gates_changed |-> diff.gates # NoChanges,
       approvals_changed |-> diff.approvals # NoChanges,
       feedback_intake_changed |-> FeedbackChanged(from, to)]
RiskFlags(from, to) == {flag \in DOMAIN Risk(from, to) : Risk(from, to)[flag]}
RequiresApproval(from, to) == RiskFlags(from, to) # {}

OnlyFeedbackChanged(from, to) ==
  /\ \A section \in ListSections : Diff(from, to)[section] = NoChanges
  /\ RiskFlags(from, to) = {"feedback_intake_changed"}

-----------------------------------------------------------------------------
(* propose and apply *)

Graph(file) == Parsed(file).graph
Passes(file) == LoadIssues(FALSE, file) = {}
OnlyStaleBounds(file) == LoadIssues(FALSE, file) = {"stale_bounds"}
CanonicalFeedback(file) == Passes(file) /\ Graph(file).feedback_intake # {}

\* proposeWorkflowGraphUnlocked: a graph that fails may be replaced as a
\* whole; if only its feedback bounds are stale and nothing but them
\* changes, the proposal is a migration.
ProposalKind(base, candidate) ==
  IF ~Passes(candidate) THEN "refused"
  ELSE IF base # NoFile /\ Passes(base) THEN "change"
  ELSE IF base # NoFile /\ OnlyStaleBounds(base)
          /\ CanonicalFeedback(candidate)
          /\ OnlyFeedbackChanged(Graph(base), Graph(candidate))
  THEN "migration"
  ELSE IF RepairSupported(LoadIssues(FALSE, base)) THEN "replacement"
  ELSE "refused"

\* applyWorkflowGraphUnlocked, of a record whose base is still there: what
\* the proposal was recorded as has to suit the graph it found.
MayApply(kind, base, candidate) ==
  /\ Passes(candidate)
  /\ \/ Passes(base)
     \/ kind = "migration" /\ OnlyStaleBounds(base)
        /\ CanonicalFeedback(candidate)
     \/ kind = "replacement" /\ RepairSupported(LoadIssues(FALSE, base))

\* What apply writes: the candidate, stamped with the id of its event, if it
\* validates as it was written.
Stamp(graph, event) ==
  [graph EXCEPT !.metadata = ("last_applied_event_id" :> event) @@ @]
Applied(candidate, event) == Encoded(Stamp(Graph(candidate), event))
=============================================================================
