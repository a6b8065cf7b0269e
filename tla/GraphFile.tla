----------------------------- MODULE GraphFile -----------------------------
(***************************************************************************)
(* How a workflow graph file is read, validated and written (graph.go).  A *)
(* line is what is left of it without comments: how deep it stands,        *)
(* whether it is a list item, its key and its value.  A row of a section   *)
(* is a function from the keys it was given to their values.               *)
(***************************************************************************)
EXTENDS FiniteSets, CycleSearch, TLC

CONSTANTS
  Blank,    \* the empty string
  Garbled,  \* a value that is not the boolean, number or list its key takes
  NoFile    \* there is no such file

Malformed == "malformed"
Line(indent, item, key, value) ==
  [indent |-> indent, item |-> item, key |-> key, value |-> value]

\* The keys of each section, in the order they are written.
Order ==
  [metadata |-> <<"project", "created_by", "managed_by", "source_template",
                  "last_applied_event_id">>,
   phases |-> <<"id", "title", "owner_layer", "required", "evidence">>,
   edges |-> <<"from", "to">>,
   gates |-> <<"id", "requires", "final_required", "checks">>,
   approvals |-> <<"scope", "required_role">>,
   proposals |-> <<"policy">>,
   feedback_intake |-> <<"policy", "schema_version", "min_rounds",
                         "max_rounds", "required_rounds", "optional_rounds">>]
CheckOrder ==
  <<"type", "name", "path", "field", "equals", "one_of", "token", "tokens",
    "phase", "status", "message", "hint">>
Mappings == {"metadata", "proposals", "feedback_intake"}
ListSections == DOMAIN Order \ Mappings

Booleans == {"required", "final_required"}
Numbers  == {"min_rounds", "max_rounds"}
Lists    == {"evidence", "requires", "one_of", "tokens", "required_rounds",
             "optional_rounds", "checks"}
Default(key) ==
  CASE key \in Booleans -> FALSE
    [] key \in Numbers  -> 0
    [] key \in Lists    -> <<>>
    [] OTHER            -> Blank
Field(row, key) == IF key \in DOMAIN row THEN row[key] ELSE Default(key)
Empty == [key \in {} |-> Blank]
NoRow == [none |-> TRUE]

NoGraph ==
  [version |-> Blank, graph_id |-> Blank, metadata |-> Empty, phases |-> <<>>,
   edges |-> <<>>, gates |-> <<>>, approvals |-> <<>>, proposals |-> Empty,
   feedback_intake |-> {}]  \* {} or the one mapping there is

-----------------------------------------------------------------------------
(* parseWorkflowGraph *)

\* row and check are open, checks belong to the open gate; bad: the file has
\* lines that cannot be read, and the issue graph_yaml.
ParseStart ==
  [graph |-> NoGraph, bad |-> FALSE, section |-> "none", sections |-> {},
   row |-> NoRow, check |-> NoRow, checks |-> <<>>]
Bad(s) == [s EXCEPT !.bad = TRUE]

FlushCheck(s) ==
  IF s.check = NoRow THEN s
  ELSE [s EXCEPT !.checks = Append(@, s.check), !.check = NoRow]
Flush(s) ==
  LET t == FlushCheck(s)
      row == IF s.section = "gates" THEN ("checks" :> t.checks) @@ t.row
                                    ELSE t.row
  IN  IF s.row = NoRow THEN t
      ELSE [t EXCEPT !.graph[s.section] = Append(@, row), !.row = NoRow,
                     !.checks = <<>>]

Readable(key, value) ==
  /\ value # Garbled
  /\ value = Blank => key \notin Booleans \cup Numbers
  /\ key = "checks" => value = Blank

\* A key is given once.  One that cannot be read keeps its default, but a
\* phase then still says whether it is required.
With(row, key, value) ==
  IF Readable(key, value)
  THEN (key :> IF value = Blank THEN Default(key) ELSE value) @@ row
  ELSE IF key = "required" THEN (key :> FALSE) @@ row ELSE row
Takes(row, keys, key, value) ==
  key \in ToSet(keys) \ DOMAIN row /\ Readable(key, value)
Fill(row, keys, key, value) ==
  IF key \in ToSet(keys) \ DOMAIN row THEN With(row, key, value) ELSE row

MappingField(s, key, value) ==
  LET section == s.section
      old == IF section # "feedback_intake" THEN s.graph[section]
             ELSE IF s.graph[section] = {} THEN Empty
             ELSE CHOOSE row \in s.graph[section] : TRUE
      new == Fill(old, Order[section], key, value)
  IN  [s EXCEPT !.graph[section] = IF section = "feedback_intake" THEN {new}
                                                                  ELSE new,
                !.bad = @ \/ ~Takes(old, Order[section], key, value)]
ListItemField(s, key, value) ==
  IF s.section \notin ListSections \/ s.row = NoRow THEN Bad(s)
  ELSE [s EXCEPT !.row = Fill(@, Order[s.section], key, value),
                 !.bad = @ \/ ~Takes(s.row, Order[s.section], key, value)]
CheckField(s, key, value) ==
  [s EXCEPT !.check = Fill(@, CheckOrder, key, value),
            !.bad = @ \/ ~Takes(s.check, CheckOrder, key, value)]

\* A key without a value in the first column begins a section.
TopLine(s, line) ==
  LET t == Flush(s)
      key == line.key
  IN  IF line.item \/ key = Malformed THEN Bad(t)
      ELSE IF line.value = Blank
      THEN [t EXCEPT !.section = key, !.sections = @ \cup {key},
                     !.bad = @ \/ key \notin DOMAIN Order \ t.sections]
      ELSE IF key \in {"version", "graph_id"} /\ t.graph[key] = Blank
              /\ line.value # Garbled
      THEN [t EXCEPT !.graph[key] = line.value]
      ELSE Bad(t)

\* Deep items below a gate are its checks, deeper lines belong to the open
\* check, any other item is a new row.
NestedLine(s, line) ==
  LET gates == s.section = "gates"
      opened == IF gates /\ line.indent > 2
                THEN IF s.row = NoRow THEN Bad(s)
                     ELSE [FlushCheck(s) EXCEPT !.check = Empty]
                ELSE IF s.section \in ListSections
                THEN [Flush(s) EXCEPT !.row = Empty]
                ELSE Bad(Flush(s))
      t == IF line.item THEN opened ELSE s
  IN  IF s.section = "none" \/ line.key = Malformed THEN Bad(t)
      ELSE IF s.section \in Mappings /\ ~line.item
      THEN MappingField(t, line.key, line.value)
      ELSE IF gates /\ t.check # NoRow
              /\ line.indent > (IF line.item THEN 2 ELSE 4)
      THEN CheckField(t, line.key, line.value)
      ELSE ListItemField(t, line.key, line.value)

Parsed(lines) ==
  Flush(FoldLeft(LAMBDA s, line : IF line.indent = 0 THEN TopLine(s, line)
                                                     ELSE NestedLine(s, line),
                 ParseStart, lines))

-----------------------------------------------------------------------------
(* encodeWorkflowGraph *)

\* Keys that are written even if they hold their default.
Always == {"project", "created_by", "managed_by", "id", "required", "from",
           "to", "requires", "type", "scope", "required_role"}

\* The lines of a row that begins at a column, with a dash if it is an item.
Rows(indent, item, keys, row, always) ==
  LET shown == SelectSeq(keys, LAMBDA k : k \in always
                                            \/ Field(row, k) # Default(k))
  IN  [i \in DOMAIN shown |->
         Line(IF item /\ i > 1 THEN indent + 2 ELSE indent, item /\ i = 1,
              shown[i], Field(row, shown[i]))]
Checks(gate) ==
  IF Field(gate, "checks") = <<>> THEN <<>>
  ELSE <<Line(4, FALSE, "checks", Blank)>> \o
       FlattenSeq([i \in DOMAIN gate.checks |->
                     Rows(6, TRUE, CheckOrder, gate.checks[i], Always)])
SectionLine(section) == <<Line(0, FALSE, section, Blank)>>
ListOf(graph, section) ==
  IF graph[section] = <<>> /\ section # "phases" THEN <<>>
  ELSE SectionLine(section) \o
       FlattenSeq([i \in DOMAIN graph[section] |->
         LET row == graph[section][i]
         IN  Rows(2, TRUE, SelectSeq(Order[section], LAMBDA k : k # "checks"),
                  row, Always)
               \o (IF section = "gates" THEN Checks(row) ELSE <<>>)])
Encoded(graph) ==
  <<Line(0, FALSE, "version", graph.version),
    Line(0, FALSE, "graph_id", graph.graph_id)>>
  \o SectionLine("metadata") \o Rows(2, FALSE, Order.metadata, graph.metadata, Always)
  \o ListOf(graph, "phases") \o ListOf(graph, "edges")
  \o ListOf(graph, "gates") \o ListOf(graph, "approvals")
  \o (IF Field(graph.proposals, "policy") = Blank THEN <<>>
      ELSE SectionLine("proposals") \o
           Rows(2, FALSE, Order.proposals, graph.proposals, {}))
  \o FlattenSeq(SetToSeq({
       SectionLine("feedback_intake") \o
       Rows(2, FALSE, Order.feedback_intake, row, ToSet(Order.feedback_intake))
         : row \in graph.feedback_intake}))

-----------------------------------------------------------------------------
(* validateWorkflowGraph: the issues there are, those that share a reason   *)
(* code and a row under one name                                            *)

Repeats(seq) == Cardinality(ToSet(seq)) < Len(seq)
Column(rows, key) == [i \in DOMAIN rows |-> Field(rows[i], key)]
Given(rows, key) == SelectSeq(Column(rows, key), LAMBDA v : v # Blank)
PhaseIds(graph) == ToSet(Given(graph.phases, "id"))

\* What each type of check needs, and the lists it must not leave empty.
Needs ==
  [t \in {"artifact.exists", "markdown.field", "text.contains",
          "text.contains_all", "gitignore.contains_all", "codegraph.evidence",
          "phase.status"} |->
     CASE t = "artifact.exists"        -> {"path"}
       [] t = "markdown.field"         -> {"path", "field"}
       [] t = "text.contains"          -> {"path", "token"}
       [] t = "text.contains_all"      -> {"path", "tokens"}
       [] t = "gitignore.contains_all" -> {"tokens"}
       [] t = "phase.status"           -> {"phase"}
       [] OTHER                        -> {}]
PhaseStatus ==
  {"pending", "in_progress", "complete", "skipped", "not_applicable",
   "blocked"}

\* validateWorkflowGraphCheck (every list item is non-empty when it is read)
CheckHolds(check, phases) ==
  LET type == Field(check, "type")
      has(key) == Field(check, key) # Default(key)
  IN  /\ type \in DOMAIN Needs
      /\ \A key \in Needs[type] : has(key)
      /\ type = "markdown.field" => has("equals") # has("one_of")
      /\ type = "codegraph.evidence" => ~has("equals")
      /\ type = "phase.status" => /\ Field(check, "phase") \in phases
                                  /\ Field(check, "status") \in PhaseStatus

\* validateWorkflowGraphFeedbackIntake
FeedbackMissing(row) == ToSet(Order.feedback_intake) \ DOMAIN row
Canonical ==
  [policy |-> "EXTERNAL_FEEDBACK_INTAKE",
   schema_version |-> "external-feedback-intake/v1",
   min_rounds |-> 1, max_rounds |-> 5, required_rounds |-> <<1>>,
   optional_rounds |-> <<2, 3, 4, 5>>]
Stale == [max_rounds |-> 3, optional_rounds |-> <<2, 3>>]
FeedbackStale(row) ==
  {key \in DOMAIN Stale \cap DOMAIN row : row[key] = Stale[key]}
FeedbackInvalid(row) ==
  {key \in DOMAIN row \ FeedbackStale(row) : row[key] # Canonical[key]}
FeedbackConflicts(row) ==
  LET rounds(key) == ToSet(Field(row, key))
      has(keys) == keys \subseteq DOMAIN row
  IN  \/ has(Numbers) /\ row.max_rounds < row.min_rounds
      \/ rounds("required_rounds") \cap rounds("optional_rounds") # {}
      \/ \E key \in {"required_rounds", "optional_rounds"} \cap DOMAIN row :
           Repeats(row[key]) \/ ~(ToSet(row[key]) \subseteq 1 .. 5)
FeedbackIssues(row) ==
  {issue \in {"missing", "stale_bounds", "invalid"} :
     CASE issue = "missing"      -> FeedbackMissing(row) # {}
       [] issue = "stale_bounds" -> FeedbackStale(row) # {}
       [] issue = "invalid"      -> \/ FeedbackInvalid(row) # {}
                                    \/ FeedbackConflicts(row)}

\* Edges with an end missing are reported once and not looked at further.
Edges(graph) ==
  {<<Field(e, "from"), Field(e, "to")>> : e \in ToSet(graph.edges)}
Successors(graph) ==
  [p \in PhaseIds(graph) |->
     SelectSeq(Column(SelectSeq(graph.edges,
                                LAMBDA e : Field(e, "from") = p), "to"),
               LAMBDA q : q \in PhaseIds(graph))]
GraphCycle(graph) ==
  FirstCycle(SetToSeq(PhaseIds(graph)), Successors(graph))

Wrong(graph) ==
  LET phases == PhaseIds(graph)
      whole == {e \in Edges(graph) : Blank \notin {e[1], e[2]}}
      metadata(key) == Field(graph.metadata, key)
  IN  [version |-> graph.version # "workflow-graph/v1",
       graph_id |-> graph.graph_id = Blank,
       metadata |-> \/ Blank \in {metadata("project"), metadata("created_by")}
                    \/ metadata("managed_by") # "kah",
       phases |-> graph.phases = <<>>,
       phase_id |-> Blank \in ToSet(Column(graph.phases, "id")),
       phase_required |->
         \E p \in ToSet(graph.phases) : "required" \notin DOMAIN p,
       duplicate_phase |-> Repeats(Given(graph.phases, "id")),
       edge_shape |-> whole # Edges(graph),
       self_edge |-> \E e \in whole : e[1] = e[2],
       edge_ends |-> ~(whole \subseteq phases \X phases),
       cycle |-> GraphCycle(graph) # <<>>,
       gate_id |-> Blank \in ToSet(Column(graph.gates, "id")),
       gate_requires |-> \E g \in ToSet(graph.gates) :
                           ~(ToSet(Field(g, "requires")) \subseteq phases),
       gate_check |-> \E g \in ToSet(graph.gates) :
                        \E c \in ToSet(Field(g, "checks")) :
                          ~CheckHolds(c, phases),
       duplicate_gate |-> Repeats(Given(graph.gates, "id")),
       approval |-> \E a \in ToSet(graph.approvals) :
                      Blank \in {Field(a, "scope"), Field(a, "required_role")},
       duplicate_approval |-> Repeats(Given(graph.approvals, "scope")),
       proposals_policy |-> Field(graph.proposals, "policy")
                              \notin {Blank, "proposal-first"}]
GraphIssues(graph) ==
  {issue \in DOMAIN Wrong(graph) : Wrong(graph)[issue]} \cup
  UNION {FeedbackIssues(row) : row \in graph.feedback_intake}

-----------------------------------------------------------------------------
(* loadWorkflowGraph *)

\* Helper configuration and rendered diagrams are no source of a graph.
LoadIssues(forbidden, file) ==
  IF forbidden THEN {"graph_source"}
  ELSE IF file = NoFile THEN {"graph_file"}
  ELSE LET s == Parsed(file)
       IN  GraphIssues(s.graph) \cup (IF s.bad THEN {"graph_yaml"} ELSE {})

\* graphValidationRepairCandidateSupported
RepairSupported(issues) == issues # {} /\ "graph_source" \notin issues

\* graphIssueReasonCodes: what is not named here is a fault of the schema.
CodeOf ==
  [graph_file |-> {"graph_missing"}, graph_yaml |-> {"graph_parse_error"},
   graph_source |-> {"graph_source_precedence_violation",
                     "forbidden_fallback_source_detected"},
   missing |-> {"graph_feedback_intake_missing"},
   stale_bounds |-> {"graph_feedback_intake_stale_bounds"},
   invalid |-> {"graph_feedback_intake_invalid"}]
ReasonCodes(issues) ==
  {IF issues = {} THEN "graph_valid"
   ELSE IF RepairSupported(issues) THEN "graph_repair_candidate_supported"
   ELSE "graph_repair_candidate_unsupported"} \cup
  UNION {IF issue \in DOMAIN CodeOf THEN CodeOf[issue]
         ELSE {"graph_invalid_schema"} : issue \in issues}
=============================================================================
