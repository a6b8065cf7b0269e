---------------------------- MODULE TaskDagFile ----------------------------
(***************************************************************************)
(* How a task-DAG file is read and validated (task_dag.go).  A line is     *)
(* what is left of it after comments and blank lines are gone: how deep it *)
(* stands, whether it is a list item, and its key and value; lists are     *)
(* sequences of names.                                                     *)
(***************************************************************************)
EXTENDS Naturals, FiniteSets, CycleSearch

CONSTANTS
  Blank,     \* the empty string
  SafePaths  \* output paths that stay inside the repository

\* key is Malformed where there is no `key: value'; value then is the text.
Malformed == "malformed"
Line(indent, item, key, value) ==
  [indent |-> indent, item |-> item, key |-> key, value |-> value]

Task(id, dependsOn, join, outputs) ==
  [id |-> id, depends_on |-> dependsOn, join |-> join,
   required_outputs |-> outputs]
NoTask == Task(Blank, <<>>, Blank, <<>>)

\* open: a node is being read; list: the indent of the required_outputs whose
\* items may follow, plus one; seen and fields: the keys there were already.
ParseStart ==
  [schema_version |-> Blank, workflow_id |-> Blank, nodes |-> <<>>,
   codes |-> {}, inNodes |-> FALSE, open |-> FALSE, node |-> NoTask,
   seen |-> {}, fields |-> {}, list |-> 0]

Complain(s, code) == [s EXCEPT !.codes = @ \cup {code}]
ParseError(s) == Complain(s, "task_dag_parse_error")
SchemaError(s) == Complain(s, "task_dag_invalid_schema")

FinishNode(s) ==
  IF s.open
  THEN [s EXCEPT !.nodes = Append(@, s.node), !.open = FALSE, !.list = 0]
  ELSE s

\* applyTaskDAGNodeField.  A blank list is the empty one.
NodeField(s, key, value) ==
  IF key \in s.fields \/ key \notin DOMAIN NoTask
  THEN SchemaError([s EXCEPT !.fields = @ \cup {key}])
  ELSE [s EXCEPT !.fields = @ \cup {key},
                 !.node[key] =
                   IF value = Blank THEN NoTask[key] ELSE value]

TopField(s, key, value) ==
  IF key \in s.seen THEN SchemaError(s)
  ELSE LET t == [s EXCEPT !.seen = @ \cup {key}]
       IN  CASE key \in {"schema_version", "workflow_id"} ->
                  [t EXCEPT ![key] = value]
             [] key = "nodes" ->
                  LET u == [t EXCEPT !.inNodes = TRUE]
                  IN  IF value = Blank THEN u ELSE SchemaError(u)
             [] OTHER -> SchemaError(t)

IsOutput(s, line) == s.list > 0 /\ line.item /\ line.indent >= s.list
IsTop(s, line) == ~s.inNodes \/ line.indent = 0

\* A list item after an empty required_outputs is an output, any other one in
\* the nodes begins a node.  A key in the first column ends the nodes.
ParseLine(s, line) ==
  IF IsOutput(s, line)
  THEN [s EXCEPT !.node.required_outputs = Append(@, line.value)]
  ELSE IF line.item /\ s.inNodes
  THEN LET t == [FinishNode(s) EXCEPT !.open = TRUE, !.node = NoTask,
                                      !.fields = {}]
       IN  IF line.key = Malformed THEN ParseError(t)
           ELSE NodeField(t, line.key, line.value)
  ELSE IF line.item \/ line.key = Malformed THEN ParseError(s)
  ELSE IF IsTop(s, line)
  THEN TopField(IF s.inNodes /\ line.key # "nodes"
                THEN [FinishNode(s) EXCEPT !.inNodes = FALSE] ELSE s,
                line.key, line.value)
  ELSE IF ~s.open THEN ParseError(s)
  ELSE [NodeField(s, line.key, line.value) EXCEPT
          !.list = IF line.key = "required_outputs" /\ line.value = Blank
                   THEN line.indent + 1 ELSE 0]

Parsed(lines) == FinishNode(FoldLeft(ParseLine, ParseStart, lines))

-----------------------------------------------------------------------------
(* Validation *)

\* What is said of nodes is said of those with an id; of several with the
\* same id the search for cycles knows the last.
Named(dag) == {i \in DOMAIN dag.nodes : dag.nodes[i].id # Blank}
Ids(dag) == {n.id : n \in ToSet(dag.nodes)}
Dependencies(dag) ==
  [id \in Ids(dag) |->
     LET last == SelectLastInSeq(dag.nodes, LAMBDA n : n.id = id)
     IN  SelectSeq(dag.nodes[last].depends_on, LAMBDA d : d \in Ids(dag))]
HasCycle(dag) ==
  FirstCycle([i \in DOMAIN dag.nodes |-> dag.nodes[i].id],
             Dependencies(dag)) # <<>>

Wrong(dag) ==
  LET node(i) == dag.nodes[i]
      known == {node(i).id : i \in Named(dag)}
  IN  [task_dag_duplicate_node |->
         Cardinality(known) < Cardinality(Named(dag)),
       task_dag_unknown_dependency |->
         \E i \in Named(dag) : ~(ToSet(node(i).depends_on) \subseteq known),
       task_dag_cycle_detected |-> HasCycle(dag),
       task_dag_unsupported_join |->
         \E i \in Named(dag) : node(i).join # "all_of",
       node_required_output_missing |->
         \E i \in Named(dag) : node(i).required_outputs = <<>>,
       task_dag_invalid_schema |->
         \/ dag.schema_version # "task-dag/v1"
         \/ dag.workflow_id = Blank
         \/ dag.nodes = <<>>
         \/ Named(dag) # DOMAIN dag.nodes
         \/ \E i \in Named(dag) :
              ~(ToSet(node(i).required_outputs) \subseteq SafePaths)]

\* ValidateTaskDAG: every code there is a reason for; the first in rank
\* becomes the reason of the result.
ReasonCodes(lines) ==
  LET dag == Parsed(lines)
  IN  dag.codes \cup {code \in DOMAIN Wrong(dag) : Wrong(dag)[code]}

Rank ==
  <<"task_dag_parse_error", "task_dag_duplicate_node",
    "task_dag_unknown_dependency", "task_dag_cycle_detected",
    "task_dag_unsupported_join", "node_required_output_missing",
    "task_dag_invalid_schema">>
Reason(lines) ==
  LET codes == SelectSeq(Rank, LAMBDA code : code \in ReasonCodes(lines))
  IN  IF codes = <<>> THEN "task_dag_valid" ELSE codes[1]

ValidTaskDAG(lines) == ReasonCodes(lines) = {}
=============================================================================
