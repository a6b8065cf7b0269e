------------------------- MODULE MCWorkflowInstance -------------------------
(***************************************************************************)
(* Instances of WorkflowInstance for TLC: two independent nodes and one    *)
(* that joins them, read from a task-DAG file by TaskDagFile.              *)
(***************************************************************************)
EXTENDS WorkflowInstance, TLC

CONSTANTS left, right, join, Blank, report

File == INSTANCE TaskDagFile WITH SafePaths <- {report}
Seq_(set) == File!SetToSeq(set)

\* The lines of a file with the given dependencies; outputs in a list of
\* their own or in the line.
Task(id, dependsOn, block) ==
  <<File!Line(2, TRUE, "id", id),
    File!Line(4, FALSE, "depends_on", dependsOn),
    File!Line(4, FALSE, "join", "all_of")>> \o
  IF block THEN <<File!Line(4, FALSE, "required_outputs", Blank),
                  File!Line(6, TRUE, File!Malformed, report)>>
           ELSE <<File!Line(4, FALSE, "required_outputs", <<report>>)>>
Header ==
  <<File!Line(0, FALSE, "schema_version", "task-dag/v1"),
    File!Line(0, FALSE, "workflow_id", "workflow"),
    File!Line(0, FALSE, "nodes", Blank)>>
Written(ids, dependsOn, block) ==
  Header \o File!FlattenSeq([i \in DOMAIN ids |->
                               Task(ids[i], dependsOn[ids[i]], block[ids[i]])])

\* What a file says
Meaning(lines) ==
  LET dag == File!Parsed(lines)
  IN  <<dag.schema_version, dag.workflow_id, dag.nodes>>
Ids == <<left, right, join>>

\* A file is valid exactly when its dependencies have no cycle, and it is
\* read back as what was written, however its lists are laid out.
ASSUME DagFilesAreReadBack ==
  \A set \in [File!ToSet(Ids) -> SUBSET File!ToSet(Ids)],
     block \in [File!ToSet(Ids) -> BOOLEAN] :
    LET dependsOn == [n \in DOMAIN set |-> Seq_(set[n])]
        lines == Written(Ids, dependsOn, block)
    IN  /\ Meaning(lines)[3] =
             [i \in DOMAIN Ids |->
                File!Task(Ids[i], dependsOn[Ids[i]], "all_of", <<report>>)]
        /\ File!Reason(lines) =
             IF File!IsCyclic(DOMAIN dependsOn, dependsOn)
             THEN "task_dag_cycle_detected" ELSE "task_dag_valid"

\* No line of a valid file is without effect, unless it is an empty list of
\* dependencies; writing down what the file says gives a valid file again.
Lines ==
  {File!Line(2, TRUE, "id", right), File!Line(4, FALSE, "id", left),
   File!Line(4, FALSE, "depends_on", <<>>),
   File!Line(4, FALSE, "depends_on", <<left>>),
   File!Line(4, FALSE, "join", "all_of"), File!Line(4, FALSE, "join", Blank),
   File!Line(4, FALSE, "required_outputs", Blank),
   File!Line(4, FALSE, "required_outputs", <<report>>),
   File!Line(6, TRUE, File!Malformed, report),
   File!Line(4, TRUE, File!Malformed, report),
   File!Line(0, FALSE, "nodes", Blank), File!Line(0, FALSE, "owner", Blank)}
ASSUME ValidFilesAreExact ==
  \A tail \in UNION {[1 .. k -> Lines] : k \in 0 .. 4} :
    LET lines == Header \o <<File!Line(2, TRUE, "id", left)>> \o tail
    IN  File!ValidTaskDAG(lines) =>
          \A i \in DOMAIN lines :
            \/ lines[i].key = "depends_on" /\ lines[i].value = <<>>
            \/ ~File!ValidTaskDAG(File!RemoveAt(lines, i))
            \/ Meaning(File!RemoveAt(lines, i)) # Meaning(lines)

\* The DAG of the instance is what its file says.
Joined == [n \in Node |-> IF n = join THEN Node \ {join} ELSE {}]
Instance == Written(Seq_(Node), [n \in Node |-> Seq_(Joined[n])],
                    [n \in Node |-> TRUE])
ASSUME InstanceIsValid ==
  /\ File!ValidTaskDAG(Instance)
  /\ \A n \in Node : Joined[n] =
                       File!ToSet(File!Dependencies(File!Parsed(Instance))[n])

Symmetry == Permutations({left, right} \cap Node)
=============================================================================
