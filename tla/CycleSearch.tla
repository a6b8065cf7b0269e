---------------------------- MODULE CycleSearch ----------------------------
(***************************************************************************)
(* The depth-first search with which workflow graphs (graph.go) and task   *)
(* DAGs (task_dag.go) are searched for a cycle, one call of visit or one   *)
(* return from it at a time.                                               *)
(***************************************************************************)
EXTENDS Naturals, Sequences, FiniteSets, SequencesExt

\* stack holds the nodes being visited, deepest last; rest[1] the nodes the
\* search is still to start from, rest[i + 1] the successors that stack[i] is
\* still to visit; cycle is what is found.
SearchStart(order) ==
  [stack |-> <<>>, rest |-> <<order>>, visited |-> {}, cycle |-> <<>>]

\* The part of the stack from node on, closed by node.
Closed(stack, node) ==
  Append(SubSeq(stack, CHOOSE i \in DOMAIN stack : stack[i] = node,
                Len(stack)), node)

\* The next node in line: on the stack it closes a cycle, a visited one is
\* left alone, any other is put on the stack with all its successors.
Visit(s, next) ==
  LET node == Head(Last(s.rest))
      t == [s EXCEPT !.rest[Len(s.rest)] = Tail(@)]
  IN  IF Contains(s.stack, node)
      THEN [t EXCEPT !.cycle = Closed(s.stack, node)]
      ELSE IF node \in s.visited THEN t
      ELSE [t EXCEPT !.stack = Append(@, node),
                     !.rest = Append(@, next[node])]

\* The deepest node has no successor left.
Return(s) ==
  [s EXCEPT !.stack = Front(@), !.rest = Front(@),
            !.visited = @ \cup {Last(s.stack)}]

SearchStep(s, next) ==
  IF s.cycle # <<>> THEN s
  ELSE IF Last(s.rest) # <<>> THEN Visit(s, next)
  ELSE IF s.stack # <<>> THEN Return(s) ELSE s

\* No search takes more steps: each node is visited from the order or as a
\* successor, and returned from once.
MaxSteps(order, next) ==
  Len(order)
    + Cardinality(UNION {{n} \X (0 .. Len(next[n])) : n \in DOMAIN next})

Search(order, next) ==
  LET after[k \in Nat] == IF k = 0 THEN SearchStart(order)
                          ELSE SearchStep(after[k - 1], next)
  IN  after[MaxSteps(order, next)]

\* next[n]: the successors of n, in order; order: where the search starts.
FirstCycle(order, next) == Search(order, next).cycle

-----------------------------------------------------------------------------
(* What it has to compute *)

\* The nodes that can be reached from n in 1 to k + 1 steps.
Reach(n, next, k) ==
  LET reach[i \in 0 .. k] ==
        IF i = 0 THEN ToSet(next[n])
        ELSE LET less == reach[i - 1]
             IN  less \cup UNION {ToSet(next[m]) : m \in less}
  IN  reach[k]

IsCyclic(nodes, next) ==
  \E n \in nodes : n \in Reach(n, next, Cardinality(nodes))

IsCycle(path, next) ==
  /\ Len(path) > 1 /\ path[1] = path[Len(path)]
  /\ \A i \in 1 .. Len(path) - 1 : path[i + 1] \in ToSet(next[path[i]])
=============================================================================
