----------------------- MODULE WorkflowInstanceProofs -----------------------
(***************************************************************************)
(* Proofs about WorkflowInstance, for any task DAG and any bounds, and     *)
(* about CycleSearch, for any finite graph.                                *)
(***************************************************************************)
EXTENDS WorkflowInstance, CycleSearch, FiniteSetTheorems, SequenceTheorems,
  WellFoundedInduction, TLAPS

(***************************************************************************)
(* Events of one kind in a log, and how an append counts.                  *)
(***************************************************************************)
Transitions == {e \in EventRecord : e.type \in Transition}
Moves  == {e \in Transitions : e.by = "helper"}
Hands  == {e \in Transitions : e.by = "user"}
Births == {e \in EventRecord : e.by = "helper" /\ e.type = "instance created"}

Where(lines, S) == {i \in 1 .. Len(lines) : lines[i] \in S}

LEMMA CountAppend ==
  ASSUME NEW lines \in Seq(EventRecord), NEW e \in EventRecord, NEW S
  PROVE  /\ IsFiniteSet(Where(lines, S))
         /\ Cardinality(Where(lines, S)) \in Nat
         /\ e \in S =>
              /\ Where(Append(lines, e), S) = Where(lines, S) \cup {Len(lines) + 1}
              /\ Cardinality(Where(Append(lines, e), S))
                   = Cardinality(Where(lines, S)) + 1
         /\ e \notin S => Where(Append(lines, e), S) = Where(lines, S)
<1> DEFINE n == Len(lines)
           W == Where(lines, S)
           more == Append(lines, e)
<1>1. IsFiniteSet(W) /\ Cardinality(W) \in Nat
  <2>1. IsFiniteSet(1 .. n)
    BY FS_Interval
  <2> QED
    BY <2>1, FS_Subset, FS_CardinalityType DEF Where
<1>2. /\ n \in Nat /\ Len(more) = n + 1 /\ 1 .. n + 1 = 1 .. n \cup {n + 1}
      /\ \A i \in 1 .. n : more[i] = lines[i]
      /\ more[n + 1] = e
  OBVIOUS
<1>3. e \in S => Where(more, S) = W \cup {n + 1}
  BY <1>2 DEF Where
<1>4. e \notin S => Where(more, S) = W
  BY <1>2 DEF Where
<1>5. n + 1 \notin W
  BY <1>2 DEF Where
<1> HIDE DEF W, more, n
<1>6. e \in S => Cardinality(Where(more, S)) = Cardinality(W) + 1
  BY <1>1, <1>3, <1>5, FS_AddElement
<1> QED
  BY <1>1, <1>3, <1>4, <1>6 DEF W, more, n

-----------------------------------------------------------------------------
(***************************************************************************)
(* The replay, line by line.  A verdict is what some function that follows *)
(* the recursion of Replay arrives at.                                     *)
(***************************************************************************)
LineOf(v, e, id) ==
  IF e.type \notin Transition THEN v
  ELSE IF e.previous = v.revision /\ Applies(e, v.nodes)
       THEN [v EXCEPT !.revision = @ + 1, !.nodes[e.node] = NodeRow(e.to, id)]
       ELSE [v EXCEPT !.ok = FALSE]

IsReplay(f, lines) ==
  f = [n \in 0 .. Len(lines) |->
         IF n = 0 THEN ReplayStart ELSE LineOf(f[n - 1], lines[n], n)]

IsVerdict(v, lines) == \E f : IsReplay(f, lines) /\ v = f[Len(lines)]

LEMMA VerdictOfNothing ==
  ASSUME NEW v
  PROVE  IsVerdict(v, <<>>) <=> v = ReplayStart
<1> DEFINE f == [n \in 0 .. 0 |-> ReplayStart]
<1>1. IsReplay(f, <<>>) /\ f[0] = ReplayStart
  BY DEF IsReplay
<1>2. ASSUME NEW g, IsReplay(g, <<>>) PROVE g[0] = ReplayStart
  BY <1>2 DEF IsReplay
<1> HIDE DEF f
<1> QED
  BY <1>1, <1>2 DEF IsVerdict

LEMMA VerdictOfAppend ==
  ASSUME NEW lines \in Seq(EventRecord), NEW e \in EventRecord, NEW w
  PROVE  IsVerdict(w, Append(lines, e)) <=>
           \E v : IsVerdict(v, lines) /\ w = LineOf(v, e, Len(lines) + 1)
<1> DEFINE n == Len(lines)
           more == Append(lines, e)
<1>1. /\ n \in Nat /\ Len(more) = n + 1 /\ 0 .. n + 1 = 0 .. n \cup {n + 1}
      /\ \A i \in 1 .. n : more[i] = lines[i]
      /\ more[n + 1] = e
  OBVIOUS
<1> HIDE DEF more
<1>2. ASSUME NEW f, IsReplay(f, lines)
      PROVE  IsVerdict(LineOf(f[n], e, n + 1), more)
  <2> DEFINE g == [i \in 0 .. n + 1 |->
                     IF i = n + 1 THEN LineOf(f[n], e, n + 1) ELSE f[i]]
  <2>1. \A i \in 0 .. n : g[i] = f[i]
    BY <1>1
  <2>2. g[n + 1] = LineOf(f[n], e, n + 1)
    BY <1>1
  <2>3. \A i \in 0 .. n : f[i] =
          IF i = 0 THEN ReplayStart ELSE LineOf(f[i - 1], lines[i], i)
    BY <1>2 DEF IsReplay
  <2>4. ASSUME NEW i \in 0 .. n + 1
        PROVE  g[i] = IF i = 0 THEN ReplayStart ELSE LineOf(g[i - 1], more[i], i)
    <3>1. CASE i = 0
      BY <1>1, <2>1, <2>3, <3>1
    <3>2. CASE i = n + 1
      BY <1>1, <2>1, <2>2, <3>2
    <3>3. CASE i \in 1 .. n
      <4>1. i - 1 \in 0 .. n /\ i \in 0 .. n /\ i # 0
        BY <1>1, <3>3
      <4>2. g[i] = f[i] /\ g[i - 1] = f[i - 1] /\ more[i] = lines[i]
        BY <1>1, <2>1, <3>3, <4>1
      <4>3. f[i] = LineOf(f[i - 1], lines[i], i)
        BY <2>3, <4>1
      <4> HIDE DEF g
      <4> QED
        BY <4>1, <4>2, <4>3
    <3> QED
      BY <1>1, <3>1, <3>2, <3>3
  <2>5. g = [i \in 0 .. n + 1 |-> g[i]]
    OBVIOUS
  <2> HIDE DEF g
  <2>6. g = [i \in 0 .. n + 1 |->
               IF i = 0 THEN ReplayStart ELSE LineOf(g[i - 1], more[i], i)]
    BY <2>4, <2>5
  <2>7. IsReplay(g, more)
    BY <1>1, <2>6 DEF IsReplay
  <2> QED
    BY <1>1, <2>2, <2>7 DEF IsVerdict
<1>3. ASSUME NEW g, IsReplay(g, more)
      PROVE  \E v : IsVerdict(v, lines) /\ g[n + 1] = LineOf(v, e, n + 1)
  <2> DEFINE f == [i \in 0 .. n |-> g[i]]
  <2>1. \A i \in 0 .. n + 1 : g[i] =
          IF i = 0 THEN ReplayStart ELSE LineOf(g[i - 1], more[i], i)
    BY <1>1, <1>3 DEF IsReplay
  <2>2. ASSUME NEW i \in 0 .. n
        PROVE  f[i] = IF i = 0 THEN ReplayStart ELSE LineOf(f[i - 1], lines[i], i)
    <3>1. CASE i = 0
      BY <1>1, <2>1, <3>1
    <3>2. CASE i \in 1 .. n
      <4>1. i - 1 \in 0 .. n /\ i \in 0 .. n + 1 /\ i # 0
        BY <1>1, <3>2
      <4>2. f[i] = g[i] /\ f[i - 1] = g[i - 1] /\ more[i] = lines[i]
        BY <1>1, <3>2, <4>1
      <4>3. g[i] = LineOf(g[i - 1], more[i], i)
        BY <2>1, <4>1
      <4> HIDE DEF f
      <4> QED
        BY <4>1, <4>2, <4>3
    <3> QED
      BY <3>1, <3>2
  <2>3. f = [i \in 0 .. n |-> f[i]] /\ f[n] = g[n]
    BY <1>1
  <2> HIDE DEF f
  <2>4. f = [i \in 0 .. n |->
               IF i = 0 THEN ReplayStart ELSE LineOf(f[i - 1], lines[i], i)]
    BY <2>2, <2>3
  <2>5. IsVerdict(f[n], lines)
    BY <2>4 DEF IsReplay, IsVerdict
  <2>6. n + 1 \in 0 .. n + 1 /\ n + 1 # 0 /\ (n + 1) - 1 = n
    BY <1>1
  <2>7. g[n + 1] = LineOf(g[n], e, n + 1)
    BY <1>1, <2>1, <2>6
  <2> QED
    BY <2>3, <2>5, <2>7
<1> HIDE DEF n
<1> QED
  BY <1>1, <1>2, <1>3 DEF IsVerdict, more, n

\* If the recursion has a solution at all, Replay is a verdict.
LEMMA ReplayIsVerdict ==
  ASSUME \E v : IsVerdict(v, log)
  PROVE  IsVerdict(Replay, log)
<1> DEFINE g == CHOOSE g : g = [n \in 0 .. Len(log) |->
                  IF n = 0 THEN ReplayStart ELSE ReplayLine(g[n - 1], n)]
<1>1. Replay = g[Len(log)]
  BY Zenon DEF Replay
<1>2. \A v, n : ReplayLine(v, n) = LineOf(v, log[n], n)
  BY DEF ReplayLine, LineOf
<1>3. PICK f : IsReplay(f, log)
  BY DEF IsVerdict
<1>4. f = [n \in 0 .. Len(log) |->
             IF n = 0 THEN ReplayStart ELSE ReplayLine(f[n - 1], n)]
  BY <1>2, <1>3 DEF IsReplay
<1>5. g = [n \in 0 .. Len(log) |->
             IF n = 0 THEN ReplayStart ELSE ReplayLine(g[n - 1], n)]
  BY <1>4
<1> HIDE DEF g
<1>6. IsReplay(g, log)
  BY <1>2, <1>5 DEF IsReplay
<1> QED
  BY <1>1, <1>6 DEF IsVerdict

NodeRowType == [state : NodeState, event : Nat]
Verdict == [ok : BOOLEAN, revision : Nat \ {0}, nodes : [Node -> NodeRowType]]

\* A replay counts the transitions it applies, all of them if it finds
\* nothing to complain about.
CountedBy(v, lines) ==
  LET n == Cardinality(Where(lines, Transitions))
  IN  /\ v \in Verdict
      /\ v.revision <= n + 1
      /\ v.ok => v.revision = n + 1
      /\ n = 0 => v = ReplayStart

ReplayInv(lines) ==
  /\ \E v : IsVerdict(v, lines)
  /\ \A v : IsVerdict(v, lines) => CountedBy(v, lines)

LEMMA StartIsVerdict == ReplayStart \in Verdict
BY DEF ReplayStart, Verdict, NodeRow, NodeRowType, NodeState, NoEvent

LEMMA TransitionFields ==
  ASSUME NEW e \in EventRecord, e.type \in Transition
  PROVE  /\ e.node \in Node /\ e.previous \in Nat /\ e.expected \in Nat
         /\ e.from \in NodeState /\ e.to \in NodeState
<1>1. e \in [type : Transition, by : {"helper", "user"}, node : Node,
             previous : 1 .. MaxRevision, from : NodeState, to : NodeState,
             expected : 0 .. MaxRevision]
  <2>1. e.type \notin {"other", "instance created"}
    BY DEF Transition
  <2> QED
    BY <2>1 DEF EventRecord
<1> QED
  BY <1>1, WorkflowInstanceAssumption

LEMMA LineOfType ==
  ASSUME NEW v \in Verdict, NEW e \in EventRecord, NEW n \in Nat
  PROVE  /\ LineOf(v, e, n) \in Verdict
         /\ e.type \notin Transition => LineOf(v, e, n) = v
         /\ e.type \in Transition =>
              \/ /\ LineOf(v, e, n).revision = v.revision + 1
                 /\ LineOf(v, e, n).ok = v.ok
              \/ LineOf(v, e, n).revision = v.revision /\ ~LineOf(v, e, n).ok
<1>1. CASE e.type \notin Transition
  BY <1>1 DEF LineOf
<1>2. CASE e.type \in Transition
  <2>1. e.node \in Node /\ NodeRow(e.to, n) \in NodeRowType
    BY <1>2, TransitionFields DEF NodeRow, NodeRowType
  <2> DEFINE w == [v EXCEPT !.revision = @ + 1, !.nodes[e.node] = NodeRow(e.to, n)]
             x == [v EXCEPT !.ok = FALSE]
  <2>2. w \in Verdict /\ w.revision = v.revision + 1 /\ w.ok = v.ok
    <3> DEFINE u == [v EXCEPT !.revision = @ + 1]
               nodes == [v.nodes EXCEPT ![e.node] = NodeRow(e.to, n)]
    <3>1. u \in Verdict /\ u.revision = v.revision + 1 /\ u.ok = v.ok
      BY DEF Verdict
    <3>2. nodes \in [Node -> NodeRowType]
      BY <2>1 DEF Verdict
    <3>3. w = [u EXCEPT !.nodes = nodes]
      BY DEF Verdict
    <3> HIDE DEF u, w, nodes
    <3> QED
      BY <3>1, <3>2, <3>3 DEF Verdict
  <2>3. x \in Verdict /\ x.revision = v.revision /\ ~x.ok
    BY DEF Verdict
  <2>4. LineOf(v, e, n) = w \/ LineOf(v, e, n) = x
    BY <1>2 DEF LineOf
  <2> HIDE DEF w, x
  <2> QED
    BY <1>2, <2>2, <2>3, <2>4
<1> QED
  BY <1>1, <1>2

LEMMA ReplayExtends ==
  ASSUME NEW lines \in Seq(EventRecord), NEW e \in EventRecord,
         ReplayInv(lines)
  PROVE  ReplayInv(Append(lines, e))
<1> DEFINE more == Append(lines, e)
           n == Cardinality(Where(lines, Transitions))
           m == Cardinality(Where(more, Transitions))
<1>1. /\ n \in Nat
      /\ e.type \in Transition => m = n + 1
      /\ e.type \notin Transition => m = n
  BY CountAppend DEF Transitions
<1>2. Len(lines) + 1 \in Nat
  OBVIOUS
<1>3. \E w : IsVerdict(w, more)
  BY VerdictOfAppend DEF ReplayInv
<1>4. ASSUME NEW w, IsVerdict(w, more)
      PROVE  CountedBy(w, more)
  <2>1. PICK v : IsVerdict(v, lines) /\ w = LineOf(v, e, Len(lines) + 1)
    BY <1>4, VerdictOfAppend
  <2>2. /\ v \in Verdict /\ v.revision <= n + 1
        /\ v.ok => v.revision = n + 1
        /\ n = 0 => v = ReplayStart
    BY <2>1 DEF ReplayInv, CountedBy
  <2>3. w \in Verdict
    BY <1>2, <2>1, <2>2, LineOfType
  <2>4. v.revision \in Nat /\ w.revision \in Nat
    BY <2>2, <2>3 DEF Verdict
  <2>5. CASE e.type \notin Transition
    BY <1>1, <1>2, <2>1, <2>2, <2>5, LineOfType DEF CountedBy
  <2>6. CASE e.type \in Transition
    <3>1. \/ w.revision = v.revision + 1 /\ w.ok = v.ok
          \/ w.revision = v.revision /\ ~w.ok
      BY <1>2, <2>1, <2>2, <2>6, LineOfType
    <3>2. m = n + 1
      BY <1>1, <2>6
    <3> HIDE DEF n, m, more
    <3>3. w.revision <= m + 1 /\ (w.ok => w.revision = m + 1) /\ m # 0
      BY <1>1, <2>2, <2>4, <3>1, <3>2
    <3> QED
      BY <2>3, <3>3 DEF CountedBy, m
  <2> QED
    BY <2>5, <2>6
<1> QED
  BY <1>3, <1>4 DEF ReplayInv

LEMMA ReplayOfNothing == ReplayInv(<<>>)
<1>1. Where(<<>>, Transitions) = {}
  BY DEF Where
<1>2. Cardinality({}) = 0
  BY FS_EmptySet
<1>3. ReplayStart.revision = 1
  BY DEF ReplayStart
<1> QED
  BY <1>1, <1>2, <1>3, VerdictOfNothing, StartIsVerdict DEF ReplayInv, CountedBy

-----------------------------------------------------------------------------
(***************************************************************************)
(* Types.  OpInv says what a command in flight carries: before the write   *)
(* of the instance it is what the command computed from the instance and   *)
(* the log as they still are.                                              *)
(***************************************************************************)
Creation ==
  /\ instance = NoInstance
  /\ op = [instance |-> [revision |-> 1, created |-> NextId,
                         nodes |-> [n \in Node |-> NodeRow("pending", NextId)]],
           event |-> Event("instance created", "helper")]

Mutation(kind, n, expected) ==
  /\ instance # NoInstance
  /\ instance.revision < MaxRevision
  /\ AsExpected(expected)
  /\ Allowed(kind, n)
  /\ op = [instance |-> [instance EXCEPT
                           !.revision = @ + 1,
                           !.nodes[n] = NodeRow(StateAfter(kind), NextId)],
           event |-> TransitionEvent(kind, "helper", n, instance.revision,
                                     instance.nodes[n].state, StateAfter(kind),
                                     expected)]

OpInv ==
  /\ step = "before" =>
       /\ op.instance # NoInstance /\ op.event \in Moves \cup Births
       /\ \/ Creation
          \/ \E kind \in Transition, n \in Node, expected \in 0 .. MaxRevision :
               Mutation(kind, n, expected)
  /\ step = "append" /\ op.event.by = "helper" =>
       instance # NoInstance /\ op.event \in Moves \cup Births
  /\ step = "append" /\ op.event.by = "user" /\ op.event.type \in Transition =>
       op.event.expected = NoExpectation

LogInv ==
  /\ last <= Len(log) /\ Len(log) <= MaxEventId
  /\ step \in {"before", "append"} => Len(log) = last /\ last < MaxEventId
  /\ step = "status" => Len(log) = last + 1
  /\ ReplayInv(log)

TypeInv == TypeOK /\ LogInv /\ OpInv

LEMMA InstanceFields ==
  ASSUME NEW i \in InstanceType, i # NoInstance
  PROVE  /\ i \in [revision : Nat \ {0}, created : Nat \ {0},
                   nodes : [Node -> NodeRowType]]
         /\ i.revision \in 1 .. MaxRevision
         /\ i.nodes \in [Node -> [state : NodeState, event : 1 .. MaxEventId]]
BY WorkflowInstanceAssumption DEF InstanceType, NodeRowType

LEMMA AnInstance ==
  ASSUME NEW i \in [revision : 1 .. MaxRevision, created : 1 .. MaxEventId,
                    nodes : [Node -> [state : NodeState, event : 1 .. MaxEventId]]]
  PROVE  i \in InstanceType /\ i # NoInstance
<1>1. i \in InstanceType
  BY DEF InstanceType
<1>2. i \in [revision : Nat, created : Nat,
             nodes : [Node -> [state : NodeState, event : Nat]]]
  OBVIOUS
<1> QED
  BY <1>1, <1>2, WorkflowInstanceAssumption

LEMMA TransitionIsEvent ==
  ASSUME NEW kind \in Transition, NEW by \in {"helper", "user"}, NEW n \in Node,
         NEW previous \in 1 .. MaxRevision, NEW from \in NodeState,
         NEW expected \in 0 .. MaxRevision
  PROVE  /\ TransitionEvent(kind, by, n, previous, from, StateAfter(kind),
                            expected) \in Transitions
         /\ StateAfter(kind) \in NodeState
<1>1. StateAfter(kind) \in NodeState
  BY DEF StateAfter, NodeState, Transition
<1> HIDE DEF Transition
<1> QED
  BY <1>1 DEF TransitionEvent, Transitions, EventRecord

Moved(i, n, row) == [i EXCEPT !.revision = @ + 1, !.nodes[n] = row]

LEMMA MovedInstance ==
  ASSUME NEW i \in InstanceType, i # NoInstance, i.revision < MaxRevision,
         NEW n \in Node, NEW row \in [state : NodeState, event : 1 .. MaxEventId],
         NEW j, j = Moved(i, n, row)
  PROVE  /\ j \in InstanceType /\ j # NoInstance
         /\ j.revision = i.revision + 1 /\ j.created = i.created
         /\ j.nodes = [i.nodes EXCEPT ![n] = row]
<1> DEFINE R == [state : NodeState, event : 1 .. MaxEventId]
           T == [revision : 1 .. MaxRevision, created : 1 .. MaxEventId,
                 nodes : [Node -> R]]
           u == [i EXCEPT !.revision = @ + 1]
           nodes == [i.nodes EXCEPT ![n] = row]
<1>1. i \in T /\ MaxRevision \in Nat
  BY WorkflowInstanceAssumption DEF InstanceType
<1>2. u \in T /\ u.revision = i.revision + 1 /\ u.created = i.created
  BY <1>1
<1>3. nodes \in [Node -> R]
  BY <1>1
<1>4. j = [u EXCEPT !.nodes = nodes]
  BY <1>1 DEF Moved
<1>5. j \in T
  <2> HIDE DEF u, nodes, R
  <2> QED
    BY <1>2, <1>3, <1>4
<1>6. j.revision = u.revision /\ j.created = u.created /\ j.nodes = nodes
  <2> HIDE DEF u, nodes, R
  <2> QED
    BY <1>2, <1>4
<1> QED
  BY <1>2, <1>5, <1>6, AnInstance

LEMMA TypesHold == Spec => []TypeInv
<1>1. Init => TypeInv
  <2> SUFFICES ASSUME Init PROVE TypeInv
    OBVIOUS
  <2>1. Event("other", "helper") \in EventRecord
        /\ Event("other", "user") \in EventRecord
    BY DEF Event, EventRecord
  <2>2. TypeOK
    BY <2>1, WorkflowInstanceAssumption DEF Init, TypeOK, InstanceType, NoOp
  <2>3. log = Append(<<>>, Event("other", "helper")) /\ <<>> \in Seq(EventRecord)
    BY DEF Init
  <2>4. ReplayInv(log)
    BY <2>1, <2>3, ReplayOfNothing, ReplayExtends
  <2>5. LogInv /\ OpInv
    BY <2>4, WorkflowInstanceAssumption DEF Init, LogInv, OpInv
  <2> QED
    BY <2>2, <2>5 DEF TypeInv
<1>2. TypeInv /\ [Next]_vars => TypeInv'
  <2> SUFFICES ASSUME TypeInv, [Next]_vars PROVE TypeInv'
    OBVIOUS
  <2> USE DEF TypeInv
  <2>0. /\ last \in Nat \ {0} /\ Len(log) \in Nat /\ log \in Seq(EventRecord)
        /\ MaxEventId \in Nat
    BY WorkflowInstanceAssumption DEF TypeOK
  <2>1. ASSUME NEW first \in {"before", "append"}, NEW i, NEW e, Begin(first, i, e),
               i \in InstanceType, e \in EventRecord,
               OpInv'
        PROVE  TypeInv'
    <3>1. TypeOK'
      BY <2>1 DEF TypeOK, Begin
    <3>2. LogInv'
      BY <2>0, <2>1 DEF LogInv, Begin, Coherent
    <3> QED
      BY <2>1, <3>1, <3>2
  <2>2. ASSUME NEW first, NEW i, NEW e, Begin(first, i, e)
        PROVE  /\ NextId \in 1 .. MaxEventId
               /\ op' = [instance |-> i, event |-> e] /\ step' = first
               /\ UNCHANGED <<instance, log, last>>
    BY <2>0, <2>2 DEF Begin, Coherent, NextId
  <2>3. CASE CreateWorkflowInstance
    <3> DEFINE i == [revision |-> 1, created |-> NextId,
                     nodes |-> [n \in Node |-> NodeRow("pending", NextId)]]
               e == Event("instance created", "helper")
    <3>1. instance = NoInstance /\ Begin("before", i, e)
      BY <2>3 DEF CreateWorkflowInstance
    <3>2. /\ NextId \in 1 .. MaxEventId
          /\ op' = [instance |-> i, event |-> e] /\ step' = "before"
          /\ UNCHANGED <<instance, log, last>>
      BY <2>2, <3>1
    <3>3. i \in InstanceType /\ i # NoInstance
      <4>1. [n \in Node |-> NodeRow("pending", NextId)]
              \in [Node -> [state : NodeState, event : 1 .. MaxEventId]]
        BY <3>2 DEF NodeRow, NodeState
      <4>2. 1 \in 1 .. MaxRevision
        BY WorkflowInstanceAssumption
      <4> QED
        BY <3>2, <4>1, <4>2, AnInstance
    <3>4. e \in EventRecord /\ e \in Births
      BY DEF Event, EventRecord, Births
    <3>5. Creation'
      BY <3>1, <3>2 DEF Creation, NextId
    <3>6. OpInv'
      <4> HIDE DEF i, e
      <4> QED
        BY <3>2, <3>3, <3>4, <3>5 DEF OpInv
    <3> QED
      BY <2>1, <3>1, <3>3, <3>4, <3>6
  <2>4. ASSUME NEW kind \in Transition, NEW n \in Node,
               NEW expected \in 0 .. MaxRevision, MutateNode(kind, n, expected)
        PROVE  TypeInv'
    <3> DEFINE row == NodeRow(StateAfter(kind), NextId)
               i == [instance EXCEPT !.revision = @ + 1, !.nodes[n] = row]
               e == TransitionEvent(kind, "helper", n, instance.revision,
                                    instance.nodes[n].state, StateAfter(kind),
                                    expected)
    <3>1. /\ instance # NoInstance /\ instance.revision < MaxRevision
          /\ AsExpected(expected) /\ Allowed(kind, n) /\ Begin("before", i, e)
      BY <2>4 DEF MutateNode
    <3>2. /\ NextId \in 1 .. MaxEventId
          /\ op' = [instance |-> i, event |-> e] /\ step' = "before"
          /\ UNCHANGED <<instance, log, last>>
      BY <2>2, <3>1
    <3>3. /\ instance \in InstanceType /\ instance.revision \in 1 .. MaxRevision
          /\ instance.nodes \in [Node -> [state : NodeState, event : 1 .. MaxEventId]]
      BY <3>1, InstanceFields DEF TypeOK
    <3>4. e \in Transitions
      BY <3>3, TransitionIsEvent
    <3>5. e \in EventRecord /\ e \in Moves
      BY <3>4 DEF Moves, Transitions, TransitionEvent
    <3>6. row \in [state : NodeState, event : 1 .. MaxEventId]
      BY <3>2, <3>3, TransitionIsEvent DEF NodeRow
    <3>7. i \in InstanceType /\ i # NoInstance
      <4>1. i = Moved(instance, n, row)
        BY DEF Moved
      <4> HIDE DEF row, i
      <4> QED
        BY <3>1, <3>3, <3>6, <4>1, MovedInstance
    <3>8. Mutation(kind, n, expected)'
      BY <3>1, <3>2 DEF Mutation, AsExpected, Allowed, DependenciesSucceeded,
         NextId
    <3>9. OpInv'
      <4> HIDE DEF i, e
      <4> QED
        BY <3>2, <3>5, <3>7, <3>8 DEF OpInv
    <3> QED
      BY <2>1, <3>1, <3>5, <3>7, <3>9
  <2>5. CASE AppendEvent
    <3>1. CASE Begin("append", instance, Event("other", "user"))
      <4>1. Event("other", "user") \in EventRecord
        BY DEF Event, EventRecord
      <4>2. OpInv'
        BY <2>2, <3>1 DEF OpInv, Event, Transition
      <4> QED
        BY <2>1, <3>1, <4>1, <4>2 DEF TypeOK
    <3>2. ASSUME NEW kind \in Transition, NEW n \in Node,
                 Replay.revision < MaxRevision,
                 NEW e, e = TransitionEvent(kind, "user", n, Replay.revision,
                                Replay.nodes[n].state, StateAfter(kind),
                                NoExpectation),
                 Begin("append", instance, e)
          PROVE  TypeInv'
      <4>1. Replay \in Verdict
        BY ReplayIsVerdict DEF LogInv, ReplayInv, CountedBy
      <4>2. /\ Replay.revision \in 1 .. MaxRevision
            /\ Replay.nodes[n].state \in NodeState
        BY <3>2, <4>1, WorkflowInstanceAssumption DEF Verdict, NodeRowType
      <4>3. NoExpectation \in 0 .. MaxRevision
        BY WorkflowInstanceAssumption DEF NoExpectation
      <4>4. e \in Transitions
        BY <3>2, <4>2, <4>3, TransitionIsEvent
      <4>5. e \in EventRecord /\ e.by = "user" /\ e.expected = NoExpectation
        BY <3>2, <4>4 DEF Transitions, TransitionEvent
      <4>6. OpInv'
        BY <2>2, <3>2, <4>5 DEF OpInv
      <4> QED
        BY <2>1, <3>2, <4>5, <4>6 DEF TypeOK
    <3> QED
      BY <2>5, <3>1, <3>2 DEF AppendEvent
  <2>6. CASE WriteInstance
    <3>1. TypeOK'
      BY <2>6 DEF WriteInstance, TypeOK
    <3>2. LogInv'
      BY <2>6 DEF WriteInstance, LogInv
    <3>3. op.event.by = "helper"
      BY <2>6 DEF WriteInstance, OpInv, Moves, Births
    <3>4. OpInv'
      BY <2>6, <3>3 DEF WriteInstance, OpInv
    <3> QED
      BY <3>1, <3>2, <3>4
  <2>7. CASE AppendLine
    <3>1. /\ op.event \in EventRecord /\ step' = "status"
          /\ log' = Append(log, op.event) /\ UNCHANGED <<instance, last, op>>
          /\ Len(log) = last /\ last < MaxEventId /\ ReplayInv(log)
      BY <2>7 DEF AppendLine, TypeOK, LogInv
    <3>2. log' \in Seq(EventRecord) /\ Len(log') = Len(log) + 1
      BY <2>0, <3>1
    <3>3. ReplayInv(log')
      BY <2>0, <3>1, ReplayExtends
    <3>4. TypeOK'
      BY <3>1, <3>2 DEF TypeOK
    <3>5. LogInv' /\ OpInv'
      BY <2>0, <3>1, <3>2, <3>3 DEF LogInv, OpInv
    <3> QED
      BY <3>4, <3>5
  <2>8. CASE ReplaceStatus
    <3>1. last' \in 1 .. MaxEventId
      BY <2>0, <2>8 DEF ReplaceStatus, LogInv, TypeOK
    <3>2. NoOp \in [instance : InstanceType, event : EventRecord]
      BY DEF NoOp, InstanceType, Event, EventRecord
    <3>3. TypeOK'
      BY <2>8, <3>1, <3>2 DEF ReplaceStatus, TypeOK
    <3>4. LogInv' /\ OpInv'
      BY <2>0, <2>8 DEF ReplaceStatus, LogInv, OpInv
    <3> QED
      BY <3>3, <3>4
  <2>9. CASE Stop
    <3>1. NoOp \in [instance : InstanceType, event : EventRecord]
      BY DEF NoOp, InstanceType, Event, EventRecord
    <3>2. TypeOK'
      BY <2>9, <3>1 DEF Stop, TypeOK
    <3>3. LogInv' /\ OpInv'
      BY <2>9 DEF Stop, LogInv, OpInv
    <3> QED
      BY <3>2, <3>3
  <2>10. CASE UNCHANGED vars
    <3>1. TypeOK' /\ LogInv'
      BY <2>10 DEF vars, TypeOK, LogInv
    <3>2. OpInv'
      BY <2>10 DEF vars, OpInv, Creation, Mutation, AsExpected, Allowed,
         DependenciesSucceeded, NextId
    <3> QED
      BY <3>1, <3>2
  <2> QED
    BY <2>3, <2>4, <2>5, <2>6, <2>7, <2>8, <2>9, <2>10 DEF Next
<1> QED
  BY <1>1, <1>2, PTL DEF Spec

\* Every variable stays within its type.
THEOREM TypeCorrect == Spec => []TypeOK
BY TypesHold, PTL DEF TypeInv

-----------------------------------------------------------------------------
(***************************************************************************)
(* The instance and its history.  The history is the log together with the *)
(* event a command that has written the instance is about to append.       *)
(***************************************************************************)
History ==
  IF step = "append" /\ op.event.by = "helper"
  THEN Append(log, op.event) ELSE log

\* What correlateWorkflowTransitionInstance asks of a replay.
Agrees(v, i) ==
  /\ v.ok /\ v.revision = i.revision
  /\ \A n \in Node :
       /\ i.nodes[n].state = v.nodes[n].state
       /\ \/ i.nodes[n].event = v.nodes[n].event
          \/ /\ v.nodes[n].event = NoEvent
             /\ i.nodes[n].state = "pending"
             /\ i.nodes[n].event = i.created

Steps(lines) == Cardinality(Where(lines, Moves))

\* A revision has at most one event.
CountInv(i, lines) ==
  IF i = NoInstance THEN Where(lines, Moves) = {} /\ Where(lines, Births) = {}
  ELSE /\ Steps(lines) + 1 <= i.revision
       /\ \A b \in Where(lines, Births) : b = i.created

\* If no event was lost, the instance names the events and is their outcome.
OutcomeInv(i, lines) ==
  i # NoInstance /\ Steps(lines) + 1 = i.revision =>
    /\ \A n \in Node :
         \/ i.nodes[n].event = i.created
         \/ /\ i.nodes[n].event \in Where(lines, Moves)
            /\ lines[i.nodes[n].event].node = n
    /\ Where(lines, Hands) = {} =>
         \A v : IsVerdict(v, lines) => Agrees(v, i)

\* An expectation in the history is of the past, and of one command.
ExpectInv(i, lines) ==
  \A j \in Where(lines, Transitions) :
    lines[j].expected # NoExpectation =>
      /\ i # NoInstance /\ lines[j].expected < i.revision
      /\ \A k \in Where(lines, Transitions) :
           lines[k].expected = lines[j].expected => j = k

\* A node runs only after its dependencies.
DagInv(i) ==
  i # NoInstance =>
    \A n \in Node : i.nodes[n].state = "running" =>
      \A d \in DependsOn[n] : i.nodes[d].state = "succeeded"

HistoryInv(i, lines) ==
  CountInv(i, lines) /\ OutcomeInv(i, lines) /\ ExpectInv(i, lines) /\ DagInv(i)

LEMMA KindsOfEvents ==
  ASSUME NEW e \in EventRecord
  PROVE  /\ e \in Transitions <=> e \in Moves \/ e \in Hands
         /\ e.type \in Transition <=> e \in Transitions
         /\ ~(e \in Moves /\ e \in Hands)
         /\ ~(e \in Births /\ e \in Transitions)
         /\ e.by \in {"helper", "user"}
         /\ e.by = "helper" /\ e \in Transitions => e \in Moves
<1>1. e.by \in {"helper", "user"}
  BY DEF EventRecord
<1>2. e.type \in Transition <=> e \in Transitions
  BY DEF Transitions
<1>3. e.type = "instance created" => e.type \notin Transition
  BY DEF Transition
<1> QED
  BY <1>1, <1>2, <1>3 DEF Moves, Hands, Births, Transitions

\* A command stops between the instance and its event: the event is lost.
LEMMA LosingAnEvent ==
  ASSUME NEW lines \in Seq(EventRecord), NEW e \in Moves \cup Births,
         NEW i \in InstanceType, i # NoInstance,
         HistoryInv(i, Append(lines, e))
  PROVE  HistoryInv(i, lines)
<1> DEFINE more == Append(lines, e)
           n == Len(lines)
<1>0. e \in EventRecord /\ i.revision \in Nat
  BY InstanceFields DEF Moves, Births, Transitions
<1>1. /\ n \in Nat /\ Len(more) = n + 1
      /\ \A j \in 1 .. n : j \in 1 .. n + 1 /\ more[j] = lines[j]
  OBVIOUS
<1>2. \A S : \A j \in Where(lines, S) : j \in Where(more, S) /\ more[j] = lines[j]
  BY <1>1 DEF Where
<1>3. /\ Steps(lines) \in Nat /\ Steps(more) \in Nat
      /\ e \in Moves => Steps(more) = Steps(lines) + 1
      /\ e \notin Moves => Where(more, Moves) = Where(lines, Moves)
                           /\ Steps(more) = Steps(lines)
      /\ e \notin Hands => Where(more, Hands) = Where(lines, Hands)
  BY <1>0, CountAppend DEF Steps
<1> HIDE DEF more, n
<1>4. HistoryInv(i, more)
  BY DEF more
<1>5. CountInv(i, lines)
  BY <1>0, <1>2, <1>3, <1>4 DEF HistoryInv, CountInv
<1>6. ExpectInv(i, lines)
  BY <1>2, <1>4 DEF HistoryInv, ExpectInv
<1>7. OutcomeInv(i, lines)
  <2>1. CASE e \in Moves
    BY <1>0, <1>3, <1>4, <2>1 DEF HistoryInv, CountInv, OutcomeInv
  <2>2. CASE e \in Births
    <3>1. e \notin Moves /\ e \notin Hands /\ e.type \notin Transition
      BY <1>0, <2>2, KindsOfEvents
    <3> SUFFICES ASSUME Steps(lines) + 1 = i.revision PROVE OutcomeInv(i, lines)
      BY DEF OutcomeInv
    <3>2. \A m \in Node :
            \/ i.nodes[m].event = i.created
            \/ /\ i.nodes[m].event \in Where(lines, Moves)
               /\ lines[i.nodes[m].event].node = m
      BY <1>2, <1>3, <1>4, <3>1 DEF HistoryInv, OutcomeInv
    <3>3. ASSUME NEW v, IsVerdict(v, lines), Where(lines, Hands) = {}
          PROVE  Agrees(v, i)
      <4>1. LineOf(v, e, Len(lines) + 1) = v
        BY <3>1 DEF LineOf
      <4>2. IsVerdict(v, more)
        BY <1>0, <3>3, <4>1, VerdictOfAppend DEF more
      <4> QED
        BY <1>3, <1>4, <3>1, <3>3, <4>2 DEF HistoryInv, OutcomeInv
    <3> QED
      BY <3>2, <3>3 DEF OutcomeInv
  <2> QED
    BY <2>1, <2>2
<1> QED
  BY <1>4, <1>5, <1>6, <1>7 DEF HistoryInv

\* Somebody writes a line by hand.
LEMMA WritingByHand ==
  ASSUME NEW lines \in Seq(EventRecord), NEW e \in EventRecord,
         e.by = "user", e.type \in Transition => e.expected = NoExpectation,
         NEW i \in InstanceType,
         HistoryInv(i, lines)
  PROVE  HistoryInv(i, Append(lines, e))
<1> DEFINE more == Append(lines, e)
           n == Len(lines)
<1>1. e \notin Moves /\ e \notin Births
  BY DEF Moves, Births
<1>2. /\ n \in Nat /\ Len(more) = n + 1 /\ more[n + 1] = e
      /\ 1 .. n + 1 = 1 .. n \cup {n + 1}
      /\ \A j \in 1 .. n : more[j] = lines[j]
  OBVIOUS
<1>3. /\ Where(more, Moves) = Where(lines, Moves)
      /\ Where(more, Births) = Where(lines, Births)
      /\ Steps(more) = Steps(lines)
      /\ e \in Hands => n + 1 \in Where(more, Hands)
      /\ e \notin Hands => Where(more, Hands) = Where(lines, Hands)
  BY <1>1, CountAppend DEF Steps
<1>4. \A S : \A j \in Where(more, S) :
        \/ j \in Where(lines, S) /\ more[j] = lines[j]
        \/ j = n + 1 /\ e \in S /\ more[j] = e
  BY <1>2 DEF Where
<1>5. \A j \in Where(lines, Moves) : more[j] = lines[j]
  BY <1>2 DEF Where
<1> HIDE DEF more, n
<1>6. CountInv(i, more)
  BY <1>3 DEF HistoryInv, CountInv
<1>7. ExpectInv(i, more)
  <2>1. e \in Transitions => e.expected = NoExpectation
    BY KindsOfEvents
  <2> QED
    BY <1>4, <2>1 DEF HistoryInv, ExpectInv
<1>8. OutcomeInv(i, more)
  <2> SUFFICES ASSUME i # NoInstance, Steps(more) + 1 = i.revision
               PROVE  OutcomeInv(i, more)
    BY DEF OutcomeInv
  <2>1. ASSUME NEW v, IsVerdict(v, more), Where(more, Hands) = {}
        PROVE  Agrees(v, i)
    <3>1. e \notin Hands /\ Where(lines, Hands) = {}
      BY <1>3, <2>1
    <3>2. e.type \notin Transition
      BY <1>1, <3>1, KindsOfEvents
    <3>3. IsVerdict(v, lines)
      <4>1. PICK u : IsVerdict(u, lines) /\ v = LineOf(u, e, Len(lines) + 1)
        BY <2>1, VerdictOfAppend DEF more
      <4> QED
        BY <3>2, <4>1 DEF LineOf
    <3> QED
      BY <1>3, <3>1, <3>3 DEF HistoryInv, OutcomeInv
  <2> QED
    BY <1>3, <1>5, <2>1 DEF HistoryInv, OutcomeInv
<1> QED
  BY <1>6, <1>7, <1>8 DEF HistoryInv, more

\* workflow create
LEMMA CreatingTheInstance ==
  ASSUME TypeInv, HistoryInv(instance, log), step = "before", Creation
  PROVE  HistoryInv(op.instance, Append(log, op.event))
<1> DEFINE e == op.event
           i == op.instance
           n == Len(log)
           more == Append(log, e)
<1>1. /\ e.by = "helper" /\ e.type = "instance created" /\ e \in EventRecord
      /\ e \in Births /\ e \notin Moves /\ e \notin Transitions /\ e \notin Hands
  <2>1. e = Event("instance created", "helper")
    BY DEF Creation
  <2>2. /\ e.by = "helper" /\ e.type = "instance created" /\ e \in EventRecord
    <3> HIDE DEF e
    <3>1. e \in [type : {"other", "instance created"}, by : {"helper", "user"}]
      BY <2>1 DEF Event
    <3> QED
      BY <2>1, <3>1 DEF Event, EventRecord
  <2> HIDE DEF e
  <2>3. e \in Births
    BY <2>2 DEF Births
  <2> QED
    BY <2>2, <2>3, KindsOfEvents
<1>2. /\ i.revision = 1 /\ i.created = n + 1 /\ i # NoInstance
      /\ \A m \in Node : i.nodes[m].state = "pending" /\ i.nodes[m].event = n + 1
  BY DEF Creation, NextId, NodeRow, TypeInv, OpInv
<1>3. instance = NoInstance /\ log \in Seq(EventRecord)
  BY DEF Creation, TypeInv, TypeOK
<1>4. /\ Where(log, Moves) = {} /\ Where(log, Births) = {}
  BY <1>3 DEF HistoryInv, CountInv
<1>5. /\ Where(more, Moves) = {} /\ Where(more, Births) = {n + 1}
      /\ Where(more, Transitions) = Where(log, Transitions)
      /\ Where(more, Hands) = Where(log, Hands)
      /\ \A j \in Where(log, Transitions) : more[j] = log[j]
  <2>1. \A j \in 1 .. n : more[j] = log[j]
    BY <1>3
  <2>2. \A S : /\ e \in S => Where(more, S) = Where(log, S) \cup {n + 1}
               /\ e \notin S => Where(more, S) = Where(log, S)
    <3> HIDE DEF e
    <3> QED
      BY <1>1, <1>3, CountAppend
  <2>3. \A j \in Where(log, Transitions) : more[j] = log[j]
    BY <2>1 DEF Where
  <2> HIDE DEF more, e, n
  <2> QED
    BY <1>1, <1>4, <2>2, <2>3
<1>6. Steps(more) = 0
  BY <1>5, FS_EmptySet DEF Steps
<1> HIDE DEF i, more, n, e
<1>7. CountInv(i, more)
  BY <1>2, <1>5, <1>6 DEF CountInv
<1>8. ExpectInv(i, more)
  BY <1>3, <1>5 DEF HistoryInv, ExpectInv
<1>9. DagInv(i)
  BY <1>2 DEF DagInv
<1>10. ASSUME NEW w, IsVerdict(w, more), Where(more, Hands) = {}
       PROVE  Agrees(w, i)
  <2>1. PICK v : IsVerdict(v, log) /\ w = LineOf(v, e, n + 1)
    BY <1>1, <1>3, <1>10, VerdictOfAppend DEF more, n
  <2>2. w = v
    BY <1>1, <2>1, KindsOfEvents DEF LineOf
  <2>3. Where(log, Transitions) = {}
    BY <1>4, <1>5, <1>10 DEF Where, Transitions, Moves, Hands, EventRecord
  <2>4. Cardinality(Where(log, Transitions)) = 0
    BY <2>3, FS_EmptySet
  <2>5. v = ReplayStart
    BY <2>1, <2>4 DEF TypeInv, LogInv, ReplayInv, CountedBy
  <2> QED
    BY <1>2, <2>2, <2>5 DEF Agrees, ReplayStart, NodeRow
<1>11. OutcomeInv(i, more)
  BY <1>2, <1>10 DEF OutcomeInv
<1> QED
  BY <1>7, <1>8, <1>9, <1>11 DEF HistoryInv, i, more, e

\* workflow node start, complete and block
LEMMA MovingANode ==
  ASSUME TypeInv, HistoryInv(instance, log), step = "before",
         NEW kind \in Transition, NEW n \in Node,
         NEW expected \in 0 .. MaxRevision, Mutation(kind, n, expected)
  PROVE  HistoryInv(op.instance, Append(log, op.event))
<1> DEFINE e == op.event
           i == instance
           j == op.instance
           id == Len(log) + 1
           row == NodeRow(StateAfter(kind), id)
           more == Append(log, e)
<1>1. /\ e.type = kind /\ e.by = "helper" /\ e.node = n
      /\ e.previous = i.revision /\ e.from = i.nodes[n].state
      /\ e.to = StateAfter(kind) /\ e.expected = expected
      /\ Allowed(kind, n) /\ i # NoInstance /\ i.revision < MaxRevision
      /\ expected # NoExpectation => expected = i.revision
  BY DEF Mutation, TransitionEvent, AsExpected
<1>2. /\ i \in InstanceType /\ j \in InstanceType /\ e \in EventRecord
      /\ log \in Seq(EventRecord)
  BY DEF TypeInv, TypeOK
<1>3. /\ i.revision \in Nat /\ i.created \in Nat
      /\ i.nodes \in [Node -> NodeRowType]
  BY <1>1, <1>2, InstanceFields
<1>4. e \in Moves /\ e \in Transitions /\ e \notin Births /\ e \notin Hands
  <2> HIDE DEF e
  <2> QED
    BY <1>1, <1>2, KindsOfEvents
<1>5. /\ j.revision = i.revision + 1 /\ j.created = i.created
      /\ j # NoInstance
      /\ j.nodes = [i.nodes EXCEPT ![n] = row]
  <2>1. op.instance = [instance EXCEPT !.revision = @ + 1,
                          !.nodes[n] = NodeRow(StateAfter(kind), NextId)]
    BY DEF Mutation
  <2>2. j = Moved(i, n, row)
    BY <2>1 DEF Moved, NextId
  <2>3. row \in [state : NodeState, event : 1 .. MaxEventId]
    <3>1. StateAfter(kind) \in NodeState
      BY DEF StateAfter, NodeState, Transition
    <3>2. id \in 1 .. MaxEventId
      BY WorkflowInstanceAssumption DEF TypeInv, TypeOK, LogInv
    <3> QED
      BY <3>1, <3>2 DEF NodeRow
  <2> HIDE DEF row, j
  <2> QED
    BY <1>1, <1>2, <2>2, <2>3, MovedInstance
<1>6. /\ Steps(more) = Steps(log) + 1 /\ Steps(log) \in Nat
      /\ Where(more, Moves) = Where(log, Moves) \cup {id}
      /\ Where(more, Transitions) = Where(log, Transitions) \cup {id}
      /\ Where(more, Births) = Where(log, Births)
      /\ Where(more, Hands) = Where(log, Hands)
  <2> HIDE DEF e
  <2> QED
    BY <1>2, <1>4, CountAppend DEF Steps
<1>7. /\ more[id] = e
      /\ \A S : id \notin Where(log, S)
      /\ \A S : \A k \in Where(log, S) : more[k] = log[k]
  <2>1. id \in Nat /\ id \notin 1 .. Len(log) /\ more[id] = e
        /\ \A k \in 1 .. Len(log) : more[k] = log[k]
    BY <1>2
  <2> HIDE DEF more, id
  <2> QED
    BY <2>1 DEF Where
<1>8. /\ row.state = StateAfter(kind) /\ row.event = id
      /\ j.nodes[n] = row
      /\ \A m \in Node : m # n => j.nodes[m] = i.nodes[m]
  BY <1>3, <1>5 DEF NodeRow
<1> HIDE DEF e, j, more, id, row
<1>9. CountInv(j, more)
  BY <1>1, <1>3, <1>5, <1>6 DEF HistoryInv, CountInv
<1>10. ExpectInv(j, more)
  <2>1. \A k \in Where(log, Transitions) : log[k].expected # NoExpectation =>
          log[k].expected < i.revision /\ log[k].expected \in Nat
    <3>1. \A k \in Where(log, Transitions) : log[k].expected \in Nat
      BY TransitionFields DEF Where, Transitions
    <3> QED
      BY <3>1 DEF HistoryInv, ExpectInv
  <2>2. \A k \in Where(more, Transitions) :
          \/ k = id /\ more[k] = e
          \/ k \in Where(log, Transitions) /\ more[k] = log[k] /\ k # id
    BY <1>6, <1>7
  <2> SUFFICES ASSUME NEW k \in Where(more, Transitions),
                      more[k].expected # NoExpectation
               PROVE  /\ more[k].expected < j.revision
                      /\ \A m \in Where(more, Transitions) :
                           more[m].expected = more[k].expected => k = m
    BY <1>5 DEF ExpectInv
  <2>3. CASE k = id /\ more[k] = e
    BY <1>1, <1>3, <1>5, <2>1, <2>2, <2>3
  <2>4. CASE k \in Where(log, Transitions) /\ more[k] = log[k] /\ k # id
    <3>1. more[k].expected < j.revision /\ more[k].expected # i.revision
      BY <1>3, <1>5, <2>1, <2>4
    <3>2. \A m \in Where(more, Transitions) :
            more[m].expected = more[k].expected => k = m
      BY <1>1, <2>2, <2>4, <3>1 DEF HistoryInv, ExpectInv
    <3> QED
      BY <3>1, <3>2
  <2> QED
    BY <2>2, <2>3, <2>4
<1>11. /\ kind = "start" => /\ i.nodes[n].state = "pending" /\ row.state = "running"
                            /\ \A d \in DependsOn[n] :
                                 i.nodes[d].state = "succeeded"
       /\ kind = "complete" => i.nodes[n].state = "running" /\ row.state = "succeeded"
       /\ kind = "block" => i.nodes[n].state # "succeeded" /\ row.state = "blocked"
       /\ kind \in {"start", "complete", "block"}
  BY <1>1, <1>8 DEF Allowed, DependenciesSucceeded, StateAfter, Transition
<1>12. \A m \in Node : DependsOn[m] \subseteq Node
  BY WorkflowInstanceAssumption
<1>13. DagInv(j)
  <2>1. \A d \in Node : i.nodes[d].state = "succeeded" =>
                         j.nodes[d].state = "succeeded"
    BY <1>8, <1>11
  <2>2. \A m \in Node : j.nodes[m].state = "running" =>
          \A d \in DependsOn[m] : i.nodes[d].state = "succeeded"
    BY <1>1, <1>8, <1>11 DEF HistoryInv, DagInv
  <2> QED
    BY <1>12, <2>1, <2>2 DEF DagInv
<1>14. ASSUME Steps(log) + 1 = i.revision, Where(log, Hands) = {},
              NEW w, IsVerdict(w, more)
       PROVE  Agrees(w, j)
  <2>1. PICK v : IsVerdict(v, log) /\ w = LineOf(v, e, id)
    BY <1>2, <1>14, VerdictOfAppend DEF more, id
  <2>2. Agrees(v, i) /\ v \in Verdict
    BY <1>1, <1>14, <2>1
       DEF HistoryInv, OutcomeInv, TypeInv, LogInv, ReplayInv, CountedBy
  <2>3. e.previous = v.revision /\ e.from = v.nodes[n].state
    BY <1>1, <2>2 DEF Agrees
  <2>4. kind = "complete" => \A d \in DependsOn[n] : i.nodes[d].state = "succeeded"
    BY <1>1, <1>11 DEF HistoryInv, DagInv
  <2>5. Applies(e, v.nodes)
    <3>1. \A d \in DependsOn[n] : i.nodes[d].state = v.nodes[d].state
      BY <1>12, <2>2 DEF Agrees
    <3> QED
      BY <1>1, <1>11, <2>3, <2>4, <3>1 DEF Applies
  <2>6. w = Moved(v, n, row)
    BY <1>1, <2>1, <2>3, <2>5 DEF LineOf, Moved, row
  <2>7. /\ w.ok = v.ok /\ w.revision = v.revision + 1
        /\ w.nodes = [v.nodes EXCEPT ![n] = row]
    BY <2>2, <2>6 DEF Moved, Verdict
  <2>8. /\ w.nodes[n] = row
        /\ \A m \in Node : m # n => w.nodes[m] = v.nodes[m]
    BY <2>2, <2>7 DEF Verdict
  <2> QED
    BY <1>5, <1>8, <2>2, <2>7, <2>8 DEF Agrees
<1>15. OutcomeInv(j, more)
  <2> SUFFICES ASSUME Steps(more) + 1 = j.revision PROVE OutcomeInv(j, more)
    BY DEF OutcomeInv
  <2>1. Steps(log) + 1 = i.revision
    BY <1>3, <1>5, <1>6
  <2>2. \A m \in Node :
          \/ j.nodes[m].event = j.created
          \/ /\ j.nodes[m].event \in Where(more, Moves)
             /\ more[j.nodes[m].event].node = m
    <3> TAKE m \in Node
    <3>1. CASE m = n
      BY <1>1, <1>6, <1>7, <1>8, <3>1
    <3>2. CASE m # n
      BY <1>1, <1>5, <1>6, <1>7, <1>8, <2>1, <3>2 DEF HistoryInv, OutcomeInv
    <3> QED
      BY <3>1, <3>2
  <2> QED
    BY <1>6, <1>14, <2>1, <2>2 DEF OutcomeInv
<1> QED
  BY <1>9, <1>10, <1>13, <1>15 DEF HistoryInv, j, more, e

LEMMA HistoryHolds == Spec => []HistoryInv(instance, History)
<1>1. Init => HistoryInv(instance, History)
  <2> SUFFICES ASSUME Init PROVE HistoryInv(instance, History)
    OBVIOUS
  <2>1. History = log /\ instance = NoInstance
    BY DEF Init, History
  <2>2. Where(log, Moves) = {} /\ Where(log, Births) = {}
        /\ Where(log, Transitions) = {}
    <3>1. Len(log) = 1 /\ log[1].type = "other"
      BY DEF Init, Event
    <3>2. "other" \notin Transition
      BY DEF Transition
    <3>3. log[1] \notin Transitions /\ log[1] \notin Births
      BY <3>1, <3>2 DEF Transitions, Births
    <3> QED
      BY <3>1, <3>3 DEF Where, Moves
  <2> QED
    BY <2>1, <2>2 DEF HistoryInv, CountInv, OutcomeInv, ExpectInv, DagInv
<1>2. TypeInv /\ HistoryInv(instance, History) /\ [Next]_vars
        => HistoryInv(instance, History)'
  <2> SUFFICES ASSUME TypeInv, HistoryInv(instance, History), [Next]_vars
               PROVE  HistoryInv(instance', History')
    OBVIOUS
  <2>0. /\ log \in Seq(EventRecord) /\ instance \in InstanceType
        /\ op.event \in EventRecord
    BY DEF TypeInv, TypeOK
  <2>1. ASSUME NEW first, NEW i, NEW e, Begin(first, i, e),
               first = "before" \/ e.by = "user"
        PROVE  HistoryInv(instance', History')
    <3>1. History' = History /\ instance' = instance
      BY <2>1 DEF Begin, History
    <3> QED
      BY <3>1
  <2>2. CASE CreateWorkflowInstance
    BY <2>1, <2>2 DEF CreateWorkflowInstance
  <2>3. ASSUME NEW kind \in Transition, NEW n \in Node,
               NEW expected \in 0 .. MaxRevision, MutateNode(kind, n, expected)
        PROVE  HistoryInv(instance', History')
    <3>1. \E i, e : Begin("before", i, e)
      BY <2>3 DEF MutateNode
    <3> QED
      BY <2>1, <3>1
  <2>4. CASE AppendEvent
    <3>1. \E i, e : Begin("append", i, e) /\ e.by = "user"
      <4>1. CASE Begin("append", instance, Event("other", "user"))
        BY <4>1 DEF Event
      <4>2. ASSUME NEW kind \in Transition, NEW n \in Node,
                   NEW e, e = TransitionEvent(kind, "user", n, Replay.revision,
                                Replay.nodes[n].state, StateAfter(kind),
                                NoExpectation),
                   Begin("append", instance, e)
            PROVE  \E i, f : Begin("append", i, f) /\ f.by = "user"
        <5>1. e.by = "user"
          BY <4>2 DEF TransitionEvent
        <5> QED
          BY <4>2, <5>1
      <4> QED
        BY <2>4, <4>1, <4>2 DEF AppendEvent
    <3> QED
      BY <2>1, <3>1
  <2>5. CASE WriteInstance
    <3>1. /\ step = "before" /\ op.event \in Moves \cup Births
          /\ \/ Creation
             \/ \E kind \in Transition, n \in Node, expected \in 0 .. MaxRevision :
                  Mutation(kind, n, expected)
      BY <2>5 DEF WriteInstance, TypeInv, OpInv
    <3>2. /\ History = log /\ History' = Append(log, op.event)
          /\ instance' = op.instance
      BY <2>5, <3>1 DEF WriteInstance, History, Moves, Births
    <3> QED
      BY <3>1, <3>2, CreatingTheInstance, MovingANode
  <2>6. CASE AppendLine
    <3>1. /\ step = "append" /\ History' = Append(log, op.event)
          /\ instance' = instance
      BY <2>6 DEF AppendLine, History
    <3>2. CASE op.event.by = "helper"
      BY <3>1, <3>2 DEF History
    <3>3. CASE op.event.by = "user"
      <4>1. History = log
        BY <3>3 DEF History
      <4>2. op.event.type \in Transition => op.event.expected = NoExpectation
        BY <3>1, <3>3 DEF TypeInv, OpInv
      <4> QED
        BY <2>0, <3>1, <3>3, <4>1, <4>2, WritingByHand
    <3> QED
      BY <2>0, <3>2, <3>3, KindsOfEvents
  <2>7. CASE ReplaceStatus
    BY <2>7 DEF ReplaceStatus, History
  <2>8. CASE Stop
    <3>1. History' = log /\ instance' = instance
      BY <2>8 DEF Stop, History
    <3>2. CASE step = "append" /\ op.event.by = "helper"
      <4>1. /\ op.event \in Moves \cup Births /\ instance # NoInstance
            /\ History = Append(log, op.event)
        BY <3>2 DEF TypeInv, OpInv, History
      <4> QED
        BY <2>0, <3>1, <4>1, LosingAnEvent
    <3>3. CASE ~(step = "append" /\ op.event.by = "helper")
      BY <3>1, <3>3 DEF History
    <3> QED
      BY <3>2, <3>3
  <2>9. CASE UNCHANGED vars
    BY <2>9 DEF vars, History
  <2> QED
    BY <2>2, <2>3, <2>4, <2>5, <2>6, <2>7, <2>8, <2>9 DEF Next
<1> QED
  BY <1>1, <1>2, TypesHold, PTL DEF Spec

-----------------------------------------------------------------------------
(***************************************************************************)
(* The properties.                                                         *)
(***************************************************************************)

LEMMA SetsOfEvents ==
  ASSUME TypeInv
  PROVE  /\ ByHand = Where(log, Hands)
         /\ Recorded = Where(log, Moves) \cup Where(log, Births)
         /\ {i \in Recorded : log[i].type \in Transition} = Where(log, Moves)
         /\ Where(log, Transitions) = Where(log, Moves) \cup Where(log, Hands)
         /\ Where(log, Moves) \cap Where(log, Hands) = {}
         /\ Where(log, Moves) \cap Where(log, Births) = {}
<1>1. \A i \in 1 .. Len(log) : log[i] \in EventRecord
  BY DEF TypeInv, TypeOK
<1>2. \A i \in 1 .. Len(log) :
        /\ log[i] \in Hands <=> log[i].type \in Transition /\ log[i].by = "user"
        /\ log[i] \in Moves <=> log[i].type \in Transition /\ log[i].by = "helper"
        /\ log[i] \in Births <=>
             log[i].type = "instance created" /\ log[i].by = "helper"
        /\ log[i] \in Transitions <=> log[i].type \in Transition
        /\ log[i].by \in {"helper", "user"}
        /\ log[i].type = "instance created" => log[i].type \notin Transition
  BY <1>1, KindsOfEvents DEF Hands, Moves, Births, Transitions, Transition
<1> QED
  BY <1>2 DEF ByHand, Recorded, Where

LEMMA StepsAreFinite ==
  ASSUME TypeInv, NEW S
  PROVE  IsFiniteSet(Where(log, S)) /\ Cardinality(Where(log, S)) \in Nat
<1>1. Event("other", "user") \in EventRecord /\ log \in Seq(EventRecord)
  BY DEF Event, EventRecord, TypeInv, TypeOK
<1> QED
  BY <1>1, CountAppend

\* When every revision has its event, the first of them is the creation.
LEMMA NothingIsLost ==
  ASSUME TypeInv, CountInv(instance, log), instance # NoInstance,
         EveryRevisionRecorded
  PROVE  /\ Steps(log) + 1 = instance.revision
         /\ Where(log, Births) = {instance.created}
<1> DEFINE M == Where(log, Moves)
           B == Where(log, Births)
<1>1. /\ instance.revision \in Nat /\ Steps(log) \in Nat
      /\ Steps(log) + 1 <= instance.revision
      /\ B \subseteq {instance.created}
  BY InstanceFields, StepsAreFinite DEF CountInv, TypeInv, TypeOK, Steps
<1>2. Cardinality(M \cup B) = instance.revision /\ M \cap B = {}
  BY SetsOfEvents DEF EveryRevisionRecorded
<1>3. B # {}
  <2> SUFFICES ASSUME B = {} PROVE FALSE
    OBVIOUS
  <2>1. M \cup B = M
    OBVIOUS
  <2>2. Cardinality(M) = instance.revision
    BY <1>2, <2>1
  <2> QED
    BY <1>1, <2>2 DEF Steps
<1>4. B = {instance.created} /\ instance.created \notin M
  BY <1>1, <1>2, <1>3
<1>5. Cardinality(M \cup {instance.created}) = Steps(log) + 1
  BY <1>4, StepsAreFinite, FS_AddElement DEF Steps
<1> QED
  BY <1>2, <1>4, <1>5

LEMMA VerifierIsAgreement ==
  ASSUME TypeInv
  PROVE  /\ IsVerdict(Replay, log) /\ CountedBy(Replay, log)
         /\ TransitionOrderValid <=> Agrees(Replay, instance)
<1>1. IsVerdict(Replay, log) /\ CountedBy(Replay, log)
  BY ReplayIsVerdict DEF TypeInv, LogInv, ReplayInv
<1> QED
  BY <1>1 DEF TransitionOrderValid, Correlates, Agrees

\* Of the commands that state the same expected revision at most one takes
\* effect.
THEOREM ExpectedRevisionsAreSpent == Spec => []ExpectedRevisionWinsOnce
<1>1. TypeInv /\ HistoryInv(instance, History) => ExpectedRevisionWinsOnce
  <2> SUFFICES ASSUME TypeInv, HistoryInv(instance, History),
                      NEW i \in 1 .. Len(log), NEW j \in 1 .. Len(log),
                      log[i].type \in Transition, log[j].type \in Transition,
                      log[i].expected # NoExpectation,
                      log[i].expected = log[j].expected
               PROVE  i = j
    BY DEF ExpectedRevisionWinsOnce
  <2>0. log \in Seq(EventRecord) /\ instance \in InstanceType
        /\ op.event \in EventRecord
    BY DEF TypeInv, TypeOK
  <2>1. ExpectInv(instance, log)
    <3>1. CASE step = "append" /\ op.event.by = "helper"
      <4>1. /\ op.event \in Moves \cup Births /\ instance # NoInstance
            /\ History = Append(log, op.event)
        BY <3>1 DEF TypeInv, OpInv, History
      <4> QED
        BY <2>0, <4>1, LosingAnEvent DEF HistoryInv
    <3>2. CASE ~(step = "append" /\ op.event.by = "helper")
      BY <3>2 DEF History, HistoryInv
    <3> QED
      BY <3>1, <3>2
  <2>2. i \in Where(log, Transitions) /\ j \in Where(log, Transitions)
    BY <2>0 DEF Where, Transitions
  <2> QED
    BY <2>1, <2>2 DEF ExpectInv
<1> QED
  BY <1>1, TypesHold, HistoryHolds, PTL

\* The transition-order check accepts a workflow moved by the helper alone
\* exactly if none of its state changes lost its event.
THEOREM VerifierAcceptsHelper == Spec => []HelperHistoryVerifies
<1>1. TypeInv /\ HistoryInv(instance, History) => HelperHistoryVerifies
  <2> SUFFICES ASSUME TypeInv, HistoryInv(instance, History),
                      Settled, ByHand = {}
               PROVE  TransitionOrderValid <=> instance.revision - 1 =
                        Cardinality({i \in Recorded : log[i].type \in Transition})
    BY DEF HelperHistoryVerifies
  <2>1. HistoryInv(instance, log) /\ instance # NoInstance
    BY DEF Settled, History
  <2>2. /\ instance.revision \in Nat /\ Steps(log) \in Nat
        /\ Steps(log) + 1 <= instance.revision
    BY <2>1, InstanceFields, StepsAreFinite
       DEF HistoryInv, CountInv, TypeInv, TypeOK, Steps
  <2>3. /\ Cardinality({i \in Recorded : log[i].type \in Transition}) = Steps(log)
        /\ Cardinality(Where(log, Transitions)) = Steps(log)
        /\ Where(log, Hands) = {}
    <3>1. Where(log, Hands) = {} /\ Where(log, Transitions) = Where(log, Moves)
      BY SetsOfEvents
    <3> QED
      BY <3>1, SetsOfEvents DEF Steps
  <2>4. ASSUME Agrees(Replay, instance) PROVE instance.revision = Steps(log) + 1
    BY <2>2, <2>3, <2>4, VerifierIsAgreement DEF Agrees, CountedBy
  <2>5. ASSUME instance.revision = Steps(log) + 1 PROVE Agrees(Replay, instance)
    BY <2>1, <2>3, <2>5, VerifierIsAgreement DEF HistoryInv, OutcomeInv
  <2> QED
    BY <2>2, <2>3, <2>4, <2>5, VerifierIsAgreement
<1> QED
  BY <1>1, TypesHold, HistoryHolds, PTL

\* Where no event was lost, a transition appended to the log by hand is never
\* mistaken for the workflow's history.
THEOREM VerifierDetectsHands == Spec => []ManualTransitionsDetected
<1>1. TypeInv /\ HistoryInv(instance, History) => ManualTransitionsDetected
  <2> SUFFICES ASSUME TypeInv, HistoryInv(instance, History),
                      Settled, EveryRevisionRecorded, ByHand # {},
                      TransitionOrderValid
               PROVE  FALSE
    BY DEF ManualTransitionsDetected
  <2>1. HistoryInv(instance, log) /\ instance # NoInstance
    BY DEF Settled, History
  <2>2. Steps(log) + 1 = instance.revision
    BY <2>1, NothingIsLost DEF HistoryInv
  <2>3. instance.revision = Cardinality(Where(log, Transitions)) + 1
    BY VerifierIsAgreement DEF Agrees, CountedBy
  <2>4. Cardinality(Where(log, Transitions)) = Cardinality(Where(log, Moves))
    <3>1. Cardinality(Where(log, Transitions)) \in Nat /\ Steps(log) \in Nat
      BY StepsAreFinite DEF Steps
    <3> QED
      BY <2>2, <2>3, <3>1 DEF Steps
  <2>5. /\ Where(log, Moves) \subseteq Where(log, Transitions)
        /\ Where(log, Moves) # Where(log, Transitions)
    BY SetsOfEvents
  <2> QED
    BY <2>4, <2>5, StepsAreFinite, FS_Subset
<1> QED
  BY <1>1, TypesHold, HistoryHolds, PTL

\* Unless an event was lost, every event id stored in the instance names the
\* event that put it there.
THEOREM StoredIdsAreBacked == Spec => []EventIdsAreBacked
<1>1. TypeInv /\ HistoryInv(instance, History) => EventIdsAreBacked
  <2> SUFFICES ASSUME TypeInv, HistoryInv(instance, History),
                      Settled, EveryRevisionRecorded
               PROVE  /\ instance.created <= Len(log)
                      /\ log[instance.created].type = "instance created"
                      /\ \A n \in Node :
                           LET e == instance.nodes[n].event
                           IN  \/ e = instance.created
                               \/ e <= Len(log) /\ log[e].by = "helper"
                                    /\ log[e].type \in Transition
                                    /\ log[e].node = n
    BY DEF EventIdsAreBacked
  <2>1. HistoryInv(instance, log) /\ instance # NoInstance
    BY DEF Settled, History
  <2>2. /\ Steps(log) + 1 = instance.revision
        /\ Where(log, Births) = {instance.created}
    BY <2>1, NothingIsLost DEF HistoryInv
  <2>3. instance.created <= Len(log)
        /\ log[instance.created].type = "instance created"
    <3>1. instance.created \in 1 .. Len(log) /\ log[instance.created] \in Births
      BY <2>2 DEF Where
    <3>2. log[instance.created].type = "instance created"
      BY <3>1 DEF Births
    <3>3. Len(log) \in Nat
      BY DEF TypeInv, TypeOK
    <3>4. instance.created <= Len(log)
      BY <3>1, <3>3
    <3> QED
      BY <3>2, <3>4, Zenon
  <2>4. \A n \in Node :
          \/ instance.nodes[n].event = instance.created
          \/ /\ instance.nodes[n].event \in Where(log, Moves)
             /\ log[instance.nodes[n].event].node = n
    BY <2>1, <2>2 DEF HistoryInv, OutcomeInv
  <2>5. \A k \in Where(log, Moves) :
          k <= Len(log) /\ log[k].by = "helper" /\ log[k].type \in Transition
    BY DEF Where, Moves, Transitions
  <2> QED
    BY <2>3, <2>4, <2>5
<1> QED
  BY <1>1, TypesHold, HistoryHolds, PTL

-----------------------------------------------------------------------------
\* However commands fail and whatever is written into the log, the nodes move
\* as the task DAG allows: the instance implements TaskDag.
THEOREM ImplementsTaskDag == Spec => FollowsTaskDag
<1>1. Init => Dag!Init
  BY DEF Init, Dag!Init, States
<1>2. TypeInv /\ [Next]_vars => [Dag!Next]_States
  <2> SUFFICES ASSUME TypeInv, [Next]_vars, instance' # instance
               PROVE  [Dag!Next]_States
    BY DEF States
  <2>1. CASE WriteInstance
    <3>1. /\ instance' = op.instance /\ op.instance # NoInstance
          /\ \/ Creation
             \/ \E kind \in Transition, n \in Node, expected \in 0 .. MaxRevision :
                  Mutation(kind, n, expected)
      BY <2>1 DEF WriteInstance, TypeInv, OpInv
    <3>2. CASE Creation
      <4>1. \A n \in Node : op.instance.nodes[n].state = "pending"
        BY <3>2 DEF Creation, NodeRow
      <4> QED
        BY <3>1, <3>2, <4>1 DEF States, Creation
    <3>3. ASSUME NEW kind \in Transition, NEW n \in Node,
                 NEW expected \in 0 .. MaxRevision, Mutation(kind, n, expected)
          PROVE  Dag!Next
      <4>1. /\ instance \in InstanceType /\ instance # NoInstance
            /\ instance.nodes \in [Node -> NodeRowType]
        BY <3>3, InstanceFields DEF Mutation, TypeInv, TypeOK
      <4>2. \A m \in Node : op.instance.nodes[m].state =
              IF m = n THEN StateAfter(kind) ELSE instance.nodes[m].state
        <5>1. op.instance = [instance EXCEPT !.revision = @ + 1,
                               !.nodes[n] = NodeRow(StateAfter(kind), NextId)]
          BY <3>3 DEF Mutation
        <5>2. op.instance.nodes =
                [instance.nodes EXCEPT ![n] = NodeRow(StateAfter(kind), NextId)]
          BY <4>1, <5>1 DEF InstanceType
        <5> QED
          BY <4>1, <5>2 DEF NodeRow
      <4>3. /\ States = [m \in Node |-> instance.nodes[m].state]
            /\ States' = [m \in Node |-> op.instance.nodes[m].state]
        BY <3>1, <4>1 DEF States
      <4>4. States' = [States EXCEPT ![n] = StateAfter(kind)]
        BY <4>2, <4>3
      <4>5. Allowed(kind, n) /\ DependsOn[n] \subseteq Node
        BY <3>3, WorkflowInstanceAssumption DEF Mutation
      <4>6. Dag!Start(n) \/ Dag!Complete(n) \/ Dag!Block(n)
        BY <4>3, <4>4, <4>5 DEF Allowed, DependenciesSucceeded, StateAfter,
           Transition, Dag!Start, Dag!Ready, Dag!Complete, Dag!Block
      <4> QED
        BY <4>6 DEF Dag!Next
    <3> QED
      BY <3>1, <3>2, <3>3
  <2> QED
    BY <2>1 DEF Next, vars, CreateWorkflowInstance, MutateNode, AppendEvent,
       Begin, AppendLine, ReplaceStatus, Stop
<1> QED
  BY <1>1, <1>2, TypesHold, PTL DEF Spec, FollowsTaskDag, Dag!Spec

-----------------------------------------------------------------------------
(***************************************************************************)
(* Numbers.  Induction is over the numbers in a set, so that no operator is *)
(* a parameter; with it a step can be repeated.                            *)
(***************************************************************************)
\* A set of numbers has a least one.
LEMMA LeastNumber ==
  ASSUME NEW T \in SUBSET Nat, T # {}
  PROVE  \E n \in T : \A m \in T : ~ m < n
<1> DEFINE R == {ss \in Nat \X Nat : ss[1] < ss[2]}
<1>1. OpToRel(<, Nat) = R
  BY DEF OpToRel
<1>2. IsWellFoundedOn(R, Nat)
  BY <1>1, NatLessThanWellFounded
<1> HIDE DEF R
<1>3. PICK n \in T : \A m \in T : <<m, n>> \notin R
  BY <1>2, WFMin, Zenon
<1>4. \A m \in T : m < n => <<m, n>> \in R
  BY DEF R
<1> QED
  BY <1>3, <1>4

\* Induction, over the numbers in a set.
LEMMA AllNumbers ==
  ASSUME NEW X, 0 \in X, \A n \in Nat : n \in X => n + 1 \in X
  PROVE  \A n \in Nat : n \in X
<1> SUFFICES ASSUME NEW k \in Nat, k \notin X PROVE FALSE
  OBVIOUS
<1>1. PICK n \in Nat \ X : \A m \in Nat \ X : ~ m < n
  BY LeastNumber
<1>2. n # 0 /\ n - 1 \in Nat /\ n - 1 < n /\ (n - 1) + 1 = n
  BY <1>1
<1>3. n - 1 \in X
  BY <1>1, <1>2
<1> QED
  BY <1>1, <1>2, <1>3

IsRepetition(f, a, A) == f = [k \in Nat |-> IF k = 0 THEN a ELSE A[f[k - 1]]]

\* A step can be repeated as often as one likes.
LEMMA Repetition ==
  ASSUME NEW S, NEW a \in S, NEW A \in [S -> S]
  PROVE  \E f \in [Nat -> S] : IsRepetition(f, a, A)
<1> DEFINE Run(n, g) == /\ g \in [0 .. n -> S] /\ g[0] = a
                        /\ \A k \in 1 .. n : g[k] = A[g[k - 1]]
           X == {n \in Nat : \E g : Run(n, g)}
           Y == {k \in Nat : \A m \in Nat, n \in Nat : \A g, h :
                   k <= m /\ k <= n /\ Run(m, g) /\ Run(n, h) => g[k] = h[k]}
<1>1. \A n \in Nat : n \in X
  <2>1. 0 \in X
    <3>1. Run(0, [k \in 0 .. 0 |-> a])
      OBVIOUS
    <3> QED
      BY <3>1
  <2>2. ASSUME NEW n \in Nat, n \in X PROVE n + 1 \in X
    <3>1. PICK g : Run(n, g)
      BY <2>2
    <3> DEFINE h == [k \in 0 .. n + 1 |-> IF k = n + 1 THEN A[g[n]] ELSE g[k]]
    <3>2. h \in [0 .. n + 1 -> S] /\ h[0] = a
      BY <3>1
    <3>3. ASSUME NEW k \in 1 .. n + 1 PROVE h[k] = A[h[k - 1]]
      <4>1. CASE k = n + 1
        BY <3>1, <4>1
      <4>2. CASE k \in 1 .. n
        BY <3>1, <4>2
      <4> QED
        BY <4>1, <4>2
    <3> HIDE DEF h
    <3>4. Run(n + 1, h)
      BY <3>2, <3>3
    <3> QED
      BY <3>4
  <2> HIDE DEF X
  <2> QED
    BY <2>1, <2>2, AllNumbers
<1>2. \A k \in Nat : k \in Y
  <2>1. 0 \in Y
    OBVIOUS
  <2>2. ASSUME NEW k \in Nat, k \in Y PROVE k + 1 \in Y
    <3> SUFFICES ASSUME NEW m \in Nat, NEW n \in Nat, NEW g, NEW h,
                        k + 1 <= m, k + 1 <= n, Run(m, g), Run(n, h)
                 PROVE  g[k + 1] = h[k + 1]
      <4> HIDE DEF Run
      <4> QED
        OBVIOUS
    <3>1. g[k] = h[k]
      <4>1. k <= m /\ k <= n
        OBVIOUS
      <4> HIDE DEF Run
      <4> QED
        BY <2>2, <4>1
    <3>2. k + 1 \in 1 .. m /\ k + 1 \in 1 .. n /\ (k + 1) - 1 = k
      OBVIOUS
    <3> QED
      BY <3>1, <3>2
  <2> HIDE DEF Y
  <2> QED
    BY <2>1, <2>2, AllNumbers
<1> HIDE DEF Run
<1> DEFINE G(n) == CHOOSE g : Run(n, g)
<1>3. \A n \in Nat : Run(n, G(n))
  BY <1>1
<1> HIDE DEF G
<1> DEFINE f == [k \in Nat |-> G(k)[k]]
<1>4. \A k \in Nat, m \in Nat : k <= m => G(m)[k] = f[k]
  <2> SUFFICES ASSUME NEW k \in Nat, NEW m \in Nat, k <= m
               PROVE  G(m)[k] = G(k)[k]
    OBVIOUS
  <2>1. Run(m, G(m)) /\ Run(k, G(k)) /\ k <= k
    BY <1>3
  <2> QED
    BY <1>2, <2>1
<1>5. f \in [Nat -> S]
  BY <1>3 DEF Run
<1>6. ASSUME NEW k \in Nat PROVE f[k] = IF k = 0 THEN a ELSE A[f[k - 1]]
  <2>1. CASE k = 0
    BY <1>3, <2>1 DEF Run
  <2>2. CASE k # 0
    <3>1. k - 1 \in Nat /\ k - 1 <= k /\ k \in 1 .. k
      BY <2>2
    <3>2. f[k] = A[G(k)[k - 1]]
      BY <1>3, <3>1 DEF Run
    <3>3. G(k)[k - 1] = f[k - 1]
      BY <1>4, <3>1
    <3> QED
      BY <2>2, <3>2, <3>3
  <2> QED
    BY <2>1, <2>2
<1>7. f = [k \in Nat |-> f[k]]
  OBVIOUS
<1> HIDE DEF f
<1>8. f = [k \in Nat |-> IF k = 0 THEN a ELSE A[f[k - 1]]]
  BY <1>6, <1>7
<1> QED
  BY <1>5, <1>8 DEF IsRepetition

-----------------------------------------------------------------------------
(***************************************************************************)
(* The search for a cycle (CycleSearch).  SearchInv holds of every state it *)
(* goes through: what has been visited has a rank above everything it      *)
(* leads to, and the stack is a path.                                      *)
(***************************************************************************)
SearchState(N) ==
  [stack : Seq(N), rest : Seq(Seq(N)), visited : SUBSET N, cycle : Seq(N)]

\* A node of V points to nodes of V of a smaller rank only.
Ranked(V, next) ==
  \E m \in Nat : \E rank \in [V -> 0 .. m] :
    \A n \in V : \A d \in ToSet(next[n]) : d \in V /\ rank[d] < rank[n]

\* The stack is a path of different nodes that have not been visited before,
\* each with successors of its own left to visit.
StackInv(s, next) ==
  /\ Len(s.rest) = Len(s.stack) + 1
  /\ \A i \in 1 .. Len(s.stack) :
       /\ s.stack[i] \notin s.visited
       /\ \A j \in 1 .. Len(s.stack) : s.stack[i] = s.stack[j] => i = j
       /\ i + 1 \in 1 .. Len(s.stack) =>
            s.stack[i + 1] \in ToSet(next[s.stack[i]])
       /\ ToSet(s.rest[i + 1]) \subseteq ToSet(next[s.stack[i]])
       /\ Len(s.rest[i + 1]) <= Len(next[s.stack[i]])

\* Every successor of a node on the stack has been visited, is visited now or
\* is left to visit, and so has every node the search starts from.
AccountInv(s, order, next) ==
  /\ \A i \in 1 .. Len(s.stack) : \A d \in ToSet(next[s.stack[i]]) :
       \/ d \in s.visited \/ d \in ToSet(s.rest[i + 1])
       \/ i + 1 \in 1 .. Len(s.stack) /\ d = s.stack[i + 1]
  /\ \A r \in ToSet(order) :
       \/ r \in s.visited \/ r \in ToSet(s.rest[1])
       \/ 1 \in 1 .. Len(s.stack) /\ r = s.stack[1]

SearchInv(s, order, next) ==
  /\ s \in SearchState(DOMAIN next)
  /\ StackInv(s, next)
  /\ IF s.cycle = <<>> THEN AccountInv(s, order, next)
                       ELSE IsCycle(s.cycle, next)
  /\ Ranked(s.visited, next)

\* The search starts in such a state.
LEMMA StartSearches ==
  ASSUME NEW N, NEW next \in [N -> Seq(N)], NEW order \in Seq(N)
  PROVE  SearchInv(SearchStart(order), order, next)
<1> DEFINE s == SearchStart(order)
<1> SUFFICES SearchInv(s, order, next)
  OBVIOUS
<1>1. s = [stack |-> <<>>, rest |-> <<order>>, visited |-> {}, cycle |-> <<>>]
  BY DEF SearchStart
<1>2. s \in SearchState(DOMAIN next)
  <2>1. <<>> \in Seq(N) /\ <<order>> \in Seq(Seq(N)) /\ DOMAIN next = N
    OBVIOUS
  <2> QED
    BY <1>1, <2>1 DEF SearchState
<1>3. /\ Len(s.rest) = 1 /\ Len(s.stack) = 0 /\ s.rest[1] = order
      /\ s.visited = {} /\ s.cycle = <<>>
  BY <1>1
<1>4. Ranked({}, next)
  <2>1. [x \in {} |-> 0] \in [{} -> 0 .. 0]
    OBVIOUS
  <2> QED
    BY <2>1 DEF Ranked
<1> HIDE DEF s
<1>5. StackInv(s, next) /\ AccountInv(s, order, next)
  BY <1>3 DEF StackInv, AccountInv
<1> QED
  BY <1>2, <1>3, <1>4, <1>5 DEF SearchInv

\* The next node in line, and the stack without it.
LEMMA NextInLine ==
  ASSUME NEW N, NEW s \in SearchState(N), Len(s.rest) = Len(s.stack) + 1,
         Last(s.rest) # <<>>
  PROVE  LET l == Len(s.rest)
             rest == [s.rest EXCEPT ![l] = Tail(@)]
         IN  /\ Head(s.rest[l]) \in N
             /\ rest \in Seq(Seq(N)) /\ Len(rest) = l /\ l \in Nat /\ l > 0
             /\ \A i \in 1 .. l : i # l => rest[i] = s.rest[i]
             /\ Len(rest[l]) = Len(s.rest[l]) - 1
             /\ ToSet(s.rest[l]) = ToSet(rest[l]) \cup {Head(s.rest[l])}
<1> DEFINE l == Len(s.rest)
           top == s.rest[l]
           rest == [s.rest EXCEPT ![l] = Tail(@)]
<1>1. /\ s.rest \in Seq(Seq(N)) /\ s.stack \in Seq(N)
      /\ l \in Nat /\ l > 0 /\ top \in Seq(N) /\ top # <<>>
  BY DEF SearchState, Last
<1>2. /\ Head(top) \in N /\ Tail(top) \in Seq(N) /\ Len(Tail(top)) = Len(top) - 1
      /\ \A i \in 1 .. Len(Tail(top)) : Tail(top)[i] = top[i + 1]
      /\ Head(top) = top[1]
  BY <1>1, HeadTailProperties
<1>3. /\ rest \in Seq(Seq(N)) /\ Len(rest) = l /\ rest[l] = Tail(top)
      /\ \A i \in 1 .. l : i # l => rest[i] = s.rest[i]
  BY <1>1, <1>2
<1>4. ToSet(top) = ToSet(Tail(top)) \cup {Head(top)}
  <2>1. DOMAIN top = 1 .. Len(top) /\ DOMAIN Tail(top) = 1 .. Len(top) - 1
        /\ Len(top) \in Nat /\ Len(top) > 0
    BY <1>1, <1>2
  <2>2. ASSUME NEW x \in ToSet(top) PROVE x \in ToSet(Tail(top)) \cup {Head(top)}
    <3>1. PICK i \in 1 .. Len(top) : x = top[i]
      BY <2>1 DEF ToSet
    <3>2. CASE i = 1
      BY <3>1, <3>2, <1>2
    <3>3. CASE i # 1
      <4>1. i - 1 \in 1 .. Len(Tail(top)) /\ (i - 1) + 1 = i
        BY <2>1, <1>2, <3>3
      <4>2. x = Tail(top)[i - 1]
        BY <3>1, <4>1, <1>2
      <4> QED
        BY <4>1, <4>2, <2>1, <1>2 DEF ToSet
    <3> QED
      BY <3>2, <3>3
  <2>3. ASSUME NEW x \in ToSet(Tail(top)) PROVE x \in ToSet(top)
    <3>1. PICK i \in 1 .. Len(Tail(top)) : x = Tail(top)[i]
      BY <2>1, <1>2 DEF ToSet
    <3>2. i + 1 \in 1 .. Len(top) /\ x = top[i + 1]
      BY <2>1, <3>1, <1>2
    <3> QED
      BY <3>2, <2>1 DEF ToSet
  <2>4. Head(top) \in ToSet(top)
    BY <2>1, <1>2 DEF ToSet
  <2> QED
    BY <2>2, <2>3, <2>4
<1> QED
  BY <1>1, <1>2, <1>3, <1>4

\* s with its next node taken out of the line.
Taken(s) == [s EXCEPT !.rest[Len(s.rest)] = Tail(@)]

\* What SearchInv says, in one place.
LEMMA SearchFacts ==
  ASSUME NEW N, NEW next \in [N -> Seq(N)], NEW order,
         NEW s, SearchInv(s, order, next)
  PROVE  /\ s \in SearchState(N) /\ s.stack \in Seq(N)
         /\ s.rest \in Seq(Seq(N)) /\ s.cycle \in Seq(N)
         /\ Len(s.stack) \in Nat /\ Len(s.rest) = Len(s.stack) + 1
         /\ \A i \in 1 .. Len(s.rest) : /\ s.rest[i] \in Seq(N)
                                       /\ Len(s.rest[i]) \in Nat
         /\ \A i \in 1 .. Len(s.stack) : /\ s.stack[i] \in N
                                        /\ Len(next[s.stack[i]]) \in Nat
                                        /\ i + 1 \in 1 .. Len(s.rest)
         /\ StackInv(s, next) /\ Ranked(s.visited, next)
         /\ s.cycle = <<>> => AccountInv(s, order, next)
         /\ s.cycle # <<>> => IsCycle(s.cycle, next)
<1>1. DOMAIN next = N
  OBVIOUS
<1>2. s \in SearchState(N) /\ StackInv(s, next)
  BY <1>1 DEF SearchInv
<1>3. /\ s.stack \in Seq(N) /\ s.rest \in Seq(Seq(N)) /\ s.cycle \in Seq(N)
      /\ Len(s.stack) \in Nat
  BY <1>2 DEF SearchState
<1>4. Len(s.rest) = Len(s.stack) + 1
  BY <1>2 DEF StackInv
<1>5. \A i \in 1 .. Len(s.rest) : /\ s.rest[i] \in Seq(N)
                                /\ Len(s.rest[i]) \in Nat
  BY <1>3
<1>6. \A i \in 1 .. Len(s.stack) : /\ s.stack[i] \in N
                                 /\ Len(next[s.stack[i]]) \in Nat
                                 /\ i + 1 \in 1 .. Len(s.rest)
  <2> SUFFICES ASSUME NEW i \in 1 .. Len(s.stack)
               PROVE  /\ s.stack[i] \in N /\ Len(next[s.stack[i]]) \in Nat
                      /\ i + 1 \in 1 .. Len(s.rest)
    OBVIOUS
  <2>1. s.stack[i] \in N
    BY <1>3
  <2>2. next[s.stack[i]] \in Seq(N)
    BY <2>1
  <2>3. i + 1 \in 1 .. Len(s.stack) + 1
    BY <1>3
  <2> QED
    BY <1>4, <2>1, <2>2, <2>3
<1> QED
  BY <1>2, <1>3, <1>4, <1>5, <1>6 DEF SearchInv

\* What holds when node has been taken out of the line of s and t is left.
TakenInv(s, t, node, order, next) ==
  LET l == Len(s.stack)
  IN  /\ t \in SearchState(DOMAIN next) /\ StackInv(t, next)
      /\ t.stack = s.stack /\ t.visited = s.visited /\ t.cycle = <<>>
      /\ node \in DOMAIN next
      /\ l > 0 => node \in ToSet(next[s.stack[l]])
      /\ \A i \in 1 .. l : \A d \in ToSet(next[s.stack[i]]) :
           \/ d \in t.visited \/ d \in ToSet(t.rest[i + 1])
           \/ i + 1 \in 1 .. l /\ d = t.stack[i + 1]
           \/ i = l /\ d = node
      /\ \A r \in ToSet(order) :
           \/ r \in t.visited \/ r \in ToSet(t.rest[1])
           \/ 1 \in 1 .. l /\ r = t.stack[1]
           \/ l = 0 /\ r = node

\* Taking the next node out of the line leaves nothing else behind.
LEMMA TakenIsSound ==
  ASSUME NEW N, NEW next \in [N -> Seq(N)], NEW order,
         NEW s, SearchInv(s, order, next), s.cycle = <<>>, Last(s.rest) # <<>>
  PROVE  TakenInv(s, Taken(s), Head(Last(s.rest)), order, next)
<1> SUFFICES ASSUME NEW l, l = Len(s.stack), NEW node, node = Head(Last(s.rest)),
                    NEW t, t = Taken(s)
             PROVE  TakenInv(s, t, node, order, next)
  OBVIOUS
<1> DEFINE rest == [s.rest EXCEPT ![Len(s.rest)] = Tail(@)]
<1>1. /\ s \in SearchState(N) /\ StackInv(s, next) /\ AccountInv(s, order, next)
      /\ Len(s.rest) = l + 1 /\ l \in Nat /\ s.stack \in Seq(N)
      /\ \A i \in 1 .. l : /\ Len(s.rest[i + 1]) \in Nat /\ s.stack[i] \in N
                          /\ Len(next[s.stack[i]]) \in Nat
                          /\ i + 1 \in 1 .. l + 1
  BY SearchFacts
<1>2. /\ node \in N
      /\ rest \in Seq(Seq(N)) /\ Len(rest) = l + 1
      /\ \A i \in 1 .. l : rest[i] = s.rest[i]
      /\ Len(rest[l + 1]) = Len(s.rest[l + 1]) - 1
      /\ ToSet(s.rest[l + 1]) = ToSet(rest[l + 1]) \cup {node}
  <2>1. node = Head(s.rest[l + 1])
    BY <1>1 DEF Last
  <2>2. Len(s.rest) = Len(s.stack) + 1
    BY <1>1
  <2>3. s \in SearchState(N) /\ Last(s.rest) # <<>>
    BY <1>1
  <2>4. /\ Head(s.rest[l + 1]) \in N
        /\ rest \in Seq(Seq(N)) /\ Len(rest) = l + 1
        /\ \A i \in 1 .. l + 1 : i # l + 1 => rest[i] = s.rest[i]
        /\ Len(rest[l + 1]) = Len(s.rest[l + 1]) - 1
        /\ ToSet(s.rest[l + 1]) = ToSet(rest[l + 1]) \cup {Head(s.rest[l + 1])}
    BY <1>1, <2>2, <2>3, NextInLine
  <2> QED
    BY <1>1, <2>1, <2>4
<1>3. /\ t.stack = s.stack /\ t.visited = s.visited /\ t.rest = rest
      /\ t.cycle = <<>> /\ t \in SearchState(N)
  BY <1>1, <1>2 DEF SearchState, Taken
<1> HIDE DEF rest
<1>4. \A i \in 1 .. l : /\ ToSet(rest[i + 1]) \subseteq ToSet(s.rest[i + 1])
                        /\ Len(rest[i + 1]) <= Len(s.rest[i + 1])
  <2> SUFFICES ASSUME NEW i \in 1 .. l
               PROVE  /\ ToSet(rest[i + 1]) \subseteq ToSet(s.rest[i + 1])
                      /\ Len(rest[i + 1]) <= Len(s.rest[i + 1])
    OBVIOUS
  <2>1. Len(s.rest[i + 1]) \in Nat
    BY <1>1
  <2>2. CASE i = l
    BY <1>2, <2>1, <2>2
  <2>3. CASE i # l
    <3>1. i + 1 \in 1 .. l
      BY <1>1, <2>3
    <3> QED
      BY <1>2, <2>1, <3>1
  <2> QED
    BY <2>2, <2>3
<1>5. StackInv(t, next)
  <2>1. \A i \in 1 .. l : /\ Len(rest[i + 1]) \in Nat
                          /\ ToSet(rest[i + 1]) \subseteq ToSet(next[s.stack[i]])
                          /\ Len(rest[i + 1]) <= Len(next[s.stack[i]])
    <3> SUFFICES ASSUME NEW i \in 1 .. l
                 PROVE  /\ Len(rest[i + 1]) \in Nat
                        /\ ToSet(rest[i + 1]) \subseteq ToSet(next[s.stack[i]])
                        /\ Len(rest[i + 1]) <= Len(next[s.stack[i]])
      OBVIOUS
    <3>1. Len(rest[i + 1]) \in Nat
      BY <1>1, <1>2
    <3>2. /\ ToSet(s.rest[i + 1]) \subseteq ToSet(next[s.stack[i]])
          /\ Len(s.rest[i + 1]) <= Len(next[s.stack[i]])
      BY <1>1 DEF StackInv
    <3>3. /\ ToSet(rest[i + 1]) \subseteq ToSet(s.rest[i + 1])
          /\ Len(rest[i + 1]) <= Len(s.rest[i + 1])
      BY <1>4
    <3>4. Len(s.rest[i + 1]) \in Nat /\ Len(next[s.stack[i]]) \in Nat
      BY <1>1
    <3>5. Len(rest[i + 1]) <= Len(next[s.stack[i]])
      BY <3>1, <3>2, <3>3, <3>4
    <3> QED
      BY <3>1, <3>2, <3>3, <3>5
  <2> QED
    BY <1>1, <1>2, <1>3, <2>1 DEF StackInv
<1>6. l > 0 => node \in ToSet(next[s.stack[l]])
  <2> SUFFICES ASSUME l > 0 PROVE node \in ToSet(next[s.stack[l]])
    OBVIOUS
  <2>1. l \in 1 .. l
    BY <1>1
  <2>2. ToSet(s.rest[l + 1]) \subseteq ToSet(next[s.stack[l]])
    BY <1>1, <2>1 DEF StackInv
  <2> QED
    BY <1>2, <2>2
<1>7. \A i \in 1 .. l : \A d \in ToSet(next[s.stack[i]]) :
        \/ d \in t.visited \/ d \in ToSet(t.rest[i + 1])
        \/ i + 1 \in 1 .. l /\ d = t.stack[i + 1]
        \/ i = l /\ d = node
  <2> SUFFICES ASSUME NEW i \in 1 .. l, NEW d \in ToSet(next[s.stack[i]]),
                      d \in ToSet(s.rest[i + 1])
               PROVE  d \in ToSet(rest[i + 1]) \/ (i = l /\ d = node)
    BY <1>1, <1>3 DEF AccountInv
  <2>1. CASE i = l
    BY <1>2, <2>1
  <2>2. CASE i # l
    <3>1. i + 1 \in 1 .. l
      BY <1>1, <2>2
    <3> QED
      BY <1>2, <3>1
  <2> QED
    BY <2>1, <2>2
<1>8. \A r \in ToSet(order) :
        \/ r \in t.visited \/ r \in ToSet(t.rest[1])
        \/ 1 \in 1 .. l /\ r = t.stack[1]
        \/ l = 0 /\ r = node
  <2> SUFFICES ASSUME NEW r \in ToSet(order), r \in ToSet(s.rest[1])
               PROVE  r \in ToSet(rest[1]) \/ (l = 0 /\ r = node)
    BY <1>1, <1>3 DEF AccountInv
  <2>1. CASE l = 0
    BY <1>2, <2>1
  <2>2. CASE l # 0
    <3>1. 1 \in 1 .. l
      BY <1>1, <2>2
    <3> QED
      BY <1>2, <3>1
  <2> QED
    BY <2>1, <2>2
<1>9. DOMAIN next = N
  OBVIOUS
<1> QED
  BY <1>2, <1>3, <1>5, <1>6, <1>7, <1>8, <1>9 DEF TakenInv

\* What is found is a cycle.
LEMMA VisitCloses ==
  ASSUME NEW N, NEW next \in [N -> Seq(N)], NEW order,
         NEW s, SearchInv(s, order, next), s.cycle = <<>>, Last(s.rest) # <<>>,
         Contains(s.stack, Head(Last(s.rest)))
  PROVE  SearchInv(Visit(s, next), order, next) /\ Visit(s, next).cycle # <<>>
<1> DEFINE l == Len(s.stack)
           node == Head(Last(s.rest))
           t == Taken(s)
           path == Closed(s.stack, node)
           u == [t EXCEPT !.cycle = path]
<1> SUFFICES SearchInv(u, order, next) /\ u.cycle # <<>>
  BY DEF Visit, Taken
<1>1. /\ t \in SearchState(N) /\ StackInv(t, next)
      /\ t.stack = s.stack /\ t.visited = s.visited
      /\ node \in N /\ (l > 0 => node \in ToSet(next[s.stack[l]]))
  <2>1. TakenInv(s, t, node, order, next)
    BY TakenIsSound
  <2>2. DOMAIN next = N
    OBVIOUS
  <2> HIDE DEF t, node, u
  <2> QED
    BY <2>1, <2>2 DEF TakenInv
<1>2. /\ s.stack \in Seq(N) /\ l \in Nat /\ Ranked(s.visited, next)
      /\ \A i \in 1 .. l : i + 1 \in 1 .. l =>
           s.stack[i + 1] \in ToSet(next[s.stack[i]])
  <2>1. StackInv(s, next)
    BY SearchFacts
  <2> QED
    BY <2>1, SearchFacts DEF StackInv
<1> DEFINE k == CHOOSE i \in DOMAIN s.stack : s.stack[i] = node
<1>3. k \in 1 .. l /\ s.stack[k] = node
  BY <1>2 DEF Contains
<1>4. path = Append(SubSeq(s.stack, k, l), node)
  BY DEF Closed
<1> HIDE DEF k, path, node, t, l
<1>5. /\ SubSeq(s.stack, k, l) \in Seq(N)
      /\ Len(SubSeq(s.stack, k, l)) = l - k + 1
      /\ \A i \in 1 .. l - k + 1 : SubSeq(s.stack, k, l)[i] = s.stack[k + i - 1]
  <2>1. k \in Int /\ l \in Int /\ k <= l /\ \A i \in k .. l : s.stack[i] \in N
    BY <1>2, <1>3 DEF l
  <2>2. /\ SubSeq(s.stack, k, l) \in Seq(N)
        /\ Len(SubSeq(s.stack, k, l)) = l - k + 1
        /\ \A i \in 1 .. l - k + 1 :
             SubSeq(s.stack, k, l)[i] = s.stack[k + i - 1]
    BY <2>1, SubSeqProperties
  <2> QED
    BY <2>2
<1>6. /\ path \in Seq(N) /\ Len(path) = l - k + 2
      /\ \A i \in 1 .. l - k + 1 : path[i] = s.stack[k + i - 1]
      /\ path[l - k + 2] = node
  <2> DEFINE part == SubSeq(s.stack, k, l)
  <2>1. part \in Seq(N) /\ Len(part) = l - k + 1 /\ l - k + 1 \in Nat
    BY <1>2, <1>3, <1>5
  <2>2. path = Append(part, node)
    BY <1>4
  <2> HIDE DEF part
  <2>3. /\ path \in Seq(N) /\ Len(path) = l - k + 2
        /\ \A i \in 1 .. l - k + 1 : path[i] = part[i]
        /\ path[l - k + 2] = node
    BY <1>1, <1>2, <1>3, <2>1, <2>2
  <2> QED
    BY <1>5, <2>3 DEF part
<1>7. IsCycle(path, next)
  <2>1. Len(path) > 1 /\ 1 \in 1 .. l - k + 1 /\ k + 1 - 1 = k
    BY <1>2, <1>3, <1>6
  <2>2. path[1] = path[Len(path)]
    BY <1>3, <1>6, <2>1
  <2>3. ASSUME NEW i \in 1 .. Len(path) - 1
        PROVE  path[i + 1] \in ToSet(next[path[i]])
    <3>1. i \in 1 .. l - k + 1 /\ path[i] = s.stack[k + i - 1]
      <4>1. Len(path) - 1 = l - k + 1
        BY <1>2, <1>3, <1>6
      <4> QED
        BY <1>6, <4>1
    <3>2. CASE i = l - k + 1
      <4>1. k + i - 1 = l /\ l > 0 /\ i + 1 = l - k + 2
        BY <1>2, <1>3, <3>2
      <4> QED
        BY <1>1, <1>6, <3>1, <4>1
    <3>3. CASE i # l - k + 1
      <4>1. i \in Nat /\ i > 0 /\ i < l - k + 1 /\ k \in Nat /\ k > 0
        <5>1. i \in 1 .. l - k + 1 /\ i # l - k + 1
          BY <3>1, <3>3
        <5>2. k \in 1 .. l /\ l \in Nat
          BY <1>2, <1>3
        <5> QED
          BY <5>1, <5>2
      <4>2. /\ i + 1 \in 1 .. l - k + 1 /\ k + (i + 1) - 1 = (k + i - 1) + 1
            /\ k + i - 1 \in 1 .. l /\ (k + i - 1) + 1 \in 1 .. l
        BY <1>2, <4>1
      <4>3. path[i + 1] = s.stack[(k + i - 1) + 1]
        BY <1>6, <4>2
      <4> QED
        BY <1>2, <3>1, <4>2, <4>3
    <3> QED
      BY <3>2, <3>3
  <2> QED
    BY <2>1, <2>2, <2>3 DEF IsCycle
<1>8. path # <<>>
  BY <1>2, <1>3, <1>6
<1>9. /\ u.stack = t.stack /\ u.rest = t.rest /\ u.visited = t.visited
      /\ u.cycle = path /\ u \in SearchState(N)
  BY <1>1, <1>6 DEF SearchState
<1> HIDE DEF u
<1>10. StackInv(u, next)
  BY <1>1, <1>9 DEF StackInv
<1>11. DOMAIN next = N /\ u.visited = s.visited
  BY <1>1, <1>9
<1> QED
  BY <1>2, <1>7, <1>8, <1>9, <1>10, <1>11 DEF SearchInv

\* A node that has been visited is left alone.
LEMMA VisitSkips ==
  ASSUME NEW N, NEW next \in [N -> Seq(N)], NEW order,
         NEW s, SearchInv(s, order, next), s.cycle = <<>>, Last(s.rest) # <<>>,
         Head(Last(s.rest)) \in s.visited
  PROVE  SearchInv(Taken(s), order, next)
<1> DEFINE l == Len(s.stack)
           node == Head(Last(s.rest))
           t == Taken(s)
<1>1. TakenInv(s, t, node, order, next)
  BY TakenIsSound
<1>2. Ranked(s.visited, next)
  BY SearchFacts
<1> HIDE DEF t, node
<1>3. node \in s.visited
  BY DEF node
<1>4. AccountInv(t, order, next)
  BY <1>1, <1>3 DEF TakenInv, AccountInv
<1>5. SearchInv(t, order, next)
  BY <1>1, <1>2, <1>4 DEF TakenInv, SearchInv
<1> QED
  BY <1>5 DEF t

\* The elements of a sequence with one more.
LEMMA AppendFacts ==
  ASSUME NEW S, NEW seq \in Seq(S), NEW e \in S
  PROVE  /\ Append(seq, e) \in Seq(S) /\ Len(Append(seq, e)) = Len(seq) + 1
         /\ Append(seq, e)[Len(seq) + 1] = e
         /\ \A i \in 1 .. Len(seq) : Append(seq, e)[i] = seq[i]
  OBVIOUS

\* s with its next node put on the stack.
Entered(s, next) ==
  [Taken(s) EXCEPT !.stack = Append(@, Head(Last(s.rest))),
                   !.rest = Append(@, next[Head(Last(s.rest))])]

\* What the step does to the two sequences.
EnteredAt(s, u, node, l, t, next) ==
  /\ u.visited = s.visited /\ u.cycle = <<>>
  /\ Len(u.stack) = l + 1 /\ Len(u.rest) = l + 2
  /\ u.stack[l + 1] = node /\ u.rest[l + 2] = next[node]
  /\ \A i \in 1 .. l : u.stack[i] = s.stack[i]
  /\ \A i \in 1 .. l + 1 : u.rest[i] = t.rest[i]

\* These are the positions before and after.
LEMMA EnteredFacts ==
  ASSUME NEW N, NEW next \in [N -> Seq(N)], NEW order,
         NEW s, SearchInv(s, order, next), s.cycle = <<>>, Last(s.rest) # <<>>
  PROVE  /\ EnteredAt(s, Entered(s, next), Head(Last(s.rest)), Len(s.stack),
                      Taken(s), next)
         /\ Entered(s, next) \in SearchState(N)
<1>1. PICK node : node = Head(Last(s.rest))
  OBVIOUS
<1>2. PICK t : t = Taken(s)
  OBVIOUS
<1>3. PICK l : l = Len(s.stack)
  OBVIOUS
<1>4. PICK u : u = Entered(s, next)
  OBVIOUS
<1>5. TakenInv(s, t, node, order, next)
  BY <1>1, <1>2, TakenIsSound
<1>6. /\ s.stack \in Seq(N) /\ Ranked(s.visited, next)
      /\ l \in Nat /\ DOMAIN next = N
  BY <1>3, SearchFacts
<1>7. /\ t \in SearchState(N) /\ StackInv(t, next) /\ t.stack = s.stack
      /\ t.visited = s.visited /\ t.cycle = <<>> /\ node \in N
      /\ next[node] \in Seq(N)
  BY <1>5, <1>6 DEF TakenInv
<1>8. /\ t.rest \in Seq(Seq(N)) /\ Len(t.rest) = l + 1
      /\ t.cycle \in Seq(N) /\ t.visited \in SUBSET N
  BY <1>3, <1>7 DEF SearchState, StackInv
<1>9. /\ Append(t.stack, node) \in Seq(N)
      /\ Append(t.rest, next[node]) \in Seq(Seq(N))
  BY <1>6, <1>7, <1>8
<1>10. /\ u.stack = Append(s.stack, node)
       /\ u.rest = Append(t.rest, next[node])
       /\ u.visited = s.visited /\ u.cycle = <<>>
       /\ u \in SearchState(N)
  BY <1>1, <1>2, <1>4, <1>7, <1>8, <1>9 DEF SearchState, Entered
<1>11. /\ Len(u.stack) = l + 1 /\ Len(u.rest) = l + 2
       /\ u.stack[l + 1] = node /\ u.rest[l + 2] = next[node]
       /\ \A i \in 1 .. l : u.stack[i] = s.stack[i]
       /\ \A i \in 1 .. l + 1 : u.rest[i] = t.rest[i]
  <2>1. /\ Len(u.stack) = l + 1 /\ u.stack[l + 1] = node
        /\ \A i \in 1 .. l : u.stack[i] = s.stack[i]
    BY <1>3, <1>6, <1>7, <1>10, AppendFacts
  <2>2. /\ Len(u.rest) = (l + 1) + 1 /\ u.rest[(l + 1) + 1] = next[node]
        /\ \A i \in 1 .. l + 1 : u.rest[i] = t.rest[i]
    BY <1>7, <1>8, <1>10, AppendFacts
  <2>3. (l + 1) + 1 = l + 2
    BY <1>6
  <2> QED
    BY <2>1, <2>2, <2>3
<1> QED
  BY <1>1, <1>2, <1>3, <1>10, <1>11, <1>4 DEF EnteredAt

\* Any other node is visited next, all its successors after it.
LEMMA VisitEnters ==
  ASSUME NEW N, NEW next \in [N -> Seq(N)], NEW order,
         NEW s, SearchInv(s, order, next), s.cycle = <<>>, Last(s.rest) # <<>>,
         Head(Last(s.rest)) \notin s.visited,
         ~Contains(s.stack, Head(Last(s.rest)))
  PROVE  SearchInv(Entered(s, next), order, next)
<1>1. PICK node : node = Head(Last(s.rest))
  OBVIOUS
<1>2. PICK t : t = Taken(s)
  OBVIOUS
<1>3. PICK l : l = Len(s.stack)
  OBVIOUS
<1>4. PICK u : u = Entered(s, next)
  OBVIOUS
<1>5. TakenInv(s, t, node, order, next)
  BY <1>1, <1>2, TakenIsSound
<1>6. /\ s.stack \in Seq(N) /\ Ranked(s.visited, next)
      /\ l \in Nat /\ DOMAIN next = N
  BY <1>3, SearchFacts
<1>7. /\ StackInv(t, next) /\ t.stack = s.stack
      /\ t.visited = s.visited /\ node \in N /\ next[node] \in Seq(N)
  BY <1>5, <1>6 DEF TakenInv
<1>8. EnteredAt(s, u, node, l, t, next) /\ u \in SearchState(N)
  BY <1>1, <1>2, <1>3, <1>4, EnteredFacts
<1>9. /\ Len(u.stack) = l + 1 /\ Len(u.rest) = l + 2
      /\ u.stack[l + 1] = node /\ u.rest[l + 2] = next[node]
      /\ \A i \in 1 .. l : u.stack[i] = s.stack[i]
      /\ \A i \in 1 .. l + 1 : u.rest[i] = t.rest[i]
      /\ u.visited = s.visited /\ u.cycle = <<>>
  BY <1>8 DEF EnteredAt
<1>10. node \notin s.visited /\ \A i \in 1 .. l : s.stack[i] # node
  BY <1>1, <1>3, <1>6 DEF Contains
<1>11. l > 0 => node \in ToSet(next[s.stack[l]])
  BY <1>3, <1>5 DEF TakenInv
<1>12. \A i \in 1 .. l :
         /\ i \in Nat /\ i + 1 \in 1 .. l + 1
         /\ s.stack[i] \notin s.visited
         /\ \A j \in 1 .. l : s.stack[i] = s.stack[j] => i = j
         /\ i + 1 \in 1 .. l => s.stack[i + 1] \in ToSet(next[s.stack[i]])
         /\ ToSet(t.rest[i + 1]) \subseteq ToSet(next[s.stack[i]])
         /\ Len(t.rest[i + 1]) <= Len(next[s.stack[i]])
  <2>1. \A i \in 1 .. l : i \in Nat /\ i + 1 \in 1 .. l + 1
    BY <1>6
  <2>2. \A i \in 1 .. Len(t.stack) :
         /\ t.stack[i] \notin t.visited
         /\ \A j \in 1 .. Len(t.stack) : t.stack[i] = t.stack[j] => i = j
         /\ i + 1 \in 1 .. Len(t.stack) => t.stack[i + 1] \in ToSet(next[t.stack[i]])
         /\ ToSet(t.rest[i + 1]) \subseteq ToSet(next[t.stack[i]])
         /\ Len(t.rest[i + 1]) <= Len(next[t.stack[i]])
    BY <1>7, Zenon DEF StackInv
  <2> QED
    BY <1>3, <1>7, <2>1, <2>2
<1>13. \A i \in 1 .. l + 1 : i \in 1 .. l \/ i = l + 1
  BY <1>6
<1>14. /\ l + 1 \in 1 .. l + 1 /\ l + 1 \notin 1 .. l /\ l + 2 \notin 1 .. l + 1
       /\ 1 .. l \subseteq 1 .. l + 1 /\ (l + 1) + 1 = l + 2
       /\ \A i \in 1 .. l : i # l => i + 1 \in 1 .. l
  BY <1>6
<1>15. \A i \in 1 .. l + 1 : u.stack[i] = IF i \in 1 .. l THEN s.stack[i] ELSE node
  BY <1>9, <1>13, <1>14
<1>16. ASSUME NEW i \in 1 .. l + 1
       PROVE  /\ u.stack[i] \notin u.visited
              /\ \A j \in 1 .. l + 1 : u.stack[i] = u.stack[j] => i = j
              /\ i + 1 \in 1 .. l + 1 =>
                   u.stack[i + 1] \in ToSet(next[u.stack[i]])
              /\ ToSet(u.rest[i + 1]) \subseteq ToSet(next[u.stack[i]])
              /\ Len(u.rest[i + 1]) <= Len(next[u.stack[i]])
  <2>1. u.stack[i] \notin u.visited
    BY <1>9, <1>10, <1>12, <1>15
  <2>2. ASSUME NEW j \in 1 .. l + 1, u.stack[i] = u.stack[j] PROVE i = j
    BY <1>10, <1>12, <1>13, <1>15, <2>2
  <2>3. CASE i = l + 1
    <3>1. Len(next[node]) \in Nat /\ i + 1 = l + 2
      BY <1>6, <1>7, <2>3
    <3>2. u.rest[i + 1] = next[node] /\ u.stack[i] = node
      BY <1>9, <2>3, <3>1
    <3>3. Len(u.rest[i + 1]) <= Len(next[u.stack[i]])
      BY <3>1, <3>2
    <3>4. i + 1 \notin 1 .. l + 1
      BY <1>14, <3>1
    <3> QED
      BY <2>1, <2>2, <3>2, <3>3, <3>4
  <2>4. CASE i \in 1 .. l
    <3>1. u.stack[i] = s.stack[i] /\ u.rest[i + 1] = t.rest[i + 1]
      BY <1>9, <1>12, <2>4
    <3>2. u.stack[i + 1] \in ToSet(next[s.stack[i]])
      <4>1. CASE i = l
        <5>1. l > 0
          BY <1>6, <2>4, <4>1
        <5> QED
          BY <1>9, <1>11, <4>1, <5>1
      <4>2. CASE i # l
        BY <1>9, <1>12, <1>14, <2>4, <4>2
      <4> QED
        BY <4>1, <4>2
    <3>3. /\ ToSet(u.rest[i + 1]) \subseteq ToSet(next[u.stack[i]])
          /\ Len(u.rest[i + 1]) <= Len(next[u.stack[i]])
      BY <1>12, <2>4, <3>1
    <3> QED
      BY <2>1, <2>2, <3>1, <3>2, <3>3
  <2> QED
    BY <1>13, <2>3, <2>4
<1>17. StackInv(u, next)
  <2>1. Len(u.rest) = Len(u.stack) + 1
    BY <1>6, <1>9
  <2> QED
    BY <1>9, <1>16, <2>1 DEF StackInv
<1>18. \A i \in 1 .. l : \A d \in ToSet(next[s.stack[i]]) :
         \/ d \in s.visited \/ d \in ToSet(t.rest[i + 1])
         \/ i + 1 \in 1 .. l /\ d = s.stack[i + 1]
         \/ i = l /\ d = node
  BY <1>3, <1>5 DEF TakenInv
<1>19. \A r \in ToSet(order) :
         \/ r \in s.visited \/ r \in ToSet(t.rest[1])
         \/ 1 \in 1 .. l /\ r = s.stack[1]
         \/ l = 0 /\ r = node
  BY <1>3, <1>5 DEF TakenInv
<1>20. ASSUME NEW i \in 1 .. l + 1, NEW d \in ToSet(next[u.stack[i]])
       PROVE  \/ d \in u.visited \/ d \in ToSet(u.rest[i + 1])
              \/ i + 1 \in 1 .. l + 1 /\ d = u.stack[i + 1]
  <2>1. CASE i = l + 1
    <3>1. i + 1 = l + 2
      BY <1>14, <2>1
    <3> QED
      BY <1>9, <1>20, <2>1, <3>1
  <2>2. CASE i \in 1 .. l
    <3>1. /\ u.stack[i] = s.stack[i] /\ u.rest[i + 1] = t.rest[i + 1]
          /\ i + 1 \in 1 .. l + 1
      BY <1>9, <1>12, <2>2
    <3>2. i + 1 \in 1 .. l => u.stack[i + 1] = s.stack[i + 1]
      BY <1>9
    <3>3. i = l => u.stack[i + 1] = node
      BY <1>9
    <3> QED
      BY <1>9, <1>18, <1>20, <2>2, <3>1, <3>2, <3>3
  <2> QED
    BY <1>13, <2>1, <2>2
<1>21. ASSUME NEW r \in ToSet(order)
       PROVE  \/ r \in u.visited \/ r \in ToSet(u.rest[1])
              \/ 1 \in 1 .. l + 1 /\ r = u.stack[1]
  <2>1. 1 \in 1 .. l + 1 /\ u.rest[1] = t.rest[1]
    BY <1>6, <1>9
  <2>2. 1 \in 1 .. l => u.stack[1] = s.stack[1]
    BY <1>9
  <2>3. l = 0 => u.stack[1] = node
    <3>1. l = 0 => l + 1 = 1
      OBVIOUS
    <3> QED
      BY <1>9, <3>1
  <2> QED
    BY <1>9, <1>19, <2>1, <2>2, <2>3
<1>22. AccountInv(u, order, next)
  BY <1>9, <1>20, <1>21 DEF AccountInv
<1>23. SearchInv(u, order, next)
  BY <1>6, <1>8, <1>9, <1>17, <1>22 DEF SearchInv
<1> QED
  BY <1>4, <1>23

\* The elements of a sequence with one less.
LEMMA FrontFacts ==
  ASSUME NEW S, NEW seq \in Seq(S), Len(seq) > 0
  PROVE  /\ Front(seq) \in Seq(S) /\ Len(Front(seq)) = Len(seq) - 1
         /\ \A i \in 1 .. Len(seq) - 1 : Front(seq)[i] = seq[i]
<1>1. /\ Len(seq) \in Nat /\ Len(seq) - 1 \in Int /\ (Len(seq) - 1) - 1 + 1 = Len(seq) - 1
      /\ \A i \in Int : 1 + i - 1 = i
  OBVIOUS
<1>2. \A i \in 1 .. Len(seq) - 1 : seq[i] \in S
  OBVIOUS
<1>3. 1 <= (Len(seq) - 1) + 1
  BY <1>1
<1> DEFINE n == Len(seq) - 1
<1>4. /\ SubSeq(seq, 1, n) \in Seq(S)
      /\ Len(SubSeq(seq, 1, n)) = IF 1 <= n THEN n - 1 + 1 ELSE 0
      /\ \A i \in 1 .. n - 1 + 1 : SubSeq(seq, 1, n)[i] = seq[1 + i - 1]
  BY <1>1, <1>2, SubSeqProperties
<1> QED
  BY <1>1, <1>4 DEF Front

\* A node that points only to ranked ones can be ranked above them.
LEMMA OneMoreRanked ==
  ASSUME NEW V, NEW next, NEW n, Ranked(V, next), ToSet(next[n]) \subseteq V,
         n \notin V
  PROVE  Ranked(V \cup {n}, next)
<1>1. PICK m \in Nat : \E rank \in [V -> 0 .. m] :
        \A v \in V : \A d \in ToSet(next[v]) : d \in V /\ rank[d] < rank[v]
  BY DEF Ranked
<1>2. PICK rank \in [V -> 0 .. m] :
        \A v \in V : \A d \in ToSet(next[v]) : d \in V /\ rank[d] < rank[v]
  BY <1>1
<1> DEFINE above == [v \in V \cup {n} |-> IF v = n THEN m + 1 ELSE rank[v]]
<1>3. above \in [V \cup {n} -> 0 .. m + 1] /\ m + 1 \in Nat
  OBVIOUS
<1>4. /\ \A v \in V : above[v] = rank[v] /\ rank[v] \in 0 .. m
      /\ above[n] = m + 1
  OBVIOUS
<1> HIDE DEF above
<1>5. ASSUME NEW v \in V \cup {n}, NEW d \in ToSet(next[v])
      PROVE  d \in V \cup {n} /\ above[d] < above[v]
  <2>1. CASE v = n
    <3>1. d \in V
      BY <1>5, <2>1
    <3> QED
      BY <1>4, <2>1, <3>1
  <2>2. CASE v \in V
    <3>1. d \in V /\ rank[d] < rank[v]
      BY <1>2, <1>5, <2>2
    <3> QED
      BY <1>4, <2>2, <3>1
  <2> QED
    BY <2>1, <2>2
<1> QED
  BY <1>3, <1>5 DEF Ranked

\* What the step does to the two sequences.
ReturnedAt(s, u, l) ==
  /\ l \in Nat /\ l > 0 /\ u.visited = s.visited \cup {s.stack[l]} /\ u.cycle = <<>>
  /\ Len(u.stack) = l - 1 /\ Len(u.rest) = l
  /\ \A i \in 1 .. l - 1 : u.stack[i] = s.stack[i]
  /\ \A i \in 1 .. l : u.rest[i] = s.rest[i]

\* These are the positions before and after.
LEMMA ReturnFacts ==
  ASSUME NEW N, NEW next \in [N -> Seq(N)], NEW order,
         NEW s, SearchInv(s, order, next), s.cycle = <<>>, s.stack # <<>>
  PROVE  /\ ReturnedAt(s, Return(s), Len(s.stack))
         /\ Return(s) \in SearchState(N)
<1>1. PICK l : l = Len(s.stack)
  OBVIOUS
<1>2. PICK u : u = Return(s)
  OBVIOUS
<1>3. /\ s \in SearchState(N) /\ s.stack \in Seq(N) /\ s.rest \in Seq(Seq(N))
      /\ s.cycle \in Seq(N) /\ s.visited \in SUBSET N
      /\ l \in Nat /\ Len(s.rest) = l + 1 /\ DOMAIN next = N
      /\ StackInv(s, next) /\ AccountInv(s, order, next)
      /\ Ranked(s.visited, next)
  BY <1>1, SearchFacts DEF SearchState
<1>4. /\ l > 0 /\ l - 1 \in Nat /\ l \in 1 .. l /\ (l + 1) - 1 = l
      /\ (l - 1) + 1 = l
      /\ \A i \in 1 .. l - 1 : i \in 1 .. l /\ i + 1 \in 1 .. l /\ i # l
      /\ \A i \in 1 .. l - 1 : i + 1 \in 1 .. l - 1 \/ i + 1 = l
  <2>1. l \in Nat
    BY <1>3
  <2>2. l > 0
    BY <1>1, <1>3
  <2> QED
    BY <2>1, <2>2
<1>5. PICK top : top = s.stack[l]
  OBVIOUS
<1>6. Last(s.stack) = top /\ top \in N
  BY <1>1, <1>3, <1>4, <1>5 DEF Last
<1>7. /\ Front(s.stack) \in Seq(N) /\ Len(Front(s.stack)) = l - 1
      /\ \A i \in 1 .. l - 1 : Front(s.stack)[i] = s.stack[i]
  BY <1>1, <1>3, <1>4, FrontFacts
<1>8. /\ Front(s.rest) \in Seq(Seq(N)) /\ Len(Front(s.rest)) = l
      /\ \A i \in 1 .. l : Front(s.rest)[i] = s.rest[i]
  <2>1. Len(s.rest) > 0
    BY <1>3
  <2> QED
    BY <1>3, <1>4, <2>1, FrontFacts
<1>9. /\ u.stack = Front(s.stack) /\ u.rest = Front(s.rest)
      /\ u.visited = s.visited \cup {top} /\ u.cycle = <<>>
      /\ u \in SearchState(N)
  BY <1>2, <1>3, <1>6, <1>7, <1>8 DEF Return, SearchState
<1> QED
  BY <1>1, <1>2, <1>4, <1>5, <1>7, <1>8, <1>9 DEF ReturnedAt

\* A node whose successors have all been visited has been visited.
LEMMA ReturnSearches ==
  ASSUME NEW N, NEW next \in [N -> Seq(N)], NEW order,
         NEW s, SearchInv(s, order, next), s.cycle = <<>>, Last(s.rest) = <<>>,
         s.stack # <<>>
  PROVE  SearchInv(Return(s), order, next)
<1>1. PICK l : l = Len(s.stack)
  OBVIOUS
<1>2. PICK u : u = Return(s)
  OBVIOUS
<1>3. /\ s \in SearchState(N) /\ s.stack \in Seq(N) /\ s.rest \in Seq(Seq(N))
      /\ s.cycle \in Seq(N) /\ s.visited \in SUBSET N
      /\ l \in Nat /\ Len(s.rest) = l + 1 /\ DOMAIN next = N
      /\ StackInv(s, next) /\ AccountInv(s, order, next)
      /\ Ranked(s.visited, next)
  BY <1>1, SearchFacts DEF SearchState
<1>4. /\ l > 0 /\ l - 1 \in Nat /\ l \in 1 .. l /\ (l + 1) - 1 = l
      /\ (l - 1) + 1 = l
      /\ \A i \in 1 .. l - 1 : i \in 1 .. l /\ i + 1 \in 1 .. l /\ i # l
      /\ \A i \in 1 .. l - 1 : i + 1 \in 1 .. l - 1 \/ i + 1 = l
  <2>1. l \in Nat
    BY <1>3
  <2>2. l > 0
    BY <1>1, <1>3
  <2> QED
    BY <2>1, <2>2
<1>5. PICK top : top = s.stack[l]
  OBVIOUS
<1>6. s.rest[l + 1] = <<>>
  BY <1>3 DEF Last
<1>7. ReturnedAt(s, u, l) /\ u \in SearchState(N)
  BY <1>1, <1>2, <1>3, ReturnFacts
<1>8. /\ Len(u.stack) = l - 1 /\ Len(u.rest) = l
      /\ \A i \in 1 .. l - 1 : u.stack[i] = s.stack[i]
      /\ \A i \in 1 .. l : u.rest[i] = s.rest[i]
      /\ u.visited = s.visited \cup {top} /\ u.cycle = <<>>
  BY <1>5, <1>7 DEF ReturnedAt
<1>9. \A i \in 1 .. l :
        /\ s.stack[i] \notin s.visited
        /\ \A j \in 1 .. l : s.stack[i] = s.stack[j] => i = j
        /\ i + 1 \in 1 .. l => s.stack[i + 1] \in ToSet(next[s.stack[i]])
        /\ ToSet(s.rest[i + 1]) \subseteq ToSet(next[s.stack[i]])
        /\ Len(s.rest[i + 1]) <= Len(next[s.stack[i]])
  BY <1>1, <1>3, Zenon DEF StackInv
<1>10. /\ \A i \in 1 .. l : \A d \in ToSet(next[s.stack[i]]) :
            \/ d \in s.visited \/ d \in ToSet(s.rest[i + 1])
            \/ i + 1 \in 1 .. l /\ d = s.stack[i + 1]
       /\ \A r \in ToSet(order) :
            \/ r \in s.visited \/ r \in ToSet(s.rest[1])
            \/ 1 \in 1 .. l /\ r = s.stack[1]
  BY <1>1, <1>3, Zenon DEF AccountInv
<1>11. Ranked(s.visited \cup {top}, next)
  <2>1. ToSet(<<>>) = {}
    BY DEF ToSet
  <2>2. l + 1 \notin 1 .. l
    BY <1>3
  <2>3. ToSet(next[top]) \subseteq s.visited
    BY <1>4, <1>5, <1>6, <1>10, <2>1, <2>2
  <2>4. top \notin s.visited
    BY <1>4, <1>5, <1>9
  <2> QED
    BY <1>3, <2>3, <2>4, OneMoreRanked
<1>12. ASSUME NEW i \in 1 .. l - 1
       PROVE  /\ u.stack[i] \notin u.visited
              /\ \A j \in 1 .. l - 1 : u.stack[i] = u.stack[j] => i = j
              /\ i + 1 \in 1 .. l - 1 =>
                   u.stack[i + 1] \in ToSet(next[u.stack[i]])
              /\ ToSet(u.rest[i + 1]) \subseteq ToSet(next[u.stack[i]])
              /\ Len(u.rest[i + 1]) <= Len(next[u.stack[i]])
  <2>1. u.stack[i] = s.stack[i] /\ u.rest[i + 1] = s.rest[i + 1]
    BY <1>4, <1>8
  <2>2. s.stack[i] # top
    BY <1>4, <1>5, <1>9
  <2>3. u.stack[i] \notin u.visited
    BY <1>4, <1>8, <1>9, <2>1, <2>2
  <2>4. \A j \in 1 .. l - 1 : u.stack[i] = u.stack[j] => i = j
    BY <1>4, <1>8, <1>9, <2>1
  <2>5. i + 1 \in 1 .. l - 1 => u.stack[i + 1] \in ToSet(next[u.stack[i]])
    BY <1>4, <1>8, <1>9, <2>1
  <2> QED
    BY <1>4, <1>9, <2>1, <2>3, <2>4, <2>5
<1>13. StackInv(u, next)
  <2>1. Len(u.rest) = Len(u.stack) + 1
    BY <1>4, <1>8
  <2> QED
    BY <1>8, <1>12, <2>1 DEF StackInv
<1>14. ASSUME NEW i \in 1 .. l - 1, NEW d \in ToSet(next[u.stack[i]])
       PROVE  \/ d \in u.visited \/ d \in ToSet(u.rest[i + 1])
              \/ i + 1 \in 1 .. l - 1 /\ d = u.stack[i + 1]
  <2>1. u.stack[i] = s.stack[i] /\ u.rest[i + 1] = s.rest[i + 1]
    BY <1>4, <1>8
  <2>2. \/ d \in s.visited \/ d \in ToSet(s.rest[i + 1])
        \/ i + 1 \in 1 .. l /\ d = s.stack[i + 1]
    BY <1>4, <1>10, <1>14, <2>1
  <2>3. CASE i + 1 \in 1 .. l - 1
    <3>1. u.stack[i + 1] = s.stack[i + 1]
      BY <1>8, <2>3
    <3> QED
      BY <1>8, <2>1, <2>2, <2>3, <3>1
  <2>4. CASE i + 1 = l
    BY <1>5, <1>8, <2>1, <2>2, <2>4
  <2> QED
    BY <1>4, <2>3, <2>4
<1>15. ASSUME NEW r \in ToSet(order)
       PROVE  \/ r \in u.visited \/ r \in ToSet(u.rest[1])
              \/ 1 \in 1 .. l - 1 /\ r = u.stack[1]
  <2>1. 1 \in 1 .. l /\ u.rest[1] = s.rest[1]
    BY <1>3, <1>4, <1>8
  <2>2. \/ r \in s.visited \/ r \in ToSet(s.rest[1])
        \/ 1 \in 1 .. l /\ r = s.stack[1]
    BY <1>10
  <2>3. CASE l = 1
    BY <1>5, <1>8, <2>1, <2>2, <2>3
  <2>4. CASE l # 1
    <3>1. 1 \in 1 .. l - 1
      BY <1>3, <1>4, <2>4
    <3>2. u.stack[1] = s.stack[1]
      BY <1>8, <3>1
    <3> QED
      BY <1>8, <2>1, <2>2, <3>1, <3>2
  <2> QED
    BY <2>3, <2>4
<1>16. AccountInv(u, order, next)
  BY <1>8, <1>14, <1>15 DEF AccountInv
<1>17. SearchInv(u, order, next)
  BY <1>3, <1>7, <1>8, <1>11, <1>13, <1>16 DEF SearchInv
<1> QED
  BY <1>2, <1>17

\* The search has found a cycle or has nothing left to visit.
SearchEnded(s) ==
  s.cycle # <<>> \/ (s.stack = <<>> /\ Last(s.rest) = <<>>)

\* A step keeps the invariant.
LEMMA StepSearches ==
  ASSUME NEW N, NEW next \in [N -> Seq(N)], NEW order,
         NEW s, SearchInv(s, order, next)
  PROVE  /\ SearchInv(SearchStep(s, next), order, next)
         /\ SearchEnded(s) => SearchStep(s, next) = s
<1>1. CASE SearchEnded(s)
  BY <1>1 DEF SearchEnded, SearchStep
<1>2. CASE s.cycle = <<>> /\ Last(s.rest) # <<>>
  <2>1. SearchStep(s, next) = Visit(s, next) /\ ~SearchEnded(s)
    BY <1>2 DEF SearchEnded, SearchStep
  <2>2. CASE Contains(s.stack, Head(Last(s.rest)))
    BY <1>2, <2>1, <2>2, VisitCloses
  <2>3. CASE /\ ~Contains(s.stack, Head(Last(s.rest)))
             /\ Head(Last(s.rest)) \in s.visited
    <3>1. Visit(s, next) = Taken(s)
      BY <2>3 DEF Visit, Taken
    <3> QED
      BY <1>2, <2>1, <2>3, <3>1, VisitSkips
  <2>4. CASE /\ ~Contains(s.stack, Head(Last(s.rest)))
             /\ Head(Last(s.rest)) \notin s.visited
    <3>1. Visit(s, next) = Entered(s, next)
      BY <2>4 DEF Visit, Taken, Entered
    <3> QED
      BY <1>2, <2>1, <2>4, <3>1, VisitEnters
  <2> QED
    BY <2>2, <2>3, <2>4
<1>3. CASE s.cycle = <<>> /\ Last(s.rest) = <<>> /\ s.stack # <<>>
  <2>1. SearchStep(s, next) = Return(s) /\ ~SearchEnded(s)
    BY <1>3 DEF SearchEnded, SearchStep
  <2> QED
    BY <1>3, <2>1, ReturnSearches
<1> QED
  BY <1>1, <1>2, <1>3 DEF SearchEnded

-----------------------------------------------------------------------------
(***************************************************************************)
(* The search ends.  Every step that finds no cycle leaves less work.      *)
(***************************************************************************)
\* Every node with the numbers of successors that can be left to visit, and
\* those that a search has before it.
Lines(next) == UNION {{n} \X (0 .. Len(next[n])) : n \in DOMAIN next}

ToCome(s, next) ==
  {p \in Lines(next) :
     /\ p[1] \notin s.visited
     /\ \A j \in 1 .. Len(s.stack) :
          s.stack[j] = p[1] => p[2] <= Len(s.rest[j + 1])}

Work(s, next) == Len(s.rest[1]) + Cardinality(ToCome(s, next))

\* There are finitely many.
LEMMA LinesAreFinite ==
  ASSUME NEW N, IsFiniteSet(N), NEW next \in [N -> Seq(N)]
  PROVE  IsFiniteSet(Lines(next))
<1> DEFINE F == [n \in N |-> {n} \X (0 .. Len(next[n]))]
           S == {{n} \X (0 .. Len(next[n])) : n \in N}
<1>1. F \in Surjection(N, S)
  BY DEF Surjection
<1>2. IsFiniteSet(S)
  BY <1>1, FS_Surjection
<1>3. \A T \in S : IsFiniteSet(T)
  <2> SUFFICES ASSUME NEW n \in N PROVE IsFiniteSet({n} \X (0 .. Len(next[n])))
    OBVIOUS
  <2>1. 0 \in Int /\ Len(next[n]) \in Int
    OBVIOUS
  <2>2. IsFiniteSet({n}) /\ IsFiniteSet(0 .. Len(next[n]))
    BY <2>1, FS_Singleton, FS_Interval
  <2> QED
    BY <2>2, FS_Product
<1>4. Lines(next) = UNION S
  BY DEF Lines
<1> HIDE DEF S
<1> QED
  BY <1>2, <1>3, <1>4, FS_UNION

\* Less work is left when something to come no longer is.
LEMMA LessToCome ==
  ASSUME NEW N, IsFiniteSet(N), NEW next \in [N -> Seq(N)],
         NEW s, NEW u, ToCome(u, next) \subseteq ToCome(s, next)
  PROVE  /\ Cardinality(ToCome(s, next)) \in Nat
         /\ Cardinality(ToCome(u, next)) \in Nat
         /\ Cardinality(ToCome(u, next)) <= Cardinality(ToCome(s, next))
         /\ ToCome(u, next) # ToCome(s, next) =>
              Cardinality(ToCome(u, next)) + 1 <= Cardinality(ToCome(s, next))
<1>1. ToCome(s, next) \in SUBSET Lines(next)
  BY DEF ToCome
<1>2. IsFiniteSet(ToCome(s, next))
  BY <1>1, LinesAreFinite, FS_Subset
<1>3. /\ IsFiniteSet(ToCome(u, next))
      /\ Cardinality(ToCome(u, next)) <= Cardinality(ToCome(s, next))
      /\ Cardinality(ToCome(s, next)) = Cardinality(ToCome(u, next)) =>
           ToCome(s, next) = ToCome(u, next)
  BY <1>2, FS_Subset
<1>4. Cardinality(ToCome(s, next)) \in Nat /\ Cardinality(ToCome(u, next)) \in Nat
  BY <1>2, <1>3, FS_CardinalityType
<1> QED
  BY <1>3, <1>4

\* Taking a node out of the line is work done.
LEMMA TakenLowers ==
  ASSUME NEW N, IsFiniteSet(N), NEW next \in [N -> Seq(N)], NEW order,
         NEW s, SearchInv(s, order, next), s.cycle = <<>>, Last(s.rest) # <<>>
  PROVE  Work(Taken(s), next) + 1 <= Work(s, next)
<1>1. PICK l : l = Len(s.stack)
  OBVIOUS
<1>2. PICK t : t = Taken(s)
  OBVIOUS
<1>3. /\ s \in SearchState(N) /\ l \in Nat /\ Len(s.rest) = l + 1
      /\ \A i \in 1 .. l + 1 : Len(s.rest[i]) \in Nat
      /\ \A i \in 1 .. l : s.stack[i] \in N /\ Len(next[s.stack[i]]) \in Nat
      /\ StackInv(s, next) /\ DOMAIN next = N
  BY <1>1, SearchFacts
<1>4. /\ t.stack = s.stack /\ t.visited = s.visited
      /\ \A i \in 1 .. l + 1 : i # l + 1 => t.rest[i] = s.rest[i]
      /\ Len(t.rest[l + 1]) = Len(s.rest[l + 1]) - 1
  <2>1. /\ \A i \in 1 .. Len(s.rest) : i # Len(s.rest) => t.rest[i] = s.rest[i]
        /\ Len(t.rest[Len(s.rest)]) = Len(s.rest[Len(s.rest)]) - 1
        /\ t.stack = s.stack /\ t.visited = s.visited
    <3>1. Len(s.rest) = Len(s.stack) + 1
      BY <1>1, <1>3
    <3>2. t.rest = [s.rest EXCEPT ![Len(s.rest)] = Tail(@)]
          /\ t.stack = s.stack /\ t.visited = s.visited
      BY <1>2, <1>3 DEF Taken, SearchState
    <3> QED
      BY <1>3, <3>1, <3>2, NextInLine
  <2> QED
    BY <1>3, <2>1
<1>5. l + 1 \in 1 .. l + 1 /\ 1 \in 1 .. l + 1
      /\ \A i \in 1 .. l : i + 1 \in 1 .. l + 1 /\ (i # l => i + 1 # l + 1)
  BY <1>3
<1>6. Len(s.rest[l + 1]) \in Nat /\ Len(t.rest[l + 1]) \in Int
  BY <1>3, <1>4, <1>5
<1>7. \A i \in 1 .. l + 1 : /\ Len(s.rest[i]) \in Nat /\ Len(t.rest[i]) \in Int
                            /\ Len(t.rest[i]) <= Len(s.rest[i])
  BY <1>3, <1>4, <1>6
<1>8. ToCome(t, next) \subseteq ToCome(s, next)
  <2> SUFFICES ASSUME NEW p \in ToCome(t, next) PROVE p \in ToCome(s, next)
    OBVIOUS
  <2>1. /\ p \in Lines(next) /\ p[1] \notin s.visited
        /\ \A j \in 1 .. l : s.stack[j] = p[1] => p[2] <= Len(t.rest[j + 1])
    BY <1>1, <1>4 DEF ToCome
  <2>2. p[2] \in Nat
    BY <2>1 DEF Lines
  <2>3. ASSUME NEW j \in 1 .. l, s.stack[j] = p[1]
        PROVE  p[2] <= Len(s.rest[j + 1])
    <3>1. p[2] <= Len(t.rest[j + 1]) /\ j + 1 \in 1 .. l + 1
      BY <1>5, <2>1, <2>3
    <3> QED
      BY <1>7, <2>2, <3>1
  <2> QED
    BY <1>1, <2>1, <2>3 DEF ToCome
<1>9. /\ Cardinality(ToCome(s, next)) \in Nat
      /\ Cardinality(ToCome(t, next)) \in Nat
      /\ Cardinality(ToCome(t, next)) <= Cardinality(ToCome(s, next))
      /\ ToCome(t, next) # ToCome(s, next) =>
           Cardinality(ToCome(t, next)) + 1 <= Cardinality(ToCome(s, next))
  BY <1>8, LessToCome
<1>10. CASE l = 0
  BY <1>2, <1>4, <1>6, <1>9, <1>10 DEF Work
<1>11. CASE l # 0
  <2>1. l \in 1 .. l /\ 1 # l + 1
    BY <1>3, <1>11
  <2> DEFINE p == <<s.stack[l], Len(s.rest[l + 1])>>
  <2>2. p[1] = s.stack[l] /\ p[2] = Len(s.rest[l + 1])
    OBVIOUS
  <2>3. p \in Lines(next)
    <3>1. s.stack[l] \in N /\ Len(s.rest[l + 1]) \in 0 .. Len(next[s.stack[l]])
      BY <1>1, <1>3, <1>6, <2>1 DEF StackInv
    <3> QED
      BY <1>3, <3>1 DEF Lines
  <2> HIDE DEF p
  <2>4. s.stack[l] \notin s.visited
        /\ \A j \in 1 .. l : s.stack[j] = s.stack[l] => j = l
    BY <1>1, <1>3, <2>1 DEF StackInv
  <2>5. p \in ToCome(s, next)
    BY <1>1, <1>6, <2>2, <2>3, <2>4 DEF ToCome
  <2>6. p \notin ToCome(t, next)
    <3> SUFFICES ASSUME p \in ToCome(t, next) PROVE FALSE
      OBVIOUS
    <3>1. p[2] <= Len(t.rest[l + 1])
      BY <1>1, <1>4, <2>1, <2>2 DEF ToCome
    <3> QED
      BY <1>4, <1>6, <2>2, <3>1
  <2>7. t.rest[1] = s.rest[1] /\ Len(s.rest[1]) \in Nat
    BY <1>3, <1>4, <1>5, <2>1
  <2> QED
    BY <1>2, <1>9, <2>5, <2>6, <2>7 DEF Work
<1> QED
  BY <1>10, <1>11

\* Putting it on the stack takes no work: what comes now came before.
LEMMA EnteredLowers ==
  ASSUME NEW N, IsFiniteSet(N), NEW next \in [N -> Seq(N)], NEW order,
         NEW s, SearchInv(s, order, next), s.cycle = <<>>, Last(s.rest) # <<>>
  PROVE  Work(Entered(s, next), next) = Work(Taken(s), next)
<1>1. PICK l : l = Len(s.stack)
  OBVIOUS
<1>2. PICK t : t = Taken(s)
  OBVIOUS
<1>3. PICK u : u = Entered(s, next)
  OBVIOUS
<1>4. PICK node : node = Head(Last(s.rest))
  OBVIOUS
<1>5. TakenInv(s, t, node, order, next)
  BY <1>2, <1>4, TakenIsSound
<1>6. EnteredAt(s, u, node, l, t, next)
  BY <1>1, <1>2, <1>3, <1>4, EnteredFacts
<1>7. l \in Nat /\ DOMAIN next = N
  BY <1>1, SearchFacts
<1>8. t.stack = s.stack /\ t.visited = s.visited
  BY <1>5 DEF TakenInv
<1>9. /\ u.visited = s.visited
      /\ Len(u.stack) = l + 1 /\ u.stack[l + 1] = node /\ u.rest[l + 2] = next[node]
      /\ \A i \in 1 .. l : u.stack[i] = s.stack[i]
      /\ \A i \in 1 .. l + 1 : u.rest[i] = t.rest[i]
  BY <1>6 DEF EnteredAt
<1>10. /\ 1 \in 1 .. l + 1 /\ (l + 1) + 1 = l + 2
       /\ \A i \in 1 .. l : i \in 1 .. l + 1 /\ i + 1 \in 1 .. l + 1
       /\ \A i \in 1 .. l + 1 : i \in 1 .. l \/ i = l + 1
  BY <1>7
<1>11. ASSUME NEW p \in Lines(next)
       PROVE  (\A j \in 1 .. l + 1 : u.stack[j] = p[1] => p[2] <= Len(u.rest[j + 1]))
              <=> (\A j \in 1 .. l : s.stack[j] = p[1] => p[2] <= Len(t.rest[j + 1]))
  <2>1. \A j \in 1 .. l : u.stack[j] = s.stack[j] /\ u.rest[j + 1] = t.rest[j + 1]
    BY <1>9, <1>10
  <2>2. u.stack[l + 1] = p[1] => p[2] <= Len(u.rest[(l + 1) + 1])
    BY <1>9, <1>10 DEF Lines
  <2> QED
    BY <1>10, <2>1, <2>2
<1>12. ToCome(u, next) = ToCome(t, next)
  BY <1>1, <1>8, <1>9, <1>11 DEF ToCome
<1>13. u.rest[1] = t.rest[1]
  BY <1>9, <1>10
<1> QED
  BY <1>2, <1>3, <1>12, <1>13 DEF Work

\* Returning from a node is work done.
LEMMA ReturnLowers ==
  ASSUME NEW N, IsFiniteSet(N), NEW next \in [N -> Seq(N)], NEW order,
         NEW s, SearchInv(s, order, next), s.cycle = <<>>, Last(s.rest) = <<>>,
         s.stack # <<>>
  PROVE  Work(Return(s), next) + 1 <= Work(s, next)
<1>1. PICK l : l = Len(s.stack)
  OBVIOUS
<1>2. PICK u : u = Return(s)
  OBVIOUS
<1>3. /\ Len(s.rest) = l + 1 /\ DOMAIN next = N /\ l \in Nat
      /\ \A i \in 1 .. l + 1 : Len(s.rest[i]) \in Nat
      /\ \A i \in 1 .. l : s.stack[i] \in N /\ Len(next[s.stack[i]]) \in Nat
      /\ StackInv(s, next)
  BY <1>1, SearchFacts
<1>4. ReturnedAt(s, u, l)
  BY <1>1, <1>2, ReturnFacts
<1>5. /\ l > 0 /\ u.visited = s.visited \cup {s.stack[l]}
      /\ Len(u.stack) = l - 1
      /\ \A i \in 1 .. l - 1 : u.stack[i] = s.stack[i]
      /\ \A i \in 1 .. l : u.rest[i] = s.rest[i]
  BY <1>4 DEF ReturnedAt
<1>6. /\ l \in 1 .. l /\ 1 \in 1 .. l /\ l + 1 \in 1 .. l + 1 /\ 1 \in 1 .. l + 1
      /\ \A i \in 1 .. l : i \in 1 .. l - 1 \/ i = l
      /\ \A i \in 1 .. l - 1 : i + 1 \in 1 .. l
  BY <1>3, <1>5
<1>7. ToCome(u, next) \subseteq ToCome(s, next)
  <2> SUFFICES ASSUME NEW p \in ToCome(u, next) PROVE p \in ToCome(s, next)
    OBVIOUS
  <2>1. /\ p \in Lines(next) /\ p[1] \notin s.visited /\ p[1] # s.stack[l]
        /\ \A j \in 1 .. l - 1 : u.stack[j] = p[1] => p[2] <= Len(u.rest[j + 1])
    BY <1>5 DEF ToCome
  <2>2. \A j \in 1 .. l - 1 : u.stack[j] = s.stack[j] /\ u.rest[j + 1] = s.rest[j + 1]
    BY <1>5, <1>6
  <2>3. \A j \in 1 .. l : s.stack[j] = p[1] => p[2] <= Len(s.rest[j + 1])
    BY <1>6, <2>1, <2>2
  <2> QED
    BY <1>1, <2>1, <2>3 DEF ToCome
<1>8. PICK p : p = <<s.stack[l], 0>>
  OBVIOUS
<1>9. p[1] = s.stack[l] /\ p[2] = 0 /\ p \in Lines(next)
  <2>1. s.stack[l] \in N /\ 0 \in 0 .. Len(next[s.stack[l]])
    BY <1>3, <1>6
  <2> QED
    BY <1>3, <1>8, <2>1 DEF Lines
<1>10. p \in ToCome(s, next) /\ p \notin ToCome(u, next)
  <2>1. s.stack[l] \notin s.visited
    BY <1>1, <1>3, <1>6 DEF StackInv
  <2>2. \A j \in 1 .. l : 0 <= Len(s.rest[j + 1])
    <3> SUFFICES ASSUME NEW j \in 1 .. l PROVE 0 <= Len(s.rest[j + 1])
      OBVIOUS
    <3>1. j + 1 \in 1 .. l + 1
      BY <1>3
    <3> QED
      BY <1>3, <3>1
  <2> QED
    BY <1>1, <1>5, <1>9, <2>1, <2>2 DEF ToCome
<1>11. /\ Cardinality(ToCome(s, next)) \in Nat
       /\ Cardinality(ToCome(u, next)) \in Nat
       /\ Cardinality(ToCome(u, next)) + 1 <= Cardinality(ToCome(s, next))
  BY <1>7, <1>10, LessToCome
<1>12. u.rest[1] = s.rest[1] /\ Len(s.rest[1]) \in Nat
  BY <1>3, <1>5, <1>6
<1>13. /\ Work(s, next) = Len(s.rest[1]) + Cardinality(ToCome(s, next))
       /\ Work(u, next) = Len(s.rest[1]) + Cardinality(ToCome(u, next))
  BY <1>12 DEF Work
<1>14. Work(u, next) + 1 <= Work(s, next)
  BY <1>11, <1>12, <1>13
<1> QED
  BY <1>2, <1>14

\* A step either ends the search or is one of the steps left.
LEMMA StepLowers ==
  ASSUME NEW N, IsFiniteSet(N), NEW next \in [N -> Seq(N)], NEW order,
         NEW s, SearchInv(s, order, next), ~SearchEnded(s)
  PROVE  \/ SearchEnded(SearchStep(s, next))
         \/ Work(SearchStep(s, next), next) + 1 <= Work(s, next)
<1>1. CASE s.cycle = <<>> /\ Last(s.rest) # <<>>
  <2>1. SearchStep(s, next) = Visit(s, next)
    BY <1>1 DEF SearchStep
  <2>2. Work(Taken(s), next) + 1 <= Work(s, next)
    BY <1>1, TakenLowers
  <2>3. CASE Contains(s.stack, Head(Last(s.rest)))
    BY <1>1, <2>1, <2>3, VisitCloses DEF SearchEnded
  <2>4. CASE /\ ~Contains(s.stack, Head(Last(s.rest)))
             /\ Head(Last(s.rest)) \in s.visited
    <3>1. Visit(s, next) = Taken(s)
      BY <2>4 DEF Visit, Taken
    <3> QED
      BY <2>1, <2>2, <3>1
  <2>5. CASE /\ ~Contains(s.stack, Head(Last(s.rest)))
             /\ Head(Last(s.rest)) \notin s.visited
    <3>1. Visit(s, next) = Entered(s, next)
      BY <2>5 DEF Visit, Taken, Entered
    <3>2. Work(Entered(s, next), next) = Work(Taken(s), next)
      BY <1>1, EnteredLowers
    <3> QED
      BY <2>1, <2>2, <3>1, <3>2
  <2> QED
    BY <2>3, <2>4, <2>5
<1>2. CASE s.cycle = <<>> /\ Last(s.rest) = <<>> /\ s.stack # <<>>
  <2>1. SearchStep(s, next) = Return(s)
    BY <1>2 DEF SearchStep
  <2> QED
    BY <1>2, <2>1, ReturnLowers
<1> QED
  BY <1>1, <1>2 DEF SearchEnded

\* There is work left until the search has ended.
LEMMA WorkIsCounted ==
  ASSUME NEW N, IsFiniteSet(N), NEW next \in [N -> Seq(N)], NEW order,
         NEW s, SearchInv(s, order, next)
  PROVE  /\ Work(s, next) \in Nat
         /\ ~SearchEnded(s) => Work(s, next) > 0
<1>1. /\ Cardinality(ToCome(s, next)) \in Nat /\ IsFiniteSet(ToCome(s, next))
  <2>1. ToCome(s, next) \in SUBSET Lines(next)
    BY DEF ToCome
  <2>2. IsFiniteSet(ToCome(s, next))
    BY <2>1, LinesAreFinite, FS_Subset
  <2> QED
    BY <2>2, FS_CardinalityType
<1>2. PICK l : l = Len(s.stack)
  OBVIOUS
<1>3. /\ Len(s.rest) = l + 1 /\ DOMAIN next = N /\ l \in Nat
      /\ \A i \in 1 .. l + 1 : Len(s.rest[i]) \in Nat /\ s.rest[i] \in Seq(N)
      /\ \A i \in 1 .. l : s.stack[i] \in N /\ Len(next[s.stack[i]]) \in Nat
      /\ StackInv(s, next) /\ s.stack \in Seq(N)
  BY <1>2, SearchFacts
<1>4. 1 \in 1 .. l + 1 /\ (l > 0 => l \in 1 .. l)
      /\ \A j \in 1 .. l : j + 1 \in 1 .. l + 1
  BY <1>3
<1>5. Len(s.rest[1]) \in Nat /\ s.rest[1] \in Seq(N)
  BY <1>3, <1>4
<1>6. ASSUME ~SearchEnded(s), Work(s, next) = 0 PROVE FALSE
  <2>1. Len(s.rest[1]) = 0 /\ Cardinality(ToCome(s, next)) = 0
    BY <1>1, <1>5, <1>6 DEF Work
  <2>2. ToCome(s, next) = {}
    BY <1>1, <2>1, FS_EmptySet
  <2>3. CASE l = 0
    <3>1. s.stack = <<>> /\ s.rest[1] = <<>>
      <4>1. s.stack = <<>>
        BY <1>2, <1>3, <2>3, EmptySeq
      <4>2. s.rest[1] = <<>>
        BY <1>5, <2>1, EmptySeq
      <4> QED
        BY <4>1, <4>2
    <3>2. Last(s.rest) = s.rest[1]
      BY <1>3, <2>3 DEF Last
    <3> QED
      BY <1>6, <3>1, <3>2 DEF SearchEnded
  <2>4. CASE l > 0
    <3>1. PICK p : p = <<s.stack[l], 0>>
      OBVIOUS
    <3>2. s.stack[l] \in N /\ 0 \in 0 .. Len(next[s.stack[l]])
      BY <1>3, <1>4, <2>4
    <3>3. p \in Lines(next) /\ p[1] = s.stack[l] /\ p[2] = 0
      BY <1>3, <3>1, <3>2 DEF Lines
    <3>4. s.stack[l] \notin s.visited
      BY <1>2, <1>3, <1>4, <2>4 DEF StackInv
    <3>5. \A j \in 1 .. l : 0 <= Len(s.rest[j + 1])
      BY <1>3, <1>4
    <3>6. p \in ToCome(s, next)
      BY <1>2, <3>3, <3>4, <3>5 DEF ToCome
    <3> QED
      BY <2>2, <3>6
  <2> QED
    BY <1>3, <2>3, <2>4
<1>7. Work(s, next) \in Nat
  BY <1>1, <1>5 DEF Work
<1> QED
  BY <1>6, <1>7

\* MaxSteps is the work there is at the start.
LEMMA StartingWork ==
  ASSUME NEW N, IsFiniteSet(N), NEW next \in [N -> Seq(N)], NEW order \in Seq(N)
  PROVE  Work(SearchStart(order), next) = MaxSteps(order, next)
<1>1. PICK s : s = SearchStart(order)
  OBVIOUS
<1>2. s.rest[1] = order /\ s.visited = {} /\ Len(s.stack) = 0
  BY <1>1 DEF SearchStart
<1>3. ToCome(s, next) = Lines(next)
  BY <1>2 DEF ToCome
<1> QED
  BY <1>1, <1>2, <1>3 DEF Work, MaxSteps, Lines

SearchStates(order, next) ==
  {s \in SearchState(DOMAIN next) : SearchInv(s, order, next)}

\* The search has ended after MaxSteps steps.
LEMMA SearchEnds ==
  ASSUME NEW N, IsFiniteSet(N), NEW next \in [N -> Seq(N)], NEW order \in Seq(N)
  PROVE  /\ SearchInv(Search(order, next), order, next)
         /\ SearchEnded(Search(order, next))
<1> DEFINE S == SearchStates(order, next)
           A == [s \in S |-> SearchStep(s, next)]
           a == SearchStart(order)
           M == MaxSteps(order, next)
           g == CHOOSE g : g = [k \in Nat |-> IF k = 0 THEN SearchStart(order)
                                              ELSE SearchStep(g[k - 1], next)]
<1>1. \A s : s \in S <=> SearchInv(s, order, next)
  BY DEF SearchStates, SearchInv
<1>2. A \in [S -> S]
  BY <1>1, StepSearches
<1>3. a \in S
  BY <1>1, StartSearches
<1>4. Search(order, next) = g[M]
  BY Zenon DEF Search
<1>5. \A s \in S : A[s] = SearchStep(s, next)
  OBVIOUS
<1> HIDE DEF S, A, a
<1>6. PICK f \in [Nat -> S] : IsRepetition(f, a, A)
  BY <1>2, <1>3, Repetition
<1>7. f \in [Nat -> S] /\ f = [k \in Nat |-> IF k = 0 THEN a ELSE A[f[k - 1]]]
  BY <1>6 DEF IsRepetition
<1> USE DEF a
<1>8. f \in [Nat -> S]
  BY <1>7
<1>9. ASSUME NEW k \in Nat
      PROVE  f[k] = IF k = 0 THEN SearchStart(order)
                    ELSE SearchStep(f[k - 1], next)
  <2>1. CASE k = 0
    BY <1>7, <2>1
  <2>2. CASE k # 0
    <3>1. k - 1 \in Nat
      BY <2>2
    <3>2. f[k - 1] \in S
      BY <1>8, <3>1
    <3>3. f[k] = A[f[k - 1]]
      BY <1>7, <2>2
    <3> QED
      BY <1>5, <2>2, <3>2, <3>3
  <2> QED
    BY <2>1, <2>2
<1>10. f = [k \in Nat |-> IF k = 0 THEN SearchStart(order)
                          ELSE SearchStep(f[k - 1], next)]
  <2>1. f = [k \in Nat |-> f[k]]
    BY <1>8
  <2> QED
    BY <1>9, <2>1
<1>11. g = [k \in Nat |-> IF k = 0 THEN SearchStart(order)
                          ELSE SearchStep(g[k - 1], next)]
  BY <1>10
<1> HIDE DEF g, M
<1>12. g[0] = a /\ \A n \in Nat : g[n + 1] = SearchStep(g[n], next)
  <2>1. g[0] = a
    BY <1>11
  <2>2. ASSUME NEW n \in Nat PROVE g[n + 1] = SearchStep(g[n], next)
    <3>1. n + 1 \in Nat /\ n + 1 # 0 /\ (n + 1) - 1 = n
      OBVIOUS
    <3> QED
      BY <1>11, <3>1
  <2> QED
    BY <2>1, <2>2
<1> HIDE DEF a
<1>13. Work(a, next) = M /\ M \in Nat
  <2>1. Work(a, next) = M
    BY StartingWork DEF a, M
  <2>2. SearchInv(a, order, next)
    BY <1>1, <1>3
  <2> QED
    BY <2>1, <2>2, WorkIsCounted
<1> DEFINE X == {k \in Nat : /\ SearchInv(g[k], order, next)
                             /\ SearchEnded(g[k]) \/ Work(g[k], next) + k <= M}
<1>14. 0 \in X
  <2>1. SearchInv(g[0], order, next)
    BY <1>1, <1>3, <1>12
  <2>2. Work(g[0], next) + 0 <= M
    BY <1>12, <1>13
  <2> QED
    BY <2>1, <2>2
<1>15. ASSUME NEW n \in Nat, n \in X PROVE n + 1 \in X
  <2>1. SearchInv(g[n], order, next)
    BY <1>15
  <2>2. SearchInv(g[n + 1], order, next)
    BY <1>12, <2>1, StepSearches
  <2>3. SearchEnded(g[n + 1]) \/ Work(g[n + 1], next) + (n + 1) <= M
    <3>1. CASE SearchEnded(g[n])
      BY <1>12, <2>1, <3>1, StepSearches
    <3>2. CASE ~SearchEnded(g[n])
      <4>1. Work(g[n], next) + n <= M
        BY <1>15, <3>2
      <4>2. SearchEnded(g[n + 1]) \/ Work(g[n + 1], next) + 1 <= Work(g[n], next)
        BY <1>12, <2>1, <3>2, StepLowers
      <4>3. Work(g[n], next) \in Nat /\ Work(g[n + 1], next) \in Nat
        BY <2>1, <2>2, WorkIsCounted
      <4> QED
        BY <1>13, <4>1, <4>2, <4>3
    <3> QED
      BY <3>1, <3>2
  <2> QED
    BY <2>2, <2>3
<1>16. \A k \in Nat : k \in X
  <2> HIDE DEF X
  <2> QED
    BY <1>14, <1>15, AllNumbers
<1>17. /\ SearchInv(g[M], order, next)
       /\ SearchEnded(g[M]) \/ Work(g[M], next) + M <= M
  BY <1>13, <1>16
<1>18. SearchEnded(g[M])
  <2>1. /\ Work(g[M], next) \in Nat
        /\ ~SearchEnded(g[M]) => Work(g[M], next) > 0
    BY <1>17, WorkIsCounted
  <2> QED
    BY <1>13, <1>17, <2>1
<1> QED
  BY <1>4, <1>17, <1>18

-----------------------------------------------------------------------------
(***************************************************************************)
(* What the search finds.                                                  *)
(***************************************************************************)
\* What the search reports is a path along the dependencies that leads back to
\* where it starts, in every graph (firstGraphCycle, hasTaskDAGCycle).
THEOREM CycleFoundIsCycle ==
  ASSUME NEW N, IsFiniteSet(N), NEW next \in [N -> Seq(N)], NEW order \in Seq(N),
         FirstCycle(order, next) # <<>>
  PROVE  IsCycle(FirstCycle(order, next), next)
  BY SearchEnds DEF FirstCycle, SearchInv

\* A search that began with every node and found nothing has ranked them all.
LEMMA NoCycleFoundIsRanked ==
  ASSUME NEW N, IsFiniteSet(N), NEW next \in [N -> Seq(N)], NEW order \in Seq(N),
         ToSet(order) = N, FirstCycle(order, next) = <<>>
  PROVE  Ranked(N, next)
<1>1. PICK s : s = Search(order, next)
  OBVIOUS
<1>2. SearchInv(s, order, next) /\ SearchEnded(s) /\ s.cycle = <<>>
  BY <1>1, SearchEnds DEF FirstCycle
<1>3. /\ s.visited \in SUBSET N /\ Ranked(s.visited, next)
      /\ Len(s.rest) = Len(s.stack) + 1 /\ AccountInv(s, order, next)
  BY <1>2, SearchFacts DEF SearchState
<1>4. s.stack = <<>> /\ Last(s.rest) = <<>>
  BY <1>2 DEF SearchEnded
<1>5. Len(s.stack) = 0 /\ s.rest[1] = <<>>
  <2>1. Len(s.stack) = 0
    BY <1>4
  <2> QED
    BY <1>3, <1>4, <2>1 DEF Last
<1>6. ToSet(<<>>) = {} /\ 1 \notin 1 .. 0
  BY DEF ToSet
<1>7. \A r \in N : r \in s.visited
  BY <1>3, <1>5, <1>6 DEF AccountInv
<1>8. s.visited = N
  BY <1>3, <1>7
<1> QED
  BY <1>3, <1>8

\* Among ranked nodes, of those in a set that is not empty one points to none
\* of the others.
PointsOutOf(n, T, N, next) == \A d \in ToSet(next[n]) : d \in N /\ d \notin T

LEMMA LowestRanked ==
  ASSUME NEW N, NEW next \in [N -> Seq(N)], Ranked(N, next),
         NEW T \in SUBSET N, T # {}
  PROVE  \E n \in T : PointsOutOf(n, T, N, next)
<1>1. PICK m \in Nat : \E rank \in [N -> 0 .. m] :
        \A n \in N : \A d \in ToSet(next[n]) : d \in N /\ rank[d] < rank[n]
  BY DEF Ranked
<1>2. PICK rank \in [N -> 0 .. m] :
        \A n \in N : \A d \in ToSet(next[n]) : d \in N /\ rank[d] < rank[n]
  BY <1>1
<1> DEFINE R == {rank[n] : n \in T}
<1>3. R \in SUBSET Nat /\ R # {}
  OBVIOUS
<1>4. PICK r \in R : \A k \in R : ~ k < r
  <2> HIDE DEF R
  <2> QED
    BY <1>3, LeastNumber
<1>5. PICK n \in T : r = rank[n]
  BY <1>4
<1>6. \A d \in T : ~ rank[d] < rank[n]
  BY <1>4, <1>5
<1> QED
  BY <1>2, <1>6 DEF PointsOutOf

\* So no path leads back to where it starts.
LEMMA RankedHasNoCycle ==
  ASSUME NEW N, NEW next \in [N -> Seq(N)], Ranked(N, next),
         NEW path \in Seq(N), IsCycle(path, next)
  PROVE  FALSE
<1>1. PICK l \in Nat : l = Len(path)
  OBVIOUS
<1>2. /\ l > 1 /\ path[1] = path[l]
      /\ \A i \in 1 .. l - 1 : path[i + 1] \in ToSet(next[path[i]])
      /\ \A i \in 1 .. l : path[i] \in N
  BY <1>1 DEF IsCycle
<1> DEFINE T == {path[i] : i \in 1 .. l}
<1>3. T \in SUBSET N /\ T # {}
  BY <1>2
<1>4. PICK n \in T : PointsOutOf(n, T, N, next)
  <2> HIDE DEF T
  <2> QED
    BY <1>3, LowestRanked
<1>5. PICK i \in 1 .. l : n = path[i]
  BY <1>4
<1>6. PICK j \in 1 .. l - 1 : n = path[j]
  <2>1. CASE i = l
    <3>1. 1 \in 1 .. l - 1
      BY <1>2
    <3> QED
      BY <1>2, <1>5, <2>1, <3>1
  <2>2. CASE i # l
    <3>1. i \in 1 .. l - 1
      BY <1>1, <2>2
    <3> QED
      BY <1>5, <3>1
  <2> QED
    BY <2>1, <2>2
<1>7. j + 1 \in 1 .. l
  BY <1>1, <1>6
<1>8. path[j + 1] \in T
  BY <1>7
<1> QED
  BY <1>2, <1>4, <1>6, <1>8 DEF PointsOutOf

\* No graph that has a cycle passes: the search, started from every node, finds
\* one whatever the order.
THEOREM NoCycleIsMissed ==
  ASSUME NEW N, IsFiniteSet(N), NEW next \in [N -> Seq(N)], NEW order \in Seq(N),
         ToSet(order) = N, NEW path \in Seq(N), IsCycle(path, next)
  PROVE  FirstCycle(order, next) # <<>>
  BY NoCycleFoundIsRanked, RankedHasNoCycle

-----------------------------------------------------------------------------
(***************************************************************************)
(* A workflow whose task DAG has no cycle.                                 *)
(***************************************************************************)
\* A task DAG that validateTaskDAG accepts: DependsOn is what its lines list,
\* and the search that begins with them in their order finds no cycle.
SearchedDag(next, order) ==
  /\ IsFiniteSet(Node)
  /\ next \in [Node -> Seq(Node)] /\ order \in Seq(Node) /\ ToSet(order) = Node
  /\ DependsOn = [n \in Node |-> ToSet(next[n])]
  /\ FirstCycle(order, next) = <<>>

\* All nodes have succeeded, one is blocked, or one can be started or
\* completed.
GoesOn ==
  instance # NoInstance =>
    \/ \A n \in Node : instance.nodes[n].state = "succeeded"
    \/ \E n \in Node : instance.nodes[n].state = "blocked"
    \/ \E n \in Node : Allowed("start", n) \/ Allowed("complete", n)

\* The instance of a task DAG without cycles can always go on: nothing that
\* commands, crashes and event append do leaves its nodes waiting for one
\* another, because those the search for a cycle lets through do not.
THEOREM WorkflowIsNeverStuck ==
  ASSUME NEW next, NEW order, SearchedDag(next, order)
  PROVE  Spec => []GoesOn
<1>1. Ranked(Node, next) /\ next \in [Node -> Seq(Node)]
  BY NoCycleFoundIsRanked DEF SearchedDag
<1>2. TypeOK => GoesOn
  <2> SUFFICES ASSUME TypeOK, instance # NoInstance,
                      ~ \A n \in Node : instance.nodes[n].state = "succeeded",
                      ~ \E n \in Node : instance.nodes[n].state = "blocked",
                      ~ \E n \in Node : Allowed("complete", n)
               PROVE  \E n \in Node : Allowed("start", n)
    BY DEF GoesOn
  <2>1. \A n \in Node : instance.nodes[n].state \in {"pending", "succeeded"}
    BY DEF TypeOK, InstanceType, NodeState, Allowed
  <2> DEFINE Left == {n \in Node : instance.nodes[n].state # "succeeded"}
  <2>2. PICK n \in Left : PointsOutOf(n, Left, Node, next)
    <3>1. Left \in SUBSET Node /\ Left # {}
      OBVIOUS
    <3> HIDE DEF Left
    <3> QED
      BY <1>1, <3>1, LowestRanked
  <2>3. instance.nodes[n].state = "pending"
    BY <2>1, <2>2
  <2>4. DependenciesSucceeded(n)
    BY <2>2 DEF DependenciesSucceeded, SearchedDag, PointsOutOf
  <2> QED
    BY <2>2, <2>3, <2>4 DEF Allowed
<1> QED
  BY <1>2, TypeCorrect, PTL

-----------------------------------------------------------------------------
(***************************************************************************)
(* What the order of the nodes means along paths of dependencies.          *)
(***************************************************************************)
\* A path from a node to one it depends on, to one that depends on, and on.
DependencyPath(path) ==
  path \in Seq(Node) /\ \A i \in 1 .. Len(path) - 1 :
                          path[i + 1] \in DependsOn[path[i]]

Begun(n) == States[n] \in {"running", "succeeded"}

BegunInOrder ==
  \A path : DependencyPath(path) /\ Len(path) > 0 /\ Begun(path[1]) =>
    \A i \in 2 .. Len(path) : States[path[i]] = "succeeded"

\* What one step of TaskDag keeps.
OrderInv ==
  /\ DOMAIN States = Node
  /\ \A n \in Node : Begun(n) =>
       \A d \in DependsOn[n] : States[d] = "succeeded"

LEMMA OrderAlongPaths ==
  ASSUME OrderInv, NEW path, DependencyPath(path), Len(path) > 0,
         Begun(path[1])
  PROVE  \A i \in 2 .. Len(path) : States[path[i]] = "succeeded"
<1> DEFINE X == {k \in Nat : k + 2 \in 2 .. Len(path) =>
                               States[path[k + 2]] = "succeeded"}
<1>1. /\ path \in Seq(Node) /\ Len(path) \in Nat
      /\ \A i \in 1 .. Len(path) : path[i] \in Node
      /\ \A i \in 1 .. Len(path) - 1 : path[i + 1] \in DependsOn[path[i]]
  BY DEF DependencyPath
<1>2. ASSUME NEW i \in 1 .. Len(path) - 1, Begun(path[i])
      PROVE  States[path[i + 1]] = "succeeded"
  <2>1. path[i] \in Node /\ path[i + 1] \in DependsOn[path[i]]
    BY <1>1
  <2> QED
    BY <1>2, <2>1 DEF OrderInv
<1>3. 0 \in X
  <2> SUFFICES ASSUME 2 \in 2 .. Len(path)
               PROVE  States[path[2]] = "succeeded"
    OBVIOUS
  <2>1. 1 \in 1 .. Len(path) - 1 /\ 1 + 1 = 2
    BY <1>1
  <2>2. States[path[1 + 1]] = "succeeded"
    BY <1>2, <2>1
  <2> QED
    BY <2>1, <2>2
<1>4. ASSUME NEW k \in Nat, k \in X PROVE k + 1 \in X
  <2> SUFFICES ASSUME (k + 1) + 2 \in 2 .. Len(path)
               PROVE  States[path[(k + 1) + 2]] = "succeeded"
    OBVIOUS
  <2>1. /\ k + 2 \in 2 .. Len(path) /\ k + 2 \in 1 .. Len(path) - 1
        /\ (k + 1) + 2 = (k + 2) + 1
    BY <1>1
  <2>2. Begun(path[k + 2])
    BY <1>4, <2>1 DEF Begun
  <2>3. States[path[(k + 2) + 1]] = "succeeded"
    BY <1>2, <2>1, <2>2
  <2> QED
    BY <2>1, <2>3
<1>5. \A k \in Nat : k \in X
  <2> HIDE DEF X
  <2> QED
    BY <1>3, <1>4, AllNumbers
<1> SUFFICES ASSUME NEW i \in 2 .. Len(path)
             PROVE  States[path[i]] = "succeeded"
  OBVIOUS
<1>6. i - 2 \in Nat /\ (i - 2) + 2 = i
  BY <1>1
<1> QED
  BY <1>5, <1>6

\* Whatever stops, and whatever is appended by hand: no node runs or has
\* succeeded while anything it depends on, directly or through others, has not
\* (mutateWorkflowNode only looks at the direct dependencies).
THEOREM WorkIsInOrder == Spec => []BegunInOrder
<1>1. Dag!Init => OrderInv
  BY DEF Dag!Init, OrderInv, Begun
<1>2. OrderInv /\ [Dag!Next]_States => OrderInv'
  <2> SUFFICES ASSUME OrderInv, [Dag!Next]_States PROVE OrderInv'
    OBVIOUS
  <2>1. CASE UNCHANGED States
    BY <2>1 DEF OrderInv, Begun
  <2>2. ASSUME NEW n \in Node,
               Dag!Start(n) \/ Dag!Complete(n) \/ Dag!Block(n)
        PROVE  OrderInv'
    <3>1. PICK to : /\ States' = [States EXCEPT ![n] = to]
                    /\ to \in {"running", "succeeded", "blocked"}
                    /\ States[n] # "succeeded"
                    /\ to = "succeeded" => States[n] = "running"
                    /\ to = "running" =>
                         \A d \in DependsOn[n] : States[d] = "succeeded"
      BY <2>2 DEF Dag!Start, Dag!Ready, Dag!Complete, Dag!Block
    <3>2. DOMAIN States' = Node
      BY <3>1 DEF OrderInv
    <3>3. ASSUME NEW m \in Node, Begun(m)', NEW d \in DependsOn[m]
          PROVE  States'[d] = "succeeded"
      <4>1. States[d] = "succeeded"
        BY <3>1, <3>3 DEF OrderInv, Begun
      <4>2. d \in Node
        BY WorkflowInstanceAssumption
      <4> QED
        BY <3>1, <4>1, <4>2 DEF OrderInv
    <3> QED
      BY <3>2, <3>3 DEF OrderInv, Begun
  <2> QED
    BY <2>1, <2>2 DEF Dag!Next
<1>3. OrderInv => BegunInOrder
  BY OrderAlongPaths DEF BegunInOrder
<1> QED
  BY <1>1, <1>2, <1>3, ImplementsTaskDag, PTL DEF FollowsTaskDag, Dag!Spec

-----------------------------------------------------------------------------
(***************************************************************************)
(* The event log and status.json implement EventLedger, with the instance  *)
(* written before the append.                                              *)
(***************************************************************************)

\* The events status.json has caught up with.
Committed == SubSeq(log, 1, last)

\* The log is ahead of status.json and no command in flight will mend that.
Frozen == ~Coherent /\ step # "status"

Ledger == INSTANCE EventLedger WITH
            Writer <- EventRecord, committed <- Committed, frozen <- Frozen

\* The beginning of a log grows by the line after it.
LEMMA PrefixGrows ==
  ASSUME NEW S, NEW lines \in Seq(S), NEW n \in Nat, Len(lines) = n + 1
  PROVE  SubSeq(lines, 1, n + 1) = Append(SubSeq(lines, 1, n), lines[n + 1])
<1>1. /\ 1 \in 1 .. Len(lines) /\ n + 1 \in 1 .. Len(lines)
      /\ (n + 1) - 1 = n
  OBVIOUS
<1>2. SubSeq(lines, 1, n + 1) = SubSeq(lines, 1, n) \o <<lines[n + 1]>>
  <2>1. SubSeq(lines, 1, n + 1) =
          SubSeq(lines, 1, (n + 1) - 1) \o <<lines[n + 1]>>
    BY <1>1, SubSeqRecursiveSecond
  <2> QED
    BY <1>1, <2>1
<1>3. SubSeq(lines, 1, n) \in Seq(S) /\ lines[n + 1] \in S
  OBVIOUS
<1> QED
  BY <1>2, <1>3, AppendIsConcat

\* A workflow command commits one event or none; the revision it writes
\* before the append freezes nothing when it stops there.
THEOREM ImplementsLedger == Spec => Ledger!Spec
<1> USE WorkflowInstanceAssumption
<1>1. Init => Ledger!Init
  <2> SUFFICES ASSUME Init PROVE Ledger!Init
    OBVIOUS
  <2>1. Len(log) = 1 /\ last = 1 /\ log = SubSeq(log, 1, 1)
    BY DEF Init
  <2> QED
    BY <2>1 DEF Init, Ledger!Init, Committed, Frozen, Coherent
<1>3. TypeInv /\ [Next]_vars => [Ledger!Next]_(Ledger!vars)
  <2> SUFFICES ASSUME TypeInv, [Next]_vars
               PROVE  [Ledger!Next]_(Ledger!vars)
    OBVIOUS
  <2>1. /\ log \in Seq(EventRecord) /\ Len(log) \in Nat /\ last \in Nat
        /\ last <= Len(log) /\ Len(log) <= MaxEventId
    BY DEF TypeInv, TypeOK, LogInv
  <2>2. CASE AppendLine
    <3>1. PICK e : log' = Append(log, e)
      BY <2>2 DEF AppendLine
    <3>2. Committed' = Committed
      BY <2>1, <2>2, <3>1 DEF Committed, AppendLine
    <3>3. ~Frozen /\ ~Frozen'
      BY <2>2 DEF Frozen, AppendLine, TypeInv, TypeOK, LogInv,
         Coherent
    <3> QED
      BY <3>2, <3>3 DEF Ledger!vars, Frozen
  <2>3. CASE ReplaceStatus
    <3>1. Len(log) = last + 1 /\ last' = last + 1 /\ log' = log
      BY <2>3 DEF ReplaceStatus, TypeInv, TypeOK, LogInv
    <3>2. Len(Committed) = last /\ log[last + 1] \in EventRecord
      BY <2>1, <3>1 DEF Committed
    <3>3. Committed' = Append(Committed, log[last + 1])
      BY <2>1, <3>1, PrefixGrows DEF Committed
    <3>4. ~Frozen /\ ~Frozen'
      BY <2>3, <3>1 DEF Frozen, ReplaceStatus, Coherent
    <3> QED
      BY <2>1, <3>1, <3>2, <3>3, <3>4
      DEF Ledger!Next, Ledger!Commit, Frozen
  <2>4. CASE log' = log /\ last' = last /\ (Frozen => Frozen')
    BY <2>4 DEF Committed, Frozen, Ledger!Next, Ledger!Freeze, Ledger!vars
  <2>5. CASE ~AppendLine /\ ~ReplaceStatus
    <3>1. log' = log /\ last' = last
      BY <2>5 DEF Next, vars,
       CreateWorkflowInstance, MutateNode, AppendEvent, Begin,
       WriteInstance, Stop
    <3>2. Frozen => Frozen'
      BY <2>5, <3>1 DEF Frozen, Coherent, Next, vars,
       CreateWorkflowInstance, MutateNode, AppendEvent, Begin,
       WriteInstance, Stop
    <3> QED
      BY <2>4, <3>1, <3>2
  <2> QED
    BY <2>2, <2>3, <2>5
<1> QED
  BY <1>1, <1>3, TypesHold, PTL DEF Spec, Ledger!Spec
=============================================================================
