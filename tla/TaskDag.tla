------------------------------ MODULE TaskDag ------------------------------
(***************************************************************************)
(* What a workflow instance promises: tasks run in dependency order.  A    *)
(* task starts once its dependencies succeeded, succeeds or is blocked,    *)
(* and neither of the two is ever taken back.  WorkflowInstance implements *)
(* this specification.                                                     *)
(***************************************************************************)
CONSTANTS
  Node,      \* the tasks
  DependsOn  \* task -> the tasks that must succeed before it starts

VARIABLE state  \* task -> where it stands

Init == state = [n \in Node |-> "pending"]

Ready(n) ==
  state[n] = "pending" /\ \A d \in DependsOn[n] : state[d] = "succeeded"

Start(n)    == Ready(n) /\ state' = [state EXCEPT ![n] = "running"]
Complete(n) ==
  state[n] = "running" /\ state' = [state EXCEPT ![n] = "succeeded"]
Block(n)    ==
  state[n] # "succeeded" /\ state' = [state EXCEPT ![n] = "blocked"]

Next == \E n \in Node : Start(n) \/ Complete(n) \/ Block(n)

Spec == Init /\ [][Next]_state
=============================================================================
