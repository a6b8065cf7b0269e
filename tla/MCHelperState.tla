--------------------------- MODULE MCHelperState ---------------------------
(***************************************************************************)
(* Instances of HelperState for TLC.                                       *)
(***************************************************************************)
EXTENDS HelperState, TLC

CONSTANTS p1, p2, p3

\* Everything runs on one host, and the processes are interchangeable.
OneHost == [p \in Proc |-> "host"]
Symmetry == Permutations(Proc)

\* The last process shares the checkout from another host.
TwoHosts == [p \in Proc |-> IF p = p3 THEN "remote" ELSE "local"]
LocalSymmetry == Permutations(Proc \ {p3})
=============================================================================
