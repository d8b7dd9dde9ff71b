------------------------ MODULE MCOperationLifecycle ------------------------
(* Symmetry for the model checker: operation ids and callback deliveries   *)
(* are interchangeable.                                                    *)
EXTENDS OperationLifecycle, TLC

Symmetry == Permutations(Operations) \cup Permutations(Deliveries)
=============================================================================
