------------------------- MODULE MCResponseLifecycle -------------------------
(* Symmetry for the model checker: requests of one kind and editors are    *)
(* interchangeable.                                                        *)
EXTENDS ResponseLifecycle

Symmetry == Permutations(Starts) \cup Permutations(Attempts)
              \cup Permutations(Editors) \cup Permutations(Amendments)
==============================================================================
