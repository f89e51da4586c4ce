------------------------- MODULE MCInitialOutreach -------------------------
(* Instances of InitialOutreach for TLC.                                   *)
EXTENDS InitialOutreach, TLC

\* Attempts, workers, lots and grants are interchangeable.
Symmetry == Permutations(Attempts) \cup Permutations(Workers)
              \cup Permutations(Lots) \cup Permutations(Grants)
=============================================================================
