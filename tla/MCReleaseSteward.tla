-------------------------- MODULE MCReleaseSteward --------------------------
(* The release steward on small instances; the constants are in the .cfg.   *)
EXTENDS ReleaseStewardProperties

\* Workers and keys are interchangeable.
Symmetry == Permutations(Workers) \cup Permutations(Keys) \cup Permutations(Runs)

=============================================================================
