------------------------ MODULE MCDurableExecution ------------------------
(* Small instances of DurableExecution for TLC. *)
EXTENDS DurableExecution, TLC

\* Workers are interchangeable and so are operations: no definition names one.
CallerSymmetry == Permutations(Workers) \cup Permutations(Operations)
=============================================================================
