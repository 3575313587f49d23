-------------------------- MODULE MCDurableWorker --------------------------
(* Small instances of DurableWorker for TLC. *)
EXTENDS DurableWorker, TLC

\* Workers are interchangeable (of use where no temporal property is checked).
WorkerSymmetry == Permutations(Workers)
=============================================================================
