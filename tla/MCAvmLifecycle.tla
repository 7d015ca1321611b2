---------------------------- MODULE MCAvmLifecycle -----------------------------
(* AvmLifecycle with interchangeable machines, workers and requests, for the    *)
(* safety run.                                                                  *)
EXTENDS AvmLifecycle, TLC

Symmetry == Permutations(Avm) \cup Permutations(Worker) \cup Permutations(Request)
================================================================================
