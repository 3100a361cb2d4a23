-------------------------- MODULE MCWorkerSession --------------------------
(* Model values for WorkerSession. *)
EXTENDS WorkerSession, TLC

(* No property names a particular worker, identity or key.  NoRequest names an
   arbitrary key, so keys are not permuted. *)
Symmetry == Permutations(Workers) \cup Permutations(Identities)
=============================================================================
