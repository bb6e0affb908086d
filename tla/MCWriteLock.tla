---------------------------- MODULE MCWriteLock ----------------------------
(***************************************************************************)
(* WriteLock on small instances: processes, pids and nonces are model      *)
(* values.  A nonce is taken at most by each process and by the lock file, *)
(* so Cardinality(Proc) + 1 nonces always leave a fresh one.               *)
(***************************************************************************)
EXTENDS WriteLock, TLC

\* Processes, pids and nonces are interchangeable in the safety runs.
Symmetry == Permutations(Proc) \cup Permutations(Pid) \cup Permutations(Nonce)
=============================================================================
