---------------------------- MODULE MCAutoCommit ----------------------------
(***************************************************************************)
(* AutoCommit with two processes and three writes.                         *)
(***************************************************************************)
EXTENDS AutoCommit
=============================================================================
