---------------------------- MODULE MCChangeFeed ----------------------------
(***************************************************************************)
(* ChangeFeed with a client that never pushes back and one that may.       *)
(***************************************************************************)
EXTENDS ChangeFeed

CONSTANTS steady, slow
=============================================================================
