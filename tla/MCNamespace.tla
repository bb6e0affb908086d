---------------------------- MODULE MCNamespace -----------------------------
(***************************************************************************)
(* One run for what is read of a namespace: the memories in it, and their  *)
(* keyword index.  part says which of the two moves, the other keeps one   *)
(* initial state.                                                          *)
(***************************************************************************)
EXTENDS Memories, SearchIndex, TLC

CONSTANTS c1, c2, k1, u1

VARIABLE part

namespaceVars == <<part, memoriesVars, searchVars>>

Symmetric == Permutations({c1, c2})

NamespaceInit ==
  /\ part \in {"memories", "search"}
  /\ MemoriesInit
  /\ part # "memories" => lastId = 0
  /\ SearchInit

NamespaceNext ==
  \/ part = "memories" /\ MemoriesNext /\ UNCHANGED <<part, searchVars>>
  \/ part = "search" /\ SearchNext /\ UNCHANGED <<part, memoriesVars>>

NamespaceSpec == NamespaceInit /\ [][NamespaceNext]_namespaceVars

=============================================================================
