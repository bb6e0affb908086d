---------------------------- MODULE MCComponents ----------------------------
(***************************************************************************)
(* One run for the components that do not share state: part says which of  *)
(* them moves, the others keep one initial state.                          *)
(***************************************************************************)
EXTENDS AuditLedger, Consolidation, Durability, KeyListCache, S3Sync, NamespaceRegistry, TLC

CONSTANTS s1, s2, p1, p2, h1, h2, c1, c2, f1, f2, a1, a2, n1, n2

VARIABLE part

vars == <<part, auditLedgerVars, consolidationVars, durabilityVars, keyListVars, s3SyncVars,
          registryVars>>

\* Records laid into files of the given lengths, in order.
Fill(lengths) ==
  LET total(S) == FoldFunctionOnSet(+, 0, lengths, S)
  IN [n \in DOMAIN lengths |->
        [i \in 1..lengths[n] |-> total({m \in DOMAIN lengths : m < n}) + i]]

\* Every way to lay up to six records into files 1 to 4, and two behind a
\* current.jsonl that is full, with or without three numbered files.
MCLayouts ==
  LET Numbered == {l \in UNION {[S -> 1..5] : S \in SUBSET (1..4)} :
                     FoldFunction(+, 0, l) <= 6}
      Lengths == Numbered \cup {0 :> 2}
                   \cup {(0 :> 2) @@ l : l \in {m \in Numbered : DOMAIN m = {1, 2}}}
  IN {Fill(l) : l \in Lengths}

Symmetric ==
  UNION {Permutations(S) : S \in {{c1, c2}, {f1, f2}, {h1, h2}}}

Init ==
  /\ part \in {"audit", "consolidation", "durability", "keys", "sync", "registry"}
  /\ AuditLedgerInit
  /\ ConsolidationInit
  /\ part # "consolidation" => segments = Fill(0 :> 2)
  /\ DurabilityInit
  /\ part # "durability" => mode = "fsync" /\ depth = 0
  /\ KeyListInit
  /\ part # "keys" => corpus = 0
  /\ S3SyncInit
  /\ part # "sync" => tags = "md5"
  /\ RegistryInit
  /\ part # "registry" => \A n \in NsName : config.maps[n] = "none"

Next ==
  \/ /\ part = "audit" /\ AuditLedgerNext
     /\ UNCHANGED <<part, consolidationVars, durabilityVars, keyListVars, s3SyncVars,
                    registryVars>>
  \/ /\ part = "consolidation" /\ ConsolidationNext
     /\ UNCHANGED <<part, auditLedgerVars, durabilityVars, keyListVars, s3SyncVars,
                    registryVars>>
  \/ /\ part = "durability" /\ DurabilityNext
     /\ UNCHANGED <<part, auditLedgerVars, consolidationVars, keyListVars, s3SyncVars,
                    registryVars>>
  \/ /\ part = "keys" /\ KeyListNext
     /\ UNCHANGED <<part, auditLedgerVars, consolidationVars, durabilityVars, s3SyncVars,
                    registryVars>>
  \/ /\ part = "sync" /\ S3SyncNext
     /\ UNCHANGED <<part, auditLedgerVars, consolidationVars, durabilityVars, keyListVars,
                    registryVars>>
  \/ /\ part = "registry" /\ RegistryNext
     /\ UNCHANGED <<part, auditLedgerVars, consolidationVars, durabilityVars, keyListVars,
                    s3SyncVars>>

Spec == Init /\ [][Next]_vars

\* The synchronisation alone.
SyncSpec == (Init /\ part = "sync") /\ [][Next]_vars

=============================================================================
