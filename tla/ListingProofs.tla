----------------------------- MODULE ListingProofs -----------------------------
(***************************************************************************)
(* What a reader is shown: the list of memories, the caches built beside   *)
(* the records, the key list and the keyword index, and the changes of a   *)
(* table that a consumer replays.  Each is a specification of its own.     *)
(***************************************************************************)
EXTENDS KeyListCache, SearchIndex, Memories, TableChanges, FiniteSetTheorems,
        WellFoundedInduction, TLAPS

--------------------------------------------------------------------------------
(***************************************************************************)
(* The key-list cache, for any number of server processes, rows and calls. *)
(* KeyListInvariant is inductive; WarmIsCold is one of its conjuncts.      *)
(***************************************************************************)

\* The cache as a specification of its own.
KeyListSpec == KeyListInit /\ [][KeyListNext]_keyListVars

Waiting == [floor : 0..MaxRows, own : BOOLEAN, at : Nat]

\* The calls that wait for a rebuild, within the bound on calls.
WaitingCounted ==
  /\ joined \in [Server -> SUBSET Waiting]
  /\ \A p \in Server :
       IsFiniteSet(joined[p]) /\ calls[p] + Cardinality(joined[p]) <= MaxCalls
  /\ IsFiniteSet(rebuilders)

\* A call waits for no row that is not there, and the one that began the rebuild
\* for none that the scan has missed.
FloorsAreRead ==
  \A p \in Server : \A c \in joined[p] :
    /\ c.floor <= corpus
    /\ c.own /\ rebuild[p].step \in {"artifact", "meta"} => c.floor <= rebuild[p].list

\* The fingerprint of a rebuild is older than its list, and both than the corpus.
ListFollowsFingerprint ==
  \A p \in Server :
    /\ rebuild[p].step # "none" => rebuild[p].fingerprint <= corpus
    /\ rebuild[p].step \in {"artifact", "meta"} =>
         /\ rebuild[p].list # NoList
         /\ rebuild[p].fingerprint <= rebuild[p].list /\ rebuild[p].list <= corpus

\* The artifact is there before a meta file is, and who published it is known.
ArtifactIsPublished ==
  /\ artifact # NoList <=> rebuilders # {}
  /\ artifact # NoList => artifact <= corpus
  /\ meta # NoList => artifact # NoList
  /\ \A p \in Server : rebuild[p].step = "meta" => p \in rebuilders

\* One process rebuilds.
Single == \A p, q \in rebuilders : p = q

\* Then the meta file never runs ahead of the artifact, nor of a list in memory
\* that is not known to be behind, and a rebuild never publishes an older list.
SidecarInStep ==
  Single =>
    /\ meta # NoList => meta <= artifact
    /\ \A p \in Server :
         /\ rebuild[p].step = "artifact" /\ rebuilders \subseteq {p} /\ artifact # NoList =>
              artifact <= rebuild[p].list
         /\ rebuild[p].step = "meta" => artifact = rebuild[p].list
         /\ p \notin behind /\ memory[p] # NoList /\ meta # NoList => meta <= memory[p]

\* What WarmIsCold says of the answers.
AnswersCurrent ==
  /\ lag["own"] = 0
  /\ Single => lag["memory"] = 0 /\ lag["artifact"] = 0

\* The inductive invariant.
KeyListInvariant ==
  /\ KeyListTypeOK
  /\ WaitingCounted
  /\ FloorsAreRead
  /\ ListFollowsFingerprint
  /\ ArtifactIsPublished
  /\ SidecarInStep
  /\ AnswersCurrent

--------------------------------------------------------------------------------

\* A bounded set of numbers that is not empty has a largest one.
LEMMA BoundedMax ==
  ASSUME NEW N \in Nat, NEW S \in SUBSET (0..N), S # {}
  PROVE  \E m \in S : \A n \in S : n <= m
<1> DEFINE R == OpToRel(<, Nat)
           Below == {N - m : m \in S}
<1>1. IsWellFoundedOn(R, Nat)
  BY NatLessThanWellFounded
<1>2. Below \subseteq Nat /\ Below # {}
  <2>1. \A m \in S : m \in 0..N
    OBVIOUS
  <2>2. \A m \in 0..N : m \in Int /\ N - m \in Nat
    OBVIOUS
  <2>3. \A m \in S : N - m \in Nat
    BY <2>1, <2>2
  <2> QED
    BY <2>3
<1>3. \E x \in Below : \A y \in Below : ~ (<<y, x>> \in R)
  <2> HIDE DEF R, Below
  <2> QED
    BY <1>1, <1>2, WFMin
<1>4. PICK x \in Below : \A y \in Below : ~ (<<y, x>> \in R)
  BY <1>3
<1>5. \A y \in Below : x <= y
  <2>1. SUFFICES ASSUME NEW y \in Below PROVE x <= y
    OBVIOUS
  <2>2. x \in Nat /\ y \in Nat /\ <<y, x>> \notin R
    BY <1>2, <1>4
  <2> HIDE DEF Below, R
  <2>3. ~(y < x)
    BY <2>2 DEF R, OpToRel
  <2> QED
    BY <2>2, <2>3
<1>6. PICK m \in S : x = N - m
  BY <1>4
<1>7. \A n \in S : n <= m
  <2>1. SUFFICES ASSUME NEW n \in S PROVE n <= m
    OBVIOUS
  <2>2. N - m <= N - n
    BY <1>5, <1>6
  <2>3. m \in 0..N /\ n \in 0..N
    OBVIOUS
  <2>4. m \in Int /\ n \in Int /\ N \in Int
    BY <2>3
  <2> HIDE DEF R, Below
  <2> QED
    BY <2>2, <2>4
<1> QED
  BY <1>6, <1>7

\* A set of at most one element has no two.
LEMMA AtMostOne ==
  ASSUME NEW S, IsFiniteSet(S), Cardinality(S) <= 1
  PROVE  \A p, q \in S : p = q
<1>1. Cardinality(S) \in Nat
  BY FS_CardinalityType
<1>2. Cardinality(S) = 0 \/ Cardinality(S) = 1
  BY <1>1
<1>3. CASE Cardinality(S) = 0
  BY <1>3, FS_EmptySet
<1>4. CASE Cardinality(S) = 1
  BY <1>4, FS_Singleton
<1> QED
  BY <1>2, <1>3, <1>4

\* The end of a rebuild whose list shows what its own call must show: the calls
\* that wait are answered, and of the answers only those that joined may lag.
LEMMA ResolveAnswers ==
  ASSUME KeyListTypeOK, WaitingCounted, NEW p \in Server, NEW list \in 0..MaxRows,
         \A c \in joined[p] : c.own => c.floor <= list,
         lag["own"] = 0,
         Resolve(p, list), UNCHANGED rebuilders
  PROVE  /\ lag' \in [Kind -> 0..MaxRows]
         /\ lag'["own"] = 0
         /\ lag'["memory"] = lag["memory"] /\ lag'["artifact"] = lag["artifact"]
         /\ calls' \in [Server -> 0..MaxCalls]
         /\ WaitingCounted'
<1> DEFINE Late(k) == {Lagging(c.floor, list) : c \in {c \in joined[p] :
                         k = (IF c.own THEN "own" ELSE "joined")}}
           Top(k) == CHOOSE m \in Late(k) \cup {lag[k]} : \A n \in Late(k) \cup {lag[k]} : n <= m
<1>1. lag' = [k \in Kind |-> Top(k)]
  BY DEF Resolve
<1>2. MaxRows \in Nat /\ MaxCalls \in Nat
  BY KeyListAssumption
<1>3. joined[p] \subseteq Waiting
  BY DEF WaitingCounted
<1>4. ASSUME NEW c \in joined[p]
      PROVE  /\ Lagging(c.floor, list) \in 0..MaxRows
             /\ c.own => Lagging(c.floor, list) = 0
             /\ c.own \in BOOLEAN
  <2>1. c.floor \in 0..MaxRows /\ c.own \in BOOLEAN
    BY <1>3, <1>4 DEF Waiting
  <2>2. list \in 0..MaxRows
    OBVIOUS
  <2>3. Lagging(c.floor, list) \in 0..MaxRows
    BY <1>2, <2>1, <2>2 DEF Lagging
  <2>4. c.own => Lagging(c.floor, list) = 0
    <3>1. SUFFICES ASSUME c.own PROVE Lagging(c.floor, list) = 0
      OBVIOUS
    <3>2. c.floor <= list
      BY <1>4, <3>1
    <3> QED
      BY <2>1, <2>2, <3>2 DEF Lagging
  <2> QED
    BY <2>1, <2>3, <2>4
<1>5. ASSUME NEW k PROVE Late(k) \in SUBSET (0..MaxRows)
  BY <1>4
<1>6. Late("own") \subseteq {0} /\ Late("memory") = {} /\ Late("artifact") = {}
  BY <1>4
<1>7. ASSUME NEW k \in Kind PROVE Top(k) \in Late(k) \cup {lag[k]} /\ Top(k) \in 0..MaxRows
  <2> HIDE DEF Late
  <2> DEFINE all == Late(k) \cup {lag[k]}
  <2>1. lag[k] \in 0..MaxRows
    BY DEF KeyListTypeOK
  <2>2. all \in SUBSET (0..MaxRows) /\ all # {}
    BY <1>5, <2>1
  <2>3. Top(k) = CHOOSE m \in all : \A n \in all : n <= m
    OBVIOUS
  <2> HIDE DEF all, Top
  <2>4. \E m \in all : \A n \in all : n <= m
    BY <1>2, <2>2, BoundedMax
  <2>5. Top(k) \in all
    BY <2>3, <2>4
  <2> QED
    BY <2>2, <2>5 DEF all
<1> HIDE DEF Top
<1>8. lag' \in [Kind -> 0..MaxRows]
  BY <1>1, <1>7
<1>9. lag'["own"] = 0 /\ lag'["memory"] = lag["memory"] /\ lag'["artifact"] = lag["artifact"]
  <2> HIDE DEF Late
  <2>1. "own" \in Kind /\ "memory" \in Kind /\ "artifact" \in Kind
    BY DEF Kind
  <2>2. Top("own") \in Late("own") \cup {lag["own"]}
    BY <1>7, <2>1
  <2>3. Top("memory") \in Late("memory") \cup {lag["memory"]}
        /\ Top("artifact") \in Late("artifact") \cup {lag["artifact"]}
    BY <1>7, <2>1
  <2> QED
    BY <1>1, <1>6, <2>1, <2>2, <2>3
<1>10. calls' = [calls EXCEPT ![p] = @ + Cardinality(joined[p])]
       /\ joined' = [joined EXCEPT ![p] = {}]
  BY DEF Resolve
<1>11. /\ calls[p] + Cardinality(joined[p]) <= MaxCalls
       /\ Cardinality(joined[p]) \in Nat /\ calls[p] \in 0..MaxCalls
  BY FS_CardinalityType DEF WaitingCounted, KeyListTypeOK
<1>12. calls[p] + Cardinality(joined[p]) \in 0..MaxCalls
  BY <1>2, <1>11
<1>13. calls' \in [Server -> 0..MaxCalls] /\ calls'[p] \in 0..MaxCalls
       /\ \A q \in Server : q # p => calls'[q] = calls[q]
  BY <1>10, <1>12 DEF KeyListTypeOK
<1>14. joined' \in [Server -> SUBSET Waiting] /\ joined'[p] = {}
       /\ \A q \in Server : q # p => joined'[q] = joined[q]
  BY <1>10 DEF WaitingCounted
<1>15. \A q \in Server : IsFiniteSet(joined'[q])
                          /\ calls'[q] + Cardinality(joined'[q]) <= MaxCalls
  <2>1. IsFiniteSet({}) /\ Cardinality({}) = 0
    BY FS_EmptySet
  <2>2. calls'[p] + 0 <= MaxCalls
    BY <1>2, <1>13
  <2> QED
    BY <1>13, <1>14, <2>1, <2>2 DEF WaitingCounted
<1>16. WaitingCounted'
  BY <1>14, <1>15 DEF WaitingCounted
<1> QED
  BY <1>8, <1>9, <1>13, <1>16

\* Every step keeps the types and the bound on the calls that wait.
LEMMA KeyTypesStep ==
  ASSUME KeyListTypeOK, WaitingCounted, FloorsAreRead, ListFollowsFingerprint, AnswersCurrent,
         [KeyListNext]_keyListVars
  PROVE  KeyListTypeOK' /\ WaitingCounted'
<1> DEFINE Goal == KeyListTypeOK' /\ WaitingCounted'
<1>1. /\ MaxRows \in Nat /\ MaxCalls \in Nat /\ NoList \notin Nat
      /\ corpus \in 0..MaxRows /\ ackedRows \in 0..corpus
      /\ meta \in Lists /\ artifact \in Lists
      /\ memory \in [Server -> Lists] /\ hook \in [Server -> BOOLEAN]
      /\ calls \in [Server -> 0..MaxCalls] /\ lag \in [Kind -> 0..MaxRows]
      /\ rebuilders \subseteq Server /\ behind \subseteq Server
  BY KeyListAssumption DEF KeyListTypeOK
<1>2. /\ rebuild \in [Server -> [fingerprint : 0..MaxRows, list : Lists,
                                 step : {"none", "scan", "artifact", "meta"}]]
      /\ joined \in [Server -> SUBSET Waiting]
  BY DEF KeyListTypeOK, WaitingCounted
<1>3. corpus \in Nat /\ ackedRows \in Nat /\ ackedRows <= corpus /\ ackedRows \in 0..MaxRows
  BY <1>1
<1>4. 0..MaxRows \subseteq Lists /\ NoList \in Lists
  BY DEF Lists
<1>5. ASSUME UNCHANGED <<joined, calls, rebuilders>> PROVE WaitingCounted'
  BY <1>5 DEF WaitingCounted
<1>6. NoRebuild \in [fingerprint : 0..MaxRows, list : Lists,
                     step : {"none", "scan", "artifact", "meta"}]
  BY <1>1, <1>4 DEF NoRebuild
<1>7. ASSUME NEW p \in Server, AppendRow(p) PROVE Goal
  <2>1. /\ corpus < MaxRows /\ corpus' = corpus + 1 /\ hook' = [hook EXCEPT ![p] = TRUE]
        /\ UNCHANGED <<ackedRows, meta, artifact, memory, rebuild, joined, calls, lag,
                       rebuilders, behind>>
    BY <1>7 DEF AppendRow
  <2>2. corpus' \in 0..MaxRows /\ ackedRows' \in 0..corpus' /\ hook' \in [Server -> BOOLEAN]
    BY <1>1, <1>3, <2>1
  <2> QED
    BY <1>5, <2>1, <2>2 DEF KeyListTypeOK
<1>8. ASSUME NEW p \in Server, InvalidateKeysCache(p) PROVE Goal
  <2>1. /\ hook' = [hook EXCEPT ![p] = FALSE] /\ memory' = [memory EXCEPT ![p] = NoList]
        /\ meta' = NoList /\ ackedRows' = corpus /\ behind' = behind \ {p}
        /\ UNCHANGED <<corpus, artifact, rebuild, joined, calls, lag, rebuilders>>
    BY <1>8 DEF InvalidateKeysCache
  <2>2. /\ hook' \in [Server -> BOOLEAN] /\ memory' \in [Server -> Lists]
        /\ ackedRows' \in 0..corpus'
    BY <1>1, <1>3, <1>4, <2>1
  <2> QED
    BY <1>1, <1>4, <1>5, <2>1, <2>2 DEF KeyListTypeOK
<1>9. ASSUME NEW p \in Server, Calls(p)
      PROVE  /\ Cardinality(joined[p]) \in Nat /\ IsFiniteSet(joined[p]) /\ calls[p] \in 0..MaxCalls
             /\ calls[p] + Cardinality(joined[p]) < MaxCalls
             /\ calls[p] + 1 \in 0..MaxCalls
             /\ calls[p] + 1 + Cardinality(joined[p]) <= MaxCalls
  <2>1. /\ Cardinality(joined[p]) \in Nat /\ IsFiniteSet(joined[p]) /\ calls[p] \in 0..MaxCalls
        /\ calls[p] + Cardinality(joined[p]) < MaxCalls
    BY <1>1, <1>9, FS_CardinalityType DEF WaitingCounted, Calls
  <2> QED
    BY <1>1, <2>1
<1>10. ASSUME NEW p \in Server, Calls(p), Answered(p), UNCHANGED <<joined, rebuilders>>
       PROVE  calls' \in [Server -> 0..MaxCalls] /\ WaitingCounted'
  <2>1. calls' \in [Server -> 0..MaxCalls] /\ calls'[p] = calls[p] + 1
        /\ \A q \in Server : q # p => calls'[q] = calls[q]
    BY <1>1, <1>9, <1>10 DEF Answered
  <2>2. \A q \in Server : IsFiniteSet(joined[q]) /\ calls'[q] + Cardinality(joined[q]) <= MaxCalls
    BY <1>9, <1>10, <2>1 DEF WaitingCounted
  <2> QED
    BY <1>10, <2>1, <2>2 DEF WaitingCounted
<1>11. ASSUME NEW kind \in Kind, NEW list \in 0..MaxRows, Record(kind, Lagging(ackedRows, list))
       PROVE  lag' \in [Kind -> 0..MaxRows]
  <2>1. lag[kind] \in 0..MaxRows
    BY <1>1
  <2>2. Lagging(ackedRows, list) \in 0..MaxRows
    BY <1>1, <1>3 DEF Lagging
  <2>3. Larger(lag[kind], Lagging(ackedRows, list)) \in 0..MaxRows
    BY <2>1, <2>2 DEF Larger
  <2> QED
    BY <1>1, <1>11, <2>3 DEF Record
<1>12. ASSUME NEW p \in Server, ServeFresh(p) PROVE Goal
  <2>1. /\ Calls(p) /\ Answered(p)
        /\ UNCHANGED <<corpus, ackedRows, meta, artifact, hook, rebuild, joined, rebuilders>>
    BY <1>12 DEF ServeFresh
  <2>2. \/ /\ memory[p] # NoList
           /\ \E kind \in {"behind", "memory"} : Record(kind, Lagging(ackedRows, memory[p]))
           /\ UNCHANGED <<memory, behind>>
        \/ /\ artifact # NoList /\ memory' = [memory EXCEPT ![p] = artifact]
           /\ Record("artifact", Lagging(ackedRows, artifact)) /\ behind' = behind \ {p}
    BY <1>12 DEF ServeFresh
  <2>3. "behind" \in Kind /\ "memory" \in Kind /\ "artifact" \in Kind
    BY DEF Kind
  <2>4. lag' \in [Kind -> 0..MaxRows]
    <3>1. memory[p] # NoList => memory[p] \in 0..MaxRows
      BY <1>1 DEF Lists
    <3>2. artifact # NoList => artifact \in 0..MaxRows
      BY <1>1 DEF Lists
    <3> QED
      BY <1>11, <2>2, <2>3, <3>1, <3>2
  <2>5. memory' \in [Server -> Lists] /\ behind' \subseteq Server
    BY <1>1, <2>2
  <2> QED
    BY <1>10, <2>1, <2>4, <2>5 DEF KeyListTypeOK
<1>13. ASSUME NEW p \in Server, ServeEmpty(p) PROVE Goal
  <2>1. /\ Calls(p) /\ Answered(p) /\ memory' = [memory EXCEPT ![p] = NoList]
        /\ UNCHANGED <<corpus, ackedRows, meta, artifact, hook, rebuild, joined, lag, rebuilders,
                       behind>>
    BY <1>13 DEF ServeEmpty
  <2>2. memory' \in [Server -> Lists]
    BY <1>1, <1>4, <2>1
  <2> QED
    BY <1>10, <2>1, <2>2 DEF KeyListTypeOK
<1>14. ASSUME NEW p \in Server, NeedsRebuild(p), NEW c \in Waiting, NEW rest \in {{}, joined[p]},
              joined' = [joined EXCEPT ![p] = rest \cup {c}], UNCHANGED <<calls, rebuilders>>
       PROVE  WaitingCounted'
  <2>1. /\ Cardinality(joined[p]) \in Nat /\ IsFiniteSet(joined[p])
        /\ calls[p] + 1 + Cardinality(joined[p]) <= MaxCalls /\ calls[p] \in 0..MaxCalls
    BY <1>9, <1>14 DEF NeedsRebuild
  <2>2. IsFiniteSet(rest) /\ Cardinality(rest) \in Nat /\ Cardinality(rest) <= Cardinality(joined[p])
    BY <2>1, FS_EmptySet
  <2>3. IsFiniteSet(rest \cup {c}) /\ Cardinality(rest \cup {c}) <= Cardinality(rest) + 1
        /\ Cardinality(rest \cup {c}) \in Nat
    <3>1. IsFiniteSet(rest \cup {c})
          /\ Cardinality(rest \cup {c}) = IF c \in rest THEN Cardinality(rest)
                                                       ELSE Cardinality(rest) + 1
      BY <2>2, FS_AddElement
    <3> QED
      BY <2>2, <3>1
  <2>4. calls[p] + Cardinality(rest \cup {c}) <= MaxCalls
    BY <1>1, <2>1, <2>2, <2>3
  <2>5. joined' \in [Server -> SUBSET Waiting] /\ joined'[p] = rest \cup {c}
        /\ \A q \in Server : q # p => joined'[q] = joined[q]
    BY <1>2, <1>14
  <2> QED
    BY <1>14, <2>3, <2>4, <2>5 DEF WaitingCounted
<1>15. ASSUME NEW p \in Server, StartRebuild(p) PROVE Goal
  <2> DEFINE c == [floor |-> ackedRows, own |-> TRUE, at |-> calls[p]]
             started == [fingerprint |-> corpus, list |-> NoList, step |-> "scan"]
  <2>1. /\ NeedsRebuild(p)
        /\ rebuild' = [rebuild EXCEPT ![p] = started]
        /\ joined' = [joined EXCEPT ![p] = {} \cup {c}]
        /\ UNCHANGED <<corpus, ackedRows, meta, artifact, memory, hook, calls, lag, rebuilders,
                       behind>>
    BY <1>15 DEF StartRebuild
  <2>2. c \in Waiting
    BY <1>1, <1>3 DEF Waiting
  <2>3. started \in [fingerprint : 0..MaxRows, list : Lists,
                     step : {"none", "scan", "artifact", "meta"}]
    BY <1>1, <1>4
  <2> HIDE DEF c, started
  <2>4. rebuild' \in [Server -> [fingerprint : 0..MaxRows, list : Lists,
                                 step : {"none", "scan", "artifact", "meta"}]]
    BY <1>2, <2>1, <2>3
  <2>5. WaitingCounted'
    BY <1>14, <2>1, <2>2
  <2> QED
    BY <2>1, <2>4, <2>5 DEF KeyListTypeOK
<1>16. ASSUME NEW p \in Server, JoinRebuild(p) PROVE Goal
  <2> DEFINE c == [floor |-> ackedRows, own |-> FALSE, at |-> calls[p] + Cardinality(joined[p])]
  <2>1. /\ NeedsRebuild(p)
        /\ joined' = [joined EXCEPT ![p] = joined[p] \cup {c}]
        /\ UNCHANGED <<corpus, ackedRows, meta, artifact, memory, hook, rebuild, calls, lag,
                       rebuilders, behind>>
    BY <1>16 DEF JoinRebuild
  <2>2. calls[p] \in Nat /\ Cardinality(joined[p]) \in Nat
    BY <1>1, <1>9, <2>1 DEF NeedsRebuild
  <2>3. c \in Waiting
    BY <1>3, <2>2 DEF Waiting
  <2> HIDE DEF c
  <2>4. WaitingCounted'
    BY <1>14, <2>1, <2>3
  <2> QED
    BY <2>1, <2>4 DEF KeyListTypeOK
<1>17. ASSUME NEW p \in Server, Scan(p) PROVE Goal
  <2>1. /\ rebuild' = [rebuild EXCEPT ![p].list = corpus, ![p].step = "artifact"]
        /\ UNCHANGED <<corpus, ackedRows, meta, artifact, memory, hook, joined, calls, lag,
                       rebuilders, behind>>
    BY <1>17 DEF Scan
  <2>2. rebuild' \in [Server -> [fingerprint : 0..MaxRows, list : Lists,
                                 step : {"none", "scan", "artifact", "meta"}]]
    BY <1>1, <1>2, <1>4, <2>1
  <2> QED
    BY <1>5, <2>1, <2>2 DEF KeyListTypeOK
<1>18. ASSUME NEW p \in Server, RenameArtifact(p) PROVE Goal
  <2>1. /\ artifact' = rebuild[p].list /\ rebuild' = [rebuild EXCEPT ![p].step = "meta"]
        /\ rebuilders' = rebuilders \cup {p}
        /\ UNCHANGED <<corpus, ackedRows, meta, memory, hook, joined, calls, lag, behind>>
    BY <1>18 DEF RenameArtifact
  <2>2. artifact' \in Lists
        /\ rebuild' \in [Server -> [fingerprint : 0..MaxRows, list : Lists,
                                    step : {"none", "scan", "artifact", "meta"}]]
    BY <1>2, <2>1
  <2>3. IsFiniteSet(rebuilders')
    BY <2>1, FS_AddElement DEF WaitingCounted
  <2>4. WaitingCounted'
    BY <2>1, <2>3 DEF WaitingCounted
  <2> QED
    BY <1>1, <2>1, <2>2, <2>4 DEF KeyListTypeOK
<1>19. ASSUME NEW p \in Server, Resolve(p, rebuild[p].list), rebuild[p].step = "meta",
              UNCHANGED rebuilders
       PROVE  /\ lag' \in [Kind -> 0..MaxRows] /\ calls' \in [Server -> 0..MaxCalls]
              /\ WaitingCounted'
  <2>1. rebuild[p].list \in 0..MaxRows
    BY <1>2, <1>19 DEF ListFollowsFingerprint, Lists
  <2>2. \A c \in joined[p] : c.own => c.floor <= rebuild[p].list
    BY <1>19 DEF FloorsAreRead
  <2> DEFINE list == rebuild[p].list
  <2> HIDE DEF list
  <2> QED
    BY <1>19, <2>1, <2>2, ResolveAnswers DEF AnswersCurrent, list
<1>20. ASSUME NEW p \in Server, Resolve(p, corpus), UNCHANGED rebuilders
       PROVE  /\ lag' \in [Kind -> 0..MaxRows] /\ calls' \in [Server -> 0..MaxCalls]
              /\ WaitingCounted'
  <2>1. \A c \in joined[p] : c.own => c.floor <= corpus
    BY DEF FloorsAreRead
  <2> QED
    BY <1>1, <1>20, <2>1, ResolveAnswers DEF AnswersCurrent
<1>21. ASSUME NEW p \in Server, rebuild' = [rebuild EXCEPT ![p] = NoRebuild]
       PROVE  rebuild' \in [Server -> [fingerprint : 0..MaxRows, list : Lists,
                                       step : {"none", "scan", "artifact", "meta"}]]
  BY <1>2, <1>6, <1>21
<1>22. ASSUME NEW p \in Server, RenameMeta(p) PROVE Goal
  <2>1. /\ meta' = rebuild[p].fingerprint /\ memory' = [memory EXCEPT ![p] = rebuild[p].list]
        /\ behind' \subseteq behind \cup Server
        /\ UNCHANGED <<corpus, ackedRows, artifact, hook, rebuilders>>
    BY <1>22 DEF RenameMeta
  <2>2. /\ lag' \in [Kind -> 0..MaxRows] /\ calls' \in [Server -> 0..MaxCalls]
        /\ WaitingCounted'
    BY <1>19, <1>22 DEF RenameMeta
  <2>3. meta' \in Lists /\ memory' \in [Server -> Lists]
    BY <1>1, <1>2, <1>4, <2>1
  <2>4. rebuild' = [rebuild EXCEPT ![p] = NoRebuild]
    BY <1>22 DEF RenameMeta, Resolve
  <2> QED
    BY <1>1, <1>21, <2>1, <2>2, <2>3, <2>4 DEF KeyListTypeOK
<1>23. ASSUME NEW p \in Server, RebuildFails(p) PROVE Goal
  <2>1. UNCHANGED <<corpus, ackedRows, meta, artifact, memory, hook, rebuilders, behind>>
    BY <1>23 DEF RebuildFails
  <2>2. /\ lag' \in [Kind -> 0..MaxRows] /\ calls' \in [Server -> 0..MaxCalls]
        /\ WaitingCounted'
    BY <1>20, <1>23 DEF RebuildFails
  <2>3. rebuild' = [rebuild EXCEPT ![p] = NoRebuild]
    BY <1>23 DEF RebuildFails, Resolve
  <2> QED
    BY <1>21, <2>1, <2>2, <2>3 DEF KeyListTypeOK
<1>24. ASSUME NEW p \in Server, RestartServer(p) PROVE Goal
  <2>1. /\ memory' = [memory EXCEPT ![p] = NoList] /\ hook' = [hook EXCEPT ![p] = FALSE]
        /\ rebuild' = [rebuild EXCEPT ![p] = NoRebuild]
        /\ joined' = [joined EXCEPT ![p] = {}] /\ behind' = behind \ {p}
        /\ UNCHANGED <<corpus, ackedRows, meta, artifact, calls, lag, rebuilders>>
    BY <1>24 DEF RestartServer
  <2>2. memory' \in [Server -> Lists] /\ hook' \in [Server -> BOOLEAN]
    BY <1>1, <1>4, <2>1
  <2>3. WaitingCounted'
    <3>1. IsFiniteSet({}) /\ Cardinality({}) = 0
      BY FS_EmptySet
    <3>2. joined' \in [Server -> SUBSET Waiting] /\ joined'[p] = {}
          /\ \A q \in Server : q # p => joined'[q] = joined[q]
      BY <1>2, <2>1
    <3>3. calls[p] + 0 <= MaxCalls
      BY <1>1
    <3> QED
      BY <2>1, <3>1, <3>2, <3>3 DEF WaitingCounted
  <2> QED
    BY <1>1, <1>21, <2>1, <2>2, <2>3 DEF KeyListTypeOK
<1>25. ASSUME UNCHANGED keyListVars PROVE Goal
  BY <1>5, <1>25 DEF keyListVars, KeyListTypeOK
<1> QED
  BY <1>7, <1>8, <1>12, <1>13, <1>15, <1>16, <1>17, <1>18, <1>22, <1>23, <1>24, <1>25
     DEF KeyListNext

\* A step that moves one rebuild.
LEMMA RebuildBecomes ==
  ASSUME KeyListTypeOK, NEW p \in Server, NEW r, rebuild' = [rebuild EXCEPT ![p] = r]
  PROVE  rebuild'[p] = r /\ \A q \in Server : q # p => rebuild'[q] = rebuild[q]
BY DEF KeyListTypeOK

\* The same for the calls that wait.
LEMMA JoinedBecomes ==
  ASSUME WaitingCounted, NEW p \in Server, NEW cs, joined' = [joined EXCEPT ![p] = cs]
  PROVE  joined'[p] = cs /\ \A q \in Server : q # p => joined'[q] = joined[q]
BY DEF WaitingCounted

\* A scan reads what was appended before it: the fingerprint and what the call
\* that began the rebuild waits for.
LEMMA FloorsStep ==
  ASSUME KeyListTypeOK, WaitingCounted, FloorsAreRead, ListFollowsFingerprint,
         [KeyListNext]_keyListVars
  PROVE  FloorsAreRead' /\ ListFollowsFingerprint'
<1> DEFINE Goal == FloorsAreRead' /\ ListFollowsFingerprint'
<1>1. /\ corpus \in Nat /\ ackedRows \in Nat /\ ackedRows <= corpus
      /\ NoList \notin Nat
  BY KeyListAssumption DEF KeyListTypeOK
<1>2. \A p \in Server : /\ rebuild[p].fingerprint \in Nat
                        /\ rebuild[p].list \in Nat \cup {NoList}
  BY KeyListAssumption DEF KeyListTypeOK, Lists
<1>3. \A p \in Server : \A c \in joined[p] : c.floor \in Nat
  BY KeyListAssumption DEF WaitingCounted, Waiting
<1>4. ASSUME UNCHANGED <<corpus, rebuild, joined>> PROVE Goal
  BY <1>4 DEF FloorsAreRead, ListFollowsFingerprint
<1>5. ASSUME NEW p \in Server, AppendRow(p) PROVE Goal
  <2>1. corpus' = corpus + 1 /\ UNCHANGED <<rebuild, joined>>
    BY <1>5 DEF AppendRow
  <2>2. \A n \in Nat : n <= corpus => n <= corpus'
    BY <1>1, <2>1
  <2>3. FloorsAreRead'
    BY <1>3, <2>1, <2>2 DEF FloorsAreRead
  <2>4. ListFollowsFingerprint'
    BY <1>2, <2>1, <2>2 DEF ListFollowsFingerprint
  <2> QED
    BY <2>3, <2>4
<1>6. ASSUME NEW p \in Server, StartRebuild(p) PROVE Goal
  <2> DEFINE c == [floor |-> ackedRows, own |-> TRUE, at |-> calls[p]]
             started == [fingerprint |-> corpus, list |-> NoList, step |-> "scan"]
  <2>1. /\ rebuild' = [rebuild EXCEPT ![p] = started] /\ joined' = [joined EXCEPT ![p] = {c}]
        /\ UNCHANGED corpus
    BY <1>6 DEF StartRebuild
  <2>2. c.floor <= corpus /\ started.step = "scan" /\ started.fingerprint <= corpus
    BY <1>1
  <2> HIDE DEF c, started
  <2>3. rebuild'[p] = started /\ \A q \in Server : q # p => rebuild'[q] = rebuild[q]
    BY <2>1, RebuildBecomes
  <2>4. joined'[p] = {c} /\ \A q \in Server : q # p => joined'[q] = joined[q]
    BY <2>1, JoinedBecomes
  <2>5. FloorsAreRead'
    BY <2>1, <2>2, <2>3, <2>4 DEF FloorsAreRead
  <2>6. ListFollowsFingerprint'
    BY <2>1, <2>2, <2>3 DEF ListFollowsFingerprint
  <2> QED
    BY <2>5, <2>6
<1>7. ASSUME NEW p \in Server, JoinRebuild(p) PROVE Goal
  <2> DEFINE c == [floor |-> ackedRows, own |-> FALSE, at |-> calls[p] + Cardinality(joined[p])]
             cs == joined[p] \cup {c}
  <2>1. joined' = [joined EXCEPT ![p] = cs] /\ UNCHANGED <<corpus, rebuild>>
    BY <1>7 DEF JoinRebuild
  <2>2. c.floor <= corpus /\ c.own = FALSE
    BY <1>1
  <2>3. \A d \in cs : d \in joined[p] \/ d = c
    OBVIOUS
  <2> HIDE DEF c, cs
  <2>4. joined'[p] = cs /\ \A q \in Server : q # p => joined'[q] = joined[q]
    BY <2>1, JoinedBecomes
  <2>5. FloorsAreRead'
    BY <2>1, <2>2, <2>3, <2>4 DEF FloorsAreRead
  <2> QED
    BY <2>1, <2>5 DEF ListFollowsFingerprint
<1>8. ASSUME NEW p \in Server, Scan(p) PROVE Goal
  <2> DEFINE r == [rebuild[p] EXCEPT !.list = corpus, !.step = "artifact"]
  <2>1. rebuild' = [rebuild EXCEPT ![p] = r]
    BY <1>8 DEF Scan, KeyListTypeOK
  <2>2. UNCHANGED <<corpus, joined>> /\ rebuild[p].step = "scan"
    BY <1>8 DEF Scan
  <2>3. r.list = corpus /\ r.step = "artifact" /\ r.fingerprint = rebuild[p].fingerprint
    BY DEF KeyListTypeOK
  <2> HIDE DEF r
  <2>4. rebuild'[p] = r /\ \A q \in Server : q # p => rebuild'[q] = rebuild[q]
    BY <2>1, RebuildBecomes
  <2>5. corpus # NoList /\ corpus <= corpus
    BY <1>1
  <2>6. FloorsAreRead'
    BY <2>2, <2>3, <2>4 DEF FloorsAreRead
  <2>7. ListFollowsFingerprint'
    BY <2>2, <2>3, <2>4, <2>5 DEF ListFollowsFingerprint
  <2> QED
    BY <2>6, <2>7
<1>9. ASSUME NEW p \in Server, RenameArtifact(p) PROVE Goal
  <2> DEFINE r == [rebuild[p] EXCEPT !.step = "meta"]
  <2>1. rebuild' = [rebuild EXCEPT ![p] = r] /\ UNCHANGED <<corpus, joined>>
        /\ rebuild[p].step = "artifact"
    BY <1>9 DEF RenameArtifact
  <2>2. r.list = rebuild[p].list /\ r.step = "meta" /\ r.fingerprint = rebuild[p].fingerprint
    BY DEF KeyListTypeOK
  <2> HIDE DEF r
  <2>3. rebuild'[p] = r /\ \A q \in Server : q # p => rebuild'[q] = rebuild[q]
    BY <2>1, RebuildBecomes
  <2>4. FloorsAreRead'
    BY <2>1, <2>2, <2>3 DEF FloorsAreRead
  <2>5. ListFollowsFingerprint'
    BY <2>1, <2>2, <2>3 DEF ListFollowsFingerprint
  <2> QED
    BY <2>4, <2>5
<1>10. ASSUME NEW p \in Server, RenameMeta(p) \/ RebuildFails(p) \/ RestartServer(p) PROVE Goal
  <2>1. /\ rebuild' = [rebuild EXCEPT ![p] = NoRebuild] /\ joined' = [joined EXCEPT ![p] = {}]
        /\ UNCHANGED corpus
    BY <1>10 DEF RenameMeta, RebuildFails, RestartServer, Resolve
  <2>2. rebuild'[p] = NoRebuild /\ \A q \in Server : q # p => rebuild'[q] = rebuild[q]
    BY <2>1, RebuildBecomes
  <2>3. joined'[p] = {} /\ \A q \in Server : q # p => joined'[q] = joined[q]
    BY <2>1, JoinedBecomes
  <2>4. FloorsAreRead'
    BY <2>1, <2>2, <2>3 DEF FloorsAreRead
  <2>5. ListFollowsFingerprint'
    BY <2>1, <2>2 DEF ListFollowsFingerprint, NoRebuild
  <2> QED
    BY <2>4, <2>5
<1>11. ASSUME NEW p \in Server, InvalidateKeysCache(p) \/ ServeFresh(p) \/ ServeEmpty(p) PROVE Goal
  BY <1>4, <1>11 DEF InvalidateKeysCache, ServeFresh, ServeEmpty
<1>12. ASSUME UNCHANGED keyListVars PROVE Goal
  BY <1>4, <1>12 DEF keyListVars
<1> QED
  BY <1>5, <1>6, <1>7, <1>8, <1>9, <1>10, <1>11, <1>12 DEF KeyListNext

\* The artifact is published before the meta file, by a process that is counted.
LEMMA PublishedStep ==
  ASSUME KeyListTypeOK, ListFollowsFingerprint, ArtifactIsPublished, [KeyListNext]_keyListVars
  PROVE  ArtifactIsPublished'
<1>1. corpus \in Nat /\ artifact \in Nat \cup {NoList} /\ NoList \notin Nat
  BY KeyListAssumption DEF KeyListTypeOK, Lists
<1>2. ASSUME UNCHANGED <<artifact, rebuilders>>, meta' \in {meta, NoList},
             corpus' \in {corpus, corpus + 1},
             \A p \in Server : rebuild'[p].step = "meta" => rebuild[p].step = "meta"
      PROVE  ArtifactIsPublished'
  <2>1. artifact # NoList => artifact <= corpus'
    <3>1. SUFFICES ASSUME artifact # NoList PROVE artifact <= corpus'
      OBVIOUS
    <3>2. artifact <= corpus
      BY <3>1 DEF ArtifactIsPublished
    <3> QED
      BY <1>1, <1>2, <3>1, <3>2
  <2> QED
    BY <1>2, <2>1 DEF ArtifactIsPublished
<1>3. ASSUME NEW p \in Server, RenameArtifact(p) PROVE ArtifactIsPublished'
  <2> DEFINE r == [rebuild[p] EXCEPT !.step = "meta"]
  <2>1. /\ rebuild' = [rebuild EXCEPT ![p] = r] /\ artifact' = rebuild[p].list
        /\ rebuilders' = rebuilders \cup {p} /\ rebuild[p].step = "artifact"
        /\ UNCHANGED <<corpus, meta>>
    BY <1>3 DEF RenameArtifact
  <2> HIDE DEF r
  <2>2. \A q \in Server : q # p => rebuild'[q] = rebuild[q]
    BY <2>1, RebuildBecomes
  <2>3. rebuild[p].list # NoList /\ rebuild[p].list <= corpus
    BY <2>1 DEF ListFollowsFingerprint
  <2> QED
    BY <2>1, <2>2, <2>3 DEF ArtifactIsPublished
<1>4. ASSUME NEW p \in Server, RenameMeta(p) PROVE ArtifactIsPublished'
  <2>1. /\ rebuild' = [rebuild EXCEPT ![p] = NoRebuild]
        /\ rebuild[p].step = "meta" /\ UNCHANGED <<corpus, artifact, rebuilders>>
    BY <1>4 DEF RenameMeta, Resolve
  <2>2. rebuild'[p] = NoRebuild /\ \A q \in Server : q # p => rebuild'[q] = rebuild[q]
    BY <2>1, RebuildBecomes
  <2>3. \A q \in Server : rebuild'[q].step = "meta" => rebuild[q].step = "meta"
    BY <2>2 DEF NoRebuild
  <2>4. artifact # NoList
    BY <2>1 DEF ArtifactIsPublished
  <2> QED
    BY <2>1, <2>3, <2>4 DEF ArtifactIsPublished
<1>5. ASSUME NEW p \in Server, NEW r, r.step # "meta", rebuild' = [rebuild EXCEPT ![p] = r],
             UNCHANGED <<corpus, artifact, meta, rebuilders>>
      PROVE  ArtifactIsPublished'
  <2>1. \A q \in Server : rebuild'[q].step = "meta" => rebuild[q].step = "meta"
    BY <1>5, RebuildBecomes
  <2> QED
    BY <1>2, <1>5, <2>1
<1>6. ASSUME NEW p \in Server, StartRebuild(p) PROVE ArtifactIsPublished'
  <2> DEFINE r == [fingerprint |-> corpus, list |-> NoList, step |-> "scan"]
  <2>1. /\ r.step # "meta" /\ rebuild' = [rebuild EXCEPT ![p] = r]
        /\ UNCHANGED <<corpus, artifact, meta, rebuilders>>
    BY <1>6 DEF StartRebuild
  <2> HIDE DEF r
  <2> QED
    BY <1>5, <2>1
<1>7. ASSUME NEW p \in Server, Scan(p) PROVE ArtifactIsPublished'
  <2> DEFINE r == [rebuild[p] EXCEPT !.list = corpus, !.step = "artifact"]
  <2>1. rebuild' = [rebuild EXCEPT ![p] = r] /\ UNCHANGED <<corpus, artifact, meta, rebuilders>>
    BY <1>7 DEF Scan, KeyListTypeOK
  <2>2. r.step # "meta"
    BY DEF KeyListTypeOK
  <2> HIDE DEF r
  <2> QED
    BY <1>5, <2>1, <2>2
<1>8. ASSUME NEW p \in Server, RebuildFails(p) \/ RestartServer(p) PROVE ArtifactIsPublished'
  <2>1. /\ rebuild' = [rebuild EXCEPT ![p] = NoRebuild]
        /\ UNCHANGED <<corpus, artifact, meta, rebuilders>>
    BY <1>8 DEF RebuildFails, RestartServer, Resolve
  <2>2. NoRebuild.step # "meta"
    BY DEF NoRebuild
  <2> QED
    BY <1>5, <2>1, <2>2
<1>9. ASSUME NEW p \in Server, \/ AppendRow(p) \/ InvalidateKeysCache(p) \/ ServeFresh(p)
                               \/ ServeEmpty(p) \/ JoinRebuild(p)
      PROVE  ArtifactIsPublished'
  <2>1. /\ UNCHANGED <<artifact, rebuilders, rebuild>> /\ meta' \in {meta, NoList}
        /\ corpus' \in {corpus, corpus + 1}
    BY <1>9 DEF AppendRow, InvalidateKeysCache, ServeFresh, ServeEmpty, JoinRebuild
  <2> QED
    BY <1>2, <2>1
<1>10. ASSUME UNCHANGED keyListVars PROVE ArtifactIsPublished'
  BY <1>2, <1>10 DEF keyListVars
<1> QED
  BY <1>3, <1>4, <1>6, <1>7, <1>8, <1>9, <1>10 DEF KeyListNext

\* While one process rebuilds, the meta file stays behind the artifact and behind
\* every list in memory that is not marked.
LEMMA SidecarStep ==
  ASSUME KeyListTypeOK, ListFollowsFingerprint, ArtifactIsPublished, SidecarInStep,
         [KeyListNext]_keyListVars
  PROVE  SidecarInStep'
<1>1. /\ corpus \in Nat /\ NoList \notin Nat
      /\ artifact \in Nat \cup {NoList} /\ meta \in Nat \cup {NoList}
      /\ \A p \in Server : /\ memory[p] \in Nat \cup {NoList}
                           /\ rebuild[p].list \in Nat \cup {NoList}
                           /\ rebuild[p].fingerprint \in Nat
  BY KeyListAssumption DEF KeyListTypeOK, Lists
<1>2. ASSUME NEW p \in Server, NEW list, memory' = [memory EXCEPT ![p] = list]
      PROVE  memory'[p] = list /\ \A q \in Server : q # p => memory'[q] = memory[q]
  BY <1>2 DEF KeyListTypeOK
<1>3. ASSUME UNCHANGED <<artifact, rebuilders, rebuild>>, meta' \in {meta, NoList},
             NEW p \in Server, behind \ {p} \subseteq behind',
             \A q \in Server : q # p => memory'[q] = memory[q],
             \/ memory'[p] = memory[p] /\ (p \in behind => p \in behind')
             \/ memory'[p] = NoList
             \/ memory'[p] = artifact
      PROVE  SidecarInStep'
  <2>1. Single' <=> Single
    BY <1>3 DEF Single
  <2>2. SUFFICES ASSUME Single, Single' PROVE SidecarInStep'
    BY <2>1 DEF SidecarInStep
  <2>3. meta' # NoList => meta' <= artifact'
    BY <1>3, <2>2 DEF SidecarInStep
  <2>4. ASSUME NEW q \in Server, q \notin behind', memory'[q] # NoList, meta' # NoList
        PROVE  meta' <= memory'[q]
    <3>1. meta # NoList /\ meta' = meta /\ meta <= artifact
      BY <1>3, <2>2, <2>4 DEF SidecarInStep
    <3>2. CASE q # p \/ memory'[p] = memory[p]
      <4>1. memory'[q] = memory[q] /\ (q \notin behind \/ memory'[q] = artifact)
        BY <1>3, <2>4, <3>2
      <4> QED
        BY <2>2, <2>4, <3>1, <4>1 DEF SidecarInStep
    <3>3. CASE q = p /\ memory'[p] # memory[p]
      BY <1>3, <2>4, <3>1, <3>3
    <3> QED
      BY <3>2, <3>3
  <2>5. \A q \in Server :
          /\ rebuild'[q].step = "artifact" /\ rebuilders' \subseteq {q} /\ artifact' # NoList =>
               artifact' <= rebuild'[q].list
          /\ rebuild'[q].step = "meta" => artifact' = rebuild'[q].list
    BY <1>3, <2>2 DEF SidecarInStep
  <2> QED
    BY <2>3, <2>4, <2>5 DEF SidecarInStep
<1>4. ASSUME NEW p \in Server, AppendRow(p) \/ JoinRebuild(p) PROVE SidecarInStep'
  <2>1. UNCHANGED <<artifact, rebuilders, rebuild, meta, behind, memory>>
    BY <1>4 DEF AppendRow, JoinRebuild
  <2> QED
    BY <1>3, <2>1
<1>5. ASSUME NEW p \in Server, InvalidateKeysCache(p) \/ ServeEmpty(p) PROVE SidecarInStep'
  <2>1. /\ UNCHANGED <<artifact, rebuilders, rebuild>> /\ meta' \in {meta, NoList}
        /\ behind \ {p} \subseteq behind' /\ memory' = [memory EXCEPT ![p] = NoList]
    BY <1>5 DEF InvalidateKeysCache, ServeEmpty
  <2> QED
    BY <1>2, <1>3, <2>1
<1>6. ASSUME NEW p \in Server, ServeFresh(p) PROVE SidecarInStep'
  <2>1. /\ UNCHANGED <<artifact, rebuilders, rebuild, meta>>
        /\ \/ UNCHANGED <<memory, behind>>
           \/ memory' = [memory EXCEPT ![p] = artifact] /\ behind' = behind \ {p}
    BY <1>6 DEF ServeFresh
  <2> QED
    BY <1>2, <1>3, <2>1
<1>7. ASSUME NEW p \in Server, NEW r, rebuild' = [rebuild EXCEPT ![p] = r],
             UNCHANGED <<artifact, rebuilders, meta>>,
             \A q \in Server : memory'[q] \in {memory[q], NoList},
             behind \ {p} \subseteq behind', memory'[p] = NoList \/ UNCHANGED behind,
             \/ r.step \in {"none", "scan"}
             \/ r.step = "artifact" /\ r.list = corpus
      PROVE  SidecarInStep'
  <2>1. Single' <=> Single
    BY <1>7 DEF Single
  <2>2. SUFFICES ASSUME Single, Single' PROVE SidecarInStep'
    BY <2>1 DEF SidecarInStep
  <2>3. rebuild'[p] = r /\ \A q \in Server : q # p => rebuild'[q] = rebuild[q]
    BY <1>7, RebuildBecomes
  <2>4. artifact # NoList => artifact <= corpus
    BY DEF ArtifactIsPublished
  <2>5. \A q \in Server : q \notin behind' /\ memory'[q] # NoList =>
                            q \notin behind /\ memory'[q] = memory[q]
    BY <1>7
  <2>6. meta' # NoList => meta' <= artifact'
    BY <1>7, <2>2 DEF SidecarInStep
  <2>7. \A q \in Server : q \notin behind' /\ memory'[q] # NoList /\ meta' # NoList =>
                            meta' <= memory'[q]
    BY <1>7, <2>2, <2>5 DEF SidecarInStep
  <2>8. \A q \in Server :
          /\ rebuild'[q].step = "artifact" /\ rebuilders' \subseteq {q} /\ artifact' # NoList =>
               artifact' <= rebuild'[q].list
          /\ rebuild'[q].step = "meta" => artifact' = rebuild'[q].list
    BY <1>7, <2>2, <2>3, <2>4 DEF SidecarInStep
  <2> QED
    BY <2>6, <2>7, <2>8 DEF SidecarInStep
<1>8. ASSUME NEW p \in Server, StartRebuild(p) PROVE SidecarInStep'
  <2> DEFINE r == [fingerprint |-> corpus, list |-> NoList, step |-> "scan"]
  <2>1. /\ r.step = "scan" /\ rebuild' = [rebuild EXCEPT ![p] = r]
        /\ UNCHANGED <<artifact, rebuilders, meta, memory, behind>>
    BY <1>8 DEF StartRebuild
  <2> HIDE DEF r
  <2> QED
    BY <1>7, <2>1
<1>9. ASSUME NEW p \in Server, Scan(p) PROVE SidecarInStep'
  <2> DEFINE r == [rebuild[p] EXCEPT !.list = corpus, !.step = "artifact"]
  <2>1. /\ rebuild' = [rebuild EXCEPT ![p] = r]
        /\ UNCHANGED <<artifact, rebuilders, meta, memory, behind>>
    BY <1>9 DEF Scan, KeyListTypeOK
  <2>2. r.step = "artifact" /\ r.list = corpus
    BY DEF KeyListTypeOK
  <2> HIDE DEF r
  <2> QED
    BY <1>7, <2>1, <2>2
<1>10. ASSUME NEW p \in Server, RebuildFails(p) \/ RestartServer(p) PROVE SidecarInStep'
  <2>1. /\ rebuild' = [rebuild EXCEPT ![p] = NoRebuild]
        /\ UNCHANGED <<artifact, meta, rebuilders>> /\ behind \ {p} \subseteq behind'
        /\ \/ UNCHANGED <<memory, behind>>
           \/ memory' = [memory EXCEPT ![p] = NoList]
    BY <1>10 DEF RebuildFails, RestartServer, Resolve
  <2>2. NoRebuild.step = "none"
    BY DEF NoRebuild
  <2>3. \A q \in Server : memory'[q] \in {memory[q], NoList}
    BY <1>2, <2>1
  <2>4. memory'[p] = NoList \/ UNCHANGED behind
    BY <1>2, <2>1
  <2> QED
    BY <1>7, <2>1, <2>2, <2>3, <2>4
<1>11. ASSUME NEW p \in Server, RenameArtifact(p) PROVE SidecarInStep'
  <2> DEFINE r == [rebuild[p] EXCEPT !.step = "meta"]
  <2>1. /\ rebuild' = [rebuild EXCEPT ![p] = r] /\ artifact' = rebuild[p].list
        /\ rebuilders' = rebuilders \cup {p} /\ rebuild[p].step = "artifact"
        /\ UNCHANGED <<memory, meta, behind>>
    BY <1>11 DEF RenameArtifact
  <2>2. r.step = "meta" /\ r.list = rebuild[p].list
    BY DEF KeyListTypeOK
  <2> HIDE DEF r
  <2>3. rebuild'[p] = r /\ \A q \in Server : q # p => rebuild'[q] = rebuild[q]
    BY <2>1, RebuildBecomes
  <2>4. SUFFICES ASSUME Single' PROVE SidecarInStep'
    BY DEF SidecarInStep
  <2>5. Single /\ rebuilders' = {p} /\ rebuilders \subseteq {p}
    BY <2>1, <2>4 DEF Single
  <2>6. artifact # NoList => artifact <= artifact'
    BY <2>1, <2>5 DEF SidecarInStep
  <2>7. artifact' \in Nat
    BY <1>1, <2>1 DEF ListFollowsFingerprint
  <2>8. meta' # NoList => meta' <= artifact'
    <3>1. meta # NoList => artifact # NoList /\ meta <= artifact
      BY <2>5 DEF SidecarInStep, ArtifactIsPublished
    <3> QED
      BY <1>1, <2>1, <2>6, <2>7, <3>1
  <2>9. \A q \in Server : q # p => rebuild'[q].step # "meta"
    BY <2>3, <2>5 DEF ArtifactIsPublished
  <2>10. \A q \in Server : rebuilders' \subseteq {q} => q = p
    BY <2>5
  <2>11. \A q \in Server :
           /\ rebuild'[q].step = "artifact" /\ rebuilders' \subseteq {q} /\ artifact' # NoList =>
                artifact' <= rebuild'[q].list
           /\ rebuild'[q].step = "meta" => artifact' = rebuild'[q].list
    BY <2>1, <2>2, <2>3, <2>9, <2>10
  <2>12. \A q \in Server : q \notin behind' /\ memory'[q] # NoList /\ meta' # NoList =>
                             meta' <= memory'[q]
    BY <2>1, <2>5 DEF SidecarInStep
  <2> QED
    BY <2>8, <2>11, <2>12 DEF SidecarInStep
<1>12. ASSUME NEW p \in Server, RenameMeta(p) PROVE SidecarInStep'
  <2> DEFINE list == rebuild[p].list
  <2>1. /\ rebuild' = [rebuild EXCEPT ![p] = NoRebuild] /\ rebuild[p].step = "meta"
        /\ meta' = rebuild[p].fingerprint /\ memory' = [memory EXCEPT ![p] = list]
        /\ behind' = (behind \cup {q \in Server : memory[q] # NoList}) \ {p}
        /\ UNCHANGED <<artifact, rebuilders>>
    BY <1>12 DEF RenameMeta, Resolve
  <2>2. rebuild[p].fingerprint <= list
    BY <2>1 DEF ListFollowsFingerprint
  <2> HIDE DEF list
  <2>3. rebuild'[p].step = "none" /\ \A q \in Server : q # p => rebuild'[q] = rebuild[q]
    <3>1. rebuild'[p] = NoRebuild /\ \A q \in Server : q # p => rebuild'[q] = rebuild[q]
      BY <2>1, RebuildBecomes
    <3>2. NoRebuild.step = "none"
      BY DEF NoRebuild
    <3> QED
      BY <3>1, <3>2
  <2>4. memory'[p] = list /\ \A q \in Server : q # p => memory'[q] = memory[q]
    BY <1>2, <2>1
  <2>5. Single' <=> Single
    BY <2>1 DEF Single
  <2>6. SUFFICES ASSUME Single, Single' PROVE SidecarInStep'
    BY <2>5 DEF SidecarInStep
  <2>7. artifact = list
    BY <2>1, <2>6 DEF SidecarInStep, list
  <2>8. meta' <= artifact'
    BY <2>1, <2>2, <2>7
  <2>9. ASSUME NEW q \in Server, q \notin behind', memory'[q] # NoList PROVE meta' <= memory'[q]
    <3>1. q = p
      BY <2>1, <2>4, <2>9
    <3> QED
      BY <2>1, <2>2, <2>4, <3>1
  <2>10. \A q \in Server :
           /\ rebuild'[q].step = "artifact" /\ rebuilders' \subseteq {q} /\ artifact' # NoList =>
                artifact' <= rebuild'[q].list
           /\ rebuild'[q].step = "meta" => artifact' = rebuild'[q].list
    BY <2>1, <2>3, <2>6 DEF SidecarInStep
  <2> QED
    BY <2>8, <2>9, <2>10 DEF SidecarInStep
<1>13. ASSUME UNCHANGED keyListVars PROVE SidecarInStep'
  BY <1>13 DEF keyListVars, SidecarInStep, Single
<1> QED
  BY <1>4, <1>5, <1>6, <1>8, <1>9, <1>10, <1>11, <1>12, <1>13 DEF KeyListNext

\* A warm answer of the one rebuilder's sidecar shows what is acknowledged, and
\* the call that rebuilds never lags.
LEMMA AnswersStep ==
  ASSUME KeyListTypeOK, WaitingCounted, FloorsAreRead, ListFollowsFingerprint,
         ArtifactIsPublished, SidecarInStep, AnswersCurrent, [KeyListNext]_keyListVars
  PROVE  AnswersCurrent'
<1>1. /\ corpus \in Nat /\ ackedRows \in Nat /\ ackedRows <= corpus /\ NoList \notin Nat
      /\ corpus \in 0..MaxRows
      /\ artifact \in Nat \cup {NoList} /\ meta \in Nat \cup {NoList}
      /\ \A p \in Server : memory[p] \in Nat \cup {NoList}
      /\ \A p \in Server : rebuild[p].list \in 0..MaxRows \cup {NoList}
      /\ lag \in [Kind -> 0..MaxRows]
  BY KeyListAssumption DEF KeyListTypeOK, Lists
<1>2. "own" \in Kind /\ "memory" \in Kind /\ "artifact" \in Kind /\ "behind" \in Kind
  BY DEF Kind
<1>3. ASSUME lag'["own"] = lag["own"], rebuilders \subseteq rebuilders',
             Single => lag'["memory"] = lag["memory"] /\ lag'["artifact"] = lag["artifact"]
      PROVE  AnswersCurrent'
  BY <1>3 DEF AnswersCurrent, Single
<1>4. ASSUME NEW p \in Server, ServeFresh(p) PROVE AnswersCurrent'
  <2>1. UNCHANGED rebuilders /\ meta = corpus /\ meta # NoList
    BY <1>1, <1>4 DEF ServeFresh, Fresh
  <2>2. ASSUME NEW list \in Nat, ackedRows <= list PROVE Lagging(ackedRows, list) = 0
    BY <1>1, <2>2 DEF Lagging
  <2>3. ASSUME NEW kind \in Kind \ {"own"}, NEW list, Record(kind, list)
        PROVE  lag'["own"] = lag["own"]
               /\ \A k \in Kind : k # kind => lag'[k] = lag[k]
               /\ lag'[kind] = Larger(lag[kind], list)
    BY <1>1, <1>2, <2>3 DEF Record
  <2>4. CASE memory[p] # NoList /\ p \in behind /\ Record("behind", Lagging(ackedRows, memory[p]))
    BY <1>2, <1>3, <2>1, <2>3, <2>4
  <2>5. CASE memory[p] # NoList /\ p \notin behind
             /\ Record("memory", Lagging(ackedRows, memory[p]))
    <3>1. Single => meta <= memory[p]
      BY <2>1, <2>5 DEF SidecarInStep
    <3>2. Single => ackedRows <= memory[p]
      BY <1>1, <2>1, <2>5, <3>1
    <3>3. Single => Lagging(ackedRows, memory[p]) = 0
      BY <1>1, <2>2, <2>5, <3>2
    <3>4. Single => lag'["memory"] = 0
      BY <1>2, <2>3, <2>5, <3>3 DEF AnswersCurrent, Larger
    <3>5. lag'["own"] = lag["own"] /\ lag'["artifact"] = lag["artifact"]
      BY <1>2, <2>3, <2>5
    <3> QED
      BY <1>3, <2>1, <3>4, <3>5 DEF AnswersCurrent
  <2>6. CASE artifact # NoList /\ Record("artifact", Lagging(ackedRows, artifact))
    <3>1. Single => meta <= artifact
      BY <2>1, <2>6 DEF SidecarInStep
    <3>2. Single => ackedRows <= artifact
      BY <1>1, <2>1, <2>6, <3>1
    <3>3. Single => Lagging(ackedRows, artifact) = 0
      BY <1>1, <2>2, <2>6, <3>2
    <3>4. Single => lag'["artifact"] = 0
      BY <1>2, <2>3, <2>6, <3>3 DEF AnswersCurrent, Larger
    <3>5. lag'["own"] = lag["own"] /\ lag'["memory"] = lag["memory"]
      BY <1>2, <2>3, <2>6
    <3> QED
      BY <1>3, <2>1, <3>4, <3>5 DEF AnswersCurrent
  <2> QED
    BY <1>4, <2>4, <2>5, <2>6 DEF ServeFresh
<1>5. ASSUME NEW p \in Server, RenameMeta(p) PROVE AnswersCurrent'
  <2> DEFINE list == rebuild[p].list
  <2>1. rebuild[p].step = "meta" /\ Resolve(p, list) /\ UNCHANGED rebuilders
    BY <1>5 DEF RenameMeta
  <2>2. list \in 0..MaxRows
    BY <1>1, <2>1 DEF ListFollowsFingerprint
  <2>3. \A c \in joined[p] : c.own => c.floor <= list
    BY <2>1 DEF FloorsAreRead
  <2> HIDE DEF list
  <2>4. lag'["own"] = 0 /\ lag'["memory"] = lag["memory"] /\ lag'["artifact"] = lag["artifact"]
    BY <2>1, <2>2, <2>3, ResolveAnswers DEF AnswersCurrent
  <2> QED
    BY <1>3, <2>1, <2>4 DEF AnswersCurrent
<1>6. ASSUME NEW p \in Server, RebuildFails(p) PROVE AnswersCurrent'
  <2>1. Resolve(p, corpus) /\ UNCHANGED rebuilders
    BY <1>6 DEF RebuildFails
  <2>2. \A c \in joined[p] : c.own => c.floor <= corpus
    BY DEF FloorsAreRead
  <2>3. lag'["own"] = 0 /\ lag'["memory"] = lag["memory"] /\ lag'["artifact"] = lag["artifact"]
    BY <1>1, <2>1, <2>2, ResolveAnswers DEF AnswersCurrent
  <2> QED
    BY <1>3, <2>1, <2>3 DEF AnswersCurrent
<1>7. ASSUME NEW p \in Server,
             \/ AppendRow(p) \/ InvalidateKeysCache(p) \/ ServeEmpty(p) \/ StartRebuild(p)
             \/ JoinRebuild(p) \/ Scan(p) \/ RenameArtifact(p) \/ RestartServer(p)
      PROVE  AnswersCurrent'
  <2>1. UNCHANGED lag /\ rebuilders \subseteq rebuilders'
    BY <1>7 DEF AppendRow, InvalidateKeysCache, ServeEmpty, StartRebuild, JoinRebuild, Scan,
       RenameArtifact, RestartServer
  <2> QED
    BY <1>3, <2>1
<1>8. ASSUME UNCHANGED keyListVars PROVE AnswersCurrent'
  BY <1>3, <1>8 DEF keyListVars
<1> QED
  BY <1>4, <1>5, <1>6, <1>7, <1>8 DEF KeyListNext

\* The initial states satisfy the invariant.
LEMMA KeyListInits ==
  ASSUME KeyListInit
  PROVE  KeyListInvariant
<1>1. /\ corpus \in {0, 1} \cap 0..MaxRows /\ ackedRows = corpus /\ meta = NoList /\ artifact = NoList
      /\ memory = [p \in Server |-> NoList] /\ hook = [p \in Server |-> FALSE]
      /\ rebuild = [p \in Server |-> NoRebuild] /\ joined = [p \in Server |-> {}]
      /\ calls = [p \in Server |-> 0] /\ lag = [k \in Kind |-> 0]
      /\ rebuilders = {} /\ behind = {}
  BY DEF KeyListInit
<1>2. MaxRows \in Nat /\ MaxCalls \in Nat
  BY <1>1, KeyListAssumption
<1>3. KeyListTypeOK
  <2>1. corpus \in 0..MaxRows /\ ackedRows \in 0..corpus /\ 0 \in 0..MaxRows /\ 0 \in 0..MaxCalls
    BY <1>1, <1>2
  <2>2. NoList \in Lists /\ 0 \in 0..MaxRows
    BY <2>1 DEF Lists
  <2>3. NoRebuild \in [fingerprint : 0..MaxRows, list : Lists,
                       step : {"none", "scan", "artifact", "meta"}]
    BY <2>2 DEF NoRebuild
  <2> QED
    BY <1>1, <2>1, <2>2, <2>3 DEF KeyListTypeOK
<1>4. WaitingCounted
  <2>1. IsFiniteSet({}) /\ Cardinality({}) = 0
    BY FS_EmptySet
  <2>2. joined \in [Server -> SUBSET Waiting]
    BY <1>1
  <2>3. 0 + 0 <= MaxCalls
    BY <1>2
  <2> QED
    BY <1>1, <2>1, <2>2, <2>3 DEF WaitingCounted
<1>5. \A p \in Server : rebuild[p].step = "none"
  BY <1>1 DEF NoRebuild
<1>6. FloorsAreRead /\ ListFollowsFingerprint
  BY <1>1, <1>5 DEF FloorsAreRead, ListFollowsFingerprint
<1>7. ArtifactIsPublished /\ SidecarInStep
  BY <1>1, <1>5 DEF ArtifactIsPublished, SidecarInStep
<1>8. AnswersCurrent
  BY <1>1 DEF AnswersCurrent, Kind
<1> QED
  BY <1>3, <1>4, <1>6, <1>7, <1>8 DEF KeyListInvariant

\* KeyListInvariant holds throughout: the sidecar and the memory entries of
\* src/keys/keyListCache.ts, with the appends and rebuilds of all processes.
THEOREM KeyListInvariantHolds == KeyListSpec => []KeyListInvariant
<1>1. KeyListInit => KeyListInvariant
  BY KeyListInits
<1>2. KeyListInvariant /\ [KeyListNext]_keyListVars => KeyListInvariant'
  <2>1. SUFFICES ASSUME KeyListInvariant, [KeyListNext]_keyListVars PROVE KeyListInvariant'
    OBVIOUS
  <2>2. /\ KeyListTypeOK /\ WaitingCounted /\ FloorsAreRead /\ ListFollowsFingerprint
        /\ ArtifactIsPublished /\ SidecarInStep /\ AnswersCurrent
    BY <2>1 DEF KeyListInvariant
  <2>3. KeyListTypeOK' /\ WaitingCounted'
    BY <2>1, <2>2, KeyTypesStep
  <2>4. FloorsAreRead' /\ ListFollowsFingerprint'
    BY <2>1, <2>2, FloorsStep
  <2>5. ArtifactIsPublished' /\ SidecarInStep'
    BY <2>1, <2>2, PublishedStep, SidecarStep
  <2>6. AnswersCurrent'
    BY <2>1, <2>2, AnswersStep
  <2> QED
    BY <2>3, <2>4, <2>5, <2>6 DEF KeyListInvariant
<1> QED
  BY <1>1, <1>2, PTL DEF KeyListSpec

\* A warm answer is what a cold one would be while one process rebuilds the
\* sidecar, and the call that rebuilds never misses an acknowledged row.
THEOREM WarmIsColdHolds == KeyListSpec => []WarmIsCold
<1>1. KeyListInvariant => WarmIsCold
  <2>1. SUFFICES ASSUME KeyListInvariant PROVE WarmIsCold
    OBVIOUS
  <2>2. KeyListTypeOK /\ IsFiniteSet(rebuilders) /\ AnswersCurrent
    BY <2>1 DEF KeyListInvariant, WaitingCounted
  <2>3. Cardinality(rebuilders) <= 1 => Single
    BY <2>2, AtMostOne DEF Single
  <2> QED
    BY <2>2, <2>3 DEF WarmIsCold, AnswersCurrent
<1> QED
  BY <1>1, KeyListInvariantHolds, PTL

--------------------------------------------------------------------------------
(***************************************************************************)
(* The keyword index, for any number of processes, rows and faults.        *)
(* SearchInvariant is inductive; ServedIsCurrent follows from it.          *)
(***************************************************************************)

\* The index as a specification of its own.
SearchSpec == SearchInit /\ [][SearchNext]_searchVars

\* A flight that has created the lock file and not removed it.
Owns(p) == flight[p].at \in {"opened", "owns", "staged", "built", "renamed", "done"}

\* Every row up to the given one is among the first rows, or was written while a
\* rebuild ran.
Covered(upTo, first) == 1..upTo \subseteq 1..first \cup racedRows

\* The lock file is that of the one flight which owns it, and its process lives.
OneOwner ==
  ~stoleLock =>
    \A p \in Searcher : Owns(p) =>
      rebuildLock # NoIndex /\ rebuildLock.by = p /\ ~rebuildLock.dead

\* What the owner has staged, loaded and renamed is still there, and lacks only
\* rows that were written since.
BuildUndisturbed ==
  ~stoleLock =>
    \A p \in Searcher :
      /\ flight[p].at \in {"staged", "built"} =>
           sidecar.db = NoIndex /\ sidecar.indexedAt = NoIndex
      /\ flight[p].at = "staged" => sidecar.staged = flight[p].rows /\ sidecar.tmp.by = p
      /\ flight[p].at = "built" /\ sidecar.tmp # NoIndex =>
           sidecar.tmp.rows = flight[p].rows /\ sidecar.tmp.whole
      /\ flight[p].at \in {"renamed", "done"} =>
           sidecar.db.rows = flight[p].rows /\ sidecar.db.whole
      /\ flight[p].at \in {"staged", "built", "renamed", "done"} =>
           Covered(sourceRows, flight[p].rows)
      /\ flight[p].at = "done" /\ sidecar.indexedAt # NoIndex =>
           Covered(sourceRows, sidecar.indexedAt)

\* The meta claims no row that the index lacks, except raced ones.
MetaIsTrue ==
  ~stoleLock /\ sidecar.db # NoIndex /\ sidecar.indexedAt # NoIndex =>
    sidecar.db.whole /\ Covered(sidecar.indexedAt, sidecar.db.rows)

\* The meta that a waiter finds without a lock is its owner's result.
WaiterFindsResult ==
  ~stoleLock /\ rebuildLock = NoIndex /\ sidecar.indexedAt # NoIndex =>
    \A p \in Searcher : At(p, "wait") /\ ~flight[p].deserted =>
      Covered(sourceRows, sidecar.indexedAt)

\* What ServedIsCurrent says of the searches.
SearchesServed ==
  ~stoleLock /\ sidecar.db # NoIndex =>
    \A p \in Searcher :
      reading[p].at = "query" /\ ~reading[p].excused =>
        sidecar.db.whole /\ Covered(reading[p].since, sidecar.db.rows)

Flight == [at : {"idle", "race", "opened", "reap", "wait", "owns", "staged", "built", "renamed",
                 "done"},
           rows : 0..MaxSourceRows, deserted : BOOLEAN]
Reading == [at : {"idle", "ensure", "query"}, since : 0..MaxSourceRows, excused : BOOLEAN]
LockFile == [by : Searcher, named : BOOLEAN, dead : BOOLEAN, old : BOOLEAN]
Sidecar == [db : IndexFile, tmp : IndexFile, indexedAt : 0..MaxSourceRows \cup {NoIndex},
            staged : 0..MaxSourceRows \cup {NoIndex}]

\* The types in full.
SearchTypes ==
  /\ sidecar \in Sidecar
  /\ flight \in [Searcher -> Flight]
  /\ reading \in [Searcher -> Reading]
  /\ stoleLock \in BOOLEAN

\* The inductive invariant.
SearchInvariant ==
  /\ SearchTypeOK
  /\ SearchTypes
  /\ OneOwner
  /\ BuildUndisturbed
  /\ MetaIsTrue
  /\ WaiterFindsResult
  /\ SearchesServed

--------------------------------------------------------------------------------

\* One flight moves to its next step.
LEMMA GoesTo ==
  ASSUME flight \in [Searcher -> Flight], NEW p \in Searcher,
         NEW step \in {"idle", "race", "opened", "reap", "wait", "owns", "staged", "built",
                       "renamed", "done"},
         flight' = [flight EXCEPT ![p].at = step]
  PROVE  /\ flight' \in [Searcher -> Flight]
         /\ flight'[p].at = step
         /\ flight'[p].rows = flight[p].rows /\ flight'[p].deserted = flight[p].deserted
         /\ \A q \in Searcher : q # p => flight'[q] = flight[q]
<1> DEFINE f == [flight[p] EXCEPT !.at = step]
<1>1. f \in Flight /\ f.at = step /\ f.rows = flight[p].rows /\ f.deserted = flight[p].deserted
  BY DEF Flight
<1>2. flight' = [flight EXCEPT ![p] = f]
  OBVIOUS
<1> HIDE DEF f
<1> QED
  BY <1>1, <1>2

\* The owner gives up: the flights stay where they are, the waiters know.
LEMMA DesertedFlights ==
  ASSUME flight \in [Searcher -> Flight]
  PROVE  /\ Deserted(flight) \in [Searcher -> Flight]
         /\ \A q \in Searcher :
              /\ Deserted(flight)[q].at = flight[q].at
              /\ Deserted(flight)[q].rows = flight[q].rows
              /\ Waits(q) => Deserted(flight)[q].deserted = TRUE
<1>1. ASSUME NEW q \in Searcher
      PROVE  /\ Deserted(flight)[q] \in Flight
             /\ Deserted(flight)[q].at = flight[q].at
             /\ Deserted(flight)[q].rows = flight[q].rows
             /\ Waits(q) => Deserted(flight)[q].deserted = TRUE
  <2> DEFINE d == [flight[q] EXCEPT !.deserted = TRUE]
  <2>1. flight[q] \in Flight
    OBVIOUS
  <2>2. d \in Flight /\ d.at = flight[q].at /\ d.rows = flight[q].rows /\ d.deserted = TRUE
    BY <2>1 DEF Flight
  <2>3. Deserted(flight)[q] = IF Waits(q) THEN d ELSE flight[q]
    BY DEF Deserted
  <2> HIDE DEF d
  <2> QED
    BY <2>1, <2>2, <2>3
<1>2. Deserted(flight) \in [Searcher -> Flight]
  BY <1>1 DEF Deserted
<1> QED
  BY <1>1, <1>2

\* A rebuild is over: its flight is idle, and the search that awaited it runs.
LEMMA Settles ==
  ASSUME flight \in [Searcher -> Flight], reading \in [Searcher -> Reading], MaxSourceRows \in Nat,
         NEW p \in Searcher, NEW fl \in [Searcher -> Flight], NEW excused \in BOOLEAN,
         SettleFlight(p, fl, excused)
  PROVE  /\ flight' \in [Searcher -> Flight] /\ flight'[p] = NoFlight
         /\ \A q \in Searcher : q # p => flight'[q] = fl[q]
         /\ reading' \in [Searcher -> Reading] /\ reading'[p].since = reading[p].since
         /\ reading'[p].at = "query" =>
              \/ reading'[p] = reading[p]
              \/ reading[p].at = "ensure" /\ reading'[p].excused = excused
         /\ \A q \in Searcher : q # p => reading'[q] = reading[q]
<1>1. NoFlight \in Flight
  BY DEF NoFlight, Flight
<1>2. flight' = [fl EXCEPT ![p] = NoFlight]
  BY DEF SettleFlight
<1> DEFINE r == [reading[p] EXCEPT !.at = "query", !.excused = excused]
<1>3. reading' = reading \/ (reading[p].at = "ensure" /\ reading' = [reading EXCEPT ![p] = r])
  BY DEF SettleFlight
<1>4. r \in Reading /\ r.since = reading[p].since /\ r.excused = excused
  BY DEF Reading
<1> HIDE DEF r
<1>5. flight' \in [Searcher -> Flight] /\ flight'[p] = NoFlight
      /\ \A q \in Searcher : q # p => flight'[q] = fl[q]
  BY <1>1, <1>2
<1>6. CASE reading' = reading
  BY <1>5, <1>6
<1>7. CASE reading[p].at = "ensure" /\ reading' = [reading EXCEPT ![p] = r]
  BY <1>4, <1>5, <1>7
<1> QED
  BY <1>3, <1>6, <1>7

\* Steps that touch neither files nor rows keep what the build and the meta say.
LEMMA BuildFrame ==
  ASSUME BuildUndisturbed, MetaIsTrue, UNCHANGED <<sourceRows, sidecar, racedRows>>,
         stoleLock => stoleLock',
         \A q \in Searcher : flight'[q].at \in {"staged", "built", "renamed", "done"} =>
           flight'[q].at = flight[q].at /\ flight'[q].rows = flight[q].rows
  PROVE  BuildUndisturbed' /\ MetaIsTrue'
<1>1. \A m, n : Covered(m, n) => Covered(m, n)'
  BY DEF Covered
<1>2. MetaIsTrue'
  BY <1>1 DEF MetaIsTrue, Covered
<1>3. SUFFICES ASSUME ~stoleLock', NEW q \in Searcher,
                      flight'[q].at \in {"staged", "built", "renamed", "done"}
               PROVE  /\ flight'[q].at \in {"staged", "built"} =>
                           sidecar'.db = NoIndex /\ sidecar'.indexedAt = NoIndex
                      /\ flight'[q].at = "staged" =>
                           sidecar'.staged = flight'[q].rows /\ sidecar'.tmp.by = q
                      /\ flight'[q].at = "built" /\ sidecar'.tmp # NoIndex =>
                           sidecar'.tmp.rows = flight'[q].rows /\ sidecar'.tmp.whole
                      /\ flight'[q].at \in {"renamed", "done"} =>
                           sidecar'.db.rows = flight'[q].rows /\ sidecar'.db.whole
                      /\ Covered(sourceRows, flight[q].rows)'
                      /\ flight'[q].at = "done" /\ sidecar'.indexedAt # NoIndex =>
                           Covered(sourceRows, sidecar.indexedAt)'
  BY <1>2 DEF BuildUndisturbed
<1>4. flight'[q].at = flight[q].at /\ flight'[q].rows = flight[q].rows /\ ~stoleLock
  BY <1>3
<1>5. Covered(sourceRows, flight[q].rows)'
  BY <1>3, <1>4 DEF BuildUndisturbed, Covered
<1>6. flight[q].at = "done" /\ sidecar.indexedAt # NoIndex => Covered(sourceRows, sidecar.indexedAt)'
  BY <1>3, <1>4 DEF BuildUndisturbed, Covered
<1> QED
  BY <1>3, <1>4, <1>5, <1>6 DEF BuildUndisturbed

\* So does the lock say of its owner, when no flight becomes one.
LEMMA OwnerFrame ==
  ASSUME OneOwner, UNCHANGED rebuildLock, stoleLock => stoleLock',
         \A q \in Searcher : Owns(q)' => Owns(q)
  PROVE  OneOwner'
BY DEF OneOwner

\* What a waiter finds, when none begins to wait and no lock is removed.
LEMMA WaiterFrame ==
  ASSUME WaiterFindsResult, UNCHANGED <<sourceRows, sidecar, racedRows>>,
         stoleLock => stoleLock', rebuildLock' = NoIndex => rebuildLock = NoIndex,
         \A q \in Searcher : flight'[q].at = "wait" /\ ~flight'[q].deserted =>
           flight[q].at = "wait" /\ ~flight[q].deserted
  PROVE  WaiterFindsResult'
BY DEF WaiterFindsResult, At, Covered

\* What is served, when no search becomes ready.
LEMMA ServedFrame ==
  ASSUME SearchesServed, UNCHANGED <<sidecar, racedRows>>, stoleLock => stoleLock',
         \A q \in Searcher : reading'[q].at = "query" /\ ~reading'[q].excused =>
           reading[q].at = "query" /\ ~reading[q].excused /\ reading'[q].since = reading[q].since
  PROVE  SearchesServed'
BY DEF SearchesServed, Covered

\* A step is well typed when what it writes is.
LEMMA TypesFrame ==
  ASSUME sourceRows' \in 0..MaxSourceRows, sidecar' \in Sidecar,
         {sidecar'.indexedAt, sidecar'.staged} \subseteq 0..sourceRows' \cup {NoIndex},
         rebuildLock' \in {NoIndex} \cup LockFile,
         flight' \in [Searcher -> Flight], reading' \in [Searcher -> Reading],
         \A q \in Searcher : reading'[q].since \in 0..sourceRows',
         racedRows' \subseteq 1..sourceRows', stoleLock' \in BOOLEAN
  PROVE  SearchTypeOK' /\ SearchTypes'
<1>1. {sidecar'.db, sidecar'.tmp} \subseteq IndexFile
  BY DEF Sidecar
<1>2. ASSUME NEW q \in Searcher
      PROVE  /\ flight'[q].at \in {"idle", "race", "opened", "reap", "wait", "owns", "staged",
                                   "built", "renamed", "done"}
             /\ reading'[q].at \in {"idle", "ensure", "query"}
  <2>1. flight'[q] \in Flight /\ reading'[q] \in Reading
    OBVIOUS
  <2> QED
    BY <2>1 DEF Flight, Reading
<1>4. SearchTypes'
  BY DEF SearchTypes
<1>5. SearchTypeOK'
  BY <1>1, <1>2 DEF SearchTypeOK, LockFile
<1> QED
  BY <1>4, <1>5

\* The types of a state, for the steps.
LEMMA TypesGiven ==
  ASSUME SearchInvariant
  PROVE  /\ sourceRows \in 0..MaxSourceRows /\ sidecar \in Sidecar
         /\ {sidecar.indexedAt, sidecar.staged} \subseteq 0..sourceRows \cup {NoIndex}
         /\ rebuildLock \in {NoIndex} \cup LockFile
         /\ flight \in [Searcher -> Flight] /\ reading \in [Searcher -> Reading]
         /\ \A q \in Searcher : reading[q].since \in 0..sourceRows
         /\ racedRows \subseteq 1..sourceRows /\ stoleLock \in BOOLEAN
         /\ {MaxSourceRows, AutoBuildRows, MaxSearchFaults} \subseteq Nat
BY SearchIndexAssumption DEF SearchInvariant, SearchTypeOK, SearchTypes, LockFile

\* Only one flight owns the lock.
LEMMA SoleOwner ==
  ASSUME OneOwner, ~stoleLock, NEW p \in Searcher, NEW q \in Searcher, Owns(p), q # p
  PROVE  ~Owns(q)
BY DEF OneOwner

\* A lock file is a file.
LEMMA LockIsFile ==
  ASSUME NEW lock \in LockFile
  PROVE  lock # NoIndex
BY SearchIndexAssumption DEF LockFile

\* Ten minutes pass.
LEMMA AgeKeeps ==
  ASSUME SearchInvariant, AgeRebuildLock
  PROVE  SearchInvariant'
<1>1. rebuildLock # NoIndex /\ rebuildLock.dead /\ rebuildLock' = [rebuildLock EXCEPT !.old = TRUE]
      /\ UNCHANGED <<sourceRows, sidecar, flight, reading, racedRows, stoleLock>>
  BY DEF AgeRebuildLock
<1>2. rebuildLock \in LockFile
  BY <1>1, TypesGiven
<1>3. rebuildLock' \in LockFile
  BY <1>1, <1>2 DEF LockFile
<1>4. SearchTypeOK' /\ SearchTypes'
  BY <1>1, <1>3, TypesGiven, TypesFrame
<1>5. OneOwner'
  BY <1>1 DEF SearchInvariant, OneOwner, Owns
<1>6. BuildUndisturbed' /\ MetaIsTrue'
  BY <1>1, BuildFrame DEF SearchInvariant
<1>7. WaiterFindsResult'
  <2>1. rebuildLock' # NoIndex
    BY <1>3, LockIsFile
  <2> QED
    BY <2>1 DEF WaiterFindsResult
<1>8. SearchesServed'
  BY <1>1, ServedFrame DEF SearchInvariant
<1> QED
  BY <1>4, <1>5, <1>6, <1>7, <1>8 DEF SearchInvariant

\* A search starts.
LEMMA StartReadKeeps ==
  ASSUME SearchInvariant, NEW p \in Searcher, StartRead(p)
  PROVE  SearchInvariant'
<1> DEFINE refused == sourceRows > AutoBuildRows
           direct == IndexIsFresh \/ refused
           r == [at |-> IF direct THEN "query" ELSE "ensure",
                 since |-> sourceRows, excused |-> refused /\ ~IndexIsFresh]
<1>1. reading' = [reading EXCEPT ![p] = r]
      /\ UNCHANGED <<sourceRows, sidecar, rebuildLock, racedRows, stoleLock>>
  BY DEF StartRead
<1>2. flight' = flight \/ (At(p, "idle") /\ flight' = [flight EXCEPT ![p].at = "race"])
  BY DEF StartRead, Joins
<1>3. sourceRows \in 0..sourceRows /\ sourceRows \in 0..MaxSourceRows
  BY TypesGiven
<1>4. r \in Reading /\ r.since = sourceRows
  BY <1>3 DEF Reading
<1>5. r.at = "query" /\ ~r.excused => IndexIsFresh
  OBVIOUS
<1> HIDE DEF r
<1>6. reading' \in [Searcher -> Reading] /\ reading'[p] = r
      /\ \A q \in Searcher : q # p => reading'[q] = reading[q]
  BY <1>1, <1>4, TypesGiven
<1>7. /\ flight' \in [Searcher -> Flight]
      /\ \A q \in Searcher : flight'[q] = flight[q] \/ flight'[q].at = "race"
  BY <1>2, TypesGiven, GoesTo
<1>8. SearchTypeOK' /\ SearchTypes'
  <2>1. \A q \in Searcher : reading'[q].since \in 0..sourceRows'
    BY <1>1, <1>3, <1>4, <1>6, TypesGiven
  <2> QED
    BY <2>1, <1>1, <1>6, <1>7, TypesGiven, TypesFrame
<1>9. OneOwner'
  BY <1>1, <1>7, OwnerFrame DEF SearchInvariant, Owns
<1>10. BuildUndisturbed' /\ MetaIsTrue'
  BY <1>1, <1>7, BuildFrame DEF SearchInvariant
<1>11. WaiterFindsResult'
  BY <1>1, <1>7, WaiterFrame DEF SearchInvariant
<1>12. SearchesServed'
  <2> SUFFICES ASSUME ~stoleLock', sidecar'.db # NoIndex, NEW q \in Searcher,
                      reading'[q].at = "query", ~reading'[q].excused
               PROVE  sidecar'.db.whole /\ Covered(reading[q].since, sidecar.db.rows)'
    BY DEF SearchesServed
  <2>1. CASE q = p
    <3>1. IndexIsFresh
      BY <2>1, <1>5, <1>6
    <3>2. sidecar.indexedAt # NoIndex /\ sourceRows <= sidecar.indexedAt
      BY <3>1 DEF IndexIsFresh
    <3>3. sidecar.indexedAt = sourceRows
      BY <3>2, TypesGiven
    <3>4. sidecar.db.whole /\ Covered(sourceRows, sidecar.db.rows)
      BY <1>1, <3>1, <3>2, <3>3 DEF SearchInvariant, MetaIsTrue
    <3>5. reading'[q].since = sourceRows
      BY <2>1, <1>4, <1>6
    <3> QED
      BY <1>1, <3>4, <3>5 DEF Covered
  <2>2. CASE q # p
    BY <1>1, <1>6, <2>2 DEF SearchInvariant, SearchesServed, Covered
  <2> QED
    BY <2>1, <2>2
<1> QED
  BY <1>8, <1>9, <1>10, <1>11, <1>12 DEF SearchInvariant


\* A command rebuilds.
LEMMA CommandKeeps ==
  ASSUME SearchInvariant, NEW p \in Searcher, CommandRebuild(p)
  PROVE  SearchInvariant'
<1>1. At(p, "idle") /\ flight' = [flight EXCEPT ![p].at = "race"]
      /\ UNCHANGED <<sourceRows, sidecar, rebuildLock, reading, racedRows, stoleLock>>
  BY DEF CommandRebuild, Joins
<1>2. /\ flight' \in [Searcher -> Flight]
      /\ \A q \in Searcher : flight'[q] = flight[q] \/ flight'[q].at = "race"
  BY <1>1, TypesGiven, GoesTo
<1>3. SearchTypeOK' /\ SearchTypes'
  BY <1>1, <1>2, TypesGiven, TypesFrame
<1>4. OneOwner'
  BY <1>1, <1>2, OwnerFrame DEF SearchInvariant, Owns
<1>5. BuildUndisturbed' /\ MetaIsTrue'
  BY <1>1, <1>2, BuildFrame DEF SearchInvariant
<1>6. WaiterFindsResult'
  BY <1>1, <1>2, WaiterFrame DEF SearchInvariant
<1>7. SearchesServed'
  BY <1>1, ServedFrame DEF SearchInvariant
<1> QED
  BY <1>3, <1>4, <1>5, <1>6, <1>7 DEF SearchInvariant

\* A search answers.
LEMMA AnswerKeeps ==
  ASSUME SearchInvariant, NEW p \in Searcher, Answer(p)
  PROVE  SearchInvariant'
<1>1. reading' = [reading EXCEPT ![p] = NoReading]
      /\ UNCHANGED <<sourceRows, sidecar, rebuildLock, flight, racedRows, stoleLock>>
  BY DEF Answer
<1>2. NoReading \in Reading /\ NoReading.at = "idle" /\ NoReading.since = 0
  BY TypesGiven DEF NoReading, Reading
<1>3. reading' \in [Searcher -> Reading]
      /\ \A q \in Searcher : reading'[q] = reading[q] \/ reading'[q] = NoReading
  BY <1>1, <1>2, TypesGiven
<1>4. SearchTypeOK' /\ SearchTypes'
  <2>1. \A q \in Searcher : reading'[q].since \in 0..sourceRows'
    BY <1>1, <1>2, <1>3, TypesGiven
  <2> QED
    BY <2>1, <1>1, <1>3, TypesGiven, TypesFrame
<1>5. OneOwner'
  BY <1>1, OwnerFrame DEF SearchInvariant, Owns
<1>6. BuildUndisturbed' /\ MetaIsTrue'
  BY <1>1, BuildFrame DEF SearchInvariant
<1>7. WaiterFindsResult'
  BY <1>1, WaiterFrame DEF SearchInvariant
<1>8. SearchesServed'
  BY <1>1, <1>2, <1>3, ServedFrame DEF SearchInvariant
<1> QED
  BY <1>4, <1>5, <1>6, <1>7, <1>8 DEF SearchInvariant

\* A process creates the lock file: there was none, so no flight owned it.
LEMMA CreateKeeps ==
  ASSUME SearchInvariant, NEW p \in Searcher, CreateRebuildLock(p)
  PROVE  SearchInvariant'
<1> DEFINE lock == [by |-> p, named |-> FALSE, dead |-> FALSE, old |-> FALSE]
           f == [flight[p] EXCEPT !.at = "opened", !.deserted = FALSE]
<1>1. rebuildLock = NoIndex /\ rebuildLock' = lock /\ flight' = [flight EXCEPT ![p] = f]
      /\ UNCHANGED <<sourceRows, sidecar, reading, racedRows, stoleLock>>
  BY DEF CreateRebuildLock
<1>2. lock \in LockFile /\ lock.by = p /\ lock.dead = FALSE
  BY DEF LockFile
<1>3. lock # NoIndex
  BY <1>2, LockIsFile
<1>4. f \in Flight /\ f.at = "opened"
  BY TypesGiven DEF Flight
<1> HIDE DEF lock, f
<1>5. flight' \in [Searcher -> Flight] /\ flight'[p] = f
      /\ \A q \in Searcher : q # p => flight'[q] = flight[q]
  BY <1>1, <1>4, TypesGiven
<1>6. SearchTypeOK' /\ SearchTypes'
  BY <1>1, <1>2, <1>5, TypesGiven, TypesFrame
<1>7. OneOwner'
  <2> SUFFICES ASSUME ~stoleLock', NEW q \in Searcher, Owns(q)'
               PROVE  rebuildLock' # NoIndex /\ rebuildLock'.by = q /\ ~rebuildLock'.dead
    BY DEF OneOwner
  <2>1. q = p
    BY <1>1, <1>5 DEF SearchInvariant, OneOwner, Owns
  <2> QED
    BY <2>1, <1>1, <1>2, <1>3
<1>8. BuildUndisturbed' /\ MetaIsTrue'
  BY <1>1, <1>4, <1>5, BuildFrame DEF SearchInvariant
<1>9. WaiterFindsResult'
  BY <1>1, <1>3 DEF WaiterFindsResult
<1>10. SearchesServed'
  BY <1>1, ServedFrame DEF SearchInvariant
<1> QED
  BY <1>6, <1>7, <1>8, <1>9, <1>10 DEF SearchInvariant

\* The owner names its lock.
LEMMA NameKeeps ==
  ASSUME SearchInvariant, NEW p \in Searcher, NameRebuildLock(p)
  PROVE  SearchInvariant'
<1> DEFINE lock == [rebuildLock EXCEPT !.named = TRUE]
<1>1. /\ At(p, "opened") /\ flight' = [flight EXCEPT ![p].at = "owns"]
      /\ rebuildLock' = IF rebuildLock # NoIndex /\ rebuildLock.by = p THEN lock ELSE rebuildLock
      /\ UNCHANGED <<sourceRows, sidecar, reading, racedRows, stoleLock>>
  BY DEF NameRebuildLock, Goes
<1>2. ASSUME rebuildLock # NoIndex
      PROVE  /\ lock \in LockFile /\ lock # NoIndex
             /\ lock.by = rebuildLock.by /\ lock.dead = rebuildLock.dead
  <2>1. rebuildLock \in LockFile
    BY <1>2, TypesGiven
  <2>2. lock \in LockFile /\ lock.by = rebuildLock.by /\ lock.dead = rebuildLock.dead
    BY <2>1 DEF LockFile
  <2> QED
    BY <2>2, LockIsFile
<1> HIDE DEF lock
<1>3. /\ rebuildLock' \in {NoIndex} \cup LockFile
      /\ (rebuildLock' = NoIndex) <=> (rebuildLock = NoIndex)
      /\ rebuildLock # NoIndex =>
           rebuildLock'.by = rebuildLock.by /\ rebuildLock'.dead = rebuildLock.dead
  BY <1>1, <1>2, TypesGiven
<1>4. flight' \in [Searcher -> Flight] /\ flight'[p].at = "owns"
      /\ \A q \in Searcher : q # p => flight'[q] = flight[q]
  BY <1>1, TypesGiven, GoesTo
<1>5. SearchTypeOK' /\ SearchTypes'
  BY <1>1, <1>3, <1>4, TypesGiven, TypesFrame
<1>6. OneOwner'
  <2> SUFFICES ASSUME ~stoleLock', NEW q \in Searcher, Owns(q)'
               PROVE  rebuildLock' # NoIndex /\ rebuildLock'.by = q /\ ~rebuildLock'.dead
    BY DEF OneOwner
  <2>1. Owns(q)
    BY <1>1, <1>4 DEF Owns, At
  <2> QED
    BY <2>1, <1>1, <1>3 DEF SearchInvariant, OneOwner
<1>7. BuildUndisturbed' /\ MetaIsTrue'
  BY <1>1, <1>4, BuildFrame DEF SearchInvariant
<1>8. WaiterFindsResult'
  BY <1>1, <1>3, <1>4, WaiterFrame DEF SearchInvariant
<1>9. SearchesServed'
  BY <1>1, ServedFrame DEF SearchInvariant
<1> QED
  BY <1>5, <1>6, <1>7, <1>8, <1>9 DEF SearchInvariant

\* A process finds the lock file.
LEMMA FindKeeps ==
  ASSUME SearchInvariant, NEW p \in Searcher, FindRebuildLock(p)
  PROVE  SearchInvariant'
<1> DEFINE step == IF IsStale(rebuildLock) THEN "reap" ELSE "wait"
<1>1. At(p, "race") /\ rebuildLock # NoIndex /\ flight' = [flight EXCEPT ![p].at = step]
      /\ UNCHANGED <<sourceRows, sidecar, rebuildLock, reading, racedRows, stoleLock>>
  BY DEF FindRebuildLock, Goes
<1>2. step \in {"reap", "wait"}
  OBVIOUS
<1> HIDE DEF step
<1>3. flight' \in [Searcher -> Flight] /\ flight'[p].at \in {"reap", "wait"}
      /\ \A q \in Searcher : q # p => flight'[q] = flight[q]
  BY <1>1, <1>2, TypesGiven, GoesTo
<1>4. SearchTypeOK' /\ SearchTypes'
  BY <1>1, <1>3, TypesGiven, TypesFrame
<1>5. OneOwner'
  BY <1>1, <1>3, OwnerFrame DEF SearchInvariant, Owns
<1>6. BuildUndisturbed' /\ MetaIsTrue'
  BY <1>1, <1>3, BuildFrame DEF SearchInvariant
<1>7. WaiterFindsResult'
  BY <1>1 DEF WaiterFindsResult
<1>8. SearchesServed'
  BY <1>1, ServedFrame DEF SearchInvariant
<1> QED
  BY <1>4, <1>5, <1>6, <1>7, <1>8 DEF SearchInvariant


\* Coverage passes through the rows of the meta, and down to fewer rows.
LEMMA CoveredThrough ==
  ASSUME NEW k \in Nat, NEW m \in Nat, NEW n, NEW o, k <= m, Covered(m, n), Covered(n, o)
  PROVE  Covered(k, o)
<1>1. 1..k \subseteq 1..m
  OBVIOUS
<1> QED
  BY <1>1 DEF Covered

LEMMA CoveredBelow ==
  ASSUME NEW k \in Nat, NEW m \in Nat, NEW n, k <= m, Covered(m, n)
  PROVE  Covered(k, n)
<1>1. 1..k \subseteq 1..m
  OBVIOUS
<1> QED
  BY <1>1 DEF Covered

\* A stale lock, or another's, is removed: if it was a stale one, its owner is dead.
LEMMA RemoveKeeps ==
  ASSUME SearchInvariant, NEW p \in Searcher, RemoveStaleLock(p)
  PROVE  SearchInvariant'
<1> DEFINE f == [Deserted(flight)[p] EXCEPT !.at = "wait"]
<1>1. /\ At(p, "reap") /\ rebuildLock' = NoIndex
      /\ flight' = [Deserted(flight) EXCEPT ![p] = f]
      /\ stoleLock' = (stoleLock \/ (rebuildLock # NoIndex /\ ~IsStale(rebuildLock)))
      /\ UNCHANGED <<sourceRows, sidecar, reading, racedRows>>
  BY DEF RemoveStaleLock
<1>2. /\ Deserted(flight) \in [Searcher -> Flight]
      /\ \A q \in Searcher :
           /\ Deserted(flight)[q].at = flight[q].at
           /\ Deserted(flight)[q].rows = flight[q].rows
           /\ Waits(q) => Deserted(flight)[q].deserted = TRUE
  BY TypesGiven, DesertedFlights
<1>3. f \in Flight /\ f.at = "wait" /\ f.deserted = Deserted(flight)[p].deserted
  <2>1. Deserted(flight)[p] \in Flight
    BY <1>2
  <2> QED
    BY <2>1 DEF Flight
<1>4. f.deserted = TRUE
  BY <1>1, <1>2, <1>3 DEF Waits, At
<1> HIDE DEF f
<1>5. flight' \in [Searcher -> Flight] /\ flight'[p] = f
      /\ \A q \in Searcher : q # p => flight'[q] = Deserted(flight)[q]
  BY <1>1, <1>2, <1>3
<1>6. stoleLock' \in BOOLEAN /\ (stoleLock => stoleLock')
  BY <1>1, TypesGiven
<1>7. SearchTypeOK' /\ SearchTypes'
  BY <1>1, <1>5, <1>6, TypesGiven, TypesFrame
<1>8. \A q \in Searcher : q # p => flight'[q].at = flight[q].at /\ flight'[q].rows = flight[q].rows
  BY <1>2, <1>5
<1>9. OneOwner'
  <2> SUFFICES ASSUME ~stoleLock', NEW q \in Searcher, Owns(q)'
               PROVE  FALSE
    BY DEF OneOwner
  <2>1. q # p
    BY <1>3, <1>5 DEF Owns
  <2>2. Owns(q)
    BY <2>1, <1>8 DEF Owns
  <2>3. rebuildLock = NoIndex \/ rebuildLock.dead
    BY <1>1 DEF IsStale
  <2> QED
    BY <2>2, <2>3, <1>6 DEF SearchInvariant, OneOwner
<1>10. BuildUndisturbed' /\ MetaIsTrue'
  BY <1>1, <1>3, <1>5, <1>6, <1>8, BuildFrame DEF SearchInvariant
<1>11. WaiterFindsResult'
  <2> SUFFICES ASSUME NEW q \in Searcher, flight'[q].at = "wait", ~flight'[q].deserted
               PROVE  FALSE
    BY DEF WaiterFindsResult, At
  <2>1. q # p
    BY <1>4, <1>5
  <2> QED
    BY <2>1, <1>2, <1>5 DEF Waits
<1>12. SearchesServed'
  BY <1>1, <1>6, ServedFrame DEF SearchInvariant
<1> QED
  BY <1>7, <1>9, <1>10, <1>11, <1>12 DEF SearchInvariant

\* A waiter polls: it takes the meta it finds for its owner's result, and that it is
\* unless the owner gave up.
LEMMA PollKeeps ==
  ASSUME SearchInvariant, NEW p \in Searcher, Poll(p)
  PROVE  SearchInvariant'
<1>1. At(p, "wait") /\ UNCHANGED <<sourceRows, sidecar, rebuildLock, racedRows, stoleLock>>
  BY DEF Poll
<1>2. CASE /\ rebuildLock = NoIndex /\ sidecar.indexedAt # NoIndex
           /\ SettleFlight(p, flight, flight[p].deserted)
  <2>1. flight[p].deserted \in BOOLEAN
    BY TypesGiven DEF Flight
  <2> DEFINE late == flight[p].deserted
  <2>2. late \in BOOLEAN /\ SettleFlight(p, flight, late)
    BY <1>2, <2>1
  <2> HIDE DEF late
  <2>3. /\ flight' \in [Searcher -> Flight] /\ flight'[p] = NoFlight
        /\ \A q \in Searcher : q # p => flight'[q] = flight[q]
        /\ reading' \in [Searcher -> Reading] /\ reading'[p].since = reading[p].since
        /\ reading'[p].at = "query" =>
             \/ reading'[p] = reading[p]
             \/ reading[p].at = "ensure" /\ reading'[p].excused = late
        /\ \A q \in Searcher : q # p => reading'[q] = reading[q]
    BY <2>2, TypesGiven, Settles
  <2>4. NoFlight.at = "idle"
    BY DEF NoFlight
  <2>5. SearchTypeOK' /\ SearchTypes'
    <3>1. \A q \in Searcher : reading'[q].since \in 0..sourceRows'
      BY <1>1, <2>3, TypesGiven
    <3> QED
      BY <3>1, <1>1, <2>3, TypesGiven, TypesFrame
  <2>6. OneOwner'
    BY <1>1, <2>3, <2>4, OwnerFrame DEF SearchInvariant, Owns
  <2>7. BuildUndisturbed' /\ MetaIsTrue'
    BY <1>1, <2>3, <2>4, BuildFrame DEF SearchInvariant
  <2>8. WaiterFindsResult'
    BY <1>1, <2>3, <2>4, WaiterFrame DEF SearchInvariant
  <2>9. SearchesServed'
    <3> SUFFICES ASSUME ~stoleLock', sidecar'.db # NoIndex, NEW q \in Searcher,
                        reading'[q].at = "query", ~reading'[q].excused
                 PROVE  sidecar'.db.whole /\ Covered(reading[q].since, sidecar.db.rows)'
      BY DEF SearchesServed
    <3>1. CASE reading'[q] = reading[q]
      BY <1>1, <3>1 DEF SearchInvariant, SearchesServed, Covered
    <3>2. CASE reading'[q] # reading[q]
      <4>1. q = p /\ ~late
        BY <3>2, <2>3
      <4>2. ~flight[p].deserted
        BY <4>1 DEF late
      <4>3. Covered(sourceRows, sidecar.indexedAt)
        BY <1>1, <1>2, <4>2 DEF SearchInvariant, WaiterFindsResult
      <4>4. sidecar.db.whole /\ Covered(sidecar.indexedAt, sidecar.db.rows)
        BY <1>1, <1>2 DEF SearchInvariant, MetaIsTrue
      <4>5. reading[p].since \in Nat /\ sourceRows \in Nat /\ reading[p].since <= sourceRows
        BY TypesGiven
      <4>6. Covered(reading[p].since, sidecar.db.rows)
        BY <4>3, <4>4, <4>5, CoveredThrough
      <4> QED
        BY <1>1, <2>3, <4>1, <4>4, <4>6 DEF Covered
    <3> QED
      BY <3>1, <3>2
  <2> QED
    BY <2>5, <2>6, <2>7, <2>8, <2>9 DEF SearchInvariant
<1>3. CASE flight' = [flight EXCEPT ![p].at = "race"] /\ UNCHANGED reading
  <2>1. /\ flight' \in [Searcher -> Flight] /\ flight'[p].at = "race"
        /\ \A q \in Searcher : q # p => flight'[q] = flight[q]
    BY <1>3, TypesGiven, GoesTo
  <2>2. SearchTypeOK' /\ SearchTypes'
    BY <1>1, <1>3, <2>1, TypesGiven, TypesFrame
  <2>3. OneOwner'
    BY <1>1, <2>1, OwnerFrame DEF SearchInvariant, Owns
  <2>4. BuildUndisturbed' /\ MetaIsTrue'
    BY <1>1, <2>1, BuildFrame DEF SearchInvariant
  <2>5. WaiterFindsResult'
    BY <1>1, <2>1, WaiterFrame DEF SearchInvariant
  <2>6. SearchesServed'
    BY <1>1, <1>3, ServedFrame DEF SearchInvariant
  <2> QED
    BY <2>2, <2>3, <2>4, <2>5, <2>6 DEF SearchInvariant
<1> QED
  BY <1>2, <1>3 DEF Poll, Goes


\* The owner stages the rows there are and wipes the rest.
LEMMA StageKeeps ==
  ASSUME SearchInvariant, NEW p \in Searcher, Stage(p)
  PROVE  SearchInvariant'
<1> DEFINE file == [by |-> p, rows |-> 0, whole |-> FALSE]
           f == [flight[p] EXCEPT !.at = "staged", !.rows = sourceRows]
           files == [NoSidecar EXCEPT !.tmp = file, !.staged = sourceRows]
<1>1. /\ At(p, "owns") /\ sidecar' = files /\ flight' = [flight EXCEPT ![p] = f]
      /\ UNCHANGED <<sourceRows, rebuildLock, reading, racedRows, stoleLock>>
  BY DEF Stage
<1>2. file \in IndexFile /\ file.by = p /\ NoIndex \in IndexFile
  BY TypesGiven DEF IndexFile
<1> HIDE DEF file
<1>3. sourceRows \in 0..sourceRows /\ sourceRows \in 0..MaxSourceRows
  BY TypesGiven
<1>4. /\ files \in Sidecar
      /\ files.db = NoIndex /\ files.indexedAt = NoIndex /\ files.tmp = file
      /\ files.staged = sourceRows
  BY <1>2, <1>3 DEF NoSidecar, Sidecar
<1>5. f \in Flight /\ f.at = "staged" /\ f.rows = sourceRows
  BY <1>3, TypesGiven DEF Flight
<1> HIDE DEF files, f
<1>6. flight' \in [Searcher -> Flight] /\ flight'[p] = f
      /\ \A q \in Searcher : q # p => flight'[q] = flight[q]
  BY <1>1, <1>5, TypesGiven
<1>7. SearchTypeOK' /\ SearchTypes'
  <2>1. {files.indexedAt, files.staged} \subseteq 0..sourceRows \cup {NoIndex}
    BY <1>3, <1>4
  <2> QED
    BY <2>1, <1>1, <1>4, <1>6, TypesGiven, TypesFrame
<1>8. Owns(p)
  BY <1>1 DEF Owns, At
<1>9. OneOwner'
  BY <1>1, <1>6, <1>8, OwnerFrame DEF SearchInvariant, Owns
<1>10. BuildUndisturbed'
  <2> SUFFICES ASSUME ~stoleLock', NEW q \in Searcher,
                      flight'[q].at \in {"staged", "built", "renamed", "done"}
               PROVE  /\ flight'[q].at = "staged"
                      /\ sidecar'.db = NoIndex /\ sidecar'.indexedAt = NoIndex
                      /\ sidecar'.staged = flight'[q].rows /\ sidecar'.tmp.by = q
                      /\ Covered(sourceRows, flight[q].rows)'
    BY DEF BuildUndisturbed
  <2>1. q = p
    BY <1>1, <1>6, <1>8, SoleOwner DEF SearchInvariant, Owns
  <2>2. Covered(sourceRows, flight[p].rows)'
    BY <1>1, <1>5, <1>6 DEF Covered
  <2> QED
    BY <2>1, <2>2, <1>1, <1>2, <1>4, <1>5, <1>6
<1>11. MetaIsTrue' /\ WaiterFindsResult' /\ SearchesServed'
  BY <1>1, <1>4 DEF MetaIsTrue, WaiterFindsResult, SearchesServed
<1> QED
  BY <1>7, <1>9, <1>10, <1>11 DEF SearchInvariant

\* The owner loads the staged rows into the file it opened.
LEMMA LoadKeeps ==
  ASSUME SearchInvariant, NEW p \in Searcher, Load(p)
  PROVE  SearchInvariant'
<1> DEFINE filled(file) == IF file # NoIndex /\ file.by = p
                           THEN [file EXCEPT !.rows = sidecar.staged, !.whole = TRUE] ELSE file
           files == [sidecar EXCEPT !.tmp = filled(sidecar.tmp), !.db = filled(sidecar.db)]
<1>1. /\ At(p, "staged") /\ sidecar.staged # NoIndex /\ sidecar' = files
      /\ flight' = [flight EXCEPT ![p].at = "built"]
      /\ UNCHANGED <<sourceRows, rebuildLock, reading, racedRows, stoleLock>>
  BY DEF Load, Goes
<1>2. sidecar.staged \in 0..MaxSourceRows
  BY <1>1, TypesGiven DEF Sidecar
<1>3. ASSUME NEW file \in IndexFile
      PROVE  /\ filled(file) \in IndexFile
             /\ file # NoIndex /\ file.by = p =>
                  filled(file).rows = sidecar.staged /\ filled(file).whole
             /\ file = NoIndex => filled(file) = NoIndex
  <2>1. CASE file # NoIndex /\ file.by = p
    <3> DEFINE g == [file EXCEPT !.rows = sidecar.staged, !.whole = TRUE]
    <3>1. file \in [by : Searcher, rows : 0..MaxSourceRows, whole : BOOLEAN]
      BY <2>1 DEF IndexFile
    <3>2. g \in [by : Searcher, rows : 0..MaxSourceRows, whole : BOOLEAN]
          /\ g.rows = sidecar.staged /\ g.whole = TRUE
      BY <3>1, <1>2
    <3>3. filled(file) = g
      BY <2>1
    <3> HIDE DEF g, filled
    <3> QED
      BY <2>1, <3>2, <3>3 DEF IndexFile
  <2>2. CASE ~(file # NoIndex /\ file.by = p)
    BY <2>2
  <2> QED
    BY <2>1, <2>2
<1>4. sidecar.tmp \in IndexFile /\ sidecar.db \in IndexFile
  BY TypesGiven DEF Sidecar
<1> HIDE DEF filled
<1>5. /\ files \in Sidecar
      /\ files.tmp = filled(sidecar.tmp) /\ files.db = filled(sidecar.db)
      /\ files.indexedAt = sidecar.indexedAt /\ files.staged = sidecar.staged
  BY <1>3, <1>4, TypesGiven DEF Sidecar
<1> HIDE DEF files
<1>6. /\ flight' \in [Searcher -> Flight] /\ flight'[p].at = "built"
      /\ flight'[p].rows = flight[p].rows
      /\ \A q \in Searcher : q # p => flight'[q] = flight[q]
  BY <1>1, TypesGiven, GoesTo
<1>7. SearchTypeOK' /\ SearchTypes'
  <2>1. {sidecar'.indexedAt, sidecar'.staged} \subseteq 0..sourceRows \cup {NoIndex}
    BY <1>1, <1>5, TypesGiven
  <2> QED
    BY <2>1, <1>1, <1>5, <1>6, TypesGiven, TypesFrame
<1>8. Owns(p)
  BY <1>1 DEF Owns, At
<1>9. OneOwner'
  BY <1>1, <1>6, <1>8, OwnerFrame DEF SearchInvariant, Owns
<1>10. ~stoleLock => /\ sidecar.db = NoIndex /\ sidecar.indexedAt = NoIndex
                     /\ sidecar.staged = flight[p].rows /\ sidecar.tmp.by = p
                     /\ Covered(sourceRows, flight[p].rows)
  BY <1>1 DEF SearchInvariant, BuildUndisturbed, At
<1>11. ~stoleLock' => sidecar'.db = NoIndex /\ sidecar'.indexedAt = NoIndex
  BY <1>1, <1>3, <1>4, <1>5, <1>10
<1>12. BuildUndisturbed'
  <2> SUFFICES ASSUME ~stoleLock', NEW q \in Searcher,
                      flight'[q].at \in {"staged", "built", "renamed", "done"}
               PROVE  /\ flight'[q].at = "built"
                      /\ sidecar'.db = NoIndex /\ sidecar'.indexedAt = NoIndex
                      /\ sidecar'.tmp # NoIndex =>
                           sidecar'.tmp.rows = flight'[q].rows /\ sidecar'.tmp.whole
                      /\ Covered(sourceRows, flight[q].rows)'
    BY DEF BuildUndisturbed
  <2>1. q = p
    BY <1>1, <1>6, <1>8, SoleOwner DEF SearchInvariant, Owns
  <2>2. Covered(sourceRows, flight[p].rows)'
    BY <1>1, <1>6, <1>10 DEF Covered
  <2>3. sidecar'.tmp # NoIndex => sidecar'.tmp.rows = sidecar.staged /\ sidecar'.tmp.whole
    BY <1>1, <1>3, <1>4, <1>5, <1>10
  <2> QED
    BY <2>1, <2>2, <2>3, <1>1, <1>6, <1>10, <1>11
<1>13. MetaIsTrue' /\ WaiterFindsResult' /\ SearchesServed'
  BY <1>11 DEF MetaIsTrue, WaiterFindsResult, SearchesServed
<1> QED
  BY <1>7, <1>9, <1>12, <1>13 DEF SearchInvariant

\* The owner renames the file it loaded: every search may answer from it.
LEMMA RenameKeeps ==
  ASSUME SearchInvariant, NEW p \in Searcher, RenameIndex(p)
  PROVE  SearchInvariant'
<1> DEFINE files == [sidecar EXCEPT !.db = sidecar.tmp, !.tmp = NoIndex, !.staged = NoIndex]
<1>1. /\ At(p, "built") /\ sidecar.tmp # NoIndex /\ sidecar' = files
      /\ flight' = [flight EXCEPT ![p].at = "renamed"]
      /\ UNCHANGED <<sourceRows, rebuildLock, reading, racedRows, stoleLock>>
  BY DEF RenameIndex, Goes
<1>2. NoIndex \in IndexFile
  BY DEF IndexFile
<1>3. /\ files \in Sidecar
      /\ files.db = sidecar.tmp /\ files.indexedAt = sidecar.indexedAt /\ files.staged = NoIndex
  BY <1>2, TypesGiven DEF Sidecar
<1> HIDE DEF files
<1>4. /\ flight' \in [Searcher -> Flight] /\ flight'[p].at = "renamed"
      /\ flight'[p].rows = flight[p].rows
      /\ \A q \in Searcher : q # p => flight'[q] = flight[q]
  BY <1>1, TypesGiven, GoesTo
<1>5. SearchTypeOK' /\ SearchTypes'
  <2>1. {sidecar'.indexedAt, sidecar'.staged} \subseteq 0..sourceRows \cup {NoIndex}
    BY <1>1, <1>3, TypesGiven
  <2> QED
    BY <2>1, <1>1, <1>3, <1>4, TypesGiven, TypesFrame
<1>6. Owns(p)
  BY <1>1 DEF Owns, At
<1>7. OneOwner'
  BY <1>1, <1>4, <1>6, OwnerFrame DEF SearchInvariant, Owns
<1>8. ~stoleLock => /\ sidecar.indexedAt = NoIndex
                    /\ sidecar.tmp.rows = flight[p].rows /\ sidecar.tmp.whole
                    /\ Covered(sourceRows, flight[p].rows)
  BY <1>1 DEF SearchInvariant, BuildUndisturbed, At
<1>9. BuildUndisturbed'
  <2> SUFFICES ASSUME ~stoleLock', NEW q \in Searcher,
                      flight'[q].at \in {"staged", "built", "renamed", "done"}
               PROVE  /\ flight'[q].at = "renamed"
                      /\ sidecar'.db.rows = flight'[q].rows /\ sidecar'.db.whole
                      /\ Covered(sourceRows, flight[q].rows)'
    BY DEF BuildUndisturbed
  <2>1. q = p
    BY <1>1, <1>4, <1>6, SoleOwner DEF SearchInvariant, Owns
  <2>2. Covered(sourceRows, flight[p].rows)'
    BY <1>1, <1>4, <1>8 DEF Covered
  <2> QED
    BY <2>1, <2>2, <1>1, <1>3, <1>4, <1>8
<1>10. MetaIsTrue' /\ WaiterFindsResult'
  BY <1>1, <1>3, <1>8 DEF MetaIsTrue, WaiterFindsResult
<1>11. SearchesServed'
  <2> SUFFICES ASSUME ~stoleLock', NEW q \in Searcher
               PROVE  sidecar'.db.whole /\ Covered(reading[q].since, sidecar.db.rows)'
    BY <1>1 DEF SearchesServed
  <2>1. reading[q].since \in Nat /\ sourceRows \in Nat /\ reading[q].since <= sourceRows
    BY TypesGiven
  <2>2. Covered(reading[q].since, flight[p].rows)
    BY <2>1, <1>1, <1>8, CoveredBelow
  <2> QED
    BY <2>2, <1>1, <1>3, <1>8 DEF Covered
<1> QED
  BY <1>5, <1>7, <1>9, <1>10, <1>11 DEF SearchInvariant

\* The owner writes the meta: the rows it collected are no longer raced.
LEMMA MetaKeeps ==
  ASSUME SearchInvariant, NEW p \in Searcher, WriteIndexMeta(p)
  PROVE  SearchInvariant'
<1> DEFINE files == [sidecar EXCEPT !.indexedAt = sourceRows]
<1>1. /\ At(p, "renamed") /\ sidecar' = files
      /\ racedRows' = racedRows \ (1..flight[p].rows)
      /\ flight' = [flight EXCEPT ![p].at = "done"]
      /\ UNCHANGED <<sourceRows, rebuildLock, reading, stoleLock>>
  BY DEF WriteIndexMeta, Goes
<1>2. sourceRows \in 0..sourceRows /\ sourceRows \in 0..MaxSourceRows
  BY TypesGiven
<1>3. /\ files \in Sidecar
      /\ files.db = sidecar.db /\ files.indexedAt = sourceRows /\ files.staged = sidecar.staged
  BY <1>2, TypesGiven DEF Sidecar
<1> HIDE DEF files
<1>4. /\ flight' \in [Searcher -> Flight] /\ flight'[p].at = "done"
      /\ flight'[p].rows = flight[p].rows
      /\ \A q \in Searcher : q # p => flight'[q] = flight[q]
  BY <1>1, TypesGiven, GoesTo
<1>5. SearchTypeOK' /\ SearchTypes'
  <2>1. {sidecar'.indexedAt, sidecar'.staged} \subseteq 0..sourceRows' \cup {NoIndex}
    BY <1>1, <1>2, <1>3, TypesGiven
  <2>2. racedRows' \subseteq 1..sourceRows'
    BY <1>1, TypesGiven
  <2> QED
    BY <2>1, <2>2, <1>1, <1>3, <1>4, TypesGiven, TypesFrame
<1>6. Owns(p)
  BY <1>1 DEF Owns, At
<1>7. OneOwner'
  BY <1>1, <1>4, <1>6, OwnerFrame DEF SearchInvariant, Owns
<1>8. ~stoleLock => /\ sidecar.db.rows = flight[p].rows /\ sidecar.db.whole
                    /\ Covered(sourceRows, flight[p].rows) /\ rebuildLock # NoIndex
  BY <1>1, <1>6 DEF SearchInvariant, BuildUndisturbed, OneOwner, At
<1>9. \A k : Covered(k, flight[p].rows) => 1..k \subseteq 1..flight[p].rows \cup racedRows'
  BY <1>1 DEF Covered
<1>10. BuildUndisturbed'
  <2> SUFFICES ASSUME ~stoleLock', NEW q \in Searcher,
                      flight'[q].at \in {"staged", "built", "renamed", "done"}
               PROVE  /\ flight'[q].at = "done"
                      /\ sidecar'.db.rows = flight'[q].rows /\ sidecar'.db.whole
                      /\ Covered(sourceRows, flight[q].rows)'
                      /\ Covered(sourceRows, sidecar.indexedAt)'
    BY DEF BuildUndisturbed
  <2>1. q = p
    BY <1>1, <1>4, <1>6, SoleOwner DEF SearchInvariant, Owns
  <2>2. Covered(sourceRows, flight[p].rows)'
    BY <1>1, <1>4, <1>8, <1>9 DEF Covered
  <2>3. Covered(sourceRows, sidecar.indexedAt)'
    BY <1>1, <1>3 DEF Covered
  <2> QED
    BY <2>1, <2>2, <2>3, <1>1, <1>3, <1>4, <1>8
<1>11. MetaIsTrue'
  BY <1>1, <1>3, <1>8, <1>9 DEF MetaIsTrue, Covered
<1>12. WaiterFindsResult'
  BY <1>1, <1>8 DEF WaiterFindsResult
<1>13. SearchesServed'
  BY <1>1, <1>3, <1>8, <1>9 DEF SearchInvariant, SearchesServed, Covered
<1> QED
  BY <1>5, <1>7, <1>10, <1>11, <1>12, <1>13 DEF SearchInvariant


\* The owner leaves its result to whoever waits, and answers its own search from it.
LEMMA ReleaseKeeps ==
  ASSUME SearchInvariant, NEW p \in Searcher, ReleaseRebuildLock(p)
  PROVE  SearchInvariant'
<1>1. /\ At(p, "done") /\ rebuildLock' = NoIndex
      /\ SettleFlight(p, flight, FALSE)
      /\ UNCHANGED <<sourceRows, sidecar, racedRows, stoleLock>>
  BY DEF ReleaseRebuildLock
<1>2. /\ flight' \in [Searcher -> Flight] /\ flight'[p] = NoFlight
      /\ \A q \in Searcher : q # p => flight'[q] = flight[q]
      /\ reading' \in [Searcher -> Reading] /\ reading'[p].since = reading[p].since
      /\ \A q \in Searcher : q # p => reading'[q] = reading[q]
  BY <1>1, TypesGiven, Settles
<1>3. NoFlight.at = "idle"
  BY DEF NoFlight
<1>4. SearchTypeOK' /\ SearchTypes'
  <2>1. \A q \in Searcher : reading'[q].since \in 0..sourceRows'
    BY <1>1, <1>2, TypesGiven
  <2> QED
    BY <2>1, <1>1, <1>2, TypesGiven, TypesFrame
<1>5. Owns(p)
  BY <1>1 DEF Owns, At
<1>6. OneOwner'
  <2> SUFFICES ASSUME ~stoleLock', NEW q \in Searcher, Owns(q)'
               PROVE  FALSE
    BY DEF OneOwner
  <2>1. q # p /\ Owns(q)
    BY <1>2, <1>3 DEF Owns
  <2> QED
    BY <2>1, <1>1, <1>5, SoleOwner DEF SearchInvariant
<1>7. BuildUndisturbed' /\ MetaIsTrue'
  BY <1>1, <1>2, <1>3, BuildFrame DEF SearchInvariant
<1>8. ~stoleLock => /\ sidecar.db.rows = flight[p].rows /\ sidecar.db.whole
                    /\ Covered(sourceRows, flight[p].rows)
                    /\ sidecar.indexedAt # NoIndex => Covered(sourceRows, sidecar.indexedAt)
  BY <1>1 DEF SearchInvariant, BuildUndisturbed, At
<1>9. WaiterFindsResult'
  BY <1>1, <1>8 DEF WaiterFindsResult, Covered
<1>10. SearchesServed'
  <2> SUFFICES ASSUME ~stoleLock', sidecar'.db # NoIndex, NEW q \in Searcher
               PROVE  sidecar'.db.whole /\ Covered(reading[q].since, sidecar.db.rows)'
    BY DEF SearchesServed
  <2>1. reading'[q].since = reading[q].since
    BY <1>2
  <2>2. reading[q].since \in Nat /\ sourceRows \in Nat /\ reading[q].since <= sourceRows
    BY TypesGiven
  <2>3. Covered(reading[q].since, flight[p].rows)
    BY <2>2, <1>1, <1>8, CoveredBelow
  <2> QED
    BY <2>1, <2>3, <1>1, <1>8 DEF Covered
<1> QED
  BY <1>4, <1>6, <1>7, <1>9, <1>10 DEF SearchInvariant

\* A rebuild fails: its own search is told, and whoever waits is deserted.
LEMMA ThrowsKeeps ==
  ASSUME SearchInvariant, NEW p \in Searcher, RebuildThrows(p)
  PROVE  SearchInvariant'
<1> DEFINE fl == IF At(p, "opened") THEN flight ELSE Deserted(flight)
<1>1. /\ flight[p].at \in {"opened", "owns", "staged", "built", "renamed"}
      /\ rebuildLock' = IF At(p, "opened") THEN rebuildLock ELSE NoIndex
      /\ SettleFlight(p, fl, TRUE)
      /\ UNCHANGED <<sourceRows, sidecar, racedRows, stoleLock>>
  BY DEF RebuildThrows
<1>2. /\ Deserted(flight) \in [Searcher -> Flight]
      /\ \A q \in Searcher :
           /\ Deserted(flight)[q].at = flight[q].at
           /\ Deserted(flight)[q].rows = flight[q].rows
           /\ Waits(q) => Deserted(flight)[q].deserted = TRUE
  BY TypesGiven, DesertedFlights
<1>3. /\ fl \in [Searcher -> Flight]
      /\ \A q \in Searcher : fl[q].at = flight[q].at /\ fl[q].rows = flight[q].rows
      /\ \/ At(p, "opened") /\ fl = flight
         \/ ~At(p, "opened") /\ \A q \in Searcher : Waits(q) => fl[q].deserted = TRUE
  BY <1>2, TypesGiven
<1> HIDE DEF fl
<1>4. /\ flight' \in [Searcher -> Flight] /\ flight'[p] = NoFlight
      /\ \A q \in Searcher : q # p => flight'[q] = fl[q]
      /\ reading' \in [Searcher -> Reading] /\ reading'[p].since = reading[p].since
      /\ reading'[p].at = "query" =>
           \/ reading'[p] = reading[p]
           \/ reading[p].at = "ensure" /\ reading'[p].excused = TRUE
      /\ \A q \in Searcher : q # p => reading'[q] = reading[q]
  BY <1>1, <1>3, TypesGiven, Settles
<1>5. NoFlight.at = "idle"
  BY DEF NoFlight
<1>6. SearchTypeOK' /\ SearchTypes'
  <2>1. \A q \in Searcher : reading'[q].since \in 0..sourceRows'
    BY <1>1, <1>4, TypesGiven
  <2>2. rebuildLock' \in {NoIndex} \cup LockFile
    BY <1>1, TypesGiven
  <2> QED
    BY <2>1, <2>2, <1>1, <1>4, TypesGiven, TypesFrame
<1>7. Owns(p)
  BY <1>1 DEF Owns
<1>8. \A q \in Searcher : q # p => flight'[q].at = flight[q].at /\ flight'[q].rows = flight[q].rows
  BY <1>3, <1>4
<1>9. OneOwner'
  <2> SUFFICES ASSUME ~stoleLock', NEW q \in Searcher, Owns(q)'
               PROVE  FALSE
    BY DEF OneOwner
  <2>1. q # p
    BY <1>4, <1>5 DEF Owns
  <2>2. Owns(q)
    BY <2>1, <1>8 DEF Owns
  <2> QED
    BY <2>1, <2>2, <1>1, <1>7, SoleOwner DEF SearchInvariant
<1>10. BuildUndisturbed' /\ MetaIsTrue'
  BY <1>1, <1>4, <1>5, <1>8, BuildFrame DEF SearchInvariant
<1>11. WaiterFindsResult'
  <2>1. CASE At(p, "opened") /\ fl = flight
    <3>1. rebuildLock' = rebuildLock
      BY <1>1, <2>1
    <3>2. \A q \in Searcher : flight'[q] = flight[q] \/ flight'[q].at = "idle"
      BY <2>1, <1>4, <1>5
    <3> QED
      BY <3>1, <3>2, <1>1, WaiterFrame DEF SearchInvariant
  <2>2. CASE \A q \in Searcher : Waits(q) => fl[q].deserted = TRUE
    <3> SUFFICES ASSUME NEW q \in Searcher, flight'[q].at = "wait", ~flight'[q].deserted
                 PROVE  FALSE
      BY DEF WaiterFindsResult, At
    <3>1. q # p
      BY <1>4, <1>5
    <3> QED
      BY <3>1, <2>2, <1>4, <1>8 DEF Waits
  <2> QED
    BY <2>1, <2>2, <1>3
<1>12. SearchesServed'
  BY <1>1, <1>4, ServedFrame DEF SearchInvariant
<1> QED
  BY <1>6, <1>9, <1>10, <1>11, <1>12 DEF SearchInvariant

\* A process dies: its lock stays, and says so.
LEMMA KillKeeps ==
  ASSUME SearchInvariant, NEW p \in Searcher, KillSearcher(p)
  PROVE  SearchInvariant'
<1> DEFINE lock == [rebuildLock EXCEPT !.dead = TRUE]
<1>1. /\ flight' = [flight EXCEPT ![p] = NoFlight]
      /\ reading' = [reading EXCEPT ![p] = NoReading]
      /\ rebuildLock' = IF rebuildLock # NoIndex /\ rebuildLock.by = p THEN lock ELSE rebuildLock
      /\ UNCHANGED <<sourceRows, sidecar, racedRows, stoleLock>>
  BY DEF KillSearcher
<1>2. ASSUME rebuildLock # NoIndex
      PROVE  lock \in LockFile /\ lock # NoIndex /\ lock.by = rebuildLock.by
  <2>1. rebuildLock \in LockFile
    BY <1>2, TypesGiven
  <2>2. lock \in LockFile /\ lock.by = rebuildLock.by
    BY <2>1 DEF LockFile
  <2> QED
    BY <2>2, LockIsFile
<1> HIDE DEF lock
<1>3. /\ rebuildLock' \in {NoIndex} \cup LockFile
      /\ (rebuildLock' = NoIndex) <=> (rebuildLock = NoIndex)
      /\ rebuildLock # NoIndex /\ rebuildLock.by # p => rebuildLock' = rebuildLock
  BY <1>1, <1>2, TypesGiven
<1>4. NoFlight \in Flight /\ NoFlight.at = "idle"
  BY TypesGiven DEF NoFlight, Flight
<1>5. NoReading \in Reading /\ NoReading.at = "idle" /\ NoReading.since = 0
  BY TypesGiven DEF NoReading, Reading
<1>6. /\ flight' \in [Searcher -> Flight] /\ flight'[p] = NoFlight
      /\ \A q \in Searcher : q # p => flight'[q] = flight[q]
  BY <1>1, <1>4, TypesGiven
<1>7. /\ reading' \in [Searcher -> Reading]
      /\ \A q \in Searcher : reading'[q] = reading[q] \/ reading'[q] = NoReading
  BY <1>1, <1>5, TypesGiven
<1>8. SearchTypeOK' /\ SearchTypes'
  <2>1. \A q \in Searcher : reading'[q].since \in 0..sourceRows'
    BY <1>1, <1>5, <1>7, TypesGiven
  <2> QED
    BY <2>1, <1>1, <1>3, <1>6, <1>7, TypesGiven, TypesFrame
<1>9. OneOwner'
  <2> SUFFICES ASSUME ~stoleLock', NEW q \in Searcher, Owns(q)'
               PROVE  rebuildLock' # NoIndex /\ rebuildLock'.by = q /\ ~rebuildLock'.dead
    BY DEF OneOwner
  <2>1. q # p /\ Owns(q)
    BY <1>4, <1>6 DEF Owns
  <2>2. rebuildLock # NoIndex /\ rebuildLock.by = q /\ ~rebuildLock.dead
    BY <2>1, <1>1 DEF SearchInvariant, OneOwner
  <2> QED
    BY <2>1, <2>2, <1>3
<1>10. BuildUndisturbed' /\ MetaIsTrue'
  BY <1>1, <1>4, <1>6, BuildFrame DEF SearchInvariant
<1>11. WaiterFindsResult'
  BY <1>1, <1>3, <1>4, <1>6, WaiterFrame DEF SearchInvariant
<1>12. SearchesServed'
  BY <1>1, <1>5, <1>7, ServedFrame DEF SearchInvariant
<1> QED
  BY <1>8, <1>9, <1>10, <1>11, <1>12 DEF SearchInvariant

\* A row is written: whoever rebuilds or waits for a rebuild has raced it.
LEMMA WriteKeeps ==
  ASSUME SearchInvariant, WriteSourceRow
  PROVE  SearchInvariant'
<1>1. /\ sourceRows < MaxSourceRows /\ sourceRows' = sourceRows + 1
      /\ racedRows' = IF \E p \in Searcher : ~At(p, "idle")
                      THEN racedRows \cup {sourceRows + 1} ELSE racedRows
      /\ UNCHANGED <<sidecar, rebuildLock, flight, reading, stoleLock>>
  BY DEF WriteSourceRow
<1>2. sourceRows \in Nat /\ MaxSourceRows \in Nat
  BY TypesGiven
<1>3. /\ sourceRows' \in 0..MaxSourceRows
      /\ 0..sourceRows \subseteq 0..sourceRows' /\ 1..sourceRows \subseteq 1..sourceRows'
      /\ sourceRows + 1 \in 1..sourceRows' /\ 1..sourceRows' = 1..sourceRows \cup {sourceRows + 1}
  BY <1>1, <1>2
<1>4. racedRows \subseteq racedRows' /\ racedRows' \subseteq 1..sourceRows'
  BY <1>1, <1>3, TypesGiven
<1>5. SearchTypeOK' /\ SearchTypes'
  <2>1. \A q \in Searcher : reading'[q].since \in 0..sourceRows'
    BY <1>1, <1>3, TypesGiven
  <2>2. {sidecar'.indexedAt, sidecar'.staged} \subseteq 0..sourceRows' \cup {NoIndex}
    BY <1>1, <1>3, TypesGiven
  <2> QED
    BY <2>1, <2>2, <1>1, <1>3, <1>4, TypesGiven, TypesFrame
<1>6. OneOwner'
  BY <1>1, OwnerFrame DEF SearchInvariant, Owns
<1>7. \A m, n : Covered(m, n) => 1..m \subseteq 1..n \cup racedRows'
  BY <1>4 DEF Covered
<1>8. ASSUME NEW q \in Searcher, ~At(q, "idle"), NEW n, Covered(sourceRows, n)
      PROVE  1..sourceRows' \subseteq 1..n \cup racedRows'
  <2>1. sourceRows + 1 \in racedRows'
    BY <1>1, <1>8
  <2> QED
    BY <2>1, <1>3, <1>7, <1>8
<1>9. BuildUndisturbed'
  <2>1. ASSUME ~stoleLock', NEW q \in Searcher,
               flight'[q].at \in {"staged", "built", "renamed", "done"}
        PROVE  /\ Covered(sourceRows, flight[q].rows)'
               /\ flight'[q].at = "done" /\ sidecar'.indexedAt # NoIndex =>
                    Covered(sourceRows, sidecar.indexedAt)'
    <3>1. ~stoleLock /\ ~At(q, "idle") /\ flight[q].at \in {"staged", "built", "renamed", "done"}
      BY <1>1, <2>1 DEF At
    <3>2. Covered(sourceRows, flight[q].rows)
      BY <3>1 DEF SearchInvariant, BuildUndisturbed
    <3>3. flight[q].at = "done" /\ sidecar.indexedAt # NoIndex =>
            Covered(sourceRows, sidecar.indexedAt)
      BY <3>1 DEF SearchInvariant, BuildUndisturbed
    <3> QED
      BY <3>1, <3>2, <3>3, <1>1, <1>8 DEF Covered
  <2> SUFFICES ASSUME ~stoleLock', NEW q \in Searcher
               PROVE  /\ flight'[q].at \in {"staged", "built"} =>
                           sidecar'.db = NoIndex /\ sidecar'.indexedAt = NoIndex
                      /\ flight'[q].at = "staged" =>
                           sidecar'.staged = flight'[q].rows /\ sidecar'.tmp.by = q
                      /\ flight'[q].at = "built" /\ sidecar'.tmp # NoIndex =>
                           sidecar'.tmp.rows = flight'[q].rows /\ sidecar'.tmp.whole
                      /\ flight'[q].at \in {"renamed", "done"} =>
                           sidecar'.db.rows = flight'[q].rows /\ sidecar'.db.whole
    BY <2>1 DEF BuildUndisturbed
  <2> QED
    BY <1>1 DEF SearchInvariant, BuildUndisturbed
<1>10. MetaIsTrue'
  BY <1>1, <1>7 DEF SearchInvariant, MetaIsTrue, Covered
<1>11. WaiterFindsResult'
  <2> SUFFICES ASSUME ~stoleLock', rebuildLock' = NoIndex, sidecar'.indexedAt # NoIndex,
                      NEW q \in Searcher, flight'[q].at = "wait", ~flight'[q].deserted
               PROVE  Covered(sourceRows, sidecar.indexedAt)'
    BY DEF WaiterFindsResult, At
  <2>1. At(q, "wait") /\ ~At(q, "idle") /\ ~flight[q].deserted
    BY <1>1 DEF At
  <2>2. Covered(sourceRows, sidecar.indexedAt)
    BY <2>1, <1>1 DEF SearchInvariant, WaiterFindsResult
  <2> QED
    BY <2>1, <2>2, <1>1, <1>8 DEF Covered
<1>12. SearchesServed'
  BY <1>1, <1>7 DEF SearchInvariant, SearchesServed, Covered
<1> QED
  BY <1>5, <1>6, <1>9, <1>10, <1>11, <1>12 DEF SearchInvariant

\* Nothing is indexed and nothing runs.
LEMMA SearchStarts ==
  ASSUME SearchInit
  PROVE  SearchInvariant
<1>1. /\ sourceRows = 0 /\ sidecar = NoSidecar /\ rebuildLock = NoIndex /\ racedRows = {}
      /\ flight = [p \in Searcher |-> NoFlight] /\ reading = [p \in Searcher |-> NoReading]
      /\ stoleLock = FALSE
  BY DEF SearchInit
<1>2. NoFlight \in Flight /\ NoFlight.at = "idle"
  BY SearchIndexAssumption DEF NoFlight, Flight
<1>3. NoReading \in Reading /\ NoReading.at = "idle" /\ NoReading.since = 0
  BY SearchIndexAssumption DEF NoReading, Reading
<1>4. NoSidecar \in Sidecar /\ NoSidecar.db = NoIndex /\ NoSidecar.tmp = NoIndex
      /\ NoSidecar.indexedAt = NoIndex /\ NoSidecar.staged = NoIndex
  BY DEF NoSidecar, Sidecar, IndexFile
<1>5. \A p \in Searcher : flight[p] = NoFlight /\ reading[p] = NoReading
  BY <1>1
<1>6. SearchTypeOK
  <2>1. sourceRows \in 0..MaxSourceRows /\ 0 \in 0..sourceRows
    BY <1>1, SearchIndexAssumption
  <2> QED
    BY <2>1, <1>1, <1>2, <1>3, <1>4, <1>5 DEF SearchTypeOK, IndexFile
<1>7. SearchTypes
  BY <1>1, <1>2, <1>3, <1>4 DEF SearchTypes
<1>8. OneOwner /\ BuildUndisturbed /\ WaiterFindsResult
  BY <1>2, <1>5 DEF OneOwner, Owns, BuildUndisturbed, WaiterFindsResult, At
<1>9. MetaIsTrue /\ SearchesServed
  BY <1>1, <1>4 DEF MetaIsTrue, SearchesServed
<1> QED
  BY <1>6, <1>7, <1>8, <1>9 DEF SearchInvariant

\* Every step keeps the invariant.
LEMMA SearchStep ==
  ASSUME SearchInvariant, [SearchNext]_searchVars
  PROVE  SearchInvariant'
<1>1. CASE WriteSourceRow
  BY <1>1, WriteKeeps
<1>2. CASE AgeRebuildLock
  BY <1>2, AgeKeeps
<1>3. ASSUME NEW p \in Searcher,
             \/ StartRead(p) \/ CommandRebuild(p) \/ Answer(p)
             \/ CreateRebuildLock(p) \/ NameRebuildLock(p) \/ FindRebuildLock(p)
             \/ RemoveStaleLock(p) \/ Poll(p)
             \/ Stage(p) \/ Load(p) \/ RenameIndex(p) \/ WriteIndexMeta(p)
             \/ ReleaseRebuildLock(p) \/ RebuildThrows(p) \/ KillSearcher(p)
      PROVE  SearchInvariant'
  BY <1>3, StartReadKeeps, CommandKeeps, AnswerKeeps, CreateKeeps, NameKeeps, FindKeeps,
     RemoveKeeps, PollKeeps, StageKeeps, LoadKeeps, RenameKeeps, MetaKeeps, ReleaseKeeps,
     ThrowsKeeps, KillKeeps
<1>4. CASE UNCHANGED searchVars
  BY <1>4 DEF searchVars, SearchInvariant, SearchTypeOK, SearchTypes, OneOwner, BuildUndisturbed,
     MetaIsTrue, WaiterFindsResult, SearchesServed, Owns, Covered, At
<1> QED
  BY <1>1, <1>2, <1>3, <1>4 DEF SearchNext

\* The lock file admits one builder, what it builds stays undisturbed, the meta claims no
\* row the index lacks, and a waiter takes nothing but its owner's result for one: for
\* any number of processes, kills and failures (the rebuild lock, the staged load and
\* rename, the poll).
THEOREM SearchInvariantHolds == SearchSpec => []SearchInvariant
<1>1. SearchInit => SearchInvariant
  BY SearchStarts
<1>2. SearchInvariant /\ [SearchNext]_searchVars => SearchInvariant'
  BY SearchStep
<1> QED
  BY <1>1, <1>2, PTL DEF SearchSpec

\* A keyword search that was not told otherwise answers from a whole index with every
\* row acknowledged before it started, but for raced ones (keywordSearch).
THEOREM ServedIsCurrentHolds == SearchSpec => []ServedIsCurrent
<1>1. SearchInvariant => ServedIsCurrent
  BY DEF SearchInvariant, SearchesServed, ServedIsCurrent, Covered
<1> QED
  BY <1>1, SearchInvariantHolds, PTL

--------------------------------------------------------------------------------
(***************************************************************************)
(* The list of memories, for any number of calls, memories, rows and       *)
(* months.  MemoriesInvariant is inductive; ListIsLive follows from it.    *)
(***************************************************************************)

\* The memories as a specification of their own.
MemoriesSpec == MemoriesInit /\ [][MemoriesNext]_memoriesVars

RowKey == MemoryKey \cup {UnknownKey}
RowAuthor == Author \cup {SystemAuthor}

MemoriesTypes ==
  /\ memoryRows \subseteq MemoryRow /\ archive \subseteq MemoryRow
  /\ month \in 1..MaxMonth
  /\ lastId \in 0..MaxMemoryId /\ lastTime \in 0..MaxMemoryRows
  /\ memoryCall \in [MemoryCall -> [at : {"idle", "found", "named", "forgot"},
                                    id : 0..MaxMemoryId, key : RowKey, month : 0..MaxMonth,
                                    stamp : [key : RowKey, by : RowAuthor], update : BOOLEAN]]
  /\ squash \in [at : {"idle", "read", "copied"}, month : 0..MaxMonth, rows : SUBSET MemoryRow]
  /\ alive \subseteq 1..lastId /\ gone \subseteq 1..lastId

RowsArePast == \A row \in memoryRows : row.id <= lastId /\ row.at <= lastTime /\ row.month <= month

\* A memory is created once; its tombstones are newer, and of no earlier month.
Creates(row, id) == row.id = id /\ IsLive(row)
Ends(row, id) == row.id = id /\ ~IsLive(row)
OneCreation == \A a, b \in memoryRows : Creates(a, a.id) /\ Creates(b, a.id) => a = b
TombstonesFollow ==
  \A a, t \in memoryRows : Creates(a, a.id) /\ Ends(t, a.id) => a.at < t.at /\ a.month <= t.month

\* Of the tombstones in the partition of the memory's row, one has its key.
Names(t, a) == Ends(t, a.id) /\ t.month = a.month
OneTombstoneNames ==
  \A a, t \in memoryRows :
    Creates(a, a.id) /\ Names(t, a) => \E u \in memoryRows : Names(u, a) /\ u.key = a.key

\* What a forget or an update knows of its memory.
KnowsRow(call) ==
  /\ call.id \in 1..lastId /\ call.month \in 1..month
  /\ \A a \in memoryRows : Creates(a, call.id) => a.month <= call.month
  /\ call.at = "named" =>
       \A a \in memoryRows : Creates(a, call.id) /\ a.month = call.month =>
         call.stamp.key = a.key \/ \E t \in memoryRows : Names(t, a)
Knows(call) == call.id \notin alive /\ KnowsRow(call)
CallsKnow == \A c \in MemoryCall : memoryCall[c].at \in {"found", "named"} => Knows(memoryCall[c])

\* A memory nobody began to forget has no tombstone, and its row is somewhere.
AliveIsThere ==
  \A id \in alive :
    /\ \A row \in memoryRows : ~Ends(row, id)
    /\ (\E row \in memoryRows : row.id = id) \/ Archived(id) \/ Overtaken(id)

\* A squash has read its partition, except what was appended since.
SquashHasRows ==
  /\ squash.at # "idle" =>
       \A row \in memoryRows : row.month = squash.month => row \in squash.rows \cup overtaken
  /\ squash.at = "copied" => \A row \in squash.rows : IsLive(row) => row \in archive

\* The inductive invariant.
MemoriesInvariant ==
  /\ MemoriesTypes /\ RowsArePast /\ OneCreation /\ TombstonesFollow /\ OneTombstoneNames
  /\ CallsKnow /\ AliveIsThere /\ SquashHasRows

\* What a row is.
LEMMA RowParts ==
  ASSUME MemoriesTypes
  PROVE  /\ MaxMonth \in Nat /\ MaxMemoryId \in Nat /\ MaxMemoryRows \in Nat
         /\ month \in Nat /\ lastId \in Nat /\ lastTime \in Nat
         /\ \A row \in memoryRows : row \in MemoryRow
         /\ \A row \in MemoryRow :
              /\ row.id \in Nat /\ row.id \in 1..MaxMemoryId /\ row.at \in Nat /\ row.month \in Nat
              /\ row.key \in RowKey /\ row.by \in RowAuthor /\ row.act \in {"add", "tombstone"}
<1>1. MaxMonth \in Nat /\ MaxMemoryId \in Nat /\ MaxMemoryRows \in Nat
  BY MemoriesAssumption DEF MemoriesAssumption
<1>2. month \in Nat /\ lastId \in Nat /\ lastTime \in Nat
  BY <1>1 DEF MemoriesTypes
<1>3. \A row \in MemoryRow :
        /\ row.id \in Nat /\ row.id \in 1..MaxMemoryId /\ row.at \in Nat /\ row.month \in Nat
        /\ row.key \in RowKey /\ row.by \in RowAuthor /\ row.act \in {"add", "tombstone"}
  BY <1>1 DEF MemoryRow, RowKey, RowAuthor
<1> QED
  BY <1>1, <1>2, <1>3 DEF MemoriesTypes

\* A memory is appended.
LEMMA AddStep ==
  ASSUME MemoriesInvariant, NEW key \in RowKey, NEW by \in Author, AddMemory(key, by),
         memoryCall' = memoryCall \/ \E c \in MemoryCall : memoryCall' = [memoryCall EXCEPT ![c] = NoCall],
         UNCHANGED <<archive, month, squash, gone>>
  PROVE  MemoriesInvariant'
<1> DEFINE new == MemoryLine(lastId + 1, key, by, "add", month)
<1>1. /\ lastId < MaxMemoryId /\ lastTime < MaxMemoryRows /\ lastId' = lastId + 1
      /\ lastTime' = new.at /\ memoryRows' = memoryRows \cup {new} /\ alive' = alive \cup {lastId + 1}
      /\ overtaken' = IF squash.month = new.month THEN overtaken \cup {new} ELSE overtaken
      /\ archive' = archive /\ month' = month /\ squash' = squash /\ gone' = gone
  BY DEF AddMemory, AppendMemory
<1>2. /\ new.id = lastId + 1 /\ new.at = lastTime + 1 /\ new.month = month /\ new.key = key
      /\ new.by = by /\ new.act = "add"
  BY DEF MemoryLine
<1>3. /\ MaxMonth \in Nat /\ MaxMemoryId \in Nat /\ MaxMemoryRows \in Nat
      /\ month \in Nat /\ lastId \in Nat /\ lastTime \in Nat
      /\ \A row \in memoryRows : /\ row.id \in Nat /\ row.at \in Nat /\ row.month \in Nat
                                 /\ row.id <= lastId /\ row.at <= lastTime /\ row.month <= month
  BY RowParts DEF MemoriesInvariant, RowsArePast
<1>4. new \in MemoryRow
  BY <1>1, <1>3 DEF MemoryLine, MemoryRow, MemoriesInvariant, MemoriesTypes, RowKey
<1> HIDE DEF new
<1>5. \A row \in memoryRows : row.id # new.id
  BY <1>2, <1>3
<1>6. \A id : Creates(new, new.id) /\ ~Ends(new, id)
  BY <1>2 DEF Creates, Ends, IsLive
<1>7. \A c \in MemoryCall : memoryCall'[c] = memoryCall[c] \/ memoryCall'[c].at = "idle"
  BY DEF MemoriesInvariant, MemoriesTypes, NoCall
<1>8. MemoriesTypes'
  <2>1. NoCall \in [at : {"idle", "found", "named", "forgot"}, id : 0..MaxMemoryId, key : RowKey,
                    month : 0..MaxMonth, stamp : [key : RowKey, by : RowAuthor], update : BOOLEAN]
    BY <1>3 DEF NoCall, Unknown, RowKey, RowAuthor
  <2>2. lastId' \in 0..MaxMemoryId /\ lastTime' \in 0..MaxMemoryRows
    BY <1>1, <1>2, <1>3
  <2>3. alive' \subseteq 1..lastId' /\ gone' \subseteq 1..lastId'
    BY <1>1, <1>3 DEF MemoriesInvariant, MemoriesTypes
  <2> QED
    BY <1>1, <1>4, <2>1, <2>2, <2>3 DEF MemoriesInvariant, MemoriesTypes
<1>9. RowsArePast'
  BY <1>1, <1>2, <1>3 DEF RowsArePast
<1>10. OneCreation' /\ TombstonesFollow' /\ OneTombstoneNames'
  BY <1>1, <1>5, <1>6
    DEF MemoriesInvariant, OneCreation, TombstonesFollow, OneTombstoneNames, Creates, Ends, Names
<1>11. CallsKnow'
  <2>1. SUFFICES ASSUME NEW c \in MemoryCall, memoryCall'[c].at \in {"found", "named"}
                 PROVE  Knows(memoryCall[c])' /\ memoryCall'[c] = memoryCall[c]
    BY DEF CallsKnow
  <2>2. memoryCall'[c] = memoryCall[c] /\ Knows(memoryCall[c])
    BY <1>7, <2>1 DEF MemoriesInvariant, CallsKnow
  <2>3. memoryCall[c].id # new.id
    BY <1>2, <1>3, <2>2 DEF Knows, KnowsRow
  <2>4. memoryCall[c].id \in 1..lastId' /\ memoryCall[c].id \notin alive'
    BY <1>1, <1>2, <1>3, <2>2, <2>3 DEF Knows, KnowsRow
  <2> QED
    BY <1>1, <2>2, <2>3, <2>4 DEF Knows, KnowsRow, Creates, Ends, Names
<1>12. AliveIsThere'
  BY <1>1, <1>2, <1>5, <1>6 DEF MemoriesInvariant, AliveIsThere, Archived, Overtaken, Ends
<1>13. SquashHasRows'
  BY <1>1 DEF MemoriesInvariant, SquashHasRows
<1> QED
  BY <1>8, <1>9, <1>10, <1>11, <1>12, <1>13 DEF MemoriesInvariant

\* A tombstone is appended.
LEMMA TombstoneStep ==
  ASSUME MemoriesInvariant, NEW call \in MemoryCall, NEW by \in Author \cup {NoFilter},
         Tombstone(call, by)
  PROVE  MemoriesInvariant'
<1> DEFINE found == memoryCall[call]
           author == IF by = NoFilter THEN found.stamp.by ELSE by
           new == MemoryLine(found.id, found.stamp.key, author, "tombstone", found.month)
           after == IF found.update THEN [NoCall EXCEPT !.at = "forgot", !.key = found.key] ELSE NoCall
<1>1. /\ found.at = "named" /\ lastTime < MaxMemoryRows
      /\ lastTime' = new.at /\ memoryRows' = memoryRows \cup {new}
      /\ overtaken' = IF squash.month = new.month THEN overtaken \cup {new} ELSE overtaken
      /\ gone' = gone \cup {found.id} /\ memoryCall' = [memoryCall EXCEPT ![call] = after]
      /\ archive' = archive /\ month' = month /\ squash' = squash /\ lastId' = lastId /\ alive' = alive
  BY DEF Tombstone, AppendMemory
<1>2. /\ new.id = found.id /\ new.at = lastTime + 1 /\ new.month = found.month
      /\ new.key = found.stamp.key /\ new.act = "tombstone"
  BY DEF MemoryLine
<1>3. /\ MaxMonth \in Nat /\ MaxMemoryId \in Nat /\ MaxMemoryRows \in Nat
      /\ month \in Nat /\ lastId \in Nat /\ lastTime \in Nat
      /\ \A row \in memoryRows : /\ row.id \in Nat /\ row.at \in Nat /\ row.month \in Nat
                                 /\ row.id <= lastId /\ row.at <= lastTime /\ row.month <= month
  BY RowParts DEF MemoriesInvariant, RowsArePast
<1>4. /\ found.id \in 1..lastId /\ found.id \notin alive /\ found.month \in 1..month
      /\ \A a \in memoryRows : Creates(a, found.id) => a.month <= found.month
      /\ \A a \in memoryRows : Creates(a, found.id) /\ a.month = found.month =>
           found.stamp.key = a.key \/ \E t \in memoryRows : Names(t, a)
  BY <1>1 DEF MemoriesInvariant, CallsKnow, Knows, KnowsRow
<1>5. /\ found.stamp.key \in RowKey /\ found.stamp.by \in RowAuthor /\ found.key \in RowKey
      /\ month <= MaxMonth /\ lastId <= MaxMemoryId
  BY <1>3 DEF MemoriesInvariant, MemoriesTypes
<1>6. new \in MemoryRow
  <2>1. author \in RowAuthor
    BY <1>5 DEF RowAuthor
  <2>2. found.id \in 1..MaxMemoryId /\ found.month \in 1..MaxMonth /\ lastTime + 1 \in 0..MaxMemoryRows
    BY <1>1, <1>3, <1>4, <1>5
  <2> HIDE DEF author, found
  <2> QED
    BY <1>5, <2>1, <2>2 DEF MemoryLine, MemoryRow, RowKey, RowAuthor
<1>7. after \in [at : {"idle", "found", "named", "forgot"}, id : 0..MaxMemoryId, key : RowKey,
                 month : 0..MaxMonth, stamp : [key : RowKey, by : RowAuthor], update : BOOLEAN]
      /\ after.at \in {"idle", "forgot"}
  <2> HIDE DEF found
  <2>1. CASE found.update
    <3> DEFINE key == found.key
    <3>1. after = [NoCall EXCEPT !.at = "forgot", !.key = key]
      BY <2>1
    <3>2. key \in RowKey /\ Unknown \in [key : RowKey, by : RowAuthor]
      BY <1>5 DEF Unknown, RowKey, RowAuthor
    <3>3. 0 \in 0..MaxMemoryId /\ 0 \in 0..MaxMonth
      BY <1>3
    <3> HIDE DEF after, key
    <3>4. after = [at |-> "forgot", id |-> 0, key |-> key, month |-> 0, stamp |-> Unknown,
                   update |-> FALSE]
      BY <3>1 DEF NoCall
    <3> QED
      BY <3>2, <3>3, <3>4
  <2>2. CASE ~found.update
    <3>1. after = NoCall
      BY <2>2
    <3> HIDE DEF after
    <3> QED
      BY <1>3, <3>1 DEF NoCall, Unknown, RowKey, RowAuthor
  <2> QED
    BY <2>1, <2>2
<1> HIDE DEF new, after, author
<1>8. Ends(new, found.id) /\ \A id : ~Creates(new, id)
  BY <1>2 DEF Creates, Ends, IsLive
<1>9. MemoriesTypes'
  <2>1. lastTime' \in 0..MaxMemoryRows
    <3> HIDE DEF found
    <3> QED
      BY <1>1, <1>2, <1>3
  <2>2. gone' \subseteq 1..lastId'
    <3>1. gone \subseteq 1..lastId
      BY DEF MemoriesInvariant, MemoriesTypes
    <3> HIDE DEF found
    <3> QED
      BY <1>1, <1>4, <3>1
  <2> QED
    BY <1>1, <1>6, <1>7, <2>1, <2>2 DEF MemoriesInvariant, MemoriesTypes
<1>10. RowsArePast'
  BY <1>1, <1>2, <1>3, <1>4 DEF RowsArePast
<1>11. OneCreation'
  BY <1>1, <1>8 DEF MemoriesInvariant, OneCreation
<1>12. TombstonesFollow'
  <2>1. ASSUME NEW a \in memoryRows, Creates(a, a.id), Ends(new, a.id)
        PROVE  a.at < new.at /\ a.month <= new.month
    <3>1. a.id = found.id
      BY <1>2, <2>1 DEF Ends
    <3> QED
      BY <1>2, <1>3, <1>4, <2>1, <3>1
  <2> QED
    BY <1>1, <1>8, <2>1 DEF MemoriesInvariant, TombstonesFollow
<1>13. OneTombstoneNames'
  <2>1. ASSUME NEW a \in memoryRows, Creates(a, a.id), Names(new, a)
        PROVE  \E u \in memoryRows \cup {new} : Names(u, a) /\ u.key = a.key
    <3>1. a.id = found.id /\ a.month = found.month
      BY <1>2, <2>1 DEF Names, Ends
    <3>2. new.key = a.key \/ \E t \in memoryRows : Names(t, a)
      BY <1>2, <1>4, <2>1, <3>1
    <3> QED
      BY <2>1, <3>2 DEF MemoriesInvariant, OneTombstoneNames
  <2>2. ASSUME NEW a \in memoryRows, NEW t \in memoryRows, Creates(a, a.id), Names(t, a)
        PROVE  \E u \in memoryRows : Names(u, a) /\ u.key = a.key
    BY <2>2 DEF MemoriesInvariant, OneTombstoneNames
  <2> QED
    BY <1>1, <1>8, <2>1, <2>2 DEF OneTombstoneNames
<1>14. CallsKnow'
  <2>1. SUFFICES ASSUME NEW c \in MemoryCall, memoryCall'[c].at \in {"found", "named"}
                 PROVE  Knows(memoryCall[c])' /\ memoryCall'[c] = memoryCall[c]
    BY DEF CallsKnow
  <2>2. memoryCall'[c] = memoryCall[c] /\ Knows(memoryCall[c])
    <3>1. c # call
      BY <1>1, <1>7, <2>1 DEF MemoriesInvariant, MemoriesTypes
    <3> QED
      BY <1>1, <2>1, <3>1 DEF MemoriesInvariant, MemoriesTypes, CallsKnow
  <2> QED
    BY <1>1, <1>8, <2>2 DEF Knows, KnowsRow
<1>15. AliveIsThere'
  <2>1. \A id \in alive : ~Ends(new, id)
    BY <1>2, <1>4 DEF Ends
  <2> QED
    BY <1>1, <2>1 DEF MemoriesInvariant, AliveIsThere, Archived, Overtaken
<1>16. SquashHasRows'
  BY <1>1 DEF MemoriesInvariant, SquashHasRows
<1> QED
  BY <1>9, <1>10, <1>11, <1>12, <1>13, <1>14, <1>15, <1>16 DEF MemoriesInvariant

\* A filter by id shows the rows of that memory alone, one by key those with that key.
LEMMA FilterParts ==
  ASSUME MemoriesTypes, NEW row \in MemoryRow
  PROVE  /\ \A id \in 1..MaxMemoryId : Matches(row, id) <=> row.id = id
         /\ \A key \in MemoryKey : Matches(row, key) <=> row.key = key
         /\ Matches(row, NoFilter)
<1>1. row.id \in 1..MaxMemoryId /\ row.key \in RowKey /\ row.by \in RowAuthor
  BY RowParts
<1>2. ASSUME NEW id \in 1..MaxMemoryId PROVE Matches(row, id) <=> row.id = id
  <2>1. id \notin MemoryKey \cup Author \cup {UnknownKey, SystemAuthor, NoFilter}
    BY FilterAssumption DEF FilterAssumption
  <2> QED
    BY <1>1, <2>1 DEF Matches, RowKey, RowAuthor
<1>3. ASSUME NEW key \in MemoryKey PROVE Matches(row, key) <=> row.key = key
  <2>1. key \notin Author \cup {SystemAuthor, NoFilter} /\ key \notin 1..MaxMemoryId
    BY FilterAssumption DEF FilterAssumption
  <2> QED
    BY <1>1, <2>1 DEF Matches, RowAuthor
<1> QED
  BY <1>2, <1>3 DEF Matches

\* The rows stay, and one call knows what it should.
LEMMA CallBecomes ==
  ASSUME MemoriesInvariant, NEW call \in MemoryCall, NEW new,
         new \in [at : {"idle", "found", "named", "forgot"}, id : 0..MaxMemoryId, key : RowKey,
                  month : 0..MaxMonth, stamp : [key : RowKey, by : RowAuthor], update : BOOLEAN],
         memoryCall' = [memoryCall EXCEPT ![call] = new],
         new.at \in {"found", "named"} => new.id \notin alive' /\ KnowsRow(new),
         alive' \subseteq alive,
         UNCHANGED <<memoryRows, archive, month, lastId, lastTime, squash, gone, overtaken>>
  PROVE  MemoriesInvariant'
<1>1. MemoriesTypes'
  BY DEF MemoriesInvariant, MemoriesTypes
<1>2. RowsArePast' /\ OneCreation' /\ TombstonesFollow' /\ OneTombstoneNames' /\ SquashHasRows'
  BY DEF MemoriesInvariant, RowsArePast, OneCreation, TombstonesFollow, OneTombstoneNames,
         SquashHasRows
<1>3. CallsKnow'
  <2>1. SUFFICES ASSUME NEW c \in MemoryCall, memoryCall'[c].at \in {"found", "named"}
                 PROVE  Knows(memoryCall[c])'
    BY DEF CallsKnow
  <2>2. CASE c = call
    <3>1. memoryCall'[c] = new
      BY <2>2 DEF MemoriesInvariant, MemoriesTypes
    <3> QED
      BY <2>1, <3>1 DEF Knows, KnowsRow
  <2>3. CASE c # call
    <3>1. memoryCall'[c] = memoryCall[c]
      BY <2>3 DEF MemoriesInvariant, MemoriesTypes
    <3> QED
      BY <2>1, <3>1 DEF MemoriesInvariant, CallsKnow, Knows, KnowsRow
  <2> QED
    BY <2>2, <2>3
<1>4. AliveIsThere'
  BY DEF MemoriesInvariant, AliveIsThere, Archived, Overtaken
<1> QED
  BY <1>1, <1>2, <1>3, <1>4 DEF MemoriesInvariant

LEMMA FindStep ==
  ASSUME MemoriesInvariant, NEW call \in MemoryCall, NEW id \in 1..MaxMemoryId,
         NEW update \in BOOLEAN, FindMemory(call, id, update)
  PROVE  MemoriesInvariant'
<1>1. PICK row \in Fused(memoryRows, id) :
        memoryCall' = [memoryCall EXCEPT ![call] =
          [at |-> "found", id |-> id, key |-> row.key, month |-> month, stamp |-> Unknown,
           update |-> update]]
  BY DEF FindMemory
<1>2. /\ alive' = alive \ {id} /\ memoryRows' = memoryRows /\ archive' = archive /\ month' = month
      /\ lastId' = lastId /\ lastTime' = lastTime /\ squash' = squash /\ gone' = gone
      /\ overtaken' = overtaken
  BY DEF FindMemory
<1>3. /\ row \in memoryRows /\ row \in MemoryRow /\ Matches(row, id) /\ MemoriesTypes
      /\ month \in 1..MaxMonth /\ row.key \in RowKey
  <2>1. row \in memoryRows /\ Matches(row, id) /\ MemoriesTypes
    BY DEF Fused, NewestOfEach, Matching, MemoriesInvariant
  <2> QED
    BY <2>1, RowParts DEF MemoriesTypes
<1>4. id \in 1..lastId
  BY <1>3, FilterParts, RowParts DEF MemoriesInvariant, RowsArePast
<1> DEFINE k == row.key
           new == [at |-> "found", id |-> id, key |-> k, month |-> month, stamp |-> Unknown,
                   update |-> update]
<1>5. memoryCall' = [memoryCall EXCEPT ![call] = new]
  BY <1>1
<1>6. /\ new \in [at : {"idle", "found", "named", "forgot"}, id : 0..MaxMemoryId, key : RowKey,
                  month : 0..MaxMonth, stamp : [key : RowKey, by : RowAuthor], update : BOOLEAN]
      /\ new.at = "found" /\ new.id = id /\ new.month = month
  <2>1. /\ id \in 0..MaxMemoryId /\ month \in 0..MaxMonth /\ k \in RowKey
        /\ Unknown \in [key : RowKey, by : RowAuthor]
    BY <1>3, RowParts DEF Unknown, RowKey, RowAuthor
  <2> HIDE DEF k
  <2> QED
    BY <2>1
<1> HIDE DEF new
<1>7. new.id \notin alive' /\ KnowsRow(new)
  <2>1. \A a \in memoryRows : a.month <= month
    BY DEF MemoriesInvariant, RowsArePast
  <2>2. month \in 1..month
    BY <1>3, RowParts
  <2> QED
    BY <1>2, <1>4, <1>6, <2>1, <2>2 DEF KnowsRow
<1> QED
  BY <1>2, <1>5, <1>6, <1>7, CallBecomes

LEMMA LookStep ==
  ASSUME MemoriesInvariant, NEW call \in MemoryCall, LookInPartition(call)
  PROVE  MemoriesInvariant'
<1> DEFINE found == memoryCall[call]
           here == {row \in memoryRows : row.month = found.month}
           original == Fused(here, found.id)
           stamps == IF original = {} THEN {Unknown}
                     ELSE {[key |-> row.key, by |-> row.by] : row \in original}
<1>1. PICK stamp \in stamps :
        memoryCall' = [memoryCall EXCEPT ![call].at = "named", ![call].stamp = stamp]
  BY DEF LookInPartition
<1>2. /\ found.at = "found" /\ memoryRows' = memoryRows /\ archive' = archive /\ month' = month
      /\ lastId' = lastId /\ lastTime' = lastTime /\ squash' = squash /\ gone' = gone
      /\ overtaken' = overtaken /\ alive' = alive
  BY DEF LookInPartition, histories
<1>3. /\ MemoriesTypes /\ Knows(found) /\ found.id \in 1..MaxMemoryId
      /\ found \in [at : {"idle", "found", "named", "forgot"}, id : 0..MaxMemoryId, key : RowKey,
                    month : 0..MaxMonth, stamp : [key : RowKey, by : RowAuthor], update : BOOLEAN]
  <2>1. /\ MemoriesTypes /\ Knows(found)
        /\ found \in [at : {"idle", "found", "named", "forgot"}, id : 0..MaxMemoryId, key : RowKey,
                      month : 0..MaxMonth, stamp : [key : RowKey, by : RowAuthor],
                      update : BOOLEAN]
    BY <1>2 DEF MemoriesInvariant, MemoriesTypes, CallsKnow
  <2>2. found.id \in 1..lastId /\ lastId <= MaxMemoryId /\ lastId \in Nat /\ MaxMemoryId \in Nat
    BY <2>1, RowParts DEF Knows, KnowsRow, MemoriesTypes
  <2> HIDE DEF found
  <2> QED
    BY <2>1, <2>2
<1> HIDE DEF found
<1>4. \A row \in here : row \in MemoryRow /\ (Matches(row, found.id) <=> row.id = found.id)
  BY <1>3, FilterParts DEF MemoriesTypes
<1>5. \A row \in original : row \in memoryRows /\ Creates(row, found.id)
  BY <1>4 DEF Fused, NewestOfEach, Matching, Creates
<1>6. stamp \in [key : RowKey, by : RowAuthor]
  <2>1. Unknown \in [key : RowKey, by : RowAuthor]
    BY DEF Unknown, RowKey, RowAuthor
  <2>2. \A row \in original : [key |-> row.key, by |-> row.by] \in [key : RowKey, by : RowAuthor]
    BY <1>3, <1>5, RowParts
  <2> HIDE DEF original
  <2> QED
    BY <1>1, <2>1, <2>2
<1>7. ASSUME NEW a \in memoryRows, Creates(a, found.id), a.month = found.month
      PROVE  stamp.key = a.key \/ \E t \in memoryRows : Names(t, a)
  <2>1. SUFFICES ASSUME ~\E t \in memoryRows : Names(t, a) PROVE stamp.key = a.key
    OBVIOUS
  <2>2. a \in here /\ a.id = found.id /\ IsLive(a)
    BY <1>7 DEF Creates
  <2>3. ASSUME NEW row \in here, row.id = found.id PROVE row = a
    <3>1. Creates(row, a.id)
      BY <1>7, <2>1, <2>2, <2>3 DEF Names, Ends, Creates
    <3> QED
      BY <2>2, <2>3, <3>1 DEF MemoriesInvariant, OneCreation, Creates
  <2>4. a.at <= a.at
    BY <1>3, RowParts
  <2>5. original = {a}
    BY <1>4, <2>2, <2>3, <2>4 DEF Fused, NewestOfEach, Matching
  <2>6. stamp = [key |-> a.key, by |-> a.by]
    BY <1>1, <2>5
  <2> QED
    BY <2>6
<1> HIDE DEF here, original, stamps
<1> DEFINE new == [found EXCEPT !.at = "named", !.stamp = stamp]
<1>8. memoryCall' = [memoryCall EXCEPT ![call] = new]
  BY <1>1 DEF found, MemoriesInvariant, MemoriesTypes
<1>9. /\ new \in [at : {"idle", "found", "named", "forgot"}, id : 0..MaxMemoryId, key : RowKey,
                  month : 0..MaxMonth, stamp : [key : RowKey, by : RowAuthor], update : BOOLEAN]
      /\ new.at = "named" /\ new.id = found.id /\ new.month = found.month /\ new.stamp = stamp
  BY <1>3, <1>6
<1> HIDE DEF new
<1>10. new.id \notin alive' /\ KnowsRow(new)
  BY <1>2, <1>3, <1>7, <1>9 DEF Knows, KnowsRow
<1> QED
  BY <1>2, <1>8, <1>9, <1>10, CallBecomes

LEMMA AbandonStep ==
  ASSUME MemoriesInvariant, NEW call \in MemoryCall, AbandonCall(call)
  PROVE  MemoriesInvariant'
<1>1. /\ memoryCall' = [memoryCall EXCEPT ![call] = NoCall]
      /\ alive' = alive
      /\ UNCHANGED <<memoryRows, archive, month, lastId, lastTime, squash, gone, overtaken>>
  BY DEF AbandonCall, histories
<1>2. /\ NoCall \in [at : {"idle", "found", "named", "forgot"}, id : 0..MaxMemoryId, key : RowKey,
                     month : 0..MaxMonth, stamp : [key : RowKey, by : RowAuthor],
                     update : BOOLEAN]
      /\ NoCall.at = "idle"
  BY RowParts DEF MemoriesInvariant, NoCall, Unknown, RowKey, RowAuthor
<1> QED
  BY <1>1, <1>2, CallBecomes

\* A squash begins, copies, or is abandoned; a month begins.
LEMMA RowsStay ==
  ASSUME MemoriesInvariant,
         \/ \E m \in 1..MaxMonth : ReadPartition(m)
         \/ CopyToParquet
         \/ AbandonSquash
         \/ NextMonth
         \/ UNCHANGED memoriesVars
  PROVE  MemoriesInvariant'
<1>1. /\ memoryRows' = memoryRows /\ lastId' = lastId /\ lastTime' = lastTime
      /\ memoryCall' = memoryCall /\ alive' = alive /\ gone' = gone /\ overtaken' = overtaken
      /\ archive \subseteq archive'
  BY DEF ReadPartition, CopyToParquet, AbandonSquash, NextMonth, memoriesVars, histories
<1>2. month' = month \/ (month < MaxMonth /\ month' = month + 1)
  BY DEF ReadPartition, CopyToParquet, AbandonSquash, NextMonth, memoriesVars, histories
<1>3. /\ MemoriesTypes /\ MaxMonth \in Nat /\ month \in Nat /\ month' \in 1..MaxMonth /\ month <= month'
      /\ \A row \in memoryRows : row.month \in Nat
  BY <1>2, RowParts DEF MemoriesInvariant, MemoriesTypes
<1>4. /\ archive' \subseteq MemoryRow
      /\ squash' \in [at : {"idle", "read", "copied"}, month : 0..MaxMonth, rows : SUBSET MemoryRow]
      /\ SquashHasRows'
  <2>1. ASSUME NEW m \in 1..MaxMonth, ReadPartition(m)
        PROVE  /\ archive' \subseteq MemoryRow /\ SquashHasRows'
               /\ squash' \in [at : {"idle", "read", "copied"}, month : 0..MaxMonth,
                               rows : SUBSET MemoryRow]
    <3> DEFINE those == {row \in memoryRows : row.month = m}
    <3>1. /\ squash' = [at |-> "read", month |-> m, rows |-> those]
          /\ archive' = archive /\ those \in SUBSET MemoryRow /\ m \in 0..MaxMonth
      BY <1>3, <2>1 DEF ReadPartition, MemoriesTypes
    <3>2. SquashHasRows'
      BY <1>1, <3>1 DEF SquashHasRows
    <3> HIDE DEF those
    <3> QED
      BY <1>3, <3>1, <3>2 DEF MemoriesTypes
  <2>2. CASE CopyToParquet
    <3>1. /\ squash.at = "read" /\ squash' = [squash EXCEPT !.at = "copied"]
          /\ archive' = archive \cup {row \in squash.rows : IsLive(row)}
      BY <2>2 DEF CopyToParquet
    <3>2. /\ squash'.at = "copied" /\ squash'.rows = squash.rows /\ squash'.month = squash.month
          /\ squash' \in [at : {"idle", "read", "copied"}, month : 0..MaxMonth,
                          rows : SUBSET MemoryRow]
          /\ squash.rows \in SUBSET MemoryRow
      BY <1>3, <3>1 DEF MemoriesTypes
    <3>3. SquashHasRows'
      BY <1>1, <3>1, <3>2 DEF MemoriesInvariant, SquashHasRows
    <3> QED
      BY <1>3, <3>1, <3>2, <3>3 DEF MemoriesTypes
  <2>3. CASE AbandonSquash
    BY <1>1, <1>3, <2>3 DEF AbandonSquash, NoSquash, SquashHasRows, MemoriesTypes
  <2>4. CASE NextMonth \/ UNCHANGED memoriesVars
    <3>1. squash' = squash /\ archive' = archive
      BY <2>4 DEF NextMonth, memoriesVars
    <3> QED
      BY <1>1, <1>3, <3>1 DEF MemoriesInvariant, SquashHasRows, MemoriesTypes
  <2> QED
    BY <2>1, <2>2, <2>3, <2>4
<1>5. MemoriesTypes'
  BY <1>1, <1>3, <1>4 DEF MemoriesTypes
<1>6. RowsArePast'
  BY <1>1, <1>3 DEF MemoriesInvariant, RowsArePast
<1>7. OneCreation' /\ TombstonesFollow' /\ OneTombstoneNames'
  BY <1>1 DEF MemoriesInvariant, OneCreation, TombstonesFollow, OneTombstoneNames
<1>8. CallsKnow'
  <2>1. \A m \in 1..month : m \in 1..month'
    BY <1>3
  <2> QED
    BY <1>1, <2>1 DEF MemoriesInvariant, CallsKnow, Knows, KnowsRow
<1>9. AliveIsThere'
  BY <1>1 DEF MemoriesInvariant, AliveIsThere, Archived, Overtaken
<1> QED
  BY <1>4, <1>5, <1>6, <1>7, <1>8, <1>9 DEF MemoriesInvariant

\* The files of a partition are removed.
LEMMA RemoveStep ==
  ASSUME MemoriesInvariant, RemoveJsonl
  PROVE  MemoriesInvariant'
<1>1. /\ squash.at = "copied" /\ memoryRows' = {row \in memoryRows : row.month # squash.month}
      /\ squash' = NoSquash /\ archive' = archive /\ month' = month /\ lastId' = lastId
      /\ lastTime' = lastTime /\ memoryCall' = memoryCall /\ alive' = alive /\ gone' = gone
      /\ overtaken' = overtaken
  BY DEF RemoveJsonl, histories
<1>2. MemoriesTypes'
  <2>1. NoSquash \in [at : {"idle", "read", "copied"}, month : 0..MaxMonth, rows : SUBSET MemoryRow]
    BY RowParts DEF MemoriesInvariant, NoSquash
  <2> QED
    BY <1>1, <2>1 DEF MemoriesInvariant, MemoriesTypes
<1>3. RowsArePast' /\ OneCreation' /\ TombstonesFollow'
  BY <1>1 DEF MemoriesInvariant, RowsArePast, OneCreation, TombstonesFollow
<1>4. ASSUME NEW a \in memoryRows', NEW t \in memoryRows, Names(t, a)
      PROVE  t \in memoryRows'
  BY <1>1, <1>4 DEF Names
<1>5. OneTombstoneNames'
  BY <1>1, <1>4 DEF MemoriesInvariant, OneTombstoneNames
<1>6. CallsKnow'
  <2>1. SUFFICES ASSUME NEW c \in MemoryCall, memoryCall'[c].at \in {"found", "named"}
                 PROVE  Knows(memoryCall[c])'
    BY DEF CallsKnow
  <2>2. Knows(memoryCall[c])
    BY <1>1, <2>1 DEF MemoriesInvariant, CallsKnow
  <2> QED
    BY <1>1, <1>4, <2>2 DEF Knows, KnowsRow
<1>7. AliveIsThere'
  <2>1. ASSUME NEW id \in alive, NEW row \in memoryRows, row.id = id, row \notin memoryRows'
        PROVE  Archived(id) \/ Overtaken(id)
    <3>1. row.month = squash.month /\ ~Ends(row, id)
      BY <1>1, <2>1 DEF MemoriesInvariant, AliveIsThere
    <3>2. row \in squash.rows \cup overtaken /\ IsLive(row)
      BY <1>1, <2>1, <3>1 DEF MemoriesInvariant, SquashHasRows, Ends
    <3> QED
      BY <1>1, <2>1, <3>2 DEF MemoriesInvariant, SquashHasRows, Archived, Overtaken
  <2> QED
    BY <1>1, <2>1 DEF MemoriesInvariant, AliveIsThere, Archived, Overtaken
<1>8. SquashHasRows'
  BY <1>1 DEF SquashHasRows, NoSquash
<1> QED
  BY <1>2, <1>3, <1>5, <1>6, <1>7, <1>8 DEF MemoriesInvariant

LEMMA MemoriesInits == MemoriesInit => MemoriesInvariant
<1> SUFFICES ASSUME MemoriesInit PROVE MemoriesInvariant
  OBVIOUS
<1> DEFINE first == CHOOSE key \in MemoryKey : TRUE
           row(i) == [id |-> i, key |-> first, by |-> SystemAuthor, act |-> "add", at |-> NoTime,
                      month |-> 1]
<1>1. MaxMonth \in Nat \ {0} /\ MaxMemoryId \in Nat \ {0} /\ MaxMemoryRows \in Nat /\ first \in RowKey
  BY MemoriesAssumption DEF MemoriesAssumption, RowKey
<1>2. /\ lastId \in 0..1 /\ memoryRows = {row(i) : i \in 1..lastId} /\ alive = 1..lastId /\ month = 1
      /\ archive = {} /\ gone = {} /\ overtaken = {} /\ lastTime = 0 /\ squash = NoSquash
      /\ memoryCall = [call \in MemoryCall |-> NoCall]
  <2>1. memoryRows = {row(i) : i \in 1..lastId}
    BY DEF MemoriesInit
  <2> QED
    BY <2>1 DEF MemoriesInit
<1>3. \A i \in 1..lastId :
        /\ row(i) \in MemoryRow /\ row(i).id = i /\ row(i).at = 0 /\ row(i).month = 1
        /\ IsLive(row(i)) /\ lastId \in 0..MaxMemoryId
  BY <1>1, <1>2 DEF MemoryRow, RowKey, IsLive, NoTime
<1> HIDE DEF row
<1>4. MemoriesTypes
  <2>1. /\ NoCall \in [at : {"idle", "found", "named", "forgot"}, id : 0..MaxMemoryId, key : RowKey,
                       month : 0..MaxMonth, stamp : [key : RowKey, by : RowAuthor],
                       update : BOOLEAN]
    BY <1>1 DEF NoCall, Unknown, RowKey, RowAuthor
  <2>2. NoSquash \in [at : {"idle", "read", "copied"}, month : 0..MaxMonth, rows : SUBSET MemoryRow]
    BY <1>1 DEF NoSquash
  <2>3. lastId \in 0..MaxMemoryId /\ lastTime \in 0..MaxMemoryRows /\ month \in 1..MaxMonth
    BY <1>1, <1>2
  <2> QED
    BY <1>2, <1>3, <2>1, <2>2, <2>3 DEF MemoriesTypes
<1>5. RowsArePast /\ OneCreation /\ TombstonesFollow /\ OneTombstoneNames
  BY <1>2, <1>3
    DEF RowsArePast, OneCreation, TombstonesFollow, OneTombstoneNames, Creates, Ends, Names
<1>6. CallsKnow
  BY <1>2 DEF CallsKnow, NoCall
<1>7. AliveIsThere
  BY <1>2, <1>3 DEF AliveIsThere, Ends
<1>8. SquashHasRows
  BY <1>2 DEF SquashHasRows, NoSquash
<1> QED
  BY <1>4, <1>5, <1>6, <1>7, <1>8 DEF MemoriesInvariant

LEMMA MemoriesInvariantHolds == MemoriesSpec => []MemoriesInvariant
<1>1. MemoriesInvariant /\ [MemoriesNext]_memoriesVars => MemoriesInvariant'
  <2> SUFFICES ASSUME MemoriesInvariant, [MemoriesNext]_memoriesVars PROVE MemoriesInvariant'
    OBVIOUS
  <2>1. ASSUME NEW key \in MemoryKey, NEW by \in Author, Remember(key, by)
        PROVE  MemoriesInvariant'
    <3>1. key \in RowKey
      BY DEF RowKey
    <3> QED
      BY <2>1, <3>1, AddStep DEF Remember
  <2>2. ASSUME NEW call \in MemoryCall, NEW by \in Author, RememberUpdate(call, by)
        PROVE  MemoriesInvariant'
    <3>1. memoryCall[call].key \in RowKey
      BY DEF MemoriesInvariant, MemoriesTypes
    <3> QED
      BY <2>2, <3>1, AddStep DEF RememberUpdate
  <2>3. ASSUME NEW call \in MemoryCall, NEW id \in 1..MaxMemoryId, NEW update \in BOOLEAN,
               FindMemory(call, id, update)
        PROVE  MemoriesInvariant'
    BY <2>3, FindStep
  <2>4. ASSUME NEW call \in MemoryCall, LookInPartition(call) \/ AbandonCall(call)
        PROVE  MemoriesInvariant'
    BY <2>4, LookStep, AbandonStep
  <2>5. ASSUME NEW call \in MemoryCall, NEW by \in Author \cup {NoFilter}, Tombstone(call, by)
        PROVE  MemoriesInvariant'
    BY <2>5, TombstoneStep
  <2>6. ASSUME NEW m \in 1..MaxMonth, ReadPartition(m) PROVE MemoriesInvariant'
    BY <2>6, RowsStay
  <2>7. CASE CopyToParquet \/ AbandonSquash \/ NextMonth \/ UNCHANGED memoriesVars
    BY <2>7, RowsStay
  <2>8. CASE RemoveJsonl
    BY <2>8, RemoveStep
  <2> QED
    BY <2>1, <2>2, <2>3, <2>4, <2>5, <2>6, <2>7, <2>8 DEF MemoriesNext
<1> QED
  BY <1>1, MemoriesInits, PTL DEF MemoriesSpec

\* The unfiltered list shows every memory that was acknowledged and that nobody
\* began to forget, unless a squash moved it to Parquet or it was written to a
\* partition during its squash, and no forgotten one whose tombstone is there; a
\* list by key shows a forgotten memory only if all its tombstones are of later
\* months.  So it is for any number of concurrent forgets, updates and squashes,
\* stopped anywhere.
THEOREM ListIsLiveHolds == MemoriesSpec => []ListIsLive
<1>1. MemoriesInvariant => ListIsLive
  <2> SUFFICES ASSUME MemoriesInvariant PROVE ListIsLive
    OBVIOUS
  <2>1. MemoriesTypes /\ \A row \in memoryRows : row \in MemoryRow /\ row.at \in Nat /\ row.month \in Nat
    BY RowParts DEF MemoriesInvariant
  <2>2. MemoriesTypeOK
    <3>1. squash.rows \subseteq MemoryRow /\ squash.at \in {"idle", "read", "copied"}
      BY <2>1 DEF MemoriesTypes
    <3>2. \A call \in MemoryCall : memoryCall[call].at \in {"idle", "found", "named", "forgot"}
      BY <2>1 DEF MemoriesTypes
    <3> QED
      BY <2>1, <3>1, <3>2 DEF MemoriesTypes, MemoriesTypeOK
  <2>3. ASSUME NEW id \in alive PROVE id \in Listed \/ Archived(id) \/ Overtaken(id)
    <3>1. SUFFICES ASSUME NEW a \in memoryRows, a.id = id PROVE id \in Listed
      BY DEF MemoriesInvariant, AliveIsThere
    <3>2. \A row \in memoryRows : row.id = id => row = a
      BY <3>1 DEF MemoriesInvariant, AliveIsThere, OneCreation, Creates, Ends
    <3>3. IsLive(a) /\ a.at <= a.at
      BY <2>1, <3>1 DEF MemoriesInvariant, AliveIsThere, Ends
    <3>4. a \in Fused(memoryRows, NoFilter)
      <4>1. Matches(a, NoFilter)
        BY DEF Matches
      <4>2. a \in NewestOfEach(Matching(memoryRows, NoFilter))
        BY <3>1, <3>2, <3>3, <4>1 DEF NewestOfEach, Matching
      <4> QED
        BY <3>3, <4>2 DEF Fused
    <3> QED
      BY <3>1, <3>4 DEF Listed
  <2>4. ASSUME NEW row \in memoryRows, NEW other \in memoryRows, other.id = row.id, IsLive(row),
               ~IsLive(other)
        PROVE  /\ ~(other.at <= row.at) /\ row.month <= other.month
               /\ row.month = other.month =>
                    \E u \in memoryRows : u.id = row.id /\ u.key = row.key /\ ~(u.at <= row.at)
    <3>1. \A u \in memoryRows : Ends(u, row.id) => ~(u.at <= row.at) /\ row.month <= u.month
      BY <2>1, <2>4 DEF MemoriesInvariant, TombstonesFollow, Creates
    <3>2. Ends(other, row.id)
      BY <2>4 DEF Ends
    <3>3. row.month = other.month => \E u \in memoryRows : Names(u, row) /\ u.key = row.key
      BY <2>4, <3>2 DEF MemoriesInvariant, OneTombstoneNames, Creates, Names
    <3> QED
      BY <3>1, <3>2, <3>3 DEF Names, Ends
  <2>5. ASSUME NEW id, id \in Listed PROVE TombstoneSquashed(id)
    <3>1. PICK row \in Fused(memoryRows, NoFilter) : row.id = id
      BY <2>5 DEF Listed
    <3>2. /\ row \in memoryRows /\ IsLive(row)
          /\ \A other \in memoryRows : other.id = id => other.at <= row.at
      BY <2>1, <3>1, FilterParts DEF Fused, NewestOfEach, Matching
    <3> QED
      BY <2>4, <3>1, <3>2 DEF TombstoneSquashed
  <2>6. ASSUME NEW key \in MemoryKey, NEW row \in Fused(memoryRows, key), NEW other \in memoryRows,
               other.id = row.id, ~IsLive(other)
        PROVE  other.month > row.month
    <3>1. /\ row \in memoryRows /\ IsLive(row) /\ row.key = key
          /\ \A u \in memoryRows : u.id = row.id /\ u.key = key => u.at <= row.at
      BY <2>1, FilterParts DEF Fused, NewestOfEach, Matching
    <3> QED
      BY <2>1, <2>4, <2>6, <3>1
  <2> QED
    BY <2>2, <2>3, <2>5, <2>6 DEF ListIsLive
<1> QED
  BY <1>1, MemoriesInvariantHolds, PTL

--------------------------------------------------------------------------------
(***************************************************************************)
(* Table mutations and the events made of them, for any number of          *)
(* requests, keys, images, mutations and commits, and envelopes of any     *)
(* size.  TableInvariant is inductive; LiveRowsConverge, CommittedOnly and *)
(* CalmWindowKeepsFeed follow from it.                                     *)
(***************************************************************************)

\* A record, before the bound on mutations.
AnyRecord == [op : Op, key : Key, image : Image, n : Nat \ {0}]

\* The records that are written, or still to be.
Known == Range(ledger) \cup UNION {Range(pending[r]) : r \in Request}

\* The lines of a key after a mutation, and those a delete met.
Leaves(rec, lines) == IF rec.op = "delete" THEN lines = <<>> ELSE rec.image \in Range(lines)
Finds(rec, lines) == rec.op = "delete" => lines # <<>> /\ Head(lines) = rec.image

\* A delete takes away the image that the mutation before it left.
Follows(p, q) == q.op = "delete" => p.op # "delete" /\ p.image = q.image

\* The records of a key tell what became of its lines.
RecordsTell(tbl, counts, known) ==
  /\ \A k \in Key : counts[k] = 0 => tbl[k] = <<>>
  /\ \A rec \in known :
       rec.n <= counts[rec.key] /\ (rec.n = counts[rec.key] => Leaves(rec, tbl[rec.key]))

\* So they do at each commit, and no key has changed without a mutation since.
CommitsTell(tbl, counts, known) ==
  \A j \in 1..Len(commits) :
    /\ \A k \in Key :
         /\ commits[j].made[k] <= counts[k]
         /\ commits[j].made[k] = counts[k] => commits[j].rows[k] = tbl[k]
    /\ \A rec \in known :
         /\ rec.n = commits[j].made[rec.key] => Leaves(rec, commits[j].rows[rec.key])
         /\ rec.n = commits[j].made[rec.key] + 1 => Finds(rec, commits[j].rows[rec.key])

\* A key that never had two lines has its mutations one after the other.
SinglesFollow(tbl, known, twice) ==
  \A k \in Key \ twice :
    /\ Len(tbl[k]) <= 1
    /\ \A p, q \in known : p.key = k /\ q.key = k /\ q.n = p.n + 1 => Follows(p, q)

Fits(tbl, counts, known, twice) ==
  /\ RecordsTell(tbl, counts, known)
  /\ CommitsTell(tbl, counts, known)
  /\ SinglesFollow(tbl, known, twice)

\* No mutation is recorded twice.
Same(p, q) == p.key = q.key /\ p.n = q.n
Once(seq) == \A i, j \in 1..Len(seq) : Same(seq[i], seq[j]) => i = j
Apart(seq, other) == \A i \in 1..Len(seq), j \in 1..Len(other) : ~Same(seq[i], other[j])
RecordsOnce ==
  /\ Once(ledger)
  /\ \A r \in Request : Once(pending[r]) /\ Apart(ledger, pending[r])
  /\ \A r, q \in Request : r # q => Apart(pending[r], pending[q])

\* Commits are in the order of time.
CommitsInOrder ==
  /\ \A i, j \in 1..Len(commits) : i <= j =>
       /\ commits[i].upto <= commits[j].upto
       /\ \A k \in Key :
            /\ commits[i].made[k] <= commits[j].made[k]
            /\ commits[i].made[k] = commits[j].made[k] => commits[i].rows[k] = commits[j].rows[k]
  /\ \A j \in 1..Len(commits), k \in Key : commits[j].made[k] = 0 => commits[j].rows[k] = <<>>

\* A commit has no record of a mutation it has not.
LedgerIsPast ==
  \A j \in 1..Len(commits) : \A p \in 1..commits[j].upto :
    ledger[p].n <= commits[j].made[ledger[p].key]

\* The copy, at the commit that the consumer received last.
CopyCommitted ==
  \A k \in Key :
    copy[k] # None => \E i \in 1..delivered : copy[k] \in Range(commits[i].rows[k])
CopyFollows ==
  \A k \in Key, v \in Image :
    /\ Range(commits[delivered].rows[k]) = {v}
    /\ LastWord(delivered, k) = commits[delivered].made[k]
    => copy[k] = v

ClosedForCause == closed => delivered < Len(commits) /\ Corrupt(delivered + 1)

\* The inductive invariant.
TableInvariant ==
  /\ TypeOK /\ Fits(rows, mutations, Known, reposted) /\ RecordsOnce
  /\ CommitsInOrder /\ LedgerIsPast
  /\ CopyCommitted /\ CopyFollows /\ ClosedForCause

-----------------------------------------------------------------------------
(* Data                                                                    *)

\* A set of numbers that is not empty has a smallest one.
LEMMA SmallestExists ==
  ASSUME NEW S \in SUBSET Nat, S # {}
  PROVE  \E m \in S : \A n \in S : m <= n
<1> DEFINE R == OpToRel(<, Nat)
<1>1. IsWellFoundedOn(R, Nat)
  BY NatLessThanWellFounded
<1>2. PICK m \in S : \A n \in S : ~ (<<n, m>> \in R)
  <2> HIDE DEF R
  <2> QED
    BY <1>1, WFMin
<1>3. SUFFICES ASSUME NEW n \in S PROVE m <= n
  OBVIOUS
<1>4. ~(n < m)
  BY <1>2 DEF OpToRel
<1> QED
  BY <1>4

\* Some numbers of an interval have a largest one.
LEMMA LargestExists ==
  ASSUME NEW n \in Nat, NEW S \in SUBSET (1..n), S # {}
  PROVE  \E m \in S : \A i \in S : i <= m
<1> DEFINE R == {m \in Nat : \A i \in S : i <= m}
<1>1. R # {}
  <2>1. n \in R
    OBVIOUS
  <2> QED
    BY <2>1
<1>2. PICK m \in R : \A d \in R : m <= d
  <2> HIDE DEF R
  <2>1. R \in SUBSET Nat
    BY DEF R
  <2> QED
    BY <1>1, <2>1, SmallestExists
<1>3. m \in Nat /\ \A i \in S : i <= m /\ i \in Nat /\ i # 0
  BY <1>2
<1>4. m \in S
  <2> SUFFICES ASSUME m \notin S PROVE FALSE
    OBVIOUS
  <2>1. \A i \in S : i <= m - 1
    BY <1>3
  <2>2. m - 1 \in Nat
    <3>1. PICK i \in S : TRUE
      OBVIOUS
    <3>2. i <= m /\ i \in Nat /\ i # 0
      BY <1>3
    <3> QED
      BY <1>3, <3>2
  <2>3. m - 1 \in R
    BY <2>1, <2>2
  <2> QED
    BY <1>2, <1>3, <2>3
<1> QED
  BY <1>3, <1>4

\* The elements of a sequence.
LEMMA RangeParts ==
  ASSUME NEW T, NEW s \in Seq(T)
  PROVE  /\ Len(s) \in Nat /\ DOMAIN s = 1..Len(s)
         /\ \A i \in 1..Len(s) : s[i] \in T /\ s[i] \in Range(s)
         /\ \A x : x \in Range(s) <=> \E i \in 1..Len(s) : x = s[i]
         /\ s # <<>> => Len(s) # 0 /\ 1 \in 1..Len(s) /\ Head(s) = s[1] /\ Head(s) \in T
         /\ Len(s) # 0 => s # <<>>
<1>1. Len(s) \in Nat /\ DOMAIN s = 1..Len(s) /\ \A i \in 1..Len(s) : s[i] \in T
  OBVIOUS
<1>2. \A x : x \in Range(s) <=> \E i \in 1..Len(s) : x = s[i]
  BY <1>1 DEF Range
<1>3. s # <<>> => Len(s) # 0 /\ 1 \in 1..Len(s) /\ Head(s) = s[1] /\ Head(s) \in T
  OBVIOUS
<1>4. Len(s) # 0 => s # <<>>
  OBVIOUS
<1> QED
  BY <1>1, <1>2, <1>3, <1>4

\* What the variables hold.
LEMMA TypeParts ==
  ASSUME TypeOK
  PROVE  /\ MaxMutations \in Nat /\ None \notin Image
         /\ Len(ledger) \in Nat
         /\ \A p \in 1..Len(ledger) : ledger[p] \in ChangeRecord
         /\ \A r \in Request : /\ pending[r] \in Seq(ChangeRecord)
                               /\ Len(pending[r]) \in Nat
                               /\ \A p \in 1..Len(pending[r]) : pending[r][p] \in ChangeRecord
         /\ ChangeRecord \subseteq AnyRecord
         /\ Len(commits) \in Nat /\ delivered \in 1..Len(commits) /\ delivered \in Nat
         /\ \A j \in 1..Len(commits) :
              /\ commits[j].rows \in Table /\ commits[j].upto \in 0..Len(ledger)
              /\ commits[j].upto \in Nat
              /\ \A k \in Key : /\ commits[j].rows[k] \in Seq(Image)
                                /\ commits[j].made[k] \in 0..MaxMutations
                                /\ commits[j].made[k] \in Nat
         /\ Known \subseteq ChangeRecord
<1>1. MaxMutations \in Nat /\ None \notin Image
  BY TableChangesAssumption DEF TableChangesAssumption
<1>2. Len(ledger) \in Nat /\ \A p \in 1..Len(ledger) : ledger[p] \in ChangeRecord
  BY DEF TypeOK
<1>3. \A r \in Request : /\ pending[r] \in Seq(ChangeRecord)
                         /\ Len(pending[r]) \in Nat
                         /\ \A p \in 1..Len(pending[r]) : pending[r][p] \in ChangeRecord
  BY DEF TypeOK
<1>4. ChangeRecord \subseteq AnyRecord
  <2>1. 1..MaxMutations \subseteq Nat \ {0}
    BY <1>1
  <2> QED
    BY <2>1 DEF ChangeRecord, AnyRecord
<1>5. Len(commits) \in Nat /\ delivered \in 1..Len(commits) /\ delivered \in Nat
  <2> DEFINE T == [rows : Table, upto : 0..Len(ledger), made : Counts]
  <2>1. commits \in Seq(T) /\ delivered \in 1..Len(commits)
    BY DEF TypeOK
  <2> HIDE DEF T
  <2> QED
    BY <2>1
<1>6. ASSUME NEW j \in 1..Len(commits)
      PROVE  /\ commits[j].rows \in Table /\ commits[j].upto \in 0..Len(ledger)
             /\ commits[j].upto \in Nat
             /\ \A k \in Key : /\ commits[j].rows[k] \in Seq(Image)
                               /\ commits[j].made[k] \in 0..MaxMutations
                               /\ commits[j].made[k] \in Nat
  <2> DEFINE T == [rows : Table, upto : 0..Len(ledger), made : Counts]
  <2>1. commits \in Seq(T)
    BY DEF TypeOK
  <2>2. commits[j] \in T
    <3> HIDE DEF T
    <3> QED
      BY <2>1
  <2> QED
    BY <1>1, <1>2, <2>2 DEF Table, Counts
<1>7. Known \subseteq ChangeRecord
  <2>1. ASSUME NEW s \in Seq(ChangeRecord) PROVE Range(s) \subseteq ChangeRecord
    BY RangeParts
  <2> QED
    BY <1>3, <2>1 DEF TypeOK, Known
<1> QED
  BY <1>1, <1>2, <1>3, <1>4, <1>5, <1>6, <1>7

\* The lines of a key and the record of the mutation.
LEMMA LinesParts ==
  ASSUME NEW tbl \in Table, NEW act \in Action, NEW n \in Nat \ {0},
         act.op # "insert" => tbl[act.key] # <<>>
  PROVE  LET old == tbl[act.key]
             new == LinesAfter(tbl, act)
             rec == RecordOf(tbl, act, n)
         IN /\ act.key \in Key /\ old \in Seq(Image) /\ new \in Seq(Image) /\ rec \in AnyRecord
            /\ rec.key = act.key /\ rec.n = n
            /\ Leaves(rec, new) /\ Finds(rec, old)
            /\ act.op = "insert" => Len(new) = Len(old) + 1
            /\ act.op # "insert" => Len(new) <= Len(old)
            /\ act.op # "insert" /\ rec.op = "delete" => old # <<>> /\ Head(old) = rec.image
            /\ rec.op = act.op
<1> DEFINE old == tbl[act.key]
           new == LinesAfter(tbl, act)
           rec == RecordOf(tbl, act, n)
<1>1. /\ act.key \in Key /\ act.op \in Op
      /\ act.op # "delete" => act.image \in Image
  BY DEF Action, Op
<1>2. old \in Seq(Image)
  BY <1>1 DEF Table
<1>3. /\ rec.key = act.key /\ rec.n = n /\ rec.op = act.op
      /\ rec.image = IF act.op = "delete" THEN First(old) ELSE act.image
  BY DEF RecordOf
<1>4. CASE act.op = "insert"
  <2>1. new = Append(old, act.image)
    BY <1>4 DEF LinesAfter
  <2>2. /\ act.image \in Image /\ Len(old) \in Nat
        /\ new \in Seq(Image) /\ Len(new) = Len(old) + 1 /\ new[Len(new)] = act.image
        /\ Len(new) \in 1..Len(new)
    BY <1>1, <1>2, <1>4, <2>1
  <2>3. act.image \in Range(new)
    BY <2>2, RangeParts
  <2>4. rec \in AnyRecord
    BY <1>1, <1>4, <2>2 DEF RecordOf, AnyRecord
  <2> HIDE DEF old, new, rec
  <2> QED
    BY <1>1, <1>2, <1>3, <1>4, <2>2, <2>3, <2>4 DEF Leaves, Finds, old, new, rec
<1>5. CASE act.op = "update"
  <2>1. new = [i \in DOMAIN old |-> act.image]
    BY <1>5 DEF LinesAfter
  <2>2. /\ act.image \in Image /\ Len(old) \in Nat /\ DOMAIN old = 1..Len(old)
        /\ 1 \in 1..Len(old)
    BY <1>1, <1>2, <1>5, RangeParts
  <2>3. new \in Seq(Image) /\ Len(new) = Len(old) /\ new[1] = act.image
    BY <2>1, <2>2
  <2>4. act.image \in Range(new)
    BY <2>2, <2>3, RangeParts
  <2>5. rec \in AnyRecord
    BY <1>1, <1>5, <2>2 DEF RecordOf, AnyRecord
  <2> HIDE DEF old, new, rec
  <2> QED
    BY <1>1, <1>2, <1>3, <1>5, <2>2, <2>3, <2>4, <2>5 DEF Leaves, Finds, old, new, rec
<1>6. CASE act.op = "delete"
  <2>1. new = <<>>
    BY <1>6 DEF LinesAfter
  <2>2. old # <<>> /\ First(old) = Head(old) /\ Head(old) \in Image /\ Len(old) \in Nat
    BY <1>2, <1>6, RangeParts DEF First
  <2>3. new \in Seq(Image) /\ Len(new) = 0
    BY <2>1
  <2>4. rec \in AnyRecord
    BY <1>1, <1>6, <2>2 DEF RecordOf, AnyRecord
  <2> HIDE DEF old, new, rec
  <2> QED
    BY <1>1, <1>2, <1>3, <1>6, <2>1, <2>2, <2>3, <2>4 DEF Leaves, Finds, old, new, rec
<1> QED
  BY <1>1, <1>4, <1>5, <1>6 DEF Op

\* A mutation goes on from what the records tell.
LEMMA WriteFits ==
  ASSUME TypeOK, NEW tbl \in Table, NEW counts \in [Key -> Nat],
         NEW known \in SUBSET AnyRecord, NEW twice, Fits(tbl, counts, known, twice),
         NEW act \in Action, act.op # "insert" => tbl[act.key] # <<>>,
         act.op = "insert" /\ act.key \notin twice => tbl[act.key] = <<>>
  PROVE  LET n == counts[act.key] + 1
             rec == RecordOf(tbl, act, n)
             now == [tbl EXCEPT ![act.key] = LinesAfter(tbl, act)]
             counted == [counts EXCEPT ![act.key] = n]
         IN /\ n \in Nat \ {0} /\ now \in Table /\ counted \in [Key -> Nat] /\ rec \in AnyRecord
            /\ rec.key = act.key /\ rec.n = n
            /\ Fits(now, counted, known \cup {rec}, twice)
<1> DEFINE key == act.key
           n == counts[key] + 1
           old == tbl[key]
           new == LinesAfter(tbl, act)
           rec == RecordOf(tbl, act, n)
           now == [tbl EXCEPT ![key] = new]
           counted == [counts EXCEPT ![key] = n]
<1>1. key \in Key /\ n \in Nat \ {0} /\ counts[key] \in Nat /\ n = counts[key] + 1
  BY DEF Action
<1>2. /\ old \in Seq(Image) /\ new \in Seq(Image) /\ rec \in AnyRecord
      /\ rec.key = key /\ rec.n = n /\ Leaves(rec, new) /\ Finds(rec, old)
      /\ act.op = "insert" => Len(new) = Len(old) + 1
      /\ act.op # "insert" => Len(new) <= Len(old)
      /\ rec.op = act.op
  BY <1>1, LinesParts
<1>3. /\ now \in Table /\ now[key] = new /\ \A k \in Key : k # key => now[k] = tbl[k]
      /\ counted \in [Key -> Nat] /\ counted[key] = n
      /\ \A k \in Key : k # key => counted[k] = counts[k]
  <2> HIDE DEF new, n
  <2> QED
    BY <1>1, <1>2 DEF Table
<1>4. \A r \in known : r \in AnyRecord /\ r.n \in Nat \ {0} /\ r.key \in Key
  BY DEF AnyRecord
<1>5. act.op = "insert" /\ key \notin twice => old = <<>> /\ Len(old) = 0
  OBVIOUS
<1>6. /\ RecordsTell(tbl, counts, known) /\ CommitsTell(tbl, counts, known)
      /\ SinglesFollow(tbl, known, twice)
  BY DEF Fits
<1>7. /\ Len(commits) \in Nat
      /\ \A j \in 1..Len(commits), k \in Key : commits[j].made[k] \in Nat
  BY TypeParts
<1>8. /\ Len(old) \in Nat /\ Len(new) \in Nat /\ \A k \in Key : counts[k] \in Nat
  BY <1>2
<1> HIDE DEF key, n, old, new, rec, now, counted
<1>9. RecordsTell(now, counted, known \cup {rec})
  <2>1. ASSUME NEW k \in Key, counted[k] = 0 PROVE now[k] = <<>>
    BY <1>1, <1>3, <1>6, <2>1 DEF RecordsTell
  <2>2. ASSUME NEW r \in known
        PROVE  r.n <= counted[r.key] /\ (r.n = counted[r.key] => Leaves(r, now[r.key]))
    BY <1>1, <1>3, <1>4, <1>6, <1>8 DEF RecordsTell
  <2> QED
    BY <1>1, <1>2, <1>3, <2>1, <2>2 DEF RecordsTell
<1>10. CommitsTell(now, counted, known \cup {rec})
  <2> SUFFICES ASSUME NEW j \in 1..Len(commits)
               PROVE  /\ \A k \in Key :
                           /\ commits[j].made[k] <= counted[k]
                           /\ commits[j].made[k] = counted[k] => commits[j].rows[k] = now[k]
                      /\ \A r \in known \cup {rec} :
                           /\ r.n = commits[j].made[r.key] => Leaves(r, commits[j].rows[r.key])
                           /\ r.n = commits[j].made[r.key] + 1
                                => Finds(r, commits[j].rows[r.key])
    BY DEF CommitsTell
  <2>1. /\ \A k \in Key :
             /\ commits[j].made[k] <= counts[k]
             /\ commits[j].made[k] = counts[k] => commits[j].rows[k] = tbl[k]
        /\ \A r \in known :
             /\ r.n = commits[j].made[r.key] => Leaves(r, commits[j].rows[r.key])
             /\ r.n = commits[j].made[r.key] + 1 => Finds(r, commits[j].rows[r.key])
    BY <1>6 DEF CommitsTell
  <2>2. ASSUME NEW k \in Key
        PROVE  /\ commits[j].made[k] <= counted[k]
               /\ commits[j].made[k] = counted[k] => commits[j].rows[k] = now[k]
    BY <1>1, <1>3, <1>7, <1>8, <2>1
  <2>3. /\ rec.n # commits[j].made[rec.key]
        /\ rec.n = commits[j].made[rec.key] + 1 => Finds(rec, commits[j].rows[rec.key])
    <3>1. commits[j].made[key] \in Nat /\ commits[j].made[key] <= counts[key]
      BY <1>1, <1>7, <2>1
    <3>2. rec.n = commits[j].made[key] + 1 => commits[j].rows[key] = old
      BY <1>1, <1>2, <2>1, <3>1 DEF old
    <3> QED
      BY <1>1, <1>2, <3>1, <3>2
  <2> QED
    BY <2>1, <2>2, <2>3
<1>11. SinglesFollow(now, known \cup {rec}, twice)
  <2> SUFFICES ASSUME NEW k \in Key \ twice
               PROVE  /\ Len(now[k]) <= 1
                      /\ \A p, q \in known \cup {rec} :
                           p.key = k /\ q.key = k /\ q.n = p.n + 1 => Follows(p, q)
    BY DEF SinglesFollow
  <2>1. /\ Len(tbl[k]) <= 1
        /\ \A p, q \in known : p.key = k /\ q.key = k /\ q.n = p.n + 1 => Follows(p, q)
    BY <1>6 DEF SinglesFollow
  <2>2. Len(now[k]) <= 1
    BY <1>2, <1>3, <1>5, <1>8, <2>1 DEF old
  <2>3. ASSUME NEW p \in known, p.key = k, rec.key = k, rec.n = p.n + 1 PROVE Follows(p, rec)
    <3>1. SUFFICES ASSUME rec.op = "delete" PROVE p.op # "delete" /\ p.image = rec.image
      BY DEF Follows
    <3>2. p.n = counts[key] /\ p.key = key /\ k = key
      BY <1>1, <1>2, <1>4, <2>3
    <3>3. Leaves(p, old)
      BY <1>6, <3>2 DEF RecordsTell, old
    <3>4. old # <<>> /\ Head(old) = rec.image /\ Len(old) <= 1
      BY <1>2, <2>1, <3>1, <3>2 DEF Finds, old
    <3>5. p.op # "delete" /\ p.image \in Range(old)
      BY <3>3, <3>4 DEF Leaves
    <3>6. PICK i \in 1..Len(old) : p.image = old[i]
      BY <1>2, <3>5, RangeParts
    <3>7. i = 1 /\ Head(old) = old[1]
      BY <1>2, <1>8, <3>4, <3>6, RangeParts
    <3> QED
      BY <3>4, <3>5, <3>6, <3>7
  <2>4. ASSUME NEW q \in known \cup {rec}, q.key = k, rec.key = k PROVE q.n # rec.n + 1
    BY <1>1, <1>2, <1>4, <1>6, <2>4 DEF RecordsTell
  <2> QED
    BY <2>1, <2>2, <2>3, <2>4
<1> QED
  BY <1>1, <1>2, <1>3, <1>9, <1>10, <1>11 DEF Fits, n, rec, now, counted, new, key

-----------------------------------------------------------------------------
(* The verbs                                                               *)

\* What the mutations of a request have made so far.
Reached(s) ==
  /\ s.ok \in BOOLEAN /\ s.rows \in Table /\ s.mutations \in [Key -> Nat]
  /\ s.records \in Seq(AnyRecord)
  /\ \A k \in Key : mutations[k] <= s.mutations[k]
  /\ \A i \in 1..Len(s.records) :
       LET rec == s.records[i]
       IN mutations[rec.key] < rec.n /\ rec.n <= s.mutations[rec.key]
  /\ Once(s.records)
FitsSo(s, twice) == Fits(s.rows, s.mutations, Known \cup Range(s.records), twice)

LEMMA UntouchedReached ==
  ASSUME TypeOK, NEW twice, Fits(rows, mutations, Known, twice)
  PROVE  Reached(Untouched) /\ FitsSo(Untouched, twice)
<1>1. /\ Untouched.ok = TRUE /\ Untouched.rows = rows /\ Untouched.mutations = mutations
      /\ Untouched.records = <<>>
  BY DEF Untouched
<1>2. rows \in Table /\ mutations \in [Key -> Nat] /\ \A k \in Key : mutations[k] <= mutations[k]
  <2>1. mutations \in [Key -> 0..MaxMutations] /\ MaxMutations \in Nat
    BY TypeParts DEF TypeOK, Counts
  <2> QED
    BY <2>1 DEF TypeOK
<1>3. <<>> \in Seq(AnyRecord) /\ Len(<<>>) = 0 /\ Range(<<>>) = {}
  BY DEF Range
<1>4. FitsSo(Untouched, twice)
  <2>1. Known \cup Range(<<>>) = Known
    BY <1>3
  <2> QED
    BY <1>1, <2>1 DEF FitsSo
<1>5. Once(<<>>) /\ 1..Len(<<>>) = {}
  BY <1>3 DEF Once
<1> HIDE DEF Untouched
<1>6. Reached(Untouched)
  BY <1>1, <1>2, <1>3, <1>5 DEF Reached
<1> QED
  BY <1>4, <1>6

LEMMA WriteReached ==
  ASSUME TypeOK, NEW s, Reached(s), NEW twice, FitsSo(s, twice),
         NEW act \in Action, act.op # "insert" => s.rows[act.key] # <<>>,
         act.op = "insert" /\ act.key \notin twice => s.rows[act.key] = <<>>
  PROVE  Reached(Write(s, act)) /\ FitsSo(Write(s, act), twice)
<1> DEFINE n == s.mutations[act.key] + 1
           rec == RecordOf(s.rows, act, n)
           now == [s.rows EXCEPT ![act.key] = LinesAfter(s.rows, act)]
           counted == [s.mutations EXCEPT ![act.key] = n]
           known == Known \cup Range(s.records)
           more == Append(s.records, rec)
           next == Write(s, act)
<1>1. next.ok = TRUE /\ next.rows = now /\ next.mutations = counted /\ next.records = more
  BY DEF Write
<1>2. /\ s.rows \in Table /\ s.mutations \in [Key -> Nat] /\ s.records \in Seq(AnyRecord)
      /\ Len(s.records) \in Nat
      /\ \A i \in 1..Len(s.records) :
           /\ s.records[i] \in AnyRecord
           /\ mutations[s.records[i].key] < s.records[i].n
           /\ s.records[i].n <= s.mutations[s.records[i].key]
      /\ \A k \in Key : mutations[k] <= s.mutations[k] /\ mutations[k] \in Nat
      /\ Once(s.records)
  <2>1. /\ s.rows \in Table /\ s.mutations \in [Key -> Nat] /\ s.records \in Seq(AnyRecord)
        /\ \A k \in Key : mutations[k] <= s.mutations[k]
        /\ \A i \in 1..Len(s.records) :
             /\ mutations[s.records[i].key] < s.records[i].n
             /\ s.records[i].n <= s.mutations[s.records[i].key]
        /\ Once(s.records)
    BY DEF Reached
  <2>2. \A k \in Key : mutations[k] \in Nat
    <3>1. mutations \in [Key -> 0..MaxMutations] /\ MaxMutations \in Nat
      BY TypeParts DEF TypeOK, Counts
    <3> QED
      BY <3>1
  <2> QED
    BY <2>1, <2>2, RangeParts
<1>3. known \in SUBSET AnyRecord /\ Fits(s.rows, s.mutations, known, twice)
  <2>1. Known \subseteq AnyRecord
    BY TypeParts
  <2>2. Range(s.records) \subseteq AnyRecord
    BY <1>2, RangeParts
  <2> QED
    BY <2>1, <2>2 DEF FitsSo
<1> HIDE DEF known
<1>4. /\ n \in Nat \ {0} /\ now \in Table /\ counted \in [Key -> Nat] /\ rec \in AnyRecord
      /\ rec.key = act.key /\ rec.n = n
      /\ Fits(now, counted, known \cup {rec}, twice)
  BY <1>2, <1>3, WriteFits
<1>5. /\ act.key \in Key /\ s.mutations[act.key] \in Nat /\ n = s.mutations[act.key] + 1
      /\ counted[act.key] = n /\ \A k \in Key : k # act.key => counted[k] = s.mutations[k]
  BY <1>2 DEF Action
<1>6. \A k \in Key : s.mutations[k] \in Nat /\ counted[k] \in Nat /\ s.mutations[k] <= counted[k]
  <2> HIDE DEF counted, n
  <2> QED
    BY <1>2, <1>4, <1>5
<1> HIDE DEF n, rec, now, counted, next
<1>7. /\ more \in Seq(AnyRecord) /\ Len(more) = Len(s.records) + 1
      /\ more[Len(s.records) + 1] = rec
      /\ \A i \in 1..Len(s.records) : more[i] = s.records[i]
  BY <1>2, <1>4
<1> HIDE DEF more
<1>8. Range(more) = Range(s.records) \cup {rec}
  <2>1. \A x : x \in Range(more) <=> \E i \in 1..Len(more) : x = more[i]
    BY <1>7, RangeParts
  <2>2. \A x : x \in Range(s.records) <=> \E i \in 1..Len(s.records) : x = s.records[i]
    BY <1>2, RangeParts
  <2>3. \A i \in 1..Len(more) : i = Len(s.records) + 1 \/ i \in 1..Len(s.records)
    BY <1>2, <1>7
  <2>4. Len(s.records) + 1 \in 1..Len(more) /\ 1..Len(s.records) \subseteq 1..Len(more)
    BY <1>2, <1>7
  <2> QED
    BY <1>7, <2>1, <2>2, <2>3, <2>4
<1>9. FitsSo(next, twice)
  <2>1. Known \cup Range(more) = known \cup {rec}
    BY <1>8 DEF known
  <2> QED
    BY <1>1, <1>4, <2>1 DEF FitsSo
<1>10. \A i \in 1..Len(more) : mutations[more[i].key] < more[i].n /\ more[i].n <= counted[more[i].key]
  <2>1. TAKE i \in 1..Len(more)
  <2>2. CASE i = Len(s.records) + 1
    BY <1>2, <1>4, <1>5, <1>6, <1>7, <2>2
  <2>3. CASE i \in 1..Len(s.records)
    <3>1. s.records[i].key \in Key /\ s.records[i].n \in Nat
      BY <1>2, <2>3 DEF AnyRecord
    <3> QED
      BY <1>2, <1>6, <1>7, <2>3, <3>1
  <2> QED
    BY <1>2, <1>7, <2>2, <2>3
<1>11. Once(more)
  <2>1. \A i \in 1..Len(s.records) : ~Same(s.records[i], rec) /\ ~Same(rec, s.records[i])
    <3>1. \A i \in 1..Len(s.records) : s.records[i].key \in Key /\ s.records[i].n \in Nat
      BY <1>2 DEF AnyRecord
    <3> QED
      BY <1>2, <1>4, <1>5, <3>1 DEF Same
  <2>2. \A i \in 1..Len(more) : i = Len(s.records) + 1 \/ i \in 1..Len(s.records)
    BY <1>2, <1>7
  <2> QED
    BY <1>2, <1>7, <2>1, <2>2 DEF Once
<1>12. \A k \in Key : mutations[k] <= counted[k]
  BY <1>2, <1>6
<1>13. Reached(next)
  BY <1>1, <1>4, <1>7, <1>10, <1>11, <1>12 DEF Reached
<1> QED
  BY <1>9, <1>13 DEF next

LEMMA StepReached ==
  ASSUME TypeOK, NEW s, Reached(s), NEW twice, FitsSo(s, twice), NEW act \in Action
  PROVE  Reached(Step(s, act)) /\ FitsSo(Step(s, act), twice)
<1>1. CASE s.ok /\ Applies(s.rows, act)
  <2>1. s.rows[act.key] \in Seq(Image) /\ (First(s.rows[act.key]) = None <=> s.rows[act.key] = <<>>)
    <3>1. s.rows[act.key] \in Seq(Image)
      BY DEF Reached, Table, Action
    <3> QED
      BY <3>1, RangeParts, TypeParts DEF First
  <2>2. s.rows[act.key] = <<>> <=> act.op = "insert"
    BY <1>1, <2>1 DEF Applies
  <2>3. Step(s, act) = Write(s, act)
    BY <1>1 DEF Step
  <2> QED
    BY <2>2, <2>3, WriteReached
<1>2. CASE ~(s.ok /\ Applies(s.rows, act))
  <2> DEFINE t == [s EXCEPT !.ok = FALSE]
  <2>1. Step(s, act) = t
    BY <1>2 DEF Step
  <2>2. t.ok = FALSE /\ t.rows = s.rows /\ t.mutations = s.mutations /\ t.records = s.records
    BY DEF Reached
  <2> HIDE DEF t
  <2> QED
    BY <2>1, <2>2 DEF Reached, FitsSo
<1> QED
  BY <1>1, <1>2

\* The function that RunActions evaluates exists, whatever the actions are.
LEMMA ActionSteps ==
  ASSUME NEW acts, Len(acts) \in Nat
  PROVE  \E g : /\ g = [n \in 0..Len(acts) |-> IF n = 0 THEN Untouched ELSE Step(g[n - 1], acts[n])]
                /\ RunActions(acts) = g[Len(acts)]
<1> DEFINE after[n \in 0..Len(acts)] == IF n = 0 THEN Untouched ELSE Step(after[n - 1], acts[n])
           Is(g, m) == g = [n \in 0..m |-> IF n = 0 THEN Untouched ELSE Step(g[n - 1], acts[n])]
           Bad == {m \in Nat : ~\E g : Is(g, m)}
<1> HIDE DEF after, Is
<1>1. Bad = {}
  <2> SUFFICES ASSUME Bad # {} PROVE FALSE
    OBVIOUS
  <2>1. PICK m \in Bad : \A d \in Bad : m <= d
    <3> HIDE DEF Bad
    <3>1. Bad \in SUBSET Nat
      BY DEF Bad
    <3> QED
      BY <3>1, SmallestExists
  <2>2. m \in Nat /\ ~\E g : Is(g, m)
    BY <2>1
  <2>3. m # 0
    <3>1. Is([n \in 0..0 |-> Untouched], 0)
      BY DEF Is
    <3> QED
      BY <2>2, <3>1
  <2>4. PICK g : Is(g, m - 1)
    BY <2>1, <2>2, <2>3
  <2> DEFINE h == [n \in 0..m |-> IF n = m THEN Step(g[m - 1], acts[m]) ELSE g[n]]
  <2>5. Is(h, m)
    <3>1. \A n \in 0..m : h[n] = IF n = 0 THEN Untouched ELSE Step(h[n - 1], acts[n])
      <4>1. \A n \in 0..m - 1 : g[n] = IF n = 0 THEN Untouched ELSE Step(g[n - 1], acts[n])
        BY <2>4 DEF Is
      <4>2. /\ h[m] = Step(g[m - 1], acts[m]) /\ m \in 0..m
            /\ \A n \in 0..m - 1 : h[n] = g[n]
        BY <2>2
      <4> HIDE DEF h
      <4>3. TAKE n \in 0..m
      <4>4. CASE n = m
        <5>1. m - 1 \in 0..m - 1 /\ n # 0
          BY <2>2, <2>3, <4>4
        <5>2. h[m - 1] = g[m - 1]
          BY <4>2, <5>1
        <5> QED
          BY <4>2, <4>4, <5>1, <5>2
      <4>5. CASE n # m
        BY <2>2, <4>1, <4>2, <4>5
      <4> QED
        BY <4>4, <4>5
    <3> HIDE DEF h
    <3>2. h = [n \in 0..m |-> h[n]]
      BY DEF h
    <3> QED
      BY <3>1, <3>2 DEF Is
  <2> QED
    BY <2>2, <2>5
<1>2. \E g : Is(g, Len(acts))
  <2>1. Len(acts) \notin Bad
    BY <1>1
  <2> QED
    BY <2>1
<1>3. Is(after, Len(acts))
  <2>1. after = CHOOSE g : Is(g, Len(acts))
    BY DEF after, Is
  <2> QED
    BY <1>2, <2>1
<1>4. RunActions(acts) = after[Len(acts)]
  BY DEF RunActions, after
<1> QED
  BY <1>3, <1>4 DEF Is

LEMMA ActionsReached ==
  ASSUME TypeOK, NEW twice, Fits(rows, mutations, Known, twice),
         NEW len \in Nat, NEW acts \in [1..len -> Action]
  PROVE  Reached(RunActions(acts)) /\ FitsSo(RunActions(acts), twice)
<1>1. Len(acts) = len
  OBVIOUS
<1>2. PICK g : /\ g = [n \in 0..len |-> IF n = 0 THEN Untouched ELSE Step(g[n - 1], acts[n])]
               /\ RunActions(acts) = g[len]
  <2>1. Len(acts) \in Nat
    BY <1>1
  <2> QED
    BY <1>1, <2>1, ActionSteps
<1>3. g[0] = Untouched /\ \A n \in 1..len : g[n] = Step(g[n - 1], acts[n])
  <2>1. \A n \in 0..len : g[n] = IF n = 0 THEN Untouched ELSE Step(g[n - 1], acts[n])
    BY <1>2
  <2>2. 0 \in 0..len /\ \A n \in 1..len : n \in 0..len /\ n # 0
    OBVIOUS
  <2> QED
    BY <2>1, <2>2
<1> DEFINE Good(n) == Reached(g[n]) /\ FitsSo(g[n], twice)
           Bad == {n \in Nat : n <= len /\ ~Good(n)}
<1>4. Good(0)
  BY <1>3, UntouchedReached
<1>5. ASSUME NEW n \in 1..len, Good(n - 1) PROVE Good(n)
  <2>1. acts[n] \in Action
    OBVIOUS
  <2> QED
    BY <1>3, <1>5, <2>1, StepReached
<1> HIDE DEF Good
<1>6. Bad = {}
  <2> SUFFICES ASSUME Bad # {} PROVE FALSE
    OBVIOUS
  <2>1. PICK n \in Bad : \A d \in Bad : n <= d
    <3> HIDE DEF Bad
    <3>1. Bad \in SUBSET Nat
      BY DEF Bad
    <3> QED
      BY <3>1, SmallestExists
  <2>2. n \in Nat /\ n <= len /\ ~Good(n) /\ n # 0
    BY <1>4, <2>1
  <2>3. n - 1 \in Nat /\ n - 1 <= len /\ n \in 1..len
    BY <2>2
  <2>4. Good(n - 1)
    BY <2>1, <2>2, <2>3
  <2> QED
    BY <1>5, <2>2, <2>3, <2>4
<1>7. Good(len)
  BY <1>6
<1> QED
  BY <1>2, <1>7 DEF Good

\* What is not said of the table and its records stays as it was.
Elsewhere == <<commits, copy, delivered, closed>>

\* The rest of the invariant needs only that the ledger was not rewritten.
LEMMA LedgerGrows ==
  ASSUME TableInvariant, TypeOK', UNCHANGED Elsewhere, Len(ledger) <= Len(ledger'),
         \A p \in 1..Len(ledger) : ledger'[p] = ledger[p]
  PROVE  /\ CommitsInOrder' /\ LedgerIsPast'
         /\ CopyCommitted' /\ CopyFollows' /\ ClosedForCause'
<1>1. /\ Len(commits) \in Nat /\ delivered \in 1..Len(commits)
      /\ \A j \in 1..Len(commits) : commits[j].upto \in Nat /\ commits[j].upto \in 0..Len(ledger)
      /\ Len(ledger) \in Nat
      /\ commits' = commits /\ copy' = copy /\ delivered' = delivered /\ closed' = closed
  BY TypeParts DEF TableInvariant, Elsewhere
<1>2. CommitsInOrder'
  BY <1>1 DEF TableInvariant, CommitsInOrder
<1>3. \A j \in 1..Len(commits) : \A p \in 1..commits[j].upto :
        p \in 1..Len(ledger) /\ ledger'[p] = ledger[p]
  BY <1>1
<1>4. LedgerIsPast'
  BY <1>1, <1>3 DEF TableInvariant, LedgerIsPast
<1>5. CopyCommitted'
  BY <1>1 DEF TableInvariant, CopyCommitted
<1>6. ASSUME NEW k \in Key PROVE LastWord(delivered, k)' = LastWord(delivered, k)
  <2> DEFINE places == {p \in 1..commits[delivered].upto : ledger[p].key = k}
             last == CHOOSE p \in places : \A q \in places : q <= p
  <2>1. places' = places
    BY <1>1, <1>3
  <2>2. LastWord(delivered, k) = IF places = {} THEN 0 ELSE ledger[last].n
    BY DEF LastWord
  <2>3. LastWord(delivered, k)' = IF places = {} THEN 0 ELSE ledger'[last].n
    <3>1. LastWord(delivered, k)' = IF places' = {} THEN 0 ELSE ledger'[last'].n
      BY DEF LastWord
    <3>2. last' = last
      BY <2>1
    <3> QED
      BY <2>1, <3>1, <3>2
  <2>4. places # {} => last \in places
    <3> HIDE DEF places
    <3>1. places # {} => \E p \in places : \A q \in places : q <= p
      <4>1. places \subseteq 1..commits[delivered].upto /\ commits[delivered].upto \in Nat
        BY <1>1 DEF places
      <4> QED
        BY <4>1, LargestExists
    <3> QED
      BY <3>1
  <2>5. places # {} => ledger'[last] = ledger[last]
    <3>1. places \subseteq 1..commits[delivered].upto
      OBVIOUS
    <3> HIDE DEF places, last
    <3> QED
      BY <1>1, <1>3, <2>4, <3>1
  <2> HIDE DEF places, last
  <2> QED
    BY <2>2, <2>3, <2>5
<1>7. CopyFollows'
  BY <1>1, <1>6 DEF TableInvariant, CopyFollows
<1>8. ClosedForCause'
  <2> SUFFICES ASSUME closed PROVE delivered < Len(commits) /\ Corrupt(delivered + 1)'
    BY <1>1 DEF ClosedForCause
  <2>1. delivered < Len(commits) /\ Corrupt(delivered + 1)
    BY DEF TableInvariant, ClosedForCause
  <2>2. delivered + 1 \in 1..Len(commits) /\ (delivered + 1) - 1 = delivered
    BY <1>1, <2>1
  <2>3. Added(delivered + 1)' = Added(delivered + 1)
    <3> DEFINE a == commits[delivered].upto + 1
               b == commits[delivered + 1].upto
    <3>1. a \in Nat /\ a >= 1 /\ b \in Nat /\ b <= Len(ledger)
      BY <1>1, <2>2
    <3>2. Added(delivered + 1) = SubSeq(ledger, a, b)
      <4>1. Added(delivered + 1)
              = SubSeq(ledger, commits[(delivered + 1) - 1].upto + 1, commits[delivered + 1].upto)
        BY DEF Added
      <4> QED
        BY <2>2, <4>1
    <3>3. Added(delivered + 1)' = SubSeq(ledger', a, b)
      <4>1. Added(delivered + 1)'
              = SubSeq(ledger', commits[(delivered + 1) - 1].upto + 1, commits[delivered + 1].upto)
        BY <1>1 DEF Added
      <4> QED
        BY <2>2, <4>1
    <3>4. ledger \in Seq(ChangeRecord) /\ ledger' \in Seq(ChangeRecord)
      BY DEF TypeOK, TableInvariant
    <3> HIDE DEF a, b
    <3>5. SubSeq(ledger, a, b) = [i \in 1..(b - a + 1) |-> ledger[a + i - 1]]
      BY <3>1, <3>4
    <3>6. SubSeq(ledger', a, b) = [i \in 1..(b - a + 1) |-> ledger'[a + i - 1]]
      BY <3>1, <3>4
    <3>7. \A i \in 1..(b - a + 1) : a + i - 1 \in 1..Len(ledger)
      BY <1>1, <3>1
    <3> QED
      BY <3>2, <3>3, <3>5, <3>6, <3>7
  <2>4. \A rec : /\ Resolves(delivered + 1, rec)' = Resolves(delivered + 1, rec)
                 /\ BornAndDied(delivered + 1, rec)' = BornAndDied(delivered + 1, rec)
    BY <1>1, <2>3 DEF Resolves, HashAt, KeyAt, BornAndDied
  <2> QED
    BY <2>1, <2>3, <2>4 DEF Corrupt
<1> QED
  BY <1>2, <1>4, <1>5, <1>7, <1>8

\* Fewer records say less, and so they do of more keys that had two lines.
LEMMA FitsLess ==
  ASSUME NEW tbl, NEW counts, NEW known, NEW twice, Fits(tbl, counts, known, twice),
         NEW fewer \in SUBSET known, NEW more, twice \subseteq more
  PROVE  Fits(tbl, counts, fewer, more)
<1>1. RecordsTell(tbl, counts, fewer) /\ CommitsTell(tbl, counts, fewer)
  BY DEF Fits, RecordsTell, CommitsTell
<1>2. SinglesFollow(tbl, fewer, more)
  BY DEF Fits, SinglesFollow
<1> QED
  BY <1>1, <1>2 DEF Fits

LEMMA FitsNext ==
  ASSUME NEW tbl, NEW counts, NEW known, NEW twice, Fits(tbl, counts, known, twice),
         commits' = commits, rows' = tbl, mutations' = counts, Known' \subseteq known,
         reposted' = twice
  PROVE  Fits(rows, mutations, Known, reposted)'
<1> DEFINE K == Known
<1>1. K' \in SUBSET known
  OBVIOUS
<1> HIDE DEF K
<1>2. Fits(tbl, counts, K', twice)
  BY <1>1, FitsLess
<1>3. Fits(rows, mutations, K, reposted)'
  BY <1>2 DEF Fits, RecordsTell, CommitsTell, SinglesFollow
<1> QED
  BY <1>3 DEF K

\* A sequence without its first element, and with one more.
LEMMA TailParts ==
  ASSUME NEW T, NEW s \in Seq(T), s # <<>>
  PROVE  /\ Tail(s) \in Seq(T) /\ Len(Tail(s)) = Len(s) - 1 /\ Len(s) \in Nat /\ 1 \in 1..Len(s)
         /\ Head(s) = s[1] /\ Head(s) \in T
         /\ \A i \in 1..Len(s) - 1 : i + 1 \in 1..Len(s) /\ Tail(s)[i] = s[i + 1]
  OBVIOUS

LEMMA AppendParts ==
  ASSUME NEW T, NEW s \in Seq(T), NEW x \in T
  PROVE  /\ Append(s, x) \in Seq(T) /\ Len(s) \in Nat /\ Len(Append(s, x)) = Len(s) + 1
         /\ \A i \in 1..Len(s) : Append(s, x)[i] = s[i]
         /\ Append(s, x)[Len(s) + 1] = x
         /\ \A i \in 1..Len(s) + 1 : i = Len(s) + 1 \/ i \in 1..Len(s)
  OBVIOUS

LEMMA Bounded ==
  ASSUME NEW s \in Seq(AnyRecord), \A i \in 1..Len(s) : s[i].n <= MaxMutations
  PROVE  s \in Seq(ChangeRecord)
<1>1. MaxMutations \in Nat
  BY TableChangesAssumption DEF TableChangesAssumption
<1>2. \A i \in 1..Len(s) : s[i] \in ChangeRecord
  <2>1. TAKE i \in 1..Len(s)
  <2>2. s[i] \in AnyRecord /\ s[i].n <= MaxMutations
    OBVIOUS
  <2> QED
    BY <1>1, <2>2 DEF AnyRecord, ChangeRecord
<1>3. s = [i \in 1..Len(s) |-> s[i]] /\ Len(s) \in Nat
  OBVIOUS
<1> QED
  BY <1>2, <1>3

LEMMA AppendRange ==
  ASSUME NEW T, NEW s \in Seq(T), NEW x \in T
  PROVE  Range(Append(s, x)) \subseteq Range(s) \cup {x}
<1>1. Append(s, x) \in Seq(T)
  BY AppendParts
<1>2. \A y : y \in Range(Append(s, x)) <=> \E i \in 1..Len(Append(s, x)) : y = Append(s, x)[i]
  BY <1>1, RangeParts
<1> QED
  BY <1>2, AppendParts, RangeParts

\* The commits, when the ledger is longer.
LEMMA CommitsRetyped ==
  ASSUME TypeOK, Len(ledger) <= Len(ledger'), Len(ledger') \in Nat
  PROVE  commits \in Seq([rows : Table, upto : 0..Len(ledger'), made : Counts])
<1> DEFINE T == [rows : Table, upto : 0..Len(ledger), made : Counts]
           U == [rows : Table, upto : 0..Len(ledger'), made : Counts]
<1>1. commits \in Seq(T)
  BY DEF TypeOK
<1>2. T \subseteq U
  <2>1. 0..Len(ledger) \subseteq 0..Len(ledger')
    BY TypeParts
  <2> QED
    BY <2>1
<1> HIDE DEF T, U
<1>3. commits \in Seq(U)
  <2>1. commits = [i \in 1..Len(commits) |-> commits[i]] /\ Len(commits) \in Nat
        /\ \A i \in 1..Len(commits) : commits[i] \in T
    BY <1>1
  <2> QED
    BY <1>2, <2>1
<1> QED
  BY <1>3 DEF U

\* A request has changed the files and has its records to append.
LEMMA ApplyStep ==
  ASSUME TableInvariant, NEW r \in Request, NEW result, Apply(r, result),
         Reached(result), FitsSo(result, reposted'), reposted' \subseteq Key
  PROVE  TableInvariant'
<1>1. /\ pending[r] = <<>> /\ rows' = result.rows /\ mutations' = result.mutations
      /\ pending' = [pending EXCEPT ![r] = result.records]
      /\ ledger' = ledger /\ lost' = lost /\ commits' = commits /\ copy' = copy
      /\ delivered' = delivered /\ closed' = closed
      /\ \A k \in Key : result.mutations[k] <= MaxMutations
  BY DEF Apply
<1>2. /\ result.rows \in Table /\ result.mutations \in [Key -> Nat]
      /\ result.records \in Seq(AnyRecord) /\ Len(result.records) \in Nat
      /\ \A i \in 1..Len(result.records) :
           /\ result.records[i] \in AnyRecord
           /\ mutations[result.records[i].key] < result.records[i].n
           /\ result.records[i].n <= result.mutations[result.records[i].key]
      /\ Once(result.records)
  <2>1. /\ result.rows \in Table /\ result.mutations \in [Key -> Nat]
        /\ result.records \in Seq(AnyRecord)
        /\ \A i \in 1..Len(result.records) :
             /\ mutations[result.records[i].key] < result.records[i].n
             /\ result.records[i].n <= result.mutations[result.records[i].key]
        /\ Once(result.records)
    BY DEF Reached
  <2> QED
    BY <2>1, RangeParts
<1>3. TypeOK /\ MaxMutations \in Nat
  BY TypeParts DEF TableInvariant
<1>4. result.records \in Seq(ChangeRecord)
  <2>1. \A i \in 1..Len(result.records) : result.records[i].n <= MaxMutations
    <3>1. TAKE i \in 1..Len(result.records)
    <3>2. /\ result.records[i].key \in Key /\ result.records[i].n \in Nat
          /\ result.mutations[result.records[i].key] \in Nat
      BY <1>2 DEF AnyRecord
    <3> QED
      BY <1>1, <1>2, <1>3, <3>2
  <2> QED
    BY <1>2, <2>1, Bounded
<1>5. TypeOK'
  <2>1. mutations' \in Counts
    BY <1>1, <1>2, <1>3 DEF Counts
  <2>2. pending' \in [Request -> Seq(ChangeRecord)]
    BY <1>1, <1>3, <1>4 DEF TypeOK
  <2> QED
    BY <1>1, <1>2, <1>3, <2>1, <2>2 DEF TypeOK
<1>6. /\ pending'[r] = result.records
      /\ \A q \in Request : q # r => pending'[q] = pending[q]
  BY <1>1, <1>3 DEF TypeOK
<1>7. Fits(rows, mutations, Known, reposted)'
  <2> DEFINE known == Known \cup Range(result.records)
  <2>1. Known' \subseteq known
    BY <1>1, <1>6 DEF Known
  <2>2. Fits(result.rows, result.mutations, known, reposted')
    BY DEF FitsSo
  <2> HIDE DEF known
  <2> QED
    BY <1>1, <2>1, <2>2, FitsNext
<1>8. RecordsOnce'
  <2>1. ASSUME NEW rec \in Known, NEW i \in 1..Len(result.records)
        PROVE  ~Same(rec, result.records[i]) /\ ~Same(result.records[i], rec)
    <3>1. rec.n <= mutations[rec.key]
      BY DEF TableInvariant, Fits, RecordsTell
    <3>2. /\ rec \in ChangeRecord /\ result.records[i].n \in Nat /\ result.records[i].key \in Key
          /\ mutations[result.records[i].key] < result.records[i].n
      BY <1>2, <1>3, TypeParts DEF AnyRecord
    <3>3. rec.n \in Nat /\ rec.key \in Key /\ \A k \in Key : mutations[k] \in Nat
      <4>1. rec.n \in 1..MaxMutations /\ rec.key \in Key
        BY <3>2 DEF ChangeRecord
      <4>2. \A k \in Key : mutations[k] \in 0..MaxMutations
        BY <1>3 DEF TypeOK, Counts
      <4> QED
        BY <1>3, <4>1, <4>2
    <3> QED
      BY <3>1, <3>2, <3>3 DEF Same
  <2>2. \A i \in 1..Len(ledger) : ledger[i] \in Known
    <3>1. ledger \in Seq(ChangeRecord)
      BY <1>3 DEF TypeOK
    <3> QED
      BY <3>1, RangeParts DEF Known
  <2>3. \A q \in Request : \A i \in 1..Len(pending[q]) : pending[q][i] \in Known
    <3>1. \A q \in Request : pending[q] \in Seq(ChangeRecord)
      BY <1>3 DEF TypeOK
    <3> QED
      BY <3>1, RangeParts DEF Known
  <2>4. Once(ledger')
    BY <1>1 DEF TableInvariant, RecordsOnce
  <2>5. ASSUME NEW q \in Request PROVE Once(pending'[q]) /\ Apart(ledger', pending'[q])
    <3>1. CASE q = r
      BY <1>1, <1>2, <1>6, <2>1, <2>2, <3>1 DEF Apart
    <3>2. CASE q # r
      BY <1>1, <1>6, <3>2 DEF TableInvariant, RecordsOnce
    <3> QED
      BY <3>1, <3>2
  <2>6. ASSUME NEW q \in Request, NEW p \in Request, q # p PROVE Apart(pending'[q], pending'[p])
    <3>1. CASE q = r
      BY <1>6, <2>1, <2>3, <2>6, <3>1 DEF Apart
    <3>2. CASE p = r
      BY <1>6, <2>1, <2>3, <2>6, <3>2 DEF Apart
    <3>3. CASE q # r /\ p # r
      BY <1>6, <2>6, <3>3 DEF TableInvariant, RecordsOnce
    <3> QED
      BY <3>1, <3>2, <3>3
  <2> QED
    BY <2>4, <2>5, <2>6 DEF RecordsOnce, Once, Apart, Same
<1>9. Len(ledger) <= Len(ledger') /\ \A p \in 1..Len(ledger) : ledger'[p] = ledger[p]
  BY <1>1, <1>3, TypeParts
<1>10. UNCHANGED Elsewhere
  BY <1>1 DEF Elsewhere
<1> QED
  BY <1>5, <1>7, <1>8, <1>9, <1>10, LedgerGrows DEF TableInvariant

LEMMA VerbStep ==
  ASSUME TableInvariant, NEW r \in Request,
         \/ \E k \in Key, v \in Image :
              InsertTableRows(r, k, v) \/ UpdateTableRows(r, k, v) \/ UpsertTableRow(r, k, v)
         \/ \E k \in Key : DeleteTableRows(r, k)
         \/ \E len \in 1..MaxEnvelope : \E acts \in [1..len -> Action] :
              RunTableTransaction(r, acts)
  PROVE  TableInvariant'
<1>1. /\ TypeOK /\ reposted \subseteq Key
      /\ Fits(rows, mutations, Known, reposted)
  BY DEF TableInvariant, TypeOK
<1>2. Reached(Untouched) /\ FitsSo(Untouched, reposted)
  BY <1>1, UntouchedReached
<1>3. ASSUME NEW k \in Key, NEW v \in Image, InsertTableRows(r, k, v) PROVE TableInvariant'
  <2> DEFINE act == [op |-> "insert", key |-> k, image |-> v]
  <2>1. act \in Action /\ act.op = "insert" /\ act.key = k
    BY DEF Action
  <2>2. Apply(r, Write(Untouched, act)) /\ reposted' = Reposted(k)
    BY <1>3 DEF InsertTableRows
  <2> HIDE DEF act
  <2>3. reposted \subseteq Reposted(k) /\ Reposted(k) \subseteq Key
    BY <1>1 DEF Reposted
  <2>4. k \notin Reposted(k) => Untouched.rows[k] = <<>>
    BY DEF Reposted, Untouched
  <2>5. Reached(Untouched) /\ FitsSo(Untouched, Reposted(k))
    <3>1. Known \in SUBSET Known
      OBVIOUS
    <3>2. Fits(rows, mutations, Known, Reposted(k))
      BY <1>1, <2>3, <3>1, FitsLess
    <3> QED
      BY <1>1, <3>2, UntouchedReached
  <2>6. Reached(Write(Untouched, act)) /\ FitsSo(Write(Untouched, act), Reposted(k))
    BY <1>1, <2>1, <2>4, <2>5, WriteReached
  <2> QED
    BY <2>2, <2>3, <2>6, ApplyStep
<1>4. ASSUME NEW act \in Action, Apply(r, Step(Untouched, act)), reposted' = reposted
      PROVE  TableInvariant'
  <2>1. Reached(Step(Untouched, act)) /\ FitsSo(Step(Untouched, act), reposted)
    BY <1>1, <1>2, StepReached
  <2> QED
    BY <1>1, <1>4, <2>1, ApplyStep
<1>5. ASSUME NEW k \in Key, NEW v \in Image, UpdateTableRows(r, k, v) \/ UpsertTableRow(r, k, v)
      PROVE  TableInvariant'
  <2>1. \A op \in {"insert", "update"} : [op |-> op, key |-> k, image |-> v] \in Action
    BY DEF Action
  <2> QED
    BY <1>4, <1>5, <2>1 DEF UpdateTableRows, UpsertTableRow
<1>6. ASSUME NEW k \in Key, DeleteTableRows(r, k) PROVE TableInvariant'
  <2>1. [op |-> "delete", key |-> k, image |-> None] \in Action
    BY DEF Action
  <2> QED
    BY <1>4, <1>6, <2>1 DEF DeleteTableRows
<1>7. ASSUME NEW len \in 1..MaxEnvelope, NEW acts \in [1..len -> Action],
             RunTableTransaction(r, acts)
      PROVE  TableInvariant'
  <2>1. len \in Nat
    BY TableChangesAssumption DEF TableChangesAssumption
  <2>2. Reached(RunActions(acts)) /\ FitsSo(RunActions(acts), reposted)
    BY <1>1, <2>1, ActionsReached
  <2>3. Apply(r, RunActions(acts)) /\ reposted' = reposted
    BY <1>7 DEF RunTableTransaction
  <2> QED
    BY <1>1, <2>2, <2>3, ApplyStep
<1> QED
  BY <1>3, <1>5, <1>6, <1>7

\* A record is appended: by the serializer with its row, or after the fact.
LEMMA LedgerStep ==
  ASSUME TableInvariant, NEW rec \in ChangeRecord, ledger' = Append(ledger, rec),
         TypeOK', UNCHANGED Elsewhere, Fits(rows, mutations, Known, reposted)',
         \A i \in 1..Len(ledger) : ~Same(ledger[i], rec),
         \A r \in Request : /\ \A i \in 1..Len(pending'[r]) : ~Same(pending'[r][i], rec)
                            /\ Once(pending'[r]) /\ Apart(ledger, pending'[r]),
         \A r, q \in Request : r # q => Apart(pending'[r], pending'[q])
  PROVE  TableInvariant'
<1>1. ledger \in Seq(ChangeRecord)
  BY DEF TableInvariant, TypeOK
<1>2. /\ Len(ledger) \in Nat /\ Len(ledger') = Len(ledger) + 1
      /\ \A i \in 1..Len(ledger) : ledger'[i] = ledger[i]
      /\ ledger'[Len(ledger) + 1] = rec
      /\ \A i \in 1..Len(ledger) + 1 : i = Len(ledger) + 1 \/ i \in 1..Len(ledger)
  BY <1>1, AppendParts
<1>3. \A p, q : Same(p, q) => Same(q, p)
  BY DEF Same
<1>4. Once(ledger')
  BY <1>2, <1>3 DEF TableInvariant, RecordsOnce, Once
<1>5. \A r \in Request : Apart(ledger', pending'[r])
  BY <1>2, <1>3 DEF Apart
<1>6. RecordsOnce'
  BY <1>4, <1>5 DEF RecordsOnce, Once, Apart, Same
<1>7. Len(ledger) <= Len(ledger')
  BY <1>2
<1> QED
  BY <1>2, <1>6, <1>7, LedgerGrows DEF TableInvariant

LEMMA WriterStep ==
  ASSUME TableInvariant, NEW k \in Key, NEW v \in Image, InsertThroughWriter(k, v)
  PROVE  TableInvariant'
<1> DEFINE act == [op |-> "insert", key |-> k, image |-> v]
           result == Write(Untouched, act)
           rec == RecordOf(rows, act, mutations[k] + 1)
<1>1. /\ mutations[k] < MaxMutations /\ rows' = result.rows /\ mutations' = result.mutations
      /\ ledger' = ledger \o result.records /\ reposted' = Reposted(k)
      /\ pending' = pending /\ lost' = lost /\ commits' = commits /\ copy' = copy
      /\ delivered' = delivered /\ closed' = closed
  BY DEF InsertThroughWriter
<1>2. /\ TypeOK /\ reposted \subseteq Key /\ MaxMutations \in Nat
      /\ Fits(rows, mutations, Known, reposted) /\ mutations \in [Key -> 0..MaxMutations]
  BY TypeParts DEF TableInvariant, TypeOK, Counts
<1>3. act \in Action /\ act.op = "insert" /\ act.key = k
  BY DEF Action
<1>4. result.records = <<rec>> /\ result.mutations = [mutations EXCEPT ![k] = mutations[k] + 1]
  BY DEF Write, Untouched
<1> HIDE DEF act
<1>5. reposted \subseteq Reposted(k) /\ Reposted(k) \subseteq Key
  BY <1>2 DEF Reposted
<1>6. Reached(result) /\ FitsSo(result, Reposted(k))
  <2>1. k \notin Reposted(k) => Untouched.rows[k] = <<>>
    BY DEF Reposted, Untouched
  <2>2. Known \in SUBSET Known
    OBVIOUS
  <2>3. Fits(rows, mutations, Known, Reposted(k))
    BY <1>2, <1>5, <2>2, FitsLess
  <2>4. Reached(Untouched) /\ FitsSo(Untouched, Reposted(k))
    BY <1>2, <2>3, UntouchedReached
  <2> QED
    BY <1>2, <1>3, <2>1, <2>4, WriteReached
<1> HIDE DEF result
<1>7. /\ result.rows \in Table /\ <<rec>> \in Seq(AnyRecord) /\ rec \in AnyRecord
      /\ mutations[rec.key] < rec.n /\ rec.n <= result.mutations[rec.key]
      /\ Known \cup Range(result.records) = Known \cup {rec}
  <2>1. result.rows \in Table /\ <<rec>> \in Seq(AnyRecord)
    BY <1>4, <1>6 DEF Reached
  <2>2. Len(<<rec>>) = 1 /\ <<rec>>[1] = rec /\ 1 \in 1..1
    OBVIOUS
  <2>3. rec \in AnyRecord /\ mutations[rec.key] < rec.n /\ rec.n <= result.mutations[rec.key]
    <3> HIDE DEF rec
    <3> QED
      BY <1>4, <1>6, <2>1, <2>2, RangeParts DEF Reached
  <2>4. Range(<<rec>>) = {rec}
    <3> HIDE DEF rec
    <3>1. DOMAIN <<rec>> = {1}
      OBVIOUS
    <3> QED
      BY <2>2, <3>1 DEF Range
  <2> QED
    BY <1>4, <2>1, <2>3, <2>4
<1> HIDE DEF rec
<1>8. /\ rec.key \in Key /\ rec.n \in Nat /\ \A j \in Key : mutations[j] \in Nat
      /\ mutations[k] + 1 <= MaxMutations
  BY <1>1, <1>2, <1>7 DEF AnyRecord
<1>9. result.mutations \in Counts
  BY <1>2, <1>4, <1>8 DEF Counts
<1>10. rec \in ChangeRecord /\ ledger' = Append(ledger, rec)
  <2>1. result.mutations[rec.key] \in Nat /\ result.mutations[rec.key] <= MaxMutations
    BY <1>2, <1>8, <1>9 DEF Counts
  <2>2. rec.n <= MaxMutations
    BY <1>2, <1>7, <1>8, <2>1
  <2>3. rec \in ChangeRecord
    BY <1>2, <1>7, <1>8, <2>2 DEF AnyRecord, ChangeRecord
  <2>4. ledger \in Seq(ChangeRecord)
    BY <1>2 DEF TypeOK
  <2>5. ledger \o <<rec>> = Append(ledger, rec)
    BY <2>3, <2>4
  <2> QED
    BY <1>1, <1>4, <2>3, <2>5
<1>11. TypeOK'
  <2>1. ledger \in Seq(ChangeRecord)
    BY <1>2 DEF TypeOK
  <2>2. ledger' \in Seq(ChangeRecord) /\ Len(ledger') = Len(ledger) + 1 /\ Len(ledger) \in Nat
    BY <1>10, <2>1, AppendParts
  <2>3. commits' \in Seq([rows : Table, upto : 0..Len(ledger'), made : Counts])
    BY <1>1, <1>2, <2>2, CommitsRetyped
  <2> QED
    BY <1>1, <1>2, <1>5, <1>7, <1>9, <2>2, <2>3 DEF TypeOK
<1>12. Fits(rows, mutations, Known, reposted)'
  <2>1. Known' \subseteq Known \cup {rec}
    <3>1. Range(ledger') \subseteq Range(ledger) \cup {rec}
      <4>1. ledger \in Seq(ChangeRecord)
        BY <1>2 DEF TypeOK
      <4> QED
        BY <1>10, <4>1, AppendRange
    <3> QED
      BY <1>1, <3>1 DEF Known
  <2>2. Fits(result.rows, result.mutations, Known \cup {rec}, reposted')
    BY <1>1, <1>6, <1>7 DEF FitsSo
  <2> QED
    BY <1>1, <2>1, <2>2, FitsNext
<1>13. \A q \in Known : ~Same(q, rec)
  <2>1. TAKE q \in Known
  <2>2. q.n <= mutations[q.key]
    BY <1>2 DEF Fits, RecordsTell
  <2>3. q \in ChangeRecord
    BY <1>2, TypeParts
  <2>4. q.n \in Nat /\ q.key \in Key
    BY <1>2, <2>3 DEF ChangeRecord
  <2> QED
    BY <1>7, <1>8, <2>2, <2>4 DEF Same
<1>14. /\ \A i \in 1..Len(ledger) : ledger[i] \in Known
       /\ \A r \in Request : \A i \in 1..Len(pending[r]) : pending[r][i] \in Known
  <2>1. ledger \in Seq(ChangeRecord) /\ \A r \in Request : pending[r] \in Seq(ChangeRecord)
    BY <1>2 DEF TypeOK
  <2> QED
    BY <2>1, RangeParts DEF Known
<1>15. UNCHANGED Elsewhere
  BY <1>1 DEF Elsewhere
<1>16. /\ \A r \in Request : Once(pending[r]) /\ Apart(ledger, pending[r])
       /\ \A r, q \in Request : r # q => Apart(pending[r], pending[q])
  BY DEF TableInvariant, RecordsOnce
<1> QED
  BY <1>1, <1>10, <1>11, <1>12, <1>13, <1>14, <1>15, <1>16, LedgerStep

LEMMA RecordStep ==
  ASSUME TableInvariant, NEW r \in Request, RecordMutation(r)
  PROVE  TableInvariant'
<1> DEFINE rec == Head(pending[r])
<1>1. /\ pending[r] # <<>> /\ ledger' = Append(ledger, rec)
      /\ pending' = [pending EXCEPT ![r] = Tail(pending[r])]
      /\ rows' = rows /\ mutations' = mutations /\ reposted' = reposted /\ lost' = lost
      /\ commits' = commits /\ copy' = copy /\ delivered' = delivered /\ closed' = closed
  BY DEF RecordMutation, table
<1>2. /\ TypeOK /\ ledger \in Seq(ChangeRecord) /\ Len(ledger) \in Nat
      /\ \A q \in Request : pending[q] \in Seq(ChangeRecord) /\ Len(pending[q]) \in Nat
  BY TypeParts DEF TableInvariant, TypeOK
<1>3. /\ rec \in ChangeRecord /\ rec = pending[r][1] /\ 1 \in 1..Len(pending[r])
      /\ pending'[r] \in Seq(ChangeRecord) /\ Len(pending'[r]) = Len(pending[r]) - 1
      /\ \A i \in 1..Len(pending[r]) - 1 :
           i + 1 \in 1..Len(pending[r]) /\ pending'[r][i] = pending[r][i + 1]
      /\ \A q \in Request : q # r => pending'[q] = pending[q]
  <2>1. pending'[r] = Tail(pending[r]) /\ \A q \in Request : q # r => pending'[q] = pending[q]
    BY <1>1, <1>2 DEF TypeOK
  <2> DEFINE q == pending[r]
  <2>2. q \in Seq(ChangeRecord) /\ q # <<>>
    BY <1>1, <1>2
  <2> HIDE DEF q
  <2>3. /\ Tail(q) \in Seq(ChangeRecord) /\ Len(Tail(q)) = Len(q) - 1 /\ 1 \in 1..Len(q)
        /\ Head(q) = q[1] /\ Head(q) \in ChangeRecord
        /\ \A i \in 1..Len(q) - 1 : i + 1 \in 1..Len(q) /\ Tail(q)[i] = q[i + 1]
    BY <2>2, TailParts
  <2> QED
    BY <2>1, <2>3 DEF q
<1> HIDE DEF rec
<1>4. TypeOK'
  <2>1. ledger' \in Seq(ChangeRecord) /\ Len(ledger') = Len(ledger) + 1
    BY <1>1, <1>2, <1>3, AppendParts
  <2>2. pending' \in [Request -> Seq(ChangeRecord)]
    BY <1>1, <1>2, <1>3 DEF TypeOK
  <2>3. commits' \in Seq([rows : Table, upto : 0..Len(ledger'), made : Counts])
    BY <1>1, <1>2, <2>1, CommitsRetyped
  <2> QED
    BY <1>1, <1>2, <2>1, <2>2, <2>3 DEF TypeOK
<1>5. Fits(rows, mutations, Known, reposted)'
  <2>1. Known' \subseteq Known
    <3>1. Range(ledger') \subseteq Range(ledger) \cup {rec}
      BY <1>1, <1>2, <1>3, AppendRange
    <3>2. rec \in Range(pending[r])
      BY <1>2, <1>3, RangeParts
    <3>3. Range(pending'[r]) \subseteq Range(pending[r])
      <4>1. \A x \in Range(pending'[r]) : \E i \in 1..Len(pending'[r]) : x = pending'[r][i]
        BY <1>3, RangeParts
      <4>2. \A i \in 1..Len(pending'[r]) : pending'[r][i] \in Range(pending[r])
        <5>1. \A i \in 1..Len(pending[r]) : pending[r][i] \in Range(pending[r])
          BY <1>2, RangeParts
        <5> QED
          BY <1>3, <5>1
      <4> QED
        BY <4>1, <4>2
    <3> QED
      BY <1>3, <3>1, <3>2, <3>3 DEF Known
  <2>2. Fits(rows, mutations, Known, reposted)
    BY DEF TableInvariant
  <2> QED
    BY <1>1, <2>1, <2>2, FitsNext
<1>6. /\ Once(ledger)
      /\ \A q \in Request : Once(pending[q]) /\ Apart(ledger, pending[q])
      /\ \A q, p \in Request : q # p => Apart(pending[q], pending[p])
  BY DEF TableInvariant, RecordsOnce
<1>7. /\ \A p, q : Same(p, q) => Same(q, p)
      /\ \A i \in 1..Len(pending'[r]) : i \in 1..Len(pending[r]) - 1 /\ i + 1 # 1
  BY <1>2, <1>3 DEF Same
<1>8. \A i \in 1..Len(ledger) : ~Same(ledger[i], rec)
  BY <1>3, <1>6 DEF Apart
<1>9. ASSUME NEW q \in Request
      PROVE  /\ \A i \in 1..Len(pending'[q]) : ~Same(pending'[q][i], rec)
             /\ Once(pending'[q]) /\ Apart(ledger, pending'[q])
  <2>1. CASE q = r
    <3>1. \A i \in 1..Len(pending'[r]) : ~Same(pending'[r][i], rec)
      BY <1>3, <1>6, <1>7 DEF Once
    <3>2. Once(pending'[r])
      <4>1. ASSUME NEW i \in 1..Len(pending'[r]), NEW j \in 1..Len(pending'[r]),
                   Same(pending'[r][i], pending'[r][j])
            PROVE  i = j
        <5>1. /\ i + 1 \in 1..Len(pending[r]) /\ pending'[r][i] = pending[r][i + 1]
              /\ j + 1 \in 1..Len(pending[r]) /\ pending'[r][j] = pending[r][j + 1]
          BY <1>3, <1>7
        <5>2. i + 1 = j + 1
          BY <1>6, <4>1, <5>1 DEF Once
        <5> QED
          BY <5>2
      <4> QED
        BY <4>1 DEF Once
    <3>3. Apart(ledger, pending'[r])
      BY <1>3, <1>6, <1>7 DEF Apart
    <3> QED
      BY <2>1, <3>1, <3>2, <3>3
  <2>2. CASE q # r
    <3>1. \A i \in 1..Len(pending[q]) : ~Same(pending[q][i], rec)
      BY <1>3, <1>6, <2>2 DEF Apart
    <3> QED
      BY <1>3, <1>6, <2>2, <3>1
  <2> QED
    BY <2>1, <2>2
<1>10. ASSUME NEW q \in Request, NEW p \in Request, q # p PROVE Apart(pending'[q], pending'[p])
  <2>1. CASE q = r
    <3>1. pending'[p] = pending[p] /\ Apart(pending[r], pending[p])
      BY <1>3, <1>6, <1>10, <2>1
    <3> QED
      BY <1>3, <1>7, <2>1, <3>1 DEF Apart
  <2>2. CASE p = r
    <3>1. pending'[q] = pending[q] /\ Apart(pending[q], pending[r])
      BY <1>3, <1>6, <1>10, <2>2
    <3> QED
      BY <1>3, <1>7, <2>2, <3>1 DEF Apart
  <2>3. CASE q # r /\ p # r
    BY <1>3, <1>6, <1>10, <2>3
  <2> QED
    BY <2>1, <2>2, <2>3
<1>11. UNCHANGED Elsewhere
  BY <1>1 DEF Elsewhere
<1> QED
  BY <1>1, <1>3, <1>4, <1>5, <1>8, <1>9, <1>10, <1>11, LedgerStep

LEMMA FailStep ==
  ASSUME TableInvariant, NEW r \in Request, RecordFails(r)
  PROVE  TableInvariant'
<1>1. /\ lost < MaxLost /\ lost' = lost + 1 /\ pending' = [pending EXCEPT ![r] = <<>>]
      /\ rows' = rows /\ mutations' = mutations /\ reposted' = reposted /\ ledger' = ledger
      /\ commits' = commits /\ copy' = copy /\ delivered' = delivered /\ closed' = closed
  BY DEF RecordFails, table
<1>2. TypeOK /\ pending \in [Request -> Seq(ChangeRecord)]
  BY DEF TableInvariant, TypeOK
<1>3. pending'[r] = <<>> /\ \A q \in Request : q # r => pending'[q] = pending[q]
  BY <1>1, <1>2
<1>4. TypeOK'
  <2>1. pending' \in [Request -> Seq(ChangeRecord)]
    BY <1>1, <1>2
  <2>2. lost' \in 0..MaxLost
    BY <1>1, <1>2, TableChangesAssumption DEF TypeOK, TableChangesAssumption
  <2> QED
    BY <1>1, <1>2, <2>1, <2>2 DEF TypeOK
<1>5. Fits(rows, mutations, Known, reposted)'
  <2>1. Range(<<>>) = {}
    BY DEF Range
  <2>2. Known' \subseteq Known
    BY <1>1, <1>3, <2>1 DEF Known
  <2>3. Fits(rows, mutations, Known, reposted)
    BY DEF TableInvariant
  <2> QED
    BY <1>1, <2>2, <2>3, FitsNext
<1>6. RecordsOnce'
  <2>1. 1..Len(pending'[r]) = {}
    BY <1>3
  <2>2. /\ Once(ledger)
        /\ \A q \in Request : Once(pending[q]) /\ Apart(ledger, pending[q])
        /\ \A q, p \in Request : q # p => Apart(pending[q], pending[p])
    BY DEF TableInvariant, RecordsOnce
  <2>3. \A q \in Request : Once(pending'[q]) /\ Apart(ledger', pending'[q])
    BY <1>1, <1>3, <2>1, <2>2 DEF Once, Apart
  <2>4. ASSUME NEW q \in Request, NEW p \in Request, q # p PROVE Apart(pending'[q], pending'[p])
    BY <1>3, <2>1, <2>2, <2>4 DEF Apart
  <2> QED
    BY <1>1, <2>2, <2>3, <2>4 DEF RecordsOnce, Once, Apart, Same
<1>7. Len(ledger) <= Len(ledger') /\ \A p \in 1..Len(ledger) : ledger'[p] = ledger[p]
  BY <1>1, <1>2, TypeParts
<1>8. UNCHANGED Elsewhere
  BY <1>1 DEF Elsewhere
<1> QED
  BY <1>4, <1>5, <1>6, <1>7, <1>8, LedgerGrows DEF TableInvariant

\* A commit takes what the files hold.
LEMMA CommitStep ==
  ASSUME TableInvariant, Commit
  PROVE  TableInvariant'
<1> DEFINE new == [rows |-> rows, upto |-> Len(ledger), made |-> mutations]
           T == [rows : Table, upto : 0..Len(ledger), made : Counts]
           last == Len(commits) + 1
<1>1. /\ commits' = Append(commits, new)
      /\ rows' = rows /\ mutations' = mutations /\ reposted' = reposted /\ ledger' = ledger
      /\ pending' = pending /\ lost' = lost /\ copy' = copy /\ delivered' = delivered
      /\ closed' = closed
  BY DEF Commit, table
<1>2. /\ TypeOK /\ commits \in Seq(T) /\ rows \in Table /\ mutations \in Counts
      /\ Len(ledger) \in Nat /\ Len(commits) \in Nat /\ MaxMutations \in Nat
      /\ delivered \in 1..Len(commits) /\ ledger \in Seq(ChangeRecord)
      /\ \A k \in Key : mutations[k] \in Nat
  <2>1. TypeOK /\ commits \in Seq(T) /\ rows \in Table /\ mutations \in Counts
        /\ ledger \in Seq(ChangeRecord)
    BY DEF TableInvariant, TypeOK
  <2>2. /\ Len(ledger) \in Nat /\ Len(commits) \in Nat /\ MaxMutations \in Nat
        /\ delivered \in 1..Len(commits)
    BY <2>1, TypeParts
  <2> HIDE DEF T
  <2> QED
    BY <2>1, <2>2 DEF Counts
<1>3. new \in T /\ new.rows = rows /\ new.upto = Len(ledger) /\ new.made = mutations
  BY <1>2
<1>4. /\ commits' \in Seq(T) /\ Len(commits') = last
      /\ \A j \in 1..Len(commits) : commits'[j] = commits[j]
      /\ commits'[last] = new
      /\ \A j \in 1..last : j = last \/ j \in 1..Len(commits)
  <2> HIDE DEF T, new
  <2> QED
    BY <1>1, <1>2, <1>3, AppendParts
<1> HIDE DEF new
<1>5. TypeOK'
  <2>1. commits' \in Seq([rows : Table, upto : 0..Len(ledger'), made : Counts])
    BY <1>1, <1>4
  <2>2. delivered \in 1..Len(commits')
    BY <1>2, <1>4
  <2> HIDE DEF T
  <2> QED
    BY <1>1, <1>2, <2>1, <2>2 DEF TypeOK
<1> HIDE DEF T
<1>6. /\ \A j \in 1..Len(commits) : /\ commits[j].upto \in Nat
                                    /\ commits[j].upto <= Len(ledger)
                                    /\ \A k \in Key : commits[j].made[k] \in Nat
      /\ \A rec \in Known : rec.key \in Key /\ rec.n \in Nat
  <2>1. \A rec \in Known : rec.key \in Key /\ rec.n \in 1..MaxMutations
    BY <1>2, TypeParts DEF ChangeRecord
  <2> QED
    BY <1>2, <2>1, TypeParts
<1>7. Known' = Known
  BY <1>1 DEF Known
<1>8. /\ RecordsTell(rows, mutations, Known) /\ CommitsTell(rows, mutations, Known)
      /\ SinglesFollow(rows, Known, reposted)
  BY DEF TableInvariant, Fits
<1>9. CommitsTell(rows, mutations, Known)'
  <2> SUFFICES ASSUME NEW j \in 1..last
               PROVE  /\ \A k \in Key :
                           /\ commits'[j].made[k] <= mutations[k]
                           /\ commits'[j].made[k] = mutations[k] => commits'[j].rows[k] = rows[k]
                      /\ \A rec \in Known :
                           /\ rec.n = commits'[j].made[rec.key]
                                => Leaves(rec, commits'[j].rows[rec.key])
                           /\ rec.n = commits'[j].made[rec.key] + 1
                                => Finds(rec, commits'[j].rows[rec.key])
    BY <1>1, <1>4, <1>7 DEF CommitsTell
  <2>1. CASE j \in 1..Len(commits)
    BY <1>4, <1>8, <2>1 DEF CommitsTell
  <2>2. CASE j = last
    <3>1. commits'[j].rows = rows /\ commits'[j].made = mutations
      BY <1>3, <1>4, <2>2
    <3>2. \A k \in Key : mutations[k] <= mutations[k]
      BY <1>2
    <3>3. \A rec \in Known : rec.n # mutations[rec.key] + 1
      BY <1>2, <1>6, <1>8 DEF RecordsTell
    <3> QED
      BY <1>8, <3>1, <3>2, <3>3 DEF RecordsTell
  <2> QED
    BY <1>4, <2>1, <2>2
<1>10. Fits(rows, mutations, Known, reposted)'
  <2>1. RecordsTell(rows, mutations, Known)' /\ SinglesFollow(rows, Known, reposted)'
    BY <1>1, <1>7, <1>8 DEF RecordsTell, SinglesFollow
  <2> QED
    BY <1>9, <2>1 DEF Fits
<1>11. RecordsOnce'
  BY <1>1 DEF TableInvariant, RecordsOnce
<1>12. CommitsInOrder'
  <2>1. ASSUME NEW i \in 1..last, NEW j \in 1..last, i <= j
        PROVE  /\ commits'[i].upto <= commits'[j].upto
               /\ \A k \in Key :
                    /\ commits'[i].made[k] <= commits'[j].made[k]
                    /\ commits'[i].made[k] = commits'[j].made[k]
                         => commits'[i].rows[k] = commits'[j].rows[k]
    <3>1. CASE j \in 1..Len(commits)
      <4>1. i \in 1..Len(commits)
        BY <1>2, <2>1, <3>1
      <4> QED
        BY <1>4, <2>1, <3>1, <4>1 DEF TableInvariant, CommitsInOrder
    <3>2. CASE j = last /\ i \in 1..Len(commits)
      BY <1>3, <1>4, <1>6, <1>8, <3>2 DEF CommitsTell
    <3>3. CASE j = last /\ i = last
      BY <1>2, <1>3, <1>4, <3>3
    <3> QED
      BY <1>4, <3>1, <3>2, <3>3
  <2>2. \A j \in 1..last, k \in Key : commits'[j].made[k] = 0 => commits'[j].rows[k] = <<>>
    <3>1. TAKE j \in 1..last, k \in Key
    <3>2. CASE j \in 1..Len(commits)
      BY <1>4, <3>2 DEF TableInvariant, CommitsInOrder
    <3>3. CASE j = last
      BY <1>3, <1>4, <1>8, <3>3 DEF RecordsTell
    <3> QED
      BY <1>4, <3>2, <3>3
  <2> QED
    BY <1>4, <2>1, <2>2 DEF CommitsInOrder
<1>13. LedgerIsPast'
  <2>1. ASSUME NEW j \in 1..last, NEW p \in 1..commits'[j].upto
        PROVE  ledger[p].n <= commits'[j].made[ledger[p].key]
    <3>1. CASE j \in 1..Len(commits)
      BY <1>4, <2>1, <3>1 DEF TableInvariant, LedgerIsPast
    <3>2. CASE j = last
      <4>1. p \in 1..Len(ledger)
        BY <1>3, <1>4, <3>2
      <4>2. ledger[p] \in Known
        BY <1>2, <4>1, RangeParts DEF Known
      <4> QED
        BY <1>3, <1>4, <1>8, <3>2, <4>2 DEF RecordsTell
    <3> QED
      BY <1>4, <3>1, <3>2
  <2> QED
    BY <1>1, <1>4, <2>1 DEF LedgerIsPast
<1>14. /\ commits'[delivered] = commits[delivered]
       /\ \A i \in 1..delivered : commits'[i] = commits[i]
  BY <1>2, <1>4
<1>15. CopyCommitted' /\ CopyFollows'
  <2>1. \A k \in Key : LastWord(delivered, k)' = LastWord(delivered, k)
    BY <1>1, <1>14 DEF LastWord
  <2>2. CopyCommitted'
    BY <1>1, <1>14 DEF TableInvariant, CopyCommitted
  <2>3. CopyFollows'
    BY <1>1, <1>14, <2>1 DEF TableInvariant, CopyFollows
  <2> QED
    BY <2>2, <2>3
<1>16. ClosedForCause'
  <2> SUFFICES ASSUME closed PROVE delivered < last /\ Corrupt(delivered + 1)'
    BY <1>1, <1>4 DEF ClosedForCause
  <2>1. delivered < Len(commits) /\ Corrupt(delivered + 1)
    BY DEF TableInvariant, ClosedForCause
  <2>2. /\ delivered + 1 \in 1..Len(commits) /\ (delivered + 1) - 1 \in 1..Len(commits)
        /\ delivered < last
    BY <1>2, <2>1
  <2>3. commits'[delivered + 1] = commits[delivered + 1]
        /\ commits'[(delivered + 1) - 1] = commits[(delivered + 1) - 1]
    BY <1>4, <2>2
  <2>4. Added(delivered + 1)' = Added(delivered + 1)
    BY <1>1, <2>3 DEF Added
  <2>5. \A rec : /\ Resolves(delivered + 1, rec)' = Resolves(delivered + 1, rec)
                 /\ BornAndDied(delivered + 1, rec)' = BornAndDied(delivered + 1, rec)
    BY <1>1, <2>3, <2>4 DEF Resolves, HashAt, KeyAt, BornAndDied
  <2> QED
    BY <1>1, <2>1, <2>2, <2>4, <2>5 DEF Corrupt
<1> QED
  BY <1>5, <1>10, <1>11, <1>12, <1>13, <1>15, <1>16 DEF TableInvariant

-----------------------------------------------------------------------------
(* The feed                                                                *)

\* The records that a commit added to its parent's ledger.
LEMMA AddedParts ==
  ASSUME TypeOK, CommitsInOrder, NEW i \in 2..Len(commits)
  PROVE  LET from == commits[i - 1].upto
             added == Added(i)
         IN /\ i \in 1..Len(commits) /\ i - 1 \in 1..Len(commits) /\ from \in Nat
            /\ from <= commits[i].upto /\ commits[i].upto <= Len(ledger)
            /\ added \in Seq(ChangeRecord) /\ Len(added) = commits[i].upto - from
            /\ Len(added) \in Nat
            /\ \A n \in 1..Len(added) :
                 /\ added[n] = ledger[from + n] /\ from + n \in 1..commits[i].upto
                 /\ added[n] \in ChangeRecord /\ from + n \in 1..Len(ledger)
            /\ \A x : x \in ToSet(added) <=> \E n \in 1..Len(added) : x = added[n]
            /\ \A p \in 1..commits[i].upto : p > from => p - from \in 1..Len(added) /\ added[p - from] = ledger[p]
<1> DEFINE from == commits[i - 1].upto
           upto == commits[i].upto
           added == Added(i)
<1>1. Len(commits) \in Nat /\ i \in 1..Len(commits) /\ i - 1 \in 1..Len(commits) /\ i - 1 <= i
  BY TypeParts
<1>2. /\ from \in Nat /\ upto \in Nat /\ from <= upto /\ upto <= Len(ledger) /\ Len(ledger) \in Nat
  <2>1. from \in Nat /\ upto \in Nat /\ upto \in 0..Len(ledger) /\ Len(ledger) \in Nat
    BY <1>1, TypeParts
  <2>2. from <= upto
    BY <1>1 DEF CommitsInOrder
  <2> QED
    BY <2>1, <2>2
<1>3. added = SubSeq(ledger, from + 1, upto) /\ ledger \in Seq(ChangeRecord)
  BY DEF Added, TypeOK
<1> HIDE DEF from, upto, added
<1>4. /\ added \in Seq(ChangeRecord) /\ Len(added) = upto - from /\ upto - from \in Nat
      /\ \A n \in 1..(upto - from) : added[n] = ledger[from + n]
  <2>1. added = [n \in 1..(upto - (from + 1) + 1) |-> ledger[(from + 1) + n - 1]]
    BY <1>2, <1>3
  <2>2. upto - (from + 1) + 1 = upto - from /\ upto - from \in Nat
    BY <1>2
  <2>3. \A n \in 1..(upto - from) : (from + 1) + n - 1 = from + n /\ from + n \in 1..Len(ledger)
    BY <1>2
  <2>4. added = [n \in 1..(upto - from) |-> ledger[from + n]]
    BY <2>1, <2>2, <2>3
  <2>5. \A n \in 1..(upto - from) : ledger[from + n] \in ChangeRecord
    BY <1>3, <2>3
  <2> QED
    BY <2>2, <2>4, <2>5
<1>5. \A n \in 1..Len(added) : from + n \in 1..upto /\ from + n \in 1..Len(ledger)
  BY <1>2, <1>4
<1>6. \A x : x \in ToSet(added) <=> \E n \in 1..Len(added) : x = added[n]
  <2>1. DOMAIN added = 1..Len(added)
    BY <1>4
  <2> QED
    BY <2>1 DEF ToSet
<1>7. \A p \in 1..upto : p > from => p - from \in 1..Len(added) /\ added[p - from] = ledger[p]
  <2>1. SUFFICES ASSUME NEW p \in 1..upto, p > from
                 PROVE  p - from \in 1..Len(added) /\ added[p - from] = ledger[p]
    OBVIOUS
  <2>2. p - from \in 1..Len(added) /\ from + (p - from) = p
    BY <1>2, <1>4, <2>1
  <2> QED
    BY <1>4, <2>2
<1>8. \A n \in 1..Len(added) : added[n] \in ChangeRecord
  BY <1>4
<1> QED
  BY <1>1, <1>2, <1>4, <1>5, <1>6, <1>7, <1>8 DEF from, upto, added

\* What a record resolves to is a row of the commit or of its parent.
LEMMA EventParts ==
  ASSUME TypeOK, NEW i \in 2..Len(commits), NEW rec \in ChangeRecord, Emitted(i, rec)
  PROVE  /\ Event(i, rec).key = rec.key /\ Event(i, rec).op = rec.op
         /\ Event(i, rec).image \in Image
         /\ \/ Event(i, rec).image \in Range(commits[i].rows[rec.key])
            \/ Event(i, rec).image \in Range(commits[i - 1].rows[rec.key])
         /\ rec.image \in Range(commits[i].rows[rec.key]) => Event(i, rec).image = rec.image
<1>1. /\ i \in 1..Len(commits) /\ i - 1 \in 1..Len(commits) /\ rec.key \in Key /\ rec.image \in Image
  BY TypeParts DEF ChangeRecord
<1>2. commits[i].rows[rec.key] \in Seq(Image)
  BY <1>1, TypeParts
<1>3. /\ Event(i, rec).key = rec.key /\ Event(i, rec).op = rec.op
      /\ Event(i, rec).image = ImageOf(i, rec)
  BY DEF Event
<1>4. CASE HashAt(i, rec) \/ HashAt(i - 1, rec)
  <2>1. ImageOf(i, rec) = rec.image
    BY <1>4 DEF ImageOf
  <2> QED
    BY <1>1, <1>3, <1>4, <2>1 DEF HashAt
<1>5. CASE ~(HashAt(i, rec) \/ HashAt(i - 1, rec))
  <2>1. ImageOf(i, rec) = First(commits[i].rows[rec.key])
    BY <1>5 DEF ImageOf
  <2>2. First(commits[i].rows[rec.key]) # None
    BY <1>5 DEF Emitted, Resolves, KeyAt
  <2>3. /\ First(commits[i].rows[rec.key]) \in Image
        /\ First(commits[i].rows[rec.key]) \in Range(commits[i].rows[rec.key])
    BY <1>2, <2>2, RangeParts DEF First
  <2>4. rec.image \notin Range(commits[i].rows[rec.key])
    BY <1>5 DEF HashAt
  <2> QED
    BY <1>3, <2>1, <2>3, <2>4
<1> QED
  BY <1>4, <1>5

\* The function that Replay evaluates exists.
LEMMA ReplaySteps ==
  ASSUME NEW i, NEW tbl, Len(Added(i)) \in Nat
  PROVE  \E g : /\ g[0] = tbl
                /\ \A n \in 1..Len(Added(i)) :
                     g[n] = IF Emitted(i, Added(i)[n])
                              THEN ApplyEvent(g[n - 1], Event(i, Added(i)[n]))
                              ELSE g[n - 1]
                /\ Replay(i, tbl) = g[Len(Added(i))]
<1> DEFINE added == Added(i)
           next(t, n) == IF Emitted(i, added[n]) THEN ApplyEvent(t, Event(i, added[n])) ELSE t
           after[n \in 0..Len(added)] ==
             IF n = 0 THEN tbl
             ELSE IF Emitted(i, added[n]) THEN ApplyEvent(after[n - 1], Event(i, added[n]))
             ELSE after[n - 1]
           Is(g, m) == g = [n \in 0..m |->
             IF n = 0 THEN tbl
             ELSE IF Emitted(i, added[n]) THEN ApplyEvent(g[n - 1], Event(i, added[n]))
             ELSE g[n - 1]]
           Runs(g, m) == /\ g[0] = tbl /\ \A n \in 1..m : g[n] = next(g[n - 1], n)
                         /\ g = [n \in 0..m |-> g[n]]
           Bad == {m \in Nat : ~\E g : Is(g, m)}
<1>1. \A g : \A m \in Nat : Is(g, m) => Runs(g, m)
  <2>1. SUFFICES ASSUME NEW g, NEW m \in Nat, Is(g, m) PROVE Runs(g, m)
    BY DEF Is, Runs
  <2>2. \A n \in 0..m : g[n] = IF n = 0 THEN tbl ELSE next(g[n - 1], n)
    BY <2>1
  <2>3. 0 \in 0..m /\ \A n \in 1..m : n \in 0..m /\ n # 0
    OBVIOUS
  <2>4. g = [n \in 0..m |-> g[n]]
    BY <2>1
  <2> HIDE DEF next, added, Is
  <2> QED
    BY <2>2, <2>3, <2>4
<1>2. \A g : \A m \in Nat : Runs(g, m) => Is(g, m)
  <2>1. SUFFICES ASSUME NEW g, NEW m \in Nat, Runs(g, m) PROVE Is(g, m)
    BY DEF Is, Runs
  <2>2. \A n \in 0..m : g[n] = IF n = 0 THEN tbl ELSE next(g[n - 1], n)
    <3>1. \A n \in 0..m : n = 0 \/ n \in 1..m
      OBVIOUS
    <3> HIDE DEF next
    <3> QED
      BY <2>1, <3>1
  <2>3. g = [n \in 0..m |-> g[n]]
    BY <2>1
  <2>4. g = [n \in 0..m |-> IF n = 0 THEN tbl ELSE next(g[n - 1], n)]
    <3> HIDE DEF next
    <3> QED
      BY <2>2, <2>3
  <2> QED
    BY <2>4
<1> HIDE DEF after, Is, next, added
<1>3. Bad = {}
  <2> SUFFICES ASSUME Bad # {} PROVE FALSE
    OBVIOUS
  <2>1. PICK m \in Bad : \A d \in Bad : m <= d
    <3> HIDE DEF Bad
    <3>1. Bad \in SUBSET Nat
      BY DEF Bad
    <3> QED
      BY <3>1, SmallestExists
  <2>2. m \in Nat /\ ~\E g : Runs(g, m)
    BY <1>2, <2>1
  <2>3. m # 0
    <3>1. Runs([n \in 0..0 |-> tbl], 0)
      OBVIOUS
    <3> QED
      BY <2>2, <3>1
  <2>4. m - 1 \in Nat /\ m - 1 \notin Bad
    BY <2>1, <2>2, <2>3
  <2>5. PICK g : Runs(g, m - 1)
    BY <1>1, <2>4
  <2> DEFINE h == [n \in 0..m |-> IF n = m THEN next(g[m - 1], m) ELSE g[n]]
  <2>6. Runs(h, m)
    <3>1. /\ h[m] = next(g[m - 1], m) /\ \A n \in 0..m - 1 : h[n] = g[n]
          /\ h = [n \in 0..m |-> h[n]]
      BY <2>2
    <3> HIDE DEF h
    <3>2. h[0] = tbl
      <4>1. 0 \in 0..m - 1 /\ g[0] = tbl
        BY <2>2, <2>3, <2>5
      <4> QED
        BY <3>1, <4>1
    <3>3. \A n \in 1..m : h[n] = next(h[n - 1], n)
      <4>1. TAKE n \in 1..m
      <4>2. n - 1 \in 0..m - 1 /\ (n = m \/ n \in 1..m - 1) /\ (n \in 1..m - 1 => n \in 0..m - 1)
        BY <2>2
      <4>3. h[n - 1] = g[n - 1]
        BY <3>1, <4>2
      <4> QED
        BY <2>5, <3>1, <4>2, <4>3
    <3> QED
      BY <3>1, <3>2, <3>3
  <2> QED
    BY <2>2, <2>6
<1>4. \E g : Is(g, Len(added))
  <2>1. Len(added) \in Nat
    BY DEF added
  <2>2. Len(added) \notin Bad
    BY <1>3
  <2> QED
    BY <2>1, <2>2
<1>5. Is(after, Len(added))
  <2>1. after = CHOOSE g : Is(g, Len(added))
    BY DEF after, Is
  <2> QED
    BY <1>4, <2>1
<1>6. Replay(i, tbl) = after[Len(added)]
  BY DEF Replay, after, added
<1>7. Runs(after, Len(added))
  BY <1>1, <1>5 DEF added
<1> QED
  BY <1>6, <1>7 DEF next, added

\* What a consumer holds when it has applied the events of a commit.
Told(i, tbl, k, x) ==
  \/ x = None \/ x = tbl[k]
  \/ x \in Range(commits[i].rows[k]) \/ x \in Range(commits[i - 1].rows[k])

LEMMA ReplayParts ==
  ASSUME TypeOK, CommitsInOrder, NEW i \in 2..Len(commits),
         NEW tbl \in [Key -> Image \cup {None}]
  PROVE  LET added == Added(i)
             new == Replay(i, tbl)
         IN /\ new \in [Key -> Image \cup {None}]
            /\ \A k \in Key : Told(i, tbl, k, new[k])
            /\ \A k \in Key :
                 (\A n \in 1..Len(added) : added[n].key # k) => new[k] = tbl[k]
            /\ \A p \in 1..Len(added) :
                 /\ added[p].op # "delete"
                 /\ added[p].image \in Range(commits[i].rows[added[p].key])
                 /\ \A n \in 1..Len(added) : n > p => added[n].key # added[p].key
                 => new[added[p].key] = added[p].image
<1> DEFINE added == Added(i)
           len == Len(added)
           new == Replay(i, tbl)
           T == [Key -> Image \cup {None}]
<1>1. /\ len \in Nat /\ \A n \in 1..len : added[n] \in ChangeRecord
  BY AddedParts
<1>2. PICK g : /\ g[0] = tbl
               /\ \A n \in 1..len : g[n] = IF Emitted(i, added[n])
                                           THEN ApplyEvent(g[n - 1], Event(i, added[n]))
                                           ELSE g[n - 1]
               /\ new = g[len]
  BY <1>1, ReplaySteps
<1> HIDE DEF added, len, new
<1>3. ASSUME NEW n \in 1..len, g[n - 1] \in T
      PROVE  /\ g[n] \in T
             /\ \A k \in Key : k # added[n].key => g[n][k] = g[n - 1][k]
             /\ \A k \in Key : g[n][k] = g[n - 1][k] \/ Told(i, tbl, k, g[n][k])
             /\ /\ added[n].op # "delete"
                /\ added[n].image \in Range(commits[i].rows[added[n].key])
                => g[n][added[n].key] = added[n].image
  <2>1. added[n] \in ChangeRecord /\ added[n].key \in Key
    BY <1>1 DEF ChangeRecord
  <2>2. CASE Emitted(i, added[n])
    <3> DEFINE e == Event(i, added[n])
               x == IF added[n].op = "delete" THEN None ELSE e.image
    <3>1. /\ e.key = added[n].key /\ e.op = added[n].op /\ e.image \in Image
          /\ \/ e.image \in Range(commits[i].rows[added[n].key])
             \/ e.image \in Range(commits[i - 1].rows[added[n].key])
          /\ added[n].image \in Range(commits[i].rows[added[n].key]) => e.image = added[n].image
      BY <2>1, <2>2, EventParts
    <3> HIDE DEF e, x
    <3>2. g[n] = [g[n - 1] EXCEPT ![added[n].key] = x]
      <4>1. g[n] = ApplyEvent(g[n - 1], e)
        BY <1>2, <2>2 DEF e
      <4> QED
        BY <3>1, <4>1 DEF ApplyEvent, x
    <3>3. x \in Image \cup {None} /\ Told(i, tbl, added[n].key, x)
      BY <3>1 DEF Told, x
    <3>4. g[n] \in T /\ g[n][added[n].key] = x
      BY <1>3, <2>1, <3>2, <3>3
    <3>5. \A k \in Key : k # added[n].key => g[n][k] = g[n - 1][k]
      BY <1>3, <2>1, <3>2
    <3> QED
      BY <3>1, <3>3, <3>4, <3>5 DEF x
  <2>3. CASE ~Emitted(i, added[n])
    <3>1. g[n] = g[n - 1]
      BY <1>2, <2>3
    <3>2. added[n].image \notin Range(commits[i].rows[added[n].key])
      BY <2>3 DEF Emitted, Resolves, HashAt
    <3> QED
      BY <1>3, <3>1, <3>2
  <2> QED
    BY <2>2, <2>3
<1>4. \A n \in 0..len : g[n] \in T /\ \A k \in Key : Told(i, tbl, k, g[n][k])
  <2> DEFINE Good(n) == g[n] \in T /\ \A k \in Key : Told(i, tbl, k, g[n][k])
             Bad == {n \in 0..len : ~Good(n)}
  <2>1. Good(0)
    BY <1>2 DEF Told
  <2>2. ASSUME NEW n \in 1..len, Good(n - 1) PROVE Good(n)
    <3>1. g[n - 1] \in T /\ \A k \in Key : Told(i, tbl, k, g[n - 1][k])
      BY <2>2
    <3>2. g[n] \in T /\ \A k \in Key : g[n][k] = g[n - 1][k] \/ Told(i, tbl, k, g[n][k])
      BY <1>3, <3>1
    <3> QED
      BY <3>1, <3>2
  <2> HIDE DEF Good
  <2>3. Bad = {}
    <3> SUFFICES ASSUME Bad # {} PROVE FALSE
      OBVIOUS
    <3>1. PICK m \in Bad : \A d \in Bad : m <= d
      <4> HIDE DEF Bad
      <4>1. Bad \in SUBSET Nat
        BY <1>1 DEF Bad
      <4> QED
        BY <4>1, SmallestExists
    <3>2. m \in 1..len /\ m - 1 \in 0..len
      BY <1>1, <2>1, <3>1
    <3>3. m - 1 \notin Bad
      BY <3>1, <3>2
    <3> QED
      BY <2>2, <3>1, <3>2, <3>3
  <2> QED
    BY <2>3 DEF Good
<1>5. ASSUME NEW k \in Key, NEW p \in 0..len,
             \A n \in 1..len : n > p => added[n].key # k
      PROVE  g[len][k] = g[p][k]
  <2> DEFINE Bad == {n \in p..len : g[n][k] # g[p][k]}
  <2>1. Bad = {}
    <3> SUFFICES ASSUME Bad # {} PROVE FALSE
      OBVIOUS
    <3>1. PICK m \in Bad : \A d \in Bad : m <= d
      <4> HIDE DEF Bad
      <4>1. Bad \in SUBSET Nat
        BY <1>1 DEF Bad
      <4> QED
        BY <4>1, SmallestExists
    <3>2. m \in 1..len /\ m - 1 \in p..len /\ m - 1 \in 0..len /\ m > p
      BY <1>1, <3>1
    <3>3. m - 1 \notin Bad
      BY <3>1, <3>2
    <3>4. g[m][k] = g[m - 1][k]
      BY <1>3, <1>4, <1>5, <3>2
    <3> QED
      BY <3>1, <3>2, <3>3, <3>4
  <2>2. len \in p..len
    BY <1>1
  <2> QED
    BY <2>1, <2>2
<1>6. len \in 0..len /\ 0 \in 0..len
  BY <1>1
<1>7. new \in T /\ \A k \in Key : Told(i, tbl, k, new[k])
  BY <1>2, <1>4, <1>6
<1>8. \A k \in Key : (\A n \in 1..len : added[n].key # k) => new[k] = tbl[k]
  BY <1>2, <1>5, <1>6
<1>9. ASSUME NEW p \in 1..len, added[p].op # "delete",
             added[p].image \in Range(commits[i].rows[added[p].key]),
             \A n \in 1..len : n > p => added[n].key # added[p].key
      PROVE  new[added[p].key] = added[p].image
  <2>1. p \in 0..len /\ p - 1 \in 0..len /\ added[p].key \in Key
    BY <1>1 DEF ChangeRecord
  <2>2. g[len][added[p].key] = g[p][added[p].key]
    BY <1>5, <1>9, <2>1
  <2>3. g[p - 1] \in T
    BY <1>4, <2>1
  <2>4. g[p][added[p].key] = added[p].image
    BY <1>3, <1>9, <2>3
  <2> QED
    BY <1>2, <2>2, <2>4
<1> QED
  BY <1>7, <1>8, <1>9 DEF added, len, new

\* The last word on a key is that of its last record.
LEMMA LastWordIs ==
  ASSUME TypeOK, NEW i \in 1..Len(commits), NEW k \in Key
  PROVE  \/ /\ LastWord(i, k) = 0
            /\ \A p \in 1..commits[i].upto : ledger[p].key # k
         \/ \E p \in 1..commits[i].upto :
              /\ ledger[p].key = k /\ LastWord(i, k) = ledger[p].n
              /\ \A q \in 1..commits[i].upto : ledger[q].key = k => q <= p
<1> DEFINE upto == commits[i].upto
           places == {p \in 1..upto : ledger[p].key = k}
           last == CHOOSE p \in places : \A q \in places : q <= p
<1>1. LastWord(i, k) = IF places = {} THEN 0 ELSE ledger[last].n
  BY DEF LastWord
<1>2. upto \in Nat
  BY TypeParts
<1>3. CASE places = {}
  BY <1>1, <1>3
<1>4. CASE places # {}
  <2>1. \E p \in places : \A q \in places : q <= p
    <3>1. places \in SUBSET (1..upto)
      OBVIOUS
    <3> HIDE DEF places, upto
    <3> QED
      BY <1>2, <1>4, <3>1, LargestExists
  <2>2. last \in places /\ \A q \in places : q <= last
    <3> HIDE DEF places
    <3> QED
      BY <2>1
  <2>3. LastWord(i, k) = ledger[last].n
    BY <1>1, <1>4
  <2> HIDE DEF last
  <2> QED
    BY <2>2, <2>3
<1> QED
  BY <1>3, <1>4

\* The delivery of a commit leaves the copy with the last word of its records.
LEMMA DeliveredFollows ==
  ASSUME TableInvariant, NEW i \in 2..Len(commits), delivered = i - 1,
         NEW k \in Key, NEW v \in Image, Range(commits[i].rows[k]) = {v},
         LastWord(i, k) = commits[i].made[k]
  PROVE  Replay(i, copy)[k] = v
<1> DEFINE added == Added(i)
           from == commits[i - 1].upto
           upto == commits[i].upto
           lines == commits[i].rows[k]
           new == Replay(i, copy)
<1>1. /\ TypeOK /\ CommitsInOrder /\ LedgerIsPast /\ CopyFollows
      /\ CommitsTell(rows, mutations, Known) /\ copy \in [Key -> Image \cup {None}]
  BY DEF TableInvariant, Fits, TypeOK
<1>2. /\ i \in 1..Len(commits) /\ i - 1 \in 1..Len(commits) /\ i - 1 <= i
      /\ from \in Nat /\ upto \in Nat
      /\ from <= upto /\ Len(added) \in Nat
      /\ \A n \in 1..Len(added) : /\ added[n] = ledger[from + n] /\ from + n \in 1..upto
                                  /\ added[n] \in ChangeRecord
      /\ \A p \in 1..upto : p > from => p - from \in 1..Len(added) /\ added[p - from] = ledger[p]
      /\ upto <= Len(ledger)
  <2>1. i - 1 <= i
    OBVIOUS
  <2>2. upto \in Nat
    BY <1>1, TypeParts
  <2> QED
    BY <1>1, <2>1, <2>2, AddedParts
<1>3. /\ lines \in Seq(Image) /\ commits[i].made[k] \in Nat /\ commits[i - 1].made[k] \in Nat
      /\ commits[i - 1].made[k] <= commits[i].made[k]
      /\ commits[i].made[k] = commits[i - 1].made[k] => commits[i - 1].rows[k] = lines
      /\ commits[i].made[k] = 0 => lines = <<>>
  BY <1>1, <1>2, TypeParts DEF CommitsInOrder
<1>4. /\ \A k1 \in Key : (\A n \in 1..Len(added) : added[n].key # k1) => new[k1] = copy[k1]
      /\ \A p \in 1..Len(added) :
           /\ added[p].op # "delete"
           /\ added[p].image \in Range(commits[i].rows[added[p].key])
           /\ \A n \in 1..Len(added) : n > p => added[n].key # added[p].key
           => new[added[p].key] = added[p].image
  BY <1>1, ReplayParts
<1> HIDE DEF added, from, upto, new, lines
<1>5. lines # <<>> /\ Range(lines) = {v}
  <2>1. Range(<<>>) = {}
    BY DEF Range
  <2> QED
    BY <2>1 DEF lines
<1>6. PICK p \in 1..upto : /\ ledger[p].key = k /\ LastWord(i, k) = ledger[p].n
                           /\ \A q \in 1..upto : ledger[q].key = k => q <= p
  <2>1. LastWord(i, k) # 0
    BY <1>3, <1>5
  <2> QED
    BY <1>1, <1>2, <2>1, LastWordIs DEF upto
<1>7. p \in 1..Len(ledger) /\ ledger[p] \in ChangeRecord /\ ledger[p].n = commits[i].made[k]
  <2>1. p \in 1..Len(ledger)
    BY <1>1, <1>2, TypeParts
  <2> QED
    BY <1>1, <1>6, <2>1, TypeParts
<1>8. CASE p > from
  <2> DEFINE n == p - from
  <2>1. n \in 1..Len(added) /\ added[n] = ledger[p] /\ added[n].key = k
    BY <1>2, <1>6, <1>8
  <2>2. ledger[p] \in Known
    <3>1. ledger \in Seq(ChangeRecord)
      BY <1>1 DEF TypeOK
    <3> QED
      BY <1>7, <3>1, RangeParts DEF Known
  <2>3. Leaves(ledger[p], lines)
    BY <1>1, <1>2, <1>6, <1>7, <2>2 DEF CommitsTell, lines
  <2>4. ledger[p].op # "delete" /\ ledger[p].image = v
    BY <1>5, <2>3 DEF Leaves
  <2>5. \A m \in 1..Len(added) : m > n => added[m].key # k
    <3>1. TAKE m \in 1..Len(added)
    <3>2. HAVE m > n
    <3>3. from + m \in 1..upto /\ from + m > p /\ added[m] = ledger[from + m]
      BY <1>2, <3>2
    <3> QED
      BY <1>6, <3>3
  <2>6. added[n].image \in Range(commits[i].rows[added[n].key])
    BY <1>5, <2>1, <2>4 DEF lines
  <2> HIDE DEF n
  <2>7. new[added[n].key] = added[n].image
    BY <1>4, <2>1, <2>4, <2>5, <2>6
  <2> QED
    BY <2>1, <2>4, <2>7 DEF new
<1>9. CASE p <= from
  <2>1. \A n \in 1..Len(added) : added[n].key # k
    <3>1. TAKE n \in 1..Len(added)
    <3>2. from + n \in 1..upto /\ from + n > p /\ added[n] = ledger[from + n]
      BY <1>2, <1>9
    <3> QED
      BY <1>6, <3>2
  <2>2. p \in 1..from
    BY <1>2, <1>9
  <2>3. commits[i - 1].made[k] = commits[i].made[k]
    <3>1. ledger[p].n <= commits[i - 1].made[k]
      BY <1>1, <1>2, <1>6, <2>2 DEF LedgerIsPast, from
    <3> QED
      BY <1>3, <1>7, <3>1
  <2>4. LastWord(i - 1, k) = ledger[p].n
    <3>1. \A q \in 1..from : q \in 1..upto
      BY <1>2
    <3>2. PICK q \in 1..from : /\ ledger[q].key = k /\ LastWord(i - 1, k) = ledger[q].n
                               /\ p <= q
      <4>1. ~\A q \in 1..from : ledger[q].key # k
        BY <1>6, <2>2
      <4>2. \E q \in 1..from : /\ ledger[q].key = k /\ LastWord(i - 1, k) = ledger[q].n
                               /\ \A s \in 1..from : ledger[s].key = k => s <= q
        BY <1>1, <1>2, <4>1, LastWordIs DEF from
      <4> QED
        BY <1>6, <2>2, <4>2
    <3>3. q <= p
      BY <1>6, <3>1, <3>2
    <3> QED
      BY <1>2, <3>2, <3>3
  <2>5. copy[k] = v
    BY <1>1, <1>3, <1>5, <1>7, <2>3, <2>4 DEF CopyFollows
  <2> QED
    BY <1>4, <2>1, <2>5 DEF new
<1> QED
  BY <1>2, <1>8, <1>9

\* A commit is delivered whole, or the feed closes.
LEMMA DeliverStep ==
  ASSUME TableInvariant, Deliver
  PROVE  TableInvariant'
<1>1. /\ rows' = rows /\ mutations' = mutations /\ reposted' = reposted /\ ledger' = ledger
      /\ pending' = pending /\ lost' = lost /\ commits' = commits
      /\ ~closed /\ delivered < Len(commits)
  BY DEF Deliver, table
<1>2. /\ TypeOK /\ copy \in [Key -> Image \cup {None}]
      /\ Len(commits) \in Nat /\ delivered \in 1..Len(commits)
  BY TypeParts DEF TableInvariant, TypeOK
<1>3. Fits(rows, mutations, Known, reposted)'
  <2>1. Known' = Known
    BY <1>1 DEF Known
  <2> QED
    BY <1>1, <2>1 DEF TableInvariant, Fits, RecordsTell, CommitsTell, SinglesFollow
<1>4. RecordsOnce' /\ CommitsInOrder' /\ LedgerIsPast'
  BY <1>1 DEF TableInvariant, RecordsOnce, CommitsInOrder, LedgerIsPast
<1>5. CASE Corrupt(delivered + 1)
  <2>1. closed' = TRUE /\ copy' = copy /\ delivered' = delivered
    BY <1>5 DEF Deliver
  <2>2. TypeOK' /\ CopyCommitted'
    BY <1>1, <1>2, <2>1 DEF TableInvariant, TypeOK, CopyCommitted
  <2>3. CopyFollows'
    <3>1. \A k \in Key : LastWord(delivered, k)' = LastWord(delivered, k)
      BY <1>1, <2>1 DEF LastWord
    <3> QED
      BY <1>1, <2>1, <3>1 DEF TableInvariant, CopyFollows
  <2>4. ClosedForCause'
    BY <1>1, <1>5, <2>1
       DEF ClosedForCause, Corrupt, Added, Resolves, BornAndDied, HashAt, KeyAt
  <2> QED
    BY <1>3, <1>4, <2>2, <2>3, <2>4 DEF TableInvariant
<1>6. CASE ~Corrupt(delivered + 1)
  <2> DEFINE i == delivered + 1
  <2>1. copy' = Replay(i, copy) /\ delivered' = i /\ closed' = closed
    BY <1>6 DEF Deliver
  <2>2. i \in 2..Len(commits) /\ i \in 1..Len(commits) /\ delivered = i - 1 /\ i - 1 \in 1..Len(commits)
    BY <1>1, <1>2
  <2> HIDE DEF i
  <2>3. CommitsInOrder
    BY DEF TableInvariant
  <2>4. /\ copy' \in [Key -> Image \cup {None}]
        /\ \A k \in Key : Told(i, copy, k, copy'[k])
    BY <1>2, <2>1, <2>2, <2>3, ReplayParts
  <2>5. TypeOK'
    BY <1>1, <1>2, <2>1, <2>2, <2>4 DEF TypeOK
  <2>6. CopyCommitted'
    <3>1. SUFFICES ASSUME NEW k \in Key, copy'[k] # None
                   PROVE  \E j \in 1..i : copy'[k] \in Range(commits[j].rows[k])
      BY <1>1, <2>1 DEF CopyCommitted
    <3>2. i \in 1..i /\ i - 1 \in 1..i /\ \A j \in 1..delivered : j \in 1..i
      BY <1>2, <2>2
    <3>3. CASE copy'[k] = copy[k]
      BY <3>1, <3>2, <3>3 DEF TableInvariant, CopyCommitted
    <3>4. CASE copy'[k] # copy[k]
      BY <2>4, <3>1, <3>2, <3>4 DEF Told
    <3> QED
      BY <3>3, <3>4
  <2>7. CopyFollows'
    <3>1. SUFFICES ASSUME NEW k \in Key, NEW v \in Image, Range(commits[i].rows[k]) = {v},
                          LastWord(i, k) = commits[i].made[k]
                   PROVE  copy'[k] = v
      <4>1. \A k \in Key : LastWord(delivered, k)' = LastWord(i, k)
        BY <1>1, <2>1 DEF LastWord
      <4> QED
        BY <1>1, <2>1, <4>1 DEF CopyFollows
    <3> QED
      BY <2>1, <2>2, <3>1, DeliveredFollows
  <2>8. ClosedForCause'
    BY <1>1, <2>1 DEF ClosedForCause
  <2> QED
    BY <1>3, <1>4, <2>5, <2>6, <2>7, <2>8 DEF TableInvariant
<1> QED
  BY <1>5, <1>6

\* Before the first row, and when nothing is done.
LEMMA TableStarts ==
  ASSUME Init
  PROVE  TableInvariant
<1> DEFINE first == [rows |-> NoRows, upto |-> 0, made |-> NoMutations]
<1>1. /\ rows = NoRows /\ ledger = <<>> /\ pending = [r \in Request |-> <<>>] /\ lost = 0
      /\ commits = <<first>> /\ copy = [k \in Key |-> None] /\ delivered = 1 /\ closed = FALSE
      /\ mutations = NoMutations /\ reposted = {}
  BY DEF Init
<1>2. /\ \A k \in Key : NoRows[k] = <<>> /\ NoMutations[k] = 0
      /\ NoRows \in Table /\ Range(<<>>) = {}
  BY DEF NoRows, NoMutations, Table, Range
<1>3. NoMutations \in Counts /\ lost \in 0..MaxLost
  BY <1>1, TableChangesAssumption DEF TableChangesAssumption, NoMutations, Counts
<1>4. /\ Len(commits) = 1 /\ Len(ledger) = 0 /\ \A j \in 1..Len(commits) : commits[j] = first
      /\ \A j \in 1..Len(commits) : j = 1
      /\ \A r \in Request : pending[r] = <<>> /\ Len(pending[r]) = 0
  BY <1>1
<1>5. TypeOK
  <2>1. first \in [rows : Table, upto : 0..Len(ledger), made : Counts]
    BY <1>2, <1>3, <1>4
  <2> HIDE DEF first
  <2>2. commits \in Seq([rows : Table, upto : 0..Len(ledger), made : Counts])
    BY <1>1, <2>1
  <2>3. /\ rows \in Table /\ reposted \subseteq Key /\ mutations \in Counts /\ closed \in BOOLEAN
    BY <1>1, <1>2, <1>3
  <2>4. copy \in [Key -> Image \cup {None}]
    BY <1>1
  <2>5. ledger \in Seq(ChangeRecord)
    <3>1. <<>> \in Seq(ChangeRecord)
      OBVIOUS
    <3> QED
      BY <1>1, <3>1
  <2>6. pending \in [Request -> Seq(ChangeRecord)]
    BY <1>1
  <2>7. delivered \in 1..Len(commits)
    BY <1>1, <1>4
  <2> QED
    BY <1>3, <2>2, <2>3, <2>4, <2>5, <2>6, <2>7 DEF TypeOK
<1>6. Known = {}
  BY <1>1, <1>2, <1>4 DEF Known
<1>7. Fits(rows, mutations, Known, reposted)
  <2>1. \A k \in Key : rows[k] = <<>> /\ Len(rows[k]) <= 1 /\ mutations[k] = 0
    BY <1>1, <1>2
  <2>2. \A k \in Key : first.made[k] = 0 /\ first.rows[k] = <<>>
    BY <1>2
  <2> HIDE DEF first
  <2> QED
    BY <1>4, <1>6, <2>1, <2>2 DEF Fits, RecordsTell, CommitsTell, SinglesFollow
<1>8. RecordsOnce
  BY <1>4 DEF RecordsOnce, Once, Apart
<1>9. CommitsInOrder /\ LedgerIsPast
  <2>1. first.upto = 0 /\ \A k \in Key : first.made[k] = 0 /\ first.rows[k] = <<>>
    BY <1>2
  <2> HIDE DEF first
  <2> QED
    BY <1>4, <2>1 DEF CommitsInOrder, LedgerIsPast
<1>10. CopyCommitted /\ CopyFollows /\ ClosedForCause
  <2>1. \A k \in Key : first.rows[k] = <<>>
    BY <1>2
  <2>2. \A k \in Key : copy[k] = None
    BY <1>1
  <2>3. commits[delivered] = first
    BY <1>1, <1>4
  <2> HIDE DEF first
  <2> QED
    BY <1>1, <1>2, <2>1, <2>2, <2>3 DEF CopyCommitted, CopyFollows, ClosedForCause
<1> QED
  BY <1>5, <1>7, <1>8, <1>9, <1>10 DEF TableInvariant

LEMMA TableRests ==
  ASSUME TableInvariant, UNCHANGED vars
  PROVE  TableInvariant'
<1>1. /\ rows' = rows /\ mutations' = mutations /\ reposted' = reposted /\ ledger' = ledger
      /\ pending' = pending /\ lost' = lost /\ commits' = commits /\ copy' = copy
      /\ delivered' = delivered /\ closed' = closed
  BY DEF vars, table
<1>2. TypeOK' /\ Known' = Known
  BY <1>1 DEF TableInvariant, TypeOK, Known
<1>3. Fits(rows, mutations, Known, reposted)'
  BY <1>1, <1>2 DEF TableInvariant, Fits, RecordsTell, CommitsTell, SinglesFollow
<1>4. RecordsOnce' /\ CommitsInOrder' /\ LedgerIsPast' /\ CopyCommitted'
  BY <1>1 DEF TableInvariant, RecordsOnce, CommitsInOrder, LedgerIsPast, CopyCommitted
<1>5. CopyFollows'
  BY <1>1 DEF TableInvariant, CopyFollows, LastWord
<1>6. ClosedForCause'
  BY <1>1
     DEF TableInvariant, ClosedForCause, Corrupt, Added, Resolves, BornAndDied, HashAt, KeyAt
<1> QED
  BY <1>2, <1>3, <1>4, <1>5, <1>6 DEF TableInvariant

\* Every action of the program keeps the invariant.
THEOREM TableInvariantHolds == Spec => []TableInvariant
<1>1. ASSUME TableInvariant, [Next]_vars PROVE TableInvariant'
  <2>1. CASE \E r \in Request, k \in Key, v \in Image :
               InsertTableRows(r, k, v) \/ UpdateTableRows(r, k, v) \/ UpsertTableRow(r, k, v)
    BY <1>1, <2>1, VerbStep
  <2>2. CASE \E r \in Request, k \in Key : DeleteTableRows(r, k)
    BY <1>1, <2>2, VerbStep
  <2>3. CASE \E r \in Request, len \in 1..MaxEnvelope : \E acts \in [1..len -> Action] :
               RunTableTransaction(r, acts)
    BY <1>1, <2>3, VerbStep
  <2>4. CASE \E k \in Key, v \in Image : InsertThroughWriter(k, v)
    BY <1>1, <2>4, WriterStep
  <2>5. CASE \E r \in Request : RecordMutation(r) \/ RecordFails(r)
    BY <1>1, <2>5, RecordStep, FailStep
  <2>6. CASE Commit
    BY <1>1, <2>6, CommitStep
  <2>7. CASE Deliver
    BY <1>1, <2>7, DeliverStep
  <2>8. CASE UNCHANGED vars
    BY <1>1, <2>8, TableRests
  <2> QED
    BY <1>1, <2>1, <2>2, <2>3, <2>4, <2>5, <2>6, <2>7, <2>8 DEF Next
<1> QED
  BY <1>1, TableStarts, PTL DEF Spec

\* The records of a key that parts with none of them are its mutations, each.
LEMMA AllRecorded ==
  ASSUME TableInvariant, NEW j \in 1..Len(commits), NEW k \in Key,
         Cardinality(Recorded(j, k)) = commits[j].made[k]
  PROVE  \A n \in 1..commits[j].made[k] :
           \E p \in 1..commits[j].upto : ledger[p].key = k /\ ledger[p].n = n
<1> DEFINE upto == commits[j].upto
           made == commits[j].made[k]
           R == Recorded(j, k)
           f == [rec \in R |-> rec.n]
<1>1. /\ TypeOK /\ LedgerIsPast /\ Once(ledger) /\ ledger \in Seq(ChangeRecord)
      /\ made \in Nat /\ upto \in Nat /\ upto <= Len(ledger) /\ Len(ledger) \in Nat
  BY TypeParts DEF TableInvariant, RecordsOnce, TypeOK
<1>2. \A rec : rec \in R <=> \E p \in 1..upto : rec = ledger[p] /\ ledger[p].key = k
  <2>1. SubSeq(ledger, 1, upto) = [p \in 1..upto |-> ledger[p]]
    BY <1>1
  <2>2. \A rec : rec \in ToSet(SubSeq(ledger, 1, upto)) <=> \E p \in 1..upto : rec = ledger[p]
    BY <2>1 DEF ToSet
  <2> QED
    BY <2>2 DEF Recorded
<1>3. \A p \in 1..upto : p \in 1..Len(ledger) /\ ledger[p] \in ChangeRecord
                         /\ ledger[p].n <= commits[j].made[ledger[p].key]
  BY <1>1, TypeParts DEF LedgerIsPast
<1> HIDE DEF upto, made, R
<1>4. \A rec \in R : rec.n \in 1..made
  <2>1. TAKE rec \in R
  <2>2. PICK p \in 1..upto : rec = ledger[p] /\ ledger[p].key = k
    BY <1>2
  <2>3. rec.n \in 1..MaxMutations /\ rec.n <= made
    BY <1>3, <2>2 DEF ChangeRecord, made
  <2> QED
    BY <1>1, <2>3, TypeParts
<1>5. \A p, q \in R : p.n = q.n => p = q
  BY <1>1, <1>2, <1>3 DEF Once, Same
<1>6. f \in Injection(R, 1..made)
  BY <1>4, <1>5 DEF Injection, IsInjective
<1>7. IsFiniteSet(1..made) /\ Cardinality(1..made) = made
  <2>1. 1 \in Int /\ made \in Int
    BY <1>1
  <2>2. /\ IsFiniteSet(1..made)
        /\ Cardinality(1..made) = IF 1 > made THEN 0 ELSE made - 1 + 1
    BY <2>1, FS_Interval
  <2> QED
    BY <1>1, <2>2
<1>8. Cardinality(R) = Cardinality(1..made)
  BY <1>7 DEF R, made
<1>9. f \in Surjection(R, 1..made)
  <2> HIDE DEF f
  <2> QED
    BY <1>6, <1>7, <1>8, FS_Injection
<1>10. \A n \in 1..made : \E rec \in R : rec.n = n
  BY <1>9 DEF Surjection
<1> QED
  BY <1>2, <1>10 DEF upto, made

\* A record of a commit that is calm for its key resolves, or the commit
\* records both the birth and the death of its image.
LEMMA CalmRecord ==
  ASSUME TableInvariant, NEW i \in 2..Len(commits), NEW rec \in ToSet(Added(i)),
         Calm(i, rec.key)
  PROVE  Resolves(i, rec) \/ BornAndDied(i, rec)
<1> DEFINE k == rec.key
           from == commits[i - 1].upto
           upto == commits[i].upto
           before == commits[i - 1].made[k]
           made == commits[i].made[k]
           old == commits[i - 1].rows[k]
           lines == commits[i].rows[k]
           added == Added(i)
<1>1. /\ TypeOK /\ CommitsInOrder /\ LedgerIsPast /\ Once(ledger) /\ ledger \in Seq(ChangeRecord)
      /\ CommitsTell(rows, mutations, Known) /\ SinglesFollow(rows, Known, reposted)
  BY DEF TableInvariant, RecordsOnce, TypeOK, Fits
<1>2. /\ i \in 1..Len(commits) /\ i - 1 \in 1..Len(commits)
      /\ from \in Nat /\ from <= upto /\ upto \in Nat /\ upto <= Len(ledger) /\ Len(ledger) \in Nat
      /\ \A n \in 1..Len(added) : /\ added[n] = ledger[from + n] /\ from + n \in 1..upto
                                  /\ from + n \in 1..Len(ledger) /\ added[n] \in ChangeRecord
      /\ \A x : x \in ToSet(added) <=> \E n \in 1..Len(added) : x = added[n]
      /\ \A p \in 1..upto : p > from => p - from \in 1..Len(added) /\ added[p - from] = ledger[p]
      /\ Len(added) \in Nat
  <2>1. upto \in Nat /\ Len(ledger) \in Nat
    BY <1>1, TypeParts
  <2> QED
    BY <1>1, <2>1, AddedParts
<1>3. PICK at \in 1..Len(added) : rec = added[at]
  BY <1>2
<1>4. /\ rec \in ChangeRecord /\ k \in Key /\ rec.n \in Nat /\ rec.n >= 1
      /\ rec = ledger[from + at] /\ from + at \in 1..upto /\ from + at \in 1..Len(ledger)
      /\ from + at > from
  <2>1. rec \in ChangeRecord /\ rec = ledger[from + at] /\ from + at \in 1..upto
        /\ from + at \in 1..Len(ledger) /\ from + at > from
    BY <1>2, <1>3
  <2> QED
    BY <2>1 DEF ChangeRecord
<1>5. /\ before \in Nat /\ made \in Nat /\ before <= made /\ made - before <= 2
      /\ Cardinality(Recorded(i - 1, k)) = before /\ Cardinality(Recorded(i, k)) = made
      /\ k \notin reposted /\ old \in Seq(Image) /\ lines \in Seq(Image)
  <2>1. before \in Nat /\ made \in Nat /\ old \in Seq(Image) /\ lines \in Seq(Image)
    BY <1>1, <1>2, <1>4, TypeParts
  <2>2. before <= made
    <3>1. i - 1 <= i
      OBVIOUS
    <3> HIDE DEF k
    <3> QED
      BY <1>1, <1>2, <1>4, <3>1 DEF CommitsInOrder
  <2> QED
    BY <2>1, <2>2 DEF Calm
<1>6. /\ \A n \in 1..before : \E p \in 1..from : ledger[p].key = k /\ ledger[p].n = n
      /\ \A n \in 1..made : \E p \in 1..upto : ledger[p].key = k /\ ledger[p].n = n
  <2>1. \A n \in 1..before : \E p \in 1..from : ledger[p].key = k /\ ledger[p].n = n
    <3> HIDE DEF k, from, upto, before, made
    <3>1. k \in Key /\ i - 1 \in 1..Len(commits)
      BY <1>2, <1>4
    <3>2. Cardinality(Recorded(i - 1, k)) = commits[i - 1].made[k]
      BY <1>5 DEF before
    <3> QED
      BY <3>1, <3>2, AllRecorded DEF before, from
  <2>2. \A n \in 1..made : \E p \in 1..upto : ledger[p].key = k /\ ledger[p].n = n
    <3> HIDE DEF k, from, upto, before, made
    <3>1. k \in Key /\ i \in 1..Len(commits)
      BY <1>2, <1>4
    <3>2. Cardinality(Recorded(i, k)) = commits[i].made[k]
      BY <1>5 DEF made
    <3> QED
      BY <3>1, <3>2, AllRecorded DEF made, upto
  <2> QED
    BY <2>1, <2>2
<1> HIDE DEF k, from, upto, before, made, old, lines, added
<1>7. \A p \in 1..upto : ledger[p].key = k /\ ledger[p].n = rec.n => p = from + at
  <2>1. TAKE p \in 1..upto
  <2>2. HAVE ledger[p].key = k /\ ledger[p].n = rec.n
  <2>3. p \in 1..Len(ledger)
    BY <1>2
  <2>4. Same(ledger[p], ledger[from + at])
    BY <1>4, <2>2 DEF Same, k
  <2> QED
    BY <1>1, <1>4, <2>3, <2>4 DEF Once
<1>8. rec.n > before /\ rec.n <= made
  <2>1. rec.n <= made
    BY <1>1, <1>2, <1>4 DEF LedgerIsPast, upto, made, k
  <2>2. rec.n \in 1..before => FALSE
    <3>1. HAVE rec.n \in 1..before
    <3>2. PICK p \in 1..from : ledger[p].key = k /\ ledger[p].n = rec.n
      BY <1>6, <3>1
    <3>3. p \in 1..upto /\ p # from + at
      BY <1>2, <1>4
    <3> QED
      BY <1>7, <3>2, <3>3
  <2> QED
    BY <1>4, <1>5, <2>1, <2>2
\* What a record tells of the commit, and of the one before it.
<1>9. ASSUME NEW p \in 1..upto, ledger[p].key = k
      PROVE  /\ ledger[p] \in Known
             /\ ledger[p].n = made => Leaves(ledger[p], lines)
             /\ ledger[p].n = before + 1 => Finds(ledger[p], old)
  <2>1. p \in 1..Len(ledger)
    BY <1>2
  <2>2. ledger[p] \in Known
    BY <1>1, <2>1, RangeParts DEF Known
  <2> QED
    BY <1>1, <1>2, <1>9, <2>2 DEF CommitsTell, made, before, lines, old
<1>10. rec \in Known /\ (rec.n = made => Leaves(rec, lines)) /\ (rec.n = before + 1 => Finds(rec, old))
  BY <1>4, <1>9 DEF k
<1>11. CASE rec.op = "delete" /\ rec.n = before + 1
  <2>1. old # <<>> /\ Head(old) = rec.image
    BY <1>10, <1>11 DEF Finds
  <2>2. rec.image \in Range(old)
    BY <1>5, <2>1, RangeParts
  <2> QED
    BY <2>2 DEF Resolves, HashAt, old, k
<1>12. CASE rec.op # "delete" /\ rec.n = made
  <2>1. rec.image \in Range(lines)
    BY <1>10, <1>12 DEF Leaves
  <2> QED
    BY <2>1 DEF Resolves, HashAt, lines, k
\* Two mutations: the record of the other one is in the commit as well.
<1>13. ASSUME NEW n \in before + 1..made
       PROVE  \E q \in ToSet(added) : q.key = k /\ q.n = n /\ q \in Known
                                      /\ (n = made => Leaves(q, lines))
  <2>1. n \in 1..made
    BY <1>5
  <2>2. PICK p \in 1..upto : ledger[p].key = k /\ ledger[p].n = n
    BY <1>6, <2>1
  <2>3. p > from
    <3> SUFFICES ASSUME p <= from PROVE FALSE
      BY <1>2
    <3>1. p \in 1..from
      BY <1>2
    <3>2. ledger[p].n <= before
      BY <1>1, <1>2, <2>2, <3>1 DEF LedgerIsPast, from, before
    <3> QED
      BY <1>5, <2>2, <3>2
  <2>4. ledger[p] \in ToSet(added)
    BY <1>2, <2>3
  <2> QED
    BY <1>9, <2>2, <2>4
<1>14. CASE rec.op = "delete" /\ rec.n # before + 1
  <2>1. rec.n = before + 2 /\ before + 1 \in before + 1..made
    <3>1. rec.n \in Nat /\ rec.n # before + 1 /\ rec.n > before /\ rec.n <= made
      BY <1>4, <1>8, <1>14
    <3>2. before \in Nat /\ made \in Nat /\ made - before <= 2
      BY <1>5
    <3> QED
      BY <3>1, <3>2
  <2>2. PICK q \in ToSet(added) : q.key = k /\ q.n = before + 1 /\ q \in Known
    BY <1>13, <2>1
  <2>3. Follows(q, rec)
    BY <1>1, <1>4, <1>5, <1>10, <2>1, <2>2 DEF SinglesFollow, k
  <2>4. q.op # "delete" /\ q.image = rec.image
    BY <1>14, <2>3 DEF Follows
  <2> QED
    BY <1>14, <2>2, <2>4 DEF BornAndDied, added, k
<1>15. CASE rec.op # "delete" /\ rec.n # made
  <2>1. made = rec.n + 1 /\ made \in before + 1..made
    <3>1. rec.n \in Nat /\ rec.n # made /\ rec.n > before /\ rec.n <= made
      BY <1>4, <1>8, <1>15
    <3>2. before \in Nat /\ made \in Nat /\ made - before <= 2
      BY <1>5
    <3> QED
      BY <3>1, <3>2
  <2>2. PICK q \in ToSet(added) : q.key = k /\ q.n = made /\ q \in Known /\ Leaves(q, lines)
    BY <1>13, <2>1
  <2>3. CASE q.op = "delete"
    <3>1. Follows(rec, q)
      BY <1>1, <1>4, <1>5, <1>10, <2>1, <2>2 DEF SinglesFollow, k
    <3>2. q.image = rec.image
      BY <2>3, <3>1 DEF Follows
    <3> QED
      BY <1>15, <2>2, <2>3, <3>2 DEF BornAndDied, added, k
  <2>4. CASE q.op # "delete"
    <3>1. q.image \in Range(lines)
      BY <2>2, <2>4 DEF Leaves
    <3>2. lines # <<>>
      <4>1. Range(<<>>) = {}
        BY DEF Range
      <4> QED
        BY <3>1, <4>1
    <3>3. First(lines) \in Image /\ First(lines) # None
      BY <1>1, <1>5, <3>2, RangeParts, TypeParts DEF First
    <3> QED
      BY <1>15, <3>3 DEF Resolves, KeyAt, lines, k
  <2> QED
    BY <2>3, <2>4
<1> QED
  BY <1>11, <1>12, <1>14, <1>15

\* A consumer converges on every row that is still there: once it is through
\* the latest commit, its row for a key whose latest mutation has the last
\* word in the ledger is the committed row (deriveCommitChanges), whatever was
\* superseded, inserted again, lost or recorded late on the way.
THEOREM LiveRowsAgree == Spec => []LiveRowsConverge
<1>1. TableInvariant => LiveRowsConverge
  <2>1. CASE delivered = Len(commits)
    BY <2>1 DEF TableInvariant, CopyFollows, LiveRowsConverge
  <2>2. CASE delivered # Len(commits)
    BY <2>2 DEF LiveRowsConverge
  <2> QED
    BY <2>1, <2>2
<1> QED
  BY <1>1, TableInvariantHolds, PTL

\* A consumer of the change feed never holds a row that no commit it has
\* received held: the verbs write before they record, and deriveCommitChanges
\* takes an image from the commit or its parent alone.
THEOREM OnlyCommitted == Spec => []CommittedOnly
<1>1. TableInvariant => CommittedOnly
  BY DEF TableInvariant, CopyCommitted, CommittedOnly
<1> QED
  BY <1>1, TableInvariantHolds, PTL

\* A feed does not close with CHANGELOG_CORRUPT on a commit that is calm for
\* every key: two mutations of a key between two commits, whatever they are,
\* resolve, or are the birth and the death of one row image.
THEOREM CalmFeedStays == Spec => []CalmWindowKeepsFeed
<1>1. TableInvariant => CalmWindowKeepsFeed
  <2>1. SUFFICES ASSUME TableInvariant, closed, \A k \in Key : Calm(delivered + 1, k)
                 PROVE  FALSE
    BY DEF CalmWindowKeepsFeed
  <2> DEFINE i == delivered + 1
  <2>2. TypeOK /\ CommitsInOrder /\ delivered < Len(commits) /\ Corrupt(i)
    BY <2>1 DEF TableInvariant, ClosedForCause
  <2>3. i \in 2..Len(commits)
    BY <2>2, TypeParts
  <2> HIDE DEF i
  <2>4. PICK rec \in ToSet(Added(i)) : ~Resolves(i, rec) /\ ~BornAndDied(i, rec)
    BY <2>2 DEF Corrupt
  <2>5. rec.key \in Key
    <3>1. rec \in ChangeRecord
      BY <2>2, <2>3, <2>4, AddedParts
    <3> QED
      BY <3>1 DEF ChangeRecord
  <2> QED
    BY <2>1, <2>3, <2>4, <2>5, CalmRecord DEF i
<1> QED
  BY <1>1, TableInvariantHolds, PTL

================================================================================
