---------------------------- MODULE SchemaDDLProofs ----------------------------
(***************************************************************************)
(* What the journaled schema changes guarantee for any number of rows,     *)
(* columns, requests and journals, wherever a process is killed.           *)
(* DDLInvariant is inductive; the four properties follow from it.          *)
(***************************************************************************)
EXTENDS SchemaDDL, FiniteSetTheorems, WellFoundedInduction, TLAPS

\* The steps of an operation that has its journal: before the switch, after it.
Before == {"work", "materialize", "write", "prepare", "switch"}
After == {"mark", "finalize"}

\* The types, with the journals as a sequence.
DDLTypes ==
  /\ schema \in Document /\ candidate \in Document
  /\ rows \in [Path -> SUBSET Row] /\ edited \in [Path -> SUBSET Row]
  /\ file \in [Path -> {"absent", "partial", "complete"}]
  /\ journals \in Seq(Journal) /\ Len(journals) <= MaxOps
  /\ step \in {"idle", "recover", "begin"} \cup Before \cup After
  /\ request \in Request \cup {None}
  /\ requests \in 0..MaxRewrites /\ waiting \in [Path -> Nat]
  /\ target \in [Row -> Path \cup {None}]
  /\ answer \in [Row -> {"none", "queued", "locked"} \cup Appended]
  /\ outcome \in [Row -> {"inserted", "edited", "removed"}]
  /\ published \in SUBSET (1..Len(journals))
  /\ crossed \in SUBSET Row /\ rotated \in SUBSET Row /\ rewritten \in SUBSET Path
  /\ tampered \in BOOLEAN

\* An operation has a request, and room for its journal until it has written it.
RequestInHand ==
  /\ step \in {"begin"} \cup Before \cup After => request \in Request \ {None}
  /\ step \in {"recover", "begin"} /\ request # None => Len(journals) < MaxOps

\* A path comes from the first declaration or from an operation that switched;
\* a row that was queued has one.
PathsWereDeclared ==
  /\ schema.path \in {None, 0} \cup published
  /\ \A x \in Row :
       /\ target[x] \in {None, 0} \cup published
       /\ answer[x] \in {"queued"} \cup Appended => target[x] # None

\* Each version of the view after the first took an operation.
VersionsAreCounted ==
  /\ schema.view <= Len(journals) + 1
  /\ step \in Before => schema.view <= Len(journals)
  /\ candidate.view <= Len(journals) + 1

\* Only the last journal may be unfinished, and none is when another is written.
OneUnfinished ==
  /\ PendingAt \subseteq {Len(journals)}
  /\ step = "begin" => PendingAt = {}

\* What the journal of the running operation says at each step.
JournalOfStep ==
  LET c == Len(journals)
      j == journals[c] IN
  step \in Before \cup After =>
    /\ c > 0
    /\ j.request = request
    /\ j.status = CASE step \in {"work", "materialize", "write", "prepare"} -> "started"
                    [] step \in {"switch", "mark"} ->
                         IF candidate.path = c THEN "generation-written" ELSE "prepared"
                    [] step = "finalize" -> "switched"
    /\ j.new = IF step \in Before \ {"switch"} THEN None ELSE candidate
    /\ step \in Before => c \notin published /\ j.old = schema
    /\ step \in After => c \in published /\ candidate = schema

\* A file has rows that were appended, and only they are updated or deleted.
FilesHaveAcknowledged ==
  /\ \A p \in Path : edited[p] \subseteq rows[p] /\ \A x \in rows[p] : answer[x] \in Appended
  /\ \A x \in Row : outcome[x] # "inserted" => answer[x] \in Appended

\* The document an operation is to publish names the live path, or its own
\* generation, which has the live rows.
CandidateOfStep ==
  LET c == Len(journals) IN
  /\ step \in {"materialize", "write"} =>
       request.materialize /\ candidate.path = schema.path /\ schema.path # None
  /\ step \in {"prepare", "switch"} =>
       \/ candidate.path = schema.path
       \/ schema.path = None /\ candidate.path = 0
       \/ /\ schema.path # None /\ candidate.path = c
          /\ file[c] = "complete" /\ rows[c] = rows[schema.path] /\ edited[c] = edited[schema.path]

\* A journal names a generation only with the document that names it.
GenerationIsNamed ==
  \A j \in DOMAIN journals :
    /\ journals[j].status = "started" => journals[j].new = None /\ j \notin published
    /\ journals[j].generation # None =>
         journals[j].generation = j /\ journals[j].new # None /\ journals[j].new.path = j
    /\ j \in published => journals[j].new # None

\* The rows of the generation of an unfinished operation, and those appended, as
\* long as it was not rewritten.
GenerationHas(j) ==
  /\ file[j] # "absent"
  /\ j \notin rewritten =>
       /\ edited[j] = journals[j].digest[2]
       /\ journals[j].digest[1] \subseteq rows[j]
       /\ \A x \in rows[j] \ journals[j].digest[1] : answer[x] \in Appended /\ target[x] = j

\* Without outside changes, the schema is what an unfinished journal found, or
\* what it was to publish, as it was switched in or not.
UnfinishedFitsSchema ==
  ~tampered =>
    \A j \in PendingAt :
      /\ j \notin published => journals[j].old = schema
      /\ j \in published => journals[j].new = schema
      /\ journals[j].generation # None /\ (j \in published \/ step = "switch") => GenerationHas(j)

\* The outcome each journal records.
OutcomeIsTold ==
  ~tampered =>
    \A j \in DOMAIN journals :
      /\ journals[j].status \in {"switched", "finalized"} =>
           j \in published \/ journals[j].new = journals[j].old
      /\ journals[j].status \in {"abandoned", "failed"} => j \notin published
      /\ journals[j].status = "fail_closed" =>
           /\ j \in published
           /\ \/ \E x \in Row : answer[x] \in Appended /\ target[x] = journals[j].generation
              \/ journals[j].generation \in rewritten

\* A key is used again only after its first journal was abandoned or had failed.
KeyUsedAgain ==
  \A i, j \in DOMAIN journals :
    /\ i < j
    /\ journals[i].request.key = journals[j].request.key
    /\ journals[i].request.key # None
    /\ \A h \in DOMAIN journals :
         journals[h].request.key = journals[i].request.key => i <= h
    => journals[i].status \in {"abandoned", "failed"}

\* A row that is queued or acknowledged, and neither crossed a switch nor went to
\* another chunk, is queued for the live path or is in its file as its last mutation
\* left it.
RowsFollowSchema ==
  ~tampered =>
    \A x \in Row \ (crossed \cup rotated) :
      /\ answer[x] = "queued" => target[x] = schema.path
      /\ answer[x] = "ok" =>
           /\ schema.path # None
           /\ x \in rows[schema.path] <=> outcome[x] # "removed"
           /\ x \in edited[schema.path] <=> outcome[x] = "edited"

\* The inductive invariant.
DDLInvariant ==
  /\ DDLTypes
  /\ RequestInHand
  /\ PathsWereDeclared
  /\ VersionsAreCounted
  /\ FilesHaveAcknowledged
  /\ OneUnfinished
  /\ JournalOfStep
  /\ CandidateOfStep
  /\ GenerationIsNamed
  /\ UnfinishedFitsSchema
  /\ OutcomeIsTold
  /\ KeyUsedAgain
  /\ RowsFollowSchema

--------------------------------------------------------------------------------

USE DDLAssumption, NoneAssumption

Steps == {"idle", "recover", "begin"} \cup Before \cup After
Final == {"finalized", "abandoned", "failed", "fail_closed"}

LEMMA JournalsAreJournals ==
  ASSUME journals \in Seq(Journal)
  PROVE  /\ Len(journals) \in Nat
         /\ DOMAIN journals = 1..Len(journals)
         /\ \A j \in DOMAIN journals : journals[j] \in Journal
<1> DEFINE T == Journal
<1>1. journals \in Seq(T)
  OBVIOUS
<1> HIDE DEF T
<1>2. /\ Len(journals) \in Nat
      /\ DOMAIN journals = 1..Len(journals)
      /\ \A j \in DOMAIN journals : journals[j] \in T
  BY <1>1
<1> QED
  BY <1>2 DEF T

LEMMA JournalParts ==
  ASSUME NEW j \in Journal
  PROVE  /\ j.request \in Request /\ j.status \in Status /\ j.old \in Document
         /\ j.new \in Document \cup {None} /\ j.generation \in Path \cup {None}
         /\ j.digest \in (SUBSET Row) \X (SUBSET Row)
BY DEF Journal

LEMMA DocumentParts ==
  ASSUME NEW d \in Document
  PROVE  /\ d.path \in Path \cup {None} /\ d.columns \in SUBSET Column
         /\ d.retyped \in SUBSET Column /\ d.view \in 0..MaxOps + 1
         /\ d # None
BY DEF Document

\* What a change of status leaves as it was.
LEMMA StatusIsSet ==
  ASSUME journals \in Seq(Journal), NEW j \in DOMAIN journals, NEW s \in Status,
         SetStatus(j, s)
  PROVE  /\ journals' \in Seq(Journal)
         /\ Len(journals') = Len(journals)
         /\ DOMAIN journals' = DOMAIN journals
         /\ journals'[j].status = s
         /\ \A i \in DOMAIN journals : i # j => journals'[i] = journals[i]
         /\ \A i \in DOMAIN journals :
              /\ journals'[i].request = journals[i].request
              /\ journals'[i].old = journals[i].old
              /\ journals'[i].new = journals[i].new
              /\ journals'[i].generation = journals[i].generation
              /\ journals'[i].digest = journals[i].digest
<1> DEFINE T == Journal
           e == [journals[j] EXCEPT !.status = s]
<1>1. journals[j] \in Journal /\ journals \in Seq(T)
  BY JournalsAreJournals
<1>2. /\ e \in T /\ e.status = s
      /\ e.request = journals[j].request /\ e.old = journals[j].old
      /\ e.new = journals[j].new /\ e.generation = journals[j].generation
      /\ e.digest = journals[j].digest
  BY <1>1 DEF Journal
<1>3. journals' = [journals EXCEPT ![j] = e]
  BY DEF SetStatus
<1> HIDE DEF T, e
<1>4. /\ journals' \in Seq(T) /\ Len(journals') = Len(journals)
      /\ DOMAIN journals' = DOMAIN journals
      /\ journals'[j] = e
      /\ \A i \in DOMAIN journals : i # j => journals'[i] = journals[i]
  BY <1>1, <1>2, <1>3
<1> QED
  BY <1>2, <1>4 DEF T

\* A key finds its first journal again when only later ones changed.
LEMMA KeysKept ==
  ASSUME KeyUsedAgain, DOMAIN journals' = DOMAIN journals,
         DOMAIN journals = 1..Len(journals), Len(journals) \in Nat,
         \A i \in DOMAIN journals :
           /\ journals'[i].request = journals[i].request
           /\ i # Len(journals) => journals'[i].status = journals[i].status
  PROVE  KeyUsedAgain'
<1>1. \A i, j \in DOMAIN journals : i < j => i # Len(journals)
  OBVIOUS
<1> QED
  BY <1>1 DEF KeyUsedAgain

\* The last journal is settled: by recovery, or by the operation it is of.
LEMMA Settles ==
  ASSUME DDLInvariant, NEW j \in PendingAt, NEW s \in Final, SetStatus(j, s),
         UNCHANGED <<schema, published, files, mutations, crossed, tampered>>,
         \/ step = "recover" /\ UNCHANGED <<step, request, candidate>>
         \/ Release,
         ~tampered /\ s = "finalized" =>
           j \in published \/ journals[j].new = journals[j].old,
         ~tampered /\ s \in {"abandoned", "failed"} => j \notin published,
         ~tampered /\ s = "fail_closed" =>
           /\ j \in published
           /\ \/ \E x \in Row : answer[x] \in Appended /\ target[x] = journals[j].generation
              \/ journals[j].generation \in rewritten
  PROVE  DDLInvariant'
<1> USE DEF DDLInvariant, Final
<1>1. /\ j \in DOMAIN journals /\ journals[j].status \in Pending /\ j = Len(journals)
      /\ Len(journals) \in Nat /\ DOMAIN journals = 1..Len(journals)
      /\ s \in Status /\ s \notin Pending /\ s # "started" /\ s # "switched"
  <2>1. journals \in Seq(Journal)
    BY DEF DDLTypes
  <2> QED
    BY <2>1, JournalsAreJournals DEF PendingAt, OneUnfinished, Status, Pending
<1>2. /\ journals' \in Seq(Journal)
      /\ Len(journals') = Len(journals)
      /\ DOMAIN journals' = DOMAIN journals
      /\ journals'[j].status = s
      /\ \A i \in DOMAIN journals : i # j => journals'[i] = journals[i]
      /\ \A i \in DOMAIN journals :
           /\ journals'[i].request = journals[i].request
           /\ journals'[i].old = journals[i].old
           /\ journals'[i].new = journals[i].new
           /\ journals'[i].generation = journals[i].generation
           /\ journals'[i].digest = journals[i].digest
  <2>1. journals \in Seq(Journal)
    BY DEF DDLTypes
  <2> QED
    BY <2>1, <1>1, StatusIsSet
<1>3. PendingAt' = {}
  BY <1>1, <1>2 DEF PendingAt, OneUnfinished
<1>4. /\ step' \in {"idle", "recover"}
      /\ step' = "recover" => step = "recover" /\ request' = request
      /\ request' \in {request, None}
      /\ candidate' \in {candidate, NoSchema}
  BY DEF Release
<1>5. NoSchema \in Document /\ NoSchema.view = 0
  BY DEF NoSchema, Document, DDLTypes
<1>6. DDLTypes'
  BY <1>2, <1>4, <1>5 DEF DDLTypes, files, mutations
<1>7. RequestInHand'
  BY <1>2, <1>4 DEF RequestInHand, Before, After
<1>8. PathsWereDeclared'
  BY DEF PathsWereDeclared, mutations
<1>9. VersionsAreCounted'
  BY <1>1, <1>2, <1>4, <1>5 DEF VersionsAreCounted, Before
<1>10. OneUnfinished'
  BY <1>3, <1>4 DEF OneUnfinished
<1>11. JournalOfStep' /\ CandidateOfStep'
  BY <1>4 DEF JournalOfStep, CandidateOfStep, Before, After
<1>12. GenerationIsNamed'
  BY <1>1, <1>2 DEF GenerationIsNamed
<1>13. UnfinishedFitsSchema'
  BY <1>3 DEF UnfinishedFitsSchema
<1>14. OutcomeIsTold'
  BY <1>1, <1>2 DEF OutcomeIsTold, mutations
<1>15. KeyUsedAgain'
  <2>1. /\ KeyUsedAgain
        /\ \A i \in DOMAIN journals :
             /\ journals'[i].request = journals[i].request
             /\ i # Len(journals) => journals'[i].status = journals[i].status
    BY <1>1, <1>2
  <2> QED
    BY <1>1, <1>2, <2>1, KeysKept
<1>16. RowsFollowSchema'
  BY DEF RowsFollowSchema, files, mutations
<1>17. FilesHaveAcknowledged'
  BY DEF FilesHaveAcknowledged, files, mutations
<1> QED
  BY <1>6, <1>7, <1>8, <1>9, <1>10, <1>11, <1>12, <1>13, <1>14, <1>15, <1>16, <1>17

\* The lock is released, or taken, or its holder goes on to another step, and
\* nothing that is on disk changes.
LEMMA LockMoves ==
  ASSUME DDLInvariant,
         UNCHANGED <<schema, journals, published, files, mutations, crossed, tampered>>,
         step' \in {"idle", "recover", "begin"}, request' \in Request \cup {None},
         candidate' \in {candidate, NoSchema},
         step' = "begin" => request' \in Request \ {None} /\ PendingAt = {},
         step' \in {"recover", "begin"} /\ request' # None => Len(journals) < MaxOps
  PROVE  DDLInvariant'
<1> USE DEF DDLInvariant
<1>1. NoSchema \in Document /\ NoSchema.view = 0
  BY DEF NoSchema, Document
<1>2. Len(journals) \in Nat
  BY JournalsAreJournals DEF DDLTypes
<1>3. DDLTypes'
  BY <1>1 DEF DDLTypes, files, mutations
<1>4. RequestInHand'
  BY DEF RequestInHand, Before, After
<1>5. PathsWereDeclared'
  BY DEF PathsWereDeclared, mutations
<1>6. VersionsAreCounted'
  BY <1>1, <1>2 DEF VersionsAreCounted, Before
<1>7. OneUnfinished'
  BY DEF OneUnfinished, PendingAt
<1>8. JournalOfStep' /\ CandidateOfStep'
  BY DEF JournalOfStep, CandidateOfStep, Before, After
<1>9. GenerationIsNamed'
  BY DEF GenerationIsNamed
<1>10. UnfinishedFitsSchema'
  BY DEF UnfinishedFitsSchema, PendingAt, GenerationHas, files, mutations
<1>11. OutcomeIsTold'
  BY DEF OutcomeIsTold, mutations
<1>12. KeyUsedAgain'
  BY DEF KeyUsedAgain
<1>13. RowsFollowSchema'
  BY DEF RowsFollowSchema, files, mutations
<1>14. FilesHaveAcknowledged'
  BY DEF FilesHaveAcknowledged, files, mutations
<1> QED
  BY <1>3, <1>4, <1>5, <1>6, <1>7, <1>8, <1>9, <1>10, <1>11, <1>12, <1>13, <1>14

LEMMA AcquireKeeps ==
  ASSUME DDLInvariant, NEW r \in Request \cup {None}, AcquireDdlFence(r)
  PROVE  DDLInvariant'
<1>1. /\ Len(journals) \in Nat /\ Len(journals) <= MaxOps
  BY JournalsAreJournals DEF DDLInvariant, DDLTypes
<1>2. /\ step' = "recover" /\ request' = r /\ candidate' = candidate
      /\ UNCHANGED <<schema, journals, published, files, mutations, crossed, tampered>>
      /\ r # None => Len(journals) < MaxOps
  BY DEF AcquireDdlFence
<1> QED
  BY <1>2, LockMoves

LEMMA RecoveryDoneKeeps ==
  ASSUME DDLInvariant, RecoveryDone
  PROVE  DDLInvariant'
<1>1. /\ UNCHANGED <<schema, journals, published, files, mutations, crossed, tampered>>
      /\ PendingAt = {} /\ step = "recover"
      /\ \/ step' = "idle" /\ request' = None /\ candidate' = NoSchema
         \/ request # None /\ step' = "begin" /\ request' = request /\ candidate' = candidate
  BY DEF RecoveryDone, Release
<1>2. /\ request \in Request \cup {None}
      /\ request # None => Len(journals) < MaxOps
  BY <1>1 DEF DDLInvariant, DDLTypes, RequestInHand
<1> QED
  BY <1>1, <1>2, LockMoves

\* An answer from the journal, and a process that is killed, only give up the lock.
LEMMA ReleaseKeeps ==
  ASSUME DDLInvariant, Release,
         UNCHANGED <<schema, journals, published, files, mutations, crossed, tampered>>
  PROVE  DDLInvariant'
BY LockMoves DEF Release

--------------------------------------------------------------------------------

\* The journal a key is looked up in.
LEMMA OldestIsFirst ==
  ASSUME NEW js \in SUBSET Nat, NEW i \in js, \A h \in js : i <= h
  PROVE  Oldest(js) = i
<1>1. /\ Oldest(js) \in js /\ \A h \in js : Oldest(js) <= h
  BY DEF Oldest
<1>2. Oldest(js) <= i /\ i <= Oldest(js) /\ i \in Nat /\ Oldest(js) \in Nat
  BY <1>1
<1> QED
  BY <1>2

LEMMA BeginKeeps ==
  ASSUME DDLInvariant, Begin
  PROVE  DDLInvariant'
<1> USE DEF DDLInvariant
<1> DEFINE e == [request |-> request, status |-> "started", old |-> schema, new |-> None,
                 generation |-> None, digest |-> <<{}, {}>>]
           c == Len(journals) + 1
           T == Journal
<1>1. /\ step = "begin" /\ step' = "work" /\ ~Settled
      /\ journals' = Append(journals, e)
      /\ UNCHANGED <<schema, request, candidate, published, files, mutations, crossed, tampered>>
  BY DEF Begin
<1>2. /\ journals \in Seq(Journal) /\ Len(journals) \in Nat
      /\ DOMAIN journals = 1..Len(journals)
      /\ request \in Request /\ Len(journals) < MaxOps
      /\ PendingAt = {}
  BY <1>1, JournalsAreJournals DEF DDLTypes, RequestInHand, OneUnfinished
<1>3. e \in Journal
  <2>1. /\ request \in Request /\ schema \in Document /\ "started" \in Status
        /\ <<{}, {}>> \in (SUBSET Row) \X (SUBSET Row)
    BY <1>2 DEF DDLTypes, Status, Pending
  <2> QED
    BY <2>1 DEF Journal
<1>4. /\ e.request = request /\ e.status = "started" /\ e.old = schema
      /\ e.new = None /\ e.generation = None /\ e.digest = <<{}, {}>>
  OBVIOUS
<1> HIDE DEF e
<1>5. /\ journals' \in Seq(Journal) /\ Len(journals') = c /\ DOMAIN journals' = 1..c
      /\ journals'[c] = e
      /\ \A i \in DOMAIN journals : journals'[i] = journals[i]
      /\ DOMAIN journals' = DOMAIN journals \cup {c}
  <2>1. journals \in Seq(T) /\ e \in T
    BY <1>2, <1>3
  <2> HIDE DEF T
  <2>2. /\ journals' \in Seq(T) /\ Len(journals') = c /\ DOMAIN journals' = 1..c
        /\ journals'[c] = e
        /\ \A i \in DOMAIN journals : journals'[i] = journals[i]
    BY <1>1, <1>2, <2>1
  <2>3. 1..c = DOMAIN journals \cup {c}
    BY <1>2
  <2> QED
    BY <2>2, <2>3 DEF T
<1>6. c \in Nat /\ c > 0 /\ c \notin DOMAIN journals /\ c \notin published /\ c # None
  BY <1>2 DEF DDLTypes
<1>7. request # None
  BY <1>1 DEF RequestInHand
<1>8. PendingAt' = {c}
  BY <1>2, <1>4, <1>5, <1>6 DEF PendingAt, Pending
<1>9. DDLTypes'
  BY <1>1, <1>2, <1>5, <1>7 DEF DDLTypes, files, mutations, Before
<1>10. RequestInHand'
  BY <1>1, <1>2 DEF RequestInHand, Before, After
<1>11. PathsWereDeclared'
  BY <1>1 DEF PathsWereDeclared, mutations
<1>12. VersionsAreCounted'
  <2>1. schema.view \in Nat /\ candidate.view \in Nat
    BY DocumentParts DEF DDLTypes
  <2> QED
    BY <1>1, <1>2, <1>5, <2>1 DEF VersionsAreCounted
<1>13. OneUnfinished'
  BY <1>1, <1>5, <1>8 DEF OneUnfinished
<1>14. JournalOfStep'
  BY <1>1, <1>4, <1>5, <1>6 DEF JournalOfStep, Before, After
<1>15. CandidateOfStep'
  BY <1>1 DEF CandidateOfStep
<1>16. GenerationIsNamed'
  BY <1>1, <1>4, <1>5, <1>6 DEF GenerationIsNamed
<1>17. UnfinishedFitsSchema'
  BY <1>1, <1>4, <1>5, <1>6, <1>8 DEF UnfinishedFitsSchema
<1>18. OutcomeIsTold'
  BY <1>1, <1>4, <1>5, <1>6 DEF OutcomeIsTold, mutations
<1>19. KeyUsedAgain'
  <2>1. SUFFICES ASSUME NEW i \in DOMAIN journals', NEW j \in DOMAIN journals', i < j,
                        journals'[i].request.key = journals'[j].request.key,
                        journals'[i].request.key # None,
                        \A h \in DOMAIN journals' :
                          journals'[h].request.key = journals'[i].request.key => i <= h
                 PROVE  journals'[i].status \in {"abandoned", "failed"}
    BY DEF KeyUsedAgain
  <2>2. /\ i \in DOMAIN journals /\ journals'[i] = journals[i]
        /\ \A h \in DOMAIN journals :
             journals[h].request.key = journals[i].request.key => i <= h
    BY <1>2, <1>5, <2>1
  <2>3. CASE j # c
    BY <1>5, <2>1, <2>2, <2>3 DEF KeyUsedAgain
  <2>4. CASE j = c
    <3>1. request.key = journals[i].request.key /\ request.key # None
      BY <1>4, <1>5, <2>1, <2>2, <2>4
    <3>2. i \in WithKey(request.key) /\ WithKey(request.key) \in SUBSET Nat
      BY <1>2, <2>2, <3>1 DEF WithKey
    <3>3. Oldest(WithKey(request.key)) = i
      <4>1. \A h \in WithKey(request.key) : i <= h
        BY <2>2, <3>1 DEF WithKey
      <4> QED
        BY <3>2, <4>1, OldestIsFirst
    <3>4. journals[i].status \notin {"finalized", "switched", "fail_closed"}
      BY <1>1, <3>1, <3>2, <3>3 DEF Settled, Reused, Found
    <3>5. journals[i].status \in Status /\ journals[i].status \notin Pending
      BY <1>2, <2>2, JournalsAreJournals, JournalParts DEF PendingAt
    <3> QED
      BY <2>2, <3>4, <3>5 DEF Status
  <2> QED
    BY <2>3, <2>4
<1>20. RowsFollowSchema'
  BY <1>1 DEF RowsFollowSchema, files, mutations
<1>21. FilesHaveAcknowledged'
  BY <1>1 DEF FilesHaveAcknowledged, files, mutations
<1> QED
  BY <1>9, <1>10, <1>11, <1>12, <1>13, <1>14, <1>15, <1>16, <1>17, <1>18, <1>19, <1>20, <1>21

--------------------------------------------------------------------------------

\* The documents a change leads to.
LEMMA ChangeGives ==
  ASSUME DDLTypes, NEW r \in Request, schema.view <= Len(journals), NEW d \in Change(r)
  PROVE  /\ d \in Document /\ d.view <= Len(journals) + 1
         /\ \/ d.path = schema.path
            \/ schema.path = None /\ d.path = 0
         /\ r.materialize => d.path = schema.path /\ schema.path # None
<1>1. /\ Len(journals) \in Nat /\ Len(journals) <= MaxOps
      /\ schema \in Document /\ schema.view \in Nat
  BY JournalsAreJournals, DocumentParts DEF DDLTypes
<1>2. CASE r.op = "createTable"
  <2>1. d = [schema EXCEPT !.path = 0]
    BY <1>2 DEF Change, CreateDeclaredTable
  <2>2. ~Declared \/ SameContract
    BY <1>2 DEF Change, CreateDeclaredTable
  <2>3. /\ d \in Document /\ d.view = schema.view /\ d.path = 0
    BY <1>1, <2>1 DEF Document, Path
  <2>4. SameContract => schema.path = 0
    BY DEF SameContract, NoSchema
  <2>5. ~r.materialize
    BY <1>2
  <2> QED
    BY <1>1, <2>2, <2>3, <2>4, <2>5 DEF Declared
<1>3. CASE r.op = "addColumn"
  <2>1. d = [schema EXCEPT !.columns = @ \cup {r.column}] /\ Declared
    BY <1>3 DEF Change, AddColumn
  <2>2. r.column \in Column
    BY <1>3
  <2> QED
    BY <1>1, <2>1, <2>2 DEF Document, Declared
<1>4. CASE r.op = "retypeColumn"
  <2>1. d = [schema EXCEPT !.retyped = @ \cup {r.column}] /\ Declared
    BY <1>4 DEF Change, RetypeColumn
  <2>2. r.column \in Column
    BY <1>4
  <2> QED
    BY <1>1, <2>1, <2>2 DEF Document, Declared
<1>5. CASE r.op = "declareView"
  <2>1. d = [schema EXCEPT !.view = 1] /\ schema.view = 0 /\ ~r.materialize
    BY <1>5 DEF Change, DeclareView
  <2> QED
    BY <1>1, <2>1 DEF Document
<1>6. CASE r.op = "redeclareView"
  <2>1. d = [schema EXCEPT !.view = @ + 1] /\ ~r.materialize
    BY <1>6 DEF Change, RedeclareView
  <2>2. schema.view + 1 \in 0..MaxOps + 1 /\ schema.view + 1 <= Len(journals) + 1
    BY <1>1
  <2> QED
    BY <1>1, <2>1, <2>2 DEF Document
<1> QED
  BY <1>2, <1>3, <1>4, <1>5, <1>6

\* A failure before the switch.
LEMMA FailOperationKeeps ==
  ASSUME DDLInvariant, FailOperation, step \in Before
  PROVE  DDLInvariant'
<1> USE DEF DDLInvariant
<1> DEFINE j == Len(journals)
<1>1. j \in PendingAt /\ j \notin published
  <2>1. j \in DOMAIN journals
    BY JournalsAreJournals DEF DDLTypes, JournalOfStep
  <2>2. /\ j \notin published
        /\ journals[j].status \in {"started", "generation-written", "prepared"}
    BY DEF JournalOfStep, Before
  <2> QED
    BY <2>1, <2>2 DEF PendingAt, Pending
<1>2. /\ SetStatus(j, "failed") /\ Release /\ "failed" \in Final
      /\ UNCHANGED <<schema, published, files, mutations, crossed, tampered>>
  BY DEF FailOperation, Current, Final
<1> HIDE DEF j
<1> QED
  BY <1>1, <1>2, Settles


LEMMA WorkKeeps ==
  ASSUME DDLInvariant, Work
  PROVE  DDLInvariant'
<1> USE DEF DDLInvariant
<1>1. step = "work" /\ request \in Request
  BY DEF Work, RequestInHand, Before
<1>2. CASE Change(request) = {}
  <2>1. FailOperation /\ step \in Before
    BY <1>1, <1>2 DEF Work, Before
  <2> QED
    BY <2>1, FailOperationKeeps
<1>3. CASE Change(request) # {}
  <2> DEFINE c == Len(journals)
  <2>1. /\ candidate' \in Change(request)
        /\ step' = IF request.materialize THEN "materialize" ELSE "prepare"
        /\ UNCHANGED <<schema, journals, request, published, files, mutations,
                       crossed, tampered>>
    BY <1>3 DEF Work
  <2>2. schema.view <= c /\ c \in Nat
    BY <1>1, JournalsAreJournals DEF VersionsAreCounted, Before, DDLTypes
  <2>3. /\ candidate' \in Document /\ candidate'.view <= c + 1
        /\ \/ candidate'.path = schema.path
           \/ schema.path = None /\ candidate'.path = 0
        /\ request.materialize => candidate'.path = schema.path /\ schema.path # None
    BY <1>1, <2>1, <2>2, ChangeGives
  <2>4. /\ c > 0 /\ journals[c].request = request /\ journals[c].status = "started"
        /\ journals[c].new = None /\ c \notin published /\ journals[c].old = schema
    BY <1>1 DEF JournalOfStep, Before, After
  <2>5. DDLTypes'
    BY <2>1, <2>3 DEF DDLTypes, files, mutations, Before
  <2>6. RequestInHand'
    BY <1>1, <2>1 DEF RequestInHand, Before, After
  <2>7. PathsWereDeclared'
    BY <2>1 DEF PathsWereDeclared, mutations
  <2>8. VersionsAreCounted'
    BY <1>1, <2>1, <2>2, <2>3 DEF VersionsAreCounted, Before
  <2>9. OneUnfinished'
    BY <2>1 DEF OneUnfinished, PendingAt
  <2>10. JournalOfStep'
    BY <2>1, <2>4 DEF JournalOfStep, Before, After
  <2>11. CandidateOfStep'
    BY <2>1, <2>3 DEF CandidateOfStep
  <2>12. GenerationIsNamed'
    BY <2>1 DEF GenerationIsNamed
  <2>13. UnfinishedFitsSchema'
    BY <2>1 DEF UnfinishedFitsSchema, PendingAt, GenerationHas, files, mutations
  <2>14. OutcomeIsTold'
    BY <2>1 DEF OutcomeIsTold, mutations
  <2>15. KeyUsedAgain'
    BY <2>1 DEF KeyUsedAgain
  <2>16. RowsFollowSchema'
    BY <2>1 DEF RowsFollowSchema, files, mutations
  <2>17. FilesHaveAcknowledged'
    BY <2>1 DEF FilesHaveAcknowledged, files, mutations
  <2> QED
    BY <2>5, <2>6, <2>7, <2>8, <2>9, <2>10, <2>11, <2>12, <2>13, <2>14, <2>15, <2>16, <2>17
<1> QED
  BY <1>2, <1>3

\* The path of the generation an operation may write is not yet of any document.
LEMMA GenerationIsNew ==
  ASSUME DDLInvariant, step \in Before
  PROVE  /\ Len(journals) \in Path \ {0} /\ Len(journals) # None
         /\ Len(journals) \notin published /\ Len(journals) # schema.path
         /\ PendingAt = {Len(journals)}
<1> USE DEF DDLInvariant
<1> DEFINE c == Len(journals)
<1>1. /\ c \in Nat /\ c <= MaxOps /\ DOMAIN journals = 1..c
  BY JournalsAreJournals DEF DDLTypes
<1>2. /\ c > 0 /\ c \notin published
      /\ journals[c].status \in {"started", "generation-written", "prepared"}
  BY DEF JournalOfStep, Before
<1>3. c \in Path \ {0} /\ c # None
  BY <1>1, <1>2 DEF Path
<1>4. c # schema.path
  BY <1>2, <1>3 DEF PathsWereDeclared
<1>5. c \in PendingAt
  BY <1>1, <1>2 DEF PendingAt, Pending
<1> QED
  BY <1>2, <1>3, <1>4, <1>5 DEF OneUnfinished

LEMMA OpenKeeps ==
  ASSUME DDLInvariant, OpenGeneration
  PROVE  DDLInvariant'
<1> USE DEF DDLInvariant
<1> DEFINE c == Len(journals)
<1>1. /\ step = "materialize" /\ step' = "write"
      /\ file' = [file EXCEPT ![c] = "partial"]
      /\ UNCHANGED <<schema, journals, request, candidate, published, rows, edited,
                     mutations, crossed, tampered>>
  BY DEF OpenGeneration, Current
<1>2. step \in Before /\ c \in Path /\ PendingAt = {c}
  BY <1>1, GenerationIsNew DEF Before
<1>3. /\ c > 0 /\ journals[c].request = request /\ journals[c].status = "started"
      /\ journals[c].new = None /\ c \notin published /\ journals[c].old = schema
  BY <1>1 DEF JournalOfStep, Before, After
<1>4. DDLTypes'
  BY <1>1, <1>2 DEF DDLTypes, mutations, Before
<1>5. RequestInHand'
  BY <1>1 DEF RequestInHand, Before, After
<1>6. PathsWereDeclared'
  BY <1>1 DEF PathsWereDeclared, mutations
<1>7. VersionsAreCounted'
  BY <1>1, <1>2 DEF VersionsAreCounted
<1>8. OneUnfinished'
  BY <1>1 DEF OneUnfinished, PendingAt
<1>9. JournalOfStep'
  BY <1>1, <1>3 DEF JournalOfStep, Before, After
<1>10. CandidateOfStep'
  BY <1>1 DEF CandidateOfStep
<1>11. GenerationIsNamed'
  BY <1>1 DEF GenerationIsNamed
<1>12. UnfinishedFitsSchema'
  <2>1. journals[c].generation = None
    BY <1>2, <1>3 DEF GenerationIsNamed, PendingAt
  <2>2. PendingAt' = {c} /\ journals' = journals
    BY <1>1, <1>2 DEF PendingAt
  <2> QED
    BY <1>1, <1>2, <1>3, <2>1, <2>2 DEF UnfinishedFitsSchema
<1>13. OutcomeIsTold'
  BY <1>1 DEF OutcomeIsTold, mutations
<1>14. KeyUsedAgain'
  BY <1>1 DEF KeyUsedAgain
<1>15. RowsFollowSchema'
  BY <1>1 DEF RowsFollowSchema, mutations
<1>16. FilesHaveAcknowledged'
  BY <1>1 DEF FilesHaveAcknowledged, mutations
<1> QED
  BY <1>4, <1>5, <1>6, <1>7, <1>8, <1>9, <1>10, <1>11, <1>12, <1>13, <1>14, <1>15, <1>16

LEMMA WriteKeeps ==
  ASSUME DDLInvariant, WriteGeneration
  PROVE  DDLInvariant'
<1> USE DEF DDLInvariant
<1> DEFINE c == Len(journals)
<1>1. /\ step = "write" /\ step' = "prepare"
      /\ file' = [file EXCEPT ![c] = "complete"]
      /\ rows' = [rows EXCEPT ![c] = rows[schema.path]]
      /\ edited' = [edited EXCEPT ![c] = edited[schema.path]]
      /\ candidate' = [candidate EXCEPT !.path = c]
      /\ UNCHANGED <<schema, journals, request, published, mutations, crossed, tampered>>
  BY DEF WriteGeneration, Current
<1>2. /\ step \in Before /\ c \in Path /\ PendingAt = {c} /\ c # schema.path /\ c # None
      /\ c \notin published
  BY <1>1, GenerationIsNew DEF Before
<1>3. /\ c > 0 /\ journals[c].request = request /\ journals[c].status = "started"
      /\ journals[c].new = None /\ journals[c].old = schema
  BY <1>1 DEF JournalOfStep, Before, After
<1>4. /\ schema.path # None /\ schema.path \in Path
      /\ candidate' \in Document /\ candidate'.view = candidate.view
      /\ candidate'.path = c
  <2>1. schema.path # None /\ schema \in Document /\ candidate \in Document
    BY <1>1 DEF CandidateOfStep, DDLTypes
  <2>2. candidate' \in Document /\ candidate'.view = candidate.view /\ candidate'.path = c
    BY <1>1, <1>2, <2>1 DEF Document
  <2> QED
    BY <2>1, <2>2, DocumentParts
<1>5. /\ rows' \in [Path -> SUBSET Row] /\ rows'[c] = rows[schema.path]
      /\ edited' \in [Path -> SUBSET Row] /\ edited'[c] = edited[schema.path]
      /\ \A p \in Path : p # c => rows'[p] = rows[p] /\ edited'[p] = edited[p]
      /\ file' \in [Path -> {"absent", "partial", "complete"}] /\ file'[c] = "complete"
  BY <1>1, <1>2, <1>4 DEF DDLTypes
<1>6. DDLTypes'
  BY <1>1, <1>4, <1>5 DEF DDLTypes, mutations, Before
<1>7. RequestInHand'
  BY <1>1 DEF RequestInHand, Before, After
<1>8. PathsWereDeclared'
  BY <1>1 DEF PathsWereDeclared, mutations
<1>9. VersionsAreCounted'
  BY <1>1, <1>2, <1>4 DEF VersionsAreCounted
<1>10. OneUnfinished'
  BY <1>1 DEF OneUnfinished, PendingAt
<1>11. JournalOfStep'
  BY <1>1, <1>2, <1>3 DEF JournalOfStep, Before, After
<1>12. CandidateOfStep'
  BY <1>1, <1>2, <1>4, <1>5 DEF CandidateOfStep
<1>13. GenerationIsNamed'
  BY <1>1 DEF GenerationIsNamed
<1>14. UnfinishedFitsSchema'
  <2>1. journals[c].generation = None
    BY <1>2, <1>3 DEF GenerationIsNamed, PendingAt
  <2>2. PendingAt' = {c} /\ journals' = journals
    BY <1>1, <1>2 DEF PendingAt
  <2> QED
    BY <1>1, <1>2, <1>3, <2>1, <2>2 DEF UnfinishedFitsSchema
<1>15. OutcomeIsTold'
  BY <1>1 DEF OutcomeIsTold, mutations
<1>16. KeyUsedAgain'
  BY <1>1 DEF KeyUsedAgain
<1>17. RowsFollowSchema'
  BY <1>1, <1>2, <1>4, <1>5 DEF RowsFollowSchema, mutations
<1>18. FilesHaveAcknowledged'
  BY <1>1, <1>4, <1>5 DEF FilesHaveAcknowledged, mutations
<1> QED
  BY <1>6, <1>7, <1>8, <1>9, <1>10, <1>11, <1>12, <1>13, <1>14, <1>15, <1>16, <1>17, <1>18

LEMMA PrepareKeeps ==
  ASSUME DDLInvariant, Prepare
  PROVE  DDLInvariant'
<1> USE DEF DDLInvariant
<1> DEFINE c == Len(journals)
           named == candidate.path = c
           e == IF named
                  THEN [journals[c] EXCEPT !.status = "generation-written", !.new = candidate,
                                           !.generation = c, !.digest = Digest(c)]
                  ELSE [journals[c] EXCEPT !.status = "prepared", !.new = candidate]
           T == Journal
<1>1. /\ step = "prepare" /\ step' = "switch"
      /\ journals' = [journals EXCEPT ![c] = e]
      /\ UNCHANGED <<schema, request, candidate, published, files, mutations, crossed, tampered>>
  BY DEF Prepare, Current
<1>2. /\ step \in Before /\ c \in Path /\ PendingAt = {c} /\ c # schema.path /\ c # None
      /\ c \notin published /\ c \in DOMAIN journals /\ c # 0
  <2>1. step \in Before
    BY <1>1 DEF Before
  <2> QED
    BY <2>1, GenerationIsNew DEF PendingAt
<1>3. /\ c > 0 /\ journals[c].request = request /\ journals[c].status = "started"
      /\ journals[c].new = None /\ journals[c].old = schema /\ journals[c].generation = None
  <2>1. /\ c > 0 /\ journals[c].request = request /\ journals[c].status = "started"
        /\ journals[c].new = None /\ journals[c].old = schema
    BY <1>1 DEF JournalOfStep, Before, After
  <2> QED
    BY <1>2, <2>1 DEF GenerationIsNamed
<1>4. /\ journals \in Seq(Journal) /\ c \in Nat /\ DOMAIN journals = 1..c
      /\ journals[c] \in Journal /\ candidate \in Document
      /\ Digest(c) = <<rows[c], edited[c]>> /\ Digest(c) \in (SUBSET Row) \X (SUBSET Row)
  BY <1>2, JournalsAreJournals DEF DDLTypes, Digest
<1>5. /\ e \in Journal /\ e.request = request /\ e.old = schema /\ e.new = candidate
      /\ e.status = IF named THEN "generation-written" ELSE "prepared"
      /\ e.generation = IF named THEN c ELSE None
      /\ named => e.digest = <<rows[c], edited[c]>>
  <2>1. CASE named
    <3>1. e = [journals[c] EXCEPT !.status = "generation-written", !.new = candidate,
                                  !.generation = c, !.digest = Digest(c)]
      BY <2>1
    <3>2. "generation-written" \in Status
      BY DEF Status, Pending
    <3> HIDE DEF e
    <3> QED
      BY <1>2, <1>3, <1>4, <2>1, <3>1, <3>2 DEF Journal
  <2>2. CASE ~named
    <3>1. e = [journals[c] EXCEPT !.status = "prepared", !.new = candidate]
      BY <2>2
    <3>2. "prepared" \in Status
      BY DEF Status, Pending
    <3> HIDE DEF e
    <3> QED
      BY <1>2, <1>3, <1>4, <2>2, <3>1, <3>2 DEF Journal
  <2> QED
    BY <2>1, <2>2
<1>6. candidate # None
  BY <1>4, DocumentParts
<1>7. named => file[c] = "complete"
  BY <1>1, <1>2 DEF CandidateOfStep
<1> HIDE DEF e
<1>8. /\ journals' \in Seq(Journal) /\ Len(journals') = c /\ DOMAIN journals' = DOMAIN journals
      /\ journals'[c] = e
      /\ \A i \in DOMAIN journals : i # c => journals'[i] = journals[i]
  <2>1. journals \in Seq(T) /\ e \in T
    BY <1>4, <1>5
  <2> HIDE DEF T
  <2>2. /\ journals' \in Seq(T) /\ Len(journals') = c /\ DOMAIN journals' = DOMAIN journals
        /\ journals'[c] = e
        /\ \A i \in DOMAIN journals : i # c => journals'[i] = journals[i]
    BY <1>1, <1>2, <2>1
  <2> QED
    BY <2>2 DEF T
<1>9. PendingAt' = {c}
  BY <1>2, <1>5, <1>8 DEF PendingAt, Pending
<1>10. DDLTypes'
  BY <1>1, <1>8 DEF DDLTypes, files, mutations, Before
<1>11. RequestInHand'
  BY <1>1 DEF RequestInHand, Before, After
<1>12. PathsWereDeclared'
  BY <1>1 DEF PathsWereDeclared, mutations
<1>13. VersionsAreCounted'
  BY <1>1, <1>2, <1>8 DEF VersionsAreCounted
<1>14. OneUnfinished'
  BY <1>1, <1>8, <1>9 DEF OneUnfinished
<1>15. JournalOfStep'
  BY <1>1, <1>2, <1>3, <1>5, <1>8 DEF JournalOfStep, Before, After
<1>16. CandidateOfStep'
  BY <1>1, <1>8 DEF CandidateOfStep, files
<1>17. GenerationIsNamed'
  BY <1>1, <1>2, <1>5, <1>6, <1>8 DEF GenerationIsNamed
<1>18. UnfinishedFitsSchema'
  <2>1. named => GenerationHas(c)'
    BY <1>1, <1>5, <1>7, <1>8 DEF GenerationHas, files
  <2> QED
    BY <1>1, <1>2, <1>5, <1>8, <1>9, <2>1 DEF UnfinishedFitsSchema
<1>19. OutcomeIsTold'
  BY <1>1, <1>5, <1>8 DEF OutcomeIsTold, mutations
<1>20. KeyUsedAgain'
  <2>1. \A i \in DOMAIN journals :
          /\ journals'[i].request = journals[i].request
          /\ i # Len(journals) => journals'[i].status = journals[i].status
    BY <1>3, <1>5, <1>8
  <2>2. KeyUsedAgain
    OBVIOUS
  <2> QED
    BY <1>4, <1>8, <2>1, <2>2, KeysKept
<1>21. RowsFollowSchema'
  BY <1>1 DEF RowsFollowSchema, files, mutations
<1>22. FilesHaveAcknowledged'
  BY <1>1 DEF FilesHaveAcknowledged, files, mutations
<1> QED
  BY <1>10, <1>11, <1>12, <1>13, <1>14, <1>15, <1>16, <1>17, <1>18, <1>19, <1>20, <1>21, <1>22


\* The switch: the document of the operation is the schema, and its generation has
\* the rows of the path before.
LEMMA SwitchKeeps ==
  ASSUME DDLInvariant, Switch
  PROVE  DDLInvariant'
<1> USE DEF DDLInvariant
<1> DEFINE c == Len(journals)
<1>1. /\ step = "switch" /\ step' = "mark" /\ schema' = candidate
      /\ published' = published \cup {c}
      /\ crossed' = crossed \cup LeftBehind(candidate)
      /\ UNCHANGED <<journals, request, candidate, files, mutations, tampered>>
  BY DEF Switch, Current
<1>2. /\ step \in Before /\ c \in Path /\ PendingAt = {c} /\ c # schema.path /\ c # None
      /\ c \notin published /\ c \in DOMAIN journals
  <2>1. step \in Before
    BY <1>1 DEF Before
  <2> QED
    BY <2>1, GenerationIsNew DEF PendingAt
<1>3. /\ c > 0 /\ journals[c].request = request /\ journals[c].new = candidate
      /\ journals[c].status = IF candidate.path = c THEN "generation-written" ELSE "prepared"
  BY <1>1 DEF JournalOfStep, Before, After
<1>4. /\ c \in Nat /\ DOMAIN journals = 1..c /\ candidate \in Document /\ candidate # None
  BY JournalsAreJournals, DocumentParts DEF DDLTypes
<1>5. \/ candidate.path = schema.path
      \/ schema.path = None /\ candidate.path = 0
      \/ schema.path # None /\ candidate.path = c /\ rows[c] = rows[schema.path]
         /\ edited[c] = edited[schema.path]
  BY <1>1 DEF CandidateOfStep
<1>6. LeftBehind(candidate) \in SUBSET Row
  BY DEF LeftBehind
<1>7. DDLTypes'
  <2>1. c \in 1..Len(journals)
    BY <1>2, <1>4
  <2>2. published' \in SUBSET (1..Len(journals))
    BY <1>1, <2>1 DEF DDLTypes
  <2>3. crossed' \in SUBSET Row
    BY <1>1, <1>6 DEF DDLTypes
  <2> QED
    BY <1>1, <1>4, <2>2, <2>3 DEF DDLTypes, files, mutations, After
<1>8. RequestInHand'
  BY <1>1, <1>2 DEF RequestInHand, After
<1>9. PathsWereDeclared'
  BY <1>1, <1>5 DEF PathsWereDeclared, mutations
<1>10. VersionsAreCounted'
  BY <1>1 DEF VersionsAreCounted, Before
<1>11. OneUnfinished'
  BY <1>1 DEF OneUnfinished, PendingAt
<1>12. JournalOfStep'
  BY <1>1, <1>3 DEF JournalOfStep, Before, After
<1>13. CandidateOfStep'
  BY <1>1 DEF CandidateOfStep
<1>14. GenerationIsNamed'
  BY <1>1, <1>3, <1>4 DEF GenerationIsNamed
<1>15. UnfinishedFitsSchema'
  <2>1. ~tampered /\ journals[c].generation # None => GenerationHas(c)
    BY <1>1, <1>2 DEF UnfinishedFitsSchema
  <2>2. PendingAt' = {c} /\ GenerationHas(c)' = GenerationHas(c)
    BY <1>1, <1>2 DEF PendingAt, GenerationHas, files, mutations
  <2> QED
    BY <1>1, <1>3, <2>1, <2>2 DEF UnfinishedFitsSchema
<1>16. OutcomeIsTold'
  BY <1>1, <1>3 DEF OutcomeIsTold, mutations
<1>17. KeyUsedAgain'
  BY <1>1 DEF KeyUsedAgain
<1>18. RowsFollowSchema'
  <2>1. SUFFICES ASSUME ~tampered, NEW x \in Row \ (crossed' \cup rotated)
                 PROVE  /\ answer[x] = "queued" => target[x] = candidate.path
                        /\ answer[x] = "ok" =>
                             /\ candidate.path # None
                             /\ x \in rows[candidate.path] <=> outcome[x] # "removed"
                             /\ x \in edited[candidate.path] <=> outcome[x] = "edited"
    BY <1>1 DEF RowsFollowSchema, files, mutations
  <2>2. /\ answer[x] = "queued" => target[x] = schema.path
        /\ answer[x] = "ok" =>
             /\ schema.path # None
             /\ x \in rows[schema.path] <=> outcome[x] # "removed"
             /\ x \in edited[schema.path] <=> outcome[x] = "edited"
    BY <1>1, <2>1 DEF RowsFollowSchema
  <2>3. answer[x] = "queued" => candidate.path = schema.path
    BY <1>1, <2>1, <2>2 DEF LeftBehind
  <2> QED
    BY <1>2, <1>5, <2>2, <2>3
<1>19. FilesHaveAcknowledged'
  BY <1>1 DEF FilesHaveAcknowledged, files, mutations
<1> QED
  BY <1>7, <1>8, <1>9, <1>10, <1>11, <1>12, <1>13, <1>14, <1>15, <1>16, <1>17, <1>18, <1>19

LEMMA MarkKeeps ==
  ASSUME DDLInvariant, MarkSwitched
  PROVE  DDLInvariant'
<1> USE DEF DDLInvariant
<1> DEFINE c == Len(journals)
<1>1. /\ step = "mark" /\ step' = "finalize" /\ SetStatus(c, "switched")
      /\ UNCHANGED <<schema, request, candidate, published, files, mutations, crossed, tampered>>
  BY DEF MarkSwitched, Current
<1>2. /\ c \in Nat /\ DOMAIN journals = 1..c /\ journals \in Seq(Journal)
  BY JournalsAreJournals DEF DDLTypes
<1>3. /\ c > 0 /\ c \in DOMAIN journals /\ c \in published
      /\ journals[c].request = request /\ journals[c].new = candidate /\ candidate = schema
      /\ journals[c].status \in {"generation-written", "prepared"}
  <2>1. /\ c > 0 /\ c \in published
        /\ journals[c].request = request /\ journals[c].new = candidate /\ candidate = schema
        /\ journals[c].status \in {"generation-written", "prepared"}
    BY <1>1 DEF JournalOfStep, Before, After
  <2> QED
    BY <1>2, <2>1
<1>4. /\ journals' \in Seq(Journal) /\ Len(journals') = c
      /\ DOMAIN journals' = DOMAIN journals
      /\ journals'[c].status = "switched"
      /\ \A i \in DOMAIN journals : i # c => journals'[i] = journals[i]
      /\ \A i \in DOMAIN journals :
           /\ journals'[i].request = journals[i].request
           /\ journals'[i].old = journals[i].old
           /\ journals'[i].new = journals[i].new
           /\ journals'[i].generation = journals[i].generation
           /\ journals'[i].digest = journals[i].digest
  <2>1. "switched" \in Status
    BY DEF Status, Pending
  <2> HIDE DEF c
  <2>2. /\ journals' \in Seq(Journal) /\ Len(journals') = Len(journals)
        /\ DOMAIN journals' = DOMAIN journals
        /\ journals'[c].status = "switched"
        /\ \A i \in DOMAIN journals : i # c => journals'[i] = journals[i]
        /\ \A i \in DOMAIN journals :
             /\ journals'[i].request = journals[i].request
             /\ journals'[i].old = journals[i].old
             /\ journals'[i].new = journals[i].new
             /\ journals'[i].generation = journals[i].generation
             /\ journals'[i].digest = journals[i].digest
    BY <1>1, <1>2, <1>3, <2>1, StatusIsSet
  <2> QED
    BY <2>2 DEF c
<1>5. PendingAt = {c} /\ PendingAt' = {c}
  BY <1>2, <1>3, <1>4 DEF PendingAt, Pending, OneUnfinished
<1>6. DDLTypes'
  BY <1>1, <1>4 DEF DDLTypes, files, mutations, After
<1>7. RequestInHand'
  BY <1>1 DEF RequestInHand, Before, After
<1>8. PathsWereDeclared'
  BY <1>1 DEF PathsWereDeclared, mutations
<1>9. VersionsAreCounted'
  BY <1>1, <1>4 DEF VersionsAreCounted, Before
<1>10. OneUnfinished'
  BY <1>1, <1>4, <1>5 DEF OneUnfinished
<1>11. JournalOfStep'
  BY <1>1, <1>3, <1>4 DEF JournalOfStep, Before, After
<1>12. CandidateOfStep'
  BY <1>1 DEF CandidateOfStep
<1>13. GenerationIsNamed'
  BY <1>1, <1>4 DEF GenerationIsNamed
<1>14. UnfinishedFitsSchema'
  <2>1. GenerationHas(c)' = GenerationHas(c)
    BY <1>1, <1>3, <1>4 DEF GenerationHas, files, mutations
  <2> QED
    BY <1>1, <1>3, <1>4, <1>5, <2>1 DEF UnfinishedFitsSchema
<1>15. OutcomeIsTold'
  BY <1>1, <1>3, <1>4 DEF OutcomeIsTold, mutations
<1>16. KeyUsedAgain'
  <2>1. /\ KeyUsedAgain
        /\ \A i \in DOMAIN journals :
             /\ journals'[i].request = journals[i].request
             /\ i # Len(journals) => journals'[i].status = journals[i].status
    BY <1>4
  <2> QED
    BY <1>2, <1>4, <2>1, KeysKept
<1>17. RowsFollowSchema'
  BY <1>1 DEF RowsFollowSchema, files, mutations
<1>18. FilesHaveAcknowledged'
  BY <1>1 DEF FilesHaveAcknowledged, files, mutations
<1> QED
  BY <1>6, <1>7, <1>8, <1>9, <1>10, <1>11, <1>12, <1>13, <1>14, <1>15, <1>16, <1>17, <1>18

LEMMA FinalizeKeeps ==
  ASSUME DDLInvariant, Finalize
  PROVE  DDLInvariant'
<1> USE DEF DDLInvariant
<1> DEFINE j == Len(journals)
<1>1. j \in PendingAt /\ j \in published
  <2>1. step = "finalize"
    BY DEF Finalize
  <2>2. j > 0 /\ j \in published /\ journals[j].status = "switched"
    BY <2>1 DEF JournalOfStep, Before, After
  <2>3. j \in DOMAIN journals
    BY <2>2, JournalsAreJournals DEF DDLTypes
  <2> QED
    BY <2>2, <2>3 DEF PendingAt, Pending
<1>2. /\ SetStatus(j, "finalized") /\ Release /\ "finalized" \in Final
      /\ UNCHANGED <<schema, published, files, mutations, crossed, tampered>>
  BY DEF Finalize, Current, Final
<1> HIDE DEF j
<1> QED
  BY <1>1, <1>2, Settles

LEMMA OperationFailsKeeps ==
  ASSUME DDLInvariant, OperationFails
  PROVE  DDLInvariant'
<1>1. \/ step \in Before /\ FailOperation
      \/ Release /\ UNCHANGED <<schema, journals, published, files, mutations, crossed, tampered>>
  BY DEF OperationFails, Before
<1> QED
  BY <1>1, FailOperationKeeps, ReleaseKeeps

--------------------------------------------------------------------------------

\* What recovery knows of the journal it settles.
LEMMA UnfinishedIsLast ==
  ASSUME DDLInvariant, NEW j \in PendingAt
  PROVE  /\ j \in DOMAIN journals /\ j = Len(journals) /\ j \in Path \ {0} /\ j # None
         /\ j \in published => journals[j].new # None
         /\ ~tampered => /\ j \notin published => journals[j].old = schema
                         /\ j \in published => journals[j].new = schema
<1> USE DEF DDLInvariant
<1>1. j \in DOMAIN journals /\ j = Len(journals)
  BY DEF PendingAt, OneUnfinished
<1>2. /\ Len(journals) \in Nat /\ DOMAIN journals = 1..Len(journals) /\ Len(journals) <= MaxOps
  BY JournalsAreJournals DEF DDLTypes
<1>3. j \in Path \ {0} /\ j # None
  BY <1>1, <1>2 DEF Path
<1> QED
  BY <1>1, <1>3 DEF GenerationIsNamed, UnfinishedFitsSchema

LEMMA RecoverFinalizesKeeps ==
  ASSUME DDLInvariant, RecoverFinalizes
  PROVE  DDLInvariant'
<1>1. PICK j \in PendingAt :
        /\ Recovering(j) /\ MatchesNew(j) /\ Evidence(j)
        /\ SetStatus(j, "finalized") /\ UNCHANGED files
  BY DEF RecoverFinalizes
<1>2. ~tampered => j \in published \/ journals[j].new = journals[j].old
  BY <1>1, UnfinishedIsLast DEF MatchesNew
<1>3. /\ UNCHANGED <<schema, published, files, mutations, crossed, tampered>>
      /\ step = "recover" /\ UNCHANGED <<step, request, candidate>>
      /\ "finalized" \in Final
  BY <1>1 DEF Recovering, Final
<1> QED
  BY <1>1, <1>2, <1>3, Settles

LEMMA RecoverAbandonsKeeps ==
  ASSUME DDLInvariant, RecoverAbandons
  PROVE  DDLInvariant'
<1>1. PICK j \in PendingAt :
        /\ Recovering(j) /\ ~MatchesNew(j) /\ MatchesOld(j)
        /\ SetStatus(j, "abandoned") /\ UNCHANGED files
  BY DEF RecoverAbandons
<1>2. ~tampered => j \notin published
  BY <1>1, UnfinishedIsLast DEF MatchesNew
<1>3. /\ UNCHANGED <<schema, published, files, mutations, crossed, tampered>>
      /\ step = "recover" /\ UNCHANGED <<step, request, candidate>>
      /\ "abandoned" \in Final
  BY <1>1 DEF Recovering, Final
<1> QED
  BY <1>1, <1>2, <1>3, Settles

LEMMA RecoverFailsClosedKeeps ==
  ASSUME DDLInvariant, RecoverFailsClosed
  PROVE  DDLInvariant'
<1> USE DEF DDLInvariant
<1>1. PICK j \in PendingAt :
        /\ Recovering(j) /\ (IF MatchesNew(j) THEN ~Evidence(j) ELSE ~MatchesOld(j))
        /\ SetStatus(j, "fail_closed") /\ UNCHANGED files
  BY DEF RecoverFailsClosed
<1>2. ASSUME ~tampered
      PROVE  /\ j \in published
             /\ \/ \E x \in Row : answer[x] \in Appended /\ target[x] = journals[j].generation
                \/ journals[j].generation \in rewritten
  <2>1. MatchesNew(j) /\ ~Evidence(j)
    BY <1>1, <1>2, UnfinishedIsLast DEF MatchesNew, MatchesOld
  <2>2. /\ journals[j].new = schema /\ journals[j].generation # None
        /\ journals[j].generation = j /\ schema.path = j
        /\ file[j] = "absent" \/ <<rows[j], edited[j]>> # journals[j].digest
    <3>1. /\ journals[j].new = schema /\ journals[j].generation # None
          /\ \/ file[journals[j].generation] = "absent"
             \/ Digest(journals[j].generation) # journals[j].digest
      BY <2>1 DEF MatchesNew, Evidence
    <3> QED
      BY <3>1, UnfinishedIsLast DEF GenerationIsNamed, Digest
  <2>3. j \in published
    BY <2>2, UnfinishedIsLast DEF PathsWereDeclared
  <2>4. GenerationHas(j)
    BY <1>2, <2>2, <2>3 DEF UnfinishedFitsSchema
  <2>5. CASE j \in rewritten
    BY <2>2, <2>3, <2>5
  <2>6. CASE j \notin rewritten
    <3>1. /\ edited[j] = journals[j].digest[2] /\ journals[j].digest[1] \subseteq rows[j]
          /\ <<rows[j], edited[j]>> # journals[j].digest
      BY <2>2, <2>4, <2>6 DEF GenerationHas
    <3>2. journals[j].digest = <<journals[j].digest[1], journals[j].digest[2]>>
      <4>1. journals[j].digest \in (SUBSET Row) \X (SUBSET Row)
        BY UnfinishedIsLast, JournalsAreJournals, JournalParts DEF DDLTypes
      <4> QED
        BY <4>1
    <3>3. rows[j] # journals[j].digest[1]
      BY <3>1, <3>2
    <3>4. PICK x \in rows[j] : x \notin journals[j].digest[1]
      BY <3>1, <3>3
    <3>5. answer[x] \in Appended /\ target[x] = j /\ x \in Row
      BY <2>4, <2>6, <3>4, UnfinishedIsLast DEF GenerationHas, DDLTypes
    <3> QED
      BY <2>2, <2>3, <3>5
  <2> QED
    BY <2>5, <2>6
<1>3. /\ UNCHANGED <<schema, published, files, mutations, crossed, tampered>>
      /\ step = "recover" /\ UNCHANGED <<step, request, candidate>>
      /\ "fail_closed" \in Final
  BY <1>1 DEF Recovering, Final
<1> QED
  BY <1>1, <1>2, <1>3, Settles


\* A file that is removed has nothing; the others stay as they are.
LEMMA RemovedGives ==
  ASSUME DDLTypes, NEW g \in Path, Removed(g)
  PROVE  /\ rows' \in [Path -> SUBSET Row] /\ edited' \in [Path -> SUBSET Row]
         /\ file' \in [Path -> {"absent", "partial", "complete"}]
         /\ \A p \in Path : p # g => rows'[p] = rows[p] /\ edited'[p] = edited[p]
         /\ rows'[g] = {} /\ edited'[g] = {}
BY DEF DDLTypes, Removed

LEMMA RecoverRemovesKeeps ==
  ASSUME DDLInvariant, RecoverRemoves
  PROVE  DDLInvariant'
<1> USE DEF DDLInvariant
<1>1. PICK j \in PendingAt : \E g \in Unpublished :
        /\ Recovering(j) /\ ~MatchesNew(j) /\ MatchesOld(j)
        /\ Removed(g)
        /\ UNCHANGED journals
  BY DEF RecoverRemoves
<1>2. PICK g \in Unpublished : Removed(g)
  BY <1>1
<1>3. /\ step = "recover"
      /\ UNCHANGED <<schema, journals, step, request, candidate, published, mutations,
                     crossed, tampered>>
  BY <1>1 DEF Recovering
<1>4. g \in Path /\ g # schema.path
  BY DEF Unpublished
<1>5. /\ rows' \in [Path -> SUBSET Row] /\ edited' \in [Path -> SUBSET Row]
      /\ file' \in [Path -> {"absent", "partial", "complete"}]
      /\ \A p \in Path : p # g => rows'[p] = rows[p] /\ edited'[p] = edited[p]
      /\ rows'[g] = {} /\ edited'[g] = {}
  BY <1>2, <1>4, RemovedGives DEF DDLTypes
<1>6. DDLTypes'
  BY <1>3, <1>5 DEF DDLTypes, mutations
<1>7. RequestInHand'
  BY <1>3 DEF RequestInHand
<1>8. PathsWereDeclared'
  BY <1>3 DEF PathsWereDeclared, mutations
<1>9. VersionsAreCounted'
  BY <1>3 DEF VersionsAreCounted
<1>10. OneUnfinished'
  BY <1>3 DEF OneUnfinished, PendingAt
<1>11. JournalOfStep' /\ CandidateOfStep'
  BY <1>3 DEF JournalOfStep, CandidateOfStep, Before, After
<1>12. GenerationIsNamed'
  BY <1>3 DEF GenerationIsNamed
<1>13. UnfinishedFitsSchema'
  <2>1. ~tampered => j \notin published
    BY <1>1, UnfinishedIsLast DEF MatchesNew
  <2>2. \A i \in PendingAt : i = j
    BY UnfinishedIsLast
  <2>3. PendingAt' = PendingAt
    BY <1>3 DEF PendingAt
  <2> QED
    BY <1>3, <2>1, <2>2, <2>3 DEF UnfinishedFitsSchema
<1>14. OutcomeIsTold'
  BY <1>3 DEF OutcomeIsTold, mutations
<1>15. KeyUsedAgain'
  BY <1>3 DEF KeyUsedAgain
<1>16. RowsFollowSchema'
  <2>1. schema.path # None => schema.path \in Path
    BY DocumentParts DEF DDLTypes
  <2> QED
    BY <1>3, <1>4, <1>5, <2>1 DEF RowsFollowSchema, mutations
<1>17. FilesHaveAcknowledged'
  BY <1>3, <1>4, <1>5 DEF FilesHaveAcknowledged, mutations
<1> QED
  BY <1>6, <1>7, <1>8, <1>9, <1>10, <1>11, <1>12, <1>13, <1>14, <1>15, <1>16, <1>17

--------------------------------------------------------------------------------

\* The mutations of the table.
LEMMA EnqueueKeeps ==
  ASSUME DDLInvariant, NEW x \in Row, Enqueue(x)
  PROVE  DDLInvariant'
<1> USE DEF DDLInvariant
<1>1. /\ answer[x] = "none" /\ schema.path # None
      /\ answer' = [answer EXCEPT ![x] = "queued"]
      /\ target' = [target EXCEPT ![x] = schema.path]
      /\ UNCHANGED <<schema, journals, step, request, candidate, published, files, requests,
                     waiting, outcome, rotated, rewritten, crossed, tampered>>
  BY DEF Enqueue, Declared, coordinator
<1>2. schema.path \in Path
  BY <1>1, DocumentParts DEF DDLTypes
<1>3. /\ answer' \in [Row -> {"none", "queued", "locked"} \cup Appended]
      /\ target' \in [Row -> Path \cup {None}]
      /\ answer'[x] = "queued" /\ target'[x] = schema.path
      /\ \A y \in Row : y # x => answer'[y] = answer[y] /\ target'[y] = target[y]
      /\ \A y \in Row : answer[y] \in Appended => answer'[y] = answer[y] /\ target'[y] = target[y]
      /\ answer[x] \notin Appended
  BY <1>1, <1>2 DEF DDLTypes, Appended
<1>4. DDLTypes'
  BY <1>1, <1>3 DEF DDLTypes, files
<1>5. RequestInHand'
  BY <1>1 DEF RequestInHand
<1>6. PathsWereDeclared'
  BY <1>1, <1>3 DEF PathsWereDeclared
<1>7. VersionsAreCounted'
  BY <1>1 DEF VersionsAreCounted
<1>8. OneUnfinished'
  BY <1>1 DEF OneUnfinished, PendingAt
<1>9. JournalOfStep'
  BY <1>1 DEF JournalOfStep
<1>10. CandidateOfStep'
  BY <1>1 DEF CandidateOfStep, files
<1>11. GenerationIsNamed'
  BY <1>1 DEF GenerationIsNamed
<1>12. UnfinishedFitsSchema'
  <2>1. \A j \in PendingAt : GenerationHas(j) => GenerationHas(j)'
    <3>1. \A j \in PendingAt : j \in Path
      BY UnfinishedIsLast
    <3> QED
      BY <1>1, <1>3, <3>1 DEF GenerationHas, files, DDLTypes
  <2>2. PendingAt' = PendingAt
    BY <1>1 DEF PendingAt
  <2> QED
    BY <1>1, <2>1, <2>2 DEF UnfinishedFitsSchema
<1>13. OutcomeIsTold'
  BY <1>1, <1>3 DEF OutcomeIsTold
<1>14. KeyUsedAgain'
  BY <1>1 DEF KeyUsedAgain
<1>15. RowsFollowSchema'
  BY <1>1, <1>3 DEF RowsFollowSchema, files
<1>16. FilesHaveAcknowledged'
  BY <1>1, <1>3 DEF FilesHaveAcknowledged, files, DDLTypes
<1> QED
  BY <1>4, <1>5, <1>6, <1>7, <1>8, <1>9, <1>10, <1>11, <1>12, <1>13, <1>14, <1>15, <1>16

\* A row that was queued is appended under the lock, or refused.
LEMMA AppendsKeep ==
  ASSUME DDLInvariant, NEW x \in Row, answer[x] = "queued",
         UNCHANGED <<coordinator, requests, waiting, target, outcome, rewritten, crossed,
                     tampered>>,
         \/ /\ step = "idle" /\ (Append1(x) \/ AppendRow(x))
            /\ AnswerAppended(x)
         \/ answer' = [answer EXCEPT ![x] = "locked"] /\ UNCHANGED <<files, rotated>>
  PROVE  DDLInvariant'
<1> USE DEF DDLInvariant
<1>1. UNCHANGED <<schema, journals, step, request, candidate, published, requests, waiting,
                  target, outcome, rewritten, crossed, tampered>>
  BY DEF coordinator
<1>2. target[x] \in Path /\ target[x] # None
  BY <1>1 DEF PathsWereDeclared, DDLTypes
<1>3. /\ answer' \in [Row -> {"none", "queued", "locked"} \cup Appended]
      /\ answer'[x] \in {"locked"} \cup Appended /\ answer'[x] # "queued"
      /\ answer'[x] = "ok" => answer'[x] \in Appended
      /\ answer[x] \notin Appended
      /\ answer'[x] \in Appended => step = "idle"
      /\ \A y \in Row : y # x => answer'[y] = answer[y]
  BY <1>1 DEF DDLTypes, AnswerAppended, Appended
<1>4. /\ rows' \in [Path -> SUBSET Row] /\ edited' = edited
      /\ file' \in [Path -> {"absent", "partial", "complete"}]
      /\ rotated' \in SUBSET Row /\ rotated \subseteq rotated'
      /\ \A p \in Path : /\ rows[p] \subseteq rows'[p]
                         /\ file[p] # "absent" => file'[p] # "absent"
                         /\ \A y \in rows'[p] : y \in rows[p] \/ (y = x /\ target[x] = p /\ answer'[x] \in Appended)
      /\ answer'[x] \in Appended /\ x \notin rotated' => x \in rows'[target[x]]
      /\ step # "idle" => rows' = rows /\ file' = file
  <2>1. CASE UNCHANGED <<files, rotated>> /\ answer' = [answer EXCEPT ![x] = "locked"]
    <3>1. answer'[x] = "locked" /\ answer'[x] \notin Appended
      BY <2>1 DEF DDLTypes, Appended
    <3> QED
      BY <2>1, <3>1 DEF DDLTypes, files
  <2>2. CASE step = "idle" /\ rotated' = rotated \cup {x} /\ UNCHANGED files
    BY <2>2 DEF DDLTypes, files
  <2>3. CASE step = "idle" /\ AppendRow(x) /\ AnswerAppended(x)
    <3>1. answer'[x] \in Appended
      BY <2>3 DEF DDLTypes, AnswerAppended, Appended
    <3>2. /\ rows' = [rows EXCEPT ![target[x]] = @ \cup {x}]
          /\ file' = [file EXCEPT ![target[x]] = "complete"]
          /\ UNCHANGED <<edited, rotated>>
      BY <2>3 DEF AppendRow
    <3> QED
      BY <1>2, <2>3, <3>1, <3>2 DEF DDLTypes
  <2> QED
    BY <2>1, <2>2, <2>3 DEF Append1
<1>5. DDLTypes'
  BY <1>1, <1>3, <1>4 DEF DDLTypes
<1>6. RequestInHand'
  BY <1>1 DEF RequestInHand
<1>7. PathsWereDeclared'
  BY <1>1, <1>2, <1>3 DEF PathsWereDeclared
<1>8. VersionsAreCounted'
  BY <1>1 DEF VersionsAreCounted
<1>9. OneUnfinished'
  BY <1>1 DEF OneUnfinished, PendingAt
<1>10. JournalOfStep'
  BY <1>1 DEF JournalOfStep
<1>11. CandidateOfStep'
  BY <1>1, <1>4 DEF CandidateOfStep
<1>12. GenerationIsNamed'
  BY <1>1 DEF GenerationIsNamed
<1>13. UnfinishedFitsSchema'
  <2>1. \A j \in PendingAt : GenerationHas(j) => GenerationHas(j)'
    <3>1. SUFFICES ASSUME NEW j \in PendingAt, GenerationHas(j) PROVE GenerationHas(j)'
      OBVIOUS
    <3>2. j \in Path
      BY UnfinishedIsLast
    <3>3. file'[j] # "absent"
      BY <1>4, <3>1, <3>2 DEF GenerationHas
    <3>4. ASSUME j \notin rewritten
          PROVE  /\ edited'[j] = journals[j].digest[2]
                 /\ journals[j].digest[1] \subseteq rows'[j]
      BY <1>4, <3>1, <3>2, <3>4 DEF GenerationHas
    <3>5. ASSUME j \notin rewritten, NEW y \in rows'[j], y \notin journals[j].digest[1]
          PROVE  answer'[y] \in Appended /\ target[y] = j
      <4>1. y \in rows[j] \/ (y = x /\ target[x] = j /\ answer'[x] \in Appended)
        BY <1>4, <3>2, <3>5
      <4>2. y \in Row
        BY <1>4, <3>2, <3>5
      <4>3. y \in rows[j] => answer[y] \in Appended /\ target[y] = j
        BY <3>1, <3>5 DEF GenerationHas
      <4> QED
        BY <1>3, <4>1, <4>2, <4>3
    <3> QED
      BY <1>1, <3>3, <3>4, <3>5 DEF GenerationHas
  <2>2. PendingAt' = PendingAt
    BY <1>1 DEF PendingAt
  <2> QED
    BY <1>1, <2>1, <2>2 DEF UnfinishedFitsSchema
<1>14. OutcomeIsTold'
  BY <1>1, <1>3 DEF OutcomeIsTold
<1>15. KeyUsedAgain'
  BY <1>1 DEF KeyUsedAgain
<1>16. RowsFollowSchema'
  <2>1. SUFFICES ASSUME ~tampered, NEW y \in Row \ (crossed \cup rotated')
                 PROVE  /\ answer'[y] = "queued" => target[y] = schema.path
                        /\ answer'[y] = "ok" =>
                             /\ schema.path # None
                             /\ y \in rows'[schema.path] <=> outcome[y] # "removed"
                             /\ y \in edited[schema.path] <=> outcome[y] = "edited"
    BY <1>1, <1>4 DEF RowsFollowSchema
  <2>2. /\ answer[y] = "queued" => target[y] = schema.path
        /\ answer[y] = "ok" =>
             /\ schema.path # None
             /\ y \in rows[schema.path] <=> outcome[y] # "removed"
             /\ y \in edited[schema.path] <=> outcome[y] = "edited"
    BY <1>1, <1>4, <2>1 DEF RowsFollowSchema
  <2>3. schema.path # None => schema.path \in Path
    BY DocumentParts DEF DDLTypes
  <2>4. CASE y = x
    <3>1. /\ answer'[y] # "queued" /\ target[x] = schema.path
          /\ answer'[y] = "ok" => y \in rows'[schema.path]
      BY <1>3, <1>4, <2>1, <2>2, <2>4
    <3>2. outcome[y] = "inserted"
      BY <1>3, <2>1, <2>4 DEF FilesHaveAcknowledged
    <3>3. y \notin edited[schema.path]
      <4>1. schema.path \in Path
        BY <1>2, <3>1
      <4>2. y \notin rows[schema.path]
        BY <1>3, <2>1, <2>4, <4>1 DEF FilesHaveAcknowledged
      <4> QED
        BY <4>1, <4>2 DEF FilesHaveAcknowledged
    <3> QED
      BY <1>2, <3>1, <3>2, <3>3
  <2>5. CASE y # x
    <3>1. answer'[y] = answer[y]
      BY <1>3, <2>1, <2>5
    <3>2. schema.path # None => (y \in rows'[schema.path] <=> y \in rows[schema.path])
      BY <1>4, <2>3, <2>5
    <3> QED
      BY <2>2, <3>1, <3>2
  <2> QED
    BY <2>4, <2>5
<1>17. FilesHaveAcknowledged'
  <2>1. ASSUME NEW p \in Path, NEW y \in rows'[p] PROVE answer'[y] \in Appended
    <3>1. y \in Row /\ (y \in rows[p] \/ (y = x /\ answer'[x] \in Appended))
      BY <1>4, <2>1
    <3>2. y \in rows[p] => answer[y] \in Appended
      BY <2>1 DEF FilesHaveAcknowledged
    <3> QED
      BY <1>3, <3>1, <3>2
  <2>2. ASSUME NEW p \in Path PROVE edited'[p] \subseteq rows'[p]
    BY <1>4, <2>2 DEF FilesHaveAcknowledged
  <2>3. ASSUME NEW y \in Row, outcome'[y] # "inserted" PROVE answer'[y] \in Appended
    <3>1. answer[y] \in Appended
      BY <1>1, <2>3 DEF FilesHaveAcknowledged
    <3> QED
      BY <1>3, <2>3, <3>1
  <2> QED
    BY <2>1, <2>2, <2>3 DEF FilesHaveAcknowledged
<1> QED
  BY <1>5, <1>6, <1>7, <1>8, <1>9, <1>10, <1>11, <1>12, <1>13, <1>14, <1>15, <1>16, <1>17

LEMMA FlushKeeps ==
  ASSUME DDLInvariant, NEW x \in Row, Flush(x)
  PROVE  DDLInvariant'
BY AppendsKeep DEF Flush

LEMMA UpsertKeeps ==
  ASSUME DDLInvariant, NEW x \in Row, Upsert(x)
  PROVE  DDLInvariant'
BY AppendsKeep DEF Upsert

\* A PATCH or a DELETE that begins to wait, or waits no more, changes no file.
LEMMA WaitsKeep ==
  ASSUME DDLInvariant, waiting' \in [Path -> Nat],
         \/ requests' = requests
         \/ requests < MaxRewrites /\ requests' = requests + 1,
         UNCHANGED <<coordinator, files, target, answer, outcome, rotated, rewritten,
                     crossed, tampered>>
  PROVE  DDLInvariant'
<1> USE DEF DDLInvariant
<1>1. UNCHANGED <<schema, journals, step, request, candidate, published, rows, edited, file,
                  target, answer, outcome, rotated, rewritten, crossed, tampered>>
  BY DEF coordinator, files
<1>2. DDLTypes'
  <2>1. requests' \in 0..MaxRewrites
    BY DEF DDLTypes
  <2> QED
    BY <1>1, <2>1 DEF DDLTypes
<1>3. /\ RequestInHand' /\ PathsWereDeclared' /\ VersionsAreCounted' /\ FilesHaveAcknowledged'
      /\ OneUnfinished' /\ JournalOfStep'
  BY <1>1
  DEF RequestInHand, PathsWereDeclared, VersionsAreCounted, FilesHaveAcknowledged,
      OneUnfinished, JournalOfStep, PendingAt
<1>4. /\ CandidateOfStep' /\ GenerationIsNamed' /\ OutcomeIsTold' /\ KeyUsedAgain'
  BY <1>1 DEF CandidateOfStep, GenerationIsNamed, OutcomeIsTold, KeyUsedAgain
<1>5. UnfinishedFitsSchema' /\ RowsFollowSchema'
  BY <1>1 DEF UnfinishedFitsSchema, RowsFollowSchema, PendingAt, GenerationHas
<1> QED
  BY <1>2, <1>3, <1>4, <1>5

LEMMA WaitsGives ==
  ASSUME NEW p \in Path, Waits(p), waiting \in [Path -> Nat]
  PROVE  waiting' \in [Path -> Nat]
<1>1. waiting[p] \in Nat /\ waiting[p] > 0
  BY DEF Waits
<1>2. waiting[p] - 1 \in Nat
  BY <1>1
<1> QED
  BY <1>2 DEF Waits

\* A file is rewritten under the lock: only what it says of one row changes, and
\* the outcome of that row says so.
LEMMA RewritesKeep ==
  ASSUME DDLInvariant, NEW p \in Path, NEW z \in Row, RewriteFile(p, z),
         rows' \in [Path -> SUBSET Row], edited' \in [Path -> SUBSET Row],
         outcome' \in [Row -> {"inserted", "edited", "removed"}],
         \A q \in Path : q # p => rows'[q] = rows[q] /\ edited'[q] = edited[q],
         edited'[p] \subseteq rows'[p], rows'[p] \subseteq rows[p],
         \A x \in Row : x # z =>
           /\ x \in rows'[p] <=> x \in rows[p]
           /\ x \in edited'[p] <=> x \in edited[p]
           /\ outcome'[x] = outcome[x],
         z \in rows'[p] <=> outcome'[z] # "removed",
         z \in edited'[p] <=> outcome'[z] = "edited"
  PROVE  DDLInvariant'
<1> USE DEF DDLInvariant
<1>1. /\ step = "idle" /\ z \in rows[p]
      /\ rewritten' = rewritten \cup {p}
      /\ crossed' = IF p = schema.path THEN crossed ELSE crossed \cup {z}
      /\ UNCHANGED <<schema, journals, step, request, candidate, published, file, requests,
                     target, answer, rotated, tampered>>
  BY DEF RewriteFile, coordinator
<1>2. answer[z] \in Appended
  BY <1>1 DEF FilesHaveAcknowledged
<1>3. DDLTypes'
  <2>1. waiting' \in [Path -> Nat]
    BY WaitsGives DEF DDLTypes, RewriteFile
  <2> QED
    BY <1>1, <2>1 DEF DDLTypes
<1>4. RequestInHand'
  BY <1>1 DEF RequestInHand
<1>5. PathsWereDeclared'
  BY <1>1 DEF PathsWereDeclared
<1>6. VersionsAreCounted'
  BY <1>1 DEF VersionsAreCounted
<1>7. FilesHaveAcknowledged'
  <2>1. \A q \in Path : edited'[q] \subseteq rows'[q] /\ \A x \in rows'[q] : answer[x] \in Appended
    BY <1>2 DEF FilesHaveAcknowledged
  <2>2. \A x \in Row : outcome'[x] # "inserted" => answer[x] \in Appended
    BY <1>2 DEF FilesHaveAcknowledged
  <2> QED
    BY <1>1, <2>1, <2>2 DEF FilesHaveAcknowledged
<1>8. OneUnfinished'
  BY <1>1 DEF OneUnfinished, PendingAt
<1>9. JournalOfStep' /\ CandidateOfStep'
  BY <1>1 DEF JournalOfStep, CandidateOfStep, Before, After
<1>10. GenerationIsNamed'
  BY <1>1 DEF GenerationIsNamed
<1>11. UnfinishedFitsSchema'
  <2>1. \A j \in PendingAt : GenerationHas(j) => GenerationHas(j)'
    <3>1. SUFFICES ASSUME NEW j \in PendingAt, GenerationHas(j) PROVE GenerationHas(j)'
      OBVIOUS
    <3>2. j \in Path
      BY UnfinishedIsLast
    <3>3. CASE j = p
      BY <1>1, <3>1, <3>3 DEF GenerationHas
    <3>4. CASE j # p
      <4>1. rows'[j] = rows[j] /\ edited'[j] = edited[j]
        BY <3>2, <3>4
      <4> QED
        BY <1>1, <3>1, <4>1 DEF GenerationHas
    <3> QED
      BY <3>3, <3>4
  <2>2. PendingAt' = PendingAt
    BY <1>1 DEF PendingAt
  <2> QED
    BY <1>1, <2>1, <2>2 DEF UnfinishedFitsSchema
<1>12. OutcomeIsTold'
  BY <1>1 DEF OutcomeIsTold
<1>13. KeyUsedAgain'
  BY <1>1 DEF KeyUsedAgain
<1>14. RowsFollowSchema'
  <2>1. SUFFICES ASSUME ~tampered, NEW x \in Row \ (crossed' \cup rotated)
                 PROVE  /\ answer[x] = "queued" => target[x] = schema.path
                        /\ answer[x] = "ok" =>
                             /\ schema.path # None
                             /\ x \in rows'[schema.path] <=> outcome'[x] # "removed"
                             /\ x \in edited'[schema.path] <=> outcome'[x] = "edited"
    BY <1>1 DEF RowsFollowSchema
  <2>2. /\ x \notin crossed
        /\ answer[x] = "queued" => target[x] = schema.path
        /\ answer[x] = "ok" =>
             /\ schema.path # None
             /\ x \in rows[schema.path] <=> outcome[x] # "removed"
             /\ x \in edited[schema.path] <=> outcome[x] = "edited"
    BY <1>1, <2>1 DEF RowsFollowSchema
  <2>3. schema.path # None => schema.path \in Path
    BY DocumentParts DEF DDLTypes
  <2>4. CASE p = schema.path
    BY <2>1, <2>2, <2>4
  <2>5. CASE p # schema.path
    <3>1. x # z
      BY <1>1, <2>1, <2>5
    <3> QED
      BY <2>1, <2>2, <2>3, <2>5, <3>1
  <2> QED
    BY <2>4, <2>5
<1> QED
  BY <1>3, <1>4, <1>5, <1>6, <1>7, <1>8, <1>9, <1>10, <1>11, <1>12, <1>13, <1>14

LEMMA UpdateKeeps ==
  ASSUME DDLInvariant, NEW p \in Path, NEW z \in Row, Update(p, z)
  PROVE  DDLInvariant'
<1>1. z \in rows[p] /\ RewriteFile(p, z)
  BY DEF Update, RewriteFile
<1>2. DDLTypes /\ FilesHaveAcknowledged
  BY DEF DDLInvariant
<1>3. /\ rows' = rows
      /\ edited' = [edited EXCEPT ![p] =
                      IF z \in edited[p] THEN edited[p] \ {z}
                      ELSE edited[p] \cup {z}]
      /\ outcome' = [outcome EXCEPT ![z] =
                       IF z \in edited[p] THEN "inserted" ELSE "edited"]
  BY DEF Update
<1>4. /\ rows' \in [Path -> SUBSET Row] /\ edited' \in [Path -> SUBSET Row]
      /\ \A q \in Path : q # p => rows'[q] = rows[q] /\ edited'[q] = edited[q]
      /\ edited'[p] = IF z \in edited[p] THEN edited[p] \ {z}
                           ELSE edited[p] \cup {z}
  BY <1>1, <1>2, <1>3 DEF DDLTypes
<1>5. /\ outcome' \in [Row -> {"inserted", "edited", "removed"}]
      /\ \A x \in Row : x # z => outcome'[x] = outcome[x]
      /\ outcome'[z] = IF z \in edited[p] THEN "inserted" ELSE "edited"
  BY <1>1, <1>2, <1>3 DEF DDLTypes
<1>6. edited[p] \subseteq rows[p]
  BY <1>1, <1>2 DEF FilesHaveAcknowledged
<1>7. /\ edited'[p] \subseteq rows'[p] /\ rows'[p] \subseteq rows[p]
      /\ \A x \in Row : x # z => /\ x \in rows'[p] <=> x \in rows[p]
                                 /\ x \in edited'[p] <=> x \in edited[p]
      /\ z \in rows'[p] <=> outcome'[z] # "removed"
      /\ z \in edited'[p] <=> outcome'[z] = "edited"
  BY <1>1, <1>3, <1>4, <1>5, <1>6
<1> QED
  BY <1>1, <1>4, <1>5, <1>7, RewritesKeep

LEMMA DeleteKeeps ==
  ASSUME DDLInvariant, NEW p \in Path, NEW z \in Row, Delete(p, z)
  PROVE  DDLInvariant'
<1>1. RewriteFile(p, z)
  BY DEF Delete
<1>2. DDLTypes /\ FilesHaveAcknowledged
  BY DEF DDLInvariant
<1>3. /\ rows' = [rows EXCEPT ![p] = rows[p] \ {z}]
      /\ edited' = [edited EXCEPT ![p] = edited[p] \ {z}]
      /\ outcome' = [outcome EXCEPT ![z] = "removed"]
  BY DEF Delete
<1>4. /\ rows' \in [Path -> SUBSET Row] /\ edited' \in [Path -> SUBSET Row]
      /\ \A q \in Path : q # p => rows'[q] = rows[q] /\ edited'[q] = edited[q]
      /\ rows'[p] = rows[p] \ {z} /\ edited'[p] = edited[p] \ {z}
  BY <1>1, <1>2, <1>3 DEF DDLTypes
<1>5. /\ outcome' \in [Row -> {"inserted", "edited", "removed"}]
      /\ \A x \in Row : x # z => outcome'[x] = outcome[x]
      /\ outcome'[z] = "removed"
  BY <1>1, <1>2, <1>3 DEF DDLTypes
<1>6. edited[p] \subseteq rows[p]
  BY <1>1, <1>2 DEF FilesHaveAcknowledged
<1>7. /\ edited'[p] \subseteq rows'[p] /\ rows'[p] \subseteq rows[p]
      /\ \A x \in Row : x # z => /\ x \in rows'[p] <=> x \in rows[p]
                                 /\ x \in edited'[p] <=> x \in edited[p]
      /\ z \in rows'[p] <=> outcome'[z] # "removed"
      /\ z \in edited'[p] <=> outcome'[z] = "edited"
  BY <1>4, <1>5, <1>6
<1> QED
  BY <1>1, <1>4, <1>5, <1>7, RewritesKeep

LEMMA TamperKeeps ==
  ASSUME DDLInvariant, Tamper
  PROVE  DDLInvariant'
<1> USE DEF DDLInvariant
<1>1. /\ step = "idle" /\ tampered' = TRUE /\ schema' \in {schema, NoSchema}
      /\ UNCHANGED <<journals, step, request, candidate, published, mutations, crossed>>
  BY DEF Tamper
<1>2. /\ rows' \in [Path -> SUBSET Row] /\ edited' \in [Path -> SUBSET Row]
      /\ file' \in [Path -> {"absent", "partial", "complete"}]
      /\ \A p \in Path : edited'[p] \subseteq rows'[p] /\ \A x \in rows'[p] : answer[x] \in Appended
  <2>1. CASE UNCHANGED files
    BY <2>1 DEF files, DDLTypes, FilesHaveAcknowledged
  <2>2. CASE \E g \in Path \ {0} : Removed(g)
    <3>1. PICK g \in Path : Removed(g)
      BY <2>2
    <3>2. /\ rows' \in [Path -> SUBSET Row] /\ edited' \in [Path -> SUBSET Row]
          /\ file' \in [Path -> {"absent", "partial", "complete"}]
          /\ \A p \in Path : p # g => rows'[p] = rows[p] /\ edited'[p] = edited[p]
          /\ rows'[g] = {} /\ edited'[g] = {}
      BY <3>1, RemovedGives
    <3> QED
      BY <3>2 DEF FilesHaveAcknowledged
  <2> QED
    BY <2>1, <2>2 DEF Tamper
<1>3. NoSchema \in Document /\ NoSchema.view = 0 /\ NoSchema.path = None
  BY DEF NoSchema, Document
<1>4. Len(journals) \in Nat
  BY JournalsAreJournals DEF DDLTypes
<1>5. DDLTypes'
  BY <1>1, <1>2, <1>3 DEF DDLTypes, mutations
<1>6. RequestInHand'
  BY <1>1 DEF RequestInHand
<1>7. PathsWereDeclared'
  BY <1>1, <1>3 DEF PathsWereDeclared, mutations
<1>8. VersionsAreCounted'
  BY <1>1, <1>3, <1>4 DEF VersionsAreCounted, Before
<1>9. OneUnfinished'
  BY <1>1 DEF OneUnfinished, PendingAt
<1>10. JournalOfStep' /\ CandidateOfStep'
  BY <1>1 DEF JournalOfStep, CandidateOfStep, Before, After
<1>11. GenerationIsNamed'
  BY <1>1 DEF GenerationIsNamed
<1>12. UnfinishedFitsSchema' /\ OutcomeIsTold' /\ RowsFollowSchema'
  BY <1>1 DEF UnfinishedFitsSchema, OutcomeIsTold, RowsFollowSchema
<1>13. KeyUsedAgain'
  BY <1>1 DEF KeyUsedAgain
<1>14. FilesHaveAcknowledged'
  BY <1>1, <1>2 DEF FilesHaveAcknowledged, mutations
<1> QED
  BY <1>5, <1>6, <1>7, <1>8, <1>9, <1>10, <1>11, <1>12, <1>13, <1>14


--------------------------------------------------------------------------------

LEMMA InitEstablishes == Init => DDLInvariant
<1> SUFFICES ASSUME Init PROVE DDLInvariant
  OBVIOUS
<1> USE DEF Init
<1>1. /\ NoSchema \in Document /\ NoSchema.view = 0 /\ NoSchema.path = None
      /\ schema \in Document /\ schema.view \in {0, 1} /\ schema.path \in {None, 0}
  <2>1. NoSchema \in Document /\ NoSchema.view = 0 /\ NoSchema.path = None
    BY DEF NoSchema, Document
  <2>2. CASE schema = NoSchema
    BY <2>1, <2>2
  <2>3. CASE schema = [NoSchema EXCEPT !.path = 0, !.view = 1]
    <3>1. 0 \in Path /\ 1 \in 0..MaxOps + 1
      BY DEF Path
    <3>2. schema = [path |-> 0, columns |-> {}, retyped |-> {}, view |-> 1]
      BY <2>3 DEF NoSchema
    <3> QED
      BY <2>1, <3>1, <3>2 DEF Document
  <2> QED
    BY <2>1, <2>2, <2>3
<1>2. journals \in Seq(Journal) /\ Len(journals) = 0 /\ DOMAIN journals = {}
  <2> DEFINE T == Journal
  <2>1. <<>> \in Seq(T) /\ Len(<<>>) = 0 /\ DOMAIN <<>> = {}
    <3> HIDE DEF T
    <3> QED
      OBVIOUS
  <2> QED
    BY <2>1
<1>3. PendingAt = {}
  BY <1>2 DEF PendingAt
<1>4. DDLTypes
  <2>1. /\ rows \in [Path -> SUBSET Row] /\ edited \in [Path -> SUBSET Row]
        /\ file \in [Path -> {"absent", "partial", "complete"}]
        /\ outcome \in [Row -> {"inserted", "edited", "removed"}] /\ requests \in 0..MaxRewrites
        /\ target \in [Row -> Path \cup {None}]
        /\ answer \in [Row -> {"none", "queued", "locked"} \cup Appended]
    OBVIOUS
  <2>2. published \in SUBSET (1..Len(journals)) /\ Len(journals) <= MaxOps
    BY <1>2
  <2> QED
    BY <1>1, <1>2, <2>1, <2>2 DEF DDLTypes
<1>5. RequestInHand /\ PathsWereDeclared /\ VersionsAreCounted /\ OneUnfinished
  BY <1>1, <1>2, <1>3
  DEF RequestInHand, PathsWereDeclared, VersionsAreCounted, OneUnfinished, Before, After,
      Appended
<1>6. JournalOfStep /\ CandidateOfStep
  BY DEF JournalOfStep, CandidateOfStep, Before, After
<1>7. GenerationIsNamed /\ UnfinishedFitsSchema /\ OutcomeIsTold /\ KeyUsedAgain
  BY <1>2, <1>3 DEF GenerationIsNamed, UnfinishedFitsSchema, OutcomeIsTold, KeyUsedAgain
<1>8. RowsFollowSchema /\ FilesHaveAcknowledged
  BY DEF RowsFollowSchema, FilesHaveAcknowledged
<1> QED
  BY <1>4, <1>5, <1>6, <1>7, <1>8 DEF DDLInvariant

LEMMA StepsKeep == DDLInvariant /\ [Next]_vars => DDLInvariant'
<1> SUFFICES ASSUME DDLInvariant, [Next]_vars PROVE DDLInvariant'
  OBVIOUS
<1>1. CASE \E r \in Request \cup {None} : AcquireDdlFence(r)
  BY <1>1, AcquireKeeps
<1>2. CASE RecoverFinalizes
  BY <1>2, RecoverFinalizesKeeps
<1>3. CASE RecoverRemoves
  BY <1>3, RecoverRemovesKeeps
<1>4. CASE RecoverAbandons
  BY <1>4, RecoverAbandonsKeeps
<1>5. CASE RecoverFailsClosed
  BY <1>5, RecoverFailsClosedKeeps
<1>6. CASE RecoveryDone
  BY <1>6, RecoveryDoneKeeps
<1>7. CASE AnswerFromJournal
  BY <1>7, ReleaseKeeps DEF AnswerFromJournal
<1>8. CASE Begin
  BY <1>8, BeginKeeps
<1>9. CASE Work
  BY <1>9, WorkKeeps
<1>10. CASE OpenGeneration
  BY <1>10, OpenKeeps
<1>11. CASE WriteGeneration
  BY <1>11, WriteKeeps
<1>12. CASE Prepare
  BY <1>12, PrepareKeeps
<1>13. CASE Switch
  BY <1>13, SwitchKeeps
<1>14. CASE MarkSwitched
  BY <1>14, MarkKeeps
<1>15. CASE Finalize
  BY <1>15, FinalizeKeeps
<1>16. CASE OperationFails
  BY <1>16, OperationFailsKeeps
<1>17. CASE Crash
  BY <1>17, ReleaseKeeps DEF Crash
<1>18. CASE \E x \in Row : Enqueue(x) \/ Flush(x) \/ Upsert(x)
  BY <1>18, EnqueueKeeps, FlushKeeps, UpsertKeeps
<1>19. CASE Tamper
  BY <1>19, TamperKeeps
<1>20. CASE AwaitLock
  <2>1. schema.path # None /\ schema \in Document /\ waiting \in [Path -> Nat]
    BY <1>20 DEF AwaitLock, Declared, DDLInvariant, DDLTypes
  <2>2. schema.path \in Path
    BY <2>1, DocumentParts
  <2>3. waiting' \in [Path -> Nat]
    BY <1>20, <2>1, <2>2 DEF AwaitLock
  <2> QED
    BY <1>20, <2>3, WaitsKeep DEF AwaitLock
<1>21. CASE \E p \in Path : GiveUp(p) \/ \E x \in Row : Update(p, x) \/ Delete(p, x)
  <2>1. PICK p \in Path : GiveUp(p) \/ \E x \in Row : Update(p, x) \/ Delete(p, x)
    BY <1>21
  <2>2. CASE GiveUp(p)
    <3>1. waiting' \in [Path -> Nat]
      BY <2>2, WaitsGives DEF GiveUp, DDLInvariant, DDLTypes
    <3> QED
      BY <2>2, <3>1, WaitsKeep DEF GiveUp
  <2> QED
    BY <2>1, <2>2, UpdateKeeps, DeleteKeeps
<1>22. CASE UNCHANGED vars
  <2>1. /\ UNCHANGED <<schema, journals, published, files, mutations, crossed, tampered>>
        /\ step' = step /\ request' = request /\ candidate' = candidate
    BY <1>22 DEF vars, coordinator
  <2>2. /\ DDLTypes' /\ RequestInHand' /\ PathsWereDeclared' /\ VersionsAreCounted'
        /\ OneUnfinished' /\ JournalOfStep' /\ FilesHaveAcknowledged'
    BY <2>1
    DEF DDLInvariant, DDLTypes, RequestInHand, PathsWereDeclared, VersionsAreCounted,
        OneUnfinished, JournalOfStep, PendingAt, FilesHaveAcknowledged, files, mutations
  <2>3. CandidateOfStep' /\ GenerationIsNamed' /\ OutcomeIsTold' /\ KeyUsedAgain'
    BY <2>1
    DEF DDLInvariant, CandidateOfStep, GenerationIsNamed, OutcomeIsTold, KeyUsedAgain,
        files, mutations
  <2>4. UnfinishedFitsSchema' /\ RowsFollowSchema'
    BY <2>1
    DEF DDLInvariant, UnfinishedFitsSchema, RowsFollowSchema, PendingAt, GenerationHas,
        files, mutations
  <2> QED
    BY <2>2, <2>3, <2>4 DEF DDLInvariant
<1> QED
  BY <1>1, <1>2, <1>3, <1>4, <1>5, <1>6, <1>7, <1>8, <1>9, <1>10, <1>11, <1>12, <1>13,
     <1>14, <1>15, <1>16, <1>17, <1>18, <1>19, <1>20, <1>21, <1>22 DEF Next

LEMMA DDLInvariantHolds == Spec => []DDLInvariant
BY InitEstablishes, StepsKeep, PTL DEF Spec

--------------------------------------------------------------------------------

LEMMA InvariantTypes == DDLInvariant => TypeOK
<1> SUFFICES ASSUME DDLInvariant PROVE TypeOK
  OBVIOUS
<1>1. Range(journals) \subseteq Journal /\ DOMAIN journals = 1..Len(journals)
  BY JournalsAreJournals DEF DDLInvariant, DDLTypes, Range
<1> QED
  BY <1>1 DEF DDLInvariant, DDLTypes, TypeOK, Before, After

\* Whatever is done to schema.json and wherever a process is killed, the state of
\* the coordinator is well formed: the journals are journals of requests, their
\* documents declare known columns, and a view has at most one version more than
\* there may be journals, the one it began with.
THEOREM CoordinatorTypes == Spec => []TypeOK
BY DDLInvariantHolds, InvariantTypes, PTL

\* Of an acknowledged row the file that schema.json names says what its last
\* mutation made of it, through any number of materialized changes, crashes and
\* recoveries, unless a mutation of it crossed a switch or went to another chunk.
THEOREM RowsStayReadable == Spec => []AcknowledgedIsReadable
<1>1. DDLInvariant => AcknowledgedIsReadable
  BY InvariantTypes
  DEF DDLInvariant, RowsFollowSchema, AcknowledgedIsReadable, Acknowledged, Declared
<1> QED
  BY <1>1, DDLInvariantHolds, PTL

\* The journal of an operation says, in the end, whether readers saw its document,
\* and recovery never has two unfinished journals to tell apart.
THEOREM JournalIsTrue == Spec => []JournalTellsTheOutcome
<1>1. ASSUME DDLInvariant PROVE Cardinality(PendingAt) <= 1
  <2>1. PendingAt = {} \/ PendingAt = {Len(journals)}
    BY <1>1 DEF DDLInvariant, OneUnfinished
  <2>2. Cardinality({}) = 0 /\ Cardinality({Len(journals)}) = 1
    BY FS_EmptySet, FS_Singleton
  <2>3. CASE PendingAt = {}
    BY <2>2, <2>3
  <2>4. CASE PendingAt = {Len(journals)}
    <3>1. Cardinality(PendingAt) = 1
      BY <2>2, <2>4, Zenon
    <3> QED
      BY <3>1
  <2> QED
    BY <2>1, <2>3, <2>4
<1>2. DDLInvariant => JournalTellsTheOutcome
  BY <1>1 DEF DDLInvariant, OutcomeIsTold, JournalTellsTheOutcome
<1> QED
  BY <1>2, DDLInvariantHolds, PTL

\* An unfinished operation fails closed only when the generation it had switched in
\* was appended to, or rewritten by a PATCH or a DELETE.
THEOREM FailsClosedForCause == Spec => []FailsClosedOnEvidence
<1>1. DDLInvariant => FailsClosedOnEvidence
  BY DEF DDLInvariant, OutcomeIsTold, FailsClosedOnEvidence, Acknowledged
<1> QED
  BY <1>1, DDLInvariantHolds, PTL

\* A set of numbers that is not empty has a smallest one.
LEMMA SmallestExists ==
  ASSUME NEW S \in SUBSET Nat, S # {}
  PROVE  \E m \in S : \A n \in S : m <= n
<1> DEFINE R == OpToRel(<, Nat)
<1>1. IsWellFoundedOn(R, Nat)
  BY NatLessThanWellFounded
<1>2. PICK m \in S : \A n \in S : ~ (<<n, m>> \in R)
  <2> HIDE DEF R
  <2> QED
    BY <1>1, WFMin
<1>3. SUFFICES ASSUME NEW n \in S PROVE m <= n
  OBVIOUS
<1>4. ~(n < m)
  BY <1>2 DEF OpToRel
<1> QED
  BY <1>4

\* Whatever is retried when, the schema is changed at most once for an
\* Idempotency-Key, unless the first attempt was abandoned or had failed.
THEOREM OneChangePerKey == Spec => []OncePerKey
<1>1. ASSUME DDLInvariant, NEW r \in Request, r.key # None, WithKey(r.key) # {}
      PROVE  \/ Cardinality(WithKey(r.key) \cap published) <= 1
             \/ journals[Oldest(WithKey(r.key))].status \in {"abandoned", "failed"}
  <2> DEFINE W == WithKey(r.key)
  <2>1. DOMAIN journals = 1..Len(journals) /\ Len(journals) \in Nat
    BY <1>1, JournalsAreJournals DEF DDLInvariant, DDLTypes
  <2>2. W \in SUBSET Nat /\ W \subseteq DOMAIN journals
    BY <2>1 DEF WithKey
  <2>3. PICK o \in W : \A h \in W : o <= h
    <3> HIDE DEF W
    <3>1. W # {}
      BY <1>1 DEF W
    <3> QED
      BY <2>2, <3>1, SmallestExists
  <2>4. Oldest(W) = o
    <3> HIDE DEF W
    <3> QED
      BY <2>2, <2>3, OldestIsFirst
  <2>5. CASE \E j \in W : j # o
    <3>1. PICK j \in W : j # o
      BY <2>5
    <3>2. o < j /\ o \in DOMAIN journals /\ j \in DOMAIN journals
      <4>1. o <= j /\ o \in Nat /\ j \in Nat /\ j # o
        BY <2>2, <2>3, <3>1
      <4> QED
        BY <2>2, <3>1, <4>1
    <3>3. /\ journals[o].request.key = r.key /\ journals[j].request.key = r.key
          /\ \A h \in DOMAIN journals :
               journals[h].request.key = journals[o].request.key => o <= h
      BY <2>3, <3>1 DEF WithKey
    <3>4. journals[o].status \in {"abandoned", "failed"}
      BY <1>1, <3>2, <3>3 DEF DDLInvariant, KeyUsedAgain
    <3> QED
      BY <2>4, <3>4
  <2>6. CASE \A j \in W : j = o
    <3>1. W \cap published = {} \/ W \cap published = {o}
      BY <2>6
    <3>2. Cardinality({}) = 0 /\ Cardinality({o}) = 1
      BY FS_EmptySet, FS_Singleton
    <3>3. Cardinality(W \cap published) <= 1
      <4> HIDE DEF W
      <4> QED
        <5>1. CASE W \cap published = {}
          BY <3>2, <5>1
        <5>2. CASE W \cap published = {o}
          <6>1. Cardinality(W \cap published) = 1
            BY <3>2, <5>2, Zenon
          <6> QED
            BY <6>1
        <5> QED
          BY <3>1, <5>1, <5>2
    <3> QED
      BY <3>3
  <2> QED
    BY <2>5, <2>6
<1>2. DDLInvariant => OncePerKey
  BY <1>1 DEF OncePerKey
<1> QED
  BY <1>2, DDLInvariantHolds, PTL


================================================================================
