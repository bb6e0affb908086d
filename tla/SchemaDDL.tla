----------------------------- MODULE SchemaDDL ------------------------------
(***************************************************************************)
(* The DDL coordinator of src/serialization/ddl.ts: journaled changes of   *)
(* one namespace's schema.json, under the namespace write lock, with the   *)
(* recovery that classifies what a killed process left, next to the table  *)
(* mutations (src/tables/operations.ts) that append to the file at the     *)
(* storage path schema.json names, and rewrite it.                         *)
(*                                                                         *)
(* The lock excludes here by definition (WriteLock has what becomes of it  *)
(* when it is broken), so one operation runs at a time and a process is    *)
(* the step it is at; the lock of a killed process is taken over.  A call  *)
(* refused before it holds the lock changes nothing and is left out.       *)
(*                                                                         *)
(* A document stands for its own hash.  Storage path 0 is the path a table *)
(* is created with, path j the generation operation j writes.  The bytes   *)
(* of a file are its rows and which of them a PATCH left with other values *)
(* than they were inserted with.                                           *)
(***************************************************************************)
EXTENDS Naturals, FiniteSets, Sequences, SequencesExt

CONSTANTS
  Row,        \* rows inserted into the table
  Column,     \* columns of the table
  Request,    \* requests, a set of records [op, key, column, materialize]
  None,       \* no path, hash, key or request
  MaxOps,     \* journals written
  MaxLines,   \* storage.jsonl MAX_LINES_PER_CHUNK
  MaxRewrites, \* PATCH and DELETE requests made
  CanCrash,   \* whether the process of an operation may be killed
  CanFail,    \* whether a conversion or a file operation may fail
  CanTamper   \* whether schema.json or a generation is changed from outside

ASSUME DDLAssumption ==
  /\ {MaxOps, MaxLines} \subseteq Nat \ {0} /\ MaxRewrites \in Nat
  /\ {CanCrash, CanFail, CanTamper} \subseteq BOOLEAN
  /\ None \notin Nat
  /\ \A r \in Request :
       /\ r.op \in {"createTable", "addColumn", "retypeColumn", "declareView", "redeclareView"}
       /\ r.op \in {"addColumn", "retypeColumn"} => r.column \in Column
       /\ r.materialize => r.op \in {"addColumn", "retypeColumn"}

VARIABLES
  schema,     \* the document schema.json holds
  rows,       \* rows of the file at each storage path
  edited,     \* those of them that a PATCH left with other values
  file,       \* state of that file: absent, partial or complete
  journals,   \* .duckbrain-ddl, oldest first
  step,       \* where the operation that holds the lock is, or idle
  request,    \* its request, None for a recovery on its own
  candidate,  \* the document it is to publish
  requests,   \* PATCH and DELETE requests made
  waiting,    \* how many of them wait for the lock with each path
  target,     \* storage path each row was queued for
  answer,     \* WriteResult of each row: none, queued, locked, ok or unrecorded
  outcome,    \* history: what the last mutation of each row made of it
  published,  \* history: operations whose document was switched in
  crossed,    \* history: rows mutated, or to be, through a retired path
  rotated,    \* history: rows appended to another file than their path
  rewritten,  \* history: paths whose file a PATCH or a DELETE changed
  tampered    \* history: something was changed from outside

coordinator == <<schema, journals, step, request, candidate, published>>
files == <<rows, edited, file>>
mutations == <<requests, waiting, target, answer, outcome, rotated, rewritten>>
vars == <<coordinator, files, mutations, crossed, tampered>>

Path == 0..MaxOps
NoSchema == [path |-> None, columns |-> {}, retyped |-> {}, view |-> 0]
Pending == {"started", "prepared", "generation-written", "switched"}

\* A namespace without a schema, or with a table and a view of it.
Init ==
  /\ schema \in {NoSchema, [NoSchema EXCEPT !.path = 0, !.view = 1]}
  /\ rows = [p \in Path |-> {}]
  /\ edited = [p \in Path |-> {}]
  /\ file = [p \in Path |-> "absent"]
  /\ journals = <<>>
  /\ step = "idle"
  /\ request = None
  /\ candidate = NoSchema
  /\ requests = 0
  /\ waiting = [p \in Path |-> 0]
  /\ target = [x \in Row |-> None]
  /\ answer = [x \in Row |-> "none"]
  /\ outcome = [x \in Row |-> "inserted"]
  /\ published = {}
  /\ crossed = {}
  /\ rotated = {}
  /\ rewritten = {}
  /\ tampered = FALSE

-----------------------------------------------------------------------------
(* Journals                                                                *)

PendingAt == {j \in DOMAIN journals : journals[j].status \in Pending}
FailClosed == \E j \in DOMAIN journals : journals[j].status = "fail_closed"

SetStatus(j, status) == journals' = [journals EXCEPT ![j].status = status]

\* The journals of one idempotency key, and the one the lookup finds.
WithKey(k) == {j \in DOMAIN journals : journals[j].request.key = k}
Oldest(js) == CHOOSE j \in js : \A i \in js : j <= i

\* releaseNamespaceWriteLock in the finally block of every operation.
Release == step' = "idle" /\ request' = None /\ candidate' = NoSchema

-----------------------------------------------------------------------------
(* Recovery                                                                *)

\* acquireDdlFence, for an operation or for recoverNamespaceDdl alone.
AcquireDdlFence(r) ==
  /\ step = "idle"
  /\ r # None => Len(journals) < MaxOps
  /\ step' = "recover"
  /\ request' = r
  /\ UNCHANGED <<schema, journals, candidate, published, files, mutations, crossed, tampered>>

MatchesNew(j) == journals[j].new # None /\ journals[j].new = schema
MatchesOld(j) == journals[j].old = schema

\* sha256 of a file stands for what the file says.
Digest(p) == <<rows[p], edited[p]>>

Removed(p) ==
  /\ file' = [file EXCEPT ![p] = "absent"]
  /\ rows' = [rows EXCEPT ![p] = {}]
  /\ edited' = [edited EXCEPT ![p] = {}]

\* What a journal that published a generation must still find.
Evidence(j) ==
  journals[j].generation # None =>
    /\ file[journals[j].generation] # "absent"
    /\ Digest(journals[j].generation) = journals[j].digest

\* Generation files no live declaration names.
Unpublished == {g \in Path \ {0} : file[g] # "absent" /\ g # schema.path}

Recovering(j) ==
  /\ step = "recover"
  /\ j = Oldest(PendingAt)
  /\ UNCHANGED <<schema, step, request, candidate, published, mutations, crossed, tampered>>

RecoverFinalizes ==
  \E j \in PendingAt :
    /\ Recovering(j)
    /\ MatchesNew(j) /\ Evidence(j)
    /\ SetStatus(j, "finalized")
    /\ UNCHANGED files

\* One unlink; the next step, or the next recovery, goes on.
RecoverRemoves ==
  \E j \in PendingAt : \E g \in Unpublished :
    /\ Recovering(j)
    /\ ~MatchesNew(j) /\ MatchesOld(j)
    /\ journals[j].request.op \in {"createTable", "addColumn", "retypeColumn"}
    /\ Removed(g)
    /\ UNCHANGED journals

RecoverAbandons ==
  \E j \in PendingAt :
    /\ Recovering(j)
    /\ ~MatchesNew(j) /\ MatchesOld(j)
    /\ \/ Unpublished = {}
       \/ journals[j].request.op \in {"declareView", "redeclareView"}
    /\ SetStatus(j, "abandoned")
    /\ UNCHANGED files

RecoverFailsClosed ==
  \E j \in PendingAt :
    /\ Recovering(j)
    /\ IF MatchesNew(j) THEN ~Evidence(j) ELSE ~MatchesOld(j)
    /\ SetStatus(j, "fail_closed")
    /\ UNCHANGED files

RecoveryDone ==
  /\ step = "recover"
  /\ PendingAt = {}
  /\ IF request = None
       THEN Release
       ELSE step' = "begin" /\ UNCHANGED <<request, candidate>>
  /\ UNCHANGED <<schema, journals, published, files, mutations, crossed, tampered>>

-----------------------------------------------------------------------------
(* The operations                                                          *)

\* What the retry of a key finds.
Reused == request.key # None /\ WithKey(request.key) # {}
Found == journals[Oldest(WithKey(request.key))]
Settled ==
  Reused /\ \/ Found.request # request
            \/ Found.status \in {"finalized", "switched", "fail_closed"}

\* A conflict, the original result, a result that was never recorded, or a
\* key that failed closed: nothing is executed.
AnswerFromJournal ==
  /\ step = "begin"
  /\ Settled
  /\ Release
  /\ UNCHANGED <<schema, journals, published, files, mutations, crossed, tampered>>

\* Mutant: the key is not looked up.
BeginAlways ==
  /\ step = "begin"
  /\ journals' = Append(journals,
       [request |-> request, status |-> "started", old |-> schema, new |-> None,
        generation |-> None, digest |-> <<{}, {}>>])
  /\ step' = "work"
  /\ UNCHANGED <<schema, request, candidate, published, files, mutations, crossed, tampered>>

Begin ==
  /\ step = "begin"
  /\ ~Settled
  /\ journals' = Append(journals,
       [request |-> request, status |-> "started", old |-> schema, new |-> None,
        generation |-> None, digest |-> <<{}, {}>>])
  /\ step' = "work"
  /\ UNCHANGED <<schema, request, candidate, published, files, mutations, crossed, tampered>>

Current == Len(journals)
Declared == schema.path # None
SameContract == schema = [NoSchema EXCEPT !.path = 0, !.view = schema.view]

\* Each change is the set of documents it may lead to, empty when refused.

\* The same contract again is a change to nothing.
CreateDeclaredTable ==
  IF ~Declared \/ SameContract THEN {[schema EXCEPT !.path = 0]} ELSE {}

AddColumn(c) ==
  IF Declared /\ c \notin schema.columns
    THEN {[schema EXCEPT !.columns = @ \cup {c}]} ELSE {}

\* A column is retyped once: no permitted conversion follows another.
RetypeColumn(c) ==
  IF Declared /\ c \in schema.columns \ schema.retyped
    THEN {[schema EXCEPT !.retyped = @ \cup {c}]} ELSE {}

DeclareView ==
  IF Declared /\ schema.view = 0 THEN {[schema EXCEPT !.view = 1]} ELSE {}

RedeclareView ==
  IF schema.view > 0 THEN {[schema EXCEPT !.view = @ + 1]} ELSE {}

Change(r) ==
  CASE r.op = "createTable"   -> CreateDeclaredTable
    [] r.op = "addColumn"     -> AddColumn(r.column)
    [] r.op = "retypeColumn"  -> RetypeColumn(r.column)
    [] r.op = "declareView"   -> DeclareView
    [] r.op = "redeclareView" -> RedeclareView

\* A failure before the switch: the journal says so, a generation is left.
FailOperation ==
  /\ SetStatus(Current, "failed")
  /\ Release
  /\ UNCHANGED <<schema, published, files, mutations, crossed, tampered>>

Work ==
  /\ step = "work"
  /\ IF Change(request) # {}
       THEN /\ candidate' \in Change(request)
            /\ step' = IF request.materialize THEN "materialize" ELSE "prepare"
            /\ UNCHANGED <<schema, journals, request, published, files, mutations,
                           crossed, tampered>>
       ELSE FailOperation

\* The file is opened before its rows are in it.
OpenGeneration ==
  /\ step = "materialize"
  /\ file' = [file EXCEPT ![Current] = "partial"]
  /\ step' = "write"
  /\ UNCHANGED <<schema, journals, request, candidate, published, rows, edited, mutations,
                 crossed, tampered>>

\* Every row of the live path, written, synced and read back.
WriteGeneration ==
  /\ step = "write"
  /\ file' = [file EXCEPT ![Current] = "complete"]
  /\ rows' = [rows EXCEPT ![Current] = rows[schema.path]]
  /\ edited' = [edited EXCEPT ![Current] = edited[schema.path]]
  /\ candidate' = [candidate EXCEPT !.path = Current]
  /\ step' = "prepare"
  /\ UNCHANGED <<schema, journals, request, published, mutations, crossed, tampered>>

\* Mutant: the new hash is journaled with the switched status only.
PrepareUnnamed ==
  /\ step = "prepare"
  /\ journals' = [journals EXCEPT ![Current].status = "prepared"]
  /\ step' = "switch"
  /\ UNCHANGED <<schema, request, candidate, published, files, mutations, crossed, tampered>>

\* The journal names what it intends to publish before the switch.
Prepare ==
  /\ step = "prepare"
  /\ journals' = [journals EXCEPT ![Current] =
       IF candidate.path = Current
         THEN [@ EXCEPT !.status = "generation-written", !.new = candidate,
                        !.generation = Current, !.digest = Digest(Current)]
         ELSE [@ EXCEPT !.status = "prepared", !.new = candidate]]
  /\ step' = "switch"
  /\ UNCHANGED <<schema, request, candidate, published, files, mutations, crossed, tampered>>

\* Rows queued for the path a document no longer names.
LeftBehind(new) ==
  {x \in Row : answer[x] = "queued" /\ target[x] = schema.path /\ new.path # schema.path}

\* writeSchemaTextAtomic: the one rename readers see.
Switch ==
  /\ step = "switch"
  /\ schema' = candidate
  /\ published' = published \cup {Current}
  /\ crossed' = crossed \cup LeftBehind(candidate)
  /\ step' = "mark"
  /\ UNCHANGED <<journals, request, candidate, files, mutations, tampered>>

MarkSwitched ==
  /\ step = "mark"
  /\ SetStatus(Current, "switched")
  /\ step' = "finalize"
  /\ UNCHANGED <<schema, request, candidate, published, files, mutations, crossed, tampered>>

\* The manifest partition, the result, the commit.
Finalize ==
  /\ step = "finalize"
  /\ SetStatus(Current, "finalized")
  /\ Release
  /\ UNCHANGED <<schema, published, files, mutations, crossed, tampered>>

\* Mutant: a failure after the switch is journaled as one before it.
OperationFailsUnflagged ==
  /\ CanFail
  /\ step \in {"materialize", "write", "prepare", "switch", "mark", "finalize"}
  /\ FailOperation

\* A row that does not convert, a file operation that fails.
OperationFails ==
  /\ CanFail
  /\ \/ step \in {"materialize", "write", "prepare", "switch"} /\ FailOperation
     \/ /\ step \in {"mark", "finalize"}
        /\ Release
        /\ UNCHANGED <<schema, journals, published, files, mutations, crossed, tampered>>

\* The files stay as they are; the next call breaks the lock of a dead owner.
Crash ==
  /\ CanCrash
  /\ step # "idle"
  /\ Release
  /\ UNCHANGED <<schema, journals, published, files, mutations, crossed, tampered>>

-----------------------------------------------------------------------------
(* Mutations of the declared table.  Each resolves the declared path, and  *)
(* waits; the path may be retired until it has the lock.  A transaction is *)
(* several of them under one lock.                                         *)

\* insertTableRows and NamespaceWriter.enqueue, or upsertTableRow of a new row.
Enqueue(x) ==
  /\ answer[x] = "none"
  /\ Declared
  /\ ~FailClosed
  /\ answer' = [answer EXCEPT ![x] = "queued"]
  /\ target' = [target EXCEPT ![x] = schema.path]
  /\ UNCHANGED <<coordinator, files, requests, waiting, outcome, rotated, rewritten, crossed, tampered>>

Full(p) == Cardinality(rows[p]) >= MaxLines

AppendRow(x) ==
  /\ rows' = [rows EXCEPT ![target[x]] = @ \cup {x}]
  /\ file' = [file EXCEPT ![target[x]] = "complete"]
  /\ UNCHANGED <<edited, rotated>>

\* What a row that was appended is answered with: it is acknowledged, or the process
\* is killed, or its audit record fails, before it could be.
Appended == {"ok", "unrecorded"}

AnswerAppended(x) ==
  \/ answer' = [answer EXCEPT ![x] = "ok"]
  \/ CanFail /\ answer' = [answer EXCEPT ![x] = "unrecorded"]

\* appendToJsonl goes on in a new chunk when the file is full.
Append1(x) ==
  IF Full(target[x])
    THEN rotated' = rotated \cup {x} /\ UNCHANGED files
    ELSE AppendRow(x)

\* Mutant: a flush does not look at the lock.
FlushUnfenced(x) ==
  /\ answer[x] = "queued"
  /\ Append1(x)
  /\ answer' = [answer EXCEPT ![x] = "ok"]
  /\ UNCHANGED <<coordinator, requests, waiting, target, outcome, rewritten, crossed,
                 tampered>>

\* A flush tries the lock once; appending and acknowledging happen under it.
Flush(x) ==
  /\ answer[x] = "queued"
  /\ IF step = "idle"
       THEN Append1(x) /\ AnswerAppended(x)
       ELSE answer' = [answer EXCEPT ![x] = "locked"] /\ UNCHANGED <<files, rotated>>
  /\ UNCHANGED <<coordinator, requests, waiting, target, outcome, rewritten, crossed,
                 tampered>>

\* appendRowsToTable, of an upsert or a transaction, never rotates.
Upsert(x) ==
  /\ answer[x] = "queued"
  /\ step = "idle"
  /\ AppendRow(x)
  /\ AnswerAppended(x)
  /\ UNCHANGED <<coordinator, requests, waiting, target, outcome, rewritten, crossed,
                 tampered>>

\* updateTableRows, deleteTableRows, and upserts of a row that is there.  No PATCH
\* or DELETE asks whether a journal failed closed.
AwaitLock ==
  /\ Declared
  /\ requests < MaxRewrites
  /\ requests' = requests + 1
  /\ waiting' = [waiting EXCEPT ![schema.path] = @ + 1]
  /\ UNCHANGED <<coordinator, files, target, answer, outcome, rotated, rewritten,
                 crossed, tampered>>

Waits(p) == waiting[p] > 0 /\ waiting' = [waiting EXCEPT ![p] = @ - 1]

\* The row is not there, the mutation is refused or changes nothing, or the wait
\* was too long.
GiveUp(p) ==
  /\ Waits(p)
  /\ UNCHANGED <<coordinator, files, requests, target, answer, outcome, rotated, rewritten,
                 crossed, tampered>>

\* rewriteWithPredicate, under the lock, at the path resolved before it.
RewriteFile(p, x) ==
  /\ Waits(p)
  /\ step = "idle"
  /\ x \in rows[p]
  /\ rewritten' = rewritten \cup {p}
  /\ crossed' = IF p = schema.path THEN crossed ELSE crossed \cup {x}
  /\ UNCHANGED <<coordinator, file, requests, target, answer, rotated, tampered>>

\* patchRowsByPk: other values, or those the row was inserted with.
Update(p, x) ==
  /\ RewriteFile(p, x)
  /\ edited' = [edited EXCEPT ![p] = IF x \in @ THEN @ \ {x} ELSE @ \cup {x}]
  /\ outcome' = [outcome EXCEPT ![x] = IF x \in edited[p] THEN "inserted" ELSE "edited"]
  /\ UNCHANGED rows

\* deleteRowsByPk
Delete(p, x) ==
  /\ RewriteFile(p, x)
  /\ rows' = [rows EXCEPT ![p] = @ \ {x}]
  /\ edited' = [edited EXCEPT ![p] = @ \ {x}]
  /\ outcome' = [outcome EXCEPT ![x] = "removed"]

-----------------------------------------------------------------------------
(* A git checkout, a pull from S3 or a hand edit, between two operations   *)

Tamper ==
  /\ CanTamper
  /\ ~tampered
  /\ step = "idle"
  /\ tampered' = TRUE
  /\ \/ /\ schema' = NoSchema
        /\ schema # NoSchema
        /\ UNCHANGED files
     \/ \E g \in Path \ {0} :
          /\ file[g] # "absent"
          /\ Removed(g)
          /\ UNCHANGED schema
  /\ UNCHANGED <<journals, step, request, candidate, published, mutations, crossed>>

Next ==
  \/ \E r \in Request \cup {None} : AcquireDdlFence(r)
  \/ RecoverFinalizes \/ RecoverRemoves \/ RecoverAbandons \/ RecoverFailsClosed
  \/ RecoveryDone
  \/ AnswerFromJournal \/ Begin \/ Work
  \/ OpenGeneration \/ WriteGeneration \/ Prepare
  \/ Switch \/ MarkSwitched \/ Finalize
  \/ OperationFails \/ Crash
  \/ \E x \in Row : Enqueue(x) \/ Flush(x) \/ Upsert(x)
  \/ AwaitLock
  \/ \E p \in Path : GiveUp(p) \/ \E x \in Row : Update(p, x) \/ Delete(p, x)
  \/ Tamper

Spec == Init /\ [][Next]_vars

-----------------------------------------------------------------------------
(* Properties                                                              *)

Document == [path : Path \cup {None}, columns : SUBSET Column,
             retyped : SUBSET Column, view : 0..MaxOps + 1]
Status == Pending \cup {"finalized", "abandoned", "failed", "fail_closed"}

\* null is no document: a journal that names none has not prepared one.
ASSUME NoneAssumption == None \notin Document

Journal == [request : Request, status : Status, old : Document,
            new : Document \cup {None}, generation : Path \cup {None},
            digest : (SUBSET Row) \X (SUBSET Row)]

TypeOK ==
  /\ {schema, candidate} \subseteq Document
  /\ {rows, edited} \subseteq [Path -> SUBSET Row]
  /\ file \in [Path -> {"absent", "partial", "complete"}]
  /\ Len(journals) <= MaxOps /\ Range(journals) \subseteq Journal
  /\ step \in {"idle", "recover", "begin", "work", "materialize", "write",
               "prepare", "switch", "mark", "finalize"}
  /\ request \in Request \cup {None}
  /\ requests \in 0..MaxRewrites /\ waiting \in [Path -> Nat]
  /\ target \in [Row -> Path \cup {None}]
  /\ answer \in [Row -> {"none", "queued", "locked"} \cup Appended]
  /\ outcome \in [Row -> {"inserted", "edited", "removed"}]
  /\ published \subseteq DOMAIN journals
  /\ crossed \cup rotated \subseteq Row /\ rewritten \subseteq Path
  /\ tampered \in BOOLEAN

Acknowledged == {x \in Row : answer[x] = "ok"}

\* A materialize copies the live rows and switches once, and recovery removes
\* nothing readers can see: of an acknowledged row the file schema.json names says
\* what the last mutation made of it, so no update is undone and no deleted row
\* comes back, unless a mutation of the row crossed a switch or went to a new chunk.
AcknowledgedIsReadable ==
  /\ TypeOK
  /\ ~tampered => \A x \in Acknowledged \ (crossed \cup rotated) :
       /\ Declared
       /\ x \in rows[schema.path] <=> outcome[x] # "removed"
       /\ x \in edited[schema.path] <=> outcome[x] = "edited"

\* Whatever was killed where, a journal ends up saying what readers saw: its
\* document was switched in, or never was.  Recovery runs before an operation adds
\* its journal, so it never has two unfinished ones to tell apart by their hashes.
JournalTellsTheOutcome ==
  /\ Cardinality(PendingAt) <= 1
  /\ ~tampered => \A j \in DOMAIN journals :
       /\ journals[j].status \in {"switched", "finalized"} =>
            j \in published \/ journals[j].new = journals[j].old
       /\ journals[j].status \in {"abandoned", "failed"} => j \notin published

\* Without outside changes an unfinished operation fails closed only when its
\* document was switched in and the server, which went on with a table that is
\* sound, then appended rows to the generation or rewrote it.  An operation that
\* readers never saw is abandoned, however it was killed.
FailsClosedOnEvidence ==
  ~tampered => \A j \in DOMAIN journals :
    journals[j].status = "fail_closed" =>
      /\ j \in published
      /\ \/ \E x \in Row : answer[x] \in Appended /\ target[x] = journals[j].generation
         \/ journals[j].generation \in rewritten

\* A retry of an Idempotency-Key does not change the schema again, unless the
\* first attempt with that key had been abandoned or had failed.
OncePerKey ==
  ~tampered => \A r \in Request :
    r.key # None /\ WithKey(r.key) # {} =>
      \/ Cardinality(WithKey(r.key) \cap published) <= 1
      \/ journals[Oldest(WithKey(r.key))].status \in {"abandoned", "failed"}

\* ddl.ts:17: a writer never queues work across the switch.  It does: an
\* insert captures the path and validates when it is queued, and its flush
\* acknowledges a row that no reader of the new document finds.
NoWriteAcrossSwitch ==
  \A x \in Acknowledged \ rotated :
    outcome[x] # "removed" => Declared /\ x \in rows[schema.path]

=============================================================================
