---------------------------- MODULE TableChanges ----------------------------
(***************************************************************************)
(* From a table mutation to a change event.  The REST table verbs rewrite  *)
(* a table's JSONL file under the namespace write lock, release it, and    *)
(* only then append one change record per mutation to the audit ledger     *)
(* (tables/operations.ts).  A commit takes whatever both files hold.  The  *)
(* change feed reads back, commit by commit, the records a commit added    *)
(* and resolves each one to a row image (http/realtime/replay.ts); a       *)
(* consumer applies the events by declared key.                            *)
(*                                                                         *)
(* A content hash is the image it names; an audit line is its record.  A   *)
(* patch names every column but the key, so what it leaves is its image.   *)
(* The mutations of one key are numbered for the properties alone.         *)
(***************************************************************************)
EXTENDS Integers, FiniteSets, SequencesExt

CONSTANTS
  Key,           \* primary keys of one declared table
  Image,         \* row images, each with its content hash
  None,          \* no row
  Request,       \* concurrent REST requests
  MaxMutations,  \* bound: mutations of each key
  MaxCommits,    \* bound: commits after the first
  MaxEnvelope,   \* actions of a transaction (TRANSACTION_MAX_ACTIONS)
  MaxLost        \* bound: records that cannot be appended

ASSUME TableChangesAssumption ==
  /\ None \notin Image
  /\ {MaxMutations, MaxCommits, MaxLost} \subseteq Nat
  /\ MaxEnvelope \in Nat \ {0}

VARIABLES
  rows,       \* the table's file: the lines of each key, in file order
  ledger,     \* the audit ledger: change records in canonical order
  pending,    \* per request: records of applied mutations not yet appended
  lost,       \* records whose append failed for good
  commits,    \* first-parent history: rows, ledger length, mutations made
  copy,       \* a consumer's copy of the table
  delivered,  \* the last commit the consumer received whole
  closed,     \* the feed met a commit it cannot derive and closed
  mutations,  \* per key: mutations applied so far
  reposted    \* keys that were POSTed while they had a row

table == <<rows, mutations, reposted>>
vars == <<table, ledger, pending, lost, commits, copy, delivered, closed>>

Op == {"insert", "update", "delete"}
ChangeRecord == [op : Op, key : Key, image : Image, n : 1..MaxMutations]

\* An action of an envelope; its upsert is whichever of the first two applies.
Action == [op : {"insert", "update"}, key : Key, image : Image]
            \cup [op : {"delete"}, key : Key, image : {None}]

-----------------------------------------------------------------------------
(* The table verbs                                                         *)

\* findRowByPk and findRowLineByPk: the first line of a key.
First(lines) == IF lines = <<>> THEN None ELSE Head(lines)

\* An insert needs the key free, an update or a delete needs a row.
Applies(tbl, act) == (First(tbl[act.key]) = None) <=> (act.op = "insert")

\* appendRowsToTable adds a line; rewriteWithPredicate rewrites, or drops,
\* every line of the key.
LinesAfter(tbl, act) ==
  CASE act.op = "insert" -> Append(tbl[act.key], act.image)
    [] act.op = "update" -> [i \in DOMAIN tbl[act.key] |-> act.image]
    [] act.op = "delete" -> <<>>

\* The record names the line as it is on disk after an insert or an update,
\* and the first line as it was before a delete.
RecordOf(tbl, act, n) ==
  [op |-> act.op, key |-> act.key, n |-> n,
   image |-> IF act.op = "delete" THEN First(tbl[act.key]) ELSE act.image]

\* What one mutation makes of the table and the records so far.
Write(state, act) ==
  LET n == state.mutations[act.key] + 1
  IN [ok |-> TRUE,
      rows |-> [state.rows EXCEPT ![act.key] = LinesAfter(state.rows, act)],
      mutations |-> [state.mutations EXCEPT ![act.key] = n],
      records |-> Append(state.records, RecordOf(state.rows, act, n))]

\* One action of an envelope: it fails when the action does not apply.
Step(state, act) ==
  IF state.ok /\ Applies(state.rows, act) THEN Write(state, act)
  ELSE [state EXCEPT !.ok = FALSE]

Untouched == [ok |-> TRUE, rows |-> rows, mutations |-> mutations, records |-> <<>>]

\* The files are rewritten, and the request has its records to append.
Apply(r, result) ==
  /\ pending[r] = <<>>
  /\ result.ok
  /\ \A k \in Key : result.mutations[k] <= MaxMutations
  /\ rows' = result.rows
  /\ mutations' = result.mutations
  /\ pending' = [pending EXCEPT ![r] = result.records]
  /\ UNCHANGED <<ledger, lost, commits, copy, delivered, closed>>

\* The keys whose row does not keep a POST from adding another.
Reposted(k) == IF rows[k] = <<>> THEN reposted ELSE reposted \cup {k}

\* POST to a legacy table: the row is appended, whether the key is free or
\* not, then recorded.
InsertTableRows(r, k, v) ==
  /\ Apply(r, Write(Untouched, [op |-> "insert", key |-> k, image |-> v]))
  /\ reposted' = Reposted(k)

\* PATCH and DELETE write and record nothing when no row matches.
UpdateTableRows(r, k, v) ==
  /\ Apply(r, Step(Untouched, [op |-> "update", key |-> k, image |-> v]))
  /\ UNCHANGED reposted

DeleteTableRows(r, k) ==
  /\ Apply(r, Step(Untouched, [op |-> "delete", key |-> k, image |-> None]))
  /\ UNCHANGED reposted

\* PUT decides under the lock whether it inserts or updates.
UpsertTableRow(r, k, v) ==
  /\ \E op \in {"insert", "update"} :
       Apply(r, Step(Untouched, [op |-> op, key |-> k, image |-> v]))
  /\ UNCHANGED reposted

\* An envelope runs under the write lock, so no commit falls inside it; with
\* an action that does not apply it restores every file and leaves no trace.
RunActions(acts) ==
  LET after[n \in 0..Len(acts)] == IF n = 0 THEN Untouched ELSE Step(after[n - 1], acts[n])
  IN after[Len(acts)]

RunTableTransaction(r, acts) ==
  /\ Apply(r, RunActions(acts))
  /\ UNCHANGED reposted

\* A POST to a schema.json table goes through the serializer, whose flush
\* writes the row and its record under one lock.
InsertThroughWriter(k, v) ==
  LET result == Write(Untouched, [op |-> "insert", key |-> k, image |-> v])
  IN /\ mutations[k] < MaxMutations
     /\ rows' = result.rows
     /\ mutations' = result.mutations
     /\ ledger' = ledger \o result.records
     /\ reposted' = Reposted(k)
     /\ UNCHANGED <<pending, lost, commits, copy, delivered, closed>>

\* recordTableMutationAudit: the next record of the request is appended.  It
\* may have waited out SERIALIZER_LOCKED, so requests overtake each other.
RecordMutation(r) ==
  /\ pending[r] # <<>>
  /\ ledger' = Append(ledger, Head(pending[r]))
  /\ pending' = [pending EXCEPT ![r] = Tail(@)]
  /\ UNCHANGED <<table, lost, commits, copy, delivered, closed>>

\* AUDIT_APPEND_FAILED, or the process is gone: the mutations stay, the rest
\* of their records are never written.
RecordFails(r) ==
  /\ pending[r] # <<>>
  /\ lost < MaxLost
  /\ lost' = lost + 1
  /\ pending' = [pending EXCEPT ![r] = <<>>]
  /\ UNCHANGED <<table, ledger, commits, copy, delivered, closed>>

\* The debounced commit takes both files as they are; git refuses an empty
\* commit.
Commit ==
  LET head == commits[Len(commits)]
  IN /\ Len(commits) <= MaxCommits
     /\ head.rows # rows \/ head.upto # Len(ledger)
     /\ commits' = Append(commits, [rows |-> rows, upto |-> Len(ledger), made |-> mutations])
     /\ UNCHANGED <<table, ledger, pending, lost, copy, delivered, closed>>

-----------------------------------------------------------------------------
(* deriveCommitChanges: the events of one commit                           *)

\* addedAuditLines: the suffix the commit appended to its parent's ledger.
Added(i) == SubSeq(ledger, commits[i - 1].upto + 1, commits[i].upto)

\* resolveDataRowByHash, at the commit itself or at its parent.
HashAt(i, rec) == rec.image \in Range(commits[i].rows[rec.key])

\* resolveDataRowByKey: the row the commit holds for the declared key stands
\* in for an image superseded within the commit.  Never for a tombstone.
KeyAt(i, rec) == rec.op # "delete" /\ First(commits[i].rows[rec.key]) # None

\* sameWindowBirthAndDeath: the commit records both the birth and the death
\* of the same row image.
BornAndDied(i, rec) ==
  LET added == ToSet(Added(i))
      same(other) == other.key = rec.key /\ other.image = rec.image
  IN /\ \E birth \in added : same(birth) /\ birth.op # "delete"
     /\ \E death \in added : same(death) /\ death.op = "delete"

\* Mutant: an image superseded within the commit does not resolve.
ResolvesByHash(i, rec) == HashAt(i, rec) \/ HashAt(i - 1, rec)

Resolves(i, rec) == HashAt(i, rec) \/ HashAt(i - 1, rec) \/ KeyAt(i, rec)

\* Mutant: the image is the one the record names, found or not.
ImageOfRecord(i, rec) == rec.image

ImageOf(i, rec) ==
  IF HashAt(i, rec) \/ HashAt(i - 1, rec) THEN rec.image ELSE First(commits[i].rows[rec.key])

\* A record that neither resolves nor belongs to a birth-and-death pair is
\* CHANGELOG_CORRUPT for the whole commit.
Corrupt(i) == \E rec \in ToSet(Added(i)) : ~Resolves(i, rec) /\ ~BornAndDied(i, rec)

\* Mutant: birth-and-death pairs are dropped before they are resolved.
EmittedUnpaired(i, rec) == Resolves(i, rec) /\ ~BornAndDied(i, rec)

\* The records that become events: those that resolve.
Emitted(i, rec) == Resolves(i, rec)

Event(i, rec) == [op |-> rec.op, key |-> rec.key, image |-> ImageOf(i, rec)]

\* A consumer applies an event by its key; a tombstone removes the row.
ApplyEvent(tbl, event) ==
  [tbl EXCEPT ![event.key] = IF event.op = "delete" THEN None ELSE event.image]

Replay(i, tbl) ==
  LET added == Added(i)
      after[n \in 0..Len(added)] ==
        IF n = 0 THEN tbl
        ELSE IF Emitted(i, added[n]) THEN ApplyEvent(after[n - 1], Event(i, added[n]))
        ELSE after[n - 1]
  IN after[Len(added)]

\* check: the next commit is delivered whole, or the feed closes; a consumer
\* that resumes from its cursor meets the same commit again.
Deliver ==
  /\ ~closed
  /\ delivered < Len(commits)
  /\ IF Corrupt(delivered + 1)
     THEN closed' = TRUE /\ UNCHANGED <<copy, delivered>>
     ELSE /\ copy' = Replay(delivered + 1, copy)
          /\ delivered' = delivered + 1
          /\ UNCHANGED closed
  /\ UNCHANGED <<table, ledger, pending, lost, commits>>

-----------------------------------------------------------------------------
NoRows == [k \in Key |-> <<>>]
NoMutations == [k \in Key |-> 0]

\* The table is declared and its namespace committed before the first row.
Init ==
  /\ rows = NoRows
  /\ ledger = <<>>
  /\ pending = [r \in Request |-> <<>>]
  /\ lost = 0
  /\ commits = <<[rows |-> NoRows, upto |-> 0, made |-> NoMutations]>>
  /\ copy = [k \in Key |-> None]
  /\ delivered = 1
  /\ closed = FALSE
  /\ mutations = NoMutations
  /\ reposted = {}

Next ==
  \/ \E r \in Request, k \in Key, v \in Image :
       InsertTableRows(r, k, v) \/ UpdateTableRows(r, k, v) \/ UpsertTableRow(r, k, v)
  \/ \E r \in Request, k \in Key : DeleteTableRows(r, k)
  \/ \E r \in Request, len \in 1..MaxEnvelope : \E acts \in [1..len -> Action] :
       RunTableTransaction(r, acts)
  \/ \E k \in Key, v \in Image : InsertThroughWriter(k, v)
  \/ \E r \in Request : RecordMutation(r) \/ RecordFails(r)
  \/ Commit
  \/ Deliver

Spec == Init /\ [][Next]_vars

-----------------------------------------------------------------------------
(* Properties                                                              *)

Table == [Key -> Seq(Image)]
Counts == [Key -> 0..MaxMutations]

\* The shape of the state: what the variables above may hold.
TypeOK ==
  /\ rows \in Table /\ copy \in [Key -> Image \cup {None}]
  /\ ledger \in Seq(ChangeRecord)
  /\ pending \in [Request -> Seq(ChangeRecord)]
  /\ lost \in 0..MaxLost
  /\ commits \in Seq([rows : Table, upto : 0..Len(ledger), made : Counts])
  /\ delivered \in 1..Len(commits)
  /\ closed \in BOOLEAN
  /\ mutations \in Counts
  /\ reposted \subseteq Key

\* What the ledger says of a key at a commit: the mutations it records.
Recorded(i, k) == {rec \in ToSet(SubSeq(ledger, 1, commits[i].upto)) : rec.key = k}
LastWord(i, k) ==
  LET places == {p \in 1..commits[i].upto : ledger[p].key = k}
  IN IF places = {} THEN 0 ELSE ledger[CHOOSE p \in places : \A q \in places : q <= p].n

\* A consumer converges on every row that is still there: once it is through
\* the latest commit, its row for a key whose latest mutation has the last
\* word in the ledger, and whose lines agree, is the committed row, however
\* many images were superseded, inserted again or dropped as pairs on the way.
LiveRowsConverge ==
  LET head == Len(commits)
  IN (delivered = head /\ ~closed) =>
       \A k \in Key, v \in Image :
         /\ Range(commits[head].rows[k]) = {v}
         /\ LastWord(head, k) = commits[head].made[k]
         => copy[k] = v

\* Committed only: a consumer never holds a row that no commit it has
\* received held.
CommittedOnly ==
  /\ TypeOK
  /\ \A k \in Key :
       copy[k] # None => \E i \in 1..delivered : copy[k] \in Range(commits[i].rows[k])

\* A commit is calm for a key when neither it nor its parent parted a mutation
\* from its record, it took at most two mutations of the key, and no POST ever
\* gave the key a second line.
Calm(i, k) ==
  /\ \A j \in {i - 1, i} : Cardinality(Recorded(j, k)) = commits[j].made[k]
  /\ commits[i].made[k] - commits[i - 1].made[k] <= 2
  /\ k \notin reposted

\* A feed never closes on a commit that is calm for every key: two mutations
\* of a key in one window, whatever they are, do not end the feed.
CalmWindowKeepsFeed == closed => \E k \in Key : ~Calm(delivered + 1, k)

\* When every commit is calm and every record is delivered, the consumer's
\* copy is the table: no accepted mutation is silently skipped.
CopyConverges ==
  LET head == Len(commits)
  IN (/\ delivered = head /\ ~closed
      /\ \A i \in 2..head, k \in Key : Calm(i, k)
      /\ \A k \in Key : LastWord(head, k) = mutations[k])
     => \A k \in Key : copy[k] = First(rows[k])

=============================================================================
