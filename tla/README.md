# Verification of duckbrain

duckbrain stores memories and table rows of many *namespaces*. A namespace is a
directory of JSONL files with its own git repository; several server processes
(HTTP, MCP over stdio, CLI) may serve the same directory. This project models
the parts whose correctness depends on the order of steps: the path of a write
from a client's call to a commit in git and to the subscribers of the change
feed; the components that rewrite, mirror, cache or index the same files behind
it; and the registry of namespaces. The modules are translated from
`src/src/**/*.ts`; paths below are relative to that directory.

## 1. Inventory

| Component | State | Operations | Meets | Hard behaviour | Correct when |
|---|---|---|---|---|---|
| Write lock `serialization/lock.ts` | `<ns>.lock` file; a handle (nonce) per holder | acquire, shouldBreak, tokenStillCurrent, release | writer, DDL, commits, other processes | every call is several system calls; holders die, stall, lose the file; pids are recycled | what a holder does after losing the lock is bounded and never acknowledged; a dead holder's file goes away |
| Namespace writer `serialization/namespaceWriter.ts` | queue, audit queue, counters, `seq`, timer, `flushPromise`, `isFenced` | enqueue, enqueueBatch, enqueueAudit, flush, drain | lock, authorization hook, audit ledger, auto-commit, change feed | awaits inside a mutex and inside a flush; failures half-way; drain while calls register | order, at-most-once, acknowledged implies written and audited, exact queue bound, every caller answered |
| Audit ledger and partition manifest `serialization/auditLedger.ts`, `storage/manifest.ts` | `_audit/current.jsonl`, numbered segments, `manifest.json` | append burst, rotate, add partition | writer, change feed | sealed segments must never grow again, also after a preemption; read-modify-write of the manifest | every commit extends its parent's ledger; acknowledged records are there once |
| Auto-commit `git/autocommit.ts` | debounce windows, commit chains, gate, HEAD, index | schedule, commit, push, exit flush, `--wait` | writer (gate, lock), git, S3 push | `git add` reads files over time; busy locks, timeouts, exits | row and record in one commit, acknowledged writes are committed |
| Change feed hub `http/realtime/hub.ts`, `git/ledger.ts` | subscribers with queue and cursor, last delivered commit, poll timer | subscribe, replay, check, deliver, overflow, close | git history, writer's wake-up, sockets | joins under load, slow sockets, cursors of a rewritten history, lost wake-ups | no gap and no duplicate for any client over all its resumptions; a slow one is cut off alone; the feed never stays behind HEAD |
| Table operations and commit replay `tables/operations.ts`, `http/realtime/replay.ts` | a table's JSONL lines, pending change records; two commits and the audit lines between them | insert, patch, delete, put, transaction; pair each record with a row image | lock, writer (records), hub | rows are written under one lock, their records later under another; several mutations of a key in one commit | what a consumer holds is what is committed; an ordinary window never closes the feed |
| Schema DDL `serialization/ddl.ts`, `schemaRegistry.ts` | `schema.json`, journals, generations of a table's file | create, add, retype, declare and redeclare a view, recover | lock, table mutations | a change that stops between its files; mutations queued or waiting across it, or made before its recovery; retries | readers see the old or the new schema; the journal tells which; a key acts once |
| Durability `storage/durability.ts` | page cache, synced bytes and names | fsync and direct appends, rewrite | writer | power loss between a write and the sync of file and directory | an acknowledged row survives |
| Segment consolidation `storage/segment-consolidation.ts`, `jsonl.ts` | segments, plan | rotate; plan, write, delete | writer | killed between steps, appends meanwhile | no row lost; the partition reads the same |
| Key-list cache `keys/keyListCache.ts` | sidecar on disk, entry in memory | get, rebuild, invalidate | writer, list_keys | a rebuild races appends and other processes | a warm list is what a scan would give |
| S3 sync `s3/sync.ts`, `walk.ts`, `freshness.ts` | objects, published ledger, local manifest, lock | push, pull, freshness | writer, lifecycle | half-done transfers, lost answers, deadlines, two syncs at once | the ledger describes the objects; a pull destroys nothing unmirrored |
| Namespace lifecycle `namespaces/*`, `config/index.ts`, `mcp/tools/namespace.ts` | config mappings, directories, sync manifests | create, switch, delete, prune, ghost sweep | config, push | check-then-act by several processes on one file | a registered namespace stays registered; a deleted one is not pushed again |
| Memories `mcp/tools/{remember,forget}.ts`, `http/routes/memories.ts`, `duckdb/queries.ts`, `git/squash.ts` | rows and tombstones by month, Parquet files | remember, forget, update, list, squash | writer, recall | a tombstone in another month than its row; squash beside both; windowed lists | what is acknowledged is listed, what is forgotten is not; a bounded list is the unbounded one |
| Full-text search index `search/index.ts` | index file, meta, lock file, flight | freshness check, rebuild, wait, search | recall, writer, git hooks | rebuild races appends; two reapers of one lock; kills and failures | a search sees every row acknowledged before it, from a whole index |
| Auto-push, merge, git queue `git/*` | push gate, pending commit | push, commit, repair | git | single-flight with a minimum interval | nothing committed is forgotten |
| DuckDB tables `duckdb/*` | connections, materialised tables | acquire, refresh, query | tables, recall | refresh races an append | reads reflect all acknowledged rows |
| Embeddings `embeddings/*` | cache, provider health | embed, probe | recall | provider failure | one probe at a time when the circuit is open |
| Auth, roles, rate limit `auth/*` | tokens, role matrix, windows | authorize, limit | all routes, writer hook | revocation between enqueue and flush | no write without a grant at flush |
| Read ledger, receipts, metrics, configuration, CLI, MCP tools, supervision, SSH, generators | local buffers and counters | see `PROJECT.json` | | mostly I/O and formatting | |

`PROJECT.json` lists every component with its files and, where it is not
modelled, the reason; its hazards give the line where each one bites and the
properties about it, and a note says which part of it the code does not guard against
and the property therefore leaves out.

## 2. Modules

```
the path of a write
  WriteService  <--refines--  NamespaceWriter      WriteLock
   (promise to a row)          (one process)        (system calls of several processes)
  AuditLedger                 AutoCommit           Durability
   (end of a flush)            (flushes, commits)   (page cache against power loss)
  TableChanges                ChangeFeed           SchemaDDL
   (mutation -> event)         (history -> client)  (schema changes next to inserts)

behind it, on the same files
  Consolidation   KeyListCache   SearchIndex   Memories   S3Sync   NamespaceRegistry

proofs (section 4)
  WriteLockProofs   NamespaceWriterProofs   AutoCommitProofs   SchemaDDLProofs
  ChangeFeedProofs
  AppendOnlyProofs (AuditLedger, Durability, Consolidation)
  MirrorProofs (NamespaceRegistry, S3Sync)
  ListingProofs (KeyListCache, SearchIndex, Memories, TableChanges)

composition for TLC
  MCComponents = AuditLedger | Consolidation | Durability | KeyListCache | S3Sync | NamespaceRegistry
  MCNamespace  = Memories | SearchIndex
```

The models of the write path look at the same flush from different distances.
`WriteLock` has every system call on the lock file and of the flush only what the
lock protects. `NamespaceWriter` has every await of the writer and takes the lock
as a variable another owner may take, free or break. `AuditLedger` has the end of a
flush, file by file. `AutoCommit` has every step of a commit, reduces a flush to
its data append, audit append and release, and lets the lock exclude, because what
happens when it does not is settled by `WriteLock`. `TableChanges` asks what the
events of one commit after another make of a consumer's copy; `ChangeFeed` takes
the events of a commit as given and asks who receives which of them.

`MCComponents` and `MCNamespace` are disjoint sums: `part`, chosen in the initial
state, says which component moves while the others keep one initial state. The
components of a sum share no variable, so the behaviours of each are those it has
alone; the sum only lets one run check them all. They are sums and not products
because their files meet in no property below: where two components do
meet (rotation and consolidation, inserts and DDL, rows and records, a forget and
a squash, a push and a delete) one module has both.

### WriteLock

| Model | Code |
|---|---|
| `lock` (nonce, pid, written, old) | `<ns>.lock`; `written` turns TRUE with `writeSync` of the payload |
| `BeginAcquire` .. `UnlinkStale` | the loop of `acquireNamespaceWriteLock`: `openSync("wx")`, `writeSync`, `statSync` and read in `shouldBreak`, `unlinkSync` |
| `CheckToken`, `AppendRow` | `assertCurrent` and the append after it, once per row |
| `AppendAudit`, `FinalCheck`, `Acknowledges` | the audit burst, the last `assertCurrent`, the acknowledgement |
| `ReleaseCheck`, `ReleaseUnlink` | `releaseNamespaceWriteLock` |
| `Kill`, `Restart`, `Age` | SIGKILL, a restart under any free pid, ten minutes |

`late` and `lateAudit` are history variables: what a flush wrote after it lost
the lock. Nonces are 128 random bits; a finite set stands for them because a
fresh draw never equals one that is held or on disk, and at most one per process
and one on disk are in use.

### NamespaceWriter and WriteService

A call submits a sequence of rows: none (`enqueueAudit`), one (`enqueue`), several
(`enqueueBatch`). Each action is the code between two awaits; `Synchronous` marks
the part of a flush without one, during which no other code of the process runs.
`mutex` is the FIFO of `enqueueMutex`, on which calls and the flush wait together.
`handled` says whether each waiter of `flushPromise` handles its rejection, which
decides whether a throwing `acquireNamespaceWriteLock` ends the drain or the
process. `trouble`, chosen in the initial state, is the one thing that may go wrong
around the writer in a behaviour: its lock is broken, the namespace is deleted, or
taking the lock throws. An authorization decision is a free choice at enqueue and again at
flush. `FlushFails` is any I/O error of the burst, after any prefix of it.

`WriteService` is the promise to the client of a row: accepted or refused once,
appended at most once and only while pending, acknowledged only after it was
appended. `NamespaceWriter` implements it under `status <- RowStatus`,
`log <- data`, in a namespace that is not deleted.

Two things the model has that no property forbids. The lock is taken outside the
`try` of `flushOnceLocked` (`namespaceWriter.ts:849`): when taking it throws, the
batch has left the queue and its callers are never answered, against
`docs/specs/SUPA-2-serialization.md:97`. And the directory is looked at before the
awaits of a flush (`:833`): a namespace deleted meanwhile is created again by its
append, against `:94` of the same document.

### AuditLedger

`BeginBurst`, `AppendRecord`, `AssertCurrent`, `ReadManifest`, `WriteManifest` and
`Acknowledge` are the end of a flush, one file operation each; `BreakLock` lets
another process in while one is suspended between them. A process keeps the active
segment in memory, in `burst`, for the length of one. `TearRecord` is a write that fails
half-way, `CommitLedger` a commit and the comparison `assertCanonicalSegmentAdvance`
and `addedAuditLines` make of it. A broken lock alone never breaks that
comparison. A torn line does, and the next acknowledged record is glued to it.

### AutoCommit

A write is one flush batch. `data` and `audit` are the files in the worktree,
`head` what HEAD holds of them, `index` what a running `git add -A` has read so
far: it reads the two in either order, at two moments. `window`, `chain` and
`commit` are `pending`, `asyncChains` and the commit that runs; `GateLocked` is the
in-process gate. `StartExit` and `Exit` are the orderly shutdown of `cli/http.ts`,
`StartWait` is `remember --wait`, which flushes its window at once, `GiveUpCommit` a commit that times out on the
lock or whose git fails, `Crash` a SIGKILL. `calm`, chosen in the initial state,
rules the last two and failing flushes out for the behaviour.

The gate is only looked at by a flush, not held (`autocommit.ts:154`): in the model
as in the code a commit may take the lock between `LeaveGate` and `LockForFlush`,
and the flush then answers SERIALIZER_LOCKED to its client. The commit
`--wait` waits for may be given up like any other, and `--wait` then returns without
it (`:838`, against the comment at `:822`): of a behaviour that is not calm nothing
says when a write reaches HEAD.

### TableChanges

| Model | Code |
|---|---|
| `rows` (lines per key), `First`, `LinesAfter` | the table's JSONL file, `findRowByPk`, `appendRowsToTable`, `rewriteWithPredicate` |
| `InsertTableRows`, `UpdateTableRows`, `DeleteTableRows`, `UpsertTableRow`, `RunTableTransaction` | the REST verbs of `tables/operations.ts`, up to the release of the lock |
| `InsertThroughWriter` | a POST to a `schema.json` table, whose row and record are one flush |
| `pending`, `RecordMutation`, `RecordFails` | `recordTableMutationAudit`, after the lock is released |
| `Commit` | the debounced commit, which takes rows and ledger as they are |
| `Added`, `HashAt`, `KeyAt`, `BornAndDied`, `Resolves`, `Corrupt`, `Emitted` | `deriveCommitChanges` and its helpers in `http/realtime/replay.ts` |
| `Deliver`, `copy`, `ApplyEvent` | `check`, and a consumer that applies rows by declared key |

A row image and its content hash are one value, because the hash is only ever
compared. A legacy POST does not look for the key, so a key may have two lines;
`reposted` remembers where that happened. `mutations` and the number `n` in a record
are there for the properties.

### ChangeFeed

| Model | Code |
|---|---|
| `made`, `Ancestor`, `ChangesBetween` | the first-parent history, as `git/ledger.ts` reads it |
| `last`, `timer`, `stage`, `queue`, `blocked`, `sent` | `FeedState` and `Subscriber` |
| `cursor`, `got`, `origin` | the client: its cursor, what it was sent, from where on |
| `Subscribe` | the limit check, before the feed lock |
| `RejectSubscriber`, `Attach` | the section of `subscribe` under the feed lock |
| `Enqueue`, `Drain`, `Overflows` | `enqueueFrame`, `pump`, `overflow` |
| `Poll`, `Wake` | `check`, from the timer and from the commit notifier |
| `DeliverCommits`, `Reanchor` | its delivery loop with `closeFeed`, and a rewritten history |
| `Leave` | `removeSubscriber`, `revoke` |

The sections under the feed lock run git synchronously and have no await inside, so
each is one action. A socket takes any number of frames before it pushes back,
except those of `Steady` clients, which never do.

Two things the model has and no property forbids: a first subscriber that overflows
in its own replay leaves the timer running (`hub.ts:362`), and one without a cursor
that joins a feed behind HEAD is sent the changes the feed still owes its others,
although its ready frame names HEAD (`hub.ts:271`).

### SchemaDDL

| Model | Code |
|---|---|
| `AcquireDdlFence`, `RecoverFinalizes` .. `RecoverFailsClosed` | `acquireDdlFence` and the recovery that classifies each unfinished journal by the hashes on disk |
| `Found`, `Settled`, `AnswerFromJournal` | the look-up of an Idempotency-Key |
| `CreateDeclaredTable`, `AddColumn`, `RetypeColumn`, `DeclareView`, `RedeclareView` | the document each operation computes |
| `OpenGeneration`, `WriteGeneration`, `Prepare`, `Switch`, `MarkSwitched`, `Finalize` | one file operation each: generation file, journal, `schema.json`, journal, journal |
| `OperationFails`, `Crash`, `Tamper` | an error or a SIGKILL at any step; a change of `schema.json` or a generation from outside, between operations |
| `Enqueue`, `Flush` | an insert: path captured and validated when queued, appended later by a flush that tries the lock once, in a new chunk if the file is full |
| `Enqueue`, `Upsert` | an upsert of a new row, or an insert of a transaction: appended under the lock, never in a new chunk |
| `AnswerAppended` | the row is acknowledged, or is there without an acknowledgement: the process died, or the audit record failed |
| `AwaitLock`, `GiveUp` | PATCH, DELETE, or an upsert of a row that is there: path resolved, then up to 2 s of waiting for the lock; no such row, refused, or too late |
| `Update`, `Delete` | `rewriteWithPredicate` under the lock, at the path resolved before it |

A transaction is several of these mutations under one lock; its rollback restores the
bytes. `edited` are rows whose file says something else than was inserted, `outcome`
what the last mutation of a row made of it, `rewritten` files that were rewritten,
`waiting` how many PATCH and DELETE wait with each path. `crossed` are rows queued when
a switch retired their path, or updated or deleted in a retired file; `rotated` rows
that went to `NNNN.jsonl`, which the declared path does not name.

Recovery runs only when the next DDL operation begins; `recoverNamespaceDdl` has no
caller in the server. So a process that dies between the switch and the finalization
leaves a journal open beside a table that is sound and in use, until the next schema
change looks at it. Any insert, upsert, PATCH or DELETE meanwhile changes the digest of
the generation, and that schema change fails closed although nothing was tampered with
(`ddl.ts:591`, against `SUPA-6-ddl.md:124`): `FailsClosedOnEvidence` says that the server
has no other way to get there. Once failed closed, inserts, upserts and transactions are
refused; PATCH and DELETE do not ask.

Divergences with no run of their own: a PATCH or DELETE that waited across a switch
rewrites the retired file and is acknowledged, without effect for readers (as an insert
in the run `ddl_across`); PATCH and DELETE rewrite generations, called immutable in
`ddl.ts`; `unreferencedGenerations` deletes superseded generations (against
`ddl.ts:24`); a retry after a crash that recovery finalized is answered 500
IDEMPOTENCY_REPLAY_INCOMPLETE (against `SUPA-6-ddl.md:107`); after an abandoned or
failed first attempt a key executes again.

### Durability

`data[f]` are the contents a file may have after a power loss and `entry[f]` what its
name may stand for; `AppendDurable`, `BarrierFile`, `SyncDirectory` and
`PassBarriers` are the steps between an append and its acknowledgement, `Rewrite` the
temporary file and rename of a delete. `DirsToSync` is what `fsyncParentsForCreate`
names: the parent of the file and that of the deepest directory created. So a flush
that creates two levels leaves the upper name unsynced ("nested"); an append to a
file left by an operation that died before its directory fsync syncs only bytes
("abandoned"); a torn line swallows the next row ("torn"). `excuse` records these
three, and the property shows that nothing else breaks the promise.

### Consolidation

`Pack` says where each group ends; `Merges`, `Cut`, `Slot`, `Chunks` and `KeepsLayout`
are the planner and its layout check as functions on the files. A plan lists the chunks
of all splits, each with the range of its input that it takes. A partition is found with
its records in files in the order of the appends (`Layouts`). `ReadInputs`, `WriteSegment`,
`CheckBeforeDelete`, `DeleteInput`, `CheckAfter` are the execution, one file
operation each; `ResolveTarget` and `AppendLine` are an append of the server with
its rotation. The pass takes no lock, so an append may land in a file being deleted
(`raced`). A split whose new names lie above its input has a moment in which a
kill loses records (`upward`), against the header of `segment-consolidation.ts`;
the claim there that a second plan is empty does not hold either.

### KeyListCache

The corpus and its fingerprint are the number of rows. `ServeFresh`,
`StartRebuild`/`Scan`/`RenameArtifact`/`RenameMeta`, `JoinRebuild` and
`InvalidateKeysCache` follow `ensureFreshKeyList`; `lag` keeps the worst answer of each
kind. A process that filled its memory before another's rebuild serves that old
list while the files are fresh (against `keyListCache.ts:45`); calls that join a
rebuild may miss rows acknowledged before them; two rebuilders may leave the
artifact of one under the meta of the other.

### S3Sync

| Model | Code |
|---|---|
| `StartSync`, `Release` | `syncNamespace`, `acquireLock`, `releaseLock` |
| `PlanPush`, `PutObject`, `SavePushManifest`, `PublishLedger` | `pushNamespace` |
| `FetchListing`, `FetchLedger`, `PlanPull`, `GetObject`, `FinishPull` | `pullNamespace`, with its refusal |
| `Accepted`, `SameObject` | verification by ledger, then by ETag |
| `walkLocal`, `Unpushed` | `walk.ts`, `freshness.ts` |
| `Mishap` with `PutObject(.., stored, answered)`, `FireDeadline`, `KillSync` | refused and lost requests, the deadline, SIGKILL, a lock older than ten minutes |

A bucket answers with md5 or with multipart ETags. The histories name what the code
does not promise, and each is a way the model reached or a step at which the proof
would not go through until TLC showed why:

- `astray`: a file transferred by a call that saved no manifest for it, or beside
  another call on its host, or by a push beside another push. A later push skips it by
  its ETag and publishes its OLD sha256, so a restore rejects a good object.
- `blessed`: bytes of a local-only file that a pull put into its manifest with no object
  behind them (against the comment in `freshness.ts`). A later pull takes the file for
  one of an older mirror and may overwrite it.
- `unsent`: bytes of a file that failed to transfer, because `lastSyncAt` moves all the
  same (the finding of `s3_pull`); a pull fails a file that the ledger names and its
  listing lacks.
- `racedBodies`: bytes written during a call get an mtime before `lastSyncAt`.
- `unproved`: a file that a pull restored with no ledger to check it by. It may be the
  garbage an outsider put there, and whoever pushes it next publishes its sha256.

### NamespaceRegistry

`BeginCreate` .. `UnlinkManifest` are the steps of create, switch, delete, prune and
the ghost sweep; `OpenTmp`, `FillTmp` and `Rename` are `updateConfig`, whose temporary
file has one name for all processes; `Guarded` is prune's comparison of the config's
mtime and size. `clobbered` marks two unguarded updates that overlapped: they lose
rows, or publish a torn file, which reads as the defaults. `misread` marks relative
mappings a sweep resolved against the working directory; `slipped` a push that began
after delete's check or whose lock was over ten minutes old.

### Memories

A row is `[id, key, by, act, at, month]`. A forget has three steps, as in `forget.ts`:
find the memory, choose the partition, append the tombstone. The tombstone goes to
the *current* month's partition, and `tombstoneMemory` looks for the original only
there, although the comment says it is the same partition; not finding it, it
writes a tombstone with key `/unknown`. An update is a forget and a remember with a
new id. `ReadPartition`, `CopyToParquet`, `RemoveJsonl` are `squashPartition`, which
drops tombstone rows only. `Fused` is the statement over all rows; `DedupeLive`,
`Dedupe`, `Window`, `BoundedPage` and `BoundedTotal` the one over a window that doubles.

What it shows beyond its properties: a listing by key still has a memory of an
earlier month after it was forgotten (against `docs/api/http-api.md:380` and `:416`),
and so has a listing by author if another one forgot it; squashing the partition of a
tombstone revives the memory in an older one; squashed records leave recall (nothing
reads `.parquet`) and the backup; rows appended during a squash go with the file; two
concurrent PUTs leave two versions, an interrupted one leaves none.

### SearchIndex

Each action is a step of `ensureFreshIndex` and `rebuildNamespaceIndex`: freshness check,
`CreateRebuildLock`, `NameRebuildLock` (creating and filling the lock file are two
calls), stage, load, rename, meta, release; `FindRebuildLock`, `RemoveStaleLock` and
`Poll` are the waiter's. `StartRead`, `Answer` are a search. Rows written while a
rebuild runs count as fresh until the next write, because `indexedAt` is taken at
the end; two processes that reap one dead owner's lock may both build the same
temporary file (`stoleLock`); a kill between creating and naming the lock leaves one
that is never stale, on which every later rebuild waits, against `index.ts:61`.

## 3. Runs

| Run | What it asks | Bounds |
|---|---|---|
| `lock_faults` | once the lock failed: at most one late row, nothing late acknowledged, a lost token stays lost, an abandoned lock file is removed | 2 processes, 3 pids, 3 nonces, 2 rows, 1 kill, 4 attempts as in the code |
| `lock_exclusion` (violated) | do two healthy processes exclude each other? | 2 processes, no kill, no stale lock |
| `writer_service` | queue bound, refused rows, order, audit, drain, refinement, no lost wake-up | a single write, a batch of two, an audit entry, queue bound 2; per behaviour one kind of trouble: lock broken, namespace deleted, lock throws |
| `commit` | pairing of row and record always; exit and eventual commit in calm behaviours | 2 processes, 3 writes, windows of 2 lines, with and without faults |
| `tables_replay` | which rows a consumer converges on, that it holds nothing uncommitted, and which windows may close the feed | 1 key, 2 images, 2 requests, 4 mutations, 2 commits, envelopes of 2, 1 lost record |
| `tables_deletes` (violated) | does a calm history bring the copy to the table, deletes included? | 1 request, 3 mutations, 2 commits |
| `feed` | no gap and no duplicate, overflow of the slow client alone, a feed that catches up | a steady and a slow client, 3 commits of up to 2 changes, queue of 1, replay of 2 events and 2 commits |
| `ddl` | acknowledged rows stay readable, journals tell the outcome, failing closed needs evidence, a key acts once | 2 journals, 5 requests, 2 rows inserted, 2 PATCH or DELETE, 1 column, chunks of 1 line, kills, failures, changes from outside; a new table, or one with a view |
| `ddl_across` (violated) | is no insert queued across a switch? | 1 materialising request, 1 insert |
| `components` | thirteen properties of six components, see below | see below |
| `s3_pull` (violated) | may a pull destroy only bytes written during a sync? | the S3 part of `components` |
| `namespace` | bounded and live lists; search after rebuilds | see below |

`components` and `namespace`, part by part:

| Part | Properties | Bounds |
|---|---|---|
| audit | `EveryCommitExtends`, `AcknowledgedIsRecorded` | 2 processes, 2 partitions, bursts of 2, 4 records, segments of 1 line, one broken lock, torn lines |
| consolidation | `KilledPassKeepsRecords`, `UndisturbedPassSucceeds` | every layout of up to 6 records over files 1 to 4, two of them behind a full `current.jsonl`; 2 passes, 1 append, 1 record over the byte limit |
| durability | `AcknowledgedSurvivesPowerLoss` | directories 2 deep, 2 files, chunks and flushes of 2 rows, 3 rows, 2 power losses, fsync and direct |
| keys | `WarmIsCold` | 2 servers, 2 rows, 2 calls each, restarts |
| sync | `LedgerDescribesObjects`, `PullLosesOnlyExcused`, `FreshnessNamesUnmirrored`, `NoRotBehindLedger`, `CleanPullIsComplete` | 2 hosts that both write, 2 processes, 2 files, 2 local writes, 3 syncs, 1 mishap, both kinds of ETag; hosts, processes and files symmetric |
| registry | `RegisteredStays`, `DeletedIsNotPushed` | 2 processes, 2 namespaces, 2 operations, kills, a push |
| memories | `ListIsLive`, `BoundedIsExact` | 2 calls, 2 memories (one possibly imported with a timestamp that does not parse), 3 rows, 2 months, 1 key, window of 2 and slack 0 so that it doubles and is given up |
| search | `ServedIsCurrent` | 2 processes, 3 rows, reads build up to 2, 1 kill or failure |

Why the bounds are enough. Two lock holders make every race of the lock file
(the third party of a take-over is the file itself); for more processes the
theorems speak. Three calls with a batch of two and a bound of two make a full
queue, a call arriving during each step of a flush, a drain in each of them and a
second flush after a failed one. The kinds of
trouble are not combined in one behaviour: that is a bound. Two processes and three writes fill a window,
open another, and let each process exit or die while the other one holds the
lock. Mutations of one key are independent of those of another except for order in
the ledger, so one key suffices; four mutations in two windows hold every pair of
verbs in one window with its history on either side. Three commits hold a
resumption in front of, inside and behind a commit that does not derive or that
replaced the history, with queues and replays at their limits. Three journals hold
an interrupted operation, the recovery in front of the next and a retry after both.
Two syncs of a host can overlap and a third sees what they left. Four files with a
gap, an oversized record and two passes reach merges, splits with and without a
slot, and a pass over what a killed one left.

Deadlock is checked in the lock runs, which never stop. The others model a finite
number of calls, rows, commits or operations and end when these are used up.

Each violated run is a disagreement of the code with its documents, or a bug; its
finding in `PROJECT.json` quotes the line. The other divergences named in section 2
have no run of their own: they are behaviours of the passing runs' models, and each
property excludes them by a history variable or a stated exception.

### Fairness

- `WriteLock`: a process inside a synchronous call is not suspended for ever,
  a serving process flushes again, a supervisor restarts it, time passes. No
  fairness for kills.
- `NamespaceWriter`: the event loop runs every timer and continuation, and hooks
  answer (`checkAuthorization` has no timeout: a hook that never answers does block
  its namespace). Clients need not call, nobody need drain, the lock need never be
  free: a busy lock answers instead of waiting. A lock that throws leaves callers
  unanswered, so `EveryCallReturns` is claimed of the behaviours without that.
- `AutoCommit`: timers fire and git returns (weak). A commit that polls the lock
  gets it (strong): its other holders release within milliseconds and there are
  finitely many of them. The two-second time-out, after which the code gives the
  commit up and promises nothing, belongs to behaviours that are not `calm`;
  `ExitCommits` and `AcknowledgedIsCommitted` are claimed of calm ones only.
- `ChangeFeed`: the poll timer fires while it is set (`setInterval`). Nothing is
  assumed of wake-ups, sockets, clients or writers.

The other modules state safety only. Of the search index no liveness holds: see the
unnamed lock above.

## 4. Proofs

Eight modules of proofs, about fourteen components for every value of their constants:
any number of processes, calls, rows, files, hosts and failures. Each component has one
inductive invariant, which TLC checked on small instances first, and the properties of
the runs are derived from it. The only assumptions are those named in the component's
module: bounds are natural numbers (an envelope has room for one action at least), a
mark of absence (no owner, no row, no index, no list, no document, no manifest, no
cursor) is none of the values it stands beside, keys, authors and ids of memories are
different values (a filter is one of them), the calls of `NamespaceWriter` submit
each row once, and a partition that `Consolidation` starts from holds its records in the
order they were appended.

| Module | Theorems about the properties of the runs |
|---|---|
| `WriteLockProofs` | `OneLateRow`, `AcknowledgedHeldLock`, `FencedForGood` (an action property) |
| `NamespaceWriterProofs` | `QueueAccounted`, `RefusedNotWritten`, `FileOrdered`, `AcknowledgedAudited`, `DrainResolves`, `WriterImplementsService` (the refinement) |
| `AutoCommitProofs` | `PairsCommitted`, `ExitsCommitted` |
| `ChangeFeedProofs` | `NothingMissing`, `SteadyStays` |
| `SchemaDDLProofs` | `RowsStayReadable`, `JournalIsTrue`, `FailsClosedForCause`, `OneChangePerKey` |
| `AppendOnlyProofs` | `CommitsExtend`, `AcknowledgedRecorded` (AuditLedger), `AcknowledgedSurvives` (Durability), `KilledPassKeeps` (Consolidation) |
| `ListingProofs` | `WarmIsColdHolds` (KeyListCache), `ServedIsCurrentHolds` (SearchIndex), `ListIsLiveHolds` (Memories), `LiveRowsAgree`, `OnlyCommitted`, `CalmFeedStays` (TableChanges) |
| `MirrorProofs` | `RegisteredStaysHolds`, `DeletedIsNotPushedHolds` (NamespaceRegistry), `LedgerKeepsRotOut`, `PullRefusesToLose`, `StatusIsHonest`, `LedgerIsTrue`, `CleanPullRestores` (S3Sync; the last is an action property) |

Each is laid out alike: the parts of the invariant, lemmas about the data, one lemma
per action or group of actions with one step per part that the action can disturb,
and the theorems. A component that TLC runs as part of a sum is proved about as a
specification of its own (`AuditLedgerSpec` and the like: its initial states and its
steps).

**WriteLock.** `AtMostOneLateRow` is not inductive: it does not say that the row after a
late one is never reached. `FencingInvariant` adds that a nonce belongs to one
process, and exactly those past `openSync` have one (`TokenOwned`); that the file that
carries a holder's nonce is complete, so `tokenStillCurrent` can only fail for
good (`OwnFileWritten`); that rows are counted within a flush only (`RowsCounted`); and
that a flush with a late row or a late audit burst has lost its token and is not
about to append (`LateIsLost`). `AcknowledgedUnderLock` then follows from `LateIsLost`
without induction, and `LostForGood` because nonces on disk are fresh.

**NamespaceWriter.** The state between two awaits is what the code keeps in locals, and
`WriterInvariant` says how it hangs together: the mutex holds each waiter once and in
the phase that waits there (`MutexInOrder`); the batch, the decisions about it and what
is still to be appended are as far as the flush has come (`BatchFollowsFlush`,
`AcceptedIsDecided`, `AckedIsWritten`); whatever has no answer is queued or in the batch,
and nothing else is (`UnansweredIsPending`); numbers grow from the file through the
batch to the queue (`InSeqOrder`); and `QueueBounded` adds to the bound that a batch which
was measured and is being authorized will still fit. The refinement has
one lemma per kind of step: an enqueue accepts or refuses, an append is an append to
the log, an answer answers, all else stutters.

**AutoCommit.** `PairInOneCommit` is about HEAD, so the invariant follows rows and records
back: from HEAD to the index (`HeadInPairs`, `IndexIsTree`: what a running `git add` has
read is the worktree of a moment under the lock), to the worktree (`TreeInPairs`: a row
without its record belongs to a flush that holds the lock, or is an orphan of a
failed one), to the flush (`FlushOwnsWrite`, `LockFollowsProgress`). `ExitCommits` needs
`NothingForgotten`: in a calm behaviour what is not in HEAD has a window, a chain or a
commit ahead of it, and `StoppedIsIdle`: a process that is gone has none.

**ChangeFeed.** `NoGap` says of neighbours in a client's path (its origin, what it got,
what waits for it) that the second follows the first. `Chain` adds that the path begins
at the end of a commit and goes on through changes of commits that were made, so that
neither a commit that lands nor a rewrite disturbs it; `Reaches`, that nothing is missing
behind its last change up to the commit the feed is at. A replay and a check continue a
chain (`ReplayContinues`, `CheckContinues`) because the changes between two commits are a
`Run`, which is shown along the recursive function `ChangesBetween` by taking the least
commit at which it would fail. `CursorIsLast` lets a resumption begin where the path
ends, whichever frames were cut off with an overflow; `QueuesWait` says that frames wait
only behind a socket that pushed back, and is all that `SteadyNeverOverflows` needs.

**AuditLedger.** `EveryCommitExtends` must hold with two writers at once, so nothing in
it may rest on the lock. `SegmentRemembered` says that the segment a burst remembers as
active is there, or is the first one and empty; `Gapless` that segment numbers have no
holes; `BurstsApart` that concurrent bursts append different records, hence
`EachOnce`; `HeadIsBehind` that the committed segments are beginnings of those on
disk. While the lock holds, `InFlushOrder` and `ManifestInStep` give the order and
the manifest of `AcknowledgedIsRecorded`.

**Durability.** The property is about what is read *after* a power loss, so the invariant
speaks of all outcomes of one, `Outcomes(f)`. `AcknowledgedIsStable`: an acknowledged row
is in every outcome of a file that the running operation did not make. To get there
`WrittenIsThere` follows the rows of the operation into cached files and, past the
barrier, into their bytes; `NamesAreSynced` and `DirectoryIsSynced` say that a name which
may be lost was made by the running operation and its directory is still to be
synced, with nothing acknowledged below it. That an acknowledged delete stays
(`DeletedIsGone`) holds without any excuse, and needs that a row has one home among
all outcomes (`RowHasOneHome`): a second copy would survive the rewrite.

**Consolidation.** `KilledPassKeepsRecords` speaks of a pass that has stopped, so
`RecordsKept` says at each step of a running one where the guarded records are: those
the partition was found with, and those appended since while no append has met a pass.
A plan takes each of them along (`Placed`): its file is merged, or stays, and if a chunk
takes the file's name, the record is in that chunk or in one written before it. That
`MakePlan` does so (`PlanKeeps`) rests on the packing, whose ends cover every unit and
grow, and on the chunk with the input's own name being the last unless a name lies
above it (`upward`). It uses of `Slot` only that the names are free. Once the outputs
are read, each record has a `Home`: a file that stays, or that is written again before it
is replaced or removed. Each write uses up the first output and keeps this, because what
is written has names of its own which are not removed (`NamesApart`: from `Written` and
the layout check); a removal needs no output any more. Appends only lengthen files,
behind the ranges of the plan. The planner's loops are recursive functions over
positions, followed as in `ChangeFeed`.

**KeyListCache.** `WarmIsCold` compares a list with the corpus of another moment.
`ListFollowsFingerprint` orders fingerprint, list and corpus of each rebuild;
`FloorsAreRead` says that no call waits for rows a scan has passed; `ArtifactIsPublished`
and `SidecarInStep` that the meta file is never ahead of the artifact, nor of an
unmarked list in memory, while one process rebuilds. `WaitingCounted` bounds the
waiting calls, so that the newest of them exists.

**SearchIndex.** All parts but the types hold while no lock was stolen (`stoleLock`):
`OneOwner` is the mutual exclusion of the lock file; `BuildUndisturbed` that the owner
finds what it staged, loaded and renamed; `MetaIsTrue` that the meta claims no row the
index lacks, except raced ones; `WaiterFindsResult` that a meta which a waiter finds
without a lock covers every row, except raced ones; and `SearchesServed` carries it to
the answer.

**Memories.** `ListIsLive` speaks of the newest row of each id. Ids and times are not
reused (`RowsArePast`), so a memory has one creation (`OneCreation`), its tombstones are
newer and of no earlier month (`TombstonesFollow`), and `AliveIsThere` follows its row
until it is forgotten or squashed. A list by key needs more, because it sees only the
tombstones with that key: of those in the partition of the memory's row, one has its key
(`OneTombstoneNames`). The first writer of one found the row, a later one may already
find the memory ended and write `/unknown`; so `CallsKnow` says of a call between its
two appends that its stamp has the key, or that another tombstone is there before it.
`SquashHasRows` says that a squash removes only what it has read, or what overtook it.

**TableChanges.** A feed judges a commit by records that may have come late or not at all,
so the invariant says what a record is evidence of. `RecordsTell`: the record of a key's
latest mutation, written or still to be, names what that mutation left in the table.
`CommitsTell` says the same at every commit, and of the first mutation after a commit
that a delete names a row the commit has; `SinglesFollow`, that on a key which never had
two lines a delete names the image that the mutation before it left. `RecordsOnce` and
`LedgerIsPast` put records in place: one per mutation, none in a commit before its
mutation. `CopyFollows` is `LiveRowsConverge` at the commit the consumer has received
last. Its step has two halves (`DeliveredFollows`): if the commit adds a record of the
key, the last one is the last word and its image resolves to itself; if not, nothing
happened to the key, and the copy was right before. For `CalmWindowKeepsFeed` a key with
as many records as mutations has each of them, by an injection of the records into the
numbers (`AllRecorded`); so the window holds the other mutation of the key as well, and
the two are told apart by cases (`CalmRecord`). Envelopes and replays are recursive
functions over positions, followed to the least position at which a claim fails.

**SchemaDDL.** The properties speak of journals that were written long ago, so the
invariant says what each journal entry is a witness of. `OneUnfinished`: only the last
journal may be unfinished, because every operation recovers first. `JournalOfStep`,
`CandidateOfStep` and `GenerationIsNamed` tie the running operation to its journal: what
the journal says of the new document before the switch, and whose rows a generation
holds. `UnfinishedFitsSchema` is what makes recovery right: without changes from
outside, the live schema is what an unfinished journal found, or what it was to publish,
and `published` tells which; `GenerationHas` adds that a generation that went live has
its digest's rows and beyond them only rows that mutations appended to it, unless it was
rewritten: the evidence that `FailsClosedOnEvidence` asks for. `OutcomeIsTold` and
`KeyUsedAgain` then hold for all journals, and `OncePerKey` follows by taking the first
journal of a key (a least element of a set of naturals). `RowsFollowSchema` says where a
queued row will go and what the live file says of one that was appended;
`AcknowledgedIsReadable` is one half of it. `FilesHaveAcknowledged` keeps the two apart:
no row is in a file, or edited there, before it was appended.

**S3Sync.** Three chains share the types, the shape of a call (`CallShape`) and what an
ETag says (`BucketShape`, `TagsWereSeen`).
*Garbage:* `RotIsUnproved` and `RotIsRotten` follow garbage through disks, manifests,
calls and the ledger; `NoRotBehindLedger` is one conjunct.
*Bytes in no object:* they are those of one file of one host (`OneHolder`), so only that
host can lose them. `UnstoredIsTold` says that the host can tell: the file is newer than
the last sync, or the manifest leaves it out. `CallFoundUnstored` says the same of what
a running call has read, `PushSendsUnstored` that a push still has them to send or
failed to, `PullRestored` that a pull has them only where there is no object. From these
follow `FreshnessNamesUnmirrored`, `PullLosesOnlyExcused` and, with `EntriesAreSound`,
`CleanPullIsComplete`.
*The ledger:* a push that is alone (`AloneIsAlone`) publishes what its manifest and its
own reading say, so a manifest must know the tree (`RecordsKnowTree`), the reading be of
the tree (`SeenIsTree`), and an entry with the token of an object have the sha256 of its
body (`TokensTell`, `RestoredIsObject`); then `PublishedIsStored` is preserved, and
`LedgerDescribesObjects` follows at the publication. A push that is not alone leaves the
ledger unsettled, and its files astray.

**NamespaceRegistry.** `NothingLost` says that an operation which read the config as it
still is would write no row away that must stay (`StampsArePast`: an old stamp does not
come back), and `TmpHasOneWriter` whose bytes the common temporary file holds; both
unless unguarded updates overlapped. `OpsReady` says what an operation brings to
`updateConfig`, `DirectoriesTell` that what is registered has a directory and what is
deleted has none, `PushIsSeen` that a push of a namespace being deleted is one of those
named `slipped`.

Only model-checked:

- Liveness (`AbandonedLockIsBroken`, `EveryCallReturns`, `AcknowledgedIsCommitted`,
  `FeedCatchesUp`): beyond the prover.
- `UndisturbedPassSucceeds` of `Consolidation`: that a pass keeps the whole sequence of
  records. `KilledPassKeepsRecords` follows one record at a time; the sequence is a
  concatenation over sorted names (`ReadOrder`), and that merging neighbours and cutting
  in place leave it the same needs induction over the files, for every function the
  planner is made of.
- `BoundedIsExact` of `Memories`, with its sorted, doubling windows: the same induction
  over data. The library's induction theorems cannot be used (no installed prover
  instantiates an operator parameter); a recursive function over numbers can be followed
  to the least number at which a claim fails, as in `ChangeFeed`, `TableChanges` and
  `Consolidation`, but for these two the claim itself is still to be found.

No module declares a RECURSIVE operator.

## 5. Abstractions

- The payload's `ts` and the file's mtime are one instant in `WriteLock`.
- Rows stand for bytes in the queue bound; invalid input, which returns before
  any state changes, is left out.
- The lock excludes by definition in `AutoCommit` and `SchemaDDL`, and that of a killed
  process counts as free at once; `WriteLock` has both in detail, `AuditLedger` what a
  broken one does to the ledger.
- A PATCH names every column but the key; a patch that changes the key, row
  policies and validation are left out of `TableChanges`, and so is structural
  corruption of the ledger, which `AuditLedger` has.
- `ChangeFeed` counts events, not bytes, and commits, not days, in its limits; it has
  no table, operation or row filter.
- git's own failures leave the index to be rebuilt by the next `git add -A`.
- `SchemaDDL`: a document is its own hash; type inference and the conversion of values
  are left out, and so are the temporary files of atomic writes. A row has two images,
  the inserted one and another, and is inserted once. Each table mutation is one step,
  because a process does its file work synchronously under the lock.
- `TableChanges` and `SchemaDDL` take the lock for every verb. The insert into a legacy
  `tables/<table>.table.json` (`operations.ts:650`) appends without it: the rewrite of
  another process may drop such a row between its read and its rename, which no model
  shows. DDL works on tables of `schema.json` only.
- `Consolidation`: lines and bytes are one weight; a reader sees the directory at one
  moment, because the server only adds behind the last record.
- `Durability`: modes fsync and direct; buffered promises nothing, and the barrier of a
  table transaction is left out. A rewrite drops one line, the one of its row, and ends
  a line that was cut short.
- `S3Sync`: one namespace; bodies of equal length; a failing listing is a deadline in the
  reading step; the two calls of `acquireLock` are one step. A file that vanishes while
  it is read, the record of a run over all namespaces and `maybeSyncOnCommit` are left out.
- `NamespaceRegistry`: one push at a time; the sweep also matches `<ns>.push.json` and
  `last-push-run.json`, which the model has not.
- `Memories`: timestamps are in the order of the appends; one filter at a time (key,
  author or none); a month's partition is one file; a row is appended and acknowledged
  at once, or its call fails. `BoundedIsExact` is asked where no call is under way,
  because a list depends on the rows alone, and leaves out memories without any
  timestamp that parses: they appear in a page and not in its total.
- `SearchIndex`: the pid of a dead process is not given to another; with recycled pids
  a lock may never be found stale, as in `WriteLock`. Ranking is left out.

## 6. Not modelled

Text and formats (routes, frames, CLI, MCP arguments, metrics, receipts, generators,
UI, SDK) decide nothing that a model would tell apart. Ranking in recall, hybrid search
and embeddings is floating-point arithmetic. The query compiler (`duckdb/queries.ts`
beyond the listing statements), row policies and value conversion are functions of one
call without state. The git wrappers run one command each. These are most of the
lines of the repository, and the reason why the mapped share stays small although the
stateful core is covered. `PROJECT.json` gives the reason per component.

## 7. Plan

Proofs next: `UndisturbedPassSucceeds`, from lemmas about `ReadOrder` of a partition
whose neighbours are merged or whose file is cut.

And models of what is left: the push gate of auto-commit and the pending commit of the
git worker, the as-of read, the refresh of a materialised table, the health circuit of
embeddings, the rate limiter, the read ledger, process supervision.
