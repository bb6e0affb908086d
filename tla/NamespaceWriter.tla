-------------------------- MODULE NamespaceWriter --------------------------
(***************************************************************************)
(* One NamespaceWriter of src/serialization/namespaceWriter.ts inside one  *)
(* server process: enqueue, enqueueBatch, enqueueAudit, flush and drain,   *)
(* interleaved at every await of the event loop.                           *)
(*                                                                         *)
(* A call of Call submits the rows RowsOf[c]: none for enqueueAudit, one   *)
(* for enqueue, several for enqueueBatch.  Calls with invalid input return *)
(* before they touch any state and are left out.  maxPendingBytes bounds   *)
(* the queue exactly as maxPendingRows does; rows stand for both.          *)
(*                                                                         *)
(* The lock file is a variable here: WriteLock models how it is taken and  *)
(* lost, system call by system call.  Other processes, and this process's  *)
(* own commits, are its other owners.                                      *)
(***************************************************************************)
EXTENDS Naturals, SequencesExt

CONSTANTS
  Call,            \* calls of the writer's public methods
  Row,             \* rows submitted
  RowsOf,          \* rows of each call
  MaxPendingRows   \* config serialization.maxPendingRows

RowSet(c) == ToSet(RowsOf[c])

ASSUME CallsAssumption ==
  /\ RowsOf \in [Call -> Seq(Row)]
  /\ \A c \in Call : IsInjective(RowsOf[c])
  /\ \A c, d \in Call : c # d => RowSet(c) \cap RowSet(d) = {}
  /\ Call \cap Row = {}
  /\ "flush" \notin Call  \* the name of the flush among the waiters of enqueueMutex
  /\ MaxPendingRows \in Nat

VARIABLES
  call,        \* progress of each call
  result,      \* WriteResult of each row, outcome of each audit call
  mutex,       \* enqueueMutex: calls (and the flush) in FIFO order
  nextSeq,
  seq,         \* sequence number of each row, 0 before it is enqueued
  queue,       \* rows waiting for a flush
  auditQueue,  \* calls whose audit entry waits for a flush
  queuedRows,
  timer,       \* the FLUSH_FAN_IN_MS timer is set
  handled,     \* every waiter of flushPromise handles its rejection
  flush,       \* progress of the flush, "idle" when flushPromise is null
  writes,      \* rows of the flush batch
  audits,      \* audit entries of the flush batch
  decided,     \* rows of the batch whose authorization was re-checked
  accepted,    \* ... and granted
  toAppend,    \* accepted rows not yet on disk
  data,        \* the namespace's data rows on disk
  ledger,      \* the namespace's _audit ledger on disk
  dir,         \* the namespace directory exists
  owner,       \* owner of the namespace write lock
  fenced,      \* isFenced
  phase,       \* of the process: up, draining, or how it ended
  trouble      \* what may go wrong around the writer: its lock is broken, the
               \* namespace deleted, or openSync or mkdirSync of the lock throws

calls == <<call, result>>
queues == <<nextSeq, seq, queue, auditQueue, queuedRows>>
batch == <<writes, audits, decided, accepted, toAppend>>
disk == <<data, ledger, dir>>
around == <<owner, fenced, phase, trouble>>
vars == <<calls, mutex, queues, timer, handled, flush, batch, disk, around>>

FLUSH == "flush"  \* the flush among the waiters of enqueueMutex

Codes == {"ok", "FORBIDDEN", "SERIALIZER_QUEUE_FULL", "SERIALIZER_LOCKED",
          "SERIALIZER_FENCED", "NOT_FOUND", "SERVER_SHUTTING_DOWN", "INTERNAL_ERROR"}

IsAudit(c) == RowsOf[c] = <<>>

\* registrationsInProgress.
Registering == {c \in Call : call[c] \in {"mutex", "authorizing"}}

\* Appends, ledger and settlement run without an await: no other code of this
\* process runs in between.
Synchronous == flush \in {"append", "finish"}
Running == phase \in {"up", "draining"} /\ ~Synchronous

\* Audit entries, as the flush writes them to the ledger.
Change(r) == [kind |-> "change", of |-> r]
Denied(x) == [kind |-> "denied", of |-> x]
Entry(c)  == [kind |-> "entry", of |-> c]
Records == [kind : {"change", "denied", "entry"}, of : Row \cup Call]

Init ==
  /\ call = [c \in Call |-> "new"]
  /\ result = [x \in Row \cup Call |-> "none"]
  /\ mutex = <<>>
  /\ nextSeq = 0
  /\ seq = [r \in Row |-> 0]
  /\ queue = <<>>
  /\ auditQueue = <<>>
  /\ queuedRows = 0
  /\ timer = FALSE
  /\ handled = TRUE
  /\ flush = "idle"
  /\ writes = <<>>
  /\ audits = <<>>
  /\ decided = 0
  /\ accepted = <<>>
  /\ toAppend = <<>>
  /\ data = <<>>
  /\ ledger = <<>>
  /\ dir = TRUE
  /\ owner = "free"
  /\ fenced = FALSE
  /\ phase = "up"
  /\ trouble \in {"break", "delete", "throw"}

-----------------------------------------------------------------------------
(* enqueue, enqueueBatch, enqueueAudit                                     *)

\* A call resolves with one code for all that it submitted.
Resolve(c, code) ==
  /\ call' = [call EXCEPT ![c] = "returned"]
  /\ result' = [x \in Row \cup Call |->
       IF x \in RowSet(c) \/ (x = c /\ IsAudit(c)) THEN code ELSE result[x]]

\* scheduleFlush.
ScheduleFlush == timer' = (timer \/ flush = "idle")

\* The synchronous head of the three methods.
Submit(c) ==
  /\ Running
  /\ call[c] = "new"
  /\ IF phase = "draining"
       THEN Resolve(c, "SERVER_SHUTTING_DOWN") /\ UNCHANGED mutex
       ELSE /\ call' = [call EXCEPT ![c] = "mutex"]
            /\ mutex' = Append(mutex, c)
            /\ UNCHANGED result
  /\ UNCHANGED <<queues, timer, handled, flush, batch, disk, around>>

HoldsMutex(x) == mutex # <<>> /\ Head(mutex) = x

\* Mutant: the bound is off by one.
FullOffByOne(c) == queuedRows + Len(RowsOf[c]) > MaxPendingRows + 1

Full(c) == queuedRows + Len(RowsOf[c]) > MaxPendingRows

\* enqueueAudit inside the mutex: no fence, no bound.
EnqueueAudit(c) ==
  /\ Running
  /\ IsAudit(c)
  /\ HoldsMutex(c)
  /\ mutex' = Tail(mutex)
  /\ auditQueue' = Append(auditQueue, c)
  /\ ScheduleFlush
  /\ call' = [call EXCEPT ![c] = "waiting"]
  /\ UNCHANGED <<result, nextSeq, seq, queue, queuedRows, handled, flush, batch,
                 disk, around>>

\* enqueue and enqueueBatch up to the authorization hook.  A batch is measured
\* against the bounds before the hook is asked, a single row after it.
EnterMutex(c) ==
  /\ Running
  /\ ~IsAudit(c)
  /\ HoldsMutex(c)
  /\ call[c] = "mutex"
  /\ IF fenced
       THEN Resolve(c, "SERIALIZER_FENCED") /\ mutex' = Tail(mutex)
       ELSE IF Len(RowsOf[c]) > 1 /\ Full(c)
         THEN Resolve(c, "SERIALIZER_QUEUE_FULL") /\ mutex' = Tail(mutex)
         ELSE call' = [call EXCEPT ![c] = "authorizing"] /\ UNCHANGED <<result, mutex>>
  /\ UNCHANGED <<queues, timer, handled, flush, batch, disk, around>>

\* The hook denies (one row of) the call: one denial audit entry, and the
\* answer waits until that entry is settled.
Deny(c) ==
  /\ Running
  /\ call[c] = "authorizing"
  /\ mutex' = Tail(mutex)
  /\ auditQueue' = Append(auditQueue, c)
  /\ ScheduleFlush
  /\ call' = [call EXCEPT ![c] = "waiting"]
  /\ UNCHANGED <<result, nextSeq, seq, queue, queuedRows, handled, flush, batch,
                 disk, around>>

\* The hook grants the call: its rows get consecutive sequence numbers and
\* enter the queue together.
Grant(c) ==
  /\ Running
  /\ call[c] = "authorizing"
  /\ mutex' = Tail(mutex)
  /\ IF Len(RowsOf[c]) = 1 /\ Full(c)
       THEN Resolve(c, "SERIALIZER_QUEUE_FULL") /\ UNCHANGED <<queues, timer>>
       ELSE /\ nextSeq' = nextSeq + Len(RowsOf[c])
            /\ seq' = [r \in Row |-> IF r \in RowSet(c)
                         THEN nextSeq + (CHOOSE i \in DOMAIN RowsOf[c] : RowsOf[c][i] = r)
                         ELSE seq[r]]
            /\ queue' = queue \o RowsOf[c]
            /\ queuedRows' = queuedRows + Len(RowsOf[c])
            /\ ScheduleFlush
            /\ call' = [call EXCEPT ![c] = "waiting"]
            /\ UNCHANGED <<result, auditQueue>>
  /\ UNCHANGED <<handled, flush, batch, disk, around>>

-----------------------------------------------------------------------------
(* flush                                                                   *)

\* Mutant: the finally handler does not look at the queues.
RescheduleNever == UNCHANGED timer

\* The finally handler of flush() schedules the next flush if anything was
\* queued meanwhile.
Reschedule == timer' = (timer \/ queue # <<>> \/ auditQueue # <<>>)

\* What settle() takes off queuedRows.
ReleasedRows == Len(writes)

\* The batch resolves: code for every write and audit entry of it, except
\* that rows denied by the re-check are FORBIDDEN in any case, and so is a
\* call denied at enqueue, which swallows the failure of its audit entry.
\* The lock is released if it is still ours.
Settle(code) ==
  LET batchRows == ToSet(writes)
      denied == ToSet(SubSeq(writes, 1, decided)) \ ToSet(accepted)
      deniedCalls == {c \in ToSet(audits) : ~IsAudit(c)}
      settledCalls == ToSet(audits) \cup {c \in Call : RowSet(c) \cap batchRows # {}}
  IN /\ result' = [x \in Row \cup Call |->
          CASE x \in denied -> "FORBIDDEN"
            [] x \in batchRows \ denied -> code
            [] x \in UNION {RowSet(c) : c \in deniedCalls} -> "FORBIDDEN"
            [] x \in ToSet(audits) \ deniedCalls -> code
            [] OTHER -> result[x]]
     /\ call' = [c \in Call |-> IF c \in settledCalls THEN "returned" ELSE call[c]]
     /\ queuedRows' = queuedRows - ReleasedRows
     /\ owner' = IF owner = "self" THEN "free" ELSE owner
     /\ flush' = "idle"
     /\ handled' = TRUE
     /\ Reschedule
     /\ writes' = <<>> /\ audits' = <<>> /\ decided' = 0
     /\ accepted' = <<>> /\ toAppend' = <<>>
     /\ UNCHANGED <<mutex, nextSeq, seq, queue, auditQueue, phase, trouble>>

\* The timer fires: flush() starts one, unless one is running.
TimerFires ==
  /\ Running
  /\ timer
  /\ timer' = FALSE
  /\ handled' = FALSE
  /\ flush' = IF flush = "idle" THEN "gate" ELSE flush
  /\ UNCHANGED <<calls, mutex, queues, batch, disk, around>>

\* runOutsideCommitGate lets the flush through, which clears the timer and
\* asks for the mutex.
PassGate ==
  /\ Running
  /\ flush = "gate"
  /\ flush' = "mutex"
  /\ timer' = FALSE
  /\ mutex' = Append(mutex, FLUSH)
  /\ UNCHANGED <<calls, queues, handled, batch, disk, around>>

\* Mutant: the newest rows come first.
SortedReversed(rows) == SortSeq(rows, LAMBDA r, s : seq[r] > seq[s])

\* The sort by seq: the same rows, in ascending order.
Sorted(rows) ==
  CHOOSE sorted \in [DOMAIN rows -> ToSet(rows)] :
    /\ ToSet(sorted) = ToSet(rows)
    /\ \A i, j \in DOMAIN sorted : i < j => seq[sorted[i]] < seq[sorted[j]]

\* Mutant: the queue is copied, not spliced.
TakeBatchCopies ==
  /\ Running
  /\ HoldsMutex(FLUSH)
  /\ mutex' = Tail(mutex)
  /\ writes' = queue
  /\ audits' = auditQueue
  /\ auditQueue' = <<>>
  /\ flush' = IF queue = <<>> /\ auditQueue = <<>> THEN "idle" ELSE "lock"
  /\ handled' = (handled \/ flush' = "idle")
  /\ UNCHANGED <<calls, nextSeq, seq, queue, queuedRows, timer, decided, accepted,
                 toAppend, disk, around>>

\* Both queues are spliced; an empty batch ends the flush.
TakeBatch ==
  /\ Running
  /\ HoldsMutex(FLUSH)
  /\ mutex' = Tail(mutex)
  /\ writes' = Sorted(queue)
  /\ audits' = auditQueue
  /\ queue' = <<>>
  /\ auditQueue' = <<>>
  /\ flush' = IF queue = <<>> /\ auditQueue = <<>> THEN "idle" ELSE "lock"
  /\ handled' = (handled \/ flush' = "idle")
  /\ UNCHANGED <<calls, nextSeq, seq, queuedRows, timer, decided, accepted,
                 toAppend, disk, around>>

\* The namespace must exist and the lock be free.
AcquireLock ==
  /\ Running
  /\ flush = "lock"
  /\ CASE ~dir -> Settle("NOT_FOUND")
       [] dir /\ owner # "free" -> Settle("SERIALIZER_LOCKED")
       [] OTHER -> /\ owner' = "self"
                   /\ flush' = "locked"
                   /\ UNCHANGED <<calls, mutex, queues, timer, handled, batch,
                                  phase, trouble>>
  /\ UNCHANGED <<disk, fenced>>

\* acquireNamespaceWriteLock throws outside the try block: flushPromise
\* rejects and nobody resolves the batch.  drain() passes the rejection on to
\* its caller; the promise of a timer that started or joined the flush has no
\* handler, and an unhandled rejection ends the process.
AcquireThrows ==
  /\ trouble = "throw"
  /\ Running
  /\ flush = "lock"
  /\ dir
  /\ flush' = "idle"
  /\ handled' = TRUE
  /\ phase' = IF handled THEN "drain_failed" ELSE "crashed"
  /\ writes' = <<>> /\ audits' = <<>>
  /\ Reschedule
  /\ UNCHANGED <<calls, mutex, queues, decided, accepted, toAppend, disk, owner,
                 fenced, trouble>>

\* assertCurrent fails: the writer is fenced until restart.
Fence ==
  /\ owner # "self"
  /\ fenced' = TRUE
  /\ Settle("SERIALIZER_FENCED")

\* The assertCurrent that follows the acquisition.
CheckLock ==
  /\ Running
  /\ flush = "locked"
  /\ \/ Fence
     \/ /\ owner = "self"
        /\ flush' = IF writes = <<>> THEN "append" ELSE "authorize"
        /\ UNCHANGED <<calls, mutex, queues, timer, handled, batch, around>>
  /\ UNCHANGED disk

\* Mutant: a denied row is still appended.
ReauthorizeAppendsAll ==
  /\ Running
  /\ flush = "authorize"
  /\ decided' = decided + 1
  /\ \E granted \in BOOLEAN :
       accepted' = IF granted THEN Append(accepted, writes[decided + 1]) ELSE accepted
  /\ toAppend' = Append(toAppend, writes[decided + 1])
  /\ flush' = IF decided + 1 = Len(writes) THEN "append" ELSE "authorize"
  /\ UNCHANGED <<calls, mutex, queues, timer, handled, writes, audits, disk,
                 around>>

\* The authorization of one row is checked again.
Reauthorize ==
  /\ Running
  /\ flush = "authorize"
  /\ decided' = decided + 1
  /\ \E granted \in BOOLEAN :
       accepted' = IF granted THEN Append(accepted, writes[decided + 1]) ELSE accepted
  /\ toAppend' = accepted'
  /\ flush' = IF decided + 1 = Len(writes) THEN "append" ELSE "authorize"
  /\ UNCHANGED <<calls, mutex, queues, timer, handled, writes, audits, disk,
                 around>>

\* assertCurrent, then the append of one row, which creates missing
\* directories.
AppendRow ==
  /\ flush = "append"
  /\ toAppend # <<>>
  /\ \/ Fence /\ UNCHANGED disk
     \/ /\ owner = "self"
        /\ data' = Append(data, Head(toAppend))
        /\ dir' = TRUE
        /\ toAppend' = Tail(toAppend)
        /\ UNCHANGED <<calls, mutex, queues, timer, handled, flush, writes,
                       audits, decided, accepted, ledger, around>>

\* Mutant: the change records of a batch that carries audit entries are lost.
PlanWithoutChanges ==
  [i \in DOMAIN audits |->
     IF IsAudit(audits[i]) THEN Entry(audits[i]) ELSE Denied(audits[i])]

\* The audit plan of the batch: one record per write, then the entries.
Plan ==
  [i \in DOMAIN writes |->
     IF writes[i] \in ToSet(accepted) THEN Change(writes[i]) ELSE Denied(writes[i])]
  \o [i \in DOMAIN audits |->
     IF IsAudit(audits[i]) THEN Entry(audits[i]) ELSE Denied(audits[i])]

\* appendAuditLedger, which also creates missing directories.
AppendLedger ==
  /\ flush = "append"
  /\ toAppend = <<>>
  /\ ledger' = ledger \o Plan
  /\ dir' = TRUE
  /\ flush' = "finish"
  /\ UNCHANGED <<calls, mutex, queues, timer, handled, batch, data, around>>

\* The last assertCurrent, then every accepted row is acknowledged.
FinishFlush ==
  /\ flush = "finish"
  /\ Fence \/ (owner = "self" /\ Settle("ok") /\ UNCHANGED fenced)
  /\ UNCHANGED disk

\* An append, a sync or the partition manifest fails with an I/O error, the
\* ledger after some of its records.  Missing directories may be there by then.
FlushFails ==
  /\ \/ flush = "append" /\ toAppend # <<>> /\ dir' \in {dir, TRUE} /\ UNCHANGED ledger
     \/ /\ flush = "append" /\ toAppend = <<>> /\ dir' \in {dir, TRUE}
        /\ \E n \in 0..Len(Plan) : ledger' = ledger \o SubSeq(Plan, 1, n)
     \/ flush = "finish" /\ UNCHANGED <<dir, ledger>>
  /\ Settle(IF fenced THEN "SERIALIZER_FENCED" ELSE "INTERNAL_ERROR")
  /\ UNCHANGED <<data, fenced>>

-----------------------------------------------------------------------------
(* drain                                                                   *)

\* drain() refuses new calls and cancels the timer.
StartDrain ==
  /\ Running
  /\ phase = "up"
  /\ phase' = "draining"
  /\ timer' = FALSE
  /\ UNCHANGED <<calls, mutex, queues, handled, flush, batch, disk, owner, fenced,
                 trouble>>

\* With no registration in progress, drain() flushes while anything is queued.
DrainFlush ==
  /\ Running
  /\ phase = "draining"
  /\ Registering = {}
  /\ flush = "idle"
  /\ queue # <<>> \/ auditQueue # <<>>
  /\ flush' = "gate"
  /\ UNCHANGED <<calls, mutex, queues, timer, handled, batch, disk, around>>

\* Mutant: drain() does not wait for registrations in progress.
FinishDrainEarly ==
  /\ phase = "draining"
  /\ flush = "idle"
  /\ queue = <<>> /\ auditQueue = <<>>
  /\ phase' = "drained"
  /\ UNCHANGED <<calls, mutex, queues, timer, handled, flush, batch, disk, owner,
                 fenced, trouble>>

\* Nothing is registering, queued or in a flush: drain() returns.
FinishDrain ==
  /\ phase = "draining"
  /\ Registering = {}
  /\ flush = "idle"
  /\ queue = <<>> /\ auditQueue = <<>>
  /\ phase' = "drained"
  /\ UNCHANGED <<calls, mutex, queues, timer, handled, flush, batch, disk, owner,
                 fenced, trouble>>

-----------------------------------------------------------------------------
(* Other processes, and the commits of this one                            *)

\* The lock is taken by another owner, released by it, or taken over from the
\* flush: a flush may outlive LOCK_STALE_MS while a hook does not answer.
OtherOwner ==
  /\ phase \in {"up", "draining"}
  /\ \/ owner = "free" /\ owner' = "other"
     \/ owner = "other" /\ owner' = "free"
     \/ trouble = "break" /\ owner = "self" /\ owner' = "other"
  /\ UNCHANGED <<calls, mutex, queues, timer, handled, flush, batch, disk, fenced,
                 phase, trouble>>

\* deleteNamespace, which takes no lock.
DeleteNamespace ==
  /\ trouble = "delete"
  /\ dir
  /\ dir' = FALSE
  /\ data' = <<>>
  /\ ledger' = <<>>
  /\ UNCHANGED <<calls, mutex, queues, timer, handled, flush, batch, around>>

-----------------------------------------------------------------------------

Enqueue(c) == EnqueueAudit(c) \/ EnterMutex(c) \/ Deny(c) \/ Grant(c)

Flush ==
  \/ TimerFires \/ PassGate \/ TakeBatch \/ AcquireLock \/ AcquireThrows
  \/ CheckLock \/ Reauthorize \/ AppendRow \/ AppendLedger \/ FinishFlush \/ FlushFails

Next ==
  \/ \E c \in Call : Submit(c) \/ Enqueue(c)
  \/ Flush
  \/ StartDrain \/ DrainFlush \/ FinishDrain
  \/ OtherOwner \/ DeleteNamespace

Spec == Init /\ [][Next]_vars

\* The event loop runs every timer, waiter and continuation in the end; hooks
\* answer; nobody has to submit, drain, take the lock or delete.
FairSpec ==
  /\ Spec
  /\ \A c \in Call : WF_vars(Enqueue(c))
  /\ WF_vars(Flush)
  /\ WF_vars(DrainFlush)
  /\ WF_vars(FinishDrain)

-----------------------------------------------------------------------------
(* Properties                                                              *)

\* The shape of the state.
TypeOK ==
  /\ call \in [Call -> {"new", "mutex", "authorizing", "waiting", "returned"}]
  /\ result \in [Row \cup Call -> Codes \cup {"none"}]
  /\ mutex \in Seq(Call \cup {FLUSH})
  /\ nextSeq \in Nat
  /\ seq \in [Row -> Nat]
  /\ queue \in Seq(Row) /\ auditQueue \in Seq(Call)
  /\ queuedRows \in Nat
  /\ timer \in BOOLEAN /\ handled \in BOOLEAN
  /\ flush \in {"idle", "gate", "mutex", "lock", "locked", "authorize", "append", "finish"}
  /\ writes \in Seq(Row) /\ audits \in Seq(Call)
  /\ decided \in Nat
  /\ accepted \in Seq(Row) /\ toAppend \in Seq(Row)
  /\ data \in Seq(Row) /\ ledger \in Seq(Records)
  /\ dir \in BOOLEAN
  /\ owner \in {"free", "self", "other"}
  /\ fenced \in BOOLEAN
  /\ phase \in {"up", "draining", "drained", "drain_failed", "crashed"}
  /\ trouble \in {"break", "delete", "throw"}

\* queuedRows counts exactly the rows a client is still waiting for, queued or
\* in the running flush, and never exceeds the bound: what the QUEUE_FULL
\* check of a later call relies on.
QueueAccounting ==
  /\ TypeOK
  /\ phase # "drain_failed" /\ phase # "crashed" => queuedRows = Len(queue) + Len(writes)
  /\ queuedRows <= MaxPendingRows

\* File order is the order of the sequence numbers given at enqueue (SUPA-2
\* AC-3), across batches, denials, lost locks, failures and deletions.
FileOrderIsSeqOrder ==
  \A i, j \in DOMAIN data : i < j => seq[data[i]] < seq[data[j]]

\* A row acknowledged with ok: true is in the data file, its change record is
\* in the ledger (SUPA-2 AC-9), and an audit call that resolved has its entry
\* there, unless the namespace was deleted.
AcknowledgedIsAudited ==
  trouble # "delete" =>
    /\ \A r \in Row : result[r] = "ok" => r \in ToSet(data) /\ Change(r) \in ToSet(ledger)
    /\ \A c \in Call : result[c] = "ok" => Entry(c) \in ToSet(ledger)

\* A row refused by the authorization hook at enqueue, by the bounds or by the
\* lock never reaches the data file: only a failure inside the append burst
\* may leave a row behind that its client was told had failed.
RefusedIsNotWritten ==
  \A r \in ToSet(data) :
    result[r] \notin {"FORBIDDEN", "SERIALIZER_QUEUE_FULL", "SERIALIZER_LOCKED",
                      "NOT_FOUND", "SERVER_SHUTTING_DOWN"}

\* drain() leaves nobody waiting: when it is over every call that got past the
\* shutdown check has its answer (SUPA-2, Shutdown race).  A drain fails instead
\* when taking the lock throws: the flush has spliced the batch and answers nobody.
DrainResolvesWaiters ==
  phase = "drained" => \A c \in Call : call[c] \in {"new", "returned"}

\* The writer implements the promise of WriteService to every row, in a
\* namespace that is not deleted.
RowStatus(r) ==
  CASE result[r] = "none" /\ seq[r] = 0 -> "new"
    [] result[r] = "none" /\ seq[r] > 0 -> "pending"
    [] result[r] = "ok" -> "ok"
    [] OTHER -> IF seq[r] = 0 THEN "refused" ELSE "failed"

Service == INSTANCE WriteService WITH
             status <- [r \in Row |-> IF trouble # "delete" THEN RowStatus(r) ELSE "new"],
             log <- IF trouble # "delete" THEN data ELSE <<>>

\* Every step of the writer is a step of the service or changes nothing a
\* client can see: no row is written twice, or after its client was answered,
\* or acknowledged without being in the file.
ImplementsService == Service!Spec

\* Every call is answered, with or without a drain, whoever owns the lock; and a
\* drain ends, however many calls were in progress when it began: unless taking the
\* lock throws, as above.
EveryCallReturns ==
  /\ \A c \in Call : trouble # "throw" /\ call[c] # "new" ~> call[c] = "returned"
  /\ trouble # "throw" /\ phase = "draining" ~> phase = "drained"

=============================================================================
