----------------------------- MODULE AutoCommit -----------------------------
(***************************************************************************)
(* The debounced git commits of src/git/autocommit.ts, next to the flushes *)
(* they fence with, in several server processes that share one namespace   *)
(* directory and its git repository.                                       *)
(*                                                                         *)
(* A flush appends a write's data row and then its audit record.  git add  *)
(* reads both files while it runs as a subprocess, so a commit can hold a  *)
(* row without its record unless something keeps the two apart.            *)
(*                                                                         *)
(* Each write of Write is one flush batch.  The lock file excludes here by *)
(* definition; what becomes of it when it is broken is WriteLock's part.   *)
(* The push that ends a commit chain runs outside gate and lock.           *)
(***************************************************************************)
EXTENDS Naturals, FiniteSets

CONSTANTS
  Proc,       \* server processes
  Write,      \* writes, one per flush batch
  Free,       \* nobody holds the lock file
  Unread,     \* a file git add has not read yet
  MaxLines    \* config gitBatching.maxLines

\* Two constants are markers: Free is no owner, Unread is no set of writes.
ASSUME CommitAssumption ==
  /\ MaxLines \in Nat \ {0}
  /\ \A owner \in Proc \X {"flush", "commit"} : Free # owner
  /\ \A file \in SUBSET Write : Unread # file

VARIABLES
  data,      \* writes whose data row is in the worktree
  audit,     \* writes whose audit record is in the worktree
  head,      \* [data, audit] of the commit HEAD names
  repo,      \* .git exists
  lock,      \* owner of <ns>.lock
  flush,     \* progress of each process's flush
  flushing,  \* the write of that flush
  answer,    \* WriteResult of each write: none, ok, locked or failed
  ackedBy,   \* writes acknowledged by each process
  window,    \* pending.lines of each process, 0 without a debounce window
  chain,     \* commits queued in asyncChains
  commit,    \* progress of the running commit
  index,     \* what its git add has read so far
  state,     \* of each process
  calm       \* no flush fails, no process is killed, no commit is given up

tree == <<data, audit>>
flushes == <<flush, flushing, answer, ackedBy>>
commits == <<window, chain, commit, index>>
vars == <<tree, head, repo, lock, flushes, commits, state, calm>>

NothingRead == [data |-> Unread, audit |-> Unread]

\* The commit gate is held from the wait for the lock to the commit itself.
GateLocked(p) == commit[p] \in {"lock", "add"}

\* Audit append, acknowledgement and release follow the data append without an
\* await: no other code of the process runs in between.
Synchronous(p) == flush[p] \in {"audit", "release"}
Runs(p) == state[p] \in {"up", "exiting"} /\ ~Synchronous(p)

Init ==
  /\ data = {} /\ audit = {}
  /\ head = [data |-> {}, audit |-> {}]
  /\ repo \in BOOLEAN
  /\ lock = Free
  /\ flush = [p \in Proc |-> "idle"]
  /\ flushing = [p \in Proc |-> {}]
  /\ answer = [w \in Write |-> "none"]
  /\ ackedBy = [p \in Proc |-> {}]
  /\ window = [p \in Proc |-> 0]
  /\ chain = [p \in Proc |-> 0]
  /\ commit = [p \in Proc |-> "idle"]
  /\ index = [p \in Proc |-> NothingRead]
  /\ state = [p \in Proc |-> "up"]
  /\ calm \in BOOLEAN

-----------------------------------------------------------------------------
(* The flush, seen from the commits                                        *)

SetFlush(p, step) == flush' = [flush EXCEPT ![p] = step]

\* runOutsideCommitGate: an unlocked gate lets the flush start at once.
StartFlush(p, w) ==
  /\ Runs(p) /\ state[p] = "up"
  /\ flush[p] = "idle"
  /\ answer[w] = "none"
  /\ \A q \in Proc : w \notin flushing[q]
  /\ SetFlush(p, IF GateLocked(p) THEN "gate" ELSE "enqueueMutex")
  /\ flushing' = [flushing EXCEPT ![p] = {w}]
  /\ UNCHANGED <<tree, head, repo, lock, answer, ackedBy, commits, state, calm>>

\* waitForUnlock resolves.
LeaveGate(p) ==
  /\ Runs(p)
  /\ flush[p] = "gate"
  /\ ~GateLocked(p)
  /\ SetFlush(p, "enqueueMutex")
  /\ UNCHANGED <<tree, head, repo, lock, flushing, answer, ackedBy, commits, state, calm>>

Answer(p, code) ==
  /\ answer' = [w \in Write |-> IF w \in flushing[p] THEN code ELSE answer[w]]
  /\ flushing' = [flushing EXCEPT ![p] = {}]
  /\ SetFlush(p, "idle")

\* Past enqueueMutex the flush tries the lock once.
LockForFlush(p) ==
  /\ Runs(p)
  /\ flush[p] = "enqueueMutex"
  /\ IF lock = Free
       THEN /\ lock' = <<p, "flush">>
            /\ SetFlush(p, "data")
            /\ UNCHANGED <<flushing, answer>>
       ELSE Answer(p, "locked") /\ UNCHANGED lock
  /\ UNCHANGED <<tree, head, repo, ackedBy, commits, state, calm>>

\* Mutant: the flush gives the lock back before its audit records.
AppendDataReleases(p) ==
  /\ Runs(p)
  /\ flush[p] = "data"
  /\ data' = data \cup flushing[p]
  /\ SetFlush(p, "audit")
  /\ lock' = Free
  /\ UNCHANGED <<audit, head, repo, flushing, answer, ackedBy, commits, state, calm>>

\* The data rows.
AppendData(p) ==
  /\ Runs(p)
  /\ flush[p] = "data"
  /\ data' = data \cup flushing[p]
  /\ SetFlush(p, "audit")
  /\ UNCHANGED <<audit, head, repo, lock, flushing, answer, ackedBy, commits, state, calm>>

\* The audit records.
AppendAudit(p) ==
  /\ flush[p] = "audit"
  /\ audit' = audit \cup flushing[p]
  /\ SetFlush(p, "release")
  /\ UNCHANGED <<data, head, repo, lock, flushing, answer, ackedBy, commits, state, calm>>

\* Mutant: a write that finds a commit in progress counts on that commit.
ScheduleCommitJoins(p) ==
  IF commit[p] # "idle" THEN UNCHANGED <<chain, window>>
  ELSE IF ~repo \/ (window[p] > 0 /\ window[p] + 1 >= MaxLines)
    THEN /\ chain' = [chain EXCEPT ![p] = @ + 1]
         /\ window' = IF repo THEN [window EXCEPT ![p] = 0] ELSE window
    ELSE /\ window' = [window EXCEPT ![p] = @ + 1]
         /\ UNCHANGED chain

\* commitNamespaceWithParams: a namespace without a repository is committed at
\* once; otherwise the first write opens the window and the one that fills it
\* closes it.
ScheduleCommit(p) ==
  IF ~repo \/ (window[p] > 0 /\ window[p] + 1 >= MaxLines)
    THEN /\ chain' = [chain EXCEPT ![p] = @ + 1]
         /\ window' = IF repo THEN [window EXCEPT ![p] = 0] ELSE window
    ELSE /\ window' = [window EXCEPT ![p] = @ + 1]
         /\ UNCHANGED chain

\* The flush schedules the commit, releases the lock and acknowledges.
FinishFlush(p) ==
  /\ flush[p] = "release"
  /\ ScheduleCommit(p)
  /\ lock' = IF lock = <<p, "flush">> THEN Free ELSE lock
  /\ ackedBy' = [ackedBy EXCEPT ![p] = @ \cup flushing[p]]
  /\ Answer(p, "ok")
  /\ UNCHANGED <<tree, head, repo, commit, index, state, calm>>

\* An I/O error between the data rows and the end of the audit burst: the lock
\* is released and no commit is scheduled.
FlushFails(p) ==
  /\ ~calm
  /\ flush[p] = "audit"
  /\ lock' = IF lock = <<p, "flush">> THEN Free ELSE lock
  /\ Answer(p, "failed")
  /\ UNCHANGED <<tree, head, repo, ackedBy, commits, state, calm>>

-----------------------------------------------------------------------------
(* scheduleAsyncCommit, asyncCommit                                        *)

SetCommit(p, step) == commit' = [commit EXCEPT ![p] = step]

\* The debounce timer.
WindowCloses(p) ==
  /\ Runs(p)
  /\ window[p] > 0
  /\ window' = [window EXCEPT ![p] = 0]
  /\ chain' = [chain EXCEPT ![p] = @ + 1]
  /\ UNCHANGED <<tree, head, repo, lock, flushes, commit, index, state, calm>>

\* The chain runs one commit at a time, which takes the gate.
StartCommit(p) ==
  /\ Runs(p)
  /\ commit[p] = "idle"
  /\ chain[p] > 0
  /\ chain' = [chain EXCEPT ![p] = @ - 1]
  /\ SetCommit(p, "lock")
  /\ UNCHANGED <<tree, head, repo, lock, flushes, window, index, state, calm>>

\* withNamespaceCommitLock polls the lock, then git init if need be.
LockForCommit(p) ==
  /\ Runs(p)
  /\ commit[p] = "lock"
  /\ lock = Free
  /\ lock' = <<p, "commit">>
  /\ repo' = TRUE
  /\ SetCommit(p, "add")
  /\ UNCHANGED <<tree, head, flushes, window, chain, index, state, calm>>

\* COMMIT_LOCK_TIMEOUT_MS pass, or one of the git commands fails: the commit
\* is given up with a warning.
GiveUpCommit(p) ==
  /\ ~calm
  /\ Runs(p)
  /\ (commit[p] = "lock" /\ lock # Free) \/ commit[p] = "add"
  /\ SetCommit(p, "idle")
  /\ index' = [index EXCEPT ![p] = NothingRead]
  /\ lock' = IF lock = <<p, "commit">> THEN Free ELSE lock
  /\ UNCHANGED <<tree, head, repo, flushes, window, chain, state, calm>>

\* git add -A reads the data files and the ledger one after the other, in its
\* own process: even while a synchronous flush of this one runs.
Stage(p) ==
  /\ state[p] \in {"up", "exiting"}
  /\ commit[p] = "add"
  /\ \/ index[p].data = Unread /\ index' = [index EXCEPT ![p].data = data]
     \/ index[p].audit = Unread /\ index' = [index EXCEPT ![p].audit = audit]
  /\ UNCHANGED <<tree, head, repo, lock, flushes, window, chain, commit, state, calm>>

\* git commit (none when nothing is staged), then gate and lock are free.
Commit(p) ==
  /\ Runs(p)
  /\ commit[p] = "add"
  /\ Unread \notin {index[p].data, index[p].audit}
  /\ head' = index[p]
  /\ index' = [index EXCEPT ![p] = NothingRead]
  /\ lock' = IF lock = <<p, "commit">> THEN Free ELSE lock
  /\ SetCommit(p, "push")
  /\ UNCHANGED <<tree, repo, flushes, window, chain, state, calm>>

\* The S3 hook and the push return, whatever came of them.
FinishPush(p) ==
  /\ Runs(p)
  /\ commit[p] = "push"
  /\ SetCommit(p, "idle")
  /\ UNCHANGED <<tree, head, repo, lock, flushes, window, chain, index, state, calm>>

-----------------------------------------------------------------------------
(* flushNamespaceCommit, waitForNamespaceCommit, shutdown                  *)

\* immediateCommit: one try for the lock, then everything at once.
ImmediateCommit(p) ==
  IF lock = Free
    THEN head' = [data |-> data, audit |-> audit] /\ repo' = TRUE
    ELSE UNCHANGED <<head, repo>>

\* The window, if there is one, is flushed synchronously.
FlushWindow(p) ==
  /\ window' = [window EXCEPT ![p] = 0]
  /\ IF window[p] > 0 THEN ImmediateCommit(p) ELSE UNCHANGED <<head, repo>>

\* remember --wait flushes its window and then waits for the chain; it returns
\* as well when the lock was busy and the commit was left to a later write.
StartWait(p) ==
  /\ Runs(p) /\ state[p] = "up"
  /\ window[p] > 0
  /\ FlushWindow(p)
  /\ UNCHANGED <<tree, lock, flushes, chain, commit, index, state, calm>>

\* SIGTERM: the listeners close and the writers drain.
StartExit(p) ==
  /\ Runs(p) /\ state[p] = "up"
  /\ flush[p] = "idle"
  /\ state' = [state EXCEPT ![p] = "exiting"]
  /\ UNCHANGED <<tree, head, repo, lock, flushes, commits, calm>>

\* Mutant: the exit drops a window that has not fired.
ExitDropsWindow(p) ==
  /\ state[p] = "exiting"
  /\ (chain[p] = 0 /\ commit[p] = "idle") \/ ~calm
  /\ window' = [window EXCEPT ![p] = 0]
  /\ state' = [state EXCEPT ![p] = "exited"]
  /\ chain' = [chain EXCEPT ![p] = 0]
  /\ SetCommit(p, "idle")
  /\ index' = [index EXCEPT ![p] = NothingRead]
  /\ lock' = IF lock = <<p, "commit">> THEN Free ELSE lock
  /\ UNCHANGED <<tree, head, repo, flushes, calm>>

\* drainAsyncCommits waits for the chain, for a bounded time, and
\* flushAllCommits then flushes the window.
Exit(p) ==
  /\ state[p] = "exiting"
  /\ (chain[p] = 0 /\ commit[p] = "idle") \/ ~calm
  /\ FlushWindow(p)
  /\ state' = [state EXCEPT ![p] = "exited"]
  /\ chain' = [chain EXCEPT ![p] = 0]
  /\ SetCommit(p, "idle")
  /\ index' = [index EXCEPT ![p] = NothingRead]
  /\ lock' = IF lock = <<p, "commit">> THEN Free ELSE lock
  /\ UNCHANGED <<tree, flushes, calm>>

\* SIGKILL.  The next acquirer breaks the lock of a dead process, so it counts
\* as free at once.
Crash(p) ==
  /\ ~calm
  /\ state[p] \in {"up", "exiting"}
  /\ state' = [state EXCEPT ![p] = "crashed"]
  /\ lock' = IF lock # Free /\ lock[1] = p THEN Free ELSE lock
  /\ flush' = [flush EXCEPT ![p] = "idle"]
  /\ flushing' = [flushing EXCEPT ![p] = {}]
  /\ answer' = [w \in Write |-> IF w \in flushing[p] THEN "failed" ELSE answer[w]]
  /\ window' = [window EXCEPT ![p] = 0]
  /\ chain' = [chain EXCEPT ![p] = 0]
  /\ SetCommit(p, "idle")
  /\ index' = [index EXCEPT ![p] = NothingRead]
  /\ UNCHANGED <<tree, head, repo, ackedBy, calm>>

-----------------------------------------------------------------------------

Flush(p) ==
  \/ LeaveGate(p) \/ LockForFlush(p) \/ AppendData(p) \/ AppendAudit(p) \/ FinishFlush(p)

CommitStep(p) ==
  \/ WindowCloses(p) \/ StartCommit(p) \/ LockForCommit(p) \/ Stage(p) \/ Commit(p)
  \/ FinishPush(p)

Next ==
  \E p \in Proc :
    \/ \E w \in Write : StartFlush(p, w)
    \/ Flush(p) \/ FlushFails(p)
    \/ CommitStep(p) \/ GiveUpCommit(p)
    \/ StartWait(p) \/ StartExit(p) \/ Exit(p) \/ Crash(p)

Spec == Init /\ [][Next]_vars

\* Timers fire, continuations run and git returns.  A commit that polls the
\* lock gets it in the end: every other holder keeps it for milliseconds, so
\* it is free again and again.
FairSpec ==
  /\ Spec
  /\ \A p \in Proc : WF_vars(Flush(p)) /\ WF_vars(Exit(p))
  /\ \A p \in Proc : WF_vars(WindowCloses(p)) /\ WF_vars(StartCommit(p))
                     /\ SF_vars(LockForCommit(p)) /\ WF_vars(Stage(p))
                     /\ WF_vars(Commit(p)) /\ WF_vars(FinishPush(p))

-----------------------------------------------------------------------------
(* Properties                                                              *)

\* The shape of the state.
TypeOK ==
  /\ data \subseteq Write /\ audit \subseteq Write
  /\ head \in [data : SUBSET Write, audit : SUBSET Write]
  /\ repo \in BOOLEAN
  /\ lock \in {Free} \cup (Proc \X {"flush", "commit"})
  /\ flush \in [Proc -> {"idle", "gate", "enqueueMutex", "data", "audit", "release"}]
  /\ flushing \in [Proc -> SUBSET Write]
  /\ answer \in [Write -> {"none", "ok", "locked", "failed"}]
  /\ ackedBy \in [Proc -> SUBSET Write]
  /\ window \in [Proc -> 0..MaxLines]
  /\ chain \in [Proc -> Nat]
  /\ commit \in [Proc -> {"idle", "lock", "add", "push"}]
  /\ index \in [Proc -> [data : (SUBSET Write) \cup {Unread}, audit : (SUBSET Write) \cup {Unread}]]
  /\ state \in [Proc -> {"up", "exiting", "exited", "crashed"}]

\* A commit holds a flush's data rows and audit records or neither
\* (DF-0925-02), whatever git add reads in which order.  Even when flushes fail,
\* processes are killed and commits are given up, the row and the record of an
\* acknowledged write are in the same commits, and no committed record lacks its
\* row: the change feed resolves a record's row in the commit that carries it.
PairInOneCommit ==
  /\ TypeOK
  /\ calm => head.data = head.audit
  /\ \A w \in Write : answer[w] = "ok" => (w \in head.data <=> w \in head.audit)
  /\ head.audit \subseteq head.data

\* When every process has exited in order, all acknowledged writes are in
\* HEAD: those in a chain, those of a window that has not fired, and those of
\* a process whose last commit found the lock busy.
ExitCommits ==
  calm /\ (\A p \in Proc : state[p] = "exited") =>
    \A p \in Proc : ackedBy[p] \subseteq head.data

\* An acknowledged write is committed in the end, by its own process or by
\* another one.
AcknowledgedIsCommitted ==
  \A w \in Write : calm /\ answer[w] = "ok" ~> w \in head.data

=============================================================================
