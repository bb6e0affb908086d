----------------------------- MODULE WriteLock -----------------------------
(***************************************************************************)
(* The cross-process namespace write lock of src/serialization/lock.ts,    *)
(* one action per file-system call, together with the part of a flush that *)
(* relies on it: the token re-read before every row and the audit burst.   *)
(*                                                                         *)
(* Every process of Proc serves the same namespace.  A call is synchronous *)
(* inside its process, so a process is in at most one of these calls; but  *)
(* between two of its system calls every other process may run, and it may *)
(* be killed.                                                              *)
(*                                                                         *)
(* nonce   crypto.randomBytes(16): no draw equals a nonce that is still     *)
(*         held or on disk, so a finite set of fresh values stands for it. *)
(* pid     what process.kill(pid, 0) is asked about; a restarted process   *)
(*         may be given the pid that the lock file names.                  *)
(* old     Date.now() - ts > LOCK_STALE_MS.  The file's mtime and the ts   *)
(*         of its payload are milliseconds apart, far below the ten        *)
(*         minutes of LOCK_STALE_MS, and are taken to be one instant.      *)
(***************************************************************************)
EXTENDS Naturals

CONSTANTS
  Proc,         \* server processes sharing one namespacesPath
  Pid,          \* operating system process ids
  Nonce,        \* lock nonces
  NoNonce,      \* no lock handle
  NoLock,       \* the lock file does not exist
  MaxAttempts,  \* iterations of the acquire loop (4 in the code)
  Batch,        \* rows in one flush batch
  MaxKills,     \* bound: processes killed in one behaviour
  Stalls        \* whether a lock file may outlive LOCK_STALE_MS

LockFile == [nonce : Nonce, pid : Pid, written : BOOLEAN, old : BOOLEAN]

ASSUME ConstantsAssumption ==
  /\ MaxAttempts \in Nat \ {0}
  /\ Batch \in Nat \ {0}
  /\ MaxKills \in Nat
  /\ Stalls \in BOOLEAN
  /\ NoNonce \notin Nonce
  /\ NoLock \notin LockFile

VARIABLES
  lock,       \* <ns>.lock on disk, or NoLock
  pid,        \* pid of each process
  pc,         \* where each process is
  attempt,    \* loop counter of acquireNamespaceWriteLock
  token,      \* nonce of the lock handle a process holds
  statOld,    \* shouldBreak's verdict on the age of the file it has stat'ed
  rows,       \* data rows the current flush has appended
  late,       \* history: rows the flush appended after losing the lock
  lateAudit,  \* history: the flush appended its audit burst after losing it
  kills

flush == <<rows, late, lateAudit>>
vars == <<lock, pid, pc, attempt, token, statOld, flush, kills>>

Acquiring == {"open", "write", "stat", "read", "unlink"}
Flushing  == {"check", "append", "audit", "final"}
Releasing == {"relcheck", "relunlink"}

\* A process that acquireNamespaceWriteLock has given a handle.
Holds(p) == pc[p] \in Flushing \cup Releasing

\* Mutant: a lock file that is gone counts as still ours.
CurrentWhenMissing(p) == lock # NoLock => lock.written /\ lock.nonce = token[p]

\* tokenStillCurrent: the file parses and carries this process's nonce.
Current(p) == lock # NoLock /\ lock.written /\ lock.nonce = token[p]

\* isPidAlive: some running process has this pid.
LivePids == {pid[p] : p \in {q \in Proc : pc[q] # "dead"}}

\* A nonce nobody holds and the lock file does not carry.
Fresh == {n \in Nonce : /\ \A p \in Proc : token[p] # n
                        /\ lock # NoLock => lock.nonce # n}

Goto(p, label) == pc' = [pc EXCEPT ![p] = label]

\* The local variables of a flush go out of scope.
ForgetFlush(p) ==
  /\ token' = [token EXCEPT ![p] = NoNonce]
  /\ rows' = [rows EXCEPT ![p] = 0]
  /\ late' = [late EXCEPT ![p] = 0]
  /\ lateAudit' = [lateAudit EXCEPT ![p] = FALSE]

Init ==
  /\ lock = NoLock
  /\ pid \in [Proc -> Pid]
  /\ \A p, q \in Proc : pid[p] = pid[q] => p = q
  /\ pc = [p \in Proc |-> "idle"]
  /\ attempt = [p \in Proc |-> 0]
  /\ token = [p \in Proc |-> NoNonce]
  /\ statOld = [p \in Proc |-> FALSE]
  /\ rows = [p \in Proc |-> 0]
  /\ late = [p \in Proc |-> 0]
  /\ lateAudit = [p \in Proc |-> FALSE]
  /\ kills = 0

-----------------------------------------------------------------------------
(* acquireNamespaceWriteLock and shouldBreak                               *)

\* A flush calls acquireNamespaceWriteLock.
BeginAcquire(p) ==
  /\ pc[p] = "idle"
  /\ Goto(p, "open")
  /\ UNCHANGED <<lock, pid, attempt, token, statOld, flush, kills>>

\* openSync(lockPath, "wx") creates the file, still empty.
OpenCreates(p) ==
  /\ pc[p] = "open"
  /\ lock = NoLock
  /\ \E n \in Fresh :
       /\ lock' = [nonce |-> n, pid |-> pid[p], written |-> FALSE, old |-> FALSE]
       /\ token' = [token EXCEPT ![p] = n]
  /\ Goto(p, "write")
  /\ UNCHANGED <<pid, attempt, statOld, flush, kills>>

\* openSync fails with EEXIST.
OpenExists(p) ==
  /\ pc[p] = "open"
  /\ lock # NoLock
  /\ Goto(p, "stat")
  /\ UNCHANGED <<lock, pid, attempt, token, statOld, flush, kills>>

\* writeSync of the payload through the descriptor: it reaches the file this
\* process created, which need not be at lockPath any more.  The handle is
\* returned either way and the flush begins.
WritePayload(p) ==
  /\ pc[p] = "write"
  /\ lock' = IF lock # NoLock /\ lock.nonce = token[p]
               THEN [lock EXCEPT !.written = TRUE]
               ELSE lock
  /\ attempt' = [attempt EXCEPT ![p] = 0]
  /\ Goto(p, "check")
  /\ UNCHANGED <<pid, token, statOld, flush, kills>>

\* shouldBreak: statSync, which decides at once when the file is gone.
ShouldBreakStat(p) ==
  /\ pc[p] = "stat"
  /\ IF lock = NoLock
       THEN Goto(p, "unlink") /\ UNCHANGED statOld
       ELSE Goto(p, "read") /\ statOld' = [statOld EXCEPT ![p] = lock.old]
  /\ UNCHANGED <<lock, pid, attempt, token, flush, kills>>

\* Mutant: a lock file that does not parse is never broken.
ShouldBreakParsedOnly(p) ==
  lock # NoLock /\ lock.written /\ (lock.pid \notin LivePids \/ lock.old)

\* shouldBreak: the payload decides when it parses, the age stat'ed before
\* decides when the file is gone or still empty.
ShouldBreak(p) ==
  IF lock # NoLock /\ lock.written
    THEN lock.pid \notin LivePids \/ lock.old
    ELSE statOld[p]

\* A lock that must not be broken ends the call with null.
ShouldBreakRead(p) ==
  /\ pc[p] = "read"
  /\ attempt' = [attempt EXCEPT ![p] = IF ShouldBreak(p) THEN @ ELSE 0]
  /\ Goto(p, IF ShouldBreak(p) THEN "unlink" ELSE "idle")
  /\ statOld' = [statOld EXCEPT ![p] = FALSE]
  /\ UNCHANGED <<lock, pid, token, flush, kills>>

\* unlinkSync of whatever is at lockPath by now (ENOENT is not an error),
\* then the next iteration of the loop, if there is one.
UnlinkStale(p) ==
  /\ pc[p] = "unlink"
  /\ lock' = NoLock
  /\ IF attempt[p] + 1 < MaxAttempts
       THEN Goto(p, "open") /\ attempt' = [attempt EXCEPT ![p] = @ + 1]
       ELSE Goto(p, "idle") /\ attempt' = [attempt EXCEPT ![p] = 0]
  /\ UNCHANGED <<pid, token, statOld, flush, kills>>

-----------------------------------------------------------------------------
(* The flush: assertCurrent before each row, none inside the audit burst   *)

\* assertCurrent: a failed check fences the flush, which goes to release.
CheckToken(p) ==
  /\ pc[p] = "check"
  /\ Goto(p, IF Current(p) THEN "append" ELSE "relcheck")
  /\ UNCHANGED <<lock, pid, attempt, token, statOld, flush, kills>>

\* Mutant: assertCurrent runs once per batch, not once per row.
AppendRowUnchecked(p) ==
  /\ pc[p] = "append"
  /\ rows' = [rows EXCEPT ![p] = @ + 1]
  /\ late' = [late EXCEPT ![p] = IF Current(p) THEN @ ELSE @ + 1]
  /\ Goto(p, IF rows[p] + 1 < Batch THEN "append" ELSE "audit")
  /\ UNCHANGED <<lock, pid, attempt, token, statOld, lateAudit, kills>>

\* appendFileSync of one data row.
AppendRow(p) ==
  /\ pc[p] = "append"
  /\ rows' = [rows EXCEPT ![p] = @ + 1]
  /\ late' = [late EXCEPT ![p] = IF Current(p) THEN @ ELSE @ + 1]
  /\ Goto(p, IF rows[p] + 1 < Batch THEN "check" ELSE "audit")
  /\ UNCHANGED <<lock, pid, attempt, token, statOld, lateAudit, kills>>

\* appendAuditLedger of the whole batch; the token is read after it.
AppendAudit(p) ==
  /\ pc[p] = "audit"
  /\ lateAudit' = [lateAudit EXCEPT ![p] = ~Current(p)]
  /\ Goto(p, "final")
  /\ UNCHANGED <<lock, pid, attempt, token, statOld, rows, late, kills>>

\* The assertCurrent that follows the audit burst: the writes are
\* acknowledged when it succeeds.  Either way the finally clause releases.
FinalCheck(p) ==
  /\ pc[p] = "final"
  /\ Goto(p, "relcheck")
  /\ UNCHANGED <<lock, pid, attempt, token, statOld, flush, kills>>

\* Mutant: the writes are acknowledged without the last check.
AcknowledgesUnchecked(p) == pc[p] = "final"

\* The writes resolve with ok: true.
Acknowledges(p) == pc[p] = "final" /\ Current(p)

-----------------------------------------------------------------------------
(* releaseNamespaceWriteLock                                               *)

\* tokenStillCurrent guards the unlink.
ReleaseCheck(p) ==
  /\ pc[p] = "relcheck"
  /\ IF Current(p)
       THEN Goto(p, "relunlink") /\ UNCHANGED <<token, flush>>
       ELSE Goto(p, "idle") /\ ForgetFlush(p)
  /\ UNCHANGED <<lock, pid, attempt, statOld, kills>>

\* unlinkSync of whatever is at lockPath by now.
ReleaseUnlink(p) ==
  /\ pc[p] = "relunlink"
  /\ lock' = NoLock
  /\ Goto(p, "idle")
  /\ ForgetFlush(p)
  /\ UNCHANGED <<pid, attempt, statOld, kills>>

-----------------------------------------------------------------------------
(* Environment                                                             *)

\* LOCK_STALE_MS pass while the same lock file is in place.
Age ==
  /\ Stalls
  /\ lock # NoLock
  /\ ~lock.old
  /\ lock' = [lock EXCEPT !.old = TRUE]
  /\ UNCHANGED <<pid, pc, attempt, token, statOld, flush, kills>>

\* SIGKILL: the lock file stays behind.
Kill(p) ==
  /\ pc[p] # "dead"
  /\ kills < MaxKills
  /\ kills' = kills + 1
  /\ Goto(p, "dead")
  /\ ForgetFlush(p)
  /\ attempt' = [attempt EXCEPT ![p] = 0]
  /\ statOld' = [statOld EXCEPT ![p] = FALSE]
  /\ UNCHANGED <<lock, pid>>

\* The supervisor restarts the process, under any pid that is free.
Restart(p) ==
  /\ pc[p] = "dead"
  /\ Goto(p, "idle")
  /\ \E i \in Pid \ LivePids : pid' = [pid EXCEPT ![p] = i]
  /\ UNCHANGED <<lock, attempt, token, statOld, flush, kills>>

-----------------------------------------------------------------------------

Step(p) ==
  \/ OpenCreates(p) \/ OpenExists(p) \/ WritePayload(p)
  \/ ShouldBreakStat(p) \/ ShouldBreakRead(p) \/ UnlinkStale(p)
  \/ CheckToken(p) \/ AppendRow(p) \/ AppendAudit(p) \/ FinalCheck(p)
  \/ ReleaseCheck(p) \/ ReleaseUnlink(p)

Next ==
  \/ \E p \in Proc : BeginAcquire(p) \/ Step(p) \/ Kill(p) \/ Restart(p)
  \/ Age

Spec == Init /\ [][Next]_vars

\* A process inside a synchronous call is not suspended for ever, one that
\* serves writes flushes again and again, a dead one is restarted, and time
\* passes.
FairSpec ==
  /\ Spec
  /\ \A p \in Proc : WF_vars(Step(p)) /\ WF_vars(BeginAcquire(p)) /\ WF_vars(Restart(p))
  /\ WF_vars(Age)

-----------------------------------------------------------------------------
(* Properties                                                              *)

\* The shape of the state: what the variables above may hold.
TypeOK ==
  /\ lock \in LockFile \cup {NoLock}
  /\ pid \in [Proc -> Pid]
  /\ pc \in [Proc -> {"idle", "dead"} \cup Acquiring \cup Flushing \cup Releasing]
  /\ attempt \in [Proc -> 0..MaxAttempts - 1]
  /\ token \in [Proc -> Nonce \cup {NoNonce}]
  /\ statOld \in [Proc -> BOOLEAN]
  /\ rows \in [Proc -> 0..Batch]
  /\ late \in [Proc -> 0..Batch]
  /\ lateAudit \in [Proc -> BOOLEAN]
  /\ kills \in 0..MaxKills

\* The inductive strengthening of the fencing properties.  A nonce has one
\* user, and exactly those past openSync have one; the file of a handle's own
\* nonce is complete; rows are counted only inside a flush; and a flush that
\* has already written a late row has lost the lock and cannot append again.
TokenOwned ==
  /\ \A p \in Proc : token[p] # NoNonce <=> (pc[p] = "write" \/ Holds(p))
  /\ \A p, q \in Proc : token[p] = token[q] /\ token[p] # NoNonce => p = q
OwnFileWritten ==
  \A p \in Proc : Holds(p) /\ lock # NoLock /\ lock.nonce = token[p] => lock.written
RowsCounted ==
  \A p \in Proc :
    /\ ~Holds(p) => rows[p] = 0 /\ ~lateAudit[p]
    /\ pc[p] \in {"check", "append"} => rows[p] < Batch
    /\ late[p] <= rows[p]
LateIsLost ==
  \A p \in Proc :
    /\ late[p] > 0 => late[p] = 1 /\ ~Current(p) /\ pc[p] # "append"
    /\ lateAudit[p] => ~Current(p)
FencingInvariant == TypeOK /\ TokenOwned /\ OwnFileWritten /\ RowsCounted /\ LateIsLost

\* Two processes never hold a lock handle at the same time: the promise of
\* openSync "wx" in acquireNamespaceWriteLock.
MutualExclusion ==
  \A p, q \in Proc : Holds(p) /\ Holds(q) => p = q

\* However the lock was lost (broken as stale, broken by mistake, unlinked by
\* a late release), a flush appends at most one data row after losing it: the
\* row between an assertCurrent and the appendFileSync that follows it.
AtMostOneLateRow == \A p \in Proc : Holds(p) => late[p] <= 1

\* A flush that acknowledges its writes held the lock at every one of its
\* appends, the audit burst included, although nothing is checked inside the
\* burst: the assertCurrent after it vouches for all that came before.
AcknowledgedUnderLock ==
  \A p \in Proc : Acknowledges(p) => late[p] = 0 /\ ~lateAudit[p]

\* Fencing is for good: a handle whose nonce tokenStillCurrent has lost never
\* becomes current again, so a preempted flush cannot resume under a
\* successor's lock.
LostForGood ==
  [][\A p \in Proc : Holds(p) /\ ~Current(p) /\ Holds(p)' => ~Current(p)']_vars

\* The lock file of a process that died, even one killed between openSync and
\* writeSync or whose pid was given to another process, does not keep the
\* namespace locked for ever.
Abandoned == lock # NoLock /\ \A p \in Proc : token[p] # lock.nonce
AbandonedLockIsBroken == Abandoned ~> ~Abandoned

=============================================================================
