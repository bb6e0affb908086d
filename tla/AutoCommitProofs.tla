-------------------------- MODULE AutoCommitProofs --------------------------
(***************************************************************************)
(* What commit gate and lock file guarantee for any number of processes    *)
(* and writes, and any size of the debounce window.  CommitInvariant is    *)
(* inductive; PairInOneCommit and ExitCommits follow from it.              *)
(***************************************************************************)
EXTENDS AutoCommit, TLAPS

\* A row without its record that no flush is about to complete.
Orphan(w) == answer[w] = "failed" /\ ~calm

\* A flush in progress that holds the lock file.
Appending(p) == flush[p] \in {"data", "audit", "release"}

\* The lock file names the process whose flush appends or whose commit stages.
LockFollowsProgress ==
  \A p \in Proc :
    /\ lock = <<p, "flush">> <=> Appending(p)
    /\ lock = <<p, "commit">> <=> commit[p] = "add"

\* A process that stops accepting writes has no flush left, one that is gone
\* has no commit left either.
StoppedIsIdle ==
  \A p \in Proc :
    /\ state[p] # "up" => flush[p] = "idle"
    /\ state[p] \in {"exited", "crashed"} =>
         commit[p] = "idle" /\ chain[p] = 0 /\ window[p] = 0

\* Each write being flushed is unanswered and belongs to one process; its row
\* and record are in the worktree as far as that flush has come.
FlushOwnsWrite ==
  \A p \in Proc : \A w \in flushing[p] :
    /\ answer[w] = "none"
    /\ flush[p] # "idle"
    /\ \A q \in Proc : w \in flushing[q] => q = p
    /\ flush[p] \in {"audit", "release"} => w \in data
    /\ flush[p] = "release" => w \in audit

\* The worktree holds pairs, but for the flush between its two appends and for
\* what failed flushes left behind.
TreeInPairs ==
  /\ audit \subseteq data
  /\ \A w \in data \ audit :
       Orphan(w) \/ \E p \in Proc : flush[p] = "audit" /\ w \in flushing[p]
  /\ \A w \in Write : answer[w] = "ok" => w \in audit

\* What git add has read is what the files still hold: the lock file keeps
\* every flush out while a commit stages.
IndexIsTree ==
  \A p \in Proc :
    /\ commit[p] # "add" => index[p] = NothingRead
    /\ index[p].data \in {Unread, data}
    /\ index[p].audit \in {Unread, audit}

\* HEAD holds pairs and what failed flushes left behind, all of it from the
\* worktree.
HeadInPairs ==
  /\ head.data \subseteq data
  /\ head.audit \subseteq audit /\ head.audit \subseteq head.data
  /\ \A w \in head.data \ head.audit : Orphan(w)

\* A process still has something to do before the worktree is committed.
CommitAhead(p) ==
  Appending(p) \/ window[p] > 0 \/ chain[p] > 0 \/ commit[p] \in {"lock", "add"}

\* Without failures, what is not in HEAD has a commit coming.
NothingForgotten ==
  /\ \A p \in Proc : ackedBy[p] \subseteq data
  /\ calm => data \subseteq head.data \/ \E p \in Proc : CommitAhead(p)

\* The inductive invariant.
CommitInvariant ==
  /\ TypeOK
  /\ LockFollowsProgress
  /\ StoppedIsIdle
  /\ FlushOwnsWrite
  /\ TreeInPairs
  /\ IndexIsTree
  /\ HeadInPairs
  /\ NothingForgotten

\* The steps of one process.
ProcStep(p) ==
  \/ \E w \in Write : StartFlush(p, w)
  \/ Flush(p) \/ FlushFails(p)
  \/ CommitStep(p) \/ GiveUpCommit(p)
  \/ StartWait(p) \/ StartExit(p) \/ Exit(p) \/ Crash(p)

USE DEF Appending, Orphan, CommitAhead, Synchronous, Runs, GateLocked, NothingRead,
        SetFlush, SetCommit, Answer,
        tree, flushes, commits

\* Free names no owner of the lock file.
LEMMA FreeIsNoOwner == \A p \in Proc : Free # <<p, "flush">> /\ Free # <<p, "commit">>
  <1> SUFFICES ASSUME NEW p \in Proc PROVE Free # <<p, "flush">> /\ Free # <<p, "commit">>
    OBVIOUS
  <1>1. <<p, "flush">> \in Proc \X {"flush", "commit"}
    OBVIOUS
  <1>2. <<p, "commit">> \in Proc \X {"flush", "commit"}
    OBVIOUS
  <1> QED
    BY <1>1, <1>2, CommitAssumption

\* What git add may have read of the two files.
Index == [data : (SUBSET Write) \cup {Unread}, audit : (SUBSET Write) \cup {Unread}]

\* An index nothing was read into is one of the indexes.
LEMMA NothingReadIsIndex ==
  NothingRead \in Index
  BY DEF Index

\* The initial state satisfies the inductive invariant.
LEMMA CommitInit == Init => CommitInvariant
  <1> SUFFICES ASSUME Init PROVE CommitInvariant
    OBVIOUS
  <1> USE CommitAssumption DEF Init
  <1>1. TypeOK
    <2>1. index \in [Proc -> Index]
      BY NothingReadIsIndex
    <2> QED
      BY <2>1 DEF TypeOK, Index
  <1>2. LockFollowsProgress
    BY DEF LockFollowsProgress
  <1>3. StoppedIsIdle /\ FlushOwnsWrite
    BY DEF StoppedIsIdle, FlushOwnsWrite
  <1>4. TreeInPairs /\ IndexIsTree /\ HeadInPairs /\ NothingForgotten
    BY DEF TreeInPairs, IndexIsTree, HeadInPairs, NothingForgotten
  <1> QED
    BY <1>1, <1>2, <1>3, <1>4 DEF CommitInvariant

\* Every step keeps the shape of the state.
LEMMA TypeStep ==
  ASSUME TypeOK, [Next]_vars
  PROVE  TypeOK'
  <1> USE CommitAssumption, NothingReadIsIndex DEF TypeOK, Index
  <1> SUFFICES ASSUME Next PROVE TypeOK'
    BY DEF vars
  <1> PICK p \in Proc : ProcStep(p)
    BY DEF Next, ProcStep
  <1>1. ASSUME NEW w \in Write, StartFlush(p, w) PROVE TypeOK'
    BY <1>1 DEF StartFlush
  <1>2. CASE LeaveGate(p) \/ AppendData(p) \/ AppendAudit(p) \/ FinishFlush(p)
             \/ FlushFails(p)
    <2>1. CASE LeaveGate(p)
      BY <2>1 DEF LeaveGate
    <2>2. CASE AppendData(p)
      BY <2>2 DEF AppendData
    <2>3. CASE AppendAudit(p)
      BY <2>3 DEF AppendAudit
    <2>4. CASE FinishFlush(p)
      <3>1. window' \in [Proc -> 0..MaxLines] /\ chain' \in [Proc -> Nat]
        <4>1. CASE ~repo \/ (window[p] > 0 /\ window[p] + 1 >= MaxLines)
          BY <2>4, <4>1 DEF FinishFlush, ScheduleCommit
        <4>2. CASE ~(~repo \/ (window[p] > 0 /\ window[p] + 1 >= MaxLines))
          <5>1. window' = [window EXCEPT ![p] = @ + 1] /\ chain' = chain
            BY <2>4, <4>2 DEF FinishFlush, ScheduleCommit
          <5>2. window[p] + 1 \in 0..MaxLines
            BY <4>2
          <5> QED
            BY <5>1, <5>2
        <4> QED
          BY <4>1, <4>2
      <3>2. lock' \in {Free} \cup (Proc \X {"flush", "commit"})
        BY <2>4 DEF FinishFlush
      <3>3. flush' = [flush EXCEPT ![p] = "idle"]
        BY <2>4 DEF FinishFlush
      <3>4. answer' \in [Write -> {"none", "ok", "locked", "failed"}]
        BY <2>4 DEF FinishFlush
      <3>5. flushing' \in [Proc -> SUBSET Write] /\ ackedBy' \in [Proc -> SUBSET Write]
        BY <2>4 DEF FinishFlush
      <3> QED
        BY <2>4, <3>1, <3>2, <3>3, <3>4, <3>5 DEF FinishFlush
    <2>5. CASE FlushFails(p)
      BY <2>5 DEF FlushFails
    <2> QED
      BY <1>2, <2>1, <2>2, <2>3, <2>4, <2>5
  <1>3. CASE LockForFlush(p)
    <2>1. lock' \in {Free} \cup (Proc \X {"flush", "commit"})
      BY <1>3 DEF LockForFlush
    <2>2. flush' \in [Proc -> {"idle", "gate", "enqueueMutex", "data", "audit", "release"}]
      <3>1. flush' = [flush EXCEPT ![p] = IF lock = Free THEN "data" ELSE "idle"]
        BY <1>3 DEF LockForFlush
      <3> QED
        BY <3>1
    <2>3. flushing' \in [Proc -> SUBSET Write]
      BY <1>3 DEF LockForFlush
    <2>4. answer' \in [Write -> {"none", "ok", "locked", "failed"}]
      BY <1>3 DEF LockForFlush
    <2> QED
      BY <1>3, <2>1, <2>2, <2>3, <2>4 DEF LockForFlush
  <1>4. CASE WindowCloses(p) \/ StartCommit(p) \/ LockForCommit(p) \/ Commit(p)
             \/ FinishPush(p) \/ GiveUpCommit(p)
    <2>1. CASE WindowCloses(p)
      BY <2>1 DEF WindowCloses
    <2>2. CASE StartCommit(p)
      BY <2>2 DEF StartCommit
    <2>3. CASE LockForCommit(p)
      BY <2>3 DEF LockForCommit
    <2>4. CASE Commit(p)
      BY <2>4 DEF Commit
    <2>5. CASE FinishPush(p)
      BY <2>5 DEF FinishPush
    <2>6. CASE GiveUpCommit(p)
      BY <2>6 DEF GiveUpCommit
    <2> QED
      BY <1>4, <2>1, <2>2, <2>3, <2>4, <2>5, <2>6
  <1>5. CASE Stage(p)
    <2>1. index' \in [Proc -> Index]
      BY <1>5 DEF Stage
    <2> QED
      BY <1>5, <2>1 DEF Stage
  <1>6. CASE StartWait(p)
    <2>1. head' \in [data : SUBSET Write, audit : SUBSET Write] /\ repo' \in BOOLEAN
      <3>1. \/ head' = head /\ repo' = repo
            \/ head' = [data |-> data, audit |-> audit] /\ repo' = TRUE
        BY <1>6 DEF StartWait, FlushWindow, ImmediateCommit
      <3>2. [data |-> data, audit |-> audit] \in [data : SUBSET Write, audit : SUBSET Write]
        OBVIOUS
      <3> QED
        BY <3>1, <3>2
    <2>2. window' \in [Proc -> 0..MaxLines]
      BY <1>6 DEF StartWait, FlushWindow, ImmediateCommit
    <2> QED
      BY <1>6, <2>1, <2>2 DEF StartWait, FlushWindow, ImmediateCommit
  <1>7. CASE StartExit(p) \/ Crash(p)
    <2>1. CASE StartExit(p)
      BY <2>1 DEF StartExit
    <2>2. CASE Crash(p)
      BY <2>2 DEF Crash
    <2> QED
      BY <1>7, <2>1, <2>2
  <1>8. CASE Exit(p)
    <2>1. head' \in [data : SUBSET Write, audit : SUBSET Write] /\ repo' \in BOOLEAN
      <3>1. \/ head' = head /\ repo' = repo
            \/ head' = [data |-> data, audit |-> audit] /\ repo' = TRUE
        BY <1>8 DEF Exit, FlushWindow, ImmediateCommit
      <3>2. [data |-> data, audit |-> audit] \in [data : SUBSET Write, audit : SUBSET Write]
        OBVIOUS
      <3> QED
        BY <3>1, <3>2
    <2>2. window' \in [Proc -> 0..MaxLines]
      BY <1>8 DEF Exit, FlushWindow, ImmediateCommit
    <2>3. index' \in [Proc -> Index]
      BY <1>8 DEF Exit, FlushWindow, ImmediateCommit
    <2>4. lock' \in {Free} \cup (Proc \X {"flush", "commit"})
      BY <1>8 DEF Exit, FlushWindow, ImmediateCommit
    <2> QED
      BY <1>8, <2>1, <2>2, <2>3, <2>4 DEF Exit, FlushWindow, ImmediateCommit
  <1> QED
    BY <1>1, <1>2, <1>3, <1>4, <1>5, <1>6, <1>7, <1>8 DEF ProcStep, Flush, CommitStep

\* The lock file changes hands only with the progress of a flush or a commit.
LEMMA LockStep ==
  ASSUME TypeOK, StoppedIsIdle, LockFollowsProgress, [Next]_vars
  PROVE  LockFollowsProgress'
  <1> USE FreeIsNoOwner DEF TypeOK, StoppedIsIdle, LockFollowsProgress
  <1> SUFFICES ASSUME Next PROVE LockFollowsProgress'
    BY DEF vars
  <1> PICK p \in Proc : ProcStep(p)
    BY DEF Next, ProcStep
  <1>1. ASSUME NEW w \in Write, StartFlush(p, w) PROVE LockFollowsProgress'
    BY <1>1 DEF StartFlush
  <1>2. CASE LeaveGate(p) \/ LockForFlush(p) \/ AppendData(p) \/ AppendAudit(p)
             \/ FlushFails(p)
    BY <1>2 DEF LeaveGate, LockForFlush, AppendData, AppendAudit, FlushFails
  <1>3. CASE FinishFlush(p)
    <2>1. lock = <<p, "flush">> /\ lock' = Free
      BY <1>3 DEF FinishFlush
    <2>2. flush' = [flush EXCEPT ![p] = "idle"] /\ UNCHANGED commit
      BY <1>3 DEF FinishFlush
    <2> QED
      BY <2>1, <2>2
  <1>4. CASE WindowCloses(p) \/ StartCommit(p) \/ LockForCommit(p) \/ Stage(p)
             \/ Commit(p) \/ FinishPush(p) \/ GiveUpCommit(p)
    BY <1>4
       DEF WindowCloses, StartCommit, LockForCommit, Stage, Commit, FinishPush,
           GiveUpCommit
  <1>5. CASE StartWait(p) \/ StartExit(p)
    BY <1>5 DEF StartWait, FlushWindow, ImmediateCommit, StartExit
  <1>6. CASE Exit(p)
    <2>1. flush[p] = "idle" /\ UNCHANGED flush
      BY <1>6 DEF Exit
    <2>2. /\ commit' = [commit EXCEPT ![p] = "idle"]
          /\ lock' = IF lock = <<p, "commit">> THEN Free ELSE lock
      BY <1>6 DEF Exit
    <2>3. CASE lock = <<p, "commit">>
      BY <2>1, <2>2, <2>3
    <2>4. CASE lock # <<p, "commit">>
      <3>1. lock' = lock /\ commit[p] # "add"
        BY <2>2, <2>4
      <3>2. \A q \in Proc : commit'[q] = "add" <=> commit[q] = "add"
        BY <2>2, <3>1
      <3> QED
        BY <2>1, <3>1, <3>2
    <2> QED
      BY <2>3, <2>4
  <1>7. CASE Crash(p)
    <2>1. /\ commit' = [commit EXCEPT ![p] = "idle"]
          /\ flush' = [flush EXCEPT ![p] = "idle"]
      BY <1>7 DEF Crash
    <2>2. CASE lock # Free /\ lock[1] = p
      <3>1. lock' = Free
        BY <1>7, <2>2 DEF Crash
      <3>2. \A q \in Proc \ {p} : lock # <<q, "flush">> /\ lock # <<q, "commit">>
        BY <2>2
      <3> QED
        BY <2>1, <3>1, <3>2
    <2>3. CASE ~(lock # Free /\ lock[1] = p)
      <3>1. lock' = lock
        BY <1>7, <2>3 DEF Crash
      <3>2. lock # <<p, "flush">> /\ lock # <<p, "commit">>
        BY <2>3
      <3> QED
        BY <2>1, <3>1, <3>2
    <2> QED
      BY <2>2, <2>3
  <1> QED
    BY <1>1, <1>2, <1>3, <1>4, <1>5, <1>6, <1>7 DEF ProcStep, Flush, CommitStep

\* Only a process without a flush stops, and one that is gone starts nothing.
LEMMA StoppedStep ==
  ASSUME TypeOK, StoppedIsIdle, [Next]_vars
  PROVE  StoppedIsIdle'
  <1> USE DEF TypeOK, StoppedIsIdle
  <1> SUFFICES ASSUME Next PROVE StoppedIsIdle'
    BY DEF vars
  <1> PICK p \in Proc : ProcStep(p)
    BY DEF Next, ProcStep
  <1>1. ASSUME NEW w \in Write, StartFlush(p, w) PROVE StoppedIsIdle'
    BY <1>1 DEF StartFlush
  <1>2. CASE LeaveGate(p) \/ LockForFlush(p) \/ AppendData(p) \/ AppendAudit(p)
             \/ FinishFlush(p) \/ FlushFails(p)
    BY <1>2
       DEF LeaveGate, LockForFlush, AppendData, AppendAudit, FinishFlush, ScheduleCommit,
           FlushFails
  <1>3. CASE WindowCloses(p) \/ StartCommit(p) \/ LockForCommit(p) \/ Stage(p)
             \/ Commit(p) \/ FinishPush(p) \/ GiveUpCommit(p)
    BY <1>3
       DEF WindowCloses, StartCommit, LockForCommit, Stage, Commit, FinishPush,
           GiveUpCommit
  <1>4. CASE StartWait(p) \/ StartExit(p) \/ Exit(p) \/ Crash(p)
    BY <1>4 DEF StartWait, FlushWindow, ImmediateCommit, StartExit, Exit, Crash
  <1> QED
    BY <1>1, <1>2, <1>3, <1>4 DEF ProcStep, Flush, CommitStep

\* No two flushes take the same write, and none answers before its appends.
LEMMA FlushStep ==
  ASSUME TypeOK, StoppedIsIdle, FlushOwnsWrite, [Next]_vars
  PROVE  FlushOwnsWrite'
  <1> USE DEF TypeOK, StoppedIsIdle, FlushOwnsWrite
  <1> SUFFICES ASSUME Next PROVE FlushOwnsWrite'
    BY DEF vars
  <1> PICK p \in Proc : ProcStep(p)
    BY DEF Next, ProcStep
  <1>1. ASSUME NEW w \in Write, StartFlush(p, w) PROVE FlushOwnsWrite'
    BY <1>1 DEF StartFlush
  <1>2. CASE LeaveGate(p) \/ LockForFlush(p) \/ AppendData(p) \/ AppendAudit(p)
             \/ FinishFlush(p) \/ FlushFails(p)
    <2>1. CASE LeaveGate(p)
      BY <2>1 DEF LeaveGate
    <2>2. CASE LockForFlush(p)
      BY <2>2 DEF LockForFlush
    <2>3. CASE AppendData(p)
      BY <2>3 DEF AppendData
    <2>4. CASE AppendAudit(p)
      BY <2>4 DEF AppendAudit
    <2>5. CASE FinishFlush(p)
      BY <2>5 DEF FinishFlush, ScheduleCommit
    <2>6. CASE FlushFails(p)
      BY <2>6 DEF FlushFails
    <2> QED
      BY <1>2, <2>1, <2>2, <2>3, <2>4, <2>5, <2>6
  <1>3. CASE WindowCloses(p) \/ StartCommit(p) \/ LockForCommit(p) \/ Stage(p)
             \/ Commit(p) \/ FinishPush(p) \/ GiveUpCommit(p)
    BY <1>3
       DEF WindowCloses, StartCommit, LockForCommit, Stage, Commit, FinishPush,
           GiveUpCommit
  <1>4. CASE StartWait(p) \/ StartExit(p)
    BY <1>4 DEF StartWait, StartExit
  <1>5. CASE Exit(p)
    BY <1>5 DEF Exit
  <1>6. CASE Crash(p)
    BY <1>6 DEF Crash
  <1> QED
    BY <1>1, <1>2, <1>3, <1>4, <1>5, <1>6 DEF ProcStep, Flush, CommitStep

\* Only a flush that fails between its appends leaves a row without record.
LEMMA TreeStep ==
  ASSUME TypeOK, StoppedIsIdle, FlushOwnsWrite, TreeInPairs, [Next]_vars
  PROVE  TreeInPairs'
  <1> USE DEF TypeOK, StoppedIsIdle, FlushOwnsWrite, TreeInPairs
  <1> SUFFICES ASSUME Next PROVE TreeInPairs'
    BY DEF vars
  <1> PICK p \in Proc : ProcStep(p)
    BY DEF Next, ProcStep
  <1>1. ASSUME NEW w \in Write, StartFlush(p, w) PROVE TreeInPairs'
    BY <1>1 DEF StartFlush
  <1>2. CASE LeaveGate(p) \/ LockForFlush(p) \/ AppendData(p) \/ AppendAudit(p)
             \/ FinishFlush(p) \/ FlushFails(p)
    <2>1. CASE LeaveGate(p)
      BY <2>1 DEF LeaveGate
    <2>2. CASE LockForFlush(p)
      BY <2>2 DEF LockForFlush
    <2>3. CASE AppendData(p)
      BY <2>3 DEF AppendData
    <2>4. CASE AppendAudit(p)
      BY <2>4 DEF AppendAudit
    <2>5. CASE FinishFlush(p)
      BY <2>5 DEF FinishFlush, ScheduleCommit
    <2>6. CASE FlushFails(p)
      BY <2>6 DEF FlushFails
    <2> QED
      BY <1>2, <2>1, <2>2, <2>3, <2>4, <2>5, <2>6
  <1>3. CASE WindowCloses(p) \/ StartCommit(p) \/ LockForCommit(p) \/ Stage(p)
             \/ Commit(p) \/ FinishPush(p) \/ GiveUpCommit(p)
    BY <1>3
       DEF WindowCloses, StartCommit, LockForCommit, Stage, Commit, FinishPush,
           GiveUpCommit
  <1>4. CASE StartWait(p) \/ StartExit(p)
    BY <1>4 DEF StartWait, StartExit
  <1>5. CASE Exit(p)
    BY <1>5 DEF Exit
  <1>6. CASE Crash(p)
    BY <1>6 DEF Crash
  <1> QED
    BY <1>1, <1>2, <1>3, <1>4, <1>5, <1>6 DEF ProcStep, Flush, CommitStep

\* No flush appends while a commit stages, because both need the lock file.
LEMMA IndexStep ==
  ASSUME TypeOK, LockFollowsProgress, IndexIsTree, [Next]_vars
  PROVE  IndexIsTree'
  <1> USE CommitAssumption DEF TypeOK, LockFollowsProgress, IndexIsTree
  <1> SUFFICES ASSUME Next PROVE IndexIsTree'
    BY DEF vars
  <1> PICK p \in Proc : ProcStep(p)
    BY DEF Next, ProcStep
  <1>1. ASSUME NEW w \in Write, StartFlush(p, w) PROVE IndexIsTree'
    BY <1>1 DEF StartFlush
  <1>2. CASE LeaveGate(p) \/ LockForFlush(p) \/ AppendData(p) \/ AppendAudit(p)
             \/ FinishFlush(p) \/ FlushFails(p)
    BY <1>2
       DEF LeaveGate, LockForFlush, AppendData, AppendAudit, FinishFlush, ScheduleCommit,
           FlushFails
  <1>3. CASE WindowCloses(p) \/ StartCommit(p) \/ LockForCommit(p) \/ Stage(p)
             \/ Commit(p) \/ FinishPush(p) \/ GiveUpCommit(p)
    BY <1>3
       DEF WindowCloses, StartCommit, LockForCommit, Stage, Commit, FinishPush,
           GiveUpCommit
  <1>4. CASE StartWait(p) \/ StartExit(p) \/ Exit(p) \/ Crash(p)
    BY <1>4 DEF StartWait, FlushWindow, ImmediateCommit, StartExit, Exit, Crash
  <1> QED
    BY <1>1, <1>2, <1>3, <1>4 DEF ProcStep, Flush, CommitStep

\* What a commit makes HEAD was the worktree when the lock was held.
LEMMA HeadStep ==
  ASSUME TypeOK, LockFollowsProgress, FlushOwnsWrite, TreeInPairs, IndexIsTree, HeadInPairs,
         [Next]_vars
  PROVE  HeadInPairs'
  <1> USE FreeIsNoOwner, CommitAssumption DEF TypeOK, LockFollowsProgress, FlushOwnsWrite,
            TreeInPairs, IndexIsTree, HeadInPairs
  <1> SUFFICES ASSUME Next PROVE HeadInPairs'
    BY DEF vars
  <1> PICK p \in Proc : ProcStep(p)
    BY DEF Next, ProcStep
  <1>1. ASSUME NEW w \in Write, StartFlush(p, w) PROVE HeadInPairs'
    BY <1>1 DEF StartFlush
  <1>2. CASE LeaveGate(p) \/ LockForFlush(p) \/ AppendData(p) \/ AppendAudit(p)
             \/ FinishFlush(p) \/ FlushFails(p)
    BY <1>2
       DEF LeaveGate, LockForFlush, AppendData, AppendAudit, FinishFlush, ScheduleCommit,
           FlushFails
  <1>3. CASE WindowCloses(p) \/ StartCommit(p) \/ LockForCommit(p) \/ Stage(p)
             \/ Commit(p) \/ FinishPush(p) \/ GiveUpCommit(p)
    BY <1>3
       DEF WindowCloses, StartCommit, LockForCommit, Stage, Commit, FinishPush,
           GiveUpCommit
  <1>4. CASE StartWait(p) \/ StartExit(p) \/ Exit(p) \/ Crash(p)
    BY <1>4 DEF StartWait, FlushWindow, ImmediateCommit, StartExit, Exit, Crash
  <1> QED
    BY <1>1, <1>2, <1>3, <1>4 DEF ProcStep, Flush, CommitStep

\* Whoever takes the last commit out of the queue commits the worktree, or
\* leaves it to the process that holds the lock.
LEMMA AheadStep ==
  ASSUME TypeOK, LockFollowsProgress, StoppedIsIdle, FlushOwnsWrite, IndexIsTree,
         NothingForgotten, [Next]_vars
  PROVE  NothingForgotten'
  <1> USE FreeIsNoOwner, CommitAssumption DEF TypeOK, LockFollowsProgress, StoppedIsIdle,
            FlushOwnsWrite, IndexIsTree, NothingForgotten
  <1> SUFFICES ASSUME Next PROVE NothingForgotten'
    BY DEF vars
  <1> PICK p \in Proc : ProcStep(p)
    BY DEF Next, ProcStep
  <1>1. ASSUME NEW w \in Write, StartFlush(p, w) PROVE NothingForgotten'
    BY <1>1 DEF StartFlush
  <1>2. CASE LeaveGate(p) \/ LockForFlush(p) \/ AppendData(p) \/ AppendAudit(p)
             \/ FinishFlush(p) \/ FlushFails(p)
    BY <1>2
       DEF LeaveGate, LockForFlush, AppendData, AppendAudit, FinishFlush, ScheduleCommit,
           FlushFails
  <1>3. CASE WindowCloses(p) \/ StartCommit(p) \/ LockForCommit(p) \/ Stage(p)
             \/ Commit(p) \/ FinishPush(p) \/ GiveUpCommit(p)
    BY <1>3
       DEF WindowCloses, StartCommit, LockForCommit, Stage, Commit, FinishPush,
           GiveUpCommit
  <1>4. CASE StartWait(p) \/ StartExit(p) \/ Exit(p) \/ Crash(p)
    BY <1>4 DEF StartWait, FlushWindow, ImmediateCommit, StartExit, Exit, Crash
  <1> QED
    BY <1>1, <1>2, <1>3, <1>4 DEF ProcStep, Flush, CommitStep

\* Every step keeps the inductive invariant.
LEMMA CommitStepKeeps == CommitInvariant /\ [Next]_vars => CommitInvariant'
  BY TypeStep, LockStep, StoppedStep, FlushStep, TreeStep, IndexStep, HeadStep, AheadStep
     DEF CommitInvariant

\* The inductive invariant holds in every reachable state.
THEOREM CommitsHold == Spec => []CommitInvariant
  BY CommitInit, CommitStepKeeps, PTL DEF Spec

\* Every commit carries a write's data row and its audit record, or neither:
\* always without failures, and in any case for acknowledged writes.
THEOREM PairsCommitted == Spec => []PairInOneCommit
  <1>1. CommitInvariant => PairInOneCommit
    BY DEF CommitInvariant, TypeOK, HeadInPairs, PairInOneCommit
  <1> QED
    BY <1>1, CommitsHold, PTL

\* Once every process has exited in order, HEAD holds all acknowledged writes.
THEOREM ExitsCommitted == Spec => []ExitCommits
  <1>1. CommitInvariant => ExitCommits
    BY DEF CommitInvariant, TypeOK, StoppedIsIdle, NothingForgotten, ExitCommits
  <1> QED
    BY <1>1, CommitsHold, PTL

=============================================================================
