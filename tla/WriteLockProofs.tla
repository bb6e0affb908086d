-------------------------- MODULE WriteLockProofs --------------------------
(***************************************************************************)
(* What the fencing token guarantees for any number of processes, batch    *)
(* size, kills and stale locks.  FencingInvariant is inductive; the safety *)
(* properties follow from it.                                              *)
(***************************************************************************)
EXTENDS WriteLock, TLAPS

USE DEF Holds, Flushing, Releasing, Acquiring, Current, Goto, flush

\* The initial state satisfies the inductive invariant.
LEMMA FencingInit == Init => FencingInvariant
  BY ConstantsAssumption
     DEF Init, FencingInvariant, TypeOK, TokenOwned, OwnFileWritten,
         RowsCounted, LateIsLost

\* acquireNamespaceWriteLock keeps the inductive invariant.
LEMMA AcquireKeepsFencing ==
  ASSUME FencingInvariant, NEW p \in Proc,
         \/ BeginAcquire(p) \/ OpenCreates(p) \/ OpenExists(p) \/ WritePayload(p)
         \/ ShouldBreakStat(p) \/ ShouldBreakRead(p) \/ UnlinkStale(p)
  PROVE  FencingInvariant'
  <1> USE ConstantsAssumption
      DEF FencingInvariant, TypeOK, TokenOwned, OwnFileWritten, RowsCounted,
          LateIsLost, LockFile
  <1>1. CASE BeginAcquire(p)
    BY <1>1 DEF BeginAcquire
  <1>2. CASE OpenCreates(p)
    BY <1>2 DEF OpenCreates, Fresh
  <1>3. CASE OpenExists(p)
    BY <1>3 DEF OpenExists
  <1>4. CASE WritePayload(p)
    <2> USE <1>4 DEF WritePayload
    <2>1. TypeOK'
      <3>1. lock' \in LockFile \cup {NoLock}
        BY DEF LockFile
      <3> QED
        BY <3>1
    <2>2. TokenOwned'
      OBVIOUS
    <2>3. OwnFileWritten'
      OBVIOUS
    <2>4. RowsCounted'
      OBVIOUS
    <2>5. LateIsLost'
      OBVIOUS
    <2> QED
      BY <2>1, <2>2, <2>3, <2>4, <2>5
  <1>5. CASE ShouldBreakStat(p)
    BY <1>5 DEF ShouldBreakStat
  <1>6. CASE ShouldBreakRead(p)
    BY <1>6 DEF ShouldBreakRead
  <1>7. CASE UnlinkStale(p)
    BY <1>7 DEF UnlinkStale
  <1> QED
    BY <1>1, <1>2, <1>3, <1>4, <1>5, <1>6, <1>7

\* The flush and the release keep the inductive invariant.
LEMMA FlushKeepsFencing ==
  ASSUME FencingInvariant, NEW p \in Proc,
         \/ CheckToken(p) \/ AppendRow(p) \/ AppendAudit(p) \/ FinalCheck(p)
         \/ ReleaseCheck(p) \/ ReleaseUnlink(p)
  PROVE  FencingInvariant'
  <1> USE ConstantsAssumption
      DEF FencingInvariant, TypeOK, TokenOwned, OwnFileWritten, RowsCounted,
          LateIsLost, LockFile
  <1>1. CASE CheckToken(p)
    BY <1>1 DEF CheckToken
  <1>2. CASE AppendRow(p)
    <2> USE <1>2 DEF AppendRow
    <2>1. rows[p] < Batch /\ late[p] = 0
      OBVIOUS
    <2>2. /\ rows' = [rows EXCEPT ![p] = rows[p] + 1]
          /\ late' = [late EXCEPT ![p] = IF Current(p) THEN 0 ELSE 1]
      BY <2>1
    <2>3. TypeOK'
      BY <2>1, <2>2
    <2>4. TokenOwned' /\ OwnFileWritten'
      OBVIOUS
    <2>5. RowsCounted'
      BY <2>1, <2>2
    <2>6. LateIsLost'
      BY <2>1, <2>2
    <2> QED
      BY <2>3, <2>4, <2>5, <2>6
  <1>3. CASE AppendAudit(p)
    BY <1>3 DEF AppendAudit
  <1>4. CASE FinalCheck(p)
    BY <1>4 DEF FinalCheck
  <1>5. CASE ReleaseCheck(p)
    <2> USE <1>5 DEF ReleaseCheck
    <2>1. CASE Current(p)
      BY <2>1
    <2>2. CASE ~Current(p)
      <3> USE <2>2 DEF ForgetFlush
      <3>1. TypeOK'
        <4>1. rows' \in [Proc -> 0..Batch] /\ late' \in [Proc -> 0..Batch]
          OBVIOUS
        <4>2. lateAudit' \in [Proc -> BOOLEAN]
          OBVIOUS
        <4>3. token' \in [Proc -> Nonce \cup {NoNonce}]
          OBVIOUS
        <4>4. pc' \in [Proc -> {"idle", "dead"} \cup Acquiring \cup Flushing \cup Releasing]
          OBVIOUS
        <4> QED
          BY <4>1, <4>2, <4>3, <4>4
      <3>2. TokenOwned' /\ OwnFileWritten'
        OBVIOUS
      <3>3. RowsCounted'
        OBVIOUS
      <3>4. LateIsLost'
        OBVIOUS
      <3> QED
        BY <3>1, <3>2, <3>3, <3>4
    <2> QED
      BY <2>1, <2>2
  <1>6. CASE ReleaseUnlink(p)
    BY <1>6 DEF ReleaseUnlink, ForgetFlush
  <1> QED
    BY <1>1, <1>2, <1>3, <1>4, <1>5, <1>6

\* Kills, restarts, the passing of time and stuttering keep it too.
LEMMA EnvironmentKeepsFencing ==
  ASSUME FencingInvariant,
         \/ \E p \in Proc : Kill(p) \/ Restart(p)
         \/ Age
         \/ UNCHANGED vars
  PROVE  FencingInvariant'
  <1> USE ConstantsAssumption
      DEF FencingInvariant, TypeOK, TokenOwned, OwnFileWritten, RowsCounted,
          LateIsLost, LockFile
  <1>1. ASSUME NEW p \in Proc, Kill(p) PROVE FencingInvariant'
    BY <1>1 DEF Kill, ForgetFlush
  <1>2. ASSUME NEW p \in Proc, Restart(p) PROVE FencingInvariant'
    BY <1>2 DEF Restart
  <1>3. CASE Age
    BY <1>3 DEF Age
  <1>4. CASE UNCHANGED vars
    BY <1>4 DEF vars
  <1> QED
    BY <1>1, <1>2, <1>3, <1>4

\* Every step keeps the inductive invariant.
LEMMA FencingStep == FencingInvariant /\ [Next]_vars => FencingInvariant'
  BY AcquireKeepsFencing, FlushKeepsFencing, EnvironmentKeepsFencing DEF Next, Step

\* The inductive invariant holds in every reachable state.
THEOREM Fencing == Spec => []FencingInvariant
  BY FencingInit, FencingStep, PTL DEF Spec

\* Type correctness of the lock and the flush, whatever the faults.
THEOREM TypeCorrect == Spec => []TypeOK
  <1>1. FencingInvariant => TypeOK
    BY DEF FencingInvariant
  <1> QED
    BY <1>1, Fencing, PTL

\* A flush that lost the lock appends at most the one row whose assertCurrent
\* had already succeeded.
THEOREM OneLateRow == Spec => []AtMostOneLateRow
  <1>1. FencingInvariant => AtMostOneLateRow
    BY DEF FencingInvariant, TypeOK, LateIsLost, AtMostOneLateRow
  <1> QED
    BY <1>1, Fencing, PTL

\* Writes acknowledged with ok: true were all appended, audit rows included,
\* while their flush held the lock.
THEOREM AcknowledgedHeldLock == Spec => []AcknowledgedUnderLock
  <1>1. FencingInvariant => AcknowledgedUnderLock
    BY DEF FencingInvariant, TypeOK, LateIsLost, AcknowledgedUnderLock, Acknowledges
  <1> QED
    BY <1>1, Fencing, PTL

\* tokenStillCurrent never comes back for a handle that lost the lock.
THEOREM FencedForGood == Spec => LostForGood
  <1> DEFINE StaysLost == \A p \in Proc : Holds(p) /\ ~Current(p) /\ Holds(p)' => ~Current(p)'
  <1>1. FencingInvariant /\ [Next]_vars => [StaysLost]_vars
    <2> SUFFICES ASSUME FencingInvariant, Next, NEW p \in Proc,
                        Holds(p), ~Current(p), Holds(p)'
                 PROVE  ~Current(p)'
      OBVIOUS
    <2> USE DEF FencingInvariant, TypeOK, TokenOwned, OwnFileWritten, LockFile
    <2>1. ASSUME NEW q \in Proc, BeginAcquire(q) \/ Step(q) PROVE ~Current(p)'
      <3>1. CASE OpenCreates(q)
        BY <3>1 DEF OpenCreates, Fresh
      <3>2. CASE WritePayload(q)
        BY <3>2 DEF WritePayload
      <3>3. CASE ReleaseCheck(q) \/ ReleaseUnlink(q)
        BY <3>3 DEF ReleaseCheck, ReleaseUnlink, ForgetFlush
      <3>4. CASE BeginAcquire(q) \/ OpenExists(q) \/ ShouldBreakStat(q)
                 \/ ShouldBreakRead(q) \/ UnlinkStale(q)
        BY <3>4 DEF BeginAcquire, OpenExists, ShouldBreakStat, ShouldBreakRead, UnlinkStale
      <3>5. CASE CheckToken(q) \/ AppendRow(q) \/ AppendAudit(q) \/ FinalCheck(q)
        BY <3>5 DEF CheckToken, AppendRow, AppendAudit, FinalCheck
      <3> QED
        BY <2>1, <3>1, <3>2, <3>3, <3>4, <3>5 DEF Step
    <2>2. ASSUME NEW q \in Proc, Kill(q) \/ Restart(q) PROVE ~Current(p)'
      BY <2>2 DEF Kill, Restart, ForgetFlush
    <2>3. CASE Age
      BY <2>3 DEF Age
    <2> QED
      BY <2>1, <2>2, <2>3 DEF Next
  <1> QED
    BY <1>1, Fencing, PTL DEF Spec, LostForGood
=============================================================================
