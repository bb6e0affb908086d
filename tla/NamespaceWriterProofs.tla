----------------------- MODULE NamespaceWriterProofs -----------------------
(***************************************************************************)
(* What one writer guarantees for any number of calls, rows and flushes,   *)
(* any bound of its queue, and whatever fails around it.  WriterInvariant  *)
(* is inductive; the invariants of NamespaceWriter follow from it, and     *)
(* with it every step of the writer is a step of WriteService.             *)
(***************************************************************************)
EXTENDS NamespaceWriter, TLAPS

-----------------------------------------------------------------------------
(* The inductive invariant                                                 *)

\* Every row of R has a smaller rank than every row of S.
Before(rank, R, S) == \A r \in R, s \in S : rank[r] < rank[s]

\* A sequence of rows in the order of their ranks.
Ascending(rank, rows) == \A i, j \in DOMAIN rows : i < j => rank[rows[i]] < rank[rows[j]]

\* The rows some client still waits for.
Pending == ToSet(queue) \cup ToSet(writes)

\* The calls whose audit entry is not settled yet.
Auditing == ToSet(auditQueue) \cup ToSet(audits)

\* Each waiter of the mutex is there once, and a call is authorized only while
\* it holds the mutex.
MutexInOrder ==
  /\ \A i, j \in DOMAIN mutex : mutex[i] = mutex[j] => i = j
  /\ \A i \in DOMAIN mutex :
       IF mutex[i] = FLUSH THEN flush = "mutex" ELSE call[mutex[i]] \in {"mutex", "authorizing"}
  /\ \A c \in Call : call[c] = "authorizing" => HoldsMutex(c) /\ ~IsAudit(c)

\* The batch is as far as the flush, and no flush outlives the writer.
BatchFollowsFlush ==
  /\ flush \in {"idle", "gate", "mutex"} => writes = <<>> /\ audits = <<>>
  /\ flush \notin {"authorize", "append", "finish"} =>
       decided = 0 /\ accepted = <<>> /\ toAppend = <<>>
  /\ flush = "authorize" => decided < Len(writes) /\ toAppend = accepted
  /\ flush \in {"append", "finish"} => decided = Len(writes)
  /\ flush = "finish" => toAppend = <<>>
  /\ phase \notin {"up", "draining"} => flush = "idle"

\* What was not answered is still owed an answer, and nothing else is.
UnansweredIsPending ==
  /\ \A c \in Call :
       /\ call[c] \in {"new", "mutex", "authorizing"} \/ c \in Auditing =>
            \A r \in RowSet(c) : seq[r] = 0 /\ result[r] = "none"
       /\ c \in Auditing => call[c] = "waiting"
       /\ call[c] = "waiting" /\ phase \in {"up", "draining", "drained"} =>
            c \in Auditing \/ RowSet(c) \cap Pending # {}
  /\ \A r \in Pending : seq[r] > 0 /\ result[r] = "none"
  /\ ToSet(auditQueue) \cap ToSet(audits) = {}
  /\ phase = "drained" => Registering = {} /\ queue = <<>> /\ auditQueue = <<>>

\* The queue is accounted for, and a batch of several rows that is being
\* authorized will still fit.
QueueBounded ==
  /\ phase \in {"up", "draining", "drained"} => queuedRows = Len(queue) + Len(writes)
  /\ queuedRows <= MaxPendingRows
  /\ \A c \in Call : call[c] = "authorizing" /\ Len(RowsOf[c]) > 1 => ~Full(c)

\* File, batch and queue follow each other in the order of the sequence
\* numbers.
InSeqOrder ==
  /\ \A r \in Row : seq[r] <= nextSeq
  /\ \A r \in ToSet(data) : seq[r] > 0
  /\ Ascending(seq, data) /\ Ascending(seq, writes) /\ Ascending(seq, queue)
  /\ Ascending(seq, accepted) /\ Ascending(seq, toAppend)
  /\ Before(seq, ToSet(data) \cup ToSet(writes), ToSet(queue))
  /\ Before(seq, ToSet(data), ToSet(toAppend))
  /\ flush \in {"lock", "locked", "authorize"} => Before(seq, ToSet(data), ToSet(writes))

\* What the re-check granted, and only that, is appended.
AcceptedIsDecided ==
  /\ ToSet(toAppend) \subseteq ToSet(accepted)
  /\ \A r \in ToSet(accepted) : \E i \in 1..decided : i <= Len(writes) /\ writes[i] = r
  /\ flush \in {"append", "finish"} => ToSet(data) \cap ToSet(writes) \subseteq ToSet(accepted)

\* Without a deletion, a flush that is about to acknowledge has written every
\* row it accepted and a record of each, and every entry.
AckedIsWritten ==
  trouble # "delete" =>
    /\ flush \in {"append", "finish"} => ToSet(accepted) \subseteq ToSet(data) \cup ToSet(toAppend)
    /\ flush = "finish" => ToSet(Plan) \subseteq ToSet(ledger)

\* The inductive invariant.
WriterInvariant ==
  /\ TypeOK
  /\ MutexInOrder
  /\ BatchFollowsFlush
  /\ UnansweredIsPending
  /\ QueueBounded
  /\ InSeqOrder
  /\ AcceptedIsDecided
  /\ AckedIsWritten
  /\ AcknowledgedIsAudited
  /\ RefusedIsNotWritten

-----------------------------------------------------------------------------
(* Sequences and their elements                                            *)

\* What the operators on queues do to the set of their elements.
LEMMA ConcatElements ==
  ASSUME NEW S, NEW s \in Seq(S), NEW t \in Seq(S)
  PROVE  /\ s \o t \in Seq(S) /\ Len(s \o t) = Len(s) + Len(t)
         /\ ToSet(s \o t) = ToSet(s) \cup ToSet(t)
  <1>1. s \o t \in Seq(S) /\ Len(s \o t) = Len(s) + Len(t)
    OBVIOUS
  <1>2. \A i \in 1..Len(s) : (s \o t)[i] = s[i]
    OBVIOUS
  <1>3. \A i \in 1..Len(t) : (s \o t)[Len(s) + i] = t[i]
    OBVIOUS
  <1>4. ToSet(s \o t) \subseteq ToSet(s) \cup ToSet(t)
    <2> SUFFICES ASSUME NEW i \in 1..Len(s \o t)
                 PROVE  (s \o t)[i] \in ToSet(s) \cup ToSet(t)
      BY DEF ToSet
    <2>1. CASE i \in 1..Len(s)
      BY <2>1, <1>2 DEF ToSet
    <2>2. CASE i \notin 1..Len(s)
      <3>1. i - Len(s) \in 1..Len(t) /\ i = Len(s) + (i - Len(s))
        BY <1>1, <2>2
      <3> QED
        BY <3>1, <1>3 DEF ToSet
    <2> QED
      BY <2>1, <2>2
  <1>5. ToSet(s) \subseteq ToSet(s \o t)
    BY <1>1, <1>2 DEF ToSet
  <1>6. ToSet(t) \subseteq ToSet(s \o t)
    <2> SUFFICES ASSUME NEW i \in 1..Len(t) PROVE t[i] \in ToSet(s \o t)
      BY DEF ToSet
    <2>1. Len(s) + i \in DOMAIN (s \o t) /\ (s \o t)[Len(s) + i] = t[i]
      BY <1>1, <1>3
    <2> QED
      BY <2>1 DEF ToSet
  <1> QED
    BY <1>1, <1>4, <1>5, <1>6

LEMMA AppendElements ==
  ASSUME NEW S, NEW s \in Seq(S), NEW e \in S
  PROVE  /\ Append(s, e) \in Seq(S) /\ Len(Append(s, e)) = Len(s) + 1
         /\ ToSet(Append(s, e)) = ToSet(s) \cup {e}
  <1>1. /\ Append(s, e) \in Seq(S) /\ Len(Append(s, e)) = Len(s) + 1
        /\ \A i \in 1..Len(s) : Append(s, e)[i] = s[i]
        /\ Append(s, e)[Len(s) + 1] = e
    OBVIOUS
  <1> QED
    BY <1>1 DEF ToSet

LEMMA TailElements ==
  ASSUME NEW S, NEW s \in Seq(S), s # <<>>
  PROVE  /\ Head(s) \in S /\ Tail(s) \in Seq(S) /\ Len(s) > 0 /\ Len(Tail(s)) = Len(s) - 1
         /\ ToSet(s) = {Head(s)} \cup ToSet(Tail(s))
  <1>1. /\ Head(s) = s[1] /\ Len(s) > 0 /\ Tail(s) \in Seq(S) /\ Len(Tail(s)) = Len(s) - 1
        /\ \A i \in 1..Len(Tail(s)) : Tail(s)[i] = s[i + 1]
    OBVIOUS
  <1>2. DOMAIN s = 1..Len(s) /\ DOMAIN Tail(s) = 1..Len(Tail(s))
    BY <1>1
  <1>3. ASSUME NEW x \in ToSet(s), x # Head(s) PROVE x \in ToSet(Tail(s))
    <2>1. PICK i \in 1..Len(s) : s[i] = x
      BY <1>2, <1>3 DEF ToSet
    <2>2. i - 1 \in 1..Len(Tail(s)) /\ Tail(s)[i - 1] = x
      BY <1>1, <1>3, <2>1
    <2> QED
      BY <1>2, <2>2 DEF ToSet
  <1>4. Head(s) \in ToSet(s)
    BY <1>1, <1>2 DEF ToSet
  <1>5. ASSUME NEW x \in ToSet(Tail(s)) PROVE x \in ToSet(s)
    <2>1. PICK i \in 1..Len(Tail(s)) : Tail(s)[i] = x
      BY <1>2, <1>5 DEF ToSet
    <2>2. i + 1 \in 1..Len(s) /\ s[i + 1] = x
      BY <1>1, <2>1
    <2> QED
      BY <1>2, <2>2 DEF ToSet
  <1>6. ToSet(s) = {Head(s)} \cup ToSet(Tail(s))
    BY <1>3, <1>4, <1>5
  <1> QED
    BY <1>1, <1>2, <1>4, <1>6

\* Order survives what the flush does to its sequences.
LEMMA AscendingConcat ==
  ASSUME NEW rank, NEW S, NEW s \in Seq(S), NEW t \in Seq(S),
         Ascending(rank, s), Ascending(rank, t), Before(rank, ToSet(s), ToSet(t))
  PROVE  Ascending(rank, s \o t)
  <1>1. Len(s \o t) = Len(s) + Len(t) /\ DOMAIN (s \o t) = 1..Len(s \o t)
    OBVIOUS
  <1>2. \A i \in 1..Len(s) : (s \o t)[i] = s[i]
    OBVIOUS
  <1>3. \A i \in 1..Len(s) + Len(t) :
          i \notin 1..Len(s) => i - Len(s) \in 1..Len(t) /\ (s \o t)[i] = t[i - Len(s)]
    OBVIOUS
  <1> SUFFICES ASSUME NEW i \in 1..Len(s) + Len(t), NEW j \in 1..Len(s) + Len(t), i < j
               PROVE  rank[(s \o t)[i]] < rank[(s \o t)[j]]
    BY <1>1 DEF Ascending
  <1>4. CASE j \in 1..Len(s)
    BY <1>2, <1>4 DEF Ascending
  <1>5. CASE i \in 1..Len(s) /\ j \notin 1..Len(s)
    BY <1>2, <1>3, <1>5 DEF Before, ToSet
  <1>6. CASE i \notin 1..Len(s)
    <2>1. j \notin 1..Len(s) /\ i - Len(s) < j - Len(s)
      BY <1>6
    <2> QED
      BY <1>3, <1>6, <2>1 DEF Ascending
  <1> QED
    BY <1>4, <1>5, <1>6

LEMMA AscendingAppend ==
  ASSUME NEW rank, NEW S, NEW s \in Seq(S), NEW e \in S,
         Ascending(rank, s), Before(rank, ToSet(s), {e})
  PROVE  Ascending(rank, Append(s, e))
  <1>1. /\ Append(s, e) \in Seq(S) /\ Len(Append(s, e)) = Len(s) + 1
        /\ \A i \in 1..Len(s) : Append(s, e)[i] = s[i]
        /\ Append(s, e)[Len(s) + 1] = e
    OBVIOUS
  <1> QED
    BY <1>1 DEF Ascending, Before, ToSet

LEMMA AscendingTail ==
  ASSUME NEW rank, NEW S, NEW s \in Seq(S), s # <<>>, Ascending(rank, s)
  PROVE  Ascending(rank, Tail(s)) /\ Before(rank, {Head(s)}, ToSet(Tail(s)))
  <1>1. /\ Head(s) = s[1] /\ Tail(s) \in Seq(S) /\ Len(Tail(s)) = Len(s) - 1 /\ Len(s) > 0
        /\ \A i \in 1..Len(Tail(s)) : Tail(s)[i] = s[i + 1]
    OBVIOUS
  <1> QED
    BY <1>1 DEF Ascending, Before, ToSet

\* The sort by seq changes nothing but the order.
LEMMA SortedRows ==
  ASSUME NEW rows \in Seq(Row), Ascending(seq, rows)
  PROVE  /\ Sorted(rows) \in Seq(Row) /\ Len(Sorted(rows)) = Len(rows)
         /\ ToSet(Sorted(rows)) = ToSet(rows)
         /\ Ascending(seq, Sorted(rows))
  <1> DEFINE RowsAscend(sorted) ==
        /\ ToSet(sorted) = ToSet(rows)
        /\ \A i, j \in DOMAIN sorted : i < j => seq[sorted[i]] < seq[sorted[j]]
  <1>1. rows \in [DOMAIN rows -> ToSet(rows)] /\ RowsAscend(rows)
    BY DEF ToSet, Ascending
  <1>2. Sorted(rows) = CHOOSE sorted \in [DOMAIN rows -> ToSet(rows)] : RowsAscend(sorted)
    BY DEF Sorted
  <1> HIDE DEF RowsAscend
  <1>3. Sorted(rows) \in [DOMAIN rows -> ToSet(rows)] /\ RowsAscend(Sorted(rows))
    BY <1>1, <1>2
  <1>4. ToSet(rows) \subseteq Row /\ DOMAIN rows = 1..Len(rows) /\ Len(rows) \in Nat
    BY DEF ToSet
  <1>5. Sorted(rows) \in Seq(Row) /\ Len(Sorted(rows)) = Len(rows)
    BY <1>3, <1>4
  <1> QED
    BY <1>3, <1>5 DEF RowsAscend, Ascending

-----------------------------------------------------------------------------
(* The steps                                                               *)

\* The flush gets the lock.
GetsLock ==
  /\ flush = "lock" /\ flush' = "locked" /\ owner' = "self"
  /\ UNCHANGED <<calls, mutex, queues, timer, handled, batch, disk, fenced, phase, trouble>>

\* The flush finds the lock to be its own still.
KeepsLock ==
  /\ flush = "locked"
  /\ flush' = IF writes = <<>> THEN "append" ELSE "authorize"
  /\ UNCHANGED <<calls, mutex, queues, timer, handled, batch, disk, around>>

\* The flush appends a row.
WritesRow ==
  /\ flush = "append" /\ toAppend # <<>>
  /\ data' = Append(data, Head(toAppend))
  /\ dir' = TRUE
  /\ toAppend' = Tail(toAppend)
  /\ UNCHANGED <<calls, mutex, queues, timer, handled, flush, writes, audits, decided,
                 accepted, ledger, around>>

\* The flush ends, with whatever code, and its batch is answered.
Settles ==
  /\ flush \in {"lock", "locked", "append", "finish"}
  /\ \E code \in {"ok", "SERIALIZER_LOCKED", "SERIALIZER_FENCED", "NOT_FOUND", "INTERNAL_ERROR"} :
       /\ Settle(code)
       /\ code \in {"SERIALIZER_LOCKED", "NOT_FOUND"} => flush = "lock"
       /\ code = "ok" => flush = "finish"
  /\ ledger' \in Seq(Records) /\ ToSet(ledger) \subseteq ToSet(ledger')
  /\ dir' \in BOOLEAN /\ fenced' \in BOOLEAN
  /\ UNCHANGED data

\* The steps of the writer, the ends of a flush taken together.
Step ==
  \/ \E c \in Call : Submit(c) \/ EnqueueAudit(c) \/ EnterMutex(c) \/ Deny(c) \/ Grant(c)
  \/ TimerFires \/ PassGate \/ TakeBatch \/ GetsLock \/ AcquireThrows \/ KeepsLock
  \/ Reauthorize \/ WritesRow \/ AppendLedger \/ Settles
  \/ StartDrain \/ DrainFlush \/ FinishDrain \/ OtherOwner \/ DeleteNamespace

\* The calls and their rows.
LEMMA CallFacts ==
  /\ FLUSH \notin Call /\ MaxPendingRows \in Nat
  /\ \A c \in Call :
       /\ RowsOf[c] \in Seq(Row) /\ Len(RowsOf[c]) \in Nat /\ RowSet(c) \subseteq Row
       /\ IsAudit(c) <=> RowSet(c) = {}
       /\ c \notin Row
  /\ \A c, d \in Call : \A r \in RowSet(c) : r \in RowSet(d) => c = d
  <1>1. \A c \in Call : RowsOf[c] \in Seq(Row)
    BY CallsAssumption
  <1>2. ASSUME NEW c \in Call PROVE IsAudit(c) <=> RowSet(c) = {}
    <2>1. RowsOf[c] \in Seq(Row)
      BY <1>1
    <2>2. CASE RowsOf[c] = <<>>
      BY <2>2 DEF IsAudit, RowSet, ToSet
    <2>3. CASE RowsOf[c] # <<>>
      <3>1. Head(RowsOf[c]) \in ToSet(RowsOf[c])
        BY <2>1, <2>3, TailElements
      <3> QED
        BY <2>3, <3>1 DEF IsAudit, RowSet
    <2> QED
      BY <2>2, <2>3
  <1>3. \A c \in Call : RowSet(c) \subseteq Row
    BY <1>1 DEF RowSet, ToSet
  <1> QED
    BY <1>1, <1>2, <1>3, CallsAssumption DEF FLUSH

\* The records of a batch.
LEMMA PlanRecords ==
  ASSUME TypeOK
  PROVE  /\ Plan \in Seq(Records)
         /\ \A i \in DOMAIN writes : writes[i] \in ToSet(accepted) => Change(writes[i]) \in ToSet(Plan)
         /\ \A c \in ToSet(audits) : IsAudit(c) => Entry(c) \in ToSet(Plan)
  <1> DEFINE changes == [i \in DOMAIN writes |->
                           IF writes[i] \in ToSet(accepted) THEN Change(writes[i])
                                                            ELSE Denied(writes[i])]
             entries == [i \in DOMAIN audits |->
                           IF IsAudit(audits[i]) THEN Entry(audits[i]) ELSE Denied(audits[i])]
  <1>1. \A r \in Row : Change(r) \in Records /\ Denied(r) \in Records
    BY DEF Change, Denied, Records
  <1>2. \A c \in Call : Entry(c) \in Records /\ Denied(c) \in Records
    BY DEF Entry, Denied, Records
  <1>3. changes \in Seq(Records)
    <2>1. Len(writes) \in Nat /\ DOMAIN writes = 1..Len(writes) /\ \A i \in DOMAIN writes : writes[i] \in Row
      BY DEF TypeOK
    <2>2. changes \in [1..Len(writes) -> Records]
      BY <1>1, <2>1
    <2> QED
      BY <2>1, <2>2
  <1>4. entries \in Seq(Records)
    <2>1. Len(audits) \in Nat /\ DOMAIN audits = 1..Len(audits) /\ \A i \in DOMAIN audits : audits[i] \in Call
      BY DEF TypeOK
    <2>2. entries \in [1..Len(audits) -> Records]
      BY <1>2, <2>1
    <2> QED
      BY <2>1, <2>2
  <1>5. Plan = changes \o entries
    BY DEF Plan
  <1>6. \A i \in DOMAIN writes : writes[i] \in ToSet(accepted) => Change(writes[i]) \in ToSet(changes)
    BY DEF ToSet
  <1>7. \A c \in ToSet(audits) : IsAudit(c) => Entry(c) \in ToSet(entries)
    BY DEF ToSet
  <1> HIDE DEF changes, entries
  <1> QED
    BY <1>3, <1>4, <1>5, <1>6, <1>7, ConcatElements

\* Every step is one of these.
LEMMA StepCases ==
  ASSUME TypeOK, Next
  PROVE  Step
  <1> USE DEF Step, disk, around, batch
  <1>1. ASSUME NEW c \in Call, Submit(c) \/ Enqueue(c) PROVE Step
    BY <1>1 DEF Enqueue
  <1>2. CASE AcquireLock
    BY <1>2 DEF TypeOK, AcquireLock, Settles, GetsLock
  <1>3. CASE CheckLock
    BY <1>3 DEF TypeOK, CheckLock, Fence, Settles, KeepsLock
  <1>4. CASE AppendRow
    BY <1>4 DEF TypeOK, AppendRow, Fence, Settles, WritesRow
  <1>5. CASE FinishFlush
    BY <1>5 DEF TypeOK, FinishFlush, Fence, Settles
  <1>6. CASE FlushFails
    <2>1. ledger' \in Seq(Records) /\ ToSet(ledger) \subseteq ToSet(ledger')
      <3>1. ASSUME NEW n \in 0..Len(Plan), ledger' = ledger \o SubSeq(Plan, 1, n)
            PROVE  ledger' \in Seq(Records) /\ ToSet(ledger) \subseteq ToSet(ledger')
        <4> DEFINE written == SubSeq(Plan, 1, n)
        <4>1. written \in Seq(Records)
          BY PlanRecords
        <4>2. ledger \in Seq(Records) /\ ledger' = ledger \o written
          BY <3>1 DEF TypeOK
        <4> HIDE DEF written
        <4>3. ledger \o written \in Seq(Records) /\ ToSet(ledger) \subseteq ToSet(ledger \o written)
          BY <4>1, <4>2, ConcatElements
        <4> QED
          BY <4>2, <4>3
      <3>2. ledger \in Seq(Records)
        BY DEF TypeOK
      <3> QED
        BY <1>6, <3>1, <3>2 DEF FlushFails
    <2>2. flush \in {"append", "finish"} /\ dir' \in BOOLEAN /\ UNCHANGED data /\ fenced' \in BOOLEAN
      BY <1>6 DEF TypeOK, FlushFails
    <2>3. \E code \in {"SERIALIZER_FENCED", "INTERNAL_ERROR"} : Settle(code)
      BY <1>6 DEF FlushFails
    <2> QED
      BY <2>1, <2>2, <2>3 DEF Settles
  <1> QED
    BY <1>1, <1>2, <1>3, <1>4, <1>5, <1>6 DEF Next, Flush

\* What a client reads when the batch is answered.
LEMMA Settled ==
  ASSUME TypeOK, BatchFollowsFlush, UnansweredIsPending, NEW code, Settle(code)
  PROVE  /\ \A r \in Row : result'[r] =
              IF r \in ToSet(writes)
                THEN IF r \in ToSet(SubSeq(writes, 1, decided)) \ ToSet(accepted)
                       THEN "FORBIDDEN" ELSE code
                ELSE IF \E c \in ToSet(audits) : r \in RowSet(c) THEN "FORBIDDEN" ELSE result[r]
         /\ \A c \in Call : result'[c] =
              IF c \in ToSet(audits) /\ IsAudit(c) THEN code ELSE result[c]
         /\ \A c \in Call : call'[c] =
              IF c \in ToSet(audits) \/ RowSet(c) \cap ToSet(writes) # {}
                THEN "returned" ELSE call[c]
  <1> DEFINE denied == ToSet(SubSeq(writes, 1, decided)) \ ToSet(accepted)
             deniedCalls == {c \in ToSet(audits) : ~IsAudit(c)}
  <1>1. ToSet(writes) \subseteq Row /\ ToSet(audits) \subseteq Call
    BY DEF TypeOK, ToSet
  <1>2. \A r \in ToSet(writes), c \in ToSet(audits) : r \notin RowSet(c)
    BY <1>1, CallFacts DEF UnansweredIsPending, Pending, Auditing
  <1>3. denied \subseteq ToSet(writes)
    <2>1. decided \in 0..Len(writes) /\ writes \in Seq(Row)
      BY DEF TypeOK, BatchFollowsFlush
    <2> QED
      BY <2>1 DEF ToSet
  <1>4. \A r \in Row : r \in UNION {RowSet(c) : c \in deniedCalls}
                       <=> \E c \in ToSet(audits) : r \in RowSet(c)
    BY <1>1, CallFacts
  <1>5. result' = [x \in Row \cup Call |->
          CASE x \in denied -> "FORBIDDEN"
            [] x \in ToSet(writes) \ denied -> code
            [] x \in UNION {RowSet(c) : c \in deniedCalls} -> "FORBIDDEN"
            [] x \in ToSet(audits) \ deniedCalls -> code
            [] OTHER -> result[x]]
    BY DEF Settle
  <1>6. \A c \in Call : c \notin Row /\ c \notin ToSet(writes)
                         /\ c \notin UNION {RowSet(d) : d \in deniedCalls}
    BY <1>1, CallFacts
  <1>7. \A r \in Row : r \notin ToSet(audits)
    BY <1>1, CallFacts
  <1>8. \A c \in Call : c \in ToSet(audits) \ deniedCalls <=> c \in ToSet(audits) /\ IsAudit(c)
    OBVIOUS
  <1>9. \A c \in Call : call'[c] =
          IF c \in ToSet(audits) \/ RowSet(c) \cap ToSet(writes) # {} THEN "returned" ELSE call[c]
    BY DEF Settle
  <1> HIDE DEF denied, deniedCalls
  <1>10. ASSUME NEW r \in Row PROVE result'[r] =
           IF r \in ToSet(writes) THEN IF r \in denied THEN "FORBIDDEN" ELSE code
           ELSE IF \E c \in ToSet(audits) : r \in RowSet(c) THEN "FORBIDDEN" ELSE result[r]
    BY <1>2, <1>3, <1>4, <1>5, <1>7
  <1>11. ASSUME NEW c \in Call
         PROVE  result'[c] = IF c \in ToSet(audits) /\ IsAudit(c) THEN code ELSE result[c]
    BY <1>3, <1>5, <1>6, <1>8
  <1> QED
    BY <1>9, <1>10, <1>11 DEF denied

-----------------------------------------------------------------------------
(* What every step keeps                                                   *)

\* A call leaves the mutex when it is enqueued, denied or refused.
LEMMA LeavesMutex ==
  ASSUME TypeOK, MutexInOrder, NEW x \in Call \cup {FLUSH}, HoldsMutex(x),
         mutex' = Tail(mutex),
         \A c \in Call \ {x} : call'[c] = call[c],
         x \in Call => call'[x] \in {"waiting", "returned"},
         x \in Call => flush' = flush
  PROVE  MutexInOrder'
  <1>1. /\ Len(mutex) \in Nat \ {0} /\ DOMAIN mutex = 1..Len(mutex) /\ mutex[1] = x
        /\ DOMAIN mutex' = 1..(Len(mutex) - 1)
        /\ \A i \in DOMAIN mutex' : mutex'[i] = mutex[i + 1]
    <2>1. mutex \in Seq(Call \cup {FLUSH}) /\ mutex # <<>> /\ Head(mutex) = x
      BY DEF TypeOK, HoldsMutex
    <2> QED
      BY <2>1
  <1>2. \A i \in DOMAIN mutex' : mutex'[i] # x
    BY <1>1 DEF MutexInOrder
  <1>3. \A i, j \in DOMAIN mutex' : mutex'[i] = mutex'[j] => i = j
    BY <1>1 DEF MutexInOrder
  <1>4. \A i \in DOMAIN mutex : mutex[i] \in Call \cup {FLUSH}
    BY DEF TypeOK
  <1>5. \A i \in DOMAIN mutex' :
          IF mutex'[i] = FLUSH THEN flush' = "mutex" ELSE call'[mutex'[i]] \in {"mutex", "authorizing"}
    BY <1>1, <1>2, <1>4, CallFacts DEF MutexInOrder
  <1>6. \A c \in Call : call'[c] # "authorizing"
    BY DEF MutexInOrder, HoldsMutex
  <1> QED
    BY <1>3, <1>5, <1>6 DEF MutexInOrder

\* A waiter that is not in the mutex yet enters at its end.
LEMMA EntersMutex ==
  ASSUME TypeOK, MutexInOrder, NEW x \in Call \cup {FLUSH},
         \A i \in DOMAIN mutex : mutex[i] # x,
         mutex' = Append(mutex, x),
         \A c \in Call \ {x} : call'[c] = call[c],
         IF x = FLUSH THEN flush' = "mutex" ELSE call'[x] = "mutex" /\ flush' = flush
  PROVE  MutexInOrder'
  <1>1. mutex \in Seq(Call \cup {FLUSH})
    BY DEF TypeOK
  <1>2. /\ Len(mutex) \in Nat /\ DOMAIN mutex = 1..Len(mutex)
        /\ DOMAIN mutex' = 1..(Len(mutex) + 1) /\ mutex' # <<>>
        /\ \A i \in DOMAIN mutex : mutex'[i] = mutex[i]
        /\ mutex'[Len(mutex) + 1] = x
        /\ mutex # <<>> => Head(mutex') = Head(mutex)
    BY <1>1
  <1>3. \A i, j \in DOMAIN mutex' : mutex'[i] = mutex'[j] => i = j
    BY <1>2 DEF MutexInOrder
  <1>4. \A i \in DOMAIN mutex : mutex[i] \in Call \cup {FLUSH}
    BY <1>1
  <1>5. \A i \in DOMAIN mutex' :
          IF mutex'[i] = FLUSH THEN flush' = "mutex" ELSE call'[mutex'[i]] \in {"mutex", "authorizing"}
    BY <1>2, <1>4, CallFacts DEF MutexInOrder
  <1>6. \A c \in Call : call'[c] = "authorizing" =>
          mutex' # <<>> /\ Head(mutex') = c /\ ~IsAudit(c)
    BY <1>2, CallFacts DEF MutexInOrder, HoldsMutex
  <1> QED
    BY <1>3, <1>5, <1>6 DEF MutexInOrder, HoldsMutex, IsAudit

\* The waiters of the mutex stay in order.
LEMMA MutexStep ==
  ASSUME TypeOK, MutexInOrder, BatchFollowsFlush, UnansweredIsPending, Step
  PROVE  MutexInOrder'
  <1>1. ASSUME NEW c \in Call, Submit(c) PROVE MutexInOrder'
    <2>1. call[c] = "new" /\ call \in [Call -> {"new", "mutex", "authorizing", "waiting", "returned"}]
      BY <1>1 DEF Submit, TypeOK
    <2>2. \A i \in DOMAIN mutex : mutex[i] # c
      BY <2>1, CallFacts DEF MutexInOrder
    <2>3. CASE phase = "draining"
      <3>1. call' = [call EXCEPT ![c] = "returned"] /\ UNCHANGED <<mutex, flush>>
        BY <1>1, <2>3 DEF Submit, Resolve
      <3> QED
        BY <2>1, <2>2, <3>1, CallFacts DEF MutexInOrder, HoldsMutex, IsAudit, TypeOK
    <2>4. CASE phase # "draining"
      <3>1. call' = [call EXCEPT ![c] = "mutex"] /\ mutex' = Append(mutex, c) /\ flush' = flush
        BY <1>1, <2>4 DEF Submit
      <3> QED
        BY <2>1, <2>2, <3>1, CallFacts, EntersMutex
    <2> QED
      BY <2>3, <2>4
  <1>2. ASSUME NEW c \in Call, EnqueueAudit(c) \/ Deny(c) PROVE MutexInOrder'
    <2>1. HoldsMutex(c) /\ mutex' = Tail(mutex)
          /\ call' = [call EXCEPT ![c] = "waiting"] /\ flush' = flush
      BY <1>2 DEF EnqueueAudit, Deny, MutexInOrder
    <2> QED
      BY <2>1, LeavesMutex DEF TypeOK
  <1>3. ASSUME NEW c \in Call, EnterMutex(c) PROVE MutexInOrder'
    <2>1. HoldsMutex(c) /\ call[c] = "mutex" /\ ~IsAudit(c) /\ flush' = flush
      BY <1>3 DEF EnterMutex
    <2>2. CASE call' = [call EXCEPT ![c] = "returned"] /\ mutex' = Tail(mutex)
      BY <2>1, <2>2, LeavesMutex DEF TypeOK
    <2>3. CASE call' = [call EXCEPT ![c] = "authorizing"] /\ mutex' = mutex
      BY <2>1, <2>3 DEF MutexInOrder, HoldsMutex, IsAudit, TypeOK
    <2> QED
      BY <1>3, <2>2, <2>3 DEF EnterMutex, Resolve
  <1>4. ASSUME NEW c \in Call, Grant(c) PROVE MutexInOrder'
    <2>1. HoldsMutex(c) /\ mutex' = Tail(mutex) /\ flush' = flush
      BY <1>4 DEF Grant, MutexInOrder
    <2>2. \E done \in {"waiting", "returned"} : call' = [call EXCEPT ![c] = done]
      BY <1>4 DEF Grant, Resolve
    <2> QED
      BY <2>1, <2>2, LeavesMutex DEF TypeOK
  <1>5. CASE PassGate
    <2>1. flush = "gate" /\ flush' = "mutex" /\ mutex' = Append(mutex, FLUSH) /\ call' = call
      BY <1>5 DEF PassGate, calls
    <2>2. \A i \in DOMAIN mutex : mutex[i] # FLUSH
      BY <2>1 DEF MutexInOrder
    <2> QED
      BY <2>1, <2>2, EntersMutex
  <1>6. CASE TakeBatch
    <2>1. HoldsMutex(FLUSH) /\ mutex' = Tail(mutex) /\ call' = call
      BY <1>6 DEF TakeBatch, calls
    <2> QED
      BY <2>1, CallFacts, LeavesMutex
  <1>7. CASE Settles
    <2>1. mutex' = mutex /\ flush # "mutex"
      BY <1>7 DEF Settles, Settle
    <2>2. \A c \in Call : call'[c] # call[c] => call[c] \notin {"mutex", "authorizing"} /\ call'[c] = "returned"
      <3>1. \A c \in Call : call'[c] =
              IF c \in ToSet(audits) \/ RowSet(c) \cap ToSet(writes) # {} THEN "returned" ELSE call[c]
        BY <1>7, Settled DEF Settles
      <3>2. \A c \in Call : call[c] \in {"mutex", "authorizing"} =>
              c \notin ToSet(audits) /\ RowSet(c) \cap ToSet(writes) = {}
        BY DEF UnansweredIsPending, Auditing, Pending
      <3> QED
        BY <3>1, <3>2
    <2>3. \A i \in DOMAIN mutex : mutex[i] \in Call
      BY <2>1 DEF MutexInOrder, TypeOK
    <2> QED
      BY <2>1, <2>2, <2>3, CallFacts DEF MutexInOrder, HoldsMutex, IsAudit
  <1>8. CASE TimerFires \/ GetsLock \/ AcquireThrows \/ KeepsLock \/ Reauthorize \/ WritesRow
             \/ AppendLedger \/ StartDrain \/ DrainFlush \/ FinishDrain \/ OtherOwner
             \/ DeleteNamespace
    <2>1. UNCHANGED <<mutex, call>>
      BY <1>8 DEF TimerFires, GetsLock, AcquireThrows, KeepsLock, Reauthorize, WritesRow,
                  AppendLedger, StartDrain, DrainFlush, FinishDrain, OtherOwner,
                  DeleteNamespace, calls
    <2>2. flush = "mutex" => flush' = "mutex"
      BY <1>8 DEF TimerFires, GetsLock, AcquireThrows, KeepsLock, Reauthorize, WritesRow,
                  AppendLedger, StartDrain, DrainFlush, FinishDrain, OtherOwner,
                  DeleteNamespace
    <2> QED
      BY <2>1, <2>2 DEF MutexInOrder, HoldsMutex, IsAudit
  <1> QED
    BY <1>1, <1>2, <1>3, <1>4, <1>5, <1>6, <1>7, <1>8 DEF Step

\* Every step keeps the shape of the state.
LEMMA TypeStep ==
  ASSUME TypeOK, MutexInOrder, BatchFollowsFlush, QueueBounded, InSeqOrder, Step
  PROVE  TypeOK'
  <1> USE DEF calls, queues, batch, disk, around
  <1>0. mutex \in Seq(Call \cup {FLUSH}) /\ auditQueue \in Seq(Call) /\ queue \in Seq(Row)
    BY DEF TypeOK
  <1>1. ASSUME NEW c \in Call, Submit(c) PROVE TypeOK'
    <2>1. mutex' \in Seq(Call \cup {FLUSH})
      <3>1. mutex' = mutex \/ mutex' = Append(mutex, c)
        BY <1>1 DEF Submit
      <3> QED
        BY <1>0, <3>1, AppendElements
    <2>2. result' \in [Row \cup Call -> Codes \cup {"none"}]
      BY <1>1 DEF Submit, Resolve, TypeOK, Codes
    <2>3. call' \in [Call -> {"new", "mutex", "authorizing", "waiting", "returned"}]
      BY <1>1 DEF Submit, Resolve, TypeOK
    <2> QED
      BY <1>1, <2>1, <2>2, <2>3 DEF Submit, TypeOK
  <1>2. ASSUME NEW c \in Call, EnqueueAudit(c) \/ Deny(c) PROVE TypeOK'
    <2>1. HoldsMutex(c)
      BY <1>2 DEF EnqueueAudit, Deny, MutexInOrder
    <2>2. mutex' \in Seq(Call \cup {FLUSH}) /\ auditQueue' \in Seq(Call)
      <3>1. mutex' = Tail(mutex) /\ mutex # <<>> /\ auditQueue' = Append(auditQueue, c)
        BY <1>2, <2>1 DEF EnqueueAudit, Deny, HoldsMutex
      <3> QED
        BY <1>0, <3>1, AppendElements, TailElements
    <2>3. call' \in [Call -> {"new", "mutex", "authorizing", "waiting", "returned"}]
      BY <1>2 DEF EnqueueAudit, Deny, TypeOK
    <2> QED
      <3>1. timer' \in BOOLEAN
        BY <1>2 DEF EnqueueAudit, Deny, ScheduleFlush, TypeOK
      <3>2. UNCHANGED <<result, nextSeq, seq, queue, queuedRows, handled, flush, batch, disk, around>>
        BY <1>2 DEF EnqueueAudit, Deny
      <3> QED
        BY <2>2, <2>3, <3>1, <3>2 DEF TypeOK
  <1>3. ASSUME NEW c \in Call, EnterMutex(c) PROVE TypeOK'
    <2>1. mutex' \in Seq(Call \cup {FLUSH})
      BY <1>0, <1>3, TailElements DEF EnterMutex, HoldsMutex
    <2>2. result' \in [Row \cup Call -> Codes \cup {"none"}]
      BY <1>3 DEF EnterMutex, Resolve, TypeOK, Codes
    <2>3. call' \in [Call -> {"new", "mutex", "authorizing", "waiting", "returned"}]
      BY <1>3 DEF EnterMutex, Resolve, TypeOK
    <2> QED
      BY <1>3, <2>1, <2>2, <2>3 DEF EnterMutex, TypeOK
  <1>4. ASSUME NEW c \in Call, Grant(c) PROVE TypeOK'
    <2>1. mutex' \in Seq(Call \cup {FLUSH})
      BY <1>4 DEF Grant, MutexInOrder, HoldsMutex, TypeOK
    <2>2. call' \in [Call -> {"new", "mutex", "authorizing", "waiting", "returned"}]
      BY <1>4 DEF Grant, Resolve, TypeOK
    <2>3. CASE Len(RowsOf[c]) = 1 /\ Full(c)
      <3>1. result' \in [Row \cup Call -> Codes \cup {"none"}]
        BY <1>4, <2>3 DEF Grant, Resolve, TypeOK, Codes
      <3> QED
        BY <1>4, <2>1, <2>2, <2>3, <3>1 DEF Grant, TypeOK
    <2>4. CASE ~(Len(RowsOf[c]) = 1 /\ Full(c))
      <3>1. RowsOf[c] \in Seq(Row) /\ Len(RowsOf[c]) \in Nat
        BY CallFacts
      <3>2. nextSeq' \in Nat /\ queuedRows' \in Nat
        <4>1. nextSeq' = nextSeq + Len(RowsOf[c]) /\ queuedRows' = queuedRows + Len(RowsOf[c])
          BY <1>4, <2>4 DEF Grant
        <4>2. nextSeq \in Nat /\ queuedRows \in Nat
          BY DEF TypeOK
        <4> QED
          BY <3>1, <4>1, <4>2
      <3>3. queue' \in Seq(Row)
        <4>1. queue' = queue \o RowsOf[c]
          BY <1>4, <2>4 DEF Grant
        <4> QED
          BY <1>0, <3>1, <4>1, ConcatElements
      <3>4. seq' \in [Row -> Nat]
        <4>1. \A r \in RowSet(c) : (CHOOSE i \in DOMAIN RowsOf[c] : RowsOf[c][i] = r) \in Nat
          BY <3>1 DEF RowSet, ToSet
        <4>2. seq' = [r \in Row |-> IF r \in RowSet(c)
                THEN nextSeq + (CHOOSE i \in DOMAIN RowsOf[c] : RowsOf[c][i] = r) ELSE seq[r]]
          BY <1>4, <2>4 DEF Grant
        <4>3. nextSeq \in Nat /\ seq \in [Row -> Nat]
          BY DEF TypeOK
        <4> QED
          BY <4>1, <4>2, <4>3
      <3> QED
        <4>1. timer' \in BOOLEAN
          BY <1>4, <2>4 DEF Grant, ScheduleFlush, TypeOK
        <4>2. UNCHANGED <<result, auditQueue, handled, flush, batch, disk, around>>
          BY <1>4, <2>4 DEF Grant
        <4> QED
          BY <2>1, <2>2, <3>2, <3>3, <3>4, <4>1, <4>2 DEF TypeOK
    <2> QED
      BY <2>3, <2>4
  <1>5. CASE TakeBatch
    <2>1. mutex' \in Seq(Call \cup {FLUSH})
      BY <1>5 DEF TakeBatch, HoldsMutex, TypeOK
    <2>2. writes' \in Seq(Row)
      BY <1>5, SortedRows DEF TakeBatch, InSeqOrder, TypeOK
    <2> QED
      BY <1>5, <2>1, <2>2 DEF TakeBatch, TypeOK
  <1>6. CASE Reauthorize
    <2>1. writes[decided + 1] \in Row
      BY <1>6 DEF Reauthorize, BatchFollowsFlush, TypeOK
    <2>2. accepted' \in Seq(Row) /\ toAppend' \in Seq(Row)
      BY <1>6, <2>1 DEF Reauthorize, TypeOK
    <2> QED
      BY <1>6, <2>2 DEF Reauthorize, TypeOK
  <1>7. CASE WritesRow
    <2>1. data' \in Seq(Row) /\ toAppend' \in Seq(Row)
      BY <1>7 DEF WritesRow, TypeOK
    <2> QED
      BY <1>7, <2>1 DEF WritesRow, TypeOK
  <1>8. CASE AppendLedger
    <2>1. ledger' \in Seq(Records)
      BY <1>8, PlanRecords, ConcatElements DEF AppendLedger, TypeOK
    <2> QED
      BY <1>8, <2>1 DEF AppendLedger, TypeOK
  <1>9. CASE Settles
    <2>1. PICK code \in {"ok", "SERIALIZER_LOCKED", "SERIALIZER_FENCED", "NOT_FOUND", "INTERNAL_ERROR"} :
            Settle(code)
      BY <1>9 DEF Settles
    <2>2. result' \in [Row \cup Call -> Codes \cup {"none"}]
      BY <2>1 DEF Settle, TypeOK, Codes
    <2>3. call' \in [Call -> {"new", "mutex", "authorizing", "waiting", "returned"}]
      BY <2>1 DEF Settle, TypeOK
    <2>4. queuedRows' \in Nat
      <3>1. queuedRows = Len(queue) + Len(writes)
        BY <1>9 DEF Settles, BatchFollowsFlush, QueueBounded
      <3> QED
        BY <2>1, <3>1 DEF Settle, ReleasedRows, TypeOK
    <2>5. /\ writes' = <<>> /\ audits' = <<>> /\ decided' = 0 /\ accepted' = <<>> /\ toAppend' = <<>>
          /\ flush' = "idle" /\ handled' = TRUE /\ owner' \in {"free", "self", "other"}
          /\ timer' \in BOOLEAN
          /\ UNCHANGED <<mutex, nextSeq, seq, queue, auditQueue, phase, trouble, data>>
      BY <1>9, <2>1 DEF Settle, Settles, Reschedule, TypeOK
    <2>6. ledger' \in Seq(Records) /\ dir' \in BOOLEAN /\ fenced' \in BOOLEAN
      BY <1>9 DEF Settles
    <2> QED
      BY <2>2, <2>3, <2>4, <2>5, <2>6 DEF TypeOK
  <1>10. CASE TimerFires \/ PassGate \/ GetsLock \/ AcquireThrows \/ KeepsLock
    <2>1. CASE TimerFires
      <3>1. timer' \in BOOLEAN /\ handled' \in BOOLEAN
        BY <2>1 DEF TimerFires
      <3>2. flush' = "gate" \/ flush' = flush
        BY <2>1 DEF TimerFires
      <3>3. UNCHANGED <<calls, mutex, queues, batch, disk, around>>
        BY <2>1 DEF TimerFires
      <3> QED
        BY <3>1, <3>2, <3>3 DEF TypeOK
    <2>2. CASE PassGate
      <3>1. mutex' \in Seq(Call \cup {FLUSH})
        BY <1>0, <2>2, AppendElements DEF PassGate
      <3> QED
        BY <2>2, <3>1 DEF PassGate, TypeOK
    <2>3. CASE GetsLock \/ KeepsLock
      <3>1. flush' \in {"locked", "append", "authorize"} /\ owner' \in {"free", "self", "other"}
        BY <2>3 DEF GetsLock, KeepsLock, TypeOK
      <3>2. UNCHANGED <<calls, mutex, queues, timer, handled, batch, disk, fenced, phase, trouble>>
        BY <2>3 DEF GetsLock, KeepsLock
      <3> QED
        BY <3>1, <3>2 DEF TypeOK
    <2>4. CASE AcquireThrows
      BY <2>4 DEF AcquireThrows, Reschedule, TypeOK
    <2> QED
      BY <1>10, <2>1, <2>2, <2>3, <2>4
  <1>11. CASE StartDrain \/ DrainFlush \/ FinishDrain \/ OtherOwner \/ DeleteNamespace
    <2>1. CASE StartDrain \/ FinishDrain
      <3>1. timer' \in BOOLEAN /\ phase' \in {"draining", "drained"}
        BY <2>1 DEF StartDrain, FinishDrain, TypeOK
      <3>2. UNCHANGED <<calls, mutex, queues, handled, flush, batch, disk, owner, fenced, trouble>>
        BY <2>1 DEF StartDrain, FinishDrain
      <3> QED
        BY <3>1, <3>2 DEF TypeOK
    <2>2. CASE DrainFlush
      BY <2>2 DEF DrainFlush, TypeOK
    <2>3. CASE OtherOwner
      BY <2>3 DEF OtherOwner, TypeOK
    <2>4. CASE DeleteNamespace
      <3>1. data' \in Seq(Row) /\ ledger' \in Seq(Records) /\ dir' \in BOOLEAN
        <4>1. data' = <<>> /\ ledger' = <<>> /\ dir' = FALSE
          BY <2>4 DEF DeleteNamespace
        <4>2. <<>> \in Seq(Row) /\ <<>> \in Seq(Records)
          OBVIOUS
        <4> QED
          BY <4>1, <4>2
      <3>2. UNCHANGED <<calls, mutex, queues, timer, handled, flush, batch, around>>
        BY <2>4 DEF DeleteNamespace
      <3> QED
        BY <3>1, <3>2 DEF TypeOK
    <2> QED
      BY <1>11, <2>1, <2>2, <2>3, <2>4
  <1> QED
    BY <1>1, <1>2, <1>3, <1>4, <1>5, <1>6, <1>7, <1>8, <1>9, <1>10, <1>11 DEF Step

\* The batch is taken, decided and cleared with the steps of the flush.
LEMMA BatchStep ==
  ASSUME TypeOK, MutexInOrder, BatchFollowsFlush, InSeqOrder, Step
  PROVE  BatchFollowsFlush'
  <1> USE DEF BatchFollowsFlush, calls, queues, batch, disk, around
  <1>1. ASSUME NEW c \in Call,
               Submit(c) \/ EnqueueAudit(c) \/ EnterMutex(c) \/ Deny(c) \/ Grant(c)
        PROVE  BatchFollowsFlush'
    BY <1>1 DEF Submit, EnqueueAudit, EnterMutex, Deny, Grant
  <1>2. CASE TimerFires \/ PassGate
    BY <1>2 DEF TimerFires, PassGate, Running
  <1>3. CASE TakeBatch
    <2>1. flush = "mutex"
      <3>1. 1 \in DOMAIN mutex /\ mutex[1] = FLUSH
        BY <1>3 DEF TakeBatch, HoldsMutex, TypeOK
      <3> QED
        BY <3>1 DEF MutexInOrder
    <2>2. queue = <<>> => writes' = <<>>
      <3>1. writes' \in Seq(Row) /\ Len(writes') = Len(queue)
        BY <1>3, SortedRows DEF TakeBatch, InSeqOrder, TypeOK
      <3> QED
        BY <3>1
    <2> QED
      BY <1>3, <2>1, <2>2 DEF TakeBatch, Running
  <1>4. CASE GetsLock \/ AcquireThrows \/ KeepsLock
    <2>1. CASE GetsLock \/ AcquireThrows
      BY <2>1 DEF GetsLock, AcquireThrows, Running
    <2>2. CASE KeepsLock
      <3>1. writes # <<>> => Len(writes) > 0
        BY DEF TypeOK
      <3> QED
        BY <2>2, <3>1 DEF KeepsLock
    <2> QED
      BY <1>4, <2>1, <2>2
  <1>5. CASE Reauthorize
    BY <1>5 DEF Reauthorize, TypeOK
  <1>6. CASE WritesRow \/ AppendLedger
    BY <1>6 DEF WritesRow, AppendLedger
  <1>7. CASE Settles
    BY <1>7 DEF Settles, Settle
  <1>8. CASE StartDrain \/ DrainFlush \/ FinishDrain
    BY <1>8 DEF StartDrain, DrainFlush, FinishDrain, Running
  <1>9. CASE OtherOwner \/ DeleteNamespace
    BY <1>9 DEF OtherOwner, DeleteNamespace
  <1> QED
    BY <1>1, <1>2, <1>3, <1>4, <1>5, <1>6, <1>7, <1>8, <1>9 DEF Step

\* No other call is admitted between the check of a batch of several rows and
\* its enqueueing.
LEMMA BoundedStep ==
  ASSUME TypeOK, MutexInOrder, BatchFollowsFlush, QueueBounded, InSeqOrder, Step
  PROVE  QueueBounded'
  <1> USE DEF calls, queues, batch, disk, around
  <1>0. /\ MaxPendingRows \in Nat /\ queuedRows \in Nat /\ Len(queue) \in Nat /\ Len(writes) \in Nat
        /\ \A c \in Call : Len(RowsOf[c]) \in Nat /\ RowsOf[c] \in Seq(Row)
    BY CallFacts DEF TypeOK
  <1>1. ASSUME NEW c \in Call, Submit(c) \/ EnqueueAudit(c) \/ Deny(c) PROVE QueueBounded'
    <2>1. UNCHANGED <<queuedRows, queue, writes, phase>>
      BY <1>1 DEF Submit, EnqueueAudit, Deny
    <2>2. \A d \in Call : call'[d] = "authorizing" => call[d] = "authorizing"
      BY <1>1 DEF Submit, EnqueueAudit, Deny, Resolve, TypeOK
    <2> QED
      BY <2>1, <2>2 DEF QueueBounded, Full
  <1>2. ASSUME NEW c \in Call, EnterMutex(c) PROVE QueueBounded'
    <2>1. UNCHANGED <<queuedRows, queue, writes, phase>>
      BY <1>2 DEF EnterMutex
    <2>2. \A d \in Call : call'[d] = "authorizing" =>
            call[d] = "authorizing" \/ ~(Len(RowsOf[d]) > 1 /\ Full(d))
      BY <1>2 DEF EnterMutex, Resolve, TypeOK
    <2> QED
      BY <1>0, <2>1, <2>2 DEF QueueBounded, Full
  <1>3. ASSUME NEW c \in Call, Grant(c) PROVE QueueBounded'
    <2>1. \A d \in Call : call'[d] # "authorizing"
      BY <1>3 DEF Grant, Resolve, MutexInOrder, HoldsMutex, TypeOK
    <2>2. CASE Len(RowsOf[c]) = 1 /\ Full(c)
      <3>1. UNCHANGED <<queuedRows, queue, writes, phase>>
        BY <1>3, <2>2 DEF Grant
      <3> QED
        BY <2>1, <3>1 DEF QueueBounded
    <2>3. CASE ~(Len(RowsOf[c]) = 1 /\ Full(c))
      <3>1. /\ queuedRows' = queuedRows + Len(RowsOf[c])
            /\ queue' = queue \o RowsOf[c]
            /\ UNCHANGED <<writes, phase>>
        BY <1>3, <2>3 DEF Grant
      <3>2. Len(queue') = Len(queue) + Len(RowsOf[c])
        BY <1>0, <3>1, ConcatElements DEF TypeOK
      <3>3. queuedRows + Len(RowsOf[c]) <= MaxPendingRows
        <4>1. ~Full(c)
          <5> DEFINE n == Len(RowsOf[c])
          <5>1. n \in Nat /\ n # 0
            BY <1>0, <1>3, CallFacts DEF Grant, MutexInOrder, IsAudit
          <5>2. n > 1 => ~Full(c)
            BY <1>3 DEF Grant, QueueBounded
          <5>3. n = 1 => ~Full(c)
            BY <2>3
          <5> HIDE DEF n
          <5>4. n = 1 \/ n > 1
            BY <5>1
          <5> QED
            BY <5>2, <5>3, <5>4
        <4> QED
          BY <1>0, <4>1 DEF Full
      <3> QED
        <4>1. phase' \in {"up", "draining", "drained"} => queuedRows' = Len(queue') + Len(writes')
          <5> SUFFICES ASSUME phase' \in {"up", "draining", "drained"}
                       PROVE  queuedRows' = Len(queue') + Len(writes')
            OBVIOUS
          <5>1. queuedRows = Len(queue) + Len(writes)
            BY <3>1 DEF QueueBounded
          <5>2. Len(queue') = Len(queue) + Len(RowsOf[c]) /\ Len(writes') = Len(writes)
                /\ queuedRows' = queuedRows + Len(RowsOf[c])
            BY <3>1, <3>2
          <5>3. Len(RowsOf[c]) \in Nat /\ Len(queue) \in Nat /\ Len(writes) \in Nat
            BY <1>0
          <5>4. \A k, m, n \in Nat : k + m + n = k + n + m
            OBVIOUS
          <5>5. queuedRows' = (Len(queue) + Len(writes)) + Len(RowsOf[c])
            BY <5>1, <5>2
          <5>6. Len(queue') + Len(writes') = (Len(queue) + Len(RowsOf[c])) + Len(writes)
            BY <5>2
          <5> QED
            BY <5>3, <5>4, <5>5, <5>6
        <4>2. queuedRows' <= MaxPendingRows
          BY <3>1, <3>3
        <4> QED
          BY <2>1, <4>1, <4>2 DEF QueueBounded
    <2> QED
      BY <2>2, <2>3
  <1>4. CASE TakeBatch
    <2>1. flush = "mutex"
      <3>1. 1 \in DOMAIN mutex /\ mutex[1] = FLUSH
        BY <1>4 DEF TakeBatch, HoldsMutex, TypeOK
      <3> QED
        BY <3>1 DEF MutexInOrder
    <2>2. /\ UNCHANGED <<queuedRows, phase, call>> /\ queue' = <<>>
          /\ Len(writes') = Len(queue) /\ Len(writes) = 0
      BY <1>4, <2>1, SortedRows DEF TakeBatch, BatchFollowsFlush, InSeqOrder, TypeOK
    <2> QED
      BY <1>0, <2>2 DEF QueueBounded, Full
  <1>5. CASE AcquireThrows
    <2>1. UNCHANGED <<queuedRows, call>> /\ phase' \notin {"up", "draining", "drained"}
      BY <1>5 DEF AcquireThrows
    <2> QED
      BY <2>1 DEF QueueBounded, Full
  <1>6. CASE Settles
    <2>1. queuedRows' = queuedRows - Len(writes) /\ writes' = <<>> /\ UNCHANGED <<queue, phase>>
      BY <1>6 DEF Settles, Settle, ReleasedRows
    <2>2. queuedRows = Len(queue) + Len(writes)
      BY <1>6 DEF Settles, BatchFollowsFlush, QueueBounded
    <2>3. \A d \in Call : call'[d] = "authorizing" => call[d] = "authorizing"
      BY <1>6 DEF Settles, Settle
    <2>4. \A d \in Call : call[d] = "authorizing" /\ Len(RowsOf[d]) > 1 =>
            ~(queuedRows + Len(RowsOf[d]) > MaxPendingRows)
      BY DEF QueueBounded, Full
    <2>5. queuedRows <= MaxPendingRows
      BY DEF QueueBounded
    <2>6. queuedRows' = Len(queue) /\ queuedRows' <= queuedRows
      BY <1>0, <2>1, <2>2
    <2> QED
      BY <1>0, <2>1, <2>3, <2>4, <2>5, <2>6 DEF QueueBounded, Full
  <1>7. CASE TimerFires \/ PassGate \/ GetsLock \/ KeepsLock \/ Reauthorize \/ WritesRow
             \/ AppendLedger \/ StartDrain \/ DrainFlush \/ FinishDrain \/ OtherOwner
             \/ DeleteNamespace
    <2>1. UNCHANGED <<queuedRows, queue, writes, call>>
      BY <1>7 DEF TimerFires, PassGate, GetsLock, KeepsLock, Reauthorize, WritesRow,
                  AppendLedger, StartDrain, DrainFlush, FinishDrain, OtherOwner,
                  DeleteNamespace
    <2>2. phase' \in {"up", "draining", "drained"} => phase \in {"up", "draining", "drained"}
      BY <1>7 DEF TimerFires, PassGate, GetsLock, KeepsLock, Reauthorize, WritesRow,
                  AppendLedger, StartDrain, DrainFlush, FinishDrain, OtherOwner,
                  DeleteNamespace
    <2> QED
      BY <2>1, <2>2 DEF QueueBounded, Full
  <1> QED
    BY <1>1, <1>2, <1>3, <1>4, <1>5, <1>6, <1>7 DEF Step

\* The granted rows get the next sequence numbers, in the order of the call.
LEMMA GrantedSeq ==
  ASSUME TypeOK, NEW c \in Call, Grant(c), ~(Len(RowsOf[c]) = 1 /\ Full(c))
  PROVE  /\ \A r \in RowSet(c) :
              seq'[r] \in Nat /\ seq'[r] > 0 /\ nextSeq < seq'[r] /\ seq'[r] <= nextSeq'
         /\ \A r \in Row \ RowSet(c) : seq'[r] = seq[r]
         /\ Ascending(seq', RowsOf[c])
         /\ nextSeq \in Nat /\ nextSeq' \in Nat /\ nextSeq <= nextSeq'
  <1> DEFINE rows == RowsOf[c]
             position(r) == CHOOSE i \in DOMAIN rows : rows[i] = r
  <1>1. rows \in Seq(Row) /\ Len(rows) \in Nat /\ DOMAIN rows = 1..Len(rows)
    BY CallFacts
  <1>2. nextSeq \in Nat /\ nextSeq' = nextSeq + Len(rows)
    BY DEF TypeOK, Grant
  <1>3. \A r \in Row : seq'[r] = IF r \in RowSet(c) THEN nextSeq + position(r) ELSE seq[r]
    BY DEF Grant
  <1>4. \A r \in RowSet(c) : position(r) \in 1..Len(rows)
    <2>1. \A r \in RowSet(c) : \E i \in DOMAIN rows : rows[i] = r
      BY DEF RowSet, ToSet
    <2> QED
      BY <1>1, <2>1
  <1>5. \A i \in DOMAIN rows : rows[i] \in RowSet(c) /\ rows[i] \in Row /\ position(rows[i]) = i
    <2>1. \A i, j \in DOMAIN rows : rows[i] = rows[j] => i = j
      BY CallsAssumption DEF IsInjective
    <2>2. \A i \in DOMAIN rows : rows[i] \in RowSet(c) /\ rows[i] \in Row
      BY <1>1 DEF RowSet, ToSet
    <2> QED
      BY <2>1, <2>2
  <1> HIDE DEF position
  <1>6. \A r \in RowSet(c) :
          seq'[r] \in Nat /\ seq'[r] > 0 /\ nextSeq < seq'[r] /\ seq'[r] <= nextSeq'
    BY <1>1, <1>2, <1>3, <1>4, CallFacts
  <1>7. Ascending(seq', rows)
    BY <1>1, <1>2, <1>3, <1>5 DEF Ascending
  <1>8. \A r \in Row \ RowSet(c) : seq'[r] = seq[r]
    BY <1>3
  <1>9. nextSeq' \in Nat /\ nextSeq <= nextSeq'
    BY <1>1, <1>2
  <1> QED
    BY <1>2, <1>6, <1>7, <1>8, <1>9

\* A call that is not enqueued goes on to the next waiter or is refused.
LEMMA GoesOn ==
  ASSUME TypeOK, UnansweredIsPending, Running, NEW c \in Call,
         call[c] \in {"new", "mutex", "authorizing"},
         NEW next \in {"mutex", "authorizing", "returned"},
         call' = [call EXCEPT ![c] = next],
         IF next = "returned" THEN \A r \in Row \ RowSet(c) : result'[r] = result[r]
                              ELSE result' = result,
         UNCHANGED <<seq, queue, auditQueue, writes, audits, phase>>
  PROVE  UnansweredIsPending'
  <1>1. call'[c] = next /\ \A d \in Call \ {c} : call'[d] = call[d]
    BY DEF TypeOK
  <1>2. Pending' = Pending /\ Auditing' = Auditing /\ Pending \subseteq Row
    BY DEF Pending, Auditing, TypeOK, ToSet
  <1>3. c \notin Auditing /\ \A r \in RowSet(c) : seq[r] = 0 /\ result[r] = "none"
    BY DEF UnansweredIsPending
  <1>4. \A r \in RowSet(c) : r \notin Pending
    BY <1>3 DEF UnansweredIsPending
  <1>5. \A d \in Call \ {c} : \A r \in RowSet(d) : result'[r] = result[r]
    BY CallFacts
  <1>6. \A r \in Pending : result'[r] = result[r]
    BY <1>2, <1>4
  <1>7. ASSUME NEW d \in Call
        PROVE  /\ call'[d] \in {"new", "mutex", "authorizing"} \/ d \in Auditing =>
                    \A r \in RowSet(d) : seq[r] = 0 /\ result'[r] = "none"
               /\ d \in Auditing => call'[d] = "waiting"
               /\ call'[d] = "waiting" => d # c /\ call[d] = "waiting"
    <2>1. CASE d = c
      BY <1>1, <1>3, <2>1
    <2>2. CASE d # c
      BY <1>1, <1>5, <2>2 DEF UnansweredIsPending
    <2> QED
      BY <2>1, <2>2
  <1>8. phase # "drained"
    BY DEF Running
  <1> QED
    BY <1>2, <1>6, <1>7, <1>8 DEF UnansweredIsPending, RowSet

\* Every row and every entry that a client waits for is queued or in the batch,
\* until it is answered or the flush throws.
LEMMA UnansweredStep ==
  ASSUME TypeOK, MutexInOrder, BatchFollowsFlush, UnansweredIsPending, InSeqOrder, Step
  PROVE  UnansweredIsPending'
  <1> USE DEF calls, queues, batch, disk, around
  <1>0. /\ queue \in Seq(Row) /\ writes \in Seq(Row) /\ auditQueue \in Seq(Call)
        /\ audits \in Seq(Call) /\ Pending \subseteq Row /\ Auditing \subseteq Call
        /\ DOMAIN call = Call /\ DOMAIN seq = Row /\ DOMAIN result = Row \cup Call
    BY DEF TypeOK, Pending, Auditing, ToSet
  <1>1. ASSUME NEW c \in Call, Submit(c) PROVE UnansweredIsPending'
    <2>1. /\ Running /\ call[c] = "new"
          /\ UNCHANGED <<seq, queue, auditQueue, writes, audits, phase>>
      BY <1>1 DEF Submit
    <2>2. CASE phase = "draining"
      <3>1. call' = [call EXCEPT ![c] = "returned"]
            /\ \A r \in Row \ RowSet(c) : result'[r] = result[r]
        BY <1>1, <2>2, CallFacts DEF Submit, Resolve
      <3> QED
        BY <2>1, <3>1, GoesOn
    <2>3. CASE phase # "draining"
      <3>1. call' = [call EXCEPT ![c] = "mutex"] /\ result' = result
        BY <1>1, <2>3 DEF Submit
      <3> QED
        BY <2>1, <3>1, GoesOn
    <2> QED
      BY <2>2, <2>3
  <1>2. ASSUME NEW c \in Call, EnterMutex(c) PROVE UnansweredIsPending'
    <2>1. /\ Running /\ call[c] = "mutex"
          /\ UNCHANGED <<seq, queue, auditQueue, writes, audits, phase>>
      BY <1>2 DEF EnterMutex
    <2>2. CASE call' = [call EXCEPT ![c] = "returned"]
      <3>1. \A r \in Row \ RowSet(c) : result'[r] = result[r]
        BY <1>2, CallFacts DEF EnterMutex, Resolve
      <3> QED
        BY <2>1, <2>2, <3>1, GoesOn
    <2>3. CASE call' = [call EXCEPT ![c] = "authorizing"] /\ result' = result
      BY <2>1, <2>3, GoesOn
    <2> QED
      BY <1>2, <2>2, <2>3 DEF EnterMutex, Resolve
  <1>3. ASSUME NEW c \in Call, EnqueueAudit(c) \/ Deny(c) PROVE UnansweredIsPending'
    <2>1. /\ call[c] \in {"mutex", "authorizing"} /\ Running
          /\ call' = [call EXCEPT ![c] = "waiting"] /\ auditQueue' = Append(auditQueue, c)
          /\ UNCHANGED <<result, seq, queue, writes, audits, phase>>
      <3>1. call[c] \in {"mutex", "authorizing"}
        <4>1. CASE Deny(c)
          BY <4>1 DEF Deny
        <4>2. CASE EnqueueAudit(c)
          <5>1. 1 \in DOMAIN mutex /\ mutex[1] = c
            BY <4>2 DEF EnqueueAudit, HoldsMutex, TypeOK
          <5> QED
            BY <5>1, CallFacts DEF MutexInOrder
        <4> QED
          BY <1>3, <4>1, <4>2
      <3> QED
        BY <1>3, <3>1 DEF EnqueueAudit, Deny
    <2>2. Pending' = Pending /\ Auditing' = Auditing \cup {c}
          /\ ToSet(auditQueue') = ToSet(auditQueue) \cup {c}
      BY <1>0, <2>1, AppendElements DEF Pending, Auditing
    <2>3. c \notin Auditing
      BY <2>1 DEF UnansweredIsPending
    <2>4. call'[c] = "waiting" /\ \A d \in Call \ {c} : call'[d] = call[d]
      BY <1>0, <2>1
    <2>5. phase' # "drained"
      BY <2>1 DEF Running
    <2>6. ToSet(auditQueue') \cap ToSet(audits') = {}
      BY <2>1, <2>2, <2>3 DEF UnansweredIsPending, Auditing
    <2>7. ASSUME NEW d \in Call
          PROVE  /\ call'[d] \in {"new", "mutex", "authorizing"} \/ d \in Auditing' =>
                      \A r \in RowSet(d) : seq[r] = 0 /\ result[r] = "none"
                 /\ d \in Auditing' => call'[d] = "waiting"
                 /\ call'[d] = "waiting" /\ phase \in {"up", "draining", "drained"} =>
                      d \in Auditing' \/ RowSet(d) \cap Pending # {}
      <3>1. CASE d = c
        BY <2>1, <2>2, <2>4, <3>1 DEF UnansweredIsPending
      <3>2. CASE d # c
        BY <2>2, <2>4, <3>2 DEF UnansweredIsPending
      <3> QED
        BY <3>1, <3>2
    <2> QED
      BY <2>1, <2>2, <2>5, <2>6, <2>7 DEF UnansweredIsPending, RowSet
  <1>4. ASSUME NEW c \in Call, Grant(c) PROVE UnansweredIsPending'
    <2>1. Running /\ call[c] = "authorizing" /\ ~IsAudit(c)
          /\ UNCHANGED <<writes, audits, phase>>
      BY <1>4 DEF Grant, MutexInOrder
    <2>2. CASE Len(RowsOf[c]) = 1 /\ Full(c)
      <3>1. call' = [call EXCEPT ![c] = "returned"] /\ UNCHANGED <<seq, queue, auditQueue>>
            /\ \A r \in Row \ RowSet(c) : result'[r] = result[r]
        BY <1>4, <2>2, CallFacts DEF Grant, Resolve
      <3> QED
        BY <2>1, <3>1, GoesOn
    <2>3. CASE ~(Len(RowsOf[c]) = 1 /\ Full(c))
      <3>1. /\ call' = [call EXCEPT ![c] = "waiting"] /\ UNCHANGED <<result, auditQueue>>
            /\ queue' = queue \o RowsOf[c]
        BY <1>4, <2>3 DEF Grant
      <3>2. /\ \A r \in RowSet(c) : seq'[r] > 0
            /\ \A r \in Row \ RowSet(c) : seq'[r] = seq[r]
        BY <1>4, <2>3, GrantedSeq
      <3>3. Pending' = Pending \cup RowSet(c) /\ Auditing' = Auditing
        BY <1>0, <2>1, <3>1, ConcatElements, CallFacts DEF Pending, Auditing, RowSet
      <3>4. c \notin Auditing /\ \A r \in RowSet(c) : seq[r] = 0 /\ result[r] = "none"
        BY <2>1 DEF UnansweredIsPending
      <3>5. \A r \in RowSet(c) : r \notin Pending
        BY <3>4 DEF UnansweredIsPending
      <3>6. \A d \in Call \ {c} : \A r \in RowSet(d) : seq'[r] = seq[r]
        BY <3>2, CallFacts
      <3>7. call'[c] = "waiting" /\ \A d \in Call \ {c} : call'[d] = call[d]
        BY <1>0, <3>1
      <3>8. ASSUME NEW d \in Call
            PROVE  /\ call'[d] \in {"new", "mutex", "authorizing"} \/ d \in Auditing =>
                        \A r \in RowSet(d) : seq'[r] = 0 /\ result[r] = "none"
                   /\ d \in Auditing => call'[d] = "waiting"
                   /\ call'[d] = "waiting" /\ phase \in {"up", "draining", "drained"} =>
                        d \in Auditing \/ RowSet(d) \cap Pending' # {}
        <4>1. CASE d = c
          BY <3>3, <3>4, <3>7, <2>1, <4>1, CallFacts
        <4>2. CASE d # c
          BY <3>3, <3>6, <3>7, <4>2 DEF UnansweredIsPending
        <4> QED
          BY <4>1, <4>2
      <3>9. \A r \in Pending' : seq'[r] > 0 /\ result[r] = "none"
        <4>1. \A r \in Pending : seq'[r] = seq[r]
          BY <1>0, <3>2, <3>5
        <4> QED
          BY <3>2, <3>3, <3>4, <4>1 DEF UnansweredIsPending
      <3>10. phase' # "drained" /\ ToSet(auditQueue') \cap ToSet(audits') = {}
        BY <2>1, <3>1 DEF Running, UnansweredIsPending
      <3> QED
        BY <2>1, <3>1, <3>3, <3>8, <3>9, <3>10 DEF UnansweredIsPending, RowSet
    <2> QED
      BY <2>2, <2>3
  <1>5. CASE TakeBatch
    <2>1. flush = "mutex"
      <3>1. 1 \in DOMAIN mutex /\ mutex[1] = FLUSH
        BY <1>5 DEF TakeBatch, HoldsMutex, TypeOK
      <3> QED
        BY <3>1 DEF MutexInOrder
    <2>2. ToSet(writes) = {} /\ ToSet(audits) = {}
      BY <2>1 DEF BatchFollowsFlush, ToSet
    <2>3. /\ ToSet(writes') = ToSet(queue) /\ ToSet(queue') = {}
          /\ ToSet(audits') = ToSet(auditQueue) /\ ToSet(auditQueue') = {}
      <3>1. /\ writes' = Sorted(queue) /\ queue' = <<>>
            /\ audits' = auditQueue /\ auditQueue' = <<>>
        BY <1>5 DEF TakeBatch
      <3>2. ToSet(<<>>) = {}
        BY DEF ToSet
      <3>3. ToSet(Sorted(queue)) = ToSet(queue)
        BY <1>0, SortedRows DEF InSeqOrder
      <3> QED
        BY <3>1, <3>2, <3>3
    <2>4. UNCHANGED <<call, result, seq, phase>> /\ phase # "drained"
      BY <1>5 DEF TakeBatch, Running
    <2>5. Pending' = Pending /\ Auditing' = Auditing
      BY <2>2, <2>3 DEF Pending, Auditing
    <2> QED
      BY <2>3, <2>4, <2>5 DEF UnansweredIsPending, RowSet
  <1>6. CASE AcquireThrows
    <2>1. /\ phase' \notin {"up", "draining", "drained"}
          /\ UNCHANGED <<call, result, seq, queue, auditQueue>>
          /\ writes' = <<>> /\ audits' = <<>>
      BY <1>6 DEF AcquireThrows
    <2>2. ToSet(writes') = {} /\ ToSet(audits') = {}
      BY <2>1 DEF ToSet
    <2>3. Pending' \subseteq Pending /\ Auditing' \subseteq Auditing
      BY <2>1, <2>2 DEF Pending, Auditing
    <2> QED
      BY <2>1, <2>2, <2>3 DEF UnansweredIsPending, RowSet
  <1>7. CASE Settles
    <2>1. PICK code : Settle(code)
      BY <1>7 DEF Settles
    <2>2. /\ UNCHANGED <<seq, queue, auditQueue, phase>> /\ writes' = <<>> /\ audits' = <<>>
          /\ phase # "drained"
      BY <1>7, <2>1 DEF Settles, Settle, BatchFollowsFlush
    <2>3. ToSet(writes') = {} /\ ToSet(audits') = {}
      BY <2>2 DEF ToSet
    <2>4. Pending' = ToSet(queue) /\ Auditing' = ToSet(auditQueue)
      BY <2>2, <2>3 DEF Pending, Auditing
    <2>5. \A c \in Call : call'[c] =
            IF c \in ToSet(audits) \/ RowSet(c) \cap ToSet(writes) # {} THEN "returned" ELSE call[c]
      BY <2>1, Settled
    <2>6. \A c \in Call \ ToSet(audits) : RowSet(c) \cap ToSet(writes) = {} =>
            \A r \in RowSet(c) : result'[r] = result[r]
      BY <1>0, <2>1, Settled, CallFacts DEF Auditing
    <2>7. \A c \in ToSet(auditQueue) : c \notin ToSet(audits) /\ RowSet(c) \cap ToSet(writes) = {}
      BY <1>0 DEF UnansweredIsPending, Auditing, Pending
    <2>8. ASSUME NEW r \in ToSet(queue) PROVE result'[r] = result[r]
      <3>1. r \notin ToSet(writes)
        BY <1>0 DEF InSeqOrder, Before, TypeOK, Pending
      <3>2. \A c \in ToSet(audits) : r \notin RowSet(c)
        BY <1>0 DEF UnansweredIsPending, Auditing, Pending
      <3> QED
        BY <1>0, <2>1, <3>1, <3>2, Settled DEF Pending
    <2>9. ASSUME NEW d \in Call
          PROVE  /\ call'[d] \in {"new", "mutex", "authorizing"} \/ d \in ToSet(auditQueue) =>
                      \A r \in RowSet(d) : seq[r] = 0 /\ result'[r] = "none"
                 /\ d \in ToSet(auditQueue) => call'[d] = "waiting"
                 /\ call'[d] = "waiting" /\ phase \in {"up", "draining", "drained"} =>
                      d \in ToSet(auditQueue) \/ RowSet(d) \cap ToSet(queue) # {}
      <3>1. CASE d \in ToSet(audits) \/ RowSet(d) \cap ToSet(writes) # {}
        BY <2>5, <2>7, <3>1
      <3>2. CASE ~(d \in ToSet(audits) \/ RowSet(d) \cap ToSet(writes) # {})
        <4>1. call'[d] = call[d] /\ \A r \in RowSet(d) : result'[r] = result[r]
          BY <2>5, <2>6, <3>2
        <4> QED
          BY <3>2, <4>1 DEF UnansweredIsPending, Auditing, Pending
      <3> QED
        BY <3>1, <3>2
    <2>10. \A r \in ToSet(queue) : seq[r] > 0 /\ result'[r] = "none"
      BY <2>8 DEF UnansweredIsPending, Pending
    <2> QED
      BY <2>2, <2>3, <2>4, <2>9, <2>10 DEF UnansweredIsPending, RowSet
  <1>8. CASE \/ TimerFires \/ PassGate \/ GetsLock \/ KeepsLock \/ Reauthorize \/ WritesRow
             \/ AppendLedger \/ StartDrain \/ DrainFlush \/ FinishDrain \/ OtherOwner
             \/ DeleteNamespace
    <2>1. UNCHANGED <<call, result, seq, queue, auditQueue, writes, audits>>
      BY <1>8 DEF TimerFires, PassGate, GetsLock, KeepsLock, Reauthorize, WritesRow,
                  AppendLedger, StartDrain, DrainFlush, FinishDrain, OtherOwner,
                  DeleteNamespace
    <2>2. phase' \in {"up", "draining", "drained"} => phase \in {"up", "draining", "drained"}
      BY <1>8 DEF TimerFires, PassGate, GetsLock, KeepsLock, Reauthorize, WritesRow,
                  AppendLedger, StartDrain, DrainFlush, FinishDrain, OtherOwner,
                  DeleteNamespace
    <2>3. phase' = "drained" => Registering = {} /\ queue = <<>> /\ auditQueue = <<>>
      BY <1>8 DEF TimerFires, PassGate, GetsLock, KeepsLock, Reauthorize, WritesRow,
                  AppendLedger, StartDrain, DrainFlush, FinishDrain, OtherOwner,
                  DeleteNamespace, UnansweredIsPending
    <2>4. Pending' = Pending /\ Auditing' = Auditing /\ Registering' = Registering
      BY <2>1 DEF Pending, Auditing, Registering
    <2> QED
      BY <2>1, <2>2, <2>3, <2>4 DEF UnansweredIsPending, RowSet
  <1> QED
    BY <1>1, <1>2, <1>3, <1>4, <1>5, <1>6, <1>7, <1>8 DEF Step

LEMMA SameRanks ==
  ASSUME NEW rank, NEW other, NEW rows,
         Ascending(rank, rows), \A r \in ToSet(rows) : other[r] = rank[r]
  PROVE  Ascending(other, rows)
  BY DEF Ascending, ToSet

\* The rows of the flush, all of them of its batch.
LEMMA BatchRows ==
  ASSUME TypeOK, AcceptedIsDecided
  PROVE  /\ queue \in Seq(Row) /\ writes \in Seq(Row) /\ data \in Seq(Row)
         /\ accepted \in Seq(Row) /\ toAppend \in Seq(Row)
         /\ ToSet(data) \subseteq Row /\ ToSet(writes) \subseteq Row /\ ToSet(queue) \subseteq Row
         /\ ToSet(toAppend) \subseteq ToSet(accepted) /\ ToSet(accepted) \subseteq ToSet(writes)
         /\ seq \in [Row -> Nat] /\ nextSeq \in Nat
         /\ DOMAIN writes = 1..Len(writes) /\ Len(writes) \in Nat /\ decided \in Nat
  <1>1. /\ queue \in Seq(Row) /\ writes \in Seq(Row) /\ data \in Seq(Row)
        /\ accepted \in Seq(Row) /\ toAppend \in Seq(Row)
        /\ seq \in [Row -> Nat] /\ nextSeq \in Nat /\ decided \in Nat
    BY DEF TypeOK
  <1>2. DOMAIN writes = 1..Len(writes) /\ Len(writes) \in Nat
    BY <1>1
  <1>3. ToSet(data) \subseteq Row /\ ToSet(writes) \subseteq Row /\ ToSet(queue) \subseteq Row
    BY <1>1 DEF ToSet
  <1>4. ToSet(accepted) \subseteq ToSet(writes)
    <2> SUFFICES ASSUME NEW r \in ToSet(accepted) PROVE r \in ToSet(writes)
      OBVIOUS
    <2>1. PICK i \in 1..decided : i <= Len(writes) /\ writes[i] = r
      BY DEF AcceptedIsDecided
    <2>2. i \in DOMAIN writes
      BY <1>1, <1>2, <2>1
    <2> QED
      BY <2>1, <2>2 DEF ToSet
  <1> QED
    BY <1>1, <1>2, <1>3, <1>4 DEF AcceptedIsDecided

\* File, batch and queue stay in the order of the sequence numbers.
LEMMA OrderStep ==
  ASSUME TypeOK, MutexInOrder, BatchFollowsFlush, UnansweredIsPending, InSeqOrder,
         AcceptedIsDecided, Step
  PROVE  InSeqOrder'
  <1> USE DEF calls, queues, batch, disk, around
  <1>0. ToSet(<<>>) = {} /\ \A rank : Ascending(rank, <<>>)
    BY DEF ToSet, Ascending
  <1>1. CASE \E c \in Call : Grant(c) /\ ~(Len(RowsOf[c]) = 1 /\ Full(c))
    <2>1. PICK c \in Call : Grant(c) /\ ~(Len(RowsOf[c]) = 1 /\ Full(c))
      BY <1>1
    <2>2. /\ queue' = queue \o RowsOf[c]
          /\ UNCHANGED <<data, writes, accepted, toAppend, flush>>
      BY <2>1 DEF Grant
    <2>3. /\ \A r \in RowSet(c) :
               seq'[r] \in Nat /\ seq'[r] > 0 /\ nextSeq < seq'[r] /\ seq'[r] <= nextSeq'
          /\ \A r \in Row \ RowSet(c) : seq'[r] = seq[r]
          /\ Ascending(seq', RowsOf[c])
          /\ nextSeq \in Nat /\ nextSeq' \in Nat /\ nextSeq <= nextSeq'
      BY <2>1, GrantedSeq
    <2>4. \A r \in RowSet(c) : seq[r] = 0
      BY <2>1 DEF Grant, UnansweredIsPending
    <2>5. ASSUME NEW r \in ToSet(data) \cup ToSet(writes) \cup ToSet(queue)
          PROVE  r \in Row /\ seq[r] \in Nat /\ seq[r] <= nextSeq /\ seq'[r] = seq[r]
      <3>1. r \in Row /\ seq[r] > 0
        BY BatchRows DEF InSeqOrder, UnansweredIsPending, Pending
      <3> QED
        BY <2>3, <2>4, <3>1, BatchRows DEF InSeqOrder
    <2>6. /\ RowsOf[c] \in Seq(Row)
          /\ Before(seq', ToSet(data) \cup ToSet(writes) \cup ToSet(queue), RowSet(c))
      <3>1. \A r \in ToSet(data) \cup ToSet(writes) \cup ToSet(queue), s \in RowSet(c) :
              seq'[r] < seq'[s]
        BY <2>3, <2>5
      <3> QED
        BY <3>1, CallFacts DEF Before
    <2>7. Ascending(seq', queue')
      <3>1. Ascending(seq', queue)
        BY <2>5, SameRanks DEF InSeqOrder
      <3>2. Before(seq', ToSet(queue), ToSet(RowsOf[c]))
        BY <2>6 DEF Before, RowSet
      <3> QED
        BY <2>2, <2>3, <2>6, <3>1, <3>2, AscendingConcat, BatchRows
    <2>8. /\ Ascending(seq', data) /\ Ascending(seq', writes)
          /\ Ascending(seq', accepted) /\ Ascending(seq', toAppend)
      <3>1. Ascending(seq', data) /\ Ascending(seq', writes)
        BY <2>5, SameRanks DEF InSeqOrder
      <3>2. \A r \in ToSet(accepted) \cup ToSet(toAppend) : seq'[r] = seq[r]
        BY <2>5, BatchRows
      <3>3. Ascending(seq', accepted) /\ Ascending(seq', toAppend)
        BY <3>2, SameRanks DEF InSeqOrder
      <3> QED
        BY <3>1, <3>3
    <2>9. ToSet(queue') = ToSet(queue) \cup RowSet(c)
      BY <2>2, <2>6, ConcatElements, BatchRows DEF RowSet
    <2>10. Before(seq', ToSet(data) \cup ToSet(writes), ToSet(queue'))
      BY <2>5, <2>6, <2>9 DEF InSeqOrder, Before
    <2>11. /\ Before(seq', ToSet(data), ToSet(toAppend))
           /\ flush \in {"lock", "locked", "authorize"} => Before(seq', ToSet(data), ToSet(writes))
      BY <2>5, BatchRows DEF InSeqOrder, Before
    <2>12. \A r \in Row : seq'[r] <= nextSeq'
      <3> SUFFICES ASSUME NEW r \in Row PROVE seq'[r] <= nextSeq'
        OBVIOUS
      <3>1. CASE r \in RowSet(c)
        BY <2>3, <3>1
      <3>2. CASE r \notin RowSet(c)
        <4>1. seq'[r] = seq[r] /\ seq[r] \in Nat /\ seq[r] <= nextSeq
          BY <2>3, <3>2, BatchRows DEF InSeqOrder
        <4> QED
          BY <2>3, <4>1
      <3> QED
        BY <3>1, <3>2
    <2>13. \A r \in ToSet(data) : seq'[r] > 0
      BY <2>5 DEF InSeqOrder
    <2> QED
      BY <2>2, <2>7, <2>8, <2>10, <2>11, <2>12, <2>13 DEF InSeqOrder
  <1>2. CASE TakeBatch
    <2>1. /\ writes' = Sorted(queue) /\ queue' = <<>>
          /\ UNCHANGED <<nextSeq, seq, data, accepted, toAppend>>
      BY <1>2 DEF TakeBatch
    <2>2. ToSet(writes') = ToSet(queue) /\ Ascending(seq, writes') /\ ToSet(queue') = {}
      BY <1>0, <2>1, SortedRows, BatchRows DEF InSeqOrder
    <2>3. Before(seq, ToSet(data), ToSet(writes'))
      BY <2>2 DEF InSeqOrder, Before
    <2>4. Before(seq, ToSet(data) \cup ToSet(writes'), {})
      BY DEF Before
    <2> QED
      BY <1>0, <2>1, <2>2, <2>3, <2>4 DEF InSeqOrder
  <1>3. CASE AcquireThrows \/ Settles
    <2>1. /\ writes' = <<>> /\ accepted' = <<>> /\ toAppend' = <<>> /\ flush' = "idle"
          /\ UNCHANGED <<nextSeq, seq, data, queue>>
      BY <1>3 DEF AcquireThrows, Settles, Settle, BatchFollowsFlush
    <2>2. Before(seq, ToSet(data), {}) /\ Before(seq, ToSet(data) \cup {}, ToSet(queue))
      BY DEF InSeqOrder, Before
    <2> QED
      BY <1>0, <2>1, <2>2 DEF InSeqOrder
  <1>4. CASE Reauthorize
    <2> DEFINE row == writes[decided + 1]
    <2>1. /\ flush = "authorize" /\ toAppend' = accepted'
          /\ accepted' = accepted \/ accepted' = Append(accepted, row)
          /\ UNCHANGED <<nextSeq, seq, data, queue, writes>>
      BY <1>4 DEF Reauthorize
    <2>2. decided + 1 \in DOMAIN writes /\ row \in Row /\ row \in ToSet(writes)
      <3>1. decided < Len(writes)
        BY <2>1 DEF BatchFollowsFlush
      <3>2. decided + 1 \in DOMAIN writes
        BY <3>1, BatchRows
      <3> QED
        BY <3>2, BatchRows DEF ToSet
    <2>3. Before(seq, ToSet(accepted), {row})
      <3> SUFFICES ASSUME NEW r \in ToSet(accepted) PROVE seq[r] < seq[row]
        BY DEF Before
      <3>1. PICK i \in 1..decided : i <= Len(writes) /\ writes[i] = r
        BY DEF AcceptedIsDecided
      <3>2. i \in DOMAIN writes /\ i < decided + 1
        BY <3>1, BatchRows
      <3> QED
        BY <2>2, <3>1, <3>2 DEF InSeqOrder, Ascending
    <2>4. Ascending(seq, accepted') /\ ToSet(accepted') \subseteq ToSet(writes)
      <3>1. CASE accepted' = accepted
        BY <3>1, BatchRows DEF InSeqOrder
      <3>2. CASE accepted' = Append(accepted, row)
        <4>1. Ascending(seq, Append(accepted, row))
          BY <2>2, <2>3, AscendingAppend, BatchRows DEF InSeqOrder
        <4>2. ToSet(Append(accepted, row)) = ToSet(accepted) \cup {row}
          BY <2>2, AppendElements, BatchRows
        <4> QED
          BY <2>2, <3>2, <4>1, <4>2, BatchRows
      <3> QED
        BY <2>1, <3>1, <3>2
    <2>5. Before(seq, ToSet(data), ToSet(writes)) /\ Before(seq, ToSet(data), ToSet(toAppend'))
      BY <2>1, <2>4 DEF InSeqOrder, Before
    <2> HIDE DEF row
    <2> QED
      BY <2>1, <2>4, <2>5 DEF InSeqOrder
  <1>5. CASE WritesRow
    <2>1. /\ flush = "append" /\ toAppend # <<>> /\ flush' = flush
          /\ data' = Append(data, Head(toAppend)) /\ toAppend' = Tail(toAppend)
          /\ UNCHANGED <<nextSeq, seq, queue, writes, accepted>>
      BY <1>5 DEF WritesRow
    <2>2. /\ Head(toAppend) \in Row
          /\ ToSet(toAppend) = {Head(toAppend)} \cup ToSet(Tail(toAppend))
      BY <2>1, TailElements, BatchRows
    <2>3. Head(toAppend) \in ToSet(writes) /\ ToSet(data') = ToSet(data) \cup {Head(toAppend)}
      BY <2>1, <2>2, AppendElements, BatchRows
    <2>4. Before(seq, ToSet(data), {Head(toAppend)})
      BY <2>2 DEF InSeqOrder, Before
    <2>5. Ascending(seq, data')
      BY <2>1, <2>2, <2>4, AscendingAppend, BatchRows DEF InSeqOrder
    <2>6. Ascending(seq, Tail(toAppend)) /\ Before(seq, {Head(toAppend)}, ToSet(Tail(toAppend)))
      BY <2>1, AscendingTail, BatchRows DEF InSeqOrder
    <2>7. Before(seq, ToSet(data'), ToSet(toAppend'))
      BY <2>1, <2>2, <2>3, <2>6 DEF InSeqOrder, Before
    <2>8. Before(seq, ToSet(data') \cup ToSet(writes), ToSet(queue))
      BY <2>3 DEF InSeqOrder, Before
    <2>9. \A r \in ToSet(data') : seq[r] > 0
      BY <2>3 DEF InSeqOrder, UnansweredIsPending, Pending
    <2> QED
      BY <2>1, <2>5, <2>6, <2>7, <2>8, <2>9 DEF InSeqOrder
  <1>6. CASE DeleteNamespace
    <2>1. data' = <<>> /\ UNCHANGED <<nextSeq, seq, queue, writes, accepted, toAppend, flush>>
      BY <1>6 DEF DeleteNamespace
    <2>2. /\ Before(seq, {}, ToSet(toAppend)) /\ Before(seq, {}, ToSet(writes))
          /\ Before(seq, {} \cup ToSet(writes), ToSet(queue))
      BY DEF InSeqOrder, Before
    <2> QED
      BY <1>0, <2>1, <2>2 DEF InSeqOrder
  <1>7. ASSUME UNCHANGED <<nextSeq, seq, queue, writes, accepted, toAppend, data>>,
               flush' \in {"lock", "locked", "authorize"} =>
                 flush \in {"lock", "locked", "authorize"}
        PROVE  InSeqOrder'
    BY <1>7 DEF InSeqOrder
  <1>8. ASSUME NEW c \in Call,
               \/ Submit(c) \/ EnqueueAudit(c) \/ EnterMutex(c) \/ Deny(c)
               \/ Grant(c) /\ Len(RowsOf[c]) = 1 /\ Full(c)
        PROVE  InSeqOrder'
    BY <1>7, <1>8 DEF Submit, EnqueueAudit, EnterMutex, Deny, Grant
  <1>9. CASE \/ TimerFires \/ PassGate \/ GetsLock \/ KeepsLock \/ AppendLedger
             \/ StartDrain \/ DrainFlush \/ FinishDrain \/ OtherOwner
    BY <1>7, <1>9 DEF TimerFires, PassGate, GetsLock, KeepsLock, AppendLedger, StartDrain,
                      DrainFlush, FinishDrain, OtherOwner
  <1> QED
    BY <1>1, <1>2, <1>3, <1>4, <1>5, <1>6, <1>8, <1>9 DEF Step

\* What is appended was granted by the re-check of this batch.
LEMMA AcceptedStep ==
  ASSUME TypeOK, MutexInOrder, BatchFollowsFlush, InSeqOrder, AcceptedIsDecided, Step
  PROVE  AcceptedIsDecided'
  <1> USE DEF calls, queues, batch, disk, around
  <1>0. ToSet(<<>>) = {}
    BY DEF ToSet
  <1>1. CASE TakeBatch
    <2>1. flush = "mutex"
      <3>1. 1 \in DOMAIN mutex /\ mutex[1] = FLUSH
        BY <1>1 DEF TakeBatch, HoldsMutex, TypeOK
      <3> QED
        BY <3>1 DEF MutexInOrder
    <2>2. accepted' = <<>> /\ toAppend' = <<>> /\ flush' \in {"idle", "lock"}
      BY <1>1, <2>1 DEF TakeBatch, BatchFollowsFlush
    <2> QED
      BY <1>0, <2>2 DEF AcceptedIsDecided
  <1>2. CASE AcquireThrows \/ Settles
    <2>1. accepted' = <<>> /\ toAppend' = <<>> /\ flush' = "idle"
      BY <1>2 DEF AcquireThrows, Settles, Settle, BatchFollowsFlush
    <2> QED
      BY <1>0, <2>1 DEF AcceptedIsDecided
  <1>3. CASE KeepsLock
    <2>1. /\ UNCHANGED <<writes, data, accepted, toAppend, decided>>
          /\ flush' \in {"append", "finish"} => writes = <<>>
      BY <1>3 DEF KeepsLock
    <2> QED
      BY <1>0, <2>1 DEF AcceptedIsDecided
  <1>4. CASE Reauthorize
    <2> DEFINE row == writes[decided + 1]
    <2>1. /\ flush = "authorize" /\ toAppend' = accepted' /\ decided' = decided + 1
          /\ accepted' = accepted \/ accepted' = Append(accepted, row)
          /\ UNCHANGED <<data, writes>>
      BY <1>4 DEF Reauthorize
    <2>2. decided < Len(writes)
      BY <2>1 DEF BatchFollowsFlush
    <2>3. decided + 1 \in DOMAIN writes /\ row \in Row
      BY <2>2, BatchRows
    <2>4. ToSet(accepted') \subseteq ToSet(accepted) \cup {row}
      <3>1. ToSet(Append(accepted, row)) = ToSet(accepted) \cup {row}
        BY <2>3, AppendElements, BatchRows
      <3> QED
        BY <2>1, <3>1
    <2>5. ASSUME NEW r \in ToSet(accepted')
          PROVE  \E i \in 1..(decided + 1) : i <= Len(writes) /\ writes[i] = r
      <3>1. CASE r = row
        <4>1. decided + 1 \in 1..(decided + 1) /\ decided + 1 <= Len(writes)
          BY <2>2, BatchRows
        <4> QED
          BY <3>1, <4>1
      <3>2. CASE r \in ToSet(accepted)
        <4>1. PICK i \in 1..decided : i <= Len(writes) /\ writes[i] = r
          BY <3>2 DEF AcceptedIsDecided
        <4>2. i \in 1..(decided + 1)
          BY <4>1, BatchRows
        <4> QED
          BY <4>1, <4>2
      <3> QED
        BY <2>4, <3>1, <3>2
    <2>6. ToSet(data) \cap ToSet(writes) = {}
      BY <2>1, BatchRows DEF InSeqOrder, Before
    <2> HIDE DEF row
    <2> QED
      BY <2>1, <2>5, <2>6 DEF AcceptedIsDecided
  <1>5. CASE WritesRow
    <2>1. /\ flush = "append" /\ toAppend # <<>> /\ flush' = flush
          /\ data' = Append(data, Head(toAppend)) /\ toAppend' = Tail(toAppend)
          /\ UNCHANGED <<writes, accepted, decided>>
      BY <1>5 DEF WritesRow
    <2>2. /\ Head(toAppend) \in Row
          /\ ToSet(toAppend) = {Head(toAppend)} \cup ToSet(Tail(toAppend))
      BY <2>1, TailElements, BatchRows
    <2>3. ToSet(data') = ToSet(data) \cup {Head(toAppend)}
      BY <2>1, <2>2, AppendElements, BatchRows
    <2> QED
      BY <2>1, <2>2, <2>3 DEF AcceptedIsDecided
  <1>6. CASE DeleteNamespace
    <2>1. data' = <<>> /\ UNCHANGED <<writes, accepted, toAppend, decided, flush>>
      BY <1>6 DEF DeleteNamespace
    <2> QED
      BY <1>0, <2>1 DEF AcceptedIsDecided
  <1>7. ASSUME UNCHANGED <<writes, accepted, toAppend, decided, data>>,
               flush' \in {"append", "finish"} => flush \in {"append", "finish"}
        PROVE  AcceptedIsDecided'
    BY <1>7 DEF AcceptedIsDecided
  <1>8. ASSUME NEW c \in Call,
               Submit(c) \/ EnqueueAudit(c) \/ EnterMutex(c) \/ Deny(c) \/ Grant(c)
        PROVE  AcceptedIsDecided'
    BY <1>7, <1>8 DEF Submit, EnqueueAudit, EnterMutex, Deny, Grant
  <1>9. CASE \/ TimerFires \/ PassGate \/ GetsLock \/ AppendLedger
             \/ StartDrain \/ DrainFlush \/ FinishDrain \/ OtherOwner
    BY <1>7, <1>9 DEF TimerFires, PassGate, GetsLock, AppendLedger, StartDrain,
                      DrainFlush, FinishDrain, OtherOwner
  <1> QED
    BY <1>1, <1>2, <1>3, <1>4, <1>5, <1>6, <1>8, <1>9 DEF Step

\* A flush writes every row it accepted, and the plan of its audit records, before
\* it acknowledges.
LEMMA AckedStep ==
  ASSUME TypeOK, MutexInOrder, BatchFollowsFlush, AcceptedIsDecided, AckedIsWritten, Step
  PROVE  AckedIsWritten'
  <1> USE DEF calls, queues, batch, disk, around
  <1>0. ToSet(<<>>) = {} /\ trouble' = trouble
    BY DEF Step, Submit, EnqueueAudit, EnterMutex, Deny, Grant, TimerFires, PassGate,
           TakeBatch, GetsLock, AcquireThrows, KeepsLock, Reauthorize, WritesRow,
           AppendLedger, Settles, Settle, StartDrain, DrainFlush, FinishDrain,
           OtherOwner, DeleteNamespace, ToSet
  <1>1. CASE TakeBatch \/ AcquireThrows \/ Settles \/ GetsLock
    <2>1. flush' \notin {"append", "finish"}
      BY <1>1 DEF TakeBatch, AcquireThrows, Settles, Settle, GetsLock
    <2> QED
      BY <2>1 DEF AckedIsWritten
  <1>2. CASE KeepsLock
    <2>1. flush' # "finish" /\ accepted' = <<>>
      BY <1>2 DEF KeepsLock, BatchFollowsFlush
    <2> QED
      BY <1>0, <2>1 DEF AckedIsWritten
  <1>3. CASE Reauthorize
    <2>1. flush' # "finish" /\ toAppend' = accepted'
      BY <1>3 DEF Reauthorize
    <2> QED
      BY <2>1 DEF AckedIsWritten
  <1>4. CASE WritesRow
    <2>1. /\ flush = "append" /\ toAppend # <<>> /\ flush' = flush
          /\ data' = Append(data, Head(toAppend)) /\ toAppend' = Tail(toAppend)
          /\ UNCHANGED accepted
      BY <1>4 DEF WritesRow
    <2>2. /\ Head(toAppend) \in Row
          /\ ToSet(toAppend) = {Head(toAppend)} \cup ToSet(Tail(toAppend))
      BY <2>1, TailElements, BatchRows
    <2>3. ToSet(data') = ToSet(data) \cup {Head(toAppend)}
      BY <2>1, <2>2, AppendElements, BatchRows
    <2>4. trouble # "delete" => ToSet(accepted) \subseteq ToSet(data) \cup ToSet(toAppend)
      BY <2>1 DEF AckedIsWritten
    <2>5. trouble # "delete" => ToSet(accepted') \subseteq ToSet(data') \cup ToSet(toAppend')
      BY <2>1, <2>2, <2>3, <2>4
    <2> QED
      BY <1>0, <2>1, <2>5 DEF AckedIsWritten
  <1>5. CASE AppendLedger
    <2>1. /\ flush = "append" /\ ledger' = ledger \o Plan
          /\ UNCHANGED <<writes, audits, accepted, toAppend, data>>
      BY <1>5 DEF AppendLedger
    <2>2. ledger \in Seq(Records)
      BY DEF TypeOK
    <2>3. ToSet(ledger \o Plan) = ToSet(ledger) \cup ToSet(Plan)
      BY <2>2, PlanRecords, ConcatElements
    <2>4. Plan' = Plan
      BY <2>1 DEF Plan
    <2> QED
      BY <1>0, <2>1, <2>3, <2>4 DEF AckedIsWritten
  <1>6. CASE DeleteNamespace
    BY <1>0, <1>6 DEF DeleteNamespace, AckedIsWritten
  <1>7. ASSUME UNCHANGED <<writes, audits, accepted, toAppend, data, ledger>>,
               \/ flush' = flush
               \/ flush' \notin {"append", "finish"}
        PROVE  AckedIsWritten'
    <2>1. Plan' = Plan
      BY <1>7 DEF Plan
    <2> QED
      BY <1>0, <1>7, <2>1 DEF AckedIsWritten
  <1>8. ASSUME NEW c \in Call,
               Submit(c) \/ EnqueueAudit(c) \/ EnterMutex(c) \/ Deny(c) \/ Grant(c)
        PROVE  AckedIsWritten'
    BY <1>7, <1>8 DEF Submit, EnqueueAudit, EnterMutex, Deny, Grant
  <1>9. CASE TimerFires \/ PassGate \/ StartDrain \/ DrainFlush \/ FinishDrain \/ OtherOwner
    BY <1>7, <1>9 DEF TimerFires, PassGate, StartDrain, DrainFlush, FinishDrain, OtherOwner
  <1> QED
    BY <1>1, <1>2, <1>3, <1>4, <1>5, <1>6, <1>8, <1>9 DEF Step

\* Outside the flush only calls that are not enqueued are answered, and the answer
\* is a refusal.
LEMMA Refusals ==
  ASSUME TypeOK, Step, ~Settles
  PROVE  \/ result' = result
         \/ /\ UNCHANGED <<data, ledger, seq>>
            /\ \E c \in Call :
                 /\ call[c] \in {"new", "mutex", "authorizing"}
                 /\ \A x \in Row \cup Call : result'[x] # "ok" \/ result'[x] = result[x]
                 /\ \A x \in Row : x \notin RowSet(c) => result'[x] = result[x]
  <1> USE DEF calls, queues, batch, disk, around
  <1>1. ASSUME NEW c \in Call,
               NEW code \in {"SERVER_SHUTTING_DOWN", "SERIALIZER_FENCED", "SERIALIZER_QUEUE_FULL"},
               Resolve(c, code)
        PROVE  /\ \A x \in Row \cup Call : result'[x] # "ok" \/ result'[x] = result[x]
               /\ \A x \in Row : x \notin RowSet(c) => result'[x] = result[x]
    BY <1>1, CallFacts DEF Resolve
  <1>2. ASSUME NEW c \in Call, Submit(c), result' # result
        PROVE  /\ UNCHANGED <<data, ledger, seq>> /\ call[c] = "new"
               /\ Resolve(c, "SERVER_SHUTTING_DOWN")
    BY <1>2 DEF Submit
  <1>3. ASSUME NEW c \in Call, EnterMutex(c), result' # result
        PROVE  /\ UNCHANGED <<data, ledger, seq>> /\ call[c] = "mutex"
               /\ Resolve(c, "SERIALIZER_FENCED") \/ Resolve(c, "SERIALIZER_QUEUE_FULL")
    BY <1>3 DEF EnterMutex
  <1>4. ASSUME NEW c \in Call, Grant(c), result' # result
        PROVE  /\ UNCHANGED <<data, ledger, seq>> /\ call[c] = "authorizing"
               /\ Resolve(c, "SERIALIZER_QUEUE_FULL")
    BY <1>4 DEF Grant
  <1>5. CASE \E c \in Call : EnqueueAudit(c) \/ Deny(c)
    BY <1>5 DEF EnqueueAudit, Deny
  <1>6. CASE \/ TimerFires \/ PassGate \/ TakeBatch \/ GetsLock \/ AcquireThrows \/ KeepsLock
             \/ Reauthorize \/ WritesRow \/ AppendLedger
             \/ StartDrain \/ DrainFlush \/ FinishDrain \/ OtherOwner \/ DeleteNamespace
    BY <1>6 DEF TimerFires, PassGate, TakeBatch, GetsLock, AcquireThrows, KeepsLock,
                Reauthorize, WritesRow, AppendLedger, StartDrain, DrainFlush, FinishDrain,
                OtherOwner, DeleteNamespace
  <1>7. CASE result' # result /\ \E c \in Call : Submit(c) \/ EnterMutex(c) \/ Grant(c)
    <2>1. PICK c \in Call : Submit(c) \/ EnterMutex(c) \/ Grant(c)
      BY <1>7
    <2>2. /\ UNCHANGED <<data, ledger, seq>> /\ call[c] \in {"new", "mutex", "authorizing"}
          /\ \E code \in {"SERVER_SHUTTING_DOWN", "SERIALIZER_FENCED", "SERIALIZER_QUEUE_FULL"} :
               Resolve(c, code)
      BY <1>2, <1>3, <1>4, <1>7, <2>1
    <2> QED
      BY <1>1, <2>2
  <1> QED
    BY <1>5, <1>6, <1>7 DEF Step

\* Data and ledger only grow, except when the namespace is deleted.
LEMMA DiskGrows ==
  ASSUME TypeOK, Step, trouble # "delete"
  PROVE  /\ ToSet(data) \subseteq ToSet(data') /\ ToSet(ledger) \subseteq ToSet(ledger')
         /\ trouble' = trouble
  <1> USE DEF calls, queues, batch, disk, around
  <1>0. data \in Seq(Row) /\ ledger \in Seq(Records) /\ toAppend \in Seq(Row)
    BY DEF TypeOK
  <1>1. CASE WritesRow
    <2>1. data' = Append(data, Head(toAppend)) /\ UNCHANGED <<ledger, trouble>> /\ toAppend # <<>>
      BY <1>1 DEF WritesRow
    <2> QED
      BY <1>0, <2>1, TailElements, AppendElements
  <1>2. CASE AppendLedger
    <2>1. ledger' = ledger \o Plan /\ UNCHANGED <<data, trouble>>
      BY <1>2 DEF AppendLedger
    <2> QED
      BY <1>0, <2>1, PlanRecords, ConcatElements
  <1>3. CASE Settles
    BY <1>3 DEF Settles, Settle
  <1>4. CASE \/ TimerFires \/ PassGate \/ TakeBatch \/ GetsLock \/ AcquireThrows \/ KeepsLock
             \/ Reauthorize \/ StartDrain \/ DrainFlush \/ FinishDrain \/ OtherOwner
             \/ DeleteNamespace
    BY <1>4 DEF TimerFires, PassGate, TakeBatch, GetsLock, AcquireThrows, KeepsLock,
                Reauthorize, StartDrain, DrainFlush, FinishDrain, OtherOwner, DeleteNamespace
  <1>5. CASE \E c \in Call :
               Submit(c) \/ EnqueueAudit(c) \/ EnterMutex(c) \/ Deny(c) \/ Grant(c)
    BY <1>5 DEF Submit, EnqueueAudit, EnterMutex, Deny, Grant
  <1> QED
    BY <1>1, <1>2, <1>3, <1>4, <1>5 DEF Step

\* What a flush that acknowledges has on disk.
LEMMA AcknowledgesWritten ==
  ASSUME TypeOK, BatchFollowsFlush, AcceptedIsDecided, AckedIsWritten, flush = "finish",
         trouble # "delete"
  PROVE  /\ \A r \in ToSet(writes) : r \notin ToSet(SubSeq(writes, 1, decided)) \ ToSet(accepted)
              => r \in ToSet(data) /\ Change(r) \in ToSet(ledger)
         /\ \A c \in ToSet(audits) : IsAudit(c) => Entry(c) \in ToSet(ledger)
  <1>1. SubSeq(writes, 1, decided) = writes
    BY BatchRows DEF BatchFollowsFlush
  <1>2. ToSet(toAppend) = {}
    BY DEF BatchFollowsFlush, ToSet
  <1>3. ToSet(accepted) \subseteq ToSet(data) /\ ToSet(Plan) \subseteq ToSet(ledger)
    BY <1>2 DEF AckedIsWritten
  <1>4. \A r \in ToSet(writes) : r \in ToSet(accepted) => Change(r) \in ToSet(Plan)
    BY PlanRecords DEF ToSet
  <1> QED
    BY <1>1, <1>3, <1>4, PlanRecords

LEMMA AuditedStep ==
  ASSUME TypeOK, BatchFollowsFlush, UnansweredIsPending, AcceptedIsDecided, AckedIsWritten,
         AcknowledgedIsAudited, Step
  PROVE  AcknowledgedIsAudited'
  <1>1. CASE trouble = "delete"
    <2>1. trouble' = trouble
      BY DEF Step, Submit, EnqueueAudit, EnterMutex, Deny, Grant, TimerFires, PassGate,
             TakeBatch, GetsLock, AcquireThrows, KeepsLock, Reauthorize, WritesRow,
             AppendLedger, Settles, Settle, StartDrain, DrainFlush, FinishDrain,
             OtherOwner, DeleteNamespace, around
    <2> QED
      BY <1>1, <2>1 DEF AcknowledgedIsAudited
  <1>2. CASE trouble # "delete" /\ ~Settles
    <2>1. \A x \in Row \cup Call : result'[x] = "ok" => result[x] = "ok"
      BY <1>2, Refusals
    <2> QED
      BY <1>2, <2>1, DiskGrows DEF AcknowledgedIsAudited, Change, Entry
  <1>3. CASE trouble # "delete" /\ Settles
    <2>1. PICK code : Settle(code) /\ (code = "ok" => flush = "finish")
      BY <1>3 DEF Settles
    <2>2. ASSUME NEW r \in Row, result'[r] = "ok"
          PROVE  r \in ToSet(data) /\ Change(r) \in ToSet(ledger)
      <3>1. CASE result[r] = "ok"
        BY <1>3, <3>1 DEF AcknowledgedIsAudited
      <3>2. CASE result[r] # "ok"
        <4>1. /\ r \in ToSet(writes) /\ code = "ok"
              /\ r \notin ToSet(SubSeq(writes, 1, decided)) \ ToSet(accepted)
          BY <2>1, <2>2, <3>2, Settled
        <4> QED
          BY <1>3, <2>1, <4>1, AcknowledgesWritten
      <3> QED
        BY <3>1, <3>2
    <2>3. ASSUME NEW c \in Call, result'[c] = "ok"
          PROVE  Entry(c) \in ToSet(ledger)
      <3>1. CASE result[c] = "ok"
        BY <1>3, <3>1 DEF AcknowledgedIsAudited
      <3>2. CASE result[c] # "ok"
        <4>1. c \in ToSet(audits) /\ IsAudit(c) /\ code = "ok"
          BY <2>1, <2>3, <3>2, Settled
        <4> QED
          BY <1>3, <2>1, <4>1, AcknowledgesWritten
      <3> QED
        BY <3>1, <3>2
    <2> QED
      BY <1>3, <2>2, <2>3, DiskGrows DEF AcknowledgedIsAudited, Change, Entry
  <1> QED
    BY <1>1, <1>2, <1>3

\* No row on disk is ever answered with a refusal.
LEMMA RefusedStep ==
  ASSUME TypeOK, BatchFollowsFlush, UnansweredIsPending, InSeqOrder, AcceptedIsDecided,
         RefusedIsNotWritten, Step
  PROVE  RefusedIsNotWritten'
  <1> USE DEF calls, queues, batch, disk, around
  <1> DEFINE refusals == {"FORBIDDEN", "SERIALIZER_QUEUE_FULL", "SERIALIZER_LOCKED",
                          "NOT_FOUND", "SERVER_SHUTTING_DOWN"}
  <1>0. \A r \in ToSet(data) : r \in Row /\ seq[r] > 0 /\ result[r] \notin refusals
    BY BatchRows DEF InSeqOrder, RefusedIsNotWritten
  <1>1. CASE Settles
    <2>1. PICK code : Settle(code) /\ (code \in {"SERIALIZER_LOCKED", "NOT_FOUND"} => flush = "lock")
                      /\ code \in {"ok", "SERIALIZER_LOCKED", "SERIALIZER_FENCED", "NOT_FOUND",
                                   "INTERNAL_ERROR"}
      BY <1>1 DEF Settles
    <2>2. data' = data /\ flush \in {"lock", "locked", "append", "finish"}
      BY <1>1 DEF Settles
    <2> SUFFICES ASSUME NEW r \in ToSet(data) PROVE result'[r] \notin refusals
      BY <2>2 DEF RefusedIsNotWritten
    <2>3. CASE r \in ToSet(writes)
      <3>1. flush \in {"append", "finish"}
        <4>1. flush \in {"lock", "locked"} => r \notin ToSet(writes)
          BY <1>0, BatchRows DEF InSeqOrder, Before
        <4> QED
          BY <2>2, <2>3, <4>1
      <3>2. r \in ToSet(accepted)
        BY <2>3, <3>1 DEF AcceptedIsDecided
      <3>3. result'[r] = code
        BY <1>0, <2>1, <2>3, <3>2, Settled
      <3> QED
        BY <2>1, <3>1, <3>3
    <2>4. CASE r \notin ToSet(writes)
      <3>1. \A c \in ToSet(audits) : r \notin RowSet(c)
        <4>1. ToSet(audits) \subseteq Call
          BY DEF TypeOK, ToSet
        <4>2. \A c \in ToSet(audits) : \A s \in RowSet(c) : seq[s] = 0
          BY <4>1 DEF UnansweredIsPending, Auditing
        <4> QED
          BY <1>0, <4>2
      <3>2. result'[r] = result[r]
        BY <1>0, <2>1, <2>4, <3>1, Settled
      <3> QED
        BY <1>0, <3>2
    <2> QED
      BY <2>3, <2>4
  <1>2. CASE WritesRow
    <2>1. /\ data' = Append(data, Head(toAppend)) /\ toAppend # <<>> /\ UNCHANGED result
      BY <1>2 DEF WritesRow
    <2>2. Head(toAppend) \in Row /\ Head(toAppend) \in ToSet(toAppend)
      BY <2>1, TailElements, BatchRows
    <2>3. ToSet(data') = ToSet(data) \cup {Head(toAppend)}
      BY <2>1, <2>2, AppendElements, BatchRows
    <2>4. result[Head(toAppend)] = "none"
      BY <2>2, BatchRows DEF UnansweredIsPending, Pending
    <2> QED
      BY <1>0, <2>1, <2>3, <2>4 DEF RefusedIsNotWritten
  <1>3. CASE ~Settles /\ ~WritesRow
    <2>1. ToSet(data') \subseteq ToSet(data)
      <3>1. ToSet(<<>>) = {}
        BY DEF ToSet
      <3>2. data' = data \/ data' = <<>>
        BY <1>3 DEF Step, Submit, EnqueueAudit, EnterMutex, Deny, Grant, TimerFires, PassGate,
             TakeBatch, GetsLock, AcquireThrows, KeepsLock, Reauthorize,
             AppendLedger, StartDrain, DrainFlush, FinishDrain,
             OtherOwner, DeleteNamespace
      <3> QED
        BY <3>1, <3>2
    <2>2. CASE result' = result
      BY <1>0, <2>1, <2>2 DEF RefusedIsNotWritten
    <2>3. CASE result' # result
      <3>1. PICK c \in Call :
              /\ call[c] \in {"new", "mutex", "authorizing"}
              /\ \A x \in Row : x \notin RowSet(c) => result'[x] = result[x]
        BY <1>3, <2>3, Refusals
      <3>2. \A r \in RowSet(c) : seq[r] = 0
        BY <3>1 DEF UnansweredIsPending
      <3> QED
        BY <1>0, <2>1, <3>1, <3>2 DEF RefusedIsNotWritten
    <2> QED
      BY <2>2, <2>3
  <1> QED
    BY <1>1, <1>2, <1>3

-----------------------------------------------------------------------------
(* The theorems                                                            *)

LEMMA WriterInit == Init => WriterInvariant
  <1> SUFFICES ASSUME Init PROVE WriterInvariant
    OBVIOUS
  <1>0. /\ ToSet(<<>>) = {} /\ Len(<<>>) = 0 /\ DOMAIN <<>> = {}
        /\ \A S : <<>> \in Seq(S)
    BY DEF ToSet
  <1>1. /\ call = [c \in Call |-> "new"] /\ result = [x \in Row \cup Call |-> "none"]
        /\ seq = [r \in Row |-> 0] /\ nextSeq = 0 /\ queuedRows = 0 /\ decided = 0
        /\ mutex = <<>> /\ queue = <<>> /\ auditQueue = <<>> /\ writes = <<>> /\ audits = <<>>
        /\ accepted = <<>> /\ toAppend = <<>> /\ data = <<>> /\ ledger = <<>>
        /\ timer = FALSE /\ handled = TRUE /\ flush = "idle" /\ dir = TRUE /\ owner = "free"
        /\ fenced = FALSE /\ phase = "up" /\ trouble \in {"break", "delete", "throw"}
    BY DEF Init
  <1>2. TypeOK
    <2>1. result \in [Row \cup Call -> Codes \cup {"none"}]
      BY <1>1
    <2>2. call \in [Call -> {"new", "mutex", "authorizing", "waiting", "returned"}]
      BY <1>1
    <2>3. seq \in [Row -> Nat]
      BY <1>1
    <2> QED
      BY <1>0, <1>1, <2>1, <2>2, <2>3 DEF TypeOK
  <1>3. MutexInOrder
    BY <1>0, <1>1 DEF MutexInOrder
  <1>4. BatchFollowsFlush
    BY <1>1 DEF BatchFollowsFlush
  <1>5. UnansweredIsPending
    BY <1>0, <1>1, CallFacts DEF UnansweredIsPending, Pending, Auditing
  <1>6. QueueBounded
    BY <1>0, <1>1, CallFacts DEF QueueBounded
  <1>7. InSeqOrder
    BY <1>0, <1>1 DEF InSeqOrder, Ascending, Before
  <1>8. AcceptedIsDecided
    BY <1>0, <1>1 DEF AcceptedIsDecided
  <1>9. AckedIsWritten /\ AcknowledgedIsAudited /\ RefusedIsNotWritten
    BY <1>0, <1>1 DEF AckedIsWritten, AcknowledgedIsAudited, RefusedIsNotWritten
  <1> QED
    BY <1>2, <1>3, <1>4, <1>5, <1>6, <1>7, <1>8, <1>9 DEF WriterInvariant

LEMMA WriterStep == WriterInvariant /\ [Next]_vars => WriterInvariant'
  <1> SUFFICES ASSUME WriterInvariant, [Next]_vars PROVE WriterInvariant'
    OBVIOUS
  <1> USE DEF WriterInvariant
  <1>1. CASE Next
    <2>1. Step
      BY <1>1, StepCases
    <2>2. TypeOK' /\ MutexInOrder' /\ BatchFollowsFlush'
      BY <2>1, TypeStep, MutexStep, BatchStep
    <2>3. UnansweredIsPending' /\ QueueBounded' /\ InSeqOrder'
      BY <2>1, UnansweredStep, BoundedStep, OrderStep
    <2>4. AcceptedIsDecided' /\ AckedIsWritten' /\ AcknowledgedIsAudited' /\ RefusedIsNotWritten'
      BY <2>1, AcceptedStep, AckedStep, AuditedStep, RefusedStep
    <2> QED
      BY <2>2, <2>3, <2>4
  <1>2. CASE UNCHANGED vars
    <2> USE <1>2 DEF vars, calls, queues, batch, disk, around
    <2>1. TypeOK' /\ BatchFollowsFlush'
      BY DEF TypeOK, BatchFollowsFlush
    <2>2. MutexInOrder' /\ QueueBounded'
      BY DEF MutexInOrder, HoldsMutex, IsAudit, QueueBounded, Full
    <2>3. UnansweredIsPending'
      <3>1. Pending' = Pending /\ Auditing' = Auditing /\ Registering' = Registering
        BY DEF Pending, Auditing, Registering
      <3> QED
        BY <3>1 DEF UnansweredIsPending, RowSet
    <2>4. InSeqOrder' /\ AcceptedIsDecided' /\ RefusedIsNotWritten'
      BY DEF InSeqOrder, AcceptedIsDecided, RefusedIsNotWritten
    <2>5. AckedIsWritten' /\ AcknowledgedIsAudited'
      <3>1. Plan' = Plan
        BY DEF Plan
      <3> QED
        BY <3>1 DEF AckedIsWritten, AcknowledgedIsAudited, Change, Entry
    <2> QED
      BY <2>1, <2>2, <2>3, <2>4, <2>5
  <1> QED
    BY <1>1, <1>2

\* The shape of the state, and all that the invariants below need of queues,
\* batch and disk, after any number of calls and flushes.
THEOREM WriterInvariantHolds == Spec => []WriterInvariant
  BY WriterInit, WriterStep, PTL DEF Spec

\* queuedRows is exactly the rows that are queued or in the flush, and never
\* exceeds the bound: the QUEUE_FULL check before the authorization hook still
\* holds after it.
THEOREM QueueAccounted == Spec => []QueueAccounting
  <1>1. WriterInvariant => QueueAccounting
    BY DEF WriterInvariant, QueueAccounting, QueueBounded, TypeOK
  <1> QED
    BY <1>1, WriterInvariantHolds, PTL

\* The data file is in the order of the sequence numbers given at enqueue.
THEOREM FileOrdered == Spec => []FileOrderIsSeqOrder
  <1>1. WriterInvariant => FileOrderIsSeqOrder
    BY DEF WriterInvariant, FileOrderIsSeqOrder, InSeqOrder, Ascending
  <1> QED
    BY <1>1, WriterInvariantHolds, PTL

\* What flush acknowledges is in the data file and in the audit ledger.
THEOREM AcknowledgedAudited == Spec => []AcknowledgedIsAudited
  <1>1. WriterInvariant => AcknowledgedIsAudited
    BY DEF WriterInvariant
  <1> QED
    BY <1>1, WriterInvariantHolds, PTL

\* A row refused by the hook, the bounds, the lock or a drain is never written.
THEOREM RefusedNotWritten == Spec => []RefusedIsNotWritten
  <1>1. WriterInvariant => RefusedIsNotWritten
    BY DEF WriterInvariant
  <1> QED
    BY <1>1, WriterInvariantHolds, PTL

\* When drain() returns every call that got past the shutdown check has its answer.
THEOREM DrainResolves == Spec => []DrainResolvesWaiters
  <1>1. WriterInvariant => DrainResolvesWaiters
    <2> SUFFICES ASSUME WriterInvariant, phase = "drained", NEW c \in Call
                 PROVE  call[c] \in {"new", "returned"}
      BY DEF DrainResolvesWaiters
    <2>1. /\ queue = <<>> /\ auditQueue = <<>> /\ writes = <<>> /\ audits = <<>>
          /\ Registering = {}
      BY DEF WriterInvariant, BatchFollowsFlush, UnansweredIsPending
    <2>2. Pending = {} /\ Auditing = {}
      BY <2>1 DEF Pending, Auditing, ToSet
    <2>3. call[c] # "waiting"
      BY <2>2 DEF WriterInvariant, UnansweredIsPending
    <2>4. call[c] \notin {"mutex", "authorizing"}
      BY <2>1 DEF Registering
    <2> QED
      BY <2>3, <2>4 DEF WriterInvariant, TypeOK
  <1> QED
    BY <1>1, WriterInvariantHolds, PTL

-----------------------------------------------------------------------------
(* The writer implements WriteService                                      *)

\* The state of the service that the writer is in.
status == [r \in Row |-> IF trouble # "delete" THEN RowStatus(r) ELSE "new"]
log == IF trouble # "delete" THEN data ELSE <<>>

\* Only a grant numbers rows, and only the flush writes them.
LEMMA NumbersAndWrites ==
  ASSUME Step
  PROVE  /\ trouble' = trouble
         /\ seq' # seq => \E c \in Call : Grant(c) /\ ~(Len(RowsOf[c]) = 1 /\ Full(c))
         /\ data' # data => WritesRow \/ trouble = "delete"
  <1> USE DEF calls, queues, batch, disk, around
  <1>1. CASE \E c \in Call : Submit(c) \/ EnqueueAudit(c) \/ EnterMutex(c) \/ Deny(c) \/ Grant(c)
    BY <1>1 DEF Submit, EnqueueAudit, EnterMutex, Deny, Grant
  <1>2. CASE \/ TimerFires \/ PassGate \/ TakeBatch \/ GetsLock \/ AcquireThrows \/ KeepsLock
             \/ Reauthorize \/ WritesRow \/ AppendLedger \/ Settles
             \/ StartDrain \/ DrainFlush \/ FinishDrain \/ OtherOwner \/ DeleteNamespace
    BY <1>2 DEF TimerFires, PassGate, TakeBatch, GetsLock, AcquireThrows, KeepsLock,
                Reauthorize, WritesRow, AppendLedger, Settles, Settle, StartDrain, DrainFlush,
                FinishDrain, OtherOwner, DeleteNamespace
  <1> QED
    BY <1>1, <1>2 DEF Step

\* A row keeps its answer, and a row that waits is answered with what it may be.
LEMMA AnswersAllowed ==
  ASSUME WriterInvariant, Step, trouble # "delete", UNCHANGED <<seq, data>>, NEW r \in Row
  PROVE  status'[r] \in Service!Answers(r)
  <1>0. trouble' = trouble /\ seq[r] \in Nat
    BY NumbersAndWrites DEF WriterInvariant, TypeOK
  <1>1. status[r] = RowStatus(r)
    BY DEF status
  <1>2. status'[r] = CASE result'[r] = "none" /\ seq[r] = 0 -> "new"
                       [] result'[r] = "none" /\ seq[r] > 0 -> "pending"
                       [] result'[r] = "ok" -> "ok"
                       [] OTHER -> IF seq[r] = 0 THEN "refused" ELSE "failed"
    BY <1>0 DEF status, RowStatus
  <1>3. Service!Answers(r) =
          CASE RowStatus(r) = "new" -> {"new", "refused"}
            [] RowStatus(r) = "pending" /\ r \in ToSet(data) -> {"pending", "ok", "failed"}
            [] RowStatus(r) = "pending" /\ r \notin ToSet(data) -> {"pending", "failed"}
            [] OTHER -> {RowStatus(r)}
    BY <1>1 DEF Service!Answers, Service!ToSet, ToSet, status
  <1>4. CASE result'[r] = result[r]
    BY <1>0, <1>2, <1>3, <1>4 DEF RowStatus
  <1>5. CASE result[r] = "none" /\ seq[r] = 0 /\ result'[r] # "ok"
    BY <1>0, <1>2, <1>3, <1>5 DEF RowStatus
  <1>6. CASE result[r] = "none" /\ seq[r] > 0 /\ (result'[r] = "ok" => r \in ToSet(data))
    BY <1>0, <1>2, <1>3, <1>6 DEF RowStatus
  <1>7. CASE Settles
    <2>1. PICK code : Settle(code) /\ (code = "ok" => flush = "finish")
      BY <1>7 DEF Settles
    <2>2. CASE r \in ToSet(writes)
      <3>1. result[r] = "none" /\ seq[r] > 0
        BY <2>2 DEF WriterInvariant, UnansweredIsPending, Pending
      <3>2. result'[r] = "ok" => r \in ToSet(data)
        <4>1. result'[r] = "ok" => code = "ok"
                /\ r \notin ToSet(SubSeq(writes, 1, decided)) \ ToSet(accepted)
          BY <2>1, <2>2, Settled DEF WriterInvariant
        <4> QED
          BY <2>1, <2>2, <4>1, AcknowledgesWritten DEF WriterInvariant
      <3> QED
        BY <1>6, <3>1, <3>2
    <2>3. CASE r \notin ToSet(writes) /\ \E c \in ToSet(audits) : r \in RowSet(c)
      <3>1. result'[r] = "FORBIDDEN"
        BY <2>1, <2>3, Settled DEF WriterInvariant
      <3>2. result[r] = "none" /\ seq[r] = 0
        <4>1. ToSet(audits) \subseteq Call
          BY DEF WriterInvariant, TypeOK, ToSet
        <4> QED
          BY <2>3, <4>1 DEF WriterInvariant, UnansweredIsPending, Auditing
      <3> QED
        BY <1>5, <3>1, <3>2
    <2>4. CASE r \notin ToSet(writes) /\ ~\E c \in ToSet(audits) : r \in RowSet(c)
      <3>1. result'[r] = result[r]
        BY <2>1, <2>4, Settled DEF WriterInvariant
      <3> QED
        BY <1>4, <3>1
    <2> QED
      BY <2>2, <2>3, <2>4
  <1>8. CASE ~Settles /\ result'[r] # result[r]
    <2>1. PICK c \in Call :
            /\ call[c] \in {"new", "mutex", "authorizing"}
            /\ \A x \in Row \cup Call : result'[x] # "ok" \/ result'[x] = result[x]
            /\ \A x \in Row : x \notin RowSet(c) => result'[x] = result[x]
      BY <1>8, Refusals DEF WriterInvariant
    <2>2. r \in RowSet(c) /\ result'[r] # "ok"
      BY <1>8, <2>1
    <2>3. result[r] = "none" /\ seq[r] = 0
      BY <2>1, <2>2 DEF WriterInvariant, UnansweredIsPending
    <2> QED
      BY <1>5, <2>2, <2>3
  <1> QED
    BY <1>4, <1>7, <1>8

\* Every step of the writer is a step of the service, or none.
LEMMA ServiceStep ==
  ASSUME WriterInvariant, Next
  PROVE  Service!Next \/ UNCHANGED Service!vars
  <1>1. Step /\ trouble' = trouble
    BY StepCases, NumbersAndWrites DEF WriterInvariant
  <1>2. CASE trouble = "delete"
    <2>1. status' = status /\ log' = log
      BY <1>1, <1>2 DEF status, log
    <2> QED
      BY <2>1 DEF Service!vars, status, log
  <1>3. CASE trouble # "delete" /\ seq' # seq
    <2>1. PICK c \in Call : Grant(c) /\ ~(Len(RowsOf[c]) = 1 /\ Full(c))
      BY <1>1, <1>3, NumbersAndWrites
    <2>2. result' = result /\ data' = data
      BY <2>1 DEF Grant, disk
    <2>3. /\ \A r \in RowSet(c) : seq'[r] \in Nat /\ seq'[r] > 0
          /\ \A r \in Row \ RowSet(c) : seq'[r] = seq[r]
      BY <2>1, GrantedSeq DEF WriterInvariant
    <2>4. \A r \in RowSet(c) : r \in Row /\ result[r] = "none" /\ seq[r] = 0
      BY <2>1, CallFacts DEF Grant, WriterInvariant, UnansweredIsPending
    <2>5. \A r \in RowSet(c) : status[r] = "new"
      BY <1>3, <2>4 DEF status, RowStatus
    <2>6. ASSUME NEW r \in Row
          PROVE  status'[r] = IF r \in RowSet(c) THEN "pending" ELSE status[r]
      <3>1. CASE r \in RowSet(c)
        <4>1. result'[r] = "none" /\ seq'[r] # 0 /\ seq'[r] > 0
          BY <2>2, <2>3, <2>4, <3>1
        <4> QED
          BY <1>1, <1>3, <3>1, <4>1 DEF status, RowStatus
      <3>2. CASE r \notin RowSet(c)
        BY <1>1, <2>2, <2>3, <3>2 DEF status, RowStatus
      <3> QED
        BY <3>1, <3>2
    <2>7. status' = [r \in Row |-> IF r \in RowSet(c) THEN "pending" ELSE status[r]]
      BY <2>6 DEF status
    <2>8. log' = log /\ RowSet(c) \in SUBSET Row
      BY <1>1, <2>2, CallFacts DEF log
    <2> QED
      BY <2>5, <2>7, <2>8 DEF Service!Next, Service!Accept, status, log
  <1>4. CASE trouble # "delete" /\ data' # data
    <2>1. WritesRow
      BY <1>1, <1>4, NumbersAndWrites
    <2>2. /\ toAppend # <<>> /\ data' = Append(data, Head(toAppend))
          /\ UNCHANGED <<result, seq>>
      BY <2>1 DEF WritesRow, calls, queues
    <2>3. Head(toAppend) \in Row /\ Head(toAppend) \in ToSet(toAppend)
      BY <2>2, TailElements, BatchRows DEF WriterInvariant
    <2>4. result[Head(toAppend)] = "none" /\ seq[Head(toAppend)] > 0
      BY <2>3, BatchRows DEF WriterInvariant, UnansweredIsPending, Pending
    <2>5. Head(toAppend) \notin ToSet(data)
      BY <2>3, BatchRows DEF WriterInvariant, InSeqOrder, Before
    <2>6. status[Head(toAppend)] = "pending"
      <3>1. seq[Head(toAppend)] # 0
        BY <2>3, <2>4 DEF WriterInvariant, TypeOK
      <3> QED
        BY <1>4, <2>3, <2>4, <3>1 DEF status, RowStatus
    <2>7. status' = status /\ log = data /\ log' = Append(data, Head(toAppend))
      BY <1>1, <1>4, <2>2 DEF status, log, RowStatus
    <2> QED
      BY <2>3, <2>5, <2>6, <2>7 DEF Service!Next, Service!Write, Service!ToSet, ToSet, status,
         log
  <1>5. CASE trouble # "delete" /\ seq' = seq /\ data' = data
    <2>1. \A r \in Row : status'[r] \in Service!Answers(r)
      BY <1>1, <1>5, AnswersAllowed
    <2>2. DOMAIN status' = Row /\ log' = log
      BY <1>1, <1>5 DEF status, log
    <2> QED
      BY <2>1, <2>2 DEF Service!Next, Service!Answer, status, log
  <1> QED
    BY <1>2, <1>3, <1>4, <1>5

\* The writer implements the service: no row is written twice or after its
\* answer, and no row is acknowledged that is not in the file.
THEOREM WriterImplementsService == Spec => ImplementsService
  <1>1. Init => Service!Init
    BY DEF Init, Service!Init, RowStatus
  <1>2. WriterInvariant /\ [Next]_vars => [Service!Next]_(Service!vars)
    <2> SUFFICES ASSUME WriterInvariant, [Next]_vars
                 PROVE  Service!Next \/ UNCHANGED Service!vars
      OBVIOUS
    <2>1. CASE Next
      BY <2>1, ServiceStep
    <2>2. CASE UNCHANGED vars
      BY <2>2 DEF vars, calls, queues, disk, around, Service!vars, RowStatus
    <2> QED
      BY <2>1, <2>2
  <1> QED
    BY <1>1, <1>2, WriterInvariantHolds, PTL DEF Spec, ImplementsService, Service!Spec

=============================================================================
