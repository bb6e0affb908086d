---------------------------- MODULE AuditLedger -----------------------------
(***************************************************************************)
(* The end of a flush: the burst of records into the segmented ledger of   *)
(* src/serialization/auditLedger.ts, then the partition in the manifest    *)
(* (src/storage/manifest.ts); and what the change feed checks of the       *)
(* ledger in every commit (src/http/realtime/replay.ts).                   *)
(*                                                                         *)
(* A writer reads the ledger once and keeps the active segment in memory.  *)
(* The write lock makes that right until it is broken under a process that *)
(* is suspended in the middle of a burst and then goes on.                 *)
(*                                                                         *)
(* A segment is a number, 0 for current.jsonl.  Records are numbered in    *)
(* the order their flushes began; a line cut short by a failing write is   *)
(* Torn, and Garbled once the next record is written behind it.            *)
(***************************************************************************)
EXTENDS Integers, FiniteSets, Sequences

CONSTANTS
  Scribe,      \* processes that flush
  Partition,   \* partitions flushed to
  NoScribe,    \* the lock is free
  MaxBurst,    \* records in a flush
  MaxRecords,  \* records in all flushes
  SegmentLines,  \* config storage.maxLinesPerChunk
  CanBreak,    \* whether the lock may be broken under a suspended process
  CanTear      \* whether a write may fail half-way

ASSUME AuditLedgerAssumption ==
  /\ {MaxBurst, MaxRecords, SegmentLines} \subseteq Nat \ {0}
  /\ {CanBreak, CanTear} \subseteq BOOLEAN
  /\ NoScribe \notin Scribe

VARIABLES
  ledger,      \* lines of each segment of _audit/
  partitions,  \* partitions in manifest.json
  holder,      \* owner of the namespace write lock
  burst,       \* flush of each process
  lastRecord,  \* records used
  ackedRecords,
  ackedPartitions,
  headLedger,  \* the ledger as last committed
  refused,     \* a commit was CHANGELOG_CORRUPT
  broken,      \* history: the lock was broken under a process
  torn         \* history: a line was cut short

auditLedgerVars == <<ledger, partitions, holder, burst, lastRecord, ackedRecords,
                     ackedPartitions, headLedger, refused, broken, torn>>

Torn == 0
Garbled == -1
NoBurst == [step |-> "none", active |-> 0, lines |-> 0, highest |-> 0,
            left |-> <<>>, records |-> {}, partition |-> {}, seen |-> {}, fenced |-> FALSE]

AuditLedgerInit ==
  /\ ledger = [n \in {} |-> <<>>]
  /\ partitions = {}
  /\ holder = NoScribe
  /\ burst = [s \in Scribe |-> NoBurst]
  /\ lastRecord = 0
  /\ ackedRecords = {} /\ ackedPartitions = {}
  /\ headLedger = ledger
  /\ refused = FALSE
  /\ broken = FALSE /\ torn = FALSE

-----------------------------------------------------------------------------

LastSegment(l) ==
  IF DOMAIN l = {} THEN 0 ELSE CHOOSE n \in DOMAIN l : \A m \in DOMAIN l : m <= n
Lines(l, n) == IF n \in DOMAIN l THEN l[n] ELSE <<>>

\* appendFileSync: behind a torn line there is no line break.
AppendTo(l, n, line) ==
  LET old == Lines(l, n)
      new == IF old # <<>> /\ old[Len(old)] = Torn
               THEN [old EXCEPT ![Len(old)] = Garbled] ELSE Append(old, line)
  IN [m \in DOMAIN l \cup {n} |-> IF m = n THEN new ELSE l[m]]

\* canonicalAuditSegmentOrder: current.jsonl, then 0001 and on without a gap.
Canonical(l) == DOMAIN l \ {0} = 1..Cardinality(DOMAIN l \ {0})

\* The ledger is read once, under the lock.
BeginBurst(s) ==
  /\ holder = NoScribe
  /\ burst[s].step = "none"
  /\ Canonical(ledger)
  /\ \E n \in 1..MaxBurst, p \in Partition :
       /\ lastRecord + n <= MaxRecords
       /\ lastRecord' = lastRecord + n
       /\ burst' = [burst EXCEPT ![s] =
            [NoBurst EXCEPT !.step = "append", !.active = LastSegment(ledger),
                            !.lines = Len(Lines(ledger, LastSegment(ledger))),
                            !.highest = LastSegment(ledger),
                            !.left = [i \in 1..n |-> lastRecord + i],
                            !.records = {lastRecord + i : i \in 1..n},
                            !.partition = {p}]]
  /\ holder' = s
  /\ UNCHANGED <<ledger, partitions, ackedRecords, ackedPartitions, headLedger, refused,
                 broken, torn>>

\* Mutant: a new segment takes the number of the lines written.
RotateSkipping(b) ==
  IF b.lines >= SegmentLines
    THEN [b EXCEPT !.highest = @ + Len(b.left), !.active = b.highest + Len(b.left), !.lines = 0]
    ELSE b

\* rotate, from what the writer remembers.
Rotate(b) ==
  IF b.lines >= SegmentLines
    THEN [b EXCEPT !.highest = @ + 1, !.active = b.highest + 1, !.lines = 0]
    ELSE b

\* Mutant: the record that does not fit in the segment is not written.
AppendRecordDrops(s) ==
  /\ burst[s].step = "append"
  /\ burst[s].left # <<>>
  /\ LET b == Rotate(burst[s])
     IN /\ ledger' = IF b.active = burst[s].active
                        THEN AppendTo(ledger, b.active, Head(b.left)) ELSE ledger
        /\ burst' = [burst EXCEPT ![s] = [b EXCEPT !.lines = @ + 1, !.left = Tail(@)]]
  /\ UNCHANGED <<partitions, holder, lastRecord, ackedRecords, ackedPartitions, headLedger,
                 refused, broken, torn>>

AppendRecord(s) ==
  /\ burst[s].step = "append"
  /\ burst[s].left # <<>>
  /\ LET b == Rotate(burst[s])
     IN /\ ledger' = AppendTo(ledger, b.active, Head(b.left))
        /\ burst' = [burst EXCEPT ![s] = [b EXCEPT !.lines = @ + 1, !.left = Tail(@)]]
  /\ UNCHANGED <<partitions, holder, lastRecord, ackedRecords, ackedPartitions, headLedger,
                 refused, broken, torn>>

Released(s) == holder' = IF holder = s THEN NoScribe ELSE holder

\* The disk is full in the middle of a line: the flush fails.
TearRecord(s) ==
  /\ CanTear /\ ~torn
  /\ burst[s].step = "append"
  /\ burst[s].left # <<>>
  /\ ledger' = AppendTo(ledger, Rotate(burst[s]).active, Torn)
  /\ burst' = [burst EXCEPT ![s] = NoBurst]
  /\ Released(s)
  /\ torn' = TRUE
  /\ UNCHANGED <<partitions, lastRecord, ackedRecords, ackedPartitions, headLedger, refused,
                 broken>>

\* assertCurrent after the burst: a fenced writer answers an error.
AssertCurrent(s) ==
  /\ burst[s].step = "append"
  /\ burst[s].left = <<>>
  /\ IF burst[s].fenced
       THEN burst' = [burst EXCEPT ![s] = NoBurst]
       ELSE burst' = [burst EXCEPT ![s].step = "manifest"]
  /\ UNCHANGED <<ledger, partitions, holder, lastRecord, ackedRecords, ackedPartitions,
                 headLedger, refused, broken, torn>>

\* addPartition reads the manifest, and writes it when the partition is new.
ReadManifest(s) ==
  /\ burst[s].step = "manifest"
  /\ burst' = [burst EXCEPT ![s].step = IF burst[s].partition \subseteq partitions
                                          THEN "acknowledge" ELSE "rename",
                            ![s].seen = partitions]
  /\ UNCHANGED <<ledger, partitions, holder, lastRecord, ackedRecords, ackedPartitions,
                 headLedger, refused, broken, torn>>

WriteManifest(s) ==
  /\ burst[s].step = "rename"
  /\ partitions' = burst[s].seen \cup burst[s].partition
  /\ burst' = [burst EXCEPT ![s].step = "acknowledge"]
  /\ UNCHANGED <<ledger, holder, lastRecord, ackedRecords, ackedPartitions, headLedger,
                 refused, broken, torn>>

Acknowledge(s) ==
  /\ burst[s].step = "acknowledge"
  /\ ackedRecords' = ackedRecords \cup burst[s].records
  /\ ackedPartitions' = ackedPartitions \cup burst[s].partition
  /\ burst' = [burst EXCEPT ![s] = NoBurst]
  /\ Released(s)
  /\ UNCHANGED <<ledger, partitions, lastRecord, headLedger, refused, broken, torn>>

\* The process is suspended past the staleness limit and the next caller breaks
\* its lock; it goes on later.
BreakLock ==
  /\ CanBreak /\ ~broken
  /\ holder # NoScribe
  /\ burst' = [burst EXCEPT ![holder].fenced = TRUE]
  /\ holder' = NoScribe
  /\ broken' = TRUE
  /\ UNCHANGED <<ledger, partitions, lastRecord, ackedRecords, ackedPartitions, headLedger,
                 refused, torn>>

KillScribe(s) ==
  /\ burst[s].step # "none"
  /\ burst' = [burst EXCEPT ![s] = NoBurst]
  /\ Released(s)
  /\ UNCHANGED <<ledger, partitions, lastRecord, ackedRecords, ackedPartitions, headLedger,
                 refused, broken, torn>>

-----------------------------------------------------------------------------
(* Commits                                                                 *)

IsPrefixOf(a, b) == Len(a) <= Len(b) /\ a = SubSeq(b, 1, Len(a))

\* assertCanonicalSegmentAdvance and addedAuditLines.
Advances(parent, child) ==
  /\ Canonical(child)
  /\ DOMAIN parent \subseteq DOMAIN child
  /\ 0 \in DOMAIN child \ DOMAIN parent => DOMAIN parent = {}
  /\ \A n \in DOMAIN child :
       /\ IsPrefixOf(Lines(parent, n), child[n])
       /\ child[n] # Lines(parent, n) => child[n][Len(child[n])] # Torn

\* A commit takes the lock; a ledger that does not advance is CHANGELOG_CORRUPT.
CommitLedger ==
  /\ holder = NoScribe
  /\ ledger # headLedger
  /\ refused' = (refused \/ ~Advances(headLedger, ledger))
  /\ headLedger' = ledger
  /\ UNCHANGED <<ledger, partitions, holder, burst, lastRecord, ackedRecords,
                 ackedPartitions, broken, torn>>

AuditLedgerNext ==
  \/ \E s \in Scribe :
       \/ BeginBurst(s) \/ AppendRecord(s) \/ TearRecord(s) \/ AssertCurrent(s)
       \/ ReadManifest(s) \/ WriteManifest(s) \/ Acknowledge(s)
       \/ KillScribe(s)
  \/ BreakLock \/ CommitLedger

-----------------------------------------------------------------------------
(* Properties                                                              *)

AuditLedgerTypeOK ==
  /\ DOMAIN ledger \subseteq 0..MaxRecords
  /\ \A n \in DOMAIN ledger : ledger[n] \in Seq(-1..MaxRecords) /\ Len(ledger[n]) > 0
  /\ partitions \subseteq Partition /\ ackedPartitions \subseteq Partition
  /\ holder \in Scribe \cup {NoScribe}
  /\ \A s \in Scribe :
       /\ burst[s].step \in {"none", "append", "manifest", "rename", "acknowledge"}
       /\ burst[s].active \in 0..MaxRecords /\ burst[s].active <= burst[s].highest
       /\ burst[s].fenced => holder # s
  /\ ackedRecords \subseteq 1..lastRecord /\ lastRecord \in 0..MaxRecords
  /\ {refused, broken, torn} \subseteq BOOLEAN

\* Replay never answers CHANGELOG_CORRUPT (assertCanonicalSegmentAdvance,
\* addedAuditLines) unless a write was cut short: every commit extends the one
\* before segment by segment, even when two processes append at once after a
\* lock was broken, each from the active segment it remembers.
EveryCommitExtends == AuditLedgerTypeOK /\ (~torn => ~refused)

\* A record whose flush was acknowledged is in the ledger once, in the order of
\* the flushes unless a lock was broken: the feed publishes the changes of a
\* commit in ledger order.  A partition whose first write was acknowledged is in
\* the manifest: two read-modify-write cycles of addPartition never meet while
\* the lock holds.
AcknowledgedIsRecorded ==
  /\ ~broken => ackedPartitions \subseteq partitions
  /\ ~torn => \A r \in ackedRecords :
       Cardinality({at \in UNION {{<<n, i>> : i \in DOMAIN ledger[n]} : n \in DOMAIN ledger} :
                      ledger[at[1]][at[2]] = r}) = 1
  /\ ~torn /\ ~broken =>
       \A n, m \in DOMAIN ledger : \A i \in DOMAIN ledger[n], j \in DOMAIN ledger[m] :
         (n < m \/ (n = m /\ i < j)) => ledger[n][i] < ledger[m][j]

=============================================================================
