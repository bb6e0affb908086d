--------------------------- MODULE AppendOnlyProofs ----------------------------
(***************************************************************************)
(* What the append-only files guarantee: the segments of the audit ledger, *)
(* the chunks the barriers make durable, and the segments a consolidation  *)
(* rewrites.  Each is a specification of its own.                          *)
(***************************************************************************)
EXTENDS AuditLedger, Durability, Consolidation,
  FiniteSetTheorems, SequenceTheorems, WellFoundedInduction, TLAPS

--------------------------------------------------------------------------------
(***************************************************************************)
(* The segmented audit ledger, for any number of processes, partitions and *)
(* records, any length of a segment, and with the lock broken.             *)
(* AuditInvariant is inductive; EveryCommitExtends and                     *)
(* AcknowledgedIsRecorded follow from it.                                  *)
(***************************************************************************)

\* The ledger as a specification of its own.
AuditLedgerSpec == AuditLedgerInit /\ [][AuditLedgerNext]_auditLedgerVars

Line == -1..MaxRecords
Burst == [step : {"none", "append", "manifest", "rename", "acknowledge"},
          active : Nat, lines : Nat, highest : Nat, left : Seq(Nat), records : SUBSET Nat,
          partition : SUBSET Partition, seen : SUBSET Partition, fenced : BOOLEAN]

\* The types in full.
AuditTypes ==
  /\ lastRecord \in 0..MaxRecords
  /\ partitions \in SUBSET Partition /\ ackedPartitions \in SUBSET Partition
  /\ ackedRecords \in SUBSET (1..lastRecord)
  /\ holder \in Scribe \cup {NoScribe}
  /\ burst \in [Scribe -> Burst]
  /\ refused \in BOOLEAN /\ broken \in BOOLEAN /\ torn \in BOOLEAN
  /\ \A n \in DOMAIN ledger : ledger[n] \in Seq(Line) /\ Len(ledger[n]) > 0
  /\ \A n \in DOMAIN headLedger : headLedger[n] \in Seq(Line)

\* Segments 0 to n, no more of them than records.
Gapless(l) == DOMAIN l = {} \/ \E n \in 0..lastRecord : DOMAIN l = 0..n

\* Who holds the lock has a burst; a fenced process goes on without the lock.
\* Until it is broken, only its holder has one.
LockFollowsBurst ==
  /\ \A s \in Scribe :
       /\ holder = s => burst[s].step # "none"
       /\ burst[s].fenced => burst[s].step # "none" /\ holder # s
  /\ ~broken => \A s \in Scribe : burst[s].step # "none" => holder = s

\* The records of a burst are its own, and what is left of them is in order.
BurstsApart ==
  \A s \in Scribe :
    /\ burst[s].records \subseteq 1..lastRecord
    /\ \A i \in DOMAIN burst[s].left : burst[s].left[i] \in burst[s].records
    /\ \A i, j \in DOMAIN burst[s].left : i < j => burst[s].left[i] < burst[s].left[j]
    /\ burst[s].step # "append" => burst[s].left = <<>>
    /\ \A q \in Scribe : q # s => burst[q].records \cap burst[s].records = {}

\* The segment a process remembers is there, or it is the first one and empty;
\* its number is below the records to come.
SegmentRemembered ==
  \A s \in Scribe :
    /\ burst[s].active = burst[s].highest /\ burst[s].active <= lastRecord
    /\ burst[s].active \in DOMAIN ledger \/ (burst[s].active = 0 /\ burst[s].lines = 0)
    /\ \A i \in DOMAIN burst[s].left : burst[s].active < burst[s].left[i]

\* A record is somewhere in the ledger.
InLedger(r) == \E n \in DOMAIN ledger : \E i \in DOMAIN ledger[n] : ledger[n][i] = r

\* Without a torn line, every record is there at most once, those of a burst when
\* they are no longer left, and those acknowledged for good.
EachOnce ==
  ~torn =>
    /\ \A n \in DOMAIN ledger : \A i \in DOMAIN ledger[n] : ledger[n][i] \in 1..lastRecord
    /\ \A n, m \in DOMAIN ledger : \A i \in DOMAIN ledger[n], j \in DOMAIN ledger[m] :
         ledger[n][i] = ledger[m][j] => n = m /\ i = j
    /\ \A s \in Scribe : \A i \in DOMAIN burst[s].left : ~InLedger(burst[s].left[i])
    /\ \A s \in Scribe : \A r \in burst[s].records :
         InLedger(r) \/ \E i \in DOMAIN burst[s].left : burst[s].left[i] = r
    /\ \A r \in ackedRecords : InLedger(r)

\* The committed ledger is a beginning of each segment of the ledger.
HeadIsBehind ==
  /\ ~torn => ~refused
  /\ ~torn =>
       /\ DOMAIN headLedger = {} \/ 0 \in DOMAIN headLedger
       /\ DOMAIN headLedger \subseteq DOMAIN ledger
       /\ \A n \in DOMAIN headLedger :
            /\ Len(headLedger[n]) <= Len(ledger[n])
            /\ \A i \in 1..Len(headLedger[n]) : headLedger[n][i] = ledger[n][i]

\* Until the lock is broken, the holder appends behind everything.
InFlushOrder ==
  ~torn /\ ~broken =>
    /\ \A n, m \in DOMAIN ledger : \A i \in DOMAIN ledger[n], j \in DOMAIN ledger[m] :
         n < m \/ (n = m /\ i < j) => ledger[n][i] < ledger[m][j]
    /\ \A s \in Scribe : burst[s].step = "append" =>
         /\ \A n \in DOMAIN ledger : n <= burst[s].active
         /\ \A n \in DOMAIN ledger : \A i \in DOMAIN ledger[n], k \in DOMAIN burst[s].left :
              ledger[n][i] < burst[s].left[k]

\* And no other process touches the manifest between its read and its write.
ManifestInStep ==
  ~broken =>
    /\ ackedPartitions \subseteq partitions
    /\ \A s \in Scribe :
         /\ burst[s].step = "rename" => burst[s].seen = partitions
         /\ burst[s].step = "acknowledge" => burst[s].partition \subseteq partitions

\* The inductive invariant.
AuditInvariant ==
  /\ AuditTypes
  /\ Gapless(ledger)
  /\ LockFollowsBurst
  /\ BurstsApart
  /\ SegmentRemembered
  /\ EachOnce
  /\ HeadIsBehind
  /\ InFlushOrder
  /\ ManifestInStep

--------------------------------------------------------------------------------

\* No burst.
LEMMA NoBurstIs ==
  /\ NoBurst \in Burst /\ NoBurst.step = "none" /\ NoBurst.left = <<>> /\ NoBurst.records = {}
  /\ NoBurst.active = 0 /\ NoBurst.lines = 0 /\ NoBurst.highest = 0 /\ NoBurst.fenced = FALSE
  /\ NoBurst.partition = {} /\ NoBurst.seen = {}
BY DEF NoBurst, Burst

\* The types of a state, for the steps.
LEMMA AuditTyped ==
  ASSUME AuditInvariant, NEW s \in Scribe
  PROVE  /\ burst \in [Scribe -> Burst] /\ burst[s] \in Burst /\ burst[s].left \in Seq(Nat)
         /\ lastRecord \in Nat /\ MaxRecords \in Nat \ {0} /\ SegmentLines \in Nat \ {0}
         /\ NoScribe \notin Scribe
<1>1. burst \in [Scribe -> Burst] /\ lastRecord \in Nat
  BY AuditLedgerAssumption DEF AuditInvariant, AuditTypes
<1>2. burst[s] \in Burst
  BY <1>1
<1>3. burst[s].left \in Seq(Nat)
  BY <1>2 DEF Burst
<1> QED
  BY <1>1, <1>2, <1>3, AuditLedgerAssumption

\* What is already written and acknowledged by a burst with nothing left.
LEMMA NothingLeftIsWritten ==
  ASSUME AuditInvariant, ~torn, NEW s \in Scribe, burst[s].left = <<>>, NEW r \in burst[s].records
  PROVE  InLedger(r)
BY DEF AuditInvariant, EachOnce

\* A step that leaves the ledger alone, lets bursts end or go on, and acknowledges what
\* a burst has written.
LEMMA QuietStep ==
  ASSUME AuditInvariant,
         UNCHANGED <<ledger, headLedger, lastRecord, refused, torn>>, broken => broken',
         \A s \in Scribe :
           \/ burst'[s] = NoBurst
           \/ /\ burst'[s].active = burst[s].active /\ burst'[s].highest = burst[s].highest
              /\ burst'[s].lines = burst[s].lines /\ burst'[s].left = burst[s].left
              /\ burst'[s].records = burst[s].records
              /\ burst'[s].step = burst[s].step
                 \/ (burst'[s].step # "append" /\ burst[s].left = <<>>),
         \A r \in ackedRecords' :
           r \in ackedRecords \/ \E s \in Scribe : r \in burst[s].records /\ burst[s].left = <<>>
  PROVE  /\ Gapless(ledger)' /\ BurstsApart' /\ SegmentRemembered'
         /\ EachOnce' /\ HeadIsBehind' /\ InFlushOrder'
<1>1. Gapless(ledger)' /\ HeadIsBehind'
  BY DEF AuditInvariant, Gapless, HeadIsBehind
<1>2. BurstsApart'
  <2> SUFFICES ASSUME NEW s \in Scribe
               PROVE  /\ burst'[s].records \subseteq 1..lastRecord'
                      /\ \A i \in DOMAIN burst'[s].left : burst'[s].left[i] \in burst'[s].records
                      /\ \A i, j \in DOMAIN burst'[s].left :
                           i < j => burst'[s].left[i] < burst'[s].left[j]
                      /\ burst'[s].step # "append" => burst'[s].left = <<>>
                      /\ \A q \in Scribe : q # s => burst'[q].records \cap burst'[s].records = {}
    BY DEF BurstsApart
  <2>1. \A q \in Scribe : burst'[q].records \subseteq burst[q].records
    BY NoBurstIs
  <2>2. \A q \in Scribe : q # s => burst'[q].records \cap burst'[s].records = {}
    BY <2>1 DEF AuditInvariant, BurstsApart
  <2>3. CASE burst'[s] = NoBurst
    BY <2>2, <2>3, NoBurstIs
  <2>4. CASE burst'[s] # NoBurst
    BY <2>2, <2>4 DEF AuditInvariant, BurstsApart
  <2> QED
    BY <2>3, <2>4
<1>3. SegmentRemembered'
  <2> SUFFICES ASSUME NEW s \in Scribe
               PROVE  /\ burst'[s].active = burst'[s].highest /\ burst'[s].active <= lastRecord'
                      /\ \/ burst'[s].active \in DOMAIN ledger'
                         \/ burst'[s].active = 0 /\ burst'[s].lines = 0
                      /\ \A i \in DOMAIN burst'[s].left : burst'[s].active < burst'[s].left[i]
    BY DEF SegmentRemembered
  <2>1. CASE burst'[s] = NoBurst
    BY <2>1, NoBurstIs, AuditTyped
  <2>2. CASE burst'[s] # NoBurst
    BY <2>2 DEF AuditInvariant, SegmentRemembered
  <2> QED
    BY <2>1, <2>2
<1>4. EachOnce'
  <2> SUFFICES ASSUME ~torn
               PROVE  EachOnce'
    BY DEF EachOnce
  <2>1. \A r : InLedger(r)' <=> InLedger(r)
    BY DEF InLedger
  <2>2. \A s \in Scribe : \A i \in DOMAIN burst'[s].left : ~InLedger(burst'[s].left[i])
    BY NoBurstIs DEF AuditInvariant, EachOnce
  <2>3. \A s \in Scribe : \A r \in burst'[s].records :
          InLedger(r) \/ \E i \in DOMAIN burst'[s].left : burst'[s].left[i] = r
    BY NoBurstIs DEF AuditInvariant, EachOnce
  <2>4. \A r \in ackedRecords' : InLedger(r)
    BY NothingLeftIsWritten DEF AuditInvariant, EachOnce
  <2> QED
    BY <2>1, <2>2, <2>3, <2>4 DEF AuditInvariant, EachOnce
<1>5. InFlushOrder'
  <2>1. \A s \in Scribe : burst'[s].step = "append" =>
          burst[s].step = "append" /\ burst'[s].active = burst[s].active
          /\ burst'[s].left = burst[s].left
    BY NoBurstIs
  <2> QED
    BY <2>1 DEF AuditInvariant, InFlushOrder
<1> QED
  BY <1>1, <1>2, <1>3, <1>4, <1>5

\* One burst changes, to one that is well typed.
LEMMA OneBurst ==
  ASSUME burst \in [Scribe -> Burst], NEW s \in Scribe, NEW b \in Burst,
         burst' = [burst EXCEPT ![s] = b]
  PROVE  burst' \in [Scribe -> Burst] /\ burst'[s] = b
         /\ \A q \in Scribe : q # s => burst'[q] = burst[q]
OBVIOUS

\* After the burst: a fenced writer answers an error.
LEMMA AssertKeeps ==
  ASSUME AuditInvariant, NEW s \in Scribe, AssertCurrent(s)
  PROVE  AuditInvariant'
<1> DEFINE b == [burst[s] EXCEPT !.step = "manifest"]
<1>1. /\ burst[s].step = "append" /\ burst[s].left = <<>>
      /\ UNCHANGED <<ledger, partitions, holder, lastRecord, ackedRecords, ackedPartitions,
                     headLedger, refused, broken, torn>>
  BY DEF AssertCurrent
<1>2. /\ burst[s].fenced => burst' = [burst EXCEPT ![s] = NoBurst]
      /\ ~burst[s].fenced => burst' = [burst EXCEPT ![s] = b]
  BY DEF AssertCurrent
<1>3. /\ b \in Burst /\ b.step = "manifest" /\ b.active = burst[s].active
      /\ b.highest = burst[s].highest /\ b.lines = burst[s].lines /\ b.left = burst[s].left
      /\ b.records = burst[s].records /\ b.fenced = burst[s].fenced
  BY AuditTyped DEF Burst
<1> HIDE DEF b
<1>4. /\ burst' \in [Scribe -> Burst]
      /\ \/ burst'[s] = NoBurst /\ burst[s].fenced
         \/ burst'[s] = b /\ ~burst[s].fenced
      /\ \A q \in Scribe : q # s => burst'[q] = burst[q]
  BY <1>2, <1>3, AuditTyped, NoBurstIs, OneBurst
<1>5. AuditTypes'
  BY <1>1, <1>4 DEF AuditInvariant, AuditTypes
<1>6. /\ Gapless(ledger)' /\ BurstsApart' /\ SegmentRemembered'
      /\ EachOnce' /\ HeadIsBehind' /\ InFlushOrder'
  BY <1>1, <1>3, <1>4, QuietStep
<1>7. LockFollowsBurst'
  BY <1>1, <1>3, <1>4, NoBurstIs DEF AuditInvariant, LockFollowsBurst
<1>8. ManifestInStep'
  BY <1>1, <1>3, <1>4, NoBurstIs DEF AuditInvariant, ManifestInStep
<1> QED
  BY <1>5, <1>6, <1>7, <1>8 DEF AuditInvariant


\* The manifest is read.
LEMMA ReadKeeps ==
  ASSUME AuditInvariant, NEW s \in Scribe, ReadManifest(s)
  PROVE  AuditInvariant'
<1> DEFINE next == IF burst[s].partition \subseteq partitions THEN "acknowledge" ELSE "rename"
           b == [burst[s] EXCEPT !.step = next, !.seen = partitions]
<1>1. /\ burst[s].step = "manifest" /\ burst' = [burst EXCEPT ![s] = b]
      /\ UNCHANGED <<ledger, partitions, holder, lastRecord, ackedRecords, ackedPartitions,
                     headLedger, refused, broken, torn>>
  BY DEF ReadManifest
<1>2. /\ next \in {"acknowledge", "rename"}
      /\ next = "acknowledge" => burst[s].partition \subseteq partitions
  OBVIOUS
<1>3. partitions \in SUBSET Partition
  BY DEF AuditInvariant, AuditTypes
<1> HIDE DEF next
<1>4. /\ b \in Burst /\ b.step = next /\ b.active = burst[s].active
      /\ b.highest = burst[s].highest /\ b.lines = burst[s].lines /\ b.left = burst[s].left
      /\ b.records = burst[s].records /\ b.fenced = burst[s].fenced
      /\ b.partition = burst[s].partition /\ b.seen = partitions
  BY <1>2, <1>3, AuditTyped DEF Burst
<1> HIDE DEF b
<1>5. /\ burst' \in [Scribe -> Burst] /\ burst'[s] = b
      /\ \A q \in Scribe : q # s => burst'[q] = burst[q]
  BY <1>1, <1>4, AuditTyped, OneBurst
<1>6. burst[s].left = <<>>
  BY <1>1 DEF AuditInvariant, BurstsApart
<1>7. AuditTypes'
  BY <1>1, <1>5 DEF AuditInvariant, AuditTypes
<1>8. /\ Gapless(ledger)' /\ BurstsApart' /\ SegmentRemembered'
      /\ EachOnce' /\ HeadIsBehind' /\ InFlushOrder'
  BY <1>1, <1>2, <1>4, <1>5, <1>6, QuietStep
<1>9. LockFollowsBurst'
  BY <1>1, <1>2, <1>4, <1>5 DEF AuditInvariant, LockFollowsBurst
<1>10. ManifestInStep'
  BY <1>1, <1>2, <1>4, <1>5 DEF AuditInvariant, ManifestInStep
<1> QED
  BY <1>7, <1>8, <1>9, <1>10 DEF AuditInvariant

\* The manifest is written: until the lock is broken, what was read is what is there.
LEMMA WriteManifestKeeps ==
  ASSUME AuditInvariant, NEW s \in Scribe, WriteManifest(s)
  PROVE  AuditInvariant'
<1> DEFINE b == [burst[s] EXCEPT !.step = "acknowledge"]
<1>1. /\ burst[s].step = "rename" /\ burst' = [burst EXCEPT ![s] = b]
      /\ partitions' = burst[s].seen \cup burst[s].partition
      /\ UNCHANGED <<ledger, holder, lastRecord, ackedRecords, ackedPartitions, headLedger,
                     refused, broken, torn>>
  BY DEF WriteManifest
<1>2. /\ b \in Burst /\ b.step = "acknowledge" /\ b.active = burst[s].active
      /\ b.highest = burst[s].highest /\ b.lines = burst[s].lines /\ b.left = burst[s].left
      /\ b.records = burst[s].records /\ b.fenced = burst[s].fenced
      /\ b.partition = burst[s].partition
      /\ burst[s].seen \cup burst[s].partition \in SUBSET Partition
  BY AuditTyped DEF Burst
<1> HIDE DEF b
<1>3. /\ burst' \in [Scribe -> Burst] /\ burst'[s] = b
      /\ \A q \in Scribe : q # s => burst'[q] = burst[q]
  BY <1>1, <1>2, AuditTyped, OneBurst
<1>4. burst[s].left = <<>>
  BY <1>1 DEF AuditInvariant, BurstsApart
<1>5. AuditTypes'
  BY <1>1, <1>2, <1>3 DEF AuditInvariant, AuditTypes
<1>6. /\ Gapless(ledger)' /\ BurstsApart' /\ SegmentRemembered'
      /\ EachOnce' /\ HeadIsBehind' /\ InFlushOrder'
  BY <1>1, <1>2, <1>3, <1>4, QuietStep
<1>7. LockFollowsBurst'
  BY <1>1, <1>2, <1>3 DEF AuditInvariant, LockFollowsBurst
<1>8. ManifestInStep'
  <2> SUFFICES ASSUME ~broken
               PROVE  ManifestInStep'
    BY <1>1 DEF ManifestInStep
  <2>1. \A q \in Scribe : q # s => burst[q].step = "none"
    BY <1>1 DEF AuditInvariant, LockFollowsBurst
  <2>2. burst[s].seen = partitions /\ ackedPartitions \subseteq partitions
    BY <1>1 DEF AuditInvariant, ManifestInStep
  <2>3. ackedPartitions' \subseteq partitions'
    BY <2>2, <1>1
  <2>4. ASSUME NEW q \in Scribe
        PROVE  /\ burst'[q].step = "rename" => burst'[q].seen = partitions'
               /\ burst'[q].step = "acknowledge" => burst'[q].partition \subseteq partitions'
    BY <2>1, <1>1, <1>2, <1>3
  <2> QED
    BY <2>3, <2>4 DEF ManifestInStep
<1> QED
  BY <1>5, <1>6, <1>7, <1>8 DEF AuditInvariant

\* The client is answered.
LEMMA AcknowledgeKeeps ==
  ASSUME AuditInvariant, NEW s \in Scribe, Acknowledge(s)
  PROVE  AuditInvariant'
<1>1. /\ burst[s].step = "acknowledge" /\ burst' = [burst EXCEPT ![s] = NoBurst]
      /\ ackedRecords' = ackedRecords \cup burst[s].records
      /\ ackedPartitions' = ackedPartitions \cup burst[s].partition
      /\ holder' = IF holder = s THEN NoScribe ELSE holder
      /\ UNCHANGED <<ledger, partitions, lastRecord, headLedger, refused, broken, torn>>
  BY DEF Acknowledge, Released
<1>2. /\ burst' \in [Scribe -> Burst] /\ burst'[s] = NoBurst
      /\ \A q \in Scribe : q # s => burst'[q] = burst[q]
  BY <1>1, AuditTyped, NoBurstIs, OneBurst
<1>3. burst[s].left = <<>> /\ burst[s].records \subseteq 1..lastRecord
  BY <1>1 DEF AuditInvariant, BurstsApart
<1>4. burst[s].partition \in SUBSET Partition
  BY AuditTyped DEF Burst
<1>5. AuditTypes'
  BY <1>1, <1>2, <1>3, <1>4 DEF AuditInvariant, AuditTypes
<1>6. /\ Gapless(ledger)' /\ BurstsApart' /\ SegmentRemembered'
      /\ EachOnce' /\ HeadIsBehind' /\ InFlushOrder'
  BY <1>1, <1>2, <1>3, QuietStep
<1>7. LockFollowsBurst'
  BY <1>1, <1>2, NoBurstIs, AuditTyped DEF AuditInvariant, LockFollowsBurst
<1>8. ManifestInStep'
  BY <1>1, <1>2, NoBurstIs DEF AuditInvariant, ManifestInStep
<1> QED
  BY <1>5, <1>6, <1>7, <1>8 DEF AuditInvariant

\* The lock is broken under a suspended process.
LEMMA BreakKeeps ==
  ASSUME AuditInvariant, BreakLock
  PROVE  AuditInvariant'
<1>1. /\ holder # NoScribe /\ burst' = [burst EXCEPT ![holder].fenced = TRUE]
      /\ holder' = NoScribe /\ broken' = TRUE
      /\ UNCHANGED <<ledger, partitions, lastRecord, ackedRecords, ackedPartitions, headLedger,
                     refused, torn>>
  BY DEF BreakLock
<1>2. holder \in Scribe
  BY <1>1 DEF AuditInvariant, AuditTypes
<1> DEFINE b == [burst[holder] EXCEPT !.fenced = TRUE]
<1>3. /\ b \in Burst /\ b.step = burst[holder].step /\ b.active = burst[holder].active
      /\ b.highest = burst[holder].highest /\ b.lines = burst[holder].lines
      /\ b.left = burst[holder].left /\ b.records = burst[holder].records
  BY <1>2, AuditTyped DEF Burst
<1>4. burst' = [burst EXCEPT ![holder] = b]
  BY <1>1
<1> HIDE DEF b
<1>5. /\ burst' \in [Scribe -> Burst] /\ burst'[holder] = b
      /\ \A q \in Scribe : q # holder => burst'[q] = burst[q]
  BY <1>2, <1>3, <1>4, AuditTyped, OneBurst
<1>6. AuditTypes'
  BY <1>1, <1>5 DEF AuditInvariant, AuditTypes
<1>7. /\ Gapless(ledger)' /\ BurstsApart' /\ SegmentRemembered'
      /\ EachOnce' /\ HeadIsBehind' /\ InFlushOrder'
  BY <1>1, <1>3, <1>5, QuietStep
<1>8. LockFollowsBurst'
  BY <1>1, <1>2, <1>3, <1>5, AuditTyped DEF AuditInvariant, LockFollowsBurst
<1>9. ManifestInStep'
  BY <1>1 DEF ManifestInStep
<1> QED
  BY <1>6, <1>7, <1>8, <1>9 DEF AuditInvariant

\* A process dies.
LEMMA KillKeeps ==
  ASSUME AuditInvariant, NEW s \in Scribe, KillScribe(s)
  PROVE  AuditInvariant'
<1>1. /\ burst' = [burst EXCEPT ![s] = NoBurst]
      /\ holder' = IF holder = s THEN NoScribe ELSE holder
      /\ UNCHANGED <<ledger, partitions, lastRecord, ackedRecords, ackedPartitions, headLedger,
                     refused, broken, torn>>
  BY DEF KillScribe, Released
<1>2. /\ burst' \in [Scribe -> Burst] /\ burst'[s] = NoBurst
      /\ \A q \in Scribe : q # s => burst'[q] = burst[q]
  BY <1>1, AuditTyped, NoBurstIs, OneBurst
<1>3. AuditTypes'
  BY <1>1, <1>2 DEF AuditInvariant, AuditTypes
<1>4. /\ Gapless(ledger)' /\ BurstsApart' /\ SegmentRemembered'
      /\ EachOnce' /\ HeadIsBehind' /\ InFlushOrder'
  BY <1>1, <1>2, QuietStep
<1>5. LockFollowsBurst'
  BY <1>1, <1>2, NoBurstIs, AuditTyped DEF AuditInvariant, LockFollowsBurst
<1>6. ManifestInStep'
  BY <1>1, <1>2, NoBurstIs DEF AuditInvariant, ManifestInStep
<1> QED
  BY <1>3, <1>4, <1>5, <1>6 DEF AuditInvariant

--------------------------------------------------------------------------------

\* A gapless ledger is in canonical order.
LEMMA GaplessIsCanonical ==
  ASSUME NEW l, NEW n \in Nat, DOMAIN l = {} \/ DOMAIN l = 0..n
  PROVE  Canonical(l)
<1>1. CASE DOMAIN l = {}
  BY <1>1, FS_EmptySet DEF Canonical
<1>2. CASE DOMAIN l = 0..n
  <2>1. DOMAIN l \ {0} = 1..n
    BY <1>2
  <2>2. Cardinality(1..n) = n
    BY FS_Interval
  <2> QED
    BY <2>1, <2>2 DEF Canonical
<1> QED
  BY <1>1, <1>2

\* A prefix, element by element.
LEMMA PrefixIs ==
  ASSUME NEW S, NEW a \in Seq(S), NEW b \in Seq(S), Len(a) <= Len(b),
         \A i \in 1..Len(a) : a[i] = b[i]
  PROVE  IsPrefixOf(a, b)
<1>1. SubSeq(b, 1, Len(a)) \in Seq(S) /\ Len(SubSeq(b, 1, Len(a))) = Len(a)
      /\ \A i \in 1..Len(a) : SubSeq(b, 1, Len(a))[i] = b[i]
  OBVIOUS
<1>2. a = SubSeq(b, 1, Len(a))
  BY <1>1
<1> QED
  BY <1>2 DEF IsPrefixOf

\* A commit extends the one before: assertCanonicalSegmentAdvance and addedAuditLines
\* accept it.
LEMMA LedgerAdvances ==
  ASSUME AuditInvariant, ~torn
  PROVE  Advances(headLedger, ledger)
<1>1. Canonical(ledger)
  <2>1. PICK n \in Nat : DOMAIN ledger = {} \/ DOMAIN ledger = 0..n
    BY AuditLedgerAssumption DEF AuditInvariant, AuditTypes, Gapless
  <2> QED
    BY <2>1, GaplessIsCanonical
<1>2. /\ DOMAIN headLedger = {} \/ 0 \in DOMAIN headLedger
      /\ DOMAIN headLedger \subseteq DOMAIN ledger
      /\ \A n \in DOMAIN headLedger :
           /\ Len(headLedger[n]) <= Len(ledger[n])
           /\ \A i \in 1..Len(headLedger[n]) : headLedger[n][i] = ledger[n][i]
  BY DEF AuditInvariant, HeadIsBehind
<1>3. ASSUME NEW n \in DOMAIN ledger
      PROVE  IsPrefixOf(Lines(headLedger, n), ledger[n])
  <2>1. ledger[n] \in Seq(Line) /\ Lines(headLedger, n) \in Seq(Line)
    BY DEF AuditInvariant, AuditTypes, Lines
  <2>2. /\ Len(Lines(headLedger, n)) <= Len(ledger[n])
        /\ \A i \in 1..Len(Lines(headLedger, n)) : Lines(headLedger, n)[i] = ledger[n][i]
    BY <1>2, <2>1 DEF Lines
  <2> QED
    BY <2>1, <2>2, PrefixIs
<1>4. ASSUME NEW n \in DOMAIN ledger
      PROVE  ledger[n][Len(ledger[n])] # Torn
  <2>1. ledger[n] \in Seq(Line) /\ Len(ledger[n]) > 0
    BY DEF AuditInvariant, AuditTypes
  <2>2. Len(ledger[n]) \in DOMAIN ledger[n]
    BY <2>1
  <2>3. ledger[n][Len(ledger[n])] \in 1..lastRecord
    BY <2>2 DEF AuditInvariant, EachOnce
  <2> QED
    BY <2>3 DEF Torn
<1> QED
  BY <1>1, <1>2, <1>3, <1>4 DEF Advances

\* A commit.
LEMMA CommitKeeps ==
  ASSUME AuditInvariant, CommitLedger
  PROVE  AuditInvariant'
<1>1. /\ refused' = (refused \/ ~Advances(headLedger, ledger)) /\ headLedger' = ledger
      /\ UNCHANGED <<ledger, partitions, holder, burst, lastRecord, ackedRecords,
                     ackedPartitions, broken, torn>>
  BY DEF CommitLedger
<1>2. refused' \in BOOLEAN
  BY <1>1
<1>3. AuditTypes'
  BY <1>1, <1>2 DEF AuditInvariant, AuditTypes
<1>4. ~torn => ~refused'
  BY <1>1, LedgerAdvances DEF AuditInvariant, HeadIsBehind
<1>5. DOMAIN ledger = {} \/ 0 \in DOMAIN ledger
  BY DEF AuditInvariant, Gapless
<1>6. \A n \in DOMAIN ledger : Len(ledger[n]) <= Len(ledger[n])
  BY DEF AuditInvariant, AuditTypes
<1>7. HeadIsBehind'
  BY <1>1, <1>4, <1>5, <1>6 DEF HeadIsBehind
<1>8. Gapless(ledger)' /\ LockFollowsBurst' /\ BurstsApart' /\ SegmentRemembered'
      /\ EachOnce' /\ InFlushOrder' /\ ManifestInStep'
  BY <1>1 DEF AuditInvariant, Gapless, LockFollowsBurst, BurstsApart, SegmentRemembered, EachOnce,
     InLedger, InFlushOrder, ManifestInStep
<1> QED
  BY <1>3, <1>7, <1>8 DEF AuditInvariant


--------------------------------------------------------------------------------

\* The last segment of a gapless ledger.
LEMMA LastSegmentIs ==
  ASSUME AuditInvariant
  PROVE  /\ LastSegment(ledger) \in 0..lastRecord
         /\ \A n \in DOMAIN ledger : n \in Nat /\ n <= LastSegment(ledger)
         /\ \/ LastSegment(ledger) \in DOMAIN ledger
            \/ DOMAIN ledger = {} /\ LastSegment(ledger) = 0
<1>1. lastRecord \in Nat
  BY AuditLedgerAssumption DEF AuditInvariant, AuditTypes
<1>2. CASE DOMAIN ledger = {}
  BY <1>1, <1>2 DEF LastSegment
<1>3. CASE DOMAIN ledger # {}
  <2>1. PICK n \in 0..lastRecord : DOMAIN ledger = 0..n
    BY <1>3 DEF AuditInvariant, Gapless
  <2>2. n \in DOMAIN ledger /\ \A m \in DOMAIN ledger : m <= n
    BY <1>1, <2>1
  <2>3. LastSegment(ledger) \in DOMAIN ledger
        /\ \A m \in DOMAIN ledger : m <= LastSegment(ledger)
    BY <1>3, <2>2 DEF LastSegment
  <2> QED
    BY <1>1, <2>1, <2>3
<1> QED
  BY <1>2, <1>3

\* A flush begins: its records are new.
LEMMA BeginKeeps ==
  ASSUME AuditInvariant, NEW s \in Scribe, BeginBurst(s)
  PROVE  AuditInvariant'
<1> DEFINE last == LastSegment(ledger)
           count == Len(Lines(ledger, last))
<1>1. PICK n \in 1..MaxBurst, p \in Partition :
        /\ lastRecord + n <= MaxRecords /\ lastRecord' = lastRecord + n
        /\ burst' = [burst EXCEPT ![s] =
             [NoBurst EXCEPT !.step = "append", !.active = last, !.lines = count,
                             !.highest = last,
                             !.left = [i \in 1..n |-> lastRecord + i],
                             !.records = {lastRecord + i : i \in 1..n},
                             !.partition = {p}]]
  BY DEF BeginBurst
<1>2. /\ holder = NoScribe /\ burst[s].step = "none" /\ holder' = s
      /\ UNCHANGED <<ledger, partitions, ackedRecords, ackedPartitions, headLedger, refused,
                     broken, torn>>
  BY DEF BeginBurst
<1> DEFINE left == [i \in 1..n |-> lastRecord + i]
           records == {lastRecord + i : i \in 1..n}
           b == [NoBurst EXCEPT !.step = "append", !.active = last, !.lines = count,
                                !.highest = last, !.left = left, !.records = records,
                                !.partition = {p}]
<1>3. n \in Nat \ {0} /\ lastRecord \in Nat /\ MaxRecords \in Nat
      /\ lastRecord' \in 0..MaxRecords /\ lastRecord <= lastRecord'
  BY <1>1, AuditTyped, AuditLedgerAssumption
<1>4. left \in Seq(Nat) /\ DOMAIN left = 1..n /\ \A i \in 1..n : left[i] = lastRecord + i
  BY <1>3
<1>5. /\ records \in SUBSET Nat /\ records \subseteq 1..lastRecord'
      /\ \A r \in records : r > lastRecord
      /\ \A r \in records : \E i \in 1..n : r = lastRecord + i
      /\ \A i \in 1..n : lastRecord + i \in records
  BY <1>1, <1>3
<1>6. /\ last \in 0..lastRecord
      /\ \A m \in DOMAIN ledger : m \in Nat /\ m <= last
      /\ \/ last \in DOMAIN ledger
         \/ DOMAIN ledger = {} /\ last = 0
  BY LastSegmentIs
<1>7. count \in Nat /\ (last \notin DOMAIN ledger => count = 0)
  <2>1. CASE last \in DOMAIN ledger
    <3>1. ledger[last] \in Seq(Line)
      BY <2>1 DEF AuditInvariant, AuditTypes
    <3> QED
      BY <2>1, <3>1 DEF Lines
  <2>2. CASE last \notin DOMAIN ledger
    BY <2>2 DEF Lines
  <2> QED
    BY <2>1, <2>2
<1>8. last \in Nat
  BY <1>3, <1>6
<1>9. burst' = [burst EXCEPT ![s] = b]
  BY <1>1
<1> HIDE DEF left, records, last, count
<1>10. /\ b \in Burst /\ b.step = "append" /\ b.active = last /\ b.lines = count
       /\ b.highest = last /\ b.left = left /\ b.records = records /\ b.fenced = FALSE
  BY <1>4, <1>5, <1>7, <1>8 DEF NoBurst, Burst
<1> HIDE DEF b
<1>11. /\ burst' \in [Scribe -> Burst] /\ burst'[s] = b
       /\ \A q \in Scribe : q # s => burst'[q] = burst[q]
  BY <1>9, <1>10, AuditTyped, OneBurst
<1>12. 1..lastRecord \subseteq 1..lastRecord' /\ 0..lastRecord \subseteq 0..lastRecord'
  BY <1>3
<1>13. AuditTypes'
  BY <1>2, <1>3, <1>11, <1>12 DEF AuditInvariant, AuditTypes
<1>14. Gapless(ledger)'
  BY <1>2, <1>12 DEF AuditInvariant, Gapless
<1>15. LockFollowsBurst'
  BY <1>2, <1>10, <1>11, AuditTyped DEF AuditInvariant, LockFollowsBurst
<1>16. BurstsApart'
  <2>1. \A q \in Scribe : burst[q].records \subseteq 1..lastRecord
    BY DEF AuditInvariant, BurstsApart
  <2>2. \A r \in 1..lastRecord : r \notin records
    BY <1>3, <1>5
  <2>3. \A q \in Scribe : q # s => burst'[q].records \cap records = {}
    BY <1>11, <2>1, <2>2
  <2>4. \A i, j \in DOMAIN left : i < j => left[i] < left[j]
    BY <1>3, <1>4
  <2>5. \A i \in DOMAIN left : left[i] \in records
    BY <1>4, <1>5
  <2>6. ASSUME NEW q \in Scribe
        PROVE  /\ burst'[q].records \subseteq 1..lastRecord'
               /\ \A i \in DOMAIN burst'[q].left : burst'[q].left[i] \in burst'[q].records
               /\ \A i, j \in DOMAIN burst'[q].left :
                    i < j => burst'[q].left[i] < burst'[q].left[j]
               /\ burst'[q].step # "append" => burst'[q].left = <<>>
               /\ \A t \in Scribe : t # q => burst'[t].records \cap burst'[q].records = {}
    <3>1. CASE q = s
      <4>1. /\ burst'[q].records = records /\ burst'[q].left = left
            /\ burst'[q].step = "append"
        BY <3>1, <1>10, <1>11
      <4> QED
        BY <3>1, <4>1, <1>5, <2>3, <2>4, <2>5
    <3>2. CASE q # s
      <4>1. burst'[q] = burst[q]
        BY <3>2, <1>11
      <4>2. \A t \in Scribe : t # q => burst'[t].records \cap burst[q].records = {}
        BY <3>2, <4>1, <2>3, <1>10, <1>11 DEF AuditInvariant, BurstsApart
      <4> QED
        BY <4>1, <4>2, <1>12 DEF AuditInvariant, BurstsApart
    <3> QED
      BY <3>1, <3>2
  <2> QED
    BY <2>6 DEF BurstsApart
<1>17. SegmentRemembered'
  <2> SUFFICES ASSUME NEW q \in Scribe
               PROVE  /\ burst'[q].active = burst'[q].highest /\ burst'[q].active <= lastRecord'
                      /\ \/ burst'[q].active \in DOMAIN ledger'
                         \/ burst'[q].active = 0 /\ burst'[q].lines = 0
                      /\ \A i \in DOMAIN burst'[q].left : burst'[q].active < burst'[q].left[i]
    BY DEF SegmentRemembered
  <2>1. CASE q = s
    <3>1. \A i \in DOMAIN left : last < left[i]
      BY <1>3, <1>4, <1>6
    <3>2. last <= lastRecord'
      BY <1>3, <1>6
    <3> QED
      BY <2>1, <3>1, <3>2, <1>2, <1>6, <1>7, <1>10, <1>11
  <2>2. CASE q # s
    <3>1. burst'[q] = burst[q]
      BY <2>2, <1>11
    <3>2. /\ burst[q].active = burst[q].highest /\ burst[q].active <= lastRecord
          /\ burst[q].active \in DOMAIN ledger \/ (burst[q].active = 0 /\ burst[q].lines = 0)
          /\ \A i \in DOMAIN burst[q].left : burst[q].active < burst[q].left[i]
      BY DEF AuditInvariant, SegmentRemembered
    <3>3. burst[q].active \in Nat
      BY AuditTyped DEF Burst
    <3>4. burst[q].active <= lastRecord'
      BY <3>2, <3>3, <1>3
    <3> QED
      BY <1>2, <3>1, <3>2, <3>4
  <2> QED
    BY <2>1, <2>2
<1>18. EachOnce'
  <2> SUFFICES ASSUME ~torn
               PROVE  EachOnce'
    BY <1>2 DEF EachOnce
  <2>1. \A r : InLedger(r)' <=> InLedger(r)
    BY <1>2 DEF InLedger
  <2>2. \A r \in records : ~InLedger(r)
    <3>1. \A r : InLedger(r) => r \in 1..lastRecord
      BY DEF AuditInvariant, EachOnce, InLedger
    <3> QED
      BY <3>1, <1>3, <1>5
  <2>3. \A m \in DOMAIN ledger : \A i \in DOMAIN ledger[m] : ledger[m][i] \in 1..lastRecord'
    BY <1>12 DEF AuditInvariant, EachOnce
  <2>4. ASSUME NEW q \in Scribe, NEW i \in DOMAIN burst'[q].left
        PROVE  ~InLedger(burst'[q].left[i])
    <3>1. CASE q = s
      <4>1. burst'[q].left = left
        BY <3>1, <1>10, <1>11
      <4>2. i \in DOMAIN left /\ left[i] \in records
        BY <4>1, <1>4, <1>5
      <4> QED
        BY <2>2, <4>1, <4>2
    <3>2. CASE q # s
      <4>1. burst'[q] = burst[q]
        BY <3>2, <1>11
      <4> QED
        BY <4>1 DEF AuditInvariant, EachOnce
    <3> QED
      BY <3>1, <3>2
  <2>5. \A q \in Scribe : \A r \in burst'[q].records :
          InLedger(r) \/ \E i \in DOMAIN burst'[q].left : burst'[q].left[i] = r
    <3>1. \A r \in records : \E i \in DOMAIN left : left[i] = r
      BY <1>4, <1>5
    <3> QED
      BY <3>1, <1>10, <1>11 DEF AuditInvariant, EachOnce
  <2> QED
    BY <1>2, <2>1, <2>3, <2>4, <2>5 DEF AuditInvariant, EachOnce
<1>19. HeadIsBehind'
  BY <1>2 DEF AuditInvariant, HeadIsBehind
<1>20. InFlushOrder'
  <2> SUFFICES ASSUME ~torn, ~broken
               PROVE  InFlushOrder'
    BY <1>2 DEF InFlushOrder
  <2>1. \A q \in Scribe : q # s => burst'[q].step = "none"
    BY <1>2, <1>11, AuditTyped DEF AuditInvariant, LockFollowsBurst
  <2>2. \A m \in DOMAIN ledger : \A i \in DOMAIN ledger[m], k \in DOMAIN left :
          ledger[m][i] < left[k]
    <3>1. \A m \in DOMAIN ledger : \A i \in DOMAIN ledger[m] : ledger[m][i] \in 1..lastRecord
      BY DEF AuditInvariant, EachOnce
    <3> QED
      BY <3>1, <1>3, <1>4
  <2> QED
    BY <2>1, <2>2, <1>2, <1>6, <1>10, <1>11 DEF AuditInvariant, InFlushOrder
<1>21. ManifestInStep'
  BY <1>2, <1>10, <1>11 DEF AuditInvariant, ManifestInStep
<1> QED
  BY <1>13, <1>14, <1>15, <1>16, <1>17, <1>18, <1>19, <1>20, <1>21 DEF AuditInvariant


--------------------------------------------------------------------------------

\* One line is appended to one segment; behind a torn line it spoils that one.
LEMMA Appended ==
  ASSUME \A n \in DOMAIN ledger : ledger[n] \in Seq(Line) /\ Len(ledger[n]) > 0,
         NEW a, NEW line \in Line, 0 < MaxRecords, MaxRecords \in Nat,
         ledger' = AppendTo(ledger, a, line)
  PROVE  /\ DOMAIN ledger' = DOMAIN ledger \cup {a}
         /\ \A n \in DOMAIN ledger : n # a => ledger'[n] = ledger[n]
         /\ ledger'[a] \in Seq(Line) /\ Len(ledger'[a]) > 0
         /\ Lines(ledger, a) \in Seq(Line)
         /\ (\A i \in DOMAIN Lines(ledger, a) : Lines(ledger, a)[i] # Torn) =>
              ledger'[a] = Append(Lines(ledger, a), line)
<1> DEFINE old == Lines(ledger, a)
           spoilt == [old EXCEPT ![Len(old)] = Garbled]
           new == IF old # <<>> /\ old[Len(old)] = Torn THEN spoilt ELSE Append(old, line)
<1>1. old \in Seq(Line)
  BY DEF Lines
<1>2. Garbled \in Line
  BY DEF Garbled, Line
<1>3. Append(old, line) \in Seq(Line) /\ Len(Append(old, line)) > 0
  BY <1>1
<1>4. old # <<>> => spoilt \in Seq(Line) /\ Len(spoilt) > 0
  BY <1>1, <1>2
<1>5. ledger' = [m \in DOMAIN ledger \cup {a} |-> IF m = a THEN new ELSE ledger[m]]
  BY DEF AppendTo
<1>6. (\A i \in DOMAIN old : old[i] # Torn) => new = Append(old, line)
  BY <1>1
<1>7. new \in Seq(Line) /\ Len(new) > 0
  BY <1>3, <1>4
<1> HIDE DEF new, old
<1> QED
  BY <1>1, <1>5, <1>6, <1>7 DEF old

\* The segment of the next line: the active one, or a new one behind it; either way
\* no gap opens.
LEMMA Rotated ==
  ASSUME AuditInvariant, NEW s \in Scribe, burst[s].left # <<>>
  PROVE  /\ Rotate(burst[s]) \in Burst
         /\ Rotate(burst[s]).step = burst[s].step /\ Rotate(burst[s]).left = burst[s].left
         /\ Rotate(burst[s]).records = burst[s].records
         /\ Rotate(burst[s]).fenced = burst[s].fenced
         /\ Rotate(burst[s]).active = Rotate(burst[s]).highest
         /\ burst[s].active <= Rotate(burst[s]).active
         /\ Rotate(burst[s]).active <= Head(burst[s].left)
         /\ Head(burst[s].left) \in 1..lastRecord /\ Head(burst[s].left) \in burst[s].records
         /\ \E n \in 0..lastRecord : DOMAIN ledger \cup {Rotate(burst[s]).active} = 0..n
<1> DEFINE old == burst[s]
           h == old.highest + 1
           turned == [old EXCEPT !.highest = h, !.active = h, !.lines = 0]
           b == Rotate(burst[s])
<1>1. /\ lastRecord \in Nat /\ SegmentLines \in Nat \ {0}
      /\ old \in Burst /\ old.left \in Seq(Nat)
      /\ old.active \in Nat /\ old.lines \in Nat /\ old.highest \in Nat
  BY AuditTyped DEF Burst
<1>2. 1 \in DOMAIN old.left /\ Head(old.left) = old.left[1]
  BY <1>1
<1>3. Head(old.left) \in 1..lastRecord /\ Head(old.left) \in old.records
  BY <1>2 DEF AuditInvariant, BurstsApart
<1>4. /\ old.active = old.highest /\ old.active < Head(old.left)
      /\ old.active \in DOMAIN ledger \/ (old.active = 0 /\ old.lines = 0)
  BY <1>2 DEF AuditInvariant, SegmentRemembered
<1>5. DOMAIN ledger = {} \/ \E n \in 0..lastRecord : DOMAIN ledger = 0..n
  BY DEF AuditInvariant, Gapless
<1>6. old.lines >= SegmentLines => b = turned
  BY DEF Rotate
<1>7. ~(old.lines >= SegmentLines) => b = old
  BY DEF Rotate
<1>8. h \in Nat /\ h = old.active + 1 /\ old.active <= h /\ h <= Head(old.left)
  BY <1>1, <1>3, <1>4
<1> HIDE DEF h
<1>9. /\ turned \in Burst /\ turned.step = old.step /\ turned.left = old.left
      /\ turned.records = old.records /\ turned.fenced = old.fenced
      /\ turned.active = h /\ turned.highest = h
  BY <1>1, <1>8 DEF Burst
<1> HIDE DEF turned, b
<1>10. CASE old.lines >= SegmentLines
  <2>1. old.active \in DOMAIN ledger
    BY <1>1, <1>4, <1>10
  <2>2. PICK n \in 0..lastRecord : DOMAIN ledger = 0..n
    BY <1>5, <2>1
  <2>3. old.active \in 0..n
    BY <2>1, <2>2
  <2>4. \E m \in 0..lastRecord : DOMAIN ledger \cup {h} = 0..m
    <3>1. CASE old.active = n
      <4>1. n + 1 \in 0..lastRecord /\ h = n + 1
        BY <1>1, <1>3, <1>8, <3>1
      <4>2. 0..n \cup {n + 1} = 0..(n + 1)
        BY <1>1
      <4> QED
        BY <2>2, <4>1, <4>2
    <3>2. CASE old.active # n
      <4>1. h \in 0..n
        BY <1>1, <1>8, <2>3, <3>2
      <4> QED
        BY <2>2, <4>1
    <3> QED
      BY <3>1, <3>2
  <2>5. b = turned
    BY <1>6, <1>10
  <2> QED
    BY <1>3, <1>8, <1>9, <2>4, <2>5 DEF b
<1>11. CASE ~(old.lines >= SegmentLines)
  <2>1. \E n \in 0..lastRecord : DOMAIN ledger \cup {old.active} = 0..n
    <3>1. CASE DOMAIN ledger = {}
      <4>1. old.active = 0 /\ {0} = 0..0 /\ 0 \in 0..lastRecord
        BY <1>1, <1>4, <3>1
      <4> QED
        BY <3>1, <4>1
    <3>2. CASE DOMAIN ledger # {}
      <4>1. PICK n \in 0..lastRecord : DOMAIN ledger = 0..n
        BY <1>5, <3>2
      <4>2. old.active \in 0..n
        BY <1>1, <1>4, <4>1
      <4> QED
        BY <4>1, <4>2
    <3> QED
      BY <3>1, <3>2
  <2>2. old.active <= old.active /\ old.active <= Head(old.left)
    BY <1>1, <1>3, <1>4
  <2>3. b = old
    BY <1>7, <1>11
  <2> QED
    BY <1>1, <1>3, <1>4, <2>1, <2>2, <2>3 DEF b
<1> QED
  BY <1>10, <1>11

\* Without a torn line the ledger grows by one line, at the end of one segment.
LEMMA Grown ==
  ASSUME AuditInvariant, ~torn, NEW a, NEW r \in 1..lastRecord,
         ledger' = AppendTo(ledger, a, r)
  PROVE  /\ \A n \in DOMAIN ledger :
              /\ n \in DOMAIN ledger' /\ Len(ledger[n]) <= Len(ledger'[n])
              /\ \A i \in DOMAIN ledger[n] : i \in DOMAIN ledger'[n] /\ ledger'[n][i] = ledger[n][i]
         /\ a \in DOMAIN ledger'
         /\ Len(ledger'[a]) \in DOMAIN ledger'[a] /\ ledger'[a][Len(ledger'[a])] = r
         /\ a \in DOMAIN ledger => \A i \in DOMAIN ledger[a] : i < Len(ledger'[a])
         /\ \A n \in DOMAIN ledger' : \A i \in DOMAIN ledger'[n] :
              \/ n \in DOMAIN ledger /\ i \in DOMAIN ledger[n]
              \/ n = a /\ i = Len(ledger'[a])
<1>1. /\ \A n \in DOMAIN ledger : ledger[n] \in Seq(Line) /\ Len(ledger[n]) > 0
      /\ 0 < MaxRecords /\ MaxRecords \in Nat
      /\ r \in Line
  BY AuditLedgerAssumption DEF AuditInvariant, AuditTypes, Line
<1>2. \A i \in DOMAIN Lines(ledger, a) : Lines(ledger, a)[i] # Torn
  <2>1. \A n \in DOMAIN ledger : \A i \in DOMAIN ledger[n] : ledger[n][i] \in 1..lastRecord
    BY DEF AuditInvariant, EachOnce
  <2> QED
    BY <2>1 DEF Lines, Torn
<1> DEFINE old == Lines(ledger, a)
<1>3. /\ DOMAIN ledger' = DOMAIN ledger \cup {a}
      /\ \A n \in DOMAIN ledger : n # a => ledger'[n] = ledger[n]
      /\ old \in Seq(Line) /\ ledger'[a] = Append(old, r)
  BY <1>1, <1>2, Appended
<1>4. a \in DOMAIN ledger => old = ledger[a]
  BY DEF Lines
<1>5. a \notin DOMAIN ledger => old = <<>>
  BY DEF Lines
<1> HIDE DEF old
<1>6. /\ Len(ledger'[a]) = Len(old) + 1 /\ Len(old) \in Nat
      /\ DOMAIN ledger'[a] = 1..(Len(old) + 1) /\ DOMAIN old = 1..Len(old)
      /\ ledger'[a][Len(old) + 1] = r
      /\ \A i \in 1..Len(old) : ledger'[a][i] = old[i]
  BY <1>1, <1>3
<1>7. ASSUME NEW n \in DOMAIN ledger
      PROVE  /\ n \in DOMAIN ledger' /\ Len(ledger[n]) <= Len(ledger'[n])
             /\ \A i \in DOMAIN ledger[n] : i \in DOMAIN ledger'[n] /\ ledger'[n][i] = ledger[n][i]
  <2>1. CASE n = a
    BY <2>1, <1>3, <1>4, <1>6
  <2>2. CASE n # a
    <3>1. Len(ledger[n]) \in Nat
      BY <1>1
    <3> QED
      BY <2>2, <3>1, <1>3
  <2> QED
    BY <2>1, <2>2
<1>8. /\ a \in DOMAIN ledger'
      /\ Len(ledger'[a]) \in DOMAIN ledger'[a] /\ ledger'[a][Len(ledger'[a])] = r
      /\ a \in DOMAIN ledger => \A i \in DOMAIN ledger[a] : i < Len(ledger'[a])
  BY <1>3, <1>4, <1>6
<1>9. ASSUME NEW n \in DOMAIN ledger', NEW i \in DOMAIN ledger'[n]
      PROVE  \/ n \in DOMAIN ledger /\ i \in DOMAIN ledger[n]
             \/ n = a /\ i = Len(ledger'[a])
  <2>1. CASE n = a
    <3>1. i \in 1..Len(old) \/ i = Len(old) + 1
      BY <2>1, <1>6
    <3>2. i \in 1..Len(old) => a \in DOMAIN ledger
      BY <1>5
    <3> QED
      BY <2>1, <3>1, <3>2, <1>4, <1>6
  <2>2. CASE n # a
    BY <2>2, <1>3
  <2> QED
    BY <2>1, <2>2
<1> QED
  BY <1>7, <1>8, <1>9


\* What a line more does to the facts that do not look at lines.
LEMMA SegmentsStay ==
  ASSUME AuditInvariant, NEW s \in Scribe, NEW a, NEW line \in Line,
         \E n \in 0..lastRecord : DOMAIN ledger \cup {a} = 0..n,
         ledger' = AppendTo(ledger, a, line), UNCHANGED lastRecord
  PROVE  /\ DOMAIN ledger' = DOMAIN ledger \cup {a}
         /\ \A n \in DOMAIN ledger' : ledger'[n] \in Seq(Line) /\ Len(ledger'[n]) > 0
         /\ Gapless(ledger)'
<1>1. /\ \A n \in DOMAIN ledger : ledger[n] \in Seq(Line) /\ Len(ledger[n]) > 0
      /\ 0 < MaxRecords /\ MaxRecords \in Nat
  BY AuditLedgerAssumption DEF AuditInvariant, AuditTypes
<1>2. /\ DOMAIN ledger' = DOMAIN ledger \cup {a}
      /\ \A n \in DOMAIN ledger : n # a => ledger'[n] = ledger[n]
      /\ ledger'[a] \in Seq(Line) /\ Len(ledger'[a]) > 0
  BY <1>1, Appended
<1>3. \A n \in DOMAIN ledger' : ledger'[n] \in Seq(Line) /\ Len(ledger'[n]) > 0
  BY <1>1, <1>2
<1>4. Gapless(ledger)'
  BY <1>2 DEF Gapless
<1> QED
  BY <1>2, <1>3, <1>4

\* The rest of a sequence.
LEMMA RestIs ==
  ASSUME NEW l \in Seq(Nat), l # <<>>
  PROVE  /\ Tail(l) \in Seq(Nat) /\ Head(l) = l[1] /\ 1 \in DOMAIN l
         /\ \A i \in DOMAIN Tail(l) : i + 1 \in DOMAIN l /\ Tail(l)[i] = l[i + 1] /\ i \in Nat \ {0}
         /\ \A i \in DOMAIN l : i = 1 \/ (i - 1 \in DOMAIN Tail(l) /\ Tail(l)[i - 1] = l[i])
<1>1. /\ Len(l) \in Nat \ {0} /\ DOMAIN l = 1..Len(l) /\ Head(l) = l[1]
      /\ Tail(l) \in Seq(Nat) /\ DOMAIN Tail(l) = 1..(Len(l) - 1)
  OBVIOUS
<1>2. \A i \in 1..(Len(l) - 1) : Tail(l)[i] = l[i + 1]
  OBVIOUS
<1>3. \A i \in 1..(Len(l) - 1) : i + 1 \in 1..Len(l) /\ i \in Nat \ {0}
  BY <1>1
<1>4. ASSUME NEW i \in 1..Len(l), i # 1
      PROVE  i - 1 \in 1..(Len(l) - 1) /\ Tail(l)[i - 1] = l[i]
  <2>1. i - 1 \in 1..(Len(l) - 1) /\ (i - 1) + 1 = i
    BY <1>1, <1>4
  <2> QED
    BY <2>1, <1>2
<1>5. 1 \in DOMAIN l
  BY <1>1
<1> QED
  BY <1>1, <1>2, <1>3, <1>4, <1>5

\* A record is appended.
LEMMA AppendKeeps ==
  ASSUME AuditInvariant, NEW s \in Scribe, AppendRecord(s)
  PROVE  AuditInvariant'
<1> DEFINE b0 == Rotate(burst[s])
           a == b0.active
           left == burst[s].left
           r == Head(left)
           count == b0.lines + 1
           b == [b0 EXCEPT !.lines = count, !.left = Tail(b0.left)]
<1>1. /\ burst[s].step = "append" /\ left # <<>>
      /\ ledger' = AppendTo(ledger, a, Head(b0.left))
      /\ burst' = [burst EXCEPT ![s] = b]
      /\ UNCHANGED <<partitions, holder, lastRecord, ackedRecords, ackedPartitions, headLedger,
                     refused, broken, torn>>
  BY DEF AppendRecord
<1>2. /\ b0 \in Burst /\ b0.step = "append" /\ b0.left = left
      /\ b0.records = burst[s].records /\ b0.fenced = burst[s].fenced
      /\ b0.active = b0.highest /\ burst[s].active <= a /\ a <= r
      /\ r \in 1..lastRecord /\ r \in burst[s].records
      /\ \E n \in 0..lastRecord : DOMAIN ledger \cup {a} = 0..n
  BY <1>1, Rotated
<1>3. lastRecord \in Nat /\ left \in Seq(Nat) /\ a \in Nat /\ lastRecord <= MaxRecords
      /\ MaxRecords \in Nat /\ burst[s].active \in Nat
  BY <1>2, AuditTyped DEF AuditInvariant, AuditTypes, Burst
<1>4. r \in Line /\ r \in Nat
  BY <1>2, <1>3 DEF Line
<1>5. ledger' = AppendTo(ledger, a, r)
  BY <1>1, <1>2
<1> HIDE DEF b0
<1>5b. count \in Nat
  BY <1>2 DEF Burst
<1> HIDE DEF count
<1>6. /\ Tail(left) \in Seq(Nat) /\ r = left[1] /\ 1 \in DOMAIN left
      /\ \A i \in DOMAIN Tail(left) :
           i + 1 \in DOMAIN left /\ Tail(left)[i] = left[i + 1] /\ i \in Nat \ {0}
      /\ \A i \in DOMAIN left : i = 1 \/ (i - 1 \in DOMAIN Tail(left) /\ Tail(left)[i - 1] = left[i])
  BY <1>1, <1>3, RestIs
<1>7. \A i, j \in DOMAIN left : i < j => left[i] < left[j]
  BY DEF AuditInvariant, BurstsApart
<1>8. \A i \in DOMAIN Tail(left) : r < Tail(left)[i]
  BY <1>6, <1>7
<1>9. /\ b \in Burst /\ b.step = "append" /\ b.left = Tail(left) /\ b.records = burst[s].records
      /\ b.fenced = burst[s].fenced /\ b.active = a /\ b.highest = a
  BY <1>2, <1>6, <1>5b DEF Burst
<1> HIDE DEF b, a, r, left
<1>10. /\ burst' \in [Scribe -> Burst] /\ burst'[s] = b
       /\ \A q \in Scribe : q # s => burst'[q] = burst[q]
  BY <1>1, <1>9, AuditTyped, OneBurst
<1>11. /\ DOMAIN ledger' = DOMAIN ledger \cup {a}
       /\ \A n \in DOMAIN ledger' : ledger'[n] \in Seq(Line) /\ Len(ledger'[n]) > 0
       /\ Gapless(ledger)'
  BY <1>1, <1>2, <1>4, <1>5, SegmentsStay
<1>12. AuditTypes'
  BY <1>1, <1>10, <1>11 DEF AuditInvariant, AuditTypes
<1>13. LockFollowsBurst'
  BY <1>1, <1>9, <1>10 DEF AuditInvariant, LockFollowsBurst
<1>14. BurstsApart'
  <2>1. \A q \in Scribe : burst'[q].records = burst[q].records
    BY <1>9, <1>10
  <2>2. \A i, j \in DOMAIN Tail(left) : i < j => Tail(left)[i] < Tail(left)[j]
    BY <1>6, <1>7
  <2>3. \A i \in DOMAIN Tail(left) : Tail(left)[i] \in burst[s].records
    BY <1>6 DEF AuditInvariant, BurstsApart, left
  <2>4. ASSUME NEW q \in Scribe
        PROVE  /\ burst[q].records \subseteq 1..lastRecord
               /\ \A i \in DOMAIN burst'[q].left : burst'[q].left[i] \in burst[q].records
               /\ \A i, j \in DOMAIN burst'[q].left :
                    i < j => burst'[q].left[i] < burst'[q].left[j]
               /\ burst'[q].step # "append" => burst'[q].left = <<>>
               /\ \A t \in Scribe : t # q => burst[t].records \cap burst[q].records = {}
    <3>1. CASE q = s
      BY <2>2, <2>3, <3>1, <1>9, <1>10 DEF AuditInvariant, BurstsApart
    <3>2. CASE q # s
      BY <3>2, <1>10 DEF AuditInvariant, BurstsApart
    <3> QED
      BY <3>1, <3>2
  <2> QED
    BY <2>1, <2>4, <1>1 DEF BurstsApart
<1>15. SegmentRemembered'
  <2>1. a <= lastRecord
    BY <1>2, <1>3
  <2>2. \A i \in DOMAIN Tail(left) : a < Tail(left)[i]
    <3> SUFFICES ASSUME NEW i \in DOMAIN Tail(left)
                 PROVE  a < Tail(left)[i]
      OBVIOUS
    <3>1. Tail(left)[i] \in Nat /\ r < Tail(left)[i] /\ a <= r
      BY <1>2, <1>6, <1>8
    <3> QED
      BY <3>1, <1>3, <1>4
  <2>3. ASSUME NEW q \in Scribe
        PROVE  /\ burst'[q].active = burst'[q].highest /\ burst'[q].active <= lastRecord
               /\ \/ burst'[q].active \in DOMAIN ledger'
                  \/ burst'[q].active = 0 /\ burst'[q].lines = 0
               /\ \A i \in DOMAIN burst'[q].left : burst'[q].active < burst'[q].left[i]
    <3>1. CASE q = s
      BY <2>1, <2>2, <3>1, <1>9, <1>10, <1>11
    <3>2. CASE q # s
      BY <3>2, <1>10, <1>11 DEF AuditInvariant, SegmentRemembered
    <3> QED
      BY <3>1, <3>2
  <2> QED
    BY <2>3, <1>1 DEF SegmentRemembered
<1>16. ManifestInStep'
  BY <1>1, <1>9, <1>10 DEF AuditInvariant, ManifestInStep
<1>17. ASSUME ~torn
       PROVE  EachOnce' /\ HeadIsBehind' /\ InFlushOrder'
  <2> DEFINE end == Len(ledger'[a])
  <2>1. /\ \A n \in DOMAIN ledger :
             /\ n \in DOMAIN ledger' /\ Len(ledger[n]) <= Len(ledger'[n])
             /\ \A i \in DOMAIN ledger[n] : i \in DOMAIN ledger'[n] /\ ledger'[n][i] = ledger[n][i]
        /\ a \in DOMAIN ledger' /\ end \in DOMAIN ledger'[a] /\ ledger'[a][end] = r
        /\ a \in DOMAIN ledger => \A i \in DOMAIN ledger[a] : i < end
        /\ \A n \in DOMAIN ledger' : \A i \in DOMAIN ledger'[n] :
             \/ n \in DOMAIN ledger /\ i \in DOMAIN ledger[n]
             \/ n = a /\ i = end
    BY <1>2, <1>5, <1>17, Grown
  <2> HIDE DEF end
  <2>2. \A x : InLedger(x)' <=> (InLedger(x) \/ x = r)
    BY <2>1 DEF InLedger
  <2>3. ~InLedger(r)
    BY <1>6, <1>17 DEF AuditInvariant, EachOnce, left
  <2>4. EachOnce'
    <3>1. \A n \in DOMAIN ledger' : \A i \in DOMAIN ledger'[n] : ledger'[n][i] \in 1..lastRecord
      BY <2>1, <1>2, <1>17 DEF AuditInvariant, EachOnce
    <3>2. ASSUME NEW n \in DOMAIN ledger', NEW m \in DOMAIN ledger',
                 NEW i \in DOMAIN ledger'[n], NEW j \in DOMAIN ledger'[m],
                 ledger'[n][i] = ledger'[m][j]
          PROVE  n = m /\ i = j
      <4>1. CASE /\ n \in DOMAIN ledger /\ i \in DOMAIN ledger[n]
                 /\ m \in DOMAIN ledger /\ j \in DOMAIN ledger[m]
        BY <4>1, <3>2, <2>1, <1>17 DEF AuditInvariant, EachOnce
      <4>2. CASE n = a /\ i = end /\ m \in DOMAIN ledger /\ j \in DOMAIN ledger[m]
        <5>1. ledger[m][j] = r
          BY <4>2, <3>2, <2>1
        <5> QED
          BY <4>2, <5>1, <2>3 DEF InLedger
      <4>3. CASE m = a /\ j = end /\ n \in DOMAIN ledger /\ i \in DOMAIN ledger[n]
        <5>1. ledger[n][i] = r
          BY <4>3, <3>2, <2>1
        <5> QED
          BY <4>3, <5>1, <2>3 DEF InLedger
      <4> QED
        BY <4>1, <4>2, <4>3, <2>1
    <3>3. \A q \in Scribe : \A i \in DOMAIN burst'[q].left : ~(InLedger(burst[q].left[i])')
      <4> SUFFICES ASSUME NEW q \in Scribe, NEW i \in DOMAIN burst'[q].left
                   PROVE  ~InLedger(burst'[q].left[i]) /\ burst'[q].left[i] # r
        BY <2>2 DEF InLedger
      <4>1. CASE q = s
        <5>1. i \in DOMAIN Tail(left) /\ burst'[q].left[i] = Tail(left)[i]
          BY <4>1, <1>9, <1>10
        <5>2. Tail(left)[i] = left[i + 1] /\ i + 1 \in DOMAIN left /\ r < Tail(left)[i]
              /\ Tail(left)[i] \in Nat
          BY <5>1, <1>6, <1>8
        <5>3. ~InLedger(left[i + 1])
          BY <5>2, <1>17 DEF AuditInvariant, EachOnce, left
        <5> QED
          BY <5>1, <5>2, <5>3, <1>4
      <4>2. CASE q # s
        <5>1. burst'[q] = burst[q]
          BY <4>2, <1>10
        <5>2. burst[q].left[i] \in burst[q].records
              /\ burst[q].records \cap burst[s].records = {}
          BY <4>2, <5>1 DEF AuditInvariant, BurstsApart
        <5>3. ~InLedger(burst[q].left[i])
          BY <5>1, <1>17 DEF AuditInvariant, EachOnce
        <5> QED
          BY <5>1, <5>2, <5>3, <1>2
      <4> QED
        BY <4>1, <4>2
    <3>4. ASSUME NEW q \in Scribe, NEW x \in burst'[q].records
          PROVE  InLedger(x)' \/ \E i \in DOMAIN burst'[q].left : burst'[q].left[i] = x
      <4>1. x \in burst[q].records
        BY <3>4, <1>9, <1>10
      <4>2. InLedger(x) \/ \E i \in DOMAIN burst[q].left : burst[q].left[i] = x
        BY <4>1, <1>17 DEF AuditInvariant, EachOnce
      <4>3. CASE q = s
        <5>1. InLedger(x) \/ \E i \in DOMAIN left : left[i] = x
          BY <4>2, <4>3 DEF left
        <5>2. InLedger(x) \/ x = r \/ \E i \in DOMAIN Tail(left) : Tail(left)[i] = x
          BY <5>1, <1>6
        <5> QED
          BY <5>2, <4>3, <2>2, <1>9, <1>10
      <4>4. CASE q # s
        BY <4>2, <4>4, <2>2, <1>10
      <4> QED
        BY <4>3, <4>4
    <3>5. \A x \in ackedRecords' : InLedger(x)'
      BY <2>2, <1>1, <1>17 DEF AuditInvariant, EachOnce
    <3> QED
      BY <1>1, <3>1, <3>2, <3>3, <3>4, <3>5 DEF EachOnce, InLedger
  <2>5. HeadIsBehind'
    <3>1. DOMAIN headLedger = {} \/ 0 \in DOMAIN headLedger
      BY <1>17 DEF AuditInvariant, HeadIsBehind
    <3>2. ~refused
      BY <1>17 DEF AuditInvariant, HeadIsBehind
    <3>3. ASSUME NEW n \in DOMAIN headLedger
          PROVE  /\ n \in DOMAIN ledger' /\ Len(headLedger[n]) <= Len(ledger'[n])
                 /\ \A i \in 1..Len(headLedger[n]) : headLedger[n][i] = ledger'[n][i]
      <4>1. /\ n \in DOMAIN ledger /\ Len(headLedger[n]) <= Len(ledger[n])
            /\ \A i \in 1..Len(headLedger[n]) : headLedger[n][i] = ledger[n][i]
        BY <1>17 DEF AuditInvariant, HeadIsBehind
      <4>2. ledger[n] \in Seq(Line) /\ headLedger[n] \in Seq(Line) /\ ledger'[n] \in Seq(Line)
        BY <4>1, <1>11 DEF AuditInvariant, AuditTypes
      <4>3. \A i \in 1..Len(headLedger[n]) : i \in DOMAIN ledger[n]
        BY <4>1, <4>2
      <4>4. n \in DOMAIN ledger' /\ Len(ledger[n]) <= Len(ledger'[n])
            /\ \A i \in DOMAIN ledger[n] : ledger'[n][i] = ledger[n][i]
        BY <4>1, <2>1
      <4>5. Len(headLedger[n]) <= Len(ledger'[n])
        BY <4>1, <4>2, <4>4
      <4> QED
        BY <4>1, <4>3, <4>4, <4>5
    <3> QED
      BY <3>1, <3>2, <3>3, <1>1 DEF HeadIsBehind
  <2>6. InFlushOrder'
    <3> SUFFICES ASSUME ~broken
                 PROVE  InFlushOrder'
      BY <1>1 DEF InFlushOrder
    <3>1. \A q \in Scribe : q # s => burst'[q].step = "none"
      BY <1>1, <1>10 DEF AuditInvariant, LockFollowsBurst
    <3>2. /\ \A n \in DOMAIN ledger : n <= burst[s].active
          /\ \A n \in DOMAIN ledger : \A i \in DOMAIN ledger[n], k \in DOMAIN left :
               ledger[n][i] < left[k]
      BY <1>1, <1>17 DEF AuditInvariant, InFlushOrder, left
    <3>3. \A n \in DOMAIN ledger : n \in Nat /\ n <= a
      <4>1. \A n \in DOMAIN ledger : n \in Nat
        BY LastSegmentIs
      <4> QED
        BY <4>1, <3>2, <1>2, <1>3
    <3>4. \A n \in DOMAIN ledger' : n \in Nat /\ n <= a
      BY <3>3, <1>3, <1>11
    <3>5. \A n \in DOMAIN ledger' : \A i \in DOMAIN ledger'[n], k \in DOMAIN Tail(left) :
            ledger'[n][i] < Tail(left)[k]
      <4> SUFFICES ASSUME NEW n \in DOMAIN ledger', NEW i \in DOMAIN ledger'[n],
                          NEW k \in DOMAIN Tail(left)
                   PROVE  ledger'[n][i] < Tail(left)[k]
        OBVIOUS
      <4>1. CASE n \in DOMAIN ledger /\ i \in DOMAIN ledger[n]
        BY <4>1, <2>1, <3>2, <1>6
      <4>2. CASE n = a /\ i = end
        BY <4>2, <2>1, <1>8
      <4> QED
        BY <4>1, <4>2, <2>1
    <3>6. ASSUME NEW n \in DOMAIN ledger', NEW m \in DOMAIN ledger',
                 NEW i \in DOMAIN ledger'[n], NEW j \in DOMAIN ledger'[m],
                 n < m \/ (n = m /\ i < j)
          PROVE  ledger'[n][i] < ledger'[m][j]
      <4>1. CASE /\ n \in DOMAIN ledger /\ i \in DOMAIN ledger[n]
                 /\ m \in DOMAIN ledger /\ j \in DOMAIN ledger[m]
        <5>1. ledger[n][i] < ledger[m][j]
          BY <4>1, <3>6, <1>17 DEF AuditInvariant, InFlushOrder
        <5> QED
          BY <4>1, <5>1, <2>1
      <4>2. CASE n = a /\ i = end
        <5>1. m \in Nat /\ m <= a /\ a \in Nat
          BY <3>4, <1>3
        <5>2. m = a /\ end < j
          BY <4>2, <5>1, <3>6
        <5>3. end \in Nat /\ j \in Nat
          BY <5>2, <1>11, <2>1
        <5>4. j # end /\ ~(j < end)
          BY <5>2, <5>3
        <5> QED
          BY <5>2, <5>4, <2>1
      <4>3. CASE /\ n \in DOMAIN ledger /\ i \in DOMAIN ledger[n]
                 /\ m = a /\ j = end
        <5>1. ledger[n][i] < r
          BY <4>3, <3>2, <1>6
        <5> QED
          BY <4>3, <5>1, <2>1
      <4> QED
        BY <4>1, <4>2, <4>3, <2>1
    <3> QED
      BY <3>1, <3>4, <3>5, <3>6, <1>9, <1>10 DEF InFlushOrder
  <2> QED
    BY <2>4, <2>5, <2>6
<1>18. CASE torn
  BY <1>1, <1>11, <1>12, <1>13, <1>14, <1>15, <1>16, <1>18
     DEF AuditInvariant, EachOnce, HeadIsBehind, InFlushOrder
<1> QED
  BY <1>11, <1>12, <1>13, <1>14, <1>15, <1>16, <1>17, <1>18 DEF AuditInvariant


\* A write fails half-way: from now on nothing is said of the lines.
LEMMA TearKeeps ==
  ASSUME AuditInvariant, NEW s \in Scribe, TearRecord(s)
  PROVE  AuditInvariant'
<1> DEFINE a == Rotate(burst[s]).active
<1>1. /\ burst[s].left # <<>> /\ ledger' = AppendTo(ledger, a, Torn)
      /\ burst' = [burst EXCEPT ![s] = NoBurst]
      /\ holder' = IF holder = s THEN NoScribe ELSE holder
      /\ torn' = TRUE
      /\ UNCHANGED <<partitions, lastRecord, ackedRecords, ackedPartitions, headLedger, refused,
                     broken>>
  BY DEF TearRecord, Released
<1>2. \E n \in 0..lastRecord : DOMAIN ledger \cup {a} = 0..n
  BY <1>1, Rotated
<1>3. Torn \in Line
  BY AuditTyped DEF Torn, Line
<1> HIDE DEF a
<1>4. /\ DOMAIN ledger' = DOMAIN ledger \cup {a}
      /\ \A n \in DOMAIN ledger' : ledger'[n] \in Seq(Line) /\ Len(ledger'[n]) > 0
      /\ Gapless(ledger)'
  BY <1>1, <1>2, <1>3, SegmentsStay
<1>5. /\ burst' \in [Scribe -> Burst] /\ burst'[s] = NoBurst
      /\ \A q \in Scribe : q # s => burst'[q] = burst[q]
  BY <1>1, AuditTyped, NoBurstIs, OneBurst
<1>6. AuditTypes'
  BY <1>1, <1>4, <1>5 DEF AuditInvariant, AuditTypes
<1>7. LockFollowsBurst'
  BY <1>1, <1>5, NoBurstIs, AuditTyped DEF AuditInvariant, LockFollowsBurst
<1>8. BurstsApart'
  <2>1. \A q \in Scribe : burst'[q].records \subseteq burst[q].records
    BY <1>5, NoBurstIs
  <2>2. \A q, t \in Scribe : t # q => burst'[t].records \cap burst'[q].records = {}
    BY <2>1 DEF AuditInvariant, BurstsApart
  <2>3. ASSUME NEW q \in Scribe
        PROVE  /\ burst'[q].records \subseteq 1..lastRecord
               /\ \A i \in DOMAIN burst'[q].left : burst'[q].left[i] \in burst'[q].records
               /\ \A i, j \in DOMAIN burst'[q].left :
                    i < j => burst'[q].left[i] < burst'[q].left[j]
               /\ burst'[q].step # "append" => burst'[q].left = <<>>
    <3>1. CASE q = s
      BY <3>1, <1>5, NoBurstIs
    <3>2. CASE q # s
      BY <3>2, <1>5 DEF AuditInvariant, BurstsApart
    <3> QED
      BY <3>1, <3>2
  <2> QED
    BY <2>2, <2>3, <1>1 DEF BurstsApart
<1>9. SegmentRemembered'
  <2>1. ASSUME NEW q \in Scribe
        PROVE  /\ burst'[q].active = burst'[q].highest /\ burst'[q].active <= lastRecord
               /\ \/ burst'[q].active \in DOMAIN ledger'
                  \/ burst'[q].active = 0 /\ burst'[q].lines = 0
               /\ \A i \in DOMAIN burst'[q].left : burst'[q].active < burst'[q].left[i]
    <3>1. CASE q = s
      BY <3>1, <1>5, NoBurstIs, AuditTyped
    <3>2. CASE q # s
      BY <3>2, <1>4, <1>5 DEF AuditInvariant, SegmentRemembered
    <3> QED
      BY <3>1, <3>2
  <2> QED
    BY <2>1, <1>1 DEF SegmentRemembered
<1>10. ManifestInStep'
  BY <1>1, <1>5, NoBurstIs DEF AuditInvariant, ManifestInStep
<1>11. EachOnce' /\ HeadIsBehind' /\ InFlushOrder'
  BY <1>1 DEF EachOnce, HeadIsBehind, InFlushOrder
<1> QED
  BY <1>4, <1>6, <1>7, <1>8, <1>9, <1>10, <1>11 DEF AuditInvariant

--------------------------------------------------------------------------------

\* An empty ledger.
LEMMA AuditStarts ==
  ASSUME AuditLedgerInit
  PROVE  AuditInvariant
<1>1. /\ ledger = [n \in {} |-> <<>>] /\ headLedger = ledger /\ partitions = {}
      /\ holder = NoScribe /\ burst = [s \in Scribe |-> NoBurst] /\ lastRecord = 0
      /\ ackedRecords = {} /\ ackedPartitions = {}
      /\ refused = FALSE /\ broken = FALSE /\ torn = FALSE
  BY DEF AuditLedgerInit
<1>2. DOMAIN ledger = {} /\ DOMAIN headLedger = {}
  BY <1>1
<1>3. \A s \in Scribe : burst[s] = NoBurst
  BY <1>1
<1>4. NoScribe \notin Scribe /\ 0 \in 0..MaxRecords
  BY AuditLedgerAssumption
<1>5. AuditTypes
  BY <1>1, <1>2, <1>4, NoBurstIs DEF AuditTypes
<1>6. Gapless(ledger) /\ HeadIsBehind
  BY <1>1, <1>2 DEF Gapless, HeadIsBehind
<1>7. LockFollowsBurst
  BY <1>1, <1>3, <1>4, NoBurstIs DEF LockFollowsBurst
<1>8. BurstsApart /\ SegmentRemembered
  BY <1>1, <1>3, NoBurstIs DEF BurstsApart, SegmentRemembered
<1>9. EachOnce
  BY <1>1, <1>2, <1>3, NoBurstIs DEF EachOnce
<1>10. InFlushOrder
  BY <1>2, <1>3, NoBurstIs DEF InFlushOrder
<1>11. ManifestInStep
  BY <1>1, <1>3, NoBurstIs DEF ManifestInStep
<1> QED
  BY <1>5, <1>6, <1>7, <1>8, <1>9, <1>10, <1>11 DEF AuditInvariant

\* Every step keeps the invariant.
LEMMA AuditStep ==
  ASSUME AuditInvariant, [AuditLedgerNext]_auditLedgerVars
  PROVE  AuditInvariant'
<1>1. ASSUME NEW s \in Scribe,
             \/ BeginBurst(s) \/ AppendRecord(s) \/ TearRecord(s) \/ AssertCurrent(s)
             \/ ReadManifest(s) \/ WriteManifest(s) \/ Acknowledge(s)
             \/ KillScribe(s)
      PROVE  AuditInvariant'
  BY <1>1, BeginKeeps, AppendKeeps, TearKeeps, AssertKeeps, ReadKeeps, WriteManifestKeeps,
     AcknowledgeKeeps, KillKeeps
<1>2. CASE BreakLock
  BY <1>2, BreakKeeps
<1>3. CASE CommitLedger
  BY <1>3, CommitKeeps
<1>4. CASE UNCHANGED auditLedgerVars
  BY <1>4 DEF auditLedgerVars, AuditInvariant, AuditTypes, Gapless, LockFollowsBurst, BurstsApart,
     SegmentRemembered, EachOnce, InLedger, HeadIsBehind, InFlushOrder, ManifestInStep
<1> QED
  BY <1>1, <1>2, <1>3, <1>4 DEF AuditLedgerNext

\* The invariant of the ledger, for any number of processes, partitions and records, any
\* segment length, and with the lock broken (AuditLedger.append, rotate, addPartition).
THEOREM AuditInvariantHolds == AuditLedgerSpec => []AuditInvariant
<1>1. AuditLedgerInit => AuditInvariant
  BY AuditStarts
<1>2. AuditInvariant /\ [AuditLedgerNext]_auditLedgerVars => AuditInvariant'
  BY AuditStep
<1> QED
  BY <1>1, <1>2, PTL DEF AuditLedgerSpec

\* Unless a write was cut short, no commit is ever refused: each extends the one before
\* segment by segment, even with the lock broken (assertCanonicalSegmentAdvance).
THEOREM CommitsExtend == AuditLedgerSpec => []EveryCommitExtends
<1>1. ASSUME AuditInvariant
      PROVE  EveryCommitExtends
  <2>1. lastRecord \in 0..MaxRecords /\ 0..lastRecord \subseteq 0..MaxRecords /\ lastRecord \in Nat
    BY <1>1, AuditLedgerAssumption DEF AuditInvariant, AuditTypes
  <2>2. DOMAIN ledger \subseteq 0..MaxRecords
    BY <1>1, <2>1 DEF AuditInvariant, Gapless
  <2>3. ASSUME NEW s \in Scribe
        PROVE  /\ burst[s].step \in {"none", "append", "manifest", "rename", "acknowledge"}
               /\ burst[s].active \in 0..MaxRecords /\ burst[s].active <= burst[s].highest
               /\ burst[s].fenced => holder # s
    <3>1. burst[s] \in Burst
      BY <1>1, AuditTyped
    <3>2. burst[s].step \in {"none", "append", "manifest", "rename", "acknowledge"}
          /\ burst[s].active \in Nat
      BY <3>1 DEF Burst
    <3>3. burst[s].active <= lastRecord /\ burst[s].active = burst[s].highest
      BY <1>1 DEF AuditInvariant, SegmentRemembered
    <3>4. burst[s].active \in 0..MaxRecords
      BY <2>1, <3>2, <3>3
    <3>5. burst[s].active <= burst[s].active
      BY <3>2
    <3>6. burst[s].fenced => holder # s
      BY <1>1 DEF AuditInvariant, LockFollowsBurst
    <3> QED
      BY <3>2, <3>3, <3>4, <3>5, <3>6
  <2>4. /\ \A n \in DOMAIN ledger : ledger[n] \in Seq(-1..MaxRecords) /\ Len(ledger[n]) > 0
        /\ partitions \subseteq Partition /\ ackedPartitions \subseteq Partition
        /\ holder \in Scribe \cup {NoScribe}
        /\ ackedRecords \subseteq 1..lastRecord
        /\ {refused, broken, torn} \subseteq BOOLEAN
    BY <1>1 DEF AuditInvariant, AuditTypes, Line
  <2>5. AuditLedgerTypeOK
    BY <2>1, <2>2, <2>3, <2>4 DEF AuditLedgerTypeOK
  <2> QED
    BY <1>1, <2>5 DEF EveryCommitExtends, AuditInvariant, HeadIsBehind
<1> QED
  BY <1>1, AuditInvariantHolds, PTL

\* An acknowledged record is in the ledger exactly once, and in the order of the flushes
\* until the lock is broken; an acknowledged partition is in the manifest (the burst of
\* appends, addPartition).
THEOREM AcknowledgedRecorded == AuditLedgerSpec => []AcknowledgedIsRecorded
<1>1. ASSUME AuditInvariant
      PROVE  AcknowledgedIsRecorded
  <2>1. ~broken => ackedPartitions \subseteq partitions
    BY <1>1 DEF AuditInvariant, ManifestInStep
  <2>2. ASSUME ~torn, NEW r \in ackedRecords
        PROVE  Cardinality({at \in UNION {{<<n, i>> : i \in DOMAIN ledger[n]} :
                                           n \in DOMAIN ledger} :
                              ledger[at[1]][at[2]] = r}) = 1
    <3> DEFINE places == UNION {{<<n, i>> : i \in DOMAIN ledger[n]} : n \in DOMAIN ledger}
    <3>1. PICK n \in DOMAIN ledger : \E i \in DOMAIN ledger[n] : ledger[n][i] = r
      BY <1>1, <2>2 DEF AuditInvariant, EachOnce, InLedger
    <3>2. PICK i \in DOMAIN ledger[n] : ledger[n][i] = r
      BY <3>1
    <3>3. \A at \in places : \E m \in DOMAIN ledger : \E j \in DOMAIN ledger[m] : at = <<m, j>>
      OBVIOUS
    <3>4. <<n, i>> \in places
      OBVIOUS
    <3>5. \A m \in DOMAIN ledger : \A j \in DOMAIN ledger[m] :
            ledger[m][j] = r => m = n /\ j = i
      BY <1>1, <2>2, <3>2 DEF AuditInvariant, EachOnce
    <3> HIDE DEF places
    <3>6. {at \in places : ledger[at[1]][at[2]] = r} = {<<n, i>>}
      BY <3>2, <3>3, <3>4, <3>5
    <3> QED
      BY <3>6, FS_Singleton DEF places
  <2>3. ~torn /\ ~broken =>
          \A n, m \in DOMAIN ledger : \A i \in DOMAIN ledger[n], j \in DOMAIN ledger[m] :
            (n < m \/ (n = m /\ i < j)) => ledger[n][i] < ledger[m][j]
    BY <1>1 DEF AuditInvariant, InFlushOrder
  <2> QED
    BY <2>1, <2>2, <2>3 DEF AcknowledgedIsRecorded
<1> QED
  BY <1>1, AuditInvariantHolds, PTL

--------------------------------------------------------------------------------
(***************************************************************************)
(* The barriers, for any number of files, rows and directories, any length *)
(* of chunks and flushes, and any number of failures and power losses.     *)
(* DurabilityInvariant is inductive; AcknowledgedSurvivesPowerLoss follows *)
(* from it.                                                                *)
(***************************************************************************)

\* The files of one namespace as a specification of their own.
DurabilitySpec == DurabilityInit /\ [][DurabilityNext]_durabilityVars

FileLine == {HalfLine, JoinedLine} \cup 1..LastLine
Contents == {Absent} \cup Seq(FileLine)
FileOp == [step : {"idle", "append", "barrier", "names"}, left : Seq(1..LastLine),
       rows : SUBSET (1..LastLine), files : SUBSET ChunkFile, fresh : SUBSET ChunkFile,
       created : BOOLEAN, dirs : SUBSET {Depth - 1, Depth}, drop : 0..LastLine]

\* The rows of a file's contents.
RowsOf(c) == {RowsIn(c)[i] : i \in DOMAIN RowsIn(c)} \ {HalfLine, JoinedLine}

\* Each row is on one line of the contents.
Once(c) ==
  \A i, j \in DOMAIN RowsIn(c) :
    RowsIn(c)[i] = RowsIn(c)[j] /\ RowsIn(c)[i] \notin {HalfLine, JoinedLine} => i = j

\* What file f may be found with after a power loss.
Outcomes(f) == data[f] \cup entry[f]

\* The types in full; a file has contents only where its directory is.
FileTypes ==
  /\ cache \in [ChunkFile -> Contents]
  /\ data \in [ChunkFile -> SUBSET Contents]
  /\ entry \in [ChunkFile -> SUBSET Contents]
  /\ op \in FileOp
  /\ triedDeletes \subseteq 1..lastLine
  /\ \A f \in ChunkFile :
       /\ ~Present(f) => data[f] = {Absent}
       /\ depth < Depth => entry[f] = {}

\* An operation has rows, files and directories only while it needs them.
OpInStep ==
  /\ op.step = "idle" => op = Idle
  /\ op.step = "names" => op.files = {}
  /\ op.files # {} => depth = Depth
  /\ op.drop # 0 => op.step = "names" /\ op.rows = {} /\ op.left = <<>>

\* Each row is written to one file, once, and a deleted one to none again.
RowHasOneHome ==
  /\ \A f \in ChunkFile : \A c \in Outcomes(f) : Once(c)
  /\ \A f \in ChunkFile : \A c \in Outcomes(f) : RowsOf(c) \subseteq 1..lastLine
  /\ \A f, g \in ChunkFile : \A c \in Outcomes(f), d \in Outcomes(g) :
       f # g => RowsOf(c) \cap RowsOf(d) = {}
  /\ \A i, j \in DOMAIN op.left : op.left[i] = op.left[j] => i = j
  /\ \A i \in DOMAIN op.left :
       /\ op.left[i] \in 1..lastLine \ triedDeletes
       /\ \A f \in ChunkFile : \A c \in Outcomes(f) : op.left[i] \notin RowsOf(c)
  /\ op.rows \subseteq 1..lastLine

\* A row whose deletion was acknowledged is found nowhere; one that is being
\* deleted only under the old name, until the directory is synced.
DeletedIsGone ==
  /\ \A f \in ChunkFile : \A c \in Outcomes(f) : ackedDeletes \cap RowsOf(c) = {}
  /\ op.drop # 0 =>
       /\ op.drop \in triedDeletes
       /\ \A f \in ChunkFile : \A c \in data[f] : op.drop \notin RowsOf(c)
       /\ \A f \in ChunkFile : \A c \in entry[f] : op.drop \in RowsOf(c) => Depth \in op.dirs

\* A name that may be lost is that of a file the operation made or renamed, and
\* its directory is still to be synced.
NamesAreSynced ==
  excuse = {} =>
    \A f \in ChunkFile : Present(f) /\ entry[f] # {} =>
      /\ f \in op.fresh \/ op.drop # 0
      /\ op.step = "names" => Depth \in op.dirs

\* A directory whose name may be lost is the one the operation made, nothing
\* acknowledged is in it, and its parent is still to be synced.
DirectoryIsSynced ==
  excuse = {} /\ loose # {} =>
    /\ loose = {Depth} /\ op.created
    /\ ackedLines \subseteq triedDeletes
    /\ op.step = "names" => Depth - 1 \in op.dirs

\* What the operation has written is in a file, and there to stay once the file
\* has passed its barrier.
WrittenIsThere ==
  excuse = {} =>
    \A r \in op.rows : (\A i \in DOMAIN op.left : op.left[i] # r) =>
      \E f \in ChunkFile :
        /\ r \in RowsOf(cache[f])
        /\ f \notin op.files => \A c \in data[f] : r \in RowsOf(c)

\* An acknowledged row is in every outcome of a file the operation did not make.
AcknowledgedIsStable ==
  excuse = {} =>
    \A r \in ackedLines \ triedDeletes :
      \E f \in ChunkFile \ op.fresh : \A c \in Outcomes(f) : r \in RowsOf(c)

\* The inductive invariant.
DurabilityInvariant ==
  /\ DurabilityTypeOK
  /\ FileTypes
  /\ OpInStep
  /\ RowHasOneHome
  /\ DeletedIsGone
  /\ NamesAreSynced
  /\ DirectoryIsSynced
  /\ WrittenIsThere
  /\ AcknowledgedIsStable

--------------------------------------------------------------------------------
(* Contents of a file                                                           *)

\* An absent file has no rows.
LEMMA AbsentHasNone ==
  RowsIn(Absent) = <<>> /\ RowsOf(Absent) = {} /\ Once(Absent)
BY DEF RowsIn, RowsOf, Once

\* A file's contents are lines.
LEMMA ContentsAre ==
  ASSUME NEW c \in Contents
  PROVE  /\ RowsIn(c) \in Seq(FileLine)
         /\ RowsOf(c) \subseteq 1..LastLine
<1>1. RowsIn(c) \in Seq(FileLine)
  BY DEF Contents, RowsIn
<1> QED
  BY <1>1 DEF RowsOf, FileLine

\* A line is not the mark of an absent file.
LEMMA NotAbsent ==
  ASSUME NEW s \in Seq(FileLine)
  PROVE  s # Absent /\ RowsIn(s) = s
<1>1. LastLine \in Nat
  BY DurabilityAssumption
<1>2. -1 \notin FileLine
  BY <1>1 DEF FileLine, HalfLine, JoinedLine
<1>3. s # Absent
  <2>1. SUFFICES ASSUME s = Absent  PROVE FALSE
    OBVIOUS
  <2>2. s[1] \in FileLine /\ s[1] = -1
    BY <2>1 DEF Absent
  <2> QED
    BY <1>2, <2>2
<1> QED
  BY <1>3 DEF RowsIn

\* A write that is cut short leaves the rows as they were.
LEMMA HalfWritten ==
  ASSUME NEW c \in Contents
  PROVE  LET half == Append(RowsIn(c), HalfLine)
         IN /\ half \in Seq(FileLine)
            /\ RowsOf(half) = RowsOf(c)
            /\ Once(c) => Once(half)
<1> DEFINE s == RowsIn(c)
           half == Append(s, HalfLine)
<1>1. s \in Seq(FileLine)
  BY ContentsAre
<1> HIDE DEF s
<1>2. half \in Seq(FileLine)
  BY <1>1 DEF FileLine
<1>3. RowsIn(half) = half
  BY <1>2, NotAbsent
<1>4. Len(half) = Len(s) + 1 /\ half[Len(s) + 1] = HalfLine /\ \A i \in 1..Len(s) : half[i] = s[i]
  BY <1>1
<1>5. DOMAIN half = 1..(Len(s) + 1) /\ DOMAIN s = 1..Len(s) /\ Len(s) \in Nat
  BY <1>1, <1>2, <1>4
<1> HIDE DEF half
<1>6. {half[i] : i \in DOMAIN half} \ {HalfLine, JoinedLine}
        = {s[i] : i \in DOMAIN s} \ {HalfLine, JoinedLine}
  BY <1>4, <1>5
<1>7. \A i, j \in DOMAIN half : half[i] = half[j] /\ half[i] \notin {HalfLine, JoinedLine}
        => i \in DOMAIN s /\ j \in DOMAIN s /\ s[i] = s[j] /\ s[i] \notin {HalfLine, JoinedLine}
  BY <1>4, <1>5
<1>8. RowsOf(half) = RowsOf(c)
  BY <1>3, <1>6 DEF RowsOf, s
<1>9. Once(c) => Once(half)
  BY <1>3, <1>7 DEF Once, s
<1> QED
  BY <1>2, <1>8, <1>9 DEF half, s

\* A row is added behind the others, unless it is joined to half a line.
LEMMA RowWritten ==
  ASSUME NEW c \in Contents, NEW r \in 1..LastLine
  PROVE  LET new == WithRow(c, r)
         IN /\ new \in Seq(FileLine)
            /\ RowsOf(c) \subseteq RowsOf(new) /\ RowsOf(new) \subseteq RowsOf(c) \cup {r}
            /\ r \in RowsOf(new) \/ new[Len(new)] = JoinedLine
            /\ Once(c) /\ r \notin RowsOf(c) => Once(new)
<1> DEFINE s == RowsIn(c)
           new == WithRow(c, r)
<1>1. s \in Seq(FileLine) /\ LastLine \in Nat
  BY ContentsAre, DurabilityAssumption
<1>2. new = IF s # <<>> /\ s[Len(s)] = HalfLine
              THEN [s EXCEPT ![Len(s)] = JoinedLine] ELSE Append(s, r)
  BY DEF WithRow
<1>3. RowsOf(c) = {s[i] : i \in DOMAIN s} \ {HalfLine, JoinedLine}
  BY DEF RowsOf
<1>4. Once(c) <=> \A i, j \in DOMAIN s :
                    s[i] = s[j] /\ s[i] \notin {HalfLine, JoinedLine} => i = j
  BY DEF Once
<1>5. DOMAIN s = 1..Len(s) /\ Len(s) \in Nat
  BY <1>1
<1> HIDE DEF s, new
<1>6. r \notin {HalfLine, JoinedLine}
  BY <1>1 DEF HalfLine, JoinedLine
<1>7. CASE s # <<>> /\ s[Len(s)] = HalfLine
  <2>1. new = [s EXCEPT ![Len(s)] = JoinedLine] /\ Len(s) \in DOMAIN s
    BY <1>1, <1>2, <1>7
  <2>2. new \in Seq(FileLine)
    BY <1>1, <2>1 DEF FileLine
  <2>3. DOMAIN new = DOMAIN s /\ Len(new) = Len(s) /\ new[Len(s)] = JoinedLine
    BY <1>1, <2>1
  <2>4. \A i \in DOMAIN s : i # Len(s) => new[i] = s[i]
    BY <1>1, <2>1
  <2>5. RowsIn(new) = new
    BY <2>2, NotAbsent
  <2>6. {new[i] : i \in DOMAIN new} \ {HalfLine, JoinedLine}
          = {s[i] : i \in DOMAIN s} \ {HalfLine, JoinedLine}
    BY <1>7, <2>3, <2>4
  <2>7. RowsOf(new) = RowsOf(c)
    BY <1>3, <2>5, <2>6 DEF RowsOf
  <2>8. Once(c) => Once(new)
    BY <1>4, <2>3, <2>4, <2>5 DEF Once
  <2> QED
    BY <2>2, <2>3, <2>7, <2>8 DEF new
<1>8. CASE ~(s # <<>> /\ s[Len(s)] = HalfLine)
  <2>1. new = Append(s, r)
    BY <1>2, <1>8
  <2>2. new \in Seq(FileLine)
    BY <1>1, <2>1 DEF FileLine
  <2>3. Len(new) = Len(s) + 1 /\ new[Len(s) + 1] = r /\ DOMAIN new = 1..(Len(s) + 1)
    BY <1>1, <2>1
  <2>4. \A i \in DOMAIN s : new[i] = s[i]
    BY <1>1, <2>1
  <2>5. RowsIn(new) = new
    BY <2>2, NotAbsent
  <2>6. DOMAIN new = DOMAIN s \cup {Len(s) + 1} /\ Len(s) + 1 \notin DOMAIN s
    BY <1>5, <2>3
  <2>10. \A i \in DOMAIN new : new[i] \in {s[j] : j \in DOMAIN s} \cup {r}
    BY <2>3, <2>4, <2>6
  <2>11. \A j \in DOMAIN s : s[j] \in {new[i] : i \in DOMAIN new}
    BY <2>4, <2>6
  <2>12. r \in {new[i] : i \in DOMAIN new}
    BY <2>3, <2>6
  <2>7. {new[i] : i \in DOMAIN new} = {s[i] : i \in DOMAIN s} \cup {r}
    BY <2>10, <2>11, <2>12
  <2>8. RowsOf(new) = RowsOf(c) \cup {r}
    BY <1>3, <1>6, <2>5, <2>7 DEF RowsOf
  <2>9. Once(c) /\ r \notin RowsOf(c) => Once(new)
    <3>1. SUFFICES ASSUME Once(c), r \notin RowsOf(c), NEW i \in DOMAIN new, NEW j \in DOMAIN new,
                          new[i] = new[j], new[i] \notin {HalfLine, JoinedLine}
                   PROVE  i = j
      BY <2>5 DEF Once
    <3>2. \A k \in DOMAIN s : s[k] # r
      BY <1>3, <1>6, <3>1
    <3> QED
      BY <1>4, <2>3, <2>4, <2>6, <3>1, <3>2
  <2> QED
    BY <2>2, <2>8, <2>9 DEF new
<1> QED
  BY <1>7, <1>8 DEF new

\* A rewrite drops one row.
LEMMA RowDropped ==
  ASSUME NEW c \in Seq(FileLine), Once(c), NEW i \in DOMAIN c, c[i] \notin {HalfLine, JoinedLine}
  PROVE  LET kept == Ended(RemoveAt(c, i))
         IN /\ kept \in Seq(FileLine)
            /\ RowsOf(kept) = RowsOf(c) \ {c[i]}
            /\ Once(kept)
<1> DEFINE rest == RemoveAt(c, i)
           kept == Ended(rest)
<1>1. Len(c) \in Nat /\ DOMAIN c = 1..Len(c) /\ i \in 1..Len(c)
  OBVIOUS
<1> DEFINE a == SubSeq(c, 1, i - 1)
           b == SubSeq(c, i + 1, Len(c))
<1>2. a \in Seq(FileLine) /\ Len(a) = i - 1 /\ \A j \in 1..(i - 1) : a[j] = c[j]
  BY <1>1
<1>3. b \in Seq(FileLine) /\ Len(b) = Len(c) - i /\ \A j \in 1..(Len(c) - i) : b[j] = c[i + j]
  BY <1>1
<1>17. rest = a \o b
  BY DEF RemoveAt
<1> HIDE DEF a, b, rest
<1>4. rest \in Seq(FileLine) /\ Len(rest) = Len(c) - 1
  <2>1. a \in Seq(FileLine) /\ b \in Seq(FileLine)
    BY <1>2, <1>3
  <2>2. rest \in Seq(FileLine)
    BY <1>17, <2>1
  <2>3. Len(rest) = Len(a) + Len(b)
    BY <1>17, <2>1
  <2> QED
    BY <1>1, <1>2, <1>3, <2>2, <2>3
<1>18. ASSUME NEW j \in 1..(Len(c) - 1)  PROVE rest[j] = IF j < i THEN c[j] ELSE c[j + 1]
  <2>1. CASE j < i
    BY <1>1, <1>2, <1>3, <1>17, <2>1
  <2>2. CASE j >= i
    <3>1. rest[j] = b[j - (i - 1)] /\ j - (i - 1) \in 1..(Len(c) - i)
      BY <1>1, <1>2, <1>3, <1>17, <2>2
    <3>2. i + (j - (i - 1)) = j + 1
      BY <1>1
    <3>3. b[j - (i - 1)] = c[j + 1]
      BY <1>3, <3>1, <3>2
    <3> QED
      BY <1>1, <2>2, <3>1, <3>3
  <2> QED
    BY <1>1, <2>1, <2>2
<1>5. \A j \in 1..(Len(c) - 1) : rest[j] = IF j < i THEN c[j] ELSE c[j + 1]
  BY <1>18
<1>6. DOMAIN rest = 1..(Len(c) - 1)
  BY <1>1, <1>4
<1>7. kept = [j \in 1..(Len(c) - 1) |-> IF rest[j] = HalfLine THEN JoinedLine ELSE rest[j]]
  BY <1>6 DEF Ended
<1>8. \A j \in 1..(Len(c) - 1) : rest[j] \in FileLine
  BY <1>4, <1>6
<1>9. kept \in Seq(FileLine) /\ DOMAIN kept = 1..(Len(c) - 1)
  BY <1>1, <1>7, <1>8 DEF FileLine
<1>10. RowsIn(kept) = kept /\ RowsIn(c) = c
  BY <1>9, NotAbsent
<1> DEFINE marks == {HalfLine, JoinedLine}
           from(j) == IF j < i THEN j ELSE j + 1
<1>11. \A j \in 1..(Len(c) - 1) :
         /\ from(j) \in DOMAIN c /\ from(j) # i
         /\ kept[j] \notin marks => kept[j] = c[from(j)]
         /\ c[from(j)] \notin marks => kept[j] = c[from(j)]
  BY <1>1, <1>5, <1>7
<1>12. \A k \in DOMAIN c : k # i => \E j \in 1..(Len(c) - 1) : from(j) = k
  <2>1. SUFFICES ASSUME NEW k \in DOMAIN c, k # i
                 PROVE  \E j \in 1..(Len(c) - 1) : from(j) = k
    OBVIOUS
  <2>2. CASE k < i
    BY <1>1, <2>1, <2>2
  <2>3. CASE k > i
    <3>1. k - 1 \in 1..(Len(c) - 1) /\ from(k - 1) = k
      BY <1>1, <2>1, <2>3
    <3> QED
      BY <3>1
  <2> QED
    BY <1>1, <2>1, <2>2, <2>3
<1>13. \A j, k \in 1..(Len(c) - 1) : from(j) = from(k) => j = k
  BY <1>1
<1> HIDE DEF kept, from
<1>14. \A j, k \in DOMAIN c : c[j] = c[k] /\ c[j] \notin marks => j = k
  BY <1>10 DEF Once
<1>15. RowsOf(kept) = RowsOf(c) \ {c[i]}
  <2>1. RowsOf(kept) = {kept[j] : j \in 1..(Len(c) - 1)} \ marks
    BY <1>9, <1>10 DEF RowsOf
  <2>2. RowsOf(c) = {c[j] : j \in DOMAIN c} \ marks
    BY <1>10 DEF RowsOf
  <2>3. ASSUME NEW r \in RowsOf(kept)  PROVE r \in RowsOf(c) \ {c[i]}
    BY <1>11, <1>14, <2>1, <2>2
  <2>4. ASSUME NEW r \in RowsOf(c) \ {c[i]}  PROVE r \in RowsOf(kept)
    BY <1>11, <1>12, <2>1, <2>2
  <2> QED
    BY <2>3, <2>4
<1>16. Once(kept)
  <2>1. SUFFICES ASSUME NEW j \in 1..(Len(c) - 1), NEW k \in 1..(Len(c) - 1),
                        kept[j] = kept[k], kept[j] \notin marks
                 PROVE  j = k
    BY <1>9, <1>10 DEF Once
  <2>2. from(j) = from(k)
    BY <1>11, <1>14, <2>1
  <2> QED
    BY <1>13, <2>2
<1> QED
  BY <1>9, <1>15, <1>16 DEF kept, rest

--------------------------------------------------------------------------------
(* The steps                                                                    *)

\* The constants.
LEMMA Bounds ==
  /\ Depth \in Nat /\ Depth > 0 /\ Depth - 1 \in Nat /\ Depth - 1 < Depth
  /\ LastLine \in Nat /\ LastFile \in Nat /\ MaxLosses \in Nat /\ MaxFlush \in Nat
  /\ 0 \in ChunkFile
BY DurabilityAssumption DEF ChunkFile

\* A cached file is one of its outcomes; only a present file has rows.
LEMMA CachedIsOutcome ==
  ASSUME DurabilityTypeOK, FileTypes, NEW f \in ChunkFile
  PROVE  /\ cache[f] \in Contents /\ cache[f] \in data[f] /\ cache[f] \in Outcomes(f)
         /\ ~Present(f) => RowsOf(cache[f]) = {}
         /\ \A c \in Outcomes(f) : c \in Contents
         /\ Present(f) => depth = Depth
BY AbsentHasNone DEF DurabilityTypeOK, FileTypes, Outcomes, Present

\* A file is typed once its contents are.
LEMMA FilesTyped ==
  ASSUME FileTypes', depth' \in 0..Depth,
         \A f \in ChunkFile : cache'[f] \in data'[f] /\ (Present(f)' => depth' = Depth)
  PROVE  \A f \in ChunkFile : /\ cache'[f] = Absent \/ cache'[f] \in Seq(-2..LastLine)
                              /\ cache'[f] \in data'[f]
                              /\ Present(f)' => depth' = Depth
<1> DEFINE T == -2..LastLine
<1>1. FileLine \subseteq T
  BY Bounds DEF FileLine, HalfLine, JoinedLine
<1>2. \A f \in ChunkFile : cache'[f] \in Contents
  BY DEF FileTypes
<1> HIDE DEF T
<1>3. ASSUME NEW s \in Seq(FileLine)  PROVE s \in Seq(T)
  BY <1>1
<1>4. \A f \in ChunkFile : cache'[f] = Absent \/ cache'[f] \in Seq(T)
  BY <1>2, <1>3 DEF Contents
<1> QED
  BY <1>4 DEF T

\* Rows stay where they are when nothing is found but what could be found before.
LEMMA HomesKept ==
  ASSUME RowHasOneHome,
         \A f \in ChunkFile : \A c \in Outcomes(f)' : c \in Outcomes(f) \/ c = Absent,
         lastLine' = lastLine, triedDeletes' = triedDeletes,
         \/ op'.left = op.left /\ op'.rows = op.rows
         \/ op'.left = <<>> /\ op'.rows = {}
  PROVE  RowHasOneHome'
<1>1. RowsOf(Absent) = {} /\ Once(Absent)
  BY AbsentHasNone
<1>2. \A f \in ChunkFile : \A c \in Outcomes(f)' : Once(c) /\ RowsOf(c) \subseteq 1..lastLine
  BY <1>1 DEF RowHasOneHome
<1>3. \A f, g \in ChunkFile : \A c \in Outcomes(f)', d \in Outcomes(g)' :
        f # g => RowsOf(c) \cap RowsOf(d) = {}
  BY <1>1 DEF RowHasOneHome
<1>4. CASE op'.left = op.left /\ op'.rows = op.rows
  <2>1. \A i \in DOMAIN op.left : \A f \in ChunkFile : \A c \in Outcomes(f)' :
          op.left[i] \notin RowsOf(c)
    BY <1>1 DEF RowHasOneHome
  <2> QED
    BY <1>2, <1>3, <1>4, <2>1 DEF RowHasOneHome
<1>5. CASE op'.left = <<>> /\ op'.rows = {}
  BY <1>2, <1>3, <1>5 DEF RowHasOneHome
<1> QED
  BY <1>4, <1>5

\* The idle operation.
LEMMA IdleIs ==
  /\ Idle.step = "idle" /\ Idle.left = <<>> /\ Idle.rows = {} /\ Idle.files = {}
  /\ Idle.fresh = {} /\ Idle.created = FALSE /\ Idle.drop = 0 /\ Idle \in FileOp
BY Bounds DEF Idle, FileOp

\* At first there are no files.
LEMMA DurabilityAtFirst ==
  DurabilityInit => DurabilityInvariant
<1> SUFFICES ASSUME DurabilityInit  PROVE DurabilityInvariant
  OBVIOUS
<1> USE DEF DurabilityInit
<1>1. RowsOf(Absent) = {} /\ Once(Absent)
  BY AbsentHasNone
<1>2. \A f \in ChunkFile : cache[f] = Absent /\ data[f] = {Absent} /\ entry[f] = {}
                             /\ Outcomes(f) = {Absent} /\ ~Present(f)
  BY DEF Outcomes, Present
<1>3. op = Idle /\ op.step = "idle" /\ op.left = <<>> /\ op.rows = {} /\ op.drop = 0
        /\ Idle \in FileOp
  BY Bounds DEF Idle, FileOp
<1>4. DurabilityTypeOK
  BY <1>2, <1>3, Bounds DEF DurabilityTypeOK
<1>5. FileTypes
  BY <1>2, <1>3 DEF FileTypes, Contents
<1>6. OpInStep
  BY <1>3, IdleIs DEF OpInStep
<1>7. RowHasOneHome
  BY <1>1, <1>2, <1>3 DEF RowHasOneHome
<1>8. DeletedIsGone
  BY <1>1, <1>2, <1>3 DEF DeletedIsGone
<1>9. NamesAreSynced /\ DirectoryIsSynced
  BY <1>2 DEF NamesAreSynced, DirectoryIsSynced
<1>10. WrittenIsThere /\ AcknowledgedIsStable
  BY <1>3 DEF WrittenIsThere, AcknowledgedIsStable
<1> QED
  BY <1>4, <1>5, <1>6, <1>7, <1>8, <1>9, <1>10 DEF DurabilityInvariant

\* A flush begins with rows that were never written.
LEMMA FlushBegins ==
  ASSUME DurabilityInvariant, BeginFlush
  PROVE  DurabilityInvariant'
<1> USE DEF DurabilityInvariant
<1>1. PICK n \in 1..MaxFlush :
        /\ lastLine + n <= LastLine /\ lastLine' = lastLine + n
        /\ op' = [Idle EXCEPT !.step = "append", !.left = [i \in 1..n |-> lastLine + i],
                              !.rows = {lastLine + i : i \in 1..n}]
  BY DEF BeginFlush
<1>2. /\ UNCHANGED <<mode, depth, loose, cache, data, entry, losses, ackedLines, triedDeletes,
                     ackedDeletes, excuse>>
      /\ op = Idle
  BY DEF BeginFlush, OpInStep
<1>3. lastLine \in Nat /\ n \in Nat /\ n > 0 /\ LastLine \in Nat
  BY Bounds DEF DurabilityTypeOK
<1>4. /\ op'.step = "append" /\ op'.left = [i \in 1..n |-> lastLine + i]
      /\ op'.rows = {lastLine + i : i \in 1..n} /\ op'.files = {} /\ op'.fresh = {}
      /\ op'.created = FALSE /\ op'.dirs = {} /\ op'.drop = 0
  BY <1>1 DEF Idle
<1>5. op'.left \in Seq(1..LastLine) /\ DOMAIN op'.left = 1..n
        /\ \A i \in 1..n : op'.left[i] = lastLine + i
  BY <1>1, <1>3, <1>4
<1>6. op'.rows \subseteq 1..lastLine' /\ lastLine' \in 0..LastLine /\ lastLine' >= lastLine
  BY <1>1, <1>3, <1>4
<1>7. op' \in FileOp
  <2> DEFINE left == [i \in 1..n |-> lastLine + i]
             rows == {lastLine + i : i \in 1..n}
  <2>1. op' = [step |-> "append", left |-> left, rows |-> rows, files |-> {},
               fresh |-> {}, created |-> FALSE, dirs |-> {}, drop |-> 0]
    BY <1>1 DEF Idle
  <2>2. left \in Seq(1..LastLine) /\ rows \in SUBSET (1..LastLine)
    BY <1>1, <1>3
  <2>3. 0 \in 0..LastLine
    BY <1>3
  <2> HIDE DEF left, rows
  <2> QED
    BY <2>1, <2>2, <2>3 DEF FileOp
<1>8. op.fresh = {} /\ op.drop = 0 /\ op.created = FALSE /\ op.rows = {}
  BY <1>2 DEF Idle
<1>9. 1..lastLine \subseteq 1..lastLine'
  BY <1>3, <1>6
<1>10. DurabilityTypeOK'
  BY <1>2, <1>4, <1>6, <1>9 DEF DurabilityTypeOK, Present
<1>11. FileTypes'
  BY <1>2, <1>7, <1>9 DEF FileTypes, Present
<1>12. OpInStep'
  BY <1>4 DEF OpInStep
<1>13. \A f \in ChunkFile : Outcomes(f)' = Outcomes(f)
  BY <1>2 DEF Outcomes
<1>14. RowHasOneHome'
  <2>1. \A f \in ChunkFile : \A c \in Outcomes(f)' : RowsOf(c) \subseteq 1..lastLine'
    BY <1>9, <1>13 DEF RowHasOneHome
  <2>2. \A i, j \in 1..n : op'.left[i] = op'.left[j] => i = j
    BY <1>3, <1>5
  <2>3. \A i \in 1..n : op'.left[i] \in 1..lastLine' /\ op'.left[i] \notin 1..lastLine
    BY <1>1, <1>3, <1>5
  <2>4. triedDeletes' \subseteq 1..lastLine
    BY <1>2 DEF FileTypes
  <2>5. \A i \in 1..n : \A f \in ChunkFile : \A c \in Outcomes(f)' : op'.left[i] \notin RowsOf(c)
    BY <1>13, <2>3 DEF RowHasOneHome
  <2>6. \A f \in ChunkFile : \A c \in Outcomes(f)' : Once(c)
    BY <1>13 DEF RowHasOneHome
  <2>7. \A f, g \in ChunkFile : \A c \in Outcomes(f)', d \in Outcomes(g)' :
          f # g => RowsOf(c) \cap RowsOf(d) = {}
    BY <1>13 DEF RowHasOneHome
  <2> QED
    BY <1>5, <1>6, <2>1, <2>2, <2>3, <2>4, <2>5, <2>6, <2>7 DEF RowHasOneHome
<1>15. DeletedIsGone'
  BY <1>2, <1>4, <1>13 DEF DeletedIsGone
<1>16. NamesAreSynced'
  BY <1>2, <1>4, <1>8 DEF NamesAreSynced, Present
<1>17. DirectoryIsSynced'
  BY <1>2, <1>8 DEF DirectoryIsSynced
<1>18. WrittenIsThere'
  BY <1>4, <1>5 DEF WrittenIsThere
<1>19. AcknowledgedIsStable'
  BY <1>2, <1>4, <1>8, <1>13 DEF AcknowledgedIsStable
<1> QED
  BY <1>10, <1>11, <1>12, <1>14, <1>15, <1>16, <1>17, <1>18, <1>19

\* A row is appended.
LEMMA RowIsAppended ==
  ASSUME DurabilityInvariant, AppendDurable
  PROVE  DurabilityInvariant'
<1> USE DEF DurabilityInvariant
<1> DEFINE r == Head(op.left)
<1>1. PICK f \in ChunkFile :
        LET new == WithRow(cache[f], r)
            half == Append(RowsIn(cache[f]), HalfLine)
        IN /\ cache' = [cache EXCEPT ![f] = new]
           /\ data' = [data EXCEPT ![f] = (IF Present(f) THEN @ ELSE {<<>>}) \cup {half, new}]
           /\ entry' = [entry EXCEPT ![f] = IF Present(f) THEN @ ELSE @ \cup data[f]]
           /\ op' = [op EXCEPT !.left = Tail(@),
                               !.files = @ \cup {f},
                               !.fresh = IF Present(f) THEN @ ELSE @ \cup {f},
                               !.created = @ \/ depth < Depth,
                               !.step = IF mode = "direct" \/ Len(op.left) = 1
                                          THEN "barrier" ELSE "append"]
           /\ excuse' = excuse \cup (IF depth < Depth - 1 THEN {"nested"} ELSE {})
                               \cup (IF new[Len(new)] = JoinedLine THEN {"torn"} ELSE {})
  BY DEF AppendDurable
<1> DEFINE new == WithRow(cache[f], r)
           half == Append(RowsIn(cache[f]), HalfLine)
<1>2. /\ op.step = "append" /\ op.left # <<>>
      /\ depth' = Depth /\ loose' = loose \cup (depth + 1)..Depth
      /\ UNCHANGED <<mode, lastLine, losses, ackedLines, triedDeletes, ackedDeletes>>
  BY DEF AppendDurable
<1>3. op \in FileOp /\ op.left \in Seq(1..LastLine) /\ LastLine \in Nat /\ lastLine \in 0..LastLine
  BY Bounds DEF FileTypes, FileOp, DurabilityTypeOK
<1>4. /\ Tail(op.left) \in Seq(1..LastLine) /\ 1 \in DOMAIN op.left /\ r = op.left[1]
      /\ DOMAIN Tail(op.left) = 1..(Len(op.left) - 1)
      /\ \A i \in DOMAIN Tail(op.left) :
           i + 1 \in DOMAIN op.left /\ Tail(op.left)[i] = op.left[i + 1] /\ i + 1 # 1
      /\ \A i \in DOMAIN op.left :
           i # 1 => i - 1 \in DOMAIN Tail(op.left) /\ Tail(op.left)[i - 1] = op.left[i]
  <2> DEFINE left == op.left
  <2>1. left \in Seq(1..LastLine) /\ left # <<>>
    BY <1>2, <1>3
  <2> HIDE DEF left
  <2>2. Len(left) \in Nat /\ Len(left) > 0 /\ DOMAIN left = 1..Len(left)
    BY <2>1
  <2>3. /\ Tail(left) \in Seq(1..LastLine) /\ Len(Tail(left)) = Len(left) - 1
        /\ \A i \in 1..(Len(left) - 1) : Tail(left)[i] = left[i + 1]
    BY <2>1, <2>2
  <2>4. Head(left) = left[1] /\ DOMAIN Tail(left) = 1..(Len(left) - 1)
    BY <2>1, <2>2, <2>3
  <2>5. \A i \in 1..(Len(left) - 1) : i + 1 \in DOMAIN left /\ Tail(left)[i] = left[i + 1] /\ i + 1 # 1
    BY <2>2, <2>3
  <2>6. \A i \in DOMAIN left : i # 1 =>
          /\ i - 1 \in 1..(Len(left) - 1)
          /\ Tail(left)[i - 1] = left[i]
    BY <2>2, <2>3
  <2>7. 1 \in DOMAIN left
    BY <2>2
  <2>8. \A i \in DOMAIN Tail(left) :
          i + 1 \in DOMAIN left /\ Tail(left)[i] = left[i + 1] /\ i + 1 # 1
    BY <2>4, <2>5
  <2>9. \A i \in DOMAIN left :
          i # 1 => i - 1 \in DOMAIN Tail(left) /\ Tail(left)[i - 1] = left[i]
    BY <2>4, <2>6
  <2> QED
    BY <2>3, <2>4, <2>7, <2>8, <2>9, Zenon DEF left, r
<1>5. r \in 1..LastLine /\ r \in 1..lastLine /\ r \notin triedDeletes
        /\ \A g \in ChunkFile : \A c \in Outcomes(g) : r \notin RowsOf(c)
  BY <1>3, <1>4 DEF RowHasOneHome
<1>6. cache[f] \in Contents /\ cache[f] \in Outcomes(f) /\ RowsOf(cache[f]) \subseteq 1..lastLine
        /\ Once(cache[f])
  BY CachedIsOutcome DEF RowHasOneHome
<1>7. /\ half \in Contents /\ half # Absent /\ RowsOf(half) = RowsOf(cache[f]) /\ Once(half)
  <2>1. half \in Seq(FileLine) /\ RowsOf(half) = RowsOf(cache[f]) /\ (Once(cache[f]) => Once(half))
    BY <1>6, HalfWritten
  <2> HIDE DEF half
  <2> QED
    BY <1>6, <2>1, NotAbsent DEF Contents
<1>8. /\ new \in Contents /\ new # Absent /\ Once(new)
      /\ RowsOf(cache[f]) \subseteq RowsOf(new) /\ RowsOf(new) \subseteq RowsOf(cache[f]) \cup {r}
      /\ r \in RowsOf(new) \/ new[Len(new)] = JoinedLine
  <2>1. /\ new \in Seq(FileLine) /\ (Once(cache[f]) /\ r \notin RowsOf(cache[f]) => Once(new))
        /\ RowsOf(cache[f]) \subseteq RowsOf(new) /\ RowsOf(new) \subseteq RowsOf(cache[f]) \cup {r}
        /\ r \in RowsOf(new) \/ new[Len(new)] = JoinedLine
    <3> HIDE DEF r
    <3> QED
      BY <1>5, <1>6, RowWritten
  <2> HIDE DEF new
  <2>2. new \in Contents /\ new # Absent
    BY <2>1, NotAbsent DEF Contents
  <2> QED
    BY <1>5, <1>6, <2>1, <2>2
<1>9. <<>> \in Contents /\ RowsOf(<<>>) = {} /\ Once(<<>>)
  <2>1. <<>> \in Seq(FileLine)
    OBVIOUS
  <2>2. RowsIn(<<>>) = <<>>
    BY <2>1, NotAbsent
  <2> QED
    BY <2>1, <2>2 DEF Contents, RowsOf, Once
<1>10. /\ op'.step \in {"barrier", "append"} /\ op'.left = Tail(op.left) /\ op'.rows = op.rows
       /\ op'.files = op.files \cup {f} /\ op'.dirs = op.dirs /\ op'.drop = op.drop
       /\ op'.fresh = IF Present(f) THEN op.fresh ELSE op.fresh \cup {f}
       /\ op'.created = (op.created \/ depth < Depth)
       /\ op' \in FileOp
  BY <1>1, <1>3, <1>4 DEF FileOp
<1>11. /\ excuse \subseteq excuse' /\ excuse' \subseteq excuse \cup {"nested", "torn"}
       /\ excuse' = {} => excuse = {} /\ ~(depth < Depth - 1) /\ r \in RowsOf(new)
  BY <1>1, <1>8
<1>12. /\ \A g \in ChunkFile : g # f =>
            cache'[g] = cache[g] /\ data'[g] = data[g] /\ entry'[g] = entry[g]
       /\ cache'[f] = new
       /\ data'[f] = (IF Present(f) THEN data[f] ELSE {<<>>}) \cup {half, new}
       /\ entry'[f] = IF Present(f) THEN entry[f] ELSE entry[f] \cup data[f]
       /\ cache' \in [ChunkFile -> Contents]
       /\ data' \in [ChunkFile -> SUBSET Contents] /\ entry' \in [ChunkFile -> SUBSET Contents]
  BY <1>1, <1>7, <1>8, <1>9 DEF FileTypes
<1> HIDE DEF r, new, half
<1>13. depth \in 0..Depth /\ loose \subseteq 1..depth /\ Depth \in Nat /\ Depth > 0
  BY Bounds DEF DurabilityTypeOK
<1>14. \A g \in ChunkFile : g # f => (Present(g)' <=> Present(g)) /\ Outcomes(g)' = Outcomes(g)
  BY <1>12 DEF Present, Outcomes
<1>15. Present(f)' /\ \A c \in Outcomes(f)' : c \in Outcomes(f) \/ c \in {<<>>, half, new}
  BY <1>8, <1>12 DEF Present, Outcomes
<1>16. \A c \in Outcomes(f)' : Once(c) /\ RowsOf(c) \subseteq 1..lastLine
  BY <1>5, <1>6, <1>7, <1>8, <1>9, <1>15 DEF RowHasOneHome
<1>17. FileTypes'
  <2>1. \A g \in ChunkFile : ~Present(g)' => data'[g] = {Absent}
    BY <1>12, <1>14, <1>15 DEF FileTypes
  <2> QED
    BY <1>2, <1>10, <1>12, <1>13, <2>1 DEF FileTypes
<1>18. DurabilityTypeOK'
  <2>1. \A g \in ChunkFile : cache'[g] \in data'[g] /\ (Present(g)' => depth' = Depth)
    BY <1>2, <1>12 DEF DurabilityTypeOK
  <2>2. depth' \in 0..Depth /\ loose' \subseteq 1..depth'
    <3>1. depth' = Depth /\ Depth \in 0..Depth
      BY <1>2, <1>13
    <3>2. (depth + 1)..Depth \subseteq 1..Depth /\ loose \subseteq 1..Depth
      BY <1>13
    <3> QED
      BY <1>2, <3>1, <3>2
  <2>3. \A g \in ChunkFile : /\ cache'[g] = Absent \/ cache'[g] \in Seq(-2..LastLine)
                             /\ cache'[g] \in data'[g]
                             /\ Present(g)' => depth' = Depth
    BY <1>17, <2>1, <2>2, FilesTyped
  <2> QED
    BY <1>2, <1>10, <1>11, <2>2, <2>3 DEF DurabilityTypeOK
<1>19. OpInStep'
  BY <1>2, <1>10 DEF OpInStep
<1>20. RowHasOneHome'
  <2>1. \A g \in ChunkFile : \A c \in Outcomes(g)' : Once(c) /\ RowsOf(c) \subseteq 1..lastLine'
    BY <1>2, <1>14, <1>16 DEF RowHasOneHome
  <2>2. \A g \in ChunkFile \ {f} : \A c \in Outcomes(f)', d \in Outcomes(g) :
          RowsOf(c) \cap RowsOf(d) = {}
    BY <1>5, <1>6, <1>7, <1>8, <1>9, <1>15 DEF RowHasOneHome
  <2>3. \A g, h \in ChunkFile : \A c \in Outcomes(g)', d \in Outcomes(h)' :
          g # h => RowsOf(c) \cap RowsOf(d) = {}
    BY <1>14, <2>2 DEF RowHasOneHome
  <2>4. \A i, j \in DOMAIN Tail(op.left) : Tail(op.left)[i] = Tail(op.left)[j] => i = j
    <3>1. SUFFICES ASSUME NEW i \in DOMAIN Tail(op.left), NEW j \in DOMAIN Tail(op.left),
                          Tail(op.left)[i] = Tail(op.left)[j]
                   PROVE  i = j
      OBVIOUS
    <3>2. i + 1 = j + 1
      BY <1>4, <3>1 DEF RowHasOneHome
    <3>3. i \in Nat /\ j \in Nat
      BY <1>4
    <3> QED
      BY <3>2, <3>3
  <2>5. \A i \in DOMAIN Tail(op.left) :
          /\ Tail(op.left)[i] \in 1..lastLine \ triedDeletes
          /\ Tail(op.left)[i] # r
          /\ \A g \in ChunkFile : \A c \in Outcomes(g) : Tail(op.left)[i] \notin RowsOf(c)
    BY <1>4 DEF RowHasOneHome, r
  <2>6. \A i \in DOMAIN Tail(op.left) : \A g \in ChunkFile : \A c \in Outcomes(g)' :
          Tail(op.left)[i] \notin RowsOf(c)
    BY <1>6, <1>7, <1>8, <1>9, <1>14, <1>15, <2>5
  <2> QED
    BY <1>2, <1>10, <2>1, <2>3, <2>4, <2>5, <2>6 DEF RowHasOneHome
<1>21. DeletedIsGone'
  <2>1. op.drop = 0
    BY <1>2 DEF OpInStep
  <2>2. r \notin ackedDeletes
    BY <1>5 DEF DurabilityTypeOK
  <2>3. \A c \in Outcomes(f)' : ackedDeletes \cap RowsOf(c) = {}
    BY <1>6, <1>7, <1>8, <1>9, <1>15, <2>2 DEF DeletedIsGone
  <2> QED
    BY <1>2, <1>10, <1>14, <2>1, <2>3 DEF DeletedIsGone
<1>22. NamesAreSynced'
  <2>1. SUFFICES ASSUME excuse' = {}, NEW g \in ChunkFile, Present(g)', entry'[g] # {}
                 PROVE  g \in op'.fresh \/ op'.drop # 0
    BY <1>10 DEF NamesAreSynced
  <2>2. excuse = {}
    BY <1>11, <2>1
  <2> QED
    BY <1>10, <1>12, <1>14, <2>1, <2>2 DEF NamesAreSynced
<1>23. DirectoryIsSynced'
  <2>1. SUFFICES ASSUME excuse' = {}, loose' # {}
                 PROVE  loose' = {Depth} /\ op'.created /\ ackedLines \subseteq triedDeletes
    BY <1>2, <1>10 DEF DirectoryIsSynced
  <2>2. excuse = {} /\ ~(depth < Depth - 1)
    BY <1>11, <2>1
  <2>3. CASE depth = Depth
    <3>1. loose' = loose
      BY <1>2, <1>13, <2>3
    <3> QED
      BY <1>10, <2>1, <2>2, <3>1 DEF DirectoryIsSynced
  <2>4. CASE depth # Depth
    <3>1. depth = Depth - 1 /\ depth < Depth
      BY <1>13, <2>2, <2>4
    <3>2. loose = {}
      <4>1. Depth \notin loose
        BY <1>13, <3>1
      <4> QED
        BY <2>2, <4>1 DEF DirectoryIsSynced
    <3>3. loose' = {Depth}
      BY <1>2, <1>13, <3>1, <3>2
    <3>4. \A g \in ChunkFile : ~Present(g)
      BY <2>4, CachedIsOutcome
    <3>5. ackedLines \subseteq triedDeletes
      BY <2>2, <3>4, CachedIsOutcome DEF AcknowledgedIsStable
    <3> QED
      BY <1>10, <3>1, <3>3, <3>5
  <2> QED
    BY <2>3, <2>4
<1>24. WrittenIsThere'
  <2>1. SUFFICES ASSUME excuse' = {}, NEW q \in op.rows,
                        \A i \in DOMAIN Tail(op.left) : Tail(op.left)[i] # q
                 PROVE  \E g \in ChunkFile :
                          /\ q \in RowsOf(cache'[g])
                          /\ g \notin op'.files => \A c \in data'[g] : q \in RowsOf(c)
    BY <1>10 DEF WrittenIsThere
  <2>2. excuse = {} /\ r \in RowsOf(new)
    BY <1>11, <2>1
  <2>3. CASE q = r
    BY <1>10, <1>12, <2>2, <2>3
  <2>4. CASE q # r
    <3>1. \A i \in DOMAIN op.left : op.left[i] # q
      BY <1>4, <2>1, <2>4 DEF r
    <3>2. PICK g \in ChunkFile : /\ q \in RowsOf(cache[g])
                                 /\ g \notin op.files => \A c \in data[g] : q \in RowsOf(c)
      BY <2>2, <3>1 DEF WrittenIsThere
    <3>3. CASE g = f
      BY <1>8, <1>10, <1>12, <3>2, <3>3
    <3>4. CASE g # f
      BY <1>10, <1>12, <3>2, <3>4
    <3> QED
      BY <3>3, <3>4
  <2> QED
    BY <2>3, <2>4
<1>25. AcknowledgedIsStable'
  <2>1. SUFFICES ASSUME excuse' = {}, NEW q \in ackedLines \ triedDeletes
                 PROVE  \E g \in ChunkFile \ op'.fresh : \A c \in Outcomes(g)' : q \in RowsOf(c)
    BY <1>2 DEF AcknowledgedIsStable
  <2>2. PICK g \in ChunkFile \ op.fresh : \A c \in Outcomes(g) : q \in RowsOf(c)
    BY <1>11, <2>1 DEF AcknowledgedIsStable
  <2>3. q \in RowsOf(cache[g]) /\ Present(g)
    BY <2>2, CachedIsOutcome
  <2>4. g \notin op'.fresh
    BY <1>10, <2>2, <2>3
  <2>5. ASSUME NEW c \in Outcomes(g)'  PROVE q \in RowsOf(c)
    <3>1. CASE g = f
      <4>1. c \in Outcomes(f) \/ c = half \/ c = new
        BY <1>12, <2>3, <2>5, <3>1 DEF Outcomes
      <4> QED
        BY <1>7, <1>8, <2>2, <2>3, <3>1, <4>1
    <3>2. CASE g # f
      BY <1>14, <2>2, <2>5, <3>2
    <3> QED
      BY <3>1, <3>2
  <2> QED
    BY <2>4, <2>5
<1> QED
  BY <1>17, <1>18, <1>19, <1>20, <1>21, <1>22, <1>23, <1>24, <1>25

\* A file passes its barrier.
LEMMA FileIsBarred ==
  ASSUME DurabilityInvariant, BarrierFile
  PROVE  DurabilityInvariant'
<1> USE DEF DurabilityInvariant
<1>1. PICK f \in op.files :
        /\ data' = [data EXCEPT ![f] = {cache[f]}]
        /\ op' = [op EXCEPT !.files = @ \ {f},
                            !.step = IF op.files = {f} THEN "names" ELSE @,
                            !.dirs = IF op.files = {f} THEN DirsToSync ELSE @]
  BY DEF BarrierFile
<1>2. /\ op.step = "barrier"
      /\ UNCHANGED <<mode, depth, loose, cache, entry, lastLine, losses, ackedLines,
                     triedDeletes, ackedDeletes, excuse>>
  BY DEF BarrierFile
<1>3. op \in FileOp /\ f \in ChunkFile
  BY DEF FileTypes, FileOp
<1>4. DirsToSync \in SUBSET {Depth - 1, Depth}
  BY DEF DirsToSync
<1>5. /\ op'.left = op.left /\ op'.rows = op.rows /\ op'.fresh = op.fresh
      /\ op'.created = op.created /\ op'.drop = op.drop /\ op'.files = op.files \ {f}
      /\ op'.step \in {"barrier", "names"}
      /\ op'.step = "names" => op'.files = {} /\ op'.dirs = DirsToSync
      /\ op' \in FileOp
  BY <1>1, <1>2, <1>3, <1>4 DEF FileOp
<1>6. op.drop = 0
  BY <1>2 DEF OpInStep
<1>7. \A g \in ChunkFile : data'[g] = (IF g = f THEN {cache[f]} ELSE data[g]) /\ entry'[g] = entry[g]
                             /\ cache'[g] = cache[g] /\ (Present(g)' <=> Present(g))
  BY <1>1, <1>2 DEF FileTypes, Present
<1>8. \A g \in ChunkFile : data'[g] \subseteq data[g] /\ Outcomes(g)' \subseteq Outcomes(g)
  BY <1>7, CachedIsOutcome DEF Outcomes
<1>9. FileTypes'
  <2>1. data' \in [ChunkFile -> SUBSET Contents]
    BY <1>1, <1>3, CachedIsOutcome DEF FileTypes
  <2>2. \A g \in ChunkFile : ~Present(g)' => data'[g] = {Absent}
    BY <1>7 DEF FileTypes, Present
  <2> QED
    BY <1>2, <1>5, <1>7, <2>1, <2>2 DEF FileTypes
<1>10. DurabilityTypeOK'
  <2>1. \A g \in ChunkFile : /\ cache'[g] = Absent \/ cache'[g] \in Seq(-2..LastLine)
                             /\ cache'[g] \in data'[g]
                             /\ Present(g)' => depth' = Depth
    BY <1>2, <1>7 DEF DurabilityTypeOK
  <2> QED
    BY <1>2, <1>5, <2>1 DEF DurabilityTypeOK
<1>11. OpInStep'
  BY <1>2, <1>5, <1>6 DEF OpInStep
<1>12. RowHasOneHome'
  BY <1>2, <1>5, <1>8, HomesKept
<1>13. DeletedIsGone'
  BY <1>2, <1>5, <1>6, <1>8 DEF DeletedIsGone
<1>14. NamesAreSynced'
  BY <1>2, <1>5, <1>6, <1>7 DEF NamesAreSynced, DirsToSync
<1>15. DirectoryIsSynced'
  BY <1>2, <1>5 DEF DirectoryIsSynced, DirsToSync
<1>16. WrittenIsThere'
  <2>1. SUFFICES ASSUME excuse = {}, NEW q \in op.rows,
                        \A i \in DOMAIN op.left : op.left[i] # q
                 PROVE  \E g \in ChunkFile :
                          /\ q \in RowsOf(cache'[g])
                          /\ g \notin op'.files => \A c \in data'[g] : q \in RowsOf(c)
    BY <1>2, <1>5 DEF WrittenIsThere
  <2>2. PICK g \in ChunkFile : /\ q \in RowsOf(cache[g])
                               /\ g \notin op.files => \A c \in data[g] : q \in RowsOf(c)
    BY <2>1 DEF WrittenIsThere
  <2> QED
    BY <1>5, <1>7, <2>2
<1>17. AcknowledgedIsStable'
  BY <1>2, <1>5, <1>8 DEF AcknowledgedIsStable
<1> QED
  BY <1>9, <1>10, <1>11, <1>12, <1>13, <1>14, <1>15, <1>16, <1>17

\* A directory is synced.
LEMMA DirectorySyncs ==
  ASSUME DurabilityInvariant, SyncDirectory
  PROVE  DurabilityInvariant'
<1> USE DEF DurabilityInvariant
<1>1. PICK d \in op.dirs :
        /\ op' = [op EXCEPT !.dirs = @ \ {d}]
        /\ entry' = IF d = Depth THEN [f \in ChunkFile |-> {}] ELSE entry
        /\ loose' = loose \ {d + 1}
  BY DEF SyncDirectory
<1>2. /\ op.step = "names"
      /\ UNCHANGED <<mode, depth, cache, data, lastLine, losses, ackedLines, triedDeletes,
                     ackedDeletes, excuse>>
  BY DEF SyncDirectory
<1>3. op \in FileOp /\ d \in {Depth - 1, Depth} /\ Depth \in Nat
  BY Bounds DEF FileTypes, FileOp
<1>4. /\ op'.left = op.left /\ op'.rows = op.rows /\ op'.fresh = op.fresh
      /\ op'.created = op.created /\ op'.drop = op.drop /\ op'.files = op.files
      /\ op'.step = op.step /\ op'.dirs = op.dirs \ {d} /\ op' \in FileOp
  BY <1>1, <1>3 DEF FileOp
<1>5. \A g \in ChunkFile : /\ entry'[g] = IF d = Depth THEN {} ELSE entry[g]
                           /\ data'[g] = data[g] /\ cache'[g] = cache[g]
                           /\ Present(g)' <=> Present(g)
  BY <1>1, <1>2 DEF Present
<1>6. \A g \in ChunkFile : entry'[g] \subseteq entry[g] /\ Outcomes(g)' \subseteq Outcomes(g)
  BY <1>5 DEF Outcomes
<1>7. FileTypes'
  BY <1>1, <1>2, <1>4, <1>5, <1>6 DEF FileTypes
<1>8. DurabilityTypeOK'
  <2>1. \A g \in ChunkFile : /\ cache'[g] = Absent \/ cache'[g] \in Seq(-2..LastLine)
                             /\ cache'[g] \in data'[g]
                             /\ Present(g)' => depth' = Depth
    BY <1>2, <1>5 DEF DurabilityTypeOK
  <2> QED
    BY <1>1, <1>2, <1>4, <2>1 DEF DurabilityTypeOK
<1>9. OpInStep'
  BY <1>2, <1>4 DEF OpInStep
<1>10. RowHasOneHome'
  BY <1>2, <1>4, <1>6, HomesKept
<1>11. DeletedIsGone'
  BY <1>2, <1>4, <1>5, <1>6 DEF DeletedIsGone
<1>12. NamesAreSynced'
  BY <1>2, <1>4, <1>5 DEF NamesAreSynced
<1>13. DirectoryIsSynced'
  <2>1. d = Depth - 1 => d + 1 = Depth
    BY <1>3
  <2> QED
    BY <1>1, <1>2, <1>3, <1>4, <2>1 DEF DirectoryIsSynced
<1>14. WrittenIsThere'
  BY <1>2, <1>4, <1>5 DEF WrittenIsThere
<1>15. AcknowledgedIsStable'
  BY <1>2, <1>4, <1>6 DEF AcknowledgedIsStable
<1> QED
  BY <1>7, <1>8, <1>9, <1>10, <1>11, <1>12, <1>13, <1>14, <1>15

\* The barriers of a row, a flush or a rewrite are passed.
LEMMA BarriersArePassed ==
  ASSUME DurabilityInvariant, PassBarriers
  PROVE  DurabilityInvariant'
<1> USE DEF DurabilityInvariant
<1>1. /\ op.step = "names" /\ op.dirs = {}
      /\ UNCHANGED <<mode, depth, loose, cache, data, entry, lastLine, losses, triedDeletes, excuse>>
  BY DEF PassBarriers
<1>2. op \in FileOp /\ op.files = {} /\ (op.drop # 0 => op.rows = {} /\ op.left = <<>>)
  BY <1>1 DEF FileTypes, OpInStep
<1>3. \A g \in ChunkFile : /\ entry'[g] = entry[g] /\ data'[g] = data[g] /\ cache'[g] = cache[g]
                           /\ Present(g)' <=> Present(g)
                           /\ Outcomes(g)' = Outcomes(g)
  BY <1>1 DEF Present, Outcomes
<1>4. excuse = {} => loose = {} /\ \A g \in ChunkFile : Present(g) => entry[g] = {}
  BY <1>1 DEF NamesAreSynced, DirectoryIsSynced
<1>5. CASE op.left # <<>>
  <2>1. /\ op' = [op EXCEPT !.step = "append", !.fresh = {}, !.created = FALSE]
        /\ UNCHANGED <<ackedLines, ackedDeletes>>
    BY <1>5 DEF PassBarriers
  <2>2. /\ op'.left = op.left /\ op'.rows = op.rows /\ op'.fresh = {} /\ op'.files = {}
        /\ op'.drop = op.drop /\ op.drop = 0 /\ op'.step = "append" /\ op' \in FileOp
    BY <1>2, <1>5, <2>1 DEF FileOp
  <2>3. FileTypes'
    BY <1>1, <1>3, <2>2 DEF FileTypes
  <2>4. DurabilityTypeOK'
    <3>1. \A g \in ChunkFile : /\ cache'[g] = Absent \/ cache'[g] \in Seq(-2..LastLine)
                               /\ cache'[g] \in data'[g]
                               /\ Present(g)' => depth' = Depth
      BY <1>1, <1>3 DEF DurabilityTypeOK
    <3> QED
      BY <1>1, <2>1, <2>2, <3>1 DEF DurabilityTypeOK
  <2>5. OpInStep'
    BY <2>2 DEF OpInStep
  <2>6. RowHasOneHome'
    BY <1>1, <1>3, <2>2, HomesKept
  <2>7. DeletedIsGone'
    BY <1>1, <1>3, <2>1, <2>2 DEF DeletedIsGone
  <2>8. NamesAreSynced' /\ DirectoryIsSynced'
    BY <1>1, <1>3, <1>4 DEF NamesAreSynced, DirectoryIsSynced
  <2>9. WrittenIsThere'
    BY <1>1, <1>2, <1>3, <2>2 DEF WrittenIsThere
  <2>10. AcknowledgedIsStable'
    BY <1>1, <1>3, <2>1, <2>2 DEF AcknowledgedIsStable
  <2> QED
    BY <2>3, <2>4, <2>5, <2>6, <2>7, <2>8, <2>9, <2>10
<1>6. CASE op.left = <<>>
  <2>1. /\ op' = Idle
        /\ ackedLines' = ackedLines \cup op.rows
        /\ ackedDeletes' = ackedDeletes \cup ({op.drop} \ {0})
    BY <1>6 DEF PassBarriers
  <2>2. /\ op'.left = <<>> /\ op'.rows = {} /\ op'.fresh = {} /\ op'.drop = 0
        /\ op'.step = "idle" /\ op' \in FileOp
    BY <2>1, Bounds DEF Idle, FileOp
  <2>3. op.rows \subseteq 1..lastLine
    BY DEF RowHasOneHome
  <2>4. op.drop # 0 => op.drop \in triedDeletes
    BY DEF DeletedIsGone
  <2>5. FileTypes'
    BY <1>1, <1>3, <2>2 DEF FileTypes
  <2>6. DurabilityTypeOK'
    <3>1. \A g \in ChunkFile : /\ cache'[g] = Absent \/ cache'[g] \in Seq(-2..LastLine)
                               /\ cache'[g] \in data'[g]
                               /\ Present(g)' => depth' = Depth
      BY <1>1, <1>3 DEF DurabilityTypeOK
    <3> QED
      BY <1>1, <2>1, <2>2, <2>3, <2>4, <3>1 DEF DurabilityTypeOK
  <2>7. OpInStep'
    BY <2>1, <2>2, IdleIs DEF OpInStep
  <2>8. RowHasOneHome'
    BY <1>1, <1>3, <2>2, HomesKept
  <2>9. DeletedIsGone'
    <3>1. op.drop # 0 => \A f \in ChunkFile : \A c \in Outcomes(f) : op.drop \notin RowsOf(c)
      BY <1>1 DEF DeletedIsGone, Outcomes
    <3> QED
      BY <1>1, <1>3, <2>1, <2>2, <3>1 DEF DeletedIsGone
  <2>10. NamesAreSynced' /\ DirectoryIsSynced'
    BY <1>1, <1>3, <1>4 DEF NamesAreSynced, DirectoryIsSynced
  <2>11. WrittenIsThere'
    BY <2>2 DEF WrittenIsThere
  <2>12. AcknowledgedIsStable'
    <3>1. SUFFICES ASSUME excuse = {}, NEW q \in (ackedLines \cup op.rows) \ triedDeletes
                   PROVE  \E f \in ChunkFile : \A c \in Outcomes(f) : q \in RowsOf(c)
      BY <1>1, <1>3, <2>1, <2>2 DEF AcknowledgedIsStable
    <3>2. CASE q \in ackedLines
      BY <3>1, <3>2 DEF AcknowledgedIsStable
    <3>3. CASE q \in op.rows
      <4>1. PICK f \in ChunkFile : q \in RowsOf(cache[f]) /\ \A c \in data[f] : q \in RowsOf(c)
        BY <1>2, <1>6, <3>1, <3>3 DEF WrittenIsThere
      <4>2. entry[f] = {}
        BY <1>4, <3>1, <4>1, CachedIsOutcome
      <4> QED
        BY <4>1, <4>2 DEF Outcomes
    <3> QED
      BY <3>2, <3>3
  <2> QED
    BY <2>5, <2>6, <2>7, <2>8, <2>9, <2>10, <2>11, <2>12
<1> QED
  BY <1>5, <1>6

\* A row is dropped by a rewrite.
LEMMA FileIsRewritten ==
  ASSUME DurabilityInvariant, Rewrite
  PROVE  DurabilityInvariant'
<1> USE DEF DurabilityInvariant
<1>1. PICK i \in DOMAIN cache[0] :
        LET row == cache[0][i]
            kept == Ended(RemoveAt(cache[0], i))
        IN /\ row \notin {HalfLine, JoinedLine}
           /\ cache' = [cache EXCEPT ![0] = kept]
           /\ data' = [data EXCEPT ![0] = {kept}]
           /\ entry' = [entry EXCEPT ![0] = @ \cup data[0]]
           /\ op' = [Idle EXCEPT !.step = "names", !.dirs = {Depth}, !.drop = row]
           /\ triedDeletes' = triedDeletes \cup {row}
  BY DEF Rewrite
<1> DEFINE row == cache[0][i]
           kept == Ended(RemoveAt(cache[0], i))
<1>2. /\ op = Idle /\ Present(0)
      /\ UNCHANGED <<mode, depth, loose, lastLine, losses, ackedLines, ackedDeletes, excuse>>
  BY DEF Rewrite, OpInStep
<1>3. 0 \in ChunkFile /\ LastLine \in Nat /\ lastLine \in 0..LastLine /\ Depth \in Nat
  BY Bounds DEF DurabilityTypeOK
<1>4. cache[0] \in Seq(FileLine) /\ cache[0] \in Outcomes(0) /\ cache[0] \in data[0]
        /\ Once(cache[0])
  BY <1>2, <1>3, CachedIsOutcome DEF Contents, Present, RowHasOneHome
<1>5. row \in RowsOf(cache[0]) /\ row \in 1..lastLine
  <2>1. RowsIn(cache[0]) = cache[0]
    BY <1>4, NotAbsent
  <2>2. row \in RowsOf(cache[0])
    BY <1>1, <2>1 DEF RowsOf
  <2> QED
    BY <1>3, <1>4, <2>2 DEF RowHasOneHome
<1>6. kept \in Seq(FileLine) /\ RowsOf(kept) = RowsOf(cache[0]) \ {row} /\ Once(kept)
  BY <1>1, <1>4, RowDropped
<1>7. /\ op'.step = "names" /\ op'.left = <<>> /\ op'.rows = {} /\ op'.files = {}
      /\ op'.fresh = {} /\ op'.dirs = {Depth} /\ op'.drop = row /\ op' \in FileOp
  <2>1. row \in 0..LastLine
    BY <1>3, <1>5
  <2>2. op' = [step |-> "names", left |-> <<>>, rows |-> {}, files |-> {}, fresh |-> {},
               created |-> FALSE, dirs |-> {Depth}, drop |-> row]
    BY <1>1 DEF Idle
  <2>3. <<>> \in Seq(1..LastLine)
    OBVIOUS
  <2> HIDE DEF row
  <2> QED
    BY <2>1, <2>2, <2>3 DEF FileOp
<1>8. op.left = <<>> /\ op.fresh = {} /\ op.drop = 0 /\ op.created = FALSE /\ op.rows = {}
        /\ op.step = "idle"
  BY <1>2 DEF Idle
<1>9. /\ cache' = [cache EXCEPT ![0] = kept] /\ data' = [data EXCEPT ![0] = {kept}]
      /\ entry' = [entry EXCEPT ![0] = @ \cup data[0]]
      /\ triedDeletes' = triedDeletes \cup {row}
  BY <1>1
<1>10. kept \in Contents /\ kept # Absent
  BY <1>6, NotAbsent DEF Contents
<1> HIDE DEF row, kept
<1>11. /\ \A g \in ChunkFile \ {0} :
            /\ cache'[g] = cache[g] /\ data'[g] = data[g] /\ entry'[g] = entry[g]
            /\ Present(g)' <=> Present(g)
            /\ Outcomes(g)' = Outcomes(g)
       /\ cache'[0] = kept /\ data'[0] = {kept} /\ entry'[0] = Outcomes(0)
       /\ Present(0)' /\ Outcomes(0)' = Outcomes(0) \cup {kept}
  BY <1>3, <1>9, <1>10 DEF FileTypes, Present, Outcomes
<1>12. depth = Depth
  BY <1>2, <1>3, CachedIsOutcome
<1>13. FileTypes'
  <2>1. /\ cache' \in [ChunkFile -> Contents] /\ data' \in [ChunkFile -> SUBSET Contents]
        /\ entry' \in [ChunkFile -> SUBSET Contents]
    BY <1>3, <1>9, <1>10 DEF FileTypes
  <2>2. \A g \in ChunkFile : ~Present(g)' => data'[g] = {Absent}
    BY <1>11 DEF FileTypes
  <2> QED
    BY <1>2, <1>3, <1>5, <1>7, <1>9, <1>12, <2>1, <2>2 DEF FileTypes
<1>14. DurabilityTypeOK'
  <2>1. \A g \in ChunkFile : cache'[g] \in data'[g] /\ (Present(g)' => depth' = Depth)
    BY <1>2, <1>11, <1>12 DEF DurabilityTypeOK
  <2>2. \A g \in ChunkFile : /\ cache'[g] = Absent \/ cache'[g] \in Seq(-2..LastLine)
                             /\ cache'[g] \in data'[g]
                             /\ Present(g)' => depth' = Depth
    BY <1>2, <1>13, <2>1, FilesTyped DEF DurabilityTypeOK
  <2> QED
    BY <1>2, <1>7, <1>9, <2>2 DEF DurabilityTypeOK
<1>15. OpInStep'
  BY <1>7 DEF OpInStep
<1>16. RowHasOneHome'
  <2>1. \A g \in ChunkFile : \A c \in Outcomes(g)' : Once(c) /\ RowsOf(c) \subseteq 1..lastLine
    BY <1>4, <1>6, <1>11 DEF RowHasOneHome
  <2>2. \A g \in ChunkFile : \A c \in Outcomes(g)' :
          \E d \in Outcomes(g) : RowsOf(c) \subseteq RowsOf(d)
    BY <1>4, <1>6, <1>11
  <2>3. \A g, h \in ChunkFile : \A c \in Outcomes(g)', d \in Outcomes(h)' :
          g # h => RowsOf(c) \cap RowsOf(d) = {}
    <3>1. SUFFICES ASSUME NEW g \in ChunkFile, NEW h \in ChunkFile, g # h,
                          NEW c \in Outcomes(g)', NEW d \in Outcomes(h)'
                   PROVE  RowsOf(c) \cap RowsOf(d) = {}
      OBVIOUS
    <3>2. PICK x \in Outcomes(g) : RowsOf(c) \subseteq RowsOf(x)
      BY <2>2
    <3>3. PICK y \in Outcomes(h) : RowsOf(d) \subseteq RowsOf(y)
      BY <2>2
    <3>4. RowsOf(x) \cap RowsOf(y) = {}
      BY <3>1 DEF RowHasOneHome
    <3> QED
      BY <3>2, <3>3, <3>4
  <2> QED
    BY <1>2, <1>7, <2>1, <2>3 DEF RowHasOneHome
<1>17. DeletedIsGone'
  <2>1. \A g \in ChunkFile : \A c \in Outcomes(g)' : ackedDeletes \cap RowsOf(c) = {}
    BY <1>4, <1>6, <1>11 DEF DeletedIsGone
  <2>2. \A g \in ChunkFile \ {0} : \A c \in Outcomes(g) : row \notin RowsOf(c)
    BY <1>3, <1>4, <1>5 DEF RowHasOneHome
  <2>3. \A g \in ChunkFile : \A c \in data'[g] : row \notin RowsOf(c)
    BY <1>6, <1>11, <2>2 DEF Outcomes
  <2> QED
    BY <1>2, <1>7, <1>9, <2>1, <2>3 DEF DeletedIsGone
<1>18. NamesAreSynced'
  BY <1>3, <1>5, <1>7 DEF NamesAreSynced
<1>19. DirectoryIsSynced'
  BY <1>2, <1>8 DEF DirectoryIsSynced
<1>20. WrittenIsThere'
  BY <1>7 DEF WrittenIsThere
<1>21. AcknowledgedIsStable'
  <2>1. SUFFICES ASSUME excuse = {}, NEW q \in ackedLines \ triedDeletes, q # row
                 PROVE  \E g \in ChunkFile : \A c \in Outcomes(g)' : q \in RowsOf(c)
    BY <1>2, <1>7, <1>9 DEF AcknowledgedIsStable
  <2>2. PICK g \in ChunkFile : \A c \in Outcomes(g) : q \in RowsOf(c)
    BY <2>1 DEF AcknowledgedIsStable
  <2>3. \A c \in Outcomes(g)' : q \in RowsOf(c)
    BY <1>4, <1>6, <1>11, <2>1, <2>2
  <2> QED
    BY <2>3
<1> QED
  BY <1>13, <1>14, <1>15, <1>16, <1>17, <1>18, <1>19, <1>20, <1>21

\* A write fails, or the process dies.
LEMMA OperationFails ==
  ASSUME DurabilityInvariant, FailOrDie
  PROVE  DurabilityInvariant'
<1> USE DEF DurabilityInvariant
<1>1. PICK gone \in {{}, FailedRemoves} :
        /\ cache' = [f \in ChunkFile |-> IF f \in gone THEN Absent ELSE cache[f]]
        /\ data' = [f \in ChunkFile |-> IF f \in gone THEN {Absent} ELSE data[f]]
        /\ entry' = [f \in ChunkFile |-> IF f \in gone THEN entry[f] \cup data[f] ELSE entry[f]]
        /\ excuse' = excuse \cup (IF op.fresh \ gone # {} \/ op.created \/ op.drop # 0
                                    THEN {"abandoned"} ELSE {})
  BY DEF FailOrDie
<1>2. /\ op' = Idle
      /\ UNCHANGED <<mode, depth, loose, lastLine, losses, ackedLines, triedDeletes, ackedDeletes>>
  BY DEF FailOrDie
<1>3. gone \subseteq op.fresh /\ gone \subseteq op.files
  BY DEF FailedRemoves
<1>4. excuse' \subseteq excuse \cup {"abandoned"}
        /\ (excuse' = {} => excuse = {} /\ op.fresh = gone /\ ~op.created /\ op.drop = 0)
  BY <1>1, <1>3
<1>5. /\ op'.step = "idle" /\ op'.left = <<>> /\ op'.rows = {} /\ op'.fresh = {}
      /\ op'.created = FALSE /\ op'.drop = 0 /\ op' \in FileOp
  BY <1>2, IdleIs
<1>6. \A g \in ChunkFile :
        /\ g \in gone => cache'[g] = Absent /\ data'[g] = {Absent} /\ ~Present(g)'
                           /\ entry'[g] = Outcomes(g)
        /\ g \notin gone => /\ cache'[g] = cache[g] /\ data'[g] = data[g] /\ entry'[g] = entry[g]
                            /\ Present(g)' <=> Present(g)
                            /\ Outcomes(g)' = Outcomes(g)
        /\ \A c \in Outcomes(g)' : c \in Outcomes(g) \/ c = Absent
  BY <1>1 DEF Present, Outcomes
<1>7. FileTypes'
  <2>1. /\ cache' \in [ChunkFile -> Contents] /\ data' \in [ChunkFile -> SUBSET Contents]
        /\ entry' \in [ChunkFile -> SUBSET Contents]
    BY <1>1 DEF FileTypes, Contents
  <2>2. \A g \in ChunkFile : ~Present(g)' => data'[g] = {Absent}
    BY <1>6 DEF FileTypes
  <2>3. gone # {} => depth = Depth
    BY <1>3 DEF OpInStep
  <2>4. \A g \in ChunkFile : depth' < Depth => entry'[g] = {}
    <3>1. SUFFICES ASSUME NEW g \in ChunkFile, depth < Depth  PROVE entry'[g] = {}
      BY <1>2
    <3>2. gone = {}
      BY <2>3, <3>1, Bounds
    <3> QED
      BY <1>6, <3>1, <3>2 DEF FileTypes
  <2>5. op' \in FileOp /\ triedDeletes' \subseteq 1..lastLine'
    BY <1>2, <1>5 DEF FileTypes
  <2> QED
    BY <2>1, <2>2, <2>4, <2>5 DEF FileTypes
<1>8. DurabilityTypeOK'
  <2>1. \A g \in ChunkFile : cache'[g] \in data'[g] /\ (Present(g)' => depth' = Depth)
    BY <1>2, <1>6 DEF DurabilityTypeOK
  <2>2. \A g \in ChunkFile : /\ cache'[g] = Absent \/ cache'[g] \in Seq(-2..LastLine)
                             /\ cache'[g] \in data'[g]
                             /\ Present(g)' => depth' = Depth
    BY <1>2, <1>7, <2>1, FilesTyped DEF DurabilityTypeOK
  <2> QED
    BY <1>2, <1>4, <1>5, <2>2 DEF DurabilityTypeOK
<1>9. OpInStep'
  BY <1>2, <1>5, IdleIs DEF OpInStep
<1>10. RowHasOneHome'
  BY <1>2, <1>5, <1>6, HomesKept
<1>11. DeletedIsGone'
  <2>1. \A g \in ChunkFile : \A c \in Outcomes(g)' : ackedDeletes \cap RowsOf(c) = {}
    BY <1>6, AbsentHasNone DEF DeletedIsGone
  <2> QED
    BY <1>2, <1>5, <2>1 DEF DeletedIsGone
<1>12. NamesAreSynced'
  BY <1>4, <1>6 DEF NamesAreSynced, OpInStep
<1>13. DirectoryIsSynced'
  BY <1>2, <1>4 DEF DirectoryIsSynced
<1>14. WrittenIsThere'
  BY <1>5 DEF WrittenIsThere
<1>15. AcknowledgedIsStable'
  BY <1>2, <1>3, <1>4, <1>5, <1>6 DEF AcknowledgedIsStable
<1> QED
  BY <1>7, <1>8, <1>9, <1>10, <1>11, <1>12, <1>13, <1>14, <1>15

\* Power is lost.
LEMMA PowerIsLost ==
  ASSUME DurabilityInvariant, LosePower
  PROVE  DurabilityInvariant'
<1> USE DEF DurabilityInvariant
<1>1. /\ losses < MaxLosses /\ losses' = losses + 1
      /\ op' = Idle /\ loose' = {} /\ entry' = [f \in ChunkFile |-> {}]
      /\ data' = [f \in ChunkFile |-> {cache'[f]}]
      /\ UNCHANGED <<mode, lastLine, ackedLines, triedDeletes, ackedDeletes, excuse>>
  BY DEF LosePower
<1>2. \/ /\ \E d \in loose : depth' = d - 1
         /\ cache' = [f \in ChunkFile |-> Absent]
      \/ /\ depth' = depth
         /\ cache' \in [ChunkFile -> UNION {data[f] \cup entry[f] : f \in ChunkFile}]
         /\ \A f \in ChunkFile : cache'[f] \in Outcomes(f)
  BY DEF LosePower, Outcomes
<1>3. /\ op'.step = "idle" /\ op'.left = <<>> /\ op'.rows = {} /\ op'.fresh = {}
      /\ op'.files = {} /\ op'.created = FALSE /\ op'.drop = 0 /\ op' \in FileOp
  BY <1>1, IdleIs
<1>4. depth \in 0..Depth /\ loose \subseteq 1..depth /\ Depth \in Nat /\ depth' \in 0..Depth
  BY <1>2, Bounds DEF DurabilityTypeOK
<1>5. /\ \A f \in ChunkFile : cache'[f] \in Outcomes(f) \cup {Absent} /\ cache'[f] \in Contents
      /\ cache' \in [ChunkFile -> Contents]
  <2>1. \A f \in ChunkFile : cache'[f] \in Outcomes(f) \cup {Absent}
    BY <1>2
  <2>2. \A f \in ChunkFile : cache'[f] \in Contents
    BY <2>1, CachedIsOutcome DEF Contents
  <2>3. cache' = [f \in ChunkFile |-> cache'[f]]
    BY <1>2
  <2> QED
    BY <2>1, <2>2, <2>3
<1>6. \A f \in ChunkFile : /\ data'[f] = {cache'[f]} /\ entry'[f] = {}
                           /\ Outcomes(f)' = {cache'[f]}
                           /\ Present(f)' <=> cache'[f] # Absent
  BY <1>1 DEF Outcomes, Present
<1>7. \A f \in ChunkFile : Present(f)' => depth' = Depth
  <2>1. SUFFICES ASSUME NEW f \in ChunkFile, cache'[f] # Absent  PROVE depth' = Depth
    BY <1>6
  <2>2. depth' = depth /\ cache'[f] \in Outcomes(f)
    BY <1>2, <2>1
  <2>3. CASE entry[f] # {}
    BY <1>4, <2>2, <2>3 DEF FileTypes
  <2>4. CASE entry[f] = {}
    <3>1. Present(f)
      BY <2>1, <2>2, <2>4 DEF FileTypes, Outcomes
    <3> QED
      BY <2>2, <3>1, CachedIsOutcome
  <2> QED
    BY <2>3, <2>4
<1>8. FileTypes'
  <2>1. data' \in [ChunkFile -> SUBSET Contents] /\ entry' \in [ChunkFile -> SUBSET Contents]
    BY <1>1, <1>5
  <2> QED
    BY <1>1, <1>3, <1>5, <1>6, <2>1 DEF FileTypes
<1>9. DurabilityTypeOK'
  <2>1. \A f \in ChunkFile : /\ cache'[f] = Absent \/ cache'[f] \in Seq(-2..LastLine)
                             /\ cache'[f] \in data'[f]
                             /\ Present(f)' => depth' = Depth
    BY <1>4, <1>6, <1>7, <1>8, FilesTyped
  <2>2. losses' \in 0..MaxLosses
    BY <1>1, Bounds DEF DurabilityTypeOK
  <2> QED
    BY <1>1, <1>3, <1>4, <2>1, <2>2 DEF DurabilityTypeOK
<1>10. OpInStep'
  BY <1>1, <1>3, IdleIs DEF OpInStep
<1>11. RowHasOneHome'
  BY <1>1, <1>3, <1>5, <1>6, HomesKept
<1>12. DeletedIsGone'
  BY <1>1, <1>3, <1>5, <1>6, AbsentHasNone DEF DeletedIsGone
<1>13. NamesAreSynced' /\ DirectoryIsSynced'
  BY <1>1, <1>6 DEF NamesAreSynced, DirectoryIsSynced
<1>14. WrittenIsThere'
  BY <1>3 DEF WrittenIsThere
<1>15. AcknowledgedIsStable'
  <2>1. SUFFICES ASSUME excuse = {}, NEW q \in ackedLines \ triedDeletes
                 PROVE  \E f \in ChunkFile : q \in RowsOf(cache'[f])
    BY <1>1, <1>3, <1>6 DEF AcknowledgedIsStable
  <2>2. loose = {}
    BY <2>1 DEF DirectoryIsSynced
  <2> QED
    BY <1>2, <2>1, <2>2 DEF AcknowledgedIsStable
<1> QED
  BY <1>8, <1>9, <1>10, <1>11, <1>12, <1>13, <1>14, <1>15

\* The invariant holds of what is read at any moment, and so after a power loss.
LEMMA InvariantMeansDurable ==
  DurabilityInvariant => AcknowledgedSurvivesPowerLoss
<1> SUFFICES ASSUME DurabilityInvariant  PROVE AcknowledgedSurvivesPowerLoss
  OBVIOUS
<1> USE DEF DurabilityInvariant
<1>1. \A f \in ChunkFile : RowsOf(cache[f]) \subseteq Readable
  BY DEF Readable, RowsOf
<1>2. excuse = {} => ackedLines \ triedDeletes \subseteq Readable
  BY <1>1, CachedIsOutcome DEF AcknowledgedIsStable
<1>3. ackedDeletes \cap Readable = {}
  <2>1. SUFFICES ASSUME NEW q \in ackedDeletes, q \in Readable  PROVE FALSE
    OBVIOUS
  <2>2. PICK f \in ChunkFile : q \in {RowsIn(cache[f])[i] : i \in DOMAIN RowsIn(cache[f])}
    BY <2>1 DEF Readable
  <2>3. q \in 1..LastLine
    BY <2>1, Bounds DEF DurabilityTypeOK, FileTypes
  <2>4. q \notin {HalfLine, JoinedLine}
    BY <2>3, Bounds DEF HalfLine, JoinedLine
  <2> QED
    BY <2>1, <2>2, <2>4, CachedIsOutcome DEF DeletedIsGone, RowsOf
<1> QED
  BY <1>2, <1>3 DEF AcknowledgedSurvivesPowerLoss

--------------------------------------------------------------------------------
(* Theorems                                                                     *)

\* DurabilityInvariant is an invariant: in mode fsync and direct, whatever fails
\* and whenever power is lost.
THEOREM DurabilityInvariantHolds == DurabilitySpec => []DurabilityInvariant
<1>1. DurabilityInvariant /\ [DurabilityNext]_durabilityVars => DurabilityInvariant'
  <2>1. SUFFICES ASSUME DurabilityInvariant, [DurabilityNext]_durabilityVars
                 PROVE  DurabilityInvariant'
    OBVIOUS
  <2>2. CASE BeginFlush
    BY <2>1, <2>2, FlushBegins
  <2>3. CASE AppendDurable
    BY <2>1, <2>3, RowIsAppended
  <2>4. CASE BarrierFile
    BY <2>1, <2>4, FileIsBarred
  <2>5. CASE SyncDirectory
    BY <2>1, <2>5, DirectorySyncs
  <2>6. CASE PassBarriers
    BY <2>1, <2>6, BarriersArePassed
  <2>7. CASE Rewrite
    BY <2>1, <2>7, FileIsRewritten
  <2>8. CASE FailOrDie
    BY <2>1, <2>8, OperationFails
  <2>9. CASE LosePower
    BY <2>1, <2>9, PowerIsLost
  <2>10. CASE UNCHANGED durabilityVars
    BY <2>1, <2>10
       DEF durabilityVars, DurabilityInvariant, DurabilityTypeOK, FileTypes, OpInStep,
           RowHasOneHome, DeletedIsGone, NamesAreSynced, DirectoryIsSynced, WrittenIsThere,
           AcknowledgedIsStable, Outcomes, Present
  <2> QED
    BY <2>1, <2>2, <2>3, <2>4, <2>5, <2>6, <2>7, <2>8, <2>9, <2>10 DEF DurabilityNext
<1> QED
  BY <1>1, DurabilityAtFirst, PTL DEF DurabilitySpec

\* RPO 0 of the modes fsync and direct (src/storage/durability.ts): a row that was
\* acknowledged and not deleted is read after any power losses, and an
\* acknowledged delete is not undone, for any layout of directories, chunks and
\* flushes, unless one of the three excuses happened.
THEOREM AcknowledgedSurvives == DurabilitySpec => []AcknowledgedSurvivesPowerLoss
BY DurabilityInvariantHolds, InvariantMeansDurable, PTL

--------------------------------------------------------------------------------
(***************************************************************************)
(* Consolidation, for any partition, bounds and records, and any number of *)
(* passes and appends, with each pass killed anywhere.                     *)
(* ConsolidationInvariant is inductive; KilledPassKeepsRecords follows     *)
(* from it.                                                                *)
(***************************************************************************)

\* Consolidation as a specification of its own.
ConsolidationSpec == ConsolidationInit /\ [][ConsolidationNext]_consolidationVars

Chunk == [input : Nat, name : Nat, from : Nat, to : Nat]
Output == [name : Nat, lines : Seq(Nat)]

\* Files that a partition can hold.
Partitioned(files) ==
  /\ IsFiniteSet(DOMAIN files) /\ DOMAIN files \subseteq Nat
  /\ \A n \in DOMAIN files : files[n] \in Seq(Nat)

\* The types, and that an append which no pass has met is before or after it.
ConsolidationTypes ==
  /\ Partitioned(segments)
  /\ found \in Nat /\ stored \in Nat /\ found <= stored
  /\ appending \in {<<>>} \cup ({stored + 1} \X Nat)
  /\ pass \in {"idle", "planned", "read", "write", "delete", "done", "failed", "killed"}
  /\ passes \in 0..MaxPasses /\ raced \in BOOLEAN /\ upward \in BOOLEAN
  /\ outputs \in Seq(Output)
  /\ Running /\ ~raced => appending = <<>>

\* The records that a kill must leave.
Guarded == 1..(IF raced THEN found ELSE stored)

\* What is written has names of its own, which are not removed.
NamesApart(outs, removed) ==
  /\ \A i, j \in 1..Len(outs) : outs[i].name = outs[j].name => i = j
  /\ \A i \in 1..Len(outs) : outs[i].name \notin removed

\* A plan that can be carried out, and one that can be on files that have grown.
Feasible(p, files) ==
  /\ p.merges \in Seq(Seq(Nat)) /\ p.chunks \in Seq(Chunk)
  /\ \A i \in 1..Len(p.merges) : p.merges[i] # <<>> /\ Range(p.merges[i]) \subseteq DOMAIN files
  /\ \A i \in 1..Len(p.chunks) :
       LET c == p.chunks[i]
       IN c.input \in DOMAIN files /\ c.from <= c.to /\ c.to <= Len(files[c.input])

PlanFits(p, files) == Feasible(p, files) /\ NamesApart(Outputs(p, files), p.removed)

\* A record of a file is taken along: the file is merged, or stays, and if it is
\* replaced by a chunk, the record is in that chunk or in one written before it.
Cuts(p, files, n, r, h) ==
  /\ p.chunks[h].input = n
  /\ \E i \in p.chunks[h].from + 1..p.chunks[h].to : files[n][i] = r
Placed(p, files, n, r) ==
  \/ \E i \in 1..Len(p.merges) : n \in Range(p.merges[i])
  \/ /\ n \notin p.removed
     /\ \A j \in 1..Len(p.chunks) :
          p.chunks[j].name = n => \E h \in 1..j : Cuts(p, files, n, r, h)

PlanKeeps(p, files, records) ==
  \A r \in records : \E n \in DOMAIN files : r \in Range(files[n]) /\ Placed(p, files, n, r)

\* A record has a file that stays, or is written again before the file goes.
Home(files, outs, removed, n, r) ==
  /\ r \in Range(files[n])
  /\ \A k \in 1..Len(outs) :
       outs[k].name = n => \E j \in 1..k : r \in Range(outs[j].lines)
  /\ n \in removed => \E j \in 1..Len(outs) : r \in Range(outs[j].lines)

Held(files, outs, removed, records) ==
  \A r \in records : \E n \in DOMAIN files : Home(files, outs, removed, n, r)

\* Where the guarded records are, step by step of a pass.
RecordsKept ==
  /\ pass \in {"planned", "read"} => PlanKeeps(plan, segments, Guarded)
  /\ pass = "write" => Held(segments, outputs, plan.removed, Guarded)
  /\ pass = "delete" => Held(segments, <<>>, plan.removed, Guarded)
  /\ ~Running => Guarded \subseteq OnDisk

\* The inductive invariant.
ConsolidationInvariant ==
  /\ ConsolidationTypes
  /\ pass \in {"planned", "read"} => PlanFits(plan, segments)
  /\ pass = "write" => NamesApart(outputs, plan.removed)
  /\ ~upward => RecordsKept


\* A set of numbers that is not empty has a smallest one.
LEMMA SmallestExists ==
  ASSUME NEW S \in SUBSET Nat, S # {}
  PROVE  \E m \in S : \A n \in S : m <= n
<1> DEFINE R == OpToRel(<, Nat)
<1>1. IsWellFoundedOn(R, Nat)
  BY NatLessThanWellFounded
<1>2. PICK m \in S : \A n \in S : ~ (<<n, m>> \in R)
  <2> HIDE DEF R
  <2> QED
    BY <1>1, WFMin
<1>3. SUFFICES ASSUME NEW n \in S PROVE m <= n
  OBVIOUS
<1>4. ~(n < m)
  BY <1>2 DEF OpToRel
<1> QED
  BY <1>4

\* What holds first and is handed on from each number to the next holds for all.
LEMMA Stepwise ==
  ASSUME NEW first \in Nat, NEW last \in Nat, NEW T, NEW g, g[first] \in T[first],
         \A n \in first + 1..last : g[n - 1] \in T[n - 1] => g[n] \in T[n]
  PROVE  \A n \in first..last : g[n] \in T[n]
<1> DEFINE Bad == {n \in first..last : g[n] \notin T[n]}
<1> SUFFICES ASSUME Bad # {} PROVE FALSE
  OBVIOUS
<1>1. PICK m \in Bad : \A d \in Bad : m <= d
  <2> HIDE DEF Bad
  <2>1. Bad \in SUBSET Nat
    BY DEF Bad
  <2> QED
    BY <2>1, SmallestExists
<1>2. m # first /\ m \in first + 1..last /\ m - 1 \in first..last /\ m - 1 \notin Bad
  BY <1>1
<1> QED
  BY <1>1, <1>2

\* A function on a stretch of numbers can be defined step by step, if each step
\* leads from the values meant before it to those meant after it.
Steps(g, first, last, base, step) ==
  /\ g = [n \in first..last |-> g[n]]
  /\ g[first] = base /\ \A n \in first + 1..last : g[n] = step[n][g[n - 1]]

LEMMA Recursion ==
  ASSUME NEW first \in Nat, NEW last \in Nat, first <= last,
         NEW T, NEW base \in T[first],
         NEW step, \A n \in first + 1..last : step[n] \in [T[n - 1] -> T[n]]
  PROVE  \E g : Steps(g, first, last, base, step) /\ \A n \in first..last : g[n] \in T[n]
<1> DEFINE Bad == {top \in first..last : ~\E g : Steps(g, first, top, base, step)}
<1>1. Bad = {}
  <2> SUFFICES ASSUME Bad # {} PROVE FALSE
    OBVIOUS
  <2>1. PICK m \in Bad : \A d \in Bad : m <= d
    <3> HIDE DEF Bad
    <3>1. Bad \in SUBSET Nat
      BY DEF Bad
    <3> QED
      BY <3>1, SmallestExists
  <2>2. m # first
    <3> DEFINE one == [n \in first..first |-> base]
    <3>1. Steps(one, first, first, base, step)
      BY DEF Steps
    <3> QED
      BY <2>1, <3>1
  <2>3. m \in first + 1..last /\ m - 1 \in first..last /\ m - 1 \notin Bad
    BY <2>1, <2>2
  <2>4. PICK g : Steps(g, first, m - 1, base, step)
    BY <2>3
  <2> DEFINE h == [n \in first..m |-> IF n = m THEN step[m][g[m - 1]] ELSE g[n]]
  <2>5. /\ h = [n \in first..m |-> h[n]]
        /\ h[m] = step[m][g[m - 1]]
        /\ \A n \in first..m - 1 : h[n] = g[n]
    BY <2>3
  <2> HIDE DEF h
  <2>6. h[first] = base
    <3>1. first \in first..m - 1
      BY <2>3
    <3>2. g[first] = base
      BY <2>4 DEF Steps
    <3> QED
      BY <2>5, <3>1, <3>2
  <2>7. \A n \in first + 1..m : h[n] = step[n][h[n - 1]]
    <3>1. TAKE n \in first + 1..m
    <3>2. n - 1 \in first..m - 1 /\ (n = m \/ n \in first + 1..m - 1) /\ (n # m => n \in first..m - 1)
      BY <2>3
    <3>3. h[n - 1] = g[n - 1]
      BY <2>5, <3>2
    <3>4. n \in first + 1..m - 1 => g[n] = step[n][g[n - 1]]
      BY <2>4 DEF Steps
    <3> QED
      BY <2>5, <3>2, <3>3, <3>4
  <2>8. Steps(h, first, m, base, step)
    BY <2>5, <2>6, <2>7 DEF Steps
  <2> QED
    BY <2>1, <2>8
<1>2. PICK g : Steps(g, first, last, base, step)
  <2>1. last \in first..last
    OBVIOUS
  <2> QED
    BY <1>1, <2>1
<1>3. \A n \in first..last : g[n] \in T[n]
  <2>1. g[first] \in T[first]
    BY <1>2 DEF Steps
  <2>2. \A n \in first + 1..last : g[n - 1] \in T[n - 1] => g[n] \in T[n]
    BY <1>2 DEF Steps
  <2> QED
    BY <2>1, <2>2, Stepwise
<1> QED
  BY <1>2, <1>3


\* The elements of a sequence.
LEMMA SequenceParts ==
  ASSUME NEW T, NEW s \in Seq(T)
  PROVE  /\ Len(s) \in Nat /\ DOMAIN s = 1..Len(s)
         /\ \A i \in 1..Len(s) : s[i] \in T /\ s[i] \in Range(s)
         /\ \A x : x \in Range(s) <=> \E i \in 1..Len(s) : x = s[i]
         /\ Range(s) \subseteq T
<1>1. Len(s) \in Nat /\ DOMAIN s = 1..Len(s) /\ \A i \in 1..Len(s) : s[i] \in T
  OBVIOUS
<1> QED
  BY <1>1 DEF Range

LEMMA JoinedParts ==
  ASSUME NEW T, NEW s \in Seq(T), NEW t \in Seq(T)
  PROVE  /\ s \o t \in Seq(T) /\ Len(s \o t) = Len(s) + Len(t) /\ Len(s) \in Nat /\ Len(t) \in Nat
         /\ \A i \in 1..Len(s) : (s \o t)[i] = s[i] /\ i \in 1..Len(s) + Len(t)
         /\ \A i \in 1..Len(t) : (s \o t)[Len(s) + i] = t[i] /\ Len(s) + i \in 1..Len(s) + Len(t)
         /\ \A i \in 1..Len(s) + Len(t) :
              i \in 1..Len(s) \/ (i > Len(s) /\ i - Len(s) \in 1..Len(t) /\ (s \o t)[i] = t[i - Len(s)])
         /\ Range(s \o t) = Range(s) \cup Range(t)
<1>1. /\ s \o t \in Seq(T) /\ Len(s \o t) = Len(s) + Len(t) /\ Len(s) \in Nat /\ Len(t) \in Nat
      /\ \A i \in 1..Len(s) : (s \o t)[i] = s[i] /\ i \in 1..Len(s) + Len(t)
  OBVIOUS
<1>2. \A i \in 1..Len(t) : (s \o t)[Len(s) + i] = t[i] /\ Len(s) + i \in 1..Len(s) + Len(t)
  OBVIOUS
<1>3. \A i \in 1..Len(s) + Len(t) :
        i \in 1..Len(s) \/ (i > Len(s) /\ i - Len(s) \in 1..Len(t) /\ (s \o t)[i] = t[i - Len(s)])
  OBVIOUS
<1>4. Range(s \o t) = Range(s) \cup Range(t)
  <2> DEFINE st == s \o t
  <2>1. \A x : x \in Range(st) <=> \E i \in 1..Len(s) + Len(t) : x = st[i]
    <3>1. st \in Seq(T) /\ Len(st) = Len(s) + Len(t)
      BY <1>1
    <3> HIDE DEF st
    <3> QED
      BY <3>1, SequenceParts
  <2>2. \A x : /\ x \in Range(s) <=> \E i \in 1..Len(s) : x = s[i]
               /\ x \in Range(t) <=> \E i \in 1..Len(t) : x = t[i]
    BY SequenceParts
  <2> QED
    BY <1>1, <1>2, <1>3, <2>1, <2>2
<1> QED
  BY <1>1, <1>2, <1>3, <1>4

\* A flattened sequence has the elements of its parts.
LEMMA FlattenParts ==
  ASSUME NEW T, NEW ss \in Seq(Seq(T))
  PROVE  /\ FlattenSeq(ss) \in Seq(T)
         /\ \A x : x \in Range(FlattenSeq(ss)) <=> \E i \in 1..Len(ss) : x \in Range(ss[i])
<1>1. Len(ss) \in Nat /\ \A i \in 1..Len(ss) : ss[i] \in Seq(T)
  BY SequenceParts
<1>2. CASE Len(ss) = 0
  <2>1. FlattenSeq(ss) = <<>>
    BY <1>2 DEF FlattenSeq
  <2>2. <<>> \in Seq(T) /\ Range(<<>>) = {}
    BY DEF Range
  <2> QED
    BY <1>2, <2>1, <2>2
<1>3. CASE Len(ss) # 0
  <2> DEFINE len == Len(ss)
             All(n) == UNION {Range(ss[i]) : i \in 1..n}
             U == [n \in 1..len |-> {t \in Seq(T) : Range(t) = All(n)}]
             step == [n \in 2..len |-> [t \in U[n - 1] |-> t \o ss[n]]]
             Is(g) == g = [i \in 1..len |-> IF i = 1 THEN ss[i] ELSE g[i - 1] \o ss[i]]
             flatten[i \in 1..len] == IF i = 1 THEN ss[i] ELSE flatten[i - 1] \o ss[i]
  <2>1. len \in Nat /\ 1 <= len /\ 1 \in 1..len /\ len \in 1..len
    BY <1>1, <1>3
  <2>2. ss[1] \in U[1]
    <3>1. All(1) = Range(ss[1])
      OBVIOUS
    <3> QED
      BY <1>1, <2>1, <3>1
  <2>3. \A n \in 2..len : \A t \in U[n - 1] : t \o ss[n] \in U[n]
    <3>1. TAKE n \in 2..len
    <3>2. TAKE t \in U[n - 1]
    <3>3. n \in 1..len /\ n - 1 \in 1..len /\ \A i : i \in 1..n <=> i \in 1..n - 1 \/ i = n
      <4> HIDE DEF U, len
      <4> QED
        BY <2>1
    <3>4. All(n) = All(n - 1) \cup Range(ss[n])
      <4> HIDE DEF U, len
      <4> QED
        BY <3>3
    <3> HIDE DEF All
    <3>5. t \in Seq(T) /\ Range(t) = All(n - 1) /\ ss[n] \in Seq(T)
      BY <1>1, <3>2, <3>3
    <3>6. t \o ss[n] \in Seq(T) /\ Range(t \o ss[n]) = Range(t) \cup Range(ss[n])
      BY <3>5, JoinedParts
    <3> QED
      BY <3>3, <3>4, <3>5, <3>6
  <2>4. \E g : Is(g)
    <3>1. \A n \in 1 + 1..len : step[n] \in [U[n - 1] -> U[n]]
      <4>1. \A n \in 1 + 1..len : n \in 2..len
        OBVIOUS
      <4> HIDE DEF U
      <4> QED
        BY <2>3, <4>1
    <3>2. PICK g : Steps(g, 1, len, ss[1], step) /\ \A n \in 1..len : g[n] \in U[n]
      <4> HIDE DEF U, step, len
      <4> QED
        BY <2>1, <2>2, <3>1, Recursion
    <3>3. \A n \in 1..len : g[n] = IF n = 1 THEN ss[n] ELSE g[n - 1] \o ss[n]
      <4>1. TAKE n \in 1..len
      <4>2. n # 1 => n \in 2..len /\ n \in 1 + 1..len /\ n - 1 \in 1..len
        BY <2>1
      <4> QED
        BY <3>2, <4>2 DEF Steps
    <3>4. g = [n \in 1..len |-> g[n]]
      BY <3>2 DEF Steps
    <3>5. g = [i \in 1..len |-> IF i = 1 THEN ss[i] ELSE g[i - 1] \o ss[i]]
      <4> HIDE DEF U, step, len, All
      <4> QED
        BY <3>3, <3>4
    <3> QED
      BY <3>5
  <2>5. Is(flatten)
    <3>1. flatten = CHOOSE g : Is(g)
      BY DEF flatten, Is
    <3> QED
      BY <2>4, <3>1
  <2>6. \A n \in 1..len : flatten[n] = IF n = 1 THEN ss[n] ELSE flatten[n - 1] \o ss[n]
    <3> HIDE DEF flatten
    <3> QED
      BY <2>5
  <2>7. FlattenSeq(ss) = flatten[len]
    BY <1>3 DEF FlattenSeq
  <2>8. \A n \in 1..len : flatten[n] \in U[n]
    <3>1. flatten[1] \in U[1]
      <4> HIDE DEF U, flatten
      <4> QED
        BY <2>1, <2>2, <2>6
    <3>2. \A n \in 1 + 1..len : flatten[n - 1] \in U[n - 1] => flatten[n] \in U[n]
      <4>1. TAKE n \in 1 + 1..len
      <4>2. n \in 1..len /\ n # 1 /\ n \in 2..len
        BY <2>1
      <4> HIDE DEF U, flatten
      <4> QED
        BY <2>3, <2>6, <4>2
    <3> HIDE DEF U, flatten, len
    <3> QED
      BY <2>1, <3>1, <3>2, Stepwise
  <2>9. flatten[len] \in U[len]
    BY <2>1, <2>8
  <2> HIDE DEF flatten
  <2> QED
    BY <2>1, <2>7, <2>9
<1> QED
  BY <1>2, <1>3

\* The numbers of a finite set in ascending order.
LEMMA OrderedParts ==
  ASSUME NEW S \in SUBSET Nat, IsFiniteSet(S)
  PROVE  /\ Cardinality(S) \in Nat /\ Ordered(S) \in Seq(S) /\ Len(Ordered(S)) = Cardinality(S)
         /\ \A k \in 1..Cardinality(S) : Ordered(S)[k] \in S
         /\ \A n \in S : \E k \in 1..Cardinality(S) : Ordered(S)[k] = n
         /\ \A i, j \in 1..Cardinality(S) : i < j => Ordered(S)[i] < Ordered(S)[j]
<1> DEFINE size == Cardinality(S)
           lower(n) == {m \in S : m < n}
           rank == [n \in S |-> Cardinality(lower(n)) + 1]
<1>1. size \in Nat
  BY FS_CardinalityType
<1>2. \A n \in S : IsFiniteSet(lower(n)) /\ Cardinality(lower(n)) \in Nat /\ Cardinality(lower(n)) <= size
  BY FS_Subset, FS_CardinalityType
<1>3. \A m, n \in S : m < n => rank[m] < rank[n]
  <2>1. SUFFICES ASSUME NEW m \in S, NEW n \in S, m < n
                 PROVE  Cardinality(lower(m)) < Cardinality(lower(n))
    BY <1>2
  <2>2. lower(m) \in SUBSET lower(n) /\ m \in lower(n) /\ m \notin lower(m)
    <3>1. \A d \in S : d \in Nat
      OBVIOUS
    <3>2. \A d \in S : d < m => d < n
      BY <2>1, <3>1
    <3>3. ~(m < m)
      BY <3>1
    <3> QED
      BY <2>1, <3>2, <3>3
  <2>3. /\ Cardinality(lower(m)) <= Cardinality(lower(n))
        /\ Cardinality(lower(n)) = Cardinality(lower(m)) => lower(n) = lower(m)
    BY <1>2, <2>2, FS_Subset
  <2> HIDE DEF lower
  <2> QED
    BY <1>2, <2>2, <2>3
<1>4. \A n \in S : rank[n] \in 1..size
  <2>1. SUFFICES ASSUME NEW n \in S PROVE Cardinality(lower(n)) < size
    BY <1>1, <1>2
  <2>2. lower(n) \in SUBSET S /\ n \notin lower(n)
    OBVIOUS
  <2>3. /\ Cardinality(lower(n)) <= Cardinality(S)
        /\ Cardinality(S) = Cardinality(lower(n)) => S = lower(n)
    BY <2>2, FS_Subset
  <2> HIDE DEF lower
  <2> QED
    BY <1>1, <1>2, <2>2, <2>3
<1>5. rank \in [S -> 1..size]
  BY <1>4
<1> HIDE DEF rank
<1>12. \A m, n \in S : rank[m] = rank[n] => m = n
  <2>1. SUFFICES ASSUME NEW m \in S, NEW n \in S, rank[m] = rank[n], m # n PROVE FALSE
    OBVIOUS
  <2>2. m \in Nat /\ n \in Nat /\ rank[m] \in Nat /\ rank[n] \in Nat
    BY <1>5
  <2>3. m < n \/ n < m
    BY <2>1, <2>2
  <2> QED
    BY <1>3, <2>1, <2>2, <2>3
<1>6. \A k \in 1..size : \E n \in S : rank[n] = k
  <2>2. rank \in Injection(S, 1..size)
    BY <1>5, <1>12 DEF Injection, IsInjective
  <2>3. IsFiniteSet(1..size) /\ Cardinality(1..size) = size
    BY <1>1, FS_Interval
  <2>4. rank \in Surjection(S, 1..size)
    BY <2>2, <2>3, FS_Injection
  <2> QED
    BY <2>4 DEF Surjection
<1>7. \A n \in S : \A k \in 1..size : Cardinality({m \in S : m < n}) = k - 1 <=> rank[n] = k
  BY <1>2 DEF rank
<1>8. \A k \in 1..size : Ordered(S)[k] \in S /\ rank[Ordered(S)[k]] = k
  <2>1. TAKE k \in 1..size
  <2>2. Ordered(S)[k] = CHOOSE n \in S : Cardinality({m \in S : m < n}) = k - 1
    BY DEF Ordered
  <2>3. \E n \in S : Cardinality({m \in S : m < n}) = k - 1
    BY <1>6, <1>7
  <2> QED
    BY <1>7, <2>2, <2>3
<1>9. \A n \in S : \E k \in 1..size : Ordered(S)[k] = n
  <2>1. TAKE n \in S
  <2>2. rank[n] \in 1..size
    BY <1>5
  <2>3. Ordered(S)[rank[n]] \in S /\ rank[Ordered(S)[rank[n]]] = rank[n]
    BY <1>8, <2>2
  <2>4. Ordered(S)[rank[n]] = n
    BY <1>12, <2>3
  <2> QED
    BY <2>2, <2>4
<1>10. \A i, j \in 1..size : i < j => Ordered(S)[i] < Ordered(S)[j]
  <2>1. SUFFICES ASSUME NEW i \in 1..size, NEW j \in 1..size, i < j,
                        ~(Ordered(S)[i] < Ordered(S)[j])
                 PROVE  FALSE
    OBVIOUS
  <2>2. /\ Ordered(S)[i] \in S /\ rank[Ordered(S)[i]] = i
        /\ Ordered(S)[j] \in S /\ rank[Ordered(S)[j]] = j
    BY <1>8
  <2>3. Ordered(S)[i] \in Nat /\ Ordered(S)[j] \in Nat
    BY <2>2
  <2>4. Ordered(S)[i] = Ordered(S)[j] \/ Ordered(S)[j] < Ordered(S)[i]
    BY <2>1, <2>3
  <2>5. i \in Nat /\ j \in Nat
    OBVIOUS
  <2>6. Ordered(S)[j] < Ordered(S)[i] => j < i
    BY <1>3, <2>2
  <2>7. Ordered(S)[i] = Ordered(S)[j] => i = j
    BY <2>2
  <2> QED
    BY <2>1, <2>4, <2>5, <2>6, <2>7
<1>11. Ordered(S) \in [1..size -> S]
  <2> DEFINE pick(k) == CHOOSE n \in S : Cardinality({m \in S : m < n}) = k - 1
  <2>1. Ordered(S) = [k \in 1..size |-> pick(k)]
    BY DEF Ordered
  <2> HIDE DEF pick
  <2>2. \A k \in 1..size : pick(k) \in S
    BY <1>8, <2>1
  <2> QED
    BY <2>1, <2>2
<1> QED
  BY <1>1, <1>8, <1>9, <1>10, <1>11

LEMMA LastIsLargest ==
  ASSUME NEW S \in SUBSET Nat, IsFiniteSet(S), S # {}
  PROVE  \E m \in S : \A n \in S : n <= m
<1>1. /\ Cardinality(S) \in Nat
      /\ \A k \in 1..Cardinality(S) : Ordered(S)[k] \in S
      /\ \A n \in S : \E k \in 1..Cardinality(S) : Ordered(S)[k] = n
      /\ \A i, j \in 1..Cardinality(S) : i < j => Ordered(S)[i] < Ordered(S)[j]
  BY OrderedParts
<1>2. Cardinality(S) \in 1..Cardinality(S)
  <2>1. \E k : k \in 1..Cardinality(S)
    BY <1>1
  <2> QED
    BY <1>1, <2>1
<1>3. \A n \in S : n <= Ordered(S)[Cardinality(S)]
  <2>1. TAKE n \in S
  <2>2. PICK k \in 1..Cardinality(S) : Ordered(S)[k] = n
    BY <1>1
  <2>3. k = Cardinality(S) \/ k < Cardinality(S)
    BY <1>1
  <2>4. n \in Nat
    OBVIOUS
  <2>5. k < Cardinality(S) => Ordered(S)[k] < Ordered(S)[Cardinality(S)]
    BY <1>1, <1>2
  <2>6. Ordered(S)[Cardinality(S)] \in S
    BY <1>1, <1>2
  <2>7. Ordered(S)[Cardinality(S)] \in Nat
    BY <2>6
  <2>8. n < Ordered(S)[Cardinality(S)] \/ n = Ordered(S)[Cardinality(S)]
    BY <2>2, <2>3, <2>5
  <2> QED
    BY <2>4, <2>7, <2>8
<1> QED
  BY <1>1, <1>2, <1>3

\* What is read of files is what they hold.
LEMMA ReadOrderParts ==
  ASSUME NEW files, Partitioned(files), NEW names \in SUBSET DOMAIN files
  PROVE  /\ ReadOrder(files, names) \in Seq(Nat)
         /\ \A r : r \in Range(ReadOrder(files, names)) <=> \E n \in names : r \in Range(files[n])
<1> DEFINE count == Cardinality(names)
           parts == [k \in 1..count |-> files[Ordered(names)[k]]]
<1>1. names \in SUBSET Nat /\ IsFiniteSet(names) /\ \A n \in names : files[n] \in Seq(Nat)
  BY FS_Subset DEF Partitioned
<1>2. /\ count \in Nat
      /\ \A k \in 1..count : Ordered(names)[k] \in names
      /\ \A n \in names : \E k \in 1..count : Ordered(names)[k] = n
  BY <1>1, OrderedParts
<1>3. \A k \in 1..count : parts[k] = files[Ordered(names)[k]]
  OBVIOUS
<1>4. parts \in Seq(Seq(Nat)) /\ Len(parts) = count
  BY <1>1, <1>2
<1>5. ReadOrder(files, names) = FlattenSeq(parts)
  BY DEF ReadOrder
<1> HIDE DEF parts, count
<1>6. /\ FlattenSeq(parts) \in Seq(Nat)
      /\ \A x : x \in Range(FlattenSeq(parts)) <=> \E i \in 1..Len(parts) : x \in Range(parts[i])
  BY <1>4, FlattenParts
<1>7. \A r : (\E i \in 1..count : r \in Range(parts[i])) <=> \E n \in names : r \in Range(files[n])
  BY <1>2, <1>3
<1> QED
  BY <1>4, <1>5, <1>6, <1>7

LEMMA WeightIsNumber ==
  ASSUME NEW lines \in Seq(Nat)
  PROVE  Weight(lines) \in Nat
<1> DEFINE huge == {i \in DOMAIN lines : lines[i] \in Huge}
<1>1. Len(lines) \in Nat /\ DOMAIN lines = 1..Len(lines)
  OBVIOUS
<1>2. IsFiniteSet(1..Len(lines))
  BY <1>1, FS_Interval
<1>3. huge \in SUBSET (1..Len(lines))
  BY <1>1
<1>4. Cardinality(huge) \in Nat
  BY <1>2, <1>3, FS_Subset, FS_CardinalityType
<1>5. Weight(lines) = Len(lines) + Bound * Cardinality(huge)
  BY DEF Weight
<1> HIDE DEF huge
<1>6. Bound * Cardinality(huge) \in Nat
  BY <1>4, ConsolidationAssumption
<1> QED
  BY <1>1, <1>5, <1>6

LEMMA NewestIs ==
  ASSUME NEW files, Partitioned(files), Numeric(files) # {}
  PROVE  Newest(files) \in Numeric(files) /\ \A m \in Numeric(files) : m <= Newest(files)
<1>1. Numeric(files) \in SUBSET Nat /\ IsFiniteSet(Numeric(files))
  BY FS_Subset DEF Numeric, Partitioned
<1>2. \E n \in Numeric(files) : \A m \in Numeric(files) : m <= n
  BY <1>1, LastIsLargest
<1> QED
  BY <1>2 DEF Newest

\* Where groups of n things end: each has a thing, and each thing a group.
Grouped(ends, n) ==
  /\ ends \in Seq(Nat)
  /\ n = 0 => Len(ends) = 0
  /\ n > 0 => Len(ends) > 0 /\ ends[Len(ends)] = n
  /\ \A i \in 1..Len(ends) : From(ends, i) \in Nat /\ From(ends, i) < ends[i] /\ ends[i] <= n
  /\ \A p \in 1..n : \E i \in 1..Len(ends) : From(ends, i) < p /\ p <= ends[i]

LEMMA GroupStarts ==
  ASSUME NEW n \in Nat, NEW ends, Grouped(ends, n)
  PROVE  Grouped(Append(ends, n + 1), n + 1)
<1> DEFINE e == Append(ends, n + 1)
<1>1. ends \in Seq(Nat) /\ Len(ends) \in Nat /\ \A i \in 1..Len(ends) : ends[i] \in Nat
  BY DEF Grouped
<1>2. /\ e \in Seq(Nat) /\ Len(e) = Len(ends) + 1 /\ e[Len(e)] = n + 1
      /\ \A i \in 1..Len(ends) : e[i] = ends[i]
  BY <1>1
<1> HIDE DEF e
<1>3. \A i \in 1..Len(ends) : i \in 1..Len(e) /\ From(e, i) = From(ends, i)
  <2>1. TAKE i \in 1..Len(ends)
  <2>2. i \in 1..Len(e) /\ (i # 1 => i - 1 \in 1..Len(ends))
    BY <1>1, <1>2
  <2> QED
    BY <1>2, <2>2 DEF From
<1>4. From(e, Len(e)) = n
  <2>1. CASE n = 0
    BY <1>1, <1>2, <2>1 DEF From, Grouped
  <2>2. CASE n > 0
    <3>1. Len(ends) > 0 /\ ends[Len(ends)] = n /\ Len(ends) \in 1..Len(ends)
      BY <1>1, <2>2 DEF Grouped
    <3>2. Len(e) # 1 /\ Len(e) - 1 = Len(ends)
      BY <1>1, <1>2, <3>1
    <3> QED
      BY <1>2, <3>1, <3>2 DEF From
  <2> QED
    BY <2>1, <2>2
<1>5. \A i \in 1..Len(e) : i = Len(e) \/ i \in 1..Len(ends)
  BY <1>1, <1>2
<1>6. \A i \in 1..Len(e) : From(e, i) \in Nat /\ From(e, i) < e[i] /\ e[i] <= n + 1
  <2>1. TAKE i \in 1..Len(e)
  <2>2. CASE i = Len(e)
    BY <1>2, <1>4, <2>2
  <2>3. CASE i \in 1..Len(ends)
    <3>1. From(ends, i) \in Nat /\ From(ends, i) < ends[i] /\ ends[i] <= n /\ ends[i] \in Nat
      BY <1>1, <2>3 DEF Grouped
    <3> QED
      BY <1>2, <1>3, <2>3, <3>1
  <2> QED
    BY <1>5, <2>2, <2>3
<1>7. \A p \in 1..n + 1 : \E i \in 1..Len(e) : From(e, i) < p /\ p <= e[i]
  <2>1. TAKE p \in 1..n + 1
  <2>2. CASE p = n + 1
    <3>1. Len(e) \in 1..Len(e)
      BY <1>1, <1>2
    <3>2. From(e, Len(e)) < p /\ p <= e[Len(e)]
      BY <1>2, <1>4, <2>2
    <3> QED
      BY <3>1, <3>2
  <2>3. CASE p # n + 1
    <3>1. p \in 1..n
      BY <2>3
    <3>2. PICK i \in 1..Len(ends) : From(ends, i) < p /\ p <= ends[i]
      BY <3>1 DEF Grouped
    <3> QED
      BY <1>2, <1>3, <3>2
  <2> QED
    BY <2>2, <2>3
<1>8. Len(e) > 0 /\ n + 1 # 0
  BY <1>1, <1>2
<1> QED
  BY <1>2, <1>6, <1>7, <1>8 DEF Grouped, e

LEMMA FrontIs ==
  ASSUME NEW ends \in Seq(Nat), Len(ends) > 0, NEW m \in Nat
  PROVE  LET e == Append(Front(ends), m)
         IN /\ e \in Seq(Nat) /\ Len(e) = Len(ends) /\ e[Len(ends)] = m
            /\ \A i \in 1..Len(ends) : i # Len(ends) => e[i] = ends[i]
<1> DEFINE front == [i \in 1..Len(ends) - 1 |-> ends[i]]
<1>1. Len(ends) \in Nat /\ Len(ends) - 1 \in Nat /\ \A i \in 1..Len(ends) - 1 : i \in 1..Len(ends)
  OBVIOUS
<1>2. Front(ends) = front
  <2>1. ends # <<>>
    OBVIOUS
  <2> QED
    BY <2>1 DEF Front
<1>3. /\ front \in Seq(Nat) /\ Len(front) = Len(ends) - 1
      /\ \A i \in 1..Len(ends) - 1 : front[i] = ends[i]
  BY <1>1
<1> HIDE DEF front
<1>4. /\ Append(front, m) \in Seq(Nat) /\ Len(Append(front, m)) = Len(ends)
      /\ Append(front, m)[Len(ends)] = m
      /\ \A i \in 1..Len(ends) - 1 : Append(front, m)[i] = front[i]
  BY <1>1, <1>3
<1>5. \A i \in 1..Len(ends) : i # Len(ends) => i \in 1..Len(ends) - 1
  BY <1>1
<1> QED
  BY <1>2, <1>3, <1>4, <1>5

LEMMA GroupGrows ==
  ASSUME NEW n \in Nat, n > 0, NEW ends, Grouped(ends, n)
  PROVE  Grouped(Append(Front(ends), n + 1), n + 1)
<1> DEFINE e == Append(Front(ends), n + 1)
<1>1. /\ ends \in Seq(Nat) /\ Len(ends) \in Nat /\ Len(ends) > 0 /\ ends[Len(ends)] = n
      /\ \A i \in 1..Len(ends) : ends[i] \in Nat
  BY DEF Grouped
<1>2. /\ e \in Seq(Nat) /\ Len(e) = Len(ends) /\ e[Len(ends)] = n + 1
      /\ \A i \in 1..Len(ends) : i # Len(ends) => e[i] = ends[i]
  BY <1>1, FrontIs
<1> HIDE DEF e
<1>3. \A i \in 1..Len(ends) : From(e, i) = From(ends, i)
  <2>1. TAKE i \in 1..Len(ends)
  <2>2. i # 1 => i - 1 \in 1..Len(ends) /\ i - 1 # Len(ends)
    BY <1>1
  <2> QED
    BY <1>2, <2>2 DEF From
<1>4. \A i \in 1..Len(e) : From(e, i) \in Nat /\ From(e, i) < e[i] /\ e[i] <= n + 1
  <2>1. TAKE i \in 1..Len(e)
  <2>2. From(ends, i) \in Nat /\ From(ends, i) < ends[i] /\ ends[i] <= n /\ ends[i] \in Nat
    BY <1>1, <1>2 DEF Grouped
  <2>3. e[i] = ends[i] \/ e[i] = n + 1
    BY <1>2
  <2> QED
    BY <1>2, <1>3, <2>2, <2>3
<1>5. \A p \in 1..n + 1 : \E i \in 1..Len(e) : From(e, i) < p /\ p <= e[i]
  <2>1. TAKE p \in 1..n + 1
  <2>2. \E i \in 1..Len(ends) : From(ends, i) < p /\ p <= e[i]
    <3>1. CASE p = n + 1
      <4>1. Len(ends) \in 1..Len(ends) /\ n \in 1..n
        BY <1>1
      <4>2. From(ends, Len(ends)) \in Nat /\ From(ends, Len(ends)) < n
        BY <1>1, <4>1 DEF Grouped
      <4>3. From(ends, Len(ends)) < n + 1
        BY <4>2
      <4> QED
        BY <1>2, <3>1, <4>1, <4>3
    <3>2. CASE p # n + 1
      <4>1. p \in 1..n
        BY <3>2
      <4>2. PICK i \in 1..Len(ends) : From(ends, i) < p /\ p <= ends[i]
        BY <4>1 DEF Grouped
      <4>3. e[i] = ends[i] \/ e[i] = n + 1
        BY <1>2
      <4>4. p <= e[i]
        BY <4>2, <4>3
      <4> QED
        BY <4>2, <4>4
    <3> QED
      BY <3>1, <3>2
  <2> QED
    BY <1>2, <1>3, <2>2
<1>6. e[Len(e)] = n + 1 /\ Len(e) > 0 /\ n + 1 # 0
  BY <1>1, <1>2
<1> QED
  BY <1>2, <1>4, <1>5, <1>6 DEF Grouped, e

LEMMA PackParts ==
  ASSUME NEW units \in Seq(Nat)
  PROVE  Len(units) \in Nat /\ Grouped(Pack(units), Len(units))
<1> DEFINE len == Len(units)
           next(t, n) == IF n > 1 /\ t.size + units[n] <= Bound
                           THEN [ends |-> Append(Front(t.ends), n), size |-> t.size + units[n]]
                           ELSE [ends |-> Append(t.ends, n), size |-> units[n]]
           none == [ends |-> <<>>, size |-> 0]
           U == [n \in 0..len |->
                   {t \in [ends : Seq(Nat), size : Nat] : Grouped(t.ends, n)}]
           step == [n \in 1..len |-> [t \in U[n - 1] |-> next(t, n)]]
           Is(g) == g = [n \in 0..Len(units) |->
             IF n = 0 THEN [ends |-> <<>>, size |-> 0]
             ELSE LET group == g[n - 1]
                  IN IF n > 1 /\ group.size + units[n] <= Bound
                       THEN [ends |-> Append(Front(group.ends), n), size |-> group.size + units[n]]
                       ELSE [ends |-> Append(group.ends, n), size |-> units[n]]]
           after[n \in 0..Len(units)] ==
             IF n = 0 THEN [ends |-> <<>>, size |-> 0]
             ELSE LET group == after[n - 1]
                  IN IF n > 1 /\ group.size + units[n] <= Bound
                       THEN [ends |-> Append(Front(group.ends), n), size |-> group.size + units[n]]
                       ELSE [ends |-> Append(group.ends, n), size |-> units[n]]
<1>1. len \in Nat /\ 0 \in Nat /\ 0 <= len /\ \A n \in 1..len : units[n] \in Nat
  OBVIOUS
<1>2. \A g : Is(g) <=> g = [n \in 0..len |-> IF n = 0 THEN none ELSE next(g[n - 1], n)]
  OBVIOUS
<1>3. Pack(units) = after[len].ends
  BY DEF Pack
<1>4. after = CHOOSE g : Is(g)
  BY DEF after, Is
<1> HIDE DEF after, Is
<1>5. none \in U[0]
  <2>1. <<>> \in Seq(Nat) /\ Len(<<>>) = 0
    OBVIOUS
  <2>2. Grouped(<<>>, 0)
    BY <2>1 DEF Grouped
  <2>3. 0 \in 0..len
    BY <1>1
  <2> QED
    BY <2>1, <2>2, <2>3
<1>6. \A n \in 1..len : \A t \in U[n - 1] : next(t, n) \in U[n]
  <2>1. SUFFICES ASSUME NEW n \in 1..len, NEW t \in U[n - 1] PROVE next(t, n) \in U[n]
    OBVIOUS
  <2>2. n - 1 \in 0..len /\ n \in 0..len /\ n - 1 \in Nat /\ units[n] \in Nat
    BY <1>1
  <2>3. t.ends \in Seq(Nat) /\ t.size \in Nat /\ Grouped(t.ends, n - 1)
    BY <2>2
  <2>4. Grouped(Append(t.ends, n), n)
    <3>1. Grouped(Append(t.ends, n - 1 + 1), n - 1 + 1)
      BY <2>2, <2>3, GroupStarts
    <3>2. n - 1 + 1 = n
      OBVIOUS
    <3> QED
      BY <3>1, <3>2
  <2>5. n > 1 => Grouped(Append(Front(t.ends), n), n)
    <3>1. HAVE n > 1
    <3>2. n - 1 > 0 /\ n - 1 + 1 = n
      BY <3>1
    <3>3. Grouped(Append(Front(t.ends), n - 1 + 1), n - 1 + 1)
      BY <2>2, <2>3, <3>2, GroupGrows
    <3> QED
      BY <3>2, <3>3
  <2> DEFINE t1 == next(t, n)
  <2>6. t1.size \in Nat /\ Grouped(t1.ends, n) /\ t1 = [ends |-> t1.ends, size |-> t1.size]
    <3> DEFINE long == [ends |-> Append(Front(t.ends), n), size |-> t.size + units[n]]
               more == [ends |-> Append(t.ends, n), size |-> units[n]]
    <3>1. t1 = IF n > 1 /\ t.size + units[n] <= Bound THEN long ELSE more
      BY DEF t1
    <3>2. long.size \in Nat /\ long.ends = Append(Front(t.ends), n) /\ long = [ends |-> long.ends, size |-> long.size]
      BY <2>2, <2>3
    <3>3. more.size \in Nat /\ more.ends = Append(t.ends, n) /\ more = [ends |-> more.ends, size |-> more.size]
      BY <2>2
    <3> HIDE DEF long, more, U, len
    <3> QED
      BY <2>4, <2>5, <3>1, <3>2, <3>3
  <2> HIDE DEF t1
  <2>7. t1.ends \in Seq(Nat)
    BY <2>6 DEF Grouped
  <2>8. t1 \in U[n]
    BY <2>2, <2>6, <2>7
  <2> QED
    BY <2>8 DEF t1
<1>7. \A n \in 0 + 1..len : n \in 1..len /\ n \in 0..len /\ n - 1 \in 0..len /\ n # 0
  BY <1>1
<1>8. \E g : Is(g)
  <2>1. \A n \in 0 + 1..len : step[n] \in [U[n - 1] -> U[n]]
    <3> HIDE DEF U, next, len
    <3> QED
      BY <1>6, <1>7
  <2>2. PICK g : Steps(g, 0, len, none, step) /\ \A n \in 0..len : g[n] \in U[n]
    <3> HIDE DEF U, step, len, none
    <3> QED
      BY <1>1, <1>5, <2>1, Recursion
  <2>3. \A n \in 0..len : g[n] = IF n = 0 THEN none ELSE next(g[n - 1], n)
    <3>1. TAKE n \in 0..len
    <3>2. n # 0 => n \in 0 + 1..len
      BY <1>1
    <3>3. n # 0 => step[n][g[n - 1]] = next(g[n - 1], n)
      <4> HIDE DEF U, next, len
      <4> QED
        BY <1>7, <2>2, <3>2
    <3> HIDE DEF U, step, next, len, none
    <3> QED
      BY <2>2, <3>2, <3>3 DEF Steps
  <2>4. g = [n \in 0..len |-> g[n]]
    BY <2>2 DEF Steps
  <2> HIDE DEF U, step, next, len, none
  <2>5. g = [n \in 0..len |-> IF n = 0 THEN none ELSE next(g[n - 1], n)]
    BY <2>3, <2>4
  <2> QED
    BY <1>2, <2>5
<1>9. \A n \in 0..len : after[n] = IF n = 0 THEN none ELSE next(after[n - 1], n)
  <2>1. Is(after)
    BY <1>4, <1>8
  <2>2. after = [n \in 0..len |-> IF n = 0 THEN none ELSE next(after[n - 1], n)]
    BY <1>2, <2>1
  <2> HIDE DEF next, none, len
  <2> QED
    BY <2>2
<1>10. \A n \in 0..len : after[n] \in U[n]
  <2> HIDE DEF U, next, none, len
  <2>1. after[0] \in U[0]
    BY <1>1, <1>5, <1>9
  <2>2. \A n \in 0 + 1..len : after[n - 1] \in U[n - 1] => after[n] \in U[n]
    BY <1>6, <1>7, <1>9
  <2> QED
    BY <1>1, <2>1, <2>2, Stepwise
<1>11. Grouped(after[len].ends, len)
  <2>1. after[len] \in U[len] /\ len \in 0..len
    BY <1>1, <1>10
  <2> QED
    BY <2>1
<1> QED
  BY <1>1, <1>3, <1>11

LEMMA NumericIs ==
  ASSUME NEW files, Partitioned(files)
  PROVE  /\ Numeric(files) \in SUBSET Nat /\ IsFiniteSet(Numeric(files))
         /\ Numeric(files) \in SUBSET DOMAIN files /\ 0 \notin Numeric(files)
         /\ \A n \in Numeric(files) : n \in Nat /\ files[n] \in Seq(Nat)
<1>1. Numeric(files) \in SUBSET DOMAIN files /\ 0 \notin Numeric(files)
  BY DEF Numeric
<1> QED
  BY <1>1, FS_Subset DEF Partitioned

\* What is merged are runs of segments.
LEMMA MergesParts ==
  ASSUME NEW files, Partitioned(files)
  PROVE  LET merges == Merges(files)
         IN /\ merges \in Seq(Seq(Nat)) /\ Len(merges) \in Nat /\ DOMAIN merges = 1..Len(merges)
            /\ \A i \in 1..Len(merges) :
                 Len(merges[i]) \in Nat \ {0} /\ merges[i] \in Seq(Numeric(files))
<1> DEFINE names == Ordered(Numeric(files))
           units == [k \in DOMAIN names |-> Weight(files[names[k]])]
           ends == Pack(units)
           run(i) == SubSeq(names, From(ends, i) + 1, ends[i])
           next(t, i) == IF Len(run(i)) > 1 THEN Append(t, run(i)) ELSE t
           Run == {g \in Seq(Numeric(files)) : Len(g) > 0}
           U == [i \in 0..Len(ends) |-> Seq(Run)]
           step == [i \in 1..Len(ends) |-> [t \in U[i - 1] |-> next(t, i)]]
           Is(g) == g = [i \in 0..Len(ends) |->
             IF i = 0 THEN <<>> ELSE IF Len(run(i)) > 1 THEN Append(g[i - 1], run(i)) ELSE g[i - 1]]
           after[i \in 0..Len(ends)] ==
             IF i = 0 THEN <<>>
             ELSE IF Len(run(i)) > 1 THEN Append(after[i - 1], run(i)) ELSE after[i - 1]
<1>1. /\ names \in Seq(Numeric(files)) /\ Len(names) \in Nat /\ DOMAIN names = 1..Len(names)
      /\ \A k \in 1..Len(names) : names[k] \in Numeric(files) /\ files[names[k]] \in Seq(Nat)
  BY NumericIs, OrderedParts
<1>2. Merges(files) = after[Len(ends)]
  BY DEF Merges
<1>3. after = CHOOSE g : Is(g)
  BY DEF after, Is
<1>4. \A g : Is(g) <=> g = [i \in 0..Len(ends) |-> IF i = 0 THEN <<>> ELSE next(g[i - 1], i)]
  BY DEF Is
<1> HIDE DEF after, Is, names
<1>5. units \in Seq(Nat) /\ Len(units) = Len(names)
  BY <1>1, WeightIsNumber
<1> HIDE DEF units
<1>6. Grouped(ends, Len(names))
  BY <1>5, PackParts
<1>7. /\ ends \in Seq(Nat) /\ Len(ends) \in Nat /\ 0 \in Nat /\ 0 <= Len(ends)
      /\ \A i \in 1..Len(ends) : From(ends, i) \in Nat /\ ends[i] \in Nat /\ ends[i] <= Len(names)
  BY <1>1, <1>6 DEF Grouped
<1> HIDE DEF ends
<1>8. \A i \in 1..Len(ends) : run(i) \in Seq(Numeric(files))
  BY <1>1, <1>7
<1> HIDE DEF run
<1>9. \A i \in 1..Len(ends) : \A t \in Seq(Run) : next(t, i) \in Seq(Run)
  <2>1. TAKE i \in 1..Len(ends)
  <2>2. TAKE t \in Seq(Run)
  <2>3. CASE Len(run(i)) > 1
    <3>1. Len(run(i)) > 0
      <4>1. Len(run(i)) \in Nat
        BY <1>8
      <4> QED
        BY <2>3, <4>1
    <3>2. run(i) \in Run
      BY <1>8, <3>1
    <3> HIDE DEF Run
    <3> QED
      BY <2>3, <3>2
  <2>4. CASE ~(Len(run(i)) > 1)
    BY <2>4
  <2> QED
    BY <2>3, <2>4
<1>10. \A i \in 0 + 1..Len(ends) : i \in 1..Len(ends) /\ i \in 0..Len(ends) /\ i - 1 \in 0..Len(ends) /\ i # 0
  BY <1>7
<1>11. 0 \in 0..Len(ends) /\ Len(ends) \in 0..Len(ends) /\ \A i \in 0..Len(ends) : U[i] = Seq(Run)
  BY <1>7
<1> HIDE DEF Run, next
<1>12. <<>> \in U[0]
  BY <1>11
<1> HIDE DEF U
<1>13. \E g : Is(g)
  <2>1. \A i \in 0 + 1..Len(ends) : step[i] \in [U[i - 1] -> U[i]]
    BY <1>9, <1>10, <1>11
  <2>2. PICK g : Steps(g, 0, Len(ends), <<>>, step) /\ \A i \in 0..Len(ends) : g[i] \in U[i]
    <3> HIDE DEF step
    <3> QED
      BY <1>7, <1>12, <2>1, Recursion
  <2>3. \A i \in 0..Len(ends) : g[i] = IF i = 0 THEN <<>> ELSE next(g[i - 1], i)
    <3>1. TAKE i \in 0..Len(ends)
    <3>2. i # 0 => i \in 0 + 1..Len(ends)
      BY <1>7
    <3>3. i # 0 => step[i][g[i - 1]] = next(g[i - 1], i)
      BY <1>10, <2>2, <3>2
    <3> HIDE DEF step
    <3> QED
      BY <2>2, <3>2, <3>3 DEF Steps
  <2>4. g = [i \in 0..Len(ends) |-> g[i]]
    BY <2>2 DEF Steps
  <2>5. g = [i \in 0..Len(ends) |-> IF i = 0 THEN <<>> ELSE next(g[i - 1], i)]
    BY <2>3, <2>4
  <2> QED
    BY <1>4, <2>5
<1>14. \A i \in 0..Len(ends) : after[i] = IF i = 0 THEN <<>> ELSE next(after[i - 1], i)
  <2>1. after = [i \in 0..Len(ends) |-> IF i = 0 THEN <<>> ELSE next(after[i - 1], i)]
    BY <1>3, <1>4, <1>13
  <2> QED
    BY <2>1
<1>15. \A i \in 0..Len(ends) : after[i] \in U[i]
  <2>1. after[0] \in U[0]
    BY <1>11, <1>12, <1>14
  <2>2. \A i \in 0 + 1..Len(ends) : after[i - 1] \in U[i - 1] => after[i] \in U[i]
    BY <1>9, <1>10, <1>11, <1>14
  <2> QED
    BY <1>7, <2>1, <2>2, Stepwise
<1> DEFINE merges == Merges(files)
<1>16. merges \in Seq(Run)
  BY <1>2, <1>11, <1>15
<1> HIDE DEF merges
<1>17. /\ Len(merges) \in Nat /\ DOMAIN merges = 1..Len(merges) /\ merges = [i \in 1..Len(merges) |-> merges[i]]
       /\ \A i \in 1..Len(merges) : merges[i] \in Run
  BY <1>16
<1>18. \A i \in 1..Len(merges) :
         Len(merges[i]) \in Nat \ {0} /\ merges[i] \in Seq(Numeric(files)) /\ merges[i] \in Seq(Nat)
  <2>1. TAKE i \in 1..Len(merges)
  <2>2. merges[i] \in Seq(Numeric(files)) /\ Len(merges[i]) > 0
    BY <1>17 DEF Run
  <2>3. Len(merges[i]) \in Nat /\ merges[i] \in Seq(Nat)
    BY <2>2, NumericIs
  <2> QED
    BY <2>2, <2>3
<1>19. merges \in Seq(Seq(Nat))
  BY <1>17, <1>18
<1> QED
  BY <1>17, <1>18, <1>19 DEF merges

\* New names are never those of segments that stay, nor the one that is cut.
LEMMA SlotParts ==
  ASSUME NEW n \in Nat, NEW need \in Nat, NEW survivors \in SUBSET Nat, IsFiniteSet(survivors),
         NEW claimed, IsFiniteSet(claimed), NEW last \in Nat, n <= last, \A s \in survivors : s <= last
  PROVE  LET names == Slot(n, need, survivors, claimed, last)
         IN IsFiniteSet(names) /\ \A c \in names : c \in Nat \ {0} /\ c \notin survivors /\ c # n
<1> DEFINE lower == {0} \cup {s \in survivors : s < n}
           floor == Max(lower)
           below == ((floor + 1)..(n - 1)) \ (survivors \cup claimed)
           near == {c \in below : Cardinality({d \in below : d > c}) < need}
           behind == ((last + 1)..(last + need + Cardinality(claimed))) \ claimed
           far == {c \in behind : Cardinality({d \in behind : d < c}) < need - Cardinality(near)}
<1>1. floor \in Nat
  <2>1. lower \in SUBSET Nat /\ IsFiniteSet(lower) /\ lower # {}
    <3> DEFINE smaller == {s \in survivors : s < n}
    <3>1. IsFiniteSet(smaller)
      BY FS_Subset
    <3>2. lower = smaller \cup {0} /\ smaller \in SUBSET Nat
      OBVIOUS
    <3> HIDE DEF smaller, lower
    <3>3. IsFiniteSet(smaller \cup {0})
      BY <3>1, FS_AddElement
    <3> QED
      BY <3>2, <3>3
  <2>2. PICK m \in lower : \A x \in lower : x <= m
    <3> HIDE DEF lower
    <3> QED
      BY <2>1, LastIsLargest
  <2>3. \A x \in lower : m >= x
    <3>1. \A x \in lower : x \in Nat
      BY <2>1
    <3> HIDE DEF lower
    <3> QED
      BY <2>2, <3>1
  <2> HIDE DEF lower
  <2>4. floor \in lower
    BY <2>3 DEF Max
  <2> QED
    BY <2>1, <2>4
<1> HIDE DEF floor, lower
<1>2. Cardinality(claimed) \in Nat
  BY FS_CardinalityType
<1>3. IsFiniteSet(near) /\ \A c \in near : c \in Nat \ {0} /\ c \notin survivors /\ c # n
  <2>1. \A c \in near : c \in (floor + 1)..(n - 1) /\ c \notin survivors
    OBVIOUS
  <2>2. IsFiniteSet((floor + 1)..(n - 1))
    BY <1>1, FS_Interval
  <2> HIDE DEF near
  <2>3. near \in SUBSET ((floor + 1)..(n - 1))
    BY <2>1
  <2>4. IsFiniteSet(near)
    BY <2>2, <2>3, FS_Subset
  <2> QED
    BY <1>1, <2>1, <2>4
<1>4. IsFiniteSet(far) /\ \A c \in far : c \in Nat \ {0} /\ c \notin survivors /\ c # n
  <2> DEFINE top == last + need + Cardinality(claimed)
  <2>1. \A c \in far : c \in (last + 1)..top
    <3> HIDE DEF near
    <3> QED
      OBVIOUS
  <2>2. IsFiniteSet((last + 1)..top)
    BY <1>2, FS_Interval
  <2> HIDE DEF far
  <2>3. far \in SUBSET ((last + 1)..top)
    BY <2>1
  <2>4. IsFiniteSet(far)
    BY <2>2, <2>3, FS_Subset
  <2>5. top \in Nat
    BY <1>2
  <2> HIDE DEF top
  <2>6. \A c \in far : c \in Nat /\ last + 1 <= c
    BY <2>1, <2>5
  <2> QED
    BY <2>4, <2>6
<1> DEFINE names == Slot(n, need, survivors, claimed, last)
<1>5. names = IF \E s \in survivors : s > n THEN near ELSE near \cup far
  BY DEF Slot, floor, lower
<1> HIDE DEF near, far, names
<1>6. IsFiniteSet(near \cup far)
  BY <1>3, <1>4, FS_Union
<1> QED
  BY <1>3, <1>4, <1>5, <1>6 DEF names

\* What is said of chunks: where they come from and what they are named; the
\* input's own name is among them; and when no name is above its input's, the
\* chunk of that name is the last of the input.
NamedWell(files, survivors, c) ==
  /\ c.input \in Numeric(files) /\ c.name \in Nat \ {0}
  /\ c.name = c.input \/ c.name \notin survivors
  /\ c.from <= c.to /\ c.to <= Len(files[c.input])
NoneAbove(chunks) == \A i \in 1..Len(chunks) : chunks[i].name <= chunks[i].input
Complete(files, chunks, j) ==
  \A p \in 1..Len(files[chunks[j].input]) :
    \E h \in 1..j : /\ chunks[h].input = chunks[j].input
                    /\ chunks[h].from < p /\ p <= chunks[h].to

CutWell(files, survivors, chunks) ==
  /\ chunks \in Seq(Chunk)
  /\ \A i \in 1..Len(chunks) : NamedWell(files, survivors, chunks[i])
  /\ \A i \in 1..Len(chunks) : \E j \in 1..Len(chunks) : chunks[j].name = chunks[i].input
  /\ NoneAbove(chunks) =>
       \A j \in 1..Len(chunks) : chunks[j].name = chunks[j].input => Complete(files, chunks, j)

LEMMA CutParts ==
  ASSUME NEW files, Partitioned(files), NEW n \in Numeric(files),
         NEW survivors \in SUBSET Numeric(files), NEW done \in Seq(Chunk)
  PROVE  CutWell(files, survivors, Cut(files, n, survivors, done))
<1> DEFINE lines == files[n]
           units == [i \in DOMAIN files[n] |-> RecordWeight(files[n][i])]
           ends == Pack(units)
           claimed == {c.name : c \in Range(done)}
           names == Slot(n, Len(ends) - 1, survivors, claimed, Newest(files))
           all == names \cup {n}
           made == [i \in DOMAIN ends |->
                      [input |-> n, name |-> Ordered(all)[i],
                       from |-> From(ends, i), to |-> ends[i]]]
           cut == Cut(files, n, survivors, done)
<1>1. /\ n \in Nat \ {0} /\ lines \in Seq(Nat) /\ Len(lines) \in Nat
      /\ DOMAIN lines = 1..Len(lines) /\ survivors \in SUBSET Nat /\ IsFiniteSet(survivors)
  <2>1. IsFiniteSet(survivors)
    BY NumericIs, FS_Subset
  <2>2. n \in Nat /\ n # 0 /\ lines \in Seq(Nat) /\ survivors \in SUBSET Nat
    BY NumericIs
  <2> HIDE DEF lines
  <2> QED
    BY <2>1, <2>2
<1>2. units \in Seq(Nat) /\ Len(units) = Len(lines)
  <2>1. \A i \in 1..Len(lines) : RecordWeight(lines[i]) \in Nat
    BY ConsolidationAssumption DEF RecordWeight
  <2>2. units = [i \in 1..Len(lines) |-> RecordWeight(lines[i])]
    BY <1>1
  <2> HIDE DEF units, lines
  <2> QED
    BY <1>1, <2>1, <2>2
<1>3. Grouped(ends, Len(lines))
  <2> HIDE DEF units
  <2> QED
    BY <1>2, PackParts
<1>4. cut = made \/ cut = <<>>
  BY DEF Cut
<1>5. cut = made => made = <<>> \/ (Cardinality(names) = Len(ends) - 1 /\ Len(ends) > 1)
  BY DEF Cut
<1> HIDE DEF units, ends, cut
<1>6. CASE cut = <<>>
  <2>1. <<>> \in Seq(Chunk) /\ Len(<<>>) = 0
    OBVIOUS
  <2> QED
    BY <1>6, <2>1 DEF CutWell, cut
<1>7. CASE cut = made /\ Cardinality(names) = Len(ends) - 1 /\ Len(ends) > 1
  <2>1. /\ ends \in Seq(Nat) /\ Len(ends) \in Nat /\ DOMAIN ends = 1..Len(ends)
        /\ \A i \in 1..Len(ends) :
             /\ From(ends, i) \in Nat /\ ends[i] \in Nat
             /\ From(ends, i) <= ends[i] /\ ends[i] <= Len(lines)
        /\ \A p \in 1..Len(lines) : \E i \in 1..Len(ends) : From(ends, i) < p /\ p <= ends[i]
    BY <1>3 DEF Grouped
  <2>2. IsFiniteSet(claimed)
    <3> DEFINE f == [i \in 1..Len(done) |-> done[i].name]
    <3>1. Len(done) \in Nat /\ \A x : x \in Range(done) <=> \E i \in 1..Len(done) : x = done[i]
      BY SequenceParts
    <3>2. \A y : y \in claimed <=> \E i \in 1..Len(done) : y = f[i]
      BY <3>1
    <3>3. f \in [1..Len(done) -> claimed]
      BY <3>2
    <3> HIDE DEF f, claimed
    <3>4. f \in Surjection(1..Len(done), claimed)
      BY <3>2, <3>3 DEF Surjection
    <3>5. IsFiniteSet(1..Len(done))
      BY <3>1, FS_Interval
    <3> QED
      BY <3>4, <3>5, FS_Surjection
  <2>3. Newest(files) \in Nat /\ n <= Newest(files) /\ \A s \in survivors : s <= Newest(files)
    BY NewestIs, NumericIs
  <2>4. IsFiniteSet(names) /\ \A c \in names : c \in Nat \ {0} /\ c \notin survivors /\ c # n
    <3> DEFINE need == Len(ends) - 1
               last == Newest(files)
    <3>1. need \in Nat /\ last \in Nat /\ n \in Nat /\ survivors \in SUBSET Nat
      BY <1>1, <1>7, <2>1, <2>3
    <3>2. n <= last /\ \A s \in survivors : s <= last
      BY <2>3
    <3>3. names = Slot(n, need, survivors, claimed, last)
      OBVIOUS
    <3> HIDE DEF claimed, need, last, names
    <3> QED
      BY <1>1, <2>2, <3>1, <3>2, <3>3, SlotParts
  <2> HIDE DEF names
  <2>5. all \in SUBSET Nat /\ IsFiniteSet(all) /\ Cardinality(all) = Len(ends)
    <3>1. n \notin names /\ all \in SUBSET Nat
      BY <1>1, <2>4
    <3>2. IsFiniteSet(names \cup {n}) /\ Cardinality(names \cup {n}) = Cardinality(names) + 1
      BY <2>4, <3>1, FS_AddElement
    <3> QED
      BY <1>7, <2>1, <3>1, <3>2
  <2>6. \A c \in all : c \in Nat \ {0} /\ (c = n \/ c \notin survivors)
    BY <1>1, <2>4
  <2>7. n \in all
    OBVIOUS
  <2> HIDE DEF all
  <2> DEFINE chunk(i) == [input |-> n, name |-> Ordered(all)[i], from |-> From(ends, i), to |-> ends[i]]
  <2>8. /\ \A k \in 1..Len(ends) : Ordered(all)[k] \in all
        /\ \E k \in 1..Len(ends) : Ordered(all)[k] = n
        /\ \A i, j \in 1..Len(ends) : i < j => Ordered(all)[i] < Ordered(all)[j]
    BY <2>5, <2>7, OrderedParts
  <2>9. \A i \in 1..Len(ends) : chunk(i) \in Chunk
    BY <1>1, <2>1, <2>6, <2>8 DEF Chunk
  <2>10. cut = [i \in 1..Len(ends) |-> chunk(i)]
    BY <1>7, <2>1
  <2>11. /\ cut \in Seq(Chunk) /\ Len(cut) = Len(ends)
         /\ \A i \in 1..Len(cut) : /\ cut[i].input = n /\ cut[i].name = Ordered(all)[i]
                                   /\ cut[i].from = From(ends, i) /\ cut[i].to = ends[i]
    <3>1. \A i \in 1..Len(ends) : /\ chunk(i).input = n /\ chunk(i).name = Ordered(all)[i]
                                  /\ chunk(i).from = From(ends, i) /\ chunk(i).to = ends[i]
      OBVIOUS
    <3> HIDE DEF chunk
    <3> QED
      BY <2>1, <2>9, <2>10, <3>1
  <2> HIDE DEF chunk, made
  <2>12. \A i \in 1..Len(cut) : NamedWell(files, survivors, cut[i])
    BY <2>1, <2>6, <2>8, <2>11 DEF NamedWell
  <2>13. \A i \in 1..Len(cut) : \E j \in 1..Len(cut) : cut[j].name = cut[i].input
    BY <2>8, <2>11
  <2>14. ASSUME NoneAbove(cut), NEW j \in 1..Len(cut), cut[j].name = cut[j].input
         PROVE  Complete(files, cut, j)
    <3>1. j = Len(ends)
      <4>1. SUFFICES ASSUME j # Len(ends) PROVE FALSE
        OBVIOUS
      <4>2. j + 1 \in 1..Len(ends) /\ j \in 1..Len(ends) /\ j < j + 1
        <5>1. Len(cut) = Len(ends) /\ Len(ends) \in Nat
          BY <2>1, <2>11
        <5>2. j \in 1..Len(ends)
          BY <5>1
        <5> QED
          BY <4>1, <5>1, <5>2
      <4>3. Ordered(all)[j] < Ordered(all)[j + 1] /\ Ordered(all)[j] = n
        BY <2>8, <2>11, <2>14, <4>2
      <4>4. Ordered(all)[j + 1] <= n /\ Ordered(all)[j + 1] \in Nat
        BY <2>6, <2>8, <2>11, <2>14, <4>2 DEF NoneAbove
      <4> QED
        BY <1>1, <4>3, <4>4
    <3> QED
      BY <2>1, <2>11, <3>1 DEF Complete
  <2> QED
    BY <2>11, <2>12, <2>13, <2>14 DEF CutWell, cut
<1>8. CASE made = <<>> /\ cut = made
  BY <1>6, <1>8
<1> QED
  BY <1>4, <1>5, <1>6, <1>7, <1>8

LEMMA ChunksJoin ==
  ASSUME NEW files, Partitioned(files), NEW survivors, NEW s, NEW t,
         CutWell(files, survivors, s), CutWell(files, survivors, t)
  PROVE  CutWell(files, survivors, s \o t)
<1> DEFINE st == s \o t
<1>1. /\ s \in Seq(Chunk) /\ t \in Seq(Chunk) /\ Len(s) \in Nat /\ Len(t) \in Nat
      /\ \A i \in 1..Len(s) : NamedWell(files, survivors, s[i])
      /\ \A i \in 1..Len(t) : NamedWell(files, survivors, t[i])
  BY DEF CutWell
<1>2. /\ st \in Seq(Chunk) /\ Len(st) = Len(s) + Len(t)
      /\ \A i \in 1..Len(s) : st[i] = s[i] /\ i \in 1..Len(st)
      /\ \A i \in 1..Len(t) : st[Len(s) + i] = t[i] /\ Len(s) + i \in 1..Len(st)
      /\ \A i \in 1..Len(st) :
           i \in 1..Len(s) \/ (i > Len(s) /\ i - Len(s) \in 1..Len(t) /\ st[i] = t[i - Len(s)])
  BY <1>1, JoinedParts
<1> HIDE DEF st
<1>3. \A i \in 1..Len(st) : NamedWell(files, survivors, st[i])
  BY <1>1, <1>2
<1>4. \A i \in 1..Len(st) : \E j \in 1..Len(st) : st[j].name = st[i].input
  <2>1. TAKE i \in 1..Len(st)
  <2>2. CASE i \in 1..Len(s)
    <3>1. PICK j \in 1..Len(s) : s[j].name = s[i].input
      BY <2>2 DEF CutWell
    <3> QED
      BY <1>2, <2>2, <3>1
  <2>3. CASE i - Len(s) \in 1..Len(t) /\ st[i] = t[i - Len(s)]
    <3>1. PICK j \in 1..Len(t) : t[j].name = t[i - Len(s)].input
      BY <2>3 DEF CutWell
    <3>2. Len(s) + j \in 1..Len(st) /\ st[Len(s) + j] = t[j]
      BY <1>2
    <3>3. st[Len(s) + j].name = st[i].input
      BY <2>3, <3>1, <3>2
    <3> QED
      BY <3>2, <3>3
  <2> QED
    BY <1>2, <2>2, <2>3
<1>5. ASSUME NoneAbove(st), NEW j \in 1..Len(st), st[j].name = st[j].input
      PROVE  Complete(files, st, j)
  <2>1. NoneAbove(s) /\ NoneAbove(t)
    <3>1. NoneAbove(s)
      BY <1>2, <1>5 DEF NoneAbove
    <3>2. \A i \in 1..Len(t) : st[Len(s) + i].name <= st[Len(s) + i].input
      BY <1>2, <1>5 DEF NoneAbove
    <3>3. NoneAbove(t)
      BY <1>2, <3>2 DEF NoneAbove
    <3> QED
      BY <3>1, <3>3
  <2>2. CASE j \in 1..Len(s)
    <3>1. Complete(files, s, j)
      BY <1>2, <1>5, <2>1, <2>2 DEF CutWell
    <3>2. st[j] = s[j] /\ \A h \in 1..j : h \in 1..Len(s)
      BY <1>1, <1>2, <2>2
    <3>3. \A h \in 1..j : st[h] = s[h]
      BY <1>2, <3>2
    <3> QED
      BY <3>1, <3>2, <3>3 DEF Complete
  <2>3. CASE j > Len(s) /\ j - Len(s) \in 1..Len(t) /\ st[j] = t[j - Len(s)]
    <3> DEFINE k == j - Len(s)
    <3>1. k \in 1..Len(t) /\ st[j] = t[k] /\ j = Len(s) + k
      BY <1>1, <1>2, <2>3
    <3> HIDE DEF k
    <3>2. Complete(files, t, k)
      BY <1>5, <2>1, <3>1 DEF CutWell
    <3>3. \A h \in 1..k : h \in 1..Len(t) /\ Len(s) + h \in 1..j
      BY <1>1, <3>1
    <3>4. \A h \in 1..k : st[Len(s) + h] = t[h]
      BY <1>2, <3>3
    <3> QED
      BY <3>1, <3>2, <3>3, <3>4 DEF Complete
  <2> QED
    BY <1>2, <2>2, <2>3
<1> QED
  BY <1>2, <1>3, <1>4, <1>5 DEF CutWell, st

\* What is said of the chunks of one segment is true of all of them.
LEMMA ChunksParts ==
  ASSUME NEW files, Partitioned(files), NEW survivors \in SUBSET Numeric(files)
  PROVE  CutWell(files, survivors, Chunks(files, survivors))
<1> DEFINE names == Ordered(Numeric(files))
           len == Len(names)
           next(t, k) == t \o Cut(files, names[k], survivors, t)
           U == [k \in 0..len |-> {t \in Seq(Chunk) : CutWell(files, survivors, t)}]
           step == [k \in 1..len |-> [t \in U[k - 1] |-> next(t, k)]]
           Is(g) == g = [k \in 0..Len(names) |->
             IF k = 0 THEN <<>> ELSE LET done == g[k - 1] IN done \o Cut(files, names[k], survivors, done)]
           after[k \in 0..Len(names)] ==
             IF k = 0 THEN <<>>
             ELSE LET done == after[k - 1] IN done \o Cut(files, names[k], survivors, done)
<1>1. /\ names \in Seq(Numeric(files)) /\ len \in Nat
      /\ \A k \in 1..len : names[k] \in Numeric(files)
  BY NumericIs, OrderedParts
<1>2. Chunks(files, survivors) = after[len]
  BY DEF Chunks
<1>3. after = CHOOSE g : Is(g)
  BY DEF after, Is
<1>4. \A g : Is(g) <=> g = [k \in 0..len |-> IF k = 0 THEN <<>> ELSE next(g[k - 1], k)]
  BY DEF Is
<1> HIDE DEF after, Is, names
<1>5. <<>> \in U[0]
  <2>1. <<>> \in Seq(Chunk) /\ Len(<<>>) = 0
    OBVIOUS
  <2>2. CutWell(files, survivors, <<>>)
    BY <2>1 DEF CutWell
  <2>3. 0 \in 0..len
    BY <1>1
  <2> QED
    BY <2>1, <2>2, <2>3
<1>6. \A k \in 1..len : \A t \in U[k - 1] : next(t, k) \in U[k]
  <2>1. SUFFICES ASSUME NEW k \in 1..len, NEW t \in U[k - 1] PROVE next(t, k) \in U[k]
    OBVIOUS
  <2>2. k - 1 \in 0..len /\ k \in 0..len
    BY <1>1
  <2>3. t \in Seq(Chunk) /\ CutWell(files, survivors, t)
    BY <2>2
  <2>4. CutWell(files, survivors, Cut(files, names[k], survivors, t))
    BY <1>1, <2>3, CutParts
  <2>5. CutWell(files, survivors, next(t, k))
    BY <2>3, <2>4, ChunksJoin
  <2>6. next(t, k) \in Seq(Chunk)
    BY <2>5 DEF CutWell
  <2> HIDE DEF next
  <2> QED
    BY <2>2, <2>5, <2>6
<1> HIDE DEF next
<1>7. /\ 0 \in Nat /\ 0 <= len /\ len \in 0..len /\ 0 \in 0..len
      /\ \A k \in 0 + 1..len : k \in 1..len /\ k \in 0..len /\ k - 1 \in 0..len /\ k # 0
      /\ \A k \in 0..len : k # 0 => k \in 0 + 1..len
  BY <1>1
<1>8. \A k \in 0..len : \A t \in U[k] : CutWell(files, survivors, t)
  OBVIOUS
<1> HIDE DEF U, len
<1>9. \E g : Is(g)
  <2>1. \A k \in 0 + 1..len : step[k] \in [U[k - 1] -> U[k]]
    BY <1>6, <1>7
  <2>2. PICK g : Steps(g, 0, len, <<>>, step) /\ \A k \in 0..len : g[k] \in U[k]
    <3> HIDE DEF step
    <3> QED
      BY <1>1, <1>5, <1>7, <2>1, Recursion
  <2>3. \A k \in 0..len : g[k] = IF k = 0 THEN <<>> ELSE next(g[k - 1], k)
    <3>1. TAKE k \in 0..len
    <3>2. k # 0 => k \in 0 + 1..len
      BY <1>7
    <3>3. k # 0 => step[k][g[k - 1]] = next(g[k - 1], k)
      BY <1>7, <2>2, <3>2
    <3> HIDE DEF step
    <3> QED
      BY <2>2, <3>2, <3>3 DEF Steps
  <2>4. g = [k \in 0..len |-> g[k]]
    BY <2>2 DEF Steps
  <2>5. g = [k \in 0..len |-> IF k = 0 THEN <<>> ELSE next(g[k - 1], k)]
    BY <2>3, <2>4
  <2> QED
    BY <1>4, <2>5
<1>10. \A k \in 0..len : after[k] = IF k = 0 THEN <<>> ELSE next(after[k - 1], k)
  <2>1. after = [k \in 0..len |-> IF k = 0 THEN <<>> ELSE next(after[k - 1], k)]
    BY <1>3, <1>4, <1>9
  <2> QED
    BY <2>1
<1>11. \A k \in 0..len : after[k] \in U[k]
  <2>1. after[0] \in U[0]
    BY <1>5, <1>7, <1>10
  <2>2. \A k \in 0 + 1..len : after[k - 1] \in U[k - 1] => after[k] \in U[k]
    BY <1>6, <1>7, <1>10
  <2> QED
    BY <1>1, <1>7, <2>1, <2>2, Stepwise
<1> QED
  BY <1>2, <1>7, <1>8, <1>11

LEMMA PartIs ==
  ASSUME NEW lines \in Seq(Nat), NEW a \in Nat, NEW b \in Nat, a <= b, b <= Len(lines)
  PROVE  /\ SubSeq(lines, a + 1, b) \in Seq(Nat)
         /\ \A r : r \in Range(SubSeq(lines, a + 1, b)) <=> \E q \in a + 1..b : lines[q] = r
<1> DEFINE part == SubSeq(lines, a + 1, b)
<1>1. part \in Seq(Nat) /\ Len(part) = b - a /\ \A i \in 1..b - a : part[i] = lines[a + i]
  OBVIOUS
<1> HIDE DEF part
<1>2. \A r : r \in Range(part) <=> \E i \in 1..b - a : r = part[i]
  BY <1>1, SequenceParts
<1>3. /\ \A i \in 1..b - a : a + i \in a + 1..b
      /\ \A q \in a + 1..b : q - a \in 1..b - a /\ a + (q - a) = q
  OBVIOUS
<1>4. \A q \in a + 1..b : part[q - a] = lines[q]
  BY <1>1, <1>3
<1>5. ASSUME NEW r, NEW q \in a + 1..b, lines[q] = r
      PROVE  r \in Range(part)
  <2>1. q - a \in 1..b - a /\ r = part[q - a]
    BY <1>3, <1>4, <1>5
  <2> QED
    BY <1>2, <2>1
<1>6. ASSUME NEW r \in Range(part)
      PROVE  \E q \in a + 1..b : lines[q] = r
  <2>1. PICK i \in 1..b - a : r = part[i]
    BY <1>2
  <2>2. a + i \in a + 1..b /\ lines[a + i] = r
    BY <1>1, <1>3, <2>1
  <2> QED
    BY <2>2
<1>7. \A r : r \in Range(part) <=> \E q \in a + 1..b : lines[q] = r
  BY <1>5, <1>6
<1> QED
  BY <1>1, <1>7 DEF part

\* What is written for a run of segments, and for a chunk.
FromRun(o, files, g) ==
  /\ o.name = g[1]
  /\ \A r : r \in Range(o.lines) <=> \E n \in Range(g) : r \in Range(files[n])
FromChunk(o, files, c) ==
  /\ o.name = c.name
  /\ \A r : r \in Range(o.lines) <=> \E q \in c.from + 1..c.to : files[c.input][q] = r
FromPlan(outs, p, files) ==
  LET n == Len(p.merges)
      m == Len(p.chunks)
  IN /\ n \in Nat /\ m \in Nat /\ outs \in Seq(Output) /\ Len(outs) = n + m
     /\ \A i \in 1..n : i \in 1..n + m /\ FromRun(outs[i], files, p.merges[i])
     /\ \A i \in 1..m : n + i \in 1..n + m /\ FromChunk(outs[n + i], files, p.chunks[i])
     /\ \A i \in 1..n + m : i \in 1..n \/ (i > n /\ i - n \in 1..m)

LEMMA OutputsAre ==
  ASSUME NEW files, Partitioned(files), NEW p, Feasible(p, files)
  PROVE  FromPlan(Outputs(p, files), p, files)
<1> DEFINE parts(g) == [i \in DOMAIN g |-> files[g[i]]]
           merged(g) == [name |-> g[1], lines |-> FlattenSeq(parts(g))]
           chunk(c) == [name |-> c.name, lines |-> SubSeq(files[c.input], c.from + 1, c.to)]
           ms == [i \in DOMAIN p.merges |-> merged(p.merges[i])]
           cs == [i \in DOMAIN p.chunks |-> chunk(p.chunks[i])]
           outs == Outputs(p, files)
<1>1. /\ Len(p.merges) \in Nat /\ DOMAIN p.merges = 1..Len(p.merges)
      /\ Len(p.chunks) \in Nat /\ DOMAIN p.chunks = 1..Len(p.chunks)
      /\ \A i \in 1..Len(p.merges) : p.merges[i] \in Seq(Nat)
      /\ \A i \in 1..Len(p.chunks) : p.chunks[i] \in Chunk
  BY DEF Feasible
<1>2. outs = ms \o cs
  BY DEF Outputs
<1> HIDE DEF outs
<1>3. ASSUME NEW i \in 1..Len(p.merges)
      PROVE  /\ merged(p.merges[i]) \in Output
             /\ merged(p.merges[i]).name = p.merges[i][1]
             /\ \A r : r \in Range(merged(p.merges[i]).lines)
                         <=> \E n \in Range(p.merges[i]) : r \in Range(files[n])
  <2> DEFINE g == p.merges[i]
  <2>1. g \in Seq(Nat) /\ g # <<>> /\ Range(g) \subseteq DOMAIN files
    BY <1>1 DEF Feasible
  <2> HIDE DEF g
  <2>2. /\ Len(g) \in Nat /\ 1 \in 1..Len(g) /\ DOMAIN g = 1..Len(g)
        /\ \A k \in 1..Len(g) : g[k] \in Nat /\ g[k] \in Range(g)
        /\ \A n : n \in Range(g) <=> \E k \in 1..Len(g) : n = g[k]
    <3>1. /\ Len(g) \in Nat /\ DOMAIN g = 1..Len(g)
          /\ \A k \in 1..Len(g) : g[k] \in Nat /\ g[k] \in Range(g)
          /\ \A n : n \in Range(g) <=> \E k \in 1..Len(g) : n = g[k]
      BY <2>1, SequenceParts
    <3>2. Len(g) # 0
      BY <2>1
    <3> QED
      BY <3>1, <3>2
  <2>3. \A k \in 1..Len(g) : files[g[k]] \in Seq(Nat)
    BY <2>1, <2>2 DEF Partitioned
  <2>4. parts(g) \in Seq(Seq(Nat)) /\ Len(parts(g)) = Len(g) /\ \A k \in 1..Len(g) : parts(g)[k] = files[g[k]]
    BY <2>2, <2>3
  <2> DEFINE flat == FlattenSeq(parts(g))
  <2>5. /\ flat \in Seq(Nat)
        /\ \A x : x \in Range(flat) <=> \E k \in 1..Len(parts(g)) : x \in Range(parts(g)[k])
    <3> HIDE DEF parts
    <3> QED
      BY <2>4, FlattenParts
  <2>6. merged(g) = [name |-> g[1], lines |-> flat]
    OBVIOUS
  <2> HIDE DEF flat, parts
  <2>7. merged(g).name = g[1] /\ merged(g).lines = flat /\ merged(g) \in Output
    BY <2>2, <2>5, <2>6 DEF Output
  <2> HIDE DEF merged
  <2>8. \A r : r \in Range(merged(g).lines) <=> \E n \in Range(g) : r \in Range(files[n])
    BY <2>2, <2>4, <2>5, <2>7
  <2> QED
    BY <2>7, <2>8 DEF g
<1>4. ASSUME NEW i \in 1..Len(p.chunks)
      PROVE  LET c == p.chunks[i]
             IN /\ chunk(c) \in Output /\ chunk(c).name = c.name
                /\ \A r : r \in Range(chunk(c).lines)
                            <=> \E q \in c.from + 1..c.to : files[c.input][q] = r
  <2> DEFINE c == p.chunks[i]
             part == SubSeq(files[c.input], c.from + 1, c.to)
  <2>1. /\ c.name \in Nat /\ c.from \in Nat /\ c.to \in Nat /\ c.input \in DOMAIN files
        /\ c.from <= c.to /\ c.to <= Len(files[c.input])
    BY <1>1 DEF Feasible, Chunk
  <2>2. files[c.input] \in Seq(Nat)
    BY <2>1 DEF Partitioned
  <2>3. /\ part \in Seq(Nat)
        /\ \A r : r \in Range(part) <=> \E q \in c.from + 1..c.to : files[c.input][q] = r
    <3> DEFINE all == files[c.input]
               a == c.from
               b == c.to
    <3>1. all \in Seq(Nat) /\ a \in Nat /\ b \in Nat /\ a <= b /\ b <= Len(all)
      BY <2>1, <2>2
    <3>2. part = SubSeq(all, a + 1, b)
      OBVIOUS
    <3> HIDE DEF all, a, b, part
    <3>3. /\ SubSeq(all, a + 1, b) \in Seq(Nat)
          /\ \A r : r \in Range(SubSeq(all, a + 1, b)) <=> \E q \in a + 1..b : all[q] = r
      BY <3>1, PartIs
    <3> QED
      BY <3>2, <3>3 DEF all, a, b
  <2>4. chunk(c) = [name |-> c.name, lines |-> part]
    OBVIOUS
  <2> HIDE DEF part, c
  <2>5. chunk(c) \in Output /\ chunk(c).name = c.name /\ chunk(c).lines = part
    BY <2>1, <2>3, <2>4 DEF Output
  <2> HIDE DEF chunk
  <2> QED
    BY <2>3, <2>5 DEF c
<1> HIDE DEF merged, chunk, parts
<1>5. /\ ms \in Seq(Output) /\ Len(ms) = Len(p.merges)
      /\ \A i \in 1..Len(p.merges) : ms[i] = merged(p.merges[i])
  BY <1>1, <1>3
<1>6. /\ cs \in Seq(Output) /\ Len(cs) = Len(p.chunks)
      /\ \A i \in 1..Len(p.chunks) : cs[i] = chunk(p.chunks[i])
  BY <1>1, <1>4
<1> HIDE DEF ms, cs
<1> DEFINE n == Len(p.merges)
           m == Len(p.chunks)
<1>7. /\ outs \in Seq(Output) /\ Len(outs) = n + m
      /\ \A i \in 1..n : outs[i] = ms[i] /\ i \in 1..n + m
      /\ \A i \in 1..m : outs[n + i] = cs[i] /\ n + i \in 1..n + m
      /\ \A i \in 1..n + m : i \in 1..n \/ (i > n /\ i - n \in 1..m)
  <2> DEFINE st == ms \o cs
  <2>1. /\ st \in Seq(Output) /\ Len(st) = Len(ms) + Len(cs)
        /\ \A i \in 1..Len(ms) : st[i] = ms[i] /\ i \in 1..Len(ms) + Len(cs)
        /\ \A i \in 1..Len(cs) : st[Len(ms) + i] = cs[i] /\ Len(ms) + i \in 1..Len(ms) + Len(cs)
        /\ \A i \in 1..Len(ms) + Len(cs) :
             i \in 1..Len(ms) \/ (i > Len(ms) /\ i - Len(ms) \in 1..Len(cs) /\ st[i] = cs[i - Len(ms)])
    <3>1. ms \in Seq(Output) /\ cs \in Seq(Output)
      BY <1>5, <1>6
    <3> HIDE DEF n, m
    <3> QED
      BY <3>1, JoinedParts
  <2> HIDE DEF n, m
  <2>2. outs = st /\ Len(ms) = n /\ Len(cs) = m
    BY <1>2, <1>5, <1>6 DEF n, m
  <2> HIDE DEF st
  <2> QED
    BY <2>1, <2>2
<1>8. ASSUME NEW i \in 1..n PROVE FromRun(outs[i], files, p.merges[i])
  <2>1. outs[i] = merged(p.merges[i])
    BY <1>5, <1>7
  <2> QED
    BY <1>3, <2>1 DEF FromRun
<1>9. ASSUME NEW i \in 1..m PROVE FromChunk(outs[n + i], files, p.chunks[i])
  <2>1. outs[n + i] = chunk(p.chunks[i])
    BY <1>6, <1>7
  <2> QED
    BY <1>4, <2>1 DEF FromChunk
<1> QED
  BY <1>1, <1>7, <1>8, <1>9 DEF outs, FromPlan

\* What a plan of these files is.  When no chunk is named above its input, each
\* record is taken along.
LEMMA PlanParts ==
  ASSUME NEW files, Partitioned(files)
  PROVE  LET p == MakePlan(files)
         IN /\ Feasible(p, files)
            /\ \A i \in 1..Len(Outputs(p, files)) : Outputs(p, files)[i].name \notin p.removed
            /\ NoneAbove(p.chunks) =>
                 \A n \in DOMAIN files : \A r \in Range(files[n]) : Placed(p, files, n, r)
<1> DEFINE merges == Merges(files)
           away == MergedAway(merges)
           survivors == Numeric(files) \ away
           chunks == Chunks(files, survivors)
           inputs == {c.input : c \in Range(chunks)}
           removed == (away \cup inputs) \ Written(merges, chunks)
           p == MakePlan(files)
<1>1. p.merges = merges /\ p.chunks = chunks /\ p.removed = removed
  BY DEF MakePlan
<1> HIDE DEF p
<1>2. /\ merges \in Seq(Seq(Nat)) /\ Len(merges) \in Nat
      /\ \A i \in 1..Len(merges) :
           Len(merges[i]) \in Nat \ {0} /\ merges[i] \in Seq(Numeric(files))
      /\ \A g : g \in Range(merges) <=> \E i \in 1..Len(merges) : g = merges[i]
  <2>1. /\ merges \in Seq(Seq(Nat)) /\ Len(merges) \in Nat
        /\ \A i \in 1..Len(merges) :
             Len(merges[i]) \in Nat \ {0} /\ merges[i] \in Seq(Numeric(files))
    BY MergesParts
  <2> HIDE DEF merges
  <2> QED
    BY <2>1, SequenceParts
<1>3. survivors \in SUBSET Numeric(files)
  OBVIOUS
<1>4. CutWell(files, survivors, chunks)
  <2> HIDE DEF survivors
  <2> QED
    BY <1>3, ChunksParts
<1> HIDE DEF merges, chunks
<1>5. /\ chunks \in Seq(Chunk) /\ Len(chunks) \in Nat
      /\ \A i \in 1..Len(chunks) : NamedWell(files, survivors, chunks[i]) /\ chunks[i] \in Chunk
      /\ \A c : c \in Range(chunks) <=> \E i \in 1..Len(chunks) : c = chunks[i]
  <2>1. chunks \in Seq(Chunk) /\ \A i \in 1..Len(chunks) : NamedWell(files, survivors, chunks[i])
    BY <1>4 DEF CutWell
  <2> QED
    BY <2>1, SequenceParts
<1>6. Feasible(p, files)
  <2>1. \A i \in 1..Len(merges) : merges[i] # <<>> /\ Range(merges[i]) \subseteq DOMAIN files
    <3>1. TAKE i \in 1..Len(merges)
    <3>2. merges[i] \in Seq(Numeric(files)) /\ Len(merges[i]) # 0
      BY <1>2
    <3>3. Range(merges[i]) \subseteq Numeric(files)
      BY <3>2, SequenceParts
    <3>4. merges[i] # <<>>
      BY <3>2
    <3> QED
      BY <3>3, <3>4, NumericIs
  <2>2. \A i \in 1..Len(chunks) :
          LET c == chunks[i]
          IN c.input \in DOMAIN files /\ c.from <= c.to /\ c.to <= Len(files[c.input])
    BY <1>5, NumericIs DEF NamedWell
  <2> QED
    BY <1>1, <1>2, <1>5, <2>1, <2>2 DEF Feasible
<1>7. \A i \in 1..Len(Outputs(p, files)) : Outputs(p, files)[i].name \notin p.removed
  <2>1. \A i \in 1..Len(merges) : merges[i][1] \in Written(merges, chunks)
    BY <1>2 DEF Written
  <2>2. \A i \in 1..Len(chunks) : chunks[i].name \in Written(merges, chunks)
    BY <1>5 DEF Written
  <2> DEFINE outs == Outputs(p, files)
  <2>3. /\ Len(merges) \in Nat /\ Len(chunks) \in Nat
        /\ \A i \in 1..Len(merges) : outs[i].name = merges[i][1]
        /\ \A i \in 1..Len(chunks) : outs[Len(merges) + i].name = chunks[i].name
        /\ \A i \in 1..Len(outs) :
             \/ i \in 1..Len(merges)
             \/ i > Len(merges) /\ i - Len(merges) \in 1..Len(chunks)
        /\ Len(outs) \in Nat
    <3>1. FromPlan(outs, p, files)
      BY <1>6, OutputsAre
    <3> HIDE DEF outs
    <3>2. Len(outs) \in Nat
      <4>1. outs \in Seq(Output)
        BY <3>1 DEF FromPlan
      <4> QED
        BY <4>1
    <3> QED
      BY <1>1, <3>1, <3>2 DEF FromPlan, FromRun, FromChunk
  <2> HIDE DEF outs
  <2>4. ASSUME NEW i \in 1..Len(outs) PROVE outs[i].name \in Written(merges, chunks)
    <3>1. CASE i \in 1..Len(merges)
      BY <2>1, <2>3, <3>1
    <3>2. CASE i - Len(merges) \in 1..Len(chunks)
      <4> DEFINE k == i - Len(merges)
      <4>1. i = Len(merges) + k /\ k \in 1..Len(chunks)
        BY <2>3, <3>2
      <4> HIDE DEF k
      <4> QED
        BY <2>2, <2>3, <4>1
    <3> QED
      BY <2>3, <3>1, <3>2
  <2> QED
    BY <1>1, <2>4 DEF outs
<1>8. ASSUME NoneAbove(chunks), NEW n \in DOMAIN files, NEW r \in Range(files[n])
      PROVE  Placed(p, files, n, r)
  <2>1. SUFFICES ASSUME \A i \in 1..Len(merges) : n \notin Range(merges[i])
                 PROVE  /\ n \notin removed
                        /\ \A j \in 1..Len(chunks) :
                             chunks[j].name = n => \E h \in 1..j : Cuts(p, files, n, r, h)
    BY <1>1 DEF Placed
  <2>2. n \notin away
    <3>1. \A i \in 1..Len(merges) : n \notin Range(Tail(merges[i]))
      <4>1. TAKE i \in 1..Len(merges)
      <4> DEFINE g == merges[i]
      <4>2. g \in Seq(Numeric(files)) /\ Len(g) \in Nat \ {0} /\ n \notin Range(g)
        BY <1>2, <2>1
      <4> HIDE DEF g
      <4>3. g # <<>>
        BY <4>2
      <4>4. Tail(g) \in Seq(Numeric(files)) /\ Len(Tail(g)) = Len(g) - 1
        BY <4>2, <4>3
      <4>5. \A k \in 1..Len(g) - 1 : Tail(g)[k] = g[k + 1] /\ k + 1 \in 1..Len(g)
        BY <4>2, <4>3
      <4>6. \A x : x \in Range(Tail(g)) <=> \E k \in 1..Len(g) - 1 : x = Tail(g)[k]
        BY <4>4, SequenceParts
      <4>7. \A x : x \in Range(g) <=> \E k \in 1..Len(g) : x = g[k]
        BY <4>2, SequenceParts
      <4>8. n \notin Range(Tail(g))
        BY <4>2, <4>5, <4>6, <4>7
      <4> QED
        BY <4>8 DEF g
    <3>2. \A g \in Range(merges) : n \notin Range(Tail(g))
      BY <1>2, <3>1
    <3> QED
      BY <3>2 DEF MergedAway
  <2>3. n \in inputs => n \in Written(merges, chunks)
    <3>1. HAVE n \in inputs
    <3>2. PICK i \in 1..Len(chunks) : n = chunks[i].input
      BY <1>5, <3>1
    <3>3. PICK j \in 1..Len(chunks) : chunks[j].name = n
      BY <1>4, <3>2 DEF CutWell
    <3> QED
      BY <1>5, <3>3 DEF Written
  <2>4. ASSUME NEW j \in 1..Len(chunks), chunks[j].name = n
        PROVE  \E h \in 1..j : Cuts(p, files, n, r, h)
    <3>1. NamedWell(files, survivors, chunks[j])
      BY <1>5
    <3>2. n # 0
      BY <2>4, <3>1 DEF NamedWell
    <3>3. n \in survivors
      BY <2>2, <3>2 DEF Numeric
    <3>4. chunks[j].input = n
      BY <2>4, <3>1, <3>3 DEF NamedWell
    <3>5. Complete(files, chunks, j)
      BY <1>4, <1>8, <2>4, <3>4 DEF CutWell
    <3>6. PICK q \in 1..Len(files[n]) : files[n][q] = r
      <4>1. files[n] \in Seq(Nat)
        BY DEF Partitioned
      <4> QED
        BY <4>1, SequenceParts
    <3>7. PICK h \in 1..j : chunks[h].input = n /\ chunks[h].from < q /\ q <= chunks[h].to
      BY <3>4, <3>5 DEF Complete
    <3>8. h \in 1..Len(chunks) /\ chunks[h].from \in Nat /\ chunks[h].to \in Nat
      <4>1. h \in 1..Len(chunks)
        BY <1>5
      <4> QED
        BY <1>5, <4>1 DEF Chunk
    <3>9. q \in chunks[h].from + 1..chunks[h].to
      <4>1. q \in Nat
        <5>1. Len(files[n]) \in Nat
          BY DEF Partitioned
        <5> QED
          BY <5>1
      <4> QED
        BY <3>7, <3>8, <4>1
    <3> QED
      BY <1>1, <3>6, <3>7, <3>9 DEF Cuts
  <2> QED
    BY <2>2, <2>3, <2>4
<1> QED
  BY <1>1, <1>6, <1>7, <1>8 DEF p

LEMMA PlacedHasHome ==
  ASSUME NEW files, Partitioned(files), NEW p, Feasible(p, files),
         NEW n \in DOMAIN files, NEW r \in Range(files[n]), Placed(p, files, n, r)
  PROVE  Home(files, Outputs(p, files), p.removed, n, r)
<1> DEFINE outs == Outputs(p, files)
           runs == Len(p.merges)
           cuts == Len(p.chunks)
<1>1. FromPlan(outs, p, files)
  BY OutputsAre
<1> HIDE DEF outs
<1>2. /\ runs \in Nat /\ cuts \in Nat /\ Len(outs) = runs + cuts
      /\ \A i \in 1..runs : i \in 1..Len(outs) /\ FromRun(outs[i], files, p.merges[i])
      /\ \A i \in 1..cuts : runs + i \in 1..Len(outs) /\ FromChunk(outs[runs + i], files, p.chunks[i])
      /\ \A i \in 1..Len(outs) : i \in 1..runs \/ (i > runs /\ i - runs \in 1..cuts)
  BY <1>1 DEF FromPlan
<1>3. \A i \in 1..runs : n \in Range(p.merges[i]) => r \in Range(outs[i].lines)
  BY <1>2 DEF FromRun
<1>6. \A i \in 1..runs : p.merges[i] # <<>> /\ p.merges[i] \in Seq(Nat) /\ outs[i].name = p.merges[i][1]
  <2>1. TAKE i \in 1..runs
  <2>2. outs[i].name = p.merges[i][1]
    BY <1>2 DEF FromRun
  <2>3. p.merges \in Seq(Seq(Nat)) /\ p.merges[i] # <<>>
    BY DEF Feasible
  <2>4. p.merges[i] \in Seq(Nat)
    BY <2>3, SequenceParts
  <2> QED
    BY <2>2, <2>3, <2>4
<1>4. CASE \E i \in 1..runs : n \in Range(p.merges[i])
  <2>1. PICK i \in 1..runs : n \in Range(p.merges[i])
    BY <1>4
  <2>2. i \in 1..Len(outs) /\ r \in Range(outs[i].lines)
    BY <1>2, <1>3, <2>1
  <2>3. ASSUME NEW k \in 1..Len(outs), outs[k].name = n
        PROVE  \E j \in 1..k : r \in Range(outs[j].lines)
    <3>1. CASE i <= k
      <4>1. i \in 1..k
        BY <1>2, <3>1
      <4> QED
        BY <2>2, <4>1
    <3>2. CASE ~(i <= k)
      <4>1. k \in 1..runs /\ k \in 1..k
        BY <1>2, <3>2
      <4>2. p.merges[k] # <<>> /\ p.merges[k] \in Seq(Nat) /\ n = p.merges[k][1]
        BY <1>6, <2>3, <4>1
      <4>3. 1 \in 1..Len(p.merges[k])
        BY <4>2
      <4>4. n \in Range(p.merges[k])
        BY <4>2, <4>3, SequenceParts
      <4> QED
        BY <1>3, <4>1, <4>4
    <3> QED
      BY <3>1, <3>2
  <2> QED
    BY <2>2, <2>3 DEF Home, outs
<1>5. CASE /\ \A i \in 1..runs : n \notin Range(p.merges[i])
           /\ n \notin p.removed
           /\ \A j \in 1..cuts : p.chunks[j].name = n => \E h \in 1..j : Cuts(p, files, n, r, h)
  <2>1. ASSUME NEW k \in 1..Len(outs), outs[k].name = n
        PROVE  \E j \in 1..k : r \in Range(outs[j].lines)
    <3>1. CASE k \in 1..runs
      <4>1. p.merges[k] # <<>> /\ p.merges[k] \in Seq(Nat) /\ n = p.merges[k][1]
        BY <1>6, <2>1, <3>1
      <4>2. 1 \in 1..Len(p.merges[k])
        BY <4>1
      <4>3. n \in Range(p.merges[k])
        BY <4>1, <4>2, SequenceParts
      <4> QED
        BY <1>5, <3>1, <4>3
    <3>2. CASE k > runs /\ k - runs \in 1..cuts
      <4> DEFINE j == k - runs
      <4>1. j \in 1..cuts /\ k = runs + j
        BY <1>2, <3>2
      <4> HIDE DEF j
      <4>2. p.chunks[j].name = n
        BY <1>2, <2>1, <4>1 DEF FromChunk
      <4>3. PICK h \in 1..j : Cuts(p, files, n, r, h)
        BY <1>5, <4>1, <4>2
      <4>4. h \in 1..cuts /\ runs + h \in 1..k
        BY <1>2, <4>1
      <4>5. r \in Range(outs[runs + h].lines)
        BY <1>2, <4>3, <4>4 DEF FromChunk, Cuts
      <4> QED
        BY <4>4, <4>5
    <3> QED
      BY <1>2, <3>1, <3>2
  <2> QED
    BY <1>5, <2>1 DEF Home, outs
<1> QED
  BY <1>4, <1>5 DEF Placed

\* Files that have grown have the records they had, where they had them.
Longer(files, more) ==
  /\ DOMAIN files \subseteq DOMAIN more
  /\ \A n \in DOMAIN files :
       /\ Len(files[n]) \in Nat /\ Len(more[n]) \in Nat /\ Len(files[n]) <= Len(more[n])
       /\ \A q \in 1..Len(files[n]) : more[n][q] = files[n][q]
       /\ Range(files[n]) \subseteq Range(more[n])

LEMMA FitsLonger ==
  ASSUME NEW files, Partitioned(files), NEW more, Partitioned(more), Longer(files, more),
         NEW p, PlanFits(p, files)
  PROVE  /\ PlanFits(p, more)
         /\ \A n \in DOMAIN files : \A r : Placed(p, files, n, r) => Placed(p, more, n, r)
<1>1. Feasible(p, files)
  BY DEF PlanFits
<1>2. \A i \in 1..Len(p.chunks) : p.chunks[i] \in Chunk /\ p.chunks[i].from \in Nat /\ p.chunks[i].to \in Nat
  <2>1. p.chunks \in Seq(Chunk)
    BY <1>1 DEF Feasible
  <2>2. \A i \in 1..Len(p.chunks) : p.chunks[i] \in Chunk
    BY <2>1, SequenceParts
  <2> QED
    BY <2>2 DEF Chunk
<1>3. Feasible(p, more)
  <2>1. \A i \in 1..Len(p.chunks) :
          LET c == p.chunks[i]
          IN c.input \in DOMAIN more /\ c.from <= c.to /\ c.to <= Len(more[c.input])
    BY <1>1, <1>2 DEF Feasible, Longer
  <2> QED
    BY <1>1, <2>1 DEF Feasible, Longer
<1> DEFINE outs == Outputs(p, files)
           now == Outputs(p, more)
<1>4. FromPlan(outs, p, files) /\ FromPlan(now, p, more)
  BY <1>1, <1>3, OutputsAre
<1>5. NamesApart(outs, p.removed)
  BY DEF PlanFits
<1> HIDE DEF outs, now
<1>6. Len(now) = Len(outs) /\ \A i \in 1..Len(outs) : now[i].name = outs[i].name
  <2> DEFINE runs == Len(p.merges)
             cuts == Len(p.chunks)
  <2>1. Len(now) = Len(outs) /\ Len(outs) = runs + cuts /\ runs \in Nat /\ cuts \in Nat
    BY <1>4 DEF FromPlan
  <2>2. \A i \in 1..runs : now[i].name = outs[i].name
    BY <1>4 DEF FromPlan, FromRun
  <2>3. \A i \in 1..cuts : now[runs + i].name = outs[runs + i].name
    BY <1>4 DEF FromPlan, FromChunk
  <2> HIDE DEF runs, cuts
  <2>4. \A i \in 1..Len(outs) : i \in 1..runs \/ (i - runs \in 1..cuts /\ i = runs + (i - runs))
    BY <2>1
  <2> QED
    BY <2>1, <2>2, <2>3, <2>4
<1>7. PlanFits(p, more)
  <2>1. NamesApart(now, p.removed)
    BY <1>5, <1>6 DEF NamesApart
  <2> QED
    BY <1>3, <2>1 DEF PlanFits, now
<1>8. ASSUME NEW n \in DOMAIN files, NEW r, Placed(p, files, n, r) PROVE Placed(p, more, n, r)
  <2>1. ASSUME NEW h \in 1..Len(p.chunks), Cuts(p, files, n, r, h) PROVE Cuts(p, more, n, r, h)
    <3>1. PICK i \in p.chunks[h].from + 1..p.chunks[h].to : files[n][i] = r
      BY <2>1 DEF Cuts
    <3>2. p.chunks[h].input = n /\ p.chunks[h].to <= Len(files[n])
      BY <1>1, <2>1 DEF Cuts, Feasible
    <3>3. Len(files[n]) \in Nat
      BY DEF Longer
    <3>4. i \in 1..Len(files[n])
      BY <1>2, <3>1, <3>2, <3>3
    <3>5. more[n][i] = r
      BY <3>1, <3>4 DEF Longer
    <3> QED
      BY <3>1, <3>2, <3>5 DEF Cuts
  <2>2. \A j \in 1..Len(p.chunks) : \A h \in 1..j : h \in 1..Len(p.chunks)
    <3>1. Len(p.chunks) \in Nat
      BY <1>4 DEF FromPlan
    <3> QED
      BY <3>1
  <2> QED
    BY <1>8, <2>1, <2>2 DEF Placed
<1> QED
  BY <1>7, <1>8

\* What every step of a pass says of the guarded records: they are on disk.
LEMMA KeptOnDisk ==
  ASSUME ConsolidationTypes, RecordsKept
  PROVE  Guarded \subseteq OnDisk
<1>1. \A n \in DOMAIN segments : Range(segments[n]) \subseteq OnDisk
  BY DEF OnDisk
<1>2. CASE pass \in {"planned", "read"}
  BY <1>1, <1>2 DEF RecordsKept, PlanKeeps
<1>3. CASE pass = "write"
  BY <1>1, <1>3 DEF RecordsKept, Held, Home
<1>4. CASE pass = "delete"
  BY <1>1, <1>4 DEF RecordsKept, Held, Home
<1>5. CASE ~Running
  BY <1>5 DEF RecordsKept
<1> QED
  BY <1>2, <1>3, <1>4, <1>5 DEF Running

\* A race takes what was appended since out of the guard.
LEMMA GuardShrinks ==
  ASSUME ConsolidationTypes, found' = found, stored' = stored, raced => raced'
  PROVE  Guarded' \subseteq Guarded
  BY DEF ConsolidationTypes, Guarded

\* A step that leaves the files and the pass alone.
LEMMA KeptLess ==
  ASSUME RecordsKept, Guarded' \subseteq Guarded, UNCHANGED <<segments, pass, plan, outputs>>
  PROVE  RecordsKept'
<1>1. OnDisk' = OnDisk /\ Running' = Running
  BY DEF OnDisk, Running
<1>2. pass' \in {"planned", "read"} => PlanKeeps(plan, segments, Guarded)'
  BY DEF RecordsKept, PlanKeeps
<1>3. pass' = "write" => Held(segments, outputs, plan.removed, Guarded)'
  BY DEF RecordsKept, Held
<1>4. pass' = "delete" => Held(segments, <<>>, plan.removed, Guarded)'
  BY DEF RecordsKept, Held
<1>5. ~Running' => Guarded' \subseteq OnDisk'
  BY <1>1 DEF RecordsKept
<1> QED
  BY <1>2, <1>3, <1>4, <1>5 DEF RecordsKept

\* A consolidation that is over, or stops, has the guarded records on disk.
LEMMA StopsSafely ==
  ASSUME ConsolidationInvariant, pass' \in {"done", "failed", "killed"},
         segments' = segments, outputs' \in Seq(Output), appending' = appending,
         found' = found, stored' = stored, passes' \in 0..MaxPasses,
         raced' \in BOOLEAN, upward' \in BOOLEAN, raced => raced', upward => upward'
  PROVE  ConsolidationInvariant'
<1>1. ~Running' /\ pass' \notin {"planned", "read", "write", "delete"}
  BY DEF Running
<1>2. ConsolidationTypes'
  BY <1>1 DEF ConsolidationInvariant, ConsolidationTypes
<1>3. ASSUME ~upward' PROVE RecordsKept'
  <2>1. Guarded \subseteq OnDisk
    BY <1>3, KeptOnDisk DEF ConsolidationInvariant
  <2>2. Guarded' \subseteq Guarded
    BY GuardShrinks DEF ConsolidationInvariant
  <2>3. OnDisk' = OnDisk
    BY DEF OnDisk
  <2> QED
    BY <1>1, <2>1, <2>2, <2>3 DEF RecordsKept
<1> QED
  BY <1>1, <1>2, <1>3 DEF ConsolidationInvariant

LEMMA AtFirst ==
  ASSUME ConsolidationInit
  PROVE  ConsolidationInvariant
<1> DEFINE all == ReadOrder(segments, DOMAIN segments)
<1>1. Partitioned(segments) /\ \A i \in DOMAIN all : all[i] = i
  BY ConsolidationAssumption DEF ConsolidationInit, Partitioned
<1>2. /\ all \in Seq(Nat)
      /\ \A r : r \in Range(all) <=> \E n \in DOMAIN segments : r \in Range(segments[n])
  BY <1>1, ReadOrderParts
<1>3. found = Len(all) /\ stored = found /\ raced = FALSE
  BY DEF ConsolidationInit
<1> HIDE DEF all
<1>4. found \in Nat /\ DOMAIN all = 1..found
  BY <1>2, <1>3
<1>5. Guarded \subseteq OnDisk
  <2>1. SUFFICES ASSUME NEW r \in 1..found PROVE r \in OnDisk
    BY <1>3 DEF Guarded
  <2>2. r \in Range(all)
    BY <1>1, <1>4 DEF Range
  <2> QED
    BY <1>2, <2>2 DEF OnDisk
<1>6. pass = "idle" /\ ~Running /\ outputs = <<>> /\ appending = <<>> /\ passes = 0 /\ upward = FALSE
  BY DEF ConsolidationInit, Running
<1>7. ConsolidationTypes
  <2>1. outputs \in Seq(Output)
    BY <1>6
  <2>2. passes \in 0..MaxPasses
    BY <1>6, ConsolidationAssumption
  <2>3. /\ found \in Nat /\ stored \in Nat /\ found <= stored
    BY <1>3, <1>4
  <2>4. /\ raced \in BOOLEAN /\ upward \in BOOLEAN /\ appending \in {<<>>} \cup ({stored + 1} \X Nat)
        /\ pass \in {"idle", "planned", "read", "write", "delete", "done", "failed", "killed"}
    <3>1. raced = FALSE /\ upward = FALSE /\ appending = <<>>
      BY <1>3, <1>6
    <3> QED
      BY <1>6, <3>1
  <2> QED
    BY <1>1, <1>6, <2>1, <2>2, <2>3, <2>4 DEF ConsolidationTypes
<1>8. RecordsKept
  BY <1>5, <1>6 DEF RecordsKept
<1> QED
  BY <1>6, <1>7, <1>8 DEF ConsolidationInvariant

LEMMA TargetIsResolved ==
  ASSUME ConsolidationInvariant, ResolveTarget
  PROVE  ConsolidationInvariant'
<1>1. ConsolidationTypes
  BY DEF ConsolidationInvariant
<1>2. /\ appending' = <<stored + 1, Target(stored + 1)>> /\ raced' = (raced \/ Running)
      /\ UNCHANGED <<segments, found, stored, pass, passes, plan, outputs, upward>>
  BY DEF ResolveTarget, consolidator
<1>3. Target(stored + 1) \in Nat
  <2>1. Active \in Nat /\ NextChunk \in Nat
    <3>1. Partitioned(segments)
      BY <1>1 DEF ConsolidationTypes
    <3>2. CASE Numeric(segments) = {}
      BY <3>2 DEF Active, NextChunk
    <3>3. CASE Numeric(segments) # {}
      <4>1. Newest(segments) \in Nat
        BY <3>1, <3>3, NewestIs, NumericIs
      <4> QED
        BY <3>3, <4>1 DEF Active, NextChunk
    <3> QED
      BY <3>2, <3>3
  <2> QED
    BY <2>1 DEF Target
<1>4. Running' = Running
  BY <1>2 DEF Running
<1>5. ConsolidationTypes'
  <2>1. appending' \in {stored + 1} \X Nat
    BY <1>2, <1>3
  <2>2. raced' \in BOOLEAN /\ (Running' => raced')
    BY <1>1, <1>2, <1>4 DEF ConsolidationTypes, Running
  <2> QED
    BY <1>1, <1>2, <2>1, <2>2 DEF ConsolidationTypes
<1>6. Guarded' \subseteq Guarded
  BY <1>1, <1>2, GuardShrinks
<1>7. ~upward' => RecordsKept'
  BY <1>2, <1>6, KeptLess DEF ConsolidationInvariant
<1> QED
  BY <1>2, <1>5, <1>7 DEF ConsolidationInvariant

LEMMA LineIsAppended ==
  ASSUME ConsolidationInvariant, AppendLine
  PROVE  ConsolidationInvariant'
<1> DEFINE n == appending[2]
           lines == IF n \in DOMAIN segments THEN segments[n] ELSE <<>>
<1>1. ConsolidationTypes
  BY DEF ConsolidationInvariant
<1>2. /\ appending # <<>> /\ segments' = WriteFile(segments, n, Append(lines, appending[1]))
      /\ stored' = appending[1] /\ appending' = <<>>
      /\ UNCHANGED <<found, pass, passes, plan, outputs, raced, upward>>
  BY DEF AppendLine, consolidator
<1>3. /\ appending[1] = stored + 1 /\ n \in Nat /\ stored \in Nat /\ found \in Nat /\ found <= stored
      /\ Partitioned(segments)
  BY <1>1, <1>2 DEF ConsolidationTypes
<1>4. lines \in Seq(Nat)
  BY <1>3 DEF Partitioned
<1> HIDE DEF n
<1>5. /\ DOMAIN segments' = DOMAIN segments \cup {n}
      /\ segments'[n] = Append(lines, stored + 1)
      /\ \A m \in DOMAIN segments : m # n => segments'[m] = segments[m]
  BY <1>2, <1>3 DEF WriteFile
<1> DEFINE more == Append(lines, stored + 1)
<1>6. /\ more \in Seq(Nat) /\ Len(more) = Len(lines) + 1 /\ Len(lines) \in Nat
      /\ more[Len(lines) + 1] = stored + 1
      /\ \A q \in 1..Len(lines) : more[q] = lines[q] /\ q \in 1..Len(more)
  <2> HIDE DEF lines
  <2> QED
    BY <1>3, <1>4
<1>7. Partitioned(segments')
  <2>1. IsFiniteSet(DOMAIN segments \cup {n})
    BY <1>3, FS_AddElement DEF Partitioned
  <2>2. DOMAIN segments' \subseteq Nat
    BY <1>3, <1>5 DEF Partitioned
  <2>3. \A m \in DOMAIN segments' : segments'[m] \in Seq(Nat)
    <3> HIDE DEF lines, more
    <3>1. segments'[n] \in Seq(Nat)
      BY <1>5, <1>6 DEF more
    <3> QED
      BY <1>3, <1>5, <3>1 DEF Partitioned
  <2> QED
    BY <1>5, <2>1, <2>2, <2>3 DEF Partitioned
<1>8. Longer(segments, segments')
  <2>1. SUFFICES ASSUME NEW m \in DOMAIN segments
                 PROVE  /\ Len(segments[m]) \in Nat /\ Len(segments'[m]) \in Nat
                        /\ Len(segments[m]) <= Len(segments'[m])
                        /\ \A q \in 1..Len(segments[m]) : segments'[m][q] = segments[m][q]
                        /\ Range(segments[m]) \subseteq Range(segments'[m])
    BY <1>5 DEF Longer
  <2>2. CASE m # n
    <3>1. segments'[m] = segments[m] /\ segments[m] \in Seq(Nat)
      BY <1>3, <1>5, <2>2 DEF Partitioned
    <3>2. Len(segments[m]) \in Nat
      BY <3>1
    <3> QED
      BY <3>1, <3>2
  <2>3. CASE m = n
    <3>1. segments[m] = lines /\ segments'[m] = more
      BY <1>5, <2>3
    <3>2. Range(lines) \subseteq Range(more)
      <4>1. /\ \A x : x \in Range(lines) <=> \E i \in 1..Len(lines) : x = lines[i]
            /\ \A x : x \in Range(more) <=> \E i \in 1..Len(more) : x = more[i]
        <5> HIDE DEF lines, more
        <5> QED
          BY <1>4, <1>6, SequenceParts
      <4> HIDE DEF lines, more
      <4> QED
        BY <1>6, <4>1
    <3>3. Len(more) \in Nat /\ Len(lines) <= Len(more)
      <4> HIDE DEF lines, more
      <4> QED
        BY <1>6
    <3> HIDE DEF lines, more
    <3> QED
      BY <1>6, <3>1, <3>2, <3>3
  <2> QED
    BY <2>2, <2>3
<1> HIDE DEF lines, more
<1>9. Running' = Running
  BY <1>2 DEF Running
<1>10. ConsolidationTypes'
  BY <1>1, <1>2, <1>3, <1>7, <1>9 DEF ConsolidationTypes
<1>11. /\ pass' \in {"planned", "read"} => PlanFits(plan, segments)'
       /\ pass' = "write" => NamesApart(outputs, plan.removed)'
  BY <1>2, <1>3, <1>7, <1>8, FitsLonger DEF ConsolidationInvariant
<1>12. OnDisk \subseteq OnDisk'
  BY <1>8 DEF OnDisk, Longer
<1>13. ASSUME ~upward' PROVE RecordsKept'
  <2>1. RecordsKept
    BY <1>2, <1>13 DEF ConsolidationInvariant
  <2>2. CASE Running
    <3>1. raced
      BY <1>1, <1>2, <2>2 DEF ConsolidationTypes
    <3>2. Guarded' = Guarded
      BY <1>2, <3>1 DEF Guarded
    <3>3. pass' \in {"planned", "read"} => PlanKeeps(plan, segments, Guarded)'
      <4>1. HAVE pass' \in {"planned", "read"}
      <4>2. PlanKeeps(plan, segments, Guarded) /\ PlanFits(plan, segments)
        BY <1>2, <2>1, <4>1 DEF RecordsKept, ConsolidationInvariant
      <4>3. \A m \in DOMAIN segments : \A r : Placed(plan, segments, m, r) => Placed(plan, segments', m, r)
        BY <1>3, <1>7, <1>8, <4>2, FitsLonger
      <4> QED
        BY <1>2, <1>8, <3>2, <4>2, <4>3 DEF PlanKeeps, Longer
    <3>4. \A outs : Held(segments, outs, plan.removed, Guarded) => Held(segments', outs, plan.removed, Guarded)
      <4>1. \A outs, r : \A m \in DOMAIN segments :
              Home(segments, outs, plan.removed, m, r) => Home(segments', outs, plan.removed, m, r)
        BY <1>8 DEF Home, Longer
      <4>2. TAKE outs
      <4>3. HAVE Held(segments, outs, plan.removed, Guarded)
      <4>4. ASSUME NEW r \in Guarded
            PROVE  \E m \in DOMAIN segments' : Home(segments', outs, plan.removed, m, r)
        <5>1. PICK m \in DOMAIN segments : Home(segments, outs, plan.removed, m, r)
          BY <4>3 DEF Held
        <5>2. m \in DOMAIN segments'
          BY <1>8 DEF Longer
        <5>3. Home(segments', outs, plan.removed, m, r)
          BY <4>1, <5>1
        <5> QED
          BY <5>2, <5>3
      <4> QED
        BY <4>4 DEF Held
    <3> QED
      BY <1>2, <1>9, <2>1, <2>2, <3>2, <3>3, <3>4 DEF RecordsKept
  <2>3. CASE ~Running
    <3>1. Guarded' \subseteq OnDisk'
      <4>1. Guarded \subseteq OnDisk'
        BY <1>12, <2>1, <2>3 DEF RecordsKept
      <4>2. stored + 1 \in OnDisk'
        <5>1. stored + 1 \in Range(segments'[n])
          <6>1. stored + 1 \in Range(more)
            <7>1. Len(lines) + 1 \in 1..Len(more)
              BY <1>6
            <7> QED
              BY <1>6, <7>1, SequenceParts
          <6> QED
            BY <1>5, <6>1 DEF more
        <5> QED
          BY <1>5, <5>1 DEF OnDisk
      <4>3. \A r \in Guarded' : r \in Guarded \/ r = stored + 1
        BY <1>2, <1>3 DEF Guarded
      <4> QED
        BY <4>1, <4>2, <4>3
    <3> QED
      BY <1>2, <1>9, <2>3, <3>1 DEF RecordsKept, Running
  <2> QED
    BY <2>2, <2>3
<1> QED
  BY <1>10, <1>11, <1>13 DEF ConsolidationInvariant

LEMMA PlanIsMade ==
  ASSUME ConsolidationInvariant, planSegmentConsolidation
  PROVE  ConsolidationInvariant'
<1> DEFINE p == MakePlan(segments)
<1>1. /\ ConsolidationTypes /\ Partitioned(segments) /\ passes \in Nat
      /\ MaxPasses \in Nat
  BY ConsolidationAssumption DEF ConsolidationInvariant, ConsolidationTypes
<1>2. /\ ~Running /\ passes < MaxPasses /\ passes' = passes + 1
      /\ plan' = p /\ pass' = IF KeepsLayout(p, segments) THEN "planned" ELSE "failed"
      /\ upward' = (upward \/ \E c \in Range(p.chunks) : c.name > c.input)
      /\ raced' = (raced \/ appending # <<>>)
      /\ UNCHANGED <<segments, found, stored, appending, before, outputs>>
  BY DEF planSegmentConsolidation
<1>3. passes' \in 0..MaxPasses /\ upward' \in BOOLEAN /\ raced' \in BOOLEAN
  BY <1>1, <1>2 DEF ConsolidationTypes
<1>4. CASE ~KeepsLayout(p, segments)
  <2>1. pass' = "failed" /\ outputs' \in Seq(Output) /\ (upward => upward') /\ (raced => raced')
    BY <1>1, <1>2, <1>4 DEF ConsolidationTypes
  <2> HIDE DEF p
  <2> QED
    BY <1>2, <1>3, <2>1, StopsSafely
<1>5. CASE KeepsLayout(p, segments)
  <2>1. pass' = "planned"
    BY <1>2, <1>5
  <2>2. /\ Feasible(p, segments)
        /\ \A i \in 1..Len(Outputs(p, segments)) : Outputs(p, segments)[i].name \notin p.removed
        /\ NoneAbove(p.chunks) =>
             \A n \in DOMAIN segments : \A r \in Range(segments[n]) : Placed(p, segments, n, r)
    BY <1>1, PlanParts
  <2> HIDE DEF p
  <2>3. PlanFits(p, segments)
    <3> DEFINE outs == Outputs(p, segments)
    <3>1. outs \in Seq(Output)
      <4>1. FromPlan(outs, p, segments)
        BY <1>1, <2>2, OutputsAre
      <4> QED
        BY <4>1 DEF FromPlan
    <3>2. DOMAIN outs = 1..Len(outs)
      <4> HIDE DEF outs
      <4> QED
        BY <3>1
    <3>3. \A i, j \in 1..Len(outs) : outs[i].name = outs[j].name => i = j
      BY <1>5, <3>2 DEF KeepsLayout
    <3> QED
      BY <2>2, <3>3 DEF PlanFits, NamesApart
  <2>4. ConsolidationTypes'
    <3>1. Running' /\ ~raced' => appending' = <<>>
      BY <1>2
    <3>2. outputs' \in Seq(Output)
      BY <1>1, <1>2 DEF ConsolidationTypes
    <3> QED
      BY <1>1, <1>2, <1>3, <2>1, <3>1, <3>2 DEF ConsolidationTypes
  <2>5. ASSUME ~upward' PROVE PlanKeeps(p, segments, Guarded')
    <3>1. Guarded \subseteq OnDisk
      BY <1>1, <1>2, <2>5, KeptOnDisk DEF ConsolidationInvariant
    <3>2. Guarded' \subseteq Guarded
      BY <1>1, <1>2, GuardShrinks
    <3>3. NoneAbove(p.chunks)
      <4>1. p.chunks \in Seq(Chunk)
        BY <2>2 DEF Feasible
      <4>2. \A i \in 1..Len(p.chunks) : p.chunks[i] \in Range(p.chunks) /\ p.chunks[i] \in Chunk
        BY <4>1, SequenceParts
      <4>3. ASSUME NEW i \in 1..Len(p.chunks) PROVE p.chunks[i].name <= p.chunks[i].input
        <5>1. ~(p.chunks[i].name > p.chunks[i].input)
          BY <1>2, <2>5, <4>2
        <5>2. p.chunks[i].name \in Nat /\ p.chunks[i].input \in Nat
          BY <4>2 DEF Chunk
        <5> QED
          BY <5>1, <5>2
      <4> QED
        BY <4>3 DEF NoneAbove
    <3> QED
      BY <2>2, <3>1, <3>2, <3>3 DEF PlanKeeps, OnDisk
  <2>6. ~upward' => RecordsKept'
    <3>1. Running'
      BY <2>1 DEF Running
    <3> QED
      BY <1>2, <2>1, <2>5, <3>1 DEF RecordsKept
  <2> QED
    BY <1>2, <2>1, <2>3, <2>4, <2>6 DEF ConsolidationInvariant
<1> QED
  BY <1>4, <1>5

\* A step within a pass that leaves the files, the append and the history alone.
LEMMA PassGoesOn ==
  ASSUME ConsolidationTypes, Running, pass' \in {"read", "write", "delete"}, outputs' \in Seq(Output),
         UNCHANGED <<segments, found, stored, appending, passes, plan, raced, upward>>
  PROVE  ConsolidationTypes' /\ Guarded' = Guarded /\ Running'
<1>1. Guarded' = Guarded /\ Running'
  BY DEF Guarded, Running
<1> QED
  BY <1>1 DEF ConsolidationTypes

LEMMA OrderIsRead ==
  ASSUME ConsolidationInvariant, ReadOrderBefore
  PROVE  ConsolidationInvariant'
<1>1. /\ pass = "planned" /\ pass' = "read" /\ ConsolidationTypes /\ Running
      /\ UNCHANGED <<segments, found, stored, appending, passes, plan, outputs, raced, upward>>
  BY DEF ReadOrderBefore, ConsolidationInvariant, Running
<1>2. ConsolidationTypes' /\ Guarded' = Guarded /\ Running'
  <2>1. outputs' \in Seq(Output)
    BY <1>1 DEF ConsolidationTypes
  <2> QED
    BY <1>1, <2>1, PassGoesOn
<1>3. ~upward' => RecordsKept'
  BY <1>1, <1>2 DEF ConsolidationInvariant, RecordsKept
<1> QED
  BY <1>1, <1>2, <1>3 DEF ConsolidationInvariant

LEMMA InputsAreRead ==
  ASSUME ConsolidationInvariant, ReadInputs
  PROVE  ConsolidationInvariant'
<1>1. /\ pass = "read" /\ pass' = "write" /\ ConsolidationTypes /\ Running
      /\ outputs' = Outputs(plan, segments) /\ PlanFits(plan, segments) /\ Partitioned(segments)
      /\ UNCHANGED <<segments, found, stored, appending, passes, plan, raced, upward>>
  BY DEF ReadInputs, ConsolidationInvariant, ConsolidationTypes, Running
<1>2. Feasible(plan, segments) /\ NamesApart(outputs', plan.removed)
  BY <1>1 DEF PlanFits
<1>3. outputs' \in Seq(Output)
  <2>1. FromPlan(outputs', plan, segments)
    BY <1>1, <1>2, OutputsAre
  <2> QED
    BY <2>1 DEF FromPlan
<1>4. ConsolidationTypes' /\ Guarded' = Guarded /\ Running'
  BY <1>1, <1>3, PassGoesOn
<1>5. ASSUME ~upward' PROVE Held(segments, outputs', plan.removed, Guarded)
  <2>1. PlanKeeps(plan, segments, Guarded)
    BY <1>1, <1>5 DEF ConsolidationInvariant, RecordsKept
  <2>2. ASSUME NEW r \in Guarded
        PROVE  \E n \in DOMAIN segments : Home(segments, outputs', plan.removed, n, r)
    <3>1. PICK n \in DOMAIN segments : r \in Range(segments[n]) /\ Placed(plan, segments, n, r)
      BY <2>1 DEF PlanKeeps
    <3>2. Home(segments, Outputs(plan, segments), plan.removed, n, r)
      BY <1>1, <1>2, <3>1, PlacedHasHome
    <3> QED
      BY <1>1, <3>2
  <2> QED
    BY <2>2 DEF Held
<1>6. ~upward' => RecordsKept'
  BY <1>1, <1>4, <1>5 DEF RecordsKept
<1> QED
  BY <1>1, <1>2, <1>4, <1>6 DEF ConsolidationInvariant

LEMMA SegmentIsWritten ==
  ASSUME ConsolidationInvariant, WriteSegment
  PROVE  ConsolidationInvariant'
<1> DEFINE o == Head(outputs)
           rest == Tail(outputs)
<1>1. /\ pass = "write" /\ ConsolidationTypes /\ Running /\ outputs # <<>> /\ outputs' = rest
      /\ segments' = WriteFile(segments, o.name, o.lines)
      /\ NamesApart(outputs, plan.removed)
      /\ UNCHANGED <<found, stored, appending, pass, passes, plan, raced, upward>>
  BY DEF WriteSegment, ConsolidationInvariant, Running
<1>2. outputs \in Seq(Output)
  BY <1>1 DEF ConsolidationTypes
<1>3. /\ Len(outputs) \in Nat /\ 1 \in 1..Len(outputs) /\ o = outputs[1]
      /\ rest \in Seq(Output) /\ Len(rest) = Len(outputs) - 1
      /\ \A k \in 1..Len(rest) : rest[k] = outputs[k + 1] /\ k + 1 \in 1..Len(outputs) /\ k + 1 # 1
      /\ \A k \in 1..Len(outputs) : k # 1 => k - 1 \in 1..Len(rest) /\ outputs[k] = rest[k - 1]
  <2>1. Len(outputs) \in Nat /\ Len(outputs) # 0
    BY <1>1, <1>2
  <2>2. o = outputs[1] /\ rest \in Seq(Output) /\ Len(rest) = Len(outputs) - 1
    BY <1>1, <1>2
  <2>3. \A k \in 1..Len(outputs) - 1 : rest[k] = outputs[k + 1]
    BY <1>1, <1>2
  <2> HIDE DEF o, rest
  <2>4. \A k \in 1..Len(rest) : rest[k] = outputs[k + 1] /\ k + 1 \in 1..Len(outputs) /\ k + 1 # 1
    BY <2>1, <2>2, <2>3
  <2>5. \A k \in 1..Len(outputs) : k # 1 => k - 1 \in 1..Len(rest) /\ outputs[k] = rest[k - 1]
    <3>1. TAKE k \in 1..Len(outputs)
    <3>2. HAVE k # 1
    <3>3. k - 1 \in 1..Len(rest) /\ k = (k - 1) + 1
      BY <2>1, <2>2, <3>2
    <3> QED
      BY <2>4, <3>3
  <2> QED
    BY <2>1, <2>2, <2>4, <2>5
<1>4. o \in Output /\ o.name \in Nat /\ o.lines \in Seq(Nat)
  <2>1. outputs[1] \in Output
    BY <1>2, <1>3, SequenceParts
  <2> QED
    BY <1>3, <2>1 DEF Output
<1> HIDE DEF o, rest
<1>5. /\ DOMAIN segments' = DOMAIN segments \cup {o.name} /\ segments'[o.name] = o.lines
      /\ \A m \in DOMAIN segments : m # o.name => segments'[m] = segments[m]
  BY <1>1 DEF WriteFile
<1>6. ConsolidationTypes'
  <2>1. Partitioned(segments)
    BY <1>1 DEF ConsolidationTypes
  <2>2. IsFiniteSet(DOMAIN segments \cup {o.name})
    BY <2>1, FS_AddElement DEF Partitioned
  <2>3. Partitioned(segments')
    BY <1>4, <1>5, <2>1, <2>2 DEF Partitioned
  <2> QED
    BY <1>1, <1>3, <2>3 DEF ConsolidationTypes, Running
<1>7. NamesApart(rest, plan.removed)
  <2>1. \A i, j \in 1..Len(outputs) : outputs[i].name = outputs[j].name => i = j
    BY <1>1 DEF NamesApart
  <2>2. \A i, j \in 1..Len(rest) : rest[i].name = rest[j].name => i = j
    <3>1. SUFFICES ASSUME NEW i \in 1..Len(rest), NEW j \in 1..Len(rest), rest[i].name = rest[j].name
                   PROVE  i = j
      OBVIOUS
    <3>2. i + 1 = j + 1
      BY <1>3, <2>1, <3>1
    <3> QED
      BY <3>2
  <2>3. \A i \in 1..Len(rest) : rest[i].name \notin plan.removed
    BY <1>1, <1>3 DEF NamesApart
  <2> QED
    BY <2>2, <2>3 DEF NamesApart
<1>8. o.name \notin plan.removed /\ \A k \in 1..Len(rest) : rest[k].name # o.name
  <2>1. o.name \notin plan.removed
    BY <1>1, <1>3 DEF NamesApart
  <2>2. \A k \in 1..Len(rest) : rest[k].name # o.name
    BY <1>1, <1>3 DEF NamesApart
  <2> QED
    BY <2>1, <2>2
<1>9. ASSUME ~upward PROVE Held(segments', rest, plan.removed, Guarded)
  <2>1. Held(segments, outputs, plan.removed, Guarded)
    BY <1>1, <1>9 DEF ConsolidationInvariant, RecordsKept
  <2>2. SUFFICES ASSUME NEW r \in Guarded
                 PROVE  \E n \in DOMAIN segments' : Home(segments', rest, plan.removed, n, r)
    BY DEF Held
  <2>3. PICK n \in DOMAIN segments : Home(segments, outputs, plan.removed, n, r)
    BY <2>1 DEF Held
  <2>4. CASE r \in Range(o.lines)
    <3>1. Home(segments', rest, plan.removed, o.name, r)
      BY <1>5, <1>8, <2>4 DEF Home
    <3> QED
      BY <1>5, <3>1
  <2>5. CASE r \notin Range(o.lines)
    <3>1. \A j \in 1..Len(outputs) : r \in Range(outputs[j].lines) => j # 1
      BY <1>3, <2>5
    <3>2. n # o.name
      <4>1. SUFFICES ASSUME o.name = n PROVE FALSE
        OBVIOUS
      <4>2. PICK j \in 1..1 : r \in Range(outputs[j].lines)
        BY <1>3, <2>3, <4>1 DEF Home
      <4> QED
        BY <1>3, <3>1, <4>2
    <3>3. ASSUME NEW k \in 1..Len(rest), rest[k].name = n
          PROVE  \E j \in 1..k : r \in Range(rest[j].lines)
      <4>1. PICK j \in 1..k + 1 : r \in Range(outputs[j].lines)
        BY <1>3, <2>3, <3>3 DEF Home
      <4>2. k + 1 \in 1..Len(outputs)
        BY <1>3
      <4>3. j \in 1..Len(outputs)
        BY <1>3, <4>2
      <4>4. j # 1 /\ outputs[j] = rest[j - 1]
        BY <1>3, <3>1, <4>1, <4>3
      <4>5. j - 1 \in 1..k
        BY <1>3, <4>4
      <4> QED
        BY <4>1, <4>4, <4>5
    <3>4. n \in plan.removed => \E j \in 1..Len(rest) : r \in Range(rest[j].lines)
      <4>1. HAVE n \in plan.removed
      <4>2. PICK j \in 1..Len(outputs) : r \in Range(outputs[j].lines)
        BY <2>3, <4>1 DEF Home
      <4> QED
        BY <1>3, <3>1, <4>2
    <3>5. Home(segments', rest, plan.removed, n, r)
      BY <1>5, <2>3, <3>2, <3>3, <3>4 DEF Home
    <3> QED
      BY <1>5, <3>5
  <2> QED
    BY <2>4, <2>5
<1>10. ~upward' => RecordsKept'
  <2>1. Guarded' = Guarded /\ Running'
    BY <1>1 DEF Guarded, Running
  <2> QED
    BY <1>1, <1>9, <2>1 DEF RecordsKept
<1> QED
  BY <1>1, <1>6, <1>7, <1>10 DEF ConsolidationInvariant

LEMMA CountIsChecked ==
  ASSUME ConsolidationInvariant, CheckBeforeDelete
  PROVE  ConsolidationInvariant'
<1>1. /\ pass = "write" /\ pass' \in {"delete", "failed"} /\ ConsolidationTypes /\ Running
      /\ outputs = <<>>
      /\ UNCHANGED <<segments, found, stored, appending, passes, plan, outputs, raced, upward>>
  BY DEF CheckBeforeDelete, ConsolidationInvariant, Running
<1>2. outputs' \in Seq(Output) /\ passes' \in 0..MaxPasses /\ raced' \in BOOLEAN /\ upward' \in BOOLEAN
  BY <1>1 DEF ConsolidationTypes
<1>3. CASE pass' = "failed"
  BY <1>1, <1>2, <1>3, StopsSafely
<1>4. CASE pass' = "delete"
  <2>1. ConsolidationTypes' /\ Guarded' = Guarded /\ Running'
    BY <1>1, <1>2, <1>4, PassGoesOn
  <2>2. ~upward' => RecordsKept'
    BY <1>1, <1>4, <2>1 DEF ConsolidationInvariant, RecordsKept
  <2> QED
    BY <1>4, <2>1, <2>2 DEF ConsolidationInvariant
<1> QED
  BY <1>1, <1>3, <1>4

LEMMA InputIsDeleted ==
  ASSUME ConsolidationInvariant, DeleteInput
  PROVE  ConsolidationInvariant'
<1>1. /\ pass = "delete" /\ ConsolidationTypes /\ Running
      /\ UNCHANGED <<found, stored, appending, pass, passes, plan, outputs, raced, upward>>
  BY DEF DeleteInput, ConsolidationInvariant, consolidator, Running
<1>2. PICK n \in plan.removed \cap DOMAIN segments :
        segments' = [m \in DOMAIN segments \ {n} |-> segments[m]]
  BY DEF DeleteInput
<1>3. /\ DOMAIN segments' = DOMAIN segments \ {n}
      /\ \A m \in DOMAIN segments : m # n => m \in DOMAIN segments' /\ segments'[m] = segments[m]
  BY <1>2
<1>4. Partitioned(segments')
  <2>1. Partitioned(segments)
    BY <1>1 DEF ConsolidationTypes
  <2>2. IsFiniteSet(DOMAIN segments \ {n})
    BY <2>1, FS_RemoveElement DEF Partitioned
  <2> QED
    BY <1>3, <2>1, <2>2 DEF Partitioned
<1>5. ConsolidationTypes' /\ Guarded' = Guarded /\ Running'
  <2>1. Guarded' = Guarded /\ Running' = Running
    BY <1>1 DEF Guarded, Running
  <2> QED
    BY <1>1, <1>4, <2>1 DEF ConsolidationTypes
<1>6. ASSUME ~upward PROVE Held(segments', <<>>, plan.removed, Guarded)
  <2>1. Held(segments, <<>>, plan.removed, Guarded)
    BY <1>1, <1>6 DEF ConsolidationInvariant, RecordsKept
  <2>2. SUFFICES ASSUME NEW r \in Guarded
                 PROVE  \E m \in DOMAIN segments' : Home(segments', <<>>, plan.removed, m, r)
    BY DEF Held
  <2>3. PICK m \in DOMAIN segments : Home(segments, <<>>, plan.removed, m, r)
    BY <2>1 DEF Held
  <2>4. m \notin plan.removed
    <3>1. \A j : j \notin 1..Len(<<>>)
      OBVIOUS
    <3> QED
      BY <2>3, <3>1 DEF Home
  <2>5. m # n
    BY <1>2, <2>4
  <2>6. Home(segments', <<>>, plan.removed, m, r)
    BY <1>3, <2>3, <2>5 DEF Home
  <2> QED
    BY <1>3, <2>5, <2>6
<1>7. ~upward' => RecordsKept'
  BY <1>1, <1>5, <1>6 DEF RecordsKept
<1> QED
  BY <1>1, <1>5, <1>7 DEF ConsolidationInvariant

\* Each step keeps the invariant.
LEMMA ConsolidationStep ==
  ASSUME ConsolidationInvariant, [ConsolidationNext]_consolidationVars
  PROVE  ConsolidationInvariant'
<1>1. CASE ResolveTarget
  BY <1>1, TargetIsResolved
<1>2. CASE AppendLine
  BY <1>2, LineIsAppended
<1>3. CASE planSegmentConsolidation
  BY <1>3, PlanIsMade
<1>4. CASE ReadOrderBefore
  BY <1>4, OrderIsRead
<1>5. CASE ReadInputs
  BY <1>5, InputsAreRead
<1>6. CASE WriteSegment
  BY <1>6, SegmentIsWritten
<1>7. CASE CheckBeforeDelete
  BY <1>7, CountIsChecked
<1>8. CASE DeleteInput
  BY <1>8, InputIsDeleted
<1>9. CASE CheckAfter
  <2>1. /\ pass' \in {"done", "failed"}
        /\ UNCHANGED <<segments, found, stored, appending, passes, plan, outputs, raced, upward>>
    BY <1>9 DEF CheckAfter
  <2>2. outputs' \in Seq(Output) /\ passes' \in 0..MaxPasses /\ raced' \in BOOLEAN /\ upward' \in BOOLEAN
    BY <2>1 DEF ConsolidationInvariant, ConsolidationTypes
  <2> QED
    BY <2>1, <2>2, StopsSafely
<1>10. CASE KillPass
  <2>1. /\ pass' = "killed" /\ outputs' = <<>>
        /\ UNCHANGED <<segments, found, stored, appending, passes, raced, upward>>
    BY <1>10 DEF KillPass
  <2>2. outputs' \in Seq(Output) /\ passes' \in 0..MaxPasses /\ raced' \in BOOLEAN /\ upward' \in BOOLEAN
    BY <2>1 DEF ConsolidationInvariant, ConsolidationTypes
  <2> QED
    BY <2>1, <2>2, StopsSafely
<1>11. CASE UNCHANGED consolidationVars
  <2>1. UNCHANGED <<segments, found, stored, appending, pass, passes, plan, outputs, raced, upward>>
    BY <1>11 DEF consolidationVars, consolidator
  <2>2. Guarded' = Guarded /\ Running' = Running /\ OnDisk' = OnDisk
    BY <2>1 DEF Guarded, Running, OnDisk
  <2>3. ConsolidationTypes' <=> ConsolidationTypes
    BY <2>1, <2>2 DEF ConsolidationTypes
  <2>4. RecordsKept => RecordsKept'
    BY <2>1, <2>2, KeptLess
  <2> QED
    BY <2>1, <2>3, <2>4 DEF ConsolidationInvariant
<1> QED
  BY <1>1, <1>2, <1>3, <1>4, <1>5, <1>6, <1>7, <1>8, <1>9, <1>10, <1>11 DEF ConsolidationNext

\* The invariant holds of every consolidation of every partition.
THEOREM ConsolidationInvariantHolds == ConsolidationSpec => []ConsolidationInvariant
<1>1. ConsolidationInit => ConsolidationInvariant
  BY AtFirst
<1>2. ConsolidationInvariant /\ [ConsolidationNext]_consolidationVars => ConsolidationInvariant'
  BY ConsolidationStep
<1> QED
  BY <1>1, <1>2, PTL DEF ConsolidationSpec

\* A consolidation (executeSegmentConsolidation) killed at any step loses no
\* acknowledged record, unless a split took names above its input's; a race with
\* the server may lose what it appended, no more.
THEOREM KilledPassKeeps == ConsolidationSpec => []KilledPassKeepsRecords
<1>1. ConsolidationInvariant => KilledPassKeepsRecords
  <2>1. SUFFICES ASSUME ConsolidationInvariant PROVE KilledPassKeepsRecords
    OBVIOUS
  <2>2. ConsolidationTypeOK
    BY <2>1 DEF ConsolidationInvariant, ConsolidationTypes, ConsolidationTypeOK, Partitioned
  <2>3. ~upward => Guarded \subseteq OnDisk
    BY <2>1, KeptOnDisk DEF ConsolidationInvariant
  <2> QED
    BY <2>2, <2>3 DEF KilledPassKeepsRecords, Guarded
<1> QED
  BY <1>1, ConsolidationInvariantHolds, PTL

================================================================================
