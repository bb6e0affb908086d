------------------------------- MODULE S3Sync -------------------------------
(***************************************************************************)
(* Push and pull of one namespace against a bucket (src/s3/sync.ts).       *)
(*                                                                         *)
(* A body is a version, made by WriteLocal; every body has the same        *)
(* length.  Its sha256 is the body itself.  The ETag of an object is the   *)
(* md5 of its body (<<"md5", body>>) or, in a bucket that answers with     *)
(* multipart ETags, a token that is new at every PUT (<<"part", n>>).      *)
(* Times are kept as what they are compared with: touched[h] are the files *)
(* with an mtime behind lastSyncAt, unconfirmed[h] those behind lastPushAt. *)
(***************************************************************************)
EXTENDS Integers, FiniteSets, TLC

CONSTANTS
  SyncHost,   \* machines with a copy of the namespace
  Origin,     \* those with a writer
  SyncCall,   \* processes in syncNamespace at the same time
  SyncFile,
  NoRecord,   \* no manifest, no ledger, nobody
  MaxVersion, \* local writes
  MaxSyncs,   \* calls started
  MaxMishaps  \* refused or lost requests, deadlines, kills, broken locks

ASSUME S3SyncAssumption ==
  /\ Origin \subseteq SyncHost
  /\ NoRecord \notin SyncHost
  /\ {MaxVersion, MaxSyncs, MaxMishaps} \subseteq Nat

VARIABLES
  tags,        \* "md5" or "part": the ETags of this bucket
  tree,        \* local bytes
  bucket,      \* objects
  checksums,   \* the published ledger: file -> sha256
  manifest,    \* .s3state/<ns>.json: file -> [sha, tag]
  touched, unconfirmed,
  everPushed,  \* hosts with a lastPushAt
  syncLock,    \* .s3state/.lock
  sync,        \* the call in each process
  version, syncs, mishaps, tokens,
  mirrored,    \* history: bodies the bucket has held
  racedBodies, \* history: bodies written while a call of their host ran
  unsent,      \* history: local bodies of files a call failed to transfer
  blessed,     \* history: bodies in no object that a pull put in its manifest
  overwritten, \* history: bodies a pull wrote over and no PUT had stored
  astray,      \* history: files transferred with no manifest of the same call alone behind
  unproved,    \* history: files a pull restored and no ledger it had named
  rotten,      \* history: files changed in the bucket by nobody's push
  unsettled    \* history: a push since the last one that ended clean alone

s3SyncVars == <<tags, tree, bucket, checksums, manifest, touched, unconfirmed, everPushed,
                syncLock, sync, version, syncs, mishaps, tokens, mirrored, racedBodies, unsent,
                blessed, overwritten, astray, unproved, rotten, unsettled>>

NoBody == 0
Rot == -1
NoTag == <<"none", 0>>
NoObject == [body |-> NoBody, tag |-> NoTag]
Dead == "dead"      \* a lock file whose process is gone
NoSync == [host |-> NoRecord, dir |-> "none", step |-> "idle", has |-> {}, walked |-> {},
           newer |-> {}, base |-> NoRecord, listed |-> <<>>, names |-> NoRecord, seen |-> <<>>,
           left |-> {}, synced |-> <<>>, failed |-> {}, repaired |-> {}, aborted |-> FALSE,
           alone |-> TRUE]

S3SyncInit ==
  /\ tags \in {"md5", "part"}
  /\ tree = [h \in SyncHost |-> [f \in SyncFile |-> NoBody]]
  /\ bucket = [f \in SyncFile |-> NoObject]
  /\ checksums = NoRecord
  /\ manifest = [h \in SyncHost |-> NoRecord]
  /\ touched = [h \in SyncHost |-> {}] /\ unconfirmed = [h \in SyncHost |-> {}]
  /\ everPushed = {}
  /\ syncLock = [h \in SyncHost |-> NoRecord]
  /\ sync = [c \in SyncCall |-> NoSync]
  /\ version = 0 /\ syncs = 0 /\ mishaps = 0 /\ tokens = 0
  /\ mirrored = {} /\ racedBodies = {} /\ unsent = {} /\ blessed = {} /\ overwritten = {}
  /\ astray = {} /\ unproved = {} /\ rotten = {} /\ unsettled = FALSE

-----------------------------------------------------------------------------

Files(record) == IF record = NoRecord THEN {} ELSE DOMAIN record
Recorded(record, f) == IF f \in Files(record) THEN record[f].tag ELSE NoTag
walkLocal(h) == {f \in SyncFile : tree[h][f] # NoBody}
CallsOf(h) == {c \in SyncCall : sync[c].host = h}
Pushing(c) == sync[c].dir = "push"

\* The ETag of the n-th PUT.
ETag(body, n) == IF tags = "md5" THEN <<"md5", body>> ELSE <<"part", n>>

\* remoteIdentity: an md5 decides; a token must be the recorded one, with the
\* recorded sha256 still that of the local bytes.
SameObject(body, f, base, tag) ==
  IF tag[1] = "md5" THEN tag[2] = body
  ELSE tag # NoTag /\ Recorded(base, f) = tag /\ base[f].sha = body

\* Mutant: a matching ETag is looked at before the ledger.
AcceptedByETag(body, f, c) ==
  \/ c.listed[f][1] = "md5" /\ c.listed[f][2] = body
  \/ f \in Files(c.names) /\ c.names[f] = body

\* verifyDownloadedObject, strongest evidence first; with none the bytes are
\* accepted and counted as unverified.
Accepted(body, f, c) ==
  IF f \in Files(c.names) THEN c.names[f] = body
  ELSE IF c.listed[f][1] = "md5" THEN c.listed[f][2] = body
  ELSE Recorded(c.base, f) = c.listed[f] => c.base[f].sha = body

-----------------------------------------------------------------------------
(* The namespace and the bucket                                            *)

\* A flush of the namespace writer on the host.
WriteLocal(h, f) ==
  /\ version < MaxVersion
  /\ version' = version + 1
  /\ tree' = [tree EXCEPT ![h][f] = version']
  /\ touched' = [touched EXCEPT ![h] = @ \cup {f}]
  /\ unconfirmed' = [unconfirmed EXCEPT ![h] = @ \cup {f}]
  /\ racedBodies' = IF CallsOf(h) = {} THEN racedBodies ELSE racedBodies \cup {version'}
  /\ UNCHANGED <<tags, bucket, checksums, manifest, everPushed, syncLock, sync, syncs, mishaps,
                 tokens, mirrored, unsent, overwritten, astray, unproved, blessed, rotten,
                 unsettled>>

\* An object is rewritten or deleted by something else.
DamageObject(f, body) ==
  /\ mishaps < MaxMishaps /\ mishaps' = mishaps + 1
  /\ bucket[f].body \notin {NoBody, body}
  /\ bucket' = [bucket EXCEPT ![f] = IF body = NoBody THEN NoObject
                                     ELSE [body |-> body, tag |-> ETag(body, tokens + 1)]]
  /\ tokens' = IF tags = "part" /\ body # NoBody THEN tokens + 1 ELSE tokens
  /\ rotten' = rotten \cup {f}
  /\ UNCHANGED <<tags, tree, checksums, manifest, touched, unconfirmed, everPushed, syncLock,
                 sync, version, syncs, mirrored, racedBodies, unsent, overwritten, astray,
                 unproved, blessed, unsettled>>

-----------------------------------------------------------------------------
(* A call                                                                  *)

Mishap(happens) ==
  /\ happens => mishaps < MaxMishaps
  /\ mishaps' = IF happens THEN mishaps + 1 ELSE mishaps

\* A free lock, the lock of a dead process and, after ten minutes, that of a
\* living one.
acquireLock(c, h) ==
  /\ Mishap(syncLock[h] \notin {NoRecord, Dead})
  /\ syncLock' = [syncLock EXCEPT ![h] = c]

\* What was transferred and is in no saved manifest.
Unsaved(s) ==
  IF s.step # "transfer" THEN {}
  ELSE IF s.dir = "push"
    THEN {f \in Files(s.synced) : f \notin Files(s.base) \/ s.synced[f] # s.base[f]}
    ELSE s.repaired

\* Another call runs on the host, or two of them push.
Meets(d, h, dir) == sync[d].host = h \/ (dir = "push" /\ Pushing(d))

\* The walk and loadManifest follow the lock at once.
StartSync(c, h, dir) ==
  LET started == [NoSync EXCEPT !.host = h, !.dir = dir, !.step = "reading",
                    !.walked = walkLocal(h), !.newer = touched[h], !.base = manifest[h],
                    !.alone = \A e \in SyncCall : ~Meets(e, h, dir)]
  IN /\ sync[c].step = "idle"
     /\ syncs < MaxSyncs /\ syncs' = syncs + 1
     /\ dir = "push" => walkLocal(h) # {}
     /\ acquireLock(c, h)
     /\ sync' = [d \in SyncCall |->
                   IF d = c THEN started
                   ELSE [sync[d] EXCEPT !.alone = @ /\ ~Meets(d, h, dir)]]
     /\ astray' = astray \cup UNION {Unsaved(sync[d]) : d \in CallsOf(h)}
     /\ unsettled' = (unsettled \/ dir = "push")
     /\ UNCHANGED <<tags, tree, bucket, checksums, manifest, touched, unconfirmed, everPushed,
                    version, tokens, mirrored, racedBodies, unsent, overwritten, unproved,
                    blessed, rotten>>

quiet == <<tags, tree, bucket, checksums, manifest, touched, unconfirmed, everPushed, syncLock,
           version, syncs, mishaps, tokens, mirrored, racedBodies, unsent, overwritten, astray,
           unproved, blessed, rotten, unsettled>>

\* The listing of a push, and at once computeDeltas over the bytes read now.
PlanPush(c) ==
  LET s == sync[c]
      seen == [f \in s.walked |-> tree[sync[c].host][f]]
      same == {f \in s.walked : SameObject(seen[f], f, s.base, bucket[f].tag)}
  IN /\ s.step = "reading" /\ Pushing(c)
     /\ sync' = [sync EXCEPT ![c] = [s EXCEPT !.step = "transfer", !.seen = seen,
                   !.left = s.walked \ same,
                   !.synced = [f \in same \cap Files(s.base) |-> s.base[f]]]]
     /\ UNCHANGED quiet

\* A pull asks for the listing and the ledger at once; either comes first.  A
\* ledger that is missing or cannot be read is no ledger.
FetchListing(c) ==
  /\ sync[c].step = "reading" /\ ~Pushing(c) /\ "listing" \notin sync[c].has
  /\ sync' = [sync EXCEPT ![c].has = @ \cup {"listing"},
                          ![c].listed = [f \in SyncFile |-> bucket[f].tag]]
  /\ UNCHANGED quiet

FetchLedger(c, readable) ==
  /\ sync[c].step = "reading" /\ ~Pushing(c) /\ "ledger" \notin sync[c].has
  /\ Mishap(~readable)
  /\ sync' = [sync EXCEPT ![c].has = @ \cup {"ledger"},
                          ![c].names = IF readable THEN checksums ELSE NoRecord]
  /\ UNCHANGED <<tags, tree, bucket, checksums, manifest, touched, unconfirmed, everPushed,
                 syncLock, version, syncs, tokens, mirrored, racedBodies, unsent, blessed,
                 overwritten, astray, unproved, rotten, unsettled>>

\* Mutant: nothing is refused.
RefusesNothing(s) == FALSE

\* A tree that knows its last sync refuses to be restored when a file is newer
\* than it, or has no object.
Refuses(s) ==
  /\ s.base # NoRecord
  /\ s.newer # {} \/ \E f \in s.walked : s.listed[f] = NoTag

\* Mutant: a path of the ledger without an object is not looked for.
MissingIgnored(s) == {}

\* missingFromRemote
Missing(s) == {f \in Files(s.names) : s.listed[f] = NoTag}

\* computeDeltas of a pull, or the end of a refused one.
PlanPull(c) ==
  LET s == sync[c]
      h == sync[c].host
      same == {f \in s.walked : SameObject(tree[h][f], f, s.base, s.listed[f])}
  IN /\ s.step = "reading" /\ ~Pushing(c) /\ s.has = {"listing", "ledger"}
     /\ IF Refuses(s)
          THEN /\ sync' = [sync EXCEPT ![c] = NoSync]
               /\ syncLock' = [syncLock EXCEPT ![h] = NoRecord]
               /\ UNCHANGED unsent
          ELSE /\ sync' = [sync EXCEPT ![c] = [s EXCEPT !.step = "transfer",
                             !.left = {f \in SyncFile : s.listed[f] # NoTag} \ same,
                             !.failed = Missing(s)]]
               /\ unsent' = unsent \cup {tree[h][f] : f \in Missing(s)}
               /\ UNCHANGED syncLock
     /\ UNCHANGED <<tags, tree, bucket, checksums, manifest, touched, unconfirmed, everPushed,
                    version, syncs, mishaps, tokens, mirrored, racedBodies, overwritten,
                    astray, unproved, blessed, rotten, unsettled>>

-----------------------------------------------------------------------------
(* Transfers                                                               *)

Transferring(c, f) == sync[c].step = "transfer" /\ f \in sync[c].left

\* One PUT of the pool: recorded only once it is answered.  A failed one may
\* have been stored, and fails without a further mishap once the call is aborted.
PutObject(c, f, stored, answered) ==
  LET s == sync[c]
      body == s.seen[f]
      tag == ETag(body, tokens + 1)
      recorded == [g \in Files(s.synced) \cup {f} |->
                     IF g = f THEN [sha |-> body, tag |-> tag] ELSE s.synced[g]]
  IN /\ Transferring(c, f) /\ Pushing(c)
     /\ answered => stored /\ ~s.aborted
     /\ Mishap(~answered /\ ~s.aborted)
     /\ IF stored
          THEN /\ bucket' = [bucket EXCEPT ![f] = [body |-> body, tag |-> tag]]
               /\ tokens' = IF tags = "part" THEN tokens + 1 ELSE tokens
               /\ mirrored' = mirrored \cup {body}
          ELSE UNCHANGED <<bucket, tokens, mirrored>>
     /\ sync' = [sync EXCEPT ![c].left = @ \ {f},
                   ![c].synced = IF answered THEN recorded ELSE @,
                   ![c].failed = IF answered THEN @ ELSE @ \cup {f}]
     /\ unsent' = IF answered THEN unsent ELSE unsent \cup {body}
     /\ astray' = IF stored /\ ~(answered /\ s.alone) THEN astray \cup {f} ELSE astray
     /\ UNCHANGED <<tags, tree, checksums, manifest, touched, unconfirmed, everPushed, syncLock,
                    version, syncs, racedBodies, overwritten, rotten, blessed, unproved,
                    unsettled>>

\* One GET: verified before it is written over the local file.
GetObject(c, f, answered) ==
  LET s == sync[c]
      h == sync[c].host
      body == bucket[f].body
      old == tree[h][f]
  IN /\ Transferring(c, f) /\ ~Pushing(c)
     /\ answered => ~s.aborted /\ body # NoBody
     /\ Mishap(~answered /\ ~s.aborted /\ body # NoBody)
     /\ IF answered /\ Accepted(body, f, s)
          THEN /\ tree' = [tree EXCEPT ![h][f] = body]
               /\ astray' = IF s.alone THEN astray ELSE astray \cup {f}
               /\ unproved' = IF f \in Files(s.names) THEN unproved ELSE unproved \cup {f}
               /\ touched' = [touched EXCEPT ![h] = @ \cup {f}]
               /\ unconfirmed' = [unconfirmed EXCEPT ![h] = @ \cup {f}]
               /\ overwritten' = IF s.base = NoRecord \/ old \in mirrored \cup {NoBody, Rot}
                                   THEN overwritten ELSE overwritten \cup {old}
               /\ sync' = [sync EXCEPT ![c].left = @ \ {f}, ![c].repaired = @ \cup {f}]
               /\ UNCHANGED unsent
          ELSE /\ sync' = [sync EXCEPT ![c].left = @ \ {f}, ![c].failed = @ \cup {f}]
               /\ unsent' = unsent \cup {old}
               /\ UNCHANGED <<tree, touched, unconfirmed, overwritten, astray, unproved>>
     /\ UNCHANGED <<tags, bucket, checksums, manifest, everPushed, syncLock, version, syncs,
                    tokens, mirrored, racedBodies, blessed, rotten, unsettled>>

Transferred(c) == sync[c].step = "transfer" /\ sync[c].left = {}

\* Mutant: what the last manifest said of a file is kept when its PUT failed.
SavePushManifestKeepsOld(c) ==
  LET h == sync[c].host
      saved == sync[c].synced @@ IF sync[c].base = NoRecord THEN <<>> ELSE sync[c].base
  IN /\ Transferred(c) /\ Pushing(c)
     /\ manifest' = [manifest EXCEPT ![h] = saved]
     /\ touched' = [touched EXCEPT ![h] = {}]
     /\ sync' = [sync EXCEPT ![c].step = "publish", ![c].synced = saved]
     /\ UNCHANGED <<tags, tree, bucket, checksums, unconfirmed, everPushed, syncLock, version,
                    syncs, mishaps, tokens, mirrored, racedBodies, unsent, overwritten, astray,
                    unproved, blessed, rotten, unsettled>>

\* Mutant: the manifest has the hashes of the files as they are now.
SavePushManifestRehashes(c) ==
  LET h == sync[c].host
      saved == [f \in DOMAIN sync[c].synced |-> [sync[c].synced[f] EXCEPT !.sha = tree[h][f]]]
  IN /\ Transferred(c) /\ Pushing(c)
     /\ manifest' = [manifest EXCEPT ![h] = saved]
     /\ touched' = [touched EXCEPT ![h] = {}]
     /\ sync' = [sync EXCEPT ![c].step = "publish", ![c].synced = saved]
     /\ UNCHANGED <<tags, tree, bucket, checksums, unconfirmed, everPushed, syncLock, version,
                    syncs, mishaps, tokens, mirrored, racedBodies, unsent, overwritten, astray,
                    unproved, blessed, rotten, unsettled>>

\* The manifest of a push: what was uploaded and what was skipped.
SavePushManifest(c) ==
  LET h == sync[c].host
  IN /\ Transferred(c) /\ Pushing(c)
     /\ manifest' = [manifest EXCEPT ![h] = sync[c].synced]
     /\ touched' = [touched EXCEPT ![h] = {}]
     /\ sync' = [sync EXCEPT ![c].step = "publish"]
     /\ UNCHANGED <<tags, tree, bucket, checksums, unconfirmed, everPushed, syncLock, version,
                    syncs, mishaps, tokens, mirrored, racedBodies, unsent, overwritten, astray,
                    unproved, blessed, rotten, unsettled>>

\* releaseLock unlinks whatever lock is there; an aborted call has done so.
Release(c) ==
  syncLock' = IF sync[c].aborted THEN syncLock ELSE [syncLock EXCEPT ![sync[c].host] = NoRecord]

\* The ledger is PUT, then the push state is saved; only a clean pass moves
\* lastPushAt.
PublishLedger(c, stored, answered) ==
  LET s == sync[c]
      h == sync[c].host
      clean == answered /\ s.failed = {}
  IN /\ s.step = "publish"
     /\ answered => stored /\ ~s.aborted
     /\ Mishap(~answered /\ ~s.aborted)
     /\ checksums' = IF stored THEN [f \in DOMAIN s.synced |-> s.synced[f].sha] ELSE checksums
     /\ everPushed' = IF clean THEN everPushed \cup {h} ELSE everPushed
     /\ unconfirmed' = IF clean THEN [unconfirmed EXCEPT ![h] = {}] ELSE unconfirmed
     /\ unsettled' = ~(clean /\ s.alone)
     /\ sync' = [sync EXCEPT ![c] = NoSync]
     /\ Release(c)
     /\ UNCHANGED <<tags, tree, bucket, manifest, touched, version, syncs, tokens, mirrored,
                    racedBodies, unsent, overwritten, astray, unproved, blessed, rotten>>

\* The manifest of a pull: the bytes on disk now; what was rejected keeps its
\* old entry.
FinishPull(c) ==
  LET s == sync[c]
      h == sync[c].host
      kept == walkLocal(h) \ (s.failed \ Files(s.base))
      Entry(f) == IF f \in s.failed THEN s.base[f]
                  ELSE [sha |-> tree[h][f],
                        tag |-> IF f \in s.repaired THEN s.listed[f] ELSE Recorded(s.base, f)]
  IN /\ Transferred(c) /\ ~Pushing(c)
     /\ manifest' = [manifest EXCEPT ![h] = [f \in kept |-> Entry(f)]]
     /\ blessed' = blessed \cup ({tree[h][f] : f \in kept \ s.failed} \ (mirrored \cup {Rot}))
     /\ touched' = [touched EXCEPT ![h] = {}]
     /\ sync' = [sync EXCEPT ![c] = NoSync]
     /\ Release(c)
     /\ UNCHANGED <<tags, tree, bucket, checksums, unconfirmed, everPushed, version, syncs,
                    mishaps, tokens, mirrored, racedBodies, unsent, overwritten, astray,
                    unproved, rotten, unsettled>>

-----------------------------------------------------------------------------
(* The deadline and the kill                                               *)

\* NamespaceDeadline.fire: the requests in flight are aborted and the lock is
\* released; past its listing the call goes on to its end.
FireDeadline(c) ==
  /\ sync[c].step # "idle" /\ ~sync[c].aborted
  /\ mishaps < MaxMishaps /\ mishaps' = mishaps + 1
  /\ sync' = [sync EXCEPT ![c] = IF @.step = "reading" THEN NoSync ELSE [@ EXCEPT !.aborted = TRUE]]
  /\ Release(c)
  /\ UNCHANGED <<tags, tree, bucket, checksums, manifest, touched, unconfirmed, everPushed,
                 version, syncs, tokens, mirrored, racedBodies, unsent, overwritten, astray,
                 unproved, blessed, rotten, unsettled>>

KillSync(c) ==
  /\ sync[c].step # "idle"
  /\ mishaps < MaxMishaps /\ mishaps' = mishaps + 1
  /\ syncLock' = [syncLock EXCEPT ![sync[c].host] = IF @ = c THEN Dead ELSE @]
  /\ astray' = astray \cup Unsaved(sync[c])
  /\ sync' = [sync EXCEPT ![c] = NoSync]
  /\ UNCHANGED <<tags, tree, bucket, checksums, manifest, touched, unconfirmed, everPushed,
                 version, syncs, tokens, mirrored, racedBodies, unsent, overwritten, rotten,
                 blessed, unproved, unsettled>>

S3SyncNext ==
  \/ \E h \in Origin, f \in SyncFile : WriteLocal(h, f)
  \/ \E f \in SyncFile, b \in {Rot, NoBody} : DamageObject(f, b)
  \/ \E c \in SyncCall :
       \/ \E h \in SyncHost, dir \in {"push", "pull"} : StartSync(c, h, dir)
       \/ FetchListing(c)
       \/ \E readable \in BOOLEAN : FetchLedger(c, readable)
       \/ PlanPush(c) \/ PlanPull(c)
       \/ \E f \in SyncFile, stored, answered \in BOOLEAN : PutObject(c, f, stored, answered)
       \/ \E f \in SyncFile, answered \in BOOLEAN : GetObject(c, f, answered)
       \/ SavePushManifest(c) \/ FinishPull(c)
       \/ \E stored, answered \in BOOLEAN : PublishLedger(c, stored, answered)
       \/ FireDeadline(c) \/ KillSync(c)

-----------------------------------------------------------------------------
(* Properties                                                              *)

Body == {Rot} \cup 0..MaxVersion
Tag == {NoTag} \cup ({"md5"} \X Body) \cup ({"part"} \X Nat)
Entry == [sha : Body, tag : Tag]

\* An empty manifest or ledger is not a missing one.
ASSUME NoRecordAssumption ==
  \A F \in SUBSET SyncFile : NoRecord \notin [F -> Entry] \cup [F -> Body]

\* The variables have their types.
S3SyncTypeOK ==
  /\ tags \in {"md5", "part"}
  /\ tree \in [SyncHost -> [SyncFile -> Body]]
  /\ bucket \in [SyncFile -> [body : Body, tag : Tag]]
  /\ Files(checksums) \subseteq SyncFile
  /\ \A h \in SyncHost : Files(manifest[h]) \subseteq SyncFile
  /\ touched \in [SyncHost -> SUBSET SyncFile] /\ unconfirmed \in [SyncHost -> SUBSET SyncFile]
  /\ everPushed \subseteq SyncHost
  /\ syncLock \in [SyncHost -> SyncCall \cup {NoRecord, Dead}]
  /\ \A c \in SyncCall : /\ sync[c].step \in {"idle", "reading", "transfer", "publish"}
                         /\ Files(sync[c].synced) \cup sync[c].left \subseteq SyncFile
  /\ version \in 0..MaxVersion /\ syncs \in 0..MaxSyncs /\ mishaps \in 0..MaxMishaps
  /\ mirrored \cup racedBodies \cup unsent \cup blessed \cup overwritten \subseteq Body
  /\ astray \cup unproved \cup rotten \subseteq SyncFile
  /\ unsettled \in BOOLEAN

\* The ledger a clean push leaves behind has the sha256 of the objects it
\* describes, or a restore rejects good objects as corrupt.  Excused: a file
\* transferred by a call that saved no manifest for it or met another push, or
\* another call on its host (a later push skips it and publishes the old sha256),
\* bytes a pull took into its manifest next to the token of an older object, and
\* objects changed from outside.
LedgerDescribesObjects ==
  ~unsettled => \A f \in Files(checksums) \ (astray \cup rotten) :
                  checksums[f] \in {bucket[f].body} \cup blessed

\* Bytes that are in no object are not lost to a pull: it refuses first
\* (sync.ts, "a mirror OLDER than this tree is not a source").  Excused are bytes
\* written while a sync ran, those of a file that a sync failed to transfer, and
\* those that a pull without a manifest took into the manifest it saved.
PullLosesOnlyExcused == overwritten \subseteq racedBodies \cup unsent \cup blessed

\* The same without the last excuses: after a sync that failed to transfer
\* a file, the lastSyncAt it saved must not hide that file from the refusal.
PullLosesOnlyRaced == overwritten \subseteq racedBodies

\* Garbage that an outsider put in place of an object that the ledger names is
\* never restored: it has a consistent ETag, and the ledger comes first.  A pull
\* with no ledger that names the file may restore it, and whoever pushes it then
\* publishes its sha256.
NoRotBehindLedger ==
  /\ S3SyncTypeOK
  /\ \A h \in SyncHost, f \in SyncFile : tree[h][f] = Rot => f \in unproved

\* A pull that ends with no failure leaves every file its ledger names on disk,
\* with bytes that a push has stored, whatever objects are gone.  Excused are
\* bytes written since the pull began; garbage is the property above.
CleanPullIsComplete ==
  [][\A c \in SyncCall :
       LET s == sync[c]
       IN Transferred(c) /\ s.dir = "pull" /\ s.failed = {} /\ sync'[c] = NoSync
            => \A f \in Files(s.names) :
                 tree[sync[c].host][f] \in mirrored \cup racedBodies \cup {Rot}]_s3SyncVars

\* freshnessFromFiles: the files that a restore would lose.
Unpushed(h) ==
  {f \in walkLocal(h) :
     \/ f \in IF h \in everPushed THEN unconfirmed[h] ELSE touched[h]
     \/ manifest[h] # NoRecord /\ f \notin Files(manifest[h])
     \/ manifest[h] = NoRecord /\ h \notin everPushed}

\* While no sync runs, every local file whose bytes no object ever held is
\* among the files s3 status names as unpushed.  Excused are bytes written while
\* a sync ran, and those that a pull without a manifest took into it.
FreshnessNamesUnmirrored ==
  \A h \in SyncHost : CallsOf(h) = {} =>
    \A f \in walkLocal(h) \ Unpushed(h) :
      tree[h][f] \in mirrored \cup racedBodies \cup blessed \cup {Rot}

=============================================================================
