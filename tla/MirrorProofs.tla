---------------------------- MODULE MirrorProofs ----------------------------
(***************************************************************************)
(* What the namespaces and their mirror guarantee: the registry, whose     *)
(* deletions meet the pushes, and the sync with the bucket.  Each is a     *)
(* specification of its own.                                               *)
(***************************************************************************)
EXTENDS NamespaceRegistry, S3Sync, TLAPS

-----------------------------------------------------------------------------
(***************************************************************************)
(* The namespace registry, for any number of processes, namespaces and     *)
(* operations.  RegistryInvariant is inductive; RegisteredStays and        *)
(* DeletedIsNotPushed are two of its conjuncts.                            *)
(***************************************************************************)

\* The registry as a specification of its own.
RegistrySpec == RegistryInit /\ [][RegistryNext]_registryVars

\* The operations of registryVars, with the type of each field.
Op == [do : {"none", "create", "switch", "delete", "prune", "sweep"},
       name : NsName \cup {NoNs},
       step : {"idle", "init", "remove", "plan", "apply", "update", "fill", "rename", "unlink"},
       maps : [NsName -> Mapping] \cup {<<>>},
       setsMaps : BOOLEAN, setDefault : BOOLEAN,
       dead : SUBSET NsName, base : Nat,
       merged : Config \cup {NoFile}]

\* What an operation brings to updateConfig: names for what needs one, rows if
\* it sets rows, and a merged config once it has opened a temporary file.  The
\* namespace it registers has a row.
OpReady(op) ==
  /\ op.do \in {"create", "switch", "delete"} => op.name \in NsName
  /\ op.setDefault => op.do \in {"create", "switch"}
  /\ op.step \in {"update", "fill", "rename"} /\ ~op.setsMaps => op.setDefault
  /\ op.step = "init" => op.do = "create"
  /\ op.step = "remove" => op.do = "delete" /\ op.setsMaps
  /\ op.step \in {"plan", "apply"} => op.do = "prune"
  /\ op.step \in {"remove", "update"} /\ op.setsMaps => op.maps \in [NsName -> Mapping]
  /\ op.step \in {"fill", "rename"} => op.merged \in Config
  /\ op.step = "fill" => ~Guarded(op)
  /\ op.do \in {"create", "switch"} /\ op.setsMaps =>
       /\ op.step = "update" => op.maps[op.name] # "none"
       /\ op.step \in {"fill", "rename"} => op.merged.maps[op.name] # "none"

\* The operations are well formed.
OpsReady == admin \in [Admin -> Op] /\ \A p \in Admin : OpReady(admin[p])

\* What is registered has a directory, what is deleted has none.
DirectoriesTell == registered \subseteq dirs /\ deleted \cap dirs = {}

\* No stamp is from the future.
StampsArePast == \A p \in Admin : admin[p].base <= stamp

Kept == registered \ misread

\* The config has them: RegisteredStays without the types.
RowsKept == ~clobbered => \A n \in Kept : Mapped(n)

\* Rows with every namespace that must keep one.
Covers(maps) == \A n \in Kept : maps[n] # "none"

\* What an operation is about to write does not drop a registered namespace, if
\* the config has not changed since the operation read it.
WritesNoLoss(op) ==
  op.base = stamp =>
    /\ op.step = "remove" => \A n \in Kept \ {op.name} : op.maps[n] # "none"
    /\ op.step = "apply" => op.dead \cap registered = {}
    /\ op.step = "update" /\ op.setsMaps => Covers(op.maps)
    /\ op.step \in {"fill", "rename"} => Covers(op.merged.maps)

NothingLost == ~clobbered => \A p \in Admin : WritesNoLoss(admin[p])

\* The common temporary file has one writer, and once filled it is what that
\* writer merged.
TmpHasOneWriter ==
  ~clobbered =>
    \A p \in Admin : Writing(p) =>
      /\ \A q \in Admin : Writing(q) => q = p
      /\ admin[p].step = "rename" => tmp = admin[p].merged

\* A push of a namespace that is deleted or being deleted is known to have
\* slipped.
PushIsSeen ==
  /\ pushing \in deleted => pushing \in slipped
  /\ \A p \in Admin : admin[p].do = "delete" /\ admin[p].name = pushing => pushing \in slipped

\* The inductive invariant.
RegistryInvariant ==
  /\ OpsReady
  /\ DirectoriesTell
  /\ StampsArePast
  /\ NothingLost
  /\ TmpHasOneWriter
  /\ PushIsSeen
  /\ RegistryTypeOK
  /\ RowsKept
  /\ DeletedIsNotPushed

-------------------------------------------------------------------------------

\* A config that is read has a row for every namespace, a torn one reads as the
\* defaults.
LEMMA ConfigRead ==
  ASSUME RegistryTypeOK
  PROVE  /\ readFileConfig \in Config
         /\ readFileConfig.maps \in [NsName -> Mapping]
         /\ readFileConfig.default \in NsName \cup {DefaultNs}
         /\ \A names : Without(names) \in [NsName -> Mapping]
<1>1. Defaults \in Config
  BY DEF Defaults, Config, Mapping
<1>2. readFileConfig \in Config
  BY <1>1 DEF RegistryTypeOK, readFileConfig
<1>3. readFileConfig.maps \in [NsName -> Mapping]
      /\ readFileConfig.default \in NsName \cup {DefaultNs}
  BY <1>2 DEF Config
<1>4. \A names : Without(names) \in [NsName -> Mapping]
  BY <1>3 DEF Without, Mapping
<1> QED
  BY <1>2, <1>3, <1>4

\* An idle process has a well-formed operation.
LEMMA NoOpReady == NoOp \in Op /\ OpReady(NoOp)
<1>1. NoOp \in Op
  BY DEF NoOp, Op
<1>2. OpReady(NoOp)
  BY DEF NoOp, OpReady
<1> QED
  BY <1>1, <1>2

\* A step that gives one process a well-formed operation.
LEMMA OpBecomes ==
  ASSUME OpsReady, NEW p \in Admin, NEW op \in Op, OpReady(op), Becomes(p, op)
  PROVE  /\ OpsReady'
         /\ admin'[p] = op
         /\ \A q \in Admin : q # p => admin'[q] = admin[q]
<1>1. admin \in [Admin -> Op] /\ admin' = [admin EXCEPT ![p] = op]
  BY DEF OpsReady, Becomes
<1>2. admin' \in [Admin -> Op] /\ admin'[p] = op
      /\ \A q \in Admin : q # p => admin'[q] = admin[q]
  BY <1>1
<1>3. \A q \in Admin : OpReady(admin'[q])
  BY <1>2 DEF OpsReady
<1> QED
  BY <1>2, <1>3 DEF OpsReady

\* Every step leaves the operations well formed.
LEMMA OpsStep ==
  ASSUME RegistryTypeOK, OpsReady, DirectoriesTell, [RegistryNext]_registryVars
  PROVE  OpsReady'
<1>1. /\ readFileConfig \in Config
      /\ readFileConfig.maps \in [NsName -> Mapping]
      /\ readFileConfig.default \in NsName \cup {DefaultNs}
      /\ \A names : Without(names) \in [NsName -> Mapping]
      /\ \A n \in NsName : [readFileConfig.maps EXCEPT ![n] = "abs"] \in [NsName -> Mapping]
  BY ConfigRead DEF Mapping
<1>2. stamp \in Nat /\ dirs \subseteq NsName
  BY DEF RegistryTypeOK
<1>3. ASSUME UNCHANGED admin PROVE OpsReady'
  BY <1>3 DEF OpsReady
<1>4. ASSUME NEW p \in Admin, Becomes(p, NoOp) PROVE OpsReady'
  BY <1>4, NoOpReady, OpBecomes
<1>5. ASSUME NEW p \in Admin PROVE admin[p] \in Op /\ OpReady(admin[p])
  BY DEF OpsReady
<1>6. ASSUME NEW op \in Op, OpReady(op), NEW n \in NsName, op.do \in {"create", "switch"},
             op.name = n
      PROVE  Registering(op, n) \in Op /\ OpReady(Registering(op, n))
  <2>1. Registering(op, n) \in Op
    BY <1>1, <1>2 DEF Registering, Op
  <2>2. [readFileConfig.maps EXCEPT ![n] = "abs"][n] = "abs"
    BY <1>1
  <2> HIDE DEF Op
  <2>3. /\ Registering(op, n).do = op.do /\ Registering(op, n).name = n
        /\ Registering(op, n).step = "update" /\ Registering(op, n).setsMaps = TRUE
        /\ Registering(op, n).setDefault = op.setDefault
        /\ Registering(op, n).maps = [readFileConfig.maps EXCEPT ![n] = "abs"]
    <3> DEFINE rows == [readFileConfig.maps EXCEPT ![n] = "abs"]
    <3>1. Registering(op, n) = [op EXCEPT !.step = "update", !.setsMaps = TRUE, !.base = stamp,
                                          !.maps = rows]
      BY DEF Registering
    <3> HIDE DEF rows
    <3>2. /\ Registering(op, n).do = op.do /\ Registering(op, n).name = n
          /\ Registering(op, n).step = "update" /\ Registering(op, n).setsMaps = TRUE
          /\ Registering(op, n).setDefault = op.setDefault
          /\ Registering(op, n).maps = rows
      BY <1>6, <3>1 DEF Op
    <3> QED
      BY <3>2 DEF rows
  <2>4. OpReady(Registering(op, n))
    BY <1>6, <1>1, <2>2, <2>3 DEF OpReady
  <2> QED
    BY <2>1, <2>4
<1>7. ASSUME NEW p \in Admin, NEW n \in NsName, BeginCreate(p, n) PROVE OpsReady'
  <2>1. PICK d \in BOOLEAN :
          Becomes(p, [NoOp EXCEPT !.do = "create", !.name = n, !.step = "init", !.setDefault = d])
    BY <1>7 DEF BeginCreate
  <2> DEFINE op == [NoOp EXCEPT !.do = "create", !.name = n, !.step = "init", !.setDefault = d]
  <2>2. op \in Op
    BY NoOpReady DEF Op
  <2>3. OpReady(op)
    BY DEF NoOp, OpReady
  <2> QED
    BY <2>1, <2>2, <2>3, OpBecomes
<1>8. ASSUME NEW p \in Admin, NEW n \in NsName, BeginSwitch(p, n) PROVE OpsReady'
  <2> DEFINE op == [NoOp EXCEPT !.do = "switch", !.name = n, !.step = "update",
                                !.setDefault = TRUE]
  <2>1. op \in Op /\ op.do = "switch" /\ op.name = n
    BY NoOpReady DEF Op, NoOp
  <2>2. OpReady(op)
    BY DEF NoOp, OpReady
  <2>3. Becomes(p, op) \/ Becomes(p, Registering(op, n))
    BY <1>8 DEF BeginSwitch
  <2> HIDE DEF op
  <2>4. Registering(op, n) \in Op /\ OpReady(Registering(op, n))
    BY <2>1, <2>2, <1>6
  <2> QED
    BY <2>1, <2>2, <2>3, <2>4, OpBecomes
<1>9. ASSUME NEW p \in Admin, NEW n \in NsName, BeginDelete(p, n) PROVE OpsReady'
  <2> DEFINE op == [NoOp EXCEPT !.do = "delete", !.name = n, !.step = "remove",
                                !.setsMaps = TRUE, !.maps = Without({n}), !.base = stamp]
  <2>1. op \in Op
    BY NoOpReady, <1>1, <1>2 DEF Op
  <2>2. OpReady(op)
    BY <1>1 DEF NoOp, OpReady
  <2>3. Becomes(p, op)
    BY <1>9 DEF BeginDelete, Deleting
  <2> QED
    BY <2>1, <2>2, <2>3, OpBecomes
<1>10. ASSUME NEW p \in Admin, Register(p) PROVE OpsReady'
  <2>1. admin[p].do = "create" /\ admin[p].name \in NsName
    BY <1>5, <1>10 DEF Register, OpReady
  <2>2. /\ Registering(admin[p], admin[p].name) \in Op
        /\ OpReady(Registering(admin[p], admin[p].name))
    BY <2>1, <1>5, <1>6
  <2> QED
    BY <2>2, <1>10, OpBecomes DEF Register
<1>11. ASSUME NEW p \in Admin, RemoveDirectory(p) PROVE OpsReady'
  <2> DEFINE op == [admin[p] EXCEPT !.step = "update"]
  <2>1. Becomes(p, op) \/ Becomes(p, NoOp)
    BY <1>11 DEF RemoveDirectory
  <2>2. op \in Op
    BY <1>5 DEF Op
  <2>3. admin[p].step = "remove"
    BY <1>11 DEF RemoveDirectory
  <2>4. OpReady(op)
    BY <2>3, <1>5 DEF OpReady, Op
  <2> QED
    BY <2>1, <2>2, <2>4, <1>4, OpBecomes
<1>12. ASSUME NEW p \in Admin, BeginPrune(p) PROVE OpsReady'
  <2> DEFINE op == [NoOp EXCEPT !.do = "prune", !.step = "plan",
                                !.dead = {n \in NsName : Mapped(n)}]
  <2>1. op \in Op
    BY NoOpReady DEF Op
  <2>2. OpReady(op)
    BY DEF NoOp, OpReady
  <2> QED
    BY <2>1, <2>2, <1>12, OpBecomes DEF BeginPrune
<1>13. ASSUME NEW p \in Admin, PlanPrune(p) PROVE OpsReady'
  <2> DEFINE op == [admin[p] EXCEPT !.step = "apply", !.base = stamp, !.dead = @ \ dirs]
  <2>1. op \in Op
    BY <1>2, <1>5 DEF Op
  <2>2. admin[p].step = "plan"
    BY <1>13 DEF PlanPrune
  <2>3. OpReady(op)
    BY <2>2, <1>5 DEF OpReady, Op
  <2> QED
    BY <2>1, <2>3, <1>13, OpBecomes DEF PlanPrune
<1>14. ASSUME NEW p \in Admin, ApplyPrune(p) PROVE OpsReady'
  <2> DEFINE op == [admin[p] EXCEPT !.step = "update", !.setsMaps = TRUE,
                                    !.maps = Without(admin[p].dead)]
  <2>1. op \in Op
    BY <1>1, <1>5 DEF Op
  <2>2. admin[p].step = "apply" /\ (Becomes(p, op) \/ Becomes(p, NoOp))
    BY <1>14 DEF ApplyPrune
  <2>3. OpReady(op)
    BY <2>2, <1>1, <1>5 DEF OpReady, Op
  <2> QED
    BY <2>1, <2>2, <2>3, <1>4, OpBecomes
<1>15. ASSUME NEW p \in Admin, NEW elsewhere \in BOOLEAN, BeginSweep(p, elsewhere)
       PROVE  OpsReady'
  <2>1. PICK ghosts : \/ Becomes(p, NoOp)
                      \/ Becomes(p, [NoOp EXCEPT !.do = "sweep", !.step = "update",
                                                 !.setsMaps = TRUE, !.maps = Without(ghosts),
                                                 !.base = stamp])
    BY <1>15 DEF BeginSweep
  <2> DEFINE op == [NoOp EXCEPT !.do = "sweep", !.step = "update", !.setsMaps = TRUE,
                                !.maps = Without(ghosts), !.base = stamp]
  <2>2. op \in Op
    BY <1>1, <1>2, NoOpReady DEF Op
  <2>3. OpReady(op)
    BY <1>1 DEF NoOp, OpReady
  <2> QED
    BY <2>1, <2>2, <2>3, <1>4, OpBecomes
<1>16. ASSUME NEW p \in Admin, OpenTmp(p) PROVE OpsReady'
  <2> DEFINE op == [admin[p] EXCEPT !.step = IF Guarded(admin[p]) THEN "rename" ELSE "fill",
                                    !.merged = Merge(admin[p]),
                                    !.base = IF admin[p].setsMaps THEN @ ELSE stamp]
  <2>1. admin[p].step = "update" /\ (Becomes(p, op) \/ Becomes(p, NoOp))
    BY <1>16 DEF OpenTmp
  <2>2. admin[p] \in Op /\ OpReady(admin[p])
    BY <1>5
  <2>3. Merge(admin[p]) \in Config
    BY <1>1, <2>1, <2>2 DEF Merge, Config, OpReady, Op
  <2>4. op \in Op
    BY <1>2, <2>2, <2>3 DEF Op
  <2>5. Merge(admin[p]).maps = IF admin[p].setsMaps THEN admin[p].maps ELSE readFileConfig.maps
    BY DEF Merge
  <2>6. OpReady(op)
    BY <2>1, <2>2, <2>3, <2>5 DEF OpReady, Op, Guarded
  <2> QED
    BY <2>1, <2>4, <2>6, <1>4, OpBecomes
<1>17. ASSUME NEW p \in Admin, FillTmp(p) PROVE OpsReady'
  <2> DEFINE op == [admin[p] EXCEPT !.step = "rename"]
  <2>1. admin[p].step = "fill" /\ Becomes(p, op)
    BY <1>17 DEF FillTmp
  <2>2. op \in Op
    BY <1>5 DEF Op
  <2>3. OpReady(op)
    BY <2>1, <1>5 DEF OpReady, Op
  <2> QED
    BY <2>1, <2>2, <2>3, OpBecomes
<1>18. ASSUME NEW p \in Admin, Rename(p) PROVE OpsReady'
  <2> DEFINE again == [admin[p] EXCEPT !.step = "update", !.setsMaps = FALSE, !.merged = NoFile]
             last == [admin[p] EXCEPT !.step = "unlink"]
  <2>1. Becomes(p, NoOp) \/ Becomes(p, AfterUpdate(admin[p]))
    BY <1>18 DEF Rename
  <2>2. \/ AfterUpdate(admin[p]) = again /\ admin[p].setDefault
        \/ AfterUpdate(admin[p]) = last
        \/ AfterUpdate(admin[p]) = NoOp
    BY Zenon DEF AfterUpdate
  <2>3. again \in Op /\ last \in Op
    BY <1>5, ZenonT(60) DEF Op
  <2>4. OpReady(last)
    BY <1>5 DEF OpReady, Op
  <2>5. admin[p].setDefault => OpReady(again)
    BY <1>5 DEF OpReady, Op
  <2> HIDE DEF again, last
  <2> QED
    BY <2>1, <2>2, <2>3, <2>4, <2>5, <1>4, OpBecomes
<1>19. ASSUME NEW p \in Admin, UnlinkManifest(p) \/ KillAdmin(p) PROVE OpsReady'
  BY <1>4, <1>19 DEF UnlinkManifest, KillAdmin
<1>20. ASSUME \/ \E n \in NsName : StartPush(n)
              \/ AgePush \/ FinishPush \/ UNCHANGED registryVars
       PROVE  OpsReady'
  BY <1>3, <1>20 DEF StartPush, AgePush, FinishPush, registryVars
<1> QED
  BY <1>7, <1>8, <1>9, <1>10, <1>11, <1>12, <1>13, <1>14, <1>15, <1>16, <1>17, <1>18, <1>19,
     <1>20 DEF RegistryNext

\* Only a create brings a directory back, and only what has one is registered.
LEMMA DirectoriesStep ==
  ASSUME DirectoriesTell, [RegistryNext]_registryVars
  PROVE  DirectoriesTell'
<1>1. ASSUME UNCHANGED <<dirs, registered, deleted>> PROVE DirectoriesTell'
  BY <1>1 DEF DirectoriesTell
<1>2. ASSUME NEW p \in Admin, NEW n \in NsName, BeginCreate(p, n) PROVE DirectoriesTell'
  BY <1>2 DEF BeginCreate, DirectoriesTell
<1>3. ASSUME NEW p \in Admin, RemoveDirectory(p) PROVE DirectoriesTell'
  <2>1. \/ dirs' = dirs \ {admin[p].name} /\ registered' = registered \ {admin[p].name}
        \/ UNCHANGED <<dirs, registered>>
    BY <1>3 DEF RemoveDirectory
  <2>2. deleted' = deleted
    BY <1>3 DEF RemoveDirectory
  <2> QED
    BY <2>1, <2>2 DEF DirectoriesTell
<1>4. ASSUME NEW p \in Admin, Rename(p) PROVE DirectoriesTell'
  <2>1. UNCHANGED <<dirs, deleted>>
    BY <1>4 DEF Rename
  <2>2. \/ registered' = registered
        \/ registered' = IF /\ admin[p].do \in {"create", "switch"} /\ admin[p].setsMaps
                            /\ admin[p].name \in dirs
                           THEN registered \cup {admin[p].name} ELSE registered
    BY <1>4, Zenon DEF Rename
  <2> QED
    BY <2>1, <2>2 DEF DirectoriesTell
<1>5. ASSUME NEW p \in Admin, UnlinkManifest(p) PROVE DirectoriesTell'
  <2>1. PICK names : deleted' = deleted \cup (names \ dirs) \/ deleted' = deleted
    BY <1>5 DEF UnlinkManifest
  <2>2. UNCHANGED <<dirs, registered>>
    BY <1>5 DEF UnlinkManifest
  <2> QED
    BY <2>1, <2>2 DEF DirectoriesTell
<1>6. ASSUME NEW p \in Admin,
             \/ \E n \in NsName : BeginSwitch(p, n) \/ BeginDelete(p, n)
             \/ Register(p) \/ BeginPrune(p) \/ PlanPrune(p) \/ ApplyPrune(p)
             \/ \E elsewhere \in BOOLEAN : BeginSweep(p, elsewhere)
             \/ OpenTmp(p) \/ FillTmp(p) \/ KillAdmin(p)
      PROVE  DirectoriesTell'
  BY <1>1, <1>6 DEF BeginSwitch, BeginDelete, Deleting, Register, BeginPrune, PlanPrune, ApplyPrune,
     BeginSweep, OpenTmp, FillTmp, KillAdmin, files, history
<1>7. ASSUME \/ \E n \in NsName : StartPush(n)
             \/ AgePush \/ FinishPush \/ UNCHANGED registryVars
      PROVE  DirectoriesTell'
  BY <1>1, <1>7 DEF StartPush, AgePush, FinishPush, history, registryVars
<1> QED
  BY <1>2, <1>3, <1>4, <1>5, <1>6, <1>7 DEF RegistryNext

\* A step that changes the operation of one process.
LEMMA Becoming ==
  ASSUME admin \in [Admin -> Op], NEW p \in Admin, NEW op, Becomes(p, op)
  PROVE  admin'[p] = op /\ \A q \in Admin : q # p => admin'[q] = admin[q]
BY DEF Becomes

\* What is registered keeps its row, and no operation is about to drop it, when
\* config and stamp stay and the one operation that changes takes care.
LEMMA NoLossFrame ==
  ASSUME NothingLost, RowsKept, NEW p \in Admin,
         \A q \in Admin : q # p => admin'[q] = admin[q],
         UNCHANGED <<config, stamp>>,
         registered' \subseteq registered, misread \subseteq misread', clobbered => clobbered',
         ~clobbered' => WritesNoLoss(admin[p])'
  PROVE  NothingLost' /\ RowsKept'
<1>1. Kept' \subseteq Kept
  BY DEF Kept
<1>2. readFileConfig' = readFileConfig
  BY DEF readFileConfig
<1>3. RowsKept'
  <2>1. SUFFICES ASSUME ~clobbered', NEW n \in Kept' PROVE Mapped(n)'
    BY DEF RowsKept
  <2>2. ~clobbered /\ n \in Kept
    BY <1>1, <2>1
  <2>3. readFileConfig.maps[n] # "none"
    BY <2>2 DEF RowsKept, Mapped
  <2> QED
    BY <1>2, <2>3 DEF Mapped
<1>4. ASSUME NEW q \in Admin, q # p, ~clobbered' PROVE WritesNoLoss(admin[q])'
  <2>1. WritesNoLoss(admin[q]) /\ admin'[q] = admin[q] /\ stamp' = stamp
    BY <1>4 DEF NothingLost
  <2>2. Covers(admin[q].maps) => Covers(admin[q].maps)'
    BY <1>1, <2>1 DEF Covers
  <2>3. Covers(admin[q].merged.maps) => Covers(admin[q].merged.maps)'
    BY <1>1, <2>1 DEF Covers
  <2> QED
    BY <1>1, <2>1, <2>2, <2>3 DEF WritesNoLoss
<1>5. NothingLost'
  BY <1>4 DEF NothingLost
<1> QED
  BY <1>3, <1>5

\* Whatever an operation read, it drops a registered namespace only when the
\* config has changed since, and then the update counts as overlapping.
LEMMA NoLossStep ==
  ASSUME RegistryTypeOK, OpsReady, OpsReady', DirectoriesTell, StampsArePast, NothingLost,
         TmpHasOneWriter, RowsKept, [RegistryNext]_registryVars
  PROVE  NothingLost' /\ RowsKept'
<1> DEFINE Goal == NothingLost' /\ RowsKept'
<1>1. /\ readFileConfig \in Config
      /\ readFileConfig.maps \in [NsName -> Mapping]
  BY ConfigRead
<1>2. /\ stamp \in Nat /\ dirs \subseteq NsName /\ registered \subseteq NsName
      /\ admin \in [Admin -> Op]
  BY DEF RegistryTypeOK, OpsReady
<1>3. ASSUME NEW op, op.step \in {"idle", "init", "plan", "unlink"} PROVE WritesNoLoss(op)
  BY <1>3 DEF WritesNoLoss
<1>4. NoOp.step = "idle"
  BY DEF NoOp
<1>5. Kept \subseteq registered /\ Kept \subseteq NsName
  BY <1>2 DEF Kept
<1>6. ASSUME ~clobbered, NEW names PROVE \A n \in Kept \ names : Without(names)[n] # "none"
  BY <1>1, <1>5, <1>6 DEF RowsKept, Without, Mapped
<1>7. ASSUME UNCHANGED <<config, stamp, registered, misread, clobbered, admin>> PROVE Goal
  BY <1>7 DEF RowsKept, Mapped, readFileConfig, Kept, NothingLost, WritesNoLoss, Covers
<1>8. ASSUME NEW p \in Admin, NEW op, Becomes(p, op), UNCHANGED <<config, stamp>>,
             registered' \subseteq registered, misread \subseteq misread', clobbered => clobbered',
             ~clobbered' => WritesNoLoss(admin[p])'
      PROVE  Goal
  BY <1>2, <1>8, Becoming, NoLossFrame
<1>9. ASSUME NEW p \in Admin, Becomes(p, NoOp), UNCHANGED <<config, stamp>>,
             registered' \subseteq registered, misread \subseteq misread', clobbered => clobbered'
      PROVE  Goal
  <2>1. admin'[p].step = "idle"
    BY <1>2, <1>4, <1>9, Becoming
  <2>2. WritesNoLoss(admin[p])'
    BY <2>1 DEF WritesNoLoss
  <2> QED
    BY <1>8, <1>9, <2>2
<1>10. ASSUME NEW p \in Admin, NEW n \in NsName, BeginCreate(p, n) PROVE Goal
  <2>1. PICK d \in BOOLEAN :
          Becomes(p, [NoOp EXCEPT !.do = "create", !.name = n, !.step = "init",
                                  !.setDefault = d])
    BY <1>10 DEF BeginCreate
  <2> DEFINE op == [NoOp EXCEPT !.do = "create", !.name = n, !.step = "init", !.setDefault = d]
  <2>2. op.step = "init"
    BY DEF NoOp
  <2> HIDE DEF op
  <2>5. admin'[p].step = "init"
    BY <1>2, <2>1, <2>2, Becoming DEF op
  <2>3. WritesNoLoss(admin[p])'
    BY <2>5 DEF WritesNoLoss
  <2>4. UNCHANGED <<config, stamp, registered, misread, clobbered>>
    BY <1>10 DEF BeginCreate
  <2> QED
    BY <1>8, <2>1, <2>3, <2>4
<1>11. ASSUME NEW op \in Op, NEW n \in NsName, NEW p \in Admin, Becomes(p, Registering(op, n)),
              UNCHANGED <<config, stamp, registered, misread, clobbered>>
       PROVE  Goal
  <2> DEFINE rows == [readFileConfig.maps EXCEPT ![n] = "abs"]
  <2>1. ~clobbered => \A m \in Kept : rows[m] # "none"
    BY <1>1, <1>5 DEF RowsKept, Mapped
  <2>2. Registering(op, n) = [op EXCEPT !.step = "update", !.setsMaps = TRUE, !.base = stamp,
                                        !.maps = rows]
    BY DEF Registering
  <2> HIDE DEF rows
  <2> DEFINE next == Registering(op, n)
  <2>6. next.step = "update" /\ next.maps = rows
    BY <2>2 DEF Op
  <2> HIDE DEF next
  <2>3. admin'[p].step = "update" /\ admin'[p].maps = rows
    BY <1>2, <1>11, <2>6, Becoming DEF next
  <2>4. Kept' = Kept
    BY <1>11 DEF Kept
  <2>5. ~clobbered' => WritesNoLoss(admin[p])'
    BY <1>11, <2>1, <2>3, <2>4 DEF WritesNoLoss, Covers
  <2> QED
    BY <1>8, <1>11, <2>5
<1>12. ASSUME NEW p \in Admin, NEW n \in NsName, BeginSwitch(p, n) PROVE Goal
  <2> DEFINE op == [NoOp EXCEPT !.do = "switch", !.name = n, !.step = "update",
                                !.setDefault = TRUE]
  <2>1. Becomes(p, op) \/ Becomes(p, Registering(op, n))
    BY <1>12 DEF BeginSwitch
  <2>2. UNCHANGED <<config, stamp, registered, misread, clobbered>>
    BY <1>12 DEF BeginSwitch, files, history
  <2>3. op \in Op /\ op.step = "update" /\ op.setsMaps = FALSE
    BY NoOpReady DEF Op, NoOp
  <2> HIDE DEF op
  <2>4. CASE Becomes(p, op)
    <3>1. admin'[p].step = "update" /\ admin'[p].setsMaps = FALSE
      BY <1>2, <2>3, <2>4, Becoming
    <3>2. WritesNoLoss(admin[p])'
      BY <3>1 DEF WritesNoLoss
    <3> QED
      BY <1>8, <2>2, <2>4, <3>2
  <2> QED
    BY <1>11, <2>1, <2>2, <2>3, <2>4
<1>13. ASSUME NEW p \in Admin, NEW n \in NsName, BeginDelete(p, n) PROVE Goal
  <2> DEFINE rows == Without({n})
             op == [NoOp EXCEPT !.do = "delete", !.name = n, !.step = "remove",
                                !.setsMaps = TRUE, !.maps = rows, !.base = stamp]
  <2>1. Becomes(p, op)
    BY <1>13 DEF BeginDelete, Deleting
  <2>2. UNCHANGED <<config, stamp, registered, misread, clobbered>>
    BY <1>13 DEF BeginDelete, Deleting, files
  <2>3. ~clobbered => \A m \in Kept \ {n} : rows[m] # "none"
    BY <1>6
  <2> HIDE DEF rows
  <2>7. op.step = "remove" /\ op.maps = rows /\ op.name = n
    BY DEF NoOp
  <2> HIDE DEF op
  <2>4. admin'[p].step = "remove" /\ admin'[p].maps = rows /\ admin'[p].name = n
    BY <1>2, <2>1, <2>7, Becoming
  <2>5. Kept' = Kept
    BY <2>2 DEF Kept
  <2>6. ~clobbered' => WritesNoLoss(admin[p])'
    BY <2>2, <2>3, <2>4, <2>5 DEF WritesNoLoss
  <2> QED
    BY <1>8, <2>1, <2>2, <2>6
<1>14. ASSUME NEW p \in Admin, Register(p) PROVE Goal
  <2>1. Becomes(p, Registering(admin[p], admin[p].name))
    BY <1>14 DEF Register
  <2>2. UNCHANGED <<config, stamp, registered, misread, clobbered>>
    BY <1>14 DEF Register, files, history
  <2>3. admin[p] \in Op /\ admin[p].name \in NsName
    BY <1>2, <1>14 DEF Register, OpsReady, OpReady
  <2> QED
    BY <1>11, <2>1, <2>2, <2>3
<1>15. ASSUME NEW p \in Admin, RemoveDirectory(p) PROVE Goal
  <2> DEFINE op == [admin[p] EXCEPT !.step = "update"]
  <2>1. UNCHANGED <<config, stamp, misread, clobbered>> /\ admin[p].step = "remove"
    BY <1>15 DEF RemoveDirectory
  <2>2. \/ registered' = registered \ {admin[p].name} /\ Becomes(p, op)
        \/ registered' = registered /\ Becomes(p, NoOp)
    BY <1>15 DEF RemoveDirectory
  <2>3. CASE registered' = registered \ {admin[p].name} /\ Becomes(p, op)
    <3>1. /\ admin'[p].step = "update" /\ admin'[p].base = admin[p].base
          /\ admin'[p].maps = admin[p].maps
      BY <1>2, <2>3, Becoming DEF Op
    <3>2. Kept' = Kept \ {admin[p].name}
      BY <2>1, <2>3 DEF Kept
    <3>3. ~clobbered => WritesNoLoss(admin[p])
      BY DEF NothingLost
    <3>4. ~clobbered' => WritesNoLoss(admin[p])'
      BY <2>1, <3>1, <3>2, <3>3 DEF WritesNoLoss, Covers
    <3> QED
      BY <1>8, <2>1, <2>3, <3>4
  <2> QED
    BY <1>9, <2>1, <2>2, <2>3
<1>16. ASSUME NEW p \in Admin, BeginPrune(p) PROVE Goal
  <2> DEFINE op == [NoOp EXCEPT !.do = "prune", !.step = "plan",
                                !.dead = {n \in NsName : Mapped(n)}]
  <2>1. Becomes(p, op) /\ op.step = "plan"
    BY <1>16 DEF BeginPrune, NoOp
  <2> HIDE DEF op
  <2>2. UNCHANGED <<config, stamp, registered, misread, clobbered>>
    BY <1>16 DEF BeginPrune, files, history
  <2>3. admin'[p].step = "plan"
    BY <1>2, <2>1, Becoming
  <2>4. WritesNoLoss(admin[p])'
    BY <2>3 DEF WritesNoLoss
  <2> QED
    BY <1>8, <2>1, <2>2, <2>4
<1>17. ASSUME NEW p \in Admin, PlanPrune(p) PROVE Goal
  <2> DEFINE op == [admin[p] EXCEPT !.step = "apply", !.base = stamp, !.dead = @ \ dirs]
  <2>1. Becomes(p, op)
    BY <1>17 DEF PlanPrune
  <2>5. op.step = "apply" /\ op.dead = admin[p].dead \ dirs
    BY <1>2 DEF Op
  <2> HIDE DEF op
  <2>2. UNCHANGED <<config, stamp, registered, misread, clobbered>>
    BY <1>17 DEF PlanPrune, files, history
  <2>3. admin'[p].step = "apply" /\ admin'[p].dead = admin[p].dead \ dirs
    BY <1>2, <2>1, <2>5, Becoming
  <2>4. WritesNoLoss(admin[p])'
    BY <2>2, <2>3 DEF WritesNoLoss, DirectoriesTell
  <2> QED
    BY <1>8, <2>1, <2>2, <2>4
<1>18. ASSUME NEW p \in Admin, ApplyPrune(p) PROVE Goal
  <2> DEFINE rows == Without(admin[p].dead)
             op == [admin[p] EXCEPT !.step = "update", !.setsMaps = TRUE, !.maps = rows]
  <2>1. Becomes(p, op) \/ Becomes(p, NoOp)
    BY <1>18 DEF ApplyPrune
  <2>2. UNCHANGED <<config, stamp, registered, misread, clobbered>> /\ admin[p].step = "apply"
    BY <1>18 DEF ApplyPrune, files, history
  <2>3. ~clobbered => \A m \in Kept \ admin[p].dead : rows[m] # "none"
    BY <1>6
  <2> HIDE DEF rows
  <2>5. op.step = "update" /\ op.maps = rows /\ op.base = admin[p].base
    BY <1>2 DEF Op
  <2> HIDE DEF op
  <2>4. CASE Becomes(p, op)
    <3>1. admin'[p].step = "update" /\ admin'[p].maps = rows /\ admin'[p].base = admin[p].base
      BY <1>2, <2>4, <2>5, Becoming
    <3>2. Kept' = Kept
      BY <2>2 DEF Kept
    <3>3. ~clobbered /\ admin[p].base = stamp => admin[p].dead \cap Kept = {}
      BY <1>5, <2>2 DEF NothingLost, WritesNoLoss
    <3>4. ~clobbered' => WritesNoLoss(admin[p])'
      BY <2>2, <2>3, <3>1, <3>2, <3>3 DEF WritesNoLoss, Covers
    <3> QED
      BY <1>8, <2>2, <2>4, <3>4
  <2> QED
    BY <1>9, <2>1, <2>2, <2>4
<1>19. ASSUME NEW p \in Admin, NEW elsewhere \in BOOLEAN, BeginSweep(p, elsewhere) PROVE Goal
  <2>1. PICK ghosts : /\ \/ Becomes(p, NoOp)
                         \/ Becomes(p, [NoOp EXCEPT !.do = "sweep", !.step = "update",
                                                    !.setsMaps = TRUE, !.maps = Without(ghosts),
                                                    !.base = stamp])
                      /\ misread' = misread \cup (ghosts \cap dirs)
    BY <1>19 DEF BeginSweep
  <2>2. UNCHANGED <<config, stamp, registered, clobbered>>
    BY <1>19 DEF BeginSweep
  <2> DEFINE rows == Without(ghosts)
             op == [NoOp EXCEPT !.do = "sweep", !.step = "update", !.setsMaps = TRUE,
                                !.maps = rows, !.base = stamp]
  <2>3. ~clobbered => \A m \in Kept \ ghosts : rows[m] # "none"
    BY <1>6
  <2>4. Becomes(p, NoOp) \/ Becomes(p, op)
    BY <2>1
  <2> HIDE DEF rows
  <2>6. op.step = "update" /\ op.maps = rows
    BY DEF NoOp
  <2> HIDE DEF op
  <2>5. CASE Becomes(p, op)
    <3>1. admin'[p].step = "update" /\ admin'[p].maps = rows
      BY <1>2, <2>5, <2>6, Becoming
    <3>2. Kept' \subseteq Kept \ ghosts
      BY <2>1, <2>2 DEF Kept, DirectoriesTell
    <3>3. ~clobbered' => WritesNoLoss(admin[p])'
      BY <2>2, <2>3, <3>1, <3>2 DEF WritesNoLoss, Covers
    <3> QED
      BY <1>8, <2>1, <2>2, <2>5, <3>3
  <2> QED
    BY <1>9, <2>1, <2>2, <2>4, <2>5
<1>20. ASSUME NEW p \in Admin, OpenTmp(p) PROVE Goal
  <2> DEFINE op == [admin[p] EXCEPT !.step = IF Guarded(admin[p]) THEN "rename" ELSE "fill",
                                    !.merged = Merge(admin[p]),
                                    !.base = IF admin[p].setsMaps THEN @ ELSE stamp]
  <2>1. admin[p].step = "update" /\ (Becomes(p, op) \/ Becomes(p, NoOp))
    BY <1>20 DEF OpenTmp
  <2>2. UNCHANGED <<config, stamp, registered, misread>> /\ (clobbered => clobbered')
    BY <1>20 DEF OpenTmp
  <2>4. op.step \in {"fill", "rename"} /\ op.merged = Merge(admin[p])
        /\ (admin[p].setsMaps => op.base = admin[p].base)
    BY <1>2 DEF Op
  <2> HIDE DEF op
  <2>3. CASE Becomes(p, op)
    <3>1. admin'[p].step \in {"fill", "rename"} /\ admin'[p].merged = Merge(admin[p])
          /\ (admin[p].setsMaps => admin'[p].base = admin[p].base)
      BY <1>2, <2>3, <2>4, Becoming
    <3>2. Merge(admin[p]).maps = IF admin[p].setsMaps THEN admin[p].maps ELSE readFileConfig.maps
      BY DEF Merge
    <3>3. Kept' = Kept /\ stamp' = stamp
      BY <2>2 DEF Kept
    <3>4. ASSUME ~clobbered, admin'[p].base = stamp PROVE Covers(Merge(admin[p]).maps)
      <4>1. admin[p].setsMaps => Covers(admin[p].maps)
        BY <2>1, <3>1, <3>4 DEF NothingLost, WritesNoLoss
      <4>2. Covers(readFileConfig.maps)
        BY <3>4 DEF RowsKept, Mapped, Covers
      <4> QED
        BY <3>2, <4>1, <4>2
    <3>5. ~clobbered' => WritesNoLoss(admin[p])'
      BY <2>2, <3>1, <3>3, <3>4 DEF WritesNoLoss, Covers
    <3> QED
      BY <1>8, <2>2, <2>3, <3>5
  <2> QED
    BY <1>9, <2>1, <2>2, <2>3
<1>21. ASSUME NEW p \in Admin, FillTmp(p) PROVE Goal
  <2>1. Becomes(p, [admin[p] EXCEPT !.step = "rename"]) /\ admin[p].step = "fill"
    BY <1>21 DEF FillTmp
  <2>2. UNCHANGED <<config, stamp, registered, misread, clobbered>>
    BY <1>21 DEF FillTmp, history
  <2>3. /\ admin'[p].step = "rename" /\ admin'[p].base = admin[p].base
        /\ admin'[p].merged = admin[p].merged
    BY <1>2, <2>1, Becoming DEF Op
  <2>4. Kept' = Kept
    BY <2>2 DEF Kept
  <2>5. ~clobbered' => WritesNoLoss(admin[p])'
    BY <2>1, <2>2, <2>3, <2>4 DEF NothingLost, WritesNoLoss, Covers
  <2> QED
    BY <1>8, <2>1, <2>2, <2>5
<1>22. ASSUME NEW p \in Admin, UnlinkManifest(p) \/ KillAdmin(p) PROVE Goal
  <2>1. Becomes(p, NoOp) /\ UNCHANGED <<config, stamp, registered, misread, clobbered>>
    BY <1>22 DEF UnlinkManifest, KillAdmin, files, history
  <2> QED
    BY <1>9, <2>1
<1>23. ASSUME \/ \E n \in NsName : StartPush(n)
              \/ AgePush \/ FinishPush \/ UNCHANGED registryVars
       PROVE  Goal
  BY <1>7, <1>23 DEF StartPush, AgePush, FinishPush, history, registryVars
<1>24. ASSUME NEW p \in Admin, Rename(p) PROVE Goal
  <2> DEFINE op == admin[p]
             new == IF Guarded(op) THEN op.merged ELSE tmp
  <2>1. op.step = "rename" /\ op \in Op /\ OpReady(op)
    BY <1>2, <1>24 DEF Rename, OpsReady
  <2>2. UNCHANGED misread
    BY <1>24 DEF Rename
  <2>3. CASE new = NoFile
    <3>1. Becomes(p, NoOp) /\ UNCHANGED <<config, stamp, registered, clobbered>>
      BY <1>24, <2>3 DEF Rename
    <3> QED
      BY <1>9, <2>2, <3>1
  <2>4. CASE new # NoFile
    <3>1. /\ config' = new /\ stamp' = stamp + 1 /\ Becomes(p, AfterUpdate(op))
          /\ clobbered' = (clobbered \/ op.base # stamp)
      BY <1>24, <2>4 DEF Rename
    <3>2. registered' = IF op.do \in {"create", "switch"} /\ op.setsMaps /\ op.name \in dirs
                          THEN registered \cup {op.name} ELSE registered
      BY <1>24, <2>4 DEF Rename
    <3>3. \A q \in Admin : admin'[q].base <= stamp
      <4>1. \A q \in Admin : q # p => admin'[q] = admin[q]
        BY <1>2, <3>1, Becoming
      <4>2. AfterUpdate(op).base \in {0, op.base}
        <5>1. [op EXCEPT !.step = "update", !.setsMaps = FALSE, !.merged = NoFile].base = op.base
              /\ [op EXCEPT !.step = "unlink"].base = op.base /\ NoOp.base = 0
          BY <2>1 DEF Op, NoOp
        <5> QED
          BY <5>1 DEF AfterUpdate
      <4> DEFINE next == AfterUpdate(op)
      <4> HIDE DEF next
      <4>3. admin'[p] = next
        BY <1>2, <3>1, Becoming DEF next
      <4>4. op.base <= stamp
        BY DEF StampsArePast
      <4>5. admin'[p].base <= stamp
        BY <1>2, <4>2, <4>3, <4>4 DEF next
      <4> QED
        BY <4>1, <4>5 DEF StampsArePast
    <3>4. \A q \in Admin : WritesNoLoss(admin[q])'
      BY <1>2, <3>1, <3>3 DEF WritesNoLoss
    <3>5. ASSUME ~clobbered', NEW n \in Kept' PROVE Mapped(n)'
      <4>1. ~clobbered /\ op.base = stamp
        BY <3>1, <3>5
      <4>2. new = op.merged
        BY <2>1, <4>1 DEF TmpHasOneWriter, Writing
      <4>3. Covers(op.merged.maps)
        BY <2>1, <4>1 DEF NothingLost, WritesNoLoss
      <4>4. \/ n \in Kept
            \/ n = op.name /\ op.do \in {"create", "switch"} /\ op.setsMaps
        <5>1. \/ registered' = registered
              \/ /\ registered' = registered \cup {op.name}
                 /\ op.do \in {"create", "switch"} /\ op.setsMaps
          BY <3>2, Zenon
        <5>2. n \in registered' /\ n \notin misread
          BY <2>2, <3>5 DEF Kept
        <5> HIDE DEF op
        <5> QED
          BY <5>1, <5>2 DEF Kept
      <4>5. op.merged.maps[n] # "none"
        BY <2>1, <4>3, <4>4 DEF Covers, OpReady
      <4>6. config' = op.merged /\ op.merged \in Config /\ n \in NsName
        BY <1>5, <2>1, <3>1, <4>2, <4>4 DEF OpReady
      <4>7. config'.maps \in [NsName -> Mapping]
        BY <4>6 DEF Config
      <4>8. config' # TornConfig
        BY <4>6, <4>7 DEF TornConfig
      <4> QED
        BY <4>5, <4>6, <4>8 DEF Mapped, readFileConfig
    <3> QED
      BY <3>4, <3>5 DEF NothingLost, RowsKept
  <2> QED
    BY <2>3, <2>4
<1> QED
  BY <1>10, <1>12, <1>13, <1>14, <1>15, <1>16, <1>17, <1>18, <1>19, <1>20, <1>21, <1>22, <1>23,
     <1>24 DEF RegistryNext

\* An update that is not guarded opens the common temporary file beside another
\* one only at the price of clobbered.
LEMMA TmpStep ==
  ASSUME OpsReady, TmpHasOneWriter, [RegistryNext]_registryVars
  PROVE  TmpHasOneWriter'
<1>1. admin \in [Admin -> Op]
  BY DEF OpsReady
<1>2. ASSUME NEW p \in Admin, NEW op, Becomes(p, op), UNCHANGED tmp, clobbered => clobbered',
             op.step \notin {"fill", "rename"} \/ op.do = "prune"
      PROVE  TmpHasOneWriter'
  <2>1. ~Writing(p)'
    BY <1>1, <1>2, Becoming DEF Writing, Guarded
  <2>2. \A q \in Admin : q # p => admin'[q] = admin[q]
    BY <1>1, <1>2, Becoming
  <2>3. \A q \in Admin : Writing(q)' => q # p /\ Writing(q) /\ admin'[q] = admin[q]
    BY <2>1, <2>2 DEF Writing, Guarded
  <2> QED
    BY <1>2, <2>3 DEF TmpHasOneWriter
<1>3. ASSUME UNCHANGED <<tmp, admin, clobbered>> PROVE TmpHasOneWriter'
  BY <1>3 DEF TmpHasOneWriter, Writing, Guarded
<1>4. ASSUME NEW p \in Admin, Becomes(p, NoOp), UNCHANGED tmp, clobbered => clobbered'
      PROVE  TmpHasOneWriter'
  BY <1>2, <1>4 DEF NoOp
<1>5. ASSUME NEW p \in Admin, NEW op \in Op, NEW n, Becomes(p, Registering(op, n)),
             UNCHANGED <<tmp, clobbered>>
      PROVE  TmpHasOneWriter'
  <2> DEFINE next == Registering(op, n)
  <2>1. next.step = "update"
    BY DEF Registering, Op
  <2> HIDE DEF next
  <2> QED
    BY <1>2, <1>5, <2>1 DEF next
<1>6. ASSUME NEW p \in Admin, NEW n \in NsName, BeginCreate(p, n) PROVE TmpHasOneWriter'
  <2>1. PICK d \in BOOLEAN :
          Becomes(p, [NoOp EXCEPT !.do = "create", !.name = n, !.step = "init",
                                  !.setDefault = d])
    BY <1>6 DEF BeginCreate
  <2> DEFINE op == [NoOp EXCEPT !.do = "create", !.name = n, !.step = "init", !.setDefault = d]
  <2>2. op.step = "init" /\ UNCHANGED <<tmp, clobbered>>
    BY <1>6 DEF BeginCreate, NoOp
  <2> HIDE DEF op
  <2> QED
    BY <1>2, <2>1, <2>2 DEF op
<1>7. ASSUME NEW p \in Admin, NEW n \in NsName, BeginSwitch(p, n) PROVE TmpHasOneWriter'
  <2> DEFINE op == [NoOp EXCEPT !.do = "switch", !.name = n, !.step = "update",
                                !.setDefault = TRUE]
  <2>1. Becomes(p, op) \/ Becomes(p, Registering(op, n))
    BY <1>7 DEF BeginSwitch
  <2>2. op.step = "update" /\ op \in Op /\ UNCHANGED <<tmp, clobbered>>
    BY <1>7, NoOpReady DEF BeginSwitch, NoOp, Op, files, history
  <2> HIDE DEF op
  <2> QED
    BY <1>2, <1>5, <2>1, <2>2
<1>8. ASSUME NEW p \in Admin, NEW n \in NsName, BeginDelete(p, n) PROVE TmpHasOneWriter'
  <2> DEFINE op == [NoOp EXCEPT !.do = "delete", !.name = n, !.step = "remove",
                                !.setsMaps = TRUE, !.maps = Without({n}), !.base = stamp]
  <2>1. Becomes(p, op) /\ UNCHANGED <<tmp, clobbered>>
    BY <1>8 DEF BeginDelete, Deleting, files
  <2>2. op.step = "remove"
    BY DEF NoOp
  <2> HIDE DEF op
  <2> QED
    BY <1>2, <2>1, <2>2
<1>9. ASSUME NEW p \in Admin, Register(p) PROVE TmpHasOneWriter'
  BY <1>1, <1>5, <1>9 DEF Register, files, history
<1>10. ASSUME NEW p \in Admin, RemoveDirectory(p) PROVE TmpHasOneWriter'
  <2> DEFINE op == [admin[p] EXCEPT !.step = "update"]
  <2>1. (Becomes(p, op) \/ Becomes(p, NoOp)) /\ UNCHANGED <<tmp, clobbered>>
    BY <1>10 DEF RemoveDirectory
  <2>2. op.step = "update"
    BY <1>1 DEF Op
  <2> HIDE DEF op
  <2> QED
    BY <1>2, <1>4, <2>1, <2>2
<1>11. ASSUME NEW p \in Admin, BeginPrune(p) PROVE TmpHasOneWriter'
  <2> DEFINE op == [NoOp EXCEPT !.do = "prune", !.step = "plan",
                                !.dead = {n \in NsName : Mapped(n)}]
  <2>1. Becomes(p, op) /\ op.step = "plan" /\ UNCHANGED <<tmp, clobbered>>
    BY <1>11 DEF BeginPrune, NoOp, files, history
  <2> HIDE DEF op
  <2> QED
    BY <1>2, <2>1
<1>12. ASSUME NEW p \in Admin, PlanPrune(p) PROVE TmpHasOneWriter'
  <2> DEFINE op == [admin[p] EXCEPT !.step = "apply", !.base = stamp, !.dead = @ \ dirs]
  <2>1. Becomes(p, op) /\ UNCHANGED <<tmp, clobbered>>
    BY <1>12 DEF PlanPrune, files, history
  <2>2. op.step = "apply"
    BY <1>1 DEF Op
  <2> HIDE DEF op
  <2> QED
    BY <1>2, <2>1, <2>2
<1>13. ASSUME NEW p \in Admin, ApplyPrune(p) PROVE TmpHasOneWriter'
  <2> DEFINE op == [admin[p] EXCEPT !.step = "update", !.setsMaps = TRUE,
                                    !.maps = Without(admin[p].dead)]
  <2>1. (Becomes(p, op) \/ Becomes(p, NoOp)) /\ UNCHANGED <<tmp, clobbered>>
    BY <1>13 DEF ApplyPrune, files, history
  <2>2. op.step = "update"
    BY <1>1 DEF Op
  <2> HIDE DEF op
  <2> QED
    BY <1>2, <1>4, <2>1, <2>2
<1>14. ASSUME NEW p \in Admin, NEW elsewhere \in BOOLEAN, BeginSweep(p, elsewhere)
       PROVE  TmpHasOneWriter'
  <2>1. PICK ghosts : \/ Becomes(p, NoOp)
                      \/ Becomes(p, [NoOp EXCEPT !.do = "sweep", !.step = "update",
                                                 !.setsMaps = TRUE, !.maps = Without(ghosts),
                                                 !.base = stamp])
    BY <1>14 DEF BeginSweep
  <2> DEFINE op == [NoOp EXCEPT !.do = "sweep", !.step = "update", !.setsMaps = TRUE,
                                !.maps = Without(ghosts), !.base = stamp]
  <2>2. op.step = "update" /\ UNCHANGED <<tmp, clobbered>>
    BY <1>14 DEF BeginSweep, NoOp
  <2>3. Becomes(p, NoOp) \/ Becomes(p, op)
    BY <2>1
  <2> HIDE DEF op
  <2> QED
    BY <1>2, <1>4, <2>2, <2>3
<1>15. ASSUME NEW p \in Admin, OpenTmp(p) PROVE TmpHasOneWriter'
  <2> DEFINE op == [admin[p] EXCEPT !.step = IF Guarded(admin[p]) THEN "rename" ELSE "fill",
                                    !.merged = Merge(admin[p]),
                                    !.base = IF admin[p].setsMaps THEN @ ELSE stamp]
  <2>1. op.do = admin[p].do /\ op.step = IF Guarded(admin[p]) THEN "rename" ELSE "fill"
    BY <1>1 DEF Op
  <2>2. \/ Becomes(p, NoOp) /\ UNCHANGED <<tmp, clobbered>>
        \/ /\ Becomes(p, op)
           /\ tmp' = IF Guarded(admin[p]) THEN tmp ELSE TornConfig
           /\ clobbered' = (clobbered \/ (~Guarded(admin[p])
                                             /\ \E q \in Admin \ {p} : Writing(q)))
    BY <1>15 DEF OpenTmp
  <2> HIDE DEF op
  <2>4. CASE Becomes(p, op) /\ ~Guarded(admin[p]) /\ ~clobbered'
             /\ clobbered' = (clobbered \/ \E q \in Admin \ {p} : Writing(q))
    <3>1. admin'[p].step = "fill" /\ \A q \in Admin : q # p => admin'[q] = admin[q]
      BY <1>1, <2>1, <2>4, Becoming
    <3>2. \A q \in Admin : Writing(q)' => q = p
      BY <2>4, <3>1 DEF Writing, Guarded
    <3> QED
      BY <3>1, <3>2 DEF TmpHasOneWriter
  <2>5. CASE clobbered'
    BY <2>5 DEF TmpHasOneWriter
  <2>6. CASE Becomes(p, NoOp) /\ UNCHANGED <<tmp, clobbered>>
    BY <1>4, <2>6
  <2>7. CASE /\ Becomes(p, op)
             /\ tmp' = IF Guarded(admin[p]) THEN tmp ELSE TornConfig
             /\ clobbered' = (clobbered \/ (~Guarded(admin[p])
                                               /\ \E q \in Admin \ {p} : Writing(q)))
    <3>1. CASE Guarded(admin[p])
      <4>1. tmp' = tmp /\ (clobbered => clobbered')
        BY <2>7, <3>1
      <4> QED
        BY <1>2, <2>1, <2>7, <3>1, <4>1 DEF Guarded
    <3>2. CASE ~Guarded(admin[p])
      BY <2>4, <2>5, <2>7, <3>2
    <3> QED
      BY <3>1, <3>2
  <2> QED
    BY <2>2, <2>6, <2>7
<1>16. ASSUME NEW p \in Admin, FillTmp(p) PROVE TmpHasOneWriter'
  <2> DEFINE op == [admin[p] EXCEPT !.step = "rename"]
  <2>1. /\ Becomes(p, op) /\ admin[p].step = "fill" /\ tmp' = admin[p].merged
        /\ UNCHANGED clobbered
    BY <1>16 DEF FillTmp, history
  <2>2. op.merged = admin[p].merged /\ op.do = admin[p].do
    BY <1>1 DEF Op
  <2> HIDE DEF op
  <2>3. admin'[p] = op /\ \A q \in Admin : q # p => admin'[q] = admin[q]
    BY <1>1, <2>1, Becoming
  <2>4. Writing(p)
    BY <1>1, <2>1 DEF Writing, Guarded, OpsReady, OpReady
  <2>5. \A q \in Admin : Writing(q)' => Writing(q)
    BY <2>3, <2>4 DEF Writing, Guarded
  <2>6. ASSUME ~clobbered PROVE \A q \in Admin : Writing(q)' => q = p
    BY <2>4, <2>5, <2>6 DEF TmpHasOneWriter
  <2> QED
    BY <2>1, <2>2, <2>3, <2>6 DEF TmpHasOneWriter
<1>17. ASSUME NEW p \in Admin, Rename(p) PROVE TmpHasOneWriter'
  <2> DEFINE next == AfterUpdate(admin[p])
  <2>1. /\ \/ Becomes(p, NoOp) /\ UNCHANGED tmp
           \/ Becomes(p, next) /\ tmp' = IF Guarded(admin[p]) THEN tmp ELSE NoFile
        /\ clobbered => clobbered'
        /\ admin[p].step = "rename"
    BY <1>17 DEF Rename
  <2>2. /\ [admin[p] EXCEPT !.step = "update", !.setsMaps = FALSE, !.merged = NoFile].step
             = "update"
        /\ [admin[p] EXCEPT !.step = "unlink"].step = "unlink"
        /\ NoOp.step = "idle"
    BY <1>1 DEF Op, NoOp
  <2>3. next.step \in {"update", "unlink", "idle"}
    BY <2>2 DEF AfterUpdate
  <2> HIDE DEF next
  <2>4. CASE Becomes(p, next) /\ ~Guarded(admin[p])
    <3>1. admin'[p] = next /\ \A q \in Admin : q # p => admin'[q] = admin[q]
      BY <1>1, <2>4, Becoming
    <3>2. Writing(p) /\ ~Writing(p)'
      BY <2>1, <2>3, <2>4, <3>1 DEF Writing
    <3>3. ASSUME ~clobbered' PROVE \A q \in Admin : ~Writing(q)'
      BY <2>1, <3>1, <3>2, <3>3 DEF TmpHasOneWriter, Writing, Guarded
    <3> QED
      BY <3>3 DEF TmpHasOneWriter
  <2> QED
    BY <1>2, <1>4, <2>1, <2>3, <2>4
<1>18. ASSUME NEW p \in Admin, UnlinkManifest(p) \/ KillAdmin(p) PROVE TmpHasOneWriter'
  BY <1>4, <1>18 DEF UnlinkManifest, KillAdmin, files, history
<1>19. ASSUME \/ \E n \in NsName : StartPush(n)
              \/ AgePush \/ FinishPush \/ UNCHANGED registryVars
       PROVE  TmpHasOneWriter'
  BY <1>3, <1>19 DEF StartPush, AgePush, FinishPush, history, registryVars
<1> QED
  BY <1>6, <1>7, <1>8, <1>9, <1>10, <1>11, <1>12, <1>13, <1>14, <1>15, <1>16, <1>17, <1>18, <1>19
     DEF RegistryNext

\* No operation has a stamp the config never had.
LEMMA StampStep ==
  ASSUME RegistryTypeOK, OpsReady, StampsArePast, [RegistryNext]_registryVars
  PROVE  StampsArePast'
<1>1. admin \in [Admin -> Op] /\ stamp \in Nat
  BY DEF RegistryTypeOK, OpsReady
<1>2. ASSUME UNCHANGED <<stamp, admin>> PROVE StampsArePast'
  BY <1>2 DEF StampsArePast
<1>3. ASSUME NEW p \in Admin, NEW op, Becomes(p, op), stamp' \in {stamp, stamp + 1},
             op.base \in {0, stamp, admin[p].base}
      PROVE  StampsArePast'
  <2>1. op.base <= stamp /\ stamp <= stamp' /\ \A q \in Admin : admin[q].base <= stamp
    BY <1>1, <1>3 DEF StampsArePast
  <2>2. admin'[p] = op /\ \A q \in Admin : q # p => admin'[q] = admin[q]
    BY <1>1, <1>3, Becoming
  <2>3. /\ \A q \in Admin : admin[q].base \in Nat
        /\ op.base \in Nat /\ stamp' \in Nat
    BY <1>1, <1>3 DEF Op
  <2> QED
    BY <1>1, <2>1, <2>2, <2>3 DEF StampsArePast
<1>4. NoOp.base = 0
  BY DEF NoOp
<1>5. ASSUME NEW p \in Admin, Becomes(p, NoOp), UNCHANGED stamp PROVE StampsArePast'
  BY <1>3, <1>4, <1>5
<1>6. ASSUME NEW p \in Admin, NEW op \in Op, NEW n, Becomes(p, Registering(op, n)),
             UNCHANGED stamp
      PROVE  StampsArePast'
  <2> DEFINE next == Registering(op, n)
  <2>1. next.base = stamp
    BY DEF Registering, Op
  <2> HIDE DEF next
  <2> QED
    BY <1>3, <1>6, <2>1 DEF next
<1>7. ASSUME NEW p \in Admin, NEW n \in NsName, BeginCreate(p, n) PROVE StampsArePast'
  <2>1. PICK d \in BOOLEAN :
          Becomes(p, [NoOp EXCEPT !.do = "create", !.name = n, !.step = "init",
                                  !.setDefault = d])
    BY <1>7 DEF BeginCreate
  <2> DEFINE op == [NoOp EXCEPT !.do = "create", !.name = n, !.step = "init", !.setDefault = d]
  <2>2. op.base = 0 /\ UNCHANGED stamp
    BY <1>7 DEF BeginCreate, NoOp
  <2> HIDE DEF op
  <2> QED
    BY <1>3, <2>1, <2>2 DEF op
<1>8. ASSUME NEW p \in Admin, NEW n \in NsName, BeginSwitch(p, n) PROVE StampsArePast'
  <2> DEFINE op == [NoOp EXCEPT !.do = "switch", !.name = n, !.step = "update",
                                !.setDefault = TRUE]
  <2>1. Becomes(p, op) \/ Becomes(p, Registering(op, n))
    BY <1>8 DEF BeginSwitch
  <2>2. op.base = 0 /\ op \in Op /\ UNCHANGED stamp
    BY <1>8, NoOpReady DEF BeginSwitch, NoOp, Op, files
  <2> HIDE DEF op
  <2> QED
    BY <1>3, <1>6, <2>1, <2>2
<1>9. ASSUME NEW p \in Admin, NEW n \in NsName, BeginDelete(p, n) PROVE StampsArePast'
  <2> DEFINE op == [NoOp EXCEPT !.do = "delete", !.name = n, !.step = "remove",
                                !.setsMaps = TRUE, !.maps = Without({n}), !.base = stamp]
  <2>1. Becomes(p, op) /\ UNCHANGED stamp
    BY <1>9 DEF BeginDelete, Deleting, files
  <2>2. op.base = stamp
    BY DEF NoOp
  <2> HIDE DEF op
  <2> QED
    BY <1>3, <2>1, <2>2
<1>10. ASSUME NEW p \in Admin, Register(p) PROVE StampsArePast'
  BY <1>1, <1>6, <1>10 DEF Register, files
<1>11. ASSUME NEW p \in Admin, RemoveDirectory(p) PROVE StampsArePast'
  <2> DEFINE op == [admin[p] EXCEPT !.step = "update"]
  <2>1. (Becomes(p, op) \/ Becomes(p, NoOp)) /\ UNCHANGED stamp
    BY <1>11 DEF RemoveDirectory
  <2>2. op.base = admin[p].base
    BY <1>1 DEF Op
  <2> HIDE DEF op
  <2> QED
    BY <1>3, <1>5, <2>1, <2>2
<1>12. ASSUME NEW p \in Admin, BeginPrune(p) PROVE StampsArePast'
  <2> DEFINE op == [NoOp EXCEPT !.do = "prune", !.step = "plan",
                                !.dead = {n \in NsName : Mapped(n)}]
  <2>1. Becomes(p, op) /\ op.base = 0 /\ UNCHANGED stamp
    BY <1>12 DEF BeginPrune, NoOp, files
  <2> HIDE DEF op
  <2> QED
    BY <1>3, <2>1
<1>13. ASSUME NEW p \in Admin, PlanPrune(p) PROVE StampsArePast'
  <2> DEFINE op == [admin[p] EXCEPT !.step = "apply", !.base = stamp, !.dead = @ \ dirs]
  <2>1. Becomes(p, op) /\ UNCHANGED stamp
    BY <1>13 DEF PlanPrune, files
  <2>2. op.base = stamp
    BY <1>1 DEF Op
  <2> HIDE DEF op
  <2> QED
    BY <1>3, <2>1, <2>2
<1>14. ASSUME NEW p \in Admin, ApplyPrune(p) PROVE StampsArePast'
  <2> DEFINE op == [admin[p] EXCEPT !.step = "update", !.setsMaps = TRUE,
                                    !.maps = Without(admin[p].dead)]
  <2>1. (Becomes(p, op) \/ Becomes(p, NoOp)) /\ UNCHANGED stamp
    BY <1>14 DEF ApplyPrune, files
  <2>2. op.base = admin[p].base
    BY <1>1 DEF Op
  <2> HIDE DEF op
  <2> QED
    BY <1>3, <1>5, <2>1, <2>2
<1>15. ASSUME NEW p \in Admin, NEW elsewhere \in BOOLEAN, BeginSweep(p, elsewhere)
       PROVE  StampsArePast'
  <2>1. PICK ghosts : \/ Becomes(p, NoOp)
                      \/ Becomes(p, [NoOp EXCEPT !.do = "sweep", !.step = "update",
                                                 !.setsMaps = TRUE, !.maps = Without(ghosts),
                                                 !.base = stamp])
    BY <1>15 DEF BeginSweep
  <2> DEFINE op == [NoOp EXCEPT !.do = "sweep", !.step = "update", !.setsMaps = TRUE,
                                !.maps = Without(ghosts), !.base = stamp]
  <2>2. op.base = stamp /\ UNCHANGED stamp
    BY <1>15 DEF BeginSweep, NoOp
  <2>3. Becomes(p, NoOp) \/ Becomes(p, op)
    BY <2>1
  <2> HIDE DEF op
  <2> QED
    BY <1>3, <1>5, <2>2, <2>3
<1>16. ASSUME NEW p \in Admin, OpenTmp(p) PROVE StampsArePast'
  <2> DEFINE op == [admin[p] EXCEPT !.step = IF Guarded(admin[p]) THEN "rename" ELSE "fill",
                                    !.merged = Merge(admin[p]),
                                    !.base = IF admin[p].setsMaps THEN @ ELSE stamp]
  <2>1. (Becomes(p, op) \/ Becomes(p, NoOp)) /\ UNCHANGED stamp
    BY <1>16 DEF OpenTmp
  <2>2. op.base \in {stamp, admin[p].base}
    BY <1>1 DEF Op
  <2> HIDE DEF op
  <2> QED
    BY <1>3, <1>5, <2>1, <2>2
<1>17. ASSUME NEW p \in Admin, FillTmp(p) PROVE StampsArePast'
  <2> DEFINE op == [admin[p] EXCEPT !.step = "rename"]
  <2>1. Becomes(p, op) /\ UNCHANGED stamp
    BY <1>17 DEF FillTmp
  <2>2. op.base = admin[p].base
    BY <1>1 DEF Op
  <2> HIDE DEF op
  <2> QED
    BY <1>3, <2>1, <2>2
<1>18. ASSUME NEW p \in Admin, Rename(p) PROVE StampsArePast'
  <2> DEFINE next == AfterUpdate(admin[p])
  <2>1. \/ Becomes(p, NoOp) /\ stamp' = stamp
        \/ Becomes(p, next) /\ stamp' = stamp + 1
    BY <1>18 DEF Rename
  <2>2. /\ [admin[p] EXCEPT !.step = "update", !.setsMaps = FALSE, !.merged = NoFile].base
             = admin[p].base
        /\ [admin[p] EXCEPT !.step = "unlink"].base = admin[p].base
    BY <1>1 DEF Op
  <2>3. next.base \in {0, admin[p].base}
    BY <1>4, <2>2 DEF AfterUpdate
  <2> HIDE DEF next
  <2> QED
    BY <1>3, <1>5, <2>1, <2>3
<1>19. ASSUME NEW p \in Admin, UnlinkManifest(p) \/ KillAdmin(p) PROVE StampsArePast'
  BY <1>5, <1>19 DEF UnlinkManifest, KillAdmin, files
<1>20. ASSUME \/ \E n \in NsName : StartPush(n)
              \/ AgePush \/ FinishPush \/ UNCHANGED registryVars
       PROVE  StampsArePast'
  BY <1>2, <1>20 DEF StartPush, AgePush, FinishPush, registryVars
<1> QED
  BY <1>7, <1>8, <1>9, <1>10, <1>11, <1>12, <1>13, <1>14, <1>15, <1>16, <1>17, <1>18, <1>19, <1>20
     DEF RegistryNext

\* A deletion finishes without a push of its namespace, or with one that is
\* known to have slipped; and no push of it starts afterwards.
LEMMA PushStep ==
  ASSUME RegistryTypeOK, OpsReady, DirectoriesTell, PushIsSeen, DeletedIsNotPushed,
         [RegistryNext]_registryVars
  PROVE  PushIsSeen' /\ DeletedIsNotPushed'
<1> DEFINE Goal == PushIsSeen' /\ DeletedIsNotPushed'
           pushes == <<pushing, deleted, slipped>>
<1>1. admin \in [Admin -> Op]
  BY DEF OpsReady
<1>2. ASSUME UNCHANGED pushes, manifests' \subseteq manifests, UNCHANGED admin PROVE Goal
  BY <1>2 DEF PushIsSeen, DeletedIsNotPushed
<1>3. ASSUME NEW p \in Admin, NEW op, Becomes(p, op), UNCHANGED pushes,
             manifests' \subseteq manifests,
             op.do # "delete" \/ (op.do = admin[p].do /\ op.name = admin[p].name)
      PROVE  Goal
  <2>1. admin'[p] = op /\ \A q \in Admin : q # p => admin'[q] = admin[q]
    BY <1>1, <1>3, Becoming
  <2>2. \A q \in Admin : admin'[q].do = "delete" =>
          admin[q].do = "delete" /\ admin'[q].name = admin[q].name
    BY <1>3, <2>1
  <2> QED
    BY <1>3, <2>2 DEF PushIsSeen, DeletedIsNotPushed
<1>4. NoOp.do = "none"
  BY DEF NoOp
<1>5. ASSUME NEW p \in Admin, Becomes(p, NoOp), UNCHANGED pushes, manifests' \subseteq manifests
      PROVE  Goal
  BY <1>3, <1>4, <1>5
<1>6. ASSUME NEW p \in Admin, NEW op \in Op, NEW n, Becomes(p, Registering(op, n)),
             op.do # "delete", UNCHANGED <<pushes, manifests>>
      PROVE  Goal
  <2> DEFINE next == Registering(op, n)
  <2>1. next.do = op.do
    BY DEF Registering, Op
  <2> HIDE DEF next
  <2> QED
    BY <1>3, <1>6, <2>1 DEF next
<1>7. ASSUME NEW p \in Admin, NEW n \in NsName, BeginCreate(p, n) PROVE Goal
  <2>1. PICK d \in BOOLEAN :
          Becomes(p, [NoOp EXCEPT !.do = "create", !.name = n, !.step = "init",
                                  !.setDefault = d])
    BY <1>7 DEF BeginCreate
  <2> DEFINE op == [NoOp EXCEPT !.do = "create", !.name = n, !.step = "init", !.setDefault = d]
  <2>2. op.do = "create"
    BY DEF NoOp
  <2> HIDE DEF op
  <2>3. admin'[p] = op /\ \A q \in Admin : q # p => admin'[q] = admin[q]
    BY <1>1, <2>1, Becoming DEF op
  <2>4. /\ deleted' = deleted \ {n}
        /\ UNCHANGED <<pushing, slipped, manifests>>
    BY <1>7 DEF BeginCreate
  <2> QED
    BY <2>2, <2>3, <2>4 DEF PushIsSeen, DeletedIsNotPushed
<1>8. ASSUME NEW p \in Admin, NEW n \in NsName, BeginSwitch(p, n) PROVE Goal
  <2> DEFINE op == [NoOp EXCEPT !.do = "switch", !.name = n, !.step = "update",
                                !.setDefault = TRUE]
  <2>1. Becomes(p, op) \/ Becomes(p, Registering(op, n))
    BY <1>8 DEF BeginSwitch
  <2>2. op.do = "switch" /\ op \in Op /\ UNCHANGED <<pushes, manifests>>
    BY <1>8, NoOpReady DEF BeginSwitch, NoOp, Op, files, history
  <2> HIDE DEF op
  <2> QED
    BY <1>3, <1>6, <2>1, <2>2
<1>9. ASSUME NEW p \in Admin, NEW n \in NsName, BeginDelete(p, n) PROVE Goal
  <2> DEFINE op == [NoOp EXCEPT !.do = "delete", !.name = n, !.step = "remove",
                                !.setsMaps = TRUE, !.maps = Without({n}), !.base = stamp]
  <2>1. Becomes(p, op) /\ UNCHANGED <<pushing, manifests, deleted>>
    BY <1>9 DEF BeginDelete, Deleting, files
  <2>2. slipped' = IF pushing = n THEN slipped \cup {n} ELSE slipped
    BY <1>9 DEF BeginDelete, Deleting
  <2>3. op.do = "delete" /\ op.name = n
    BY DEF NoOp
  <2> HIDE DEF op
  <2>4. admin'[p] = op /\ \A q \in Admin : q # p => admin'[q] = admin[q]
    BY <1>1, <2>1, Becoming
  <2>5. slipped \subseteq slipped' /\ (pushing = n => n \in slipped')
    BY <2>2
  <2> QED
    BY <2>1, <2>3, <2>4, <2>5 DEF PushIsSeen, DeletedIsNotPushed
<1>10. ASSUME NEW p \in Admin, Register(p) PROVE Goal
  <2>1. admin[p].do = "create" /\ admin[p] \in Op
    BY <1>1, <1>10 DEF Register, OpsReady, OpReady
  <2> QED
    BY <1>6, <1>10, <2>1 DEF Register, files, history
<1>11. ASSUME NEW p \in Admin, RemoveDirectory(p) PROVE Goal
  <2> DEFINE op == [admin[p] EXCEPT !.step = "update"]
  <2>1. (Becomes(p, op) \/ Becomes(p, NoOp)) /\ UNCHANGED <<pushes, manifests>>
    BY <1>11 DEF RemoveDirectory
  <2>2. op.do = admin[p].do /\ op.name = admin[p].name
    BY <1>1 DEF Op
  <2> HIDE DEF op
  <2> QED
    BY <1>3, <1>5, <2>1, <2>2
<1>12. ASSUME NEW p \in Admin, BeginPrune(p) PROVE Goal
  <2> DEFINE op == [NoOp EXCEPT !.do = "prune", !.step = "plan",
                                !.dead = {n \in NsName : Mapped(n)}]
  <2>1. Becomes(p, op) /\ op.do = "prune" /\ UNCHANGED <<pushes, manifests>>
    BY <1>12 DEF BeginPrune, NoOp, files, history
  <2> HIDE DEF op
  <2> QED
    BY <1>3, <2>1
<1>13. ASSUME NEW p \in Admin, PlanPrune(p) PROVE Goal
  <2> DEFINE op == [admin[p] EXCEPT !.step = "apply", !.base = stamp, !.dead = @ \ dirs]
  <2>1. Becomes(p, op) /\ UNCHANGED <<pushes, manifests>>
    BY <1>13 DEF PlanPrune, files, history
  <2>2. op.do = admin[p].do /\ op.name = admin[p].name
    BY <1>1 DEF Op
  <2> HIDE DEF op
  <2> QED
    BY <1>3, <2>1, <2>2
<1>14. ASSUME NEW p \in Admin, ApplyPrune(p) PROVE Goal
  <2> DEFINE op == [admin[p] EXCEPT !.step = "update", !.setsMaps = TRUE,
                                    !.maps = Without(admin[p].dead)]
  <2>1. (Becomes(p, op) \/ Becomes(p, NoOp)) /\ UNCHANGED <<pushes, manifests>>
    BY <1>14 DEF ApplyPrune, files, history
  <2>2. op.do = admin[p].do /\ op.name = admin[p].name
    BY <1>1 DEF Op
  <2> HIDE DEF op
  <2> QED
    BY <1>3, <1>5, <2>1, <2>2
<1>15. ASSUME NEW p \in Admin, NEW elsewhere \in BOOLEAN, BeginSweep(p, elsewhere) PROVE Goal
  <2>1. PICK ghosts : \/ Becomes(p, NoOp)
                      \/ Becomes(p, [NoOp EXCEPT !.do = "sweep", !.step = "update",
                                                 !.setsMaps = TRUE, !.maps = Without(ghosts),
                                                 !.base = stamp])
    BY <1>15 DEF BeginSweep
  <2> DEFINE op == [NoOp EXCEPT !.do = "sweep", !.step = "update", !.setsMaps = TRUE,
                                !.maps = Without(ghosts), !.base = stamp]
  <2>2. op.do = "sweep" /\ UNCHANGED pushes /\ manifests' \subseteq manifests
    BY <1>15 DEF BeginSweep, NoOp
  <2>3. Becomes(p, NoOp) \/ Becomes(p, op)
    BY <2>1
  <2> HIDE DEF op
  <2> QED
    BY <1>3, <1>5, <2>2, <2>3
<1>16. ASSUME NEW p \in Admin, OpenTmp(p) PROVE Goal
  <2> DEFINE op == [admin[p] EXCEPT !.step = IF Guarded(admin[p]) THEN "rename" ELSE "fill",
                                    !.merged = Merge(admin[p]),
                                    !.base = IF admin[p].setsMaps THEN @ ELSE stamp]
  <2>1. (Becomes(p, op) \/ Becomes(p, NoOp)) /\ UNCHANGED <<pushes, manifests>>
    BY <1>16 DEF OpenTmp
  <2>2. op.do = admin[p].do /\ op.name = admin[p].name
    BY <1>1 DEF Op
  <2> HIDE DEF op
  <2> QED
    BY <1>3, <1>5, <2>1, <2>2
<1>17. ASSUME NEW p \in Admin, FillTmp(p) PROVE Goal
  <2> DEFINE op == [admin[p] EXCEPT !.step = "rename"]
  <2>1. Becomes(p, op) /\ UNCHANGED <<pushes, manifests>>
    BY <1>17 DEF FillTmp, history
  <2>2. op.do = admin[p].do /\ op.name = admin[p].name
    BY <1>1 DEF Op
  <2> HIDE DEF op
  <2> QED
    BY <1>3, <2>1, <2>2
<1>18. ASSUME NEW p \in Admin, Rename(p) PROVE Goal
  <2> DEFINE next == AfterUpdate(admin[p])
             again == [admin[p] EXCEPT !.step = "update", !.setsMaps = FALSE, !.merged = NoFile]
             last == [admin[p] EXCEPT !.step = "unlink"]
  <2>1. (Becomes(p, NoOp) \/ Becomes(p, next)) /\ UNCHANGED <<pushes, manifests>>
    BY <1>18 DEF Rename
  <2>2. /\ again.do = admin[p].do /\ again.name = admin[p].name
        /\ last.do = admin[p].do /\ last.name = admin[p].name
    BY <1>1 DEF Op
  <2>3. next = again \/ next = last \/ next = NoOp
    BY Zenon DEF AfterUpdate
  <2> HIDE DEF next, again, last
  <2> QED
    BY <1>3, <1>4, <1>5, <2>1, <2>2, <2>3
<1>19. ASSUME NEW p \in Admin, UnlinkManifest(p) PROVE Goal
  <2> DEFINE op == admin[p]
             names == IF op.do = "prune" THEN op.dead ELSE {op.name}
  <2>1. /\ manifests' = manifests \ names
        /\ deleted' = IF op.do = "delete" THEN deleted \cup (names \ dirs) ELSE deleted
        /\ Becomes(p, NoOp) /\ UNCHANGED <<pushing, slipped>>
    BY <1>19 DEF UnlinkManifest
  <2>2. admin'[p] = NoOp /\ \A q \in Admin : q # p => admin'[q] = admin[q]
    BY <1>1, <2>1, Becoming
  <2>3. \A q \in Admin : admin'[q].do = "delete" => admin'[q] = admin[q]
    BY <1>4, <2>2
  <2>4. \/ deleted' = deleted
        \/ deleted' = deleted \cup (names \ dirs) /\ names = {op.name} /\ op.do = "delete"
    BY <2>1
  <2>5. op.do = "delete" /\ op.name = pushing => pushing \in slipped
    BY DEF PushIsSeen
  <2> HIDE DEF names, op
  <2>6. PushIsSeen'
    BY <2>1, <2>3, <2>4, <2>5 DEF PushIsSeen
  <2>7. DeletedIsNotPushed'
    BY <2>1, <2>4 DEF DeletedIsNotPushed
  <2> QED
    BY <2>6, <2>7
<1>20. ASSUME NEW p \in Admin, KillAdmin(p) PROVE Goal
  BY <1>5, <1>20 DEF KillAdmin, files, history
<1>21. ASSUME NEW n \in NsName, StartPush(n) PROVE Goal
  <2>1. /\ n \in dirs /\ pushing' = n /\ UNCHANGED <<manifests, deleted, admin>>
        /\ slipped' = IF \E p \in Admin : admin[p].do = "delete" /\ admin[p].name = n
                        THEN slipped \cup {n} ELSE slipped
    BY <1>21 DEF StartPush
  <2>2. slipped \subseteq slipped' /\ n \notin deleted
    BY <2>1 DEF DirectoriesTell
  <2>3. \A p \in Admin : admin[p].do = "delete" /\ admin[p].name = n => n \in slipped'
    BY <2>1
  <2> QED
    BY <2>1, <2>2, <2>3 DEF PushIsSeen, DeletedIsNotPushed
<1>22. ASSUME FinishPush PROVE Goal
  <2>1. /\ manifests' = manifests \cup {pushing} /\ pushing' = NoNs
        /\ UNCHANGED <<admin, deleted, slipped>>
    BY <1>22 DEF FinishPush, history
  <2>2. \A p \in Admin : admin[p].do = "delete" => admin[p].name \in NsName
    BY DEF OpsReady, OpReady
  <2>3. NoNs \notin NsName /\ deleted \subseteq NsName
    BY RegistryAssumption DEF RegistryTypeOK
  <2> QED
    BY <2>1, <2>2, <2>3 DEF PushIsSeen, DeletedIsNotPushed
<1>23. ASSUME AgePush \/ UNCHANGED registryVars PROVE Goal
  BY <1>2, <1>23 DEF AgePush, history, registryVars
<1> QED
  BY <1>7, <1>8, <1>9, <1>10, <1>11, <1>12, <1>13, <1>14, <1>15, <1>16, <1>17, <1>18, <1>19, <1>20,
     <1>21, <1>22, <1>23 DEF RegistryNext

\* Every step keeps the types.
LEMMA TypesStep ==
  ASSUME RegistryTypeOK, OpsReady, OpsReady', [RegistryNext]_registryVars
  PROVE  RegistryTypeOK'
<1>1. /\ config \in Config \cup {TornConfig} /\ tmp \in Config \cup {TornConfig, NoFile}
      /\ stamp \in Nat /\ opsBegun \in 0..MaxOps /\ MaxOps \in Nat /\ clobbered \in BOOLEAN
  BY RegistryAssumption DEF RegistryTypeOK
<1>2. /\ dirs \subseteq NsName /\ manifests \subseteq NsName /\ registered \subseteq NsName
      /\ deleted \subseteq NsName /\ slipped \subseteq NsName /\ misread \subseteq NsName
      /\ pushing \in NsName \cup {NoNs} /\ pushIsOld \in BOOLEAN
  BY DEF RegistryTypeOK
<1>3. \A p \in Admin : admin[p] \in Op
  BY DEF OpsReady
<1>4. \A p \in Admin :
        /\ admin'[p].do \in {"none", "create", "switch", "delete", "prune", "sweep"}
        /\ admin'[p].step \in {"idle", "init", "remove", "plan", "apply", "update", "fill",
                               "rename", "unlink"}
  BY DEF OpsReady, Op
<1>5. ASSUME UNCHANGED <<config, tmp, stamp>> \/ \E p \in Admin :
               OpenTmp(p) \/ FillTmp(p) \/ Rename(p)
      PROVE  config' \in Config \cup {TornConfig} /\ tmp' \in Config \cup {TornConfig, NoFile}
             /\ stamp' \in Nat
  <2>1. CASE UNCHANGED <<config, tmp, stamp>>
    BY <1>1, <2>1
  <2>2. ASSUME NEW p \in Admin, OpenTmp(p)
        PROVE  tmp' \in {tmp, TornConfig} /\ UNCHANGED <<config, stamp>>
    BY <2>2 DEF OpenTmp
  <2>3. ASSUME NEW p \in Admin, FillTmp(p)
        PROVE  tmp' \in Config \cup {NoFile} /\ UNCHANGED <<config, stamp>>
    BY <1>3, <2>3 DEF FillTmp, Op
  <2>4. ASSUME NEW p \in Admin, Rename(p)
        PROVE  /\ config' \in Config \cup {TornConfig} /\ tmp' \in {tmp, NoFile}
               /\ stamp' \in {stamp, stamp + 1}
    <3> DEFINE new == IF Guarded(admin[p]) THEN admin[p].merged ELSE tmp
    <3>1. new \in Config \cup {TornConfig, NoFile}
      BY <1>1, <1>3 DEF Op
    <3>2. \/ new = NoFile /\ UNCHANGED <<config, tmp, stamp>>
          \/ /\ new # NoFile /\ config' = new /\ tmp' \in {tmp, NoFile}
             /\ stamp' = stamp + 1
      BY <2>4 DEF Rename
    <3> HIDE DEF new
    <3> QED
      BY <1>1, <3>1, <3>2
  <2> QED
    BY <1>1, <1>5, <2>1, <2>2, <2>3, <2>4
<1> DEFINE FileTypes == /\ config' \in Config \cup {TornConfig}
                         /\ tmp' \in Config \cup {TornConfig, NoFile}
                         /\ stamp' \in Nat
           NameTypes == /\ dirs' \subseteq NsName /\ manifests' \subseteq NsName
                        /\ registered' \subseteq NsName /\ deleted' \subseteq NsName
                        /\ slipped' \subseteq NsName /\ misread' \subseteq NsName
                        /\ pushing' \in NsName \cup {NoNs} /\ pushIsOld' \in BOOLEAN
<1> HIDE DEF FileTypes, NameTypes
<1>6. ASSUME FileTypes, NameTypes, opsBegun' \in 0..MaxOps, clobbered' \in BOOLEAN
      PROVE  RegistryTypeOK'
  BY <1>4, <1>6 DEF RegistryTypeOK, FileTypes, NameTypes
<1>7. ASSUME NEW p \in Admin,
             \/ \E n \in NsName : BeginCreate(p, n) \/ BeginSwitch(p, n) \/ BeginDelete(p, n)
             \/ BeginPrune(p)
             \/ \E elsewhere \in BOOLEAN : BeginSweep(p, elsewhere)
      PROVE  RegistryTypeOK'
  <2>1. opsBegun < MaxOps /\ opsBegun' = opsBegun + 1
    BY <1>7, ZenonT(60) DEF BeginCreate, BeginSwitch, BeginDelete, BeginPrune, BeginSweep, Begins
  <2>2. opsBegun' \in 0..MaxOps
    BY <1>1, <2>1, SMTT(30)
  <2>3. UNCHANGED <<config, tmp, stamp, clobbered>>
    BY <1>7 DEF BeginCreate, BeginSwitch, BeginDelete, Deleting, BeginPrune, BeginSweep, files,
       history
  <2>4. FileTypes
    BY <1>1, <2>3 DEF FileTypes
  <2>5. ASSUME NEW n \in NsName, BeginCreate(p, n) PROVE NameTypes
    BY <1>2, <2>5 DEF BeginCreate, NameTypes
  <2>6. ASSUME NEW n \in NsName, BeginDelete(p, n) PROVE NameTypes
    <3>1. UNCHANGED <<dirs, manifests, registered, deleted, misread, pushing, pushIsOld>>
      BY <2>6 DEF BeginDelete, Deleting, files
    <3>2. slipped' \subseteq slipped \cup {n}
      BY <2>6 DEF BeginDelete, Deleting
    <3> QED
      BY <1>2, <3>1, <3>2 DEF NameTypes
  <2>7. ASSUME (\E n \in NsName : BeginSwitch(p, n)) \/ BeginPrune(p) PROVE NameTypes
    BY <1>2, <2>7 DEF BeginSwitch, BeginPrune, files, history, NameTypes
  <2>8. ASSUME NEW elsewhere \in BOOLEAN, BeginSweep(p, elsewhere) PROVE NameTypes
    BY <1>2, <2>8 DEF BeginSweep, NameTypes
  <2> QED
    BY <1>1, <1>6, <1>7, <2>1, <2>2, <2>3, <2>4, <2>5, <2>6, <2>7, <2>8
<1>8. ASSUME NEW p \in Admin, OpenTmp(p) \/ FillTmp(p) \/ Rename(p) PROVE RegistryTypeOK'
  <2>1. FileTypes
    BY <1>5, <1>8 DEF FileTypes
  <2>2. UNCHANGED <<dirs, manifests, deleted, slipped, misread, pushing, pushIsOld, opsBegun>>
    BY <1>8 DEF OpenTmp, FillTmp, Rename, history
  <2>3. registered' \subseteq registered \cup dirs
    BY <1>8 DEF OpenTmp, FillTmp, Rename, history
  <2>4. clobbered' \in BOOLEAN
    BY <1>1, <1>8 DEF OpenTmp, FillTmp, Rename, history
  <2>5. NameTypes
    BY <1>2, <2>2, <2>3 DEF NameTypes
  <2> QED
    BY <1>1, <1>6, <2>1, <2>2, <2>4, <2>5
<1>9. ASSUME UNCHANGED <<config, tmp, stamp, opsBegun, clobbered>>, NameTypes PROVE RegistryTypeOK'
  BY <1>1, <1>6, <1>9 DEF FileTypes
<1>10. ASSUME NEW p \in Admin, RemoveDirectory(p) PROVE RegistryTypeOK'
  BY <1>2, <1>9, <1>10 DEF RemoveDirectory, NameTypes
<1>11. ASSUME NEW p \in Admin, UnlinkManifest(p) PROVE RegistryTypeOK'
  <2>1. admin[p].do = "delete" => admin[p].name \in NsName
    BY DEF OpsReady, OpReady
  <2>2. /\ manifests' \subseteq manifests
        /\ deleted' = deleted \/ deleted' = deleted \cup ({admin[p].name} \ dirs)
        /\ deleted' # deleted => admin[p].do = "delete"
        /\ UNCHANGED <<config, tmp, stamp, opsBegun, clobbered>>
        /\ UNCHANGED <<dirs, registered, slipped, misread, pushing, pushIsOld>>
    BY <1>11 DEF UnlinkManifest
  <2>3. NameTypes
    BY <1>2, <2>1, <2>2 DEF NameTypes
  <2> QED
    BY <1>9, <2>2, <2>3
<1>12. ASSUME NEW n \in NsName, StartPush(n) PROVE RegistryTypeOK'
  <2>1. /\ pushing' = n /\ pushIsOld' = FALSE /\ slipped' \subseteq slipped \cup {n}
        /\ UNCHANGED <<config, tmp, stamp, opsBegun, clobbered>>
        /\ UNCHANGED <<dirs, manifests, registered, deleted, misread>>
    BY <1>12 DEF StartPush
  <2>2. NameTypes
    BY <1>2, <2>1 DEF NameTypes
  <2> QED
    BY <1>9, <2>1, <2>2
<1>13. ASSUME \/ AgePush \/ FinishPush \/ UNCHANGED registryVars
              \/ \E p \in Admin : Register(p) \/ PlanPrune(p) \/ ApplyPrune(p) \/ KillAdmin(p)
       PROVE  RegistryTypeOK'
  <2>1. /\ UNCHANGED <<config, tmp, stamp, opsBegun, clobbered>>
        /\ UNCHANGED <<dirs, registered, deleted, slipped, misread>>
    BY <1>13 DEF AgePush, FinishPush, registryVars, Register, PlanPrune, ApplyPrune, KillAdmin,
       files, history
  <2>2. /\ manifests' = manifests \/ (pushing # NoNs /\ manifests' = manifests \cup {pushing})
        /\ pushing' \in {pushing, NoNs} /\ pushIsOld' \in BOOLEAN
    BY <1>2, <1>13 DEF AgePush, FinishPush, registryVars, Register, PlanPrune, ApplyPrune,
       KillAdmin, files
  <2>3. NameTypes
    BY <1>2, <2>1, <2>2 DEF NameTypes
  <2> QED
    BY <1>9, <2>1, <2>3
<1> QED
  BY <1>7, <1>8, <1>10, <1>11, <1>12, <1>13 DEF RegistryNext

\* The initial states satisfy the invariant.
LEMMA RegistryInits ==
  ASSUME RegistryInit
  PROVE  RegistryInvariant
<1>1. PICK m \in [NsName -> {"none", "rel"}] : config = [maps |-> m, default |-> DefaultNs]
  BY DEF RegistryInit
<1>2. /\ dirs \subseteq {n \in NsName : m[n] = "rel"} /\ registered = dirs
      /\ tmp = NoFile /\ stamp = 0 /\ manifests = {} /\ pushing = NoNs /\ pushIsOld = FALSE
      /\ admin = [p \in Admin |-> NoOp] /\ opsBegun = 0 /\ deleted = {} /\ slipped = {}
      /\ clobbered = FALSE /\ misread = {}
  BY <1>1 DEF RegistryInit
<1>3. \A p \in Admin : admin[p] = NoOp
  BY <1>2
<1>4. OpsReady
  BY <1>2, NoOpReady DEF OpsReady
<1>5. DirectoriesTell
  BY <1>2 DEF DirectoriesTell
<1>6. StampsArePast
  BY <1>2, <1>3 DEF StampsArePast, NoOp
<1>7. NothingLost /\ TmpHasOneWriter
  BY <1>3 DEF NothingLost, WritesNoLoss, TmpHasOneWriter, Writing, NoOp
<1>8. PushIsSeen /\ DeletedIsNotPushed
  BY <1>2, <1>3 DEF PushIsSeen, DeletedIsNotPushed, NoOp
<1>9. m \in [NsName -> Mapping] /\ DefaultNs \in NsName \cup {DefaultNs}
  BY DEF Mapping
<1>10. config \in Config
  BY <1>1, <1>9 DEF Config
<1>11. RegistryTypeOK
  <2>1. \A p \in Admin :
          /\ admin[p].do \in {"none", "create", "switch", "delete", "prune", "sweep"}
          /\ admin[p].step \in {"idle", "init", "remove", "plan", "apply", "update", "fill",
                                "rename", "unlink"}
    BY <1>3 DEF NoOp
  <2>2. 0 \in 0..MaxOps
    BY RegistryAssumption
  <2>3. dirs \cup manifests \cup registered \cup deleted \cup slipped \cup misread \subseteq NsName
    BY <1>2
  <2> QED
    BY <1>2, <1>10, <2>1, <2>2, <2>3 DEF RegistryTypeOK
<1>12. RowsKept
  <2>1. \A n \in NsName : n \in dirs => m[n] # "none" /\ config # TornConfig
    BY <1>1, <1>2 DEF TornConfig
  <2> QED
    BY <1>1, <1>2, <2>1 DEF RowsKept, Kept, Mapped, readFileConfig
<1> QED
  BY <1>4, <1>5, <1>6, <1>7, <1>8, <1>11, <1>12 DEF RegistryInvariant

\* RegistryInvariant holds throughout: the registry of src/config/index.ts with
\* the namespace operations that write it.
THEOREM RegistryInvariantHolds == RegistrySpec => []RegistryInvariant
<1>1. RegistryInit => RegistryInvariant
  BY RegistryInits
<1>2. RegistryInvariant /\ [RegistryNext]_registryVars => RegistryInvariant'
  <2>1. SUFFICES ASSUME RegistryInvariant, [RegistryNext]_registryVars PROVE RegistryInvariant'
    OBVIOUS
  <2>2. /\ OpsReady /\ DirectoriesTell /\ StampsArePast /\ NothingLost /\ TmpHasOneWriter
        /\ PushIsSeen /\ RegistryTypeOK /\ RowsKept /\ DeletedIsNotPushed
    BY <2>1 DEF RegistryInvariant
  <2>3. OpsReady'
    BY <2>1, <2>2, OpsStep
  <2>4. DirectoriesTell' /\ StampsArePast' /\ TmpHasOneWriter'
    BY <2>1, <2>2, DirectoriesStep, StampStep, TmpStep
  <2>5. NothingLost' /\ RowsKept'
    BY <2>1, <2>2, <2>3, NoLossStep
  <2>6. PushIsSeen' /\ DeletedIsNotPushed'
    BY <2>1, <2>2, PushStep
  <2>7. RegistryTypeOK'
    BY <2>1, <2>2, <2>3, TypesStep
  <2> QED
    BY <2>3, <2>4, <2>5, <2>6, <2>7 DEF RegistryInvariant
<1> QED
  BY <1>1, <1>2, PTL DEF RegistrySpec

\* A namespace that was registered keeps its row while its directory is there,
\* unless updates that are not guarded overlapped or a sweep misread the row.
THEOREM RegisteredStaysHolds == RegistrySpec => []RegisteredStays
<1>1. RegistryInvariant => RegisteredStays
  BY DEF RegistryInvariant, RegisteredStays, RowsKept, Kept
<1> QED
  BY <1>1, RegistryInvariantHolds, PTL

\* A deleted namespace has no manifest left that would keep it in the scheduled
\* pushes, unless a push of it slipped through its deletion.
THEOREM DeletedIsNotPushedHolds == RegistrySpec => []DeletedIsNotPushed
<1>1. RegistryInvariant => DeletedIsNotPushed
  BY DEF RegistryInvariant
<1> QED
  BY <1>1, RegistryInvariantHolds, PTL

-----------------------------------------------------------------------------
(***************************************************************************)
(* Push and pull, for any number of hosts, files and calls, wherever a     *)
(* request fails, a deadline fires or a process is killed.  SyncInvariant  *)
(* is inductive; the five properties follow from it.                       *)
(***************************************************************************)

S3SyncSpec == S3SyncInit /\ [][S3SyncNext]_s3SyncVars

\* Functions from some of the files, a call.
Of(T) == UNION {[S -> T] : S \in SUBSET SyncFile}
Manifest == Of(Entry) \cup {NoRecord}
Ledger == Of(Body) \cup {NoRecord}
SomeFiles == SUBSET SyncFile
Host == SyncHost \cup {NoRecord}
Direction == {"none", "push", "pull"}
Step == {"idle", "reading", "transfer", "publish"}
Reply == SUBSET {"listing", "ledger"}
Call ==
  [host : Host, dir : Direction, step : Step, has : Reply, walked : SomeFiles,
   newer : SomeFiles, base : Manifest, listed : Of(Tag), names : Ledger, seen : Of(Body),
   left : SomeFiles, synced : Of(Entry), failed : SomeFiles, repaired : SomeFiles,
   aborted : BOOLEAN, alone : BOOLEAN]

\* The types, those of the calls and the records in full.
SyncTypes ==
  /\ tags \in {"md5", "part"}
  /\ tree \in [SyncHost -> [SyncFile -> Body]]
  /\ bucket \in [SyncFile -> [body : Body, tag : Tag]]
  /\ checksums \in Ledger
  /\ manifest \in [SyncHost -> Manifest]
  /\ touched \in [SyncHost -> SUBSET SyncFile] /\ unconfirmed \in [SyncHost -> SUBSET SyncFile]
  /\ everPushed \in SUBSET SyncHost
  /\ syncLock \in [SyncHost -> SyncCall \cup {NoRecord, Dead}]
  /\ sync \in [SyncCall -> Call]
  /\ version \in 0..MaxVersion /\ syncs \in 0..MaxSyncs /\ mishaps \in 0..MaxMishaps
  /\ tokens \in Nat
  /\ mirrored \in SUBSET Body /\ racedBodies \in SUBSET Body /\ unsent \in SUBSET Body
  /\ blessed \in SUBSET Body /\ overwritten \in SUBSET Body
  /\ astray \in SUBSET SyncFile /\ unproved \in SUBSET SyncFile /\ rotten \in SUBSET SyncFile
  /\ unsettled \in BOOLEAN

Runs(c) == sync[c].step # "idle"
Transfers(c, dir) == sync[c].step = "transfer" /\ sync[c].dir = dir
Pushes(c) == sync[c].step \in {"transfer", "publish"} /\ sync[c].dir = "push"

\* What a call holds at each of its steps.
CallShape ==
  \A c \in SyncCall :
    LET s == sync[c] IN
    /\ ~Runs(c) => s = NoSync
    /\ Runs(c) =>
         /\ s.host \in SyncHost /\ s.dir \in {"push", "pull"} /\ s.left \cap s.failed = {}
         /\ \A f \in s.walked : tree[s.host][f] # NoBody
    /\ s.step = "reading" =>
         /\ s.left = {} /\ s.synced = <<>> /\ s.failed = {} /\ s.repaired = {}
         /\ s.seen = <<>> /\ ~s.aborted
         /\ s.listed = <<>> \/ DOMAIN s.listed = SyncFile
         /\ "listing" \in s.has => DOMAIN s.listed = SyncFile
    /\ s.step = "publish" => s.dir = "push" /\ s.left = {}
    /\ Pushes(c) =>
         /\ DOMAIN s.seen = s.walked /\ s.left \cup s.failed \subseteq s.walked
         /\ \A f \in s.walked : s.seen[f] # NoBody
         /\ Files(s.synced) \cap (s.left \cup s.failed) = {}
         /\ Files(s.synced) \subseteq s.walked
         /\ \A f \in s.failed : s.seen[f] \in unsent
         /\ \A f \in Files(s.synced) : 
              \/ f \in Files(s.base) /\ s.synced[f] = s.base[f]
              \/ s.synced[f].sha = s.seen[f]
    /\ Transfers(c, "pull") =>
         /\ DOMAIN s.listed = SyncFile
         /\ \A f \in s.left \cup s.repaired : s.listed[f] # NoTag
         /\ s.repaired \cap (s.left \cup s.failed) = {}
         /\ Missing(s) \subseteq s.failed
         /\ s.base # NoRecord => s.newer = {}

\* Objects and bodies: what is in the bucket was stored or is garbage, an ETag
\* says which object it is, and no body is ahead of the last version.
BucketShape ==
  /\ \A f \in SyncFile :
       /\ bucket[f].body = NoBody <=> bucket[f].tag = NoTag
       /\ bucket[f].body \in mirrored \cup {NoBody, Rot}
       /\ bucket[f].tag # NoTag =>
            IF tags = "md5" THEN bucket[f].tag = <<"md5", bucket[f].body>>
            ELSE bucket[f].tag[1] = "part" /\ bucket[f].tag[2] <= tokens
  /\ NoBody \notin mirrored
  /\ \A b \in mirrored : b <= version
  /\ \A h \in SyncHost, f \in SyncFile : tree[h][f] <= version
  /\ \A c \in SyncCall : \A f \in DOMAIN sync[c].seen : sync[c].seen[f] <= version

\* An ETag that was seen: of a body that was stored or of garbage, or a token
\* that was given.
Seen(tag) ==
  tag # NoTag =>
    IF tags = "md5" THEN tag[1] = "md5" /\ tag[2] \in mirrored \cup {Rot}
    ELSE tag[1] = "part" /\ tag[2] <= tokens

TagsWereSeen ==
  /\ \A h \in SyncHost : \A f \in Files(manifest[h]) : Seen(manifest[h][f].tag)
  /\ \A c \in SyncCall :
       /\ \A f \in DOMAIN sync[c].listed : Seen(sync[c].listed[f])
       /\ \A f \in Files(sync[c].base) : Seen(sync[c].base[f].tag)
       /\ \A f \in Files(sync[c].synced) : Seen(sync[c].synced[f].tag)

\* Garbage is on a disk, in a record or in the ledger only for a file that a pull
\* restored with no ledger that names it; and only for one that was damaged.
RotIsUnproved ==
  /\ \A f \in Files(checksums) : checksums[f] = Rot => f \in unproved
  /\ \A h \in SyncHost, f \in SyncFile :
       /\ tree[h][f] = Rot => f \in unproved
       /\ f \in Files(manifest[h]) /\ manifest[h][f].sha = Rot => f \in unproved
  /\ \A c \in SyncCall, f \in SyncFile :
       LET s == sync[c] IN
       /\ f \in DOMAIN s.seen /\ s.seen[f] = Rot => f \in unproved
       /\ f \in Files(s.names) /\ s.names[f] = Rot => f \in unproved
       /\ f \in Files(s.base) /\ s.base[f].sha = Rot => f \in unproved
       /\ f \in Files(s.synced) /\ s.synced[f].sha = Rot => f \in unproved

RotIsRotten ==
  \A f \in SyncFile \ rotten :
    /\ bucket[f].body # Rot
    /\ \A h \in SyncHost : tree[h][f] # Rot
    /\ \A c \in SyncCall : f \in DOMAIN sync[c].seen => sync[c].seen[f] # Rot

\* Bytes that are in no object are those of one file of one host.
Stored(b) == b \in mirrored \cup {NoBody, Rot}
OneHolder ==
  \A h \in SyncHost, f \in SyncFile :
    ~Stored(tree[h][f]) =>
      /\ \A g \in SyncHost, e \in SyncFile : tree[g][e] = tree[h][f] => g = h /\ e = f
      /\ \A c \in SyncCall : \A e \in DOMAIN sync[c].seen :
           sync[c].seen[e] = tree[h][f] => sync[c].host = h /\ e = f

\* An entry with an ETag has the sha256 of bytes that were stored, or raced a call.
Unstored(b) == b \notin mirrored \cup racedBodies \cup {NoBody, Rot}
Sound(entry) == entry.tag # NoTag => entry.sha \in mirrored \cup racedBodies \cup {Rot}
EntriesAreSound ==
  /\ \A h \in SyncHost : \A f \in Files(manifest[h]) : Sound(manifest[h][f])
  /\ \A c \in SyncCall :
       /\ \A f \in Files(sync[c].base) : Sound(sync[c].base[f])
       /\ \A f \in Files(sync[c].synced) : Sound(sync[c].synced[f])

\* A record that tells that bytes were not transferred: it has no entry, or one
\* without an ETag that a pull made of them.
Leaves(record, h, f) ==
  /\ record # NoRecord
  /\ f \in Files(record) => record[f].tag = NoTag /\ tree[h][f] \in blessed

\* Local bytes that are in no object are newer than the last push, and newer than
\* the last sync, or left out by it; if neither blessed nor unsent, newer.
Untold(h, f) == Unstored(tree[h][f]) /\ tree[h][f] \notin blessed \cup unsent
UnstoredIsTold ==
  \A h \in SyncHost, f \in SyncFile :
    /\ Unstored(tree[h][f]) =>
         /\ f \in unconfirmed[h]
         /\ f \in touched[h] \/ Leaves(manifest[h], h, f)
    /\ Untold(h, f) => f \in touched[h]

\* The same of what a call found when it started.
CallFoundUnstored ==
  \A c \in SyncCall, f \in SyncFile :
    LET s == sync[c]
        h == sync[c].host IN
    Runs(c) =>
      /\ Unstored(tree[h][f]) => f \in s.walked /\ (f \in s.newer \/ Leaves(s.base, h, f))
      /\ Untold(h, f) => f \in s.newer

\* A push is still to send them, or failed to.
PushSendsUnstored ==
  \A c \in SyncCall, f \in SyncFile :
    LET s == sync[c] IN
    Pushes(c) /\ Unstored(tree[s.host][f]) =>
      f \in s.left \cup s.failed /\ s.seen[f] = tree[s.host][f]

\* A pull has them only where there is no object, or it failed to restore one.
PullRestored ==
  \A c \in SyncCall, f \in SyncFile :
    LET s == sync[c]
        body == tree[sync[c].host][f] IN
    Transfers(c, "pull") =>
      /\ s.listed[f] # NoTag /\ f \notin s.left \cup s.failed =>
           body # NoBody /\ ~Unstored(body)
      /\ f \in s.failed /\ Unstored(body) => body \in unsent

\* A call that is alone is the only one on its host and, if it pushes, the only
\* push; it works on the manifest of the host.  What another call on the host has
\* not saved is astray.  A push that runs leaves the ledger unsettled.
AloneIsAlone ==
  \A c \in SyncCall :
    /\ sync[c].alone /\ Runs(c) =>
         /\ \A d \in SyncCall \ {c} : ~Meets(d, sync[c].host, sync[c].dir)
         /\ sync[c].step # "publish" => manifest[sync[c].host] = sync[c].base
    /\ \A d \in SyncCall \ {c} :
         Runs(c) /\ sync[d].host = sync[c].host => Unsaved(sync[c]) \subseteq astray
    /\ Pushing(c) => unsettled

\* A record has the sha256 of the local bytes, when these are in some object:
\* excused is a file whose transfer is not in a saved manifest.
Excused(h, f) == f \in astray \cup rotten \/ \E c \in CallsOf(h) : f \in Unsaved(sync[c])
Knows(record, h, f) ==
  f \in Files(record) /\ tree[h][f] \in mirrored /\ ~Excused(h, f) => record[f].sha = tree[h][f]
RecordsKnowTree ==
  \A h \in SyncHost, f \in SyncFile :
    /\ Knows(manifest[h], h, f)
    /\ \A c \in CallsOf(h) : sync[c].step # "publish" => Knows(sync[c].base, h, f)

\* What a push has read is what is on the disk, or the disk has a newer version.
SeenIsTree ==
  \A c \in SyncCall :
    LET s == sync[c] IN
    Pushes(c) =>
      \A f \in s.walked \ (astray \cup rotten) :
        tree[s.host][f] \in {s.seen[f]} \/ tree[s.host][f] \notin mirrored

\* Tokens: an entry with the token of the object has the sha256 of its body.
Tells(record, f) ==
  /\ f \in Files(record) \ (astray \cup rotten)
  /\ record[f].tag[1] = "part" /\ record[f].tag = bucket[f].tag
  => record[f].sha \in {bucket[f].body} \cup blessed
TokensTell ==
  \A f \in SyncFile :
    /\ \A h \in SyncHost : Tells(manifest[h], f)
    /\ \A c \in SyncCall : Tells(sync[c].base, f) /\ Tells(sync[c].synced, f)

\* A file was restored from the object with the listed token, or written since.
RestoredIsObject ==
  \A c \in SyncCall :
    LET s == sync[c] IN
    Transfers(c, "pull") =>
      \A f \in s.repaired \ rotten :
        s.listed[f][1] = "part" /\ s.listed[f] = bucket[f].tag =>
          tree[s.host][f] = bucket[f].body \/ tree[s.host][f] \notin mirrored

\* What a push that is alone is to publish.
PublishedIsStored ==
  \A c \in SyncCall :
    Pushes(c) /\ sync[c].alone =>
      \A f \in Files(sync[c].synced) \ (astray \cup rotten) :
        sync[c].synced[f].sha \in {bucket[f].body} \cup blessed

\* The inductive invariant.
SyncInvariant ==
  /\ SyncTypes /\ CallShape /\ BucketShape /\ TagsWereSeen
  /\ RotIsUnproved /\ RotIsRotten /\ OneHolder /\ EntriesAreSound
  /\ UnstoredIsTold /\ CallFoundUnstored /\ PushSendsUnstored /\ PullRestored
  /\ AloneIsAlone /\ RecordsKnowTree /\ SeenIsTree /\ TokensTell
  /\ RestoredIsObject /\ PublishedIsStored /\ LedgerDescribesObjects
  /\ PullLosesOnlyExcused

-----------------------------------------------------------------------------

\* The fields of a call.
LEMMA CallParts ==
  ASSUME NEW s \in Call
  PROVE  /\ s.host \in SyncHost \cup {NoRecord} /\ s.dir \in {"none", "push", "pull"}
         /\ s.step \in {"idle", "reading", "transfer", "publish"}
         /\ s.has \in SUBSET {"listing", "ledger"}
         /\ s.walked \in SUBSET SyncFile /\ s.newer \in SUBSET SyncFile
         /\ s.base \in Of(Entry) \cup {NoRecord} /\ s.listed \in Of(Tag)
         /\ s.names \in Of(Body) \cup {NoRecord} /\ s.seen \in Of(Body)
         /\ s.left \in SUBSET SyncFile /\ s.synced \in Of(Entry)
         /\ s.failed \in SUBSET SyncFile /\ s.repaired \in SUBSET SyncFile
         /\ s.aborted \in BOOLEAN /\ s.alone \in BOOLEAN
BY DEF Call, Host, Direction, Step, Reply, SomeFiles, Manifest, Ledger

USE S3SyncAssumption

\* A function from some of the files, and when a function is one.
LEMMA OfParts ==
  ASSUME NEW T, NEW g \in Of(T)
  PROVE  DOMAIN g \subseteq SyncFile /\ \A f \in DOMAIN g : g[f] \in T
BY DEF Of

LEMMA OfHas ==
  ASSUME NEW T, NEW F \in SUBSET SyncFile, NEW g \in [F -> T]
  PROVE  g \in Of(T)
BY DEF Of

\* The empty function is one.
LEMMA NothingIsOf ==
  ASSUME NEW T
  PROVE  <<>> \in Of(T)
<1>1. <<>> \in [{} -> T]
  OBVIOUS
<1> QED
  BY <1>1, OfHas

\* A function of entries or of bodies is a record, and is not NoRecord.
LEMMA EntriesAreRecords ==
  ASSUME NEW F \in SUBSET SyncFile, NEW g \in [F -> Entry] \cup [F -> Body]
  PROVE  g # NoRecord /\ Files(g) = F
BY NoRecordAssumption DEF Files

\* The idle call is a call.
LEMMA NoSyncIsCall == NoSync \in Call
<1>1. /\ NoRecord \in Manifest /\ NoRecord \in Ledger /\ NoRecord \in Host
      /\ {} \in SomeFiles /\ {} \in Reply /\ "none" \in Direction /\ "idle" \in Step
  BY DEF Manifest, Ledger, Host, SomeFiles, Reply, Direction, Step
<1>2. <<>> \in Of(Tag) /\ <<>> \in Of(Body) /\ <<>> \in Of(Entry)
  BY NothingIsOf
<1> QED
  BY <1>1, <1>2 DEF NoSync, Call

\* A call that does not run holds nothing.
LEMMA NoSyncHolds ==
  /\ NoSync.host = NoRecord /\ NoSync.dir = "none" /\ NoSync.step = "idle"
  /\ NoSync.walked = {} /\ NoSync.left = {} /\ NoSync.failed = {} /\ NoSync.repaired = {}
  /\ Files(NoSync.base) = {} /\ Files(NoSync.names) = {} /\ DOMAIN NoSync.listed = {}
  /\ DOMAIN NoSync.seen = {} /\ Files(NoSync.synced) = {} /\ Unsaved(NoSync) = {}
BY DEF NoSync, Files, Unsaved

\* A step that transfers nothing leaves what is not saved as it was.
LEMMA UnsavedAsBefore ==
  ASSUME NEW s, NEW t, t.step = s.step, t.dir = s.dir, t.synced = s.synced, t.base = s.base,
         t.repaired = s.repaired
  PROVE  Unsaved(t) = Unsaved(s)
BY DEF Unsaved

\* A call ends, and what it had not saved is astray.
LEMMA CallEnds ==
  ASSUME SyncInvariant, NEW c \in SyncCall,
         sync' = [sync EXCEPT ![c] = NoSync],
         UNCHANGED <<tags, tree, bucket, manifest, touched, version, tokens, mirrored,
                     racedBodies, unsent, blessed, overwritten, unproved, rotten>>,
         astray \subseteq astray', Unsaved(sync[c]) \subseteq astray',
         \A f \in Files(checksums') : checksums'[f] = Rot => f \in unproved,
         \A h \in SyncHost : \A f \in SyncFile : Unstored(tree[h][f]) => f \in unconfirmed'[h],
         (\E d \in SyncCall \ {c} : Pushing(d)) => unsettled'
  PROVE  /\ CallShape' /\ BucketShape' /\ TagsWereSeen'
         /\ RotIsUnproved' /\ RotIsRotten' /\ OneHolder' /\ EntriesAreSound'
         /\ UnstoredIsTold' /\ CallFoundUnstored' /\ PushSendsUnstored' /\ PullRestored'
         /\ AloneIsAlone' /\ RecordsKnowTree' /\ SeenIsTree' /\ TokensTell'
         /\ RestoredIsObject' /\ PublishedIsStored' /\ PullLosesOnlyExcused'
<1> USE DEF SyncInvariant
<1>1. /\ sync'[c] = NoSync /\ \A d \in SyncCall : d # c => sync'[d] = sync[d]
      /\ DOMAIN sync' = SyncCall
  BY DEF SyncTypes
<1> USE NoSyncHolds
<1>2. CallShape'
  BY <1>1 DEF CallShape, Runs, Pushes, Transfers, Missing
<1>3. BucketShape'
  BY <1>1 DEF BucketShape
<1>4. TagsWereSeen'
  BY <1>1 DEF TagsWereSeen, Seen
<1>5. RotIsUnproved'
  BY <1>1 DEF RotIsUnproved
<1>6. RotIsRotten'
  BY <1>1 DEF RotIsRotten
<1>7. OneHolder'
  BY <1>1 DEF OneHolder, Stored
<1>8. EntriesAreSound'
  BY <1>1 DEF EntriesAreSound, Sound
<1>9. UnstoredIsTold'
  BY <1>1 DEF UnstoredIsTold, Unstored, Untold, Leaves
<1>10. CallFoundUnstored'
  BY <1>1 DEF CallFoundUnstored, Unstored, Untold, Leaves, Runs
<1>11. PushSendsUnstored'
  BY <1>1 DEF PushSendsUnstored, Unstored, Pushes
<1>12. PullRestored'
  BY <1>1 DEF PullRestored, Unstored, Transfers
<1>13. AloneIsAlone'
  BY <1>1 DEF AloneIsAlone, Runs, Meets, Pushing, CallShape
<1>14. RecordsKnowTree'
  <2>1. \A h \in SyncHost, f \in SyncFile : Excused(h, f) => Excused(h, f)'
    BY <1>1 DEF Excused, CallsOf
  <2>2. \A h \in SyncHost : CallsOf(h)' \subseteq CallsOf(h) \ {c}
    BY <1>1 DEF CallsOf
  <2> QED
    BY <1>1, <2>1, <2>2 DEF RecordsKnowTree, Knows
<1>15. SeenIsTree'
  BY <1>1 DEF SeenIsTree, Pushes
<1>16. TokensTell'
  BY <1>1 DEF TokensTell, Tells
<1>17. RestoredIsObject'
  BY <1>1 DEF RestoredIsObject, Transfers
<1>18. PublishedIsStored'
  BY <1>1 DEF PublishedIsStored, Pushes
<1>19. PullLosesOnlyExcused'
  BY DEF PullLosesOnlyExcused
<1> QED
  BY <1>2, <1>3, <1>4, <1>5, <1>6, <1>7, <1>8, <1>9, <1>10, <1>11, <1>12, <1>13, <1>14, <1>15,
     <1>16, <1>17, <1>18, <1>19

\* The entries of the records, the files of the others.
LEMMA RecordParts ==
  ASSUME SyncTypes
  PROVE  /\ \A h \in SyncHost : \A f \in Files(manifest[h]) :
              f \in SyncFile /\ manifest[h][f].sha \in Body /\ manifest[h][f].tag \in Tag
         /\ \A c \in SyncCall :
              /\ \A f \in Files(sync[c].base) :
                   f \in SyncFile /\ sync[c].base[f].sha \in Body /\ sync[c].base[f].tag \in Tag
              /\ \A f \in Files(sync[c].synced) :
                   f \in SyncFile /\ sync[c].synced[f].sha \in Body /\ sync[c].synced[f].tag \in Tag
              /\ \A f \in DOMAIN sync[c].listed : f \in SyncFile /\ sync[c].listed[f] \in Tag
              /\ \A f \in DOMAIN sync[c].seen : f \in SyncFile /\ sync[c].seen[f] \in Body
<1>1. ASSUME NEW m \in Manifest, NEW f \in Files(m)
      PROVE  f \in SyncFile /\ m[f].sha \in Body /\ m[f].tag \in Tag
  <2>1. m \in Of(Entry) /\ f \in DOMAIN m
    BY <1>1 DEF Manifest, Files
  <2>2. f \in SyncFile /\ m[f] \in Entry
    BY <2>1, OfParts
  <2> QED
    BY <2>2 DEF Entry
<1>2. \A h \in SyncHost : manifest[h] \in Manifest
  BY DEF SyncTypes
<1>3. \A c \in SyncCall :
        /\ sync[c].base \in Manifest /\ sync[c].synced \in Manifest
        /\ sync[c].listed \in Of(Tag) /\ sync[c].seen \in Of(Body)
  BY CallParts DEF SyncTypes, Manifest
<1>4. \A c \in SyncCall :
        /\ \A f \in DOMAIN sync[c].listed : f \in SyncFile /\ sync[c].listed[f] \in Tag
        /\ \A f \in DOMAIN sync[c].seen : f \in SyncFile /\ sync[c].seen[f] \in Body
  BY <1>3, OfParts
<1> QED
  BY <1>1, <1>2, <1>3, <1>4

\* An ETag that was seen stays so.
LEMMA TagsStaySeen ==
  ASSUME SyncInvariant, tags' = tags, tokens' \in Nat, tokens <= tokens',
         mirrored \subseteq mirrored'
  PROVE  \A tag \in Tag : Seen(tag) => Seen(tag)'
<1> SUFFICES ASSUME NEW tag \in Tag, Seen(tag)
             PROVE  Seen(tag)'
  OBVIOUS
<1>1. tags \in {"md5", "part"} /\ tokens \in Nat
  BY DEF SyncInvariant, SyncTypes
<1>2. CASE tags = "md5"
  BY <1>2 DEF Seen
<1>3. CASE tags = "part" /\ tag # NoTag
  <2>1. tag[1] = "part" /\ tag[2] <= tokens /\ tag[2] \in Nat
    BY <1>3 DEF Seen, Tag
  <2> QED
    BY <1>1, <1>3, <2>1 DEF Seen
<1> QED
  BY <1>1, <1>2, <1>3 DEF Seen

\* An object's ETag was seen.
LEMMA ObjectTags ==
  ASSUME SyncInvariant, NEW f \in SyncFile
  PROVE  bucket[f].tag \in Tag /\ bucket[f].body \in Body /\ Seen(bucket[f].tag)
<1>1. bucket[f] \in [body : Body, tag : Tag]
  BY DEF SyncInvariant, SyncTypes
<1> QED
  BY <1>1 DEF SyncInvariant, BucketShape, Seen, SyncTypes

\* A call has read the listing or the ledger.
LEMMA CallReads ==
  ASSUME SyncInvariant, NEW c \in SyncCall,
         sync[c].step = "reading",
         sync' \in [SyncCall -> Call],
         \A d \in SyncCall : d # c => sync'[d] = sync[d],
         sync'[c].host = sync[c].host, sync'[c].dir = sync[c].dir,
         sync'[c].step = sync[c].step, sync'[c].walked = sync[c].walked,
         sync'[c].newer = sync[c].newer, sync'[c].base = sync[c].base,
         sync'[c].seen = sync[c].seen, sync'[c].left = sync[c].left,
         sync'[c].synced = sync[c].synced, sync'[c].failed = sync[c].failed,
         sync'[c].repaired = sync[c].repaired, sync'[c].aborted = sync[c].aborted,
         sync'[c].alone = sync[c].alone,
         \/ DOMAIN sync'[c].listed = SyncFile
         \/ /\ sync'[c].listed = sync[c].listed
            /\ sync'[c].has \ {"ledger"} = sync[c].has \ {"ledger"},
         \A f \in DOMAIN sync'[c].listed : Seen(sync'[c].listed[f]),
         \A f \in Files(sync'[c].names) : sync'[c].names[f] = Rot => f \in unproved,
         UNCHANGED <<tags, tree, bucket, checksums, manifest, touched, unconfirmed, everPushed,
                     syncLock, version, syncs, tokens, mirrored, racedBodies, unsent, blessed,
                     overwritten, astray, unproved, rotten, unsettled>>,
         mishaps' \in 0..MaxMishaps
  PROVE  SyncInvariant'
<1> USE DEF SyncInvariant
<1> DEFINE s == sync[c]
           t == sync'[c]
<1>1. /\ s = sync[c] /\ t = sync'[c]
      /\ s.step = "reading" /\ t.host = s.host /\ t.dir = s.dir /\ t.step = s.step
      /\ t.walked = s.walked /\ t.newer = s.newer /\ t.base = s.base
      /\ t.seen = s.seen /\ t.left = s.left /\ t.synced = s.synced
      /\ t.failed = s.failed /\ t.repaired = s.repaired /\ t.aborted = s.aborted
      /\ t.alone = s.alone
  OBVIOUS
<1> HIDE DEF s, t
<1>2. SyncTypes'
  BY DEF SyncTypes
<1>3. CallShape'
  BY <1>1 DEF CallShape, Runs, Pushes, Transfers, Missing
<1>4. BucketShape'
  BY <1>1 DEF BucketShape
<1>5. TagsWereSeen'
  BY <1>1 DEF TagsWereSeen, Seen
<1>6. RotIsUnproved' /\ RotIsRotten'
  BY <1>1 DEF RotIsUnproved, RotIsRotten
<1>7. OneHolder' /\ EntriesAreSound'
  BY <1>1 DEF OneHolder, Stored, EntriesAreSound, Sound
<1>8. UnstoredIsTold' /\ CallFoundUnstored'
  BY <1>1 DEF UnstoredIsTold, CallFoundUnstored, Unstored, Untold, Leaves, Runs
<1>9. PushSendsUnstored' /\ PullRestored'
  BY <1>1 DEF PushSendsUnstored, PullRestored, Unstored, Pushes, Transfers
<1>10. Unsaved(t) = Unsaved(s) /\ \A h \in SyncHost : CallsOf(h)' = CallsOf(h)
  BY <1>1 DEF Unsaved, CallsOf
<1>11. AloneIsAlone'
  BY <1>1, <1>10 DEF AloneIsAlone, Runs, Meets, Pushing
<1>12. RecordsKnowTree'
  BY <1>1, <1>10 DEF RecordsKnowTree, Knows, Excused, CallsOf
<1>13. SeenIsTree' /\ RestoredIsObject' /\ PublishedIsStored'
  BY <1>1 DEF SeenIsTree, RestoredIsObject, PublishedIsStored, Pushes, Transfers
<1>14. TokensTell'
  BY <1>1 DEF TokensTell, Tells
<1>15. LedgerDescribesObjects' /\ PullLosesOnlyExcused'
  BY DEF LedgerDescribesObjects, PullLosesOnlyExcused
<1> QED
  BY <1>2, <1>3, <1>4, <1>5, <1>6, <1>7, <1>8, <1>9, <1>11, <1>12, <1>13, <1>14, <1>15

\* A listing was read: every ETag in it was seen.
LEMMA FetchListingStep ==
  ASSUME SyncInvariant, NEW c \in SyncCall, FetchListing(c)
  PROVE  SyncInvariant'
<1> DEFINE s == sync[c]
           t == sync'[c]
           r == s.has \cup {"listing"}
           listed == [f \in SyncFile |-> bucket[f].tag]
<1>1. /\ s \in Call /\ s.step = "reading" /\ r \in Reply
      /\ sync \in [SyncCall -> Call]
  BY CallParts DEF FetchListing, SyncInvariant, SyncTypes, Reply
<1>2. sync' = [sync EXCEPT ![c] = [s EXCEPT !.has = r, !.listed = listed]]
  BY DEF FetchListing
<1>3. /\ listed \in Of(Tag) /\ DOMAIN listed = SyncFile
      /\ \A f \in SyncFile : Seen(listed[f])
  <2>1. listed \in [SyncFile -> Tag]
    BY ObjectTags
  <2> QED
    BY <2>1, ObjectTags, OfHas
<1> HIDE DEF listed, r
<1>4. /\ t \in Call /\ t.listed = listed
      /\ t.host = s.host /\ t.dir = s.dir /\ t.step = s.step /\ t.walked = s.walked
      /\ t.newer = s.newer /\ t.base = s.base /\ t.names = s.names /\ t.seen = s.seen
      /\ t.left = s.left /\ t.synced = s.synced /\ t.failed = s.failed
      /\ t.repaired = s.repaired /\ t.aborted = s.aborted /\ t.alone = s.alone
  <2>1. t = [s EXCEPT !.has = r, !.listed = listed]
    BY <1>1, <1>2
  <2> HIDE DEF s, t
  <2> QED
    BY <1>1, <1>3, <2>1 DEF Call
<1>5. /\ \A d \in SyncCall : d # c => sync'[d] = sync[d]
      /\ sync' \in [SyncCall -> Call]
  BY <1>1, <1>2, <1>4
<1>6. \A f \in Files(t.names) : t.names[f] = Rot => f \in unproved
  <2>1. Files(t.names) \subseteq SyncFile
    BY <1>4, CallParts, OfParts DEF Files, Ledger
  <2> QED
    BY <1>4, <2>1 DEF SyncInvariant, RotIsUnproved
<1>7. /\ mishaps' \in 0..MaxMishaps
      /\ UNCHANGED <<tags, tree, bucket, checksums, manifest, touched, unconfirmed, everPushed,
                     syncLock, version, syncs, tokens, mirrored, racedBodies, unsent, blessed,
                     overwritten, astray, unproved, rotten, unsettled>>
  BY DEF FetchListing, quiet, SyncInvariant, SyncTypes
<1> QED
  BY <1>1, <1>3, <1>4, <1>5, <1>6, <1>7, CallReads

\* The mishaps stay within their bound.
LEMMA MishapCounts ==
  ASSUME SyncTypes, NEW happens \in BOOLEAN, Mishap(happens)
  PROVE  mishaps' \in 0..MaxMishaps
BY DEF SyncTypes, Mishap

\* The ledger was read, or could not be: what it says of garbage is known to be unproved.
LEMMA FetchLedgerStep ==
  ASSUME SyncInvariant, NEW c \in SyncCall, NEW readable \in BOOLEAN, FetchLedger(c, readable)
  PROVE  SyncInvariant'
<1> DEFINE s == sync[c]
           t == sync'[c]
           r == s.has \cup {"ledger"}
           names == IF readable THEN checksums ELSE NoRecord
<1>1. /\ s \in Call /\ s.step = "reading" /\ r \in Reply
      /\ r \ {"ledger"} = s.has \ {"ledger"}
      /\ sync \in [SyncCall -> Call]
  BY CallParts DEF FetchLedger, SyncInvariant, SyncTypes, Reply
<1>2. sync' = [sync EXCEPT ![c] = [s EXCEPT !.has = r, !.names = names]]
  BY DEF FetchLedger
<1>3. names \in Ledger /\ \A f \in Files(names) : names[f] = Rot => f \in unproved
  BY DEF SyncInvariant, SyncTypes, RotIsUnproved, Ledger, Files
<1> HIDE DEF names, r
<1>4. /\ t \in Call /\ t.names = names /\ t.has = r
      /\ t.host = s.host /\ t.dir = s.dir /\ t.step = s.step /\ t.walked = s.walked
      /\ t.newer = s.newer /\ t.base = s.base /\ t.listed = s.listed /\ t.seen = s.seen
      /\ t.left = s.left /\ t.synced = s.synced /\ t.failed = s.failed
      /\ t.repaired = s.repaired /\ t.aborted = s.aborted /\ t.alone = s.alone
  <2>1. t = [s EXCEPT !.has = r, !.names = names]
    BY <1>1, <1>2
  <2> HIDE DEF s, t
  <2> QED
    BY <1>1, <1>3, <2>1 DEF Call
<1>5. /\ \A d \in SyncCall : d # c => sync'[d] = sync[d]
      /\ sync' \in [SyncCall -> Call]
  BY <1>1, <1>2, <1>4
<1>6. \A f \in DOMAIN t.listed : Seen(t.listed[f])
  BY <1>4 DEF SyncInvariant, TagsWereSeen
<1>7. /\ mishaps' \in 0..MaxMishaps
      /\ UNCHANGED <<tags, tree, bucket, checksums, manifest, touched, unconfirmed, everPushed,
                     syncLock, version, syncs, tokens, mirrored, racedBodies, unsent, blessed,
                     overwritten, astray, unproved, rotten, unsettled>>
  BY MishapCounts DEF FetchLedger, SyncInvariant
<1> QED
  BY <1>1, <1>3, <1>4, <1>5, <1>6, <1>7, CallReads

\* A flush makes bytes that nobody has, and marks its file on both clean bits.
LEMMA WriteLocalStep ==
  ASSUME SyncInvariant, NEW h \in Origin, NEW f \in SyncFile, WriteLocal(h, f)
  PROVE  SyncInvariant'
<1> USE DEF SyncInvariant
<1> DEFINE v == version + 1
<1>1. /\ h \in SyncHost /\ version' = v /\ v \in Body /\ v > version /\ v \in Nat
      /\ version \in Nat /\ v <= MaxVersion /\ v # NoBody /\ v # Rot
  BY DEF WriteLocal, SyncTypes, Body, NoBody, Rot
<1>2. v \notin mirrored
  BY <1>1 DEF BucketShape
<1>3. /\ tree' = [tree EXCEPT ![h][f] = v]
      /\ touched' = [touched EXCEPT ![h] = @ \cup {f}]
      /\ unconfirmed' = [unconfirmed EXCEPT ![h] = @ \cup {f}]
      /\ racedBodies' = IF CallsOf(h) = {} THEN racedBodies ELSE racedBodies \cup {v}
      /\ UNCHANGED <<tags, bucket, checksums, manifest, everPushed, syncLock, sync, syncs,
                     mishaps, tokens, mirrored, unsent, overwritten, astray, unproved, blessed,
                     rotten, unsettled>>
  BY <1>1 DEF WriteLocal
<1> HIDE DEF v
<1>4. /\ tree'[h][f] = v
      /\ \A g \in SyncHost, e \in SyncFile : g # h \/ e # f => tree'[g][e] = tree[g][e]
      /\ f \in touched'[h] /\ f \in unconfirmed'[h]
      /\ \A g \in SyncHost :
           touched[g] \subseteq touched'[g] /\ unconfirmed[g] \subseteq unconfirmed'[g]
      /\ \A c \in SyncCall : sync[c].host = h => v \in racedBodies'
      /\ racedBodies \subseteq racedBodies'
  BY <1>1, <1>3 DEF SyncTypes, CallsOf
<1>5. /\ \A g \in SyncHost, e \in SyncFile : tree[g][e] # v
      /\ \A c \in SyncCall : \A e \in DOMAIN sync[c].seen : sync[c].seen[e] # v
  <2>1. /\ \A g \in SyncHost, e \in SyncFile : tree[g][e] <= version /\ tree[g][e] \in Int
        /\ \A c \in SyncCall : \A e \in DOMAIN sync[c].seen :
             sync[c].seen[e] <= version /\ sync[c].seen[e] \in Int
    <3>1. \A c \in SyncCall : \A e \in DOMAIN sync[c].seen : sync[c].seen[e] \in Body
      BY CallParts, OfParts DEF SyncTypes
    <3> QED
      BY <3>1 DEF BucketShape, SyncTypes, Body, Rot
  <2> QED
    BY <2>1, <1>1
<1>6. SyncTypes'
  <2>1. tree' \in [SyncHost -> [SyncFile -> Body]]
    BY <1>1, <1>3 DEF SyncTypes
  <2>2. /\ touched' \in [SyncHost -> SUBSET SyncFile]
        /\ unconfirmed' \in [SyncHost -> SUBSET SyncFile]
        /\ racedBodies' \in SUBSET Body
    BY <1>1, <1>3 DEF SyncTypes
  <2>3. version' \in 0..MaxVersion
    BY <1>1
  <2> QED
    BY <1>3, <2>1, <2>2, <2>3 DEF SyncTypes
<1>7. CallShape'
  BY <1>1, <1>3, <1>4 DEF CallShape, Runs, Pushes, Transfers, Missing
<1>8. BucketShape'
  <2>1. /\ \A b \in mirrored : b <= v
        /\ \A g \in SyncHost, e \in SyncFile : tree'[g][e] <= v
        /\ \A c \in SyncCall : \A e \in DOMAIN sync[c].seen : sync[c].seen[e] <= v
    <3>1. \A c \in SyncCall : \A e \in DOMAIN sync[c].seen : sync[c].seen[e] \in Int
      BY CallParts, OfParts DEF SyncTypes, Body, Rot
    <3>2. \A b \in mirrored : b \in Int
      BY DEF SyncTypes, Body, Rot
    <3>3. \A g \in SyncHost, e \in SyncFile : tree[g][e] \in Int
      BY DEF SyncTypes, Body, Rot
    <3> QED
      BY <1>1, <1>4, <3>1, <3>2, <3>3 DEF BucketShape
  <2> QED
    BY <1>1, <1>3, <2>1 DEF BucketShape
<1>9. TagsWereSeen'
  BY <1>3 DEF TagsWereSeen, Seen
<1>10. RotIsUnproved' /\ RotIsRotten'
  BY <1>1, <1>3, <1>4 DEF RotIsUnproved, RotIsRotten
<1>11. OneHolder'
  BY <1>3, <1>4, <1>5 DEF OneHolder, Stored
<1>12. EntriesAreSound'
  BY <1>3, <1>4 DEF EntriesAreSound, Sound
<1>13. UnstoredIsTold'
  BY <1>3, <1>4 DEF UnstoredIsTold, Unstored, Untold, Leaves
<1>14. CallFoundUnstored'
  BY <1>3, <1>4 DEF CallFoundUnstored, Unstored, Untold, Leaves, Runs, CallShape
<1>15. PushSendsUnstored'
  BY <1>3, <1>4 DEF PushSendsUnstored, Unstored, Pushes, CallShape, Runs
<1>16. PullRestored'
  BY <1>1, <1>3, <1>4 DEF PullRestored, Unstored, Transfers, CallShape, Runs
<1>17. AloneIsAlone'
  BY <1>3 DEF AloneIsAlone, Runs, Meets, Pushing
<1>18. RecordsKnowTree'
  BY <1>2, <1>3, <1>4 DEF RecordsKnowTree, Knows, Excused, CallsOf
<1>19. SeenIsTree' /\ RestoredIsObject'
  BY <1>2, <1>3, <1>4 DEF SeenIsTree, RestoredIsObject, Pushes, Transfers, CallShape, Runs
<1>20. TokensTell' /\ PublishedIsStored'
  BY <1>3 DEF TokensTell, Tells, PublishedIsStored, Pushes
<1>21. LedgerDescribesObjects' /\ PullLosesOnlyExcused'
  BY <1>3, <1>4 DEF LedgerDescribesObjects, PullLosesOnlyExcused
<1> QED
  BY <1>6, <1>7, <1>8, <1>9, <1>10, <1>11, <1>12, <1>13, <1>14, <1>15, <1>16, <1>17, <1>18,
     <1>19, <1>20, <1>21

\* The ETag of a PUT.
LEMMA TagOf ==
  ASSUME tags \in {"md5", "part"}, NEW b \in Body, NEW n \in Nat
  PROVE  /\ ETag(b, n) \in Tag /\ ETag(b, n) # NoTag
         /\ tags = "md5" => ETag(b, n) = <<"md5", b>>
         /\ tags = "part" => ETag(b, n) = <<"part", n>>
         /\ NoTag \in Tag /\ NoTag[1] = "none"
BY DEF ETag, Tag, NoTag

\* An object changes hands: its token is new, and its file is excused from now on.
LEMMA DamageObjectStep ==
  ASSUME SyncInvariant, NEW f \in SyncFile, NEW body \in {Rot, NoBody}, DamageObject(f, body)
  PROVE  SyncInvariant'
<1> USE DEF SyncInvariant
<1> DEFINE object == IF body = NoBody THEN NoObject
                     ELSE [body |-> body, tag |-> ETag(body, tokens + 1)]
           n == tokens'
<1>1. /\ bucket' = [bucket EXCEPT ![f] = object] /\ rotten' = rotten \cup {f}
      /\ n = IF tags = "part" /\ body # NoBody THEN tokens + 1 ELSE tokens
      /\ mishaps' \in 0..MaxMishaps
      /\ UNCHANGED <<tags, tree, checksums, manifest, touched, unconfirmed, everPushed, syncLock,
                     sync, version, syncs, mirrored, racedBodies, unsent, overwritten, astray,
                     unproved, blessed, unsettled>>
  BY DEF DamageObject, SyncTypes
<1>2. /\ tokens \in Nat /\ n \in Nat /\ tokens <= n /\ n = tokens'
      /\ tags \in {"md5", "part"} /\ Rot \in Body /\ NoBody \in Body /\ Rot # NoBody
  BY <1>1 DEF SyncTypes, Body, Rot, NoBody
<1>3. /\ object \in [body : Body, tag : Tag] /\ object.body \in {Rot, NoBody}
      /\ object.body = NoBody <=> object.tag = NoTag
      /\ object.tag # NoTag =>
           IF tags = "md5" THEN object.tag = <<"md5", object.body>>
           ELSE object.tag[1] = "part" /\ object.tag[2] <= n
  <2>1. CASE body = NoBody
    BY <1>2, <2>1, TagOf DEF NoObject
  <2>2. CASE body # NoBody
    <3>1. body = Rot /\ tokens + 1 \in Nat
      BY <1>2, <2>2
    <3>2. /\ ETag(body, tokens + 1) \in Tag /\ ETag(body, tokens + 1) # NoTag
          /\ tags = "md5" => ETag(body, tokens + 1) = <<"md5", body>>
          /\ tags = "part" => ETag(body, tokens + 1) = <<"part", tokens + 1>>
      BY <1>2, <3>1, TagOf
    <3>3. object = [body |-> body, tag |-> ETag(body, tokens + 1)]
      BY <2>2
    <3> QED
      BY <1>1, <1>2, <2>2, <3>1, <3>2, <3>3
  <2> QED
    BY <2>1, <2>2
<1> HIDE DEF object, n
<1>4. /\ bucket'[f] = object /\ \A e \in SyncFile : e # f => bucket'[e] = bucket[e]
      /\ f \in rotten' /\ rotten \subseteq rotten'
  BY <1>1 DEF SyncTypes
<1>5. SyncTypes'
  <2>1. bucket' \in [SyncFile -> [body : Body, tag : Tag]]
    BY <1>1, <1>3 DEF SyncTypes
  <2> QED
    BY <1>1, <1>2, <2>1 DEF SyncTypes
<1>6. CallShape'
  BY <1>1 DEF CallShape, Runs, Pushes, Transfers, Missing
<1>7. BucketShape'
  <2>1. \A e \in SyncFile : e # f /\ bucket'[e].tag # NoTag =>
          IF tags = "md5" THEN bucket'[e].tag = <<"md5", bucket'[e].body>>
          ELSE bucket'[e].tag[1] = "part" /\ bucket'[e].tag[2] <= n
    <3>1. ASSUME NEW e \in SyncFile, tags = "part", bucket[e].tag # NoTag
          PROVE  bucket[e].tag[2] <= n
      <4>1. bucket[e].tag \in Tag /\ bucket[e].tag[1] = "part" /\ bucket[e].tag[2] <= tokens
        BY <3>1, ObjectTags DEF BucketShape
      <4>2. bucket[e].tag[2] \in Nat
        BY <3>1, <4>1 DEF Tag, NoTag
      <4> QED
        BY <1>2, <4>1, <4>2
    <3> QED
      BY <1>2, <1>4, <3>1 DEF BucketShape
  <2> QED
    BY <1>1, <1>2, <1>3, <1>4, <2>1 DEF BucketShape
<1>8. TagsWereSeen'
  <2>1. \A tag \in Tag : Seen(tag) => Seen(tag)'
    BY <1>1, <1>2, TagsStaySeen
  <2> QED
    BY <1>1, <2>1, RecordParts DEF TagsWereSeen
<1>9. RotIsUnproved' /\ RotIsRotten'
  BY <1>1, <1>4 DEF RotIsUnproved, RotIsRotten
<1>10. OneHolder' /\ EntriesAreSound'
  BY <1>1 DEF OneHolder, Stored, EntriesAreSound, Sound
<1>11. UnstoredIsTold' /\ CallFoundUnstored'
  BY <1>1 DEF UnstoredIsTold, CallFoundUnstored, Unstored, Untold, Leaves, Runs
<1>12. PushSendsUnstored' /\ PullRestored'
  BY <1>1 DEF PushSendsUnstored, PullRestored, Unstored, Pushes, Transfers
<1>13. AloneIsAlone'
  BY <1>1 DEF AloneIsAlone, Runs, Meets, Pushing
<1>14. RecordsKnowTree'
  BY <1>1, <1>4 DEF RecordsKnowTree, Knows, Excused, CallsOf
<1>15. SeenIsTree' /\ RestoredIsObject'
  BY <1>1, <1>4 DEF SeenIsTree, RestoredIsObject, Pushes, Transfers
<1>16. TokensTell' /\ PublishedIsStored'
  BY <1>1, <1>4 DEF TokensTell, Tells, PublishedIsStored, Pushes
<1>17. LedgerDescribesObjects' /\ PullLosesOnlyExcused'
  BY <1>1, <1>4 DEF LedgerDescribesObjects, PullLosesOnlyExcused, Files
<1> QED
  BY <1>5, <1>6, <1>7, <1>8, <1>9, <1>10, <1>11, <1>12, <1>13, <1>14, <1>15, <1>16, <1>17

\* Another call does not change the idle one.
LEMMA NoSyncMeetsNobody == [NoSync EXCEPT !.alone = TRUE] = NoSync
<1>1. \A s \in Call : [s EXCEPT !.alone = s.alone] = s
  BY DEF Call
<1>2. NoSync.alone = TRUE
  BY DEF NoSync
<1> QED
  BY <1>1, <1>2, NoSyncIsCall

\* A call starts: what calls on the same host have not saved is astray, and the calls it
\* meets are no longer alone.
LEMMA StartSyncStep ==
  ASSUME SyncInvariant, NEW c \in SyncCall, NEW h \in SyncHost, NEW dir \in {"push", "pull"},
         StartSync(c, h, dir)
  PROVE  SyncInvariant'
<1> USE DEF SyncInvariant
<1> DEFINE started == [NoSync EXCEPT !.host = h, !.dir = dir, !.step = "reading",
                         !.walked = walkLocal(h), !.newer = touched[h], !.base = manifest[h],
                         !.alone = \A e \in SyncCall : ~Meets(e, h, dir)]
           met(d) == [sync[d] EXCEPT !.alone = @ /\ ~Meets(d, h, dir)]
           t == sync'[c]
<1>1. /\ sync[c].step = "idle" /\ sync[c] = NoSync
      /\ sync' = [d \in SyncCall |-> IF d = c THEN started ELSE met(d)]
      /\ astray' = astray \cup UNION {Unsaved(sync[d]) : d \in CallsOf(h)}
      /\ unsettled' = (unsettled \/ dir = "push")
      /\ UNCHANGED <<tags, tree, bucket, checksums, manifest, touched, unconfirmed, everPushed,
                     version, tokens, mirrored, racedBodies, unsent, overwritten, unproved,
                     blessed, rotten>>
  BY DEF StartSync, CallShape, Runs
<1>2. /\ syncs' \in 0..MaxSyncs /\ mishaps' \in 0..MaxMishaps
      /\ syncLock' \in [SyncHost -> SyncCall \cup {NoRecord, Dead}]
  <2>1. syncs' \in 0..MaxSyncs
    <3>1. syncs \in 0..MaxSyncs
      BY DEF SyncTypes
    <3>2. syncs < MaxSyncs /\ syncs' = syncs + 1
      BY DEF StartSync
    <3> QED
      BY <3>1, <3>2
  <2>2. acquireLock(c, h)
    BY DEF StartSync
  <2>3. (syncLock[h] \notin {NoRecord, Dead}) \in BOOLEAN
    OBVIOUS
  <2>4. mishaps' \in 0..MaxMishaps
    BY <2>2, <2>3, MishapCounts DEF acquireLock
  <2>5. syncLock' \in [SyncHost -> SyncCall \cup {NoRecord, Dead}]
    BY <2>2 DEF acquireLock, SyncTypes
  <2> QED
    BY <2>1, <2>4, <2>5
<1>3. /\ started \in Call /\ started.host = h /\ started.dir = dir /\ started.step = "reading"
      /\ started.has = {} /\ started.walked = walkLocal(h) /\ started.newer = touched[h]
      /\ started.base = manifest[h] /\ started.listed = <<>> /\ started.names = NoRecord
      /\ started.seen = <<>> /\ started.left = {} /\ started.synced = <<>>
      /\ started.failed = {} /\ started.repaired = {} /\ started.aborted = FALSE
      /\ started.alone <=> \A e \in SyncCall : ~Meets(e, h, dir)
  <2> DEFINE alone == \A e \in SyncCall : ~Meets(e, h, dir)
             walked == walkLocal(h)
  <2>1. /\ h \in Host /\ dir \in Direction /\ "reading" \in Step /\ walked \in SomeFiles
        /\ touched[h] \in SomeFiles /\ manifest[h] \in Manifest /\ alone \in BOOLEAN
    BY DEF Host, Direction, Step, walkLocal, SomeFiles, SyncTypes
  <2> HIDE DEF alone, walked
  <2>2. started = [NoSync EXCEPT !.host = h, !.dir = dir, !.step = "reading", !.walked = walked,
                     !.newer = touched[h], !.base = manifest[h], !.alone = alone]
    BY DEF alone, walked
  <2> HIDE DEF started
  <2>3. /\ {} \in SomeFiles /\ {} \in Reply /\ NoRecord \in Ledger
        /\ <<>> \in Of(Tag) /\ <<>> \in Of(Body) /\ <<>> \in Of(Entry)
    BY NothingIsOf DEF SomeFiles, Reply, Ledger
  <2>4. /\ started \in Call /\ started.host = h /\ started.dir = dir /\ started.step = "reading"
        /\ started.has = {} /\ started.walked = walked /\ started.newer = touched[h]
        /\ started.base = manifest[h] /\ started.listed = <<>> /\ started.names = NoRecord
        /\ started.seen = <<>> /\ started.left = {} /\ started.synced = <<>>
        /\ started.failed = {} /\ started.repaired = {} /\ started.aborted = FALSE
        /\ started.alone = alone
    BY <2>1, <2>2, <2>3 DEF Call, NoSync
  <2> QED
    BY <2>1, <2>4 DEF alone, walked
<1>4. \A d \in SyncCall :
        /\ met(d) \in Call /\ met(d).host = sync[d].host /\ met(d).dir = sync[d].dir
        /\ met(d).step = sync[d].step /\ met(d).has = sync[d].has
        /\ met(d).walked = sync[d].walked /\ met(d).newer = sync[d].newer
        /\ met(d).base = sync[d].base /\ met(d).listed = sync[d].listed
        /\ met(d).names = sync[d].names /\ met(d).seen = sync[d].seen
        /\ met(d).left = sync[d].left /\ met(d).synced = sync[d].synced
        /\ met(d).failed = sync[d].failed /\ met(d).repaired = sync[d].repaired
        /\ met(d).aborted = sync[d].aborted
        /\ met(d).alone <=> sync[d].alone /\ ~Meets(d, h, dir)
        /\ sync[d] = NoSync => met(d) = NoSync
  <2> TAKE d \in SyncCall
  <2> DEFINE s == sync[d]
             a == s.alone /\ ~Meets(d, h, dir)
  <2>1. s \in Call /\ a \in BOOLEAN /\ met(d) = [s EXCEPT !.alone = a]
    BY CallParts DEF SyncTypes
  <2>2. s = NoSync => a = TRUE
    BY DEF NoSync, Meets, Pushing
  <2> HIDE DEF s, a, met
  <2>3. /\ met(d) \in Call /\ met(d).host = s.host /\ met(d).dir = s.dir
        /\ met(d).step = s.step /\ met(d).has = s.has
        /\ met(d).walked = s.walked /\ met(d).newer = s.newer
        /\ met(d).base = s.base /\ met(d).listed = s.listed
        /\ met(d).names = s.names /\ met(d).seen = s.seen
        /\ met(d).left = s.left /\ met(d).synced = s.synced
        /\ met(d).failed = s.failed /\ met(d).repaired = s.repaired
        /\ met(d).aborted = s.aborted /\ met(d).alone = a
    BY <2>1 DEF Call
  <2>4. s = NoSync => met(d) = NoSync
    BY <2>1, <2>2, NoSyncMeetsNobody
  <2> QED
    BY <2>3, <2>4 DEF s, a
<1> HIDE DEF started, met
<1>5. /\ t = started /\ sync'[c] = t
      /\ \A d \in SyncCall : d # c => sync'[d] = met(d)
  BY <1>1
<1>6. \A d \in SyncCall : d # c =>
        /\ sync'[d].host = sync[d].host /\ sync'[d].dir = sync[d].dir
        /\ sync'[d].step = sync[d].step /\ sync'[d].has = sync[d].has
        /\ sync'[d].walked = sync[d].walked /\ sync'[d].newer = sync[d].newer
        /\ sync'[d].base = sync[d].base /\ sync'[d].listed = sync[d].listed
        /\ sync'[d].names = sync[d].names /\ sync'[d].seen = sync[d].seen
        /\ sync'[d].left = sync[d].left /\ sync'[d].synced = sync[d].synced
        /\ sync'[d].failed = sync[d].failed /\ sync'[d].repaired = sync[d].repaired
        /\ sync'[d].aborted = sync[d].aborted
        /\ sync'[d].alone <=> sync[d].alone /\ ~Meets(d, h, dir)
        /\ sync[d] = NoSync => sync'[d] = NoSync
  BY <1>4, <1>5
<1>7. /\ t.host = h /\ t.dir = dir /\ t.step = "reading"
      /\ t.has = {} /\ t.walked = walkLocal(h) /\ t.newer = touched[h]
      /\ t.base = manifest[h] /\ t.listed = <<>> /\ t.names = NoRecord
      /\ t.seen = <<>> /\ t.left = {} /\ t.synced = <<>>
      /\ t.failed = {} /\ t.repaired = {} /\ t.aborted = FALSE
      /\ t.alone <=> \A e \in SyncCall : ~Meets(e, h, dir)
      /\ DOMAIN t.listed = {} /\ DOMAIN t.seen = {} /\ Files(t.names) = {}
      /\ Files(t.synced) = {} /\ Unsaved(t) = {} /\ dir \in {"push", "pull"}
      /\ \A f \in walkLocal(h) : tree[h][f] # NoBody
  BY <1>3, <1>5 DEF Files, Unsaved, walkLocal
<1>8. SyncTypes'
  <2>1. sync' \in [SyncCall -> Call]
    BY <1>1, <1>3, <1>4
  <2>2. astray' \in SUBSET SyncFile
    <3>1. \A d \in SyncCall : Unsaved(sync[d]) \subseteq SyncFile
      BY CallParts, RecordParts DEF Unsaved, SyncTypes
    <3> QED
      BY <1>1, <3>1 DEF SyncTypes, CallsOf
  <2> QED
    BY <1>1, <1>2, <2>1, <2>2 DEF SyncTypes
<1> HIDE DEF t
<1> USE <1>5, <1>6, <1>7
<1>9. CallShape'
  <2>1. \A d \in SyncCall : d # c => (Runs(d)' <=> Runs(d)) /\ (Pushes(d)' <=> Pushes(d))
          /\ (\A p \in {"push", "pull"} : Transfers(d, p)' <=> Transfers(d, p))
    BY DEF Runs, Pushes, Transfers
  <2>2. \A d \in SyncCall : d # c => Missing(sync[d])' = Missing(sync[d])
    BY DEF Missing
  <2> QED
    BY <1>1, <2>1, <2>2 DEF CallShape, Runs, Pushes, Transfers, Missing
<1>10. BucketShape' /\ TagsWereSeen'
  BY <1>1 DEF BucketShape, TagsWereSeen, Seen
<1>11. RotIsUnproved' /\ RotIsRotten'
  BY <1>1 DEF RotIsUnproved, RotIsRotten
<1>12. OneHolder' /\ EntriesAreSound'
  BY <1>1 DEF OneHolder, Stored, EntriesAreSound, Sound
<1>13. UnstoredIsTold'
  BY <1>1 DEF UnstoredIsTold, Unstored, Untold, Leaves
<1>14. CallFoundUnstored'
  <2>1. \A f \in SyncFile : Unstored(tree[h][f]) => f \in walkLocal(h)
    BY DEF Unstored, walkLocal
  <2> QED
    BY <1>1, <2>1 DEF CallFoundUnstored, UnstoredIsTold, Unstored, Untold, Leaves, Runs
<1>15. PushSendsUnstored' /\ PullRestored'
  BY <1>1 DEF PushSendsUnstored, PullRestored, Unstored, Pushes, Transfers
<1>16. /\ \A d \in SyncCall : d # c => Unsaved(sync'[d]) = Unsaved(sync[d])
       /\ \A d \in CallsOf(h) : Unsaved(sync[d]) \subseteq astray'
       /\ astray \subseteq astray'
  <2>1. ASSUME NEW d \in SyncCall, d # c
        PROVE  Unsaved(sync'[d]) = Unsaved(sync[d])
    <3>1. /\ sync'[d].step = sync[d].step /\ sync'[d].dir = sync[d].dir
          /\ sync'[d].synced = sync[d].synced /\ sync'[d].base = sync[d].base
          /\ sync'[d].repaired = sync[d].repaired
      BY <2>1
    <3> QED
      BY <3>1, UnsavedAsBefore
  <2>2. \A d \in CallsOf(h) : Unsaved(sync[d]) \subseteq astray'
    BY <1>1
  <2> QED
    BY <1>1, <2>1, <2>2
<1>17. AloneIsAlone'
  <2>1. \A d \in SyncCall, g \in SyncHost, p \in {"push", "pull"} : d # c =>
          (Meets(d, g, p)' <=> Meets(d, g, p))
    BY DEF Meets, Pushing
  <2>2. ASSUME NEW d \in SyncCall, sync'[d].alone, Runs(d)'
        PROVE  /\ \A e \in SyncCall \ {d} : ~Meets(e, sync[d].host, sync[d].dir)'
               /\ sync'[d].step # "publish" => manifest'[sync'[d].host] = sync'[d].base
    <3>1. CASE d = c
      BY <1>1, <2>1, <2>2, <3>1
    <3>2. CASE d # c
      <4>1. /\ sync[d].alone /\ Runs(d) /\ ~Meets(d, h, dir)
            /\ sync[d].host \in SyncHost /\ sync[d].dir \in {"push", "pull"}
        BY <2>2, <3>2 DEF Runs, CallShape
      <4>2. ~Meets(c, sync[d].host, sync[d].dir)'
        BY <3>2, <4>1 DEF Meets, Pushing
      <4>3. \A e \in SyncCall \ {d} : ~Meets(e, sync[d].host, sync[d].dir)
        BY <4>1 DEF AloneIsAlone
      <4> QED
        BY <1>1, <2>1, <3>2, <4>1, <4>2, <4>3 DEF AloneIsAlone
    <3> QED
      BY <3>1, <3>2
  <2>3. ASSUME NEW d \in SyncCall, NEW e \in SyncCall \ {d}, Runs(d)', sync'[e].host = sync'[d].host
        PROVE  Unsaved(sync'[d]) \subseteq astray'
    <3>1. CASE d = c
      BY <3>1
    <3>2. CASE d # c /\ e = c
      BY <1>16, <2>3, <3>2 DEF CallsOf
    <3>3. CASE d # c /\ e # c
      BY <1>16, <2>3, <3>3 DEF AloneIsAlone, Runs
    <3> QED
      BY <3>1, <3>2, <3>3
  <2>4. \A d \in SyncCall : Pushing(d)' => unsettled'
    <3>1. \A d \in SyncCall : Pushing(d)' => unsettled \/ dir = "push"
      BY DEF AloneIsAlone, Pushing
    <3> QED
      BY <1>1, <3>1
  <2> QED
    BY <2>2, <2>3, <2>4 DEF AloneIsAlone
<1>18. RecordsKnowTree'
  <2>1. \A g \in SyncHost, f \in SyncFile : Excused(g, f) => Excused(g, f)'
    <3> SUFFICES ASSUME NEW g \in SyncHost, NEW f \in SyncFile, Excused(g, f)
                 PROVE  Excused(g, f)'
      OBVIOUS
    <3>1. CASE f \in astray \cup rotten
      BY <1>1, <1>16, <3>1 DEF Excused
    <3>2. CASE \E d \in CallsOf(g) : f \in Unsaved(sync[d])
      <4>1. PICK d \in CallsOf(g) : f \in Unsaved(sync[d])
        BY <3>2
      <4>2. d \in SyncCall /\ d # c
        BY <1>1, <4>1, NoSyncHolds DEF CallsOf
      <4>3. d \in CallsOf(g)' /\ f \in Unsaved(sync'[d])
        BY <1>16, <4>1, <4>2 DEF CallsOf
      <4> QED
        BY <4>3 DEF Excused
    <3> QED
      BY <3>1, <3>2 DEF Excused
  <2>2. \A g \in SyncHost : CallsOf(g)' \ {c} \subseteq CallsOf(g)
    BY DEF CallsOf
  <2>3. c \in CallsOf(h)' /\ \A g \in SyncHost : c \in CallsOf(g)' => g = h
    BY DEF CallsOf
  <2>4. \A g \in SyncHost, f \in SyncFile : Knows(manifest[g], g, f)'
    BY <1>1, <2>1 DEF RecordsKnowTree, Knows
  <2>5. \A g \in SyncHost, f \in SyncFile : \A d \in CallsOf(g)' :
          d # c /\ sync'[d].step # "publish" => Knows(sync[d].base, g, f)'
    <3>1. \A g \in SyncHost, f \in SyncFile : \A d \in CallsOf(g)' :
            d # c /\ sync'[d].step # "publish" =>
              d \in SyncCall /\ sync'[d].base = sync[d].base /\ Knows(sync[d].base, g, f)
      BY <2>2 DEF RecordsKnowTree, CallsOf
    <3> SUFFICES ASSUME NEW g \in SyncHost, NEW f \in SyncFile, NEW d \in CallsOf(g)',
                        d # c, sync'[d].step # "publish"
                 PROVE  Knows(sync[d].base, g, f)'
      OBVIOUS
    <3>2. d \in SyncCall /\ sync'[d].base = sync[d].base /\ Knows(sync[d].base, g, f)
      BY <3>1
    <3> QED
      BY <1>1, <2>1, <3>2 DEF Knows
  <2>6. \A f \in SyncFile : Knows(sync[c].base, h, f)'
    BY <1>1, <2>4 DEF Knows
  <2> QED
    BY <2>3, <2>4, <2>5, <2>6 DEF RecordsKnowTree
<1>19. SeenIsTree' /\ RestoredIsObject' /\ PublishedIsStored'
  BY <1>1, <1>16 DEF SeenIsTree, RestoredIsObject, PublishedIsStored, Pushes, Transfers
<1>20. TokensTell'
  BY <1>1, <1>16 DEF TokensTell, Tells
<1>21. LedgerDescribesObjects' /\ PullLosesOnlyExcused'
  BY <1>1, <1>16 DEF LedgerDescribesObjects, PullLosesOnlyExcused
<1> QED
  BY <1>8, <1>9, <1>10, <1>11, <1>12, <1>13, <1>14, <1>15, <1>17, <1>18, <1>19, <1>20, <1>21

\* What a delta finds the same: the body of the object, or the entry with its token.
LEMMA SameIsObject ==
  ASSUME SyncInvariant, NEW body \in Body, NEW f \in SyncFile, NEW base \in Manifest,
         NEW tag \in Tag,
         Seen(tag), SameObject(body, f, base, tag)
  PROVE  /\ tag # NoTag
         /\ tags = "md5" => tag[1] = "md5" /\ tag[2] = body
         /\ tags = "part" =>
              tag[1] = "part" /\ f \in Files(base) /\ base[f].tag = tag /\ base[f].sha = body
<1>1. tags \in {"md5", "part"} /\ NoTag[1] = "none"
  BY DEF SyncInvariant, SyncTypes, NoTag
<1> QED
  BY <1>1 DEF SameObject, Seen, Recorded

\* A push plans: a file it finds the same is in an object, or was when its entry was made.
LEMMA PlanPushStep ==
  ASSUME SyncInvariant, NEW c \in SyncCall, PlanPush(c)
  PROVE  SyncInvariant'
<1> USE DEF SyncInvariant
<1> DEFINE s == sync[c]
           t == sync'[c]
           h == sync[c].host
           seen == [f \in s.walked |-> tree[sync[c].host][f]]
           same == {f \in s.walked : SameObject(seen[f], f, s.base, bucket[f].tag)}
           left == s.walked \ same
           synced == [f \in same \cap Files(s.base) |-> s.base[f]]
<1>1. /\ s \in Call /\ s.step = "reading" /\ s.dir = "push" /\ h \in SyncHost
      /\ s.walked \in SUBSET SyncFile /\ s.base \in Manifest
      /\ sync \in [SyncCall -> Call] /\ s = sync[c] /\ h = s.host
      /\ s.failed = {} /\ s.repaired = {} /\ Files(s.synced) = {} /\ ~s.aborted
  BY CallParts DEF PlanPush, Pushing, SyncTypes, CallShape, Runs, Files, Manifest
<1>2. /\ sync' = [sync EXCEPT ![c] = [s EXCEPT !.step = "transfer", !.seen = seen, !.left = left,
                                        !.synced = synced]]
      /\ UNCHANGED quiet
  BY DEF PlanPush
<1>3. /\ seen \in Of(Body) /\ left \in SomeFiles /\ synced \in Of(Entry)
      /\ DOMAIN seen = s.walked /\ Files(synced) = same \cap Files(s.base)
      /\ \A f \in s.walked : seen[f] = tree[h][f]
      /\ \A f \in Files(synced) : synced[f] = s.base[f] /\ f \in same
      /\ left \subseteq s.walked /\ same \subseteq s.walked /\ left \cap same = {}
      /\ \A f \in s.walked : f \in left \/ f \in same
      /\ "transfer" \in Step
  <2>1. seen \in [s.walked -> Body]
    BY <1>1 DEF SyncTypes
  <2>2. same \cap Files(s.base) \in SUBSET SyncFile
    BY <1>1
  <2>3. synced \in [same \cap Files(s.base) -> Entry]
    <3>1. \A f \in Files(s.base) : s.base[f] \in Entry
      BY <1>1, OfParts DEF Files, Manifest
    <3> QED
      BY <3>1
  <2>4. Files(synced) = same \cap Files(s.base)
    BY <2>2, <2>3, EntriesAreRecords
  <2> QED
    BY <1>1, <2>1, <2>2, <2>3, <2>4, OfHas DEF SomeFiles, Step
<1>4. \A f \in same :
        /\ bucket[f].tag # NoTag
        /\ tags = "md5" => seen[f] = bucket[f].body
        /\ tags = "part" => /\ bucket[f].tag[1] = "part" /\ f \in Files(s.base)
                            /\ s.base[f].tag = bucket[f].tag /\ s.base[f].sha = seen[f]
  <2> SUFFICES ASSUME NEW f \in same
               PROVE  /\ bucket[f].tag # NoTag
                      /\ tags = "md5" => seen[f] = bucket[f].body
                      /\ tags = "part" =>
                           /\ bucket[f].tag[1] = "part" /\ f \in Files(s.base)
                           /\ s.base[f].tag = bucket[f].tag /\ s.base[f].sha = seen[f]
    OBVIOUS
  <2>1. /\ f \in SyncFile /\ seen[f] \in Body /\ SameObject(seen[f], f, s.base, bucket[f].tag)
        /\ bucket[f].tag \in Tag /\ Seen(bucket[f].tag)
    BY <1>1, ObjectTags DEF SyncTypes
  <2>2. tags = "md5" /\ bucket[f].tag # NoTag => bucket[f].tag = <<"md5", bucket[f].body>>
    BY <2>1 DEF BucketShape
  <2> HIDE DEF seen, same
  <2> QED
    BY <1>1, <2>1, <2>2, SameIsObject
<1> HIDE DEF seen, same, left, synced, h
<1>5. /\ t \in Call /\ t.step = "transfer" /\ t.seen = seen /\ t.left = left /\ t.synced = synced
      /\ t.host = s.host /\ t.dir = s.dir /\ t.walked = s.walked /\ t.newer = s.newer
      /\ t.base = s.base /\ t.listed = s.listed /\ t.names = s.names /\ t.failed = s.failed
      /\ t.repaired = s.repaired /\ t.aborted = s.aborted /\ t.alone = s.alone
  <2>1. t = [s EXCEPT !.step = "transfer", !.seen = seen, !.left = left, !.synced = synced]
    BY <1>1, <1>2
  <2> HIDE DEF s, t
  <2> QED
    BY <1>1, <1>3, <2>1 DEF Call
<1>6. /\ \A d \in SyncCall : d # c => sync'[d] = sync[d]
      /\ sync' \in [SyncCall -> Call] /\ t = sync'[c]
  BY <1>1, <1>2, <1>5
<1> HIDE DEF s, t
<1> USE <1>1, <1>3, <1>5, <1>6
<1>7. UNCHANGED <<tags, tree, bucket, checksums, manifest, touched, unconfirmed, everPushed,
                  syncLock, version, syncs, mishaps, tokens, mirrored, racedBodies, unsent,
                  overwritten, astray, unproved, blessed, rotten, unsettled>>
  BY <1>2 DEF quiet
<1>8. /\ Unsaved(s) = {} /\ Unsaved(t) = {}
      /\ \A g \in SyncHost : CallsOf(g)' = CallsOf(g)
  BY DEF Unsaved, CallsOf
<1>9. SyncTypes'
  BY <1>7 DEF SyncTypes
<1>10. CallShape'
  BY <1>7 DEF CallShape, Runs, Pushes, Transfers, Missing
<1>11. BucketShape'
  BY <1>7 DEF BucketShape
<1>12. TagsWereSeen'
  BY <1>7 DEF TagsWereSeen, Seen
<1>13. RotIsUnproved' /\ RotIsRotten'
  BY <1>7 DEF RotIsUnproved, RotIsRotten
<1>14. OneHolder' /\ EntriesAreSound'
  BY <1>7 DEF OneHolder, Stored, EntriesAreSound, Sound
<1>15. UnstoredIsTold' /\ CallFoundUnstored'
  BY <1>7 DEF UnstoredIsTold, CallFoundUnstored, Unstored, Untold, Leaves, Runs
<1>16. PushSendsUnstored'
  <2>1. ASSUME NEW f \in same
        PROVE  ~Unstored(tree[h][f])
    <3>1. f \in SyncFile /\ seen[f] = tree[h][f]
      OBVIOUS
    <3>2. CASE tags = "md5"
      BY <1>4, <3>1, <3>2 DEF BucketShape, Unstored
    <3>3. CASE tags = "part"
      BY <1>4, <3>1, <3>3 DEF EntriesAreSound, Sound, Unstored
    <3> QED
      BY <3>2, <3>3 DEF SyncTypes
  <2>2. \A f \in SyncFile : Unstored(tree[h][f]) => f \in left /\ seen[f] = tree[h][f]
    BY <2>1 DEF CallFoundUnstored, Runs
  <2> QED
    BY <1>7, <2>2 DEF PushSendsUnstored, Unstored, Pushes
<1>17. PullRestored'
  BY <1>7 DEF PullRestored, Unstored, Transfers
<1>18. AloneIsAlone'
  BY <1>7, <1>8 DEF AloneIsAlone, Runs, Meets, Pushing
<1>19. RecordsKnowTree'
  <2>1. \A g \in SyncHost, f \in SyncFile : Excused(g, f)' <=> Excused(g, f)
    BY <1>7, <1>8 DEF Excused, CallsOf
  <2> QED
    BY <1>7, <1>8, <2>1 DEF RecordsKnowTree, Knows, CallsOf
<1>20. SeenIsTree' /\ RestoredIsObject'
  BY <1>7 DEF SeenIsTree, RestoredIsObject, Pushes, Transfers
<1>21. TokensTell'
  BY <1>7 DEF TokensTell, Tells
<1>22. PublishedIsStored'
  <2>1. ASSUME s.alone, NEW f \in Files(synced) \ (astray \cup rotten)
        PROVE  synced[f].sha \in {bucket[f].body} \cup blessed
    <3>1. /\ f \in same /\ f \in SyncFile /\ f \in Files(s.base) /\ synced[f] = s.base[f]
          /\ seen[f] = tree[h][f] /\ tree[h][f] # NoBody
      BY <2>1 DEF CallShape, Runs
    <3>2. CASE tags = "md5"
      <4>1. CallsOf(h) = {c}
        BY <2>1 DEF CallsOf, AloneIsAlone, Runs, Meets
      <4>2. ~Excused(h, f) /\ tree[h][f] \in mirrored
        BY <1>4, <1>8, <2>1, <3>1, <3>2, <4>1 DEF Excused, BucketShape, RotIsRotten
      <4>3. s.base[f].sha = tree[h][f]
        BY <3>1, <4>1, <4>2 DEF RecordsKnowTree, Knows
      <4> QED
        BY <1>4, <3>1, <3>2, <4>3
    <3>3. CASE tags = "part"
      BY <1>4, <2>1, <3>1, <3>3 DEF TokensTell, Tells
    <3> QED
      BY <3>2, <3>3 DEF SyncTypes
  <2> QED
    BY <1>7, <2>1 DEF PublishedIsStored, Pushes
<1>23. LedgerDescribesObjects' /\ PullLosesOnlyExcused'
  BY <1>7 DEF LedgerDescribesObjects, PullLosesOnlyExcused
<1> QED
  BY <1>9, <1>10, <1>11, <1>12, <1>13, <1>14, <1>15, <1>16, <1>17, <1>18, <1>19, <1>20, <1>21,
     <1>22, <1>23

\* A pull plans, or refuses: what it has no object for is excused, and only when nothing is
\* newer than the last sync does it go on.
LEMMA PlanPullStep ==
  ASSUME SyncInvariant, NEW c \in SyncCall, PlanPull(c)
  PROVE  SyncInvariant'
<1> USE DEF SyncInvariant
<1> DEFINE s == sync[c]
           t == sync'[c]
           h == sync[c].host
           same == {f \in s.walked : SameObject(tree[h][f], f, s.base, s.listed[f])}
           left == {f \in SyncFile : s.listed[f] # NoTag} \ same
           gone == Missing(s)
           given == {tree[h][f] : f \in gone}
<1>1. /\ s \in Call /\ s.step = "reading" /\ s.dir = "pull" /\ h \in SyncHost
      /\ s.walked \in SUBSET SyncFile /\ s.base \in Manifest
      /\ sync \in [SyncCall -> Call] /\ s = sync[c] /\ h = s.host
      /\ s.left = {} /\ s.failed = {} /\ s.repaired = {} /\ Files(s.synced) = {} /\ ~s.aborted
      /\ DOMAIN s.listed = SyncFile /\ DOMAIN s.seen = {}
  <2>1. s \in Call /\ s.step = "reading" /\ s.has = {"listing", "ledger"} /\ ~Pushing(c)
    <3>1. s.step = "reading" /\ s.has = {"listing", "ledger"} /\ ~Pushing(c)
      BY DEF PlanPull
    <3> QED
      BY <3>1 DEF SyncTypes
  <2>2. s.dir = "pull" \/ s.dir = "push"
    BY <2>1 DEF CallShape, Runs
  <2>3. s.dir # "push"
    BY <2>1 DEF Pushing
  <2> QED
    BY <2>1, <2>2, <2>3, CallParts DEF CallShape, Runs, Files, Manifest, SyncTypes
<1>2. /\ IF Refuses(s)
           THEN /\ sync' = [sync EXCEPT ![c] = NoSync]
                /\ syncLock' = [syncLock EXCEPT ![h] = NoRecord]
                /\ unsent' = unsent
           ELSE /\ sync' = [sync EXCEPT ![c] = [s EXCEPT !.step = "transfer", !.left = left,
                              !.failed = gone]]
                /\ unsent' = unsent \cup given
                /\ syncLock' = syncLock
      /\ UNCHANGED <<tags, tree, bucket, checksums, manifest, touched, unconfirmed, everPushed,
                     version, syncs, mishaps, tokens, mirrored, racedBodies, overwritten,
                     astray, unproved, blessed, rotten, unsettled>>
  BY DEF PlanPull
<1>3. CASE Refuses(s)
  <2>1. SyncTypes'
    BY <1>1, <1>2, <1>3, NoSyncIsCall DEF SyncTypes
  <2>2. LedgerDescribesObjects'
    BY <1>2, <1>3 DEF LedgerDescribesObjects
  <2>3. Unsaved(s) = {}
    BY <1>1 DEF Unsaved
  <2>4. /\ \A f \in Files(checksums') : checksums'[f] = Rot => f \in unproved
        /\ \A g \in SyncHost : \A f \in SyncFile : Unstored(tree[g][f]) => f \in unconfirmed'[g]
        /\ (\E d \in SyncCall \ {c} : Pushing(d)) => unsettled'
    BY <1>2 DEF RotIsUnproved, UnstoredIsTold, AloneIsAlone
  <2> HIDE DEF SyncInvariant
  <2>5. /\ CallShape' /\ BucketShape' /\ TagsWereSeen'
        /\ RotIsUnproved' /\ RotIsRotten' /\ OneHolder' /\ EntriesAreSound'
        /\ UnstoredIsTold' /\ CallFoundUnstored' /\ PushSendsUnstored' /\ PullRestored'
        /\ AloneIsAlone' /\ RecordsKnowTree' /\ SeenIsTree' /\ TokensTell'
        /\ RestoredIsObject' /\ PublishedIsStored' /\ PullLosesOnlyExcused'
    BY <1>2, <1>3, <2>3, <2>4, CallEnds
  <2> QED
    BY <2>1, <2>2, <2>5 DEF SyncInvariant
<1>4. CASE ~Refuses(s)
  <2>1. /\ left \in SomeFiles /\ gone \in SomeFiles /\ given \in SUBSET Body
        /\ \A f \in left : s.listed[f] # NoTag
        /\ \A f \in gone : s.listed[f] = NoTag
        /\ gone = Missing(s)
        /\ \A f \in SyncFile : s.listed[f] # NoTag => f \in left \/ f \in same
        /\ \A f \in gone : tree[h][f] \in given
        /\ same \subseteq s.walked
        /\ s.base # NoRecord => s.newer = {}
        /\ "transfer" \in Step
    <3>1. gone \in SUBSET SyncFile
      <4>1. s.names \in Of(Body) \cup {NoRecord}
        BY <1>1, CallParts
      <4> QED
        BY <4>1, OfParts DEF Missing, Files
    <3>2. \A f \in SyncFile : tree[h][f] \in Body
      BY <1>1 DEF SyncTypes
    <3> QED
      BY <1>4, <3>1, <3>2 DEF SomeFiles, Step, Missing, Refuses
  <2>2. ASSUME NEW f \in same
        PROVE  tree[h][f] # NoBody /\ ~Unstored(tree[h][f])
    <3>1. /\ f \in SyncFile /\ f \in s.walked /\ tree[h][f] \in Body /\ tree[h][f] # NoBody
          /\ SameObject(tree[h][f], f, s.base, s.listed[f])
      BY <1>1 DEF SyncTypes, CallShape, Runs
    <3>2. s.listed[f] \in Tag /\ Seen(s.listed[f])
      BY <1>1, <3>1, RecordParts DEF TagsWereSeen
    <3> HIDE DEF same
    <3>3. /\ s.listed[f] # NoTag
          /\ tags = "md5" => s.listed[f][1] = "md5" /\ s.listed[f][2] = tree[h][f]
          /\ tags = "part" => /\ s.listed[f][1] = "part" /\ f \in Files(s.base)
                              /\ s.base[f].tag = s.listed[f] /\ s.base[f].sha = tree[h][f]
      BY <1>1, <3>1, <3>2, SameIsObject
    <3>4. CASE tags = "md5"
      BY <3>1, <3>2, <3>3, <3>4 DEF Seen, Unstored
    <3>5. CASE tags = "part"
      BY <3>1, <3>3, <3>5 DEF EntriesAreSound, Sound, Unstored
    <3> QED
      BY <3>1, <3>4, <3>5 DEF SyncTypes
  <2> HIDE DEF same, left, gone, given, h
  <2>3. /\ t \in Call /\ t.step = "transfer" /\ t.left = left /\ t.failed = gone
        /\ t.host = s.host /\ t.dir = s.dir /\ t.walked = s.walked /\ t.newer = s.newer
        /\ t.base = s.base /\ t.listed = s.listed /\ t.names = s.names /\ t.seen = s.seen
        /\ t.synced = s.synced /\ t.repaired = s.repaired /\ t.aborted = s.aborted
        /\ t.alone = s.alone
    <3>1. t = [s EXCEPT !.step = "transfer", !.left = left, !.failed = gone]
      BY <1>1, <1>2, <1>4
    <3> HIDE DEF s, t
    <3> QED
      BY <1>1, <2>1, <3>1 DEF Call
  <2>4. /\ \A d \in SyncCall : d # c => sync'[d] = sync[d]
        /\ sync' \in [SyncCall -> Call] /\ t = sync'[c]
    BY <1>1, <1>2, <1>4, <2>3
  <2>5. /\ unsent' = unsent \cup given /\ syncLock' = syncLock
        /\ UNCHANGED <<tags, tree, bucket, checksums, manifest, touched, unconfirmed, everPushed,
                       version, syncs, mishaps, tokens, mirrored, racedBodies, overwritten,
                       astray, unproved, blessed, rotten, unsettled>>
    BY <1>2, <1>4
  <2> HIDE DEF s, t
  <2> USE <1>1, <2>1, <2>3, <2>4
  <2>6. /\ Unsaved(s) = {} /\ Unsaved(t) = {}
        /\ \A g \in SyncHost : CallsOf(g)' = CallsOf(g)
    BY DEF Unsaved, CallsOf
  <2>7. SyncTypes'
    BY <2>5 DEF SyncTypes
  <2>8. CallShape'
    BY <2>5 DEF CallShape, Runs, Pushes, Transfers, Missing
  <2>9. BucketShape'
    BY <2>5 DEF BucketShape
  <2>10. TagsWereSeen'
    BY <2>5 DEF TagsWereSeen, Seen
  <2>11. RotIsUnproved' /\ RotIsRotten'
    BY <2>5 DEF RotIsUnproved, RotIsRotten
  <2>12. OneHolder' /\ EntriesAreSound'
    BY <2>5 DEF OneHolder, Stored, EntriesAreSound, Sound
  <2>13. UnstoredIsTold' /\ CallFoundUnstored'
    BY <2>5 DEF UnstoredIsTold, CallFoundUnstored, Unstored, Untold, Leaves, Runs
  <2>14. PushSendsUnstored'
    BY <2>5 DEF PushSendsUnstored, Unstored, Pushes
  <2>15. PullRestored'
    BY <2>2, <2>5 DEF PullRestored, Unstored, Transfers
  <2>16. AloneIsAlone'
    BY <2>5, <2>6 DEF AloneIsAlone, Runs, Meets, Pushing
  <2>17. RecordsKnowTree'
    <3>1. \A g \in SyncHost, f \in SyncFile : Excused(g, f)' <=> Excused(g, f)
      BY <2>5, <2>6 DEF Excused, CallsOf
    <3> QED
      BY <2>5, <2>6, <3>1 DEF RecordsKnowTree, Knows, CallsOf
  <2>18. SeenIsTree' /\ RestoredIsObject'
    BY <2>5 DEF SeenIsTree, RestoredIsObject, Pushes, Transfers
  <2>19. TokensTell' /\ PublishedIsStored'
    BY <2>5 DEF TokensTell, Tells, PublishedIsStored, Pushes
  <2>20. LedgerDescribesObjects' /\ PullLosesOnlyExcused'
    BY <2>5 DEF LedgerDescribesObjects, PullLosesOnlyExcused
  <2> QED
    BY <2>7, <2>8, <2>9, <2>10, <2>11, <2>12, <2>13, <2>14, <2>15, <2>16, <2>17, <2>18, <2>19,
       <2>20
<1> QED
  BY <1>3, <1>4

\* An object is stored, or lost with its answer: the bytes it makes stored are those of one
\* file of one host.
LEMMA PutObjectStep ==
  ASSUME SyncInvariant, NEW c \in SyncCall, NEW f \in SyncFile, NEW stored \in BOOLEAN,
         NEW answered \in BOOLEAN, PutObject(c, f, stored, answered)
  PROVE  SyncInvariant'
<1> USE DEF SyncInvariant
<1> DEFINE s == sync[c]
           t == sync'[c]
           h == sync[c].host
           body == s.seen[f]
           tag == ETag(body, tokens + 1)
           recorded == [g \in Files(s.synced) \cup {f} |->
                          IF g = f THEN [sha |-> body, tag |-> tag] ELSE s.synced[g]]
           left == s.left \ {f}
           synced == IF answered THEN recorded ELSE s.synced
           failed == IF answered THEN s.failed ELSE s.failed \cup {f}
           n == tokens'
<1>1. /\ s \in Call /\ s.step = "transfer" /\ s.dir = "push" /\ h \in SyncHost /\ f \in s.left
      /\ f \in s.walked /\ DOMAIN s.seen = s.walked /\ body \in Body /\ body # NoBody
      /\ f \notin Files(s.synced) /\ f \notin s.failed
      /\ sync \in [SyncCall -> Call] /\ s = sync[c] /\ h = s.host
      /\ s.walked \in SUBSET SyncFile /\ s.left \in SUBSET SyncFile /\ s.failed \in SUBSET SyncFile
      /\ s.synced \in Of(Entry) /\ body = s.seen[f]
  <2>1. s \in Call /\ s.step = "transfer" /\ s.dir = "push" /\ f \in s.left
    BY DEF PutObject, Transferring, Pushing, SyncTypes
  <2>2. f \in s.walked /\ DOMAIN s.seen = s.walked
    BY <2>1 DEF CallShape, Pushes
  <2>3. body \in Body
    BY <2>2, RecordParts
  <2> QED
    BY <2>1, <2>2, <2>3, CallParts DEF CallShape, Runs, Pushes, SyncTypes
<1>2. /\ answered => stored
      /\ mishaps' \in 0..MaxMishaps
      /\ IF stored
           THEN /\ bucket' = [bucket EXCEPT ![f] = [body |-> body, tag |-> tag]]
                /\ n = IF tags = "part" THEN tokens + 1 ELSE tokens
                /\ mirrored' = mirrored \cup {body}
           ELSE bucket' = bucket /\ n = tokens /\ mirrored' = mirrored
      /\ sync' = [sync EXCEPT ![c].left = left, ![c].synced = synced, ![c].failed = failed]
      /\ unsent' = IF answered THEN unsent ELSE unsent \cup {body}
      /\ astray' = IF stored /\ ~(answered /\ s.alone) THEN astray \cup {f} ELSE astray
      /\ UNCHANGED <<tags, tree, checksums, manifest, touched, unconfirmed, everPushed, syncLock,
                     version, syncs, racedBodies, overwritten, rotten, blessed, unproved,
                     unsettled>>
  BY MishapCounts DEF PutObject
<1>3. /\ tokens \in Nat /\ n \in Nat /\ tokens <= n /\ n = tokens'
      /\ tags \in {"md5", "part"} /\ tags' = tags
      /\ tag \in Tag /\ tag # NoTag
      /\ tags = "md5" => tag = <<"md5", body>> /\ tag[1] = "md5" /\ tag[2] = body
      /\ tags = "part" => tag = <<"part", tokens + 1>> /\ tag[1] = "part" /\ tag[2] = tokens + 1
      /\ stored /\ tags = "part" => n = tokens + 1
  <2>1. tokens \in Nat /\ tags \in {"md5", "part"} /\ tokens + 1 \in Nat
    BY DEF SyncTypes
  <2> HIDE DEF body
  <2>2. /\ tag \in Tag /\ tag # NoTag
        /\ tags = "md5" => tag = <<"md5", body>>
        /\ tags = "part" => tag = <<"part", tokens + 1>>
    BY <1>1, <2>1, TagOf
  <2>3. n = IF stored /\ tags = "part" THEN tokens + 1 ELSE tokens
    BY <1>2
  <2> HIDE DEF n, tag
  <2>4. n \in Nat /\ tokens <= n /\ (stored /\ tags = "part" => n = tokens + 1)
    BY <2>1, <2>3
  <2>5. n = tokens' /\ tags' = tags
    BY <1>2 DEF n
  <2> QED
    BY <2>1, <2>2, <2>4, <2>5
<1>4. /\ left \in SomeFiles /\ failed \in SomeFiles /\ synced \in Of(Entry)
      /\ Files(synced) = IF answered THEN Files(s.synced) \cup {f} ELSE Files(s.synced)
      /\ \A g \in Files(s.synced) : g # f /\ synced[g] = s.synced[g]
      /\ answered => synced[f].sha = body /\ synced[f].tag = tag
      /\ left = s.left \ {f} /\ failed = IF answered THEN s.failed ELSE s.failed \cup {f}
      /\ Files(s.synced) \in SUBSET SyncFile
  <2>1. Files(s.synced) \in SUBSET SyncFile /\ \A g \in Files(s.synced) : s.synced[g] \in Entry
    BY <1>1, OfParts DEF Files
  <2>2. [sha |-> body, tag |-> tag] \in Entry
    BY <1>1, <1>3 DEF Entry
  <2> HIDE DEF body, tag
  <2>3. /\ recorded \in [Files(s.synced) \cup {f} -> Entry]
        /\ recorded[f] = [sha |-> body, tag |-> tag]
        /\ \A g \in Files(s.synced) : g # f /\ recorded[g] = s.synced[g]
    BY <1>1, <2>1, <2>2
  <2>4. recorded \in Of(Entry) /\ Files(recorded) = Files(s.synced) \cup {f}
    <3>1. Files(s.synced) \cup {f} \in SUBSET SyncFile
      BY <2>1
    <3> HIDE DEF recorded, s
    <3> QED
      BY <2>3, <3>1, OfHas, EntriesAreRecords
  <2> HIDE DEF recorded
  <2> QED
    BY <1>1, <2>1, <2>3, <2>4 DEF SomeFiles
<1> HIDE DEF n, tag, body, recorded, left, synced, failed
<1>5. /\ t \in Call /\ t.left = left /\ t.synced = synced /\ t.failed = failed
      /\ t.host = s.host /\ t.dir = s.dir /\ t.step = s.step /\ t.walked = s.walked
      /\ t.newer = s.newer /\ t.base = s.base /\ t.listed = s.listed /\ t.names = s.names
      /\ t.seen = s.seen /\ t.repaired = s.repaired /\ t.aborted = s.aborted /\ t.alone = s.alone
  <2>1. t = [s EXCEPT !.left = left, !.synced = synced, !.failed = failed]
    BY <1>1, <1>2
  <2> HIDE DEF s, t
  <2> QED
    BY <1>1, <1>4, <2>1 DEF Call
<1>6. /\ \A d \in SyncCall : d # c => sync'[d] = sync[d]
      /\ sync' \in [SyncCall -> Call] /\ t = sync'[c]
  BY <1>1, <1>2, <1>5
<1>7. /\ astray \subseteq astray' /\ unsent \subseteq unsent' /\ mirrored \subseteq mirrored'
      /\ ~answered => body \in unsent'
      /\ stored => /\ body \in mirrored' /\ bucket'[f].body = body /\ bucket'[f].tag = tag
                   /\ f \notin astray' => answered /\ s.alone
      /\ \A e \in SyncFile : e # f => bucket'[e] = bucket[e]
      /\ ~stored => bucket' = bucket /\ mirrored' = mirrored
      /\ mirrored' \subseteq mirrored \cup {body}
  BY <1>2 DEF SyncTypes
<1>a. /\ answered => stored
      /\ UNCHANGED <<tags, tree, checksums, manifest, touched, unconfirmed, everPushed, syncLock,
                     version, syncs, racedBodies, overwritten, rotten, blessed, unproved,
                     unsettled>>
      /\ answered /\ ~s.alone => f \in astray'
  BY <1>2
<1> HIDE DEF s, t, h
<1> USE <1>1, <1>5, <1>6, <1>7
\* What becomes stored is on this host, in this file.
<1>8. \A g \in SyncHost, e \in SyncFile :
        tree[g][e] \in mirrored' \ mirrored /\ e \notin astray' \cup rotten =>
          stored /\ tree[g][e] = body /\ g = h /\ e = f /\ answered /\ s.alone
  <2> SUFFICES ASSUME NEW g \in SyncHost, NEW e \in SyncFile,
                      tree[g][e] \in mirrored' \ mirrored, e \notin astray' \cup rotten
               PROVE  stored /\ tree[g][e] = body /\ g = h /\ e = f /\ answered /\ s.alone
    OBVIOUS
  <2>1. stored /\ tree[g][e] = body /\ body # NoBody /\ body # Rot
    BY DEF RotIsRotten
  <2>2. ~Stored(tree[g][e])
    BY <2>1 DEF Stored
  <2>3. g = h /\ e = f
    BY <2>1, <2>2 DEF OneHolder
  <2> QED
    BY <2>1, <2>3
<1>9. /\ Unsaved(s) \subseteq Unsaved(t) /\ Unsaved(t) \subseteq Unsaved(s) \cup {f}
      /\ ~answered => Unsaved(t) = Unsaved(s)
      /\ answered /\ f \notin Unsaved(t) => f \in Files(s.base) /\ s.base[f].sha = body
      /\ \A g \in SyncHost : CallsOf(g)' = CallsOf(g)
  BY <1>4 DEF Unsaved, CallsOf
<1>10. SyncTypes'
  <2>1. bucket' \in [SyncFile -> [body : Body, tag : Tag]]
    <3>1. [body |-> body, tag |-> tag] \in [body : Body, tag : Tag]
      BY <1>3
    <3>2. bucket \in [SyncFile -> [body : Body, tag : Tag]]
      BY DEF SyncTypes
    <3> QED
      BY <1>2, <3>1, <3>2
  <2>2. mirrored' \in SUBSET Body /\ unsent' \in SUBSET Body /\ astray' \in SUBSET SyncFile
    BY <1>2 DEF SyncTypes
  <2> QED
    BY <1>2, <1>3, <2>1, <2>2 DEF SyncTypes
<1>11. CallShape'
  <2>1. /\ left \cup failed \subseteq s.walked /\ left \cap failed = {}
        /\ Files(synced) \cap (left \cup failed) = {} /\ Files(synced) \subseteq s.walked
        /\ \A g \in failed : s.seen[g] \in unsent'
        /\ \A g \in Files(synced) : \/ g \in Files(s.base) /\ synced[g] = s.base[g]
                                    \/ synced[g].sha = s.seen[g]
    BY <1>4 DEF CallShape, Pushes, Runs
  <2> QED
    BY <1>a, <2>1 DEF CallShape, Runs, Pushes, Transfers, Missing
<1>12. BucketShape'
  <2>1. body <= version
    BY DEF BucketShape
  <2>2. \A e \in SyncFile : tags = "part" /\ bucket[e].tag # NoTag => bucket[e].tag[2] <= n
    <3> SUFFICES ASSUME NEW e \in SyncFile, tags = "part", bucket[e].tag # NoTag
                 PROVE  bucket[e].tag[2] <= n
      OBVIOUS
    <3>1. bucket[e].tag \in Tag /\ bucket[e].tag[1] = "part" /\ bucket[e].tag[2] <= tokens
      BY ObjectTags DEF BucketShape
    <3>2. bucket[e].tag[2] \in Nat
      BY <3>1 DEF Tag, NoTag
    <3> QED
      BY <1>3, <3>1, <3>2
  <2>3. stored /\ tags = "part" => tag[2] <= n
    BY <1>3
  <2>4. ASSUME NEW e \in SyncFile
        PROVE  /\ bucket'[e].body = NoBody <=> bucket'[e].tag = NoTag
               /\ bucket'[e].body \in mirrored' \cup {NoBody, Rot}
               /\ bucket'[e].tag # NoTag =>
                    IF tags = "md5" THEN bucket'[e].tag = <<"md5", bucket'[e].body>>
                    ELSE bucket'[e].tag[1] = "part" /\ bucket'[e].tag[2] <= n
    <3>1. CASE bucket'[e] = bucket[e]
      BY <1>3, <2>2, <3>1 DEF BucketShape
    <3>2. CASE e = f /\ stored
      BY <1>3, <2>3, <3>2
    <3> QED
      BY <3>1, <3>2
  <2>5. NoBody \notin mirrored' /\ \A b \in mirrored' : b <= version
    BY <2>1 DEF BucketShape
  <2> QED
    BY <1>a, <1>3, <2>4, <2>5 DEF BucketShape
<1>13. TagsWereSeen'
  <2>1. \A a \in Tag : Seen(a) => Seen(a)'
    BY <1>3, TagsStaySeen
  <2>2. \A a \in Tag : answered /\ a = tag => Seen(a)'
    BY <1>a, <1>3 DEF Seen
  <2> QED
    BY <1>a, <1>3, <1>4, <2>1, <2>2, RecordParts DEF TagsWereSeen
<1>14. RotIsUnproved'
  BY <1>a, <1>4 DEF RotIsUnproved
<1>15. RotIsRotten'
  <2>1. f \notin rotten => body # Rot
    BY DEF RotIsRotten
  <2> QED
    BY <1>a, <2>1 DEF RotIsRotten
<1>16. OneHolder'
  BY <1>a DEF OneHolder, Stored
<1>17. EntriesAreSound'
  BY <1>a, <1>4 DEF EntriesAreSound, Sound
<1>18. UnstoredIsTold' /\ CallFoundUnstored'
  BY <1>a DEF UnstoredIsTold, CallFoundUnstored, Unstored, Untold, Leaves, Runs
<1>19. PushSendsUnstored'
  BY <1>a, <1>4 DEF PushSendsUnstored, Unstored, Pushes
<1>20. PullRestored'
  BY <1>a DEF PullRestored, Unstored, Transfers
<1>21. AloneIsAlone'
  <2>1. ASSUME NEW d \in SyncCall \ {c}, sync[d].host = h
        PROVE  Unsaved(t) \subseteq astray'
    <3>1. ~s.alone
      BY <2>1 DEF AloneIsAlone, Runs, Meets
    <3>2. answered => f \in astray'
      BY <1>a, <3>1
    <3>3. Unsaved(s) \subseteq astray
      <4>1. Runs(c) /\ sync[d].host = sync[c].host
        BY <2>1 DEF Runs
      <4>2. Unsaved(sync[c]) \subseteq astray
        BY <2>1, <4>1 DEF AloneIsAlone
      <4> QED
        BY <4>2
    <3> QED
      BY <1>9, <3>2, <3>3
  <2> QED
    BY <1>a, <2>1 DEF AloneIsAlone, Runs, Meets, Pushing
<1>22. RecordsKnowTree'
  <2>1. \A g \in SyncHost, e \in SyncFile : Excused(g, e) => Excused(g, e)'
    BY <1>a, <1>9 DEF Excused, CallsOf
  <2>2. s.alone => manifest[h] = s.base /\ CallsOf(h) = {c}
    BY DEF AloneIsAlone, Runs, Meets, CallsOf
  <2>3. \A g \in SyncHost : answered /\ g = h /\ ~Excused(g, f)' =>
          f \in Files(s.base) /\ s.base[f].sha = body
    BY <1>9 DEF Excused, CallsOf
  <2> DEFINE KnowsNow(record, g, e) ==
        e \in Files(record) /\ tree[g][e] \in mirrored' /\ ~Excused(g, e)' =>
          record[e].sha = tree[g][e]
  <2>4. ASSUME NEW g \in SyncHost, NEW e \in SyncFile, NEW record,
               Knows(record, g, e), g = h /\ s.alone => record = s.base
        PROVE  KnowsNow(record, g, e)
    <3>1. CASE tree[g][e] \in mirrored' \ mirrored /\ ~Excused(g, e)'
      <4>1. e \notin astray' \cup rotten
        BY <1>a, <3>1 DEF Excused
      <4>2. tree[g][e] = body /\ g = h /\ e = f /\ answered /\ s.alone
        BY <1>8, <3>1, <4>1
      <4> QED
        BY <2>3, <2>4, <3>1, <4>2
    <3>2. CASE ~(tree[g][e] \in mirrored' \ mirrored /\ ~Excused(g, e)')
      BY <2>1, <2>4, <3>2 DEF Knows
    <3> QED
      BY <3>1, <3>2
  <2> HIDE DEF KnowsNow
  <2>5. \A g \in SyncHost, e \in SyncFile : KnowsNow(manifest[g], g, e)
    BY <2>2, <2>4 DEF RecordsKnowTree
  <2>6. ASSUME NEW g \in SyncHost, NEW e \in SyncFile, NEW d \in CallsOf(g),
               sync[d].step # "publish"
        PROVE  KnowsNow(sync[d].base, g, e)
    <3>1. g = h /\ s.alone => sync[d].base = s.base
      BY <2>2
    <3> QED
      BY <2>4, <2>6, <3>1 DEF RecordsKnowTree
  <2>7. \A d \in SyncCall : sync'[d].base = sync[d].base /\ sync'[d].step = sync[d].step
    OBVIOUS
  <2>8. \A g \in SyncHost, e \in SyncFile : \A d \in CallsOf(g)' : sync'[d].step # "publish" =>
          KnowsNow(sync[d].base, g, e) /\ sync'[d].base = sync[d].base
    BY <1>9, <2>6, <2>7 DEF CallsOf
  <2>9. UNCHANGED <<manifest, tree>>
    BY <1>2
  <2> QED
    BY <2>5, <2>8, <2>9 DEF RecordsKnowTree, Knows, KnowsNow
<1>23. SeenIsTree'
  <2>1. ASSUME NEW d \in SyncCall, Pushes(d), NEW e \in sync[d].walked \ (astray' \cup rotten)
        PROVE  tree[sync[d].host][e] = sync[d].seen[e] \/ tree[sync[d].host][e] \notin mirrored'
    <3>1. sync[d].host \in SyncHost /\ e \in SyncFile
      BY <2>1, CallParts DEF CallShape, Runs, Pushes, SyncTypes
    <3>2. CASE tree[sync[d].host][e] \in mirrored' \ mirrored
      <4>1. tree[sync[d].host][e] = body /\ sync[d].host = h /\ e = f /\ s.alone
        BY <1>8, <2>1, <3>1, <3>2
      <4>2. d = c
        BY <4>1 DEF AloneIsAlone, Runs, Meets
      <4> QED
        BY <4>1, <4>2
    <3>3. CASE tree[sync[d].host][e] \notin mirrored' \ mirrored
      BY <2>1, <3>3 DEF SeenIsTree
    <3> QED
      BY <3>2, <3>3
  <2> QED
    BY <1>a, <2>1 DEF SeenIsTree, Pushes
\* A new token is in no record and in no listing.
<1>24. stored => \A a \in Tag : Seen(a) /\ a[1] = "part" => a # tag
  <2> SUFFICES ASSUME stored, Seen(tag), tag[1] = "part" PROVE FALSE
    OBVIOUS
  <2>1. tags = "part" /\ tag[2] <= tokens /\ tag[2] = tokens + 1
    BY <1>3 DEF Seen
  <2> QED
    BY <1>3, <2>1
<1>25. TokensTell'
  <2> DEFINE TellsNow(record, e) ==
        /\ e \in Files(record) \ (astray' \cup rotten)
        /\ record[e].tag[1] = "part" /\ record[e].tag = bucket'[e].tag
        => record[e].sha \in {bucket'[e].body} \cup blessed
  <2>1. ASSUME NEW e \in SyncFile, NEW record, Tells(record, e),
               e \in Files(record) => record[e].tag \in Tag /\ Seen(record[e].tag)
        PROVE  TellsNow(record, e)
    BY <1>a, <1>24, <2>1 DEF Tells
  <2> HIDE DEF TellsNow
  <2>2. \A e \in SyncFile : \A g \in SyncHost : TellsNow(manifest[g], e)
    BY <2>1, RecordParts DEF TokensTell, TagsWereSeen
  <2>3. \A e \in SyncFile, d \in SyncCall :
          TellsNow(sync[d].base, e) /\ TellsNow(sync[d].synced, e)
    BY <2>1, RecordParts DEF TokensTell, TagsWereSeen
  <2>4. \A e \in SyncFile : TellsNow(t.synced, e)
    BY <1>a, <1>4, <2>3 DEF TellsNow
  <2>5. \A d \in SyncCall :
          sync'[d].base = sync[d].base /\ (d # c => sync'[d].synced = sync[d].synced)
    OBVIOUS
  <2>6. manifest' = manifest /\ rotten' = rotten /\ blessed' = blessed /\ t = sync'[c]
    BY <1>2
  <2> QED
    BY <2>2, <2>3, <2>4, <2>5, <2>6 DEF TokensTell, Tells, TellsNow
<1>26. RestoredIsObject'
  <2>1. ASSUME NEW d \in SyncCall, Transfers(d, "pull"), NEW e \in sync[d].repaired \ rotten,
               sync[d].listed[e][1] = "part", sync[d].listed[e] = bucket'[e].tag
        PROVE  tree[sync[d].host][e] = bucket'[e].body \/ tree[sync[d].host][e] \notin mirrored'
    <3>1. /\ sync[d].host \in SyncHost /\ e \in SyncFile /\ e \in DOMAIN sync[d].listed
          /\ sync[d] \in Call
      BY <2>1, CallParts DEF CallShape, Runs, Transfers, SyncTypes
    <3>2. sync[d].listed[e] \in Tag /\ Seen(sync[d].listed[e])
      BY <3>1, RecordParts DEF TagsWereSeen
    <3>3. ~(stored /\ e = f)
      BY <1>24, <2>1, <3>2
    <3>4. \/ tree[sync[d].host][e] = bucket'[e].body
          \/ tree[sync[d].host][e] \notin mirrored
      BY <2>1, <3>1, <3>3 DEF RestoredIsObject
    <3>5. ASSUME tree[sync[d].host][e] \in mirrored' \ mirrored
          PROVE  FALSE
      <4>1. stored /\ tree[sync[d].host][e] = body /\ body # Rot /\ body # NoBody
        BY <2>1, <3>1, <3>5 DEF RotIsRotten
      <4>2. e = f
        BY <3>1, <3>5, <4>1 DEF OneHolder, Stored
      <4> QED
        BY <3>3, <4>1, <4>2
    <3> QED
      BY <3>4, <3>5
  <2> QED
    BY <1>a, <2>1 DEF RestoredIsObject, Transfers
<1>27. PublishedIsStored'
  <2>1. \A d \in SyncCall \ {c} : Pushes(d) => ~sync[d].alone
    BY DEF AloneIsAlone, Runs, Meets, Pushes, Pushing
  <2>2. ASSUME s.alone, NEW e \in Files(synced) \ (astray' \cup rotten)
        PROVE  synced[e].sha \in {bucket'[e].body} \cup blessed
    <3>1. CASE e = f
      BY <1>a, <1>4, <2>2, <3>1
    <3>2. CASE e # f
      <4>1. e \in Files(s.synced) \ (astray \cup rotten) /\ e \in SyncFile
        BY <1>4, <2>2, <3>2
      <4> QED
        BY <1>4, <2>2, <3>2, <4>1 DEF PublishedIsStored, Pushes
    <3> QED
      BY <3>1, <3>2
  <2> QED
    BY <1>a, <2>1, <2>2 DEF PublishedIsStored, Pushes
<1>28. LedgerDescribesObjects' /\ PullLosesOnlyExcused'
  BY <1>a DEF LedgerDescribesObjects, PullLosesOnlyExcused, AloneIsAlone, Pushing
<1> QED
  BY <1>10, <1>11, <1>12, <1>13, <1>14, <1>15, <1>16, <1>17, <1>18, <1>19, <1>20, <1>21, <1>22,
     <1>23, <1>25, <1>26, <1>27, <1>28


\* An object is restored: the bytes it writes over were stored, or are excused; or it is
\* rejected, and the local bytes are excused.
LEMMA GetObjectStep ==
  ASSUME SyncInvariant, NEW c \in SyncCall, NEW f \in SyncFile, NEW answered \in BOOLEAN,
         GetObject(c, f, answered)
  PROVE  SyncInvariant'
<1> USE DEF SyncInvariant
<1> DEFINE s == sync[c]
           t == sync'[c]
           h == sync[c].host
           body == bucket[f].body
           old == tree[h][f]
           left == s.left \ {f}
           repaired == s.repaired \cup {f}
           failed == s.failed \cup {f}
           accepted == answered /\ Accepted(body, f, s)
<1>1. /\ s \in Call /\ s.step = "transfer" /\ s.dir = "pull" /\ h \in SyncHost /\ f \in s.left
      /\ f \notin s.failed /\ f \notin s.repaired /\ s.listed[f] # NoTag
      /\ s.base # NoRecord => s.newer = {}
      /\ body \in Body /\ body \in mirrored \cup {NoBody, Rot} /\ old \in Body
      /\ sync \in [SyncCall -> Call] /\ s = sync[c] /\ h = s.host
      /\ s.repaired \in SUBSET SyncFile /\ s.left \in SUBSET SyncFile
      /\ s.failed \in SUBSET SyncFile
      /\ body = bucket[f].body /\ old = tree[h][f]
  <2>1. s \in Call /\ s.step = "transfer" /\ ~Pushing(c) /\ f \in s.left
    BY DEF GetObject, Transferring, SyncTypes
  <2>2. s.dir = "pull" /\ h \in SyncHost
    BY <2>1 DEF CallShape, Runs, Pushing
  <2>3. /\ f \notin s.failed /\ f \notin s.repaired /\ s.listed[f] # NoTag
        /\ s.base # NoRecord => s.newer = {}
    BY <2>1, <2>2 DEF CallShape, Runs, Transfers
  <2>4. body \in Body /\ body \in mirrored \cup {NoBody, Rot} /\ old \in Body
    BY <2>2, ObjectTags DEF BucketShape, SyncTypes
  <2> QED
    BY <2>1, <2>2, <2>3, <2>4, CallParts DEF SyncTypes
<1>2. /\ answered => body # NoBody
      /\ mishaps' \in 0..MaxMishaps
      /\ IF accepted
           THEN /\ tree' = [tree EXCEPT ![h][f] = body]
                /\ astray' = IF s.alone THEN astray ELSE astray \cup {f}
                /\ unproved' = IF f \in Files(s.names) THEN unproved ELSE unproved \cup {f}
                /\ touched' = [touched EXCEPT ![h] = @ \cup {f}]
                /\ unconfirmed' = [unconfirmed EXCEPT ![h] = @ \cup {f}]
                /\ overwritten' = IF s.base = NoRecord \/ old \in mirrored \cup {NoBody, Rot}
                                    THEN overwritten ELSE overwritten \cup {old}
                /\ sync' = [sync EXCEPT ![c].left = left, ![c].repaired = repaired]
                /\ unsent' = unsent
           ELSE /\ sync' = [sync EXCEPT ![c].left = left, ![c].failed = failed]
                /\ unsent' = unsent \cup {old}
                /\ UNCHANGED <<tree, touched, unconfirmed, overwritten, astray, unproved>>
      /\ UNCHANGED <<tags, bucket, checksums, manifest, everPushed, syncLock, version, syncs,
                     tokens, mirrored, racedBodies, blessed, rotten, unsettled>>
  BY MishapCounts DEF GetObject
<1>3. left \in SomeFiles /\ repaired \in SomeFiles /\ failed \in SomeFiles
  BY <1>1 DEF SomeFiles
<1>4. accepted => /\ body # NoBody /\ body \in mirrored \cup {Rot}
                  /\ f \in Files(s.names) => s.names[f] = body
  BY <1>1, <1>2 DEF Accepted
<1>5. left = s.left \ {f} /\ repaired = s.repaired \cup {f} /\ failed = s.failed \cup {f}
  OBVIOUS
<1> HIDE DEF body, old, left, repaired, failed, accepted
<1>6. CASE accepted
  <2>1. /\ t \in Call /\ t.left = left /\ t.repaired = repaired
        /\ t.host = s.host /\ t.dir = s.dir /\ t.step = s.step /\ t.walked = s.walked
        /\ t.newer = s.newer /\ t.base = s.base /\ t.listed = s.listed /\ t.names = s.names
        /\ t.seen = s.seen /\ t.synced = s.synced /\ t.failed = s.failed
        /\ t.aborted = s.aborted /\ t.alone = s.alone
    <3>1. t = [s EXCEPT !.left = left, !.repaired = repaired]
      BY <1>1, <1>2, <1>6
    <3> HIDE DEF s, t
    <3> QED
      BY <1>1, <1>3, <3>1 DEF Call
  <2>2. /\ \A d \in SyncCall : d # c => sync'[d] = sync[d]
        /\ sync' \in [SyncCall -> Call] /\ t = sync'[c]
    BY <1>1, <1>2, <1>6, <2>1
  <2>a. /\ tree' = [tree EXCEPT ![h][f] = body]
        /\ astray' = IF s.alone THEN astray ELSE astray \cup {f}
        /\ unproved' = IF f \in Files(s.names) THEN unproved ELSE unproved \cup {f}
        /\ touched' = [touched EXCEPT ![h] = @ \cup {f}]
        /\ unconfirmed' = [unconfirmed EXCEPT ![h] = @ \cup {f}]
        /\ overwritten' = IF s.base = NoRecord \/ old \in mirrored \cup {NoBody, Rot}
                            THEN overwritten ELSE overwritten \cup {old}
    BY <1>2, <1>6
  <2> HIDE DEF s, t, h
  <2>b. /\ h \in SyncHost /\ body \in Body /\ tree \in [SyncHost -> [SyncFile -> Body]]
        /\ touched \in [SyncHost -> SUBSET SyncFile]
        /\ unconfirmed \in [SyncHost -> SUBSET SyncFile]
    BY <1>1 DEF SyncTypes
  <2>3. /\ tree'[h][f] = body
        /\ \A g \in SyncHost, e \in SyncFile : g # h \/ e # f => tree'[g][e] = tree[g][e]
        /\ f \in touched'[h] /\ f \in unconfirmed'[h]
        /\ \A g \in SyncHost :
             touched[g] \subseteq touched'[g] /\ unconfirmed[g] \subseteq unconfirmed'[g]
        /\ astray \subseteq astray' /\ unproved \subseteq unproved'
    BY <2>a, <2>b
  <2>4. /\ s.alone \/ f \in astray'
        /\ f \in Files(s.names) \/ f \in unproved'
        /\ astray' \in SUBSET SyncFile /\ unproved' \in SUBSET SyncFile
    BY <2>a DEF SyncTypes
  <2>5. /\ unsent' = unsent
        /\ UNCHANGED <<tags, bucket, checksums, manifest, everPushed, syncLock, version, syncs,
                       tokens, mirrored, racedBodies, blessed, rotten, unsettled>>
    BY <1>2, <1>6
  <2>6. body # NoBody /\ body \in mirrored \cup {Rot} /\ (f \in Files(s.names) => s.names[f] = body)
    BY <1>4, <1>6
  <2>7. \A b \in overwritten' : \/ b \in overwritten \cup racedBodies
                                \/ b = old /\ Unstored(old) /\ s.base # NoRecord
    BY <2>a DEF Unstored
  <2>8. tree' \in [SyncHost -> [SyncFile -> Body]]
    BY <2>a, <2>b
  <2>9. /\ touched' \in [SyncHost -> SUBSET SyncFile]
        /\ unconfirmed' \in [SyncHost -> SUBSET SyncFile]
    BY <2>a, <2>b
  <2>10. mishaps' \in 0..MaxMishaps
    BY <1>2
  <2> USE <1>1, <1>5, <2>1, <2>2, <2>3, <2>4, <2>5, <2>6
  <2>11. /\ Unsaved(s) = s.repaired /\ Unsaved(t) = s.repaired \cup {f}
         /\ \A g \in SyncHost : CallsOf(g)' = CallsOf(g)
    BY DEF Unsaved, CallsOf
  <2>12. ~Unstored(body)
    BY DEF Unstored
  <2>13. SyncTypes'
    <3>1. overwritten' \in SUBSET Body
      BY <2>7 DEF SyncTypes
    <3> QED
      BY <2>8, <2>9, <2>10, <3>1 DEF SyncTypes
  <2>14. CallShape'
    <3>1. /\ left \cap s.failed = {} /\ repaired \cap (left \cup s.failed) = {}
          /\ \A e \in left \cup repaired : s.listed[e] # NoTag
      BY DEF CallShape, Runs, Transfers
    <3>2. \A d \in SyncCall : Runs(d) => \A e \in sync[d].walked : tree'[sync[d].host][e] # NoBody
      <4>1. \A d \in SyncCall : sync[d].walked \in SUBSET SyncFile
        BY CallParts
      <4> QED
        BY <4>1 DEF CallShape
    <3> QED
      BY <3>1, <3>2 DEF CallShape, Runs, Pushes, Transfers, Missing
  <2>15. BucketShape'
    <3>1. body <= version
      BY DEF BucketShape, SyncTypes, Rot
    <3> QED
      BY <3>1 DEF BucketShape
  <2>16. TagsWereSeen'
    BY DEF TagsWereSeen, Seen
  <2>17. RotIsUnproved'
    <3>1. body = Rot => f \in unproved'
      BY DEF RotIsUnproved
    <3> QED
      BY <3>1 DEF RotIsUnproved
  <2>18. RotIsRotten'
    BY DEF RotIsRotten
  <2>19. OneHolder'
    BY DEF OneHolder, Stored
  <2>20. EntriesAreSound'
    BY DEF EntriesAreSound, Sound
  <2>21. UnstoredIsTold'
    BY <2>12 DEF UnstoredIsTold, Unstored, Untold, Leaves
  <2>22. CallFoundUnstored'
    BY <2>12 DEF CallFoundUnstored, Unstored, Untold, Leaves, Runs, CallShape
  <2>23. PushSendsUnstored'
    BY <2>12 DEF PushSendsUnstored, Unstored, Pushes, CallShape, Runs
  <2>24. PullRestored'
    BY <2>12 DEF PullRestored, Unstored, Transfers, CallShape, Runs
  <2>25. AloneIsAlone'
    <3>1. ASSUME NEW d \in SyncCall \ {c}, sync[d].host = h
          PROVE  Unsaved(t) \subseteq astray'
      <4>1. ~s.alone /\ Runs(c) /\ sync[d].host = sync[c].host
        BY <3>1 DEF AloneIsAlone, Runs, Meets
      <4>2. Unsaved(sync[c]) \subseteq astray
        BY <3>1, <4>1 DEF AloneIsAlone
      <4> QED
        BY <2>11, <4>1, <4>2
    <3> QED
      BY <3>1 DEF AloneIsAlone, Runs, Meets, Pushing
  <2>26. RecordsKnowTree'
    <3>1. \A g \in SyncHost, e \in SyncFile : Excused(g, e) => Excused(g, e)'
      BY <2>11 DEF Excused, CallsOf
    <3>2. \A g \in SyncHost : g = h => Excused(g, f)'
      BY <2>11 DEF Excused, CallsOf
    <3> QED
      BY <2>11, <3>1, <3>2 DEF RecordsKnowTree, Knows, CallsOf
  <2>27. SeenIsTree'
    <3>1. \A d \in SyncCall : Pushes(d) /\ sync[d].host = h => f \in astray'
      BY DEF AloneIsAlone, Runs, Meets, Pushes
    <3>2. ASSUME NEW d \in SyncCall, Pushes(d), NEW e \in sync[d].walked \ (astray' \cup rotten)
          PROVE  tree'[sync[d].host][e] = sync[d].seen[e] \/ tree'[sync[d].host][e] \notin mirrored
      <4>1. sync[d].host \in SyncHost /\ e \in SyncFile
        BY <3>2, CallParts DEF CallShape, Runs, Pushes
      <4> QED
        BY <3>1, <3>2, <4>1 DEF SeenIsTree
    <3> QED
      BY <3>2 DEF SeenIsTree, Pushes
  <2>28. TokensTell'
    BY DEF TokensTell, Tells
  <2>29. RestoredIsObject'
    <3>1. ASSUME NEW d \in SyncCall, Transfers(d, "pull"), NEW e \in sync'[d].repaired \ rotten,
                 sync[d].listed[e][1] = "part", sync[d].listed[e] = bucket[e].tag
          PROVE  tree'[sync[d].host][e] = bucket[e].body \/ tree'[sync[d].host][e] \notin mirrored
      <4>1. /\ sync[d].host \in SyncHost /\ e \in SyncFile
            /\ e # f \/ d # c => e \in sync[d].repaired
        BY <3>1, CallParts DEF CallShape, Runs, Transfers
      <4> QED
        BY <3>1, <4>1 DEF RestoredIsObject
    <3> QED
      BY <3>1 DEF RestoredIsObject, Transfers
  <2>30. PublishedIsStored'
    BY DEF PublishedIsStored, Pushes
  <2>31. LedgerDescribesObjects'
    BY DEF LedgerDescribesObjects
  <2>32. PullLosesOnlyExcused'
    <3>1. Unstored(old) /\ s.base # NoRecord => old \in blessed \cup unsent
      BY DEF CallFoundUnstored, Runs, Untold
    <3> QED
      BY <2>7, <3>1 DEF PullLosesOnlyExcused
  <2> QED
    BY <2>13, <2>14, <2>15, <2>16, <2>17, <2>18, <2>19, <2>20, <2>21, <2>22, <2>23, <2>24, <2>25,
       <2>26, <2>27, <2>28, <2>29, <2>30, <2>31, <2>32
<1>7. CASE ~accepted
  <2>1. /\ t \in Call /\ t.left = left /\ t.failed = failed
        /\ t.host = s.host /\ t.dir = s.dir /\ t.step = s.step /\ t.walked = s.walked
        /\ t.newer = s.newer /\ t.base = s.base /\ t.listed = s.listed /\ t.names = s.names
        /\ t.seen = s.seen /\ t.synced = s.synced /\ t.repaired = s.repaired
        /\ t.aborted = s.aborted /\ t.alone = s.alone
    <3>1. t = [s EXCEPT !.left = left, !.failed = failed]
      BY <1>1, <1>2, <1>7
    <3> HIDE DEF s, t
    <3> QED
      BY <1>1, <1>3, <3>1 DEF Call
  <2>2. /\ \A d \in SyncCall : d # c => sync'[d] = sync[d]
        /\ sync' \in [SyncCall -> Call] /\ t = sync'[c]
    BY <1>1, <1>2, <1>7, <2>1
  <2>3. /\ unsent' = unsent \cup {old} /\ mishaps' \in 0..MaxMishaps
        /\ UNCHANGED <<tags, tree, bucket, checksums, manifest, touched, unconfirmed, everPushed,
                       syncLock, version, syncs, tokens, mirrored, racedBodies, blessed,
                       overwritten, astray, unproved, rotten, unsettled>>
    BY <1>2, <1>7
  <2> HIDE DEF s, t, h
  <2> USE <1>1, <1>5, <2>1, <2>2, <2>3
  <2>4. /\ Unsaved(s) = Unsaved(t)
        /\ \A g \in SyncHost : CallsOf(g)' = CallsOf(g)
    BY UnsavedAsBefore DEF CallsOf
  <2>5. SyncTypes'
    BY DEF SyncTypes
  <2>6. CallShape'
    <3>1. /\ left \cap failed = {} /\ s.repaired \cap (left \cup failed) = {}
          /\ Missing(s) \subseteq failed
      BY DEF CallShape, Runs, Transfers
    <3> QED
      BY <3>1 DEF CallShape, Runs, Pushes, Transfers, Missing
  <2>7. BucketShape'
    BY DEF BucketShape
  <2>8. TagsWereSeen'
    BY DEF TagsWereSeen, Seen
  <2>9. RotIsUnproved' /\ RotIsRotten'
    BY DEF RotIsUnproved, RotIsRotten
  <2>10. OneHolder' /\ EntriesAreSound'
    BY DEF OneHolder, Stored, EntriesAreSound, Sound
  <2>11. UnstoredIsTold' /\ CallFoundUnstored'
    BY DEF UnstoredIsTold, CallFoundUnstored, Unstored, Untold, Leaves, Runs
  <2>12. PushSendsUnstored'
    BY DEF PushSendsUnstored, Unstored, Pushes
  <2>13. PullRestored'
    BY DEF PullRestored, Unstored, Transfers
  <2>14. AloneIsAlone'
    BY <2>4 DEF AloneIsAlone, Runs, Meets, Pushing
  <2>15. RecordsKnowTree'
    <3>1. \A g \in SyncHost, e \in SyncFile : Excused(g, e)' <=> Excused(g, e)
      BY <2>4 DEF Excused, CallsOf
    <3> QED
      BY <2>4, <3>1 DEF RecordsKnowTree, Knows, CallsOf
  <2>16. SeenIsTree' /\ RestoredIsObject'
    BY DEF SeenIsTree, RestoredIsObject, Pushes, Transfers
  <2>17. TokensTell' /\ PublishedIsStored'
    BY DEF TokensTell, Tells, PublishedIsStored, Pushes
  <2>18. LedgerDescribesObjects' /\ PullLosesOnlyExcused'
    BY DEF LedgerDescribesObjects, PullLosesOnlyExcused
  <2> QED
    BY <2>5, <2>6, <2>7, <2>8, <2>9, <2>10, <2>11, <2>12, <2>13, <2>14, <2>15, <2>16, <2>17, <2>18
<1> QED
  BY <1>6, <1>7


\* A push saves its manifest: what it did not send is not in it.
LEMMA SavePushManifestStep ==
  ASSUME SyncInvariant, NEW c \in SyncCall, SavePushManifest(c)
  PROVE  SyncInvariant'
<1> USE DEF SyncInvariant
<1> DEFINE s == sync[c]
           t == sync'[c]
           h == sync[c].host
<1>1. /\ s \in Call /\ s.step = "transfer" /\ s.dir = "push" /\ h \in SyncHost /\ s.left = {}
      /\ s.synced \in Of(Entry) /\ s.base \in Manifest /\ "publish" \in Step
      /\ sync \in [SyncCall -> Call] /\ s = sync[c] /\ h = s.host
      /\ s.synced # NoRecord /\ s.synced \in Manifest
  <2>1. s \in Call /\ s.step = "transfer" /\ s.dir = "push" /\ s.left = {}
    BY DEF SavePushManifest, Transferred, Pushing, SyncTypes
  <2>2. s.synced \in Of(Entry) /\ s.base \in Manifest /\ h \in SyncHost
    BY <2>1, CallParts DEF CallShape, Runs, Manifest
  <2>3. s.synced # NoRecord
    BY <2>2, EntriesAreRecords DEF Of
  <2> QED
    BY <2>1, <2>2, <2>3 DEF SyncTypes, Step, Manifest
<1>2. /\ manifest' = [manifest EXCEPT ![h] = s.synced]
      /\ touched' = [touched EXCEPT ![h] = {}]
      /\ sync' = [sync EXCEPT ![c].step = "publish"]
      /\ UNCHANGED <<tags, tree, bucket, checksums, unconfirmed, everPushed, syncLock, version,
                     syncs, mishaps, tokens, mirrored, racedBodies, unsent, overwritten, astray,
                     unproved, blessed, rotten, unsettled>>
  BY DEF SavePushManifest
<1>3. /\ t \in Call /\ t.step = "publish"
      /\ t.host = s.host /\ t.dir = s.dir /\ t.walked = s.walked /\ t.newer = s.newer
      /\ t.base = s.base /\ t.listed = s.listed /\ t.names = s.names /\ t.seen = s.seen
      /\ t.left = s.left /\ t.synced = s.synced /\ t.failed = s.failed
      /\ t.repaired = s.repaired /\ t.aborted = s.aborted /\ t.alone = s.alone
  <2>1. t = [s EXCEPT !.step = "publish"]
    BY <1>1, <1>2
  <2> HIDE DEF s, t
  <2> QED
    BY <1>1, <2>1 DEF Call
<1>4. /\ \A d \in SyncCall : d # c => sync'[d] = sync[d]
      /\ sync' \in [SyncCall -> Call] /\ t = sync'[c]
  BY <1>1, <1>2, <1>3
<1> HIDE DEF s, t, h
<1>5. /\ manifest \in [SyncHost -> Manifest] /\ touched \in [SyncHost -> SUBSET SyncFile]
  BY DEF SyncTypes
<1>6. /\ manifest'[h] = s.synced /\ touched'[h] = {}
      /\ \A g \in SyncHost : g # h => manifest'[g] = manifest[g] /\ touched'[g] = touched[g]
      /\ manifest' \in [SyncHost -> Manifest] /\ touched' \in [SyncHost -> SUBSET SyncFile]
  BY <1>1, <1>2, <1>5
<1> USE <1>1, <1>3, <1>4, <1>6
<1>7. UNCHANGED <<tags, tree, bucket, checksums, unconfirmed, everPushed, syncLock, version,
                  syncs, mishaps, tokens, mirrored, racedBodies, unsent, overwritten, astray,
                  unproved, blessed, rotten, unsettled>>
  BY <1>2
<1>8. /\ Unsaved(t) = {} /\ \A g \in SyncHost : CallsOf(g)' = CallsOf(g)
  BY DEF Unsaved, CallsOf
\* What another call of the host does not have is astray already.
<1>9. \A g \in SyncHost, f \in SyncFile :
        Excused(g, f) => \/ Excused(g, f)'
                         \/ g = h /\ f \in Unsaved(s) /\ CallsOf(h) = {c}
  <2> SUFFICES ASSUME NEW g \in SyncHost, NEW f \in SyncFile, Excused(g, f), ~Excused(g, f)'
               PROVE  g = h /\ f \in Unsaved(s) /\ CallsOf(h) = {c}
    OBVIOUS
  <2>1. PICK d \in CallsOf(g) : f \in Unsaved(sync[d]) /\ f \notin astray
    BY <1>7 DEF Excused
  <2>2. d \in SyncCall /\ d \in CallsOf(g)'
    BY <1>8, <2>1 DEF CallsOf
  <2>3. d = c
    BY <2>1, <2>2 DEF Excused
  <2>4. g = h
    BY <2>1, <2>3 DEF CallsOf
  <2>5. \A e \in SyncCall \ {c} : sync[e].host # h
    BY <2>1, <2>3 DEF AloneIsAlone, Runs
  <2> QED
    BY <2>1, <2>3, <2>4, <2>5 DEF CallsOf
<1>10. SyncTypes'
  BY <1>7 DEF SyncTypes
<1>11. CallShape'
  BY <1>7 DEF CallShape, Runs, Pushes, Transfers, Missing
<1>12. BucketShape'
  BY <1>7 DEF BucketShape
<1>13. TagsWereSeen'
  BY <1>7 DEF TagsWereSeen, Seen
<1>14. RotIsUnproved' /\ RotIsRotten'
  BY <1>7 DEF RotIsUnproved, RotIsRotten
<1>15. OneHolder' /\ EntriesAreSound'
  BY <1>7 DEF OneHolder, Stored, EntriesAreSound, Sound
<1>16. UnstoredIsTold'
  <2>1. \A f \in SyncFile :
          Unstored(tree[h][f]) => f \notin Files(s.synced) /\ tree[h][f] \in unsent
    BY DEF PushSendsUnstored, Pushes, CallShape
  <2> QED
    BY <1>7, <2>1 DEF UnstoredIsTold, Unstored, Untold, Leaves
<1>17. CallFoundUnstored' /\ PushSendsUnstored' /\ PullRestored'
  BY <1>7 DEF CallFoundUnstored, PushSendsUnstored, PullRestored, Unstored, Untold, Leaves, Runs,
              Pushes, Transfers
<1>18. AloneIsAlone'
  <2>1. \A d \in SyncCall \ {c} :
          sync[d].alone /\ Runs(d) => sync[d].host # h /\ sync[d].host \in SyncHost
    BY DEF AloneIsAlone, Runs, Meets, CallShape
  <2> QED
    BY <1>7, <1>8, <2>1 DEF AloneIsAlone, Runs, Meets, Pushing
<1>19. RecordsKnowTree'
  <2>1. ASSUME NEW f \in SyncFile, f \in Files(s.synced), tree[h][f] \in mirrored,
               f \notin astray \cup rotten
        PROVE  s.synced[f].sha = tree[h][f]
    <3>1. f \in s.walked
      BY <2>1 DEF CallShape, Pushes
    <3>2. CASE s.synced[f].sha = s.seen[f]
      BY <2>1, <3>1, <3>2 DEF SeenIsTree, Pushes
    <3>3. CASE f \in Files(s.base) /\ s.synced[f] = s.base[f]
      <4>1. f \notin Unsaved(s)
        BY <3>3 DEF Unsaved
      <4>2. \A d \in CallsOf(h) : f \notin Unsaved(sync[d])
        BY <2>1, <4>1 DEF AloneIsAlone, CallsOf, Runs, Unsaved
      <4>3. ~Excused(h, f) /\ c \in CallsOf(h)
        BY <2>1, <4>2 DEF Excused, CallsOf
      <4> QED
        BY <2>1, <3>3, <4>3 DEF RecordsKnowTree, Knows
    <3> QED
      BY <2>1, <3>2, <3>3 DEF CallShape, Pushes
  <2>2. \A g \in SyncHost, f \in SyncFile : Knows(manifest[g], g, f)'
    BY <1>7, <1>9, <2>1 DEF RecordsKnowTree, Knows, Excused
  <2>3. \A g \in SyncHost, f \in SyncFile : \A d \in CallsOf(g)' :
          sync'[d].step # "publish" =>
            d \in CallsOf(g) /\ d \in SyncCall /\ d # c /\ sync[d].step # "publish"
            /\ sync'[d] = sync[d] /\ (Excused(g, f) => Excused(g, f)')
    BY <1>8, <1>9 DEF CallsOf
  <2> QED
    BY <1>7, <2>2, <2>3 DEF RecordsKnowTree, Knows
<1>20. SeenIsTree' /\ RestoredIsObject'
  BY <1>7 DEF SeenIsTree, RestoredIsObject, Pushes, Transfers
<1>21. TokensTell' /\ PublishedIsStored'
  BY <1>7 DEF TokensTell, Tells, PublishedIsStored, Pushes
<1>22. LedgerDescribesObjects' /\ PullLosesOnlyExcused'
  BY <1>7 DEF LedgerDescribesObjects, PullLosesOnlyExcused
<1> QED
  BY <1>10, <1>11, <1>12, <1>13, <1>14, <1>15, <1>16, <1>17, <1>18, <1>19, <1>20, <1>21, <1>22


\* A pull saves its manifest: bytes in no object get an entry without an ETag.
LEMMA FinishPullStep ==
  ASSUME SyncInvariant, NEW c \in SyncCall, FinishPull(c)
  PROVE  SyncInvariant'
<1> USE DEF SyncInvariant
<1> DEFINE s == sync[c]
           h == sync[c].host
           kept == walkLocal(h) \ (s.failed \ Files(s.base))
           Wrote(f) == IF f \in s.failed THEN s.base[f]
                       ELSE [sha |-> tree[h][f],
                             tag |-> IF f \in s.repaired THEN s.listed[f] ELSE Recorded(s.base, f)]
           saved == [f \in kept |-> Wrote(f)]
           bodies == {tree[h][f] : f \in kept \ s.failed} \ (mirrored \cup {Rot})
<1>1. /\ s \in Call /\ s.step = "transfer" /\ s.dir = "pull" /\ h \in SyncHost /\ s.left = {}
      /\ s.base \in Manifest /\ DOMAIN s.listed = SyncFile
      /\ sync \in [SyncCall -> Call] /\ s = sync[c] /\ h = s.host
      /\ s.repaired \cap s.failed = {} /\ s.failed \in SUBSET SyncFile
      /\ \A f \in s.repaired : s.listed[f] # NoTag
      /\ s.base # NoRecord => s.newer = {}
      /\ Unsaved(s) = s.repaired
  <2>1. s \in Call /\ s.step = "transfer" /\ ~Pushing(c) /\ s.left = {}
    BY DEF FinishPull, Transferred, SyncTypes
  <2>2. s.dir = "pull" /\ h \in SyncHost /\ s.base \in Manifest /\ s.failed \in SUBSET SyncFile
    BY <2>1, CallParts DEF CallShape, Runs, Pushing, Manifest
  <2> QED
    BY <2>1, <2>2 DEF CallShape, Runs, Transfers, SyncTypes, Unsaved
<1>2. /\ manifest' = [manifest EXCEPT ![h] = saved]
      /\ blessed' = blessed \cup bodies
      /\ touched' = [touched EXCEPT ![h] = {}]
      /\ sync' = [sync EXCEPT ![c] = NoSync]
      /\ syncLock' = IF s.aborted THEN syncLock ELSE [syncLock EXCEPT ![h] = NoRecord]
      /\ UNCHANGED <<tags, tree, bucket, checksums, unconfirmed, everPushed, version, syncs,
                     mishaps, tokens, mirrored, racedBodies, unsent, overwritten, astray,
                     unproved, rotten, unsettled>>
  BY DEF FinishPull, Release
<1>3. /\ kept \subseteq SyncFile /\ DOMAIN saved = kept
      /\ \A f \in SyncFile : f \in kept <=>
           tree[h][f] # NoBody /\ (f \in s.failed => f \in Files(s.base))
      /\ \A f \in kept : IF f \in s.failed THEN saved[f] = s.base[f]
                         ELSE /\ saved[f].sha = tree[h][f]
                              /\ saved[f].tag = IF f \in s.repaired THEN s.listed[f]
                                                ELSE Recorded(s.base, f)
      /\ \A f \in kept : f \notin s.failed /\ tree[h][f] \notin mirrored \cup {Rot} =>
           tree[h][f] \in bodies
      /\ bodies \in SUBSET Body
  <2>1. \A f \in SyncFile : tree[h][f] \in Body
    BY <1>1 DEF SyncTypes
  <2> QED
    BY <2>1 DEF walkLocal
<1>4. saved \in Of(Entry) /\ saved # NoRecord /\ Files(saved) = kept
  <2>1. \A f \in kept : Wrote(f) \in Entry
    <3> SUFFICES ASSUME NEW f \in kept PROVE Wrote(f) \in Entry
      OBVIOUS
    <3>1. f \in SyncFile /\ tree[h][f] \in Body /\ (f \in s.failed => f \in Files(s.base))
      BY <1>1, <1>3 DEF SyncTypes
    <3>2. f \in Files(s.base) => s.base[f] \in Entry /\ s.base[f].tag \in Tag
      <4>1. f \in Files(s.base) => s.base \in Of(Entry) /\ f \in DOMAIN s.base
        BY <1>1 DEF Manifest, Files
      <4>2. f \in Files(s.base) => s.base[f] \in Entry
        BY <4>1, OfParts
      <4> QED
        BY <4>2 DEF Entry
    <3>3. s.listed[f] \in Tag /\ NoTag \in Tag
      BY <1>1, <3>1, RecordParts DEF Tag
    <3> QED
      BY <3>1, <3>2, <3>3 DEF Entry, Recorded
  <2> HIDE DEF Wrote, kept
  <2>2. saved \in [kept -> Entry] /\ kept \in SUBSET SyncFile
    BY <1>3, <2>1
  <2> HIDE DEF saved
  <2> QED
    BY <2>2, OfHas, EntriesAreRecords
<1> HIDE DEF kept, Wrote, saved, bodies
<1>5. /\ sync'[c] = NoSync /\ \A d \in SyncCall : d # c => sync'[d] = sync[d]
      /\ DOMAIN sync' = SyncCall /\ sync' \in [SyncCall -> Call]
  BY <1>1, <1>2, NoSyncIsCall
<1> HIDE DEF s, h
<1>6. /\ manifest \in [SyncHost -> Manifest] /\ touched \in [SyncHost -> SUBSET SyncFile]
      /\ saved \in Manifest
  BY <1>4 DEF SyncTypes, Manifest
<1>7. /\ manifest'[h] = saved /\ touched'[h] = {}
      /\ \A g \in SyncHost : g # h => manifest'[g] = manifest[g] /\ touched'[g] = touched[g]
      /\ manifest' \in [SyncHost -> Manifest] /\ touched' \in [SyncHost -> SUBSET SyncFile]
      /\ blessed' = blessed \cup bodies
  BY <1>1, <1>2, <1>6
<1>8. UNCHANGED <<tags, tree, bucket, checksums, unconfirmed, everPushed, version, syncs,
                  mishaps, tokens, mirrored, racedBodies, unsent, overwritten, astray,
                  unproved, rotten, unsettled>>
  BY <1>2
<1> USE <1>1, <1>3, <1>4, <1>5, <1>7, NoSyncHolds
\* What is in no object was there before: its entry has no ETag.
<1>9. \A f \in SyncFile : Unstored(tree[h][f]) =>
        /\ f \in Files(s.base) => s.base[f].tag = NoTag /\ tree[h][f] \in blessed
        /\ f \notin s.repaired
        /\ f \in s.failed => tree[h][f] \in unsent
  <2> SUFFICES ASSUME NEW f \in SyncFile, Unstored(tree[h][f])
               PROVE  /\ f \in Files(s.base) => s.base[f].tag = NoTag /\ tree[h][f] \in blessed
                      /\ f \notin s.repaired
                      /\ f \in s.failed => tree[h][f] \in unsent
    OBVIOUS
  <2>1. f \in Files(s.base) => s.base # NoRecord
    BY DEF Files
  <2>2. f \in s.newer \/ Leaves(s.base, h, f)
    BY DEF CallFoundUnstored, Runs
  <2>3. f \in Files(s.base) => s.base[f].tag = NoTag /\ tree[h][f] \in blessed
    BY <2>1, <2>2 DEF Leaves
  <2> QED
    BY <2>3 DEF PullRestored, Transfers
\* A file that was neither restored nor excused has its sha256 in the old manifest.
<1>10. \A f \in SyncFile :
         f \in Files(s.base) \ (s.repaired \cup astray \cup rotten) /\ tree[h][f] \in mirrored =>
           s.base[f].sha = tree[h][f]
  <2> SUFFICES ASSUME NEW f \in SyncFile, f \in Files(s.base) \ s.repaired, tree[h][f] \in mirrored,
                      f \notin astray \cup rotten
               PROVE  s.base[f].sha = tree[h][f]
    OBVIOUS
  <2>1. \A d \in CallsOf(h) : f \notin Unsaved(sync[d])
    BY DEF AloneIsAlone, CallsOf, Runs, Unsaved, CallShape
  <2>2. ~Excused(h, f) /\ c \in CallsOf(h)
    BY <2>1 DEF Excused, CallsOf
  <2> QED
    BY <2>2 DEF RecordsKnowTree, Knows
<1>11. \A g \in SyncHost, f \in SyncFile :
         Excused(g, f) => Excused(g, f)' \/ (g = h /\ f \in Unsaved(s) /\ CallsOf(h) = {c})
  <2> SUFFICES ASSUME NEW g \in SyncHost, NEW f \in SyncFile, Excused(g, f), ~Excused(g, f)'
               PROVE  g = h /\ f \in Unsaved(s) /\ CallsOf(h) = {c}
    OBVIOUS
  <2>1. PICK d \in CallsOf(g) : f \in Unsaved(sync[d]) /\ f \notin astray
    BY <1>8 DEF Excused
  <2>2. d \in SyncCall /\ (d # c => d \in CallsOf(g)')
    BY <2>1 DEF CallsOf
  <2>3. d = c
    BY <2>1, <2>2 DEF Excused
  <2>4. g = h
    BY <2>1, <2>3 DEF CallsOf
  <2>5. \A e \in SyncCall \ {c} : sync[e].host # h
    BY <2>1, <2>3 DEF AloneIsAlone, Runs
  <2> QED
    BY <2>1, <2>3, <2>4, <2>5 DEF CallsOf
<1>12. SyncTypes'
  <2>1. syncLock' \in [SyncHost -> SyncCall \cup {NoRecord, Dead}]
    BY <1>2 DEF SyncTypes
  <2> QED
    BY <1>8, <2>1 DEF SyncTypes
<1>13. CallShape'
  BY <1>8 DEF CallShape, Runs, Pushes, Transfers, Missing
<1>14. BucketShape'
  BY <1>8 DEF BucketShape
<1>15. TagsWereSeen'
  <2>1. \A f \in kept : Seen(saved[f].tag)
    <3>1. Seen(NoTag)
      BY DEF Seen
    <3>2. \A f \in Files(s.base) : Seen(s.base[f].tag)
      BY DEF TagsWereSeen
    <3>3. \A f \in SyncFile : Seen(s.listed[f])
      BY DEF TagsWereSeen
    <3> QED
      BY <3>1, <3>2, <3>3 DEF Recorded
  <2>2. \A g \in SyncHost : \A f \in Files(manifest'[g]) : Seen(manifest'[g][f].tag)
    BY <2>1 DEF TagsWereSeen
  <2>3. \A d \in SyncCall :
          /\ \A f \in DOMAIN sync'[d].listed : Seen(sync'[d].listed[f])
          /\ \A f \in Files(sync'[d].base) : Seen(sync'[d].base[f].tag)
          /\ \A f \in Files(sync'[d].synced) : Seen(sync'[d].synced[f].tag)
    BY DEF TagsWereSeen
  <2> QED
    BY <1>8, <2>2, <2>3 DEF TagsWereSeen, Seen
<1>16. RotIsUnproved'
  <2>1. \A f \in kept : saved[f].sha = Rot => f \in unproved
    BY DEF RotIsUnproved
  <2>2. \A g \in SyncHost, f \in SyncFile :
          f \in Files(manifest'[g]) /\ manifest'[g][f].sha = Rot => f \in unproved
    BY <2>1 DEF RotIsUnproved
  <2> DEFINE Clean(r, f) ==
        /\ f \in DOMAIN r.seen /\ r.seen[f] = Rot => f \in unproved
        /\ f \in Files(r.names) /\ r.names[f] = Rot => f \in unproved
        /\ f \in Files(r.base) /\ r.base[f].sha = Rot => f \in unproved
        /\ f \in Files(r.synced) /\ r.synced[f].sha = Rot => f \in unproved
  <2>3. \A f \in SyncFile : Clean(NoSync, f)
    OBVIOUS
  <2>4. \A d \in SyncCall, f \in SyncFile : Clean(sync[d], f)
    BY DEF RotIsUnproved
  <2>5. \A d \in SyncCall, f \in SyncFile : Clean(sync'[d], f)
    <3> HIDE DEF Clean
    <3> QED
      BY <2>3, <2>4
  <2> QED
    BY <1>8, <2>2, <2>5 DEF RotIsUnproved
<1>17. RotIsRotten' /\ OneHolder'
  BY <1>8 DEF RotIsRotten, OneHolder, Stored
<1>18. EntriesAreSound'
  <2>1. \A f \in kept : Sound(saved[f])
    <3> SUFFICES ASSUME NEW f \in kept, saved[f].tag # NoTag
                 PROVE  saved[f].sha \in mirrored \cup racedBodies \cup {Rot}
      BY DEF Sound
    <3>1. CASE f \in s.failed
      BY <3>1 DEF EntriesAreSound, Sound
    <3>2. CASE f \notin s.failed
      <4>1. ~Unstored(tree[h][f])
        BY <1>9, <3>2 DEF Recorded
      <4> QED
        BY <3>2, <4>1 DEF Unstored
    <3> QED
      BY <3>1, <3>2
  <2>2. \A g \in SyncHost : \A f \in Files(manifest'[g]) : Sound(manifest'[g][f])
    BY <2>1 DEF EntriesAreSound
  <2>3. \A d \in SyncCall :
          /\ \A f \in Files(sync'[d].base) : Sound(sync'[d].base[f])
          /\ \A f \in Files(sync'[d].synced) : Sound(sync'[d].synced[f])
    BY DEF EntriesAreSound
  <2> QED
    BY <1>8, <2>2, <2>3 DEF EntriesAreSound, Sound
<1>19. UnstoredIsTold'
  <2>1. ASSUME NEW f \in SyncFile, Unstored(tree[h][f])
        PROVE  /\ f \in kept => saved[f].tag = NoTag /\ tree[h][f] \in blessed'
               /\ tree[h][f] \in blessed' \cup unsent
    <3>1. tree[h][f] \notin mirrored \cup {NoBody, Rot}
      BY <2>1 DEF Unstored
    <3>2. f \in s.failed => tree[h][f] \in unsent
      BY <1>9, <2>1
    <3>3. f \notin s.failed => f \in kept /\ tree[h][f] \in blessed'
      BY <3>1
    <3>4. f \in kept => saved[f].tag = NoTag /\ tree[h][f] \in blessed'
      BY <1>9, <2>1, <3>1 DEF Recorded
    <3> QED
      BY <3>2, <3>3, <3>4
  <2>2. \A f \in SyncFile : Unstored(tree[h][f]) => f \in unconfirmed[h]
    BY DEF UnstoredIsTold
  <2> QED
    BY <1>8, <2>1, <2>2 DEF UnstoredIsTold, Unstored, Untold, Leaves
<1>20. CallFoundUnstored'
  BY <1>8 DEF CallFoundUnstored, Unstored, Untold, Leaves, Runs
<1>21. PushSendsUnstored' /\ PullRestored'
  BY <1>8 DEF PushSendsUnstored, PullRestored, Unstored, Pushes, Transfers
<1>22. AloneIsAlone'
  <2>1. \A d \in SyncCall \ {c} :
          sync[d].alone /\ Runs(d) => sync[d].host # h /\ sync[d].host \in SyncHost
    BY DEF AloneIsAlone, Runs, Meets, CallShape
  <2>2. \A d \in SyncCall : sync'[d].alone /\ Runs(d)' =>
          /\ \A e \in SyncCall \ {d} : ~Meets(e, sync[d].host, sync[d].dir)'
          /\ sync'[d].step # "publish" => manifest'[sync'[d].host] = sync'[d].base
    BY <2>1 DEF AloneIsAlone, Runs, Meets, Pushing
  <2>3. \A d \in SyncCall : \A e \in SyncCall \ {d} :
          Runs(d)' /\ sync'[e].host = sync'[d].host => Unsaved(sync'[d]) \subseteq astray
    <3>1. \A d \in SyncCall \ {c} : Runs(d)' => Runs(d) /\ sync[d].host \in SyncHost
      BY DEF Runs, CallShape
    <3>2. ~Runs(c)'
      BY DEF Runs
    <3>3. sync'[c].host = NoRecord /\ NoRecord \notin SyncHost
      OBVIOUS
    <3> QED
      BY <3>1, <3>2, <3>3 DEF AloneIsAlone
  <2>4. \A d \in SyncCall : Pushing(d)' => unsettled
    BY DEF AloneIsAlone, Pushing
  <2>5. \A d \in SyncCall : Runs(d)' => sync'[d] = sync[d]
    BY DEF Runs
  <2> QED
    BY <1>8, <2>2, <2>3, <2>4, <2>5 DEF AloneIsAlone
<1>23. RecordsKnowTree'
  <2>1. \A f \in kept :
          tree[h][f] \in mirrored /\ f \notin astray \cup rotten => saved[f].sha = tree[h][f]
    BY <1>10
  <2>2. \A g \in SyncHost, f \in SyncFile : Knows(manifest[g], g, f)'
    BY <1>8, <1>11, <2>1 DEF RecordsKnowTree, Knows, Excused
  <2>3. \A g \in SyncHost, f \in SyncFile : \A d \in CallsOf(g)' :
          sync'[d].step # "publish" =>
            d \in CallsOf(g) /\ d \in SyncCall /\ d # c /\ sync[d].step # "publish"
            /\ sync'[d] = sync[d] /\ (Excused(g, f) => Excused(g, f)')
    BY <1>11 DEF CallsOf
  <2> QED
    BY <1>8, <2>2, <2>3 DEF RecordsKnowTree, Knows
<1>24. SeenIsTree' /\ RestoredIsObject'
  BY <1>8 DEF SeenIsTree, RestoredIsObject, Pushes, Transfers
<1>25. TokensTell'
  <2>1. ASSUME NEW f \in kept \ (astray \cup rotten), saved[f].tag[1] = "part",
               saved[f].tag = bucket[f].tag
        PROVE  saved[f].sha \in {bucket[f].body} \cup blessed'
    <3>1. f \in SyncFile /\ tree[h][f] # Rot
      BY <2>1 DEF RotIsRotten
    <3>2. CASE f \in s.failed
      BY <2>1, <3>1, <3>2 DEF TokensTell, Tells
    <3>3. CASE f \notin s.failed /\ tree[h][f] \notin mirrored
      BY <3>1, <3>3
    <3>4. CASE f \in s.repaired /\ tree[h][f] \in mirrored
      BY <2>1, <3>1, <3>4 DEF RestoredIsObject, Transfers
    <3>5. CASE f \notin s.failed \cup s.repaired /\ tree[h][f] \in mirrored
      <4>1. f \in Files(s.base) /\ s.base[f].tag = saved[f].tag
        BY <2>1, <3>5 DEF Recorded, NoTag
      <4>2. s.base[f].sha = tree[h][f]
        BY <1>10, <2>1, <3>1, <3>5, <4>1
      <4> QED
        BY <2>1, <3>1, <3>5, <4>1, <4>2 DEF TokensTell, Tells
    <3> QED
      BY <3>2, <3>3, <3>4, <3>5
  <2>2. \A f \in SyncFile, g \in SyncHost : Tells(manifest[g], f)'
    BY <1>8, <2>1 DEF TokensTell, Tells
  <2> DEFINE TellsNow(record, f) ==
        /\ f \in Files(record) \ (astray \cup rotten)
        /\ record[f].tag[1] = "part" /\ record[f].tag = bucket[f].tag
        => record[f].sha \in {bucket[f].body} \cup blessed'
  <2>3. \A f \in SyncFile : TellsNow(NoSync.base, f) /\ TellsNow(NoSync.synced, f)
    OBVIOUS
  <2>4. \A f \in SyncFile, d \in SyncCall : TellsNow(sync[d].base, f) /\ TellsNow(sync[d].synced, f)
    BY DEF TokensTell, Tells
  <2>5. \A f \in SyncFile, d \in SyncCall :
          TellsNow(sync'[d].base, f) /\ TellsNow(sync'[d].synced, f)
    <3> HIDE DEF TellsNow
    <3> QED
      BY <2>3, <2>4
  <2> QED
    BY <1>8, <2>2, <2>5 DEF TokensTell, Tells
<1>26. PublishedIsStored'
  BY <1>8 DEF PublishedIsStored, Pushes
<1>27. LedgerDescribesObjects' /\ PullLosesOnlyExcused'
  BY <1>8 DEF LedgerDescribesObjects, PullLosesOnlyExcused
<1> QED
  BY <1>12, <1>13, <1>14, <1>15, <1>16, <1>17, <1>18, <1>19, <1>20, <1>21, <1>22, <1>23, <1>24,
     <1>25, <1>26, <1>27


\* A push publishes its ledger and ends; when it is clean, no file of the host is unstored.
LEMMA PublishLedgerStep ==
  ASSUME SyncInvariant, NEW c \in SyncCall, NEW stored \in BOOLEAN, NEW answered \in BOOLEAN,
         PublishLedger(c, stored, answered)
  PROVE  SyncInvariant'
<1> USE DEF SyncInvariant
<1> DEFINE s == sync[c]
           h == sync[c].host
           clean == answered /\ s.failed = {}
           published == [f \in DOMAIN s.synced |-> s.synced[f].sha]
<1>1. /\ s \in Call /\ s.step = "publish" /\ s.dir = "push" /\ s.left = {} /\ h \in SyncHost
      /\ Files(s.synced) = DOMAIN s.synced /\ DOMAIN s.synced \in SUBSET SyncFile
      /\ \A f \in DOMAIN s.synced : s.synced[f].sha \in Body
      /\ sync \in [SyncCall -> Call] /\ s = sync[c] /\ h = s.host
  <2>1. s \in Call /\ s.step = "publish"
    BY DEF PublishLedger, SyncTypes
  <2>2. s.synced \in Of(Entry)
    BY <2>1, CallParts
  <2>3. /\ DOMAIN s.synced \in SUBSET SyncFile
        /\ \A f \in DOMAIN s.synced : s.synced[f] \in Entry
    BY <2>2, OfParts
  <2>4. Files(s.synced) = DOMAIN s.synced
    BY <2>2, EntriesAreRecords DEF Of
  <2> QED
    BY <2>1, <2>3, <2>4 DEF CallShape, Runs, SyncTypes, Entry
<1>2. /\ answered => stored
      /\ mishaps' \in 0..MaxMishaps
      /\ checksums' = IF stored THEN published ELSE checksums
      /\ everPushed' = IF clean THEN everPushed \cup {h} ELSE everPushed
      /\ unconfirmed' = IF clean THEN [unconfirmed EXCEPT ![h] = {}] ELSE unconfirmed
      /\ unsettled' = ~(clean /\ s.alone)
      /\ sync' = [sync EXCEPT ![c] = NoSync]
      /\ syncLock' = IF s.aborted THEN syncLock ELSE [syncLock EXCEPT ![h] = NoRecord]
      /\ UNCHANGED <<tags, tree, bucket, manifest, touched, version, syncs, tokens, mirrored,
                     racedBodies, unsent, overwritten, astray, unproved, blessed, rotten>>
  BY MishapCounts DEF PublishLedger, Release
<1>3. /\ published \in Of(Body) /\ Files(published) = DOMAIN s.synced
      /\ \A f \in DOMAIN s.synced : published[f] = s.synced[f].sha
  <2>1. published \in [DOMAIN s.synced -> Body]
    BY <1>1
  <2> QED
    BY <1>1, <2>1, OfHas, EntriesAreRecords
<1> HIDE DEF published
<1>4. SyncTypes'
  <2>1. checksums' \in Ledger
    BY <1>2, <1>3 DEF Ledger, SyncTypes
  <2>2. everPushed' \in SUBSET SyncHost
    BY <1>1, <1>2 DEF SyncTypes
  <2>3. unconfirmed' \in [SyncHost -> SUBSET SyncFile]
    <3>1. unconfirmed \in [SyncHost -> SUBSET SyncFile]
      BY DEF SyncTypes
    <3> HIDE DEF h, clean, s
    <3> QED
      BY <1>2, <3>1
  <2>4. syncLock' \in [SyncHost -> SyncCall \cup {NoRecord, Dead}]
    <3>1. syncLock \in [SyncHost -> SyncCall \cup {NoRecord, Dead}]
      BY DEF SyncTypes
    <3> HIDE DEF h, clean, s
    <3> QED
      BY <1>2, <3>1
  <2>5. sync' \in [SyncCall -> Call] /\ unsettled' \in BOOLEAN
    BY <1>1, <1>2, NoSyncIsCall
  <2> QED
    BY <1>2, <2>1, <2>2, <2>3, <2>4, <2>5 DEF SyncTypes
<1>5. /\ Unsaved(s) = {}
      /\ \A f \in Files(checksums') : checksums'[f] = Rot => f \in unproved
  <2>1. \A f \in DOMAIN s.synced : s.synced[f].sha = Rot => f \in unproved
    BY <1>1 DEF RotIsUnproved
  <2> QED
    BY <1>1, <1>2, <1>3, <2>1 DEF Unsaved, RotIsUnproved
<1>6. \A g \in SyncHost : \A f \in SyncFile : Unstored(tree[g][f]) => f \in unconfirmed'[g]
  <2>1. clean => \A f \in SyncFile : ~Unstored(tree[h][f])
    BY <1>1 DEF PushSendsUnstored, Pushes
  <2>2. \A g \in SyncHost : unconfirmed'[g] = unconfirmed[g] \/ (clean /\ g = h)
    <3>1. unconfirmed \in [SyncHost -> SUBSET SyncFile]
      BY DEF SyncTypes
    <3> HIDE DEF h, clean, s
    <3>2. CASE clean
      <4>1. unconfirmed' = [unconfirmed EXCEPT ![h] = {}]
        BY <1>2, <3>2
      <4> QED
        BY <3>1, <3>2, <4>1
    <3>3. CASE ~clean
      BY <1>2, <3>3
    <3> QED
      BY <3>2, <3>3
  <2> QED
    BY <2>1, <2>2 DEF UnstoredIsTold
<1>7. (\E d \in SyncCall \ {c} : Pushing(d)) => unsettled'
  <2>1. s.alone => \A d \in SyncCall \ {c} : ~Pushing(d)
    BY <1>1 DEF AloneIsAlone, Runs, Meets
  <2> QED
    BY <1>2, <2>1
<1>8. LedgerDescribesObjects'
  <2> SUFFICES ASSUME clean, s.alone
               PROVE  \A f \in Files(checksums') \ (astray \cup rotten) :
                        checksums'[f] \in {bucket[f].body} \cup blessed
    BY <1>2 DEF LedgerDescribesObjects
  <2>1. \A f \in DOMAIN s.synced \ (astray \cup rotten) :
          s.synced[f].sha \in {bucket[f].body} \cup blessed
    BY <1>1 DEF PublishedIsStored, Pushes
  <2> QED
    BY <1>2, <1>3, <2>1
<1> HIDE DEF SyncInvariant, h, clean
<1>9. /\ CallShape' /\ BucketShape' /\ TagsWereSeen'
      /\ RotIsUnproved' /\ RotIsRotten' /\ OneHolder' /\ EntriesAreSound'
      /\ UnstoredIsTold' /\ CallFoundUnstored' /\ PushSendsUnstored' /\ PullRestored'
      /\ AloneIsAlone' /\ RecordsKnowTree' /\ SeenIsTree' /\ TokensTell'
      /\ RestoredIsObject' /\ PublishedIsStored' /\ PullLosesOnlyExcused'
  BY <1>2, <1>5, <1>6, <1>7, CallEnds
<1> QED
  BY <1>4, <1>8, <1>9 DEF SyncInvariant

\* A deadline fires: the call ends if it still reads, else goes on aborted.
LEMMA FireDeadlineStep ==
  ASSUME SyncInvariant, NEW c \in SyncCall, FireDeadline(c)
  PROVE  SyncInvariant'
<1> USE DEF SyncInvariant
<1> DEFINE s == sync[c]
           t == sync'[c]
           h == sync[c].host
<1>1. /\ s \in Call /\ s.step # "idle" /\ h \in SyncHost /\ sync \in [SyncCall -> Call]
      /\ s = sync[c] /\ h = s.host
  BY DEF FireDeadline, SyncTypes, CallShape, Runs
<1>2. /\ mishaps' \in 0..MaxMishaps
      /\ sync' = [sync EXCEPT ![c] = IF s.step = "reading" THEN NoSync
                                     ELSE [s EXCEPT !.aborted = TRUE]]
      /\ syncLock' = IF s.aborted THEN syncLock ELSE [syncLock EXCEPT ![h] = NoRecord]
      /\ UNCHANGED <<tags, tree, bucket, checksums, manifest, touched, unconfirmed, everPushed,
                     version, syncs, tokens, mirrored, racedBodies, unsent, overwritten, astray,
                     unproved, blessed, rotten, unsettled>>
  BY DEF FireDeadline, Release, SyncTypes
<1>3. syncLock' \in [SyncHost -> SyncCall \cup {NoRecord, Dead}]
  BY <1>1, <1>2 DEF SyncTypes
<1>4. CASE s.step = "reading"
  <2>1. sync' = [sync EXCEPT ![c] = NoSync]
    BY <1>2, <1>4
  <2>2. SyncTypes'
    <3>1. sync' \in [SyncCall -> Call]
      BY <1>1, <2>1, NoSyncIsCall
    <3> QED
      BY <1>2, <1>3, <3>1 DEF SyncTypes
  <2>3. LedgerDescribesObjects'
    BY <1>2 DEF LedgerDescribesObjects
  <2>4. Unsaved(s) = {}
    BY <1>4 DEF Unsaved
  <2>5. /\ \A f \in Files(checksums') : checksums'[f] = Rot => f \in unproved
        /\ \A g \in SyncHost : \A f \in SyncFile : Unstored(tree[g][f]) => f \in unconfirmed'[g]
        /\ (\E d \in SyncCall \ {c} : Pushing(d)) => unsettled'
    BY <1>2 DEF RotIsUnproved, UnstoredIsTold, AloneIsAlone
  <2> HIDE DEF SyncInvariant
  <2>6. /\ CallShape' /\ BucketShape' /\ TagsWereSeen'
        /\ RotIsUnproved' /\ RotIsRotten' /\ OneHolder' /\ EntriesAreSound'
        /\ UnstoredIsTold' /\ CallFoundUnstored' /\ PushSendsUnstored' /\ PullRestored'
        /\ AloneIsAlone' /\ RecordsKnowTree' /\ SeenIsTree' /\ TokensTell'
        /\ RestoredIsObject' /\ PublishedIsStored' /\ PullLosesOnlyExcused'
    BY <1>2, <2>1, <2>4, <2>5, CallEnds
  <2> QED
    BY <2>2, <2>3, <2>6 DEF SyncInvariant
<1>5. CASE s.step # "reading"
  <2>1. /\ t \in Call /\ t.aborted = TRUE
        /\ t.host = s.host /\ t.dir = s.dir /\ t.step = s.step /\ t.walked = s.walked
        /\ t.newer = s.newer /\ t.base = s.base /\ t.listed = s.listed /\ t.names = s.names
        /\ t.seen = s.seen /\ t.left = s.left /\ t.synced = s.synced /\ t.failed = s.failed
        /\ t.repaired = s.repaired /\ t.alone = s.alone
    <3>1. t = [s EXCEPT !.aborted = TRUE]
      BY <1>1, <1>2, <1>5
    <3> HIDE DEF s, t
    <3> QED
      BY <1>1, <3>1 DEF Call
  <2>2. /\ \A d \in SyncCall : d # c => sync'[d] = sync[d]
        /\ sync' \in [SyncCall -> Call] /\ t = sync'[c]
    BY <1>1, <1>2, <1>5, <2>1
  <2> HIDE DEF s, t, h
  <2> USE <1>1, <1>2, <1>5, <2>1, <2>2
  <2>3. /\ Unsaved(s) = Unsaved(t)
        /\ \A g \in SyncHost : CallsOf(g)' = CallsOf(g)
    <3>1. Unsaved(s) = Unsaved(t)
      BY <2>1 DEF Unsaved
    <3> QED
      BY <3>1 DEF CallsOf
  <2>4. SyncTypes'
    BY <1>3 DEF SyncTypes
  <2>5. CallShape'
    BY DEF CallShape, Runs, Pushes, Transfers, Missing
  <2>6. BucketShape'
    BY DEF BucketShape
  <2>7. TagsWereSeen'
    BY DEF TagsWereSeen, Seen
  <2>8. RotIsUnproved' /\ RotIsRotten'
    BY DEF RotIsUnproved, RotIsRotten
  <2>9. OneHolder' /\ EntriesAreSound'
    BY DEF OneHolder, Stored, EntriesAreSound, Sound
  <2>10. UnstoredIsTold' /\ CallFoundUnstored'
    BY DEF UnstoredIsTold, CallFoundUnstored, Unstored, Untold, Leaves, Runs
  <2>11. PushSendsUnstored' /\ PullRestored'
    BY DEF PushSendsUnstored, PullRestored, Unstored, Pushes, Transfers
  <2>12. AloneIsAlone'
    BY <2>3 DEF AloneIsAlone, Runs, Meets, Pushing
  <2>13. RecordsKnowTree'
    <3>1. \A g \in SyncHost, e \in SyncFile : Excused(g, e)' <=> Excused(g, e)
      BY <2>3 DEF Excused, CallsOf
    <3> QED
      BY <2>3, <3>1 DEF RecordsKnowTree, Knows, CallsOf
  <2>14. SeenIsTree' /\ RestoredIsObject'
    BY DEF SeenIsTree, RestoredIsObject, Pushes, Transfers
  <2>15. TokensTell' /\ PublishedIsStored'
    BY DEF TokensTell, Tells, PublishedIsStored, Pushes
  <2>16. LedgerDescribesObjects' /\ PullLosesOnlyExcused'
    BY DEF LedgerDescribesObjects, PullLosesOnlyExcused
  <2> QED
    BY <2>4, <2>5, <2>6, <2>7, <2>8, <2>9, <2>10, <2>11, <2>12, <2>13, <2>14, <2>15, <2>16
<1> QED
  BY <1>4, <1>5

\* A call is killed: what it had not saved is astray.
LEMMA KillSyncStep ==
  ASSUME SyncInvariant, NEW c \in SyncCall, KillSync(c)
  PROVE  SyncInvariant'
<1> USE DEF SyncInvariant
<1>1. /\ mishaps' \in 0..MaxMishaps
      /\ sync' = [sync EXCEPT ![c] = NoSync]
      /\ syncLock' = [syncLock EXCEPT ![sync[c].host] = IF @ = c THEN Dead ELSE @]
      /\ astray' = astray \cup Unsaved(sync[c])
      /\ UNCHANGED <<tags, tree, bucket, checksums, manifest, touched, unconfirmed, everPushed,
                     version, syncs, tokens, mirrored, racedBodies, unsent, overwritten, rotten,
                     blessed, unproved, unsettled>>
  BY DEF KillSync, SyncTypes
<1>2. SyncTypes'
  <2>1. sync' \in [SyncCall -> Call]
    BY <1>1, NoSyncIsCall DEF SyncTypes
  <2>2. syncLock' \in [SyncHost -> SyncCall \cup {NoRecord, Dead}]
    BY <1>1 DEF SyncTypes
  <2>3. astray' \in SUBSET SyncFile
    <3>1. /\ sync[c].synced \in Of(Entry) /\ sync[c].repaired \in SUBSET SyncFile
      BY CallParts DEF SyncTypes
    <3>2. Files(sync[c].synced) \subseteq SyncFile
      BY <3>1, OfParts DEF Files
    <3> QED
      BY <1>1, <3>1, <3>2 DEF SyncTypes, Unsaved
  <2> QED
    BY <1>1, <2>1, <2>2, <2>3 DEF SyncTypes
<1>3. LedgerDescribesObjects'
  BY <1>1 DEF LedgerDescribesObjects
<1>4. /\ \A f \in Files(checksums') : checksums'[f] = Rot => f \in unproved
      /\ \A g \in SyncHost : \A f \in SyncFile : Unstored(tree[g][f]) => f \in unconfirmed'[g]
      /\ (\E d \in SyncCall \ {c} : Pushing(d)) => unsettled'
  BY <1>1 DEF RotIsUnproved, UnstoredIsTold, AloneIsAlone
<1> HIDE DEF SyncInvariant
<1>5. /\ CallShape' /\ BucketShape' /\ TagsWereSeen'
      /\ RotIsUnproved' /\ RotIsRotten' /\ OneHolder' /\ EntriesAreSound'
      /\ UnstoredIsTold' /\ CallFoundUnstored' /\ PushSendsUnstored' /\ PullRestored'
      /\ AloneIsAlone' /\ RecordsKnowTree' /\ SeenIsTree' /\ TokensTell'
      /\ RestoredIsObject' /\ PublishedIsStored' /\ PullLosesOnlyExcused'
  BY <1>1, <1>4, CallEnds
<1> QED
  BY <1>2, <1>3, <1>5 DEF SyncInvariant


\* At first there is nothing to record.
LEMMA InitHolds ==
  ASSUME S3SyncInit
  PROVE  SyncInvariant
<1> USE DEF S3SyncInit
<1>1. /\ \A h \in SyncHost : manifest[h] = NoRecord /\ Files(manifest[h]) = {}
      /\ \A c \in SyncCall : sync[c] = NoSync
      /\ \A h \in SyncHost, f \in SyncFile : tree[h][f] = NoBody
      /\ \A f \in SyncFile : bucket[f] = NoObject
      /\ NoSync.step = "idle" /\ NoSync.dir = "none"
      /\ Files(checksums) = {} /\ ~unsettled
      /\ NoBody = 0 /\ NoBody # Rot /\ mirrored = {} /\ version = 0
  BY DEF Files, NoSync, NoBody, Rot
<1>2. SyncTypes
  <2>1. 0 \in Body /\ NoTag \in Tag /\ NoRecord \in Manifest /\ NoRecord \in Ledger
    BY DEF Body, Tag, Manifest, Ledger
  <2>2. /\ {MaxVersion, MaxSyncs, MaxMishaps} \subseteq Nat
        /\ 0 \in 0..MaxVersion /\ 0 \in 0..MaxSyncs /\ 0 \in 0..MaxMishaps
    BY S3SyncAssumption
  <2>3. tree \in [SyncHost -> [SyncFile -> Body]]
    BY <2>1 DEF NoBody
  <2>4. bucket \in [SyncFile -> [body : Body, tag : Tag]]
    BY <2>1 DEF NoBody, NoObject
  <2>5. sync \in [SyncCall -> Call]
    BY NoSyncIsCall
  <2> QED
    BY <2>1, <2>2, <2>3, <2>4, <2>5 DEF SyncTypes
<1> USE <1>1, NoSyncHolds
<1>3. CallShape /\ TagsWereSeen /\ AloneIsAlone
  BY DEF CallShape, Runs, Pushes, Transfers, Missing, TagsWereSeen, AloneIsAlone, Pushing
<1>4. BucketShape
  BY DEF BucketShape, NoObject
<1>5. RotIsUnproved /\ RotIsRotten
  BY DEF RotIsUnproved, RotIsRotten, NoObject
<1>6. OneHolder /\ EntriesAreSound
  BY DEF OneHolder, Stored, EntriesAreSound
<1>7. UnstoredIsTold /\ CallFoundUnstored
  BY DEF UnstoredIsTold, CallFoundUnstored, Unstored, Untold, Runs
<1>8. PushSendsUnstored /\ PullRestored
  BY DEF PushSendsUnstored, PullRestored, Pushes, Transfers
<1>9. RecordsKnowTree
  BY DEF RecordsKnowTree, Knows
<1>10. SeenIsTree /\ RestoredIsObject /\ PublishedIsStored
  BY DEF SeenIsTree, RestoredIsObject, PublishedIsStored, Pushes, Transfers
<1>11. TokensTell
  BY DEF TokensTell, Tells
<1>12. LedgerDescribesObjects /\ PullLosesOnlyExcused
  BY DEF LedgerDescribesObjects, PullLosesOnlyExcused
<1> QED
  BY <1>2, <1>3, <1>4, <1>5, <1>6, <1>7, <1>8, <1>9, <1>10, <1>11, <1>12 DEF SyncInvariant

\* A step that changes nothing.
LEMMA Stutters ==
  ASSUME SyncInvariant, UNCHANGED s3SyncVars
  PROVE  SyncInvariant'
<1> USE DEF SyncInvariant
<1>1. /\ UNCHANGED <<tags, tree, bucket, checksums, manifest, touched, unconfirmed, everPushed,
                     syncLock, sync, version, syncs, mishaps, tokens, mirrored, racedBodies,
                     unsent, blessed, overwritten, astray, unproved, rotten, unsettled>>
  BY DEF s3SyncVars
<1>2. SyncTypes' /\ CallShape' /\ BucketShape' /\ TagsWereSeen'
  BY <1>1 DEF SyncTypes, CallShape, Runs, Pushes, Transfers, Missing, BucketShape, TagsWereSeen,
              Seen
<1>3. RotIsUnproved' /\ RotIsRotten' /\ OneHolder' /\ EntriesAreSound'
  BY <1>1 DEF RotIsUnproved, RotIsRotten, OneHolder, Stored, EntriesAreSound, Sound
<1>4. UnstoredIsTold' /\ CallFoundUnstored' /\ PushSendsUnstored' /\ PullRestored'
  BY <1>1 DEF UnstoredIsTold, CallFoundUnstored, PushSendsUnstored, PullRestored, Unstored, Untold,
              Leaves, Runs, Pushes, Transfers
<1>5. AloneIsAlone' /\ RecordsKnowTree' /\ SeenIsTree' /\ TokensTell'
  BY <1>1 DEF AloneIsAlone, Runs, Meets, Pushing, RecordsKnowTree, Knows, Excused, CallsOf,
              SeenIsTree, Pushes, TokensTell, Tells
<1>6. RestoredIsObject' /\ PublishedIsStored' /\ LedgerDescribesObjects' /\ PullLosesOnlyExcused'
  BY <1>1 DEF RestoredIsObject, Transfers, PublishedIsStored, Pushes, LedgerDescribesObjects,
              PullLosesOnlyExcused
<1> QED
  BY <1>2, <1>3, <1>4, <1>5, <1>6

\* SyncInvariant is inductive.
LEMMA InvariantHolds == S3SyncSpec => []SyncInvariant
<1>1. S3SyncInit => SyncInvariant
  BY InitHolds
<1>2. SyncInvariant /\ [S3SyncNext]_s3SyncVars => SyncInvariant'
  <2> SUFFICES ASSUME SyncInvariant, [S3SyncNext]_s3SyncVars
               PROVE  SyncInvariant'
    OBVIOUS
  <2>1. CASE \E h \in Origin, f \in SyncFile : WriteLocal(h, f)
    BY <2>1, WriteLocalStep
  <2>2. CASE \E f \in SyncFile, b \in {Rot, NoBody} : DamageObject(f, b)
    BY <2>2, DamageObjectStep
  <2>3. ASSUME NEW c \in SyncCall, NEW h \in SyncHost, NEW dir \in {"push", "pull"},
               StartSync(c, h, dir)
        PROVE  SyncInvariant'
    BY <2>3, StartSyncStep
  <2>4. ASSUME NEW c \in SyncCall,
               FetchListing(c) \/ \E readable \in BOOLEAN : FetchLedger(c, readable)
        PROVE  SyncInvariant'
    BY <2>4, FetchListingStep, FetchLedgerStep
  <2>5. ASSUME NEW c \in SyncCall, PlanPush(c) \/ PlanPull(c)
        PROVE  SyncInvariant'
    BY <2>5, PlanPushStep, PlanPullStep
  <2>6. ASSUME NEW c \in SyncCall, NEW f \in SyncFile, NEW stored \in BOOLEAN,
               NEW answered \in BOOLEAN, PutObject(c, f, stored, answered)
        PROVE  SyncInvariant'
    BY <2>6, PutObjectStep
  <2>7. ASSUME NEW c \in SyncCall, NEW f \in SyncFile, NEW answered \in BOOLEAN,
               GetObject(c, f, answered)
        PROVE  SyncInvariant'
    BY <2>7, GetObjectStep
  <2>8. ASSUME NEW c \in SyncCall, SavePushManifest(c) \/ FinishPull(c)
        PROVE  SyncInvariant'
    BY <2>8, SavePushManifestStep, FinishPullStep
  <2>9. ASSUME NEW c \in SyncCall, NEW stored \in BOOLEAN, NEW answered \in BOOLEAN,
               PublishLedger(c, stored, answered)
        PROVE  SyncInvariant'
    BY <2>9, PublishLedgerStep
  <2>10. ASSUME NEW c \in SyncCall, FireDeadline(c) \/ KillSync(c)
         PROVE  SyncInvariant'
    BY <2>10, FireDeadlineStep, KillSyncStep
  <2>11. CASE UNCHANGED s3SyncVars
    BY <2>11, Stutters
  <2> QED
    BY <2>1, <2>2, <2>3, <2>4, <2>5, <2>6, <2>7, <2>8, <2>9, <2>10, <2>11 DEF S3SyncNext
<1> QED
  BY <1>1, <1>2, PTL DEF S3SyncSpec

-----------------------------------------------------------------------------

\* The variables have their types, and garbage that an outsider put in place of an
\* object is on no disk unless a pull restored the file with no ledger that names
\* it: verifyDownloadedObject asks the ledger before it asks the ETag.
THEOREM LedgerKeepsRotOut == S3SyncSpec => []NoRotBehindLedger
<1>1. SyncInvariant => NoRotBehindLedger
  <2> SUFFICES ASSUME SyncInvariant PROVE NoRotBehindLedger
    OBVIOUS
  <2>1. SyncTypes
    BY DEF SyncInvariant
  <2>2. Files(checksums) \subseteq SyncFile
    BY <2>1, OfParts DEF SyncTypes, Ledger, Files
  <2>3. \A h \in SyncHost : Files(manifest[h]) \subseteq SyncFile
    <3>1. \A h \in SyncHost : manifest[h] \in Of(Entry) \cup {NoRecord}
      BY <2>1 DEF SyncTypes, Manifest
    <3> QED
      BY <3>1, OfParts DEF Files
  <2>4. \A c \in SyncCall : /\ sync[c].step \in {"idle", "reading", "transfer", "publish"}
                            /\ Files(sync[c].synced) \cup sync[c].left \subseteq SyncFile
    <3>1. \A c \in SyncCall : /\ sync[c].step \in {"idle", "reading", "transfer", "publish"}
                              /\ sync[c].synced \in Of(Entry) /\ sync[c].left \in SUBSET SyncFile
      BY <2>1, CallParts DEF SyncTypes
    <3> QED
      BY <3>1, OfParts DEF Files
  <2>5. S3SyncTypeOK
    BY <2>1, <2>2, <2>3, <2>4 DEF SyncTypes, S3SyncTypeOK
  <2> QED
    BY <2>5 DEF NoRotBehindLedger, SyncInvariant, RotIsUnproved
<1> QED
  BY <1>1, InvariantHolds, PTL

\* What a pull writes over and no PUT had stored was written while a call ran,
\* belongs to a file some call failed to transfer, or is in a manifest that a pull
\* saved next to it: everything else computeDeltas refuses to restore over.
THEOREM PullRefusesToLose == S3SyncSpec => []PullLosesOnlyExcused
<1>1. SyncInvariant => PullLosesOnlyExcused
  BY DEF SyncInvariant
<1> QED
  BY <1>1, InvariantHolds, PTL

\* s3 status tells of every local file that no object holds: while no call runs on
\* the host, the clean bits and the manifest vouch for stored bytes only.
THEOREM StatusIsHonest == S3SyncSpec => []FreshnessNamesUnmirrored
<1>1. SyncInvariant => FreshnessNamesUnmirrored
  <2> SUFFICES ASSUME SyncInvariant, NEW h \in SyncHost, NEW f \in walkLocal(h) \ Unpushed(h)
               PROVE  tree[h][f] \in mirrored \cup racedBodies \cup blessed \cup {Rot}
    BY DEF FreshnessNamesUnmirrored
  <2>1. f \in SyncFile /\ tree[h][f] # NoBody
    BY DEF walkLocal
  <2>2. CASE Unstored(tree[h][f])
    <3>1. f \in unconfirmed[h] /\ (f \in touched[h] \/ Leaves(manifest[h], h, f))
      BY <2>1, <2>2 DEF SyncInvariant, UnstoredIsTold
    <3> QED
      BY <2>1, <3>1 DEF Unpushed, Leaves
  <2>3. CASE ~Unstored(tree[h][f])
    BY <2>1, <2>3 DEF Unstored
  <2> QED
    BY <2>2, <2>3
<1> QED
  BY <1>1, InvariantHolds, PTL

\* The ledger that a push leaves behind describes the objects, once a push that met
\* nobody ended with every request answered.
THEOREM LedgerIsTrue == S3SyncSpec => []LedgerDescribesObjects
<1>1. SyncInvariant => LedgerDescribesObjects
  BY DEF SyncInvariant
<1> QED
  BY <1>1, InvariantHolds, PTL

\* A pull without a failure is a restore: every path of the ledger it read is on the
\* disk, with bytes that some push stored, or written since.
THEOREM CleanPullRestores == S3SyncSpec => CleanPullIsComplete
<1>1. SyncInvariant /\ [S3SyncNext]_s3SyncVars =>
        [\A c \in SyncCall :
           LET s == sync[c]
           IN Transferred(c) /\ s.dir = "pull" /\ s.failed = {} /\ sync'[c] = NoSync
                => \A f \in Files(s.names) :
                     tree[sync[c].host][f] \in mirrored \cup racedBodies \cup {Rot}]_s3SyncVars
  <2> SUFFICES ASSUME SyncInvariant, NEW c \in SyncCall, Transferred(c), sync[c].dir = "pull",
                      sync[c].failed = {}, NEW f \in Files(sync[c].names)
               PROVE  tree[sync[c].host][f] \in mirrored \cup racedBodies \cup {Rot}
    OBVIOUS
  <2>1. f \in SyncFile
    <3>1. sync[c].names \in Of(Body) \cup {NoRecord}
      BY CallParts DEF SyncInvariant, SyncTypes
    <3> QED
      BY <3>1, OfParts DEF Files
  <2>2. Transfers(c, "pull") /\ sync[c].left = {} /\ Missing(sync[c]) = {}
    BY DEF Transferred, Transfers, SyncInvariant, CallShape
  <2>3. sync[c].listed[f] # NoTag
    BY <2>2 DEF Missing
  <2>4. tree[sync[c].host][f] # NoBody /\ ~Unstored(tree[sync[c].host][f])
    BY <2>1, <2>2, <2>3 DEF SyncInvariant, PullRestored
  <2> QED
    BY <2>4 DEF Unstored
<1> QED
  BY <1>1, InvariantHolds, PTL DEF S3SyncSpec, CleanPullIsComplete

=============================================================================
