-------------------------- MODULE NamespaceRegistry --------------------------
(***************************************************************************)
(* The namespace registry: namespaceMappings and defaultNamespace in       *)
(* duckbrain.config.json (src/config/index.ts), the directories, and the   *)
(* sync manifests, under create, switch, delete, prune and the ghost sweep *)
(* of several processes (src/namespaces, src/mcp/tools/namespace.ts).      *)
(*                                                                         *)
(* A mapping is absolute ("abs") or relative to the config's directory     *)
(* ("rel").  updateConfig reads the file, merges, writes a temporary file  *)
(* and renames it; a file that does not parse reads as the defaults.       *)
(***************************************************************************)
EXTENDS Integers, FiniteSets

CONSTANTS
  Admin,      \* processes: the server, a CLI
  NsName,
  DefaultNs,  \* the namespace called default, not registered here
  NoNs,
  MaxOps      \* operations begun

ASSUME RegistryAssumption ==
  /\ DefaultNs \notin NsName /\ NoNs \notin NsName
  /\ MaxOps \in Nat

VARIABLES
  config,     \* the file: mappings and default namespace
  tmp,        \* duckbrain.config.json.tmp, one name for all processes
  stamp,      \* changes with every rename: mtime and size
  dirs,       \* namespace directories
  manifests,  \* .s3state/<ns>.json
  pushing,    \* the namespace a sync is pushing
  pushIsOld,  \* its lock is older than ten minutes
  admin,      \* the operation of each process
  opsBegun,
  registered, \* history: acknowledged as registered, directory never removed
  deleted,    \* history: acknowledged as deleted, not created again
  slipped,    \* history: pushes of a namespace that its deletion did not see
  clobbered,  \* history: two unguarded updates of the config overlapped
  misread     \* history: rows resolved against another directory

registryVars == <<config, tmp, stamp, dirs, manifests, pushing, pushIsOld, admin, opsBegun,
                  registered, deleted, slipped, clobbered, misread>>

Mapping == {"none", "abs", "rel"}
Config == [maps : [NsName -> Mapping], default : NsName \cup {DefaultNs}]
TornConfig == [maps |-> <<>>, default |-> NoNs]     \* does not parse
NoFile == [maps |-> <<>>, default |-> DefaultNs]
Defaults == [maps |-> [n \in NsName |-> "none"], default |-> DefaultNs]
NoOp == [do |-> "none", name |-> NoNs, step |-> "idle", maps |-> <<>>, setsMaps |-> FALSE,
         setDefault |-> FALSE, dead |-> {}, base |-> 0, merged |-> NoFile]

\* Rows whose directory somebody has removed by hand may be there.
RegistryInit ==
  /\ config \in {[maps |-> m, default |-> DefaultNs] : m \in [NsName -> {"none", "rel"}]}
  /\ dirs \in SUBSET {n \in NsName : config.maps[n] = "rel"}
  /\ tmp = NoFile /\ stamp = 0
  /\ manifests = {}
  /\ pushing = NoNs /\ pushIsOld = FALSE
  /\ admin = [p \in Admin |-> NoOp] /\ opsBegun = 0
  /\ registered = dirs /\ deleted = {} /\ slipped = {}
  /\ clobbered = FALSE /\ misread = {}

-----------------------------------------------------------------------------

\* readFileConfig
readFileConfig == IF config = TornConfig THEN Defaults ELSE config
Mapped(n) == readFileConfig.maps[n] # "none"
Without(names) == [n \in NsName |-> IF n \in names THEN "none" ELSE readFileConfig.maps[n]]

Begins(p) == admin[p].step = "idle" /\ opsBegun < MaxOps /\ opsBegun' = opsBegun + 1
Becomes(p, op) == admin' = [admin EXCEPT ![p] = op]
files == <<config, tmp, stamp, dirs, manifests, pushing, pushIsOld>>
history == <<registered, deleted, slipped, clobbered, misread>>

-----------------------------------------------------------------------------
(* Beginnings: guards, and what the mappings are going to be               *)

\* createNamespaceTool: the directory, then git init is awaited.
BeginCreate(p, n) ==
  /\ Begins(p)
  /\ n \notin dirs
  /\ dirs' = dirs \cup {n}
  /\ deleted' = deleted \ {n}
  /\ \E d \in BOOLEAN :
       Becomes(p, [NoOp EXCEPT !.do = "create", !.name = n, !.step = "init", !.setDefault = d])
  /\ UNCHANGED <<config, tmp, stamp, manifests, pushing, pushIsOld, registered, slipped,
                 clobbered, misread>>

\* registerNamespace reads the file for the rows it hands to updateConfig.
Registering(op, n) ==
  [op EXCEPT !.step = "update", !.setsMaps = TRUE, !.base = stamp,
             !.maps = [readFileConfig.maps EXCEPT ![n] = "abs"]]

Register(p) ==
  /\ admin[p].step = "init"
  /\ Becomes(p, Registering(admin[p], admin[p].name))
  /\ UNCHANGED <<files, opsBegun, history>>

\* switchNamespaceTool: a directory without a row is registered first.
BeginSwitch(p, n) ==
  LET op == [NoOp EXCEPT !.do = "switch", !.name = n, !.step = "update", !.setDefault = TRUE]
  IN /\ Begins(p)
     /\ Mapped(n) \/ n \in dirs
     /\ Becomes(p, IF Mapped(n) THEN op ELSE Registering(op, n))
     /\ UNCHANGED <<files, history>>

\* hasInFlightPush: a lock of another process, younger than ten minutes.
InFlight == pushing # NoNs /\ ~pushIsOld

Deleting(p, n) ==
  /\ Becomes(p, [NoOp EXCEPT !.do = "delete", !.name = n, !.step = "remove", !.setsMaps = TRUE,
                             !.maps = Without({n}), !.base = stamp])
  /\ slipped' = IF pushing = n THEN slipped \cup {n} ELSE slipped
  /\ UNCHANGED <<files, registered, deleted, clobbered, misread>>

\* Mutant: a push in flight is not looked for.
BeginDeletePushed(p, n) ==
  /\ Begins(p) /\ Mapped(n) /\ readFileConfig.default # n
  /\ Becomes(p, [NoOp EXCEPT !.do = "delete", !.name = n, !.step = "remove", !.setsMaps = TRUE,
                             !.maps = Without({n}), !.base = stamp])
  /\ UNCHANGED <<files, history>>

\* deleteNamespace: the rows it writes at the end are those it reads here.
BeginDelete(p, n) ==
  /\ Begins(p)
  /\ Mapped(n) /\ readFileConfig.default # n
  /\ ~InFlight
  /\ Deleting(p, n)

\* rmSync, or its failure: then the row stays.
RemoveDirectory(p) ==
  LET op == admin[p]
  IN /\ op.step = "remove"
     /\ \/ /\ dirs' = dirs \ {op.name}
           /\ registered' = registered \ {op.name}
           /\ Becomes(p, [op EXCEPT !.step = "update"])
        \/ /\ op.name \in dirs
           /\ Becomes(p, NoOp)
           /\ UNCHANGED <<dirs, registered>>
     /\ UNCHANGED <<config, tmp, stamp, manifests, pushing, pushIsOld, opsBegun, deleted, slipped,
                    clobbered, misread>>

\* planNamespacePrune reads the rows, then the stamp, then looks for directories.
BeginPrune(p) ==
  /\ Begins(p)
  /\ Becomes(p, [NoOp EXCEPT !.do = "prune", !.step = "plan",
                             !.dead = {n \in NsName : Mapped(n)}])
  /\ UNCHANGED <<files, history>>

PlanPrune(p) ==
  /\ admin[p].step = "plan"
  /\ Becomes(p, [admin[p] EXCEPT !.step = "apply", !.base = stamp, !.dead = @ \ dirs])
  /\ UNCHANGED <<files, opsBegun, history>>

\* applyNamespacePrune: nothing to do, a registry that lacks a dead row, or the
\* rows read now without the dead ones.
ApplyPrune(p) ==
  LET op == admin[p]
  IN /\ op.step = "apply"
     /\ Becomes(p, IF op.dead = {} \/ \E n \in op.dead : ~Mapped(n) THEN NoOp
                   ELSE [op EXCEPT !.step = "update", !.setsMaps = TRUE, !.maps = Without(op.dead)])
     /\ UNCHANGED <<files, opsBegun, history>>

\* sweepGhostSyncState: manifests without a directory go at once; a relative row
\* is resolved against the working directory, not against the config's.
BeginSweep(p, elsewhere) ==
  LET gone(n) == n \notin dirs \/ (elsewhere /\ readFileConfig.maps[n] = "rel")
      ghosts == {n \in NsName : Mapped(n) /\ readFileConfig.default # n /\ gone(n)}
  IN /\ Begins(p)
     /\ manifests' = manifests \cap dirs
     /\ Becomes(p, IF ghosts = {} THEN NoOp
                   ELSE [NoOp EXCEPT !.do = "sweep", !.step = "update", !.setsMaps = TRUE,
                                     !.maps = Without(ghosts), !.base = stamp])
     /\ misread' = misread \cup (ghosts \cap dirs)
     /\ UNCHANGED <<config, tmp, stamp, dirs, pushing, pushIsOld, registered, deleted, slipped,
                    clobbered>>

-----------------------------------------------------------------------------
(* updateConfig                                                            *)

Guarded(op) == op.do = "prune"    \* expectedStamp and fsync

\* The merge with the file as it is now.
Merge(op) ==
  [maps |-> IF op.setsMaps THEN op.maps ELSE readFileConfig.maps,
   default |-> IF op.setsMaps THEN readFileConfig.default ELSE op.name]

Writing(q) == admin[q].step \in {"fill", "rename"} /\ ~Guarded(admin[q])

\* Mutant: the stamp is not compared.
OpenTmpUnstamped(p) ==
  LET op == admin[p]
  IN /\ op.step = "update"
     /\ Becomes(p, [op EXCEPT !.step = IF Guarded(op) THEN "rename" ELSE "fill",
                              !.merged = Merge(op), !.base = IF Guarded(op) THEN stamp ELSE @])
     /\ tmp' = IF Guarded(op) THEN tmp ELSE TornConfig
     /\ clobbered' = (clobbered \/ (~Guarded(op) /\ \E q \in Admin \ {p} : Writing(q)))
     /\ UNCHANGED <<config, stamp, dirs, manifests, pushing, pushIsOld, opsBegun, registered,
                    deleted, slipped, misread>>

\* A guarded update compares the stamp and has a temporary file of its own; the
\* others truncate the common one.
OpenTmp(p) ==
  LET op == admin[p]
  IN /\ op.step = "update"
     /\ IF Guarded(op) /\ op.base # stamp
          THEN Becomes(p, NoOp) /\ UNCHANGED <<tmp, clobbered>>
          ELSE /\ Becomes(p, [op EXCEPT !.step = IF Guarded(op) THEN "rename" ELSE "fill",
                                        !.merged = Merge(op),
                                        !.base = IF op.setsMaps THEN @ ELSE stamp])
               /\ tmp' = IF Guarded(op) THEN tmp ELSE TornConfig
               /\ clobbered' = (clobbered \/ (~Guarded(op) /\ \E q \in Admin \ {p} : Writing(q)))
     /\ UNCHANGED <<config, stamp, dirs, manifests, pushing, pushIsOld, opsBegun, registered,
                    deleted, slipped, misread>>

FillTmp(p) ==
  /\ admin[p].step = "fill"
  /\ tmp' = admin[p].merged
  /\ Becomes(p, [admin[p] EXCEPT !.step = "rename"])
  /\ UNCHANGED <<config, stamp, dirs, manifests, pushing, pushIsOld, opsBegun, history>>

\* What follows an update: the default after a registration, the manifest after
\* a deletion or a prune.
AfterUpdate(op) ==
  IF op.setsMaps /\ op.setDefault
    THEN [op EXCEPT !.step = "update", !.setsMaps = FALSE, !.merged = NoFile]
  ELSE IF op.do \in {"delete", "prune"} THEN [op EXCEPT !.step = "unlink"]
  ELSE NoOp

\* The rename publishes what is in the temporary file, or fails when another
\* process has renamed it away.
Rename(p) ==
  LET op == admin[p]
      new == IF Guarded(op) THEN op.merged ELSE tmp
  IN /\ op.step = "rename"
     /\ IF new = NoFile
          THEN /\ Becomes(p, NoOp)
               /\ UNCHANGED <<config, tmp, stamp, registered, clobbered>>
          ELSE /\ config' = new
               /\ tmp' = IF Guarded(op) THEN tmp ELSE NoFile
               /\ stamp' = stamp + 1
               /\ Becomes(p, AfterUpdate(op))
               /\ registered' = IF op.do \in {"create", "switch"} /\ op.setsMaps /\ op.name \in dirs
                                  THEN registered \cup {op.name} ELSE registered
               /\ clobbered' = (clobbered \/ op.base # stamp)
     /\ UNCHANGED <<dirs, manifests, pushing, pushIsOld, opsBegun, deleted, slipped, misread>>

\* pruneSyncManifest, and the answer of a delete.
UnlinkManifest(p) ==
  LET op == admin[p]
      names == IF op.do = "prune" THEN op.dead ELSE {op.name}
  IN /\ op.step = "unlink"
     /\ manifests' = manifests \ names
     /\ deleted' = IF op.do = "delete" THEN deleted \cup (names \ dirs) ELSE deleted
     /\ Becomes(p, NoOp)
     /\ UNCHANGED <<config, tmp, stamp, dirs, pushing, pushIsOld, opsBegun, registered, slipped,
                    clobbered, misread>>

-----------------------------------------------------------------------------
(* The surroundings                                                        *)

\* A push of another process; its manifest is saved at its end.
StartPush(n) ==
  /\ pushing = NoNs /\ n \in dirs \ manifests
  /\ pushing' = n /\ pushIsOld' = FALSE
  /\ slipped' = IF \E p \in Admin : admin[p].do = "delete" /\ admin[p].name = n
                  THEN slipped \cup {n} ELSE slipped
  /\ UNCHANGED <<config, tmp, stamp, dirs, manifests, admin, opsBegun, registered, deleted,
                 clobbered, misread>>

AgePush ==
  /\ pushing # NoNs /\ ~pushIsOld
  /\ pushIsOld' = TRUE
  /\ UNCHANGED <<config, tmp, stamp, dirs, manifests, pushing, admin, opsBegun, history>>

FinishPush ==
  /\ pushing # NoNs
  /\ manifests' = manifests \cup {pushing}
  /\ pushing' = NoNs /\ pushIsOld' = FALSE
  /\ UNCHANGED <<config, tmp, stamp, dirs, admin, opsBegun, history>>

KillAdmin(p) ==
  /\ admin[p].step # "idle"
  /\ Becomes(p, NoOp)
  /\ UNCHANGED <<files, opsBegun, history>>

RegistryNext ==
  \/ \E p \in Admin :
       \/ \E n \in NsName : BeginCreate(p, n) \/ BeginSwitch(p, n) \/ BeginDelete(p, n)
       \/ Register(p) \/ RemoveDirectory(p)
       \/ BeginPrune(p) \/ PlanPrune(p) \/ ApplyPrune(p)
       \/ \E elsewhere \in BOOLEAN : BeginSweep(p, elsewhere)
       \/ OpenTmp(p) \/ FillTmp(p) \/ Rename(p) \/ UnlinkManifest(p) \/ KillAdmin(p)
  \/ \E n \in NsName : StartPush(n)
  \/ AgePush \/ FinishPush

-----------------------------------------------------------------------------
(* Properties                                                              *)

\* The variables have their types.
RegistryTypeOK ==
  /\ config \in Config \cup {TornConfig} /\ tmp \in Config \cup {TornConfig, NoFile}
  /\ stamp \in Nat
  /\ dirs \cup manifests \cup registered \cup deleted \cup slipped \cup misread \subseteq NsName
  /\ pushing \in NsName \cup {NoNs} /\ pushIsOld \in BOOLEAN
  /\ \A p \in Admin :
       /\ admin[p].do \in {"none", "create", "switch", "delete", "prune", "sweep"}
       /\ admin[p].step \in {"idle", "init", "remove", "plan", "apply", "update", "fill",
                             "rename", "unlink"}
  /\ opsBegun \in 0..MaxOps /\ clobbered \in BOOLEAN

\* A namespace that was registered stays registered as long as its directory is
\* there, whatever is created, deleted, pruned or swept beside it.  A prune is
\* guarded by its stamp; excused are overlapping updates that are not, and rows
\* that a sweep resolved against a foreign working directory.
RegisteredStays ==
  /\ RegistryTypeOK
  /\ ~clobbered => \A n \in registered \ misread : Mapped(n)

\* After a delete is answered no manifest keeps the namespace in the scheduled
\* pushes, except for a push that started, or was ten minutes old, unseen.
DeletedIsNotPushed == \A n \in deleted \ slipped : n \notin manifests

=============================================================================
