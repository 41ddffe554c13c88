---------------------------- MODULE MigrateStorage ----------------------------
(***************************************************************************)
(* convctl migrate-storage (internal/cli/migratestorage.go): resolve the   *)
(* target CRDs, list each one's objects, rewrite every object with an      *)
(* empty server-side apply so that etcd re-encodes it, and optionally      *)
(* prune status.storedVersions to the current storage version.  Each call  *)
(* to the API server is a step: objects are created, written and deleted,  *)
(* the hub is promoted and Crossplane renders CRDs between any two.  An    *)
(* apply or a prune may fail, and the process may be killed at any point.  *)
(***************************************************************************)
EXTENDS StoredObjects

CONSTANTS MigrateOptions  \* the option records the command may be run with

VARIABLE mig   \* the one running command, or the report of the last one

MigrateOptionType ==
    [targets : (SUBSET CRDs) \ {{}}, dryRun : BOOLEAN, prune : BOOLEAN,
     namespace : Namespaces \cup {AllNamespaces}, concurrency : Nat]

(* step: resolve, list, apply, prune while running; done with a report,      *)
(* error without one.  left: the CRDs this phase has still to visit.         *)
MigrateTypeOK ==
    mig \in [step    : {"idle", "resolve", "list", "apply", "prune", "done", "error"},
             opts    : MigrateOptions,
             left    : SUBSET CRDs,
             target  : [CRDs -> Versions \cup {None}],
             pending : SUBSET Objects,
             failed  : SUBSET Objects,
             pruned  : [CRDs -> {"no", "yes", "error"}]]

MigrateBegin(step, opts) ==
    [step |-> step, opts |-> opts, left |-> opts.targets,
     target |-> [c \in CRDs |-> None], pending |-> {}, failed |-> {},
     pruned |-> [c \in CRDs |-> "no"]]

MigrateIdle == MigrateBegin("idle", CHOOSE opts \in MigrateOptions : TRUE)

MigrateRunning == mig.step \notin {"idle", "done", "error"}

(* The CRD the current phase works on. *)
Target == FirstOf(mig.left)
LastTarget == mig.left = {Target}

(* listNS: --namespace narrows a namespaced CRD only. *)
listNS(c) == IF Namespaced(c) THEN mig.opts.namespace ELSE AllNamespaces

(* An error returns no report. *)
MigrateFail ==
    /\ mig' = MigrateBegin("error", mig.opts)
    /\ UNCHANGED clusterVars

StartMigrate(opts) ==
    /\ ~MigrateRunning
    /\ mig' = MigrateBegin("resolve", opts)
    /\ UNCHANGED clusterVars

(* Mutant: pruning with --namespace is accepted. *)
PruneNeverRefused == FALSE

(* resolveMigrateTargets reads the CRDs one after another.  When the last is *)
(* resolved, pruning together with --namespace on a namespaced target is     *)
(* refused before a single object is written.                                *)
PruneRefused ==
    /\ mig.opts.prune /\ mig.opts.namespace # AllNamespaces
    /\ \E c \in mig.opts.targets : Namespaced(c)

resolveMigrateTargets ==
    /\ mig.step = "resolve"
    /\ \/ MigrateFail
       \/ /\ LastTarget => ~PruneRefused
          /\ mig' = [mig EXCEPT
                !.target[Target] = crdStorageVersion(Target),
                !.step = IF LastTarget THEN "list" ELSE "resolve",
                !.left = IF LastTarget THEN mig.opts.targets ELSE mig.left \ {Target}]
          /\ UNCHANGED clusterVars

(* One CRD's objects are listed at the version resolved for it. *)
listTarget ==
    /\ mig.step = "list"
    /\ \/ MigrateFail
       \/ /\ mig.target[Target] \in crd[Target].versions
          /\ mig' = [mig EXCEPT !.step = "apply",
                                !.pending = listAllByGVR(Target, listNS(Target))]
          /\ UNCHANGED clusterVars

(* migrateOne: an empty apply.  A dry run goes through conversion and        *)
(* admission without persisting.  A server-side apply to an object that has  *)
(* been deleted since the listing creates it, if its schema admits an empty  *)
(* object.                                                                   *)
migrateOne(o) ==
    /\ mig.step = "apply"
    /\ o \in InFlight(mig.pending, effectiveConcurrency(mig.opts.concurrency))
    /\ \/ /\ mig' = [mig EXCEPT !.pending = @ \ {o}, !.failed = @ \cup {o}]
          /\ UNCHANGED clusterVars
       \/ /\ mig.target[Target] \in crd[Target].versions
          /\ mig' = [mig EXCEPT !.pending = @ \ {o}]
          /\ obj' = IF mig.opts.dryRun THEN obj
                    ELSE [obj EXCEPT ![o].stored = crdStorageVersion(Target)]
          /\ UNCHANGED <<xrd, crd>>

(* Mutant: object failures do not hold the prune back. *)
PruneDespiteFailures == mig.opts.prune /\ ~mig.opts.dryRun

(* wg.Wait: the pool is empty; go on to the next CRD or to the prune, which  *)
(* one failure on any CRD skips for all of them.                             *)
PruneAllowed == mig.opts.prune /\ ~mig.opts.dryRun /\ mig.failed = {}

targetDone ==
    /\ mig.step = "apply" /\ mig.pending = {}
    /\ mig' = IF ~LastTarget
              THEN [mig EXCEPT !.step = "list", !.left = @ \ {Target}]
              ELSE [mig EXCEPT !.step = IF PruneAllowed THEN "prune" ELSE "done",
                               !.left = mig.opts.targets]
    /\ UNCHANGED clusterVars

(* pruneStoredVersions: a get and a status update that fails if the CRD      *)
(* changed in between, so the two act as one step.  The API server refuses   *)
(* a list without the current storage version.  An error does not stop the   *)
(* prune of the next CRD.                                                    *)
pruneStoredVersions ==
    /\ mig.step = "prune"
    /\ \E ok \in BOOLEAN :
         /\ ok => mig.target[Target] = crd[Target].storage
         /\ mig' = [mig EXCEPT
               !.pruned[Target] = IF ok THEN "yes" ELSE "error",
               !.step = IF LastTarget THEN "done" ELSE "prune",
               !.left = IF LastTarget THEN {} ELSE @ \ {Target}]
         /\ crd' = IF ok THEN [crd EXCEPT ![Target].stored = {mig.target[Target]}]
                   ELSE crd
    /\ UNCHANGED <<xrd, obj>>

(* The process is interrupted; nothing it wrote is undone. *)
KillMigrate == MigrateRunning /\ MigrateFail

MigrateStep ==
    \/ resolveMigrateTargets
    \/ listTarget
    \/ \E o \in Objects : migrateOne(o)
    \/ targetDone
    \/ pruneStoredVersions

(* Mutant: only a failed prune counts. *)
HasPruneFailures == \E c \in mig.opts.targets : mig.pruned[c] = "error"

HasFailures ==
    mig.failed # {} \/ \E c \in mig.opts.targets : mig.pruned[c] = "error"

-----------------------------------------------------------------------------
(* The objects a run covers. *)
Covered(o) ==
    /\ CrdOf(o) \in mig.opts.targets
    /\ listNS(CrdOf(o)) # AllNamespaces => NsOf[o] = listNS(CrdOf(o))

Rewritten(o) == Exists(o) => obj[o].stored >= mig.target[CrdOf(o)]

(* A run that reports no failure has left every object it covers stored at   *)
(* the version it resolved, or a later one: also the ones created, written   *)
(* or rendered under its feet (RunMigrateStorage, HasFailures).              *)
CleanReportIsTrue ==
    mig.step = "done" /\ ~HasFailures /\ ~mig.opts.dryRun
        => \A o \in Objects : Covered(o) => Rewritten(o)

(* storedVersions shrinks on one CRD only once the objects of every target   *)
(* CRD have been rewritten: a failure anywhere blocks the prune everywhere.  *)
PruneWaitsForAll ==
    [][(\E c \in CRDs : crd[c].stored \ crd'[c].stored # {})
         => \A o \in Objects : CrdOf(o) \in mig.opts.targets => Rewritten(o)]_<<clusterVars, mig>>
=============================================================================
