------------------------ MODULE VersionRetirementProofs ------------------------
(***************************************************************************)
(* For any number of objects, versions, managers and command options:      *)
(* status.storedVersions stays true to what etcd holds, the commands       *)
(* implement StorageLedger, what migrate-storage and retarget report is    *)
(* true, and a version the unserve gate passes is out of use.              *)
(***************************************************************************)
EXTENDS VersionRetirement, FiniteSetTheorems, WellFoundedInduction, TLAPS

\* The types the argument uses: the cluster, migrate-storage and retarget.
Typed == ClusterTypeOK /\ MigrateTypeOK /\ RetargetTypeOK

IInv == Typed /\ PruneSafe

\* What is assumed of the constants, as separate facts.
LEMMA Assumed ==
    /\ MaxVersion \in Nat \ {0}
    /\ MigrateOptions \subseteq MigrateOptionType /\ MigrateOptions # {}
    /\ RetargetOptions \subseteq RetargetOptionType /\ RetargetOptions # {}
    /\ AllNamespaces \notin Namespaces
BY RetirementConstants DEF RetirementConstants

LEMMA VersionFacts ==
    /\ Versions \subseteq Nat /\ 1 \in Versions /\ None \notin Versions
    /\ None = 0 /\ CRDs = {"composite", "claim"}
    /\ Versions \cup {None} \subseteq Nat
    /\ \A o \in Objects : CrdOf(o) \in CRDs
BY Assumed, SMT DEF Versions, None, CRDs, CrdOf

\* The CRD a phase works on is one of those it has still to visit.
LEMMA FirstOfLeft ==
    ASSUME NEW left \in SUBSET CRDs, left # {}
    PROVE  FirstOf(left) \in left
BY DEF FirstOf, CRDs

\* An idle, failed or fresh run of migrate-storage has a report of the right
\* type, and nothing to keep.
LEMMA BeginTyped ==
    ASSUME NEW step \in {"idle", "resolve", "error"}, NEW opts \in MigrateOptions
    PROVE  MigrateBegin(step, opts)
             \in [step    : {"idle", "resolve", "list", "apply", "prune", "done", "error"},
                  opts    : MigrateOptions,
                  left    : SUBSET CRDs,
                  target  : [CRDs -> Versions \cup {None}],
                  pending : SUBSET Objects,
                  failed  : SUBSET Objects,
                  pruned  : [CRDs -> {"no", "yes", "error"}]]
<1>1. opts.targets \in SUBSET CRDs
  BY Assumed DEF MigrateOptionType
<1> QED BY <1>1 DEF MigrateBegin

LEMMA IdleTyped ==
    /\ \E opts \in MigrateOptions : MigrateIdle = MigrateBegin("idle", opts)
    /\ \E opts \in RetargetOptions :
         RetargetIdle = [RetargetBegin("idle", opts) EXCEPT !.ref = 1]
<1>1. (CHOOSE opts \in MigrateOptions : TRUE) \in MigrateOptions
  BY Assumed
<1>2. (CHOOSE opts \in RetargetOptions : TRUE) \in RetargetOptions
  BY Assumed
<1> QED BY <1>1, <1>2 DEF MigrateIdle, RetargetIdle

\* What a write leaves in etcd.
LEMMA CreatedFacts ==
    ASSUME NEW m \in AllManagers, NEW v \in Versions, NEW s \in Versions
    PROVE  Created(m, v, s) \in ObjectType /\ Created(m, v, s).stored = s
<1>1. Absent \in ObjectType /\ Absent.stored = None
  BY VersionFacts DEF Absent, ObjectType
<1>2. Created(m, v, s).stored = s
  BY <1>1 DEF Created, Absent
<1>3. Created(m, v, s) \in ObjectType
  BY <1>1, VersionFacts DEF Created, ObjectType
<1> QED BY <1>2, <1>3

LEMMA PersistedFacts ==
    ASSUME ClusterTypeOK, NEW o \in Objects, NEW x \in ObjectType,
           NEW m \in AllManagers, NEW v \in Versions
    PROVE  /\ Persisted(o, x, m, v) \in ObjectType
           /\ Persisted(o, x, m, v).stored = crd[CrdOf(o)].storage
<1>1. crd[CrdOf(o)].storage \in Versions
  BY VersionFacts DEF ClusterTypeOK
<1> QED BY <1>1 DEF Persisted, ObjectType

LEMMA InitTyped == Init => IInv
<1> SUFFICES ASSUME Init PROVE IInv
  OBVIOUS
<1>0. PICK m \in Managers : obj = [o \in Objects |-> Created(m, 1, 1)]
  BY DEF Init, ClusterInit
<1>01. m \in AllManagers
  BY DEF AllManagers
<1>1. ClusterTypeOK
  BY <1>0, <1>01, CreatedFacts, VersionFacts, SMT DEF Init, ClusterInit, ClusterTypeOK
<1>2. MigrateTypeOK
  BY IdleTyped, BeginTyped DEF Init, MigrateTypeOK
<1>3. RetargetTypeOK
  BY <1>1, IdleTyped, VersionFacts DEF Init, RetargetTypeOK, RetargetBegin, ClusterTypeOK
<1>4. StoredRecorded /\ StorageListed /\ NotAhead
  <2>1. \A o \in Objects : obj[o].stored = 1
    BY <1>0, <1>01, CreatedFacts, VersionFacts
  <2>2. \A c \in CRDs : /\ crd[c].storage = 1 /\ crd[c].stored = {1}
                         /\ crd[c].stored \subseteq crd[c].versions
    BY VersionFacts DEF Init, ClusterInit
  <2>3. xrd.hub = 1
    BY DEF Init, ClusterInit
  <2> QED BY <2>1, <2>2, <2>3, VersionFacts DEF StoredRecorded, StorageListed, NotAhead
<1>5. mig.step = "idle"
  BY IdleTyped DEF Init, MigrateBegin
<1>6. PhaseOK /\ TargetsBehind /\ VisitedRewritten
  BY <1>5 DEF PhaseOK, TargetsBehind, VisitedRewritten, MigrateRunning
<1> QED BY <1>1, <1>2, <1>3, <1>4, <1>6 DEF IInv, Typed, PruneSafe

-----------------------------------------------------------------------------
\* One object is created, rewritten or deleted; nothing else changes.
ObjectChange(o) ==
    /\ UNCHANGED <<xrd, crd>>
    /\ obj' \in [Objects -> ObjectType]
    /\ \A p \in Objects : p # o => obj'[p] = obj[p]
    /\ obj'[o].stored \in {obj[o].stored, None, crd[CrdOf(o)].storage}

\* Objects may go, or come to be stored at their CRD's storage version, at any
\* point of a run: that is where, or later than, the run would store them.
LEMMA ObjectStep ==
    ASSUME ClusterTypeOK, MigrateTypeOK, PruneSafe, UNCHANGED <<xrd, crd, mig>>,
           obj' \in [Objects -> ObjectType],
           \A o \in Objects :
              obj'[o].stored \in {obj[o].stored, None, crd[CrdOf(o)].storage}
    PROVE  ClusterTypeOK' /\ PruneSafe'
<1>1. ClusterTypeOK'
  BY DEF ClusterTypeOK, ObjectType
<1>2. StoredRecorded'
  BY VersionFacts DEF PruneSafe, StoredRecorded, StorageListed, Exists
<1>3. StorageListed'
  BY DEF PruneSafe, StorageListed
<1>4. NotAhead'
  <2> SUFFICES ASSUME NEW o \in Objects, Exists(o)'
               PROVE  (obj[o].stored <= crd[CrdOf(o)].storage)'
    BY DEF NotAhead
  <2>1. crd[CrdOf(o)].storage \in Nat
    BY VersionFacts DEF ClusterTypeOK
  <2> QED BY <2>1 DEF PruneSafe, NotAhead, Exists
<1>5. PhaseOK'
  BY DEF PruneSafe, PhaseOK, MigrateRunning, PruneRefused, Target
<1>6. TargetsBehind'
  BY DEF PruneSafe, TargetsBehind, MigrateRunning, Resolved
<1>7. VisitedRewritten'
  <2> SUFFICES ASSUME (MigrateRunning /\ mig.opts.prune /\ ~mig.opts.dryRun)',
                      NEW o \in Objects, Visited(o)', o \notin mig'.failed, Exists(o)'
               PROVE  (obj[o].stored >= mig.target[CrdOf(o)])'
    BY DEF VisitedRewritten, Rewritten
  <2>1. MigrateRunning /\ mig.opts.prune /\ ~mig.opts.dryRun /\ Visited(o) /\ o \notin mig.failed
    BY DEF MigrateRunning, Visited, Target
  <2>2. Rewritten(o)
    BY <2>1 DEF PruneSafe, VisitedRewritten
  <2>3. mig.target[CrdOf(o)] <= crd[CrdOf(o)].storage
    BY <2>1, VersionFacts DEF PruneSafe, TargetsBehind, Visited, Resolved
  <2>4. crd[CrdOf(o)].storage \in Nat
    BY VersionFacts DEF ClusterTypeOK
  <2>5. mig.target[CrdOf(o)] \in Versions \cup {None}
    BY VersionFacts DEF MigrateTypeOK
  <2>6. mig.target[CrdOf(o)] \in Nat
    BY <2>5, VersionFacts
  <2> QED BY <2>2, <2>3, <2>4, <2>6 DEF Rewritten, Exists
<1> QED BY <1>1, <1>2, <1>3, <1>4, <1>5, <1>6, <1>7 DEF PruneSafe

\* A run that is not running leaves the cluster part of the invariant only.
LEMMA RestStep ==
    ASSUME PruneSafe, UNCHANGED clusterVars, ~MigrateRunning'
    PROVE  PruneSafe'
<1>1. (StoredRecorded /\ StorageListed /\ NotAhead)'
  BY DEF PruneSafe, StoredRecorded, StorageListed, NotAhead, Exists, clusterVars
<1>2. (PhaseOK /\ TargetsBehind /\ VisitedRewritten)'
  BY DEF PhaseOK, TargetsBehind, VisitedRewritten, MigrateRunning
<1> QED BY <1>1, <1>2 DEF PruneSafe

LEMMA BeginStep ==
    ASSUME PruneSafe, UNCHANGED clusterVars, NEW opts \in MigrateOptions,
           NEW step \in {"idle", "resolve", "error"}, mig' = MigrateBegin(step, opts)
    PROVE  MigrateTypeOK' /\ PruneSafe'
<1>1. MigrateTypeOK'
  BY BeginTyped DEF MigrateTypeOK
<1>2. mig'.step = step /\ mig'.opts = opts /\ mig'.left = opts.targets
  BY DEF MigrateBegin
<1>3. CASE step # "resolve"
  <2>1. ~MigrateRunning'
    BY <1>2, <1>3 DEF MigrateRunning
  <2> QED BY <1>1, <2>1, RestStep
<1>4. CASE step = "resolve"
  <2>1. (StoredRecorded /\ StorageListed /\ NotAhead)'
    BY DEF PruneSafe, StoredRecorded, StorageListed, NotAhead, Exists, clusterVars
  <2>2. opts.targets # {}
    BY Assumed DEF MigrateOptionType
  <2>3. PhaseOK'
    BY <1>2, <1>4, <2>2 DEF PhaseOK
  <2>4. TargetsBehind'
    BY <1>2, <1>4 DEF TargetsBehind, Resolved
  <2>5. VisitedRewritten'
    BY <1>2, <1>4 DEF VisitedRewritten, Visited
  <2> QED BY <1>1, <2>1, <2>3, <2>4, <2>5 DEF PruneSafe
<1> QED BY <1>1, <1>3, <1>4

\* The hub moves forward and old blocks go; the CRDs have not followed yet.
LEMMA AuthorStep ==
    ASSUME IInv, UNCHANGED <<mig, ret, crd, obj>>,
           Promote \/ \E v \in Versions : DropVersion(v)
    PROVE  ClusterTypeOK' /\ PruneSafe'
<1>0. ClusterTypeOK
  BY DEF IInv, Typed
<1>1. xrd'.hub \in Versions /\ xrd'.hub >= xrd.hub /\ xrd'.versions \in SUBSET Versions
      /\ xrd' \in [hub : Versions, versions : SUBSET Versions]
  <2>1. CASE Promote
    BY <1>0, <2>1, VersionFacts DEF Promote, ClusterTypeOK
  <2>2. CASE \E v \in Versions : DropVersion(v)
    BY <1>0, <2>2, VersionFacts DEF DropVersion, ClusterTypeOK
  <2> QED BY <2>1, <2>2
<1>2. ClusterTypeOK'
  BY <1>0, <1>1 DEF ClusterTypeOK, ObjectType
<1>3. StorageListed'
  <2>1. \A c \in CRDs : crd[c].storage \in Nat
    BY <1>0, VersionFacts DEF ClusterTypeOK
  <2>2. xrd.hub \in Nat /\ xrd'.hub \in Nat
    BY <1>0, <1>1, VersionFacts DEF ClusterTypeOK
  <2> QED BY <1>1, <2>1, <2>2 DEF IInv, PruneSafe, StorageListed
<1>4. (StoredRecorded /\ NotAhead)'
  BY DEF IInv, PruneSafe, StoredRecorded, NotAhead, Exists
<1>5. PhaseOK'
  BY DEF IInv, PruneSafe, PhaseOK, MigrateRunning, PruneRefused, Target
<1>6. TargetsBehind'
  BY DEF IInv, PruneSafe, TargetsBehind, MigrateRunning, Resolved
<1>7. VisitedRewritten'
  BY DEF IInv, PruneSafe, VisitedRewritten, MigrateRunning, Visited, Rewritten, Exists, Target
<1> QED BY <1>2, <1>3, <1>4, <1>5, <1>6, <1>7 DEF PruneSafe

\* Crossplane renders a CRD: its storage version never goes back.
LEMMA RenderStep ==
    ASSUME IInv, UNCHANGED <<mig, ret>>, NEW c \in CRDs, Render(c)
    PROVE  ClusterTypeOK' /\ PruneSafe'
<1>0. ClusterTypeOK /\ MigrateTypeOK
  BY DEF IInv, Typed
<1>1. /\ \A d \in CRDs : d # c => crd'[d] = crd[d]
      /\ crd'[c].storage = xrd.hub
      /\ crd'[c].stored = crd[c].stored \cup {xrd.hub}
      /\ crd'[c].stored \subseteq crd'[c].versions
      /\ xrd' = xrd /\ obj' = obj
  BY <1>0 DEF Render, ClusterTypeOK
<1>2. ClusterTypeOK'
  BY <1>0 DEF Render, ClusterTypeOK, ObjectType
<1>3. xrd.hub \in Nat /\ \A d \in CRDs : crd[d].storage \in Nat
  BY <1>0, VersionFacts DEF ClusterTypeOK
<1>4. \A d \in CRDs : crd'[d].storage >= crd[d].storage /\ crd[d].stored \subseteq crd'[d].stored
                      /\ crd'[d].storage \in Nat
  BY <1>1, <1>3 DEF IInv, PruneSafe, StorageListed
<1>5. StorageListed'
  BY <1>1, <1>3 DEF IInv, PruneSafe, StorageListed
<1>6. StoredRecorded'
  BY <1>1, <1>4, VersionFacts DEF IInv, PruneSafe, StoredRecorded, Exists
<1>7. NotAhead'
  <2> SUFFICES ASSUME NEW o \in Objects, Exists(o)
               PROVE  obj[o].stored <= crd'[CrdOf(o)].storage
    BY <1>1 DEF NotAhead, Exists
  <2>1. obj[o].stored <= crd[CrdOf(o)].storage
    BY DEF IInv, PruneSafe, NotAhead
  <2>2. obj[o].stored \in Versions \cup {None}
    BY <1>0 DEF ClusterTypeOK, ObjectType
  <2>3. obj[o].stored \in Nat /\ CrdOf(o) \in CRDs
    BY <2>2, VersionFacts
  <2> QED BY <1>3, <1>4, <2>1, <2>3
<1>8. PhaseOK'
  BY DEF IInv, PruneSafe, PhaseOK, MigrateRunning, PruneRefused, Target
<1>9. TargetsBehind'
  <2> SUFFICES ASSUME MigrateRunning, NEW d \in CRDs, Resolved(d)
               PROVE  mig.target[d] <= crd'[d].storage
    BY DEF TargetsBehind, MigrateRunning, Resolved
  <2>1. mig.target[d] <= crd[d].storage
    BY DEF IInv, PruneSafe, TargetsBehind
  <2>2. mig.target[d] \in Versions \cup {None}
    BY <1>0 DEF MigrateTypeOK
  <2>3. mig.target[d] \in Nat
    BY <2>2, VersionFacts
  <2> QED BY <1>3, <1>4, <2>1, <2>3
<1>10. VisitedRewritten'
  BY <1>1 DEF IInv, PruneSafe, VisitedRewritten, MigrateRunning, Visited, Rewritten, Exists, Target
<1> QED BY <1>2, <1>5, <1>6, <1>7, <1>8, <1>9, <1>10 DEF PruneSafe

-----------------------------------------------------------------------------
\* Facts about a running migrate-storage that every step of it uses.
LEMMA RunFacts ==
    ASSUME IInv, MigrateRunning
    PROVE  /\ Target \in mig.left /\ Target \in CRDs
           /\ mig.left \subseteq mig.opts.targets
           /\ mig.opts \in MigrateOptions /\ mig.opts.targets \subseteq CRDs
           /\ mig.opts.targets # {}
           /\ \A c \in CRDs : crd[c].storage \in Versions
<1>1. mig.left # {} /\ mig.left \subseteq mig.opts.targets
  BY DEF IInv, PruneSafe, PhaseOK
<1>2. mig.left \in SUBSET CRDs /\ mig.opts \in MigrateOptions
  BY DEF IInv, Typed, MigrateTypeOK
<1>3. mig.opts.targets \subseteq CRDs /\ mig.opts.targets # {}
  BY <1>2, Assumed DEF MigrateOptionType
<1>4. Target \in mig.left
  BY <1>1, <1>2, FirstOfLeft DEF Target
<1>5. \A c \in CRDs : crd[c].storage \in Versions
  BY DEF IInv, Typed, ClusterTypeOK
<1> QED BY <1>1, <1>2, <1>3, <1>4, <1>5

\* A step of the command that leaves the cluster alone.
LEMMA SameCluster ==
    ASSUME IInv, UNCHANGED clusterVars
    PROVE  ClusterTypeOK' /\ (StoredRecorded /\ StorageListed /\ NotAhead)'
<1>1. ClusterTypeOK'
  BY DEF IInv, Typed, ClusterTypeOK, clusterVars, ObjectType
<1>2. (StoredRecorded /\ StorageListed /\ NotAhead)'
  BY DEF IInv, PruneSafe, StoredRecorded, StorageListed, NotAhead, Exists, clusterVars
<1> QED BY <1>1, <1>2

\* The storage version is read for one CRD: at that moment it is current.
LEMMA ResolveStep ==
    ASSUME IInv, resolveMigrateTargets
    PROVE  MigrateTypeOK' /\ ClusterTypeOK' /\ PruneSafe'
<1>0. mig.step = "resolve" /\ MigrateRunning /\ UNCHANGED clusterVars
  BY DEF resolveMigrateTargets, MigrateRunning, MigrateFail
<1> USE RunFacts, <1>0
<1>1. ClusterTypeOK' /\ (StoredRecorded /\ StorageListed /\ NotAhead)'
  BY SameCluster
<1>2. CASE MigrateFail
  BY <1>1, <1>2, BeginStep DEF MigrateFail, IInv
<1>3. CASE ~MigrateFail
  <2>0. mig \in [step    : {"idle", "resolve", "list", "apply", "prune", "done", "error"},
             opts    : MigrateOptions,
             left    : SUBSET CRDs,
             target  : [CRDs -> Versions \cup {None}],
             pending : SUBSET Objects,
             failed  : SUBSET Objects,
             pruned  : [CRDs -> {"no", "yes", "error"}]]
    BY DEF IInv, Typed, MigrateTypeOK
  <2>1. /\ LastTarget => ~PruneRefused
        /\ mig' = [mig EXCEPT
                !.target[Target] = crdStorageVersion(Target),
                !.step = IF LastTarget THEN "list" ELSE "resolve",
                !.left = IF LastTarget THEN mig.opts.targets ELSE mig.left \ {Target}]
    BY <1>3 DEF resolveMigrateTargets
  <2>2. /\ mig'.opts = mig.opts
        /\ mig'.step = IF LastTarget THEN "list" ELSE "resolve"
        /\ mig'.left = IF LastTarget THEN mig.opts.targets ELSE mig.left \ {Target}
        /\ mig'.target[Target] = crd[Target].storage
        /\ \A c \in CRDs : c # Target => mig'.target[c] = mig.target[c]
    BY <2>0, <2>1 DEF crdStorageVersion
  <2>3. MigrateTypeOK'
    BY <2>0, <2>1 DEF MigrateTypeOK, crdStorageVersion
  <2>4. PhaseOK'
    BY <2>1, <2>2 DEF PhaseOK, PruneRefused, LastTarget
  <2>5. TargetsBehind'
    <3> SUFFICES ASSUME NEW c \in CRDs, Resolved(c)'
                 PROVE  mig'.target[c] <= crd[c].storage
      BY DEF TargetsBehind, clusterVars
    <3>1. CASE c = Target
      <4>1. mig'.target[c] = crd[c].storage /\ crd[c].storage \in Nat
        BY <3>1, <2>2, VersionFacts
      <4> QED BY <4>1
    <3>2. CASE c # Target
      <4>1. Resolved(c)
        BY <3>2, <2>2 DEF Resolved, LastTarget
      <4> QED BY <3>2, <4>1, <2>2 DEF IInv, PruneSafe, TargetsBehind
    <3> QED BY <3>1, <3>2
  <2>6. VisitedRewritten'
    BY <2>2 DEF VisitedRewritten, Visited
  <2> QED BY <1>1, <2>3, <2>4, <2>5, <2>6 DEF PruneSafe
<1> QED BY <1>2, <1>3

\* One CRD is listed.  A run that will prune lists every namespace, so what it
\* does not list does not exist.
LEMMA ListStep ==
    ASSUME IInv, listTarget
    PROVE  MigrateTypeOK' /\ ClusterTypeOK' /\ PruneSafe'
<1>0. mig.step = "list" /\ MigrateRunning /\ UNCHANGED clusterVars
  BY DEF listTarget, MigrateRunning, MigrateFail
<1> USE RunFacts, <1>0
<1>1. ClusterTypeOK' /\ (StoredRecorded /\ StorageListed /\ NotAhead)'
  BY SameCluster
<1>2. CASE MigrateFail
  BY <1>1, <1>2, BeginStep DEF MigrateFail, IInv
<1>3. CASE ~MigrateFail
  <2> DEFINE listed == listAllByGVR(Target, listNS(Target))
  <2>1. mig' = [mig EXCEPT !.step = "apply", !.pending = listed]
    BY <1>3 DEF listTarget
  <2>2. MigrateTypeOK
    BY DEF IInv, Typed
  <2>3. /\ mig'.opts = mig.opts /\ mig'.step = "apply" /\ mig'.left = mig.left
        /\ mig'.target = mig.target /\ mig'.pending = listed
        /\ mig'.failed = mig.failed
    BY <2>1, <2>2 DEF MigrateTypeOK
  <2>4. listed \subseteq Objects /\ \A o \in listed : CrdOf(o) = Target
    BY DEF listAllByGVR
  <2>5. MigrateTypeOK'
    BY <2>1, <2>2, <2>4 DEF MigrateTypeOK
  <2>6. PhaseOK'
    <3>1. ~PruneRefused
      BY DEF IInv, PruneSafe, PhaseOK
    <3>2. ~PruneRefused'
      BY <2>3, <3>1 DEF PruneRefused
    <3>3. Target' = Target
      BY <2>3 DEF Target
    <3> HIDE DEF listed
    <3> QED BY <2>3, <2>4, <3>2, <3>3 DEF PhaseOK
  <2>7. TargetsBehind'
    <3>1. \A c \in CRDs : Resolved(c)' => Resolved(c)
      BY <2>3 DEF Resolved
    <3> QED BY <2>3, <3>1 DEF IInv, PruneSafe, TargetsBehind, clusterVars
  <2>8. VisitedRewritten'
    <3> SUFFICES ASSUME mig.opts.prune, ~mig.opts.dryRun, NEW o \in Objects,
                        Visited(o)', o \notin mig.failed, Exists(o)
                 PROVE  obj[o].stored >= mig.target[CrdOf(o)]
      BY <2>3 DEF VisitedRewritten, Rewritten, Exists, clusterVars
    <3>1. Target' = Target
      BY <2>3 DEF Target
    <3>2. CASE CrdOf(o) \notin mig.left
      <4>1. Visited(o)
        BY <2>3, <3>2 DEF Visited
      <4> QED BY <4>1 DEF IInv, PruneSafe, VisitedRewritten, Rewritten
    <3>3. CASE CrdOf(o) \in mig.left
      <4>1. CrdOf(o) = Target /\ o \notin listed
        BY <2>3, <3>1, <3>3 DEF Visited
      <4>2. ~PruneRefused
        BY DEF IInv, PruneSafe, PhaseOK
      <4>3. listNS(Target) = AllNamespaces
        BY <4>2 DEF PruneRefused, listNS
      <4>4. o \in listed
        BY <4>1, <4>3 DEF listAllByGVR
      <4> QED BY <4>1, <4>4
    <3> QED BY <3>2, <3>3
  <2> QED BY <1>1, <2>5, <2>6, <2>7, <2>8 DEF PruneSafe
<1> QED BY <1>2, <1>3

\* One object is rewritten, or the apply fails and the object counts as failed.
LEMMA ApplyStep ==
    ASSUME IInv, NEW o \in Objects, migrateOne(o)
    PROVE  MigrateTypeOK' /\ ClusterTypeOK' /\ PruneSafe' /\ ObjectChange(o)
<1>0. mig.step = "apply" /\ MigrateRunning /\ xrd' = xrd /\ crd' = crd
  BY DEF migrateOne, MigrateRunning, clusterVars
<1>1. o \in mig.pending /\ CrdOf(o) = Target
  BY <1>0 DEF migrateOne, InFlight, IInv, PruneSafe, PhaseOK
<1> USE RunFacts, <1>0
<1>2. ClusterTypeOK /\ MigrateTypeOK
  BY DEF IInv, Typed
<1>3. MigrateTypeOK'
  <2>1. mig' = [mig EXCEPT !.pending = @ \ {o}, !.failed = @ \cup {o}]
        \/ mig' = [mig EXCEPT !.pending = @ \ {o}]
    BY DEF migrateOne
  <2>2. mig.pending \ {o} \in SUBSET Objects /\ mig.failed \cup {o} \in SUBSET Objects
    BY <1>2 DEF MigrateTypeOK
  <2> QED BY <1>2, <2>1, <2>2 DEF MigrateTypeOK
<1>4. /\ mig'.opts = mig.opts /\ mig'.step = "apply" /\ mig'.left = mig.left
      /\ mig'.target = mig.target /\ mig'.pending = mig.pending \ {o}
      /\ mig.failed \subseteq mig'.failed
  BY <1>2 DEF migrateOne, MigrateTypeOK
<1>5. /\ obj' \in [Objects -> ObjectType]
      /\ \A p \in Objects : p # o => obj'[p] = obj[p]
      /\ obj'[o].stored \in {obj[o].stored, crd[CrdOf(o)].storage}
      /\ o \in mig'.failed \/ mig.opts.dryRun \/ obj'[o].stored = crd[CrdOf(o)].storage
  <2>1. obj \in [Objects -> ObjectType] /\ crdStorageVersion(Target) = crd[CrdOf(o)].storage
    BY <1>1, <1>2 DEF ClusterTypeOK, crdStorageVersion
  <2>2. CASE UNCHANGED clusterVars /\ o \in mig'.failed
    BY <2>1, <2>2 DEF clusterVars
  <2>3. CASE obj' = IF mig.opts.dryRun THEN obj
                    ELSE [obj EXCEPT ![o].stored = crdStorageVersion(Target)]
    <3>1. crd[CrdOf(o)].storage \in Versions
      BY <1>1
    <3> QED BY <2>1, <2>3, <3>1 DEF ObjectType
  <2>4. (UNCHANGED clusterVars /\ o \in mig'.failed)
        \/ obj' = IF mig.opts.dryRun THEN obj
                  ELSE [obj EXCEPT ![o].stored = crdStorageVersion(Target)]
    BY <1>2 DEF migrateOne, MigrateTypeOK
  <2> QED BY <2>2, <2>3, <2>4
<1>6. ClusterTypeOK'
  BY <1>2, <1>5 DEF ClusterTypeOK, ObjectType
<1>7. StoredRecorded'
  BY <1>5, VersionFacts DEF IInv, PruneSafe, StoredRecorded, StorageListed, Exists
<1>8. StorageListed'
  BY DEF IInv, PruneSafe, StorageListed
<1>9. NotAhead'
  <2> SUFFICES ASSUME NEW p \in Objects, Exists(p)'
               PROVE  obj'[p].stored <= crd[CrdOf(p)].storage
    BY DEF NotAhead
  <2>1. crd[CrdOf(p)].storage \in Nat
    BY VersionFacts
  <2>2. obj'[p].stored \in {obj[p].stored, crd[CrdOf(p)].storage} /\ obj'[p].stored # None
    BY <1>5 DEF Exists
  <2> QED BY <2>1, <2>2 DEF IInv, PruneSafe, NotAhead, Exists
<1>10. Target' = Target
  BY <1>4 DEF Target
<1>11. PhaseOK'
  <2>1. ~PruneRefused'
    BY <1>4 DEF IInv, PruneSafe, PhaseOK, PruneRefused
  <2> QED BY <1>4, <1>10, <2>1 DEF IInv, PruneSafe, PhaseOK
<1>12. \A c \in CRDs : c \in mig.opts.targets => mig.target[c] <= crd[c].storage
  BY DEF IInv, PruneSafe, TargetsBehind, Resolved
<1>13. TargetsBehind'
  BY <1>4, <1>12 DEF TargetsBehind, Resolved
<1>14. VisitedRewritten'
  <2> SUFFICES ASSUME mig.opts.prune, ~mig.opts.dryRun, NEW p \in Objects,
                      Visited(p)', p \notin mig'.failed, Exists(p)'
               PROVE  obj'[p].stored >= mig.target[CrdOf(p)]
    BY <1>4 DEF VisitedRewritten, Rewritten
  <2>1. CASE p = o
    <3>1. obj'[p].stored = crd[CrdOf(p)].storage
      BY <1>5, <2>1
    <3>2. mig.target[CrdOf(p)] <= crd[CrdOf(p)].storage
      BY <1>1, <1>12, <2>1
    <3>3. crd[CrdOf(p)].storage \in Nat
      BY VersionFacts
    <3>4. mig.target[CrdOf(p)] \in Versions \cup {None}
      BY <1>2, VersionFacts DEF MigrateTypeOK
    <3>5. mig.target[CrdOf(p)] \in Nat
      BY <3>4, VersionFacts
    <3> QED BY <3>1, <3>2, <3>3, <3>5
  <2>2. CASE p # o
    <3>1. Visited(p) /\ p \notin mig.failed
      BY <1>4, <1>10, <2>2 DEF Visited
    <3>2. Exists(p) /\ obj'[p] = obj[p]
      BY <1>5, <2>2 DEF Exists
    <3> QED BY <3>1, <3>2 DEF IInv, PruneSafe, VisitedRewritten, Rewritten
  <2> QED BY <2>1, <2>2
<1>15. ObjectChange(o)
  BY <1>5 DEF ObjectChange
<1> QED BY <1>3, <1>6, <1>7, <1>8, <1>9, <1>11, <1>13, <1>14, <1>15 DEF PruneSafe

\* The pool of one CRD is empty: every object of it has been through.
LEMMA DoneStep ==
    ASSUME IInv, targetDone
    PROVE  MigrateTypeOK' /\ ClusterTypeOK' /\ PruneSafe'
<1>0. mig.step = "apply" /\ mig.pending = {} /\ MigrateRunning /\ UNCHANGED clusterVars
  BY DEF targetDone, MigrateRunning
<1> USE RunFacts, <1>0
<1>1. ClusterTypeOK' /\ (StoredRecorded /\ StorageListed /\ NotAhead)'
  BY SameCluster
<1>2. MigrateTypeOK
  BY DEF IInv, Typed
<1>3. MigrateTypeOK'
  BY <1>2 DEF targetDone, MigrateTypeOK
<1>4. /\ mig'.opts = mig.opts /\ mig'.target = mig.target /\ mig'.failed = mig.failed
      /\ mig'.pending = {}
      /\ mig'.step = IF ~LastTarget THEN "list" ELSE IF PruneAllowed THEN "prune" ELSE "done"
      /\ mig'.left = IF ~LastTarget THEN mig.left \ {Target} ELSE mig.opts.targets
  BY <1>2 DEF targetDone, MigrateTypeOK
<1>5. ~PruneRefused'
  BY <1>4 DEF IInv, PruneSafe, PhaseOK, PruneRefused
<1>6. PhaseOK'
  BY <1>4, <1>5 DEF PhaseOK, LastTarget, PruneAllowed
<1>7. TargetsBehind'
  <2>1. \A c \in CRDs : Resolved(c)' => Resolved(c)
    BY <1>4 DEF Resolved
  <2> QED BY <1>4, <2>1 DEF IInv, PruneSafe, TargetsBehind, clusterVars
<1>8. VisitedRewritten'
  <2> SUFFICES ASSUME MigrateRunning', mig.opts.prune, ~mig.opts.dryRun, NEW o \in Objects,
                      Visited(o)', o \notin mig.failed, Exists(o)
               PROVE  obj[o].stored >= mig.target[CrdOf(o)]
    BY <1>4 DEF VisitedRewritten, Rewritten, Exists, clusterVars
  <2>1. Visited(o)
    BY <1>4 DEF Visited, LastTarget
  <2> QED BY <2>1 DEF IInv, PruneSafe, VisitedRewritten, Rewritten
<1> QED BY <1>1, <1>3, <1>6, <1>7, <1>8 DEF PruneSafe

\* When the API server takes the prune of a CRD, every object of that CRD is
\* stored exactly at the version the list is cut down to.
LEMMA PrunedFacts ==
    ASSUME IInv, mig.step = "prune", mig.target[Target] = crd[Target].storage,
           NEW o \in Objects, CrdOf(o) = Target, Exists(o)
    PROVE  obj[o].stored = crd[Target].storage
<1>0. MigrateRunning
  BY DEF MigrateRunning
<1>1. Visited(o) /\ mig.opts.prune /\ ~mig.opts.dryRun /\ o \notin mig.failed
  BY <1>0, RunFacts DEF Visited, IInv, PruneSafe, PhaseOK
<1>2. obj[o].stored >= crd[Target].storage
  BY <1>0, <1>1 DEF IInv, PruneSafe, VisitedRewritten, Rewritten
<1>3. obj[o].stored <= crd[Target].storage
  BY DEF IInv, PruneSafe, NotAhead
<1>4. obj[o].stored \in Versions \cup {None}
  BY DEF IInv, Typed, ClusterTypeOK, ObjectType
<1>5. obj[o].stored \in Nat /\ crd[Target].storage \in Nat
  BY <1>0, <1>4, VersionFacts, RunFacts
<1> QED BY <1>2, <1>3, <1>5

LEMMA PruneStep ==
    ASSUME IInv, pruneStoredVersions
    PROVE  MigrateTypeOK' /\ ClusterTypeOK' /\ PruneSafe'
<1>0. mig.step = "prune" /\ MigrateRunning /\ xrd' = xrd /\ obj' = obj
  BY DEF pruneStoredVersions, MigrateRunning
<1> USE RunFacts, <1>0
<1>1. ClusterTypeOK /\ MigrateTypeOK
  BY DEF IInv, Typed
<1>2. PICK ok \in BOOLEAN :
         /\ ok => mig.target[Target] = crd[Target].storage
         /\ mig' = [mig EXCEPT
               !.pruned[Target] = IF ok THEN "yes" ELSE "error",
               !.step = IF LastTarget THEN "done" ELSE "prune",
               !.left = IF LastTarget THEN {} ELSE @ \ {Target}]
         /\ crd' = IF ok THEN [crd EXCEPT ![Target].stored = {mig.target[Target]}]
                   ELSE crd
  BY DEF pruneStoredVersions
<1>3. MigrateTypeOK'
  BY <1>1, <1>2 DEF MigrateTypeOK
<1>4. /\ mig'.opts = mig.opts /\ mig'.target = mig.target /\ mig'.failed = mig.failed
      /\ mig'.step = IF LastTarget THEN "done" ELSE "prune"
      /\ mig'.left = IF LastTarget THEN {} ELSE mig.left \ {Target}
  BY <1>1, <1>2 DEF MigrateTypeOK
<1>5. /\ crd' \in [CRDs -> [storage : Versions, stored : (SUBSET Versions) \ {{}},
                            versions : SUBSET Versions]]
      /\ \A c \in CRDs : crd'[c].storage = crd[c].storage /\ crd'[c].versions = crd[c].versions
      /\ \A c \in CRDs : crd'[c].stored = crd[c].stored
            \/ /\ c = Target /\ mig.target[Target] = crd[Target].storage
               /\ crd'[c].stored = {crd[c].storage}
  <2>1. crd \in [CRDs -> [storage : Versions, stored : (SUBSET Versions) \ {{}},
                          versions : SUBSET Versions]]
    BY <1>1 DEF ClusterTypeOK
  <2>2. CASE ok
    BY <1>2, <2>1, <2>2
  <2>3. CASE ~ok
    BY <1>2, <2>1, <2>3
  <2> QED BY <2>2, <2>3
<1>6. ClusterTypeOK'
  BY <1>1, <1>5 DEF ClusterTypeOK, ObjectType
<1>7. StoredRecorded'
  <2> SUFFICES ASSUME NEW o \in Objects, Exists(o)
               PROVE  obj[o].stored \in crd'[CrdOf(o)].stored
    BY DEF StoredRecorded, Exists
  <2>1. obj[o].stored \in crd[CrdOf(o)].stored
    BY DEF IInv, PruneSafe, StoredRecorded
  <2> QED BY <1>5, <2>1, PrunedFacts, VersionFacts
<1>8. StorageListed'
  BY <1>5 DEF IInv, PruneSafe, StorageListed
<1>9. NotAhead'
  BY <1>5, VersionFacts DEF IInv, PruneSafe, NotAhead, Exists
<1>10. PhaseOK'
  <2>1. ~PruneRefused'
    BY <1>4 DEF IInv, PruneSafe, PhaseOK, PruneRefused
  <2> QED BY <1>4, <2>1 DEF IInv, PruneSafe, PhaseOK, LastTarget, MigrateRunning
<1>11. TargetsBehind'
  BY <1>4, <1>5 DEF IInv, PruneSafe, TargetsBehind, Resolved, MigrateRunning
<1>12. VisitedRewritten'
  BY <1>4 DEF IInv, PruneSafe, VisitedRewritten, Visited, Rewritten, Exists, MigrateRunning
<1> QED BY <1>3, <1>6, <1>7, <1>8, <1>9, <1>10, <1>11, <1>12 DEF PruneSafe

-----------------------------------------------------------------------------
\* The writes of clients, Crossplane and retarget.
LEMMA ClientChange ==
    ASSUME IInv, NEW o \in Objects, NEW m \in Managers, NEW v \in Versions,
           CreateObject(o, m, v) \/ WriteObject(o, m, v)
    PROVE  ObjectChange(o)
<1>1. ClusterTypeOK /\ m \in AllManagers /\ crd[CrdOf(o)].storage \in Versions
  BY VersionFacts DEF IInv, Typed, ClusterTypeOK, AllManagers
<1>2. obj \in [Objects -> ObjectType]
  BY <1>1 DEF ClusterTypeOK
<1>3. CASE CreateObject(o, m, v)
  <2>1. obj' = [obj EXCEPT ![o] = Created(m, v, crd[CrdOf(o)].storage)] /\ UNCHANGED <<xrd, crd>>
    BY <1>3 DEF CreateObject
  <2> QED BY <1>1, <1>2, <2>1, CreatedFacts DEF ObjectChange
<1>4. CASE WriteObject(o, m, v)
  <2>1. obj' = [obj EXCEPT ![o] = Persisted(o, obj[o], m, v)] /\ UNCHANGED <<xrd, crd>>
    BY <1>4 DEF WriteObject
  <2> QED BY <1>1, <1>2, <2>1, PersistedFacts DEF ObjectChange
<1> QED BY <1>3, <1>4

LEMMA DeleteChange ==
    ASSUME IInv, NEW o \in Objects, DeleteObject(o)
    PROVE  ObjectChange(o)
<1>1. Absent \in ObjectType /\ Absent.stored = None
  BY VersionFacts DEF Absent, ObjectType
<1>2. obj \in [Objects -> ObjectType]
  BY DEF IInv, Typed, ClusterTypeOK
<1> QED BY <1>1, <1>2 DEF DeleteObject, ObjectChange

LEMMA SelectChange ==
    ASSUME IInv, NEW o \in Objects, SelectComposition(o)
    PROVE  ObjectChange(o)
<1>1. ClusterTypeOK /\ xrd.hub \in Versions /\ obj \in [Objects -> ObjectType]
  BY DEF IInv, Typed, ClusterTypeOK
<1>2. [obj[o] EXCEPT !.pin = obj[o].selector] \in ObjectType
  BY <1>1 DEF ObjectType
<1>3. "crossplane" \in AllManagers
  BY DEF AllManagers
<1>4. /\ obj' = [obj EXCEPT ![o] = Persisted(o, [obj[o] EXCEPT !.pin = obj[o].selector],
                                              "crossplane", xrd.hub)]
      /\ UNCHANGED <<xrd, crd>>
  BY DEF SelectComposition
<1> QED BY <1>1, <1>2, <1>3, <1>4, PersistedFacts DEF ObjectChange

LEMMA RetargetChange ==
    ASSUME IInv, NEW o \in Objects, retargetOne(o)
    PROVE  ObjectChange(o)
<1>1. ClusterTypeOK /\ obj \in [Objects -> ObjectType]
  BY DEF IInv, Typed, ClusterTypeOK
<1>2. ret.ref \in Versions /\ ret.opts \in RetargetOptions
  BY DEF IInv, Typed, RetargetTypeOK
<1>3. ret.opts.to \in Versions
  BY <1>2, Assumed DEF RetargetOptionType
<1>4. retargetPatch(o, ret.opts.to) \in ObjectType
  BY <1>1, <1>3 DEF retargetPatch, ObjectType
<1>5. "convctl-retarget" \in AllManagers
  BY DEF AllManagers
<1>6. \/ UNCHANGED clusterVars
      \/ /\ obj' = [obj EXCEPT ![o] = Persisted(o, retargetPatch(o, ret.opts.to),
                                                 "convctl-retarget", ret.ref)]
         /\ UNCHANGED <<xrd, crd>>
  BY DEF retargetOne, clusterVars
<1>7. CASE UNCHANGED clusterVars
  BY <1>1, <1>7 DEF clusterVars, ObjectChange
<1>8. CASE /\ obj' = [obj EXCEPT ![o] = Persisted(o, retargetPatch(o, ret.opts.to),
                                                  "convctl-retarget", ret.ref)]
           /\ UNCHANGED <<xrd, crd>>
  BY <1>1, <1>2, <1>4, <1>5, <1>8, PersistedFacts DEF ObjectChange
<1> QED BY <1>6, <1>7, <1>8

LEMMA ChangeStep ==
    ASSUME IInv, NEW o \in Objects, ObjectChange(o), UNCHANGED mig
    PROVE  ClusterTypeOK' /\ PruneSafe'
<1>1. \A p \in Objects : obj'[p].stored \in {obj[p].stored, None, crd[CrdOf(p)].storage}
  BY DEF ObjectChange
<1>2. obj' \in [Objects -> ObjectType] /\ UNCHANGED <<xrd, crd, mig>>
  BY DEF ObjectChange
<1>3. ClusterTypeOK /\ MigrateTypeOK /\ PruneSafe
  BY DEF IInv, Typed
<1> QED BY <1>1, <1>2, <1>3, ObjectStep

\* The report of retarget keeps its type.
LEMMA RetargetTyped ==
    ASSUME IInv, Next
    PROVE  RetargetTypeOK'
<1>1. RetargetTypeOK /\ xrd.hub \in Versions
  BY DEF IInv, Typed, ClusterTypeOK
<1>2. CASE ret' = ret
  BY <1>1, <1>2 DEF RetargetTypeOK
<1>3. CASE ret' = RetargetIdle
  BY <1>1, <1>3, IdleTyped, VersionFacts DEF RetargetTypeOK, RetargetBegin
<1>4. CASE \E opts \in RetargetOptions : StartRetarget(opts)
  BY <1>1, <1>4 DEF RetargetTypeOK, RetargetBegin, StartRetarget
<1>5. CASE ListRetarget
  <2>1. CASE ret' = RetargetBegin("error", ret.opts)
    BY <1>1, <2>1 DEF RetargetTypeOK, RetargetBegin
  <2>2. CASE ret' # RetargetBegin("error", ret.opts)
    <3> DEFINE c == FirstOf(ret.left)
               listed == ret.selected \cup listAllByGVR(c, AllNamespaces)
               last == ret.left = {c}
               chosen == InFlight(listed, applyCanary(Cardinality(listed), ret.opts.canary))
               noop == {o \in listAllByGVR(c, AllNamespaces) : retargetIsNoOp(o, ret.opts.to)}
    <3>1. listAllByGVR(c, AllNamespaces) \in SUBSET Objects /\ noop \in SUBSET Objects
      BY DEF listAllByGVR
    <3>2. listed \in SUBSET Objects
      BY <1>1, <3>1 DEF RetargetTypeOK
    <3>3. chosen \in SUBSET Objects
      BY <3>2 DEF InFlight
    <3>4. ret' = [ret EXCEPT
                !.left = @ \ {c},
                !.step = IF last THEN "patch" ELSE "list",
                !.settled = @ \cup noop,
                !.selected = IF last THEN chosen ELSE listed,
                !.pending = IF last THEN chosen ELSE {}]
      BY <1>5, <2>2 DEF ListRetarget
    <3> HIDE DEF c, listed, last, chosen, noop
    <3> QED BY <1>1, <3>1, <3>2, <3>3, <3>4 DEF RetargetTypeOK
  <2> QED BY <2>1, <2>2
<1>6. CASE \E o \in Objects : retargetOne(o)
  <2>1. PICK o \in Objects : retargetOne(o)
    BY <1>6
  <2>2. ret' = [ret EXCEPT !.pending = @ \ {o}]
        \/ ret' = [ret EXCEPT !.pending = @ \ {o}, !.failed = @ \cup {o}]
    BY <2>1 DEF retargetOne
  <2>3. ret.pending \ {o} \in SUBSET Objects /\ ret.failed \cup {o} \in SUBSET Objects
    BY <1>1 DEF RetargetTypeOK
  <2> QED BY <1>1, <2>2, <2>3 DEF RetargetTypeOK
<1>7. CASE RetargetDone
  BY <1>1, <1>7 DEF RetargetDone, RetargetTypeOK
<1>8. CASE \E o \in Objects : ret' = [ret EXCEPT !.deleted = @ \cup {o}]
  BY <1>1, <1>8 DEF RetargetTypeOK
<1>9. \/ ret' = ret \/ ret' = RetargetIdle
      \/ \E opts \in RetargetOptions : StartRetarget(opts)
      \/ ListRetarget \/ (\E o \in Objects : retargetOne(o)) \/ RetargetDone
      \/ \E o \in Objects : ret' = [ret EXCEPT !.deleted = @ \cup {o}]
  BY DEF Next, RunCommand, CommandStep, RetargetStep, Kill, Client, Author, Crossplane
<1> QED BY <1>2, <1>3, <1>4, <1>5, <1>6, <1>7, <1>8, <1>9

-----------------------------------------------------------------------------
\* Every step, by what it does to storedVersions and to what etcd holds.
StepKind ==
    \/ crd' = crd /\ obj' = obj
    \/ \E o \in Objects : ObjectChange(o)
    \/ \E c \in CRDs : Render(c)
    \/ pruneStoredVersions

LEMMA NextTyped ==
    ASSUME IInv, Next
    PROVE  IInv' /\ StepKind
<1>0. RetargetTypeOK' /\ PruneSafe /\ ClusterTypeOK /\ MigrateTypeOK
  BY RetargetTyped DEF IInv, Typed
<1>1. CASE RunCommand
  <2>1. UNCHANGED clusterVars
    BY <1>1 DEF RunCommand, StartMigrate, StartRetarget, StartGate
  <2>2. \E step \in {"idle", "resolve", "error"}, opts \in MigrateOptions :
           mig' = MigrateBegin(step, opts)
    BY <1>1, IdleTyped DEF RunCommand, StartMigrate
  <2>3. MigrateTypeOK' /\ PruneSafe'
    BY <1>0, <2>1, <2>2, BeginStep
  <2>4. ClusterTypeOK' /\ StepKind
    BY <2>1, SameCluster DEF StepKind, clusterVars
  <2> QED BY <1>0, <2>3, <2>4 DEF IInv, Typed
<1>2. CASE CommandStep
  <2>1. CASE resolveMigrateTargets \/ listTarget \/ targetDone
    <3>1. MigrateTypeOK' /\ ClusterTypeOK' /\ PruneSafe'
      BY <2>1, ResolveStep, ListStep, DoneStep
    <3>2. crd' = crd /\ obj' = obj
      BY <2>1 DEF resolveMigrateTargets, listTarget, targetDone, MigrateFail, clusterVars
    <3> QED BY <1>0, <3>1, <3>2 DEF IInv, Typed, StepKind
  <2>2. CASE \E o \in Objects : migrateOne(o)
    BY <1>0, <2>2, ApplyStep DEF IInv, Typed, StepKind
  <2>3. CASE pruneStoredVersions
    BY <1>0, <2>3, PruneStep DEF IInv, Typed, StepKind
  <2>4. CASE mig' = mig /\ RetargetStep
    <3>1. CASE \E o \in Objects : retargetOne(o)
      <4>1. PICK o \in Objects : ObjectChange(o)
        BY <3>1, RetargetChange
      <4>2. ClusterTypeOK' /\ PruneSafe'
        BY <2>4, <4>1, ChangeStep
      <4> QED BY <1>0, <2>4, <4>1, <4>2 DEF IInv, Typed, StepKind, MigrateTypeOK
    <3>2. CASE ListRetarget \/ RetargetDone
      <4>1. UNCHANGED <<xrd, crd, obj, mig>>
        BY <2>4, <3>2 DEF ListRetarget, RetargetDone, clusterVars
      <4> QED BY <1>0, <4>1, ObjectStep DEF IInv, Typed, StepKind, MigrateTypeOK, ClusterTypeOK
    <3> QED BY <2>4, <3>1, <3>2 DEF RetargetStep
  <2>5. CASE mig' = mig /\ GateStep
    <3>1. UNCHANGED <<xrd, crd, obj, mig>>
      BY <2>5 DEF GateStep, storedVersions, walkObjects, clusterVars
    <3> QED BY <1>0, <3>1, ObjectStep DEF IInv, Typed, StepKind, MigrateTypeOK, ClusterTypeOK
  <2> QED BY <1>2, <2>1, <2>2, <2>3, <2>4, <2>5 DEF CommandStep, MigrateStep
<1>3. CASE Kill
  <2>1. mig' = MigrateBegin("error", mig.opts) /\ UNCHANGED clusterVars /\ mig.opts \in MigrateOptions
    BY <1>0, <1>3 DEF Kill, KillMigrate, MigrateFail, MigrateTypeOK
  <2>2. MigrateTypeOK' /\ PruneSafe'
    BY <1>0, <2>1, BeginStep
  <2>3. ClusterTypeOK' /\ StepKind
    BY <2>1, SameCluster DEF StepKind, clusterVars
  <2> QED BY <1>0, <2>2, <2>3 DEF IInv, Typed
<1>4. CASE Client
  <2>1. mig' = mig /\ \E o \in Objects : ObjectChange(o)
    BY <1>4, ClientChange, DeleteChange DEF Client
  <2>2. ClusterTypeOK' /\ PruneSafe'
    BY <2>1, ChangeStep
  <2> QED BY <1>0, <2>1, <2>2 DEF IInv, Typed, StepKind, MigrateTypeOK
<1>5. CASE Author
  <2>1. UNCHANGED <<mig, ret, crd, obj>> /\ (Promote \/ \E v \in Versions : DropVersion(v))
    BY <1>5 DEF Author, Promote, DropVersion
  <2>2. ClusterTypeOK' /\ PruneSafe'
    BY <2>1, AuthorStep
  <2> QED BY <1>0, <2>1, <2>2 DEF IInv, Typed, StepKind, MigrateTypeOK
<1>6. CASE Crossplane
  <2>1. mig' = mig /\ ret' = ret
    BY <1>6 DEF Crossplane
  <2>2. CASE \E c \in CRDs : Render(c)
    <3>1. ClusterTypeOK' /\ PruneSafe'
      BY <2>1, <2>2, RenderStep
    <3> QED BY <1>0, <2>1, <2>2, <3>1 DEF IInv, Typed, StepKind, MigrateTypeOK
  <2>3. CASE \E o \in Objects : SelectComposition(o)
    <3>1. \E o \in Objects : ObjectChange(o)
      BY <2>3, SelectChange
    <3>2. ClusterTypeOK' /\ PruneSafe'
      BY <2>1, <3>1, ChangeStep
    <3> QED BY <1>0, <2>1, <3>1, <3>2 DEF IInv, Typed, StepKind, MigrateTypeOK
  <2> QED BY <1>6, <2>2, <2>3 DEF Crossplane
<1> QED BY <1>1, <1>2, <1>3, <1>4, <1>5, <1>6 DEF Next

LEMMA StutterTyped ==
    ASSUME IInv, UNCHANGED vars
    PROVE  IInv'
<1>1. UNCHANGED <<xrd, crd, obj, mig>> /\ ret' = ret
  BY DEF vars, clusterVars
<1>2. PruneSafe /\ ClusterTypeOK /\ MigrateTypeOK /\ RetargetTypeOK
  BY DEF IInv, Typed
<1>3. obj' \in [Objects -> ObjectType]
  BY <1>1, <1>2 DEF ClusterTypeOK
<1>4. ClusterTypeOK' /\ PruneSafe'
  BY <1>1, <1>2, <1>3, ObjectStep
<1> QED BY <1>1, <1>2, <1>4 DEF IInv, Typed, MigrateTypeOK, RetargetTypeOK

LEMMA Invariance == Spec => []IInv
<1>1. IInv /\ [Next]_vars => IInv'
  BY NextTyped, StutterTyped
<1> QED BY InitTyped, <1>1, PTL DEF Spec

\* However many objects, versions, managers and options there are, and whatever
\* clients, the author, Crossplane and kills do between two API calls: the
\* prune of migrate-storage never makes status.storedVersions lie
\* (pruneStoredVersions, RunMigrateStorage).
THEOREM StoredVersionsTrue == Spec => []PruneSafe
<1>1. IInv => PruneSafe
  BY DEF IInv
<1> QED BY Invariance, <1>1, PTL

\* No object is ever left in etcd at a version its CRD has dropped, so that it
\* could not be read back (pruneStoredVersions, the API server's refusal).
THEOREM NothingIsStranded == Spec => []NothingStranded
<1>1. IInv => NothingStranded
  BY VersionFacts DEF IInv, PruneSafe, StoredRecorded, StorageListed, NothingStranded
<1> QED BY Invariance, <1>1, PTL

\* storedVersions shrinks on any CRD only after the objects of every target CRD
\* have been rewritten (PruneAllowed: a failure anywhere blocks every prune).
THEOREM PruneIsLast == Spec => PruneWaitsForAll
<1>1. IInv /\ [Next]_vars =>
        [(\E c \in CRDs : crd[c].stored \ crd'[c].stored # {})
           => \A o \in Objects : CrdOf(o) \in mig.opts.targets => Rewritten(o)]_<<clusterVars, mig>>
  <2> SUFFICES ASSUME IInv, [Next]_vars, NEW c \in CRDs, crd[c].stored \ crd'[c].stored # {},
                      NEW o \in Objects, CrdOf(o) \in mig.opts.targets
               PROVE  Rewritten(o)
    OBVIOUS
  <2>1. crd' # crd /\ Next
    BY DEF vars, clusterVars
  <2>2. StepKind
    BY <2>1, NextTyped
  <2>3. ~Render(c) /\ \A d \in CRDs : ~Render(d)
    <3> SUFFICES ASSUME NEW d \in CRDs, Render(d) PROVE FALSE
      OBVIOUS
    <3>1. crd \in [CRDs -> [storage : Versions, stored : (SUBSET Versions) \ {{}},
                            versions : SUBSET Versions]]
      BY DEF IInv, Typed, ClusterTypeOK
    <3> QED BY <3>1 DEF Render
  <2>4. pruneStoredVersions
    BY <2>1, <2>2, <2>3 DEF StepKind, ObjectChange
  <2>5. mig.step = "prune" /\ MigrateRunning
    BY <2>4 DEF pruneStoredVersions, MigrateRunning
  <2>6. Visited(o) /\ mig.opts.prune /\ ~mig.opts.dryRun /\ o \notin mig.failed
    BY <2>5 DEF Visited, IInv, PruneSafe, PhaseOK
  <2> QED BY <2>5, <2>6 DEF IInv, PruneSafe, VisitedRewritten
<1> QED BY Invariance, <1>1, PTL DEF Spec, PruneWaitsForAll

-----------------------------------------------------------------------------
\* The refinement.  The abstract variables, by name.
recordedOf == [c \in CRDs |-> crd[c].stored]
presentOf == [c \in CRDs |-> StoredAt(c)]
storageOf == [c \in CRDs |-> crd[c].storage]

LEMMA InitLedger == IInv => Ledger!Init
<1> SUFFICES ASSUME IInv PROVE Ledger!Init
  OBVIOUS
<1>1. crd \in [CRDs -> [storage : Versions, stored : (SUBSET Versions) \ {{}},
                        versions : SUBSET Versions]]
  BY DEF IInv, Typed, ClusterTypeOK
<1>2. \A c \in CRDs : StoredAt(c) \subseteq crd[c].stored
  BY DEF IInv, PruneSafe, StoredRecorded, StoredAt
<1>3. \A c \in CRDs : crd[c].stored \in SUBSET Versions /\ crd[c].storage \in Versions
  BY <1>1
<1>4. \A c \in CRDs : crd[c].storage \in crd[c].stored
  BY DEF IInv, PruneSafe, StorageListed
<1>5. recordedOf \in [CRDs -> SUBSET Versions] /\ storageOf \in [CRDs -> Versions]
  BY <1>3 DEF recordedOf, storageOf
<1>6. presentOf \in [CRDs -> SUBSET Versions]
  BY <1>2, <1>3 DEF presentOf
<1>7. \A c \in CRDs : presentOf[c] \cup {storageOf[c]} \subseteq recordedOf[c]
  BY <1>2, <1>4 DEF recordedOf, presentOf, storageOf
<1> QED BY <1>5, <1>6, <1>7 DEF Ledger!Init, recordedOf, presentOf, storageOf

\* A write of one object is a Write of its CRD.
LEMMA WriteLedger ==
    ASSUME NEW o \in Objects, ObjectChange(o)
    PROVE  Ledger!Write(CrdOf(o))
<1> DEFINE k == CrdOf(o)
<1>0. crd' = crd /\ k \in CRDs
  BY VersionFacts DEF ObjectChange
<1>1. \A c \in CRDs : c # k => StoredAt(c)' = StoredAt(c)
  BY DEF ObjectChange, StoredAt, Exists
<1>2. StoredAt(k)' \subseteq StoredAt(k) \cup {crd[k].storage}
  BY DEF ObjectChange, StoredAt, Exists
<1>3. presentOf' = [presentOf EXCEPT ![k] = StoredAt(k)']
  BY <1>0, <1>1 DEF presentOf
<1>4. recordedOf' = recordedOf /\ storageOf' = storageOf
  BY <1>0 DEF recordedOf, storageOf
<1>5. StoredAt(k)' \in SUBSET (presentOf[k] \cup {storageOf[k]})
  BY <1>0, <1>2 DEF presentOf, storageOf
<1> HIDE DEF k
<1>6. \E versions \in SUBSET (presentOf[k] \cup {storageOf[k]}) :
         presentOf' = [presentOf EXCEPT ![k] = versions]
  BY <1>3, <1>5
<1>7. Ledger!Write(k)
  BY <1>4, <1>6 DEF Ledger!Write, recordedOf, presentOf, storageOf
<1> QED BY <1>7 DEF k

\* A rendered CRD advances its storage version.
LEMMA RenderLedger ==
    ASSUME IInv, NEW c \in CRDs, Render(c), NEW v \in Versions, v = xrd.hub
    PROVE  Ledger!Advance(c, v)
<1>1. crd \in [CRDs -> [storage : Versions, stored : (SUBSET Versions) \ {{}},
                        versions : SUBSET Versions]]
  BY DEF IInv, Typed, ClusterTypeOK
<1>2. /\ crd' = [crd EXCEPT ![c] = [storage |-> xrd.hub, stored |-> crd[c].stored \cup {xrd.hub},
                                    versions |-> xrd.versions]]
      /\ obj' = obj
  BY DEF Render
<1>3. storageOf' = [storageOf EXCEPT ![c] = v]
  BY <1>1, <1>2 DEF storageOf
<1>4. recordedOf' = [recordedOf EXCEPT ![c] = @ \cup {v}]
  BY <1>1, <1>2 DEF recordedOf
<1>5. presentOf' = presentOf
  BY <1>2 DEF presentOf, StoredAt, Exists
<1> QED BY <1>1, <1>3, <1>4, <1>5 DEF Ledger!Advance, recordedOf, presentOf, storageOf

\* A prune, taken or not, strikes off only what nothing is stored at.
LEMMA PruneLedger ==
    ASSUME IInv, pruneStoredVersions, NEW k \in CRDs, k = Target
    PROVE  Ledger!Prune(k) \/ (crd' = crd /\ obj' = obj)
<1>0. MigrateRunning /\ mig.step = "prune" /\ obj' = obj
  BY DEF pruneStoredVersions, MigrateRunning
<1>2. crd \in [CRDs -> [storage : Versions, stored : (SUBSET Versions) \ {{}},
                        versions : SUBSET Versions]]
  BY DEF IInv, Typed, ClusterTypeOK
<1>3. CASE crd' # crd
  <2>1. /\ crd' = [crd EXCEPT ![k].stored = {crd[k].storage}]
        /\ mig.target[k] = crd[k].storage
    BY <1>3 DEF pruneStoredVersions
  <2>2. storageOf' = storageOf
    BY <1>2, <2>1 DEF storageOf
  <2>3. presentOf' = presentOf
    BY <1>0 DEF presentOf, StoredAt, Exists
  <2>4. recordedOf' = [recordedOf EXCEPT ![k] = {crd[k].storage}]
    BY <1>2, <2>1 DEF recordedOf
  <2>5. crd[k].storage \in crd[k].stored
    BY DEF IInv, PruneSafe, StorageListed
  <2>6. StoredAt(k) \subseteq {crd[k].storage}
    BY <1>0, <2>1, PrunedFacts DEF StoredAt
  <2>7. /\ {crd[k].storage} \in SUBSET recordedOf[k]
        /\ presentOf[k] \cup {storageOf[k]} \subseteq {crd[k].storage}
    BY <2>5, <2>6 DEF recordedOf, presentOf, storageOf
  <2>8. \E versions \in SUBSET recordedOf[k] :
         /\ presentOf[k] \cup {storageOf[k]} \subseteq versions
         /\ recordedOf' = [recordedOf EXCEPT ![k] = versions]
    BY <2>4, <2>7
  <2>9. Ledger!Prune(k)
    BY <2>2, <2>3, <2>8 DEF Ledger!Prune, recordedOf, presentOf, storageOf
  <2> QED BY <2>9
<1> QED BY <1>0, <1>3

LEMMA SameLedger ==
    ASSUME crd' = crd, obj' = obj
    PROVE  UNCHANGED Ledger!ledgerVars
BY DEF Ledger!ledgerVars, StoredAt, Exists

\* The commands, run in a live cluster, implement the ledger: a version leaves
\* status.storedVersions only when no object is stored at it
\* (pruneStoredVersions, RunMigrateStorage).
THEOREM ImplementsLedger == Spec => KeepsLedger
<1>1. IInv /\ [Next]_vars => [Ledger!Next]_(Ledger!ledgerVars)
  <2> SUFFICES ASSUME IInv, [Next]_vars
               PROVE  [Ledger!Next]_(Ledger!ledgerVars)
    OBVIOUS
  <2>1. CASE Next
    <3>1. StepKind
      BY <2>1, NextTyped
    <3>2. CASE crd' = crd /\ obj' = obj
      BY <3>2, SameLedger
    <3>3. CASE \E o \in Objects : ObjectChange(o)
      BY <3>3, WriteLedger, VersionFacts DEF Ledger!Next
    <3>4. CASE \E c \in CRDs : Render(c)
      <4>1. PICK c \in CRDs : Render(c)
        BY <3>4
      <4>2. PICK v \in Versions : v = xrd.hub
        BY DEF IInv, Typed, ClusterTypeOK
      <4>3. Ledger!Advance(c, v)
        BY <4>1, <4>2, RenderLedger
      <4> QED BY <4>3 DEF Ledger!Next
    <3>5. CASE pruneStoredVersions
      <4>1. PICK k \in CRDs : k = Target
        BY <3>5, RunFacts DEF pruneStoredVersions, MigrateRunning
      <4>2. Ledger!Prune(k) \/ (crd' = crd /\ obj' = obj)
        BY <3>5, <4>1, PruneLedger
      <4>3. CASE Ledger!Prune(k)
        BY <4>3 DEF Ledger!Next
      <4>4. CASE crd' = crd /\ obj' = obj
        BY <4>4, SameLedger
      <4> QED BY <4>2, <4>3, <4>4
    <3> QED BY <3>1, <3>2, <3>3, <3>4, <3>5 DEF StepKind
  <2>2. CASE UNCHANGED vars
    BY <2>2, SameLedger DEF vars, clusterVars
  <2> QED BY <2>1, <2>2
<1>2. Init => Ledger!Init
  BY InitTyped, InitLedger
<1> QED BY Invariance, <1>1, <1>2, PTL DEF Spec, KeepsLedger, Ledger!Spec

-----------------------------------------------------------------------------
(***************************************************************************)
(* A clean report of migrate-storage                                       *)
(***************************************************************************)
\* A version the XRD has dropped never comes back to a CRD.
XrdWithin == \A c \in CRDs : xrd.versions \subseteq crd[c].versions

\* What any step does to the cluster: the hub and the storage versions go
\* forward, version blocks only go, the only version that comes to be recorded
\* is the hub, and objects are stored where their CRD says.
LEMMA ClusterStep ==
    ASSUME IInv, XrdWithin, [Next]_vars
    PROVE  /\ xrd'.hub >= xrd.hub
           /\ XrdWithin'
           /\ \A c \in CRDs : /\ crd'[c].versions \subseteq crd[c].versions
                              /\ crd'[c].stored \subseteq crd[c].stored \cup {xrd.hub}
                              /\ crd'[c].storage >= crd[c].storage
           /\ \A o \in Objects :
                obj'[o].stored \in {obj[o].stored, None, crd[CrdOf(o)].storage}
<1>0. ClusterTypeOK /\ MigrateTypeOK
  BY DEF IInv, Typed
<1>1. xrd.hub \in Nat /\ \A c \in CRDs : crd[c].storage \in Nat
  BY <1>0, VersionFacts DEF ClusterTypeOK
<1>2. CASE UNCHANGED vars
  BY <1>1, <1>2 DEF vars, clusterVars, XrdWithin
<1>3. CASE Author
  <2>1. UNCHANGED <<crd, obj>>
    BY <1>3 DEF Author, Promote, DropVersion
  <2>2. xrd'.hub >= xrd.hub /\ xrd'.versions \subseteq xrd.versions
    BY <1>0, <1>1, <1>3 DEF Author, Promote, DropVersion, ClusterTypeOK
  <2> QED BY <1>1, <2>1, <2>2 DEF XrdWithin
<1>4. CASE Next /\ ~Author
  <2>1. UNCHANGED xrd
    BY <1>4 DEF Next, RunCommand, CommandStep, Kill, Client, Crossplane, StartMigrate, StartRetarget,
       StartGate, MigrateStep, resolveMigrateTargets, listTarget, migrateOne, targetDone,
       pruneStoredVersions, RetargetStep, ListRetarget, retargetOne, RetargetDone, GateStep,
       storedVersions, walkObjects, KillMigrate, MigrateFail, CreateObject, WriteObject,
       DeleteObject, Render, SelectComposition, clusterVars
  <2>2. StepKind
    BY <1>4, NextTyped
  <2>3. CASE crd' = crd /\ obj' = obj
    BY <1>1, <2>1, <2>3 DEF XrdWithin
  <2>4. CASE \E o \in Objects : ObjectChange(o)
    BY <1>1, <2>1, <2>4 DEF ObjectChange, XrdWithin
  <2>5. ASSUME NEW c \in CRDs, Render(c)
        PROVE  /\ XrdWithin'
               /\ \A d \in CRDs : /\ crd'[d].versions \subseteq crd[d].versions
                                  /\ crd'[d].stored \subseteq crd[d].stored \cup {xrd.hub}
                                  /\ crd'[d].storage >= crd[d].storage
               /\ obj' = obj
    <3>1. /\ \A d \in CRDs : d # c => crd'[d] = crd[d]
          /\ crd'[c].storage = xrd.hub /\ crd'[c].versions = xrd.versions
          /\ crd'[c].stored = crd[c].stored \cup {xrd.hub} /\ obj' = obj
      BY <1>0, <2>5 DEF Render, ClusterTypeOK
    <3>2. crd[c].storage <= xrd.hub
      BY DEF IInv, PruneSafe, StorageListed
    <3> QED BY <1>1, <2>1, <3>1, <3>2 DEF XrdWithin
  <2>6. CASE pruneStoredVersions
    <3>1. Target \in CRDs /\ obj' = obj
      BY <2>6, RunFacts DEF pruneStoredVersions, MigrateRunning
    <3>2. crd' = crd \/ (/\ crd' = [crd EXCEPT ![Target].stored = {mig.target[Target]}]
                         /\ mig.target[Target] = crd[Target].storage)
      BY <2>6 DEF pruneStoredVersions
    <3>3. crd[Target].storage \in crd[Target].stored
      BY <3>1 DEF IInv, PruneSafe, StorageListed
    <3>4. \A d \in CRDs : /\ crd'[d].versions = crd[d].versions /\ crd'[d].storage = crd[d].storage
                          /\ crd'[d].stored \subseteq crd[d].stored
      BY <1>0, <3>1, <3>2, <3>3 DEF ClusterTypeOK
    <3> QED BY <1>1, <2>1, <3>1, <3>4 DEF XrdWithin
  <2> QED BY <1>1, <2>1, <2>2, <2>3, <2>4, <2>5, <2>6 DEF StepKind
<1> QED BY <1>2, <1>3, <1>4

LEMMA WithinAlways == Spec => []XrdWithin
<1>1. Init => XrdWithin
  BY DEF Init, ClusterInit, XrdWithin
<1>2. IInv /\ XrdWithin /\ [Next]_vars => XrdWithin'
  BY ClusterStep
<1> QED BY <1>1, <1>2, Invariance, PTL DEF Spec

\* What is true of a run, and of its report until the next command.
ReportBehind ==
    mig.step = "done" => \A c \in mig.opts.targets : mig.target[c] <= crd[c].storage

Through(o) == mig.step = "done" \/ Visited(o)

ThroughRewritten ==
    ~mig.opts.dryRun =>
        \A o \in Objects : Through(o) /\ Covered(o) /\ o \notin mig.failed => Rewritten(o)

ReportInv == ReportBehind /\ ThroughRewritten

LEMMA TargetNat ==
    ASSUME IInv
    PROVE  /\ \A c \in CRDs : mig.target[c] \in Nat /\ crd[c].storage \in Nat
           /\ \A o \in Objects : obj[o].stored \in Nat
           /\ mig.opts.targets \subseteq CRDs
<1>1. /\ \A c \in CRDs : mig.target[c] \in Versions \cup {None} /\ crd[c].storage \in Versions
      /\ \A o \in Objects : obj[o].stored \in Versions \cup {None}
      /\ mig.opts \in MigrateOptions
  BY DEF IInv, Typed, ClusterTypeOK, MigrateTypeOK, ObjectType
<1>2. mig.opts.targets \subseteq CRDs
  BY <1>1, Assumed DEF MigrateOptionType
<1> QED BY <1>1, <1>2, VersionFacts

\* What happens around a run, or after it, keeps what it has rewritten.
LEMMA ReportSame ==
    ASSUME IInv, XrdWithin, ReportInv, [Next]_vars, mig' = mig
    PROVE  ReportInv'
<1>1. /\ \A c \in CRDs : crd'[c].storage >= crd[c].storage
      /\ \A o \in Objects : obj'[o].stored \in {obj[o].stored, None, crd[CrdOf(o)].storage}
  BY ClusterStep
<1>2. IInv'
  BY NextTyped, StutterTyped
<1>3. /\ \A c \in CRDs : mig.target[c] \in Nat /\ crd[c].storage \in Nat /\ crd'[c].storage \in Nat
      /\ \A o \in Objects : obj[o].stored \in Nat /\ obj'[o].stored \in Nat
      /\ mig.opts.targets \subseteq CRDs
  <2>1. \A c \in CRDs : crd'[c].storage \in Versions
    BY <1>2 DEF IInv, Typed, ClusterTypeOK
  <2>2. \A o \in Objects : obj'[o].stored \in Versions \cup {None}
    BY <1>2 DEF IInv, Typed, ClusterTypeOK, ObjectType
  <2> QED BY <2>1, <2>2, TargetNat, VersionFacts
<1>4. ReportBehind'
  <2> SUFFICES ASSUME mig.step = "done", NEW c \in mig.opts.targets
               PROVE  mig.target[c] <= crd'[c].storage
    BY DEF ReportBehind
  <2>1. c \in CRDs /\ mig.target[c] <= crd[c].storage
    BY <1>3 DEF ReportInv, ReportBehind
  <2> QED BY <1>1, <1>3, <2>1
<1>5. ThroughRewritten'
  <2> SUFFICES ASSUME ~mig.opts.dryRun, NEW o \in Objects, Through(o), Covered(o), o \notin mig.failed,
                      Exists(o)'
               PROVE  obj'[o].stored >= mig.target[CrdOf(o)]
    BY DEF ThroughRewritten, Through, Visited, Covered, Rewritten, listNS, Target
  <2>1. Rewritten(o)
    BY DEF ReportInv, ThroughRewritten
  <2>2. CrdOf(o) \in mig.opts.targets /\ CrdOf(o) \in CRDs
    BY VersionFacts DEF Covered
  <2>3. mig.target[CrdOf(o)] <= crd[CrdOf(o)].storage
    <3>1. CASE mig.step = "done"
      BY <2>2, <3>1 DEF ReportInv, ReportBehind
    <3>2. CASE mig.step # "done"
      <4>1. MigrateRunning /\ Resolved(CrdOf(o))
        BY <2>2, <3>2 DEF Through, Visited, MigrateRunning, Resolved
      <4> QED BY <2>2, <4>1 DEF IInv, PruneSafe, TargetsBehind
    <3> QED BY <3>1, <3>2
  <2> QED BY <1>1, <1>3, <2>1, <2>2, <2>3 DEF Rewritten, Exists
<1> QED BY <1>4, <1>5 DEF ReportInv

\* A run that has just begun, or has stopped without a report, claims nothing.
LEMMA ReportBegin ==
    ASSUME mig'.step \in {"idle", "resolve", "error"}
    PROVE  ReportInv'
BY DEF ReportInv, ReportBehind, ThroughRewritten, Through, Visited

LEMMA ReportList ==
    ASSUME IInv, ReportInv, listTarget
    PROVE  ReportInv'
<1>0. mig.step = "list" /\ MigrateRunning /\ UNCHANGED clusterVars
  BY DEF listTarget, MigrateRunning, MigrateFail
<1>1. CASE MigrateFail
  BY <1>1, ReportBegin DEF MigrateFail, MigrateBegin
<1>2. CASE ~MigrateFail
  <2> DEFINE listed == listAllByGVR(Target, listNS(Target))
  <2>1. /\ mig'.opts = mig.opts /\ mig'.step = "apply" /\ mig'.left = mig.left
        /\ mig'.target = mig.target /\ mig'.pending = listed
        /\ mig'.failed = mig.failed
    BY <1>2 DEF listTarget, IInv, Typed, MigrateTypeOK
  <2>2. Target' = Target
    BY <2>1 DEF Target
  <2> SUFFICES ASSUME ~mig.opts.dryRun, NEW o \in Objects, Visited(o)', Covered(o)',
                      o \notin mig.failed, Exists(o)
               PROVE  obj[o].stored >= mig.target[CrdOf(o)]
    BY <1>0, <2>1 DEF ReportInv, ReportBehind, ThroughRewritten, Through, Rewritten, Exists, clusterVars
  <2>3. Covered(o)
    BY <2>1 DEF Covered, listNS
  <2>4. CASE CrdOf(o) \notin mig.left
    <3>1. Visited(o)
      BY <1>0, <2>3, <2>4 DEF Visited, Covered
    <3> QED BY <2>3, <3>1 DEF ReportInv, ThroughRewritten, Through, Rewritten
  <2>5. CASE CrdOf(o) \in mig.left
    <3>1. CrdOf(o) = Target /\ o \notin listed
      BY <2>1, <2>2, <2>5 DEF Visited
    <3>2. o \in listed
      BY <2>3, <3>1 DEF Covered, listAllByGVR
    <3> QED BY <3>1, <3>2
  <2> QED BY <2>4, <2>5
<1> QED BY <1>1, <1>2

LEMMA ReportApply ==
    ASSUME IInv, ReportInv, NEW o \in Objects, migrateOne(o)
    PROVE  ReportInv'
<1>0. mig.step = "apply" /\ MigrateRunning /\ crd' = crd
  BY DEF migrateOne, MigrateRunning, clusterVars
<1>1. o \in mig.pending /\ CrdOf(o) = Target
  BY <1>0 DEF migrateOne, InFlight, IInv, PruneSafe, PhaseOK
<1>2. ClusterTypeOK /\ MigrateTypeOK
  BY DEF IInv, Typed
<1>3. /\ mig'.opts = mig.opts /\ mig'.step = "apply" /\ mig'.left = mig.left
      /\ mig'.target = mig.target /\ mig'.pending = mig.pending \ {o}
      /\ mig.failed \subseteq mig'.failed
  BY <1>0, <1>2 DEF migrateOne, MigrateTypeOK
<1>4. /\ \A p \in Objects : p # o => obj'[p] = obj[p]
      /\ o \in mig'.failed \/ mig.opts.dryRun \/ obj'[o].stored = crd[CrdOf(o)].storage
  <2>1. \A p \in Objects : p # o => obj'[p] = obj[p]
    BY ApplyStep DEF ObjectChange
  <2>2. \/ mig' = [mig EXCEPT !.pending = @ \ {o}, !.failed = @ \cup {o}]
        \/ obj' = IF mig.opts.dryRun THEN obj
                  ELSE [obj EXCEPT ![o].stored = crdStorageVersion(Target)]
    BY DEF migrateOne
  <2>3. CASE mig' = [mig EXCEPT !.pending = @ \ {o}, !.failed = @ \cup {o}]
    <3>1. mig'.failed = mig.failed \cup {o}
      BY <1>2, <2>3 DEF MigrateTypeOK
    <3> QED BY <2>1, <3>1
  <2>4. CASE obj' = [obj EXCEPT ![o].stored = crdStorageVersion(Target)]
    <3>1. obj'[o].stored = crdStorageVersion(Target)
      BY <1>2, <2>4 DEF ClusterTypeOK, ObjectType
    <3> QED BY <1>1, <2>1, <3>1 DEF crdStorageVersion
  <2> QED BY <2>1, <2>2, <2>3, <2>4
<1>5. Target' = Target
  BY <1>3 DEF Target
<1> SUFFICES ASSUME ~mig.opts.dryRun, NEW p \in Objects, Visited(p)', Covered(p)',
                    p \notin mig'.failed, Exists(p)'
             PROVE  obj'[p].stored >= mig.target[CrdOf(p)]
  BY <1>3 DEF ReportInv, ReportBehind, ThroughRewritten, Through, Rewritten
<1>6. Covered(p)
  BY <1>3 DEF Covered, listNS
<1>7. CASE p = o
  <2>1. obj'[p].stored = crd[CrdOf(p)].storage
    BY <1>4, <1>7
  <2>2. CrdOf(p) \in CRDs /\ Resolved(CrdOf(p))
    BY <1>0, <1>6, VersionFacts DEF Covered, Resolved
  <2>3. mig.target[CrdOf(p)] <= crd[CrdOf(p)].storage
    BY <1>0, <2>2 DEF IInv, PruneSafe, TargetsBehind
  <2> QED BY <2>1, <2>2, <2>3, TargetNat
<1>8. CASE p # o
  <2>1. Visited(p) /\ p \notin mig.failed
    BY <1>0, <1>3, <1>5, <1>8 DEF Visited
  <2>2. Exists(p) /\ obj'[p] = obj[p]
    BY <1>4, <1>8 DEF Exists
  <2> QED BY <1>6, <2>1, <2>2 DEF ReportInv, ThroughRewritten, Through, Rewritten
<1> QED BY <1>7, <1>8

LEMMA ReportTargetDone ==
    ASSUME IInv, ReportInv, targetDone
    PROVE  ReportInv'
<1>0. mig.step = "apply" /\ mig.pending = {} /\ MigrateRunning /\ UNCHANGED clusterVars
  BY DEF targetDone, MigrateRunning
<1> USE RunFacts, <1>0
<1>1. /\ mig'.opts = mig.opts /\ mig'.target = mig.target /\ mig'.failed = mig.failed
      /\ mig'.step = IF ~LastTarget THEN "list" ELSE IF PruneAllowed THEN "prune" ELSE "done"
      /\ mig'.left = IF ~LastTarget THEN mig.left \ {Target} ELSE mig.opts.targets
  BY DEF targetDone, IInv, Typed, MigrateTypeOK
<1>2. ReportBehind'
  <2>1. \A c \in mig.opts.targets : c \in CRDs /\ Resolved(c)
    BY DEF Resolved
  <2> QED BY <1>1, <2>1 DEF ReportBehind, IInv, PruneSafe, TargetsBehind, clusterVars
<1>3. ThroughRewritten'
  <2> SUFFICES ASSUME ~mig.opts.dryRun, NEW o \in Objects, Through(o)', Covered(o)',
                      o \notin mig.failed, Exists(o)
               PROVE  obj[o].stored >= mig.target[CrdOf(o)]
    BY <1>1 DEF ThroughRewritten, Rewritten, Exists, clusterVars
  <2>1. Covered(o)
    BY <1>1 DEF Covered, listNS
  <2>2. Visited(o)
    BY <1>1, <2>1 DEF Through, Visited, LastTarget, Covered
  <2> QED BY <2>1, <2>2 DEF ReportInv, ThroughRewritten, Through, Rewritten
<1> QED BY <1>2, <1>3 DEF ReportInv

LEMMA ReportPrune ==
    ASSUME IInv, XrdWithin, ReportInv, pruneStoredVersions
    PROVE  ReportInv'
<1>0. mig.step = "prune" /\ MigrateRunning /\ obj' = obj
  BY DEF pruneStoredVersions, MigrateRunning
<1> USE RunFacts, <1>0
<1>1. /\ mig'.opts = mig.opts /\ mig'.target = mig.target /\ mig'.failed = mig.failed
      /\ mig'.step \in {"prune", "done"}
  BY DEF pruneStoredVersions, IInv, Typed, MigrateTypeOK
<1>2. \A c \in CRDs : crd'[c].storage = crd[c].storage
  BY DEF pruneStoredVersions, IInv, Typed, ClusterTypeOK
<1>3. ReportBehind'
  <2>1. \A c \in mig.opts.targets : c \in CRDs /\ Resolved(c)
    BY DEF Resolved
  <2> QED BY <1>1, <1>2, <2>1 DEF ReportBehind, IInv, PruneSafe, TargetsBehind
<1>4. ThroughRewritten'
  <2> SUFFICES ASSUME ~mig.opts.dryRun, NEW o \in Objects, Covered(o)', o \notin mig.failed, Exists(o)
               PROVE  obj[o].stored >= mig.target[CrdOf(o)]
    BY <1>1 DEF ThroughRewritten, Rewritten, Exists
  <2>1. Covered(o)
    BY <1>1 DEF Covered, listNS
  <2>2. Visited(o)
    BY <2>1 DEF Visited, Covered
  <2> QED BY <2>1, <2>2 DEF ReportInv, ThroughRewritten, Through, Rewritten
<1> QED BY <1>3, <1>4 DEF ReportInv

LEMMA ReportNext ==
    ASSUME IInv, XrdWithin, ReportInv, [Next]_vars
    PROVE  ReportInv'
<1>1. CASE mig' = mig
  BY <1>1, ReportSame
<1>2. CASE RunCommand \/ Kill
  <2>1. mig'.step \in {"idle", "resolve", "error"}
    BY <1>2, IdleTyped DEF RunCommand, Kill, KillMigrate, MigrateFail, StartMigrate, MigrateBegin
  <2> QED BY <2>1, ReportBegin
<1>3. CASE resolveMigrateTargets
  <2>1. CASE MigrateFail
    BY <2>1, ReportBegin DEF MigrateFail, MigrateBegin
  <2>2. CASE ~MigrateFail
    <3>1. /\ mig'.opts = mig.opts
          /\ mig'.step = IF LastTarget THEN "list" ELSE "resolve"
          /\ mig'.left = IF LastTarget THEN mig.opts.targets ELSE mig.left \ {Target}
      BY <1>3, <2>2 DEF resolveMigrateTargets, IInv, Typed, MigrateTypeOK
    <3> QED BY <3>1 DEF ReportInv, ReportBehind, ThroughRewritten, Through, Visited
  <2> QED BY <2>1, <2>2
<1>4. CASE listTarget
  BY <1>4, ReportList
<1>5. CASE \E o \in Objects : migrateOne(o)
  BY <1>5, ReportApply
<1>6. CASE targetDone
  BY <1>6, ReportTargetDone
<1>7. CASE pruneStoredVersions
  BY <1>7, ReportPrune
<1>8. \/ mig' = mig \/ RunCommand \/ Kill \/ resolveMigrateTargets \/ listTarget
      \/ (\E o \in Objects : migrateOne(o)) \/ targetDone \/ pruneStoredVersions
  BY DEF vars, Next, CommandStep, MigrateStep, Client, Author, Crossplane
<1> QED BY <1>1, <1>2, <1>3, <1>4, <1>5, <1>6, <1>7, <1>8

\* A run of migrate-storage that reports no failure has left every object it
\* covers stored at the version it resolved or a later one, and so it stays,
\* whatever is created, written, promoted and rendered during and after the
\* run (RunMigrateStorage, HasFailures).
THEOREM CleanReportsAreTrue == Spec => []CleanReportIsTrue
<1>1. Init => ReportInv
  <2>1. Init => mig.step = "idle"
    BY IdleTyped DEF Init, MigrateBegin
  <2> QED BY <2>1 DEF ReportInv, ReportBehind, ThroughRewritten, Through, Visited
<1>2. IInv /\ XrdWithin /\ ReportInv /\ [Next]_vars => ReportInv'
  BY ReportNext
<1>3. ReportInv => CleanReportIsTrue
  BY DEF ReportInv, ThroughRewritten, Through, CleanReportIsTrue, HasFailures
<1> QED BY <1>1, <1>2, <1>3, Invariance, WithinAlways, PTL DEF Spec

-----------------------------------------------------------------------------
(***************************************************************************)
(* A clean report of retarget                                              *)
(***************************************************************************)
OnTarget(o) == obj[o].selector = ret.opts.to /\ obj[o].pin \in {None, ret.opts.to}

\* A command that has not started has selected nothing.
IdleSelects == ret.step = "idle" => ret.selected = {} /\ ret.settled = {}

\* What has been listed exists until it is deleted; what was found settled, and
\* what has been patched, is on the target version and stays there.
ListedExists == \A o \in (ret.selected \cup ret.settled) \ ret.deleted : Exists(o)
SettledOnTarget == \A o \in ret.settled \ ret.deleted : OnTarget(o)
PatchedOnTarget ==
    ret.step \in {"patch", "done"} /\ ~ret.opts.dryRun =>
        \A o \in ret.selected \ (ret.pending \cup ret.failed \cup ret.deleted) : OnTarget(o)
DoneIsEmpty == ret.step = "done" => ret.pending = {}

RetargetInv ==
    IdleSelects /\ ListedExists /\ SettledOnTarget /\ PatchedOnTarget /\ DoneIsEmpty

\* Nothing but a deletion and a patch takes an object off its Compositions:
\* Crossplane pins it to what it selects.
PinsKept ==
    \A o \in Objects : Exists(o) =>
        /\ Exists(o)' /\ obj'[o].selector = obj[o].selector
        /\ obj'[o].pin \in {obj[o].pin, obj[o].selector}

LEMMA KeepsRetarget ==
    ASSUME RetargetTypeOK, RetargetInv, ret' = ret, PinsKept
    PROVE  RetargetInv'
<1>1. /\ ret.selected \subseteq Objects /\ ret.settled \subseteq Objects
  BY DEF RetargetTypeOK
<1>2. ListedExists'
  BY <1>1 DEF RetargetInv, ListedExists, PinsKept
<1>3. ASSUME NEW o \in Objects, Exists(o), OnTarget(o) PROVE OnTarget(o)'
  BY <1>3 DEF OnTarget, PinsKept
<1>4. SettledOnTarget'
  BY <1>1, <1>3 DEF RetargetInv, ListedExists, SettledOnTarget
<1>5. PatchedOnTarget'
  BY <1>1, <1>3 DEF RetargetInv, ListedExists, PatchedOnTarget
<1>6. IdleSelects' /\ DoneIsEmpty'
  BY DEF RetargetInv, IdleSelects, DoneIsEmpty
<1> QED BY <1>2, <1>4, <1>5, <1>6 DEF RetargetInv

\* A persisted object exists, with the pin and the selector it was written with.
LEMMA PersistedPins ==
    ASSUME ClusterTypeOK, NEW o \in Objects, NEW x \in ObjectType, NEW m \in AllManagers,
           NEW v \in Versions
    PROVE  LET y == Persisted(o, x, m, v) IN
           /\ y.stored # None /\ y.pin = x.pin /\ y.selector = x.selector
<1>1. crd[CrdOf(o)].storage \in Versions
  BY VersionFacts DEF ClusterTypeOK
<1> QED BY <1>1, VersionFacts DEF Persisted, ObjectType

LEMMA WritesKeepPins ==
    ASSUME IInv, NEW o \in Objects,
           \/ \E m \in Managers, v \in Versions : CreateObject(o, m, v) \/ WriteObject(o, m, v)
           \/ SelectComposition(o)
           \/ migrateOne(o)
    PROVE  PinsKept
<1>0. ClusterTypeOK /\ obj \in [Objects -> ObjectType] /\ obj[o] \in ObjectType
  BY DEF IInv, Typed, ClusterTypeOK
<1>1. ASSUME NEW m \in Managers, NEW v \in Versions, CreateObject(o, m, v) PROVE PinsKept
  BY <1>0, <1>1 DEF CreateObject, PinsKept, Exists
<1>2. ASSUME NEW m \in Managers, NEW v \in Versions, WriteObject(o, m, v) PROVE PinsKept
  <2> DEFINE y == Persisted(o, obj[o], m, v)
  <2>1. obj' = [obj EXCEPT ![o] = y]
    BY <1>2 DEF WriteObject
  <2>2. y.stored # None /\ y.pin = obj[o].pin /\ y.selector = obj[o].selector
    BY <1>0, PersistedPins DEF AllManagers
  <2> HIDE DEF y
  <2> QED BY <1>0, <2>1, <2>2 DEF PinsKept, Exists
<1>3. CASE SelectComposition(o)
  <2> DEFINE x == [obj[o] EXCEPT !.pin = obj[o].selector]
             y == Persisted(o, x, "crossplane", xrd.hub)
  <2>1. x \in ObjectType /\ x.pin = obj[o].selector /\ x.selector = obj[o].selector
    BY <1>0 DEF ObjectType
  <2>2. obj' = [obj EXCEPT ![o] = y]
    BY <1>3 DEF SelectComposition
  <2>3. xrd.hub \in Versions /\ "crossplane" \in AllManagers
    BY <1>0 DEF ClusterTypeOK, AllManagers
  <2> HIDE DEF x
  <2>4. y.stored # None /\ y.pin = obj[o].selector /\ y.selector = obj[o].selector
    BY <1>0, <2>1, <2>3, PersistedPins
  <2> HIDE DEF y
  <2> QED BY <1>0, <2>2, <2>4 DEF PinsKept, Exists
<1>4. CASE migrateOne(o)
  <2>1. MigrateRunning
    BY <1>4 DEF migrateOne, MigrateRunning
  <2>2. crdStorageVersion(Target) # None
    BY <2>1, RunFacts, VersionFacts DEF crdStorageVersion
  <2>3. obj' = obj \/ obj' = [obj EXCEPT ![o].stored = crdStorageVersion(Target)]
    BY <1>4 DEF migrateOne, clusterVars
  <2> QED BY <1>0, <2>2, <2>3 DEF PinsKept, Exists, ObjectType
<1> QED BY <1>1, <1>2, <1>3, <1>4

LEMMA DeleteRetarget ==
    ASSUME IInv, RetargetInv, NEW o \in Objects, DeleteObject(o),
           ret' = IF ret.step = "idle" THEN ret ELSE [ret EXCEPT !.deleted = @ \cup {o}]
    PROVE  RetargetInv'
<1>1. RetargetTypeOK /\ obj \in [Objects -> ObjectType]
  BY DEF IInv, Typed, ClusterTypeOK
<1>2. \A p \in Objects : p # o => obj'[p] = obj[p]
  BY <1>1 DEF DeleteObject
<1>3. /\ ret'.step = ret.step /\ ret'.opts = ret.opts /\ ret'.selected = ret.selected
      /\ ret'.settled = ret.settled /\ ret'.pending = ret.pending /\ ret'.failed = ret.failed
      /\ ret.step # "idle" => ret'.deleted = ret.deleted \cup {o}
  BY <1>1 DEF RetargetTypeOK
<1>4. ret.selected \subseteq Objects /\ ret.settled \subseteq Objects
  BY <1>1 DEF RetargetTypeOK
<1>5. CASE ret.step = "idle"
  BY <1>3, <1>5 DEF RetargetInv, IdleSelects, ListedExists, SettledOnTarget, PatchedOnTarget,
     DoneIsEmpty
<1>6. CASE ret.step # "idle"
  BY <1>2, <1>3, <1>4, <1>6 DEF RetargetInv, IdleSelects, ListedExists, SettledOnTarget,
     PatchedOnTarget, DoneIsEmpty, OnTarget, Exists
<1> QED BY <1>5, <1>6

LEMMA ListKeepsRetarget ==
    ASSUME IInv, RetargetInv, ListRetarget
    PROVE  RetargetInv'
<1>0. RetargetTypeOK /\ UNCHANGED clusterVars /\ ret.step = "list"
  BY DEF IInv, Typed, ListRetarget
<1>1. CASE ret' = RetargetBegin("error", ret.opts)
  <2>1. ret'.step = "error" /\ ret'.selected = {} /\ ret'.settled = {}
    BY <1>1 DEF RetargetBegin
  <2> QED BY <2>1 DEF RetargetInv, IdleSelects, ListedExists, SettledOnTarget, PatchedOnTarget,
     DoneIsEmpty
<1>2. CASE ret' # RetargetBegin("error", ret.opts)
  <2> DEFINE c == FirstOf(ret.left)
             new == listAllByGVR(c, AllNamespaces)
             listed == ret.selected \cup new
             last == ret.left = {c}
             chosen == InFlight(listed, applyCanary(Cardinality(listed), ret.opts.canary))
             noop == {o \in new : retargetIsNoOp(o, ret.opts.to)}
  <2>1. ret' = [ret EXCEPT
                !.left = @ \ {c},
                !.step = IF last THEN "patch" ELSE "list",
                !.settled = @ \cup noop,
                !.selected = IF last THEN chosen ELSE listed,
                !.pending = IF last THEN chosen ELSE {}]
    BY <1>2 DEF ListRetarget
  <2>2. \A o \in new : o \in Objects /\ Exists(o)
    BY DEF listAllByGVR
  <2>3. chosen \subseteq listed
    BY DEF InFlight
  <2>4. \A o \in noop : o \in new /\ OnTarget(o)
    BY DEF retargetIsNoOp, OnTarget
  <2> HIDE DEF c, new, last, chosen, noop
  <2>5. /\ ret'.step = (IF last THEN "patch" ELSE "list") /\ ret'.opts = ret.opts
        /\ ret'.settled = ret.settled \cup noop /\ ret'.deleted = ret.deleted
        /\ ret'.selected = (IF last THEN chosen ELSE listed)
        /\ last => ret'.pending = chosen
    BY <1>0, <2>1 DEF RetargetTypeOK
  <2>6. ListedExists'
    BY <1>0, <2>2, <2>3, <2>4, <2>5 DEF RetargetInv, ListedExists, Exists, clusterVars
  <2>7. SettledOnTarget'
    BY <1>0, <2>4, <2>5 DEF RetargetInv, SettledOnTarget, OnTarget, clusterVars
  <2>8. PatchedOnTarget'
    BY <2>5 DEF PatchedOnTarget
  <2>9. IdleSelects' /\ DoneIsEmpty'
    BY <2>5 DEF IdleSelects, DoneIsEmpty
  <2> QED BY <2>6, <2>7, <2>8, <2>9 DEF RetargetInv
<1> QED BY <1>1, <1>2

LEMMA PatchKeepsRetarget ==
    ASSUME IInv, RetargetInv, NEW o \in Objects, retargetOne(o)
    PROVE  RetargetInv'
<1> DEFINE x == retargetPatch(o, ret.opts.to)
           y == Persisted(o, x, "convctl-retarget", ret.ref)
<1>0. /\ RetargetTypeOK /\ ClusterTypeOK /\ ret.step = "patch"
      /\ obj \in [Objects -> ObjectType] /\ obj[o] \in ObjectType
  BY DEF IInv, Typed, ClusterTypeOK, retargetOne
<1>1. ret.opts.to \in Versions /\ ret.ref \in Versions /\ "convctl-retarget" \in AllManagers
  BY <1>0, Assumed DEF RetargetTypeOK, RetargetOptionType, AllManagers
<1>2. x \in ObjectType /\ x.pin = None /\ x.selector = ret.opts.to
  BY <1>0, <1>1 DEF retargetPatch, ObjectType
<1> HIDE DEF x
<1>3. y.stored # None /\ y.pin = None /\ y.selector = ret.opts.to
  BY <1>0, <1>1, <1>2, PersistedPins
<1>4. \/ /\ o \in ret.settled /\ obj' = obj /\ ret' = [ret EXCEPT !.pending = @ \ {o}]
      \/ /\ obj' = obj /\ ret' = [ret EXCEPT !.pending = @ \ {o}, !.failed = @ \cup {o}]
      \/ /\ ret' = [ret EXCEPT !.pending = @ \ {o}]
         /\ obj' = IF ret.opts.dryRun THEN obj ELSE [obj EXCEPT ![o] = y]
  BY DEF retargetOne, clusterVars, x
<1> HIDE DEF y
<1>5. /\ ret'.step = "patch" /\ ret'.opts = ret.opts /\ ret'.selected = ret.selected
      /\ ret'.settled = ret.settled /\ ret'.deleted = ret.deleted
      /\ ret'.pending = ret.pending \ {o} /\ ret.failed \subseteq ret'.failed
  BY <1>0, <1>4 DEF RetargetTypeOK
<1>6. ret.selected \subseteq Objects /\ ret.settled \subseteq Objects
  BY <1>0 DEF RetargetTypeOK
<1>7. \A p \in Objects : obj'[p] = obj[p] \/ (p = o /\ obj'[p] = y)
  BY <1>0, <1>4
<1>8. ListedExists'
  BY <1>3, <1>5, <1>6, <1>7 DEF RetargetInv, ListedExists, Exists
<1>9. \A p \in Objects : OnTarget(p) => OnTarget(p)'
  BY <1>3, <1>5, <1>7 DEF OnTarget
<1>10. SettledOnTarget'
  BY <1>5, <1>6, <1>9 DEF RetargetInv, SettledOnTarget
<1>11. PatchedOnTarget'
  <2> SUFFICES ASSUME ~ret.opts.dryRun, NEW p \in Objects, p \in ret.selected,
                      p \notin ret'.pending, p \notin ret'.failed, p \notin ret.deleted
               PROVE  OnTarget(p)'
    BY <1>5, <1>6 DEF PatchedOnTarget
  <2>1. CASE p # o
    <3>1. OnTarget(p)
      BY <1>0, <1>5, <2>1 DEF RetargetInv, PatchedOnTarget
    <3> QED BY <1>9, <3>1
  <2>2. CASE p = o /\ o \in ret.settled
    BY <1>5, <1>10, <2>2 DEF SettledOnTarget
  <2>3. CASE p = o /\ o \notin ret.settled
    <3>1. CASE ret' = [ret EXCEPT !.pending = @ \ {o}, !.failed = @ \cup {o}]
      <4>1. o \in ret'.failed
        BY <1>0, <3>1 DEF RetargetTypeOK
      <4> QED BY <2>3, <4>1
    <3>2. CASE obj' = [obj EXCEPT ![o] = y]
      <4>1. obj'[p] = y
        BY <1>0, <2>3, <3>2
      <4> QED BY <1>3, <1>5, <4>1 DEF OnTarget
    <3> QED BY <1>4, <2>3, <3>1, <3>2
  <2> QED BY <2>1, <2>2, <2>3
<1>12. IdleSelects' /\ DoneIsEmpty'
  BY <1>5 DEF IdleSelects, DoneIsEmpty
<1> QED BY <1>8, <1>10, <1>11, <1>12 DEF RetargetInv

LEMMA RetargetNext ==
    ASSUME IInv, RetargetInv, [Next]_vars
    PROVE  RetargetInv'
<1>0. RetargetTypeOK
  BY DEF IInv, Typed
<1>1. CASE ret' = ret /\ obj' = obj
  BY <1>0, <1>1, KeepsRetarget DEF PinsKept, Exists
<1>2. CASE RunCommand
  <2>1. ret'.selected = {} /\ ret'.settled = {} /\ ret'.step \in {"idle", "list", "error"}
    BY <1>2, IdleTyped DEF RunCommand, StartRetarget, RetargetBegin
  <2> QED BY <2>1 DEF RetargetInv, IdleSelects, ListedExists, SettledOnTarget, PatchedOnTarget,
     DoneIsEmpty
<1>3. CASE ret' = ret /\ \E o \in Objects : migrateOne(o)
  BY <1>0, <1>3, KeepsRetarget, WritesKeepPins
<1>4. CASE ListRetarget
  BY <1>4, ListKeepsRetarget
<1>5. CASE \E o \in Objects : retargetOne(o)
  BY <1>5, PatchKeepsRetarget
<1>6. CASE RetargetDone
  <2>1. /\ ret.step = "patch" /\ ret.pending = {} /\ obj' = obj
        /\ ret' = [ret EXCEPT !.step = "done"]
    BY <1>6 DEF RetargetDone, clusterVars
  <2>2. /\ ret'.step = "done" /\ ret'.opts = ret.opts /\ ret'.selected = ret.selected
        /\ ret'.settled = ret.settled /\ ret'.deleted = ret.deleted
        /\ ret'.pending = {} /\ ret'.failed = ret.failed
    BY <1>0, <2>1 DEF RetargetTypeOK
  <2> QED BY <2>1, <2>2 DEF RetargetInv, IdleSelects, ListedExists, SettledOnTarget,
     PatchedOnTarget, DoneIsEmpty, OnTarget, Exists
<1>7. CASE Client
  <2>1. PICK o \in Objects :
           \/ /\ ret' = ret
              /\ \E m \in Managers, v \in Versions : CreateObject(o, m, v) \/ WriteObject(o, m, v)
           \/ /\ DeleteObject(o)
              /\ ret' = IF ret.step = "idle" THEN ret ELSE [ret EXCEPT !.deleted = @ \cup {o}]
    BY <1>7 DEF Client
  <2>2. CASE /\ ret' = ret
             /\ \E m \in Managers, v \in Versions : CreateObject(o, m, v) \/ WriteObject(o, m, v)
    <3>1. PinsKept
      BY <2>2, WritesKeepPins
    <3> QED BY <1>0, <2>2, <3>1, KeepsRetarget
  <2>3. CASE DeleteObject(o) /\ ret' = IF ret.step = "idle" THEN ret
                                       ELSE [ret EXCEPT !.deleted = @ \cup {o}]
    BY <2>3, DeleteRetarget
  <2> QED BY <2>1, <2>2, <2>3
<1>8. CASE ret' = ret /\ \E o \in Objects : SelectComposition(o)
  BY <1>0, <1>8, KeepsRetarget, WritesKeepPins
<1>9. \/ ret' = ret /\ obj' = obj
      \/ RunCommand
      \/ ret' = ret /\ \E o \in Objects : migrateOne(o)
      \/ ListRetarget \/ (\E o \in Objects : retargetOne(o)) \/ RetargetDone
      \/ Client
      \/ ret' = ret /\ \E o \in Objects : SelectComposition(o)
  BY DEF vars, clusterVars, Next, CommandStep, MigrateStep, resolveMigrateTargets, listTarget,
     targetDone, pruneStoredVersions, RetargetStep, GateStep, storedVersions, walkObjects, Kill,
     KillMigrate, MigrateFail, Author, Promote, DropVersion, Crossplane, Render
<1> QED BY <1>1, <1>2, <1>3, <1>4, <1>5, <1>6, <1>7, <1>8, <1>9

\* A run of retarget that reports no failure leaves every object it selected on
\* the target version's Compositions, and so it stays until the next command or
\* a deletion, whatever Crossplane pins and clients write in between
\* (RunRetarget, retargetIsNoOp).
THEOREM RetargetReportsAreTrue == Spec => []RetargetReportIsTrue
<1>1. Init => RetargetInv
  <2>1. Init => ret.step = "idle" /\ ret.selected = {} /\ ret.settled = {}
    BY IdleTyped DEF Init, RetargetBegin
  <2> QED BY <2>1 DEF RetargetInv, IdleSelects, ListedExists, SettledOnTarget, PatchedOnTarget,
     DoneIsEmpty
<1>2. IInv /\ RetargetInv /\ [Next]_vars => RetargetInv'
  BY RetargetNext
<1>3. RetargetInv => RetargetReportIsTrue
  BY DEF RetargetInv, PatchedOnTarget, DoneIsEmpty, RetargetReportIsTrue, OnTarget
<1> QED BY <1>1, <1>2, <1>3, Invariance, PTL DEF Spec

-----------------------------------------------------------------------------
(***************************************************************************)
(* The unserve gate                                                        *)
(***************************************************************************)
\* A set of naturals has a least element.
Below == {pair \in Nat \X Nat : pair[1] < pair[2]}

LEMMA LeastNatural ==
    ASSUME NEW T \in SUBSET Nat, T # {}
    PROVE  \E x \in T : \A y \in T : x <= y
<1>1. IsWellFoundedOn(Below, Nat)
  BY NatLessThanWellFounded DEF OpToRel, Below
<1>2. PICK x \in T : \A y \in T : ~(<<y, x>> \in Below)
  BY <1>1, WFMin
<1>3. \A y \in T : ~(y < x)
  BY <1>2 DEF Below
<1> QED BY <1>3

\* What is assumed of the objects.
LEMMA ObjectsAssumed ==
    /\ IsFiniteSet(Objects) /\ MaxSamples \in Nat /\ MaxSamples > 0
    /\ \A o \in Objects : Rank[o] \in Nat
BY RetirementConstants DEF RetirementConstants

\* A walk over fewer objects than its bound has missed none.
LEMMA BoundNotHit ==
    ASSUME NEW pending \in SUBSET Objects, NEW n \in Nat,
           Cardinality(InFlight(pending, n)) < n
    PROVE  InFlight(pending, n) = pending
<1> DEFINE seen == InFlight(pending, n)
           missed == pending \ seen
           before(o) == {p \in pending : Rank[p] < Rank[o]}
<1>1. seen \subseteq pending /\ \A o \in pending : o \in seen <=> Cardinality(before(o)) < n
  BY DEF InFlight
<1>2. IsFiniteSet(pending)
  BY ObjectsAssumed, FS_Subset
<1>3. IsFiniteSet(seen) /\ Cardinality(seen) \in Nat
  BY <1>1, <1>2, FS_Subset, FS_CardinalityType
<1> SUFFICES ASSUME missed # {} PROVE FALSE
  BY <1>1
<1> DEFINE ranks == {Rank[o] : o \in missed}
<1>4. ranks \in SUBSET Nat /\ ranks # {}
  BY ObjectsAssumed
<1>5. PICK r \in ranks : \A y \in ranks : r <= y
  BY <1>4, LeastNatural
<1>6. PICK o \in missed : r = Rank[o]
  BY <1>5
<1>7. before(o) \subseteq seen
  <2> SUFFICES ASSUME NEW p \in pending, Rank[p] < Rank[o], p \notin seen PROVE FALSE
    OBVIOUS
  <2>1. Rank[p] \in ranks
    OBVIOUS
  <2>2. Rank[p] \in Nat /\ Rank[o] \in Nat /\ Rank[o] <= Rank[p]
    BY <1>5, <1>6, <2>1, ObjectsAssumed
  <2> QED BY <2>2
<1>8. IsFiniteSet(before(o)) /\ Cardinality(before(o)) \in Nat
      /\ Cardinality(before(o)) <= Cardinality(seen)
  BY <1>3, <1>7, FS_Subset, FS_CardinalityType
<1>9. ~(Cardinality(before(o)) < n)
  BY <1>1, <1>6
<1> HIDE DEF seen, before
<1>10. Cardinality(seen) < n
  BY DEF seen
<1> QED BY <1>3, <1>8, <1>9, <1>10

-----------------------------------------------------------------------------
\* The gate runs alone, and has its bound before it.
GateAlone == gate.step # "idle" => mig.step = "idle" /\ ret.step = "idle"
GateBounds ==
    /\ gate.hub <= xrd.hub
    /\ GateRunning => gate.left # {} /\ gate.total < MaxSamples /\ ~gate.truncated

\* What the gate has read of storedVersions is still so: only the hub, a later
\* version, is ever recorded anew.
ReadOf(c) == (gate.step = "stored" /\ c \notin gate.left) \/ gate.step \in {"walk", "done"}
StoredStillUnused ==
    gate.version < gate.hub /\ ~gate.stored =>
        \A c \in CRDs : ReadOf(c) => gate.version \notin crd[c].stored

\* What the walk has seen of the writers is still so, but for later writes.
WalkedOf(c) == (gate.step = "walk" /\ c \notin gate.left) \/ gate.step = "done"
Unwritten(o) ==
    Exists(o) /\ gate.version \in crd[CrdOf(o)].versions => collectWriters(o, gate.version) = {}
WritersStillNone ==
    ~gate.truncated /\ ~gate.unreadable /\ gate.writers = {} =>
        \A o \in Objects \ gate.since : WalkedOf(CrdOf(o)) => Unwritten(o)

GateInv == GateTypeOK /\ GateAlone /\ GateBounds /\ StoredStillUnused /\ WritersStillNone

\* A gate that has not started, has just started or has failed claims nothing.
LEMMA GateBegins ==
    ASSUME NEW step \in {"idle", "stored", "error"}, NEW v \in Versions, NEW h \in Versions,
           gate' = GateBegin(step, v, h), h <= xrd'.hub,
           step # "idle" => mig'.step = "idle" /\ ret'.step = "idle"
    PROVE  GateInv'
<1>1. /\ gate'.step = step /\ gate'.version = v /\ gate'.hub = h /\ gate'.left = CRDs
      /\ gate'.total = 0 /\ gate'.truncated = FALSE /\ gate'.unreadable = FALSE
      /\ gate'.writers = {} /\ gate'.since = {} /\ gate'.stored = FALSE
  BY DEF GateBegin
<1>2. GateTypeOK'
  BY DEF GateTypeOK, GateBegin
<1>3. GateAlone'
  BY <1>1 DEF GateAlone
<1>4. GateBounds'
  BY <1>1, ObjectsAssumed, VersionFacts DEF GateBounds, GateRunning
<1>5. StoredStillUnused' /\ WritersStillNone'
  BY <1>1 DEF StoredStillUnused, ReadOf, WritersStillNone, WalkedOf
<1> QED BY <1>2, <1>3, <1>4, <1>5 DEF GateInv

\* What others do to the cluster around the gate.
LEMMA GateOutside ==
    ASSUME IInv, XrdWithin, GateInv, [Next]_vars,
           NEW new \in SUBSET Objects, gate' = [gate EXCEPT !.since = @ \cup new],
           gate.step # "idle" => mig' = mig /\ ret' = ret,
           gate.step # "idle" => \A o \in Objects \ new : Exists(o)' =>
                \/ collectWriters(o, gate.version)' = {}
                \/ Exists(o) /\ collectWriters(o, gate.version)' \subseteq collectWriters(o, gate.version)
    PROVE  GateInv'
<1>0. GateTypeOK /\ ClusterTypeOK /\ IInv'
  BY NextTyped, StutterTyped DEF GateInv, IInv, Typed
<1>1. /\ gate'.step = gate.step /\ gate'.version = gate.version /\ gate'.hub = gate.hub
      /\ gate'.left = gate.left /\ gate'.stored = gate.stored /\ gate'.writers = gate.writers
      /\ gate'.total = gate.total /\ gate'.truncated = gate.truncated
      /\ gate'.unreadable = gate.unreadable /\ gate'.since = gate.since \cup new
  BY <1>0 DEF GateTypeOK
<1>2. /\ xrd'.hub >= xrd.hub
      /\ \A c \in CRDs : /\ crd'[c].versions \subseteq crd[c].versions
                         /\ crd'[c].stored \subseteq crd[c].stored \cup {xrd.hub}
  BY ClusterStep
<1>3. GateTypeOK'
  BY <1>0 DEF GateTypeOK
<1>4. GateAlone'
  BY <1>1 DEF GateInv, GateAlone
<1>5. xrd.hub \in Nat /\ xrd'.hub \in Nat /\ gate.hub \in Nat /\ gate.version \in Nat
  <2>1. xrd.hub \in Versions /\ xrd'.hub \in Versions /\ gate.hub \in Versions
        /\ gate.version \in Versions
    BY <1>0 DEF IInv, Typed, ClusterTypeOK, GateTypeOK
  <2> QED BY <2>1, VersionFacts
<1>6. GateBounds'
  BY <1>1, <1>2, <1>5 DEF GateInv, GateBounds, GateRunning
<1>7. StoredStillUnused'
  <2> SUFFICES ASSUME gate.version < gate.hub, ~gate.stored, NEW c \in CRDs, ReadOf(c),
                      gate.version \in crd'[c].stored
               PROVE  FALSE
    BY <1>1 DEF StoredStillUnused, ReadOf
  <2>1. gate.version \notin crd[c].stored
    BY DEF GateInv, StoredStillUnused
  <2>2. gate.version # xrd.hub
    BY <1>5 DEF GateInv, GateBounds
  <2> QED BY <1>2, <2>1, <2>2
<1>8. WritersStillNone'
  <2> SUFFICES ASSUME ~gate.truncated, ~gate.unreadable, gate.writers = {},
                      NEW o \in Objects, o \notin gate.since, o \notin new, WalkedOf(CrdOf(o)),
                      Exists(o)', gate.version \in crd'[CrdOf(o)].versions
               PROVE  collectWriters(o, gate.version)' = {}
    BY <1>1 DEF WritersStillNone, WalkedOf, Unwritten, collectWriters
  <2>1. gate.step # "idle" /\ gate.version \in crd[CrdOf(o)].versions
    BY <1>2, VersionFacts DEF WalkedOf
  <2>2. Unwritten(o)
    BY DEF GateInv, WritersStillNone
  <2> QED BY <2>1, <2>2 DEF Unwritten
<1> QED BY <1>3, <1>4, <1>6, <1>7, <1>8 DEF GateInv

\* The rest of the system while the gate stands, or rests.
LEMMA GateSame ==
    ASSUME IInv, XrdWithin, GateInv, [Next]_vars, gate' = gate,
           gate.step # "idle" => mig' = mig /\ ret' = ret,
           gate.step # "idle" =>
                \A o \in Objects : Exists(o)' => Exists(o) /\ obj'[o].wrote = obj[o].wrote
    PROVE  GateInv'
<1>1. gate.since \in SUBSET Objects /\ gate' = [gate EXCEPT !.since = @ \cup gate.since]
  BY DEF GateInv, GateTypeOK
<1>2. gate.step # "idle" => \A o \in Objects \ gate.since : Exists(o)' =>
         \/ collectWriters(o, gate.version)' = {}
         \/ Exists(o) /\ collectWriters(o, gate.version)' \subseteq collectWriters(o, gate.version)
  BY DEF collectWriters
<1> QED BY <1>1, <1>2, GateOutside

\* A client or Crossplane writes an object: only a write at the gate's version
\* makes a new writer, and the gate takes note of it.
LEMMA GateWrite ==
    ASSUME IInv, XrdWithin, GateInv, Next, UNCHANGED <<mig, ret>>,
           NEW o \in Objects, NEW m \in AllManagers, NEW v \in Versions,
           obj'[o].wrote[m] = v,
           \A n \in AllManagers \ {m} : obj'[o].wrote[n] \in {None, obj[o].wrote[n]},
           Exists(o) \/ \A n \in AllManagers \ {m} : obj'[o].wrote[n] = None,
           \A p \in Objects \ {o} : obj'[p] = obj[p],
           gate' = IF gate.step # "idle" /\ v = gate.version THEN [gate EXCEPT !.since = @ \cup {o}]
                   ELSE gate
    PROVE  GateInv'
<1>1. GateTypeOK /\ gate.version # None
  BY VersionFacts DEF GateInv, GateTypeOK
<1>2. CASE gate.step # "idle" /\ v = gate.version
  <2>1. \A p \in Objects \ {o} : Exists(p)' =>
          Exists(p) /\ collectWriters(p, gate.version)' \subseteq collectWriters(p, gate.version)
    <3>1. gate'.version = gate.version
      BY <1>1, <1>2 DEF GateTypeOK
    <3> QED BY <3>1 DEF collectWriters, Exists
  <2>2. {o} \in SUBSET Objects /\ gate' = [gate EXCEPT !.since = @ \cup {o}]
    BY <1>2
  <2> QED BY <2>1, <2>2, GateOutside
<1>3. CASE gate.step = "idle"
  BY <1>3, GateSame
<1>4. CASE gate.step # "idle" /\ v # gate.version
  <2>1. /\ gate.since \in SUBSET Objects
        /\ gate' = gate /\ gate' = [gate EXCEPT !.since = @ \cup gate.since]
    BY <1>1, <1>4 DEF GateTypeOK
  <2>2. \A p \in Objects \ gate.since : Exists(p)' =>
          \/ collectWriters(p, gate.version)' = {}
          \/ Exists(p) /\ collectWriters(p, gate.version)' \subseteq collectWriters(p, gate.version)
    <3> TAKE p \in Objects \ gate.since
    <3> HAVE Exists(p)'
    <3>1. CASE p # o
      BY <2>1, <3>1 DEF collectWriters, Exists
    <3>2. CASE p = o /\ Exists(o)
      BY <1>1, <1>4, <2>1, <3>2 DEF collectWriters
    <3>3. CASE p = o /\ ~Exists(o)
      BY <1>1, <1>4, <2>1, <3>3 DEF collectWriters
    <3> QED BY <3>1, <3>2, <3>3
  <2> QED BY <2>1, <2>2, GateOutside
<1> QED BY <1>2, <1>3, <1>4

\* Reading storedVersions of one CRD, or failing to.
LEMMA GateReads ==
    ASSUME IInv, GateInv, storedVersions, UNCHANGED <<mig, ret>>
    PROVE  GateInv'
<1> DEFINE c == FirstOf(gate.left)
<1>0. GateTypeOK /\ gate.step = "stored" /\ UNCHANGED clusterVars
  BY DEF GateInv, storedVersions
<1>1. CASE gate' = GateBegin("error", gate.version, gate.hub)
  <2>1. gate.version \in Versions /\ gate.hub \in Versions
    BY <1>0 DEF GateTypeOK
  <2>2. gate.hub <= xrd'.hub
    BY <1>0 DEF GateInv, GateBounds, clusterVars
  <2>3. mig'.step = "idle" /\ ret'.step = "idle"
    BY <1>0 DEF GateInv, GateAlone
  <2> QED BY <1>1, <2>1, <2>2, <2>3, GateBegins
<1>2. CASE gate' = [gate EXCEPT
             !.stored = @ \/ gate.version \in crd[c].stored,
             !.step = IF gate.left = {c} THEN "walk" ELSE "stored",
             !.left = IF gate.left = {c} THEN CRDs ELSE @ \ {c}]
  <2>1. /\ gate'.version = gate.version /\ gate'.hub = gate.hub
        /\ gate'.writers = gate.writers /\ gate'.total = gate.total
        /\ gate'.truncated = gate.truncated /\ gate'.unreadable = gate.unreadable
        /\ gate'.since = gate.since
        /\ gate'.step = IF gate.left = {c} THEN "walk" ELSE "stored"
        /\ gate'.left = IF gate.left = {c} THEN CRDs ELSE gate.left \ {c}
    BY <1>0, <1>2 DEF GateTypeOK
  <2>2. gate'.stored = (gate.stored \/ gate.version \in crd[c].stored)
    BY <1>0, <1>2, Zenon DEF GateTypeOK
  <2>3. GateTypeOK'
    BY <1>0, <1>2 DEF GateTypeOK
  <2>4. gate.left \subseteq CRDs /\ gate.left # {} /\ c \in gate.left /\ c \in CRDs
    BY <1>0, FirstOfLeft DEF GateTypeOK, GateInv, GateBounds, GateRunning
  <2> HIDE DEF c
  <2>5. GateAlone'
    BY <1>0 DEF GateInv, GateAlone
  <2>6. GateBounds'
    BY <1>0, <2>1, <2>4 DEF GateInv, GateBounds, GateRunning, clusterVars
  <2>7. StoredStillUnused'
    <3> SUFFICES ASSUME gate.version < gate.hub, ~gate'.stored, NEW d \in CRDs, ReadOf(d)'
                 PROVE  gate.version \notin crd[d].stored
      BY <1>0, <2>1 DEF StoredStillUnused, clusterVars
    <3>1. ~gate.stored /\ gate.version \notin crd[c].stored
      BY <2>2
    <3>2. d = c \/ ReadOf(d)
      BY <1>0, <2>1 DEF ReadOf
    <3>3. ReadOf(d) => gate.version \notin crd[d].stored
      BY <3>1 DEF GateInv, StoredStillUnused
    <3> QED BY <3>1, <3>2, <3>3
  <2>8. WritersStillNone'
    BY <2>1, VersionFacts DEF WritersStillNone, WalkedOf
  <2> QED BY <2>3, <2>5, <2>6, <2>7, <2>8 DEF GateInv
<1> QED BY <1>1, <1>2 DEF storedVersions

\* Walking one CRD's objects: a walk that was not cut short has seen them all.
LEMMA GateWalks ==
    ASSUME IInv, GateInv, walkObjects, UNCHANGED <<mig, ret>>
    PROVE  GateInv'
<1> DEFINE c == FirstOf(gate.left)
           listed == listAllByGVR(c, AllNamespaces)
           seen == InFlight(listed, MaxSamples - gate.total)
           total == gate.total + Cardinality(seen)
           walked == [gate EXCEPT
             !.writers = @ \cup UNION {collectWriters(o, gate.version) : o \in seen},
             !.total = total,
             !.truncated = seen # {} /\ total >= MaxSamples]
           failed == [gate EXCEPT !.unreadable = TRUE]
           last(g) == gate.left = {c} \/ g.truncated
<1>0. GateTypeOK /\ gate.step = "walk" /\ UNCHANGED clusterVars
  BY DEF GateInv, walkObjects
<1>1. PICK g : /\ \/ g = gate /\ gate.version \notin crd[c].versions
                  \/ g = walked
                  \/ g = failed
               /\ gate' = [g EXCEPT !.left = IF last(g) THEN {} ELSE @ \ {c},
                                    !.step = IF last(g) THEN "done" ELSE "walk"]
  BY DEF walkObjects
<1>2. gate.left \subseteq CRDs /\ gate.left # {} /\ c \in gate.left /\ c \in CRDs
  BY <1>0, FirstOfLeft DEF GateTypeOK, GateInv, GateBounds, GateRunning
<1>3. /\ listed \subseteq Objects
      /\ \A o \in Objects : o \in listed <=> CrdOf(o) = c /\ Exists(o)
  BY DEF listAllByGVR
<1>4. gate.total \in Nat /\ gate.total < MaxSamples /\ ~gate.truncated
      /\ MaxSamples - gate.total \in Nat /\ MaxSamples \in Nat
  BY <1>0, ObjectsAssumed DEF GateTypeOK, GateInv, GateBounds, GateRunning
<1>5. seen \subseteq listed /\ IsFiniteSet(seen) /\ Cardinality(seen) \in Nat
  BY <1>3, ObjectsAssumed, FS_Subset, FS_CardinalityType DEF InFlight
<1>6. total \in Nat /\ (total < MaxSamples => seen = listed)
  <2>1. total \in Nat
    BY <1>4, <1>5
  <2>2. ASSUME total < MaxSamples PROVE seen = listed
    <3>1. Cardinality(seen) < MaxSamples - gate.total
      BY <1>4, <1>5, <2>2
    <3> QED BY <1>3, <1>4, <3>1, BoundNotHit
  <2> QED BY <2>1, <2>2
<1>7. UNION {collectWriters(o, gate.version) : o \in seen} \subseteq AllManagers
  BY DEF collectWriters
<1> HIDE DEF seen, total, listed, c
<1>8. /\ g.step = gate.step /\ g.version = gate.version /\ g.hub = gate.hub
      /\ g.left = gate.left /\ g.stored = gate.stored /\ g.since = gate.since
      /\ g \in [step : {"idle", "stored", "walk", "done", "error"}, version : Versions,
                hub : Versions, left : SUBSET CRDs, stored : BOOLEAN,
                writers : SUBSET AllManagers, total : Nat, truncated : BOOLEAN,
                unreadable : BOOLEAN, since : SUBSET Objects]
  <2>1. CASE g = walked
    BY <1>0, <1>6, <1>7, <2>1 DEF GateTypeOK
  <2>2. CASE g = failed
    BY <1>0, <2>2 DEF GateTypeOK
  <2>3. CASE g = gate
    BY <1>0, <2>3 DEF GateTypeOK
  <2> QED BY <1>1, <2>1, <2>2, <2>3
<1>9. (g = walked /\ ~g.truncated) => total < MaxSamples /\ seen = listed
  <2> SUFFICES ASSUME g = walked, ~g.truncated PROVE total < MaxSamples /\ seen = listed
    OBVIOUS
  <2>1. ~(seen # {} /\ total >= MaxSamples)
    <3>1. walked.truncated = (seen # {} /\ total >= MaxSamples)
      BY <1>0, Zenon DEF GateTypeOK
    <3> QED BY <3>1
  <2>2. CASE seen = {}
    <3>1. total = gate.total
      BY <1>4, <2>2, FS_EmptySet DEF total
    <3> QED BY <1>4, <1>6, <3>1
  <2>3. CASE ~(total >= MaxSamples)
    BY <1>4, <1>6, <2>3
  <2> QED BY <2>1, <2>2, <2>3
<1>10. ~g.truncated => g.total < MaxSamples
  <2>1. CASE g = walked
    BY <1>0, <1>9, <2>1 DEF GateTypeOK
  <2>2. CASE g = failed \/ g = gate
    BY <1>0, <1>4, <2>2 DEF GateTypeOK
  <2> QED BY <1>1, <2>1, <2>2
<1>11. ~g.truncated /\ ~g.unreadable /\ g.writers = {} =>
          /\ ~gate.unreadable /\ gate.writers = {}
          /\ \A o \in Objects : CrdOf(o) = c => Unwritten(o)
  <2> SUFFICES ASSUME ~g.truncated, ~g.unreadable, g.writers = {}
               PROVE  /\ ~gate.unreadable /\ gate.writers = {}
                      /\ \A o \in Objects : CrdOf(o) = c => Unwritten(o)
    OBVIOUS
  <2>1. CASE g = gate /\ gate.version \notin crd[c].versions
    BY <2>1 DEF Unwritten
  <2>2. CASE g = walked
    <3>1. g.unreadable = gate.unreadable
          /\ g.writers = gate.writers \cup UNION {collectWriters(o, gate.version) : o \in seen}
      BY <1>0, <2>2 DEF GateTypeOK
    <3>2. gate.writers = {} /\ \A o \in seen : collectWriters(o, gate.version) = {}
      BY <3>1
    <3> QED BY <1>3, <1>9, <2>2, <3>1, <3>2 DEF Unwritten
  <2>3. g # failed
    BY <1>0 DEF GateTypeOK
  <2> QED BY <1>1, <2>1, <2>2, <2>3
<1> HIDE DEF walked, failed
<1>12. /\ gate'.version = gate.version /\ gate'.hub = gate.hub /\ gate'.stored = gate.stored
       /\ gate'.since = gate.since /\ gate'.writers = g.writers /\ gate'.total = g.total
       /\ gate'.truncated = g.truncated /\ gate'.unreadable = g.unreadable
       /\ gate'.left = (IF last(g) THEN {} ELSE gate.left \ {c})
       /\ gate'.step = (IF last(g) THEN "done" ELSE "walk")
       /\ GateTypeOK'
  <2>1. gate.left \ {c} \in SUBSET CRDs
    BY <1>2
  <2>2. CASE last(g)
    BY <1>1, <1>8, <2>2 DEF GateTypeOK
  <2>3. CASE ~last(g)
    BY <1>1, <1>8, <2>1, <2>3 DEF GateTypeOK
  <2> QED BY <2>2, <2>3
<1>13. GateAlone'
  BY <1>0 DEF GateInv, GateAlone
<1>14. GateBounds'
  BY <1>0, <1>2, <1>10, <1>12 DEF GateInv, GateBounds, GateRunning, clusterVars
<1>15. StoredStillUnused'
  BY <1>0, <1>12 DEF GateInv, StoredStillUnused, ReadOf, clusterVars
<1>16. WritersStillNone'
  <2> SUFFICES ASSUME ~g.truncated, ~g.unreadable, g.writers = {},
                      NEW o \in Objects, o \notin gate.since, WalkedOf(CrdOf(o))'
               PROVE  Unwritten(o)
    BY <1>0, <1>12 DEF WritersStillNone, Unwritten, collectWriters, Exists, clusterVars
  <2>1. CASE CrdOf(o) = c
    BY <1>11, <2>1
  <2>2. CASE CrdOf(o) # c
    <3>1. CrdOf(o) \notin gate.left
      BY <1>12, <2>2 DEF WalkedOf
    <3> QED BY <1>0, <1>4, <1>11, <3>1 DEF GateInv, WritersStillNone, WalkedOf
  <2> QED BY <2>1, <2>2
<1> QED BY <1>12, <1>13, <1>14, <1>15, <1>16 DEF GateInv

\* What a write leaves of the record of writers.
LEMMA CreatedWrote ==
    ASSUME NEW m \in AllManagers, NEW v \in Versions, NEW s \in Versions
    PROVE  /\ Created(m, v, s).wrote[m] = v
           /\ \A n \in AllManagers \ {m} : Created(m, v, s).wrote[n] = None
BY DEF Created, Absent

LEMMA PersistedWrote ==
    ASSUME NEW o \in Objects, NEW x \in ObjectType, NEW m \in AllManagers, NEW v \in Versions
    PROVE  /\ Persisted(o, x, m, v).wrote[m] = v
           /\ \A n \in AllManagers \ {m} : Persisted(o, x, m, v).wrote[n] = x.wrote[n]
BY DEF Persisted, ObjectType

\* Clients and Crossplane write an object under the gate.
LEMMA GateSeesWrites ==
    ASSUME IInv, XrdWithin, GateInv, Next, UNCHANGED <<mig, ret>>, NEW o \in Objects,
           NEW m \in AllManagers, NEW v \in Versions,
           \/ m \in Managers /\ (CreateObject(o, m, v) \/ WriteObject(o, m, v))
           \/ m = "crossplane" /\ v = xrd.hub /\ SelectComposition(o),
           gate' = IF gate.step # "idle" /\ v = gate.version
                   THEN [gate EXCEPT !.since = @ \cup {o}] ELSE gate
    PROVE  GateInv'
<1>0. ClusterTypeOK /\ obj \in [Objects -> ObjectType] /\ obj[o] \in ObjectType
      /\ crd[CrdOf(o)].storage \in Versions
  BY VersionFacts DEF IInv, Typed, ClusterTypeOK
<1>1. CASE CreateObject(o, m, v)
  <2> DEFINE y == Created(m, v, crd[CrdOf(o)].storage)
  <2>1. obj' = [obj EXCEPT ![o] = y]
    BY <1>1 DEF CreateObject
  <2>2. y.wrote[m] = v /\ \A n \in AllManagers \ {m} : y.wrote[n] = None
    BY <1>0, CreatedWrote
  <2> HIDE DEF y
  <2>3. obj'[o] = y /\ \A p \in Objects \ {o} : obj'[p] = obj[p]
    BY <1>0, <2>1
  <2> QED BY <2>2, <2>3, GateWrite
<1>2. CASE WriteObject(o, m, v)
  <2> DEFINE y == Persisted(o, obj[o], m, v)
  <2>1. obj' = [obj EXCEPT ![o] = y] /\ Exists(o)
    BY <1>2 DEF WriteObject
  <2>2. y.wrote[m] = v /\ \A n \in AllManagers \ {m} : y.wrote[n] = obj[o].wrote[n]
    BY <1>0, PersistedWrote
  <2> HIDE DEF y
  <2>3. obj'[o] = y /\ \A p \in Objects \ {o} : obj'[p] = obj[p]
    BY <1>0, <2>1
  <2> QED BY <2>1, <2>2, <2>3, GateWrite
<1>3. CASE m = "crossplane" /\ v = xrd.hub /\ SelectComposition(o)
  <2> DEFINE x == [obj[o] EXCEPT !.pin = obj[o].selector]
             y == Persisted(o, x, m, v)
  <2>1. x \in ObjectType /\ x.wrote = obj[o].wrote
    BY <1>0 DEF ObjectType
  <2>2. obj' = [obj EXCEPT ![o] = y] /\ Exists(o)
    BY <1>3 DEF SelectComposition
  <2> HIDE DEF x
  <2>3. y.wrote[m] = v /\ \A n \in AllManagers \ {m} : y.wrote[n] = obj[o].wrote[n]
    BY <2>1, PersistedWrote
  <2> HIDE DEF y
  <2>4. obj'[o] = y /\ \A p \in Objects \ {o} : obj'[p] = obj[p]
    BY <1>0, <2>2
  <2> QED BY <2>2, <2>3, <2>4, GateWrite
<1> QED BY <1>1, <1>2, <1>3

LEMMA GateNext ==
    ASSUME IInv, XrdWithin, GateInv, [Next]_vars
    PROVE  GateInv'
<1>0. GateTypeOK /\ ClusterTypeOK /\ xrd.hub \in Versions
  BY DEF GateInv, IInv, Typed, ClusterTypeOK
<1>1. CASE UNCHANGED vars
  BY <1>1, GateSame DEF vars, clusterVars, Exists
<1>2. CASE RunCommand
  <2>1. CASE gate' = GateIdle /\ UNCHANGED clusterVars
    <3>1. 1 \in Versions /\ 1 <= xrd'.hub
      BY <1>0, <2>1, VersionFacts DEF clusterVars, Versions
    <3>2. gate' = GateBegin("idle", 1, 1)
      BY <2>1 DEF GateIdle
    <3> QED BY <3>1, <3>2, GateBegins
  <2>2. ASSUME NEW v \in Versions, NEW h \in Versions, StartGate(v, h),
               mig' = MigrateIdle, ret' = RetargetIdle
        PROVE  GateInv'
    <3>1. mig'.step = "idle" /\ ret'.step = "idle"
      BY <2>2, IdleTyped DEF MigrateBegin, RetargetBegin
    <3>2. gate' = GateBegin("stored", v, h) /\ h <= xrd'.hub
      BY <2>2 DEF StartGate, clusterVars
    <3> QED BY <3>1, <3>2, GateBegins
  <2>3. UNCHANGED clusterVars
    BY <1>2 DEF RunCommand, StartMigrate, StartRetarget, StartGate
  <2> QED BY <1>2, <2>1, <2>2, <2>3 DEF RunCommand
<1>3. CASE gate' = gate /\ (MigrateStep \/ RetargetStep \/ Kill)
  <2>1. mig.step # "idle" \/ ret.step # "idle"
    BY <1>3 DEF MigrateStep, resolveMigrateTargets, listTarget, migrateOne, targetDone,
       pruneStoredVersions, RetargetStep, ListRetarget, retargetOne, RetargetDone, Kill,
       KillMigrate, MigrateFail, MigrateRunning
  <2>2. gate.step = "idle"
    BY <2>1 DEF GateInv, GateAlone
  <2> QED BY <1>3, <2>2, GateSame
<1>4. CASE GateStep /\ UNCHANGED <<mig, ret>>
  BY <1>4, GateReads, GateWalks DEF GateStep
<1>5. CASE Client
  <2>1. PICK o \in Objects :
           \/ \E m \in Managers, v \in Versions :
                 /\ CreateObject(o, m, v) \/ WriteObject(o, m, v)
                 /\ gate' = IF gate.step # "idle" /\ v = gate.version
                            THEN [gate EXCEPT !.since = @ \cup {o}] ELSE gate
                 /\ UNCHANGED ret
           \/ /\ DeleteObject(o)
              /\ ret' = IF ret.step = "idle" THEN ret ELSE [ret EXCEPT !.deleted = @ \cup {o}]
              /\ UNCHANGED gate
    BY <1>5 DEF Client
  <2>2. mig' = mig /\ Next
    BY <1>5 DEF Client, Next
  <2>3. CASE DeleteObject(o) /\ UNCHANGED gate
             /\ ret' = IF ret.step = "idle" THEN ret ELSE [ret EXCEPT !.deleted = @ \cup {o}]
    <3>1. gate.step # "idle" => ret' = ret
      BY <2>3 DEF GateInv, GateAlone
    <3>2. \A p \in Objects : Exists(p)' => Exists(p) /\ obj'[p].wrote = obj[p].wrote
      BY <1>0, <2>3 DEF DeleteObject, Exists, Absent, ClusterTypeOK
    <3> QED BY <2>2, <2>3, <3>1, <3>2, GateSame
  <2>4. ASSUME NEW m \in Managers, NEW v \in Versions,
               CreateObject(o, m, v) \/ WriteObject(o, m, v), UNCHANGED ret,
               gate' = IF gate.step # "idle" /\ v = gate.version
                       THEN [gate EXCEPT !.since = @ \cup {o}] ELSE gate
        PROVE  GateInv'
    <3>1. m \in AllManagers
      BY DEF AllManagers
    <3> QED BY <2>2, <2>4, <3>1, GateSeesWrites
  <2> QED BY <2>1, <2>3, <2>4
<1>6. CASE Author \/ ((\E c \in CRDs : Render(c)) /\ UNCHANGED <<mig, ret, gate>>)
  <2>1. UNCHANGED <<mig, ret, gate, obj>>
    BY <1>6 DEF Author, Promote, DropVersion, Render
  <2> QED BY <2>1, GateSame DEF Exists
<1>7. ASSUME NEW o \in Objects, SelectComposition(o), Next, UNCHANGED <<mig, ret>>,
             gate' = IF gate.step # "idle" /\ xrd.hub = gate.version
                     THEN [gate EXCEPT !.since = @ \cup {o}] ELSE gate
      PROVE  GateInv'
  <2>1. "crossplane" \in AllManagers
    BY DEF AllManagers
  <2> QED BY <1>0, <1>7, <2>1, GateSeesWrites
<1>8. CASE Crossplane
  BY <1>6, <1>7, <1>8 DEF Crossplane, Next
<1> QED BY <1>1, <1>2, <1>3, <1>4, <1>5, <1>6, <1>8 DEF Next, CommandStep, Kill

LEMMA GateAlways == Spec => []GateInv
<1>1. Init => GateInv
  <2> SUFFICES ASSUME Init PROVE GateInv
    OBVIOUS
  <2>1. /\ gate.step = "idle" /\ gate.version = 1 /\ gate.hub = 1 /\ xrd.hub = 1 /\ GateTypeOK
    BY VersionFacts DEF Init, GateIdle, GateBegin, ClusterInit, GateTypeOK
  <2> QED BY <2>1 DEF GateInv, GateAlone, GateBounds, GateRunning, StoredStillUnused, ReadOf,
     WritersStillNone, WalkedOf
<1>2. IInv /\ XrdWithin /\ GateInv /\ [Next]_vars => GateInv'
  BY GateNext
<1> QED BY <1>1, <1>2, Invariance, WithinAlways, PTL DEF Spec

\* When versions --check-unserve passes a version older than the hub of its
\* XRD file, no CRD lists it as stored and no manager's last write of a live
\* object was at it, but for writes made after the gate started, for any number
\* of objects and any --max-samples (UnserveBlockers, walkObjects).
THEOREM PassIsUnused == Spec => []PassMeansUnused
<1>1. GateInv => PassMeansUnused
  <2> SUFFICES ASSUME GateInv, gate.step = "done", UnserveBlockers = {},
                      gate.version < gate.hub
               PROVE  /\ \A c \in CRDs : gate.version \notin crd[c].stored
                      /\ \A o \in Objects \ gate.since : Unwritten(o)
    BY DEF PassMeansUnused, GatePasses, Unwritten
  <2>1. ~gate.stored /\ gate.writers = {} /\ ~gate.unreadable /\ ~gate.truncated
    BY DEF UnserveBlockers
  <2> QED BY <2>1 DEF GateInv, StoredStillUnused, ReadOf, WritersStillNone, WalkedOf
<1> QED BY <1>1, GateAlways, PTL

-----------------------------------------------------------------------------
Counted == commands \in Nat /\ clientOps \in Nat

\* The cluster and the reports of the three commands keep their types
\* whatever happens between two API calls (RunMigrateStorage, RunRetarget,
\* walkObjects).
THEOREM TypeCorrect == Spec => []TypeOK
<1>1. Init => Counted
  BY DEF Init, Counted
<1>2. Counted /\ [Next]_vars => Counted'
  BY DEF Counted, vars, Next, RunCommand, CommandStep, Kill, Client, Author, Crossplane
<1>3. IInv /\ GateInv /\ Counted => TypeOK
  BY DEF IInv, Typed, GateInv, Counted, TypeOK
<1> QED BY <1>1, <1>2, <1>3, Invariance, GateAlways, PTL DEF Spec
=============================================================================
