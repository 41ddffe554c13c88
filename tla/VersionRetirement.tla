---------------------------- MODULE VersionRetirement ----------------------------
(***************************************************************************)
(* The commands that take a version out of use, composed over one cluster: *)
(* retarget moves the objects to the new hub's Compositions, migrate-      *)
(* storage rewrites them and prunes storedVersions, versions               *)
(* --check-unserve says when the old version is unused.  Clients, the XRD's *)
(* author and Crossplane act between any two API calls of a command.  One  *)
(* operator runs the commands, one at a time.                              *)
(***************************************************************************)
EXTENDS MigrateStorage, Retarget, UnserveGate

CONSTANTS
    MaxCommands,    \* bound on the commands run
    MaxClientOps    \* bound on creates, writes and deletes by clients

VARIABLES commands, clientOps

vars == <<clusterVars, mig, ret, gate, commands, clientOps>>

ASSUME RetirementConstants ==
    /\ MaxVersion \in Nat \ {0}
    /\ MaxCommands \in Nat /\ MaxClientOps \in Nat /\ MaxSamples \in Nat \ {0}
    /\ IsFiniteSet(Objects)
    /\ Composites \cap Claims = {}
    /\ \A o, p \in Objects : Rank[o] \in Nat /\ (Rank[o] = Rank[p] => o = p)
    /\ \A o \in Composites, p \in Claims : Rank[o] < Rank[p]
    /\ MigrateOptions \subseteq MigrateOptionType /\ MigrateOptions # {}
    /\ RetargetOptions \subseteq RetargetOptionType /\ RetargetOptions # {}
    /\ AllNamespaces \notin Namespaces /\ NsOf \in [Claims -> Namespaces]

TypeOK ==
    /\ ClusterTypeOK /\ MigrateTypeOK /\ RetargetTypeOK /\ GateTypeOK
    /\ commands \in Nat /\ clientOps \in Nat

Init ==
    /\ ClusterInit
    /\ mig = MigrateIdle /\ ret = RetargetIdle /\ gate = GateIdle
    /\ commands = 0 /\ clientOps = 0

Free == ~MigrateRunning /\ ~RetargetRunning /\ ~GateRunning

(* The operator has read the last command's report before the next one. *)
RunCommand ==
    /\ Free /\ commands < MaxCommands /\ commands' = commands + 1
    /\ \/ /\ \E opts \in MigrateOptions : StartMigrate(opts)
          /\ ret' = RetargetIdle /\ gate' = GateIdle
       \/ /\ \E opts \in RetargetOptions : StartRetarget(opts)
          /\ mig' = MigrateIdle /\ gate' = GateIdle
       \/ /\ \E v, h \in Versions : StartGate(v, h)
          /\ mig' = MigrateIdle /\ ret' = RetargetIdle
    /\ UNCHANGED clientOps

CommandStep ==
    /\ \/ MigrateStep /\ UNCHANGED <<ret, gate>>
       \/ RetargetStep /\ UNCHANGED <<mig, gate>>
       \/ GateStep /\ UNCHANGED <<mig, ret>>
    /\ UNCHANGED <<commands, clientOps>>

Kill ==
    /\ KillMigrate
    /\ UNCHANGED <<ret, gate, commands, clientOps>>

Client ==
    /\ clientOps < MaxClientOps /\ clientOps' = clientOps + 1
    /\ \E o \in Objects :
         \/ \E m \in Managers, v \in Versions :
               /\ CreateObject(o, m, v) \/ WriteObject(o, m, v)
               /\ gate' = IF gate.step # "idle" /\ v = gate.version THEN [gate EXCEPT !.since = @ \cup {o}]
                          ELSE gate
               /\ UNCHANGED ret
         \/ /\ DeleteObject(o)
            /\ ret' = IF ret.step = "idle" THEN ret ELSE [ret EXCEPT !.deleted = @ \cup {o}]
            /\ UNCHANGED gate
    /\ UNCHANGED <<mig, commands>>

Author ==
    /\ Promote \/ \E v \in Versions : DropVersion(v)
    /\ UNCHANGED <<mig, ret, gate, commands, clientOps>>

Crossplane ==
    /\ \/ \E c \in CRDs : Render(c) /\ UNCHANGED gate
       \/ \E o \in Objects :
             /\ SelectComposition(o)
             /\ gate' = IF gate.step # "idle" /\ xrd.hub = gate.version
                        THEN [gate EXCEPT !.since = @ \cup {o}] ELSE gate
    /\ UNCHANGED <<mig, ret, commands, clientOps>>

Next == RunCommand \/ CommandStep \/ Kill \/ Client \/ Author \/ Crossplane

Spec == Init /\ [][Next]_vars

-----------------------------------------------------------------------------
\* The versions the objects of a CRD are stored at.
StoredAt(c) == {obj[o].stored : o \in {o \in Objects : CrdOf(o) = c /\ Exists(o)}}

Ledger == INSTANCE StorageLedger WITH
    Kinds <- CRDs, AllVersions <- Versions,
    recorded <- [c \in CRDs |-> crd[c].stored],
    present <- [c \in CRDs |-> StoredAt(c)],
    storage <- [c \in CRDs |-> crd[c].storage]

\* Under all three commands, their failures and everything clients, the author
\* and Crossplane do meanwhile, status.storedVersions is the ledger Kubernetes
\* means it to be: --prune-stored-versions never strikes off a version an
\* object is still stored at (RunMigrateStorage, pruneStoredVersions).
KeepsLedger == Ledger!Spec

-----------------------------------------------------------------------------
(***************************************************************************)
(* Why the prune is safe.  What is resolved for a CRD is at most its       *)
(* storage version, which only grows; an object the run has been through   *)
(* is stored at the resolved version or later; and no object is stored     *)
(* ahead of its CRD.  A prune that the API server takes finds the resolved *)
(* version still current, so every object is stored exactly there.         *)
(***************************************************************************)
StorageListed ==
    \A c \in CRDs : /\ crd[c].storage \in crd[c].stored /\ crd[c].storage <= xrd.hub
                    /\ crd[c].stored \subseteq crd[c].versions

NotAhead == \A o \in Objects : Exists(o) => obj[o].stored <= crd[CrdOf(o)].storage

Resolved(c) == c \in mig.opts.targets /\ (mig.step = "resolve" => c \notin mig.left)

Visited(o) ==
    /\ CrdOf(o) \in mig.opts.targets
    /\ \/ mig.step = "prune"
       \/ mig.step = "list" /\ CrdOf(o) \notin mig.left
       \/ mig.step = "apply" /\ (CrdOf(o) \notin mig.left \/ CrdOf(o) = Target) /\ o \notin mig.pending

PhaseOK ==
    /\ MigrateRunning => mig.left # {} /\ mig.left \subseteq mig.opts.targets
    /\ mig.step \in {"list", "apply", "prune"} => ~PruneRefused
    /\ mig.step = "apply" => \A o \in mig.pending : CrdOf(o) = Target
    /\ mig.step = "prune" => mig.opts.prune /\ ~mig.opts.dryRun /\ mig.failed = {}

TargetsBehind ==
    MigrateRunning => \A c \in CRDs : Resolved(c) => mig.target[c] <= crd[c].storage

VisitedRewritten ==
    MigrateRunning /\ mig.opts.prune /\ ~mig.opts.dryRun =>
        \A o \in Objects : Visited(o) /\ o \notin mig.failed => Rewritten(o)

\* status.storedVersions tells the truth about etcd at every moment, with the
\* facts about a run of migrate-storage that carry it through the prune
\* (RunMigrateStorage, pruneStoredVersions, resolveMigrateTargets).
PruneSafe ==
    /\ StoredRecorded /\ StorageListed /\ NotAhead
    /\ PhaseOK /\ TargetsBehind /\ VisitedRewritten
=============================================================================
