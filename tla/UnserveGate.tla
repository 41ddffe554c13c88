------------------------------ MODULE UnserveGate ------------------------------
(***************************************************************************)
(* convctl versions --check-unserve (internal/cli/versions.go): whether a  *)
(* version may stop being served.  The hub comes from a local XRD file,    *)
(* which may be older than the cluster; storedVersions of each generated   *)
(* CRD, then the objects listed at the version, come from the cluster.     *)
(* The rows of the other versions do not enter the verdict.                *)
(***************************************************************************)
EXTENDS StoredObjects

CONSTANTS MaxSamples   \* --max-samples: bound on the object walk

VARIABLE gate

(* since (auxiliary): objects written at the version since the gate started. *)
GateTypeOK ==
    gate \in [step       : {"idle", "stored", "walk", "done", "error"},
              version    : Versions,
              hub        : Versions,
              left       : SUBSET CRDs,
              stored     : BOOLEAN,
              writers    : SUBSET AllManagers,
              total      : Nat,
              truncated  : BOOLEAN,
              unreadable : BOOLEAN,
              since      : SUBSET Objects]

GateBegin(step, v, hub) ==
    [step |-> step, version |-> v, hub |-> hub, left |-> CRDs, stored |-> FALSE,
     writers |-> {}, total |-> 0, truncated |-> FALSE, unreadable |-> FALSE, since |-> {}]

GateIdle == GateBegin("idle", 1, 1)

GateRunning == gate.step \in {"stored", "walk"}

(* LoadXRD: the file is the XRD as it was applied at some time. *)
StartGate(v, fileHub) ==
    /\ ~GateRunning
    /\ fileHub <= xrd.hub
    /\ gate' = GateBegin("stored", v, fileHub)
    /\ UNCHANGED clusterVars

(* storedVersions: a CRD that cannot be read is an error, never an empty list. *)
(* (One that is not rendered yet contributes nothing; here both are rendered,  *)
(* and one that is not has no objects either.)                                 *)
storedVersions ==
    LET c == FirstOf(gate.left) IN
    /\ gate.step = "stored"
    /\ \/ gate' = GateBegin("error", gate.version, gate.hub)
       \/ gate' = [gate EXCEPT
             !.stored = @ \/ gate.version \in crd[c].stored,
             !.step = IF gate.left = {c} THEN "walk" ELSE "stored",
             !.left = IF gate.left = {c} THEN CRDs ELSE @ \ {c}]
    /\ UNCHANGED clusterVars

(* collectWriters: the managers whose last write of o was at version v. *)
collectWriters(o, v) == {m \in AllManagers : obj[o].wrote[m] = v}

(* walkObjects: one CRD's objects, in listing order, until the bound.  A     *)
(* version the CRD does not serve has no objects to list; any other failure  *)
(* is recorded, never taken for an empty list.                               *)
walkObjects ==
    LET c == FirstOf(gate.left)
        listed == listAllByGVR(c, AllNamespaces)
        seen == InFlight(listed, MaxSamples - gate.total)
        total == gate.total + Cardinality(seen)
        walked == [gate EXCEPT
             !.writers = @ \cup UNION {collectWriters(o, gate.version) : o \in seen},
             !.total = total,
             !.truncated = seen # {} /\ total >= MaxSamples]
        read == CASE gate.version \notin crd[c].versions -> {gate}
                  [] OTHER -> {walked, [gate EXCEPT !.unreadable = TRUE]}
    IN
    /\ gate.step = "walk"
    /\ \E g \in read :
         LET last == gate.left = {c} \/ g.truncated IN
         gate' = [g EXCEPT !.left = IF last THEN {} ELSE @ \ {c},
                           !.step = IF last THEN "done" ELSE "walk"]
    /\ UNCHANGED clusterVars

(* Mutant: a list that failed is taken for an empty one. *)
BlockersFromCounts ==
    {b \in {"hub", "stored", "writers", "truncated"} :
        \/ b = "hub" /\ gate.hub = gate.version
        \/ b = "stored" /\ gate.stored
        \/ b = "writers" /\ gate.writers # {}
        \/ b = "truncated" /\ gate.truncated}

UnserveBlockers ==
    {b \in {"hub", "stored", "writers", "unreadable", "truncated"} :
        \/ b = "hub" /\ gate.hub = gate.version
        \/ b = "stored" /\ gate.stored
        \/ b = "writers" /\ gate.writers # {}
        \/ b = "unreadable" /\ gate.unreadable
        \/ b = "truncated" /\ gate.truncated}

GateStep == storedVersions \/ walkObjects

GatePasses == gate.step = "done" /\ UnserveBlockers = {}

-----------------------------------------------------------------------------
(* The gate passes a retired version only if no CRD lists it as stored and   *)
(* no manager's last write of a live object was at it, other than writes     *)
(* made while the gate was looking (UnserveBlockers, walkObjects).           *)
PassMeansUnused ==
    GatePasses /\ gate.version < gate.hub =>
        /\ \A c \in CRDs : gate.version \notin crd[c].stored
        /\ \A o \in Objects \ gate.since :
              Exists(o) /\ gate.version \in crd[CrdOf(o)].versions
                  => collectWriters(o, gate.version) = {}
=============================================================================
