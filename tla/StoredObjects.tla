----------------------------- MODULE StoredObjects -----------------------------
(***************************************************************************)
(* What the live convctl commands see of a cluster: one XRD, the CRDs      *)
(* Crossplane renders from it (the composite and, on a claim-offering XRD, *)
(* the claim), and the objects etcd holds.  The API server, Crossplane and *)
(* the clients are external; their rules are the ones the code in          *)
(* internal/cli relies on:                                                 *)
(*  - a write persists the object at its CRD's storage version;            *)
(*  - status.storedVersions gains every storage version, never loses one   *)
(*    by itself, and must keep the current one;                            *)
(*  - a CRD cannot drop a version that storedVersions lists;               *)
(*  - managedFields records, per manager, the version it last wrote.       *)
(* Versions are numbered in the order they are promoted; a hub is never    *)
(* demoted.  A version is served as long as its block is declared.         *)
(***************************************************************************)
EXTENDS Naturals, FiniteSets

CONSTANTS
    Composites,   \* names of the composite objects
    Claims,       \* names of the claim objects
    Namespaces,   \* the namespaces claims may live in
    NsOf,         \* the namespace of each claim
    Rank,         \* the place of each object in a listing
    MaxVersion,   \* versions are 1 .. MaxVersion
    Managers      \* field managers other than convctl's own

Versions == 1 .. MaxVersion
None == 0

(* The CRDs generated from the XRD.  Every command visits them in this       *)
(* order: of the CRDs left to visit, the composite comes first.              *)
CRDs == {"composite", "claim"}
FirstOf(left) == IF "composite" \in left THEN "composite" ELSE "claim"
Namespaced(c) == c = "claim"

Objects == Composites \cup Claims
CrdOf(o) == IF o \in Claims THEN "claim" ELSE "composite"
AllManagers == Managers \cup {"convctl-retarget", "crossplane"}

VARIABLES
    xrd,   \* [hub, versions]: the referenceable version, the declared ones
    crd,   \* per CRD [storage, stored, versions]
    obj    \* per object [stored, pin, selector, wrote]; stored = None: absent

clusterVars == <<xrd, crd, obj>>

Exists(o) == obj[o].stored # None

(* The worker pool hands the listed objects out in order to n workers: an    *)
(* object is being worked on once fewer than n earlier ones are unfinished.  *)
InFlight(pending, n) ==
    {o \in pending : Cardinality({p \in pending : Rank[p] < Rank[o]}) < n}

(* effectiveConcurrency: at least one worker, whatever --concurrency says.   *)
effectiveConcurrency(concurrency) == IF concurrency <= 0 THEN 1 ELSE concurrency

(* listAllByGVR: every object of c, in one namespace when ns is given.       *)
AllNamespaces == "*"
listAllByGVR(c, ns) ==
    {o \in Objects : /\ CrdOf(o) = c /\ Exists(o)
                     /\ ns # AllNamespaces => NsOf[o] = ns}

(* crdStorageVersion: what etcd stores is the CRD's answer, not the XRD's. *)
crdStorageVersion(c) == crd[c].storage

Absent == [stored |-> None, pin |-> None, selector |-> None,
           wrote |-> [m \in AllManagers |-> None]]

(* An object manager m created through version v, stored at version s. *)
Created(m, v, s) ==
    [Absent EXCEPT !.stored = s, !.pin = 1, !.wrote[m] = v]

ObjectType ==
    [stored : Versions \cup {None}, pin : Versions \cup {None},
     selector : Versions \cup {None}, wrote : [AllManagers -> Versions \cup {None}]]

ClusterTypeOK ==
    /\ xrd \in [hub : Versions, versions : SUBSET Versions]
    /\ crd \in [CRDs -> [storage : Versions, stored : (SUBSET Versions) \ {{}},
                         versions : SUBSET Versions]]
    /\ obj \in [Objects -> ObjectType]

ClusterInit ==
    /\ xrd = [hub |-> 1, versions |-> Versions]
    /\ crd = [c \in CRDs |-> [storage |-> 1, stored |-> {1}, versions |-> Versions]]
    /\ \E m \in Managers : obj = [o \in Objects |-> Created(m, 1, 1)]

-----------------------------------------------------------------------------
(* API-server writes. *)

(* x as it is stored after manager m wrote it through version v. *)
Persisted(o, x, m, v) ==
    [x EXCEPT !.stored = crd[CrdOf(o)].storage, !.wrote[m] = v]

CreateObject(o, m, v) ==
    /\ ~Exists(o)
    /\ v \in crd[CrdOf(o)].versions
    /\ obj' = [obj EXCEPT ![o] = Created(m, v, crd[CrdOf(o)].storage)]
    /\ UNCHANGED <<xrd, crd>>

WriteObject(o, m, v) ==
    /\ Exists(o)
    /\ v \in crd[CrdOf(o)].versions
    /\ obj' = [obj EXCEPT ![o] = Persisted(o, @, m, v)]
    /\ UNCHANGED <<xrd, crd>>

DeleteObject(o) ==
    /\ Exists(o)
    /\ obj' = [obj EXCEPT ![o] = Absent]
    /\ UNCHANGED <<xrd, crd>>

-----------------------------------------------------------------------------
(* The author promotes the hub, and drops old version blocks. *)

Promote ==
    /\ xrd.hub + 1 \in xrd.versions
    /\ xrd' = [xrd EXCEPT !.hub = @ + 1]
    /\ UNCHANGED <<crd, obj>>

DropVersion(v) ==
    /\ v \in xrd.versions /\ v < xrd.hub
    /\ xrd' = [xrd EXCEPT !.versions = @ \ {v}]
    /\ UNCHANGED <<crd, obj>>

(* Crossplane renders the XRD into one of its CRDs; the API server refuses   *)
(* an update that drops a version status.storedVersions still lists.         *)
Render(c) ==
    LET stored == crd[c].stored \cup {xrd.hub} IN
    /\ stored \subseteq xrd.versions
    /\ crd' = [crd EXCEPT ![c] = [storage |-> xrd.hub, stored |-> stored,
                                  versions |-> xrd.versions]]
    /\ crd' # crd
    /\ UNCHANGED <<xrd, obj>>

(* Crossplane selects the Composition an unpinned object's labels ask for    *)
(* and pins the object to it.                                                *)
SelectComposition(o) ==
    /\ Exists(o)
    /\ obj[o].pin = None /\ obj[o].selector # None
    /\ obj' = [obj EXCEPT ![o] =
                 Persisted(o, [@ EXCEPT !.pin = obj[o].selector], "crossplane", xrd.hub)]
    /\ UNCHANGED <<xrd, crd>>

-----------------------------------------------------------------------------
(* storedVersions tells the truth about etcd: every object is stored at a    *)
(* version its CRD lists, so the API server's refusal to drop a listed       *)
(* version protects it.  Only the prune of migrate-storage can break this.   *)
StoredRecorded ==
    \A o \in Objects : Exists(o) => obj[o].stored \in crd[CrdOf(o)].stored

(* No object is left in etcd at a version its CRD no longer declares: such   *)
(* an object could not even be read back.                                    *)
NothingStranded ==
    \A o \in Objects : Exists(o) => obj[o].stored \in crd[CrdOf(o)].versions
=============================================================================
