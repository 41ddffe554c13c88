----------------------------- MODULE StorageLedger -----------------------------
(***************************************************************************)
(* What status.storedVersions of a CRD promises, without objects, clients  *)
(* or commands: a ledger of the versions etcd may hold.  Objects come to   *)
(* be stored only at the current storage version, a new storage version is *)
(* recorded as it becomes current, and a version is struck off the ledger  *)
(* only when nothing is stored at it.  The commands of VersionRetirement,  *)
(* run in a live cluster, are shown to keep this promise.                  *)
(***************************************************************************)
CONSTANTS
    Kinds,         \* the CRDs
    AllVersions    \* the versions objects may be stored at

VARIABLES
    recorded,   \* per CRD, status.storedVersions
    present,    \* per CRD, the versions objects are stored at
    storage     \* per CRD, the storage version

ledgerVars == <<recorded, present, storage>>

Init ==
    /\ recorded \in [Kinds -> SUBSET AllVersions]
    /\ present \in [Kinds -> SUBSET AllVersions]
    /\ storage \in [Kinds -> AllVersions]
    /\ \A k \in Kinds : present[k] \cup {storage[k]} \subseteq recorded[k]

\* Objects are created, rewritten or deleted.
Write(k) ==
    /\ \E versions \in SUBSET (present[k] \cup {storage[k]}) :
         present' = [present EXCEPT ![k] = versions]
    /\ UNCHANGED <<recorded, storage>>

\* Another version becomes the storage version.
Advance(k, version) ==
    /\ storage' = [storage EXCEPT ![k] = version]
    /\ recorded' = [recorded EXCEPT ![k] = @ \cup {version}]
    /\ UNCHANGED present

\* Versions are struck off; what is in use stays.
Prune(k) ==
    /\ \E versions \in SUBSET recorded[k] :
         /\ present[k] \cup {storage[k]} \subseteq versions
         /\ recorded' = [recorded EXCEPT ![k] = versions]
    /\ UNCHANGED <<present, storage>>

Next ==
    \E k \in Kinds :
        Write(k) \/ Prune(k) \/ \E version \in AllVersions : Advance(k, version)

Spec == Init /\ [][Next]_ledgerVars
=============================================================================
