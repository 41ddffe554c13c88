---------------------------- MODULE ServerController ----------------------------
(***************************************************************************)
(* The ConversionWebhookServer controller (internal/controller/            *)
(* conversionwebhookserver_controller.go) for one instance: finalizer,     *)
(* the children applied one API call after another, the status computed    *)
(* from cached lists, and the deletion that waits for the configs.  Beside *)
(* it run the user, the garbage collector, the HPA and the config          *)
(* controller, which points targets at the instance a config resolves to.  *)
(* Configs resolve to this instance or to another one, whose own life is   *)
(* not modelled; how they resolve is Assignment's subject.                 *)
(***************************************************************************)
EXTENDS Naturals, FiniteSets

CONSTANTS
    XRDConfigs,   \* XRDConversionConfigs: their events enqueue every server
    CRDConfigs,   \* CRDConversionConfigs: no watch of this controller sees them
    Namespaces,   \* the values of spec.namespace
    MaxEdits,     \* bound on the user's and the environment's changes
    MaxFailures   \* bound on failed API calls

ASSUME BoundsAssumption == MaxEdits \in Nat /\ MaxFailures \in Nat

Configs == XRDConfigs \cup CRDConfigs
Instances == {"this", "other"}
Children == {"certificate", "service", "deployment", "hpa", "pdb"}

VARIABLES
    cws,        \* the ConversionWebhookServer
    children,   \* per namespace, the children that exist
    status,     \* status.assignedConfigs and the DeletionBlocked condition
    cfgs,       \* per config: spec reference, what its target names, webhookURL
    cache,      \* the informer cache's copy of cfgs
    inFlight,   \* config reconciles between the target's patch and the status patch
    rec,        \* the running reconcile: its step and the spec it read
    queued,     \* the instance waits in the work queue
    timer,      \* a RequeueAfter is pending
    edits, failures

configVars == <<cfgs, cache, inFlight>>
vars == <<cws, children, status, configVars, rec, queued, timer, edits, failures>>

Spec0 == [autoscaling : BOOLEAN, pdb : BOOLEAN, namespace : Namespaces]
Config == [ref : Instances, target : Instances, url : Instances]
Steps == {"idle", "certificate", "service", "deployment", "hpa", "pdb", "status"}

TypeOK ==
    /\ cws \in [phase : {"live", "deleting", "gone"}, finalizer : BOOLEAN,
                force : BOOLEAN, spec : Spec0]
    /\ children \in [Namespaces -> SUBSET Children]
    /\ status \in [assigned : SUBSET Configs, blocked : BOOLEAN]
    /\ cfgs \in [Configs -> Config] /\ cache \in [Configs -> Config]
    /\ inFlight \subseteq Configs
    /\ rec \in [step : Steps, spec : Spec0]
    /\ queued \in BOOLEAN /\ timer \in BOOLEAN
    /\ edits \in 0 .. MaxEdits /\ failures \in 0 .. MaxFailures

Init ==
    /\ \E spec \in Spec0 :
         /\ cws = [phase |-> "live", finalizer |-> FALSE, force |-> FALSE, spec |-> spec]
         /\ rec = [step |-> "idle", spec |-> spec]
    /\ children = [n \in Namespaces |-> {}]
    /\ status = [assigned |-> {}, blocked |-> FALSE]
    /\ cfgs = [c \in Configs |-> [ref |-> "other", target |-> "other", url |-> "other"]]
    /\ cache = cfgs
    /\ inFlight = {}
    /\ queued = TRUE /\ timer = FALSE
    /\ edits = 0 /\ failures = 0

-----------------------------------------------------------------------------
(* Mutant: judged by assignment alone. *)
AssignedOnly(c) == cache[c].ref = "this"

(* assign.ServedBy over the cached list: the config resolves to the          *)
(* instance, or its recorded webhookURL still names it.                      *)
ServedBy(c) == cache[c].ref = "this" \/ cache[c].url = "this"

(* assign.ConfigsAssignedTo over the cached lists of both kinds. *)
ConfigsAssigned == {c \in Configs : cache[c].ref = "this"}

Fail ==
    /\ failures < MaxFailures /\ failures' = failures + 1
    /\ rec' = [rec EXCEPT !.step = "idle"]
    /\ queued' = TRUE
    /\ UNCHANGED <<cws, children, status, configVars, timer, edits>>

(* Mutant: the children come first, the finalizer with a later reconcile. *)
ReconcileUnguarded ==
    /\ rec.step = "idle" /\ queued /\ cws.phase = "live"
    /\ queued' = FALSE /\ timer' = FALSE
    /\ rec' = [step |-> "certificate", spec |-> cws.spec]
    /\ UNCHANGED <<cws, children, status, configVars, edits, failures>>

(* Reconcile: a deleted instance goes to reconcileDelete; a live one gets    *)
(* the finalizer before the first child.                                     *)
Reconcile ==
    /\ rec.step = "idle" /\ queued /\ cws.phase = "live"
    /\ queued' = FALSE /\ timer' = FALSE
    /\ cws' = [cws EXCEPT !.finalizer = TRUE]
    /\ rec' = [step |-> "certificate", spec |-> cws.spec]
    /\ UNCHANGED <<children, status, configVars, edits, failures>>

(* Every child is applied with this owner; what the step leaves is the next  *)
(* call.                                                                     *)
Applied(child, next) ==
    /\ rec.step = child
    /\ children' = [children EXCEPT ![rec.spec.namespace] = @ \cup {child}]
    /\ rec' = [rec EXCEPT !.step = next]
    /\ UNCHANGED <<cws, status, configVars, queued, timer, edits, failures>>

(* An optional child is deleted when the spec no longer asks for it. *)
Removed(child, next) ==
    /\ rec.step = child
    /\ children' = [children EXCEPT ![rec.spec.namespace] = @ \ {child}]
    /\ rec' = [rec EXCEPT !.step = next]
    /\ UNCHANGED <<cws, status, configVars, queued, timer, edits, failures>>

reconcileCertificate == Applied("certificate", "service")

reconcileService == Applied("service", "deployment")

(* The pod template, the rollout timings and, without autoscaling, the       *)
(* replica count are the spec's; Serving models what a pod does with them.   *)
reconcileDeployment == Applied("deployment", "hpa")

\* A child that is left as it is.
Skipped(child, next) ==
    /\ rec.step = child
    /\ rec' = [rec EXCEPT !.step = next]
    /\ UNCHANGED <<cws, children, status, configVars, queued, timer, edits, failures>>

\* Mutant: an HPA that is no longer wanted stays.
keepHPA ==
    IF rec.spec.autoscaling THEN Applied("hpa", "pdb") ELSE Skipped("hpa", "pdb")

reconcileHPA ==
    IF rec.spec.autoscaling THEN Applied("hpa", "pdb") ELSE Removed("hpa", "pdb")

reconcilePDB ==
    IF rec.spec.pdb THEN Applied("pdb", "status") ELSE Removed("pdb", "status")

(* updateStatus and the status patch; RequeueAfter five minutes. *)
updateStatus ==
    /\ rec.step = "status"
    /\ status' = [status EXCEPT !.assigned = ConfigsAssigned]
    /\ rec' = [rec EXCEPT !.step = "idle"]
    /\ timer' = TRUE
    /\ UNCHANGED <<cws, children, configVars, queued, edits, failures>>

RequeueAfter ==
    /\ timer /\ ~queued
    /\ timer' = FALSE /\ queued' = TRUE
    /\ UNCHANGED <<cws, children, status, configVars, rec, edits, failures>>

(* Mutant: a blocked deletion is not tried again. *)
deleteWithoutRetry ==
    /\ rec.step = "idle" /\ queued /\ cws.phase = "deleting"
    /\ queued' = FALSE
    /\ IF ~cws.force /\ \E c \in Configs : ServedBy(c)
       THEN status' = [status EXCEPT !.blocked = TRUE] /\ UNCHANGED cws
       ELSE /\ cws' = [cws EXCEPT !.phase = "gone", !.finalizer = FALSE]
            /\ UNCHANGED status
    /\ UNCHANGED <<children, configVars, rec, timer, edits, failures>>

(* reconcileDelete: blocked, with a requeue, while a config is served by     *)
(* this instance, unless the annotation forces the deletion at this          *)
(* reconcile; otherwise the finalizer goes, and with it the instance.        *)
reconcileDelete ==
    /\ rec.step = "idle" /\ queued /\ cws.phase = "deleting"
    /\ queued' = FALSE
    /\ IF ~cws.force /\ \E c \in Configs : ServedBy(c)
       THEN /\ status' = [status EXCEPT !.blocked = TRUE]
            /\ timer' = TRUE
            /\ UNCHANGED cws
       ELSE /\ cws' = [cws EXCEPT !.phase = "gone", !.finalizer = FALSE]
            /\ timer' = FALSE
            /\ UNCHANGED status
    /\ UNCHANGED <<children, configVars, rec, edits, failures>>

ControllerStep ==
    \/ Reconcile
    \/ reconcileCertificate
    \/ reconcileService
    \/ reconcileDeployment
    \/ reconcileHPA
    \/ reconcilePDB
    \/ updateStatus
    \/ reconcileDelete

-----------------------------------------------------------------------------
(* The user. *)

Edit == edits < MaxEdits /\ edits' = edits + 1

EditSpec ==
    /\ Edit /\ cws.phase = "live"
    /\ \E spec \in Spec0 \ {cws.spec} : cws' = [cws EXCEPT !.spec = spec]
    /\ queued' = TRUE
    /\ UNCHANGED <<children, status, configVars, rec, timer, failures>>

(* ValidateDelete: admission refuses by the same rule the finalizer uses.    *)
(* An instance deleted before its first reconcile has no finalizer.  force   *)
(* is the annotation as the user has left it when deleting.                  *)
ValidateDelete(force) == force \/ \A c \in Configs : ~ServedBy(c)

DeleteServer ==
    /\ Edit /\ cws.phase = "live"
    /\ \E force \in BOOLEAN :
         /\ ValidateDelete(force)
         /\ cws' = [cws EXCEPT !.phase = IF cws.finalizer THEN "deleting" ELSE "gone",
                               !.force = force]
    /\ queued' = TRUE
    /\ UNCHANGED <<children, status, configVars, rec, timer, failures>>

(* The annotation is set, or taken back, while the deletion waits. *)
Annotate ==
    /\ Edit /\ cws.phase = "deleting"
    /\ cws' = [cws EXCEPT !.force = ~@]
    /\ queued' = TRUE
    /\ UNCHANGED <<children, status, configVars, rec, timer, failures>>

(* A config is moved.  Only an XRDConversionConfig's event reaches this      *)
(* controller's queue, once the cache has it.                                *)
MoveConfig(c) ==
    /\ Edit
    /\ \E i \in Instances \ {cfgs[c].ref} : cfgs' = [cfgs EXCEPT ![c].ref = i]
    /\ UNCHANGED <<cws, children, status, cache, inFlight, rec, queued, timer, failures>>

(* Someone deletes a child.  Deployment, Service, HPA and PDB are watched;   *)
(* the Certificate is not.                                                   *)
DeleteChild ==
    /\ Edit
    /\ \E n \in Namespaces : \E child \in children[n] :
         /\ children' = [children EXCEPT ![n] = @ \ {child}]
         /\ queued' = (queued \/ child # "certificate")
    /\ UNCHANGED <<cws, status, configVars, rec, timer, failures>>

-----------------------------------------------------------------------------
(* The config controller, in the same process and over the same cache: it    *)
(* patches the target of a config whose assignment differs from what its     *)
(* webhookURL records, and records the URL in a second call.  A reference    *)
(* to an instance that is gone resolves to nothing and moves nothing.        *)
Resolves(c) == cache[c].ref = "other" \/ cws.phase # "gone"

PatchTarget(c) ==
    /\ c \notin inFlight /\ Resolves(c)
    /\ cache[c].ref # cfgs[c].target \/ cache[c].ref # cache[c].url
    /\ cfgs' = [cfgs EXCEPT ![c].target = cache[c].ref]
    /\ inFlight' = inFlight \cup {c}
    /\ UNCHANGED <<cws, children, status, cache, rec, queued, timer, edits, failures>>

PatchStatus(c) ==
    /\ c \in inFlight
    /\ cfgs' = [cfgs EXCEPT ![c].url = cfgs[c].target]
    /\ inFlight' = inFlight \ {c}
    /\ UNCHANGED <<cws, children, status, cache, rec, queued, timer, edits, failures>>

(* The watch delivers a config; enqueueAllServers maps XRDConversionConfigs. *)
CacheSync(c) ==
    /\ cache[c] # cfgs[c]
    /\ cache' = [cache EXCEPT ![c] = cfgs[c]]
    /\ queued' = (queued \/ c \in XRDConfigs)
    /\ UNCHANGED <<cws, children, status, cfgs, inFlight, rec, timer, edits, failures>>

(* The garbage collector takes the children of an owner that is gone, in its *)
(* own time.                                                                 *)
CollectGarbage ==
    /\ cws.phase = "gone"
    /\ \E n \in Namespaces : children[n] # {} /\ children' = [children EXCEPT ![n] = {}]
    /\ UNCHANGED <<cws, status, configVars, rec, queued, timer, edits, failures>>

Environment ==
    \/ EditSpec
    \/ DeleteServer
    \/ Annotate
    \/ \E c \in Configs : MoveConfig(c)
    \/ DeleteChild

Others ==
    \/ RequeueAfter
    \/ CollectGarbage
    \/ \E c \in Configs : PatchTarget(c) \/ PatchStatus(c) \/ CacheSync(c)

Next ==
    \/ ControllerStep
    \/ rec.step # "idle" /\ Fail
    \/ Environment
    \/ Others

(* The work queue hands the instance to a worker, timers fire, watches       *)
(* deliver and the config controller runs; the user owes nothing.            *)
Fairness ==
    /\ WF_vars(ControllerStep)
    /\ WF_vars(RequeueAfter)
    /\ \A c \in Configs : WF_vars(CacheSync(c)) /\ WF_vars(PatchTarget(c)) /\ WF_vars(PatchStatus(c))

Spec == Init /\ [][Next]_vars /\ Fairness

-----------------------------------------------------------------------------
(* No child exists that the deletion guard does not cover: the finalizer is  *)
(* on the instance before its first child and stays until the instance goes. *)
GuardedChildren ==
    cws.phase # "gone" /\ (\E n \in Namespaces : children[n] # {}) => cws.finalizer

(* An instance goes, unforced, under a live target only if the config's      *)
(* status write had not reached the cache: a target whose recorded           *)
(* webhookURL is known keeps its instance, also in the middle of a handover  *)
(* (reconcileDelete, ValidateDelete).                                        *)
RemovalSparesTargets ==
    [][cws.phase # "gone" /\ cws'.phase = "gone" /\ ~cws'.force
         => \A c \in Configs : cfgs[c].target = "this"
               => c \in inFlight \/ cache[c].url # cfgs[c].url]_vars

Wanted(spec) ==
    {"certificate", "service", "deployment"}
        \cup {child \in {"hpa"} : spec.autoscaling} \cup {child \in {"pdb"} : spec.pdb}

(* Whatever is edited, deleted or fails on the way, the namespace of the     *)
(* spec ends with exactly the children the spec asks for: the Certificate,   *)
(* which no watch covers, too.                                               *)
ChildrenConverge ==
    <>[](cws.phase = "live" => children[cws.spec.namespace] = Wanted(cws.spec))

(* A deletion stays blocked only by a config that still resolves here: once  *)
(* the configs have moved and their targets have followed, it completes.     *)
DeletionCompletes ==
    <>[](cws.phase = "deleting" => \E c \in Configs : cfgs[c].ref = "this")

(* What docs/configuration/conversionwebhookserver.md says of the owned      *)
(* resources, that they live in the namespace spec.namespace gives.          *)
ChildrenOnlyInNamespace ==
    <>[](\A n \in Namespaces : cws.phase = "live" /\ n # cws.spec.namespace => children[n] = {})
=============================================================================
