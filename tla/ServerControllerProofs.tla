----------------------- MODULE ServerControllerProofs -----------------------
(***************************************************************************)
(* The ConversionWebhookServer controller for any number of configs and    *)
(* namespaces and every bound on edits and failures: type correctness, the *)
(* finalizer that guards the children, and the deletion that spares the    *)
(* targets whose recorded webhookURL the cache knows.                      *)
(***************************************************************************)
EXTENDS ServerController, TLAPS

(* The finalizer is on the instance while a reconcile runs: it was set       *)
(* before the first child, and the deletion that removes it needs the        *)
(* reconcile to be over.                                                     *)
RunningIsGuarded == rec.step # "idle" => cws.finalizer

(* An instance that is gone has lost its finalizer. *)
GoneIsBare == cws.phase = "gone" => ~cws.finalizer

(* Between reconciles of the config controller the webhookURL a config       *)
(* records names the instance its target calls.                              *)
RecordedURL == \A c \in Configs : c \in inFlight \/ cfgs[c].target = cfgs[c].url

(* The inductive invariant. *)
IInv == TypeOK /\ RunningIsGuarded /\ GoneIsBare /\ GuardedChildren /\ RecordedURL

\* The first state satisfies it.
LEMMA InitIInv == Init => IInv
<1> SUFFICES ASSUME Init PROVE IInv
  OBVIOUS
<1>1. PICK spec \in Spec0 :
        /\ cws = [phase |-> "live", finalizer |-> FALSE, force |-> FALSE, spec |-> spec]
        /\ rec = [step |-> "idle", spec |-> spec]
  BY DEF Init
<1>2. /\ children = [n \in Namespaces |-> {}]
      /\ cfgs = [c \in Configs |-> [ref |-> "other", target |-> "other", url |-> "other"]]
      /\ cache = cfgs /\ inFlight = {}
  BY DEF Init
<1>3. TypeOK
  <2>1. /\ cws \in [phase : {"live", "deleting", "gone"}, finalizer : BOOLEAN,
                      force : BOOLEAN, spec : Spec0]
        /\ rec \in [step : Steps, spec : Spec0]
    BY <1>1 DEF Steps
  <2>2. /\ children \in [Namespaces -> SUBSET Children] /\ inFlight \subseteq Configs
        /\ cfgs \in [Configs -> Config] /\ cache \in [Configs -> Config]
    BY <1>2 DEF Config, Instances
  <2>3. /\ status \in [assigned : SUBSET Configs, blocked : BOOLEAN]
        /\ queued \in BOOLEAN /\ timer \in BOOLEAN
    BY DEF Init
  <2>4. edits \in 0 .. MaxEdits /\ failures \in 0 .. MaxFailures
    BY BoundsAssumption DEF BoundsAssumption, Init
  <2> QED BY <2>1, <2>2, <2>3, <2>4 DEF TypeOK
<1>4. RunningIsGuarded /\ GoneIsBare
  BY <1>1 DEF RunningIsGuarded, GoneIsBare
<1>5. GuardedChildren /\ RecordedURL
  BY <1>2 DEF GuardedChildren, RecordedURL
<1> QED BY <1>3, <1>4, <1>5 DEF IInv

\* Applying, removing or skipping a child keeps every part of the invariant.
LEMMA ChildStep ==
    ASSUME IInv, NEW child \in Children, NEW next \in Steps,
           Applied(child, next) \/ Removed(child, next)
    PROVE  IInv'
<1>1. /\ rec.step = child /\ rec' = [rec EXCEPT !.step = next]
      /\ cws' = cws /\ status' = status /\ cfgs' = cfgs /\ cache' = cache
      /\ inFlight' = inFlight /\ queued' = queued /\ timer' = timer
      /\ edits' = edits /\ failures' = failures
  BY DEF Applied, Removed, configVars
<1>2. cws.finalizer
  BY <1>1 DEF IInv, RunningIsGuarded, Children
<1>3. rec.spec.namespace \in Namespaces
  BY DEF IInv, TypeOK, Spec0
<1>4. children' \in [Namespaces -> SUBSET Children]
  <2>1. CASE Applied(child, next)
    BY <2>1, <1>3 DEF Applied, IInv, TypeOK
  <2>2. CASE Removed(child, next)
    BY <2>2, <1>3 DEF Removed, IInv, TypeOK
  <2> QED BY <2>1, <2>2
<1>5. rec' \in [step : Steps, spec : Spec0]
  BY <1>1 DEF IInv, TypeOK
<1>6. TypeOK'
  BY <1>1, <1>4, <1>5 DEF IInv, TypeOK
<1>7. RunningIsGuarded' /\ GoneIsBare' /\ GuardedChildren'
  BY <1>1, <1>2 DEF IInv, RunningIsGuarded, GoneIsBare, GuardedChildren
<1>8. RecordedURL'
  BY <1>1 DEF IInv, RecordedURL
<1> QED BY <1>6, <1>7, <1>8 DEF IInv

\* Every step of the controller keeps the invariant.
LEMMA ControllerKeepsIInv ==
    ASSUME IInv, ControllerStep
    PROVE  IInv'
<1> USE DEF IInv
<1>1. CASE Reconcile
  <2>1. /\ rec.step = "idle" /\ cws.phase = "live"
        /\ queued' = FALSE /\ timer' = FALSE
        /\ cws' = [cws EXCEPT !.finalizer = TRUE]
        /\ rec' = [step |-> "certificate", spec |-> cws.spec]
        /\ children' = children /\ status' = status /\ cfgs' = cfgs /\ cache' = cache
        /\ inFlight' = inFlight /\ edits' = edits /\ failures' = failures
    BY <1>1 DEF Reconcile, configVars
  <2>2. TypeOK'
    BY <2>1 DEF TypeOK, Steps
  <2>3. cws'.finalizer /\ cws'.phase = "live"
    BY <2>1 DEF TypeOK
  <2>4. RunningIsGuarded' /\ GoneIsBare' /\ GuardedChildren'
    BY <2>3 DEF RunningIsGuarded, GoneIsBare, GuardedChildren
  <2>5. RecordedURL'
    BY <2>1 DEF RecordedURL
  <2> QED BY <2>2, <2>4, <2>5
<1>2. CASE reconcileCertificate
  BY <1>2, ChildStep DEF reconcileCertificate, Children, Steps
<1>3. CASE reconcileService
  BY <1>3, ChildStep DEF reconcileService, Children, Steps
<1>4. CASE reconcileDeployment
  BY <1>4, ChildStep DEF reconcileDeployment, Children, Steps
<1>5. CASE reconcileHPA
  BY <1>5, ChildStep DEF reconcileHPA, Children, Steps
<1>6. CASE reconcilePDB
  BY <1>6, ChildStep DEF reconcilePDB, Children, Steps
<1>7. CASE updateStatus
  <2>1. /\ status' = [status EXCEPT !.assigned = ConfigsAssigned]
        /\ rec' = [rec EXCEPT !.step = "idle"]
        /\ timer' = TRUE
        /\ cws' = cws /\ children' = children /\ cfgs' = cfgs /\ cache' = cache
        /\ inFlight' = inFlight /\ queued' = queued /\ edits' = edits /\ failures' = failures
    BY <1>7 DEF updateStatus, configVars
  <2>2. ConfigsAssigned \subseteq Configs
    BY DEF ConfigsAssigned
  <2>3. TypeOK'
    BY <2>1, <2>2 DEF TypeOK, Steps
  <2>4. RunningIsGuarded'
    BY <2>1 DEF TypeOK, RunningIsGuarded
  <2>5. GoneIsBare' /\ GuardedChildren' /\ RecordedURL'
    BY <2>1 DEF GoneIsBare, GuardedChildren, RecordedURL
  <2> QED BY <2>3, <2>4, <2>5
<1>8. CASE reconcileDelete
  <2>1. /\ rec.step = "idle" /\ queued' = FALSE /\ timer' \in BOOLEAN
        /\ cfgs' = cfgs /\ cache' = cache /\ inFlight' = inFlight
        /\ rec' = rec /\ edits' = edits /\ failures' = failures
    BY <1>8 DEF reconcileDelete, configVars
  <2>2. \/ status' = [status EXCEPT !.blocked = TRUE] /\ cws' = cws /\ children' = children
        \/ /\ cws' = [cws EXCEPT !.phase = "gone", !.finalizer = FALSE]
           /\ children' = children
           /\ status' = status
    BY <1>8 DEF reconcileDelete
  <2>3. TypeOK'
    BY <2>1, <2>2 DEF TypeOK
  <2>4. RunningIsGuarded' /\ RecordedURL'
    BY <2>1 DEF RunningIsGuarded, RecordedURL
  <2>5. GoneIsBare' /\ GuardedChildren'
    BY <2>2 DEF TypeOK, GoneIsBare, GuardedChildren
  <2> QED BY <2>3, <2>4, <2>5
<1> QED BY <1>1, <1>2, <1>3, <1>4, <1>5, <1>6, <1>7, <1>8 DEF ControllerStep

\* So does a failed call, which abandons the reconcile and queues it again.
LEMMA FailKeepsIInv ==
    ASSUME IInv, Fail
    PROVE  IInv'
<1>1. /\ failures < MaxFailures /\ failures' = failures + 1
      /\ rec' = [rec EXCEPT !.step = "idle"] /\ queued' = TRUE
      /\ cws' = cws /\ children' = children /\ status' = status /\ cfgs' = cfgs
      /\ cache' = cache /\ inFlight' = inFlight /\ timer' = timer /\ edits' = edits
  BY DEF Fail, configVars
<1>2. TypeOK'
  BY <1>1, BoundsAssumption DEF IInv, TypeOK, Steps
<1>3. RunningIsGuarded'
  BY <1>1 DEF IInv, TypeOK, RunningIsGuarded
<1>4. GoneIsBare' /\ GuardedChildren' /\ RecordedURL'
  BY <1>1 DEF IInv, GoneIsBare, GuardedChildren, RecordedURL
<1> QED BY <1>2, <1>3, <1>4 DEF IInv

\* So does what the user does.
LEMMA EnvironmentKeepsIInv ==
    ASSUME IInv, Environment
    PROVE  IInv'
<1> USE DEF IInv
<1>0. ASSUME Edit PROVE edits' \in 0 .. MaxEdits
  BY <1>0, BoundsAssumption DEF Edit, TypeOK
<1>1. CASE EditSpec
  <2>1. PICK spec \in Spec0 : cws' = [cws EXCEPT !.spec = spec]
    BY <1>1 DEF EditSpec
  <2>2. /\ Edit /\ queued' = TRUE /\ children' = children /\ status' = status
        /\ cfgs' = cfgs /\ cache' = cache /\ inFlight' = inFlight
        /\ rec' = rec /\ timer' = timer /\ failures' = failures
    BY <1>1 DEF EditSpec, configVars
  <2>3. cws'.finalizer = cws.finalizer /\ cws'.phase = cws.phase
    BY <2>1 DEF TypeOK
  <2>4. TypeOK'
    BY <1>0, <2>1, <2>2 DEF TypeOK
  <2> QED BY <2>2, <2>3, <2>4 DEF RunningIsGuarded, GoneIsBare, GuardedChildren, RecordedURL
<1>2. CASE DeleteServer
  <2>1. PICK force \in BOOLEAN :
          cws' = [cws EXCEPT !.phase = IF cws.finalizer THEN "deleting" ELSE "gone",
                             !.force = force]
    BY <1>2 DEF DeleteServer
  <2>2. /\ Edit /\ queued' = TRUE /\ children' = children /\ status' = status
        /\ cfgs' = cfgs /\ cache' = cache /\ inFlight' = inFlight
        /\ rec' = rec /\ timer' = timer /\ failures' = failures
    BY <1>2 DEF DeleteServer, configVars
  <2>3. /\ cws'.finalizer = cws.finalizer
        /\ cws'.phase = IF cws.finalizer THEN "deleting" ELSE "gone"
    BY <2>1 DEF TypeOK
  <2>4. TypeOK'
    BY <1>0, <2>1, <2>2 DEF TypeOK
  <2> QED BY <2>2, <2>3, <2>4 DEF RunningIsGuarded, GoneIsBare, GuardedChildren, RecordedURL
<1>3. ASSUME NEW c \in Configs, MoveConfig(c) PROVE IInv'
  <2>1. PICK i \in Instances : cfgs' = [cfgs EXCEPT ![c].ref = i]
    BY <1>3 DEF MoveConfig
  <2>2. /\ Edit /\ cws' = cws /\ children' = children /\ status' = status
        /\ cache' = cache /\ inFlight' = inFlight /\ rec' = rec /\ queued' = queued
        /\ timer' = timer /\ failures' = failures
    BY <1>3 DEF MoveConfig
  <2>3. \A d \in Configs : cfgs'[d].target = cfgs[d].target /\ cfgs'[d].url = cfgs[d].url
    BY <2>1 DEF TypeOK, Config
  <2>4. TypeOK'
    BY <1>0, <2>1, <2>2 DEF TypeOK, Config
  <2> QED BY <2>2, <2>3, <2>4 DEF RunningIsGuarded, GoneIsBare, GuardedChildren, RecordedURL
<1>4. CASE DeleteChild
  <2>1. PICK n \in Namespaces : \E child \in children[n] :
          /\ children' = [children EXCEPT ![n] = @ \ {child}]
          /\ queued' = (queued \/ child # "certificate")
    BY <1>4 DEF DeleteChild
  <2>2. /\ Edit /\ cws' = cws /\ status' = status
        /\ cfgs' = cfgs /\ cache' = cache /\ inFlight' = inFlight
        /\ rec' = rec /\ timer' = timer /\ failures' = failures
    BY <1>4 DEF DeleteChild, configVars
  <2>3. queued' \in BOOLEAN
    BY <2>1
  <2>4. children' \in [Namespaces -> SUBSET Children]
    BY <2>1 DEF TypeOK
  <2>5. TypeOK'
    BY <1>0, <2>2, <2>3, <2>4 DEF TypeOK
  <2>6. GuardedChildren'
    BY <2>1, <2>2 DEF GuardedChildren
  <2> QED BY <2>2, <2>5, <2>6 DEF RunningIsGuarded, GoneIsBare, RecordedURL
<1>5. CASE Annotate
  <2>1. /\ Edit /\ cws' = [cws EXCEPT !.force = ~cws.force]
        /\ queued' = TRUE /\ children' = children /\ status' = status
        /\ cfgs' = cfgs /\ cache' = cache /\ inFlight' = inFlight
        /\ rec' = rec /\ timer' = timer /\ failures' = failures
    BY <1>5 DEF Annotate, configVars
  <2>2. cws'.finalizer = cws.finalizer /\ cws'.phase = cws.phase
    BY <2>1 DEF TypeOK
  <2>3. TypeOK'
    BY <1>0, <2>1 DEF TypeOK
  <2> QED BY <2>1, <2>2, <2>3 DEF RunningIsGuarded, GoneIsBare, GuardedChildren, RecordedURL
<1> QED BY <1>1, <1>2, <1>3, <1>4, <1>5 DEF Environment

\* So do the timers, the watches and the config controller.
LEMMA OthersKeepIInv ==
    ASSUME IInv, Others
    PROVE  IInv'
<1> USE DEF IInv
<1>1. CASE RequeueAfter
  BY <1>1 DEF RequeueAfter, configVars, TypeOK, RunningIsGuarded, GoneIsBare,
              GuardedChildren, RecordedURL
<1>2. ASSUME NEW c \in Configs, PatchTarget(c) PROVE IInv'
  <2>1. /\ cfgs' = [cfgs EXCEPT ![c].target = cache[c].ref]
        /\ inFlight' = inFlight \cup {c}
        /\ cws' = cws /\ children' = children /\ status' = status /\ cache' = cache
        /\ rec' = rec /\ queued' = queued /\ timer' = timer /\ edits' = edits
        /\ failures' = failures
    BY <1>2 DEF PatchTarget
  <2>2. TypeOK'
    BY <2>1 DEF TypeOK, Config
  <2>3. RecordedURL'
    BY <2>1 DEF TypeOK, Config, RecordedURL
  <2> QED BY <2>1, <2>2, <2>3 DEF RunningIsGuarded, GoneIsBare, GuardedChildren
<1>3. ASSUME NEW c \in Configs, PatchStatus(c) PROVE IInv'
  <2>1. /\ cfgs' = [cfgs EXCEPT ![c].url = cfgs[c].target]
        /\ inFlight' = inFlight \ {c}
        /\ cws' = cws /\ children' = children /\ status' = status /\ cache' = cache
        /\ rec' = rec /\ queued' = queued /\ timer' = timer /\ edits' = edits
        /\ failures' = failures
    BY <1>3 DEF PatchStatus
  <2>2. TypeOK'
    BY <2>1 DEF TypeOK, Config
  <2>3. RecordedURL'
    BY <2>1 DEF TypeOK, Config, RecordedURL
  <2> QED BY <2>1, <2>2, <2>3 DEF RunningIsGuarded, GoneIsBare, GuardedChildren
<1>4. ASSUME NEW c \in Configs, CacheSync(c) PROVE IInv'
  <2>1. /\ cache' = [cache EXCEPT ![c] = cfgs[c]]
        /\ queued' \in BOOLEAN
        /\ cws' = cws /\ children' = children /\ status' = status /\ cfgs' = cfgs
        /\ inFlight' = inFlight /\ rec' = rec /\ timer' = timer /\ edits' = edits
        /\ failures' = failures
    BY <1>4 DEF CacheSync
  <2>2. TypeOK'
    BY <2>1 DEF TypeOK
  <2> QED BY <2>1, <2>2 DEF RunningIsGuarded, GoneIsBare, GuardedChildren, RecordedURL
<1>5. CASE CollectGarbage
  <2>1. PICK n \in Namespaces : children' = [children EXCEPT ![n] = {}]
    BY <1>5 DEF CollectGarbage
  <2>2. /\ cws.phase = "gone" /\ cws' = cws /\ status' = status
        /\ cfgs' = cfgs /\ cache' = cache /\ inFlight' = inFlight
        /\ rec' = rec /\ queued' = queued /\ timer' = timer /\ edits' = edits
        /\ failures' = failures
    BY <1>5 DEF CollectGarbage, configVars
  <2>3. TypeOK'
    BY <2>1, <2>2 DEF TypeOK
  <2> QED BY <2>2, <2>3 DEF RunningIsGuarded, GoneIsBare, GuardedChildren, RecordedURL
<1> QED BY <1>1, <1>2, <1>3, <1>4, <1>5 DEF Others

\* The invariant is inductive.
LEMMA NextIInv == IInv /\ [Next]_vars => IInv'
<1> SUFFICES ASSUME IInv, [Next]_vars PROVE IInv'
  OBVIOUS
<1>1. CASE UNCHANGED vars
  BY <1>1 DEF vars, configVars, IInv, TypeOK, RunningIsGuarded, GoneIsBare,
              GuardedChildren, RecordedURL
<1> QED
  BY <1>1, ControllerKeepsIInv, FailKeepsIInv, EnvironmentKeepsIInv, OthersKeepIInv DEF Next

\* So it holds in every reachable state.
LEMMA Inductive == Spec => []IInv
BY InitIInv, NextIInv, PTL DEF Spec

(* The controller's state stays well typed, whatever is edited, deleted or   *)
(* fails (conversionwebhookserver_controller.go).                            *)
THEOREM TypeCorrect == Spec => []TypeOK
<1>1. IInv => TypeOK
  BY DEF IInv
<1> QED BY <1>1, Inductive, PTL

(* No child of the instance exists that its deletion guard does not cover,   *)
(* for any number of namespaces the spec moves through: Reconcile sets the   *)
(* finalizer before the first child, and only reconcileDelete drops it, with *)
(* the instance.                                                             *)
THEOREM ChildrenAreGuarded == Spec => []GuardedChildren
<1>1. IInv => GuardedChildren
  BY DEF IInv
<1> QED BY <1>1, Inductive, PTL

(* An instance that a delete takes at once, with no finalizer to hold it, is *)
(* one that never got a child.                                               *)
BareRemovalIsEmpty ==
    [][cws.phase = "live" /\ cws'.phase = "gone" => \A n \in Namespaces : children[n] = {}]_vars

(* A delete that the finalizer does not hold, so that no reconcileDelete     *)
(* looks at the configs, leaves nothing behind in any namespace.             *)
THEOREM BareRemovalLeavesNothing == Spec => BareRemovalIsEmpty
<1>1. IInv /\ [Next]_vars =>
        [cws.phase = "live" /\ cws'.phase = "gone" => \A n \in Namespaces : children[n] = {}]_vars
  <2> SUFFICES ASSUME IInv, Next, cws.phase = "live", cws'.phase = "gone"
               PROVE  \A n \in Namespaces : children[n] = {}
    OBVIOUS
  <2>1. CASE DeleteServer
    <3>1. ~cws.finalizer
      BY <2>1 DEF DeleteServer, IInv, TypeOK
    <3> QED BY <3>1 DEF IInv, GuardedChildren
  <2>2. CASE EditSpec
    BY <2>2 DEF EditSpec, IInv, TypeOK
  <2>3. CASE Reconcile
    BY <2>3 DEF Reconcile, IInv, TypeOK
  <2>4. CASE ~(DeleteServer \/ EditSpec \/ Reconcile)
    BY <2>4 DEF Next, ControllerStep, Environment, Others, reconcileCertificate,
       reconcileService, reconcileDeployment, reconcileHPA, reconcilePDB, Applied, Removed,
       updateStatus, reconcileDelete, Fail, Annotate, MoveConfig, DeleteChild, RequeueAfter,
       CollectGarbage, PatchTarget, PatchStatus, CacheSync
  <2> QED BY <2>1, <2>2, <2>3, <2>4
<1> QED BY <1>1, Inductive, PTL DEF Spec, BareRemovalIsEmpty

\* A step that removes the instance unforced found no config it serves.
LEMMA RemovalFoundNone ==
    ASSUME TypeOK, Next, cws.phase # "gone", cws'.phase = "gone", ~cws'.force
    PROVE  \A c \in Configs : ~ServedBy(c)
<1>1. CASE reconcileDelete
  <2>1. \/ cws' = cws
        \/ /\ cws' = [cws EXCEPT !.phase = "gone", !.finalizer = FALSE]
           /\ ~(~cws.force /\ \E c \in Configs : ServedBy(c))
    BY <1>1 DEF reconcileDelete
  <2> QED BY <2>1 DEF TypeOK
<1>2. CASE DeleteServer
  <2>1. PICK force \in BOOLEAN :
          /\ ValidateDelete(force)
          /\ cws' = [cws EXCEPT !.phase = IF cws.finalizer THEN "deleting" ELSE "gone",
                                !.force = force]
    BY <1>2 DEF DeleteServer
  <2>2. cws'.force = force
    BY <2>1 DEF TypeOK
  <2> QED BY <2>1, <2>2 DEF ValidateDelete
<1>3. CASE EditSpec
  BY <1>3 DEF EditSpec, TypeOK
<1>4. CASE Reconcile
  BY <1>4 DEF Reconcile, TypeOK
<1>5. CASE Annotate
  BY <1>5 DEF Annotate, TypeOK
<1>6. CASE ~(reconcileDelete \/ DeleteServer \/ EditSpec \/ Reconcile \/ Annotate)
  BY <1>6 DEF Next, ControllerStep, Environment, Others, reconcileCertificate,
     reconcileService, reconcileDeployment, reconcileHPA, reconcilePDB, Applied, Removed,
     updateStatus, Fail, MoveConfig, DeleteChild, RequeueAfter, CollectGarbage, PatchTarget,
     PatchStatus, CacheSync
<1> QED BY <1>1, <1>2, <1>3, <1>4, <1>5, <1>6

(* An unforced removal, by the finalizer's reconcileDelete or straight by    *)
(* ValidateDelete's admission, spares every target whose config is between   *)
(* reconciles and whose recorded webhookURL the cache shows, for any number  *)
(* of configs of both kinds.                                                 *)
THEOREM RemovalIsSafe == Spec => RemovalSparesTargets
<1>1. IInv /\ [Next]_vars =>
        [cws.phase # "gone" /\ cws'.phase = "gone" /\ ~cws'.force
           => \A c \in Configs : cfgs[c].target = "this"
                 => c \in inFlight \/ cache[c].url # cfgs[c].url]_vars
  <2> SUFFICES ASSUME IInv, Next, cws.phase # "gone", cws'.phase = "gone", ~cws'.force,
                      NEW c \in Configs, cfgs[c].target = "this", c \notin inFlight
               PROVE  cache[c].url # cfgs[c].url
    OBVIOUS
  <2>1. ~ServedBy(c)
    BY RemovalFoundNone DEF IInv
  <2>2. cfgs[c].url = "this"
    BY DEF IInv, RecordedURL
  <2> QED BY <2>1, <2>2 DEF ServedBy
<1> QED BY <1>1, Inductive, PTL DEF Spec, RemovalSparesTargets
=============================================================================
