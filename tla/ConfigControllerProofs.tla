------------------------ MODULE ConfigControllerProofs ------------------------
(***************************************************************************)
(* For any number of servers, outside changes, failed calls and restarts:  *)
(* the controller is never at rest with something left to do; and, where   *)
(* no call fails and no stale cache is read, its status is true to the     *)
(* target and a deletion leaves no webhook behind.                         *)
(***************************************************************************)
EXTENDS ConfigController, TLAPS

\* What is assumed of the constants, as separate facts.
LEMMA Assumed ==
    /\ NoServer \notin Servers /\ Unresolved \notin Servers
    /\ MaxEdits \in Nat /\ MaxFailures \in Nat /\ MaxCrashes \in Nat
    /\ Policies \subseteq {"KeepServingStale", "FailClosed"}
BY ConstantsAssumption DEF ConstantsAssumption

\* A reconcile in progress is told from none by its call.
LEMMA WorkCases ==
    ASSUME work \in Works \cup {Idle}
    PROVE  /\ work = Idle <=> work.call = "idle"
           /\ work # Idle <=> work \in Works
           /\ work.call \in Calls <=> work # Idle
BY DEF Works, Idle, Calls

-----------------------------------------------------------------------------
(***************************************************************************)
(* Types                                                                   *)
(***************************************************************************)

\* The statuses a reconcile writes.
LEMMA StatusTypes ==
    ASSUME NEW status \in Statuses
    PROVE  /\ \A phase \in {"Invalid", "Pending"} : OrStale(status, phase) \in Statuses
           /\ \A reason \in {"Reverted", "RevertFailed"} : Torn(status, reason) \in Statuses
           /\ want \in Servers => Applied(status) \in Statuses
<1>1. ASSUME NEW phase \in {"Invalid", "Pending"} PROVE OrStale(status, phase) \in Statuses
  <2>1. CASE wasApplied(status)
    <3>1. wasApplied(status) = TRUE
      BY <2>1, Zenon DEF wasApplied
    <3>2. OrStale(status, phase) = [status EXCEPT !.phase = "Stale", !.stale = TRUE]
      BY <3>1 DEF OrStale
    <3> QED BY <3>2 DEF Statuses, Phases
  <2>2. CASE ~wasApplied(status)
    <3>1. wasApplied(status) = FALSE
      BY <2>2 DEF wasApplied
    <3>2. OrStale(status, phase) = [status EXCEPT !.phase = phase, !.stale = FALSE]
      BY <3>1 DEF OrStale
    <3> QED BY <3>2 DEF Statuses, Phases
  <2> QED BY <2>1, <2>2
<1>2. ASSUME NEW reason \in {"Reverted", "RevertFailed"} PROVE Torn(status, reason) \in Statuses
  BY DEF Torn, Statuses, Phases, AppliedConditions
<1>3. want \in Servers => Applied(status) \in Statuses
  BY DEF Applied, Statuses, Phases, AppliedConditions
<1> QED BY <1>1, <1>2, <1>3

LEMMA MergeType ==
    ASSUME NEW live \in Statuses, NEW orig \in Statuses, NEW new \in Statuses,
           NEW conditions \in BOOLEAN
    PROVE  MergePatch(live, orig, new, conditions) \in Statuses
BY DEF MergePatch, Statuses

\* The guard only ever puts back a recorded URL.
LEMMA AdmitType ==
    ASSUME TypeOK, NEW submitted \in Servers \cup {NoServer}
    PROVE  Admit(submitted) \subseteq Servers \cup {NoServer}
<1>1. cache.status.url \in Servers \cup {NoServer}
  BY DEF TypeOK, ConfigObjects, Statuses
<1> QED BY <1>1 DEF Admit, Restored

\* What reconcileNormal goes on to do.
LEMMA NormalType ==
    ASSUME TypeOK, NEW c \in ConfigObjects, NEW outdated \in BOOLEAN,
           reconcileNormal(c, outdated)
    PROVE  work' \in Works
<1>1. c.status \in Statuses
  BY DEF ConfigObjects
<1>2. want # Unresolved => want \in Servers
  BY DEF TypeOK
<1>3. \/ work' = [call |-> "status", read |-> c, outdated |-> outdated,
                  status |-> OrStale(c.status, "Invalid"), then |-> "done"]
      \/ work' = [call |-> "revert", read |-> c, outdated |-> outdated,
                  status |-> Torn(c.status, "Reverted"), then |-> "done"]
      \/ work' = [call |-> "status", read |-> c, outdated |-> outdated,
                  status |-> OrStale(c.status, "Pending"), then |-> "timer"]
      \/ /\ want \in Servers
         /\ work' = [call |-> "apply", read |-> c, outdated |-> outdated,
                     status |-> Applied(c.status), then |-> "timer"]
  BY <1>2 DEF reconcileNormal, Proceed
<1> QED BY <1>1, <1>3, StatusTypes DEF Works, Calls

LEMMA InitType == Init => TypeOK
<1> SUFFICES ASSUME Init PROVE TypeOK
  OBVIOUS
<1>1. NewStatus \in Statuses
  BY DEF NewStatus, Statuses, Phases, AppliedConditions
<1>2. cfg \in ConfigObjects
  BY <1>1 DEF Init, ConfigObjects
<1>3. target \in Targets
  BY DEF Init, Targets
<1>4. server \in [Servers -> ServerStates]
  BY DEF Init, ServerStates
<1>5. edits \in 0..MaxEdits /\ failures \in 0..MaxFailures /\ crashes \in 0..MaxCrashes
  BY Assumed DEF Init
<1> QED BY <1>2, <1>3, <1>4, <1>5 DEF Init, TypeOK

LEMMA StartType ==
    ASSUME TypeOK,
           ReconcileNothing \/ ReconcileFirst \/ ReconcileNormal \/ ReconcileDelete
    PROVE  TypeOK'
<1>1. Start
  BY DEF ReconcileNothing, ReconcileFirst, ReconcileNormal, ReconcileDelete
<1>2. UNCHANGED <<conv, timer, target, want, server, edits, failures, crashes>> /\ queued' = FALSE
  BY <1>1 DEF Start, environment
<1>3. cfg' \in ConfigObjects /\ cache' \in ConfigObjects /\ lag' \in BOOLEAN
  <2>1. CASE ReconcileFirst
    <3>1. [cfg EXCEPT !.finalizer = TRUE] \in ConfigObjects
      BY DEF TypeOK, ConfigObjects
    <3>2. cfg' = [cfg EXCEPT !.finalizer = TRUE] /\ cache' = cache
      BY <2>1 DEF ReconcileFirst, WriteConfig
    <3>3. lag' \in BOOLEAN
      BY <2>1, Zenon DEF ReconcileFirst, WriteConfig
    <3> QED BY <3>1, <3>2, <3>3 DEF TypeOK
  <2>2. CASE UNCHANGED <<cfg, cache, lag>>
    BY <2>2 DEF TypeOK
  <2> QED BY <2>1, <2>2 DEF ReconcileNothing, ReconcileNormal, ReconcileDelete
<1>4. work' \in Works \cup {Idle}
  <2>1. CASE ReconcileNothing
    BY <2>1 DEF ReconcileNothing, TypeOK
  <2>2. CASE ReconcileFirst
    <3>1. [cfg EXCEPT !.finalizer = TRUE] \in ConfigObjects
      BY DEF TypeOK, ConfigObjects
    <3>2. reconcileNormal([cfg EXCEPT !.finalizer = TRUE], FALSE)
      BY <2>2 DEF ReconcileFirst
    <3> QED BY <3>1, <3>2, NormalType
  <2>3. CASE ReconcileNormal
    BY <2>3, NormalType DEF ReconcileNormal, TypeOK
  <2>4. CASE ReconcileDelete
    <3>1. \/ work' = [call |-> "finalize", read |-> cache, outdated |-> lag,
                      status |-> cache.status, then |-> "done"]
          \/ work' = [call |-> "status", read |-> cache, outdated |-> lag,
                      status |-> cache.status, then |-> "timer"]
          \/ work' = [call |-> "deleteRevert", read |-> cache, outdated |-> lag,
                      status |-> cache.status, then |-> "done"]
      BY <2>4 DEF ReconcileDelete, Proceed
    <3>2. cache \in ConfigObjects /\ lag \in BOOLEAN /\ cache.status \in Statuses
      BY DEF TypeOK, ConfigObjects
    <3> QED BY <3>1, <3>2 DEF Works, Calls
  <2> QED BY <2>1, <2>2, <2>3, <2>4
<1> QED BY <1>2, <1>3, <1>4 DEF TypeOK

LEMMA WriteTargetType ==
    ASSUME TypeOK, NEW submitted \in Servers \cup {NoServer}, WriteTarget(submitted)
    PROVE  conv' \in Servers \cup {NoServer} /\ queued' \in BOOLEAN
<1>1. conv' \in Servers \cup {NoServer}
  BY AdmitType DEF WriteTarget
<1>2. queued' \in BOOLEAN
  BY Zenon DEF WriteTarget
<1> QED BY <1>1, <1>2

LEMMA CallType ==
    ASSUME TypeOK,
           \/ FinalizerConflict \/ ApplyConversion \/ Revert \/ patchStatus
           \/ removeFinalizer \/ ApplyNotFound \/ CallFails
    PROVE  TypeOK'
<1>0. work \in Works /\ UNCHANGED <<target, want, server, edits, crashes>>
  <2>1. work.call \in Calls \/ work # Idle
    BY DEF FinalizerConflict, ApplyConversion, Revert, patchStatus, removeFinalizer,
       ApplyNotFound, CallFails, Calls
  <2> QED BY <2>1, WorkCases DEF TypeOK, FinalizerConflict, ApplyConversion, Revert, patchStatus,
     removeFinalizer, ApplyNotFound, CallFails, environment
<1>1. /\ work.read \in ConfigObjects /\ work.status \in Statuses
      /\ work.read.status \in Statuses /\ work.status.url \in Servers \cup {NoServer}
  BY <1>0 DEF Works, ConfigObjects, Statuses
<1>2. CASE FinalizerConflict \/ ApplyNotFound
  <2>1. timer' \in BOOLEAN
    BY <1>2, Zenon DEF FinalizerConflict, ApplyNotFound, Finish
  <2>2. work' = Idle /\ queued' = TRUE /\ UNCHANGED <<cfg, cache, lag, conv, failures>>
    BY <1>2 DEF FinalizerConflict, ApplyNotFound, Finish
  <2> QED BY <1>0, <2>1, <2>2 DEF TypeOK
<1>3. CASE ApplyConversion
  <2>1. WriteTarget(work.status.url) /\ work' = [work EXCEPT !.call = "status"]
        /\ UNCHANGED <<cfg, cache, lag, timer, failures>>
    BY <1>3 DEF ApplyConversion
  <2>2. work' \in Works
    BY <1>0, <2>1 DEF Works, Calls
  <2> QED BY <1>0, <1>1, <2>1, <2>2, WriteTargetType DEF TypeOK
<1>4. CASE Revert
  <2>1. /\ WriteTarget(NoServer) \/ UNCHANGED <<conv, queued>>
        /\ work' = [work EXCEPT !.call = IF work.call = "revert" THEN "status" ELSE "finalize"]
        /\ UNCHANGED <<cfg, cache, lag, timer, failures>>
    BY <1>4 DEF Revert
  <2>2. work' \in Works
    BY <1>0, <2>1 DEF Works, Calls
  <2>3. conv' \in Servers \cup {NoServer} /\ queued' \in BOOLEAN
    BY <2>1, WriteTargetType DEF TypeOK
  <2> QED BY <1>0, <2>1, <2>2, <2>3 DEF TypeOK
<1>5. CASE patchStatus
  <2>1. PICK conditions \in BOOLEAN :
            WriteConfig([cfg EXCEPT !.status =
               MergePatch(cfg.status, work.read.status, work.status, conditions)])
    BY <1>5 DEF patchStatus
  <2> DEFINE merged == MergePatch(cfg.status, work.read.status, work.status, conditions)
  <2>2. merged \in Statuses
    BY <1>1, MergeType DEF TypeOK, ConfigObjects
  <2> HIDE DEF merged
  <2>3. [cfg EXCEPT !.status = merged] \in ConfigObjects
    BY <2>2 DEF TypeOK, ConfigObjects
  <2>4. cfg' = [cfg EXCEPT !.status = merged] /\ cache' = cache
    BY <2>1 DEF WriteConfig, merged
  <2>5. lag' \in BOOLEAN
    BY <2>1, Zenon DEF WriteConfig
  <2>6. queued' \in BOOLEAN /\ timer' \in BOOLEAN
    BY <1>5, Zenon DEF patchStatus, Finish
  <2>7. work' = Idle /\ UNCHANGED <<conv, failures>>
    BY <1>5 DEF patchStatus, Finish
  <2> QED BY <1>0, <2>3, <2>4, <2>5, <2>6, <2>7 DEF TypeOK
<1>6. CASE removeFinalizer
  <2>1. [cfg EXCEPT !.exists = FALSE, !.finalizer = FALSE] \in ConfigObjects
    BY DEF TypeOK, ConfigObjects
  <2>2. cfg' = [cfg EXCEPT !.exists = FALSE, !.finalizer = FALSE] /\ cache' = cache
    BY <1>6 DEF removeFinalizer, WriteConfig
  <2>3. lag' \in BOOLEAN /\ timer' \in BOOLEAN
    BY <1>6, Zenon DEF removeFinalizer, WriteConfig, Finish
  <2>4. work' = Idle /\ UNCHANGED <<conv, queued, failures>>
    BY <1>6 DEF removeFinalizer, Finish
  <2> QED BY <1>0, <2>1, <2>2, <2>3, <2>4 DEF TypeOK
<1>7. CASE CallFails
  <2>1. failures' \in 0..MaxFailures /\ UNCHANGED <<cfg, cache, lag, conv>>
    BY <1>7, Assumed DEF CallFails, TypeOK
  <2>2. CASE work.call = "revert"
    <3>1. work' = [work EXCEPT !.call = "status", !.then = "error",
                               !.status = Torn(work.read.status, "RevertFailed")]
          /\ UNCHANGED <<queued, timer>>
      BY <1>7, <2>2 DEF CallFails
    <3>2. work' \in Works
      BY <1>0, <1>1, <3>1, StatusTypes DEF Works, Calls
    <3> QED BY <1>0, <2>1, <3>1, <3>2 DEF TypeOK
  <2>3. CASE work.call # "revert"
    <3>1. work' = Idle /\ queued' = TRUE
      BY <1>7, <2>3 DEF CallFails, Finish
    <3>2. timer' \in BOOLEAN
      BY <1>7, <2>3, Zenon DEF CallFails, Finish
    <3> QED BY <1>0, <2>1, <3>1, <3>2 DEF TypeOK
  <2> QED BY <2>2, <2>3
<1> QED BY <1>2, <1>3, <1>4, <1>5, <1>6, <1>7

\* What an edit of the config makes of it.
Edited ==
    {[cfg EXCEPT !.policy = p] : p \in Policies} \cup {[cfg EXCEPT !.unsafe = TRUE]} \cup
    {IF cfg.finalizer THEN [cfg EXCEPT !.deleting = TRUE] ELSE [cfg EXCEPT !.exists = FALSE]}

LEMMA EditedType ==
    ASSUME cfg \in ConfigObjects
    PROVE  Edited \subseteq ConfigObjects
<1>1. \A p \in Policies : [cfg EXCEPT !.policy = p] \in ConfigObjects
  BY DEF ConfigObjects
<1>2. /\ [cfg EXCEPT !.unsafe = TRUE] \in ConfigObjects
      /\ [cfg EXCEPT !.deleting = TRUE] \in ConfigObjects
      /\ [cfg EXCEPT !.exists = FALSE] \in ConfigObjects
  BY DEF ConfigObjects
<1> QED BY <1>1, <1>2 DEF Edited

LEMMA RuntimeType ==
    ASSUME TypeOK, CacheSync \/ RequeueAfter \/ Crash
    PROVE  TypeOK'
<1>1. CASE CacheSync \/ RequeueAfter
  BY <1>1 DEF CacheSync, RequeueAfter, environment, TypeOK
<1>2. CASE Crash
  <2>1. crashes' \in 0..MaxCrashes
    BY <1>2, Assumed DEF Crash, TypeOK
  <2> QED BY <1>2, <2>1 DEF Crash, environment, TypeOK
<1> QED BY <1>1, <1>2

LEMMA EditType ==
    ASSUME TypeOK,
           \/ EditConfig \/ EditTarget \/ RemoveTarget \/ CreateTarget
           \/ Strip \/ Reassign \/ ServerChanges
    PROVE  TypeOK'
<1>0. edits' \in 0..MaxEdits /\ UNCHANGED <<timer, failures, crashes>>
  <2>1. Edit
    BY DEF EditConfig, EditTarget, RemoveTarget, CreateTarget, Strip, Reassign, ServerChanges
  <2> QED BY <2>1, Assumed DEF Edit, TypeOK
<1>1. CASE EditConfig
  <2>1. PICK new \in Edited : WriteConfig(new) /\ Outdate(new)
    BY <1>1 DEF EditConfig, Edited
  <2>2. new \in ConfigObjects
    BY EditedType DEF TypeOK
  <2>3. work' \in Works \cup {Idle}
    <3>1. work' = work \/ (work # Idle /\ work' = [work EXCEPT !.outdated = TRUE])
      BY <2>1 DEF Outdate
    <3>2. CASE work # Idle /\ work' = [work EXCEPT !.outdated = TRUE]
      BY <3>2, WorkCases DEF TypeOK, Works
    <3> QED BY <3>1, <3>2 DEF TypeOK
  <2>4. lag' \in BOOLEAN
    BY <2>1, Zenon DEF WriteConfig
  <2> QED BY <1>0, <1>1, <2>1, <2>2, <2>3, <2>4 DEF EditConfig, WriteConfig, TypeOK
<1>2. CASE EditTarget \/ RemoveTarget \/ CreateTarget
  <2>1. target' \in Targets
    <3>1. target \in Targets
      BY DEF TypeOK
    <3>2. \/ target' = [target EXCEPT !.established = ~target.established]
          \/ target' = [target EXCEPT !.multiServed = ~target.multiServed]
          \/ \E r \in {"ok", "errors", "failed"} : target' = [target EXCEPT !.report = r]
          \/ \E b \in BOOLEAN : target' = [target EXCEPT !.exists = b]
      BY <1>2 DEF EditTarget, RemoveTarget, CreateTarget
    <3> QED BY <3>1, <3>2 DEF Targets
  <2>2. conv' \in Servers \cup {NoServer}
    BY <1>2, AdmitType DEF EditTarget, RemoveTarget, CreateTarget, TypeOK
  <2>3. queued' = TRUE /\ UNCHANGED <<cfg, cache, lag, want, server, work>>
    BY <1>2 DEF EditTarget, RemoveTarget, CreateTarget
  <2> QED BY <1>0, <2>1, <2>2, <2>3 DEF TypeOK
<1>3. CASE Strip
  <2>1. conv' \in Servers \cup {NoServer} /\ queued' \in BOOLEAN
    BY <1>3, WriteTargetType DEF Strip
  <2> QED BY <1>0, <1>3, <2>1 DEF Strip, TypeOK
<1>4. CASE Reassign
  BY <1>0, <1>4 DEF Reassign, TypeOK
<1>5. CASE ServerChanges
  BY <1>0, <1>5 DEF ServerChanges, TypeOK
<1> QED BY <1>1, <1>2, <1>3, <1>4, <1>5

\* The config, its cached copy and the reconcile in progress keep their types
\* through every interleaving of calls, edits, failures and restarts
\* (XRDConversionConfigReconciler).
THEOREM TypeCorrect == Spec => []TypeOK
<1>1. TypeOK /\ [Next]_vars => TypeOK'
  <2>1. TypeOK /\ UNCHANGED vars => TypeOK'
    BY DEF TypeOK, vars
  <2>2. TypeOK /\ Next => TypeOK'
    BY StartType, CallType, RuntimeType, EditType DEF Next, Reconcile
  <2> QED BY <2>1, <2>2
<1> QED BY <1>1, InitType, PTL DEF Spec

-----------------------------------------------------------------------------
(***************************************************************************)
(* No wakeup is lost                                                       *)
(*                                                                         *)
(* Every outside change but a handover gate's, and every write that        *)
(* changes the config or the target, queues the config or leaves the cache *)
(* behind, which will queue it.  So a reconcile that ends with nothing     *)
(* queued and nothing lagging read the state as it is and found nothing to *)
(* change, or a gate that was closed, and then the timer is set.           *)
(***************************************************************************)
CacheTrue == ~lag => cache = cfg

\* The config can be wired, as far as events tell: the handover gate opens and
\* closes without one.
Due ==
    /\ cfg.exists /\ ~cfg.deleting
    /\ target.exists /\ target.established /\ target.report = "ok"
    /\ want \in Servers /\ server[want] # "down"

Applying ==
    /\ work.call \in {"apply", "status"}
    /\ work.status = Applied(cfg.status)
    /\ work.call = "status" => conv = want \/ cfg.status.url # want

Waiting ==
    /\ work.call = "status" /\ work.then = "timer"
    /\ work.status = OrStale(cfg.status, "Pending")
    /\ movingServers(cfg)

Decided ==
    (work # Idle /\ ~queued /\ ~lag /\ Due) => work.read = cfg /\ (Applying \/ Waiting)

Rests == (Quiescent /\ Due) => Wired \/ Polling

WakeInv == TypeOK /\ CacheTrue /\ Decided /\ Rests

\* A step that queues the config, or leaves the cache behind.
LEMMA Woken ==
    ASSUME TypeOK', CacheTrue', lag' \/ queued'
    PROVE  WakeInv'
BY DEF WakeInv, Decided, Rests, Quiescent

\* The cache is behind after every write of the config.
LEMMA WriteBehind ==
    ASSUME CacheTrue, NEW new, WriteConfig(new)
    PROVE  CacheTrue' /\ (~lag' => ~lag /\ new = cfg /\ UNCHANGED <<cfg, cache>>)
BY DEF WriteConfig, CacheTrue

\* The decision of a reconcile that read the config as it is.
LEMMA DueDecision ==
    ASSUME TypeOK, NEW c, c = cfg, reconcileNormal(c, FALSE), Due
    PROVE  /\ work'.read = c /\ work' # Idle
           /\ \/ work'.call = "apply" /\ work'.status = Applied(c.status)
              \/ /\ work'.call = "status" /\ work'.then = "timer" /\ movingServers(c)
                 /\ work'.status = OrStale(c.status, "Pending")
<1>1. /\ target.exists /\ target.report = "ok" /\ target.established
      /\ want # Unresolved /\ server[want] # "down"
  BY Assumed DEF Due
<1>2. \/ work' = [call |-> "apply", read |-> c, outdated |-> FALSE,
                  status |-> Applied(c.status), then |-> "timer"]
      \/ /\ movingServers(c)
         /\ work' = [call |-> "status", read |-> c, outdated |-> FALSE,
                     status |-> OrStale(c.status, "Pending"), then |-> "timer"]
  BY <1>1 DEF reconcileNormal, Proceed
<1> QED BY <1>2 DEF Idle

LEMMA WakeNext ==
    ASSUME WakeInv, [Next]_vars, TypeOK'
    PROVE  WakeInv'
<1>0. TypeOK /\ CacheTrue /\ Decided /\ Rests
  BY DEF WakeInv
<1>00. /\ lag \in BOOLEAN /\ queued \in BOOLEAN /\ work \in Works \cup {Idle}
       /\ cfg \in ConfigObjects /\ cache \in ConfigObjects
  BY <1>0 DEF TypeOK
<1>1. CASE /\ UNCHANGED <<cfg, cache, lag, target, conv, want, queued, timer, work>>
           /\ \A s \in Servers : server'[s] = "down" <=> server[s] = "down"
  <2>1. Due' <=> Due
    BY <1>1 DEF Due
  <2>2. /\ Applying' <=> Applying
        /\ Waiting' <=> Waiting
        /\ (Wired \/ Polling)' <=> Wired \/ Polling
    BY <1>1 DEF Applying, Waiting, Wired, Polling, Applied, OrStale, wasApplied, movingServers
  <2> QED BY <1>0, <1>1, <2>1, <2>2 DEF WakeInv, CacheTrue, Decided, Rests, Quiescent
<1>2. CASE ReconcileNothing
  <2>1. UNCHANGED <<cfg, cache, lag, work, target, want, server>> /\ work = Idle
    BY <1>2 DEF ReconcileNothing, Start, environment
  <2>2. ~lag => ~Due'
    BY <1>0, <1>2, <2>1 DEF ReconcileNothing, CacheTrue, Due
  <2> QED BY <1>0, <2>1, <2>2 DEF WakeInv, CacheTrue, Decided, Rests, Quiescent
<1>3. CASE ReconcileFirst
  <2>1. WriteConfig([cfg EXCEPT !.finalizer = TRUE]) /\ cfg.finalizer = FALSE
    BY <1>0, <1>00, <1>3 DEF ReconcileFirst, CacheTrue, ConfigObjects
  <2>2. [cfg EXCEPT !.finalizer = TRUE] # cfg
    BY <1>00, <2>1 DEF ConfigObjects
  <2>3. CacheTrue' /\ lag'
    BY <1>0, <2>1, <2>2, WriteBehind
  <2> QED BY <2>3, Woken
<1>4. CASE ReconcileNormal
  <2>1. /\ UNCHANGED <<cfg, cache, lag, conv, target, want, server>>
        /\ reconcileNormal(cache, lag)
    BY <1>4 DEF ReconcileNormal, Start, environment
  <2>2. Due' <=> Due
    BY <2>1 DEF Due
  <2>3. CASE lag
    BY <1>0, <2>1, <2>3, Woken DEF CacheTrue
  <2>4. CASE ~lag
    <3>1. lag = FALSE /\ cache = cfg
      BY <1>0, <1>00, <2>4 DEF CacheTrue
    <3>2. Due => /\ work'.read = cfg /\ work' # Idle
                 /\ \/ work'.call = "apply" /\ work'.status = Applied(cfg.status)
                    \/ /\ work'.call = "status" /\ work'.then = "timer" /\ movingServers(cfg)
                       /\ work'.status = OrStale(cfg.status, "Pending")
      BY <1>0, <2>1, <3>1, DueDecision
    <3>3. /\ Applied(cfg.status)' = Applied(cfg.status)
          /\ OrStale(cfg.status, "Pending")' = OrStale(cfg.status, "Pending")
          /\ movingServers(cfg)' <=> movingServers(cfg)
      BY <2>1 DEF Applied, OrStale, wasApplied, movingServers
    <3>4. Due => Applying' \/ Waiting'
      BY <3>2, <3>3 DEF Applying, Waiting
    <3> QED BY <1>0, <2>1, <2>2, <3>2, <3>4 DEF WakeInv, CacheTrue, Decided, Rests, Quiescent
  <2> QED BY <2>3, <2>4
<1>5. CASE ReconcileDelete
  <2>1. UNCHANGED <<cfg, cache, lag>> /\ cache.deleting
    BY <1>5 DEF ReconcileDelete
  <2>2. ~lag' => ~Due'
    BY <1>0, <2>1 DEF CacheTrue, Due
  <2> QED BY <1>0, <2>1, <2>2 DEF WakeInv, CacheTrue, Decided, Rests, Quiescent
<1>6. CASE ApplyConversion
  <2>1. /\ work.call = "apply" /\ WriteTarget(work.status.url)
        /\ work' = [work EXCEPT !.call = "status"]
        /\ UNCHANGED <<cfg, cache, lag, target, want, server>>
    BY <1>6 DEF ApplyConversion, environment
  <2>2. work \in Works
    BY <1>00, <2>1, WorkCases DEF Calls
  <2>3. /\ work'.call = "status" /\ work'.read = work.read /\ work'.status = work.status
        /\ work' # Idle
    BY <2>1, <2>2 DEF Works, Idle
  <2>4. Due' <=> Due
    BY <2>1 DEF Due
  <2>5. Applied(cfg.status)' = Applied(cfg.status)
    BY <2>1 DEF Applied
  <2>6. CASE lag \/ queued'
    BY <1>0, <2>1, <2>6, Woken DEF CacheTrue
  <2>7. CASE ~lag /\ ~queued' /\ Due
    <3>1. ~queued /\ conv' \in {work.status.url, Restored(work.status.url)}
      BY <2>1, <2>7 DEF WriteTarget, Admit
    <3>2. /\ work.read = cfg /\ work.status = Applied(cfg.status)
      BY <1>0, <2>1, <2>2, <2>7, <3>1, WorkCases, <1>00 DEF Decided, Applying, Waiting
    <3>3. cfg.status \in Statuses
      BY <1>00 DEF ConfigObjects
    <3>4. work.status.url = want
      BY <3>2, <3>3 DEF Applied, Statuses
    <3>5. conv' = want \/ conv' = cfg.status.url
      BY <1>0, <2>7, <3>1, <3>4 DEF Restored, CacheTrue
    <3>6. Applying'
      BY <2>1, <2>3, <2>5, <3>2, <3>5 DEF Applying
    <3> QED BY <1>0, <2>1, <2>3, <3>2, <3>6 DEF WakeInv, CacheTrue, Decided, Rests, Quiescent
  <2>8. CASE ~Due
    BY <1>0, <2>1, <2>4, <2>8 DEF WakeInv, CacheTrue, Decided, Rests
  <2> QED BY <2>6, <2>7, <2>8
<1>7. CASE Revert \/ (CallFails /\ work.call = "revert")
  <2>1. /\ work.call \in {"revert", "deleteRevert"} /\ work # Idle
        /\ UNCHANGED <<cfg, cache, lag, target, want, server>>
    BY <1>00, <1>7, WorkCases DEF Revert, CallFails, environment, Calls
  <2>2. ~queued' => ~queued
    BY <1>7 DEF Revert, CallFails, WriteTarget
  <2>3. ~queued' /\ ~lag => ~Due'
    BY <1>0, <2>1, <2>2 DEF Decided, Applying, Waiting, Due
  <2> QED BY <1>0, <2>1, <2>3 DEF WakeInv, CacheTrue, Decided, Rests, Quiescent
<1>8. CASE patchStatus
  <2>1. PICK conditions \in BOOLEAN :
          /\ <<work.status.applied, work.status.stale>> #
                <<work.read.status.applied, work.read.status.stale>> => conditions
          /\ WriteConfig([cfg EXCEPT !.status =
                MergePatch(cfg.status, work.read.status, work.status, conditions)])
    BY <1>8 DEF patchStatus
  <2> DEFINE merged == MergePatch(cfg.status, work.read.status, work.status, conditions)
  <2>2. CacheTrue' /\ (~lag' => ~lag /\ [cfg EXCEPT !.status = merged] = cfg /\ cfg' = cfg)
    BY <1>0, <2>1, WriteBehind
  <2>3. /\ work.call = "status" /\ UNCHANGED <<conv, target, want, server>> /\ work' = Idle
        /\ ~queued' => ~queued
    BY <1>8 DEF patchStatus, environment, Finish
  <2>4. CASE lag' \/ queued'
    BY <2>2, <2>4, Woken
  <2>5. CASE ~lag' /\ ~queued' /\ Due'
    <3>1. ~lag /\ [cfg EXCEPT !.status = merged] = cfg /\ cfg' = cfg /\ ~queued
      BY <2>2, <2>3, <2>5
    <3>2. Due /\ work # Idle
      BY <1>00, <2>3, <2>5, <3>1, WorkCases DEF Due, Calls
    <3>3. work.read = cfg /\ (Applying \/ Waiting)
      BY <1>0, <2>3, <3>1, <3>2 DEF Decided
    <3>4. cfg.status \in Statuses
      BY <1>00 DEF ConfigObjects
    <3>5. merged = cfg.status
      BY <1>00, <3>1 DEF ConfigObjects
    <3>6. work.status.stale \in BOOLEAN => cfg.status.stale = work.status.stale
      <4>1. CASE conditions
        <5>1. merged.stale = work.status.stale
          BY <4>1, Zenon DEF MergePatch
        <5> QED BY <3>5, <5>1
      <4>2. CASE ~conditions
        BY <2>1, <3>3, <4>2
      <4> QED BY <4>1, <4>2
    <3>7. ASSUME Applying PROVE Wired'
      <4>1. /\ work.status = Applied(cfg.status)
            /\ conv = want \/ cfg.status.url # want
        BY <2>3, <3>7 DEF Applying
      <4>2. /\ work.status.phase = "Applied" /\ work.status.url = want
            /\ work.status.applied = "True" /\ work.status.stale = FALSE
        BY <3>4, <4>1 DEF Applied, Statuses
      <4>3. merged.phase = "Applied" /\ merged.url = want
        BY <3>3, <4>2 DEF MergePatch
      <4>4. merged.applied = "True"
        BY <2>1, <3>3, <4>2 DEF MergePatch
      <4>5. cfg.status.stale = FALSE
        BY <3>6, <4>2
      <4> QED BY <2>3, <3>1, <3>5, <4>1, <4>3, <4>4, <4>5 DEF Wired
    <3>8. ASSUME Waiting PROVE Polling'
      <4>1. /\ work.then = "timer" /\ movingServers(cfg)
            /\ work.status = OrStale(cfg.status, "Pending")
        BY <3>8 DEF Waiting
      <4>2. work.status.stale = TRUE
        BY <3>4, <4>1 DEF OrStale, movingServers, Statuses
      <4>3. cfg.status.stale = TRUE
        BY <3>6, <4>2
      <4>4. timer' = TRUE
        BY <1>8, <4>1 DEF patchStatus, Finish
      <4>5. movingServers(cfg)'
        BY <2>3, <3>1, <4>1 DEF movingServers, wasApplied
      <4> QED BY <3>1, <4>3, <4>4, <4>5 DEF Polling
    <3> QED BY <2>2, <2>3, <3>3, <3>7, <3>8 DEF WakeInv, Decided, Rests
  <2>6. CASE ~Due'
    BY <2>2, <2>6 DEF WakeInv, Decided, Rests
  <2> QED BY <2>4, <2>5, <2>6
<1>9. CASE removeFinalizer
  <2>1. /\ WriteConfig([cfg EXCEPT !.exists = FALSE, !.finalizer = FALSE])
        /\ cfg'.exists = FALSE
    BY <1>00, <1>9 DEF removeFinalizer, WriteConfig, ConfigObjects
  <2>2. CacheTrue' /\ ~Due'
    BY <1>0, <2>1, WriteBehind DEF Due
  <2> QED BY <2>2 DEF WakeInv, Decided, Rests
<1>10. CASE EditConfig
  <2>1. PICK new : WriteConfig(new) /\ new # cfg
    BY <1>10 DEF EditConfig
  <2>2. CacheTrue' /\ lag'
    BY <1>0, <2>1, WriteBehind
  <2> QED BY <2>2, Woken
<1>11. CASE Strip
  <2>1. UNCHANGED <<cfg, cache, lag, target, want, server, work>>
        /\ (queued' \/ UNCHANGED <<conv, queued>>)
    <3>1. UNCHANGED <<cfg, cache, lag, target, want, server, work>>
      BY <1>11 DEF Strip
    <3>2. queued' \in BOOLEAN /\ queued' = (queued \/ conv' # conv)
      BY <1>11, Zenon DEF Strip, WriteTarget
    <3>3. queued' \/ (conv' = conv /\ ~queued /\ ~queued')
      BY <3>2, Zenon
    <3>4. queued' \/ UNCHANGED <<conv, queued>>
      BY <1>00, <3>2, <3>3
    <3> QED BY <3>1, <3>4
  <2>2. UNCHANGED timer
    BY <1>11 DEF Strip, Edit
  <2> QED BY <1>0, <1>1, <2>1, <2>2, Woken DEF CacheTrue
<1>12. CASE UNCHANGED <<cfg, cache, lag>> /\ queued' = TRUE
  BY <1>0, <1>12, Woken DEF CacheTrue
<1>13. CASE cache' = cfg /\ cfg' = cfg /\ queued' = TRUE
  BY <1>13, Woken DEF CacheTrue
<1>14. CASE ServerChanges
  <2>1. PICK s \in Servers, state \in ServerStates, event \in BOOLEAN :
          /\ server' = [server EXCEPT ![s] = state]
          /\ "down" \in {server[s], state} => event
          /\ queued' = (queued \/ event)
    BY <1>14 DEF ServerChanges
  <2>2. UNCHANGED <<cfg, cache, lag, target, conv, want, timer, work>>
    BY <1>14 DEF ServerChanges, Edit
  <2>3. CASE event
    BY <1>0, <2>1, <2>2, <2>3, Woken DEF CacheTrue
  <2>4. CASE ~event
    <3>1. queued' = queued
      BY <1>00, <2>1, <2>4, Zenon
    <3>2. \A t \in Servers : server'[t] = "down" <=> server[t] = "down"
      BY <1>0, <2>1, <2>4 DEF TypeOK
    <3> QED BY <1>1, <2>2, <3>1, <3>2
  <2> QED BY <2>1, <2>3, <2>4
<1>15. CASE Reconcile \/ CallFails
  BY <1>2, <1>3, <1>4, <1>5, <1>6, <1>7, <1>8, <1>9, <1>12, <1>15 DEF Reconcile, CallFails,
     FinalizerConflict, ApplyNotFound
<1> QED BY <1>1, <1>10, <1>11, <1>12, <1>13, <1>14, <1>15 DEF vars, Next, CacheSync,
   RequeueAfter, Crash, EditTarget, RemoveTarget, CreateTarget, Reassign

LEMMA WakeAlways == Spec => []WakeInv
<1>1. Init => WakeInv
  <2>1. Init => CacheTrue /\ queued = TRUE
    BY DEF Init, CacheTrue
  <2> QED BY <2>1, InitType DEF WakeInv, Decided, Rests, Quiescent
<1>2. WakeInv /\ [Next]_vars /\ TypeOK' => WakeInv'
  BY WakeNext
<1> QED BY <1>1, <1>2, TypeCorrect, PTL DEF Spec

\* Whatever raced, failed or was read from a stale cache, with or without the
\* guard: when the controller is at rest and every gate is open, the target is
\* wired to the assigned server and the status says so, or the gate opened
\* unseen and the timer will find out (reconcileNormal, patchStatus, the watches
\* of SetupWithManager).
THEOREM NoWakeupIsLost == Spec => []RestsOnlyWhenWired
<1>1. Healthy => Due
  BY DEF Healthy, Due
<1>2. WakeInv => RestsOnlyWhenWired
  BY <1>1 DEF WakeInv, Rests, RestsOnlyWhenWired
<1> QED BY <1>2, WakeAlways, PTL

-----------------------------------------------------------------------------
(***************************************************************************)
(* The status is true to the target                                        *)
(*                                                                         *)
(* A reconcile writes the target first and its status second, and a        *)
(* deletion goes by the status.  That is sound as long as the second write *)
(* follows the first (no failed call, no restart), the status read is the  *)
(* one there is (no stale read), and nobody else puts a webhook back: the  *)
(* guard does, until it hears of a FailClosed revert.                      *)
(***************************************************************************)
Orderly == ~StaleReads /\ MaxFailures = 0 /\ MaxCrashes = 0
GuardLeavesReverts == ~GuardOn \/ "FailClosed" \notin Policies

AppliedMeans(status) == status.applied = "True" <=> wasApplied(status)

StatusesMean ==
    /\ AppliedMeans(cfg.status) /\ AppliedMeans(cache.status)
    /\ work # Idle => AppliedMeans(work.status)

ReadCurrent == work # Idle => work.read.status = cfg.status /\ cfg.exists /\ cfg.finalizer

GoneTarget == ~target.exists => conv = NoServer

FinalizerHeld == cfg.exists /\ wasApplied(cfg.status) => cfg.finalizer

\* The guard would put a webhook back.
GuardActs ==
    /\ GuardOn /\ cache.exists /\ ~cache.deleting
    /\ cache.status.applied = "True" /\ cache.status.url # NoServer

GuardCurrent == GuardActs => cfg.exists /\ cfg.finalizer /\ wasApplied(cfg.status)

DeleteSeen == work.call \in {"finalize", "deleteRevert"} => cfg.deleting /\ cache.deleting

WorkMeans ==
    /\ GuardOn /\ work # Idle =>
         work.call # "revert" /\ (wasApplied(cfg.status) => wasApplied(work.status))
    /\ work.call = "apply" => work.status.phase = "Applied"

WebhookRecorded ==
    conv # NoServer =>
        /\ cfg.exists /\ cfg.finalizer
        /\ wasApplied(Recorded) /\ work.call # "finalize"

RecordInv ==
    /\ TypeOK /\ CacheTrue /\ StatusesMean /\ ReadCurrent /\ GoneTarget /\ FinalizerHeld
    /\ GuardCurrent /\ DeleteSeen /\ WorkMeans /\ WebhookRecorded

\* What a write of the target comes to where no call is skipped.
LEMMA AdmitCases ==
    ASSUME Orderly, NEW submitted, conv' \in Admit(submitted)
    PROVE  conv' = submitted \/ (GuardActs /\ conv' = cache.status.url)
BY DEF Orderly, Admit, Restored, GuardActs

LEMMA MeansKept ==
    ASSUME NEW status \in Statuses, AppliedMeans(status)
    PROVE  /\ \A phase \in {"Invalid", "Pending"} :
                /\ AppliedMeans(OrStale(status, phase))
                /\ wasApplied(status) => wasApplied(OrStale(status, phase))
                /\ OrStale(status, phase).url = status.url
           /\ AppliedMeans(Applied(status)) /\ Applied(status).phase = "Applied"
           /\ AppliedMeans(Torn(status, "Reverted"))
<1>1. ASSUME NEW phase \in {"Invalid", "Pending"}
      PROVE  /\ AppliedMeans(OrStale(status, phase))
             /\ wasApplied(status) => wasApplied(OrStale(status, phase))
             /\ OrStale(status, phase).url = status.url
  <2>1. /\ OrStale(status, phase).applied = status.applied
        /\ OrStale(status, phase).url = status.url
        /\ OrStale(status, phase).phase = IF wasApplied(status) THEN "Stale" ELSE phase
    BY DEF OrStale, Statuses
  <2> QED BY <2>1 DEF AppliedMeans, wasApplied
<1>2. AppliedMeans(Applied(status)) /\ Applied(status).phase = "Applied"
  BY DEF AppliedMeans, Applied, wasApplied, Statuses
<1>3. AppliedMeans(Torn(status, "Reverted"))
  BY DEF AppliedMeans, Torn, wasApplied, Statuses
<1> QED BY <1>1, <1>2, <1>3

\* What reconcileNormal goes on to do with the status it read.
LEMMA NormalMeans ==
    ASSUME TypeOK, NEW c \in ConfigObjects, NEW outdated, AppliedMeans(c.status),
           reconcileNormal(c, outdated)
    PROVE  /\ work'.read = c /\ work'.call \in {"status", "apply", "revert"}
           /\ AppliedMeans(work'.status)
           /\ work'.call # "revert" /\ wasApplied(c.status) => wasApplied(work'.status)
           /\ work'.call = "status" => work'.status.url = c.status.url
           /\ work'.call = "apply" => work'.status.phase = "Applied"
           /\ work'.call = "revert" => "FailClosed" \in Policies
<1>1. c.status \in Statuses /\ c.policy \in Policies
  BY DEF ConfigObjects
<1>2. \/ work' = [call |-> "status", read |-> c, outdated |-> outdated,
                  status |-> OrStale(c.status, "Invalid"), then |-> "done"]
      \/ /\ c.policy = "FailClosed"
         /\ work' = [call |-> "revert", read |-> c, outdated |-> outdated,
                     status |-> Torn(c.status, "Reverted"), then |-> "done"]
      \/ work' = [call |-> "status", read |-> c, outdated |-> outdated,
                  status |-> OrStale(c.status, "Pending"), then |-> "timer"]
      \/ work' = [call |-> "apply", read |-> c, outdated |-> outdated,
                  status |-> Applied(c.status), then |-> "timer"]
  BY DEF reconcileNormal, Proceed, failClosedShouldRevert
<1>3. /\ AppliedMeans(OrStale(c.status, "Invalid")) /\ AppliedMeans(OrStale(c.status, "Pending"))
      /\ wasApplied(c.status) => /\ wasApplied(OrStale(c.status, "Invalid"))
                                 /\ wasApplied(OrStale(c.status, "Pending"))
      /\ OrStale(c.status, "Invalid").url = c.status.url
      /\ OrStale(c.status, "Pending").url = c.status.url
      /\ AppliedMeans(Applied(c.status)) /\ Applied(c.status).phase = "Applied"
      /\ AppliedMeans(Torn(c.status, "Reverted"))
  BY <1>1, MeansKept
<1>4. wasApplied(Applied(c.status))
  BY <1>3 DEF wasApplied
<1> QED BY <1>1, <1>2, <1>3, <1>4

\* A status patched by the one who read it last is the one it meant.
LEMMA MergeIsNew ==
    ASSUME NEW live \in Statuses, NEW new \in Statuses, NEW conditions \in BOOLEAN,
           <<new.applied, new.stale>> # <<live.applied, live.stale>> => conditions
    PROVE  LET merged == MergePatch(live, live, new, conditions) IN
           merged.phase = new.phase /\ merged.url = new.url /\ merged.applied = new.applied
BY DEF MergePatch, Statuses

\* A reconcile begins.
LEMMA RecordStart ==
    ASSUME Orderly, GuardLeavesReverts, RecordInv, TypeOK', CacheTrue',
           ReconcileNothing \/ ReconcileFirst \/ ReconcileNormal \/ ReconcileDelete
    PROVE  RecordInv'
<1>0. /\ work = Idle /\ cache = cfg /\ ~lag
      /\ UNCHANGED <<conv, target>> /\ work.call = "idle"
      /\ cfg \in ConfigObjects /\ cache' = cache
  <2>1. Start
    BY DEF ReconcileNothing, ReconcileFirst, ReconcileNormal, ReconcileDelete
  <2>2. work = Idle /\ ~lag /\ UNCHANGED <<conv, target>>
    BY <2>1 DEF Start, environment, Orderly
  <2> QED BY <2>2 DEF RecordInv, CacheTrue, Idle, TypeOK, ReconcileNothing, ReconcileFirst,
     ReconcileNormal, ReconcileDelete, WriteConfig
<1>1. AppliedMeans(cfg.status) /\ (conv # NoServer => wasApplied(cfg.status) /\ cfg.exists /\ cfg.finalizer)
  BY <1>0 DEF RecordInv, StatusesMean, WebhookRecorded, Recorded
<1>2. GoneTarget'
  BY <1>0 DEF RecordInv, GoneTarget
<1>3. CASE ReconcileNothing
  <2>1. UNCHANGED <<cfg, work>>
    BY <1>3 DEF ReconcileNothing
  <2> QED BY <1>0, <1>2, <2>1 DEF RecordInv, StatusesMean, ReadCurrent, FinalizerHeld, GuardCurrent,
     GuardActs, DeleteSeen, WorkMeans, WebhookRecorded, Recorded, AppliedMeans, wasApplied
<1>4. ASSUME NEW c \in ConfigObjects, NEW outdated, reconcileNormal(c, outdated), cfg' = c,
             c.status = cfg.status, c.exists, c.finalizer, cfg.exists
      PROVE  RecordInv'
  <2>1. /\ work'.read = c /\ work'.call \in {"status", "apply", "revert"}
        /\ AppliedMeans(work'.status)
        /\ work'.call # "revert" /\ wasApplied(c.status) => wasApplied(work'.status)
        /\ work'.call = "apply" => work'.status.phase = "Applied"
        /\ work'.call = "revert" => "FailClosed" \in Policies
    BY <1>1, <1>4, NormalMeans DEF RecordInv
  <2>2. work' # Idle
    BY <2>1 DEF Idle
  <2>3. StatusesMean' /\ ReadCurrent' /\ FinalizerHeld'
    BY <1>0, <1>1, <1>4, <2>1 DEF RecordInv, StatusesMean, ReadCurrent, FinalizerHeld, AppliedMeans,
       wasApplied
  <2>4. GuardCurrent' /\ DeleteSeen'
    BY <1>0, <1>4, <2>1 DEF RecordInv, GuardCurrent, GuardActs, DeleteSeen, wasApplied
  <2>5. WorkMeans'
    BY <1>4, <2>1 DEF GuardLeavesReverts, WorkMeans, wasApplied
  <2>6. WebhookRecorded'
    BY <1>0, <1>1, <1>4, <2>1 DEF WebhookRecorded, Recorded, wasApplied
  <2> QED BY <1>2, <2>3, <2>4, <2>5, <2>6 DEF RecordInv
<1>5. CASE ReconcileFirst
  <2>1. /\ reconcileNormal([cfg EXCEPT !.finalizer = TRUE], FALSE)
        /\ cfg' = [cfg EXCEPT !.finalizer = TRUE] /\ cfg.exists
    BY <1>0, <1>5 DEF ReconcileFirst, WriteConfig
  <2> DEFINE c == [cfg EXCEPT !.finalizer = TRUE]
  <2>2. c \in ConfigObjects /\ c.status = cfg.status /\ c.exists /\ c.finalizer
    BY <1>0, <2>1 DEF ConfigObjects
  <2> QED BY <1>4, <2>1, <2>2
<1>6. CASE ReconcileNormal
  BY <1>0, <1>4, <1>6 DEF ReconcileNormal
<1>7. CASE ReconcileDelete
  <2>1. /\ cfg' = cfg /\ cfg.exists /\ cfg.deleting /\ cfg.finalizer
        /\ work'.call \in {"finalize", "status", "deleteRevert"}
        /\ work'.read = cfg /\ work'.status = cfg.status
        /\ work'.call = "finalize" => ~wasApplied(cfg.status) \/ ~target.exists
    BY <1>0, <1>7 DEF ReconcileDelete, Proceed
  <2>2. StatusesMean' /\ ReadCurrent' /\ FinalizerHeld' /\ GuardCurrent' /\ DeleteSeen' /\ WorkMeans'
    BY <1>0, <1>1, <2>1 DEF RecordInv, StatusesMean, ReadCurrent, FinalizerHeld, GuardCurrent,
     GuardActs, DeleteSeen, WorkMeans, AppliedMeans, wasApplied
  <2>3. WebhookRecorded'
    BY <1>0, <1>1, <2>1 DEF RecordInv, GoneTarget, WebhookRecorded, Recorded, wasApplied
  <2> QED BY <1>2, <2>2, <2>3 DEF RecordInv
<1> QED BY <1>3, <1>5, <1>6, <1>7

\* It writes the target.
LEMMA RecordTarget ==
    ASSUME Orderly, RecordInv, TypeOK', CacheTrue', ApplyConversion \/ Revert
    PROVE  RecordInv'
<1>0. /\ work \in Works /\ work # Idle /\ UNCHANGED <<cfg, cache, target>>
      /\ work.call \in {"apply", "revert", "deleteRevert"}
      /\ work' = [work EXCEPT !.call = IF work.call = "deleteRevert" THEN "finalize" ELSE "status"]
  <2>1. work.call \in {"apply", "revert", "deleteRevert"}
    BY DEF ApplyConversion, Revert
  <2> QED BY <2>1, WorkCases DEF RecordInv, TypeOK, ApplyConversion, Revert, environment, Calls
<1>1. /\ work'.read = work.read /\ work'.status = work.status /\ work' # Idle
      /\ work'.call = IF work.call = "deleteRevert" THEN "finalize" ELSE "status"
  BY <1>0 DEF Works, Idle
<1>2. StatusesMean' /\ ReadCurrent' /\ FinalizerHeld' /\ GuardCurrent' /\ DeleteSeen' /\ WorkMeans'
  BY <1>0, <1>1 DEF RecordInv, StatusesMean, ReadCurrent, FinalizerHeld, GuardCurrent,
     GuardActs, DeleteSeen, WorkMeans, AppliedMeans, wasApplied
<1>3. CASE ApplyConversion
  <2>1. work.call = "apply" /\ target.exists
    BY <1>3 DEF ApplyConversion
  <2>2. wasApplied(work.status) /\ cfg.exists /\ cfg.finalizer
    BY <1>0, <2>1 DEF RecordInv, WorkMeans, ReadCurrent, wasApplied
  <2>3. GoneTarget' /\ WebhookRecorded'
    BY <1>0, <1>1, <2>1, <2>2 DEF GoneTarget, WebhookRecorded, Recorded, wasApplied
  <2> QED BY <1>2, <2>3 DEF RecordInv
<1>4. CASE Revert
  <2>1. work.call \in {"revert", "deleteRevert"}
    BY <1>4 DEF Revert
  <2>2. conv' = NoServer \/ GuardActs
    BY <1>4, AdmitCases DEF Revert, WriteTarget, RecordInv, GoneTarget
  <2>3. ~GuardActs
    BY <1>0, <2>1 DEF RecordInv, DeleteSeen, WorkMeans, GuardActs
  <2> QED BY <1>2, <2>2, <2>3 DEF RecordInv, GoneTarget, WebhookRecorded
<1> QED BY <1>3, <1>4

\* It ends.
LEMMA RecordEnd ==
    ASSUME Orderly, RecordInv, TypeOK', CacheTrue',
           FinalizerConflict \/ ApplyNotFound \/ patchStatus \/ removeFinalizer
    PROVE  RecordInv'
<1>0. /\ work \in Works /\ work # Idle /\ work' = Idle /\ UNCHANGED <<cache, conv, target>>
      /\ work'.call = "idle" /\ cfg \in ConfigObjects
  <2>1. work.call \in {"finalize", "apply", "status"}
    BY DEF FinalizerConflict, ApplyNotFound, patchStatus, removeFinalizer
  <2> QED BY <2>1, WorkCases DEF RecordInv, TypeOK, FinalizerConflict, ApplyNotFound, patchStatus,
     removeFinalizer, environment, Calls, Finish, Idle, WriteConfig
<1>1. GoneTarget' /\ ReadCurrent' /\ DeleteSeen' /\ WorkMeans'
  BY <1>0 DEF RecordInv, GoneTarget, ReadCurrent, DeleteSeen, WorkMeans
<1>2. CASE FinalizerConflict \/ ApplyNotFound
  <2>1. cfg' = cfg /\ work.call # "status"
    BY <1>2 DEF FinalizerConflict, ApplyNotFound
  <2> QED BY <1>0, <1>1, <2>1 DEF RecordInv, StatusesMean, FinalizerHeld, GuardCurrent, GuardActs,
     WebhookRecorded, Recorded, AppliedMeans, wasApplied
<1>3. CASE patchStatus
  <2>1. PICK conditions \in BOOLEAN :
          /\ <<work.status.applied, work.status.stale>> #
                <<work.read.status.applied, work.read.status.stale>> => conditions
          /\ WriteConfig([cfg EXCEPT !.status =
                MergePatch(cfg.status, work.read.status, work.status, conditions)])
    BY <1>3 DEF patchStatus
  <2> DEFINE merged == MergePatch(cfg.status, cfg.status, work.status, conditions)
  <2>2. work.read.status = cfg.status /\ cfg.exists /\ cfg.finalizer /\ work.call = "status"
    BY <1>0, <1>3 DEF RecordInv, ReadCurrent, patchStatus
  <2>3. cfg.status \in Statuses /\ work.status \in Statuses
    BY <1>0 DEF ConfigObjects, Works
  <2>4. merged.phase = work.status.phase /\ merged.applied = work.status.applied
    BY <2>1, <2>2, <2>3, MergeIsNew
  <2>5. cfg' = [cfg EXCEPT !.status = merged]
    BY <2>1, <2>2 DEF WriteConfig
  <2> HIDE DEF merged
  <2>6. cfg'.status = merged /\ cfg'.exists /\ cfg'.finalizer
    BY <1>0, <2>2, <2>5 DEF ConfigObjects
  <2>7. StatusesMean' /\ FinalizerHeld'
    BY <1>0, <2>4, <2>6 DEF RecordInv, StatusesMean, FinalizerHeld, AppliedMeans, wasApplied
  <2>8. GuardCurrent'
    BY <1>0, <2>4, <2>6 DEF RecordInv, GuardCurrent, GuardActs, WorkMeans, wasApplied
  <2>9. WebhookRecorded'
    BY <1>0, <2>2, <2>4, <2>6 DEF RecordInv, WebhookRecorded, Recorded, wasApplied
  <2> QED BY <1>1, <2>7, <2>8, <2>9 DEF RecordInv
<1>4. CASE removeFinalizer
  <2>1. work.call = "finalize" /\ cfg' = [cfg EXCEPT !.exists = FALSE, !.finalizer = FALSE]
    BY <1>4 DEF removeFinalizer, WriteConfig
  <2>2. cfg'.status = cfg.status /\ ~cfg'.exists
    BY <1>0, <2>1 DEF ConfigObjects
  <2>3. conv = NoServer /\ cache.deleting
    BY <2>1 DEF RecordInv, WebhookRecorded, DeleteSeen
  <2> QED BY <1>0, <1>1, <2>2, <2>3 DEF RecordInv, StatusesMean, FinalizerHeld, GuardCurrent,
     GuardActs, WebhookRecorded, AppliedMeans, wasApplied
<1> QED BY <1>2, <1>3, <1>4

\* Everybody else.
LEMMA RecordOutside ==
    ASSUME Orderly, RecordInv, TypeOK', CacheTrue',
           \/ UNCHANGED vars \/ CacheSync \/ RequeueAfter \/ EditConfig \/ EditTarget
           \/ RemoveTarget \/ CreateTarget \/ Strip \/ Reassign \/ ServerChanges
    PROVE  RecordInv'
<1>0. cfg \in ConfigObjects /\ target \in Targets /\ work \in Works \cup {Idle}
  BY DEF RecordInv, TypeOK
<1>1. CASE CacheSync
  <2>1. cache' = cfg /\ UNCHANGED <<cfg, conv, work, target>>
    BY <1>1 DEF CacheSync, environment
  <2>2. StatusesMean' /\ ReadCurrent' /\ GoneTarget' /\ FinalizerHeld'
    BY <2>1 DEF RecordInv, StatusesMean, ReadCurrent, GoneTarget, FinalizerHeld, AppliedMeans,
       wasApplied
  <2>3. GuardCurrent' /\ DeleteSeen'
    BY <2>1 DEF RecordInv, StatusesMean, FinalizerHeld, AppliedMeans, GuardCurrent, GuardActs,
       DeleteSeen, wasApplied
  <2>4. WorkMeans' /\ WebhookRecorded'
    BY <2>1 DEF RecordInv, WorkMeans, WebhookRecorded, Recorded, wasApplied
  <2> QED BY <2>2, <2>3, <2>4 DEF RecordInv
<1>2. CASE EditConfig
  <2>1. PICK new \in Edited : WriteConfig(new) /\ Outdate(new)
    BY <1>2 DEF EditConfig, Edited
  <2>2. cfg' = new /\ UNCHANGED <<cache, conv, target>>
    BY <1>2, <2>1 DEF EditConfig, WriteConfig
  <2>3. /\ cfg'.status = cfg.status /\ cfg'.finalizer = cfg.finalizer
        /\ cfg.deleting => cfg'.deleting
        /\ cfg.finalizer => cfg'.exists = cfg.exists
        /\ cfg'.exists => cfg.exists
    BY <1>0, <2>1, <2>2 DEF Edited, ConfigObjects
  <2>4. /\ work'.call = work.call /\ (work' = Idle <=> work = Idle)
        /\ work # Idle => work'.read = work.read /\ work'.status = work.status
    <3>1. work' = work \/ (work # Idle /\ work' = [work EXCEPT !.outdated = TRUE])
      BY <2>1 DEF Outdate
    <3>2. CASE work # Idle /\ work' = [work EXCEPT !.outdated = TRUE]
      BY <1>0, <3>2, WorkCases DEF Works, Idle
    <3> QED BY <3>1, <3>2
  <2>5. StatusesMean' /\ ReadCurrent' /\ GoneTarget' /\ FinalizerHeld'
    BY <2>2, <2>3, <2>4 DEF RecordInv, StatusesMean, ReadCurrent, GoneTarget, FinalizerHeld,
       AppliedMeans, wasApplied
  <2>6. GuardCurrent' /\ DeleteSeen'
    BY <2>2, <2>3, <2>4 DEF RecordInv, GuardCurrent, GuardActs, DeleteSeen, wasApplied
  <2>7. WorkMeans' /\ WebhookRecorded'
    <3>1. work.call = "status" \/ work.call = "apply" => work # Idle
      BY DEF Idle
    <3> QED BY <2>2, <2>3, <2>4, <3>1 DEF RecordInv, WorkMeans, WebhookRecorded, Recorded, wasApplied
  <2> QED BY <2>5, <2>6, <2>7 DEF RecordInv
<1>3. CASE /\ UNCHANGED <<cfg, cache, work>>
           /\ \/ UNCHANGED <<conv, target>>
              \/ EditTarget \/ RemoveTarget \/ CreateTarget \/ Strip
  <2>1. \/ conv' = conv /\ target'.exists = target.exists
        \/ conv' = NoServer
        \/ GuardActs /\ target'.exists
    <3>1. EditTarget => conv' = conv /\ target'.exists = target.exists
      BY <1>0 DEF EditTarget, Targets
    <3>2. CreateTarget => target'.exists
      BY <1>0 DEF CreateTarget, Targets
    <3>3. CreateTarget \/ Strip => conv' = NoServer \/ GuardActs
      BY AdmitCases DEF CreateTarget, Strip, WriteTarget
    <3> QED BY <1>3, <3>1, <3>2, <3>3 DEF RemoveTarget, Strip
  <2>2. GuardActs => /\ cfg.exists /\ cfg.finalizer /\ wasApplied(Recorded)
                     /\ work.call # "finalize"
    <3>1. work.call = "status" => work # Idle
      BY DEF Idle
    <3> QED BY <3>1 DEF RecordInv, GuardCurrent, WorkMeans, Recorded, DeleteSeen, GuardActs
  <2>3. GoneTarget' /\ WebhookRecorded'
    BY <1>3, <2>1, <2>2 DEF RecordInv, GoneTarget, WebhookRecorded, Recorded, wasApplied
  <2>4. StatusesMean' /\ ReadCurrent' /\ FinalizerHeld' /\ GuardCurrent' /\ DeleteSeen' /\ WorkMeans'
    BY <1>3 DEF RecordInv, StatusesMean, ReadCurrent, FinalizerHeld, GuardCurrent,
     GuardActs, DeleteSeen, WorkMeans, AppliedMeans, wasApplied
  <2> QED BY <2>3, <2>4 DEF RecordInv
<1> QED BY <1>1, <1>2, <1>3 DEF vars, RequeueAfter, EditTarget, RemoveTarget, CreateTarget, Strip,
   Reassign, ServerChanges, environment

LEMMA RecordAlways == Orderly /\ GuardLeavesReverts => (Spec => []RecordInv)
<1> SUFFICES ASSUME Orderly, GuardLeavesReverts PROVE Spec => []RecordInv
  OBVIOUS
<1>1. Init => RecordInv
  <2> SUFFICES ASSUME Init PROVE RecordInv
    OBVIOUS
  <2>1. cfg.status = NewStatus /\ cache = cfg /\ work = Idle /\ work.call = "idle" /\ conv = NoServer
    BY DEF Init, Idle
  <2>2. cfg.status.applied # "True" /\ ~wasApplied(cfg.status)
    <3>0. NewStatus.applied = "" /\ NewStatus.phase = ""
      BY DEF NewStatus
    <3>1. cfg.status.applied = "" /\ cfg.status.phase = ""
      BY <2>1, <3>0
    <3>2. "" # "True" /\ "" # "Applied" /\ "" # "Stale"
      OBVIOUS
    <3> QED BY <3>1, <3>2 DEF wasApplied
  <2> QED BY <2>1, <2>2, InitType DEF RecordInv, CacheTrue, StatusesMean, ReadCurrent, GoneTarget,
     FinalizerHeld, GuardCurrent, GuardActs, DeleteSeen, WorkMeans, WebhookRecorded, AppliedMeans
<1>2. RecordInv /\ [Next]_vars /\ TypeOK' /\ CacheTrue' => RecordInv'
  <2>1. TypeOK => ~CallFails /\ ~Crash
    BY DEF Orderly, TypeOK, CallFails, Crash
  <2> QED BY <2>1, RecordStart, RecordTarget, RecordEnd, RecordOutside DEF RecordInv, Next, Reconcile
<1>3. Spec => []CacheTrue
  BY WakeAlways, PTL DEF WakeInv
<1> QED BY <1>1, <1>2, <1>3, TypeCorrect, PTL DEF Spec

\* Where no call fails, no cache lags and no FailClosed revert can be undone:
\* once a config is gone its target carries no webhook, however its deletion
\* raced edits, drift and moves (reconcileDelete, removeFinalizer).
THEOREM DeletionLeavesNothing == Orderly /\ GuardLeavesReverts => (Spec => []NoOrphanWebhook)
<1> SUFFICES ASSUME Orderly, GuardLeavesReverts PROVE Spec => []NoOrphanWebhook
  OBVIOUS
<1>1. RecordInv => NoOrphanWebhook
  BY DEF RecordInv, WebhookRecorded, NoOrphanWebhook
<1> QED BY <1>1, RecordAlways, PTL

\* Under the same conditions a status that says Reverted is true: the target
\* has no webhook (reconcileNormal, revertXRD).
THEOREM RevertsAreHonest == Orderly /\ GuardLeavesReverts => (Spec => []RevertedIsHonest)
<1> SUFFICES ASSUME Orderly, GuardLeavesReverts PROVE Spec => []RevertedIsHonest
  OBVIOUS
<1>1. RecordInv => RevertedIsHonest
  <2> SUFFICES ASSUME RecordInv, work = Idle, cfg.status.applied = "Reverted", conv # NoServer
               PROVE  FALSE
    BY DEF RevertedIsHonest, Quiescent
  <2>1. Recorded = cfg.status
    BY DEF Recorded, Idle
  <2> QED BY <2>1 DEF RecordInv, WebhookRecorded, StatusesMean, AppliedMeans
<1> QED BY <1>1, RecordAlways, PTL

-----------------------------------------------------------------------------
\* Without the guard the target names the recorded server, or none.
URLRecorded == conv \in {NoServer, Recorded.url}

LEMMA URLNext ==
    ASSUME Orderly, ~GuardOn, RecordInv, URLRecorded, [Next]_vars
    PROVE  URLRecorded'
<1>0. /\ TypeOK /\ ~CallFails /\ ~Crash /\ cfg \in ConfigObjects /\ cfg.status \in Statuses
      /\ work \in Works \cup {Idle}
  BY DEF RecordInv, Orderly, TypeOK, CallFails, Crash, ConfigObjects
<1>1. ASSUME NEW submitted, WriteTarget(submitted) \/ conv' \in Admit(submitted)
      PROVE  conv' = submitted
  BY <1>1, AdmitCases DEF GuardActs, WriteTarget
<1>2. CASE conv' = conv /\ cfg'.status.url = cfg.status.url /\ UNCHANGED work
  BY <1>2 DEF URLRecorded, Recorded
<1>3. CASE conv' = NoServer
  BY <1>3 DEF URLRecorded
<1>4. ASSUME NEW c \in ConfigObjects, NEW outdated, reconcileNormal(c, outdated),
             c.status = cfg.status, cfg'.status = cfg.status, conv' = conv, work = Idle
      PROVE  URLRecorded'
  <2>1. AppliedMeans(c.status) /\ Recorded = cfg.status
    BY <1>4 DEF RecordInv, StatusesMean, Recorded, Idle
  <2>2. work'.call = "status" => work'.status.url = c.status.url
    BY <1>0, <1>4, <2>1, NormalMeans
  <2> QED BY <1>4, <2>1, <2>2 DEF URLRecorded, Recorded
<1>5. CASE ReconcileFirst \/ ReconcileNormal \/ ReconcileDelete
  <2>1. work = Idle /\ conv' = conv /\ cache = cfg
    BY <1>5 DEF ReconcileFirst, ReconcileNormal, ReconcileDelete, Start, Orderly, RecordInv, CacheTrue
  <2>2. CASE ReconcileFirst
    <3> DEFINE c == [cfg EXCEPT !.finalizer = TRUE]
    <3>1. reconcileNormal(c, FALSE) /\ cfg' = c
      BY <2>2 DEF ReconcileFirst, WriteConfig
    <3>2. c \in ConfigObjects /\ c.status = cfg.status
      BY <1>0 DEF ConfigObjects
    <3> QED BY <1>4, <2>1, <3>1, <3>2
  <2>3. CASE ReconcileNormal
    BY <1>0, <1>4, <2>1, <2>3 DEF ReconcileNormal
  <2>4. CASE ReconcileDelete
    <3>1. work'.status = cfg.status /\ cfg' = cfg
      BY <2>1, <2>4 DEF ReconcileDelete, Proceed
    <3>2. Recorded = cfg.status
      BY <2>1 DEF Recorded, Idle
    <3> QED BY <2>1, <3>1, <3>2 DEF URLRecorded, Recorded
  <2> QED BY <1>5, <2>2, <2>3, <2>4
<1>6. CASE ApplyConversion
  <2>1. /\ work.call = "apply" /\ work' = [work EXCEPT !.call = "status"]
        /\ conv' = work.status.url
    BY <1>1, <1>6 DEF ApplyConversion
  <2>2. work \in Works
    BY <1>0, <2>1, WorkCases DEF Calls
  <2>3. work'.call = "status" /\ work'.status = work.status
    BY <2>1, <2>2 DEF Works
  <2> QED BY <2>1, <2>3 DEF URLRecorded, Recorded
<1>7. CASE Revert
  <2>1. conv' = NoServer
    BY <1>1, <1>7 DEF Revert, RecordInv, GoneTarget
  <2> QED BY <1>3, <2>1
<1>8. CASE patchStatus
  <2>1. PICK conditions \in BOOLEAN :
          /\ <<work.status.applied, work.status.stale>> #
                <<work.read.status.applied, work.read.status.stale>> => conditions
          /\ WriteConfig([cfg EXCEPT !.status =
                MergePatch(cfg.status, work.read.status, work.status, conditions)])
    BY <1>8 DEF patchStatus
  <2> DEFINE merged == MergePatch(cfg.status, cfg.status, work.status, conditions)
  <2>2. work.call = "status" /\ work' = Idle /\ conv' = conv
    BY <1>8 DEF patchStatus, Finish
  <2>3. work \in Works /\ work # Idle
    BY <1>0, <2>2, WorkCases DEF Calls
  <2>4. work.read.status = cfg.status /\ work.status \in Statuses
    BY <2>3 DEF RecordInv, ReadCurrent, Works
  <2>5. merged.url = work.status.url
    BY <1>0, <2>1, <2>4, MergeIsNew
  <2>6. cfg' = [cfg EXCEPT !.status = merged]
    BY <2>1, <2>4 DEF WriteConfig
  <2> HIDE DEF merged
  <2>7. cfg'.status = merged
    BY <1>0, <2>6 DEF ConfigObjects
  <2> QED BY <2>2, <2>5, <2>7 DEF URLRecorded, Recorded, Idle
<1>9. CASE FinalizerConflict \/ ApplyNotFound \/ removeFinalizer
  <2>1. work.call # "status" /\ work' = Idle /\ conv' = conv
    BY <1>9 DEF FinalizerConflict, ApplyNotFound, removeFinalizer, Finish
  <2>2. cfg'.status = cfg.status
    BY <1>0, <1>9 DEF FinalizerConflict, ApplyNotFound, removeFinalizer, WriteConfig, ConfigObjects
  <2> QED BY <2>1, <2>2 DEF URLRecorded, Recorded, Idle
<1>10. CASE EditConfig
  <2>1. PICK new \in Edited : WriteConfig(new) /\ Outdate(new)
    BY <1>10 DEF EditConfig, Edited
  <2>2. cfg'.status = cfg.status /\ conv' = conv
    BY <1>0, <1>10, <2>1 DEF Edited, ConfigObjects, WriteConfig, EditConfig
  <2>3. work'.call = work.call /\ (work.call = "status" => work'.status = work.status)
    <3>1. work' = work \/ (work # Idle /\ work' = [work EXCEPT !.outdated = TRUE])
      BY <2>1 DEF Outdate
    <3>2. CASE work # Idle /\ work' = [work EXCEPT !.outdated = TRUE]
      BY <1>0, <3>2, WorkCases DEF Works
    <3> QED BY <3>1, <3>2
  <2> QED BY <2>2, <2>3 DEF URLRecorded, Recorded
<1>11. CASE RemoveTarget \/ CreateTarget \/ Strip
  <2>1. conv' = NoServer
    BY <1>1, <1>11 DEF RemoveTarget, CreateTarget, Strip
  <2> QED BY <1>3, <2>1
<1>12. CASE UNCHANGED <<cfg, conv, work>>
  BY <1>2, <1>12
<1>13. CASE Reconcile
  BY <1>5, <1>6, <1>7, <1>8, <1>9, <1>12, <1>13 DEF Reconcile, ReconcileNothing, Start
<1> QED BY <1>0, <1>10, <1>11, <1>12, <1>13 DEF Next, vars, CacheSync, RequeueAfter, EditTarget,
   Reassign, ServerChanges

\* Without the guard (a CRDConversionConfig's target has none), and where no
\* call fails and no cache lags, a webhook on a target is the one the status
\* of its applied config records (TargetPointsAt, patchStatus).
THEOREM URLsReflectTargets == Orderly /\ ~GuardOn => (Spec => []URLReflectsTarget)
<1> SUFFICES ASSUME Orderly, ~GuardOn PROVE Spec => []URLReflectsTarget
  OBVIOUS
<1>1. Init => URLRecorded
  BY DEF Init, URLRecorded
<1>2. RecordInv /\ URLRecorded /\ [Next]_vars => URLRecorded'
  BY URLNext
<1>3. URLRecorded => URLReflectsTarget
  BY DEF URLRecorded, Recorded, Idle, URLReflectsTarget, Quiescent
<1>4. GuardLeavesReverts
  BY DEF GuardLeavesReverts
<1> QED BY <1>1, <1>2, <1>3, <1>4, RecordAlways, PTL DEF Spec

-----------------------------------------------------------------------------
(***************************************************************************)
(* The reconciler keeps the promise of TargetWiring                        *)
(*                                                                         *)
(* A move is judged by the recorded URL.  It is judged rightly because the *)
(* record follows every write of the target (URLRecorded): a target that   *)
(* is wired elsewhere has an applied status that says so, whatever phase   *)
(* the config is in.                                                       *)
(***************************************************************************)
CallMeans ==
    /\ work.call = "apply" => work.status.url \in Servers
    /\ work.call = "revert" => work.status.phase = "Failed"

\* What reconcileNormal decides, and on which grounds it goes on to apply.
LEMMA NormalDecides ==
    ASSUME TypeOK, NEW c \in ConfigObjects, NEW outdated, reconcileNormal(c, outdated)
    PROVE  \/ /\ work'.call = "apply" /\ work'.status.url = want /\ want \in Servers
              /\ movingServers(c) => server[want] = "serving"
           \/ /\ work'.call = "revert" /\ work'.status.phase = "Failed"
           \/ /\ work'.call = "status" /\ work'.status.url = c.status.url
              /\ wasApplied(work'.status) <=> wasApplied(c.status)
<1>1. c.status \in Statuses /\ want \in Servers \cup {Unresolved}
  BY DEF ConfigObjects, TypeOK
<1>2. \/ \E phase \in {"Invalid", "Pending"}, then \in {"done", "timer"} :
            work' = [call |-> "status", read |-> c, outdated |-> outdated,
                     status |-> OrStale(c.status, phase), then |-> then]
      \/ work' = [call |-> "revert", read |-> c, outdated |-> outdated,
                  status |-> Torn(c.status, "Reverted"), then |-> "done"]
      \/ /\ want # Unresolved
         /\ movingServers(c) => server[want] = "serving"
         /\ work' = [call |-> "apply", read |-> c, outdated |-> outdated,
                     status |-> Applied(c.status), then |-> "timer"]
  BY DEF reconcileNormal, Proceed
<1>3. ASSUME NEW phase \in {"Invalid", "Pending"}
      PROVE  /\ OrStale(c.status, phase).url = c.status.url
             /\ wasApplied(OrStale(c.status, phase)) <=> wasApplied(c.status)
  <2>1. /\ OrStale(c.status, phase).url = c.status.url
        /\ OrStale(c.status, phase).phase = IF wasApplied(c.status) THEN "Stale" ELSE phase
    BY <1>1 DEF OrStale, Statuses
  <2> QED BY <2>1 DEF wasApplied
<1>4. Torn(c.status, "Reverted").phase = "Failed" /\ Applied(c.status).url = want
  BY <1>1 DEF Torn, Applied, Statuses
<1> QED BY <1>1, <1>2, <1>3, <1>4

LEMMA CallMeansNext ==
    ASSUME Orderly, TypeOK, CallMeans, [Next]_vars
    PROVE  CallMeans'
<1>0. ~CallFails /\ ~Crash /\ cfg \in ConfigObjects /\ cache \in ConfigObjects
      /\ work \in Works \cup {Idle}
  BY DEF Orderly, TypeOK, CallFails, Crash
<1>1. CASE work'.call \notin {"apply", "revert"}
  BY <1>1 DEF CallMeans
<1>2. CASE work'.call = work.call /\ (work # Idle => work'.status = work.status)
  <2>1. work.call \in {"apply", "revert"} => work # Idle
    BY DEF Idle
  <2> QED BY <1>2, <2>1 DEF CallMeans
<1>3. ASSUME NEW c \in ConfigObjects, NEW outdated, reconcileNormal(c, outdated)
      PROVE  CallMeans'
  BY <1>3, NormalDecides DEF CallMeans
<1>4. CASE ReconcileFirst
  <2>1. [cfg EXCEPT !.finalizer = TRUE] \in ConfigObjects
    BY <1>0 DEF ConfigObjects
  <2> QED BY <1>3, <1>4, <2>1 DEF ReconcileFirst
<1>5. CASE ReconcileNormal
  BY <1>0, <1>3, <1>5 DEF ReconcileNormal
<1>6. CASE ReconcileDelete
  BY <1>1, <1>6 DEF ReconcileDelete, Proceed
<1>7. CASE ApplyConversion \/ Revert
  <2>1. work \in Works
    BY <1>0, <1>7, WorkCases DEF ApplyConversion, Revert, Calls
  <2>2. work'.call \in {"status", "finalize"}
    BY <1>7, <2>1 DEF ApplyConversion, Revert, Works
  <2> QED BY <1>1, <2>2
<1>8. CASE FinalizerConflict \/ ApplyNotFound \/ patchStatus \/ removeFinalizer
  BY <1>1, <1>8 DEF FinalizerConflict, ApplyNotFound, patchStatus, removeFinalizer, Finish, Idle
<1>9. CASE EditConfig
  <2>1. PICK new \in Edited : Outdate(new)
    BY <1>9 DEF EditConfig, Edited
  <2>2. work' = work \/ (work # Idle /\ work' = [work EXCEPT !.outdated = TRUE])
    BY <2>1 DEF Outdate
  <2>3. CASE work # Idle /\ work' = [work EXCEPT !.outdated = TRUE]
    BY <1>0, <1>2, <2>3, WorkCases DEF Works
  <2> QED BY <1>2, <2>2, <2>3
<1>10. CASE UNCHANGED work
  BY <1>2, <1>10
<1> QED BY <1>0, <1>4, <1>5, <1>6, <1>7, <1>8, <1>9, <1>10 DEF Next, Reconcile, vars, ReconcileNothing,
   CacheSync, RequeueAfter, EditTarget, RemoveTarget, CreateTarget, Strip, Reassign, ServerChanges

WiringInv == RecordInv /\ URLRecorded /\ CallMeans

\* What the mapped variables are when no reconcile is in progress.
LEMMA AtIdle ==
    ASSUME work = Idle
    PROVE  Recorded = cfg.status /\ Permitted = NoServer
BY DEF Recorded, Permitted, Idle

\* A reconcile decides.
LEMMA WiringDecision ==
    ASSUME Orderly, WiringInv, RecordInv', NEW c \in ConfigObjects, NEW outdated,
           reconcileNormal(c, outdated), c.status = cfg.status, c.exists, c.finalizer,
           cfg.exists, cfg' = c, work = Idle, UNCHANGED <<conv, server>>
    PROVE  Wiring!Next
<1>0. TypeOK /\ Recorded = cfg.status /\ Permitted = NoServer
  BY AtIdle DEF WiringInv, RecordInv
<1>1. Held' = TRUE /\ OpenGates' = OpenGates
  BY DEF Held, OpenGates
<1>2. conv # NoServer => wasApplied(cfg.status) /\ conv = cfg.status.url
  BY <1>0 DEF WiringInv, RecordInv, WebhookRecorded, URLRecorded
<1>3. CASE /\ work'.call = "apply" /\ work'.status.url = want /\ want \in Servers
           /\ movingServers(c) => server[want] = "serving"
  <2>1. Permitted' = want /\ Recorded' = c.status
    BY <1>3 DEF Permitted, Recorded
  <2>2. Account' = Account
    BY <1>0, <2>1 DEF Account, wasApplied
  <2>3. conv \in {NoServer, want} \/ want \in OpenGates
    BY <1>2, <1>3 DEF movingServers, OpenGates
  <2>4. Wiring!Permit(want)
    BY <1>0, <1>1, <2>1, <2>2, <2>3 DEF Wiring!Permit
  <2> QED BY <1>3, <2>4 DEF Wiring!Next
<1>4. CASE work'.call = "revert" \/ /\ work'.call = "status" /\ work'.status.url = c.status.url
                                    /\ wasApplied(work'.status) <=> wasApplied(c.status)
  <2>1. Permitted' = NoServer
    BY <1>4 DEF Permitted
  <2>2. Recorded'.url = c.status.url /\ (wasApplied(Recorded') <=> wasApplied(c.status))
    BY <1>4 DEF Recorded, wasApplied
  <2>3. Account' = Account
    BY <1>0, <2>2 DEF Account, wasApplied
  <2>4. Wiring!Hold
    BY <1>0, <1>1, <2>1, <2>3 DEF Wiring!Hold
  <2> QED BY <2>4 DEF Wiring!Next
<1> QED BY <1>0, <1>3, <1>4, NormalDecides

\* It writes the target.
LEMMA WiringWrite ==
    ASSUME Orderly, ~GuardOn, WiringInv, ApplyConversion \/ Revert
    PROVE  Wiring!Next
<1>0. /\ work \in Works /\ work # Idle /\ UNCHANGED <<cfg, server>>
      /\ work.call \in {"apply", "revert", "deleteRevert"}
      /\ work' = [work EXCEPT !.call = IF work.call = "deleteRevert" THEN "finalize" ELSE "status"]
  <2>1. work.call \in {"apply", "revert", "deleteRevert"}
    BY DEF ApplyConversion, Revert
  <2> QED BY <2>1, WorkCases DEF WiringInv, RecordInv, TypeOK, ApplyConversion, Revert, environment, Calls
<1>1. /\ work'.status = work.status
      /\ work'.call = IF work.call = "deleteRevert" THEN "finalize" ELSE "status"
      /\ cfg.exists /\ cfg.finalizer
  BY <1>0 DEF Works, WiringInv, RecordInv, ReadCurrent
<1>2. Held' = Held /\ OpenGates' = OpenGates /\ Permitted' = NoServer
  BY <1>0, <1>1 DEF Held, OpenGates, Permitted
<1>3. ASSUME NEW submitted, WriteTarget(submitted)
      PROVE  conv' = submitted
  BY <1>3, AdmitCases DEF GuardActs, WriteTarget
<1>4. CASE ApplyConversion
  <2>1. work.call = "apply" /\ conv' = work.status.url
    BY <1>3, <1>4 DEF ApplyConversion
  <2>2. Permitted = work.status.url /\ Permitted # NoServer
    BY <2>1, Assumed DEF Permitted, WiringInv, CallMeans
  <2>3. work.status.phase = "Applied" /\ Recorded' = work.status
    BY <1>1, <2>1 DEF WiringInv, RecordInv, WorkMeans, Recorded
  <2>4. Account' = work.status.url
    BY <1>0, <1>1, <2>3 DEF Account, wasApplied
  <2>5. Wiring!Point
    BY <1>2, <2>1, <2>2, <2>4 DEF Wiring!Point
  <2> QED BY <2>5 DEF Wiring!Next
<1>5. CASE Revert
  <2>1. conv' = NoServer /\ work.call \in {"revert", "deleteRevert"}
    BY <1>3, <1>5 DEF Revert, WiringInv, RecordInv, GoneTarget
  <2>2. Permitted = NoServer
    BY <2>1 DEF Permitted
  <2>3. Account' \in {Account, NoServer}
    <3>1. CASE work.call = "revert"
      <4>1. Recorded' = work.status /\ work.status.phase = "Failed"
        BY <1>1, <3>1 DEF Recorded, WiringInv, CallMeans
      <4> QED BY <4>1 DEF Account, wasApplied
    <3>2. CASE work.call = "deleteRevert"
      <4>1. Recorded' = cfg.status /\ Recorded = cfg.status
        BY <1>0, <1>1, <3>2 DEF Recorded
      <4> QED BY <1>0, <4>1 DEF Account, wasApplied
    <3> QED BY <2>1, <3>1, <3>2
  <2>4. Wiring!Unwire
    BY <1>2, <2>1, <2>2, <2>3 DEF Wiring!Unwire
  <2> QED BY <2>4 DEF Wiring!Next
<1> QED BY <1>4, <1>5

\* It ends.
LEMMA WiringEnd ==
    ASSUME Orderly, WiringInv,
           FinalizerConflict \/ ApplyNotFound \/ patchStatus \/ removeFinalizer
    PROVE  [Wiring!Next]_(Wiring!wiringVars)
<1>0. /\ work \in Works /\ work # Idle /\ work' = Idle /\ UNCHANGED <<conv, server>>
      /\ cfg \in ConfigObjects /\ cfg.exists /\ cfg.finalizer
  <2>1. work.call \in {"finalize", "apply", "status"}
    BY DEF FinalizerConflict, ApplyNotFound, patchStatus, removeFinalizer
  <2>2. work \in Works /\ work # Idle
    BY <2>1, WorkCases DEF WiringInv, RecordInv, TypeOK, Calls
  <2> QED BY <2>2 DEF WiringInv, RecordInv, ReadCurrent, TypeOK, FinalizerConflict, ApplyNotFound,
     patchStatus, removeFinalizer, environment, Finish
<1>1. Recorded' = cfg'.status /\ Permitted' = NoServer /\ OpenGates' = OpenGates
  BY <1>0 DEF Recorded, Permitted, Idle, OpenGates
<1>2. CASE FinalizerConflict
  <2>1. work.call = "finalize" /\ cfg' = cfg
    BY <1>2 DEF FinalizerConflict
  <2>2. Account' = Account /\ Permitted = NoServer /\ Held' = Held
    BY <1>1, <2>1 DEF Account, Recorded, Permitted, Held, wasApplied
  <2> QED BY <1>0, <1>1, <2>2 DEF Wiring!wiringVars
<1>3. CASE ApplyNotFound
  <2>1. work.call = "apply" /\ cfg' = cfg
    BY <1>3 DEF ApplyNotFound
  <2>2. Account' = Account /\ Permitted # NoServer /\ Held' = Held
    BY <1>1, <2>1, Assumed DEF Account, Recorded, Permitted, Held, wasApplied, WiringInv, CallMeans
  <2>3. Wiring!Abandon
    BY <1>0, <1>1, <2>2 DEF Wiring!Abandon
  <2> QED BY <2>3 DEF Wiring!Next
<1>4. CASE patchStatus
  <2>1. PICK conditions \in BOOLEAN :
          /\ <<work.status.applied, work.status.stale>> #
                <<work.read.status.applied, work.read.status.stale>> => conditions
          /\ WriteConfig([cfg EXCEPT !.status =
                MergePatch(cfg.status, work.read.status, work.status, conditions)])
    BY <1>4 DEF patchStatus
  <2> DEFINE merged == MergePatch(cfg.status, cfg.status, work.status, conditions)
  <2>2. work.read.status = cfg.status /\ work.call = "status"
    BY <1>0, <1>4 DEF WiringInv, RecordInv, ReadCurrent, patchStatus
  <2>3. cfg.status \in Statuses /\ work.status \in Statuses
    BY <1>0 DEF ConfigObjects, Works
  <2>4. merged.phase = work.status.phase /\ merged.url = work.status.url
    BY <2>1, <2>2, <2>3, MergeIsNew
  <2>5. cfg' = [cfg EXCEPT !.status = merged]
    BY <2>1, <2>2 DEF WriteConfig
  <2> HIDE DEF merged
  <2>6. cfg'.status = merged /\ cfg'.exists = cfg.exists /\ cfg'.finalizer = cfg.finalizer
    BY <1>0, <2>5 DEF ConfigObjects
  <2>7. Account' = Account /\ Permitted = NoServer /\ Held' = Held
    BY <1>1, <2>2, <2>4, <2>6 DEF Account, Recorded, Permitted, Held, wasApplied
  <2> QED BY <1>0, <1>1, <2>7 DEF Wiring!wiringVars
<1>5. CASE removeFinalizer
  <2>1. work.call = "finalize" /\ cfg' = [cfg EXCEPT !.exists = FALSE, !.finalizer = FALSE]
    BY <1>5 DEF removeFinalizer, WriteConfig
  <2>2. ~cfg'.exists
    BY <1>0, <2>1 DEF ConfigObjects
  <2>3. conv = NoServer /\ Held /\ Held' = FALSE /\ Account' = NoServer /\ Permitted = NoServer
    BY <1>0, <2>1, <2>2 DEF WiringInv, RecordInv, WebhookRecorded, Held, Account, Permitted
  <2>4. Wiring!Release
    BY <1>0, <1>1, <2>3 DEF Wiring!Release
  <2> QED BY <2>4 DEF Wiring!Next
<1> QED BY <1>2, <1>3, <1>4, <1>5

\* Everybody else: only the target's owner and the gates touch the wiring.
LEMMA WiringOutside ==
    ASSUME Orderly, ~GuardOn, WiringInv,
           \/ UNCHANGED vars \/ CacheSync \/ RequeueAfter \/ EditConfig \/ EditTarget
           \/ RemoveTarget \/ CreateTarget \/ Strip \/ Reassign \/ ServerChanges
           \/ ReconcileNothing \/ ReconcileDelete
    PROVE  [Wiring!Next]_(Wiring!wiringVars)
<1>0. cfg \in ConfigObjects /\ work \in Works \cup {Idle}
  BY DEF WiringInv, RecordInv, TypeOK
<1>1. CASE UNCHANGED <<cfg, work>>
  <2>1. Account' = Account /\ Permitted' = Permitted /\ Held' = Held
    BY <1>1 DEF Account, Recorded, Permitted, Held, wasApplied
  <2>2. CASE UNCHANGED <<conv, server>>
    BY <2>1, <2>2 DEF OpenGates, Wiring!wiringVars
  <2>3. CASE RemoveTarget \/ CreateTarget \/ Strip
    <3>1. conv' = NoServer /\ OpenGates' = OpenGates
      BY <2>3, AdmitCases DEF RemoveTarget, CreateTarget, Strip, WriteTarget, GuardActs, OpenGates
    <3>2. Wiring!Unwire
      BY <2>1, <3>1 DEF Wiring!Unwire
    <3> QED BY <3>2 DEF Wiring!Next
  <2>4. CASE ServerChanges
    <3>1. conv' = conv /\ OpenGates' \subseteq Servers
      BY <2>4 DEF ServerChanges, OpenGates
    <3>2. Wiring!GateMoves
      BY <2>1, <3>1 DEF Wiring!GateMoves
    <3> QED BY <3>2 DEF Wiring!Next
  <2>5. CASE EditConfig \/ ReconcileDelete
    BY <2>2, <2>5 DEF EditConfig, ReconcileDelete, Start, environment
  <2> QED BY <2>2, <2>3, <2>4, <2>5 DEF vars, CacheSync, RequeueAfter, EditTarget, Reassign,
     ReconcileNothing, Start, environment
<1>2. CASE EditConfig
  <2>1. PICK new \in Edited : WriteConfig(new) /\ Outdate(new)
    BY <1>2 DEF EditConfig, Edited
  <2>2. cfg' = new /\ UNCHANGED <<conv, server>>
    BY <1>2, <2>1 DEF EditConfig, WriteConfig
  <2>3. /\ cfg'.status = cfg.status /\ cfg'.finalizer = cfg.finalizer
        /\ cfg.finalizer => cfg'.exists = cfg.exists
        /\ cfg'.exists => cfg.exists
    BY <1>0, <2>1, <2>2 DEF Edited, ConfigObjects
  <2>4. /\ work'.call = work.call
        /\ work.call \in {"status", "apply"} => work'.status = work.status
    <3>1. work' = work \/ (work # Idle /\ work' = [work EXCEPT !.outdated = TRUE])
      BY <2>1 DEF Outdate
    <3>2. CASE work # Idle /\ work' = [work EXCEPT !.outdated = TRUE]
      BY <1>0, <3>2, WorkCases DEF Works
    <3> QED BY <3>1, <3>2
  <2>5. Recorded' = Recorded /\ Permitted' = Permitted
    BY <2>3, <2>4 DEF Recorded, Permitted
  <2>6. ~cfg.finalizer => ~(cfg.exists /\ wasApplied(Recorded))
    <3>1. work # Idle => cfg.finalizer
      BY DEF WiringInv, RecordInv, ReadCurrent
    <3> QED BY <3>1, AtIdle DEF WiringInv, RecordInv, FinalizerHeld
  <2>7. Account' = Account
    BY <2>3, <2>5, <2>6 DEF Account, wasApplied
  <2>8. Held' = Held
    <3>1. CASE cfg.finalizer
      BY <2>3, <3>1 DEF Held
    <3>2. CASE ~cfg.finalizer
      <4>1. Held = FALSE /\ Held' = FALSE
        BY <1>0, <2>3, <3>2 DEF Held, ConfigObjects
      <4> QED BY <4>1
    <3> QED BY <3>1, <3>2
  <2> QED BY <2>2, <2>5, <2>7, <2>8 DEF OpenGates, Wiring!wiringVars
<1>3. CASE ReconcileDelete
  <2>1. work = Idle /\ cache = cfg /\ cfg' = cfg /\ UNCHANGED <<conv, server>>
    BY <1>3 DEF ReconcileDelete, Start, environment, Orderly, WiringInv, RecordInv, CacheTrue
  <2>2. work'.status = cfg.status /\ work'.call # "apply"
    BY <1>3, <2>1 DEF ReconcileDelete, Proceed
  <2>3. Recorded' = Recorded /\ Permitted' = Permitted
    BY <2>1, <2>2, AtIdle DEF Recorded, Permitted
  <2>4. Account' = Account /\ Held' = Held
    BY <2>1, <2>3 DEF Account, Held, wasApplied
  <2> QED BY <2>1, <2>3, <2>4 DEF OpenGates, Wiring!wiringVars
<1> QED BY <1>1, <1>2, <1>3 DEF vars, CacheSync, RequeueAfter, EditTarget, RemoveTarget, CreateTarget,
   Strip, Reassign, ServerChanges, ReconcileNothing

LEMMA WiringNext ==
    ASSUME Orderly, ~GuardOn, WiringInv, WiringInv', [Next]_vars
    PROVE  [Wiring!Next]_(Wiring!wiringVars)
<1>0. ~CallFails /\ ~Crash /\ cfg \in ConfigObjects /\ cfg' \in ConfigObjects
  BY DEF Orderly, WiringInv, RecordInv, TypeOK, CallFails, Crash
<1>1. CASE ReconcileFirst
  <2> DEFINE c == [cfg EXCEPT !.finalizer = TRUE]
  <2>1. /\ reconcileNormal(c, FALSE) /\ cfg' = c /\ work = Idle /\ cfg.exists
        /\ UNCHANGED <<conv, server>>
    BY <1>1 DEF ReconcileFirst, WriteConfig, Start, environment, WiringInv, RecordInv, CacheTrue
  <2>2. c \in ConfigObjects /\ c.status = cfg.status /\ c.exists /\ c.finalizer
    BY <1>0, <2>1 DEF ConfigObjects
  <2>3. Wiring!Next
    BY <2>1, <2>2, WiringDecision DEF WiringInv
  <2> QED BY <2>3
<1>2. CASE ReconcileNormal
  <2>1. /\ cache = cfg /\ reconcileNormal(cfg, lag) /\ cfg' = cfg /\ work = Idle
        /\ cfg.exists /\ cfg.finalizer /\ UNCHANGED <<conv, server>>
    BY <1>2 DEF ReconcileNormal, Start, environment, Orderly, WiringInv, RecordInv, CacheTrue
  <2>2. Wiring!Next
    BY <1>0, <2>1, WiringDecision DEF WiringInv
  <2> QED BY <2>2
<1> QED BY <1>0, <1>1, <1>2, WiringWrite, WiringEnd, WiringOutside DEF Next, Reconcile

\* Without the guard, and where no call fails and no cache lags, the config
\* controller implements TargetWiring: however edits, drift, reassignments and
\* servers going up and down race its calls, a target moves to another server
\* only on the decision of a reconcile that found that server's gate open, the
\* status answers for every webhook, and the finalizer goes last
\* (reconcileNormal, reconcileDelete).
THEOREM ImplementsWiring == Orderly /\ ~GuardOn => (Spec => KeepsWiring)
<1> SUFFICES ASSUME Orderly, ~GuardOn PROVE Spec => KeepsWiring
  OBVIOUS
<1>1. Init => Wiring!Init
  <2> SUFFICES ASSUME Init PROVE Wiring!Init
    OBVIOUS
  <2>1. /\ work = Idle /\ conv = NoServer /\ cfg.status = NewStatus /\ ~cfg.finalizer
    BY DEF Init
  <2>2. NewStatus.phase = ""
    BY DEF NewStatus
  <2>3. ~wasApplied(cfg.status)
    <3>1. "" # "Applied" /\ "" # "Stale"
      OBVIOUS
    <3> QED BY <2>1, <2>2, <3>1 DEF wasApplied
  <2>4. Account = NoServer /\ Permitted = NoServer /\ Held = FALSE
    BY <2>1, <2>3, AtIdle DEF Account, Held
  <2>5. OpenGates \subseteq Servers
    BY DEF OpenGates
  <2> QED BY <2>1, <2>4, <2>5 DEF Wiring!Init
<1>2. Init => URLRecorded /\ CallMeans
  BY DEF Init, URLRecorded, CallMeans, Idle
<1>3. RecordInv /\ URLRecorded /\ CallMeans /\ [Next]_vars => URLRecorded' /\ CallMeans'
  BY URLNext, CallMeansNext DEF RecordInv
<1>4. /\ RecordInv /\ URLRecorded /\ CallMeans
      /\ RecordInv' /\ URLRecorded' /\ CallMeans'
      /\ [Next]_vars
      => [Wiring!Next]_(Wiring!wiringVars)
  BY WiringNext DEF WiringInv
<1>5. GuardLeavesReverts
  BY DEF GuardLeavesReverts
<1> QED BY <1>1, <1>2, <1>3, <1>4, <1>5, RecordAlways, PTL DEF Spec, KeepsWiring, Wiring!Spec

\* What the promise is good for: whoever keeps it answers for every webhook it
\* put on a target, and never lets go of a finalizer while there is one.
LEMMA WiringAccounts == Wiring!Spec => []Wiring!Accounted
<1>1. Wiring!Init => Wiring!Accounted
  BY DEF Wiring!Init, Wiring!Accounted
<1>2. Wiring!Accounted /\ [Wiring!Next]_(Wiring!wiringVars) => Wiring!Accounted'
  <2> SUFFICES ASSUME Wiring!Accounted, [Wiring!Next]_(Wiring!wiringVars)
               PROVE  Wiring!Accounted'
    OBVIOUS
  <2> QED BY Assumed DEF Wiring!Accounted, Wiring!Next, Wiring!wiringVars, Wiring!Permit, Wiring!Point,
       Wiring!Abandon, Wiring!Hold, Wiring!Unwire, Wiring!Release, Wiring!GateMoves
<1> QED BY <1>1, <1>2, PTL DEF Wiring!Spec
=============================================================================
