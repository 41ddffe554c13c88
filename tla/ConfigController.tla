-------------------------- MODULE ConfigController --------------------------
(***************************************************************************)
(* The life of one conversion config and its target:                       *)
(* XRDConversionConfigReconciler (internal/controller) and the XRD         *)
(* conversion guard (internal/webhook).  CRDConversionConfigReconciler is  *)
(* the same algorithm without the guard (GuardOn = FALSE).                 *)
(*                                                                         *)
(* One worker reconciles the config at a time, but a reconcile is several  *)
(* API calls: it reads the config from an informer cache that may lag,     *)
(* writes the target's spec.conversion, then patches the config's status   *)
(* or its finalizer.  Users, Crossplane and the webhook servers act        *)
(* between the calls, each call may fail, and the manager may crash.       *)
(***************************************************************************)
EXTENDS Integers

CONSTANTS
    Servers,       \* ConversionWebhookServers a target may be wired to
    NoServer,      \* no server: no webhook on the target, no URL in status
    Unresolved,    \* assignment does not resolve
    GuardOn,       \* the XRD conversion guard is registered
    StaleReads,    \* a reconcile may start from a lagging config cache
    Policies,      \* drift policies in use
    MaxEdits,      \* bound on outside changes
    MaxFailures,   \* bound on failed API calls
    MaxCrashes     \* bound on manager restarts

ASSUME ConstantsAssumption ==
    /\ NoServer \notin Servers
    /\ Unresolved \notin Servers
    /\ GuardOn \in BOOLEAN
    /\ StaleReads \in BOOLEAN
    /\ Policies \subseteq {"KeepServingStale", "FailClosed"}
    /\ MaxEdits \in Nat
    /\ MaxFailures \in Nat
    /\ MaxCrashes \in Nat

Phases == {"", "Pending", "Invalid", "Applied", "Stale", "Failed"}

\* The Applied condition: absent, True, or False with one of two reasons.
AppliedConditions == {"", "True", "Reverted", "RevertFailed"}

\* url stands for webhookURL, webhookPath and lastAppliedPlanHash, which are
\* written together; applied and stale are the conditions that are read back.
Statuses ==
    [phase : Phases, url : Servers \cup {NoServer},
     applied : AppliedConditions, stale : BOOLEAN]

ConfigObjects ==
    [exists : BOOLEAN, deleting : BOOLEAN, finalizer : BOOLEAN, unsafe : BOOLEAN,
     policy : Policies, status : Statuses]

\* report: what Analyze says of the live schema and the config's rules -
\* "failed" is an error from ToRuleSets or Analyze, "errors" is HasErrors.
Targets ==
    [exists : BOOLEAN, established : BOOLEAN, multiServed : BOOLEAN,
     report : {"ok", "errors", "failed"}]

\* "ready": isServerReady; "serving": ready, and the handover gate lets a
\* target move here.
ServerStates == {"down", "ready", "serving"}

VARIABLES
    cfg,       \* the config in the API server
    cache,     \* the config in the manager's informer cache
    lag,       \* cfg was written after cache was read
    target,    \* the target XRD, but for its spec.conversion
    conv,      \* the server its spec.conversion names, or NoServer
    want,      \* the server the config's assignment resolves to
    server,    \* state of each server
    queued,    \* the config is in the work queue
    timer,     \* a RequeueAfter is pending
    work,      \* the reconcile in progress
    edits, failures, crashes

vars == <<cfg, cache, lag, target, conv, want, server, queued, timer, work,
          edits, failures, crashes>>

environment == <<target, want, server, edits>>

\* The reconcile in progress: the API call it makes next, the config it read,
\* whether cfg was written since, the status it will write, and what happens
\* when it ends.
Calls == {"apply", "revert", "deleteRevert", "finalize", "status"}

Works ==
    [call : Calls, read : ConfigObjects, outdated : BOOLEAN, status : Statuses,
     then : {"done", "timer", "error"}]

Idle == [call |-> "idle"]

TypeOK ==
    /\ cfg \in ConfigObjects
    /\ cache \in ConfigObjects
    /\ lag \in BOOLEAN
    /\ target \in Targets
    /\ conv \in Servers \cup {NoServer}
    /\ want \in Servers \cup {Unresolved}
    /\ server \in [Servers -> ServerStates]
    /\ queued \in BOOLEAN
    /\ timer \in BOOLEAN
    /\ work \in Works \cup {Idle}
    /\ edits \in 0..MaxEdits
    /\ failures \in 0..MaxFailures
    /\ crashes \in 0..MaxCrashes

NewStatus == [phase |-> "", url |-> NoServer, applied |-> "", stale |-> FALSE]

\* A config was just created for a healthy target; only the server it is assigned
\* to has its plan.
Init ==
    /\ cfg \in [exists : {TRUE}, deleting : {FALSE}, finalizer : {FALSE},
                unsafe : {FALSE}, policy : Policies, status : {NewStatus}]
    /\ cache = cfg
    /\ lag = FALSE
    /\ target \in [exists : {TRUE}, established : {TRUE}, multiServed : BOOLEAN,
                   report : {"ok"}]
    /\ conv = NoServer
    /\ want \in Servers
    /\ server = [s \in Servers |-> IF s = want THEN "serving" ELSE "ready"]
    /\ queued = TRUE
    /\ timer = FALSE
    /\ work = Idle
    /\ edits = 0
    /\ failures = 0
    /\ crashes = 0

-----------------------------------------------------------------------------
(* Pieces of the reconciler.                                               *)

\* Mutant: only Applied counts as applied.
wasAppliedOnly(status) == status.phase = "Applied"

wasApplied(status) == status.phase \in {"Applied", "Stale"}

\* setInvalid and setPhasePendingOrStale: a config that was applied becomes
\* Stale instead.
OrStale(status, phase) ==
    [status EXCEPT !.phase = IF wasApplied(status) THEN "Stale" ELSE phase,
                   !.stale = wasApplied(status)]

failClosedShouldRevert(c) ==
    /\ c.policy = "FailClosed"
    /\ \/ c.status.phase = "Applied"
       \/ c.status.phase = "Failed" /\ c.status.applied = "RevertFailed"

\* Mutant: the gate closes for configs in phase Applied only, and so opens
\* after the one pass that leaves the config Stale.
movingWhenApplied(c) ==
    c.status.phase = "Applied" /\ c.status.url # NoServer /\ c.status.url # want

movingServers(c) ==
    wasApplied(c.status) /\ c.status.url # NoServer /\ c.status.url # want

\* Mutant: the URL is only recorded by the first apply.
AppliedKeepsURL(status) ==
    [status EXCEPT !.phase = "Applied",
                   !.url = IF status.url = NoServer THEN want ELSE status.url,
                   !.applied = "True", !.stale = FALSE]

\* What a successful apply records.
Applied(status) ==
    [status EXCEPT !.phase = "Applied", !.url = want, !.applied = "True", !.stale = FALSE]

\* What a FailClosed revert records, with reason Reverted or RevertFailed.
Torn(status, reason) ==
    [status EXCEPT !.phase = "Failed", !.applied = reason, !.stale = FALSE]

\* Mutant: the break-glass annotation is ignored.
deletionBlockedAlways(c) == target.multiServed

\* countServedVersions > 1 without the break-glass annotation.
deletionBlocked(c) == target.multiServed /\ ~c.unsafe

\* A JSON merge patch of status from the config that was read: only fields
\* that differ from it are written, and conditions are one field.  Conditions
\* not modelled here may change too, so the list may be written either way.
MergePatch(live, orig, new, conditions) ==
    [phase   |-> IF new.phase # orig.phase THEN new.phase ELSE live.phase,
     url     |-> IF new.url # orig.url THEN new.url ELSE live.url,
     applied |-> IF conditions THEN new.applied ELSE live.applied,
     stale   |-> IF conditions THEN new.stale ELSE live.stale]

\* shouldRestoreConversion and applyConversionToXRD: what the guard turns a
\* write of spec.conversion into.  It reads the config from the same cache.
Restored(submitted) ==
    IF /\ cache.exists
       /\ ~cache.deleting
       /\ cache.status.applied = "True"
       /\ cache.status.url # NoServer
      THEN cache.status.url
      ELSE submitted

\* failurePolicy Ignore: where calls fail, the guard may be skipped.
Admit(submitted) ==
    IF GuardOn
      THEN {Restored(submitted)} \cup (IF MaxFailures > 0 THEN {submitted} ELSE {})
      ELSE {submitted}

\* A write of the config: the cache is behind until it hears of it, and a
\* patch that carries an earlier resourceVersion will conflict.
WriteConfig(new) ==
    /\ cfg' = new
    /\ lag' = (lag \/ new # cfg)
    /\ cache' = cache

\* work after cfg was written by somebody else
Outdate(new) ==
    work' = IF work = Idle \/ new = cfg THEN work ELSE [work EXCEPT !.outdated = TRUE]

\* Mutant: the target is not watched.
WriteTargetSilently(submitted) ==
    /\ conv' \in Admit(submitted)
    /\ queued' = queued

\* A write of the target's spec.conversion is an event on the target.
WriteTarget(submitted) ==
    /\ conv' \in Admit(submitted)
    /\ queued' = (queued \/ conv' # conv)

Finish(again) ==
    /\ work' = Idle
    /\ timer' = (timer \/ again = "timer")

-----------------------------------------------------------------------------
(* Reconcile: the reads and the decision, up to the first write.           *)

Start ==
    /\ work = Idle
    /\ queued
    /\ lag => StaleReads
    /\ queued' = FALSE
    /\ UNCHANGED <<conv, timer, environment, failures, crashes>>

\* The reconcile goes on to call, having read config c.
Proceed(c, outdated, call, status, then) ==
    work' = [call |-> call, read |-> c, outdated |-> outdated, status |-> status,
             then |-> then]

\* The config is gone, or is releasing: nothing to do.
ReconcileNothing ==
    /\ Start
    /\ ~cache.exists \/ (cache.deleting /\ ~cache.finalizer)
    /\ UNCHANGED <<cfg, cache, lag, work>>

\* The decision of reconcileNormal on config c.
reconcileNormal(c, outdated) ==
    LET status == c.status
        Goto(call, new, then) == Proceed(c, outdated, call, new, then)
    IN  \/ /\ \/ ~target.exists
              \/ target.report = "failed"
              \/ target.report = "ok" /\ want = Unresolved
           /\ Goto("status", OrStale(status, "Invalid"), "done")
        \/ /\ target.exists /\ target.report = "errors"
           /\ IF failClosedShouldRevert(c)
                THEN Goto("revert", Torn(status, "Reverted"), "done")
                ELSE Goto("status", OrStale(status, "Invalid"), "done")
        \/ /\ target.exists /\ target.report = "ok" /\ want # Unresolved
           /\ IF \/ ~target.established
                 \/ server[want] = "down"
                 \/ movingServers(c) /\ server[want] # "serving"
                THEN Goto("status", OrStale(status, "Pending"), "timer")
                ELSE Goto("apply", Applied(status), "timer")

ReconcileNormal ==
    /\ Start
    /\ cache.exists /\ ~cache.deleting /\ cache.finalizer
    /\ reconcileNormal(cache, lag)
    /\ UNCHANGED <<cfg, cache, lag>>

\* addFinalizer first: its patch carries the resourceVersion read, so it goes
\* through only when the cache is current, and returns the object it wrote;
\* otherwise it conflicts and the item stays queued.
ReconcileFirst ==
    /\ Start
    /\ cache.exists /\ ~cache.deleting /\ ~cache.finalizer
    /\ ~lag
    /\ reconcileNormal([cfg EXCEPT !.finalizer = TRUE], FALSE)
    /\ WriteConfig([cfg EXCEPT !.finalizer = TRUE])

\* reconcileDelete.
ReconcileDelete ==
    /\ Start
    /\ cache.exists /\ cache.deleting /\ cache.finalizer
    /\ LET Goto(call, then) == Proceed(cache, lag, call, cache.status, then)
       IN  \/ /\ ~wasApplied(cache.status) \/ ~target.exists
              /\ Goto("finalize", "done")
           \/ /\ wasApplied(cache.status) /\ target.exists
              /\ IF deletionBlocked(cache)
                   THEN Goto("status", "timer")
                   ELSE Goto("deleteRevert", "done")
    /\ UNCHANGED <<cfg, cache, lag>>

\* removeFinalizer on an outdated read: the patch conflicts and is retried.
FinalizerConflict ==
    /\ work.call = "finalize"
    /\ work.outdated
    /\ queued' = TRUE
    /\ Finish("error")
    /\ UNCHANGED <<cfg, cache, lag, conv, environment, failures, crashes>>

-----------------------------------------------------------------------------
(* The writes.                                                             *)

\* Mutant: the assignment is resolved again for the write.
ApplyCurrentAssignment ==
    /\ work.call = "apply"
    /\ target.exists
    /\ WriteTarget(IF want = Unresolved THEN work.status.url ELSE want)
    /\ work' = [work EXCEPT !.call = "status"]
    /\ UNCHANGED <<cfg, cache, lag, timer, environment, failures, crashes>>

\* applyConversionPatch: server-side apply, which cannot create the target.
ApplyConversion ==
    /\ work.call = "apply"
    /\ target.exists
    /\ WriteTarget(work.status.url)
    /\ work' = [work EXCEPT !.call = "status"]
    /\ UNCHANGED <<cfg, cache, lag, timer, environment, failures, crashes>>

\* Mutant: a target that is not Established is not reverted.
RevertEstablishedOnly ==
    /\ work.call \in {"revert", "deleteRevert"}
    /\ IF target.exists /\ target.established
         THEN WriteTarget(NoServer)
         ELSE UNCHANGED <<conv, queued>>
    /\ work' = [work EXCEPT !.call = IF work.call = "revert" THEN "status" ELSE "finalize"]
    /\ UNCHANGED <<cfg, cache, lag, timer, environment, failures, crashes>>

\* revertXRD: strategy None; a target that is gone counts as reverted.
Revert ==
    /\ work.call \in {"revert", "deleteRevert"}
    /\ IF target.exists THEN WriteTarget(NoServer) ELSE UNCHANGED <<conv, queued>>
    /\ work' = [work EXCEPT !.call = IF work.call = "revert" THEN "status" ELSE "finalize"]
    /\ UNCHANGED <<cfg, cache, lag, timer, environment, failures, crashes>>

patchStatus ==
    /\ work.call = "status"
    /\ \E conditions \in BOOLEAN :
         LET orig == work.read.status
             new  == work.status
         IN  /\ <<new.applied, new.stale>> # <<orig.applied, orig.stale>> => conditions
             /\ WriteConfig([cfg EXCEPT !.status =
                                MergePatch(cfg.status, orig, new, conditions)])
    /\ queued' = (queued \/ work.then = "error")
    /\ Finish(work.then)
    /\ UNCHANGED <<conv, environment, failures, crashes>>

\* removeFinalizer on a current read: the config disappears.
removeFinalizer ==
    /\ work.call = "finalize"
    /\ ~work.outdated
    /\ WriteConfig([cfg EXCEPT !.exists = FALSE, !.finalizer = FALSE])
    /\ Finish("done")
    /\ UNCHANGED <<conv, queued, environment, failures, crashes>>

\* The target is gone before it is patched: an error, and a retry.
ApplyNotFound ==
    /\ work.call = "apply"
    /\ ~target.exists
    /\ queued' = TRUE
    /\ Finish("error")
    /\ UNCHANGED <<cfg, cache, lag, conv, environment, failures, crashes>>

\* Any other failed call.  A failed FailClosed revert is recorded as such; all
\* other errors return at once.  Both requeue the config.
CallFails ==
    /\ work # Idle
    /\ failures < MaxFailures
    /\ failures' = failures + 1
    /\ IF work.call = "revert"
         THEN /\ work' = [work EXCEPT !.call = "status", !.then = "error",
                                      !.status = Torn(work.read.status, "RevertFailed")]
              /\ UNCHANGED <<queued, timer>>
         ELSE queued' = TRUE /\ Finish("error")
    /\ UNCHANGED <<cfg, cache, lag, conv, environment, crashes>>

-----------------------------------------------------------------------------
(* The manager's runtime.                                                  *)

\* The informer catches up and enqueues the config.
CacheSync ==
    /\ lag
    /\ cache' = cfg
    /\ lag' = FALSE
    /\ queued' = TRUE
    /\ UNCHANGED <<cfg, conv, timer, work, environment, failures, crashes>>

RequeueAfter ==
    /\ timer
    /\ timer' = FALSE
    /\ queued' = TRUE
    /\ UNCHANGED <<cfg, cache, lag, conv, work, environment, failures, crashes>>

\* The manager restarts: caches are listed afresh and every config enqueued.
Crash ==
    /\ crashes < MaxCrashes
    /\ crashes' = crashes + 1
    /\ work' = Idle
    /\ cache' = cfg
    /\ lag' = FALSE
    /\ queued' = TRUE
    /\ timer' = FALSE
    /\ UNCHANGED <<cfg, conv, environment, failures>>

-----------------------------------------------------------------------------
(* Everybody else.                                                         *)

Edit ==
    /\ edits < MaxEdits
    /\ edits' = edits + 1
    /\ UNCHANGED <<timer, failures, crashes>>

\* A user edits the config: its drift policy, the break-glass annotation, or
\* a delete, which removes the object at once when it has no finalizer.
EditConfig ==
    /\ Edit
    /\ cfg.exists
    /\ \E new \in
           {[cfg EXCEPT !.policy = p] : p \in Policies} \cup
           {[cfg EXCEPT !.unsafe = TRUE]} \cup
           {IF cfg.finalizer THEN [cfg EXCEPT !.deleting = TRUE]
                             ELSE [cfg EXCEPT !.exists = FALSE]} :
         /\ new # cfg
         /\ WriteConfig(new)
         /\ Outdate(new)
    /\ UNCHANGED <<target, conv, want, server, queued>>

\* The target's health, versions or schema change.
EditTarget ==
    /\ Edit
    /\ target.exists
    /\ \E new \in
           {[target EXCEPT !.established = ~target.established],
            [target EXCEPT !.multiServed = ~target.multiServed]} \cup
           {[target EXCEPT !.report = r] : r \in {"ok", "errors", "failed"} \ {target.report}} :
         target' = new
    /\ queued' = TRUE
    /\ UNCHANGED <<cfg, cache, lag, conv, want, server, work>>

RemoveTarget ==
    /\ Edit
    /\ target.exists
    /\ target' = [target EXCEPT !.exists = FALSE]
    /\ conv' = NoServer
    /\ queued' = TRUE
    /\ UNCHANGED <<cfg, cache, lag, want, server, work>>

\* The guard sees creations too.
CreateTarget ==
    /\ Edit
    /\ ~target.exists
    /\ target' = [target EXCEPT !.exists = TRUE]
    /\ conv' \in Admit(NoServer)
    /\ queued' = TRUE
    /\ UNCHANGED <<cfg, cache, lag, want, server, work>>

\* Crossplane's package establisher replaces the XRD without spec.conversion.
Strip ==
    /\ Edit
    /\ target.exists /\ conv # NoServer
    /\ WriteTarget(NoServer)
    /\ UNCHANGED <<cfg, cache, lag, target, want, server, work>>

\* The fan-out of module Assignment enqueues the config for both.
Reassign ==
    /\ Edit
    /\ want' \in (Servers \cup {Unresolved}) \ {want}
    /\ queued' = TRUE
    /\ UNCHANGED <<cfg, cache, lag, target, conv, server, work>>

\* An instance's readiness is an event for its configs.  Its handover gate may
\* move without one: a Lease grows old, the grace period passes.
ServerChanges ==
    /\ Edit
    /\ \E s \in Servers, state \in ServerStates, event \in BOOLEAN :
         /\ server[s] # state
         /\ server' = [server EXCEPT ![s] = state]
         /\ "down" \in {server[s], state} => event
         /\ queued' = (queued \/ event)
    /\ UNCHANGED <<cfg, cache, lag, target, conv, want, work>>

-----------------------------------------------------------------------------
Reconcile ==
    \/ ReconcileNothing
    \/ ReconcileFirst
    \/ ReconcileNormal
    \/ ReconcileDelete
    \/ FinalizerConflict
    \/ ApplyConversion
    \/ Revert
    \/ patchStatus
    \/ removeFinalizer
    \/ ApplyNotFound

Next ==
    \/ Reconcile
    \/ CallFails
    \/ CacheSync
    \/ RequeueAfter
    \/ Crash
    \/ EditConfig
    \/ EditTarget
    \/ RemoveTarget
    \/ CreateTarget
    \/ Strip
    \/ Reassign
    \/ ServerChanges

Spec == Init /\ [][Next]_vars

\* The worker keeps taking items, calls return, watches deliver, timers fire.
Fairness ==
    /\ WF_vars(Reconcile)
    /\ WF_vars(CacheSync)
    /\ WF_vars(RequeueAfter)

FairSpec == Spec /\ Fairness

-----------------------------------------------------------------------------
(* Properties.                                                             *)

\* Nothing is left to do until the next event or timer.
Quiescent == work = Idle /\ ~queued /\ ~lag

\* Deleting a config never leaves its webhook on the target (reconcileDelete:
\* "never remove the finalizer ... while reverting ... would risk serving CRs
\* in the wrong shape"): once the config is gone the target is reverted.
NoOrphanWebhook == ~cfg.exists => conv = NoServer

\* A config whose status says the webhook was reverted (Applied=False, reason
\* Reverted) has no webhook on its target, once nothing is left to do.
RevertedIsHonest ==
    (Quiescent /\ cfg.exists /\ cfg.status.applied = "Reverted") => conv = NoServer

\* status.webhookURL is "the one field that reflects the target rather than the
\* intention" (TargetPointsAt): at rest, a target that carries a webhook
\* carries the one its applied config records.
URLReflectsTarget ==
    (Quiescent /\ cfg.exists /\ cfg.status.applied = "True" /\ conv # NoServer)
        => conv = cfg.status.url

\* The status the config has, or will have once the write of the target that
\* was made is recorded.
Recorded == IF work.call = "status" THEN work.status ELSE cfg.status

\* The server the config answers for, the one the reconcile in progress will
\* write, and the servers a target may be moved to.
Account == IF cfg.exists /\ wasApplied(Recorded) THEN Recorded.url ELSE NoServer
Permitted == IF work.call = "apply" THEN work.status.url ELSE NoServer
Held == cfg.exists /\ cfg.finalizer
OpenGates == {s \in Servers : server[s] = "serving"}

Wiring == INSTANCE TargetWiring WITH
    wire <- conv, account <- Account, permit <- Permitted, held <- Held, open <- OpenGates

\* The reconciler keeps the promise of TargetWiring, although it judges a move
\* by the URL its status recorded and not by the target: the target moves to
\* another server only if a reconcile found that server's handover gate open
\* ("So the move waits"), it is pointed where that reconcile decided, the
\* status answers for what was written, and the finalizer goes last.
KeepsWiring == Wiring!Spec

\* driftPolicy FailClosed "stops serving conversions as soon as drift is
\* detected": at rest, a drifted target under FailClosed carries no webhook.
FailClosedStopsServing ==
    (/\ Quiescent
     /\ cfg.exists /\ ~cfg.deleting /\ cfg.policy = "FailClosed"
     /\ target.exists /\ target.report = "errors")
        => conv = NoServer

Healthy ==
    /\ cfg.exists /\ ~cfg.deleting
    /\ target.exists /\ target.established /\ target.report = "ok"
    /\ want \in Servers /\ server[want] = "serving"

Wired ==
    /\ conv = want
    /\ cfg.status.url = want
    /\ cfg.status.phase = "Applied"
    /\ cfg.status.applied = "True"
    /\ ~cfg.status.stale

\* A move the handover gate refused, to be tried again by the timer.
Polling == timer /\ cfg.status.stale /\ movingServers(cfg)

\* No wakeup is lost: whenever the controller is at rest with every gate open,
\* the target points at the assigned server and the status says so, whatever
\* raced, failed or was read from a stale cache on the way.  Only the opening of
\* a handover gate may go unnoticed, and then the refused move is being polled.
RestsOnlyWhenWired == (Quiescent /\ Healthy) => Wired \/ Polling

\* The controller converges: once changes stop, a healthy config ends up wired
\* and stays so.
EventuallyWired == <>[](Healthy => Wired)

\* A delete completes once the target may be reverted: it cannot stay pending
\* forever on a target that serves one version, or with the annotation set.
DeletionCompletes ==
    <>[](cfg.exists /\ cfg.deleting => target.exists /\ target.multiServed /\ ~cfg.unsafe)
=============================================================================
