-------------------------------- MODULE Serving --------------------------------
(***************************************************************************)
(* One webhook-server pod from admission of its instance's rollout to its  *)
(* end: cmd/webhook-server/main.go (cold start, readiness, drain), the     *)
(* conversion endpoint (ConversionServer), the rendered pod (Rollout) and, *)
(* outside the repository, the kubelet (probes, preStop, SIGTERM, SIGKILL) *)
(* and the Service's endpoints.  Time advances in ticks; what the kubelet  *)
(* and the process owe at a deadline happens before the next tick.         *)
(***************************************************************************)
EXTENDS Rollout, ConversionServer

CONSTANTS
    RolloutSpecs,    \* spec.rollout and spec.startupProbe a user may submit
    ArgLists,        \* spec.extraArgs a user may submit
    EndpointDelay,   \* ticks within which a deleted pod leaves the endpoints
    MaxFaults,       \* bound on failures of the manager and of the initial sync
    MaxSwaps         \* bound on changes of the registry

\* Seconds are not negative (the CRD's minimums), versions are strings.
ASSUME ServingAssumption ==
    /\ {DefaultPreStopSleep, DefaultGracePeriod, StartupBudget, RequestTimeout,
        MaxFaults, MaxSwaps} \subseteq Nat
    /\ \A s \in RolloutSpecs : s.preStop \in Nat \cup {Unset} /\ s.grace \in Nat \cup {Unset}
    /\ Requests \subseteq [body : STRING, objects : Seq(STRING), to : STRING]

VARIABLES
    pod,       \* the pod: its template, whether it exists, ticks since deletion
    proc,      \* the process: main's position
    manager,   \* the controller-runtime manager: "up", "failed"
    wedged,    \* the initial sync hangs
    startup,   \* ticks the startupProbe has been failing
    drained,   \* ticks since the drain began
    routed,    \* the Service routes reviews to the pod
    faults, swaps

podVars == <<pod, proc, manager, wedged, startup, drained, routed, faults, swaps>>
vars == <<podVars, serverVars>>

Phases == {"none", "reading", "converting", "answered", "refused", "cut", "killed"}

TypeOK ==
    /\ pod.phase \in {"pending", "live", "deleted", "gone"}
    /\ pod.age \in 0 .. pod.template.grace
    /\ proc \in {"caches", "sync", "ready", "serving", "draining", "exiting", "down"}
    /\ manager \in {"up", "failed"} /\ wedged \in BOOLEAN /\ routed \in BOOLEAN
    /\ startup \in 0 .. StartupBudget
    /\ pod.phase # "pending" => drained \in 0 .. pod.template.drain
    /\ faults \in 0 .. MaxFaults /\ swaps \in 0 .. MaxSwaps
    /\ registry \in Plans \cup {None} /\ lossyTotal \in Nat
    /\ \A r \in Reviews : reviews[r].phase \in Phases /\ reviews[r].spent \in 0 .. RequestTimeout
    /\ routed => pod.phase \in {"live", "deleted"}
    /\ proc \in {"ready", "serving"} => ~wedged

Init ==
    /\ \E s \in {s \in RolloutSpecs \X ArgLists : Admitted(s[1], s[2])} :
         pod = [phase |-> "pending", age |-> 0, spec |-> s[1],
                template |-> reconcileDeployment(s[1], s[2])]
    /\ proc = "down" /\ manager = "up" /\ wedged = FALSE /\ startup = 0 /\ drained = 0
    /\ routed = FALSE /\ faults = 0 /\ swaps = 0
    /\ registry = None /\ reviews = [r \in Reviews |-> NoReview] /\ lossyTotal = 0

Ready == proc \in {"ready", "serving"}
Terminating == pod.phase = "deleted"
Idle == \A r \in Reviews : ~InFlight(r)

-----------------------------------------------------------------------------
(***************************************************************************)
(* cmd/webhook-server/main.go                                              *)
(***************************************************************************)
Cut(how) ==
    reviews' = [r \in Reviews |->
        IF InFlight(r) THEN [NoReview EXCEPT !.phase = how] ELSE reviews[r]]

\* The Deployment's pod is created; a refused strategy creates none.
CreatePod ==
    /\ pod.phase = "pending" /\ StrategyAccepted(rolloutStrategy(pod.spec))
    /\ pod.template.drain # Refused
    /\ pod' = [pod EXCEPT !.phase = "live"]
    /\ UNCHANGED <<proc, manager, wedged, startup, drained, routed, faults, swaps, serverVars>>

\* The container starts, for the first time or again: an empty registry, a new
\* manager, the plain endpoint up, /readyz false.
Start ==
    /\ proc = "down" /\ pod.phase = "live"
    /\ proc' = "caches" /\ manager' = "up" /\ wedged' = FALSE /\ startup' = 0 /\ drained' = 0
    /\ registry' = None
    /\ UNCHANGED <<pod, routed, faults, swaps, reviews, lossyTotal>>

\* The process ends: what its handlers had in hand is lost.
Exit ==
    /\ proc' = "down" /\ Cut("cut")
    /\ UNCHANGED <<pod, manager, wedged, startup, drained, routed, faults, swaps, registry, lossyTotal>>

\* The caches are synced, or the manager is gone first: main exits.
CacheSync ==
    /\ proc = "caches"
    /\ \/ manager = "failed" /\ Exit
       \/ /\ manager = "up" /\ proc' = "sync"
          /\ UNCHANGED <<pod, manager, wedged, startup, drained, routed, faults, swaps, serverVars>>

\* InitialSync compiled every target; the registry holds the plan.
InitialSync ==
    /\ proc = "sync" /\ ~wedged
    /\ \E plan \in Plans : registry' = plan
    /\ proc' = "ready"
    /\ UNCHANGED <<pod, manager, wedged, startup, drained, routed, faults, swaps, reviews, lossyTotal>>

\* The listener of the conversion endpoint opens after SetReady(true).
Listen ==
    /\ proc = "ready" /\ proc' = "serving"
    /\ UNCHANGED <<pod, manager, wedged, startup, drained, routed, faults, swaps, serverVars>>

\* The end of main's last select: a signal, or the manager's exit.  Readiness
\* is withdrawn and the listener closes.
BeginDrain ==
    /\ proc = "serving"
    /\ manager = "failed" \/ (Terminating /\ pod.age >= pod.template.preStop)
    /\ proc' = "draining" /\ drained' = 0
    /\ UNCHANGED <<pod, manager, wedged, startup, routed, faults, swaps, serverVars>>

\* Shutdown returns when no handler runs or its deadline is over.
EndDrain ==
    /\ proc = "draining" /\ (Idle \/ drained = pod.template.drain)
    /\ proc' = "exiting"
    /\ UNCHANGED <<pod, manager, wedged, startup, drained, routed, faults, swaps, serverVars>>

\* Deferred calls (the trace exporter's flush) done, main returns.
Return == proc = "exiting" /\ Exit

\* SIGTERM before the conversion endpoint is up: main returns at once.
AbortStart ==
    /\ proc \in {"caches", "sync"} /\ Terminating /\ pod.age >= pod.template.preStop
    /\ Exit

\* The manager's Start returns an error.
ManagerFails ==
    /\ proc # "down" /\ manager = "up" /\ faults < MaxFaults
    /\ manager' = "failed" /\ faults' = faults + 1
    /\ UNCHANGED <<pod, proc, wedged, startup, drained, routed, swaps, serverVars>>

\* A read of the initial sync never returns, or keeps failing.
SyncWedges ==
    /\ proc = "sync" /\ ~wedged /\ faults < MaxFaults
    /\ wedged' = TRUE /\ faults' = faults + 1
    /\ UNCHANGED <<pod, proc, manager, startup, drained, routed, swaps, serverVars>>

-----------------------------------------------------------------------------
(***************************************************************************)
(* The cluster around the pod                                              *)
(***************************************************************************)
\* Mutant: the probe asks for health, which a wedged process has.
probeHealthz == FALSE

\* The startupProbe polls /readyz: its budget is a deadline on the sync.
StartupExpired ==
    /\ pod.template.startupProbe /\ ~Terminating
    /\ proc \in {"caches", "sync"} /\ startup = StartupBudget

\* The kubelet restarts the container.
StartupKill == StartupExpired /\ Exit

DeletePod ==
    /\ pod.phase = "live"
    /\ pod' = [pod EXCEPT !.phase = "deleted", !.age = 0]
    /\ UNCHANGED <<proc, manager, wedged, startup, drained, routed, faults, swaps, serverVars>>

\* SIGKILL when the grace period is over; a process that has ended is collected.
Kill ==
    /\ Terminating /\ (pod.age = pod.template.grace \/ proc = "down")
    /\ pod' = [pod EXCEPT !.phase = "gone"]
    /\ proc' = "down" /\ routed' = FALSE /\ Cut("killed")
    /\ UNCHANGED <<manager, wedged, startup, drained, faults, swaps, registry, lossyTotal>>

\* The endpoints follow the readiness probe and the deletion.
Route ==
    /\ routed' = (Ready /\ ~Terminating)
    /\ routed' # routed
    /\ pod.phase \in {"live", "deleted"}
    /\ UNCHANGED <<pod, proc, manager, wedged, startup, drained, faults, swaps, serverVars>>

\* The API server sends a review to the pod: taken, or the connection refused.
Send(r, request) ==
    /\ routed /\ reviews[r].phase = "none"
    /\ \/ proc = "serving" /\ Open(r, request)
       \/ /\ proc # "serving"
          /\ reviews' = [reviews EXCEPT ![r].phase = "refused"]
          /\ UNCHANGED <<registry, lossyTotal>>
    /\ UNCHANGED podVars

Reconfigure ==
    /\ proc \in {"ready", "serving", "draining"} /\ manager = "up" /\ swaps < MaxSwaps
    /\ \E plan \in Plans \cup {None} : plan # registry /\ SwapPlan(plan)
    /\ swaps' = swaps + 1
    /\ UNCHANGED <<pod, proc, manager, wedged, startup, drained, routed, faults>>

\* Something is due at this instant.  A cold start that is not wedged takes less
\* than a tick: the budget of the startupProbe is orders of magnitude above it.
Due ==
    \/ proc \in {"caches", "sync", "ready"} /\ ~wedged
    \/ StartupExpired
    \/ Terminating /\ pod.age >= EndpointDelay /\ routed
    \/ Terminating /\ pod.age >= pod.template.preStop
         /\ proc \in {"caches", "sync", "ready", "serving"}
    \/ proc = "draining" /\ (Idle \/ drained = pod.template.drain)
    \/ Terminating /\ (pod.age = pod.template.grace \/ proc = "down")

Later(n, limit) == IF n < limit THEN n + 1 ELSE n

Tick ==
    /\ ~Due
    /\ pod' = IF Terminating THEN [pod EXCEPT !.age = Later(@, pod.template.grace)] ELSE pod
    /\ startup' = IF proc \in {"caches", "sync"} THEN Later(startup, StartupBudget) ELSE startup
    /\ drained' = IF proc = "draining" THEN Later(drained, pod.template.drain) ELSE drained
    /\ reviews' = [r \in Reviews |->
         IF reviews[r].phase = "converting"
         THEN [reviews[r] EXCEPT !.spent = Later(@, RequestTimeout)] ELSE reviews[r]]
    /\ <<pod', startup', drained', reviews'>> # <<pod, startup, drained, reviews>>
    /\ UNCHANGED <<proc, manager, wedged, routed, faults, swaps, registry, lossyTotal>>

-----------------------------------------------------------------------------
Handle(r) == (Begin(r) \/ ConvertObject(r) \/ Finish(r)) /\ UNCHANGED podVars

Process ==
    Start \/ CacheSync \/ InitialSync \/ Listen \/ BeginDrain \/ EndDrain \/ Return \/ AbortStart

Next ==
    \/ CreatePod \/ Process \/ StartupKill \/ Kill \/ Route \/ Tick
    \/ ManagerFails \/ SyncWedges \/ DeletePod \/ Reconfigure
    \/ \E r \in Reviews : Handle(r) \/ \E request \in Requests : Send(r, request)

Fairness ==
    /\ WF_vars(CreatePod) /\ WF_vars(Process) /\ WF_vars(StartupKill) /\ WF_vars(Kill)
    /\ WF_vars(Route) /\ WF_vars(Tick)
    /\ \A r \in Reviews : WF_vars(Handle(r))

Spec == Init /\ [][Next]_vars /\ Fairness

-----------------------------------------------------------------------------
(***************************************************************************)
(* Properties                                                              *)
(***************************************************************************)
\* A review is lost to the end of its process only after a whole drain: an
\* admitted rollout never lets the kubelet's SIGKILL, or an early exit, cut a
\* review the drain would still have waited for (ValidateWebhookServerRollout).
LostOnlyAfterDrain ==
    [][\A r \in Reviews :
         InFlight(r) /\ reviews'[r].phase \in {"cut", "killed"}
           => proc = "exiting" /\ drained = pod.template.drain]_vars

Succeeded(r) == reviews[r].phase = "answered" /\ reviews[r].answer.status = "success"

\* All objects of one answer come from one compiled plan, even when the
\* reconciler swaps the registry's entry between two of them (entry is read
\* once, before the loop of handleConvert).
OnePlanPerReview ==
    \A r \in Reviews : Succeeded(r) =>
        \A i, j \in DOMAIN reviews[r].answer.objects :
            reviews[r].answer.objects[i].plan = reviews[r].answer.objects[j].plan

\* A review is answered whole and in time or not at all: a success returns every
\* object, in the order sent and at the desired version, before the budget is
\* spent, the last object's own conversion included; a failure returns none (the
\* early returns of handleConvert's loop, the check after it, writeReview).
AllOrNothing ==
    \A r \in Reviews : reviews[r].phase = "answered" =>
        LET objects == reviews[r].answer.objects
            request == reviews[r].request
        IN IF Succeeded(r)
           THEN /\ [i \in DOMAIN objects |-> objects[i].from] = request.objects
                /\ \A i \in DOMAIN objects : objects[i].version = request.to
                /\ reviews[r].spent < RequestTimeout
           ELSE objects = <<>>

\* A pod whose startupProbe is on comes to serve, or is deleted first, whatever
\* wedges its initial sync or ends its manager, a bounded number of times (the
\* race of main's cache sync with the manager, the startupProbe on /readyz, the
\* strategies validateRolloutStrategy lets through).
ColdStartCompletes ==
    pod.template.startupProbe ~> (proc = "serving" \/ pod.phase \in {"deleted", "gone"})
=============================================================================
