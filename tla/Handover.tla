------------------------------ MODULE Handover ------------------------------
(***************************************************************************)
(* Moving a target from one ConversionWebhookServer to another.            *)
(*                                                                         *)
(* The replicas of every server keep their own registry of compiled plans  *)
(* (internal/webhookserver), driven by their own watches, and publish what *)
(* they can serve in a Lease each.  The manager's handover gate            *)
(* (internal/controller/servedtargets.go) reads the Leases and repoints    *)
(* the target's spec.conversion only when it is satisfied.  The API server *)
(* keeps calling the old server for a while after that.                    *)
(*                                                                         *)
(* One target with an applied config.  Time is counted in ticks; a watch   *)
(* event, a reconcile and an API call each take less than a tick, but they *)
(* interleave freely within one.                                           *)
(***************************************************************************)
EXTENDS Integers, Sequences, FiniteSets

CONSTANTS
    Servers, Replicas,
    ServerOf,       \* the server a replica belongs to
    Home,           \* the server that serves the target at first
    NoServer,
    Mute,           \* replicas that cannot write Leases
    Grace,          \* UnreportedGracePeriod, in ticks
    StaleAfter,     \* a Lease older than this is ignored
    DrainPeriod,    \* TargetDrainPeriod
    RouteLag,       \* the API server's refresh takes at most this long
    MayReturn,      \* a target may be assigned to a server that had it before
    MaxMoves, MaxRestarts, MaxDrifts, MaxDeletes

ASSUME ConstantsAssumption ==
    /\ IsFiniteSet(Replicas)
    /\ ServerOf \in [Replicas -> Servers]
    /\ Home \in Servers
    /\ NoServer \notin Servers
    /\ Mute \subseteq Replicas
    /\ Grace \in Nat /\ StaleAfter \in Nat /\ DrainPeriod \in Nat /\ RouteLag \in Nat
    /\ MaxMoves \in Nat /\ MaxRestarts \in Nat /\ MaxDrifts \in Nat /\ MaxDeletes \in Nat
    /\ MayReturn \in BOOLEAN

ReplicasOf(s) == {r \in Replicas : ServerOf[r] = s}

ConfigObjects == [want : Servers, deleting : BOOLEAN]

TargetObjects == [conv : Servers, valid : BOOLEAN]

\* What a replica's registry holds for the target: nothing, an entry without a
\* Router, or a compiled plan.
Entries == {"none", "error", "plan"}

NoDrain == DrainPeriod + 1

NotCalled == RouteLag + 1

NoLease == [age |-> StaleAfter + 1, serves |-> FALSE]

VARIABLES
    config,   \* assignment and deletion timestamp of the config
    target,   \* the server its spec.conversion names; does Analyze accept it
    route,    \* for a server the API server still calls, the ticks since the
              \* target last named it; otherwise NotCalled
    view,     \* config and target in each replica's informer stores
    watch,    \* versions of them not delivered to the replica yet
    queue,    \* replicas with the config in their work queue
    entry,    \* each replica's registry
    drain,    \* ticks left of a drain, or NoDrain
    up,       \* "down", "synced" (after InitialSync) or "ready"
    lease,    \* each replica's Lease
    ready,    \* status.readyReplicas of each server
    cond,     \* the HandoverReady condition and the age of its last change
    move,     \* the server the manager is about to repoint the target to
    \* history and bounds
    waited,   \* ticks since the present assignment was first refused, capped
    reborn,   \* replicas that restarted and have not held a plan since
    owners,   \* servers the target was ever assigned to
    moves, restarts, drifts, deletes

managerVars == <<cond, move, waited>>
replicaVars == <<queue, entry, drain, up, reborn>>
bounds == <<owners, moves, restarts, drifts, deletes>>
vars == <<config, target, route, view, watch, lease, ready,
          managerVars, replicaVars, bounds>>

Idle == [to |-> NoServer, verified |-> TRUE]

TypeOK ==
    /\ config \in ConfigObjects
    /\ target \in TargetObjects
    /\ route \in [Servers -> 0..NotCalled]
    /\ view \in [Replicas -> [config : ConfigObjects, target : TargetObjects]]
    /\ watch \in [Replicas -> [config : Seq(ConfigObjects), target : Seq(TargetObjects)]]
    /\ queue \subseteq Replicas
    /\ entry \in [Replicas -> Entries]
    /\ drain \in [Replicas -> 0..NoDrain]
    /\ up \in [Replicas -> {"down", "synced", "ready"}]
    /\ lease \in [Replicas -> [age : 0..(StaleAfter + 1), serves : BOOLEAN]]
    /\ ready \in [Servers -> 0..Cardinality(Replicas)]
    /\ cond \in [status : {"", "True", "False"}, age : 0..Grace]
    /\ move \in [to : Servers \cup {NoServer}, verified : BOOLEAN]
    /\ waited \in -1..Grace
    /\ reborn \subseteq Replicas
    /\ owners \subseteq Servers
    /\ moves \in 0..MaxMoves
    /\ restarts \in 0..MaxRestarts
    /\ drifts \in 0..MaxDrifts
    /\ deletes \in 0..MaxDeletes

\* The target is served at Home and everything has settled.
Init ==
    /\ config = [want |-> Home, deleting |-> FALSE]
    /\ target = [conv |-> Home, valid |-> TRUE]
    /\ route = [s \in Servers |-> IF s = Home THEN 0 ELSE NotCalled]
    /\ view = [r \in Replicas |-> [config |-> config, target |-> target]]
    /\ watch = [r \in Replicas |-> [config |-> <<>>, target |-> <<>>]]
    /\ queue = {}
    /\ entry = [r \in Replicas |-> IF ServerOf[r] = Home THEN "plan" ELSE "none"]
    /\ drain = [r \in Replicas |-> NoDrain]
    /\ up = [r \in Replicas |-> "ready"]
    /\ lease = [r \in Replicas |->
                  IF r \in Mute THEN NoLease
                                ELSE [age |-> 0, serves |-> ServerOf[r] = Home]]
    /\ ready = [s \in Servers |-> Cardinality(ReplicasOf(s))]
    /\ cond = [status |-> "", age |-> 0]
    /\ move = Idle
    /\ waited = -1
    /\ reborn = {}
    /\ owners = {Home}
    /\ moves = 0
    /\ restarts = 0
    /\ drifts = 0
    /\ deletes = 0

-----------------------------------------------------------------------------
(* Writes to the API server: every running replica's watch will deliver    *)
(* them, config and target each in order.                                  *)

Running(r) == up[r] # "down"

WriteConfig(new) ==
    /\ config' = new
    /\ watch' = [r \in Replicas |->
                   IF Running(r) THEN [watch[r] EXCEPT !.config = Append(@, new)] ELSE watch[r]]

WriteTarget(new) ==
    /\ target' = new
    /\ watch' = [r \in Replicas |->
                   IF Running(r) THEN [watch[r] EXCEPT !.target = Append(@, new)] ELSE watch[r]]

Reassign ==
    /\ moves < MaxMoves
    /\ moves' = moves + 1
    /\ ~config.deleting
    /\ \E s \in Servers \ {config.want} :
         /\ s \in owners => MayReturn
         /\ WriteConfig([config EXCEPT !.want = s])
         /\ owners' = owners \cup {s}
    /\ waited' = -1
    /\ UNCHANGED <<target, route, view, lease, ready, cond, move,
                   replicaVars, restarts, drifts, deletes>>

\* The schema drifts away from the config's rules, or is repaired.
Drift ==
    /\ drifts < MaxDrifts
    /\ drifts' = drifts + 1
    /\ WriteTarget([target EXCEPT !.valid = ~target.valid])
    /\ UNCHANGED <<config, route, view, lease, ready, managerVars,
                   replicaVars, owners, moves, restarts, deletes>>

\* The config is deleted while its target serves several versions: the manager
\* holds the finalizer and leaves the target as it is.
Delete ==
    /\ deletes < MaxDeletes
    /\ deletes' = deletes + 1
    /\ ~config.deleting
    /\ WriteConfig([config EXCEPT !.deleting = TRUE])
    /\ UNCHANGED <<target, route, view, lease, ready, managerVars,
                   replicaVars, owners, moves, restarts, drifts>>

-----------------------------------------------------------------------------
(* The replica's reconciler.                                               *)

Pending(r) == watch[r].config # <<>> \/ watch[r].target # <<>>

\* The informer delivers the next version of the config or of the target.
Observe(r) ==
    /\ Running(r)
    /\ \E kind \in {"config", "target"} :
         /\ watch[r][kind] # <<>>
         /\ view' = [view EXCEPT ![r][kind] = Head(watch[r][kind])]
         /\ watch' = [watch EXCEPT ![r][kind] = Tail(watch[r][kind])]
    /\ queue' = queue \cup {r}
    /\ UNCHANGED <<config, target, route, entry, drain, up, reborn,
                   lease, ready, managerVars, bounds>>

mine(r, v) == v.config.want = ServerOf[r]

\* Mutant: the assignment is taken for where the target points.
pointsWhereAssigned(r, v) == v.config.want = ServerOf[r]

xrdPointsAtServer(r, v) == v.target.conv = ServerOf[r]

\* recordFailure keeps a plan that is already there.
compileAndRegister(old, v) ==
    IF v.target.valid THEN "plan" ELSE IF old = "plan" THEN "plan" ELSE "error"

\* Mutant: every reconcile starts the drain again.
DrainRestarts(r, old) == IF old = "none" THEN NoDrain ELSE DrainPeriod

\* The drain clock after this reconcile: it runs only where something is held,
\* starts once, and is cleared when it has run out.
drainRemaining(r, old) ==
    IF old = "none" \/ drain[r] = 0 THEN NoDrain
    ELSE IF drain[r] = NoDrain THEN DrainPeriod
    ELSE drain[r]

\* reconcileOneXRD on the stores v, with the registry holding old: a plan is
\* held while the target is assigned here or names this server's Service; after
\* that it is drained, or forgotten at once when the config is being deleted.
reconcileOneXRD(r, v, old) ==
    LET keep == ~v.config.deleting /\ (mine(r, v) \/ xrdPointsAtServer(r, v))
        wait == ~v.config.deleting /\ ~keep /\ drainRemaining(r, old) # NoDrain
        new  == IF keep THEN compileAndRegister(old, v) ELSE IF wait THEN old ELSE "none"
    IN  /\ entry' = [entry EXCEPT ![r] = new]
        /\ drain' = [drain EXCEPT ![r] = IF wait THEN drainRemaining(r, old) ELSE NoDrain]
        /\ reborn' = IF new = "plan" THEN reborn \ {r} ELSE reborn

\* A watch event, or the requeue at the end of the drain.
ReconcileReplica(r) ==
    /\ Running(r)
    /\ r \in queue \/ drain[r] = 0
    /\ reconcileOneXRD(r, view[r], entry[r])
    /\ queue' = queue \ {r}
    /\ UNCHANGED <<config, target, route, view, watch, up, lease, ready,
                   managerVars, bounds>>

-----------------------------------------------------------------------------
(* The publisher.                                                          *)

servableTargets(r) == entry[r] = "plan"

\* What Publish stamps: the set as it is now, renewed now.
stamp(r) == [age |-> 0, serves |-> servableTargets(r)]

Publish(r) ==
    /\ up[r] = "ready"
    /\ r \notin Mute
    /\ lease[r] # stamp(r)
    /\ lease' = [lease EXCEPT ![r] = stamp(r)]
    /\ UNCHANGED <<config, target, route, view, watch, ready, managerVars,
                   replicaVars, bounds>>

\* The process dies: the pod restarts its container and keeps its Lease, or the
\* pod is replaced and the Lease is collected with it.
Restart(r) ==
    /\ restarts < MaxRestarts
    /\ restarts' = restarts + 1
    /\ Running(r)
    /\ up' = [up EXCEPT ![r] = "down"]
    /\ entry' = [entry EXCEPT ![r] = "none"]
    /\ drain' = [drain EXCEPT ![r] = NoDrain]
    /\ queue' = queue \ {r}
    /\ watch' = [watch EXCEPT ![r] = [config |-> <<>>, target |-> <<>>]]
    /\ reborn' = reborn \cup {r}
    /\ lease' \in {lease, [lease EXCEPT ![r] = NoLease]}
    /\ UNCHANGED <<config, target, route, view, ready, managerVars,
                   owners, moves, drifts, deletes>>

\* A new process lists afresh and runs every config through one reconcile.
InitialSync(r) ==
    /\ up[r] = "down"
    /\ LET fresh == [config |-> config, target |-> target] IN
         /\ view' = [view EXCEPT ![r] = fresh]
         /\ reconcileOneXRD(r, fresh, "none")
    /\ up' = [up EXCEPT ![r] = "synced"]
    /\ UNCHANGED <<config, target, route, watch, queue, lease, ready,
                   managerVars, bounds>>

\* It publishes before it reports ready.
SetReady(r) ==
    /\ up[r] = "synced"
    /\ up' = [up EXCEPT ![r] = "ready"]
    /\ lease' = IF r \in Mute THEN lease ELSE [lease EXCEPT ![r] = stamp(r)]
    /\ UNCHANGED <<config, target, route, view, watch, queue, entry, drain,
                   reborn, ready, managerVars, bounds>>

ReadyOf(s) == Cardinality({r \in ReplicasOf(s) : up[r] = "ready"})

\* The server controller copies the Deployment's readyReplicas.
UpdateReady(s) ==
    /\ ready[s] # ReadyOf(s)
    /\ ready' = [ready EXCEPT ![s] = ReadyOf(s)]
    /\ UNCHANGED <<config, target, route, view, watch, lease, managerVars,
                   replicaVars, bounds>>

-----------------------------------------------------------------------------
(* The manager's handover gate.                                            *)

Reporting(s) == {r \in ReplicasOf(s) : lease[r].age <= StaleAfter}

\* Mutant: one replica that serves the target is enough.
AggregateUnion(s) == \E r \in Reporting(s) : lease[r].serves

\* The intersection over live Leases.
Aggregate(s) == \A r \in Reporting(s) : lease[r].serves

blockedFor == IF cond.status = "False" THEN cond.age ELSE 0

\* canServeTarget, for a server with ready replicas and a non-truncated report.
canServeTarget(s) ==
    IF Reporting(s) = {}
      THEN blockedFor >= Grace
      ELSE Cardinality(Reporting(s)) >= ready[s] /\ Aggregate(s)

\* A reconcile that is a move, up to the gate's verdict.  (isServerReady and the
\* validation of the target come first.)
CheckHandover ==
    /\ move = Idle
    /\ ~config.deleting /\ target.valid
    /\ config.want # target.conv
    /\ ready[config.want] > 0
    /\ IF canServeTarget(config.want)
         THEN /\ move' = [to |-> config.want, verified |-> Reporting(config.want) # {}]
              /\ UNCHANGED <<cond, waited>>
         ELSE /\ cond' = IF cond.status = "False" THEN cond ELSE [status |-> "False", age |-> 0]
              /\ waited' = IF waited = -1 THEN 0 ELSE waited
              /\ move' = Idle
    /\ managerVars' # managerVars
    /\ UNCHANGED <<config, target, route, view, watch, lease, ready,
                   replicaVars, bounds>>

\* applyConversionPatch and the status that records the verdict.
Repoint ==
    /\ move.to # NoServer
    /\ WriteTarget([target EXCEPT !.conv = move.to])
    /\ route' = [route EXCEPT ![move.to] = 0]
    /\ cond' = IF cond.status = "True" THEN cond ELSE [status |-> "True", age |-> 0]
    /\ move' = Idle
    /\ waited' = -1
    /\ UNCHANGED <<config, view, lease, ready, replicaVars, bounds>>

\* The API server takes notice that the target no longer names s.
Refresh(s) ==
    /\ s # target.conv /\ route[s] # NotCalled
    /\ route' = [route EXCEPT ![s] = NotCalled]
    /\ UNCHANGED <<config, target, view, watch, lease, ready, managerVars,
                   replicaVars, bounds>>

-----------------------------------------------------------------------------
Older(age, cap) == IF age < cap THEN age + 1 ELSE cap

\* Nothing that takes less than a tick is outstanding.
Settled ==
    /\ move = Idle
    /\ queue = {}
    /\ \A r \in Replicas : ~Pending(r) /\ drain[r] # 0 /\ up[r] # "synced"
    /\ \A s \in Servers : ready[s] = ReadyOf(s)

\* Time passes; every publisher renews its Lease at least once a tick.
Tick ==
    /\ Settled
    /\ \A s \in Servers : route[s] # RouteLag \/ s = target.conv
    /\ route' = [s \in Servers |->
                   IF s = target.conv THEN 0 ELSE Older(route[s], NotCalled)]
    /\ drain' = [r \in Replicas |-> IF drain[r] = NoDrain THEN NoDrain ELSE drain[r] - 1]
    /\ lease' = [r \in Replicas |->
                   IF up[r] = "ready" /\ r \notin Mute
                     THEN stamp(r)
                     ELSE [lease[r] EXCEPT !.age = Older(@, StaleAfter + 1)]]
    /\ cond' = [cond EXCEPT !.age = Older(@, Grace)]
    /\ waited' = IF waited = -1 THEN -1 ELSE Older(waited, Grace)
    /\ UNCHANGED <<config, target, view, watch, queue, entry, up, reborn,
                   ready, move, bounds>>

Replica(r) ==
    \/ Observe(r)
    \/ ReconcileReplica(r)
    \/ InitialSync(r)
    \/ SetReady(r)

Next ==
    \/ Reassign
    \/ Drift
    \/ Delete
    \/ \E r \in Replicas : Replica(r)
    \/ \E r \in Replicas : Publish(r)
    \/ \E r \in Replicas : Restart(r)
    \/ \E s \in Servers : UpdateReady(s)
    \/ CheckHandover
    \/ Repoint
    \/ \E s \in Servers : Refresh(s)
    \/ Tick

Spec == Init /\ [][Next]_vars

\* Processes keep running, the API server refreshes, and time passes.
Fairness ==
    /\ \A r \in Replicas : WF_vars(Replica(r)) /\ WF_vars(Publish(r))
    /\ \A s \in Servers : WF_vars(UpdateReady(s)) /\ WF_vars(Refresh(s))
    /\ WF_vars(CheckHandover)
    /\ WF_vars(Repoint)
    /\ WF_vars(Tick)

FairSpec == Spec /\ Fairness

-----------------------------------------------------------------------------
(* Properties.                                                             *)

\* "Nothing is ever unserved": while a target is handed over, every ready
\* replica the API server may call has a plan for it - the new server's because
\* the gate waited for their Leases, the old server's because they drain.  A
\* replica that has just restarted, and a config under deletion, are not covered.
Served ==
    ~config.deleting =>
        \A r \in Replicas :
            (up[r] = "ready" /\ route[ServerOf[r]] # NotCalled /\ r \notin reborn)
                => entry[r] = "plan"

\* "A webhook-server replica holds a compiled plan for as long as EITHER the
\* assignment or the live target points at it" (reconcileNormal, Step 6b): a
\* running replica that has seen and reconciled everything, restarted or not,
\* holds what either asks of it, with no drain left over from an earlier move;
\* what neither asks for is gone or on its way out; and a config under deletion
\* is forgotten.
RegistryFollows ==
    \A r \in Replicas : (Running(r) /\ ~Pending(r) /\ r \notin queue) =>
        LET asked == ~config.deleting /\ ServerOf[r] \in {config.want, target.conv}
        IN  /\ asked => /\ drain[r] = NoDrain /\ entry[r] # "none"
                        /\ target.valid => entry[r] = "plan"
            /\ ~asked => entry[r] = "none" \/ drain[r] # NoDrain
            /\ config.deleting => entry[r] = "none"

\* The handover ends: the target is repointed at the server it is assigned to,
\* and no replica of another server keeps a plan for it.
HandoverCompletes ==
    <>[](~config.deleting /\ target.valid =>
            /\ target.conv = config.want
            /\ \A r \in Replicas : ServerOf[r] # config.want => entry[r] = "none")

\* blockedFor: the HandoverReady condition is "False for exactly as long as the
\* move is blocked", so a move proceeds unverified only after it was refused for
\* the whole grace period.
GraceIsWaited == move.verified \/ waited >= Grace

\* A replica holds a plan while the live target names its Service (reconciler.go,
\* handover.go): once it has seen and reconciled everything, it has one.
HeldWhilePointed ==
    \A r \in Replicas :
        (/\ up[r] = "ready" /\ ~Pending(r) /\ r \notin queue
         /\ ServerOf[r] = target.conv)
            => entry[r] = "plan"
=============================================================================
