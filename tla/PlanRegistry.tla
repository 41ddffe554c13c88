------------------------------ MODULE PlanRegistry ------------------------------
(***************************************************************************)
(* From an admitted config to a compiled plan: the config admission        *)
(* webhooks (internal/webhook), and on one replica the informers, the two  *)
(* watch-driven controllers, InitialSync's worker pool and the registry    *)
(* (internal/webhookserver).  Configs of both kinds share the registry's   *)
(* keys, the bare target names.  A reconcile reads the caches in one step  *)
(* and writes the registry in a later one; the threads interleave.         *)
(* Every config is assigned to this replica's server: assignment, leases   *)
(* and drains are the business of Assignment and Handover.                 *)
(***************************************************************************)
EXTENDS Naturals, Sequences, FiniteSets, SequencesExt

CONSTANTS
    Configs,          \* the configs: XRDConversionConfigs and CRDConversionConfigs
    KindOf, NameOf,   \* the kind ("xrd" or "crd") and the name of each
    Targets,          \* target names, shared by the kinds
    Rules,            \* rule sets; a schema is the rule set it goes with
    Pool,             \* InitialSync's workers
    SerialAdmission,  \* TRUE: admission sees every config written before
    NamesLetGo,       \* TRUE: a name changes hands once the replica has let go of it
    QuietSync,        \* TRUE: configs are written while the replica is ready only
    MaxChanges, MaxRestarts, MaxFailures   \* bounds on what happens from outside

Kinds == {"xrd", "crd"}
None == "none"
Malformed == "malformed"

ASSUME RegistryConstants ==
    /\ IsFiniteSet(Configs) /\ None \notin Configs
    /\ \A c \in Configs : KindOf[c] \in Kinds
    /\ \A c, d \in Configs : KindOf[c] = KindOf[d] /\ NameOf[c] = NameOf[d] => c = d
    /\ None \notin Targets \cup Rules /\ Malformed \notin Rules
    /\ Pool # {} /\ Pool \cap Kinds = {}
    /\ {SerialAdmission, NamesLetGo, QuietSync} \subseteq BOOLEAN

VARIABLES
    api,       \* per config [phase, target, rules]
    seen,      \* the same as the manager's cache has it, for admission
    schema,    \* per kind and name, the target's schema, or None: no such target
    log,       \* per kind, config events the replica's informer has not delivered
    cache,     \* per config, the replica's informer cache
    queue,     \* per kind, the controller's work queue
    job,       \* per thread, the reconcile it is in, or Idle
    phase,     \* of the replica: "syncing" or "ready"
    syncLeft,  \* the configs InitialSync has still to hand out
    syncErr,   \* some unit of this InitialSync failed
    target,    \* configToTarget
    registry,  \* per name [cfg, rules]: the plan, rules = None: error only
    changes, restarts, failures

outside == <<changes, restarts, failures>>
vars == <<api, seen, schema, log, cache, queue, job, phase, syncLeft, syncErr,
          target, registry, outside>>

ConfigState == [phase : {"absent", "live", "deleting"}, target : Targets \cup {None},
                rules : Rules \cup {None}]
Gone == [phase |-> "absent", target |-> None, rules |-> None]
Idle == [cfg |-> None]
NoEntry == [cfg |-> None, rules |-> None]
Threads == Kinds \cup Pool

TypeOK ==
    /\ api \in [Configs -> ConfigState] /\ seen \in [Configs -> ConfigState]
    /\ cache \in [Configs -> ConfigState]
    /\ schema \in [Kinds -> [Targets -> Rules \cup {None}]]
    /\ \A k \in Kinds :
          /\ log[k] \in Seq([cfg : Configs, state : ConfigState])
          /\ queue[k] \in Seq(Configs) /\ IsInjective(queue[k])
    /\ \A th \in Threads : job[th] = Idle \/
          job[th] \in [cfg : Configs, remove : Targets \cup {None}, read : ConfigState,
                       schema : Rules \cup {None}]
    /\ phase \in {"syncing", "ready"} /\ syncLeft \subseteq Configs /\ syncErr \in BOOLEAN
    /\ target \in [Configs -> Targets \cup {None}]
    /\ registry \in [Targets -> [cfg : Configs \cup {None}, rules : Rules \cup {None}]]

Init ==
    /\ api = [c \in Configs |-> Gone] /\ seen = api /\ cache = api
    /\ \E s \in Rules \cup {None} : schema = [k \in Kinds |-> [t \in Targets |-> s]]
    /\ log = [k \in Kinds |-> <<>>] /\ queue = [k \in Kinds |-> <<>>]
    /\ job = [th \in Threads |-> Idle]
    /\ phase = "ready" /\ syncLeft = {} /\ syncErr = FALSE
    /\ target = [c \in Configs |-> None] /\ registry = [t \in Targets |-> NoEntry]
    /\ changes = 0 /\ restarts = 0 /\ failures = 0

Change == changes < MaxChanges /\ changes' = changes + 1 /\ UNCHANGED <<restarts, failures>>

-----------------------------------------------------------------------------
(* Admission and the API server. *)

\* ValidateStructure and ValidateCRDStructure: a malformed rule set never gets in.
ValidateStructure(rules) == rules # Malformed

\* Mutant: an update is recognised by its name, whatever the kind.
availableByName(c, t) ==
    \A o \in Configs : NameOf[o] # NameOf[c] /\ seen[o].phase # "absent" => seen[o].target # t

\* No other config of either kind targets t, as far as the lists show: a config
\* that is being deleted still does.
validateRegistryKeyAvailable(c, t) ==
    \A o \in Configs \ {c} : seen[o].phase # "absent" => seen[o].target # t

\* validate: structure, the key, then the rules against the target's schema; a
\* target that does not exist is a warning only.
validate(c, t, rules) ==
    /\ ValidateStructure(rules)
    /\ SerialAdmission => seen = api
    /\ validateRegistryKeyAvailable(c, t)
    /\ schema[KindOf[c]][t] \in {None, rules}

\* A config is written; watchers will be told.
WriteConfig(c, state) ==
    /\ api' = [api EXCEPT ![c] = state]
    /\ log' = [log EXCEPT ![KindOf[c]] = Append(@, [cfg |-> c, state |-> state])]

\* Nothing on the replica, and nothing on its way there, ties a config that no
\* longer wants t to t. (A config that wants it is admission's business.)
Holder(t) == {o \in Configs : api[o].phase # "absent" /\ api[o].target = t}
LetGo(c, t) ==
    Holder(t) \subseteq {c} =>
        /\ \A o \in Configs \ {c} : target[o] # t /\ cache[o].target # t
        /\ \A k \in Kinds : \A ev \in ToSet(log[k]) : ev.cfg # c => ev.state.target # t
        /\ \A th \in Threads : job[th] # Idle /\ job[th].cfg # c =>
              t \notin {job[th].remove, job[th].read.target}

\* Create, or an update of rules or target.
Apply(c, t, rules) ==
    /\ Change
    /\ api[c].phase # "deleting"
    /\ validate(c, t, rules)
    /\ QuietSync => phase = "ready"
    /\ NamesLetGo => LetGo(c, t)
    /\ [phase |-> "live", target |-> t, rules |-> rules] # api[c]
    /\ WriteConfig(c, [phase |-> "live", target |-> t, rules |-> rules])
    /\ UNCHANGED <<seen, schema, cache, queue, job, phase, syncLeft, syncErr, target, registry>>

\* The finalizer keeps a deleted config until the operator has let go of it.
Delete(c) ==
    /\ Change
    /\ api[c].phase = "live"
    /\ QuietSync => phase = "ready"
    /\ WriteConfig(c, [api[c] EXCEPT !.phase = "deleting"])
    /\ UNCHANGED <<seen, schema, cache, queue, job, phase, syncLeft, syncErr, target, registry>>

RemoveFinalizer(c) ==
    /\ api[c].phase = "deleting"
    /\ QuietSync => phase = "ready"
    /\ WriteConfig(c, Gone)
    /\ UNCHANGED <<seen, schema, cache, queue, job, phase, syncLeft, syncErr, target, registry, outside>>

\* The manager's informer catches up with one config.
ManagerSees(c) ==
    /\ seen[c] # api[c]
    /\ seen' = [seen EXCEPT ![c] = api[c]]
    /\ UNCHANGED <<api, schema, log, cache, queue, job, phase, syncLeft, syncErr, target, registry, outside>>

-----------------------------------------------------------------------------
(* The replica's informers and work queues. *)

\* A work queue holds a config once, in the order of the first request.
Add(q, c) == IF c \in ToSet(q) THEN q ELSE Append(q, c)
AddAll(q, cs) == q \o SetToSeq(cs \ ToSet(q))

\* A config event reaches the cache, and its controller's queue.
Deliver(k) ==
    /\ log[k] # <<>>
    /\ LET ev == Head(log[k]) IN
         /\ cache' = [cache EXCEPT ![ev.cfg] = ev.state]
         /\ queue' = [queue EXCEPT ![k] = Add(@, ev.cfg)]
    /\ log' = [log EXCEPT ![k] = Tail(@)]
    /\ UNCHANGED <<api, seen, schema, job, phase, syncLeft, syncErr, target, registry, outside>>

\* The target is created, edited or deleted; mapXRDToConfigs and mapCRDToConfigs
\* enqueue the configs that name it.
ChangeTarget(k, t, s) ==
    /\ Change
    /\ s # schema[k][t]
    /\ schema' = [schema EXCEPT ![k][t] = s]
    /\ queue' = [queue EXCEPT ![k] =
          AddAll(@, {c \in Configs : KindOf[c] = k /\ cache[c].phase # "absent" /\ cache[c].target = t})]
    /\ UNCHANGED <<api, seen, log, cache, job, phase, syncLeft, syncErr, target, registry>>

-----------------------------------------------------------------------------
(* reconcileOneXRD and reconcileOneCRD, in two steps. *)

\* The caches are read.  A config that is gone or going is forgotten, whoever
\* holds its name by now; any other is remembered under the name it targets.
Read(th, c) ==
    LET cfg == cache[c]
        gone == cfg.phase # "live"
    IN
    /\ job[th] = Idle
    /\ job' = [job EXCEPT ![th] =
          [cfg |-> c, remove |-> IF gone THEN target[c] ELSE None, read |-> cfg,
           schema |-> IF gone THEN None ELSE schema[KindOf[c]][cfg.target]]]
    /\ target' = [target EXCEPT ![c] = IF gone THEN None ELSE cfg.target]

\* Registry.Remove, Set and RecordError.
RemoveEntry(t) == [registry EXCEPT ![t] = NoEntry]
SetEntry(t, c, rules) == [registry EXCEPT ![t] = [cfg |-> c, rules |-> rules]]

\* Mutant: the entry is replaced by one without a router.
RecordErrorOnly(t, c) == [registry EXCEPT ![t] = [cfg |-> c, rules |-> None]]

\* A working plan stays; without one the entry holds the error alone.
RecordError(t, c) ==
    IF registry[t].rules # None THEN registry
    ELSE [registry EXCEPT ![t] = [cfg |-> c, rules |-> None]]

\* Mutant: a name that has a plan keeps it.
registerOnce(t, c, rules, s) ==
    IF s = rules /\ registry[t].rules = None THEN SetEntry(t, c, rules) ELSE RecordError(t, c)

\* The target is missing, or the rules do not fit it: an error; else the plan,
\* which its rules name: one schema fits them.
compileAndRegister(t, c, rules, s) ==
    IF s = rules THEN SetEntry(t, c, rules) ELSE RecordError(t, c)

\* What the reconcile th is in writes to the registry.
written(th) ==
    LET j == job[th] IN
    IF j.read.phase = "live" THEN compileAndRegister(j.read.target, j.cfg, j.read.rules, j.schema)
    ELSE IF j.remove # None THEN RemoveEntry(j.remove) ELSE registry

Write(th) ==
    /\ job[th] # Idle
    /\ registry' = written(th)
    /\ job' = [job EXCEPT ![th] = Idle]

\* A controller takes the first config of its queue.
reconcile(k) ==
    \/ /\ queue[k] # <<>> /\ Read(k, Head(queue[k]))
       /\ queue' = [queue EXCEPT ![k] = Tail(@)]
       /\ UNCHANGED registry
    \/ /\ Write(k)
       /\ UNCHANGED <<queue, target>>

\* A read fails: the config's own, or a later one, when a live config is already
\* remembered under its target.
remembered(c) ==
    {target} \cup (IF cache[c].phase = "live" THEN {[target EXCEPT ![c] = cache[c].target]} ELSE {})

\* The controller retries the config.
reconcileFails(k) ==
    /\ failures < MaxFailures /\ failures' = failures + 1
    /\ queue[k] # <<>> /\ job[k] = Idle
    /\ target' \in remembered(Head(queue[k]))
    /\ queue' = [queue EXCEPT ![k] = Append(Tail(@), Head(@))]
    /\ UNCHANGED <<job, registry, changes, restarts>>

Reconcile(k) ==
    /\ (reconcile(k) /\ UNCHANGED outside) \/ reconcileFails(k)
    /\ UNCHANGED <<api, seen, schema, log, cache, phase, syncLeft, syncErr>>

-----------------------------------------------------------------------------
(* Cold start: the controllers are running when InitialSync begins. *)

Present == {c \in Configs : cache[c].phase # "absent"}

\* A new process: empty registry, caches filled by a fresh list, every config
\* queued by its informer's first events, and InitialSync over the same list.
Restart ==
    /\ restarts < MaxRestarts /\ restarts' = restarts + 1
    /\ cache' = api
    /\ log' = [k \in Kinds |-> <<>>]
    /\ \E order \in [Kinds -> SeqOf(Configs, Cardinality(Configs))] :
         /\ \A k \in Kinds : IsInjective(order[k])
                /\ ToSet(order[k]) = {c \in Configs : KindOf[c] = k /\ api[c].phase # "absent"}
         /\ queue' = order
    /\ job' = [th \in Threads |-> Idle]
    /\ phase' = "syncing" /\ syncErr' = FALSE
    /\ syncLeft' = {c \in Configs : api[c].phase # "absent"}
    /\ target' = [c \in Configs |-> None] /\ registry' = [t \in Targets |-> NoEntry]
    /\ UNCHANGED <<api, seen, schema, changes, failures>>

\* A pool worker takes a unit, and finishes it.
syncUnit(w) ==
    /\ phase = "syncing"
    /\ \/ \E c \in syncLeft :
             Read(w, c) /\ syncLeft' = syncLeft \ {c} /\ UNCHANGED registry
       \/ Write(w) /\ UNCHANGED <<syncLeft, target>>
    /\ UNCHANGED <<api, seen, schema, log, cache, queue, phase, syncErr, outside>>

\* A unit's read fails: the others go on, the error is kept.
syncUnitFails(w) ==
    /\ phase = "syncing" /\ failures < MaxFailures /\ failures' = failures + 1
    /\ job[w] = Idle
    /\ \E c \in syncLeft : syncLeft' = syncLeft \ {c} /\ target' \in remembered(c)
    /\ syncErr' = TRUE
    /\ UNCHANGED <<api, seen, schema, log, cache, queue, job, phase, registry, changes, restarts>>

\* Mutant: an InitialSync that failed is not run again.
syncOnce ==
    /\ phase = "syncing" /\ syncLeft = {} /\ \A w \in Pool : job[w] = Idle
    /\ ~syncErr /\ phase' = "ready" /\ UNCHANGED <<syncLeft, syncErr>>
    /\ UNCHANGED <<api, seen, schema, log, cache, queue, job, target, registry, outside>>

\* initialSyncWithRetry: with an error it starts over, else the replica is ready.
InitialSyncDone ==
    /\ phase = "syncing" /\ syncLeft = {} /\ \A w \in Pool : job[w] = Idle
    /\ IF syncErr THEN syncLeft' = Present /\ syncErr' = FALSE /\ UNCHANGED phase
       ELSE phase' = "ready" /\ UNCHANGED <<syncLeft, syncErr>>
    /\ UNCHANGED <<api, seen, schema, log, cache, queue, job, target, registry, outside>>

-----------------------------------------------------------------------------
User ==
    \E c \in Configs :
        \/ \E t \in Targets, rules \in Rules \cup {Malformed} : Apply(c, t, rules)
        \/ Delete(c)

Replica ==
    \/ \E k \in Kinds : Deliver(k) \/ Reconcile(k)
    \/ \E w \in Pool : syncUnit(w) \/ syncUnitFails(w)
    \/ InitialSyncDone

Next ==
    \/ User
    \/ \E c \in Configs : RemoveFinalizer(c) \/ ManagerSees(c)
    \/ \E k \in Kinds, t \in Targets, s \in Rules \cup {None} : ChangeTarget(k, t, s)
    \/ Replica
    \/ Restart

Spec == Init /\ [][Next]_vars

\* Informers, controllers and the sync pool keep running.
Fairness ==
    /\ \A k \in Kinds :
          /\ WF_vars(Deliver(k))
          /\ WF_vars(reconcile(k) /\ UNCHANGED outside
                     /\ UNCHANGED <<api, seen, schema, log, cache, phase, syncLeft, syncErr>>)
    /\ \A w \in Pool : WF_vars(syncUnit(w))
    /\ WF_vars(InitialSyncDone)
FairSpec == Spec /\ Fairness

-----------------------------------------------------------------------------
\* At most one config of either kind targets a name, also while another is on
\* its way out (validateRegistryKeyAvailable).
OneConfigPerTarget ==
    \A c, d \in Configs :
        c # d /\ api[c].phase # "absent" /\ api[d].phase # "absent" => api[c].target # api[d].target

Quiet ==
    /\ phase = "ready" /\ \A k \in Kinds : log[k] = <<>> /\ queue[k] = <<>>
    /\ \A th \in Threads : job[th] = Idle

\* A ready replica with nothing left to do serves every live config that fits
\* its target with exactly that config's rules, and knows of every other one:
\* no event, retry, restart or cold start leaves a hole or an old plan behind
\* (reconcileOneXRD, InitialSync, forgetConfig).
QuietMeansServed ==
    Quiet => \A c \in Configs : api[c].phase = "live" =>
        /\ registry[api[c].target].cfg # None
        /\ schema[KindOf[c]][api[c].target] = api[c].rules
              => registry[api[c].target] = [cfg |-> c, rules |-> api[c].rules]

\* While a process runs, the working plan of a config that still names the
\* target goes away only when that config is seen gone or going, never because
\* the target drifted or vanished or because another config came or went
\* (RecordError, forgetConfig).  A config that has moved to another target
\* leaves its plan behind: rememberConfig overwrites the name it would be
\* removed by.
PlanOutlivesDrift ==
    [][\A t \in Targets :
          registry[t].rules # None /\ api[registry[t].cfg].target = t
            /\ registry'[t].rules = None /\ restarts' = restarts
              => \E th \in Threads : /\ job[th] # Idle /\ job[th].cfg = registry[t].cfg
                                     /\ job[th].read.phase # "live"]_vars

\* A restarted replica becomes ready, whatever reads fail on the way
\* (initialSyncWithRetry).
BecomesReady == phase = "syncing" ~> phase = "ready"
=============================================================================
