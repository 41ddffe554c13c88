# Verification of the declarative-conversion-operator

The operator turns declarative conversion rules (XRDConversionConfig, CRDConversionConfig)
into a working conversion webhook. A *manager* validates each config against the live
schema of its target, picks the webhook-server instance that will serve it, and writes
that instance into the target's `spec.conversion`. *Webhook-server* instances compile the
rules into a plan and answer the API server's ConversionReviews. The `convctl` tool
promotes a version to hub and takes old versions out of use. If the target points at an
instance that cannot answer, stays pointed at one after its config is gone, or if an
object is left at a version nobody can read, every read and write of that resource fails;
so most of the code is about the order in which things happen.

This directory holds TLA+ modules of that logic, TLC runs on small instances, and proofs
that hold for every instance. Paths below are relative to the repository root.
`PROJECT.json` maps every definition to the lines it models and lists the hazards with the
properties that address them.

## 1. Inventory

| Component | State | Operations | Talks to | What makes it correct |
|---|---|---|---|---|
| Assignment resolver (`internal/assign`) | none: a function of a config and the server list | ResolveAssignment, PickShard, ServedBy | used by controllers, replicas and admission, each on its own informer store | all parties agree once caches agree; a change of one server moves only its own configs |
| CWS fan-out (`internal/controller/cws_fanout.go`, `internal/enqueue`, twin in `internal/webhookserver/reconciler.go`) | informer store, unmapped events, work queue | map an old and a new view of a server to configs | feeds the config controllers and replicas | every config that changes hands is reconciled again |
| Server admission (`internal/webhook/conversionwebhookserver_webhook.go`, `api/v1alpha1/rollout_validation.go`, `extra_args.go`) | cache | checkDefault, checkShardPool, rollout and argument rules, ValidateDelete | API server | one default; activating sharding moves nothing; an admitted rollout drains in time |
| Config admission (`internal/webhook/*config_webhook.go`, `registry_key.go`) | cache | shape of a config, one config per target name | API server | two configs never own one name of the registry |
| Config controllers (`internal/controller/{xrd,crd}conversionconfig_controller.go`) | config status and finalizer, target's `spec.conversion`, queue, requeue timers | Reconcile, reconcileNormal, reconcileDelete | API server, guard, replicas (through leases) | no webhook without its config; a healthy config is wired; status is true |
| XRD conversion guard (`internal/webhook/xrd_conversion_guard.go`) | none (reads the config cache) | mutate every XRD write | sits in front of Crossplane's and the controller's own writes | restores what Crossplane strips, never what the controller removes on purpose |
| Handover gate (`internal/controller/servedtargets.go`, `internal/servedtargets`, `internal/webhookserver/{publisher,handover}.go`) | one Lease per replica, HandoverReady condition | publish, aggregate, grace period, drain | replicas to manager, through Leases | the target is moved only to an instance that can serve it |
| Replica (`internal/webhookserver/{reconciler,registry}.go`) | compiled plans by target name | register, forget, drain, InitialSync | API server, publisher | a ready replica at rest holds the plans of the configs there are |
| Conversion HTTP server (`internal/webhookserver/server.go`) | reviews in flight, readiness, counters | handleConvert | API server, registry | an answer is whole, from one plan and within its budget |
| Webhook-server process (`cmd/webhook-server/main.go`) | position in start and shutdown | cold start, readiness, drain | kubelet, Service endpoints | a wedged start is cured; a review is lost only after the drain |
| Server controller (`internal/controller/conversionwebhookserver_controller.go`) | child objects, finalizer, status | Reconcile, reconcileDelete | API server, config controllers | children converge; an instance is not removed while targets name it, and is removed when none does |
| Conversion engine (`pkg/engine`) | none | normalise, Analyze, Compile, Convert | replicas, manager, CLI | what is written can be read; a rule reported lossless is; an accepted config produces what the schema requires (each within the limits of section 2) |
| API types and rehub (`api/v1alpha1`) | none | translation to engine rules, inversion, composition | engine, CLI | promoting a spoke leaves every reader with what it read before |
| Version retirement (`internal/cli/{migratestorage,retarget,versions}.go`) | a running command | rewrite objects, prune storedVersions, retarget, gate | a live cluster | storedVersions tells the truth; nothing is stranded; a clean report is true |
| Propagation check (`propagation.go`) | ConversionPropagated condition | compare the generated CRD | API server | reports only |
| Other `convctl` commands, `scalegen`, manager entry point | none shared | | | |

What is hard here: every decision is taken on a cache that may be behind; a reconcile is
several API calls with the world moving between them; status is a merge patch without a
lock, and later decisions read it back; the guard rewrites the controller's own writes;
the manager may crash between two calls; the handover and the shutdown depend on clocks
owned by different parties; a replica has several threads writing one registry; the
retirement commands walk a cluster that clients, Crossplane and the author keep changing.

## 2. Modules

A module's `Mutant:` definitions are wrong variants of the definition that follows them;
`PROJECT.json` pairs each property with one that breaks it.

### Assignment (checked and proved)

Models the resolver, the fan-out and the admission rules for one *party* (a config
controller, or one replica).

* `ResolveAssignment`, `ShardPool`, `PickShard`, `serversWithView` and
  `mapConfigsForServerViews` are the functions of the same name. `shardScore` is a
  constant `Score`, any function to integers; equal scores are broken by `NameOrder`.
* A server write is admitted against `store`, the informer store (`checkDefault`,
  `checkShardPool`), changes `servers`, and appends an event to `watch`. `InformerApply`
  moves an event into the store and then to `notify`; `HandleServerEvent` maps it against
  the store *as it is then*, which may be several changes later. `ReconcileConfig`
  takes a config from the queue and records the assignment it acts on.
* The pacing of `PacedMapFuncs` is an unordered queue. `DeleteServer` may happen at any
  time, as it does with the force-delete annotation; the finalizer's dependants check
  only removes behaviours.
* `SerialAdmission = TRUE` restricts server writes to moments when the cache has caught
  up. The code does not guarantee this; it is the assumption under which admission keeps
  its promises. Without it two servers marked default in quick succession are both
  admitted, each judged on a cache that has not heard of the other.

### ConfigController, TargetWiring (checked and proved)

One config, its target and the servers. `CRDConversionConfigReconciler` is the same
algorithm without the guard, so `GuardOn = FALSE` covers it.

| Code | Model |
|---|---|
| config in the API server / in the informer cache | `cfg`, `cache`; `lag` when the cache is behind |
| target, and the server its `spec.conversion` names | `target`, `conv` |
| ResolveAssignment's answer | `want`, changed by `Reassign` |
| server readiness; handover verdict | `server`: `down`, `ready`, `serving` |
| work queue, RequeueAfter | `queued`, `timer` |
| the reconcile in progress between two API calls | `work` |

A reconcile starts with `ReconcileFirst`, `ReconcileNormal`, `ReconcileDelete` or
`ReconcileNothing`, which make all reads and decide the next write. Each write is an
action: `ApplyConversion`, `Revert`, `patchStatus`, `removeFinalizer`. `CallFails` fails
any of them, `FinalizerConflict` is the optimistic lock of `patchFinalizers`, `Crash`
drops the reconcile and the timers and re-lists. `MergePatch` writes only the fields that
differ from the object that was *read*, with the conditions as one field. `Restored` is
the guard's rewriting of a write, also of the controller's own.

Abstractions: webhookURL, path, port and plan hash are one field, written together;
conditions other than Applied and Stale are left out (they are never read back, but may
cause the conditions list to be written, hence the choice in `patchStatus`); the reads of
the target and the server list are made at one moment with the decision; webhooks the
operator does not own are not modelled; the handover verdict is a state of the server.
`ServerChanges` queues the configs when a server goes down or comes back, which its status
shows; the verdict may also open or close by a Lease or by time alone, without an event, and
then only the poll a refused move has set (`RequeueAfter`) finds out.

`TargetWiring` is the abstract specification: what a config promises its target, without
caches, statuses or API calls. A reconcile earns a permit for one server (for the first
wiring, for the server the target names already, or for a move through an open handover
gate); the target is pointed only where a permit says, the config answers for it from then
on, and it lets go of its finalizer only when no webhook is left. `KeepsWiring` says that
ConfigController implements it, with `wire` mapped to the target's `spec.conversion`,
`account` to the URL of the status on record or about to be written, `permit` to the URL of
a pending apply, `held` to the finalizer and `open` to the servers that are serving. The
code decides whether a reconcile is a move from the URL in the status (`movingServers`) and
not from the target, so it is not obvious that a move always meets the gate.

### Handover (checked and proved)

One target with an applied config, moved between servers that have several replicas each.

| Code | Model |
|---|---|
| config (assignment, deletion timestamp), target (`spec.conversion`, schema valid) | `config`, `target` |
| each replica's informer stores and undelivered events, work queue | `view`, `watch`, `queue` |
| each replica's registry entry, `drainUntil`, process state | `entry`, `drain`, `up` |
| the replica's Lease: renewTime and whether it lists the target | `lease` |
| `status.readyReplicas` of a server | `ready` |
| HandoverReady and its LastTransitionTime | `cond` |
| a reconcile between the gate's verdict and the patch | `move` |
| the servers the API server still calls, and for how long they have not been named | `route` |

A replica's steps are `Observe` (a watch event; config and target arrive in any order),
`ReconcileReplica` (`reconcileOneXRD` and its CRD twin: keep, compile, drain or forget),
`Publish`, `Restart`, `InitialSync` and `SetReady` in the order of
`cmd/webhook-server/main.go`. The manager's are `CheckHandover` (`canServeTarget` over
`Aggregate`, with `blockedFor`) and `Repoint`. `Refresh` is the API server noticing that a
server is no longer named.

Time is counted in ticks. Watch deliveries, reconciles, API calls and publishes take less
than a tick but interleave freely within one: `Tick` waits for them (`Settled`). The
routing lag is shorter than the drain, which is what `handover.go` chooses the drain for.
`Mute` replicas cannot write Leases (the fleet the grace period exists for).

Restrictions. `Served` does not cover a replica that restarted and has not compiled since
(`reborn`): a plan lives in memory, so a restart while the schema does not validate leaves
the replica without one. `MayReturn = FALSE` keeps a target from being assigned back to a
server it has left: there, a Lease published just before a drain ended can authorise the
move although the plan is gone until the replica hears of the new assignment; with
`MayReturn = TRUE` TLC finds that behaviour. Left out: truncated and
undecodable Leases (the gate refuses), clock skew, failed publishes, deletion of the
target, several targets in one registry.

### PlanRegistry (checked and proved)

From an admitted config to a compiled plan on one replica. Configs of both kinds share the
registry's keys, the bare target names.

| Code | Model |
|---|---|
| configs in the API server; the same in the manager's cache, for admission; the targets' schemas | `api`, `seen`, `schema` |
| the replica's undelivered events, informer cache and the two controllers' queues | `log`, `cache`, `queue`, per kind |
| a reconcile between reading the caches and writing the registry | `job`, per thread |
| readiness; InitialSync's remaining units and its first error | `phase`, `syncLeft`, `syncErr` |
| configToTarget; the plan or the error kept under each name | `target`, `registry` |

A plan is named by the rules it was compiled from: in the model exactly one schema fits a
rule set, and a reconcile that reads another one fails and keeps the earlier plan.

Three assumptions limit the run, and each one is needed. `SerialAdmission`: admission sees
every config written before (two writes within one cache delay are both admitted).
`NamesLetGo`: a target name changes hands only after the replica has let go of it
(`forgetConfig` removes the entry of a name whoever holds it by now). `QuietSync`: configs
are written while the replica is ready only (section 4, `InitialSyncRace.cfg`).

### Rollout, ConversionServer, Serving (checked and proved)

`Rollout` translates the admission of `spec.rollout`, `spec.startupProbe` and
`spec.extraArgs` and the pod `reconcileDeployment` renders; how Go's flag package reads the
arguments is external. `ConversionServer` is `handleConvert` step by step: body, budget,
registry lookup, one object after another, answer. `Serving` extends both with `main`'s
start and shutdown, the kubelet (probes, preStop, SIGTERM, SIGKILL) and the endpoints.

| Code | Model |
|---|---|
| the admitted spec and the pod made of it | `pod`; `CreatePod` refuses what admission refuses |
| main: cold start, SetReady, serve, drain, exit | `proc`, `Process` |
| the manager's goroutine and the initial sync | `manager`, `wedged` |
| a ConversionReview being handled | `reviews[r]`: phase, entry taken, objects done, time spent |
| registry entry, swapped by the reconciler | `registry`, `Reconfigure` |
| Service endpoints | `routed`, which lags a deletion by `EndpointDelay` |

Time advances in ticks; what the kubelet and the process owe at a deadline happens before
the next tick. What a conversion computes is Engine's subject: here it succeeds, fails or
panics.

### ServerController (checked and proved)

One ConversionWebhookServer with its children in each namespace. A reconcile adds the
finalizer, applies certificate, service, deployment, HPA and PDB one API call after another
from the spec it read at the start, and patches the status; `reconcileDelete` asks the
cached configs whether one still resolves to or points at the instance. Beside it run the
user (edits, deletes, the force annotation set or taken back while the deletion is held,
`Annotate`), whoever removes a child (`DeleteChild`), and the config controllers
(`PatchTarget`, then `PatchStatus`), whose `webhookURL` reaches the cache late. Removing the
finalizer removes the instance only; its children go one by one afterwards
(`CollectGarbage`, external). XRD configs enqueue the server when they change, CRD configs do
not: only the five-minute requeue notices those. The contents of the children are left out.

### Documents, EngineSchema, EngineOps, EngineCompile, EngineAnalyze, ConversionRules, Engine (checked)

The conversion engine as functions over small documents, in the layers of the code:
values and paths (`path.go`, `coerce.go`, `k8sunits.go`), schemas and their normalisation
(`schema.go`, `normalize.go`, `platform.go`, `passthrough.go`), the ops (`ops.go`,
`mapkeyrename.go`, `cel.go`), the resolver of every strategy (`compile.go`), the analysis
(`analyze.go`, `required.go`, `plan.go`), and the author's rules (`api/v1alpha1`: admission
of their shape, translation, `rehub.go`). `Engine` is the state machine on top: an object
is created in any served version, written back as read in any version, and migrated by a
promotion (`Promote`, the draft of `convctl rehub` when the analysis accepts it); the API
server stores the hub version and asks the router for the others. What each case compiles to,
with the facts about its rules that the properties use (`Facts`), is a constant, `Compiled`,
that an assumption ties to the definitions, so that TLC computes it once.

The engine promises less than its comments say, so each property states the conditions it
holds under, in definitions of its own, and the catalogue has configs on both sides of each
condition.

| Condition | Used by | What it leaves out |
|---|---|---|
| `Apart` (`ApartWithin` for nested rules) | order, required fields, losslessness, stored fields | a rule that writes inside what another one writes, two rules on one metadata key; `claim` refuses equal paths only |
| `Determined` | reading back, write-back | JSONPatch, CEL and the expressions of ScalarToFields and FieldsToScalar, which are the author's; an annotation read as JSON; a keyed map whose values name another key (`ops.go:700`); a Boolean kept as a number (`coerce.go:90`); an enumeration that lists a hub value twice; a `when` on a converted field; a union beside undeclared fields |
| `AnsweredFor` | required fields | fields warned about; writers that may omit their destination (`MayOmit`); rules `Touches` takes for writers on both sides; a source below a parent that is absent (`docs/limitations.md:44`) |
| `TakenForGranted` | losslessness | per strategy, the values that do not come back: an element of ListJoin that is empty or holds the separator (`compile.go:1350`), a key that already has MapKeyRename's new name, an annotation key in use, texts spelled otherwise, an empty singleton array, undeclared keys beside ObjectToScalar's or in a ForEach element, a discriminator that is rewritten; also rules under `when`, the author's expressions, and (in the property) declared fields that no rule covers |
| `TurnsAround` | promotion, at the old hub | NumericScale (`rehub.go:244` keeps the factor), metadata rules without `reverse`, labels serialised by default |
| `Follows` | promotion, at third versions | a `when` on a renamed field, FieldsToMap of renamed fields; and promoted rules that change values (EnumRemap, MapKeyRename, ForEach), which `ComposeSpokeRules` does not apply |

The statements without conditions are `RuleOrderNeverMatters`, `EveryRequiredFieldProduced`
and `PromotionAlwaysKeepsReads`; section 4 lists the configurations that refute them.

Abstractions: a string is a sequence of tokens, a number counts quarters (so fractions and
rounding exist), JSON text is a tagged value, quantities and durations come in two
spellings; CEL programs are tables from inputs to results; a regular expression is a
sequence of literals and groups of one token each, found anywhere in the text as
`FindStringSubmatch` does; a label value is valid when it has no token such as `/` or `,`, and
of JSON texts only a number or a Boolean is; every metadata key but the empty one is
qualified. These
modules use RECURSIVE operators and are checked by TLC only.

### StoredObjects, MigrateStorage, Retarget, UnserveGate, VersionRetirement, StorageLedger (checked and proved)

`StoredObjects` is the cluster as the commands see it: the XRD, the generated CRDs (the
composite's and the claim's), `status.storedVersions`, the objects with their storage
version, Composition pin and managedFields. The rules of the API server and of Crossplane
are external and listed in its header. `MigrateStorage`, `Retarget` and `UnserveGate` are
the three commands, one step per API call, with failing calls and a kill at any point.
(The gate skips a CRD it does not find. That case is left out: both CRDs are rendered from
the start, and one that is not has no storedVersions and no objects to report.)
`VersionRetirement` composes them: one operator runs one command at a time while clients
create, write and delete, Crossplane renders CRDs and the author promotes the hub or drops
a version.

`StorageLedger` is the abstract specification: a ledger of versions per CRD, in which
objects appear only at the storage version, a new storage version is recorded as it becomes
current, and a version is struck off only when nothing is stored at it. `KeepsLedger` says
that VersionRetirement implements it, with `present` mapped to the versions of the live
objects.

### Proof and MC modules

`AssignmentProofs`, `ConfigControllerProofs`, `HandoverProofs`, `PlanRegistryProofs`,
`ServingProofs`, `ServerControllerProofs` and `VersionRetirementProofs` hold the TLAPS proofs
(section 5); `MCAssignment`, `MCConfigController`, `MCHandover`, `MCPlanRegistry`,
`MCServing`, `MCEngine` and `MCVersionRetirement` the finite instances (ServerController
needs none: its cfg gives all of its constants). `TypeOK` is proved, not run.

## 3. Runs

| Run | Question | Instance |
|---|---|---|
| `assignment` | Is any reassignment lost when events are mapped late? Does a change move configs of other servers? | 3 servers, 1 config, any 2 edits from any admitted fleet |
| `admission` | Does admission keep one default, and make activating the pool neutral? Does the party end up agreeing with the API server? | 2 servers, weights 1 and 3, 1 config, 2 edits, serialised |
| `config_lifecycle` | Deletion, honesty of Reverted and of webhookURL while the world changes between the calls; is TargetWiring implemented? | 2 servers, both policies, 4 outside changes, no guard |
| `config_faults` | Can a wakeup be lost? Do guard and controller cooperate, configs converge, deletes complete? | guard on, stale reads, 2 changes, 1 failed call, 1 crash |
| `handover` | Is every replica the API server may call able to serve? Does a replica at rest hold exactly what assignment and target ask for? | servers with 1 and 2 replicas, 1 move, 1 restart, 1 drift, 1 delete |
| `handover_chain` | Do handovers end, also when a second move redirects the first? | 3 servers with 1 replica, 2 moves |
| `registry` | Does a ready replica at rest serve exactly what the API server holds? Do plans survive drift, and does a replica become ready? | 1 config per kind with one name, 2 targets, 2 rule sets, 1 pool worker, 3 changes, 1 restart, 1 failed read |
| `serving` | Are answers whole, from one plan and in time? Which reviews are lost in a shutdown? Is a wedged start cured? | 1 pod, 2 reviews, 1 fault, 1 swap, every rollout and argument list of `MCServing` |
| `server_lifecycle` | Do children converge? Is the instance removed neither too early nor never? | 1 config per kind, 1 namespace, 3 changes, 1 failed call |
| `engine` | Do plans, analysis and rehub keep what they say of the objects? | a catalogue of 58 configs: every strategy, as written or as a promotion turns it around, and both sides of every condition of section 2 |
| `version_retirement` | Is anything stranded, are the reports true, is the ledger implemented? | 1 composite, 1 claim, 2 versions, 2 commands, 2 client operations |
| `orphan_stale_cache` | see section 4 | a violation is expected |

Bounds. Configs do not influence each other's assignment, so one is enough. Two servers
allow a move and a move back; three with a score tie are what rendezvous hashing needs to
be able to move a config between two unchanged servers. Two edits put the store one change
ahead of an unmapped event, the case the old/new view union exists for; the proofs remove
the bound. In ConfigController four changes allow apply, drift, repair and delete in one
behaviour. In Handover two replicas on the gaining side are what separates an intersection
of Leases from a union, and three servers let a second move redirect the first between the
gate's verdict and the patch; the periods are two ticks for grace and drain, three for a
stale Lease, one for the routing lag, in the order of the code's constants. In PlanRegistry
two configs of different kinds and one name are the competition the key check exists for,
and three changes allow delete, re-create and drift. In Serving the defaults (sleep 1, drain
2, grace 4) keep the code's order with one tick to spare, so that admitted specs include the
exact fit and refused ones the equal one; a second review overlaps the swap of a plan. In
ServerController three changes allow an edit during a reconcile followed by a delete. In
VersionRetirement two CRDs and two commands let one command's result be the next one's
premise; two versions suffice because only "the storage version" and "an older one" are
told apart, and the proofs remove all of these bounds. The catalogue of Engine has, per
strategy, documents that leave fields out, spell values differently, and carry undeclared
fields, and the configs the conditions leave out (`Nested`, `DeepSource`, `Scaled` and
others); `MaxNumber` bounds the numbers.
`MaxEdits`, `MaxFailures`, `MaxCrashes`, `MaxChanges`, `MaxMoves`, `MaxRestarts`,
`MaxDrifts`, `MaxDeletes`, `MaxFaults`, `MaxSwaps`, `MaxCommands`, `MaxClientOps` and
`MaxSamples` (the command's own flag) are the bounds; the queues are bounded by them.
Deadlock checking is off: when the changes are used up and the queues are empty the system
rests. The servers of `config_lifecycle` and the two replicas of `handover`'s second server
are interchangeable, and those runs use that symmetry; runs with liveness use none.

Fairness. Weak fairness of informers, event handlers, workers and requeue timers:
client-go's goroutines run until the process stops, controller-runtime requeues failed
items, and timers fire. In Handover also of the publisher's loop, the gate's five-second
requeue, the API server's refresh and time. In PlanRegistry of each kind's watch and
controller, of InitialSync's workers and of its completion. In ServerController of the
controller's next step, its timer and the config controllers. In Serving of the process, the
kubelet's probes and signals, the endpoints, time, and each handler (a goroutine of its
own). No fairness is assumed of edits, failures, crashes, clients, swaps or commands:
liveness is claimed for the time after the outside changes stop.

## 4. Where code and documentation disagree

The run `orphan_stale_cache`: a reconcile that read a not yet Applied config from a lagging
cache writes `Invalid` over the live `Applied`; a delete that follows skips the revert and
leaves the webhook on the target. `docs/architecture.md` calls this window crash-only.
Without stale reads and failed calls the property holds (`config_lifecycle`).

Further behaviours have a configuration that shows them; TLC reports the named property
violated.

| Configuration (module) | Property | What happens |
|---|---|---|
| `GuardUndoesRevert.cfg` (MCConfigController) | RevertedIsHonest | under FailClosed the controller reverts while status still says Applied=True; the guard restores the webhook and status then says Reverted; nothing retries |
| `FailClosedFromStale.cfg` (MCConfigController) | FailClosedStopsServing | a FailClosed config that was Stale when its schema drifted keeps its webhook: `failClosedShouldRevert` looks for Applied |
| `BlockedDelete.cfg` (MCHandover) | HeldWhilePointed | a deletion the finalizer holds back leaves the webhook on the target, but the replicas forget the config at once, without a drain |
| `GraceClock.cfg` (MCHandover) | GraceIsWaited | HandoverReady is not reset when a blocked move is redirected, so a later move to a server that publishes nothing finds its grace period over |
| `InitialSyncRace.cfg` (MCPlanRegistry) | QuietMeansServed | InitialSync runs beside the watch-driven controllers; a worker that read the older config registers its plan last, and nothing requeues (`registry.go` calls the writes effectively single-threaded) |
| `OneDashFlag.cfg` (MCServing) | LostOnlyAfterDrain | `-shutdown-timeout` with one dash is read by Go's flag package and not by the validator: the pod is killed in mid-drain |
| `NamespaceMove.cfg` (ServerController) | ChildrenOnlyInNamespace | a changed `spec.namespace` leaves the children of the old one behind |
| `RehubScale.cfg` (MCEngine) | PromotionAlwaysKeepsReads | rehub keeps NumericScale's factor where the direction is inverted |
| `RequiredOptionalParent.cfg` (MCEngine) | EveryRequiredFieldProduced | a required field below an optional parent that another rule fills is taken for produced |
| `RuleOrder.cfg` (MCEngine) | RuleOrderNeverMatters | one rule moves an object and another a field inside it: the result depends on their order |

Observed while modelling, without a configuration of their own:

* Config: two writes within one cache delay give one target two configs;
  `docs/limitations.md:12` speaks of a unique field index, which does not exist. Editing a
  config's target leaves the old name's plan in the registry, as `rememberConfig` overwrites
  the name `forgetConfig` would remove; the proof of `PlanOutlivesDrift` needs to except it.
* Config controller: one failed revert under FailClosed is enough for an orphan. It leaves the
  phase Failed (RevertFailed) with the webhook still on the target; a delete that arrives
  before the retry finds a phase that is neither Applied nor Stale, skips the revert and drops
  the finalizer, without a stale read or a crash. An apply whose status patch fails leaves the
  old URL on record; a reassignment back to that server is then no move to `movingServers`,
  and the target goes there without the handover gate. Both are why the theorems on
  deletion and wiring assume that calls succeed.
* Server: enabling autoscaling drops the replica count to the default until the HPA acts;
  Certificates and CRDConversionConfigs are not watched, so the requeue of five minutes is
  the only repair; a config reconcile in flight may point a target at an instance whose
  deletion has just been allowed.
* Serving: SetReady(true) precedes the listener; the exit of the manager drains without a
  preStop sleep; the shutdown timeout is not compared with the request timeout; the trace
  flush comes on top of the drain; maxUnavailable above 100 % passes admission.
* Engine: rehub of ToLabel fills an empty serialization with String where the default is
  JSON; `when.path` and `keyNames` are not rewritten by rehub; an empty object is not
  preserved by the passthrough. A verdict is lossless although ListJoin loses an element that
  holds the separator, MapKeyRename a key that already carries the new name, and ToAnnotation
  an annotation of that name; under the policy Warn it stays lossless while uncovered fields
  are dropped. The whole list of exceptions is the table in section 2.
* Retirement: migrate-storage's empty server-side apply re-creates an object deleted since it
  was listed; a second retarget is not a no-op once Crossplane has pinned again; the gate
  reads the history in managedFields and takes the hub from a local file; an error or a
  kill between the prunes leaves one CRD of the pair pruned.

## 5. Proofs

`AssignmentProofs` proves for every set of servers and configs, every weight, every score
function and every number of edits:

* `TypeCorrect`, `ReassignmentPending`, `NoReassignmentLost`: the fan-out loses nothing;
* `MovementIsMinimal`: a step moves an unpinned pool config only off or onto a server
  that changed;
* `OneDefault` and `ActivationIsNeutral`, under `SerialAdmission`.

`NoLostReassignment` is not inductive: it says nothing while events are in flight. The
inductive invariant is `IInv == TypeOK /\ WatchInOrder /\ NotifyInOrder /\
ReassignmentIsPending`. `WatchInOrder` says that the undelivered events lead from the
store to the API server's list; `NotifyInOrder` says that for every unmapped event there
is a later or equal one of the same server showing it as the store has it now;
`ReassignmentIsPending` says that a config with an outdated assignment is queued or in
the fan-out of some unmapped event evaluated on the present store. Two lemmas carry the
argument: `FanOutCoversChange` (a config whose assignment a change alters is in the
fan-out of that change) and `FanOutSurvivesChange` (a config in the fan-out of an unmapped
event is still in some unmapped event's fan-out after another change).

Assumptions on the constants: scores and name order are integers, names are distinct, and
there are finitely many servers. That a non-empty pool has exactly one winner, which
`PickShard` relies on, is a lemma (`PoolHasBest`, `PickShardWins`): being outranked is total
and transitive, so a part of the pool that has a best server still has one with one more
(`BestOfOneMore`, a turn of the code's loop), and a part of least cardinality without one
cannot exist.

`HandoverProofs` proves for any number of servers and replicas (finitely many), any periods
and any bounds:

* `TypeCorrect`. What could fail there is arithmetic: the ticks of the four clocks against
  their caps, and the count of ready replicas (through `FS_Subset`);
* `NothingUnserved` (`Served`), where `RouteLag < DrainPeriod`, every replica can write
  Leases and a target does not return to a server it has left (`MayReturn = FALSE`; TLC
  refutes `Served` without it);
* `RegistriesFollow` (`RegistryFollows`) without any of these hypotheses, for returns, `Mute`
  replicas and every order of the periods: a running replica that has seen and reconciled
  everything holds what the assignment or the target asks of it, without a drain left over
  from an earlier move, drains or has dropped what neither asks for, and has forgotten a
  config under deletion. Its invariant is `EndsCurrent` (below) with `AllFollow`: what a
  replica holds answers the objects in its store, or the config is queued.

`Served` says nothing of what a replica will do next. Its invariant has two halves.
`HistoryInv` is about what each replica has seen and has still to hear: the versions in its
store and its watch, as one sequence, end in the current objects (`EndsCurrent`), name only
servers the target was assigned to (`OwnersNamed`), and once they show the present assignment
they show nothing else (`AssignedStays`); a move decided for an earlier assignment finds that
no replica has ever seen the target name the present one (`LateMove`). Every step of the
system is, for each replica, a delivery, an append or a fresh list (`HistoryStep`), and the
four follow from that alone. `ServingInv` is about plans: a plan at the assigned server is
`Held` whatever is still to be delivered, and a Lease that lists the target is backed by one
(`AssignedHolds`), so the gate's verdict is (`MoveIsBacked`); a server that is called has a plan
whose drain and the time since it was last named add up to at least the drain period
(`CalledIsBacked`), which is more than the routing lag.

`VersionRetirementProofs` proves, for all objects, namespaces, versions, options and
bounds that satisfy `RetirementConstants`:

* `StoredVersionsTrue` (`PruneSafe`) and `NothingIsStranded` (`NothingStranded`): every
  version an object is stored at is listed and declared;
* `PruneIsLast`: storedVersions shrinks only when every object listed for every target CRD
  of the run has been rewritten;
* `ImplementsLedger` (`KeepsLedger`): the initial states map to initial states of
  StorageLedger, and every step to one of its steps or to a stutter.

The inductive invariant is `IInv == Typed /\ PruneSafe`. `PruneSafe` joins what the
cluster owes (`StoredRecorded`, `StorageListed`, and `NotAhead`: no object is stored ahead
of its CRD's storage version) with what a running migration has established: `PhaseOK` (the
prune phase is reached without a failed object), `TargetsBehind` (what was resolved for a
CRD is at most its storage version) and `VisitedRewritten` (an object the run has been
through and that did not fail is stored at the resolved version or later). A prune the API
server accepts finds the resolved version still current, so every object is stored exactly
there. Clients and promotions preserve this because a write lands at the storage version
and a hub is never demoted, which `StoredObjects` assumes of the author.

Three more results of `VersionRetirementProofs` are about what the commands say:

* `CleanReportsAreTrue` (`CleanReportIsTrue`), with `ReportInv`: the resolved versions stay
  behind the CRDs' until the next command, and every covered object the run is through with
  and did not fail is rewritten. An object created meanwhile is stored at the hub, which is
  not behind the resolved version;
* `RetargetReportsAreTrue` (`RetargetReportIsTrue`), with `RetargetInv`: what was selected or
  settled still exists unless a client deleted it, what is settled or no longer pending is on
  the target, and Crossplane pins an object only to a Composition its selector allows;
* `PassIsUnused` (`PassMeansUnused`), with `GateInv`: what the gate has read of storedVersions
  stays so, because only the hub is ever recorded anew and the gate's version is below it;
  an object walked over and not written since has no writer at the version. That the walk's
  truncation at `MaxSamples` never hides the first blocker is an induction over the walk,
  done on least elements.

They need a finite set of objects and at least one sample (`versions.go` replaces a value
that is not positive by its default).

`ConfigControllerProofs`:

* `TypeCorrect`, and `NoWakeupIsLost` (`RestsOnlyWhenWired`), for every number of edits,
  failed calls and crashes, with stale reads and with the guard. The property holds at rest
  only, where the config is `Wired` or a poll is set (`Polling`). The inductive part is
  `Decided`: a reconcile that runs with nothing queued and nothing lagging has read the config
  as it is, and its pending write leads to `Wired`, or the gate refused the move and the
  requeue timer is set. Every other change queues the config or leaves the cache behind
  (`CacheTrue`); a gate that opens unannounced is found by the timer;
* `DeletionLeavesNothing` (`NoOrphanWebhook`), `RevertsAreHonest` (`RevertedIsHonest`) and
  `URLsReflectTargets` (`URLReflectsTarget`), under `Orderly`: no stale read, no failed call,
  no crash. A call that fails or a crash between the patch of the target and the patch of the
  status leaves the two apart, and so does the stale read of the run `orphan_stale_cache`;
  the reconciler repairs it later, which is what `NoWakeupIsLost` and `EventuallyWired` say.
  The first two also need that the guard does not meet a FailClosed config
  (`GuardUndoesRevert.cfg`), the third that there is no guard. The invariant `RecordInv` ties
  the webhook on the target to the status on record or about to be written (`WebhookRecorded`),
  and says what each pending call has read and is bound to write (`WorkMeans`);
* `ImplementsWiring` (`KeepsWiring`), under `Orderly` and without the guard: the initial states
  map to initial states of TargetWiring and every step to one of its steps or to a stutter.
  Beside `RecordInv` the invariant holds `URLRecorded` (the target names the recorded server
  or none, so the code's test for a move is the right one) and `CallMeans` (a pending apply was
  decided for a server of the fleet, a pending revert reports Failed). The guard has to be absent because
  it restores a webhook the permit has not been asked for; the other hypotheses exclude the
  cases of section 4. `WiringAccounts` then says what the promise is good for, for every
  implementation of TargetWiring: a webhook the config put there is on its account, and its
  finalizer stays while there is one.

`PlanRegistryProofs`, for any number of configs of both kinds, names, rule sets, sync workers
and failures. What the writers have to observe is a hypothesis of each theorem:

* `AdmissionIsExclusive` (`OneConfigPerTarget`) under `SerialAdmission`;
* `PlansOutliveDrift` (`PlanOutlivesDrift`) under `NamesLetGo` too, by `Exclusive`: whatever on
  the API server, in flight or on the replica ties a config to a name, no other config is tied
  to that name, so a `forgetConfig` never hits another config's plan;
* `AtRestServed` (`QuietMeansServed`) under `QuietSync` too. The chain: the cache and the events
  still to come end in what the API server holds (`CacheFollows`); a reconcile in progress has
  read what the cache holds, or its config is queued again (`JobsCurrent`); a live config is
  queued, left to the initial sync, being reconciled from current reads, or reflected in the
  registry (`NothingLost`). At rest only the last remains.

`ServingProofs`, for any number of concurrent reviews, requests, plans and durations:

* `AnswersFromOnePlan` (`OnePlanPerReview`) and `AnswersAreWhole` (`AllOrNothing`): what is done
  of a review is a prefix of what was asked, at the version asked for and by the entry taken
  at the start (`ReviewInv`), whatever replaces the registry's entry;
* `DrainIsWhole` (`LostOnlyAfterDrain`) and `TypeCorrect`, if every argument list is read alike
  by the validator and by Go's flag package (`ArgsReadAlike`; `OneDashFlag.cfg` shows a list
  that is not). `PodInv` says that preStop sleep plus drain are shorter than the grace period
  (`Fits`, from admission), and that SIGTERM and the drain are not late (`Deadlines`), so the
  drain is over before SIGKILL.

`ServerControllerProofs`, for any number of configs and namespaces: `ChildrenAreGuarded`
(`GuardedChildren`), `BareRemovalLeavesNothing` (an instance that a delete takes at once, with
no finalizer to hold it, never got a child), and `RemovalIsSafe` (`RemovalSparesTargets`), which
rests on `RecordedURL`: outside the config controller's two patches the recorded webhookURL
names what the target calls.

Only model-checked: Engine (its modules use RECURSIVE operators, which the prover does not
take, and its properties are about what recursive definitions compute), and all
liveness (out of the prover's reach).

## 6. Not modelled, and the plan

Left out, with the reason:

* certificates and their reload (`certreload.go`), metrics, tracing, logging: no property
  here depends on them;
* `propagation.go`: reports a condition and chooses a requeue interval;
* the fields of the child objects other than the pod's timings;
* the CRD config controller's own file is the XRD controller's algorithm without the guard,
  and is covered by `GuardOn = FALSE`;
* extraction of schemas from manifests (`pkg/xrdadapter`, `pkg/crdadapter`): input of Engine;
* the other `convctl` commands, `scalegen`, the manager's `main`, generated deep-copy code:
  input and output, wiring, or boilerplate;
* truncated Leases, clock skew, hand-written webhooks: see the modules' restrictions.

What remains of the plan:

1. **ConfigController and Handover composed**, so that a stale webhookURL meets the Leases and
   not only the verdict; their product is too large for the present bounds. TargetWiring is the
   interface between the two.
2. **Proofs**: Engine's seven invariants, once its recursion is written so that the prover
   takes it; they are about what recursive definitions compute.
