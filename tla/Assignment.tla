----------------------------- MODULE Assignment -----------------------------
(***************************************************************************)
(* Who serves a conversion config, and who is told when that changes.      *)
(*                                                                         *)
(* Assignment is a pure function of two lists (internal/assign): the       *)
(* config's webhookServerRef and the ConversionWebhookServers.  Every      *)
(* party - the operator's config controllers and each webhook-server       *)
(* replica - evaluates it on its own informer store, and relies on the     *)
(* CWS fan-out (internal/controller/cws_fanout.go and its twin in          *)
(* internal/webhookserver/reconciler.go) to re-reconcile every config a    *)
(* server change moves.  This module models the resolver, the admission    *)
(* rules for servers, and one party: its informer store, the event         *)
(* notifications its handler has not mapped yet, and its work queue.       *)
(***************************************************************************)
EXTENDS Integers, Sequences, FiniteSets

CONSTANTS
    Servers,          \* names of ConversionWebhookServers
    Configs,          \* conversion configs; a config stands for its shard key too
    Weights,          \* spec.sharding.weight
    Score,            \* shardScore: Score[s, w, c], any hash
    NameOrder,        \* the lexicographic order of the server names
    NoRef,            \* webhookServerRef not set
    Unresolved,       \* ResolveAssignment returned an error
    Absent,           \* no such ConversionWebhookServer
    SerialAdmission,  \* TRUE: a server is only changed once caches have caught up
    MaxChanges        \* bound on server and config edits

(***************************************************************************)
(* shardScore and the tie-break of PickShard.  A server outranks another   *)
(* for a key when its score is higher, or equal with the smaller name.     *)
(***************************************************************************)
Outranks(s, ws, t, wt, c) ==
    \/ Score[<<s, ws, c>>] > Score[<<t, wt, c>>]
    \/ /\ Score[<<s, ws, c>>] = Score[<<t, wt, c>>]
       /\ NameOrder[s] < NameOrder[t]

ASSUME ConstantsAssumption ==
    /\ NoRef \notin Servers
    /\ Unresolved \notin Servers
    /\ SerialAdmission \in BOOLEAN
    /\ MaxChanges \in Nat

\* Scores are comparable numbers and names are distinct.
ASSUME ScoreAssumption ==
    /\ Score \in [Servers \X Weights \X Configs -> Int]
    /\ NameOrder \in [Servers -> Int]
    /\ \A s, t \in Servers : NameOrder[s] = NameOrder[t] => s = t

\* A List returns finitely many servers.
ASSUME FiniteAssumption == IsFiniteSet(Servers)

ServerSpec == [default : BOOLEAN, sharded : BOOLEAN, weight : Weights]

ASSUME AbsentAssumption == Absent \notin ServerSpec

\* A server list: what List returns, by name.
ServerLists == [Servers -> ServerSpec \cup {Absent}]

-----------------------------------------------------------------------------
(* internal/assign: the resolver.                                          *)

Listed(list) == {s \in Servers : list[s] # Absent}

ShardPool(list) == {s \in Listed(list) : list[s].sharded}

Defaults(list) == {s \in Listed(list) : list[s].default}

\* Mutant: the pool is indexed by the hash modulo its size.
PickModulo(list, c) ==
    LET hash == Score[<<CHOOSE s \in Servers : TRUE, CHOOSE w \in Weights : TRUE, c>>]
        position(s) == Cardinality({t \in ShardPool(list) : NameOrder[t] < NameOrder[s]})
    IN  CHOOSE s \in ShardPool(list) : position(s) = hash % Cardinality(ShardPool(list))

\* The pool member every other member is outranked by.
PickShard(list, c) ==
    CHOOSE s \in ShardPool(list) :
        \A t \in ShardPool(list) \ {s} :
            Outranks(s, list[s].weight, t, list[t].weight, c)

\* Strict precedence: the pin, then the pool, then the single default.
ResolveAssignment(c, pin, list) ==
    IF pin # NoRef
      THEN IF pin \in Listed(list) THEN pin ELSE Unresolved
      ELSE IF ShardPool(list) # {}
             THEN PickShard(list, c)
             ELSE IF \E d \in Servers : Defaults(list) = {d}
                    THEN CHOOSE d \in Servers : Defaults(list) = {d}
                    ELSE Unresolved

IsAssignedTo(c, pin, list, s) == ResolveAssignment(c, pin, list) = s

-----------------------------------------------------------------------------
(* The CWS fan-out: which configs a server event enqueues.                 *)

\* The live list with server s replaced (or re-added) as view; a default view
\* clears every other default.
serversWithView(list, s, view) ==
    [t \in Servers |->
        IF t = s THEN view
        ELSE IF list[t] # Absent /\ view.default
               THEN [list[t] EXCEPT !.default = FALSE]
               ELSE list[t]]

\* Configs assigned to s under the server list in which s looks like view.
AssignedUnder(list, pins, s, view) ==
    IF view = Absent
      THEN {}
      ELSE {c \in Configs : IsAssignedTo(c, pins[c], serversWithView(list, s, view), s)}

\* Mutant: only the new object of an update is mapped.
mapConfigsForNewView(list, pins, ev) == AssignedUnder(list, pins, ev.server, ev.new)

\* Update maps both objects, Create and Delete the one they carry.
mapConfigsForServerViews(list, pins, ev) ==
    AssignedUnder(list, pins, ev.server, ev.old)
        \cup AssignedUnder(list, pins, ev.server, ev.new)

-----------------------------------------------------------------------------
VARIABLES
    servers,   \* the ConversionWebhookServers in the API server
    pins,      \* webhookServerRef of each config
    store,     \* this party's informer store of the servers
    watch,     \* server changes the watch has not delivered to the store yet
    notify,    \* changes in the store the event handler has not mapped yet
    queue,     \* configs in this party's work queue
    resolved,  \* the assignment each config was last reconciled with
    changes    \* edits made so far (bounded by MaxChanges)

vars == <<servers, pins, store, watch, notify, queue, resolved, changes>>

Event == [server : Servers, old : ServerSpec \cup {Absent}, new : ServerSpec \cup {Absent}]

TypeOK ==
    /\ servers \in ServerLists
    /\ pins \in [Configs -> Servers \cup {NoRef}]
    /\ store \in ServerLists
    /\ watch \in Seq(Event)
    /\ notify \in Seq(Event)
    /\ queue \in SUBSET Configs
    /\ resolved \in [Configs -> Servers \cup {Unresolved}]
    /\ changes \in 0..MaxChanges

\* A fleet admission would have let through, one write after another.
Admitted(list) ==
    /\ \A s, t \in Defaults(list) : s = t
    /\ \/ ShardPool(list) = {}
       \/ Defaults(list) \subseteq ShardPool(list)

\* The party has just started: its caches are synced, and the initial list
\* enqueued every config.
Init ==
    /\ servers \in ServerLists
    /\ Admitted(servers)
    /\ pins \in [Configs -> Servers \cup {NoRef}]
    /\ store = servers
    /\ watch = <<>>
    /\ notify = <<>>
    /\ queue = Configs
    /\ resolved = [c \in Configs |-> Unresolved]
    /\ changes = 0

-----------------------------------------------------------------------------
(* Admission of a server write; the validator lists from the same kind of  *)
(* informer cache, so it judges against store, not servers.                *)

\* Mutants: the validator checks nothing.
checkNoDefault(list, s, spec) == TRUE
checkNoShardPool(list, s, spec) == TRUE

checkDefault(list, s, spec) == spec.default => Defaults(list) \subseteq {s}

\* While a pool exists, the default (the first one listed) is a pool member.
checkShardPool(list, s, spec) ==
    LET fleet == [list EXCEPT ![s] = spec] IN
        \/ ShardPool(fleet) = {}
        \/ Defaults(fleet) = {}
        \/ \E d \in Defaults(fleet) : d \in ShardPool(fleet)

Change(s, spec) ==
    /\ changes < MaxChanges
    /\ SerialAdmission => watch = <<>>
    /\ servers[s] # spec
    /\ servers' = [servers EXCEPT ![s] = spec]
    /\ watch' = Append(watch, [server |-> s, old |-> servers[s], new |-> spec])
    /\ changes' = changes + 1
    /\ UNCHANGED <<pins, store, notify, queue, resolved>>

\* ValidateCreate and ValidateUpdate, then the write.
WriteServer(s, spec) ==
    /\ checkDefault(store, s, spec)
    /\ checkShardPool(store, s, spec)
    /\ Change(s, spec)

\* The object is gone: its finalizer was removed, or it was force-deleted.
DeleteServer(s) == Change(s, Absent)

\* Editing a config's webhookServerRef reaches the queue as its own event.
EditRef(c, pin) ==
    /\ changes < MaxChanges
    /\ pins[c] # pin
    /\ pins' = [pins EXCEPT ![c] = pin]
    /\ queue' = queue \cup {c}
    /\ changes' = changes + 1
    /\ UNCHANGED <<servers, store, watch, notify, resolved>>

\* The informer applies a change to its store, then hands it to the handlers,
\* which run on their own: the store may be ahead of them.
InformerApply ==
    /\ watch # <<>>
    /\ store' = [store EXCEPT ![Head(watch).server] = Head(watch).new]
    /\ notify' = Append(notify, Head(watch))
    /\ watch' = Tail(watch)
    /\ UNCHANGED <<servers, pins, queue, resolved, changes>>

\* PacedMapFuncs: the handler maps one event against the store as it is now.
HandleServerEvent ==
    /\ notify # <<>>
    /\ queue' = queue \cup mapConfigsForServerViews(store, pins, Head(notify))
    /\ notify' = Tail(notify)
    /\ UNCHANGED <<servers, pins, store, watch, resolved, changes>>

\* A queued config is reconciled: it acts on the assignment it resolves.
ReconcileConfig(c) ==
    /\ c \in queue
    /\ resolved' = [resolved EXCEPT ![c] = ResolveAssignment(c, pins[c], store)]
    /\ queue' = queue \ {c}
    /\ UNCHANGED <<servers, pins, store, watch, notify, changes>>

Next ==
    \/ \E s \in Servers, spec \in ServerSpec : WriteServer(s, spec)
    \/ \E s \in Servers : DeleteServer(s)
    \/ \E c \in Configs, pin \in Servers \cup {NoRef} : EditRef(c, pin)
    \/ InformerApply
    \/ HandleServerEvent
    \/ \E c \in Configs : ReconcileConfig(c)

Spec == Init /\ [][Next]_vars

\* The informer, its handlers and the workers all keep running.
Fairness ==
    /\ WF_vars(InformerApply)
    /\ WF_vars(HandleServerEvent)
    /\ \A c \in Configs : WF_vars(ReconcileConfig(c))

FairSpec == Spec /\ Fairness

-----------------------------------------------------------------------------
(* Properties.                                                             *)

\* No lost reassignment: a config whose last reconciled assignment no longer
\* matches the party's server list is queued, or some notification still to be
\* mapped will queue it as the store stands.  This is the job of the old/new
\* view union in mapConfigsForServerViews.
ReassignmentIsPending ==
    \A c \in Configs \ queue :
        \/ resolved[c] = ResolveAssignment(c, pins[c], store)
        \/ \E i \in 1..Len(notify) : c \in mapConfigsForServerViews(store, pins, notify[i])

\* Once every event has been delivered and mapped, only queued configs are
\* reconciled under an assignment that differs from the API server's lists:
\* no change of servers is missed, whatever order the events were handled in.
NoLostReassignment ==
    (watch = <<>> /\ notify = <<>>) =>
        \A c \in Configs \ queue : resolved[c] = ResolveAssignment(c, pins[c], servers)

\* Rendezvous hashing (PickShard): while a pool exists before and after a
\* change, an unpinned config moves only from or to a server that changed.
MovesOnlyWithChanged(c) ==
    LET before == ResolveAssignment(c, pins[c], servers)
        after  == ResolveAssignment(c, pins[c], servers')
    IN  /\ pins[c] = NoRef
        /\ ShardPool(servers) # {}
        /\ ShardPool(servers') # {}
        /\ before # after
        => \/ servers[before] # servers'[before]
           \/ servers[after] # servers'[after]

\* Every step of the fleet moves only the configs of servers that changed.
MinimalMovement == [][\A c \in Configs : MovesOnlyWithChanged(c)]_servers

\* Admission (checkDefault) keeps at most one instance marked default.
AtMostOneDefault == \A s, t \in Defaults(servers) : s = t

\* Admission (checkShardPool): the change that creates the pool moves no
\* unpinned config that had an assignment.
StaysPutOnActivation(c) ==
    (/\ pins[c] = NoRef
     /\ ShardPool(servers) = {}
     /\ ShardPool(servers') # {}
     /\ ResolveAssignment(c, NoRef, servers) # Unresolved)
        => ResolveAssignment(c, NoRef, servers') = ResolveAssignment(c, NoRef, servers)

\* No step of the fleet moves a config by creating the pool.
PoolActivationMovesNothing == [][\A c \in Configs : StaysPutOnActivation(c)]_servers

\* The party catches up: from some point on every config is reconciled under
\* the assignment the API server's lists resolve to.
EventuallyAgrees ==
    <>[](\A c \in Configs : resolved[c] = ResolveAssignment(c, pins[c], servers))
=============================================================================
