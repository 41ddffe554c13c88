--------------------------- MODULE HandoverProofs ---------------------------
(***************************************************************************)
(* Handover for every number of servers and replicas, all periods and all  *)
(* bounds: type correctness, and that no target is unserved while it moves *)
(* from server to server.                                                  *)
(***************************************************************************)
EXTENDS Handover, FiniteSetTheorems, TLAPS

\* What is assumed of the constants, as separate facts.
LEMMA Assumed ==
    /\ IsFiniteSet(Replicas)
    /\ ServerOf \in [Replicas -> Servers]
    /\ Home \in Servers
    /\ Mute \subseteq Replicas
    /\ Grace \in Nat /\ StaleAfter \in Nat /\ DrainPeriod \in Nat /\ RouteLag \in Nat
    /\ MaxMoves \in Nat /\ MaxRestarts \in Nat /\ MaxDrifts \in Nat /\ MaxDeletes \in Nat
BY ConstantsAssumption DEF ConstantsAssumption

\* A count of replicas is at most the number of replicas.
LEMMA CountBounded ==
    ASSUME NEW S \in SUBSET Replicas
    PROVE  Cardinality(S) \in 0..Cardinality(Replicas)
<1>1. IsFiniteSet(Replicas)
  BY Assumed
<1>2. IsFiniteSet(S) /\ Cardinality(S) <= Cardinality(Replicas)
  BY <1>1, FS_Subset
<1>3. Cardinality(S) \in Nat /\ Cardinality(Replicas) \in Nat
  BY <1>1, <1>2, FS_CardinalityType
<1> QED BY <1>2, <1>3

\* Older counts up to its cap.
LEMMA OlderType ==
    ASSUME NEW cap \in Nat, NEW age \in 0..cap
    PROVE  Older(age, cap) \in 0..cap
BY DEF Older

\* WriteConfig appends the new version to the watches of running replicas.
LEMMA WriteConfigType ==
    ASSUME TypeOK, NEW new \in ConfigObjects, WriteConfig(new)
    PROVE  /\ config' \in ConfigObjects
           /\ watch' \in [Replicas -> [config : Seq(ConfigObjects), target : Seq(TargetObjects)]]
<1>1. ASSUME NEW r \in Replicas
      PROVE  [watch[r] EXCEPT !.config = Append(@, new)]
               \in [config : Seq(ConfigObjects), target : Seq(TargetObjects)]
  <2>1. watch[r] \in [config : Seq(ConfigObjects), target : Seq(TargetObjects)]
    BY DEF TypeOK
  <2>2. Append(watch[r].config, new) \in Seq(ConfigObjects)
    BY <2>1
  <2> QED BY <2>1, <2>2
<1> QED BY <1>1 DEF WriteConfig, TypeOK

\* WriteTarget does the same for the target.
LEMMA WriteTargetType ==
    ASSUME TypeOK, NEW new \in TargetObjects, WriteTarget(new)
    PROVE  /\ target' \in TargetObjects
           /\ watch' \in [Replicas -> [config : Seq(ConfigObjects), target : Seq(TargetObjects)]]
<1>1. ASSUME NEW r \in Replicas
      PROVE  [watch[r] EXCEPT !.target = Append(@, new)]
               \in [config : Seq(ConfigObjects), target : Seq(TargetObjects)]
  <2>1. watch[r] \in [config : Seq(ConfigObjects), target : Seq(TargetObjects)]
    BY DEF TypeOK
  <2>2. Append(watch[r].target, new) \in Seq(TargetObjects)
    BY <2>1
  <2> QED BY <2>1, <2>2
<1> QED BY <1>1 DEF WriteTarget, TypeOK

\* What drainRemaining returns is a time within the drain period, or NoDrain.
LEMMA DrainType ==
    ASSUME TypeOK, NEW r \in Replicas, NEW old
    PROVE  drainRemaining(r, old) \in 0..NoDrain
<1>1. drain[r] \in 0..NoDrain
  BY DEF TypeOK
<1> QED BY <1>1, Assumed DEF drainRemaining, NoDrain

\* reconcileOneXRD leaves a well-formed registry entry and drain clock.
LEMMA ReconcileOneType ==
    ASSUME TypeOK, NEW r \in Replicas, NEW v, NEW old \in Entries,
           reconcileOneXRD(r, v, old)
    PROVE  /\ entry' \in [Replicas -> Entries]
           /\ drain' \in [Replicas -> 0..NoDrain]
           /\ reborn' \subseteq Replicas
<1>1. drainRemaining(r, old) \in 0..NoDrain /\ NoDrain \in 0..NoDrain
  BY DrainType, Assumed DEF NoDrain
<1>2. compileAndRegister(old, v) \in Entries /\ "none" \in Entries
  BY DEF compileAndRegister, Entries
<1> DEFINE keep == ~v.config.deleting /\ (mine(r, v) \/ xrdPointsAtServer(r, v))
           wait == ~v.config.deleting /\ ~keep /\ drainRemaining(r, old) # NoDrain
           new  == IF keep THEN compileAndRegister(old, v) ELSE IF wait THEN old ELSE "none"
           left == IF wait THEN drainRemaining(r, old) ELSE NoDrain
<1>3. new \in Entries /\ left \in 0..NoDrain
  BY <1>1, <1>2
<1>4. /\ entry' = [entry EXCEPT ![r] = new]
      /\ drain' = [drain EXCEPT ![r] = left]
      /\ reborn' = IF new = "plan" THEN reborn \ {r} ELSE reborn
  BY DEF reconcileOneXRD
<1> HIDE DEF new, left
<1> QED BY <1>3, <1>4 DEF TypeOK

\* What a publisher stamps is a Lease.
LEMMA StampType ==
    ASSUME NEW r \in Replicas
    PROVE  stamp(r) \in [age : 0..(StaleAfter + 1), serves : BOOLEAN]
BY Assumed DEF stamp, servableTargets

\* The settled initial state is well typed.
LEMMA InitType == Init => TypeOK
<1> SUFFICES ASSUME Init PROVE TypeOK
  OBVIOUS
<1>1. config \in ConfigObjects /\ target \in TargetObjects
  <2>1. /\ config = [want |-> Home, deleting |-> FALSE]
        /\ target = [conv |-> Home, valid |-> TRUE]
    BY DEF Init
  <2> QED BY <2>1, Assumed DEF ConfigObjects, TargetObjects
<1>2. route \in [Servers -> 0..NotCalled]
  <2>1. route = [s \in Servers |-> IF s = Home THEN 0 ELSE NotCalled]
    BY DEF Init
  <2> QED BY <2>1, Assumed DEF NotCalled
<1>3. /\ view \in [Replicas -> [config : ConfigObjects, target : TargetObjects]]
      /\ watch \in [Replicas -> [config : Seq(ConfigObjects), target : Seq(TargetObjects)]]
  <2>1. /\ view = [r \in Replicas |-> [config |-> config, target |-> target]]
        /\ watch = [r \in Replicas |-> [config |-> <<>>, target |-> <<>>]]
    BY DEF Init
  <2> QED BY <1>1, <2>1
<1>4. /\ queue \subseteq Replicas
      /\ reborn \subseteq Replicas
      /\ entry \in [Replicas -> Entries]
      /\ up \in [Replicas -> {"down", "synced", "ready"}]
  <2>1. /\ queue = {}
        /\ reborn = {}
        /\ entry = [r \in Replicas |-> IF ServerOf[r] = Home THEN "plan" ELSE "none"]
        /\ up = [r \in Replicas |-> "ready"]
    BY DEF Init
  <2> QED BY <2>1 DEF Entries
<1>5. drain \in [Replicas -> 0..NoDrain]
  <2>1. drain = [r \in Replicas |-> NoDrain]
    BY DEF Init
  <2> QED BY <2>1, Assumed DEF NoDrain
<1>6. lease \in [Replicas -> [age : 0..(StaleAfter + 1), serves : BOOLEAN]]
  <2>1. lease = [r \in Replicas |->
                   IF r \in Mute THEN NoLease
                                 ELSE [age |-> 0, serves |-> ServerOf[r] = Home]]
    BY DEF Init
  <2>2. NoLease \in [age : 0..(StaleAfter + 1), serves : BOOLEAN]
    BY Assumed DEF NoLease
  <2>3. ASSUME NEW r \in Replicas
        PROVE  [age |-> 0, serves |-> ServerOf[r] = Home]
                 \in [age : 0..(StaleAfter + 1), serves : BOOLEAN]
    <3>1. 0 \in 0..(StaleAfter + 1)
      BY Assumed
    <3> QED BY <3>1, Zenon
  <2> QED BY <2>1, <2>2, <2>3, Zenon
<1>7. ready \in [Servers -> 0..Cardinality(Replicas)]
  <2>1. ready = [s \in Servers |-> Cardinality(ReplicasOf(s))]
    BY DEF Init
  <2>2. \A s \in Servers : ReplicasOf(s) \subseteq Replicas
    BY DEF ReplicasOf
  <2>3. \A s \in Servers : Cardinality(ReplicasOf(s)) \in 0..Cardinality(Replicas)
    <3> TAKE s \in Servers
    <3>1. ReplicasOf(s) \in SUBSET Replicas
      BY <2>2
    <3> QED BY <3>1, CountBounded
  <2> QED BY <2>1, <2>3
<1>8. /\ cond \in [status : {"", "True", "False"}, age : 0..Grace]
      /\ move \in [to : Servers \cup {NoServer}, verified : BOOLEAN]
      /\ waited \in -1..Grace
  <2>1. 0 \in 0..Grace /\ -1 \in -1..Grace
    BY Assumed
  <2>2. cond \in [status : {"", "True", "False"}, age : 0..Grace]
    BY <2>1, Zenon DEF Init
  <2>3. move \in [to : Servers \cup {NoServer}, verified : BOOLEAN]
    BY DEF Init, Idle
  <2>4. waited \in -1..Grace
    BY <2>1, Zenon DEF Init
  <2> QED BY <2>2, <2>3, <2>4
<1>9. /\ owners \subseteq Servers
      /\ moves \in 0..MaxMoves
      /\ restarts \in 0..MaxRestarts
      /\ drifts \in 0..MaxDrifts
      /\ deletes \in 0..MaxDeletes
  <2>1. owners = {Home} /\ moves = 0 /\ restarts = 0 /\ drifts = 0 /\ deletes = 0
    BY DEF Init
  <2> QED BY <2>1, Assumed
<1> QED
  BY <1>1, <1>2, <1>3, <1>4, <1>5, <1>6, <1>7, <1>8, <1>9 DEF TypeOK

\* A user's or a rebalance's new assignment.
LEMMA ReassignType == TypeOK /\ Reassign => TypeOK'
<1> SUFFICES ASSUME TypeOK, Reassign PROVE TypeOK'
  OBVIOUS
<1> PICK s \in Servers \ {config.want} :
           /\ WriteConfig([config EXCEPT !.want = s])
           /\ owners' = owners \cup {s}
  BY DEF Reassign
<1>1. [config EXCEPT !.want = s] \in ConfigObjects
  BY DEF TypeOK, ConfigObjects
<1>2. /\ config' \in ConfigObjects
      /\ watch' \in [Replicas -> [config : Seq(ConfigObjects), target : Seq(TargetObjects)]]
  BY <1>1, WriteConfigType
<1>3. owners' \subseteq Servers
  BY DEF TypeOK
<1>4. moves' \in 0..MaxMoves /\ waited' \in -1..Grace
  <2>1. moves \in 0..MaxMoves /\ moves < MaxMoves /\ moves' = moves + 1 /\ waited' = -1
    BY DEF Reassign, TypeOK
  <2> QED BY <2>1, Assumed
<1> QED BY <1>2, <1>3, <1>4 DEF Reassign, TypeOK, replicaVars

\* A change of the schema.
LEMMA DriftType == TypeOK /\ Drift => TypeOK'
<1> SUFFICES ASSUME TypeOK, Drift PROVE TypeOK'
  OBVIOUS
<1>1. [target EXCEPT !.valid = ~target.valid] \in TargetObjects
  BY DEF TypeOK, TargetObjects
<1>2. /\ target' \in TargetObjects
      /\ watch' \in [Replicas -> [config : Seq(ConfigObjects), target : Seq(TargetObjects)]]
  BY <1>1, WriteTargetType DEF Drift
<1>3. drifts' \in 0..MaxDrifts
  <2>1. drifts \in 0..MaxDrifts /\ drifts < MaxDrifts /\ drifts' = drifts + 1
    BY DEF Drift, TypeOK
  <2> QED BY <2>1, Assumed
<1> QED BY <1>2, <1>3 DEF Drift, TypeOK, replicaVars, managerVars

\* A deletion timestamp.
LEMMA DeleteType == TypeOK /\ Delete => TypeOK'
<1> SUFFICES ASSUME TypeOK, Delete PROVE TypeOK'
  OBVIOUS
<1>1. [config EXCEPT !.deleting = TRUE] \in ConfigObjects
  BY DEF TypeOK, ConfigObjects
<1>2. /\ config' \in ConfigObjects
      /\ watch' \in [Replicas -> [config : Seq(ConfigObjects), target : Seq(TargetObjects)]]
  BY <1>1, WriteConfigType DEF Delete
<1>3. deletes' \in 0..MaxDeletes
  <2>1. deletes \in 0..MaxDeletes /\ deletes < MaxDeletes /\ deletes' = deletes + 1
    BY DEF Delete, TypeOK
  <2> QED BY <2>1, Assumed
<1> QED BY <1>2, <1>3 DEF Delete, TypeOK, replicaVars, managerVars

\* A watch event moves from the head of a replica's watch into its stores.
LEMMA ObserveType == ASSUME NEW r \in Replicas PROVE TypeOK /\ Observe(r) => TypeOK'
<1> SUFFICES ASSUME TypeOK, Observe(r) PROVE TypeOK'
  OBVIOUS
<1>1. /\ view[r] \in [config : ConfigObjects, target : TargetObjects]
      /\ watch[r] \in [config : Seq(ConfigObjects), target : Seq(TargetObjects)]
  BY DEF TypeOK
<1>2. PICK kind \in {"config", "target"} :
         /\ watch[r][kind] # <<>>
         /\ view' = [view EXCEPT ![r][kind] = Head(watch[r][kind])]
         /\ watch' = [watch EXCEPT ![r][kind] = Tail(watch[r][kind])]
  BY DEF Observe
<1>3. /\ view' \in [Replicas -> [config : ConfigObjects, target : TargetObjects]]
      /\ watch' \in [Replicas -> [config : Seq(ConfigObjects), target : Seq(TargetObjects)]]
  <2>1. CASE kind = "config"
    <3>1. Head(watch[r].config) \in ConfigObjects /\ Tail(watch[r].config) \in Seq(ConfigObjects)
      BY <1>1, <1>2, <2>1
    <3> QED BY <1>1, <1>2, <2>1, <3>1 DEF TypeOK
  <2>2. CASE kind = "target"
    <3>1. Head(watch[r].target) \in TargetObjects /\ Tail(watch[r].target) \in Seq(TargetObjects)
      BY <1>1, <1>2, <2>2
    <3> QED BY <1>1, <1>2, <2>2, <3>1 DEF TypeOK
  <2> QED BY <2>1, <2>2
<1>4. queue' \subseteq Replicas
  BY DEF Observe, TypeOK
<1> QED BY <1>3, <1>4 DEF Observe, TypeOK, managerVars, bounds

\* A watch-driven reconcile of a replica.
LEMMA ReconcileReplicaType ==
    ASSUME NEW r \in Replicas PROVE TypeOK /\ ReconcileReplica(r) => TypeOK'
<1> SUFFICES ASSUME TypeOK, ReconcileReplica(r) PROVE TypeOK'
  OBVIOUS
<1>1. entry[r] \in Entries
  BY DEF TypeOK
<1>2. /\ entry' \in [Replicas -> Entries]
      /\ drain' \in [Replicas -> 0..NoDrain]
      /\ reborn' \subseteq Replicas
  BY <1>1, ReconcileOneType DEF ReconcileReplica
<1>3. queue' \subseteq Replicas
  BY DEF ReconcileReplica, TypeOK
<1> QED BY <1>2, <1>3 DEF ReconcileReplica, TypeOK, managerVars, bounds

\* A publish.
LEMMA PublishType == ASSUME NEW r \in Replicas PROVE TypeOK /\ Publish(r) => TypeOK'
<1> SUFFICES ASSUME TypeOK, Publish(r) PROVE TypeOK'
  OBVIOUS
<1>1. lease' \in [Replicas -> [age : 0..(StaleAfter + 1), serves : BOOLEAN]]
  BY StampType DEF Publish, TypeOK
<1> QED BY <1>1 DEF Publish, TypeOK, replicaVars, managerVars, bounds

\* A restart empties a replica's registry and drops its watches.
LEMMA RestartType == ASSUME NEW r \in Replicas PROVE TypeOK /\ Restart(r) => TypeOK'
<1> SUFFICES ASSUME TypeOK, Restart(r) PROVE TypeOK'
  OBVIOUS
<1>1. restarts' \in 0..MaxRestarts
  <2>1. /\ restarts \in 0..MaxRestarts
        /\ restarts < MaxRestarts /\ restarts' = restarts + 1
    BY DEF Restart, TypeOK
  <2> QED BY <2>1, Assumed
<1>2. /\ up' \in [Replicas -> {"down", "synced", "ready"}]
      /\ entry' \in [Replicas -> Entries]
      /\ queue' \subseteq Replicas
      /\ reborn' \subseteq Replicas
  BY DEF Restart, TypeOK, Entries
<1>3. drain' \in [Replicas -> 0..NoDrain]
  <2>1. NoDrain \in 0..NoDrain
    BY Assumed DEF NoDrain
  <2> QED BY <2>1 DEF Restart, TypeOK
<1>4. watch' \in [Replicas -> [config : Seq(ConfigObjects), target : Seq(TargetObjects)]]
  <2>1. [config |-> <<>>, target |-> <<>>]
          \in [config : Seq(ConfigObjects), target : Seq(TargetObjects)]
    OBVIOUS
  <2> QED BY <2>1 DEF Restart, TypeOK
<1>5. lease' \in [Replicas -> [age : 0..(StaleAfter + 1), serves : BOOLEAN]]
  <2>1. NoLease \in [age : 0..(StaleAfter + 1), serves : BOOLEAN]
    BY Assumed DEF NoLease
  <2> QED BY <2>1 DEF Restart, TypeOK
<1> QED BY <1>1, <1>2, <1>3, <1>4, <1>5 DEF Restart, TypeOK, managerVars

\* The first pass of a new process.
LEMMA InitialSyncType ==
    ASSUME NEW r \in Replicas PROVE TypeOK /\ InitialSync(r) => TypeOK'
<1> SUFFICES ASSUME TypeOK, InitialSync(r) PROVE TypeOK'
  OBVIOUS
<1> DEFINE fresh == [config |-> config, target |-> target]
<1>1. /\ view' = [view EXCEPT ![r] = fresh]
      /\ reconcileOneXRD(r, fresh, "none")
      /\ up' = [up EXCEPT ![r] = "synced"]
  BY DEF InitialSync
<1>2. fresh \in [config : ConfigObjects, target : TargetObjects] /\ "none" \in Entries
  BY DEF TypeOK, Entries
<1>3. /\ entry' \in [Replicas -> Entries]
      /\ drain' \in [Replicas -> 0..NoDrain]
      /\ reborn' \subseteq Replicas
  BY <1>1, <1>2, ReconcileOneType
<1>4. /\ view' \in [Replicas -> [config : ConfigObjects, target : TargetObjects]]
      /\ up' \in [Replicas -> {"down", "synced", "ready"}]
  BY <1>1, <1>2 DEF TypeOK
<1> QED BY <1>3, <1>4 DEF InitialSync, TypeOK, managerVars, bounds

\* The publish at start and readiness.
LEMMA SetReadyType == ASSUME NEW r \in Replicas PROVE TypeOK /\ SetReady(r) => TypeOK'
<1> SUFFICES ASSUME TypeOK, SetReady(r) PROVE TypeOK'
  OBVIOUS
<1>1. /\ lease' \in [Replicas -> [age : 0..(StaleAfter + 1), serves : BOOLEAN]]
      /\ up' \in [Replicas -> {"down", "synced", "ready"}]
  BY StampType DEF SetReady, TypeOK
<1> QED BY <1>1 DEF SetReady, TypeOK, managerVars, bounds

\* The server controller's count of ready replicas.
LEMMA UpdateReadyType == ASSUME NEW s \in Servers PROVE TypeOK /\ UpdateReady(s) => TypeOK'
<1> SUFFICES ASSUME TypeOK, UpdateReady(s) PROVE TypeOK'
  OBVIOUS
<1>1. ReadyOf(s) \in 0..Cardinality(Replicas)
  <2>1. {r \in ReplicasOf(s) : up[r] = "ready"} \in SUBSET Replicas
    BY DEF ReplicasOf
  <2> QED BY <2>1, CountBounded DEF ReadyOf
<1>2. ready' \in [Servers -> 0..Cardinality(Replicas)]
  BY <1>1 DEF UpdateReady, TypeOK
<1> QED BY <1>2 DEF UpdateReady, TypeOK, replicaVars, managerVars, bounds

\* The gate's verdict.
LEMMA CheckHandoverType == TypeOK /\ CheckHandover => TypeOK'
<1> SUFFICES ASSUME TypeOK, CheckHandover PROVE TypeOK'
  OBVIOUS
<1>1. config.want \in Servers
  BY DEF TypeOK, ConfigObjects
<1>2. move' \in [to : Servers \cup {NoServer}, verified : BOOLEAN]
  <2>1. Idle \in [to : Servers \cup {NoServer}, verified : BOOLEAN]
    BY DEF Idle
  <2>2. [to |-> config.want, verified |-> Reporting(config.want) # {}]
          \in [to : Servers \cup {NoServer}, verified : BOOLEAN]
    BY <1>1
  <2>3. move' = Idle
        \/ move' = [to |-> config.want, verified |-> Reporting(config.want) # {}]
    BY DEF CheckHandover
  <2> QED BY <2>1, <2>2, <2>3
<1>3. cond' \in [status : {"", "True", "False"}, age : 0..Grace]
  <2>1. [status |-> "False", age |-> 0] \in [status : {"", "True", "False"}, age : 0..Grace]
    BY Assumed
  <2>2. cond' = cond \/ cond' = [status |-> "False", age |-> 0]
    BY DEF CheckHandover
  <2> QED BY <2>1, <2>2 DEF TypeOK
<1>4. waited' \in -1..Grace
  <2>1. waited' = waited \/ waited' = 0
    BY DEF CheckHandover
  <2>2. waited \in -1..Grace
    BY DEF TypeOK
  <2> QED BY <2>1, <2>2, Assumed
<1> QED BY <1>2, <1>3, <1>4 DEF CheckHandover, TypeOK, replicaVars, bounds

\* The repointing of the target.
LEMMA RepointType == TypeOK /\ Repoint => TypeOK'
<1> SUFFICES ASSUME TypeOK, Repoint PROVE TypeOK'
  OBVIOUS
<1>1. move.to \in Servers
  BY DEF Repoint, TypeOK
<1>2. [target EXCEPT !.conv = move.to] \in TargetObjects
  BY <1>1 DEF TypeOK, TargetObjects
<1>3. /\ target' \in TargetObjects
      /\ watch' \in [Replicas -> [config : Seq(ConfigObjects), target : Seq(TargetObjects)]]
  BY <1>2, WriteTargetType DEF Repoint
<1>4. route' \in [Servers -> 0..NotCalled]
  <2>1. 0 \in 0..NotCalled
    BY Assumed DEF NotCalled
  <2> QED BY <2>1 DEF Repoint, TypeOK
<1>5. cond' \in [status : {"", "True", "False"}, age : 0..Grace]
  <2>1. [status |-> "True", age |-> 0] \in [status : {"", "True", "False"}, age : 0..Grace]
    BY Assumed
  <2> QED BY <2>1 DEF Repoint, TypeOK
<1>6. /\ move' \in [to : Servers \cup {NoServer}, verified : BOOLEAN]
      /\ waited' \in -1..Grace
  <2>1. move' = Idle /\ waited' = -1
    BY DEF Repoint
  <2> QED BY <2>1, Assumed DEF Idle
<1> QED BY <1>3, <1>4, <1>5, <1>6 DEF Repoint, TypeOK, replicaVars, bounds

\* The API server's refresh.
LEMMA RefreshType == ASSUME NEW s \in Servers PROVE TypeOK /\ Refresh(s) => TypeOK'
<1> SUFFICES ASSUME TypeOK, Refresh(s) PROVE TypeOK'
  OBVIOUS
<1>1. route' \in [Servers -> 0..NotCalled]
  <2>1. NotCalled \in 0..NotCalled
    BY Assumed DEF NotCalled
  <2> QED BY <2>1 DEF Refresh, TypeOK
<1> QED BY <1>1 DEF Refresh, TypeOK, replicaVars, managerVars, bounds

\* A tick: every clock stays within its range.
LEMMA TickType == TypeOK /\ Tick => TypeOK'
<1> SUFFICES ASSUME TypeOK, Tick PROVE TypeOK'
  OBVIOUS
<1>1. route' \in [Servers -> 0..NotCalled]
  <2>1. ASSUME NEW s \in Servers
        PROVE  (IF s = target.conv THEN 0 ELSE Older(route[s], NotCalled)) \in 0..NotCalled
    <3>1. route[s] \in 0..NotCalled
      BY DEF TypeOK
    <3>2. NotCalled \in Nat
      BY Assumed DEF NotCalled
    <3> QED BY <3>1, <3>2, OlderType
  <2>2. route' = [s \in Servers |->
                    IF s = target.conv THEN 0 ELSE Older(route[s], NotCalled)]
    BY DEF Tick
  <2> QED BY <2>1, <2>2
<1>2. drain' \in [Replicas -> 0..NoDrain]
  <2>1. ASSUME NEW r \in Replicas
        PROVE  (IF drain[r] = NoDrain THEN NoDrain ELSE drain[r] - 1) \in 0..NoDrain
    <3>1. drain[r] \in 0..NoDrain /\ drain[r] # 0
      BY DEF Tick, Settled, TypeOK
    <3>2. NoDrain \in Nat
      BY Assumed DEF NoDrain
    <3> QED BY <3>1, <3>2
  <2>2. drain' = [r \in Replicas |-> IF drain[r] = NoDrain THEN NoDrain ELSE drain[r] - 1]
    BY DEF Tick
  <2> QED BY <2>1, <2>2
<1>3. lease' \in [Replicas -> [age : 0..(StaleAfter + 1), serves : BOOLEAN]]
  <2>1. ASSUME NEW r \in Replicas
        PROVE  [lease[r] EXCEPT !.age = Older(@, StaleAfter + 1)]
                 \in [age : 0..(StaleAfter + 1), serves : BOOLEAN]
    <3>1. lease[r] \in [age : 0..(StaleAfter + 1), serves : BOOLEAN]
      BY DEF TypeOK
    <3>2. Older(lease[r].age, StaleAfter + 1) \in 0..(StaleAfter + 1)
      BY <3>1, Assumed, OlderType
    <3> QED BY <3>1, <3>2
  <2>2. lease' = [r \in Replicas |->
                    IF up[r] = "ready" /\ r \notin Mute
                      THEN stamp(r)
                      ELSE [lease[r] EXCEPT !.age = Older(@, StaleAfter + 1)]]
    BY DEF Tick
  <2> QED BY <2>1, <2>2, StampType
<1>4. cond' \in [status : {"", "True", "False"}, age : 0..Grace]
  <2>1. cond \in [status : {"", "True", "False"}, age : 0..Grace]
    BY DEF TypeOK
  <2>2. Older(cond.age, Grace) \in 0..Grace
    BY <2>1, Assumed, OlderType
  <2> QED BY <2>1, <2>2 DEF Tick
<1>5. waited' \in -1..Grace
  <2>1. waited \in -1..Grace
    BY DEF TypeOK
  <2>2. waited' = IF waited = -1 THEN -1 ELSE Older(waited, Grace)
    BY DEF Tick
  <2>3. CASE waited = -1
    BY <2>1, <2>2, <2>3
  <2>4. CASE waited # -1
    <3>1. waited \in 0..Grace
      BY <2>1, <2>4, Assumed
    <3>2. Older(waited, Grace) \in 0..Grace
      BY <3>1, Assumed, OlderType
    <3> QED BY <2>2, <2>4, <3>2, Assumed
  <2> QED BY <2>3, <2>4
<1> QED BY <1>1, <1>2, <1>3, <1>4, <1>5 DEF Tick, TypeOK, bounds

\* Type correctness of the handover, for every fleet, all periods and all bounds:
\* every clock (drain, Lease age, grace, routing lag) stays within its range and
\* readyReplicas never exceeds the replicas there are.
THEOREM TypeCorrect == Spec => []TypeOK
<1>1. TypeOK /\ [Next]_vars => TypeOK'
  <2> SUFFICES ASSUME TypeOK, [Next]_vars PROVE TypeOK'
    OBVIOUS
  <2>1. CASE UNCHANGED vars
    BY <2>1 DEF vars, replicaVars, managerVars, bounds, TypeOK
  <2>2. CASE Reassign
    BY <2>2, ReassignType
  <2>3. CASE Drift
    BY <2>3, DriftType
  <2>4. CASE Delete
    BY <2>4, DeleteType
  <2>5. ASSUME NEW r \in Replicas, Replica(r)
        PROVE  TypeOK'
    BY <2>5, ObserveType, ReconcileReplicaType, InitialSyncType, SetReadyType DEF Replica
  <2>6. ASSUME NEW r \in Replicas, Publish(r)
        PROVE  TypeOK'
    BY <2>6, PublishType
  <2>7. ASSUME NEW r \in Replicas, Restart(r)
        PROVE  TypeOK'
    BY <2>7, RestartType
  <2>8. ASSUME NEW s \in Servers, UpdateReady(s)
        PROVE  TypeOK'
    BY <2>8, UpdateReadyType
  <2>9. CASE CheckHandover
    BY <2>9, CheckHandoverType
  <2>10. CASE Repoint
    BY <2>10, RepointType
  <2>11. ASSUME NEW s \in Servers, Refresh(s)
         PROVE  TypeOK'
    BY <2>11, RefreshType
  <2>12. CASE Tick
    BY <2>12, TickType
  <2> QED
    BY <2>1, <2>2, <2>3, <2>4, <2>5, <2>6, <2>7, <2>8, <2>9, <2>10, <2>11, <2>12 DEF Next
<1> QED BY InitType, <1>1, PTL DEF Spec

-----------------------------------------------------------------------------
(***************************************************************************)
(* What a replica has seen of the config and of the target, and what its   *)
(* watch has still to deliver: entry 0 is its store, the others its watch. *)
(***************************************************************************)
ConfigLen(r) == Len(watch[r].config)
TargetLen(r) == Len(watch[r].target)
ConfigAt(r, i) == IF i = 0 THEN view[r].config ELSE watch[r].config[i]
TargetAt(r, i) == IF i = 0 THEN view[r].target ELSE watch[r].target[i]

\* A step delivers a version or none, lists afresh, or adds a version.
ConfigHistory(r) ==
    \/ \E k \in {0, 1} :
         /\ ConfigLen(r)' + k <= ConfigLen(r)
         /\ \A i \in 0..ConfigLen(r)' : ConfigAt(r, i)' = ConfigAt(r, i + k)
         /\ Running(r)' => Running(r) /\ ConfigLen(r)' + k = ConfigLen(r) /\ config' = config
    \/ ConfigLen(r)' = 0 /\ ConfigAt(r, 0)' = config'
    \/ /\ Running(r) /\ ConfigLen(r)' = ConfigLen(r) + 1
       /\ \A i \in 0..ConfigLen(r) : ConfigAt(r, i)' = ConfigAt(r, i)
       /\ ConfigAt(r, ConfigLen(r))' = config'

TargetHistory(r) ==
    \/ \E k \in {0, 1} :
         /\ TargetLen(r)' + k <= TargetLen(r)
         /\ \A i \in 0..TargetLen(r)' : TargetAt(r, i)' = TargetAt(r, i + k)
         /\ Running(r)' => Running(r) /\ TargetLen(r)' + k = TargetLen(r) /\ target' = target
    \/ TargetLen(r)' = 0 /\ TargetAt(r, 0)' = target'
    \/ /\ Running(r) /\ TargetLen(r)' = TargetLen(r) + 1
       /\ \A i \in 0..TargetLen(r) : TargetAt(r, i)' = TargetAt(r, i)
       /\ TargetAt(r, TargetLen(r))' = target'

LEMMA WatchType ==
    ASSUME TypeOK, NEW r \in Replicas
    PROVE  /\ watch[r].config \in Seq(ConfigObjects) /\ watch[r].target \in Seq(TargetObjects)
           /\ ConfigLen(r) \in Nat /\ TargetLen(r) \in Nat
           /\ \A i \in 0..ConfigLen(r) : ConfigAt(r, i) \in ConfigObjects
           /\ \A i \in 0..TargetLen(r) : TargetAt(r, i) \in TargetObjects
           /\ watch[r].config = <<>> <=> ConfigLen(r) = 0
           /\ watch[r].target = <<>> <=> TargetLen(r) = 0
<1>1. /\ watch[r].config \in Seq(ConfigObjects) /\ watch[r].target \in Seq(TargetObjects)
      /\ view[r].config \in ConfigObjects /\ view[r].target \in TargetObjects
  BY DEF TypeOK
<1> QED BY <1>1 DEF ConfigLen, TargetLen, ConfigAt, TargetAt

\* A replica neither writes nor hears of.
LEMMA SameHistory ==
    ASSUME TypeOK, NEW r \in Replicas, view'[r] = view[r], watch'[r] = watch[r],
           Running(r)' => Running(r) /\ config' = config /\ target' = target
    PROVE  ConfigHistory(r) /\ TargetHistory(r)
<1>1. ConfigLen(r) \in Nat /\ TargetLen(r) \in Nat
  BY WatchType
<1>2. /\ ConfigLen(r)' + 0 <= ConfigLen(r) /\ TargetLen(r)' + 0 <= TargetLen(r)
      /\ ConfigLen(r)' + 0 = ConfigLen(r) /\ TargetLen(r)' + 0 = TargetLen(r)
      /\ \A i \in 0..ConfigLen(r)' : ConfigAt(r, i)' = ConfigAt(r, i + 0)
      /\ \A i \in 0..TargetLen(r)' : TargetAt(r, i)' = TargetAt(r, i + 0)
  BY <1>1 DEF ConfigLen, TargetLen, ConfigAt, TargetAt
<1> QED BY <1>2 DEF ConfigHistory, TargetHistory

LEMMA WriteConfigHistory ==
    ASSUME TypeOK, NEW new \in ConfigObjects, WriteConfig(new), UNCHANGED <<view, target, up>>,
           NEW r \in Replicas
    PROVE  ConfigHistory(r) /\ TargetHistory(r)
<1>1. CASE ~Running(r)
  <2>1. watch'[r] = watch[r] /\ ~Running(r)'
    BY <1>1 DEF WriteConfig, Running
  <2> QED BY <2>1, SameHistory
<1>2. CASE Running(r)
  <2> DEFINE q == watch[r].config
             p == Append(q, new)
  <2>1. q \in Seq(ConfigObjects) /\ ConfigLen(r) = Len(q) /\ Len(q) \in Nat
    BY WatchType DEF ConfigLen
  <2>2. watch'[r] = [watch[r] EXCEPT !.config = p]
    BY <1>2 DEF WriteConfig
  <2>3. watch'[r].config = p /\ watch'[r].target = watch[r].target
    <3>1. watch[r] \in [config : Seq(ConfigObjects), target : Seq(TargetObjects)]
      BY DEF TypeOK
    <3> QED BY <2>2, <3>1
  <2>4. Len(p) = Len(q) + 1 /\ p[Len(q) + 1] = new /\ \A i \in 1..Len(q) : p[i] = q[i]
    BY <2>1
  <2> HIDE DEF p, q
  <2>5. /\ ConfigLen(r)' = ConfigLen(r) + 1
        /\ \A i \in 0..ConfigLen(r) : ConfigAt(r, i)' = ConfigAt(r, i)
        /\ ConfigAt(r, ConfigLen(r))' = config'
    <3>1. watch[r].config = q
      BY DEF q
    <3>2. ConfigLen(r)' = Len(q) + 1
      BY <2>3, <2>4 DEF ConfigLen
    <3>3. ASSUME NEW i \in 0..Len(q) PROVE ConfigAt(r, i)' = ConfigAt(r, i)
      BY <2>1, <2>3, <2>4, <3>1 DEF ConfigAt
    <3>4. ConfigAt(r, ConfigLen(r))' = new
      BY <2>1, <2>3, <2>4, <3>2 DEF ConfigAt
    <3>5. config' = new
      BY DEF WriteConfig
    <3> QED BY <2>1, <3>2, <3>3, <3>4, <3>5
  <2>6. TargetHistory(r)
    <3>1. TargetLen(r) \in Nat
      BY WatchType
    <3>2. /\ TargetLen(r)' + 0 <= TargetLen(r) /\ TargetLen(r)' + 0 = TargetLen(r)
          /\ \A i \in 0..TargetLen(r)' : TargetAt(r, i)' = TargetAt(r, i + 0)
      BY <2>3, <3>1 DEF TargetLen, TargetAt
    <3> QED BY <1>2, <3>2 DEF TargetHistory
  <2> QED BY <1>2, <2>5, <2>6 DEF ConfigHistory
<1> QED BY <1>1, <1>2

LEMMA WriteTargetHistory ==
    ASSUME TypeOK, NEW new \in TargetObjects, WriteTarget(new), UNCHANGED <<view, config, up>>,
           NEW r \in Replicas
    PROVE  ConfigHistory(r) /\ TargetHistory(r)
<1>1. CASE ~Running(r)
  <2>1. watch'[r] = watch[r] /\ ~Running(r)'
    BY <1>1 DEF WriteTarget, Running
  <2> QED BY <2>1, SameHistory
<1>2. CASE Running(r)
  <2> DEFINE q == watch[r].target
             p == Append(q, new)
  <2>1. q \in Seq(TargetObjects) /\ TargetLen(r) = Len(q) /\ Len(q) \in Nat
    BY WatchType DEF TargetLen
  <2>2. watch'[r] = [watch[r] EXCEPT !.target = p]
    BY <1>2 DEF WriteTarget
  <2>3. watch'[r].target = p /\ watch'[r].config = watch[r].config
    <3>1. watch[r] \in [config : Seq(ConfigObjects), target : Seq(TargetObjects)]
      BY DEF TypeOK
    <3> QED BY <2>2, <3>1
  <2>4. Len(p) = Len(q) + 1 /\ p[Len(q) + 1] = new /\ \A i \in 1..Len(q) : p[i] = q[i]
    BY <2>1
  <2> HIDE DEF p, q
  <2>5. /\ TargetLen(r)' = TargetLen(r) + 1
        /\ \A i \in 0..TargetLen(r) : TargetAt(r, i)' = TargetAt(r, i)
        /\ TargetAt(r, TargetLen(r))' = target'
    <3>1. watch[r].target = q
      BY DEF q
    <3>2. TargetLen(r)' = Len(q) + 1
      BY <2>3, <2>4 DEF TargetLen
    <3>3. ASSUME NEW i \in 0..Len(q) PROVE TargetAt(r, i)' = TargetAt(r, i)
      BY <2>1, <2>3, <2>4, <3>1 DEF TargetAt
    <3>4. TargetAt(r, TargetLen(r))' = new
      BY <2>1, <2>3, <2>4, <3>2 DEF TargetAt
    <3>5. target' = new
      BY DEF WriteTarget
    <3> QED BY <2>1, <3>2, <3>3, <3>4, <3>5
  <2>6. ConfigHistory(r)
    <3>1. ConfigLen(r) \in Nat
      BY WatchType
    <3>2. /\ ConfigLen(r)' + 0 <= ConfigLen(r) /\ ConfigLen(r)' + 0 = ConfigLen(r)
          /\ \A i \in 0..ConfigLen(r)' : ConfigAt(r, i)' = ConfigAt(r, i + 0)
      BY <2>3, <3>1 DEF ConfigLen, ConfigAt
    <3> QED BY <1>2, <3>2 DEF ConfigHistory
  <2> QED BY <1>2, <2>5, <2>6 DEF TargetHistory
<1> QED BY <1>1, <1>2

LEMMA ObserveHistory ==
    ASSUME TypeOK, NEW r \in Replicas, Observe(r)
    PROVE  ConfigHistory(r) /\ TargetHistory(r)
<1>1. /\ view[r] \in [config : ConfigObjects, target : TargetObjects]
      /\ watch[r] \in [config : Seq(ConfigObjects), target : Seq(TargetObjects)]
  BY DEF TypeOK
<1>2. PICK kind \in {"config", "target"} :
         /\ watch[r][kind] # <<>>
         /\ view' = [view EXCEPT ![r][kind] = Head(watch[r][kind])]
         /\ watch' = [watch EXCEPT ![r][kind] = Tail(watch[r][kind])]
  BY DEF Observe
<1>3. Running(r) /\ config' = config /\ target' = target
  BY DEF Observe
<1>4. CASE kind = "config"
  <2> DEFINE q == watch[r].config
             p == Tail(q)
  <2>1. q \in Seq(ConfigObjects) /\ q # <<>>
    BY <1>1, <1>2, <1>4
  <2>2. /\ Len(q) \in Nat /\ Len(p) \in Nat /\ Len(p) + 1 = Len(q) /\ Head(q) = q[1]
        /\ \A i \in 1..Len(p) : p[i] = q[i + 1]
    BY <2>1
  <2>3. /\ view'[r].config = Head(q) /\ view'[r].target = view[r].target
        /\ watch'[r].config = p /\ watch'[r].target = watch[r].target
    BY <1>1, <1>2, <1>4 DEF TypeOK
  <2>4. ConfigLen(r) = Len(q) /\ ConfigLen(r)' = Len(p)
    BY <2>3 DEF ConfigLen
  <2>5. ASSUME NEW i \in 0..Len(p) PROVE ConfigAt(r, i)' = ConfigAt(r, i + 1)
    <3>1. watch[r].config = q
      OBVIOUS
    <3> HIDE DEF p, q
    <3> QED BY <2>2, <2>3, <3>1 DEF ConfigAt
  <2>6. ConfigHistory(r)
    <3> HIDE DEF p, q
    <3>1. /\ ConfigLen(r)' + 1 <= ConfigLen(r) /\ ConfigLen(r)' + 1 = ConfigLen(r)
          /\ \A i \in 0..ConfigLen(r)' : ConfigAt(r, i)' = ConfigAt(r, i + 1)
      BY <2>2, <2>4, <2>5
    <3> QED BY <1>3, <3>1 DEF ConfigHistory
  <2>7. TargetHistory(r)
    <3>1. TargetLen(r) \in Nat
      BY WatchType
    <3>2. /\ TargetLen(r)' + 0 <= TargetLen(r) /\ TargetLen(r)' + 0 = TargetLen(r)
          /\ \A i \in 0..TargetLen(r)' : TargetAt(r, i)' = TargetAt(r, i + 0)
      BY <2>3, <3>1 DEF TargetLen, TargetAt
    <3> QED BY <1>3, <3>2 DEF TargetHistory
  <2> QED BY <2>6, <2>7
<1>5. CASE kind = "target"
  <2> DEFINE q == watch[r].target
             p == Tail(q)
  <2>1. q \in Seq(TargetObjects) /\ q # <<>>
    BY <1>1, <1>2, <1>5
  <2>2. /\ Len(q) \in Nat /\ Len(p) \in Nat /\ Len(p) + 1 = Len(q) /\ Head(q) = q[1]
        /\ \A i \in 1..Len(p) : p[i] = q[i + 1]
    BY <2>1
  <2>3. /\ view'[r].target = Head(q) /\ view'[r].config = view[r].config
        /\ watch'[r].target = p /\ watch'[r].config = watch[r].config
    BY <1>1, <1>2, <1>5 DEF TypeOK
  <2>4. TargetLen(r) = Len(q) /\ TargetLen(r)' = Len(p)
    BY <2>3 DEF TargetLen
  <2>5. ASSUME NEW i \in 0..Len(p) PROVE TargetAt(r, i)' = TargetAt(r, i + 1)
    <3>1. watch[r].target = q
      OBVIOUS
    <3> HIDE DEF p, q
    <3> QED BY <2>2, <2>3, <3>1 DEF TargetAt
  <2>6. TargetHistory(r)
    <3> HIDE DEF p, q
    <3>1. /\ TargetLen(r)' + 1 <= TargetLen(r) /\ TargetLen(r)' + 1 = TargetLen(r)
          /\ \A i \in 0..TargetLen(r)' : TargetAt(r, i)' = TargetAt(r, i + 1)
      BY <2>2, <2>4, <2>5
    <3> QED BY <1>3, <3>1 DEF TargetHistory
  <2>7. ConfigHistory(r)
    <3>1. ConfigLen(r) \in Nat
      BY WatchType
    <3>2. /\ ConfigLen(r)' + 0 <= ConfigLen(r) /\ ConfigLen(r)' + 0 = ConfigLen(r)
          /\ \A i \in 0..ConfigLen(r)' : ConfigAt(r, i)' = ConfigAt(r, i + 0)
      BY <2>3, <3>1 DEF ConfigLen, ConfigAt
    <3> QED BY <1>3, <3>2 DEF ConfigHistory
  <2> QED BY <2>6, <2>7
<1> QED BY <1>4, <1>5

LEMMA RestartHistory ==
    ASSUME TypeOK, NEW r \in Replicas, Restart(r)
    PROVE  ConfigHistory(r) /\ TargetHistory(r)
<1>1. view' = view /\ watch'[r] = [config |-> <<>>, target |-> <<>>] /\ ~Running(r)'
  BY DEF Restart, TypeOK, Running
<1>2. ConfigLen(r)' = 0 /\ TargetLen(r)' = 0
  BY <1>1 DEF ConfigLen, TargetLen
<1>3. ConfigAt(r, 0)' = ConfigAt(r, 0) /\ TargetAt(r, 0)' = TargetAt(r, 0)
  BY <1>1 DEF ConfigAt, TargetAt
<1>4. ConfigLen(r) \in Nat /\ TargetLen(r) \in Nat
  BY WatchType
<1>5. /\ ConfigLen(r)' + 0 <= ConfigLen(r) /\ TargetLen(r)' + 0 <= TargetLen(r)
      /\ \A i \in 0..ConfigLen(r)' : ConfigAt(r, i)' = ConfigAt(r, i + 0)
      /\ \A i \in 0..TargetLen(r)' : TargetAt(r, i)' = TargetAt(r, i + 0)
  BY <1>2, <1>3, <1>4
<1> QED BY <1>1, <1>5 DEF ConfigHistory, TargetHistory

\* A replica that is down has nothing on its way.
DownHearsNothing == \A r \in Replicas : ~Running(r) => ConfigLen(r) = 0 /\ TargetLen(r) = 0

LEMMA InitialSyncHistory ==
    ASSUME TypeOK, DownHearsNothing, NEW r \in Replicas, InitialSync(r)
    PROVE  ConfigHistory(r) /\ TargetHistory(r)
<1>1. /\ view'[r].config = config /\ view'[r].target = target /\ watch' = watch
      /\ config' = config /\ target' = target /\ ~Running(r)
  BY DEF InitialSync, TypeOK, Running
<1>2. ConfigLen(r)' = 0 /\ TargetLen(r)' = 0
  BY <1>1 DEF ConfigLen, TargetLen, DownHearsNothing
<1> QED BY <1>1, <1>2 DEF ConfigHistory, TargetHistory, ConfigAt, TargetAt

\* Every step is such a step of every replica's history.
LEMMA HistoryStep ==
    ASSUME TypeOK, DownHearsNothing, [Next]_vars, NEW r \in Replicas
    PROVE  ConfigHistory(r) /\ TargetHistory(r)
<1>1. ASSUME UNCHANGED <<config, target, view, watch, up>>
      PROVE  ConfigHistory(r) /\ TargetHistory(r)
  BY <1>1, SameHistory DEF Running
<1>2. ASSUME NEW s \in Replicas, s # r, UNCHANGED <<config, target>>,
             view'[r] = view[r], watch'[r] = watch[r], up'[r] = up[r]
      PROVE  ConfigHistory(r) /\ TargetHistory(r)
  BY <1>2, SameHistory DEF Running
<1>3. CASE Reassign
  <2>1. PICK s \in Servers : WriteConfig([config EXCEPT !.want = s])
    BY <1>3 DEF Reassign
  <2>2. [config EXCEPT !.want = s] \in ConfigObjects
    BY DEF TypeOK, ConfigObjects
  <2>3. UNCHANGED <<view, target, up>>
    BY <1>3 DEF Reassign, replicaVars
  <2> QED BY <2>1, <2>2, <2>3, WriteConfigHistory
<1>4. CASE Drift
  <2>1. [target EXCEPT !.valid = ~target.valid] \in TargetObjects
    BY DEF TypeOK, TargetObjects
  <2>2. UNCHANGED <<view, config, up>> /\ WriteTarget([target EXCEPT !.valid = ~target.valid])
    BY <1>4 DEF Drift, replicaVars
  <2> QED BY <2>1, <2>2, WriteTargetHistory
<1>5. CASE Delete
  <2>1. [config EXCEPT !.deleting = TRUE] \in ConfigObjects
    BY DEF TypeOK, ConfigObjects
  <2>2. UNCHANGED <<view, target, up>> /\ WriteConfig([config EXCEPT !.deleting = TRUE])
    BY <1>5 DEF Delete, replicaVars
  <2> QED BY <2>1, <2>2, WriteConfigHistory
<1>6. CASE Repoint
  <2>1. [target EXCEPT !.conv = move.to] \in TargetObjects
    BY <1>6 DEF Repoint, TypeOK, TargetObjects
  <2>2. UNCHANGED <<view, config, up>> /\ WriteTarget([target EXCEPT !.conv = move.to])
    BY <1>6 DEF Repoint, replicaVars
  <2> QED BY <2>1, <2>2, WriteTargetHistory
<1>7. ASSUME NEW s \in Replicas, Replica(s) \/ Publish(s) \/ Restart(s)
      PROVE  ConfigHistory(r) /\ TargetHistory(r)
  <2>1. CASE s = r
    <3>1. CASE Observe(r)
      BY <3>1, ObserveHistory
    <3>2. CASE InitialSync(r)
      BY <3>2, InitialSyncHistory
    <3>3. CASE Restart(r)
      BY <3>3, RestartHistory
    <3>4. CASE ReconcileReplica(r) \/ Publish(r)
      <4>1. UNCHANGED <<config, target, view, watch, up>>
        BY <3>4 DEF ReconcileReplica, Publish, replicaVars
      <4> QED BY <4>1, <1>1
    <3>5. CASE SetReady(r)
      <4>1. UNCHANGED <<config, target, view, watch>> /\ Running(r)
        BY <3>5 DEF SetReady, Running
      <4> QED BY <4>1, SameHistory
    <3> QED BY <1>7, <2>1, <3>1, <3>2, <3>3, <3>4, <3>5 DEF Replica
  <2>2. CASE s # r
    <3>1. UNCHANGED <<config, target>>
      BY <1>7 DEF Replica, Observe, InitialSync, SetReady, ReconcileReplica, Publish, Restart
    <3>2. view'[r] = view[r] /\ watch'[r] = watch[r]
      BY <1>7, <2>2 DEF TypeOK, Replica, Observe, InitialSync, SetReady, ReconcileReplica,
                        Publish, Restart
    <3>3. up'[r] = up[r]
      BY <1>7, <2>2 DEF TypeOK, Replica, Observe, InitialSync, SetReady, ReconcileReplica,
                        Publish, Restart, replicaVars
    <3> QED BY <1>2, <2>2, <3>1, <3>2, <3>3
  <2> QED BY <2>1, <2>2
<1>8. CASE CheckHandover \/ Tick \/ (\E s \in Servers : UpdateReady(s) \/ Refresh(s))
  BY <1>1, <1>8 DEF CheckHandover, Tick, UpdateReady, Refresh, replicaVars
<1>9. CASE UNCHANGED vars
  BY <1>1, <1>9 DEF vars, replicaVars
<1> QED BY <1>3, <1>4, <1>5, <1>6, <1>7, <1>8, <1>9 DEF Next

LEMMA DownHearsNothingStep ==
    ASSUME TypeOK, DownHearsNothing, [Next]_vars
    PROVE  DownHearsNothing'
<1> SUFFICES ASSUME NEW r \in Replicas, ~Running(r)'
             PROVE  ConfigLen(r)' = 0 /\ TargetLen(r)' = 0
  BY DEF DownHearsNothing
<1>1. CASE ~Running(r)
  <2>1. ConfigLen(r) = 0 /\ TargetLen(r) = 0
    BY <1>1 DEF DownHearsNothing
  <2>2. watch'[r] = watch[r]
    <3>1. CASE Reassign \/ Drift \/ Delete \/ Repoint
      BY <1>1, <3>1 DEF Reassign, Drift, Delete, Repoint, WriteConfig, WriteTarget
    <3>2. CASE \E s \in Replicas : Observe(s) \/ Restart(s)
      BY <1>1, <3>2 DEF Observe, Restart, TypeOK
    <3>3. CASE \E s \in Replicas : ReconcileReplica(s) \/ InitialSync(s) \/ SetReady(s) \/ Publish(s)
      BY <3>3 DEF ReconcileReplica, InitialSync, SetReady, Publish
    <3>4. CASE CheckHandover \/ Tick \/ (\E s \in Servers : UpdateReady(s) \/ Refresh(s))
      BY <3>4 DEF CheckHandover, Tick, UpdateReady, Refresh
    <3>5. CASE UNCHANGED vars
      BY <3>5 DEF vars
    <3> QED BY <3>1, <3>2, <3>3, <3>4, <3>5 DEF Next, Replica
  <2> QED BY <2>1, <2>2 DEF ConfigLen, TargetLen
<1>2. CASE Running(r)
  <2>1. Restart(r)
    <3>1. up'[r] # up[r]
      BY <1>2 DEF Running
    <3>2. CASE \E s \in Replicas : InitialSync(s) \/ SetReady(s) \/ Restart(s)
      BY <1>2, <3>2 DEF InitialSync, SetReady, Restart, TypeOK, Running
    <3>3. ~ UNCHANGED up
      BY <3>1
    <3> QED BY <3>2, <3>3 DEF Next, Replica, Reassign, Drift, Delete, Repoint, Observe,
           ReconcileReplica, Publish, CheckHandover, Tick, UpdateReady, Refresh, vars, replicaVars
  <2>2. watch'[r] = [config |-> <<>>, target |-> <<>>]
    BY <2>1 DEF Restart, TypeOK
  <2> QED BY <2>2 DEF ConfigLen, TargetLen
<1> QED BY <1>1, <1>2

-----------------------------------------------------------------------------
\* What a step may write: a new assignment is to a server that never had the
\* target, and a repointed target names the server the gate has let through.
Writes ==
    /\ owners \subseteq owners'
    /\ \/ config'.want = config.want
       \/ config'.want \in owners' \ owners /\ target' = target /\ move' = move
    /\ \/ target'.conv = target.conv
       \/ /\ move.to # NoServer /\ target'.conv = move.to
          /\ config' = config /\ move'.to = NoServer
    /\ move'.to \in {move.to, NoServer, config'.want}
    /\ ~config'.deleting => ~config.deleting

LEMMA WritesStep ==
    ASSUME TypeOK, ~MayReturn, [Next]_vars
    PROVE  Writes
<1>1. ASSUME UNCHANGED <<config, target, owners, move>> PROVE Writes
  BY <1>1 DEF Writes
<1>2. CASE Reassign
  <2>1. PICK s \in Servers \ {config.want} :
          /\ s \notin owners /\ config' = [config EXCEPT !.want = s] /\ owners' = owners \cup {s}
    BY <1>2 DEF Reassign, WriteConfig
  <2>2. config'.want = s /\ config'.deleting = config.deleting
    BY <2>1 DEF TypeOK, ConfigObjects
  <2>3. target' = target /\ move' = move
    BY <1>2 DEF Reassign
  <2> QED BY <2>1, <2>2, <2>3 DEF Writes
<1>3. CASE Drift
  <2>1. target'.conv = target.conv
    BY <1>3 DEF Drift, WriteTarget, TypeOK, TargetObjects
  <2>2. UNCHANGED <<config, owners, move>>
    BY <1>3 DEF Drift, managerVars
  <2> QED BY <2>1, <2>2 DEF Writes
<1>4. CASE Delete
  <2>1. config'.want = config.want /\ config'.deleting
    BY <1>4 DEF Delete, WriteConfig, TypeOK, ConfigObjects
  <2>2. UNCHANGED <<target, owners, move>>
    BY <1>4 DEF Delete, managerVars
  <2> QED BY <2>1, <2>2 DEF Writes
<1>5. CASE Repoint
  <2>1. target'.conv = move.to /\ move.to # NoServer /\ move'.to = NoServer
    BY <1>5 DEF Repoint, WriteTarget, TypeOK, TargetObjects, Idle
  <2>2. UNCHANGED <<config, owners>>
    BY <1>5 DEF Repoint, bounds
  <2> QED BY <2>1, <2>2 DEF Writes
<1>6. CASE CheckHandover
  <2>1. move'.to \in {config.want, NoServer}
    BY <1>6 DEF CheckHandover, Idle
  <2>2. UNCHANGED <<config, target, owners>>
    BY <1>6 DEF CheckHandover, bounds
  <2> QED BY <2>1, <2>2 DEF Writes
<1>7. CASE \E r \in Replicas : Replica(r) \/ Publish(r) \/ Restart(r)
  BY <1>1, <1>7 DEF Replica, Observe, InitialSync, SetReady, ReconcileReplica, Publish, Restart,
                    managerVars, bounds
<1>8. CASE Tick \/ \E s \in Servers : UpdateReady(s) \/ Refresh(s)
  BY <1>1, <1>8 DEF Tick, UpdateReady, Refresh, managerVars, bounds
<1>9. CASE UNCHANGED vars
  BY <1>1, <1>9 DEF vars, managerVars, bounds
<1> QED BY <1>2, <1>3, <1>4, <1>5, <1>6, <1>7, <1>8, <1>9 DEF Next

\* Only servers that had the target are named anywhere; a config that is not
\* being deleted never was.
OwnersNamed ==
    /\ config.want \in owners /\ target.conv \in owners
    /\ move.to \in owners \cup {NoServer}
    /\ \A r \in Replicas :
         /\ \A i \in 0..ConfigLen(r) :
              /\ ConfigAt(r, i).want \in owners
              /\ ~config.deleting => ~ConfigAt(r, i).deleting
         /\ \A i \in 0..TargetLen(r) : TargetAt(r, i).conv \in owners

\* A running replica will come to see config and target as they are.
EndsCurrent ==
    \A r \in Replicas : Running(r) =>
        ConfigAt(r, ConfigLen(r)) = config /\ TargetAt(r, TargetLen(r)) = target

\* Once a replica has seen the present assignment, or the target name the
\* assigned server, it sees nothing else any more.
AssignedStays ==
    \A r \in Replicas :
        /\ \A i, j \in 0..ConfigLen(r) :
             i < j /\ ConfigAt(r, i).want = config.want => ConfigAt(r, j).want = config.want
        /\ \A i, j \in 0..TargetLen(r) :
             i < j /\ TargetAt(r, i).conv = config.want => TargetAt(r, j).conv = config.want

\* A move decided for an earlier assignment: the target has never named the
\* server it is assigned to now.
LateMove ==
    move.to \notin {NoServer, config.want} =>
        /\ target.conv # config.want
        /\ \A r \in Replicas : \A i \in 0..TargetLen(r) : TargetAt(r, i).conv # config.want

HistoryInv == DownHearsNothing /\ OwnersNamed /\ EndsCurrent /\ AssignedStays /\ LateMove

LEMMA NextLen ==
    ASSUME TypeOK', NEW r \in Replicas
    PROVE  ConfigLen(r)' \in Nat /\ TargetLen(r)' \in Nat
<1>1. watch'[r] \in [config : Seq(ConfigObjects), target : Seq(TargetObjects)]
  BY DEF TypeOK
<1>2. watch'[r].config \in Seq(ConfigObjects) /\ watch'[r].target \in Seq(TargetObjects)
  BY <1>1
<1> QED BY <1>2 DEF ConfigLen, TargetLen

\* What a replica will see after a step it saw before, or is what was written.
LEMMA HistorySources ==
    ASSUME TypeOK, TypeOK', NEW r \in Replicas, ConfigHistory(r), TargetHistory(r)
    PROVE  /\ \A i \in 0..ConfigLen(r)' :
                \/ ConfigAt(r, i)' = config'
                \/ \E j \in 0..ConfigLen(r) : ConfigAt(r, i)' = ConfigAt(r, j)
           /\ \A i \in 0..TargetLen(r)' :
                \/ TargetAt(r, i)' = target'
                \/ \E j \in 0..TargetLen(r) : TargetAt(r, i)' = TargetAt(r, j)
<1>1. /\ ConfigLen(r) \in Nat /\ TargetLen(r) \in Nat
      /\ ConfigLen(r)' \in Nat /\ TargetLen(r)' \in Nat
  BY WatchType, NextLen
<1>2. ASSUME NEW i \in 0..ConfigLen(r)'
      PROVE  \/ ConfigAt(r, i)' = config'
             \/ \E j \in 0..ConfigLen(r) : ConfigAt(r, i)' = ConfigAt(r, j)
  <2>1. CASE \E k \in {0, 1} :
               /\ ConfigLen(r)' + k <= ConfigLen(r)
               /\ \A l \in 0..ConfigLen(r)' : ConfigAt(r, l)' = ConfigAt(r, l + k)
    <3>1. PICK k \in {0, 1} :
               /\ ConfigLen(r)' + k <= ConfigLen(r)
               /\ \A l \in 0..ConfigLen(r)' : ConfigAt(r, l)' = ConfigAt(r, l + k)
      BY <2>1
    <3>2. i + k \in 0..ConfigLen(r) /\ ConfigAt(r, i)' = ConfigAt(r, i + k)
      BY <1>1, <3>1
    <3> QED BY <3>2
  <2>2. CASE ConfigLen(r)' = 0 /\ ConfigAt(r, 0)' = config'
    BY <2>2
  <2>3. CASE /\ ConfigLen(r)' = ConfigLen(r) + 1
             /\ \A l \in 0..ConfigLen(r) : ConfigAt(r, l)' = ConfigAt(r, l)
             /\ ConfigAt(r, ConfigLen(r))' = config'
    BY <1>1, <2>3
  <2> QED BY <2>1, <2>2, <2>3 DEF ConfigHistory
<1>3. ASSUME NEW i \in 0..TargetLen(r)'
      PROVE  \/ TargetAt(r, i)' = target'
             \/ \E j \in 0..TargetLen(r) : TargetAt(r, i)' = TargetAt(r, j)
  <2>1. CASE \E k \in {0, 1} :
               /\ TargetLen(r)' + k <= TargetLen(r)
               /\ \A l \in 0..TargetLen(r)' : TargetAt(r, l)' = TargetAt(r, l + k)
    <3>1. PICK k \in {0, 1} :
               /\ TargetLen(r)' + k <= TargetLen(r)
               /\ \A l \in 0..TargetLen(r)' : TargetAt(r, l)' = TargetAt(r, l + k)
      BY <2>1
    <3>2. i + k \in 0..TargetLen(r) /\ TargetAt(r, i)' = TargetAt(r, i + k)
      BY <1>1, <3>1
    <3> QED BY <3>2
  <2>2. CASE TargetLen(r)' = 0 /\ TargetAt(r, 0)' = target'
    BY <2>2
  <2>3. CASE /\ TargetLen(r)' = TargetLen(r) + 1
             /\ \A l \in 0..TargetLen(r) : TargetAt(r, l)' = TargetAt(r, l)
             /\ TargetAt(r, TargetLen(r))' = target'
    BY <1>1, <2>3
  <2> QED BY <2>1, <2>2, <2>3 DEF TargetHistory
<1> QED BY <1>2, <1>3

LEMMA OwnersNamedStep ==
    ASSUME TypeOK, TypeOK', HistoryInv, Writes,
           \A r \in Replicas : ConfigHistory(r) /\ TargetHistory(r)
    PROVE  OwnersNamed'
<1>1. /\ config'.want \in owners' /\ target'.conv \in owners'
      /\ move'.to \in owners' \cup {NoServer}
  BY DEF HistoryInv, OwnersNamed, Writes
<1>2. ASSUME NEW r \in Replicas
      PROVE  /\ \A i \in 0..ConfigLen(r)' :
                  /\ ConfigAt(r, i)'.want \in owners'
                  /\ ~config'.deleting => ~ConfigAt(r, i)'.deleting
             /\ \A i \in 0..TargetLen(r)' : TargetAt(r, i)'.conv \in owners'
  <2>1. /\ \A i \in 0..ConfigLen(r) :
              /\ ConfigAt(r, i).want \in owners'
              /\ ~config'.deleting => ~ConfigAt(r, i).deleting
        /\ \A i \in 0..TargetLen(r) : TargetAt(r, i).conv \in owners'
    BY DEF HistoryInv, OwnersNamed, Writes
  <2>2. /\ \A i \in 0..ConfigLen(r)' :
              \/ ConfigAt(r, i)' = config'
              \/ \E j \in 0..ConfigLen(r) : ConfigAt(r, i)' = ConfigAt(r, j)
        /\ \A i \in 0..TargetLen(r)' :
              \/ TargetAt(r, i)' = target'
              \/ \E j \in 0..TargetLen(r) : TargetAt(r, i)' = TargetAt(r, j)
    BY HistorySources
  <2> QED BY <1>1, <2>1, <2>2
<1> QED BY <1>1, <1>2 DEF OwnersNamed

LEMMA EndsCurrentStep ==
    ASSUME TypeOK, TypeOK', EndsCurrent, \A r \in Replicas : ConfigHistory(r) /\ TargetHistory(r)
    PROVE  EndsCurrent'
<1> SUFFICES ASSUME NEW r \in Replicas, Running(r)'
             PROVE  /\ ConfigAt(r, ConfigLen(r))' = config'
                    /\ TargetAt(r, TargetLen(r))' = target'
  BY DEF EndsCurrent
<1>1. /\ ConfigLen(r) \in Nat /\ TargetLen(r) \in Nat
      /\ ConfigLen(r)' \in Nat /\ TargetLen(r)' \in Nat
  BY WatchType, NextLen
<1>2. ConfigAt(r, ConfigLen(r))' = config'
  <2>1. CASE \E k \in {0, 1} :
         /\ ConfigLen(r)' + k <= ConfigLen(r)
         /\ \A i \in 0..ConfigLen(r)' : ConfigAt(r, i)' = ConfigAt(r, i + k)
         /\ Running(r)' => Running(r) /\ ConfigLen(r)' + k = ConfigLen(r) /\ config' = config
    <3>1. PICK k \in {0, 1} :
         /\ \A i \in 0..ConfigLen(r)' : ConfigAt(r, i)' = ConfigAt(r, i + k)
         /\ Running(r) /\ ConfigLen(r)' + k = ConfigLen(r) /\ config' = config
      BY <2>1
    <3>2. ConfigAt(r, ConfigLen(r)) = config
      BY <3>1 DEF EndsCurrent
    <3> QED BY <1>1, <3>1, <3>2
  <2> QED BY <2>1 DEF ConfigHistory
<1>3. TargetAt(r, TargetLen(r))' = target'
  <2>1. CASE \E k \in {0, 1} :
         /\ TargetLen(r)' + k <= TargetLen(r)
         /\ \A i \in 0..TargetLen(r)' : TargetAt(r, i)' = TargetAt(r, i + k)
         /\ Running(r)' => Running(r) /\ TargetLen(r)' + k = TargetLen(r) /\ target' = target
    <3>1. PICK k \in {0, 1} :
         /\ \A i \in 0..TargetLen(r)' : TargetAt(r, i)' = TargetAt(r, i + k)
         /\ Running(r) /\ TargetLen(r)' + k = TargetLen(r) /\ target' = target
      BY <2>1
    <3>2. TargetAt(r, TargetLen(r)) = target
      BY <3>1 DEF EndsCurrent
    <3> QED BY <1>1, <3>1, <3>2
  <2> QED BY <2>1 DEF TargetHistory
<1> QED BY <1>2, <1>3

\* The config's part of AssignedStays.
LEMMA ConfigStaysStep ==
    ASSUME TypeOK, TypeOK', HistoryInv, Writes, DownHearsNothing', NEW r \in Replicas,
           ConfigHistory(r)
    PROVE  \A i, j \in 0..ConfigLen(r)' :
             i < j /\ ConfigAt(r, i)'.want = config'.want => ConfigAt(r, j)'.want = config'.want
<1> SUFFICES ASSUME NEW i \in 0..ConfigLen(r)', NEW j \in 0..ConfigLen(r)',
                    i < j, ConfigAt(r, i)'.want = config'.want
             PROVE  ConfigAt(r, j)'.want = config'.want
  OBVIOUS
<1>1. ConfigLen(r) \in Nat /\ ConfigLen(r)' \in Nat
  BY WatchType, NextLen
<1>2. /\ \A l \in 0..ConfigLen(r) : ConfigAt(r, l).want \in owners
      /\ \A l, m \in 0..ConfigLen(r) :
           l < m /\ ConfigAt(r, l).want = config.want => ConfigAt(r, m).want = config.want
  BY DEF HistoryInv, OwnersNamed, AssignedStays
<1>3. Running(r)'
  BY <1>1 DEF DownHearsNothing
<1>4. config'.want = config.want \/ config'.want \notin owners
  BY DEF Writes
<1>5. CASE \E k \in {0, 1} :
             /\ ConfigLen(r)' + k <= ConfigLen(r)
             /\ \A l \in 0..ConfigLen(r)' : ConfigAt(r, l)' = ConfigAt(r, l + k)
  <2>1. PICK k \in {0, 1} :
             /\ ConfigLen(r)' + k <= ConfigLen(r)
             /\ \A l \in 0..ConfigLen(r)' : ConfigAt(r, l)' = ConfigAt(r, l + k)
    BY <1>5
  <2>2. /\ i + k \in 0..ConfigLen(r) /\ j + k \in 0..ConfigLen(r) /\ i + k < j + k
        /\ ConfigAt(r, i)' = ConfigAt(r, i + k) /\ ConfigAt(r, j)' = ConfigAt(r, j + k)
    BY <1>1, <2>1
  <2> QED BY <1>2, <1>4, <2>2
<1>6. CASE ConfigLen(r)' = 0
  BY <1>6
<1>7. CASE /\ Running(r) /\ ConfigLen(r)' = ConfigLen(r) + 1
           /\ \A l \in 0..ConfigLen(r) : ConfigAt(r, l)' = ConfigAt(r, l)
           /\ ConfigAt(r, ConfigLen(r))' = config'
  <2>1. i \in 0..ConfigLen(r) /\ ConfigAt(r, i)' = ConfigAt(r, i)
    BY <1>1, <1>7
  <2>2. ConfigAt(r, i).want = config.want /\ config'.want = config.want
    BY <1>2, <1>4, <2>1
  <2>3. CASE j \in 0..ConfigLen(r)
    BY <1>2, <1>7, <2>1, <2>2, <2>3
  <2>4. CASE j = ConfigLen(r) + 1
    BY <1>7, <2>2, <2>4
  <2> QED BY <1>1, <1>7, <2>3, <2>4
<1> QED BY <1>5, <1>6, <1>7 DEF ConfigHistory

\* The target's part of AssignedStays.
LEMMA TargetStaysStep ==
    ASSUME TypeOK, TypeOK', HistoryInv, Writes, DownHearsNothing', NEW r \in Replicas,
           TargetHistory(r)
    PROVE  \A i, j \in 0..TargetLen(r)' :
             i < j /\ TargetAt(r, i)'.conv = config'.want => TargetAt(r, j)'.conv = config'.want
<1> SUFFICES ASSUME NEW i \in 0..TargetLen(r)', NEW j \in 0..TargetLen(r)',
                    i < j, TargetAt(r, i)'.conv = config'.want
             PROVE  TargetAt(r, j)'.conv = config'.want
  OBVIOUS
<1>1. TargetLen(r) \in Nat /\ TargetLen(r)' \in Nat
  BY WatchType, NextLen
<1>2. /\ \A l \in 0..TargetLen(r) : TargetAt(r, l).conv \in owners
      /\ \A l, m \in 0..TargetLen(r) :
           l < m /\ TargetAt(r, l).conv = config.want => TargetAt(r, m).conv = config.want
  BY DEF HistoryInv, OwnersNamed, AssignedStays
<1>3. Running(r)'
  BY <1>1 DEF DownHearsNothing
<1>4. config'.want = config.want \/ config'.want \notin owners
  BY DEF Writes
<1>5. CASE \E k \in {0, 1} :
             /\ TargetLen(r)' + k <= TargetLen(r)
             /\ \A l \in 0..TargetLen(r)' : TargetAt(r, l)' = TargetAt(r, l + k)
  <2>1. PICK k \in {0, 1} :
             /\ TargetLen(r)' + k <= TargetLen(r)
             /\ \A l \in 0..TargetLen(r)' : TargetAt(r, l)' = TargetAt(r, l + k)
    BY <1>5
  <2>2. /\ i + k \in 0..TargetLen(r) /\ j + k \in 0..TargetLen(r) /\ i + k < j + k
        /\ TargetAt(r, i)' = TargetAt(r, i + k) /\ TargetAt(r, j)' = TargetAt(r, j + k)
    BY <1>1, <2>1
  <2> QED BY <1>2, <1>4, <2>2
<1>6. CASE TargetLen(r)' = 0
  BY <1>6
<1>7. CASE /\ Running(r) /\ TargetLen(r)' = TargetLen(r) + 1
           /\ \A l \in 0..TargetLen(r) : TargetAt(r, l)' = TargetAt(r, l)
           /\ TargetAt(r, TargetLen(r))' = target'
  <2>1. i \in 0..TargetLen(r) /\ TargetAt(r, i)' = TargetAt(r, i)
    BY <1>1, <1>7
  <2>2. TargetAt(r, i).conv = config.want /\ config'.want = config.want
    BY <1>2, <1>4, <2>1
  <2>3. CASE j \in 0..TargetLen(r)
    BY <1>2, <1>7, <2>1, <2>2, <2>3
  <2>4. CASE j = TargetLen(r) + 1
    <3>1. TargetAt(r, j)' = target'
      BY <1>7, <2>4
    <3>2. TargetAt(r, TargetLen(r)) = target
      BY <1>7 DEF HistoryInv, EndsCurrent
    <3>3. target.conv = config.want
      BY <1>1, <1>2, <2>1, <2>2, <3>2
    <3>4. move.to \in {NoServer, config.want}
      BY <3>3 DEF HistoryInv, LateMove
    <3> QED BY <2>2, <3>1, <3>3, <3>4 DEF Writes
  <2> QED BY <1>1, <1>7, <2>3, <2>4
<1> QED BY <1>5, <1>6, <1>7 DEF TargetHistory

LEMMA LateMoveStep ==
    ASSUME TypeOK, TypeOK', HistoryInv, Writes,
           \A r \in Replicas : ConfigHistory(r) /\ TargetHistory(r)
    PROVE  LateMove'
<1> SUFFICES ASSUME move'.to \notin {NoServer, config'.want}
             PROVE  /\ target'.conv # config'.want
                    /\ \A r \in Replicas :
                         \A i \in 0..TargetLen(r)' : TargetAt(r, i)'.conv # config'.want
  BY DEF LateMove
<1>1. /\ target.conv \in owners
      /\ \A r \in Replicas : \A i \in 0..TargetLen(r) : TargetAt(r, i).conv \in owners
  BY DEF HistoryInv, OwnersNamed
<1>2. /\ target'.conv # config'.want
      /\ \A r \in Replicas : \A i \in 0..TargetLen(r) : TargetAt(r, i).conv # config'.want
  BY <1>1 DEF Writes, HistoryInv, LateMove
<1> QED BY <1>2, HistorySources

LEMMA HistoryInvStep ==
    ASSUME TypeOK, TypeOK', ~MayReturn, HistoryInv, [Next]_vars
    PROVE  HistoryInv'
<1>1. DownHearsNothing' /\ Writes /\ \A r \in Replicas : ConfigHistory(r) /\ TargetHistory(r)
  BY DownHearsNothingStep, WritesStep, HistoryStep DEF HistoryInv
<1>2. OwnersNamed' /\ EndsCurrent' /\ LateMove'
  BY <1>1, OwnersNamedStep, EndsCurrentStep, LateMoveStep DEF HistoryInv
<1>3. AssignedStays'
  BY <1>1, ConfigStaysStep, TargetStaysStep DEF AssignedStays
<1> QED BY <1>1, <1>2, <1>3 DEF HistoryInv

LEMMA HistoryInvInit == Init => HistoryInv
<1> SUFFICES ASSUME Init PROVE HistoryInv
  OBVIOUS
<1>1. /\ config = [want |-> Home, deleting |-> FALSE] /\ target = [conv |-> Home, valid |-> TRUE]
      /\ owners = {Home} /\ move.to = NoServer
  BY DEF Init, Idle
<1>2. ASSUME NEW r \in Replicas
      PROVE  /\ ConfigLen(r) = 0 /\ TargetLen(r) = 0
             /\ ConfigAt(r, 0) = config /\ TargetAt(r, 0) = target
  BY DEF Init, ConfigLen, TargetLen, ConfigAt, TargetAt
<1>3. config.want = Home /\ target.conv = Home /\ ~config.deleting
  BY <1>1
<1> QED
  BY <1>1, <1>2, <1>3 DEF HistoryInv, DownHearsNothing, OwnersNamed, EndsCurrent, AssignedStays, LateMove

LEMMA HistoryInvAlways == ~MayReturn => (Spec => []HistoryInv)
<1> SUFFICES ASSUME ~MayReturn PROVE Spec => []HistoryInv
  OBVIOUS
<1>1. TypeOK /\ TypeOK' /\ HistoryInv /\ [Next]_vars => HistoryInv'
  BY HistoryInvStep
<1> QED BY <1>1, HistoryInvInit, TypeCorrect, PTL DEF Spec

-----------------------------------------------------------------------------
(***************************************************************************)
(* Who holds a plan                                                        *)
(***************************************************************************)
\* A replica of a server that never had the target holds nothing and says so.
Untouched(r) ==
    ServerOf[r] \notin owners =>
        /\ entry[r] = "none" /\ drain[r] = NoDrain /\ ~lease[r].serves
        /\ up[r] = "ready" \/ r \in reborn

\* A process that is down has restarted, and a restarted one has no plan.
RebornHasNone(r) == (up[r] = "down" => r \in reborn) /\ (r \in reborn => entry[r] # "plan")

LeaseRenewed(r) == up[r] = "ready" => lease[r].age = 0

\* No drain runs where the last reconcile decided to keep.
Keeps(r) == ~view[r].config.deleting /\ (mine(r, view[r]) \/ xrdPointsAtServer(r, view[r]))
KeptUndrained(r) == r \notin queue /\ Keeps(r) => drain[r] = NoDrain

\* Whatever r still hears of, it will keep its plan.
Held(r) ==
    /\ drain[r] = NoDrain
    /\ \/ \A i \in 0..ConfigLen(r) : ConfigAt(r, i).want = ServerOf[r]
       \/ \A i \in 0..TargetLen(r) : TargetAt(r, i).conv = ServerOf[r]

\* At the assigned server a plan is held on to, and a Lease that lists the target
\* is backed by one.
AssignedHolds(r) ==
    ServerOf[r] = config.want =>
        /\ entry[r] = "plan" => Held(r)
        /\ r \notin reborn /\ (up[r] = "synced" \/ (up[r] = "ready" /\ lease[r].serves))
             => entry[r] = "plan"

\* The server the manager is about to repoint to has plans, at most just
\* beginning to drain.
MoveIsBacked(r) ==
    r \notin reborn /\ ServerOf[r] = move.to =>
        entry[r] = "plan" /\ drain[r] \in {NoDrain, DrainPeriod}

\* The servers that are called have plans, and a drain outlasts the calls.
CalledIsBacked(r) ==
    r \notin reborn /\ route[ServerOf[r]] # NotCalled =>
        /\ entry[r] = "plan"
        /\ drain[r] = NoDrain \/ drain[r] + route[ServerOf[r]] >= DrainPeriod

NamedIsCalled == route[target.conv] = 0

Backed(r) == AssignedHolds(r) /\ MoveIsBacked(r) /\ CalledIsBacked(r)

Sound(r) ==
    /\ Untouched(r) /\ RebornHasNone(r) /\ LeaseRenewed(r) /\ KeptUndrained(r)
    /\ ~config.deleting => Backed(r)

ServingInv == NamedIsCalled /\ \A r \in Replicas : Sound(r)

\* What the theorem asks of the periods and of the moves.
OneWay == ~MayReturn /\ Mute = {} /\ RouteLag < DrainPeriod

LEMMA PeriodFacts ==
    ASSUME OneWay
    PROVE  /\ DrainPeriod \in Nat /\ DrainPeriod # 0 /\ NoDrain = DrainPeriod + 1
           /\ RouteLag \in Nat /\ NotCalled = RouteLag + 1
BY Assumed DEF OneWay, NoDrain, NotCalled

\* What one reconcile of r does to its plan.
LEMMA ReconcileOne ==
    ASSUME TypeOK, OneWay, NEW r \in Replicas, NEW v, NEW old, reconcileOneXRD(r, v, old)
    PROVE  /\ \A o \in Replicas : o # r =>
                /\ entry'[o] = entry[o] /\ drain'[o] = drain[o]
                /\ o \in reborn' <=> o \in reborn
           /\ r \in reborn' <=> r \in reborn /\ entry'[r] # "plan"
           \* keep
           /\ ~v.config.deleting /\ (mine(r, v) \/ xrdPointsAtServer(r, v)) =>
                drain'[r] = NoDrain /\ (old = "plan" => entry'[r] = "plan")
           \* not mine, and nothing there
           /\ ~mine(r, v) /\ ~xrdPointsAtServer(r, v) /\ old = "none" =>
                entry'[r] = "none" /\ drain'[r] = NoDrain
           \* a plan that is made, and one that stays
           /\ old # "plan" /\ entry'[r] = "plan" =>
                /\ ~v.config.deleting /\ (mine(r, v) \/ xrdPointsAtServer(r, v))
                /\ drain'[r] = NoDrain
           /\ old = "plan" /\ ~v.config.deleting /\ drain[r] # 0 =>
                /\ entry'[r] = "plan"
                /\ \/ drain'[r] \in {NoDrain, drain[r]}
                   \/ drain[r] = NoDrain /\ drain'[r] = DrainPeriod
<1> DEFINE keep == ~v.config.deleting /\ (mine(r, v) \/ xrdPointsAtServer(r, v))
           wait == ~v.config.deleting /\ ~keep /\ drainRemaining(r, old) # NoDrain
           new  == IF keep THEN compileAndRegister(old, v) ELSE IF wait THEN old ELSE "none"
           left == IF wait THEN drainRemaining(r, old) ELSE NoDrain
<1>1. /\ entry' = [entry EXCEPT ![r] = new]
      /\ drain' = [drain EXCEPT ![r] = left]
      /\ reborn' = IF new = "plan" THEN reborn \ {r} ELSE reborn
  BY DEF reconcileOneXRD
<1>2. /\ keep => left = NoDrain /\ (old = "plan" => new = "plan")
      /\ keep /\ new # "plan" => old # "plan"
  BY DEF compileAndRegister
<1>3. ~keep => new = IF wait THEN old ELSE "none"
  OBVIOUS
<1>4. drainRemaining(r, "none") = NoDrain
  BY DEF drainRemaining
<1>5. old = "plan" /\ drain[r] # 0 =>
         drainRemaining(r, old) = IF drain[r] = NoDrain THEN DrainPeriod ELSE drain[r]
  BY DEF drainRemaining
<1>6. DrainPeriod # NoDrain
  BY PeriodFacts
<1>7. ~mine(r, v) /\ ~xrdPointsAtServer(r, v) /\ old = "none" => new = "none" /\ left = NoDrain
  BY <1>4
<1>8. old # "plan" /\ new = "plan" => keep /\ left = NoDrain
  BY <1>2, <1>3
<1>9. old = "plan" /\ ~v.config.deleting /\ drain[r] # 0 =>
         /\ new = "plan"
         /\ left \in {NoDrain, drain[r]} \/ (drain[r] = NoDrain /\ left = DrainPeriod)
  <2> SUFFICES ASSUME old = "plan", ~v.config.deleting, drain[r] # 0
               PROVE  /\ new = "plan"
                      /\ left \in {NoDrain, drain[r]} \/ (drain[r] = NoDrain /\ left = DrainPeriod)
    OBVIOUS
  <2>1. CASE keep
    BY <1>2, <2>1
  <2>2. CASE ~keep
    <3>1. wait
      BY <1>5, <1>6, <2>2
    <3> QED BY <1>5, <2>2, <3>1
  <2> QED BY <2>1, <2>2
<1>10. entry'[r] = new /\ drain'[r] = left
  BY <1>1 DEF TypeOK
<1>11. \A o \in Replicas : o # r => entry'[o] = entry[o] /\ drain'[o] = drain[o]
  BY <1>1 DEF TypeOK
<1> DEFINE kept == ~v.config.deleting /\ (mine(r, v) \/ xrdPointsAtServer(r, v))
<1>12. keep <=> kept
  OBVIOUS
<1> HIDE DEF new, left, wait, keep
<1>13. /\ \A o \in Replicas : o # r => (o \in reborn' <=> o \in reborn)
       /\ r \in reborn' <=> r \in reborn /\ new # "plan"
  BY <1>1
<1> QED BY <1>2, <1>7, <1>8, <1>9, <1>10, <1>11, <1>12, <1>13

\* A plan that is held stays held, whatever is written or delivered.
LEMMA HeldStays ==
    ASSUME TypeOK, TypeOK', HistoryInv, Writes, NEW r \in Replicas,
           ConfigHistory(r), TargetHistory(r), Running(r), Held(r), drain'[r] = drain[r],
           ServerOf[r] = config.want, config'.want = config.want
    PROVE  Held(r)'
<1>1. ConfigLen(r) \in Nat /\ TargetLen(r) \in Nat
  BY WatchType
<1>2. CASE \A i \in 0..ConfigLen(r) : ConfigAt(r, i).want = ServerOf[r]
  <2>1. \A i \in 0..ConfigLen(r)' : ConfigAt(r, i)'.want = ServerOf[r]
    BY <1>2, HistorySources
  <2> QED BY <2>1 DEF Held
<1>3. CASE \A i \in 0..TargetLen(r) : TargetAt(r, i).conv = ServerOf[r]
  <2>1. target.conv = ServerOf[r]
    BY <1>1, <1>3 DEF HistoryInv, EndsCurrent
  <2>2. move.to \in {NoServer, config.want}
    BY <2>1 DEF HistoryInv, LateMove
  <2>3. target'.conv = ServerOf[r]
    BY <2>1, <2>2 DEF Writes
  <2>4. \A i \in 0..TargetLen(r)' : TargetAt(r, i)'.conv = ServerOf[r]
    BY <1>3, <2>3, HistorySources
  <2> QED BY <2>4 DEF Held
<1> QED BY <1>2, <1>3 DEF Held

\* What stays true of a replica that takes no step of its own but to listen.
LEMMA Listener ==
    ASSUME TypeOK, TypeOK', HistoryInv, Writes, NEW r \in Replicas, Sound(r),
           ConfigHistory(r), TargetHistory(r),
           entry'[r] = entry[r], drain'[r] = drain[r], up'[r] = up[r], lease'[r] = lease[r],
           r \in reborn' <=> r \in reborn
    PROVE  /\ Untouched(r)' /\ RebornHasNone(r)' /\ LeaseRenewed(r)'
           /\ ~config'.deleting => AssignedHolds(r)'
<1>1. Untouched(r)'
  BY DEF Sound, Untouched, Writes
<1>2. RebornHasNone(r)' /\ LeaseRenewed(r)'
  BY DEF Sound, RebornHasNone, LeaseRenewed
<1>3. ASSUME ~config'.deleting, ServerOf[r] = config'.want PROVE AssignedHolds(r)'
  <2>1. CASE config'.want = config.want
    <3>1. AssignedHolds(r)
      BY <1>3 DEF Sound, Backed, Writes
    <3>2. entry[r] = "plan" => Running(r)
      BY DEF Sound, RebornHasNone, Running
    <3>3. entry[r] = "plan" => Held(r)'
      BY <1>3, <2>1, <3>1, <3>2, HeldStays DEF AssignedHolds
    <3> QED BY <1>3, <2>1, <3>1, <3>3 DEF AssignedHolds
  <2>2. CASE config'.want # config.want
    <3>1. ServerOf[r] \notin owners
      BY <1>3, <2>2 DEF Writes
    <3> QED BY <3>1 DEF Sound, Untouched, AssignedHolds
  <2> QED BY <2>1, <2>2
<1>4. ~config'.deleting => AssignedHolds(r)'
  BY <1>3 DEF AssignedHolds
<1> QED BY <1>1, <1>2, <1>4

\* A replica that does not even listen stays sound, as long as it is neither
\* called nor about to be called anew.
LEMMA Bystander ==
    ASSUME TypeOK, TypeOK', HistoryInv, Writes, NEW r \in Replicas, Sound(r),
           ConfigHistory(r), TargetHistory(r),
           entry'[r] = entry[r], drain'[r] = drain[r], up'[r] = up[r], lease'[r] = lease[r],
           r \in reborn' <=> r \in reborn, view'[r] = view[r], r \in queue' <=> r \in queue,
           ServerOf[r] = move'.to => move'.to = move.to,
           route'[ServerOf[r]] # NotCalled => route'[ServerOf[r]] = route[ServerOf[r]]
    PROVE  Sound(r)'
<1>1. /\ Untouched(r)' /\ RebornHasNone(r)' /\ LeaseRenewed(r)'
      /\ ~config'.deleting => AssignedHolds(r)'
  BY Listener
<1>2. KeptUndrained(r)'
  BY DEF Sound, KeptUndrained, Keeps, mine, xrdPointsAtServer
<1>3. ASSUME ~config'.deleting PROVE MoveIsBacked(r)' /\ CalledIsBacked(r)'
  BY <1>3 DEF Sound, Backed, Writes, MoveIsBacked, CalledIsBacked, NoDrain, NotCalled
<1> QED BY <1>1, <1>2, <1>3 DEF Sound, Backed

-----------------------------------------------------------------------------
\* A step from a state that satisfies the invariants, with what is known of it.
Known ==
    /\ TypeOK /\ TypeOK' /\ HistoryInv /\ ServingInv /\ Writes
    /\ \A r \in Replicas : ConfigHistory(r) /\ TargetHistory(r)

ServersOf == \A r \in Replicas : ServerOf[r] \in Servers /\ ServerOf[r] # NoServer

LEMMA ServersOfReplicas == ServersOf
BY ConstantsAssumption DEF ConstantsAssumption, ServersOf

\* Steps no replica takes part in.
LEMMA PassiveSound ==
    ASSUME Known, UNCHANGED <<view, lease, queue, entry, drain, up, reborn>>,
           \A s \in Servers : route'[s] # NotCalled => route'[s] = route[s],
           move'.to \in {move.to, NoServer}
    PROVE  \A r \in Replicas : Sound(r)'
<1> SUFFICES ASSUME NEW r \in Replicas PROVE Sound(r)'
  OBVIOUS
<1>1. /\ ServerOf[r] = move'.to => move'.to = move.to
      /\ route'[ServerOf[r]] # NotCalled => route'[ServerOf[r]] = route[ServerOf[r]]
  BY ServersOfReplicas DEF ServersOf
<1> QED BY <1>1, Bystander DEF Known, ServingInv

\* What concerns one replica leaves the others as they are.
LEMMA OthersSound ==
    ASSUME Known, NEW r \in Replicas, UNCHANGED <<route, move>>,
           \A o \in Replicas \ {r} :
               /\ entry'[o] = entry[o] /\ drain'[o] = drain[o] /\ up'[o] = up[o]
               /\ lease'[o] = lease[o] /\ view'[o] = view[o]
               /\ o \in reborn' <=> o \in reborn
               /\ o \in queue' <=> o \in queue
    PROVE  \A o \in Replicas \ {r} : Sound(o)'
BY Bystander DEF Known, ServingInv

LEMMA ObserveSound ==
    ASSUME Known, NEW r \in Replicas, Observe(r)
    PROVE  \A o \in Replicas : Sound(o)'
<1>1. /\ UNCHANGED <<config, route, move, entry, drain, up, lease, reborn>>
      /\ queue' = queue \cup {r}
  BY DEF Observe, managerVars
<1>2. \A o \in Replicas \ {r} : view'[o] = view[o]
  BY DEF Observe, Known, TypeOK
<1>3. \A o \in Replicas \ {r} : Sound(o)'
  BY <1>1, <1>2, OthersSound
<1>4. Sound(r) /\ TypeOK /\ TypeOK' /\ HistoryInv /\ Writes /\ ConfigHistory(r) /\ TargetHistory(r)
  BY DEF Known, ServingInv
<1>5. /\ Untouched(r)' /\ RebornHasNone(r)' /\ LeaseRenewed(r)'
      /\ ~config'.deleting => AssignedHolds(r)'
  BY <1>1, <1>4, Listener
<1>6. KeptUndrained(r)'
  BY <1>1 DEF KeptUndrained
<1>7. ~config'.deleting => MoveIsBacked(r)' /\ CalledIsBacked(r)'
  BY <1>1, <1>4 DEF Sound, Backed, MoveIsBacked, CalledIsBacked, NoDrain, NotCalled
<1> QED BY <1>3, <1>5, <1>6, <1>7 DEF Sound, Backed

\* A publish tells the truth.
LEMMA PublishSound ==
    ASSUME Known, OneWay, NEW r \in Replicas, Publish(r) \/ SetReady(r)
    PROVE  \A o \in Replicas : Sound(o)'
<1>1. /\ UNCHANGED <<config, target, route, move, entry, drain, reborn, view, watch, queue, owners>>
      /\ lease' = [lease EXCEPT ![r] = stamp(r)]
  BY DEF Publish, SetReady, OneWay, managerVars, replicaVars, bounds
<1>2. /\ \A o \in Replicas \ {r} : up'[o] = up[o]
      /\ up'[r] = "ready" /\ up[r] \in {"ready", "synced"}
  BY DEF Publish, SetReady, Known, TypeOK, replicaVars
<1>3. /\ \A o \in Replicas \ {r} : lease'[o] = lease[o]
      /\ lease'[r] = stamp(r)
  BY <1>1 DEF Known, TypeOK
<1>4. lease'[r].age = 0 /\ (lease'[r].serves <=> entry[r] = "plan")
  <2>1. lease'[r] = [age |-> 0, serves |-> (entry[r] = "plan")]
    BY <1>3, Zenon DEF stamp, servableTargets
  <2>2. CASE entry[r] = "plan"
    <3>1. (entry[r] = "plan") = TRUE
      BY <2>2, Zenon
    <3>2. lease'[r] = [age |-> 0, serves |-> TRUE]
      BY <2>1, <3>1, Zenon
    <3> QED BY <2>2, <3>2, SMT
  <2>3. CASE entry[r] # "plan"
    <3>1. (entry[r] = "plan") = FALSE
      BY <2>3, Zenon
    <3>2. lease'[r] = [age |-> 0, serves |-> FALSE]
      BY <2>1, <3>1, Zenon
    <3> QED BY <2>3, <3>2, SMT
  <2> QED BY <2>2, <2>3
<1>5. \A o \in Replicas \ {r} : Sound(o)'
  BY <1>1, <1>2, <1>3, OthersSound
<1>6. Sound(r)
  BY DEF Known, ServingInv
<1>7. Untouched(r)' /\ RebornHasNone(r)' /\ LeaseRenewed(r)'
  BY <1>1, <1>2, <1>4, <1>6 DEF Sound, Untouched, RebornHasNone, LeaseRenewed, NoDrain
<1>8. KeptUndrained(r)'
  BY <1>1, <1>6 DEF Sound, KeptUndrained, Keeps, mine, xrdPointsAtServer, NoDrain
<1>9. ASSUME ~config'.deleting PROVE Backed(r)'
  <2>1. Backed(r)
    BY <1>1, <1>6, <1>9 DEF Sound
  <2>2. MoveIsBacked(r)' /\ CalledIsBacked(r)'
    BY <1>1, <2>1 DEF Backed, MoveIsBacked, CalledIsBacked, NoDrain, NotCalled
  <2>3. Held(r) => Held(r)'
    BY <1>1 DEF Held, ConfigLen, TargetLen, ConfigAt, TargetAt, NoDrain
  <2>4. AssignedHolds(r)'
    BY <1>1, <1>2, <1>4, <2>1, <2>3 DEF Backed, AssignedHolds
  <2> QED BY <2>2, <2>4 DEF Backed
<1> QED BY <1>5, <1>7, <1>8, <1>9 DEF Sound

LEMMA RestartSound ==
    ASSUME Known, NEW r \in Replicas, Restart(r)
    PROVE  \A o \in Replicas : Sound(o)'
<1>1. /\ UNCHANGED <<config, route, move, view, owners>>
      /\ queue' = queue \ {r} /\ reborn' = reborn \cup {r}
  BY DEF Restart, managerVars
<1>2. /\ entry'[r] = "none" /\ drain'[r] = NoDrain /\ up'[r] = "down"
      /\ \A o \in Replicas \ {r} : entry'[o] = entry[o] /\ drain'[o] = drain[o] /\ up'[o] = up[o]
  BY DEF Restart, Known, TypeOK
<1>3. /\ \A o \in Replicas \ {r} : lease'[o] = lease[o]
      /\ lease'[r] \in {lease[r], NoLease}
  BY DEF Restart, Known, TypeOK
<1>4. \A o \in Replicas \ {r} : Sound(o)'
  BY <1>1, <1>2, <1>3, OthersSound
<1>5. Sound(r)
  BY DEF Known, ServingInv
<1>6. ~lease[r].serves => ~lease'[r].serves
  BY <1>3 DEF NoLease
<1>7. Untouched(r)' /\ RebornHasNone(r)' /\ LeaseRenewed(r)' /\ KeptUndrained(r)'
  BY <1>1, <1>2, <1>5, <1>6
     DEF Sound, Untouched, RebornHasNone, LeaseRenewed, KeptUndrained, NoDrain
<1>8. Backed(r)'
  BY <1>1, <1>2 DEF Backed, AssignedHolds, MoveIsBacked, CalledIsBacked
<1> QED BY <1>4, <1>7, <1>8 DEF Sound

\* A reconcile of a running replica.
LEMMA ReconcileSound ==
    ASSUME Known, OneWay, NEW r \in Replicas, ReconcileReplica(r)
    PROVE  \A o \in Replicas : Sound(o)'
<1>1. /\ UNCHANGED <<config, target, route, move, view, watch, up, lease, owners>>
      /\ queue' = queue \ {r} /\ Running(r) /\ reconcileOneXRD(r, view[r], entry[r])
  BY DEF ReconcileReplica, managerVars, bounds
<1>2. TypeOK /\ Sound(r)
  BY DEF Known, ServingInv
<1> DEFINE v == view[r]
           old == entry[r]
<1>3. /\ \A o \in Replicas : o # r =>
           /\ entry'[o] = entry[o] /\ drain'[o] = drain[o]
           /\ o \in reborn' <=> o \in reborn
      /\ r \in reborn' <=> r \in reborn /\ entry'[r] # "plan"
      /\ ~v.config.deleting /\ (mine(r, v) \/ xrdPointsAtServer(r, v)) =>
           drain'[r] = NoDrain /\ (old = "plan" => entry'[r] = "plan")
      /\ ~mine(r, v) /\ ~xrdPointsAtServer(r, v) /\ old = "none" =>
           entry'[r] = "none" /\ drain'[r] = NoDrain
      /\ old # "plan" /\ entry'[r] = "plan" =>
           /\ ~v.config.deleting /\ (mine(r, v) \/ xrdPointsAtServer(r, v))
           /\ drain'[r] = NoDrain
      /\ old = "plan" /\ ~v.config.deleting /\ drain[r] # 0 =>
           /\ entry'[r] = "plan"
           /\ \/ drain'[r] \in {NoDrain, drain[r]}
              \/ drain[r] = NoDrain /\ drain'[r] = DrainPeriod
  BY <1>1, <1>2, ReconcileOne
<1>4. \A o \in Replicas \ {r} : Sound(o)'
  BY <1>1, <1>3, OthersSound
<1>5. /\ ConfigLen(r) \in Nat /\ TargetLen(r) \in Nat
      /\ ConfigAt(r, 0) = v.config /\ TargetAt(r, 0) = v.target
  BY <1>2, WatchType DEF ConfigAt, TargetAt
<1>6. /\ v.config.want \in owners /\ v.target.conv \in owners
      /\ ~config.deleting => ~v.config.deleting
  BY <1>5 DEF Known, HistoryInv, OwnersNamed
<1>7. ServerOf[r] \notin owners => ~mine(r, v) /\ ~xrdPointsAtServer(r, v)
  BY <1>6 DEF mine, xrdPointsAtServer
<1>8. Untouched(r)'
  BY <1>1, <1>2, <1>3, <1>7 DEF Sound, Untouched, NoDrain
<1>9. RebornHasNone(r)' /\ LeaseRenewed(r)'
  BY <1>1, <1>2, <1>3 DEF Sound, RebornHasNone, LeaseRenewed, Running
<1>10. KeptUndrained(r)'
  BY <1>1, <1>3 DEF KeptUndrained, Keeps, mine, xrdPointsAtServer, NoDrain
<1>11. ASSUME ~config'.deleting PROVE Backed(r)'
  <2>1. Backed(r) /\ ~v.config.deleting /\ ~config.deleting
    BY <1>1, <1>2, <1>6, <1>11 DEF Sound
  <2>2. r \in reborn => old # "plan"
    BY <1>2 DEF Sound, RebornHasNone
  <2>3. AssignedHolds(r)'
    <3> SUFFICES ASSUME ServerOf[r] = config.want PROVE AssignedHolds(r)'
      BY <1>1 DEF AssignedHolds
    <3>1. AssignedHolds(r)
      BY <2>1 DEF Backed
    <3>2. old = "plan" => mine(r, v) \/ xrdPointsAtServer(r, v)
      BY <1>5, <3>1 DEF AssignedHolds, Held, mine, xrdPointsAtServer
    <3>3. ASSUME entry'[r] = "plan" PROVE Held(r)'
      <4>1. mine(r, v) \/ xrdPointsAtServer(r, v)
        BY <1>3, <3>2, <3>3
      <4>2. drain'[r] = NoDrain
        BY <1>3, <2>1, <4>1
      <4>3. /\ \A i \in 0..ConfigLen(r) : 0 < i /\ v.config.want = config.want
                 => ConfigAt(r, i).want = config.want
            /\ \A i \in 0..TargetLen(r) : 0 < i /\ v.target.conv = config.want
                 => TargetAt(r, i).conv = config.want
        BY <1>5 DEF Known, HistoryInv, AssignedStays
      <4>4. \/ \A i \in 0..ConfigLen(r) : ConfigAt(r, i).want = ServerOf[r]
            \/ \A i \in 0..TargetLen(r) : TargetAt(r, i).conv = ServerOf[r]
        BY <1>5, <4>1, <4>3 DEF mine, xrdPointsAtServer
      <4>5. /\ ConfigLen(r)' = ConfigLen(r) /\ TargetLen(r)' = TargetLen(r)
            /\ \A i : ConfigAt(r, i)' = ConfigAt(r, i) /\ TargetAt(r, i)' = TargetAt(r, i)
        BY <1>1 DEF ConfigLen, TargetLen, ConfigAt, TargetAt
      <4> QED BY <4>2, <4>4, <4>5 DEF Held, NoDrain
    <3>4. ASSUME r \notin reborn', up[r] = "synced" \/ (up[r] = "ready" /\ lease[r].serves)
          PROVE  entry'[r] = "plan"
      BY <1>3, <2>1, <3>1, <3>2, <3>4 DEF AssignedHolds
    <3> QED BY <1>1, <3>3, <3>4 DEF AssignedHolds
  <2>4. MoveIsBacked(r)'
    <3> SUFFICES ASSUME r \notin reborn', ServerOf[r] = move.to
                 PROVE  entry'[r] = "plan" /\ drain'[r] \in {NoDrain, DrainPeriod}
      BY <1>1 DEF MoveIsBacked, NoDrain
    <3>1. CASE r \in reborn
      BY <1>3, <2>2, <3>1
    <3>2. CASE r \notin reborn
      <4>1. old = "plan" /\ drain[r] \in {NoDrain, DrainPeriod}
        BY <2>1, <3>2 DEF Backed, MoveIsBacked
      <4>2. drain[r] # 0
        BY <4>1, PeriodFacts
      <4> QED BY <1>3, <2>1, <4>1, <4>2
    <3> QED BY <3>1, <3>2
  <2>5. CalledIsBacked(r)'
    <3> DEFINE n == route[ServerOf[r]]
    <3> SUFFICES ASSUME r \notin reborn', n # NotCalled
                 PROVE  /\ entry'[r] = "plan"
                        /\ drain'[r] = NoDrain \/ drain'[r] + n >= DrainPeriod
      BY <1>1 DEF CalledIsBacked, NoDrain, NotCalled
    <3>1. CASE r \in reborn
      BY <1>3, <2>2, <3>1
    <3>2. CASE r \notin reborn
      <4>1. old = "plan" /\ (drain[r] = NoDrain \/ drain[r] + n >= DrainPeriod)
        BY <2>1, <3>2 DEF Backed, CalledIsBacked
      <4>2. n \in 0..RouteLag /\ drain[r] \in 0..NoDrain
        <5>1. n \in 0..NotCalled /\ drain[r] \in 0..NoDrain
          BY <1>2, ServersOfReplicas DEF TypeOK, ServersOf
        <5> QED BY <5>1, PeriodFacts
      <4>3. drain[r] # 0
        BY <4>1, <4>2, PeriodFacts DEF OneWay
      <4>4. /\ entry'[r] = "plan"
            /\ \/ drain'[r] \in {NoDrain, drain[r]}
               \/ drain[r] = NoDrain /\ drain'[r] = DrainPeriod
        BY <1>3, <2>1, <4>1, <4>3
      <4> QED BY <4>1, <4>2, <4>4, PeriodFacts
    <3> QED BY <3>1, <3>2
  <2> QED BY <2>3, <2>4, <2>5 DEF Backed
<1> QED BY <1>4, <1>8, <1>9, <1>10, <1>11 DEF Sound

\* The first reconcile of a new process.
LEMMA InitialSyncSound ==
    ASSUME Known, OneWay, NEW r \in Replicas, InitialSync(r)
    PROVE  \A o \in Replicas : Sound(o)'
<1> DEFINE v == [config |-> config, target |-> target]
<1>1. /\ UNCHANGED <<config, target, route, move, watch, queue, lease, owners>>
      /\ up[r] = "down" /\ reconcileOneXRD(r, v, "none")
      /\ view' = [view EXCEPT ![r] = v] /\ up' = [up EXCEPT ![r] = "synced"]
  BY DEF InitialSync, managerVars, bounds
<1>2. TypeOK /\ Sound(r) /\ HistoryInv
  BY DEF Known, ServingInv
<1>3. v.config = config /\ v.target = target
  OBVIOUS
<1>4. /\ view'[r] = v /\ up'[r] = "synced"
      /\ \A o \in Replicas \ {r} : view'[o] = view[o] /\ up'[o] = up[o]
  BY <1>1, <1>2 DEF TypeOK
<1> HIDE DEF v
<1>5. /\ \A o \in Replicas : o # r =>
           /\ entry'[o] = entry[o] /\ drain'[o] = drain[o]
           /\ o \in reborn' <=> o \in reborn
      /\ r \in reborn' <=> r \in reborn /\ entry'[r] # "plan"
      /\ ~v.config.deleting /\ (mine(r, v) \/ xrdPointsAtServer(r, v)) => drain'[r] = NoDrain
      /\ ~mine(r, v) /\ ~xrdPointsAtServer(r, v) =>
           entry'[r] = "none" /\ drain'[r] = NoDrain
      /\ entry'[r] = "plan" =>
           /\ ~v.config.deleting /\ (mine(r, v) \/ xrdPointsAtServer(r, v))
           /\ drain'[r] = NoDrain
  BY <1>1, <1>2, ReconcileOne
<1>6. \A o \in Replicas \ {r} : Sound(o)'
  BY <1>1, <1>4, <1>5, OthersSound
<1>7. r \in reborn
  BY <1>1, <1>2 DEF Sound, RebornHasNone
<1>8. Untouched(r)'
  <2>1. ServerOf[r] \notin owners => ~mine(r, v) /\ ~xrdPointsAtServer(r, v)
    BY <1>2, <1>3 DEF HistoryInv, OwnersNamed, mine, xrdPointsAtServer
  <2> QED BY <1>1, <1>2, <1>5, <1>7, <2>1 DEF Sound, Untouched, NoDrain
<1>9. RebornHasNone(r)' /\ LeaseRenewed(r)' /\ KeptUndrained(r)'
  BY <1>4, <1>5 DEF RebornHasNone, LeaseRenewed, KeptUndrained, Keeps, mine, xrdPointsAtServer, NoDrain
<1>10. MoveIsBacked(r)' /\ CalledIsBacked(r)'
  BY <1>5, <1>7 DEF MoveIsBacked, CalledIsBacked, NoDrain, NotCalled
<1>11. AssignedHolds(r)'
  <2>1. ASSUME entry'[r] = "plan" PROVE Held(r)'
    <3>1. ConfigLen(r)' = 0 /\ TargetLen(r)' = 0
      BY <1>1, <1>2 DEF HistoryInv, DownHearsNothing, Running, ConfigLen, TargetLen
    <3>2. ConfigAt(r, 0)' = config /\ TargetAt(r, 0)' = target
      BY <1>3, <1>4 DEF ConfigAt, TargetAt
    <3>3. config.want = ServerOf[r] \/ target.conv = ServerOf[r]
      BY <1>3, <1>5, <2>1 DEF mine, xrdPointsAtServer
    <3>4. \/ \A i \in 0..ConfigLen(r)' : ConfigAt(r, i)'.want = ServerOf[r]
          \/ \A i \in 0..TargetLen(r)' : TargetAt(r, i)'.conv = ServerOf[r]
      BY <3>1, <3>2, <3>3
    <3> QED BY <1>5, <2>1, <3>4 DEF Held, NoDrain
  <2> QED BY <1>5, <1>7, <2>1 DEF AssignedHolds
<1> QED BY <1>6, <1>8, <1>9, <1>10, <1>11 DEF Sound, Backed

\* The gate's verdict: a server it lets through has plans on all its replicas.
LEMMA CheckHandoverSound ==
    ASSUME Known, OneWay, CheckHandover
    PROVE  \A o \in Replicas : Sound(o)'
<1>1. UNCHANGED <<config, target, route, view, watch, lease, queue, entry, drain, up, reborn>>
  BY DEF CheckHandover, replicaVars
<1>2. CASE move'.to \in {move.to, NoServer}
  BY <1>1, <1>2, PassiveSound
<1>3. CASE move'.to \notin {move.to, NoServer}
  <2>1. canServeTarget(config.want) /\ move'.to = config.want /\ ~config.deleting
    BY <1>3 DEF CheckHandover, Idle
  <2> SUFFICES ASSUME NEW r \in Replicas PROVE Sound(r)'
    OBVIOUS
  <2>2. Sound(r) /\ Backed(r) /\ TypeOK /\ TypeOK' /\ HistoryInv /\ Writes
        /\ ConfigHistory(r) /\ TargetHistory(r)
    BY <2>1 DEF Known, ServingInv, Sound
  <2>3. CASE ServerOf[r] # config.want
    BY <1>1, <2>1, <2>2, <2>3, Bystander
  <2>4. CASE ServerOf[r] = config.want
    <3>1. /\ Untouched(r)' /\ RebornHasNone(r)' /\ LeaseRenewed(r)' /\ AssignedHolds(r)'
      BY <1>1, <2>1, <2>2, Listener
    <3>2. KeptUndrained(r)' /\ CalledIsBacked(r)'
      BY <1>1, <2>2 DEF Sound, Backed, KeptUndrained, CalledIsBacked, Keeps, mine,
                        xrdPointsAtServer, NoDrain, NotCalled
    <3>3. ASSUME r \notin reborn PROVE entry[r] = "plan" /\ drain[r] = NoDrain
      <4>1. up[r] \in {"synced", "ready"}
        BY <2>2, <3>3 DEF Sound, RebornHasNone, TypeOK
      <4>2. CASE up[r] = "ready"
        <5>1. lease[r].age = 0
          BY <2>2, <4>2 DEF Sound, LeaseRenewed
        <5>2. r \in Reporting(config.want)
          BY <2>4, <5>1, Assumed DEF Reporting, ReplicasOf
        <5>3. lease[r].serves
          BY <2>1, <5>2 DEF canServeTarget, Aggregate
        <5> QED BY <2>2, <2>4, <3>3, <4>2, <5>3 DEF Backed, AssignedHolds, Held
      <4>3. CASE up[r] = "synced"
        BY <2>2, <2>4, <3>3, <4>3 DEF Backed, AssignedHolds, Held
      <4> QED BY <4>1, <4>2, <4>3
    <3>4. MoveIsBacked(r)'
      BY <1>1, <3>3 DEF MoveIsBacked, NoDrain
    <3> QED BY <3>1, <3>2, <3>4 DEF Sound, Backed
  <2> QED BY <2>3, <2>4
<1> QED BY <1>2, <1>3

\* The target is repointed: the new server is called from now on.
LEMMA RepointSound ==
    ASSUME Known, OneWay, Repoint
    PROVE  \A o \in Replicas : Sound(o)'
<1>1. /\ UNCHANGED <<config, view, lease, queue, entry, drain, up, reborn>>
      /\ move.to # NoServer /\ route' = [route EXCEPT ![move.to] = 0] /\ move'.to = NoServer
  BY DEF Repoint, replicaVars, Idle
<1> SUFFICES ASSUME NEW r \in Replicas PROVE Sound(r)'
  OBVIOUS
<1>2. /\ Sound(r) /\ TypeOK /\ TypeOK' /\ HistoryInv /\ Writes
      /\ ConfigHistory(r) /\ TargetHistory(r) /\ ServerOf[r] \in Servers /\ ServerOf[r] # NoServer
  BY ServersOfReplicas DEF Known, ServingInv, ServersOf
<1>3. CASE ServerOf[r] # move.to
  <2>1. route'[ServerOf[r]] = route[ServerOf[r]]
    BY <1>1, <1>2, <1>3 DEF TypeOK
  <2> QED BY <1>1, <1>2, <2>1, Bystander
<1>4. CASE ServerOf[r] = move.to
  <2>1. route'[ServerOf[r]] = 0
    BY <1>1, <1>2, <1>4 DEF TypeOK
  <2>2. /\ Untouched(r)' /\ RebornHasNone(r)' /\ LeaseRenewed(r)'
        /\ ~config'.deleting => AssignedHolds(r)'
    BY <1>1, <1>2, Listener
  <2>3. KeptUndrained(r)'
    BY <1>1, <1>2 DEF Sound, KeptUndrained, Keeps, mine, xrdPointsAtServer, NoDrain
  <2>4. MoveIsBacked(r)'
    BY <1>1, <1>2 DEF MoveIsBacked
  <2>5. ASSUME ~config'.deleting PROVE CalledIsBacked(r)'
    <3>1. r \notin reborn => entry[r] = "plan" /\ drain[r] \in {NoDrain, DrainPeriod}
      BY <1>1, <1>2, <1>4, <2>5 DEF Sound, Backed, MoveIsBacked
    <3> QED BY <1>1, <2>1, <3>1, PeriodFacts DEF CalledIsBacked, NoDrain, NotCalled
  <2> QED BY <2>2, <2>3, <2>4, <2>5 DEF Sound, Backed
<1> QED BY <1>3, <1>4

\* Time passes.
LEMMA TickSound ==
    ASSUME Known, OneWay, Tick
    PROVE  \A o \in Replicas : Sound(o)'
<1>1. UNCHANGED <<config, target, view, watch, queue, entry, up, reborn, move, owners>>
  BY DEF Tick, bounds
<1> SUFFICES ASSUME NEW r \in Replicas PROVE Sound(r)'
  OBVIOUS
<1>2. /\ Sound(r) /\ TypeOK /\ HistoryInv /\ NamedIsCalled
      /\ ServerOf[r] \in Servers /\ ServerOf[r] # NoServer
  BY ServersOfReplicas DEF Known, ServingInv, ServersOf
<1>3. /\ move.to = NoServer /\ r \notin queue /\ ~Pending(r) /\ drain[r] # 0 /\ up[r] # "synced"
  BY DEF Tick, Settled, Idle
<1>4. drain[r] \in 0..NoDrain /\ route[ServerOf[r]] \in 0..NotCalled
  BY <1>2 DEF TypeOK
<1>5. drain'[r] = IF drain[r] = NoDrain THEN NoDrain ELSE drain[r] - 1
  BY DEF Tick
<1>6. /\ up[r] = "ready" => lease'[r].age = 0 /\ (lease'[r].serves <=> entry[r] = "plan")
      /\ up[r] # "ready" => (lease'[r].serves <=> lease[r].serves)
  <2>1. CASE up[r] = "ready"
    <3>1. lease'[r] = [age |-> 0, serves |-> (entry[r] = "plan")]
      BY <2>1 DEF Tick, OneWay, stamp, servableTargets
    <3>2. CASE entry[r] = "plan"
      <4>1. (entry[r] = "plan") = TRUE
        BY <3>2, Zenon
      <4>2. lease'[r] = [age |-> 0, serves |-> TRUE]
        BY <3>1, <4>1, Zenon
      <4> QED BY <2>1, <3>2, <4>2, SMT
    <3>3. CASE entry[r] # "plan"
      <4>1. (entry[r] = "plan") = FALSE
        BY <3>3, Zenon
      <4>2. lease'[r] = [age |-> 0, serves |-> FALSE]
        BY <3>1, <4>1, Zenon
      <4> QED BY <2>1, <3>3, <4>2, SMT
    <3> QED BY <3>2, <3>3
  <2>2. CASE up[r] # "ready"
    <3>1. lease[r] \in [age : 0..(StaleAfter + 1), serves : BOOLEAN]
      BY <1>2 DEF TypeOK
    <3>2. lease'[r] = [lease[r] EXCEPT !.age = Older(@, StaleAfter + 1)]
      BY <2>2 DEF Tick
    <3> QED BY <2>2, <3>1, <3>2
  <2> QED BY <2>1, <2>2
<1>7. Untouched(r)'
  BY <1>1, <1>2, <1>5, <1>6 DEF Sound, Untouched, NoDrain
<1>8. RebornHasNone(r)' /\ LeaseRenewed(r)'
  BY <1>1, <1>2, <1>6 DEF Sound, RebornHasNone, LeaseRenewed
<1>9. KeptUndrained(r)'
  BY <1>1, <1>2, <1>5 DEF Sound, KeptUndrained, Keeps, mine, xrdPointsAtServer, NoDrain
<1>10. ASSUME ~config'.deleting PROVE Backed(r)'
  <2>1. Backed(r) /\ ~config.deleting
    BY <1>1, <1>2, <1>10 DEF Sound
  <2>2. MoveIsBacked(r)'
    BY <1>1, <1>2, <1>3 DEF MoveIsBacked
  <2>3. AssignedHolds(r)'
    <3>1. Held(r) => Held(r)'
      BY <1>1, <1>5 DEF Held, ConfigLen, TargetLen, ConfigAt, TargetAt, NoDrain
    <3> QED BY <1>1, <1>3, <1>6, <2>1, <3>1 DEF Backed, AssignedHolds
  <2>4. CalledIsBacked(r)'
    <3> DEFINE n == route[ServerOf[r]]
               m == route'[ServerOf[r]]
    <3> SUFFICES ASSUME r \notin reborn, m # NotCalled
                 PROVE  /\ entry[r] = "plan"
                        /\ drain'[r] = NoDrain \/ drain'[r] + m >= DrainPeriod
      BY <1>1 DEF CalledIsBacked, NoDrain, NotCalled
    <3>1. m = IF ServerOf[r] = target.conv THEN 0 ELSE Older(n, NotCalled)
      BY <1>2 DEF Tick
    <3>2. n # NotCalled => entry[r] = "plan" /\ (drain[r] = NoDrain \/ drain[r] + n >= DrainPeriod)
      BY <2>1 DEF Backed, CalledIsBacked
    <3>3. CASE ServerOf[r] = target.conv
      <4>1. n = 0
        BY <1>2, <3>3 DEF NamedIsCalled
      <4>2. Running(r)
        BY <1>2 DEF Sound, RebornHasNone, Running
      <4>3. ConfigLen(r) = 0 /\ TargetLen(r) = 0
        BY <1>2, <1>3, WatchType DEF Pending
      <4>4. view[r].config = config /\ view[r].target = target
        BY <1>2, <4>2, <4>3 DEF HistoryInv, EndsCurrent, ConfigAt, TargetAt
      <4>5. Keeps(r)
        BY <2>1, <3>3, <4>4 DEF Keeps, xrdPointsAtServer
      <4>6. drain[r] = NoDrain
        BY <1>2, <1>3, <4>5 DEF Sound, KeptUndrained
      <4>7. n # NotCalled
        BY <4>1, PeriodFacts
      <4> QED BY <1>5, <3>2, <4>6, <4>7
    <3>4. CASE ServerOf[r] # target.conv
      <4>1. n # RouteLag
        BY <1>2, <3>4 DEF Tick
      <4>2. n < RouteLag /\ m = n + 1
        BY <1>4, <3>1, <3>4, <4>1, PeriodFacts DEF Older
      <4>3. entry[r] = "plan" /\ (drain[r] = NoDrain \/ drain[r] + n >= DrainPeriod)
        BY <1>4, <3>2, <4>2, PeriodFacts
      <4> QED BY <1>4, <1>5, <4>2, <4>3, PeriodFacts
    <3> QED BY <3>3, <3>4
  <2> QED BY <2>2, <2>3, <2>4 DEF Backed
<1> QED BY <1>7, <1>8, <1>9, <1>10 DEF Sound

\* The server the target names is called.
LEMMA NamedIsCalledStep ==
    ASSUME TypeOK, NamedIsCalled, [Next]_vars
    PROVE  NamedIsCalled'
<1>1. target.conv \in Servers
  BY DEF TypeOK, TargetObjects
<1>2. ASSUME UNCHANGED route, target'.conv = target.conv PROVE NamedIsCalled'
  BY <1>2 DEF NamedIsCalled
<1>3. CASE Reassign \/ Delete \/ CheckHandover \/ \E s \in Servers : UpdateReady(s)
  BY <1>2, <1>3 DEF Reassign, Delete, CheckHandover, UpdateReady
<1>4. CASE Drift
  <2>1. target'.conv = target.conv /\ UNCHANGED route
    BY <1>4 DEF Drift, WriteTarget, TypeOK, TargetObjects
  <2> QED BY <1>2, <2>1
<1>5. CASE \E r \in Replicas : Replica(r) \/ Publish(r) \/ Restart(r)
  BY <1>2, <1>5 DEF Replica, Observe, InitialSync, SetReady, ReconcileReplica, Publish, Restart
<1>6. CASE Repoint
  <2>1. /\ target'.conv = move.to /\ move.to \in Servers
        /\ route' = [route EXCEPT ![move.to] = 0]
    BY <1>6 DEF Repoint, WriteTarget, TypeOK, TargetObjects
  <2> QED BY <2>1 DEF NamedIsCalled, TypeOK
<1>7. CASE Tick
  BY <1>1, <1>7 DEF Tick, NamedIsCalled
<1>8. CASE \E s \in Servers : Refresh(s)
  BY <1>1, <1>8 DEF Refresh, NamedIsCalled, TypeOK
<1>9. CASE UNCHANGED vars
  BY <1>2, <1>9 DEF vars
<1> QED BY <1>3, <1>4, <1>5, <1>6, <1>7, <1>8, <1>9 DEF Next

LEMMA ServingInvStep ==
    ASSUME TypeOK, TypeOK', OneWay, HistoryInv, ServingInv, [Next]_vars
    PROVE  ServingInv'
<1>1. Known
  BY WritesStep, HistoryStep DEF Known, HistoryInv, OneWay
<1>2. NamedIsCalled'
  BY NamedIsCalledStep DEF ServingInv
<1>3. ASSUME UNCHANGED <<view, lease, queue, entry, drain, up, reborn, move>>,
             \A s \in Servers : route'[s] # NotCalled => route'[s] = route[s]
      PROVE  \A r \in Replicas : Sound(r)'
  BY <1>1, <1>3, PassiveSound
<1>4. CASE Reassign \/ Drift \/ Delete \/ (\E s \in Servers : UpdateReady(s)) \/ UNCHANGED vars
  <2>1. UNCHANGED <<view, lease, queue, entry, drain, up, reborn, move, route>>
    BY <1>4 DEF Reassign, Drift, Delete, UpdateReady, vars, replicaVars, managerVars
  <2> QED BY <1>2, <1>3, <2>1 DEF ServingInv
<1>5. CASE \E s \in Servers : Refresh(s)
  <2>1. UNCHANGED <<view, lease, queue, entry, drain, up, reborn, move>>
    BY <1>5 DEF Refresh, replicaVars, managerVars
  <2>2. \A s \in Servers : route'[s] # NotCalled => route'[s] = route[s]
    BY <1>5 DEF Refresh, TypeOK
  <2> QED BY <1>2, <1>3, <2>1, <2>2 DEF ServingInv
<1>6. CASE \E r \in Replicas : Replica(r) \/ Publish(r) \/ Restart(r)
  BY <1>1, <1>2, <1>6, ObserveSound, ReconcileSound, InitialSyncSound, PublishSound, RestartSound
     DEF Replica, ServingInv
<1>7. CASE CheckHandover \/ Repoint \/ Tick
  BY <1>1, <1>2, <1>7, CheckHandoverSound, RepointSound, TickSound DEF ServingInv
<1> QED BY <1>4, <1>5, <1>6, <1>7 DEF Next

LEMMA ServingInvInit == OneWay /\ Init => ServingInv
<1> SUFFICES ASSUME OneWay, Init PROVE ServingInv
  OBVIOUS
<1>1. /\ config = [want |-> Home, deleting |-> FALSE] /\ target = [conv |-> Home, valid |-> TRUE]
      /\ route = [s \in Servers |-> IF s = Home THEN 0 ELSE NotCalled]
      /\ owners = {Home} /\ move.to = NoServer /\ reborn = {} /\ Home \in Servers
  BY Assumed DEF Init, Idle
<1>2. NamedIsCalled
  BY <1>1 DEF NamedIsCalled
<1> SUFFICES ASSUME NEW r \in Replicas PROVE Sound(r)
  BY <1>2 DEF ServingInv
<1>3. /\ entry[r] = IF ServerOf[r] = Home THEN "plan" ELSE "none"
      /\ drain[r] = NoDrain /\ up[r] = "ready"
      /\ lease[r] = [age |-> 0, serves |-> (ServerOf[r] = Home)]
      /\ ConfigLen(r) = 0 /\ TargetLen(r) = 0
      /\ ConfigAt(r, 0) = config /\ TargetAt(r, 0) = target
      /\ ServerOf[r] \in Servers /\ ServerOf[r] # NoServer
  BY ServersOfReplicas DEF Init, OneWay, ConfigLen, TargetLen, ConfigAt, TargetAt, ServersOf
<1>4. lease[r].age = 0 /\ (ServerOf[r] # Home => ~lease[r].serves)
  <2>1. CASE ServerOf[r] = Home
    <3>1. (ServerOf[r] = Home) = TRUE
      BY <2>1, Zenon
    <3>2. lease[r] = [age |-> 0, serves |-> TRUE]
      BY <1>3, <3>1, Zenon
    <3> QED BY <2>1, <3>2, SMT
  <2>2. CASE ServerOf[r] # Home
    <3>1. (ServerOf[r] = Home) = FALSE
      BY <2>2, Zenon
    <3>2. lease[r] = [age |-> 0, serves |-> FALSE]
      BY <1>3, <3>1, Zenon
    <3> QED BY <2>2, <3>2, SMT
  <2> QED BY <2>1, <2>2
<1>5. Untouched(r) /\ RebornHasNone(r) /\ LeaseRenewed(r) /\ KeptUndrained(r)
  BY <1>1, <1>3, <1>4 DEF Untouched, RebornHasNone, LeaseRenewed, KeptUndrained
<1>6. config.want = Home
  BY <1>1
<1>7. Held(r) \/ ServerOf[r] # Home
  BY <1>3, <1>6 DEF Held
<1>8. AssignedHolds(r)
  BY <1>3, <1>6, <1>7 DEF AssignedHolds
<1>9. MoveIsBacked(r) /\ CalledIsBacked(r)
  BY <1>1, <1>3 DEF MoveIsBacked, CalledIsBacked
<1> QED BY <1>5, <1>8, <1>9 DEF Sound, Backed

(* Nothing is ever unserved (handover.go): with any number of servers and    *)
(* replicas, restarts, drifts and moves one after another, every ready       *)
(* replica the API server may call holds a plan, or has restarted and not    *)
(* compiled since.  It needs a drain that outlasts the API server's refresh, *)
(* replicas that can write Leases, and targets that do not return to a       *)
(* server they have left.                                                    *)
THEOREM NothingUnserved ==
    ~MayReturn /\ Mute = {} /\ RouteLag < DrainPeriod => (Spec => []Served)
<1> SUFFICES ASSUME OneWay PROVE Spec => []Served
  BY DEF OneWay
<1>1. Init => ServingInv
  BY ServingInvInit
<1>2. TypeOK /\ TypeOK' /\ HistoryInv /\ ServingInv /\ [Next]_vars => ServingInv'
  BY ServingInvStep
<1>3. ServingInv => Served
  BY DEF ServingInv, Sound, Backed, CalledIsBacked, Served
<1>4. Spec => []HistoryInv
  BY HistoryInvAlways DEF OneWay
<1> QED BY <1>1, <1>2, <1>3, <1>4, TypeCorrect, PTL DEF Spec

-----------------------------------------------------------------------------
(***************************************************************************)
(* The registry follows the objects                                        *)
(*                                                                         *)
(* Outside its queue, a replica's registry is what its last reconcile made *)
(* of its stores, but for the drain that Tick counts down; and its stores  *)
(* end up where the API server is (EndsCurrent).  No hypothesis on moves,  *)
(* periods or Leases is needed.                                            *)
(***************************************************************************)
Follows(r) ==
    Running(r) /\ r \notin queue =>
        /\ Keeps(r) => /\ drain[r] = NoDrain /\ entry[r] # "none"
                       /\ view[r].target.valid => entry[r] = "plan"
        /\ ~Keeps(r) => entry[r] = "none" \/ drain[r] # NoDrain
        /\ view[r].config.deleting => entry[r] = "none"

AllFollow == \A r \in Replicas : Follows(r)

\* What one reconcile makes of the stores it is given.
LEMMA ReconcileFollows ==
    ASSUME TypeOK, NEW r \in Replicas, NEW v, NEW old, reconcileOneXRD(r, v, old)
    PROVE  LET kept == ~v.config.deleting /\ (mine(r, v) \/ xrdPointsAtServer(r, v))
           IN  /\ kept => /\ drain'[r] = NoDrain /\ entry'[r] # "none"
                          /\ v.target.valid => entry'[r] = "plan"
               /\ ~kept => entry'[r] = "none" \/ drain'[r] # NoDrain
               /\ v.config.deleting => entry'[r] = "none"
               /\ \A o \in Replicas : o # r => entry'[o] = entry[o] /\ drain'[o] = drain[o]
<1> DEFINE kept == ~v.config.deleting /\ (mine(r, v) \/ xrdPointsAtServer(r, v))
           wait == ~v.config.deleting /\ ~kept /\ drainRemaining(r, old) # NoDrain
           new  == IF kept THEN compileAndRegister(old, v) ELSE IF wait THEN old ELSE "none"
           left == IF wait THEN drainRemaining(r, old) ELSE NoDrain
<1>1. entry' = [entry EXCEPT ![r] = new] /\ drain' = [drain EXCEPT ![r] = left]
  BY DEF reconcileOneXRD
<1>2. /\ entry'[r] = new /\ drain'[r] = left
      /\ \A o \in Replicas : o # r => entry'[o] = entry[o] /\ drain'[o] = drain[o]
  BY <1>1 DEF TypeOK
<1>3. kept => left = NoDrain /\ new # "none" /\ (v.target.valid => new = "plan")
  BY DEF compileAndRegister
<1>4. ~kept => new = "none" \/ left # NoDrain
  OBVIOUS
<1>5. v.config.deleting => new = "none"
  OBVIOUS
<1> HIDE DEF new, left, kept
<1>6. /\ kept => /\ drain'[r] = NoDrain /\ entry'[r] # "none"
                 /\ v.target.valid => entry'[r] = "plan"
      /\ ~kept => entry'[r] = "none" \/ drain'[r] # NoDrain
      /\ v.config.deleting => entry'[r] = "none"
  BY <1>2, <1>3, <1>4, <1>5
<1> QED BY <1>2, <1>6 DEF kept

\* A replica whose stores and registry a step leaves alone.
LEMMA FollowsKept ==
    ASSUME NEW r \in Replicas, Follows(r), view'[r] = view[r], entry'[r] = entry[r],
           drain'[r] = drain[r] \/ (drain[r] # NoDrain /\ drain'[r] # NoDrain),
           Running(r)' => Running(r), r \in queue => r \in queue'
    PROVE  Follows(r)'
<1>1. Keeps(r)' <=> Keeps(r)
  BY DEF Keeps, mine, xrdPointsAtServer
<1> QED BY <1>1 DEF Follows

LEMMA FollowsStep ==
    ASSUME TypeOK, AllFollow, [Next]_vars, NEW r \in Replicas
    PROVE  Follows(r)'
<1>0. Follows(r)
  BY DEF AllFollow
<1>1. CASE UNCHANGED <<view, entry, drain, up, queue>>
  BY <1>0, <1>1, FollowsKept DEF Running
<1>2. CASE Reassign \/ Drift \/ Delete \/ Repoint \/ CheckHandover
           \/ (\E s \in Servers : UpdateReady(s) \/ Refresh(s)) \/ UNCHANGED vars
  BY <1>1, <1>2 DEF Reassign, Drift, Delete, Repoint, CheckHandover, UpdateReady, Refresh, vars, replicaVars
<1>3. ASSUME NEW s \in Replicas, s # r, Replica(s) \/ Publish(s) \/ Restart(s)
      PROVE  Follows(r)'
  <2>1. view'[r] = view[r] /\ up'[r] = up[r] /\ (r \in queue => r \in queue')
    BY <1>3 DEF TypeOK, Replica, Observe, ReconcileReplica, InitialSync, SetReady, Publish, Restart,
       replicaVars
  <2>2. entry'[r] = entry[r] /\ drain'[r] = drain[r]
    <3>1. CASE \E v, old : reconcileOneXRD(s, v, old)
      BY <1>3, <3>1, ReconcileFollows
    <3>2. CASE Observe(s) \/ SetReady(s) \/ Publish(s) \/ Restart(s)
      BY <1>3, <3>2 DEF TypeOK, Observe, SetReady, Publish, Restart, replicaVars
    <3> QED BY <1>3, <3>1, <3>2 DEF Replica, ReconcileReplica, InitialSync
  <2> QED BY <1>0, <2>1, <2>2, FollowsKept DEF Running
<1>4. CASE Observe(r)
  <2>1. r \in queue'
    BY <1>4 DEF Observe
  <2> QED BY <2>1 DEF Follows
<1>5. CASE ReconcileReplica(r)
  <2>1. reconcileOneXRD(r, view[r], entry[r]) /\ view' = view
    BY <1>5 DEF ReconcileReplica
  <2> QED BY <2>1, ReconcileFollows DEF Follows, Keeps, mine, xrdPointsAtServer
<1>6. CASE InitialSync(r)
  <2> DEFINE fresh == [config |-> config, target |-> target]
  <2>1. view'[r] = fresh /\ reconcileOneXRD(r, fresh, "none")
    BY <1>6 DEF InitialSync, TypeOK
  <2> HIDE DEF fresh
  <2> QED BY <2>1, ReconcileFollows DEF Follows, Keeps, mine, xrdPointsAtServer
<1>7. CASE SetReady(r)
  <2>1. UNCHANGED <<view, entry, drain, queue>> /\ Running(r)
    BY <1>7 DEF SetReady, Running
  <2> QED BY <1>0, <2>1, FollowsKept
<1>8. CASE Publish(r)
  BY <1>1, <1>8 DEF Publish, replicaVars
<1>9. CASE Restart(r)
  <2>1. ~Running(r)'
    BY <1>9 DEF Restart, Running, TypeOK
  <2> QED BY <2>1 DEF Follows
<1>10. CASE Tick
  <2>1. UNCHANGED <<view, entry, up, queue>>
    BY <1>10 DEF Tick
  <2>2. drain'[r] = IF drain[r] = NoDrain THEN NoDrain ELSE drain[r] - 1
    BY <1>10 DEF Tick
  <2>3. drain[r] \in 0..NoDrain /\ NoDrain \in Nat
    <3>1. drain[r] \in 0..NoDrain
      BY DEF TypeOK
    <3>2. NoDrain \in Nat
      BY Assumed DEF NoDrain
    <3> QED BY <3>1, <3>2
  <2>4. drain'[r] = drain[r] \/ (drain[r] # NoDrain /\ drain'[r] # NoDrain)
    BY <2>2, <2>3
  <2> QED BY <1>0, <2>1, <2>4, FollowsKept DEF Running
<1>11. CASE \E s \in Replicas : Replica(s) \/ Publish(s) \/ Restart(s)
  <2>1. PICK s \in Replicas : Replica(s) \/ Publish(s) \/ Restart(s)
    BY <1>11
  <2>2. CASE s = r
    BY <1>4, <1>5, <1>6, <1>7, <1>8, <1>9, <2>1, <2>2 DEF Replica
  <2> QED BY <1>3, <2>1, <2>2
<1> QED BY <1>2, <1>10, <1>11 DEF Next

LEMMA FollowsInit == Init => AllFollow
<1> SUFFICES ASSUME Init, NEW r \in Replicas PROVE Follows(r)
  BY DEF AllFollow
<1>1. /\ view[r].config.want = Home /\ ~view[r].config.deleting
      /\ view[r].target.conv = Home /\ drain[r] = NoDrain
      /\ entry[r] = IF ServerOf[r] = Home THEN "plan" ELSE "none"
  BY DEF Init
<1> QED BY <1>1 DEF Follows, Keeps, mine, xrdPointsAtServer

\* For every fleet, all periods and bounds, with targets that return, replicas
\* that cannot write Leases and restarts: a replica that has caught up holds a
\* plan for as long as the assignment or the live target points at it, and
\* otherwise nothing that is not draining (reconcileOneXRD, InitialSync).
THEOREM RegistriesFollow == Spec => []RegistryFollows
<1>1. Init => DownHearsNothing /\ EndsCurrent
  BY HistoryInvInit DEF HistoryInv
<1>2. TypeOK /\ TypeOK' /\ DownHearsNothing /\ EndsCurrent /\ [Next]_vars
         => DownHearsNothing' /\ EndsCurrent'
  BY DownHearsNothingStep, HistoryStep, EndsCurrentStep
<1>3. TypeOK /\ AllFollow /\ [Next]_vars => AllFollow'
  BY FollowsStep DEF AllFollow
<1>4. TypeOK /\ EndsCurrent /\ AllFollow => RegistryFollows
  <2> SUFFICES ASSUME TypeOK, EndsCurrent, AllFollow, NEW r \in Replicas,
                      Running(r), ~Pending(r), r \notin queue
               PROVE  LET asked == ~config.deleting /\ ServerOf[r] \in {config.want, target.conv}
                      IN  /\ asked => /\ drain[r] = NoDrain /\ entry[r] # "none"
                                      /\ target.valid => entry[r] = "plan"
                          /\ ~asked => entry[r] = "none" \/ drain[r] # NoDrain
                          /\ config.deleting => entry[r] = "none"
    BY DEF RegistryFollows
  <2>1. ConfigLen(r) = 0 /\ TargetLen(r) = 0
    BY WatchType DEF Pending
  <2>2. view[r].config = config /\ view[r].target = target
    BY <2>1 DEF EndsCurrent, ConfigAt, TargetAt
  <2>3. Keeps(r) <=> ~config.deleting /\ ServerOf[r] \in {config.want, target.conv}
    BY <2>2 DEF Keeps, mine, xrdPointsAtServer
  <2>4. Follows(r)
    BY DEF AllFollow
  <2> QED BY <2>2, <2>3, <2>4 DEF Follows
<1> QED BY <1>1, <1>2, <1>3, <1>4, FollowsInit, TypeCorrect, PTL DEF Spec
=============================================================================
