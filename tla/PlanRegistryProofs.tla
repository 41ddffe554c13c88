--------------------------- MODULE PlanRegistryProofs ---------------------------
(***************************************************************************)
(* From admitted configs to compiled plans, for any number of configs,     *)
(* targets, rule sets and sync workers and every number of changes,        *)
(* restarts and failures: one config per target, no plan lost to drift,    *)
(* and a replica at rest serves what it should.  What each result needs of *)
(* admission and of the writers (SerialAdmission, NamesLetGo, QuietSync)   *)
(* is a hypothesis of its theorem.                                         *)
(***************************************************************************)
EXTENDS PlanRegistry, FiniteSetTheorems, TLAPS

-----------------------------------------------------------------------------
(* Sequences as sets. *)

LEMMA InToSet ==
    ASSUME NEW S, NEW q \in Seq(S), NEW x
    PROVE  /\ x \in ToSet(q) <=> \E i \in 1 .. Len(q) : q[i] = x
           /\ ToSet(q) \subseteq S
BY DEF ToSet

LEMMA ToSetEmpty == ToSet(<<>>) = {}
BY DEF ToSet

LEMMA ToSetAppend ==
    ASSUME NEW S, NEW q \in Seq(S), NEW x \in S
    PROVE  Append(q, x) \in Seq(S) /\ ToSet(Append(q, x)) = ToSet(q) \cup {x}
<1> DEFINE p == Append(q, x)
<1>1. /\ p \in Seq(S) /\ Len(p) = Len(q) + 1 /\ Len(q) \in Nat
      /\ \A i \in 1 .. Len(p) : p[i] = IF i <= Len(q) THEN q[i] ELSE x
  OBVIOUS
<1> HIDE DEF p
<1>2. \A y : y \in ToSet(p) => y \in ToSet(q) \cup {x}
  BY <1>1, InToSet
<1>3. \A y : y \in ToSet(q) => y \in ToSet(p)
  <2> TAKE y
  <2> HAVE y \in ToSet(q)
  <2>1. PICK i \in 1 .. Len(q) : q[i] = y
    BY InToSet
  <2>2. i \in 1 .. Len(p) /\ p[i] = y
    BY <1>1, <2>1
  <2> QED BY <1>1, <2>2, InToSet
<1>4. x \in ToSet(p)
  <2>1. Len(p) \in 1 .. Len(p) /\ p[Len(p)] = x
    BY <1>1
  <2> QED BY <1>1, <2>1, InToSet
<1>5. ToSet(p) = ToSet(q) \cup {x}
  BY <1>2, <1>3, <1>4
<1> QED BY <1>1, <1>5 DEF p

LEMMA ToSetTail ==
    ASSUME NEW S, NEW q \in Seq(S), q # <<>>
    PROVE  /\ Tail(q) \in Seq(S) /\ Head(q) \in S
           /\ ToSet(q) = ToSet(Tail(q)) \cup {Head(q)}
<1> DEFINE p == Tail(q)
           h == Head(q)
<1>1. /\ p \in Seq(S) /\ Len(q) \in Nat /\ Len(q) >= 1 /\ Len(p) = Len(q) - 1
      /\ h = q[1] /\ h \in S
      /\ \A i \in 1 .. Len(p) : p[i] = q[i + 1]
  OBVIOUS
<1> HIDE DEF p, h
<1>2. \A y : y \in ToSet(p) => y \in ToSet(q)
  <2> TAKE y
  <2> HAVE y \in ToSet(p)
  <2>1. PICK i \in 1 .. Len(p) : p[i] = y
    BY <1>1, InToSet
  <2>2. i + 1 \in 1 .. Len(q) /\ q[i + 1] = y
    BY <1>1, <2>1
  <2> QED BY <2>2, InToSet
<1>3. h \in ToSet(q)
  <2>1. 1 \in 1 .. Len(q) /\ q[1] = h
    BY <1>1
  <2> QED BY <2>1, InToSet
<1>4. \A y : y \in ToSet(q) => y \in ToSet(p) \cup {h}
  <2> TAKE y
  <2> HAVE y \in ToSet(q)
  <2>1. PICK i \in 1 .. Len(q) : q[i] = y
    BY InToSet
  <2>2. CASE i = 1
    BY <1>1, <2>1, <2>2
  <2>3. CASE i # 1
    <3>1. i - 1 \in 1 .. Len(p) /\ p[i - 1] = y
      BY <1>1, <2>1, <2>3
    <3> QED BY <1>1, <3>1, InToSet
  <2> QED BY <2>2, <2>3
<1>5. ToSet(q) = ToSet(p) \cup {h}
  BY <1>2, <1>3, <1>4
<1> QED BY <1>1, <1>5 DEF p, h

\* A retry keeps the queue's members.
LEMMA ToSetRotate ==
    ASSUME NEW S, NEW q \in Seq(S), q # <<>>
    PROVE  /\ Append(Tail(q), Head(q)) \in Seq(S)
           /\ ToSet(Append(Tail(q), Head(q))) = ToSet(q)
<1> DEFINE p == Tail(q)
           h == Head(q)
<1>1. p \in Seq(S) /\ h \in S /\ ToSet(q) = ToSet(p) \cup {h}
  BY ToSetTail
<1> HIDE DEF p, h
<1>2. Append(p, h) \in Seq(S) /\ ToSet(Append(p, h)) = ToSet(p) \cup {h}
  BY <1>1, ToSetAppend
<1> QED BY <1>1, <1>2 DEF p, h

LEMMA AddSet ==
    ASSUME NEW q \in Seq(Configs), NEW c \in Configs
    PROVE  Add(q, c) \in Seq(Configs) /\ ToSet(Add(q, c)) = ToSet(q) \cup {c}
<1>1. CASE c \in ToSet(q)
  <2>1. Add(q, c) = q
    BY <1>1 DEF Add
  <2>2. ToSet(q) = ToSet(q) \cup {c}
    BY <1>1
  <2> QED BY <2>1, <2>2
<1>2. CASE c \notin ToSet(q)
  BY <1>2, ToSetAppend DEF Add
<1> QED BY <1>1, <1>2

\* SetToSeq lists every element of a finite set.
LEMMA SetToSeqSet ==
    ASSUME NEW S, IsFiniteSet(S)
    PROVE  SetToSeq(S) \in Seq(S) /\ ToSet(SetToSeq(S)) = S
<1> DEFINE n == Cardinality(S)
           f == SetToSeq(S)
<1>1. n \in Nat /\ ExistsBijection(1 .. n, S)
  BY FS_CardinalityType
<1>2. PICK g \in [1 .. n -> S] : IsInjective(g)
  BY <1>1 DEF ExistsBijection, Bijection, Injection
<1>3. f \in [1 .. n -> S] /\ IsInjective(f)
  BY <1>2 DEF SetToSeq
<1> HIDE DEF f
<1>4. IsFiniteSet(1 .. n) /\ Cardinality(1 .. n) = n
  BY <1>1, FS_Interval
<1>5. f \in Injection(1 .. n, S)
  BY <1>3 DEF Injection
<1>6. f \in Surjection(1 .. n, S)
  BY <1>4, <1>5, FS_Injection
<1>7. \A y \in S : \E i \in 1 .. n : f[i] = y
  BY <1>6 DEF Surjection
<1>8. f \in Seq(S) /\ Len(f) = n
  BY <1>1, <1>3
<1>9. \A y : y \in ToSet(f) <=> y \in S
  BY <1>3, <1>7, <1>8, InToSet
<1>10. ToSet(f) = S
  BY <1>9
<1> QED BY <1>8, <1>10 DEF f

LEMMA ToSetConcat ==
    ASSUME NEW S, NEW p \in Seq(S), NEW q \in Seq(S)
    PROVE  p \o q \in Seq(S) /\ ToSet(p \o q) = ToSet(p) \cup ToSet(q)
<1> DEFINE r == p \o q
<1>1. /\ r \in Seq(S) /\ Len(r) = Len(p) + Len(q) /\ Len(p) \in Nat /\ Len(q) \in Nat
      /\ \A i \in 1 .. Len(r) : r[i] = IF i <= Len(p) THEN p[i] ELSE q[i - Len(p)]
  OBVIOUS
<1> HIDE DEF r
<1>2. ASSUME NEW y, y \in ToSet(r) PROVE y \in ToSet(p) \cup ToSet(q)
  <2>1. PICK i \in 1 .. Len(r) : r[i] = y
    BY <1>1, <1>2, InToSet
  <2>2. CASE i <= Len(p)
    <3>1. i \in 1 .. Len(p) /\ p[i] = y
      BY <1>1, <2>1, <2>2
    <3> QED BY <3>1, InToSet
  <2>3. CASE i > Len(p)
    <3>1. i - Len(p) \in 1 .. Len(q) /\ q[i - Len(p)] = y
      BY <1>1, <2>1, <2>3
    <3> QED BY <3>1, InToSet
  <2> QED BY <1>1, <2>2, <2>3
<1>3. ASSUME NEW y, y \in ToSet(p) PROVE y \in ToSet(r)
  <2>1. PICK i \in 1 .. Len(p) : p[i] = y
    BY <1>3, InToSet
  <2>2. i \in 1 .. Len(r) /\ r[i] = y
    BY <1>1, <2>1
  <2> QED BY <1>1, <2>2, InToSet
<1>4. ASSUME NEW y, y \in ToSet(q) PROVE y \in ToSet(r)
  <2>1. PICK i \in 1 .. Len(q) : q[i] = y
    BY <1>4, InToSet
  <2>2. /\ i + Len(p) \in 1 .. Len(r) /\ ~(i + Len(p) <= Len(p))
        /\ (i + Len(p)) - Len(p) = i
    BY <1>1
  <2>3. r[i + Len(p)] = y
    BY <1>1, <2>1, <2>2
  <2> QED BY <1>1, <2>2, <2>3, InToSet
<1>5. ToSet(r) = ToSet(p) \cup ToSet(q)
  BY <1>2, <1>3, <1>4
<1> QED BY <1>1, <1>5 DEF r

LEMMA AddAllSet ==
    ASSUME NEW q \in Seq(Configs), NEW cs \in SUBSET Configs
    PROVE  AddAll(q, cs) \in Seq(Configs) /\ ToSet(AddAll(q, cs)) = ToSet(q) \cup cs
<1> DEFINE new == cs \ ToSet(q)
<1>1. IsFiniteSet(Configs)
  BY RegistryConstants DEF RegistryConstants
<1>2. IsFiniteSet(new) /\ new \subseteq Configs
  BY <1>1, FS_Subset
<1>3. SetToSeq(new) \in Seq(new) /\ ToSet(SetToSeq(new)) = new
  BY <1>2, SetToSeqSet
<1>4. SetToSeq(new) \in Seq(Configs)
  <2> HIDE DEF new
  <2> QED BY <1>2, <1>3
<1>5. /\ q \o SetToSeq(new) \in Seq(Configs)
      /\ ToSet(q \o SetToSeq(new)) = ToSet(q) \cup ToSet(SetToSeq(new))
  BY <1>4, ToSetConcat
<1>6. ToSet(q) \cup new = ToSet(q) \cup cs
  OBVIOUS
<1> HIDE DEF new
<1>7. AddAll(q, cs) = q \o SetToSeq(new)
  BY DEF AddAll, new
<1> QED BY <1>3, <1>5, <1>6, <1>7

-----------------------------------------------------------------------------
(***************************************************************************)
(* Types, and the forms a step takes                                       *)
(***************************************************************************)
\* The states a config is written in.
Written == {Gone} \cup [phase : {"live", "deleting"}, target : Targets, rules : Rules]
Event == [cfg : Configs, state : Written]
Job == [cfg : Configs, remove : Targets \cup {None}, read : Written, schema : Rules \cup {None}]
Entry == [cfg : Configs \cup {None}, rules : Rules \cup {None}]

Typed ==
    /\ api \in [Configs -> Written] /\ seen \in [Configs -> Written]
    /\ cache \in [Configs -> Written]
    /\ schema \in [Kinds -> [Targets -> Rules \cup {None}]]
    /\ log \in [Kinds -> Seq(Event)] /\ queue \in [Kinds -> Seq(Configs)]
    /\ job \in [Threads -> {Idle} \cup Job]
    /\ phase \in {"syncing", "ready"} /\ syncLeft \subseteq Configs /\ syncErr \in BOOLEAN
    /\ target \in [Configs -> Targets \cup {None}]
    /\ registry \in [Targets -> Entry]
    /\ \A t \in Targets : registry[t].rules # None => registry[t].cfg # None
    /\ restarts \in Nat

\* What admission has checked of a target that c takes.
Granted(c, t) ==
    /\ validateRegistryKeyAvailable(c, t)
    /\ SerialAdmission => seen = api
    /\ NamesLetGo => LetGo(c, t)

\* A config is created, edited, marked for deletion or released.
ConfigWrite(c, state) ==
    /\ WriteConfig(c, state)
    /\ QuietSync => phase = "ready"
    /\ \/ state = Gone
       \/ api[c].phase = "live" /\ state = [api[c] EXCEPT !.phase = "deleting"]
       \/ /\ state.phase = "live" /\ Granted(c, state.target)
    /\ UNCHANGED <<seen, schema, cache, queue, job, phase, syncLeft, syncErr, target, registry,
                   restarts>>

\* A controller takes the head of its queue, or fails on it.
TakeFromQueue(k) ==
    /\ queue[k] # <<>> /\ Read(k, Head(queue[k]))
    /\ queue' = [queue EXCEPT ![k] = Tail(@)]
    /\ UNCHANGED <<api, seen, schema, log, cache, phase, syncLeft, syncErr, registry, restarts>>

Retry(k) ==
    /\ queue[k] # <<>> /\ target' \in remembered(Head(queue[k]))
    /\ queue' = [queue EXCEPT ![k] = Append(Tail(@), Head(@))]
    /\ UNCHANGED <<api, seen, schema, log, cache, job, phase, syncLeft, syncErr, registry, restarts>>

\* A thread finishes its reconcile.
RegistryWrite(th) ==
    /\ Write(th)
    /\ UNCHANGED <<api, seen, schema, log, cache, queue, phase, syncLeft, syncErr, target, restarts>>

\* A worker of the pool takes a unit, or fails on it.
TakeUnit(w, c) ==
    /\ phase = "syncing" /\ c \in syncLeft
    /\ Read(w, c) /\ syncLeft' = syncLeft \ {c}
    /\ UNCHANGED <<api, seen, schema, log, cache, queue, phase, syncErr, registry, restarts>>

FailUnit(c) ==
    /\ phase = "syncing" /\ c \in syncLeft
    /\ syncLeft' = syncLeft \ {c} /\ target' \in remembered(c) /\ syncErr' = TRUE
    /\ UNCHANGED <<api, seen, schema, log, cache, queue, job, phase, registry, restarts>>

\* What is assumed of the constants, as separate facts.
LEMMA Assumed ==
    /\ IsFiniteSet(Configs) /\ None \notin Configs
    /\ \A c \in Configs : KindOf[c] \in Kinds
    /\ None \notin Targets /\ None \notin Rules /\ Malformed \notin Rules
    /\ Pool \cap Kinds = {}
BY RegistryConstants DEF RegistryConstants

\* The members of Written.
LEMMA WrittenFields ==
    ASSUME NEW s \in Written
    PROVE  /\ s.phase \in {"absent", "live", "deleting"}
           /\ s.target \in Targets \cup {None} /\ s.rules \in Rules \cup {None}
           /\ s.phase = "absent" <=> s = Gone
           /\ s.phase # "absent" => s.target \in Targets /\ s.rules \in Rules
           /\ s.phase = "absent" => s.target = None
<1>1. CASE s = Gone
  BY <1>1 DEF Gone
<1>2. CASE s \in [phase : {"live", "deleting"}, target : Targets, rules : Rules]
  BY <1>2 DEF Gone
<1> QED BY <1>1, <1>2 DEF Written

\* A job is a record.
LEMMA JobFields ==
    ASSUME Typed, NEW th \in Threads, job[th] # Idle
    PROVE  /\ job[th] \in Job /\ job[th].cfg \in Configs /\ job[th].read \in Written
           /\ job[th].remove \in Targets \cup {None} /\ job[th].schema \in Rules \cup {None}
<1>1. job[th] \in Job
  BY DEF Typed
<1> QED BY <1>1 DEF Job

\* Idle is no job.
LEMMA IdleIsNoJob == Idle \notin Job
<1> SUFFICES ASSUME Idle \in Job PROVE FALSE
  OBVIOUS
<1>1. Idle.cfg \in Configs
  BY DEF Job
<1>2. Idle.cfg = None
  BY DEF Idle
<1> QED BY <1>1, <1>2, Assumed

\* Every step has one of these forms.
LEMMA StepForms ==
    ASSUME Typed, Next
    PROVE  \/ \E c \in Configs, state \in Written : ConfigWrite(c, state)
           \/ \E c \in Configs : ManagerSees(c)
           \/ \E k \in Kinds, t \in Targets, s \in Rules \cup {None} : ChangeTarget(k, t, s)
           \/ \E k \in Kinds : Deliver(k) \/ TakeFromQueue(k) \/ Retry(k)
           \/ \E th \in Threads : RegistryWrite(th)
           \/ \E w \in Pool : \E c \in Configs : TakeUnit(w, c)
           \/ \E c \in Configs : FailUnit(c)
           \/ InitialSyncDone
           \/ Restart
<1>1. ASSUME NEW c \in Configs, NEW t \in Targets, NEW rules \in Rules \cup {Malformed},
             Apply(c, t, rules)
      PROVE  \E state \in Written : ConfigWrite(c, state)
  <2> DEFINE state == [phase |-> "live", target |-> t, rules |-> rules]
  <2>1. rules \in Rules
    BY <1>1 DEF Apply, validate, ValidateStructure
  <2>2. state \in Written /\ state.phase = "live" /\ state.target = t
    BY <2>1 DEF Written
  <2>3. Granted(c, t)
    BY <1>1 DEF Apply, validate, Granted
  <2>4. /\ WriteConfig(c, state) /\ (QuietSync => phase = "ready")
        /\ UNCHANGED <<seen, schema, cache, queue, job, phase, syncLeft, syncErr, target,
                       registry, restarts>>
    BY <1>1 DEF Apply, Change
  <2> HIDE DEF state
  <2>5. ConfigWrite(c, state)
    BY <2>2, <2>3, <2>4 DEF ConfigWrite
  <2> QED BY <2>2, <2>5
<1>2. ASSUME NEW c \in Configs, Delete(c)
      PROVE  \E state \in Written : ConfigWrite(c, state)
  <2> DEFINE state == [api[c] EXCEPT !.phase = "deleting"]
  <2>1. api[c] \in [phase : {"live", "deleting"}, target : Targets, rules : Rules]
    BY <1>2 DEF Delete, Typed, Written, Gone
  <2>2. state \in Written
    BY <2>1 DEF Written
  <2>3. ConfigWrite(c, state)
    BY <1>2 DEF Delete, ConfigWrite, Change
  <2> QED BY <2>2, <2>3
<1>3. ASSUME NEW c \in Configs, RemoveFinalizer(c)
      PROVE  \E state \in Written : ConfigWrite(c, state)
  <2>1. Gone \in Written /\ ConfigWrite(c, Gone)
    BY <1>3 DEF RemoveFinalizer, ConfigWrite, Written, outside
  <2> QED BY <2>1
<1>4. ASSUME NEW k \in Kinds, Reconcile(k)
      PROVE  TakeFromQueue(k) \/ Retry(k) \/ RegistryWrite(k)
  BY <1>4 DEF Reconcile, reconcile, reconcileFails, outside, TakeFromQueue, Retry, RegistryWrite
<1>5. ASSUME NEW w \in Pool, syncUnit(w)
      PROVE  RegistryWrite(w) \/ \E c \in Configs : TakeUnit(w, c)
  <2>1. syncLeft \subseteq Configs
    BY DEF Typed
  <2> QED BY <1>5, <2>1 DEF syncUnit, outside, RegistryWrite, TakeUnit
<1>6. ASSUME NEW w \in Pool, syncUnitFails(w)
      PROVE  \E c \in Configs : FailUnit(c)
  <2>1. syncLeft \subseteq Configs
    BY DEF Typed
  <2> QED BY <1>6, <2>1 DEF syncUnitFails, FailUnit
<1>7. Kinds \subseteq Threads /\ Pool \subseteq Threads
  BY DEF Threads
<1> QED BY <1>1, <1>2, <1>3, <1>4, <1>5, <1>6, <1>7 DEF Next, User, Replica

\* What a reconcile reads is a job.
LEMMA ReadType ==
    ASSUME Typed, NEW th \in Threads, NEW c \in Configs, Read(th, c)
    PROVE  /\ job' \in [Threads -> {Idle} \cup Job]
           /\ target' \in [Configs -> Targets \cup {None}]
           /\ job'[th] \in Job /\ job'[th].cfg = c /\ job'[th].read = cache[c]
           /\ cache[c].phase = "live"
                => job'[th].schema = schema[KindOf[c]][cache[c].target] /\ job'[th].remove = None
           /\ cache[c].phase # "live" => job'[th].remove = target[c]
<1> DEFINE gone == cache[c].phase # "live"
           rem == IF gone THEN target[c] ELSE None
           sch == IF gone THEN None ELSE schema[KindOf[c]][cache[c].target]
           new == [cfg |-> c, remove |-> rem, read |-> cache[c], schema |-> sch]
<1>1. job' = [job EXCEPT ![th] = new] /\ target' = [target EXCEPT ![c] = IF gone THEN None ELSE cache[c].target]
  BY DEF Read
<1>2. cache[c] \in Written /\ target[c] \in Targets \cup {None} /\ KindOf[c] \in Kinds
  BY Assumed DEF Typed
<1>3. /\ cache[c].target \in Targets \cup {None}
      /\ ~gone => cache[c].target \in Targets
  BY <1>2, WrittenFields
<1>4. rem \in Targets \cup {None} /\ sch \in Rules \cup {None}
  BY <1>2, <1>3 DEF Typed
<1>5. new \in Job
  <2> HIDE DEF rem, sch
  <2> QED BY <1>2, <1>4 DEF Job
<1>6. new.cfg = c /\ new.read = cache[c] /\ new.remove = rem /\ new.schema = sch
  OBVIOUS
<1>7. job'[th] = new
  BY <1>1 DEF Typed
<1>8. job' \in [Threads -> {Idle} \cup Job]
  <2> HIDE DEF new
  <2> QED BY <1>1, <1>5 DEF Typed
<1>9. target' \in [Configs -> Targets \cup {None}]
  BY <1>1, <1>3 DEF Typed
<1> HIDE DEF new
<1> QED BY <1>5, <1>6, <1>7, <1>8, <1>9

\* A config remembered under its target.
LEMMA RememberedType ==
    ASSUME Typed, NEW c \in Configs, target' \in remembered(c)
    PROVE  /\ target' \in [Configs -> Targets \cup {None}]
           /\ \A d \in Configs : target'[d] = target[d] \/ (d = c /\ target'[d] = cache[c].target)
<1>1. cache[c].target \in Targets \cup {None}
  BY WrittenFields DEF Typed
<1>2. target' = target \/ target' = [target EXCEPT ![c] = cache[c].target]
  BY DEF remembered
<1> QED BY <1>1, <1>2 DEF Typed

\* What a reconcile writes: a plan or an error under the name it read, or nothing
\* under the name it removes.
LEMMA WrittenEntry ==
    ASSUME Typed, NEW th \in Threads, job[th] # Idle
    PROVE  LET j == job[th]
               t == j.read.target
               plan == [cfg |-> j.cfg, rules |-> j.read.rules]
               error == [cfg |-> j.cfg, rules |-> None]
           IN /\ j.read.phase = "live" =>
                   /\ t \in Targets /\ j.read.rules \in Rules
                   /\ written(th) = [registry EXCEPT ![t] =
                        IF j.schema = j.read.rules THEN plan
                        ELSE IF registry[t].rules # None THEN registry[t] ELSE error]
              /\ j.read.phase # "live" =>
                   written(th) = IF j.remove # None THEN [registry EXCEPT ![j.remove] = NoEntry]
                                 ELSE registry
<1> DEFINE j == job[th]
           t == j.read.target
<1>1. j.read \in Written /\ j.remove \in Targets \cup {None}
  BY JobFields
<1>2. j.read.phase = "live" => t \in Targets /\ j.read.rules \in Rules
  BY <1>1, WrittenFields
<1>3. j.read.phase = "live" =>
        written(th) = IF j.schema = j.read.rules
                      THEN [registry EXCEPT ![t] = [cfg |-> j.cfg, rules |-> j.read.rules]]
                      ELSE IF registry[t].rules # None THEN registry
                      ELSE [registry EXCEPT ![t] = [cfg |-> j.cfg, rules |-> None]]
  BY DEF written, compileAndRegister, SetEntry, RecordError
<1>4. j.read.phase = "live" => registry = [registry EXCEPT ![t] = registry[t]]
  <2> HIDE DEF j, t
  <2> QED BY <1>2 DEF Typed
<1>5. j.read.phase # "live" =>
        written(th) = IF j.remove # None THEN [registry EXCEPT ![j.remove] = NoEntry] ELSE registry
  BY DEF written, RemoveEntry
<1> QED BY <1>2, <1>3, <1>4, <1>5

LEMMA WriteType ==
    ASSUME Typed, NEW th \in Threads, Write(th)
    PROVE  /\ registry' \in [Targets -> Entry]
           /\ \A t \in Targets : registry'[t].rules # None => registry'[t].cfg # None
           /\ job' \in [Threads -> {Idle} \cup Job]
           /\ \A u \in Threads : job'[u] = IF u = th THEN Idle ELSE job[u]
<1> DEFINE j == job[th]
           t == j.read.target
           new == IF j.schema = j.read.rules THEN [cfg |-> j.cfg, rules |-> j.read.rules]
                  ELSE IF registry[t].rules # None THEN registry[t]
                  ELSE [cfg |-> j.cfg, rules |-> None]
<1>1. job[th] # Idle /\ registry' = written(th) /\ job' = [job EXCEPT ![th] = Idle]
  BY DEF Write
<1>2. j.cfg \in Configs /\ j.read \in Written /\ j.remove \in Targets \cup {None}
  BY <1>1, JobFields
<1>3. CASE j.read.phase = "live"
  <2>1. t \in Targets /\ j.read.rules \in Rules /\ registry' = [registry EXCEPT ![t] = new]
    BY <1>1, <1>3, WrittenEntry
  <2>2. registry[t] \in Entry /\ (registry[t].rules # None => registry[t].cfg # None)
    BY <2>1 DEF Typed
  <2> HIDE DEF j, t
  <2>3. new \in Entry /\ (new.rules # None => new.cfg # None)
    BY <1>2, <2>1, <2>2, Assumed DEF Entry
  <2> HIDE DEF new
  <2> QED BY <1>1, <2>1, <2>3 DEF Typed
<1>4. CASE j.read.phase # "live"
  <2>1. registry' = registry \/ (j.remove \in Targets /\ registry' = [registry EXCEPT ![j.remove] = NoEntry])
    BY <1>1, <1>2, <1>4, WrittenEntry
  <2>2. NoEntry \in Entry /\ NoEntry.rules = None
    BY DEF NoEntry, Entry
  <2> HIDE DEF j
  <2> QED BY <1>1, <2>1, <2>2 DEF Typed
<1> QED BY <1>3, <1>4

\* A write of a config, field by field.
LEMMA WriteConfigForm ==
    ASSUME Typed, NEW c \in Configs, NEW state \in Written, WriteConfig(c, state)
    PROVE  /\ api' \in [Configs -> Written]
           /\ \A d \in Configs : api'[d] = IF d = c THEN state ELSE api[d]
           /\ log' \in [Kinds -> Seq(Event)]
           /\ \A k \in Kinds : log'[k] = IF k = KindOf[c]
                                         THEN Append(log[k], [cfg |-> c, state |-> state])
                                         ELSE log[k]
           /\ [cfg |-> c, state |-> state] \in Event
<1> DEFINE ev == [cfg |-> c, state |-> state]
<1>1. ev \in Event
  BY DEF Event
<1>2. api' = [api EXCEPT ![c] = state] /\ log' = [log EXCEPT ![KindOf[c]] = Append(@, ev)]
  BY DEF WriteConfig
<1>3. KindOf[c] \in Kinds
  BY Assumed
<1> HIDE DEF ev
<1>4. Append(log[KindOf[c]], ev) \in Seq(Event)
  BY <1>1, <1>3 DEF Typed
<1> QED BY <1>1, <1>2, <1>3, <1>4 DEF Typed, ev

\* The head of a work queue, and the queue without it.
LEMMA QueueHead ==
    ASSUME Typed, NEW k \in Kinds, queue[k] # <<>>
    PROVE  /\ Head(queue[k]) \in Configs /\ Tail(queue[k]) \in Seq(Configs)
           /\ ToSet(queue[k]) = ToSet(Tail(queue[k])) \cup {Head(queue[k])}
           /\ Append(Tail(queue[k]), Head(queue[k])) \in Seq(Configs)
           /\ ToSet(Append(Tail(queue[k]), Head(queue[k]))) = ToSet(queue[k])
<1>1. queue[k] \in Seq(Configs)
  BY DEF Typed
<1> QED BY <1>1, ToSetTail, ToSetRotate

\* A delivery, field by field.
LEMMA DeliverForm ==
    ASSUME Typed, NEW k \in Kinds, Deliver(k)
    PROVE  LET ev == Head(log[k]) IN
           /\ log[k] # <<>> /\ log[k] \in Seq(Event) /\ ev \in Event
           /\ ev.cfg \in Configs /\ ev.state \in Written
           /\ cache' \in [Configs -> Written]
           /\ \A d \in Configs : cache'[d] = IF d = ev.cfg THEN ev.state ELSE cache[d]
           /\ log' \in [Kinds -> Seq(Event)]
           /\ \A h \in Kinds : log'[h] = IF h = k THEN Tail(log[k]) ELSE log[h]
           /\ queue' \in [Kinds -> Seq(Configs)]
           /\ \A h \in Kinds : ToSet(queue'[h]) = IF h = k THEN ToSet(queue[k]) \cup {ev.cfg}
                                                  ELSE ToSet(queue[h])
<1> DEFINE ev == Head(log[k])
<1>1. log[k] # <<>> /\ log[k] \in Seq(Event) /\ queue[k] \in Seq(Configs)
  BY DEF Deliver, Typed
<1>2. ev \in Event /\ Tail(log[k]) \in Seq(Event)
  BY <1>1, ToSetTail
<1>3. ev.cfg \in Configs /\ ev.state \in Written
  BY <1>2 DEF Event
<1>4. /\ cache' = [cache EXCEPT ![ev.cfg] = ev.state]
      /\ queue' = [queue EXCEPT ![k] = Add(queue[k], ev.cfg)]
      /\ log' = [log EXCEPT ![k] = Tail(log[k])]
  BY DEF Deliver
<1> HIDE DEF ev
<1>5. Add(queue[k], ev.cfg) \in Seq(Configs)
      /\ ToSet(Add(queue[k], ev.cfg)) = ToSet(queue[k]) \cup {ev.cfg}
  BY <1>1, <1>3, AddSet
<1>6. /\ queue' \in [Kinds -> Seq(Configs)]
      /\ \A h \in Kinds : queue'[h] = IF h = k THEN Add(queue[k], ev.cfg) ELSE queue[h]
  BY <1>4, <1>5 DEF Typed
<1>7. \A h \in Kinds : ToSet(queue'[h]) = IF h = k THEN ToSet(queue[k]) \cup {ev.cfg}
                                          ELSE ToSet(queue[h])
  BY <1>5, <1>6
<1>8. /\ cache' \in [Configs -> Written]
      /\ \A d \in Configs : cache'[d] = IF d = ev.cfg THEN ev.state ELSE cache[d]
  BY <1>3, <1>4 DEF Typed
<1>9. /\ log' \in [Kinds -> Seq(Event)]
      /\ \A h \in Kinds : log'[h] = IF h = k THEN Tail(log[k]) ELSE log[h]
  BY <1>2, <1>4 DEF Typed
<1> QED BY <1>1, <1>2, <1>3, <1>6, <1>7, <1>8, <1>9 DEF ev

\* The configs a target's event maps to.
Mapped(k, t) ==
    {c \in Configs : KindOf[c] = k /\ cache[c].phase # "absent" /\ cache[c].target = t}

LEMMA ChangeTargetForm ==
    ASSUME Typed, NEW k \in Kinds, NEW t \in Targets, NEW s \in Rules \cup {None},
           ChangeTarget(k, t, s)
    PROVE  /\ schema' \in [Kinds -> [Targets -> Rules \cup {None}]]
           /\ \A h \in Kinds, u \in Targets : h # k \/ u # t => schema'[h][u] = schema[h][u]
           /\ queue' \in [Kinds -> Seq(Configs)]
           /\ \A h \in Kinds : ToSet(queue'[h]) = IF h = k THEN ToSet(queue[k]) \cup Mapped(k, t)
                                                  ELSE ToSet(queue[h])
<1>1. /\ schema' = [schema EXCEPT ![k][t] = s]
      /\ queue' = [queue EXCEPT ![k] = AddAll(queue[k], Mapped(k, t))]
  BY DEF ChangeTarget, Mapped
<1>2. queue[k] \in Seq(Configs) /\ Mapped(k, t) \in SUBSET Configs
  BY DEF Typed, Mapped
<1>3. /\ AddAll(queue[k], Mapped(k, t)) \in Seq(Configs)
      /\ ToSet(AddAll(queue[k], Mapped(k, t))) = ToSet(queue[k]) \cup Mapped(k, t)
  BY <1>2, AddAllSet
<1>4. /\ queue' \in [Kinds -> Seq(Configs)]
      /\ \A h \in Kinds : queue'[h] = IF h = k THEN AddAll(queue[k], Mapped(k, t)) ELSE queue[h]
  BY <1>1, <1>3 DEF Typed
<1>5. /\ schema' \in [Kinds -> [Targets -> Rules \cup {None}]]
      /\ \A h \in Kinds, u \in Targets : h # k \/ u # t => schema'[h][u] = schema[h][u]
  BY <1>1 DEF Typed
<1>6. \A h \in Kinds : ToSet(queue'[h]) = IF h = k THEN ToSet(queue[k]) \cup Mapped(k, t)
                                          ELSE ToSet(queue[h])
  BY <1>3, <1>4
<1> QED BY <1>4, <1>5, <1>6

\* The queues a new process starts with.
LEMMA RestartForm ==
    ASSUME Typed, Restart
    PROVE  /\ queue' \in [Kinds -> Seq(Configs)]
           /\ \A k \in Kinds :
                ToSet(queue'[k]) = {c \in Configs : KindOf[c] = k /\ api[c].phase # "absent"}
<1>1. PICK order \in [Kinds -> SeqOf(Configs, Cardinality(Configs))] :
        /\ \A k \in Kinds :
             ToSet(order[k]) = {c \in Configs : KindOf[c] = k /\ api[c].phase # "absent"}
        /\ queue' = order
  BY DEF Restart
<1>2. Cardinality(Configs) \in Nat
  BY Assumed, FS_CardinalityType
<1>3. SeqOf(Configs, Cardinality(Configs)) \subseteq Seq(Configs)
  <2> SUFFICES ASSUME NEW q \in SeqOf(Configs, Cardinality(Configs)) PROVE q \in Seq(Configs)
    OBVIOUS
  <2>1. PICK m \in 0 .. Cardinality(Configs) : q \in [1 .. m -> Configs]
    BY DEF SeqOf
  <2>2. m \in Nat
    BY <1>2, <2>1
  <2> QED BY <2>1, <2>2
<1> QED BY <1>1, <1>3

\* The types hold in every reachable state.
LEMMA TypedInit == Init => Typed
<1> SUFFICES ASSUME Init PROVE Typed
  OBVIOUS
<1>1. Gone \in Written /\ NoEntry \in Entry /\ NoEntry.rules = None
  BY DEF Written, NoEntry, Entry
<1>2. /\ api = [c \in Configs |-> Gone] /\ seen = api /\ cache = api
      /\ log = [k \in Kinds |-> <<>>] /\ queue = [k \in Kinds |-> <<>>]
      /\ job = [th \in Threads |-> Idle]
      /\ phase = "ready" /\ syncLeft = {}
      /\ target = [c \in Configs |-> None] /\ registry = [t \in Targets |-> NoEntry]
      /\ restarts = 0
  BY DEF Init
<1>3. PICK s \in Rules \cup {None} : schema = [k \in Kinds |-> [t \in Targets |-> s]]
  BY DEF Init
<1>4. syncErr \in BOOLEAN
  BY DEF Init
<1>5. log \in [Kinds -> Seq(Event)] /\ queue \in [Kinds -> Seq(Configs)]
  BY <1>2
<1>6. schema \in [Kinds -> [Targets -> Rules \cup {None}]]
  BY <1>3
<1> QED BY <1>1, <1>2, <1>4, <1>5, <1>6 DEF Typed

LEMMA TypedNext == Typed /\ [Next]_vars => Typed'
<1> SUFFICES ASSUME Typed, [Next]_vars PROVE Typed'
  OBVIOUS
<1>1. CASE UNCHANGED vars
  BY <1>1 DEF vars, outside, Typed
<1>2. ASSUME NEW c \in Configs, NEW state \in Written, ConfigWrite(c, state) PROVE Typed'
  <2>1. api' \in [Configs -> Written] /\ log' \in [Kinds -> Seq(Event)]
    BY <1>2, WriteConfigForm DEF ConfigWrite
  <2> QED BY <1>2, <2>1 DEF ConfigWrite, Typed
<1>3. ASSUME NEW c \in Configs, ManagerSees(c) PROVE Typed'
  BY <1>3 DEF ManagerSees, outside, Typed
<1>4. ASSUME NEW k \in Kinds, NEW t \in Targets, NEW s \in Rules \cup {None}, ChangeTarget(k, t, s)
      PROVE  Typed'
  <2>1. schema' \in [Kinds -> [Targets -> Rules \cup {None}]] /\ queue' \in [Kinds -> Seq(Configs)]
    BY <1>4, ChangeTargetForm
  <2> QED BY <1>4, <2>1 DEF ChangeTarget, Change, Typed
<1>5. ASSUME NEW k \in Kinds, Deliver(k) PROVE Typed'
  <2>1. /\ cache' \in [Configs -> Written] /\ log' \in [Kinds -> Seq(Event)]
        /\ queue' \in [Kinds -> Seq(Configs)]
    BY <1>5, DeliverForm
  <2> QED BY <1>5, <2>1 DEF Deliver, outside, Typed
<1>6. ASSUME NEW k \in Kinds, TakeFromQueue(k) PROVE Typed'
  <2>1. Head(queue[k]) \in Configs /\ Tail(queue[k]) \in Seq(Configs)
    BY <1>6, QueueHead DEF TakeFromQueue
  <2>2. k \in Threads
    BY DEF Threads
  <2>3. job' \in [Threads -> {Idle} \cup Job] /\ target' \in [Configs -> Targets \cup {None}]
    BY <1>6, <2>1, <2>2, ReadType DEF TakeFromQueue
  <2>4. queue' \in [Kinds -> Seq(Configs)]
    BY <1>6, <2>1 DEF TakeFromQueue, Typed
  <2> QED BY <1>6, <2>3, <2>4 DEF TakeFromQueue, Typed
<1>7. ASSUME NEW k \in Kinds, Retry(k) PROVE Typed'
  <2>1. Head(queue[k]) \in Configs /\ Append(Tail(queue[k]), Head(queue[k])) \in Seq(Configs)
    BY <1>7, QueueHead DEF Retry
  <2>2. target' \in [Configs -> Targets \cup {None}]
    BY <1>7, <2>1, RememberedType DEF Retry
  <2>3. queue' \in [Kinds -> Seq(Configs)]
    BY <1>7, <2>1 DEF Retry, Typed
  <2> QED BY <1>7, <2>2, <2>3 DEF Retry, Typed
<1>8. ASSUME NEW th \in Threads, RegistryWrite(th) PROVE Typed'
  <2>1. /\ registry' \in [Targets -> Entry]
        /\ \A t \in Targets : registry'[t].rules # None => registry'[t].cfg # None
        /\ job' \in [Threads -> {Idle} \cup Job]
    BY <1>8, WriteType DEF RegistryWrite
  <2> QED BY <1>8, <2>1 DEF RegistryWrite, Typed
<1>9. ASSUME NEW w \in Pool, NEW c \in Configs, TakeUnit(w, c) PROVE Typed'
  <2>1. w \in Threads
    BY DEF Threads
  <2>2. job' \in [Threads -> {Idle} \cup Job] /\ target' \in [Configs -> Targets \cup {None}]
    BY <1>9, <2>1, ReadType DEF TakeUnit
  <2> QED BY <1>9, <2>2 DEF TakeUnit, Typed
<1>10. ASSUME NEW c \in Configs, FailUnit(c) PROVE Typed'
  <2>1. target' \in [Configs -> Targets \cup {None}]
    BY <1>10, RememberedType DEF FailUnit
  <2>2. syncErr' \in BOOLEAN
    BY <1>10 DEF FailUnit
  <2> QED BY <1>10, <2>1, <2>2 DEF FailUnit, Typed
<1>11. CASE InitialSyncDone
  <2>1. Present \subseteq Configs
    BY DEF Present
  <2>2. syncErr' \in BOOLEAN
    BY <1>11 DEF InitialSyncDone, Typed
  <2>3. phase' \in {"syncing", "ready"} /\ syncLeft' \subseteq Configs
    BY <1>11, <2>1 DEF InitialSyncDone, Typed
  <2> QED BY <1>11, <2>2, <2>3 DEF InitialSyncDone, outside, Typed
<1>12. CASE Restart
  <2>1. queue' \in [Kinds -> Seq(Configs)]
    BY <1>12, RestartForm
  <2>2. log' \in [Kinds -> Seq(Event)]
    BY <1>12 DEF Restart
  <2>3. syncErr' \in BOOLEAN
    BY <1>12 DEF Restart
  <2>4. NoEntry \in Entry /\ NoEntry.rules = None
    BY DEF NoEntry, Entry
  <2>5. /\ registry' \in [Targets -> Entry]
        /\ \A t \in Targets : registry'[t].rules # None => registry'[t].cfg # None
    BY <1>12, <2>4 DEF Restart
  <2> QED BY <1>12, <2>1, <2>2, <2>3, <2>5 DEF Restart, Typed
<1> QED
  BY <1>1, <1>2, <1>3, <1>4, <1>5, <1>6, <1>7, <1>8, <1>9, <1>10, <1>11, <1>12, StepForms

LEMMA TypedAlways == Spec => []Typed
BY TypedInit, TypedNext, PTL DEF Spec

\* A work queue holds a config once.
Once(q) == \A i, j \in 1 .. Len(q) : q[i] = q[j] => i = j

LEMMA OnceTail ==
    ASSUME NEW q \in Seq(Configs), q # <<>>, Once(q)
    PROVE  Once(Tail(q)) /\ Head(q) \notin ToSet(Tail(q))
<1> DEFINE p == Tail(q)
           h == Head(q)
<1>1. /\ p \in Seq(Configs) /\ Len(q) \in Nat /\ Len(q) >= 1 /\ Len(p) = Len(q) - 1 /\ h = q[1]
      /\ \A i \in 1 .. Len(p) : p[i] = q[i + 1]
  OBVIOUS
<1> HIDE DEF p, h
<1>2. \A i \in 1 .. Len(p) : i + 1 \in 1 .. Len(q) /\ 1 \in 1 .. Len(q) /\ i + 1 # 1
  BY <1>1
<1>3. Once(p)
  <2> SUFFICES ASSUME NEW i \in 1 .. Len(p), NEW j \in 1 .. Len(p), p[i] = p[j] PROVE i = j
    BY DEF Once
  <2>1. i + 1 = j + 1
    BY <1>1, <1>2 DEF Once
  <2> QED BY <1>1, <2>1
<1>4. h \notin ToSet(p)
  <2> SUFFICES ASSUME h \in ToSet(p) PROVE FALSE
    OBVIOUS
  <2>1. PICK i \in 1 .. Len(p) : p[i] = h
    BY <1>1, InToSet
  <2> QED BY <1>1, <1>2, <2>1 DEF Once
<1> QED BY <1>3, <1>4 DEF p, h

LEMMA OnceConcat ==
    ASSUME NEW p \in Seq(Configs), NEW q \in Seq(Configs), Once(p), Once(q),
           ToSet(p) \cap ToSet(q) = {}
    PROVE  Once(p \o q)
<1> DEFINE r == p \o q
           m == Len(p)
<1>1. /\ Len(r) = m + Len(q) /\ m \in Nat /\ Len(q) \in Nat
      /\ \A i \in 1 .. Len(r) : r[i] = IF i <= m THEN p[i] ELSE q[i - m]
  OBVIOUS
<1> HIDE DEF r
<1> SUFFICES ASSUME NEW i \in 1 .. Len(r), NEW j \in 1 .. Len(r), r[i] = r[j] PROVE i = j
  BY DEF Once, r
<1>2. \A k \in 1 .. Len(r) : (k <= m => k \in 1 .. m) /\ (~(k <= m) => k - m \in 1 .. Len(q))
  BY <1>1
<1>3. /\ \A k \in 1 .. m : p[k] \in ToSet(p)
      /\ \A k \in 1 .. Len(q) : q[k] \in ToSet(q)
  BY InToSet
<1>4. CASE i <= m /\ j <= m
  BY <1>1, <1>2, <1>4 DEF Once
<1>5. CASE ~(i <= m) /\ ~(j <= m)
  <2>1. q[i - m] = q[j - m]
    BY <1>1, <1>5
  <2>2. i - m = j - m
    BY <1>2, <1>5, <2>1 DEF Once
  <2> QED BY <1>1, <2>2
<1>6. CASE i <= m /\ ~(j <= m)
  <2>1. p[i] = q[j - m] /\ p[i] \in ToSet(p) /\ q[j - m] \in ToSet(q)
    BY <1>1, <1>2, <1>3, <1>6
  <2> QED BY <2>1
<1>7. CASE ~(i <= m) /\ j <= m
  <2>1. q[i - m] = p[j] /\ p[j] \in ToSet(p) /\ q[i - m] \in ToSet(q)
    BY <1>1, <1>2, <1>3, <1>7
  <2> QED BY <2>1
<1> QED BY <1>4, <1>5, <1>6, <1>7

LEMMA OnceAppend ==
    ASSUME NEW q \in Seq(Configs), Once(q), NEW c \in Configs, c \notin ToSet(q)
    PROVE  Once(Append(q, c))
<1> DEFINE p == Append(q, c)
<1>1. /\ Len(p) = Len(q) + 1 /\ Len(q) \in Nat
      /\ \A i \in 1 .. Len(p) : p[i] = IF i <= Len(q) THEN q[i] ELSE c
      /\ \A i \in 1 .. Len(p) : i <= Len(q) => i \in 1 .. Len(q)
  OBVIOUS
<1> HIDE DEF p
<1>2. \A i \in 1 .. Len(q) : q[i] # c
  BY InToSet
<1> SUFFICES ASSUME NEW i \in 1 .. Len(p), NEW j \in 1 .. Len(p), p[i] = p[j] PROVE i = j
  BY DEF Once, p
<1>3. CASE i <= Len(q) /\ j <= Len(q)
  BY <1>1, <1>3 DEF Once
<1>4. CASE ~(i <= Len(q) /\ j <= Len(q))
  BY <1>1, <1>2, <1>4
<1> QED BY <1>3, <1>4

LEMMA OnceAdd ==
    ASSUME NEW q \in Seq(Configs), Once(q)
    PROVE  /\ \A c \in Configs : Once(Add(q, c))
           /\ \A cs \in SUBSET Configs : Once(AddAll(q, cs))
<1>1. ASSUME NEW c \in Configs PROVE Once(Add(q, c))
  BY OnceAppend DEF Add
<1>2. ASSUME NEW cs \in SUBSET Configs PROVE Once(AddAll(q, cs))
  <2> DEFINE new == cs \ ToSet(q)
             f == SetToSeq(new)
             n == Cardinality(new)
  <2>1. IsFiniteSet(new) /\ new \subseteq Configs
    BY Assumed, FS_Subset
  <2>2. f \in Seq(new) /\ ToSet(f) = new
    BY <2>1, SetToSeqSet
  <2>3. n \in Nat /\ ExistsBijection(1 .. n, new)
    BY <2>1, FS_CardinalityType
  <2>4. PICK g \in [1 .. n -> new] : IsInjective(g)
    BY <2>3 DEF ExistsBijection, Bijection, Injection
  <2>5. f \in [1 .. n -> new] /\ IsInjective(f)
    BY <2>4 DEF SetToSeq
  <2> HIDE DEF f
  <2>6. Len(f) = n
    BY <2>2, <2>3, <2>5
  <2>7. Once(f)
    BY <2>5, <2>6 DEF Once, IsInjective
  <2>8. f \in Seq(Configs)
    <3> HIDE DEF new
    <3> QED BY <2>1, <2>2
  <2>9. ToSet(q) \cap ToSet(f) = {}
    BY <2>2
  <2>10. Once(q \o f)
    BY <2>7, <2>8, <2>9, OnceConcat
  <2>11. AddAll(q, cs) = q \o f
    BY DEF AddAll, f
  <2> QED BY <2>10, <2>11
<1> QED BY <1>1, <1>2

QueuesOnce == \A k \in Kinds : Once(queue[k])

LEMMA QueuesOnceNext ==
    ASSUME Typed, QueuesOnce, [Next]_vars
    PROVE  QueuesOnce'
<1>0. \A k \in Kinds : queue[k] \in Seq(Configs) /\ Once(queue[k])
  BY DEF Typed, QueuesOnce
<1>1. CASE UNCHANGED queue
  BY <1>1 DEF QueuesOnce
<1>2. ASSUME NEW k \in Kinds, NEW q, Once(q), queue' = [queue EXCEPT ![k] = q] PROVE QueuesOnce'
  BY <1>0, <1>2 DEF Typed, QueuesOnce
<1>3. ASSUME NEW k \in Kinds, NEW t \in Targets, NEW s \in Rules \cup {None}, ChangeTarget(k, t, s)
      PROVE  QueuesOnce'
  <2>1. queue' = [queue EXCEPT ![k] = AddAll(queue[k], Mapped(k, t))] /\ Mapped(k, t) \in SUBSET Configs
    BY <1>3 DEF ChangeTarget, Mapped
  <2>2. Once(AddAll(queue[k], Mapped(k, t)))
    BY <1>0, <2>1, OnceAdd
  <2> QED BY <1>2, <2>1, <2>2
<1>4. ASSUME NEW k \in Kinds, Deliver(k) PROVE QueuesOnce'
  <2>1. queue' = [queue EXCEPT ![k] = Add(queue[k], Head(log[k]).cfg)]
    BY <1>4 DEF Deliver
  <2>2. Head(log[k]).cfg \in Configs
    BY <1>4, DeliverForm
  <2>3. Once(Add(queue[k], Head(log[k]).cfg))
    BY <1>0, <2>2, OnceAdd
  <2> QED BY <1>2, <2>1, <2>3
<1>5. ASSUME NEW k \in Kinds, TakeFromQueue(k) PROVE QueuesOnce'
  <2>1. queue[k] # <<>> /\ queue' = [queue EXCEPT ![k] = Tail(queue[k])]
    BY <1>5 DEF TakeFromQueue
  <2>2. Once(Tail(queue[k]))
    BY <1>0, <2>1, OnceTail
  <2> QED BY <1>2, <2>1, <2>2
<1>6. ASSUME NEW k \in Kinds, Retry(k) PROVE QueuesOnce'
  <2>1. queue[k] # <<>> /\ queue' = [queue EXCEPT ![k] = Append(Tail(queue[k]), Head(queue[k]))]
    BY <1>6 DEF Retry
  <2>2. Once(Tail(queue[k])) /\ Head(queue[k]) \notin ToSet(Tail(queue[k]))
    BY <1>0, <2>1, OnceTail
  <2>3. Tail(queue[k]) \in Seq(Configs) /\ Head(queue[k]) \in Configs
    BY <2>1, QueueHead
  <2>4. Once(Append(Tail(queue[k]), Head(queue[k])))
    BY <2>2, <2>3, OnceAppend
  <2> QED BY <1>2, <2>1, <2>4
<1>7. CASE Restart
  <2>1. \A k \in Kinds : IsInjective(queue'[k]) /\ queue'[k] \in Seq(Configs)
    BY <1>7, RestartForm DEF Restart
  <2>2. \A k \in Kinds : DOMAIN queue'[k] = 1 .. Len(queue'[k])
    BY <2>1
  <2> QED BY <2>1, <2>2 DEF QueuesOnce, Once, IsInjective
<1> QED BY <1>1, <1>3, <1>4, <1>5, <1>6, <1>7, StepForms DEF vars, ConfigWrite, ManagerSees,
       RegistryWrite, TakeUnit, FailUnit, InitialSyncDone

\* Type correctness of the replica: in particular a work queue never holds a
\* config twice, whatever events, retries and restarts do (TypeOK).
THEOREM TypeCorrect == Spec => []TypeOK
<1>1. Init => QueuesOnce
  BY DEF Init, QueuesOnce, Once
<1>2. Typed /\ QueuesOnce /\ [Next]_vars => QueuesOnce'
  BY QueuesOnceNext
<1>3. Written \subseteq ConfigState
  BY DEF Written, ConfigState, Gone
<1>4. Typed /\ QueuesOnce => TypeOK
  <2> SUFFICES ASSUME Typed, QueuesOnce PROVE TypeOK
    OBVIOUS
  <2>1. /\ api \in [Configs -> ConfigState] /\ seen \in [Configs -> ConfigState]
        /\ cache \in [Configs -> ConfigState]
    BY <1>3 DEF Typed
  <2>2. ASSUME NEW k \in Kinds
        PROVE  /\ log[k] \in Seq([cfg : Configs, state : ConfigState])
               /\ queue[k] \in Seq(Configs) /\ IsInjective(queue[k])
    <3> DEFINE Told == [cfg : Configs, state : ConfigState]
    <3>1. Event \subseteq Told
      BY <1>3 DEF Event
    <3>2. log[k] \in Seq(Event) /\ queue[k] \in Seq(Configs) /\ Once(queue[k])
      BY DEF Typed, QueuesOnce
    <3>3. log[k] \in Seq(Told)
      <4> HIDE DEF Told
      <4> QED BY <3>1, <3>2
    <3>4. DOMAIN queue[k] = 1 .. Len(queue[k])
      BY <3>2
    <3> QED BY <3>2, <3>3, <3>4 DEF Once, IsInjective
  <2>3. Job \subseteq [cfg : Configs, remove : Targets \cup {None}, read : ConfigState,
                       schema : Rules \cup {None}]
    BY <1>3 DEF Job
  <2>4. \A th \in Threads : job[th] = Idle \/
          job[th] \in [cfg : Configs, remove : Targets \cup {None}, read : ConfigState,
                       schema : Rules \cup {None}]
    BY <2>3 DEF Typed
  <2> QED BY <2>1, <2>2, <2>4 DEF Typed, TypeOK, Entry
<1> QED BY <1>1, <1>2, <1>4, TypedAlways, PTL DEF Spec

-----------------------------------------------------------------------------
(***************************************************************************)
(* Admission and the names                                                 *)
(***************************************************************************)
\* Only a write of a config changes what the API server holds.
LEMMA ApiStep ==
    ASSUME Typed, [Next]_vars
    PROVE  UNCHANGED api \/ \E c \in Configs, state \in Written : ConfigWrite(c, state)
<1>1. CASE UNCHANGED vars
  BY <1>1 DEF vars
<1>2. CASE Next
  BY <1>2, StepForms DEF ManagerSees, ChangeTarget, Deliver, TakeFromQueue, Retry, RegistryWrite,
     TakeUnit, FailUnit, InitialSyncDone, Restart
<1> QED BY <1>1, <1>2

LEMMA OneConfigNext ==
    ASSUME SerialAdmission, Typed, OneConfigPerTarget, [Next]_vars
    PROVE  OneConfigPerTarget'
<1>1. CASE UNCHANGED api
  BY <1>1 DEF OneConfigPerTarget
<1>2. ASSUME NEW c \in Configs, NEW state \in Written, ConfigWrite(c, state)
      PROVE  OneConfigPerTarget'
  <2>1. \A d \in Configs : api'[d] = IF d = c THEN state ELSE api[d]
    BY <1>2, WriteConfigForm DEF ConfigWrite
  <2>2. CASE state = Gone
    BY <2>1, <2>2 DEF OneConfigPerTarget, Gone
  <2>3. CASE api[c].phase = "live" /\ state = [api[c] EXCEPT !.phase = "deleting"]
    <3>1. api[c].phase # "absent" /\ state.target = api[c].target
      BY <2>3, WrittenFields DEF Typed, Written, Gone
    <3> QED BY <2>1, <3>1 DEF OneConfigPerTarget
  <2>4. CASE Granted(c, state.target)
    <3>1. \A o \in Configs \ {c} : api[o].phase # "absent" => api[o].target # state.target
      BY <2>4 DEF Granted, validateRegistryKeyAvailable
    <3> QED BY <2>1, <3>1 DEF OneConfigPerTarget
  <2> QED BY <1>2, <2>2, <2>3, <2>4 DEF ConfigWrite
<1> QED BY <1>1, <1>2, ApiStep

\* When admission sees every config written before, no two configs of either
\* kind ever hold the same target: validateRegistryKeyAvailable suffices, also
\* for a config that is being deleted (OneConfigPerTarget).
THEOREM AdmissionIsExclusive == SerialAdmission => (Spec => []OneConfigPerTarget)
<1> SUFFICES ASSUME SerialAdmission PROVE Spec => []OneConfigPerTarget
  OBVIOUS
<1>1. Init => OneConfigPerTarget
  BY DEF Init, OneConfigPerTarget, Gone
<1>2. Typed /\ OneConfigPerTarget /\ [Next]_vars => OneConfigPerTarget'
  BY OneConfigNext
<1> QED BY <1>1, <1>2, TypedAlways, PTL DEF Spec

\* Something on the API server, on the replica or on its way there ties c to t.
Tied(c, t) ==
    \/ api[c].target = t \/ cache[c].target = t \/ target[c] = t
    \/ \E k \in Kinds : \E ev \in ToSet(log[k]) : ev.cfg = c /\ ev.state.target = t
    \/ \E th \in Threads : /\ job[th] # Idle /\ job[th].cfg = c
                           /\ t \in {job[th].remove, job[th].read.target}

\* A name is tied to one config at a time.
Exclusive == \A t \in Targets : \A c, d \in Configs : Tied(c, t) /\ Tied(d, t) => c = d

\* Reading a config ties it to nothing new.
LEMMA ReadTies ==
    ASSUME Typed, NEW th \in Threads, NEW c \in Configs, Read(th, c),
           UNCHANGED <<api, cache, log>>, NEW d \in Configs, NEW t \in Targets, Tied(d, t)'
    PROVE  Tied(d, t)
<1>1. /\ job'[th].cfg = c /\ job'[th].read = cache[c]
      /\ job'[th].remove \in {None, target[c]}
  BY ReadType, Zenon
<1>2. \A u \in Threads : u # th => job'[u] = job[u]
  BY DEF Read, Typed
<1>3. target'[d] \in {None, target[d], cache[d].target}
  BY DEF Read, Typed
<1>4. t # None
  BY Assumed
<1>5. CASE \E u \in Threads : /\ job'[u] # Idle /\ job'[u].cfg = d
                              /\ t \in {job'[u].remove, job'[u].read.target}
  <2>1. PICK u \in Threads : /\ job'[u] # Idle /\ job'[u].cfg = d
                             /\ t \in {job'[u].remove, job'[u].read.target}
    BY <1>5
  <2> QED BY <1>1, <1>2, <1>4, <2>1 DEF Tied
<1>6. CASE target'[d] = t
  BY <1>3, <1>4, <1>6 DEF Tied
<1> QED BY <1>5, <1>6 DEF Tied

\* A step ties nothing new, unless it grants a config a target.
LEMMA TiedStep ==
    ASSUME Typed, [Next]_vars, NEW d \in Configs, NEW t \in Targets, Tied(d, t)'
    PROVE  Tied(d, t) \/ \E state \in Written : /\ ConfigWrite(d, state) /\ Granted(d, t)
                                                /\ state.target = t
<1>0. t # None
  BY Assumed
<1>1. CASE UNCHANGED vars
  BY <1>1 DEF vars, Tied
<1>2. ASSUME NEW c \in Configs, NEW state \in Written, ConfigWrite(c, state)
      PROVE  Tied(d, t) \/ (ConfigWrite(d, state) /\ Granted(d, t) /\ state.target = t)
  <2> DEFINE ev == [cfg |-> c, state |-> state]
             k == KindOf[c]
  <2>1. /\ \A o \in Configs : api'[o] = IF o = c THEN state ELSE api[o]
        /\ \A h \in Kinds : log'[h] = IF h = k THEN Append(log[h], ev) ELSE log[h]
        /\ ev \in Event /\ ev.cfg = c /\ ev.state = state
    BY <1>2, WriteConfigForm DEF ConfigWrite
  <2> HIDE DEF ev, k
  <2>2. \A h \in Kinds : ToSet(log'[h]) \subseteq ToSet(log[h]) \cup {ev}
    <3> TAKE h \in Kinds
    <3>1. log[h] \in Seq(Event)
      BY DEF Typed
    <3>2. ToSet(Append(log[h], ev)) = ToSet(log[h]) \cup {ev}
      BY <2>1, <3>1, ToSetAppend
    <3> QED BY <2>1, <3>2
  <2>3. state.target = t =>
          (api[c].target = t \/ Granted(c, t))
    <3>1. Gone.target = None
      BY DEF Gone
    <3>2. api[c].phase = "live" /\ state = [api[c] EXCEPT !.phase = "deleting"]
            => state.target = api[c].target
      BY WrittenFields DEF Typed, Written, Gone
    <3> QED BY <1>0, <1>2, <3>1, <3>2 DEF ConfigWrite
  <2>4. UNCHANGED <<cache, target, job>>
    BY <1>2 DEF ConfigWrite
  <2>5. Tied(d, t) \/ (d = c /\ state.target = t)
    BY <2>1, <2>2, <2>4 DEF Tied
  <2> QED BY <1>2, <2>3, <2>5 DEF Tied
<1>3. CASE \E c \in Configs : ManagerSees(c)
  BY <1>3 DEF ManagerSees, Tied
<1>4. CASE \E k \in Kinds, u \in Targets, s \in Rules \cup {None} : ChangeTarget(k, u, s)
  BY <1>4 DEF ChangeTarget, Tied
<1>5. ASSUME NEW k \in Kinds, Deliver(k) PROVE Tied(d, t)
  <2> DEFINE ev == Head(log[k])
  <2>1. /\ log[k] # <<>> /\ log[k] \in Seq(Event)
        /\ \A o \in Configs : cache'[o] = IF o = ev.cfg THEN ev.state ELSE cache[o]
        /\ \A h \in Kinds : log'[h] = IF h = k THEN Tail(log[k]) ELSE log[h]
    BY <1>5, DeliverForm
  <2>2. ToSet(log[k]) = ToSet(Tail(log[k])) \cup {ev}
    BY <2>1, ToSetTail
  <2> HIDE DEF ev
  <2>3. UNCHANGED <<api, target, job>>
    BY <1>5 DEF Deliver
  <2>4. \A h \in Kinds : ToSet(log'[h]) \subseteq ToSet(log[h])
    BY <2>1, <2>2
  <2>5. cache'[d].target = t => Tied(d, t)
    BY <2>1, <2>2 DEF Tied
  <2> QED BY <2>3, <2>4, <2>5 DEF Tied
<1>6. ASSUME NEW k \in Kinds, TakeFromQueue(k) PROVE Tied(d, t)
  <2>1. Head(queue[k]) \in Configs /\ k \in Threads
    BY <1>6, QueueHead DEF TakeFromQueue, Threads
  <2> QED BY <1>6, <2>1, ReadTies DEF TakeFromQueue
<1>7. ASSUME NEW c \in Configs, target' \in remembered(c), UNCHANGED <<api, cache, log, job>>
      PROVE  Tied(d, t)
  <2>1. target'[d] = target[d] \/ target'[d] = cache[d].target
    BY <1>7, RememberedType
  <2> QED BY <1>7, <2>1 DEF Tied
<1>8. ASSUME NEW k \in Kinds, Retry(k) PROVE Tied(d, t)
  <2>1. Head(queue[k]) \in Configs
    BY <1>8, QueueHead DEF Retry
  <2> QED BY <1>7, <1>8, <2>1 DEF Retry
<1>9. ASSUME NEW th \in Threads, RegistryWrite(th) PROVE Tied(d, t)
  <2>1. \A u \in Threads : job'[u] = IF u = th THEN Idle ELSE job[u]
    BY <1>9, WriteType DEF RegistryWrite
  <2> QED BY <1>9, <2>1 DEF RegistryWrite, Tied
<1>10. ASSUME NEW w \in Pool, NEW c \in Configs, TakeUnit(w, c) PROVE Tied(d, t)
  <2>1. w \in Threads
    BY DEF Threads
  <2> QED BY <1>10, <2>1, ReadTies DEF TakeUnit
<1>11. ASSUME NEW c \in Configs, FailUnit(c) PROVE Tied(d, t)
  BY <1>7, <1>11 DEF FailUnit
<1>12. CASE InitialSyncDone
  BY <1>12 DEF InitialSyncDone, Tied
<1>13. CASE Restart
  <2>1. UNCHANGED api /\ cache' = api /\ log' = [k \in Kinds |-> <<>>]
        /\ job' = [th \in Threads |-> Idle] /\ target' = [c \in Configs |-> None]
    BY <1>13 DEF Restart
  <2> QED BY <1>0, <2>1, ToSetEmpty DEF Tied
<1> QED
  BY <1>1, <1>2, <1>3, <1>4, <1>5, <1>6, <1>8, <1>9, <1>10, <1>11, <1>12, <1>13, StepForms

\* A target that is granted is tied to no other config.
LEMMA GrantedIsFree ==
    ASSUME SerialAdmission, NamesLetGo, Typed, NEW c \in Configs, NEW t \in Targets, Granted(c, t),
           NEW o \in Configs, o # c
    PROVE  ~Tied(o, t)
<1>1. \A p \in Configs \ {c} : api[p].phase # "absent" => api[p].target # t
  BY DEF Granted, validateRegistryKeyAvailable
<1>2. api[o].target # t
  BY <1>1, WrittenFields, Assumed DEF Typed
<1>3. Holder(t) \subseteq {c}
  BY <1>1 DEF Holder
<1>4. /\ \A p \in Configs \ {c} : target[p] # t /\ cache[p].target # t
      /\ \A k \in Kinds : \A ev \in ToSet(log[k]) : ev.cfg # c => ev.state.target # t
      /\ \A th \in Threads : job[th] # Idle /\ job[th].cfg # c =>
            t \notin {job[th].remove, job[th].read.target}
  BY <1>3 DEF Granted, LetGo
<1> QED BY <1>2, <1>4 DEF Tied

LEMMA ExclusiveNext ==
    ASSUME SerialAdmission, NamesLetGo, Typed, Exclusive, [Next]_vars
    PROVE  Exclusive'
<1> SUFFICES ASSUME NEW t \in Targets, NEW c \in Configs, NEW d \in Configs,
                    Tied(c, t)', Tied(d, t)', c # d
             PROVE  FALSE
  BY DEF Exclusive
<1>1. \A o \in Configs : Granted(c, t) /\ o # c => ~Tied(o, t)
  BY GrantedIsFree
<1>2. \A o \in Configs : Granted(d, t) /\ o # d => ~Tied(o, t)
  BY GrantedIsFree
<1>3. ~(Tied(c, t) /\ Tied(d, t))
  BY DEF Exclusive
<1>4. ASSUME NEW s1 \in Written, ConfigWrite(c, s1), s1.target = t,
             NEW s2 \in Written, ConfigWrite(d, s2), s2.target = t
      PROVE  FALSE
  <2>1. api'[c] = s1 /\ api'[c] = api[c]
    BY <1>4, WriteConfigForm DEF ConfigWrite
  <2>2. Tied(c, t)
    BY <1>4, <2>1 DEF Tied
  <2>3. api'[d] = s2 /\ api'[d] = api[d]
    BY <1>4, WriteConfigForm DEF ConfigWrite
  <2>4. Tied(d, t)
    BY <1>4, <2>3 DEF Tied
  <2> QED BY <1>3, <2>2, <2>4
<1> QED BY <1>1, <1>2, <1>3, <1>4, TiedStep

LEMMA ExclusiveAlways == SerialAdmission /\ NamesLetGo => (Spec => []Exclusive)
<1> SUFFICES ASSUME SerialAdmission, NamesLetGo PROVE Spec => []Exclusive
  OBVIOUS
<1>1. Init => Exclusive
  <2> SUFFICES ASSUME Init, NEW t \in Targets, NEW c \in Configs, Tied(c, t) PROVE FALSE
    BY DEF Exclusive
  <2>1. /\ api = [o \in Configs |-> Gone] /\ cache = api
        /\ log = [k \in Kinds |-> <<>>] /\ job = [th \in Threads |-> Idle]
        /\ target = [o \in Configs |-> None]
    BY DEF Init
  <2>2. Gone.target = None
    BY DEF Gone
  <2> QED BY <2>1, <2>2, ToSetEmpty, Assumed DEF Tied
<1>2. Typed /\ Exclusive /\ [Next]_vars => Exclusive'
  BY ExclusiveNext
<1> QED BY <1>1, <1>2, TypedAlways, PTL DEF Spec

-----------------------------------------------------------------------------
(***************************************************************************)
(* No plan is lost to drift                                                *)
(***************************************************************************)
\* Only a finished reconcile and a new process change the registry.
LEMMA RegistryStep ==
    ASSUME Typed, [Next]_vars
    PROVE  \/ UNCHANGED registry
           \/ Restart
           \/ \E th \in Threads : RegistryWrite(th)
<1>1. CASE UNCHANGED vars
  BY <1>1 DEF vars
<1>2. CASE Next
  BY <1>2, StepForms DEF ConfigWrite, ManagerSees, ChangeTarget, Deliver, TakeFromQueue, Retry,
     TakeUnit, FailUnit, InitialSyncDone
<1> QED BY <1>1, <1>2

LEMMA OnlyARemovalClears ==
    ASSUME Typed, NEW th \in Threads, RegistryWrite(th), NEW t \in Targets,
           registry[t].rules # None, registry'[t].rules = None
    PROVE  job[th] # Idle /\ job[th].read.phase # "live" /\ job[th].remove = t
<1> DEFINE j == job[th]
           u == j.read.target
           new == IF j.schema = j.read.rules THEN [cfg |-> j.cfg, rules |-> j.read.rules]
                  ELSE IF registry[u].rules # None THEN registry[u]
                  ELSE [cfg |-> j.cfg, rules |-> None]
<1>1. job[th] # Idle /\ registry' = written(th)
  BY DEF RegistryWrite, Write
<1>2. CASE j.read.phase = "live"
  <2>1. u \in Targets /\ j.read.rules \in Rules /\ registry' = [registry EXCEPT ![u] = new]
    BY <1>1, <1>2, WrittenEntry
  <2>2. registry[u].rules # None => new.rules # None
    BY <2>1, Assumed
  <2> HIDE DEF new, u, j
  <2> QED BY <2>1, <2>2 DEF Typed
<1>3. CASE j.read.phase # "live"
  <2>1. registry' = IF j.remove # None THEN [registry EXCEPT ![j.remove] = NoEntry] ELSE registry
    BY <1>1, <1>3, WrittenEntry
  <2> HIDE DEF j
  <2>2. j.remove = t
    BY <2>1 DEF Typed
  <2> QED BY <1>1, <1>3, <2>2 DEF j
<1> QED BY <1>2, <1>3

\* When admission sees every config and a name changes hands only once the
\* replica has let go of it, a working plan of a config that still names the
\* target is cleared by a reconcile that saw that very config gone or going,
\* and by nothing else while the process runs (PlanOutlivesDrift).
THEOREM PlansOutliveDrift == SerialAdmission /\ NamesLetGo => (Spec => PlanOutlivesDrift)
<1> SUFFICES ASSUME SerialAdmission, NamesLetGo PROVE Spec => PlanOutlivesDrift
  OBVIOUS
<1> DEFINE Keeps ==
      \A t \in Targets :
          registry[t].rules # None /\ api[registry[t].cfg].target = t
            /\ registry'[t].rules = None /\ restarts' = restarts
              => \E th \in Threads : /\ job[th] # Idle /\ job[th].cfg = registry[t].cfg
                                     /\ job[th].read.phase # "live"
<1>1. Typed /\ Exclusive /\ [Next]_vars => [Keeps]_vars
  <2> SUFFICES ASSUME Typed, Exclusive, [Next]_vars, NEW t \in Targets,
                      registry[t].rules # None, api[registry[t].cfg].target = t,
                      registry'[t].rules = None, restarts' = restarts
               PROVE  \E th \in Threads : /\ job[th] # Idle /\ job[th].cfg = registry[t].cfg
                                          /\ job[th].read.phase # "live"
    OBVIOUS
  <2>1. registry' # registry
    OBVIOUS
  <2>2. ~Restart
    BY DEF Restart, Typed
  <2>3. PICK th \in Threads : RegistryWrite(th)
    BY <2>1, <2>2, RegistryStep
  <2>4. job[th] # Idle /\ job[th].read.phase # "live" /\ job[th].remove = t
    BY <2>3, OnlyARemovalClears
  <2>5. job[th].cfg \in Configs
    BY <2>4, JobFields
  <2>6. registry[t].cfg \in Configs
    BY DEF Typed, Entry
  <2>7. Tied(job[th].cfg, t) /\ Tied(registry[t].cfg, t)
    BY <2>4 DEF Tied
  <2> QED BY <2>4, <2>5, <2>6, <2>7 DEF Exclusive
<1> QED BY <1>1, TypedAlways, ExclusiveAlways, PTL DEF Spec, PlanOutlivesDrift

-----------------------------------------------------------------------------
(***************************************************************************)
(* A replica at rest serves what it should                                 *)
(***************************************************************************)
\* A kind's informer, queue and controller carry configs of that kind only.
OwnKind ==
    \A k \in Kinds :
        /\ \A ev \in ToSet(log[k]) : KindOf[ev.cfg] = k
        /\ \A c \in ToSet(queue[k]) : KindOf[c] = k
        /\ job[k] # Idle => KindOf[job[k].cfg] = k

LEMMA OwnKindNext ==
    ASSUME Typed, OwnKind, [Next]_vars
    PROVE  OwnKind'
<1>1. CASE UNCHANGED vars
  BY <1>1 DEF vars, OwnKind
<1>2. ASSUME NEW c \in Configs, NEW state \in Written, ConfigWrite(c, state) PROVE OwnKind'
  <2> DEFINE ev == [cfg |-> c, state |-> state]
  <2>1. /\ \A h \in Kinds : log'[h] = IF h = KindOf[c] THEN Append(log[h], ev) ELSE log[h]
        /\ ev \in Event /\ ev.cfg = c
    BY <1>2, WriteConfigForm DEF ConfigWrite
  <2> HIDE DEF ev
  <2>2. ASSUME NEW h \in Kinds, NEW e \in ToSet(log'[h]) PROVE KindOf[e.cfg] = h
    <3>1. log[h] \in Seq(Event)
      BY DEF Typed
    <3>2. ToSet(Append(log[h], ev)) = ToSet(log[h]) \cup {ev}
      BY <2>1, <3>1, ToSetAppend
    <3>3. e \in ToSet(log[h]) \/ (h = KindOf[c] /\ e = ev)
      BY <2>1, <2>2, <3>2
    <3> QED BY <2>1, <3>3 DEF OwnKind
  <2>3. UNCHANGED <<queue, job>>
    BY <1>2 DEF ConfigWrite
  <2> QED BY <2>2, <2>3 DEF OwnKind
<1>3. CASE \E c \in Configs : ManagerSees(c)
  BY <1>3 DEF ManagerSees, OwnKind
<1>4. ASSUME NEW k \in Kinds, NEW t \in Targets, NEW s \in Rules \cup {None}, ChangeTarget(k, t, s)
      PROVE  OwnKind'
  <2>1. \A h \in Kinds : ToSet(queue'[h]) = IF h = k THEN ToSet(queue[k]) \cup Mapped(k, t)
                                            ELSE ToSet(queue[h])
    BY <1>4, ChangeTargetForm
  <2>2. \A c \in Mapped(k, t) : KindOf[c] = k
    BY DEF Mapped
  <2> QED BY <1>4, <2>1, <2>2 DEF ChangeTarget, OwnKind
<1>5. ASSUME NEW k \in Kinds, Deliver(k) PROVE OwnKind'
  <2> DEFINE ev == Head(log[k])
  <2>1. /\ log[k] # <<>> /\ log[k] \in Seq(Event)
        /\ \A h \in Kinds : log'[h] = IF h = k THEN Tail(log[k]) ELSE log[h]
        /\ \A h \in Kinds : ToSet(queue'[h]) = IF h = k THEN ToSet(queue[k]) \cup {ev.cfg}
                                               ELSE ToSet(queue[h])
    BY <1>5, DeliverForm
  <2>2. ToSet(log[k]) = ToSet(Tail(log[k])) \cup {ev}
    BY <2>1, ToSetTail
  <2> HIDE DEF ev
  <2>3. UNCHANGED job
    BY <1>5 DEF Deliver
  <2> QED BY <2>1, <2>2, <2>3 DEF OwnKind
<1>6. ASSUME NEW k \in Kinds, TakeFromQueue(k) PROVE OwnKind'
  <2>1. /\ Head(queue[k]) \in Configs /\ Tail(queue[k]) \in Seq(Configs)
        /\ ToSet(queue[k]) = ToSet(Tail(queue[k])) \cup {Head(queue[k])}
    BY <1>6, QueueHead DEF TakeFromQueue
  <2>2. k \in Threads
    BY DEF Threads
  <2>3. job'[k].cfg = Head(queue[k])
    BY <1>6, <2>1, <2>2, ReadType DEF TakeFromQueue
  <2>4. \A h \in Kinds : h # k => job'[h] = job[h]
    BY <1>6 DEF TakeFromQueue, Read, Typed
  <2>5. \A h \in Kinds : queue'[h] = IF h = k THEN Tail(queue[k]) ELSE queue[h]
    BY <1>6, <2>1 DEF TakeFromQueue, Typed
  <2>6. UNCHANGED log
    BY <1>6 DEF TakeFromQueue
  <2> QED BY <2>1, <2>3, <2>4, <2>5, <2>6 DEF OwnKind
<1>7. ASSUME NEW k \in Kinds, Retry(k) PROVE OwnKind'
  <2>1. ToSet(Append(Tail(queue[k]), Head(queue[k]))) = ToSet(queue[k])
    BY <1>7, QueueHead DEF Retry
  <2>2. \A h \in Kinds : ToSet(queue'[h]) = ToSet(queue[h])
    BY <1>7, <2>1 DEF Retry, Typed
  <2> QED BY <1>7, <2>2 DEF Retry, OwnKind
<1>8. ASSUME NEW th \in Threads, RegistryWrite(th) PROVE OwnKind'
  <2>1. \A u \in Threads : job'[u] = IF u = th THEN Idle ELSE job[u]
    BY <1>8, WriteType DEF RegistryWrite
  <2> QED BY <1>8, <2>1 DEF RegistryWrite, OwnKind, Threads
<1>9. ASSUME NEW w \in Pool, NEW c \in Configs, TakeUnit(w, c) PROVE OwnKind'
  <2>1. \A h \in Kinds : job'[h] = job[h]
    BY <1>9, Assumed DEF TakeUnit, Read, Typed
  <2> QED BY <1>9, <2>1 DEF TakeUnit, OwnKind
<1>10. ASSUME NEW c \in Configs, FailUnit(c) PROVE OwnKind'
  BY <1>10 DEF FailUnit, OwnKind
<1>11. CASE InitialSyncDone
  BY <1>11 DEF InitialSyncDone, OwnKind
<1>12. CASE Restart
  <2>1. \A k \in Kinds :
           ToSet(queue'[k]) = {c \in Configs : KindOf[c] = k /\ api[c].phase # "absent"}
    BY <1>12, RestartForm
  <2>2. log' = [k \in Kinds |-> <<>>] /\ job' = [th \in Threads |-> Idle]
    BY <1>12 DEF Restart
  <2> QED BY <2>1, <2>2, ToSetEmpty DEF OwnKind, Threads
<1> QED
  BY <1>1, <1>2, <1>3, <1>4, <1>5, <1>6, <1>7, <1>8, <1>9, <1>10, <1>11, <1>12, StepForms

LEMMA OwnKindAlways == Spec => []OwnKind
<1>1. Init => OwnKind
  <2> SUFFICES ASSUME Init PROVE OwnKind
    OBVIOUS
  <2>1. /\ log = [k \in Kinds |-> <<>>] /\ queue = [k \in Kinds |-> <<>>]
        /\ job = [th \in Threads |-> Idle]
    BY DEF Init
  <2> QED BY <2>1, ToSetEmpty DEF OwnKind, Threads
<1>2. Typed /\ OwnKind /\ [Next]_vars => OwnKind'
  BY OwnKindNext
<1> QED BY <1>1, <1>2, TypedAlways, PTL DEF Spec

-----------------------------------------------------------------------------
\* What is cached of c, together with the events still to come, ends in what the
\* API server holds.
Follows(events, c, cached, current) ==
    \/ cached = current /\ \A i \in 1 .. Len(events) : events[i].cfg # c
    \/ \E i \in 1 .. Len(events) :
          /\ events[i].cfg = c /\ events[i].state = current
          /\ \A j \in 1 .. Len(events) : j > i => events[j].cfg # c

CacheFollows == \A c \in Configs : Follows(log[KindOf[c]], c, cache[c], api[c])

LEMMA FollowsAppend ==
    ASSUME NEW events \in Seq(Event), NEW ev \in Event, NEW c, NEW cached, NEW current,
           Follows(events, c, cached, current)
    PROVE  Follows(Append(events, ev), c, cached, IF ev.cfg = c THEN ev.state ELSE current)
<1> DEFINE p == Append(events, ev)
           n == Len(events)
<1>1. /\ n \in Nat /\ Len(p) = n + 1 /\ p[n + 1] = ev
      /\ \A i \in 1 .. n : p[i] = events[i]
  OBVIOUS
<1> HIDE DEF p
<1>2. CASE ev.cfg = c
  <2>1. n + 1 \in 1 .. Len(p) /\ p[n + 1].cfg = c /\ p[n + 1].state = ev.state
    BY <1>1, <1>2
  <2>2. \A j \in 1 .. Len(p) : ~(j > n + 1)
    BY <1>1
  <2>3. Follows(p, c, cached, ev.state)
    BY <2>1, <2>2 DEF Follows
  <2> QED BY <1>2, <2>3 DEF p
<1>3. CASE ev.cfg # c
  <2>1. CASE cached = current /\ \A i \in 1 .. n : events[i].cfg # c
    <3>1. \A i \in 1 .. Len(p) : p[i].cfg # c
      BY <1>1, <1>3, <2>1
    <3> QED BY <1>3, <2>1, <3>1 DEF Follows, p
  <2>2. CASE \E i \in 1 .. n : /\ events[i].cfg = c /\ events[i].state = current
                               /\ \A j \in 1 .. n : j > i => events[j].cfg # c
    <3>1. PICK i \in 1 .. n : /\ events[i].cfg = c /\ events[i].state = current
                              /\ \A j \in 1 .. n : j > i => events[j].cfg # c
      BY <2>2
    <3>2. i \in 1 .. Len(p) /\ p[i].cfg = c /\ p[i].state = current
      BY <1>1, <3>1
    <3>3. \A j \in 1 .. Len(p) : j > i => p[j].cfg # c
      BY <1>1, <1>3, <3>1
    <3>4. Follows(p, c, cached, current)
      BY <3>2, <3>3 DEF Follows
    <3> QED BY <1>3, <3>4 DEF p
  <2> QED BY <2>1, <2>2 DEF Follows
<1> QED BY <1>2, <1>3

LEMMA FollowsTail ==
    ASSUME NEW events \in Seq(Event), events # <<>>, NEW c, NEW cached, NEW current,
           Follows(events, c, cached, current)
    PROVE  Follows(Tail(events), c, IF Head(events).cfg = c THEN Head(events).state ELSE cached,
                   current)
<1> DEFINE p == Tail(events)
           n == Len(events)
           h == Head(events)
<1>1. /\ n \in Nat /\ n >= 1 /\ Len(p) = n - 1 /\ events[1] = h
      /\ \A i \in 1 .. Len(p) : p[i] = events[i + 1]
  OBVIOUS
<1> HIDE DEF p, h
<1>2. CASE cached = current /\ \A i \in 1 .. n : events[i].cfg # c
  <2>1. h.cfg # c /\ \A i \in 1 .. Len(p) : p[i].cfg # c
    BY <1>1, <1>2
  <2> QED BY <1>2, <2>1 DEF Follows, p, h
<1>3. CASE \E i \in 1 .. n : /\ events[i].cfg = c /\ events[i].state = current
                             /\ \A j \in 1 .. n : j > i => events[j].cfg # c
  <2>1. PICK i \in 1 .. n : /\ events[i].cfg = c /\ events[i].state = current
                            /\ \A j \in 1 .. n : j > i => events[j].cfg # c
    BY <1>3
  <2>2. CASE i = 1
    <3>1. h.cfg = c /\ h.state = current
      BY <1>1, <2>1, <2>2
    <3>2. \A j \in 1 .. Len(p) : p[j].cfg # c
      BY <1>1, <2>1, <2>2
    <3> QED BY <3>1, <3>2 DEF Follows, p, h
  <2>3. CASE i # 1
    <3>1. i - 1 \in 1 .. Len(p) /\ p[i - 1].cfg = c /\ p[i - 1].state = current
      BY <1>1, <2>1, <2>3
    <3>2. \A j \in 1 .. Len(p) : j > i - 1 => p[j].cfg # c
      BY <1>1, <2>1
    <3>3. \A x : Follows(p, c, x, current)
      BY <3>1, <3>2 DEF Follows
    <3> QED BY <3>3 DEF p, h
  <2> QED BY <2>2, <2>3
<1> QED BY <1>2, <1>3 DEF Follows

LEMMA CacheFollowsNext ==
    ASSUME Typed, OwnKind, CacheFollows, [Next]_vars
    PROVE  CacheFollows'
<1>1. CASE UNCHANGED <<log, cache, api>>
  BY <1>1 DEF CacheFollows
<1>2. ASSUME NEW c \in Configs, NEW state \in Written, ConfigWrite(c, state) PROVE CacheFollows'
  <2> DEFINE ev == [cfg |-> c, state |-> state]
  <2>1. /\ \A d \in Configs : api'[d] = IF d = c THEN state ELSE api[d]
        /\ \A h \in Kinds : log'[h] = IF h = KindOf[c] THEN Append(log[h], ev) ELSE log[h]
        /\ ev \in Event /\ ev.cfg = c /\ ev.state = state
    BY <1>2, WriteConfigForm DEF ConfigWrite
  <2> HIDE DEF ev
  <2>2. UNCHANGED cache
    BY <1>2 DEF ConfigWrite
  <2>3. ASSUME NEW d \in Configs PROVE Follows(log'[KindOf[d]], d, cache'[d], api'[d])
    <3>1. KindOf[d] \in Kinds /\ KindOf[c] \in Kinds
      BY Assumed
    <3>2. log[KindOf[d]] \in Seq(Event) /\ Follows(log[KindOf[d]], d, cache[d], api[d])
      BY <3>1 DEF Typed, CacheFollows
    <3>3. Follows(Append(log[KindOf[d]], ev), d, cache[d], IF ev.cfg = d THEN ev.state ELSE api[d])
      BY <2>1, <3>2, FollowsAppend
    <3> QED BY <2>1, <2>2, <3>1, <3>2, <3>3
  <2> QED BY <2>3 DEF CacheFollows
<1>3. ASSUME NEW k \in Kinds, Deliver(k) PROVE CacheFollows'
  <2> DEFINE ev == Head(log[k])
  <2>1. /\ log[k] # <<>> /\ log[k] \in Seq(Event)
        /\ \A d \in Configs : cache'[d] = IF d = ev.cfg THEN ev.state ELSE cache[d]
        /\ \A h \in Kinds : log'[h] = IF h = k THEN Tail(log[k]) ELSE log[h]
    BY <1>3, DeliverForm
  <2>2. ToSet(log[k]) = ToSet(Tail(log[k])) \cup {ev}
    BY <2>1, ToSetTail
  <2>3. KindOf[ev.cfg] = k
    BY <2>2 DEF OwnKind
  <2>4. UNCHANGED api
    BY <1>3 DEF Deliver
  <2>5. ASSUME NEW d \in Configs PROVE Follows(log'[KindOf[d]], d, cache'[d], api'[d])
    <3>1. KindOf[d] \in Kinds /\ Follows(log[KindOf[d]], d, cache[d], api[d])
      BY Assumed DEF CacheFollows
    <3>2. CASE KindOf[d] # k
      BY <2>1, <2>3, <2>4, <3>1, <3>2
    <3>3. CASE KindOf[d] = k
      <4>1. Follows(Tail(log[k]), d, IF ev.cfg = d THEN ev.state ELSE cache[d], api[d])
        BY <2>1, <3>1, <3>3, FollowsTail
      <4> QED BY <2>1, <2>4, <3>3, <4>1
    <3> QED BY <3>2, <3>3
  <2> QED BY <2>5 DEF CacheFollows
<1>4. CASE Restart
  <2>1. cache' = api /\ log' = [k \in Kinds |-> <<>>] /\ UNCHANGED api
    BY <1>4 DEF Restart
  <2>2. \A c \in Configs : log'[KindOf[c]] = <<>>
    BY <2>1, Assumed
  <2>3. \A x, y : Follows(<<>>, x, y, y)
    BY DEF Follows
  <2> QED BY <2>1, <2>2, <2>3 DEF CacheFollows
<1> QED BY <1>1, <1>2, <1>3, <1>4, StepForms DEF vars, ManagerSees, ChangeTarget, TakeFromQueue,
       Retry, RegistryWrite, TakeUnit, FailUnit, InitialSyncDone

LEMMA CacheFollowsAlways == Spec => []CacheFollows
<1>1. Init => CacheFollows
  <2> SUFFICES ASSUME Init PROVE CacheFollows
    OBVIOUS
  <2>1. cache = api /\ log = [k \in Kinds |-> <<>>]
    BY DEF Init
  <2>2. \A x, y : Follows(<<>>, x, y, y)
    BY DEF Follows
  <2> QED BY <2>1, <2>2, Assumed DEF CacheFollows
<1>2. Typed /\ OwnKind /\ CacheFollows /\ [Next]_vars => CacheFollows'
  BY CacheFollowsNext
<1> QED BY <1>1, <1>2, TypedAlways, OwnKindAlways, PTL DEF Spec

-----------------------------------------------------------------------------
\* While the replica syncs nothing is on its way to it; once it is ready the
\* sync is over.
SyncAtRest ==
    /\ phase = "syncing" => \A k \in Kinds : log[k] = <<>>
    /\ phase = "ready" => syncLeft = {} /\ ~syncErr /\ \A w \in Pool : job[w] = Idle

LEMMA SyncAtRestNext ==
    ASSUME QuietSync, Typed, SyncAtRest, [Next]_vars
    PROVE  SyncAtRest'
<1>0. Pool \subseteq Threads /\ Kinds \subseteq Threads /\ Pool \cap Kinds = {}
  BY Assumed DEF Threads
<1>1. CASE UNCHANGED <<phase, log, syncLeft, syncErr, job>>
  BY <1>1 DEF SyncAtRest
<1>2. ASSUME NEW c \in Configs, NEW state \in Written, ConfigWrite(c, state) PROVE SyncAtRest'
  <2>1. phase = "ready" /\ UNCHANGED <<phase, syncLeft, syncErr, job>>
    BY <1>2 DEF ConfigWrite
  <2> QED BY <2>1 DEF SyncAtRest
<1>3. ASSUME NEW k \in Kinds, Deliver(k) PROVE SyncAtRest'
  <2>1. log[k] # <<>> /\ UNCHANGED <<phase, syncLeft, syncErr, job>>
    BY <1>3 DEF Deliver
  <2>2. phase = "ready"
    BY <2>1 DEF SyncAtRest, Typed
  <2> QED BY <2>1, <2>2 DEF SyncAtRest
<1>4. ASSUME NEW k \in Kinds, TakeFromQueue(k) PROVE SyncAtRest'
  <2>1. \A w \in Pool : job'[w] = job[w]
    BY <1>0, <1>4 DEF TakeFromQueue, Read, Typed
  <2> QED BY <1>4, <2>1 DEF TakeFromQueue, SyncAtRest
<1>5. ASSUME NEW th \in Threads, RegistryWrite(th) PROVE SyncAtRest'
  <2>1. \A w \in Pool : job'[w] = Idle \/ job'[w] = job[w]
    BY <1>0, <1>5, WriteType DEF RegistryWrite
  <2> QED BY <1>5, <2>1 DEF RegistryWrite, SyncAtRest
<1>6. ASSUME NEW w \in Pool, NEW c \in Configs, TakeUnit(w, c) PROVE SyncAtRest'
  BY <1>6 DEF TakeUnit, SyncAtRest
<1>7. ASSUME NEW c \in Configs, FailUnit(c) PROVE SyncAtRest'
  BY <1>7 DEF FailUnit, SyncAtRest
<1>8. CASE InitialSyncDone
  <2>1. /\ phase = "syncing" /\ syncLeft = {} /\ \A w \in Pool : job[w] = Idle
        /\ UNCHANGED <<log, job>>
    BY <1>8 DEF InitialSyncDone
  <2>2. CASE syncErr
    BY <1>8, <2>1, <2>2 DEF InitialSyncDone, SyncAtRest
  <2>3. CASE ~syncErr
    BY <1>8, <2>1, <2>3 DEF InitialSyncDone, SyncAtRest
  <2> QED BY <2>2, <2>3
<1>9. CASE Restart
  BY <1>9 DEF Restart, SyncAtRest
<1> QED BY <1>1, <1>2, <1>3, <1>4, <1>5, <1>6, <1>7, <1>8, <1>9, StepForms
       DEF vars, ManagerSees, ChangeTarget, Retry

LEMMA SyncAtRestAlways == QuietSync => (Spec => []SyncAtRest)
<1> SUFFICES ASSUME QuietSync PROVE Spec => []SyncAtRest
  OBVIOUS
<1>1. Init => SyncAtRest
  BY DEF Init, SyncAtRest, Threads
<1>2. Typed /\ SyncAtRest /\ [Next]_vars => SyncAtRest'
  BY SyncAtRestNext
<1> QED BY <1>1, <1>2, TypedAlways, PTL DEF Spec

-----------------------------------------------------------------------------
Queued(c) == c \in ToSet(queue[KindOf[c]])

\* A reconcile works on what the cache still holds, or its config is queued again.
JobsCurrent ==
    \A th \in Threads : job[th] # Idle =>
        job[th].read = cache[job[th].cfg] \/ (th \in Kinds /\ Queued(job[th].cfg))

\* Only a reconcile takes a config out of the queue.
LEMMA QueueStep ==
    ASSUME Typed, [Next]_vars
    PROVE  \/ \E k \in Kinds : TakeFromQueue(k)
           \/ Restart
           \/ \A k \in Kinds : ToSet(queue[k]) \subseteq ToSet(queue'[k])
<1>1. CASE UNCHANGED queue
  BY <1>1
<1>2. ASSUME NEW k \in Kinds, NEW t \in Targets, NEW s \in Rules \cup {None}, ChangeTarget(k, t, s)
      PROVE  \A h \in Kinds : ToSet(queue[h]) \subseteq ToSet(queue'[h])
  BY <1>2, ChangeTargetForm
<1>3. ASSUME NEW k \in Kinds, Deliver(k)
      PROVE  \A h \in Kinds : ToSet(queue[h]) \subseteq ToSet(queue'[h])
  BY <1>3, DeliverForm
<1>4. ASSUME NEW k \in Kinds, Retry(k)
      PROVE  \A h \in Kinds : ToSet(queue[h]) \subseteq ToSet(queue'[h])
  <2>1. ToSet(Append(Tail(queue[k]), Head(queue[k]))) = ToSet(queue[k])
    BY <1>4, QueueHead DEF Retry
  <2> QED BY <1>4, <2>1 DEF Retry, Typed
<1> QED BY <1>1, <1>2, <1>3, <1>4, StepForms DEF vars, ConfigWrite, ManagerSees, RegistryWrite,
       TakeUnit, FailUnit, InitialSyncDone

\* A controller that takes a config leaves the others where they are.
LEMMA TakeForm ==
    ASSUME Typed, NEW k \in Kinds, TakeFromQueue(k)
    PROVE  /\ Head(queue[k]) \in Configs /\ k \in Threads /\ job[k] = Idle
           /\ job'[k].cfg = Head(queue[k]) /\ job'[k].read = cache[Head(queue[k])]
           /\ job'[k] # Idle
           /\ cache[Head(queue[k])].phase = "live"
                => job'[k].schema = schema[KindOf[Head(queue[k])]][cache[Head(queue[k])].target]
           /\ \A u \in Threads : u # k => job'[u] = job[u]
           /\ \A h \in Kinds : h # k => queue'[h] = queue[h]
           /\ ToSet(queue[k]) = ToSet(queue'[k]) \cup {Head(queue[k])}
<1> DEFINE c == Head(queue[k])
<1>1. /\ c \in Configs /\ Tail(queue[k]) \in Seq(Configs)
      /\ ToSet(queue[k]) = ToSet(Tail(queue[k])) \cup {c}
  BY QueueHead DEF TakeFromQueue
<1>2. k \in Threads
  BY DEF Threads
<1>3. Read(k, c)
  BY DEF TakeFromQueue
<1>4. \A h \in Kinds : queue'[h] = IF h = k THEN Tail(queue[k]) ELSE queue[h]
  BY <1>1 DEF TakeFromQueue, Typed
<1> HIDE DEF c
<1>5. /\ job'[k] \in Job /\ job'[k].cfg = c /\ job'[k].read = cache[c]
      /\ cache[c].phase = "live" => job'[k].schema = schema[KindOf[c]][cache[c].target]
  BY <1>1, <1>2, <1>3, ReadType
<1>6. job'[k] # Idle
  BY <1>5, IdleIsNoJob
<1>7. job[k] = Idle /\ \A u \in Threads : u # k => job'[u] = job[u]
  BY <1>3 DEF Read, Typed
<1>8. \A h \in Kinds : h # k => queue'[h] = queue[h]
  BY <1>4
<1>9. ToSet(queue[k]) = ToSet(queue'[k]) \cup {c}
  BY <1>1, <1>4
<1> QED BY <1>1, <1>2, <1>5, <1>6, <1>7, <1>8, <1>9 DEF c

LEMMA UnitForm ==
    ASSUME Typed, NEW w \in Pool, NEW c \in Configs, TakeUnit(w, c)
    PROVE  /\ w \in Threads /\ job[w] = Idle
           /\ job'[w].cfg = c /\ job'[w].read = cache[c] /\ job'[w] # Idle
           /\ cache[c].phase = "live" => job'[w].schema = schema[KindOf[c]][cache[c].target]
           /\ \A u \in Threads : u # w => job'[u] = job[u]
<1>1. w \in Threads
  BY DEF Threads
<1>2. Read(w, c)
  BY DEF TakeUnit
<1>3. /\ job'[w] \in Job /\ job'[w].cfg = c /\ job'[w].read = cache[c]
      /\ cache[c].phase = "live" => job'[w].schema = schema[KindOf[c]][cache[c].target]
  BY <1>1, <1>2, ReadType
<1>4. job'[w] # Idle
  BY <1>3, IdleIsNoJob
<1>5. job[w] = Idle /\ \A u \in Threads : u # w => job'[u] = job[u]
  BY <1>2 DEF Read, Typed
<1> QED BY <1>1, <1>3, <1>4, <1>5

LEMMA JobsCurrentNext ==
    ASSUME Typed, OwnKind, SyncAtRest, JobsCurrent, [Next]_vars
    PROVE  JobsCurrent'
<1>1. ASSUME UNCHANGED <<cache, job>>, \A k \in Kinds : ToSet(queue[k]) \subseteq ToSet(queue'[k])
      PROVE  JobsCurrent'
  <2> SUFFICES ASSUME NEW th \in Threads, job[th] # Idle, th \in Kinds, Queued(job[th].cfg)
               PROVE  Queued(job[th].cfg)'
    BY <1>1 DEF JobsCurrent, Queued
  <2>1. KindOf[job[th].cfg] \in Kinds
    BY JobFields, Assumed
  <2> QED BY <1>1, <2>1 DEF Queued
<1>2. ASSUME NEW k \in Kinds, Deliver(k) PROVE JobsCurrent'
  <2> DEFINE ev == Head(log[k])
  <2>1. /\ log[k] # <<>> /\ log[k] \in Seq(Event) /\ ev.cfg \in Configs
        /\ \A d \in Configs : cache'[d] = IF d = ev.cfg THEN ev.state ELSE cache[d]
        /\ \A h \in Kinds : ToSet(queue'[h]) = IF h = k THEN ToSet(queue[k]) \cup {ev.cfg}
                                               ELSE ToSet(queue[h])
    BY <1>2, DeliverForm
  <2>2. ToSet(log[k]) = ToSet(Tail(log[k])) \cup {ev}
    BY <2>1, ToSetTail
  <2>3. KindOf[ev.cfg] = k
    BY <2>2 DEF OwnKind
  <2> HIDE DEF ev
  <2>4. phase = "ready"
    BY <2>1 DEF SyncAtRest, Typed
  <2>5. UNCHANGED job
    BY <1>2 DEF Deliver
  <2> SUFFICES ASSUME NEW th \in Threads, job[th] # Idle
               PROVE  \/ job[th].read = cache'[job[th].cfg]
                      \/ th \in Kinds /\ job[th].cfg \in ToSet(queue'[KindOf[job[th].cfg]])
    BY <2>5 DEF JobsCurrent, Queued
  <2>6. th \in Kinds
    BY <2>4 DEF SyncAtRest, Threads
  <2>7. job[th].cfg \in Configs /\ KindOf[job[th].cfg] = th
    BY <2>6, JobFields DEF OwnKind
  <2>8. job[th].read = cache[job[th].cfg] \/ job[th].cfg \in ToSet(queue[th])
    BY <2>7 DEF JobsCurrent, Queued
  <2> QED BY <2>1, <2>3, <2>6, <2>7, <2>8
<1>3. ASSUME NEW k \in Kinds, TakeFromQueue(k) PROVE JobsCurrent'
  <2>1. UNCHANGED cache
    BY <1>3 DEF TakeFromQueue
  <2> SUFFICES ASSUME NEW th \in Threads, job'[th] # Idle
               PROVE  \/ job'[th].read = cache[job'[th].cfg]
                      \/ th \in Kinds /\ job'[th].cfg \in ToSet(queue'[KindOf[job'[th].cfg]])
    BY <2>1 DEF JobsCurrent, Queued
  <2>2. CASE th = k
    BY <1>3, <2>2, TakeForm
  <2>3. CASE th # k
    <3>1. job'[th] = job[th] /\ job[th] # Idle
      BY <1>3, <2>3, TakeForm
    <3>2. job[th].read = cache[job[th].cfg] \/ (th \in Kinds /\ Queued(job[th].cfg))
      BY <3>1 DEF JobsCurrent
    <3>3. th \in Kinds => KindOf[job[th].cfg] = th /\ queue'[th] = queue[th]
      BY <1>3, <2>3, <3>1, TakeForm DEF OwnKind
    <3> QED BY <3>1, <3>2, <3>3 DEF Queued
  <2> QED BY <2>2, <2>3
<1>4. ASSUME NEW th \in Threads, RegistryWrite(th) PROVE JobsCurrent'
  <2>1. \A u \in Threads : job'[u] = IF u = th THEN Idle ELSE job[u]
    BY <1>4, WriteType DEF RegistryWrite
  <2> QED BY <1>4, <2>1 DEF RegistryWrite, JobsCurrent, Queued
<1>5. ASSUME NEW w \in Pool, NEW c \in Configs, TakeUnit(w, c) PROVE JobsCurrent'
  <2>1. UNCHANGED <<cache, queue>>
    BY <1>5 DEF TakeUnit
  <2> QED BY <1>5, <2>1, UnitForm DEF JobsCurrent, Queued
<1>6. CASE Restart
  BY <1>6 DEF Restart, JobsCurrent
<1>7. CASE UNCHANGED <<cache, job>> /\ ~Restart /\ ~\E k \in Kinds : TakeFromQueue(k)
  BY <1>1, <1>7, QueueStep
<1> QED BY <1>2, <1>3, <1>4, <1>5, <1>6, <1>7, StepForms
       DEF vars, ConfigWrite, ManagerSees, ChangeTarget, Retry, FailUnit, InitialSyncDone

LEMMA JobsCurrentAlways == QuietSync => (Spec => []JobsCurrent)
<1> SUFFICES ASSUME QuietSync PROVE Spec => []JobsCurrent
  OBVIOUS
<1>1. Init => JobsCurrent
  BY DEF Init, JobsCurrent
<1>2. Typed /\ OwnKind /\ SyncAtRest /\ JobsCurrent /\ [Next]_vars => JobsCurrent'
  BY JobsCurrentNext
<1> QED BY <1>1, <1>2, TypedAlways, OwnKindAlways, SyncAtRestAlways, PTL DEF Spec

-----------------------------------------------------------------------------
\* The registry says what the cache and the target's schema say of c.
Reflected(c) ==
    /\ registry[cache[c].target].cfg # None
    /\ schema[KindOf[c]][cache[c].target] = cache[c].rules
         => registry[cache[c].target] = [cfg |-> c, rules |-> cache[c].rules]

\* A reconcile of c has read what the cache and the target's schema still say.
BeingRead(c) ==
    \E th \in Threads :
        /\ job[th] # Idle /\ job[th].cfg = c /\ job[th].read = cache[c]
        /\ job[th].schema = schema[KindOf[c]][cache[c].target]

\* No live config is lost from sight.
NothingLost ==
    \A c \in Configs : cache[c].phase = "live" =>
        Queued(c) \/ c \in syncLeft \/ syncErr \/ BeingRead(c) \/ Reflected(c)

\* A reconcile of c that has read what the cache holds leaves c reflected, if it
\* was before or if the schema is what the reconcile read.
LEMMA OwnWriteReflects ==
    ASSUME Typed, NEW th \in Threads, RegistryWrite(th), NEW c \in Configs,
           cache[c].phase = "live", job[th].cfg = c, job[th].read = cache[c],
           Reflected(c) \/ job[th].schema = schema[KindOf[c]][cache[c].target]
    PROVE  Reflected(c)'
<1> DEFINE j == job[th]
           t == cache[c].target
           rules == cache[c].rules
           new == IF j.schema = rules THEN [cfg |-> c, rules |-> rules]
                  ELSE IF registry[t].rules # None THEN registry[t] ELSE [cfg |-> c, rules |-> None]
<1>1. j # Idle /\ registry' = written(th) /\ UNCHANGED <<cache, schema>>
  BY DEF RegistryWrite, Write
<1>2. t \in Targets /\ rules \in Rules /\ registry' = [registry EXCEPT ![t] = new]
  BY <1>1, WrittenEntry
<1>3. registry[t] \in Entry /\ (registry[t].rules # None => registry[t].cfg # None)
  BY <1>2 DEF Typed
<1>4. registry'[t] = new
  <2> HIDE DEF new
  <2> QED BY <1>2 DEF Typed
<1>5. c # None /\ None \notin Rules
  BY Assumed
<1>6. new.cfg # None
  BY <1>3, <1>5
<1>7. schema[KindOf[c]][t] = rules => new = [cfg |-> c, rules |-> rules]
  <2> SUFFICES ASSUME schema[KindOf[c]][t] = rules, j.schema # rules
               PROVE  new = [cfg |-> c, rules |-> rules]
    OBVIOUS
  <2>1. registry[t] = [cfg |-> c, rules |-> rules]
    BY DEF Reflected
  <2>2. registry[t].rules # None
    BY <1>2, <1>5, <2>1
  <2> QED BY <2>1, <2>2
<1> HIDE DEF new
<1> QED BY <1>1, <1>4, <1>6, <1>7 DEF Reflected

\* A reconcile of another config does not touch the name.
LEMMA OtherWriteSpares ==
    ASSUME Typed, Exclusive, NEW th \in Threads, RegistryWrite(th), NEW c \in Configs,
           cache[c].phase = "live", job[th].cfg # c
    PROVE  registry'[cache[c].target] = registry[cache[c].target]
<1> DEFINE j == job[th]
           t == cache[c].target
<1>1. j # Idle /\ registry' = written(th)
  BY DEF RegistryWrite, Write
<1>2. j.cfg \in Configs /\ j.read \in Written /\ j.remove \in Targets \cup {None}
  BY <1>1, JobFields
<1>3. t \in Targets
  BY WrittenFields DEF Typed
<1>4. Tied(c, t)
  BY DEF Tied
<1>5. ~Tied(j.cfg, t)
  BY <1>2, <1>3, <1>4 DEF Exclusive
<1>6. j.read.target # t /\ j.remove # t
  BY <1>1, <1>5 DEF Tied
<1>7. CASE j.read.phase = "live"
  <2>1. PICK e : registry' = [registry EXCEPT ![j.read.target] = e]
    BY <1>1, <1>7, WrittenEntry
  <2> HIDE DEF j, t
  <2>2. registry'[t] = registry[t]
    BY <1>3, <1>6, <2>1 DEF Typed
  <2> QED BY <2>2 DEF t
<1>8. CASE j.read.phase # "live"
  <2>1. registry' = IF j.remove # None THEN [registry EXCEPT ![j.remove] = NoEntry] ELSE registry
    BY <1>1, <1>8, WrittenEntry
  <2> HIDE DEF j, t
  <2>2. registry'[t] = registry[t]
    BY <1>3, <1>6, <2>1 DEF Typed
  <2> QED BY <2>2 DEF t
<1> QED BY <1>7, <1>8

LEMMA NothingLostNext ==
    ASSUME Typed, Exclusive, OwnKind, JobsCurrent, NothingLost, [Next]_vars
    PROVE  NothingLost'
<1> DEFINE Known(c) == Queued(c) \/ c \in syncLeft \/ syncErr \/ BeingRead(c) \/ Reflected(c)
<1>0. \A c \in Configs : KindOf[c] \in Kinds /\ (cache[c].phase = "live" => Known(c))
  BY Assumed DEF NothingLost
<1>1. ASSUME UNCHANGED <<cache, schema, job, registry, syncLeft, syncErr>>,
             \A k \in Kinds : ToSet(queue[k]) \subseteq ToSet(queue'[k])
      PROVE  NothingLost'
  <2>1. ASSUME NEW c \in Configs, cache'[c].phase = "live" PROVE Known(c)'
    <3>1. Known(c) /\ KindOf[c] \in Kinds
      BY <1>0, <1>1, <2>1
    <3>2. Queued(c) => Queued(c)'
      BY <1>1, <3>1 DEF Queued
    <3>3. (BeingRead(c) => BeingRead(c)') /\ (Reflected(c) => Reflected(c)')
      BY <1>1 DEF BeingRead, Reflected
    <3> QED BY <1>1, <3>1, <3>2, <3>3
  <2> QED BY <2>1 DEF NothingLost
<1>2. ASSUME NEW k \in Kinds, NEW t \in Targets, NEW s \in Rules \cup {None}, ChangeTarget(k, t, s)
      PROVE  NothingLost'
  <2>1. /\ \A h \in Kinds, u \in Targets : h # k \/ u # t => schema'[h][u] = schema[h][u]
        /\ \A h \in Kinds : ToSet(queue'[h]) = IF h = k THEN ToSet(queue[k]) \cup Mapped(k, t)
                                               ELSE ToSet(queue[h])
    BY <1>2, ChangeTargetForm
  <2>2. UNCHANGED <<cache, job, registry, syncLeft, syncErr>>
    BY <1>2 DEF ChangeTarget
  <2>3. ASSUME NEW c \in Configs, cache'[c].phase = "live" PROVE Known(c)'
    <3>1. Known(c) /\ KindOf[c] \in Kinds /\ cache[c].phase = "live" /\ cache[c].target \in Targets
      BY <1>0, <2>2, <2>3, WrittenFields DEF Typed
    <3>2. CASE c \in Mapped(k, t)
      <4>1. KindOf[c] = k
        BY <3>2 DEF Mapped
      <4> QED BY <2>1, <3>2, <4>1 DEF Queued
    <3>3. CASE c \notin Mapped(k, t)
      <4>1. KindOf[c] # k \/ cache[c].target # t
        BY <3>1, <3>3 DEF Mapped
      <4>2. schema'[KindOf[c]][cache[c].target] = schema[KindOf[c]][cache[c].target]
        BY <2>1, <3>1, <4>1
      <4>3. Queued(c) => Queued(c)'
        BY <2>1, <3>1 DEF Queued
      <4>4. (BeingRead(c) => BeingRead(c)') /\ (Reflected(c) => Reflected(c)')
        BY <2>2, <4>2 DEF BeingRead, Reflected
      <4> QED BY <2>2, <3>1, <4>3, <4>4
    <3> QED BY <3>2, <3>3
  <2> QED BY <2>3 DEF NothingLost
<1>3. ASSUME NEW k \in Kinds, Deliver(k) PROVE NothingLost'
  <2> DEFINE ev == Head(log[k])
  <2>1. /\ log[k] # <<>> /\ log[k] \in Seq(Event) /\ ev.cfg \in Configs
        /\ \A d \in Configs : cache'[d] = IF d = ev.cfg THEN ev.state ELSE cache[d]
        /\ \A h \in Kinds : ToSet(queue'[h]) = IF h = k THEN ToSet(queue[k]) \cup {ev.cfg}
                                               ELSE ToSet(queue[h])
    BY <1>3, DeliverForm
  <2>2. ToSet(log[k]) = ToSet(Tail(log[k])) \cup {ev}
    BY <2>1, ToSetTail
  <2>3. KindOf[ev.cfg] = k
    BY <2>2 DEF OwnKind
  <2> HIDE DEF ev
  <2>4. UNCHANGED <<schema, job, registry, syncLeft, syncErr>>
    BY <1>3 DEF Deliver
  <2>5. ASSUME NEW c \in Configs, cache'[c].phase = "live" PROVE Known(c)'
    <3>1. CASE c = ev.cfg
      BY <2>1, <2>3, <3>1 DEF Queued
    <3>2. CASE c # ev.cfg
      <4>1. cache'[c] = cache[c] /\ Known(c) /\ KindOf[c] \in Kinds
        BY <1>0, <2>1, <2>5, <3>2
      <4>2. Queued(c) => Queued(c)'
        BY <2>1, <4>1 DEF Queued
      <4>3. (BeingRead(c) => BeingRead(c)') /\ (Reflected(c) => Reflected(c)')
        BY <2>4, <4>1 DEF BeingRead, Reflected
      <4> QED BY <2>4, <4>1, <4>2, <4>3
    <3> QED BY <3>1, <3>2
  <2> QED BY <2>5 DEF NothingLost
<1>4. ASSUME NEW th \in Threads, NEW c \in Configs, job[th] = Idle,
             job'[th] # Idle, job'[th].cfg = c, job'[th].read = cache[c],
             cache[c].phase = "live" => job'[th].schema = schema[KindOf[c]][cache[c].target],
             \A u \in Threads : u # th => job'[u] = job[u],
             \A d \in Configs : Queued(d) => d = c \/ Queued(d)',
             \A d \in Configs : d \in syncLeft => d = c \/ d \in syncLeft',
             UNCHANGED <<cache, schema, registry, syncErr>>
      PROVE  NothingLost'
  <2>1. ASSUME NEW d \in Configs, cache'[d].phase = "live" PROVE Known(d)'
    <3>1. CASE d = c
      <4>1. BeingRead(c)'
        BY <1>4, <2>1, <3>1 DEF BeingRead
      <4> QED BY <3>1, <4>1
    <3>2. CASE d # c
      <4>1. Known(d)
        BY <1>0, <1>4, <2>1
      <4>2. BeingRead(d) => BeingRead(d)'
        BY <1>4 DEF BeingRead
      <4>3. Reflected(d) => Reflected(d)'
        BY <1>4 DEF Reflected
      <4> QED BY <1>4, <3>2, <4>1, <4>2, <4>3
    <3> QED BY <3>1, <3>2
  <2> QED BY <2>1 DEF NothingLost
<1>5. ASSUME NEW k \in Kinds, TakeFromQueue(k) PROVE NothingLost'
  <2> DEFINE c == Head(queue[k])
  <2>1. /\ c \in Configs /\ k \in Threads /\ job[k] = Idle /\ job'[k] # Idle
        /\ job'[k].cfg = c /\ job'[k].read = cache[c]
        /\ cache[c].phase = "live" => job'[k].schema = schema[KindOf[c]][cache[c].target]
        /\ \A u \in Threads : u # k => job'[u] = job[u]
        /\ \A h \in Kinds : h # k => queue'[h] = queue[h]
        /\ ToSet(queue[k]) = ToSet(queue'[k]) \cup {c}
    BY <1>5, TakeForm
  <2>2. UNCHANGED <<cache, schema, registry, syncLeft, syncErr>>
    BY <1>5 DEF TakeFromQueue
  <2> HIDE DEF c
  <2>3. \A d \in Configs : Queued(d) => d = c \/ Queued(d)'
    BY <1>0, <2>1 DEF Queued
  <2> QED BY <1>4, <2>1, <2>2, <2>3
<1>6. ASSUME NEW w \in Pool, NEW c \in Configs, TakeUnit(w, c) PROVE NothingLost'
  <2>1. /\ w \in Threads /\ job[w] = Idle /\ job'[w] # Idle
        /\ job'[w].cfg = c /\ job'[w].read = cache[c]
        /\ cache[c].phase = "live" => job'[w].schema = schema[KindOf[c]][cache[c].target]
        /\ \A u \in Threads : u # w => job'[u] = job[u]
    BY <1>6, UnitForm
  <2>2. UNCHANGED <<cache, schema, registry, queue, syncErr>> /\ syncLeft' = syncLeft \ {c}
    BY <1>6 DEF TakeUnit
  <2>3. \A d \in Configs : Queued(d) => d = c \/ Queued(d)'
    BY <2>2 DEF Queued
  <2> QED BY <1>4, <2>1, <2>2, <2>3
<1>7. ASSUME NEW th \in Threads, RegistryWrite(th) PROVE NothingLost'
  <2>1. \A u \in Threads : job'[u] = IF u = th THEN Idle ELSE job[u]
    BY <1>7, WriteType DEF RegistryWrite
  <2>2. job[th] # Idle /\ UNCHANGED <<cache, schema, queue, syncLeft, syncErr>>
    BY <1>7 DEF RegistryWrite, Write
  <2>3. ASSUME NEW c \in Configs, cache'[c].phase = "live" PROVE Known(c)'
    <3>1. Known(c) /\ cache[c].phase = "live"
      BY <1>0, <2>2, <2>3
    <3>2. CASE Queued(c) \/ c \in syncLeft \/ syncErr
      BY <2>2, <3>2 DEF Queued
    <3>3. CASE BeingRead(c)
      <4>1. PICK u \in Threads : /\ job[u] # Idle /\ job[u].cfg = c /\ job[u].read = cache[c]
                                 /\ job[u].schema = schema[KindOf[c]][cache[c].target]
        BY <3>3 DEF BeingRead
      <4>2. CASE u # th
        <5>1. BeingRead(c)'
          BY <2>1, <2>2, <4>1, <4>2 DEF BeingRead
        <5> QED BY <5>1
      <4>3. CASE u = th
        <5>1. Reflected(c)'
          BY <1>7, <3>1, <4>1, <4>3, OwnWriteReflects
        <5> QED BY <5>1
      <4> QED BY <4>2, <4>3
    <3>4. CASE Reflected(c) /\ job[th].cfg = c /\ ~Queued(c)
      <4>1. job[th].read = cache[c]
        BY <2>2, <3>4 DEF JobsCurrent
      <4>2. Reflected(c)'
        BY <1>7, <3>1, <3>4, <4>1, OwnWriteReflects
      <4> QED BY <4>2
    <3>5. CASE Reflected(c) /\ job[th].cfg # c
      <4>1. registry'[cache[c].target] = registry[cache[c].target]
        BY <1>7, <3>1, <3>5, OtherWriteSpares
      <4>2. Reflected(c)'
        BY <2>2, <3>5, <4>1 DEF Reflected
      <4> QED BY <4>2
    <3> QED BY <3>1, <3>2, <3>3, <3>4, <3>5
  <2> QED BY <2>3 DEF NothingLost
<1>8. ASSUME NEW c \in Configs, FailUnit(c) PROVE NothingLost'
  BY <1>8 DEF FailUnit, NothingLost
<1>9. CASE InitialSyncDone
  <2>1. UNCHANGED <<cache, schema, job, registry, queue>>
    BY <1>9 DEF InitialSyncDone
  <2>2. CASE syncErr
    <3>1. syncLeft' = Present
      BY <1>9, <2>2 DEF InitialSyncDone
    <3> QED BY <2>1, <3>1 DEF NothingLost, Present
  <2>3. CASE ~syncErr
    BY <1>1, <1>9, <2>1, <2>3 DEF InitialSyncDone
  <2> QED BY <2>2, <2>3
<1>10. CASE Restart
  <2>1. /\ \A k \in Kinds :
             ToSet(queue'[k]) = {c \in Configs : KindOf[c] = k /\ api[c].phase # "absent"}
        /\ cache' = api
    BY <1>10, RestartForm DEF Restart
  <2> QED BY <1>0, <2>1 DEF NothingLost, Queued
<1>11. CASE UNCHANGED <<cache, schema, job, registry, syncLeft, syncErr>>
            /\ ~Restart /\ ~\E k \in Kinds : TakeFromQueue(k)
  BY <1>1, <1>11, QueueStep
<1> HIDE DEF Known
<1> QED BY <1>2, <1>3, <1>5, <1>6, <1>7, <1>8, <1>9, <1>10, <1>11, StepForms
       DEF vars, ConfigWrite, ManagerSees, Retry

LEMMA NothingLostAlways ==
    SerialAdmission /\ NamesLetGo /\ QuietSync => (Spec => []NothingLost)
<1> SUFFICES ASSUME SerialAdmission, NamesLetGo, QuietSync PROVE Spec => []NothingLost
  OBVIOUS
<1>1. Init => NothingLost
  BY DEF Init, NothingLost, Gone
<1>2. Typed /\ Exclusive /\ OwnKind /\ JobsCurrent /\ NothingLost /\ [Next]_vars => NothingLost'
  BY NothingLostNext
<1> QED BY <1>1, <1>2, TypedAlways, ExclusiveAlways, OwnKindAlways, JobsCurrentAlways, PTL DEF Spec

\* When admission sees every config, a name changes hands only once the replica
\* has let go of it and configs are not written while a replica syncs, a ready
\* replica with nothing left to do serves every live config that fits its
\* target with that config's own rules, and knows of every other one, after
\* any sequence of edits, retries, target changes and restarts
\* (QuietMeansServed).
THEOREM AtRestServed ==
    SerialAdmission /\ NamesLetGo /\ QuietSync => (Spec => []QuietMeansServed)
<1> SUFFICES ASSUME SerialAdmission, NamesLetGo, QuietSync PROVE Spec => []QuietMeansServed
  OBVIOUS
<1>1. Typed /\ CacheFollows /\ SyncAtRest /\ NothingLost => QuietMeansServed
  <2> SUFFICES ASSUME Typed, CacheFollows, SyncAtRest, NothingLost, Quiet,
                      NEW c \in Configs, api[c].phase = "live"
               PROVE  /\ registry[api[c].target].cfg # None
                      /\ schema[KindOf[c]][api[c].target] = api[c].rules
                            => registry[api[c].target] = [cfg |-> c, rules |-> api[c].rules]
    BY DEF QuietMeansServed
  <2>1. KindOf[c] \in Kinds
    BY Assumed
  <2>2. /\ log[KindOf[c]] = <<>> /\ queue[KindOf[c]] = <<>> /\ phase = "ready"
        /\ \A th \in Threads : job[th] = Idle
    BY <2>1 DEF Quiet
  <2>3. cache[c] = api[c]
    BY <2>2 DEF CacheFollows, Follows
  <2>4. ~Queued(c)
    BY <2>2, ToSetEmpty DEF Queued
  <2>5. c \notin syncLeft /\ ~syncErr
    BY <2>2 DEF SyncAtRest
  <2>6. ~BeingRead(c)
    BY <2>2 DEF BeingRead
  <2>7. Reflected(c)
    BY <2>3, <2>4, <2>5, <2>6 DEF NothingLost
  <2> QED BY <2>3, <2>7 DEF Reflected
<1> QED BY <1>1, TypedAlways, CacheFollowsAlways, SyncAtRestAlways, NothingLostAlways, PTL
=============================================================================
