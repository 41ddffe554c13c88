-------------------------------- MODULE Retarget --------------------------------
(***************************************************************************)
(* convctl retarget (internal/cli/retarget.go): list every object of the   *)
(* XRD's generated types, cut the list to --canary, and patch each one so  *)
(* that it drops its Composition pin and selects the Compositions of a     *)
(* version.  Whether an object needs the patch is decided on the listed    *)
(* copy, before the request that changes the live one.                     *)
(***************************************************************************)
EXTENDS StoredObjects

CONSTANTS RetargetOptions   \* the option records the command may be run with

VARIABLE ret

RetargetOptionType ==
    [to : Versions, dryRun : BOOLEAN, concurrency : Nat,
     canary : [unit : {"all", "count", "percent"}, n : Nat]]

(* settled: the listed copies that already select the target version.        *)
(* deleted (auxiliary): objects deleted since the command started.           *)
RetargetTypeOK ==
    ret \in [step     : {"idle", "list", "patch", "done", "error"},
             opts     : RetargetOptions,
             ref      : Versions,
             left     : SUBSET CRDs,
             selected : SUBSET Objects,
             settled  : SUBSET Objects,
             pending  : SUBSET Objects,
             failed   : SUBSET Objects,
             deleted  : SUBSET Objects]

RetargetBegin(step, opts) ==
    [step |-> step, opts |-> opts, ref |-> xrd.hub, left |-> CRDs,
     selected |-> {}, settled |-> {}, pending |-> {}, failed |-> {}, deleted |-> {}]

RetargetIdle == [RetargetBegin("idle", CHOOSE opts \in RetargetOptions : TRUE) EXCEPT !.ref = 1]

RetargetRunning == ret.step \in {"list", "patch"}

(* retargetVersionExists: --to must be a version of the XRD. *)
StartRetarget(opts) ==
    /\ ~RetargetRunning
    /\ ret' = RetargetBegin(IF opts.to \in xrd.versions THEN "list" ELSE "error", opts)
    /\ UNCHANGED clusterVars

(* retargetIsNoOp: no pin, and the selector already asks for the version. *)
retargetIsNoOp(o, to) == obj[o].pin = None /\ obj[o].selector = to

(* applyCanary: a count, or a percentage that selects at least one object    *)
(* of a non-empty population unless it is zero.                              *)
applyCanary(total, canary) ==
    LET share == (total * canary.n) \div 100 IN
    IF canary.unit = "all" THEN total
    ELSE IF canary.unit = "percent"
    THEN IF share = 0 /\ canary.n > 0 /\ total > 0 THEN 1 ELSE share
    ELSE IF canary.n > total THEN total ELSE canary.n

ListRetarget ==
    LET c == FirstOf(ret.left)
        listed == ret.selected \cup listAllByGVR(c, AllNamespaces)
        last == ret.left = {c}
        chosen == InFlight(listed, applyCanary(Cardinality(listed), ret.opts.canary))
    IN
    /\ ret.step = "list"
    /\ \/ ret' = RetargetBegin("error", ret.opts)
       \/ /\ ret.ref \in crd[c].versions
          /\ ret' = [ret EXCEPT
                !.left = @ \ {c},
                !.step = IF last THEN "patch" ELSE "list",
                !.settled = @ \cup {o \in listAllByGVR(c, AllNamespaces) :
                                      retargetIsNoOp(o, ret.opts.to)},
                !.selected = IF last THEN chosen ELSE listed,
                !.pending = IF last THEN chosen ELSE {}]
    /\ UNCHANGED clusterVars

(* Mutant: an apply that omits the pin leaves it in place. *)
retargetApply(o, to) == [obj[o] EXCEPT !.selector = to]

(* retargetPatch: a merge patch that nulls the pin whoever owns it.  A merge *)
(* patch, unlike an apply, never creates the object.                         *)
retargetPatch(o, to) == [obj[o] EXCEPT !.pin = None, !.selector = to]

retargetOne(o) ==
    /\ ret.step = "patch"
    /\ o \in InFlight(ret.pending, effectiveConcurrency(ret.opts.concurrency))
    /\ IF o \in ret.settled
       THEN ret' = [ret EXCEPT !.pending = @ \ {o}] /\ UNCHANGED clusterVars
       ELSE \/ /\ ret' = [ret EXCEPT !.pending = @ \ {o}, !.failed = @ \cup {o}]
               /\ UNCHANGED clusterVars
            \/ /\ Exists(o) /\ ret.ref \in crd[CrdOf(o)].versions
               /\ ret' = [ret EXCEPT !.pending = @ \ {o}]
               /\ obj' = IF ret.opts.dryRun THEN obj
                         ELSE [obj EXCEPT ![o] = Persisted(o, retargetPatch(o, ret.opts.to),
                                                           "convctl-retarget", ret.ref)]
               /\ UNCHANGED <<xrd, crd>>

RetargetDone ==
    /\ ret.step = "patch" /\ ret.pending = {}
    /\ ret' = [ret EXCEPT !.step = "done"]
    /\ UNCHANGED clusterVars

RetargetStep == ListRetarget \/ (\E o \in Objects : retargetOne(o)) \/ RetargetDone

-----------------------------------------------------------------------------
(* A run that reports no failure leaves every object it selected on the      *)
(* target version's Compositions: selecting them, and pinned to nothing but  *)
(* them, whatever Crossplane did with the object in between (RunRetarget).   *)
RetargetReportIsTrue ==
    ret.step = "done" /\ ret.failed = {} /\ ~ret.opts.dryRun
        => \A o \in ret.selected \ ret.deleted :
              obj[o].selector = ret.opts.to /\ obj[o].pin \in {None, ret.opts.to}
=============================================================================
