--------------------------- MODULE ConversionServer ---------------------------
(***************************************************************************)
(* The conversion endpoint of one webhook-server replica                   *)
(* (internal/webhookserver/server.go): handleConvert, step by step, for    *)
(* reviews served concurrently while the reconciler swaps the registry's   *)
(* entry of their target.  What one conversion computes is Engine's        *)
(* subject; here it succeeds, fails or panics.                             *)
(***************************************************************************)
EXTENDS Naturals, Sequences, FiniteSets

CONSTANTS
    Reviews,          \* the uids of the ConversionReviews
    Requests,         \* what a client may send: [body, objects, to]
    Plans,            \* CompiledEntries: [id, hub, versions, lossy]
    RequestTimeout,   \* --request-timeout, in ticks
    None              \* no registry entry, no uid, no request

VARIABLES
    registry,      \* Registry: the entry of the target, or None
    reviews,       \* per uid, the handler's state
    lossyTotal     \* the counter dco_webhook_lossy_conversions_total

serverVars == <<registry, reviews, lossyTotal>>

InFlight(r) == reviews[r].phase \in {"reading", "converting"}

NoReview == [phase |-> "none", request |-> None, entry |-> None, done |-> <<>>,
             hops |-> <<>>, spent |-> 0, answer |-> None]

(***************************************************************************)
(* Answers.  writeReview drops the objects of a failure; http.Error        *)
(* answers with no ConversionReview at all.                                *)
(***************************************************************************)
writeReview(uid, objects, status) ==
    [uid |-> uid, status |-> status,
     objects |-> IF status = "success" THEN objects ELSE <<>>]

httpError == [uid |-> None, status |-> "http_error", objects |-> <<>>]

\* The handler returns; its locals are kept where they were delivered.
Answer(r, answer) ==
    reviews' = [reviews EXCEPT ![r] =
        IF answer.status = "success" THEN [@ EXCEPT !.phase = "answered", !.answer = answer]
        ELSE [NoReview EXCEPT !.phase = "answered", !.answer = answer]]

FailReview(r) == Answer(r, writeReview(r, <<>>, "failure"))

(***************************************************************************)
(* The deferred recover: the answer names the uid the handler had set.     *)
(***************************************************************************)
recoverPanic(r) ==
    Answer(r, writeReview(IF reviews[r].phase = "reading" THEN None ELSE r, <<>>, "panic"))

routeLabel(hub, from, to) ==
    CASE from = to  -> "identity"
      [] from # to /\ from = hub -> "hub_to_spoke"
      [] from # to /\ from # hub /\ to = hub -> "spoke_to_hub"
      [] OTHER -> "spoke_to_spoke"

\* The hub<->spoke hops of one conversion, each with the spoke it involves.
lossyHops(hub, from, to) ==
    CASE routeLabel(hub, from, to) = "hub_to_spoke" -> <<<<"hub_to_spoke", to>>>>
      [] routeLabel(hub, from, to) = "spoke_to_hub" -> <<<<"spoke_to_hub", from>>>>
      [] routeLabel(hub, from, to) = "spoke_to_spoke" ->
           <<<<"spoke_to_hub", from>>, <<"hub_to_spoke", to>>>>
      [] OTHER -> <<>>

\* recordLossy: the hops the entry's analysis does not call lossless.
recordLossy(entry, hops) == Cardinality({i \in DOMAIN hops : hops[i] \in entry.lossy})

-----------------------------------------------------------------------------
(***************************************************************************)
(* handleConvert                                                           *)
(***************************************************************************)
\* The request arrives and the body is being read.
Open(r, request) ==
    /\ reviews' = [reviews EXCEPT ![r] = [NoReview EXCEPT !.phase = "reading", !.request = request]]
    /\ UNCHANGED <<registry, lossyTotal>>

\* The body is read: method, size, JSON and request are checked in this order,
\* then the registry is asked once for the plan the whole review will use.
Begin(r) ==
    LET body == reviews[r].request.body IN
    /\ reviews[r].phase = "reading"
    /\ UNCHANGED <<registry, lossyTotal>>
    /\ \/ /\ body \in {"not_post", "garbled", "no_request"}
          /\ Answer(r, httpError)
       \/ /\ body = "oversized"
          /\ FailReview(r)
       \/ /\ body = "review" /\ registry = None
          /\ FailReview(r)
       \/ /\ body = "review" /\ registry # None
          /\ reviews' = [reviews EXCEPT ![r].phase = "converting", ![r].entry = registry]
       \/ recoverPanic(r)

Expired(r) == reviews[r].spent >= RequestTimeout
Remaining(r) == Len(reviews[r].done) < Len(reviews[r].request.objects)

convertWith(r, entry) ==
    LET from == reviews[r].request.objects[Len(reviews[r].done) + 1]
        to == reviews[r].request.to
    IN IF from = "undecodable" THEN FailReview(r)
       ELSE \/ FailReview(r)
            \/ recoverPanic(r)
            \/ /\ from = to \/ {from, to} \subseteq entry.versions
               /\ reviews' = [reviews EXCEPT
                    ![r].done = Append(@, [from |-> from, version |-> to, plan |-> entry.id]),
                    ![r].hops = @ \o lossyHops(entry.hub, from, to)]

\* Mutant: every object is converted with the registry's current entry.
convertLatest(r) ==
    /\ reviews[r].phase = "converting" /\ Remaining(r)
    /\ UNCHANGED <<registry, lossyTotal>>
    /\ IF Expired(r) THEN FailReview(r)
       ELSE IF registry = None THEN FailReview(r)
       ELSE convertWith(r, registry)

\* One turn of the loop over the objects.
ConvertObject(r) ==
    /\ reviews[r].phase = "converting" /\ Remaining(r)
    /\ UNCHANGED <<registry, lossyTotal>>
    /\ IF Expired(r) THEN FailReview(r) ELSE convertWith(r, reviews[r].entry)

\* Mutant: the clock is looked at before an object only, never after the last.
finishUnchecked(r) ==
    /\ reviews[r].phase = "converting" /\ ~Remaining(r)
    /\ UNCHANGED registry
    /\ lossyTotal' = lossyTotal + recordLossy(reviews[r].entry, reviews[r].hops)
    /\ Answer(r, writeReview(r, reviews[r].done, "success"))

\* After the loop: the last look at the clock, the lossy hops counted, the
\* answer written.
Finish(r) ==
    /\ reviews[r].phase = "converting" /\ ~Remaining(r)
    /\ UNCHANGED registry
    /\ \/ /\ Expired(r)
          /\ FailReview(r)
          /\ UNCHANGED lossyTotal
       \/ /\ ~Expired(r)
          /\ lossyTotal' = lossyTotal + recordLossy(reviews[r].entry, reviews[r].hops)
          /\ Answer(r, writeReview(r, reviews[r].done, "success"))

\* Registry.Set and Registry.Delete, by the reconciler, at any moment.
SwapPlan(plan) ==
    /\ registry' = plan
    /\ UNCHANGED <<reviews, lossyTotal>>
=============================================================================
