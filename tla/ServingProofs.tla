----------------------------- MODULE ServingProofs -----------------------------
(***************************************************************************)
(* The conversion endpoint and the life of its pod, for any number of      *)
(* concurrent reviews, every request, plan and swap of the registry, and   *)
(* all durations: an answer is whole and from one plan, and a review is    *)
(* lost to the end of its process only after a whole drain.                *)
(***************************************************************************)
EXTENDS Serving, FiniteSetTheorems, TLAPS

(***************************************************************************)
(* Reviews                                                                 *)
(***************************************************************************)
Hop == {"hub_to_spoke", "spoke_to_hub"} \X STRING
PlanIds == {plan.id : plan \in Plans}
Converted == [from : STRING, version : STRING, plan : PlanIds]
Answers == [uid : Reviews \cup {None}, status : {"success", "failure", "panic", "http_error"},
            objects : Seq(Converted)]
ReviewType ==
    [phase : Phases, request : Requests \cup {None}, entry : Plans \cup {None},
     done : Seq(Converted), hops : Seq(Hop), spent : 0 .. RequestTimeout,
     answer : Answers \cup {None}]

(* What is done is a prefix of what was asked, at the version that was asked *)
(* for, and by the entry the review began with.                              *)
Prefix(v) ==
    /\ v.request \in Requests /\ v.entry \in Plans
    /\ Len(v.done) <= Len(v.request.objects)
    /\ \A i \in DOMAIN v.done :
         v.done[i] = [from |-> v.request.objects[i], version |-> v.request.to, plan |-> v.entry.id]

(* A success is delivered with everything done and within its budget; any    *)
(* other answer carries no object.                                           *)
Delivered(v) ==
    /\ v.answer \in Answers
    /\ IF v.answer.status = "success"
       THEN /\ Prefix(v) /\ Len(v.done) = Len(v.request.objects)
            /\ v.answer.objects = v.done /\ v.spent < RequestTimeout
       ELSE v.answer.objects = <<>>

GoodReview(v) ==
    /\ v \in ReviewType
    /\ v.phase = "reading" => v.request \in Requests /\ v.done = <<>>
    /\ v.phase = "converting" => Prefix(v)
    /\ v.phase = "answered" => Delivered(v)

(* The inductive invariant of the endpoint. *)
ReviewInv ==
    /\ reviews \in [Reviews -> ReviewType]
    /\ registry \in Plans \cup {None}
    /\ \A r \in Reviews : GoodReview(reviews[r])

\* The fields of what is done, one by one.
LEMMA PrefixFields ==
    ASSUME NEW v, Prefix(v), NEW i \in DOMAIN v.done
    PROVE  /\ v.done[i].from = v.request.objects[i]
           /\ v.done[i].version = v.request.to
           /\ v.done[i].plan = v.entry.id
<1> DEFINE f == v.request.objects[i]
           t == v.request.to
           p == v.entry.id
           d == v.done[i]
<1>1. d = [from |-> f, version |-> t, plan |-> p]
  BY DEF Prefix
<1> HIDE DEF f, t, p, d
<1>2. d.from = f /\ d.version = t /\ d.plan = p
  BY <1>1
<1> QED BY <1>2 DEF f, t, p, d

\* What is assumed of requests and of the budget.
LEMMA RequestsAssumed ==
    /\ RequestTimeout \in Nat
    /\ \A q \in Requests : q.objects \in Seq(STRING) /\ q.to \in STRING
BY ServingAssumption DEF ServingAssumption

\* A handler that has not run holds nothing.
LEMMA NoReviewGood == GoodReview(NoReview)
<1>1. NoReview \in ReviewType
  <2>1. 0 \in 0 .. RequestTimeout
    BY RequestsAssumed
  <2> QED BY <2>1 DEF NoReview, ReviewType, Phases
<1> QED BY <1>1 DEF GoodReview, NoReview

\* Nor does one whose connection was refused, cut or killed.
LEMMA EndedGood ==
    ASSUME NEW how \in {"refused", "cut", "killed"}
    PROVE  GoodReview([NoReview EXCEPT !.phase = how])
<1>1. NoReview \in ReviewType
  BY NoReviewGood DEF GoodReview
<1>2. [NoReview EXCEPT !.phase = how] \in ReviewType
  BY <1>1 DEF ReviewType, Phases
<1>3. [NoReview EXCEPT !.phase = how].phase = how
  BY DEF NoReview
<1> QED BY <1>2, <1>3 DEF GoodReview

\* One review changes into a good one: the invariant holds of all.
LEMMA OneReview ==
    ASSUME ReviewInv, NEW r \in Reviews, NEW v, GoodReview(v),
           reviews' = [reviews EXCEPT ![r] = v],
           registry' \in Plans \cup {None}
    PROVE  ReviewInv'
<1>1. v \in ReviewType
  BY DEF GoodReview
<1>2. reviews' \in [Reviews -> ReviewType]
  BY <1>1 DEF ReviewInv
<1>3. \A s \in Reviews : reviews'[s] = IF s = r THEN v ELSE reviews[s]
  BY DEF ReviewInv
<1>4. \A s \in Reviews : GoodReview(reviews'[s])
  BY <1>3 DEF ReviewInv
<1> QED BY <1>2, <1>4 DEF ReviewInv

\* Any answer but a success is good: writeReview and httpError drop the objects.
LEMMA FailureGood ==
    ASSUME NEW a \in Answers, a.status # "success", a.objects = <<>>
    PROVE  GoodReview([NoReview EXCEPT !.phase = "answered", !.answer = a])
<1> DEFINE v == [NoReview EXCEPT !.phase = "answered", !.answer = a]
<1>1. NoReview \in ReviewType
  BY NoReviewGood DEF GoodReview
<1>2. v \in ReviewType
  BY <1>1 DEF ReviewType, Phases
<1>3. v.phase = "answered" /\ v.answer = a
  BY DEF NoReview
<1> HIDE DEF v
<1>4. Delivered(v)
  BY <1>3 DEF Delivered
<1>5. GoodReview(v)
  BY <1>2, <1>3, <1>4 DEF GoodReview
<1> QED BY <1>5 DEF v

\* The handler answers something else than a success.
LEMMA AnswerFailure ==
    ASSUME ReviewInv, NEW r \in Reviews, NEW a \in Answers, a.status # "success",
           a.objects = <<>>, Answer(r, a), registry' = registry
    PROVE  ReviewInv'
<1>1. reviews' = [reviews EXCEPT ![r] = [NoReview EXCEPT !.phase = "answered", !.answer = a]]
  BY DEF Answer
<1>2. registry' \in Plans \cup {None}
  BY DEF ReviewInv
<1> QED BY <1>1, <1>2, FailureGood, OneReview

\* So it does when a call fails, and when a panic is recovered.
LEMMA FailKeeps ==
    ASSUME ReviewInv, NEW r \in Reviews, FailReview(r) \/ recoverPanic(r), registry' = registry
    PROVE  ReviewInv'
<1>0. <<>> \in Seq(Converted)
  OBVIOUS
<1>1. CASE FailReview(r)
  <2> DEFINE a == writeReview(r, <<>>, "failure")
  <2>1. a \in Answers /\ a.status # "success" /\ a.objects = <<>>
    BY <1>0 DEF writeReview, Answers
  <2>2. Answer(r, a)
    BY <1>1 DEF FailReview
  <2> HIDE DEF a
  <2> QED BY <2>1, <2>2, AnswerFailure
<1>2. CASE recoverPanic(r)
  <2> DEFINE uid == IF reviews[r].phase = "reading" THEN None ELSE r
             a == writeReview(uid, <<>>, "panic")
  <2>0. uid \in Reviews \cup {None}
    OBVIOUS
  <2>1. a \in Answers /\ a.status # "success" /\ a.objects = <<>>
    <3> HIDE DEF uid
    <3> QED BY <1>0, <2>0 DEF writeReview, Answers
  <2>2. Answer(r, a)
    BY <1>2 DEF recoverPanic
  <2> HIDE DEF a
  <2> QED BY <2>1, <2>2, AnswerFailure
<1> QED BY <1>1, <1>2

\* A pair, a sequence of one and a sequence of two.
LEMMA Pairs ==
    ASSUME NEW A, NEW B, NEW a \in A, NEW b \in B
    PROVE  <<a, b>> \in A \X B
OBVIOUS

LEMMA Short ==
    ASSUME NEW S, NEW a \in S, NEW b \in S
    PROVE  <<a>> \in Seq(S) /\ <<a, b>> \in Seq(S) /\ <<>> \in Seq(S)
OBVIOUS

\* The hops of a conversion are pairs of a direction and a version.
LEMMA HopsType ==
    ASSUME NEW hub, NEW from \in STRING, NEW to \in STRING
    PROVE  lossyHops(hub, from, to) \in Seq(Hop)
<1>1. /\ <<"hub_to_spoke", to>> \in Hop
      /\ <<"spoke_to_hub", from>> \in Hop
  BY Pairs, Zenon DEF Hop
<1>2. \/ lossyHops(hub, from, to) = <<<<"hub_to_spoke", to>>>>
      \/ lossyHops(hub, from, to) = <<<<"spoke_to_hub", from>>>>
      \/ lossyHops(hub, from, to) = <<<<"spoke_to_hub", from>>, <<"hub_to_spoke", to>>>>
      \/ lossyHops(hub, from, to) = <<>>
  BY DEF lossyHops
<1> QED BY <1>1, <1>2, Short, Zenon

\* An object converted with the review's own entry extends the prefix.
LEMMA ConvertGood ==
    ASSUME NEW v, GoodReview(v), v.phase = "converting",
           Len(v.done) < Len(v.request.objects)
    PROVE  LET from == v.request.objects[Len(v.done) + 1]
               to == v.request.to
           IN GoodReview([v EXCEPT
                !.done = Append(@, [from |-> from, version |-> to, plan |-> v.entry.id]),
                !.hops = @ \o lossyHops(v.entry.hub, from, to)])
<1> DEFINE from == v.request.objects[Len(v.done) + 1]
           to == v.request.to
           new == [from |-> from, version |-> to, plan |-> v.entry.id]
           done == Append(v.done, new)
           hops == v.hops \o lossyHops(v.entry.hub, from, to)
           w == [v EXCEPT !.done = done, !.hops = hops]
<1>1. /\ v \in ReviewType /\ Prefix(v)
      /\ v.done \in Seq(Converted) /\ v.hops \in Seq(Hop)
  BY DEF GoodReview, ReviewType
<1>2. /\ v.request \in Requests /\ v.entry \in Plans
      /\ v.request.objects \in Seq(STRING) /\ to \in STRING
  BY <1>1, RequestsAssumed DEF Prefix
<1>3. Len(v.done) + 1 \in 1 .. Len(v.request.objects)
  BY <1>1, <1>2
<1>4. from \in STRING
  BY <1>2, <1>3
<1>5. new \in Converted
  BY <1>2, <1>4 DEF Converted, PlanIds
<1>6. lossyHops(v.entry.hub, from, to) \in Seq(Hop)
  BY <1>2, <1>4, HopsType
<1>7. done \in Seq(Converted) /\ hops \in Seq(Hop)
  <2> HIDE DEF from, to, new
  <2> QED BY <1>1, <1>5, <1>6
<1>8. /\ Len(done) = Len(v.done) + 1
      /\ \A i \in DOMAIN done :
           done[i] = IF i = Len(v.done) + 1 THEN new ELSE v.done[i]
      /\ DOMAIN done = 1 .. Len(v.done) + 1 /\ DOMAIN v.done = 1 .. Len(v.done)
  <2> HIDE DEF from, to, new
  <2> QED BY <1>1, <1>5
<1>9. /\ w \in ReviewType /\ w.phase = "converting" /\ w.request = v.request
      /\ w.entry = v.entry /\ w.done = done
  <2> HIDE DEF done, hops
  <2> QED BY <1>1, <1>7 DEF ReviewType
<1>10. \A i \in DOMAIN v.done :
         v.done[i] = [from |-> v.request.objects[i], version |-> v.request.to, plan |-> v.entry.id]
  BY <1>1 DEF Prefix
<1>11. \A i \in DOMAIN done :
         done[i] = [from |-> v.request.objects[i], version |-> v.request.to, plan |-> v.entry.id]
  <2> TAKE i \in DOMAIN done
  <2>1. CASE i = Len(v.done) + 1
    <3>1. done[i] = new
      BY <1>8, <2>1
    <3> QED BY <2>1, <3>1
  <2>2. CASE i # Len(v.done) + 1
    <3>1. i \in DOMAIN v.done /\ done[i] = v.done[i]
      <4> HIDE DEF done
      <4> QED BY <1>1, <1>8, <2>2
    <3> QED BY <3>1, <1>10
  <2> QED BY <2>1, <2>2
<1>12. Prefix(w)
  <2>1. Len(done) <= Len(v.request.objects)
    <3> HIDE DEF done
    <3> QED BY <1>1, <1>2, <1>3, <1>8
  <2> HIDE DEF done, w, from, to
  <2> QED BY <2>1, <1>2, <1>9, <1>11 DEF Prefix
<1>13. GoodReview(w)
  <2> HIDE DEF w
  <2> QED BY <1>9, <1>12 DEF GoodReview
<1> QED BY <1>13

\* A turn of the loop keeps the invariant.
LEMMA ConvertObjectKeeps ==
    ASSUME ReviewInv, NEW r \in Reviews, ConvertObject(r)
    PROVE  ReviewInv'
<1> DEFINE v == reviews[r]
           from == v.request.objects[Len(v.done) + 1]
           to == v.request.to
           w == [v EXCEPT
                !.done = Append(@, [from |-> from, version |-> to, plan |-> v.entry.id]),
                !.hops = @ \o lossyHops(v.entry.hub, from, to)]
<1>1. registry' = registry /\ v.phase = "converting" /\ GoodReview(v)
      /\ Len(v.done) < Len(v.request.objects)
  BY DEF ConvertObject, ReviewInv, Remaining
<1>2. \/ FailReview(r) \/ recoverPanic(r)
      \/ reviews' = [reviews EXCEPT
           ![r].done = Append(@, [from |-> from, version |-> to, plan |-> v.entry.id]),
           ![r].hops = @ \o lossyHops(v.entry.hub, from, to)]
  BY DEF ConvertObject, convertWith
<1>3. ASSUME reviews' = [reviews EXCEPT
           ![r].done = Append(@, [from |-> from, version |-> to, plan |-> v.entry.id]),
           ![r].hops = @ \o lossyHops(v.entry.hub, from, to)]
      PROVE  ReviewInv'
  <2>1. reviews' = [reviews EXCEPT ![r] = w]
    <3> DEFINE new == [from |-> from, version |-> to, plan |-> v.entry.id]
               hop == lossyHops(v.entry.hub, from, to)
    <3>1. reviews' = [reviews EXCEPT ![r].done = Append(@, new), ![r].hops = @ \o hop]
      BY <1>3
    <3>2. v \in ReviewType
      BY DEF ReviewInv
    <3> HIDE DEF new, hop
    <3>3. [reviews EXCEPT ![r].done = Append(@, new), ![r].hops = @ \o hop]
            = [reviews EXCEPT ![r] = [v EXCEPT !.done = Append(@, new), !.hops = @ \o hop]]
      BY <3>2 DEF ReviewInv, ReviewType
    <3> QED BY <3>1, <3>3 DEF new, hop
  <2>2. GoodReview(w)
    BY <1>1, ConvertGood
  <2>3. registry' \in Plans \cup {None}
    BY <1>1 DEF ReviewInv
  <2> HIDE DEF w
  <2> QED BY <2>1, <2>2, <2>3, OneReview
<1> QED BY <1>1, <1>2, <1>3, FailKeeps

\* So does the end of the body: a refusal, or the loop begins with nothing done.
LEMMA BeginKeeps ==
    ASSUME ReviewInv, NEW r \in Reviews, Begin(r)
    PROVE  ReviewInv'
<1>1. registry' = registry /\ registry \in Plans \cup {None}
  BY DEF Begin, ReviewInv
<1>2. \/ Answer(r, httpError) \/ FailReview(r) \/ recoverPanic(r)
      \/ /\ registry # None
         /\ reviews' = [reviews EXCEPT ![r].phase = "converting", ![r].entry = registry]
  BY DEF Begin
<1>3. CASE Answer(r, httpError)
  <2>1. httpError \in Answers /\ httpError.status # "success" /\ httpError.objects = <<>>
    <3>1. <<>> \in Seq(Converted)
      OBVIOUS
    <3> QED BY <3>1 DEF httpError, Answers
  <2> QED BY <1>1, <1>3, <2>1, AnswerFailure
<1>4. CASE registry # None
           /\ reviews' = [reviews EXCEPT ![r].phase = "converting", ![r].entry = registry]
  <2> DEFINE v == reviews[r]
             w == [v EXCEPT !.phase = "converting", !.entry = registry]
  <2>1. /\ v \in ReviewType /\ v.request \in Requests /\ v.done = <<>>
    BY DEF ReviewInv, GoodReview, Begin
  <2>2. reviews' = [reviews EXCEPT ![r] = w]
    BY <1>4, <2>1 DEF ReviewInv, ReviewType
  <2>3. /\ w \in ReviewType /\ w.phase = "converting" /\ w.request = v.request
        /\ w.entry = registry /\ w.done = <<>>
    BY <1>1, <2>1 DEF ReviewType, Phases
  <2> HIDE DEF v, w
  <2>4. Prefix(w)
    <3>1. v.request.objects \in Seq(STRING)
      BY <2>1, RequestsAssumed
    <3>2. Len(v.request.objects) >= 0 /\ Len(<<>>) = 0 /\ DOMAIN <<>> = {}
      BY <3>1
    <3> QED BY <1>1, <1>4, <2>1, <2>3, <3>2 DEF Prefix
  <2>5. GoodReview(w)
    BY <2>3, <2>4 DEF GoodReview
  <2> QED BY <1>1, <2>2, <2>5, OneReview
<1> QED BY <1>1, <1>2, <1>3, <1>4, FailKeeps

\* So does the end of the loop.
LEMMA FinishKeeps ==
    ASSUME ReviewInv, NEW r \in Reviews, Finish(r)
    PROVE  ReviewInv'
<1> DEFINE v == reviews[r]
           a == writeReview(r, v.done, "success")
           w == [v EXCEPT !.phase = "answered", !.answer = a]
<1>1. registry' = registry /\ registry' \in Plans \cup {None}
  BY DEF Finish, ReviewInv
<1>2. FailReview(r) \/ (~Expired(r) /\ Answer(r, a))
  BY DEF Finish
<1>3. CASE ~Expired(r) /\ Answer(r, a)
  <2>1. /\ v \in ReviewType /\ Prefix(v) /\ v.phase = "converting"
        /\ ~(Len(v.done) < Len(v.request.objects))
    BY DEF ReviewInv, GoodReview, Finish, Remaining
  <2>2. v.done \in Seq(Converted) /\ v.spent \in 0 .. RequestTimeout
    BY <2>1 DEF ReviewType
  <2>3. a \in Answers /\ a.status = "success" /\ a.objects = v.done
    <3> HIDE DEF v
    <3> QED BY <2>2 DEF writeReview, Answers
  <2>4. reviews' = [reviews EXCEPT ![r] = w]
    <3>1. reviews' = [reviews EXCEPT ![r] = [@ EXCEPT !.phase = "answered", !.answer = a]]
      <4> HIDE DEF a
      <4> QED BY <1>3, <2>3 DEF Answer
    <3> QED BY <3>1
  <2>5. v.spent < RequestTimeout
    BY <1>3, <2>2, RequestsAssumed DEF Expired
  <2> HIDE DEF v, a
  <2>6. /\ w \in ReviewType /\ w.phase = "answered" /\ w.request = v.request
        /\ w.entry = v.entry /\ w.done = v.done /\ w.spent = v.spent /\ w.answer = a
    BY <2>1, <2>3 DEF ReviewType, Phases
  <2>7. Len(v.done) = Len(v.request.objects)
    <3>1. v.request.objects \in Seq(STRING)
      BY <2>1, RequestsAssumed DEF Prefix
    <3>2. Len(v.done) \in Nat /\ Len(v.request.objects) \in Nat
      BY <2>2, <3>1
    <3> QED BY <2>1, <3>2 DEF Prefix
  <2> HIDE DEF w
  <2>8. Prefix(w)
    BY <2>1, <2>6 DEF Prefix
  <2>9. GoodReview(w)
    BY <2>3, <2>5, <2>6, <2>7, <2>8 DEF GoodReview, Delivered
  <2> QED BY <1>1, <2>4, <2>9, OneReview
<1> QED BY <1>1, <1>2, <1>3, FailKeeps

\* So does the arrival of a review, taken or refused.
LEMMA SendKeeps ==
    ASSUME ReviewInv, NEW r \in Reviews, NEW request \in Requests, Send(r, request)
    PROVE  ReviewInv'
<1> DEFINE v == [NoReview EXCEPT !.phase = "reading", !.request = request]
           u == [reviews[r] EXCEPT !.phase = "refused"]
<1>1. registry' \in Plans \cup {None}
  BY DEF Send, Open, ReviewInv
<1>2. \/ reviews' = [reviews EXCEPT ![r] = v]
      \/ reviews' = [reviews EXCEPT ![r] = u]
  BY DEF Send, Open
<1>3. GoodReview(v)
  <2>1. NoReview \in ReviewType
    BY NoReviewGood DEF GoodReview
  <2>2. v \in ReviewType
    BY <2>1 DEF ReviewType, Phases
  <2>3. v.phase = "reading" /\ v.request \in Requests /\ v.done = <<>>
    BY DEF NoReview
  <2> HIDE DEF v
  <2> QED BY <2>2, <2>3 DEF GoodReview
<1>4. GoodReview(u)
  <2>1. reviews[r] \in ReviewType
    BY DEF ReviewInv
  <2>2. u \in ReviewType /\ u.phase = "refused"
    BY <2>1 DEF ReviewType, Phases
  <2> HIDE DEF u
  <2> QED BY <2>2 DEF GoodReview
<1> HIDE DEF u, v
<1> QED BY <1>1, <1>2, <1>3, <1>4, OneReview

\* So does the end of the process, whoever brings it.
LEMMA CutKeeps ==
    ASSUME ReviewInv, NEW how \in {"cut", "killed"}, Cut(how),
           registry' \in Plans \cup {None}
    PROVE  ReviewInv'
<1> DEFINE ended == [NoReview EXCEPT !.phase = how]
<1>1. GoodReview(ended)
  BY EndedGood
<1>2. reviews' = [r \in Reviews |-> IF InFlight(r) THEN ended ELSE reviews[r]]
  BY DEF Cut
<1> HIDE DEF ended
<1>3. \A r \in Reviews : GoodReview(reviews'[r]) /\ reviews'[r] \in ReviewType
  BY <1>1, <1>2 DEF ReviewInv, GoodReview
<1>4. reviews' \in [Reviews -> ReviewType]
  BY <1>2, <1>3
<1> QED BY <1>3, <1>4 DEF ReviewInv

\* So does time, which only a converting review spends.
LEMMA TickKeeps ==
    ASSUME ReviewInv, Tick
    PROVE  ReviewInv'
<1> DEFINE older(r) == [reviews[r] EXCEPT !.spent = Later(@, RequestTimeout)]
<1>1. /\ registry' = registry
      /\ reviews' = [r \in Reviews |->
           IF reviews[r].phase = "converting" THEN older(r) ELSE reviews[r]]
  BY DEF Tick
<1>2. ASSUME NEW r \in Reviews, reviews[r].phase = "converting"
      PROVE  GoodReview(older(r))
  <2> DEFINE v == reviews[r]
             n == Later(v.spent, RequestTimeout)
             w == [v EXCEPT !.spent = n]
  <2>1. v \in ReviewType /\ Prefix(v) /\ v.phase = "converting"
    BY <1>2 DEF ReviewInv, GoodReview
  <2>2. n \in 0 .. RequestTimeout
    BY <2>1, RequestsAssumed DEF ReviewType, Later
  <2> HIDE DEF v, n
  <2>3. /\ w \in ReviewType /\ w.phase = "converting" /\ w.request = v.request
        /\ w.entry = v.entry /\ w.done = v.done
    BY <2>1, <2>2 DEF ReviewType
  <2> HIDE DEF w
  <2>4. GoodReview(w)
    BY <2>1, <2>3 DEF GoodReview, Prefix
  <2> QED BY <2>4 DEF v, n, w
<1> HIDE DEF older
<1>3. \A r \in Reviews : GoodReview(reviews'[r]) /\ reviews'[r] \in ReviewType
  BY <1>1, <1>2 DEF ReviewInv, GoodReview
<1>4. reviews' \in [Reviews -> ReviewType]
  BY <1>1, <1>3
<1> QED BY <1>1, <1>3, <1>4 DEF ReviewInv

\* The endpoint's invariant is inductive.
LEMMA ReviewInvInit == Init => ReviewInv
<1> SUFFICES ASSUME Init PROVE ReviewInv
  OBVIOUS
<1>1. reviews = [r \in Reviews |-> NoReview] /\ registry = None
  BY DEF Init
<1> QED BY <1>1, NoReviewGood DEF ReviewInv, GoodReview

LEMMA ReviewInvNext == ReviewInv /\ [Next]_vars => ReviewInv'
<1> SUFFICES ASSUME ReviewInv, [Next]_vars PROVE ReviewInv'
  OBVIOUS
<1>1. ASSUME reviews' = reviews, registry' \in Plans \cup {None} PROVE ReviewInv'
  BY <1>1 DEF ReviewInv
<1>2. registry \in Plans \cup {None}
  BY DEF ReviewInv
<1>3. CASE UNCHANGED vars
  BY <1>1, <1>2, <1>3 DEF vars, serverVars
<1>4. CASE CreatePod \/ Listen \/ BeginDrain \/ EndDrain \/ ManagerFails \/ SyncWedges
             \/ DeletePod \/ Route
  BY <1>1, <1>2, <1>4 DEF CreatePod, Listen, BeginDrain, EndDrain, ManagerFails, SyncWedges,
     DeletePod, Route, serverVars
<1>5. CASE Start \/ InitialSync \/ Reconfigure
  BY <1>1, <1>5 DEF Start, InitialSync, Reconfigure, SwapPlan
<1>6. CASE CacheSync \/ Return \/ AbortStart \/ StartupKill
  <2>1. (reviews' = reviews /\ registry' = registry) \/ (Cut("cut") /\ registry' = registry)
    BY <1>6 DEF CacheSync, Return, AbortStart, StartupKill, Exit, serverVars
  <2> QED BY <1>1, <1>2, <2>1, CutKeeps
<1>7. CASE Kill
  BY <1>2, <1>7, CutKeeps DEF Kill
<1>8. CASE Tick
  BY <1>8, TickKeeps
<1>9. CASE \E r \in Reviews : Handle(r) \/ \E request \in Requests : Send(r, request)
  BY <1>9, BeginKeeps, ConvertObjectKeeps, FinishKeeps, SendKeeps DEF Handle
<1> QED BY <1>3, <1>4, <1>5, <1>6, <1>7, <1>8, <1>9 DEF Next, Process

LEMMA ReviewInvAlways == Spec => []ReviewInv
BY ReviewInvInit, ReviewInvNext, PTL DEF Spec

(* All objects of one answer come from one compiled plan, for any number of  *)
(* objects, plans and concurrent reviews and however often the reconciler    *)
(* swaps the registry's entry (handleConvert reads it once).                 *)
THEOREM AnswersFromOnePlan == Spec => []OnePlanPerReview
<1>1. ReviewInv => OnePlanPerReview
  <2> SUFFICES ASSUME ReviewInv, NEW r \in Reviews, Succeeded(r),
                      NEW i \in DOMAIN reviews[r].answer.objects,
                      NEW j \in DOMAIN reviews[r].answer.objects
               PROVE  reviews[r].answer.objects[i].plan = reviews[r].answer.objects[j].plan
    BY DEF OnePlanPerReview
  <2> DEFINE v == reviews[r]
  <2>1. GoodReview(v) /\ v.phase = "answered" /\ v.answer.status = "success"
    BY DEF ReviewInv, Succeeded
  <2>2. Prefix(v) /\ v.answer.objects = v.done
    BY <2>1 DEF GoodReview, Delivered
  <2>3. i \in DOMAIN v.done /\ j \in DOMAIN v.done
    BY <2>2
  <2> HIDE DEF v
  <2>4. \A k \in DOMAIN v.done : v.done[k].plan = v.entry.id
    BY <2>2, PrefixFields
  <2> QED BY <2>2, <2>3, <2>4 DEF v
<1> QED BY <1>1, ReviewInvAlways, PTL

(* A review is answered whole, in order, at the desired version and within   *)
(* its budget, or with no object at all, for every request and every budget  *)
(* (the early returns of handleConvert's loop, writeReview).                 *)
THEOREM AnswersAreWhole == Spec => []AllOrNothing
<1>1. ReviewInv => AllOrNothing
  <2> SUFFICES ASSUME ReviewInv, NEW r \in Reviews, reviews[r].phase = "answered"
               PROVE  LET objects == reviews[r].answer.objects
                          request == reviews[r].request
                      IN IF Succeeded(r)
                         THEN /\ [i \in DOMAIN objects |-> objects[i].from] = request.objects
                              /\ \A i \in DOMAIN objects : objects[i].version = request.to
                              /\ reviews[r].spent < RequestTimeout
                         ELSE objects = <<>>
    BY DEF AllOrNothing
  <2> DEFINE v == reviews[r]
  <2>1. Delivered(v) /\ v \in ReviewType
    BY DEF ReviewInv, GoodReview
  <2>2. CASE v.answer.status = "success"
    <3>1. /\ Prefix(v) /\ v.answer.objects = v.done /\ v.spent < RequestTimeout
          /\ Len(v.done) = Len(v.request.objects)
      BY <2>1, <2>2 DEF Delivered
    <3> HIDE DEF v
    <3>2. /\ v.request.objects \in Seq(STRING) /\ v.done \in Seq(Converted)
      BY <2>1, <3>1, RequestsAssumed DEF Prefix, ReviewType
    <3>3. \A i \in DOMAIN v.done :
            v.done[i].from = v.request.objects[i] /\ v.done[i].version = v.request.to
      BY <3>1, PrefixFields
    <3>4. DOMAIN v.done = DOMAIN v.request.objects
      BY <3>1, <3>2
    <3>5. [i \in DOMAIN v.done |-> v.done[i].from] = v.request.objects
      <4> DEFINE asked == v.request.objects
                 from == [i \in DOMAIN v.done |-> v.done[i].from]
      <4>1. asked = [i \in DOMAIN asked |-> asked[i]]
        BY <3>2
      <4>2. \A i \in DOMAIN asked : from[i] = asked[i]
        BY <3>3, <3>4
      <4>3. from = [i \in DOMAIN asked |-> from[i]]
        BY <3>4
      <4> HIDE DEF asked, from
      <4>4. from = asked
        BY <4>1, <4>2, <4>3
      <4> QED BY <4>4 DEF asked, from
    <3> QED BY <2>2, <3>1, <3>3, <3>5 DEF v, Succeeded
  <2>3. CASE v.answer.status # "success"
    BY <2>1, <2>3 DEF Delivered, Succeeded
  <2> QED BY <2>2, <2>3
<1> QED BY <1>1, ReviewInvAlways, PTL

-----------------------------------------------------------------------------
(***************************************************************************)
(* The pod                                                                 *)
(***************************************************************************)
Templates == {reconcileDeployment(s, args) : s \in RolloutSpecs, args \in ArgLists}
PodPhases == {"pending", "live", "deleted", "gone"}
Procs == {"caches", "sync", "ready", "serving", "draining", "exiting", "down"}

(* Every argument list a user may submit is read alike by admission and by   *)
(* the flag package of the process.                                          *)
ArgsReadAlike == \A args \in ArgLists : ReadAlike(args)

(* The rendered pod leaves the drain its time: what admission checked is     *)
(* what the process does.                                                    *)
Fits ==
    /\ pod.template.preStop \in Nat /\ pod.template.grace \in Nat
    /\ \/ pod.template.drain = Refused
       \/ /\ pod.template.drain \in Nat
          /\ pod.template.preStop + pod.template.drain < pod.template.grace

PodTyped ==
    /\ pod \in [phase : PodPhases, age : Nat, spec : RolloutSpecs, template : Templates]
    /\ pod.phase # "pending" => pod.template.drain # Refused
    /\ pod.phase \in {"pending", "gone"} => proc = "down"
    /\ pod.age \in 0 .. pod.template.grace
    /\ proc \in Procs
    /\ IF pod.phase = "pending" THEN drained = 0 ELSE drained \in 0 .. pod.template.drain

(* A review is in hand only while the conversion endpoint is up or draining, *)
(* and after the drain only if the drain's time was over.                    *)
Held ==
    \A r \in Reviews : InFlight(r) =>
        /\ proc \in {"serving", "draining", "exiting"}
        /\ proc = "exiting" => drained = pod.template.drain

(* SIGTERM is acted on at the end of the preStop sleep; a drain of a         *)
(* terminating pod began by then.                                            *)
Deadlines ==
    Terminating =>
        /\ proc \in {"caches", "sync", "ready", "serving"} => pod.age <= pod.template.preStop
        /\ proc = "draining" => pod.age <= pod.template.preStop + drained

(* The inductive invariant of the pod. *)
PodInv == Fits /\ PodTyped /\ Held /\ Deadlines

\* A rendered pod has its durations.
LEMMA TemplateType ==
    ASSUME NEW s \in RolloutSpecs, NEW args \in ArgLists
    PROVE  /\ reconcileDeployment(s, args).preStop \in Nat
           /\ reconcileDeployment(s, args).grace \in Nat
<1>1. /\ DefaultPreStopSleep \in Nat /\ DefaultGracePeriod \in Nat
      /\ s.preStop \in Nat \cup {Unset} /\ s.grace \in Nat \cup {Unset}
  BY ServingAssumption DEF ServingAssumption
<1>2. rolloutPreStopSeconds(s) \in Nat /\ rolloutGracePeriod(s) \in Nat
  BY <1>1 DEF rolloutPreStopSeconds, rolloutGracePeriod
<1> QED BY <1>2 DEF reconcileDeployment

\* Admission lets through only pods whose drain fits.
LEMMA PodInvInit == ArgsReadAlike /\ Init => PodInv
<1> SUFFICES ASSUME ArgsReadAlike, Init PROVE PodInv
  OBVIOUS
<1>1. PICK s \in RolloutSpecs \X ArgLists :
        /\ Admitted(s[1], s[2])
        /\ pod = [phase |-> "pending", age |-> 0, spec |-> s[1],
                  template |-> reconcileDeployment(s[1], s[2])]
  BY DEF Init
<1> DEFINE spec == s[1]
           args == s[2]
           t == reconcileDeployment(spec, args)
<1>2. spec \in RolloutSpecs /\ args \in ArgLists
  OBVIOUS
<1>3. /\ pod.phase = "pending" /\ pod.age = 0 /\ pod.template = t /\ proc = "down"
      /\ reviews = [r \in Reviews |-> NoReview] /\ drained = 0
  BY <1>1 DEF Init
<1>4. t.preStop \in Nat /\ t.grace \in Nat /\ t \in Templates
  BY <1>2, TemplateType DEF Templates
<1>5. /\ t.preStop = rolloutPreStopSeconds(spec) /\ t.grace = rolloutGracePeriod(spec)
      /\ t.drain = FlagParse(args, DefaultShutdownTimeout)
  BY DEF reconcileDeployment
<1>6. t.preStop + shutdownTimeoutFromArgs(args) < t.grace
  BY <1>1, <1>5 DEF Admitted, ValidateWebhookServerRollout
<1>7. t.drain = Refused \/ (t.drain \in Nat /\ t.drain = shutdownTimeoutFromArgs(args))
  BY <1>2, <1>5 DEF ArgsReadAlike, ReadAlike
<1> HIDE DEF t, spec, args
<1>8. Fits
  BY <1>3, <1>4, <1>6, <1>7 DEF Fits
<1>9. PodTyped
  <2>1. pod \in [phase : PodPhases, age : Nat, spec : RolloutSpecs, template : Templates]
    BY <1>1, <1>2, <1>4 DEF PodPhases, t, spec, args
  <2> QED BY <1>3, <1>4, <2>1 DEF PodTyped, Procs
<1>10. Held
  BY <1>3 DEF Held, InFlight, NoReview
<1>11. Deadlines
  BY <1>3 DEF Deadlines, Terminating
<1> QED BY <1>8, <1>9, <1>10, <1>11 DEF PodInv

\* The state the pod's invariant is about, unchanged but for the reviews in hand.
LEMMA PodFrame ==
    ASSUME PodInv, pod' = pod, proc' = proc, drained' = drained,
           \A r \in Reviews : InFlight(r)' => InFlight(r)
    PROVE  PodInv'
BY DEF PodInv, Fits, PodTyped, Held, Deadlines, Terminating

\* The end of the process: nothing is in hand any more.
LEMMA CutAll ==
    ASSUME NEW how \in {"cut", "killed"}, Cut(how)
    PROVE  \A r \in Reviews : ~InFlight(r)'
<1>1. [NoReview EXCEPT !.phase = how].phase = how
  BY DEF NoReview
<1>2. \A r \in Reviews : reviews'[r] = IF InFlight(r) THEN [NoReview EXCEPT !.phase = how]
                                       ELSE reviews[r]
  BY DEF Cut
<1> QED BY <1>1, <1>2 DEF InFlight

LEMMA ExitKeeps ==
    ASSUME PodInv, Exit
    PROVE  PodInv'
<1>1. /\ proc' = "down" /\ pod' = pod /\ drained' = drained
      /\ \A r \in Reviews : ~InFlight(r)'
  BY CutAll DEF Exit
<1> QED BY <1>1 DEF PodInv, Fits, PodTyped, Held, Deadlines, Terminating, Procs

\* A step of a handler takes no new review in hand.
LEMMA HandleInFlight ==
    ASSUME ReviewInv, NEW r \in Reviews, Handle(r)
    PROVE  \A s \in Reviews : InFlight(s)' => InFlight(s)
<1>1. reviews[r].phase \in {"reading", "converting"}
  BY DEF Handle, Begin, ConvertObject, Finish
<1>2. ASSUME NEW a, Answer(r, a)
      PROVE  \A s \in Reviews \ {r} : reviews'[s] = reviews[s]
  BY <1>2 DEF Answer, ReviewInv
<1>3. CASE Begin(r)
  <2>1. \/ \E a : Answer(r, a)
        \/ reviews' = [reviews EXCEPT ![r].phase = "converting", ![r].entry = registry]
    BY <1>3 DEF Begin, FailReview, recoverPanic
  <2>2. \A s \in Reviews \ {r} : reviews'[s] = reviews[s]
    BY <1>2, <2>1 DEF ReviewInv
  <2> QED BY <1>1, <2>2 DEF InFlight
<1>4. CASE ConvertObject(r)
  <2> DEFINE from == reviews[r].request.objects[Len(reviews[r].done) + 1]
             to == reviews[r].request.to
             new == [from |-> from, version |-> to, plan |-> reviews[r].entry.id]
             hop == lossyHops(reviews[r].entry.hub, from, to)
  <2>1. \/ \E a : Answer(r, a)
        \/ reviews' = [reviews EXCEPT ![r].done = Append(@, new), ![r].hops = @ \o hop]
    BY <1>4 DEF ConvertObject, convertWith, FailReview, recoverPanic
  <2> HIDE DEF new, hop
  <2>2. \A s \in Reviews \ {r} : reviews'[s] = reviews[s]
    BY <1>2, <2>1 DEF ReviewInv
  <2> QED BY <1>1, <2>2 DEF InFlight
<1>5. CASE Finish(r)
  <2>1. \E a : Answer(r, a)
    BY <1>5 DEF Finish, FailReview
  <2> QED BY <1>1, <1>2, <2>1 DEF InFlight
<1> QED BY <1>3, <1>4, <1>5 DEF Handle

\* Time passes only when nothing is due.
LEMMA TickKeepsPod ==
    ASSUME PodInv, ReviewInv, Tick
    PROVE  PodInv'
<1>1. proc' = proc /\ ~Due
  BY DEF Tick
<1>2. \A r \in Reviews : InFlight(r)' <=> InFlight(r)
  <2> SUFFICES ASSUME NEW r \in Reviews PROVE reviews'[r].phase = reviews[r].phase
    BY DEF InFlight
  <2> DEFINE n == Later(reviews[r].spent, RequestTimeout)
  <2>1. reviews'[r] = IF reviews[r].phase = "converting"
                      THEN [reviews[r] EXCEPT !.spent = n] ELSE reviews[r]
    BY DEF Tick
  <2> HIDE DEF n
  <2> QED BY <2>1 DEF ReviewInv, ReviewType
<1>3. /\ drained' = IF proc = "draining" THEN Later(drained, pod.template.drain) ELSE drained
      /\ pod' = IF Terminating THEN [pod EXCEPT !.age = Later(@, pod.template.grace)] ELSE pod
  BY DEF Tick
<1>4. /\ pod'.phase = pod.phase /\ pod'.template = pod.template
      /\ pod'.age = IF Terminating THEN Later(pod.age, pod.template.grace) ELSE pod.age
      /\ pod' \in [phase : PodPhases, age : Nat, spec : RolloutSpecs, template : Templates]
  BY <1>3 DEF PodInv, PodTyped, Later
<1>5. Fits'
  BY <1>4 DEF PodInv, Fits
<1>6. PodTyped'
  BY <1>1, <1>3, <1>4 DEF PodInv, Fits, PodTyped, Later
<1>7. Held'
  BY <1>1, <1>2, <1>3, <1>4 DEF PodInv, Held
<1>8. Deadlines'
  <2> SUFFICES ASSUME Terminating'
               PROVE  /\ proc \in {"caches", "sync", "ready", "serving"}
                           => pod'.age <= pod.template.preStop
                      /\ proc = "draining" => pod'.age <= pod.template.preStop + drained'
    BY <1>1, <1>4 DEF Deadlines
  <2>1. Terminating /\ pod'.age \in {pod.age, pod.age + 1} /\ pod.age \in Nat
    BY <1>4 DEF Terminating, Later, PodInv, PodTyped
  <2>2. ASSUME proc \in {"caches", "sync", "ready", "serving"}
        PROVE  pod'.age <= pod.template.preStop
    <3>1. pod.age < pod.template.preStop
      BY <1>1, <2>1, <2>2 DEF Due, PodInv, Fits
    <3> QED BY <2>1, <3>1 DEF PodInv, Fits
  <2>3. ASSUME proc = "draining"
        PROVE  pod'.age <= pod.template.preStop + drained'
    <3>1. drained # pod.template.drain /\ pod.age <= pod.template.preStop + drained
      BY <1>1, <2>1, <2>3 DEF Due, PodInv, Deadlines
    <3>2. pod.template.drain \in Nat /\ drained \in 0 .. pod.template.drain
      BY <2>1 DEF PodInv, Fits, PodTyped, Terminating
    <3>3. drained' = drained + 1
      BY <1>3, <2>3, <3>1, <3>2 DEF Later
    <3> QED BY <2>1, <3>1, <3>2, <3>3 DEF PodInv, Fits
  <2> QED BY <2>2, <2>3
<1> QED BY <1>5, <1>6, <1>7, <1>8 DEF PodInv

\* The pod's invariant is inductive, over the endpoint's.
LEMMA PodInvNext == ReviewInv /\ PodInv /\ [Next]_vars => PodInv'
<1> SUFFICES ASSUME ReviewInv, PodInv, [Next]_vars PROVE PodInv'
  OBVIOUS
<1> USE DEF PodInv
<1>1. CASE UNCHANGED vars
  BY <1>1, PodFrame DEF vars, podVars, serverVars, InFlight
<1>2. CASE ManagerFails \/ SyncWedges \/ Route \/ Reconfigure
  BY <1>2, PodFrame DEF ManagerFails, SyncWedges, Route, Reconfigure, SwapPlan, serverVars,
     InFlight
<1>3. CASE CreatePod
  <2>1. /\ pod.phase = "pending" /\ pod.template.drain # Refused
        /\ pod' = [pod EXCEPT !.phase = "live"]
        /\ proc' = proc /\ drained' = drained /\ reviews' = reviews
    BY <1>3 DEF CreatePod, serverVars
  <2>2. /\ pod'.phase = "live" /\ pod'.template = pod.template /\ pod'.age = pod.age
        /\ pod' \in [phase : PodPhases, age : Nat, spec : RolloutSpecs, template : Templates]
    BY <2>1 DEF PodTyped, PodPhases
  <2>3. proc = "down"
    BY <2>1 DEF PodTyped
  <2>4. Held' /\ Deadlines' /\ Fits'
    BY <2>1, <2>2, <2>3 DEF Held, Deadlines, Fits, Terminating, InFlight
  <2>5. drained \in 0 .. pod.template.drain
    BY <2>1 DEF PodTyped, Fits
  <2> QED BY <2>1, <2>2, <2>4, <2>5 DEF PodTyped
<1>4. CASE Start
  <2>1. /\ proc = "down" /\ pod.phase = "live" /\ proc' = "caches" /\ drained' = 0
        /\ pod' = pod /\ reviews' = reviews
    BY <1>4 DEF Start
  <2>2. \A r \in Reviews : ~InFlight(r)'
    BY <2>1 DEF Held, InFlight
  <2>3. pod.template.drain \in Nat
    BY <2>1 DEF PodTyped, Fits
  <2>4. PodTyped'
    BY <2>1, <2>3 DEF PodTyped, Procs
  <2> QED BY <2>1, <2>2, <2>4 DEF Held, Deadlines, Fits, Terminating
<1>5. CASE CacheSync
  <2>1. \/ Exit
        \/ /\ proc = "caches" /\ proc' = "sync" /\ pod' = pod /\ drained' = drained
           /\ reviews' = reviews
    BY <1>5 DEF CacheSync, serverVars
  <2>2. CASE /\ proc = "caches" /\ proc' = "sync" /\ pod' = pod /\ drained' = drained
             /\ reviews' = reviews
    BY <2>2 DEF PodTyped, Held, Deadlines, Fits, Terminating, InFlight, Procs
  <2> QED BY <2>1, <2>2, ExitKeeps
<1>6. CASE InitialSync
  BY <1>6 DEF InitialSync, PodTyped, Held, Deadlines, Fits, Terminating, InFlight, Procs
<1>7. CASE Listen
  BY <1>7 DEF Listen, serverVars, PodTyped, Held, Deadlines, Fits, Terminating, InFlight, Procs
<1>8. CASE BeginDrain
  <2>1. /\ proc = "serving" /\ proc' = "draining" /\ drained' = 0
        /\ pod' = pod /\ reviews' = reviews
    BY <1>8 DEF BeginDrain, serverVars
  <2>2. pod.phase # "pending" /\ pod.phase # "gone" /\ pod.template.drain \in Nat
    BY <2>1 DEF PodTyped, Fits
  <2>3. PodTyped'
    BY <2>1, <2>2 DEF PodTyped, Procs
  <2>4. Held' /\ Fits'
    BY <2>1 DEF Held, Fits, InFlight
  <2>5. Deadlines'
    BY <2>1 DEF Deadlines, Terminating, Fits
  <2> QED BY <2>3, <2>4, <2>5
<1>9. CASE EndDrain
  <2>1. /\ proc = "draining" /\ (Idle \/ drained = pod.template.drain)
        /\ proc' = "exiting" /\ pod' = pod /\ drained' = drained /\ reviews' = reviews
    BY <1>9 DEF EndDrain, serverVars
  <2>2. Held'
    BY <2>1 DEF Held, Idle, InFlight
  <2> QED BY <2>1, <2>2 DEF PodTyped, Deadlines, Fits, Terminating, Procs
<1>10. CASE Return \/ AbortStart \/ StartupKill
  BY <1>10, ExitKeeps DEF Return, AbortStart, StartupKill
<1>11. CASE DeletePod
  <2>1. /\ pod.phase = "live" /\ pod' = [pod EXCEPT !.phase = "deleted", !.age = 0]
        /\ proc' = proc /\ drained' = drained /\ reviews' = reviews
    BY <1>11 DEF DeletePod, serverVars
  <2>2. /\ pod'.phase = "deleted" /\ pod'.template = pod.template /\ pod'.age = 0
        /\ pod' \in [phase : PodPhases, age : Nat, spec : RolloutSpecs, template : Templates]
    BY <2>1 DEF PodTyped, PodPhases
  <2>3. pod.template.drain \in Nat /\ drained \in 0 .. pod.template.drain
    BY <2>1 DEF PodTyped, Fits
  <2>4. Deadlines' /\ Fits' /\ Held'
    BY <2>1, <2>2, <2>3 DEF Deadlines, Fits, Held, Terminating, InFlight
  <2> QED BY <2>1, <2>2, <2>4 DEF PodTyped, Fits
<1>12. CASE Kill
  <2>1. /\ pod.phase = "deleted" /\ pod' = [pod EXCEPT !.phase = "gone"]
        /\ proc' = "down" /\ drained' = drained /\ Cut("killed")
    BY <1>12 DEF Kill, Terminating
  <2>2. /\ pod'.phase = "gone" /\ pod'.template = pod.template /\ pod'.age = pod.age
        /\ pod' \in [phase : PodPhases, age : Nat, spec : RolloutSpecs, template : Templates]
    BY <2>1 DEF PodTyped, PodPhases
  <2>3. \A r \in Reviews : ~InFlight(r)'
    BY <2>1, CutAll
  <2>4. Deadlines' /\ Fits' /\ Held'
    BY <2>1, <2>2, <2>3 DEF Deadlines, Fits, Held, Terminating
  <2> QED BY <2>1, <2>2, <2>4 DEF PodTyped, Procs
<1>13. CASE Tick
  BY <1>13, TickKeepsPod
<1>14. ASSUME NEW r \in Reviews, Handle(r) PROVE PodInv'
  BY <1>14, HandleInFlight, PodFrame DEF Handle, podVars
<1>15. ASSUME NEW r \in Reviews, NEW request \in Requests, Send(r, request) PROVE PodInv'
  <2>1. pod' = pod /\ proc' = proc /\ drained' = drained
    BY <1>15 DEF Send, podVars
  <2>2. \A s \in Reviews \ {r} : reviews'[s] = reviews[s]
    BY <1>15 DEF Send, Open, ReviewInv
  <2>3. proc = "serving" \/ ~InFlight(r)'
    <3>1. proc # "serving" => reviews' = [reviews EXCEPT ![r].phase = "refused"]
      BY <1>15 DEF Send
    <3> QED BY <3>1 DEF InFlight, ReviewInv, ReviewType
  <2>4. Held'
    BY <2>1, <2>2, <2>3 DEF Held, InFlight
  <2> QED BY <2>1, <2>4 DEF PodTyped, Deadlines, Fits, Terminating
<1> QED
  BY <1>1, <1>2, <1>3, <1>4, <1>5, <1>6, <1>7, <1>8, <1>9, <1>10, <1>11, <1>12, <1>13,
     <1>14, <1>15 DEF Next, Process

LEMMA PodInvAlways == ArgsReadAlike => (Spec => []PodInv)
BY PodInvInit, PodInvNext, ReviewInvAlways, PTL DEF Spec

\* Only an exit of the process or the kubelet's SIGKILL loses a review.
LEMMA LostBy ==
    ASSUME ReviewInv, Next, NEW r \in Reviews, InFlight(r),
           reviews'[r].phase \in {"cut", "killed"}
    PROVE  \/ proc \in {"caches", "sync", "exiting"} /\ Exit
           \/ Kill
<1>1. reviews' # reviews
  BY DEF InFlight
<1>2. CASE Tick
  <2> DEFINE n == Later(reviews[r].spent, RequestTimeout)
  <2>1. reviews'[r] \in {[reviews[r] EXCEPT !.spent = n], reviews[r]}
    BY <1>2 DEF Tick
  <2> HIDE DEF n
  <2>2. reviews'[r].phase = reviews[r].phase
    BY <2>1 DEF ReviewInv, ReviewType
  <2> QED BY <2>2 DEF InFlight
<1>3. ASSUME NEW s \in Reviews, Handle(s) PROVE FALSE
  <2>1. s = r \/ reviews'[r] = reviews[r]
    <3>1. ASSUME NEW a, Answer(s, a) PROVE r # s => reviews'[r] = reviews[r]
      BY <3>1 DEF Answer, ReviewInv
    <3>2. CASE Begin(s)
      BY <3>1, <3>2 DEF Begin, FailReview, recoverPanic, ReviewInv
    <3>3. CASE ConvertObject(s)
      BY <3>1, <3>3 DEF ConvertObject, convertWith, FailReview, recoverPanic, ReviewInv
    <3>4. CASE Finish(s)
      BY <3>1, <3>4 DEF Finish, FailReview
    <3> QED BY <1>3, <3>2, <3>3, <3>4 DEF Handle
  <2>2. CASE s = r
    <3>1. ASSUME NEW a, Answer(r, a) PROVE reviews'[r].phase = "answered"
      <4>1. reviews[r] \in ReviewType
        BY DEF ReviewInv
      <4>2. \/ reviews'[r] = [reviews[r] EXCEPT !.phase = "answered", !.answer = a]
            \/ reviews'[r] = [NoReview EXCEPT !.phase = "answered", !.answer = a]
        BY <3>1 DEF Answer, ReviewInv
      <4> QED BY <4>1, <4>2 DEF ReviewType, NoReview
    <3>2. CASE Begin(r)
      <4>1. \/ \E a : Answer(r, a)
            \/ reviews' = [reviews EXCEPT ![r].phase = "converting", ![r].entry = registry]
        BY <3>2 DEF Begin, FailReview, recoverPanic
      <4>2. reviews' = [reviews EXCEPT ![r].phase = "converting", ![r].entry = registry]
              => reviews'[r].phase = "converting"
        BY DEF ReviewInv, ReviewType
      <4> QED BY <3>1, <4>1, <4>2
    <3>3. CASE ConvertObject(r)
      <4> DEFINE from == reviews[r].request.objects[Len(reviews[r].done) + 1]
                 to == reviews[r].request.to
                 new == [from |-> from, version |-> to, plan |-> reviews[r].entry.id]
                 hop == lossyHops(reviews[r].entry.hub, from, to)
      <4>1. \/ \E a : Answer(r, a)
            \/ reviews' = [reviews EXCEPT ![r].done = Append(@, new), ![r].hops = @ \o hop]
        BY <3>3 DEF ConvertObject, convertWith, FailReview, recoverPanic
      <4> HIDE DEF new, hop
      <4>2. reviews' = [reviews EXCEPT ![r].done = Append(@, new), ![r].hops = @ \o hop]
              => reviews'[r].phase = reviews[r].phase
        BY DEF ReviewInv, ReviewType
      <4> QED BY <3>1, <4>1, <4>2 DEF InFlight
    <3>4. CASE Finish(r)
      <4>1. \E a : Answer(r, a)
        BY <3>4 DEF Finish, FailReview
      <4> QED BY <3>1, <4>1
    <3> QED BY <1>3, <2>2, <3>2, <3>3, <3>4 DEF Handle
  <2> QED BY <2>1, <2>2 DEF InFlight
<1>4. ASSUME NEW s \in Reviews, NEW request \in Requests, Send(s, request) PROVE FALSE
  <2>1. reviews[s].phase = "none"
    BY <1>4 DEF Send
  <2>2. s # r
    BY <2>1 DEF InFlight
  <2>3. reviews'[r] = reviews[r]
    BY <1>4, <2>2 DEF Send, Open, ReviewInv
  <2> QED BY <2>3 DEF InFlight
<1>5. CASE CreatePod \/ Listen \/ BeginDrain \/ EndDrain \/ ManagerFails \/ SyncWedges
             \/ DeletePod \/ Route \/ Start \/ InitialSync \/ Reconfigure
  BY <1>1, <1>5 DEF CreatePod, Listen, BeginDrain, EndDrain, ManagerFails, SyncWedges,
     DeletePod, Route, Start, InitialSync, Reconfigure, SwapPlan, serverVars
<1>6. CASE CacheSync \/ Return \/ AbortStart \/ StartupKill
  BY <1>1, <1>6 DEF CacheSync, Return, AbortStart, StartupKill, StartupExpired, serverVars
<1> QED BY <1>2, <1>3, <1>4, <1>5, <1>6 DEF Next, Process

(* Where admission and the process read the same drain from the arguments, a *)
(* review is lost to the end of its process only after a whole drain, for    *)
(* all admitted sleeps, drains and grace periods: SIGKILL finds the process  *)
(* past its drain (ValidateWebhookServerRollout's strict inequality).        *)
THEOREM DrainIsWhole == ArgsReadAlike => (Spec => LostOnlyAfterDrain)
<1>1. ReviewInv /\ PodInv /\ [Next]_vars =>
        [\A r \in Reviews :
           InFlight(r) /\ reviews'[r].phase \in {"cut", "killed"}
             => proc = "exiting" /\ drained = pod.template.drain]_vars
  <2> SUFFICES ASSUME ReviewInv, PodInv, Next, NEW r \in Reviews, InFlight(r),
                      reviews'[r].phase \in {"cut", "killed"}
               PROVE  proc = "exiting" /\ drained = pod.template.drain
    OBVIOUS
  <2>1. /\ proc \in {"serving", "draining", "exiting"}
        /\ proc = "exiting" => drained = pod.template.drain
    BY DEF PodInv, Held
  <2>2. CASE proc \in {"caches", "sync", "exiting"} /\ Exit
    BY <2>1, <2>2
  <2>3. CASE Kill
    <3>1. Terminating /\ pod.age = pod.template.grace
      BY <2>1, <2>3 DEF Kill
    <3>2. /\ pod.template.preStop \in Nat /\ pod.template.grace \in Nat
          /\ pod.template.drain \in Nat
          /\ pod.template.preStop + pod.template.drain < pod.template.grace
          /\ drained \in 0 .. pod.template.drain
      BY <3>1 DEF PodInv, Fits, PodTyped, Terminating
    <3>3. proc # "serving"
      BY <3>1, <3>2 DEF PodInv, Deadlines
    <3>4. proc # "draining"
      BY <3>1, <3>2 DEF PodInv, Deadlines
    <3> QED BY <2>1, <3>3, <3>4
  <2> QED BY <2>2, <2>3, LostBy
<1> QED BY <1>1, ReviewInvAlways, PodInvAlways, PTL DEF Spec, LostOnlyAfterDrain

-----------------------------------------------------------------------------
(* The rest of the types, and what readiness and the endpoints promise. *)
RestTyped ==
    /\ manager \in {"up", "failed"} /\ wedged \in BOOLEAN /\ routed \in BOOLEAN
    /\ startup \in 0 .. StartupBudget
    /\ faults \in 0 .. MaxFaults /\ swaps \in 0 .. MaxSwaps
    /\ lossyTotal \in Nat
    /\ routed => pod.phase \in {"live", "deleted"}
    /\ proc \in {"ready", "serving"} => ~wedged

\* A count of lossy hops.
LEMMA LossyCount ==
    ASSUME NEW entry, NEW S, NEW hops \in Seq(S)
    PROVE  recordLossy(entry, hops) \in Nat
<1>1. IsFiniteSet(1 .. Len(hops))
  BY FS_Interval
<1>2. {i \in DOMAIN hops : hops[i] \in entry.lossy} \subseteq 1 .. Len(hops)
  OBVIOUS
<1>3. IsFiniteSet({i \in DOMAIN hops : hops[i] \in entry.lossy})
  BY <1>1, <1>2, FS_Subset
<1> QED BY <1>3, FS_CardinalityType DEF recordLossy

LEMMA RestInit == Init => RestTyped
<1> SUFFICES ASSUME Init PROVE RestTyped
  OBVIOUS
<1>1. StartupBudget \in Nat /\ MaxFaults \in Nat /\ MaxSwaps \in Nat
  BY ServingAssumption DEF ServingAssumption
<1>2. wedged = FALSE /\ routed = FALSE /\ proc = "down" /\ manager = "up"
  BY DEF Init
<1>3. /\ startup \in 0 .. StartupBudget /\ faults \in 0 .. MaxFaults /\ swaps \in 0 .. MaxSwaps
      /\ lossyTotal \in Nat
  BY <1>1 DEF Init
<1> QED BY <1>2, <1>3, Zenon DEF RestTyped

LEMMA RestNext == ReviewInv /\ PodInv /\ RestTyped /\ [Next]_vars => RestTyped'
<1> SUFFICES ASSUME ReviewInv, PodInv, RestTyped, [Next]_vars PROVE RestTyped'
  OBVIOUS
<1>0. StartupBudget \in Nat /\ MaxFaults \in Nat /\ MaxSwaps \in Nat
  BY ServingAssumption DEF ServingAssumption
<1> USE DEF RestTyped
<1>1. CASE UNCHANGED vars
  BY <1>1 DEF vars, podVars, serverVars
<1>2. CASE CreatePod
  <2>1. pod'.phase = "live"
    BY <1>2 DEF CreatePod, PodInv, PodTyped
  <2> QED BY <1>2, <2>1 DEF CreatePod, serverVars
<1>3. CASE Start
  <2>1. wedged' = FALSE /\ manager' = "up" /\ proc' = "caches"
    BY <1>3 DEF Start
  <2>2. startup' \in 0 .. StartupBudget
    BY <1>0, <1>3 DEF Start
  <2>3. /\ pod' = pod /\ routed' = routed /\ faults' = faults /\ swaps' = swaps
        /\ lossyTotal' = lossyTotal
    BY <1>3 DEF Start
  <2> QED BY <2>1, <2>2, <2>3, Zenon
<1>4. CASE InitialSync
  BY <1>4 DEF InitialSync
<1>5. CASE Listen \/ BeginDrain \/ EndDrain
  BY <1>5 DEF Listen, BeginDrain, EndDrain, serverVars
<1>6. CASE CacheSync \/ Return \/ AbortStart \/ StartupKill
  <2>1. ASSUME Exit PROVE RestTyped'
    BY <2>1 DEF Exit
  <2> QED BY <1>6, <2>1 DEF CacheSync, Return, AbortStart, StartupKill, serverVars
<1>7. CASE ManagerFails \/ SyncWedges
  <2>1. /\ manager' \in {"up", "failed"} /\ wedged' \in BOOLEAN
        /\ proc' \in {"ready", "serving"} => ~wedged'
    <3>1. CASE ManagerFails
      <4>1. manager' = "failed" /\ wedged' = wedged /\ proc' = proc
        BY <3>1 DEF ManagerFails
      <4> QED BY <4>1, Zenon
    <3>2. CASE SyncWedges
      <4>1. manager' = manager /\ wedged' = TRUE /\ proc' = "sync"
        BY <3>2 DEF SyncWedges
      <4> QED BY <4>1, Zenon
    <3> QED BY <1>7, <3>1, <3>2
  <2>2. faults' \in 0 .. MaxFaults
    BY <1>0, <1>7 DEF ManagerFails, SyncWedges
  <2>3. /\ pod' = pod /\ routed' = routed /\ startup' = startup /\ swaps' = swaps
        /\ lossyTotal' = lossyTotal
    BY <1>7 DEF ManagerFails, SyncWedges, serverVars
  <2> QED BY <2>1, <2>2, <2>3, Zenon
<1>8. CASE DeletePod
  <2>1. pod'.phase = "deleted"
    BY <1>8 DEF DeletePod, PodInv, PodTyped
  <2> QED BY <1>8, <2>1 DEF DeletePod, serverVars
<1>9. CASE Kill
  BY <1>9 DEF Kill
<1>10. CASE Route
  BY <1>10 DEF Route, serverVars
<1>11. CASE Reconfigure
  BY <1>0, <1>11 DEF Reconfigure, SwapPlan
<1>12. CASE Tick
  <2>1. pod'.phase = pod.phase
    BY <1>12 DEF Tick, PodInv, PodTyped
  <2>2. startup' \in 0 .. StartupBudget
    BY <1>0, <1>12 DEF Tick, Later
  <2> QED BY <1>12, <2>1, <2>2 DEF Tick
<1>13. ASSUME NEW r \in Reviews, Handle(r) PROVE RestTyped'
  <2>1. lossyTotal' \in Nat
    <3>1. reviews[r].hops \in Seq(Hop)
      BY DEF ReviewInv, ReviewType
    <3>2. recordLossy(reviews[r].entry, reviews[r].hops) \in Nat
      BY <3>1, LossyCount
    <3> QED BY <1>13, <3>2 DEF Handle, Begin, ConvertObject, Finish
  <2> QED BY <1>13, <2>1 DEF Handle, podVars
<1>14. ASSUME NEW r \in Reviews, NEW request \in Requests, Send(r, request) PROVE RestTyped'
  BY <1>14 DEF Send, Open, podVars
<1> QED
  BY <1>1, <1>2, <1>3, <1>4, <1>5, <1>6, <1>7, <1>8, <1>9, <1>10, <1>11, <1>12, <1>13,
     <1>14 DEF Next, Process

(* The pod, its process and its handlers stay well typed: no clock runs past *)
(* its deadline, a wedged process is never ready, the endpoints hold no pod  *)
(* that is gone.                                                             *)
THEOREM TypeCorrect == ArgsReadAlike => (Spec => []TypeOK)
<1>1. ReviewInv /\ PodInv /\ RestTyped => TypeOK
  <2> SUFFICES ASSUME ReviewInv, PodInv, RestTyped PROVE TypeOK
    OBVIOUS
  <2>1. /\ pod.phase \in {"pending", "live", "deleted", "gone"}
        /\ pod.age \in 0 .. pod.template.grace
        /\ proc \in {"caches", "sync", "ready", "serving", "draining", "exiting", "down"}
        /\ pod.phase # "pending" => drained \in 0 .. pod.template.drain
    BY DEF PodInv, PodTyped, PodPhases, Procs
  <2>2. \A r \in Reviews : reviews[r].phase \in Phases /\ reviews[r].spent \in 0 .. RequestTimeout
    BY DEF ReviewInv, ReviewType
  <2>3. registry \in Plans \cup {None}
    BY DEF ReviewInv
  <2> QED BY <2>1, <2>2, <2>3 DEF RestTyped, TypeOK
<1> QED BY <1>1, RestInit, RestNext, ReviewInvAlways, PodInvAlways, PTL DEF Spec
=============================================================================
