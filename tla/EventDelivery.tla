---------------------------- MODULE EventDelivery ----------------------------
(***************************************************************************)
(* External event delivery.  A relay's fan-out turns a published event     *)
(* into one delivery row per active subscription; delivery workers lease   *)
(* the rows, look the subscription up again, POST the signed event to its  *)
(* endpoint and record what came back.  Operators register subscriptions,  *)
(* switch them off and on, and revive dead deliveries.  Workers stall past *)
(* their lease and die, endpoints answer late, wrongly or not at all.      *)
(***************************************************************************)
EXTENDS LeaseRow

CONSTANTS
  Published,      \* events the relay publishes
  Subscription,
  Sender,         \* delivery worker processes
  NoDelivery,
  SendLimit,      \* the `limit` of drainOnce
  MaxRevivalsOf   \* model bound: how often an operator revives one delivery

ASSUME SenderAssumption == SendLimit \in Nat \ {0} /\ MaxRevivalsOf \in Nat
ASSUME SenderNameAssumption == IsFiniteSet(Sender) /\ "nobody" \notin Sender

Delivery == Published \X Subscription

ASSUME NoDeliveryAssumption == NoDelivery \notin Delivery

VARIABLES
  subscribed, \* the event_subscription table
  fanOut,     \* per event: the subscriptions its fan-out has read, if it is running
  delivery,   \* the event_delivery table
  sender,     \* what each worker's drainOnce holds
  reviving,   \* the delivery an operator's revival is looking at
  posted,     \* how often each delivery was sent to its endpoint
  late,       \* sends to a subscription since it was switched off
  granted     \* how often each delivery was revived

dvars == <<subscribed, fanOut, delivery, sender, reviving, posted, late, granted>>

ClaimedDelivery == [item : Delivery, token : Token, attempts : Nat, due : Int]

\* What comes back from a POST: a 2xx, a 4xx that asks for no retry, or "none"
\* for the rest (a 5xx, a 408 or 429, a timeout, a refused connection).
Answer == {"ok", "refused", "none"}

IsSuccess(answer) == answer = "ok"

IsRetryable(answer) == answer # "refused"

Resting == [step |-> "idle", age |-> 0, batch |-> {}, item |-> NoDelivery, answer |-> "none"]

DInit ==
  /\ subscribed = [s \in Subscription |-> "unregistered"]
  /\ fanOut = [e \in Published |-> [step |-> "waiting", to |-> {}]]
  /\ delivery = [d \in Delivery |-> Absent]
  /\ sender = [w \in Sender |-> Resting]
  /\ reviving = NoDelivery
  /\ posted = [d \in Delivery |-> 0]
  /\ late = [s \in Subscription |-> 0]
  /\ granted = [d \in Delivery |-> 0]

-----------------------------------------------------------------------------
(* Subscriptions. *)

\* Registering an endpoint twice returns the first registration, switched off
\* or not: only a new one is inserted, active.
RegisterSubscription(s) ==
  /\ subscribed[s] = "unregistered"
  /\ subscribed' = [subscribed EXCEPT ![s] = "active"]
  /\ UNCHANGED <<fanOut, delivery, sender, reviving, posted, late, granted>>

SetActive(s, state) ==
  /\ subscribed[s] # "unregistered"
  /\ subscribed' = [subscribed EXCEPT ![s] = state]
  /\ late' = [late EXCEPT ![s] = IF subscribed[s] = state THEN @ ELSE 0]
  /\ UNCHANGED <<fanOut, delivery, sender, reviving, posted, granted>>

-----------------------------------------------------------------------------
(* Fan-out: the subscriptions are read on the pool, the rows are inserted in *)
(* the transaction that marks the event published.                           *)

SubscriptionsFor == {s \in Subscription : subscribed[s] = "active"}

FanOutRead(e) ==
  /\ fanOut[e].step = "waiting"
  /\ fanOut' = [fanOut EXCEPT ![e] = [step |-> "queueing", to |-> SubscriptionsFor]]
  /\ UNCHANGED <<subscribed, delivery, sender, reviving, posted, late, granted>>

\* on conflict (event_id, subscription_id) do nothing
Queue(d) == IF delivery[d].status = "absent" THEN NewRow ELSE delivery[d]

FanOutCommit(e) ==
  /\ fanOut[e].step = "queueing"
  /\ delivery' = [d \in Delivery |-> IF d[1] = e /\ d[2] \in fanOut[e].to THEN Queue(d) ELSE delivery[d]]
  /\ fanOut' = [fanOut EXCEPT ![e] = [step |-> "published", to |-> {}]]
  /\ UNCHANGED <<subscribed, sender, reviving, posted, late, granted>>

\* The relay lost its claim, failed or died: the rows go with the transaction
\* and the event is fanned out again.
FanOutRollback(e) ==
  /\ fanOut[e].step = "queueing"
  /\ fanOut' = [fanOut EXCEPT ![e] = [step |-> "waiting", to |-> {}]]
  /\ UNCHANGED <<subscribed, delivery, sender, reviving, posted, late, granted>>

-----------------------------------------------------------------------------
(* drainOnce. *)

StartDrain(w) ==
  /\ sender[w].step = "idle"
  /\ sender' = [sender EXCEPT ![w].step = "reclaim"]
  /\ UNCHANGED <<subscribed, fanOut, delivery, reviving, posted, late, granted>>

RecoverDeliveries(w) ==
  /\ sender[w].step = "reclaim"
  /\ LET now == sender[w].age
         lost == {d \in Delivery : Abandoned(delivery[d], now)}
     IN  \E S \in InDueOrder(delivery, lost, SendLimit) :
           delivery' = [d \in Delivery |-> IF d \in S THEN Reclaim(delivery[d], now) ELSE delivery[d]]
  /\ sender' = [sender EXCEPT ![w].step = "claim"]
  /\ UNCHANGED <<subscribed, fanOut, reviving, posted, late, granted>>

SendTokensInUse ==
  {delivery[d].token : d \in Delivery}
    \union UNION {{h.token : h \in sender[w].batch} : w \in Sender}

DueDeliveries(w) == {d \in Delivery : Claimable(delivery[d], sender[w].age)}

ClaimDeliveries(w) ==
  /\ sender[w].step = "claim"
  /\ \E S \in InDueOrder(delivery, DueDeliveries(w), SendLimit) \ {{}},
        token \in Token \ SendTokensInUse :
       /\ delivery' = [d \in Delivery |->
            IF d \in S THEN Claim(delivery[d], sender[w].age, token) ELSE delivery[d]]
       /\ sender' = [sender EXCEPT ![w].step = "read", ![w].batch =
            {[item |-> d, token |-> token, attempts |-> delivery[d].attempts,
              due |-> delivery[d].wait] : d \in S}]
  /\ UNCHANGED <<subscribed, fanOut, reviving, posted, late, granted>>

NoDeliveryDue(w) ==
  /\ sender[w].step = "claim"
  /\ DueDeliveries(w) = {}
  /\ sender' = [sender EXCEPT ![w] = Resting]
  /\ UNCHANGED <<subscribed, fanOut, delivery, reviving, posted, late, granted>>

EarliestDue(w) == {h \in sender[w].batch : \A g \in sender[w].batch : h.due <= g.due}

\* A mutant: the subscription is not looked at again before the send.
SendsUnasked(w) ==
  /\ sender[w].step = "read"
  /\ \E h \in EarliestDue(w) :
       sender' = [sender EXCEPT ![w].item = h.item, ![w].step = "send"]
  /\ UNCHANGED <<subscribed, fanOut, delivery, reviving, posted, late, granted>>

\* The subscription is read again for each delivery of the batch.
ReadSubscription(w) ==
  /\ sender[w].step = "read"
  /\ \E h \in EarliestDue(w) :
       sender' = [sender EXCEPT ![w].item = h.item, ![w].step =
         IF subscribed[h.item[2]] = "active" THEN "send" ELSE "suppress"]
  /\ UNCHANGED <<subscribed, fanOut, delivery, reviving, posted, late, granted>>

Send(w, answer) ==
  /\ sender[w].step = "send"
  /\ sender' = [sender EXCEPT ![w].step = "ack", ![w].answer = answer]
  /\ LET d == sender[w].item
     IN  /\ posted' = [posted EXCEPT ![d] = @ + 1]
         /\ late' = [late EXCEPT ![d[2]] = IF subscribed[d[2]] = "active" THEN @ ELSE @ + 1]
  /\ UNCHANGED <<subscribed, fanOut, delivery, reviving, granted>>

MarkDelivered(r) == [MarkDone(r, "delivered") EXCEPT !.attempts = @ + 1]

\* Dead, with no attempt charged: none was made.
MarkSuppressed(r) == MarkDone(r, "dead")

\* A mutant: a failed POST is not charged to the row.
FailsForFree(r, h, now, answer) ==
  IF IsSuccess(answer) THEN MarkDelivered(r)
  ELSE IF ~IsRetryable(answer) \/ h.attempts + 1 >= MaxAttempts THEN MarkDead(r)
  ELSE DueIn(Unclaimed(r), RetryDelay[h.attempts], now)

AfterAnswer(r, h, now, answer) ==
  IF IsSuccess(answer) THEN MarkDelivered(r)
  ELSE IF ~IsRetryable(answer) \/ h.attempts + 1 >= MaxAttempts THEN MarkDead(r)
  ELSE MarkFailed(r, now, h.attempts)

\* On to the next delivery of the batch, or back to polling after the last.
Finish(w, h) ==
  LET rest == sender[w].batch \ {h}
  IN  sender' = [sender EXCEPT ![w] =
        IF rest = {} THEN Resting
        ELSE [@ EXCEPT !.batch = rest, !.step = "read", !.item = NoDelivery, !.answer = "none"]]

DeliveryInHand(w) == {h \in sender[w].batch : h.item = sender[w].item}

SuppressDelivery(w) ==
  /\ sender[w].step = "suppress"
  /\ \E h \in DeliveryInHand(w) :
       /\ delivery' = [delivery EXCEPT ![h.item] = IF Accepts(@, h.token) THEN MarkSuppressed(@) ELSE @]
       /\ Finish(w, h)
  /\ UNCHANGED <<subscribed, fanOut, reviving, posted, late, granted>>

RecordAnswer(w) ==
  /\ sender[w].step = "ack"
  /\ \E h \in DeliveryInHand(w) :
       /\ delivery' = [delivery EXCEPT ![h.item] =
            IF Accepts(@, h.token) THEN AfterAnswer(@, h, sender[w].age, sender[w].answer) ELSE @]
       /\ Finish(w, h)
  /\ UNCHANGED <<subscribed, fanOut, reviving, posted, late, granted>>

\* The process dies, or a throw leaves drainOnce: the rest of the batch stays
\* claimed and unsent.
SenderDies(w) ==
  /\ sender[w].step # "idle"
  /\ sender' = [sender EXCEPT ![w] = Resting]
  /\ UNCHANGED <<subscribed, fanOut, delivery, reviving, posted, late, granted>>

-----------------------------------------------------------------------------
(* Revival by an operator, one at a time: its lock is held throughout. *)

RefuseOrAccept(d) ==
  /\ reviving = NoDelivery
  /\ delivery[d].status = "dead"
  /\ granted[d] < MaxRevivalsOf
  /\ subscribed[d[2]] = "active"
  /\ reviving' = d
  /\ UNCHANGED <<subscribed, fanOut, delivery, sender, posted, late, granted>>

ReviveDelivery ==
  /\ reviving # NoDelivery
  /\ IF delivery[reviving].status = "dead"
     THEN /\ delivery' = [delivery EXCEPT ![reviving] = Revive(@)]
          /\ granted' = [granted EXCEPT ![reviving] = @ + 1]
     ELSE UNCHANGED <<delivery, granted>>
  /\ reviving' = NoDelivery
  /\ UNCHANGED <<subscribed, fanOut, sender, posted, late>>

DTick ==
  /\ delivery' = [d \in Delivery |->
       IF delivery[d].status = "pending" THEN Older(delivery[d]) ELSE delivery[d]]
  /\ sender' = [w \in Sender |->
       IF sender[w].step # "idle" /\ sender[w].age < Horizon
       THEN [sender[w] EXCEPT !.age = @ + 1] ELSE sender[w]]
  /\ UNCHANGED <<subscribed, fanOut, reviving, posted, late, granted>>

-----------------------------------------------------------------------------

Handle(w) ==
  ReadSubscription(w) \/ SuppressDelivery(w) \/ RecordAnswer(w) \/ \E a \in Answer : Send(w, a)

DNext ==
  \/ \E s \in Subscription :
       RegisterSubscription(s) \/ \E state \in {"active", "inactive"} : SetActive(s, state)
  \/ \E e \in Published : FanOutRead(e) \/ FanOutCommit(e) \/ FanOutRollback(e)
  \/ \E w \in Sender :
       \/ StartDrain(w)
       \/ RecoverDeliveries(w)
       \/ ClaimDeliveries(w)
       \/ NoDeliveryDue(w)
       \/ ReadSubscription(w)
       \/ \E a \in Answer : Send(w, a)
       \/ SuppressDelivery(w)
       \/ RecordAnswer(w)
       \/ SenderDies(w)
  \/ \E d \in Delivery : RefuseOrAccept(d)
  \/ ReviveDelivery
  \/ DTick

DSpec == DInit /\ [][DNext]_dvars

\* As for the relay: the loop polls, the transport's timeout ends every send,
\* and a worker is not killed at every single poll.
DFairness ==
  /\ WF_dvars(DTick)
  /\ \A w \in Sender :
       /\ WF_dvars(StartDrain(w))
       /\ SF_dvars(RecoverDeliveries(w))
       /\ SF_dvars(ClaimDeliveries(w) \/ NoDeliveryDue(w))
       /\ WF_dvars(Handle(w))

-----------------------------------------------------------------------------

DTypeOK ==
  /\ subscribed \in [Subscription -> {"unregistered", "active", "inactive"}]
  /\ fanOut \in [Published -> [step : {"waiting", "queueing", "published"}, to : SUBSET Subscription]]
  /\ delivery \in [Delivery -> Row("delivered")]
  /\ sender \in [Sender ->
       [step : {"idle", "reclaim", "claim", "read", "suppress", "send", "ack"}, age : 0..Horizon,
        batch : SUBSET ClaimedDelivery, item : Delivery \union {NoDelivery}, answer : Answer]]
  /\ reviving \in Delivery \union {NoDelivery}
  /\ posted \in [Delivery -> Nat]
  /\ late \in [Subscription -> Nat]
  /\ granted \in [Delivery -> 0..MaxRevivalsOf]

\* A switched-off endpoint is left alone: from the moment a subscription is
\* deactivated it receives at most the one request each worker had already
\* decided to send, whatever is still queued, retried, reclaimed or revived.
StopsSending == \A s \in Subscription : late[s] <= Cardinality(Sender)

\* An endpoint sees an event at most as often as its budgets allow: every POST
\* is accounted for by a charged attempt, a charged abandonment, the claim now
\* standing, or what a revival forgave.  No stalled worker sends for free.
SendsAreBudgeted ==
  \A d \in Delivery :
    posted[d] <= delivery[d].attempts + delivery[d].reclaims
                   + (IF delivery[d].claimed THEN 1 ELSE 0) + granted[d] * (MaxReclaims + 1)

SendersOf(d) ==
  {w \in Sender : \E h \in sender[w].batch : h.item = d /\ h.token = delivery[d].token}

Holder(d) == OwnerOf(delivery[d].claimed, SendersOf(d))

DeliveryState(d) ==
  CASE delivery[d].status = "pending" -> "open"
    [] delivery[d].status = "delivered" -> "done"
    [] OTHER -> delivery[d].status

DeliveryWork == INSTANCE ExclusiveWork WITH
  Item <- Delivery, Worker <- Sender, Nobody <- "nobody", Lost <- "lost",
  state <- [d \in Delivery |-> DeliveryState(d)], owner <- [d \in Delivery |-> Holder(d)]

\* Deliveries are exclusive work: fan-outs that run twice, suppressions,
\* revivals and late answers included, one worker at a time can settle a
\* delivery and a delivered one is never sent again as new (B-22, B-27, B-28).
DeliveryIsExclusive == DeliveryWork!WSpec

\* A queued delivery is in the end delivered or dead, however often workers
\* die or stall, endpoints hang and operators toggle the subscription.
EveryDeliverySettles ==
  \A d \in Delivery : delivery[d].status = "pending" ~> Terminal(delivery[d], "delivered")
=============================================================================
