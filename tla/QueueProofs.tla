----------------------------- MODULE QueueProofs -----------------------------
(***************************************************************************)
(* The safety of the two queues that a relay's events fill, for any number *)
(* of events, subscriptions, recipients, workers, tokens and budgets, and  *)
(* of the three queues together.                                           *)
(*                                                                         *)
(* External delivery rests on one inductive invariant, DInv: a claim is    *)
(* live and its token is in one batch, and every POST that was made, or    *)
(* that some worker may still make from a record it holds, is paid for by  *)
(* an attempt, an abandonment, the claim standing on the row or a revival. *)
(*                                                                         *)
(* Notifications rest on another, NInv: a message is being processed       *)
(* exactly while it carries a token, a dispatcher's record under that      *)
(* token agrees with the row on the attempt it is making, and every send   *)
(* that was made, or that some dispatcher may still make, is an attempt    *)
(* the row was charged for.                                                *)
(***************************************************************************)
EXTENDS MCQueues, OutboxRelayProofs

-----------------------------------------------------------------------------
(* External delivery. *)


SenderState ==
  [step : {"idle", "reclaim", "claim", "read", "suppress", "send", "ack"}, age : 0..Horizon,
   batch : SUBSET ClaimedDelivery, item : Delivery \union {NoDelivery}, answer : Answer]

\* A delivery's claim is live and carries its token, its abandonments are
\* within budget while it is alive, and a row that is not there is blank.
DRowOK(r) ==
  /\ r.claimed <=> r.token # NoToken
  /\ r.claimed => r.status = "pending"
  /\ r.reclaims <= MaxReclaims + 1
  /\ r.status = "pending" => r.reclaims <= MaxReclaims
  /\ r.status = "absent" => r.attempts = 0 /\ r.reclaims = 0

DRowsOK == \A d \in Delivery : DRowOK(delivery[d])

SenderTokensApart ==
  \A v, w \in Sender : \A g \in sender[v].batch, h \in sender[w].batch :
    g.token = h.token => v = w

OneRecordPerDelivery ==
  \A w \in Sender : \A g, h \in sender[w].batch : g.item = h.item => g = h

\* A worker holds records only between claiming and resting, and what it is
\* sending, suppressing or recording is one of them.
HoldsItsItem(x) ==
  /\ x.step \in {"idle", "reclaim", "claim"} => x.batch = {}
  /\ x.step \in {"suppress", "send", "ack"} =>
       x.item \in Delivery /\ \E h \in x.batch : h.item = x.item

\* Workers send to registered endpoints only.
InHandIsHeld ==
  \A w \in Sender :
    /\ HoldsItsItem(sender[w])
    /\ sender[w].step = "send" => subscribed[sender[w].item[2]] # "unregistered"

\* The workers that may still send a delivery: it is in their batch, and not
\* the one they have just sent.
Unsent(d) ==
  {w \in Sender : /\ \E h \in sender[w].batch : h.item = d
                  /\ ~(sender[w].step = "ack" /\ sender[w].item = d)}

\* What a delivery has paid for.
Credit(r, n) ==
  r.attempts + r.reclaims + (IF r.claimed THEN 1 ELSE 0) + n * (MaxReclaims + 1)

\* Every POST made, and every POST some worker may yet make, is paid for.
SendsReserved ==
  \A d \in Delivery : posted[d] + Cardinality(Unsent(d)) <= Credit(delivery[d], granted[d])

Sending(s) == {w \in Sender : sender[w].step = "send" /\ sender[w].item[2] = s}

\* Every late POST, and every one already decided, is one worker's only one.
LateReserved ==
  \A s \in Subscription :
    IF subscribed[s] = "inactive"
    THEN late[s] + Cardinality(Sending(s)) <= Cardinality(Sender)
    ELSE late[s] = 0

\* An operator's revival in progress is within the model's bound on revivals.
RevivalInBound == reviving # NoDelivery => granted[reviving] < MaxRevivalsOf

DInv ==
  /\ DTypeOK
  /\ DRowsOK
  /\ SenderTokensApart
  /\ OneRecordPerDelivery
  /\ InHandIsHeld
  /\ SendsReserved
  /\ LateReserved

-----------------------------------------------------------------------------
(* Counting workers, and paying for sends. *)

\* A set of workers has a size, no larger than the number of workers, and one
\* worker more or less changes it by one.
LEMMA WorkerCount ==
  ASSUME NEW A, A \subseteq Sender
  PROVE  /\ Cardinality(A) \in Nat /\ Cardinality(Sender) \in Nat
         /\ Cardinality(A) <= Cardinality(Sender)
         /\ \A B : B \subseteq A => Cardinality(B) \in Nat /\ Cardinality(B) <= Cardinality(A)
         /\ \A w : Cardinality(A \union {w}) <= Cardinality(A) + 1
         /\ \A w \in A : Cardinality(A \ {w}) = Cardinality(A) - 1
BY SenderNameAssumption, Headcount

\* A delivery's record is about a delivery, to a subscription, under a token.
LEMMA DeliveryParts ==
  /\ \A d \in Delivery : d[1] \in Published /\ d[2] \in Subscription
  /\ \A h \in ClaimedDelivery : h.item \in Delivery /\ h.token \in Token /\ h.attempts \in Nat
BY DEF Delivery, ClaimedDelivery

\* Credit is a count, made of the row's charges and what its revivals forgave.
LEMMA CreditCount ==
  ASSUME NEW r, r \in Row("delivered"), NEW n \in Nat
  PROVE  /\ Credit(r, n) \in Nat
         /\ Credit(r, n + 1) = Credit(r, n) + MaxReclaims + 1
<1> DEFINE c == IF r.claimed THEN 1 ELSE 0
           k == n * (MaxReclaims + 1)
<1>1. r.attempts \in Nat /\ r.reclaims \in Nat /\ c \in Nat
  BY DEF Row
<1>2. k \in Nat /\ (n + 1) * (MaxReclaims + 1) = k + MaxReclaims + 1 /\ MaxReclaims \in Nat
  BY BudgetAssumption
<1>3. Credit(r, n) = r.attempts + r.reclaims + c + k
  BY DEF Credit
<1>4. Credit(r, n + 1) = r.attempts + r.reclaims + c + (k + MaxReclaims + 1)
  BY <1>2 DEF Credit
<1> HIDE DEF c, k
<1> QED
  BY <1>1, <1>2, <1>3, <1>4

\* What each write to a row does to its credit.
LEMMA CreditOf ==
  \A r, s, n :
    r \in Row("delivered") /\ s \in Row("delivered") /\ n \in Nat =>
      /\ s.claimed = r.claimed /\ s.attempts = r.attempts /\ s.reclaims = r.reclaims
           => Credit(s, n) = Credit(r, n)
      /\ r.claimed = FALSE /\ s.claimed = TRUE /\ s.attempts = r.attempts
           /\ s.reclaims = r.reclaims
           => Credit(s, n) = Credit(r, n) + 1
      /\ r.claimed = TRUE /\ s.claimed = FALSE
           /\ s.attempts + s.reclaims = r.attempts + r.reclaims + 1
           => Credit(s, n) = Credit(r, n)
      /\ r.claimed = TRUE /\ s.claimed = FALSE /\ s.attempts = r.attempts
           /\ s.reclaims = r.reclaims
           => Credit(s, n) = Credit(r, n) - 1
<1> TAKE r, s, n
<1> HAVE r \in Row("delivered") /\ s \in Row("delivered") /\ n \in Nat
<1> DEFINE k == n * (MaxReclaims + 1)
<1>1. /\ r.attempts \in Nat /\ r.reclaims \in Nat /\ s.attempts \in Nat /\ s.reclaims \in Nat
      /\ r.claimed \in BOOLEAN /\ s.claimed \in BOOLEAN
  BY DEF Row
<1>2. k \in Nat
  BY BudgetAssumption
<1>3. /\ Credit(r, n) = r.attempts + r.reclaims + (IF r.claimed THEN 1 ELSE 0) + k
      /\ Credit(s, n) = s.attempts + s.reclaims + (IF s.claimed THEN 1 ELSE 0) + k
  BY DEF Credit
<1> HIDE DEF k
<1> QED
  BY <1>1, <1>2, <1>3

\* A delivery whose pending sends do not grow and whose credit does not shrink
\* stays paid for.
LEMMA StaysReserved ==
  ASSUME DInv, DTypeOK', NEW d \in Delivery, Unsent(d)' \subseteq Unsent(d),
         posted'[d] = posted[d],
         Credit(delivery[d], granted[d]) <= Credit(delivery'[d], granted'[d])
  PROVE  posted'[d] + Cardinality(Unsent(d)') <= Credit(delivery'[d], granted'[d])
<1> DEFINE p == posted[d]  u == Cardinality(Unsent(d))  v == Cardinality(Unsent(d)')
           c == Credit(delivery[d], granted[d])  e == Credit(delivery'[d], granted'[d])
<1>1. Unsent(d) \subseteq Sender
  BY DEF Unsent
<1>2. u \in Nat /\ v \in Nat /\ v <= u
  BY <1>1, WorkerCount
<1>3. p \in Nat /\ p + u <= c
  BY DEF DInv, DTypeOK, SendsReserved
<1>4. c \in Nat /\ e \in Nat
  <2>1. granted[d] \in Nat /\ granted'[d] \in Nat
    BY SenderAssumption DEF DInv, DTypeOK
  <2>2. delivery[d] \in Row("delivered") /\ delivery'[d] \in Row("delivered")
    BY DEF DInv, DTypeOK
  <2> QED
    BY <2>1, <2>2, CreditCount
<1>5. c <= e
  OBVIOUS
<1> HIDE DEF p, u, v, c, e
<1>6. p + v <= e
  BY <1>2, <1>3, <1>4, <1>5
<1> QED
  BY <1>6 DEF p, v, e

\* Switched-off endpoints stay covered while no worker decides to send.
LEMMA StaysLate ==
  ASSUME DInv, UNCHANGED <<subscribed, late>>,
         \A s \in Subscription : Sending(s)' \subseteq Sending(s)
  PROVE  LateReserved'
<1> SUFFICES ASSUME NEW s \in Subscription
             PROVE  IF subscribed[s] = "inactive"
                    THEN late[s] + Cardinality(Sending(s)') <= Cardinality(Sender)
                    ELSE late[s] = 0
  BY DEF LateReserved
<1>1. Sending(s) \subseteq Sender /\ Sending(s)' \subseteq Sending(s)
  BY DEF Sending
<1> DEFINE u == Cardinality(Sending(s))  v == Cardinality(Sending(s)')  n == Cardinality(Sender)
<1>2. u \in Nat /\ v \in Nat /\ n \in Nat /\ v <= u
  BY <1>1, WorkerCount
<1>3. /\ late[s] \in Nat
      /\ IF subscribed[s] = "inactive" THEN late[s] + u <= n ELSE late[s] = 0
  BY DEF DInv, DTypeOK, LateReserved
<1> HIDE DEF u, v, n
<1>4. IF subscribed[s] = "inactive" THEN late[s] + v <= n ELSE late[s] = 0
  BY <1>2, <1>3
<1> QED
  BY <1>4 DEF v, n

\* Batches that only shrink keep their tokens and their records apart.
LEMMA NothingMoreHeld ==
  ASSUME DInv, \A w \in Sender : sender'[w].batch \subseteq sender[w].batch
  PROVE  SenderTokensApart' /\ OneRecordPerDelivery'
BY DEF DInv, SenderTokensApart, OneRecordPerDelivery

\* A step that moves no worker leaves what they may send as it is.
LEMMA WorkersUnmoved ==
  ASSUME DInv, UNCHANGED sender
  PROVE  /\ SenderTokensApart' /\ OneRecordPerDelivery'
         /\ \A d \in Delivery : Unsent(d)' = Unsent(d)
         /\ \A s \in Subscription : Sending(s)' = Sending(s)
BY DEF DInv, SenderTokensApart, OneRecordPerDelivery, Unsent, Sending

\* One worker moves.
OnlyWorker(w) ==
  /\ sender' \in [Sender -> SenderState]
  /\ \A v \in Sender : v # w => sender'[v] = sender[v]

\* A worker that takes up no new record, and keeps none it has sent, may send
\* no more than before.
LEMMA WorkerMoves ==
  ASSUME DInv, NEW w \in Sender, OnlyWorker(w),
         sender'[w].batch \subseteq sender[w].batch,
         \A h \in sender'[w].batch : ~(sender[w].step = "ack" /\ sender[w].item = h.item)
  PROVE  /\ SenderTokensApart' /\ OneRecordPerDelivery'
         /\ \A d \in Delivery : Unsent(d)' \subseteq Unsent(d)
<1>1. \A v \in Sender : sender'[v].batch \subseteq sender[v].batch
  BY DEF OnlyWorker
<1>2. ASSUME NEW d \in Delivery, NEW v \in Unsent(d)' PROVE v \in Unsent(d)
  <2>1. CASE v = w
    BY <2>1 DEF Unsent
  <2>2. CASE v # w
    BY <2>2 DEF Unsent, OnlyWorker
  <2> QED
    BY <2>1, <2>2
<1> QED
  BY <1>1, <1>2, NothingMoreHeld

\* A worker that does not turn to sending adds nothing to the sends decided.
LEMMA NotSending ==
  ASSUME NEW w \in Sender, OnlyWorker(w), sender'[w].step # "send"
  PROVE  \A s \in Subscription : Sending(s)' \subseteq Sending(s)
BY DEF OnlyWorker, Sending

\* What the moved worker has in hand is all there is to check.
LEMMA HandMoves ==
  ASSUME DInv, NEW w \in Sender, OnlyWorker(w), UNCHANGED subscribed,
         HoldsItsItem(sender'[w]),
         sender'[w].step = "send" => subscribed[sender'[w].item[2]] # "unregistered"
  PROVE  InHandIsHeld'
BY DEF DInv, InHandIsHeld, OnlyWorker

\* The worker's state, piece by piece.
LEMMA WorkerParts ==
  ASSUME DInv, NEW w \in Sender
  PROVE  /\ sender[w] \in SenderState /\ sender \in [Sender -> SenderState]
         /\ sender[w].batch \subseteq ClaimedDelivery
         /\ sender[w].age \in Nat
         /\ HoldsItsItem(sender[w])
BY TimingAssumption DEF DInv, DTypeOK, SenderState, InHandIsHeld

-----------------------------------------------------------------------------
(* Every step preserves the invariant. *)

\* Nothing is queued, claimed, sent or registered at first.
LEMMA InitDInv == DInit => DInv
<1> SUFFICES ASSUME DInit PROVE DInv
  OBVIOUS
<1>1. Absent \in Row("delivered") /\ Resting \in SenderState
  BY TimingAssumption DEF Absent, Row, Resting, SenderState, Answer
<1>2. DTypeOK
  BY <1>1, SenderAssumption DEF DInit, DTypeOK, SenderState
<1>3. DRowsOK
  BY BudgetAssumption DEF DInit, DRowsOK, DRowOK, Absent
<1>4. SenderTokensApart /\ OneRecordPerDelivery /\ InHandIsHeld
  BY DEF DInit, Resting, SenderTokensApart, OneRecordPerDelivery, InHandIsHeld, HoldsItsItem
<1>5. SendsReserved
  <2> SUFFICES ASSUME NEW d \in Delivery
               PROVE  posted[d] + Cardinality(Unsent(d)) <= Credit(delivery[d], granted[d])
    BY DEF SendsReserved
  <2>1. Unsent(d) = {}
    BY DEF DInit, Resting, Unsent
  <2>2. Cardinality(Unsent(d)) = 0
    BY <2>1, FS_EmptySet
  <2>3. delivery[d] = Absent /\ granted[d] = 0 /\ posted[d] = 0
    BY DEF DInit
  <2>4. Credit(Absent, 0) \in Nat
    BY <1>1, CreditCount
  <2> QED
    BY <2>2, <2>3, <2>4
<1>6. LateReserved
  BY DEF DInit, LateReserved
<1> QED
  BY <1>2, <1>3, <1>4, <1>5, <1>6 DEF DInv

\* A step that leaves rows, workers, sends and grants alone keeps deliveries paid for.
LEMMA RowsUntouched ==
  ASSUME DInv, DTypeOK', UNCHANGED <<delivery, sender, posted, granted>>
  PROVE  /\ DRowsOK' /\ SenderTokensApart' /\ OneRecordPerDelivery' /\ SendsReserved'
<1>1. \A d \in Delivery : Unsent(d)' = Unsent(d)
  BY WorkersUnmoved
<1>2. SendsReserved'
  BY <1>1 DEF DInv, SendsReserved
<1> QED
  BY <1>2, WorkersUnmoved DEF DInv, DRowsOK

\* Registering an endpoint or switching it starts its count of late sends over.
LEMMA SubscriptionStep ==
  ASSUME DInv, NEW s \in Subscription,
         RegisterSubscription(s) \/ \E state \in {"active", "inactive"} : SetActive(s, state)
  PROVE  DInv'
<1>1. PICK state \in {"active", "inactive"} :
        /\ subscribed' = [subscribed EXCEPT ![s] = state]
        /\ late' = [late EXCEPT ![s] = IF subscribed[s] = state THEN @ ELSE 0]
        /\ UNCHANGED <<fanOut, delivery, sender, reviving, posted, granted>>
  <2>1. CASE RegisterSubscription(s)
    <3>1. late[s] = 0 /\ late \in [Subscription -> Nat]
      BY <2>1 DEF RegisterSubscription, DInv, DTypeOK, LateReserved
    <3>2. late = [late EXCEPT ![s] = IF subscribed[s] = "active" THEN @ ELSE 0]
      BY <3>1
    <3> QED
      BY <2>1, <3>2 DEF RegisterSubscription
  <2>2. CASE \E state \in {"active", "inactive"} : SetActive(s, state)
    BY <2>2 DEF SetActive
  <2> QED
    BY <2>1, <2>2
<1>2. DTypeOK'
  BY <1>1 DEF DInv, DTypeOK
<1>3. /\ \A q \in Subscription : q # s => subscribed'[q] = subscribed[q] /\ late'[q] = late[q]
      /\ subscribed'[s] = state
      /\ late'[s] = IF subscribed[s] = state THEN late[s] ELSE 0
  BY <1>1 DEF DInv, DTypeOK
<1>4. InHandIsHeld'
  <2> SUFFICES ASSUME NEW w \in Sender
               PROVE  /\ HoldsItsItem(sender[w])
                      /\ sender[w].step = "send" => subscribed'[sender[w].item[2]] # "unregistered"
    BY <1>1 DEF InHandIsHeld
  <2>1. /\ HoldsItsItem(sender[w])
        /\ sender[w].step = "send" => subscribed[sender[w].item[2]] # "unregistered"
    BY DEF DInv, InHandIsHeld
  <2>2. sender[w].step = "send" => sender[w].item[2] \in Subscription
    BY <2>1, DeliveryParts DEF HoldsItsItem
  <2> QED
    BY <1>3, <2>1, <2>2
<1>5. LateReserved'
  <2> SUFFICES ASSUME NEW q \in Subscription
               PROVE  IF subscribed'[q] = "inactive"
                      THEN late'[q] + Cardinality(Sending(q)) <= Cardinality(Sender)
                      ELSE late'[q] = 0
    BY <1>1, WorkersUnmoved DEF LateReserved
  <2>1. IF subscribed[q] = "inactive"
        THEN late[q] + Cardinality(Sending(q)) <= Cardinality(Sender)
        ELSE late[q] = 0
    BY DEF DInv, LateReserved
  <2>2. Sending(q) \subseteq Sender
    BY DEF Sending
  <2>3. Cardinality(Sending(q)) \in Nat /\ Cardinality(Sending(q)) <= Cardinality(Sender)
    BY <2>2, WorkerCount
  <2> QED
    BY <1>3, <2>1, <2>3
<1> QED
  BY <1>1, <1>2, <1>4, <1>5, RowsUntouched DEF DInv

\* Fan-outs read and give up, and an operator looks, without touching a row.
LEMMA LookStep ==
  ASSUME DInv, DTypeOK',
         UNCHANGED <<subscribed, delivery, sender, posted, late, granted>>
  PROVE  DInv'
<1>1. InHandIsHeld'
  BY DEF DInv, InHandIsHeld
<1>2. LateReserved'
  BY WorkersUnmoved, StaysLate
<1> QED
  BY <1>1, <1>2, RowsUntouched DEF DInv

\* A committed fan-out adds rows where there were none.
LEMMA FanOutStep ==
  ASSUME DInv, NEW e \in Published, FanOutRead(e) \/ FanOutCommit(e) \/ FanOutRollback(e)
  PROVE  DInv'
<1>1. CASE FanOutRead(e)
  <2>1. DTypeOK'
    BY <1>1 DEF FanOutRead, SubscriptionsFor, DInv, DTypeOK
  <2> QED
    BY <1>1, <2>1, LookStep DEF FanOutRead
<1>2. CASE FanOutRollback(e)
  <2>1. DTypeOK'
    BY <1>2 DEF FanOutRollback, DInv, DTypeOK
  <2> QED
    BY <1>2, <2>1, LookStep DEF FanOutRollback
<1>3. CASE FanOutCommit(e)
  <2>1. \A d \in Delivery :
          \/ delivery'[d] = delivery[d]
          \/ delivery[d].status = "absent" /\ delivery'[d] = NewRow
    BY <1>3 DEF FanOutCommit, Queue
  <2>2. /\ NewRow \in Row("delivered") /\ IsFree(NewRow) /\ NewRow.status = "pending"
        /\ NewRow.attempts = 0 /\ NewRow.reclaims = 0
    BY BlankRow
  <2>3. DTypeOK'
    <3>1. delivery' \in [Delivery -> Row("delivered")]
      BY <1>3, <2>1, <2>2 DEF FanOutCommit, DInv, DTypeOK
    <3> QED
      BY <1>3, <3>1 DEF FanOutCommit, DInv, DTypeOK
  <2>4. DRowsOK'
    <3> SUFFICES ASSUME NEW d \in Delivery PROVE DRowOK(delivery'[d])
      BY DEF DRowsOK
    <3>1. DRowOK(NewRow)
      BY <2>2, BudgetAssumption DEF DRowOK, IsFree
    <3> QED
      BY <2>1, <3>1 DEF DInv, DRowsOK
  <2>5. SendsReserved'
    <3> SUFFICES ASSUME NEW d \in Delivery
                 PROVE  posted'[d] + Cardinality(Unsent(d)') <= Credit(delivery'[d], granted'[d])
      BY DEF SendsReserved
    <3>1. /\ delivery[d] \in Row("delivered") /\ delivery'[d] \in Row("delivered")
          /\ granted[d] \in Nat /\ DRowOK(delivery[d])
      BY <2>3, SenderAssumption DEF DInv, DTypeOK, DRowsOK
    <3>2. delivery[d].status = "absent" =>
            /\ delivery[d].claimed = FALSE /\ delivery[d].attempts = 0 /\ delivery[d].reclaims = 0
      BY <3>1 DEF DRowOK, Row
    <3>3. /\ delivery'[d].claimed = delivery[d].claimed
          /\ delivery'[d].attempts = delivery[d].attempts
          /\ delivery'[d].reclaims = delivery[d].reclaims
      BY <2>1, <2>2, <3>2 DEF IsFree
    <3>4. Credit(delivery'[d], granted[d]) = Credit(delivery[d], granted[d])
      BY <3>1, <3>3, CreditOf
    <3>5. Credit(delivery[d], granted[d]) \in Nat
      BY <3>1, CreditCount
    <3>6. Unsent(d)' = Unsent(d) /\ posted' = posted /\ granted' = granted
      BY <1>3, WorkersUnmoved DEF FanOutCommit
    <3> QED
      BY <2>3, <3>4, <3>5, <3>6, StaysReserved
  <2>6. InHandIsHeld'
    BY <1>3 DEF DInv, InHandIsHeld, FanOutCommit
  <2>7. LateReserved'
    BY <1>3, WorkersUnmoved, StaysLate DEF FanOutCommit
  <2>8. SenderTokensApart' /\ OneRecordPerDelivery'
    BY <1>3, WorkersUnmoved DEF FanOutCommit
  <2> QED
    BY <2>3, <2>4, <2>5, <2>6, <2>7, <2>8 DEF DInv
<1> QED
  BY <1>1, <1>2, <1>3

\* A worker that starts, or that drops its copies because it rests or dies,
\* may send no more than before.
LEMMA IdleStep ==
  ASSUME DInv, NEW w \in Sender, OnlyWorker(w),
         sender'[w].batch = {}, sender'[w].step \in {"idle", "reclaim", "claim"},
         UNCHANGED <<subscribed, fanOut, delivery, reviving, posted, late, granted>>
  PROVE  DInv'
<1>1. DTypeOK'
  BY DEF OnlyWorker, DInv, DTypeOK, SenderState
<1>2. /\ SenderTokensApart' /\ OneRecordPerDelivery'
      /\ \A d \in Delivery : Unsent(d)' \subseteq Unsent(d)
  BY WorkerMoves
<1>3. LateReserved'
  BY NotSending, StaysLate
<1>4. InHandIsHeld'
  BY HandMoves DEF HoldsItsItem
<1>5. SendsReserved'
  <2> SUFFICES ASSUME NEW d \in Delivery
               PROVE  posted'[d] + Cardinality(Unsent(d)') <= Credit(delivery'[d], granted'[d])
    BY DEF SendsReserved
  <2>1. Credit(delivery[d], granted[d]) \in Nat
    BY CreditCount, SenderAssumption DEF DInv, DTypeOK
  <2> QED
    BY <1>1, <1>2, <2>1, StaysReserved
<1> QED
  BY <1>1, <1>2, <1>3, <1>4, <1>5 DEF DInv, DRowsOK

\* drainOnce begins.
LEMMA StartStep ==
  ASSUME DInv, NEW w \in Sender, StartDrain(w)
  PROVE  DInv'
<1>1. sender[w].batch = {}
  BY WorkerParts DEF StartDrain, HoldsItsItem
<1>2. OnlyWorker(w) /\ sender'[w].step = "reclaim" /\ sender'[w].batch = sender[w].batch
  BY WorkerParts DEF StartDrain, OnlyWorker, SenderState
<1> QED
  BY <1>1, <1>2, IdleStep DEF StartDrain

\* There is nothing to send, or the process dies: the copies are gone.
LEMMA RestStep ==
  ASSUME DInv, NEW w \in Sender, NoDeliveryDue(w) \/ SenderDies(w)
  PROVE  DInv'
<1>1. Resting \in SenderState /\ Resting.batch = {} /\ Resting.step = "idle"
  BY TimingAssumption DEF Resting, SenderState, Answer
<1>2. sender' = [sender EXCEPT ![w] = Resting]
  BY DEF NoDeliveryDue, SenderDies
<1>3. OnlyWorker(w) /\ sender'[w] = Resting
  BY <1>1, <1>2, WorkerParts DEF OnlyWorker
<1> QED
  BY <1>1, <1>3, IdleStep DEF NoDeliveryDue, SenderDies

\* A recovery frees rows and charges each one abandonment for the claim it lost.
LEMMA RecoverStep ==
  ASSUME DInv, NEW w \in Sender, RecoverDeliveries(w)
  PROVE  DInv'
<1>1. PICK S \in InDueOrder(delivery, {d \in Delivery : Abandoned(delivery[d], sender[w].age)},
                            SendLimit) :
        delivery' = [d \in Delivery |-> IF d \in S THEN Reclaim(delivery[d], sender[w].age)
                                        ELSE delivery[d]]
  BY DEF RecoverDeliveries
<1>2. S \subseteq Delivery /\ \A d \in S : delivery[d].status = "pending" /\ delivery[d].claimed
  BY DEF InDueOrder, Abandoned
<1>3. sender[w].age \in Nat /\ \A d \in Delivery : delivery[d] \in Row("delivered")
  BY WorkerParts DEF DInv, DTypeOK
<1>4. ASSUME NEW d \in S
      PROVE  /\ delivery'[d] \in Row("delivered")
             /\ IsFree(delivery'[d])
             /\ delivery'[d].attempts = delivery[d].attempts
             /\ delivery'[d].reclaims = delivery[d].reclaims + 1
             /\ delivery'[d].status = IF delivery[d].reclaims + 1 > MaxReclaims
                                      THEN "dead" ELSE delivery[d].status
  <2>1. d \in Delivery /\ delivery'[d] = Reclaim(delivery[d], sender[w].age)
    BY <1>1, <1>2
  <2>2. delivery[d] \in Row("delivered") /\ sender[w].age \in Nat
    BY <1>3, <2>1
  <2>3. PICK r \in Row("delivered"), a \in Nat : r = delivery[d] /\ a = sender[w].age
    BY <2>2
  <2>4. /\ Reclaim(r, a) \in Row("delivered") /\ IsFree(Reclaim(r, a))
        /\ Reclaim(r, a).attempts = r.attempts
        /\ Reclaim(r, a).reclaims = r.reclaims + 1
        /\ Reclaim(r, a).status = IF r.reclaims + 1 > MaxReclaims THEN "dead" ELSE r.status
    BY ReclaimRow
  <2> QED
    BY <2>1, <2>3, <2>4
<1>5. \A d \in Delivery \ S : delivery'[d] = delivery[d]
  BY <1>1
<1>6. /\ OnlyWorker(w) /\ sender'[w].step = "claim" /\ sender'[w].batch = sender[w].batch
      /\ sender[w].batch = {}
  BY WorkerParts DEF RecoverDeliveries, OnlyWorker, SenderState, HoldsItsItem
<1>7. DTypeOK'
  <2>1. delivery' \in [Delivery -> Row("delivered")]
    BY <1>1, <1>3, <1>4, <1>5
  <2> QED
    BY <1>6, <2>1 DEF RecoverDeliveries, OnlyWorker, DInv, DTypeOK, SenderState
<1>8. DRowsOK'
  <2> SUFFICES ASSUME NEW d \in Delivery PROVE DRowOK(delivery'[d])
    BY DEF DRowsOK
  <2>1. DRowOK(delivery[d])
    BY DEF DInv, DRowsOK
  <2>2. CASE d \in S
    <3> DEFINE r == delivery[d]  s == delivery'[d]
    <3>1. IsFree(s) /\ r.status = "pending" /\ r.reclaims \in Nat
      BY <2>2, <1>2, <1>3, <1>4 DEF Row
    <3>2. /\ s.reclaims = r.reclaims + 1
          /\ s.status = IF r.reclaims + 1 > MaxReclaims THEN "dead" ELSE r.status
      BY <2>2, <1>4
    <3>3. r.reclaims <= MaxReclaims
      BY <2>1, <3>1 DEF DRowOK
    <3> HIDE DEF r, s
    <3>4. (s.claimed <=> s.token # NoToken) /\ (s.claimed => s.status = "pending")
      BY <3>1 DEF IsFree
    <3>5. DRowOK(s)
      BY <3>1, <3>2, <3>3, <3>4, BudgetAssumption DEF DRowOK
    <3> QED
      BY <3>5 DEF s
  <2>3. CASE d \notin S
    BY <2>1, <2>3, <1>5
  <2> QED
    BY <2>2, <2>3
<1>9. /\ SenderTokensApart' /\ OneRecordPerDelivery'
      /\ \A d \in Delivery : Unsent(d)' \subseteq Unsent(d)
  BY <1>6, WorkerMoves
<1>10. SendsReserved'
  <2> SUFFICES ASSUME NEW d \in Delivery
               PROVE  posted'[d] + Cardinality(Unsent(d)') <= Credit(delivery'[d], granted'[d])
    BY DEF SendsReserved
  <2>1. /\ delivery[d] \in Row("delivered") /\ delivery'[d] \in Row("delivered")
        /\ granted[d] \in Nat
    BY <1>7, SenderAssumption DEF DInv, DTypeOK
  <2>2. UNCHANGED <<posted, granted>>
    BY DEF RecoverDeliveries
  <2>3. Credit(delivery[d], granted[d]) \in Nat
    BY <2>1, CreditCount
  <2>4. Credit(delivery'[d], granted[d]) = Credit(delivery[d], granted[d])
    <3>1. CASE d \in S
      <4>1. delivery[d].claimed = TRUE /\ delivery'[d].claimed = FALSE
        BY <3>1, <2>1, <1>2, <1>4 DEF Row, IsFree
      <4>2. delivery'[d].attempts + delivery'[d].reclaims
              = delivery[d].attempts + delivery[d].reclaims + 1
        BY <3>1, <2>1, <1>4 DEF Row
      <4> QED
        BY <2>1, <4>1, <4>2, CreditOf
    <3>2. CASE d \notin S
      BY <3>2, <1>5
    <3> QED
      BY <3>1, <3>2
  <2> QED
    BY <1>7, <1>9, <2>2, <2>3, <2>4, StaysReserved
<1>11. LateReserved'
  BY <1>6, NotSending, StaysLate DEF RecoverDeliveries
<1>12. InHandIsHeld'
  BY <1>6, HandMoves DEF HoldsItsItem, RecoverDeliveries
<1> QED
  BY <1>7, <1>8, <1>9, <1>10, <1>11, <1>12 DEF DInv

\* A claim pays for the one POST its holder may make.
LEMMA DeliveryClaimStep ==
  ASSUME DInv, NEW w \in Sender, ClaimDeliveries(w)
  PROVE  DInv'
<1>1. PICK S \in InDueOrder(delivery, DueDeliveries(w), SendLimit) \ {{}},
           t \in Token \ SendTokensInUse :
        /\ delivery' = [d \in Delivery |->
             IF d \in S THEN Claim(delivery[d], sender[w].age, t) ELSE delivery[d]]
        /\ sender' = [sender EXCEPT ![w].step = "read", ![w].batch =
             {[item |-> d, token |-> t, attempts |-> delivery[d].attempts,
               due |-> delivery[d].wait] : d \in S}]
  BY DEF ClaimDeliveries
<1>2. S \subseteq Delivery /\ \A d \in S : delivery[d].status = "pending" /\ delivery[d].claimed = FALSE
  <2>1. \A d \in Delivery : delivery[d].claimed \in BOOLEAN
    BY DEF DInv, DTypeOK, Row
  <2> QED
    BY <2>1 DEF InDueOrder, DueDeliveries, Claimable
<1>3. sender[w].age \in Nat /\ \A d \in Delivery : delivery[d] \in Row("delivered")
  BY WorkerParts DEF DInv, DTypeOK
<1>4. ASSUME NEW d \in Delivery, d \in S
      PROVE  /\ delivery'[d] \in Row("delivered")
             /\ delivery'[d].claimed = TRUE /\ delivery'[d].token = t
             /\ SameHistory(delivery[d], delivery'[d])
  BY <1>1, <1>3, <1>4, ClaimRow
<1>5. \A d \in Delivery : d \notin S => delivery'[d] = delivery[d]
  BY <1>1
<1> DEFINE rec(d) == [item |-> d, token |-> t, attempts |-> delivery[d].attempts,
                      due |-> delivery[d].wait]
           B == {rec(d) : d \in S}
<1>6. \A d \in S : rec(d) \in ClaimedDelivery /\ rec(d).item = d /\ rec(d).token = t
  BY <1>2, <1>3 DEF ClaimedDelivery, Row
<1>7. sender' = [sender EXCEPT ![w].step = "read", ![w].batch = B]
  BY <1>1
<1> HIDE DEF rec
<1>8. B \subseteq ClaimedDelivery
  BY <1>6
<1> HIDE DEF B
<1>9. OnlyWorker(w) /\ sender'[w].step = "read" /\ sender'[w].batch = B
  BY <1>7, <1>8, WorkerParts DEF OnlyWorker, SenderState
<1>10. \A h \in B : h.item \in S /\ h.token = t /\ h = rec(h.item)
  BY <1>6 DEF B
<1>11. t \in Token /\ (\A d \in Delivery : delivery[d].token # t)
       /\ (\A v \in Sender : \A h \in sender[v].batch : h.token # t)
  BY DEF SendTokensInUse
<1>12. sender[w].batch = {}
  BY WorkerParts DEF ClaimDeliveries, HoldsItsItem
<1>13. DTypeOK'
  <2>1. delivery' \in [Delivery -> Row("delivered")]
    BY <1>1, <1>3, <1>4, <1>5
  <2> QED
    BY <1>9, <2>1 DEF ClaimDeliveries, OnlyWorker, DInv, DTypeOK, SenderState
<1>14. DRowsOK'
  <2> SUFFICES ASSUME NEW d \in Delivery PROVE DRowOK(delivery'[d])
    BY DEF DRowsOK
  <2>1. DRowOK(delivery[d])
    BY DEF DInv, DRowsOK
  <2>2. CASE d \in S
    <3> DEFINE r == delivery[d]  s == delivery'[d]
    <3>1. r.status = "pending" /\ s.claimed = TRUE /\ s.token # NoToken /\ SameHistory(r, s)
      BY <2>2, <1>2, <1>4, <1>11, NoTokenAssumption
    <3>2. DRowOK(r)
      BY <2>1
    <3> HIDE DEF r, s
    <3>3. DRowOK(s)
      BY <3>1, <3>2 DEF DRowOK, SameHistory
    <3> QED
      BY <3>3 DEF s
  <2>3. CASE d \notin S
    BY <2>1, <2>3, <1>5
  <2> QED
    BY <2>2, <2>3
<1>15. SenderTokensApart'
  <2> SUFFICES ASSUME NEW u \in Sender, NEW v \in Sender, NEW g \in sender'[u].batch,
                      NEW h \in sender'[v].batch, g.token = h.token
               PROVE  u = v
    BY DEF SenderTokensApart
  <2>1. CASE u = w
    BY <2>1, <1>9, <1>10, <1>11 DEF OnlyWorker
  <2>2. CASE u # w
    BY <2>2, <1>9, <1>10, <1>11 DEF OnlyWorker, DInv, SenderTokensApart
  <2> QED
    BY <2>1, <2>2
<1>16. OneRecordPerDelivery'
  <2> SUFFICES ASSUME NEW v \in Sender, NEW g \in sender'[v].batch, NEW h \in sender'[v].batch,
                      g.item = h.item
               PROVE  g = h
    BY DEF OneRecordPerDelivery
  <2>1. CASE v = w
    BY <2>1, <1>9, <1>10
  <2>2. CASE v # w
    BY <2>2, <1>9 DEF OnlyWorker, DInv, OneRecordPerDelivery
  <2> QED
    BY <2>1, <2>2
<1>17. SendsReserved'
  <2> SUFFICES ASSUME NEW d \in Delivery
               PROVE  posted'[d] + Cardinality(Unsent(d)') <= Credit(delivery'[d], granted'[d])
    BY DEF SendsReserved
  <2>1. /\ delivery[d] \in Row("delivered") /\ delivery'[d] \in Row("delivered")
        /\ granted[d] \in Nat /\ posted[d] \in Nat
    BY <1>13, SenderAssumption DEF DInv, DTypeOK
  <2>2. UNCHANGED <<posted, granted>>
    BY DEF ClaimDeliveries
  <2>3. Credit(delivery[d], granted[d]) \in Nat
    BY <2>1, CreditCount
  <2>4. CASE d \in S
    <3>1. Unsent(d)' \subseteq Unsent(d) \union {w} /\ Unsent(d) \subseteq Sender
      BY <1>9 DEF OnlyWorker, Unsent
    <3>2. Unsent(d) \union {w} \subseteq Sender
      BY <3>1
    <3> DEFINE u == Cardinality(Unsent(d))  v == Cardinality(Unsent(d)')
               k == Cardinality(Unsent(d) \union {w})
               c == Credit(delivery[d], granted[d])
    <3>3. u \in Nat /\ k <= u + 1
      BY <3>1, WorkerCount
    <3>4. v \in Nat /\ k \in Nat /\ v <= k
      BY <3>1, <3>2, WorkerCount
    <3>5. Credit(delivery'[d], granted[d]) = c + 1
      <4>1. /\ delivery[d].claimed = FALSE /\ delivery'[d].claimed = TRUE
            /\ delivery'[d].attempts = delivery[d].attempts
            /\ delivery'[d].reclaims = delivery[d].reclaims
        BY <2>4, <1>2, <1>4 DEF SameHistory
      <4> QED
        BY <2>1, <4>1, CreditOf
    <3>6. posted[d] + u <= c
      BY DEF DInv, SendsReserved
    <3> HIDE DEF u, v, k, c
    <3>7. posted[d] + v <= c + 1
      BY <2>1, <3>3, <3>4, <3>6, <2>3 DEF c
    <3> QED
      BY <2>2, <3>5, <3>7 DEF v
  <2>5. CASE d \notin S
    <3>1. Unsent(d)' \subseteq Unsent(d)
      BY <2>5, <1>9, <1>10 DEF OnlyWorker, Unsent
    <3> QED
      BY <1>13, <2>2, <2>3, <2>5, <3>1, <1>5, StaysReserved
  <2> QED
    BY <2>4, <2>5
<1>18. LateReserved'
  BY <1>9, NotSending, StaysLate DEF ClaimDeliveries
<1>19. InHandIsHeld'
  BY <1>9, HandMoves DEF HoldsItsItem, ClaimDeliveries
<1> QED
  BY <1>13, <1>14, <1>15, <1>16, <1>17, <1>18, <1>19 DEF DInv

\* The subscription is looked up again: a send is decided for an active
\* endpoint only.
LEMMA ReadStep ==
  ASSUME DInv, NEW w \in Sender, ReadSubscription(w)
  PROVE  DInv'
<1>1. PICK h \in EarliestDue(w) :
        sender' = [sender EXCEPT ![w].item = h.item, ![w].step =
          IF subscribed[h.item[2]] = "active" THEN "send" ELSE "suppress"]
  BY DEF ReadSubscription
<1>2. h \in sender[w].batch /\ h.item \in Delivery
  BY WorkerParts, DeliveryParts DEF EarliestDue
<1>3. sender[w].step = "read" /\ UNCHANGED <<subscribed, fanOut, delivery, reviving, posted, late, granted>>
  BY DEF ReadSubscription
<1>4. /\ OnlyWorker(w) /\ sender'[w].batch = sender[w].batch /\ sender'[w].item = h.item
      /\ sender'[w].step = IF subscribed[h.item[2]] = "active" THEN "send" ELSE "suppress"
  BY <1>1, <1>2, WorkerParts DEF OnlyWorker, SenderState
<1>5. DTypeOK'
  BY <1>3, <1>4 DEF OnlyWorker, DInv, DTypeOK, SenderState
<1>6. /\ SenderTokensApart' /\ OneRecordPerDelivery'
      /\ \A d \in Delivery : Unsent(d)' \subseteq Unsent(d)
  BY <1>3, <1>4, WorkerMoves
<1>7. InHandIsHeld'
  BY <1>2, <1>3, <1>4, HandMoves DEF HoldsItsItem
<1>8. SendsReserved'
  <2> SUFFICES ASSUME NEW d \in Delivery
               PROVE  posted'[d] + Cardinality(Unsent(d)') <= Credit(delivery'[d], granted'[d])
    BY DEF SendsReserved
  <2>1. Credit(delivery[d], granted[d]) \in Nat
    BY CreditCount, SenderAssumption DEF DInv, DTypeOK
  <2> QED
    BY <1>3, <1>5, <1>6, <2>1, StaysReserved
<1>9. LateReserved'
  <2> SUFFICES ASSUME NEW s \in Subscription
               PROVE  IF subscribed[s] = "inactive"
                      THEN late[s] + Cardinality(Sending(s)') <= Cardinality(Sender)
                      ELSE late[s] = 0
    BY <1>3 DEF LateReserved
  <2>1. IF subscribed[s] = "inactive"
        THEN late[s] + Cardinality(Sending(s)) <= Cardinality(Sender) ELSE late[s] = 0
    BY DEF DInv, LateReserved
  <2>2. ASSUME subscribed[s] = "inactive" PROVE Sending(s)' = Sending(s)
    <3>1. w \notin Sending(s)
      BY <1>3 DEF Sending
    <3>2. w \notin Sending(s)'
      BY <1>4, <2>2 DEF Sending
    <3>3. \A v \in Sender : v # w => (v \in Sending(s)' <=> v \in Sending(s))
      BY <1>4 DEF Sending, OnlyWorker
    <3> QED
      BY <3>1, <3>2, <3>3 DEF Sending
  <2> QED
    BY <2>1, <2>2
<1> QED
  BY <1>3, <1>5, <1>6, <1>7, <1>8, <1>9 DEF DInv, DRowsOK

\* A POST is made once per record, and to a switched-off endpoint once per worker.
LEMMA SendStep ==
  ASSUME DInv, NEW w \in Sender, NEW a \in Answer, Send(w, a)
  PROVE  DInv'
<1> DEFINE e == sender[w].item  q == e[2]
<1>1. sender[w].step = "send" /\ UNCHANGED <<subscribed, fanOut, delivery, reviving, granted>>
  BY DEF Send
<1>2. e \in Delivery /\ q \in Subscription /\ \E h \in sender[w].batch : h.item = e
  BY <1>1, WorkerParts, DeliveryParts DEF HoldsItsItem
<1>3. /\ OnlyWorker(w) /\ sender'[w].batch = sender[w].batch /\ sender'[w].item = e
      /\ sender'[w].step = "ack"
  BY WorkerParts DEF Send, OnlyWorker, SenderState
<1>4. /\ posted' = [posted EXCEPT ![e] = @ + 1] /\ posted \in [Delivery -> Nat]
      /\ late' = [late EXCEPT ![q] = IF subscribed[q] = "active" THEN @ ELSE @ + 1]
      /\ late \in [Subscription -> Nat]
  BY DEF Send, DInv, DTypeOK
<1> HIDE DEF q
<1>5. DTypeOK'
  <2>1. posted' \in [Delivery -> Nat] /\ late' \in [Subscription -> Nat]
    BY <1>2, <1>4
  <2> QED
    BY <1>1, <1>3, <2>1 DEF OnlyWorker, DInv, DTypeOK, SenderState
<1>6. /\ SenderTokensApart' /\ OneRecordPerDelivery'
      /\ \A d \in Delivery : Unsent(d)' \subseteq Unsent(d)
  BY <1>1, <1>3, WorkerMoves
<1>7. InHandIsHeld'
  BY <1>1, <1>2, <1>3, HandMoves DEF HoldsItsItem
<1>8. SendsReserved'
  <2> SUFFICES ASSUME NEW d \in Delivery
               PROVE  posted'[d] + Cardinality(Unsent(d)') <= Credit(delivery[d], granted[d])
    BY <1>1 DEF SendsReserved
  <2>1. Credit(delivery[d], granted[d]) \in Nat
    BY CreditCount, SenderAssumption DEF DInv, DTypeOK
  <2>2. CASE d = e
    <3>1. w \in Unsent(d) /\ w \notin Unsent(d)' /\ Unsent(d) \subseteq Sender
      BY <1>1, <1>2, <1>3, <2>2 DEF Unsent
    <3>2. Unsent(d)' \subseteq Unsent(d) \ {w} /\ Unsent(d) \ {w} \subseteq Sender
      BY <1>6, <3>1
    <3> DEFINE u == Cardinality(Unsent(d))  v == Cardinality(Unsent(d)')
               k == Cardinality(Unsent(d) \ {w})
               c == Credit(delivery[d], granted[d])
    <3>3. u \in Nat /\ k = u - 1
      BY <3>1, WorkerCount
    <3>4. v \in Nat /\ k \in Nat /\ v <= k
      BY <3>2, WorkerCount
    <3>5. posted[d] + u <= c /\ posted[d] \in Nat /\ posted'[d] = posted[d] + 1
      BY <1>4, <2>2 DEF DInv, SendsReserved
    <3>6. c \in Nat
      BY <2>1
    <3> HIDE DEF u, v, k, c
    <3>7. posted'[d] + v <= c
      BY <3>3, <3>4, <3>5, <3>6
    <3> QED
      BY <3>7 DEF v, c
  <2>3. CASE d # e
    <3>1. posted'[d] = posted[d]
      BY <1>4, <2>3
    <3> QED
      BY <1>1, <1>5, <1>6, <2>1, <3>1, StaysReserved
  <2> QED
    BY <2>2, <2>3
<1>9. LateReserved'
  <2> SUFFICES ASSUME NEW s \in Subscription
               PROVE  IF subscribed[s] = "inactive"
                      THEN late'[s] + Cardinality(Sending(s)') <= Cardinality(Sender)
                      ELSE late'[s] = 0
    BY <1>1 DEF LateReserved
  <2>1. IF subscribed[s] = "inactive"
        THEN late[s] + Cardinality(Sending(s)) <= Cardinality(Sender) ELSE late[s] = 0
    BY DEF DInv, LateReserved
  <2>2. Sending(s)' \subseteq Sending(s) /\ Sending(s) \subseteq Sender /\ w \notin Sending(s)'
    BY <1>3, NotSending DEF Sending
  <2> DEFINE u == Cardinality(Sending(s))  v == Cardinality(Sending(s)')
             n == Cardinality(Sender)
  <2>3. u \in Nat /\ v \in Nat /\ n \in Nat /\ v <= u /\ late[s] \in Nat
    BY <2>2, <1>4, WorkerCount
  <2>4. CASE s = q /\ subscribed[q] # "active"
    <3>1. subscribed[q] = "inactive"
      <4>1. subscribed[q] # "unregistered"
        BY <1>1 DEF DInv, InHandIsHeld, q
      <4> QED
        BY <1>2, <2>4, <4>1 DEF DInv, DTypeOK
    <3>2. w \in Sending(s)
      BY <1>1, <2>4 DEF Sending, q
    <3> DEFINE k == Cardinality(Sending(s) \ {w})
    <3>3. k = u - 1
      BY <2>2, <3>2, WorkerCount
    <3>4. Sending(s)' \subseteq Sending(s) \ {w} /\ Sending(s) \ {w} \subseteq Sender
      BY <2>2
    <3>5. v <= k /\ k \in Nat
      BY <3>4, WorkerCount
    <3>6. late'[s] = late[s] + 1
      BY <1>2, <1>4, <2>4
    <3>7. late[s] + u <= n
      BY <2>1, <2>4, <3>1
    <3> HIDE DEF u, v, n, k
    <3>8. late'[s] + v <= n
      BY <2>3, <3>3, <3>5, <3>6, <3>7
    <3> QED
      BY <2>4, <3>1, <3>8 DEF v, n
  <2>5. CASE ~(s = q /\ subscribed[q] # "active")
    <3>1. late'[s] = late[s]
      BY <1>2, <1>4, <2>5
    <3> HIDE DEF u, v, n
    <3>2. IF subscribed[s] = "inactive" THEN late[s] + u <= n ELSE late[s] = 0
      BY <2>1 DEF u, n
    <3>3. IF subscribed[s] = "inactive" THEN late'[s] + v <= n ELSE late'[s] = 0
      BY <2>3, <3>1, <3>2
    <3> QED
      BY <3>3 DEF v, n
  <2> QED
    BY <2>4, <2>5
<1> QED
  BY <1>1, <1>5, <1>6, <1>7, <1>8, <1>9 DEF DInv, DRowsOK

\* Finishing a record takes it out of the batch; the last one ends the round.
LEMMA FinishWorker ==
  ASSUME DInv, NEW w \in Sender, NEW h \in sender[w].batch, Finish(w, h)
  PROVE  /\ OnlyWorker(w)
         /\ sender'[w].batch = sender[w].batch \ {h}
         /\ sender'[w].step \in {"idle", "read"}
         /\ sender'[w].step = "idle" => sender'[w].batch = {}
<1> DEFINE x == sender[w]
           rest == sender[w].batch \ {h}
           next == [x EXCEPT !.batch = rest, !.step = "read", !.item = NoDelivery,
                             !.answer = "none"]
<1>1. x \in SenderState /\ sender \in [Sender -> SenderState] /\ rest \subseteq ClaimedDelivery
  BY WorkerParts
<1>2. sender' = [sender EXCEPT ![w] = IF rest = {} THEN Resting ELSE next]
  BY DEF Finish
<1>3. Resting \in SenderState /\ Resting.batch = {} /\ Resting.step = "idle"
  BY TimingAssumption DEF Resting, SenderState, Answer
<1> HIDE DEF rest
<1>4. next \in SenderState /\ next.batch = rest /\ next.step = "read"
  <2> HIDE DEF x
  <2> QED
    BY <1>1 DEF SenderState, Answer
<1> HIDE DEF next
<1>5. OnlyWorker(w) /\ sender'[w] = IF rest = {} THEN Resting ELSE next
  BY <1>1, <1>2, <1>3, <1>4 DEF OnlyWorker
<1> QED
  BY <1>3, <1>4, <1>5 DEF rest

\* A worker that finishes a record it no longer owns writes nothing; one that
\* owns it frees the row, and pays for the POST if it made one.
LEMMA ConcludeStep ==
  ASSUME DInv, NEW w \in Sender, NEW h \in DeliveryInHand(w), Finish(w, h),
         sender[w].step \in {"suppress", "ack"},
         UNCHANGED <<subscribed, fanOut, reviving, posted, late, granted>>,
         NEW r \in Row("delivered"),
         delivery' = [delivery EXCEPT ![h.item] = IF Accepts(@, h.token) THEN r ELSE @],
         IsFree(r), r.status # "absent", r.reclaims = delivery[h.item].reclaims,
         r.attempts = delivery[h.item].attempts + (IF sender[w].step = "ack" THEN 1 ELSE 0)
  PROVE  DInv'
<1> DEFINE e == h.item  k == delivery[h.item]
<1>1. h \in sender[w].batch /\ sender[w].item = e /\ e \in Delivery /\ h.token # NoToken
  BY WorkerParts, DeliveryParts, NoTokenAssumption DEF DeliveryInHand
<1>2. /\ OnlyWorker(w) /\ sender'[w].batch = sender[w].batch \ {h}
      /\ sender'[w].step \in {"idle", "read"}
      /\ sender'[w].step = "idle" => sender'[w].batch = {}
  BY <1>1, FinishWorker
<1>3. \A g \in sender'[w].batch : g.item # e
  BY <1>1, <1>2 DEF DInv, OneRecordPerDelivery
<1>4. delivery \in [Delivery -> Row("delivered")] /\ k \in Row("delivered")
  BY <1>1 DEF DInv, DTypeOK
<1>5. /\ \A d \in Delivery : d # e => delivery'[d] = delivery[d]
      /\ delivery'[e] = IF Accepts(k, h.token) THEN r ELSE k
  BY <1>1, <1>4
<1>6. DTypeOK'
  <2>1. delivery' \in [Delivery -> Row("delivered")]
    BY <1>1, <1>4
  <2> QED
    BY <1>2, <2>1 DEF OnlyWorker, DInv, DTypeOK, SenderState
<1>7. Accepts(k, h.token) => /\ k.claimed = TRUE /\ k.status = "pending"
                             /\ k.reclaims <= MaxReclaims
  <2>1. DRowOK(k)
    BY <1>1 DEF DInv, DRowsOK
  <2> QED
    BY <1>1, <1>4, <2>1 DEF Accepts, DRowOK, Row
<1>8. DRowsOK'
  <2>1. ASSUME Accepts(k, h.token) PROVE DRowOK(r)
    <3>1. k.reclaims \in Nat /\ r.reclaims = k.reclaims /\ k.reclaims <= MaxReclaims
      BY <1>4, <1>7, <2>1 DEF Row
    <3>2. (r.claimed <=> r.token # NoToken) /\ (r.claimed => r.status = "pending")
      BY DEF IsFree
    <3> QED
      BY <3>1, <3>2, BudgetAssumption DEF DRowOK
  <2> QED
    BY <1>1, <1>5, <2>1 DEF DInv, DRowsOK
<1>9. /\ SenderTokensApart' /\ OneRecordPerDelivery'
      /\ \A d \in Delivery : Unsent(d)' \subseteq Unsent(d)
  <2>1. \A g \in sender'[w].batch : ~(sender[w].step = "ack" /\ sender[w].item = g.item)
    BY <1>1, <1>3
  <2> QED
    BY <1>2, <2>1, WorkerMoves
<1>10. LateReserved'
  BY <1>2, NotSending, StaysLate
<1>11. InHandIsHeld'
  BY <1>2, HandMoves DEF HoldsItsItem
<1>12. SendsReserved'
  <2> SUFFICES ASSUME NEW d \in Delivery
               PROVE  posted[d] + Cardinality(Unsent(d)') <= Credit(delivery'[d], granted[d])
    BY DEF SendsReserved
  <2>1. granted[d] \in Nat /\ posted[d] \in Nat
    BY SenderAssumption DEF DInv, DTypeOK
  <2>2. Credit(delivery[d], granted[d]) \in Nat
    BY <1>4, <2>1, CreditCount
  <2>3. CASE delivery'[d] = delivery[d]
    BY <1>6, <1>9, <2>2, <2>3, StaysReserved
  <2>4. CASE delivery'[d] # delivery[d]
    <3>1. d = e /\ Accepts(k, h.token) /\ delivery'[d] = r
      BY <1>5, <2>4
    <3>2. k.claimed = TRUE /\ r.claimed = FALSE /\ r.reclaims = k.reclaims
      BY <1>7, <3>1 DEF IsFree
    <3>3. CASE sender[w].step = "ack"
      <4>1. r.attempts + r.reclaims = k.attempts + k.reclaims + 1
        BY <1>4, <3>2, <3>3 DEF Row
      <4>2. Credit(r, granted[d]) = Credit(k, granted[d])
        <5> HIDE DEF k
        <5> QED
          BY <1>4, <2>1, <3>2, <4>1, CreditOf
      <4> QED
        BY <1>6, <1>9, <2>2, <3>1, <4>2, StaysReserved
    <3>4. CASE sender[w].step = "suppress"
      <4>1. r.attempts = k.attempts
        BY <1>4, <3>4 DEF Row
      <4>2. Credit(r, granted[d]) = Credit(k, granted[d]) - 1
        BY <1>4, <2>1, <3>2, <4>1, CreditOf
      <4>3. w \in Unsent(d) /\ w \notin Unsent(d)' /\ Unsent(d) \subseteq Sender
        BY <1>1, <1>3, <3>1, <3>4 DEF Unsent
      <4>4. Unsent(d)' \subseteq Unsent(d) \ {w} /\ Unsent(d) \ {w} \subseteq Sender
        BY <1>9, <4>3
      <4> DEFINE u == Cardinality(Unsent(d))  v == Cardinality(Unsent(d)')
                 j == Cardinality(Unsent(d) \ {w})
                 c == Credit(delivery[d], granted[d])
      <4>5. u \in Nat /\ j = u - 1
        BY <4>3, WorkerCount
      <4>6. v \in Nat /\ j \in Nat /\ v <= j
        BY <4>4, WorkerCount
      <4>7. posted[d] + u <= c
        BY DEF DInv, SendsReserved
      <4>8. Credit(delivery'[d], granted[d]) = c - 1 /\ c \in Nat
        BY <2>2, <3>1, <4>2
      <4> HIDE DEF u, v, j, c
      <4>9. posted[d] + v <= c - 1
        BY <2>1, <4>5, <4>6, <4>7, <4>8
      <4> QED
        BY <4>8, <4>9 DEF v
    <3> QED
      BY <3>3, <3>4
  <2> QED
    BY <2>3, <2>4
<1> QED
  BY <1>6, <1>8, <1>9, <1>10, <1>11, <1>12 DEF DInv

\* A suppressed delivery is dead and free, and was charged nothing.
LEMMA SuppressedRow ==
  ASSUME NEW k, k \in Row("delivered")
  PROVE  /\ MarkSuppressed(k) \in Row("delivered") /\ IsFree(MarkSuppressed(k))
         /\ MarkSuppressed(k).status = "dead"
         /\ MarkSuppressed(k).attempts = k.attempts /\ MarkSuppressed(k).reclaims = k.reclaims
<1> DEFINE u == Unclaimed(k)  r == MarkSuppressed(k)
<1>1. u \in Row("delivered") /\ IsFree(u) /\ SameHistory(k, u)
  BY UnclaimedRow
<1>2. r = [u EXCEPT !.status = "dead"]
  BY DEF MarkSuppressed, MarkDone
<1> HIDE DEF u, r
<1>3. /\ r \in Row("delivered") /\ IsFree(r) /\ r.status = "dead"
      /\ r.attempts = k.attempts /\ r.reclaims = k.reclaims
  BY <1>1, <1>2 DEF Row, IsFree, SameHistory
<1> QED
  BY <1>3 DEF r

\* A delivery to an endpoint that is off ends without a POST and without a charge.
LEMMA SuppressStep ==
  ASSUME DInv, NEW w \in Sender, SuppressDelivery(w)
  PROVE  DInv'
<1>1. PICK h \in DeliveryInHand(w) :
        /\ delivery' = [delivery EXCEPT ![h.item] =
             IF Accepts(@, h.token) THEN MarkSuppressed(@) ELSE @]
        /\ Finish(w, h)
  BY DEF SuppressDelivery
<1>2. h.item \in Delivery /\ delivery[h.item] \in Row("delivered")
  BY WorkerParts, DeliveryParts DEF DeliveryInHand, DInv, DTypeOK
<1> DEFINE k == delivery[h.item]  r == MarkSuppressed(k)
<1>3. /\ r \in Row("delivered") /\ IsFree(r) /\ r.status = "dead"
      /\ r.attempts = k.attempts /\ r.reclaims = k.reclaims
  BY <1>2, SuppressedRow
<1>4. delivery' = [delivery EXCEPT ![h.item] = IF Accepts(@, h.token) THEN r ELSE @]
  BY <1>1
<1>5. /\ sender[w].step = "suppress"
      /\ UNCHANGED <<subscribed, fanOut, reviving, posted, late, granted>>
  BY DEF SuppressDelivery
<1>6. k.attempts \in Nat
  BY <1>2 DEF Row
<1> HIDE DEF r
<1>7. r.attempts = k.attempts + (IF sender[w].step = "ack" THEN 1 ELSE 0)
  BY <1>3, <1>5, <1>6
<1> QED
  BY <1>1, <1>3, <1>4, <1>5, <1>7, ConcludeStep

\* Whatever came back from a POST, the row is freed and charged one attempt.
LEMMA AnsweredRow ==
  ASSUME NEW k, k \in Row("delivered"), NEW h \in ClaimedDelivery, NEW now \in Nat,
         NEW answer \in Answer
  PROVE  /\ AfterAnswer(k, h, now, answer) \in Row("delivered")
         /\ IsFree(AfterAnswer(k, h, now, answer))
         /\ AfterAnswer(k, h, now, answer).status \in {k.status, "delivered", "dead"}
         /\ AfterAnswer(k, h, now, answer).attempts = k.attempts + 1
         /\ AfterAnswer(k, h, now, answer).reclaims = k.reclaims
<1> DEFINE r == AfterAnswer(k, h, now, answer)
<1>1. CASE IsSuccess(answer)
  <2> DEFINE f == MarkDone(k, "delivered")
  <2>1. /\ f \in Row("delivered") /\ IsFree(f) /\ f.status = "delivered"
        /\ f.attempts = k.attempts /\ f.reclaims = k.reclaims
    BY DoneRow
  <2>2. r = [f EXCEPT !.attempts = @ + 1]
    BY <1>1 DEF AfterAnswer, MarkDelivered
  <2> HIDE DEF f, r
  <2>3. /\ r \in Row("delivered") /\ IsFree(r) /\ r.status = "delivered"
        /\ r.attempts = k.attempts + 1 /\ r.reclaims = k.reclaims
    BY <2>1, <2>2 DEF Row, IsFree
  <2> QED
    BY <2>3 DEF r
<1>2. CASE ~IsSuccess(answer) /\ (~IsRetryable(answer) \/ h.attempts + 1 >= MaxAttempts)
  <2>1. r = MarkDead(k)
    BY <1>2 DEF AfterAnswer
  <2> QED
    BY <2>1, DeadRow
<1>3. CASE ~IsSuccess(answer) /\ ~(~IsRetryable(answer) \/ h.attempts + 1 >= MaxAttempts)
  <2>1. r = MarkFailed(k, now, h.attempts)
    BY <1>3 DEF AfterAnswer
  <2>2. h.attempts \in 0..MaxAttempts
    BY <1>3, DeliveryParts, BudgetAssumption
  <2> QED
    BY <2>1, <2>2, FailedRow
<1> QED
  BY <1>1, <1>2, <1>3

\* An answer is recorded, if the claim it was obtained under still stands.
LEMMA RecordStep ==
  ASSUME DInv, NEW w \in Sender, RecordAnswer(w)
  PROVE  DInv'
<1>1. PICK h \in DeliveryInHand(w) :
        /\ delivery' = [delivery EXCEPT ![h.item] =
             IF Accepts(@, h.token) THEN AfterAnswer(@, h, sender[w].age, sender[w].answer) ELSE @]
        /\ Finish(w, h)
  BY DEF RecordAnswer
<1>2. h.item \in Delivery /\ delivery[h.item] \in Row("delivered") /\ h \in ClaimedDelivery
  BY WorkerParts, DeliveryParts DEF DeliveryInHand, DInv, DTypeOK
<1>3. sender[w].age \in Nat /\ sender[w].answer \in Answer
  BY WorkerParts DEF SenderState
<1>4. /\ sender[w].step = "ack"
      /\ UNCHANGED <<subscribed, fanOut, reviving, posted, late, granted>>
  BY DEF RecordAnswer
<1> DEFINE k == delivery[h.item]  r == AfterAnswer(k, h, sender[w].age, sender[w].answer)
<1>5. /\ r \in Row("delivered") /\ IsFree(r) /\ r.status \in {k.status, "delivered", "dead"}
      /\ r.attempts = k.attempts + 1 /\ r.reclaims = k.reclaims
  BY <1>2, <1>3, AnsweredRow
<1>6. delivery' = [delivery EXCEPT ![h.item] = IF Accepts(@, h.token) THEN r ELSE @]
  BY <1>1
<1> HIDE DEF r
<1>7. r.attempts = k.attempts + (IF sender[w].step = "ack" THEN 1 ELSE 0)
  BY <1>4, <1>5
<1>8. CASE Accepts(k, h.token)
  <2>1. k.status = "pending"
    <3>1. h.token # NoToken /\ DRowOK(k)
      BY <1>2, DeliveryParts, NoTokenAssumption DEF DInv, DRowsOK
    <3> QED
      BY <1>8, <3>1 DEF Accepts, DRowOK
  <2>2. r.status # "absent"
    BY <1>5, <2>1
  <2> QED
    BY <1>1, <1>4, <1>5, <1>6, <1>7, <2>2, ConcludeStep
<1>9. CASE ~Accepts(k, h.token)
  <2>1. /\ MarkDead(k) \in Row("delivered") /\ IsFree(MarkDead(k)) /\ MarkDead(k).status = "dead"
        /\ MarkDead(k).attempts = k.attempts + 1 /\ MarkDead(k).reclaims = k.reclaims
    BY <1>2, DeadRow
  <2>2. delivery' = [delivery EXCEPT ![h.item] = IF Accepts(@, h.token) THEN MarkDead(k) ELSE @]
    BY <1>6, <1>9
  <2>3. MarkDead(k).attempts = k.attempts + (IF sender[w].step = "ack" THEN 1 ELSE 0)
    BY <1>4, <2>1
  <2> QED
    BY <1>1, <1>4, <2>1, <2>2, <2>3, ConcludeStep
<1> QED
  BY <1>8, <1>9

\* A revival forgives the abandonments of a dead delivery and grants as many again.
LEMMA DeliveryReviveStep ==
  ASSUME DInv, RevivalInBound, (\E d \in Delivery : RefuseOrAccept(d)) \/ ReviveDelivery
  PROVE  DInv'
<1>1. ASSUME NEW d \in Delivery, RefuseOrAccept(d) PROVE DInv'
  <2>1. DTypeOK'
    BY <1>1 DEF RefuseOrAccept, DInv, DTypeOK
  <2> QED
    BY <1>1, <2>1, LookStep DEF RefuseOrAccept
<1>2. ASSUME ReviveDelivery, delivery[reviving].status # "dead" PROVE DInv'
  <2>1. DTypeOK'
    BY <1>2 DEF ReviveDelivery, DInv, DTypeOK
  <2> QED
    BY <1>2, <2>1, LookStep DEF ReviveDelivery
<1>3. ASSUME ReviveDelivery, delivery[reviving].status = "dead", granted[reviving] < MaxRevivalsOf
      PROVE  DInv'
  <2> DEFINE e == reviving  k == delivery[e]  r == Revive(delivery[e])  n == granted[e]
  <2>1. e \in Delivery
    BY <1>3 DEF ReviveDelivery, DInv, DTypeOK
  <2>2. /\ delivery \in [Delivery -> Row("delivered")] /\ k \in Row("delivered")
        /\ granted \in [Delivery -> 0..MaxRevivalsOf] /\ n \in Nat /\ DRowOK(k)
    BY <2>1, SenderAssumption DEF DInv, DTypeOK, DRowsOK
  <2>3. /\ r \in Row("delivered") /\ IsFree(r) /\ r.status = "pending"
        /\ r.attempts = k.attempts /\ r.reclaims = 0
    BY <2>2, RevivedRow
  <2>4. /\ delivery' = [delivery EXCEPT ![e] = r] /\ granted' = [granted EXCEPT ![e] = n + 1]
        /\ reviving' = NoDelivery /\ UNCHANGED <<subscribed, fanOut, sender, posted, late>>
    BY <1>3 DEF ReviveDelivery
  <2> HIDE DEF r
  <2>5. /\ delivery'[e] = r /\ granted'[e] = n + 1
        /\ \A d \in Delivery : d # e => delivery'[d] = delivery[d] /\ granted'[d] = granted[d]
    BY <2>1, <2>2, <2>4
  <2>6. DTypeOK'
    <3>1. delivery' \in [Delivery -> Row("delivered")]
      BY <2>2, <2>3, <2>4
    <3>2. granted' \in [Delivery -> 0..MaxRevivalsOf]
      BY <1>3, <2>1, <2>2, <2>4, SenderAssumption
    <3> QED
      BY <2>4, <3>1, <3>2 DEF DInv, DTypeOK
  <2>7. DRowsOK'
    <3>1. (r.claimed <=> r.token # NoToken) /\ (r.claimed => r.status = "pending")
      BY <2>3 DEF IsFree
    <3>2. DRowOK(r)
      BY <2>3, <3>1, BudgetAssumption DEF DRowOK
    <3> QED
      BY <2>5, <3>2 DEF DInv, DRowsOK
  <2>8. Credit(k, n) <= Credit(r, n + 1)
    <3> HIDE DEF k, n
    <3> DEFINE p == n * (MaxReclaims + 1)
    <3>1. k.attempts \in Nat /\ k.reclaims \in Nat /\ k.reclaims <= MaxReclaims + 1
      BY <2>2 DEF Row, DRowOK
    <3>2. k.claimed = FALSE /\ r.claimed = FALSE
      BY <1>3, <2>2, <2>3 DEF DRowOK, Row, IsFree, k
    <3>3. p \in Nat /\ (n + 1) * (MaxReclaims + 1) = p + MaxReclaims + 1 /\ MaxReclaims \in Nat
      BY <2>2, BudgetAssumption
    <3>4. Credit(k, n) = k.attempts + k.reclaims + 0 + p
      BY <3>2 DEF Credit
    <3>5. Credit(r, n + 1) = k.attempts + 0 + 0 + (p + MaxReclaims + 1)
      BY <2>3, <3>2, <3>3 DEF Credit
    <3> HIDE DEF p
    <3> QED
      BY <3>1, <3>3, <3>4, <3>5
  <2>9. SendsReserved'
    <3> SUFFICES ASSUME NEW d \in Delivery
                 PROVE  posted'[d] + Cardinality(Unsent(d)') <= Credit(delivery'[d], granted'[d])
      BY DEF SendsReserved
    <3>1. Unsent(d)' = Unsent(d) /\ posted' = posted
      BY <2>4, WorkersUnmoved
    <3>2. Credit(delivery[d], granted[d]) \in Nat
      BY CreditCount, SenderAssumption DEF DInv, DTypeOK
    <3>3. Credit(delivery[d], granted[d]) <= Credit(delivery'[d], granted'[d])
      BY <2>5, <2>8, <3>2
    <3> QED
      BY <2>6, <3>1, <3>3, StaysReserved
  <2>10. InHandIsHeld'
    BY <2>4 DEF DInv, InHandIsHeld
  <2>11. LateReserved'
    BY <2>4, WorkersUnmoved, StaysLate
  <2>12. SenderTokensApart' /\ OneRecordPerDelivery'
    BY <2>4, WorkersUnmoved
  <2> QED
    BY <2>6, <2>7, <2>9, <2>10, <2>11, <2>12 DEF DInv
<1> QED
  BY <1>1, <1>2, <1>3 DEF RevivalInBound, ReviveDelivery

\* Time moves schedules and clock readings, and neither claims nor sends.
LEMMA DeliveryTickStep ==
  ASSUME DInv, DTick
  PROVE  DInv'
<1>1. ASSUME NEW d \in Delivery
      PROVE  /\ delivery'[d] \in Row("delivered")
             /\ SameClaim(delivery[d], delivery'[d]) /\ SameHistory(delivery[d], delivery'[d])
  BY OlderRow DEF DTick, DInv, DTypeOK, SameClaim, SameHistory
<1>2. ASSUME NEW w \in Sender
      PROVE  /\ sender'[w] \in SenderState
             /\ sender'[w].step = sender[w].step /\ sender'[w].batch = sender[w].batch
             /\ sender'[w].item = sender[w].item
  <2> DEFINE x == sender[w]  y == [x EXCEPT !.age = @ + 1]
  <2>1. x \in SenderState
    BY WorkerParts
  <2>2. sender'[w] = IF x.step # "idle" /\ x.age < Horizon THEN y ELSE x
    BY DEF DTick
  <2> HIDE DEF x
  <2>3. x.age < Horizon => y \in SenderState
    BY <2>1, TimingAssumption DEF SenderState
  <2>4. y.step = x.step /\ y.batch = x.batch /\ y.item = x.item
    BY <2>1 DEF SenderState
  <2> HIDE DEF y
  <2> QED
    BY <2>1, <2>2, <2>3, <2>4 DEF x
<1>3. UNCHANGED <<subscribed, fanOut, reviving, posted, late, granted>>
  BY DEF DTick
<1>4. DTypeOK'
  <2>1. delivery' \in [Delivery -> Row("delivered")]
    BY <1>1 DEF DTick
  <2>2. sender' \in [Sender -> SenderState]
    BY <1>2 DEF DTick
  <2> QED
    BY <1>3, <2>1, <2>2 DEF DInv, DTypeOK, SenderState
<1>5. DRowsOK'
  BY <1>1 DEF DInv, DRowsOK, DRowOK, SameClaim, SameHistory
<1>6. SenderTokensApart' /\ OneRecordPerDelivery'
  BY <1>2, NothingMoreHeld
<1>7. InHandIsHeld'
  BY <1>2, <1>3 DEF DInv, InHandIsHeld, HoldsItsItem
<1>8. SendsReserved'
  <2> SUFFICES ASSUME NEW d \in Delivery
               PROVE  posted'[d] + Cardinality(Unsent(d)') <= Credit(delivery'[d], granted'[d])
    BY DEF SendsReserved
  <2>1. Unsent(d)' = Unsent(d)
    BY <1>2 DEF Unsent
  <2>2. /\ delivery[d] \in Row("delivered") /\ delivery'[d] \in Row("delivered")
        /\ granted[d] \in Nat
    BY <1>4, SenderAssumption DEF DInv, DTypeOK
  <2>3. Credit(delivery[d], granted[d]) \in Nat
    BY <2>2, CreditCount
  <2>4. Credit(delivery'[d], granted[d]) = Credit(delivery[d], granted[d])
    BY <1>1, <2>2, CreditOf DEF SameClaim, SameHistory
  <2> QED
    BY <1>3, <1>4, <2>1, <2>3, <2>4, StaysReserved
<1>9. LateReserved'
  <2>1. \A s \in Subscription : Sending(s)' \subseteq Sending(s)
    BY <1>2 DEF Sending
  <2> QED
    BY <1>3, <2>1, StaysLate
<1> QED
  BY <1>4, <1>5, <1>6, <1>7, <1>8, <1>9 DEF DInv

\* No step of a worker, a fan-out, an operator or the clock breaks it.
LEMMA NextDInv == DInv /\ RevivalInBound /\ [DNext]_dvars => DInv'
<1> SUFFICES ASSUME DInv, RevivalInBound, [DNext]_dvars PROVE DInv'
  OBVIOUS
<1>1. ASSUME NEW s \in Subscription,
             RegisterSubscription(s) \/ \E state \in {"active", "inactive"} : SetActive(s, state)
      PROVE  DInv'
  BY <1>1, SubscriptionStep
<1>2. ASSUME NEW e \in Published, FanOutRead(e) \/ FanOutCommit(e) \/ FanOutRollback(e)
      PROVE  DInv'
  BY <1>2, FanOutStep
<1>3. ASSUME NEW w \in Sender, StartDrain(w) PROVE DInv'
  BY <1>3, StartStep
<1>4. ASSUME NEW w \in Sender, RecoverDeliveries(w) PROVE DInv'
  BY <1>4, RecoverStep
<1>5. ASSUME NEW w \in Sender, ClaimDeliveries(w) PROVE DInv'
  BY <1>5, DeliveryClaimStep
<1>6. ASSUME NEW w \in Sender, NoDeliveryDue(w) \/ SenderDies(w) PROVE DInv'
  BY <1>6, RestStep
<1>7. ASSUME NEW w \in Sender, ReadSubscription(w) PROVE DInv'
  BY <1>7, ReadStep
<1>8. ASSUME NEW w \in Sender, NEW a \in Answer, Send(w, a) PROVE DInv'
  BY <1>8, SendStep
<1>9. ASSUME NEW w \in Sender, SuppressDelivery(w) PROVE DInv'
  BY <1>9, SuppressStep
<1>10. ASSUME NEW w \in Sender, RecordAnswer(w) PROVE DInv'
  BY <1>10, RecordStep
<1>11. ASSUME (\E d \in Delivery : RefuseOrAccept(d)) \/ ReviveDelivery PROVE DInv'
  BY <1>11, DeliveryReviveStep
<1>12. CASE DTick
  BY <1>12, DeliveryTickStep
<1>13. CASE UNCHANGED dvars
  <2>1. DTypeOK' /\ UNCHANGED <<subscribed, delivery, sender, posted, late, granted>>
    BY <1>13 DEF dvars, DInv, DTypeOK
  <2> QED
    BY <2>1, LookStep
<1> QED
  BY <1>1, <1>2, <1>3, <1>4, <1>5, <1>6, <1>7, <1>8, <1>9, <1>10, <1>11, <1>12, <1>13 DEF DNext

\* Revivals are granted one at a time, to the delivery the operator looked at.
LEMMA NextRevival == DInv /\ RevivalInBound /\ [DNext]_dvars => RevivalInBound'
<1> SUFFICES ASSUME DInv, RevivalInBound, [DNext]_dvars PROVE RevivalInBound'
  OBVIOUS
<1>1. CASE UNCHANGED <<reviving, granted>>
  BY <1>1 DEF RevivalInBound
<1>2. ASSUME NEW d \in Delivery, RefuseOrAccept(d) PROVE RevivalInBound'
  BY <1>2 DEF RefuseOrAccept, RevivalInBound
<1>3. CASE ReviveDelivery
  BY <1>3 DEF ReviveDelivery, RevivalInBound
<1>4. \/ UNCHANGED <<reviving, granted>>
      \/ \E d \in Delivery : RefuseOrAccept(d)
      \/ ReviveDelivery
  BY DEF DNext, dvars, RegisterSubscription, SetActive, FanOutRead, FanOutCommit, FanOutRollback,
         StartDrain, RecoverDeliveries, ClaimDeliveries, NoDeliveryDue, ReadSubscription, Send,
         SuppressDelivery, RecordAnswer, SenderDies, DTick
<1> QED
  BY <1>1, <1>2, <1>3, <1>4

-----------------------------------------------------------------------------
(* What follows for every behaviour. *)

\* The inductive invariant holds in every reachable state.
LEMMA SpecDInv == DSpec => []DInv
<1>1. DInit => RevivalInBound
  BY DEF DInit, RevivalInBound
<1> QED
  BY <1>1, InitDInv, NextDInv, NextRevival, PTL DEF DSpec

\* Rows, workers and counters stay within their types.
THEOREM DTyping == DSpec => []DTypeOK
BY SpecDInv, PTL DEF DInv

\* An endpoint is sent an event at most as often as the delivery has paid for:
\* an attempt, an abandonment, the claim now standing, or a revival (B-25, B-27).
THEOREM BudgetedSends == DSpec => []SendsAreBudgeted
<1>1. DInv => SendsAreBudgeted
  <2> SUFFICES ASSUME DInv, NEW d \in Delivery
               PROVE  posted[d] <= Credit(delivery[d], granted[d])
    BY DEF SendsAreBudgeted, Credit
  <2> DEFINE u == Cardinality(Unsent(d))  c == Credit(delivery[d], granted[d])
  <2>1. Unsent(d) \subseteq Sender
    BY DEF Unsent
  <2>2. u \in Nat
    BY <2>1, WorkerCount
  <2>3. c \in Nat
    BY CreditCount, SenderAssumption DEF DInv, DTypeOK
  <2>4. posted[d] + u <= c /\ posted[d] \in Nat
    BY DEF DInv, SendsReserved, DTypeOK
  <2> HIDE DEF u, c
  <2>5. posted[d] <= c
    BY <2>2, <2>3, <2>4
  <2> QED
    BY <2>5 DEF c
<1> QED
  BY <1>1, SpecDInv, PTL

\* A switched-off endpoint receives at most the one request each worker had
\* already decided to send.
THEOREM LateSends == DSpec => []StopsSending
<1>1. DInv => StopsSending
  <2> SUFFICES ASSUME DInv, NEW s \in Subscription PROVE late[s] <= Cardinality(Sender)
    BY DEF StopsSending
  <2> DEFINE u == Cardinality(Sending(s))  n == Cardinality(Sender)
  <2>1. Sending(s) \subseteq Sender
    BY DEF Sending
  <2>2. u \in Nat /\ n \in Nat
    BY <2>1, WorkerCount
  <2>3. late[s] \in Nat /\ IF subscribed[s] = "inactive" THEN late[s] + u <= n ELSE late[s] = 0
    BY DEF DInv, LateReserved, DTypeOK
  <2> HIDE DEF u, n
  <2>4. late[s] <= n
    BY <2>2, <2>3
  <2> QED
    BY <2>4 DEF n
<1> QED
  BY <1>1, SpecDInv, PTL

-----------------------------------------------------------------------------
(* External delivery implements exclusive work. *)

\* The owner of a claimed delivery is the one worker whose record carries its
\* token; an unclaimed one has none, and no worker is called nobody.
LEMMA HolderFacts ==
  ASSUME DInv, NEW d \in Delivery
  PROVE  /\ delivery[d].claimed \in BOOLEAN
         /\ delivery[d].claimed = FALSE => Holder(d) = "nobody"
         /\ delivery[d].claimed = TRUE => Holder(d) # "nobody"
         /\ \A w \in SendersOf(d) : delivery[d].claimed = TRUE /\ Holder(d) = w
<1>1. delivery[d].claimed \in BOOLEAN
  BY DEF DInv, DTypeOK, Row
<1>2. delivery[d].claimed = FALSE => Holder(d) = "nobody"
  BY OwnerOfRow DEF Holder
<1>3. ASSUME NEW w \in SendersOf(d)
      PROVE  delivery[d].claimed = TRUE /\ Holder(d) = w
  <2>1. w \in Sender /\ \E h \in sender[w].batch : h.item = d /\ h.token = delivery[d].token
    BY DEF SendersOf
  <2>2. delivery[d].token # NoToken
    BY <2>1, WorkerParts, DeliveryParts, NoTokenAssumption
  <2>3. delivery[d].claimed = TRUE
    BY <1>1, <2>2 DEF DInv, DRowsOK, DRowOK
  <2>4. SendersOf(d) = {w}
    BY <2>1 DEF SendersOf, DInv, SenderTokensApart
  <2> QED
    BY <2>3, <2>4, OwnerOfRow DEF Holder
<1>4. delivery[d].claimed = TRUE => Holder(d) # "nobody"
  <2>1. CASE SendersOf(d) = {}
    BY <2>1, OwnerOfRow DEF Holder
  <2>2. CASE SendersOf(d) # {}
    BY <2>2, <1>3, SenderNameAssumption DEF SendersOf
  <2> QED
    BY <2>1, <2>2
<1> QED
  BY <1>1, <1>2, <1>3, <1>4

\* A delivery whose claim and whose holders stay the same keeps its owner.
LEMMA HolderStays ==
  ASSUME DInv, NEW d \in Delivery, delivery'[d].claimed = delivery[d].claimed,
         delivery[d].claimed = TRUE => SendersOf(d)' = SendersOf(d)
  PROVE  Holder(d)' = Holder(d)
<1>1. delivery[d].claimed \in BOOLEAN
  BY HolderFacts
<1>2. CASE delivery[d].claimed = TRUE
  BY <1>2 DEF Holder
<1>3. CASE delivery[d].claimed = FALSE
  BY <1>3, OwnerOfRow DEF Holder
<1> QED
  BY <1>1, <1>2, <1>3

\* A delivery that is free has no owner next.
LEMMA HolderGone ==
  ASSUME NEW d \in Delivery, IsFree(delivery'[d]) PROVE Holder(d)' = "nobody"
BY OwnerOfRow DEF Holder, IsFree

\* A delivery that was free and is free has no owner before or after.
LEMMA StillFree ==
  ASSUME DInv, NEW d \in Delivery, delivery[d].status # "pending", IsFree(delivery'[d])
  PROVE  Holder(d)' = Holder(d)
<1>1. delivery[d].claimed = FALSE
  BY HolderFacts DEF DInv, DRowsOK, DRowOK
<1> QED
  BY <1>1, HolderGone, HolderFacts

\* A step that writes no claim and no status and moves no record is no step of
\* the abstract queue.
LEMMA NoDeliveryWork ==
  ASSUME DInv, \A w \in Sender : sender'[w].batch = sender[w].batch,
         \A d \in Delivery : SameClaim(delivery[d], delivery'[d])
                             /\ delivery'[d].status = delivery[d].status
  PROVE  UNCHANGED DeliveryWork!wvars
<1>1. ASSUME NEW d \in Delivery PROVE Holder(d)' = Holder(d)
  <2>1. SendersOf(d)' = SendersOf(d)
    BY DEF SendersOf, SameClaim
  <2> QED
    BY <2>1, HolderStays DEF SameClaim
<1>2. \A d \in Delivery : DeliveryState(d)' = DeliveryState(d)
  BY DEF DeliveryState
<1> QED
  BY <1>1, <1>2 DEF DeliveryWork!wvars

\* A committed fan-out adds the deliveries that were not there.
LEMMA QueueRefines ==
  ASSUME DInv, NEW e \in Published, FanOutCommit(e)
  PROVE  \E S \in SUBSET Delivery : DeliveryWork!Add(S)
<1> DEFINE S == {d \in Delivery : delivery[d].status = "absent" /\ delivery'[d] = NewRow}
<1>1. \A d \in Delivery : d \notin S => delivery'[d] = delivery[d]
  BY DEF FanOutCommit, Queue
<1>2. IsFree(NewRow) /\ NewRow.status = "pending"
  BY BlankRow
<1>3. ASSUME NEW d \in Delivery PROVE Holder(d)' = Holder(d)
  <2>1. CASE d \in S
    BY <2>1, <1>2, StillFree
  <2>2. CASE d \notin S
    <3>1. SendersOf(d)' = SendersOf(d)
      BY <1>1, <2>2 DEF SendersOf, FanOutCommit
    <3> QED
      BY <1>1, <2>2, <3>1, HolderStays
  <2> QED
    BY <2>1, <2>2
<1>4. \A d \in S : DeliveryState(d) = "absent"
  BY DEF DeliveryState
<1>5. \A d \in Delivery : DeliveryState(d)' = IF d \in S THEN "open" ELSE DeliveryState(d)
  BY <1>1, <1>2 DEF DeliveryState
<1> HIDE DEF S
<1>6. S \subseteq Delivery
  BY DEF S
<1>7. DeliveryWork!Add(S)
  BY <1>3, <1>4, <1>5, <1>6 DEF DeliveryWork!Add
<1> QED
  BY <1>6, <1>7

\* Expired claims are taken back, and some deliveries are given up.
LEMMA RecoverRefines ==
  ASSUME DInv, NEW w \in Sender, RecoverDeliveries(w)
  PROVE  \E S \in SUBSET Delivery : \E D \in SUBSET S : DeliveryWork!Recover(S, D)
<1>1. PICK S \in InDueOrder(delivery, {d \in Delivery : Abandoned(delivery[d], sender[w].age)},
                            SendLimit) :
        delivery' = [d \in Delivery |-> IF d \in S THEN Reclaim(delivery[d], sender[w].age)
                                        ELSE delivery[d]]
  BY DEF RecoverDeliveries
<1>2. S \subseteq Delivery /\ \A d \in S : delivery[d].status = "pending" /\ delivery[d].claimed
  BY DEF InDueOrder, Abandoned
<1>3. sender[w].age \in Nat /\ \A d \in Delivery : delivery[d] \in Row("delivered")
  BY WorkerParts DEF DInv, DTypeOK
<1>4. ASSUME NEW d \in S
      PROVE  IsFree(delivery'[d]) /\ delivery'[d].status \in {"dead", "pending"}
  <2>1. d \in Delivery /\ delivery'[d] = Reclaim(delivery[d], sender[w].age)
    BY <1>1, <1>2
  <2> QED
    BY <1>2, <1>3, <2>1, ReclaimRow
<1>5. \A d \in Delivery \ S : delivery'[d] = delivery[d]
  BY <1>1
<1>6. \A v \in Sender : sender'[v].batch = sender[v].batch
  BY WorkerParts DEF RecoverDeliveries, SenderState
<1> DEFINE D == {d \in S : delivery'[d].status = "dead"}
<1>7. \A d \in S : Holder(d) # "nobody"
  BY <1>2, HolderFacts
<1>8. ASSUME NEW d \in Delivery PROVE Holder(d)' = IF d \in S THEN "nobody" ELSE Holder(d)
  <2>1. CASE d \in S
    BY <2>1, <1>4, HolderGone
  <2>2. CASE d \notin S
    <3>1. SendersOf(d)' = SendersOf(d)
      BY <1>5, <1>6, <2>2 DEF SendersOf
    <3> QED
      BY <1>5, <2>2, <3>1, HolderStays
  <2> QED
    BY <2>1, <2>2
<1>9. \A d \in Delivery : DeliveryState(d)' = IF d \in D THEN "dead" ELSE DeliveryState(d)
  BY <1>2, <1>4, <1>5 DEF DeliveryState
<1>10. DeliveryWork!Recover(S, D)
  BY <1>2, <1>7, <1>8, <1>9 DEF DeliveryWork!Recover
<1> QED
  BY <1>2, <1>10

\* A claim takes deliveries nobody owns, and takes nothing else from anyone.
LEMMA DeliveryClaimRefines ==
  ASSUME DInv, NEW w \in Sender, ClaimDeliveries(w)
  PROVE  \E S \in SUBSET Delivery : DeliveryWork!Take(w, S)
<1>1. PICK S \in InDueOrder(delivery, DueDeliveries(w), SendLimit) \ {{}},
           t \in Token \ SendTokensInUse :
        /\ delivery' = [d \in Delivery |->
             IF d \in S THEN Claim(delivery[d], sender[w].age, t) ELSE delivery[d]]
        /\ sender' = [sender EXCEPT ![w].step = "read", ![w].batch =
             {[item |-> d, token |-> t, attempts |-> delivery[d].attempts,
               due |-> delivery[d].wait] : d \in S}]
  BY DEF ClaimDeliveries
<1>2. S \subseteq Delivery /\ \A d \in S : delivery[d].status = "pending" /\ delivery[d].claimed = FALSE
  BY HolderFacts DEF InDueOrder, DueDeliveries, Claimable
<1>3. sender[w].age \in Nat /\ \A d \in Delivery : delivery[d] \in Row("delivered")
  BY WorkerParts DEF DInv, DTypeOK
<1>4. ASSUME NEW d \in Delivery, d \in S
      PROVE  /\ delivery'[d].claimed = TRUE /\ delivery'[d].token = t
             /\ SameHistory(delivery[d], delivery'[d])
  BY <1>1, <1>3, <1>4, ClaimRow
<1>5. \A d \in Delivery \ S : delivery'[d] = delivery[d]
  BY <1>1
<1>6. sender[w].batch = {} /\ \A v \in Sender : sender[v] \in SenderState
  BY WorkerParts DEF ClaimDeliveries, HoldsItsItem
<1>7. /\ \A v \in Sender : v # w => sender'[v] = sender[v]
      /\ \A h \in sender'[w].batch : h.item \in S /\ h.token = t
      /\ \A d \in S : \E h \in sender'[w].batch : h.item = d /\ h.token = t
  <2> DEFINE rec(d) == [item |-> d, token |-> t, attempts |-> delivery[d].attempts,
                        due |-> delivery[d].wait]
  <2>1. /\ sender'[w].batch = {rec(d) : d \in S}
        /\ \A v \in Sender : v # w => sender'[v] = sender[v]
    BY <1>1, <1>6, WorkerParts DEF SenderState
  <2>2. \A d \in S : rec(d).item = d /\ rec(d).token = t
    OBVIOUS
  <2> HIDE DEF rec
  <2> QED
    BY <2>1, <2>2
<1>8. \A v \in Sender : \A h \in sender[v].batch : h.token # t
  BY DEF SendTokensInUse
<1>9. ASSUME NEW d \in Delivery PROVE Holder(d)' = IF d \in S THEN w ELSE Holder(d)
  <2>1. CASE d \in S
    <3>1. delivery'[d].token = t
      BY <2>1, <1>4
    <3>2. SendersOf(d)' = {w}
      BY <2>1, <3>1, <1>7, <1>8 DEF SendersOf
    <3> QED
      BY <2>1, <3>2, <1>4, OwnerOfRow DEF Holder
  <2>2. CASE d \notin S
    <3>1. SendersOf(d)' = SendersOf(d)
      BY <2>2, <1>5, <1>6, <1>7 DEF SendersOf
    <3> QED
      BY <1>5, <2>2, <3>1, HolderStays
  <2> QED
    BY <2>1, <2>2
<1>10. \A d \in Delivery : DeliveryState(d)' = DeliveryState(d)
  BY <1>4, <1>5 DEF DeliveryState, SameHistory
<1>11. \A d \in S : DeliveryState(d) = "open" /\ Holder(d) = "nobody"
  BY <1>2, HolderFacts DEF DeliveryState
<1>12. DeliveryWork!Take(w, S)
  BY <1>2, <1>9, <1>10, <1>11 DEF DeliveryWork!Take
<1> QED
  BY <1>2, <1>12

\* A worker that finishes a record settles the delivery if it still owns it,
\* and changes nobody's work otherwise.
LEMMA DeliveryFinishRefines ==
  ASSUME DInv, NEW w \in Sender, NEW h \in DeliveryInHand(w), Finish(w, h),
         NEW r, IsFree(r), Accepts(delivery[h.item], h.token) =>
                             r.status \in {"pending", "delivered", "dead"},
         delivery' = [delivery EXCEPT ![h.item] = IF Accepts(@, h.token) THEN r ELSE @]
  PROVE  (\E d \in Delivery : DeliveryWork!Conclude(w, d)) \/ UNCHANGED DeliveryWork!wvars
<1> DEFINE e == h.item
<1>1. e \in Delivery /\ h \in sender[w].batch /\ h.token # NoToken
  BY WorkerParts, DeliveryParts, NoTokenAssumption DEF DeliveryInHand
<1>2. /\ sender'[w].batch = sender[w].batch \ {h}
      /\ \A v \in Sender : v # w => sender'[v] = sender[v]
  BY <1>1, FinishWorker DEF OnlyWorker
<1>3. /\ \A d \in Delivery : d # e => delivery'[d] = delivery[d]
      /\ delivery'[e] = IF Accepts(delivery[e], h.token) THEN r ELSE delivery[e]
  BY <1>1 DEF DInv, DTypeOK
<1>4. ASSUME NEW d \in Delivery, d # e
      PROVE  Holder(d)' = Holder(d) /\ DeliveryState(d)' = DeliveryState(d)
  <2>1. delivery'[d] = delivery[d]
    BY <1>3, <1>4
  <2>2. SendersOf(d)' = SendersOf(d)
    BY <1>2, <1>4, <2>1 DEF SendersOf
  <2> QED
    BY <2>1, <2>2, HolderStays DEF DeliveryState
<1>5. CASE Accepts(delivery[e], h.token)
  <2>1. delivery[e].token = h.token /\ delivery'[e] = r
    BY <1>1, <1>3, <1>5 DEF Accepts
  <2>2. Holder(e) = w
    <3>1. w \in SendersOf(e)
      BY <1>1, <2>1 DEF SendersOf
    <3> QED
      BY <1>1, <3>1, HolderFacts
  <2>3. Holder(e)' = "nobody"
    BY <1>1, <2>1, HolderGone
  <2>4. DeliveryState(e)' \in {"open", "done", "dead"}
    BY <1>5, <2>1 DEF DeliveryState
  <2>5. DeliveryWork!Conclude(w, e)
    <3> HIDE DEF e
    <3> QED
      BY <1>1, <1>4, <2>2, <2>3, <2>4 DEF DeliveryWork!Conclude
  <2> QED
    BY <1>1, <2>5
<1>6. CASE ~Accepts(delivery[e], h.token)
  <2>1. delivery'[e] = delivery[e] /\ delivery[e].token # h.token
    BY <1>3, <1>6 DEF Accepts
  <2>2. SendersOf(e)' = SendersOf(e)
    BY <1>2, <2>1 DEF SendersOf
  <2>3. Holder(e)' = Holder(e) /\ DeliveryState(e)' = DeliveryState(e)
    BY <1>1, <2>1, <2>2, HolderStays DEF DeliveryState
  <2>4. \A d \in Delivery : Holder(d)' = Holder(d) /\ DeliveryState(d)' = DeliveryState(d)
    BY <1>4, <2>3
  <2> QED
    BY <2>4 DEF DeliveryWork!wvars
<1> QED
  BY <1>5, <1>6

\* Suppressing a delivery, or recording what its endpoint answered, is its
\* owner's to do.
LEMMA ConcludeRefines ==
  ASSUME DInv, NEW w \in Sender, SuppressDelivery(w) \/ RecordAnswer(w)
  PROVE  (\E d \in Delivery : DeliveryWork!Conclude(w, d)) \/ UNCHANGED DeliveryWork!wvars
<1>1. ASSUME NEW h \in DeliveryInHand(w)
      PROVE  /\ h.item \in Delivery /\ delivery[h.item] \in Row("delivered")
             /\ h \in ClaimedDelivery
             /\ Accepts(delivery[h.item], h.token) => delivery[h.item].status = "pending"
  <2>1. h.item \in Delivery /\ h \in ClaimedDelivery /\ h.token # NoToken
    BY WorkerParts, DeliveryParts, NoTokenAssumption DEF DeliveryInHand
  <2>2. delivery[h.item] \in Row("delivered") /\ DRowOK(delivery[h.item])
    BY <2>1 DEF DInv, DTypeOK, DRowsOK
  <2> QED
    BY <2>1, <2>2 DEF Accepts, DRowOK
<1>2. CASE SuppressDelivery(w)
  <2>1. PICK h \in DeliveryInHand(w) :
          /\ delivery' = [delivery EXCEPT ![h.item] =
               IF Accepts(@, h.token) THEN MarkSuppressed(@) ELSE @]
          /\ Finish(w, h)
    BY <1>2 DEF SuppressDelivery
  <2> DEFINE r == MarkSuppressed(delivery[h.item])
  <2>2. IsFree(r) /\ r.status = "dead"
    BY <1>1, SuppressedRow
  <2>3. delivery' = [delivery EXCEPT ![h.item] = IF Accepts(@, h.token) THEN r ELSE @]
    BY <2>1
  <2> HIDE DEF r
  <2> QED
    BY <2>1, <2>2, <2>3, DeliveryFinishRefines
<1>3. CASE RecordAnswer(w)
  <2>1. PICK h \in DeliveryInHand(w) :
          /\ delivery' = [delivery EXCEPT ![h.item] =
               IF Accepts(@, h.token) THEN AfterAnswer(@, h, sender[w].age, sender[w].answer) ELSE @]
          /\ Finish(w, h)
    BY <1>3 DEF RecordAnswer
  <2>2. sender[w].age \in Nat /\ sender[w].answer \in Answer
    BY WorkerParts DEF SenderState
  <2> DEFINE r == AfterAnswer(delivery[h.item], h, sender[w].age, sender[w].answer)
  <2>3. IsFree(r) /\ r.status \in {delivery[h.item].status, "delivered", "dead"}
    BY <1>1, <2>2, AnsweredRow
  <2>4. delivery' = [delivery EXCEPT ![h.item] = IF Accepts(@, h.token) THEN r ELSE @]
    BY <2>1
  <2>5. Accepts(delivery[h.item], h.token) => r.status \in {"pending", "delivered", "dead"}
    BY <1>1, <2>3
  <2> HIDE DEF r
  <2> QED
    BY <2>1, <2>3, <2>4, <2>5, DeliveryFinishRefines
<1> QED
  BY <1>2, <1>3

\* A worker that rests or dies leaves what it owns to be recovered.
LEMMA DieRefines ==
  ASSUME DInv, NEW w \in Sender, NoDeliveryDue(w) \/ SenderDies(w)
  PROVE  DeliveryWork!Die(w)
<1>1. /\ sender' = [sender EXCEPT ![w] = Resting] /\ UNCHANGED delivery
      /\ sender \in [Sender -> SenderState]
  BY WorkerParts DEF NoDeliveryDue, SenderDies
<1>2. sender'[w].batch = {} /\ \A v \in Sender : v # w => sender'[v] = sender[v]
  BY <1>1 DEF Resting
<1>3. ASSUME NEW d \in Delivery PROVE Holder(d)' = IF Holder(d) = w THEN "lost" ELSE Holder(d)
  <2>1. SendersOf(d)' = SendersOf(d) \ {w}
    BY <1>1, <1>2 DEF SendersOf
  <2>2. CASE w \in SendersOf(d)
    <3>1. delivery[d].claimed = TRUE /\ Holder(d) = w
      BY <2>2, HolderFacts
    <3>2. \A v \in SendersOf(d) : v = w
      BY <3>1, HolderFacts
    <3>3. SendersOf(d)' = {}
      BY <2>1, <3>2
    <3> QED
      BY <1>1, <3>1, <3>3, OwnerOfRow DEF Holder
  <2>3. CASE w \notin SendersOf(d)
    <3>1. Holder(d)' = Holder(d)
      BY <1>1, <2>1, <2>3, HolderStays
    <3>2. Holder(d) = w => Holder(d) = "lost"
      <4>1. CASE delivery[d].claimed = TRUE /\ SendersOf(d) = {}
        BY <4>1, OwnerOfRow DEF Holder
      <4>2. CASE SendersOf(d) # {}
        BY <4>2, <2>3, HolderFacts
      <4>3. CASE delivery[d].claimed = FALSE
        BY <4>3, HolderFacts, SenderNameAssumption
      <4> QED
        BY <4>1, <4>2, <4>3, HolderFacts
    <3> QED
      BY <3>1, <3>2
  <2> QED
    BY <2>2, <2>3
<1>4. \A d \in Delivery : DeliveryState(d)' = DeliveryState(d)
  BY <1>1 DEF DeliveryState
<1> QED
  BY <1>3, <1>4 DEF DeliveryWork!Die

\* A revival reopens a dead delivery; one that is no longer dead it leaves alone.
LEMMA DeliveryReviveRefines ==
  ASSUME DInv, ReviveDelivery
  PROVE  (\E d \in Delivery : DeliveryWork!Reopen(d)) \/ UNCHANGED DeliveryWork!wvars
<1>1. CASE delivery[reviving].status # "dead"
  BY <1>1, NoDeliveryWork DEF ReviveDelivery, SameClaim
<1>2. CASE delivery[reviving].status = "dead"
  <2> DEFINE e == reviving
  <2>1. e \in Delivery /\ delivery \in [Delivery -> Row("delivered")]
    BY DEF ReviveDelivery, DInv, DTypeOK
  <2>2. delivery' = [delivery EXCEPT ![e] = Revive(delivery[e])] /\ UNCHANGED sender
    BY <1>2 DEF ReviveDelivery
  <2>3. IsFree(Revive(delivery[e])) /\ Revive(delivery[e]).status = "pending"
    BY <2>1, RevivedRow
  <2>4. /\ IsFree(delivery'[e]) /\ delivery'[e].status = "pending"
        /\ \A d \in Delivery : d # e => delivery'[d] = delivery[d]
    BY <2>1, <2>2, <2>3
  <2>5. ASSUME NEW d \in Delivery PROVE Holder(d)' = Holder(d)
    <3>1. CASE d = e
      BY <1>2, <2>4, <3>1, StillFree
    <3>2. CASE d # e
      <4>1. SendersOf(d)' = SendersOf(d)
        BY <2>2, <2>4, <3>2 DEF SendersOf
      <4> QED
        BY <2>4, <3>2, <4>1, HolderStays
    <3> QED
      BY <3>1, <3>2
  <2>6. \A d \in Delivery : DeliveryState(d)' = IF d = e THEN "open" ELSE DeliveryState(d)
    BY <2>4 DEF DeliveryState
  <2>7. DeliveryState(e) = "dead"
    BY <1>2 DEF DeliveryState
  <2> HIDE DEF e
  <2>8. DeliveryWork!Reopen(e)
    BY <2>1, <2>5, <2>6, <2>7 DEF DeliveryWork!Reopen
  <2> QED
    BY <2>1, <2>8
<1> QED
  BY <1>1, <1>2

\* Every step of external delivery is a step of exclusive work or none at all.
LEMMA DNextRefines ==
  DInv /\ [DNext]_dvars => [DeliveryWork!WNext]_DeliveryWork!wvars
<1> SUFFICES ASSUME DInv, [DNext]_dvars
             PROVE  DeliveryWork!WNext \/ UNCHANGED DeliveryWork!wvars
  OBVIOUS
<1>1. ASSUME UNCHANGED <<delivery, sender>> PROVE UNCHANGED DeliveryWork!wvars
  BY <1>1, NoDeliveryWork DEF SameClaim
<1>2. ASSUME NEW s \in Subscription,
             RegisterSubscription(s) \/ \E state \in {"active", "inactive"} : SetActive(s, state)
      PROVE  UNCHANGED DeliveryWork!wvars
  BY <1>1, <1>2 DEF RegisterSubscription, SetActive
<1>3. ASSUME NEW e \in Published, FanOutRead(e) \/ FanOutRollback(e)
      PROVE  UNCHANGED DeliveryWork!wvars
  BY <1>1, <1>3 DEF FanOutRead, FanOutRollback
<1>4. ASSUME NEW e \in Published, FanOutCommit(e) PROVE DeliveryWork!WNext
  BY <1>4, QueueRefines DEF DeliveryWork!WNext
<1>5. ASSUME NEW w \in Sender,
             StartDrain(w) \/ ReadSubscription(w) \/ \E a \in Answer : Send(w, a)
      PROVE  UNCHANGED DeliveryWork!wvars
  <2>1. sender \in [Sender -> SenderState]
    BY <1>5, WorkerParts
  <2>2. UNCHANGED delivery
    BY <1>5 DEF StartDrain, ReadSubscription, Send
  <2>3. \A v \in Sender : sender'[v].batch = sender[v].batch
    <3>1. CASE StartDrain(w)
      BY <2>1, <3>1 DEF StartDrain, SenderState
    <3>2. CASE ReadSubscription(w)
      BY <2>1, <3>2 DEF ReadSubscription, SenderState
    <3>3. CASE \E a \in Answer : Send(w, a)
      BY <2>1, <3>3 DEF Send, SenderState
    <3> QED
      BY <1>5, <3>1, <3>2, <3>3
  <2> QED
    BY <2>2, <2>3, NoDeliveryWork DEF SameClaim
<1>6. ASSUME NEW w \in Sender, RecoverDeliveries(w) PROVE DeliveryWork!WNext
  BY <1>6, RecoverRefines DEF DeliveryWork!WNext
<1>7. ASSUME NEW w \in Sender, ClaimDeliveries(w) PROVE DeliveryWork!WNext
  BY <1>7, DeliveryClaimRefines DEF DeliveryWork!WNext
<1>8. ASSUME NEW w \in Sender, NoDeliveryDue(w) \/ SenderDies(w) PROVE DeliveryWork!WNext
  BY <1>8, DieRefines DEF DeliveryWork!WNext
<1>9. ASSUME NEW w \in Sender, SuppressDelivery(w) \/ RecordAnswer(w)
      PROVE  DeliveryWork!WNext \/ UNCHANGED DeliveryWork!wvars
  BY <1>9, ConcludeRefines DEF DeliveryWork!WNext
<1>10. ASSUME (\E d \in Delivery : RefuseOrAccept(d)) \/ ReviveDelivery
       PROVE  DeliveryWork!WNext \/ UNCHANGED DeliveryWork!wvars
  BY <1>1, <1>10, DeliveryReviveRefines DEF RefuseOrAccept, DeliveryWork!WNext
<1>11. ASSUME DTick PROVE UNCHANGED DeliveryWork!wvars
  <2>1. \A d \in Delivery : SameClaim(delivery[d], delivery'[d])
                            /\ delivery'[d].status = delivery[d].status
    BY <1>11, OlderRow DEF DTick, DInv, DTypeOK, SameClaim, SameHistory
  <2>2. \A w \in Sender : sender'[w].batch = sender[w].batch
    BY <1>11, WorkerParts DEF DTick, SenderState
  <2> QED
    BY <2>1, <2>2, NoDeliveryWork
<1>12. ASSUME UNCHANGED dvars PROVE UNCHANGED DeliveryWork!wvars
  BY <1>1, <1>12 DEF dvars
<1> QED
  BY <1>2, <1>3, <1>4, <1>5, <1>6, <1>7, <1>8, <1>9, <1>10, <1>11, <1>12 DEF DNext

\* Deliveries are exclusive work: a delivery has at most one worker that can
\* settle it, a late answer or suppression changes nothing it no longer owns,
\* and a delivered event is never queued again (B-22, B-27, B-28).
THEOREM DeliveryExclusion == DSpec => DeliveryIsExclusive
<1>1. DInit => DeliveryWork!WInit
  <2> SUFFICES ASSUME DInit PROVE DeliveryWork!WInit
    OBVIOUS
  <2>1. ASSUME NEW d \in Delivery PROVE DeliveryState(d) = "absent" /\ Holder(d) = "nobody"
    BY OwnerOfRow DEF DInit, Absent, DeliveryState, Holder
  <2> QED
    BY <2>1 DEF DeliveryWork!WInit
<1> QED
  BY <1>1, SpecDInv, DNextRefines, PTL DEF DSpec, DeliveryIsExclusive, DeliveryWork!WSpec

-----------------------------------------------------------------------------
(* Notifications. *)

CourierState ==
  [step : {"idle", "reclaim", "claim", "send", "ack"}, age : 0..Horizon,
   batch : SUBSET ClaimedNote, item : Note \union {NoNotice}, outcome : Outcome]

\* A message carries a token exactly while it is processed, and is pending
\* only while an attempt is left.
NoteRowOK(r) ==
  /\ r.status = "processing" <=> r.token # NoToken
  /\ r.attempts <= MaxAttempts
  /\ r.status = "pending" => r.attempts < MaxAttempts
  /\ r.status = "absent" => r.attempts = 0

NoteRowsOK == \A n \in Note : NoteRowOK(note[n])

CourierTokensApart ==
  \A v, w \in Courier : \A g \in courier[v].batch, h \in courier[w].batch :
    g.token = h.token => v = w

OneRecordPerNote ==
  \A w \in Courier : \A g, h \in courier[w].batch : g.item = h.item => g = h

\* A record is of an attempt within the budget, and of the row's present one
\* if the row still carries its token.
RecordsCharged ==
  \A w \in Courier : \A h \in courier[w].batch :
    /\ h.attempts \in 1..MaxAttempts
    /\ note[h.item].token = h.token => note[h.item].attempts = h.attempts

\* Records are held only between claiming and resting.
EmptyBefore(x) == x.step \in {"idle", "reclaim", "claim"} => x.batch = {}

EmptyHanded == \A w \in Courier : EmptyBefore(courier[w])

\* The dispatchers that may still send a message: it is in their batch, and
\* not the one they have just sent.
MaySend(n) ==
  {w \in Courier : /\ \E h \in courier[w].batch : h.item = n
                   /\ ~(courier[w].step = "ack" /\ courier[w].item = n)}

\* Every send made, and every one some dispatcher may yet make, was charged.
SendsCharged == \A n \in Note : sends[n] + Cardinality(MaySend(n)) <= note[n].attempts

NInv ==
  /\ NTypeOK
  /\ NoteRowsOK
  /\ CourierTokensApart
  /\ OneRecordPerNote
  /\ RecordsCharged
  /\ EmptyHanded
  /\ SendsCharged

-----------------------------------------------------------------------------
(* What each write leaves in a message, and in a dispatcher. *)

\* A record is about a message, under a token.
LEMMA NoteParts ==
  \A h \in ClaimedNote : h.item \in Note /\ h.token \in Token /\ h.attempts \in Nat
BY DEF ClaimedNote

\* The dispatcher's state, piece by piece.
LEMMA CourierParts ==
  ASSUME NInv, NEW w \in Courier
  PROVE  /\ courier[w] \in CourierState /\ courier \in [Courier -> CourierState]
         /\ courier[w].batch \subseteq ClaimedNote
         /\ courier[w].age \in Nat
         /\ EmptyBefore(courier[w])
BY TimingAssumption DEF NInv, NTypeOK, CourierState, EmptyHanded

\* A new message is pending, carries no token and was never attempted.
LEMMA NewNote ==
  /\ NoNote \in NoteRow /\ NoteRowOK(NoNote)
  /\ [NoNote EXCEPT !.status = "pending"] \in NoteRow
  /\ [NoNote EXCEPT !.status = "pending"].status = "pending"
  /\ [NoNote EXCEPT !.status = "pending"].token = NoToken
  /\ [NoNote EXCEPT !.status = "pending"].attempts = 0
BY BudgetAssumption DEF NoNote, NoteRow, NoteRowOK

\* Settling a message takes its token and charges nothing.
LEMMA SettledNote ==
  ASSUME NEW r, r \in NoteRow, NEW s, s \in {"pending", "accepted", "delivered", "failed"}
  PROVE  /\ Settle(r, s) \in NoteRow /\ Settle(r, s).status = s
         /\ Settle(r, s).token = NoToken /\ Settle(r, s).attempts = r.attempts
BY DEF NoteRow, Settle

\* So does recovering one, and it is tried again only if an attempt is left.
LEMMA AbandonedNote ==
  ASSUME NEW r, r \in NoteRow
  PROVE  /\ AfterAbandonment(r) \in NoteRow /\ AfterAbandonment(r).token = NoToken
         /\ AfterAbandonment(r).attempts = r.attempts
         /\ AfterAbandonment(r).status = IF r.attempts >= MaxAttempts THEN "failed" ELSE "pending"
BY DEF NoteRow, AfterAbandonment

\* Rescheduling a message moves its wait only.
LEMMA MovedNote ==
  ASSUME NEW r, r \in NoteRow, NEW d \in Int, NEW a \in Int
  PROVE  /\ DueIn(r, d, a) \in NoteRow /\ DueIn(r, d, a).status = r.status
         /\ DueIn(r, d, a).token = r.token /\ DueIn(r, d, a).attempts = r.attempts
BY DEF NoteRow, DueIn

\* And so does time.
LEMMA OlderNote ==
  ASSUME NEW r, r \in NoteRow
  PROVE  /\ Older(r) \in NoteRow /\ Older(r).status = r.status
         /\ Older(r).token = r.token /\ Older(r).attempts = r.attempts
BY TimingAssumption DEF NoteRow, Older

\* A claim is charged at once.
LEMMA ClaimedRow ==
  \A r, now, t :
    r \in NoteRow /\ now \in Nat /\ t \in Token =>
      /\ ClaimNote(r, now, t) \in NoteRow
      /\ ClaimNote(r, now, t).status = "processing" /\ ClaimNote(r, now, t).token = t
      /\ ClaimNote(r, now, t).attempts = r.attempts + 1
<1> SUFFICES ASSUME NEW r, NEW now, NEW t, r \in NoteRow, now \in Nat, t \in Token
             PROVE  /\ ClaimNote(r, now, t) \in NoteRow
                    /\ ClaimNote(r, now, t).status = "processing"
                    /\ ClaimNote(r, now, t).token = t
                    /\ ClaimNote(r, now, t).attempts = r.attempts + 1
  OBVIOUS
<1> DEFINE q == [r EXCEPT !.status = "processing", !.attempts = @ + 1, !.token = t]
           k == r.attempts + 1
<1>1. /\ q \in NoteRow /\ q.status = "processing" /\ q.token = t /\ q.attempts = r.attempts + 1
  <2>1. k \in Nat /\ q = [r EXCEPT !.status = "processing", !.attempts = k, !.token = t]
    BY DEF NoteRow
  <2> HIDE DEF k, q
  <2>2. /\ q \in NoteRow /\ q.status = "processing" /\ q.token = t /\ q.attempts = k
    BY <2>1 DEF NoteRow
  <2> QED
    BY <2>2 DEF k
<1>2. Lease \in Int /\ now \in Int
  BY TimingAssumption
<1>3. ClaimNote(r, now, t) = DueIn(q, Lease, now)
  BY DEF ClaimNote
<1> HIDE DEF q
<1> QED
  BY <1>1, <1>2, <1>3, MovedNote

\* Whatever the provider said, the message gives up its token and is charged
\* nothing more; it is tried again only while an attempt is left.
LEMMA OutcomeRow ==
  ASSUME NEW r, r \in NoteRow, NEW h \in ClaimedNote, h.attempts \in 1..MaxAttempts,
         NEW now \in Nat, NEW o \in Outcome, NEW delay \in Delays(o, h.attempts)
  PROVE  /\ AfterOutcome(r, h, now, o, delay) \in NoteRow
         /\ AfterOutcome(r, h, now, o, delay).token = NoToken
         /\ AfterOutcome(r, h, now, o, delay).attempts = r.attempts
         /\ AfterOutcome(r, h, now, o, delay).status \in {"pending", "accepted", "delivered", "failed"}
         /\ AfterOutcome(r, h, now, o, delay).status = "pending" => h.attempts < MaxAttempts
<1>1. delay \in Int /\ now \in Int
  <2>1. RetryDelay[h.attempts - 1] \in Nat
    BY DelayAssumption, BudgetAssumption
  <2>2. delay = RetryDelay[h.attempts - 1] \/ delay \in AskedDelay
    BY DEF Delays
  <2>3. AskedDelay \subseteq Nat
    BY CourierAssumption
  <2>4. CASE delay = RetryDelay[h.attempts - 1]
    BY <2>1, <2>4
  <2>5. CASE delay \in AskedDelay
    <3>1. delay \in Nat
      BY <2>3, <2>5
    <3> QED
      BY <3>1
  <2> QED
    BY <2>2, <2>4, <2>5
<1>2. CASE o \in {"accepted", "delivered"}
  BY <1>2, SettledNote DEF AfterOutcome
<1>3. CASE o \notin {"accepted", "delivered"} /\ (o = "permanent" \/ h.attempts >= MaxAttempts)
  BY <1>3, SettledNote DEF AfterOutcome
<1>4. CASE o \notin {"accepted", "delivered"} /\ ~(o = "permanent" \/ h.attempts >= MaxAttempts)
  <2> DEFINE s == Settle(r, "pending")
  <2>1. s \in NoteRow /\ s.status = "pending" /\ s.token = NoToken /\ s.attempts = r.attempts
    BY SettledNote
  <2>2. AfterOutcome(r, h, now, o, delay) = DueIn(s, delay, now)
    BY <1>4 DEF AfterOutcome, MarkRetrying
  <2> HIDE DEF s
  <2>3. h.attempts < MaxAttempts
    BY <1>4, BudgetAssumption
  <2> QED
    BY <1>1, <2>1, <2>2, <2>3, MovedNote
<1> QED
  BY <1>2, <1>3, <1>4

\* The next record of the round, or rest: the finished one is dropped.
LEMMA NextRecord ==
  ASSUME NInv, NEW w \in Courier, NEW h \in courier[w].batch, NextInRound(w, h)
  PROVE  /\ courier' \in [Courier -> CourierState]
         /\ \A v \in Courier : v # w => courier'[v] = courier[v]
         /\ courier'[w].batch = courier[w].batch \ {h}
         /\ courier'[w].step \in {"idle", "send"}
         /\ courier'[w].step = "idle" => courier'[w].batch = {}
<1> DEFINE x == courier[w]
           rest == courier[w].batch \ {h}
           next == [x EXCEPT !.batch = rest, !.step = "send", !.item = NoNotice,
                             !.outcome = "broken"]
<1>1. x \in CourierState /\ courier \in [Courier -> CourierState] /\ rest \subseteq ClaimedNote
  BY CourierParts
<1>2. courier' = [courier EXCEPT ![w] = IF rest = {} THEN AtRest ELSE next]
  BY DEF NextInRound
<1>3. AtRest \in CourierState /\ AtRest.batch = {} /\ AtRest.step = "idle"
  BY TimingAssumption DEF AtRest, CourierState, Outcome
<1> HIDE DEF rest
<1>4. next \in CourierState /\ next.batch = rest /\ next.step = "send"
  <2> HIDE DEF x
  <2> QED
    BY <1>1 DEF CourierState, Outcome
<1> HIDE DEF next
<1>5. /\ courier' \in [Courier -> CourierState]
      /\ \A v \in Courier : v # w => courier'[v] = courier[v]
      /\ courier'[w] = IF rest = {} THEN AtRest ELSE next
  BY <1>1, <1>2, <1>3, <1>4
<1> QED
  BY <1>3, <1>4, <1>5 DEF rest

-----------------------------------------------------------------------------
(* Every step preserves the invariant. *)

\* A dispatcher takes up no new record, and no record it has sent is sent again.
NoNewSend(x, y) ==
  /\ y.batch \subseteq x.batch
  /\ \A h \in y.batch : x.step = "ack" /\ x.item = h.item => y.step = "ack" /\ y.item = h.item

\* A step that sends nothing, charges nothing and gives out no token.
LEMMA QuietStep ==
  ASSUME NInv, NTypeOK', UNCHANGED sends,
         \A w \in Courier : NoNewSend(courier[w], courier'[w]) /\ EmptyBefore(courier'[w]),
         \A n \in Note : /\ note'[n].attempts = note[n].attempts
                         /\ note'[n].token \in {note[n].token, NoToken}
                         /\ NoteRowOK(note'[n])
  PROVE  NInv'
<1>1. NoteRowsOK' /\ EmptyHanded'
  BY DEF NoteRowsOK, EmptyHanded
<1>2. CourierTokensApart' /\ OneRecordPerNote'
  BY DEF NInv, CourierTokensApart, OneRecordPerNote, NoNewSend
<1>3. RecordsCharged'
  <2> SUFFICES ASSUME NEW w \in Courier, NEW h \in courier'[w].batch
               PROVE  /\ h.attempts \in 1..MaxAttempts
                      /\ note'[h.item].token = h.token => note'[h.item].attempts = h.attempts
    BY DEF RecordsCharged
  <2>1. h \in courier[w].batch
    BY DEF NoNewSend
  <2>2. h.item \in Note /\ h.token # NoToken
    BY <2>1, CourierParts, NoteParts, NoTokenAssumption
  <2> QED
    BY <2>1, <2>2 DEF NInv, RecordsCharged
<1>4. SendsCharged'
  <2> SUFFICES ASSUME NEW n \in Note
               PROVE  sends[n] + Cardinality(MaySend(n)') <= note[n].attempts
    BY DEF SendsCharged
  <2>1. MaySend(n)' \subseteq MaySend(n) /\ MaySend(n) \subseteq Courier
    BY DEF MaySend, NoNewSend
  <2> DEFINE u == Cardinality(MaySend(n))  v == Cardinality(MaySend(n)')
  <2>2. u \in Nat /\ v \in Nat /\ v <= u
    BY <2>1, CourierAssumption, Headcount
  <2>3. sends[n] \in Nat /\ note[n].attempts \in Nat /\ sends[n] + u <= note[n].attempts
    BY DEF NInv, NTypeOK, NoteRow, SendsCharged
  <2> HIDE DEF u, v
  <2>4. sends[n] + v <= note[n].attempts
    BY <2>2, <2>3
  <2> QED
    BY <2>4 DEF v
<1> QED
  BY <1>1, <1>2, <1>3, <1>4 DEF NInv

\* A step that leaves every message and what every dispatcher may send alone.
LEMMA AsideStep ==
  ASSUME NInv, NTypeOK', UNCHANGED <<note, sends>>,
         \A w \in Courier : NoNewSend(courier[w], courier'[w]) /\ EmptyBefore(courier'[w])
  PROVE  NInv'
BY QuietStep DEF NInv, NoteRowsOK

\* Nothing is queued, claimed, sent or registered at first.
LEMMA InitNInv == NInit => NInv
<1> SUFFICES ASSUME NInit PROVE NInv
  OBVIOUS
<1>1. AtRest \in CourierState
  BY TimingAssumption DEF AtRest, CourierState, Outcome
<1>2. NTypeOK
  BY <1>1, NewNote DEF NInit, NTypeOK, CourierState
<1>3. NoteRowsOK
  BY NewNote DEF NInit, NoteRowsOK
<1>4. CourierTokensApart /\ OneRecordPerNote /\ RecordsCharged /\ EmptyHanded
  BY DEF NInit, AtRest, CourierTokensApart, OneRecordPerNote, RecordsCharged, EmptyHanded,
         EmptyBefore
<1>5. SendsCharged
  <2> SUFFICES ASSUME NEW n \in Note
               PROVE  sends[n] + Cardinality(MaySend(n)) <= note[n].attempts
    BY DEF SendsCharged
  <2>1. MaySend(n) = {}
    BY DEF NInit, AtRest, MaySend
  <2>2. Cardinality(MaySend(n)) = 0
    BY <2>1, FS_EmptySet
  <2> QED
    BY <2>2 DEF NInit, NoNote
<1> QED
  BY <1>2, <1>3, <1>4, <1>5 DEF NInv

\* Recipients are registered and switched without touching a message.
LEMMA RecipientStep ==
  ASSUME NInv, NEW r \in Recipient,
         RegisterRecipient(r) \/ \E state \in {"active", "inactive"} : SetRecipientActive(r, state)
  PROVE  NInv'
<1>1. NTypeOK' /\ UNCHANGED <<note, courier, sends>>
  BY DEF RegisterRecipient, SetRecipientActive, NInv, NTypeOK
<1> QED
  BY <1>1, AsideStep DEF NInv, EmptyHanded, NoNewSend

\* A fan-out queues messages where there were none.
LEMMA TellStep ==
  ASSUME NInv, NEW e \in Notice, TellRead(e) \/ TellCommit(e) \/ TellRollback(e)
  PROVE  NInv'
<1>1. UNCHANGED <<courier, sends>>
  BY DEF TellRead, TellCommit, TellRollback
<1>2. \A w \in Courier : NoNewSend(courier[w], courier'[w]) /\ EmptyBefore(courier'[w])
  BY <1>1 DEF NInv, EmptyHanded, NoNewSend
<1>3. CASE TellRead(e) \/ TellRollback(e)
  <2>1. RecipientsFor(e) \subseteq Recipient
    BY DEF RecipientsFor
  <2>2. NTypeOK' /\ UNCHANGED note
    BY <1>3, <2>1 DEF TellRead, TellRollback, NInv, NTypeOK
  <2> QED
    BY <1>1, <1>2, <2>2, AsideStep
<1>4. CASE TellCommit(e)
  <2> DEFINE new == [NoNote EXCEPT !.status = "pending"]
  <2>1. \A n \in Note : QueueNote(n) = IF note[n].status = "absent" THEN new ELSE note[n]
    BY DEF QueueNote
  <2>2. new \in NoteRow /\ new.status = "pending" /\ new.token = NoToken /\ new.attempts = 0
    BY NewNote
  <2> HIDE DEF new
  <2>3. \A n \in Note : note'[n] = note[n] \/ (note[n].status = "absent" /\ note'[n] = new)
    BY <1>4, <2>1 DEF TellCommit
  <2>4. NoteRowOK(new)
    BY <2>2, BudgetAssumption DEF NoteRowOK
  <2>5. NTypeOK'
    <3>1. note' \in [Note -> NoteRow]
      BY <1>4, <2>2, <2>3 DEF TellCommit, NInv, NTypeOK
    <3> QED
      BY <1>4, <3>1 DEF TellCommit, NInv, NTypeOK
  <2>6. ASSUME NEW n \in Note
        PROVE  /\ note'[n].attempts = note[n].attempts
               /\ note'[n].token \in {note[n].token, NoToken}
               /\ NoteRowOK(note'[n])
    <3>1. NoteRowOK(note[n])
      BY DEF NInv, NoteRowsOK
    <3> QED
      BY <2>2, <2>4, <2>3, <3>1 DEF NoteRowOK
  <2> QED
    BY <1>1, <1>2, <2>5, <2>6, QuietStep
<1> QED
  BY <1>3, <1>4

\* One dispatcher moves.
OnlyCourier(w) ==
  /\ courier' \in [Courier -> CourierState]
  /\ \A v \in Courier : v # w => courier'[v] = courier[v]

\* It is all there is to look at.
LEMMA OneMoves ==
  ASSUME NInv, NEW w \in Courier, OnlyCourier(w),
         NoNewSend(courier[w], courier'[w]), EmptyBefore(courier'[w])
  PROVE  \A v \in Courier : NoNewSend(courier[v], courier'[v]) /\ EmptyBefore(courier'[v])
BY DEF OnlyCourier, NoNewSend, NInv, EmptyHanded

\* A round begins; there is nothing to send; the process dies; no adapter is
\* there: no message changes and nothing more can be sent.
LEMMA AloneStep ==
  ASSUME NInv, NEW w \in Courier,
         StartRound(w) \/ NoNoteDue(w) \/ CourierDies(w) \/ NoAdapter(w)
  PROVE  NInv'
<1>1. UNCHANGED <<recipient, telling, note, sends>>
  BY DEF StartRound, NoNoteDue, CourierDies, NoAdapter
<1>2. courier \in [Courier -> CourierState] /\ EmptyBefore(courier[w])
  BY CourierParts
<1>3. OnlyCourier(w) /\ NoNewSend(courier[w], courier'[w]) /\ EmptyBefore(courier'[w])
  <2>1. CASE StartRound(w)
    <3>1. /\ OnlyCourier(w) /\ courier'[w].step = "reclaim" /\ courier[w].step = "idle"
          /\ courier'[w].batch = courier[w].batch
      BY <1>2, <2>1 DEF StartRound, OnlyCourier, CourierState
    <3> QED
      BY <1>2, <3>1 DEF NoNewSend, EmptyBefore
  <2>2. CASE NoNoteDue(w) \/ CourierDies(w)
    <3>1. AtRest \in CourierState /\ AtRest.batch = {}
      BY TimingAssumption DEF AtRest, CourierState, Outcome
    <3>2. courier' = [courier EXCEPT ![w] = AtRest]
      BY <2>2 DEF NoNoteDue, CourierDies
    <3>3. OnlyCourier(w) /\ courier'[w] = AtRest
      BY <1>2, <3>1, <3>2 DEF OnlyCourier
    <3> QED
      BY <3>1, <3>3 DEF NoNewSend, EmptyBefore
  <2>3. CASE NoAdapter(w)
    <3>1. PICK h \in FirstDue(w) :
            courier' = [courier EXCEPT ![w].step = "ack", ![w].item = h.item, ![w].outcome = "broken"]
      BY <2>3 DEF NoAdapter
    <3>2. h.item \in Note /\ "broken" \in Outcome
      BY CourierParts, NoteParts DEF FirstDue, Outcome
    <3>3. OnlyCourier(w) /\ courier'[w].step = "ack" /\ courier'[w].batch = courier[w].batch
      BY <1>2, <3>1, <3>2 DEF OnlyCourier, CourierState
    <3> QED
      BY <2>3, <3>3 DEF NoAdapter, NoNewSend, EmptyBefore
  <2> QED
    BY <2>1, <2>2, <2>3
<1>4. NTypeOK'
  BY <1>1, <1>3 DEF OnlyCourier, CourierState, NInv, NTypeOK
<1> QED
  BY <1>1, <1>3, <1>4, OneMoves, AsideStep

\* A recovery takes tokens back and grants no attempt.
LEMMA NoteRecoverStep ==
  ASSUME NInv, NEW w \in Courier, RecoverNotes(w)
  PROVE  NInv'
<1>1. PICK S \in InDueOrder(note, {n \in Note : LeaseOver(n, courier[w].age)}, CourierLimit) :
        note' = [n \in Note |-> IF n \in S THEN AfterAbandonment(note[n]) ELSE note[n]]
  BY DEF RecoverNotes
<1>2. \A n \in Note : note[n] \in NoteRow /\ NoteRowOK(note[n])
  BY DEF NInv, NTypeOK, NoteRowsOK
<1>3. ASSUME NEW n \in Note
      PROVE  /\ note'[n] \in NoteRow
             /\ note'[n].attempts = note[n].attempts
             /\ note'[n].token \in {note[n].token, NoToken}
             /\ NoteRowOK(note'[n])
  <2> DEFINE r == note[n]  s == AfterAbandonment(r)
  <2>1. r \in NoteRow /\ NoteRowOK(r)
    BY <1>2
  <2>2. /\ s \in NoteRow /\ s.token = NoToken /\ s.attempts = r.attempts
        /\ s.status = IF r.attempts >= MaxAttempts THEN "failed" ELSE "pending"
    BY <2>1, AbandonedNote
  <2>3. note'[n] = IF n \in S THEN s ELSE r
    BY <1>1
  <2> HIDE DEF r, s
  <2>4. r.attempts \in Nat /\ MaxAttempts \in Nat
    BY <2>1, BudgetAssumption DEF NoteRow
  <2>5. NoteRowOK(s)
    BY <2>1, <2>2, <2>4 DEF NoteRowOK
  <2> QED
    BY <2>1, <2>2, <2>3, <2>5 DEF r
<1>4. /\ OnlyCourier(w) /\ NoNewSend(courier[w], courier'[w]) /\ EmptyBefore(courier'[w])
      /\ UNCHANGED <<recipient, telling, sends>>
  BY CourierParts DEF RecoverNotes, OnlyCourier, CourierState, NoNewSend, EmptyBefore
<1>5. NTypeOK'
  <2>1. note' \in [Note -> NoteRow]
    BY <1>1, <1>3
  <2> QED
    BY <1>4, <2>1 DEF OnlyCourier, CourierState, NInv, NTypeOK
<1> QED
  BY <1>3, <1>4, <1>5, OneMoves, QuietStep

\* What the provider said is recorded, if the attempt is still the row's.
LEMMA OutcomeStep ==
  ASSUME NInv, NEW w \in Courier, RecordOutcome(w)
  PROVE  NInv'
<1>1. PICK h \in courier[w].batch :
        /\ h.item = courier[w].item
        /\ \E delay \in Delays(courier[w].outcome, h.attempts) :
             note' = [note EXCEPT ![h.item] =
               IF AcceptsNote(@, h)
               THEN AfterOutcome(@, h, courier[w].age, courier[w].outcome, delay) ELSE @]
        /\ NextInRound(w, h)
  BY DEF RecordOutcome
<1>2. PICK delay \in Delays(courier[w].outcome, h.attempts) :
        note' = [note EXCEPT ![h.item] =
          IF AcceptsNote(@, h)
          THEN AfterOutcome(@, h, courier[w].age, courier[w].outcome, delay) ELSE @]
  BY <1>1
<1>3. courier[w].age \in Nat /\ courier[w].outcome \in Outcome /\ UNCHANGED <<recipient, telling, sends>>
  BY CourierParts DEF CourierState, RecordOutcome
<1>4. /\ h.item \in Note /\ h \in ClaimedNote /\ h.attempts \in 1..MaxAttempts
      /\ note[h.item].token = h.token => note[h.item].attempts = h.attempts
  BY CourierParts, NoteParts DEF NInv, RecordsCharged
<1>5. note \in [Note -> NoteRow] /\ \A n \in Note : NoteRowOK(note[n])
  BY DEF NInv, NTypeOK, NoteRowsOK
<1> DEFINE r == note[h.item]  s == AfterOutcome(r, h, courier[w].age, courier[w].outcome, delay)
<1>6. /\ s \in NoteRow /\ s.token = NoToken /\ s.attempts = r.attempts
      /\ s.status \in {"pending", "accepted", "delivered", "failed"}
      /\ s.status = "pending" => h.attempts < MaxAttempts
  BY <1>3, <1>4, <1>5, OutcomeRow
<1>7. note' = [note EXCEPT ![h.item] = IF AcceptsNote(r, h) THEN s ELSE r]
  BY <1>2, <1>4, <1>5
<1> HIDE DEF s
<1>8. AcceptsNote(r, h) => NoteRowOK(s)
  <2>1. NoteRowOK(r) /\ r.attempts \in Nat
    BY <1>4, <1>5 DEF NoteRow
  <2> QED
    BY <1>4, <1>6, <2>1 DEF NoteRowOK, AcceptsNote
<1>9. ASSUME NEW n \in Note
      PROVE  /\ note'[n] \in NoteRow
             /\ note'[n].attempts = note[n].attempts
             /\ note'[n].token \in {note[n].token, NoToken}
             /\ NoteRowOK(note'[n])
  <2>1. CASE n # h.item \/ ~AcceptsNote(r, h)
    <3>1. note'[n] = note[n]
      BY <1>4, <1>5, <1>7, <2>1
    <3> QED
      BY <1>5, <3>1
  <2>2. CASE n = h.item /\ AcceptsNote(r, h)
    <3>1. note'[n] = s
      BY <1>4, <1>5, <1>7, <2>2
    <3> QED
      BY <1>6, <1>8, <2>2, <3>1
  <2> QED
    BY <2>1, <2>2
<1>10. /\ OnlyCourier(w) /\ courier'[w].batch = courier[w].batch \ {h}
       /\ courier'[w].step \in {"idle", "send"}
       /\ courier'[w].step = "idle" => courier'[w].batch = {}
  BY <1>1, NextRecord DEF OnlyCourier
<1>11. NoNewSend(courier[w], courier'[w]) /\ EmptyBefore(courier'[w])
  <2>1. \A g \in courier'[w].batch : g.item # courier[w].item
    BY <1>1, <1>10 DEF NInv, OneRecordPerNote
  <2> QED
    BY <1>10, <2>1 DEF NoNewSend, EmptyBefore
<1>12. NTypeOK'
  <2>1. note' \in [Note -> NoteRow]
    BY <1>5, <1>7, <1>9
  <2> QED
    BY <1>3, <1>10, <2>1 DEF OnlyCourier, CourierState, NInv, NTypeOK
<1> QED
  BY <1>3, <1>9, <1>10, <1>11, <1>12, OneMoves, QuietStep

\* Time moves schedules and clock readings, and neither claims nor sends.
LEMMA NoteTickStep ==
  ASSUME NInv, NTick
  PROVE  NInv'
<1>1. ASSUME NEW n \in Note
      PROVE  /\ note'[n] \in NoteRow /\ note'[n].attempts = note[n].attempts
             /\ note'[n].token = note[n].token /\ note'[n].status = note[n].status
  BY OlderNote DEF NTick, NInv, NTypeOK
<1>2. ASSUME NEW w \in Courier
      PROVE  /\ courier'[w] \in CourierState
             /\ courier'[w].step = courier[w].step /\ courier'[w].batch = courier[w].batch
             /\ courier'[w].item = courier[w].item
  <2> DEFINE x == courier[w]  y == [x EXCEPT !.age = @ + 1]
  <2>1. x \in CourierState
    BY CourierParts
  <2>2. courier'[w] = IF x.step # "idle" /\ x.age < Horizon THEN y ELSE x
    BY DEF NTick
  <2> HIDE DEF x
  <2>3. x.age < Horizon => y \in CourierState
    BY <2>1, TimingAssumption DEF CourierState
  <2>4. y.step = x.step /\ y.batch = x.batch /\ y.item = x.item
    BY <2>1 DEF CourierState
  <2> HIDE DEF y
  <2> QED
    BY <2>1, <2>2, <2>3, <2>4 DEF x
<1>3. NTypeOK'
  <2>1. note' \in [Note -> NoteRow] /\ courier' \in [Courier -> CourierState]
    BY <1>1, <1>2 DEF NTick
  <2> QED
    BY <2>1 DEF NTick, CourierState, NInv, NTypeOK
<1>4. \A n \in Note : NoteRowOK(note'[n])
  BY <1>1 DEF NInv, NoteRowsOK, NoteRowOK
<1>5. \A w \in Courier : NoNewSend(courier[w], courier'[w]) /\ EmptyBefore(courier'[w])
  BY <1>2 DEF NoNewSend, EmptyBefore, NInv, EmptyHanded
<1>6. UNCHANGED sends
  BY DEF NTick
<1> QED
  BY <1>1, <1>3, <1>4, <1>5, <1>6, QuietStep

\* A claim charges the one attempt its holder may make, under a fresh token.
LEMMA NoteClaimStep ==
  ASSUME NInv, NEW w \in Courier, ClaimNotes(w)
  PROVE  NInv'
<1>1. PICK S \in InDueOrder(note, DueNotes(w), CourierLimit) \ {{}},
           t \in Token \ NoteTokensInUse :
        /\ note' = [n \in Note |->
             IF n \in S THEN ClaimNote(note[n], courier[w].age, t) ELSE note[n]]
        /\ courier' = [courier EXCEPT ![w].step = "send", ![w].batch =
             {[item |-> n, token |-> t, attempts |-> note[n].attempts + 1, due |-> note[n].wait] :
                n \in S}]
  BY DEF ClaimNotes
<1>2. S \subseteq Note /\ \A n \in S : note[n].status = "pending"
  BY DEF InDueOrder, DueNotes
<1>3. /\ courier[w].age \in Nat /\ UNCHANGED <<recipient, telling, sends>>
      /\ \A n \in Note : note[n] \in NoteRow /\ NoteRowOK(note[n])
  BY CourierParts DEF NInv, NTypeOK, NoteRowsOK, ClaimNotes
<1>4. ASSUME NEW n \in Note, n \in S
      PROVE  /\ note'[n] \in NoteRow
             /\ note'[n].status = "processing" /\ note'[n].token = t
             /\ note'[n].attempts = note[n].attempts + 1
  BY <1>1, <1>3, <1>4, ClaimedRow
<1>5. \A n \in Note : n \notin S => note'[n] = note[n]
  BY <1>1
<1>6. \A n \in S : note[n].attempts \in Nat /\ note[n].attempts < MaxAttempts /\ note[n].wait \in Int
  BY <1>2, <1>3 DEF NoteRowOK, NoteRow
<1> DEFINE rec(n) == [item |-> n, token |-> t, attempts |-> note[n].attempts + 1,
                      due |-> note[n].wait]
           B == {rec(n) : n \in S}
<1>7. \A n \in S : /\ rec(n) \in ClaimedNote /\ rec(n).item = n /\ rec(n).token = t
                   /\ rec(n).attempts = note[n].attempts + 1
  BY <1>2, <1>6 DEF ClaimedNote
<1>8. courier' = [courier EXCEPT ![w].step = "send", ![w].batch = B]
  BY <1>1
<1> HIDE DEF rec
<1>9. B \subseteq ClaimedNote
  BY <1>7
<1> HIDE DEF B
<1>10. OnlyCourier(w) /\ courier'[w].step = "send" /\ courier'[w].batch = B
  BY <1>8, <1>9, CourierParts DEF OnlyCourier, CourierState
<1>11. \A h \in B : /\ h.item \in S /\ h.token = t /\ h = rec(h.item)
                    /\ h.attempts = note[h.item].attempts + 1
  BY <1>7 DEF B
<1>12. t \in Token /\ (\A n \in Note : note[n].token # t)
       /\ (\A v \in Courier : \A h \in courier[v].batch : h.token # t)
  BY DEF NoteTokensInUse
<1>13. courier[w].batch = {}
  BY CourierParts DEF ClaimNotes, EmptyBefore
<1>14. NTypeOK'
  <2>1. note' \in [Note -> NoteRow]
    BY <1>1, <1>3, <1>4, <1>5
  <2> QED
    BY <1>3, <1>10, <2>1 DEF OnlyCourier, CourierState, NInv, NTypeOK
<1>15. NoteRowsOK'
  <2> SUFFICES ASSUME NEW n \in Note PROVE NoteRowOK(note'[n])
    BY DEF NoteRowsOK
  <2>1. CASE n \in S
    <3> DEFINE k == note[n].attempts  s == note'[n]
    <3>1. k \in Nat /\ k < MaxAttempts /\ s.status = "processing" /\ s.token # NoToken
          /\ s.attempts = k + 1
      BY <1>4, <1>6, <1>12, <2>1, NoTokenAssumption
    <3> HIDE DEF k, s
    <3>2. NoteRowOK(s)
      BY <3>1, BudgetAssumption DEF NoteRowOK
    <3> QED
      BY <3>2 DEF s
  <2>2. CASE n \notin S
    BY <1>3, <1>5, <2>2
  <2> QED
    BY <2>1, <2>2
<1>16. CourierTokensApart'
  <2> SUFFICES ASSUME NEW u \in Courier, NEW v \in Courier, NEW g \in courier'[u].batch,
                      NEW h \in courier'[v].batch, g.token = h.token
               PROVE  u = v
    BY DEF CourierTokensApart
  <2>1. CASE u = w
    BY <2>1, <1>10, <1>11, <1>12 DEF OnlyCourier
  <2>2. CASE u # w
    BY <2>2, <1>10, <1>11, <1>12 DEF OnlyCourier, NInv, CourierTokensApart
  <2> QED
    BY <2>1, <2>2
<1>17. OneRecordPerNote'
  <2> SUFFICES ASSUME NEW v \in Courier, NEW g \in courier'[v].batch, NEW h \in courier'[v].batch,
                      g.item = h.item
               PROVE  g = h
    BY DEF OneRecordPerNote
  <2>1. CASE v = w
    BY <2>1, <1>10, <1>11
  <2>2. CASE v # w
    BY <2>2, <1>10 DEF OnlyCourier, NInv, OneRecordPerNote
  <2> QED
    BY <2>1, <2>2
<1>18. RecordsCharged'
  <2> SUFFICES ASSUME NEW v \in Courier, NEW h \in courier'[v].batch
               PROVE  /\ h.attempts \in 1..MaxAttempts
                      /\ note'[h.item].token = h.token => note'[h.item].attempts = h.attempts
    BY DEF RecordsCharged
  <2>1. CASE v = w
    <3>1. h.item \in S /\ h.item \in Note /\ h.attempts = note[h.item].attempts + 1
      BY <2>1, <1>2, <1>10, <1>11
    <3>2. note'[h.item].attempts = h.attempts
      BY <1>4, <3>1
    <3>3. h.attempts \in 1..MaxAttempts
      BY <1>6, <3>1, BudgetAssumption
    <3> QED
      BY <3>2, <3>3
  <2>2. CASE v # w
    <3>1. /\ h \in courier[v].batch /\ h.attempts \in 1..MaxAttempts /\ h.token # t
          /\ note[h.item].token = h.token => note[h.item].attempts = h.attempts
      BY <2>2, <1>10, <1>12 DEF OnlyCourier, NInv, RecordsCharged
    <3>2. h.item \in Note
      BY <3>1, CourierParts, NoteParts
    <3>3. h.item \in S => note'[h.item].token # h.token
      BY <1>4, <3>1, <3>2
    <3> QED
      BY <1>5, <3>1, <3>2, <3>3
  <2> QED
    BY <2>1, <2>2
<1>19. EmptyHanded'
  BY <1>10 DEF OnlyCourier, EmptyHanded, EmptyBefore, NInv
<1>20. SendsCharged'
  <2> SUFFICES ASSUME NEW n \in Note
               PROVE  sends[n] + Cardinality(MaySend(n)') <= note'[n].attempts
    BY <1>3 DEF SendsCharged
  <2> DEFINE u == Cardinality(MaySend(n))  v == Cardinality(MaySend(n)')
             k == Cardinality(MaySend(n) \union {w})
  <2>1. sends[n] \in Nat /\ note[n].attempts \in Nat /\ sends[n] + u <= note[n].attempts
    BY DEF NInv, NTypeOK, NoteRow, SendsCharged
  <2>2. MaySend(n) \subseteq Courier /\ MaySend(n) \union {w} \subseteq Courier
    BY DEF MaySend
  <2>3. u \in Nat /\ k <= u + 1
    BY <2>2, CourierAssumption, Headcount
  <2>4. CASE n \in S
    <3>1. MaySend(n)' \subseteq MaySend(n) \union {w}
      BY <1>10 DEF OnlyCourier, MaySend
    <3>2. v \in Nat /\ k \in Nat /\ v <= k
      BY <2>2, <3>1, CourierAssumption, Headcount
    <3>3. note'[n].attempts = note[n].attempts + 1
      BY <1>4, <2>4
    <3> HIDE DEF u, v, k
    <3>4. sends[n] + v <= note'[n].attempts
      BY <2>1, <2>3, <3>2, <3>3
    <3> QED
      BY <3>4 DEF v
  <2>5. CASE n \notin S
    <3>1. MaySend(n)' \subseteq MaySend(n)
      BY <2>5, <1>10, <1>11 DEF OnlyCourier, MaySend
    <3>2. v \in Nat /\ v <= u
      BY <2>2, <3>1, CourierAssumption, Headcount
    <3>3. note'[n].attempts = note[n].attempts
      BY <1>5, <2>5
    <3> HIDE DEF u, v, k
    <3>4. sends[n] + v <= note'[n].attempts
      BY <2>1, <2>3, <3>2, <3>3
    <3> QED
      BY <3>4 DEF v
  <2> QED
    BY <2>4, <2>5
<1> QED
  BY <1>14, <1>15, <1>16, <1>17, <1>18, <1>19, <1>20 DEF NInv

\* A message is handed over once per record, on the attempt that paid for it.
LEMMA NoteSendStep ==
  ASSUME NInv, NEW w \in Courier, NEW o \in Outcome, SendNote(w, o)
  PROVE  NInv'
<1>1. PICK h \in FirstDue(w) :
        /\ courier' = [courier EXCEPT ![w].step = "ack", ![w].item = h.item, ![w].outcome = o]
        /\ sends' = [sends EXCEPT ![h.item] = @ + 1]
  BY DEF SendNote
<1> DEFINE e == h.item
<1>2. /\ courier[w].step = "send" /\ UNCHANGED <<recipient, telling, note>>
      /\ sends \in [Note -> Nat]
  BY DEF SendNote, NInv, NTypeOK
<1>3. e \in Note /\ h \in courier[w].batch
  BY CourierParts, NoteParts DEF FirstDue
<1>4. /\ OnlyCourier(w) /\ courier'[w].step = "ack" /\ courier'[w].item = e
      /\ courier'[w].batch = courier[w].batch
  BY <1>1, <1>3, CourierParts DEF OnlyCourier, CourierState
<1>5. NTypeOK'
  <2>1. sends' \in [Note -> Nat]
    BY <1>1, <1>2, <1>3
  <2> QED
    BY <1>2, <1>4, <2>1 DEF OnlyCourier, CourierState, NInv, NTypeOK
<1>6. NoteRowsOK' /\ EmptyHanded'
  BY <1>2, <1>4 DEF NInv, NoteRowsOK, EmptyHanded, EmptyBefore, OnlyCourier
<1>7. \A v \in Courier : courier'[v].batch = courier[v].batch
  BY <1>4 DEF OnlyCourier
<1>8. CourierTokensApart' /\ OneRecordPerNote' /\ RecordsCharged'
  BY <1>2, <1>7 DEF NInv, CourierTokensApart, OneRecordPerNote, RecordsCharged
<1>9. SendsCharged'
  <2> SUFFICES ASSUME NEW n \in Note
               PROVE  sends'[n] + Cardinality(MaySend(n)') <= note[n].attempts
    BY <1>2 DEF SendsCharged
  <2> DEFINE u == Cardinality(MaySend(n))  v == Cardinality(MaySend(n)')
             k == Cardinality(MaySend(n) \ {w})
  <2>1. sends[n] \in Nat /\ note[n].attempts \in Nat /\ sends[n] + u <= note[n].attempts
    BY DEF NInv, NTypeOK, NoteRow, SendsCharged
  <2>2. MaySend(n)' \subseteq MaySend(n) /\ MaySend(n) \subseteq Courier
    BY <1>2, <1>4, <1>7 DEF OnlyCourier, MaySend
  <2>3. u \in Nat /\ v \in Nat /\ v <= u
    BY <2>2, CourierAssumption, Headcount
  <2>4. CASE n = e
    <3>1. w \in MaySend(n) /\ w \notin MaySend(n)'
      BY <1>2, <1>3, <1>4, <2>4 DEF MaySend
    <3>2. MaySend(n)' \subseteq MaySend(n) \ {w} /\ MaySend(n) \ {w} \subseteq Courier
      BY <2>2, <3>1
    <3>3. k = u - 1
      BY <2>2, <3>1, CourierAssumption, Headcount
    <3>4. k \in Nat /\ v <= k
      BY <3>2, CourierAssumption, Headcount
    <3>5. sends'[n] = sends[n] + 1
      BY <1>1, <1>2, <2>4
    <3> HIDE DEF u, v, k
    <3>6. sends'[n] + v <= note[n].attempts
      BY <2>1, <2>3, <3>3, <3>4, <3>5
    <3> QED
      BY <3>6 DEF v
  <2>5. CASE n # e
    <3>1. sends'[n] = sends[n]
      BY <1>1, <1>2, <2>5
    <3> HIDE DEF u, v, k
    <3>2. sends'[n] + v <= note[n].attempts
      BY <2>1, <2>3, <3>1
    <3> QED
      BY <3>2 DEF v
  <2> QED
    BY <2>4, <2>5
<1> QED
  BY <1>5, <1>6, <1>8, <1>9 DEF NInv

\* No step of a dispatcher, a fan-out, an administrator or the clock breaks it.
LEMMA NextNInv == NInv /\ [NNext]_nvars => NInv'
<1> SUFFICES ASSUME NInv, [NNext]_nvars PROVE NInv'
  OBVIOUS
<1>1. ASSUME NEW r \in Recipient,
             RegisterRecipient(r) \/ \E state \in {"active", "inactive"} : SetRecipientActive(r, state)
      PROVE  NInv'
  BY <1>1, RecipientStep
<1>2. ASSUME NEW e \in Notice, TellRead(e) \/ TellCommit(e) \/ TellRollback(e) PROVE NInv'
  BY <1>2, TellStep
<1>3. ASSUME NEW w \in Courier, StartRound(w) \/ NoNoteDue(w) \/ CourierDies(w) \/ NoAdapter(w)
      PROVE  NInv'
  BY <1>3, AloneStep
<1>4. ASSUME NEW w \in Courier, RecoverNotes(w) PROVE NInv'
  BY <1>4, NoteRecoverStep
<1>5. ASSUME NEW w \in Courier, ClaimNotes(w) PROVE NInv'
  BY <1>5, NoteClaimStep
<1>6. ASSUME NEW w \in Courier, NEW o \in Outcome, SendNote(w, o) PROVE NInv'
  BY <1>6, NoteSendStep
<1>7. ASSUME NEW w \in Courier, RecordOutcome(w) PROVE NInv'
  BY <1>7, OutcomeStep
<1>8. CASE NTick
  BY <1>8, NoteTickStep
<1>9. CASE UNCHANGED nvars
  <2>1. NTypeOK' /\ UNCHANGED <<note, courier, sends>>
    BY <1>9 DEF nvars, NInv, NTypeOK
  <2> QED
    BY <2>1, AsideStep DEF NInv, EmptyHanded, NoNewSend
<1> QED
  BY <1>1, <1>2, <1>3, <1>4, <1>5, <1>6, <1>7, <1>8, <1>9 DEF NNext

-----------------------------------------------------------------------------
(* What follows for every behaviour. *)

\* The inductive invariant holds in every reachable state.
LEMMA SpecNInv == NSpec => []NInv
BY InitNInv, NextNInv, PTL DEF NSpec

\* Messages, dispatchers and counters stay within their types.
THEOREM NTyping == NSpec => []NTypeOK
BY SpecNInv, PTL DEF NInv

\* A person is messaged about an event at most MaxAttempts times, however many
\* dispatchers stall past their lease with the message in hand.
THEOREM BudgetedMessages == NSpec => []MessagedWithinBudget
<1>1. NInv => MessagedWithinBudget
  <2> SUFFICES ASSUME NInv, NEW n \in Note
               PROVE  sends[n] <= note[n].attempts /\ note[n].attempts <= MaxAttempts
    BY DEF MessagedWithinBudget
  <2> DEFINE u == Cardinality(MaySend(n))
  <2>1. MaySend(n) \subseteq Courier
    BY DEF MaySend
  <2>2. u \in Nat
    BY <2>1, CourierAssumption, Headcount
  <2>3. /\ sends[n] \in Nat /\ note[n].attempts \in Nat /\ sends[n] + u <= note[n].attempts
        /\ note[n].attempts <= MaxAttempts
    BY DEF NInv, NTypeOK, NoteRow, SendsCharged, NoteRowsOK, NoteRowOK
  <2> HIDE DEF u
  <2> QED
    BY <2>2, <2>3
<1> QED
  BY <1>1, SpecNInv, PTL

-----------------------------------------------------------------------------
(* Notifications implement exclusive work. *)

\* The owner of a message in process is the one dispatcher whose record carries
\* its token, or is gone; any other message has none.
LEMMA CourierFacts ==
  ASSUME NInv, NEW n \in Note
  PROVE  /\ note[n].status # "processing" => CourierOf(n) = "nobody"
         /\ note[n].status = "processing" => CourierOf(n) # "nobody"
         /\ note[n].status = "processing" /\ CouriersOf(n) = {} => CourierOf(n) = "lost"
         /\ \A w \in CouriersOf(n) : note[n].status = "processing" /\ CourierOf(n) = w
                                     /\ CouriersOf(n) = {w}
<1>1. note[n].status # "processing" => CourierOf(n) = "nobody"
  BY DEF CourierOf, OwnerOf
<1>2. note[n].status = "processing" /\ CouriersOf(n) = {} => CourierOf(n) = "lost"
  BY DEF CourierOf, OwnerOf
<1>3. ASSUME NEW w \in CouriersOf(n)
      PROVE  note[n].status = "processing" /\ CourierOf(n) = w /\ CouriersOf(n) = {w}
  <2>1. w \in Courier /\ \E h \in courier[w].batch : h.item = n /\ h.token = note[n].token
    BY DEF CouriersOf
  <2>2. note[n].token # NoToken
    BY <2>1, CourierParts, NoteParts, NoTokenAssumption
  <2>3. note[n].status = "processing"
    BY <2>2 DEF NInv, NoteRowsOK, NoteRowOK
  <2>4. CouriersOf(n) = {w}
    BY <2>1 DEF CouriersOf, NInv, CourierTokensApart
  <2>5. CourierOf(n) = CHOOSE v \in {w} : TRUE
    BY <2>3, <2>4 DEF CourierOf, OwnerOf
  <2> QED
    BY <2>3, <2>4, <2>5
<1>4. note[n].status = "processing" => CourierOf(n) # "nobody"
  <2>1. CASE CouriersOf(n) = {}
    BY <2>1, <1>2
  <2>2. CASE CouriersOf(n) # {}
    <3>1. PICK w \in CouriersOf(n) : TRUE
      BY <2>2
    <3>2. w \in Courier /\ CourierOf(n) = w
      BY <3>1, <1>3 DEF CouriersOf
    <3> QED
      BY <3>2, CourierAssumption
  <2> QED
    BY <2>1, <2>2
<1> QED
  BY <1>1, <1>2, <1>3, <1>4

\* A message that stays in process under the same holders keeps its owner, and
\* so does one that is in nobody's hands before and after.
LEMMA NoteOwnerStays ==
  ASSUME NInv, NEW n \in Note,
         note'[n].status = "processing" <=> note[n].status = "processing",
         note[n].status = "processing" => CouriersOf(n)' = CouriersOf(n)
  PROVE  CourierOf(n)' = CourierOf(n)
<1>1. CASE note[n].status = "processing"
  BY <1>1 DEF CourierOf, OwnerOf
<1>2. CASE note[n].status # "processing"
  BY <1>2 DEF CourierOf, OwnerOf
<1> QED
  BY <1>1, <1>2

\* A message that is not in process has no owner next.
LEMMA NoteOwnerGone ==
  ASSUME NEW n \in Note, note'[n].status # "processing"
  PROVE  CourierOf(n)' = "nobody"
BY DEF CourierOf, OwnerOf

\* A step that moves no status, no token and no record is no step of the
\* abstract queue.
LEMMA NoNoteWork ==
  ASSUME NInv, \A w \in Courier : courier'[w].batch = courier[w].batch,
         \A n \in Note : note'[n].status = note[n].status /\ note'[n].token = note[n].token
  PROVE  UNCHANGED NoteWork!wvars
<1>1. ASSUME NEW n \in Note PROVE CourierOf(n)' = CourierOf(n)
  <2>1. CouriersOf(n)' = CouriersOf(n)
    BY DEF CouriersOf
  <2> QED
    BY <2>1, NoteOwnerStays
<1>2. \A n \in Note : NoteState(n)' = NoteState(n)
  BY DEF NoteState
<1> QED
  BY <1>1, <1>2 DEF NoteWork!wvars

\* A committed fan-out adds the messages that were not there.
LEMMA TellRefines ==
  ASSUME NInv, NEW e \in Notice, TellCommit(e)
  PROVE  \E S \in SUBSET Note : NoteWork!Add(S)
<1> DEFINE S == {n \in Note : note[n].status = "absent" /\ note'[n].status = "pending"}
           new == [NoNote EXCEPT !.status = "pending"]
<1>1. \A n \in Note : QueueNote(n) = IF note[n].status = "absent" THEN new ELSE note[n]
  BY DEF QueueNote
<1>2. new.status = "pending"
  BY NewNote
<1> HIDE DEF new
<1>3. \A n \in Note : n \notin S => note'[n] = note[n]
  BY <1>1, <1>2 DEF TellCommit
<1>4. ASSUME NEW n \in Note PROVE CourierOf(n)' = CourierOf(n)
  <2>1. CASE n \in S
    BY <2>1, NoteOwnerGone, CourierFacts
  <2>2. CASE n \notin S
    <3>1. CouriersOf(n)' = CouriersOf(n)
      BY <1>3, <2>2 DEF CouriersOf, TellCommit
    <3> QED
      BY <1>3, <2>2, <3>1, NoteOwnerStays
  <2> QED
    BY <2>1, <2>2
<1>5. \A n \in S : NoteState(n) = "absent"
  BY DEF NoteState
<1>6. \A n \in Note : NoteState(n)' = IF n \in S THEN "open" ELSE NoteState(n)
  BY <1>3 DEF NoteState
<1> HIDE DEF S
<1>7. S \subseteq Note
  BY DEF S
<1>8. NoteWork!Add(S)
  BY <1>4, <1>5, <1>6, <1>7 DEF NoteWork!Add
<1> QED
  BY <1>7, <1>8

\* Expired attempts are taken back, and some messages are given up.
LEMMA NoteRecoverRefines ==
  ASSUME NInv, NEW w \in Courier, RecoverNotes(w)
  PROVE  \E S \in SUBSET Note : \E D \in SUBSET S : NoteWork!Recover(S, D)
<1>1. PICK S \in InDueOrder(note, {n \in Note : LeaseOver(n, courier[w].age)}, CourierLimit) :
        note' = [n \in Note |-> IF n \in S THEN AfterAbandonment(note[n]) ELSE note[n]]
  BY DEF RecoverNotes
<1>2. S \subseteq Note /\ \A n \in S : note[n].status = "processing"
  BY DEF InDueOrder, LeaseOver
<1>3. ASSUME NEW n \in S PROVE note'[n].status \in {"failed", "pending"}
  <2>1. n \in Note /\ note[n] \in NoteRow /\ note'[n] = AfterAbandonment(note[n])
    BY <1>1, <1>2 DEF NInv, NTypeOK
  <2> QED
    BY <2>1, AbandonedNote
<1>4. \A n \in Note \ S : note'[n] = note[n]
  BY <1>1
<1>5. \A v \in Courier : courier'[v].batch = courier[v].batch
  BY CourierParts DEF RecoverNotes, CourierState
<1> DEFINE D == {n \in S : note'[n].status = "failed"}
<1>6. \A n \in S : CourierOf(n) # "nobody"
  BY <1>2, CourierFacts
<1>7. ASSUME NEW n \in Note PROVE CourierOf(n)' = IF n \in S THEN "nobody" ELSE CourierOf(n)
  <2>1. CASE n \in S
    BY <2>1, <1>3, NoteOwnerGone
  <2>2. CASE n \notin S
    <3>1. CouriersOf(n)' = CouriersOf(n)
      BY <1>4, <1>5, <2>2 DEF CouriersOf
    <3> QED
      BY <1>4, <2>2, <3>1, NoteOwnerStays
  <2> QED
    BY <2>1, <2>2
<1>8. \A n \in Note : NoteState(n)' = IF n \in D THEN "dead" ELSE NoteState(n)
  BY <1>2, <1>3, <1>4 DEF NoteState
<1>9. NoteWork!Recover(S, D)
  BY <1>2, <1>6, <1>7, <1>8 DEF NoteWork!Recover
<1> QED
  BY <1>2, <1>9

\* A claim takes messages nobody owns, and takes nothing else from anyone.
LEMMA NoteClaimRefines ==
  ASSUME NInv, NEW w \in Courier, ClaimNotes(w)
  PROVE  \E S \in SUBSET Note : NoteWork!Take(w, S)
<1>1. PICK S \in InDueOrder(note, DueNotes(w), CourierLimit) \ {{}},
           t \in Token \ NoteTokensInUse :
        /\ note' = [n \in Note |->
             IF n \in S THEN ClaimNote(note[n], courier[w].age, t) ELSE note[n]]
        /\ courier' = [courier EXCEPT ![w].step = "send", ![w].batch =
             {[item |-> n, token |-> t, attempts |-> note[n].attempts + 1, due |-> note[n].wait] :
                n \in S}]
  BY DEF ClaimNotes
<1>2. S \subseteq Note /\ \A n \in S : note[n].status = "pending"
  BY DEF InDueOrder, DueNotes
<1>3. courier[w].age \in Nat /\ \A n \in Note : note[n] \in NoteRow
  BY CourierParts DEF NInv, NTypeOK
<1>4. ASSUME NEW n \in Note, n \in S
      PROVE  note'[n].status = "processing" /\ note'[n].token = t
  BY <1>1, <1>3, <1>4, ClaimedRow
<1>5. \A n \in Note \ S : note'[n] = note[n]
  BY <1>1
<1>6. courier[w].batch = {} /\ courier \in [Courier -> CourierState]
  BY CourierParts DEF ClaimNotes, EmptyBefore
<1>7. /\ \A v \in Courier : v # w => courier'[v] = courier[v]
      /\ \A h \in courier'[w].batch : h.item \in S /\ h.token = t
      /\ \A n \in S : \E h \in courier'[w].batch : h.item = n /\ h.token = t
  <2> DEFINE rec(n) == [item |-> n, token |-> t, attempts |-> note[n].attempts + 1,
                        due |-> note[n].wait]
  <2>1. /\ courier'[w].batch = {rec(n) : n \in S}
        /\ \A v \in Courier : v # w => courier'[v] = courier[v]
    BY <1>1, <1>6 DEF CourierState
  <2>2. \A n \in S : rec(n).item = n /\ rec(n).token = t
    OBVIOUS
  <2> HIDE DEF rec
  <2> QED
    BY <2>1, <2>2
<1>8. \A v \in Courier : \A h \in courier[v].batch : h.token # t
  BY DEF NoteTokensInUse
<1>9. ASSUME NEW n \in Note PROVE CourierOf(n)' = IF n \in S THEN w ELSE CourierOf(n)
  <2>1. CASE n \in S
    <3>1. note'[n].status = "processing" /\ note'[n].token = t
      BY <2>1, <1>4
    <3>2. CouriersOf(n)' = {w}
      BY <2>1, <3>1, <1>7, <1>8 DEF CouriersOf
    <3>3. CourierOf(n)' = CHOOSE v \in {w} : TRUE
      BY <3>1, <3>2 DEF CourierOf, OwnerOf
    <3> QED
      BY <2>1, <3>3
  <2>2. CASE n \notin S
    <3>1. CouriersOf(n)' = CouriersOf(n)
      BY <2>2, <1>5, <1>6, <1>7 DEF CouriersOf
    <3> QED
      BY <1>5, <2>2, <3>1, NoteOwnerStays
  <2> QED
    BY <2>1, <2>2
<1>10. \A n \in Note : NoteState(n)' = NoteState(n)
  BY <1>2, <1>4, <1>5 DEF NoteState
<1>11. \A n \in S : NoteState(n) = "open" /\ CourierOf(n) = "nobody"
  BY <1>2, CourierFacts DEF NoteState
<1>12. NoteWork!Take(w, S)
  BY <1>2, <1>9, <1>10, <1>11 DEF NoteWork!Take
<1> QED
  BY <1>2, <1>12

\* A dispatcher settles the message of its record if it still owns it, and
\* changes nobody's work otherwise.
LEMMA OutcomeRefines ==
  ASSUME NInv, NEW w \in Courier, RecordOutcome(w)
  PROVE  (\E n \in Note : NoteWork!Conclude(w, n)) \/ UNCHANGED NoteWork!wvars
<1>1. PICK h \in courier[w].batch :
        /\ \E delay \in Delays(courier[w].outcome, h.attempts) :
             note' = [note EXCEPT ![h.item] =
               IF AcceptsNote(@, h)
               THEN AfterOutcome(@, h, courier[w].age, courier[w].outcome, delay) ELSE @]
        /\ NextInRound(w, h)
  BY DEF RecordOutcome
<1>2. PICK delay \in Delays(courier[w].outcome, h.attempts) :
        note' = [note EXCEPT ![h.item] =
          IF AcceptsNote(@, h)
          THEN AfterOutcome(@, h, courier[w].age, courier[w].outcome, delay) ELSE @]
  BY <1>1
<1> DEFINE e == h.item  s == AfterOutcome(note[e], h, courier[w].age, courier[w].outcome, delay)
<1>3. courier[w].age \in Nat /\ courier[w].outcome \in Outcome
  BY CourierParts DEF CourierState
<1>4. /\ e \in Note /\ h \in ClaimedNote /\ h.attempts \in 1..MaxAttempts
      /\ note \in [Note -> NoteRow]
  BY CourierParts, NoteParts DEF NInv, NTypeOK, RecordsCharged
<1>5. s.status \in {"pending", "accepted", "delivered", "failed"}
  BY <1>3, <1>4, OutcomeRow
<1>6. /\ note'[e] = IF AcceptsNote(note[e], h) THEN s ELSE note[e]
      /\ \A n \in Note : n # e => note'[n] = note[n]
  BY <1>2, <1>4
<1> HIDE DEF s
<1>7. /\ courier'[w].batch = courier[w].batch \ {h}
      /\ \A v \in Courier : v # w => courier'[v] = courier[v]
  BY <1>1, NextRecord
<1>8. ASSUME NEW n \in Note, n # e
      PROVE  CourierOf(n)' = CourierOf(n) /\ NoteState(n)' = NoteState(n)
  <2>1. note'[n] = note[n]
    BY <1>6, <1>8
  <2>2. CouriersOf(n)' = CouriersOf(n)
    BY <1>7, <1>8, <2>1 DEF CouriersOf
  <2> QED
    BY <2>1, <2>2, NoteOwnerStays DEF NoteState
<1>9. CASE AcceptsNote(note[e], h)
  <2>1. note[e].token = h.token /\ note'[e] = s
    BY <1>6, <1>9 DEF AcceptsNote
  <2>2. CourierOf(e) = w
    <3>1. w \in CouriersOf(e)
      BY <1>1, <2>1 DEF CouriersOf
    <3> QED
      BY <1>4, <3>1, CourierFacts
  <2>3. CourierOf(e)' = "nobody"
    BY <1>4, <1>5, <2>1, NoteOwnerGone
  <2>4. NoteState(e)' \in {"open", "done", "dead"}
    BY <1>5, <2>1 DEF NoteState
  <2> HIDE DEF e
  <2>5. NoteWork!Conclude(w, e)
    BY <1>4, <1>8, <2>2, <2>3, <2>4 DEF NoteWork!Conclude
  <2> QED
    BY <1>4, <2>5
<1>10. CASE ~AcceptsNote(note[e], h)
  <2>1. note'[e] = note[e]
    BY <1>6, <1>10
  <2>2. note[e].status = "processing" => CouriersOf(e)' = CouriersOf(e)
    BY <1>7, <1>10, <2>1 DEF CouriersOf, AcceptsNote
  <2>3. CourierOf(e)' = CourierOf(e) /\ NoteState(e)' = NoteState(e)
    BY <1>4, <2>1, <2>2, NoteOwnerStays DEF NoteState
  <2>4. \A n \in Note : CourierOf(n)' = CourierOf(n) /\ NoteState(n)' = NoteState(n)
    BY <1>8, <2>3
  <2> QED
    BY <2>4 DEF NoteWork!wvars
<1> QED
  BY <1>9, <1>10

\* A dispatcher that rests or dies leaves what it owns to be recovered.
LEMMA NoteDieRefines ==
  ASSUME NInv, NEW w \in Courier, NoNoteDue(w) \/ CourierDies(w)
  PROVE  NoteWork!Die(w)
<1>1. /\ courier' = [courier EXCEPT ![w] = AtRest] /\ UNCHANGED note
      /\ courier \in [Courier -> CourierState]
  BY CourierParts DEF NoNoteDue, CourierDies
<1>2. courier'[w].batch = {} /\ \A v \in Courier : v # w => courier'[v] = courier[v]
  BY <1>1 DEF AtRest
<1>3. ASSUME NEW n \in Note PROVE CourierOf(n)' = IF CourierOf(n) = w THEN "lost" ELSE CourierOf(n)
  <2>1. CouriersOf(n)' = CouriersOf(n) \ {w}
    BY <1>1, <1>2 DEF CouriersOf
  <2>2. CASE w \in CouriersOf(n)
    <3>1. note[n].status = "processing" /\ CourierOf(n) = w /\ CouriersOf(n)' = {}
      BY <2>1, <2>2, CourierFacts
    <3>2. CourierOf(n)' = "lost"
      BY <1>1, <3>1 DEF CourierOf, OwnerOf
    <3> QED
      BY <3>1, <3>2
  <2>3. CASE w \notin CouriersOf(n)
    <3>1. CourierOf(n)' = CourierOf(n)
      BY <1>1, <2>1, <2>3, NoteOwnerStays
    <3>2. CourierOf(n) = w => CourierOf(n) = "lost"
      <4>1. CASE note[n].status = "processing" /\ CouriersOf(n) = {}
        BY <4>1, CourierFacts
      <4>2. CASE CouriersOf(n) # {}
        BY <4>2, <2>3, CourierFacts
      <4>3. CASE note[n].status # "processing"
        BY <4>3, CourierFacts, CourierAssumption
      <4> QED
        BY <4>1, <4>2, <4>3
    <3> QED
      BY <3>1, <3>2
  <2> QED
    BY <2>2, <2>3
<1>4. \A n \in Note : NoteState(n)' = NoteState(n)
  BY <1>1 DEF NoteState
<1> QED
  BY <1>3, <1>4 DEF NoteWork!Die

\* Every step of notifications is a step of exclusive work or none at all.
LEMMA NNextRefines ==
  NInv /\ [NNext]_nvars => [NoteWork!WNext]_NoteWork!wvars
<1> SUFFICES ASSUME NInv, [NNext]_nvars
             PROVE  NoteWork!WNext \/ UNCHANGED NoteWork!wvars
  OBVIOUS
<1>1. ASSUME UNCHANGED note, \A v \in Courier : courier'[v].batch = courier[v].batch
      PROVE  UNCHANGED NoteWork!wvars
  BY <1>1, NoNoteWork
<1>2. ASSUME NEW r \in Recipient,
             RegisterRecipient(r) \/ \E state \in {"active", "inactive"} : SetRecipientActive(r, state)
      PROVE  UNCHANGED NoteWork!wvars
  BY <1>1, <1>2 DEF RegisterRecipient, SetRecipientActive
<1>3. ASSUME NEW e \in Notice, TellRead(e) \/ TellRollback(e) PROVE UNCHANGED NoteWork!wvars
  BY <1>1, <1>3 DEF TellRead, TellRollback
<1>4. ASSUME NEW e \in Notice, TellCommit(e) PROVE NoteWork!WNext
  BY <1>4, TellRefines DEF NoteWork!WNext
<1>5. ASSUME NEW w \in Courier,
             StartRound(w) \/ NoAdapter(w) \/ \E o \in Outcome : SendNote(w, o)
      PROVE  UNCHANGED NoteWork!wvars
  <2>1. courier \in [Courier -> CourierState]
    BY <1>5, CourierParts
  <2>2. UNCHANGED note
    BY <1>5 DEF StartRound, NoAdapter, SendNote
  <2>3. \A v \in Courier : courier'[v].batch = courier[v].batch
    <3>1. CASE StartRound(w)
      BY <2>1, <3>1 DEF StartRound, CourierState
    <3>2. CASE NoAdapter(w)
      BY <2>1, <3>2 DEF NoAdapter, CourierState
    <3>3. CASE \E o \in Outcome : SendNote(w, o)
      BY <2>1, <3>3 DEF SendNote, CourierState
    <3> QED
      BY <1>5, <3>1, <3>2, <3>3
  <2> QED
    BY <1>1, <2>2, <2>3
<1>6. ASSUME NEW w \in Courier, RecoverNotes(w) PROVE NoteWork!WNext
  BY <1>6, NoteRecoverRefines DEF NoteWork!WNext
<1>7. ASSUME NEW w \in Courier, ClaimNotes(w) PROVE NoteWork!WNext
  BY <1>7, NoteClaimRefines DEF NoteWork!WNext
<1>8. ASSUME NEW w \in Courier, NoNoteDue(w) \/ CourierDies(w) PROVE NoteWork!WNext
  BY <1>8, NoteDieRefines DEF NoteWork!WNext
<1>9. ASSUME NEW w \in Courier, RecordOutcome(w)
      PROVE  NoteWork!WNext \/ UNCHANGED NoteWork!wvars
  BY <1>9, OutcomeRefines DEF NoteWork!WNext
<1>10. ASSUME NTick PROVE UNCHANGED NoteWork!wvars
  <2>1. \A n \in Note : note'[n].status = note[n].status /\ note'[n].token = note[n].token
    BY <1>10, OlderNote DEF NTick, NInv, NTypeOK
  <2>2. \A w \in Courier : courier'[w].batch = courier[w].batch
    BY <1>10, CourierParts DEF NTick, CourierState
  <2> QED
    BY <2>1, <2>2, NoNoteWork
<1>11. ASSUME UNCHANGED nvars PROVE UNCHANGED NoteWork!wvars
  BY <1>1, <1>11 DEF nvars
<1> QED
  BY <1>2, <1>3, <1>4, <1>5, <1>6, <1>7, <1>8, <1>9, <1>10, <1>11 DEF NNext

\* Notifications are exclusive work: a dispatcher that outlived its lease
\* cannot report over the attempt that replaced it, and an accepted message is
\* never sent as new.
THEOREM NotificationExclusion == NSpec => NotificationIsExclusive
<1>1. NInit => NoteWork!WInit
  <2> SUFFICES ASSUME NInit PROVE NoteWork!WInit
    OBVIOUS
  <2>1. ASSUME NEW n \in Note PROVE NoteState(n) = "absent" /\ CourierOf(n) = "nobody"
    BY DEF NInit, NoNote, NoteState, CourierOf, OwnerOf
  <2> QED
    BY <2>1 DEF NoteWork!WInit
<1> QED
  BY <1>1, SpecNInv, NNextRefines, PTL DEF NSpec, NotificationIsExclusive, NoteWork!WSpec

-----------------------------------------------------------------------------
(* The three queues together. *)

QInv == IInv /\ DInv /\ RevivalInBound /\ NInv

\* A queue that is not driven stays as it is.
LEMMA QueueRests ==
  /\ IInv /\ UNCHANGED vars => IInv'
  /\ DInv /\ RevivalInBound /\ UNCHANGED dvars => DInv' /\ RevivalInBound'
  /\ NInv /\ UNCHANGED nvars => NInv'
BY NextIInv, NextDInv, NextRevival, NextNInv

LEMMA NextQInv ==
  ASSUME QInv, [QNext]_qvars
  PROVE  QInv'
<1>1. CASE InOutbox(Next)
  BY <1>1, NextIInv, QueueRests DEF QInv, InOutbox
<1>2. CASE InDeliveries(DNext)
  BY <1>2, NextDInv, NextRevival, QueueRests DEF QInv, InDeliveries
<1>3. CASE InNotifications(NNext)
  BY <1>3, NextNInv, QueueRests DEF QInv, InNotifications
<1>4. CASE UNCHANGED qvars
  <2>1. UNCHANGED vars /\ UNCHANGED dvars /\ UNCHANGED nvars
    BY <1>4 DEF qvars
  <2> QED BY <2>1, QueueRests DEF QInv
<1> QED BY <1>1, <1>2, <1>3, <1>4 DEF QNext

\* QTypeOK: the rows, the workers and the counters of the outbox, of external
\* delivery and of notifications keep their types, whichever of them runs.
THEOREM QTyping == QSpec => []QTypeOK
<1>1. QInit => QInv
  <2>1. DInit => RevivalInBound
    BY DEF DInit, RevivalInBound
  <2> QED BY <2>1, InitIInv, InitDInv, InitNInv DEF QInit, QInv
<1>2. QInv /\ [QNext]_qvars => QInv'
  BY NextQInv
<1>3. QInv => QTypeOK
  BY DEF QInv, IInv, Shape, RowsOK, RowOK, TypeOK, DInv, NInv, QTypeOK
<1> QED
  BY <1>1, <1>2, <1>3, PTL DEF QSpec
==============================================================================
