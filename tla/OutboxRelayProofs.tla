-------------------------- MODULE OutboxRelayProofs --------------------------
(***************************************************************************)
(* The safety of the outbox for any number of events, relays, tokens,      *)
(* budgets and lease lengths.  Everything follows from one inductive       *)
(* invariant, IInv: a claim is live and carries its token, a token belongs *)
(* to one relay's batch, and the copies in a batch whose token is still on *)
(* the row agree with the row.                                             *)
(***************************************************************************)
EXTENDS OutboxRelay, LeaseRowProofs

-----------------------------------------------------------------------------
(* The inductive invariant. *)

Shape ==
  /\ row \in [Event -> Row("published")]
  /\ pc \in [Relay -> {"idle", "reclaim", "claim", "publish", "ack"}]
  /\ age \in [Relay -> 0..Horizon]
  /\ batch \in [Relay -> SUBSET HeldRecord]
  /\ current \in [Relay -> Event \union {NoEvent}]
  /\ fannedOut \subseteq Event
  /\ revived \in [Event -> 0..MaxRevivals]

\* A row that has been revived n times: its claim is live and carries a token,
\* and its budgets say why it is alive or dead.
RowOK(r, n) ==
  /\ r.claimed <=> r.token # NoToken
  /\ r.claimed => r.status = "pending"
  /\ r.reclaims <= MaxReclaims + 1
  /\ r.attempts <= MaxAttempts + n
  /\ r.status \in {"absent", "pending"} =>
       r.reclaims <= MaxReclaims /\ r.attempts < MaxAttempts + n
  /\ r.status = "dead" => r.attempts >= MaxAttempts \/ r.reclaims > MaxReclaims

RowsOK == \A i \in Event : RowOK(row[i], revived[i])

TokensApart ==
  \A v, w \in Relay : \A g \in batch[v], h \in batch[w] : g.token = h.token => v = w

OneRecordPerItem ==
  \A w \in Relay : \A g, h \in batch[w] : g.item = h.item => g = h

IInv ==
  /\ Shape
  /\ RowsOK
  /\ TokensApart
  /\ OneRecordPerItem
  /\ HeldCopyIsCurrent
  /\ FanOutWithPublication

\* The empty outbox satisfies the invariant.
LEMMA InitIInv == Init => IInv
<1> SUFFICES ASSUME Init PROVE IInv
  OBVIOUS
<1> USE DEF Init
<1>1. Shape
  <2>1. Absent \in Row("published")
    BY BlankRow
  <2>2. 0 \in 0..Horizon /\ 0 \in 0..MaxRevivals
    BY TimingAssumption, RelayAssumption
  <2> QED
    BY <2>1, <2>2 DEF Shape
<1>2. RowsOK
  BY BudgetAssumption DEF RowsOK, RowOK, Absent
<1>3. TokensApart /\ OneRecordPerItem /\ HeldCopyIsCurrent
  BY DEF TokensApart, OneRecordPerItem, HeldCopyIsCurrent
<1>4. FanOutWithPublication
  BY DEF FanOutWithPublication, Absent
<1> QED
  BY <1>1, <1>2, <1>3, <1>4 DEF IInv

\* What a step that claims nothing must check: no batch grows, and every row
\* keeps its token and its failures or loses its token.
LEMMA NothingClaimed ==
  ASSUME IInv, Shape',
         \A w \in Relay : batch'[w] \subseteq batch[w],
         \A i \in Event :
           \/ row'[i].token = NoToken
           \/ row'[i].token = row[i].token /\ row'[i].attempts = row[i].attempts
  PROVE  TokensApart' /\ OneRecordPerItem' /\ HeldCopyIsCurrent'
<1>1. TokensApart' /\ OneRecordPerItem'
  BY DEF IInv, TokensApart, OneRecordPerItem
<1>2. ASSUME NEW w \in Relay, NEW h \in batch'[w], row'[h.item].token = h.token
      PROVE  row'[h.item].attempts = h.attempts
  <2>1. h \in batch[w] /\ h.item \in Event /\ h.token \in Token
    BY <1>2 DEF IInv, Shape, HeldRecord
  <2>2. row'[h.item].token # NoToken
    BY <1>2, <2>1, NoTokenAssumption
  <2> QED
    BY <1>2, <2>1, <2>2 DEF IInv, HeldCopyIsCurrent
<1> QED
  BY <1>1, <1>2 DEF HeldCopyIsCurrent

\* An age is a natural number.
LEMMA AgeIsNat == ASSUME Shape, NEW w \in Relay PROVE age[w] \in Nat
BY TimingAssumption DEF Shape

-----------------------------------------------------------------------------
(* Every step preserves the invariant. *)

\* A command's commit adds a fresh, unclaimed row and leaves the relays alone.
LEMMA AppendStep ==
  ASSUME IInv, NEW e \in Event, Append(e)
  PROVE  IInv'
<1> USE DEF Append, relayVars
<1>1. NewRow \in Row("published")
  BY BlankRow
<1>2. Shape'
  BY <1>1 DEF IInv, Shape
<1>3. row' = [row EXCEPT ![e] = NewRow] /\ row \in [Event -> Row("published")]
  BY DEF IInv, Shape
<1>4. RowsOK'
  <2> SUFFICES ASSUME NEW i \in Event PROVE RowOK(row'[i], revived'[i])
    BY DEF RowsOK
  <2>1. CASE i = e
    BY <2>1, <1>3, BudgetAssumption, RelayAssumption
    DEF RowOK, NewRow, Absent, IInv, Shape
  <2>2. CASE i # e
    BY <2>2, <1>3 DEF IInv, RowsOK
  <2> QED
    BY <2>1, <2>2
<1>5. TokensApart' /\ OneRecordPerItem' /\ HeldCopyIsCurrent'
  <2>1. \A i \in Event : \/ row'[i].token = NoToken
                         \/ row'[i].token = row[i].token /\ row'[i].attempts = row[i].attempts
    BY <1>3 DEF NewRow, Absent
  <2> QED
    BY <1>2, <2>1, NothingClaimed
<1>6. FanOutWithPublication'
  BY <1>3 DEF IInv, FanOutWithPublication, NewRow, Absent
<1> QED
  BY <1>2, <1>4, <1>5, <1>6 DEF IInv

\* Polling reads the clock and nothing else.
LEMMA PollStep ==
  ASSUME IInv, NEW w \in Relay, Poll(w)
  PROVE  IInv'
<1> USE DEF Poll
<1>1. Shape'
  BY TimingAssumption DEF IInv, Shape
<1> QED
  BY <1>1 DEF IInv, RowsOK, TokensApart, OneRecordPerItem, HeldCopyIsCurrent,
              FanOutWithPublication

\* Recovery frees rows, charges each one abandonment, and kills those over budget.
LEMMA ReclaimStep ==
  ASSUME IInv, NEW w \in Relay, ReclaimExpired(w)
  PROVE  IInv'
<1>1. PICK S \in InDueOrder(row, {i \in Event : Abandoned(row[i], age[w])}, BatchLimit) :
        row' = [i \in Event |-> IF i \in S THEN Reclaim(row[i], age[w]) ELSE row[i]]
  BY DEF ReclaimExpired
<1>2. S \subseteq Event /\ \A i \in S : row[i].status = "pending" /\ row[i].claimed
  BY DEF InDueOrder, Abandoned
<1>3. age[w] \in Nat
  BY AgeIsNat DEF IInv
<1>4. \A i \in Event : row[i] \in Row("published")
  BY DEF IInv, Shape
<1>5. ASSUME NEW i \in Event, i \in S
      PROVE  /\ row'[i] \in Row("published")
             /\ IsFree(row'[i])
             /\ row'[i].attempts = row[i].attempts
             /\ row'[i].reclaims = row[i].reclaims + 1
             /\ row'[i].status = IF row[i].reclaims + 1 > MaxReclaims
                                 THEN "dead" ELSE row[i].status
  BY <1>1, <1>3, <1>4, <1>5, ReclaimRow
<1>6. \A i \in Event : i \notin S => row'[i] = row[i]
  BY <1>1
<1>7. Shape'
  <2>1. row' \in [Event -> Row("published")]
    BY <1>1, <1>3, <1>4, ReclaimRow
  <2> QED
    BY <2>1 DEF ReclaimExpired, IInv, Shape
<1>8. RowsOK'
  <2> SUFFICES ASSUME NEW i \in Event PROVE RowOK(row'[i], revived[i])
    BY DEF RowsOK, ReclaimExpired
  <2>1. RowOK(row[i], revived[i])
    BY DEF IInv, RowsOK
  <2>2. CASE i \in S
    <3> DEFINE r == row[i]  s == row'[i]  n == revived[i]
    <3>1. IsFree(s) /\ r.status = "pending"
      BY <2>2, <1>2, <1>5
    <3>2. /\ s.attempts = r.attempts
          /\ s.reclaims = r.reclaims + 1
          /\ s.status = IF r.reclaims + 1 > MaxReclaims THEN "dead" ELSE r.status
      BY <2>2, <1>5
    <3>3. r.attempts \in Nat /\ r.reclaims \in Nat /\ n \in Nat
      BY <1>4 DEF Row, IInv, Shape
    <3>4. r.reclaims <= MaxReclaims /\ r.attempts < MaxAttempts + n
      BY <2>1, <3>1 DEF RowOK
    <3> HIDE DEF r, s, n
    <3>5. (s.claimed <=> s.token # NoToken) /\ (s.claimed => s.status = "pending")
      BY <3>1 DEF IsFree
    <3>6. RowOK(s, n)
      BY <3>1, <3>2, <3>3, <3>4, <3>5, BudgetAssumption DEF RowOK
    <3> QED
      BY <3>6 DEF s, n
  <2>3. CASE i \notin S
    BY <2>1, <2>3, <1>6
  <2> QED
    BY <2>2, <2>3
<1>9. TokensApart' /\ OneRecordPerItem' /\ HeldCopyIsCurrent'
  <2>1. \A v \in Relay : batch'[v] \subseteq batch[v]
    BY DEF ReclaimExpired
  <2>2. \A i \in Event : \/ row'[i].token = NoToken
                         \/ row'[i].token = row[i].token /\ row'[i].attempts = row[i].attempts
    BY <1>5, <1>6 DEF IsFree
  <2> QED
    BY <1>7, <2>1, <2>2, NothingClaimed
<1>10. FanOutWithPublication'
  <2>1. \A i \in Event : row'[i].status = "published" <=> row[i].status = "published"
    BY <1>2, <1>5, <1>6
  <2> QED
    BY <2>1 DEF IInv, FanOutWithPublication, ReclaimExpired
<1> QED
  BY <1>7, <1>8, <1>9, <1>10 DEF IInv

\* A claim stamps a token no row and no batch carries on rows nobody holds.
LEMMA ClaimStep ==
  ASSUME IInv, NEW w \in Relay, ClaimDue(w)
  PROVE  IInv'
<1>1. PICK S \in InDueOrder(row, ClaimableEvents(w), BatchLimit) \ {{}},
           t \in Token \ TokensInUse :
        /\ row' = [i \in Event |-> IF i \in S THEN Claim(row[i], age[w], t) ELSE row[i]]
        /\ batch' = [batch EXCEPT ![w] =
             {[item |-> i, token |-> t, attempts |-> row[i].attempts, due |-> row[i].wait] :
                i \in S}]
  BY DEF ClaimDue
<1>2. S \subseteq Event /\ \A i \in S : row[i].status = "pending" /\ row[i].claimed = FALSE
  <2>1. \A i \in Event : row[i].claimed \in BOOLEAN
    BY DEF IInv, Shape, Row
  <2> QED
    BY <2>1 DEF InDueOrder, ClaimableEvents, Claimable
<1>3. age[w] \in Nat
  BY AgeIsNat DEF IInv
<1>4. \A i \in Event : row[i] \in Row("published")
  BY DEF IInv, Shape
<1>5. ASSUME NEW i \in Event, i \in S
      PROVE  /\ row'[i] \in Row("published")
             /\ row'[i].claimed = TRUE /\ row'[i].token = t
             /\ SameHistory(row[i], row'[i])
  BY <1>1, <1>3, <1>4, <1>5, ClaimRow
<1>6. \A i \in Event : i \notin S => row'[i] = row[i]
  BY <1>1
<1>7. batch \in [Relay -> SUBSET HeldRecord]
  BY DEF IInv, Shape
<1>8. /\ \A v \in Relay : v # w => batch'[v] = batch[v]
      /\ \A h \in batch'[w] : /\ h.item \in S /\ h.token = t
                              /\ h.attempts = row[h.item].attempts
                              /\ h.due = row[h.item].wait
                              /\ h = [item |-> h.item, token |-> t, attempts |-> h.attempts,
                                      due |-> h.due]
  BY <1>1, <1>7
<1>9. t \in Token /\ (\A i \in Event : row[i].token # t)
      /\ (\A v \in Relay : \A h \in batch[v] : h.token # t)
  BY DEF TokensInUse
<1>10. Shape'
  <2>1. row' \in [Event -> Row("published")]
    BY <1>1, <1>4, <1>5, <1>6
  <2>2. batch'[w] \subseteq HeldRecord
    <3> SUFFICES ASSUME NEW i \in S
                 PROVE  [item |-> i, token |-> t, attempts |-> row[i].attempts,
                         due |-> row[i].wait] \in HeldRecord
      BY <1>1, <1>7
    <3> QED
      BY <1>2, <1>4, <1>9 DEF HeldRecord, Row
  <2>3. batch' \in [Relay -> SUBSET HeldRecord]
    BY <1>1, <1>7, <2>2
  <2> QED
    BY <2>1, <2>3 DEF ClaimDue, IInv, Shape
<1>11. RowsOK'
  <2> SUFFICES ASSUME NEW i \in Event PROVE RowOK(row'[i], revived[i])
    BY DEF RowsOK, ClaimDue
  <2>1. RowOK(row[i], revived[i])
    BY DEF IInv, RowsOK
  <2>2. CASE i \in S
    <3> DEFINE r == row[i]  s == row'[i]  n == revived[i]
    <3>1. r.status = "pending" /\ s.claimed = TRUE /\ s.token # NoToken /\ SameHistory(r, s)
      BY <2>2, <1>2, <1>5, <1>9, NoTokenAssumption
    <3>2. RowOK(r, n)
      BY <2>1
    <3> HIDE DEF r, s, n
    <3>3. RowOK(s, n)
      BY <3>1, <3>2 DEF RowOK, SameHistory
    <3> QED
      BY <3>3 DEF s, n
  <2>3. CASE i \notin S
    BY <2>1, <2>3, <1>6
  <2> QED
    BY <2>2, <2>3
<1>12. TokensApart'
  <2> SUFFICES ASSUME NEW u \in Relay, NEW v \in Relay, NEW g \in batch'[u],
                      NEW h \in batch'[v], g.token = h.token
               PROVE  u = v
    BY DEF TokensApart
  <2> QED
    BY <1>8, <1>9 DEF IInv, TokensApart
<1>13. OneRecordPerItem'
  <2> SUFFICES ASSUME NEW v \in Relay, NEW g \in batch'[v], NEW h \in batch'[v],
                      g.item = h.item
               PROVE  g = h
    BY DEF OneRecordPerItem
  <2>1. CASE v = w
    BY <2>1, <1>8
  <2>2. CASE v # w
    BY <2>2, <1>8 DEF IInv, OneRecordPerItem
  <2> QED
    BY <2>1, <2>2
<1>14. HeldCopyIsCurrent'
  <2> SUFFICES ASSUME NEW v \in Relay, NEW h \in batch'[v], row'[h.item].token = h.token
               PROVE  row'[h.item].attempts = h.attempts
    BY DEF HeldCopyIsCurrent
  <2>1. CASE v = w
    <3>1. h.item \in S /\ h.item \in Event /\ h.attempts = row[h.item].attempts
      BY <2>1, <1>2, <1>8
    <3> QED
      BY <3>1, <1>5 DEF SameHistory
  <2>2. CASE v # w
    <3>1. h \in batch[v] /\ h.item \in Event /\ h.token # t
      BY <2>2, <1>7, <1>8, <1>9 DEF HeldRecord
    <3>2. row'[h.item] = row[h.item]
      BY <3>1, <1>5, <1>6
    <3> QED
      BY <3>1, <3>2 DEF IInv, HeldCopyIsCurrent
  <2> QED
    BY <2>1, <2>2
<1>15. FanOutWithPublication'
  <2>1. \A i \in Event : row'[i].status = "published" <=> row[i].status = "published"
    BY <1>2, <1>5, <1>6 DEF SameHistory
  <2> QED
    BY <2>1 DEF IInv, FanOutWithPublication, ClaimDue
<1> QED
  BY <1>10, <1>11, <1>12, <1>13, <1>14, <1>15 DEF IInv

\* A relay that stops, for want of work or because it dies, drops its copies.
LEMMA StopStep ==
  ASSUME IInv, NEW w \in Relay, Stop(w), UNCHANGED <<row, fannedOut, revived>>
  PROVE  IInv'
<1> USE DEF Stop
<1>1. Shape'
  BY TimingAssumption DEF IInv, Shape
<1>2. TokensApart' /\ OneRecordPerItem' /\ HeldCopyIsCurrent'
  <2>1. \A v \in Relay : batch'[v] \subseteq batch[v]
    BY DEF IInv, Shape
  <2> QED
    BY <1>1, <2>1, NothingClaimed
<1> QED
  BY <1>1, <1>2 DEF IInv, RowsOK, FanOutWithPublication

\* Handing an event to the bus moves the relay on and writes nothing.
LEMMA PublishStep ==
  ASSUME IInv, NEW w \in Relay, Publish(w)
  PROVE  IInv'
<1>1. Shape'
  <2>1. \A h \in NextInBatch(w) : h.item \in Event
    BY DEF NextInBatch, IInv, Shape, HeldRecord
  <2> QED
    BY <2>1 DEF Publish, IInv, Shape
<1> QED
  BY <1>1 DEF Publish, IInv, RowsOK, TokensApart, OneRecordPerItem, HeldCopyIsCurrent,
              FanOutWithPublication

\* A record in hand is one of the relay's, about an event, under a real token.
LEMMA InHandRecord ==
  ASSUME IInv, NEW w \in Relay, NEW h \in InHand(w)
  PROVE  h \in batch[w] /\ h.item \in Event /\ h.token \in Token /\ h.attempts \in Nat
BY DEF InHand, NextInBatch, IInv, Shape, HeldRecord

\* An accepted acknowledgement concerns a live row the record still describes.
LEMMA AcceptedRow ==
  ASSUME IInv, NEW w \in Relay, NEW h \in InHand(w), Accepts(row[h.item], h.token)
  PROVE  /\ row[h.item].status = "pending"
         /\ row[h.item].attempts = h.attempts
         /\ row[h.item].attempts < MaxAttempts + revived[h.item]
         /\ row[h.item].reclaims <= MaxReclaims
<1>1. h \in batch[w] /\ h.item \in Event /\ h.token \in Token
  BY InHandRecord
<1>2. row[h.item].token = h.token /\ row[h.item].token # NoToken
  BY <1>1, NoTokenAssumption DEF Accepts
<1>3. RowOK(row[h.item], revived[h.item])
  BY <1>1 DEF IInv, RowsOK
<1>4. row[h.item].status = "pending"
  BY <1>2, <1>3 DEF RowOK
<1>5. row[h.item].attempts = h.attempts
  BY <1>1, <1>2 DEF IInv, HeldCopyIsCurrent
<1> QED
  BY <1>3, <1>4, <1>5 DEF RowOK

\* A step that finishes one record of one relay and frees that row, or leaves
\* every row as it was, keeps the shape and the batches in order.
LEMMA FinishStep ==
  ASSUME IInv, NEW w \in Relay, NEW h \in InHand(w), Advance(w, h), UNCHANGED revived,
         row' \in [Event -> Row("published")], fannedOut' \subseteq Event,
         \A i \in Event : i # h.item => row'[i] = row[i],
         RowOK(row'[h.item], revived[h.item]),
         IsFree(row'[h.item]) \/ row'[h.item] = row[h.item]
  PROVE  Shape' /\ RowsOK' /\ TokensApart' /\ OneRecordPerItem' /\ HeldCopyIsCurrent'
<1>1. h.item \in Event
  BY InHandRecord
<1>2. Shape'
  <2>1. 0 \in 0..Horizon
    BY TimingAssumption
  <2> QED
    BY <2>1 DEF Advance, IInv, Shape
<1>3. RowsOK'
  BY <1>1 DEF IInv, RowsOK
<1>4. TokensApart' /\ OneRecordPerItem' /\ HeldCopyIsCurrent'
  <2>1. \A v \in Relay : batch'[v] \subseteq batch[v]
    BY DEF Advance, IInv, Shape
  <2>2. \A i \in Event : \/ row'[i].token = NoToken
                         \/ row'[i].token = row[i].token /\ row'[i].attempts = row[i].attempts
    BY <1>1 DEF IsFree
  <2> QED
    BY <1>2, <2>1, <2>2, NothingClaimed
<1> QED
  BY <1>2, <1>3, <1>4

\* Publishing settles the row and its fan-out together, or does neither.
LEMMA AckStep ==
  ASSUME IInv, NEW w \in Relay, AckPublished(w)
  PROVE  IInv'
<1>1. PICK h \in InHand(w) :
        /\ IF Accepts(row[h.item], h.token)
           THEN /\ row' = [row EXCEPT ![h.item] = MarkDone(@, "published")]
                /\ fannedOut' = fannedOut \union {h.item}
           ELSE UNCHANGED <<row, fannedOut>>
        /\ Advance(w, h)
  BY DEF AckPublished
<1>2. h.item \in Event /\ row[h.item] \in Row("published") /\ UNCHANGED revived
  BY InHandRecord DEF IInv, Shape, AckPublished
<1>3. CASE Accepts(row[h.item], h.token)
  <2> DEFINE r == MarkDone(row[h.item], "published")
  <2>1. /\ r \in Row("published") /\ IsFree(r) /\ r.status = "published"
        /\ r.attempts = row[h.item].attempts /\ r.reclaims = row[h.item].reclaims
    BY <1>2, DoneRow
  <2>2. row' = [row EXCEPT ![h.item] = r]
    BY <1>1, <1>3
  <2> HIDE DEF r
  <2>3. RowOK(row[h.item], revived[h.item])
    BY <1>2 DEF IInv, RowsOK
  <2>4. RowOK(r, revived[h.item])
    BY <2>1, <2>3 DEF RowOK, IsFree
  <2>5. fannedOut' \subseteq Event
    BY <1>1, <1>2, <1>3 DEF IInv, Shape
  <2>6. /\ row' \in [Event -> Row("published")] /\ row'[h.item] = r
        /\ \A i \in Event : i # h.item => row'[i] = row[i]
    BY <1>2, <2>1, <2>2 DEF IInv, Shape
  <2>7. Shape' /\ RowsOK' /\ TokensApart' /\ OneRecordPerItem' /\ HeldCopyIsCurrent'
    BY <1>1, <1>2, <2>1, <2>4, <2>5, <2>6, FinishStep
  <2>8. FanOutWithPublication'
    BY <1>1, <1>2, <1>3, <2>1, <2>6 DEF IInv, FanOutWithPublication
  <2> QED
    BY <2>7, <2>8 DEF IInv
<1>4. CASE ~Accepts(row[h.item], h.token)
  <2> DEFINE r == row[h.item]
  <2>1. row' = row /\ row' \in [Event -> Row("published")]
    BY <1>1, <1>4 DEF IInv, Shape
  <2>2. RowOK(r, revived[h.item])
    BY <1>2 DEF IInv, RowsOK
  <2>3. fannedOut' \subseteq Event
    BY <1>1, <1>4 DEF IInv, Shape
  <2>4. Shape' /\ RowsOK' /\ TokensApart' /\ OneRecordPerItem' /\ HeldCopyIsCurrent'
    BY <1>1, <1>2, <2>1, <2>2, <2>3, FinishStep
  <2>5. FanOutWithPublication'
    BY <1>1, <1>4 DEF IInv, FanOutWithPublication
  <2> QED
    BY <2>4, <2>5 DEF IInv
<1> QED
  BY <1>3, <1>4

\* A failure charges one attempt to a row the relay still holds, and only that.
LEMMA FailStep ==
  ASSUME IInv, NEW w \in Relay, Fail(w)
  PROVE  IInv'
<1>1. PICK h \in InHand(w) :
        /\ row' = [row EXCEPT ![h.item] = AfterFailure(h, w)]
        /\ Advance(w, h)
  BY DEF Fail
<1>2. /\ h.item \in Event /\ h.attempts \in Nat /\ row[h.item] \in Row("published")
      /\ UNCHANGED <<fannedOut, revived>> /\ fannedOut \subseteq Event
  BY InHandRecord DEF IInv, Shape, Fail
<1>3. age[w] \in Nat
  BY AgeIsNat DEF IInv
<1> DEFINE q == row[h.item]  n == revived[h.item]  r == AfterFailure(h, w)
<1>4. RowOK(q, n) /\ n \in Nat
  BY <1>2, RelayAssumption DEF IInv, RowsOK, Shape
<1>5. /\ r \in Row("published") /\ RowOK(r, n) /\ (IsFree(r) \/ r = q)
      /\ r.status = "published" <=> q.status = "published"
  <2>1. CASE ~Accepts(q, h.token)
    BY <2>1, <1>2, <1>4 DEF AfterFailure
  <2>2. CASE Accepts(q, h.token)
    <3>1. /\ q.status = "pending" /\ q.attempts = h.attempts
          /\ q.attempts < MaxAttempts + n /\ q.reclaims <= MaxReclaims
      BY <2>2, AcceptedRow
    <3>2. CASE h.attempts + 1 >= MaxAttempts
      <4>1. r = MarkDead(q)
        BY <2>2, <3>2 DEF AfterFailure
      <4>3. /\ r \in Row("published") /\ IsFree(r) /\ r.status = "dead"
            /\ r.attempts = q.attempts + 1 /\ r.reclaims = q.reclaims
        BY <1>2, <4>1, DeadRow
      <4> HIDE DEF r
      <4>4. q.attempts \in Nat /\ q.reclaims \in Nat
        BY <1>2 DEF Row
      <4> HIDE DEF q, n
      <4>5. (r.claimed <=> r.token # NoToken) /\ (r.claimed => r.status = "pending")
        BY <4>3 DEF IsFree
      <4>6. RowOK(r, n)
        BY <3>1, <3>2, <1>4, <4>3, <4>4, <4>5, BudgetAssumption DEF RowOK
      <4> QED
        BY <3>1, <4>3, <4>6
    <3>3. CASE ~(h.attempts + 1 >= MaxAttempts)
      <4>1. r = MarkFailed(q, age[w], h.attempts)
        BY <2>2, <3>3 DEF AfterFailure
      <4>2. h.attempts \in 0..MaxAttempts
        BY <1>2, <3>3, BudgetAssumption
      <4>3. /\ r \in Row("published") /\ IsFree(r) /\ r.status = q.status
            /\ r.attempts = q.attempts + 1 /\ r.reclaims = q.reclaims
        <5> DEFINE s == MarkFailed(q, age[w], h.attempts)
        <5>1. /\ s \in Row("published") /\ IsFree(s) /\ s.status = q.status
              /\ s.attempts = q.attempts + 1 /\ s.reclaims = q.reclaims
          BY <1>2, <1>3, <4>2, FailedRow
        <5> QED
          BY <4>1, <5>1
      <4> HIDE DEF r
      <4>4. q.attempts \in Nat /\ q.reclaims \in Nat
        BY <1>2 DEF Row
      <4> HIDE DEF q, n
      <4>5. (r.claimed <=> r.token # NoToken) /\ (r.claimed => r.status = "pending")
        BY <4>3 DEF IsFree
      <4>6. RowOK(r, n)
        BY <3>1, <3>3, <1>2, <1>4, <4>3, <4>4, <4>5, BudgetAssumption DEF RowOK
      <4> QED
        BY <3>1, <4>3, <4>6
    <3> QED
      BY <3>2, <3>3
  <2> QED
    BY <2>1, <2>2
<1> HIDE DEF r
<1>6. /\ row' \in [Event -> Row("published")] /\ row'[h.item] = r
      /\ \A i \in Event : i # h.item => row'[i] = row[i]
  BY <1>1, <1>2, <1>5 DEF IInv, Shape, r
<1>7. Shape' /\ RowsOK' /\ TokensApart' /\ OneRecordPerItem' /\ HeldCopyIsCurrent'
  BY <1>1, <1>2, <1>5, <1>6, FinishStep
<1>8. FanOutWithPublication'
  BY <1>2, <1>5, <1>6 DEF IInv, FanOutWithPublication
<1> QED
  BY <1>7, <1>8 DEF IInv

\* A revival returns a dead row to the relays with one more failure to spend.
LEMMA ReviveStep ==
  ASSUME IInv, NEW e \in Event, ReviveDead(e)
  PROVE  IInv'
<1> DEFINE q == row[e]  r == Revive(row[e])  n == revived[e]
<1>1. /\ q \in Row("published") /\ q.status = "dead" /\ q.attempts \in Nat
      /\ n \in Nat /\ n < MaxRevivals /\ RowOK(q, n)
  BY RelayAssumption DEF ReviveDead, IInv, Shape, RowsOK, Row
<1>2. /\ r \in Row("published") /\ IsFree(r) /\ r.status = "pending"
      /\ r.attempts = q.attempts /\ r.reclaims = 0
  BY <1>1, RevivedRow
<1>3. /\ row' = [row EXCEPT ![e] = r] /\ revived' = [revived EXCEPT ![e] = n + 1]
      /\ UNCHANGED <<pc, age, batch, current, fannedOut>>
  BY DEF ReviveDead, relayVars
<1> HIDE DEF q, r, n
<1>4. RowOK(r, n + 1)
  <2>1. (r.claimed <=> r.token # NoToken) /\ (r.claimed => r.status = "pending")
    BY <1>2 DEF IsFree
  <2> QED
    BY <1>1, <1>2, <2>1, BudgetAssumption DEF RowOK
<1>5. /\ \A i \in Event : row'[i] = IF i = e THEN r ELSE row[i]
      /\ \A i \in Event : revived'[i] = IF i = e THEN n + 1 ELSE revived[i]
  BY <1>3 DEF IInv, Shape
<1>6. Shape'
  <2>1. row' \in [Event -> Row("published")] /\ revived' \in [Event -> 0..MaxRevivals]
    BY <1>1, <1>2, <1>3, RelayAssumption DEF IInv, Shape
  <2> QED
    BY <1>3, <2>1 DEF IInv, Shape
<1>7. RowsOK'
  BY <1>4, <1>5 DEF IInv, RowsOK
<1>8. TokensApart' /\ OneRecordPerItem' /\ HeldCopyIsCurrent'
  BY <1>2, <1>3, <1>5, <1>6, NothingClaimed DEF IsFree
<1>9. FanOutWithPublication'
  BY <1>1, <1>2, <1>3, <1>5 DEF IInv, FanOutWithPublication, q
<1> QED
  BY <1>6, <1>7, <1>8, <1>9 DEF IInv

\* Time passing reschedules rows and ages clock readings, and nothing else.
LEMMA TickStep ==
  ASSUME IInv, Tick
  PROVE  IInv'
<1>1. ASSUME NEW i \in Event
      PROVE  row'[i] \in Row("published") /\ SameClaim(row[i], row'[i]) /\ SameHistory(row[i], row'[i])
  BY OlderRow DEF Tick, IInv, Shape, SameClaim, SameHistory
<1>2. Shape'
  <2>1. row' \in [Event -> Row("published")]
    BY <1>1 DEF Tick
  <2>2. age' \in [Relay -> 0..Horizon]
    BY TimingAssumption DEF Tick, IInv, Shape
  <2> QED
    BY <2>1, <2>2 DEF Tick, IInv, Shape
<1>3. RowsOK'
  <2> SUFFICES ASSUME NEW i \in Event PROVE RowOK(row'[i], revived[i])
    BY DEF RowsOK, Tick
  <2>1. RowOK(row[i], revived[i])
    BY DEF IInv, RowsOK
  <2> QED
    BY <1>1, <2>1 DEF RowOK, SameClaim, SameHistory
<1>4. TokensApart' /\ OneRecordPerItem' /\ HeldCopyIsCurrent'
  BY <1>1, <1>2, NothingClaimed DEF Tick, SameClaim, SameHistory
<1>5. FanOutWithPublication'
  BY <1>1 DEF Tick, IInv, FanOutWithPublication, SameHistory
<1> QED
  BY <1>2, <1>3, <1>4, <1>5 DEF IInv

\* No step of a relay, a command, an operator or the clock breaks it.
LEMMA NextIInv == IInv /\ [Next]_vars => IInv'
<1> SUFFICES ASSUME IInv, [Next]_vars PROVE IInv'
  OBVIOUS
<1>1. ASSUME NEW i \in Event, Append(i) PROVE IInv'
  BY <1>1, AppendStep
<1>2. ASSUME NEW i \in Event, ReviveDead(i) PROVE IInv'
  BY <1>2, ReviveStep
<1>3. ASSUME NEW w \in Relay, Poll(w) PROVE IInv'
  BY <1>3, PollStep
<1>4. ASSUME NEW w \in Relay, ReclaimExpired(w) PROVE IInv'
  BY <1>4, ReclaimStep
<1>5. ASSUME NEW w \in Relay, ClaimDue(w) PROVE IInv'
  BY <1>5, ClaimStep
<1>6. ASSUME NEW w \in Relay, NothingDue(w) \/ Crash(w) PROVE IInv'
  BY <1>6, StopStep DEF NothingDue, Crash
<1>7. ASSUME NEW w \in Relay, Publish(w) PROVE IInv'
  BY <1>7, PublishStep
<1>8. ASSUME NEW w \in Relay, AckPublished(w) PROVE IInv'
  BY <1>8, AckStep
<1>9. ASSUME NEW w \in Relay, Fail(w) PROVE IInv'
  BY <1>9, FailStep
<1>10. CASE Tick
  BY <1>10, TickStep
<1>11. CASE UNCHANGED vars
  BY <1>11 DEF vars, IInv, Shape, RowsOK, TokensApart, OneRecordPerItem, HeldCopyIsCurrent,
               FanOutWithPublication
<1> QED
  BY <1>1, <1>2, <1>3, <1>4, <1>5, <1>6, <1>7, <1>8, <1>9, <1>10, <1>11 DEF Next

-----------------------------------------------------------------------------
(* What follows for every behaviour. *)

\* The inductive invariant holds in every reachable state.
LEMMA SpecIInv == Spec => []IInv
BY InitIInv, NextIInv, PTL DEF Spec

\* Rows, budgets and relays stay within their types: whatever is killed,
\* stalled or revived, a row is never charged past its two budgets.
THEOREM Typing == Spec => []TypeOK
<1>1. IInv => TypeOK
  BY DEF IInv, Shape, RowsOK, RowOK, TypeOK
<1> QED
  BY <1>1, SpecIInv, PTL

\* At most one relay has an acknowledgement the outbox would accept (B-22, B-26).
THEOREM ExclusiveHolder == Spec => []OneHolder
<1>1. IInv => OneHolder
  BY DEF IInv, TokensApart, OneHolder
<1> QED
  BY <1>1, SpecIInv, PTL

\* The attempts count a relay decides retry or dead-letter from is the row's own.
THEOREM CurrentCopy == Spec => []HeldCopyIsCurrent
BY SpecIInv, PTL DEF IInv

\* A dead row has spent a budget and a live one has not (B-25, B-27).
THEOREM DeadLetters == Spec => []DeadHasSpentABudget
<1>1. IInv => DeadHasSpentABudget
  <2> SUFFICES ASSUME IInv, NEW i \in Event
               PROVE  /\ row[i].status = "dead" =>
                           row[i].attempts >= MaxAttempts \/ row[i].reclaims > MaxReclaims
                      /\ row[i].status = "pending" =>
                           /\ row[i].reclaims <= MaxReclaims
                           /\ row[i].attempts >= MaxAttempts => revived[i] > 0
    BY DEF DeadHasSpentABudget
  <2>1. /\ RowOK(row[i], revived[i]) /\ row[i].attempts \in Nat /\ revived[i] \in Nat
    BY RelayAssumption DEF IInv, RowsOK, Shape, Row
  <2> QED
    BY <2>1, BudgetAssumption DEF RowOK
<1> QED
  BY <1>1, SpecIInv, PTL

\* Deliveries and notifications exist for exactly the published events: the
\* fenced transaction is never half done.
THEOREM AtomicFanOut == Spec => []FanOutWithPublication
BY SpecIInv, PTL DEF IInv
-----------------------------------------------------------------------------
(* The outbox implements exclusive work. *)

\* Only a relay that is working through a batch holds one.
BatchOnlyInWork == \A w \in Relay : pc[w] \notin {"publish", "ack"} => batch[w] = {}

\* A relay fills its batch as it starts to publish, and has emptied it by the
\* time it polls again.
LEMMA NextBatch == IInv /\ BatchOnlyInWork /\ [Next]_vars => BatchOnlyInWork'
<1> SUFFICES ASSUME IInv, BatchOnlyInWork, [Next]_vars PROVE BatchOnlyInWork'
  OBVIOUS
<1> USE DEF IInv, Shape, BatchOnlyInWork
<1>1. ASSUME NEW i \in Event, Append(i) \/ ReviveDead(i) PROVE BatchOnlyInWork'
  BY <1>1 DEF Append, ReviveDead, relayVars
<1>2. ASSUME NEW w \in Relay, Poll(w) \/ ReclaimExpired(w) PROVE BatchOnlyInWork'
  BY <1>2 DEF Poll, ReclaimExpired
<1>3. ASSUME NEW w \in Relay, ClaimDue(w) PROVE BatchOnlyInWork'
  BY <1>3 DEF ClaimDue
<1>4. ASSUME NEW w \in Relay, Publish(w) PROVE BatchOnlyInWork'
  BY <1>4 DEF Publish
<1>5. ASSUME NEW w \in Relay, NothingDue(w) \/ Crash(w) PROVE BatchOnlyInWork'
  BY <1>5 DEF NothingDue, Crash, Stop
<1>6. ASSUME NEW w \in Relay, NEW h, Advance(w, h) PROVE BatchOnlyInWork'
  BY <1>6 DEF Advance
<1>7. ASSUME NEW w \in Relay, AckPublished(w) \/ Fail(w) PROVE BatchOnlyInWork'
  BY <1>6, <1>7 DEF AckPublished, Fail
<1>8. CASE Tick
  BY <1>8 DEF Tick
<1>9. CASE UNCHANGED vars
  BY <1>9 DEF vars
<1> QED
  BY <1>1, <1>2, <1>3, <1>4, <1>5, <1>7, <1>8, <1>9 DEF Next

\* The owner of a claimed row is the one relay whose record carries its token;
\* an unclaimed row has none, and no relay is called nobody.
LEMMA OwnerFacts ==
  ASSUME IInv, NEW i \in Event
  PROVE  /\ row[i].claimed \in BOOLEAN
         /\ row[i].claimed = FALSE => Owner(i) = "nobody"
         /\ row[i].claimed = TRUE => Owner(i) # "nobody"
         /\ \A w \in HoldersOf(i) : row[i].claimed = TRUE /\ Owner(i) = w
<1>1. row[i].claimed \in BOOLEAN
  BY DEF IInv, Shape, Row
<1>2. row[i].claimed = FALSE => Owner(i) = "nobody"
  BY OwnerOfRow DEF Owner
<1>3. ASSUME NEW w \in HoldersOf(i)
      PROVE  row[i].claimed = TRUE /\ Owner(i) = w
  <2>1. w \in Relay /\ \E h \in batch[w] : h.item = i /\ h.token = row[i].token
    BY DEF HoldersOf
  <2>2. row[i].token # NoToken
    BY <2>1, NoTokenAssumption DEF IInv, Shape, HeldRecord
  <2>3. row[i].claimed = TRUE
    BY <1>1, <2>2 DEF IInv, RowsOK, RowOK
  <2>4. HoldersOf(i) = {w}
    BY <2>1 DEF HoldersOf, IInv, TokensApart
  <2> QED
    BY <2>3, <2>4, OwnerOfRow DEF Owner
<1>4. row[i].claimed = TRUE => Owner(i) # "nobody"
  <2>1. CASE HoldersOf(i) = {}
    BY <2>1, OwnerOfRow DEF Owner
  <2>2. CASE HoldersOf(i) # {}
    BY <2>2, <1>3, RelayNameAssumption DEF HoldersOf
  <2> QED
    BY <2>1, <2>2
<1> QED
  BY <1>1, <1>2, <1>3, <1>4

\* A row whose claim and whose holders stay the same keeps its owner.
LEMMA OwnerStays ==
  ASSUME IInv, NEW i \in Event, row'[i].claimed = row[i].claimed,
         row[i].claimed = TRUE => HoldersOf(i)' = HoldersOf(i)
  PROVE  Owner(i)' = Owner(i)
<1>1. row[i].claimed \in BOOLEAN
  BY OwnerFacts
<1>2. CASE row[i].claimed = TRUE
  BY <1>2 DEF Owner
<1>3. CASE row[i].claimed = FALSE
  BY <1>3, OwnerOfRow DEF Owner
<1> QED
  BY <1>1, <1>2, <1>3

\* A row that is free has no owner next.
LEMMA OwnerGone ==
  ASSUME NEW i \in Event, IsFree(row'[i]) PROVE Owner(i)' = "nobody"
BY OwnerOfRow DEF Owner, IsFree

\* A step that writes no claim and no status and moves no record is no step of
\* the abstract queue.
LEMMA NoWork ==
  ASSUME IInv, UNCHANGED batch,
         \A i \in Event : SameClaim(row[i], row'[i]) /\ row'[i].status = row[i].status
  PROVE  UNCHANGED Exclusive!wvars
<1>1. ASSUME NEW i \in Event PROVE Owner(i)' = Owner(i)
  <2>1. HoldersOf(i)' = HoldersOf(i)
    BY DEF HoldersOf, SameClaim
  <2> QED
    BY <2>1, OwnerStays DEF SameClaim
<1>2. \A i \in Event : WorkState(i)' = WorkState(i)
  BY DEF WorkState
<1> QED
  BY <1>1, <1>2 DEF Exclusive!wvars

\* An appended event is new work.
LEMMA AppendRefines ==
  ASSUME IInv, NEW e \in Event, Append(e)
  PROVE  Exclusive!Add({e})
<1>1. row' = [row EXCEPT ![e] = NewRow] /\ row \in [Event -> Row("published")]
  BY DEF Append, IInv, Shape
<1>2. /\ IsFree(row'[e]) /\ row'[e].status = "pending" /\ row[e].status = "absent"
      /\ \A i \in Event : i # e => row'[i] = row[i]
  BY <1>1 DEF NewRow, Absent, IsFree, Append
<1>3. ASSUME NEW i \in Event PROVE Owner(i)' = Owner(i)
  <2>1. CASE i = e
    <3>1. row[e].claimed = FALSE
      BY <1>2, OwnerFacts DEF IInv, RowsOK, RowOK
    <3> QED
      BY <2>1, <3>1, <1>2, OwnerGone, OwnerFacts
  <2>2. CASE i # e
    <3>1. HoldersOf(i)' = HoldersOf(i)
      BY <1>2, <2>2 DEF HoldersOf, Append, relayVars
    <3> QED
      BY <1>2, <2>2, <3>1, OwnerStays
  <2> QED
    BY <2>1, <2>2
<1>4. WorkState(e) = "absent"
  BY <1>2 DEF WorkState
<1>5. \A i \in Event : WorkState(i)' = IF i \in {e} THEN "open" ELSE WorkState(i)
  BY <1>2 DEF WorkState
<1> QED
  BY <1>3, <1>4, <1>5 DEF Exclusive!Add
\* Expired claims are taken from relays that are gone or slow alike.
LEMMA ReclaimRefines ==
  ASSUME IInv, NEW w \in Relay, ReclaimExpired(w)
  PROVE  \E S \in SUBSET Event : \E D \in SUBSET S : Exclusive!Recover(S, D)
<1>1. PICK S \in InDueOrder(row, {i \in Event : Abandoned(row[i], age[w])}, BatchLimit) :
        row' = [i \in Event |-> IF i \in S THEN Reclaim(row[i], age[w]) ELSE row[i]]
  BY DEF ReclaimExpired
<1>2. S \subseteq Event /\ \A i \in S : row[i].status = "pending" /\ row[i].claimed
  BY DEF InDueOrder, Abandoned
<1>3. age[w] \in Nat /\ \A i \in Event : row[i] \in Row("published")
  BY AgeIsNat DEF IInv, Shape
<1>4. ASSUME NEW i \in S
      PROVE  IsFree(row'[i]) /\ row'[i].status \in {"dead", "pending"}
  <2>1. i \in Event /\ row'[i] = Reclaim(row[i], age[w])
    BY <1>1, <1>2
  <2> QED
    BY <1>2, <1>3, <2>1, ReclaimRow
<1>5. \A i \in Event \ S : row'[i] = row[i]
  BY <1>1
<1> DEFINE D == {i \in S : row'[i].status = "dead"}
<1>6. \A i \in S : Owner(i) # "nobody"
  BY <1>2, OwnerFacts
<1>7. ASSUME NEW i \in Event PROVE Owner(i)' = IF i \in S THEN "nobody" ELSE Owner(i)
  <2>1. CASE i \in S
    BY <2>1, <1>4, OwnerGone
  <2>2. CASE i \notin S
    <3>1. HoldersOf(i)' = HoldersOf(i)
      BY <1>5, <2>2 DEF HoldersOf, ReclaimExpired
    <3> QED
      BY <1>5, <2>2, <3>1, OwnerStays
  <2> QED
    BY <2>1, <2>2
<1>8. \A i \in Event : WorkState(i)' = IF i \in D THEN "dead" ELSE WorkState(i)
  BY <1>2, <1>4, <1>5 DEF WorkState
<1>9. Exclusive!Recover(S, D)
  BY <1>2, <1>6, <1>7, <1>8 DEF Exclusive!Recover
<1> QED
  BY <1>2, <1>9

\* A claim takes rows nobody owns, and takes nothing else from anyone.
LEMMA ClaimRefines ==
  ASSUME IInv, BatchOnlyInWork, NEW w \in Relay, ClaimDue(w)
  PROVE  \E S \in SUBSET Event : Exclusive!Take(w, S)
<1>1. PICK S \in InDueOrder(row, ClaimableEvents(w), BatchLimit) \ {{}},
           t \in Token \ TokensInUse :
        /\ row' = [i \in Event |-> IF i \in S THEN Claim(row[i], age[w], t) ELSE row[i]]
        /\ batch' = [batch EXCEPT ![w] =
             {[item |-> i, token |-> t, attempts |-> row[i].attempts, due |-> row[i].wait] :
                i \in S}]
  BY DEF ClaimDue
<1>2. S \subseteq Event /\ \A i \in S : row[i].status = "pending" /\ row[i].claimed = FALSE
  BY OwnerFacts DEF InDueOrder, ClaimableEvents, Claimable
<1>3. age[w] \in Nat /\ \A i \in Event : row[i] \in Row("published")
  BY AgeIsNat DEF IInv, Shape
<1>4. ASSUME NEW i \in Event, i \in S
      PROVE  row'[i].claimed = TRUE /\ row'[i].token = t /\ SameHistory(row[i], row'[i])
  BY <1>1, <1>3, <1>4, ClaimRow
<1>5. \A i \in Event \ S : row'[i] = row[i]
  BY <1>1
<1>6. batch \in [Relay -> SUBSET HeldRecord] /\ batch[w] = {}
  BY DEF IInv, Shape, BatchOnlyInWork, ClaimDue
<1>7. /\ \A v \in Relay : v # w => batch'[v] = batch[v]
      /\ \A h \in batch'[w] : h.item \in S /\ h.token = t
      /\ \A i \in S : \E h \in batch'[w] : h.item = i /\ h.token = t
  <2> DEFINE rec(i) == [item |-> i, token |-> t, attempts |-> row[i].attempts,
                        due |-> row[i].wait]
  <2>1. batch'[w] = {rec(i) : i \in S} /\ \A v \in Relay : v # w => batch'[v] = batch[v]
    BY <1>1, <1>6
  <2>2. \A i \in S : rec(i).item = i /\ rec(i).token = t
    OBVIOUS
  <2> HIDE DEF rec
  <2> QED
    BY <2>1, <2>2
<1>8. \A v \in Relay : \A h \in batch[v] : h.token # t
  BY DEF TokensInUse
<1>9. ASSUME NEW i \in Event PROVE Owner(i)' = IF i \in S THEN w ELSE Owner(i)
  <2>1. CASE i \in S
    <3>1. row'[i].token = t
      BY <2>1, <1>4
    <3>2. HoldersOf(i)' = {w}
      BY <2>1, <3>1, <1>7, <1>8 DEF HoldersOf
    <3> QED
      BY <2>1, <3>2, <1>4, OwnerOfRow DEF Owner
  <2>2. CASE i \notin S
    <3>1. HoldersOf(i)' = HoldersOf(i)
      BY <2>2, <1>5, <1>6, <1>7 DEF HoldersOf
    <3> QED
      BY <1>5, <2>2, <3>1, OwnerStays
  <2> QED
    BY <2>1, <2>2
<1>10. \A i \in Event : WorkState(i)' = WorkState(i)
  BY <1>4, <1>5 DEF WorkState, SameHistory
<1>11. \A i \in S : WorkState(i) = "open" /\ Owner(i) = "nobody"
  BY <1>2, OwnerFacts DEF WorkState
<1>12. Exclusive!Take(w, S)
  BY <1>2, <1>9, <1>10, <1>11 DEF Exclusive!Take
<1> QED
  BY <1>2, <1>12

\* A relay that finishes a record settles the row if it still owns it, and
\* changes nobody's work otherwise.
LEMMA FinishRefines ==
  ASSUME IInv, NEW w \in Relay, NEW h \in InHand(w), Advance(w, h),
         \A i \in Event : i # h.item => row'[i] = row[i],
         IF Accepts(row[h.item], h.token)
         THEN IsFree(row'[h.item]) /\ row'[h.item].status \in {"pending", "published", "dead"}
         ELSE row'[h.item] = row[h.item]
  PROVE  (\E i \in Event : Exclusive!Conclude(w, i)) \/ UNCHANGED Exclusive!wvars
<1> DEFINE e == h.item
<1>1. e \in Event /\ h \in batch[w] /\ h.token # NoToken
  BY InHandRecord, NoTokenAssumption
<1>2. /\ batch' = [batch EXCEPT ![w] = @ \ {h}] /\ batch \in [Relay -> SUBSET HeldRecord]
  BY DEF Advance, IInv, Shape
<1>3. ASSUME NEW i \in Event, i # e PROVE Owner(i)' = Owner(i) /\ WorkState(i)' = WorkState(i)
  <2>1. row'[i] = row[i]
    BY <1>3
  <2>2. HoldersOf(i)' = HoldersOf(i)
    BY <1>2, <1>3, <2>1 DEF HoldersOf
  <2> QED
    BY <2>1, <2>2, OwnerStays DEF WorkState
<1>4. CASE Accepts(row[e], h.token)
  <2>1. row[e].token = h.token
    BY <1>1, <1>4 DEF Accepts
  <2>2. Owner(e) = w
    <3>1. w \in HoldersOf(e)
      BY <1>1, <2>1 DEF HoldersOf
    <3> QED
      BY <1>1, <3>1, OwnerFacts
  <2>3. Owner(e)' = "nobody"
    BY <1>1, <1>4, OwnerGone
  <2>4. WorkState(e)' \in {"open", "done", "dead"}
    BY <1>4 DEF WorkState
  <2>5. Exclusive!Conclude(w, e)
    <3> HIDE DEF e
    <3> QED
      BY <1>1, <1>3, <2>2, <2>3, <2>4 DEF Exclusive!Conclude
  <2> QED
    BY <1>1, <2>5
<1>5. CASE ~Accepts(row[e], h.token)
  <2>1. row'[e] = row[e] /\ row[e].token # h.token
    BY <1>5 DEF Accepts
  <2>2. HoldersOf(e)' = HoldersOf(e)
    BY <1>2, <2>1 DEF HoldersOf
  <2>3. Owner(e)' = Owner(e) /\ WorkState(e)' = WorkState(e)
    BY <1>1, <2>1, <2>2, OwnerStays DEF WorkState
  <2>4. \A i \in Event : Owner(i)' = Owner(i) /\ WorkState(i)' = WorkState(i)
    BY <1>3, <2>3
  <2> QED
    BY <2>4 DEF Exclusive!wvars
<1> QED
  BY <1>4, <1>5

\* Publication and failure finish the record in hand.
LEMMA AckRefines ==
  ASSUME IInv, NEW w \in Relay, AckPublished(w) \/ Fail(w)
  PROVE  (\E i \in Event : Exclusive!Conclude(w, i)) \/ UNCHANGED Exclusive!wvars
<1>1. CASE AckPublished(w)
  <2>1. PICK h \in InHand(w) :
          /\ IF Accepts(row[h.item], h.token)
             THEN row' = [row EXCEPT ![h.item] = MarkDone(@, "published")]
             ELSE UNCHANGED row
          /\ Advance(w, h)
    BY <1>1 DEF AckPublished
  <2>2. h.item \in Event /\ row \in [Event -> Row("published")]
    BY InHandRecord DEF IInv, Shape
  <2>3. /\ IsFree(MarkDone(row[h.item], "published"))
        /\ MarkDone(row[h.item], "published").status = "published"
    BY <2>2, DoneRow
  <2>4. IF Accepts(row[h.item], h.token)
        THEN IsFree(row'[h.item]) /\ row'[h.item].status = "published"
        ELSE row'[h.item] = row[h.item]
    BY <2>1, <2>2, <2>3
  <2> QED
    BY <2>1, <2>2, <2>4, FinishRefines
<1>2. CASE Fail(w)
  <2>1. PICK h \in InHand(w) :
          row' = [row EXCEPT ![h.item] = AfterFailure(h, w)] /\ Advance(w, h)
    BY <1>2 DEF Fail
  <2>2. h.item \in Event /\ h.attempts \in Nat /\ row \in [Event -> Row("published")]
    BY InHandRecord DEF IInv, Shape
  <2>3. age[w] \in Nat
    BY AgeIsNat DEF IInv
  <2> DEFINE q == row[h.item]  r == AfterFailure(h, w)
  <2>4. ASSUME Accepts(q, h.token)
        PROVE  IsFree(r) /\ r.status \in {"pending", "dead"}
    <3>1. CASE h.attempts + 1 >= MaxAttempts
      <4>1. r = MarkDead(q)
        BY <2>4, <3>1 DEF AfterFailure
      <4> QED
        BY <2>2, <4>1, DeadRow
    <3>2. CASE ~(h.attempts + 1 >= MaxAttempts)
      <4>1. r = MarkFailed(q, age[w], h.attempts)
        BY <2>4, <3>2 DEF AfterFailure
      <4>2. h.attempts \in 0..MaxAttempts
        BY <2>2, <3>2, BudgetAssumption
      <4>3. q.status = "pending"
        BY <2>4, AcceptedRow
      <4> QED
        BY <2>2, <2>3, <4>1, <4>2, <4>3, FailedRow
    <3> QED
      BY <3>1, <3>2
  <2>5. ~Accepts(q, h.token) => r = q
    BY DEF AfterFailure
  <2> HIDE DEF r
  <2>6. row'[h.item] = r /\ \A i \in Event : i # h.item => row'[i] = row[i]
    BY <2>1, <2>2 DEF r
  <2> QED
    BY <2>1, <2>4, <2>5, <2>6, FinishRefines
<1> QED
  BY <1>1, <1>2

\* A relay that dies leaves what it owns to be recovered.
LEMMA CrashRefines ==
  ASSUME IInv, NEW w \in Relay, Stop(w), UNCHANGED row
  PROVE  Exclusive!Die(w)
<1>1. /\ batch' = [batch EXCEPT ![w] = {}] /\ batch \in [Relay -> SUBSET HeldRecord]
  BY DEF Stop, IInv, Shape
<1>2. ASSUME NEW i \in Event PROVE Owner(i)' = IF Owner(i) = w THEN "lost" ELSE Owner(i)
  <2>1. HoldersOf(i)' = HoldersOf(i) \ {w}
    BY <1>1 DEF HoldersOf
  <2>2. CASE w \in HoldersOf(i)
    <3>1. HoldersOf(i)' = {} /\ row[i].claimed = TRUE /\ Owner(i) = w
      BY <2>1, <2>2, OwnerFacts
    <3> QED
      BY <3>1, OwnerOfRow DEF Owner
  <2>3. CASE w \notin HoldersOf(i)
    <3>1. Owner(i)' = Owner(i)
      BY <2>1, <2>3, OwnerStays
    <3>2. Owner(i) = w => Owner(i) = "lost"
      <4>1. CASE row[i].claimed = TRUE /\ HoldersOf(i) = {}
        BY <4>1, OwnerOfRow DEF Owner
      <4>2. CASE HoldersOf(i) # {}
        BY <4>2, <2>3, OwnerFacts
      <4>3. CASE row[i].claimed = FALSE
        BY <4>3, OwnerFacts, RelayNameAssumption
      <4> QED
        BY <4>1, <4>2, <4>3, OwnerFacts
    <3> QED
      BY <3>1, <3>2
  <2> QED
    BY <2>2, <2>3
<1>3. \A i \in Event : WorkState(i)' = WorkState(i)
  BY DEF WorkState
<1> QED
  BY <1>2, <1>3 DEF Exclusive!Die

\* An operator reopens what was given up, and nobody owns it.
LEMMA ReviveRefines ==
  ASSUME IInv, NEW e \in Event, ReviveDead(e)
  PROVE  Exclusive!Reopen(e)
<1>1. /\ row' = [row EXCEPT ![e] = Revive(row[e])] /\ row \in [Event -> Row("published")]
      /\ row[e].status = "dead" /\ UNCHANGED batch
  BY DEF ReviveDead, relayVars, IInv, Shape
<1>2. IsFree(Revive(row[e])) /\ Revive(row[e]).status = "pending"
  BY <1>1, RevivedRow
<1>3. /\ IsFree(row'[e]) /\ row'[e].status = "pending"
      /\ \A i \in Event : i # e => row'[i] = row[i]
  BY <1>1, <1>2
<1>4. ASSUME NEW i \in Event PROVE Owner(i)' = Owner(i)
  <2>1. CASE i = e
    <3>1. row[e].claimed = FALSE
      BY <1>1, OwnerFacts DEF IInv, RowsOK, RowOK
    <3> QED
      BY <2>1, <3>1, <1>3, OwnerGone, OwnerFacts
  <2>2. CASE i # e
    <3>1. HoldersOf(i)' = HoldersOf(i)
      BY <1>1, <1>3, <2>2 DEF HoldersOf
    <3> QED
      BY <1>3, <2>2, <3>1, OwnerStays
  <2> QED
    BY <2>1, <2>2
<1>5. \A i \in Event : WorkState(i)' = IF i = e THEN "open" ELSE WorkState(i)
  BY <1>3 DEF WorkState
<1>6. WorkState(e) = "dead"
  BY <1>1 DEF WorkState
<1> QED
  BY <1>4, <1>5, <1>6 DEF Exclusive!Reopen

\* Every step of the outbox is a step of exclusive work or none at all.
LEMMA NextRefines ==
  IInv /\ BatchOnlyInWork /\ [Next]_vars => [Exclusive!WNext]_Exclusive!wvars
<1> SUFFICES ASSUME IInv, BatchOnlyInWork, [Next]_vars
             PROVE  Exclusive!WNext \/ UNCHANGED Exclusive!wvars
  OBVIOUS
<1>1. ASSUME NEW i \in Event, Append(i) PROVE Exclusive!WNext
  BY <1>1, AppendRefines DEF Exclusive!WNext
<1>2. ASSUME NEW i \in Event, ReviveDead(i) PROVE Exclusive!WNext
  BY <1>2, ReviveRefines DEF Exclusive!WNext
<1>3. ASSUME NEW w \in Relay, Poll(w) \/ Publish(w) PROVE UNCHANGED Exclusive!wvars
  BY <1>3, NoWork DEF Poll, Publish, SameClaim
<1>4. ASSUME NEW w \in Relay, ReclaimExpired(w) PROVE Exclusive!WNext
  BY <1>4, ReclaimRefines DEF Exclusive!WNext
<1>5. ASSUME NEW w \in Relay, ClaimDue(w) PROVE Exclusive!WNext
  BY <1>5, ClaimRefines DEF Exclusive!WNext
<1>6. ASSUME NEW w \in Relay, NothingDue(w) \/ Crash(w) PROVE Exclusive!WNext
  BY <1>6, CrashRefines DEF NothingDue, Crash, Exclusive!WNext
<1>7. ASSUME NEW w \in Relay, AckPublished(w) \/ Fail(w)
      PROVE  Exclusive!WNext \/ UNCHANGED Exclusive!wvars
  BY <1>7, AckRefines DEF Exclusive!WNext
<1>8. ASSUME Tick PROVE UNCHANGED Exclusive!wvars
  <2>1. \A i \in Event : SameClaim(row[i], row'[i]) /\ row'[i].status = row[i].status
    BY <1>8, OlderRow DEF Tick, IInv, Shape, SameClaim, SameHistory
  <2> QED
    BY <1>8, <2>1, NoWork DEF Tick
<1>9. ASSUME UNCHANGED vars PROVE UNCHANGED Exclusive!wvars
  BY <1>9, NoWork DEF vars, SameClaim
<1> QED
  BY <1>1, <1>2, <1>3, <1>4, <1>5, <1>6, <1>7, <1>8, <1>9 DEF Next

\* The outbox is exclusive work: whatever stalls, dies or is recovered, an
\* event has at most one relay that can settle it, only that relay's outcome
\* is recorded, and a published event is never reopened (B-22, B-24, B-26).
THEOREM Exclusion == Spec => WorkIsExclusive
<1>1. Init => BatchOnlyInWork
  BY DEF Init, BatchOnlyInWork
<1>2. Init => Exclusive!WInit
  <2> SUFFICES ASSUME Init PROVE Exclusive!WInit
    OBVIOUS
  <2>1. ASSUME NEW i \in Event PROVE WorkState(i) = "absent" /\ Owner(i) = "nobody"
    BY OwnerOfRow DEF Init, Absent, WorkState, Owner
  <2> QED
    BY <2>1 DEF Exclusive!WInit
<1> QED
  BY <1>1, <1>2, SpecIInv, NextBatch, NextRefines, PTL
  DEF Spec, WorkIsExclusive, Exclusive!WSpec
=============================================================================
