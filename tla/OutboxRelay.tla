----------------------------- MODULE OutboxRelay -----------------------------
(***************************************************************************)
(* The outbox and its relays.  A command's transaction appends the event   *)
(* row; relay processes poll the table, recover the claims a dead or slow  *)
(* relay abandoned, claim a batch, and for each row publish the event on   *)
(* the bus and then, in one transaction, queue the row's external          *)
(* deliveries and notifications and mark it published.  A relay may be     *)
(* killed, or may stall past its lease, between any two of these steps.    *)
(***************************************************************************)
EXTENDS LeaseRow

CONSTANTS
  Event,
  Relay,
  NoEvent,
  BatchLimit,    \* the `limit` of drainOnce
  MaxRevivals    \* model bound: how often an operator revives one row

ASSUME RelayAssumption == NoEvent \notin Event /\ BatchLimit \in Nat \ {0} /\ MaxRevivals \in Nat
ASSUME RelayNameAssumption == "nobody" \notin Relay

VARIABLES
  row,       \* the outbox table
  pc,        \* where each relay is in drainOnce
  age,       \* how old each relay's `now` is
  batch,     \* the records claimDue returned and the relay has not finished
  current,   \* the event handed to the bus and not yet acknowledged
  fannedOut, \* events whose deliveries and notifications are queued
  revived    \* how often each row was revived

vars == <<row, pc, age, batch, current, fannedOut, revived>>
relayVars == <<pc, age, batch, current>>

HeldRecord == [item : Event, token : Token, attempts : Nat, due : Int]

-----------------------------------------------------------------------------

Init ==
  /\ row = [i \in Event |-> Absent]
  /\ pc = [w \in Relay |-> "idle"]
  /\ age = [w \in Relay |-> 0]
  /\ batch = [w \in Relay |-> {}]
  /\ current = [w \in Relay |-> NoEvent]
  /\ fannedOut = {}
  /\ revived = [i \in Event |-> 0]

\* A command commits and its event row with it.
Append(i) ==
  /\ row[i].status = "absent"
  /\ row' = [row EXCEPT ![i] = NewRow]
  /\ UNCHANGED <<relayVars, fannedOut, revived>>

\* drainOnce begins: `now` is read here and nowhere else.
Poll(w) ==
  /\ pc[w] = "idle"
  /\ pc' = [pc EXCEPT ![w] = "reclaim"]
  /\ age' = [age EXCEPT ![w] = 0]
  /\ UNCHANGED <<row, batch, current, fannedOut, revived>>

ReclaimExpired(w) ==
  /\ pc[w] = "reclaim"
  /\ \E S \in InDueOrder(row, {i \in Event : Abandoned(row[i], age[w])}, BatchLimit) :
       row' = [i \in Event |-> IF i \in S THEN Reclaim(row[i], age[w]) ELSE row[i]]
  /\ pc' = [pc EXCEPT ![w] = "claim"]
  /\ UNCHANGED <<age, batch, current, fannedOut, revived>>

\* A mutant: a relay reuses the token of a claim it has lost.
TokensInRows == {row[i].token : i \in Event}

TokensInUse ==
  {row[i].token : i \in Event} \union UNION {{h.token : h \in batch[w]} : w \in Relay}

ClaimableEvents(w) == {i \in Event : Claimable(row[i], age[w])}

\* One statement claims the whole batch under one fresh token and returns the
\* claimed rows, which the relay works from until it polls again.
ClaimDue(w) ==
  /\ pc[w] = "claim"
  /\ \E S \in InDueOrder(row, ClaimableEvents(w), BatchLimit) \ {{}},
        token \in Token \ TokensInUse :
       /\ row' = [i \in Event |-> IF i \in S THEN Claim(row[i], age[w], token) ELSE row[i]]
       /\ batch' = [batch EXCEPT ![w] =
            {[item |-> i, token |-> token, attempts |-> row[i].attempts, due |-> row[i].wait] :
               i \in S}]
  /\ pc' = [pc EXCEPT ![w] = "publish"]
  /\ UNCHANGED <<age, current, fannedOut, revived>>

Stop(w) ==
  /\ pc' = [pc EXCEPT ![w] = "idle"]
  /\ age' = [age EXCEPT ![w] = 0]
  /\ batch' = [batch EXCEPT ![w] = {}]
  /\ current' = [current EXCEPT ![w] = NoEvent]

NothingDue(w) ==
  /\ pc[w] = "claim"
  /\ ClaimableEvents(w) = {}
  /\ Stop(w)
  /\ UNCHANGED <<row, fannedOut, revived>>

-----------------------------------------------------------------------------

\* The batch is worked through in the order it was claimed.
NextInBatch(w) == {h \in batch[w] : \A g \in batch[w] : h.due <= g.due}

InHand(w) ==
  IF pc[w] = "ack" THEN {h \in batch[w] : h.item = current[w]} ELSE NextInBatch(w)

Publish(w) ==
  /\ pc[w] = "publish"
  /\ \E h \in NextInBatch(w) : current' = [current EXCEPT ![w] = h.item]
  /\ pc' = [pc EXCEPT ![w] = "ack"]
  /\ UNCHANGED <<row, age, batch, fannedOut, revived>>

\* On to the next record of the batch, or back to polling after the last.
Advance(w, h) ==
  /\ batch' = [batch EXCEPT ![w] = @ \ {h}]
  /\ pc' = [pc EXCEPT ![w] = IF batch[w] = {h} THEN "idle" ELSE "publish"]
  /\ age' = [age EXCEPT ![w] = IF batch[w] = {h} THEN 0 ELSE @]
  /\ current' = [current EXCEPT ![w] = NoEvent]

\* A mutant: the fan-out is committed before the row's claim is checked.
QueuesThenAcks(w) ==
  /\ pc[w] = "ack"
  /\ \E h \in InHand(w) :
       /\ row' = IF Accepts(row[h.item], h.token)
                 THEN [row EXCEPT ![h.item] = MarkDone(@, "published")]
                 ELSE row
       /\ fannedOut' = fannedOut \union {h.item}
       /\ Advance(w, h)
  /\ UNCHANGED revived

\* The fan-out rows and markPublished are one transaction: a relay that no
\* longer holds the row rolls both back and charges nothing.
AckPublished(w) ==
  /\ pc[w] = "ack"
  /\ \E h \in InHand(w) :
       /\ IF Accepts(row[h.item], h.token)
          THEN /\ row' = [row EXCEPT ![h.item] = MarkDone(@, "published")]
               /\ fannedOut' = fannedOut \union {h.item}
          ELSE UNCHANGED <<row, fannedOut>>
       /\ Advance(w, h)
  /\ UNCHANGED revived

\* A mutant: the failure at hand is counted twice.
DeadOnTheLastRetry(h, w) ==
  LET r == row[h.item]
  IN  IF ~Accepts(r, h.token) THEN r
      ELSE IF h.attempts + 2 >= MaxAttempts THEN MarkDead(r)
      ELSE MarkFailed(r, age[w], h.attempts)

\* The record's fate after a failure is decided from the copy the claim
\* returned, and written only if the claim still stands.
AfterFailure(h, w) ==
  LET r == row[h.item]
  IN  IF ~Accepts(r, h.token) THEN r
      ELSE IF h.attempts + 1 >= MaxAttempts THEN MarkDead(r)
      ELSE MarkFailed(r, age[w], h.attempts)

\* bus.publish threw, or the fan-out transaction did.
Fail(w) ==
  /\ pc[w] \in {"publish", "ack"}
  /\ \E h \in InHand(w) :
       /\ row' = [row EXCEPT ![h.item] = AfterFailure(h, w)]
       /\ Advance(w, h)
  /\ UNCHANGED <<fannedOut, revived>>

-----------------------------------------------------------------------------

\* The process dies, or an acknowledgement throws out of drainOnce: whatever
\* it had claimed stays claimed in the table.
Crash(w) ==
  /\ pc[w] # "idle"
  /\ Stop(w)
  /\ UNCHANGED <<row, fannedOut, revived>>

ReviveDead(i) ==
  /\ row[i].status = "dead"
  /\ revived[i] < MaxRevivals
  /\ row' = [row EXCEPT ![i] = Revive(@)]
  /\ revived' = [revived EXCEPT ![i] = @ + 1]
  /\ UNCHANGED <<relayVars, fannedOut>>

Tick ==
  /\ row' = [i \in Event |-> IF row[i].status = "pending" THEN Older(row[i]) ELSE row[i]]
  /\ age' = [w \in Relay |-> IF pc[w] # "idle" /\ age[w] < Horizon THEN age[w] + 1 ELSE age[w]]
  /\ UNCHANGED <<pc, batch, current, fannedOut, revived>>

Work(w) == Publish(w) \/ AckPublished(w) \/ Fail(w)

Next ==
  \/ \E i \in Event : Append(i) \/ ReviveDead(i)
  \/ \E w \in Relay :
       \/ Poll(w)
       \/ ReclaimExpired(w)
       \/ ClaimDue(w)
       \/ NothingDue(w)
       \/ Publish(w)
       \/ AckPublished(w)
       \/ Fail(w)
       \/ Crash(w)
  \/ Tick

Spec == Init /\ [][Next]_vars

\* The relay loop keeps polling, an item in hand is eventually finished unless
\* the process dies first, and a relay is not killed at every single poll
\* before it can issue its two statements.  Nothing bounds crashes otherwise.
Fairness ==
  /\ WF_vars(Tick)
  /\ \A w \in Relay :
       /\ WF_vars(Poll(w))
       /\ SF_vars(ReclaimExpired(w))
       /\ SF_vars(ClaimDue(w) \/ NothingDue(w))
       /\ WF_vars(Work(w))

FairSpec == Spec /\ Fairness

-----------------------------------------------------------------------------

\* Rows, budgets and relays stay within their types: in particular a row
\* records at most one abandonment over its budget, and at most one observed
\* failure over MaxAttempts per revival (revival keeps `attempts`).
TypeOK ==
  /\ row \in [Event -> Row("published")]
  /\ \A i \in Event :
       /\ row[i].attempts <= MaxAttempts + revived[i]
       /\ row[i].reclaims <= MaxReclaims + 1
  /\ pc \in [Relay -> {"idle", "reclaim", "claim", "publish", "ack"}]
  /\ age \in [Relay -> 0..Horizon]
  /\ batch \in [Relay -> SUBSET HeldRecord]
  /\ current \in [Relay -> Event \union {NoEvent}]
  /\ fannedOut \subseteq Event
  /\ revived \in [Event -> 0..MaxRevivals]

\* The copy a relay decides retry or dead-letter from is the row itself for as
\* long as its acknowledgement would be accepted.
HeldCopyIsCurrent ==
  \A w \in Relay : \A h \in batch[w] :
    row[h.item].token = h.token => row[h.item].attempts = h.attempts

\* Two relays never both have an acceptable acknowledgement for one event.
OneHolder ==
  \A v, w \in Relay : \A g \in batch[v], h \in batch[w] :
    (g.item = h.item /\ row[g.item].token = g.token /\ row[h.item].token = h.token) => v = w

\* A row is dead-lettered for a spent budget only, and while it is alive
\* neither budget is overdrawn (a revival grants one more observed failure).
DeadHasSpentABudget ==
  \A i \in Event :
    /\ row[i].status = "dead" =>
         row[i].attempts >= MaxAttempts \/ row[i].reclaims > MaxReclaims
    /\ row[i].status = "pending" =>
         /\ row[i].reclaims <= MaxReclaims
         /\ row[i].attempts >= MaxAttempts => revived[i] > 0

\* Deliveries and notifications are queued for exactly the published events: a
\* relay that lost its claim leaves none behind, and no row is ever marked
\* published without its fan-out (the dual write the transaction prevents).
FanOutWithPublication == fannedOut = {i \in Event : row[i].status = "published"}

\* Who may still settle a row: the relay whose record carries the row's token.
HoldersOf(i) == {w \in Relay : \E h \in batch[w] : h.item = i /\ h.token = row[i].token}

Owner(i) == OwnerOf(row[i].claimed, HoldersOf(i))

WorkState(i) ==
  CASE row[i].status = "pending" -> "open"
    [] row[i].status = "published" -> "done"
    [] OTHER -> row[i].status

Exclusive == INSTANCE ExclusiveWork WITH
  Item <- Event, Worker <- Relay, Nobody <- "nobody", Lost <- "lost",
  state <- [i \in Event |-> WorkState(i)], owner <- [i \in Event |-> Owner(i)]

\* The outbox is exclusive work: whatever stalls, dies or is recovered, each
\* event has at most one relay that can settle it, only that relay's outcome is
\* recorded, and a published event is never reopened (B-22, B-24, B-26, B-27).
WorkIsExclusive == Exclusive!WSpec

\* A row that was appended is in the end published or dead, whatever number of
\* relays stall past their lease or die holding it: an abandoned claim is
\* always recovered, and recovery is bounded.
EveryRowSettles ==
  \A i \in Event : row[i].status = "pending" ~> Terminal(row[i], "published")
=============================================================================
