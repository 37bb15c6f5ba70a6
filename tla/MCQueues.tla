------------------------------ MODULE MCQueues ------------------------------
(***************************************************************************)
(* The three outgoing queues, checked by one run: the outbox and its       *)
(* relays, external deliveries, notifications.  They share no row and no   *)
(* worker, so each behaviour drives one of them and leaves the others at   *)
(* their initial state; together the behaviours are those of all three.    *)
(***************************************************************************)
EXTENDS OutboxRelay, EventDelivery, NotificationQueue, TLC

CONSTANTS everywhere, elsewhere  \* two recipients

VARIABLE queue   \* the queue this behaviour drives

qvars == <<queue, vars, dvars, nvars>>

InOutbox(A) == queue = "outbox" /\ A /\ UNCHANGED <<queue, dvars, nvars>>
InDeliveries(A) == queue = "deliveries" /\ A /\ UNCHANGED <<queue, vars, nvars>>
InNotifications(A) == queue = "notifications" /\ A /\ UNCHANGED <<queue, vars, dvars>>

QInit == queue \in {"outbox", "deliveries", "notifications"} /\ Init /\ DInit /\ NInit

QNext == InOutbox(Next) \/ InDeliveries(DNext) \/ InNotifications(NNext)

QSpec == QInit /\ [][QNext]_qvars

\* The fairness of each queue, of the one a behaviour drives.
Time == InOutbox(Tick) \/ InDeliveries(DTick) \/ InNotifications(NTick)

Polls(w) == InOutbox(Poll(w)) \/ InDeliveries(StartDrain(w)) \/ InNotifications(StartRound(w))

Recovers(w) ==
  InOutbox(ReclaimExpired(w)) \/ InDeliveries(RecoverDeliveries(w)) \/ InNotifications(RecoverNotes(w))

Claims(w) ==
  \/ InOutbox(ClaimDue(w) \/ NothingDue(w))
  \/ InDeliveries(ClaimDeliveries(w) \/ NoDeliveryDue(w))
  \/ InNotifications(ClaimNotes(w) \/ NoNoteDue(w))

Works(w) == InOutbox(Work(w)) \/ InDeliveries(Handle(w)) \/ InNotifications(ProcessClaimed(w))

FairQSpec ==
  /\ QSpec
  /\ WF_qvars(Time)
  /\ \A w \in Relay :
       /\ WF_qvars(Polls(w))
       /\ SF_qvars(Recovers(w))
       /\ SF_qvars(Claims(w))
       /\ WF_qvars(Works(w))

-----------------------------------------------------------------------------

DoublingFromOne == Doubling(1)

Scopes == [r \in {everywhere, elsewhere} |-> IF r = everywhere THEN Platform ELSE "beta"]
NoScope == [r \in {everywhere} |-> Platform]
Tenants == [e \in Notice |-> "alpha"]

\* The same process names serve the three queues.
Symm == Permutations(Event) \union Permutations(Relay) \union Permutations(Token)

\* The three queues' rows, workers and counters stay within their types.
QTypeOK == TypeOK /\ DTypeOK /\ NTypeOK
=============================================================================
