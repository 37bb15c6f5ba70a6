--------------------------- MODULE InboundDispatch ---------------------------
(***************************************************************************)
(* Events received from MARKET and MOVE: the durable `inbound_event` rows, *)
(* the dispatchers that hand them to the in-process bus, the bus with its  *)
(* consumer inbox and its retries, and an operator's replay, which hands   *)
(* rows to the same bus without a claim.                                   *)
(*                                                                         *)
(* A dispatcher claims one row at a time here.  A longer batch only makes  *)
(* the later rows wait with their lease running, which the time between    *)
(* ClaimDue and the first InboxClaim already allows.                       *)
(***************************************************************************)
EXTENDS LeaseRow, Sequences

CONSTANTS
  Event,
  Dispatcher,
  Replayer,      \* the one run the advisory replay lock admits
  Subscribers,   \* the consumers of the events' type, in subscription order
  BusAttempts,   \* LocalEventBus's own retries of one handler
  NoRecord,
  MaxReplays,    \* model bound: how many replays an operator runs
  ThrownCap      \* model bound: how many throws of one handler are counted

ASSUME InboundAssumption ==
  /\ Replayer \notin Dispatcher /\ IsFiniteSet(Dispatcher)
  /\ BusAttempts \in Nat \ {0} /\ MaxReplays \in Nat /\ ThrownCap \in Nat
  /\ DOMAIN Subscribers = 1..Len(Subscribers) /\ Len(Subscribers) \in Nat \ {0}

VARIABLES
  row,      \* the inbound_event table
  inbox,    \* <<consumer, event>> pairs some delivery has claimed
  handled,  \* how often each consumer's handler has committed for each event
  thrown,   \* how often it has thrown
  pc,       \* where each publisher is
  age,      \* how old each dispatcher's `now` is
  record,   \* the row copy each publisher works from
  sub,      \* the subscriber bus.publish has reached
  tries,    \* the bus's attempts at that subscriber's handler
  failed,   \* whether some subscriber exhausted its attempts
  replays,  \* the number of replays run
  replayed, \* events some replay has selected
  reapplied \* events whose inbox entries a replay has removed

delivery == <<pc, record, sub, tries, failed>>
vars == <<row, inbox, handled, thrown, delivery, age, replays, replayed, reapplied>>

Publisher == Dispatcher \union {Replayer}
Consumer == {Subscribers[i] : i \in DOMAIN Subscribers}

\* The bound on counted handler runs: those the counted throws explain, and one more.
HandledCap == ThrownCap + 2

Record ==
  [item : Event, token : Token \union {NoToken}, attempts : Nat,
   status : {"pending", "processed", "dead"}, mode : {"dispatch", "pending_only", "reapply"}]

ASSUME NoRecordAssumption == NoRecord \notin Record

-----------------------------------------------------------------------------

Init ==
  /\ row = [e \in Event |-> Absent]
  /\ inbox = {}
  /\ handled = [x \in Consumer \X Event |-> 0]
  /\ thrown = [x \in Consumer \X Event |-> 0]
  /\ pc = [p \in Publisher |-> "idle"]
  /\ age = [p \in Publisher |-> 0]
  /\ record = [p \in Publisher |-> NoRecord]
  /\ sub = [p \in Publisher |-> 1]
  /\ tries = [p \in Publisher |-> 0]
  /\ failed = [p \in Publisher |-> FALSE]
  /\ replays = 0
  /\ replayed = {}
  /\ reapplied = {}

\* Ingress answers 202 once the row is committed; a repeat changes nothing.
Accept(e) ==
  /\ row[e].status = "absent"
  /\ row' = [row EXCEPT ![e] = NewRow]
  /\ UNCHANGED <<inbox, handled, thrown, delivery, age, replays, replayed, reapplied>>

\* A publisher returns to its resting state: the run ended, or the process died.
Rest(p) ==
  /\ pc' = [pc EXCEPT ![p] = "idle"]
  /\ age' = [age EXCEPT ![p] = 0]
  /\ record' = [record EXCEPT ![p] = NoRecord]
  /\ sub' = [sub EXCEPT ![p] = 1]
  /\ tries' = [tries EXCEPT ![p] = 0]
  /\ failed' = [failed EXCEPT ![p] = FALSE]

-----------------------------------------------------------------------------
(* InboundDispatcher.drainOnce, up to bus.publish. *)

Poll(w) ==
  /\ pc[w] = "idle"
  /\ pc' = [pc EXCEPT ![w] = "reclaim"]
  /\ UNCHANGED <<row, inbox, handled, thrown, age, record, sub, tries, failed, replays, replayed,
                 reapplied>>

ReclaimExpired(w) ==
  /\ pc[w] = "reclaim"
  /\ \E S \in InDueOrder(row, {e \in Event : Abandoned(row[e], age[w])}, 1) :
       row' = [e \in Event |-> IF e \in S THEN Reclaim(row[e], age[w]) ELSE row[e]]
  /\ pc' = [pc EXCEPT ![w] = "claim"]
  /\ UNCHANGED <<inbox, handled, thrown, age, record, sub, tries, failed, replays, replayed,
                 reapplied>>

TokensInUse ==
  {row[e].token : e \in Event} \union
  {record[p].token : p \in {q \in Publisher : record[q] # NoRecord}}

ClaimableEvents(w) == {e \in Event : Claimable(row[e], age[w])}

ClaimDue(w) ==
  /\ pc[w] = "claim"
  /\ \E S \in InDueOrder(row, ClaimableEvents(w), 1) : \E e \in S :
     \E token \in Token \ TokensInUse :
       /\ row' = [row EXCEPT ![e] = Claim(@, age[w], token)]
       /\ record' = [record EXCEPT ![w] =
            [item |-> e, token |-> token, attempts |-> row[e].attempts,
             status |-> "pending", mode |-> "dispatch"]]
  /\ pc' = [pc EXCEPT ![w] = "deliver"]
  /\ UNCHANGED <<inbox, handled, thrown, age, sub, tries, failed, replays, replayed, reapplied>>

NothingDue(w) ==
  /\ pc[w] = "claim"
  /\ ClaimableEvents(w) = {}
  /\ Rest(w)
  /\ UNCHANGED <<row, inbox, handled, thrown, replays, replayed, reapplied>>

-----------------------------------------------------------------------------
(* ReplayService.run over one record, up to bus.publish. *)

Seen(e) == \A c \in Consumer : <<c, e>> \in inbox

\* Select and classify: pending and dead rows unless the operator names
\* processed ones; a duplicate is skipped in pending_only mode.
StartReplay(e, mode) ==
  /\ pc[Replayer] = "idle"
  /\ replays < MaxReplays
  /\ row[e].status # "absent"
  /\ mode = "pending_only" => ~Seen(e)
  /\ record' = [record EXCEPT ![Replayer] =
       [item |-> e, token |-> NoToken, attempts |-> row[e].attempts,
        status |-> row[e].status, mode |-> mode]]
  /\ pc' = [pc EXCEPT ![Replayer] = IF mode = "reapply" THEN "forget" ELSE "deliver"]
  /\ replays' = replays + 1
  /\ replayed' = replayed \union {e}
  /\ UNCHANGED <<row, inbox, handled, thrown, age, sub, tries, failed, reapplied>>

\* reapply removes each consumer's inbox entry before publishing.
ForgetInbox(p) ==
  /\ pc[p] = "forget"
  /\ LET e == record[p].item
         last == sub[p] = Len(Subscribers)
     IN  /\ inbox' = inbox \ {<<Subscribers[sub[p]], e>>}
         /\ reapplied' = reapplied \union {e}
         /\ sub' = [sub EXCEPT ![p] = IF last THEN 1 ELSE @ + 1]
         /\ pc' = [pc EXCEPT ![p] = IF last THEN "deliver" ELSE "forget"]
  /\ UNCHANGED <<row, handled, thrown, age, record, tries, failed, replays, replayed>>

-----------------------------------------------------------------------------
(* LocalEventBus.publish and deliver. *)

Pair(p) == <<Subscribers[sub[p]], record[p].item>>

NextSubscriber(p) == sub' = [sub EXCEPT ![p] = @ + 1]

\* A pair that is already in the inbox counts as handled: the bus reports
\* success without knowing whether its handler has finished, or ever will.
InboxClaim(p) ==
  /\ pc[p] = "deliver" /\ sub[p] <= Len(Subscribers)
  /\ IF Pair(p) \in inbox
     THEN NextSubscriber(p) /\ UNCHANGED <<inbox, pc>>
     ELSE /\ inbox' = inbox \union {Pair(p)}
          /\ pc' = [pc EXCEPT ![p] = "handle"]
          /\ UNCHANGED sub
  /\ UNCHANGED <<row, handled, thrown, age, record, tries, failed, replays, replayed, reapplied>>

\* A mutant: the inbox entry is released whether or not the handler threw.
HandlerCommitsAndReleases(p) ==
  /\ pc[p] = "handle"
  /\ handled' = [handled EXCEPT ![Pair(p)] = IF @ < HandledCap THEN @ + 1 ELSE @]
  /\ inbox' = inbox \ {Pair(p)}
  /\ tries' = [tries EXCEPT ![p] = 0]
  /\ pc' = [pc EXCEPT ![p] = "deliver"]
  /\ NextSubscriber(p)
  /\ UNCHANGED <<row, thrown, age, record, failed, replays, replayed, reapplied>>

HandlerCommits(p) ==
  /\ pc[p] = "handle"
  /\ handled' = [handled EXCEPT ![Pair(p)] = IF @ < HandledCap THEN @ + 1 ELSE @]
  /\ tries' = [tries EXCEPT ![p] = 0]
  /\ pc' = [pc EXCEPT ![p] = "deliver"]
  /\ NextSubscriber(p)
  /\ UNCHANGED <<row, inbox, thrown, age, record, failed, replays, replayed, reapplied>>

HandlerThrows(p) ==
  /\ pc[p] = "handle"
  /\ thrown' = [thrown EXCEPT ![Pair(p)] = IF @ < ThrownCap THEN @ + 1 ELSE @]
  /\ tries' = [tries EXCEPT ![p] = @ + 1]
  /\ pc' = [pc EXCEPT ![p] = "release"]
  /\ UNCHANGED <<row, inbox, handled, age, record, sub, failed, replays, replayed, reapplied>>

Release(p) ==
  /\ pc[p] = "release"
  /\ inbox' = inbox \ {Pair(p)}
  /\ IF tries[p] < BusAttempts
     THEN /\ pc' = [pc EXCEPT ![p] = "reclaimInbox"]
          /\ UNCHANGED <<sub, tries, failed>>
     ELSE /\ pc' = [pc EXCEPT ![p] = "deliver"]
          /\ tries' = [tries EXCEPT ![p] = 0]
          /\ failed' = [failed EXCEPT ![p] = TRUE]
          /\ NextSubscriber(p)
  /\ UNCHANGED <<row, handled, thrown, age, record, replays, replayed, reapplied>>

\* The answer of this claim is not looked at: the handler runs again whether
\* or not another publisher has taken the pair in the meantime.
ReclaimInbox(p) ==
  /\ pc[p] = "reclaimInbox"
  /\ inbox' = inbox \union {Pair(p)}
  /\ pc' = [pc EXCEPT ![p] = "handle"]
  /\ UNCHANGED <<row, handled, thrown, age, record, sub, tries, failed, replays, replayed,
                 reapplied>>

\* An inbox statement fails: publish rejects there and then.
InboxError(p) ==
  /\ \/ pc[p] = "deliver" /\ sub[p] <= Len(Subscribers)
     \/ pc[p] \in {"release", "reclaimInbox"}
  /\ pc' = [pc EXCEPT ![p] = "deliver"]
  /\ sub' = [sub EXCEPT ![p] = Len(Subscribers) + 1]
  /\ tries' = [tries EXCEPT ![p] = 0]
  /\ failed' = [failed EXCEPT ![p] = TRUE]
  /\ UNCHANGED <<row, inbox, handled, thrown, age, record, replays, replayed, reapplied>>

\* A mutant: the last subscriber is never reached.
PublishedEarly(p) == pc[p] = "deliver" /\ sub[p] >= Len(Subscribers)

Published(p) == pc[p] = "deliver" /\ sub[p] > Len(Subscribers)

-----------------------------------------------------------------------------
(* What becomes of the row. *)

\* The row after a dispatch: settled, retried or dead-lettered if the claim
\* still stands, and untouched if it does not.
AfterDispatch(w) ==
  LET h == record[w]
      r == row[h.item]
  IN  IF ~Accepts(r, h.token) THEN r
      ELSE IF ~failed[w] THEN MarkDone(r, "processed")
      ELSE IF h.attempts + 1 >= MaxAttempts THEN MarkDead(r)
      ELSE MarkFailed(r, age[w], h.attempts)

\* markProcessed throws, with its write committed or not: to the dispatcher that is a
\* failure like any other.
AckFails(w) ==
  /\ Published(w)
  /\ ~failed[w]
  /\ row' \in {row, [row EXCEPT ![record[w].item] = AfterDispatch(w)]}
  /\ failed' = [failed EXCEPT ![w] = TRUE]
  /\ UNCHANGED <<inbox, handled, thrown, pc, age, record, sub, tries, replays, replayed,
                 reapplied>>

AckDispatch(w) ==
  /\ Published(w)
  /\ row' = [row EXCEPT ![record[w].item] = AfterDispatch(w)]
  /\ Rest(w)
  /\ UNCHANGED <<inbox, handled, thrown, replays, replayed, reapplied>>

\* A mutant: a replay that fails charges the row as a dispatch would.
AckReplayCharging ==
  /\ Published(Replayer)
  /\ LET h == record[Replayer]
     IN  row' = [row EXCEPT ![h.item] =
           IF h.status = "processed" THEN @
           ELSE IF failed[Replayer] THEN MarkDead(@)
           ELSE MarkDone(@, "processed")]
  /\ Rest(Replayer)
  /\ UNCHANGED <<inbox, handled, thrown, replays, replayed, reapplied>>

\* Replay presents no fence.  It writes only after a success, and only to a row
\* it read as unprocessed.
AckReplay ==
  /\ Published(Replayer)
  /\ LET h == record[Replayer]
     IN  row' = IF ~failed[Replayer] /\ h.status # "processed"
                THEN [row EXCEPT ![h.item] = MarkDone(@, "processed")]
                ELSE row
  /\ Rest(Replayer)
  /\ UNCHANGED <<inbox, handled, thrown, replays, replayed, reapplied>>

Crash(p) ==
  /\ pc[p] # "idle"
  /\ Rest(p)
  /\ UNCHANGED <<row, inbox, handled, thrown, replays, replayed, reapplied>>

Tick ==
  /\ row' = [e \in Event |-> IF row[e].status = "pending" THEN Older(row[e]) ELSE row[e]]
  /\ age' = [p \in Publisher |->
       IF p \in Dispatcher /\ pc[p] # "idle" /\ age[p] < Horizon THEN age[p] + 1 ELSE age[p]]
  /\ UNCHANGED <<inbox, handled, thrown, delivery, replays, replayed, reapplied>>

Deliver(p) ==
  InboxClaim(p) \/ HandlerCommits(p) \/ HandlerThrows(p) \/ Release(p) \/ ReclaimInbox(p)

Next ==
  \/ \E e \in Event : Accept(e) \/ \E mode \in {"pending_only", "reapply"} : StartReplay(e, mode)
  \/ \E w \in Dispatcher :
       \/ Poll(w)
       \/ ReclaimExpired(w)
       \/ ClaimDue(w)
       \/ NothingDue(w)
       \/ AckFails(w)
       \/ AckDispatch(w)
  \/ \E p \in Publisher :
       \/ InboxClaim(p)
       \/ HandlerCommits(p)
       \/ HandlerThrows(p)
       \/ Release(p)
       \/ ReclaimInbox(p)
       \/ InboxError(p)
       \/ Crash(p)
  \/ ForgetInbox(Replayer)
  \/ AckReplay
  \/ Tick

Spec == Init /\ [][Next]_vars

\* Dispatchers are polled for ever, each handler returns or its process dies,
\* and a dispatcher is not killed at every poll before it can issue its two
\* statements.  Replays need no fairness: an operator may never run one.
Fairness ==
  /\ WF_vars(Tick)
  /\ \A w \in Dispatcher :
       /\ WF_vars(Poll(w))
       /\ SF_vars(ReclaimExpired(w))
       /\ SF_vars(ClaimDue(w) \/ NothingDue(w))
       /\ WF_vars(Deliver(w) \/ AckDispatch(w))

FairSpec == Spec /\ Fairness

-----------------------------------------------------------------------------

\* Types, with both budgets bounded: nothing here revives an inbound row.
TypeOK ==
  /\ row \in [Event -> Row("processed")]
  /\ \A e \in Event : row[e].attempts <= MaxAttempts /\ row[e].reclaims <= MaxReclaims + 1
  /\ inbox \subseteq Consumer \X Event
  /\ handled \in [Consumer \X Event -> 0..HandledCap]
  /\ thrown \in [Consumer \X Event -> 0..ThrownCap]
  /\ pc \in [Publisher -> {"idle", "reclaim", "claim", "forget", "deliver", "handle", "release",
                           "reclaimInbox"}]
  /\ age \in [Publisher -> 0..Horizon]
  /\ record \in [Publisher -> Record \union {NoRecord}]
  /\ sub \in [Publisher -> 1..(Len(Subscribers) + 1)]
  /\ tries \in [Publisher -> 0..BusAttempts]
  /\ failed \in [Publisher -> BOOLEAN]
  /\ replays \in 0..MaxReplays
  /\ replayed \subseteq Event
  /\ reapplied \subseteq replayed

Handling(p, c, e) ==
  /\ pc[p] \in {"handle", "release", "reclaimInbox"}
  /\ Pair(p) = <<c, e>>

\* An event that was processed without a failure, an abandonment or a replay
\* was handled exactly once by every consumer: the fence and the inbox agree
\* whenever nothing goes wrong, however many dispatchers compete for the row.
UndisturbedIsExactlyOnce ==
  \A e \in Event :
    (row[e].status = "processed" /\ row[e].attempts = 0 /\ row[e].reclaims = 0
       /\ e \notin replayed)
      => \A c \in Consumer : handled[<<c, e>>] = 1

\* A consumer's handler commits once for an event, and once more at most for each time
\* it threw, unless an operator reapplied the event: through crashes, abandoned claims,
\* competing dispatchers, and publishers that remove one another's inbox entries or run
\* on a retry they never claimed.
HandledOncePerThrow ==
  \A c \in Consumer, e \in Event :
    e \notin reapplied /\ thrown[<<c, e>>] < ThrownCap
      => handled[<<c, e>>] <= 1 + thrown[<<c, e>>]

\* A processed row is never changed again, by a stale dispatcher or by a replay
\* ("replay never returns a processed row to pending, and never resets attempts").
ProcessedIsFinal ==
  [][\A e \in Event : row[e].status = "processed" =>
       row'[e].status = "processed" /\ row'[e].attempts = row[e].attempts]_vars

\* A row's failures are only ever charged by the dispatcher whose claim stands,
\* and a dead row comes back only as processed, by a replay that succeeded.
OnlyTheHolderCharges ==
  [][\A e \in Event :
       /\ row'[e].attempts # row[e].attempts =>
            \E w \in Dispatcher : /\ record[w] # NoRecord /\ record[w].item = e
                                  /\ record[w].token = row[e].token
                                  /\ failed[w] /\ record'[w] = NoRecord
       /\ (row[e].status = "dead" /\ row'[e].status # "dead") =>
            /\ row'[e].status = "processed"
            /\ ~failed[Replayer] /\ Published(Replayer) /\ record[Replayer].item = e]_vars

\* Every accepted event is in the end processed or dead.
EveryEventSettles ==
  \A e \in Event : row[e].status = "pending" ~> Terminal(row[e], "processed")

-----------------------------------------------------------------------------
(* What the comments say of delivery, which these steps do not keep. *)

\* At-least-once: a row is marked processed only if every consumer has handled
\* its event or is handling it.
ProcessedWasHandled ==
  \A e \in Event : row[e].status = "processed" =>
    \A c \in Consumer : handled[<<c, e>>] > 0 \/ \E p \in Publisher : Handling(p, c, e)

\* The inbox lets exactly one publisher handle an event for a consumer.
OneWorkerHandles ==
  \A c \in Consumer, e \in Event : e \notin reapplied =>
    \A p, q \in Publisher :
      (pc[p] = "handle" /\ pc[q] = "handle" /\ Pair(p) = <<c, e>> /\ Pair(q) = <<c, e>>) => p = q
=============================================================================
