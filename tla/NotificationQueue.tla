-------------------------- MODULE NotificationQueue --------------------------
(***************************************************************************)
(* Notifications.  A relay's fan-out queues one message per recipient of   *)
(* the event; dispatchers lease messages, hand each to its channel adapter *)
(* and record what the provider said.  The queue differs from the other    *)
(* three: the lease is a status of its own ("processing"), the attempt is  *)
(* charged when it is claimed and not when it fails, and there is one      *)
(* budget, which an abandoned attempt spends like any other.               *)
(***************************************************************************)
EXTENDS LeaseRow

CONSTANTS
  Notice,         \* events with a template, the only ones anyone is told of
  Recipient,      \* (organization, event type, identity, channel) registrations
  Organization,
  Platform,       \* the scope of a platform-wide recipient
  ScopeOf,        \* the organization a recipient is registered under, or Platform
  TenantOf,       \* the organization an event names, or Platform when it names none
  Courier,        \* notification dispatcher processes
  NoNotice,
  CourierLimit,   \* the `limit` of drainOnce
  AskedDelay      \* delays a provider may ask for

ASSUME CourierAssumption ==
  /\ ScopeOf \in [Recipient -> Organization \union {Platform}]
  /\ TenantOf \in [Notice -> Organization \union {Platform}]
  /\ CourierLimit \in Nat \ {0}
  /\ AskedDelay \subseteq Nat
  /\ IsFiniteSet(Courier) /\ "nobody" \notin Courier

Note == Notice \X Recipient

ASSUME NoNoticeAssumption == NoNotice \notin Note

VARIABLES
  recipient, \* the notification_recipient table
  telling,   \* per event: the recipients its fan-out has read, if it is running
  note,      \* the notification table
  courier,   \* what each dispatcher's drainOnce holds
  sends      \* how often each message was handed to a provider

nvars == <<recipient, telling, note, courier, sends>>

NoteRow ==
  [status : {"absent", "pending", "processing", "accepted", "delivered", "failed"},
   attempts : Nat, wait : Int, token : Token \union {NoToken}]

NoNote == [status |-> "absent", attempts |-> 0, wait |-> 0, token |-> NoToken]

ClaimedNote == [item : Note, token : Token, attempts : Nat, due : Int]

\* What the channel says; "broken" when it throws or is not configured.
Outcome == {"accepted", "delivered", "retryable", "permanent", "broken"}

AtRest == [step |-> "idle", age |-> 0, batch |-> {}, item |-> NoNotice, outcome |-> "broken"]

NInit ==
  /\ recipient = [r \in Recipient |-> "unregistered"]
  /\ telling = [e \in Notice |-> [step |-> "waiting", to |-> {}]]
  /\ note = [n \in Note |-> NoNote]
  /\ courier = [w \in Courier |-> AtRest]
  /\ sends = [n \in Note |-> 0]

-----------------------------------------------------------------------------
(* Recipients and fan-out. *)

\* Only an identity with a verified link on the channel is registered, and no
\* link is ever withdrawn: a registered recipient has an address from then on.
\* Registering again returns the first registration, switched off or not.
RegisterRecipient(r) ==
  /\ recipient[r] = "unregistered"
  /\ recipient' = [recipient EXCEPT ![r] = "active"]
  /\ UNCHANGED <<telling, note, courier, sends>>

SetRecipientActive(r, state) ==
  /\ recipient[r] # "unregistered"
  /\ recipient' = [recipient EXCEPT ![r] = state]
  /\ UNCHANGED <<telling, note, courier, sends>>

\* An event that names no organization concerns platform-wide recipients only.
InScope(r, e) == ScopeOf[r] \in {Platform, TenantOf[e]}

RecipientsFor(e) == {r \in Recipient : recipient[r] = "active" /\ InScope(r, e)}

TellRead(e) ==
  /\ telling[e].step = "waiting"
  /\ telling' = [telling EXCEPT ![e] = [step |-> "queueing", to |-> RecipientsFor(e)]]
  /\ UNCHANGED <<recipient, note, courier, sends>>

\* on conflict (event_id, recipient_id) do nothing
QueueNote(n) == IF note[n].status = "absent" THEN [NoNote EXCEPT !.status = "pending"] ELSE note[n]

\* With the relay's transaction, or not at all.
TellCommit(e) ==
  /\ telling[e].step = "queueing"
  /\ note' = [n \in Note |-> IF n[1] = e /\ n[2] \in telling[e].to THEN QueueNote(n) ELSE note[n]]
  /\ telling' = [telling EXCEPT ![e] = [step |-> "published", to |-> {}]]
  /\ UNCHANGED <<recipient, courier, sends>>

TellRollback(e) ==
  /\ telling[e].step = "queueing"
  /\ telling' = [telling EXCEPT ![e] = [step |-> "waiting", to |-> {}]]
  /\ UNCHANGED <<recipient, note, courier, sends>>

-----------------------------------------------------------------------------
(* drainOnce. *)

StartRound(w) ==
  /\ courier[w].step = "idle"
  /\ courier' = [courier EXCEPT ![w].step = "reclaim"]
  /\ UNCHANGED <<recipient, telling, note, sends>>

\* A mutant: messages in the middle of an attempt are never looked for.
NeverOver(n, now) == FALSE

LeaseOver(n, now) == note[n].status = "processing" /\ Due(note[n], now)

\* A mutant: a recovered message is always given another attempt.
AlwaysAnotherAttempt(r) == [r EXCEPT !.token = NoToken, !.status = "pending"]

\* The attempt is spent already: the message fails if it was the last, and is
\* due at once otherwise, its next_attempt_at being the lease that ran out.
AfterAbandonment(r) ==
  [r EXCEPT !.token = NoToken, !.status = IF r.attempts >= MaxAttempts THEN "failed" ELSE "pending"]

RecoverNotes(w) ==
  /\ courier[w].step = "reclaim"
  /\ LET lost == {n \in Note : LeaseOver(n, courier[w].age)}
     IN  \E S \in InDueOrder(note, lost, CourierLimit) :
           note' = [n \in Note |-> IF n \in S THEN AfterAbandonment(note[n]) ELSE note[n]]
  /\ courier' = [courier EXCEPT ![w].step = "claim"]
  /\ UNCHANGED <<recipient, telling, sends>>

NoteTokensInUse ==
  {note[n].token : n \in Note} \union UNION {{h.token : h \in courier[w].batch} : w \in Courier}

DueNotes(w) == {n \in Note : note[n].status = "pending" /\ Due(note[n], courier[w].age)}

ClaimNote(r, now, token) ==
  DueIn([r EXCEPT !.status = "processing", !.attempts = @ + 1, !.token = token], Lease, now)

ClaimNotes(w) ==
  /\ courier[w].step = "claim"
  /\ \E S \in InDueOrder(note, DueNotes(w), CourierLimit) \ {{}}, token \in Token \ NoteTokensInUse :
       /\ note' = [n \in Note |->
            IF n \in S THEN ClaimNote(note[n], courier[w].age, token) ELSE note[n]]
       /\ courier' = [courier EXCEPT ![w].step = "send", ![w].batch =
            {[item |-> n, token |-> token, attempts |-> note[n].attempts + 1, due |-> note[n].wait] :
               n \in S}]
  /\ UNCHANGED <<recipient, telling, sends>>

NoNoteDue(w) ==
  /\ courier[w].step = "claim"
  /\ DueNotes(w) = {}
  /\ courier' = [courier EXCEPT ![w] = AtRest]
  /\ UNCHANGED <<recipient, telling, note, sends>>

FirstDue(w) == {h \in courier[w].batch : \A g \in courier[w].batch : h.due <= g.due}

\* channel.send answers, or throws.
SendNote(w, outcome) ==
  /\ courier[w].step = "send"
  /\ \E h \in FirstDue(w) :
       /\ courier' = [courier EXCEPT ![w].step = "ack", ![w].item = h.item, ![w].outcome = outcome]
       /\ sends' = [sends EXCEPT ![h.item] = @ + 1]
  /\ UNCHANGED <<recipient, telling, note>>

\* No adapter is configured for the channel: nothing is sent, the attempt is spent.
NoAdapter(w) ==
  /\ courier[w].step = "send"
  /\ \E h \in FirstDue(w) :
       courier' = [courier EXCEPT ![w].step = "ack", ![w].item = h.item, ![w].outcome = "broken"]
  /\ UNCHANGED <<recipient, telling, note, sends>>

\* A mutant: acknowledgements look at the status and not at the token.
AcceptsAnyCourier(r, h) == r.status = "processing"

AcceptsNote(r, h) == r.status = "processing" /\ r.token = h.token

Settle(r, status) == [r EXCEPT !.status = status, !.token = NoToken]

MarkRetrying(r, delay, now) == DueIn(Settle(r, "pending"), delay, now)

\* The delay doubles, unless the provider asked for one of its own.
Delays(outcome, attempts) ==
  {RetryDelay[attempts - 1]} \union (IF outcome = "retryable" THEN AskedDelay ELSE {})

\* Retry, unless this was the last attempt of the budget.
AfterOutcome(r, h, now, outcome, delay) ==
  IF outcome \in {"accepted", "delivered"} THEN Settle(r, outcome)
  ELSE IF outcome = "permanent" \/ h.attempts >= MaxAttempts THEN Settle(r, "failed")
  ELSE MarkRetrying(r, delay, now)

NextInRound(w, h) ==
  LET rest == courier[w].batch \ {h}
  IN  courier' = [courier EXCEPT ![w] =
        IF rest = {} THEN AtRest
        ELSE [@ EXCEPT !.batch = rest, !.step = "send", !.item = NoNotice, !.outcome = "broken"]]

RecordOutcome(w) ==
  /\ courier[w].step = "ack"
  /\ \E h \in courier[w].batch :
       /\ h.item = courier[w].item
       /\ \E delay \in Delays(courier[w].outcome, h.attempts) :
            note' = [note EXCEPT ![h.item] =
              IF AcceptsNote(@, h)
              THEN AfterOutcome(@, h, courier[w].age, courier[w].outcome, delay) ELSE @]
       /\ NextInRound(w, h)
  /\ UNCHANGED <<recipient, telling, sends>>

CourierDies(w) ==
  /\ courier[w].step # "idle"
  /\ courier' = [courier EXCEPT ![w] = AtRest]
  /\ UNCHANGED <<recipient, telling, note, sends>>

NTick ==
  /\ note' = [n \in Note |->
       IF note[n].status \in {"pending", "processing"} THEN Older(note[n]) ELSE note[n]]
  /\ courier' = [w \in Courier |->
       IF courier[w].step # "idle" /\ courier[w].age < Horizon
       THEN [courier[w] EXCEPT !.age = @ + 1] ELSE courier[w]]
  /\ UNCHANGED <<recipient, telling, sends>>

-----------------------------------------------------------------------------

ProcessClaimed(w) == RecordOutcome(w) \/ NoAdapter(w) \/ \E o \in Outcome : SendNote(w, o)

NNext ==
  \/ \E r \in Recipient :
       RegisterRecipient(r) \/ \E state \in {"active", "inactive"} : SetRecipientActive(r, state)
  \/ \E e \in Notice : TellRead(e) \/ TellCommit(e) \/ TellRollback(e)
  \/ \E w \in Courier :
       \/ StartRound(w)
       \/ RecoverNotes(w)
       \/ ClaimNotes(w)
       \/ NoNoteDue(w)
       \/ \E o \in Outcome : SendNote(w, o)
       \/ NoAdapter(w)
       \/ RecordOutcome(w)
       \/ CourierDies(w)
  \/ NTick

NSpec == NInit /\ [][NNext]_nvars

\* As for the relay: the loop polls, an adapter's call ends, and a dispatcher
\* is not killed at every single poll.
NFairness ==
  /\ WF_nvars(NTick)
  /\ \A w \in Courier :
       /\ WF_nvars(StartRound(w))
       /\ SF_nvars(RecoverNotes(w))
       /\ SF_nvars(ClaimNotes(w) \/ NoNoteDue(w))
       /\ WF_nvars(ProcessClaimed(w))

-----------------------------------------------------------------------------

NTypeOK ==
  /\ recipient \in [Recipient -> {"unregistered", "active", "inactive"}]
  /\ telling \in [Notice -> [step : {"waiting", "queueing", "published"}, to : SUBSET Recipient]]
  /\ note \in [Note -> NoteRow]
  /\ courier \in [Courier ->
       [step : {"idle", "reclaim", "claim", "send", "ack"}, age : 0..Horizon,
        batch : SUBSET ClaimedNote, item : Note \union {NoNotice}, outcome : Outcome]]
  /\ sends \in [Note -> Nat]

\* A person is messaged about an event at most MaxAttempts times, whatever
\* number of dispatchers stall past the lease with the message in hand: every
\* send was charged when it was claimed, and recovery grants no attempt.
MessagedWithinBudget ==
  \A n \in Note : sends[n] <= note[n].attempts /\ note[n].attempts <= MaxAttempts

CouriersOf(n) ==
  {w \in Courier : \E h \in courier[w].batch : h.item = n /\ h.token = note[n].token}

CourierOf(n) == OwnerOf(note[n].status = "processing", CouriersOf(n))

NoteState(n) ==
  CASE note[n].status \in {"pending", "processing"} -> "open"
    [] note[n].status \in {"accepted", "delivered"} -> "done"
    [] note[n].status = "failed" -> "dead"
    [] OTHER -> "absent"

NoteWork == INSTANCE ExclusiveWork WITH
  Item <- Note, Worker <- Courier, Nobody <- "nobody", Lost <- "lost",
  state <- [n \in Note |-> NoteState(n)], owner <- [n \in Note |-> CourierOf(n)]

\* Notifications are exclusive work: a dispatcher that outlived its lease can
\* still have sent, but it cannot report a success over the attempt that
\* replaced it, and an accepted message is never sent again.
NotificationIsExclusive == NoteWork!WSpec

\* A queued message is in the end accepted, delivered or failed, whatever
\* stalls, dies or asks to be called back.
EveryNotificationSettles ==
  \A n \in Note :
    note[n].status \in {"pending", "processing"}
      ~> note[n].status \in {"accepted", "delivered", "failed"}
=============================================================================
