----------------------------- MODULE Fulfillment -----------------------------
(***************************************************************************)
(* Fulfillments and the holds that pay for them.  Messages from MARKET and *)
(* MOVE arrive in any order, repeatedly and at the same time; each handler *)
(* reads the fulfillment, reads and prices the hold through the payment    *)
(* port, and commits the row, the hold, the ledger and the event in one    *)
(* transaction.  Meanwhile the payment API serves the same holds directly. *)
(***************************************************************************)
EXTENDS Settlement

CONSTANTS
  Order,       \* an order reference names at most one fulfillment
  HoldOf,      \* the hold each order declares
  Unfunded,    \* the absence of one
  Job, NoJob,
  Worker,      \* handlers that run at the same time
  NoCommand,
  MaxDirect,   \* model bound: payment API calls
  MaxFaults    \* model bound: reads of the payment port that fail

ASSUME OrderAssumption == HoldOf \in [Order -> Hold \union {Unfunded}] /\ Unfunded \notin Hold
ASSUME NoJobAssumption == NoJob \notin Job
ASSUME BoundAssumption == MaxDirect \in Nat /\ MaxFaults \in Nat

VARIABLES
  order,   \* the fulfillment table, by order reference
  hold, ledger, lapsed,
  events,  \* how often each event was published for each order
  cmd,     \* what each worker is doing
  call,    \* the payment API call in progress
  calls,   \* payment API calls made
  direct,  \* the holds they named
  faults   \* reads of the payment port that failed

money == <<hold, ledger>>
api == <<call, calls, direct>>
vars == <<order, money, lapsed, events, cmd, api, faults>>

Open == {"coordinating", "dispatched"}
Closed == {"completed", "failed", "cancelled"}
SettlementState == {"none", "held", "captured", "partially_captured", "released", "unsettled"}

FulfillmentRow ==
  [status : {"absent"} \union Open \union Closed, settlement : SettlementState,
   job : Job \union {NoJob},
   marker : Job \union {NoJob}]  \* executed_after_cancellation: the job that reported it

NoFulfillment == [status |-> "absent", settlement |-> "none", job |-> NoJob, marker |-> NoJob]

\* The bound on a count of events: more than one is all that matters.
EventCap == 2
Event == {"created", "dispatched", "closed", "executed_after_cancellation"}

Command ==
  [op : {"intake", "accept", "reject", "complete", "cancel"}, order : Order,
   job : Job \union {NoJob},
   done : BOOLEAN,     \* what MOVE reports: the work was done
   refused : BOOLEAN,  \* the hold cannot guard the order, or cannot pay for the work
   step : {"inspect", "settle", "ledger", "release", "commit", "reread", "answer"},
   row : FulfillmentRow, hold : HoldRow,  \* as they were read
   stage : {"nothing", "capture", "void"}, settlement : SettlementState]

Call == [op : {"capture", "void"}, step : {"decide", "commit"}, hold : Hold,
         key : Key \union {Whole}, amount : 0..MaxAmount, row : HoldRow]

Init ==
  /\ order = [o \in Order |-> NoFulfillment]
  /\ hold \in [Hold -> {NoHold, Authorized(MaxAmount)}]
  /\ ledger = {}
  /\ lapsed = {}
  /\ events = [o \in Order |-> [e \in Event |-> 0]]
  /\ cmd = [w \in Worker |-> NoCommand]
  /\ call = NoCommand /\ calls = 0 /\ direct = {}
  /\ faults = 0

Lapse(h) ==
  /\ lapsed' = lapsed \union {h}
  /\ UNCHANGED <<order, money, events, cmd, api, faults>>

-----------------------------------------------------------------------------
(* Reading the message and the fulfillment. *)

Idle(w) == cmd[w] = NoCommand

At(w, step) == ~Idle(w) /\ cmd[w].step = step

Begin(w, op, o, job, done, step) ==
  /\ Idle(w)
  /\ cmd' = [cmd EXCEPT ![w] =
       [op |-> op, order |-> o, job |-> job, done |-> done, refused |-> FALSE, step |-> step,
        row |-> order[o], hold |-> NoHold, stage |-> "nothing", settlement |-> "none"]]
  /\ UNCHANGED <<order, money, lapsed, events, api, faults>>

Finish(w) == cmd' = [cmd EXCEPT ![w] = NoCommand]

\* An unfunded fulfillment has nothing to read and settles as `none`.
ThroughMoney(o, step) == IF HoldOf[o] = Unfunded THEN "commit" ELSE step

\* A repeat of a known order is answered with its fulfillment.
ReceiveOrder(w, o) ==
  /\ order[o].status = "absent"
  /\ Begin(w, "intake", o, NoJob, FALSE, ThroughMoney(o, "inspect"))

\* MOVE only knows the fulfillments CORE asked it to execute.
Requested(o) == events[o]["created"] > 0

Accept(w, o, j) ==
  /\ Requested(o)
  /\ Begin(w, "accept", o, j, FALSE,
           IF order[o].status = "coordinating" THEN "commit" ELSE "answer")

\* A closed fulfillment is answered as it is, or refused.
Reject(w, o) ==
  /\ Requested(o) /\ order[o].status \in Open
  /\ Begin(w, "reject", o, NoJob, FALSE, ThroughMoney(o, "release"))

Complete(w, o, j, done) ==
  /\ Requested(o)
  /\ Begin(w, "complete", o, j, done,
           IF order[o].status \in Closed THEN "answer"
           ELSE ThroughMoney(o, IF done THEN "settle" ELSE "release"))

Cancel(w, o) ==
  /\ order[o].status \in Open
  /\ Begin(w, "cancel", o, NoJob, FALSE, ThroughMoney(o, "release"))

-----------------------------------------------------------------------------
(* The payment port. *)

HoldFor(w) == HoldOf[cmd[w].order]

\* On to the commit with a settlement, and with what is staged on the hold.
Priced(w, r, stage, settlement) ==
  cmd' = [cmd EXCEPT ![w] = [@ EXCEPT !.hold = r, !.stage = stage, !.settlement = settlement,
                                      !.step = "commit"]]

\* inspectHold: may this hold still guard an execution?  A refused order is
\* born failed, and an expired hold it declared is released.
Inspect(w) ==
  /\ At(w, "inspect")
  /\ LET r == hold[HoldFor(w)]
         refusal == CASE r.status = "captured" -> "unsettled"
                      [] r.status = "partially_captured" -> "partially_captured"
                      [] r.status = "voided" -> "released"
                      [] OTHER -> "none"
     IN  cmd' = [cmd EXCEPT ![w] =
           IF r.status # "authorized"
           THEN [@ EXCEPT !.refused = TRUE, !.settlement = refusal, !.step = "commit"]
           ELSE IF HoldFor(w) \in lapsed
           THEN [@ EXCEPT !.refused = TRUE, !.step = "release"]
           ELSE [@ EXCEPT !.settlement = "held", !.step = "commit"]]
  /\ UNCHANGED <<order, money, lapsed, events, api, faults>>

\* captureHoldWithin reads the hold, and the ledger after it.
ReadHold(w) ==
  /\ At(w, "settle")
  /\ cmd' = [cmd EXCEPT ![w].hold = hold[HoldFor(w)], ![w].step = "ledger"]
  /\ UNCHANGED <<order, money, lapsed, events, api, faults>>

Charge(w) == Entry("capture", HoldFor(w), Whole, Remaining(cmd[w].hold))

\* A mutant: a refused capture is reported as a release that nobody stages.
ReadLedgerOnly(w) ==
  /\ At(w, "ledger")
  /\ LET r == cmd[w].hold
     IN  IF Recorded(ledger, Charge(w)) THEN Priced(w, r, "nothing", "captured")
         ELSE IF MayCapture(r, HoldFor(w) \in lapsed, Whole, Remaining(r))
         THEN Priced(w, r, "capture", "captured")
         ELSE Priced(w, r, "nothing", "released")
  /\ UNCHANGED <<order, money, lapsed, events, api, faults>>

\* The capture was made before: answered with the hold as it was read.  Or it
\* can be made.  Or it is refused, and what is held is released instead.
ReadLedger(w) ==
  /\ At(w, "ledger")
  /\ LET r == cmd[w].hold
     IN  IF Recorded(ledger, Charge(w))
         THEN Priced(w, r, "nothing",
                     IF r.status = "captured" THEN "captured" ELSE "partially_captured")
         ELSE IF MayCapture(r, HoldFor(w) \in lapsed, Whole, Remaining(r))
         THEN Priced(w, r, "capture", "captured")
         ELSE cmd' = [cmd EXCEPT ![w].refused = TRUE, ![w].step = "release"]
  /\ UNCHANGED <<order, money, lapsed, events, api, faults>>

\* A mutant: the void is reported and not staged.
ReleaseUnstaged(w) ==
  /\ At(w, "release")
  /\ LET r == hold[HoldFor(w)]
     IN  IF r.status = "captured" THEN Priced(w, r, "nothing", "unsettled")
         ELSE Priced(w, r, "nothing",
                     IF r.captured > 0 THEN "partially_captured" ELSE "released")
  /\ UNCHANGED <<order, money, lapsed, events, api, faults>>

\* release: void what is still held, and report where the money is.
Release(w) ==
  /\ At(w, "release")
  /\ LET r == hold[HoldFor(w)]
         where == IF r.captured > 0 THEN "partially_captured" ELSE "released"
     IN  CASE r.status = "authorized" -> Priced(w, r, "void", where)
           [] r.status \in {"voided", "partially_captured"} -> Priced(w, r, "nothing", where)
           [] OTHER -> Priced(w, r, "nothing", "unsettled")
  /\ UNCHANGED <<order, money, lapsed, events, api, faults>>

\* A read of the payment port fails.  Nothing tells this from a refusal: the
\* order is turned away as if it had no hold, a capture is replaced by a
\* release, and a release is given up.
ReadFails(w) ==
  /\ ~Idle(w) /\ cmd[w].step \in {"inspect", "settle", "ledger", "release"}
  /\ faults < MaxFaults
  /\ faults' = faults + 1
  /\ cmd' = [cmd EXCEPT ![w] =
       CASE @.step = "inspect" -> [@ EXCEPT !.refused = TRUE, !.step = "commit"]
         [] @.step = "release" -> [@ EXCEPT !.settlement = "unsettled", !.step = "commit"]
         [] OTHER -> [@ EXCEPT !.refused = TRUE, !.step = "release"]]
  /\ UNCHANGED <<order, money, lapsed, events, api>>

-----------------------------------------------------------------------------
(* Committing. *)

\* The row a command writes, made from the row it read.
NextRow(w) ==
  LET c == cmd[w]
  IN  CASE c.op = "intake" ->
             [c.row EXCEPT !.status = IF c.refused THEN "failed" ELSE "coordinating",
                           !.settlement = c.settlement]
        [] c.op = "accept" -> [c.row EXCEPT !.status = "dispatched", !.job = c.job]
        [] c.op = "complete" ->
             [c.row EXCEPT !.status = IF c.done /\ ~c.refused THEN "completed" ELSE "failed",
                           !.settlement = c.settlement, !.job = c.job]
        [] OTHER -> [c.row EXCEPT !.status = IF c.op = "cancel" THEN "cancelled" ELSE "failed",
                                  !.settlement = c.settlement]

\* A mutant: the write goes by id, whatever has happened to the row.
ExpectedAnything(op) ==
  CASE op = "intake" -> {"absent"}
    [] op = "accept" -> {"coordinating"}
    [] OTHER -> Open \union Closed

\* A mutant: an acceptance dispatches the row in whatever status it finds it.
ExpectedLateAcceptance(op) ==
  CASE op = "intake" -> {"absent"}
    [] op = "accept" -> {"coordinating"} \union Closed
    [] OTHER -> Open

\* The statuses the store's conditional write requires the row still to have.
Expected(op) ==
  CASE op = "intake" -> {"absent"} [] op = "accept" -> {"coordinating"} [] OTHER -> Open

Publishes(w) ==
  IF cmd[w].op = "intake" /\ ~cmd[w].refused THEN "created"
  ELSE IF cmd[w].op = "accept" THEN "dispatched"
  ELSE "closed"

Published(o, e) == [events EXCEPT ![o][e] = IF @ < EventCap THEN @ + 1 ELSE @]

StagedHold(w) ==
  CASE cmd[w].stage = "capture" -> AfterCapture(cmd[w].hold, Remaining(cmd[w].hold))
    [] cmd[w].stage = "void" -> AfterVoid(cmd[w].hold)
    [] OTHER -> NoHold

StagedLedger(w) == IF cmd[w].stage = "capture" THEN ledger \union {Charge(w)} ELSE ledger

\* UNIQUE (move_job_reference).
JobFree(j, o) == j = NoJob \/ \A p \in Order \ {o} : order[p].job # j

\* CHECK: which settlement a row of each status may claim.
Aligned(r) ==
  r.settlement \in CASE r.status \in Open -> {"none", "held"}
                     [] r.status = "completed" ->
                          {"none", "captured", "partially_captured", "unsettled"}
                     [] OTHER -> {"none", "released", "partially_captured", "unsettled"}

\* The statements run in this order: the hold and the ledger, whose immediate
\* constraints may throw; the conditional write, which a rival may have beaten
\* and the row's own constraints may refuse; and the deferred triggers.
\* Anything but success rolls all of it back.
Commit(w) ==
  /\ At(w, "commit")
  /\ LET c == cmd[w]
         o == c.order
         next == NextRow(w)
         staged == c.stage # "nothing"
         statements ==
           staged => Sound(StagedHold(w)) /\ (c.stage = "capture" => ~Recorded(ledger, Charge(w)))
         current == order[o].status \in Expected(c.op)
         triggers == staged => Agrees(StagedHold(w), HoldFor(w), StagedLedger(w))
     IN  IF statements /\ ~current
         THEN /\ cmd' = [cmd EXCEPT ![w] =
                   IF c.op = "intake" THEN NoCommand ELSE [@ EXCEPT !.step = "reread"]]
              /\ UNCHANGED <<order, money, events>>
         ELSE IF statements /\ Aligned(next) /\ JobFree(next.job, o) /\ triggers
         THEN /\ order' = [order EXCEPT ![o] = next]
              /\ hold' = IF staged THEN [hold EXCEPT ![HoldFor(w)] = StagedHold(w)] ELSE hold
              /\ ledger' = StagedLedger(w)
              /\ events' = Published(o, Publishes(w))
              /\ Finish(w)
         ELSE Finish(w) /\ UNCHANGED <<order, money, events>>
  /\ UNCHANGED <<lapsed, api, faults>>

\* TransitionLost: the answer is made from the row that won.
Reread(w) ==
  /\ At(w, "reread")
  /\ cmd' = [cmd EXCEPT ![w].row = order[cmd[w].order], ![w].step = "answer"]
  /\ UNCHANGED <<order, money, lapsed, events, api, faults>>

-----------------------------------------------------------------------------
(* Answering from a row that has moved on. *)

\* A completion for a cancelled fulfillment is recorded once, by a write that
\* is conditional on the marker's absence.
RecordsExecution(w) ==
  /\ cmd[w].op = "complete" /\ cmd[w].done
  /\ cmd[w].row.status = "cancelled" /\ cmd[w].row.marker = NoJob

MarkExecution(w) ==
  /\ At(w, "answer") /\ RecordsExecution(w)
  /\ LET o == cmd[w].order
     IN  IF order[o].status = "cancelled" /\ order[o].marker = NoJob
         THEN /\ order' = [order EXCEPT ![o].marker = cmd[w].job]
              /\ events' = Published(o, "executed_after_cancellation")
         ELSE UNCHANGED <<order, events>>
  /\ Finish(w)
  /\ UNCHANGED <<money, lapsed, api, faults>>

\* An acceptance for a cancelled fulfillment leaves its job for traceability.
\* The whole row is written back as it was read.
TracesJob(w) ==
  /\ cmd[w].op = "accept"
  /\ cmd[w].row.status = "cancelled" /\ cmd[w].row.job # cmd[w].job

TraceJob(w) ==
  /\ At(w, "answer") /\ TracesJob(w)
  /\ LET o == cmd[w].order
     IN  order' = IF JobFree(cmd[w].job, o)
                  THEN [order EXCEPT ![o] = [cmd[w].row EXCEPT !.job = cmd[w].job]]
                  ELSE order
  /\ Finish(w)
  /\ UNCHANGED <<money, lapsed, events, api, faults>>

\* Every other message is answered or refused without a write.
Reply(w) ==
  /\ At(w, "answer") /\ ~RecordsExecution(w) /\ ~TracesJob(w)
  /\ Finish(w)
  /\ UNCHANGED <<order, money, lapsed, events, api, faults>>

Crash(w) ==
  /\ ~Idle(w)
  /\ Finish(w)
  /\ UNCHANGED <<order, money, lapsed, events, api, faults>>

-----------------------------------------------------------------------------
(* The payment API on the same holds: capture, void, and the expiry sweep, *)
(* which voids.                                                            *)

CallCapture(h, key, a) ==
  /\ call = NoCommand /\ calls < MaxDirect
  /\ hold[h].status = "authorized"
  /\ call' = [op |-> "capture", step |-> "decide", hold |-> h, key |-> key, amount |-> a,
              row |-> hold[h]]
  /\ calls' = calls + 1
  /\ direct' = direct \union {h}
  /\ UNCHANGED <<order, money, lapsed, events, cmd, faults>>

CallVoid(h) ==
  /\ call = NoCommand /\ calls < MaxDirect
  /\ hold[h].status = "authorized"
  /\ call' = [op |-> "void", step |-> "commit", hold |-> h, key |-> Whole, amount |-> 0,
              row |-> hold[h]]
  /\ calls' = calls + 1
  /\ direct' = direct \union {h}
  /\ UNCHANGED <<order, money, lapsed, events, cmd, faults>>

CallEntry == Entry("capture", call.hold, call.key, call.amount)

CallDecides ==
  /\ call # NoCommand /\ call.step = "decide"
  /\ call' = IF ~Recorded(ledger, CallEntry)
                /\ MayCapture(call.row, call.hold \in lapsed, call.key, call.amount)
             THEN [call EXCEPT !.step = "commit"]
             ELSE NoCommand
  /\ UNCHANGED <<order, money, lapsed, events, cmd, calls, direct, faults>>

CallCommits ==
  /\ call # NoCommand /\ call.step = "commit"
  /\ LET capture == call.op = "capture"
         r == IF capture THEN AfterCapture(call.row, call.amount) ELSE AfterVoid(call.row)
         L == IF capture THEN ledger \union {CallEntry} ELSE ledger
     IN  IF Sound(r) /\ Agrees(r, call.hold, L) /\ (capture => ~Recorded(ledger, CallEntry))
         THEN hold' = [hold EXCEPT ![call.hold] = r] /\ ledger' = L
         ELSE UNCHANGED money
  /\ call' = NoCommand
  /\ UNCHANGED <<order, lapsed, events, cmd, calls, direct, faults>>

Next ==
  \/ \E h \in Hold :
       \/ Lapse(h)
       \/ \E key \in Key \union {Whole}, a \in Amount : CallCapture(h, key, a)
       \/ CallVoid(h)
  \/ CallDecides
  \/ CallCommits
  \/ \E w \in Worker :
       \/ \E o \in Order :
            \/ ReceiveOrder(w, o)
            \/ \E j \in Job : Accept(w, o, j) \/ \E done \in BOOLEAN : Complete(w, o, j, done)
            \/ Reject(w, o)
            \/ Cancel(w, o)
       \/ Inspect(w)
       \/ ReadHold(w)
       \/ ReadLedger(w)
       \/ Release(w)
       \/ ReadFails(w)
       \/ Commit(w)
       \/ Reread(w)
       \/ MarkExecution(w)
       \/ TraceJob(w)
       \/ Reply(w)
       \/ Crash(w)

Spec == Init /\ [][Next]_vars

-----------------------------------------------------------------------------

TypeOK ==
  /\ order \in [Order -> FulfillmentRow]
  /\ hold \in [Hold -> HoldRow]
  /\ \A e \in ledger : e.kind = "capture" /\ e.party \in Hold /\ e.amount \in Amount
  /\ lapsed \subseteq Hold
  /\ events \in [Order -> [Event -> 0..EventCap]]
  /\ cmd \in [Worker -> Command \union {NoCommand}]
  /\ call \in Call \union {NoCommand}
  /\ calls \in 0..MaxDirect
  /\ direct \subseteq Hold
  /\ faults \in 0..MaxFaults

\* Each lifecycle event is published once at most, and a closure event exists
\* exactly for the closed fulfillments, however many messages race to close one
\* ("a closing event may never describe an outcome that did not happen").
OneClosureEach ==
  \A o \in Order :
    /\ events[o]["created"] <= 1 /\ events[o]["dispatched"] <= 1
    /\ events[o]["closed"] = IF order[o].status \in Closed THEN 1 ELSE 0

\* While nobody calls the payment API for it and the port can be read, a hold that
\* one order declares is where its fulfillment says it is: captured, released or
\* still held, and never settled for work whose closure was rolled back.
MoneyFollowsExecution ==
  \A o \in Order :
    (HoldOf[o] # Unfunded /\ HoldOf[o] \notin direct
       /\ (\A p \in Order \ {o} : HoldOf[p] # HoldOf[o])
       /\ order[o].status # "absent" /\ hold[HoldOf[o]].status # "none")
      => LET r == hold[HoldOf[o]]
         IN  CASE order[o].settlement = "held" ->
                    order[o].status \in Open /\ r.status = "authorized"
               [] order[o].settlement = "captured" ->
                    order[o].status = "completed" /\ r.status = "captured"
               [] order[o].settlement = "released" ->
                    order[o].status \in {"failed", "cancelled"} /\ r.status = "voided"
               [] OTHER -> faults > 0 /\ order[o].status \in Closed

\* A closed fulfillment never reopens and never closes differently, and its
\* settlement state is never rewritten, by whatever late or stale message.
ClosureIsFinal ==
  [][\A o \in Order : order[o].status \in Closed =>
       /\ order'[o].status = order[o].status
       /\ order'[o].settlement = order[o].settlement]_vars

\* What a handler prices is a closure the database admits: no message is refused
\* by the alignment constraint for ever, whichever way its hold was found.
PricedIsAdmissible == \A w \in Worker : At(w, "commit") => Aligned(NextRow(w))

\* Payment API or not, completed and captured means that the whole hold moved,
\* and no message or call ever takes that back.
CapturedIsPaid ==
  \A o \in Order : order[o].settlement = "captured" =>
    /\ hold[HoldOf[o]].status = "captured"
    /\ Moved(ledger, "capture", HoldOf[o]) = hold[HoldOf[o]].amount

-----------------------------------------------------------------------------
(* What the comments say, which these steps do not keep. *)

\* Work executed after a cancellation is recorded and the question is not lost.
ExecutionStaysRecorded ==
  [][\A o \in Order : order[o].marker # NoJob => order'[o].marker # NoJob]_vars
=============================================================================
