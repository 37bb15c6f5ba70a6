------------------------------- MODULE Billing -------------------------------
(***************************************************************************)
(* Subscriptions: one plan, the agreements one owner makes to it, their    *)
(* periods, and the hold that pays for each period.  A command reads rows  *)
(* one at a time on the connection pool and then commits whole rows by id; *)
(* the database refuses a second period of one sequence, a second capture  *)
(* of one hold and a settled period whose money was not captured, and      *)
(* guards no other transition.  Amounts are 0, a free plan, or 1.          *)
(***************************************************************************)
EXTENDS FiniteSetsExt, Integers

CONSTANTS
  Agreement,   \* ids of subscriptions
  Biller,      \* processes that run a billing command
  NoJob,
  Report,      \* usage references
  MaxCommands, \* the bound on commands begun
  MaxUsage,    \* the bound on usage records
  MaxPeriods,  \* the bound on an agreement's periods
  MaxFunds,    \* the bound on what the wallet is credited
  Quota        \* the plan's limit on its metered feature

ASSUME BillingAssumption ==
  /\ MaxPeriods \in Nat \ {0}
  /\ MaxCommands \in Nat /\ MaxFunds \in Nat /\ MaxUsage \in Nat /\ Quota \in Nat

VARIABLES
  plan,       \* the plan row
  agreement,  \* each subscription's status
  period,     \* each period's status
  payment,    \* the authorization under each period's charge reference
  captures,   \* ledger entries that capture it
  funds,      \* what the wallet was credited
  elapsed,    \* how many of an agreement's periods have ended; -1 before the first starts
  usage,      \* usage records
  job,        \* what each biller's command has read
  begun,      \* how many commands were begun
  contested   \* whether two commands ever ran at the same time

bvars ==
  <<plan, agreement, period, payment, captures, funds, elapsed, usage, job, begun, contested>>

Sequence == 1..MaxPeriods
Period == Agreement \X Sequence

PlanRow == [status : {"none", "draft", "active", "retired"}, price : 0..1]
AgreementStatus == {"none", "active", "past_due", "cancelled", "expired"}
PeriodStatus == {"none", "pending", "settled", "uncollectible", "voided"}
PaymentStatus == {"none", "authorized", "captured", "voided"}

\* A subscription as a sweep listed it, with the clock of the sweep's start.
Candidate == [item : Agreement, status : AgreementStatus, at : -1..MaxPeriods]

Job ==
  [step : {"agree", "period", "owner", "authorize", "hold", "capture", "settle", "refuse",
           "cover", "cancel", "next", "renew", "expire"},
   item : Agreement, n : 0..MaxPeriods,
   seen : AgreementStatus,  \* the subscription's status as it was read
   staged : BOOLEAN,        \* whether the settlement carries a capture
   todo : SUBSET Candidate]

BInit ==
  /\ plan = [status |-> "none", price |-> 0]
  /\ agreement = [a \in Agreement |-> "none"]
  /\ period = [p \in Period |-> "none"]
  /\ payment = [p \in Period |-> "none"]
  /\ captures = [p \in Period |-> 0]
  /\ funds = 0
  /\ elapsed = [a \in Agreement |-> 0]
  /\ usage = {}
  /\ job = [b \in Biller |-> NoJob]
  /\ begun = 0
  /\ contested = FALSE

overlap == <<begun, contested>>

rows == <<plan, agreement, period, payment, captures, funds, elapsed, usage>>

-----------------------------------------------------------------------------
(* Plans. *)

CreatePlan(price) ==
  /\ plan.status = "none"
  /\ plan' = [status |-> "draft", price |-> price]
  /\ UNCHANGED <<agreement, period, payment, captures, funds, elapsed, usage, job, overlap>>

\* A plan has grants from its creation on; one without any could not be activated.
ActivatePlan ==
  /\ plan.status = "draft"
  /\ plan' = [plan EXCEPT !.status = "active"]
  /\ UNCHANGED <<agreement, period, payment, captures, funds, elapsed, usage, job, overlap>>

RetirePlan ==
  /\ plan.status = "active"
  /\ plan' = [plan EXCEPT !.status = "retired"]
  /\ UNCHANGED <<agreement, period, payment, captures, funds, elapsed, usage, job, overlap>>

-----------------------------------------------------------------------------
(* A command's life. *)

On(b, step) == job[b] # NoJob /\ job[b].step = step

Begin(b, j) ==
  /\ job[b] = NoJob
  /\ begun < MaxCommands
  /\ begun' = begun + 1
  /\ job' = [job EXCEPT ![b] = j]
  /\ contested' = (contested \/ \E c \in Biller : job[c] # NoJob)
  /\ UNCHANGED rows

\* The command throws, or its process dies: what it committed stays.
Abort(b) == job' = [job EXCEPT ![b] = NoJob]

GoTo(b, step) == job' = [job EXCEPT ![b].step = step]

\* A charge returns: to its caller, or to the sweep it was a part of.
Return(b) == IF job[b].todo = {} THEN Abort(b) ELSE GoTo(b, "next")

Dies(b) ==
  /\ job[b] # NoJob
  /\ Abort(b)
  /\ UNCHANGED <<rows, overlap>>

Charge(a, n) ==
  [step |-> "period", item |-> a, n |-> n, seen |-> "none", staged |-> FALSE, todo |-> {}]

-----------------------------------------------------------------------------
(* subscribe *)

Live(a) == agreement[a] \in {"active", "past_due"}

\* The plan is on offer and the owner has no live agreement to it.
StartSubscribe(b, a) ==
  /\ agreement[a] = "none"
  /\ plan.status = "active"
  /\ ~\E other \in Agreement : Live(other)
  /\ Begin(b, [Charge(a, 1) EXCEPT !.step = "agree"])

\* The database refuses an agreement to a plan retired meanwhile.
Subscribable(a) == plan.status = "active" /\ agreement[a] = "none"

\* The subscription and its first period; starts_at may lie in the future.
CommitSubscribe(b, start) ==
  /\ On(b, "agree")
  /\ LET a == job[b].item
     IN  IF Subscribable(a)
         THEN /\ agreement' = [agreement EXCEPT ![a] = "active"]
              /\ period' = [period EXCEPT ![<<a, 1>>] = "pending"]
              /\ elapsed' = [elapsed EXCEPT ![a] = start]
              /\ GoTo(b, "period")
         ELSE /\ Abort(b)
              /\ UNCHANGED <<agreement, period, elapsed>>
  /\ UNCHANGED <<plan, payment, captures, funds, usage, overlap>>

-----------------------------------------------------------------------------
(* chargePeriod *)

Charged(b) == <<job[b].item, job[b].n>>

\* A collection begins with that read; a settled or voided period ends it there.
StartCollect(b, a, n) ==
  /\ period[<<a, n>>] \in {"pending", "uncollectible"}
  /\ Begin(b, [Charge(a, n) EXCEPT !.step = "owner"])

\* Settled: answered.  Voided: refused, with whatever command was charging.
ReadPeriod(b) ==
  /\ On(b, "period")
  /\ CASE period[Charged(b)] = "settled" -> Return(b)
       [] period[Charged(b)] = "voided" -> Abort(b)
       [] OTHER -> GoTo(b, "owner")
  /\ UNCHANGED <<rows, overlap>>

ReadAgreement(b) ==
  /\ On(b, "owner")
  /\ job' = [job EXCEPT ![b].seen = agreement[job[b].item],
                        ![b].step = IF plan.price = 0 THEN "settle" ELSE "authorize"]
  /\ UNCHANGED <<rows, overlap>>

\* A free wallet balance: what was credited, less what is captured or held.
Available ==
  funds - MapThenSumSet(LAMBDA p : captures[p], Period)
        - Cardinality({p \in Period : payment[p] = "authorized"})

\* The hold a crashed attempt left is found by its reference.
AuthorizeCharge(b) ==
  /\ On(b, "authorize")
  /\ GoTo(b, CASE payment[Charged(b)] # "none" -> "capture"
               [] payment[Charged(b)] = "none" /\ Available >= plan.price -> "hold"
               [] OTHER -> "refuse")
  /\ UNCHANGED <<rows, overlap>>

TakeHold(b) ==
  /\ On(b, "hold")
  /\ IF payment[Charged(b)] = "none"
     THEN payment' = [payment EXCEPT ![Charged(b)] = "authorized"] /\ GoTo(b, "capture")
     ELSE UNCHANGED payment /\ Abort(b)
  /\ UNCHANGED <<plan, agreement, period, captures, funds, elapsed, usage, overlap>>

\* captureWithin: an open hold is to be captured, a captured one was already, a
\* voided one cannot be.
CaptureWithin(b) ==
  /\ On(b, "capture")
  /\ job' = [job EXCEPT ![b].step = IF payment[Charged(b)] = "voided" THEN "refuse" ELSE "settle",
                        ![b].staged = (payment[Charged(b)] = "authorized")]
  /\ UNCHANGED <<rows, overlap>>

\* A mutant: the period is settled, its capture left to a transaction of its own.
SettleFirst(b) ==
  /\ On(b, "settle")
  /\ period' = [period EXCEPT ![Charged(b)] = "settled"]
  /\ Return(b)
  /\ UNCHANGED <<plan, agreement, payment, captures, funds, elapsed, usage, overlap>>

\* A mutant: a capture whose reference the ledger does not check.
SettleAgain(b) ==
  /\ On(b, "settle")
  /\ period' = [period EXCEPT ![Charged(b)] = "settled"]
  /\ payment' = [payment EXCEPT ![Charged(b)] = IF job[b].staged THEN "captured" ELSE @]
  /\ captures' = [captures EXCEPT ![Charged(b)] = IF job[b].staged THEN @ + 1 ELSE @]
  /\ Return(b)
  /\ UNCHANGED <<plan, agreement, funds, elapsed, usage, overlap>>

\* A mutant: any agreement that pays is active again.
RevivedByAny(seen, status) == IF seen # "active" THEN "active" ELSE status

\* Collecting clears past_due, from the status that was read.
Revived(seen, status) == IF seen = "past_due" THEN "active" ELSE status

\* The period settled and its money captured, in one transaction.  The ledger
\* refuses a second capture; the hold is captured even if it was voided since.
SettlePeriod(b) ==
  /\ On(b, "settle")
  /\ LET p == Charged(b)
     IN  IF job[b].staged /\ captures[p] > 0
         THEN /\ Abort(b)
              /\ UNCHANGED <<agreement, period, payment, captures>>
         ELSE /\ period' = [period EXCEPT ![p] = "settled"]
              /\ payment' = [payment EXCEPT ![p] = IF job[b].staged THEN "captured" ELSE @]
              /\ captures' = [captures EXCEPT ![p] = IF job[b].staged THEN 1 ELSE @]
              /\ agreement' = [agreement EXCEPT ![job[b].item] = Revived(job[b].seen, @)]
              /\ Return(b)
  /\ UNCHANGED <<plan, funds, elapsed, usage, overlap>>

\* A refused charge: the period is uncollectible and an active agreement past due.
MarkUncollectible(b) ==
  /\ On(b, "refuse")
  /\ period' = [period EXCEPT ![Charged(b)] = "uncollectible"]
  /\ agreement' = [agreement EXCEPT ![job[b].item] =
                     IF job[b].seen = "active" THEN "past_due" ELSE @]
  /\ Return(b)
  /\ UNCHANGED <<plan, payment, captures, funds, elapsed, usage, overlap>>

-----------------------------------------------------------------------------
(* cancelSubscription *)

\* The period that covers this instant, or 0.
Covering(a) ==
  IF elapsed[a] \in 0..(MaxPeriods - 1) /\ period[<<a, elapsed[a] + 1>>] # "none"
  THEN elapsed[a] + 1
  ELSE 0

StartCancel(b, a) ==
  /\ Live(a)
  /\ Begin(b, [Charge(a, 0) EXCEPT !.step = "cover"])

\* A mutant: a paid period too.
AnyCovering(a) == Covering(a)

\* The covering period, if it was never collected, or 0.
Voidable(a) ==
  LET n == Covering(a)
  IN  IF n # 0 /\ period[<<a, n>>] # "settled" THEN n ELSE 0

FindCovering(b) ==
  /\ On(b, "cover")
  /\ job' = [job EXCEPT ![b].step = "cancel", ![b].n = Voidable(job[b].item)]
  /\ UNCHANGED <<rows, overlap>>

CommitCancel(b) ==
  /\ On(b, "cancel")
  /\ agreement' = [agreement EXCEPT ![job[b].item] = "cancelled"]
  /\ period' = [p \in Period |-> IF p = Charged(b) THEN "voided" ELSE period[p]]
  /\ Abort(b)
  /\ UNCHANGED <<plan, payment, captures, funds, elapsed, usage, overlap>>

-----------------------------------------------------------------------------
(* renewDuePeriods *)

StartSweep(b) ==
  LET listed == {a \in Agreement : agreement[a] \in {"active", "past_due", "cancelled"}}
  IN  \E a \in listed :
        Begin(b, [Charge(a, 0) EXCEPT !.step = "next",
          !.todo = {[item |-> x, status |-> agreement[x], at |-> elapsed[x]] : x \in listed}])

Latest(a) == Cardinality({n \in Sequence : period[<<a, n>>] # "none"})

\* Whether the last period had ended when the sweep began.
Due(latest, at) == latest <= at

\* The next subscription of the sweep: not due, to be expired, or to be renewed.
RenewNext(b) ==
  /\ On(b, "next")
  /\ \E t \in job[b].todo :
       LET n == Latest(t.item)
           rest == job[b].todo \ {t}
           go(step, m) == [Charge(t.item, m) EXCEPT !.step = step, !.todo = rest]
       IN  job' = [job EXCEPT ![b] =
             CASE Due(n, t.at) /\ t.status = "cancelled" -> go("expire", 0)
               [] Due(n, t.at) /\ t.status # "cancelled" /\ n < MaxPeriods -> go("renew", n + 1)
               [] OTHER -> IF rest = {} THEN NoJob ELSE go("next", 0)]
  /\ UNCHANGED <<rows, overlap>>

\* No period of the agreement has the sequence number or overlaps the time.
PeriodInsertable(p) == period[p] = "none"

\* The next period.  One that another sweep opened first ends this sweep.
OpenPeriod(b) ==
  /\ On(b, "renew")
  /\ IF PeriodInsertable(Charged(b))
     THEN period' = [period EXCEPT ![Charged(b)] = "pending"] /\ GoTo(b, "period")
     ELSE UNCHANGED period /\ Abort(b)
  /\ UNCHANGED <<plan, agreement, payment, captures, funds, elapsed, usage, overlap>>

ExpireSubscription(b) ==
  /\ On(b, "expire")
  /\ agreement' = [agreement EXCEPT ![job[b].item] = "expired"]
  /\ Return(b)
  /\ UNCHANGED <<plan, period, payment, captures, funds, elapsed, usage, overlap>>

-----------------------------------------------------------------------------
(* Usage and entitlement. *)

UsageTotal(a, n) == Cardinality({u \in usage : u[1] = a /\ u[2] = n})

\* The database looks at the period again when a record is inserted.
UsageInsertable(a) == Covering(a) # 0 /\ period[<<a, Covering(a)>>] # "voided"

\* Usage at this instant; a reference the period already has is answered, not added.
RecordUsage(a, ref) ==
  /\ UsageInsertable(a)
  /\ Cardinality(usage) < MaxUsage
  /\ usage' = usage \union {<<a, Covering(a), ref>>}
  /\ UNCHANGED <<plan, agreement, period, payment, captures, funds, elapsed, job, overlap>>

PeriodIsPaid(p) == period[p] = "settled"

\* decideEntitlement, for one unit of the metered feature.
DecideEntitlement(status, paid, used) ==
  status \in {"active", "cancelled"} /\ paid /\ used < Quota

\* checkEntitlement, of one of the owner's agreements, at this instant.
Entitles(a) ==
  LET n == Covering(a)
  IN  n # 0 /\ DecideEntitlement(agreement[a], PeriodIsPaid(<<a, n>>), UsageTotal(a, n))

-----------------------------------------------------------------------------
(* What happens around it. *)

Deposit ==
  /\ funds < MaxFunds
  /\ funds' = funds + 1
  /\ UNCHANGED <<plan, agreement, period, payment, captures, elapsed, usage, job, overlap>>

\* The hold is released through the money module.
ReleaseHold(p) ==
  /\ payment[p] = "authorized"
  /\ payment' = [payment EXCEPT ![p] = "voided"]
  /\ UNCHANGED <<plan, agreement, period, captures, funds, elapsed, usage, job, overlap>>

\* The agreement's first period starts, or its last one ends.
Passes(a) ==
  /\ agreement[a] # "none"
  /\ elapsed[a] < Latest(a)
  /\ elapsed' = [elapsed EXCEPT ![a] = @ + 1]
  /\ UNCHANGED <<plan, agreement, period, payment, captures, funds, usage, job, overlap>>

ChargeStep(b) ==
  \/ ReadPeriod(b)
  \/ ReadAgreement(b)
  \/ AuthorizeCharge(b)
  \/ TakeHold(b)
  \/ CaptureWithin(b)
  \/ SettlePeriod(b)
  \/ MarkUncollectible(b)

BNext ==
  \/ \E price \in 0..1 : CreatePlan(price)
  \/ ActivatePlan
  \/ RetirePlan
  \/ \E b \in Biller :
       \/ \E a \in Agreement :
            \/ StartSubscribe(b, a)
            \/ StartCancel(b, a)
            \/ \E n \in Sequence : StartCollect(b, a, n)
       \/ \E start \in {-1, 0} : CommitSubscribe(b, start)
       \/ StartSweep(b)
       \/ ChargeStep(b)
       \/ FindCovering(b)
       \/ CommitCancel(b)
       \/ RenewNext(b)
       \/ OpenPeriod(b)
       \/ ExpireSubscription(b)
       \/ Dies(b)
  \/ \E a \in Agreement, ref \in Report : RecordUsage(a, ref)
  \/ Deposit
  \/ \E p \in Period : ReleaseHold(p)
  \/ \E a \in Agreement : Passes(a)

BSpec == BInit /\ [][BNext]_bvars

-----------------------------------------------------------------------------

BTypeOK ==
  /\ plan \in PlanRow
  /\ agreement \in [Agreement -> AgreementStatus]
  /\ period \in [Period -> PeriodStatus]
  /\ payment \in [Period -> PaymentStatus]
  /\ captures \in [Period -> 0..1]
  /\ funds \in 0..MaxFunds
  /\ elapsed \in [Agreement -> -1..MaxPeriods]
  /\ usage \subseteq Agreement \X Sequence \X Report
  /\ job \in [Biller -> Job \union {NoJob}]
  /\ begun \in 0..MaxCommands
  /\ contested \in BOOLEAN

\* Whatever commands overlap and wherever they die, a period the owner is
\* entitled by was paid for: its price is captured in the ledger, once.
EntitledHasPaid ==
  \A a \in Agreement : Entitles(a) => captures[<<a, Covering(a)>>] = plan.price

\* No period's price is captured twice, by any number of collections, sweeps and
\* retries of them.
PeriodPaidOnce == \A p \in Period : captures[p] <= plan.price

\* "A period that reads `settled` with no capture behind it, or a capture with no
\* period explaining it, is the one thing a billing system may never produce."
CaptureIsExplained ==
  \A p \in Period : (period[p] = "settled" /\ plan.price = 1) <=> captures[p] = 1

\* As long as no two billing commands overlapped, that is so: through crashes
\* between the hold and the settlement, retries, released holds, cancellations.
UncontestedBillsAgree == ~contested => CaptureIsExplained

Ended == {"cancelled", "expired"}

\* "A cancelled subscription paying its final period does not become active again."
\* An agreement that has ended is live again in one way only: a charge that read it
\* while it was live, and that other commands have overtaken, writes its status back.
\* No charge that read it ended does it, and no sweep, renewal or retry.
CancellationStands ==
  [][\A a \in Agreement :
       agreement[a] \in Ended /\ agreement'[a] \notin Ended
         => /\ contested
            /\ \E b \in Biller : /\ On(b, "settle") \/ On(b, "refuse")
                               /\ job[b].item = a /\ job[b].seen \notin Ended]_bvars
=============================================================================
