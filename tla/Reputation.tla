----------------------------- MODULE Reputation -----------------------------
(***************************************************************************)
(* Reputation signals about one subject.  Reports and retractions arrive   *)
(* as events, each any number of times and in any order.  A report is one  *)
(* conditional insert; a retraction reads the signal and then updates it   *)
(* on condition that it still stands; each commits with the event that     *)
(* announces it or not at all.  The standing is derived on every read.     *)
(***************************************************************************)
EXTENDS FiniteSetsExt, Integers

CONSTANTS
  Source,     \* a producer's references
  Consumer,   \* deliveries handled at one time
  NoReport,
  Rating      \* the ratings given, some of MIN_RATING..MAX_RATING

ASSUME RatingAssumption == Rating \subseteq 1..5
ASSUME SourceAssumption == IsFiniteSet(Source)

VARIABLES
  signal,       \* the reputation_signal row of each reference
  retracting,   \* the reference each consumer read as standing
  announced,    \* core.reputation.signal_recorded events, by reference
  withdrawn     \* core.reputation.signal_retracted events

svars == <<signal, retracting, announced, withdrawn>>

RatedKind == "service_rating"
Kind == {RatedKind, "completion", "cancellation", "dispute", "compliment", "complaint"}
Unrated == 0

\* Only a rating carries a number, and it always does.
RatingShapeIsValid(kind, value) == IF kind = RatedKind THEN value \in Rating ELSE value = Unrated

SignalRow == [status : {"none", "standing", "retracted"}, kind : Kind, value : Rating \union {Unrated}]

NoSignal == [status |-> "none", kind |-> RatedKind, value |-> Unrated]

SInit ==
  /\ signal = [r \in Source |-> NoSignal]
  /\ retracting = [c \in Consumer |-> NoReport]
  /\ announced = [r \in Source |-> 0]
  /\ withdrawn = [r \in Source |-> 0]

\* on conflict do nothing; a duplicate unwinds the event with it.
InsertIfAbsent(r, row) ==
  IF signal[r].status = "none"
  THEN /\ signal' = [signal EXCEPT ![r] = row]
       /\ announced' = [announced EXCEPT ![r] = @ + 1]
  ELSE UNCHANGED <<signal, announced>>

RecordSignal(r, kind, value) ==
  /\ RatingShapeIsValid(kind, value)
  /\ InsertIfAbsent(r, [status |-> "standing", kind |-> kind, value |-> value])
  /\ UNCHANGED <<retracting, withdrawn>>

\* Nothing standing to withdraw is answered, and nothing of it is kept.
RetractRead(c, r) ==
  /\ retracting[c] = NoReport
  /\ signal[r].status = "standing"
  /\ retracting' = [retracting EXCEPT ![c] = r]
  /\ UNCHANGED <<signal, announced, withdrawn>>

\* A mutant: by reference alone.
AnyRow(row) == TRUE

RetractIfStanding(row) == row.status = "standing"

\* A stale retraction unwinds its event.
RetractCommit(c) ==
  /\ retracting[c] # NoReport
  /\ LET r == retracting[c]
     IN  IF RetractIfStanding(signal[r])
         THEN /\ signal' = [signal EXCEPT ![r].status = "retracted"]
              /\ withdrawn' = [withdrawn EXCEPT ![r] = @ + 1]
         ELSE UNCHANGED <<signal, withdrawn>>
  /\ retracting' = [retracting EXCEPT ![c] = NoReport]
  /\ UNCHANGED announced

\* The consumer dies or its transaction fails; the event will be delivered again.
RetractFails(c) ==
  /\ retracting[c] # NoReport
  /\ retracting' = [retracting EXCEPT ![c] = NoReport]
  /\ UNCHANGED <<signal, announced, withdrawn>>

SNext ==
  \/ \E r \in Source, kind \in {RatedKind, "dispute"}, value \in Rating \union {Unrated} :
       RecordSignal(r, kind, value)
  \/ \E c \in Consumer :
       \/ \E r \in Source : RetractRead(c, r)
       \/ RetractCommit(c)
       \/ RetractFails(c)

SSpec == SInit /\ [][SNext]_svars

-----------------------------------------------------------------------------
(* The standing. *)

Stands(row) == row.status = "standing"

\* A `+=` loop, or SUM().
SumOver(v, S) == MapThenSumSet(LAMBDA x : v[x], S)

\* One kind's signals, as groupSignals and the database's group by return them.
KindGroup(kind) ==
  LET of == {r \in Source : signal[r].status # "none" /\ signal[r].kind = kind}
      stand == {r \in of : Stands(signal[r])}
      rated == {r \in stand : kind = RatedKind}
  IN  [standing |-> Cardinality(stand), retracted |-> Cardinality(of \ stand),
       ratings |-> Cardinality(rated), sum |-> SumOver([r \in rated |-> signal[r].value], rated)]

\* Integer thousandths, rounded once.
AverageMilli(sum, count) == IF count = 0 THEN Unrated ELSE (2000 * sum + count) \div (2 * count)

DeriveStanding ==
  LET group == [kind \in Kind |-> KindGroup(kind)]
      ratings == SumOver([kind \in Kind |-> group[kind].ratings], Kind)
      sum == SumOver([kind \in Kind |-> group[kind].sum], Kind)
  IN  [signals |-> SumOver([kind \in Kind |-> group[kind].standing + group[kind].retracted], Kind),
       retracted |-> SumOver([kind \in Kind |-> group[kind].retracted], Kind),
       counts |-> [kind \in Kind |-> group[kind].standing],
       ratings |-> ratings, sum |-> sum, average |-> AverageMilli(sum, ratings)]

-----------------------------------------------------------------------------

STypeOK ==
  /\ signal \in [Source -> SignalRow]
  /\ retracting \in [Consumer -> Source \union {NoReport}]
  /\ announced \in [Source -> 0..1]
  /\ withdrawn \in [Source -> 0..1]

\* A listener that adds every announced signal and takes away every withdrawn one
\* arrives at the standing CORE reports, whatever was delivered twice, crossed or
\* failed half way: every change is announced, once, and nothing else is.
ListenersAgree ==
  LET heard == [r \in Source |-> announced[r] - withdrawn[r]]
      rated == {r \in Source : signal[r].kind = RatedKind}
      standing == DeriveStanding
  IN  /\ standing.signals = SumOver(announced, Source)
      /\ standing.retracted = SumOver(withdrawn, Source)
      /\ standing.sum = SumOver([r \in Source |-> heard[r] * signal[r].value], Source)
      /\ standing.ratings = SumOver(heard, rated)
=============================================================================
