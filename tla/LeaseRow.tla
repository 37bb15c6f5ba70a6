------------------------------- MODULE LeaseRow -------------------------------
(***************************************************************************)
(* One row of a durable work queue.  `outbox`, `inbound_event` and         *)
(* `event_delivery` share this shape and these transitions; a relay, a     *)
(* dispatcher or a delivery worker applies them to its own table.          *)
(*                                                                         *)
(* Time is relative.  `wait` is next_attempt_at minus the clock, so time   *)
(* passing lowers it and the row is due once it is 0 or less.  A worker    *)
(* reads the clock once per drain and uses that reading throughout: `age`  *)
(* is how old the reading is, so "next_attempt_at <= now" is               *)
(* wait + age <= 0 and "now + d" is a wait of d - age.                     *)
(*                                                                         *)
(* Horizon bounds how late the model distinguishes: a row that has been    *)
(* due for Horizon, or a clock reading that old, does not get older.       *)
(***************************************************************************)
EXTENDS Integers, FiniteSets

CONSTANTS
  Token,        \* claim tokens: an unbounded supply of uuids in the code
  NoToken,      \* null, in a row and as the fence of a caller with no claim
  Lease,        \* how long a claim lasts
  RetryDelay,   \* how long to wait after the n-th observed failure
  MaxAttempts,  \* observed failures before the row is dead-lettered
  MaxReclaims,  \* abandoned claims a row survives
  Horizon

ASSUME NoTokenAssumption == NoToken \notin Token
ASSUME TimingAssumption == Lease \in Nat /\ Horizon \in Nat
ASSUME BudgetAssumption == MaxAttempts \in Nat \ {0} /\ MaxReclaims \in Nat
ASSUME DelayAssumption == RetryDelay \in [0..MaxAttempts -> Nat]

-----------------------------------------------------------------------------

Row(done) ==
  [status : {"absent", "pending", "dead", done}, attempts : Nat, reclaims : Nat, wait : Int,
   claimed : BOOLEAN, token : Token \union {NoToken}]

Absent ==
  [status |-> "absent", attempts |-> 0, reclaims |-> 0, wait |-> 0,
   claimed |-> FALSE, token |-> NoToken]

NewRow == [Absent EXCEPT !.status = "pending"]

Terminal(r, done) == r.status \in {done, "dead"}

Due(r, age) == r.wait + age <= 0

Claimable(r, age) == r.status = "pending" /\ ~r.claimed /\ Due(r, age)

\* A mutant: expired claims are never looked for.
NeverAbandoned(r, age) == FALSE

Abandoned(r, age) == r.status = "pending" /\ r.claimed /\ Due(r, age)

Held(r, token) == [r EXCEPT !.claimed = TRUE, !.token = token]

Unclaimed(r) == [r EXCEPT !.claimed = FALSE, !.token = NoToken]

DueIn(r, delay, age) == [r EXCEPT !.wait = delay - age]

Claim(r, age, token) == DueIn(Held(r, token), Lease, age)

\* A mutant: the budget is compared before the abandonment is counted.
ReclaimsOnceTooOften(r, age) ==
  LET freed == [Unclaimed(r) EXCEPT !.reclaims = @ + 1]
  IN  IF r.reclaims > MaxReclaims
      THEN [freed EXCEPT !.status = "dead"]
      ELSE DueIn(freed, 0, age)

\* A mutant: an abandonment counts as an observed failure and leaves its token.
ReclaimsAsAFailure(r, age) ==
  DueIn([r EXCEPT !.claimed = FALSE, !.attempts = @ + 1, !.reclaims = @ + 1], 0, age)

\* The claim is taken back and its budget charged: the row is due at once,
\* or dead when the budget is spent.
Reclaim(r, age) ==
  LET freed == [Unclaimed(r) EXCEPT !.reclaims = @ + 1]
  IN  IF r.reclaims + 1 > MaxReclaims
      THEN [freed EXCEPT !.status = "dead"]
      ELSE DueIn(freed, 0, age)

\* A mutant: acknowledgements go by id alone.
AcceptsAnyone(r, fence) == TRUE

\* An acknowledgement is accepted from the holder of the row's present claim,
\* or from a caller that presents no fence at all.  The status is not looked at.
Accepts(r, fence) == fence = NoToken \/ r.token = fence

MarkDone(r, done) == [Unclaimed(r) EXCEPT !.status = done]

\* The delays the workers use: a base delay, doubled at each failure.
Doubling(base) == [n \in 0..MaxAttempts |-> base * 2^n]

MarkFailed(r, age, attempts) ==
  DueIn([Unclaimed(r) EXCEPT !.attempts = @ + 1], RetryDelay[attempts], age)

MarkDead(r) == [Unclaimed(r) EXCEPT !.attempts = @ + 1, !.status = "dead"]

\* Observed failures are kept and abandonments forgotten.
Revive(r) == DueIn([Unclaimed(r) EXCEPT !.status = "pending", !.reclaims = 0], 0, 0)

Older(r) == [r EXCEPT !.wait = IF @ > -Horizon THEN @ - 1 ELSE @]

\* What `order by next_attempt_at ... limit n` may return from the rows R:
\* the n that have been due the longest.  Rows due at the same instant are
\* ordered by creation and then by a random id, so any of them may come first.
InDueOrder(row, R, n) ==
  {S \in SUBSET R :
     /\ Cardinality(S) = IF Cardinality(R) < n THEN Cardinality(R) ELSE n
     /\ \A i \in S, j \in R \ S : row[i].wait <= row[j].wait}

\* Who can settle a row, given the workers whose records carry its token:
\* nobody while it is unclaimed, and a worker that is gone if there are none.
OwnerOf(claimed, holders) ==
  IF ~claimed THEN "nobody" ELSE IF holders = {} THEN "lost" ELSE CHOOSE w \in holders : TRUE
=============================================================================
