--------------------------- MODULE LeaseRowProofs ---------------------------
(***************************************************************************)
(* What each write leaves in a row, for every queue that leases rows: the  *)
(* facts the proofs about the outbox, the deliveries and the inbound       *)
(* events all cite.                                                        *)
(***************************************************************************)
EXTENDS LeaseRow, FiniteSetTheorems, TLAPS

-----------------------------------------------------------------------------
(* What each write leaves in a row. *)

SameClaim(r, s) == s.claimed = r.claimed /\ s.token = r.token
SameHistory(r, s) == s.status = r.status /\ s.attempts = r.attempts /\ s.reclaims = r.reclaims
IsFree(r) == r.claimed = FALSE /\ r.token = NoToken

\* A row that is not there is blank, and a new one is pending and free.
LEMMA BlankRow ==
  ASSUME NEW done
  PROVE  /\ Absent \in Row(done) /\ IsFree(Absent) /\ Absent.status = "absent"
         /\ Absent.attempts = 0 /\ Absent.reclaims = 0
         /\ NewRow \in Row(done) /\ IsFree(NewRow) /\ NewRow.status = "pending"
         /\ NewRow.attempts = 0 /\ NewRow.reclaims = 0
<1>1. /\ Absent \in Row(done) /\ IsFree(Absent) /\ Absent.status = "absent"
      /\ Absent.attempts = 0 /\ Absent.reclaims = 0
  BY DEF Absent, Row, IsFree
<1>2. NewRow = [Absent EXCEPT !.status = "pending"]
  BY DEF NewRow
<1>3. /\ NewRow \in Row(done) /\ IsFree(NewRow) /\ NewRow.status = "pending"
      /\ NewRow.attempts = 0 /\ NewRow.reclaims = 0
  BY <1>1, <1>2 DEF Row, IsFree
<1> QED
  BY <1>1, <1>3

\* Taking a row sets its claim and its token only.
LEMMA HeldRow ==
  ASSUME NEW done, NEW r, r \in Row(done), NEW t \in Token
  PROVE  /\ Held(r, t) \in Row(done)
         /\ Held(r, t).claimed = TRUE /\ Held(r, t).token = t
         /\ SameHistory(r, Held(r, t))
BY DEF Row, Held, SameHistory

\* Freeing a row clears its claim and its token only.
LEMMA UnclaimedRow ==
  ASSUME NEW done, NEW r, r \in Row(done)
  PROVE  /\ Unclaimed(r) \in Row(done)
         /\ IsFree(Unclaimed(r))
         /\ SameHistory(r, Unclaimed(r))
BY DEF Row, Unclaimed, SameHistory, IsFree

\* Rescheduling a row sets its wait only.
LEMMA DueInRow ==
  ASSUME NEW done, NEW r, r \in Row(done), NEW d \in Int, NEW a \in Int
  PROVE  /\ DueIn(r, d, a) \in Row(done)
         /\ SameClaim(r, DueIn(r, d, a))
         /\ SameHistory(r, DueIn(r, d, a))
BY DEF Row, DueIn, SameClaim, SameHistory

\* A claimed row is the row it was, with the claim on it.
LEMMA ClaimRow ==
  \A done, r, t, a :
    r \in Row(done) /\ t \in Token /\ a \in Nat =>
      /\ Claim(r, a, t) \in Row(done)
      /\ Claim(r, a, t).claimed = TRUE /\ Claim(r, a, t).token = t
      /\ SameHistory(r, Claim(r, a, t))
<1> SUFFICES ASSUME NEW done, NEW r, NEW t, NEW a, r \in Row(done), t \in Token, a \in Nat
             PROVE  /\ Claim(r, a, t) \in Row(done)
                    /\ Claim(r, a, t).claimed = TRUE /\ Claim(r, a, t).token = t
                    /\ SameHistory(r, Claim(r, a, t))
  OBVIOUS
<1> DEFINE h == Held(r, t)
<1>1. h \in Row(done) /\ h.claimed = TRUE /\ h.token = t /\ SameHistory(r, h)
  BY HeldRow
<1>2. Lease \in Int /\ a \in Int
  BY TimingAssumption
<1>3. Claim(r, a, t) = DueIn(h, Lease, a)
  BY DEF Claim
<1> HIDE DEF h
<1>4. /\ DueIn(h, Lease, a) \in Row(done)
      /\ SameClaim(h, DueIn(h, Lease, a))
      /\ SameHistory(h, DueIn(h, Lease, a))
  BY <1>1, <1>2, DueInRow
<1> QED
  BY <1>1, <1>3, <1>4 DEF SameClaim, SameHistory

\* A recovered row is free, is charged one abandonment, and is dead exactly
\* when that overdraws the budget.
LEMMA ReclaimRow ==
  ASSUME NEW done, NEW r, r \in Row(done), NEW a \in Nat
  PROVE  /\ Reclaim(r, a) \in Row(done)
         /\ IsFree(Reclaim(r, a))
         /\ Reclaim(r, a).attempts = r.attempts
         /\ Reclaim(r, a).reclaims = r.reclaims + 1
         /\ Reclaim(r, a).status = IF r.reclaims + 1 > MaxReclaims THEN "dead" ELSE r.status
<1> DEFINE u == Unclaimed(r)
           freed == [u EXCEPT !.reclaims = @ + 1]
           dead == [freed EXCEPT !.status = "dead"]
<1>1. u \in Row(done) /\ IsFree(u) /\ SameHistory(r, u)
  BY UnclaimedRow
<1> HIDE DEF u
<1>2. /\ freed \in Row(done)
      /\ IsFree(freed)
      /\ freed.attempts = r.attempts
      /\ freed.reclaims = r.reclaims + 1
      /\ freed.status = r.status
  BY <1>1 DEF Row, IsFree, SameHistory
<1> HIDE DEF freed
<1>3. /\ dead \in Row(done)
      /\ IsFree(dead)
      /\ dead.attempts = r.attempts
      /\ dead.reclaims = r.reclaims + 1
      /\ dead.status = "dead"
  BY <1>2 DEF Row, IsFree
<1>4. /\ DueIn(freed, 0, a) \in Row(done)
      /\ SameClaim(freed, DueIn(freed, 0, a))
      /\ SameHistory(freed, DueIn(freed, 0, a))
  BY <1>2, DueInRow
<1>5. Reclaim(r, a) = IF r.reclaims + 1 > MaxReclaims THEN dead ELSE DueIn(freed, 0, a)
  BY DEF Reclaim, freed, u
<1> HIDE DEF dead
<1> QED
  BY <1>2, <1>3, <1>4, <1>5 DEF SameClaim, SameHistory, IsFree

\* An observed failure frees the row and charges one attempt.
LEMMA FailedRow ==
  ASSUME NEW done, NEW r, r \in Row(done), NEW a \in Nat, NEW n \in 0..MaxAttempts
  PROVE  /\ MarkFailed(r, a, n) \in Row(done)
         /\ IsFree(MarkFailed(r, a, n))
         /\ MarkFailed(r, a, n).attempts = r.attempts + 1
         /\ MarkFailed(r, a, n).reclaims = r.reclaims
         /\ MarkFailed(r, a, n).status = r.status
<1> DEFINE u == Unclaimed(r)
           charged == [u EXCEPT !.attempts = @ + 1]
<1>1. u \in Row(done) /\ IsFree(u) /\ SameHistory(r, u)
  BY UnclaimedRow
<1> HIDE DEF u
<1>2. /\ charged \in Row(done)
      /\ IsFree(charged)
      /\ charged.attempts = r.attempts + 1
      /\ charged.reclaims = r.reclaims
      /\ charged.status = r.status
  BY <1>1 DEF Row, IsFree, SameHistory
<1>3. RetryDelay[n] \in Int /\ a \in Int
  BY DelayAssumption
<1>4. MarkFailed(r, a, n) = DueIn(charged, RetryDelay[n], a)
  BY DEF MarkFailed, charged, u
<1> HIDE DEF charged
<1>5. /\ DueIn(charged, RetryDelay[n], a) \in Row(done)
      /\ SameClaim(charged, DueIn(charged, RetryDelay[n], a))
      /\ SameHistory(charged, DueIn(charged, RetryDelay[n], a))
  BY <1>2, <1>3, DueInRow
<1> QED
  BY <1>2, <1>4, <1>5 DEF SameClaim, SameHistory, IsFree

\* The last failure frees the row, charges one attempt and ends it.
LEMMA DeadRow ==
  ASSUME NEW done, NEW r, r \in Row(done)
  PROVE  /\ MarkDead(r) \in Row(done)
         /\ IsFree(MarkDead(r))
         /\ MarkDead(r).attempts = r.attempts + 1
         /\ MarkDead(r).reclaims = r.reclaims
         /\ MarkDead(r).status = "dead"
<1> DEFINE u == Unclaimed(r)
<1>1. u \in Row(done) /\ IsFree(u) /\ SameHistory(r, u)
  BY UnclaimedRow
<1> DEFINE charged == [u EXCEPT !.attempts = @ + 1]
<1>2. MarkDead(r) = [charged EXCEPT !.status = "dead"]
  BY <1>1 DEF MarkDead, Row
<1> HIDE DEF u
<1>3. /\ charged \in Row(done)
      /\ IsFree(charged)
      /\ charged.attempts = r.attempts + 1
      /\ charged.reclaims = r.reclaims
  BY <1>1 DEF Row, IsFree, SameHistory
<1> HIDE DEF charged
<1> QED
  BY <1>2, <1>3 DEF Row, IsFree

\* Completion frees the row and settles it.
LEMMA DoneRow ==
  ASSUME NEW done, NEW r, r \in Row(done)
  PROVE  /\ MarkDone(r, done) \in Row(done)
         /\ IsFree(MarkDone(r, done))
         /\ MarkDone(r, done).attempts = r.attempts
         /\ MarkDone(r, done).reclaims = r.reclaims
         /\ MarkDone(r, done).status = done
<1> DEFINE u == Unclaimed(r)
<1>1. u \in Row(done) /\ IsFree(u) /\ SameHistory(r, u)
  BY UnclaimedRow
<1>2. MarkDone(r, done) = [u EXCEPT !.status = done]
  BY DEF MarkDone
<1> HIDE DEF u
<1> QED
  BY <1>1, <1>2 DEF Row, IsFree, SameHistory

\* Revival frees the row, forgets its abandonments and keeps its failures.
LEMMA RevivedRow ==
  ASSUME NEW done, NEW r, r \in Row(done)
  PROVE  /\ Revive(r) \in Row(done)
         /\ IsFree(Revive(r))
         /\ Revive(r).attempts = r.attempts
         /\ Revive(r).reclaims = 0
         /\ Revive(r).status = "pending"
<1> DEFINE u == Unclaimed(r)
           back == [u EXCEPT !.status = "pending", !.reclaims = 0]
<1>1. u \in Row(done) /\ IsFree(u) /\ SameHistory(r, u)
  BY UnclaimedRow
<1> HIDE DEF u
<1>2. /\ back \in Row(done)
      /\ IsFree(back)
      /\ back.attempts = r.attempts
      /\ back.reclaims = 0
      /\ back.status = "pending"
  BY <1>1 DEF Row, IsFree, SameHistory
<1>3. Revive(r) = DueIn(back, 0, 0)
  BY DEF Revive, back, u
<1> HIDE DEF back
<1>4. /\ DueIn(back, 0, 0) \in Row(done)
      /\ SameClaim(back, DueIn(back, 0, 0))
      /\ SameHistory(back, DueIn(back, 0, 0))
  BY <1>2, DueInRow
<1> QED
  BY <1>2, <1>3, <1>4 DEF SameClaim, SameHistory, IsFree

\* Time moves a row's schedule only.
LEMMA OlderRow ==
  ASSUME NEW done, NEW r, r \in Row(done)
  PROVE  Older(r) \in Row(done) /\ SameClaim(r, Older(r)) /\ SameHistory(r, Older(r))
BY TimingAssumption DEF Row, Older, SameClaim, SameHistory

-----------------------------------------------------------------------------
(* Counting workers. *)

\* A set of workers has a size, no larger than the number of workers, and one
\* worker more or less changes it by one.
LEMMA Headcount ==
  ASSUME NEW W, IsFiniteSet(W), NEW A, A \subseteq W
  PROVE  /\ Cardinality(A) \in Nat /\ Cardinality(W) \in Nat
         /\ Cardinality(A) <= Cardinality(W)
         /\ \A B : B \subseteq A => Cardinality(B) \in Nat /\ Cardinality(B) <= Cardinality(A)
         /\ \A w : Cardinality(A \union {w}) <= Cardinality(A) + 1
         /\ \A w \in A : Cardinality(A \ {w}) = Cardinality(A) - 1
<1>1. IsFiniteSet(A) /\ Cardinality(A) <= Cardinality(W)
  BY FS_Subset
<1>2. Cardinality(A) \in Nat /\ Cardinality(W) \in Nat
  BY <1>1, FS_CardinalityType
<1>3. ASSUME NEW B, B \subseteq A PROVE Cardinality(B) \in Nat /\ Cardinality(B) <= Cardinality(A)
  <2>1. IsFiniteSet(B) /\ Cardinality(B) <= Cardinality(A)
    BY <1>1, <1>3, FS_Subset
  <2> QED
    BY <2>1, FS_CardinalityType
<1>4. ASSUME NEW w PROVE Cardinality(A \union {w}) <= Cardinality(A) + 1
  <2>1. Cardinality(A \union {w}) = IF w \in A THEN Cardinality(A) ELSE Cardinality(A) + 1
    BY <1>1, FS_AddElement
  <2> QED
    BY <1>2, <2>1
<1>5. ASSUME NEW w \in A PROVE Cardinality(A \ {w}) = Cardinality(A) - 1
  <2>1. Cardinality(A \ {w}) = IF w \in A THEN Cardinality(A) - 1 ELSE Cardinality(A)
    BY <1>1, FS_RemoveElement
  <2> QED
    BY <2>1
<1> QED
  BY <1>1, <1>2, <1>3, <1>4, <1>5

-----------------------------------------------------------------------------
(* Who can settle a row. *)

\* A free row has no owner, a claim nobody carries is lost, and a claim one
\* worker carries is that worker's.
LEMMA OwnerOfRow ==
  /\ \A H : OwnerOf(FALSE, H) = "nobody"
  /\ OwnerOf(TRUE, {}) = "lost"
  /\ \A w : OwnerOf(TRUE, {w}) = w
BY DEF OwnerOf
=============================================================================
