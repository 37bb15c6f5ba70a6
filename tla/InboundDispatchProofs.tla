----------------------- MODULE InboundDispatchProofs -----------------------
(***************************************************************************)
(* The safety of inbound dispatch for any number of events, dispatchers,   *)
(* tokens, budgets and replays and any list of consumers.  Three           *)
(* invariants carry it.  IInv: a claim is live and carries its token, a    *)
(* dispatcher's copy agrees with the row it still holds, and each          *)
(* publisher's place in bus.publish fits the record it works from.         *)
(* CalmWhileQuiet: until an event first fails, is abandoned or is          *)
(* replayed, one dispatcher at most works on it, what it has handled is in *)
(* the inbox, and what is in the inbox it has handled or is handling.      *)
(* Tally: the runs of a handler, done and still owed, never outnumber the  *)
(* one inbox entry and the throws.                                         *)
(***************************************************************************)
EXTENDS InboundDispatch, LeaseRowProofs

-----------------------------------------------------------------------------
(* The inductive invariants. *)

RowOK(r) ==
  /\ r.claimed <=> r.token # NoToken
  /\ r.claimed => r.status = "pending"
  /\ r.attempts <= MaxAttempts /\ r.reclaims <= MaxReclaims + 1
  /\ r.status = "pending" => r.attempts < MaxAttempts /\ r.reclaims <= MaxReclaims
  /\ r.status = "absent" => r.attempts = 0 /\ r.reclaims = 0

RowsOK == \A e \in Event : RowOK(row[e])

HasRecord(p) == record[p] # NoRecord

Busy(p) == pc[p] \in {"handle", "release", "reclaimInbox"}

\* Where a publisher is fits what it holds: a record from selection to
\* acknowledgement, a subscriber in range while one is being handled, attempts
\* left while one may run.
PlaceOK(p) ==
  /\ HasRecord(p) <=> pc[p] \notin {"idle", "reclaim", "claim"}
  /\ ~HasRecord(p) => sub[p] = 1 /\ tries[p] = 0 /\ failed[p] = FALSE
  /\ pc[p] \in {"deliver", "forget"} => tries[p] = 0
  /\ pc[p] \in {"handle", "reclaimInbox"} => tries[p] < BusAttempts
  /\ Busy(p) \/ pc[p] = "forget" => sub[p] <= Len(Subscribers)

\* A dispatcher's record is a claim, a replay's is of an event it has listed.
HolderOK(p) ==
  /\ p \in Dispatcher => pc[p] # "forget" /\ (HasRecord(p) => record[p].token \in Token)
  /\ p = Replayer => pc[p] \notin {"reclaim", "claim"}
                     /\ (HasRecord(p) => record[p].item \in replayed)

PlacesOK == \A p \in Publisher : PlaceOK(p) /\ HolderOK(p)

\* While the row carries a dispatcher's token, the dispatcher's copy of its
\* attempts is the row's.
HeldIsCurrent ==
  \A w \in Dispatcher :
    HasRecord(w) /\ record[w].token = row[record[w].item].token
      => record[w].attempts = row[record[w].item].attempts

IInv == TypeOK /\ RowsOK /\ PlacesOK /\ HeldIsCurrent

\* Nothing has gone wrong with the event yet, and no operator has replayed it.
Quiet(e) == row[e].attempts = 0 /\ row[e].reclaims = 0 /\ e \notin replayed

On(p, e) == HasRecord(p) /\ record[p].item = e

\* The dispatcher at work on a quiet event holds the row, or has settled it by a write that
\* seemed to fail; what it has passed is handled, and what it has claimed in the inbox is
\* handled or in hand, unless it failed.
Conduct(p, e) ==
  /\ p \in Dispatcher
  /\ \/ row[e].claimed = TRUE /\ record[p].token = row[e].token
     \/ row[e].status = "processed" /\ failed[p] = TRUE /\ Published(p)
  /\ Busy(p) => handled[Pair(p)] = 0
  /\ pc[p] = "handle" => Pair(p) \in inbox
  /\ failed[p] = FALSE =>
       /\ \A i \in 1..(sub[p] - 1) : handled[<<Subscribers[i], e>>] = 1
       /\ \A c \in Consumer : <<c, e>> \in inbox =>
            handled[<<c, e>>] = 1 \/ (Busy(p) /\ c = Subscribers[sub[p]])

Calm(e) ==
  /\ \A c \in Consumer : handled[<<c, e>>] > 0 => handled[<<c, e>>] = 1 /\ <<c, e>> \in inbox
  /\ \A p \in Publisher : On(p, e) => Conduct(p, e)
  /\ \A p, q \in Publisher : On(p, e) /\ On(q, e) => p = q
  /\ row[e].claimed = FALSE /\ row[e].status # "processed" =>
       \A c \in Consumer : <<c, e>> \notin inbox
  /\ row[e].status = "processed" => \A c \in Consumer : handled[<<c, e>>] = 1

CalmWhileQuiet == \A e \in Event : Quiet(e) => Calm(e)

-----------------------------------------------------------------------------
(* Publishers, and what a step of one of them leaves alone. *)

SamePlace(p) ==
  /\ pc'[p] = pc[p] /\ record'[p] = record[p] /\ sub'[p] = sub[p]
  /\ tries'[p] = tries[p] /\ failed'[p] = failed[p]

OnlyAt(p) == \A q \in Publisher : q # p => SamePlace(q)

\* A record names an event, and a dispatcher's record a claim.
LEMMA RecordParts ==
  ASSUME IInv, NEW p \in Publisher, HasRecord(p)
  PROVE  /\ record[p] \in Record /\ record[p].item \in Event /\ record[p].attempts \in Nat
         /\ record[p].status # "absent"
         /\ p \in Dispatcher => record[p].token \in Token /\ record[p].token # NoToken
<1>1. record[p] \in Record
  BY DEF IInv, TypeOK, HasRecord
<1>2. p \in Dispatcher => record[p].token \in Token
  BY DEF IInv, PlacesOK, HolderOK
<1> QED
  BY <1>1, <1>2, NoTokenAssumption DEF Record

\* The subscriber in hand is a consumer.
LEMMA PairInHand ==
  ASSUME IInv, NEW p \in Publisher,
         Busy(p) \/ pc[p] = "forget" \/ (pc[p] = "deliver" /\ sub[p] <= Len(Subscribers))
  PROVE  /\ HasRecord(p) /\ sub[p] \in 1..Len(Subscribers)
         /\ Subscribers[sub[p]] \in Consumer
         /\ Pair(p) = <<Subscribers[sub[p]], record[p].item>> /\ Pair(p) \in Consumer \X Event
<1>1. HasRecord(p)
  BY DEF IInv, PlacesOK, PlaceOK, Busy
<1>2. sub[p] \in 1..Len(Subscribers)
  <2>1. sub[p] \in 1..(Len(Subscribers) + 1) /\ Len(Subscribers) \in Nat
    BY InboundAssumption DEF IInv, TypeOK
  <2>2. sub[p] <= Len(Subscribers)
    BY DEF IInv, PlacesOK, PlaceOK
  <2> QED
    BY <2>1, <2>2
<1>3. Subscribers[sub[p]] \in Consumer
  BY <1>2, InboundAssumption DEF Consumer
<1>4. record[p].item \in Event
  BY <1>1, RecordParts
<1> QED
  BY <1>1, <1>2, <1>3, <1>4 DEF Pair

\* Only the publisher that moved has a new place.
LEMMA OthersPlaced ==
  ASSUME IInv, NEW p \in Publisher, OnlyAt(p), replayed \subseteq replayed',
         PlaceOK(p)', HolderOK(p)'
  PROVE  PlacesOK'
<1> SUFFICES ASSUME NEW q \in Publisher, q # p PROVE PlaceOK(q)' /\ HolderOK(q)'
  BY DEF PlacesOK
<1>1. PlaceOK(q) /\ HolderOK(q) /\ SamePlace(q)
  BY DEF IInv, PlacesOK, OnlyAt
<1> QED
  BY <1>1 DEF PlaceOK, HolderOK, SamePlace, HasRecord, Busy

\* Rows whose tokens are kept with their attempts, or given up, leave every
\* copy that is still current current.
LEMMA HeldStays ==
  ASSUME IInv, \A w \in Dispatcher : HasRecord(w)' => record'[w] = record[w],
         \A e \in Event : \/ row'[e].token = NoToken
                          \/ row'[e].token = row[e].token /\ row'[e].attempts = row[e].attempts
  PROVE  HeldIsCurrent'
<1> SUFFICES ASSUME NEW w \in Dispatcher, HasRecord(w)',
                    record'[w].token = row'[record'[w].item].token
             PROVE  record'[w].attempts = row'[record'[w].item].attempts
  BY DEF HeldIsCurrent
<1>1. record'[w] = record[w] /\ HasRecord(w) /\ w \in Publisher
  BY DEF HasRecord, Publisher
<1>2. record[w].item \in Event /\ record[w].token # NoToken
  BY <1>1, RecordParts
<1> QED
  BY <1>1, <1>2 DEF IInv, HeldIsCurrent

\* A publisher that rests holds nothing.
LEMMA RestPlace ==
  ASSUME IInv, NEW p \in Publisher, Rest(p)
  PROVE  /\ OnlyAt(p) /\ PlaceOK(p)' /\ HolderOK(p)' /\ record'[p] = NoRecord
         /\ pc' \in [Publisher -> {"idle", "reclaim", "claim", "forget", "deliver", "handle",
                                   "release", "reclaimInbox"}]
         /\ age' \in [Publisher -> 0..Horizon]
         /\ record' \in [Publisher -> Record \union {NoRecord}]
         /\ sub' \in [Publisher -> 1..(Len(Subscribers) + 1)]
         /\ tries' \in [Publisher -> 0..BusAttempts]
         /\ failed' \in [Publisher -> BOOLEAN]
<1>1. /\ pc'[p] = "idle" /\ record'[p] = NoRecord /\ sub'[p] = 1 /\ tries'[p] = 0
      /\ failed'[p] = FALSE
  BY DEF Rest, IInv, TypeOK
<1>2. OnlyAt(p)
  BY DEF Rest, IInv, TypeOK, OnlyAt, SamePlace
<1>3. PlaceOK(p)' /\ HolderOK(p)'
  BY <1>1 DEF PlaceOK, HolderOK, HasRecord, Busy
<1> QED
  BY <1>1, <1>2, <1>3, TimingAssumption, InboundAssumption DEF Rest, IInv, TypeOK

-----------------------------------------------------------------------------
(* Every step preserves IInv. *)

\* Nothing has arrived, and every publisher is idle.
LEMMA InitIInv == Init => IInv
<1> SUFFICES ASSUME Init PROVE IInv
  OBVIOUS
<1>1. Absent \in Row("processed") /\ Absent.attempts = 0 /\ Absent.reclaims = 0
      /\ IsFree(Absent) /\ Absent.status = "absent"
  BY BlankRow
<1>2. RowOK(Absent)
  BY <1>1, BudgetAssumption DEF RowOK, IsFree
<1>3. RowsOK
  BY <1>2 DEF Init, RowsOK
<1>4. TypeOK
  BY <1>1, TimingAssumption, BudgetAssumption, InboundAssumption DEF Init, TypeOK, HandledCap
<1>5. PlacesOK /\ HeldIsCurrent
  BY DEF Init, PlacesOK, PlaceOK, HolderOK, HasRecord, Busy, HeldIsCurrent, Publisher
<1> QED
  BY <1>3, <1>4, <1>5 DEF IInv

\* A step that writes no row and takes up no record keeps IInv if the one
\* publisher that moves finds its place.
LEMMA PlaceStep ==
  ASSUME IInv, TypeOK', NEW p \in Publisher, OnlyAt(p), UNCHANGED row,
         replayed \subseteq replayed', PlaceOK(p)', HolderOK(p)',
         p \in Dispatcher /\ HasRecord(p)' => record'[p] = record[p]
  PROVE  IInv'
<1>1. RowsOK'
  BY DEF IInv, RowsOK
<1>2. PlacesOK'
  BY OthersPlaced
<1>3. HeldIsCurrent'
  <2>1. \A w \in Dispatcher : HasRecord(w)' => record'[w] = record[w]
    BY DEF OnlyAt, SamePlace, Publisher
  <2> QED
    BY <2>1, HeldStays
<1> QED
  BY <1>1, <1>2, <1>3 DEF IInv

\* A dispatcher polls; a publisher finds nothing to do, or dies.
LEMMA IdleStep ==
  ASSUME IInv, NEW p \in Publisher, (p \in Dispatcher /\ (Poll(p) \/ NothingDue(p))) \/ Crash(p)
  PROVE  IInv'
<1>1. CASE p \in Dispatcher /\ Poll(p)
  <2>1. TypeOK'
    BY <1>1 DEF Poll, IInv, TypeOK
  <2>2. OnlyAt(p) /\ pc'[p] = "reclaim" /\ record'[p] = record[p] /\ sub'[p] = sub[p]
        /\ tries'[p] = tries[p] /\ failed'[p] = failed[p] /\ p # Replayer /\ pc[p] = "idle"
    BY <1>1, InboundAssumption DEF Poll, OnlyAt, SamePlace, IInv, TypeOK
  <2>3. PlaceOK(p) /\ HolderOK(p)
    BY DEF IInv, PlacesOK
  <2>4. PlaceOK(p)' /\ HolderOK(p)'
    BY <2>2, <2>3 DEF PlaceOK, HolderOK, HasRecord, Busy
  <2> QED
    BY <1>1, <2>1, <2>2, <2>4, PlaceStep DEF Poll
<1>2. CASE (p \in Dispatcher /\ NothingDue(p)) \/ Crash(p)
  <2>1. Rest(p) /\ UNCHANGED <<row, inbox, handled, thrown, replays, replayed, reapplied>>
    BY <1>2 DEF NothingDue, Crash
  <2>2. TypeOK'
    BY <2>1, RestPlace DEF IInv, TypeOK
  <2> QED
    BY <2>1, <2>2, RestPlace, PlaceStep DEF HasRecord
<1> QED
  BY <1>1, <1>2

\* What is accepted is new, pending and unclaimed.
LEMMA AcceptStep ==
  ASSUME IInv, NEW e \in Event, Accept(e)
  PROVE  IInv'
<1>1. /\ NewRow \in Row("processed") /\ IsFree(NewRow) /\ NewRow.status = "pending"
      /\ NewRow.attempts = 0 /\ NewRow.reclaims = 0
  BY BlankRow
<1>2. RowOK(NewRow)
  BY <1>1, BudgetAssumption DEF RowOK, IsFree
<1>3. /\ row' = [row EXCEPT ![e] = NewRow] /\ row \in [Event -> Row("processed")]
      /\ UNCHANGED <<inbox, handled, thrown, delivery, age, replays, replayed, reapplied>>
  BY DEF Accept, IInv, TypeOK
<1>4. \A f \in Event : row'[f] = IF f = e THEN NewRow ELSE row[f]
  BY <1>3
<1>5. RowsOK'
  BY <1>2, <1>4 DEF IInv, RowsOK
<1>6. TypeOK'
  <2>1. row' \in [Event -> Row("processed")]
    BY <1>1, <1>3
  <2>2. \A f \in Event : row'[f].attempts <= MaxAttempts /\ row'[f].reclaims <= MaxReclaims + 1
    BY <1>5 DEF RowsOK, RowOK
  <2> QED
    BY <1>3, <2>1, <2>2 DEF delivery, IInv, TypeOK
<1>7. PlacesOK'
  BY <1>3 DEF delivery, IInv, PlacesOK, PlaceOK, HolderOK, HasRecord, Busy
<1>8. HeldIsCurrent'
  <2>1. \A f \in Event : \/ row'[f].token = NoToken
                         \/ row'[f].token = row[f].token /\ row'[f].attempts = row[f].attempts
    BY <1>1, <1>4 DEF IsFree
  <2> QED
    BY <1>3, <2>1, HeldStays DEF delivery
<1> QED
  BY <1>5, <1>6, <1>7, <1>8 DEF IInv

\* bus.publish: a publisher claims a pair in the inbox, handles it, retries it
\* or gives it up, and moves on.
LEMMA BusStep ==
  ASSUME IInv, NEW p \in Publisher, Deliver(p) \/ InboxError(p)
  PROVE  /\ IInv' /\ OnlyAt(p) /\ record' = record
         /\ UNCHANGED <<row, age, replays, replayed, reapplied>>
<1>1. /\ UNCHANGED <<row, age, record, replays, replayed, reapplied>>
      /\ p \in Dispatcher => pc[p] # "forget"
  BY DEF Deliver, InboxClaim, HandlerCommits, HandlerThrows, Release, ReclaimInbox, InboxError,
         IInv, PlacesOK, HolderOK
<1>2. /\ pc \in [Publisher -> {"idle", "reclaim", "claim", "forget", "deliver", "handle",
                               "release", "reclaimInbox"}]
      /\ sub \in [Publisher -> 1..(Len(Subscribers) + 1)]
      /\ tries \in [Publisher -> 0..BusAttempts] /\ failed \in [Publisher -> BOOLEAN]
      /\ inbox \subseteq Consumer \X Event
      /\ handled \in [Consumer \X Event -> 0..HandledCap]
      /\ thrown \in [Consumer \X Event -> 0..ThrownCap]
  BY DEF IInv, TypeOK
<1>3. PlaceOK(p) /\ HolderOK(p)
  BY DEF IInv, PlacesOK
<1>4. Len(Subscribers) \in Nat /\ BusAttempts \in Nat /\ BusAttempts # 0
      /\ ThrownCap \in Nat /\ HandledCap \in Nat
  BY InboundAssumption DEF HandledCap
<1>5. OnlyAt(p)
  BY <1>1, <1>2 DEF Deliver, InboxClaim, HandlerCommits, HandlerThrows, Release, ReclaimInbox,
                    InboxError, NextSubscriber, OnlyAt, SamePlace
<1>6. PlaceOK(p)' /\ HolderOK(p)'
  <2>1. CASE InboxClaim(p)
    BY <1>1, <1>2, <1>3, <1>4, <2>1 DEF InboxClaim, NextSubscriber, PlaceOK, HolderOK, HasRecord, Busy
  <2>2. CASE HandlerCommits(p)
    BY <1>1, <1>2, <1>3, <1>4, <2>2 DEF HandlerCommits, NextSubscriber, PlaceOK, HolderOK, HasRecord, Busy
  <2>3. CASE HandlerThrows(p)
    BY <1>1, <1>2, <1>3, <1>4, <2>3 DEF HandlerThrows, PlaceOK, HolderOK, HasRecord, Busy
  <2>4. CASE Release(p)
    BY <1>1, <1>2, <1>3, <1>4, <2>4 DEF Release, NextSubscriber, PlaceOK, HolderOK, HasRecord, Busy
  <2>5. CASE ReclaimInbox(p)
    BY <1>1, <1>2, <1>3, <1>4, <2>5 DEF ReclaimInbox, PlaceOK, HolderOK, HasRecord, Busy
  <2>6. CASE InboxError(p)
    BY <1>1, <1>2, <1>3, <1>4, <2>6 DEF InboxError, PlaceOK, HolderOK, HasRecord, Busy
  <2> QED
    BY <2>1, <2>2, <2>3, <2>4, <2>5, <2>6 DEF Deliver
<1>7. TypeOK'
  <2>1. /\ pc' \in [Publisher -> {"idle", "reclaim", "claim", "forget", "deliver", "handle",
                                  "release", "reclaimInbox"}]
        /\ failed' \in [Publisher -> BOOLEAN]
    BY <1>2 DEF Deliver, InboxClaim, HandlerCommits, HandlerThrows, Release, ReclaimInbox,
                InboxError
  <2>2. sub' \in [Publisher -> 1..(Len(Subscribers) + 1)]
    <3>1. ASSUME sub[p] \in 1..Len(Subscribers), NextSubscriber(p)
          PROVE  sub' \in [Publisher -> 1..(Len(Subscribers) + 1)]
      <4>1. sub[p] + 1 \in 1..(Len(Subscribers) + 1)
        BY <1>4, <3>1
      <4> DEFINE S == 1..(Len(Subscribers) + 1)
                 n == sub[p] + 1
      <4>2. sub' = [sub EXCEPT ![p] = n] /\ sub \in [Publisher -> S] /\ n \in S
        BY <1>2, <3>1, <4>1 DEF NextSubscriber
      <4> HIDE DEF S, n
      <4>3. sub' \in [Publisher -> S]
        BY <4>2
      <4> QED
        BY <4>3 DEF S
    <3>2. CASE InboxClaim(p) \/ HandlerCommits(p) \/ Release(p)
      <4>1. sub[p] \in 1..Len(Subscribers)
        BY <3>2, PairInHand DEF InboxClaim, HandlerCommits, Release, Busy
      <4>2. NextSubscriber(p) \/ UNCHANGED sub
        BY <3>2 DEF InboxClaim, HandlerCommits, Release
      <4> QED
        BY <1>2, <3>1, <4>1, <4>2
    <3>3. CASE HandlerThrows(p) \/ ReclaimInbox(p) \/ InboxError(p)
      BY <1>2, <1>4, <3>3 DEF HandlerThrows, ReclaimInbox, InboxError
    <3> QED
      BY <3>2, <3>3 DEF Deliver
  <2>3. tries' \in [Publisher -> 0..BusAttempts]
    <3>1. CASE HandlerThrows(p)
      BY <1>2, <1>3, <1>4, <3>1 DEF HandlerThrows, PlaceOK
    <3>2. CASE ~HandlerThrows(p)
      BY <1>2, <1>4, <3>2 DEF Deliver, InboxClaim, HandlerCommits, Release, ReclaimInbox,
                              InboxError
    <3> QED
      BY <3>1, <3>2
  <2>4. inbox' \subseteq Consumer \X Event
    <3>1. InboxClaim(p) \/ ReclaimInbox(p) => Pair(p) \in Consumer \X Event
      BY PairInHand DEF InboxClaim, ReclaimInbox, Busy
    <3> QED
      BY <1>2, <3>1 DEF Deliver, InboxClaim, HandlerCommits, HandlerThrows, Release,
                        ReclaimInbox, InboxError
  <2>5. handled' \in [Consumer \X Event -> 0..HandledCap]
    <3>1. CASE HandlerCommits(p)
      <4>1. handled' = [handled EXCEPT ![Pair(p)] =
              IF handled[Pair(p)] < HandledCap THEN handled[Pair(p)] + 1 ELSE handled[Pair(p)]]
        BY <3>1 DEF HandlerCommits
      <4>2. Pair(p) \in Consumer \X Event
        BY <3>1, PairInHand DEF HandlerCommits, Busy
      <4>3. handled[Pair(p)] \in 0..HandledCap
        BY <1>2, <4>2
      <4> DEFINE x == Pair(p)
                 n == IF handled[x] < HandledCap THEN handled[x] + 1 ELSE handled[x]
                 K == Consumer \X Event
      <4>4. n \in 0..HandledCap
        BY <1>4, <4>3
      <4>5. handled' = [handled EXCEPT ![x] = n] /\ handled \in [K -> 0..HandledCap]
        BY <1>2, <4>1
      <4> HIDE DEF x, n, K
      <4>6. handled' \in [K -> 0..HandledCap]
        BY <4>4, <4>5
      <4> QED
        BY <4>6 DEF K
    <3>2. CASE ~HandlerCommits(p)
      BY <1>2, <3>2 DEF Deliver, InboxClaim, HandlerThrows, Release, ReclaimInbox, InboxError
    <3> QED
      BY <3>1, <3>2
  <2>6. thrown' \in [Consumer \X Event -> 0..ThrownCap]
    <3>1. CASE HandlerThrows(p)
      <4>1. thrown' = [thrown EXCEPT ![Pair(p)] =
              IF thrown[Pair(p)] < ThrownCap THEN thrown[Pair(p)] + 1 ELSE thrown[Pair(p)]]
        BY <3>1 DEF HandlerThrows
      <4>2. Pair(p) \in Consumer \X Event
        BY <3>1, PairInHand DEF HandlerThrows, Busy
      <4>3. thrown[Pair(p)] \in 0..ThrownCap
        BY <1>2, <4>2
      <4> DEFINE x == Pair(p)
                 n == IF thrown[x] < ThrownCap THEN thrown[x] + 1 ELSE thrown[x]
                 K == Consumer \X Event
      <4>4. n \in 0..ThrownCap
        BY <1>4, <4>3
      <4>5. thrown' = [thrown EXCEPT ![x] = n] /\ thrown \in [K -> 0..ThrownCap]
        BY <1>2, <4>1
      <4> HIDE DEF x, n, K
      <4>6. thrown' \in [K -> 0..ThrownCap]
        BY <4>4, <4>5
      <4> QED
        BY <4>6 DEF K
    <3>2. CASE ~HandlerThrows(p)
      BY <1>2, <3>2 DEF Deliver, InboxClaim, HandlerCommits, Release, ReclaimInbox, InboxError
    <3> QED
      BY <3>1, <3>2
  <2> QED
    BY <1>1, <2>1, <2>2, <2>3, <2>4, <2>5, <2>6 DEF IInv, TypeOK
<1>8. IInv'
  BY <1>1, <1>5, <1>6, <1>7, PlaceStep
<1> QED
  BY <1>1, <1>5, <1>8

\* The operator's run takes up an event, or forgets one of its inbox entries.
LEMMA ReplayStep ==
  ASSUME IInv, (\E e \in Event, mode \in {"pending_only", "reapply"} : StartReplay(e, mode))
               \/ ForgetInbox(Replayer)
  PROVE  IInv' /\ OnlyAt(Replayer) /\ replayed \subseteq replayed' /\ UNCHANGED <<row, handled, thrown>>
<1>0. Replayer \in Publisher /\ Replayer \notin Dispatcher
      /\ PlaceOK(Replayer) /\ HolderOK(Replayer)
  BY InboundAssumption DEF Publisher, IInv, PlacesOK
<1>1. ASSUME NEW e \in Event, NEW mode \in {"pending_only", "reapply"}, StartReplay(e, mode)
      PROVE  IInv' /\ OnlyAt(Replayer) /\ replayed \subseteq replayed'
             /\ UNCHANGED <<row, handled, thrown>>
  <2> DEFINE rec == [item |-> e, token |-> NoToken, attempts |-> row[e].attempts,
                     status |-> row[e].status, mode |-> mode]
  <2>1. rec \in Record /\ rec.item = e
    <3>1. row[e] \in Row("processed") /\ row[e].status # "absent"
      BY <1>1 DEF StartReplay, IInv, TypeOK
    <3> QED
      BY <3>1 DEF Row, Record
  <2>2. /\ record' = [record EXCEPT ![Replayer] = rec]
        /\ pc' = [pc EXCEPT ![Replayer] = IF mode = "reapply" THEN "forget" ELSE "deliver"]
        /\ replays' = replays + 1 /\ replays < MaxReplays /\ pc[Replayer] = "idle"
        /\ replayed' = replayed \union {e}
        /\ UNCHANGED <<row, inbox, handled, thrown, age, sub, tries, failed, reapplied>>
    BY <1>1 DEF StartReplay
  <2> HIDE DEF rec
  <2>3. TypeOK'
    <3>1. replays' \in 0..MaxReplays
      BY <2>2, InboundAssumption DEF IInv, TypeOK
    <3>2. record' \in [Publisher -> Record \union {NoRecord}]
      BY <2>1, <2>2, <1>0 DEF IInv, TypeOK
    <3>3. pc' \in [Publisher -> {"idle", "reclaim", "claim", "forget", "deliver", "handle",
                                 "release", "reclaimInbox"}]
      BY <2>2, <1>0 DEF IInv, TypeOK
    <3> QED
      BY <2>2, <3>1, <3>2, <3>3 DEF IInv, TypeOK
  <2>4. OnlyAt(Replayer)
    BY <2>2 DEF OnlyAt, SamePlace, IInv, TypeOK
  <2>5. /\ pc'[Replayer] \in {"forget", "deliver"} /\ record'[Replayer] = rec
        /\ sub'[Replayer] = sub[Replayer] /\ tries'[Replayer] = tries[Replayer]
        /\ failed'[Replayer] = failed[Replayer]
    BY <1>0, <2>2 DEF IInv, TypeOK
  <2>6. rec # NoRecord /\ ~HasRecord(Replayer) /\ Len(Subscribers) >= 1
    BY <1>0, <2>1, <2>2, NoRecordAssumption, InboundAssumption DEF PlaceOK
  <2>7. PlaceOK(Replayer)'
    BY <1>0, <2>5, <2>6 DEF PlaceOK, HasRecord, Busy
  <2>8. HolderOK(Replayer)'
    BY <1>0, <2>1, <2>2, <2>5, <2>6 DEF HolderOK, HasRecord
  <2> QED
    BY <1>0, <2>2, <2>3, <2>4, <2>7, <2>8, PlaceStep
<1>2. ASSUME ForgetInbox(Replayer)
      PROVE  IInv' /\ OnlyAt(Replayer) /\ replayed \subseteq replayed'
             /\ UNCHANGED <<row, handled, thrown>>
  <2> DEFINE last == sub[Replayer] = Len(Subscribers)
             n == IF last THEN 1 ELSE sub[Replayer] + 1
             S == 1..(Len(Subscribers) + 1)
  <2>1. /\ pc[Replayer] = "forget" /\ inbox' \subseteq inbox
        /\ reapplied' = reapplied \union {record[Replayer].item}
        /\ sub' = [sub EXCEPT ![Replayer] = n]
        /\ pc' = [pc EXCEPT ![Replayer] = IF last THEN "deliver" ELSE "forget"]
        /\ UNCHANGED <<row, handled, thrown, age, record, tries, failed, replays, replayed>>
    BY <1>2 DEF ForgetInbox
  <2>2. HasRecord(Replayer) /\ sub[Replayer] \in 1..Len(Subscribers)
    BY <1>0, <2>1, PairInHand
  <2>3. n \in S /\ (~last => n <= Len(Subscribers))
    BY <2>2, InboundAssumption
  <2>4. sub \in [Publisher -> S]
    BY DEF IInv, TypeOK
  <2> HIDE DEF last, n, S
  <2>5. sub' \in [Publisher -> S] /\ sub'[Replayer] = n
    BY <1>0, <2>1, <2>3, <2>4
  <2>6. /\ pc' \in [Publisher -> {"idle", "reclaim", "claim", "forget", "deliver", "handle",
                                 "release", "reclaimInbox"}]
        /\ pc'[Replayer] = IF last THEN "deliver" ELSE "forget"
    BY <1>0, <2>1 DEF IInv, TypeOK
  <2>7. reapplied' \subseteq replayed'
    BY <1>0, <2>1, <2>2 DEF HolderOK, IInv, TypeOK
  <2>8. TypeOK'
    BY <2>1, <2>5, <2>6, <2>7 DEF S, IInv, TypeOK
  <2>9. OnlyAt(Replayer)
    BY <2>1, <2>4 DEF OnlyAt, SamePlace, IInv, TypeOK
  <2>10. PlaceOK(Replayer)' /\ HolderOK(Replayer)'
    BY <1>0, <2>1, <2>2, <2>3, <2>5, <2>6 DEF PlaceOK, HolderOK, HasRecord, Busy
  <2> QED
    BY <1>0, <2>1, <2>8, <2>9, <2>10, PlaceStep
<1> QED
  BY <1>1, <1>2

\* One row is written and its token given up.
LEMMA FreedRow ==
  ASSUME IInv, NEW e \in Event, NEW new, new \in Row("processed"), RowOK(new),
         new.token = NoToken, row' = [row EXCEPT ![e] = new]
  PROVE  /\ row' \in [Event -> Row("processed")] /\ RowsOK'
         /\ \A f \in Event : row'[f].attempts <= MaxAttempts
                             /\ row'[f].reclaims <= MaxReclaims + 1
         /\ \A f \in Event : \/ row'[f].token = NoToken
                             \/ row'[f].token = row[f].token /\ row'[f].attempts = row[f].attempts
<1>1. row \in [Event -> Row("processed")]
  BY DEF IInv, TypeOK
<1>2. \A f \in Event : row'[f] = IF f = e THEN new ELSE row[f]
  BY <1>1
<1>3. RowsOK'
  BY <1>2 DEF IInv, RowsOK
<1> QED
  BY <1>1, <1>2, <1>3 DEF RowsOK, RowOK

\* What an acknowledgement leaves in the row.
LEMMA AckRow ==
  ASSUME IInv, NEW w \in Dispatcher, HasRecord(w)
  PROVE  LET r == row[record[w].item]
         IN  \/ AfterDispatch(w) = r
             \/ /\ record[w].token = r.token /\ r.claimed = TRUE /\ r.status = "pending"
                /\ AfterDispatch(w) \in Row("processed")
                /\ RowOK(AfterDispatch(w)) /\ IsFree(AfterDispatch(w))
                /\ AfterDispatch(w).reclaims = r.reclaims
                /\ \/ /\ failed[w] = FALSE /\ AfterDispatch(w).status = "processed"
                      /\ AfterDispatch(w).attempts = r.attempts
                   \/ failed[w] = TRUE /\ AfterDispatch(w).attempts = r.attempts + 1
<1> DEFINE h == record[w]
           r == row[h.item]
           new == AfterDispatch(w)
<1>1. w \in Publisher /\ h.item \in Event /\ h.token \in Token /\ h.token # NoToken
  BY RecordParts DEF Publisher
<1>2. r \in Row("processed") /\ RowOK(r) /\ age[w] \in Nat /\ failed[w] \in BOOLEAN
  BY <1>1, TimingAssumption DEF IInv, TypeOK, RowsOK
<1>3. r.attempts \in Nat /\ r.reclaims \in Nat /\ r.claimed \in BOOLEAN
  BY <1>2 DEF Row
<1>4. CASE ~Accepts(r, h.token)
  BY <1>4 DEF AfterDispatch
<1>5. CASE Accepts(r, h.token)
  <2>1. h.token = r.token /\ r.claimed = TRUE /\ r.status = "pending" /\ r.attempts < MaxAttempts
        /\ r.reclaims <= MaxReclaims /\ h.attempts = r.attempts
    BY <1>1, <1>2, <1>3, <1>5 DEF Accepts, RowOK, IInv, HeldIsCurrent
  <2>2. h.attempts \in 0..MaxAttempts
    BY <1>3, <2>1, BudgetAssumption
  <2>3. CASE failed[w] = FALSE
    <3>1. new = MarkDone(r, "processed")
      BY <1>5, <2>3 DEF AfterDispatch
    <3>2. /\ MarkDone(r, "processed") \in Row("processed") /\ IsFree(MarkDone(r, "processed"))
          /\ MarkDone(r, "processed").attempts = r.attempts
          /\ MarkDone(r, "processed").reclaims = r.reclaims
          /\ MarkDone(r, "processed").status = "processed"
      BY <1>2, DoneRow
    <3> QED
      BY <1>3, <2>1, <2>3, <3>1, <3>2, BudgetAssumption DEF RowOK, IsFree
  <2>4. CASE failed[w] = TRUE /\ h.attempts + 1 >= MaxAttempts
    <3>1. new = MarkDead(r)
      BY <1>5, <2>4 DEF AfterDispatch
    <3>2. MarkDead(r) \in Row("processed") /\ IsFree(MarkDead(r))
          /\ MarkDead(r).attempts = r.attempts + 1 /\ MarkDead(r).reclaims = r.reclaims
          /\ MarkDead(r).status = "dead"
      BY <1>2, DeadRow
    <3> QED
      BY <1>3, <2>1, <2>4, <3>1, <3>2, BudgetAssumption DEF RowOK, IsFree
  <2>5. CASE failed[w] = TRUE /\ ~(h.attempts + 1 >= MaxAttempts)
    <3>1. new = MarkFailed(r, age[w], h.attempts)
      BY <1>5, <2>5 DEF AfterDispatch
    <3>2. /\ MarkFailed(r, age[w], h.attempts) \in Row("processed")
          /\ IsFree(MarkFailed(r, age[w], h.attempts))
          /\ MarkFailed(r, age[w], h.attempts).attempts = r.attempts + 1
          /\ MarkFailed(r, age[w], h.attempts).reclaims = r.reclaims
          /\ MarkFailed(r, age[w], h.attempts).status = r.status
      BY <1>2, <2>2, FailedRow
    <3> QED
      BY <1>3, <2>1, <2>5, <3>1, <3>2, BudgetAssumption DEF RowOK, IsFree
  <2> QED
    BY <1>2, <2>3, <2>4, <2>5
<1> QED
  BY <1>4, <1>5

\* The row after a replay: settled without a fence, or left alone.
LEMMA ReplayedRow ==
  ASSUME IInv, AckReplay
  PROVE  /\ HasRecord(Replayer) /\ record[Replayer].item \in Event
         /\ \/ row' = row
            \/ \E new \in Row("processed") :
                 /\ row' = [row EXCEPT ![record[Replayer].item] = new]
                 /\ RowOK(new) /\ IsFree(new) /\ new.status = "processed"
                 /\ new.attempts = row[record[Replayer].item].attempts
                 /\ new.reclaims = row[record[Replayer].item].reclaims
                 /\ failed[Replayer] = FALSE
<1> DEFINE e == record[Replayer].item
           new == MarkDone(row[e], "processed")
<1>1. Replayer \in Publisher /\ HasRecord(Replayer)
  BY DEF Publisher, AckReplay, Published, IInv, PlacesOK, PlaceOK
<1>2. e \in Event
  BY <1>1, RecordParts
<1>3. /\ row \in [Event -> Row("processed")] /\ row[e] \in Row("processed") /\ RowOK(row[e])
      /\ failed[Replayer] \in BOOLEAN
  BY <1>1, <1>2 DEF IInv, TypeOK, RowsOK
<1>4. /\ new \in Row("processed") /\ IsFree(new) /\ new.status = "processed"
      /\ new.attempts = row[e].attempts /\ new.reclaims = row[e].reclaims
  BY <1>3, DoneRow
<1>5. RowOK(new)
  BY <1>3, <1>4 DEF RowOK, IsFree
<1>6. row' = row \/ (row' = [row EXCEPT ![e] = new] /\ failed[Replayer] = FALSE)
  BY <1>3 DEF AckReplay
<1> QED
  BY <1>1, <1>2, <1>4, <1>5, <1>6

\* A publisher acknowledges what it delivered, and rests.
LEMMA AckStep ==
  ASSUME IInv, (\E w \in Dispatcher : AckDispatch(w)) \/ AckReplay
  PROVE  IInv'
<1> SUFFICES ASSUME NEW p \in Publisher, Rest(p),
                    UNCHANGED <<inbox, handled, thrown, replays, replayed, reapplied>>,
                    \/ row' = row
                    \/ \E e \in Event, new \in Row("processed") :
                         row' = [row EXCEPT ![e] = new] /\ RowOK(new) /\ new.token = NoToken
             PROVE  IInv'
  <2>1. ASSUME NEW w \in Dispatcher, AckDispatch(w) PROVE IInv'
    <3>1. w \in Publisher /\ HasRecord(w)
      BY <2>1 DEF Publisher, AckDispatch, Published, IInv, PlacesOK, PlaceOK
    <3>2. record[w].item \in Event
      BY <3>1, RecordParts
    <3>3. row' = [row EXCEPT ![record[w].item] = AfterDispatch(w)] /\ Rest(w)
          /\ row \in [Event -> Row("processed")]
          /\ UNCHANGED <<inbox, handled, thrown, replays, replayed, reapplied>>
      BY <2>1 DEF AckDispatch, IInv, TypeOK
    <3>4. \/ row' = row
          \/ AfterDispatch(w) \in Row("processed") /\ RowOK(AfterDispatch(w))
             /\ AfterDispatch(w).token = NoToken
      BY <3>1, <3>2, <3>3, AckRow DEF IsFree
    <3> QED
      BY <3>1, <3>2, <3>3, <3>4
  <2>2. ASSUME AckReplay PROVE IInv'
    <3>1. Replayer \in Publisher /\ Rest(Replayer)
          /\ UNCHANGED <<inbox, handled, thrown, replays, replayed, reapplied>>
      BY <2>2 DEF Publisher, AckReplay
    <3> QED
      BY <2>2, <3>1, ReplayedRow DEF IsFree
  <2> QED
    BY <2>1, <2>2
<1>1. /\ row' \in [Event -> Row("processed")] /\ RowsOK'
      /\ \A f \in Event : row'[f].attempts <= MaxAttempts /\ row'[f].reclaims <= MaxReclaims + 1
      /\ \A f \in Event : \/ row'[f].token = NoToken
                          \/ row'[f].token = row[f].token /\ row'[f].attempts = row[f].attempts
  <2>1. CASE row' = row
    BY <2>1 DEF IInv, TypeOK, RowsOK
  <2>2. CASE \E e \in Event, new \in Row("processed") :
               row' = [row EXCEPT ![e] = new] /\ RowOK(new) /\ new.token = NoToken
    BY <2>2, FreedRow
  <2> QED
    BY <2>1, <2>2
<1>2. TypeOK'
  BY <1>1, RestPlace DEF IInv, TypeOK
<1>3. PlacesOK'
  BY RestPlace, OthersPlaced
<1>4. HeldIsCurrent'
  <2>1. \A w \in Dispatcher : HasRecord(w)' => record'[w] = record[w]
    BY RestPlace DEF OnlyAt, SamePlace, Publisher, HasRecord
  <2> QED
    BY <1>1, <2>1, HeldStays
<1> QED
  BY <1>1, <1>2, <1>3, <1>4 DEF IInv

\* An acknowledgement throws: its write took effect or did not, and the publisher goes on
\* to the failure branch with the record it has.
LEMMA AckFailsStep ==
  ASSUME IInv, NEW w \in Dispatcher, AckFails(w)
  PROVE  /\ IInv' /\ OnlyAt(w) /\ record' = record /\ HasRecord(w)
         /\ \A e \in Event : row'[e] # row[e] =>
              e = record[w].item /\ failed[w] = FALSE /\ row'[e] = AfterDispatch(w)
<1>1. w \in Publisher /\ HasRecord(w) /\ PlaceOK(w) /\ HolderOK(w)
  BY DEF Publisher, AckFails, Published, IInv, PlacesOK, PlaceOK
<1>2. record[w].item \in Event
  BY <1>1, RecordParts
<1>3. /\ row' = row \/ row' = [row EXCEPT ![record[w].item] = AfterDispatch(w)]
      /\ failed[w] = FALSE /\ failed' = [failed EXCEPT ![w] = TRUE] /\ pc[w] = "deliver"
      /\ UNCHANGED <<inbox, handled, thrown, pc, age, record, sub, tries, replays, replayed,
                     reapplied>>
      /\ row \in [Event -> Row("processed")] /\ failed \in [Publisher -> BOOLEAN]
  BY <1>1 DEF AckFails, Published, IInv, TypeOK
<1>4. /\ row' \in [Event -> Row("processed")] /\ RowsOK'
      /\ \A f \in Event : row'[f].attempts <= MaxAttempts /\ row'[f].reclaims <= MaxReclaims + 1
      /\ \A f \in Event : \/ row'[f].token = NoToken
                          \/ row'[f].token = row[f].token /\ row'[f].attempts = row[f].attempts
  <2>1. CASE row' = row
    BY <2>1 DEF IInv, TypeOK, RowsOK
  <2>2. CASE row' = [row EXCEPT ![record[w].item] = AfterDispatch(w)] /\ row' # row
    <3>1. AfterDispatch(w) # row[record[w].item]
      BY <1>2, <1>3, <2>2
    <3>2. /\ AfterDispatch(w) \in Row("processed") /\ RowOK(AfterDispatch(w))
          /\ AfterDispatch(w).token = NoToken
      BY <1>1, <3>1, AckRow DEF IsFree
    <3> QED
      BY <1>2, <2>2, <3>2, FreedRow
  <2> QED
    BY <1>3, <2>1, <2>2
<1>5. TypeOK'
  BY <1>1, <1>3, <1>4 DEF IInv, TypeOK
<1>6. OnlyAt(w)
  BY <1>3 DEF OnlyAt, SamePlace
<1>7. PlaceOK(w)' /\ HolderOK(w)'
  BY <1>1, <1>3 DEF PlaceOK, HolderOK, HasRecord, Busy
<1>8. PlacesOK'
  BY <1>1, <1>3, <1>6, <1>7, OthersPlaced
<1>9. HeldIsCurrent'
  BY <1>3, <1>4, HeldStays
<1>10. \A e \in Event : row'[e] # row[e] =>
         e = record[w].item /\ failed[w] = FALSE /\ row'[e] = AfterDispatch(w)
  BY <1>2, <1>3
<1> QED
  BY <1>1, <1>3, <1>4, <1>5, <1>6, <1>8, <1>9, <1>10 DEF IInv

\* What a sweep takes back was claimed, and is charged and freed.
LEMMA SweptRow ==
  ASSUME IInv, NEW w \in Dispatcher, ReclaimExpired(w), NEW e \in Event
  PROVE  \/ row'[e] = row[e]
         \/ /\ row[e].claimed = TRUE /\ row[e].status = "pending"
            /\ row'[e] \in Row("processed") /\ RowOK(row'[e]) /\ IsFree(row'[e])
            /\ row'[e].attempts = row[e].attempts /\ row'[e].reclaims = row[e].reclaims + 1
<1>1. PICK S \in SUBSET {f \in Event : Abandoned(row[f], age[w])} :
        row' = [f \in Event |-> IF f \in S THEN Reclaim(row[f], age[w]) ELSE row[f]]
  BY DEF ReclaimExpired, InDueOrder
<1>2. row[e] \in Row("processed") /\ RowOK(row[e]) /\ age[w] \in Nat
  BY TimingAssumption DEF IInv, TypeOK, RowsOK, Publisher
<1>3. row[e].attempts \in Nat /\ row[e].reclaims \in Nat /\ row[e].claimed \in BOOLEAN
  BY <1>2 DEF Row
<1>4. CASE e \in S
  <2>1. row'[e] = Reclaim(row[e], age[w]) /\ row[e].claimed = TRUE /\ row[e].status = "pending"
    BY <1>1, <1>3, <1>4 DEF Abandoned
  <2>2. /\ Reclaim(row[e], age[w]) \in Row("processed")
        /\ IsFree(Reclaim(row[e], age[w]))
        /\ Reclaim(row[e], age[w]).attempts = row[e].attempts
        /\ Reclaim(row[e], age[w]).reclaims = row[e].reclaims + 1
        /\ Reclaim(row[e], age[w]).status =
             IF row[e].reclaims + 1 > MaxReclaims THEN "dead" ELSE row[e].status
    BY <1>2, ReclaimRow
  <2>3. RowOK(row'[e])
    BY <1>2, <1>3, <2>1, <2>2, BudgetAssumption DEF RowOK, IsFree
  <2> QED
    BY <2>1, <2>2, <2>3
<1>5. CASE e \notin S
  BY <1>1, <1>5
<1> QED
  BY <1>4, <1>5

\* The sweep at the start of a drain.
LEMMA SweepStep ==
  ASSUME IInv, NEW w \in Dispatcher, ReclaimExpired(w)
  PROVE  IInv'
<1>1. w \in Publisher /\ w # Replayer /\ PlaceOK(w) /\ HolderOK(w)
  BY InboundAssumption DEF Publisher, IInv, PlacesOK
<1>2. /\ pc[w] = "reclaim" /\ pc' = [pc EXCEPT ![w] = "claim"]
      /\ UNCHANGED <<inbox, handled, thrown, age, record, sub, tries, failed, replays, replayed, reapplied>>
  BY DEF ReclaimExpired
<1>3. \A e \in Event :
        /\ row'[e] \in Row("processed") /\ RowOK(row'[e])
        /\ \/ row'[e].token = NoToken
           \/ row'[e].token = row[e].token /\ row'[e].attempts = row[e].attempts
  BY SweptRow DEF IInv, TypeOK, RowsOK, IsFree
<1>4. row' \in [Event -> Row("processed")]
  <2>1. PICK S : row' = [f \in Event |-> IF f \in S THEN Reclaim(row[f], age[w]) ELSE row[f]]
    BY DEF ReclaimExpired
  <2> DEFINE new(f) == IF f \in S THEN Reclaim(row[f], age[w]) ELSE row[f]
  <2>2. row' = [f \in Event |-> new(f)]
    BY <2>1
  <2> HIDE DEF new
  <2>3. \A f \in Event : new(f) \in Row("processed")
    BY <1>3, <2>2
  <2> QED
    BY <2>2, <2>3
<1>5. TypeOK'
  <2>1. \A f \in Event : row'[f].attempts <= MaxAttempts /\ row'[f].reclaims <= MaxReclaims + 1
    BY <1>3 DEF RowOK
  <2>2. pc' \in [Publisher -> {"idle", "reclaim", "claim", "forget", "deliver", "handle",
                               "release", "reclaimInbox"}]
    BY <1>1, <1>2 DEF IInv, TypeOK
  <2> QED
    BY <1>2, <1>4, <2>1, <2>2 DEF IInv, TypeOK
<1>6. OnlyAt(w) /\ pc'[w] = "claim" /\ record'[w] = record[w] /\ sub'[w] = sub[w]
      /\ tries'[w] = tries[w] /\ failed'[w] = failed[w]
  BY <1>1, <1>2 DEF OnlyAt, SamePlace, IInv, TypeOK
<1>7. PlaceOK(w)' /\ HolderOK(w)'
  BY <1>1, <1>2, <1>6 DEF PlaceOK, HolderOK, HasRecord, Busy
<1>8. PlacesOK'
  BY <1>1, <1>2, <1>6, <1>7, OthersPlaced
<1>9. HeldIsCurrent'
  BY <1>2, <1>3, HeldStays
<1> QED
  BY <1>3, <1>5, <1>8, <1>9 DEF IInv, RowsOK

\* What a claim writes: one unclaimed row, under a token no record carries.
LEMMA ClaimedRow ==
  ASSUME IInv, NEW w \in Dispatcher, ClaimDue(w)
  PROVE  \E e \in Event, t \in Token \ TokensInUse, new \in Row("processed"), rec \in Record :
           /\ row[e].claimed = FALSE /\ row[e].status = "pending"
           /\ row' = [row EXCEPT ![e] = new] /\ SameHistory(row[e], new) /\ RowOK(new)
           /\ new.claimed = TRUE /\ new.token = t
           /\ record' = [record EXCEPT ![w] = rec]
           /\ rec.item = e /\ rec.token = t /\ rec.attempts = row[e].attempts
<1>1. PICK e \in ClaimableEvents(w), t \in Token \ TokensInUse :
        /\ row' = [row EXCEPT ![e] = Claim(@, age[w], t)]
        /\ record' = [record EXCEPT ![w] =
             [item |-> e, token |-> t, attempts |-> row[e].attempts,
              status |-> "pending", mode |-> "dispatch"]]
  BY DEF ClaimDue, InDueOrder
<1>2. e \in Event /\ t \in Token /\ t # NoToken /\ row[e].status = "pending" /\ ~row[e].claimed
  BY NoTokenAssumption DEF ClaimableEvents, Claimable
<1>3. row[e] \in Row("processed") /\ RowOK(row[e]) /\ age[w] \in Nat
  BY <1>2, TimingAssumption DEF IInv, TypeOK, RowsOK, Publisher
<1> DEFINE new == Claim(row[e], age[w], t)
           rec == [item |-> e, token |-> t, attempts |-> row[e].attempts,
                   status |-> "pending", mode |-> "dispatch"]
<1>4. new \in Row("processed") /\ new.claimed = TRUE /\ new.token = t /\ SameHistory(row[e], new)
  BY <1>2, <1>3, ClaimRow
<1>5. RowOK(new)
  BY <1>2, <1>3, <1>4 DEF RowOK, SameHistory
<1>6. rec \in Record /\ rec.item = e /\ rec.token = t /\ rec.attempts = row[e].attempts
  BY <1>2, <1>3 DEF Record, Row
<1>7. row' = [row EXCEPT ![e] = new] /\ record' = [record EXCEPT ![w] = rec]
  BY <1>1
<1>8. row[e].claimed = FALSE
  BY <1>2, <1>3 DEF Row
<1> HIDE DEF new, rec
<1> e \in Event /\ new \in Row("processed") /\ rec \in Record
  BY <1>2, <1>4, <1>6
<1> WITNESS e \in Event, t \in Token \ TokensInUse, new \in Row("processed"), rec \in Record
<1> QED
  BY <1>2, <1>4, <1>5, <1>6, <1>7, <1>8

\* A claim: the new token is nobody else's, and the copy is of the row claimed.
LEMMA ClaimStep ==
  ASSUME IInv, NEW w \in Dispatcher, ClaimDue(w)
  PROVE  IInv'
<1>1. PICK e \in Event, t \in Token \ TokensInUse, new \in Row("processed"), rec \in Record :
        /\ row[e].claimed = FALSE /\ row[e].status = "pending"
        /\ row' = [row EXCEPT ![e] = new] /\ SameHistory(row[e], new) /\ RowOK(new)
        /\ new.claimed = TRUE /\ new.token = t
        /\ record' = [record EXCEPT ![w] = rec]
        /\ rec.item = e /\ rec.token = t /\ rec.attempts = row[e].attempts
  BY ClaimedRow
<1>2. w \in Publisher /\ w # Replayer /\ PlaceOK(w) /\ HolderOK(w) /\ rec # NoRecord
  BY InboundAssumption, NoRecordAssumption DEF Publisher, IInv, PlacesOK
<1>3. /\ pc[w] = "claim" /\ pc' = [pc EXCEPT ![w] = "deliver"]
      /\ UNCHANGED <<inbox, handled, thrown, age, sub, tries, failed, replays, replayed, reapplied>>
  BY DEF ClaimDue
<1>4. row \in [Event -> Row("processed")] /\ record \in [Publisher -> Record \union {NoRecord}]
  BY DEF IInv, TypeOK
<1>5. /\ \A f \in Event : row'[f] = IF f = e THEN new ELSE row[f]
      /\ \A q \in Publisher : record'[q] = IF q = w THEN rec ELSE record[q]
  BY <1>1, <1>2, <1>4
<1>6. RowsOK'
  BY <1>1, <1>5 DEF IInv, RowsOK
<1>7. TypeOK'
  <2>1. row' \in [Event -> Row("processed")] /\ record' \in [Publisher -> Record \union {NoRecord}]
    BY <1>1, <1>2, <1>4
  <2>2. \A f \in Event : row'[f].attempts <= MaxAttempts /\ row'[f].reclaims <= MaxReclaims + 1
    BY <1>6 DEF RowsOK, RowOK
  <2>3. pc' \in [Publisher -> {"idle", "reclaim", "claim", "forget", "deliver", "handle",
                               "release", "reclaimInbox"}]
    BY <1>2, <1>3 DEF IInv, TypeOK
  <2> QED
    BY <1>3, <2>1, <2>2, <2>3 DEF IInv, TypeOK
<1>8. OnlyAt(w) /\ pc'[w] = "deliver" /\ sub'[w] = sub[w] /\ tries'[w] = tries[w]
      /\ failed'[w] = failed[w] /\ record'[w] = rec
  BY <1>2, <1>3, <1>5 DEF OnlyAt, SamePlace, IInv, TypeOK
<1>9. PlacesOK'
  <2>1. PlaceOK(w)' /\ HolderOK(w)'
    BY <1>1, <1>2, <1>3, <1>8 DEF PlaceOK, HolderOK, HasRecord, Busy
  <2> QED
    BY <1>2, <1>3, <1>8, <2>1, OthersPlaced
<1>10. HeldIsCurrent'
  <2> SUFFICES ASSUME NEW q \in Dispatcher, HasRecord(q)',
                      record'[q].token = row'[record'[q].item].token
               PROVE  record'[q].attempts = row'[record'[q].item].attempts
    BY DEF HeldIsCurrent
  <2>1. CASE q = w
    BY <1>1, <1>5, <1>8, <2>1 DEF SameHistory
  <2>2. CASE q # w
    <3>1. record'[q] = record[q] /\ HasRecord(q) /\ q \in Publisher
      BY <1>5, <2>2 DEF HasRecord, Publisher
    <3>2. record[q].token \in TokensInUse /\ record[q].item \in Event
      BY <3>1, RecordParts DEF TokensInUse, HasRecord
    <3>3. record[q].item # e
      BY <1>1, <1>5, <3>1, <3>2
    <3> QED
      BY <1>5, <3>1, <3>2, <3>3 DEF IInv, HeldIsCurrent
  <2> QED
    BY <2>1, <2>2
<1> QED
  BY <1>6, <1>7, <1>9, <1>10 DEF IInv

\* Time passes: no claim and no count changes.
LEMMA AgedRow ==
  ASSUME IInv, Tick, NEW e \in Event
  PROVE  row'[e] \in Row("processed") /\ SameClaim(row[e], row'[e]) /\ SameHistory(row[e], row'[e])
<1>1. row'[e] = IF row[e].status = "pending" THEN Older(row[e]) ELSE row[e]
  BY DEF Tick
<1>2. row[e] \in Row("processed")
  BY DEF IInv, TypeOK
<1>3. /\ Older(row[e]) \in Row("processed")
      /\ SameClaim(row[e], Older(row[e])) /\ SameHistory(row[e], Older(row[e]))
  BY <1>2, OlderRow
<1> QED
  BY <1>1, <1>2, <1>3 DEF SameClaim, SameHistory

\* Time keeps IInv.
LEMMA TickStep ==
  ASSUME IInv, Tick
  PROVE  IInv'
<1>1. UNCHANGED <<inbox, handled, thrown, pc, record, sub, tries, failed, replays, replayed, reapplied>>
  BY DEF Tick, delivery
<1>2. RowsOK'
  BY AgedRow DEF IInv, RowsOK, RowOK, SameClaim, SameHistory
<1>3. TypeOK'
  <2>1. row' \in [Event -> Row("processed")]
    <3> DEFINE new(f) == IF row[f].status = "pending" THEN Older(row[f]) ELSE row[f]
    <3>1. row' = [f \in Event |-> new(f)]
      BY DEF Tick
    <3> HIDE DEF new
    <3>2. \A f \in Event : new(f) \in Row("processed")
      BY <3>1, AgedRow
    <3> QED
      BY <3>1, <3>2
  <2>2. \A f \in Event : row'[f].attempts <= MaxAttempts /\ row'[f].reclaims <= MaxReclaims + 1
    BY <1>2 DEF RowsOK, RowOK
  <2>3. age' \in [Publisher -> 0..Horizon]
    <3>1. age \in [Publisher -> 0..Horizon]
      BY DEF IInv, TypeOK
    <3> QED
      BY <3>1, TimingAssumption DEF Tick
  <2> QED
    BY <1>1, <2>1, <2>2, <2>3 DEF IInv, TypeOK
<1>4. PlacesOK'
  BY <1>1 DEF IInv, PlacesOK, PlaceOK, HolderOK, HasRecord, Busy
<1>5. HeldIsCurrent'
  BY <1>1, AgedRow, HeldStays DEF SameClaim, SameHistory
<1> QED
  BY <1>2, <1>3, <1>4, <1>5 DEF IInv

\* A step that changes nothing.
LEMMA StutterStep == IInv /\ UNCHANGED vars => IInv'
BY DEF vars, delivery, IInv, TypeOK, RowsOK, PlacesOK, PlaceOK, HolderOK, HasRecord, Busy,
       HeldIsCurrent

\* Every step of the specification preserves IInv.
LEMMA NextIInv == IInv /\ [Next]_vars => IInv'
<1> SUFFICES ASSUME IInv, [Next]_vars PROVE IInv'
  OBVIOUS
<1>1. CASE \E e \in Event : Accept(e)
  BY <1>1, AcceptStep
<1>2. CASE (\E e \in Event, mode \in {"pending_only", "reapply"} : StartReplay(e, mode))
           \/ ForgetInbox(Replayer)
  BY <1>2, ReplayStep
<1>3. CASE \E w \in Dispatcher : ReclaimExpired(w) \/ ClaimDue(w)
  BY <1>3, SweepStep, ClaimStep
<1>4. CASE (\E w \in Dispatcher : Poll(w) \/ NothingDue(w)) \/ \E p \in Publisher : Crash(p)
  BY <1>4, IdleStep DEF Publisher
<1>5. CASE \E p \in Publisher : Deliver(p) \/ InboxError(p)
  BY <1>5, BusStep
<1>6. CASE (\E w \in Dispatcher : AckDispatch(w)) \/ AckReplay
  BY <1>6, AckStep
<1>7. CASE Tick
  BY <1>7, TickStep
<1>8. CASE \E w \in Dispatcher : AckFails(w)
  BY <1>8, AckFailsStep
<1>9. CASE UNCHANGED vars
  BY <1>9, StutterStep
<1> QED
  BY <1>1, <1>2, <1>3, <1>4, <1>5, <1>6, <1>7, <1>8, <1>9 DEF Next, Deliver

\* IInv holds in every state of every behaviour.
LEMMA SpecIInv == Spec => []IInv
BY InitIInv, NextIInv, PTL DEF Spec

\* TypeOK: rows, records and places in bus.publish keep their types, and an
\* inbound row never exceeds its two budgets.
THEOREM Typing == Spec => []TypeOK
<1>1. IInv => TypeOK
  BY DEF IInv
<1> QED
  BY <1>1, SpecIInv, PTL

-----------------------------------------------------------------------------
(* What a step may do to a row. *)

\* The history of a row changes only when it is accepted, swept up or settled
\* by the dispatcher whose claim stands, or settled by a replay that succeeded.
LEMMA RowMoves ==
  ASSUME IInv, [Next]_vars, NEW e \in Event
  PROVE  \/ SameHistory(row[e], row'[e])
         \/ row[e].status = "absent" /\ row'[e].attempts = row[e].attempts
         \/ row[e].status = "pending" /\ row'[e].attempts = row[e].attempts
         \/ \E w \in Dispatcher :
              /\ row[e].status = "pending" /\ record[w] # NoRecord /\ record[w].item = e
              /\ record[w].token = row[e].token /\ failed[w] = TRUE /\ record'[w] = NoRecord
         \/ /\ row'[e].status = "processed" /\ row'[e].attempts = row[e].attempts
            /\ failed[Replayer] = FALSE /\ Published(Replayer) /\ record[Replayer].item = e
<1>0. row \in [Event -> Row("processed")]
  BY DEF IInv, TypeOK
<1>1. ASSUME NEW f \in Event, Accept(f)
      PROVE  SameHistory(row[e], row'[e])
             \/ (row[e].status = "absent" /\ row'[e].attempts = row[e].attempts)
  <2>1. row'[e] = IF e = f THEN NewRow ELSE row[e]
    BY <1>0, <1>1 DEF Accept
  <2>2. e = f => row[e].status = "absent" /\ row[e].attempts = 0
    BY <1>1 DEF Accept, IInv, RowsOK, RowOK
  <2>3. NewRow.attempts = 0
    BY BlankRow
  <2> QED
    BY <2>1, <2>2, <2>3 DEF SameHistory
<1>2. CASE (\E f \in Event, mode \in {"pending_only", "reapply"} : StartReplay(f, mode))
           \/ ForgetInbox(Replayer)
  BY <1>2, ReplayStep DEF SameHistory
<1>3. ASSUME NEW w \in Dispatcher, ReclaimExpired(w)
      PROVE  SameHistory(row[e], row'[e])
             \/ (row[e].status = "pending" /\ row'[e].attempts = row[e].attempts)
  BY <1>3, SweptRow DEF SameHistory
<1>4. ASSUME NEW w \in Dispatcher, ClaimDue(w) PROVE SameHistory(row[e], row'[e])
  <2>1. PICK f \in Event, t \in Token \ TokensInUse, new \in Row("processed"), rec \in Record :
          /\ row[f].claimed = FALSE /\ row[f].status = "pending"
          /\ row' = [row EXCEPT ![f] = new] /\ SameHistory(row[f], new) /\ RowOK(new)
          /\ new.claimed = TRUE /\ new.token = t
          /\ record' = [record EXCEPT ![w] = rec]
          /\ rec.item = f /\ rec.token = t /\ rec.attempts = row[f].attempts
    BY <1>4, ClaimedRow
  <2> QED
    BY <1>0, <2>1 DEF SameHistory
<1>5. CASE (\E w \in Dispatcher : Poll(w) \/ NothingDue(w)) \/ \E p \in Publisher : Crash(p)
  BY <1>5 DEF Poll, NothingDue, Crash, SameHistory
<1>6. CASE \E p \in Publisher : Deliver(p) \/ InboxError(p)
  BY <1>6, BusStep DEF SameHistory
<1>7. ASSUME NEW w \in Dispatcher, AckDispatch(w)
      PROVE  \/ SameHistory(row[e], row'[e])
             \/ row[e].status = "pending" /\ row'[e].attempts = row[e].attempts
             \/ /\ row[e].status = "pending" /\ record[w] # NoRecord /\ record[w].item = e
                /\ record[w].token = row[e].token /\ failed[w] = TRUE /\ record'[w] = NoRecord
  <2>1. w \in Publisher /\ HasRecord(w)
    BY <1>7 DEF Publisher, AckDispatch, Published, IInv, PlacesOK, PlaceOK
  <2>2. record[w].item \in Event
    BY <2>1, RecordParts
  <2>3. row'[e] = IF e = record[w].item THEN AfterDispatch(w) ELSE row[e]
    BY <1>0, <1>7, <2>2 DEF AckDispatch
  <2>4. record'[w] = NoRecord
    BY <1>7, <2>1, RestPlace DEF AckDispatch
  <2> QED
    BY <2>1, <2>3, <2>4, AckRow DEF SameHistory, HasRecord
<1>8. ASSUME AckReplay
      PROVE  \/ SameHistory(row[e], row'[e])
             \/ /\ row'[e].status = "processed" /\ row'[e].attempts = row[e].attempts
                /\ failed[Replayer] = FALSE /\ Published(Replayer) /\ record[Replayer].item = e
  <2>1. Published(Replayer)
    BY <1>8 DEF AckReplay
  <2> QED
    BY <1>0, <1>8, <2>1, ReplayedRow DEF SameHistory
<1>9. ASSUME NEW w \in Dispatcher, AckFails(w)
      PROVE  SameHistory(row[e], row'[e])
             \/ (row[e].status = "pending" /\ row'[e].attempts = row[e].attempts)
  <2>1. CASE row'[e] = row[e]
    BY <2>1 DEF SameHistory
  <2>2. CASE row'[e] # row[e]
    <3>1. /\ HasRecord(w) /\ e = record[w].item /\ failed[w] = FALSE
          /\ row'[e] = AfterDispatch(w) /\ AfterDispatch(w) # row[e]
      BY <1>9, <2>2, AckFailsStep
    <3> QED
      BY <3>1, AckRow
  <2> QED
    BY <2>1, <2>2
<1>10. CASE Tick
  BY <1>10, AgedRow
<1>11. CASE UNCHANGED vars
  BY <1>11 DEF vars, SameHistory
<1> QED
  BY <1>1, <1>2, <1>3, <1>4, <1>5, <1>6, <1>7, <1>8, <1>9, <1>10, <1>11 DEF Next, Deliver

\* ProcessedIsFinal: neither a stale dispatcher, nor a sweep, nor a replay
\* changes the status or the attempts of a processed inbound row.
THEOREM Finality == Spec => ProcessedIsFinal
<1>1. ASSUME IInv, [Next]_vars
      PROVE  \A e \in Event : row[e].status = "processed" =>
               row'[e].status = "processed" /\ row'[e].attempts = row[e].attempts
  BY <1>1, RowMoves DEF SameHistory
<1> QED
  BY <1>1, SpecIInv, PTL DEF Spec, ProcessedIsFinal

\* OnlyTheHolderCharges: an attempt is charged by the dispatcher whose token
\* the row still carries, and a dead row leaves that state only when a replay
\* has delivered its event.
THEOREM HolderCharges == Spec => OnlyTheHolderCharges
<1>1. ASSUME IInv, [Next]_vars
      PROVE  \A e \in Event :
               /\ row'[e].attempts # row[e].attempts =>
                    \E w \in Dispatcher : /\ record[w] # NoRecord /\ record[w].item = e
                                          /\ record[w].token = row[e].token
                                          /\ failed[w] /\ record'[w] = NoRecord
               /\ (row[e].status = "dead" /\ row'[e].status # "dead") =>
                    /\ row'[e].status = "processed"
                    /\ ~failed[Replayer] /\ Published(Replayer) /\ record[Replayer].item = e
  BY <1>1, RowMoves DEF SameHistory
<1> QED
  BY <1>1, SpecIInv, PTL DEF Spec, OnlyTheHolderCharges

-----------------------------------------------------------------------------
(* Every step preserves CalmWhileQuiet. *)

\* Nothing that Calm(e) speaks of has changed, except that a publisher may
\* have let the event go.
Untouched(e) ==
  /\ \A c \in Consumer : /\ handled'[<<c, e>>] = handled[<<c, e>>]
                         /\ <<c, e>> \in inbox' <=> <<c, e>> \in inbox
  /\ \A p \in Publisher : On(p, e)' => SamePlace(p)

\* An event that a step leaves alone stays calm.
LEMMA CalmFrame ==
  ASSUME IInv, CalmWhileQuiet, NEW e \in Event, Quiet(e)', Untouched(e),
         SameClaim(row[e], row'[e]), SameHistory(row[e], row'[e]), replayed \subseteq replayed'
  PROVE  Calm(e)'
<1>1. Calm(e)
  BY DEF CalmWhileQuiet, Quiet, SameHistory
<1>2. ASSUME NEW p \in Publisher, On(p, e)'
      PROVE  On(p, e) /\ SamePlace(p) /\ Conduct(p, e) /\ Pair(p)' = Pair(p)
  BY <1>1, <1>2 DEF Untouched, On, HasRecord, SamePlace, Calm, Pair
<1>3. ASSUME NEW p \in Publisher, On(p, e)' PROVE Conduct(p, e)'
  <2>1. On(p, e) /\ SamePlace(p) /\ Conduct(p, e) /\ Pair(p)' = Pair(p)
    BY <1>2, <1>3
  <2>2. Busy(p) => Subscribers[sub[p]] \in Consumer /\ Pair(p) = <<Subscribers[sub[p]], e>>
    BY <2>1, PairInHand DEF On
  <2>3. Busy(p)' <=> Busy(p)
    BY <2>1 DEF Busy, SamePlace
  <2>4. Busy(p)' => handled'[Pair(p)'] = 0
    BY <2>1, <2>2, <2>3 DEF Conduct, Untouched
  <2>5. pc'[p] = "handle" => Pair(p)' \in inbox'
    BY <2>1, <2>2 DEF Conduct, Untouched, SamePlace, Busy
  <2>6. /\ p \in Dispatcher
        /\ \/ row'[e].claimed = TRUE /\ record'[p].token = row'[e].token
           \/ row'[e].status = "processed" /\ failed'[p] = TRUE /\ Published(p)'
    BY <2>1 DEF Conduct, SamePlace, SameClaim, SameHistory, Published
  <2>7. ASSUME failed'[p] = FALSE
        PROVE  /\ \A i \in 1..(sub'[p] - 1) : handled'[<<Subscribers[i], e>>] = 1
               /\ \A c \in Consumer : <<c, e>> \in inbox' =>
                    handled'[<<c, e>>] = 1 \/ (Busy(p)' /\ c = Subscribers[sub'[p]])
    <3>1. failed[p] = FALSE /\ sub'[p] = sub[p]
      BY <2>1, <2>7 DEF SamePlace
    <3>2. \A i \in 1..(sub[p] - 1) : Subscribers[i] \in Consumer
      <4>1. sub[p] \in 1..(Len(Subscribers) + 1)
        BY DEF IInv, TypeOK
      <4>2. \A i \in 1..(sub[p] - 1) : i \in 1..Len(Subscribers)
        BY <4>1, InboundAssumption
      <4> QED
        BY <4>2, InboundAssumption DEF Consumer
    <3> QED
      BY <2>1, <2>3, <3>1, <3>2 DEF Conduct, Untouched
  <2> QED
    BY <2>4, <2>5, <2>6, <2>7 DEF Conduct
<1>4. \A p, q \in Publisher : On(p, e)' /\ On(q, e)' => p = q
  BY <1>1, <1>2 DEF Calm
<1>5. \A c \in Consumer : handled'[<<c, e>>] > 0 => handled'[<<c, e>>] = 1 /\ <<c, e>> \in inbox'
  BY <1>1 DEF Calm, Untouched
<1>6. /\ row'[e].claimed = FALSE /\ row'[e].status # "processed" =>
           \A c \in Consumer : <<c, e>> \notin inbox'
      /\ row'[e].status = "processed" => \A c \in Consumer : handled'[<<c, e>>] = 1
  BY <1>1 DEF Calm, Untouched, SameClaim, SameHistory
<1> QED
  BY <1>3, <1>4, <1>5, <1>6 DEF Calm

\* Nobody works on an unclaimed quiet event, and nothing of it is handled.
LEMMA NobodyOn ==
  ASSUME IInv, NEW e \in Event, Calm(e), row[e].claimed = FALSE, row[e].status # "processed"
  PROVE  /\ \A p \in Publisher : ~On(p, e)
         /\ \A c \in Consumer : <<c, e>> \notin inbox /\ handled[<<c, e>>] = 0
<1>1. \A p \in Publisher : ~On(p, e)
  BY DEF Calm, Conduct
<1>2. \A c \in Consumer : handled[<<c, e>>] \in 0..HandledCap
  BY DEF IInv, TypeOK
<1>3. \A c \in Consumer : <<c, e>> \notin inbox /\ ~(handled[<<c, e>>] > 0)
  BY DEF Calm
<1> QED
  BY <1>1, <1>2, <1>3, InboundAssumption DEF HandledCap

\* Nothing has happened yet.
LEMMA InitCalm == Init => CalmWhileQuiet
<1> SUFFICES ASSUME Init PROVE CalmWhileQuiet
  OBVIOUS
<1>1. Absent.status = "absent"
  BY BlankRow
<1>2. ASSUME NEW e \in Event PROVE Calm(e)
  <2>1. /\ row[e] = Absent /\ \A c \in Consumer : handled[<<c, e>>] = 0 /\ <<c, e>> \notin inbox
        /\ \A p \in Publisher : ~On(p, e)
    BY DEF Init, On, HasRecord
  <2> QED
    BY <1>1, <2>1 DEF Calm
<1> QED
  BY <1>2 DEF CalmWhileQuiet

\* An event is accepted calm: nobody can have worked on it.
LEMMA AcceptCalm ==
  ASSUME IInv, CalmWhileQuiet, NEW e \in Event, Accept(e), Quiet(e)'
  PROVE  Calm(e)'
<1>1. row[e].status = "absent" /\ RowOK(row[e]) /\ row[e] \in Row("processed")
      /\ row'[e] = NewRow
      /\ UNCHANGED <<inbox, handled, thrown, pc, record, sub, tries, failed, replayed>>
  BY DEF Accept, IInv, RowsOK, TypeOK, delivery
<1>2. row[e].claimed = FALSE /\ row[e].attempts = 0 /\ row[e].reclaims = 0
  BY <1>1 DEF RowOK, Row
<1>3. Calm(e)
  BY <1>1, <1>2 DEF CalmWhileQuiet, Quiet
<1>4. /\ \A p \in Publisher : ~On(p, e)'
      /\ \A c \in Consumer : <<c, e>> \notin inbox' /\ handled'[<<c, e>>] = 0
  BY <1>1, <1>2, <1>3, NobodyOn DEF On, HasRecord
<1>5. row'[e].status # "processed"
  BY <1>1, BlankRow
<1> QED
  BY <1>4, <1>5 DEF Calm

\* The first dispatcher to claim a quiet event finds nothing of it done, and
\* every other event as it was.
LEMMA ClaimCalm ==
  ASSUME IInv, CalmWhileQuiet, NEW w \in Dispatcher, ClaimDue(w), NEW e \in Event, Quiet(e)'
  PROVE  Calm(e)'
<1>1. PICK f \in Event, t \in Token \ TokensInUse, new \in Row("processed"), rec \in Record :
        /\ row[f].claimed = FALSE /\ row[f].status = "pending"
        /\ row' = [row EXCEPT ![f] = new] /\ SameHistory(row[f], new) /\ RowOK(new)
        /\ new.claimed = TRUE /\ new.token = t
        /\ record' = [record EXCEPT ![w] = rec]
        /\ rec.item = f /\ rec.token = t /\ rec.attempts = row[f].attempts
  BY ClaimedRow
<1>2. w \in Publisher /\ PlaceOK(w) /\ rec # NoRecord
  BY NoRecordAssumption DEF Publisher, IInv, PlacesOK
<1>3. /\ pc[w] = "claim" /\ pc' = [pc EXCEPT ![w] = "deliver"]
      /\ UNCHANGED <<inbox, handled, thrown, sub, tries, failed, replayed>>
  BY DEF ClaimDue
<1>4. /\ row \in [Event -> Row("processed")] /\ record \in [Publisher -> Record \union {NoRecord}]
      /\ pc \in [Publisher -> {"idle", "reclaim", "claim", "forget", "deliver", "handle",
                               "release", "reclaimInbox"}]
  BY DEF IInv, TypeOK
<1>5. /\ row'[e] = IF e = f THEN new ELSE row[e]
      /\ \A q \in Publisher : record'[q] = IF q = w THEN rec ELSE record[q]
      /\ \A q \in Publisher : pc'[q] = IF q = w THEN "deliver" ELSE pc[q]
  BY <1>1, <1>2, <1>3, <1>4
<1>6. CASE e = f
  <2>1. Calm(e)
    BY <1>1, <1>3, <1>5, <1>6 DEF CalmWhileQuiet, Quiet, SameHistory
  <2>2. /\ \A p \in Publisher : ~On(p, e)
        /\ \A c \in Consumer : <<c, e>> \notin inbox /\ handled[<<c, e>>] = 0
    BY <1>1, <1>6, <2>1, NobodyOn
  <2>3. \A p \in Publisher : On(p, e)' => p = w
    BY <1>5, <2>2 DEF On, HasRecord
  <2>4. ~HasRecord(w)
    BY <1>2, <1>3 DEF PlaceOK
  <2>5. sub'[w] = 1 /\ failed'[w] = FALSE /\ ~Busy(w)' /\ pc'[w] = "deliver"
    BY <1>2, <1>3, <1>5, <2>4 DEF PlaceOK, Busy
  <2>6. row'[e].claimed = TRUE /\ record'[w].token = row'[e].token
        /\ row'[e].status # "processed"
    BY <1>1, <1>2, <1>5, <1>6 DEF SameHistory
  <2>7. Conduct(w, e)'
    <3>1. \A i \in 1..(sub'[w] - 1) : FALSE
      BY <2>5
    <3> QED
      BY <1>3, <2>2, <2>5, <2>6, <3>1 DEF Conduct
  <2> QED
    BY <1>3, <2>2, <2>3, <2>6, <2>7 DEF Calm
<1>7. CASE e # f
  <2>1. SameClaim(row[e], row'[e]) /\ SameHistory(row[e], row'[e])
    BY <1>5, <1>7 DEF SameClaim, SameHistory
  <2>2. Untouched(e)
    BY <1>1, <1>3, <1>5, <1>7 DEF Untouched, SamePlace, On, HasRecord
  <2> QED
    BY <1>3, <2>1, <2>2, CalmFrame
<1> QED
  BY <1>6, <1>7

\* The bus serving a quiet event: the pair in hand is not handled yet, what is
\* handled stays in the inbox, and a pair that is passed over is handled.
LEMMA BusCalmOn ==
  ASSUME IInv, CalmWhileQuiet, NEW p \in Publisher, Deliver(p) \/ InboxError(p),
         NEW e \in Event, Quiet(e)', On(p, e)
  PROVE  Calm(e)'
<1>1. /\ IInv' /\ OnlyAt(p) /\ record' = record /\ UNCHANGED <<row, replayed>>
  BY BusStep
<1>2. Quiet(e) /\ Calm(e)
  BY <1>1 DEF Quiet, CalmWhileQuiet
<1>3. Conduct(p, e) /\ HasRecord(p) /\ record[p].item = e
  BY <1>2 DEF Calm, On
<1>4. /\ sub \in [Publisher -> 1..(Len(Subscribers) + 1)]
      /\ pc \in [Publisher -> {"idle", "reclaim", "claim", "forget", "deliver", "handle",
                               "release", "reclaimInbox"}]
      /\ failed \in [Publisher -> BOOLEAN]
      /\ handled \in [Consumer \X Event -> 0..HandledCap]
      /\ sub[p] \in Nat
  BY DEF IInv, TypeOK
<1>5. row[e].claimed = TRUE /\ row[e].status = "pending" /\ record[p].token = row[e].token
  <2>1. ~Published(p)
    BY <1>4, InboundAssumption
    DEF Deliver, InboxClaim, HandlerCommits, HandlerThrows, Release, ReclaimInbox, InboxError,
        Published
  <2> QED
    BY <1>3, <2>1 DEF Conduct, IInv, RowsOK, RowOK
<1> DEFINE c0 == Subscribers[sub[p]]
           H(c) == handled[<<c, e>>]
           I(c) == <<c, e>> \in inbox
<1>6. /\ \A c \in Consumer : H(c) \in 0..HandledCap
      /\ \A c \in Consumer : H(c) > 0 => H(c) = 1 /\ I(c)
      /\ Busy(p) => H(c0) = 0
      /\ pc[p] = "handle" => I(c0)
      /\ failed[p] = FALSE => /\ \A i \in 1..(sub[p] - 1) : H(Subscribers[i]) = 1
                              /\ \A c \in Consumer : I(c) => H(c) = 1 \/ (Busy(p) /\ c = c0)
      /\ HandledCap \in Nat /\ HandledCap > 0
  BY <1>2, <1>3, <1>4, InboundAssumption DEF Calm, Conduct, Pair, HandledCap
<1>7. \A i \in 1..(sub[p] - 1) : Subscribers[i] \in Consumer
  <2>1. sub[p] \in 1..(Len(Subscribers) + 1) /\ Len(Subscribers) \in Nat
    BY <1>4, InboundAssumption
  <2>2. \A i \in 1..(sub[p] - 1) : i \in 1..Len(Subscribers)
    BY <2>1
  <2> QED
    BY <2>2, InboundAssumption DEF Consumer
<1> DEFINE H1(c) == handled'[<<c, e>>]
           I1(c) == <<c, e>> \in inbox'
           Now == /\ \A c \in Consumer : H1(c) > 0 => H1(c) = 1 /\ I1(c)
                  /\ Busy(p)' => H1(Subscribers[sub'[p]]) = 0
                  /\ pc'[p] = "handle" => I1(Subscribers[sub'[p]])
                  /\ failed'[p] = FALSE =>
                       /\ \A i \in 1..(sub'[p] - 1) : H1(Subscribers[i]) = 1
                       /\ \A c \in Consumer : I1(c) =>
                            H1(c) = 1 \/ (Busy(p)' /\ c = Subscribers[sub'[p]])
<1>8. SUFFICES Now
  <2>1. Pair(p)' = <<Subscribers[sub'[p]], e>>
    BY <1>1, <1>3 DEF Pair
  <2>2. Conduct(p, e)'
    BY <1>1, <1>3, <1>5, <1>8, <2>1 DEF Conduct
  <2>3. \A q \in Publisher : On(q, e)' => q = p
    BY <1>1, <1>2 DEF Calm, On, HasRecord
  <2> QED
    BY <1>1, <1>5, <1>8, <2>2, <2>3 DEF Calm
<1>9. CASE InboxClaim(p) /\ Pair(p) \in inbox
  <2>1. /\ pc[p] = "deliver" /\ pc'[p] = "deliver" /\ sub'[p] = sub[p] + 1
        /\ UNCHANGED <<inbox, handled, thrown, failed>> /\ sub[p] <= Len(Subscribers)
    BY <1>4, <1>9 DEF InboxClaim, NextSubscriber
  <2>2. I(c0) /\ ~Busy(p) /\ ~Busy(p)' /\ c0 \in Consumer
    BY <1>3, <1>9, <2>1, PairInHand DEF Pair, Busy
  <2>3. failed[p] = FALSE => H(c0) = 1
    BY <1>6, <2>2
  <2>4. \A i \in 1..(sub'[p] - 1) : i \in 1..(sub[p] - 1) \/ i = sub[p]
    BY <1>4, <2>1
  <2> QED
    BY <1>6, <2>1, <2>2, <2>3, <2>4
<1>10. CASE InboxClaim(p) /\ Pair(p) \notin inbox
  <2>1. /\ pc[p] = "deliver" /\ pc'[p] = "handle" /\ sub'[p] = sub[p]
        /\ inbox' = inbox \union {<<c0, e>>} /\ UNCHANGED <<handled, thrown, failed>>
        /\ sub[p] <= Len(Subscribers)
    BY <1>3, <1>4, <1>10 DEF InboxClaim, Pair
  <2>2. ~I(c0) /\ ~Busy(p) /\ Busy(p)' /\ c0 \in Consumer
    BY <1>3, <1>10, <2>1, PairInHand DEF Pair, Busy
  <2>3. \A c \in Consumer : I1(c) <=> I(c) \/ c = c0
    BY <2>1
  <2>4. H(c0) = 0
    BY <1>6, <2>2
  <2> QED
    BY <1>6, <2>1, <2>2, <2>3, <2>4
<1>11. CASE HandlerCommits(p)
  <2>1. Pair(p) = <<c0, e>> /\ pc[p] = "handle" /\ Busy(p) /\ c0 \in Consumer
    BY <1>3, <1>11, PairInHand DEF HandlerCommits, Pair, Busy
  <2>2. I(c0) /\ H(c0) = 0
    BY <1>6, <2>1
  <2>3. /\ pc'[p] = "deliver" /\ sub'[p] = sub[p] + 1 /\ UNCHANGED <<inbox, failed>> /\ ~Busy(p)'
    BY <1>4, <1>11 DEF HandlerCommits, NextSubscriber, Busy
  <2>4. \A c \in Consumer : H1(c) = IF c = c0 THEN 1 ELSE H(c)
    BY <1>4, <1>6, <1>11, <2>1, <2>2 DEF HandlerCommits
  <2>5. \A i \in 1..(sub'[p] - 1) : i \in 1..(sub[p] - 1) \/ i = sub[p]
    BY <1>4, <2>3
  <2> QED
    BY <1>6, <1>7, <2>1, <2>2, <2>3, <2>4, <2>5
<1>12. CASE HandlerThrows(p)
  BY <1>4, <1>6, <1>12 DEF HandlerThrows, Busy
<1>13. CASE Release(p)
  <2>1. Pair(p) = <<c0, e>> /\ Busy(p) /\ c0 \in Consumer
    BY <1>3, <1>13, PairInHand DEF Release, Pair, Busy
  <2>2. inbox' = inbox \ {<<c0, e>>} /\ UNCHANGED handled
    BY <1>13, <2>1 DEF Release
  <2>3. \/ Busy(p)' /\ pc'[p] # "handle" /\ sub'[p] = sub[p] /\ failed'[p] = failed[p]
        \/ ~Busy(p)' /\ pc'[p] # "handle" /\ failed'[p] = TRUE
    BY <1>4, <1>13 DEF Release, Busy
  <2>4. \A c \in Consumer : I1(c) <=> I(c) /\ c # c0
    BY <2>2
  <2> QED
    BY <1>6, <2>1, <2>2, <2>3, <2>4
<1>14. CASE ReclaimInbox(p)
  <2>1. Pair(p) = <<c0, e>> /\ Busy(p) /\ c0 \in Consumer
    BY <1>3, <1>14, PairInHand DEF ReclaimInbox, Pair, Busy
  <2>2. /\ inbox' = inbox \union {<<c0, e>>} /\ UNCHANGED <<handled, thrown, sub, failed>>
        /\ pc'[p] = "handle" /\ Busy(p)'
    BY <1>4, <1>14, <2>1 DEF ReclaimInbox, Busy
  <2>3. \A c \in Consumer : I1(c) <=> I(c) \/ c = c0
    BY <2>2
  <2> QED
    BY <1>6, <2>1, <2>2, <2>3
<1>15. CASE InboxError(p)
  BY <1>4, <1>6, <1>15 DEF InboxError, Busy
<1> QED
  BY <1>9, <1>10, <1>11, <1>12, <1>13, <1>14, <1>15 DEF Deliver

\* The bus serving another event.
LEMMA BusCalmOff ==
  ASSUME IInv, CalmWhileQuiet, NEW p \in Publisher, Deliver(p) \/ InboxError(p),
         NEW e \in Event, Quiet(e)', ~On(p, e)
  PROVE  Calm(e)'
<1>1. /\ OnlyAt(p) /\ record' = record /\ UNCHANGED <<row, replayed>>
  BY BusStep
<1>2. HasRecord(p)
  BY DEF Deliver, InboxClaim, HandlerCommits, HandlerThrows, Release, ReclaimInbox, InboxError,
         IInv, PlacesOK, PlaceOK
<1>3. \A c : Pair(p) # <<c, e>>
  BY <1>2 DEF On, Pair
<1>4. \A c \in Consumer : <<c, e>> \in inbox' <=> <<c, e>> \in inbox
  BY <1>3 DEF Deliver, InboxClaim, HandlerCommits, HandlerThrows, Release, ReclaimInbox,
              InboxError
<1>5. \A c \in Consumer : handled'[<<c, e>>] = handled[<<c, e>>]
  <2>1. handled \in [Consumer \X Event -> 0..HandledCap]
    BY DEF IInv, TypeOK
  <2> QED
    BY <1>3, <2>1 DEF Deliver, InboxClaim, HandlerCommits, HandlerThrows, Release, ReclaimInbox,
                      InboxError
<1>6. Untouched(e)
  BY <1>1, <1>4, <1>5 DEF Untouched, OnlyAt, On, HasRecord
<1> QED
  BY <1>1, <1>6, CalmFrame DEF SameClaim, SameHistory

\* Past the last subscriber without a failure, every consumer has handled the event.
LEMMA PassedAreHandled ==
  ASSUME IInv, NEW w \in Publisher, NEW e \in Event, Conduct(w, e), failed[w] = FALSE,
         sub[w] > Len(Subscribers)
  PROVE  \A c \in Consumer : handled[<<c, e>>] = 1
<1>1. \A i \in 1..(sub[w] - 1) : handled[<<Subscribers[i], e>>] = 1
  BY DEF Conduct
<1>2. sub[w] = Len(Subscribers) + 1 /\ Len(Subscribers) \in Nat
  BY InboundAssumption DEF IInv, TypeOK
<1>3. \A i \in DOMAIN Subscribers : i \in 1..(sub[w] - 1)
  BY <1>2, InboundAssumption
<1> QED
  BY <1>1, <1>3 DEF Consumer

\* A dispatcher settles a quiet event only after every subscriber has handled
\* it: it held the claim throughout, and it alone.
LEMMA AckCalm ==
  ASSUME IInv, CalmWhileQuiet, NEW w \in Dispatcher, AckDispatch(w), NEW e \in Event, Quiet(e)'
  PROVE  Calm(e)'
<1>1. w \in Publisher /\ HasRecord(w) /\ pc[w] = "deliver" /\ sub[w] > Len(Subscribers)
  BY DEF Publisher, AckDispatch, Published, IInv, PlacesOK, PlaceOK
<1>2. record[w].item \in Event
  BY <1>1, RecordParts
<1>3. /\ row' = [row EXCEPT ![record[w].item] = AfterDispatch(w)] /\ Rest(w)
      /\ UNCHANGED <<inbox, handled, thrown, replayed>> /\ row \in [Event -> Row("processed")]
  BY DEF AckDispatch, IInv, TypeOK
<1>4. row'[e] = IF e = record[w].item THEN AfterDispatch(w) ELSE row[e]
  BY <1>2, <1>3
<1>5. OnlyAt(w) /\ ~HasRecord(w)'
  BY <1>1, <1>3, RestPlace DEF HasRecord
<1>6. CASE row'[e] = row[e]
  <2>1. Untouched(e)
    BY <1>3, <1>5 DEF Untouched, OnlyAt, On
  <2> QED
    BY <1>3, <1>6, <2>1, CalmFrame DEF SameClaim, SameHistory
<1>7. CASE row'[e] # row[e]
  <2>1. /\ e = record[w].item /\ IsFree(row'[e]) /\ row'[e].reclaims = row[e].reclaims
        /\ \/ /\ failed[w] = FALSE /\ row'[e].status = "processed"
              /\ row'[e].attempts = row[e].attempts
           \/ failed[w] = TRUE /\ row'[e].attempts = row[e].attempts + 1
    BY <1>1, <1>4, <1>7, AckRow
  <2>2. row[e].attempts \in Nat
    BY <1>3 DEF Row
  <2>3. failed[w] = FALSE /\ row'[e].status = "processed" /\ Quiet(e)
    BY <1>3, <2>1, <2>2 DEF Quiet
  <2>4. Calm(e) /\ On(w, e)
    BY <1>1, <2>1, <2>3 DEF CalmWhileQuiet, On
  <2>5. Conduct(w, e)
    BY <1>1, <2>4 DEF Calm
  <2>6. \A c \in Consumer : handled[<<c, e>>] = 1
    BY <1>1, <2>3, <2>5, PassedAreHandled
  <2>7. \A p \in Publisher : ~On(p, e)'
    BY <1>1, <1>5, <2>4 DEF Calm, On, HasRecord, OnlyAt, SamePlace
  <2>8. \A c \in Consumer : handled[<<c, e>>] > 0 => <<c, e>> \in inbox
    BY <2>4 DEF Calm
  <2> QED
    BY <1>3, <2>3, <2>6, <2>7, <2>8 DEF Calm
<1> QED
  BY <1>6, <1>7

\* A dispatcher whose acknowledgement throws has settled its quiet event or holds it still.
LEMMA AckFailsCalm ==
  ASSUME IInv, CalmWhileQuiet, NEW w \in Dispatcher, AckFails(w), NEW e \in Event, Quiet(e)'
  PROVE  Calm(e)'
<1>1. /\ IInv' /\ OnlyAt(w) /\ record' = record /\ HasRecord(w)
      /\ row'[e] # row[e] => e = record[w].item /\ failed[w] = FALSE /\ row'[e] = AfterDispatch(w)
  BY AckFailsStep
<1>2. /\ w \in Publisher /\ pc[w] = "deliver" /\ sub[w] > Len(Subscribers) /\ failed[w] = FALSE
      /\ failed'[w] = TRUE
      /\ UNCHANGED <<inbox, handled, pc, sub, tries, replayed>>
  BY DEF Publisher, AckFails, Published, IInv, TypeOK
<1>3. CASE ~On(w, e)
  <2>1. row'[e] = row[e]
    BY <1>1, <1>3 DEF On
  <2>2. Untouched(e)
    BY <1>1, <1>2, <1>3 DEF Untouched, OnlyAt, On, HasRecord
  <2> QED
    BY <1>2, <2>1, <2>2, CalmFrame DEF SameClaim, SameHistory
<1>4. CASE On(w, e)
  <2>1. \/ row'[e] = row[e]
        \/ row'[e].status = "processed" /\ row'[e].attempts = row[e].attempts
           /\ row'[e].reclaims = row[e].reclaims
    BY <1>1, <1>2, AckRow
  <2>2. Calm(e)
    BY <1>2, <2>1 DEF CalmWhileQuiet, Quiet
  <2>3. Conduct(w, e) /\ row[e].claimed = TRUE /\ record[w].token = row[e].token
    BY <1>2, <1>4, <2>2 DEF Calm, Conduct
  <2>4. row[e].status = "pending"
    BY <2>3 DEF IInv, RowsOK, RowOK
  <2>5. Conduct(w, e)'
    BY <1>1, <1>2, <2>1, <2>3 DEF Conduct, Busy, Published
  <2>6. \A c \in Consumer : handled'[<<c, e>>] = 1
    BY <1>2, <2>3, PassedAreHandled
  <2>7. \A p \in Publisher : On(p, e)' => p = w
    BY <1>1, <1>2, <1>4, <2>2 DEF Calm, On, HasRecord
  <2>8. row'[e].status = "processed" \/ row'[e].claimed = TRUE
    BY <2>1, <2>3
  <2> QED
    BY <1>2, <2>2, <2>5, <2>6, <2>7, <2>8 DEF Calm
<1> QED
  BY <1>3, <1>4

\* A sweep charges what it takes, and a replay marks what it selects: neither
\* leaves the event quiet.  The rest is not concerned with the event.
LEMMA AsideCalm ==
  ASSUME IInv, CalmWhileQuiet, NEW e \in Event, Quiet(e)',
         \/ \E f \in Event, mode \in {"pending_only", "reapply"} : StartReplay(f, mode)
         \/ ForgetInbox(Replayer) \/ AckReplay \/ Tick
         \/ \E w \in Dispatcher : Poll(w) \/ ReclaimExpired(w) \/ NothingDue(w)
         \/ \E p \in Publisher : Crash(p)
         \/ \E f \in Event : f # e /\ Accept(f)
         \/ UNCHANGED vars
  PROVE  Calm(e)'
<1>0. /\ row \in [Event -> Row("processed")] /\ Replayer \in Publisher
      /\ row[e].reclaims \in Nat /\ row[e].reclaims + 1 # 0
  <2>1. row \in [Event -> Row("processed")] /\ Replayer \in Publisher
    BY DEF IInv, TypeOK, Publisher
  <2> QED
    BY <2>1 DEF Row
<1> SUFFICES Untouched(e) /\ SameClaim(row[e], row'[e]) /\ SameHistory(row[e], row'[e])
             /\ replayed \subseteq replayed'
  BY CalmFrame
<1>1. ASSUME NEW f \in Event, NEW mode, StartReplay(f, mode)
      PROVE  Untouched(e) /\ row'[e] = row[e] /\ replayed \subseteq replayed'
  <2>1. /\ record' = [record EXCEPT ![Replayer] =
             [item |-> f, token |-> NoToken, attempts |-> row[f].attempts,
              status |-> row[f].status, mode |-> mode]]
        /\ pc' = [pc EXCEPT ![Replayer] = IF mode = "reapply" THEN "forget" ELSE "deliver"]
        /\ replayed' = replayed \union {f} /\ UNCHANGED <<row, inbox, handled, thrown, sub, tries, failed>>
    BY <1>1 DEF StartReplay
  <2>2. f # e
    BY <2>1 DEF Quiet
  <2>3. record'[Replayer].item = f
    BY <1>0, <2>1 DEF IInv, TypeOK
  <2>4. OnlyAt(Replayer)
    BY <2>1 DEF OnlyAt, SamePlace, IInv, TypeOK
  <2> QED
    BY <2>1, <2>2, <2>3, <2>4 DEF Untouched, OnlyAt, On
<1>2. ASSUME ForgetInbox(Replayer)
      PROVE  Untouched(e) /\ row'[e] = row[e] /\ replayed \subseteq replayed'
  <2>1. /\ inbox' = inbox \ {<<Subscribers[sub[Replayer]], record[Replayer].item>>}
        /\ UNCHANGED <<row, handled, thrown, record, replayed>> /\ pc[Replayer] = "forget"
    BY <1>2 DEF ForgetInbox
  <2>2. OnlyAt(Replayer)
    BY <1>2, ReplayStep
  <2>3. record[Replayer].item # e
    BY <1>0, <2>1, PairInHand DEF IInv, PlacesOK, HolderOK, Quiet
  <2> QED
    BY <2>1, <2>2, <2>3 DEF Untouched, OnlyAt, On
<1>3. ASSUME AckReplay
      PROVE  Untouched(e) /\ row'[e] = row[e] /\ replayed \subseteq replayed'
  <2>1. HasRecord(Replayer) /\ Rest(Replayer) /\ UNCHANGED <<inbox, handled, thrown, replayed>>
    BY <1>3, ReplayedRow DEF AckReplay
  <2>2. record[Replayer].item # e
    BY <1>0, <2>1 DEF IInv, PlacesOK, HolderOK, Quiet
  <2>3. row'[e] = row[e]
    BY <1>0, <1>3, <2>2, ReplayedRow
  <2>4. OnlyAt(Replayer) /\ ~HasRecord(Replayer)'
    BY <1>0, <2>1, RestPlace DEF HasRecord
  <2> QED
    BY <2>1, <2>3, <2>4 DEF Untouched, OnlyAt, On
<1>4. ASSUME Tick
      PROVE  Untouched(e) /\ SameClaim(row[e], row'[e]) /\ SameHistory(row[e], row'[e])
             /\ replayed \subseteq replayed'
  <2>1. UNCHANGED <<inbox, handled, thrown, pc, record, sub, tries, failed, replayed>>
    BY <1>4 DEF Tick, delivery
  <2> QED
    BY <1>4, <2>1, AgedRow DEF Untouched, SamePlace
<1>5. ASSUME NEW w \in Dispatcher, Poll(w) \/ ReclaimExpired(w)
      PROVE  Untouched(e) /\ row'[e] = row[e] /\ replayed \subseteq replayed'
  <2>1. w \in Publisher /\ ~HasRecord(w)
    BY <1>5 DEF Poll, ReclaimExpired, Publisher, IInv, PlacesOK, PlaceOK
  <2>2. /\ UNCHANGED <<inbox, handled, thrown, record, sub, tries, failed, replayed>>
        /\ \A q \in Publisher : q # w => pc'[q] = pc[q]
    BY <1>5 DEF Poll, ReclaimExpired, IInv, TypeOK
  <2>3. row'[e] = row[e]
    BY <1>0, <1>5, SweptRow DEF Poll, Quiet
  <2> QED
    BY <2>1, <2>2, <2>3 DEF Untouched, SamePlace, On, HasRecord
<1>6. ASSUME NEW p \in Publisher, (p \in Dispatcher /\ NothingDue(p)) \/ Crash(p)
      PROVE  Untouched(e) /\ row'[e] = row[e] /\ replayed \subseteq replayed'
  <2>1. Rest(p) /\ UNCHANGED <<row, inbox, handled, thrown, replayed>>
    BY <1>6 DEF NothingDue, Crash
  <2>2. OnlyAt(p) /\ ~HasRecord(p)'
    BY <2>1, RestPlace DEF HasRecord
  <2> QED
    BY <2>1, <2>2 DEF Untouched, OnlyAt, On
<1>7. ASSUME NEW f \in Event, f # e, Accept(f)
      PROVE  Untouched(e) /\ row'[e] = row[e] /\ replayed \subseteq replayed'
  BY <1>0, <1>7 DEF Accept, delivery, Untouched, SamePlace
<1>8. ASSUME UNCHANGED vars
      PROVE  Untouched(e) /\ row'[e] = row[e] /\ replayed \subseteq replayed'
  BY <1>8 DEF vars, delivery, Untouched, SamePlace
<1>9. CASE \E w \in Dispatcher : NothingDue(w)
  BY <1>6, <1>9 DEF Publisher, SameClaim, SameHistory
<1> QED
  BY <1>1, <1>2, <1>3, <1>4, <1>5, <1>6, <1>7, <1>8, <1>9 DEF SameClaim, SameHistory

\* Every step of the specification keeps quiet events calm.
LEMMA NextCalm == IInv /\ CalmWhileQuiet /\ [Next]_vars => CalmWhileQuiet'
<1> SUFFICES ASSUME IInv, CalmWhileQuiet, [Next]_vars, NEW e \in Event, Quiet(e)'
             PROVE  Calm(e)'
  BY DEF CalmWhileQuiet
<1>1. CASE Accept(e)
  BY <1>1, AcceptCalm
<1>2. CASE \E w \in Dispatcher : ClaimDue(w)
  BY <1>2, ClaimCalm
<1>3. CASE \E w \in Dispatcher : AckDispatch(w)
  BY <1>3, AckCalm
<1>4. CASE \E p \in Publisher : Deliver(p) \/ InboxError(p)
  BY <1>4, BusCalmOn, BusCalmOff
<1>5. CASE \/ \E f \in Event, mode \in {"pending_only", "reapply"} : StartReplay(f, mode)
           \/ ForgetInbox(Replayer) \/ AckReplay \/ Tick
           \/ \E w \in Dispatcher : Poll(w) \/ ReclaimExpired(w) \/ NothingDue(w)
           \/ \E p \in Publisher : Crash(p)
           \/ \E f \in Event : f # e /\ Accept(f)
           \/ UNCHANGED vars
  BY <1>5, AsideCalm
<1>6. CASE \E w \in Dispatcher : AckFails(w)
  BY <1>6, AckFailsCalm
<1> QED
  BY <1>1, <1>2, <1>3, <1>4, <1>5, <1>6 DEF Next, Deliver

\* CalmWhileQuiet holds in every state of every behaviour.
LEMMA SpecCalm == Spec => []CalmWhileQuiet
BY SpecIInv, InitCalm, NextCalm, PTL DEF Spec

\* UndisturbedIsExactlyOnce: an event processed without a failure, an abandoned
\* claim or a replay was handled exactly once by every consumer, however many
\* dispatchers competed for it.
THEOREM ExactlyOnce == Spec => []UndisturbedIsExactlyOnce
<1>1. CalmWhileQuiet => UndisturbedIsExactlyOnce
  BY DEF CalmWhileQuiet, Quiet, Calm, UndisturbedIsExactlyOnce
<1> QED
  BY <1>1, SpecCalm, PTL

-----------------------------------------------------------------------------
(* The tally of a handler's runs.                                          *)
(* One run per inbox entry, and one more per throw: every publisher that   *)
(* may still run the handler holds a share, an absent entry is a share for *)
(* whoever inserts it, and a throw is worth the two shares it needs: one   *)
(* for the retry, which claims unchecked, and one for the entry that the   *)
(* release removes, whoever it belonged to.                                *)

At(st, x) == {q \in Publisher : pc[q] = st /\ Pair(q) = x}

Count(st, x) == Cardinality(At(st, x))

Pending(x) == Count("handle", x) + Count("reclaimInbox", x) + 2 * Count("release", x)

\* The shares one publisher holds.
Share(p, x) == IF ~Busy(p) \/ Pair(p) # x THEN 0 ELSE IF pc[p] = "release" THEN 2 ELSE 1

Room(x) == IF x \in inbox THEN 0 ELSE 1

Tally ==
  \A c \in Consumer, e \in Event :
    e \notin reapplied /\ thrown[<<c, e>>] < ThrownCap
      => handled[<<c, e>>] + Pending(<<c, e>>) + Room(<<c, e>>) <= 1 + thrown[<<c, e>>]

\* The publishers at a place are finitely many.
LEMMA CountIsNat ==
  ASSUME NEW st, NEW x
  PROVE  IsFiniteSet(At(st, x)) /\ Count(st, x) \in Nat
<1>1. IsFiniteSet(Publisher)
  BY InboundAssumption, FS_AddElement DEF Publisher
<1>2. At(st, x) \subseteq Publisher
  BY DEF At
<1>3. IsFiniteSet(At(st, x))
  BY <1>1, <1>2, FS_Subset
<1> QED
  BY <1>3, FS_CardinalityType DEF Count

\* A step of one publisher moves a count by that publisher alone.
LEMMA CountMoves ==
  ASSUME NEW p \in Publisher, OnlyAt(p), NEW st, NEW x
  PROVE  /\ Count(st, x) \in Nat /\ Count(st, x)' \in Nat
         /\ Count(st, x)' + (IF p \in At(st, x) THEN 1 ELSE 0)
              = Count(st, x) + (IF p \in At(st, x)' THEN 1 ELSE 0)
<1> DEFINE A == At(st, x)
           B == At(st, x)'
<1>1. IsFiniteSet(A) /\ Count(st, x) \in Nat
  BY CountIsNat
<1>2. IsFiniteSet(B)
  <2>1. IsFiniteSet(Publisher) /\ B \subseteq Publisher
    BY InboundAssumption, FS_AddElement DEF At, Publisher
  <2> QED
    BY <2>1, FS_Subset
<1>3. A \ {p} = B \ {p}
  <2>1. \A q \in Publisher : q # p => (pc'[q] = pc[q] /\ Pair(q)' = Pair(q))
    BY DEF OnlyAt, SamePlace, Pair
  <2> QED
    BY <2>1 DEF At
<1>4. Count(st, x) = Cardinality(A) /\ Count(st, x)' = Cardinality(B)
  BY DEF Count
<1> HIDE DEF A, B
<1>5. /\ Cardinality(A) \in Nat /\ Cardinality(B) \in Nat
      /\ Cardinality(A \ {p}) = IF p \in A THEN Cardinality(A) - 1 ELSE Cardinality(A)
      /\ Cardinality(B \ {p}) = IF p \in B THEN Cardinality(B) - 1 ELSE Cardinality(B)
  BY <1>1, <1>2, FS_RemoveElement, FS_CardinalityType
<1>6. Cardinality(B) + (IF p \in A THEN 1 ELSE 0) = Cardinality(A) + (IF p \in B THEN 1 ELSE 0)
  BY <1>3, <1>5
<1> QED
  BY <1>4, <1>5, <1>6 DEF A, B

\* So the shares at large move by that publisher's.
LEMMA PendingMoves ==
  ASSUME NEW p \in Publisher, OnlyAt(p), NEW x
  PROVE  /\ Pending(x) \in Nat /\ Pending(x)' \in Nat /\ Share(p, x) \in Nat /\ Share(p, x)' \in Nat
         /\ Pending(x)' + Share(p, x) = Pending(x) + Share(p, x)'
<1> DEFINE Is(st) == IF p \in At(st, x) THEN 1 ELSE 0
           Will(st) == IF p \in At(st, x)' THEN 1 ELSE 0
<1>1. /\ Count("handle", x) \in Nat /\ Count("handle", x)' \in Nat
      /\ Count("handle", x)' + Is("handle") = Count("handle", x) + Will("handle")
  BY CountMoves
<1>2. /\ Count("reclaimInbox", x) \in Nat /\ Count("reclaimInbox", x)' \in Nat
      /\ Count("reclaimInbox", x)' + Is("reclaimInbox") = Count("reclaimInbox", x) + Will("reclaimInbox")
  BY CountMoves
<1>3. /\ Count("release", x) \in Nat /\ Count("release", x)' \in Nat
      /\ Count("release", x)' + Is("release") = Count("release", x) + Will("release")
  BY CountMoves
<1>4. Share(p, x) = Is("handle") + Is("reclaimInbox") + 2 * Is("release")
  BY DEF Share, Busy, At
<1>5. Share(p, x)' = Will("handle") + Will("reclaimInbox") + 2 * Will("release")
  BY DEF Share, Busy, At
<1>6. \A st \in {"handle", "reclaimInbox", "release"} : Is(st) \in {0, 1} /\ Will(st) \in {0, 1}
  OBVIOUS
<1> HIDE DEF Is, Will
<1>7. /\ Is("handle") \in {0, 1} /\ Is("reclaimInbox") \in {0, 1} /\ Is("release") \in {0, 1}
      /\ Will("handle") \in {0, 1} /\ Will("reclaimInbox") \in {0, 1} /\ Will("release") \in {0, 1}
  BY <1>6
<1> QED
  BY <1>1, <1>2, <1>3, <1>4, <1>5, <1>7 DEF Pending

\* A step keeps the tally of a pair if what it adds there is paid for by a throw.
LEMMA TallyKept ==
  ASSUME IInv, IInv', Tally, NEW p \in Publisher, OnlyAt(p), NEW c \in Consumer, NEW e \in Event,
         e \notin reapplied, thrown'[<<c, e>>] < ThrownCap, thrown[<<c, e>>] <= thrown'[<<c, e>>],
         handled'[<<c, e>>] + Share(p, <<c, e>>)' + Room(<<c, e>>)' + thrown[<<c, e>>]
           <= handled[<<c, e>>] + Share(p, <<c, e>>) + Room(<<c, e>>) + thrown'[<<c, e>>]
  PROVE  handled'[<<c, e>>] + Pending(<<c, e>>)' + Room(<<c, e>>)' <= 1 + thrown'[<<c, e>>]
<1> PICK x : x = <<c, e>>
  OBVIOUS
<1>1. x \in Consumer \X Event
  OBVIOUS
<1>2. /\ handled[x] \in 0..HandledCap /\ handled'[x] \in 0..HandledCap
      /\ thrown[x] \in 0..ThrownCap /\ thrown'[x] \in 0..ThrownCap
  BY <1>1 DEF IInv, TypeOK
<1>3. ThrownCap \in Nat /\ HandledCap \in Nat
  BY InboundAssumption DEF HandledCap
<1>4. handled[x] + Pending(x) + Room(x) <= 1 + thrown[x]
  BY <1>2, <1>3 DEF Tally
<1>5. /\ Pending(x) \in Nat /\ Pending(x)' \in Nat /\ Share(p, x) \in Nat /\ Share(p, x)' \in Nat
      /\ Pending(x)' + Share(p, x) = Pending(x) + Share(p, x)'
  BY PendingMoves
<1>6. Room(x) \in Nat /\ Room(x)' \in Nat
  BY DEF Room
<1>7. handled'[x] + Share(p, x)' + Room(x)' + thrown[x]
        <= handled[x] + Share(p, x) + Room(x) + thrown'[x]
  OBVIOUS
<1>8. handled'[x] + Pending(x)' + Room(x)' <= 1 + thrown'[x]
  BY <1>2, <1>3, <1>4, <1>5, <1>6, <1>7
<1> QED
  BY <1>8

\* bus.publish keeps the tally: the entry a claim inserts is the run it starts, a throw
\* brings the two shares the release and the retry spend.
LEMMA BusTally ==
  ASSUME IInv, Tally, NEW p \in Publisher, Deliver(p) \/ InboxError(p)
  PROVE  Tally'
<1>1. /\ IInv' /\ OnlyAt(p) /\ record' = record /\ reapplied' = reapplied
  BY BusStep
<1> SUFFICES ASSUME NEW c \in Consumer, NEW e \in Event, e \notin reapplied,
                    thrown'[<<c, e>>] < ThrownCap
             PROVE  handled'[<<c, e>>] + Pending(<<c, e>>)' + Room(<<c, e>>)'
                      <= 1 + thrown'[<<c, e>>]
  BY <1>1 DEF Tally
<1> PICK x : x = <<c, e>>
  OBVIOUS
<1>2. /\ x \in Consumer \X Event
      /\ handled \in [Consumer \X Event -> 0..HandledCap]
      /\ thrown \in [Consumer \X Event -> 0..ThrownCap]
      /\ pc \in [Publisher -> {"idle", "reclaim", "claim", "forget", "deliver", "handle",
                               "release", "reclaimInbox"}]
      /\ sub \in [Publisher -> 1..(Len(Subscribers) + 1)]
  BY DEF IInv, TypeOK
<1>3. /\ handled[x] \in Nat /\ thrown[x] \in Nat /\ ThrownCap \in Nat /\ HandledCap \in Nat
      /\ thrown'[x] < ThrownCap
  BY <1>2, InboundAssumption DEF HandledCap
<1> DEFINE Paid == /\ thrown[x] <= thrown'[x]
                   /\ handled'[x] + Share(p, x)' + Room(x)' + thrown[x]
                        <= handled[x] + Share(p, x) + Room(x) + thrown'[x]
<1> SUFFICES Paid
  BY <1>1, TallyKept
<1>4. Share(p, x) \in {0, 1, 2} /\ Room(x) \in {0, 1} /\ Room(x)' \in {0, 1}
  BY DEF Share, Room
<1>5. CASE InboxClaim(p)
  <2>1. /\ handled' = handled /\ thrown' = thrown /\ ~Busy(p) /\ Share(p, x) = 0
    BY <1>5 DEF InboxClaim, Busy, Share
  <2>2. CASE Pair(p) \in inbox
    <3>1. inbox' = inbox /\ pc' = pc
      BY <1>5, <2>2 DEF InboxClaim
    <3>2. Share(p, x)' = 0 /\ Room(x)' = Room(x)
      BY <2>1, <3>1 DEF Share, Busy, Room
    <3> QED
      BY <1>3, <1>4, <2>1, <3>2
  <2>3. CASE Pair(p) \notin inbox
    <3>1. /\ inbox' = inbox \union {Pair(p)} /\ pc'[p] = "handle" /\ sub' = sub
      BY <1>2, <1>5, <2>3 DEF InboxClaim
    <3>2. Pair(p)' = Pair(p)
      BY <1>1, <3>1 DEF Pair
    <3>3. Share(p, x)' = (IF Pair(p) = x THEN 1 ELSE 0)
      BY <3>1, <3>2 DEF Share, Busy
    <3>4. Pair(p) = x => Room(x) = 1 /\ Room(x)' = 0
      BY <2>3, <3>1 DEF Room
    <3>5. Pair(p) # x => Room(x)' = Room(x)
      BY <3>1 DEF Room
    <3> QED
      BY <1>3, <1>4, <2>1, <3>3, <3>4, <3>5
  <2> QED
    BY <2>2, <2>3
<1>6. CASE HandlerCommits(p)
  <2>1. /\ thrown' = thrown /\ inbox' = inbox /\ pc[p] = "handle" /\ pc'[p] = "deliver"
    BY <1>2, <1>6 DEF HandlerCommits
  <2>2. Room(x)' = Room(x) /\ Share(p, x)' = 0 /\ Share(p, x) = (IF Pair(p) = x THEN 1 ELSE 0)
    BY <2>1 DEF Room, Share, Busy
  <2>3. /\ Pair(p) # x => handled'[x] = handled[x]
        /\ Pair(p) = x => handled'[x] = handled[x] + 1 \/ handled'[x] = handled[x]
    BY <1>2, <1>6 DEF HandlerCommits
  <2> QED
    BY <1>3, <1>4, <2>1, <2>2, <2>3
<1>7. CASE HandlerThrows(p)
  <2>1. /\ handled' = handled /\ inbox' = inbox /\ pc[p] = "handle" /\ pc'[p] = "release"
        /\ sub' = sub
    BY <1>2, <1>7 DEF HandlerThrows
  <2>2. Pair(p)' = Pair(p)
    BY <1>1, <2>1 DEF Pair
  <2>3. /\ Room(x)' = Room(x) /\ Share(p, x)' = (IF Pair(p) = x THEN 2 ELSE 0)
        /\ Share(p, x) = (IF Pair(p) = x THEN 1 ELSE 0)
    BY <2>1, <2>2 DEF Room, Share, Busy
  <2>4. /\ Pair(p) # x => thrown'[x] = thrown[x]
        /\ Pair(p) = x => thrown'[x] = IF thrown[x] < ThrownCap THEN thrown[x] + 1 ELSE thrown[x]
    BY <1>2, <1>7 DEF HandlerThrows
  <2>5. Pair(p) = x => thrown'[x] = thrown[x] + 1
    BY <1>3, <2>4
  <2> QED
    BY <1>3, <1>4, <2>1, <2>3, <2>4, <2>5
<1>8. CASE Release(p)
  <2>1. /\ handled' = handled /\ thrown' = thrown /\ inbox' = inbox \ {Pair(p)}
        /\ pc[p] = "release"
        /\ pc'[p] = "deliver" \/ (pc'[p] = "reclaimInbox" /\ sub' = sub)
    BY <1>2, <1>8 DEF Release
  <2>2. pc'[p] = "reclaimInbox" => Pair(p)' = Pair(p)
    BY <1>1, <2>1 DEF Pair
  <2>3. /\ Share(p, x) = (IF Pair(p) = x THEN 2 ELSE 0)
        /\ Share(p, x)' \in {0, IF Pair(p) = x THEN 1 ELSE 0}
    BY <2>1, <2>2 DEF Share, Busy
  <2>4. Pair(p) # x => Room(x)' = Room(x)
    BY <2>1 DEF Room
  <2> QED
    BY <1>3, <1>4, <2>1, <2>3, <2>4
<1>9. CASE ReclaimInbox(p)
  <2>1. /\ handled' = handled /\ thrown' = thrown /\ inbox' = inbox \union {Pair(p)}
        /\ pc[p] = "reclaimInbox" /\ pc'[p] = "handle" /\ sub' = sub
    BY <1>2, <1>9 DEF ReclaimInbox
  <2>2. Pair(p)' = Pair(p)
    BY <1>1, <2>1 DEF Pair
  <2>3. Share(p, x)' = Share(p, x)
    BY <2>1, <2>2 DEF Share, Busy
  <2>4. Room(x)' = 0 \/ Room(x)' = Room(x)
    BY <2>1 DEF Room
  <2> QED
    BY <1>3, <1>4, <2>1, <2>3, <2>4
<1>10. CASE InboxError(p)
  <2>1. /\ handled' = handled /\ thrown' = thrown /\ inbox' = inbox /\ pc'[p] = "deliver"
    BY <1>2, <1>10 DEF InboxError
  <2>2. Share(p, x)' = 0 /\ Room(x)' = Room(x)
    BY <2>1 DEF Share, Busy, Room
  <2> QED
    BY <1>3, <1>4, <2>1, <2>2
<1> QED
  BY <1>5, <1>6, <1>7, <1>8, <1>9, <1>10 DEF Deliver

\* A publisher that is not left in a handler's hands takes no share with it.
LEMMA AsideTally ==
  ASSUME IInv, IInv', Tally, NEW p \in Publisher, OnlyAt(p), ~Busy(p)',
         UNCHANGED <<handled, thrown>>,
         \A c \in Consumer, e \in Event : e \notin reapplied' =>
           e \notin reapplied /\ (<<c, e>> \in inbox => <<c, e>> \in inbox')
  PROVE  Tally'
<1> SUFFICES ASSUME NEW c \in Consumer, NEW e \in Event, e \notin reapplied',
                    thrown'[<<c, e>>] < ThrownCap
             PROVE  handled'[<<c, e>>] + Pending(<<c, e>>)' + Room(<<c, e>>)'
                      <= 1 + thrown'[<<c, e>>]
  BY DEF Tally
<1> PICK x : x = <<c, e>>
  OBVIOUS
<1>1. handled[x] \in 0..HandledCap /\ thrown[x] \in 0..ThrownCap
  BY DEF IInv, TypeOK
<1>2. /\ handled[x] \in Nat /\ thrown[x] \in Nat
  BY <1>1, InboundAssumption DEF HandledCap
<1>3. Share(p, x)' = 0 /\ Share(p, x) \in {0, 1, 2}
  BY DEF Share
<1>4. Room(x)' \in {0, 1} /\ Room(x) \in {0, 1} /\ Room(x)' <= Room(x)
  BY DEF Room
<1>5. /\ thrown[x] <= thrown'[x]
      /\ handled'[x] + Share(p, x)' + Room(x)' + thrown[x]
           <= handled[x] + Share(p, x) + Room(x) + thrown'[x]
  BY <1>2, <1>3, <1>4
<1> QED
  BY <1>5, TallyKept

\* No publisher moves.
LEMMA StillTally ==
  ASSUME Tally, UNCHANGED <<handled, thrown, inbox, reapplied, pc, record, sub>>
  PROVE  Tally'
BY DEF Tally, Pending, Count, At, Pair, Room

\* Nothing has been handled and nobody is at work.
LEMMA InitTally == Init => Tally
<1> SUFFICES ASSUME Init, NEW c \in Consumer, NEW e \in Event
             PROVE  handled[<<c, e>>] + Pending(<<c, e>>) + Room(<<c, e>>) <= 1 + thrown[<<c, e>>]
  BY DEF Tally
<1> PICK x : x = <<c, e>>
  OBVIOUS
<1>1. handled[x] = 0 /\ thrown[x] = 0 /\ Room(x) = 1
  BY DEF Init, Room
<1>2. \A st \in {"handle", "reclaimInbox", "release"} : At(st, x) = {}
  BY DEF Init, At
<1>3. \A st \in {"handle", "reclaimInbox", "release"} : Count(st, x) = 0
  BY <1>2, FS_EmptySet DEF Count
<1>4. Pending(x) = 0
  BY <1>3 DEF Pending
<1> QED
  BY <1>1, <1>4

\* Every step of the specification keeps the tally.
LEMMA NextTally == IInv /\ Tally /\ [Next]_vars => Tally'
<1> SUFFICES ASSUME IInv, Tally, [Next]_vars PROVE Tally'
  OBVIOUS
<1>1. IInv'
  BY NextIInv
<1>2. pc \in [Publisher -> {"idle", "reclaim", "claim", "forget", "deliver", "handle", "release",
                            "reclaimInbox"}]
  BY DEF IInv, TypeOK
<1>3. Replayer \in Publisher /\ Dispatcher \subseteq Publisher
  BY DEF Publisher
<1>4. CASE \E p \in Publisher : Deliver(p) \/ InboxError(p)
  BY <1>4, BusTally
<1>5. CASE (\E e \in Event : Accept(e)) \/ Tick \/ (\E w \in Dispatcher : AckFails(w))
           \/ UNCHANGED vars
  <2>1. UNCHANGED <<handled, thrown, inbox, reapplied, pc, record, sub>>
    BY <1>5 DEF Accept, Tick, AckFails, delivery, vars
  <2> QED
    BY <2>1, StillTally
<1>6. ASSUME NEW p \in Publisher, Rest(p), UNCHANGED <<handled, thrown, inbox, reapplied>>
      PROVE  Tally'
  <2>1. OnlyAt(p) /\ ~Busy(p)'
    BY <1>2, <1>6, RestPlace DEF Rest, Busy
  <2> QED
    BY <1>1, <1>6, <2>1, AsideTally
<1>7. CASE \/ \E w \in Dispatcher : NothingDue(w) \/ AckDispatch(w)
           \/ AckReplay \/ \E p \in Publisher : Crash(p)
  BY <1>3, <1>6, <1>7 DEF NothingDue, AckDispatch, AckReplay, Crash
<1>8. ASSUME NEW p \in Publisher, OnlyAt(p), pc'[p] \in {"reclaim", "claim", "deliver", "forget"},
             UNCHANGED <<handled, thrown, inbox, reapplied>>
      PROVE  Tally'
  BY <1>1, <1>8, AsideTally DEF Busy
<1>9. ASSUME NEW w \in Dispatcher, Poll(w) \/ ReclaimExpired(w) \/ ClaimDue(w)
      PROVE  Tally'
  <2>1. \A q \in Publisher : q # w => /\ pc'[q] = pc[q] /\ record'[q] = record[q]
    BY <1>2, <1>9 DEF Poll, ReclaimExpired, ClaimDue, IInv, TypeOK
  <2>2. OnlyAt(w)
    BY <1>9, <2>1 DEF Poll, ReclaimExpired, ClaimDue, OnlyAt, SamePlace
  <2>3. pc'[w] \in {"reclaim", "claim", "deliver", "forget"}
    BY <1>2, <1>3, <1>9 DEF Poll, ReclaimExpired, ClaimDue
  <2> QED
    BY <1>3, <1>8, <1>9, <2>2, <2>3 DEF Poll, ReclaimExpired, ClaimDue
<1>10. ASSUME NEW e \in Event, NEW mode \in {"pending_only", "reapply"}, StartReplay(e, mode)
       PROVE  Tally'
  <2>1. OnlyAt(Replayer)
    BY <1>10, ReplayStep
  <2>2. pc'[Replayer] \in {"reclaim", "claim", "deliver", "forget"}
    BY <1>2, <1>3, <1>10 DEF StartReplay
  <2> QED
    BY <1>3, <1>8, <1>10, <2>1, <2>2 DEF StartReplay
<1>11. CASE ForgetInbox(Replayer)
  <2>1. OnlyAt(Replayer)
    BY <1>11, ReplayStep
  <2>2. /\ inbox' = inbox \ {<<Subscribers[sub[Replayer]], record[Replayer].item>>}
        /\ reapplied' = reapplied \union {record[Replayer].item}
        /\ UNCHANGED <<handled, thrown>> /\ pc'[Replayer] \in {"deliver", "forget"}
    BY <1>2, <1>3, <1>11 DEF ForgetInbox
  <2>3. ~Busy(Replayer)'
    BY <2>2 DEF Busy
  <2>4. \A c \in Consumer, e \in Event : e \notin reapplied' =>
          e \notin reapplied /\ (<<c, e>> \in inbox => <<c, e>> \in inbox')
    BY <2>2
  <2> QED
    BY <1>1, <1>3, <2>1, <2>2, <2>3, <2>4, AsideTally
<1> QED
  BY <1>4, <1>5, <1>7, <1>9, <1>10, <1>11 DEF Next, Deliver

\* HandledOncePerThrow: through crashes, abandoned claims, competing dispatchers, removed
\* inbox entries and unchecked retries, a handler commits once for an event, and once more
\* at most for each time it threw, unless an operator reapplied the event.
THEOREM HandledPerThrow == Spec => []HandledOncePerThrow
<1>1. Spec => []Tally
  BY SpecIInv, InitTally, NextTally, PTL DEF Spec
<1>2. ASSUME IInv, Tally PROVE HandledOncePerThrow
  <2> SUFFICES ASSUME NEW c \in Consumer, NEW e \in Event, e \notin reapplied,
                      thrown[<<c, e>>] < ThrownCap
               PROVE  handled[<<c, e>>] <= 1 + thrown[<<c, e>>]
    BY DEF HandledOncePerThrow
  <2> PICK x : x = <<c, e>>
    OBVIOUS
  <2>1. handled[x] \in 0..HandledCap /\ thrown[x] \in 0..ThrownCap
    BY <1>2 DEF IInv, TypeOK
  <2>2. handled[x] \in Nat /\ thrown[x] \in Nat
    BY <2>1, InboundAssumption DEF HandledCap
  <2>3. handled[x] + Pending(x) + Room(x) <= 1 + thrown[x]
    BY <1>2 DEF Tally
  <2>4. Pending(x) \in Nat /\ Room(x) \in Nat
    <3>1. /\ Count("handle", x) \in Nat /\ Count("reclaimInbox", x) \in Nat
          /\ Count("release", x) \in Nat
      BY CountIsNat
    <3> QED
      BY <3>1 DEF Pending, Room
  <2> QED
    BY <2>2, <2>3, <2>4
<1> QED
  BY <1>1, <1>2, SpecIInv, PTL
=============================================================================
