-------------------------- MODULE FulfillmentProofs --------------------------
(***************************************************************************)
(* Fulfillment for any orders, holds, jobs and handlers, any amounts and   *)
(* any number of API calls and failed reads.  The invariant says what a    *)
(* handler carries at each of its steps (so that what it prices is what    *)
(* the database admits), that a closed row it has read is still the row,   *)
(* and that the events published for an order are those of its status.  A  *)
(* second invariant, on top of it, says where the money of an order is.    *)
(***************************************************************************)
EXTENDS Fulfillment, SettlementProofs

-----------------------------------------------------------------------------
(* The inductive invariant. *)

Reading == {"inspect", "settle", "ledger", "release"}

\* The settlements of a closure that was not paid for.
Unpaid == {"none", "released", "partially_captured", "unsettled"}

\* The work is to be paid for.
Earned(c) == c.op = "complete" /\ c.done = TRUE /\ c.refused = FALSE

\* The order is taken on.
TakenOn(c) == c.op = "intake" /\ c.refused = FALSE

Ends(c) == c.op \in {"intake", "complete", "reject", "cancel"} /\ ~Earned(c) /\ ~TakenOn(c)

\* What a handler carries fits the step it is at.
Carries(c) ==
  /\ Sound(c.hold)
  /\ c.step \in Reading => c.stage = "nothing" /\ HoldOf[c.order] \in Hold
  /\ c.stage # "nothing" => HoldOf[c.order] \in Hold
  /\ c.stage = "capture" => c.hold.status = "authorized"
  /\ c.step = "inspect" => TakenOn(c) /\ c.settlement = "none"
  /\ c.step \in {"settle", "ledger"} => Earned(c)
  /\ c.step = "release" => Ends(c)

Prices(c) ==
  /\ Earned(c) => c.settlement \in {"none", "captured", "partially_captured"}
  /\ TakenOn(c) => c.settlement \in {"none", "held"}
  /\ Ends(c) => c.settlement \in Unpaid
  /\ c.op = "accept" => c.row.status = "coordinating" /\ c.row.settlement \in {"none", "held"}

\* A closed row that was read is the row as it is, but for its job and marker.
ReadsClosed(c) ==
  c.row.status \in Closed =>
    order[c.order].status = c.row.status /\ order[c.order].settlement = c.row.settlement

Fits(c) == Carries(c) /\ (c.step = "commit" => Prices(c)) /\ ReadsClosed(c)

CommandsFit == \A w \in Worker : ~Idle(w) => Fits(cmd[w])

\* A call in progress read a sound row and, if it captures, names an amount.
CallFits(x) == Sound(x.row) /\ (x.op = "capture" => x.amount \in Amount)

HoldsSound == (\A h \in Hold : Sound(hold[h])) /\ (call # NoCommand => CallFits(call))

RowsAligned == \A o \in Order : Aligned(order[o])

\* What has been published for an order says how far it has come.
Tally(s, n) ==
  /\ n["created"] <= 1 /\ n["dispatched"] <= 1
  /\ n["closed"] = IF s \in Closed THEN 1 ELSE 0
  /\ s = "absent" => n["created"] = 0
  /\ s \in {"absent", "coordinating"} => n["dispatched"] = 0

EventsTally == \A o \in Order : Tally(order[o].status, events[o])

FInv == TypeOK /\ CommandsFit /\ HoldsSound /\ RowsAligned /\ EventsTally

-----------------------------------------------------------------------------
(* What each write makes of a hold. *)

\* The rows there are to begin with.
LEMMA FirstHolds ==
  /\ NoHold \in HoldRow /\ Sound(NoHold)
  /\ Authorized(MaxAmount) \in HoldRow /\ Sound(Authorized(MaxAmount))
BY AmountAssumption DEF NoHold, Authorized, HoldRow, Sound

\* What is left of an open hold is an amount.
LEMMA WhatIsLeft ==
  ASSUME NEW r, r \in HoldRow, Sound(r), r.status = "authorized"
  PROVE  Remaining(r) \in Amount
<1>1. r.amount \in 0..MaxAmount /\ r.captured \in Nat /\ r.captured < r.amount
  BY DEF HoldRow, Sound
<1> QED
  BY <1>1, AmountAssumption DEF Remaining, Amount

\* A capture and a void make rows of rows.
LEMMA WrittenHold ==
  ASSUME NEW r, r \in HoldRow
  PROVE  AfterVoid(r) \in HoldRow /\ \A a \in Amount : AfterCapture(r, a) \in HoldRow
<1>1. AfterVoid(r) \in HoldRow
  BY DEF AfterVoid, HoldRow
<1>2. ASSUME NEW a \in Amount PROVE AfterCapture(r, a) \in HoldRow
  <2>1. PICK status \in {"captured", "authorized"} :
          AfterCapture(r, a) = [r EXCEPT !.captured = r.captured + a, !.status = status]
    BY DEF AfterCapture, HoldRow
  <2>2. r.captured + a \in Nat
    BY AmountAssumption DEF HoldRow, Amount
  <2> QED
    BY <2>1, <2>2 DEF HoldRow
<1> QED
  BY <1>1, <1>2

-----------------------------------------------------------------------------
(* Commands. *)

\* A handler at work carries a command that fits.
LEMMA AtWork ==
  ASSUME FInv, NEW w \in Worker, ~Idle(w)
  PROVE  /\ cmd[w] \in Command /\ Fits(cmd[w]) /\ cmd[w].order \in Order
         /\ cmd[w].step \in Reading => HoldFor(w) \in Hold /\ hold[HoldFor(w)] \in HoldRow
                                        /\ Sound(hold[HoldFor(w)])
<1>1. cmd[w] \in Command /\ Fits(cmd[w])
  BY DEF FInv, TypeOK, CommandsFit, Idle
<1>2. cmd[w].order \in Order
  BY <1>1 DEF Command
<1>3. cmd[w].step \in Reading => HoldFor(w) \in Hold
  BY <1>1 DEF Fits, Carries, HoldFor
<1> QED
  BY <1>1, <1>2, <1>3 DEF FInv, TypeOK, HoldsSound

\* A handler moves on with a command that fits, or is done; nothing is written.
LEMMA CommandMoves ==
  ASSUME FInv, NEW w \in Worker, NEW x, cmd' = [cmd EXCEPT ![w] = x],
         x = NoCommand \/ (x \in Command /\ Fits(x)),
         UNCHANGED <<order, money, lapsed, events, api>>, faults' \in 0..MaxFaults
  PROVE  FInv'
<1>1. UNCHANGED <<order, hold, ledger, lapsed, events, call, calls, direct>>
  BY DEF money, api
<1>2. cmd' \in [Worker -> Command \union {NoCommand}]
      /\ \A v \in Worker : cmd'[v] = IF v = w THEN x ELSE cmd[v]
  BY DEF FInv, TypeOK
<1>3. TypeOK'
  BY <1>1, <1>2 DEF FInv, TypeOK
<1>4. CommandsFit'
  <2>1. \A v \in Worker : ~Idle(v)' => Fits(cmd'[v])
    BY <1>2 DEF FInv, CommandsFit, Idle
  <2> QED
    BY <1>1, <2>1 DEF CommandsFit, Fits, Carries, Prices, ReadsClosed, Ends, Earned, TakenOn, Idle
<1>5. HoldsSound' /\ RowsAligned' /\ EventsTally'
  BY <1>1 DEF FInv, HoldsSound, RowsAligned, EventsTally
<1> QED
  BY <1>3, <1>4, <1>5 DEF FInv

\* A handler gives up or has nothing to write.
LEMMA LeaveStep ==
  ASSUME FInv, NEW w \in Worker, Reply(w) \/ Crash(w)
  PROVE  FInv'
<1>1. cmd' = [cmd EXCEPT ![w] = NoCommand] /\ UNCHANGED <<order, money, lapsed, events, api, faults>>
  BY DEF Reply, Crash, Finish
<1> QED
  BY <1>1, CommandMoves DEF FInv, TypeOK

\* A message is read together with the fulfillment it is about.
LEMMA BeginStep ==
  ASSUME FInv, NEW w \in Worker, NEW o \in Order, NEW op, NEW job \in Job \union {NoJob},
         NEW done \in BOOLEAN, NEW step, Begin(w, op, o, job, done, step),
         op \in {"intake", "accept", "reject", "complete", "cancel"},
         step \in {"inspect", "settle", "release", "commit", "answer"},
         step \in Reading => HoldOf[o] \in Hold,
         step = "inspect" => op = "intake",
         step = "settle" => op = "complete" /\ done = TRUE,
         step = "release" => op \in {"reject", "cancel"} \/ (op = "complete" /\ done = FALSE),
         step = "commit" /\ op = "accept" => order[o].status = "coordinating"
  PROVE  FInv'
<1> DEFINE x == [op |-> op, order |-> o, job |-> job, done |-> done, refused |-> FALSE,
                 step |-> step, row |-> order[o], hold |-> NoHold, stage |-> "nothing",
                 settlement |-> "none"]
<1>1. cmd' = [cmd EXCEPT ![w] = x] /\ UNCHANGED <<order, money, lapsed, events, api, faults>>
  BY DEF Begin
<1>2. order[o] \in FulfillmentRow /\ Aligned(order[o])
  BY DEF FInv, TypeOK, RowsAligned
<1>3. x \in Command
  BY <1>2, FirstHolds DEF Command, SettlementState
<1>4. /\ x.op = op /\ x.order = o /\ x.done = done /\ x.refused = FALSE /\ x.step = step
      /\ x.row = order[o] /\ x.hold = NoHold /\ x.stage = "nothing" /\ x.settlement = "none"
  OBVIOUS
<1> HIDE DEF x
<1>5. Carries(x)
  BY <1>4, FirstHolds DEF Carries, Reading, TakenOn, Earned, Ends
<1>6. x.step = "commit" => Prices(x)
  <2>1. order[o].status = "coordinating" => order[o].settlement \in {"none", "held"}
    BY <1>2 DEF Aligned, Open
  <2> QED
    BY <1>4, <2>1 DEF Prices, Unpaid
<1>7. ReadsClosed(x)
  BY <1>4 DEF ReadsClosed
<1> QED
  BY <1>1, <1>3, <1>5, <1>6, <1>7, CommandMoves DEF Fits, FInv, TypeOK

\* The five messages.
LEMMA MessageStep ==
  ASSUME FInv, NEW w \in Worker, NEW o \in Order
  PROVE  /\ ReceiveOrder(w, o) \/ Reject(w, o) \/ Cancel(w, o) => FInv'
         /\ \A j \in Job : Accept(w, o, j) => FInv'
         /\ \A j \in Job, done \in BOOLEAN : Complete(w, o, j, done) => FInv'
<1>1. HoldOf[o] # Unfunded => HoldOf[o] \in Hold
  BY OrderAssumption
<1>2. ReceiveOrder(w, o) => FInv'
  BY <1>1, BeginStep DEF ReceiveOrder, ThroughMoney, Reading
<1>3. Reject(w, o) \/ Cancel(w, o) => FInv'
  BY <1>1, BeginStep DEF Reject, Cancel, ThroughMoney, Reading
<1>4. ASSUME NEW j \in Job, Accept(w, o, j) PROVE FInv'
  <2> DEFINE step == IF order[o].status = "coordinating" THEN "commit" ELSE "answer"
  <2>1. Begin(w, "accept", o, j, FALSE, step)
    BY <1>4 DEF Accept
  <2>2. step \in {"commit", "answer"} /\ (step = "commit" => order[o].status = "coordinating")
    OBVIOUS
  <2> HIDE DEF step
  <2> QED
    BY <2>1, <2>2, BeginStep DEF Reading
<1>5. ASSUME NEW j \in Job, NEW done \in BOOLEAN, Complete(w, o, j, done) PROVE FInv'
  <2> DEFINE step == IF order[o].status \in Closed THEN "answer"
                     ELSE ThroughMoney(o, IF done THEN "settle" ELSE "release")
  <2>1. Begin(w, "complete", o, j, done, step)
    BY <1>5 DEF Complete
  <2>2. /\ step \in {"answer", "commit", "settle", "release"}
        /\ step \in {"settle", "release"} => HoldOf[o] \in Hold
        /\ step = "settle" => done = TRUE
        /\ step = "release" => done = FALSE
    BY <1>1 DEF ThroughMoney
  <2> HIDE DEF step
  <2> QED
    BY <2>1, <2>2, BeginStep DEF Reading
<1> QED
  BY <1>2, <1>3, <1>4, <1>5

-----------------------------------------------------------------------------
(* The payment port. *)

\* The message and the row it was read with stay with the command.
SameMessage(c, x) == x.op = c.op /\ x.order = c.order /\ x.done = c.done /\ x.row = c.row

\* A release is priced for a command that ends its fulfillment.
LEMMA ReleasePriced ==
  ASSUME NEW c, c \in Command, Fits(c), Ends(c), NEW r \in HoldRow, Sound(r),
         NEW stage \in {"nothing", "void"}, stage # "nothing" => HoldOf[c.order] \in Hold,
         NEW s \in Unpaid, NEW x,
         x = [c EXCEPT !.hold = r, !.stage = stage, !.settlement = s, !.step = "commit"]
  PROVE  x \in Command /\ Fits(x)
<1>1. s \in SettlementState
  BY DEF Unpaid, SettlementState
<1>2. /\ x \in Command /\ SameMessage(c, x) /\ x.refused = c.refused
      /\ x.hold = r /\ x.stage = stage /\ x.settlement = s /\ x.step = "commit"
  BY <1>1 DEF Command, SameMessage
<1>3. Ends(x) /\ ~Earned(x) /\ ~TakenOn(x) /\ x.op # "accept"
  BY <1>2 DEF Ends, Earned, TakenOn, SameMessage
<1>4. Carries(x)
  BY <1>2 DEF Carries, SameMessage, Reading
<1>5. Prices(x)
  BY <1>2, <1>3 DEF Prices
<1>6. ReadsClosed(x)
  BY <1>2 DEF Fits, ReadsClosed, SameMessage
<1> QED
  BY <1>2, <1>4, <1>5, <1>6 DEF Fits

\* The hold of a new order is inspected.
LEMMA InspectStep ==
  ASSUME FInv, NEW w \in Worker, Inspect(w)
  PROVE  FInv'
<1> DEFINE c == cmd[w]
           r == hold[HoldFor(w)]
           refusal == CASE r.status = "captured" -> "unsettled"
                        [] r.status = "partially_captured" -> "partially_captured"
                        [] r.status = "voided" -> "released"
                        [] OTHER -> "none"
           x1 == [c EXCEPT !.refused = TRUE, !.settlement = refusal, !.step = "commit"]
           x2 == [c EXCEPT !.refused = TRUE, !.step = "release"]
           x3 == [c EXCEPT !.settlement = "held", !.step = "commit"]
           x == IF r.status # "authorized" THEN x1 ELSE IF HoldFor(w) \in lapsed THEN x2 ELSE x3
<1>1. c \in Command /\ Fits(c) /\ c.step = "inspect"
  BY AtWork DEF Inspect, At
<1>2. TakenOn(c) /\ c.settlement = "none" /\ c.stage = "nothing" /\ HoldOf[c.order] \in Hold
      /\ Sound(c.hold)
  BY <1>1 DEF Fits, Carries, Reading
<1>3. cmd' = [cmd EXCEPT ![w] = x] /\ UNCHANGED <<order, money, lapsed, events, api, faults>>
  BY DEF Inspect
<1>4. refusal \in Unpaid /\ refusal \in SettlementState
  BY DEF Unpaid, SettlementState
<1>5. x1 \in Command /\ Fits(x1)
  <2> HIDE DEF refusal, c
  <2>1. /\ x1 \in Command /\ SameMessage(c, x1) /\ x1.refused = TRUE
        /\ x1.hold = c.hold /\ x1.stage = c.stage /\ x1.settlement = refusal
        /\ x1.step = "commit"
    BY <1>1, <1>4 DEF Command, SameMessage
  <2> HIDE DEF x1
  <2>2. Carries(x1)
    BY <1>2, <2>1 DEF Carries, SameMessage, Reading, TakenOn, Earned, Ends
  <2>3. Prices(x1)
    BY <1>2, <1>4, <2>1 DEF Prices, SameMessage, TakenOn, Earned, Ends, Unpaid
  <2>4. ReadsClosed(x1)
    BY <1>1, <2>1 DEF Fits, ReadsClosed, SameMessage
  <2> QED
    BY <2>1, <2>2, <2>3, <2>4 DEF Fits
<1>6. x2 \in Command /\ Fits(x2)
  <2> HIDE DEF c
  <2>1. /\ x2 \in Command /\ SameMessage(c, x2) /\ x2.refused = TRUE
        /\ x2.hold = c.hold /\ x2.stage = c.stage /\ x2.settlement = c.settlement
        /\ x2.step = "release"
    BY <1>1 DEF Command, SameMessage
  <2> HIDE DEF x2
  <2> QED
    BY <1>1, <1>2, <2>1 DEF Fits, Carries, ReadsClosed, SameMessage, Reading, TakenOn, Earned, Ends
<1>7. x3 \in Command /\ Fits(x3)
  <2> HIDE DEF c
  <2>1. /\ x3 \in Command /\ SameMessage(c, x3) /\ x3.refused = c.refused
        /\ x3.hold = c.hold /\ x3.stage = c.stage /\ x3.settlement = "held"
        /\ x3.step = "commit"
    BY <1>1 DEF Command, SameMessage, SettlementState
  <2> HIDE DEF x3
  <2> QED
    BY <1>1, <1>2, <2>1 DEF Fits, Carries, Prices, ReadsClosed, SameMessage, Reading, TakenOn,
                            Earned, Ends
<1>8. x \in Command /\ Fits(x)
  BY <1>5, <1>6, <1>7
<1> HIDE DEF x
<1> QED
  BY <1>3, <1>8, CommandMoves DEF FInv, TypeOK

\* A capture reads its hold.
LEMMA ReadHoldStep ==
  ASSUME FInv, NEW w \in Worker, ReadHold(w)
  PROVE  FInv'
<1> DEFINE c == cmd[w]
           r == hold[HoldFor(w)]
           x == [c EXCEPT !.hold = r, !.step = "ledger"]
<1>1. c \in Command /\ Fits(c) /\ c.step = "settle" /\ r \in HoldRow /\ Sound(r)
  BY AtWork DEF ReadHold, At, Reading
<1>2. cmd' = [cmd EXCEPT ![w] = x] /\ UNCHANGED <<order, money, lapsed, events, api, faults>>
  BY <1>1 DEF ReadHold, FInv, TypeOK, Command
<1> HIDE DEF c, r
<1>3. /\ x \in Command /\ SameMessage(c, x) /\ x.refused = c.refused /\ x.hold = r
      /\ x.stage = c.stage /\ x.step = "ledger"
  BY <1>1 DEF Command, SameMessage
<1> HIDE DEF x
<1>4. Fits(x)
  BY <1>1, <1>3 DEF Fits, Carries, ReadsClosed, SameMessage, Reading, TakenOn, Earned, Ends
<1> QED
  BY <1>2, <1>3, <1>4, CommandMoves DEF FInv, TypeOK

\* A capture looks its reference up and is priced, or becomes a release.
LEMMA ReadLedgerStep ==
  ASSUME FInv, NEW w \in Worker, ReadLedger(w)
  PROVE  FInv'
<1> DEFINE c == cmd[w]
           r == c.hold
           s == IF r.status = "captured" THEN "captured" ELSE "partially_captured"
           x1 == [c EXCEPT !.hold = r, !.stage = "nothing", !.settlement = s, !.step = "commit"]
           x2 == [c EXCEPT !.hold = r, !.stage = "capture", !.settlement = "captured",
                           !.step = "commit"]
           x3 == [c EXCEPT !.refused = TRUE, !.step = "release"]
<1>1. c \in Command /\ Fits(c) /\ c.step = "ledger" /\ r \in HoldRow
  BY AtWork DEF ReadLedger, At, Command
<1>2. Earned(c) /\ c.stage = "nothing" /\ HoldOf[c.order] \in Hold /\ Sound(c.hold)
  BY <1>1 DEF Fits, Carries, Reading
<1>3. /\ \/ cmd' = [cmd EXCEPT ![w] = x1]
         \/ cmd' = [cmd EXCEPT ![w] = x2] /\ r.status = "authorized"
         \/ cmd' = [cmd EXCEPT ![w] = x3]
      /\ UNCHANGED <<order, money, lapsed, events, api, faults>>
  BY <1>1 DEF ReadLedger, Priced, MayCapture, FInv, TypeOK, Command
<1>4. s \in {"captured", "partially_captured"} /\ s \in SettlementState
      /\ "captured" \in SettlementState
  BY DEF SettlementState
<1> HIDE DEF c, r, s
<1>5. x1 \in Command /\ Fits(x1)
  <2>1. /\ x1 \in Command /\ SameMessage(c, x1) /\ x1.refused = c.refused
        /\ x1.hold = r /\ x1.stage = "nothing" /\ x1.settlement = s /\ x1.step = "commit"
    BY <1>1, <1>4 DEF Command, SameMessage
  <2> HIDE DEF x1
  <2>2. Carries(x1)
    BY <1>2, <2>1 DEF r, Carries, SameMessage, Reading, TakenOn, Earned, Ends
  <2>3. Prices(x1)
    BY <1>2, <1>4, <2>1 DEF Prices, SameMessage, TakenOn, Earned, Ends, Unpaid
  <2>4. ReadsClosed(x1)
    BY <1>1, <2>1 DEF Fits, ReadsClosed, SameMessage
  <2> QED
    BY <2>1, <2>2, <2>3, <2>4 DEF Fits
<1>6. r.status = "authorized" => x2 \in Command /\ Fits(x2)
  <2>1. /\ x2 \in Command /\ SameMessage(c, x2) /\ x2.refused = c.refused
        /\ x2.hold = r /\ x2.stage = "capture" /\ x2.settlement = "captured"
        /\ x2.step = "commit"
    BY <1>1, <1>4 DEF Command, SameMessage
  <2> HIDE DEF x2
  <2>2. r.status = "authorized" => Carries(x2)
    BY <1>2, <2>1 DEF r, Carries, SameMessage, Reading
  <2>3. Prices(x2)
    BY <1>2, <2>1 DEF Prices, SameMessage, TakenOn, Earned, Ends
  <2>4. ReadsClosed(x2)
    BY <1>1, <2>1 DEF Fits, ReadsClosed, SameMessage
  <2> QED
    BY <2>1, <2>2, <2>3, <2>4 DEF Fits
<1>7. x3 \in Command /\ Fits(x3)
  <2>1. /\ x3 \in Command /\ SameMessage(c, x3) /\ x3.refused = TRUE
        /\ x3.hold = c.hold /\ x3.stage = c.stage /\ x3.step = "release"
    BY <1>1 DEF Command, SameMessage
  <2> HIDE DEF x3
  <2> QED
    BY <1>1, <1>2, <2>1 DEF Fits, Carries, ReadsClosed, SameMessage, Reading, TakenOn, Earned, Ends
<1> HIDE DEF x1, x2, x3
<1> QED
  BY <1>3, <1>5, <1>6, <1>7, CommandMoves DEF FInv, TypeOK

\* What is held is released, or found to be gone.
LEMMA ReleaseStep ==
  ASSUME FInv, NEW w \in Worker, Release(w)
  PROVE  FInv'
<1> DEFINE c == cmd[w]
           r == hold[HoldFor(w)]
           X(stage, s) == [c EXCEPT !.hold = r, !.stage = stage, !.settlement = s,
                                    !.step = "commit"]
<1>1. c \in Command /\ Fits(c) /\ c.step = "release" /\ r \in HoldRow /\ Sound(r)
  BY AtWork DEF Release, At, Reading
<1>2. Ends(c) /\ HoldOf[c.order] \in Hold
  BY <1>1 DEF Fits, Carries, Reading
<1>3. PICK stage \in {"nothing", "void"}, s \in Unpaid :
        /\ cmd' = [cmd EXCEPT ![w] = X(stage, s)]
        /\ UNCHANGED <<order, money, lapsed, events, api, faults>>
  BY DEF Release, Priced, Unpaid
<1> DEFINE x == X(stage, s)
<1>4. x \in Command /\ Fits(x)
  BY <1>1, <1>2, ReleasePriced
<1>5. cmd' = [cmd EXCEPT ![w] = x]
  BY <1>3
<1> HIDE DEF x
<1> QED
  BY <1>3, <1>4, <1>5, CommandMoves DEF FInv, TypeOK

\* A read of the port fails.
LEMMA ReadFailsStep ==
  ASSUME FInv, NEW w \in Worker, ReadFails(w)
  PROVE  FInv'
<1> DEFINE c == cmd[w]
           x1 == [c EXCEPT !.refused = TRUE, !.step = "commit"]
           x2 == [c EXCEPT !.settlement = "unsettled", !.step = "commit"]
           x3 == [c EXCEPT !.refused = TRUE, !.step = "release"]
           x == CASE c.step = "inspect" -> x1 [] c.step = "release" -> x2 [] OTHER -> x3
<1>1. c \in Command /\ Fits(c) /\ c.step \in Reading
  BY AtWork DEF ReadFails, Reading
<1>2. /\ c.stage = "nothing" /\ HoldOf[c.order] \in Hold /\ Sound(c.hold)
      /\ c.step = "inspect" => TakenOn(c) /\ c.settlement = "none"
      /\ c.step \in {"settle", "ledger"} => Earned(c)
      /\ c.step = "release" => Ends(c)
  BY <1>1 DEF Fits, Carries
<1>3. /\ cmd' = [cmd EXCEPT ![w] = x]
      /\ UNCHANGED <<order, money, lapsed, events, api>>
  BY DEF ReadFails
<1>4. faults' \in 0..MaxFaults
  BY BoundAssumption DEF ReadFails, FInv, TypeOK
<1> HIDE DEF c
<1>5. CASE c.step = "inspect"
  <2>1. /\ x1 \in Command /\ SameMessage(c, x1) /\ x1.refused = TRUE
        /\ x1.hold = c.hold /\ x1.stage = c.stage /\ x1.settlement = c.settlement
        /\ x1.step = "commit"
    BY <1>1 DEF Command, SameMessage
  <2>2. x = x1
    BY <1>5
  <2> HIDE DEF x1, x
  <2>3. Fits(x1)
    BY <1>1, <1>2, <1>5, <2>1 DEF Fits, Carries, Prices, ReadsClosed, SameMessage, Reading,
                                  TakenOn, Earned, Ends, Unpaid
  <2> QED
    BY <1>3, <1>4, <2>1, <2>2, <2>3, CommandMoves
<1>6. CASE c.step = "release"
  <2>1. /\ x2 \in Command /\ SameMessage(c, x2) /\ x2.refused = c.refused
        /\ x2.hold = c.hold /\ x2.stage = c.stage /\ x2.settlement = "unsettled"
        /\ x2.step = "commit"
    BY <1>1 DEF Command, SameMessage, SettlementState
  <2>2. x = x2
    BY <1>6
  <2> HIDE DEF x2, x
  <2>3. Fits(x2)
    BY <1>1, <1>2, <1>6, <2>1 DEF Fits, Carries, Prices, ReadsClosed, SameMessage, Reading,
                                  TakenOn, Earned, Ends, Unpaid
  <2> QED
    BY <1>3, <1>4, <2>1, <2>2, <2>3, CommandMoves
<1>7. CASE c.step \in {"settle", "ledger"}
  <2>1. /\ x3 \in Command /\ SameMessage(c, x3) /\ x3.refused = TRUE
        /\ x3.hold = c.hold /\ x3.stage = c.stage /\ x3.step = "release"
    BY <1>1 DEF Command, SameMessage
  <2>2. x = x3
    BY <1>7
  <2> HIDE DEF x3, x
  <2>3. Fits(x3)
    BY <1>1, <1>2, <1>7, <2>1 DEF Fits, Carries, ReadsClosed, SameMessage, Reading, TakenOn,
                                  Earned, Ends
  <2> QED
    BY <1>3, <1>4, <2>1, <2>2, <2>3, CommandMoves
<1> QED
  BY <1>1, <1>5, <1>6, <1>7 DEF Reading

\* The row that won is read again.
LEMMA RereadStep ==
  ASSUME FInv, NEW w \in Worker, Reread(w)
  PROVE  FInv'
<1> DEFINE c == cmd[w]
           x == [c EXCEPT !.row = order[c.order], !.step = "answer"]
<1>1. c \in Command /\ Fits(c) /\ c.order \in Order /\ order[c.order] \in FulfillmentRow
  BY AtWork DEF Reread, At, FInv, TypeOK
<1>2. cmd' = [cmd EXCEPT ![w] = x] /\ UNCHANGED <<order, money, lapsed, events, api, faults>>
  BY <1>1 DEF Reread, FInv, TypeOK, Command
<1> HIDE DEF c
<1>3. /\ x \in Command /\ x.order = c.order /\ x.hold = c.hold /\ x.stage = c.stage
      /\ x.row = order[x.order] /\ x.step = "answer"
  BY <1>1 DEF Command
<1> HIDE DEF x
<1>4. Fits(x)
  BY <1>1, <1>3 DEF Fits, Carries, ReadsClosed, Reading
<1> QED
  BY <1>2, <1>3, <1>4, CommandMoves DEF FInv, TypeOK

-----------------------------------------------------------------------------
(* Writing. *)

LedgerOK(L) == \A e \in L : e.kind = "capture" /\ e.party \in Hold /\ e.amount \in Amount

\* One fulfillment is written, not reopened, and its event counted; what the
\* other handlers have read of it is still true if it was closed.
LEMMA RowWritten ==
  ASSUME FInv, NEW w \in Worker, cmd' = [cmd EXCEPT ![w] = NoCommand],
         NEW o \in Order, NEW r \in FulfillmentRow, order' = [order EXCEPT ![o] = r], Aligned(r),
         order[o].status \in Closed =>
           r.status = order[o].status /\ r.settlement = order[o].settlement,
         events' \in [Order -> [Event -> 0..EventCap]],
         \A p \in Order : p # o => events'[p] = events[p],
         Tally(r.status, events'[o]),
         hold' \in [Hold -> HoldRow], \A h \in Hold : Sound(hold'[h]), LedgerOK(ledger'),
         UNCHANGED <<lapsed, api, faults>>
  PROVE  FInv'
<1>1. UNCHANGED <<lapsed, call, calls, direct, faults>>
  BY DEF api
<1>2. /\ cmd' \in [Worker -> Command \union {NoCommand}]
      /\ \A v \in Worker : cmd'[v] = IF v = w THEN NoCommand ELSE cmd[v]
      /\ order' \in [Order -> FulfillmentRow]
      /\ \A p \in Order : order'[p] = IF p = o THEN r ELSE order[p]
  BY DEF FInv, TypeOK
<1>3. TypeOK'
  BY <1>1, <1>2 DEF FInv, TypeOK, LedgerOK
<1>4. CommandsFit'
  <2> SUFFICES ASSUME NEW v \in Worker, ~Idle(v)' PROVE Fits(cmd[v])'
    BY DEF CommandsFit
  <2>1. v # w /\ cmd'[v] = cmd[v] /\ ~Idle(v)
    BY <1>2 DEF Idle
  <2>2. Fits(cmd[v]) /\ cmd[v].order \in Order
    BY <2>1, AtWork
  <2>3. cmd[v].row.status \in Closed =>
          /\ order'[cmd[v].order].status = cmd[v].row.status
          /\ order'[cmd[v].order].settlement = cmd[v].row.settlement
    BY <1>2, <2>2 DEF Fits, ReadsClosed
  <2> QED
    BY <2>1, <2>2, <2>3 DEF Fits, Carries, Prices, ReadsClosed, Ends, Earned, TakenOn
<1>5. HoldsSound'
  BY <1>1 DEF FInv, HoldsSound
<1>6. RowsAligned'
  BY <1>2 DEF FInv, RowsAligned
<1>7. EventsTally'
  BY <1>2 DEF FInv, EventsTally
<1> QED
  BY <1>3, <1>4, <1>5, <1>6, <1>7 DEF FInv

\* Publishing counts one event of one order.
LEMMA PublishedOnce ==
  ASSUME FInv, NEW o \in Order, NEW e \in Event, events' = Published(o, e)
  PROVE  /\ events' \in [Order -> [Event -> 0..EventCap]]
         /\ \A p \in Order : p # o => events'[p] = events[p]
         /\ \A f \in Event : f # e => events'[o][f] = events[o][f]
         /\ events[o][e] = 0 => events'[o][e] = 1
<1> DEFINE n == events[o][e]
           m == IF n < EventCap THEN n + 1 ELSE n
<1>1. events \in [Order -> [Event -> 0..EventCap]] /\ n \in 0..EventCap
  BY DEF FInv, TypeOK
<1>2. m \in 0..EventCap /\ (n = 0 => m = 1)
  BY <1>1 DEF EventCap
<1>3. events' = [events EXCEPT ![o][e] = m]
  BY DEF Published
<1> HIDE DEF n, m
<1>4. events'[o] = [events[o] EXCEPT ![e] = m]
  BY <1>1, <1>3
<1>5. events' \in [Order -> [Event -> 0..EventCap]]
  BY <1>1, <1>2, <1>3
<1> QED
  BY <1>1, <1>2, <1>3, <1>4, <1>5 DEF n

\* A late completion is recorded on a cancelled row.
LEMMA MarkStep ==
  ASSUME FInv, NEW w \in Worker, MarkExecution(w)
  PROVE  FInv'
<1> DEFINE o == cmd[w].order
<1>1. cmd[w] \in Command /\ o \in Order /\ cmd[w].job \in Job \union {NoJob}
  BY AtWork DEF MarkExecution, At, Command
<1>2. cmd' = [cmd EXCEPT ![w] = NoCommand] /\ UNCHANGED <<hold, ledger, lapsed, api, faults>>
  BY DEF MarkExecution, Finish, money
<1>3. CASE order[o].status = "cancelled" /\ order[o].marker = NoJob
  <2> DEFINE r == [order[o] EXCEPT !.marker = cmd[w].job]
  <2>1. /\ order' = [order EXCEPT ![o] = r]
        /\ events' = Published(o, "executed_after_cancellation")
    BY <1>1, <1>3 DEF MarkExecution, FInv, TypeOK
  <2>2. order[o] \in FulfillmentRow /\ Aligned(order[o]) /\ Tally(order[o].status, events[o])
    BY <1>1 DEF FInv, TypeOK, RowsAligned, EventsTally
  <2>3. r \in FulfillmentRow /\ r.status = order[o].status /\ r.settlement = order[o].settlement
    BY <1>1, <2>2 DEF FulfillmentRow
  <2> HIDE DEF r
  <2>4. Aligned(r)
    BY <2>2, <2>3 DEF Aligned
  <2>5. /\ events' \in [Order -> [Event -> 0..EventCap]]
        /\ \A p \in Order : p # o => events'[p] = events[p]
        /\ \A f \in Event : f # "executed_after_cancellation" => events'[o][f] = events[o][f]
    BY <1>1, <2>1, PublishedOnce DEF Event
  <2>6. Tally(r.status, events'[o])
    BY <2>2, <2>3, <2>5 DEF Tally, Event
  <2>7. hold' \in [Hold -> HoldRow] /\ (\A h \in Hold : Sound(hold'[h])) /\ LedgerOK(ledger')
    BY <1>2 DEF FInv, TypeOK, HoldsSound, LedgerOK
  <2> QED
    BY <1>1, <1>2, <2>1, <2>3, <2>4, <2>5, <2>6, <2>7, RowWritten
<1>4. CASE ~(order[o].status = "cancelled" /\ order[o].marker = NoJob)
  <2>1. UNCHANGED <<order, money, lapsed, events, api, faults>>
    BY <1>2, <1>4 DEF MarkExecution, money
  <2> QED
    BY <1>2, <2>1, CommandMoves DEF FInv, TypeOK
<1> QED
  BY <1>3, <1>4

\* A late acceptance leaves its job on a cancelled row: what it writes back is
\* the row it read, and a closed row keeps its status and its settlement.
LEMMA TraceStep ==
  ASSUME FInv, NEW w \in Worker, TraceJob(w)
  PROVE  FInv' /\ \A o \in Order : order'[o].status = order[o].status
                                   /\ order'[o].settlement = order[o].settlement
<1> DEFINE o == cmd[w].order
           r == [cmd[w].row EXCEPT !.job = cmd[w].job]
<1>1. cmd[w] \in Command /\ Fits(cmd[w]) /\ o \in Order /\ cmd[w].row.status = "cancelled"
  BY AtWork DEF TraceJob, TracesJob, At
<1>2. /\ cmd' = [cmd EXCEPT ![w] = NoCommand]
      /\ UNCHANGED <<hold, ledger, lapsed, events, api, faults>>
  BY DEF TraceJob, Finish, money
<1>3. cmd[w].row.status = order[o].status /\ cmd[w].row.settlement = order[o].settlement
      /\ cmd[w].row \in FulfillmentRow /\ cmd[w].job \in Job \union {NoJob}
  BY <1>1 DEF Fits, ReadsClosed, Closed, Command
<1>4. r \in FulfillmentRow /\ r.status = order[o].status /\ r.settlement = order[o].settlement
  BY <1>3 DEF FulfillmentRow
<1>5. order' = order \/ order' = [order EXCEPT ![o] = r]
  BY DEF TraceJob
<1> HIDE DEF r
<1>6. order[o] \in FulfillmentRow /\ Aligned(order[o]) /\ Tally(order[o].status, events[o])
  BY <1>1 DEF FInv, TypeOK, RowsAligned, EventsTally
<1>7. Aligned(r)
  BY <1>4, <1>6 DEF Aligned
<1>8. /\ hold' \in [Hold -> HoldRow] /\ (\A h \in Hold : Sound(hold'[h])) /\ LedgerOK(ledger')
      /\ events' \in [Order -> [Event -> 0..EventCap]]
  BY <1>2 DEF FInv, TypeOK, HoldsSound, LedgerOK
<1>9. CASE order' = [order EXCEPT ![o] = r]
  <2>1. FInv'
    BY <1>1, <1>2, <1>4, <1>6, <1>7, <1>8, <1>9, RowWritten
  <2> QED
    BY <1>1, <1>4, <1>9, <2>1 DEF FInv, TypeOK
<1>10. CASE order' = order
  BY <1>2, <1>10, CommandMoves DEF FInv, TypeOK, money
<1> QED
  BY <1>5, <1>9, <1>10

\* What a command at its commit would write: the row it read, closed or moved
\* on, with the settlement that was priced.
LEMMA NextRowFields ==
  ASSUME FInv, NEW w \in Worker, At(w, "commit")
  PROVE  LET c == cmd[w]
             n == NextRow(w)
         IN  /\ n \in FulfillmentRow /\ c.row \in FulfillmentRow
             /\ c.op = "accept" => n.status = "dispatched" /\ n.settlement = c.row.settlement
             /\ c.op # "accept" => n.settlement = c.settlement
             /\ TakenOn(c) => n.status = "coordinating"
             /\ Earned(c) => n.status = "completed"
             /\ Ends(c) => n.status \in {"failed", "cancelled"}
<1> DEFINE c == cmd[w]
           r == c.row
           n == NextRow(w)
<1>1. c \in Command
  BY AtWork DEF At
<1>2. /\ r \in FulfillmentRow /\ c.settlement \in SettlementState /\ c.job \in Job \union {NoJob}
      /\ c.op \in {"intake", "accept", "reject", "complete", "cancel"}
      /\ c.done \in BOOLEAN /\ c.refused \in BOOLEAN
  BY <1>1 DEF Command
<1>3. CASE c.op = "intake"
  <2>1. n = [r EXCEPT !.status = IF c.refused THEN "failed" ELSE "coordinating",
                      !.settlement = c.settlement]
    BY <1>3 DEF NextRow
  <2> HIDE DEF r, n
  <2>2. n \in FulfillmentRow /\ n.settlement = c.settlement
        /\ n.status = IF c.refused THEN "failed" ELSE "coordinating"
    BY <1>2, <2>1 DEF FulfillmentRow, Open, Closed
  <2> QED
    BY <1>2, <1>3, <2>2 DEF r, n, TakenOn, Earned, Ends
<1>4. CASE c.op = "accept"
  <2>1. n = [r EXCEPT !.status = "dispatched", !.job = c.job]
    BY <1>4 DEF NextRow
  <2> HIDE DEF r, n
  <2>2. n \in FulfillmentRow /\ n.settlement = r.settlement /\ n.status = "dispatched"
    BY <1>2, <2>1 DEF FulfillmentRow, Open
  <2> QED
    BY <1>2, <1>4, <2>2 DEF r, n, TakenOn, Earned, Ends
<1>5. CASE c.op = "complete"
  <2>1. n = [r EXCEPT !.status = IF c.done /\ ~c.refused THEN "completed" ELSE "failed",
                      !.settlement = c.settlement, !.job = c.job]
    BY <1>5 DEF NextRow
  <2> HIDE DEF r, n
  <2>2. n \in FulfillmentRow /\ n.settlement = c.settlement
        /\ n.status = IF c.done /\ ~c.refused THEN "completed" ELSE "failed"
    BY <1>2, <2>1 DEF FulfillmentRow, Closed
  <2> QED
    BY <1>2, <1>5, <2>2 DEF r, n, TakenOn, Earned, Ends
<1>6. CASE c.op \in {"reject", "cancel"}
  <2>1. n = [r EXCEPT !.status = IF c.op = "cancel" THEN "cancelled" ELSE "failed",
                      !.settlement = c.settlement]
    BY <1>6 DEF NextRow
  <2> HIDE DEF r, n
  <2>2. n \in FulfillmentRow /\ n.settlement = c.settlement
        /\ n.status = IF c.op = "cancel" THEN "cancelled" ELSE "failed"
    BY <1>2, <2>1 DEF FulfillmentRow, Closed
  <2> QED
    BY <1>2, <1>6, <2>2 DEF r, n, TakenOn, Earned, Ends
<1> QED
  BY <1>2, <1>3, <1>4, <1>5, <1>6

\* Every command is of one of four sorts.
LEMMA Sorts ==
  ASSUME NEW c, c \in Command
  PROVE  TakenOn(c) \/ c.op = "accept" \/ Earned(c) \/ Ends(c)
BY DEF Command, TakenOn, Earned, Ends

\* What has been priced is a closure the database admits.
LEMMA PricedRow ==
  ASSUME FInv, NEW w \in Worker, At(w, "commit")
  PROVE  Aligned(NextRow(w))
<1> DEFINE c == cmd[w]
           n == NextRow(w)
<1>1. c \in Command /\ Prices(c)
  BY AtWork DEF At, Fits
<1>2. /\ c.op = "accept" => n.status = "dispatched" /\ n.settlement = c.row.settlement
      /\ c.op # "accept" => n.settlement = c.settlement
      /\ TakenOn(c) => n.status = "coordinating"
      /\ Earned(c) => n.status = "completed"
      /\ Ends(c) => n.status \in {"failed", "cancelled"}
  BY NextRowFields
<1> HIDE DEF n
<1>3. CASE TakenOn(c) \/ c.op = "accept"
  <2>1. n.status \in Open /\ n.settlement \in {"none", "held"}
    BY <1>1, <1>2, <1>3 DEF Prices, TakenOn, Open
  <2> QED
    BY <2>1 DEF n, Aligned, Open
<1>4. CASE Earned(c)
  <2>1. n.status = "completed" /\ n.settlement \in {"none", "captured", "partially_captured"}
    BY <1>1, <1>2, <1>4 DEF Prices, Earned
  <2> QED
    BY <2>1 DEF n, Aligned, Open
<1>5. CASE Ends(c)
  <2>1. n.status \in {"failed", "cancelled"} /\ n.settlement \in Unpaid
    BY <1>1, <1>2, <1>5 DEF Prices, Ends
  <2> QED
    BY <2>1 DEF n, Aligned, Open, Unpaid
<1> QED
  BY <1>1, <1>3, <1>4, <1>5, Sorts

\* The event of a commit is the one its order has not had.
LEMMA CommitTally ==
  ASSUME FInv, NEW w \in Worker, At(w, "commit"),
         order[cmd[w].order].status \in Expected(cmd[w].op),
         events' = Published(cmd[w].order, Publishes(w))
  PROVE  /\ Tally(NextRow(w).status, events'[cmd[w].order])
         /\ events' \in [Order -> [Event -> 0..EventCap]]
         /\ \A p \in Order : p # cmd[w].order => events'[p] = events[p]
         /\ order[cmd[w].order].status \notin Closed
<1> DEFINE c == cmd[w]
           o == c.order
           s == order[o].status
           n == NextRow(w).status
           e == Publishes(w)
<1>1. c \in Command /\ o \in Order /\ Tally(s, events[o])
  BY AtWork DEF At, FInv, EventsTally
<1>2. /\ c.op = "accept" => n = "dispatched"
      /\ TakenOn(c) => n = "coordinating"
      /\ Earned(c) => n = "completed"
      /\ Ends(c) => n \in {"failed", "cancelled"}
  BY NextRowFields
<1>3. c.refused \in BOOLEAN
  BY <1>1 DEF Command
<1>4. /\ TakenOn(c) => e = "created" /\ s = "absent"
      /\ c.op = "accept" => e = "dispatched" /\ s = "coordinating"
      /\ Earned(c) \/ Ends(c) => e = "closed" /\ s \in {"absent"} \union Open
  BY <1>3 DEF Publishes, Expected, TakenOn, Earned, Ends, Open
<1>5. e \in Event
  BY DEF Publishes, Event
<1>6. TakenOn(c) \/ c.op = "accept" \/ Earned(c) \/ Ends(c)
  BY <1>1, Sorts
<1> HIDE DEF s, n, e, o
<1>7. /\ events' \in [Order -> [Event -> 0..EventCap]]
      /\ \A p \in Order : p # o => events'[p] = events[p]
      /\ \A f \in Event : f # e => events'[o][f] = events[o][f]
      /\ events[o][e] = 0 => events'[o][e] = 1
  BY <1>1, <1>5, PublishedOnce DEF o, e
<1>8. Tally(n, events'[o])
  <2>1. CASE TakenOn(c)
    BY <1>1, <1>2, <1>4, <1>7, <2>1 DEF Tally, Event, Closed
  <2>2. CASE c.op = "accept"
    BY <1>1, <1>2, <1>4, <1>7, <2>2 DEF Tally, Event, Closed
  <2>3. CASE Earned(c) \/ Ends(c)
    BY <1>1, <1>2, <1>4, <1>7, <2>3 DEF Tally, Event, Closed, Open
  <2> QED
    BY <1>6, <2>1, <2>2, <2>3
<1>9. s \notin Closed
  BY <1>4, <1>6 DEF Closed, Open
<1> QED
  BY <1>7, <1>8, <1>9 DEF s, n, o

\* What a commit stages on its hold and in the ledger.
LEMMA StagedRows ==
  ASSUME FInv, NEW w \in Worker, At(w, "commit"), cmd[w].stage # "nothing", Sound(StagedHold(w))
  PROVE  /\ [hold EXCEPT ![HoldFor(w)] = StagedHold(w)] \in [Hold -> HoldRow]
         /\ \A h \in Hold : Sound([hold EXCEPT ![HoldFor(w)] = StagedHold(w)][h])
         /\ HoldFor(w) \in Hold
<1> DEFINE c == cmd[w]
           s == StagedHold(w)
<1>1. c \in Command /\ Fits(c) /\ c.hold \in HoldRow /\ Sound(c.hold)
  BY AtWork DEF At, Fits, Carries, Command
<1>2. HoldFor(w) \in Hold /\ c.stage \in {"capture", "void"}
      /\ (c.stage = "capture" => c.hold.status = "authorized")
  BY <1>1 DEF Fits, Carries, HoldFor, Command
<1>3. s \in HoldRow
  <2>1. CASE c.stage = "capture"
    BY <1>1, <1>2, <2>1, WhatIsLeft, WrittenHold DEF StagedHold
  <2>2. CASE c.stage = "void"
    BY <1>1, <2>2, WrittenHold DEF StagedHold
  <2> QED
    BY <1>2, <2>1, <2>2
<1> HIDE DEF s
<1>4. hold \in [Hold -> HoldRow] /\ \A h \in Hold : Sound(hold[h])
  BY DEF FInv, TypeOK, HoldsSound
<1>5. Sound(s)
  BY DEF s
<1> DEFINE H == [hold EXCEPT ![HoldFor(w)] = s]
<1>6. H \in [Hold -> HoldRow] /\ \A h \in Hold : H[h] = IF h = HoldFor(w) THEN s ELSE hold[h]
  BY <1>2, <1>3, <1>4
<1> HIDE DEF H
<1>7. \A h \in Hold : Sound(H[h])
  BY <1>4, <1>5, <1>6
<1> QED
  BY <1>2, <1>6, <1>7 DEF H, s

\* What a commit adds to the ledger is a capture of an amount.
LEMMA StagedEntry ==
  ASSUME FInv, NEW w \in Worker, At(w, "commit")
  PROVE  LedgerOK(StagedLedger(w))
<1>1. LedgerOK(ledger)
  BY DEF FInv, TypeOK, LedgerOK
<1>2. CASE cmd[w].stage = "capture"
  <2>1. cmd[w] \in Command /\ Fits(cmd[w]) /\ cmd[w].hold \in HoldRow
    BY AtWork DEF At, Command
  <2>2. HoldFor(w) \in Hold /\ Remaining(cmd[w].hold) \in Amount
    BY <1>2, <2>1, WhatIsLeft DEF Fits, Carries, HoldFor
  <2>3. StagedLedger(w) = ledger \union {Charge(w)}
    BY <1>2 DEF StagedLedger
  <2>4. Charge(w).kind = "capture" /\ Charge(w).party \in Hold /\ Charge(w).amount \in Amount
    BY <2>2 DEF Charge, Entry
  <2> QED
    BY <1>1, <2>3, <2>4 DEF LedgerOK
<1>3. CASE cmd[w].stage # "capture"
  BY <1>1, <1>3 DEF StagedLedger
<1> QED
  BY <1>2, <1>3

\* A commit writes nothing, or the row, the hold, the ledger and the event.
LEMMA CommitStep ==
  ASSUME FInv, NEW w \in Worker, Commit(w)
  PROVE  /\ FInv'
         /\ \A o \in Order : order[o].status \in Closed => order'[o] = order[o]
<1> DEFINE c == cmd[w]
           o == c.order
           staged == c.stage # "nothing"
           x == [c EXCEPT !.step = "reread"]
<1>1. At(w, "commit") /\ c \in Command /\ Fits(c) /\ o \in Order
  BY AtWork DEF Commit, At
<1>2. UNCHANGED <<lapsed, api, faults>>
  BY DEF Commit
<1>3. \/ cmd' = [cmd EXCEPT ![w] = x] /\ UNCHANGED <<order, money, events>>
      \/ cmd' = [cmd EXCEPT ![w] = NoCommand] /\ UNCHANGED <<order, money, events>>
      \/ /\ staged => Sound(StagedHold(w))
         /\ order[o].status \in Expected(c.op)
         /\ order' = [order EXCEPT ![o] = NextRow(w)]
         /\ hold' = IF staged THEN [hold EXCEPT ![HoldFor(w)] = StagedHold(w)] ELSE hold
         /\ ledger' = StagedLedger(w)
         /\ events' = Published(o, Publishes(w))
         /\ cmd' = [cmd EXCEPT ![w] = NoCommand]
  BY DEF Commit, Finish
<1>4. CASE cmd' = [cmd EXCEPT ![w] = x] /\ UNCHANGED <<order, money, events>>
  <2> HIDE DEF c
  <2>1. /\ x \in Command /\ SameMessage(c, x) /\ x.refused = c.refused /\ x.hold = c.hold
        /\ x.stage = c.stage /\ x.step = "reread"
    BY <1>1 DEF Command, SameMessage
  <2> HIDE DEF x
  <2>2. Fits(x)
    BY <1>1, <2>1 DEF Fits, Carries, ReadsClosed, SameMessage, Reading
  <2> QED
    BY <1>2, <1>4, <2>1, <2>2, CommandMoves DEF FInv, TypeOK
<1>5. CASE cmd' = [cmd EXCEPT ![w] = NoCommand] /\ UNCHANGED <<order, money, events>>
  BY <1>2, <1>5, CommandMoves DEF FInv, TypeOK
<1>6. CASE /\ staged => Sound(StagedHold(w))
           /\ order[o].status \in Expected(c.op)
           /\ order' = [order EXCEPT ![o] = NextRow(w)]
           /\ hold' = IF staged THEN [hold EXCEPT ![HoldFor(w)] = StagedHold(w)] ELSE hold
           /\ ledger' = StagedLedger(w)
           /\ events' = Published(o, Publishes(w))
           /\ cmd' = [cmd EXCEPT ![w] = NoCommand]
  <2>1. /\ Tally(NextRow(w).status, events'[o])
        /\ events' \in [Order -> [Event -> 0..EventCap]]
        /\ \A p \in Order : p # o => events'[p] = events[p]
        /\ order[o].status \notin Closed
    BY <1>1, <1>6, CommitTally
  <2>2. NextRow(w) \in FulfillmentRow /\ Aligned(NextRow(w))
    BY <1>1, NextRowFields, PricedRow
  <2>3. hold' \in [Hold -> HoldRow] /\ \A h \in Hold : Sound(hold'[h])
    <3>1. CASE staged
      BY <1>1, <1>6, <3>1, StagedRows
    <3>2. CASE ~staged
      BY <1>6, <3>2 DEF FInv, TypeOK, HoldsSound
    <3> QED
      BY <3>1, <3>2
  <2>4. LedgerOK(ledger')
    BY <1>1, <1>6, StagedEntry
  <2>5. FInv'
    BY <1>1, <1>2, <1>6, <2>1, <2>2, <2>3, <2>4, RowWritten
  <2>6. \A p \in Order : p # o => order'[p] = order[p]
    BY <1>6 DEF FInv, TypeOK
  <2> QED
    BY <2>1, <2>5, <2>6
<1> QED
  BY <1>3, <1>4, <1>5, <1>6

-----------------------------------------------------------------------------
(* The payment API, and time. *)

\* A step that writes no fulfillment and moves no handler.
LEMMA MoneyMoves ==
  ASSUME FInv, UNCHANGED <<order, events, cmd, faults>>, lapsed' \subseteq Hold,
         hold' \in [Hold -> HoldRow], \A h \in Hold : Sound(hold'[h]), LedgerOK(ledger'),
         call' = NoCommand \/ (call' \in Call /\ CallFits(call')),
         calls' \in 0..MaxDirect, direct' \subseteq Hold
  PROVE  FInv'
<1>1. TypeOK'
  BY DEF FInv, TypeOK, LedgerOK
<1>2. CommandsFit' /\ RowsAligned' /\ EventsTally'
  BY DEF FInv, CommandsFit, Idle, Fits, Carries, Prices, ReadsClosed, Ends, Earned, TakenOn,
         RowsAligned, EventsTally
<1>3. HoldsSound'
  BY DEF HoldsSound
<1> QED
  BY <1>1, <1>2, <1>3 DEF FInv

\* A hold lapses; a call reads its hold, and decides.
LEMMA CallReads ==
  ASSUME FInv, \/ \E h \in Hold : Lapse(h) \/ CallVoid(h)
               \/ \E h \in Hold, key \in Key \union {Whole}, a \in Amount : CallCapture(h, key, a)
               \/ CallDecides
  PROVE  FInv' /\ UNCHANGED order
<1>0. /\ hold \in [Hold -> HoldRow] /\ (\A h \in Hold : Sound(hold[h])) /\ LedgerOK(ledger)
      /\ calls \in 0..MaxDirect /\ direct \subseteq Hold /\ lapsed \subseteq Hold
      /\ call = NoCommand \/ (call \in Call /\ CallFits(call))
  BY DEF FInv, TypeOK, HoldsSound, LedgerOK
<1>1. CASE \E h \in Hold : Lapse(h)
  BY <1>0, <1>1, MoneyMoves DEF Lapse, money, api
<1>2. ASSUME NEW h \in Hold, NEW x, call' = x, x \in Call, CallFits(x),
             calls < MaxDirect, calls' = calls + 1, direct' = direct \union {h},
             UNCHANGED <<order, money, lapsed, events, cmd, faults>>
      PROVE  FInv'
  <2>1. calls' \in 0..MaxDirect
    BY <1>0, <1>2, BoundAssumption
  <2> QED
    BY <1>0, <1>2, <2>1, MoneyMoves DEF money
<1>3. ASSUME NEW h \in Hold, NEW key \in Key \union {Whole}, NEW a \in Amount,
             CallCapture(h, key, a)
      PROVE  FInv' /\ UNCHANGED order
  <2> DEFINE x == [op |-> "capture", step |-> "decide", hold |-> h, key |-> key, amount |-> a,
                   row |-> hold[h]]
  <2>1. a \in 0..MaxAmount
    BY AmountAssumption DEF Amount
  <2>2. x \in Call /\ CallFits(x)
    BY <1>0, <2>1 DEF Call, CallFits
  <2>3. /\ call' = x /\ calls < MaxDirect /\ calls' = calls + 1 /\ direct' = direct \union {h}
        /\ UNCHANGED <<order, money, lapsed, events, cmd, faults>>
    BY <1>3 DEF CallCapture
  <2> HIDE DEF x
  <2> QED
    BY <1>2, <2>2, <2>3
<1>4. ASSUME NEW h \in Hold, CallVoid(h) PROVE FInv' /\ UNCHANGED order
  <2> DEFINE x == [op |-> "void", step |-> "commit", hold |-> h, key |-> Whole, amount |-> 0,
                   row |-> hold[h]]
  <2>1. x \in Call /\ CallFits(x)
    BY <1>0, AmountAssumption DEF Call, CallFits
  <2>2. /\ call' = x /\ calls < MaxDirect /\ calls' = calls + 1 /\ direct' = direct \union {h}
        /\ UNCHANGED <<order, money, lapsed, events, cmd, faults>>
    BY <1>4 DEF CallVoid
  <2> HIDE DEF x
  <2> QED
    BY <1>2, <2>1, <2>2
<1>5. ASSUME CallDecides PROVE FInv' /\ UNCHANGED order
  <2> DEFINE x == [call EXCEPT !.step = "commit"]
  <2>1. /\ call' = x \/ call' = NoCommand
        /\ UNCHANGED <<order, money, lapsed, events, cmd, calls, direct, faults>>
    BY <1>5 DEF CallDecides
  <2>2. call # NoCommand
    BY <1>5 DEF CallDecides
  <2>3. x \in Call /\ CallFits(x)
    BY <1>0, <2>2 DEF Call, CallFits
  <2> HIDE DEF x
  <2> QED
    BY <1>0, <2>1, <2>2, <2>3, MoneyMoves DEF money
<1> QED
  BY <1>0, <1>1, <1>3, <1>4, <1>5 DEF Lapse

\* A call commits its row and its entry, or nothing.
LEMMA CallCommitStep ==
  ASSUME FInv, CallCommits
  PROVE  FInv' /\ UNCHANGED order
<1> DEFINE capture == call.op = "capture"
           r == IF capture THEN AfterCapture(call.row, call.amount) ELSE AfterVoid(call.row)
           L == IF capture THEN ledger \union {CallEntry} ELSE ledger
<1>0. /\ hold \in [Hold -> HoldRow] /\ (\A h \in Hold : Sound(hold[h])) /\ LedgerOK(ledger)
      /\ calls \in 0..MaxDirect /\ direct \subseteq Hold /\ lapsed \subseteq Hold
      /\ call \in Call /\ call.hold \in Hold /\ call.row \in HoldRow
  <2>1. call # NoCommand
    BY DEF CallCommits
  <2> QED
    BY <2>1 DEF FInv, TypeOK, HoldsSound, LedgerOK, Call
<1>1. /\ call' = NoCommand /\ UNCHANGED <<order, lapsed, events, cmd, calls, direct, faults>>
      /\ \/ Sound(r) /\ hold' = [hold EXCEPT ![call.hold] = r] /\ ledger' = L
         \/ UNCHANGED <<hold, ledger>>
  BY DEF CallCommits, money
<1>2. CASE UNCHANGED <<hold, ledger>>
  BY <1>0, <1>1, <1>2, MoneyMoves
<1>3. CASE Sound(r) /\ hold' = [hold EXCEPT ![call.hold] = r] /\ ledger' = L
  <2>1. capture => call.amount \in Amount
    BY DEF FInv, HoldsSound, CallFits, CallCommits
  <2>2. r \in HoldRow
    BY <1>0, <2>1, WrittenHold
  <2>3. LedgerOK(L)
    <3>1. CallEntry.kind = "capture" /\ CallEntry.party = call.hold
          /\ CallEntry.amount = call.amount
      BY DEF CallEntry, Entry
    <3> QED
      BY <1>0, <2>1, <3>1 DEF LedgerOK
  <2> HIDE DEF r, L
  <2>4. hold' \in [Hold -> HoldRow] /\ \A h \in Hold : hold'[h] = IF h = call.hold THEN r ELSE hold[h]
    BY <1>0, <1>3, <2>2
  <2> QED
    BY <1>0, <1>1, <1>3, <2>3, <2>4, MoneyMoves
<1> QED
  BY <1>1, <1>2, <1>3

-----------------------------------------------------------------------------
(* The specification. *)

\* Nothing has been ordered.
LEMMA InitFInv == Init => FInv
<1> SUFFICES ASSUME Init PROVE FInv
  OBVIOUS
<1>1. /\ NoFulfillment \in FulfillmentRow /\ NoFulfillment.status = "absent"
      /\ NoFulfillment.settlement = "none"
  BY DEF NoFulfillment, FulfillmentRow, SettlementState
<1>2. Aligned(NoFulfillment)
  BY <1>1 DEF Aligned, Open
<1>3. hold \in [Hold -> HoldRow] /\ \A h \in Hold : Sound(hold[h])
  <2>1. hold \in [Hold -> {NoHold, Authorized(MaxAmount)}]
    BY DEF Init
  <2>2. \A h \in Hold : hold[h] = NoHold \/ hold[h] = Authorized(MaxAmount)
    BY <2>1
  <2> QED
    BY <2>1, <2>2, FirstHolds
<1>4. TypeOK
  BY <1>1, <1>3, BoundAssumption DEF Init, TypeOK, EventCap
<1>5. \A o \in Order : order[o] = NoFulfillment /\ \A e \in Event : events[o][e] = 0
  BY DEF Init
<1>6. EventsTally
  BY <1>1, <1>5 DEF EventsTally, Tally, Event, Closed
<1>7. CommandsFit /\ HoldsSound /\ RowsAligned
  BY <1>2, <1>3, <1>5 DEF Init, CommandsFit, Idle, HoldsSound, RowsAligned
<1> QED
  BY <1>4, <1>6, <1>7 DEF FInv

\* A step that changes nothing.
LEMMA StutterStep == FInv /\ UNCHANGED vars => FInv'
BY DEF vars, money, api, FInv, TypeOK, CommandsFit, Idle, Fits, Carries, Prices, ReadsClosed,
       Ends, Earned, TakenOn, HoldsSound, RowsAligned, EventsTally

\* Every step preserves the invariant, and no step touches what a closed
\* fulfillment says of its status and its settlement.
LEMMA NextFInv ==
  ASSUME FInv, [Next]_vars
  PROVE  /\ FInv'
         /\ \A o \in Order : order[o].status \in Closed =>
              order'[o].status = order[o].status /\ order'[o].settlement = order[o].settlement
<1>1. CASE \/ \E h \in Hold : Lapse(h) \/ CallVoid(h)
           \/ \E h \in Hold, key \in Key \union {Whole}, a \in Amount : CallCapture(h, key, a)
           \/ CallDecides
  BY <1>1, CallReads
<1>2. CASE CallCommits
  BY <1>2, CallCommitStep
<1>3. CASE \E w \in Worker, o \in Order :
             \/ ReceiveOrder(w, o) \/ Reject(w, o) \/ Cancel(w, o)
             \/ \E j \in Job : Accept(w, o, j) \/ \E done \in BOOLEAN : Complete(w, o, j, done)
  <2>1. UNCHANGED order
    BY <1>3 DEF ReceiveOrder, Reject, Cancel, Accept, Complete, Begin
  <2> QED
    BY <1>3, <2>1, MessageStep
<1>4. CASE \E w \in Worker : Inspect(w) \/ ReadHold(w) \/ ReadLedger(w) \/ Release(w)
                             \/ ReadFails(w) \/ Reread(w) \/ Reply(w) \/ Crash(w)
  <2>1. UNCHANGED order
    BY <1>4 DEF Inspect, ReadHold, ReadLedger, Release, ReadFails, Reread, Reply, Crash
  <2> QED
    BY <1>4, <2>1, InspectStep, ReadHoldStep, ReadLedgerStep, ReleaseStep, ReadFailsStep,
       RereadStep, LeaveStep
<1>5. CASE \E w \in Worker : Commit(w)
  BY <1>5, CommitStep
<1>6. CASE \E w \in Worker : MarkExecution(w)
  <2>1. PICK w \in Worker : MarkExecution(w)
    BY <1>6
  <2>2. cmd[w].order \in Order
    BY <2>1, AtWork DEF MarkExecution, At
  <2>3. \A o \in Order : order'[o].status = order[o].status
                         /\ order'[o].settlement = order[o].settlement
    <3>1. order' = order \/ order' = [order EXCEPT ![cmd[w].order].marker = cmd[w].job]
      BY <2>1 DEF MarkExecution
    <3> QED
      BY <2>2, <3>1 DEF FInv, TypeOK, FulfillmentRow
  <2> QED
    BY <2>1, <2>3, MarkStep
<1>7. CASE \E w \in Worker : TraceJob(w)
  BY <1>7, TraceStep
<1>8. CASE UNCHANGED vars
  BY <1>8, StutterStep DEF vars
<1> QED
  BY <1>1, <1>2, <1>3, <1>4, <1>5, <1>6, <1>7, <1>8 DEF Next

\* The invariant holds in every state of every behaviour.
LEMMA SpecFInv == Spec => []FInv
<1>1. FInv /\ [Next]_vars => FInv'
  BY NextFInv
<1> QED
  BY <1>1, InitFInv, PTL DEF Spec

\* TypeOK: fulfillments, holds, ledger entries and commands keep their types;
\* an amount is captured only as a positive part of what was held.
THEOREM Typing == Spec => []TypeOK
<1>1. FInv => TypeOK
  BY DEF FInv
<1> QED
  BY <1>1, SpecFInv, PTL

\* OneClosureEach: however many messages race for an order, its creation and its
\* dispatch are published once at most, and a closure exactly once it is closed.
THEOREM Closures == Spec => []OneClosureEach
<1>1. FInv => OneClosureEach
  BY DEF FInv, EventsTally, Tally, OneClosureEach
<1> QED
  BY <1>1, SpecFInv, PTL

\* PricedIsAdmissible: whichever way the hold was found, what a handler is about
\* to commit satisfies the database's alignment constraint.
THEOREM Admissible == Spec => []PricedIsAdmissible
<1>1. FInv => PricedIsAdmissible
  BY PricedRow DEF PricedIsAdmissible
<1> QED
  BY <1>1, SpecFInv, PTL

\* ClosureIsFinal: no late or stale message reopens a closed fulfillment, closes
\* it differently or rewrites its settlement, although a late acceptance writes
\* a whole row back without looking.
THEOREM Finality == Spec => ClosureIsFinal
<1>1. ASSUME FInv, [Next]_vars
      PROVE  \A o \in Order : order[o].status \in Closed =>
               /\ order'[o].status = order[o].status
               /\ order'[o].settlement = order[o].settlement
  BY <1>1, NextFInv
<1> QED
  BY <1>1, SpecFInv, PTL DEF Spec, ClosureIsFinal

-----------------------------------------------------------------------------
(* Where the money is.  Two more facts than FInv has are carried from step  *)
(* to step: what a handler or a call has read of a hold is still true as    *)
(* far as it matters (its amount, and that it was captured), because the    *)
(* database accepts a row only with a ledger that never shrinks; and while  *)
(* a hold belongs to one order only and nobody calls the payment API for    *)
(* it, it is untouched until its order is closed.                           *)

\* What a handler has read of its hold, and what it says of it.
Backed(c) ==
  /\ c.step = "ledger" \/ c.stage # "nothing" =>
       HoldOf[c.order] \in Hold /\ c.hold.amount = hold[HoldOf[c.order]].amount
  /\ c.stage # "nothing" => c.hold.status = "authorized"
  /\ (c.step = "ledger" /\ c.hold.status = "authorized") \/ c.stage # "nothing" =>
       hold[HoldOf[c.order]].status # "none"
  /\ c.step = "ledger" /\ c.hold.status = "captured" => hold[HoldOf[c.order]].status = "captured"
  /\ c.step = "commit" /\ c.settlement = "captured" /\ c.stage # "capture" =>
       HoldOf[c.order] \in Hold /\ hold[HoldOf[c.order]].status = "captured"

CallBacked ==
  call # NoCommand =>
    /\ call.hold \in direct
    /\ call.row.status = "authorized" /\ call.row.amount = hold[call.hold].amount
    /\ hold[call.hold].status # "none"

Ledgered ==
  /\ IsFiniteSet(ledger)
  /\ \A h \in Hold : Agrees(hold[h], h, ledger) /\ (hold[h].status # "none" => hold[h].amount # 0)

Paid ==
  /\ Ledgered
  /\ CallBacked
  /\ \A w \in Worker : ~Idle(w) => Backed(cmd[w])
  /\ \A o \in Order : order[o].settlement = "captured" =>
       HoldOf[o] \in Hold /\ hold[HoldOf[o]].status = "captured"

\* A hold that is there, that one order declares and that nobody calls the API for.
Sole(o) ==
  /\ HoldOf[o] \in Hold \ direct
  /\ hold[HoldOf[o]].status # "none"
  /\ \A p \in Order : HoldOf[p] = HoldOf[o] => p = o

\* What a handler of such an order carries while the order is not closed; n reads of
\* the port have failed.
Follows(c, n) ==
  /\ c.step = "ledger" \/ c.stage # "nothing" => c.hold.status = "authorized" /\ c.hold.captured = 0
  /\ c.step = "commit" =>
       /\ TakenOn(c) => c.settlement = "held" /\ c.stage = "nothing"
       /\ c.op = "accept" => c.row.settlement = "held" /\ c.stage = "nothing"
       /\ Earned(c) => c.settlement = "captured" /\ c.stage = "capture"
       /\ Ends(c) => \/ c.settlement = "released" /\ c.stage = "void"
                     \/ c.settlement \in {"none", "unsettled"} /\ c.stage = "nothing" /\ n > 0

Unmoved(h) ==
  hold[h].status = "authorized" /\ hold[h].captured = 0 /\ \A e \in ledger : e.party # h

Followed(o) ==
  Sole(o) =>
    /\ order[o].status \notin Closed => Unmoved(HoldOf[o])
    /\ order[o].status \in Open => order[o].settlement = "held"
    /\ order[o].status \in Closed =>
         /\ order[o].settlement = "released" => hold[HoldOf[o]].status = "voided"
         /\ order[o].settlement \notin {"captured", "released"} => faults > 0
    /\ order[o].status \notin Closed =>
         \A w \in Worker : ~Idle(w) /\ cmd[w].order = o => Follows(cmd[w], faults)

MoneyInv == Paid /\ \A o \in Order : Followed(o)

\* Holds stay where they are, with their amounts, and a captured one stays captured.
Lasting ==
  \A h \in Hold :
    /\ hold'[h].amount = hold[h].amount
    /\ hold'[h].status = "none" <=> hold[h].status = "none"
    /\ hold[h].status = "captured" => hold'[h].status = "captured"

\* The orders of a step: what a fulfillment says of captured money was said before or is so.
LEMMA PaidFrame ==
  ASSUME Paid, Lasting, Ledgered', CallBacked',
         \A w \in Worker : ~Idle(w)' => Backed(cmd[w])' \/ (~Idle(w) /\ cmd'[w] = cmd[w]),
         \A o \in Order : order'[o].settlement = "captured" =>
           \/ order[o].settlement = "captured"
           \/ HoldOf[o] \in Hold /\ hold'[HoldOf[o]].status = "captured"
  PROVE  Paid'
<1>1. \A w \in Worker : ~Idle(w)' => Backed(cmd[w])'
  <2> SUFFICES ASSUME NEW w \in Worker, ~Idle(w)', ~Idle(w), cmd'[w] = cmd[w]
        PROVE  Backed(cmd[w])'
    OBVIOUS
  <2>1. Backed(cmd[w])
    BY DEF Paid
  <2> QED BY <2>1 DEF Backed, Lasting
<1>2. \A o \in Order : order'[o].settlement = "captured" =>
        HoldOf[o] \in Hold /\ hold'[HoldOf[o]].status = "captured"
  BY DEF Paid, Lasting
<1> QED BY <1>1, <1>2 DEF Paid

\* An order that a step leaves alone, with its hold.
LEMMA FollowedFrame ==
  ASSUME NEW o \in Order, Followed(o), Sole(o)' => Sole(o),
         order'[o].status = order[o].status, order'[o].settlement = order[o].settlement,
         Sole(o) => hold'[HoldOf[o]] = hold[HoldOf[o]]
                    /\ \A e \in ledger' : e \in ledger \/ e.party # HoldOf[o],
         faults \in Nat, faults' \in Nat, faults' >= faults,
         \A w \in Worker : ~Idle(w)' /\ cmd'[w].order = o =>
           \/ ~Idle(w) /\ cmd'[w] = cmd[w]
           \/ Sole(o) /\ order[o].status \notin Closed => Follows(cmd'[w], faults')
  PROVE  Followed(o)'
<1> SUFFICES ASSUME Sole(o)' PROVE
      /\ order'[o].status \notin Closed => Unmoved(HoldOf[o])'
      /\ order'[o].status \in Open => order'[o].settlement = "held"
      /\ order'[o].status \in Closed =>
           /\ order'[o].settlement = "released" => hold'[HoldOf[o]].status = "voided"
           /\ order'[o].settlement \notin {"captured", "released"} => faults' > 0
      /\ order'[o].status \notin Closed =>
           \A w \in Worker : ~Idle(w)' /\ cmd'[w].order = o => Follows(cmd'[w], faults')
  BY DEF Followed
<1>1. order[o].status \notin Closed => Unmoved(HoldOf[o])'
  BY DEF Followed, Unmoved
<1>2. ASSUME order[o].status \notin Closed, NEW w \in Worker, ~Idle(w)', cmd'[w].order = o
      PROVE  Follows(cmd'[w], faults')
  <2>1. CASE ~Idle(w) /\ cmd'[w] = cmd[w]
    <3>1. Follows(cmd[w], faults)
      BY <1>2, <2>1 DEF Followed
    <3>2. faults > 0 => faults' > 0
      OBVIOUS
    <3> QED BY <2>1, <3>1, <3>2 DEF Follows
  <2> QED BY <1>2, <2>1
<1>3. faults > 0 => faults' > 0
  OBVIOUS
<1> QED BY <1>1, <1>2, <1>3 DEF Followed

LEMMA FaultsCounted ==
  ASSUME FInv
  PROVE  faults \in Nat
BY BoundAssumption DEF FInv, TypeOK

\* A handler reads, and writes nothing.
LEMMA ReadingFollows ==
  ASSUME FInv, MoneyInv, NEW w \in Worker, NEW x, cmd' = [cmd EXCEPT ![w] = x],
         UNCHANGED <<order, money, api>>, faults' \in Nat, faults' >= faults,
         x # NoCommand => /\ x.order \in Order /\ Backed(x)
                          /\ (Sole(x.order) /\ order[x.order].status \notin Closed) =>
                               Follows(x, faults')
  PROVE  MoneyInv'
<1>1. UNCHANGED <<order, hold, ledger, call, direct>>
  BY DEF money, api
<1>2. \A v \in Worker : cmd'[v] = IF v = w THEN x ELSE cmd[v]
  BY DEF FInv, TypeOK
<1>3. Lasting
  BY <1>1 DEF Lasting
<1>4. Ledgered' /\ CallBacked'
  BY <1>1 DEF MoneyInv, Paid, Ledgered, CallBacked
<1>5. \A v \in Worker : ~Idle(v)' => Backed(cmd[v])' \/ (~Idle(v) /\ cmd'[v] = cmd[v])
  BY <1>1, <1>2 DEF Idle, Backed
<1>6. Paid'
  BY <1>1, <1>3, <1>4, <1>5, PaidFrame DEF MoneyInv
<1>7. ASSUME NEW o \in Order PROVE Followed(o)'
  <2>1. Followed(o) /\ (Sole(o)' => Sole(o)) /\ faults \in Nat
    BY <1>1, FaultsCounted DEF MoneyInv, Sole
  <2>2. \A v \in Worker : ~Idle(v)' /\ cmd'[v].order = o =>
           \/ ~Idle(v) /\ cmd'[v] = cmd[v]
           \/ Sole(o) /\ order[o].status \notin Closed => Follows(cmd'[v], faults')
    BY <1>2 DEF Idle
  <2> QED BY <1>1, <2>1, <2>2, FollowedFrame
<1> QED BY <1>6, <1>7 DEF MoneyInv

LEMMA BeginFollows ==
  ASSUME FInv, MoneyInv, NEW w \in Worker, NEW o \in Order, NEW op, NEW job, NEW done, NEW step,
         Begin(w, op, o, job, done, step),
         step \in {"inspect", "settle", "release", "commit", "answer"},
         step = "commit" => HoldOf[o] = Unfunded \/ (op = "accept" /\ order[o].status = "coordinating")
  PROVE  MoneyInv'
<1> DEFINE x == [op |-> op, order |-> o, job |-> job, done |-> done, refused |-> FALSE,
                 step |-> step, row |-> order[o], hold |-> NoHold, stage |-> "nothing",
                 settlement |-> "none"]
<1>1. cmd' = [cmd EXCEPT ![w] = x] /\ UNCHANGED <<order, money, api>> /\ faults' = faults
  BY DEF Begin
<1>2. /\ x.op = op /\ x.order = o /\ x.step = step /\ x.row = order[o] /\ x.stage = "nothing"
      /\ x.settlement = "none"
  OBVIOUS
<1> HIDE DEF x
<1>3. Backed(x)
  BY <1>2 DEF Backed
<1>4. Sole(o) /\ order[o].status \notin Closed => Follows(x, faults')
  <2> SUFFICES ASSUME Sole(o), order[o].status \notin Closed PROVE Follows(x, faults')
    OBVIOUS
  <2>1. HoldOf[o] # Unfunded
    BY OrderAssumption DEF Sole
  <2>2. order[o].status = "coordinating" => order[o].settlement = "held"
    BY DEF MoneyInv, Followed, Open
  <2> QED BY <1>2, <2>1, <2>2 DEF Follows, TakenOn, Earned, Ends
<1>5. faults' \in Nat /\ faults' >= faults
  BY <1>1, FaultsCounted
<1>6. /\ x.order \in Order /\ Backed(x)
      /\ (Sole(x.order) /\ order[x.order].status \notin Closed) => Follows(x, faults')
  BY <1>2, <1>3, <1>4
<1> HIDE DEF x
<1> QED BY <1>1, <1>5, <1>6, ReadingFollows

LEMMA MessageFollows ==
  ASSUME FInv, MoneyInv, NEW w \in Worker, NEW o \in Order
  PROVE  /\ ReceiveOrder(w, o) \/ Reject(w, o) \/ Cancel(w, o) => MoneyInv'
         /\ \A j \in Job : Accept(w, o, j) => MoneyInv'
         /\ \A j \in Job, done \in BOOLEAN : Complete(w, o, j, done) => MoneyInv'
<1>1. ReceiveOrder(w, o) \/ Reject(w, o) \/ Cancel(w, o) => MoneyInv'
  <2> DEFINE in == ThroughMoney(o, "inspect")
             out == ThroughMoney(o, "release")
  <2>1. /\ in \in {"inspect", "commit"} /\ out \in {"release", "commit"}
        /\ in = "commit" \/ out = "commit" => HoldOf[o] = Unfunded
    BY DEF ThroughMoney
  <2>2. ReceiveOrder(w, o) => Begin(w, "intake", o, NoJob, FALSE, in)
    BY DEF ReceiveOrder
  <2>3. Reject(w, o) => Begin(w, "reject", o, NoJob, FALSE, out)
    BY DEF Reject
  <2>4. Cancel(w, o) => Begin(w, "cancel", o, NoJob, FALSE, out)
    BY DEF Cancel
  <2> HIDE DEF in, out
  <2> QED BY <2>1, <2>2, <2>3, <2>4, BeginFollows
<1>2. ASSUME NEW j \in Job, Accept(w, o, j) PROVE MoneyInv'
  <2> DEFINE step == IF order[o].status = "coordinating" THEN "commit" ELSE "answer"
  <2>1. Begin(w, "accept", o, j, FALSE, step)
    BY <1>2 DEF Accept
  <2>2. step \in {"commit", "answer"} /\ (step = "commit" => order[o].status = "coordinating")
    OBVIOUS
  <2> HIDE DEF step
  <2> QED BY <2>1, <2>2, BeginFollows
<1>3. ASSUME NEW j \in Job, NEW done \in BOOLEAN, Complete(w, o, j, done) PROVE MoneyInv'
  <2> DEFINE step == IF order[o].status \in Closed THEN "answer"
                     ELSE ThroughMoney(o, IF done THEN "settle" ELSE "release")
  <2>1. Begin(w, "complete", o, j, done, step)
    BY <1>3 DEF Complete
  <2>2. /\ step \in {"answer", "commit", "settle", "release"}
        /\ step = "commit" => HoldOf[o] = Unfunded
    BY DEF ThroughMoney
  <2> HIDE DEF step
  <2> QED BY <2>1, <2>2, BeginFollows
<1> QED BY <1>1, <1>2, <1>3

-----------------------------------------------------------------------------
(* The payment port, again. *)

\* A command with nothing staged and nothing captured says nothing of its hold.
LEMMA HarmlessBacked ==
  ASSUME NEW x, x.stage = "nothing", x.step # "ledger",
         x.step = "commit" => x.settlement # "captured"
  PROVE  Backed(x)
BY DEF Backed

\* A handler of an order whose hold is untouched finds it so.
LEMMA FindsUnmoved ==
  ASSUME MoneyInv, NEW o \in Order, Sole(o), order[o].status \notin Closed
  PROVE  Unmoved(HoldOf[o])
         /\ \A w \in Worker : ~Idle(w) /\ cmd[w].order = o => Follows(cmd[w], faults)
BY DEF MoneyInv, Followed

\* A handler at work carries what is so.
LEMMA WorkBacked ==
  ASSUME MoneyInv, NEW w \in Worker, ~Idle(w)
  PROVE  Backed(cmd[w])
BY DEF MoneyInv, Paid

LEMMA InspectFollows ==
  ASSUME FInv, MoneyInv, NEW w \in Worker, Inspect(w)
  PROVE  MoneyInv'
<1> DEFINE c == cmd[w]
           r == hold[HoldFor(w)]
           refusal == CASE r.status = "captured" -> "unsettled"
                        [] r.status = "partially_captured" -> "partially_captured"
                        [] r.status = "voided" -> "released"
                        [] OTHER -> "none"
           x1 == [c EXCEPT !.refused = TRUE, !.settlement = refusal, !.step = "commit"]
           x2 == [c EXCEPT !.refused = TRUE, !.step = "release"]
           x3 == [c EXCEPT !.settlement = "held", !.step = "commit"]
           x == IF r.status # "authorized" THEN x1 ELSE IF HoldFor(w) \in lapsed THEN x2 ELSE x3
<1>1. c \in Command /\ Fits(c) /\ c.step = "inspect" /\ c.order \in Order /\ r \in HoldRow
  BY AtWork DEF Inspect, At, Reading
<1>2. TakenOn(c) /\ c.stage = "nothing"
  BY <1>1 DEF Fits, Carries, Reading
<1>3. cmd' = [cmd EXCEPT ![w] = x] /\ UNCHANGED <<order, money, api>> /\ faults' = faults
  BY DEF Inspect
<1>4. refusal # "captured" /\ refusal \in SettlementState
  BY DEF SettlementState
<1>5. Sole(c.order) /\ order[c.order].status \notin Closed => r.status = "authorized"
  BY <1>1, FindsUnmoved DEF Unmoved, HoldFor
<1>6. /\ x.order = c.order /\ x.stage = "nothing" /\ x.op = c.op
      /\ x.step \in {"commit", "release"}
      /\ x.step = "commit" => x.settlement # "captured"
      /\ r.status = "authorized" /\ x.step = "commit" => x.settlement = "held" /\ x.refused = c.refused
  <2> HIDE DEF c, r, refusal
  <2>1. c \in Command /\ c.stage = "nothing" /\ refusal # "captured"
    BY <1>1, <1>2, <1>4
  <2> QED BY <2>1 DEF Command
<1> HIDE DEF x
<1>7. Backed(x)
  BY <1>6, HarmlessBacked
<1>8. Sole(c.order) /\ order[c.order].status \notin Closed => Follows(x, faults')
  BY <1>2, <1>5, <1>6 DEF Follows, TakenOn, Earned, Ends
<1>9. faults' \in Nat /\ faults' >= faults
  BY <1>3, FaultsCounted
<1>10. /\ x.order \in Order /\ Backed(x)
       /\ (Sole(x.order) /\ order[x.order].status \notin Closed) => Follows(x, faults')
  BY <1>1, <1>6, <1>7, <1>8
<1> QED BY <1>3, <1>9, <1>10, ReadingFollows

LEMMA ReadHoldFollows ==
  ASSUME FInv, MoneyInv, NEW w \in Worker, ReadHold(w)
  PROVE  MoneyInv'
<1> DEFINE c == cmd[w]
           r == hold[HoldFor(w)]
           x == [c EXCEPT !.hold = r, !.step = "ledger"]
<1>1. c \in Command /\ Fits(c) /\ c.step = "settle" /\ c.order \in Order /\ r \in HoldRow
      /\ HoldFor(w) \in Hold
  BY AtWork DEF ReadHold, At, Reading
<1>2. c.stage = "nothing"
  BY <1>1 DEF Fits, Carries, Reading
<1>3. cmd' = [cmd EXCEPT ![w] = x] /\ UNCHANGED <<order, money, api>> /\ faults' = faults
  BY DEF ReadHold
<1>4. x.order = c.order /\ x.stage = "nothing" /\ x.step = "ledger" /\ x.hold = r
  <2> HIDE DEF c, r
  <2> QED BY <1>1, <1>2 DEF Command
<1> HIDE DEF x
<1>5. Backed(x)
  BY <1>1, <1>4 DEF Backed, HoldFor
<1>6. Sole(c.order) /\ order[c.order].status \notin Closed => Follows(x, faults')
  BY <1>1, <1>4, FindsUnmoved DEF Follows, Unmoved, HoldFor
<1>7. faults' \in Nat /\ faults' >= faults
  BY <1>3, FaultsCounted
<1>8. /\ x.order \in Order /\ Backed(x)
      /\ (Sole(x.order) /\ order[x.order].status \notin Closed) => Follows(x, faults')
  BY <1>1, <1>4, <1>5, <1>6
<1> QED BY <1>3, <1>7, <1>8, ReadingFollows

\* A capture is not in the ledger of a hold that nothing was moved from.
LEMMA ChargeIsNew ==
  ASSUME FInv, NEW w \in Worker, Unmoved(HoldFor(w))
  PROVE  ~Recorded(ledger, Charge(w))
<1> SUFFICES ASSUME NEW e \in ledger, Reference(e) = Reference(Charge(w)) PROVE FALSE
  BY DEF Recorded
<1>1. e.kind = "capture" /\ e.party # HoldFor(w)
  BY DEF FInv, TypeOK, Unmoved
<1>2. Reference(Charge(w)) = <<"capture", HoldFor(w), Whole>>
  BY DEF Reference, Charge, Entry
<1>3. Reference(e) = <<"capture", e.party, e.key>>
  BY <1>1 DEF Reference
<1> QED BY <1>1, <1>2, <1>3

LEMMA ReadLedgerFollows ==
  ASSUME FInv, MoneyInv, NEW w \in Worker, ReadLedger(w)
  PROVE  MoneyInv'
<1> DEFINE c == cmd[w]
           r == c.hold
           s == IF r.status = "captured" THEN "captured" ELSE "partially_captured"
           x1 == [c EXCEPT !.hold = r, !.stage = "nothing", !.settlement = s, !.step = "commit"]
           x2 == [c EXCEPT !.hold = r, !.stage = "capture", !.settlement = "captured",
                           !.step = "commit"]
           x3 == [c EXCEPT !.refused = TRUE, !.step = "release"]
           may == MayCapture(r, HoldFor(w) \in lapsed, Whole, Remaining(r))
           x == IF Recorded(ledger, Charge(w)) THEN x1 ELSE IF may THEN x2 ELSE x3
<1>1. c \in Command /\ Fits(c) /\ c.step = "ledger" /\ c.order \in Order /\ Backed(c)
      /\ HoldOf[c.order] \in Hold
  BY AtWork, WorkBacked DEF ReadLedger, At, Reading, HoldFor
<1>2. Earned(c) /\ c.stage = "nothing"
  BY <1>1 DEF Fits, Carries, Reading
<1>3. cmd' = [cmd EXCEPT ![w] = x] /\ UNCHANGED <<order, money, api>> /\ faults' = faults
  BY DEF ReadLedger, Priced, FInv, TypeOK
<1>4. may => r.status = "authorized"
  BY DEF MayCapture
<1>5. Sole(c.order) /\ order[c.order].status \notin Closed =>
        r.status = "authorized" /\ r.captured = 0 /\ ~Recorded(ledger, Charge(w))
  <2> SUFFICES ASSUME Sole(c.order), order[c.order].status \notin Closed
        PROVE  r.status = "authorized" /\ r.captured = 0 /\ ~Recorded(ledger, Charge(w))
    OBVIOUS
  <2>1. Unmoved(HoldFor(w)) /\ Follows(c, faults)
    BY <1>1, FindsUnmoved DEF HoldFor, ReadLedger, At
  <2> QED BY <1>1, <2>1, ChargeIsNew DEF Follows
<1>6. \/ x = x1 /\ Recorded(ledger, Charge(w))
      \/ x = x2 /\ r.status = "authorized"
      \/ x = x3
  BY <1>4
<1>7. /\ x1.order = c.order /\ x1.op = c.op /\ x1.hold = r /\ x1.stage = "nothing"
      /\ x1.settlement = s /\ x1.step = "commit"
      /\ x2.order = c.order /\ x2.op = c.op /\ x2.done = c.done /\ x2.refused = c.refused
      /\ x2.hold = r /\ x2.stage = "capture" /\ x2.settlement = "captured" /\ x2.step = "commit"
      /\ x3.order = c.order /\ x3.stage = "nothing" /\ x3.step = "release"
  <2> HIDE DEF c
  <2>1. c \in Command /\ c.stage = "nothing"
    BY <1>1, <1>2
  <2> QED BY <2>1 DEF Command
<1> HIDE DEF x, x1, x2, x3, s, may
<1>8. Backed(x)
  <2>1. Backed(x1)
    BY <1>1, <1>7 DEF Backed, s
  <2>2. r.status = "authorized" => Backed(x2)
    BY <1>1, <1>7 DEF Backed
  <2>3. Backed(x3)
    BY <1>7, HarmlessBacked
  <2> QED BY <1>6, <2>1, <2>2, <2>3
<1>9. Sole(c.order) /\ order[c.order].status \notin Closed => Follows(x, faults')
  <2> SUFFICES ASSUME Sole(c.order), order[c.order].status \notin Closed PROVE Follows(x, faults')
    OBVIOUS
  <2>1. x = x2 \/ x = x3
    BY <1>5, <1>6
  <2>2. Follows(x2, faults')
    BY <1>2, <1>5, <1>7 DEF Follows, TakenOn, Earned, Ends
  <2>3. Follows(x3, faults')
    BY <1>7 DEF Follows
  <2> QED BY <2>1, <2>2, <2>3
<1>10. faults' \in Nat /\ faults' >= faults
  BY <1>3, FaultsCounted
<1>11. /\ x.order \in Order /\ Backed(x)
       /\ (Sole(x.order) /\ order[x.order].status \notin Closed) => Follows(x, faults')
  BY <1>1, <1>6, <1>7, <1>8, <1>9
<1> QED BY <1>3, <1>10, <1>11, ReadingFollows

LEMMA ReleaseFollows ==
  ASSUME FInv, MoneyInv, NEW w \in Worker, Release(w)
  PROVE  MoneyInv'
<1> DEFINE c == cmd[w]
           r == hold[HoldFor(w)]
           where == IF r.captured > 0 THEN "partially_captured" ELSE "released"
           stage == IF r.status = "authorized" THEN "void" ELSE "nothing"
           s == IF r.status \in {"authorized", "voided", "partially_captured"} THEN where
                ELSE "unsettled"
           x == [c EXCEPT !.hold = r, !.stage = stage, !.settlement = s, !.step = "commit"]
<1>1. c \in Command /\ Fits(c) /\ c.step = "release" /\ c.order \in Order /\ r \in HoldRow
      /\ HoldFor(w) \in Hold
  BY AtWork DEF Release, At, Reading
<1>2. Ends(c)
  BY <1>1 DEF Fits, Carries
<1>3. cmd' = [cmd EXCEPT ![w] = x] /\ UNCHANGED <<order, money, api>> /\ faults' = faults
  BY DEF Release, Priced, FInv, TypeOK
<1>4. x.order = c.order /\ x.op = c.op /\ x.done = c.done /\ x.refused = c.refused
      /\ x.stage = stage /\ x.settlement = s /\ x.step = "commit" /\ x.hold = r
  <2> HIDE DEF c, r, stage, s
  <2> QED BY <1>1 DEF Command
<1> HIDE DEF x
<1>5. s # "captured"
  OBVIOUS
<1>6. Backed(x)
  BY <1>1, <1>4, <1>5 DEF Backed, HoldFor
<1>7. Sole(c.order) /\ order[c.order].status \notin Closed => Follows(x, faults')
  <2> SUFFICES ASSUME Sole(c.order), order[c.order].status \notin Closed PROVE Follows(x, faults')
    OBVIOUS
  <2>1. r.status = "authorized" /\ r.captured = 0
    BY <1>1, FindsUnmoved DEF Unmoved, HoldFor
  <2>2. stage = "void" /\ s = "released"
    BY <2>1
  <2> HIDE DEF stage, s, r, c
  <2> QED BY <1>2, <1>4, <2>1, <2>2 DEF Follows, TakenOn, Earned, Ends
<1>8. faults' \in Nat /\ faults' >= faults
  BY <1>3, FaultsCounted
<1>9. /\ x.order \in Order /\ Backed(x)
      /\ (Sole(x.order) /\ order[x.order].status \notin Closed) => Follows(x, faults')
  BY <1>1, <1>4, <1>6, <1>7
<1> QED BY <1>3, <1>8, <1>9, ReadingFollows

\* A read that fails is counted, and the handler goes on without it.
LEMMA ReadFailsFollows ==
  ASSUME FInv, MoneyInv, NEW w \in Worker, ReadFails(w)
  PROVE  MoneyInv'
<1> DEFINE c == cmd[w]
           x1 == [c EXCEPT !.refused = TRUE, !.step = "commit"]
           x2 == [c EXCEPT !.settlement = "unsettled", !.step = "commit"]
           x3 == [c EXCEPT !.refused = TRUE, !.step = "release"]
           x == CASE c.step = "inspect" -> x1
                  [] c.step = "release" -> x2
                  [] OTHER -> x3
<1>1. c \in Command /\ Fits(c) /\ c.order \in Order
      /\ c.step \in {"inspect", "settle", "ledger", "release"}
  BY AtWork DEF ReadFails
<1>2. /\ c.stage = "nothing"
      /\ c.step = "inspect" => TakenOn(c) /\ c.settlement = "none"
      /\ c.step = "release" => Ends(c)
  BY <1>1 DEF Fits, Carries, Reading
<1>3. cmd' = [cmd EXCEPT ![w] = x] /\ UNCHANGED <<order, money, api>> /\ faults' = faults + 1
  BY DEF ReadFails, FInv, TypeOK
<1>4. faults' \in Nat /\ faults' >= faults /\ faults' > 0
  BY <1>3, FaultsCounted
<1>5. \/ x = x1 /\ c.step = "inspect"
      \/ x = x2 /\ c.step = "release"
      \/ x = x3
  BY <1>1
<1>6. /\ x1.order = c.order /\ x1.op = c.op /\ x1.refused = TRUE /\ x1.stage = "nothing"
      /\ x1.settlement = c.settlement /\ x1.step = "commit"
      /\ x2.order = c.order /\ x2.op = c.op /\ x2.done = c.done /\ x2.refused = c.refused
      /\ x2.stage = "nothing" /\ x2.settlement = "unsettled" /\ x2.step = "commit"
      /\ x3.order = c.order /\ x3.stage = "nothing" /\ x3.step = "release"
  <2> HIDE DEF c
  <2> QED BY <1>1, <1>2 DEF Command
<1> HIDE DEF x, x1, x2, x3
<1>7. Backed(x)
  BY <1>2, <1>5, <1>6, HarmlessBacked
<1>8. Follows(x, faults')
  <2>1. c.step = "inspect" => Follows(x1, faults')
    BY <1>2, <1>4, <1>6 DEF Follows, TakenOn, Earned, Ends
  <2>2. c.step = "release" => Follows(x2, faults')
    BY <1>2, <1>4, <1>6 DEF Follows, TakenOn, Earned, Ends
  <2>3. Follows(x3, faults')
    BY <1>6 DEF Follows
  <2> QED BY <1>5, <2>1, <2>2, <2>3
<1>9. /\ x.order \in Order /\ Backed(x)
      /\ (Sole(x.order) /\ order[x.order].status \notin Closed) => Follows(x, faults')
  BY <1>1, <1>5, <1>6, <1>7, <1>8
<1> QED BY <1>3, <1>4, <1>9, ReadingFollows

\* A handler that has lost its transition is on its way to an answer.
LEMMA RereadFollows ==
  ASSUME FInv, MoneyInv, NEW w \in Worker, ~Idle(w), NEW x, cmd' = [cmd EXCEPT ![w] = x],
         UNCHANGED <<order, money, api, faults>>,
         x.order = cmd[w].order, x.hold = cmd[w].hold, x.stage = cmd[w].stage,
         x.step \in {"reread", "answer"}
  PROVE  MoneyInv'
<1>1. cmd[w].order \in Order /\ Backed(cmd[w])
  BY AtWork, WorkBacked
<1>2. Backed(x)
  BY <1>1 DEF Backed
<1>3. Sole(x.order) /\ order[x.order].status \notin Closed => Follows(x, faults')
  <2> SUFFICES ASSUME Sole(x.order), order[x.order].status \notin Closed PROVE Follows(x, faults')
    OBVIOUS
  <2>1. Follows(cmd[w], faults)
    BY <1>1, FindsUnmoved
  <2> QED BY <2>1 DEF Follows
<1>4. faults' \in Nat /\ faults' >= faults
  BY FaultsCounted
<1>5. /\ x.order \in Order /\ Backed(x)
      /\ (Sole(x.order) /\ order[x.order].status \notin Closed) => Follows(x, faults')
  BY <1>1, <1>2, <1>3
<1> QED BY <1>4, <1>5, ReadingFollows

\* A handler is done, and the rows say of their money what they said before.
LEMMA LeaveFollows ==
  ASSUME FInv, MoneyInv, NEW w \in Worker, cmd' = [cmd EXCEPT ![w] = NoCommand],
         UNCHANGED <<money, api, faults>>,
         \A o \in Order : order'[o].status = order[o].status
                          /\ order'[o].settlement = order[o].settlement
  PROVE  MoneyInv'
<1>1. UNCHANGED <<hold, ledger, call, direct>>
  BY DEF money, api
<1>2. \A v \in Worker : ~Idle(v)' => ~Idle(v) /\ cmd'[v] = cmd[v]
  BY DEF FInv, TypeOK, Idle
<1>3. Lasting
  BY <1>1 DEF Lasting
<1>4. Ledgered' /\ CallBacked'
  BY <1>1 DEF MoneyInv, Paid, Ledgered, CallBacked
<1>5. \A o \in Order : order'[o].settlement = "captured" => order[o].settlement = "captured"
  OBVIOUS
<1>6. Paid'
  BY <1>2, <1>3, <1>4, <1>5, PaidFrame DEF MoneyInv
<1>7. ASSUME NEW o \in Order PROVE Followed(o)'
  <2>1. Followed(o) /\ (Sole(o)' => Sole(o)) /\ faults \in Nat /\ faults' = faults
    BY <1>1, FaultsCounted DEF MoneyInv, Sole
  <2> QED BY <1>1, <1>2, <2>1, FollowedFrame
<1> QED BY <1>6, <1>7 DEF MoneyInv

LEMMA AnswerFollows ==
  ASSUME FInv, MoneyInv, NEW w \in Worker,
         Reread(w) \/ Reply(w) \/ Crash(w) \/ MarkExecution(w) \/ TraceJob(w)
  PROVE  MoneyInv'
<1>1. CASE Reread(w)
  <2> DEFINE c == cmd[w]
             x == [c EXCEPT !.row = order[c.order], !.step = "answer"]
  <2>1. ~Idle(w) /\ c \in Command
    BY <1>1, AtWork DEF Reread, At
  <2>2. cmd' = [cmd EXCEPT ![w] = x] /\ UNCHANGED <<order, money, api, faults>>
    BY <1>1 DEF Reread
  <2>3. x.order = c.order /\ x.hold = c.hold /\ x.stage = c.stage /\ x.step = "answer"
    <3> HIDE DEF c
    <3> QED BY <2>1 DEF Command
  <2> HIDE DEF x
  <2> QED BY <2>1, <2>2, <2>3, RereadFollows
<1>2. CASE Reply(w) \/ Crash(w)
  BY <1>2, LeaveFollows DEF Reply, Crash, Finish
<1>3. CASE MarkExecution(w)
  <2>1. cmd[w].order \in Order
    BY <1>3, AtWork DEF MarkExecution, At
  <2>2. order' = order \/ order' = [order EXCEPT ![cmd[w].order].marker = cmd[w].job]
    BY <1>3 DEF MarkExecution
  <2>3. order \in [Order -> FulfillmentRow]
    BY DEF FInv, TypeOK
  <2>4. \A o \in Order : order'[o].status = order[o].status
                         /\ order'[o].settlement = order[o].settlement
    BY <2>1, <2>2, <2>3 DEF FulfillmentRow
  <2> QED BY <1>3, <2>4, LeaveFollows DEF MarkExecution, Finish
<1>4. CASE TraceJob(w)
  BY <1>4, TraceStep, LeaveFollows DEF TraceJob, Finish
<1> QED BY <1>1, <1>2, <1>3, <1>4

-----------------------------------------------------------------------------
(* Writing, again. *)

\* An entry of another hold says nothing of this one.
LEMMA OtherHoldsUnmoved ==
  ASSUME NEW L, NEW e, NEW h, NEW r, e.party # h
  PROVE  Agrees(r, h, L) <=> Agrees(r, h, L \union {e})
<1>1. Movements(L \union {e}, "capture", h) = Movements(L, "capture", h)
  BY DEF Movements
<1>2. Movements(L \union {e}, "refund", h) = Movements(L, "refund", h)
  BY DEF Movements
<1> QED BY <1>1, <1>2 DEF Agrees, Moved

\* One hold is written, from a reading of it, with the ledger it agrees with.
LEMMA HoldWritten ==
  ASSUME FInv, Ledgered, NEW h \in Hold, NEW r \in HoldRow, Sound(r),
         hold' = [hold EXCEPT ![h] = r],
         \/ ledger' = ledger
         \/ \E e : ledger' = ledger \union {e} /\ e.party = h /\ e.amount \in Amount,
         Agrees(r, h, ledger'), r.amount = hold[h].amount,
         hold[h].status # "none", r.status # "none"
  PROVE  /\ Ledgered' /\ Lasting
         /\ \A k \in Hold : k # h => hold'[k] = hold[k]
         /\ hold'[h] = r
         /\ \A e \in ledger' : e \in ledger \/ e.party = h
<1>1. hold \in [Hold -> HoldRow] /\ \A k \in Hold : Sound(hold[k])
  BY DEF FInv, TypeOK, HoldsSound
<1>2. \A k \in Hold : hold'[k] = IF k = h THEN r ELSE hold[k]
  BY <1>1
<1>3. IsFiniteSet(ledger')
  BY FS_AddElement DEF Ledgered
<1>4. \A k \in Hold : k # h => Agrees(hold'[k], k, ledger')
  <2> SUFFICES ASSUME NEW k \in Hold, k # h PROVE Agrees(hold[k], k, ledger')
    BY <1>2
  <2>1. Agrees(hold[k], k, ledger)
    BY DEF Ledgered
  <2> QED BY <2>1, OtherHoldsUnmoved
<1>5. \A k \in Hold : hold'[k].status # "none" => hold'[k].amount # 0
  BY <1>2 DEF Ledgered
<1>6. Ledgered'
  BY <1>2, <1>3, <1>4, <1>5 DEF Ledgered
<1>7. \A e \in ledger' : e.amount \in Nat
  BY AmountAssumption DEF FInv, TypeOK, Amount
<1>8. hold[h].status = "captured" => r.status = "captured"
  <2>1. Agrees(hold[h], h, ledger) /\ hold[h].amount # 0
    BY DEF Ledgered
  <2> QED BY <1>1, <1>3, <1>7, <2>1, CapturedForGood
<1>9. Lasting
  BY <1>2, <1>8 DEF Lasting
<1> QED BY <1>2, <1>6, <1>9

\* What a handler stages: the rest of an open hold is captured, or released.
LEMMA StagedFields ==
  ASSUME FInv, NEW w \in Worker, At(w, "commit"), cmd[w].stage # "nothing",
         cmd[w].hold.status = "authorized"
  PROVE  /\ StagedHold(w) \in HoldRow /\ StagedHold(w).amount = cmd[w].hold.amount
         /\ StagedHold(w).status # "none"
         /\ cmd[w].stage = "capture" => StagedHold(w).status = "captured"
         /\ cmd[w].stage = "void" /\ cmd[w].hold.captured = 0 => StagedHold(w).status = "voided"
         /\ Charge(w).party = HoldFor(w) /\ Charge(w).amount \in Amount
<1> DEFINE r == cmd[w].hold
           s == StagedHold(w)
           a == Remaining(r)
<1>1. r \in HoldRow /\ Sound(r) /\ r.status = "authorized" /\ cmd[w].stage \in {"capture", "void"}
  BY AtWork DEF At, Fits, Carries, Command
<1>2. a \in Amount
  BY <1>1, WhatIsLeft
<1>3. Charge(w).party = HoldFor(w) /\ Charge(w).amount = a
  BY DEF Charge, Entry
<1>4. CASE cmd[w].stage = "capture"
  <2>1. s = AfterCapture(r, a)
    BY <1>4 DEF StagedHold
  <2>2. r.captured + a = r.amount
    BY <1>1, AmountAssumption DEF Remaining, HoldRow
  <2>3. s \in HoldRow
    BY <1>1, <1>2, <2>1, WrittenHold
  <2> HIDE DEF r, s, a
  <2>4. s.amount = r.amount /\ s.status = "captured"
    BY <1>1, <2>1, <2>2 DEF AfterCapture, HoldRow
  <2> QED BY <1>2, <1>3, <1>4, <2>3, <2>4 DEF r, s
<1>5. CASE cmd[w].stage = "void"
  <2>1. s = AfterVoid(r)
    BY <1>5 DEF StagedHold
  <2>2. s \in HoldRow
    BY <1>1, <2>1, WrittenHold
  <2> HIDE DEF r, s
  <2>3. s.amount = r.amount /\ s.status = IF r.captured > 0 THEN "partially_captured" ELSE "voided"
    BY <1>1, <2>1 DEF AfterVoid, HoldRow
  <2> QED BY <1>2, <1>3, <1>5, <2>2, <2>3 DEF r, s
<1> QED BY <1>1, <1>4, <1>5

\* What a commit does to the holds.
LEMMA CommitMoney ==
  ASSUME FInv, Ledgered, NEW w \in Worker, At(w, "commit"), Backed(cmd[w]),
         cmd[w].stage # "nothing" =>
           Sound(StagedHold(w)) /\ Agrees(StagedHold(w), HoldFor(w), StagedLedger(w)),
         hold' = IF cmd[w].stage # "nothing" THEN [hold EXCEPT ![HoldFor(w)] = StagedHold(w)]
                 ELSE hold,
         ledger' = StagedLedger(w)
  PROVE  /\ Ledgered' /\ Lasting
         /\ \A k \in Hold : k # HoldFor(w) => hold'[k] = hold[k]
         /\ \A e \in ledger' : e \in ledger \/ e.party = HoldFor(w)
         /\ cmd[w].stage = "nothing" => hold' = hold /\ ledger' = ledger
         /\ cmd[w].stage = "capture" => hold'[HoldFor(w)].status = "captured"
         /\ cmd[w].stage = "void" /\ cmd[w].hold.captured = 0 =>
              hold'[HoldFor(w)].status = "voided"
<1>1. CASE cmd[w].stage = "nothing"
  <2>1. hold' = hold /\ ledger' = ledger
    BY <1>1 DEF StagedLedger
  <2> QED BY <1>1, <2>1 DEF Ledgered, Lasting
<1>2. CASE cmd[w].stage # "nothing"
  <2> DEFINE h == HoldFor(w)
             r == StagedHold(w)
  <2>1. /\ h \in Hold /\ cmd[w].hold.amount = hold[h].amount
        /\ cmd[w].hold.status = "authorized" /\ hold[h].status # "none"
    BY <1>2 DEF Backed, HoldFor
  <2>2. /\ r \in HoldRow /\ r.amount = hold[h].amount /\ r.status # "none"
        /\ cmd[w].stage = "capture" => r.status = "captured"
        /\ cmd[w].stage = "void" /\ cmd[w].hold.captured = 0 => r.status = "voided"
        /\ Charge(w).party = h /\ Charge(w).amount \in Amount
    BY <1>2, <2>1, StagedFields
  <2>3. ledger' = ledger \/ ledger' = ledger \union {Charge(w)}
    BY DEF StagedLedger
  <2>4. Sound(r) /\ Agrees(r, h, ledger') /\ hold' = [hold EXCEPT ![h] = r]
    BY <1>2
  <2> HIDE DEF h, r
  <2>5. /\ Ledgered' /\ Lasting
        /\ \A k \in Hold : k # h => hold'[k] = hold[k]
        /\ hold'[h] = r
        /\ \A e \in ledger' : e \in ledger \/ e.party = h
    BY <2>1, <2>2, <2>3, <2>4, HoldWritten
  <2> QED BY <1>2, <2>2, <2>5 DEF h
<1> QED BY <1>1, <1>2

\* A commit that succeeds.
LEMMA CommitWrites ==
  ASSUME FInv, MoneyInv, NEW w \in Worker, At(w, "commit"),
         NEW o \in Order, cmd[w].order = o, order[o].status \notin Closed,
         cmd[w].stage # "nothing" =>
           Sound(StagedHold(w)) /\ Agrees(StagedHold(w), HoldFor(w), StagedLedger(w)),
         order' = [order EXCEPT ![o] = NextRow(w)],
         hold' = IF cmd[w].stage # "nothing" THEN [hold EXCEPT ![HoldFor(w)] = StagedHold(w)]
                 ELSE hold,
         ledger' = StagedLedger(w),
         cmd' = [cmd EXCEPT ![w] = NoCommand],
         UNCHANGED <<api, faults>>
  PROVE  MoneyInv'
<1> DEFINE c == cmd[w]
           n == NextRow(w)
<1>1. ~Idle(w) /\ c \in Command /\ c.order = o /\ Prices(c) /\ c.step = "commit" /\ Backed(c)
  BY AtWork, WorkBacked DEF At, Fits
<1>2. /\ Ledgered' /\ Lasting
      /\ \A k \in Hold : k # HoldOf[o] => hold'[k] = hold[k]
      /\ \A e \in ledger' : e \in ledger \/ e.party = HoldOf[o]
      /\ c.stage = "nothing" => hold' = hold /\ ledger' = ledger
      /\ c.stage = "capture" => hold'[HoldOf[o]].status = "captured"
      /\ c.stage = "void" /\ c.hold.captured = 0 => hold'[HoldOf[o]].status = "voided"
  BY <1>1, CommitMoney DEF HoldFor, MoneyInv, Paid
<1>3. UNCHANGED <<call, direct>> /\ faults' = faults /\ faults \in Nat
  BY FaultsCounted DEF api
<1>4. \A v \in Worker : ~Idle(v)' => v # w /\ ~Idle(v) /\ cmd'[v] = cmd[v]
  BY DEF FInv, TypeOK, Idle
<1>5. \A p \in Order : order'[p] = IF p = o THEN n ELSE order[p]
  BY DEF FInv, TypeOK
<1>6. /\ c.op = "accept" => n.status = "dispatched" /\ n.settlement = c.row.settlement
      /\ c.op # "accept" => n.settlement = c.settlement
      /\ TakenOn(c) => n.status = "coordinating"
      /\ Earned(c) => n.status = "completed"
      /\ Ends(c) => n.status \in {"failed", "cancelled"}
  BY NextRowFields
<1>7. TakenOn(c) \/ c.op = "accept" \/ Earned(c) \/ Ends(c)
  BY <1>1, Sorts
<1> HIDE DEF n, c
<1>8. n.settlement = "captured" => HoldOf[o] \in Hold /\ hold'[HoldOf[o]].status = "captured"
  <2> SUFFICES ASSUME n.settlement = "captured"
        PROVE  HoldOf[o] \in Hold /\ hold'[HoldOf[o]].status = "captured"
    OBVIOUS
  <2>1. c.settlement = "captured" /\ Earned(c)
    BY <1>1, <1>6, <1>7 DEF Prices, Unpaid, TakenOn, Ends
  <2>2. CASE c.stage = "capture"
    BY <1>1, <1>2, <2>2 DEF Backed
  <2>3. CASE c.stage # "capture"
    BY <1>1, <1>2, <2>1, <2>3 DEF Backed, Lasting
  <2> QED BY <2>2, <2>3
<1>9. CallBacked'
  BY <1>2, <1>3 DEF MoneyInv, Paid, CallBacked, Lasting, FInv, TypeOK, Call
<1>10. \A p \in Order : order'[p].settlement = "captured" =>
         \/ order[p].settlement = "captured"
         \/ HoldOf[p] \in Hold /\ hold'[HoldOf[p]].status = "captured"
  BY <1>5, <1>8
<1>11. \A v \in Worker : ~Idle(v)' => ~Idle(v) /\ cmd'[v] = cmd[v]
  BY <1>4
<1>12. Paid'
  BY <1>2, <1>9, <1>10, <1>11, PaidFrame DEF MoneyInv
<1>13. \A p \in Order : Sole(p)' => Sole(p)
  BY <1>2, <1>3 DEF Sole, Lasting
<1>14. ASSUME NEW p \in Order, p # o PROVE Followed(p)'
  <2>1. Sole(p) => HoldOf[p] # HoldOf[o] /\ HoldOf[p] \in Hold
    BY <1>1, <1>14 DEF Sole
  <2>2. /\ Sole(p) => hold'[HoldOf[p]] = hold[HoldOf[p]]
                      /\ \A e \in ledger' : e \in ledger \/ e.party # HoldOf[p]
        /\ order'[p] = order[p] /\ Followed(p) /\ (Sole(p)' => Sole(p))
    BY <1>2, <1>5, <1>13, <1>14, <2>1 DEF MoneyInv
  <2> QED BY <1>3, <1>11, <2>2, FollowedFrame
<1>15. Followed(o)'
  <2> SUFFICES ASSUME Sole(o)' PROVE Followed(o)'
    BY DEF Followed
  <2>2. Sole(o)
    BY <1>13
  <2>3. Unmoved(HoldOf[o]) /\ \A v \in Worker : ~Idle(v) /\ cmd[v].order = o => Follows(cmd[v], faults)
    BY <2>2, FindsUnmoved
  <2>4. Follows(c, faults)
    BY <1>1, <2>3 DEF c
  <2>5. order'[o] = n
    BY <1>5
  <2>6. \A v \in Worker : ~Idle(v)' /\ cmd'[v].order = o => Follows(cmd'[v], faults')
    BY <1>3, <1>11, <2>3
  <2>7. CASE TakenOn(c) \/ c.op = "accept"
    <3>1. c.stage = "nothing" /\ n.settlement = "held" /\ n.status \in Open
      BY <1>1, <1>6, <2>4, <2>7 DEF Follows, TakenOn, Open
    <3>2. Unmoved(HoldOf[o])'
      BY <1>2, <2>3, <3>1 DEF Unmoved
    <3> QED BY <2>5, <2>6, <3>1, <3>2 DEF Followed, Open, Closed
  <2>8. CASE Earned(c)
    <3>1. n.settlement = "captured" /\ n.status = "completed"
      BY <1>1, <1>6, <2>4, <2>8 DEF Follows, Earned
    <3> QED BY <2>5, <3>1 DEF Followed, Open, Closed
  <2>9. CASE Ends(c)
    <3>1. n.settlement = c.settlement /\ n.status \in {"failed", "cancelled"}
      BY <1>6, <2>9 DEF Ends
    <3>2. \/ c.settlement = "released" /\ c.stage = "void"
          \/ c.settlement \in {"none", "unsettled"} /\ faults > 0
      BY <1>1, <2>4, <2>9 DEF Follows
    <3>3. c.stage = "void" => c.hold.captured = 0
      BY <2>4 DEF Follows
    <3> QED BY <1>2, <1>3, <2>5, <3>1, <3>2, <3>3 DEF Followed, Open, Closed
  <2> QED BY <1>7, <2>7, <2>8, <2>9
<1> QED BY <1>12, <1>14, <1>15 DEF MoneyInv

LEMMA CommitFollows ==
  ASSUME FInv, MoneyInv, NEW w \in Worker, Commit(w)
  PROVE  MoneyInv'
<1> DEFINE c == cmd[w]
           o == c.order
           staged == c.stage # "nothing"
           x == [c EXCEPT !.step = "reread"]
<1>1. At(w, "commit") /\ ~Idle(w) /\ c \in Command
  BY AtWork DEF Commit, At
<1>2. UNCHANGED <<api, faults>>
  BY DEF Commit
<1>3. \/ cmd' = [cmd EXCEPT ![w] = x] /\ UNCHANGED <<order, money, events>>
      \/ cmd' = [cmd EXCEPT ![w] = NoCommand] /\ UNCHANGED <<order, money, events>>
      \/ /\ staged => Sound(StagedHold(w)) /\ Agrees(StagedHold(w), HoldFor(w), StagedLedger(w))
         /\ order[o].status \in Expected(c.op)
         /\ order' = [order EXCEPT ![o] = NextRow(w)]
         /\ hold' = IF staged THEN [hold EXCEPT ![HoldFor(w)] = StagedHold(w)] ELSE hold
         /\ ledger' = StagedLedger(w)
         /\ events' = Published(o, Publishes(w))
         /\ cmd' = [cmd EXCEPT ![w] = NoCommand]
  BY DEF Commit, Finish
<1>4. CASE cmd' = [cmd EXCEPT ![w] = x] /\ UNCHANGED <<order, money, events>>
  <2>1. x.order = c.order /\ x.hold = c.hold /\ x.stage = c.stage /\ x.step = "reread"
    <3> HIDE DEF c
    <3> QED BY <1>1 DEF Command
  <2> HIDE DEF x
  <2> QED BY <1>1, <1>2, <1>4, <2>1, RereadFollows
<1>5. CASE cmd' = [cmd EXCEPT ![w] = NoCommand] /\ UNCHANGED <<order, money, events>>
  BY <1>2, <1>5, LeaveFollows
<1>6. CASE /\ staged => Sound(StagedHold(w))
                        /\ Agrees(StagedHold(w), HoldFor(w), StagedLedger(w))
           /\ order[o].status \in Expected(c.op)
           /\ order' = [order EXCEPT ![o] = NextRow(w)]
           /\ hold' = IF staged THEN [hold EXCEPT ![HoldFor(w)] = StagedHold(w)] ELSE hold
           /\ ledger' = StagedLedger(w)
           /\ events' = Published(o, Publishes(w))
           /\ cmd' = [cmd EXCEPT ![w] = NoCommand]
  <2>1. order[o].status \notin Closed
    BY <1>1, <1>6, CommitTally
  <2>2. PICK p \in Order : cmd[w].order = p
    BY <1>1, AtWork
  <2>3. order[p].status \notin Closed /\ order' = [order EXCEPT ![p] = NextRow(w)]
    BY <1>6, <2>1, <2>2
  <2> QED BY <1>1, <1>2, <1>6, <2>2, <2>3, CommitWrites
<1> QED BY <1>3, <1>4, <1>5, <1>6

-----------------------------------------------------------------------------
(* The payment API, again. *)

\* A step of the API moves no handler, writes no fulfillment, and changes only
\* holds that it has been called for.
LEMMA ApiFollows ==
  ASSUME FInv, MoneyInv, UNCHANGED <<order, cmd, faults>>, Ledgered', CallBacked', Lasting,
         direct \subseteq direct',
         \A h \in Hold \ direct : hold'[h] = hold[h] /\ \A e \in ledger' : e \in ledger \/ e.party # h
  PROVE  MoneyInv'
<1>1. \A w \in Worker : ~Idle(w)' => ~Idle(w) /\ cmd'[w] = cmd[w]
  BY DEF Idle
<1>2. \A o \in Order : order'[o].settlement = "captured" => order[o].settlement = "captured"
  OBVIOUS
<1>3. Paid'
  BY <1>1, <1>2, PaidFrame DEF MoneyInv
<1>4. ASSUME NEW o \in Order PROVE Followed(o)'
  <2>1. Followed(o) /\ (Sole(o)' => Sole(o)) /\ faults \in Nat
    BY FaultsCounted DEF MoneyInv, Sole, Lasting
  <2>2. Sole(o) => hold'[HoldOf[o]] = hold[HoldOf[o]]
                   /\ \A e \in ledger' : e \in ledger \/ e.party # HoldOf[o]
    BY DEF Sole
  <2> QED BY <1>1, <2>1, <2>2, FollowedFrame
<1> QED BY <1>3, <1>4 DEF MoneyInv

\* A hold lapses; a call reads its hold, and decides.
LEMMA CallReadsFollows ==
  ASSUME FInv, MoneyInv,
         \/ \E h \in Hold : Lapse(h) \/ CallVoid(h)
         \/ \E h \in Hold, key \in Key \union {Whole}, a \in Amount : CallCapture(h, key, a)
         \/ CallDecides
  PROVE  MoneyInv'
<1>1. UNCHANGED <<order, hold, ledger, cmd, faults>>
  BY DEF Lapse, CallVoid, CallCapture, CallDecides, money
<1>2. Lasting /\ Ledgered'
  BY <1>1 DEF Lasting, MoneyInv, Paid, Ledgered
<1>3. CallBacked' /\ direct \subseteq direct'
  <2>1. ASSUME NEW h \in Hold, NEW x, call' = x, x.hold = h, x.row = hold[h],
               hold[h].status = "authorized", direct' = direct \union {h}
        PROVE  CallBacked' /\ direct \subseteq direct'
    BY <1>1, <2>1 DEF CallBacked
  <2>2. ASSUME NEW h \in Hold, Lapse(h) PROVE CallBacked' /\ direct \subseteq direct'
    BY <1>1, <2>2 DEF Lapse, api, MoneyInv, Paid, CallBacked
  <2>3. ASSUME NEW h \in Hold, CallVoid(h) PROVE CallBacked' /\ direct \subseteq direct'
    BY <2>1, <2>3 DEF CallVoid
  <2>4. ASSUME NEW h \in Hold, NEW key \in Key \union {Whole}, NEW a \in Amount,
               CallCapture(h, key, a)
        PROVE  CallBacked' /\ direct \subseteq direct'
    BY <2>1, <2>4 DEF CallCapture
  <2>5. ASSUME CallDecides PROVE CallBacked' /\ direct \subseteq direct'
    <3>1. CallBacked /\ call \in Call /\ UNCHANGED <<hold, direct>>
      BY <1>1, <2>5 DEF CallDecides, MoneyInv, Paid, FInv, TypeOK
    <3> DEFINE x == [call EXCEPT !.step = "commit"]
    <3>2. call # NoCommand /\ (call' = x \/ call' = NoCommand)
      BY <2>5 DEF CallDecides
    <3>3. x.hold = call.hold /\ x.row = call.row
      BY <3>1 DEF Call
    <3> HIDE DEF x
    <3> QED BY <3>1, <3>2, <3>3 DEF CallBacked
  <2> QED BY <2>2, <2>3, <2>4, <2>5
<1> QED BY <1>1, <1>2, <1>3, ApiFollows

\* What a call writes is of the hold it was made for.
LEMMA CallCommitFollows ==
  ASSUME FInv, MoneyInv, CallCommits
  PROVE  MoneyInv'
<1> DEFINE h == call.hold
           capture == call.op = "capture"
           r == IF capture THEN AfterCapture(call.row, call.amount) ELSE AfterVoid(call.row)
           L == IF capture THEN ledger \union {CallEntry} ELSE ledger
<1>1. /\ call \in Call /\ h \in Hold /\ call.row \in HoldRow /\ h \in direct
      /\ call.row.amount = hold[h].amount /\ hold[h].status # "none"
      /\ capture => call.amount \in Amount
  <2>1. call # NoCommand
    BY DEF CallCommits
  <2> QED BY <2>1 DEF FInv, TypeOK, HoldsSound, CallFits, Call, MoneyInv, Paid, CallBacked
<1>2. /\ call' = NoCommand /\ UNCHANGED <<order, cmd, direct, faults>>
      /\ \/ /\ Sound(r) /\ Agrees(r, h, L)
            /\ hold' = [hold EXCEPT ![h] = r] /\ ledger' = L
         \/ UNCHANGED <<hold, ledger>>
  BY DEF CallCommits, money
<1>3. r \in HoldRow /\ r.amount = call.row.amount /\ r.status # "none"
  <2>1. r \in HoldRow
    BY <1>1, WrittenHold
  <2>2. AfterVoid(call.row).amount = call.row.amount /\ AfterVoid(call.row).status # "none"
    BY <1>1 DEF AfterVoid, HoldRow
  <2>3. AfterCapture(call.row, call.amount).amount = call.row.amount
        /\ AfterCapture(call.row, call.amount).status # "none"
    BY <1>1 DEF AfterCapture, HoldRow
  <2> QED BY <2>1, <2>2, <2>3
<1>4. capture => CallEntry.party = h /\ CallEntry.amount \in Amount
  BY <1>1 DEF CallEntry, Entry
<1>5. L = ledger \/ (capture /\ L = ledger \union {CallEntry})
  OBVIOUS
<1>6. CallBacked'
  BY <1>2 DEF CallBacked
<1>7. Ledgered
  BY DEF MoneyInv, Paid
<1> HIDE DEF r, L
<1>8. CASE UNCHANGED <<hold, ledger>>
  BY <1>2, <1>6, <1>7, <1>8, ApiFollows DEF Lasting, Ledgered
<1>9. ASSUME Sound(r), Agrees(r, h, L), hold' = [hold EXCEPT ![h] = r], ledger' = L
      PROVE  MoneyInv'
  <2>1. PICK k \in Hold : k = h
    BY <1>1
  <2>2. PICK s : s = r
    OBVIOUS
  <2>3. /\ s \in HoldRow /\ Sound(s) /\ hold' = [hold EXCEPT ![k] = s] /\ Agrees(s, k, ledger')
        /\ s.amount = hold[k].amount /\ hold[k].status # "none" /\ s.status # "none"
    BY <1>1, <1>3, <1>9, <2>1, <2>2
  <2>4. \/ ledger' = ledger
        \/ \E e : ledger' = ledger \union {e} /\ e.party = k /\ e.amount \in Amount
    BY <1>4, <1>5, <1>9, <2>1
  <2>5. /\ Ledgered' /\ Lasting
        /\ \A j \in Hold : j # k => hold'[j] = hold[j]
        /\ \A e \in ledger' : e \in ledger \/ e.party = k
    BY <1>7, <2>3, <2>4, HoldWritten
  <2>6. \A j \in Hold \ direct : hold'[j] = hold[j] /\ \A e \in ledger' : e \in ledger \/ e.party # j
    BY <1>1, <2>1, <2>5
  <2> QED BY <1>2, <1>6, <2>5, <2>6, ApiFollows
<1> QED BY <1>2, <1>8, <1>9

-----------------------------------------------------------------------------
(* The specification, again. *)

\* Nothing has been moved, and nobody has read anything.
LEMMA InitMoneyInv == Init => MoneyInv
<1> SUFFICES ASSUME Init PROVE MoneyInv
  OBVIOUS
<1>1. ledger = {} /\ call = NoCommand /\ \A w \in Worker : Idle(w)
  BY DEF Init, Idle
<1>2. \A o \in Order : order[o].status = "absent" /\ order[o].settlement = "none"
  BY DEF Init, NoFulfillment
<1>3. \A h \in Hold : hold[h] = NoHold \/ hold[h] = Authorized(MaxAmount)
  <2>1. hold \in [Hold -> {NoHold, Authorized(MaxAmount)}]
    BY DEF Init
  <2> QED BY <2>1
<1>4. \A h \in Hold : /\ hold[h].captured = 0 /\ hold[h].refunded = 0
                      /\ hold[h].status # "none" => hold[h].status = "authorized" /\ hold[h].amount # 0
  BY <1>3, AmountAssumption DEF NoHold, Authorized
<1>5. \A h \in Hold : Agrees(hold[h], h, ledger)
  BY <1>1, <1>4 DEF Agrees, Moved, Movements
<1>6. Paid
  BY <1>1, <1>2, <1>4, <1>5, FS_EmptySet DEF Paid, Ledgered, CallBacked
<1>7. \A o \in Order : Followed(o)
  BY <1>1, <1>2, <1>4 DEF Followed, Sole, Unmoved, Open, Closed
<1> QED BY <1>6, <1>7 DEF MoneyInv

\* Every step preserves it.
LEMMA NextMoneyInv ==
  ASSUME FInv, MoneyInv, [Next]_vars
  PROVE  MoneyInv'
<1>1. CASE \/ \E h \in Hold : Lapse(h) \/ CallVoid(h)
           \/ \E h \in Hold, key \in Key \union {Whole}, a \in Amount : CallCapture(h, key, a)
           \/ CallDecides
  BY <1>1, CallReadsFollows
<1>2. CASE CallCommits
  BY <1>2, CallCommitFollows
<1>3. CASE \E w \in Worker, o \in Order :
             \/ ReceiveOrder(w, o) \/ Reject(w, o) \/ Cancel(w, o)
             \/ \E j \in Job : Accept(w, o, j) \/ \E done \in BOOLEAN : Complete(w, o, j, done)
  BY <1>3, MessageFollows
<1>4. CASE \E w \in Worker : Inspect(w) \/ ReadHold(w) \/ ReadLedger(w) \/ Release(w)
                             \/ ReadFails(w)
  BY <1>4, InspectFollows, ReadHoldFollows, ReadLedgerFollows, ReleaseFollows, ReadFailsFollows
<1>5. CASE \E w \in Worker : Commit(w)
  BY <1>5, CommitFollows
<1>6. CASE \E w \in Worker : Reread(w) \/ Reply(w) \/ Crash(w) \/ MarkExecution(w) \/ TraceJob(w)
  BY <1>6, AnswerFollows
<1>7. CASE UNCHANGED vars
  <2>1. UNCHANGED <<order, cmd, faults, hold, ledger, call, direct>>
    BY <1>7 DEF vars, money, api
  <2>2. Lasting /\ Ledgered' /\ CallBacked'
    BY <2>1 DEF Lasting, MoneyInv, Paid, Ledgered, CallBacked
  <2> QED BY <2>1, <2>2, ApiFollows
<1> QED
  BY <1>1, <1>2, <1>3, <1>4, <1>5, <1>6, <1>7 DEF Next

LEMMA SpecMoneyInv == Spec => [](FInv /\ MoneyInv)
<1>1. FInv /\ MoneyInv /\ [Next]_vars => FInv' /\ MoneyInv'
  BY NextFInv, NextMoneyInv
<1> QED
  BY <1>1, InitFInv, InitMoneyInv, PTL DEF Spec

\* CapturedIsPaid: for any payment API calls, orders that share holds included, a
\* fulfillment that says `captured` has a hold that is captured whole, with ledger
\* entries for all of it.
THEOREM Paying == Spec => []CapturedIsPaid
<1>1. FInv /\ MoneyInv => CapturedIsPaid
  <2> SUFFICES ASSUME FInv, MoneyInv, NEW o \in Order, order[o].settlement = "captured"
        PROVE  /\ hold[HoldOf[o]].status = "captured"
               /\ Moved(ledger, "capture", HoldOf[o]) = hold[HoldOf[o]].amount
    BY DEF CapturedIsPaid
  <2>1. HoldOf[o] \in Hold /\ hold[HoldOf[o]].status = "captured"
        /\ Agrees(hold[HoldOf[o]], HoldOf[o], ledger)
    BY DEF MoneyInv, Paid, Ledgered
  <2>2. hold[HoldOf[o]].captured = hold[HoldOf[o]].amount
    BY <2>1 DEF FInv, HoldsSound, Sound
  <2> QED BY <2>1, <2>2 DEF Agrees
<1> QED
  BY <1>1, SpecMoneyInv, PTL

\* MoneyFollowsExecution: for a hold of one order only, that nobody calls the
\* payment API for, the order's settlement says where the money is, through every
\* race, crash and rolled back closure, unless a read of the port has failed.
THEOREM Following == Spec => []MoneyFollowsExecution
<1>1. FInv /\ MoneyInv => MoneyFollowsExecution
  <2> SUFFICES ASSUME FInv, MoneyInv, NEW o \in Order,
                      HoldOf[o] # Unfunded, HoldOf[o] \notin direct,
                      \A p \in Order \ {o} : HoldOf[p] # HoldOf[o],
                      order[o].status # "absent", hold[HoldOf[o]].status # "none"
        PROVE  LET r == hold[HoldOf[o]]
               IN  CASE order[o].settlement = "held" ->
                          order[o].status \in Open /\ r.status = "authorized"
                     [] order[o].settlement = "captured" ->
                          order[o].status = "completed" /\ r.status = "captured"
                     [] order[o].settlement = "released" ->
                          order[o].status \in {"failed", "cancelled"} /\ r.status = "voided"
                     [] OTHER -> faults > 0 /\ order[o].status \in Closed
    BY DEF MoneyFollowsExecution
  <2>1. Sole(o) /\ Followed(o)
    BY OrderAssumption DEF Sole, MoneyInv
  <2>2. order[o] \in FulfillmentRow /\ Aligned(order[o])
    BY DEF FInv, TypeOK, RowsAligned
  <2>3. order[o].status \in Open \union Closed
    BY <2>2 DEF FulfillmentRow
  <2>4. CASE order[o].status \in Open
    <3>1. order[o].settlement = "held" /\ hold[HoldOf[o]].status = "authorized"
      BY <2>1, <2>4 DEF Followed, Unmoved, Open, Closed
    <3> QED BY <2>4, <3>1
  <2>5. CASE order[o].status \in Closed
    <3>1. /\ order[o].settlement # "held"
          /\ order[o].settlement = "captured" => order[o].status = "completed"
          /\ order[o].settlement = "released" => order[o].status \in {"failed", "cancelled"}
      BY <2>2, <2>5 DEF Aligned, Open, Closed
    <3>2. order[o].settlement = "captured" => hold[HoldOf[o]].status = "captured"
      BY DEF MoneyInv, Paid
    <3>3. order[o].settlement = "released" => hold[HoldOf[o]].status = "voided"
      BY <2>1, <2>5 DEF Followed
    <3>4. order[o].settlement \notin {"captured", "released"} => faults > 0
      BY <2>1, <2>5 DEF Followed
    <3> QED BY <2>5, <3>1, <3>2, <3>3, <3>4
  <2> QED BY <2>3, <2>4, <2>5
<1> QED
  BY <1>1, SpecMoneyInv, PTL
=============================================================================
