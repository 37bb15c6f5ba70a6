----------------------------- MODULE Settlement -----------------------------
(***************************************************************************)
(* One payment authorization and its part of the ledger: what a capture, a *)
(* refund or a void makes of the row they read, and what the database asks *)
(* of the row and the ledger when a transaction commits.  Money applies    *)
(* these to concurrent commands; Fulfillment applies them through its      *)
(* payment port.                                                           *)
(*                                                                         *)
(* A hold is named by its business reference, which is unique.             *)
(***************************************************************************)
EXTENDS FiniteSetsExt

CONSTANTS
  Hold,
  Key,        \* capture_reference and refund_reference values
  Whole,      \* the absent capture_reference
  MaxAmount   \* model bound: the largest amount a hold or a command names

ASSUME AmountAssumption == MaxAmount \in Nat \ {0}
ASSUME WholeAssumption == Whole \notin Key

Amount == 1..MaxAmount

HoldRow ==
  [status : {"none", "authorized", "captured", "partially_captured", "voided"},
   amount : 0..MaxAmount, captured : Nat, refunded : Nat]

NoHold == [status |-> "none", amount |-> 0, captured |-> 0, refunded |-> 0]

Authorized(a) == [status |-> "authorized", amount |-> a, captured |-> 0, refunded |-> 0]

Remaining(r) == IF r.status = "authorized" THEN r.amount - r.captured ELSE 0

Refundable(r) == r.captured - r.refunded

AfterCapture(r, a) ==
  [r EXCEPT !.captured = @ + a,
            !.status = IF r.captured + a = r.amount THEN "captured" ELSE "authorized"]

\* A refund gives money back and leaves the status and the captured total alone.
AfterRefund(r, a) == [r EXCEPT !.refunded = @ + a]

\* A mutant: a void says what became of the money and not of the hold.
AfterRelease(r) == [r EXCEPT !.status = "released"]

\* A void releases the remainder.  What has moved stays moved.
AfterVoid(r) ==
  [r EXCEPT !.status = IF r.captured > 0 THEN "partially_captured" ELSE "voided"]

-----------------------------------------------------------------------------
(* The ledger: one entry for each transaction, `party` being the hold it   *)
(* belongs to or, for a credit, the wallet.                                *)

Entry(kind, party, key, a) == [kind |-> kind, party |-> party, key |-> key, amount |-> a]

\* business_reference: `capture:<hold>[:<key>]`, `refund:<hold>:<key>`, and for
\* a credit whatever the caller supplied.
Reference(e) == IF e.kind = "credit" THEN <<e.kind, e.key>> ELSE <<e.kind, e.party, e.key>>

\* A mutant: a repeat is recognised by its amount as well.
RecordedExactly(L, e) == e \in L

Recorded(L, e) == \E f \in L : Reference(f) = Reference(e)

Movements(L, kind, party) == {e \in L : e.kind = kind /\ e.party = party}

\* COALESCE(SUM(amount), 0) over one kind of movement.
Moved(L, kind, party) ==
  LET M == Movements(L, kind, party)
  IN  IF M = {} THEN 0 ELSE MapThenSumSet(LAMBDA e : e.amount, M)

\* What a capture is refused for once its reference is known to be new.
MayCapture(r, lapsed, key, a) ==
  /\ r.status = "authorized"
  /\ ~lapsed
  /\ a < Remaining(r) => key # Whole
  /\ a <= Remaining(r)

MayRefund(r, a) == a <= Refundable(r)

-----------------------------------------------------------------------------
(* What the database asks at commit. *)

\* CHECK constraints: the two ceilings and the agreement of status and amounts.
Sound(r) ==
  /\ r.captured <= r.amount
  /\ r.refunded <= r.captured
  /\ r.status = "authorized" => r.captured < r.amount
  /\ r.status = "captured" => r.captured = r.amount
  /\ r.status = "partially_captured" => r.captured > 0 /\ r.captured < r.amount
  /\ r.status = "voided" => r.captured = 0

\* A mutant: one trigger for the balance of the two sums.
AgreesNet(r, h, L) == r.captured - r.refunded = Moved(L, "capture", h) - Moved(L, "refund", h)

\* A mutant: the capture trigger is missing.
AgreesOnRefunds(r, h, L) == r.refunded = Moved(L, "refund", h)

\* Deferred triggers: the row's totals are the ledger's, by kind.
Agrees(r, h, L) ==
  /\ r.captured = Moved(L, "capture", h)
  /\ r.refunded = Moved(L, "refund", h)
=============================================================================
