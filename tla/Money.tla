-------------------------------- MODULE Money --------------------------------
(***************************************************************************)
(* The money module under concurrent commands.  A command reads rows on    *)
(* the connection pool, each read on its own, decides, and then commits    *)
(* its writes in one transaction that knows nothing of what was read: the  *)
(* authorization row is written back whole, by id.  What keeps two         *)
(* commands apart is therefore only what the database checks at commit.    *)
(***************************************************************************)
EXTENDS Settlement

CONSTANTS
  Wallet,
  WalletOf,    \* the wallet each authorization's business reference names
  Credit,      \* business references of credits
  Client,
  NoCommand

ASSUME WalletAssumption == WalletOf \in [Hold -> Wallet]

VARIABLES
  wallets,  \* the wallets that exist
  hold,     \* the payment_authorization table
  ledger,
  lapsed,   \* holds whose expiry has passed; one without an expiry never does
  cmd,      \* what each client's command has read so far
  due       \* the rows an expiry sweep has still to release

vars == <<wallets, hold, ledger, lapsed, cmd, due>>

LedgerEntry ==
  [kind : {"credit", "capture", "refund"}, party : Hold \union Wallet,
   key : Key \union Credit \union {Whole}, amount : Amount]

Command ==
  [op : {"credit", "authorize", "capture", "refund", "void"},
   step : {"posted", "held", "decide", "commit"},
   party : Hold \union Wallet, key : Key \union Credit \union {Whole}, amount : 0..MaxAmount,
   row : HoldRow,  \* the authorization as it was read, or as it will be inserted
   seen : SUBSET LedgerEntry]  \* the ledger as balance() read it

Init ==
  /\ wallets = {}
  /\ hold = [h \in Hold |-> NoHold]
  /\ ledger = {}
  /\ lapsed = {}
  /\ cmd = [c \in Client |-> NoCommand]
  /\ due = {}

CreateWallet(w) ==
  /\ wallets' = wallets \union {w}
  /\ UNCHANGED <<hold, ledger, lapsed, cmd, due>>

\* An authorization's expires_at goes by.
Lapse(h) ==
  /\ hold[h].status # "none"
  /\ lapsed' = lapsed \union {h}
  /\ UNCHANGED <<wallets, hold, ledger, cmd, due>>

-----------------------------------------------------------------------------
(* Reading and deciding. *)

Idle(c) == cmd[c] = NoCommand

At(c, step) == ~Idle(c) /\ cmd[c].step = step

Start(c, op, step, party, key, a, r) ==
  /\ Idle(c)
  /\ cmd' = [cmd EXCEPT ![c] =
       [op |-> op, step |-> step, party |-> party, key |-> key, amount |-> a, row |-> r,
        seen |-> {}]]
  /\ UNCHANGED <<wallets, hold, ledger, lapsed, due>>

\* Answered or refused: nothing is written.
Leave(c) ==
  /\ cmd' = [cmd EXCEPT ![c] = NoCommand]
  /\ UNCHANGED <<wallets, hold, ledger, lapsed, due>>

Proceed(c, step, seen) ==
  /\ cmd' = [cmd EXCEPT ![c].step = step, ![c].seen = seen]
  /\ UNCHANGED <<wallets, hold, ledger, lapsed, due>>

\* The staged ledger entry of a command.
Staged(c) == Entry(cmd[c].op, cmd[c].party, cmd[c].key, cmd[c].amount)

StartCredit(c, w, ref, a) ==
  /\ w \in wallets
  /\ ~Recorded(ledger, Entry("credit", w, ref, a))
  /\ Start(c, "credit", "commit", w, ref, a, NoHold)

StartAuthorize(c, h, a) ==
  /\ WalletOf[h] \in wallets
  /\ hold[h].status = "none"
  /\ Start(c, "authorize", "posted", h, Whole, a, Authorized(a))

HoldsOf(w) == {h \in Hold : WalletOf[h] = w}

Posted(L, w) ==
  Moved(L, "credit", w)
    + MapThenSumSet(LAMBDA h : Moved(L, "refund", h) - Moved(L, "capture", h), HoldsOf(w))

\* The remainders of a wallet's open holds.  A lapsed hold is not counted.
Held(w) == MapThenSumSet(LAMBDA h : Remaining(hold[h]), HoldsOf(w) \ lapsed)

\* balance() reads the ledger and then, separately, the authorizations.
ReadPosted(c) ==
  /\ At(c, "posted")
  /\ Proceed(c, "held", ledger)

ReadHeld(c) ==
  /\ At(c, "held")
  /\ LET w == WalletOf[cmd[c].party]
     IN  IF Posted(cmd[c].seen, w) - Held(w) >= cmd[c].amount
         THEN Proceed(c, "commit", {})
         ELSE Leave(c)

\* capture and refund read the authorization, then look their reference up.
StartCapture(c, h, key, a) ==
  /\ hold[h].status # "none"
  /\ Start(c, "capture", "decide", h, key, a, hold[h])

StartRefund(c, h, key, a) ==
  /\ hold[h].status # "none"
  /\ Start(c, "refund", "decide", h, key, a, hold[h])

\* A closed hold is answered as it is, and a captured one refused.
StartVoid(c, h) ==
  /\ hold[h].status = "authorized"
  /\ Start(c, "void", "commit", h, Whole, 0, hold[h])

Decide(c) ==
  /\ At(c, "decide")
  /\ LET r == cmd[c].row
         may == IF cmd[c].op = "capture"
                THEN MayCapture(r, cmd[c].party \in lapsed, cmd[c].key, cmd[c].amount)
                ELSE MayRefund(r, cmd[c].amount)
     IN  IF ~Recorded(ledger, Staged(c)) /\ may THEN Proceed(c, "commit", {}) ELSE Leave(c)

-----------------------------------------------------------------------------
(* Committing. *)

\* The row a command writes, made from the row it read.
Written(c) ==
  LET r == cmd[c].row
  IN  CASE cmd[c].op = "capture" -> AfterCapture(r, cmd[c].amount)
        [] cmd[c].op = "refund" -> AfterRefund(r, cmd[c].amount)
        [] cmd[c].op = "void" -> AfterVoid(r)
        [] OTHER -> r

\* A mutant: without the ledger triggers.
AcceptedUnseen(r, h, L) == Sound(r)

\* Whether the database lets row r of hold h commit together with ledger L.
Accepted(r, h, L) == Sound(r) /\ Agrees(r, h, L)

CommitCredit(c) ==
  /\ At(c, "commit") /\ cmd[c].op = "credit"
  /\ ledger' = IF Recorded(ledger, Staged(c)) THEN ledger ELSE ledger \union {Staged(c)}
  /\ cmd' = [cmd EXCEPT ![c] = NoCommand]
  /\ UNCHANGED <<wallets, hold, lapsed, due>>

CommitAuthorize(c) ==
  /\ At(c, "commit") /\ cmd[c].op = "authorize"
  /\ hold' = IF hold[cmd[c].party].status = "none"
             THEN [hold EXCEPT ![cmd[c].party] = Written(c)]
             ELSE hold
  /\ cmd' = [cmd EXCEPT ![c] = NoCommand]
  /\ UNCHANGED <<wallets, ledger, lapsed, due>>

\* Capture and refund: the row and its ledger entry, or neither.
CommitMovement(c) ==
  /\ At(c, "commit") /\ cmd[c].op \in {"capture", "refund"}
  /\ LET h == cmd[c].party
         L == ledger \union {Staged(c)}
     IN  IF ~Recorded(ledger, Staged(c)) /\ Accepted(Written(c), h, L)
         THEN hold' = [hold EXCEPT ![h] = Written(c)] /\ ledger' = L
         ELSE UNCHANGED <<hold, ledger>>
  /\ cmd' = [cmd EXCEPT ![c] = NoCommand]
  /\ UNCHANGED <<wallets, lapsed, due>>

CommitVoid(c) ==
  /\ At(c, "commit") /\ cmd[c].op = "void"
  /\ LET h == cmd[c].party
     IN  hold' = IF Accepted(Written(c), h, ledger) THEN [hold EXCEPT ![h] = Written(c)] ELSE hold
  /\ cmd' = [cmd EXCEPT ![c] = NoCommand]
  /\ UNCHANGED <<wallets, ledger, lapsed, due>>

\* The process or its connection dies before the transaction commits.
Crash(c) == ~Idle(c) /\ Leave(c)

-----------------------------------------------------------------------------
(* expireDueAuthorizations: one read, then a transaction for each row. *)

SweepRead ==
  /\ due = {}
  /\ due' = {[item |-> h, row |-> hold[h]] : h \in {g \in lapsed : hold[g].status = "authorized"}}
  /\ UNCHANGED <<wallets, hold, ledger, lapsed, cmd>>

\* A refused row ends the sweep with the rest of its list unswept.
SweepRelease ==
  /\ \E d \in due :
       IF Accepted(AfterVoid(d.row), d.item, ledger)
       THEN /\ hold' = [hold EXCEPT ![d.item] = AfterVoid(d.row)]
            /\ due' = due \ {d}
       ELSE /\ due' = {}
            /\ UNCHANGED hold
  /\ UNCHANGED <<wallets, ledger, lapsed, cmd>>

Next ==
  \/ \E w \in Wallet : CreateWallet(w)
  \/ \E h \in Hold : Lapse(h)
  \/ \E c \in Client :
       \/ \E w \in Wallet, ref \in Credit, a \in Amount : StartCredit(c, w, ref, a)
       \/ \E h \in Hold :
            \/ \E a \in Amount :
                 \/ StartAuthorize(c, h, a)
                 \/ \E key \in Key \union {Whole} : StartCapture(c, h, key, a)
                 \/ \E key \in Key : StartRefund(c, h, key, a)
            \/ StartVoid(c, h)
       \/ ReadPosted(c)
       \/ ReadHeld(c)
       \/ Decide(c)
       \/ CommitCredit(c)
       \/ CommitAuthorize(c)
       \/ CommitMovement(c)
       \/ CommitVoid(c)
       \/ Crash(c)
  \/ SweepRead
  \/ SweepRelease

Spec == Init /\ [][Next]_vars

-----------------------------------------------------------------------------

TypeOK ==
  /\ wallets \subseteq Wallet
  /\ hold \in [Hold -> HoldRow]
  /\ ledger \subseteq LedgerEntry
  /\ lapsed \subseteq Hold
  /\ cmd \in [Client -> Command \union {NoCommand}]
  /\ due \subseteq [item : Hold, row : HoldRow]

\* The totals on every authorization are the ledger's, whatever stale rows
\* concurrent commands write back ("the aggregates cannot drift from the ledger").
AggregatesAgree == \A h \in Hold : Agrees(hold[h], h, ledger)

\* By the ledger, and not only by the row's own columns, no more is captured
\* than the payer consented to and no more is given back than was captured.
ConsentIsACeiling ==
  \A h \in Hold :
    /\ Moved(ledger, "capture", h) <= hold[h].amount
    /\ Moved(ledger, "refund", h) <= Moved(ledger, "capture", h)

\* One business reference moves money once, however many commands carry it at
\* the same time and whatever amounts they name.
ReferenceMovesMoneyOnce ==
  \A e, f \in ledger : Reference(e) = Reference(f) => e = f

\* A hold's totals only grow and a captured hold stays captured: no row written
\* back from an old reading takes a movement back ("grows, never shrinks").
AggregatesOnlyGrow ==
  [][\A h \in Hold :
       /\ hold'[h].captured >= hold[h].captured
       /\ hold'[h].refunded >= hold[h].refunded
       /\ hold[h].status = "captured" => hold'[h].status = "captured"]_vars

-----------------------------------------------------------------------------
(* What the documents say of a hold, which concurrent commands do not keep. *)

\* "Re-capturing a voided hold is not possible."
VoidedHoldMovesNothing ==
  [][\A h \in Hold : hold[h].status = "voided" => hold'[h] = hold[h]]_vars

\* A hold larger than the wallet's available balance is refused: with nothing
\* lapsed, a wallet's open holds are covered by what it has posted.
HoldsAreFunded == lapsed = {} => \A w \in Wallet : Held(w) <= Posted(ledger, w)
=============================================================================
