------------------------------ MODULE MoneyProofs ------------------------------
(***************************************************************************)
(* What the money module keeps whatever stale rows its commands write back *)
(* and however many of them run: the aggregates are the ledger's, consent  *)
(* is a ceiling, and a business reference moves money once.                *)
(***************************************************************************)
EXTENDS Money, SettlementProofs

\* What a command in flight carries, by what it is about to do.  Only a command
\* that reaches CommitMovement or CommitVoid writes a row back, and it read that
\* row from an authorization that exists.
Fits(x) ==
  /\ x.op # "void" => x.amount \in Amount
  /\ x.op = "credit" => x.step = "commit"
  /\ x.op # "credit" => x.party \in Hold
  /\ x.op = "authorize" => x.row = Authorized(x.amount)
  /\ x.op \in {"capture", "refund", "void"} => x.row.status # "none"
  /\ x.step = "decide" => x.op \in {"capture", "refund"}

CommandsFit == \A c \in Client : ~Idle(c) => Fits(cmd[c])

DueRowsExist == \A d \in due : d.row.status # "none"

\* A row is sound, and one that does not exist yet is empty.
RowsSound ==
  \A h \in Hold : Sound(hold[h]) /\ (hold[h].status = "none" => hold[h] = NoHold)

IInv == TypeOK /\ CommandsFit /\ DueRowsExist /\ RowsSound /\ AggregatesAgree

-----------------------------------------------------------------------------
(* Rows. *)

LEMMA NewHoldTyped ==
  ASSUME NEW a \in Amount
  PROVE  /\ Authorized(a) \in HoldRow
         /\ Authorized(a).status = "authorized"
         /\ Sound(Authorized(a))
  BY AmountAssumption DEF Authorized, HoldRow, Amount, Sound

LEMMA CaptureTyped ==
  ASSUME NEW r \in HoldRow, NEW a \in Amount
  PROVE  AfterCapture(r, a) \in HoldRow /\ AfterCapture(r, a).status # "none"
  <1>1. PICK status \in {"captured", "authorized"} :
          AfterCapture(r, a) = [r EXCEPT !.captured = r.captured + a, !.status = status]
    BY DEF AfterCapture
  <1>2. r.captured + a \in Nat
    BY AmountAssumption DEF HoldRow, Amount
  <1> QED BY <1>1, <1>2 DEF HoldRow

LEMMA RefundTyped ==
  ASSUME NEW r \in HoldRow, NEW a \in Amount
  PROVE  AfterRefund(r, a) \in HoldRow /\ AfterRefund(r, a).status = r.status
  BY AmountAssumption DEF AfterRefund, HoldRow, Amount

LEMMA VoidTyped ==
  ASSUME NEW r \in HoldRow
  PROVE  AfterVoid(r) \in HoldRow /\ AfterVoid(r).status # "none"
  BY DEF AfterVoid, HoldRow

-----------------------------------------------------------------------------
(* The ledger.  An entry counts for its own party and kind only, which is  *)
(* all that is needed of the sums.                                         *)

LEMMA EmptyLedger ==
  ASSUME NEW h \in Hold
  PROVE  Agrees(NoHold, h, {})
  BY DEF Agrees, NoHold, Moved, Movements

LEMMA OtherPartiesUnmoved ==
  ASSUME NEW L, NEW e, NEW h \in Hold, NEW r, e.party # h \/ e.kind = "credit"
  PROVE  Agrees(r, h, L) <=> Agrees(r, h, L \union {e})
  <1>1. Movements(L \union {e}, "capture", h) = Movements(L, "capture", h)
    BY DEF Movements
  <1>2. Movements(L \union {e}, "refund", h) = Movements(L, "refund", h)
    BY DEF Movements
  <1> QED BY <1>1, <1>2 DEF Agrees, Moved

-----------------------------------------------------------------------------
(* Commands that only read. *)

\* A client's slot may change to any typed, fitting command while the tables
\* stand still.
LEMMA TablesStandStill ==
  ASSUME IInv, UNCHANGED <<hold, ledger, due>>,
         wallets' \subseteq Wallet, lapsed' \subseteq Hold,
         NEW c \in Client, NEW x \in Command \union {NoCommand},
         x # NoCommand => Fits(x),
         cmd' = [cmd EXCEPT ![c] = x]
  PROVE  IInv'
  <1>1. TypeOK'
    BY DEF IInv, TypeOK
  <1>2. CommandsFit'
    BY DEF IInv, TypeOK, CommandsFit, Idle
  <1>3. DueRowsExist' /\ RowsSound' /\ AggregatesAgree'
    BY DEF IInv, DueRowsExist, RowsSound, AggregatesAgree
  <1> QED BY <1>1, <1>2, <1>3 DEF IInv

LEMMA StartKeeps ==
  ASSUME IInv, NEW c \in Client,
         NEW op \in {"credit", "authorize", "capture", "refund", "void"},
         NEW step \in {"posted", "held", "decide", "commit"},
         NEW party \in Hold \union Wallet,
         NEW key \in Key \union Credit \union {Whole},
         NEW a \in 0..MaxAmount, NEW r \in HoldRow,
         op # "void" => a \in Amount,
         op = "credit" => step = "commit",
         op # "credit" => party \in Hold,
         op = "authorize" => r = Authorized(a),
         op \in {"capture", "refund", "void"} => r.status # "none",
         step = "decide" => op \in {"capture", "refund"},
         Start(c, op, step, party, key, a, r)
  PROVE  IInv'
  <1> DEFINE x == [op |-> op, step |-> step, party |-> party, key |-> key, amount |-> a,
                   row |-> r, seen |-> {}]
  <1>1. x \in Command
    BY DEF Command
  <1>2. Fits(x)
    BY DEF Fits
  <1>3. cmd' = [cmd EXCEPT ![c] = x] /\ UNCHANGED <<wallets, hold, ledger, lapsed, due>>
    BY DEF Start
  <1>4. wallets' \subseteq Wallet /\ lapsed' \subseteq Hold
    BY <1>3 DEF IInv, TypeOK
  <1> HIDE DEF x
  <1> QED BY <1>1, <1>2, <1>3, <1>4, TablesStandStill

LEMMA LeaveKeeps ==
  ASSUME IInv, NEW c \in Client, Leave(c)
  PROVE  IInv'
  <1>1. wallets' \subseteq Wallet /\ lapsed' \subseteq Hold
    BY DEF Leave, IInv, TypeOK
  <1> QED BY <1>1, TablesStandStill DEF Leave

LEMMA ProceedKeeps ==
  ASSUME IInv, NEW c \in Client, ~Idle(c),
         NEW step \in {"held", "commit"}, NEW seen \in SUBSET LedgerEntry,
         cmd[c].op = "credit" => step = "commit",
         Proceed(c, step, seen)
  PROVE  IInv'
  <1> DEFINE x == [cmd[c] EXCEPT !.step = step, !.seen = seen]
  <1>1. cmd[c] \in Command /\ Fits(cmd[c])
    BY DEF IInv, TypeOK, CommandsFit, Idle
  <1>2. x \in Command
    BY <1>1 DEF Command
  <1>3. Fits(x)
    BY <1>1 DEF Fits, Command
  <1>4. cmd' = [cmd EXCEPT ![c] = x]
    <2>1. [cmd EXCEPT ![c].step = step, ![c].seen = seen] = [cmd EXCEPT ![c] = x]
      BY <1>1 DEF IInv, TypeOK, Command
    <2> QED BY <2>1 DEF Proceed
  <1>5. wallets' \subseteq Wallet /\ lapsed' \subseteq Hold
    BY DEF Proceed, IInv, TypeOK
  <1> HIDE DEF x
  <1> QED BY <1>2, <1>3, <1>4, <1>5, TablesStandStill DEF Proceed

-----------------------------------------------------------------------------
(* Commands that commit. *)

\* The database accepted row r of hold h together with the ledger it leaves
\* behind, in which only h's own movements are new.
LEMMA AcceptedRowKeeps ==
  ASSUME TypeOK, RowsSound, AggregatesAgree,
         NEW h \in Hold, NEW r \in HoldRow, r.status # "none",
         Accepted(r, h, ledger'),
         hold' = [hold EXCEPT ![h] = r],
         \/ ledger' = ledger
         \/ \E e \in LedgerEntry : e.party = h /\ ledger' = ledger \union {e}
  PROVE  /\ hold' \in [Hold -> HoldRow]
         /\ ledger' \subseteq LedgerEntry
         /\ RowsSound'
         /\ AggregatesAgree'
  <1>1. hold' \in [Hold -> HoldRow] /\ ledger' \subseteq LedgerEntry
    BY DEF TypeOK
  <1>2. RowsSound'
    BY DEF RowsSound, TypeOK, Accepted
  <1>3. ASSUME NEW g \in Hold PROVE Agrees(hold'[g], g, ledger')
    <2>1. CASE g = h
      BY <2>1 DEF TypeOK, Accepted
    <2>2. CASE g # h
      <3>1. hold'[g] = hold[g] /\ Agrees(hold[g], g, ledger)
        BY <2>2 DEF TypeOK, AggregatesAgree
      <3>2. CASE ledger' = ledger
        BY <3>1, <3>2
      <3>3. CASE \E e \in LedgerEntry : e.party = h /\ ledger' = ledger \union {e}
        <4>1. PICK e \in LedgerEntry : e.party = h /\ ledger' = ledger \union {e}
          BY <3>3
        <4>2. Agrees(hold[g], g, ledger \union {e})
          BY <2>2, <3>1, <4>1, OtherPartiesUnmoved
        <4> QED BY <3>1, <4>1, <4>2
      <3> QED BY <3>2, <3>3
    <2> QED BY <2>1, <2>2
  <1> QED BY <1>1, <1>2, <1>3 DEF AggregatesAgree

\* The client that committed is idle again.
LEMMA FinishKeeps ==
  ASSUME TypeOK, CommandsFit, NEW c \in Client, cmd' = [cmd EXCEPT ![c] = NoCommand]
  PROVE  cmd' \in [Client -> Command \union {NoCommand}] /\ CommandsFit'
  BY DEF TypeOK, CommandsFit, Idle

LEMMA CommitCreditKeeps ==
  ASSUME IInv, NEW c \in Client, CommitCredit(c)
  PROVE  IInv'
  <1> USE DEF CommitCredit
  <1>1. cmd[c] \in Command /\ Fits(cmd[c])
    BY DEF IInv, TypeOK, CommandsFit, At, Idle
  <1>2. Staged(c) \in LedgerEntry /\ Staged(c).kind = "credit"
    BY <1>1 DEF Fits, Command, Staged, Entry, LedgerEntry
  <1>3. cmd' \in [Client -> Command \union {NoCommand}] /\ CommandsFit'
    BY FinishKeeps DEF IInv
  <1>4. TypeOK'
    BY <1>2, <1>3 DEF IInv, TypeOK
  <1>5. AggregatesAgree'
    <2>1. ASSUME NEW g \in Hold PROVE Agrees(hold[g], g, ledger')
      <3>1. Agrees(hold[g], g, ledger)
        BY DEF IInv, AggregatesAgree
      <3>2. Agrees(hold[g], g, ledger \union {Staged(c)})
        BY <1>2, <3>1, OtherPartiesUnmoved
      <3> QED BY <3>1, <3>2
    <2> QED BY <2>1 DEF AggregatesAgree
  <1>6. DueRowsExist' /\ RowsSound'
    BY DEF IInv, DueRowsExist, RowsSound
  <1> QED BY <1>3, <1>4, <1>5, <1>6 DEF IInv

LEMMA CommitAuthorizeKeeps ==
  ASSUME IInv, NEW c \in Client, CommitAuthorize(c)
  PROVE  IInv'
  <1> USE DEF CommitAuthorize
  <1> DEFINE h == cmd[c].party
             r == cmd[c].row
  <1>1. cmd[c] \in Command /\ Fits(cmd[c])
    BY DEF IInv, TypeOK, CommandsFit, At, Idle
  <1>2. h \in Hold /\ r \in HoldRow /\ r = Authorized(cmd[c].amount) /\ cmd[c].amount \in Amount
    BY <1>1 DEF Fits, Command
  <1>3. cmd' \in [Client -> Command \union {NoCommand}] /\ CommandsFit'
    BY FinishKeeps DEF IInv
  <1>4. /\ hold' \in [Hold -> HoldRow]
        /\ RowsSound'
        /\ AggregatesAgree'
    <2>1. CASE hold[h].status # "none"
      BY <2>1 DEF IInv, TypeOK, RowsSound, AggregatesAgree
    <2>2. CASE hold[h].status = "none"
      <3>1. hold' = [hold EXCEPT ![h] = r]
        BY <2>2 DEF Written
      <3>2. Agrees(NoHold, h, ledger)
        BY <1>2, <2>2 DEF IInv, RowsSound, AggregatesAgree
      <3>3. Agrees(r, h, ledger)
        BY <1>2, <3>2 DEF Agrees, NoHold, Authorized
      <3>4. Accepted(r, h, ledger') /\ r.status # "none"
        BY <1>2, <3>3, NewHoldTyped DEF Accepted
      <3> HIDE DEF h, r
      <3> QED BY <1>2, <3>1, <3>4, AcceptedRowKeeps DEF IInv
    <2> QED BY <2>1, <2>2
  <1>5. TypeOK'
    BY <1>3, <1>4 DEF IInv, TypeOK
  <1>6. DueRowsExist'
    BY DEF IInv, DueRowsExist
  <1> QED BY <1>3, <1>4, <1>5, <1>6 DEF IInv

LEMMA CommitMovementKeeps ==
  ASSUME IInv, NEW c \in Client, CommitMovement(c)
  PROVE  IInv'
  <1> USE DEF CommitMovement
  <1> DEFINE h == cmd[c].party
             r == Written(c)
             L == ledger \union {Staged(c)}
  <1>1. cmd[c] \in Command /\ Fits(cmd[c])
    BY DEF IInv, TypeOK, CommandsFit, At, Idle
  <1>2. h \in Hold /\ Staged(c) \in LedgerEntry /\ Staged(c).party = h
    BY <1>1 DEF Fits, Command, Staged, Entry, LedgerEntry
  <1>3. r \in HoldRow /\ r.status # "none"
    <2>1. cmd[c].row \in HoldRow /\ cmd[c].row.status # "none" /\ cmd[c].amount \in Amount
      BY <1>1 DEF Fits, Command
    <2>2. CASE cmd[c].op = "capture"
      BY <2>1, <2>2, CaptureTyped DEF Written
    <2>3. CASE cmd[c].op = "refund"
      BY <2>1, <2>3, RefundTyped DEF Written
    <2> QED BY <2>2, <2>3
  <1>4. cmd' \in [Client -> Command \union {NoCommand}] /\ CommandsFit'
    BY FinishKeeps DEF IInv
  <1>5. /\ hold' \in [Hold -> HoldRow] /\ ledger' \subseteq LedgerEntry
        /\ RowsSound'
        /\ AggregatesAgree'
    <2>1. CASE UNCHANGED <<hold, ledger>>
      BY <2>1 DEF IInv, TypeOK, RowsSound, AggregatesAgree
    <2>2. CASE Accepted(r, h, L) /\ hold' = [hold EXCEPT ![h] = r] /\ ledger' = L
      <3>1. \E e \in LedgerEntry : e.party = h /\ ledger' = ledger \union {e}
        BY <1>2, <2>2
      <3>2. Accepted(r, h, ledger')
        BY <2>2
      <3> HIDE DEF h, r, L
      <3> QED BY <1>2, <1>3, <2>2, <3>1, <3>2, AcceptedRowKeeps DEF IInv
    <2> QED BY <2>1, <2>2
  <1>6. TypeOK'
    BY <1>4, <1>5 DEF IInv, TypeOK
  <1>7. DueRowsExist'
    BY DEF IInv, DueRowsExist
  <1> QED BY <1>4, <1>5, <1>6, <1>7 DEF IInv

LEMMA CommitVoidKeeps ==
  ASSUME IInv, NEW c \in Client, CommitVoid(c)
  PROVE  IInv'
  <1> USE DEF CommitVoid
  <1> DEFINE h == cmd[c].party
             r == Written(c)
  <1>1. cmd[c] \in Command /\ Fits(cmd[c])
    BY DEF IInv, TypeOK, CommandsFit, At, Idle
  <1>2. h \in Hold /\ r \in HoldRow /\ r.status # "none"
    BY <1>1, VoidTyped DEF Fits, Command, Written
  <1>3. cmd' \in [Client -> Command \union {NoCommand}] /\ CommandsFit'
    BY FinishKeeps DEF IInv
  <1>4. hold' \in [Hold -> HoldRow] /\ RowsSound' /\ AggregatesAgree'
    <2>1. CASE hold' = hold
      BY <2>1 DEF IInv, TypeOK, RowsSound, AggregatesAgree
    <2>2. CASE Accepted(r, h, ledger') /\ hold' = [hold EXCEPT ![h] = r]
      <3> HIDE DEF h, r
      <3> QED BY <1>2, <2>2, AcceptedRowKeeps DEF IInv
    <2> QED BY <2>1, <2>2
  <1>5. TypeOK'
    BY <1>3, <1>4 DEF IInv, TypeOK
  <1>6. DueRowsExist'
    BY DEF IInv, DueRowsExist
  <1> QED BY <1>3, <1>4, <1>5, <1>6 DEF IInv

LEMMA SweepReleaseKeeps ==
  ASSUME IInv, SweepRelease
  PROVE  IInv'
  <1> USE DEF SweepRelease
  <1>1. PICK d \in due :
          \/ /\ Accepted(AfterVoid(d.row), d.item, ledger)
             /\ hold' = [hold EXCEPT ![d.item] = AfterVoid(d.row)]
             /\ due' = due \ {d}
          \/ due' = {} /\ hold' = hold
    OBVIOUS
  <1>2. d.item \in Hold /\ AfterVoid(d.row) \in HoldRow /\ AfterVoid(d.row).status # "none"
    BY VoidTyped DEF IInv, TypeOK
  <1>3. hold' \in [Hold -> HoldRow] /\ RowsSound' /\ AggregatesAgree'
    <2>1. CASE hold' = hold
      BY <2>1 DEF IInv, TypeOK, RowsSound, AggregatesAgree
    <2>2. CASE /\ Accepted(AfterVoid(d.row), d.item, ledger)
               /\ hold' = [hold EXCEPT ![d.item] = AfterVoid(d.row)]
      BY <1>2, <2>2, AcceptedRowKeeps DEF IInv
    <2> QED BY <1>1, <2>1, <2>2
  <1>4. due' \subseteq due
    BY <1>1
  <1>5. TypeOK' /\ DueRowsExist'
    BY <1>3, <1>4 DEF IInv, TypeOK, DueRowsExist
  <1>6. CommandsFit'
    BY DEF IInv, CommandsFit, Idle
  <1> QED BY <1>3, <1>5, <1>6 DEF IInv

-----------------------------------------------------------------------------
(* The invariant. *)

LEMMA InitHolds ==
  ASSUME Init PROVE IInv
  <1>1. NoHold \in HoldRow /\ Sound(NoHold) /\ NoHold.status = "none"
    BY AmountAssumption DEF NoHold, HoldRow, Sound
  <1>2. TypeOK
    BY <1>1 DEF Init, TypeOK
  <1>3. CommandsFit /\ DueRowsExist
    BY DEF Init, CommandsFit, DueRowsExist, Idle
  <1>4. RowsSound
    BY <1>1 DEF Init, RowsSound
  <1>5. AggregatesAgree
    BY EmptyLedger DEF Init, AggregatesAgree
  <1> QED BY <1>2, <1>3, <1>4, <1>5 DEF IInv

LEMMA StartsKeep ==
  ASSUME IInv, NEW c \in Client
  PROVE  /\ \A w \in Wallet, ref \in Credit, a \in Amount : StartCredit(c, w, ref, a) => IInv'
         /\ \A h \in Hold, a \in Amount : StartAuthorize(c, h, a) => IInv'
         /\ \A h \in Hold, key \in Key \union {Whole}, a \in Amount :
              StartCapture(c, h, key, a) => IInv'
         /\ \A h \in Hold, key \in Key, a \in Amount : StartRefund(c, h, key, a) => IInv'
         /\ \A h \in Hold : StartVoid(c, h) => IInv'
  <1>1. Amount \subseteq 0..MaxAmount /\ 0 \in 0..MaxAmount
    BY AmountAssumption DEF Amount
  <1>2. NoHold \in HoldRow
    BY AmountAssumption DEF NoHold, HoldRow
  <1>3. \A h \in Hold : hold[h] \in HoldRow
    BY DEF IInv, TypeOK
  <1>4. ASSUME NEW w \in Wallet, NEW ref \in Credit, NEW a \in Amount, StartCredit(c, w, ref, a)
        PROVE  IInv'
    BY <1>1, <1>2, <1>4, StartKeeps DEF StartCredit
  <1>5. ASSUME NEW h \in Hold, NEW a \in Amount, StartAuthorize(c, h, a)
        PROVE  IInv'
    BY <1>1, <1>5, NewHoldTyped, StartKeeps DEF StartAuthorize
  <1>6. ASSUME NEW h \in Hold, NEW key \in Key \union {Whole}, NEW a \in Amount,
               StartCapture(c, h, key, a)
        PROVE  IInv'
    BY <1>1, <1>3, <1>6, StartKeeps DEF StartCapture
  <1>7. ASSUME NEW h \in Hold, NEW key \in Key, NEW a \in Amount, StartRefund(c, h, key, a)
        PROVE  IInv'
    BY <1>1, <1>3, <1>7, StartKeeps DEF StartRefund
  <1>8. ASSUME NEW h \in Hold, StartVoid(c, h)
        PROVE  IInv'
    BY <1>1, <1>3, <1>8, StartKeeps DEF StartVoid
  <1> QED BY <1>4, <1>5, <1>6, <1>7, <1>8

LEMMA ReadsKeep ==
  ASSUME IInv, NEW c \in Client, ReadPosted(c) \/ ReadHeld(c) \/ Decide(c)
  PROVE  IInv'
  <1>1. cmd[c] \in Command /\ Fits(cmd[c]) /\ ~Idle(c)
    BY DEF ReadPosted, ReadHeld, Decide, At, IInv, TypeOK, CommandsFit, Idle
  <1>2. ledger \in SUBSET LedgerEntry /\ {} \in SUBSET LedgerEntry
    BY DEF IInv, TypeOK
  <1>3. CASE ReadPosted(c)
    <2>1. cmd[c].op # "credit" /\ Proceed(c, "held", ledger)
      BY <1>1, <1>3 DEF ReadPosted, At, Fits
    <2> QED BY <1>1, <1>2, <2>1, ProceedKeeps
  <1>4. CASE ReadHeld(c)
    <2>1. Proceed(c, "commit", {}) \/ Leave(c)
      BY <1>4 DEF ReadHeld
    <2> QED BY <1>1, <1>2, <2>1, ProceedKeeps, LeaveKeeps
  <1>5. CASE Decide(c)
    <2>1. Proceed(c, "commit", {}) \/ Leave(c)
      BY <1>5 DEF Decide
    <2> QED BY <1>1, <1>2, <2>1, ProceedKeeps, LeaveKeeps
  <1> QED BY <1>3, <1>4, <1>5

LEMMA StepKeeps ==
  ASSUME IInv, [Next]_vars PROVE IInv'
  <1>1. CASE \E w \in Wallet : CreateWallet(w)
    BY <1>1 DEF CreateWallet, IInv, TypeOK, CommandsFit, Idle, DueRowsExist, RowsSound, AggregatesAgree
  <1>2. CASE \E h \in Hold : Lapse(h)
    BY <1>2 DEF Lapse, IInv, TypeOK, CommandsFit, Idle, DueRowsExist, RowsSound, AggregatesAgree
  <1>3. ASSUME NEW c \in Client,
               \/ \E w \in Wallet, ref \in Credit, a \in Amount : StartCredit(c, w, ref, a)
               \/ \E h \in Hold :
                    \/ \E a \in Amount :
                         \/ StartAuthorize(c, h, a)
                         \/ \E key \in Key \union {Whole} : StartCapture(c, h, key, a)
                         \/ \E key \in Key : StartRefund(c, h, key, a)
                    \/ StartVoid(c, h)
        PROVE  IInv'
    BY <1>3, StartsKeep
  <1>4. ASSUME NEW c \in Client, ReadPosted(c) \/ ReadHeld(c) \/ Decide(c)
        PROVE  IInv'
    BY <1>4, ReadsKeep
  <1>5. ASSUME NEW c \in Client, CommitCredit(c) PROVE IInv'
    BY <1>5, CommitCreditKeeps
  <1>6. ASSUME NEW c \in Client, CommitAuthorize(c) PROVE IInv'
    BY <1>6, CommitAuthorizeKeeps
  <1>7. ASSUME NEW c \in Client, CommitMovement(c) PROVE IInv'
    BY <1>7, CommitMovementKeeps
  <1>8. ASSUME NEW c \in Client, CommitVoid(c) PROVE IInv'
    BY <1>8, CommitVoidKeeps
  <1>9. ASSUME NEW c \in Client, Crash(c) PROVE IInv'
    BY <1>9, LeaveKeeps DEF Crash
  <1>10. CASE SweepRead
    BY <1>10 DEF SweepRead, IInv, TypeOK, CommandsFit, Idle, DueRowsExist, RowsSound, AggregatesAgree
  <1>11. CASE SweepRelease
    BY <1>11, SweepReleaseKeeps
  <1>12. CASE UNCHANGED vars
    BY <1>12 DEF vars, IInv, TypeOK, CommandsFit, Idle, DueRowsExist, RowsSound, AggregatesAgree
  <1> QED
    BY <1>1, <1>2, <1>3, <1>4, <1>5, <1>6, <1>7, <1>8, <1>9, <1>10, <1>11, <1>12 DEF Next

\* For any number of wallets, holds, keys and clients: rows and commands in
\* flight are what they should be, and all that IInv says of them stays true.
THEOREM Bookkeeping == Spec => []IInv
  <1>1. Init => IInv
    BY InitHolds
  <1>2. IInv /\ [Next]_vars => IInv'
    BY StepKeeps
  <1> QED BY <1>1, <1>2, PTL DEF Spec

\* Typing of the tables, of the commands in flight and of the sweep's list.
THEOREM Typing == Spec => []TypeOK
  <1>1. IInv => TypeOK
    BY DEF IInv
  <1> QED BY <1>1, Bookkeeping, PTL

\* The totals on an authorization are the sums of its ledger movements.
THEOREM NoDrift == Spec => []AggregatesAgree
  <1>1. IInv => AggregatesAgree
    BY DEF IInv
  <1> QED BY <1>1, Bookkeeping, PTL

\* No more is captured than was consented to, and no more is returned than was
\* captured, counted in the ledger.
THEOREM Ceilings == Spec => []ConsentIsACeiling
  <1>1. IInv => ConsentIsACeiling
    BY DEF IInv, ConsentIsACeiling, AggregatesAgree, RowsSound, Agrees, Sound
  <1> QED BY <1>1, Bookkeeping, PTL

-----------------------------------------------------------------------------
(* References.  Only a commit adds an entry, and only under a new reference. *)

LEMMA NewReference ==
  ASSUME ReferenceMovesMoneyOnce, NEW e, ~Recorded(ledger, e), ledger' = ledger \union {e}
  PROVE  ReferenceMovesMoneyOnce'
  BY DEF ReferenceMovesMoneyOnce, Recorded

\* One reference moves money once, whatever the interleaving of the lookups and
\* the commits: the unique index decides at the commit.
THEOREM OncePerReference == Spec => []ReferenceMovesMoneyOnce
  <1>1. Init => ReferenceMovesMoneyOnce
    BY DEF Init, ReferenceMovesMoneyOnce
  <1>2. ASSUME ReferenceMovesMoneyOnce, [Next]_vars PROVE ReferenceMovesMoneyOnce'
    <2>1. \/ ledger' = ledger
          \/ \E c \in Client : ~Recorded(ledger, Staged(c)) /\ ledger' = ledger \union {Staged(c)}
      BY <1>2 DEF Next, vars, CreateWallet, Lapse, StartCredit, StartAuthorize, StartCapture,
           StartRefund, StartVoid, Start, ReadPosted, ReadHeld, Decide, Proceed, Leave,
           CommitCredit, CommitAuthorize, CommitMovement, CommitVoid, Crash, SweepRead, SweepRelease
    <2>2. CASE ledger' = ledger
      BY <1>2, <2>2 DEF ReferenceMovesMoneyOnce
    <2>3. CASE \E c \in Client :
                 ~Recorded(ledger, Staged(c)) /\ ledger' = ledger \union {Staged(c)}
      BY <1>2, <2>3, NewReference
    <2> QED BY <2>1, <2>2, <2>3
  <1> QED BY <1>1, <1>2, PTL DEF Spec
-----------------------------------------------------------------------------
(* Growth.  A row that is written back carries the amount of the row it     *)
(* replaces, the database accepts it only if it agrees with a ledger that   *)
(* never shrinks, and so it cannot take anything back.                      *)

\* A command that writes row r to hold h read it there.
ReadThere(h, r) == hold[h].status # "none" /\ r.amount = hold[h].amount

WritesBack(c) == ~Idle(c) /\ cmd[c].op \in {"capture", "refund", "void"}

RowsMatch ==
  /\ \A h \in Hold : hold[h].status # "none" => hold[h].amount # 0
  /\ \A c \in Client : WritesBack(c) => ReadThere(cmd[c].party, cmd[c].row)
  /\ \A d \in due : ReadThere(d.item, d.row)

Matching == IsFiniteSet(ledger) /\ RowsMatch

\* What a step does to the rows: they stay, with their amounts, and their totals grow.
Grown ==
  \A h \in Hold :
    /\ hold'[h].captured >= hold[h].captured
    /\ hold'[h].refunded >= hold[h].refunded
    /\ hold[h].status = "captured" => hold'[h].status = "captured"

Lasting ==
  \A h \in Hold : hold[h].status # "none" => hold'[h].status # "none" /\ hold'[h].amount = hold[h].amount

LEMMA NothingWritten ==
  ASSUME IInv, hold' = hold
  PROVE  Grown /\ Lasting
<1>1. \A h \in Hold : hold[h].captured \in Nat /\ hold[h].refunded \in Nat
  BY DEF IInv, TypeOK, HoldRow
<1> QED BY <1>1 DEF Grown, Lasting

\* A row that was read where it is written, and that the database accepts.
LEMMA AcceptedRowGrows ==
  ASSUME IInv, Matching, NEW h \in Hold, NEW r \in HoldRow, r.status # "none", ReadThere(h, r),
         ledger \subseteq ledger', ledger' \subseteq LedgerEntry, IsFiniteSet(ledger'),
         Accepted(r, h, ledger'), hold' = [hold EXCEPT ![h] = r]
  PROVE  /\ Grown /\ Lasting
         /\ \A g \in Hold : hold'[g].status # "none" => hold'[g].amount # 0
<1>1. /\ hold[h] \in HoldRow /\ Sound(hold[h]) /\ Agrees(hold[h], h, ledger)
      /\ hold[h].amount # 0 /\ hold[h].amount = r.amount
  BY DEF IInv, TypeOK, RowsSound, AggregatesAgree, Matching, RowsMatch, ReadThere
<1>2. \A e \in ledger' : e.amount \in Nat
  BY AmountAssumption DEF LedgerEntry, Amount
<1>3. /\ r.captured >= hold[h].captured /\ r.refunded >= hold[h].refunded
      /\ hold[h].status = "captured" => r.status = "captured"
  BY <1>1, <1>2, CapturedForGood DEF Accepted
<1>4. hold'[h] = r /\ \A g \in Hold : g # h => hold'[g] = hold[g]
  BY DEF IInv, TypeOK
<1>5. \A g \in Hold : hold[g].captured \in Nat /\ hold[g].refunded \in Nat
  BY DEF IInv, TypeOK, HoldRow
<1>6. Grown
  BY <1>3, <1>4, <1>5 DEF Grown
<1>7. Lasting /\ \A g \in Hold : hold'[g].status # "none" => hold'[g].amount # 0
  BY <1>1, <1>4 DEF Lasting, Matching, RowsMatch
<1> QED BY <1>6, <1>7

\* Commands that go on, end, or have just read.
LEMMA CommandsStayMatched ==
  ASSUME IInv, Matching, Lasting, IsFiniteSet(ledger'),
         \A g \in Hold : hold'[g].status # "none" => hold'[g].amount # 0,
         \A c \in Client : WritesBack(c)' =>
           \/ /\ WritesBack(c)
              /\ cmd'[c].party = cmd[c].party /\ cmd'[c].row = cmd[c].row
           \/ /\ hold' = hold /\ cmd'[c].party \in Hold /\ cmd'[c].row = hold[cmd'[c].party]
              /\ hold[cmd'[c].party].status # "none",
         due' \subseteq due
  PROVE  Matching'
<1>1. \A c \in Client : WritesBack(c)' => ReadThere(cmd[c].party, cmd[c].row)'
  <2> SUFFICES ASSUME NEW c \in Client, WritesBack(c)'
        PROVE  hold'[cmd'[c].party].status # "none" /\ cmd'[c].row.amount = hold'[cmd'[c].party].amount
    BY DEF ReadThere
  <2>1. CASE WritesBack(c) /\ cmd'[c].party = cmd[c].party /\ cmd'[c].row = cmd[c].row
    <3>1. cmd[c].party \in Hold
      BY <2>1 DEF IInv, CommandsFit, Fits, WritesBack
    <3>2. ReadThere(cmd[c].party, cmd[c].row)
      BY <2>1 DEF Matching, RowsMatch
    <3> QED BY <2>1, <3>1, <3>2 DEF ReadThere, Lasting
  <2>2. CASE /\ hold' = hold /\ cmd'[c].party \in Hold /\ cmd'[c].row = hold[cmd'[c].party]
             /\ hold[cmd'[c].party].status # "none"
    BY <2>2
  <2> QED BY <2>1, <2>2
<1>2. \A d \in due' : ReadThere(d.item, d.row)'
  <2>1. \A d \in due' : d.item \in Hold /\ ReadThere(d.item, d.row)
    BY DEF IInv, TypeOK, Matching, RowsMatch
  <2> QED BY <2>1 DEF ReadThere, Lasting
<1> QED BY <1>1, <1>2 DEF Matching, RowsMatch

\* The client that moved is idle again, or goes on with what it carried.
LEMMA ClientMatched ==
  ASSUME IInv, NEW c \in Client,
         \/ cmd' = cmd
         \/ cmd' = [cmd EXCEPT ![c] = NoCommand]
         \/ \E step, seen : ~Idle(c) /\ cmd' = [cmd EXCEPT ![c].step = step, ![c].seen = seen]
  PROVE  \A b \in Client : WritesBack(b)' =>
           WritesBack(b) /\ cmd'[b].party = cmd[b].party /\ cmd'[b].row = cmd[b].row
<1> SUFFICES ASSUME NEW b \in Client, WritesBack(b)'
      PROVE  WritesBack(b) /\ cmd'[b].party = cmd[b].party /\ cmd'[b].row = cmd[b].row
  OBVIOUS
<1>1. CASE cmd' = cmd \/ b # c \/ cmd' = [cmd EXCEPT ![c] = NoCommand]
  BY <1>1 DEF WritesBack, Idle, IInv, TypeOK
<1>2. CASE b = c /\ \E step, seen : ~Idle(c) /\ cmd' = [cmd EXCEPT ![c].step = step, ![c].seen = seen]
  <2>1. PICK step, seen : ~Idle(c) /\ cmd' = [cmd EXCEPT ![c].step = step, ![c].seen = seen]
    BY <1>2
  <2>2. cmd[c] \in Command
    BY <2>1 DEF IInv, TypeOK, Idle
  <2>3. cmd'[c] = [cmd[c] EXCEPT !.step = step, !.seen = seen]
    BY <2>1 DEF IInv, TypeOK
  <2>4. cmd'[c].op = cmd[c].op /\ cmd'[c].party = cmd[c].party /\ cmd'[c].row = cmd[c].row
    BY <2>2, <2>3 DEF Command
  <2> QED BY <1>2, <2>1, <2>4 DEF WritesBack, Idle
<1> QED BY <1>1, <1>2

LEMMA StepMatches ==
  ASSUME IInv, Matching, [Next]_vars
  PROVE  Matching' /\ Grown
<1> DEFINE Same == \A c \in Client : WritesBack(c)' =>
                     WritesBack(c) /\ cmd'[c].party = cmd[c].party /\ cmd'[c].row = cmd[c].row
<1>0. \A g \in Hold : hold[g].status # "none" => hold[g].amount # 0
  BY DEF Matching, RowsMatch
<1>1. ASSUME UNCHANGED <<hold, ledger>>, Same, due' \subseteq due PROVE Matching' /\ Grown
  <2>1. Lasting /\ Grown
    BY <1>1, NothingWritten
  <2>2. IsFiniteSet(ledger') /\ \A g \in Hold : hold'[g].status # "none" => hold'[g].amount # 0
    BY <1>0, <1>1 DEF Matching
  <2> QED BY <1>1, <2>1, <2>2, CommandsStayMatched
<1>2. ASSUME UNCHANGED cmd PROVE Same
  BY <1>2 DEF WritesBack, Idle
<1>3. CASE (\E w \in Wallet : CreateWallet(w)) \/ (\E h \in Hold : Lapse(h)) \/ UNCHANGED vars
  <2>1. UNCHANGED <<hold, ledger, cmd, due>>
    BY <1>3 DEF CreateWallet, Lapse, vars
  <2> QED BY <1>1, <1>2, <2>1
<1>4. ASSUME NEW c \in Client, ReadPosted(c) \/ ReadHeld(c) \/ Decide(c) \/ Crash(c)
      PROVE  Matching' /\ Grown
  <2>1. /\ UNCHANGED <<hold, ledger, due>>
        /\ \/ cmd' = [cmd EXCEPT ![c] = NoCommand]
           \/ \E step, seen : ~Idle(c) /\ cmd' = [cmd EXCEPT ![c].step = step, ![c].seen = seen]
    BY <1>4 DEF ReadPosted, ReadHeld, Decide, Crash, At, Leave, Proceed
  <2>2. Same
    BY <2>1, ClientMatched
  <2> QED BY <1>1, <2>1, <2>2
<1>5. ASSUME NEW c \in Client, CommitCredit(c) PROVE Matching' /\ Grown
  <2>1. hold' = hold /\ due' = due /\ cmd' = [cmd EXCEPT ![c] = NoCommand]
    BY <1>5 DEF CommitCredit
  <2>2. Same
    BY <2>1, ClientMatched
  <2>3. IsFiniteSet(ledger')
    <3>1. ledger' = ledger \/ ledger' = ledger \union {Staged(c)}
      BY <1>5 DEF CommitCredit
    <3> QED BY <3>1, FS_AddElement DEF Matching
  <2>4. Lasting /\ Grown
    BY <2>1, NothingWritten
  <2> QED BY <1>0, <2>1, <2>2, <2>3, <2>4, CommandsStayMatched
<1>6. ASSUME NEW c \in Client, CommitAuthorize(c) PROVE Matching' /\ Grown
  <2> DEFINE h == cmd[c].party
             r == cmd[c].row
  <2>1. cmd[c] \in Command /\ Fits(cmd[c]) /\ cmd[c].op = "authorize"
    BY <1>6 DEF CommitAuthorize, IInv, TypeOK, CommandsFit, At, Idle
  <2>2. /\ h \in Hold /\ r = Authorized(cmd[c].amount) /\ cmd[c].amount \in Amount
        /\ r.captured = 0 /\ r.refunded = 0 /\ r.amount = cmd[c].amount /\ r.amount # 0
    BY <2>1, AmountAssumption DEF Fits, Authorized, Amount
  <2>3. UNCHANGED <<ledger, due>> /\ cmd' = [cmd EXCEPT ![c] = NoCommand]
    BY <1>6 DEF CommitAuthorize
  <2>4. Same
    BY <2>3, ClientMatched
  <2>5. CASE hold' = hold
    BY <1>1, <2>3, <2>4, <2>5
  <2>6. CASE hold[h].status = "none" /\ hold' = [hold EXCEPT ![h] = r]
    <3>1. hold[h] = NoHold /\ hold[h].captured = 0 /\ hold[h].refunded = 0
      BY <2>2, <2>6 DEF IInv, RowsSound, NoHold
    <3>2. hold'[h] = r /\ \A g \in Hold : g # h => hold'[g] = hold[g]
      BY <2>2, <2>6 DEF IInv, TypeOK
    <3>3. \A g \in Hold : hold[g].captured \in Nat /\ hold[g].refunded \in Nat
      BY DEF IInv, TypeOK, HoldRow
    <3> HIDE DEF h, r
    <3>4. Grown
      BY <2>2, <2>6, <3>1, <3>2, <3>3 DEF Grown
    <3>5. Lasting
      BY <2>6, <3>2 DEF Lasting
    <3>6. \A g \in Hold : hold'[g].status # "none" => hold'[g].amount # 0
      BY <1>0, <2>2, <3>2
    <3>7. IsFiniteSet(ledger')
      BY <2>3 DEF Matching
    <3> QED BY <2>3, <2>4, <3>4, <3>5, <3>6, <3>7, CommandsStayMatched
  <2> QED BY <1>6, <2>1, <2>5, <2>6 DEF CommitAuthorize, Written
<1>7. ASSUME NEW h \in Hold, NEW r \in HoldRow, r.status # "none", ReadThere(h, r),
             \/ ledger' = ledger
             \/ \E e \in LedgerEntry : ledger' = ledger \union {e},
             Accepted(r, h, ledger'), hold' = [hold EXCEPT ![h] = r], Same, due' \subseteq due
      PROVE  Matching' /\ Grown
  <2>1. ledger \subseteq ledger' /\ ledger' \subseteq LedgerEntry /\ IsFiniteSet(ledger')
    <3>1. ledger \subseteq LedgerEntry /\ IsFiniteSet(ledger)
      BY DEF IInv, TypeOK, Matching
    <3> QED BY <1>7, <3>1, FS_AddElement
  <2>2. /\ Grown /\ Lasting
        /\ \A g \in Hold : hold'[g].status # "none" => hold'[g].amount # 0
    BY <1>7, <2>1, AcceptedRowGrows
  <2> QED BY <1>7, <2>1, <2>2, CommandsStayMatched
<1>8. ASSUME NEW c \in Client, CommitMovement(c) PROVE Matching' /\ Grown
  <2> DEFINE h == cmd[c].party
             r == Written(c)
  <2>1. cmd[c] \in Command /\ Fits(cmd[c]) /\ cmd[c].op \in {"capture", "refund"} /\ WritesBack(c)
    BY <1>8 DEF CommitMovement, IInv, TypeOK, CommandsFit, At, Idle, WritesBack
  <2>2. h \in Hold /\ Staged(c) \in LedgerEntry
    BY <2>1 DEF Fits, Command, Staged, Entry, LedgerEntry
  <2>3. due' = due /\ cmd' = [cmd EXCEPT ![c] = NoCommand]
    BY <1>8 DEF CommitMovement
  <2>4. Same
    BY <2>3, ClientMatched
  <2>5. cmd[c].row \in HoldRow /\ cmd[c].row.status # "none" /\ cmd[c].amount \in Amount
    BY <2>1 DEF Fits, Command
  <2>6. r \in HoldRow /\ r.status # "none" /\ r.amount = cmd[c].row.amount
    <3>1. CASE cmd[c].op = "capture"
      BY <2>5, <3>1, CaptureTyped DEF Written, AfterCapture, HoldRow
    <3>2. CASE cmd[c].op = "refund"
      BY <2>5, <3>2, RefundTyped DEF Written, AfterRefund, HoldRow
    <3> QED BY <2>1, <3>1, <3>2
  <2>7. ReadThere(h, cmd[c].row)
    BY <2>1 DEF Matching, RowsMatch
  <2>8. ReadThere(h, r)
    BY <2>6, <2>7 DEF ReadThere
  <2>9. CASE UNCHANGED <<hold, ledger>>
    BY <1>1, <2>3, <2>4, <2>9
  <2>10. CASE /\ Accepted(r, h, ledger') /\ hold' = [hold EXCEPT ![h] = r]
              /\ ledger' = ledger \union {Staged(c)}
    <3>1. \E e \in LedgerEntry : ledger' = ledger \union {e}
      BY <2>2, <2>10
    <3> HIDE DEF h, r, Same
    <3> QED BY <1>7, <2>2, <2>3, <2>4, <2>6, <2>8, <2>10, <3>1
  <2> QED BY <1>8, <2>9, <2>10 DEF CommitMovement
<1>9. ASSUME NEW c \in Client, CommitVoid(c) PROVE Matching' /\ Grown
  <2> DEFINE h == cmd[c].party
             r == Written(c)
  <2>1. cmd[c] \in Command /\ Fits(cmd[c]) /\ cmd[c].op = "void" /\ WritesBack(c)
    BY <1>9 DEF CommitVoid, IInv, TypeOK, CommandsFit, At, Idle, WritesBack
  <2>2. h \in Hold /\ cmd[c].row \in HoldRow
    BY <2>1 DEF Fits, Command
  <2>3. ledger' = ledger /\ due' = due /\ cmd' = [cmd EXCEPT ![c] = NoCommand]
    BY <1>9 DEF CommitVoid
  <2>4. Same
    BY <2>3, ClientMatched
  <2>5. r \in HoldRow /\ r.status # "none" /\ r.amount = cmd[c].row.amount
    BY <2>1, <2>2, VoidTyped DEF Written, AfterVoid, HoldRow
  <2>6. ReadThere(h, cmd[c].row)
    BY <2>1 DEF Matching, RowsMatch
  <2>7. ReadThere(h, r)
    BY <2>5, <2>6 DEF ReadThere
  <2>8. CASE hold' = hold
    BY <1>1, <2>3, <2>4, <2>8
  <2>9. CASE Accepted(r, h, ledger) /\ hold' = [hold EXCEPT ![h] = r]
    <3> HIDE DEF h, r, Same
    <3> QED BY <1>7, <2>2, <2>3, <2>4, <2>5, <2>7, <2>9
  <2> QED BY <1>9, <2>8, <2>9 DEF CommitVoid
<1>10. CASE SweepRelease
  <2>1. PICK d \in due :
          \/ /\ Accepted(AfterVoid(d.row), d.item, ledger)
             /\ hold' = [hold EXCEPT ![d.item] = AfterVoid(d.row)]
             /\ due' = due \ {d}
          \/ due' = {} /\ hold' = hold
    BY <1>10 DEF SweepRelease
  <2>2. d.item \in Hold /\ d.row \in HoldRow /\ ReadThere(d.item, d.row)
    BY DEF IInv, TypeOK, Matching, RowsMatch
  <2> DEFINE r == AfterVoid(d.row)
             h == d.item
  <2>3. r \in HoldRow /\ r.status # "none" /\ r.amount = d.row.amount
    BY <2>2, VoidTyped DEF AfterVoid, HoldRow
  <2>4. ReadThere(h, r)
    BY <2>2, <2>3 DEF ReadThere
  <2>5. UNCHANGED <<ledger, cmd>> /\ due' \subseteq due
    BY <1>10, <2>1 DEF SweepRelease
  <2>6. Same
    BY <1>2, <2>5
  <2> HIDE DEF r, h, Same
  <2>7. CASE hold' = hold
    BY <1>1, <2>5, <2>6, <2>7
  <2>8. CASE Accepted(r, h, ledger) /\ hold' = [hold EXCEPT ![h] = r]
    <3>1. h \in Hold
      BY <2>2 DEF h
    <3> QED BY <1>7, <2>3, <2>4, <2>5, <2>6, <2>8, <3>1
  <2> QED BY <2>1, <2>7, <2>8 DEF r, h
<1>11. CASE SweepRead
  <2>1. UNCHANGED <<hold, ledger, cmd>>
    BY <1>11 DEF SweepRead
  <2>2. Grown
    BY <2>1, NothingWritten
  <2>3. \A d \in due' : ReadThere(d.item, d.row)
    BY <1>11 DEF SweepRead, ReadThere
  <2> QED BY <2>1, <2>2, <2>3 DEF Matching, RowsMatch, ReadThere, WritesBack, Idle
<1>12. ASSUME NEW c \in Client, NEW op, NEW step, NEW party, NEW key, NEW a, NEW r,
              op \in {"capture", "refund", "void"} =>
                party \in Hold /\ r = hold[party] /\ hold[party].status # "none",
              Start(c, op, step, party, key, a, r)
       PROVE  Matching' /\ Grown
  <2> DEFINE x == [op |-> op, step |-> step, party |-> party, key |-> key, amount |-> a,
                   row |-> r, seen |-> {}]
  <2>1. cmd' = [cmd EXCEPT ![c] = x] /\ UNCHANGED <<hold, ledger, due>>
    BY <1>12 DEF Start
  <2>2. x.op = op /\ x.party = party /\ x.row = r
    OBVIOUS
  <2> HIDE DEF x
  <2>3. cmd'[c] = x /\ \A b \in Client : b # c => cmd'[b] = cmd[b]
    BY <2>1 DEF IInv, TypeOK
  <2>4. \A b \in Client : WritesBack(b)' =>
           \/ /\ WritesBack(b)
              /\ cmd'[b].party = cmd[b].party /\ cmd'[b].row = cmd[b].row
           \/ /\ hold' = hold /\ cmd'[b].party \in Hold /\ cmd'[b].row = hold[cmd'[b].party]
              /\ hold[cmd'[b].party].status # "none"
    BY <1>12, <2>1, <2>2, <2>3 DEF WritesBack, Idle
  <2>5. Lasting /\ Grown
    BY <2>1, NothingWritten
  <2>6. IsFiniteSet(ledger') /\ \A g \in Hold : hold'[g].status # "none" => hold'[g].amount # 0
    BY <1>0, <2>1 DEF Matching
  <2> QED BY <2>1, <2>4, <2>5, <2>6, CommandsStayMatched
<1>13. ASSUME NEW c \in Client,
               \/ \E w \in Wallet, ref \in Credit, a \in Amount : StartCredit(c, w, ref, a)
               \/ \E h \in Hold :
                    \/ \E a \in Amount :
                         \/ StartAuthorize(c, h, a)
                         \/ \E key \in Key \union {Whole} : StartCapture(c, h, key, a)
                         \/ \E key \in Key : StartRefund(c, h, key, a)
                    \/ StartVoid(c, h)
       PROVE  Matching' /\ Grown
  <2>1. \/ \E step, party, key, a, r :
             Start(c, "credit", step, party, key, a, r) \/ Start(c, "authorize", step, party, key, a, r)
        \/ \E step, key, a : \E h \in Hold :
             /\ hold[h].status # "none"
             /\ \/ Start(c, "capture", step, h, key, a, hold[h])
                \/ Start(c, "refund", step, h, key, a, hold[h])
                \/ Start(c, "void", step, h, key, a, hold[h])
    BY <1>13 DEF StartCredit, StartAuthorize, StartCapture, StartRefund, StartVoid
  <2> QED BY <1>12, <2>1
<1> HIDE DEF Same
<1> QED
  BY <1>3, <1>4, <1>5, <1>6, <1>8, <1>9, <1>10, <1>11, <1>13 DEF Next

\* The totals of a hold only grow and a captured hold stays captured, whatever old
\* readings captures, refunds, voids and sweeps write their rows back from.
THEOREM Growth == Spec => AggregatesOnlyGrow
<1>1. Init => Matching
  BY FS_EmptySet DEF Init, Matching, RowsMatch, WritesBack, Idle, NoHold
<1>2. IInv /\ Matching /\ [Next]_vars => Matching' /\ [Grown]_vars
  BY StepMatches
<1>3. [Grown]_vars =>
        [\A h \in Hold :
           /\ hold'[h].captured >= hold[h].captured
           /\ hold'[h].refunded >= hold[h].refunded
           /\ hold[h].status = "captured" => hold'[h].status = "captured"]_vars
  BY DEF Grown
<1> QED BY <1>1, <1>2, <1>3, Bookkeeping, PTL DEF Spec, AggregatesOnlyGrow

=============================================================================
