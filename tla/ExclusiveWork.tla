---------------------------- MODULE ExclusiveWork ----------------------------
(***************************************************************************)
(* What a leased work queue promises, with no leases, tokens, budgets or   *)
(* clocks in it: every item of work has at most one owner, only its owner  *)
(* finishes it or hands it back, an item whose owner is gone or too slow   *)
(* can be taken from it, and finished work stays finished.                 *)
(***************************************************************************)
CONSTANTS Item, Worker, Nobody, Lost

VARIABLES state, owner

wvars == <<state, owner>>

WInit ==
  /\ state = [i \in Item |-> "absent"]
  /\ owner = [i \in Item |-> Nobody]

Add(S) ==
  /\ \A i \in S : state[i] = "absent"
  /\ state' = [i \in Item |-> IF i \in S THEN "open" ELSE state[i]]
  /\ UNCHANGED owner

Take(w, S) ==
  /\ \A i \in S : state[i] = "open" /\ owner[i] = Nobody
  /\ owner' = [i \in Item |-> IF i \in S THEN w ELSE owner[i]]
  /\ UNCHANGED state

\* The owner, and nobody else, settles an item or returns it to the pool.
Conclude(w, i) ==
  /\ owner[i] = w
  /\ \E s \in {"open", "done", "dead"} : state' = [state EXCEPT ![i] = s]
  /\ owner' = [owner EXCEPT ![i] = Nobody]

\* A worker dies with everything it owns; nobody is told.
Die(w) ==
  /\ owner' = [i \in Item |-> IF owner[i] = w THEN Lost ELSE owner[i]]
  /\ UNCHANGED state

\* Owned items are taken back, from the dead and from the slow alike.  Some
\* of them are given up.
Recover(S, D) ==
  /\ \A i \in S : owner[i] # Nobody
  /\ owner' = [i \in Item |-> IF i \in S THEN Nobody ELSE owner[i]]
  /\ state' = [i \in Item |-> IF i \in D THEN "dead" ELSE state[i]]

Reopen(i) ==
  /\ state[i] = "dead"
  /\ state' = [state EXCEPT ![i] = "open"]
  /\ UNCHANGED owner

WNext ==
  \/ \E i \in Item : Reopen(i)
  \/ \E S \in SUBSET Item : Add(S)
  \/ \E w \in Worker :
       \/ Die(w)
       \/ \E i \in Item : Conclude(w, i)
       \/ \E S \in SUBSET Item : Take(w, S)
  \/ \E S \in SUBSET Item : \E D \in SUBSET S : Recover(S, D)

WSpec == WInit /\ [][WNext]_wvars
=============================================================================
