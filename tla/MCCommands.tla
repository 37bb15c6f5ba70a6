------------------------------ MODULE MCCommands ------------------------------
(***************************************************************************)
(* The modules whose commands read rows and commit later, checked by one   *)
(* run: money, subscriptions, the retry record of a keyed request,         *)
(* identity and access, reputation, geography.  They share no row here, so *)
(* each behaviour drives one of them and leaves the others at their        *)
(* initial state.  One set of process names serves them all.               *)
(***************************************************************************)
EXTENDS Money, Billing, RetryClaim, Access, Reputation, Geography, TLC

CONSTANTS main

VARIABLE driven   \* the module this behaviour drives

cvars == <<driven, vars, bvars, rvars, avars, svars, gvars>>

CInit ==
  /\ driven \in {"money", "billing", "retry", "access", "reputation", "geography"}
  /\ Init /\ BInit /\ RInit /\ AInit /\ SInit /\ GInit

CNext ==
  \/ driven = "money" /\ Next /\ UNCHANGED <<driven, bvars, rvars, avars, svars, gvars>>
  \/ driven = "billing" /\ BNext /\ UNCHANGED <<driven, vars, rvars, avars, svars, gvars>>
  \/ driven = "retry" /\ RNext /\ UNCHANGED <<driven, vars, bvars, avars, svars, gvars>>
  \/ driven = "access" /\ ANext /\ UNCHANGED <<driven, vars, bvars, rvars, svars, gvars>>
  \/ driven = "reputation" /\ SNext /\ UNCHANGED <<driven, vars, bvars, rvars, avars, gvars>>
  \/ driven = "geography" /\ GNext /\ UNCHANGED <<driven, vars, bvars, rvars, avars, svars>>

CSpec == CInit /\ [][CNext]_cvars

-----------------------------------------------------------------------------

OneWallet == [h \in Hold |-> main]

AdminOnly == {{"org_admin"}}

Symm == Permutations(Client) \union Permutations(Key)

\* The rows, commands and counters of the module a behaviour drives stay within
\* their types; the others never leave their initial state.
CTypeOK ==
  CASE driven = "money" -> TypeOK
    [] driven = "billing" -> BTypeOK
    [] driven = "retry" -> RTypeOK
    [] driven = "access" -> ATypeOK
    [] driven = "reputation" -> STypeOK
    [] driven = "geography" -> GTypeOK
=============================================================================
