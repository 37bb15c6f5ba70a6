-------------------------------- MODULE Access --------------------------------
(***************************************************************************)
(* Identities, sessions and memberships.  A command is authenticated and   *)
(* authorized once, reads, and commits later, when what it went by may no  *)
(* longer be so; uniqueness is the database's.  An identity and its        *)
(* principal are one row here, since they are only written together.       *)
(***************************************************************************)
EXTENDS FiniteSets, Naturals

CONSTANTS
  Account,    \* a channel type and an external id
  Person,     \* ids of identities
  operator,   \* the identity the bootstrap credential belongs to
  Tenant,     \* organizations
  home,       \* the tenant the operator's roles are held in
  Session,
  first,      \* the bootstrap session
  Caller,
  NoCall,
  Granted     \* the sets of roles a grant may carry

RoleName == {"platform_admin", "org_admin", "org_member", "support_agent", "service"}

ASSUME AccessAssumption ==
  /\ operator \in Person /\ first \in Session /\ home \in Tenant
  /\ Granted \subseteq SUBSET RoleName

VARIABLES
  tenants,      \* the organizations created
  links,        \* identity_link rows
  persons,      \* identity and principal rows
  session,      \* each session's state
  memberships,  \* membership rows
  verified,     \* core.identity.verified events
  call          \* what each caller's command has read

avars == <<tenants, links, persons, session, memberships, verified, call>>

\* The permissions these commands ask for.
RolePermissions ==
  [platform_admin |-> {"identity.write", "organization.write", "session.issue"},
   org_admin |-> {"organization.write"},
   org_member |-> {},
   support_agent |-> {},
   service |-> {"session.issue"}]

PermissionsForRoles(roles) == UNION {RolePermissions[r] : r \in roles}

Link == [account : Account, who : Person]
Membership == [who : Person, tenant : Tenant, roles : SUBSET RoleName, by : Caller \union {NoCall}]
SessionRow == [state : {"none", "live", "expired", "revoked"}, who : Person]

AInit ==
  /\ tenants = {home}
  /\ links = {}
  /\ persons = {operator}
  /\ session = [s \in Session |->
       [state |-> IF s = first THEN "live" ELSE "none", who |-> operator]]
  /\ memberships = {[who |-> operator, tenant |-> home, roles |-> {"platform_admin"}, by |-> NoCall]}
  /\ verified = {}
  /\ call = [c \in Caller |-> NoCall]

-----------------------------------------------------------------------------

Ready(c, op) == call[c] # NoCall /\ call[c].op = op

Done(c) == call' = [call EXCEPT ![c] = NoCall]

\* An authenticated principal.  Roles are the union over every membership of the principal.
ActorOf(p) ==
  LET mine == {m \in memberships : m.who = p}
  IN  [who |-> p, tenants |-> {m.tenant : m \in mine}, roles |-> UNION {m.roles : m \in mine}]

IsSessionActive(s) == session[s].state = "live"

Authorize(actor, permission, scope) ==
  /\ permission \in PermissionsForRoles(actor.roles)
  /\ scope \subseteq actor.tenants \/ "platform_admin" \in actor.roles

\* The router authenticates the caller before anything else of the command.
Authenticate(c, s, op, target) ==
  /\ call[c] = NoCall
  /\ IsSessionActive(s)
  /\ call' = [call EXCEPT ![c] = [op |-> op, target |-> target]]

-----------------------------------------------------------------------------
(* registerIdentity *)

\* An account that is linked is answered with its identity.
RegisterRead(c, account) ==
  /\ call[c] = NoCall
  /\ ~\E l \in links : l.account = account
  /\ call' = [call EXCEPT ![c] = [op |-> "register", target |-> account]]
  /\ UNCHANGED <<tenants, links, persons, session, memberships, verified>>

\* A mutant: no unique index on the link.
LinkInserted(account) == TRUE

LinkInsertable(account) == ~\E l \in links : l.account = account

\* Identity, principal, link and event; or, when the link is taken, none of them.
RegisterCommit(c, p) ==
  /\ Ready(c, "register")
  /\ p \notin persons
  /\ IF LinkInsertable(call[c].target)
     THEN /\ persons' = persons \union {p}
          /\ links' = links \union {[account |-> call[c].target, who |-> p]}
          /\ verified' = verified \union {p}
     ELSE UNCHANGED <<persons, links, verified>>
  /\ Done(c)
  /\ UNCHANGED <<tenants, session, memberships>>

-----------------------------------------------------------------------------
(* Organizations, sessions and memberships. *)

CreateOrganization(o) ==
  /\ \E s \in Session : IsSessionActive(s) /\ Authorize(ActorOf(session[s].who), "organization.write", {})
  /\ tenants' = tenants \union {o}
  /\ UNCHANGED <<links, persons, session, memberships, verified, call>>

IssueRead(c, s, p) ==
  /\ p \in persons
  /\ Authenticate(c, s, "issue", p)
  /\ Authorize(ActorOf(session[s].who), "session.issue", {})
  /\ UNCHANGED <<tenants, links, persons, session, memberships, verified>>

IssueCommit(c, new) ==
  /\ Ready(c, "issue")
  /\ session[new].state = "none"
  /\ session' = [session EXCEPT ![new] = [state |-> "live", who |-> call[c].target]]
  /\ Done(c)
  /\ UNCHANGED <<tenants, links, persons, memberships, verified>>

\* One's own session, or anybody's with identity.write.
RevokeRead(c, s, target) ==
  /\ session[target].state \notin {"none", "revoked"}
  /\ Authenticate(c, s, "revoke", target)
  /\ \/ session[target].who = session[s].who
     \/ Authorize(ActorOf(session[s].who), "identity.write", {})
  /\ UNCHANGED <<tenants, links, persons, session, memberships, verified>>

RevokeCommit(c) ==
  /\ Ready(c, "revoke")
  /\ session' = [session EXCEPT ![call[c].target].state = "revoked"]
  /\ Done(c)
  /\ UNCHANGED <<tenants, links, persons, memberships, verified>>

Expire(s) ==
  /\ session[s].state = "live"
  /\ session' = [session EXCEPT ![s].state = "expired"]
  /\ UNCHANGED <<tenants, links, persons, memberships, verified, call>>

Has(p, o) == \E m \in memberships : m.who = p /\ m.tenant = o

GrantRead(c, s, p, o, roles) ==
  /\ p \in persons /\ o \in tenants
  /\ Authenticate(c, s, "grant", [who |-> p, tenant |-> o, roles |-> roles, by |-> c])
  /\ Authorize(ActorOf(session[s].who), "organization.write", {o})
  /\ ~Has(p, o)
  /\ UNCHANGED <<tenants, links, persons, session, memberships, verified>>

MembershipInsertable(m) == ~Has(m.who, m.tenant)

GrantCommit(c) ==
  /\ Ready(c, "grant")
  /\ memberships' =
       IF MembershipInsertable(call[c].target)
       THEN memberships \union {call[c].target}
       ELSE memberships
  /\ Done(c)
  /\ UNCHANGED <<tenants, links, persons, session, verified>>

CallDies(c) ==
  /\ call[c] # NoCall
  /\ Done(c)
  /\ UNCHANGED <<tenants, links, persons, session, memberships, verified>>

ANext ==
  \/ \E o \in Tenant : CreateOrganization(o)
  \/ \E s \in Session : Expire(s)
  \/ \E c \in Caller :
       \/ \E account \in Account : RegisterRead(c, account)
       \/ \E p \in Person : RegisterCommit(c, p)
       \/ \E s \in Session :
            \/ \E p \in Person : IssueRead(c, s, p)
            \/ \E target \in Session : RevokeRead(c, s, target)
            \/ \E p \in Person, o \in Tenant, roles \in Granted : GrantRead(c, s, p, o, roles)
            \/ IssueCommit(c, s)
       \/ RevokeCommit(c)
       \/ GrantCommit(c)
       \/ CallDies(c)

ASpec == AInit /\ [][ANext]_avars

-----------------------------------------------------------------------------

ATypeOK ==
  /\ tenants \subseteq Tenant
  /\ links \subseteq Link
  /\ persons \subseteq Person
  /\ session \in [Session -> SessionRow]
  /\ memberships \subseteq Membership
  /\ verified \subseteq Person
  /\ \A c \in Caller : call[c] # NoCall =>
       \/ call[c].op = "register" /\ call[c].target \in Account
       \/ call[c].op = "issue" /\ call[c].target \in Person
       \/ call[c].op = "revoke" /\ call[c].target \in Session
       \/ call[c].op = "grant" /\ call[c].target \in Membership

\* One channel account resolves to one identity and one principal has one
\* membership in a tenant, however many registrations and grants cross between
\* their read and their commit; and an identity exists exactly when its link and
\* its verified event do, so no half of a lost race stays behind.
OneIdentityPerAccount ==
  /\ \A l, m \in links : l.account = m.account => l = m
  /\ \A m, n \in memberships : m.who = n.who /\ m.tenant = n.tenant => m = n
  /\ {l.who : l \in links} = persons \ {operator}
  /\ verified = persons \ {operator}
=============================================================================
