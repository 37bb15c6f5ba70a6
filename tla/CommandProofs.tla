----------------------------- MODULE CommandProofs -----------------------------
(***************************************************************************)
(* What the modules whose commands read rows and commit later keep, for    *)
(* any number of clients, servers and rows: geography, identity and        *)
(* access, reputation, the retry record, subscriptions.  Each has its      *)
(* inductive invariant, the lemma that one step of each action keeps it,   *)
(* and the theorems that follow from it; the last section puts them, and   *)
(* MoneyProofs, together as MCCommands does.                               *)
(***************************************************************************)
EXTENDS MCCommands, MoneyProofs, FiniteSetTheorems

-----------------------------------------------------------------------------
(* Geography. *)

\* Every region was answered to somebody; a country has one region of a code; a
\* city is in a region there is and an area in a city there is.
PlacesLinked ==
  /\ regions \subseteq answers
  /\ \A r, q \in regions : r.country = q.country /\ r.code = q.code => r = q
  /\ \A c \in cities : \E r \in regions : c.region = r.id
  /\ \A a \in areas : \E c \in cities : a.city = c.id

GInv == GTypeOK /\ PlacesLinked

LEMMA PlacesStart == GInit => GInv
BY DEF GInit, GInv, GTypeOK, PlacesLinked, CountryRow

LEMMA CountryKept ==
  ASSUME GInv, NEW n \in Country, NEW currency \in Currency, RegisterCountry(n, currency)
  PROVE  GInv'
BY DEF RegisterCountry, GInv, GTypeOK, PlacesLinked, CountryRow

LEMMA SearchKept ==
  ASSUME GInv, NEW g \in Surveyor, NEW n \in Country, NEW code \in Code,
         SearchRegion(g, n, code)
  PROVE  GInv'
<1>1. /\ search' \in [Surveyor -> (Country \X Code) \union {NoSearch}]
      /\ answers' \subseteq regions /\ answers \subseteq answers'
  <2>1. CASE FindRegion(n, code) = {}
    <3>1. <<n, code>> \in Country \X Code
      OBVIOUS
    <3> QED BY <2>1, <3>1 DEF SearchRegion, GInv, GTypeOK
  <2>2. CASE FindRegion(n, code) # {}
    BY <2>2 DEF SearchRegion, GInv, GTypeOK, FindRegion, Answer
  <2> QED BY <2>1, <2>2
<1> QED BY <1>1 DEF SearchRegion, GInv, GTypeOK, PlacesLinked

LEMMA RegionKept ==
  ASSUME GInv, NEW g \in Surveyor, NEW id \in Region, InsertRegion(g, id)
  PROVE  GInv'
<1> DEFINE new == [id |-> id, country |-> search[g][1], code |-> search[g][2]]
<1>1. new \in RegionRow
  <2>1. search[g] \in Country \X Code
    BY DEF GInv, GTypeOK, InsertRegion
  <2> QED BY <2>1 DEF RegionRow
<1>2. search' \in [Surveyor -> (Country \X Code) \union {NoSearch}]
  BY DEF GInv, GTypeOK, InsertRegion
<1>3. CASE RegionInsertable(new)
  <2>1. regions' = regions \union {new} /\ answers' = answers \union {new}
    BY <1>3 DEF InsertRegion, Answer
  <2>2. \A r \in regions : ~(r.country = new.country /\ r.code = new.code)
    BY <1>3 DEF RegionInsertable, FindRegion
  <2> HIDE DEF new
  <2>3. GTypeOK'
    BY <1>1, <1>2, <2>1 DEF GInv, GTypeOK, InsertRegion
  <2>4. PlacesLinked'
    BY <2>1, <2>2 DEF GInv, PlacesLinked, InsertRegion
  <2> QED BY <2>3, <2>4 DEF GInv
<1>4. CASE ~RegionInsertable(new)
  BY <1>2, <1>4 DEF InsertRegion, GInv, GTypeOK, PlacesLinked
<1> QED BY <1>3, <1>4

LEMMA DeathKept ==
  ASSUME GInv, NEW g \in Surveyor, SurveyorDies(g)
  PROVE  GInv'
BY DEF SurveyorDies, GInv, GTypeOK, PlacesLinked

LEMMA CityKept ==
  ASSUME GInv, NEW id \in City, NEW r \in regions, NEW at \in Spot, AddCity(id, r, at)
  PROVE  GInv'
<1> DEFINE new == [id |-> id, region |-> r.id, country |-> r.country, at |-> at]
<1>1. new \in CityRow /\ new.region = r.id
  BY DEF GInv, GTypeOK, RegionRow, CityRow
<1>2. cities' = cities \union {new}
  BY DEF AddCity
<1> HIDE DEF new
<1> QED BY <1>1, <1>2 DEF GInv, GTypeOK, PlacesLinked, AddCity

LEMMA AreaKept ==
  ASSUME GInv, NEW id \in Area, NEW c \in cities, NEW centre \in Spot,
         NEW radius \in 0..(RadiusLimit + 1), DefineServiceArea(id, c, centre, radius)
  PROVE  GInv'
<1> DEFINE new == [id |-> id, city |-> c.id, country |-> c.country, centre |-> centre,
                   radius |-> radius]
<1>1. radius \in 1..RadiusLimit
  BY GeographyAssumption DEF DefineServiceArea
<1>2. new \in ServiceArea /\ new.city = c.id
  BY <1>1 DEF GInv, GTypeOK, CityRow, ServiceArea
<1>3. areas' = areas \union {new}
  BY DEF DefineServiceArea
<1> HIDE DEF new
<1> QED BY <1>2, <1>3 DEF GInv, GTypeOK, PlacesLinked, DefineServiceArea

LEMMA PlacesKept == GInv /\ [GNext]_gvars => GInv'
<1> SUFFICES ASSUME GInv, [GNext]_gvars PROVE GInv'
  OBVIOUS
<1>1. CASE UNCHANGED gvars
  BY <1>1 DEF gvars, GInv, GTypeOK, PlacesLinked
<1>2. CASE GNext
  BY <1>2, CountryKept, SearchKept, RegionKept, DeathKept, CityKept, AreaKept DEF GNext
<1> QED BY <1>1, <1>2

LEMMA LinkedMeansOnePlace == GInv => CodeMeansOnePlace
<1> SUFFICES ASSUME GInv PROVE CodeMeansOnePlace
  OBVIOUS
<1>1. \A r, q \in answers : r.country = q.country /\ r.code = q.code => r = q
  BY DEF GInv, GTypeOK, PlacesLinked
<1>2. ASSUME NEW point \in Spot, NEW n \in Country
      PROVE  Resolve(point, n) = UNION {AreasOfCode(n, code, point) : code \in Code}
  <2>1. ASSUME NEW a \in Resolve(point, n)
        PROVE  \E code \in Code : a \in AreasOfCode(n, code, point)
    <3>1. a \in areas
      BY DEF Resolve, ListServiceAreas
    <3>2. PICK c \in cities : a.city = c.id
      BY <3>1 DEF GInv, PlacesLinked
    <3>3. PICK r \in regions : c.region = r.id
      BY DEF GInv, PlacesLinked
    <3>4. r \in answers /\ r.code \in Code
      BY DEF GInv, GTypeOK, PlacesLinked, RegionRow
    <3> QED BY <3>2, <3>3, <3>4 DEF AreasOfCode
  <2>2. \A code \in Code : AreasOfCode(n, code, point) \subseteq Resolve(point, n)
    BY DEF AreasOfCode
  <2> HIDE DEF Resolve, AreasOfCode
  <2> QED BY <2>1, <2>2
<1>3. ASSUME NEW point \in Spot
      PROVE  Resolve(point, "any") = UNION {Resolve(point, n) : n \in Country}
  <2>1. \A a \in areas : a.country \in Country
    BY DEF GInv, GTypeOK, ServiceArea
  <2> QED BY <2>1 DEF Resolve, ListServiceAreas
<1> QED BY <1>1, <1>2, <1>3 DEF CodeMeansOnePlace

\* The rows of countries, regions, cities and areas, the searches under way and the
\* answers given stay within their types, for any number of surveyors.
THEOREM GTyping == GSpec => []GTypeOK
<1>1. GInv => GTypeOK
  BY DEF GInv
<1> QED BY <1>1, PlacesStart, PlacesKept, PTL DEF GSpec

\* However many surveyors search for a code and insert it at the same time, a
\* country has one region of a code (region/repository.ts, on conflict do nothing and
\* the read that follows it), everybody is answered that one, and resolving a point by
\* code misses no area.
THEOREM OnePlace == GSpec => []CodeMeansOnePlace
BY PlacesStart, PlacesKept, LinkedMeansOnePlace, PTL DEF GSpec

-----------------------------------------------------------------------------
(* Identity and access. *)

\* A command that has read carries what its commit writes.
CallFits(k) ==
  \/ k.op = "register" /\ k.target \in Account
  \/ k.op = "issue" /\ k.target \in Person
  \/ k.op = "revoke" /\ k.target \in Session
  \/ k.op = "grant" /\ k.target \in Membership

\* The type invariant, with the domain of the commands, and the operator's identity,
\* which nobody registers.
AInv ==
  /\ ATypeOK
  /\ DOMAIN call = Caller /\ call = [c \in Caller |-> call[c]]
  /\ operator \in persons
  /\ OneIdentityPerAccount

LEMMA CallsStart == AInit => AInv
<1> SUFFICES ASSUME AInit PROVE AInv
  OBVIOUS
<1>1. session \in [Session -> SessionRow]
  BY AccessAssumption DEF AInit, SessionRow
<1>2. memberships \subseteq Membership
  BY AccessAssumption DEF AInit, Membership, RoleName
<1>3. call = [c \in Caller |-> call[c]] /\ DOMAIN call = Caller
      /\ \A c \in Caller : call[c] = NoCall
  BY DEF AInit
<1>4. OneIdentityPerAccount
  BY DEF AInit, OneIdentityPerAccount
<1>5. ATypeOK
  BY <1>1, <1>2, <1>3, AccessAssumption DEF AInit, ATypeOK
<1> QED BY <1>3, <1>4, <1>5 DEF AInv, AInit

\* What one call becomes, when it is nothing or fits.
LEMMA CallMoves ==
  ASSUME AInv, NEW c \in Caller, NEW k,
         k = NoCall \/ CallFits(k), call' = [call EXCEPT ![c] = k]
  PROVE  /\ DOMAIN call' = Caller /\ call' = [d \in Caller |-> call'[d]]
         /\ \A d \in Caller : call'[d] # NoCall => CallFits(call'[d])
<1>1. \A d \in Caller : call[d] # NoCall => CallFits(call[d])
  BY DEF AInv, ATypeOK, CallFits
<1>2. \A d \in Caller : call'[d] = IF d = c THEN k ELSE call[d]
  BY DEF AInv
<1>3. DOMAIN call' = Caller /\ call' = [d \in Caller |-> call'[d]]
  BY DEF AInv
<1> QED BY <1>1, <1>2, <1>3

LEMMA CallStays ==
  ASSUME AInv, UNCHANGED call
  PROVE  /\ DOMAIN call' = Caller /\ call' = [d \in Caller |-> call'[d]]
         /\ \A d \in Caller : call'[d] # NoCall => CallFits(call'[d])
BY DEF AInv, ATypeOK, CallFits

\* A step that writes no row but sessions and organizations.
LEMMA RowsStay ==
  ASSUME AInv, UNCHANGED <<links, persons, memberships, verified>>,
         tenants' \subseteq Tenant, session' \in [Session -> SessionRow],
         DOMAIN call' = Caller /\ call' = [d \in Caller |-> call'[d]],
         \A d \in Caller : call'[d] # NoCall => CallFits(call'[d])
  PROVE  AInv'
BY DEF AInv, ATypeOK, OneIdentityPerAccount, CallFits

LEMMA RegisterReadKept ==
  ASSUME AInv, NEW c \in Caller, NEW account \in Account, RegisterRead(c, account)
  PROVE  AInv'
<1> DEFINE k == [op |-> "register", target |-> account]
<1>1. CallFits(k) /\ call' = [call EXCEPT ![c] = k]
  BY DEF RegisterRead, CallFits
<1> HIDE DEF k
<1>2. /\ DOMAIN call' = Caller /\ call' = [d \in Caller |-> call'[d]]
      /\ \A d \in Caller : call'[d] # NoCall => CallFits(call'[d])
  BY <1>1, CallMoves
<1> QED BY <1>2, RowsStay DEF RegisterRead, AInv, ATypeOK

LEMMA RegisterCommitKept ==
  ASSUME AInv, NEW c \in Caller, NEW p \in Person, RegisterCommit(c, p)
  PROVE  AInv'
<1> DEFINE new == [account |-> call[c].target, who |-> p]
<1>1. /\ DOMAIN call' = Caller /\ call' = [d \in Caller |-> call'[d]]
      /\ \A d \in Caller : call'[d] # NoCall => CallFits(call'[d])
  BY CallMoves DEF RegisterCommit, Done
<1>2. CASE ~LinkInsertable(call[c].target)
  BY <1>1, <1>2, RowsStay DEF RegisterCommit, AInv, ATypeOK
<1>3. CASE LinkInsertable(call[c].target)
  <2>1. new \in Link /\ new.who = p /\ new.account = call[c].target
    BY DEF RegisterCommit, Ready, AInv, ATypeOK, Link
  <2>2. /\ links' = links \union {new} /\ persons' = persons \union {p}
        /\ verified' = verified \union {p} /\ UNCHANGED <<tenants, session, memberships>>
    BY <1>3 DEF RegisterCommit
  <2>3. \A l \in links : l.account # new.account
    BY <1>3, <2>1 DEF LinkInsertable
  <2>4. p # operator /\ operator \in persons
    BY DEF RegisterCommit, AInv
  <2> HIDE DEF new
  <2>5. \A l, m \in links' : l.account = m.account => l = m
    BY <2>2, <2>3 DEF AInv, OneIdentityPerAccount
  <2>6. {l.who : l \in links'} = persons' \ {operator}
    BY <2>1, <2>2, <2>4 DEF AInv, OneIdentityPerAccount
  <2>7. verified' = persons' \ {operator}
    BY <2>2, <2>4 DEF AInv, OneIdentityPerAccount
  <2>8. OneIdentityPerAccount'
    BY <2>2, <2>5, <2>6, <2>7 DEF AInv, OneIdentityPerAccount
  <2>9. ATypeOK'
    BY <1>1, <2>1, <2>2 DEF AInv, ATypeOK, CallFits
  <2> QED BY <1>1, <2>2, <2>4, <2>8, <2>9 DEF AInv
<1> QED BY <1>2, <1>3

LEMMA OrganizationKept ==
  ASSUME AInv, NEW o \in Tenant, CreateOrganization(o)
  PROVE  AInv'
BY CallStays, RowsStay DEF CreateOrganization, AInv, ATypeOK

LEMMA IssueReadKept ==
  ASSUME AInv, NEW c \in Caller, NEW s \in Session, NEW p \in Person, IssueRead(c, s, p)
  PROVE  AInv'
<1> DEFINE k == [op |-> "issue", target |-> p]
<1>1. CallFits(k) /\ call' = [call EXCEPT ![c] = k]
  BY DEF IssueRead, Authenticate, CallFits
<1> HIDE DEF k
<1>2. /\ DOMAIN call' = Caller /\ call' = [d \in Caller |-> call'[d]]
      /\ \A d \in Caller : call'[d] # NoCall => CallFits(call'[d])
  BY <1>1, CallMoves
<1> QED BY <1>2, RowsStay DEF IssueRead, AInv, ATypeOK

LEMMA IssueCommitKept ==
  ASSUME AInv, NEW c \in Caller, NEW new \in Session, IssueCommit(c, new)
  PROVE  AInv'
<1> DEFINE row == [state |-> "live", who |-> call[c].target]
<1>1. row \in SessionRow
  BY DEF IssueCommit, Ready, AInv, ATypeOK, SessionRow
<1>2. session' \in [Session -> SessionRow]
  BY <1>1 DEF IssueCommit, AInv, ATypeOK
<1>3. /\ DOMAIN call' = Caller /\ call' = [d \in Caller |-> call'[d]]
      /\ \A d \in Caller : call'[d] # NoCall => CallFits(call'[d])
  BY CallMoves DEF IssueCommit, Done
<1> QED BY <1>2, <1>3, RowsStay DEF IssueCommit, AInv, ATypeOK

LEMMA RevokeReadKept ==
  ASSUME AInv, NEW c \in Caller, NEW s \in Session, NEW target \in Session,
         RevokeRead(c, s, target)
  PROVE  AInv'
<1> DEFINE k == [op |-> "revoke", target |-> target]
<1>1. CallFits(k) /\ call' = [call EXCEPT ![c] = k]
  BY DEF RevokeRead, Authenticate, CallFits
<1> HIDE DEF k
<1>2. /\ DOMAIN call' = Caller /\ call' = [d \in Caller |-> call'[d]]
      /\ \A d \in Caller : call'[d] # NoCall => CallFits(call'[d])
  BY <1>1, CallMoves
<1> QED BY <1>2, RowsStay DEF RevokeRead, AInv, ATypeOK

LEMMA RevokeCommitKept ==
  ASSUME AInv, NEW c \in Caller, RevokeCommit(c)
  PROVE  AInv'
<1>1. call[c].target \in Session
  BY DEF RevokeCommit, Ready, AInv, ATypeOK
<1>2. [session[call[c].target] EXCEPT !.state = "revoked"] \in SessionRow
  BY <1>1 DEF AInv, ATypeOK, SessionRow
<1>3. session' \in [Session -> SessionRow]
  BY <1>1, <1>2 DEF RevokeCommit, AInv, ATypeOK
<1>4. /\ DOMAIN call' = Caller /\ call' = [d \in Caller |-> call'[d]]
      /\ \A d \in Caller : call'[d] # NoCall => CallFits(call'[d])
  BY CallMoves DEF RevokeCommit, Done
<1> QED BY <1>3, <1>4, RowsStay DEF RevokeCommit, AInv, ATypeOK

LEMMA ExpireKept ==
  ASSUME AInv, NEW s \in Session, Expire(s)
  PROVE  AInv'
<1>1. [session[s] EXCEPT !.state = "expired"] \in SessionRow
  BY DEF AInv, ATypeOK, SessionRow
<1>2. session' \in [Session -> SessionRow]
  BY <1>1 DEF Expire, AInv, ATypeOK
<1> QED BY <1>2, CallStays, RowsStay DEF Expire, AInv, ATypeOK

LEMMA GrantReadKept ==
  ASSUME AInv, NEW c \in Caller, NEW s \in Session, NEW p \in Person, NEW o \in Tenant,
         NEW roles \in Granted, GrantRead(c, s, p, o, roles)
  PROVE  AInv'
<1> DEFINE m == [who |-> p, tenant |-> o, roles |-> roles, by |-> c]
           k == [op |-> "grant", target |-> m]
<1>1. m \in Membership
  BY AccessAssumption DEF Membership
<1>2. CallFits(k) /\ call' = [call EXCEPT ![c] = k]
  BY <1>1 DEF GrantRead, Authenticate, CallFits
<1> HIDE DEF k
<1>3. /\ DOMAIN call' = Caller /\ call' = [d \in Caller |-> call'[d]]
      /\ \A d \in Caller : call'[d] # NoCall => CallFits(call'[d])
  BY <1>2, CallMoves
<1> QED BY <1>3, RowsStay DEF GrantRead, AInv, ATypeOK

LEMMA GrantCommitKept ==
  ASSUME AInv, NEW c \in Caller, GrantCommit(c)
  PROVE  AInv'
<1> DEFINE m == call[c].target
<1>1. /\ DOMAIN call' = Caller /\ call' = [d \in Caller |-> call'[d]]
      /\ \A d \in Caller : call'[d] # NoCall => CallFits(call'[d])
  BY CallMoves DEF GrantCommit, Done
<1>2. m \in Membership
  BY DEF GrantCommit, Ready, AInv, ATypeOK
<1>3. CASE MembershipInsertable(m)
  <2>1. memberships' = memberships \union {m} /\ \A n \in memberships : ~(n.who = m.who /\ n.tenant = m.tenant)
    BY <1>3 DEF GrantCommit, MembershipInsertable, Has
  <2> HIDE DEF m
  <2>2. OneIdentityPerAccount'
    BY <2>1 DEF GrantCommit, AInv, OneIdentityPerAccount
  <2>3. ATypeOK'
    BY <1>1, <1>2, <2>1 DEF GrantCommit, AInv, ATypeOK, CallFits
  <2> QED BY <1>1, <2>2, <2>3 DEF AInv, GrantCommit
<1>4. CASE ~MembershipInsertable(m)
  BY <1>1, <1>4, RowsStay DEF GrantCommit, AInv, ATypeOK
<1> QED BY <1>3, <1>4

LEMMA CallDiesKept ==
  ASSUME AInv, NEW c \in Caller, CallDies(c)
  PROVE  AInv'
<1>1. /\ DOMAIN call' = Caller /\ call' = [d \in Caller |-> call'[d]]
      /\ \A d \in Caller : call'[d] # NoCall => CallFits(call'[d])
  BY CallMoves DEF CallDies, Done
<1> QED BY <1>1, RowsStay DEF CallDies, AInv, ATypeOK

LEMMA CallsKept == AInv /\ [ANext]_avars => AInv'
<1> SUFFICES ASSUME AInv, [ANext]_avars PROVE AInv'
  OBVIOUS
<1>1. CASE UNCHANGED avars
  BY <1>1, CallStays, RowsStay DEF avars, AInv, ATypeOK
<1>2. CASE ANext
  BY <1>2, RegisterReadKept, RegisterCommitKept, OrganizationKept, IssueReadKept,
     IssueCommitKept, RevokeReadKept, RevokeCommitKept, ExpireKept, GrantReadKept,
     GrantCommitKept, CallDiesKept DEF ANext
<1> QED BY <1>1, <1>2

\* Identities, links, sessions, memberships and calls stay within their types.
THEOREM ATyping == ASpec => []ATypeOK
<1>1. AInv => ATypeOK
  BY DEF AInv
<1> QED BY <1>1, CallsStart, CallsKept, PTL DEF ASpec

\* However many registrations and grants cross between their read and their commit, and
\* wherever they die, an account resolves to one identity, a principal has one membership
\* in a tenant, and an identity exists exactly when its link and its event do.
THEOREM OneIdentity == ASpec => []OneIdentityPerAccount
<1>1. AInv => OneIdentityPerAccount
  BY DEF AInv
<1> QED BY <1>1, CallsStart, CallsKept, PTL DEF ASpec

-----------------------------------------------------------------------------
(* Reputation. *)

\* A signal is announced when it is there, and withdrawn when it is retracted, and
\* only a rating has a value.
SignalsHeard ==
  \A r \in Source :
    /\ announced[r] = IF signal[r].status = "none" THEN 0 ELSE 1
    /\ withdrawn[r] = IF signal[r].status = "retracted" THEN 1 ELSE 0
    /\ signal[r].kind # RatedKind => signal[r].value = Unrated

SInv == STypeOK /\ SignalsHeard

LEMMA SignalsStart == SInit => SInv
<1> SUFFICES ASSUME SInit PROVE SInv
  OBVIOUS
<1>1. NoSignal \in SignalRow /\ NoSignal.status = "none" /\ NoSignal.kind = RatedKind
  BY DEF NoSignal, SignalRow, Kind, RatedKind
<1> QED BY <1>1 DEF SInit, SInv, STypeOK, SignalsHeard

LEMMA RecordKept ==
  ASSUME SInv, NEW r \in Source, NEW kind \in Kind, NEW value \in Rating \union {Unrated},
         RecordSignal(r, kind, value)
  PROVE  SInv'
<1> DEFINE new == [status |-> "standing", kind |-> kind, value |-> value]
<1>1. new \in SignalRow /\ new.status = "standing" /\ (new.kind # RatedKind => new.value = Unrated)
  BY DEF SignalRow, RecordSignal, RatingShapeIsValid
<1>2. CASE signal[r].status = "none"
  <2>1. signal' = [signal EXCEPT ![r] = new] /\ announced' = [announced EXCEPT ![r] = announced[r] + 1]
    BY <1>2 DEF RecordSignal, InsertIfAbsent
  <2>2. announced[r] = 0 /\ withdrawn[r] = 0
    BY <1>2 DEF SInv, SignalsHeard
  <2> HIDE DEF new
  <2>3. announced' \in [Source -> 0..1] /\ signal' \in [Source -> SignalRow]
    BY <1>1, <2>1, <2>2 DEF SInv, STypeOK
  <2>4. \A q \in Source : q # r => signal'[q] = signal[q] /\ announced'[q] = announced[q]
    BY <2>1 DEF SInv, STypeOK
  <2>5. signal'[r] = new /\ announced'[r] = 1
    BY <2>1, <2>2 DEF SInv, STypeOK
  <2>6. SignalsHeard'
    BY <1>1, <2>2, <2>4, <2>5 DEF SInv, SignalsHeard, RecordSignal
  <2> QED BY <2>3, <2>6 DEF SInv, STypeOK, RecordSignal
<1>3. CASE signal[r].status # "none"
  BY <1>3 DEF RecordSignal, InsertIfAbsent, SInv, STypeOK, SignalsHeard
<1> QED BY <1>2, <1>3

LEMMA RetractReadKept ==
  ASSUME SInv, NEW c \in Consumer, NEW r \in Source, RetractRead(c, r)
  PROVE  SInv'
BY DEF RetractRead, SInv, STypeOK, SignalsHeard

LEMMA RetractCommitKept ==
  ASSUME SInv, NEW c \in Consumer, RetractCommit(c)
  PROVE  SInv'
<1> DEFINE r == retracting[c]
<1>1. r \in Source /\ signal[r] \in SignalRow
  BY DEF RetractCommit, SInv, STypeOK
<1>2. retracting' \in [Consumer -> Source \union {NoReport}] /\ announced' = announced
  BY DEF RetractCommit, SInv, STypeOK
<1>3. CASE signal[r].status = "standing"
  <2> DEFINE new == [signal[r] EXCEPT !.status = "retracted"]
  <2>1. new \in SignalRow /\ new.status = "retracted"
        /\ new.kind = signal[r].kind /\ new.value = signal[r].value
    BY <1>1 DEF SignalRow
  <2>2. signal' = [signal EXCEPT ![r] = new] /\ withdrawn' = [withdrawn EXCEPT ![r] = withdrawn[r] + 1]
    BY <1>3 DEF RetractCommit, RetractIfStanding
  <2>3. withdrawn[r] = 0 /\ announced[r] = 1
    BY <1>1, <1>3 DEF SInv, SignalsHeard
  <2> HIDE DEF new, r
  <2>4. withdrawn' \in [Source -> 0..1] /\ signal' \in [Source -> SignalRow]
    BY <1>1, <2>1, <2>2, <2>3 DEF SInv, STypeOK
  <2>5. \A q \in Source : q # r => signal'[q] = signal[q] /\ withdrawn'[q] = withdrawn[q]
    BY <1>1, <2>2 DEF SInv, STypeOK
  <2>6. signal'[r] = new /\ withdrawn'[r] = 1
    BY <1>1, <2>2, <2>3 DEF SInv, STypeOK
  <2>7. SignalsHeard'
    BY <1>1, <1>2, <2>1, <2>3, <2>5, <2>6 DEF SInv, SignalsHeard
  <2> QED BY <1>2, <2>4, <2>7 DEF SInv, STypeOK
<1>4. CASE signal[r].status # "standing"
  BY <1>2, <1>4 DEF RetractCommit, RetractIfStanding, SInv, STypeOK, SignalsHeard
<1> QED BY <1>3, <1>4

LEMMA RetractFailsKept ==
  ASSUME SInv, NEW c \in Consumer, RetractFails(c)
  PROVE  SInv'
BY DEF RetractFails, SInv, STypeOK, SignalsHeard

LEMMA SignalsKept == SInv /\ [SNext]_svars => SInv'
<1> SUFFICES ASSUME SInv, [SNext]_svars PROVE SInv'
  OBVIOUS
<1>1. CASE UNCHANGED svars
  BY <1>1 DEF svars, SInv, STypeOK, SignalsHeard
<1>2. CASE SNext
  <2>1. {RatedKind, "dispute"} \subseteq Kind
    BY DEF Kind
  <2> QED BY <1>2, <2>1, RecordKept, RetractReadKept, RetractCommitKept, RetractFailsKept DEF SNext
<1> QED BY <1>1, <1>2

\* Signals and the events about them stay within their types: a signal is announced at
\* most once and withdrawn at most once, however often its events arrive.
THEOREM STyping == SSpec => []STypeOK
<1>1. SInv => STypeOK
  BY DEF SInv
<1> QED BY <1>1, SignalsStart, SignalsKept, PTL DEF SSpec

-----------------------------------------------------------------------------
(* Reputation, summed up. *)

\* What a `+=` loop arrives at.
LEMMA SumOverIsTotal ==
  ASSUME NEW M, IsFiniteSet(M), NEW v
  PROVE  SumOver(v, M) = Total(v, M)
<1> DEFINE Q(f) == f = [s \in SUBSET M |-> IF s = {} THEN 0 ELSE v[Pick(s)] + f[s \ {Pick(s)}]]
           g == CHOOSE f : Q(f)
<1>1. SumOver(v, M) = g[M]
  BY DEF SumOver, MapThenSumSet, MapThenFoldSet, Pick
<1>2. ASSUME NEW f PROVE Q(f) <=> IsTally(f, v, M)
  BY DEF IsTally, TallyStep
<1>3. IsTally(TallyOf(v, M), v, M)
  BY TallyExists
<1>4. Q(TallyOf(v, M))
  BY <1>2, <1>3
<1>5. Q(g)
  <2> HIDE DEF Q
  <2> QED BY <1>4
<1>6. g = TallyOf(v, M)
  BY <1>2 DEF TallyOf
<1> QED BY <1>1, <1>6 DEF Total

LEMMA KindsFinite == IsFiniteSet(Kind)
<1>1. IsFiniteSet({RatedKind})
  BY FS_Singleton
<1>2. IsFiniteSet({RatedKind} \union {"completion"} \union {"cancellation"} \union {"dispute"}
                  \union {"compliment"} \union {"complaint"})
  BY <1>1, FS_AddElement
<1>3. Kind = {RatedKind} \union {"completion"} \union {"cancellation"} \union {"dispute"}
             \union {"compliment"} \union {"complaint"}
  BY DEF Kind
<1> QED BY <1>2, <1>3

\* The signals of one kind, those of them that stand, and those that count as ratings.
SignalsOf(kind) == {r \in Source : signal[r].status # "none" /\ signal[r].kind = kind}
StandingOf(kind) == {r \in SignalsOf(kind) : Stands(signal[r])}
RatedOf(kind) == {r \in StandingOf(kind) : kind = RatedKind}

LEMMA GroupsFinite ==
  ASSUME NEW kind
  PROVE  /\ IsFiniteSet(SignalsOf(kind)) /\ IsFiniteSet(StandingOf(kind)) /\ IsFiniteSet(RatedOf(kind))
         /\ IsFiniteSet(SignalsOf(kind) \ StandingOf(kind))
<1>1. /\ SignalsOf(kind) \subseteq Source /\ StandingOf(kind) \subseteq Source
      /\ RatedOf(kind) \subseteq Source /\ SignalsOf(kind) \ StandingOf(kind) \subseteq Source
  BY DEF SignalsOf, StandingOf, RatedOf
<1> QED BY <1>1, FS_Subset, SourceAssumption

\* What a listener has heard of a signal: of any, of a rating, and of its value.
Heard == [r \in Source |-> announced[r] - withdrawn[r]]
HeardRating == [r \in Source |-> IF signal[r].kind = RatedKind THEN announced[r] - withdrawn[r] ELSE 0]
HeardValue == [r \in Source |-> (announced[r] - withdrawn[r]) * signal[r].value]

LEMMA HeardOf ==
  ASSUME SInv, NEW r \in Source
  PROVE  /\ Stands(signal[r]) => HeardValue[r] = signal[r].value /\ Heard[r] = 1
         /\ ~Stands(signal[r]) => HeardValue[r] = 0 /\ Heard[r] = 0
         /\ signal[r].kind = RatedKind => HeardRating[r] = Heard[r]
         /\ signal[r].kind # RatedKind => HeardRating[r] = 0 /\ HeardValue[r] = 0
         /\ signal[r].value \in Int /\ HeardValue[r] \in Int /\ HeardRating[r] \in Int
         /\ announced[r] \in Int /\ withdrawn[r] \in Int
<1> DEFINE x == signal[r].value
           n == announced[r] - withdrawn[r]
<1>1. x \in Int /\ announced[r] \in Int /\ withdrawn[r] \in Int
  <2>1. signal[r] \in SignalRow /\ announced[r] \in 0..1 /\ withdrawn[r] \in 0..1
    BY DEF SInv, STypeOK
  <2>2. x \in Rating \union {Unrated}
    BY <2>1 DEF SignalRow
  <2>3. Rating \subseteq Int /\ Unrated \in Int
    BY RatingAssumption DEF Unrated
  <2> HIDE DEF x
  <2> QED BY <2>1, <2>2, <2>3
<1>2. /\ Stands(signal[r]) => n = 1
      /\ ~Stands(signal[r]) => n = 0
      /\ signal[r].kind # RatedKind => x = 0
  BY DEF SInv, STypeOK, SignalRow, SignalsHeard, Stands, Unrated
<1>3. HeardValue[r] = n * x /\ Heard[r] = n
      /\ HeardRating[r] = IF signal[r].kind = RatedKind THEN n ELSE 0
  BY DEF HeardValue, Heard, HeardRating
<1> HIDE DEF x, n
<1>4. (n = 1 \/ n = 0) /\ n \in Int
  BY <1>2
<1>5. n = 1 => n * x = x
  BY <1>1
<1>6. n = 0 \/ x = 0 => n * x = 0
  BY <1>1, <1>4
<1> QED BY <1>1, <1>2, <1>3, <1>4, <1>5, <1>6 DEF x

\* What one group counts is what was heard of its signals.
LEMMA GroupHeard ==
  ASSUME SInv, NEW kind \in Kind
  PROVE  /\ KindGroup(kind).standing + KindGroup(kind).retracted = Total(announced, SignalsOf(kind))
         /\ KindGroup(kind).retracted = Total(withdrawn, SignalsOf(kind))
         /\ KindGroup(kind).ratings = Total(HeardRating, SignalsOf(kind))
         /\ KindGroup(kind).sum = Total(HeardValue, SignalsOf(kind))
<1> DEFINE of == SignalsOf(kind)
           stand == StandingOf(kind)
           rated == RatedOf(kind)
           gone == of \ stand
           value == [r \in rated |-> signal[r].value]
<1>1. /\ KindGroup(kind).standing = Cardinality(stand)
      /\ KindGroup(kind).retracted = Cardinality(gone)
      /\ KindGroup(kind).ratings = Cardinality(rated)
      /\ KindGroup(kind).sum = SumOver(value, rated)
  BY DEF KindGroup, SignalsOf, StandingOf, RatedOf
<1>2. IsFiniteSet(of) /\ IsFiniteSet(stand) /\ IsFiniteSet(gone) /\ IsFiniteSet(rated)
  BY GroupsFinite
<1>3. of \subseteq Source /\ stand \subseteq of /\ gone \subseteq of /\ rated \subseteq of
      /\ stand \intersect gone = {} /\ stand \union gone = of
  BY DEF SignalsOf, StandingOf, RatedOf
<1>4. /\ \A r \in of : signal[r].status # "none" /\ signal[r].kind = kind
      /\ \A r \in of : r \in stand <=> Stands(signal[r])
      /\ \A r \in of : r \in rated <=> Stands(signal[r]) /\ kind = RatedKind
  BY DEF SignalsOf, StandingOf, RatedOf
<1>5. \A r \in rated : value[r] = signal[r].value
  OBVIOUS
<1> HIDE DEF of, stand, rated, gone, value
<1>6. \A r \in of : announced[r] = 1 /\ withdrawn[r] = IF r \in gone THEN 1 ELSE 0
  <2> TAKE r \in of
  <2>1. r \in Source /\ signal[r].status \in {"standing", "retracted"}
    BY <1>3, <1>4 DEF SInv, STypeOK, SignalRow
  <2>2. r \in gone <=> signal[r].status = "retracted"
    BY <1>3, <1>4, <2>1 DEF Stands
  <2> QED BY <2>1, <2>2 DEF SInv, SignalsHeard
<1>7. \A r \in of : HeardRating[r] = IF r \in rated THEN 1 ELSE 0
  BY <1>3, <1>4, HeardOf
<1>8. \A r \in of : /\ HeardValue[r] \in Int
                    /\ r \in rated => HeardValue[r] = signal[r].value
                    /\ r \notin rated => HeardValue[r] = 0
  BY <1>3, <1>4, HeardOf
<1>9. Cardinality(stand) + Cardinality(gone) = Total(announced, of)
  <2>1. Total(announced, stand) = Cardinality(stand) /\ Total(announced, gone) = Cardinality(gone)
    BY <1>2, <1>3, <1>6, TotalOfOnes
  <2>2. \A r \in stand \union gone : announced[r] \in Int
    BY <1>3, <1>6
  <2>3. Total(announced, stand \union gone) = Total(announced, stand) + Total(announced, gone)
    BY <1>2, <1>3, <2>2, TotalOfUnion
  <2> QED BY <1>3, <2>1, <2>3
<1>10. Cardinality(gone) = Total(withdrawn, of)
  <2>1. Total(withdrawn, of) = Total(withdrawn, gone)
    BY <1>2, <1>3, <1>6, TotalOnPart
  <2>2. Total(withdrawn, gone) = Cardinality(gone)
    BY <1>2, <1>3, <1>6, TotalOfOnes
  <2> QED BY <2>1, <2>2
<1>11. Cardinality(rated) = Total(HeardRating, of)
  <2>1. Total(HeardRating, of) = Total(HeardRating, rated)
    BY <1>2, <1>3, <1>7, TotalOnPart
  <2>2. Total(HeardRating, rated) = Cardinality(rated)
    BY <1>2, <1>3, <1>7, TotalOfOnes
  <2> QED BY <2>1, <2>2
<1>12. SumOver(value, rated) = Total(HeardValue, of)
  <2>1. SumOver(value, rated) = Total(value, rated)
    BY <1>2, SumOverIsTotal
  <2>2. /\ \A r \in rated : HeardValue[r] = value[r] /\ HeardValue[r] \in Int
        /\ \A r \in of \ rated : HeardValue[r] = 0
    BY <1>3, <1>5, <1>8
  <2>3. Total(HeardValue, of) = Total(value, rated)
    BY <1>2, <1>3, <2>2, TotalOnPart
  <2> QED BY <2>1, <2>3
<1> QED BY <1>1, <1>9, <1>10, <1>11, <1>12 DEF of

\* The groups together are all the signals there are.
LEMMA AllGroups ==
  ASSUME SInv, NEW v, \A r \in Source : v[r] \in Int,
         \A r \in Source : signal[r].status = "none" => v[r] = 0,
         NEW w, \A kind \in Kind : w[kind] = Total(v, SignalsOf(kind))
  PROVE  SumOver(w, Kind) = Total(v, Source)
<1> DEFINE M == {r \in Source : signal[r].status # "none"}
           g == [r \in M |-> signal[r].kind]
<1>1. M \subseteq Source /\ \A r \in M : g[r] \in Kind
  BY DEF SInv, STypeOK, SignalRow
<1>2. ASSUME NEW kind \in Kind PROVE w[kind] = Total(v, {r \in M : g[r] = kind})
  <2>1. {r \in M : g[r] = kind} = SignalsOf(kind)
    BY DEF SignalsOf
  <2> QED BY <2>1
<1>3. \A r \in Source \ M : v[r] = 0
  OBVIOUS
<1> HIDE DEF M, g
<1>4. IsFiniteSet(M) /\ \A r \in M : v[r] \in Int
  BY <1>1, FS_Subset, SourceAssumption
<1>5. Total(w, Kind) = Total(v, M)
  BY <1>1, <1>2, <1>4, KindsFinite, TotalByGroup
<1>6. Total(v, Source) = Total(v, M)
  BY <1>1, <1>3, <1>4, SourceAssumption, TotalOnPart
<1> QED BY <1>5, <1>6, KindsFinite, SumOverIsTotal

\* ListenersAgree: whatever was delivered twice, crossed or failed half way, for any
\* signals, a listener that sums what was announced arrives at the derived standing.
THEOREM Listening == SSpec => []ListenersAgree
<1>1. SInv => ListenersAgree
  <2> SUFFICES ASSUME SInv PROVE ListenersAgree
    OBVIOUS
  <2> DEFINE group == [kind \in Kind |-> KindGroup(kind)]
             rated == {r \in Source : signal[r].kind = RatedKind}
             n1 == [kind \in Kind |-> group[kind].standing + group[kind].retracted]
             n2 == [kind \in Kind |-> group[kind].retracted]
             n3 == [kind \in Kind |-> group[kind].sum]
             n4 == [kind \in Kind |-> group[kind].ratings]
  <2>1. /\ DeriveStanding.signals = SumOver(n1, Kind)
        /\ DeriveStanding.retracted = SumOver(n2, Kind)
        /\ DeriveStanding.sum = SumOver(n3, Kind)
        /\ DeriveStanding.ratings = SumOver(n4, Kind)
    BY DEF DeriveStanding
  <2>2. \A kind \in Kind : /\ n1[kind] = Total(announced, SignalsOf(kind))
                           /\ n2[kind] = Total(withdrawn, SignalsOf(kind))
                           /\ n3[kind] = Total(HeardValue, SignalsOf(kind))
                           /\ n4[kind] = Total(HeardRating, SignalsOf(kind))
    BY GroupHeard
  <2>3. rated \subseteq Source /\ \A r \in Source : r \in rated <=> signal[r].kind = RatedKind
    OBVIOUS
  <2> HIDE DEF n1, n2, n3, n4, group, rated
  <2>4. \A r \in Source : /\ announced[r] \in Int /\ withdrawn[r] \in Int
                          /\ HeardValue[r] \in Int /\ HeardRating[r] \in Int
                          /\ signal[r].status = "none" =>
                               /\ announced[r] = 0 /\ withdrawn[r] = 0
                               /\ HeardValue[r] = 0 /\ HeardRating[r] = 0
    BY HeardOf DEF SInv, SignalsHeard, Stands
  <2>5. SumOver(n1, Kind) = Total(announced, Source)
    BY <2>2, <2>4, AllGroups
  <2>6. SumOver(n2, Kind) = Total(withdrawn, Source)
    BY <2>2, <2>4, AllGroups
  <2>7. SumOver(n3, Kind) = Total(HeardValue, Source)
    BY <2>2, <2>4, AllGroups
  <2>8. SumOver(n4, Kind) = Total(HeardRating, Source)
    BY <2>2, <2>4, AllGroups
  <2>9. Total(HeardRating, Source) = Total(Heard, rated)
    <3>1. /\ \A r \in rated : HeardRating[r] = Heard[r] /\ HeardRating[r] \in Int
          /\ \A r \in Source \ rated : HeardRating[r] = 0
      BY <2>3, <2>4, HeardOf
    <3> QED BY <2>3, <3>1, SourceAssumption, TotalOnPart
  <2>10. /\ SumOver(announced, Source) = Total(announced, Source)
         /\ SumOver(withdrawn, Source) = Total(withdrawn, Source)
         /\ SumOver(HeardValue, Source) = Total(HeardValue, Source)
         /\ SumOver(Heard, rated) = Total(Heard, rated)
    BY <2>3, FS_Subset, SourceAssumption, SumOverIsTotal
  <2>11. HeardValue = [r \in Source |-> Heard[r] * signal[r].value]
    BY DEF HeardValue, Heard
  <2>12. /\ DeriveStanding.signals = SumOver(announced, Source)
         /\ DeriveStanding.retracted = SumOver(withdrawn, Source)
         /\ DeriveStanding.sum = SumOver([r \in Source |-> Heard[r] * signal[r].value], Source)
         /\ DeriveStanding.ratings = SumOver(Heard, rated)
    BY <2>1, <2>5, <2>6, <2>7, <2>8, <2>9, <2>10, <2>11
  <2> QED BY <2>12 DEF ListenersAgree, Heard, rated
<1> QED BY <1>1, SignalsStart, SignalsKept, PTL DEF SSpec

-----------------------------------------------------------------------------
(* The retry record of a keyed request. *)

\* A server that holds a claim, or had it taken away, and has not answered yet.
Working(s) == serving[s] # NoRequest /\ serving[s].step \in {"run", "complete", "release"}

Running(k) == {s \in Server : serving[s] # NoRequest /\ serving[s].step = "run" /\ serving[s].key = k}

RowsFit ==
  /\ record \in [RetryKey -> RetryRecordRow]
  /\ serving \in [Server -> Serving \union {NoRequest}]
  /\ hits \in 0..HitLimit
  /\ replays \subseteq [asked : Fingerprint, given : Fingerprint]
  /\ effects \in [RetryKey -> Nat]
  /\ grants \in 0..MaxClaims
  /\ worked \in [Server -> 0..Horizon]
  /\ done \in [RetryKey -> BOOLEAN]
  /\ excuses \in [RetryKey -> Nat]

\* The server whose token a claim carries sent the request that the record names,
\* and unless its handler succeeded the work is not done.
OwnerFits(s) ==
  Working(s) /\ Owns(record[serving[s].key], serving[s].token) =>
    /\ record[serving[s].key].fingerprint = serving[s].fingerprint
    /\ serving[s].step \in {"run", "release"} => done[serving[s].key] = FALSE

\* Nobody takes a claim over before the horizon: a handler that is within it still
\* owns its record, which is as old as the handler has run.
InTime(s) ==
  serving[s] # NoRequest /\ serving[s].step = "run" /\ worked[s] < Horizon =>
    /\ Owns(record[serving[s].key], serving[s].token)
    /\ record[serving[s].key].age = worked[s]

ClaimsSound ==
  /\ \A s \in Server : OwnerFits(s)
  /\ \A s \in Server : InTime(s)
  /\ \A k \in RetryKey : record[k].state = "absent" => done[k] = FALSE
  /\ \A s, t \in Server : s # t /\ Working(s) /\ Working(t) => serving[s].token # serving[t].token
  /\ \A k \in RetryKey : record[k].state = "completed" => record[k].answer = record[k].fingerprint
  /\ ReplayAnswersItsRequest

\* Every time the work was done is the one the record stands for or is excused, and
\* every one of them, and every handler still to run, has a grant of its own.
WorkTally ==
  \A k \in RetryKey :
    /\ effects[k] = excuses[k] + (IF done[k] = TRUE THEN 1 ELSE 0)
    /\ effects[k] + Cardinality(Running(k)) <= grants

RInv == RowsFit /\ ClaimsSound /\ WorkTally

LEMMA RunnersCounted ==
  ASSUME NEW k
  PROVE  IsFiniteSet(Running(k)) /\ Cardinality(Running(k)) \in Nat
<1>1. Running(k) \subseteq Server
  BY DEF Running
<1>2. IsFiniteSet(Running(k))
  BY <1>1, FS_Subset, RetryAssumption
<1> QED BY <1>2, FS_CardinalityType

LEMMA RunnersFewer ==
  ASSUME NEW k, Running(k)' \subseteq Running(k)
  PROVE  Cardinality(Running(k))' <= Cardinality(Running(k)) /\ Cardinality(Running(k))' \in Nat
<1> DEFINE A == Running(k)
           B == Running(k)'
<1>1. IsFiniteSet(A)
  BY RunnersCounted
<1> HIDE DEF A, B
<1>2. B \subseteq A
  BY DEF A, B
<1>3. IsFiniteSet(B) /\ Cardinality(B) <= Cardinality(A)
  BY <1>1, <1>2, FS_Subset
<1>4. Cardinality(B) \in Nat
  BY <1>3, FS_CardinalityType
<1> QED BY <1>3, <1>4 DEF A, B

LEMMA RetryStart == RInit => RInv
<1> SUFFICES ASSUME RInit PROVE RInv
  OBVIOUS
<1>1. Absent \in RetryRecordRow /\ Absent.state = "absent"
  BY RetryAssumption DEF Absent, RetryRecordRow
<1>2. record \in [RetryKey -> RetryRecordRow] /\ \A k \in RetryKey : record[k] = Absent
  BY <1>1 DEF RInit
<1>3. RowsFit
  BY <1>2, RetryAssumption DEF RInit, RowsFit
<1>4. ClaimsSound
  <2>1. \A s \in Server : ~Working(s)
    BY DEF RInit, Working
  <2> QED BY <1>1, <1>2, <2>1 DEF RInit, ClaimsSound, OwnerFits, InTime, ReplayAnswersItsRequest
<1>5. WorkTally
  <2>1. \A k \in RetryKey : Running(k) = {}
    BY DEF RInit, Running
  <2>2. Cardinality({}) = 0
    BY FS_EmptySet
  <2> QED BY <2>1, <2>2 DEF RInit, WorkTally
<1> QED BY <1>3, <1>4, <1>5 DEF RInv

\* There is a token that no record and no server has: there are more tokens than
\* either can hold.
LEMMA FreshTokenIsFresh ==
  ASSUME RowsFit
  PROVE  /\ FreshToken \in ClaimToken
         /\ \A k \in RetryKey : record[k].token # FreshToken
         /\ \A s \in Server : serving[s] # NoRequest => serving[s].token # FreshToken
<1> DEFINE f == [k \in RetryKey |-> record[k].token]
           F == {f[k] : k \in RetryKey}
           g == [s \in Server |-> serving[s].token]
           G == {g[s] : s \in Server}
<1>1. IsFiniteSet(F) /\ Cardinality(F) <= Cardinality(RetryKey)
  <2>1. f \in Surjection(RetryKey, F)
    BY DEF Surjection
  <2> QED BY <2>1, FS_Surjection, RetryAssumption
<1>2. IsFiniteSet(G) /\ Cardinality(G) <= Cardinality(Server)
  <2>1. g \in Surjection(Server, G)
    BY DEF Surjection
  <2> QED BY <2>1, FS_Surjection, RetryAssumption
<1>3. IsFiniteSet(F \union G) /\ Cardinality(F \union G) <= Cardinality(RetryKey) + Cardinality(Server)
  <2> HIDE DEF F, G
  <2>1. /\ IsFiniteSet(F \cup G)
        /\ Cardinality(F \cup G) = Cardinality(F) + Cardinality(G) - Cardinality(F \cap G)
    BY <1>1, <1>2, FS_Union
  <2>2. IsFiniteSet(F \cap G)
    BY <1>1, FS_Intersection
  <2>3. /\ Cardinality(F) \in Nat /\ Cardinality(G) \in Nat /\ Cardinality(F \cap G) \in Nat
        /\ Cardinality(RetryKey) \in Nat /\ Cardinality(Server) \in Nat
    BY <1>1, <1>2, <2>2, FS_CardinalityType, RetryAssumption
  <2> QED BY <1>1, <1>2, <2>1, <2>3
<1>4. \E t \in ClaimToken : t \notin F \union G
  <2> SUFFICES ASSUME ClaimToken \subseteq F \union G PROVE FALSE
    OBVIOUS
  <2> HIDE DEF F, G
  <2>1. Cardinality(ClaimToken) <= Cardinality(F \union G)
    BY <1>3, FS_Subset
  <2>2. /\ Cardinality(F \union G) \in Nat /\ Cardinality(ClaimToken) \in Nat
        /\ Cardinality(RetryKey) \in Nat /\ Cardinality(Server) \in Nat
    BY <1>3, FS_CardinalityType, RetryAssumption
  <2> QED BY <1>3, <2>1, <2>2, RetryAssumption
<1>5. \E t \in ClaimToken :
        /\ \A k \in RetryKey : record[k].token # t
        /\ \A s \in Server : serving[s] # NoRequest => serving[s].token # t
  BY <1>4
<1> QED BY <1>5 DEF FreshToken

\* One server moves.
LEMMA ServerMoves ==
  ASSUME RowsFit, NEW s \in Server, NEW new \in Serving \union {NoRequest},
         serving' = [serving EXCEPT ![s] = new]
  PROVE  /\ serving' \in [Server -> Serving \union {NoRequest}]
         /\ serving'[s] = new
         /\ \A t \in Server : t # s => serving'[t] = serving[t]
BY DEF RowsFit

\* What a server may become without a claim: nothing, or a request with no claim, or
\* the same request with its handler behind it.
Onwards(s, new) ==
  \/ new = NoRequest
  \/ new.step \in {"claim", "find"}
  \/ /\ serving[s] # NoRequest /\ serving[s].step = "run"
     /\ new.step \in {"complete", "release"}
     /\ new.key = serving[s].key /\ new.token = serving[s].token
     /\ new.fingerprint = serving[s].fingerprint

LEMMA NobodyNewRuns ==
  ASSUME RowsFit, NEW s \in Server, NEW new \in Serving \union {NoRequest},
         serving' = [serving EXCEPT ![s] = new], Onwards(s, new), NEW k
  PROVE  Running(k)' \subseteq Running(k)
<1>1. /\ serving'[s] = new
      /\ \A t \in Server : t # s => serving'[t] = serving[t]
  BY ServerMoves
<1>2. new # NoRequest => new.step # "run"
  BY DEF Onwards
<1> QED BY <1>1, <1>2 DEF Running

\* Rows that stay, or that their owner gives up, keep their owners.
LEMMA OwnersStay ==
  ASSUME RowsFit, ClaimsSound, NEW s \in Server, NEW new \in Serving \union {NoRequest},
         serving' = [serving EXCEPT ![s] = new], Onwards(s, new), UNCHANGED <<worked, done>>,
         \A k \in RetryKey :
           \/ record'[k] = record[k]
           \/ /\ Working(s) /\ Owns(record[k], serving[s].token)
              /\ record'[k].state # "claimed"
  PROVE  /\ \A x \in Server : OwnerFits(x)' /\ InTime(x)'
         /\ \A x, y \in Server : x # y /\ Working(x)' /\ Working(y)'
              => serving'[x].token # serving'[y].token
<1>1. /\ serving'[s] = new
      /\ \A t \in Server : t # s => serving'[t] = serving[t]
  BY ServerMoves
<1>2. \A x \in Server : Working(x)' =>
        /\ Working(x) /\ serving[x] \in Serving
        /\ serving'[x].key = serving[x].key /\ serving'[x].token = serving[x].token
        /\ serving'[x].fingerprint = serving[x].fingerprint
        /\ serving'[x].step = "run" => serving[x].step = "run" /\ x # s
        /\ serving'[x].step = "release" => serving[x].step \in {"run", "release"}
  <2> SUFFICES ASSUME NEW x \in Server, Working(x)'
        PROVE /\ Working(x) /\ serving[x] \in Serving
              /\ serving'[x].key = serving[x].key /\ serving'[x].token = serving[x].token
              /\ serving'[x].fingerprint = serving[x].fingerprint
              /\ serving'[x].step = "run" => serving[x].step = "run" /\ x # s
              /\ serving'[x].step = "release" => serving[x].step \in {"run", "release"}
    OBVIOUS
  <2>1. CASE x = s
    BY <1>1, <2>1 DEF Working, Onwards, RowsFit
  <2>2. CASE x # s
    BY <1>1, <2>2 DEF Working, RowsFit
  <2> QED BY <2>1, <2>2
<1>3. ASSUME NEW x \in Server PROVE OwnerFits(x)'
  <2> SUFFICES ASSUME Working(x)', Owns(record'[serving'[x].key], serving'[x].token)
        PROVE /\ record'[serving'[x].key].fingerprint = serving'[x].fingerprint
              /\ serving'[x].step \in {"run", "release"} => done'[serving'[x].key] = FALSE
    BY DEF OwnerFits, Owns
  <2>1. serving[x].key \in RetryKey
    BY <1>2 DEF Serving
  <2>2. OwnerFits(x)
    BY DEF ClaimsSound
  <2>3. record'[serving[x].key] = record[serving[x].key]
    BY <1>2, <2>1 DEF Owns
  <2> QED BY <1>2, <2>1, <2>2, <2>3 DEF OwnerFits
<1>4. ASSUME NEW x \in Server, NEW y \in Server, x # y, Working(x)', Working(y)'
      PROVE  serving'[x].token # serving'[y].token
  BY <1>2, <1>4 DEF ClaimsSound
<1>5. ASSUME NEW x \in Server PROVE InTime(x)'
  <2> SUFFICES ASSUME serving'[x] # NoRequest, serving'[x].step = "run", worked[x] < Horizon
        PROVE /\ Owns(record'[serving'[x].key], serving'[x].token)
              /\ record'[serving'[x].key].age = worked[x]
    BY DEF InTime, Owns
  <2>1. Working(x)'
    BY DEF Working
  <2>2. /\ Working(x) /\ serving[x] \in Serving /\ x # s /\ serving[x].step = "run"
        /\ serving'[x] = serving[x]
    BY <1>1, <1>2, <2>1
  <2>3. serving[x].key \in RetryKey
    BY <2>2 DEF Serving
  <2>4. /\ Owns(record[serving[x].key], serving[x].token)
        /\ record[serving[x].key].age = worked[x]
    BY <2>2 DEF ClaimsSound, InTime, Working
  <2>5. Working(s) => serving[x].token # serving[s].token
    BY <2>2 DEF ClaimsSound
  <2>6. record'[serving[x].key] = record[serving[x].key]
    BY <2>3, <2>4, <2>5 DEF Owns
  <2> QED BY <2>2, <2>4, <2>6
<1> QED BY <1>3, <1>4, <1>5

\* A server moves and nothing is written but a replay of a recorded answer.
LEMMA ReadOnlyStep ==
  ASSUME RInv, NEW s \in Server, NEW new \in Serving \union {NoRequest},
         serving' = [serving EXCEPT ![s] = new], Onwards(s, new),
         UNCHANGED <<record, effects, grants, worked, done, excuses>>, hits' \in 0..HitLimit,
         replays' \subseteq [asked : Fingerprint, given : Fingerprint],
         \A r \in replays' : r.asked = r.given
  PROVE  RInv'
<1>1. RowsFit'
  <2>1. serving' \in [Server -> Serving \union {NoRequest}]
    BY ServerMoves DEF RInv
  <2> QED BY <2>1 DEF RInv, RowsFit
<1>2. ClaimsSound'
  <2>1. /\ \A x \in Server : OwnerFits(x)' /\ InTime(x)'
        /\ \A x, y \in Server : x # y /\ Working(x)' /\ Working(y)'
             => serving'[x].token # serving'[y].token
    BY OwnersStay DEF RInv
  <2> QED BY <2>1 DEF RInv, ClaimsSound, ReplayAnswersItsRequest
<1>3. WorkTally'
  <2> SUFFICES ASSUME NEW k \in RetryKey
        PROVE /\ effects'[k] = excuses'[k] + (IF done'[k] = TRUE THEN 1 ELSE 0)
              /\ effects'[k] + Cardinality(Running(k))' <= grants'
    BY DEF WorkTally
  <2>1. Cardinality(Running(k))' <= Cardinality(Running(k)) /\ Cardinality(Running(k))' \in Nat
    BY NobodyNewRuns, RunnersFewer DEF RInv
  <2>2. Cardinality(Running(k)) \in Nat
    BY RunnersCounted
  <2>3. effects[k] \in Nat /\ grants \in Nat
    BY RetryAssumption DEF RInv, RowsFit
  <2> QED BY <2>1, <2>2, <2>3 DEF RInv, WorkTally
<1> QED BY <1>1, <1>2, <1>3 DEF RInv

LEMMA ReceiveKept ==
  ASSUME RInv, NEW s \in Server, NEW k \in RetryKey, NEW f \in Fingerprint, Receive(s, k, f)
  PROVE  RInv'
<1> DEFINE new == IF AllowedHit
                  THEN [step |-> "claim", key |-> k, fingerprint |-> f, token |-> Nobody]
                  ELSE NoRequest
<1>1. new \in Serving \union {NoRequest} /\ Onwards(s, new)
  BY DEF Serving, Onwards
<1>2. serving' = [serving EXCEPT ![s] = new]
  BY DEF Receive, RInv, RowsFit
<1>3. hits' \in 0..HitLimit
  BY RetryAssumption DEF Receive, AllowedHit, RInv, RowsFit
<1> HIDE DEF new
<1> QED BY <1>1, <1>2, <1>3, ReadOnlyStep
        DEF Receive, history, RInv, RowsFit, ClaimsSound, ReplayAnswersItsRequest

\* The request is answered and nothing written.
LEMMA AnsweredKept ==
  ASSUME RInv, NEW s \in Server, Answered(s),
         UNCHANGED <<record, hits, replays, effects, grants, worked, done, excuses>>
  PROVE  RInv'
<1>1. NoRequest \in Serving \union {NoRequest} /\ Onwards(s, NoRequest)
  BY DEF Onwards
<1> QED BY <1>1, ReadOnlyStep
        DEF Answered, RInv, RowsFit, ClaimsSound, ReplayAnswersItsRequest

\* The request goes on to a step that needs no claim it does not have.
LEMMA OnwardKept ==
  ASSUME RInv, NEW s \in Server, NEW step, serving[s] # NoRequest, Onward(s, step),
         \/ step = "find"
         \/ serving[s].step = "run" /\ step \in {"complete", "release"},
         UNCHANGED <<record, hits, replays, effects, grants, worked, done, excuses>>
  PROVE  RInv'
<1> DEFINE new == [serving[s] EXCEPT !.step = step]
<1>1. serving[s] \in Serving
  BY DEF RInv, RowsFit
<1>2. new \in Serving \union {NoRequest} /\ Onwards(s, new)
  BY <1>1 DEF Serving, Onwards
<1>3. serving' = [serving EXCEPT ![s] = new]
  BY DEF Onward
<1> HIDE DEF new
<1> QED BY <1>2, <1>3, ReadOnlyStep
        DEF RInv, RowsFit, ClaimsSound, ReplayAnswersItsRequest

LEMMA FindKept ==
  ASSUME RInv, NEW s \in Server, Find(s)
  PROVE  RInv'
<1> DEFINE r == Row(s)
           new == [asked |-> serving[s].fingerprint, given |-> r.answer]
           replayed == /\ r.state = "completed" /\ ~Expired(r)
                       /\ r.fingerprint = serving[s].fingerprint
<1>1. serving[s] \in Serving
  BY DEF Find, InStep, RInv, RowsFit
<1>2. r \in RetryRecordRow /\ serving[s].fingerprint \in Fingerprint /\ serving[s].key \in RetryKey
  BY <1>1 DEF Row, RInv, RowsFit, Serving
<1>3. replays' = IF replayed THEN replays \union {new} ELSE replays
  BY DEF Find
<1>4. replayed => r.answer = serving[s].fingerprint
  BY <1>2 DEF Row, RInv, ClaimsSound
<1>5. replayed => new \in [asked : Fingerprint, given : Fingerprint] /\ new.asked = new.given
  BY <1>2, <1>4
<1> HIDE DEF new, replayed, r
<1>6. replays' \subseteq [asked : Fingerprint, given : Fingerprint] /\ \A x \in replays' : x.asked = x.given
  BY <1>3, <1>5 DEF RInv, RowsFit, ClaimsSound, ReplayAnswersItsRequest
<1>7. NoRequest \in Serving \union {NoRequest} /\ Onwards(s, NoRequest)
  BY DEF Onwards
<1> QED BY <1>6, <1>7, ReadOnlyStep DEF Find, Answered, history, RInv, RowsFit

LEMMA ClaimWonKept ==
  ASSUME RInv, NEW s \in Server, ClaimWon(s)
  PROVE  RInv'
<1> DEFINE k == serving[s].key
           t == FreshToken
           row == [state |-> "claimed", fingerprint |-> serving[s].fingerprint, token |-> t,
                   age |-> 0, answer |-> Nobody]
           ran == [serving[s] EXCEPT !.step = "run", !.token = t]
<1>1. serving[s] \in Serving /\ serving[s] # NoRequest /\ serving[s].step = "claim"
  BY DEF ClaimWon, InStep, RInv, RowsFit
<1>2. k \in RetryKey /\ serving[s].fingerprint \in Fingerprint
  BY <1>1 DEF Serving
<1>3. /\ t \in ClaimToken
      /\ \A x \in RetryKey : record[x].token # t
      /\ \A x \in Server : serving[x] # NoRequest => serving[x].token # t
  BY FreshTokenIsFresh DEF RInv
<1>4. /\ ran \in Serving /\ ran.step = "run" /\ ran.key = k /\ ran.token = t
      /\ ran.fingerprint = serving[s].fingerprint
  BY <1>1, <1>3 DEF Serving
<1>5. /\ row \in RetryRecordRow /\ row.token = t /\ row.state = "claimed"
      /\ row.fingerprint = serving[s].fingerprint
  BY <1>2, <1>3, RetryAssumption DEF RetryRecordRow
<1>6. record' = [record EXCEPT ![k] = row]
  BY DEF ClaimWon
<1>7. \/ serving' = [serving EXCEPT ![s] = ran]
      \/ serving' = [serving EXCEPT ![s] = NoRequest]
  BY <1>1 DEF ClaimWon, Answered
<1>8. done' = [done EXCEPT ![k] = FALSE]
      /\ excuses' = [excuses EXCEPT ![k] = IF done[k] THEN @ + 1 ELSE @]
  <2> DEFINE why == Lapsed(record[k])
  <2>1. done' = [done EXCEPT ![k] = @ /\ ~why]
        /\ excuses' = [excuses EXCEPT ![k] = IF done[k] /\ why THEN @ + 1 ELSE @]
    BY DEF ClaimWon, ExcuseRepeat, Row
  <2>2. Free(record[k])
    BY DEF ClaimWon, Row
  <2>3. record[k] \in RetryRecordRow
    BY <1>2 DEF RInv, RowsFit
  <2>4. why \/ record[k].state = "absent"
    BY <2>2, <2>3, RetryAssumption DEF Free, Expired, Abandoned, Lapsed, RetryRecordRow
  <2>5. record[k].state = "absent" => done[k] = FALSE
    BY <1>2 DEF RInv, ClaimsSound
  <2>6. done[k] \in BOOLEAN /\ why \in BOOLEAN
    BY <1>2 DEF Lapsed, RInv, RowsFit
  <2> HIDE DEF why, k
  <2>7. (done[k] /\ ~why) = FALSE /\ (done[k] /\ why) = done[k]
    BY <2>4, <2>5, <2>6
  <2> QED BY <2>1, <2>7
<1>9. /\ grants' = grants + 1 /\ grants < MaxClaims /\ UNCHANGED <<hits, replays, effects>>
      /\ worked' = [worked EXCEPT ![s] = 0]
  BY DEF ClaimWon
<1>9a. \A x \in Server : x # s /\ serving[x] # NoRequest /\ serving[x].step = "run" /\ worked[x] < Horizon
         => serving[x].key # k
  <2> SUFFICES ASSUME NEW x \in Server, serving[x] # NoRequest, serving[x].step = "run",
                      worked[x] < Horizon, serving[x].key = k
        PROVE FALSE
    OBVIOUS
  <2>1. record[k].state = "claimed" /\ record[k].age = worked[x]
    BY DEF RInv, ClaimsSound, InTime, Owns
  <2>2. worked[x] \in 0..Horizon
    BY DEF RInv, RowsFit
  <2>3. Free(record[k])
    BY DEF ClaimWon, Row
  <2> QED BY <2>1, <2>2, <2>3, RetryAssumption DEF Free, Expired, Abandoned
<1> HIDE DEF k, t, row, ran
<1>10. /\ serving' \in [Server -> Serving \union {NoRequest}]
       /\ serving'[s] \in {ran, NoRequest}
       /\ \A x \in Server : x # s => serving'[x] = serving[x]
  BY <1>4, <1>7, ServerMoves DEF RInv
<1>11. excuses' \in [RetryKey -> Nat]
  <2>1. \A n \in Nat : n + 1 \in Nat
    OBVIOUS
  <2> QED BY <1>2, <1>8, <2>1 DEF RInv, RowsFit
<1>12. RowsFit'
  <2>1. grants' \in 0..MaxClaims
    BY <1>9, RetryAssumption DEF RInv, RowsFit
  <2>2. record' \in [RetryKey -> RetryRecordRow]
    BY <1>2, <1>5, <1>6 DEF RInv, RowsFit
  <2>3. done' \in [RetryKey -> BOOLEAN]
    BY <1>2, <1>8 DEF RInv, RowsFit
  <2>4. worked' \in [Server -> 0..Horizon]
    BY <1>9, RetryAssumption DEF RInv, RowsFit
  <2> QED BY <1>9, <1>10, <1>11, <2>1, <2>2, <2>3, <2>4 DEF RInv, RowsFit
<1>13. record'[k] = row /\ \A x \in RetryKey : x # k => record'[x] = record[x]
  BY <1>2, <1>6 DEF RInv, RowsFit
<1>14. done'[k] = FALSE /\ \A x \in RetryKey : x # k => done'[x] = done[x] /\ excuses'[x] = excuses[x]
  BY <1>2, <1>8 DEF RInv, RowsFit
<1>15. ClaimsSound'
  <2>1. ASSUME NEW x \in Server PROVE OwnerFits(x)'
    <3> SUFFICES ASSUME Working(x)', Owns(record'[serving'[x].key], serving'[x].token)
          PROVE /\ record'[serving'[x].key].fingerprint = serving'[x].fingerprint
                /\ serving'[x].step \in {"run", "release"} => done'[serving'[x].key] = FALSE
      BY DEF OwnerFits, Owns
    <3>1. CASE x = s
      <4>1. serving'[x] = ran
        BY <1>10, <3>1 DEF Working
      <4> QED BY <1>4, <1>5, <1>13, <1>14, <4>1
    <3>2. CASE x # s
      <4>1. serving'[x] = serving[x] /\ Working(x) /\ serving[x] \in Serving
        BY <1>10, <3>2 DEF Working, RInv, RowsFit
      <4>2. serving[x].key \in RetryKey /\ serving[x].token # t
        BY <1>3, <4>1 DEF Serving, Working
      <4>3. serving[x].key # k
        BY <1>5, <1>13, <4>1, <4>2 DEF Owns
      <4>4. OwnerFits(x)
        BY DEF RInv, ClaimsSound
      <4> QED BY <1>13, <1>14, <4>1, <4>2, <4>3, <4>4 DEF OwnerFits
    <3> QED BY <3>1, <3>2
  <2>2. ASSUME NEW x \in Server, NEW y \in Server, x # y, Working(x)', Working(y)'
        PROVE  serving'[x].token # serving'[y].token
    <3>1. \A z \in Server : z # s /\ Working(z)' => Working(z) /\ serving'[z] = serving[z] /\ serving[z].token # t
      BY <1>3, <1>10 DEF Working
    <3>2. Working(s)' => serving'[s].token = t
      BY <1>4, <1>10 DEF Working
    <3> QED BY <2>2, <3>1, <3>2 DEF RInv, ClaimsSound
  <2>3. ASSUME NEW x \in RetryKey, record'[x].state = "completed"
        PROVE  record'[x].answer = record'[x].fingerprint
    BY <1>5, <1>13, <2>3 DEF RInv, ClaimsSound
  <2>4. ASSUME NEW x \in Server PROVE InTime(x)'
    <3> SUFFICES ASSUME serving'[x] # NoRequest, serving'[x].step = "run", worked'[x] < Horizon
          PROVE /\ Owns(record'[serving'[x].key], serving'[x].token)
                /\ record'[serving'[x].key].age = worked'[x]
      BY DEF InTime, Owns
    <3>1. CASE x = s
      <4>1. serving'[x] = ran /\ worked'[x] = 0
        BY <1>9, <1>10, <3>1 DEF RInv, RowsFit
      <4>2. row.age = 0
        BY DEF row
      <4> QED BY <1>4, <1>5, <1>13, <4>1, <4>2 DEF Owns
    <3>2. CASE x # s
      <4>1. serving'[x] = serving[x] /\ worked'[x] = worked[x] /\ serving[x] \in Serving
        BY <1>9, <1>10, <3>2 DEF RInv, RowsFit
      <4>2. serving[x].key # k /\ serving[x].key \in RetryKey
        BY <1>9a, <3>2, <4>1 DEF Serving
      <4> QED BY <1>13, <4>1, <4>2 DEF RInv, ClaimsSound, InTime
    <3> QED BY <3>1, <3>2
  <2>5. \A x \in RetryKey : record'[x].state = "absent" => done'[x] = FALSE
    BY <1>5, <1>13, <1>14 DEF RInv, ClaimsSound
  <2> QED BY <1>9, <2>1, <2>2, <2>3, <2>4, <2>5 DEF RInv, ClaimsSound, ReplayAnswersItsRequest
<1>16. WorkTally'
  <2> SUFFICES ASSUME NEW x \in RetryKey
        PROVE /\ effects'[x] = excuses'[x] + (IF done'[x] = TRUE THEN 1 ELSE 0)
              /\ effects'[x] + Cardinality(Running(x))' <= grants'
    BY DEF WorkTally
  <2>1. /\ effects[x] \in Nat /\ excuses[x] \in Nat /\ grants \in Nat /\ done[x] \in BOOLEAN
        /\ effects[x] = excuses[x] + (IF done[x] = TRUE THEN 1 ELSE 0)
        /\ effects[x] + Cardinality(Running(x)) <= grants
    BY RetryAssumption DEF RInv, RowsFit, WorkTally
  <2>2. effects'[x] = excuses'[x] + (IF done'[x] = TRUE THEN 1 ELSE 0)
    <3>1. CASE x = k
      <4>1. excuses'[x] = IF done[x] = TRUE THEN excuses[x] + 1 ELSE excuses[x]
        BY <1>8, <3>1, <2>1 DEF RInv, RowsFit
      <4> QED BY <1>9, <1>14, <2>1, <3>1, <4>1
    <3>2. CASE x # k
      BY <1>9, <1>14, <2>1, <3>2
    <3> QED BY <3>1, <3>2
  <2>3. Cardinality(Running(x))' <= Cardinality(Running(x)) + 1 /\ Cardinality(Running(x))' \in Nat
    <3> DEFINE A == Running(x)
               B == Running(x)'
    <3>1. B \subseteq A \union {s}
      BY <1>10 DEF Running
    <3>2. IsFiniteSet(A) /\ Cardinality(A) \in Nat
      BY RunnersCounted
    <3> HIDE DEF A, B
    <3>3. /\ IsFiniteSet(A \union {s})
          /\ Cardinality(A \union {s}) = IF s \in A THEN Cardinality(A) ELSE Cardinality(A) + 1
      BY <3>2, FS_AddElement
    <3>4. IsFiniteSet(B) /\ Cardinality(B) <= Cardinality(A \union {s})
      BY <3>1, <3>3, FS_Subset
    <3>5. Cardinality(B) \in Nat /\ Cardinality(A \union {s}) \in Nat
      BY <3>3, <3>4, FS_CardinalityType
    <3>6. Cardinality(B) <= Cardinality(A) + 1
      BY <3>2, <3>3, <3>4, <3>5
    <3> QED BY <3>5, <3>6 DEF A, B
  <2>4. Cardinality(Running(x)) \in Nat
    BY RunnersCounted
  <2>5. effects'[x] = effects[x]
    BY <1>9
  <2> QED BY <1>9, <2>1, <2>2, <2>3, <2>4, <2>5
<1> QED BY <1>12, <1>15, <1>16 DEF RInv

\* The work is done, and the handler is behind the server.
LEMMA WorkKept ==
  ASSUME RInv, NEW s \in Server, InStep(s, "run"), NEW broke \in BOOLEAN, DoWork(s, broke),
         NEW step \in {"complete", "release"}, step = "release" => broke = TRUE,
         Onward(s, step), UNCHANGED <<record, hits, replays, grants, worked>>
  PROVE  RInv'
<1> DEFINE k == serving[s].key
           mine == ~(broke \/ Overdue(s))
           new == [serving[s] EXCEPT !.step = step]
<1>1. serving[s] \in Serving /\ serving[s] # NoRequest /\ serving[s].step = "run"
  BY DEF InStep, RInv, RowsFit
<1>2. k \in RetryKey /\ Working(s)
  BY <1>1 DEF Serving, Working
<1>3. /\ new \in Serving /\ new.step = step /\ new.key = k /\ new.token = serving[s].token
      /\ new.fingerprint = serving[s].fingerprint
  BY <1>1 DEF Serving
<1>4. Onwards(s, new) /\ serving' = [serving EXCEPT ![s] = new]
  BY <1>1, <1>3 DEF Onwards, Onward
<1>5. /\ effects' = [effects EXCEPT ![k] = effects[k] + 1]
      /\ done' = [done EXCEPT ![k] = done[k] \/ mine]
      /\ excuses' = [excuses EXCEPT ![k] = IF mine THEN excuses[k] ELSE excuses[k] + 1]
  BY <1>2 DEF DoWork, RInv, RowsFit
<1>5a. mine => Owns(record[k], serving[s].token) /\ broke = FALSE
  <2>1. mine => worked[s] < Horizon
    BY RetryAssumption DEF Overdue, RInv, RowsFit
  <2> QED BY <1>1, <2>1 DEF RInv, ClaimsSound, InTime
<1>6. Owns(record[k], serving[s].token) => done[k] = FALSE
  BY <1>1, <1>2 DEF RInv, ClaimsSound, OwnerFits
<1>7. mine \in BOOLEAN
  OBVIOUS
<1>8. /\ serving' \in [Server -> Serving \union {NoRequest}] /\ serving'[s] = new
      /\ \A t \in Server : t # s => serving'[t] = serving[t]
  BY <1>3, <1>4, ServerMoves DEF RInv
<1>9. \A x \in Server : x # s /\ Working(x) => serving[x].token # serving[s].token
  BY <1>2 DEF RInv, ClaimsSound
<1>10. mine => record[k].token = serving[s].token /\ record[k].state = "claimed"
  BY <1>5a DEF Owns
<1> HIDE DEF mine, new, k
<1>11. effects[k] \in Nat /\ excuses[k] \in Nat /\ done[k] \in BOOLEAN
  BY <1>2 DEF RInv, RowsFit
<1>12. /\ effects'[k] = effects[k] + 1 /\ effects' \in [RetryKey -> Nat]
       /\ \A x \in RetryKey : x # k => effects'[x] = effects[x]
  <2> DEFINE n == effects[k] + 1
  <2>1. n \in Nat
    BY <1>11
  <2> HIDE DEF n
  <2>2. effects' = [effects EXCEPT ![k] = n]
    BY <1>5 DEF n
  <2>3. /\ effects'[k] = n /\ effects' \in [RetryKey -> Nat]
        /\ \A x \in RetryKey : x # k => effects'[x] = effects[x]
    BY <1>2, <2>1, <2>2 DEF RInv, RowsFit
  <2> QED BY <2>3 DEF n
<1>13. /\ excuses'[k] = (IF mine THEN excuses[k] ELSE excuses[k] + 1)
       /\ excuses' \in [RetryKey -> Nat]
       /\ \A x \in RetryKey : x # k => excuses'[x] = excuses[x]
  <2> DEFINE n == IF mine THEN excuses[k] ELSE excuses[k] + 1
  <2>1. n \in Nat
    BY <1>11
  <2> HIDE DEF n
  <2>2. excuses' = [excuses EXCEPT ![k] = n]
    BY <1>5 DEF n
  <2>3. /\ excuses'[k] = n /\ excuses' \in [RetryKey -> Nat]
        /\ \A x \in RetryKey : x # k => excuses'[x] = excuses[x]
    BY <1>2, <2>1, <2>2 DEF RInv, RowsFit
  <2> QED BY <2>3 DEF n
<1>14. /\ done'[k] = (done[k] \/ mine) /\ done' \in [RetryKey -> BOOLEAN]
       /\ \A x \in RetryKey : x # k => done'[x] = done[x]
  BY <1>2, <1>5, <1>7, <1>11 DEF RInv, RowsFit
<1>15. RowsFit'
  BY <1>8, <1>12, <1>13, <1>14 DEF RInv, RowsFit
<1>16. ClaimsSound'
  <2>1. ASSUME NEW x \in Server PROVE OwnerFits(x)'
    <3> SUFFICES ASSUME Working(x)', Owns(record[serving'[x].key], serving'[x].token)
          PROVE /\ record[serving'[x].key].fingerprint = serving'[x].fingerprint
                /\ serving'[x].step \in {"run", "release"} => done'[serving'[x].key] = FALSE
      BY DEF OwnerFits, Owns
    <3>0. OwnerFits(x)
      BY DEF RInv, ClaimsSound
    <3>1. CASE x = s
      <4>1. serving'[x] = new
        BY <1>8, <3>1
      <4>2. Owns(record[k], serving[s].token)
        BY <1>3, <4>1
      <4>3. step = "release" => mine = FALSE
        BY <1>7, <1>5a
      <4>4. step = "release" => done'[k] = FALSE
        BY <1>6, <1>14, <4>2, <4>3
      <4> QED BY <1>2, <1>3, <3>0, <3>1, <4>1, <4>4 DEF OwnerFits, k
    <3>2. CASE x # s
      <4>1. serving'[x] = serving[x] /\ Working(x) /\ serving[x] \in Serving
        BY <1>8, <3>2 DEF Working, RInv, RowsFit
      <4>2. serving[x].key \in RetryKey /\ serving[x].token # serving[s].token
        BY <1>9, <3>2, <4>1 DEF Serving
      <4>3. mine => serving[x].key # k
        BY <1>10, <4>1, <4>2 DEF Owns
      <4>4. done[serving[x].key] = FALSE => done'[serving[x].key] = FALSE
        BY <1>14, <4>2, <4>3, <1>7
      <4> QED BY <3>0, <4>1, <4>4 DEF OwnerFits
    <3> QED BY <3>1, <3>2
  <2>2. ASSUME NEW x \in Server, NEW y \in Server, x # y, Working(x)', Working(y)'
        PROVE  serving'[x].token # serving'[y].token
    <3>1. \A z \in Server : Working(z)' => Working(z) /\ serving'[z].token = serving[z].token
      BY <1>2, <1>3, <1>8 DEF Working
    <3> QED BY <2>2, <3>1 DEF RInv, ClaimsSound
  <2>3. \A x \in Server : InTime(x)'
    BY <1>3, <1>8 DEF RInv, ClaimsSound, InTime, Owns
  <2>4. ASSUME NEW x \in RetryKey, record[x].state = "absent" PROVE done'[x] = FALSE
    <3>1. done[x] = FALSE
      BY <2>4 DEF RInv, ClaimsSound
    <3>2. x = k => mine = FALSE
      BY <1>7, <1>10, <2>4
    <3> QED BY <1>14, <3>1, <3>2
  <2> QED BY <2>1, <2>2, <2>3, <2>4 DEF RInv, ClaimsSound, ReplayAnswersItsRequest
<1>17. WorkTally'
  <2> SUFFICES ASSUME NEW x \in RetryKey
        PROVE /\ effects'[x] = excuses'[x] + (IF done'[x] = TRUE THEN 1 ELSE 0)
              /\ effects'[x] + Cardinality(Running(x))' <= grants'
    BY DEF WorkTally
  <2>1. /\ effects[x] \in Nat /\ excuses[x] \in Nat /\ grants \in Nat /\ done[x] \in BOOLEAN
        /\ effects[x] = excuses[x] + (IF done[x] = TRUE THEN 1 ELSE 0)
        /\ effects[x] + Cardinality(Running(x)) <= grants
    BY RetryAssumption DEF RInv, RowsFit, WorkTally
  <2>2. /\ Cardinality(Running(x))' <= Cardinality(Running(x)) /\ Cardinality(Running(x))' \in Nat
        /\ Cardinality(Running(x)) \in Nat
    BY <1>3, <1>4, NobodyNewRuns, RunnersFewer, RunnersCounted DEF RInv
  <2>3. CASE x # k
    BY <1>12, <1>13, <1>14, <2>1, <2>2, <2>3
  <2>4. CASE x = k
    <3>1. effects'[x] = excuses'[x] + (IF done'[x] = TRUE THEN 1 ELSE 0)
      BY <1>6, <1>7, <1>11, <1>12, <1>13, <1>14, <1>5a, <2>1, <2>4
    <3>2. Cardinality(Running(x))' <= Cardinality(Running(x)) - 1
      <4> DEFINE A == Running(x)
                 B == Running(x)'
      <4>1. s \in A /\ B \subseteq A \ {s}
        BY <1>1, <1>3, <1>8, <2>4 DEF Running, k
      <4>2. IsFiniteSet(A) /\ Cardinality(A) \in Nat
        BY RunnersCounted
      <4> HIDE DEF A, B
      <4>3. /\ IsFiniteSet(A \ {s})
            /\ Cardinality(A \ {s}) = IF s \in A THEN Cardinality(A) - 1 ELSE Cardinality(A)
        BY <4>2, FS_RemoveElement
      <4>4. Cardinality(B) <= Cardinality(A \ {s})
        BY <4>1, <4>3, FS_Subset
      <4>5. Cardinality(B) <= Cardinality(A) - 1
        BY <4>1, <4>3, <4>4
      <4> QED BY <4>5 DEF A, B
    <3> QED BY <1>12, <2>1, <2>2, <2>4, <3>1, <3>2
  <2> QED BY <2>3, <2>4
<1> QED BY <1>15, <1>16, <1>17 DEF RInv

\* The request is answered, and a row that its token owned is completed.
LEMMA CompleteKept ==
  ASSUME RInv, NEW s \in Server, CompleteClaim(s)
  PROVE  RInv'
<1> DEFINE k == serving[s].key
           f == serving[s].fingerprint
           row == [record[k] EXCEPT !.state = "completed", !.answer = f]
<1>1. serving[s] \in Serving /\ Working(s)
  BY DEF CompleteClaim, InStep, Working, RInv, RowsFit
<1>2. k \in RetryKey /\ f \in Fingerprint
  BY <1>1 DEF Serving
<1>3. CASE ~(Owns(Row(s), serving[s].token) /\ ~Expired(Row(s)))
  BY <1>3, AnsweredKept DEF CompleteClaim, history
<1>4. CASE Owns(Row(s), serving[s].token) /\ ~Expired(Row(s))
  <2>1. record[k].fingerprint = f
    BY <1>1, <1>4 DEF Row, RInv, ClaimsSound, OwnerFits
  <2>2. record[k] \in RetryRecordRow
    BY <1>2 DEF RInv, RowsFit
  <2>3. row \in RetryRecordRow /\ row.state = "completed" /\ row.answer = f /\ row.fingerprint = f
    BY <1>2, <2>1, <2>2 DEF RetryRecordRow
  <2>4. record' = [record EXCEPT ![k] = row]
    BY <1>2, <1>4 DEF CompleteClaim, Row, RInv, RowsFit
  <2>5. /\ serving' = [serving EXCEPT ![s] = NoRequest] /\ Onwards(s, NoRequest)
        /\ UNCHANGED <<hits, replays, effects, grants, worked, done, excuses>>
    BY DEF CompleteClaim, Answered, Onwards, history
  <2> HIDE DEF k, f, row
  <2>6. /\ record'[k] = row /\ \A x \in RetryKey : x # k => record'[x] = record[x]
        /\ record' \in [RetryKey -> RetryRecordRow]
    BY <1>2, <2>3, <2>4 DEF RInv, RowsFit
  <2>7. \A x \in RetryKey :
          \/ record'[x] = record[x]
          \/ /\ Working(s) /\ Owns(record[x], serving[s].token)
             /\ record'[x].state # "claimed"
    BY <1>1, <1>4, <2>3, <2>6 DEF Row, k
  <2>8. RowsFit'
    BY <2>5, <2>6, ServerMoves DEF RInv, RowsFit
  <2>9. /\ \A x \in Server : OwnerFits(x)' /\ InTime(x)'
        /\ \A x, y \in Server : x # y /\ Working(x)' /\ Working(y)'
             => serving'[x].token # serving'[y].token
    BY <2>5, <2>7, OwnersStay DEF RInv
  <2>10. ClaimsSound'
    BY <2>3, <2>5, <2>6, <2>9 DEF RInv, ClaimsSound, ReplayAnswersItsRequest
  <2>11. WorkTally'
    <3> SUFFICES ASSUME NEW x \in RetryKey
          PROVE /\ effects'[x] = excuses'[x] + (IF done'[x] = TRUE THEN 1 ELSE 0)
                /\ effects'[x] + Cardinality(Running(x))' <= grants'
      BY DEF WorkTally
    <3>1. /\ Cardinality(Running(x))' <= Cardinality(Running(x)) /\ Cardinality(Running(x))' \in Nat
          /\ Cardinality(Running(x)) \in Nat
      BY <2>5, NobodyNewRuns, RunnersFewer, RunnersCounted DEF RInv
    <3>2. effects[x] \in Nat /\ grants \in Nat
      BY RetryAssumption DEF RInv, RowsFit
    <3> QED BY <2>5, <3>1, <3>2 DEF RInv, WorkTally
  <2> QED BY <2>8, <2>10, <2>11 DEF RInv
<1> QED BY <1>3, <1>4

LEMMA ReleaseKept ==
  ASSUME RInv, NEW s \in Server, ReleaseClaim(s)
  PROVE  RInv'
<1> DEFINE k == serving[s].key
<1>1. serving[s] \in Serving /\ Working(s)
  BY DEF ReleaseClaim, InStep, Working, RInv, RowsFit
<1>2. k \in RetryKey
  BY <1>1 DEF Serving
<1>3. CASE ~Owns(Row(s), serving[s].token)
  BY <1>3, AnsweredKept DEF ReleaseClaim, history
<1>4. CASE Owns(Row(s), serving[s].token)
  <2>1. Absent \in RetryRecordRow /\ Absent.state = "absent"
    BY RetryAssumption DEF Absent, RetryRecordRow
  <2>2. record' = [record EXCEPT ![k] = Absent]
    BY <1>4 DEF ReleaseClaim
  <2>3. /\ serving' = [serving EXCEPT ![s] = NoRequest] /\ Onwards(s, NoRequest)
        /\ UNCHANGED <<hits, replays, effects, grants, worked, done, excuses>>
    BY DEF ReleaseClaim, Answered, Onwards, history
  <2>4. done[k] = FALSE
    BY <1>1, <1>4 DEF Row, ReleaseClaim, InStep, RInv, ClaimsSound, OwnerFits
  <2>5. Owns(record[k], serving[s].token)
    BY <1>4 DEF Row
  <2> HIDE DEF k
  <2>6. /\ record'[k] = Absent /\ \A x \in RetryKey : x # k => record'[x] = record[x]
        /\ record' \in [RetryKey -> RetryRecordRow]
    BY <1>2, <2>1, <2>2 DEF RInv, RowsFit
  <2>7. RowsFit'
    BY <2>3, <2>6, ServerMoves DEF RInv, RowsFit
  <2>8. \A x \in RetryKey :
          \/ record'[x] = record[x]
          \/ /\ Working(s) /\ Owns(record[x], serving[s].token)
             /\ record'[x].state # "claimed"
    BY <1>1, <2>1, <2>5, <2>6
  <2>9. /\ \A x \in Server : OwnerFits(x)' /\ InTime(x)'
        /\ \A x, y \in Server : x # y /\ Working(x)' /\ Working(y)'
             => serving'[x].token # serving'[y].token
    BY <2>3, <2>8, OwnersStay DEF RInv
  <2>10. \A x \in RetryKey : record'[x].state = "absent" => done'[x] = FALSE
    BY <2>3, <2>4, <2>6 DEF RInv, ClaimsSound
  <2>11. ClaimsSound'
    BY <2>1, <2>3, <2>6, <2>9, <2>10 DEF RInv, ClaimsSound, ReplayAnswersItsRequest
  <2>12. WorkTally'
    <3> SUFFICES ASSUME NEW x \in RetryKey
          PROVE /\ effects'[x] = excuses'[x] + (IF done'[x] = TRUE THEN 1 ELSE 0)
                /\ effects'[x] + Cardinality(Running(x))' <= grants'
      BY DEF WorkTally
    <3>1. /\ Cardinality(Running(x))' <= Cardinality(Running(x)) /\ Cardinality(Running(x))' \in Nat
          /\ Cardinality(Running(x)) \in Nat
      BY <2>3, NobodyNewRuns, RunnersFewer, RunnersCounted DEF RInv
    <3>2. effects[x] \in Nat /\ grants \in Nat
      BY RetryAssumption DEF RInv, RowsFit
    <3> QED BY <2>3, <3>1, <3>2 DEF RInv, WorkTally
  <2> QED BY <2>7, <2>11, <2>12 DEF RInv
<1> QED BY <1>3, <1>4

\* Only the limiter's window moves.
LEMMA WindowKept ==
  ASSUME RInv, hits' \in 0..HitLimit,
         UNCHANGED <<record, serving, replays, effects, grants, worked, done, excuses>>
  PROVE  RInv'
BY DEF RInv, RowsFit, ClaimsSound, OwnerFits, InTime, Owns, Working, ReplayAnswersItsRequest, WorkTally, Running

LEMMA RTickKept ==
  ASSUME RInv, RTick
  PROVE  RInv'
<1>1. ASSUME NEW k \in RetryKey
      PROVE  /\ record'[k] \in RetryRecordRow
             /\ record'[k].state = record[k].state /\ record'[k].token = record[k].token
             /\ record'[k].fingerprint = record[k].fingerprint
             /\ record'[k].answer = record[k].answer
  <2>1. record[k] \in RetryRecordRow
    BY DEF RInv, RowsFit
  <2>2. record'[k] = IF record[k].state # "absent" /\ record[k].age < Retention
                     THEN [record[k] EXCEPT !.age = record[k].age + 1] ELSE record[k]
    BY DEF RTick
  <2>3. record[k].age < Retention => record[k].age + 1 \in 0..Retention
    BY <2>1, RetryAssumption DEF RetryRecordRow
  <2> DEFINE n == record[k].age + 1
  <2> HIDE DEF n
  <2>4. CASE record[k].state # "absent" /\ record[k].age < Retention
    <3>1. record'[k] = [record[k] EXCEPT !.age = n] /\ n \in 0..Retention
      BY <2>2, <2>3, <2>4 DEF n
    <3> QED BY <2>1, <3>1 DEF RetryRecordRow
  <2>5. CASE ~(record[k].state # "absent" /\ record[k].age < Retention)
    BY <2>1, <2>2, <2>5
  <2> QED BY <2>4, <2>5
<1>2. record' \in [RetryKey -> RetryRecordRow]
  BY <1>1 DEF RTick
<1>3. UNCHANGED <<serving, hits, replays, effects, grants, done, excuses>>
  BY DEF RTick
<1>3a. worked' \in [Server -> 0..Horizon]
  <2>1. \A s \in Server : worked[s] \in 0..Horizon
    BY DEF RInv, RowsFit
  <2>2. \A s \in Server : worked[s] < Horizon => worked[s] + 1 \in 0..Horizon
    BY <2>1, RetryAssumption
  <2> QED BY <2>1, <2>2 DEF RTick
<1>4. RowsFit'
  BY <1>2, <1>3, <1>3a DEF RInv, RowsFit
<1>5. ASSUME NEW x \in Server PROVE OwnerFits(x)'
  <2> SUFFICES ASSUME Working(x)', Owns(record'[serving'[x].key], serving'[x].token)
        PROVE /\ record'[serving'[x].key].fingerprint = serving'[x].fingerprint
              /\ serving'[x].step \in {"run", "release"} => done'[serving'[x].key] = FALSE
    BY DEF OwnerFits, Owns
  <2>1. serving[x] \in Serving /\ Working(x)
    BY <1>3 DEF RInv, RowsFit, Working
  <2>2. serving[x].key \in RetryKey
    BY <2>1 DEF Serving
  <2>3. OwnerFits(x)
    BY DEF RInv, ClaimsSound
  <2> QED BY <1>1, <1>3, <2>1, <2>2, <2>3 DEF OwnerFits, Owns
<1>5a. ASSUME NEW x \in Server PROVE InTime(x)'
  <2> SUFFICES ASSUME serving[x] # NoRequest, serving[x].step = "run", worked'[x] < Horizon
        PROVE /\ Owns(record'[serving[x].key], serving[x].token)
              /\ record'[serving[x].key].age = worked'[x]
    BY <1>3 DEF InTime, Owns
  <2>1. worked[x] \in 0..Horizon
    BY DEF RInv, RowsFit
  <2>2. worked'[x] = IF worked[x] < Horizon THEN worked[x] + 1 ELSE worked[x]
    BY DEF RTick, InStep
  <2>3. worked[x] < Horizon /\ worked'[x] = worked[x] + 1
    BY <2>1, <2>2, RetryAssumption
  <2>4. /\ Owns(record[serving[x].key], serving[x].token)
        /\ record[serving[x].key].age = worked[x]
    BY <2>3 DEF RInv, ClaimsSound, InTime
  <2>5. serving[x] \in Serving
    BY DEF RInv, RowsFit
  <2> DEFINE k == serving[x].key
  <2>6. k \in RetryKey
    BY <2>5 DEF Serving
  <2>7. record[k] \in RetryRecordRow /\ record[k].state # "absent" /\ record[k].age < Retention
    BY <2>1, <2>3, <2>4, <2>6, RetryAssumption DEF Owns, RInv, RowsFit
  <2>8. record'[k] = [record[k] EXCEPT !.age = record[k].age + 1]
    BY <2>6, <2>7 DEF RTick
  <2>9. record'[k].age = record[k].age + 1
    BY <2>7, <2>8 DEF RetryRecordRow
  <2> QED BY <1>1, <2>3, <2>4, <2>6, <2>9 DEF Owns
<1>6. ClaimsSound'
  BY <1>1, <1>3, <1>5, <1>5a DEF RInv, ClaimsSound, Working, ReplayAnswersItsRequest
<1>7. WorkTally'
  BY <1>3 DEF RInv, WorkTally, Running
<1> QED BY <1>4, <1>6, <1>7 DEF RInv

LEMMA RetryKept == RInv /\ [RNext]_rvars => RInv'
<1> SUFFICES ASSUME RInv, [RNext]_rvars PROVE RInv'
  OBVIOUS
<1>1. CASE UNCHANGED rvars
  BY <1>1, WindowKept DEF rvars, history, RInv, RowsFit
<1>2. ASSUME NEW s \in Server, NEW k \in RetryKey, NEW f \in Fingerprint, Receive(s, k, f)
      PROVE  RInv'
  BY <1>2, ReceiveKept
<1>3. ASSUME NEW s \in Server, ClaimLost(s) PROVE RInv'
  BY <1>3, OnwardKept DEF ClaimLost, InStep, history
<1>4. ASSUME NEW s \in Server, ClaimThrows(s) \/ LeavesClaim(s) PROVE RInv'
  BY <1>4, AnsweredKept DEF ClaimThrows, LeavesClaim, history
<1>5. ASSUME NEW s \in Server, HandlerSucceeds(s) PROVE RInv'
  BY <1>5, WorkKept DEF HandlerSucceeds
<1>6. ASSUME NEW s \in Server, HandlerRefuses(s) PROVE RInv'
  <2>1. serving[s].step = "run" /\ serving[s] # NoRequest
    BY <1>6 DEF HandlerRefuses, InStep
  <2> QED BY <1>6, <2>1, OnwardKept DEF HandlerRefuses, history
<1>7. ASSUME NEW s \in Server, HandlerBreaks(s) PROVE RInv'
  BY <1>7, WorkKept DEF HandlerBreaks
<1>8. CASE RefuseEarly
  <2>1. hits' \in 0..HitLimit
    BY <1>8, RetryAssumption DEF RefuseEarly, AllowedHit, RInv, RowsFit
  <2> QED BY <1>8, <2>1, WindowKept DEF RefuseEarly, history
<1>9. CASE NextWindow
  <2>1. hits' \in 0..HitLimit
    BY <1>9, RetryAssumption DEF NextWindow
  <2> QED BY <1>9, <2>1, WindowKept DEF NextWindow, history
<1>10. CASE RNext
  BY <1>2, <1>3, <1>4, <1>5, <1>6, <1>7, <1>8, <1>9, <1>10, ClaimWonKept, FindKept,
     CompleteKept, ReleaseKept, RTickKept DEF RNext
<1> QED BY <1>1, <1>10

LEMMA RetryTyped ==
  ASSUME RInv PROVE RTypeOK
<1>1. \A k \in RetryKey : effects[k] \in 0..MaxClaims /\ excuses[k] \in 0..MaxClaims
  <2> SUFFICES ASSUME NEW k \in RetryKey
        PROVE effects[k] \in 0..MaxClaims /\ excuses[k] \in 0..MaxClaims
    OBVIOUS
  <2>1. /\ effects[k] = excuses[k] + (IF done[k] = TRUE THEN 1 ELSE 0)
        /\ effects[k] + Cardinality(Running(k)) <= grants
        /\ effects[k] \in Nat /\ excuses[k] \in Nat /\ grants \in 0..MaxClaims
    BY DEF RInv, RowsFit, WorkTally
  <2>2. Cardinality(Running(k)) \in Nat
    BY RunnersCounted
  <2> QED BY <2>1, <2>2, RetryAssumption
<1>2. effects \in [RetryKey -> 0..MaxClaims] /\ excuses \in [RetryKey -> 0..MaxClaims]
  <2> DEFINE E == 0..MaxClaims
             X == 0..MaxClaims
  <2> HIDE DEF E, X
  <2>1. \A k \in RetryKey : effects[k] \in E /\ excuses[k] \in X
    BY <1>1 DEF E, X
  <2>2. effects \in [RetryKey -> E] /\ excuses \in [RetryKey -> X]
    BY <2>1 DEF RInv, RowsFit
  <2> QED BY <2>2 DEF E, X
<1> QED BY <1>2 DEF RInv, RowsFit, RTypeOK

\* Retry records, requests and counters stay within their types; in particular
\* there is always a claim token that nobody else has.
THEOREM RTyping == RSpec => []RTypeOK
BY RetryTyped, RetryStart, RetryKept, PTL DEF RSpec

\* The work under one key is done once, and once more only for each of four failures: a
\* handler that worked on past the horizon or threw half way, a death or a failed write
\* that left done work unrecorded until the horizon, a record past its retention.  A
\* handler within the horizon has its record to itself.  For any number of servers, keys
\* and claims.
THEOREM KeyedOnce == RSpec => []KeyedWorkDoneOnce
<1>1. ASSUME RInv PROVE KeyedWorkDoneOnce
  <2>1. \A k \in RetryKey : effects[k] \in Nat /\ excuses[k] \in Nat
    BY <1>1 DEF RInv, RowsFit
  <2> QED BY <1>1, <2>1 DEF RInv, WorkTally, KeyedWorkDoneOnce
<1> QED BY <1>1, RetryStart, RetryKept, PTL DEF RSpec

\* A replayed answer is that of the same request, whatever was claimed, taken over and
\* claimed again under its key.
THEOREM Replays == RSpec => []ReplayAnswersItsRequest
<1>1. RInv => ReplayAnswersItsRequest
  BY DEF RInv, ClaimsSound
<1> QED BY <1>1, RetryStart, RetryKept, PTL DEF RSpec

-----------------------------------------------------------------------------
(* Subscriptions and billing. *)

Charging == {"period", "owner", "authorize", "hold", "capture", "settle", "refuse"}

\* The steps of a charge after it has read the agreement.
Decided == {"authorize", "hold", "capture", "settle", "refuse"}

\* Nothing happens before there is a plan, so its price is never changed under a command.
PlanFirst ==
  plan.status = "none" =>
    /\ plan.price = 0
    /\ \A a \in Agreement : agreement[a] = "none"
    /\ \A b \in Biller : job[b] = NoJob

BooksSound ==
  /\ \A a \in Agreement, n \in Sequence : agreement[a] = "none" => period[<<a, n>>] = "none"
  /\ \A p \in Period :
       /\ captures[p] = 1 => plan.price = 1
       /\ payment[p] = "captured" => captures[p] = 1
       /\ period[p] = "settled" => captures[p] = plan.price

\* What a command has read and still holds, whoever writes meanwhile.
JobOK(b) ==
  job[b] # NoJob =>
    /\ job[b].step # "agree" => agreement[job[b].item] # "none"
    /\ \A t \in job[b].todo : agreement[t.item] # "none"
    /\ job[b].step \in Charging \union {"agree", "renew"} => job[b].n \in Sequence
    /\ job[b].step \in {"authorize", "hold", "capture"} \/ job[b].staged = TRUE => plan.price = 1
    /\ job[b].step = "capture" => payment[Charged(b)] # "none"
    /\ job[b].step = "settle" /\ job[b].staged = FALSE /\ plan.price = 1 => captures[Charged(b)] = 1

\* What it has read and still holds because nobody else writes.
AloneOK(b) ==
  job[b] # NoJob =>
    /\ job[b].step \in Decided \union {"owner"} => period[Charged(b)] # "settled"
    /\ job[b].step = "cancel" /\ job[b].n # 0 => period[Charged(b)] # "settled"
    /\ job[b].step \in Decided => job[b].seen = agreement[job[b].item]

Uncontested ==
  contested = FALSE =>
    /\ \A b, c \in Biller : job[b] # NoJob /\ job[c] # NoJob => b = c
    /\ \A b \in Biller : AloneOK(b)
    /\ \A p \in Period : captures[p] = 1 => period[p] = "settled"

BInv == BTypeOK /\ PlanFirst /\ BooksSound /\ (\A b \in Biller : JobOK(b)) /\ Uncontested

LEMMA BillingStart == BInit => BInv
<1> SUFFICES ASSUME BInit PROVE BInv
  OBVIOUS
<1>1. BTypeOK
  <2>1. plan \in PlanRow
    BY DEF BInit, PlanRow
  <2>2. /\ agreement \in [Agreement -> AgreementStatus] /\ period \in [Period -> PeriodStatus]
        /\ payment \in [Period -> PaymentStatus] /\ job \in [Biller -> Job \union {NoJob}]
    BY DEF BInit, AgreementStatus, PeriodStatus, PaymentStatus
  <2>3. captures \in [Period -> 0..1]
    BY DEF BInit
  <2>4. elapsed \in [Agreement -> -1..MaxPeriods]
    <3>1. 0 \in -1..MaxPeriods
      BY BillingAssumption
    <3> QED BY <3>1 DEF BInit
  <2>5. funds \in 0..MaxFunds /\ begun \in 0..MaxCommands
    BY BillingAssumption DEF BInit
  <2> QED BY <2>1, <2>2, <2>3, <2>4, <2>5 DEF BInit, BTypeOK
<1>2. \A p \in Period : period[p] = "none" /\ payment[p] = "none" /\ captures[p] = 0
  BY DEF BInit
<1>3. \A a \in Agreement, n \in Sequence : <<a, n>> \in Period
  BY DEF Period
<1>4. \A b \in Biller : job[b] = NoJob
  BY DEF BInit
<1> QED BY <1>1, <1>2, <1>3, <1>4
        DEF BInit, BInv, PlanFirst, BooksSound, JobOK, AloneOK, Uncontested

\* The periods an agreement has are at most all of them.
LEMMA LatestBounded ==
  ASSUME NEW a
  PROVE  Latest(a) \in 0..MaxPeriods
<1> DEFINE S == Sequence
           T == {n \in Sequence : period[<<a, n>>] # "none"}
<1>1. IsFiniteSet(S) /\ Cardinality(S) = MaxPeriods
  <2>1. /\ IsFiniteSet(1..MaxPeriods)
        /\ Cardinality(1..MaxPeriods) = IF 1 > MaxPeriods THEN 0 ELSE MaxPeriods - 1 + 1
    BY FS_Interval, BillingAssumption
  <2> QED BY <2>1, BillingAssumption DEF Sequence
<1>2. T \subseteq S
  OBVIOUS
<1>3. Latest(a) = Cardinality(T)
  BY DEF Latest
<1> HIDE DEF S, T
<1>4. IsFiniteSet(T) /\ Cardinality(T) <= Cardinality(S)
  BY <1>1, <1>2, FS_Subset
<1>5. Cardinality(T) \in Nat
  BY <1>4, FS_CardinalityType
<1> QED BY <1>1, <1>3, <1>4, <1>5, BillingAssumption

\* One command moves.
LEMMA JobMoves ==
  ASSUME BTypeOK, NEW b \in Biller, NEW new \in Job \union {NoJob}, job' = [job EXCEPT ![b] = new]
  PROVE  /\ job' \in [Biller -> Job \union {NoJob}] /\ job'[b] = new
         /\ \A c \in Biller : c # b => job'[c] = job[c]
BY DEF BTypeOK

\* Rows written so that what other commands rely on stays.
RowsGrow ==
  /\ plan' = plan
  /\ \A a \in Agreement : agreement[a] # "none" => agreement'[a] # "none"
  /\ \A p \in Period :
       /\ payment[p] # "none" => payment'[p] # "none"
       /\ captures[p] = 1 => captures'[p] = 1

LEMMA OthersStand ==
  ASSUME BInv, RowsGrow, NEW c \in Biller, job'[c] = job[c]
  PROVE  JobOK(c)'
<1> SUFFICES ASSUME job[c] # NoJob
      PROVE /\ job[c].step # "agree" => agreement'[job[c].item] # "none"
            /\ \A t \in job[c].todo : agreement'[t.item] # "none"
            /\ job[c].step \in Charging \union {"agree", "renew"} => job[c].n \in Sequence
            /\ job[c].step \in {"authorize", "hold", "capture"} \/ job[c].staged = TRUE => plan'.price = 1
            /\ job[c].step = "capture" => payment'[Charged(c)] # "none"
            /\ job[c].step = "settle" /\ job[c].staged = FALSE /\ plan'.price = 1 => captures'[Charged(c)] = 1
  BY DEF JobOK, Charged
<1>1. job[c] \in Job
  BY DEF BInv, BTypeOK
<1>2. job[c].item \in Agreement /\ \A t \in job[c].todo : t.item \in Agreement
  BY <1>1 DEF Job, Candidate
<1>3. JobOK(c)
  BY DEF BInv
<1>4. job[c].step \in Charging => Charged(c) \in Period
  BY <1>2, <1>3 DEF JobOK, Charged, Period
<1>5. job[c].step \in {"capture", "settle"} => job[c].step \in Charging
  BY DEF Charging
<1> QED BY <1>2, <1>3, <1>4, <1>5 DEF JobOK, RowsGrow

\* A step of one command: it writes rows, and goes on or ends.
LEMMA CommandStep ==
  ASSUME BInv, NEW b \in Biller, job[b] # NoJob, RowsGrow, UNCHANGED overlap,
         BTypeOK', BooksSound', \A c \in Biller : c # b => job'[c] = job[c],
         JobOK(b)',
         contested = FALSE => AloneOK(b)' /\ \A p \in Period : captures'[p] = 1 => period'[p] = "settled"
  PROVE  BInv'
<1>1. plan.status # "none"
  BY DEF BInv, PlanFirst
<1>2. PlanFirst'
  BY <1>1 DEF PlanFirst, RowsGrow
<1>3. \A c \in Biller : JobOK(c)'
  BY OthersStand
<1>4. Uncontested'
  <2> SUFFICES ASSUME contested' = FALSE
        PROVE /\ \A x, c \in Biller : job'[x] # NoJob /\ job'[c] # NoJob => x = c
              /\ \A c \in Biller : AloneOK(c)'
              /\ \A p \in Period : captures'[p] = 1 => period'[p] = "settled"
    BY DEF Uncontested
  <2>1. contested = FALSE
    BY DEF overlap
  <2>2. \A c \in Biller : c # b => job[c] = NoJob
    BY <2>1 DEF BInv, Uncontested
  <2>3. \A c \in Biller : c # b => job'[c] = NoJob
    BY <2>2
  <2>4. \A c \in Biller : c # b => AloneOK(c)'
    BY <2>3 DEF AloneOK
  <2> QED BY <2>1, <2>3, <2>4
<1> QED BY <1>2, <1>3, <1>4 DEF BInv

\* A step that only reads.
LEMMA ReadStep ==
  ASSUME BInv, NEW b \in Biller, job[b] # NoJob, NEW new \in Job \union {NoJob},
         job' = [job EXCEPT ![b] = new], UNCHANGED <<rows, overlap>>,
         JobOK(b)', contested = FALSE => AloneOK(b)'
  PROVE  BInv'
<1>1. /\ job' \in [Biller -> Job \union {NoJob}]
      /\ \A c \in Biller : c # b => job'[c] = job[c]
  BY JobMoves DEF BInv
<1>2. BTypeOK'
  BY <1>1 DEF BInv, BTypeOK, rows, overlap
<1>3. BooksSound' /\ RowsGrow
  BY DEF BInv, BooksSound, RowsGrow, rows
<1>4. contested = FALSE => \A p \in Period : captures'[p] = 1 => period'[p] = "settled"
  BY DEF BInv, Uncontested, rows
<1> QED BY <1>1, <1>2, <1>3, <1>4, CommandStep

\* A command begins.
LEMMA BeginKept ==
  ASSUME BInv, NEW b \in Biller, NEW j \in Job, Begin(b, j), plan.status # "none",
         JobOK(b)', contested = FALSE => AloneOK(b)'
  PROVE  BInv'
<1>1. /\ job' \in [Biller -> Job \union {NoJob}] /\ job'[b] = j
      /\ \A c \in Biller : c # b => job'[c] = job[c]
  BY JobMoves DEF BInv, Begin
<1>2. begun' \in 0..MaxCommands /\ contested' \in BOOLEAN
  BY BillingAssumption DEF Begin, BInv, BTypeOK
<1>3. BTypeOK'
  BY <1>1, <1>2 DEF Begin, BInv, BTypeOK, rows
<1>4. BooksSound' /\ RowsGrow
  BY DEF Begin, BInv, BooksSound, RowsGrow, rows
<1>5. PlanFirst'
  BY DEF Begin, PlanFirst, rows
<1>6. \A c \in Biller : JobOK(c)'
  BY <1>1, <1>4, OthersStand
<1>7. Uncontested'
  <2> SUFFICES ASSUME contested' = FALSE
        PROVE /\ \A x, c \in Biller : job'[x] # NoJob /\ job'[c] # NoJob => x = c
              /\ \A c \in Biller : AloneOK(c)'
              /\ \A p \in Period : captures'[p] = 1 => period'[p] = "settled"
    BY DEF Uncontested
  <2>1. contested = FALSE /\ \A c \in Biller : job[c] = NoJob
    BY DEF Begin, BInv, BTypeOK
  <2>2. \A c \in Biller : c # b => job'[c] = NoJob
    BY <1>1, <2>1
  <2>3. \A c \in Biller : c # b => AloneOK(c)'
    BY <2>2 DEF AloneOK
  <2>4. \A p \in Period : captures'[p] = 1 => period'[p] = "settled"
    BY <2>1 DEF Begin, BInv, Uncontested, rows
  <2> QED BY <2>1, <2>2, <2>3, <2>4
<1> QED BY <1>3, <1>4, <1>5, <1>6, <1>7 DEF BInv

\* A step of no command.
LEMMA OutsideStep ==
  ASSUME BInv, RowsGrow, BTypeOK', BooksSound', UNCHANGED <<agreement, period, captures, job, overlap>>
  PROVE  BInv'
<1>1. PlanFirst'
  BY DEF BInv, PlanFirst, RowsGrow
<1>2. \A c \in Biller : JobOK(c)'
  BY OthersStand
<1>3. Uncontested'
  BY DEF BInv, Uncontested, AloneOK, Charged, overlap
<1> QED BY <1>1, <1>2, <1>3 DEF BInv

\* What a command is between two steps.
LEMMA JobRead ==
  ASSUME BInv, NEW b \in Biller, job[b] # NoJob
  PROVE  /\ job[b] \in Job /\ job[b].item \in Agreement /\ job[b].n \in 0..MaxPeriods
         /\ job[b].todo \subseteq Candidate /\ job[b].staged \in BOOLEAN
         /\ \A t \in job[b].todo : t.item \in Agreement
         /\ JobOK(b)
         /\ job[b].step \in Charging \union {"agree", "renew"} => Charged(b) \in Period
<1>1. job[b] \in Job
  BY DEF BInv, BTypeOK
<1>2. /\ job[b].item \in Agreement /\ job[b].n \in 0..MaxPeriods
      /\ job[b].todo \subseteq Candidate /\ job[b].staged \in BOOLEAN
  BY <1>1 DEF Job
<1>3. \A t \in job[b].todo : t.item \in Agreement
  BY <1>2 DEF Candidate
<1>4. JobOK(b)
  BY DEF BInv
<1> QED BY <1>1, <1>2, <1>3, <1>4 DEF JobOK, Charged, Period

LEMMA GoToMoves ==
  ASSUME BInv, NEW b \in Biller, job[b] # NoJob, NEW step \in Charging \union {"next"},
         GoTo(b, step)
  PROVE  /\ job' \in [Biller -> Job \union {NoJob}]
         /\ \A c \in Biller : c # b => job'[c] = job[c]
         /\ job'[b].step = step /\ job'[b].item = job[b].item /\ job'[b].n = job[b].n
         /\ job'[b].seen = job[b].seen /\ job'[b].staged = job[b].staged
         /\ job'[b].todo = job[b].todo /\ job'[b] \in Job
<1> DEFINE new == [job[b] EXCEPT !.step = step]
<1>1. job[b] \in Job
  BY JobRead
<1>2. /\ new \in Job /\ new.step = step /\ new.item = job[b].item /\ new.n = job[b].n
      /\ new.seen = job[b].seen /\ new.staged = job[b].staged /\ new.todo = job[b].todo
  BY <1>1 DEF Job, Charging
<1>3. job' = [job EXCEPT ![b] = new]
  BY DEF GoTo
<1> HIDE DEF new
<1>4. /\ job' \in [Biller -> Job \union {NoJob}] /\ job'[b] = new
      /\ \A c \in Biller : c # b => job'[c] = job[c]
  BY <1>2, <1>3, JobMoves DEF BInv
<1> QED BY <1>2, <1>4

\* A charge is over, or its command is.
LEMMA EndMoves ==
  ASSUME BInv, NEW b \in Biller, job[b] # NoJob, job[b].step # "agree", RowsGrow,
         Return(b) \/ Abort(b)
  PROVE  /\ job' \in [Biller -> Job \union {NoJob}]
         /\ \A c \in Biller : c # b => job'[c] = job[c]
         /\ JobOK(b)' /\ AloneOK(b)'
<1>1. CASE Abort(b)
  <2>1. /\ job' \in [Biller -> Job \union {NoJob}] /\ job'[b] = NoJob
        /\ \A c \in Biller : c # b => job'[c] = job[c]
    BY <1>1, JobMoves DEF Abort, BInv
  <2> QED BY <2>1 DEF JobOK, AloneOK
<1>2. CASE GoTo(b, "next")
  <2>1. /\ job' \in [Biller -> Job \union {NoJob}]
        /\ \A c \in Biller : c # b => job'[c] = job[c]
        /\ job'[b].step = "next" /\ job'[b].item = job[b].item
        /\ job'[b].staged = job[b].staged /\ job'[b].todo = job[b].todo
    BY <1>2, GoToMoves
  <2>2. /\ job[b].item \in Agreement /\ \A t \in job[b].todo : t.item \in Agreement
        /\ JobOK(b)
    BY JobRead
  <2>3. JobOK(b)'
    BY <2>1, <2>2 DEF JobOK, RowsGrow, Charging
  <2>4. AloneOK(b)'
    BY <2>1 DEF AloneOK, Decided
  <2> QED BY <2>1, <2>3, <2>4
<1> QED BY <1>1, <1>2 DEF Return

\* A step that reads, and ends the charge or the command.
LEMMA EndKept ==
  ASSUME BInv, NEW b \in Biller, job[b] # NoJob, job[b].step # "agree",
         Return(b) \/ Abort(b), UNCHANGED <<rows, overlap>>
  PROVE  BInv'
<1>1. BooksSound' /\ RowsGrow
  BY DEF BInv, BooksSound, RowsGrow, rows
<1>2. /\ job' \in [Biller -> Job \union {NoJob}]
      /\ \A c \in Biller : c # b => job'[c] = job[c]
      /\ JobOK(b)' /\ AloneOK(b)'
  BY <1>1, EndMoves
<1>3. BTypeOK'
  BY <1>2 DEF BInv, BTypeOK, rows, overlap
<1>4. contested = FALSE => \A p \in Period : captures'[p] = 1 => period'[p] = "settled"
  BY DEF BInv, Uncontested, rows
<1> QED BY <1>1, <1>2, <1>3, <1>4, CommandStep

LEMMA DiesKept ==
  ASSUME BInv, NEW b \in Biller, Dies(b)
  PROVE  BInv'
<1>1. /\ job' \in [Biller -> Job \union {NoJob}] /\ job'[b] = NoJob
      /\ \A c \in Biller : c # b => job'[c] = job[c]
  BY JobMoves DEF Dies, Abort, BInv
<1>2. JobOK(b)' /\ AloneOK(b)'
  BY <1>1 DEF JobOK, AloneOK
<1> QED BY <1>2, ReadStep DEF Dies, Abort

\* A step that reads and goes on to another step of the charge.
LEMMA OnKept ==
  ASSUME BInv, NEW b \in Biller, job[b] # NoJob, NEW step \in Charging \union {"next"},
         GoTo(b, step), UNCHANGED <<rows, overlap>>,
         JobOK(b)', contested = FALSE => AloneOK(b)'
  PROVE  BInv'
<1>1. /\ job' \in [Biller -> Job \union {NoJob}]
      /\ \A c \in Biller : c # b => job'[c] = job[c]
  BY GoToMoves
<1>2. BTypeOK'
  BY <1>1 DEF BInv, BTypeOK, rows, overlap
<1>3. BooksSound' /\ RowsGrow
  BY DEF BInv, BooksSound, RowsGrow, rows
<1>4. contested = FALSE => \A p \in Period : captures'[p] = 1 => period'[p] = "settled"
  BY DEF BInv, Uncontested, rows
<1> QED BY <1>1, <1>2, <1>3, <1>4, CommandStep

LEMMA ReadPeriodKept ==
  ASSUME BInv, NEW b \in Biller, ReadPeriod(b)
  PROVE  BInv'
<1>1. job[b] # NoJob /\ job[b].step = "period" /\ UNCHANGED <<rows, overlap>>
  BY DEF ReadPeriod, On
<1>2. CASE period[Charged(b)] \in {"settled", "voided"}
  <2>1. Return(b) \/ Abort(b)
    BY <1>2 DEF ReadPeriod
  <2> QED BY <1>1, <2>1, EndKept
<1>3. CASE period[Charged(b)] \notin {"settled", "voided"}
  <2>1. GoTo(b, "owner") /\ "owner" \in Charging \union {"next"}
    BY <1>3 DEF ReadPeriod, Charging
  <2>2. /\ job'[b].step = "owner" /\ job'[b].item = job[b].item /\ job'[b].n = job[b].n
        /\ job'[b].staged = job[b].staged /\ job'[b].todo = job[b].todo
    BY <1>1, <2>1, GoToMoves
  <2>3. JobOK(b) /\ job[b].n \in Sequence
    BY <1>1, JobRead DEF JobOK, Charging
  <2>4. JobOK(b)'
    BY <1>1, <2>2, <2>3 DEF JobOK, rows
  <2>5. AloneOK(b)'
    BY <1>1, <1>3, <2>2 DEF AloneOK, rows, Charged, Decided
  <2> QED BY <1>1, <2>1, <2>4, <2>5, OnKept
<1> QED BY <1>2, <1>3

LEMMA ReadAgreementKept ==
  ASSUME BInv, NEW b \in Biller, ReadAgreement(b)
  PROVE  BInv'
<1> DEFINE step == IF plan.price = 0 THEN "settle" ELSE "authorize"
           new == [job[b] EXCEPT !.seen = agreement[job[b].item], !.step = step]
<1>1. job[b] # NoJob /\ job[b].step = "owner" /\ UNCHANGED <<rows, overlap>>
  BY DEF ReadAgreement, On
<1>2. /\ job[b] \in Job /\ job[b].item \in Agreement /\ JobOK(b) /\ Charged(b) \in Period
      /\ job[b].n \in Sequence
  BY <1>1, JobRead DEF JobOK, Charging
<1>3. agreement[job[b].item] \in AgreementStatus /\ plan.price \in 0..1
  BY <1>2 DEF BInv, BTypeOK, PlanRow
<1>4. /\ new \in Job /\ new.step = step /\ new.item = job[b].item /\ new.n = job[b].n
      /\ new.seen = agreement[job[b].item] /\ new.staged = job[b].staged
      /\ new.todo = job[b].todo
  BY <1>2, <1>3 DEF Job
<1>5. job' = [job EXCEPT ![b] = new]
  BY <1>2 DEF ReadAgreement, BInv, BTypeOK
<1> HIDE DEF new
<1>6. job'[b] = new
  BY <1>4, <1>5, JobMoves DEF BInv
<1>7. JobOK(b)'
  BY <1>1, <1>2, <1>3, <1>4, <1>6 DEF JobOK, rows
<1>8. contested = FALSE => AloneOK(b)'
  <2> SUFFICES ASSUME contested = FALSE PROVE AloneOK(b)'
    OBVIOUS
  <2>1. period[Charged(b)] # "settled"
    BY <1>1 DEF BInv, Uncontested, AloneOK
  <2>2. Charged(b)' = Charged(b)
    BY <1>4, <1>6 DEF Charged
  <2> QED BY <1>1, <1>4, <1>6, <2>1, <2>2 DEF AloneOK, rows
<1> QED BY <1>1, <1>4, <1>5, <1>7, <1>8, ReadStep

LEMMA AuthorizeKept ==
  ASSUME BInv, NEW b \in Biller, AuthorizeCharge(b)
  PROVE  BInv'
<1> DEFINE step == CASE payment[Charged(b)] # "none" -> "capture"
               [] payment[Charged(b)] = "none" /\ Available >= plan.price -> "hold"
               [] OTHER -> "refuse"
<1>1. job[b] # NoJob /\ job[b].step = "authorize" /\ UNCHANGED <<rows, overlap>>
  BY DEF AuthorizeCharge, On
<1>2. GoTo(b, step)
  BY DEF AuthorizeCharge
<1>3. step \in {"capture", "hold", "refuse"} /\ (step = "capture" => payment[Charged(b)] # "none")
  OBVIOUS
<1> HIDE DEF step
<1>4. step \in Charging \union {"next"} /\ step \in Decided
  BY <1>3 DEF Charging, Decided
<1>5. /\ job'[b].step = step /\ job'[b].item = job[b].item /\ job'[b].n = job[b].n
      /\ job'[b].seen = job[b].seen /\ job'[b].staged = job[b].staged
      /\ job'[b].todo = job[b].todo
  BY <1>1, <1>2, <1>4, GoToMoves
<1>6. JobOK(b) /\ job[b].n \in Sequence
  BY <1>1, JobRead DEF JobOK, Charging
<1>7. Charged(b)' = Charged(b)
  BY <1>5 DEF Charged
<1>8. JobOK(b)'
  BY <1>1, <1>3, <1>5, <1>6, <1>7 DEF JobOK, rows
<1>9. contested = FALSE => AloneOK(b)'
  BY <1>1, <1>3, <1>5, <1>7 DEF BInv, Uncontested, AloneOK, rows, Decided
<1> QED BY <1>1, <1>2, <1>4, <1>8, <1>9, OnKept

LEMMA CaptureWithinKept ==
  ASSUME BInv, NEW b \in Biller, CaptureWithin(b)
  PROVE  BInv'
<1> DEFINE step == IF payment[Charged(b)] = "voided" THEN "refuse" ELSE "settle"
           staged == (payment[Charged(b)] = "authorized")
           new == [job[b] EXCEPT !.step = step, !.staged = staged]
<1>1. job[b] # NoJob /\ job[b].step = "capture" /\ UNCHANGED <<rows, overlap>>
  BY DEF CaptureWithin, On
<1>2. /\ job[b] \in Job /\ JobOK(b) /\ Charged(b) \in Period /\ job[b].n \in Sequence
      /\ plan.price = 1 /\ payment[Charged(b)] # "none"
  BY <1>1, JobRead DEF JobOK, Charging
<1>3. staged \in BOOLEAN
  OBVIOUS
<1>4. /\ new \in Job /\ new.step = step /\ new.item = job[b].item /\ new.n = job[b].n
      /\ new.seen = job[b].seen /\ new.staged = staged /\ new.todo = job[b].todo
  BY <1>2, <1>3 DEF Job
<1>5. job' = [job EXCEPT ![b] = new]
  BY DEF CaptureWithin
<1> HIDE DEF new
<1>6. job'[b] = new
  BY <1>4, <1>5, JobMoves DEF BInv
<1>7. Charged(b)' = Charged(b)
  BY <1>4, <1>6 DEF Charged
<1>8. step = "settle" /\ staged = FALSE => captures[Charged(b)] = 1
  BY <1>2 DEF BInv, BooksSound, BTypeOK, PaymentStatus
<1>9. step \in {"refuse", "settle"}
  OBVIOUS
<1> HIDE DEF step, staged
<1>10. JobOK(b)'
  BY <1>1, <1>2, <1>4, <1>6, <1>7, <1>8, <1>9 DEF JobOK, rows
<1>11. contested = FALSE => AloneOK(b)'
  BY <1>1, <1>4, <1>6, <1>7, <1>9 DEF BInv, Uncontested, AloneOK, rows, Decided
<1> QED BY <1>1, <1>4, <1>5, <1>10, <1>11, ReadStep

LEMMA TakeHoldKept ==
  ASSUME BInv, NEW b \in Biller, TakeHold(b)
  PROVE  BInv'
<1> DEFINE p == Charged(b)
<1>1. /\ job[b] # NoJob /\ job[b].step = "hold"
      /\ UNCHANGED <<plan, agreement, period, captures, funds, elapsed, usage, overlap>>
  BY DEF TakeHold, On
<1>2. JobOK(b) /\ p \in Period /\ job[b].n \in Sequence /\ plan.price = 1
  BY <1>1, JobRead DEF JobOK, Charging
<1>3. CASE payment[p] # "none"
  <2>1. Abort(b) /\ UNCHANGED <<rows, overlap>>
    BY <1>1, <1>3 DEF TakeHold, rows
  <2> QED BY <1>1, <2>1, EndKept
<1>4. CASE payment[p] = "none"
  <2>1. payment' = [payment EXCEPT ![p] = "authorized"] /\ GoTo(b, "capture")
    BY <1>4 DEF TakeHold
  <2> HIDE DEF p
  <2>2. /\ payment'[p] = "authorized" /\ \A q \in Period : q # p => payment'[q] = payment[q]
        /\ payment' \in [Period -> PaymentStatus]
    BY <1>2, <2>1 DEF BInv, BTypeOK, PaymentStatus
  <2>3. "capture" \in Charging \union {"next"}
    BY DEF Charging
  <2>4. /\ job' \in [Biller -> Job \union {NoJob}]
        /\ \A c \in Biller : c # b => job'[c] = job[c]
        /\ job'[b].step = "capture" /\ job'[b].item = job[b].item /\ job'[b].n = job[b].n
        /\ job'[b].seen = job[b].seen /\ job'[b].staged = job[b].staged
        /\ job'[b].todo = job[b].todo
    BY <1>1, <2>1, <2>3, GoToMoves
  <2>5. Charged(b)' = Charged(b)
    BY <2>4 DEF Charged
  <2>6. RowsGrow
    BY <1>1, <2>2 DEF RowsGrow
  <2>7. BTypeOK'
    BY <1>1, <2>2, <2>4 DEF BInv, BTypeOK, overlap
  <2>8. BooksSound'
    BY <1>1, <2>2 DEF BInv, BooksSound
  <2>9. JobOK(b)'
    BY <1>1, <1>2, <2>2, <2>4, <2>5 DEF JobOK, p
  <2>10. contested = FALSE => AloneOK(b)'
    BY <1>1, <2>4, <2>5 DEF BInv, Uncontested, AloneOK, Decided
  <2>11. contested = FALSE => \A q \in Period : captures'[q] = 1 => period'[q] = "settled"
    BY <1>1 DEF BInv, Uncontested
  <2> QED BY <1>1, <2>4, <2>6, <2>7, <2>8, <2>9, <2>10, <2>11, CommandStep
<1> QED BY <1>3, <1>4

LEMMA SettleKept ==
  ASSUME BInv, NEW b \in Biller, SettlePeriod(b)
  PROVE  BInv'
<1> DEFINE p == Charged(b)
           a == job[b].item
<1>1. /\ job[b] # NoJob /\ job[b].step = "settle"
      /\ UNCHANGED <<plan, funds, elapsed, usage, overlap>>
  BY DEF SettlePeriod, On
<1>2. /\ JobOK(b) /\ p \in Period /\ a \in Agreement /\ job[b].staged \in BOOLEAN
      /\ agreement[a] # "none"
  BY <1>1, JobRead DEF JobOK, Charging
<1>3. CASE job[b].staged /\ captures[p] > 0
  <2>1. Abort(b) /\ UNCHANGED <<rows, overlap>>
    BY <1>1, <1>3 DEF SettlePeriod, rows
  <2> QED BY <1>1, <2>1, EndKept
<1>4. CASE ~(job[b].staged /\ captures[p] > 0)
  <2>1. /\ period' = [period EXCEPT ![p] = "settled"]
        /\ payment' = [payment EXCEPT ![p] = IF job[b].staged THEN "captured" ELSE payment[p]]
        /\ captures' = [captures EXCEPT ![p] = IF job[b].staged THEN 1 ELSE captures[p]]
        /\ agreement' = [agreement EXCEPT ![a] = Revived(job[b].seen, agreement[a])]
        /\ Return(b)
    BY <1>2, <1>4 DEF SettlePeriod, BInv, BTypeOK
  <2>2. captures[p] \in 0..1 /\ plan.price \in 0..1 /\ payment[p] \in PaymentStatus
    BY <1>2 DEF BInv, BTypeOK, PlanRow
  <2>3. /\ job[b].staged = TRUE => plan.price = 1
        /\ job[b].staged = FALSE /\ plan.price = 1 => captures[p] = 1
        /\ captures[p] = 1 => plan.price = 1
        /\ payment[p] = "captured" => captures[p] = 1
    BY <1>1, <1>2 DEF JobOK, BInv, BooksSound
  <2> HIDE DEF p, a
  <2>4. /\ period'[p] = "settled" /\ \A q \in Period : q # p => period'[q] = period[q]
        /\ period' \in [Period -> PeriodStatus]
    BY <1>2, <2>1 DEF BInv, BTypeOK, PeriodStatus
  <2>5. /\ payment'[p] = (IF job[b].staged THEN "captured" ELSE payment[p])
        /\ \A q \in Period : q # p => payment'[q] = payment[q]
        /\ payment' \in [Period -> PaymentStatus]
    BY <1>2, <2>1, <2>2 DEF BInv, BTypeOK, PaymentStatus
  <2>6. /\ captures'[p] = (IF job[b].staged THEN 1 ELSE captures[p])
        /\ \A q \in Period : q # p => captures'[q] = captures[q]
        /\ captures' \in [Period -> 0..1]
    <3> DEFINE n == IF job[b].staged THEN 1 ELSE captures[p]
               S == 0..1
    <3>1. n \in S
      BY <2>2
    <3>2. captures \in [Period -> S]
      BY DEF BInv, BTypeOK
    <3>3. captures' = [captures EXCEPT ![p] = n]
      BY <2>1
    <3> HIDE DEF n, S
    <3>4. /\ captures'[p] = n /\ captures' \in [Period -> S]
          /\ \A q \in Period : q # p => captures'[q] = captures[q]
      BY <1>2, <3>1, <3>2, <3>3
    <3> QED BY <3>4 DEF n, S
  <2>7. captures'[p] = plan.price
    BY <1>2, <2>2, <2>3, <2>6
  <2>8. /\ agreement' \in [Agreement -> AgreementStatus]
        /\ \A x \in Agreement : agreement[x] # "none" => agreement'[x] # "none"
        /\ \A x \in Agreement : agreement'[x] = "none" => agreement[x] = "none"
        /\ \A x \in Agreement : x # a => agreement'[x] = agreement[x]
    BY <1>2, <2>1 DEF BInv, BTypeOK, AgreementStatus, Revived
  <2>9. RowsGrow
    BY <1>1, <1>2, <2>5, <2>6, <2>8 DEF RowsGrow
  <2>10. /\ job' \in [Biller -> Job \union {NoJob}]
         /\ \A c \in Biller : c # b => job'[c] = job[c]
         /\ JobOK(b)' /\ AloneOK(b)'
    BY <1>1, <2>1, <2>9, EndMoves
  <2>11. BTypeOK'
    BY <1>1, <2>4, <2>5, <2>6, <2>8, <2>10 DEF BInv, BTypeOK, overlap
  <2>12. \A x \in Agreement, n \in Sequence : agreement'[x] = "none" => period'[<<x, n>>] = "none"
    <3> SUFFICES ASSUME NEW x \in Agreement, NEW n \in Sequence, agreement'[x] = "none"
          PROVE period'[<<x, n>>] = "none"
      OBVIOUS
    <3>1. agreement[x] = "none" /\ <<x, n>> \in Period
      BY <2>8 DEF Period
    <3>2. x # a
      BY <1>2, <3>1
    <3>3. <<x, n>> # p
      BY <3>2 DEF p, a, Charged
    <3> QED BY <2>4, <3>1, <3>3 DEF BInv, BooksSound
  <2>13. BooksSound'
    <3> SUFFICES ASSUME NEW q \in Period
          PROVE /\ captures'[q] = 1 => plan'.price = 1
                /\ payment'[q] = "captured" => captures'[q] = 1
                /\ period'[q] = "settled" => captures'[q] = plan'.price
      BY <2>12 DEF BooksSound
    <3>1. CASE q = p
      BY <1>1, <1>2, <2>3, <2>5, <2>6, <2>7, <3>1
    <3>2. CASE q # p
      BY <1>1, <2>4, <2>5, <2>6, <3>2 DEF BInv, BooksSound
    <3> QED BY <3>1, <3>2
  <2>14. contested = FALSE => \A q \in Period : captures'[q] = 1 => period'[q] = "settled"
    BY <2>4, <2>6 DEF BInv, Uncontested
  <2> QED BY <1>1, <2>9, <2>10, <2>11, <2>13, <2>14, CommandStep
<1> QED BY <1>3, <1>4

\* One period written, with a status that is not paid, and one agreement, not to none.
LEMMA UnpaidWritten ==
  ASSUME BInv, NEW a \in Agreement, agreement[a] # "none",
         agreement' \in [Agreement -> AgreementStatus], agreement'[a] # "none",
         \A x \in Agreement : x # a => agreement'[x] = agreement[x],
         period' \in [Period -> PeriodStatus],
         \A q \in Period : period'[q] = period[q] \/ (period'[q] # "settled" /\ \E n : q = <<a, n>>),
         UNCHANGED <<plan, payment, captures>>
  PROVE  BooksSound' /\ RowsGrow
<1>1. RowsGrow
  BY DEF RowsGrow
<1>2. \A x \in Agreement, n \in Sequence : agreement'[x] = "none" => period'[<<x, n>>] = "none"
  <2> SUFFICES ASSUME NEW x \in Agreement, NEW n \in Sequence, agreement'[x] = "none"
        PROVE period'[<<x, n>>] = "none"
    OBVIOUS
  <2>1. agreement[x] = "none" /\ <<x, n>> \in Period /\ x # a
    BY DEF Period
  <2>2. period'[<<x, n>>] = period[<<x, n>>]
    BY <2>1
  <2> QED BY <2>1, <2>2 DEF BInv, BooksSound
<1>3. \A p \in Period :
       /\ captures'[p] = 1 => plan'.price = 1
       /\ payment'[p] = "captured" => captures'[p] = 1
       /\ period'[p] = "settled" => captures'[p] = plan'.price
  BY DEF BInv, BooksSound
<1> QED BY <1>1, <1>2, <1>3 DEF BooksSound

LEMMA UncollectibleKept ==
  ASSUME BInv, NEW b \in Biller, MarkUncollectible(b)
  PROVE  BInv'
<1> DEFINE p == Charged(b)
           a == job[b].item
<1>1. /\ job[b] # NoJob /\ job[b].step = "refuse" /\ Return(b)
      /\ UNCHANGED <<plan, payment, captures, funds, elapsed, usage, overlap>>
  BY DEF MarkUncollectible, On
<1>2. JobOK(b) /\ p \in Period /\ a \in Agreement /\ agreement[a] # "none"
  BY <1>1, JobRead DEF JobOK, Charging
<1>3. /\ period' = [period EXCEPT ![p] = "uncollectible"]
      /\ agreement' = [agreement EXCEPT ![a] = IF job[b].seen = "active" THEN "past_due" ELSE agreement[a]]
  BY <1>2 DEF MarkUncollectible, BInv, BTypeOK
<1>4. p = <<a, job[b].n>>
  BY DEF Charged
<1>5. contested = FALSE => period[p] # "settled"
  BY <1>1 DEF BInv, Uncontested, AloneOK, Decided
<1> HIDE DEF p, a
<1>6. /\ period'[p] = "uncollectible" /\ \A q \in Period : q # p => period'[q] = period[q]
      /\ period' \in [Period -> PeriodStatus]
  BY <1>2, <1>3 DEF BInv, BTypeOK, PeriodStatus
<1>7. /\ agreement' \in [Agreement -> AgreementStatus] /\ agreement'[a] # "none"
      /\ \A x \in Agreement : x # a => agreement'[x] = agreement[x]
  BY <1>2, <1>3 DEF BInv, BTypeOK, AgreementStatus
<1>8. BooksSound' /\ RowsGrow
  BY <1>1, <1>2, <1>4, <1>6, <1>7, UnpaidWritten
<1>9. /\ job' \in [Biller -> Job \union {NoJob}]
      /\ \A c \in Biller : c # b => job'[c] = job[c]
      /\ JobOK(b)' /\ AloneOK(b)'
  BY <1>1, <1>8, EndMoves
<1>10. BTypeOK'
  BY <1>1, <1>6, <1>7, <1>9 DEF BInv, BTypeOK, overlap
<1>11. contested = FALSE => \A q \in Period : captures'[q] = 1 => period'[q] = "settled"
  BY <1>1, <1>2, <1>5, <1>6 DEF BInv, Uncontested
<1> QED BY <1>1, <1>8, <1>9, <1>10, <1>11, CommandStep

LEMMA CancelKept ==
  ASSUME BInv, NEW b \in Biller, CommitCancel(b)
  PROVE  BInv'
<1> DEFINE p == Charged(b)
           a == job[b].item
<1>1. /\ job[b] # NoJob /\ job[b].step = "cancel" /\ Abort(b)
      /\ UNCHANGED <<plan, payment, captures, funds, elapsed, usage, overlap>>
  BY DEF CommitCancel, On
<1>2. JobOK(b) /\ a \in Agreement /\ agreement[a] # "none" /\ job[b].n \in 0..MaxPeriods
  BY <1>1, JobRead DEF JobOK
<1>3. /\ period' = [q \in Period |-> IF q = p THEN "voided" ELSE period[q]]
      /\ agreement' = [agreement EXCEPT ![a] = "cancelled"]
  BY DEF CommitCancel
<1>4. p = <<a, job[b].n>>
  BY DEF Charged
<1>5. p \in Period => job[b].n # 0
  BY BillingAssumption DEF Charged, Period, Sequence
<1>6. contested = FALSE /\ p \in Period => period[p] # "settled"
  BY <1>1, <1>5 DEF BInv, Uncontested, AloneOK
<1> HIDE DEF p, a
<1>7. /\ \A q \in Period : period'[q] = IF q = p THEN "voided" ELSE period[q]
      /\ period' \in [Period -> PeriodStatus]
  BY <1>3 DEF BInv, BTypeOK, PeriodStatus
<1>8. /\ agreement' \in [Agreement -> AgreementStatus] /\ agreement'[a] # "none"
      /\ \A x \in Agreement : x # a => agreement'[x] = agreement[x]
  BY <1>2, <1>3 DEF BInv, BTypeOK, AgreementStatus
<1>9. BooksSound' /\ RowsGrow
  BY <1>1, <1>2, <1>4, <1>7, <1>8, UnpaidWritten
<1>10. /\ job' \in [Biller -> Job \union {NoJob}]
       /\ \A c \in Biller : c # b => job'[c] = job[c]
       /\ JobOK(b)' /\ AloneOK(b)'
  BY <1>1, <1>9, EndMoves
<1>11. BTypeOK'
  BY <1>1, <1>7, <1>8, <1>10 DEF BInv, BTypeOK, overlap
<1>12. contested = FALSE => \A q \in Period : captures'[q] = 1 => period'[q] = "settled"
  BY <1>1, <1>6, <1>7 DEF BInv, Uncontested
<1> QED BY <1>1, <1>9, <1>10, <1>11, <1>12, CommandStep

LEMMA ExpiryKept ==
  ASSUME BInv, NEW b \in Biller, ExpireSubscription(b)
  PROVE  BInv'
<1> DEFINE a == job[b].item
<1>1. /\ job[b] # NoJob /\ job[b].step = "expire" /\ Return(b)
      /\ UNCHANGED <<plan, period, payment, captures, funds, elapsed, usage, overlap>>
      /\ agreement' = [agreement EXCEPT ![a] = "expired"]
  BY DEF ExpireSubscription, On
<1>2. JobOK(b) /\ a \in Agreement /\ agreement[a] # "none"
  BY <1>1, JobRead DEF JobOK
<1> HIDE DEF a
<1>3. /\ agreement' \in [Agreement -> AgreementStatus] /\ agreement'[a] # "none"
      /\ \A x \in Agreement : x # a => agreement'[x] = agreement[x]
  BY <1>1, <1>2 DEF BInv, BTypeOK, AgreementStatus
<1>4. BooksSound' /\ RowsGrow
  BY <1>1, <1>2, <1>3, UnpaidWritten DEF BInv, BTypeOK
<1>5. /\ job' \in [Biller -> Job \union {NoJob}]
      /\ \A c \in Biller : c # b => job'[c] = job[c]
      /\ JobOK(b)' /\ AloneOK(b)'
  BY <1>1, <1>4, EndMoves
<1>6. BTypeOK'
  BY <1>1, <1>3, <1>5 DEF BInv, BTypeOK, overlap
<1>7. contested = FALSE => \A q \in Period : captures'[q] = 1 => period'[q] = "settled"
  BY <1>1 DEF BInv, Uncontested
<1> QED BY <1>1, <1>4, <1>5, <1>6, <1>7, CommandStep

LEMMA OpenPeriodKept ==
  ASSUME BInv, NEW b \in Biller, OpenPeriod(b)
  PROVE  BInv'
<1> DEFINE p == Charged(b)
           a == job[b].item
<1>1. /\ job[b] # NoJob /\ job[b].step = "renew"
      /\ UNCHANGED <<plan, agreement, payment, captures, funds, elapsed, usage, overlap>>
  BY DEF OpenPeriod, On
<1>2. /\ JobOK(b) /\ p \in Period /\ job[b].n \in Sequence /\ a \in Agreement
      /\ agreement[a] # "none"
  BY <1>1, JobRead DEF JobOK
<1>3. CASE ~PeriodInsertable(p)
  <2>1. Abort(b) /\ UNCHANGED <<rows, overlap>>
    BY <1>1, <1>3 DEF OpenPeriod, rows
  <2> QED BY <1>1, <2>1, EndKept
<1>4. CASE PeriodInsertable(p)
  <2>1. period' = [period EXCEPT ![p] = "pending"] /\ GoTo(b, "period") /\ period[p] = "none"
    BY <1>4 DEF OpenPeriod, PeriodInsertable
  <2>2. p = <<a, job[b].n>>
    BY DEF Charged
  <2> HIDE DEF p, a
  <2>3. /\ period'[p] = "pending" /\ \A q \in Period : q # p => period'[q] = period[q]
        /\ period' \in [Period -> PeriodStatus]
    BY <1>2, <2>1 DEF BInv, BTypeOK, PeriodStatus
  <2>4. BooksSound' /\ RowsGrow
    BY <1>1, <1>2, <2>2, <2>3, UnpaidWritten DEF BInv, BTypeOK
  <2>5. "period" \in Charging \union {"next"}
    BY DEF Charging
  <2>6. /\ job' \in [Biller -> Job \union {NoJob}]
        /\ \A c \in Biller : c # b => job'[c] = job[c]
        /\ job'[b].step = "period" /\ job'[b].item = job[b].item /\ job'[b].n = job[b].n
        /\ job'[b].staged = job[b].staged /\ job'[b].todo = job[b].todo
    BY <1>1, <2>1, <2>5, GoToMoves
  <2>7. JobOK(b)' /\ AloneOK(b)'
    BY <1>1, <1>2, <2>6 DEF JobOK, AloneOK, Decided, a
  <2>8. BTypeOK'
    BY <1>1, <2>3, <2>6 DEF BInv, BTypeOK, overlap
  <2>9. contested = FALSE => \A q \in Period : captures'[q] = 1 => period'[q] = "settled"
    BY <1>1, <1>2, <2>1, <2>3 DEF BInv, Uncontested
  <2> QED BY <1>1, <2>4, <2>6, <2>7, <2>8, <2>9, CommandStep
<1> QED BY <1>3, <1>4

LEMMA SubscribeKept ==
  ASSUME BInv, NEW b \in Biller, NEW start \in {-1, 0}, CommitSubscribe(b, start)
  PROVE  BInv'
<1> DEFINE a == job[b].item
           p == <<a, 1>>
<1>1. job[b] # NoJob /\ job[b].step = "agree" /\ UNCHANGED <<plan, payment, captures, funds, usage, overlap>>
  BY DEF CommitSubscribe, On
<1>2. /\ JobOK(b) /\ job[b].n \in Sequence /\ a \in Agreement /\ p \in Period
      /\ \A t \in job[b].todo : t.item \in Agreement
  <2>1. /\ JobOK(b) /\ job[b].item \in Agreement /\ \A t \in job[b].todo : t.item \in Agreement
    BY <1>1, JobRead
  <2>2. 1 \in Sequence
    BY BillingAssumption DEF Sequence
  <2> QED BY <1>1, <2>1, <2>2 DEF JobOK, Period
<1>3. CASE ~Subscribable(a)
  <2>1. Abort(b) /\ UNCHANGED <<rows, overlap>>
    BY <1>1, <1>3 DEF CommitSubscribe, rows
  <2>2. /\ job' \in [Biller -> Job \union {NoJob}] /\ job'[b] = NoJob
    BY <2>1, JobMoves DEF Abort, BInv
  <2>3. JobOK(b)' /\ AloneOK(b)'
    BY <2>2 DEF JobOK, AloneOK
  <2> QED BY <1>1, <2>1, <2>3, ReadStep DEF Abort
<1>4. CASE Subscribable(a)
  <2>1. /\ agreement' = [agreement EXCEPT ![a] = "active"] /\ agreement[a] = "none"
        /\ period' = [period EXCEPT ![p] = "pending"]
        /\ elapsed' = [elapsed EXCEPT ![a] = start]
        /\ GoTo(b, "period")
    BY <1>4 DEF CommitSubscribe, Subscribable
  <2>2. period[p] = "none"
    BY <1>2, <2>1, BillingAssumption DEF BInv, BooksSound, Sequence
  <2>3. elapsed' \in [Agreement -> -1..MaxPeriods]
    <3>1. start \in -1..MaxPeriods
      BY BillingAssumption
    <3> QED BY <1>2, <2>1, <3>1 DEF BInv, BTypeOK
  <2>4. \A x \in Agreement, n \in Sequence : x # a => <<x, n>> # p /\ <<x, n>> \in Period
    BY DEF Period
  <2> HIDE DEF a, p
  <2>5. /\ period'[p] = "pending" /\ \A q \in Period : q # p => period'[q] = period[q]
        /\ period' \in [Period -> PeriodStatus]
    BY <1>2, <2>1 DEF BInv, BTypeOK, PeriodStatus
  <2>6. /\ agreement' \in [Agreement -> AgreementStatus] /\ agreement'[a] = "active"
        /\ \A x \in Agreement : x # a => agreement'[x] = agreement[x]
    BY <1>2, <2>1 DEF BInv, BTypeOK, AgreementStatus
  <2>7. RowsGrow
    BY <1>1, <2>6 DEF RowsGrow
  <2>8. BooksSound'
    <3>1. \A x \in Agreement, n \in Sequence : agreement'[x] = "none" => period'[<<x, n>>] = "none"
      BY <2>4, <2>5, <2>6 DEF BInv, BooksSound
    <3>2. \A q \in Period :
       /\ captures'[q] = 1 => plan'.price = 1
       /\ payment'[q] = "captured" => captures'[q] = 1
       /\ period'[q] = "settled" => captures'[q] = plan'.price
      BY <1>1, <2>5 DEF BInv, BooksSound
    <3> QED BY <3>1, <3>2 DEF BooksSound
  <2>9. "period" \in Charging \union {"next"}
    BY DEF Charging
  <2>10. /\ job' \in [Biller -> Job \union {NoJob}]
         /\ \A c \in Biller : c # b => job'[c] = job[c]
         /\ job'[b].step = "period" /\ job'[b].item = job[b].item /\ job'[b].n = job[b].n
         /\ job'[b].staged = job[b].staged /\ job'[b].todo = job[b].todo
    BY <1>1, <2>1, <2>9, GoToMoves
  <2>11. JobOK(b)'
    <3>1. agreement'[job'[b].item] # "none"
      BY <2>6, <2>10 DEF a
    <3>2. \A t \in job'[b].todo : agreement'[t.item] # "none"
      BY <1>1, <1>2, <2>7, <2>10 DEF JobOK, RowsGrow
    <3> QED BY <1>1, <1>2, <2>10, <3>1, <3>2 DEF JobOK
  <2>12. AloneOK(b)'
    BY <2>10 DEF AloneOK, Decided
  <2>13. BTypeOK'
    BY <1>1, <2>3, <2>5, <2>6, <2>10 DEF BInv, BTypeOK, overlap
  <2>14. contested = FALSE => \A q \in Period : captures'[q] = 1 => period'[q] = "settled"
    BY <1>1, <1>2, <2>2, <2>5 DEF BInv, Uncontested
  <2> QED BY <1>1, <2>7, <2>8, <2>10, <2>11, <2>12, <2>13, <2>14, CommandStep
<1> QED BY <1>3, <1>4

\* The covering period is one of the agreement's, or there is none.
LEMMA CoveringFits ==
  ASSUME BTypeOK, NEW a \in Agreement
  PROVE  /\ Covering(a) \in 0..MaxPeriods
         /\ Covering(a) # 0 => Covering(a) \in Sequence
<1>1. elapsed[a] \in -1..MaxPeriods
  BY DEF BTypeOK
<1> QED BY <1>1, BillingAssumption DEF Covering, Sequence

LEMMA FindCoveringKept ==
  ASSUME BInv, NEW b \in Biller, FindCovering(b)
  PROVE  BInv'
<1> DEFINE n == Voidable(job[b].item)
           new == [job[b] EXCEPT !.step = "cancel", !.n = n]
<1>1. job[b] # NoJob /\ job[b].step = "cover" /\ UNCHANGED <<rows, overlap>>
  BY DEF FindCovering, On
<1>2. job[b] \in Job /\ job[b].item \in Agreement /\ JobOK(b)
  BY <1>1, JobRead
<1>3. n \in 0..MaxPeriods /\ (n # 0 => period[<<job[b].item, n>>] # "settled")
  <2>1. Covering(job[b].item) \in 0..MaxPeriods
    BY <1>2, CoveringFits DEF BInv
  <2> QED BY <2>1, BillingAssumption DEF Voidable
<1>4. job' = [job EXCEPT ![b] = new]
  BY DEF FindCovering
<1> HIDE DEF n
<1>5. /\ new \in Job /\ new.step = "cancel" /\ new.item = job[b].item /\ new.n = n
      /\ new.staged = job[b].staged /\ new.todo = job[b].todo
  BY <1>2, <1>3 DEF Job
<1> HIDE DEF new
<1>6. job'[b] = new
  BY <1>4, <1>5, JobMoves DEF BInv
<1>7. JobOK(b)'
  BY <1>1, <1>2, <1>5, <1>6 DEF JobOK, rows, Charging
<1>8. AloneOK(b)'
  BY <1>1, <1>3, <1>5, <1>6 DEF AloneOK, rows, Charged, Decided
<1> QED BY <1>1, <1>4, <1>5, <1>7, <1>8, ReadStep

\* A charge as it is first written down.
LEMMA ChargeFits ==
  ASSUME NEW a \in Agreement, NEW n \in 0..MaxPeriods,
         NEW step \in {"agree", "owner", "cover", "next", "renew", "expire"}
  PROVE  LET j == [Charge(a, n) EXCEPT !.step = step]
         IN  /\ j \in Job /\ j.step = step /\ j.item = a /\ j.n = n /\ j.staged = FALSE
             /\ j.todo = {}
BY DEF Charge, Job, AgreementStatus

LEMMA RenewNextKept ==
  ASSUME BInv, NEW b \in Biller, RenewNext(b)
  PROVE  BInv'
<1>1. job[b] # NoJob /\ job[b].step = "next" /\ UNCHANGED <<rows, overlap>>
  BY DEF RenewNext, On
<1>2. /\ job[b] \in Job /\ JobOK(b) /\ job[b].todo \subseteq Candidate
      /\ \A t \in job[b].todo : t.item \in Agreement
  BY <1>1, JobRead
<1>3. PICK t \in job[b].todo :
       LET n == Latest(t.item)
           rest == job[b].todo \ {t}
           go(step, m) == [Charge(t.item, m) EXCEPT !.step = step, !.todo = rest]
       IN  job' = [job EXCEPT ![b] =
             CASE Due(n, t.at) /\ t.status = "cancelled" -> go("expire", 0)
               [] Due(n, t.at) /\ t.status # "cancelled" /\ n < MaxPeriods -> go("renew", n + 1)
               [] OTHER -> IF rest = {} THEN NoJob ELSE go("next", 0)]
  BY DEF RenewNext
<1> DEFINE n == Latest(t.item)
           rest == job[b].todo \ {t}
           go(step, m) == [Charge(t.item, m) EXCEPT !.step = step, !.todo = rest]
<1>4. n \in 0..MaxPeriods /\ t.item \in Agreement /\ rest \in SUBSET Candidate
  BY <1>2, LatestBounded
<1>5. \A x \in rest : agreement[x.item] # "none"
  BY <1>1, <1>2 DEF JobOK
<1>6. agreement[t.item] # "none"
  BY <1>1, <1>2 DEF JobOK
<1>7. \/ job' = [job EXCEPT ![b] = go("expire", 0)]
      \/ n < MaxPeriods /\ job' = [job EXCEPT ![b] = go("renew", n + 1)]
      \/ job' = [job EXCEPT ![b] = NoJob]
      \/ job' = [job EXCEPT ![b] = go("next", 0)]
  <2> HIDE DEF go
  <2> QED BY <1>3 DEF go
<1>8. ASSUME NEW step \in {"expire", "renew", "next"}, NEW m \in 0..MaxPeriods,
             step = "renew" => m \in Sequence, job' = [job EXCEPT ![b] = go(step, m)]
      PROVE  BInv'
  <2> HIDE DEF rest, n
  <2> DEFINE new == [Charge(t.item, m) EXCEPT !.step = step, !.todo = rest]
  <2>1. /\ new \in Job /\ new.step = step /\ new.item = t.item /\ new.n = m /\ new.staged = FALSE
        /\ new.todo = rest
    BY <1>4 DEF Charge, Job, AgreementStatus
  <2>2. job' = [job EXCEPT ![b] = new]
    BY <1>8
  <2> HIDE DEF new
  <2>3. job'[b] = new
    BY <2>1, <2>2, JobMoves DEF BInv
  <2>4. JobOK(b)'
    BY <1>1, <1>5, <1>6, <1>8, <2>1, <2>3 DEF JobOK, rows, Charging
  <2>5. AloneOK(b)'
    BY <2>1, <2>3 DEF AloneOK, Decided
  <2> QED BY <1>1, <2>1, <2>2, <2>4, <2>5, ReadStep
<1>9. ASSUME job' = [job EXCEPT ![b] = NoJob] PROVE BInv'
  BY <1>1, <1>9, EndKept DEF Abort
<1>10. n < MaxPeriods => n + 1 \in 0..MaxPeriods /\ n + 1 \in Sequence
  BY <1>4, BillingAssumption DEF Sequence
<1>11. 0 \in 0..MaxPeriods
  BY BillingAssumption
<1> HIDE DEF n, rest, go
<1>12. CASE job' = [job EXCEPT ![b] = go("expire", 0)]
  BY <1>8, <1>11, <1>12
<1>13. CASE job' = [job EXCEPT ![b] = go("next", 0)]
  BY <1>8, <1>11, <1>13
<1>14. CASE n < MaxPeriods /\ job' = [job EXCEPT ![b] = go("renew", n + 1)]
  BY <1>8, <1>10, <1>14
<1> QED BY <1>7, <1>9, <1>12, <1>13, <1>14

\* A command begins with the charge it will make, or none yet.
LEMMA BeginCharge ==
  ASSUME BInv, NEW b \in Biller, NEW j \in Job, Begin(b, j), plan.status # "none",
         j.staged = FALSE, j.step \in {"agree", "owner", "cover", "next"},
         j.step # "agree" => agreement[j.item] # "none",
         \A t \in j.todo : agreement[t.item] # "none",
         j.step \in {"agree", "owner"} => j.n \in Sequence,
         j.step = "owner" => period[<<j.item, j.n>>] # "settled"
  PROVE  BInv'
<1>1. job'[b] = j
  BY JobMoves DEF BInv, Begin
<1>2. UNCHANGED rows
  BY DEF Begin
<1>3. JobOK(b)'
  BY <1>1, <1>2 DEF JobOK, rows, Charging
<1>4. AloneOK(b)'
  BY <1>1, <1>2 DEF AloneOK, rows, Charged, Decided
<1> QED BY <1>3, <1>4, BeginKept

LEMMA StartsKept ==
  ASSUME BInv, NEW b \in Biller, NEW a \in Agreement,
         \/ StartSubscribe(b, a)
         \/ StartCancel(b, a)
         \/ \E n \in Sequence : StartCollect(b, a, n)
  PROVE  BInv'
<1>0. 1 \in Sequence /\ 1 \in 0..MaxPeriods /\ 0 \in 0..MaxPeriods /\ Sequence \subseteq 0..MaxPeriods
  BY BillingAssumption DEF Sequence
<1>1. CASE StartSubscribe(b, a)
  <2> DEFINE j == [Charge(a, 1) EXCEPT !.step = "agree"]
  <2>1. /\ j \in Job /\ j.step = "agree" /\ j.item = a /\ j.n = 1 /\ j.staged = FALSE /\ j.todo = {}
    BY <1>0, ChargeFits
  <2>2. Begin(b, j) /\ plan.status # "none"
    BY <1>1 DEF StartSubscribe
  <2> HIDE DEF j
  <2> QED BY <1>0, <2>1, <2>2, BeginCharge
<1>2. CASE StartCancel(b, a)
  <2> DEFINE j == [Charge(a, 0) EXCEPT !.step = "cover"]
  <2>1. /\ j \in Job /\ j.step = "cover" /\ j.item = a /\ j.n = 0 /\ j.staged = FALSE /\ j.todo = {}
    BY <1>0, ChargeFits
  <2>2. Begin(b, j) /\ agreement[a] # "none"
    BY <1>2 DEF StartCancel, Live
  <2>3. plan.status # "none"
    BY <2>2 DEF BInv, PlanFirst
  <2> HIDE DEF j
  <2> QED BY <1>0, <2>1, <2>2, <2>3, BeginCharge
<1>3. ASSUME NEW n \in Sequence, StartCollect(b, a, n) PROVE BInv'
  <2> DEFINE j == [Charge(a, n) EXCEPT !.step = "owner"]
  <2>1. /\ j \in Job /\ j.step = "owner" /\ j.item = a /\ j.n = n /\ j.staged = FALSE /\ j.todo = {}
    BY <1>0, ChargeFits
  <2>2. Begin(b, j) /\ period[<<a, n>>] \in {"pending", "uncollectible"}
    BY <1>3 DEF StartCollect
  <2>3. agreement[a] # "none"
    BY <2>2 DEF BInv, BooksSound
  <2>4. plan.status # "none"
    BY <2>3 DEF BInv, PlanFirst
  <2> HIDE DEF j
  <2> QED BY <1>0, <2>1, <2>2, <2>3, <2>4, BeginCharge
<1> QED BY <1>1, <1>2, <1>3

LEMMA SweepKept ==
  ASSUME BInv, NEW b \in Biller, StartSweep(b)
  PROVE  BInv'
<1> DEFINE listed == {a \in Agreement : agreement[a] \in {"active", "past_due", "cancelled"}}
           todo == {[item |-> x, status |-> agreement[x], at |-> elapsed[x]] : x \in listed}
<1>1. PICK a \in listed : Begin(b, [Charge(a, 0) EXCEPT !.step = "next", !.todo = todo])
  BY DEF StartSweep
<1>2. todo \in SUBSET Candidate /\ \A t \in todo : agreement[t.item] # "none"
  <2> SUFFICES ASSUME NEW x \in listed
        PROVE LET t == [item |-> x, status |-> agreement[x], at |-> elapsed[x]]
              IN  t \in Candidate /\ agreement[t.item] # "none"
    OBVIOUS
  <2>1. agreement[x] \in AgreementStatus /\ elapsed[x] \in -1..MaxPeriods /\ agreement[x] # "none"
    BY DEF BInv, BTypeOK
  <2> QED BY <2>1 DEF Candidate
<1>3. a \in Agreement /\ agreement[a] # "none" /\ 0 \in 0..MaxPeriods
  BY BillingAssumption
<1>4. plan.status # "none"
  BY <1>3 DEF BInv, PlanFirst
<1> HIDE DEF todo, listed
<1> DEFINE j == [Charge(a, 0) EXCEPT !.step = "next", !.todo = todo]
<1>5. /\ j \in Job /\ j.step = "next" /\ j.item = a /\ j.n = 0 /\ j.staged = FALSE /\ j.todo = todo
  BY <1>2, <1>3 DEF Charge, Job, AgreementStatus
<1>6. Begin(b, j)
  BY <1>1
<1> HIDE DEF j
<1> QED BY <1>2, <1>3, <1>4, <1>5, <1>6, BeginCharge

\* A plan is drawn up, activated or retired.
LEMMA PlanKept ==
  ASSUME BInv, (\E price \in 0..1 : CreatePlan(price)) \/ ActivatePlan \/ RetirePlan
  PROVE  BInv'
<1>1. /\ plan' \in PlanRow /\ plan'.status # "none"
      /\ plan.status = "none" \/ plan'.price = plan.price
  BY DEF CreatePlan, ActivatePlan, RetirePlan, BInv, BTypeOK, PlanRow
<1>2. UNCHANGED <<agreement, period, payment, captures, funds, elapsed, usage, job, overlap>>
  BY DEF CreatePlan, ActivatePlan, RetirePlan
<1>3. BTypeOK' /\ PlanFirst'
  BY <1>1, <1>2 DEF BInv, BTypeOK, PlanFirst, overlap
<1>4. Uncontested'
  BY <1>2 DEF BInv, Uncontested, AloneOK, Charged, overlap
<1>5. CASE plan'.price = plan.price
  BY <1>2, <1>3, <1>4, <1>5 DEF BInv, BooksSound, JobOK, Charged
<1>6. CASE plan.status = "none"
  <2>1. \A p \in Period : captures[p] # 1 /\ payment[p] # "captured" /\ period[p] = "none"
    BY <1>6 DEF BInv, PlanFirst, BooksSound, Period
  <2>2. \A b \in Biller : job[b] = NoJob
    BY <1>6 DEF BInv, PlanFirst
  <2>3. BooksSound'
    BY <1>2, <2>1 DEF BInv, BooksSound
  <2>4. \A b \in Biller : JobOK(b)'
    BY <1>2, <2>2 DEF JobOK
  <2> QED BY <1>3, <1>4, <2>3, <2>4 DEF BInv
<1> QED BY <1>1, <1>5, <1>6

LEMMA UsageKept ==
  ASSUME BInv, NEW a \in Agreement, NEW ref \in Report, RecordUsage(a, ref)
  PROVE  BInv'
<1>1. Covering(a) \in Sequence
  BY CoveringFits DEF RecordUsage, UsageInsertable, BInv
<1>2. usage' \subseteq Agreement \X Sequence \X Report
  <2>1. <<a, Covering(a), ref>> \in Agreement \X Sequence \X Report
    BY <1>1
  <2> QED BY <2>1 DEF RecordUsage, BInv, BTypeOK
<1>3. /\ UNCHANGED <<plan, agreement, period, payment, captures, funds, elapsed, job, overlap>>
  BY DEF RecordUsage
<1>4. BTypeOK'
  BY <1>2, <1>3 DEF BInv, BTypeOK, overlap
<1>5. BooksSound' /\ RowsGrow
  BY <1>3 DEF BInv, BooksSound, RowsGrow
<1> QED BY <1>3, <1>4, <1>5, OutsideStep

LEMMA DepositKept ==
  ASSUME BInv, Deposit
  PROVE  BInv'
<1>1. funds' \in 0..MaxFunds
  BY BillingAssumption DEF Deposit, BInv, BTypeOK
<1>2. BTypeOK'
  BY <1>1 DEF Deposit, BInv, BTypeOK, overlap
<1>3. BooksSound' /\ RowsGrow
  BY DEF Deposit, BInv, BooksSound, RowsGrow
<1> QED BY <1>2, <1>3, OutsideStep DEF Deposit

LEMMA ReleaseHoldKept ==
  ASSUME BInv, NEW p \in Period, ReleaseHold(p)
  PROVE  BInv'
<1>1. /\ payment'[p] = "voided" /\ \A q \in Period : q # p => payment'[q] = payment[q]
      /\ payment' \in [Period -> PaymentStatus]
  BY DEF ReleaseHold, BInv, BTypeOK, PaymentStatus
<1>2. UNCHANGED <<plan, agreement, period, captures, funds, elapsed, usage, job, overlap>>
  BY DEF ReleaseHold
<1>3. BTypeOK'
  BY <1>1, <1>2 DEF BInv, BTypeOK, overlap
<1>4. BooksSound' /\ RowsGrow
  BY <1>1, <1>2 DEF BInv, BooksSound, RowsGrow
<1> QED BY <1>2, <1>3, <1>4, OutsideStep

LEMMA PassesKept ==
  ASSUME BInv, NEW a \in Agreement, Passes(a)
  PROVE  BInv'
<1>1. elapsed[a] + 1 \in -1..MaxPeriods
  <2>1. elapsed[a] \in -1..MaxPeriods
    BY DEF BInv, BTypeOK
  <2>2. elapsed[a] < Latest(a) /\ Latest(a) \in 0..MaxPeriods
    BY LatestBounded DEF Passes
  <2> QED BY <2>1, <2>2, BillingAssumption
<1>2. elapsed' \in [Agreement -> -1..MaxPeriods]
  <2> DEFINE n == elapsed[a] + 1
  <2>1. elapsed' = [elapsed EXCEPT ![a] = n]
    BY DEF Passes, BInv, BTypeOK
  <2> HIDE DEF n
  <2> QED BY <1>1, <2>1 DEF BInv, BTypeOK, n
<1>3. UNCHANGED <<plan, agreement, period, payment, captures, funds, usage, job, overlap>>
  BY DEF Passes
<1>4. BTypeOK'
  BY <1>2, <1>3 DEF BInv, BTypeOK, overlap
<1>5. BooksSound' /\ RowsGrow
  BY <1>3 DEF BInv, BooksSound, RowsGrow
<1> QED BY <1>3, <1>4, <1>5, OutsideStep

LEMMA BillingKept == BInv /\ [BNext]_bvars => BInv'
<1> SUFFICES ASSUME BInv, [BNext]_bvars PROVE BInv'
  OBVIOUS
<1>1. CASE UNCHANGED bvars
  <2>1. BTypeOK' /\ BooksSound' /\ RowsGrow
    BY <1>1 DEF bvars, BInv, BTypeOK, BooksSound, RowsGrow
  <2> QED BY <1>1, <2>1, OutsideStep DEF bvars, overlap
<1>2. ASSUME NEW b \in Biller, ChargeStep(b) PROVE BInv'
  BY <1>2, ReadPeriodKept, ReadAgreementKept, AuthorizeKept, TakeHoldKept, CaptureWithinKept,
     SettleKept, UncollectibleKept DEF ChargeStep
<1>3. CASE BNext
  BY <1>2, <1>3, PlanKept, StartsKept, SubscribeKept, SweepKept, FindCoveringKept, CancelKept,
     RenewNextKept, OpenPeriodKept, ExpiryKept, DiesKept, UsageKept, DepositKept,
     ReleaseHoldKept, PassesKept DEF BNext
<1> QED BY <1>1, <1>3

\* Plans, agreements, periods, payments and the commands in flight stay within
\* their types; in particular no period is captured twice.
THEOREM BTyping == BSpec => []BTypeOK
<1>1. BInv => BTypeOK
  BY DEF BInv
<1> QED BY <1>1, BillingStart, BillingKept, PTL DEF BSpec

\* No period is captured more than once, however many collections, renewals, retries
\* and sweeps charge it at the same time.
THEOREM PaidOnce == BSpec => []PeriodPaidOnce
<1>1. ASSUME BInv PROVE PeriodPaidOnce
  <2>1. \A p \in Period : captures[p] \in 0..1 /\ plan.price \in 0..1 /\ (captures[p] = 1 => plan.price = 1)
    BY <1>1 DEF BInv, BTypeOK, PlanRow, BooksSound
  <2> QED BY <2>1 DEF PeriodPaidOnce
<1> QED BY <1>1, BillingStart, BillingKept, PTL DEF BSpec

\* An owner is entitled by a period only if its price was captured, whatever commands
\* overlap and wherever they die.
THEOREM Entitlement == BSpec => []EntitledHasPaid
<1>1. ASSUME BInv PROVE EntitledHasPaid
  <2> SUFFICES ASSUME NEW a \in Agreement, Entitles(a)
        PROVE captures[<<a, Covering(a)>>] = plan.price
    BY DEF EntitledHasPaid
  <2>1. Covering(a) \in Sequence
    BY <1>1, CoveringFits DEF Entitles, BInv
  <2>2. <<a, Covering(a)>> \in Period
    BY <2>1 DEF Period
  <2>3. period[<<a, Covering(a)>>] = "settled"
    BY DEF Entitles, DecideEntitlement, PeriodIsPaid
  <2> QED BY <1>1, <2>2, <2>3 DEF BInv, BooksSound
<1> QED BY <1>1, BillingStart, BillingKept, PTL DEF BSpec

\* As long as no two billing commands overlapped, a settled period has its capture and a
\* capture its settled period, through crashes between the hold and the settlement.
THEOREM Agreeing == BSpec => []UncontestedBillsAgree
<1>1. ASSUME BInv PROVE UncontestedBillsAgree
  <2> SUFFICES ASSUME contested = FALSE, NEW p \in Period
        PROVE (period[p] = "settled" /\ plan.price = 1) <=> captures[p] = 1
    BY <1>1 DEF UncontestedBillsAgree, CaptureIsExplained, BInv, BTypeOK
  <2> QED BY <1>1 DEF BInv, BooksSound, Uncontested
<1> QED BY <1>1, BillingStart, BillingKept, PTL DEF BSpec

\* A charge that read the agreement live and was overtaken.
OvertakenCharge(b, a) ==
  /\ On(b, "settle") \/ On(b, "refuse")
  /\ job[b].item = a /\ job[b].seen \notin Ended

\* One step revives an agreement that ended only if an overtaken charge takes it.
LEMMA EndedStays ==
  ASSUME BInv, BNext, NEW a \in Agreement, agreement[a] \in Ended, agreement'[a] \notin Ended
  PROVE  contested /\ \E b \in Biller : OvertakenCharge(b, a)
<1>1. ASSUME UNCHANGED agreement PROVE FALSE
  BY <1>1
<1>2. ASSUME NEW b \in Biller, NEW start, CommitSubscribe(b, start) PROVE FALSE
  BY <1>2 DEF CommitSubscribe, Subscribable, Ended, BInv, BTypeOK
<1>3. ASSUME NEW b \in Biller, On(b, "settle") \/ On(b, "refuse")
      PROVE  /\ job[b].item \in Agreement
             /\ contested = FALSE => job[b].seen = agreement[job[b].item]
  BY <1>3, JobRead DEF AloneOK, On, Decided, BInv, Uncontested
<1>4. ASSUME NEW b \in Biller, SettlePeriod(b)
      PROVE  contested /\ OvertakenCharge(b, a)
  <2>1. On(b, "settle")
    BY <1>4 DEF SettlePeriod
  <2>2. job[b].item \in Agreement
    BY <1>3, <2>1
  <2>3. \/ UNCHANGED agreement
        \/ agreement' = [agreement EXCEPT ![job[b].item] = Revived(job[b].seen, agreement[job[b].item])]
    BY <1>4, <2>2 DEF SettlePeriod, BInv, BTypeOK
  <2>4. job[b].item = a /\ job[b].seen = "past_due"
    BY <2>2, <2>3 DEF Revived, BInv, BTypeOK
  <2>5. job[b].seen # agreement[a] /\ job[b].seen \notin Ended
    BY <2>4 DEF Ended
  <2>6. contested = TRUE
    BY <1>3, <2>1, <2>4, <2>5 DEF BInv, BTypeOK
  <2> QED BY <2>1, <2>4, <2>5, <2>6 DEF OvertakenCharge
<1>5. ASSUME NEW b \in Biller, MarkUncollectible(b)
      PROVE  contested /\ OvertakenCharge(b, a)
  <2>1. On(b, "refuse")
    BY <1>5 DEF MarkUncollectible
  <2>2. job[b].item \in Agreement
    BY <1>3, <2>1
  <2>3. agreement' = [agreement EXCEPT ![job[b].item] =
                        IF job[b].seen = "active" THEN "past_due" ELSE agreement[job[b].item]]
    BY <1>5, <2>2 DEF MarkUncollectible, BInv, BTypeOK
  <2>4. job[b].item = a /\ job[b].seen = "active"
    BY <2>2, <2>3 DEF BInv, BTypeOK
  <2>5. job[b].seen # agreement[a] /\ job[b].seen \notin Ended
    BY <2>4 DEF Ended
  <2>6. contested = TRUE
    BY <1>3, <2>1, <2>4, <2>5 DEF BInv, BTypeOK
  <2> QED BY <2>1, <2>4, <2>5, <2>6 DEF OvertakenCharge
<1>6. ASSUME NEW b \in Biller, CommitCancel(b) \/ ExpireSubscription(b) PROVE FALSE
  BY <1>6 DEF CommitCancel, ExpireSubscription, Ended, BInv, BTypeOK
<1>7. ASSUME NEW b \in Biller, ChargeStep(b)
      PROVE  UNCHANGED agreement \/ SettlePeriod(b) \/ MarkUncollectible(b)
  BY <1>7 DEF ChargeStep, ReadPeriod, ReadAgreement, AuthorizeCharge, TakeHold, CaptureWithin, rows
<1>8. ASSUME NEW b \in Biller, NEW j, Begin(b, j) PROVE UNCHANGED agreement
  BY <1>8 DEF Begin, rows
<1>9. ASSUME NEW b \in Biller, NEW x \in Agreement,
             \/ StartSubscribe(b, x)
             \/ StartCancel(b, x)
             \/ \E n \in Sequence : StartCollect(b, x, n)
      PROVE  UNCHANGED agreement
  <2>1. StartSubscribe(b, x) => \E j : Begin(b, j)
    BY DEF StartSubscribe
  <2>2. StartCancel(b, x) => \E j : Begin(b, j)
    BY DEF StartCancel
  <2>3. \A n \in Sequence : StartCollect(b, x, n) => \E j : Begin(b, j)
    BY DEF StartCollect
  <2>4. \E j : Begin(b, j)
    BY <1>9, <2>1, <2>2, <2>3
  <2> QED BY <1>8, <2>4
<1>10. ASSUME NEW b \in Biller, StartSweep(b) PROVE UNCHANGED agreement
  <2>1. \E j : Begin(b, j)
    BY <1>10 DEF StartSweep
  <2> QED BY <1>8, <2>1
<1>11. ASSUME NEW b \in Biller, FindCovering(b) \/ RenewNext(b) \/ OpenPeriod(b) \/ Dies(b)
       PROVE  UNCHANGED agreement
  <2>1. FindCovering(b) => UNCHANGED agreement
    BY DEF FindCovering, rows
  <2>2. RenewNext(b) => UNCHANGED agreement
    BY DEF RenewNext, rows
  <2>3. OpenPeriod(b) => UNCHANGED agreement
    BY DEF OpenPeriod
  <2>4. Dies(b) => UNCHANGED agreement
    BY DEF Dies, rows
  <2> QED BY <1>11, <2>1, <2>2, <2>3, <2>4
<1>12. ASSUME \/ (\E price \in 0..1 : CreatePlan(price)) \/ ActivatePlan \/ RetirePlan \/ Deposit
              \/ \E x \in Agreement, ref \in Report : RecordUsage(x, ref)
              \/ \E p \in Period : ReleaseHold(p)
              \/ \E x \in Agreement : Passes(x)
       PROVE  UNCHANGED agreement
  BY <1>12 DEF CreatePlan, ActivatePlan, RetirePlan, Deposit, RecordUsage, ReleaseHold, Passes
<1> QED BY <1>1, <1>2, <1>4, <1>5, <1>6, <1>7, <1>9, <1>10, <1>11, <1>12 DEF BNext

\* An agreement that has ended is made live again only by a charge that read it live and
\* was overtaken: no charge that read it ended, and no sweep, does it.
THEOREM Cancellation == BSpec => CancellationStands
<1>1. BInv /\ [BNext]_bvars =>
        [\A a \in Agreement :
           agreement[a] \in Ended /\ agreement'[a] \notin Ended
             => /\ contested
                /\ \E b \in Biller : /\ On(b, "settle") \/ On(b, "refuse")
                                   /\ job[b].item = a /\ job[b].seen \notin Ended]_bvars
  BY EndedStays DEF OvertakenCharge
<1> QED BY <1>1, BillingStart, BillingKept, PTL DEF BSpec, CancellationStands

-----------------------------------------------------------------------------
(* The composition. *)

\* The invariants of the six modules hold together in every behaviour of the
\* composition: the one it drives takes the steps, the others stand still.
CInv ==
  /\ driven \in {"money", "billing", "retry", "access", "reputation", "geography"}
  /\ IInv /\ BInv /\ RInv /\ AInv /\ SInv /\ GInv

\* Whichever module a behaviour drives, its rows, commands and counters stay within their
\* types, for any number of clients and rows.
THEOREM CTyping == CSpec => []CTypeOK
<1>1. CInit => CInv
  <2> SUFFICES ASSUME CInit PROVE CInv
    OBVIOUS
  <2> QED BY InitHolds, BillingStart, RetryStart, CallsStart, SignalsStart, PlacesStart
          DEF CInit, CInv
<1>2. CInv /\ [CNext]_cvars => CInv'
  <2> SUFFICES ASSUME CInv, [CNext]_cvars PROVE CInv'
    OBVIOUS
  <2>1. [Next]_vars /\ [BNext]_bvars /\ [RNext]_rvars /\ [ANext]_avars /\ [SNext]_svars
        /\ [GNext]_gvars
    BY DEF CNext, cvars
  <2>2. driven' = driven
    BY DEF CNext, cvars
  <2> QED BY <2>1, <2>2, StepKeeps, BillingKept, RetryKept, CallsKept, SignalsKept, PlacesKept
          DEF CInv
<1>3. CInv => CTypeOK
  <2> SUFFICES ASSUME CInv PROVE CTypeOK
    OBVIOUS
  <2>1. BTypeOK /\ RTypeOK
    BY RetryTyped DEF CInv, BInv, RInv
  <2> QED BY <2>1 DEF CInv, CTypeOK, IInv, AInv, SInv, GInv
<1> QED BY <1>1, <1>2, <1>3, PTL DEF CSpec
=============================================================================
