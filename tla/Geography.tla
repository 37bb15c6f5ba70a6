------------------------------- MODULE Geography -------------------------------
(***************************************************************************)
(* The reference geography: countries, the regions of a country, the       *)
(* cities of a region, the service areas of a city.  A region has a code   *)
(* that is unique in its country; adding it again answers with the region  *)
(* there is.  Rows are never updated, except countries, nor deleted, so    *)
(* only the search for a region can be out of date when its insert         *)
(* commits.  A place is a point of a line: distance is all that a lookup   *)
(* uses.                                                                   *)
(***************************************************************************)
EXTENDS Integers

CONSTANTS
  Country,
  Currency,
  Code,          \* codes of regions
  Region,        \* ids
  City,
  Area,
  Spot,          \* places
  RadiusLimit,
  Surveyor,      \* processes that add regions
  NoSearch

ASSUME GeographyAssumption == Spot \subseteq Int /\ RadiusLimit \in Nat

VARIABLES
  country,    \* the currency of each registered country
  regions,
  cities,
  areas,
  search,     \* the region each surveyor found missing
  answers     \* what addRegion has answered: a region for a country and a code

gvars == <<country, regions, cities, areas, search, answers>>

CountryRow == Currency \union {"none"}
RegionRow == [id : Region, country : Country, code : Code]
CityRow == [id : City, region : Region, country : Country, at : Spot]
ServiceArea == [id : Area, city : City, country : Country, centre : Spot, radius : 1..RadiusLimit]

GInit ==
  /\ country = [n \in Country |-> "none"]
  /\ regions = {}
  /\ cities = {}
  /\ areas = {}
  /\ search = [g \in Surveyor |-> NoSearch]
  /\ answers = {}

-----------------------------------------------------------------------------

\* An upsert: the last registration decides the currency.
RegisterCountry(n, currency) ==
  /\ country' = [country EXCEPT ![n] = currency]
  /\ UNCHANGED <<regions, cities, areas, search, answers>>

FindRegion(n, code) == {r \in regions : r.country = n /\ r.code = code}

Answer(r) == answers' = answers \union {r}

\* addRegion, up to its transaction.
SearchRegion(g, n, code) ==
  /\ search[g] = NoSearch
  /\ country[n] # "none"
  /\ IF FindRegion(n, code) = {}
     THEN search' = [search EXCEPT ![g] = <<n, code>>] /\ UNCHANGED answers
     ELSE \E r \in FindRegion(n, code) : Answer(r) /\ UNCHANGED search
  /\ UNCHANGED <<country, regions, cities, areas>>

\* A mutant: no unique key.
AnyRegion(r) == TRUE

RegionInsertable(r) == FindRegion(r.country, r.code) = {}

\* The region, or the database's error.
InsertRegion(g, id) ==
  /\ search[g] # NoSearch
  /\ \A r \in regions : r.id # id
  /\ LET new == [id |-> id, country |-> search[g][1], code |-> search[g][2]]
     IN  IF RegionInsertable(new)
         THEN regions' = regions \union {new} /\ Answer(new)
         ELSE UNCHANGED <<regions, answers>>
  /\ search' = [search EXCEPT ![g] = NoSearch]
  /\ UNCHANGED <<country, cities, areas>>

SurveyorDies(g) ==
  /\ search[g] # NoSearch
  /\ search' = [search EXCEPT ![g] = NoSearch]
  /\ UNCHANGED <<country, regions, cities, areas, answers>>

\* A city is in its region's country; it has no key but its id.
AddCity(id, r, at) ==
  /\ \A c \in cities : c.id # id
  /\ cities' = cities \union {[id |-> id, region |-> r.id, country |-> r.country, at |-> at]}
  /\ UNCHANGED <<country, regions, areas, search, answers>>

\* An area is in its city's country, around the centre given or else the city.
DefineServiceArea(id, c, centre, radius) ==
  /\ \A a \in areas : a.id # id
  /\ radius > 0 /\ radius <= RadiusLimit
  /\ areas' = areas \union
       {[id |-> id, city |-> c.id, country |-> c.country, centre |-> centre, radius |-> radius]}
  /\ UNCHANGED <<country, regions, cities, search, answers>>

-----------------------------------------------------------------------------
(* Lookups. *)

DistanceMetres(from, to) == IF from < to THEN to - from ELSE from - to

Covers(a, point) == DistanceMetres(a.centre, point) <= a.radius

ListServiceAreas(within) == {a \in areas : within = "any" \/ a.country = within}

\* The areas that contain a point.  Their order, nearest first, is left out.
Resolve(point, within) == {a \in ListServiceAreas(within) : Covers(a, point)}

GNext ==
  \/ \E n \in Country, currency \in Currency : RegisterCountry(n, currency)
  \/ \E g \in Surveyor :
       \/ \E n \in Country, code \in Code : SearchRegion(g, n, code)
       \/ \E id \in Region : InsertRegion(g, id)
       \/ SurveyorDies(g)
  \/ \E id \in City, r \in regions, at \in Spot : AddCity(id, r, at)
  \/ \E id \in Area, c \in cities, centre \in Spot, radius \in 0..(RadiusLimit + 1) :
       DefineServiceArea(id, c, centre, radius)

GSpec == GInit /\ [][GNext]_gvars

-----------------------------------------------------------------------------

GTypeOK ==
  /\ country \in [Country -> CountryRow]
  /\ regions \subseteq RegionRow
  /\ cities \subseteq CityRow
  /\ areas \subseteq ServiceArea
  /\ search \in [Surveyor -> (Country \X Code) \union {NoSearch}]
  /\ answers \subseteq regions

\* The areas a lookup finds in the regions addRegion answered with for a code.
AreasOfCode(n, code, point) ==
  {a \in Resolve(point, n) :
     \E c \in cities, r \in answers : a.city = c.id /\ c.region = r.id /\ r.code = code}

\* A region code means one place ("a service area resolved by code cannot mean two
\* places"): callers who add one region at the same time, or again, are all
\* answered with the same region, and a point looked up within a country is in
\* exactly the areas that the codes of that country lead to.
CodeMeansOnePlace ==
  /\ \A r, q \in answers : r.country = q.country /\ r.code = q.code => r = q
  /\ \A point \in Spot, n \in Country :
       Resolve(point, n) = UNION {AreasOfCode(n, code, point) : code \in Code}
  /\ \A point \in Spot : Resolve(point, "any") = UNION {Resolve(point, n) : n \in Country}
=============================================================================
