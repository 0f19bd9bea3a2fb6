--------------------------- MODULE AreaHierarchy ---------------------------
(***************************************************************************)
(* The areas of a tenant beneath an official city, and the facilities that *)
(* are mapped to them (platform/platform.service.js). Administrators       *)
(* create, change and retire areas and create and move facilities: each    *)
(* handler reads the rows it asks about, and creates or saves what differs *)
(* from what it has read (module Sequelize), with no lock and no           *)
(* constraint of the database between.                                     *)
(*                                                                         *)
(* Names, codes and boundaries never clash here, and areas are created     *)
(* active. The scope of an administrator is read as the request starts,    *)
(* here with the rows it asks about.                                       *)
(***************************************************************************)
EXTENDS Naturals, Sequelize

CONSTANTS
    Areas,          \* zones, wards and clusters there can be
    Facilities,     \* facilities there can be
    City,           \* the official city above them, which stays as it is
    Nowhere,        \* no parent, no zone, no ward
    Requests,       \* requests that can be under way together
    MaxRequests     \* bound on how many there are

AreasAssumption ==
    /\ City \notin Areas /\ Nowhere \notin Areas /\ City # Nowhere
    /\ MaxRequests \in Nat

VARIABLES
    area,       \* the Geography rows
    place,      \* geography_id, zone_geography_id and ward_geography_id of the Facility rows
    request,    \* where each request is, with what it has read and will write
    made,       \* requests so far
    relevelled, \* history: areas whose level was changed
    removed,    \* history: retired by removeGeography, and not active since
    hung        \* history: had something hung beneath while it was being removed, or unasked since

vars == <<area, place, request, made, relevelled, removed, hung>>

-----------------------------------------------------------------------------
Levels == {"zone", "ward", "cluster"}
Parents == Areas \cup {City, Nowhere}

Area(level, parent, active) == [level |-> level, parent |-> parent, active |-> active]
NoArea == Area("none", Nowhere, FALSE)

Place(at, zone, ward) == [area |-> at, zone |-> zone, ward |-> ward]
NoPlace == Place(Nowhere, Nowhere, Nowhere)

Known(a) == area[a].level # "none"
LevelOf(p) == IF p = City THEN "city" ELSE area[p].level
Rank(level) == CASE level = "city" -> 3 [] level = "zone" -> 4 [] level = "ward" -> 5 [] OTHER -> 6

\* An area and those the walk up from it meets: it goes from parent to parent, and stops
\* where it would repeat itself.
Above(a) ==
    {b \in Areas : \A S \in SUBSET Areas :
        a \in S /\ (\A c \in S : area[c].parent \in Areas => area[c].parent \in S) => b \in S}

\* Whether the walk comes to a parent that is no area: the city, or none.
EndsAt(a, p) == \E b \in Above(a) : area[b].parent = p
InCity(a) == EndsAt(a, City)

\* isGeographyInLiveScope: to the city's administrator, what hangs from the city by areas
\* that are active; everything to a super administrator.
InScope(super, p) ==
    super \/ p = City \/ (p \in Areas /\ InCity(p) /\ \A b \in Above(p) : area[b].active)

\* What an area or a facility hangs beneath.
Beneath(row) == IF "parent" \in DOMAIN row THEN {row.parent} \cap Areas
                ELSE {row.area, row.zone, row.ward} \cap Areas

\* resolveFacilitiesFromGeographyScope: the facilities of the city's administrator.
Covered(f) == place[f].area = City \/ \E b \in Beneath(place[f]) : InScope(FALSE, b)

\* deriveFacilityScopeFromArea: of the ancestors of one level the uppermost counts, but the
\* area itself before them. (A walk that goes round has no uppermost, nor comes to the city,
\* which assertFacilityGeographyConsistency asks for.)
Uppermost(a, level) ==
    {b \in Above(a) : area[b].level = level /\ \A c \in Above(b) \ {b} : area[c].level # level}

AncestorOf(a, level) ==
    IF area[a].level = level THEN a
    ELSE IF Uppermost(a, level) = {} THEN Nowhere ELSE CHOOSE b \in Uppermost(a, level) : TRUE

PlaceAt(p) == IF p = City THEN Place(City, Nowhere, Nowhere)
              ELSE Place(p, AncestorOf(p, "zone"), AncestorOf(p, "ward"))

Idle == [at |-> "idle", of |-> Nowhere, seen |-> NoArea, new |-> NoArea, blamed |-> {}]

Init ==
    /\ area \in [Areas -> {NoArea, Area("zone", City, TRUE)} \cup {Area("ward", p, TRUE) : p \in Areas \cup {City}}]
    /\ \A a \in Areas : area[a].parent \in Areas => area[area[a].parent].level = "zone"
    /\ place \in [Facilities -> {NoPlace} \cup {PlaceAt(a) : a \in {b \in Areas : Known(b)}}]
    /\ request = [r \in Requests |-> Idle]
    /\ made = 0
    /\ relevelled = {} /\ removed = {} /\ hung = {}

-----------------------------------------------------------------------------
MayBegin(r) == request[r] = Idle /\ made < MaxRequests

Begins(r, where, super, of, seen, new) ==
    /\ made' = made + 1
    /\ request' = [request EXCEPT ![r] =
          [at |-> where, of |-> of, seen |-> seen, new |-> new,
           blamed |-> {a \in Beneath(new) : ~super /\ ~area[a].active}]]
    /\ UNCHANGED <<area, place, relevelled, removed, hung>>

Ends(r) == request' = [request EXCEPT ![r] = Idle] /\ UNCHANGED made

\* History: hung beneath an area while its removal was between its counts and its update, or
\* where it is not active and the administrator is not to blame the code for it: retired since
\* the request read it, a super administrator's wish, or a facility that stays in an area of
\* which nothing is asked.
Hangs(r, row) ==
    hung' = hung \cup
        {a \in Beneath(row) :
            \/ \E s \in Requests : request[s].at = "retire" /\ request[s].of = a
            \/ ~area[a].active /\ a \notin request[r].blamed}

ensureParentHierarchyIsValid(p, level) == p # Nowhere => Rank(LevelOf(p)) < Rank(level)

\* assertMunicipalParentHierarchy, with the wards that lie directly beneath the city counted.
Municipal(of, p, level) ==
    /\ level = "zone" => p = City /\ \A b \in Areas \ {of} : ~(area[b].level = "ward" /\ area[b].parent = City)
    /\ level = "ward" => p # Nowhere /\ LevelOf(p) \in {"zone", "city"}

\* The parent an administrator names is in scope and exists; only a super one may name none.
MayHang(super, of, p, level) ==
    /\ p \in Areas => Known(p)
    /\ ensureParentHierarchyIsValid(p, level)
    /\ Municipal(of, p, level)
    /\ IF p = Nowhere THEN super ELSE InScope(super, p)

AskCreateGeography(r, a, super) ==
    /\ ~Known(a) /\ \A s \in Requests : request[s].of # a
    /\ \E level \in Levels, p \in Parents :
        /\ MayHang(super, a, p, level)
        /\ Begins(r, "create", super, a, NoArea, Area(level, p, TRUE))

createGeography(r) ==
    /\ request[r].at = "create"
    /\ area' = [area EXCEPT ![request[r].of] = request[r].new]
    /\ Hangs(r, request[r].new) /\ Ends(r)
    /\ UNCHANGED <<place, relevelled, removed>>

\* Level and parent are changed, or whether it is active. Neither a new level nor a retirement
\* asks for what lies beneath, nor a new parent whether it lies beneath the area.
AskPatchGeography(r, a, super) ==
    /\ Known(a) /\ InScope(super, a)
    /\ \E new \in {Area(level, p, area[a].active) : level \in Levels, p \in Parents}
                 \cup {[area[a] EXCEPT !.active = active] : active \in BOOLEAN} :
        /\ MayHang(super, a, new.parent, new.level)
        /\ Begins(r, "patch", super, a, area[a], new)

patchGeography(r) ==
    /\ request[r].at = "patch"
    /\ LET a == request[r].of
       IN  /\ area' = [area EXCEPT ![a] = Saved(@, request[r].seen, request[r].new)]
           /\ IF area'[a].active THEN Hangs(r, area'[a]) ELSE UNCHANGED hung
           /\ removed' = IF area'[a].active THEN removed \ {a} ELSE removed
           /\ relevelled' = IF area'[a].level = area[a].level THEN relevelled ELSE relevelled \cup {a}
    /\ Ends(r) /\ UNCHANGED place

AskRemoveGeography(r, a, super) ==
    /\ Known(a) /\ InScope(super, a)
    /\ Begins(r, "count", super, a, area[a], [area[a] EXCEPT !.active = FALSE])

\* Mutant: only the facilities whose own area it is are counted.
MappedTo_Area(a) == {f \in Facilities : place[f].area = a}

MappedTo(a) == {f \in Facilities : a \in Beneath(place[f])}

ChildrenOf(a) == {b \in Areas : area[b].parent = a /\ area[b].active}

\* The two counts of removeGeography, as one.
CountBeneath(r) ==
    /\ request[r].at = "count"
    /\ LET a == request[r].of
       IN  IF MappedTo(a) = {} /\ ChildrenOf(a) = {}
           THEN request' = [request EXCEPT ![r].at = "retire"] /\ hung' = hung \ {a} /\ UNCHANGED made
           ELSE Ends(r) /\ UNCHANGED hung
    /\ UNCHANGED <<area, place, relevelled, removed>>

removeGeography(r) ==
    /\ request[r].at = "retire"
    /\ LET a == request[r].of
       IN  /\ area' = [area EXCEPT ![a] = Saved(@, request[r].seen, request[r].new)]
           /\ removed' = IF area'[a].active THEN removed ELSE removed \cup {a}
    /\ Ends(r) /\ UNCHANGED <<place, relevelled, hung>>

-----------------------------------------------------------------------------
\* assertFacilityGeographyConsistency.
Consistent(at) ==
    /\ at.area # City => InCity(at.area)
    /\ at.ward # Nowhere => area[at.ward].parent = IF at.zone = Nowhere THEN City ELSE at.zone

\* ensureScopedGeographyInTenant, of an area that the administrator names.
Offered(super, p) == InScope(super, p) /\ (p \in Areas => area[p].active)

AskCreateFacility(r, f, super) ==
    /\ place[f] = NoPlace /\ \A s \in Requests : request[s].of # f
    /\ \E p \in Areas \cup {City} :
        /\ Offered(super, p) /\ Consistent(PlaceAt(p))
        /\ Begins(r, "facility", super, f, NoPlace, PlaceAt(p))

\* Whatever is patched, zone and ward are derived anew, of the area named or the present one.
\* Of the present one nothing is asked: the areas about it need not be active then, and the
\* facility may come to be mapped to one that it was not mapped to, and that was removed.
AskPatchFacility(r, f, super) ==
    /\ place[f] # NoPlace
    /\ super \/ Covered(f)
    /\ \E p \in Areas \cup {City} :
        /\ p = place[f].area \/ Offered(super, p)
        /\ Consistent(PlaceAt(p))
        /\ Begins(r, "facility", super \/ (p = place[f].area /\ ~InScope(FALSE, p)), f, place[f], PlaceAt(p))

\* createFacility and patchFacility, which write the same columns.
saveFacility(r) ==
    /\ request[r].at = "facility"
    /\ LET f == request[r].of
       IN  /\ place' = [place EXCEPT ![f] = Saved(@, request[r].seen, request[r].new)]
           /\ Hangs(r, place'[f])
    /\ Ends(r) /\ UNCHANGED <<area, relevelled, removed>>

\* A query is rejected, or the process dies.
Fail(r) ==
    /\ request[r] # Idle
    /\ Ends(r) /\ UNCHANGED <<area, place, relevelled, removed, hung>>

Next ==
    \E r \in Requests :
        \/ /\ MayBegin(r)
           /\ \E super \in BOOLEAN :
                \/ \E a \in Areas : AskCreateGeography(r, a, super) \/ AskPatchGeography(r, a, super)
                                    \/ AskRemoveGeography(r, a, super)
                \/ \E f \in Facilities : AskCreateFacility(r, f, super) \/ AskPatchFacility(r, f, super)
        \/ createGeography(r) \/ patchGeography(r) \/ CountBeneath(r) \/ removeGeography(r)
        \/ saveFacility(r) \/ Fail(r)

Spec == Init /\ [][Next]_vars

-----------------------------------------------------------------------------
\* Every variable has the shape the code gives it.
TypeOK ==
    /\ area \in [Areas -> [level: Levels \cup {"none"}, parent: Parents, active: BOOLEAN]]
    /\ place \in [Facilities -> [area: Parents, zone: Areas \cup {Nowhere}, ward: Areas \cup {Nowhere}]]
    /\ \A r \in Requests : request[r].at \in {"idle", "create", "patch", "count", "retire", "facility"}
    /\ made \in 0 .. MaxRequests
    /\ relevelled \subseteq Areas /\ removed \subseteq Areas /\ hung \subseteq Areas

\* The areas nest, whoever moves them at once: a walk up from any area, which is what scopes
\* and facilities go by, comes to the city or to a cluster that was put beneath nothing. Not
\* so where the level of an area on the walk was changed, for which nothing asks what lies
\* beneath: a zone made a cluster can be put beneath its own ward.
AreasNest ==
    \A a \in Areas : Known(a) =>
        \/ EndsAt(a, City) \/ EndsAt(a, Nowhere)
        \/ Above(a) \cap relevelled # {}

\* "Cannot delete geography with child geographies", nor one "mapped to facilities": an area
\* that was removed has no active area beneath it and no facility in it, by whichever of its
\* three columns, though the counts and the update are steps of their own and others move
\* and create; but what was hung beneath it meanwhile, and since then by a super administrator
\* or with a facility that stays in an area out of service.
RemovedAreEmpty ==
    \A a \in removed \ hung :
        /\ \A f \in Facilities : a \notin Beneath(place[f])
        /\ \A b \in Areas : area[b].active => a \notin Beneath(area[b])
=============================================================================
