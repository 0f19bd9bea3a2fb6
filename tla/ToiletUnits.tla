---------------------------- MODULE ToiletUnits -----------------------------
(***************************************************************************)
(* Whether a toilet may be inspected. Administrators deactivate it,        *)
(* reactivate it or delete it (platform/platform.service.js); the rollup   *)
(* of any of its inspections writes the status its scores ask for          *)
(* (recomputeToiletAggregates, inspections/inspectionEvidence.service.js); *)
(* every handler of an inspection asks first whether the toilet is to be   *)
(* had. All read the row, await, and save what differs (module Sequelize). *)
(***************************************************************************)
EXTENDS Naturals, Sequelize

CONSTANTS
    Requests,       \* requests and rollups that can be under way together
    MaxRequests     \* bound on how many there are

ToiletAssumption == MaxRequests \in Nat

VARIABLES
    unit,       \* the ToiletUnit row: status, and whether deactivated_at and deleted_at are set
    request,    \* where each request is, with what it has read
    made,       \* requests so far
    closed,     \* history: deactivated or deleted, and not reactivated since
    removed,    \* history: deleted
    rolled,     \* history: a rollup has written the row since it was closed
    crossed     \* history: two administrators dealt with the toilet together

vars == <<unit, request, made, closed, removed, rolled, crossed>>

-----------------------------------------------------------------------------
Scored == {"clean", "moderate", "poor", "critical"}
Orders == {"deactivate", "reactivate", "delete"}
Unit(status, deactivated, deleted) == [status |-> status, deactivated |-> deactivated, deleted |-> deleted]
Idle == [at |-> "idle", seen |-> Unit("moderate", FALSE, FALSE)]

\* Mutant: the status alone is asked for.
Available_ByStatus == unit.status # "out_of_service"

\* assertToiletAvailableForInspection, of a facility that is active.
Available == ~unit.deleted /\ unit.status # "out_of_service"

Init ==
    /\ unit = Unit("moderate", FALSE, FALSE)
    /\ request = [r \in Requests |-> Idle]
    /\ made = 0
    /\ closed = FALSE /\ removed = FALSE /\ rolled = FALSE /\ crossed = FALSE

Reads(r, place) ==
    /\ request[r].at = "idle" /\ made < MaxRequests
    /\ made' = made + 1
    /\ request' = [request EXCEPT ![r] = [at |-> place, seen |-> unit]]
    /\ UNCHANGED <<unit, closed, removed, rolled>>

Writes(r, values) ==
    /\ unit' = Saved(unit, request[r].seen, values)
    /\ request' = [request EXCEPT ![r] = Idle]
    /\ UNCHANGED <<made, crossed>>

-----------------------------------------------------------------------------
\* loadScopedToiletUnitForLifecycle, and the refusal of a deleted toilet to all but deletion.
LoadUnit(r, order) ==
    /\ order = "delete" \/ ~unit.deleted
    /\ Reads(r, order)
    /\ crossed' = (crossed \/ \E s \in Requests : request[s].at \in Orders)

deactivateToiletUnit(r) ==
    /\ request[r].at = "deactivate"
    /\ Writes(r, [request[r].seen EXCEPT !.status = "out_of_service", !.deactivated = TRUE])
    /\ closed' = TRUE /\ UNCHANGED <<removed, rolled>>

\* The administrator names the status, or it is moderate until the next rollup.
reactivateToiletUnit(r) ==
    /\ request[r].at = "reactivate"
    /\ \E status \in Scored :
        Writes(r, [request[r].seen EXCEPT !.status = status, !.deactivated = FALSE])
    /\ closed' = removed /\ rolled' = (removed /\ rolled) /\ UNCHANGED removed

softDeleteToiletUnit(r) ==
    /\ request[r].at = "delete"
    /\ Writes(r, Unit("out_of_service", TRUE, TRUE))
    /\ closed' = TRUE /\ removed' = TRUE /\ UNCHANGED rolled

-----------------------------------------------------------------------------
(* recomputeToiletAggregates, in whatever rolls an inspection up: uploads, *)
(* reviews, runs of the analysis that end while the toilet is closed.      *)

ReadUnit(r) == Reads(r, "rollup") /\ UNCHANGED crossed

\* The status follows the latest score, or is moderate where nothing is scored.
WriteScores(r) ==
    /\ request[r].at = "rollup"
    /\ \E status \in Scored : Writes(r, [request[r].seen EXCEPT !.status = status])
    /\ rolled' = closed /\ UNCHANGED <<closed, removed>>

\* A query is rejected, or the rollup's transaction is rolled back.
Fail(r) ==
    /\ request[r].at # "idle"
    /\ request' = [request EXCEPT ![r] = Idle]
    /\ UNCHANGED <<unit, made, closed, removed, rolled, crossed>>

Next ==
    \E r \in Requests :
        \/ \E order \in Orders : LoadUnit(r, order)
        \/ deactivateToiletUnit(r) \/ reactivateToiletUnit(r) \/ softDeleteToiletUnit(r)
        \/ ReadUnit(r) \/ WriteScores(r) \/ Fail(r)

Spec == Init /\ [][Next]_vars

-----------------------------------------------------------------------------
\* Every variable has the shape the code gives it.
TypeOK ==
    /\ unit \in [status: Scored \cup {"out_of_service"}, deactivated: BOOLEAN, deleted: BOOLEAN]
    /\ \A r \in Requests : request[r].at \in {"idle", "rollup"} \cup Orders
    /\ made \in 0 .. MaxRequests
    /\ closed \in BOOLEAN /\ removed \in BOOLEAN /\ rolled \in BOOLEAN /\ crossed \in BOOLEAN

\* Whatever is rolled up, reactivated or deactivated beside it, a deleted toilet is never
\* to be had again; and one that is deactivated is not, nor is one that is in service
\* refused, unless two administrators dealt with it together or a rollup has written its
\* status since.
ClosedUnlessRolledUp ==
    /\ removed => ~Available
    /\ crossed \/ rolled \/ (closed <=> ~Available)
    /\ crossed \/ (closed <=> unit.deactivated)

\* "Toilet deactivated successfully" (platform.controller.js:430): no inspection of it is let
\* through, until an administrator reactivates it ("This toilet is inactive.",
\* inspection.service.js:445). It does not hold: the rollup of an inspection that was under
\* way writes a status of its scores over "out_of_service", and the status is all that is
\* asked for.
DeactivatedIsClosed == closed /\ ~crossed => ~Available
=============================================================================
