----------------------------- MODULE FacilityQr -----------------------------
(***************************************************************************)
(* The QR code at the door of a facility (platform/platform.service.js and *)
(* facilityQr.service.js). Its row is active and primary, or neither, and  *)
(* only that row resolves; a unique index lets a facility have one primary *)
(* row. An administrator replaces a code that is compromised: the row is   *)
(* retired, a new one is created and its image drawn over the old one, in  *)
(* that order and in no transaction.                                       *)
(***************************************************************************)
EXTENDS Naturals

CONSTANTS
    Administrators, \* requests that can be under way together
    MaxCodes        \* bound on the codes ever issued

QrAssumption == MaxCodes \in Nat

VARIABLES
    code,       \* the status of each FacilityQrCode row
    drawn,      \* the code in the image file of the facility
    request,    \* where each request is, and the code it has in hand
    lacking,    \* history: no code was issued yet, or a request broke off after it had retired it
    undrawn     \* history: the image may not show the code: none drawn, or requests crossed or broke off

vars == <<code, drawn, request, lacking, undrawn>>

-----------------------------------------------------------------------------
QrCodes == 1 .. MaxCodes
NoCode == 0
Idle == [at |-> "idle", code |-> NoCode]

Resolves(c) == code[c] = "active"
InForce == {c \in QrCodes : Resolves(c)}
UnderWay == {a \in Administrators : request[a].at # "idle"}
Quiet == UnderWay = {}

Init ==
    /\ code = [c \in QrCodes |-> "none"]
    /\ drawn = NoCode
    /\ request = [a \in Administrators |-> Idle]
    /\ lacking = TRUE
    /\ undrawn = TRUE

Ends(a) == request' = [request EXCEPT ![a] = Idle]

\* Two requests at once, of which one may draw what the other has retired.
Begins(a, place, c) ==
    /\ request[a].at = "idle"
    /\ request' = [request EXCEPT ![a] = [at |-> place, code |-> c]]
    /\ undrawn' = (undrawn \/ ~Quiet)
    /\ UNCHANGED <<code, drawn, lacking>>

-----------------------------------------------------------------------------
\* The row of a new facility, which is given its first code. If that breaks off, the facility
\* stays as it is, without a code, and the next one is created in its place here.
createFacility(a) ==
    /\ Quiet /\ \A c \in QrCodes : code[c] = "none"
    /\ Begins(a, "retire", NoCode)

\* loadScopedFacilityWithQr: without a code in force, neither can begin.
regenerateFacilityQr(a) == \E c \in InForce : Begins(a, "invalidate", c)

downloadFacilityQr(a) == \E c \in InForce : Begins(a, "draw", c)

Invalidate(a) ==
    /\ request[a].at = "invalidate"
    /\ code' = [code EXCEPT ![request[a].code] = "replaced"]
    /\ request' = [request EXCEPT ![a].at = "retire"]
    /\ UNCHANGED <<drawn, lacking, undrawn>>

-----------------------------------------------------------------------------
(* ensureFacilityQrTokenRecord                                             *)

Retire(a) ==
    /\ request[a].at = "retire"
    /\ code' = [c \in QrCodes |-> IF Resolves(c) THEN "replaced" ELSE code[c]]
    /\ request' = [request EXCEPT ![a].at = "issue"]
    /\ UNCHANGED <<drawn, lacking, undrawn>>

\* The index refuses a second code in force, which ends the request with an error.
Issue(a) ==
    /\ request[a].at = "issue"
    /\ IF InForce # {} THEN Ends(a) /\ UNCHANGED code
       ELSE \E c \in QrCodes :
                /\ code[c] = "none" /\ \A d \in 1 .. c - 1 : code[d] # "none"
                /\ code' = [code EXCEPT ![c] = "active"]
                /\ request' = [request EXCEPT ![a] = [at |-> "draw", code |-> c]]
    /\ lacking' = (lacking /\ InForce' = {})
    /\ UNCHANGED <<drawn, undrawn>>

\* Mutant: an image that is there is not drawn again, as for the codes of toilets.
Draw_Once(a) ==
    /\ request[a].at = "draw"
    /\ drawn' = IF drawn = NoCode THEN request[a].code ELSE drawn
    /\ undrawn' = (undrawn /\ (UnderWay # {a} \/ ~Resolves(request[a].code)))
    /\ Ends(a)
    /\ UNCHANGED <<code, lacking>>

\* The file is written over, whatever the code in hand has become since.
Draw(a) ==
    /\ request[a].at = "draw"
    /\ drawn' = request[a].code
    /\ undrawn' = (undrawn /\ (UnderWay # {a} \/ ~Resolves(request[a].code)))
    /\ Ends(a)
    /\ UNCHANGED <<code, lacking>>

\* A query is rejected, the file cannot be written, or the process dies.
Fail(a) ==
    /\ request[a].at # "idle"
    /\ lacking' = (lacking \/ request[a].at \in {"retire", "issue"})
    /\ undrawn' = TRUE
    /\ Ends(a)
    /\ UNCHANGED <<code, drawn>>

Next ==
    \E a \in Administrators :
        \/ createFacility(a) \/ regenerateFacilityQr(a) \/ downloadFacilityQr(a)
        \/ Invalidate(a) \/ Retire(a) \/ Issue(a) \/ Draw(a) \/ Fail(a)

Spec == Init /\ [][Next]_vars

-----------------------------------------------------------------------------
\* Every variable has the shape the code gives it.
TypeOK ==
    /\ code \in [QrCodes -> {"none", "active", "replaced"}]
    /\ drawn \in QrCodes \cup {NoCode}
    /\ request \in [Administrators -> [at: {"idle", "invalidate", "retire", "issue", "draw"},
                                       code: QrCodes \cup {NoCode}]]
    /\ lacking \in BOOLEAN /\ undrawn \in BOOLEAN

\* However the replacements of a code, and downloads of its image, cross each other, the
\* facility has one code in force when they have ended, unless one of them broke off
\* between retiring and issuing; it is the newest code there is, so that none of those
\* replaced resolves again; and the image at the door shows it, unless two requests
\* crossed or one broke off, and none has drawn the code in force by itself since.
OneCodeInForce ==
    /\ \A c, d \in InForce : c = d
    /\ Quiet /\ ~lacking => InForce # {}
    /\ \A c \in InForce, d \in QrCodes : code[d] # "none" => d <= c
    /\ Quiet /\ ~undrawn => drawn \in InForce
=============================================================================
