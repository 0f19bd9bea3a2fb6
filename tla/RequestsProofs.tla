--------------------------- MODULE RequestsProofs ---------------------------
(***************************************************************************)
(* Proofs about the parts of MCRequests, each for every value of its       *)
(* constants and however many requests are under way together.             *)
(***************************************************************************)
EXTENDS MCRequests, FiniteSetTheorems, TLAPS

\* A step of the whole is, for every part, a step of that part or none.
LEMMA StepOfParts ==
    ASSUME [MCNext]_all
    PROVE  /\ [W!Next]_importVars /\ [M!Next]_mappingVars /\ [N!Next]_noticeVars
           /\ [Q!Next]_qrVars /\ [T!Next]_unitVars /\ [H!Next]_areaVars
           /\ part' = part
BY DEF MCNext, all

-----------------------------------------------------------------------------
(* The idempotency middleware (Idempotency), by itself.                    *)

\* Whoever got past the comparison of payloads agrees with the record, which
\* never changes its payload, and a stored answer is one of theirs.
Agreement ==
    /\ \A r \in Requests : at[r] \in {"clear", "lock", "replayed"} =>
          record.stored /\ record.hash = body[r]
    /\ \A r \in Requests : at[r] = "reread" => record.stored
    /\ \A r \in Requests : at[r] \in InHandler => r \in admitted
    /\ \A r \in admitted : record.stored /\ record.hash = body[r]
    /\ record.response # NoRequest => record.response \in admitted
    /\ \A r \in Requests : at[r] = "replayed" => answer[r] \in admitted

\* The answer of request q is kept, or q is in the handler and its lease runs.
Owns(q) ==
    \/ record.response = q
    \/ at[q] \in InHandler /\ record.lockedUntil = now[q] + LockMs

\* As long as the key was not reopened: nobody saw the record open, every
\* request is within its lease, and one request owns the record.
Closed ==
    /\ \A r \in Requests : at[r] \notin {"clear", "lock"}
    /\ \A r \in Open : now[r] <= clock /\ clock < now[r] + LockMs
    /\ ~record.stored => admitted = {}
    /\ record.stored => /\ record.expiresAt > clock
                        /\ \E q \in Requests : admitted = {q} /\ Owns(q)

MiddlewareInv ==
    /\ TypeOK
    /\ Agreement
    /\ ~reopened => Closed

-----------------------------------------------------------------------------
LEMMA MiddlewareInit == Init => MiddlewareInv
<1> SUFFICES ASSUME Init PROVE MiddlewareInv
  OBVIOUS
<1>1. (CHOOSE b \in Bodies : TRUE) \in Bodies
  BY ConstantsAssumption
<1>2. TypeOK
  <2>1. record \in [stored : BOOLEAN, hash : Bodies, response : Requests \cup {NoRequest},
                   lockedUntil : Nat, expiresAt : Nat]
    BY <1>1 DEF Init, Absent, Null
  <2>2. now \in [Requests -> Nat] /\ seen \in [Requests -> [answered : BOOLEAN, lockedUntil : Nat]]
    BY DEF Init, Null, NothingSeen
  <2>3. at \in [Requests -> Places]
    BY DEF Init, Places
  <2>4. answer \in [Requests -> Requests \cup {NoRequest}] /\ kept \in [Requests -> BOOLEAN]
    BY DEF Init
  <2>5. clock \in Nat \ {0} /\ admitted \subseteq Requests
    BY DEF Init
  <2>6. body \in [Requests -> Bodies] /\ reopened \in BOOLEAN
    BY DEF Init
  <2> QED
    BY <2>1, <2>2, <2>3, <2>4, <2>5, <2>6 DEF TypeOK
<1>3. Agreement
  BY ConstantsAssumption DEF Init, Agreement, Absent, InHandler
<1>4. Closed
  BY DEF Init, Closed, Absent, Open, InMiddleware, InHandler
<1> QED
  BY <1>2, <1>3, <1>4 DEF MiddlewareInv

LEMMA VerdictType ==
    ASSUME NEW r \in Requests
    PROVE  Verdict(r) \in {"conflict", "replayed", "clear", "refused", "lock"}
BY DEF Verdict

LEMMA MiddlewareTypeStep ==
    ASSUME TypeOK, [Next]_vars
    PROVE  TypeOK'
<1> USE DEF TypeOK
<1>0. LockMs \in Nat /\ TtlMs \in Nat
  BY ConstantsAssumption
<1>1. CASE UNCHANGED vars
  BY <1>1 DEF vars
<1>2. CASE Tick
  BY <1>2 DEF Tick
<1>3. ASSUME NEW r \in Requests, withIdempotency(r) PROVE TypeOK'
  <2> USE DEF Places, InMiddleware, InHandler, Final
  <2>1. CASE Enter(r)
    BY <2>1 DEF Enter
  <2>2. CASE FindNothing(r)
    BY <2>2 DEF FindNothing
  <2>3. CASE FindStored(r) \/ Reread(r)
    <3>1. Judge(r)
      BY <2>3 DEF FindStored, Reread
    <3>2. [answered |-> record.response # NoRequest, lockedUntil |-> record.lockedUntil]
            \in [answered : BOOLEAN, lockedUntil : Nat]
      OBVIOUS
    <3>3. seen' \in [Requests -> [answered : BOOLEAN, lockedUntil : Nat]]
      BY <3>1, <3>2 DEF Judge
    <3> QED
      BY <3>1, <3>3, VerdictType DEF Judge
  <2>4. CASE Clear(r)
    <3>1. record' \in [stored : BOOLEAN, hash : Bodies, response : Requests \cup {NoRequest},
                      lockedUntil : Nat, expiresAt : Nat]
      BY <2>4 DEF Clear, Null
    <3> QED
      BY <2>4, <3>1 DEF Clear
  <2>5. CASE Lock(r)
    <3>1. record' \in [stored : BOOLEAN, hash : Bodies, response : Requests \cup {NoRequest},
                      lockedUntil : Nat, expiresAt : Nat]
      <4>1. now[r] + LockMs \in Nat
        BY <1>0
      <4> QED
        BY <2>5, <4>1 DEF Lock
    <3> QED
      BY <2>5, <3>1 DEF Lock
  <2>6. CASE Create(r)
    BY <2>6, <1>0 DEF Create
  <2>7. CASE CreateLoses(r)
    BY <2>7 DEF CreateLoses
  <2>8. CASE Handle(r)
    BY <2>8 DEF Handle
  <2>9. CASE Finish(r)
    <3>1. record' \in [stored : BOOLEAN, hash : Bodies, response : Requests \cup {NoRequest},
                      lockedUntil : Nat, expiresAt : Nat]
      <4>1. CASE kept[r]
        <5>1. clock + TtlMs \in Nat
          BY <1>0
        <5>2. record' = [record EXCEPT !.response = r, !.lockedUntil = 0, !.expiresAt = clock + TtlMs]
          BY <2>9, <4>1 DEF Finish, Null
        <5> QED
          BY <5>1, <5>2
      <4>2. CASE ~kept[r]
        BY <2>9, <4>2 DEF Finish, Null
      <4> QED
        BY <4>1, <4>2
    <3> QED
      BY <2>9, <3>1 DEF Finish
  <2>10. CASE Abandon(r)
    BY <2>10 DEF Abandon
  <2> QED
    BY <1>3, <2>1, <2>2, <2>3, <2>4, <2>5, <2>6, <2>7, <2>8, <2>9, <2>10 DEF withIdempotency
<1> QED
  BY <1>1, <1>2, <1>3 DEF Next

\* A verdict that lets a request in, or replays, is given on its own payload.
LEMMA VerdictAgrees ==
    ASSUME NEW r \in Requests, Verdict(r) \in {"clear", "lock", "replayed"}
    PROVE  /\ record.hash = body[r]
           /\ Verdict(r) = "replayed" => record.response # NoRequest
BY DEF Verdict

LEMMA AgreementStep ==
    ASSUME TypeOK, Agreement, [Next]_vars
    PROVE  Agreement'
<1> USE DEF Agreement, TypeOK, InHandler
<1>1. CASE UNCHANGED vars
  BY <1>1 DEF vars
<1>2. CASE Tick
  BY <1>2 DEF Tick
<1>3. ASSUME NEW r \in Requests, withIdempotency(r) PROVE Agreement'
  <2>1. CASE Enter(r)
    BY <2>1 DEF Enter
  <2>2. CASE FindNothing(r)
    BY <2>2 DEF FindNothing
  <2>3. CASE FindStored(r) \/ Reread(r)
    <3>1. record.stored /\ Judge(r)
      BY <2>3 DEF FindStored, Reread
    <3> QED
      BY <3>1, VerdictType, VerdictAgrees DEF Judge
  <2>4. CASE Clear(r)
    BY <2>4 DEF Clear
  <2>5. CASE Lock(r)
    BY <2>5 DEF Lock
  <2>6. CASE Create(r)
    BY <2>6 DEF Create
  <2>7. CASE CreateLoses(r)
    BY <2>7 DEF CreateLoses
  <2>8. CASE Handle(r)
    BY <2>8 DEF Handle
  <2>9. CASE Finish(r)
    BY <2>9 DEF Finish
  <2>10. CASE Abandon(r)
    BY <2>10 DEF Abandon
  <2> QED
    BY <1>3, <2>1, <2>2, <2>3, <2>4, <2>5, <2>6, <2>7, <2>8, <2>9, <2>10 DEF withIdempotency
<1> QED
  BY <1>1, <1>2, <1>3 DEF Next

-----------------------------------------------------------------------------
\* While the key is closed a request that reads the record is not let in.
LEMMA ClosedVerdict ==
    ASSUME TypeOK, Closed, NEW r \in Open, record.stored
    PROVE  Verdict(r) \in {"conflict", "replayed", "refused"}
<1>1. r \in Requests /\ now[r] \in Nat /\ now[r] <= clock /\ clock \in Nat
  BY DEF Open, Closed, TypeOK
<1>2. record.expiresAt \in Nat /\ record.expiresAt > clock
  BY DEF Closed, TypeOK
<1>3. ~Expired(r)
  BY <1>1, <1>2 DEF Expired
<1>4. PICK q \in Requests : Owns(q)
  BY DEF Closed
<1>5. CASE record.response = q
  BY <1>3, <1>5, ConstantsAssumption DEF Verdict
<1>6. CASE at[q] \in InHandler /\ record.lockedUntil = now[q] + LockMs
  <2>1. q \in Open
    BY <1>6 DEF Open
  <2>2. clock < record.lockedUntil /\ record.lockedUntil \in Nat
    BY <1>6, <2>1 DEF Closed, TypeOK
  <2>3. LockedFor(r, record.lockedUntil)
    BY <1>1, <2>2 DEF LockedFor
  <2> QED
    BY <1>3, <2>3 DEF Verdict
<1> QED
  BY <1>4, <1>5, <1>6 DEF Owns

LEMMA ClosedStep ==
    ASSUME TypeOK, TypeOK', Agreement, ~reopened => Closed, [Next]_vars, ~reopened'
    PROVE  Closed'
<1>0. ~reopened
  BY DEF Next, vars, Tick, withIdempotency, Enter, FindStored, FindNothing, Judge, Clear, Lock,
         Create, CreateLoses, Reread, Handle, Finish, Abandon, TypeOK
<1> USE <1>0 DEF Closed, Owns, TypeOK
<1>c. LockMs \in Nat \ {0} /\ TtlMs \in Nat \ {0} /\ LockMs <= TtlMs
  BY ConstantsAssumption
<1>1. CASE UNCHANGED vars
  BY <1>1 DEF vars, Open
<1>2. CASE Tick
  <2>1. Open' = Open /\ UNCHANGED <<record, at, now, admitted>> /\ clock' = clock + 1
    BY <1>2 DEF Tick, Open
  <2>2. \A r \in Open : now[r] <= clock' /\ clock' < now[r] + LockMs
    BY <1>2, <2>1, <1>c DEF Tick, Open
  <2>3. record.stored => record.expiresAt > clock'
    BY <1>2, <2>1 DEF Tick, Null
  <2> QED
    BY <2>1, <2>2, <2>3
<1>3. ASSUME NEW r \in Requests, withIdempotency(r) PROVE Closed'
  <2> USE DEF Open, InMiddleware, InHandler
  <2>1. CASE Enter(r)
    BY <2>1, <1>c DEF Enter
  <2>2. CASE FindNothing(r)
    BY <2>2 DEF FindNothing
  <2>3. CASE FindStored(r) \/ Reread(r)
    <3>1. r \in Open /\ record.stored /\ Judge(r)
      BY <2>3 DEF FindStored, Reread, Agreement
    <3>2. Verdict(r) \in {"conflict", "replayed", "refused"}
      BY <3>1, ClosedVerdict
    <3> QED
      BY <3>1, <3>2, <2>3 DEF Judge, FindStored, Reread
  <2>4. CASE Clear(r)
    BY <2>4 DEF Clear
  <2>5. CASE Lock(r)
    BY <2>5 DEF Lock
  <2>6. CASE Create(r)
    <3>1. admitted' = {r}
      BY <2>6 DEF Create
    <3>2. now[r] <= clock /\ clock < now[r] + LockMs /\ clock \in Nat /\ now[r] \in Nat
      BY <2>6 DEF Create
    <3>3. record'.expiresAt > clock'
      BY <2>6, <3>2, <1>c DEF Create
    <3> QED
      BY <2>6, <3>1, <3>2, <3>3 DEF Create
  <2>7. CASE CreateLoses(r)
    BY <2>7 DEF CreateLoses
  <2>8. CASE Handle(r)
    BY <2>8 DEF Handle
  <2>9. CASE Finish(r)
    <3>1. r \in admitted /\ record.stored
      BY <2>9 DEF Finish, Agreement
    <3>2. admitted = {r}
      BY <3>1
    <3>3. record' = [record EXCEPT !.response = r, !.lockedUntil = Null,
                                   !.expiresAt = clock + TtlMs]
      BY <2>9 DEF Finish
    <3>4. record'.response = r /\ record'.stored /\ record'.expiresAt > clock
      BY <3>1, <3>3, <1>c
    <3> QED
      BY <2>9, <3>2, <3>4 DEF Finish
  <2>10. CASE Abandon(r)
    BY <2>10 DEF Abandon
  <2> QED
    BY <1>3, <2>1, <2>2, <2>3, <2>4, <2>5, <2>6, <2>7, <2>8, <2>9, <2>10 DEF withIdempotency
<1> QED
  BY <1>1, <1>2, <1>3 DEF Next

-----------------------------------------------------------------------------
\* The middleware keeps the whole invariant.
THEOREM MiddlewareKeeps == Spec => []MiddlewareInv
<1>1. Init => MiddlewareInv
  BY MiddlewareInit
<1>2. MiddlewareInv /\ [Next]_vars => MiddlewareInv'
  BY MiddlewareTypeStep, AgreementStep, ClosedStep DEF MiddlewareInv
<1> QED
  BY <1>1, <1>2, PTL DEF Spec

\* The variables of the middleware and its record keep their types.
THEOREM MiddlewareTypes == Spec => []TypeOK
<1>1. MiddlewareInv => TypeOK
  BY DEF MiddlewareInv
<1> QED
  BY <1>1, MiddlewareKeeps, PTL

\* A replayed answer answers the payload it is given for, by a handler that ran.
THEOREM ReplaysAreFaithful == Spec => []ReplayAnswersSameBody
<1>1. MiddlewareInv => ReplayAnswersSameBody
  BY DEF MiddlewareInv, Agreement, ReplayAnswersSameBody
<1> QED
  BY <1>1, MiddlewareKeeps, PTL

\* At most one request reaches the handler until the key is open again.
THEOREM OneHandler == Spec => []OneHandlerUntilReopened
<1>1. MiddlewareInv => OneHandlerUntilReopened
  <2> SUFFICES ASSUME MiddlewareInv, ~reopened PROVE Cardinality(admitted) <= 1
    BY DEF OneHandlerUntilReopened
  <2>1. CASE record.stored
    <3>1. PICK q \in Requests : admitted = {q}
      BY <2>1 DEF MiddlewareInv, Closed
    <3>2. Cardinality({q}) = 1
      BY FS_Singleton
    <3> QED
      BY <3>1, <3>2
  <2>2. CASE ~record.stored
    BY <2>2, FS_EmptySet DEF MiddlewareInv, Closed
  <2> QED
    BY <2>1, <2>2
<1> QED
  BY <1>1, MiddlewareKeeps, PTL

-----------------------------------------------------------------------------
(* The codes of a facility (FacilityQr).                                   *)

\* Codes are issued in order, one is in force, and it is the newest.
QrOrder ==
    /\ \A c, d \in Q!QrCodes : d < c /\ code[c] # "none" => code[d] # "none"
    /\ \A c \in Q!InForce, d \in Q!QrCodes : code[d] # "none" => d <= c

\* A facility without a code in force has a request that is about to issue one.
QrOwed == Q!InForce = {} /\ ~lacking => \E a \in Administrators : replacement[a].at \in {"retire", "issue"}

\* As long as the image is to be trusted one request is under way, and what it will draw resolves.
QrDrawn ==
    ~undrawn =>
        /\ \A a, b \in Q!UnderWay : a = b
        /\ \A a \in Administrators :
            /\ replacement[a].at = "issue" => Q!InForce = {}
            /\ replacement[a].at = "draw" => replacement[a].code \in Q!InForce
        /\ Q!Quiet => drawn \in Q!InForce

\* What is invalidated or drawn is a code that was issued.
QrHeld == \A a \in Administrators :
    replacement[a].at \in {"invalidate", "draw"} =>
        replacement[a].code \in Q!QrCodes /\ code[replacement[a].code] # "none"

QrInv ==
    /\ Q!TypeOK
    /\ QrHeld
    /\ QrOrder
    /\ QrOwed
    /\ QrDrawn

LEMMA QrInit == Q!Init => QrInv
BY DEF Q!Init, QrInv, QrHeld, Q!TypeOK, QrOrder, QrOwed, QrDrawn, Q!Idle, Q!NoCode, Q!InForce, Q!Resolves, Q!UnderWay

LEMMA QrTypeStep ==
    ASSUME QrInv, [Q!Next]_qrVars
    PROVE  Q!TypeOK' /\ QrHeld'
<1> USE DEF QrInv, QrHeld, Q!TypeOK, Q!Idle, Q!NoCode, Q!InForce, Q!Ends
<1>1. CASE UNCHANGED qrVars
  BY <1>1 DEF qrVars
<1>2. ASSUME NEW a \in Administrators, NEW where \in {"invalidate", "retire", "draw"}, NEW c \in Q!QrCodes \cup {Q!NoCode},
             Q!Begins(a, where, c),
             where # "retire" => c \in Q!QrCodes /\ code[c] # "none"
      PROVE  Q!TypeOK' /\ QrHeld'
  BY <1>2 DEF Q!Begins
<1>3. ASSUME NEW a \in Administrators, Q!Invalidate(a) PROVE Q!TypeOK' /\ QrHeld'
  BY <1>3 DEF Q!Invalidate
<1>4. ASSUME NEW a \in Administrators, Q!Retire(a) PROVE Q!TypeOK' /\ QrHeld'
  BY <1>4 DEF Q!Retire
<1>5. ASSUME NEW a \in Administrators, Q!Issue(a) PROVE Q!TypeOK' /\ QrHeld'
  BY <1>5 DEF Q!Issue
<1>6. ASSUME NEW a \in Administrators, Q!Draw(a) PROVE Q!TypeOK' /\ QrHeld'
  BY <1>6 DEF Q!Draw
<1>7. ASSUME NEW a \in Administrators, Q!Fail(a) PROVE Q!TypeOK' /\ QrHeld'
  BY <1>7 DEF Q!Fail
<1> QED
  BY <1>1, <1>2, <1>3, <1>4, <1>5, <1>6, <1>7
  DEF Q!Next, Q!createFacility, Q!regenerateFacilityQr, Q!downloadFacilityQr, Q!Resolves

LEMMA QrOrderStep ==
    ASSUME QrInv, [Q!Next]_qrVars
    PROVE  QrOrder'
<1>0. MaxCodes \in Nat
  BY RequestsAssumption DEF Q!QrAssumption
<1> USE DEF QrInv, QrHeld, Q!TypeOK, QrOrder, Q!InForce, Q!Resolves, Q!QrCodes
<1>1. CASE UNCHANGED code
  BY <1>1
<1>2. ASSUME NEW a \in Administrators, Q!Invalidate(a) PROVE QrOrder'
  BY <1>2 DEF Q!Invalidate
<1>3. ASSUME NEW a \in Administrators, Q!Retire(a) PROVE QrOrder'
  BY <1>3 DEF Q!Retire
<1>4. ASSUME NEW a \in Administrators, Q!Issue(a) PROVE QrOrder'
  <2>1. CASE Q!InForce # {}
    BY <1>1, <1>4, <2>1 DEF Q!Issue
  <2>2. CASE Q!InForce = {}
    <3>1. PICK c \in Q!QrCodes : /\ code[c] = "none" /\ \A d \in 1 .. c - 1 : code[d] # "none"
                                 /\ code' = [code EXCEPT ![c] = "active"]
      BY <1>4, <2>2 DEF Q!Issue
    <3>2. \A d \in Q!QrCodes : d < c <=> code[d] # "none"
      BY <3>1, <1>0
    <3>3. \A d \in Q!QrCodes : d <= c <=> code'[d] # "none"
      BY <3>1, <3>2, <1>0
    <3>4. Q!InForce' = {c}
      BY <2>2, <3>1
    <3> QED
      <4>1. \A d, e \in Q!QrCodes : e < d /\ code'[d] # "none" => code'[e] # "none"
        <5> SUFFICES ASSUME NEW d \in Q!QrCodes, NEW e \in Q!QrCodes, e < d, code'[d] # "none"
                     PROVE  code'[e] # "none"
          OBVIOUS
        <5>1. d <= c /\ e <= c
          BY <3>3, <1>0
        <5> QED
          BY <3>3, <5>1
      <4> QED
        BY <3>3, <3>4, <4>1
  <2> QED
    BY <2>1, <2>2
<1> QED
  BY <1>1, <1>2, <1>3, <1>4 DEF Q!Next, qrVars, Q!Begins, Q!createFacility, Q!regenerateFacilityQr,
     Q!downloadFacilityQr, Q!Draw, Q!Fail

LEMMA QrOwedStep ==
    ASSUME QrInv, [Q!Next]_qrVars
    PROVE  QrOwed'
<1> USE DEF QrInv, Q!TypeOK, QrOwed, Q!InForce, Q!Resolves, Q!Ends, Q!Idle
<1>1. CASE UNCHANGED qrVars
  BY <1>1 DEF qrVars
<1>2. ASSUME NEW a \in Administrators, NEW where, NEW c, Q!Begins(a, where, c) PROVE QrOwed'
  BY <1>2 DEF Q!Begins
<1>3. ASSUME NEW a \in Administrators, Q!Invalidate(a) PROVE QrOwed'
  BY <1>3 DEF Q!Invalidate
<1>4. ASSUME NEW a \in Administrators, Q!Retire(a) PROVE QrOwed'
  BY <1>4 DEF Q!Retire
<1>5. ASSUME NEW a \in Administrators, Q!Issue(a) PROVE QrOwed'
  BY <1>5 DEF Q!Issue
<1>6. ASSUME NEW a \in Administrators, Q!Draw(a) PROVE QrOwed'
  BY <1>6 DEF Q!Draw
<1>7. ASSUME NEW a \in Administrators, Q!Fail(a) PROVE QrOwed'
  BY <1>7 DEF Q!Fail
<1> QED
  BY <1>1, <1>2, <1>3, <1>4, <1>5, <1>6, <1>7
  DEF Q!Next, Q!createFacility, Q!regenerateFacilityQr, Q!downloadFacilityQr

LEMMA QrDrawnStep ==
    ASSUME QrInv, [Q!Next]_qrVars
    PROVE  QrDrawn'
<1> USE DEF QrInv, QrHeld, Q!TypeOK, QrDrawn, Q!InForce, Q!Resolves, Q!Ends, Q!Idle, Q!Quiet, Q!UnderWay
<1>1. CASE UNCHANGED qrVars
  BY <1>1 DEF qrVars
<1>2. ASSUME NEW a \in Administrators, NEW where \in {"invalidate", "retire", "draw"}, NEW c,
             where = "draw" => c \in Q!InForce, Q!Begins(a, where, c)
      PROVE  QrDrawn'
  BY <1>2 DEF Q!Begins
<1>3. ASSUME NEW a \in Administrators, Q!Invalidate(a) PROVE QrDrawn'
  BY <1>3 DEF Q!Invalidate
<1>4. ASSUME NEW a \in Administrators, Q!Retire(a) PROVE QrDrawn'
  BY <1>4 DEF Q!Retire
<1>5. ASSUME NEW a \in Administrators, Q!Issue(a) PROVE QrDrawn'
  BY <1>5 DEF Q!Issue
<1>6. ASSUME NEW a \in Administrators, Q!Draw(a) PROVE QrDrawn'
  BY <1>6 DEF Q!Draw
<1>7. ASSUME NEW a \in Administrators, Q!Fail(a) PROVE QrDrawn'
  BY <1>7 DEF Q!Fail
<1> QED
  BY <1>1, <1>2, <1>3, <1>4, <1>5, <1>6, <1>7
  DEF Q!Next, Q!createFacility, Q!regenerateFacilityQr, Q!downloadFacilityQr

\* The invariant says what is asked for: at most one code is in force because each is the newest.
LEMMA QrImplies == QrInv => Q!OneCodeInForce
<1> SUFFICES ASSUME QrInv PROVE Q!OneCodeInForce
  OBVIOUS
<1> USE DEF QrInv
<1>1. \A c, d \in Q!InForce : c = d
  BY RequestsAssumption DEF QrOrder, Q!InForce, Q!Resolves, Q!QrCodes, Q!QrAssumption
<1>2. Q!Quiet /\ ~lacking => Q!InForce # {}
  BY DEF QrOwed, Q!Quiet, Q!UnderWay
<1> QED
  BY <1>1, <1>2 DEF Q!OneCodeInForce, QrOrder, QrDrawn

\* A facility has one code in force, the newest, and the image at its door shows it.
THEOREM OneCode == MCSpec => []OneCodeInForce
<1>1. MCInit => QrInv
  BY QrInit DEF MCInit
<1>2. QrInv /\ [MCNext]_all => QrInv'
  BY StepOfParts, QrTypeStep, QrOrderStep, QrOwedStep, QrDrawnStep DEF QrInv
<1>3. QrInv => OneCodeInForce
  BY QrImplies DEF OneCodeInForce
<1> QED
  BY <1>1, <1>2, <1>3, PTL DEF MCSpec

-----------------------------------------------------------------------------
(* A toilet that is closed (ToiletUnits).                                  *)

Units == [status: T!Scored \cup {"out_of_service"}, deactivated: BOOLEAN, deleted: BOOLEAN]

UnitTypes == T!TypeOK /\ visit \in [Visitors -> [at: {"idle", "rollup"} \cup T!Orders, seen: Units]]

\* Nothing takes a deletion back.
DeletedStays ==
    /\ removed => unit.deleted
    /\ \A r \in Visitors : visit[r].seen.deleted => unit.deleted
    /\ rolled => closed

\* Unless they crossed, one administrator at a time deals with the toilet, and only rollups
\* have written the row since it was read.
OneOrder ==
    ~jostled =>
        /\ \A r, s \in Visitors : visit[r].at \in T!Orders /\ visit[s].at \in T!Orders => r = s
        /\ \A r \in Visitors : visit[r].at \in T!Orders =>
            /\ visit[r].seen.deactivated = unit.deactivated
            /\ visit[r].seen.deleted = unit.deleted
            /\ visit[r].at = "reactivate" => ~visit[r].seen.deleted
            /\ IF visit[r].seen.status = "out_of_service"
               THEN closed /\ (~rolled => unit.status = "out_of_service")
               ELSE unit.status # "out_of_service"

ToiletInv ==
    /\ UnitTypes
    /\ DeletedStays
    /\ OneOrder
    /\ T!ClosedUnlessRolledUp

LEMMA SavedUnit ==
    ASSUME NEW row \in Units, NEW read \in Units, NEW values \in Units
    PROVE  /\ T!Saved(row, read, values) \in Units
           /\ T!Saved(row, read, values).status = IF values.status = read.status THEN row.status ELSE values.status
           /\ T!Saved(row, read, values).deactivated =
                IF values.deactivated = read.deactivated THEN row.deactivated ELSE values.deactivated
           /\ T!Saved(row, read, values).deleted =
                IF values.deleted = read.deleted THEN row.deleted ELSE values.deleted
BY DEF T!Saved, Units

LEMMA WritesUnit ==
    ASSUME UnitTypes, NEW r \in Visitors, NEW values \in Units, T!Writes(r, values)
    PROVE  /\ unit' \in Units
           /\ visit' = [visit EXCEPT ![r] = T!Idle]
           /\ visit' \in [Visitors -> [at: {"idle", "rollup"} \cup T!Orders, seen: Units]]
           /\ visits' = visits /\ jostled' = jostled
           /\ unit'.status = IF values.status = visit[r].seen.status THEN unit.status ELSE values.status
           /\ unit'.deactivated =
                IF values.deactivated = visit[r].seen.deactivated THEN unit.deactivated ELSE values.deactivated
           /\ unit'.deleted = IF values.deleted = visit[r].seen.deleted THEN unit.deleted ELSE values.deleted
<1>1. unit \in Units /\ visit[r].seen \in Units
  BY DEF UnitTypes, T!TypeOK, Units
<1>2. unit' = T!Saved(unit, visit[r].seen, values)
  BY DEF T!Writes
<1>3. T!Idle \in [at: {"idle", "rollup"} \cup T!Orders, seen: Units]
  BY DEF T!Idle, T!Unit, T!Scored, Units
<1> QED
  BY <1>1, <1>2, <1>3, SavedUnit DEF T!Writes, UnitTypes

LEMMA ToiletInit == T!Init => ToiletInv
<1> SUFFICES ASSUME T!Init PROVE ToiletInv
  OBVIOUS
<1>0. MaxVisits \in Nat
  BY RequestsAssumption DEF T!ToiletAssumption
<1>1. T!Unit("moderate", FALSE, FALSE) \in Units
  BY DEF T!Unit, Units, T!Scored
<1>2. T!Idle \in [at: {"idle", "rollup"} \cup T!Orders, seen: Units]
  BY <1>1 DEF T!Idle
<1>3. visit \in [Visitors -> [at: {"idle", "rollup"} \cup T!Orders, seen: Units]]
  BY <1>2 DEF T!Init
<1>4. UnitTypes
  <2>1. unit \in Units /\ visits \in 0 .. MaxVisits
    BY <1>0 DEF T!Init, T!Unit, Units, T!Scored
  <2>2. \A r \in Visitors : visit[r].at \in {"idle", "rollup"} \cup T!Orders
    BY <1>3
  <2> QED
    BY <1>3, <2>1, <2>2 DEF UnitTypes, T!TypeOK, T!Init, Units
<1>5. DeletedStays /\ OneOrder
  BY DEF T!Init, T!Idle, T!Orders, DeletedStays, OneOrder, T!Unit
<1>6. T!ClosedUnlessRolledUp
  BY DEF T!Init, T!ClosedUnlessRolledUp, T!Available, T!Unit
<1> QED
  BY <1>4, <1>5, <1>6 DEF ToiletInv

LEMMA ToiletStep ==
    ASSUME ToiletInv, [T!Next]_unitVars
    PROVE  ToiletInv'
<1> USE DEF ToiletInv, T!ClosedUnlessRolledUp, T!Available
<1>0. MaxVisits \in Nat
  BY RequestsAssumption DEF T!ToiletAssumption
<1>a. /\ T!Idle.at = "idle" /\ ~T!Idle.seen.deleted
      /\ T!Idle \in [at: {"idle", "rollup"} \cup T!Orders, seen: Units]
  BY DEF T!Idle, T!Unit, T!Scored, Units
<1>1. CASE UNCHANGED unitVars
  BY <1>1 DEF unitVars, UnitTypes, T!TypeOK, DeletedStays, OneOrder
<1>2. ASSUME NEW r \in Visitors, NEW where \in {"rollup"} \cup T!Orders, T!Reads(r, where),
             jostled' \in BOOLEAN, jostled => jostled',
             where \in T!Orders => /\ ~jostled' => \A s \in Visitors : visit[s].at \notin T!Orders
                                   /\ where = "reactivate" => ~unit.deleted
      PROVE  ToiletInv'
  <2>1. UnitTypes'
    BY <1>0, <1>2 DEF UnitTypes, T!TypeOK, T!Reads, Units
  <2>2. DeletedStays'
    BY <1>2 DEF UnitTypes, DeletedStays, T!Reads
  <2>3. OneOrder'
    BY <1>2 DEF UnitTypes, DeletedStays, OneOrder, T!Reads, T!Orders
  <2> QED
    BY <1>2, <2>1, <2>2, <2>3 DEF T!Reads
<1>3. ASSUME NEW r \in Visitors, T!Fail(r) PROVE ToiletInv'
  BY <1>3, <1>a DEF T!Fail, UnitTypes, T!TypeOK, DeletedStays, OneOrder, T!Orders
<1>4. ASSUME NEW r \in Visitors, NEW values \in Units, T!Writes(r, values),
             closed' \in BOOLEAN, removed' \in BOOLEAN, rolled' \in BOOLEAN,
             rolled' => closed',
             removed' => unit'.deleted,
             unit.deleted => unit'.deleted,
             T!ClosedUnlessRolledUp',
             \/ ~jostled => visit[r].at \in T!Orders
             \/ /\ unit'.deactivated = unit.deactivated /\ unit'.deleted = unit.deleted
                /\ closed' = closed /\ rolled' = closed
                /\ unit.status # "out_of_service" => unit'.status # "out_of_service"
      PROVE  ToiletInv'
  <2>1. /\ unit' \in Units
        /\ visit' = [visit EXCEPT ![r] = T!Idle]
        /\ visit' \in [Visitors -> [at: {"idle", "rollup"} \cup T!Orders, seen: Units]]
        /\ visits' = visits /\ jostled' = jostled
    BY <1>4, WritesUnit
  <2>2. UnitTypes'
    BY <1>4, <2>1 DEF UnitTypes, T!TypeOK, Units
  <2>3. DeletedStays'
    BY <1>4, <1>a, <2>1 DEF DeletedStays, UnitTypes
  <2>4. \A s \in Visitors : visit'[s] = IF s = r THEN T!Idle ELSE visit[s]
    BY <2>1 DEF UnitTypes
  <2>5. \A s \in Visitors : visit'[s].at \in T!Orders => s # r /\ visit'[s] = visit[s]
    BY <1>a, <2>4 DEF T!Orders
  <2>6. CASE ~jostled => visit[r].at \in T!Orders
    <3>1. ~jostled => \A s \in Visitors : visit'[s].at \notin T!Orders
      BY <2>5, <2>6 DEF OneOrder
    <3> QED
      BY <1>4, <2>1, <2>2, <2>3, <3>1 DEF OneOrder
  <2>7. CASE /\ unit'.deactivated = unit.deactivated /\ unit'.deleted = unit.deleted
             /\ closed' = closed /\ rolled' = closed
             /\ unit.status # "out_of_service" => unit'.status # "out_of_service"
    <3>1. OneOrder'
      BY <2>1, <2>5, <2>7 DEF OneOrder
    <3> QED
      BY <1>4, <2>2, <2>3, <3>1
  <2> QED
    BY <1>4, <2>6, <2>7
<1>5. ASSUME NEW r \in Visitors, T!deactivateToiletUnit(r) PROVE ToiletInv'
  <2> DEFINE values == [visit[r].seen EXCEPT !.status = "out_of_service", !.deactivated = TRUE]
  <2>1. values \in Units /\ visit[r].seen \in Units
    BY DEF UnitTypes, Units
  <2>2. values.status = "out_of_service" /\ values.deactivated = TRUE /\ values.deleted = visit[r].seen.deleted
    BY <2>1 DEF Units
  <2>3. T!Writes(r, values) /\ closed' = TRUE /\ removed' = removed /\ rolled' = rolled /\ visit[r].at = "deactivate"
    BY <1>5 DEF T!deactivateToiletUnit
  <2> HIDE DEF values
  <2>4. /\ unit'.status = IF visit[r].seen.status = "out_of_service" THEN unit.status ELSE "out_of_service"
        /\ unit'.deactivated = IF visit[r].seen.deactivated THEN unit.deactivated ELSE TRUE
        /\ unit'.deleted = unit.deleted
        /\ jostled' = jostled
    <3>1. /\ visit[r].seen.deactivated \in BOOLEAN /\ visit[r].seen.deleted \in BOOLEAN
          /\ unit.deactivated \in BOOLEAN /\ unit.deleted \in BOOLEAN
      BY <2>1 DEF Units, UnitTypes, T!TypeOK
    <3>2. /\ unit'.status = IF values.status = visit[r].seen.status THEN unit.status ELSE values.status
          /\ unit'.deactivated =
                IF values.deactivated = visit[r].seen.deactivated THEN unit.deactivated ELSE values.deactivated
          /\ unit'.deleted = IF values.deleted = visit[r].seen.deleted THEN unit.deleted ELSE values.deleted
          /\ jostled' = jostled
      BY <2>1, <2>3, WritesUnit
    <3> QED
      BY <2>2, <3>1, <3>2
  <2>5. T!ClosedUnlessRolledUp'
    BY <2>3, <2>4 DEF OneOrder, DeletedStays, T!Orders
  <2> QED
    BY <1>4, <2>1, <2>3, <2>4, <2>5 DEF UnitTypes, T!TypeOK, DeletedStays, T!Orders
<1>6. ASSUME NEW r \in Visitors, T!reactivateToiletUnit(r) PROVE ToiletInv'
  <2>1. PICK status \in T!Scored :
          T!Writes(r, [visit[r].seen EXCEPT !.status = status, !.deactivated = FALSE])
    BY <1>6 DEF T!reactivateToiletUnit
  <2> DEFINE values == [visit[r].seen EXCEPT !.status = status, !.deactivated = FALSE]
  <2>2. values \in Units /\ visit[r].seen \in Units
    BY DEF UnitTypes, Units
  <2>3. values.status = status /\ values.deactivated = FALSE /\ values.deleted = visit[r].seen.deleted
    BY <2>2 DEF Units
  <2>4. /\ T!Writes(r, values) /\ visit[r].at = "reactivate"
        /\ closed' = removed /\ removed' = removed /\ rolled' = (removed /\ rolled)
    BY <1>6, <2>1 DEF T!reactivateToiletUnit
  <2> HIDE DEF values
  <2>5. /\ unit'.status = IF visit[r].seen.status = status THEN unit.status ELSE status
        /\ unit'.deactivated = IF visit[r].seen.deactivated THEN FALSE ELSE unit.deactivated
        /\ unit'.deleted = unit.deleted
        /\ jostled' = jostled
        /\ status # "out_of_service"
    BY <2>2, <2>3, <2>4, WritesUnit DEF UnitTypes, Units, T!Scored
  <2>6. T!ClosedUnlessRolledUp'
    BY <2>4, <2>5 DEF OneOrder, DeletedStays, T!Orders
  <2> QED
    BY <1>4, <2>2, <2>4, <2>5, <2>6 DEF UnitTypes, T!TypeOK, DeletedStays, T!Orders
<1>7. ASSUME NEW r \in Visitors, T!softDeleteToiletUnit(r) PROVE ToiletInv'
  <2> DEFINE values == T!Unit("out_of_service", TRUE, TRUE)
  <2>1. values \in Units /\ visit[r].seen \in Units
    BY DEF UnitTypes, Units, T!Unit
  <2>2. values.status = "out_of_service" /\ values.deactivated = TRUE /\ values.deleted = TRUE
    BY DEF T!Unit
  <2>3. T!Writes(r, values) /\ closed' = TRUE /\ removed' = TRUE /\ rolled' = rolled /\ visit[r].at = "delete"
    BY <1>7 DEF T!softDeleteToiletUnit
  <2> HIDE DEF values
  <2>4. /\ unit'.deactivated = IF visit[r].seen.deactivated THEN unit.deactivated ELSE TRUE
        /\ unit'.deleted = IF visit[r].seen.deleted THEN unit.deleted ELSE TRUE
        /\ jostled' = jostled
    <3>1. /\ visit[r].seen.deactivated \in BOOLEAN /\ visit[r].seen.deleted \in BOOLEAN
          /\ unit.deactivated \in BOOLEAN /\ unit.deleted \in BOOLEAN
      BY <2>1 DEF Units, UnitTypes, T!TypeOK
    <3>2. /\ unit'.deactivated =
                IF values.deactivated = visit[r].seen.deactivated THEN unit.deactivated ELSE values.deactivated
          /\ unit'.deleted = IF values.deleted = visit[r].seen.deleted THEN unit.deleted ELSE values.deleted
          /\ jostled' = jostled
      BY <2>1, <2>3, WritesUnit
    <3> QED
      BY <2>2, <3>1, <3>2
  <2>5. unit'.deleted
    BY <2>4 DEF DeletedStays
  <2>6. T!ClosedUnlessRolledUp'
    BY <2>3, <2>4, <2>5 DEF OneOrder, T!Orders
  <2> QED
    BY <1>4, <2>1, <2>3, <2>5, <2>6 DEF UnitTypes, T!TypeOK, DeletedStays, T!Orders
<1>8. ASSUME NEW r \in Visitors, T!WriteScores(r) PROVE ToiletInv'
  <2>1. PICK status \in T!Scored : T!Writes(r, [visit[r].seen EXCEPT !.status = status])
    BY <1>8 DEF T!WriteScores
  <2> DEFINE values == [visit[r].seen EXCEPT !.status = status]
  <2>2. values \in Units /\ visit[r].seen \in Units
    BY DEF UnitTypes, Units
  <2>3. values.status = status /\ values.deactivated = visit[r].seen.deactivated /\ values.deleted = visit[r].seen.deleted
    BY <2>2 DEF Units
  <2>4. T!Writes(r, values) /\ closed' = closed /\ removed' = removed /\ rolled' = closed
    BY <1>8, <2>1 DEF T!WriteScores
  <2> HIDE DEF values
  <2>5. /\ unit'.status = IF visit[r].seen.status = status THEN unit.status ELSE status
        /\ unit'.deactivated = unit.deactivated
        /\ unit'.deleted = unit.deleted
        /\ jostled' = jostled
        /\ status # "out_of_service"
    BY <2>2, <2>3, <2>4, WritesUnit DEF UnitTypes, Units, T!Scored
  <2>6. T!ClosedUnlessRolledUp'
    BY <2>4, <2>5 DEF DeletedStays
  <2> QED
    BY <1>4, <2>2, <2>4, <2>5, <2>6 DEF UnitTypes, T!TypeOK, DeletedStays
<1>9. ASSUME NEW r \in Visitors, NEW order \in T!Orders, T!LoadUnit(r, order) PROVE ToiletInv'
  BY <1>2, <1>9 DEF T!LoadUnit, UnitTypes, T!TypeOK, T!Orders
<1>10. ASSUME NEW r \in Visitors, T!ReadUnit(r) PROVE ToiletInv'
  BY <1>2, <1>10 DEF T!ReadUnit, UnitTypes, T!TypeOK, T!Orders
<1> QED
  BY <1>1, <1>3, <1>5, <1>6, <1>7, <1>8, <1>9, <1>10 DEF T!Next

\* A deleted toilet is never to be had again, a deactivated one until a rollup has written it.
THEOREM ClosedToilet == MCSpec => []ClosedUnlessRolledUp
<1>1. MCInit => ToiletInv
  BY ToiletInit DEF MCInit
<1>2. ToiletInv /\ [MCNext]_all => ToiletInv'
  BY StepOfParts, ToiletStep
<1>3. ToiletInv => ClosedUnlessRolledUp
  BY DEF ToiletInv, ClosedUnlessRolledUp
<1> QED
  BY <1>1, <1>2, <1>3, PTL DEF MCSpec

-----------------------------------------------------------------------------
(* Notifications of one event and the device they go to (Notifications).   *)

Tokens == [owner: Users \cup {NoUser}, disabled: BOOLEAN]
Registrations == [at: {"idle", "write", "done", "removed"}, user: Users \cup {NoUser}, seen: Tokens]

NoticeTypes ==
    /\ N!TypeOK
    /\ publisher \in [Publishers -> [at: {"idle", "insert", "push", "dead"}, tell: SUBSET Users]]
    /\ registrar \in [Registrars -> Registrations]

\* Whoever is about to insert is alone in that, and nobody has a row whom it is to tell, as
\* long as no two publishers looked beside each other.
ToldByOne ==
    ~lookedUp =>
        /\ \A p, q \in Publishers : publisher[p].at = "insert" /\ publisher[q].at = "insert" => p = q
        /\ \A p, q \in Publishers : \A u \in publisher[p].tell :
            publisher[p].at = "insert" => inbox[q][u] = "none"
        /\ \A p, q \in Publishers : \A u \in Users :
            inbox[p][u] # "none" /\ inbox[q][u] # "none" => p = q

\* A push under way is to the owner of the token, or the token has been registered since.
PushesFollow ==
    /\ \A p \in Publishers, u \in Users :
        inbox[p][u] = "pushing" => token.owner = u \/ <<p, u>> \in moved
    /\ strayed = {}

\* A registration about to write has read the token as it is, unless it raced another.
ReadsAreFresh ==
    ~raced =>
        /\ \A q \in Registrars : registrar[q].at = "write" => registrar[q].seen = token
        /\ holder = IF token.disabled THEN NoUser ELSE token.owner

NoticeInv ==
    /\ NoticeTypes
    /\ ToldByOne
    /\ PushesFollow
    /\ ReadsAreFresh

LEMMA NoticeInit == N!Init => NoticeInv
<1> SUFFICES ASSUME N!Init PROVE NoticeInv
  OBVIOUS
<1>1. token \in Tokens /\ token.disabled = FALSE /\ holder = token.owner /\ holder \in Users \cup {NoUser}
  <2>1. CASE token = N!NoToken
    BY <2>1 DEF N!Init, N!NoToken, Tokens
  <2>2. CASE token \in [owner: Users, disabled: {FALSE}]
    BY <2>2 DEF N!Init, Tokens
  <2> QED
    BY <2>1, <2>2 DEF N!Init
<1>2. N!NoToken \in Tokens
  BY DEF N!NoToken, Tokens
<1>3. registrar \in [Registrars -> Registrations]
  BY <1>2 DEF N!Init, Registrations
<1>4. NoticeTypes
  BY <1>1, <1>3 DEF N!Init, NoticeTypes, N!TypeOK, Tokens
<1>5. ToldByOne /\ PushesFollow
  BY DEF N!Init, ToldByOne, PushesFollow
<1>6. ReadsAreFresh
  BY <1>1 DEF N!Init, ReadsAreFresh
<1> QED
  BY <1>4, <1>5, <1>6 DEF NoticeInv

\* What is written over a token that is still as it was read is the new one.
LEMMA SavedToken ==
    ASSUME NEW row \in Tokens, NEW read \in Tokens, NEW values \in Tokens
    PROVE  /\ N!Saved(row, read, values) \in Tokens
           /\ row = read => N!Saved(row, read, values) = values
BY DEF N!Saved, Tokens

\* Steps of publishers that leave the token alone.
LEMMA PublisherStep ==
    ASSUME NoticeInv, NEW p \in Publishers,
           \/ N!Look(p) \/ N!Insert(p) \/ N!Die(p)
           \/ \E u \in Users : N!ReadToken(p, u) \/ N!Send(p, u) \/ N!Break(p, u)
    PROVE  NoticeInv'
<1> USE DEF NoticeInv, NoticeTypes, N!TypeOK, N!Pushes
<1>1. CASE N!Look(p)
  <2>1. PICK tell \in SUBSET {u \in Users : \A q \in Publishers : inbox[q][u] = "none"} : N!Tells(p, tell)
    BY <1>1 DEF N!Look
  <2> USE <2>1 DEF N!Tells
  <2>2. NoticeTypes'
    OBVIOUS
  <2>3. ToldByOne'
    <3> SUFFICES ASSUME ~lookedUp' PROVE ToldByOne'
      BY DEF ToldByOne
    <3>1. ~lookedUp /\ \A q \in Publishers : publisher'[q].at = "insert" => q = p
      OBVIOUS
    <3>2. publisher'[p].tell = tell /\ inbox' = inbox
      OBVIOUS
    <3> QED
      BY <3>1, <3>2 DEF ToldByOne
  <2> QED
    BY <2>2, <2>3 DEF PushesFollow, ReadsAreFresh
<1>2. CASE N!Insert(p)
  <2> USE <1>2 DEF N!Insert
  <2>1. NoticeTypes'
    OBVIOUS
  <2>2. ToldByOne'
    BY DEF ToldByOne
  <2> QED
    BY <2>1, <2>2 DEF PushesFollow, ReadsAreFresh
<1>3. CASE N!Die(p)
  <2> USE <1>3 DEF N!Die
  <2>1. NoticeTypes'
    OBVIOUS
  <2>2. ToldByOne'
    BY DEF ToldByOne
  <2> QED
    BY <2>1, <2>2 DEF PushesFollow, ReadsAreFresh
<1>4. ASSUME NEW u \in Users, N!ReadToken(p, u) PROVE NoticeInv'
  <2> USE <1>4 DEF N!ReadToken
  <2>1. NoticeTypes'
    OBVIOUS
  <2>2. ToldByOne'
    BY DEF ToldByOne
  <2> QED
    BY <2>1, <2>2 DEF PushesFollow, ReadsAreFresh
<1>5. ASSUME NEW u \in Users, N!Send(p, u) PROVE NoticeInv'
  <2>1. PICK to \in {"done", "refused"} : inbox' = [inbox EXCEPT ![p][u] = to]
    BY <1>5 DEF N!Send
  <2>2. strayed' = strayed
    BY <1>5 DEF N!Send, PushesFollow
  <2> USE <1>5, <2>1, <2>2 DEF N!Send
  <2>3. NoticeTypes'
    OBVIOUS
  <2>4. ToldByOne'
    BY DEF ToldByOne
  <2> QED
    BY <2>3, <2>4 DEF PushesFollow, ReadsAreFresh
<1>6. ASSUME NEW u \in Users, N!Break(p, u) PROVE NoticeInv'
  <2> USE <1>6 DEF N!Break
  <2>1. NoticeTypes'
    OBVIOUS
  <2>2. ToldByOne'
    BY DEF ToldByOne
  <2> QED
    BY <2>1, <2>2 DEF PushesFollow, ReadsAreFresh
<1> QED
  BY <1>1, <1>2, <1>3, <1>4, <1>5, <1>6

\* Steps that change the token, and the reading that comes before one.
LEMMA TokenStep ==
    ASSUME NoticeInv,
           \/ \E p \in Publishers, u \in Users : N!disableInvalidTokens(p, u)
           \/ \E q \in Registrars : N!WriteRegistration(q)
           \/ \E q \in Registrars, u \in Users : N!ReadRegistration(q, u) \/ N!removeDeviceToken(q, u)
    PROVE  NoticeInv'
<1> USE DEF NoticeInv, NoticeTypes, N!TypeOK, N!Pushes, Tokens, Registrations
<1>1. ASSUME NEW p \in Publishers, NEW u \in Users, N!disableInvalidTokens(p, u) PROVE NoticeInv'
  <2> USE <1>1 DEF N!disableInvalidTokens, N!TokenBecomes
  <2>1. NoticeTypes'
    OBVIOUS
  <2>2. ToldByOne' /\ PushesFollow'
    BY DEF ToldByOne, PushesFollow
  <2>3. ReadsAreFresh'
    BY DEF ReadsAreFresh
  <2> QED
    BY <2>1, <2>2, <2>3
<1>2. ASSUME NEW q \in Registrars, NEW u \in Users, N!removeDeviceToken(q, u) PROVE NoticeInv'
  <2> DEFINE next == [registrar[q] EXCEPT !.at = "removed", !.user = u]
  <2>0. registrar' = [registrar EXCEPT ![q] = next]
    BY <1>2 DEF N!removeDeviceToken
  <2>a. next \in Registrations /\ next.at = "removed"
    OBVIOUS
  <2>b. /\ token' = [token EXCEPT !.disabled = TRUE] /\ holder' = NoUser
        /\ raced' = (raced \/ \E r \in Registrars : registrar'[r].at = "write"
                          \/ \E x \in N!Pushes : inbox'[x[1]][x[2]] = "refused")
        /\ UNCHANGED <<inbox, publisher, strayed, lookedUp, moved>>
    BY <1>2 DEF N!removeDeviceToken, N!TokenBecomes
  <2> HIDE DEF next
  <2> USE <2>0, <2>a, <2>b
  <2>1. NoticeTypes'
    OBVIOUS
  <2>2. ToldByOne' /\ PushesFollow'
    BY DEF ToldByOne, PushesFollow
  <2>3. ReadsAreFresh'
    BY DEF ReadsAreFresh
  <2> QED
    BY <2>1, <2>2, <2>3
<1>3. ASSUME NEW q \in Registrars, NEW u \in Users, N!ReadRegistration(q, u) PROVE NoticeInv'
  BY <1>3 DEF N!ReadRegistration, ToldByOne, PushesFollow, ReadsAreFresh
<1>4. ASSUME NEW q \in Registrars, N!WriteRegistration(q) PROVE NoticeInv'
  <2> DEFINE new == [owner |-> registrar[q].user, disabled |-> FALSE]
  <2>1. new \in Tokens /\ registrar[q].seen \in Tokens
    OBVIOUS
  <2>2. token' = IF registrar[q].seen # N!NoToken THEN N!Saved(token, registrar[q].seen, new)
                 ELSE IF token # N!NoToken THEN token ELSE new
    BY <1>4 DEF N!WriteRegistration, N!TokenBecomes
  <2>3. token' \in Tokens /\ (~raced => token' = new)
    <3>1. token \in Tokens
      OBVIOUS
    <3>2. /\ N!Saved(token, registrar[q].seen, new) \in Tokens
          /\ token = registrar[q].seen => N!Saved(token, registrar[q].seen, new) = new
      BY <2>1, <3>1, SavedToken
    <3>3. ~raced => registrar[q].seen = token
      BY <1>4 DEF ReadsAreFresh, N!WriteRegistration
    <3> HIDE DEF NoticeInv, new, Tokens
    <3> QED
      BY <2>1, <2>2, <3>1, <3>2, <3>3
  <2>4. /\ moved' = moved \cup N!At("pushing") /\ registrar' = [registrar EXCEPT ![q].at = "done"]
        /\ holder' = registrar[q].user
        /\ raced' = (raced \/ \E r \in Registrars : registrar'[r].at = "write"
                          \/ \E x \in N!Pushes : inbox'[x[1]][x[2]] = "refused")
        /\ UNCHANGED <<inbox, publisher, strayed, lookedUp>>
    BY <1>4 DEF N!WriteRegistration, N!TokenBecomes
  <2>5. NoticeTypes'
    BY <2>3, <2>4 DEF N!At
  <2>6. ToldByOne'
    BY <2>4 DEF ToldByOne
  <2>7. PushesFollow'
    BY <2>4 DEF PushesFollow, N!At
  <2>8. ReadsAreFresh'
    <3> SUFFICES ASSUME ~raced' PROVE ReadsAreFresh'
      BY DEF ReadsAreFresh
    <3>1. ~raced /\ \A r \in Registrars : registrar'[r].at # "write"
      BY <2>4
    <3>2. token' = new
      BY <2>3, <3>1
    <3>3. token'.owner = registrar[q].user /\ token'.disabled = FALSE
      BY <3>2
    <3> QED
      BY <2>4, <3>1, <3>3 DEF ReadsAreFresh
  <2> QED
    BY <2>5, <2>6, <2>7, <2>8
<1> QED
  BY <1>1, <1>2, <1>3, <1>4

\* A recipient is told of an event once, on a device that is theirs, unless two publishers
\* looked beside each other or the token changed under a registration or a push.
THEOREM ToldOneTime == MCSpec => []ToldOnce
<1>1. MCInit => NoticeInv
  BY NoticeInit DEF MCInit
<1>2. NoticeInv /\ [MCNext]_all => NoticeInv'
  <2> SUFFICES ASSUME NoticeInv, [MCNext]_all PROVE NoticeInv'
    OBVIOUS
  <2>1. CASE N!Next
    BY <2>1, PublisherStep, TokenStep DEF N!Next, N!publishNotification
  <2>2. CASE UNCHANGED noticeVars
    BY <2>2 DEF noticeVars, NoticeInv, NoticeTypes, N!TypeOK, ToldByOne, PushesFollow, ReadsAreFresh
  <2> QED
    BY <2>1, <2>2, StepOfParts
<1>3. NoticeInv => ToldOnce
  BY DEF NoticeInv, ToldOnce, N!ToldOnce, ToldByOne, PushesFollow, ReadsAreFresh, N!Pushes
<1> QED
  BY <1>1, <1>2, <1>3, PTL DEF MCSpec

-----------------------------------------------------------------------------
(* The sensors of toilets (SensorMapping).                                 *)

Rows == [status: {"none", "inactive", "active"}, toilet_unit_id: Toilets \cup {NoToilet}]

Operations ==
    [at: {"idle", "find", "displace", "attach", "register", "detach"}, of: SUBSET Devices,
     toilet: Toilets \cup {NoToilet}, replace: BOOLEAN, seen: Rows, other: SUBSET Devices, otherSeen: Rows]

OperationTypes ==
    /\ M!TypeOK
    /\ operation \in [Operators -> Operations]
    /\ \A q \in Operators : \A d, e \in operation[q].of : d = e
    /\ \A q \in Operators : operation[q].at \in {"find", "displace", "attach"} => operation[q].toilet \in Toilets

\* What two requests deal with together has been noted.
MetIsNoted == \A p, q \in Operators : p # q => M!Concerns(operation[p]) \cap M!Concerns(operation[q]) \subseteq met

\* A device that no two requests dealt with together is as its request has read it.
SeenAsIs == \A q \in Operators : operation[q].at # "idle" =>
    \A d \in operation[q].of \ met : operation[q].seen = device[d] /\ d \notin operation[q].other

\* Who is about to attach has found the toilet empty, or knows the sensor to displace.
RoomIsMade == \A q \in Operators :
    LET r == operation[q] IN
    /\ r.at = "displace" => /\ r.otherSeen = M!Row("active", r.toilet)
                            /\ \A d, e \in r.other : d = e
                            /\ r.toilet \notin met => M!ActiveOn(r.toilet) \subseteq r.of \cup r.other
    /\ r.at = "attach" /\ r.toilet \notin met => M!ActiveOn(r.toilet) \subseteq r.of

MappingInv ==
    /\ OperationTypes
    /\ MetIsNoted
    /\ SeenAsIs
    /\ RoomIsMade
    /\ M!OneSensorAToilet

LEMMA MappingConstants ==
    /\ NoToilet \notin Toilets /\ NoToilet \notin Devices /\ MaxOperations \in Nat
    /\ \A d \in Devices : d \notin Toilets
BY RequestsAssumption DEF M!MappingAssumption

LEMMA IdleOperation ==
    /\ M!Idle.at = "idle" /\ M!Concerns(M!Idle) = {} /\ M!Idle.of = {} /\ M!Idle.other = {}
    /\ M!NoRow \in Rows
    /\ M!Idle.seen = M!NoRow /\ M!Idle.toilet = NoToilet
    /\ M!Idle \in Operations
BY DEF M!Idle, M!Concerns, M!NoRow, M!Row, Rows, Operations

LEMMA MappingInit == M!Init => MappingInv
<1> SUFFICES ASSUME M!Init PROVE MappingInv
  OBVIOUS
<1>1. OperationTypes
  BY MappingConstants, IdleOperation DEF M!Init, OperationTypes, M!TypeOK, Rows
<1>2. MetIsNoted /\ SeenAsIs /\ RoomIsMade
  BY IdleOperation DEF M!Init, MetIsNoted, SeenAsIs, RoomIsMade
<1>3. M!OneSensorAToilet
  BY DEF M!Init, M!OneSensorAToilet, M!ActiveOn, M!NoRow, M!Row
<1> QED
  BY <1>1, <1>2, <1>3 DEF MappingInv

\* Every value is written over a row that is as it was read, and where both differ.
LEMMA SavedRow ==
    ASSUME NEW row \in Rows, NEW read \in Rows, NEW values \in Rows
    PROVE  /\ M!Saved(row, read, values) \in Rows
           /\ row = read => M!Saved(row, read, values) = values
           /\ values.status # read.status /\ values.toilet_unit_id # read.toilet_unit_id =>
                M!Saved(row, read, values) = values
           /\ values.status = "inactive" /\ M!Saved(row, read, values).status = "active" => row.status = "active"
           /\ values.toilet_unit_id = NoToilet =>
                M!Saved(row, read, values).toilet_unit_id \in {row.toilet_unit_id, NoToilet}
BY DEF M!Saved, Rows

\* A request that goes on without writing, or that ends, leaves what is said of the others.
LEMMA MappingGoes ==
    ASSUME MappingInv, NEW q \in Operators, NEW r,
           r \in Operations,
           \A d, e \in r.of : d = e,
           r.at \in {"find", "displace", "attach"} => r.toilet \in Toilets,
           operations' \in 0 .. MaxOperations, device' = device,
           \/ M!Goes(q, r)
           \/ r = M!Idle /\ M!Ends(q),
           r.at # "idle" => \A d \in r.of \ met : r.seen = device[d] /\ d \notin r.other,
           r.at = "displace" => /\ r.otherSeen = M!Row("active", r.toilet)
                                /\ \A d, e \in r.other : d = e
                                /\ r.toilet \notin met => M!ActiveOn(r.toilet) \subseteq r.of \cup r.other,
           r.at = "attach" /\ r.toilet \notin met => M!ActiveOn(r.toilet) \subseteq r.of
    PROVE  MappingInv'
<1> USE DEF MappingInv, Operations
<1>1. operation' = [operation EXCEPT ![q] = r] /\ met \subseteq met'
  BY DEF M!Goes, M!Ends
<1>2. \A p \in Operators : operation'[p] = IF p = q THEN r ELSE operation[p]
  BY <1>1 DEF OperationTypes
<1>3. MetIsNoted' /\ met' \subseteq Devices \cup Toilets
  <2>1. CASE M!Goes(q, r)
    <3>1. met' = met \cup UNION {M!Concerns(r) \cap M!Concerns(operation[p]) : p \in Operators \ {q}}
      BY <2>1 DEF M!Goes
    <3>2. \A p \in Operators : p # q => M!Concerns(operation'[q]) \cap M!Concerns(operation'[p]) \subseteq met'
      BY <1>2, <3>1
    <3>3. \A p, s \in Operators : p # s /\ p # q /\ s # q =>
            M!Concerns(operation'[p]) \cap M!Concerns(operation'[s]) \subseteq met'
      BY <1>1, <1>2 DEF MetIsNoted
    <3>4. met' \subseteq Devices \cup Toilets
      BY <3>1 DEF M!Concerns, OperationTypes, M!TypeOK
    <3>5. \A p, s \in Operators : p # s => M!Concerns(operation'[p]) \cap M!Concerns(operation'[s]) \subseteq met'
      <4> SUFFICES ASSUME NEW p \in Operators, NEW s \in Operators, p # s
                   PROVE  M!Concerns(operation'[p]) \cap M!Concerns(operation'[s]) \subseteq met'
        OBVIOUS
      <4> QED
        BY <3>2, <3>3
    <3> QED
      BY <3>4, <3>5, <1>2 DEF MetIsNoted, M!Concerns
  <2>2. CASE r = M!Idle /\ M!Ends(q)
    <3>1. met' = met /\ \A p \in Operators : M!Concerns(operation'[p]) = IF p = q THEN {} ELSE M!Concerns(operation[p])
      BY <1>2, <2>2, IdleOperation DEF M!Ends
    <3>2. \A p \in Operators : M!Concerns(operation[p])' = M!Concerns(operation'[p])
      BY DEF M!Concerns
    <3> QED
      BY <3>1, <3>2 DEF MetIsNoted, OperationTypes, M!TypeOK
  <2> QED
    BY <2>1, <2>2
<1>4. OperationTypes'
  BY <1>1, <1>2, <1>3 DEF OperationTypes, M!TypeOK
<1>5. SeenAsIs'
  BY <1>1, <1>2 DEF SeenAsIs
<1>6. RoomIsMade'
  BY <1>1, <1>2 DEF RoomIsMade, M!ActiveOn
<1>7. M!OneSensorAToilet'
  BY <1>1 DEF M!OneSensorAToilet, M!ActiveOn
<1> QED
  BY <1>3, <1>4, <1>5, <1>6, <1>7

\* A request writes the row of a device that it deals with, and goes on as r.
WritesRow(q, d, row, r) ==
    /\ row \in Rows /\ r \in Operations
    /\ d \in operation[q].of \cup operation[q].other
    /\ r.of \subseteq operation[q].of /\ M!Concerns(r) \subseteq M!Concerns(operation[q])
    /\ device' = [device EXCEPT ![d] = row]
    /\ operation' = [operation EXCEPT ![q] = r]
    /\ operations' = operations
    /\ met \subseteq met' /\ met' \subseteq Devices \cup Toilets
    /\ d \notin met => (row.status = "active" <=> row.toilet_unit_id # NoToilet)
    /\ \A t \in Toilets \ met' :
        row = M!Row("active", t) /\ device[d] # row => t = operation[q].toilet /\ M!ActiveOn(t) \subseteq {d}
    /\ \/ r.at = "idle"
       \/ /\ r.at = "attach" /\ r.toilet \in Toilets /\ row # M!Row("active", r.toilet)
          /\ \A e \in r.of \ met : e # d /\ r.seen = device[e] /\ e \notin r.other
          /\ r.toilet \notin met => M!ActiveOn(r.toilet) \subseteq r.of \cup {d}

LEMMA MappingWrites ==
    ASSUME MappingInv, NEW q \in Operators, NEW d \in Devices, NEW row, NEW r, WritesRow(q, d, row, r)
    PROVE  MappingInv'
<1> USE DEF WritesRow, MappingInv, Operations
<1>1. \A p \in Operators : operation'[p] = IF p = q THEN r ELSE operation[p]
  BY DEF OperationTypes
<1>2. \A e \in Devices : device'[e] = IF e = d THEN row ELSE device[e]
  BY DEF OperationTypes, M!TypeOK
<1>3. d \in Devices /\ d \in M!Concerns(operation[q])
  BY MappingConstants DEF OperationTypes, M!Concerns
<1>4. OperationTypes'
  BY <1>1, <1>2, <1>3 DEF OperationTypes, M!TypeOK, Rows
<1>5. MetIsNoted'
  <2>1. \A p \in Operators : M!Concerns(operation'[p]) \subseteq M!Concerns(operation[p])
    BY <1>1
  <2>2. \A p, s \in Operators : p # s => M!Concerns(operation'[p]) \cap M!Concerns(operation'[s]) \subseteq met'
    BY <2>1 DEF MetIsNoted
  <2> QED
    BY <2>2 DEF MetIsNoted, M!Concerns
<1>6. SeenAsIs'
  <2>1. \A p \in Operators : \A e \in operation[p].of \ met : p # q => e # d
    BY <1>3, MappingConstants DEF MetIsNoted, M!Concerns, OperationTypes
  <2>2. ASSUME NEW p \in Operators, operation'[p].at # "idle", NEW e \in operation'[p].of, e \notin met'
        PROVE  operation'[p].seen = device'[e] /\ e \notin operation'[p].other
    <3>1. e \in Devices /\ e \notin met
      BY <1>1, <2>2 DEF OperationTypes
    <3> QED
      BY <1>1, <1>2, <2>1, <2>2, <3>1 DEF SeenAsIs
  <2> QED
    BY <2>2 DEF SeenAsIs
<1>7. \A t \in Toilets : t \notin met' => M!ActiveOn(t)' \subseteq M!ActiveOn(t) \/ M!ActiveOn(t)' \subseteq {d}
  <2> SUFFICES ASSUME NEW t \in Toilets, t \notin met'
               PROVE  M!ActiveOn(t)' \subseteq M!ActiveOn(t) \/ M!ActiveOn(t)' \subseteq {d}
    OBVIOUS
  <2>1. M!ActiveOn(t)' = {e \in Devices : device'[e] = M!Row("active", t)}
    BY DEF M!ActiveOn, M!Row
  <2>2. CASE row = M!Row("active", t) /\ device[d] # row
    BY <1>2, <2>1, <2>2 DEF M!ActiveOn
  <2>3. CASE row # M!Row("active", t) \/ device[d] = row
    BY <1>2, <1>3, <2>1, <2>3 DEF M!ActiveOn
  <2> QED
    BY <2>2, <2>3
<1>8. RoomIsMade'
  <2>1. ASSUME NEW p \in Operators, p # q, operation[p].at \in {"displace", "attach"}, operation[p].toilet \notin met'
        PROVE  M!ActiveOn(operation[p].toilet)' \subseteq M!ActiveOn(operation[p].toilet)
    <3>1. operation[p].toilet \in Toilets /\ operation[p].toilet \in M!Concerns(operation[p])
      BY <2>1, MappingConstants DEF OperationTypes, M!Concerns
    <3>2. operation[p].toilet # operation[q].toilet
      BY <2>1, <3>1, MappingConstants DEF MetIsNoted, M!Concerns, OperationTypes
    <3>3. \A e \in Devices : device'[e] = M!Row("active", operation[p].toilet) =>
                device[e] = M!Row("active", operation[p].toilet)
      BY <1>2, <2>1, <3>1, <3>2
    <3> QED
      BY <1>1, <2>1, <3>3 DEF M!ActiveOn
  <2>2. r.at = "attach" /\ r.toilet \notin met' => M!ActiveOn(r.toilet)' \subseteq r.of
    BY <1>2, <1>3 DEF M!ActiveOn
  <2> QED
    BY <1>1, <2>1, <2>2 DEF RoomIsMade, M!ActiveOn
<1>9. M!OneSensorAToilet'
  BY <1>2, <1>7 DEF M!OneSensorAToilet, M!ActiveOn
<1> QED
  BY <1>4, <1>5, <1>6, <1>8, <1>9

LEMMA MappingStep ==
    ASSUME MappingInv, [M!Next]_mappingVars
    PROVE  MappingInv'
<1> USE DEF MappingInv, Operations
<1> USE MappingConstants, IdleOperation
<1>1. CASE UNCHANGED mappingVars
  BY <1>1 DEF mappingVars, OperationTypes, M!TypeOK, MetIsNoted, SeenAsIs, RoomIsMade, M!OneSensorAToilet,
     M!Concerns, M!ActiveOn
<1>2. ASSUME NEW q \in Operators, M!Fail(q) PROVE MappingInv'
  BY <1>2, MappingGoes DEF M!Fail, OperationTypes, M!TypeOK
<1>3. ASSUME NEW q \in Operators, NEW d \in Devices, NEW t \in Toilets, NEW replace \in BOOLEAN,
             M!AskAttach(q, d, t, replace)
      PROVE  MappingInv'
  <2> DEFINE r == [M!Idle EXCEPT !.at = "find", !.of = {d}, !.toilet = t, !.replace = replace, !.seen = device[d]]
  <2>1. /\ r \in Operations
        /\ r.at = "find" /\ r.of = {d} /\ r.toilet = t /\ r.seen = device[d] /\ r.other = {}
    BY DEF OperationTypes, M!TypeOK, Rows
  <2> HIDE DEF r
  <2>2. M!Goes(q, r) /\ device' = device /\ operations' \in 0 .. MaxOperations
    BY <1>3 DEF M!AskAttach, r, OperationTypes, M!TypeOK
  <2> QED
    BY <2>1, <2>2, MappingGoes
<1>4. ASSUME NEW q \in Operators, NEW d \in Devices, M!AskRegister(q, d) PROVE MappingInv'
  <2> DEFINE r == [M!Idle EXCEPT !.at = "register", !.of = {d}]
  <2>1. /\ r \in Operations
        /\ r.at = "register" /\ r.of = {d} /\ r.seen = M!NoRow /\ r.other = {}
    OBVIOUS
  <2> HIDE DEF r
  <2>2. M!Goes(q, r) /\ device' = device /\ operations' \in 0 .. MaxOperations
    BY <1>4 DEF M!AskRegister, r, OperationTypes, M!TypeOK
  <2>3. d \notin met => device[d] = M!NoRow
    BY <1>4 DEF M!AskRegister, M!Known, M!OneSensorAToilet, M!NoRow, M!Row, OperationTypes, M!TypeOK
  <2> QED
    BY <2>1, <2>2, <2>3, MappingGoes
<1>5. ASSUME NEW q \in Operators, NEW d \in Devices, M!AskDetach(q, d) PROVE MappingInv'
  <2> DEFINE r == [M!Idle EXCEPT !.at = "detach", !.of = {d}, !.seen = device[d]]
  <2>1. /\ r \in Operations
        /\ r.at = "detach" /\ r.of = {d} /\ r.seen = device[d] /\ r.other = {}
    BY DEF OperationTypes, M!TypeOK, Rows
  <2> HIDE DEF r
  <2>2. M!Goes(q, r) /\ device' = device /\ operations' \in 0 .. MaxOperations
    BY <1>5 DEF M!AskDetach, r, OperationTypes, M!TypeOK
  <2> QED
    BY <2>1, <2>2, MappingGoes
<1>6. ASSUME NEW q \in Operators, NEW d \in Devices, M!FindOther(q, d) PROVE MappingInv'
  <2> DEFINE t == operation[q].toilet
             others == M!ActiveOn(t) \ (IF operation[q].seen = M!NoRow THEN {} ELSE {d})
  <2>0. /\ operation[q].at = "find" /\ d \in operation[q].of /\ device' = device /\ operations' = operations
        /\ operation[q] \in Operations
    BY <1>6 DEF M!FindOther, OperationTypes
  <2>1. /\ operation[q].at = "find" /\ d \in operation[q].of /\ t \in Toilets /\ operation[q].of = {d}
        /\ device' = device /\ operations' \in 0 .. MaxOperations
    BY <2>0 DEF OperationTypes, M!TypeOK
  <2>2. CASE others = {} /\ M!Goes(q, [operation[q] EXCEPT !.at = "attach"])
    <3> DEFINE r == [operation[q] EXCEPT !.at = "attach"]
    <3>1. /\ r \in Operations
          /\ r.at = "attach" /\ r.of = {d} /\ r.seen = operation[q].seen /\ r.toilet = t
          /\ r.other = operation[q].other
      BY <2>0, <2>1 DEF Operations
    <3>2. M!ActiveOn(t) \subseteq {d}
      BY <2>2
    <3>3. \A e \in r.of \ met : r.seen = device[e] /\ e \notin r.other
      BY <2>1, <3>1 DEF SeenAsIs
    <3>4. M!Goes(q, r)
      BY <2>2
    <3> HIDE DEF r, t, MappingInv, Operations
    <3> QED
      BY <2>1, <3>1, <3>2, <3>3, <3>4, MappingGoes
  <2>3. ASSUME NEW e \in others,
               M!Goes(q, [operation[q] EXCEPT !.at = "displace", !.other = {e}, !.otherSeen = device[e]])
        PROVE  MappingInv'
    <3> DEFINE r == [operation[q] EXCEPT !.at = "displace", !.other = {e}, !.otherSeen = device[e]]
    <3>0. e \in Devices /\ device[e] = M!Row("active", t) /\ device[e] \in Rows
      BY DEF M!ActiveOn, OperationTypes, M!TypeOK, Rows
    <3>1. /\ r \in Operations
          /\ r.at = "displace" /\ r.of = {d} /\ r.seen = operation[q].seen /\ r.toilet = t
          /\ r.other = {e} /\ r.otherSeen = device[e]
      BY <2>0, <2>1, <3>0 DEF Operations
    <3>2. t \notin met => M!ActiveOn(t) \subseteq {e}
      BY <2>1 DEF M!OneSensorAToilet
    <3>3. d \notin met => operation[q].seen = device[d]
      BY <2>1 DEF SeenAsIs
    <3>4. d \notin met => e # d
      BY <3>0, <3>3 DEF M!NoRow, M!Row
    <3>5. M!Goes(q, r)
      BY <2>3
    <3> HIDE DEF r, t, others, MappingInv, Operations
    <3> QED
      BY <2>1, <3>0, <3>1, <3>2, <3>3, <3>4, <3>5, MappingGoes
  <2>4. CASE M!Ends(q)
    BY <2>1, <2>4, MappingGoes
  <2> QED
    BY <1>6, <2>2, <2>3, <2>4 DEF M!FindOther
<1>7. ASSUME NEW q \in Operators, NEW e \in Devices, M!Displace(q, e) PROVE MappingInv'
  <2> DEFINE r == [operation[q] EXCEPT !.at = "attach"]
             row == M!Saved(device[e], operation[q].otherSeen, M!Row("inactive", NoToilet))
  <2>1. /\ operation[q].at = "displace" /\ e \in operation[q].other /\ operations' = operations
        /\ device' = [device EXCEPT ![e] = row] /\ M!Goes(q, r)
    BY <1>7 DEF M!Displace
  <2>2. /\ r \in Operations
        /\ r.at = "attach" /\ r.of = operation[q].of /\ r.seen = operation[q].seen
        /\ r.toilet = operation[q].toilet /\ r.toilet \in Toilets /\ r.other = operation[q].other
    BY <2>1 DEF OperationTypes
  <2>3. row = M!Row("inactive", NoToilet) /\ row \in Rows
    <3>1. M!Row("inactive", NoToilet) \in Rows /\ device[e] \in Rows /\ operation[q].otherSeen \in Rows
      BY DEF M!Row, Rows, OperationTypes, M!TypeOK
    <3>2. operation[q].otherSeen = M!Row("active", operation[q].toilet) /\ operation[q].toilet \in Toilets
      BY <2>1, <2>2 DEF RoomIsMade
    <3>3. operation[q].otherSeen.status = "active" /\ operation[q].otherSeen.toilet_unit_id \in Toilets
      BY <3>2 DEF M!Row
    <3> QED
      BY <3>1, <3>3, SavedRow DEF M!Row
  <2>4. operation' = [operation EXCEPT ![q] = r] /\ met \subseteq met' /\ met' \subseteq Devices \cup Toilets
    BY <2>1, <2>2 DEF M!Goes, M!Concerns, OperationTypes, M!TypeOK
  <2>5. M!Concerns(r) \subseteq M!Concerns(operation[q])
    BY <2>2 DEF M!Concerns
  <2>6. \A d \in r.of \ met : d # e /\ r.seen = device[d] /\ d \notin r.other
    BY <2>1, <2>2 DEF SeenAsIs
  <2>7. r.toilet \notin met => M!ActiveOn(r.toilet) \subseteq r.of \cup {e}
    BY <2>1, <2>2 DEF RoomIsMade
  <2>8. \A t \in Toilets : row # M!Row("active", t)
    BY <2>3 DEF M!Row
  <2>9. row.status = "inactive" /\ row.toilet_unit_id = NoToilet
    BY <2>3 DEF M!Row
  <2> HIDE DEF r, row, MappingInv, Operations
  <2>10. WritesRow(q, e, row, r)
    BY <2>1, <2>2, <2>3, <2>4, <2>5, <2>6, <2>7, <2>8, <2>9 DEF WritesRow
  <2> QED
    BY <2>10, MappingWrites
<1>8. ASSUME NEW q \in Operators, NEW d \in Devices, M!Attach(q, d) PROVE MappingInv'
  <2> DEFINE wanted == M!Row("active", operation[q].toilet)
             row == IF operation[q].seen # M!NoRow THEN M!Saved(device[d], operation[q].seen, wanted)
                    ELSE IF M!Known(d) THEN device[d] ELSE wanted
  <2>1. /\ operation[q].at = "attach" /\ d \in operation[q].of /\ operation[q].of = {d} /\ operations' = operations
        /\ device' = [device EXCEPT ![d] = row] /\ operation' = [operation EXCEPT ![q] = M!Idle]
        /\ operation[q].toilet \in Toilets
    BY <1>8 DEF M!Attach, OperationTypes
  <2>2. wanted \in Rows /\ device[d] \in Rows /\ operation[q].seen \in Rows
    BY <2>1 DEF M!Row, Rows, OperationTypes, M!TypeOK
  <2>3. row \in Rows /\ (d \notin met => row = wanted)
    <3>1. d \notin met => operation[q].seen = device[d]
      BY <2>1 DEF SeenAsIs
    <3>2. device[d] = M!NoRow => ~M!Known(d)
      BY DEF M!NoRow, M!Row, M!Known
    <3>3. /\ M!Saved(device[d], operation[q].seen, wanted) \in Rows
          /\ device[d] = operation[q].seen => M!Saved(device[d], operation[q].seen, wanted) = wanted
      BY <2>2, SavedRow
    <3> QED
      BY <2>2, <3>1, <3>2, <3>3
  <2>4. met' = met \cup {t \in Toilets \ {operation[q].toilet} : d \in M!ActiveOn(t)' /\ d \notin M!ActiveOn(t)}
    BY <1>8 DEF M!Attach
  <2>5. device'[d] = row
    BY <2>1 DEF OperationTypes, M!TypeOK
  <2>6. ASSUME NEW t \in Toilets \ met', row = M!Row("active", t), device[d] # row
        PROVE  t = operation[q].toilet /\ M!ActiveOn(t) \subseteq {d}
    <3>1. d \in M!ActiveOn(t)' /\ d \notin M!ActiveOn(t)
      BY <2>5, <2>6 DEF M!ActiveOn
    <3>2. t = operation[q].toilet /\ t \notin met
      BY <2>4, <2>6, <3>1
    <3> QED
      BY <2>1, <3>2 DEF RoomIsMade
  <2>7. d \notin met => (row.status = "active" <=> row.toilet_unit_id # NoToilet)
    BY <2>1, <2>3 DEF M!Row
  <2>8. met' \subseteq Devices \cup Toilets /\ met \subseteq met'
    BY <2>4 DEF OperationTypes, M!TypeOK
  <2> HIDE DEF row, wanted, MappingInv, Operations
  <2>9. WritesRow(q, d, row, M!Idle)
    BY <2>1, <2>3, <2>6, <2>7, <2>8 DEF WritesRow
  <2> QED
    BY <2>9, MappingWrites
<1>9. ASSUME NEW q \in Operators, NEW d \in Devices,
             M!Register(q, d) \/ M!Detach(q, d)
      PROVE  MappingInv'
  <2> DEFINE row == device'[d]
  <2>1. /\ d \in operation[q].of /\ operation[q].at # "idle" /\ operations' = operations /\ met' = met
        /\ operation' = [operation EXCEPT ![q] = M!Idle]
    BY <1>9 DEF M!Register, M!Detach, M!Ends
  <2>2. M!Row("inactive", NoToilet) \in Rows /\ device[d] \in Rows /\ operation[q].seen \in Rows
    BY DEF M!Row, Rows, OperationTypes, M!TypeOK
  <2>3. /\ row \in Rows
        /\ device' = [device EXCEPT ![d] = row]
        /\ row.status = "active" => device[d].status = "active"
        /\ row.toilet_unit_id \in {device[d].toilet_unit_id, NoToilet}
        /\ d \notin met => row \in {device[d], M!Row("inactive", NoToilet)}
    <3>1. CASE M!Register(q, d)
      BY <2>2, <3>1 DEF M!Register, M!Row, OperationTypes, M!TypeOK
    <3>2. CASE M!Detach(q, d)
      <4> DEFINE saved == M!Saved(device[d], operation[q].seen, M!Row("inactive", NoToilet))
      <4>1. /\ saved \in Rows
            /\ device[d] = operation[q].seen => saved = M!Row("inactive", NoToilet)
            /\ saved.status = "active" => device[d].status = "active"
            /\ saved.toilet_unit_id \in {device[d].toilet_unit_id, NoToilet}
        BY <2>2, SavedRow DEF M!Row
      <4>2. device' = [device EXCEPT ![d] = saved] /\ row = saved
        BY <3>2 DEF M!Detach, OperationTypes, M!TypeOK
      <4>3. d \notin met => operation[q].seen = device[d]
        BY <2>1 DEF SeenAsIs
      <4> HIDE DEF saved
      <4> QED
        BY <4>1, <4>2, <4>3
    <3> QED
      BY <1>9, <3>1, <3>2
  <2>4. \A t \in Toilets : row = M!Row("active", t) => device[d] = row
    BY <2>2, <2>3 DEF M!Row, Rows
  <2>5. d \notin met => (row.status = "active" <=> row.toilet_unit_id # NoToilet)
    BY <2>3 DEF M!OneSensorAToilet, M!Row
  <2>6. met' \subseteq Devices \cup Toilets
    BY <2>1 DEF OperationTypes, M!TypeOK
  <2> HIDE DEF row, MappingInv, Operations
  <2>7. WritesRow(q, d, row, M!Idle)
    BY <2>1, <2>3, <2>4, <2>5, <2>6 DEF WritesRow
  <2> QED
    BY <2>7, MappingWrites
<1> QED
  BY <1>1, <1>2, <1>3, <1>4, <1>5, <1>6, <1>7, <1>8, <1>9 DEF M!Next

\* A toilet has one active sensor unless two requests for it crossed, or one moved a device
\* it had crossed others in.
THEOREM OneSensor == MCSpec => []OneSensorAToilet
<1>1. MCInit => MappingInv
  BY MappingInit DEF MCInit
<1>2. MappingInv /\ [MCNext]_all => MappingInv'
  BY StepOfParts, MappingStep
<1>3. MappingInv => OneSensorAToilet
  BY DEF MappingInv, OneSensorAToilet
<1> QED
  BY <1>1, <1>2, <1>3, PTL DEF MCSpec

-----------------------------------------------------------------------------
(* Workers imported from a file (WorkerImport).                            *)

Confirmations ==
    [at: {"idle", "rows", "row", "announce", "done"}, jobs: SUBSET Jobs,
     mode: {"none", "VALID_ROWS_ONLY", "ALL_OR_NOTHING"}, todo: SUBSET Codes, row: SUBSET Codes,
     made: SUBSET Codes, failed: SUBSET Codes]

ImportTypes ==
    /\ job = [j \in Jobs |-> [status |-> job[j].status, created |-> job[j].created, failed |-> job[j].failed]]
    /\ \A j \in Jobs : job[j].status \in {"none", "VALIDATED"} \cup W!Confirmed
    /\ rows \in [Jobs -> [Codes -> {"none", "VALID", "INVALID", "IMPORTED", "FAILED"}]]
    /\ account \in [Codes -> SUBSET (Jobs \cup {Nobody})]
    /\ confirm \in [Confirms -> Confirmations]

\* The codes a confirmation has inserted an account of, and not committed.
Inserted(c) == confirm[c].made \cup confirm[c].failed \cup confirm[c].row

\* A confirmation under way holds one job, alone, and before anybody has confirmed it; it has
\* inserted accounts of codes that have none, and that nobody else has inserted.
LocksHold ==
    /\ \A c, d \in Confirms : c # d =>
        confirm[c].jobs \cap confirm[d].jobs = {} /\ Inserted(c) \cap Inserted(d) = {}
    /\ \A c \in Confirms :
        /\ confirm[c].jobs # {} <=> confirm[c].at \in {"rows", "row", "announce"}
        /\ \A j, k \in confirm[c].jobs : j = k
        /\ \A j \in confirm[c].jobs : job[j].status = "VALIDATED"
        /\ \A emp \in Inserted(c) : account[emp] = {}

\* The codes of a confirmation are apart, and are the job's valid rows: all of them, unless
\* it has read the rows before they were stored.
RowsFound == \A c \in Confirms :
    LET t == confirm[c] IN
    /\ t.at \notin {"row", "announce"} => Inserted(c) \cup t.todo = {}
    /\ t.at # "announce" => t.row = {}
    /\ \A emp, other \in t.row : emp = other
    /\ t.made \cap (t.failed \cup t.row \cup t.todo) = {} /\ t.failed \cap (t.row \cup t.todo) = {}
    /\ t.row \cap t.todo = {}
    /\ \A j \in t.jobs :
        /\ Inserted(c) \cup t.todo \subseteq W!OfStatus(j, "VALID")
        /\ t.at \in {"row", "announce"} /\ j \notin early =>
            W!OfStatus(j, "VALID") \subseteq Inserted(c) \cup t.todo /\ W!OfStatus(j, "none") # Codes

\* A job that is confirmed, or not even validated, has the rows it will have.
RowsAfter == \A j \in Jobs :
    /\ job[j].status \in W!Confirmed /\ j \notin early => W!OfStatus(j, "none") # Codes
    /\ job[j].status = "none" => W!OfStatus(j, "none") = Codes

\* Who is told is told of an account that was made, will be, or was rolled back.
ToldOfHeld ==
    /\ \A c \in Confirms : \A j \in confirm[c].jobs : \A emp \in confirm[c].made : <<j, emp>> \in announced
    /\ \A j \in Jobs, emp \in Codes : <<j, emp>> \in announced /\ j \notin account[emp] =>
        <<j, emp>> \in undone \/ \E c \in Confirms : j \in confirm[c].jobs /\ emp \in confirm[c].made

\* An employee code has one account, made by the job whose row of it is imported.
AccountsAreRows ==
    /\ \A emp \in Codes : \A j, k \in account[emp] : j = k
    /\ \A j \in Jobs, emp \in Codes :
        /\ j \in account[emp] <=> rows[j][emp] \in {"IMPORTED", "FAILED"}
        /\ rows[j][emp] = "IMPORTED" => <<j, emp>> \in announced

\* The counters of a job that is confirmed, and the rows of one that is not.
Counted(j) ==
    /\ job[j].status \in W!Confirmed =>
        /\ job[j].created = W!Cardinality(W!OfStatus(j, "IMPORTED"))
        /\ (job[j].status = "COMPLETED") <=> (W!OfStatus(j, "FAILED") = {})
        /\ j \notin early => /\ job[j].failed = W!Cardinality(W!OfStatus(j, "FAILED")) + W!Cardinality(W!OfStatus(j, "INVALID"))
                           /\ W!OfStatus(j, "VALID") = {}
    /\ job[j].status = "VALIDATED" => W!OfStatus(j, "IMPORTED") = {} /\ W!OfStatus(j, "FAILED") = {}

ImportInv ==
    /\ ImportTypes
    /\ LocksHold
    /\ RowsFound
    /\ RowsAfter
    /\ ToldOfHeld
    /\ AccountsAreRows
    /\ \A j \in Jobs : Counted(j)

LEMMA IdleConfirmation ==
    /\ W!Idle \in Confirmations /\ W!Idle.at = "idle" /\ W!Idle.jobs = {}
    /\ W!Idle.made = {} /\ W!Idle.failed = {} /\ W!Idle.row = {} /\ W!Idle.todo = {} /\ W!Idle.mode = "none"
BY DEF W!Idle, Confirmations

LEMMA ImportInit == W!Init => ImportInv
<1> SUFFICES ASSUME W!Init PROVE ImportInv
  OBVIOUS
<1>1. confirm = [c \in Confirms |-> W!Idle] /\ \A j \in Jobs : job[j].status = "none"
  BY DEF W!Init, W!NoJob
<1>2. ImportTypes
  <2>1. job = [j \in Jobs |-> [status |-> job[j].status, created |-> job[j].created, failed |-> job[j].failed]]
    BY DEF W!Init, W!NoJob
  <2> QED
    BY <1>1, <2>1, IdleConfirmation DEF W!Init, ImportTypes
<1>3. LocksHold /\ RowsFound
  BY <1>1, IdleConfirmation DEF LocksHold, RowsFound, Inserted
<1>4. \A j \in Jobs, emp \in Codes : rows[j][emp] = "none" /\ j \notin account[emp]
  BY RequestsAssumption DEF W!Init, W!ImportAssumption
<1>5. RowsAfter
  BY <1>1, <1>4 DEF RowsAfter, W!OfStatus, W!Confirmed
<1>6. ToldOfHeld
  BY <1>1, IdleConfirmation DEF W!Init, ToldOfHeld
<1>7. AccountsAreRows
  BY <1>4 DEF W!Init, AccountsAreRows
<1>8. \A j \in Jobs : Counted(j)
  BY <1>1 DEF Counted, W!Confirmed
<1> QED
  BY <1>2, <1>3, <1>5, <1>6, <1>7, <1>8 DEF ImportInv

LEMMA ImportImplies == ImportInv => W!ImportIsWhole
<1> SUFFICES ASSUME ImportInv PROVE W!ImportIsWhole
  OBVIOUS
<1> USE DEF ImportInv
<1>1. \A j \in Jobs, emp \in Codes : <<j, emp>> \in announced /\ j \notin account[emp] =>
        <<j, emp>> \in undone \/ \E c \in Confirms : j \in confirm[c].jobs
  BY DEF ToldOfHeld
<1> QED
  BY <1>1 DEF W!ImportIsWhole, AccountsAreRows, Counted

\* A confirmation that goes on as t and writes nothing that others see.
Proceeds(c, t) ==
    /\ confirm' = [confirm EXCEPT ![c] = t] /\ t \in Confirmations
    /\ UNCHANGED <<job, rows, file, account>>
    /\ early \subseteq early' /\ announced \subseteq announced' /\ undone \subseteq undone'

LEMMA ImportProceeds ==
    ASSUME ImportInv, NEW c \in Confirms, NEW t, Proceeds(c, t), LocksHold', RowsFound', ToldOfHeld'
    PROVE  ImportInv'
<1> USE DEF ImportInv, Proceeds
<1>1. ImportTypes'
  BY DEF ImportTypes
<1>2. RowsAfter'
  BY DEF RowsAfter, W!OfStatus
<1>3. AccountsAreRows'
  BY DEF AccountsAreRows
<1>4. \A j \in Jobs : Counted(j)'
  BY DEF Counted, W!OfStatus
<1> QED
  BY <1>1, <1>2, <1>3, <1>4

LEMMA ImportValidates ==
    ASSUME ImportInv, NEW j \in Jobs, W!CreateJob(j) \/ W!CreateRows(j)
    PROVE  ImportInv'
<1> USE DEF ImportInv
<1>1. CASE W!CreateJob(j)
  <2>1. /\ job[j].status = "none" /\ job'[j].status = "VALIDATED"
        /\ job' = [job EXCEPT ![j].status = "VALIDATED"]
        /\ \A k \in Jobs : k # j => job'[k] = job[k]
        /\ UNCHANGED <<rows, account, confirm, announced, undone, early>>
    BY <1>1 DEF W!CreateJob, ImportTypes
  <2>2. ImportTypes'
    <3>1. job' = [k \in Jobs |-> [status |-> job'[k].status, created |-> job'[k].created, failed |-> job'[k].failed]]
      BY <2>1 DEF ImportTypes
    <3>2. \A k \in Jobs : job'[k].status \in {"none", "VALIDATED"} \cup W!Confirmed
      BY <2>1 DEF ImportTypes
    <3> QED
      BY <2>1, <3>1, <3>2 DEF ImportTypes
  <2>3. LocksHold'
    <3>1. \A c \in Confirms : \A k \in confirm[c].jobs : job'[k].status = "VALIDATED"
      BY <2>1 DEF LocksHold, ImportTypes, Confirmations
    <3> QED
      BY <2>1, <3>1 DEF LocksHold, Inserted
  <2>4. RowsFound' /\ RowsAfter' /\ ToldOfHeld'
    BY <2>1 DEF RowsFound, RowsAfter, ToldOfHeld, Inserted, W!OfStatus, W!Confirmed
  <2>5. AccountsAreRows'
    BY <2>1 DEF AccountsAreRows
  <2>6. \A k \in Jobs : Counted(k)'
    <3>1. W!OfStatus(j, "IMPORTED")' = {} /\ W!OfStatus(j, "FAILED")' = {}
      BY <2>1 DEF RowsAfter, W!OfStatus
    <3>2. Counted(j)'
      BY <2>1, <3>1 DEF Counted, W!Confirmed
    <3>a. \A k \in Jobs, status \in {"IMPORTED", "FAILED", "INVALID", "VALID"} :
            W!OfStatus(k, status)' = W!OfStatus(k, status)
      BY <2>1 DEF W!OfStatus
    <3>3. \A k \in Jobs : k # j => Counted(k)'
      BY <2>1, <3>a DEF Counted
    <3> QED
      BY <3>2, <3>3
  <2> QED
    BY <2>2, <2>3, <2>4, <2>5, <2>6
<1>2. CASE W!CreateRows(j)
  <2>1. /\ job[j].status # "none" /\ W!OfStatus(j, "none") = Codes
        /\ rows' = [rows EXCEPT ![j] = [c \in Codes |-> IF c \in file[j] THEN "VALID" ELSE "INVALID"]]
        /\ UNCHANGED <<job, file, account, confirm, announced, undone, early>>
    BY <1>2 DEF W!CreateRows
  <2>2. /\ \A k \in Jobs : k # j => rows'[k] = rows[k]
        /\ \A emp \in Codes : rows[j][emp] = "none" /\ rows'[j][emp] \in {"VALID", "INVALID"}
    BY <2>1 DEF ImportTypes, W!OfStatus
  <2>3. ImportTypes'
    BY <2>1 DEF ImportTypes
  <2>4. LocksHold' /\ ToldOfHeld'
    BY <2>1 DEF LocksHold, ToldOfHeld, Inserted
  <2>5. RowsFound'
    <3>1. W!OfStatus(j, "VALID") = {}
      BY <2>2 DEF W!OfStatus
    <3>2. ASSUME NEW c \in Confirms, j \in confirm[c].jobs
          PROVE  Inserted(c) \cup confirm[c].todo = {} /\ (confirm[c].at \in {"row", "announce"} => j \in early)
      BY <2>1, <3>1, <3>2 DEF RowsFound
    <3>3. \A k \in Jobs, status \in {"VALID", "none"} : k # j => W!OfStatus(k, status)' = W!OfStatus(k, status)
      BY <2>2 DEF W!OfStatus
    <3>4. \A c \in Confirms : Inserted(c)' = Inserted(c) /\ confirm'[c] = confirm[c]
      BY <2>1 DEF Inserted
    <3>5. ASSUME NEW c \in Confirms, NEW k \in confirm[c].jobs
          PROVE  /\ Inserted(c) \cup confirm[c].todo \subseteq W!OfStatus(k, "VALID")'
                 /\ confirm[c].at \in {"row", "announce"} /\ k \notin early =>
                      /\ W!OfStatus(k, "VALID")' \subseteq Inserted(c) \cup confirm[c].todo
                      /\ W!OfStatus(k, "none")' # Codes
      <4>1. k \in Jobs
        BY DEF ImportTypes, Confirmations
      <4>2. CASE k = j
        BY <3>2, <4>2
      <4>3. CASE k # j
        BY <3>3, <4>1, <4>3 DEF RowsFound
      <4> QED
        BY <4>2, <4>3
    <3> QED
      BY <2>1, <3>4, <3>5 DEF RowsFound
  <2>6. RowsAfter'
    BY <2>1, <2>2 DEF RowsAfter, W!OfStatus
  <2>7. AccountsAreRows'
    <3>1. \A k \in Jobs, emp \in Codes : rows'[k][emp] \in {"IMPORTED", "FAILED"} <=> rows[k][emp] \in {"IMPORTED", "FAILED"}
      BY <2>2
    <3>2. \A k \in Jobs, emp \in Codes : rows'[k][emp] = "IMPORTED" <=> rows[k][emp] = "IMPORTED"
      BY <2>2
    <3> QED
      BY <2>1, <3>1, <3>2 DEF AccountsAreRows
  <2>8. \A k \in Jobs : Counted(k)'
    <3>1. /\ W!OfStatus(j, "IMPORTED")' = W!OfStatus(j, "IMPORTED") /\ W!OfStatus(j, "FAILED")' = W!OfStatus(j, "FAILED")
      BY <2>2 DEF W!OfStatus
    <3>2. job[j].status \in W!Confirmed => j \in early
      BY <2>1 DEF RowsAfter
    <3>3. Counted(j)'
      BY <2>1, <3>1, <3>2 DEF Counted
    <3>a. \A k \in Jobs, status \in {"IMPORTED", "FAILED", "INVALID", "VALID"} : k # j =>
            W!OfStatus(k, status)' = W!OfStatus(k, status)
      BY <2>2 DEF W!OfStatus
    <3>4. \A k \in Jobs : k # j => Counted(k)'
      BY <2>1, <3>a DEF Counted
    <3> QED
      BY <3>3, <3>4
  <2> QED
    BY <2>3, <2>4, <2>5, <2>6, <2>7, <2>8
<1> QED
  BY <1>1, <1>2

LEMMA ImportReadsJob ==
    ASSUME ImportInv, NEW c \in Confirms, NEW j \in Jobs, W!ReadJob(c, j)
    PROVE  ImportInv'
<1> USE DEF ImportInv
<1> DEFINE t == IF job[j].status \in W!Confirmed THEN [W!Idle EXCEPT !.at = "done"]
                ELSE [W!Idle EXCEPT !.at = "rows", !.jobs = {j}]
<1>1. /\ t \in Confirmations /\ t.made = {} /\ t.failed = {} /\ t.row = {} /\ t.todo = {}
      /\ \/ t.at = "done" /\ t.jobs = {}
         \/ t.at = "rows" /\ t.jobs = {j} /\ job[j].status \notin W!Confirmed
  BY IdleConfirmation DEF Confirmations
<1>2. /\ confirm' = [confirm EXCEPT ![c] = t] /\ job[j].status # "none" /\ ~W!Locked(c, j)
      /\ UNCHANGED <<job, rows, file, account, announced, undone, early>> /\ confirm[c].at = "idle"
  BY DEF W!ReadJob
<1> HIDE DEF t
<1>3. \A d \in Confirms : confirm'[d] = IF d = c THEN t ELSE confirm[d]
  BY <1>2 DEF ImportTypes
<1>4. \A d \in Confirms : Inserted(d)' = IF d = c THEN {} ELSE Inserted(d)
  BY <1>1, <1>3 DEF Inserted
<1>5. confirm[c].made = {} /\ confirm[c].jobs = {}
  BY <1>2 DEF RowsFound, LocksHold, Inserted
<1>6. LocksHold'
  <2>1. \A d, e \in Confirms : d # e => confirm'[d].jobs \cap confirm'[e].jobs = {} /\ Inserted(d)' \cap Inserted(e)' = {}
    BY <1>1, <1>2, <1>3, <1>4 DEF LocksHold, W!Locked
  <2>2. job[j].status \notin W!Confirmed => job[j].status = "VALIDATED"
    BY <1>2 DEF ImportTypes
  <2>3. \A d \in Confirms : \A k \in confirm'[d].jobs : job'[k].status = "VALIDATED"
    BY <1>1, <1>2, <1>3, <2>2 DEF LocksHold
  <2>4. \A d \in Confirms :
        /\ confirm'[d].jobs # {} <=> confirm'[d].at \in {"rows", "row", "announce"}
        /\ \A k, l \in confirm'[d].jobs : k = l
        /\ \A emp \in Inserted(d)' : account'[emp] = {}
    BY <1>1, <1>2, <1>3, <1>4 DEF LocksHold
  <2> QED
    BY <2>1, <2>3, <2>4 DEF LocksHold
<1>7. RowsFound'
  BY <1>1, <1>2, <1>3, <1>4 DEF RowsFound, W!OfStatus
<1>8. ToldOfHeld'
  BY <1>1, <1>2, <1>3, <1>5 DEF ToldOfHeld
<1>9. Proceeds(c, t)
  BY <1>1, <1>2 DEF Proceeds
<1> QED
  BY <1>6, <1>7, <1>8, <1>9, ImportProceeds

LEMMA ImportReadsRows ==
    ASSUME ImportInv, NEW c \in Confirms, NEW j \in Jobs, W!ReadRows(c, j)
    PROVE  ImportInv'
<1> USE DEF ImportInv
<1>1. PICK mode \in {"VALID_ROWS_ONLY", "ALL_OR_NOTHING"} : confirm' = [confirm EXCEPT ![c] =
            IF mode = "ALL_OR_NOTHING" /\ W!OfStatus(j, "INVALID") # {} THEN [W!Idle EXCEPT !.at = "done"]
            ELSE [confirm[c] EXCEPT !.at = "row", !.mode = mode, !.todo = W!OfStatus(j, "VALID")]]
  BY DEF W!ReadRows
<1> DEFINE t == IF mode = "ALL_OR_NOTHING" /\ W!OfStatus(j, "INVALID") # {} THEN [W!Idle EXCEPT !.at = "done"]
                ELSE [confirm[c] EXCEPT !.at = "row", !.mode = mode, !.todo = W!OfStatus(j, "VALID")]
<1>2. /\ confirm[c].at = "rows" /\ j \in confirm[c].jobs
      /\ early' = IF W!OfStatus(j, "none") = Codes THEN early \cup {j} ELSE early
      /\ UNCHANGED <<job, rows, file, account, announced, undone>>
  BY DEF W!ReadRows
<1>3. confirm[c].jobs = {j} /\ confirm[c].made = {} /\ confirm[c].failed = {} /\ confirm[c].row = {}
  BY <1>2 DEF LocksHold, RowsFound, Inserted
<1>4. /\ t \in Confirmations /\ t.made = {} /\ t.failed = {} /\ t.row = {}
      /\ \/ t.at = "done" /\ t.jobs = {} /\ t.todo = {}
         \/ t.at = "row" /\ t.jobs = {j} /\ t.todo = W!OfStatus(j, "VALID")
  <2>1. confirm[c] \in Confirmations /\ W!OfStatus(j, "VALID") \in SUBSET Codes
    BY DEF ImportTypes, W!OfStatus
  <2>2. CASE mode = "ALL_OR_NOTHING" /\ W!OfStatus(j, "INVALID") # {}
    BY <2>2, IdleConfirmation DEF Confirmations
  <2>3. CASE ~(mode = "ALL_OR_NOTHING" /\ W!OfStatus(j, "INVALID") # {})
    BY <1>3, <2>1, <2>3 DEF Confirmations
  <2> QED
    BY <2>2, <2>3
<1>5. confirm' = [confirm EXCEPT ![c] = t]
  BY <1>1
<1> HIDE DEF t
<1>6. \A d \in Confirms : confirm'[d] = IF d = c THEN t ELSE confirm[d]
  BY <1>5 DEF ImportTypes
<1>7. \A d \in Confirms : Inserted(d)' = Inserted(d)
  BY <1>3, <1>4, <1>6 DEF Inserted
<1>8. LocksHold'
  BY <1>2, <1>3, <1>4, <1>6, <1>7 DEF LocksHold
<1>9. RowsFound'
  <2>1. \A d \in Confirms \ {c} : confirm'[d] = confirm[d] /\ j \notin confirm[d].jobs
    BY <1>2, <1>6 DEF LocksHold
  <2>2. \A k \in Jobs, status \in {"VALID", "none"} : W!OfStatus(k, status)' = W!OfStatus(k, status)
    BY <1>2 DEF W!OfStatus
  <2>3. early \subseteq early' /\ (j \notin early' => W!OfStatus(j, "none") # Codes)
    BY <1>2
  <2>4. Inserted(c) = {} /\ confirm'[c] = t
    BY <1>3, <1>6 DEF Inserted
  <2>5. \A d \in Confirms : confirm[d].jobs \subseteq Jobs
    BY DEF ImportTypes, Confirmations
  <2> QED
    BY <1>4, <1>7, <2>1, <2>2, <2>3, <2>4, <2>5 DEF RowsFound
<1>10. ToldOfHeld'
  BY <1>2, <1>3, <1>4, <1>6 DEF ToldOfHeld
<1>11. Proceeds(c, t)
  BY <1>2, <1>4, <1>5 DEF Proceeds
<1> QED
  BY <1>8, <1>9, <1>10, <1>11, ImportProceeds

LEMMA ImportInserts ==
    ASSUME ImportInv, NEW c \in Confirms, NEW emp \in Codes, W!InsertAccount(c, emp)
    PROVE  ImportInv'
<1> USE DEF ImportInv
<1> DEFINE t == [confirm[c] EXCEPT !.at = "announce", !.row = {emp}, !.todo = confirm[c].todo \ {emp}]
<1>1. /\ confirm[c].at = "row" /\ emp \in confirm[c].todo /\ ~W!Pending(c, emp) /\ account[emp] = {}
      /\ UNCHANGED <<job, rows, file, account, announced, undone, early>>
  BY DEF W!InsertAccount
<1>2. confirm' = [confirm EXCEPT ![c] = t] /\ confirm[c] \in Confirmations
  BY DEF W!InsertAccount, ImportTypes, Confirmations
<1>3. /\ t \in Confirmations /\ t.at = "announce" /\ t.jobs = confirm[c].jobs /\ t.row = {emp}
      /\ t.todo = confirm[c].todo \ {emp} /\ t.made = confirm[c].made /\ t.failed = confirm[c].failed
  BY <1>2 DEF Confirmations
<1>4. confirm[c].row = {}
  BY <1>1 DEF RowsFound
<1> HIDE DEF t
<1>5. \A d \in Confirms : confirm'[d] = IF d = c THEN t ELSE confirm[d]
  BY <1>2 DEF ImportTypes
<1>6. \A d \in Confirms : Inserted(d)' = IF d = c THEN Inserted(c) \cup {emp} ELSE Inserted(d)
  BY <1>3, <1>4, <1>5 DEF Inserted
<1>7. LocksHold'
  <2>1. \A d \in Confirms \ {c} : emp \notin Inserted(d)
    BY <1>1 DEF W!Pending, Inserted
  <2>2. \A d, e \in Confirms : d # e => Inserted(d)' \cap Inserted(e)' = {}
    BY <1>6, <2>1 DEF LocksHold
  <2> QED
    BY <1>1, <1>3, <1>5, <1>6, <2>2 DEF LocksHold
<1>8. RowsFound'
  BY <1>1, <1>3, <1>4, <1>5, <1>6 DEF RowsFound, W!OfStatus
<1>9. ToldOfHeld'
  BY <1>1, <1>3, <1>5 DEF ToldOfHeld
<1>10. Proceeds(c, t)
  BY <1>1, <1>2, <1>3 DEF Proceeds
<1> QED
  BY <1>7, <1>8, <1>9, <1>10, ImportProceeds

LEMMA ImportAnnounces ==
    ASSUME ImportInv, NEW c \in Confirms, NEW j \in Jobs, NEW emp \in Codes, W!Announce(c, j, emp)
    PROVE  ImportInv'
<1> USE DEF ImportInv
<1>1. /\ confirm[c].at = "announce" /\ emp \in confirm[c].row /\ j \in confirm[c].jobs /\ confirm[c].row = {emp}
      /\ confirm[c].jobs = {j} /\ confirm[c] \in Confirmations
      /\ UNCHANGED <<job, rows, file, account, undone, early>>
  BY DEF W!Announce, RowsFound, LocksHold, ImportTypes
<1>2. ASSUME NEW t \in Confirmations, confirm' = [confirm EXCEPT ![c] = t],
             t.at = "row", t.row = {}, t.todo = confirm[c].todo, t.jobs = {j},
             \/ /\ t.made = confirm[c].made \cup {emp} /\ t.failed = confirm[c].failed
                /\ announced' = announced \cup {<<j, emp>>}
             \/ /\ t.made = confirm[c].made /\ t.failed = confirm[c].failed \cup {emp}
                /\ announced' = announced
      PROVE  ImportInv'
  <2>1. \A d \in Confirms : confirm'[d] = IF d = c THEN t ELSE confirm[d]
    BY <1>2 DEF ImportTypes
  <2>2. \A d \in Confirms : Inserted(d)' = Inserted(d)
    BY <1>1, <1>2, <2>1 DEF Inserted
  <2>3. LocksHold'
    BY <1>1, <1>2, <2>1, <2>2 DEF LocksHold
  <2>4. RowsFound'
    <3>1. \A k \in Jobs, status \in {"VALID", "none"} : W!OfStatus(k, status)' = W!OfStatus(k, status)
      BY <1>1 DEF W!OfStatus
    <3>2. \A d \in Confirms : confirm[d].jobs \subseteq Jobs
      BY DEF ImportTypes, Confirmations
    <3> QED
      BY <1>1, <1>2, <2>1, <2>2, <3>1, <3>2 DEF RowsFound
  <2>5. ToldOfHeld'
    BY <1>1, <1>2, <2>1 DEF ToldOfHeld
  <2>6. Proceeds(c, t)
    BY <1>1, <1>2 DEF Proceeds
  <2> QED
    BY <2>3, <2>4, <2>5, <2>6, ImportProceeds
<1>3. CASE /\ announced' = announced \cup {<<j, emp>>}
           /\ confirm' = [confirm EXCEPT ![c].at = "row", ![c].row = {}, ![c].made = @ \cup {emp}]
  <2> DEFINE t == [confirm[c] EXCEPT !.at = "row", !.row = {}, !.made = confirm[c].made \cup {emp}]
  <2>1. /\ t \in Confirmations /\ t.at = "row" /\ t.row = {} /\ t.todo = confirm[c].todo /\ t.jobs = {j}
        /\ t.made = confirm[c].made \cup {emp} /\ t.failed = confirm[c].failed
    BY <1>1 DEF Confirmations
  <2>2. confirm' = [confirm EXCEPT ![c] = t]
    BY <1>1, <1>3 DEF ImportTypes, Confirmations
  <2> QED
    BY <1>2, <1>3, <2>1, <2>2
<1>4. CASE /\ announced' = announced
           /\ confirm' = [confirm EXCEPT ![c].at = "row", ![c].row = {}, ![c].failed = @ \cup {emp}]
  <2> DEFINE t == [confirm[c] EXCEPT !.at = "row", !.row = {}, !.failed = confirm[c].failed \cup {emp}]
  <2>1. /\ t \in Confirmations /\ t.at = "row" /\ t.row = {} /\ t.todo = confirm[c].todo /\ t.jobs = {j}
        /\ t.made = confirm[c].made /\ t.failed = confirm[c].failed \cup {emp}
    BY <1>1 DEF Confirmations
  <2>2. confirm' = [confirm EXCEPT ![c] = t]
    BY <1>1, <1>4 DEF ImportTypes, Confirmations
  <2> QED
    BY <1>2, <1>4, <2>1, <2>2
<1> QED
  BY <1>3, <1>4 DEF W!Announce

LEMMA ImportRollsBack ==
    ASSUME ImportInv, NEW c \in Confirms, NEW j \in Jobs, W!Rollback(c, j)
    PROVE  ImportInv'
<1> USE DEF ImportInv
<1> DEFINE t == [W!Idle EXCEPT !.at = "done"]
<1>1. /\ t \in Confirmations /\ t.made = {} /\ t.failed = {} /\ t.row = {} /\ t.todo = {}
      /\ t.at = "done" /\ t.jobs = {}
  BY IdleConfirmation DEF Confirmations
<1>2. /\ confirm' = [confirm EXCEPT ![c] = t] /\ j \in confirm[c].jobs /\ confirm[c].jobs = {j}
      /\ undone' = undone \cup ({j} \X (confirm[c].made \cup confirm[c].failed \cup confirm[c].row))
      /\ UNCHANGED <<job, rows, file, account, announced, early>>
  BY DEF W!Rollback, LocksHold
<1> HIDE DEF t
<1>3. \A d \in Confirms : confirm'[d] = IF d = c THEN t ELSE confirm[d]
  BY <1>2 DEF ImportTypes
<1>4. \A d \in Confirms : Inserted(d)' = IF d = c THEN {} ELSE Inserted(d)
  BY <1>1, <1>3 DEF Inserted
<1>5. LocksHold'
  BY <1>1, <1>2, <1>3, <1>4 DEF LocksHold
<1>6. RowsFound'
  BY <1>1, <1>2, <1>3, <1>4 DEF RowsFound, W!OfStatus
<1>7. ToldOfHeld'
  BY <1>1, <1>2, <1>3 DEF ToldOfHeld
<1>8. Proceeds(c, t)
  BY <1>1, <1>2 DEF Proceeds
<1> QED
  BY <1>5, <1>6, <1>7, <1>8, ImportProceeds

\* What is committed is what was inserted, of the rows that were valid.
LEMMA ImportCommits ==
    ASSUME ImportInv, NEW c \in Confirms, NEW j \in Jobs, W!Commit(c, j)
    PROVE  ImportInv'
<1> USE DEF ImportInv
<1> DEFINE t == [W!Idle EXCEPT !.at = "done"]
           made == confirm[c].made
           failed == confirm[c].failed
<1>1. /\ t \in Confirmations /\ t.made = {} /\ t.failed = {} /\ t.row = {} /\ t.todo = {}
      /\ t.at = "done" /\ t.jobs = {}
  BY IdleConfirmation DEF Confirmations
<1>2. /\ confirm[c].at = "row" /\ confirm[c].todo = {} /\ j \in confirm[c].jobs /\ confirm[c].jobs = {j}
      /\ confirm[c].row = {} /\ Inserted(c) = made \cup failed /\ made \cap failed = {}
      /\ job[j].status = "VALIDATED" /\ made \subseteq Codes /\ failed \subseteq Codes
  <2>1. confirm[c].at = "row" /\ confirm[c].todo = {} /\ j \in confirm[c].jobs
    BY DEF W!Commit
  <2>2. confirm[c].row = {} /\ made \cap failed = {}
    BY <2>1 DEF RowsFound
  <2>3. confirm[c].jobs = {j} /\ job[j].status = "VALIDATED"
    BY <2>1 DEF LocksHold
  <2>4. made \subseteq Codes /\ failed \subseteq Codes
    BY DEF ImportTypes, Confirmations
  <2> QED
    BY <2>1, <2>2, <2>3, <2>4 DEF Inserted
<1>3. /\ confirm' = [confirm EXCEPT ![c] = t]
      /\ UNCHANGED <<file, announced, undone, early>>
  BY DEF W!Commit
<1>4. job' = [job EXCEPT ![j] =
                [status |-> IF failed = {} THEN "COMPLETED" ELSE "PARTIALLY_COMPLETED",
                 created |-> W!Cardinality(made),
                 failed |-> W!Cardinality(failed) + W!Cardinality(W!OfStatus(j, "INVALID"))]]
  BY DEF W!Commit
<1>5. rows' = [rows EXCEPT ![j] = [emp \in Codes |->
                IF emp \in made THEN "IMPORTED" ELSE IF emp \in failed THEN "FAILED" ELSE rows[j][emp]]]
  BY DEF W!Commit
<1>6. account' = [emp \in Codes |-> IF emp \in made \cup failed THEN account[emp] \cup {j} ELSE account[emp]]
  BY DEF W!Commit
<1> HIDE DEF t, made, failed
<1>7. \A d \in Confirms : confirm'[d] = IF d = c THEN t ELSE confirm[d]
  BY <1>3 DEF ImportTypes
<1>8. \A d \in Confirms : Inserted(d)' = IF d = c THEN {} ELSE Inserted(d)
  BY <1>1, <1>7 DEF Inserted
<1>9. /\ \A k \in Jobs \ {j} : job'[k] = job[k]
      /\ job'[j].status = IF failed = {} THEN "COMPLETED" ELSE "PARTIALLY_COMPLETED"
      /\ job'[j].created = W!Cardinality(made)
      /\ job'[j].failed = W!Cardinality(failed) + W!Cardinality(W!OfStatus(j, "INVALID"))
  BY <1>4 DEF ImportTypes
<1>10. /\ \A k \in Jobs \ {j} : rows'[k] = rows[k]
       /\ \A emp \in Codes : rows'[j][emp] =
            IF emp \in made THEN "IMPORTED" ELSE IF emp \in failed THEN "FAILED" ELSE rows[j][emp]
  BY <1>5 DEF ImportTypes
<1>11. \A k \in Jobs \ {j}, status \in {"none", "IMPORTED", "FAILED", "INVALID", "VALID"} :
            W!OfStatus(k, status)' = W!OfStatus(k, status)
  BY <1>10 DEF W!OfStatus
<1>12. /\ W!OfStatus(j, "IMPORTED") = {} /\ W!OfStatus(j, "FAILED") = {}
       /\ made \cup failed \subseteq W!OfStatus(j, "VALID")
       /\ j \notin early => W!OfStatus(j, "VALID") \subseteq made \cup failed /\ W!OfStatus(j, "none") # Codes
  <2>1. Counted(j)
    OBVIOUS
  <2>2. RowsFound /\ Inserted(c) \cup confirm[c].todo = made \cup failed
    BY <1>2
  <2> QED
    BY <1>2, <2>1, <2>2 DEF Counted, RowsFound
<1>13. /\ W!OfStatus(j, "IMPORTED")' = made /\ W!OfStatus(j, "FAILED")' = failed
       /\ W!OfStatus(j, "INVALID")' = W!OfStatus(j, "INVALID") /\ W!OfStatus(j, "none")' = W!OfStatus(j, "none")
       /\ W!OfStatus(j, "VALID")' = W!OfStatus(j, "VALID") \ (made \cup failed)
  BY <1>2, <1>10, <1>12 DEF W!OfStatus
<1>14. \A emp \in Codes : account'[emp] = IF emp \in Inserted(c) THEN {j} ELSE account[emp]
  BY <1>2, <1>6 DEF LocksHold
<1>15. ImportTypes'
  <2>1. job' = [k \in Jobs |-> [status |-> job'[k].status, created |-> job'[k].created, failed |-> job'[k].failed]]
    BY <1>4 DEF ImportTypes
  <2>2. \A k \in Jobs : job'[k].status \in {"none", "VALIDATED"} \cup W!Confirmed
    BY <1>9 DEF ImportTypes, W!Confirmed
  <2>3. rows' \in [Jobs -> [Codes -> {"none", "VALID", "INVALID", "IMPORTED", "FAILED"}]]
    BY <1>5 DEF ImportTypes
  <2>4. account' \in [Codes -> SUBSET (Jobs \cup {Nobody})]
    BY <1>6 DEF ImportTypes
  <2> QED
    BY <1>1, <1>3, <2>1, <2>2, <2>3, <2>4 DEF ImportTypes
<1>16. LocksHold'
  <2>1. \A d, e \in Confirms : d # e => confirm'[d].jobs \cap confirm'[e].jobs = {} /\ Inserted(d)' \cap Inserted(e)' = {}
    BY <1>1, <1>7, <1>8 DEF LocksHold
  <2>2. \A d \in Confirms \ {c} : \A k \in confirm[d].jobs : k \in Jobs /\ k # j
    BY <1>2 DEF LocksHold, ImportTypes, Confirmations
  <2>3. \A d \in Confirms : \A k \in confirm'[d].jobs : job'[k].status = "VALIDATED"
    BY <1>1, <1>7, <1>9, <2>2 DEF LocksHold
  <2>4. \A d \in Confirms \ {c} : \A emp \in Inserted(d) : emp \in Codes /\ emp \notin Inserted(c)
    BY DEF LocksHold, ImportTypes, Confirmations, Inserted
  <2>5. \A d \in Confirms : \A emp \in Inserted(d)' : account'[emp] = {}
    BY <1>8, <1>14, <2>4 DEF LocksHold
  <2>6. \A d \in Confirms :
        /\ confirm'[d].jobs # {} <=> confirm'[d].at \in {"rows", "row", "announce"}
        /\ \A k, l \in confirm'[d].jobs : k = l
    BY <1>1, <1>7 DEF LocksHold
  <2> QED
    BY <2>1, <2>3, <2>5, <2>6 DEF LocksHold
<1>17. RowsFound'
  <2>1. \A d \in Confirms \ {c} : \A k \in confirm[d].jobs : k \in Jobs \ {j}
    BY <1>2 DEF LocksHold, ImportTypes, Confirmations
  <2> QED
    BY <1>1, <1>3, <1>7, <1>8, <1>11, <2>1 DEF RowsFound
<1>18. RowsAfter'
  BY <1>3, <1>9, <1>11, <1>12, <1>13 DEF RowsAfter, W!Confirmed
<1>19. ToldOfHeld'
  <2>1. \A d \in Confirms : \A k \in confirm'[d].jobs : \A emp \in confirm'[d].made : <<k, emp>> \in announced
    BY <1>1, <1>7 DEF ToldOfHeld
  <2>2. ASSUME NEW k \in Jobs, NEW emp \in Codes, <<k, emp>> \in announced, k \notin account'[emp]
        PROVE  <<k, emp>> \in undone \/ \E d \in Confirms : k \in confirm'[d].jobs /\ emp \in confirm'[d].made
    <3>1. k \notin account[emp] /\ ~(k = j /\ emp \in made)
      BY <1>6, <2>2
    <3>2. CASE <<k, emp>> \in undone
      BY <3>2
    <3>3. ASSUME NEW d \in Confirms, k \in confirm[d].jobs, emp \in confirm[d].made
          PROVE  k \in confirm'[d].jobs /\ emp \in confirm'[d].made
      BY <1>2, <1>7, <3>1, <3>3 DEF made
    <3> QED
      BY <2>2, <3>1, <3>2, <3>3 DEF ToldOfHeld
  <2> QED
    BY <1>3, <2>1, <2>2 DEF ToldOfHeld
<1>20. AccountsAreRows'
  <2>1. \A emp \in Codes : \A k, l \in account'[emp] : k = l
    BY <1>14 DEF AccountsAreRows
  <2>2. ASSUME NEW emp \in Codes
        PROVE  /\ j \in account'[emp] <=> rows'[j][emp] \in {"IMPORTED", "FAILED"}
               /\ rows'[j][emp] = "IMPORTED" => <<j, emp>> \in announced'
    <3>1. rows[j][emp] \notin {"IMPORTED", "FAILED"} /\ j \notin account[emp]
      BY <1>12 DEF W!OfStatus, AccountsAreRows
    <3>2. emp \in made => <<j, emp>> \in announced'
      BY <1>2, <1>3 DEF ToldOfHeld, made
    <3> QED
      BY <1>6, <1>10, <3>1, <3>2
  <2>3. ASSUME NEW k \in Jobs \ {j}, NEW emp \in Codes
        PROVE  /\ k \in account'[emp] <=> rows'[k][emp] \in {"IMPORTED", "FAILED"}
               /\ rows'[k][emp] = "IMPORTED" => <<k, emp>> \in announced'
    BY <1>3, <1>6, <1>10 DEF AccountsAreRows
  <2> QED
    BY <2>1, <2>2, <2>3 DEF AccountsAreRows
<1>21. \A k \in Jobs : Counted(k)'
  <2>1. Counted(j)'
    BY <1>3, <1>9, <1>12, <1>13 DEF Counted, W!Confirmed
  <2>2. \A k \in Jobs \ {j} : Counted(k)'
    BY <1>3, <1>9, <1>11 DEF Counted
  <2> QED
    BY <2>1, <2>2
<1> QED
  BY <1>15, <1>16, <1>17, <1>18, <1>19, <1>20, <1>21

\* A job is imported once and whole, however many confirmations of how many files there are.
THEOREM ImportedWhole == MCSpec => []ImportIsWhole
<1>1. MCInit => ImportInv
  BY ImportInit DEF MCInit
<1>2. ImportInv /\ [MCNext]_all => ImportInv'
  <2> SUFFICES ASSUME ImportInv, [MCNext]_all PROVE ImportInv'
    OBVIOUS
  <2>1. CASE W!Next
    BY <2>1, ImportValidates, ImportReadsJob, ImportReadsRows, ImportInserts, ImportAnnounces, ImportRollsBack,
       ImportCommits DEF W!Next, W!confirmImport
  <2>2. CASE UNCHANGED importVars
    <3>1. \A k \in Jobs : Counted(k)'
      BY <2>2 DEF importVars, ImportInv, Counted, W!OfStatus
    <3> QED
      BY <2>2, <3>1 DEF importVars, ImportInv, ImportTypes, LocksHold, RowsFound, RowsAfter, ToldOfHeld,
         AccountsAreRows, Inserted, W!OfStatus
  <2> QED
    BY <2>1, <2>2, StepOfParts
<1>3. ImportInv => ImportIsWhole
  BY ImportImplies DEF ImportIsWhole
<1> QED
  BY <1>1, <1>2, <1>3, PTL DEF MCSpec

-----------------------------------------------------------------------------
(* Submissions behind the middleware (Submissions), on its invariant.      *)

SubmissionTypes ==
    /\ form \in [Others -> Bodies]
    /\ place \in [Submitters -> {"out", "answered", "dead"} \cup Working]
    /\ outcome \in [Submitters -> {"none", "ok", "refused", "error"}]
    /\ found \in [Submitters -> Submitters \cup {NoRequest}]
    /\ submittedBy \in Submitters \cup {NoRequest}
    /\ stored \subseteq Submitters
    /\ crossed \in BOOLEAN

\* Whoever is in the handler with the key, or has a row, was let in by the middleware; an
\* answer is the last a request does.
Behind ==
    /\ \A r \in Requests : place[r] \in Working => r \in admitted
    /\ \A r \in Requests : r \in stored => r \in admitted
    /\ \A r \in Submitters : place[r] \in {"enqueue", "escalate"} => r \in stored
    /\ \A r \in Submitters : outcome[r] # "none" => place[r] = "answered"

\* Unless two with the key were between look-up and insert together, there is one who is, and
\* nobody with the key has a row before.
OneKeyed ==
    ~crossed =>
        /\ \A r, s \in Requests : place[r] \in Inserting /\ place[s] \in Inserting => r = s
        /\ \A r, s \in Requests : place[r] \in Inserting => s \notin stored
        /\ \A r, s \in Requests : r \in stored /\ s \in stored => r = s

SubmissionInv ==
    /\ TypeOK /\ Agreement
    /\ SubmissionTypes
    /\ Behind
    /\ OneKeyed
    /\ OneSubmission

LEMMA SubmissionConstants ==
    /\ \A r \in Others : r \notin Requests /\ r # NoRequest
    /\ \A r \in Requests : r \notin Others /\ r # NoRequest
    /\ NoRequest \notin Submitters
    /\ Requests \subseteq Submitters /\ Others \subseteq Submitters
BY SubmissionsAssumption, ConstantsAssumption DEF Submitters

LEMMA SubmissionInit == SubmissionsInit => SubmissionInv
<1> SUFFICES ASSUME SubmissionsInit PROVE SubmissionInv
  OBVIOUS
<1> USE SubmissionConstants DEF SubmissionsInit
<1>1. TypeOK /\ Agreement
  BY MiddlewareInit DEF MiddlewareInv
<1>2. SubmissionTypes /\ Behind /\ OneKeyed
  BY DEF SubmissionTypes, Behind, OneKeyed, Working, Inserting
<1>3. OneSubmission
  BY DEF OneSubmission
<1> QED
  BY <1>1, <1>2, <1>3 DEF SubmissionInv

\* The middleware's step within a step of the whole, and what none of them changes.
LEMMA SubmissionFrame ==
    ASSUME SubmissionInv, [SubmissionsNext]_allVars
    PROVE  /\ TypeOK' /\ Agreement'
           /\ body' = body /\ form' = form
           /\ admitted \subseteq admitted'
<1>1. [Next]_vars
  BY DEF SubmissionsNext, allVars, vars, Next, withIdempotency, ConfirmMedia, Middleware, Respond, Leave,
     submitInspection, Die, LoadInspection, FindSubmission, UpdateInspection, CreateSubmission, EnqueueSubmission,
     Escalate, Throw
<1>2. TypeOK' /\ Agreement'
  BY <1>1, MiddlewareTypeStep, AgreementStep DEF SubmissionInv
<1>3. body' = body /\ admitted \subseteq admitted'
  BY <1>1 DEF Next, vars, Tick, withIdempotency, Enter, FindStored, FindNothing, Judge, Clear, Lock,
     Create, CreateLoses, Reread, Handle, Finish, Abandon
<1>4. form' = form
  BY DEF SubmissionsNext, allVars, submissionVars, ConfirmMedia, Middleware, Respond, Leave,
     submitInspection, Die, LoadInspection, FindSubmission, UpdateInspection, CreateSubmission, EnqueueSubmission,
     Escalate, Throw
<1> QED
  BY <1>2, <1>3, <1>4

\* Requests with the key ask for one and the same, and are known by the same client's id.
LEMMA SameClient ==
    ASSUME SubmissionInv, NEW r \in Requests, NEW s \in Requests, r \in admitted, s \in admitted
    PROVE  Body(s) = Body(r) /\ Client(s) = Client(r)
BY DEF SubmissionInv, Agreement, Body, Client

\* A step that stores nothing and sends r elsewhere, with an answer or without.
LEMMA SubmissionGoes ==
    ASSUME SubmissionInv, TypeOK', Agreement', body' = body, form' = form, admitted \subseteq admitted',
           NEW r \in Submitters, NEW to \in {"answered", "dead"} \cup Working,
           Goes(r, to),
           stored' = stored, submittedBy' \in {submittedBy, r},
           place[r] # "answered",
           to \in Working /\ r \in Requests => r \in admitted,
           to \in {"enqueue", "escalate"} => r \in stored,
           ~crossed' /\ r \in Requests /\ to \in Inserting => \A s \in Requests : s \notin stored,
           submittedBy' = r => to \in {"insert", "dead"} \/ r \in stored \/ outcome'[r] = "error",
           \/ StillOut
           \/ /\ to = "answered"
              /\ \E result \in {"ok", "refused", "error"}, row \in Submitters \cup {NoRequest} :
                    /\ outcome' = [outcome EXCEPT ![r] = result]
                    /\ found' = [found EXCEPT ![r] = row]
                    /\ result = "ok" => row \in stored /\ (Body(row) = Body(r) \/ Client(row) = Client(r))
    PROVE  SubmissionInv'
<1> USE DEF SubmissionInv
<1>1. \A s \in Submitters : place'[s] = IF s = r THEN to ELSE place[s]
  BY DEF Goes, SubmissionTypes
<1>2. crossed' = (crossed \/ \E s, t \in Requests : s # t /\ place'[s] \in Inserting /\ place'[t] \in Inserting)
  BY DEF Goes
<1>3. \A s \in Submitters : s # r => outcome'[s] = outcome[s] /\ found'[s] = found[s]
  BY DEF SubmissionTypes, StillOut
<1>4. \A s \in Submitters : Body(s)' = Body(s) /\ Client(s)' = Client(s)
  BY DEF Body, Client
<1>5. SubmissionTypes'
  BY DEF SubmissionTypes, Goes, StillOut, Working, Inserting
<1>6. Behind'
  BY <1>1, <1>3, SubmissionConstants DEF Behind, SubmissionTypes, StillOut
<1>7. OneKeyed'
  BY <1>1, <1>2, SubmissionConstants DEF OneKeyed
<1>8. OneSubmission'
  <2>1. \A s, t \in stored' : s # t =>
            /\ Client(s)' = NoClient \/ Client(t)' # Client(s)'
            /\ (s \in Requests /\ t \in Requests) => crossed'
    BY <1>2, <1>4 DEF OneSubmission, SubmissionTypes
  <2>2. \A s \in Submitters : outcome'[s] = "ok" =>
            /\ found'[s] \in stored
            /\ Body(found'[s]) = Body(s) \/ Client(found'[s]) = Client(s)
    <3>1. ASSUME NEW s \in Submitters, s # r \/ StillOut, outcome'[s] = "ok"
          PROVE  found'[s] \in stored /\ (Body(found'[s]) = Body(s) \/ Client(found'[s]) = Client(s))
      <4>1. outcome'[s] = outcome[s] /\ found'[s] = found[s]
        BY <1>3, <3>1 DEF StillOut
      <4> QED
        BY <3>1, <4>1 DEF OneSubmission
    <3>2. ASSUME ~StillOut, outcome'[r] = "ok"
          PROVE  found'[r] \in stored /\ (Body(found'[r]) = Body(r) \/ Client(found'[r]) = Client(r))
      BY <3>2 DEF SubmissionTypes
    <3> QED
      BY <3>1, <3>2
  <2>3. submittedBy' # NoRequest =>
            \/ submittedBy' \in stored'
            \/ place'[submittedBy'] \in {"insert", "dead"}
            \/ outcome'[submittedBy'] = "error"
    BY <1>1, <1>3 DEF OneSubmission, SubmissionTypes
  <2>4. \A s \in Submitters :
            Body(found[s])' = Body(found'[s]) /\ Client(found[s])' = Client(found'[s])
    BY DEF Body, Client
  <2>5. \A s \in Submitters : outcome'[s] = "ok" =>
            found'[s] \in stored' /\ (Body(found[s])' = Body(s)' \/ Client(found[s])' = Client(s)')
    BY <1>4, <2>2, <2>4
  <2> QED
    BY <2>1, <2>3, <2>5 DEF OneSubmission
<1> QED
  BY <1>5, <1>6, <1>7, <1>8

LEMMA SubmissionStep ==
    ASSUME SubmissionInv, [SubmissionsNext]_allVars
    PROVE  SubmissionInv'
<1> USE DEF SubmissionInv
<1>0. TypeOK' /\ Agreement' /\ body' = body /\ form' = form /\ admitted \subseteq admitted'
  BY SubmissionFrame
<1>a. \A r \in Submitters : Body(r)' = Body(r) /\ Client(r)' = Client(r)
  BY <1>0 DEF Body, Client
<1>1. CASE UNCHANGED submissionVars \/ ConfirmMedia
  <2>1. UNCHANGED <<form, place, outcome, found, submittedBy, stored, crossed>>
    BY <1>1 DEF submissionVars, ConfirmMedia
  <2>2. SubmissionTypes' /\ Behind' /\ OneKeyed'
    BY <1>0, <2>1 DEF SubmissionTypes, Behind, OneKeyed
  <2>3. OneSubmission'
    BY <1>0, <2>1 DEF OneSubmission, Body, Client
  <2> QED
    BY <1>0, <2>2, <2>3
<1>2. ASSUME NEW r \in Submitters, LoadInspection(r) PROVE SubmissionInv'
  <2>1. place[r] = "out" /\ stored' = stored /\ submittedBy' = submittedBy /\ (r \in Requests => r \in admitted)
    BY <1>2 DEF LoadInspection, Agreement, InHandler
  <2>2. submittedBy # r \/ r \in stored
    BY <2>1, SubmissionConstants DEF OneSubmission, Behind
  <2>3. CASE Goes(r, "look") /\ StillOut
    BY <1>0, <2>1, <2>2, <2>3, SubmissionGoes DEF Working, Inserting
  <2>4. CASE Answers(r, "refused", NoRequest)
    BY <1>0, <2>1, <2>2, <2>4, SubmissionGoes DEF Answers, Inserting, Working
  <2> QED
    BY <1>2, <2>3, <2>4 DEF LoadInspection
<1>3. ASSUME NEW r \in Submitters, FindSubmission(r) PROVE SubmissionInv'
  <2>1. /\ place[r] = "look" /\ stored' = stored /\ submittedBy' = submittedBy
        /\ r \in Requests => r \in admitted
    BY <1>3 DEF FindSubmission, Behind, Working
  <2>2. submittedBy # r \/ r \in stored
    BY <2>1, SubmissionConstants DEF OneSubmission, Behind
  <2>3. CASE Earlier(r) = {} /\ Goes(r, "update") /\ StillOut
    <3>1. r \in Requests => \A s \in Requests : s \notin stored
      <4> SUFFICES ASSUME r \in Requests, NEW s \in Requests, s \in stored PROVE FALSE
        OBVIOUS
      <4>1. Client(s) = Client(r)
        BY <2>1, SameClient DEF Behind
      <4> QED
        BY <2>3, <4>1 DEF Earlier
    <3> QED
      BY <1>0, <2>1, <2>2, <2>3, <3>1, SubmissionGoes DEF Working, Inserting
  <2>4. ASSUME NEW s \in Earlier(r), Answers(r, "ok", s) PROVE SubmissionInv'
    <3>1. s \in stored /\ s \in Submitters
      BY DEF Earlier, SubmissionTypes
    <3>2. Body(s) = Body(r) \/ Client(s) = Client(r)
      <4>1. CASE Client(r) # NoClient
        BY <4>1 DEF Earlier
      <4>2. CASE Client(r) = NoClient
        <5>1. r \in Requests /\ s \in Requests
          BY <4>2 DEF Earlier
        <5> QED
          BY <2>1, <3>1, <5>1, SameClient DEF Behind
      <4> QED
        BY <4>1, <4>2
    <3> QED
      BY <1>0, <2>1, <2>2, <2>4, <3>1, <3>2, SubmissionGoes DEF Answers, Inserting, Working
  <2> QED
    BY <1>3, <2>3, <2>4 DEF FindSubmission
<1>4. ASSUME NEW r \in Submitters, UpdateInspection(r) PROVE SubmissionInv'
  <2>1. /\ place[r] = "update" /\ stored' = stored /\ submittedBy' = r /\ Goes(r, "insert") /\ StillOut
        /\ r \in Requests => r \in admitted
    BY <1>4 DEF UpdateInspection, Behind, Working, Inserting
  <2>2. ~crossed' /\ r \in Requests => \A s \in Requests : s \notin stored
    BY <2>1 DEF OneKeyed, Inserting, Goes
  <2> QED
    BY <1>0, <2>1, <2>2, SubmissionGoes DEF Working, Inserting
<1>5. ASSUME NEW r \in Submitters, CreateSubmission(r) PROVE SubmissionInv'
  <2>1. /\ place[r] = "insert" /\ submittedBy' = submittedBy
        /\ r \in Requests => r \in admitted
    BY <1>5 DEF CreateSubmission, Behind, Working, Inserting
  <2>2. CASE Answers(r, "error", NoRequest) /\ stored' = stored
    <3>1. outcome'[r] = "error"
      BY <2>2 DEF Answers, SubmissionTypes
    <3> QED
      BY <1>0, <2>1, <2>2, <3>1, SubmissionGoes DEF Answers, Inserting, Working
  <2>3. CASE /\ ~(Client(r) # NoClient /\ \E s \in stored : Client(s) = Client(r))
             /\ Goes(r, "enqueue") /\ stored' = stored \cup {r} /\ StillOut
    <3>1. \A s \in Submitters : place'[s] = IF s = r THEN "enqueue" ELSE place[s]
      BY <2>3 DEF Goes, SubmissionTypes
    <3>2. crossed => crossed'
      BY <2>3 DEF Goes
    <3>3. SubmissionTypes'
      BY <1>0, <2>1, <2>3 DEF SubmissionTypes, Goes, StillOut, Working
    <3>4. Behind'
      <4>1. outcome[r] = "none"
        BY <2>1 DEF Behind
      <4>2. \A s \in Requests : place'[s] \in Working => s \in admitted'
        BY <1>0, <2>1, <3>1, SubmissionConstants DEF Behind
      <4> QED
        BY <1>0, <2>1, <2>3, <3>1, <4>1, <4>2 DEF Behind, StillOut
    <3>5. OneKeyed'
      <4>1. "enqueue" \notin Inserting /\ place[r] \in Inserting
        BY <2>1 DEF Inserting
      <4> QED
        BY <2>3, <3>1, <3>2, <4>1, SubmissionConstants DEF OneKeyed
    <3>6. OneSubmission'
      <4>1. ASSUME NEW s \in stored', NEW t \in stored', s # t
            PROVE  /\ Client(s)' = NoClient \/ Client(t)' # Client(s)'
                   /\ (s \in Requests /\ t \in Requests) => crossed'
        <5>1. s \in Submitters /\ t \in Submitters
          BY <3>3 DEF SubmissionTypes
        <5>2. (s \in Requests /\ t \in Requests) => crossed'
          BY <3>5, <4>1 DEF OneKeyed
        <5>3. Client(s) = NoClient \/ Client(t) # Client(s)
          BY <2>3, <4>1 DEF OneSubmission
        <5> QED
          BY <1>a, <5>1, <5>2, <5>3
      <4>2. \A s \in Submitters :
            Body(found[s])' = Body(found[s]) /\ Client(found[s])' = Client(found[s])
        BY <1>0, <2>3 DEF Body, Client, StillOut
      <4>3. \A s \in Submitters : outcome'[s] = "ok" =>
            found'[s] \in stored' /\ (Body(found[s])' = Body(s)' \/ Client(found[s])' = Client(s)')
        BY <1>a, <2>3, <4>2 DEF OneSubmission, StillOut
      <4>4. submittedBy' # NoRequest =>
            \/ submittedBy' \in stored'
            \/ place'[submittedBy'] \in {"insert", "dead"}
            \/ outcome'[submittedBy'] = "error"
        BY <2>1, <2>3, <3>1 DEF OneSubmission, SubmissionTypes, StillOut
      <4> QED
        BY <4>1, <4>3, <4>4 DEF OneSubmission
    <3> QED
      BY <1>0, <3>3, <3>4, <3>5, <3>6
  <2> QED
    BY <1>5, <2>2, <2>3 DEF CreateSubmission
<1>6. ASSUME NEW r \in Submitters, EnqueueSubmission(r) \/ Escalate(r) PROVE SubmissionInv'
  <2>1. /\ place[r] \in {"enqueue", "escalate"} /\ submittedBy' = submittedBy /\ stored' = stored
        /\ r \in Requests => r \in admitted
    BY <1>6 DEF EnqueueSubmission, Escalate, Behind, Working
  <2>2. r \in stored
    BY <2>1 DEF Behind
  <2>3. CASE EnqueueSubmission(r)
    BY <1>0, <2>1, <2>2, <2>3, SubmissionGoes DEF EnqueueSubmission, Inserting, Working
  <2>4. CASE Escalate(r)
    BY <1>0, <2>1, <2>2, <2>4, SubmissionGoes DEF Escalate, Answers, Inserting, Working
  <2> QED
    BY <1>6, <2>3, <2>4
<1>7. ASSUME NEW r \in Submitters, Throw(r) PROVE SubmissionInv'
  <2>1. place[r] \in Working /\ Answers(r, "error", NoRequest) /\ submittedBy' = submittedBy /\ stored' = stored
    BY <1>7 DEF Throw
  <2>2. outcome'[r] = "error"
    BY <2>1 DEF Answers, SubmissionTypes
  <2> QED
    BY <1>0, <2>1, <2>2, SubmissionGoes DEF Answers, Inserting, Working
<1>8. ASSUME NEW r \in Submitters, Die(r) PROVE SubmissionInv'
  <2>1. /\ place[r] \in Working /\ Goes(r, "dead") /\ StillOut /\ submittedBy' = submittedBy /\ stored' = stored
    BY <1>8 DEF Die
  <2> QED
    BY <1>0, <2>1, SubmissionGoes DEF Inserting, Working
<1>9. ASSUME NEW r \in Requests, Leave(r) PROVE SubmissionInv'
  <2>1. /\ UNCHANGED <<form, outcome, found, submittedBy, stored, crossed>>
        /\ \/ UNCHANGED place
           \/ place[r] \in Working \cup {"out"} /\ place' = [place EXCEPT ![r] = "dead"]
    BY <1>9 DEF Leave
  <2>2. CASE UNCHANGED place
    <3>1. SubmissionTypes' /\ Behind' /\ OneKeyed'
      BY <1>0, <2>1, <2>2 DEF SubmissionTypes, Behind, OneKeyed
    <3>2. OneSubmission'
      BY <1>0, <2>1, <2>2 DEF OneSubmission, Body, Client
    <3> QED
      BY <1>0, <3>1, <3>2
  <2>3. CASE place[r] \in Working \cup {"out"} /\ place' = [place EXCEPT ![r] = "dead"]
    <3>1. Goes(r, "dead")
      BY <2>1, <2>3, SubmissionConstants DEF Goes, OneKeyed, SubmissionTypes, Inserting
    <3>2. r \in Submitters /\ place[r] # "answered"
      BY <2>3, SubmissionConstants DEF Working, Inserting
    <3> QED
      BY <1>0, <2>1, <3>1, <3>2, SubmissionGoes DEF StillOut, Inserting, Working
  <2> QED
    BY <2>1, <2>2, <2>3
<1> QED
  BY <1>1, <1>2, <1>3, <1>4, <1>5, <1>6, <1>7, <1>8, <1>9, SubmissionConstants
  DEF SubmissionsNext, allVars, Middleware, Respond, submitInspection

\* A submission is recorded once, however often and with whatever key it is sent, and an
\* answer names a row of what was asked.
THEOREM OneSubmissionRecorded == MCSpec => []OneSubmission
<1>1. MCInit => SubmissionInv
  BY SubmissionInit DEF MCInit
<1>2. [MCNext]_all => [SubmissionsNext]_allVars
  BY DEF MCNext, all
<1>3. SubmissionInv /\ [MCNext]_all => SubmissionInv'
  BY <1>2, SubmissionStep
<1>4. SubmissionInv => OneSubmission
  BY DEF SubmissionInv
<1> QED
  BY <1>1, <1>3, <1>4, PTL DEF MCSpec

-----------------------------------------------------------------------------
(* The areas of a tenant and the facilities in them (AreaHierarchy).       *)

AreaRows == [level: H!Levels \cup {"none"}, parent: H!Parents, active: BOOLEAN]
Sites == [area: H!Parents, zone: Areas \cup {Nowhere}, ward: Areas \cup {Nowhere}]
Plans ==
    [at: {"idle", "create", "patch", "count", "retire", "facility"}, of: Areas \cup Facilities \cup {Nowhere},
     seen: AreaRows \cup Sites, new: AreaRows \cup Sites, blamed: {{}}]

\* What a request holds is of the row it is about, and no administrator hangs anything
\* beneath an area that the scope they act in does not show as active.
AreaTypes ==
    /\ H!TypeOK
    /\ plan \in [Planners -> Plans]
    /\ \A r \in Planners :
        /\ plan[r].at \in {"create", "patch", "count", "retire"} =>
            plan[r].of \in Areas /\ plan[r].seen \in AreaRows /\ plan[r].new \in AreaRows
        /\ plan[r].at \in {"create", "patch"} => plan[r].new.level \in H!Levels
        /\ plan[r].at \in {"count", "retire"} =>
            /\ plan[r].new.level = plan[r].seen.level
            /\ plan[r].new.parent = plan[r].seen.parent
            /\ plan[r].new.active = FALSE
        /\ plan[r].at = "facility" =>
            plan[r].of \in Facilities /\ plan[r].seen \in Sites /\ plan[r].new \in Sites

\* A row is created once, and only rows that exist are patched or removed.
CreatedOnce ==
    /\ \A r \in Planners :
        /\ plan[r].at = "create" =>
            /\ ~H!Known(plan[r].of)
            /\ \A s \in Planners \ {r} : plan[s].at = "create" => plan[s].of # plan[r].of
        /\ plan[r].at \in {"patch", "count", "retire"} => H!Known(plan[r].of)
    /\ \A a \in gone : H!Known(a)

\* An area lies beneath one of a higher level, but where the level of either was changed.
Lower(level, p) == p \in Areas => H!Known(p) /\ (H!Rank(area[p].level) < H!Rank(level) \/ p \in relevelled)

LiesLower ==
    /\ \A a \in Areas : H!Known(a) => Lower(area[a].level, area[a].parent) \/
                           (a \in relevelled /\ (area[a].parent \in Areas => H!Known(area[a].parent)))
    /\ \A r \in Planners :
        /\ plan[r].at \in {"create", "patch"} => Lower(plan[r].new.level, plan[r].new.parent)
        /\ plan[r].at = "patch" => plan[r].seen.level = area[plan[r].of].level \/ plan[r].of \in relevelled

NestInv == AreaTypes /\ CreatedOnce /\ LiesLower

\* Nothing is in it, by any column.
Empty(a) ==
    /\ \A f \in Facilities : a \notin H!Beneath(sited[f])
    /\ \A b \in Areas : area[b].active => a \notin H!Beneath(area[b])

\* What was removed is not active, and that or what is about to be removed is empty.
Emptied ==
    /\ \A a \in gone : ~area[a].active
    /\ \A a \in gone \ hung : Empty(a)
    /\ \A r \in Planners : plan[r].at = "retire" /\ plan[r].of \notin hung => Empty(plan[r].of)

AreaInv == NestInv /\ Emptied

LEMMA AreaConstants ==
    /\ City \notin Areas /\ Nowhere \notin Areas /\ City # Nowhere /\ MaxPlans \in Nat
BY RequestsAssumption DEF H!AreasAssumption

\* What a row hangs beneath, by the kind of row.
LEMMA BeneathRow ==
    /\ \A row \in AreaRows : H!Beneath(row) = {row.parent} \cap Areas
    /\ \A row \in Sites : H!Beneath(row) = {row.area, row.zone, row.ward} \cap Areas
BY DEF H!Beneath, AreaRows, Sites

\* An area is on its own walk, and so is its parent.
LEMMA OnTheWalk ==
    ASSUME NEW a \in Areas
    PROVE  /\ a \in H!Above(a)
           /\ area[a].parent \in Areas => area[a].parent \in H!Above(a)
           /\ \A b \in H!Above(a) : b \in Areas /\ (area[b].parent \in Areas => area[b].parent \in H!Above(a))
BY DEF H!Above

\* The zone and the ward of an area are on its walk.
LEMMA PlacedOnTheWalk ==
    ASSUME NEW p \in Areas \cup {City}, H!TypeOK
    PROVE  /\ H!PlaceAt(p) \in Sites
           /\ H!Beneath(H!PlaceAt(p)) = IF p = City THEN {} ELSE {p, H!AncestorOf(p, "zone"), H!AncestorOf(p, "ward")} \cap Areas
           /\ p # City => H!Beneath(H!PlaceAt(p)) \subseteq H!Above(p)
<1>1. CASE p = City
  <2>1. H!PlaceAt(p) = [area |-> City, zone |-> Nowhere, ward |-> Nowhere]
    BY <1>1 DEF H!PlaceAt, H!Place
  <2>2. H!PlaceAt(p) \in Sites
    BY <2>1 DEF Sites, H!Parents
  <2> QED
    BY <1>1, <2>1, <2>2, BeneathRow, AreaConstants
<1>2. CASE p # City
  <2>1. \A level : H!AncestorOf(p, level) \in (H!Above(p) \cap Areas) \cup {Nowhere}
    <3> TAKE level
    <3>1. CASE area[p].level = level
      BY <1>2, <3>1, OnTheWalk DEF H!AncestorOf
    <3>2. CASE area[p].level # level
      <4>1. CASE H!Uppermost(p, level) = {}
        BY <3>2, <4>1 DEF H!AncestorOf
      <4>2. CASE H!Uppermost(p, level) # {}
        <5>1. H!AncestorOf(p, level) \in H!Uppermost(p, level)
          BY <3>2, <4>2 DEF H!AncestorOf
        <5> QED
          BY <1>2, <5>1, OnTheWalk DEF H!Uppermost
      <4> QED
        BY <4>1, <4>2
    <3> QED
      BY <3>1, <3>2
  <2>2. H!PlaceAt(p) = [area |-> p, zone |-> H!AncestorOf(p, "zone"), ward |-> H!AncestorOf(p, "ward")]
    BY <1>2 DEF H!PlaceAt, H!Place
  <2>3. H!PlaceAt(p) \in Sites
    BY <1>2, <2>1, <2>2 DEF Sites, H!Parents
  <2>4. H!Beneath(H!PlaceAt(p)) = {p, H!AncestorOf(p, "zone"), H!AncestorOf(p, "ward")} \cap Areas
    BY <2>2, <2>3, BeneathRow
  <2> QED
    BY <1>2, <2>1, <2>3, <2>4, OnTheWalk, AreaConstants
<1> QED
  BY <1>1, <1>2

\* The walk ends where no level on it was changed: of the areas on it one is of the highest
\* level, and beneath none.
LEMMA NestImplies == NestInv => H!AreasNest
<1> SUFFICES ASSUME NestInv, NEW a \in Areas, H!Known(a), H!Above(a) \cap relevelled = {}
             PROVE  H!EndsAt(a, City) \/ H!EndsAt(a, Nowhere)
  BY DEF H!AreasNest
<1> DEFINE On == H!Above(a)
           Of(n) == {b \in On : H!Rank(area[b].level) = n}
<1>1. a \in On /\ \A b \in On : b \in Areas /\ (area[b].parent \in Areas => area[b].parent \in On)
  BY OnTheWalk
<1>2. SUFFICES ASSUME \A b \in On : area[b].parent \in Areas
               PROVE  FALSE
  BY <1>1, AreaConstants DEF H!EndsAt, NestInv, AreaTypes, H!TypeOK, H!Parents, AreaRows
<1>3. \A b \in On : H!Rank(area[b].level) \in 3 .. 6
  BY <1>1 DEF H!Rank
<1>4. \A b \in On : H!Known(b) =>
        /\ H!Known(area[b].parent) /\ area[b].parent \in On
        /\ H!Rank(area[area[b].parent].level) < H!Rank(area[b].level)
  BY <1>1, <1>2 DEF NestInv, LiesLower, Lower
<1> HIDE DEF On
<1>5. \A b \in On : H!Known(b) => H!Rank(area[b].level) # 3
  BY <1>3, <1>4
<1>6. \A b \in On : H!Known(b) => H!Rank(area[b].level) # 4
  BY <1>3, <1>4, <1>5
<1>7. \A b \in On : H!Known(b) => H!Rank(area[b].level) # 5
  BY <1>3, <1>4, <1>5, <1>6
<1>8. \A b \in On : H!Known(b) => H!Rank(area[b].level) # 6
  BY <1>3, <1>4, <1>5, <1>6, <1>7
<1> QED
  BY <1>1, <1>3, <1>5, <1>6, <1>7, <1>8

LEMMA AreaInit == H!Init => AreaInv
<1> SUFFICES ASSUME H!Init PROVE AreaInv
  OBVIOUS
<1>1. area \in [Areas -> AreaRows]
  <2>1. \A a \in Areas :
          area[a] \in {H!NoArea, H!Area("zone", City, TRUE)} \cup {H!Area("ward", p, TRUE) : p \in Areas \cup {City}}
    BY DEF H!Init
  <2>2. /\ H!NoArea \in AreaRows /\ H!Area("zone", City, TRUE) \in AreaRows
        /\ \A p \in Areas \cup {City} : H!Area("ward", p, TRUE) \in AreaRows
    BY DEF H!NoArea, H!Area, AreaRows, H!Levels, H!Parents
  <2>3. \A a \in Areas : area[a] \in AreaRows
    BY <2>1, <2>2
  <2> QED
    BY <2>3 DEF H!Init
<1>2. \A f \in Facilities : sited[f] \in Sites
  <2> TAKE f \in Facilities
  <2>1. CASE sited[f] = H!NoPlace
    BY <2>1 DEF H!NoPlace, H!Place, Sites, H!Parents
  <2>2. ASSUME NEW a \in Areas, sited[f] = H!PlaceAt(a) PROVE sited[f] \in Sites
    <3>1. \A level : H!AncestorOf(a, level) \in Areas \cup {Nowhere}
      BY OnTheWalk DEF H!AncestorOf, H!Uppermost, H!Above
    <3> QED
      BY <2>2, <3>1, AreaConstants DEF H!PlaceAt, H!Place, Sites, H!Parents
  <2> QED
    BY <2>1, <2>2 DEF H!Init
<1>3. H!Idle \in Plans
  BY DEF H!Idle, H!NoArea, H!Area, Plans, AreaRows, H!Parents
<1>4. plan \in [Planners -> Plans] /\ \A r \in Planners : plan[r].at = "idle"
  BY <1>3 DEF H!Init, H!Idle
<1>5. AreaTypes
  <2>1. sited \in [Facilities -> Sites]
    BY <1>2 DEF H!Init
  <2>2. H!TypeOK
    BY <1>1, <1>4, <2>1, AreaConstants DEF H!Init, H!TypeOK, AreaRows, Sites
  <2> QED
    BY <1>4, <2>2 DEF AreaTypes
<1>6. CreatedOnce /\ Emptied
  BY <1>4 DEF H!Init, CreatedOnce, Emptied
<1>7. LiesLower
  <2>1. \A a \in Areas : area[a].parent \in Areas => area[area[a].parent].level = "zone" /\ area[a].level \in {"none", "ward"}
    BY AreaConstants DEF H!Init, H!NoArea, H!Area
  <2> QED
    BY <1>4, <2>1 DEF LiesLower, Lower, H!Known, H!Rank
<1> QED
  BY <1>5, <1>6, <1>7 DEF AreaInv, NestInv

\* What an instance writes, of either kind of row.
LEMMA SavedArea ==
    ASSUME NEW row \in AreaRows, NEW read \in AreaRows, NEW values \in AreaRows
    PROVE  /\ H!Saved(row, read, values) \in AreaRows
           /\ H!Saved(row, read, values).level = IF values.level = read.level THEN row.level ELSE values.level
           /\ H!Saved(row, read, values).parent = IF values.parent = read.parent THEN row.parent ELSE values.parent
BY DEF H!Saved, AreaRows

LEMMA SavedPlace ==
    ASSUME NEW row \in Sites, NEW read \in Sites, NEW values \in Sites
    PROVE  H!Saved(row, read, values) \in Sites
BY DEF H!Saved, Sites

LEMMA IdlePlan ==
    /\ H!Idle \in Plans /\ H!Idle.at = "idle" /\ H!Idle.of = Nowhere
    /\ \A x \in Plans : x.blamed = {}
BY DEF H!Idle, H!NoArea, H!Area, Plans, AreaRows, H!Parents

\* A request begins with what it has read.
Asked(r, where, of, was, new) ==
    /\ where \in {"create", "patch", "count"} => of \in Areas /\ was \in AreaRows /\ new \in AreaRows
    /\ where = "facility" => of \in Facilities /\ was \in Sites /\ new \in Sites
    /\ where \in {"create", "patch"} => new.level \in H!Levels /\ Lower(new.level, new.parent)
    /\ where = "create" => ~H!Known(of) /\ \A s \in Planners : plan[s].of # of
    /\ where \in {"patch", "count"} => H!Known(of)
    /\ where = "patch" => was.level = area[of].level
    /\ where = "count" => new.level = was.level /\ new.parent = was.parent /\ new.active = FALSE

LEMMA AreaBegins ==
    ASSUME AreaInv, NEW r \in Planners, H!MayBegin(r), NEW where \in {"create", "patch", "count", "facility"},
           NEW super, NEW of, NEW was, NEW new,
           H!Begins(r, where, super, of, was, new), Asked(r, where, of, was, new),
           \A a \in H!Beneath(new) : super \/ area[a].active
    PROVE  AreaInv'
<1> DEFINE x == [at |-> where, of |-> of, seen |-> was, new |-> new, blamed |-> {}]
<1>1. plan' = [plan EXCEPT ![r] = x]
  <2>1. {a \in H!Beneath(new) : ~super /\ ~area[a].active} = {}
    OBVIOUS
  <2> QED
    BY <2>1 DEF H!Begins
<1>2. x \in Plans /\ x.at = where /\ x.of = of /\ x.seen = was /\ x.new = new
  BY DEF Asked, Plans
<1> HIDE DEF x
<1>3. /\ UNCHANGED <<area, sited, relevelled, gone, hung>>
      /\ plans' = plans + 1 /\ plans < MaxPlans
  BY DEF H!Begins, H!MayBegin
<1>4. AreaTypes'
  <2>1. plans' \in 0 .. MaxPlans
    BY <1>3, AreaConstants DEF AreaInv, NestInv, AreaTypes, H!TypeOK
  <2>2. plan' \in [Planners -> Plans] /\ \A s \in Planners : plan'[s] = IF s = r THEN x ELSE plan[s]
    BY <1>1, <1>2 DEF AreaInv, NestInv, AreaTypes
  <2>3. \A s \in Planners : plan'[s].at \in {"idle", "create", "patch", "count", "retire", "facility"}
    BY <2>2 DEF Plans
  <2>4. H!TypeOK'
    BY <1>3, <2>1, <2>3 DEF AreaInv, NestInv, AreaTypes, H!TypeOK
  <2> QED
    BY <1>2, <2>2, <2>4 DEF AreaInv, NestInv, AreaTypes, Asked
<1>5. \A s \in Planners : plan'[s] = IF s = r THEN x ELSE plan[s]
  BY <1>1 DEF AreaInv, NestInv, AreaTypes
<1>6. CreatedOnce'
  <2>1. \A a : H!Known(a)' = H!Known(a)
    BY <1>3 DEF H!Known
  <2> QED
    BY <1>2, <1>3, <1>5, <2>1 DEF AreaInv, NestInv, AreaTypes, CreatedOnce, Asked
<1>7. LiesLower'
  BY <1>2, <1>3, <1>5 DEF AreaInv, NestInv, LiesLower, Lower, Asked, H!Known
<1>8. Emptied'
  BY <1>2, <1>3, <1>5 DEF AreaInv, Emptied, Empty, H!Beneath
<1> QED
  BY <1>4, <1>6, <1>7, <1>8 DEF AreaInv, NestInv

\* What is in scope is active, and so is what lies about it.
LEMMA ScopeIsActive ==
    ASSUME NEW super \in BOOLEAN, NEW p \in Areas, H!InScope(super, p)
    PROVE  /\ super \/ area[p].active
           /\ \A b \in H!Above(p) : super \/ area[b].active
BY OnTheWalk, AreaConstants DEF H!InScope

LEMMA HangsLower ==
    ASSUME NEW super \in BOOLEAN, NEW of, NEW p \in H!Parents, NEW level \in H!Levels, H!MayHang(super, of, p, level)
    PROVE  /\ Lower(level, p)
           /\ p \in Areas => super \/ area[p].active
<1>1. CASE p \in Areas
  <2>1. H!Known(p) /\ H!Rank(area[p].level) < H!Rank(level)
    BY <1>1, AreaConstants DEF H!MayHang, H!ensureParentHierarchyIsValid, H!LevelOf
  <2>2. H!InScope(super, p)
    BY <1>1, AreaConstants DEF H!MayHang
  <2> QED
    BY <1>1, <2>1, <2>2, ScopeIsActive DEF Lower
<1> QED
  BY <1>1 DEF Lower

LEMMA AreaAsks ==
    ASSUME AreaInv, NEW r \in Planners, H!MayBegin(r), NEW super \in BOOLEAN
    PROVE  /\ \A a \in Areas :
                H!AskCreateGeography(r, a, super) \/ H!AskPatchGeography(r, a, super)
                    \/ H!AskRemoveGeography(r, a, super) => AreaInv'
           /\ \A f \in Facilities : H!AskCreateFacility(r, f, super) \/ H!AskPatchFacility(r, f, super) => AreaInv'
<1>0. /\ area \in [Areas -> AreaRows] /\ sited \in [Facilities -> Sites]
      /\ H!NoArea \in AreaRows /\ H!NoPlace \in Sites /\ H!TypeOK
  BY DEF AreaInv, NestInv, AreaTypes, H!TypeOK, AreaRows, Sites, H!NoArea, H!Area, H!NoPlace, H!Place, H!Parents
<1>1. ASSUME NEW a \in Areas, H!AskCreateGeography(r, a, super) PROVE AreaInv'
  <2>1. PICK level \in H!Levels, p \in H!Parents :
          /\ H!MayHang(super, a, p, level)
          /\ H!Begins(r, "create", super, a, H!NoArea, H!Area(level, p, TRUE))
    BY <1>1 DEF H!AskCreateGeography
  <2> DEFINE new == H!Area(level, p, TRUE)
  <2>2. new \in AreaRows /\ new.level = level /\ new.parent = p
    BY DEF H!Area, AreaRows
  <2>3. ~H!Known(a) /\ \A s \in Planners : plan[s].of # a
    BY <1>1 DEF H!AskCreateGeography
  <2> HIDE DEF new
  <2>4. Lower(level, p) /\ (p \in Areas => super \/ area[p].active)
    BY <2>1, HangsLower
  <2>5. \A b \in H!Beneath(new) : super \/ area[b].active
    BY <2>2, <2>4, BeneathRow
  <2>6. Asked(r, "create", a, H!NoArea, new)
    BY <1>0, <2>2, <2>3, <2>4 DEF Asked
  <2>7. H!Begins(r, "create", super, a, H!NoArea, new)
    BY <2>1 DEF new
  <2> QED
    BY <2>5, <2>6, <2>7, AreaBegins
<1>2. ASSUME NEW a \in Areas, H!AskPatchGeography(r, a, super) PROVE AreaInv'
  <2>1. PICK new \in {H!Area(level, p, area[a].active) : level \in H!Levels, p \in H!Parents}
                     \cup {[area[a] EXCEPT !.active = v] : v \in BOOLEAN} :
          /\ H!MayHang(super, a, new.parent, new.level)
          /\ H!Begins(r, "patch", super, a, area[a], new)
    BY <1>2 DEF H!AskPatchGeography
  <2>2. H!Known(a)
    BY <1>2 DEF H!AskPatchGeography
  <2>3. new \in AreaRows /\ new.level \in H!Levels
    <3>1. area[a] \in AreaRows /\ area[a].active \in BOOLEAN /\ area[a].level \in H!Levels
      BY <1>0, <2>2 DEF AreaRows, H!Known
    <3>2. ASSUME NEW v \in BOOLEAN, new = [area[a] EXCEPT !.active = v]
          PROVE  new \in AreaRows /\ new.level \in H!Levels
      BY <3>1, <3>2 DEF AreaRows
    <3>3. ASSUME NEW level \in H!Levels, NEW p \in H!Parents, new = H!Area(level, p, area[a].active)
          PROVE  new \in AreaRows /\ new.level \in H!Levels
      BY <3>1, <3>3 DEF AreaRows, H!Area
    <3> QED
      BY <2>1, <3>2, <3>3
  <2>4. new.parent \in H!Parents
    BY <2>3 DEF AreaRows
  <2>5. Lower(new.level, new.parent) /\ (new.parent \in Areas => super \/ area[new.parent].active)
    BY <2>1, <2>3, <2>4, HangsLower
  <2>6. \A b \in H!Beneath(new) : super \/ area[b].active
    BY <2>3, <2>5, BeneathRow
  <2>7. Asked(r, "patch", a, area[a], new)
    BY <1>0, <2>2, <2>3, <2>5 DEF Asked
  <2> QED
    BY <2>1, <2>6, <2>7, AreaBegins
<1>3. ASSUME NEW a \in Areas, H!AskRemoveGeography(r, a, super) PROVE AreaInv'
  <2> DEFINE new == [area[a] EXCEPT !.active = FALSE]
  <2>1. new \in AreaRows /\ new.level = area[a].level /\ new.parent = area[a].parent /\ new.active = FALSE
    BY <1>0 DEF AreaRows
  <2>2. H!Begins(r, "count", super, a, area[a], new)
    BY <1>3 DEF H!AskRemoveGeography
  <2> HIDE DEF new
  <2>3. H!Known(a) /\ H!InScope(super, a)
    BY <1>3 DEF H!AskRemoveGeography
  <2>4. area[a].parent \in Areas => super \/ area[area[a].parent].active
    BY <2>3, ScopeIsActive, OnTheWalk
  <2>5. \A b \in H!Beneath(new) : super \/ area[b].active
    BY <2>1, <2>4, BeneathRow
  <2>6. Asked(r, "count", a, area[a], new)
    BY <1>0, <2>1, <2>3 DEF Asked
  <2> QED
    BY <2>2, <2>5, <2>6, AreaBegins
<1>4. ASSUME NEW f \in Facilities, NEW asked \in BOOLEAN, NEW was \in Sites, NEW p \in Areas \cup {City},
             H!Begins(r, "facility", asked, f, was, H!PlaceAt(p)),
             ~asked /\ p # City => H!InScope(FALSE, p)
      PROVE  AreaInv'
  <2>1. H!PlaceAt(p) \in Sites
    BY <1>0, PlacedOnTheWalk
  <2>2. \A b \in H!Beneath(H!PlaceAt(p)) : asked \/ area[b].active
    BY <1>0, <1>4, PlacedOnTheWalk, ScopeIsActive
  <2>3. Asked(r, "facility", f, was, H!PlaceAt(p))
    BY <2>1 DEF Asked
  <2> QED
    BY <1>4, <2>2, <2>3, AreaBegins
<1>5. ASSUME NEW f \in Facilities, H!AskCreateFacility(r, f, super) PROVE AreaInv'
  <2>1. PICK p \in Areas \cup {City} :
          H!Offered(super, p) /\ H!Begins(r, "facility", super, f, H!NoPlace, H!PlaceAt(p))
    BY <1>5 DEF H!AskCreateFacility
  <2> QED
    BY <1>0, <1>4, <2>1 DEF H!Offered
<1>6. ASSUME NEW f \in Facilities, H!AskPatchFacility(r, f, super) PROVE AreaInv'
  <2>1. PICK p \in Areas \cup {City} :
          /\ p = sited[f].area \/ H!Offered(super, p)
          /\ H!Begins(r, "facility", super \/ (p = sited[f].area /\ ~H!InScope(FALSE, p)), f, sited[f], H!PlaceAt(p))
    BY <1>6 DEF H!AskPatchFacility
  <2> DEFINE asked == super \/ (p = sited[f].area /\ ~H!InScope(FALSE, p))
  <2>2. asked \in BOOLEAN
    OBVIOUS
  <2>3. ~asked => H!InScope(FALSE, p)
    BY <2>1 DEF H!Offered
  <2>4. sited[f] \in Sites
    BY <1>0
  <2> HIDE DEF asked
  <2>5. H!Begins(r, "facility", asked, f, sited[f], H!PlaceAt(p))
    BY <2>1 DEF asked
  <2> QED
    BY <1>4, <2>2, <2>3, <2>4, <2>5
<1> QED
  BY <1>1, <1>2, <1>3, <1>5, <1>6

\* An area is written and the request for it over.
Writes(r, row) ==
    /\ area' = [area EXCEPT ![plan[r].of] = row]
    /\ plan' = [plan EXCEPT ![r] = H!Idle]
    /\ plans' = plans /\ sited' = sited

LEMMA AreaWrites ==
    ASSUME NestInv, NEW r \in Planners, plan[r].of \in Areas, NEW row \in AreaRows, Writes(r, row),
           plan[r].at = "create" \/ H!Known(plan[r].of),
           row.level \in H!Levels,
           relevelled' \in SUBSET Areas, relevelled \subseteq relevelled',
           H!Known(plan[r].of) /\ row.level # area[plan[r].of].level => plan[r].of \in relevelled',
           \/ Lower(row.level, row.parent)
           \/ plan[r].of \in relevelled' /\ (row.parent \in Areas => H!Known(row.parent)),
           gone' \subseteq gone \cup {plan[r].of},
           hung' \in SUBSET Areas
    PROVE  NestInv'
<1> DEFINE a == plan[r].of
<1>1. /\ \A s \in Planners : plan'[s] = IF s = r THEN H!Idle ELSE plan[s]
      /\ plan' \in [Planners -> Plans]
  BY IdlePlan DEF Writes, NestInv, AreaTypes
<1>2. /\ \A b \in Areas : area'[b] = IF b = a THEN row ELSE area[b]
      /\ area' \in [Areas -> AreaRows]
  BY DEF Writes, NestInv, AreaTypes, H!TypeOK, AreaRows
<1>3. \A s \in Planners : plan'[s].at # "idle" => s # r /\ plan'[s] = plan[s]
  BY <1>1, IdlePlan
<1>4. AreaTypes'
  <2>1. gone' \subseteq Areas /\ \A s \in Planners : plan'[s].at \in {"idle", "create", "patch", "count", "retire", "facility"}
    BY <1>1 DEF NestInv, AreaTypes, H!TypeOK, Plans
  <2>2. H!TypeOK'
    BY <1>2, <2>1 DEF Writes, NestInv, AreaTypes, H!TypeOK, AreaRows
  <2> QED
    BY <1>1, <1>3, <2>2 DEF NestInv, AreaTypes
<1>5. \A b \in Areas : H!Known(b)' <=> H!Known(b) \/ b = a
  BY <1>2 DEF H!Known, H!Levels
<1>6. CreatedOnce'
  <2>1. ASSUME NEW s \in Planners, plan'[s].at = "create"
        PROVE  ~H!Known(plan[s].of)' /\ \A q \in Planners \ {s} : plan'[q].at = "create" => plan'[q].of # plan'[s].of
    <3>1. s # r /\ plan'[s] = plan[s] /\ plan[s].of \in Areas
      BY <1>3, <2>1 DEF NestInv, AreaTypes
    <3>2. ~H!Known(plan[s].of) /\ plan[s].of # a
      BY <2>1, <3>1 DEF NestInv, CreatedOnce
    <3>3. area'[plan'[s].of] = area[plan[s].of]
      BY <1>2, <3>1, <3>2
    <3> QED
      BY <1>3, <2>1, <3>1, <3>2, <3>3 DEF NestInv, CreatedOnce, H!Known
  <2>2. ASSUME NEW s \in Planners, plan'[s].at \in {"patch", "count", "retire"}
        PROVE  H!Known(plan[s].of)'
    <3>1. s # r /\ plan'[s] = plan[s] /\ plan[s].of \in Areas /\ H!Known(plan[s].of)
      BY <1>3, <2>2 DEF NestInv, AreaTypes, CreatedOnce
    <3>2. area'[plan'[s].of].level # "none"
      BY <1>2, <3>1 DEF H!Known, H!Levels
    <3> QED
      BY <3>2 DEF H!Known
  <2>3. \A b \in gone' : H!Known(b)'
    BY <1>5 DEF NestInv, AreaTypes, H!TypeOK, CreatedOnce
  <2> QED
    BY <2>1, <2>2, <2>3 DEF CreatedOnce
<1>7. \A level, p : Lower(level, p) => Lower(level, p)'
  <2> SUFFICES ASSUME NEW level, NEW p \in Areas, Lower(level, p)
               PROVE  H!Known(p)' /\ (H!Rank(area'[p].level) < H!Rank(level) \/ p \in relevelled')
    BY DEF Lower
  <2>1. H!Known(p) /\ H!Known(p)' /\ (H!Rank(area[p].level) < H!Rank(level) \/ p \in relevelled)
    BY <1>5 DEF Lower
  <2>2. area'[p].level = area[p].level \/ p \in relevelled'
    BY <1>2, <2>1
  <2> QED
    BY <2>1, <2>2
<1>8. LiesLower'
  <2>1. ASSUME NEW b \in Areas, H!Known(b)'
        PROVE  Lower(area[b].level, area[b].parent)'
                \/ (b \in relevelled' /\ (area'[b].parent \in Areas => H!Known(area[b].parent)'))
    <3>1. CASE b = a
      BY <1>2, <1>5, <1>7, <3>1 DEF Lower
    <3>2. CASE b # a
      <4>1. H!Known(b) /\ area'[b] = area[b]
        BY <1>2, <1>5, <2>1, <3>2
      <4>2. area[b].parent \in Areas /\ H!Known(area[b].parent) => H!Known(area[b].parent)'
        BY <1>5, <4>1 DEF H!Known
      <4> QED
        BY <1>7, <4>1, <4>2 DEF NestInv, LiesLower, Lower
    <3> QED
      BY <3>1, <3>2
  <2>2. ASSUME NEW s \in Planners, plan'[s].at \in {"create", "patch"}
        PROVE  /\ Lower(plan[s].new.level, plan[s].new.parent)'
               /\ plan'[s].at = "patch" =>
                    plan'[s].seen.level = area'[plan'[s].of].level \/ plan'[s].of \in relevelled'
    <3>1. s # r /\ plan'[s] = plan[s]
      BY <1>3, <2>2
    <3>2. Lower(plan[s].new.level, plan[s].new.parent)
      BY <2>2, <3>1 DEF NestInv, LiesLower
    <3>3. Lower(plan[s].new.level, plan[s].new.parent)'
      BY <1>7, <3>1, <3>2 DEF Lower, H!Known
    <3>4. ASSUME plan[s].at = "patch"
          PROVE  plan[s].seen.level = area'[plan[s].of].level \/ plan[s].of \in relevelled'
      <4>1. plan[s].of \in Areas /\ H!Known(plan[s].of)
        BY <3>4 DEF NestInv, AreaTypes, CreatedOnce
      <4>2. plan[s].seen.level = area[plan[s].of].level \/ plan[s].of \in relevelled
        BY <3>4 DEF NestInv, LiesLower
      <4> QED
        BY <1>2, <4>1, <4>2
    <3> QED
      BY <3>1, <3>3, <3>4
  <2> QED
    BY <2>1, <2>2 DEF LiesLower
<1> QED
  BY <1>4, <1>6, <1>8 DEF NestInv

\* What is written leaves empty what was empty, unless it is hung beneath it.
LEMMA StaysEmpty ==
    ASSUME NestInv, NEW r \in Planners, plan[r].of \in Areas, NEW row \in AreaRows, Writes(r, row),
           NEW b, Empty(b), row.active => b \notin H!Beneath(row)
    PROVE  Empty(b)'
<1>1. \A c \in Areas : area'[c] = IF c = plan[r].of THEN row ELSE area[c]
  BY DEF Writes, NestInv, AreaTypes, H!TypeOK
<1>2. \A c \in Areas : area'[c].active => b \notin H!Beneath(area'[c])
  BY <1>1 DEF Empty
<1>3. \A f \in Facilities : b \notin H!Beneath(sited'[f])
  BY DEF Empty, Writes
<1> QED
  BY <1>2, <1>3 DEF Empty, H!Beneath

LEMMA EmptiedWrites ==
    ASSUME AreaInv, NEW r \in Planners, plan[r].of \in Areas, NEW row \in AreaRows, Writes(r, row),
           row.active => \/ H!Hangs(r, row)
                         \/ hung' = hung /\ area[plan[r].of].active
                               /\ H!Beneath(row) = H!Beneath(area[plan[r].of]),
           hung \subseteq hung',
           \/ gone' = IF row.active THEN gone \ {plan[r].of} ELSE gone
           \/ plan[r].at = "create" /\ gone' = gone
           \/ plan[r].at = "retire" /\ gone' = IF row.active THEN gone ELSE gone \cup {plan[r].of},
           row.active /\ plan[r].at = "retire" => area[plan[r].of].active
    PROVE  Emptied'
<1> DEFINE a == plan[r].of
<1>1. \A s \in Planners : plan'[s].at # "idle" => s # r /\ plan'[s] = plan[s]
  BY IdlePlan DEF Writes, AreaInv, NestInv, AreaTypes
<1>2. \A b \in Areas : area'[b] = IF b = a THEN row ELSE area[b]
  BY DEF Writes, AreaInv, NestInv, AreaTypes, H!TypeOK
<1>3. gone \subseteq Areas /\ plan[r].blamed = {}
  BY IdlePlan DEF AreaInv, NestInv, AreaTypes, H!TypeOK
<1>4. ASSUME NEW b \in gone' PROVE ~area'[b].active
  <2>1. CASE b = a
    <3>1. CASE plan[r].at = "create"
      BY <2>1, <3>1, <1>4, <1>3 DEF AreaInv, NestInv, CreatedOnce
    <3> QED
      BY <2>1, <3>1, <1>2, <1>4 DEF AreaInv, Emptied
  <2>2. CASE b # a
    BY <2>2, <1>2, <1>3, <1>4 DEF AreaInv, Emptied
  <2> QED
    BY <2>1, <2>2
<1>5. ASSUME NEW b \in Areas, b \notin hung', Empty(b),
             ~area[b].active \/ \E s \in Planners : plan[s].at = "retire" /\ plan[s].of = b
      PROVE  Empty(b)'
  <2>1. ASSUME row.active PROVE b \notin H!Beneath(row)
    <3>1. CASE H!Hangs(r, row)
      BY <1>3, <1>5, <3>1 DEF H!Hangs
    <3>2. CASE area[a].active /\ H!Beneath(row) = H!Beneath(area[a])
      BY <1>5, <3>2 DEF Empty
    <3> QED
      BY <2>1, <3>1, <3>2
  <2> QED
    BY <1>5, <2>1, StaysEmpty DEF AreaInv
<1>6. ASSUME NEW b \in gone' \ hung' PROVE Empty(b)'
  <2>1. CASE b \in gone
    BY <1>3, <1>5, <1>6, <2>1 DEF AreaInv, Emptied
  <2>2. CASE b \notin gone
    <3>1. b = a /\ plan[r].at = "retire"
      BY <1>6, <2>2
    <3> QED
      BY <1>5, <1>6, <3>1 DEF AreaInv, Emptied
  <2> QED
    BY <2>1, <2>2
<1>7. ASSUME NEW s \in Planners, plan'[s].at = "retire", plan'[s].of \notin hung'
      PROVE  Empty(plan[s].of)'
  <2>1. plan'[s] = plan[s] /\ plan[s].of \in Areas /\ plan[s].at = "retire"
    BY <1>1, <1>7 DEF AreaInv, NestInv, AreaTypes
  <2>2. Empty(plan[s].of)
    BY <1>7, <2>1 DEF AreaInv, Emptied
  <2>3. PICK b \in Areas : b = plan[s].of
    BY <2>1
  <2>4. Empty(b)'
    BY <1>5, <1>7, <2>1, <2>2, <2>3
  <2>5. plan'[s].of = b
    BY <2>1, <2>3
  <2> QED
    BY <2>4, <2>5 DEF Empty
<1> QED
  BY <1>4, <1>6, <1>7 DEF Emptied

LEMMA AreaStep ==
    ASSUME AreaInv, [H!Next]_areaVars
    PROVE  AreaInv'
<1> USE DEF AreaInv
<1>0. /\ area \in [Areas -> AreaRows] /\ sited \in [Facilities -> Sites] /\ plan \in [Planners -> Plans]
      /\ relevelled \in SUBSET Areas /\ hung \in SUBSET Areas
  BY DEF NestInv, AreaTypes, H!TypeOK, AreaRows, Sites
<1>1. CASE UNCHANGED areaVars
  BY <1>1 DEF areaVars, NestInv, AreaTypes, H!TypeOK, CreatedOnce, LiesLower, Lower, Emptied, Empty, H!Known, H!Beneath
<1>2. ASSUME NEW r \in Planners, NEW row \in AreaRows \cup Sites, H!Hangs(r, row) PROVE hung' \in SUBSET Areas /\ hung \subseteq hung'
  BY <1>0, <1>2, BeneathRow DEF H!Hangs
<1>3. ASSUME NEW r \in Planners, H!createGeography(r) PROVE AreaInv'
  <2> DEFINE row == plan[r].new
  <2>1. /\ plan[r].at = "create" /\ Writes(r, row) /\ H!Hangs(r, row)
        /\ relevelled' = relevelled /\ gone' = gone
    BY <1>3 DEF H!createGeography, H!Ends, Writes
  <2>2. plan[r].of \in Areas /\ row \in AreaRows /\ row.level \in H!Levels /\ Lower(row.level, row.parent)
    BY <2>1 DEF NestInv, AreaTypes, LiesLower
  <2>3. hung' \in SUBSET Areas /\ hung \subseteq hung'
    BY <1>2, <2>1, <2>2
  <2>4. ~H!Known(plan[r].of)
    BY <2>1 DEF NestInv, CreatedOnce
  <2> HIDE DEF row
  <2>5. NestInv'
    BY <1>0, <2>1, <2>2, <2>3, <2>4, AreaWrites
  <2>6. Emptied'
    BY <2>1, <2>2, <2>3, EmptiedWrites
  <2> QED
    BY <2>5, <2>6
<1>4. ASSUME NEW r \in Planners, H!patchGeography(r) PROVE AreaInv'
  <2> DEFINE a == plan[r].of
             row == H!Saved(area[a], plan[r].seen, plan[r].new)
  <2>1. plan[r].at = "patch" /\ a \in Areas /\ plan[r].seen \in AreaRows /\ plan[r].new \in AreaRows /\ H!Known(a)
    BY <1>4 DEF H!patchGeography, NestInv, AreaTypes, CreatedOnce
  <2>2. /\ row \in AreaRows
        /\ row.level = IF plan[r].new.level = plan[r].seen.level THEN area[a].level ELSE plan[r].new.level
        /\ row.parent = IF plan[r].new.parent = plan[r].seen.parent THEN area[a].parent ELSE plan[r].new.parent
    BY <1>0, <2>1, SavedArea
  <2>3. area' = [area EXCEPT ![a] = row]
    BY <1>4 DEF H!patchGeography
  <2> HIDE DEF row
  <2>4. area'[a] = row
    BY <1>0, <2>1, <2>3
  <2>5. /\ IF row.active THEN H!Hangs(r, row) ELSE hung' = hung
        /\ gone' = IF row.active THEN gone \ {a} ELSE gone
        /\ relevelled' = IF row.level = area[a].level THEN relevelled ELSE relevelled \cup {a}
        /\ Writes(r, row)
    BY <1>4, <2>3, <2>4 DEF H!patchGeography, H!Ends, Writes
  <2>6. hung' \in SUBSET Areas /\ hung \subseteq hung'
    BY <1>0, <1>2, <2>2, <2>5
  <2>7. row.level \in H!Levels
    BY <1>0, <2>1, <2>2 DEF AreaRows, H!Known, NestInv, AreaTypes
  <2>8. \/ Lower(row.level, row.parent)
        \/ a \in relevelled' /\ (row.parent \in Areas => H!Known(row.parent))
    <3>1. Lower(plan[r].new.level, plan[r].new.parent) /\ (plan[r].seen.level = area[a].level \/ a \in relevelled)
      BY <2>1 DEF NestInv, LiesLower
    <3>2. Lower(area[a].level, area[a].parent) \/ (a \in relevelled /\ (area[a].parent \in Areas => H!Known(area[a].parent)))
      BY <2>1 DEF NestInv, LiesLower
    <3>3. row.parent \in Areas => H!Known(row.parent)
      BY <2>2, <3>1, <3>2 DEF Lower
    <3>4. CASE a \in relevelled'
      BY <3>3, <3>4
    <3>5. CASE a \notin relevelled'
      <4>1. row.level = area[a].level /\ a \notin relevelled
        BY <2>5, <3>5
      <4>2. row.level = plan[r].new.level
        BY <2>2, <3>1, <4>1
      <4> QED
        BY <2>2, <3>1, <3>2, <4>1, <4>2
    <3> QED
      BY <3>4, <3>5
  <2>9. NestInv'
    BY <1>0, <2>1, <2>2, <2>5, <2>6, <2>7, <2>8, AreaWrites
  <2>10. Emptied'
    BY <2>1, <2>2, <2>5, <2>6, EmptiedWrites
  <2> QED
    BY <2>9, <2>10
<1>5. ASSUME NEW r \in Planners, H!removeGeography(r) PROVE AreaInv'
  <2> DEFINE a == plan[r].of
             row == H!Saved(area[a], plan[r].seen, plan[r].new)
  <2>1. plan[r].at = "retire" /\ a \in Areas /\ plan[r].seen \in AreaRows /\ plan[r].new \in AreaRows /\ H!Known(a)
    BY <1>5 DEF H!removeGeography, NestInv, AreaTypes, CreatedOnce
  <2>2. /\ row \in AreaRows
        /\ row.level = area[a].level
        /\ row.parent = area[a].parent
        /\ row.active => area[a].active
    <3>1. /\ plan[r].new.level = plan[r].seen.level /\ plan[r].new.parent = plan[r].seen.parent
          /\ plan[r].new.active = FALSE
      BY <2>1 DEF NestInv, AreaTypes
    <3>2. row.active = IF plan[r].new.active = plan[r].seen.active THEN area[a].active ELSE plan[r].new.active
      BY <1>0, <2>1 DEF H!Saved, AreaRows
    <3> QED
      BY <1>0, <2>1, <3>1, <3>2, SavedArea
  <2>3. area' = [area EXCEPT ![a] = row]
    BY <1>5 DEF H!removeGeography
  <2> HIDE DEF row
  <2>4. area'[a] = row
    BY <1>0, <2>1, <2>3
  <2>5. /\ hung' = hung
        /\ gone' = IF row.active THEN gone ELSE gone \cup {a}
        /\ relevelled' = relevelled
        /\ Writes(r, row)
    BY <1>5, <2>3, <2>4 DEF H!removeGeography, H!Ends, Writes
  <2>6. row.level \in H!Levels
    BY <1>0, <2>1, <2>2 DEF AreaRows, H!Known
  <2>7. \/ Lower(row.level, row.parent)
        \/ a \in relevelled' /\ (row.parent \in Areas => H!Known(row.parent))
    BY <2>1, <2>2, <2>5 DEF NestInv, LiesLower
  <2>8. NestInv'
    BY <1>0, <2>1, <2>2, <2>5, <2>6, <2>7, AreaWrites
  <2>9. H!Beneath(row) = H!Beneath(area[a])
    BY <1>0, <2>1, <2>2, BeneathRow
  <2>10. Emptied'
    BY <2>1, <2>2, <2>5, <2>9, EmptiedWrites
  <2> QED
    BY <2>8, <2>10
<1>6. ASSUME NEW r \in Planners, H!Ends(r), UNCHANGED <<area, sited, relevelled, gone, hung>> PROVE AreaInv'
  <2>1. \A s \in Planners : plan'[s] = IF s = r THEN H!Idle ELSE plan[s]
    BY <1>0, <1>6 DEF H!Ends
  <2>2. plan' \in [Planners -> Plans] /\ plans' = plans
    BY <1>0, <1>6, IdlePlan DEF H!Ends
  <2>3. AreaTypes'
    BY <1>6, <2>1, <2>2, IdlePlan DEF NestInv, AreaTypes, H!TypeOK
  <2>4. CreatedOnce' /\ LiesLower'
    BY <1>6, <2>1, IdlePlan DEF NestInv, CreatedOnce, LiesLower, Lower, H!Known
  <2>5. Emptied'
    BY <1>6, <2>1, IdlePlan DEF Emptied, Empty, H!Beneath
  <2> QED
    BY <2>3, <2>4, <2>5 DEF NestInv
<1>7. ASSUME NEW r \in Planners, H!CountBeneath(r) PROVE AreaInv'
  <2>1. plan[r].at = "count" /\ UNCHANGED <<area, sited, relevelled, gone>>
    BY <1>7 DEF H!CountBeneath
  <2>2. CASE H!Ends(r) /\ UNCHANGED hung
    BY <1>6, <2>1, <2>2
  <2> DEFINE a == plan[r].of
             next == [plan[r] EXCEPT !.at = "retire"]
  <2>3. CASE /\ H!MappedTo(a) = {} /\ H!ChildrenOf(a) = {}
             /\ plan' = [plan EXCEPT ![r].at = "retire"] /\ hung' = hung \ {a} /\ plans' = plans
    <3>1. /\ next \in Plans /\ next.at = "retire" /\ next.of = a
          /\ next.seen = plan[r].seen /\ next.new = plan[r].new
      BY <1>0 DEF Plans
    <3>2. plan' = [plan EXCEPT ![r] = next]
      BY <2>3
    <3> HIDE DEF next
    <3>3. plan' \in [Planners -> Plans] /\ \A s \in Planners : plan'[s] = IF s = r THEN next ELSE plan[s]
      BY <1>0, <3>1, <3>2
    <3>4. AreaTypes'
      BY <2>1, <2>3, <3>1, <3>3 DEF NestInv, AreaTypes, H!TypeOK
    <3>5. CreatedOnce'
      BY <2>1, <3>1, <3>3 DEF NestInv, CreatedOnce, H!Known
    <3>6. LiesLower'
      BY <2>1, <3>1, <3>3 DEF NestInv, LiesLower, Lower, H!Known
    <3>7. Empty(a)
      BY <1>0, <2>3, BeneathRow DEF H!MappedTo, H!ChildrenOf, Empty
    <3>8. Emptied'
      <4>1. \A b : Empty(b)' = Empty(b)
        BY <2>1 DEF Empty, H!Beneath
      <4>2. \A b \in gone' \ hung' : Empty(b)'
        BY <2>1, <2>3, <3>7, <4>1 DEF Emptied
      <4>3. \A s \in Planners : plan'[s].at = "retire" /\ plan'[s].of \notin hung' => Empty(plan'[s].of)
        BY <2>3, <3>1, <3>3, <3>7 DEF Emptied
      <4> QED
        BY <2>1, <4>2, <4>3 DEF Emptied, Empty, H!Beneath
    <3> QED
      BY <3>4, <3>5, <3>6, <3>8 DEF NestInv
  <2> QED
    BY <1>7, <2>2, <2>3 DEF H!CountBeneath
<1>8. ASSUME NEW r \in Planners, H!saveFacility(r) PROVE AreaInv'
  <2> DEFINE f == plan[r].of
             row == H!Saved(sited[f], plan[r].seen, plan[r].new)
  <2>1. plan[r].at = "facility" /\ f \in Facilities /\ plan[r].seen \in Sites /\ plan[r].new \in Sites
    BY <1>8 DEF H!saveFacility, NestInv, AreaTypes
  <2>2. row \in Sites
    BY <1>0, <2>1, SavedPlace
  <2>3. sited' = [sited EXCEPT ![f] = row] /\ H!Ends(r) /\ UNCHANGED <<area, relevelled, gone>>
    BY <1>8 DEF H!saveFacility
  <2> HIDE DEF row
  <2>4. sited' \in [Facilities -> Sites] /\ \A g \in Facilities : sited'[g] = IF g = f THEN row ELSE sited[g]
    BY <1>0, <2>1, <2>2, <2>3
  <2>5. H!Hangs(r, row)
    BY <1>8, <2>1, <2>4 DEF H!saveFacility
  <2>6. hung' \in SUBSET Areas /\ hung \subseteq hung'
    BY <1>2, <2>2, <2>5
  <2>7. \A s \in Planners : plan'[s] = IF s = r THEN H!Idle ELSE plan[s]
    BY <1>0, <2>3 DEF H!Ends
  <2>8. plan' \in [Planners -> Plans] /\ plans' = plans
    BY <1>0, <2>3, IdlePlan DEF H!Ends
  <2>9. H!TypeOK'
    BY <2>3, <2>4, <2>6, <2>7, <2>8, IdlePlan DEF NestInv, AreaTypes, H!TypeOK, Sites
  <2>10. AreaTypes'
    BY <2>7, <2>8, <2>9, IdlePlan DEF NestInv, AreaTypes
  <2>11. CreatedOnce' /\ LiesLower'
    BY <2>3, <2>7, IdlePlan DEF NestInv, CreatedOnce, LiesLower, Lower, H!Known
  <2>12. ASSUME NEW b \in Areas, b \notin hung', Empty(b),
                ~area[b].active \/ \E s \in Planners : plan[s].at = "retire" /\ plan[s].of = b
         PROVE  Empty(b)'
    <3>1. b \notin H!Beneath(row)
      BY <1>0, <2>5, <2>12, IdlePlan DEF H!Hangs
    <3> QED
      BY <2>3, <2>4, <2>12, <3>1 DEF Empty, H!Beneath
  <2>13. \A b \in gone' \ hung' : Empty(b)'
    BY <2>3, <2>6, <2>12 DEF NestInv, AreaTypes, H!TypeOK, Emptied
  <2>14. ASSUME NEW s \in Planners, plan'[s].at = "retire", plan'[s].of \notin hung'
         PROVE  Empty(plan[s].of)'
    <3>1. plan'[s] = plan[s] /\ plan[s].of \in Areas /\ plan[s].at = "retire"
      BY <2>7, <2>14, IdlePlan DEF NestInv, AreaTypes
    <3>2. PICK b \in Areas : b = plan[s].of
      BY <3>1
    <3>3. Empty(b)'
      BY <2>6, <2>12, <2>14, <3>1, <3>2 DEF Emptied
    <3>4. plan'[s].of = b
      BY <3>1, <3>2
    <3> QED
      BY <3>3, <3>4 DEF Empty
  <2>15. Emptied'
    BY <2>3, <2>13, <2>14 DEF Emptied
  <2> QED
    BY <2>10, <2>11, <2>15 DEF NestInv
<1>9. ASSUME NEW r \in Planners, H!Fail(r) PROVE AreaInv'
  BY <1>6, <1>9 DEF H!Fail
<1> QED
  BY <1>1, <1>3, <1>4, <1>5, <1>7, <1>8, <1>9, AreaAsks DEF H!Next

\* A walk up from an area comes to the city or to what was put beneath nothing, unless the
\* level of an area on it was changed; and a removed area has no active area beneath it and no
\* facility in it, but what was hung beneath it as it was removed, or since by who asks nothing.
THEOREM AreasAreRight == MCSpec => []AreasHold
<1>1. MCInit => AreaInv
  BY AreaInit DEF MCInit
<1>2. AreaInv /\ [MCNext]_all => AreaInv'
  BY StepOfParts, AreaStep
<1>3. AreaInv => H!AreasNest
  BY NestImplies DEF AreaInv
<1>4. AreaInv => H!RemovedAreEmpty
  BY DEF AreaInv, Emptied, Empty, H!RemovedAreEmpty
<1>5. AreaInv => AreasHold
  BY <1>3, <1>4 DEF AreasHold
<1> QED
  BY <1>1, <1>2, <1>5, PTL DEF MCSpec
=============================================================================
