---------------------------- MODULE Idempotency ----------------------------
(***************************************************************************)
(* withIdempotency (src/core/idempotency/idempotency.middleware.js): the   *)
(* requests that carry one Idempotency-Key in one scope, the record they   *)
(* share in the database, and the handler the middleware stands before.    *)
(*                                                                         *)
(* One action per stretch between awaits. The handler is one action: only  *)
(* its answer, and whether it changed anything, matter here. A time of 0   *)
(* is the database's null; the clock starts at 1.                          *)
(***************************************************************************)
EXTENDS Naturals, FiniteSets

CONSTANTS
    Requests,       \* the requests that carry the key
    Bodies,         \* what computeRequestHash tells apart
    NoRequest,      \* stands for no stored answer
    LockMs,         \* lockMs, the lease of the lock
    TtlMs,          \* ttlMs, how long an answer is kept
    MaxTime         \* bound on the clock

ASSUME ConstantsAssumption ==
    /\ IsFiniteSet(Requests)
    /\ Bodies # {}
    /\ NoRequest \notin Requests
    /\ LockMs \in Nat \ {0}
    /\ TtlMs \in Nat
    /\ LockMs <= TtlMs      \* in the defaults and in the options of every route
    /\ MaxTime \in Nat

VARIABLES
    clock,      \* Date.now()
    record,     \* the IdempotencyKey row
    at,         \* where the middleware is with each request
    body,       \* what each request asks for
    now,        \* the time each request came in: the only one it compares with
    seen,       \* the record as the request has read it
    answer,     \* whose answer a replayed request got
    kept,       \* whether the answer of the handler is to be stored
    admitted,   \* history: the requests that reached the handler
    reopened    \* history: something happened after which the key may be used again

vars == <<clock, record, at, body, now, seen, answer, kept, admitted, reopened>>

-----------------------------------------------------------------------------
InMiddleware == {"find", "clear", "lock", "create", "reread"}
InHandler == {"handler", "finish"}
Final == {"replayed", "refused", "conflict", "done"}
Places == {"idle"} \cup InMiddleware \cup InHandler \cup Final

Null == 0
Absent == [stored |-> FALSE, hash |-> CHOOSE b \in Bodies : TRUE, response |-> NoRequest,
           lockedUntil |-> Null, expiresAt |-> Null]

NothingSeen == [answered |-> FALSE, lockedUntil |-> Null]

Expired(r) == record.expiresAt # Null /\ record.expiresAt <= now[r]
LockedFor(r, until) == until > now[r]

\* Requests that are neither through nor still to come.
Open == {r \in Requests : at[r] \in InMiddleware \cup InHandler}

Init ==
    /\ clock = 1
    /\ record = Absent
    /\ at = [r \in Requests |-> "idle"]
    /\ body \in [Requests -> Bodies]
    /\ now = [r \in Requests |-> Null]
    /\ seen = [r \in Requests |-> NothingSeen]
    /\ answer = [r \in Requests |-> NoRequest]
    /\ kept = [r \in Requests |-> FALSE]
    /\ admitted = {}
    /\ reopened = FALSE

-----------------------------------------------------------------------------
Enter(r) ==
    /\ at[r] = "idle"
    /\ at' = [at EXCEPT ![r] = "find"]
    /\ now' = [now EXCEPT ![r] = clock]
    /\ UNCHANGED <<clock, record, body, seen, answer, kept, admitted, reopened>>

\* Mutant: the payload of an earlier request is not compared.
Verdict_AnyBody(r) ==
    IF ~Expired(r) /\ record.response # NoRequest THEN "replayed"
    ELSE IF Expired(r) THEN "clear"
    ELSE IF LockedFor(r, record.lockedUntil) THEN "refused"
    ELSE "lock"

\* Mutant: the lock is not looked at.
Verdict_IgnoresLock(r) ==
    IF record.hash # body[r] THEN "conflict"
    ELSE IF ~Expired(r) /\ record.response # NoRequest THEN "replayed"
    ELSE IF Expired(r) THEN "clear"
    ELSE "lock"

\* What the middleware decides about a request from the record it has read.
Verdict(r) ==
    IF record.hash # body[r] THEN "conflict"
    ELSE IF ~Expired(r) /\ record.response # NoRequest THEN "replayed"
    ELSE IF Expired(r) THEN "clear"
    ELSE IF LockedFor(r, record.lockedUntil) THEN "refused"
    ELSE "lock"

Judge(r) ==
    /\ at' = [at EXCEPT ![r] = Verdict(r)]
    /\ seen' = [seen EXCEPT ![r] = [answered |-> record.response # NoRequest,
                                   lockedUntil |-> record.lockedUntil]]
    /\ answer' = [answer EXCEPT ![r] = IF Verdict(r) = "replayed" THEN record.response ELSE @]
    /\ UNCHANGED <<clock, record, body, now, kept, admitted, reopened>>

FindStored(r) ==
    /\ at[r] = "find"
    /\ record.stored
    /\ Judge(r)

FindNothing(r) ==
    /\ at[r] = "find"
    /\ ~record.stored
    /\ at' = [at EXCEPT ![r] = "create"]
    /\ UNCHANGED <<clock, record, body, now, seen, answer, kept, admitted, reopened>>

\* An expired answer is dropped: the ORM saves only what differs from what was
\* read, so an answer that arrived since stays. The lock, too, is judged from the
\* earlier reading.
Clear(r) ==
    /\ at[r] = "clear"
    /\ record' = [record EXCEPT !.response = IF seen[r].answered THEN NoRequest ELSE @,
                                !.expiresAt = Null]
    /\ at' = [at EXCEPT ![r] = IF LockedFor(r, seen[r].lockedUntil) THEN "refused" ELSE "lock"]
    /\ UNCHANGED <<clock, body, now, seen, answer, kept, admitted, reopened>>

\* The lock is written whatever became of the record since it was read.
Lock(r) ==
    /\ at[r] = "lock"
    /\ record' = [record EXCEPT !.hash = body[r], !.lockedUntil = now[r] + LockMs]
    /\ at' = [at EXCEPT ![r] = "handler"]
    /\ admitted' = admitted \cup {r}
    /\ UNCHANGED <<clock, body, now, seen, answer, kept, reopened>>

\* unique(scope, key): one insert wins, the others read the record again.
Create(r) ==
    /\ at[r] = "create"
    /\ ~record.stored
    /\ record' = [stored |-> TRUE, hash |-> body[r], response |-> NoRequest,
                  lockedUntil |-> now[r] + LockMs, expiresAt |-> now[r] + TtlMs]
    /\ at' = [at EXCEPT ![r] = "handler"]
    /\ admitted' = admitted \cup {r}
    /\ UNCHANGED <<clock, body, now, seen, answer, kept, reopened>>

CreateLoses(r) ==
    /\ at[r] = "create"
    /\ record.stored
    /\ at' = [at EXCEPT ![r] = "reread"]
    /\ UNCHANGED <<clock, record, body, now, seen, answer, kept, admitted, reopened>>

Reread(r) ==
    /\ at[r] = "reread"
    /\ Judge(r)

\* The handler answers; an answer with a body, a status below 500 and a size
\* within the limit is to be kept.
Handle(r) ==
    /\ at[r] = "handler"
    /\ \E keep \in BOOLEAN : kept' = [kept EXCEPT ![r] = keep]
    /\ at' = [at EXCEPT ![r] = "finish"]
    /\ UNCHANGED <<clock, record, body, now, seen, answer, admitted, reopened>>

\* res.on('finish'): the record is updated by its id, whoever holds its lock.
Finish(r) ==
    /\ at[r] = "finish"
    /\ record' = IF kept[r]
                 THEN [record EXCEPT !.response = r, !.lockedUntil = Null,
                                     !.expiresAt = clock + TtlMs]
                 ELSE [record EXCEPT !.lockedUntil = Null]
    /\ reopened' = (reopened \/ ~kept[r])
    /\ at' = [at EXCEPT ![r] = "done"]
    /\ UNCHANGED <<clock, body, now, seen, answer, kept, admitted>>

\* The process dies, the client goes away before 'finish', or a database call
\* rejects: a lock the request has taken stays.
Abandon(r) ==
    /\ r \in Open
    /\ at' = [at EXCEPT ![r] = "done"]
    /\ reopened' = (reopened \/ at[r] \in InHandler)
    /\ UNCHANGED <<clock, record, body, now, seen, answer, kept, admitted>>

\* Time passes: a request may outlive its lease, an answer its time to live.
Tick ==
    /\ clock < MaxTime
    /\ clock' = clock + 1
    /\ reopened' = \/ reopened
                   \/ \E r \in Open : now[r] + LockMs <= clock + 1
                   \/ record.expiresAt # Null /\ record.expiresAt <= clock + 1
    /\ UNCHANGED <<record, at, body, now, seen, answer, kept, admitted>>

withIdempotency(r) ==
    \/ Enter(r) \/ FindStored(r) \/ FindNothing(r) \/ Clear(r) \/ Lock(r)
    \/ Create(r) \/ CreateLoses(r) \/ Reread(r) \/ Handle(r) \/ Finish(r) \/ Abandon(r)

Next == Tick \/ \E r \in Requests : withIdempotency(r)

Spec == Init /\ [][Next]_vars

-----------------------------------------------------------------------------
(* What the middleware promises.                                           *)

TypeOK ==
    /\ clock \in Nat \ {0}
    /\ record \in [stored : BOOLEAN, hash : Bodies, response : Requests \cup {NoRequest},
                   lockedUntil : Nat, expiresAt : Nat]
    /\ at \in [Requests -> Places]
    /\ body \in [Requests -> Bodies]
    /\ now \in [Requests -> Nat]
    /\ seen \in [Requests -> [answered : BOOLEAN, lockedUntil : Nat]]
    /\ answer \in [Requests -> Requests \cup {NoRequest}]
    /\ kept \in [Requests -> BOOLEAN]
    /\ admitted \subseteq Requests
    /\ reopened \in BOOLEAN

\* A replayed answer is the answer to the same payload, by a handler that ran,
\* also when two requests with different payloads race to create the record,
\* when an answer expires, and when the key is used again after a failure.
ReplayAnswersSameBody ==
    \A r \in Requests : at[r] = "replayed" =>
        /\ answer[r] \in admitted
        /\ body[answer[r]] = body[r]

\* One handler runs per key, however the requests interleave, until the key is
\* open again: an answer that was not stored, a request that died in the
\* handler or outlived its lease, or the time to live is over. From then on
\* two requests may pass together, for the lock is not taken atomically.
OneHandlerUntilReopened ==
    ~reopened => Cardinality(admitted) <= 1

=============================================================================
