------------------------------ MODULE ApiKeys ------------------------------
(***************************************************************************)
(* One key of the public API through one day: what lets a request with it  *)
(* through (publicApiAuth.middleware.js), its limit, counted in Redis or,  *)
(* once Redis has failed this process, in the usage logs                   *)
(* (apiRateLimit.service.js), the logs and their summary and alerts        *)
(* (apiUsage.service.js), and the orders of a super admin                  *)
(* (apiAccess.service.js).                                                 *)
(*                                                                         *)
(* A request is logged after it was answered, whatever the answer. The     *)
(* limits per minute and per month work as the daily one does. A request   *)
(* with no key or an unknown one leaves the rows of this key alone.        *)
(***************************************************************************)
EXTENDS Naturals, FiniteSets, Sequelize

CONSTANTS
    Calls,          \* the requests that may be in progress together, until they are logged
    Admins,         \* the orders that may be in progress together
    DayLimit,       \* rate_limit_per_day
    MaxOrders,      \* bound on the orders given
    MaxErrors,      \* bound on the failures of Redis and the database, and restarts
    MaxEvents       \* bound on requests, orders and failures together

ApiKeysAssumption ==
    /\ IsFiniteSet(Calls)
    /\ DayLimit \in Nat \ {0}
    /\ MaxOrders \in Nat /\ MaxErrors \in Nat /\ MaxEvents \in Nat

VARIABLES
    key,            \* the ApiKey row: its status and expires_at
    bucket,         \* the Redis counter of the day
    redisDisabled,  \* the flag of this process
    logs,           \* how many ApiUsageLog rows there are
    summary,        \* the ApiUsageDailySummary row, by the number of requests in it; 0 for none
    events,         \* the thresholds for which HIGH_USAGE_DETECTED was recorded
    call,           \* where each request is, with what it has read
    order,          \* where each order is, with what it has read
    tally,          \* history: requests let through, those of them not logged, calls, orders, errors
    revoked,        \* history: the key was revoked, and not ordered to be active since
    resumed,        \* history: Redis counts again after the logs have counted
    settled         \* history: the last log was summarised, and no other was under way with it

vars == <<key, bucket, redisDisabled, logs, summary, events, call, order, tally, revoked, resumed, settled>>

-----------------------------------------------------------------------------
KeyStatuses == {"active", "inactive", "revoked", "expired"}
\* "extend" stands for the changes of updateKey that leave the status alone.
Orders == {"revoke", "regenerate", "activate", "deactivate", "extend"}
Checking == {"expire", "limit", "count", "use"}
Logging == {"sum", "find", "update", "alert"}
Thresholds == {75, 90, 100}
Free == [at |-> "idle", mine |-> 0, read |-> 0, through |-> FALSE, alone |-> FALSE, late |-> FALSE]
NoOrder == [kind |-> "none", seen |-> [status |-> "active", expiry |-> "none"], fresh |-> FALSE]

Init ==
    /\ \E expiry \in {"none", "future"} : key = [status |-> "active", expiry |-> expiry]
    /\ bucket = 0
    /\ redisDisabled = FALSE
    /\ logs = 0
    /\ summary = 0
    /\ events = {}
    /\ call = [c \in Calls |-> Free]
    /\ order = [a \in Admins |-> NoOrder]
    /\ tally = [through |-> 0, lost |-> 0, calls |-> 0, orders |-> 0, errors |-> 0]
    /\ revoked = FALSE
    /\ resumed = FALSE
    /\ settled = TRUE

At(c, place) == call[c].at = place
Goes(c, place) == call' = [call EXCEPT ![c].at = place]
More == tally.calls + tally.orders + tally.errors < MaxEvents
MayFail == More /\ tally.errors < MaxErrors
Fault == MayFail /\ tally' = [tally EXCEPT !.errors = @ + 1]

usage == <<logs, summary, events, settled>>
counters == <<bucket, redisDisabled, resumed>>

-----------------------------------------------------------------------------
(* authenticatePublicApiKey                                                *)

\* The key is read. One that is not active, or whose endpoints, origins or addresses do
\* not admit the request, refuses it.
Authenticate(c) ==
    /\ At(c, "idle")
    /\ More
    /\ tally' = [tally EXCEPT !.calls = @ + 1]
    /\ \E next \in IF key.status # "active" THEN {"log"}
                   ELSE IF key.expiry = "past" THEN {"expire"} ELSE {"limit", "log"} :
          call' = [call EXCEPT ![c] = [Free EXCEPT !.at = next, !.late = revoked]]
    /\ UNCHANGED <<key, order, revoked, counters, usage>>

\* The status is written over what the key has become since it was read active.
Expire(c) ==
    /\ At(c, "expire")
    /\ key' = [key EXCEPT !.status = "expired"]
    /\ Goes(c, "log")
    /\ UNCHANGED <<order, tally, revoked, counters, usage>>

\* checkRedisRateLimits: INCR, which counts what it refuses too.
LimitByRedis(c) ==
    /\ At(c, "limit")
    /\ ~redisDisabled
    /\ bucket' = bucket + 1
    /\ Goes(c, IF bucket' > DayLimit THEN "log" ELSE "use")
    /\ UNCHANGED <<key, order, tally, revoked, redisDisabled, resumed, usage>>

\* Redis fails, before or after it has counted, or the event of a refusal is not
\* recorded: the same catch turns to the logs, for this and for every later request.
RedisFails(c) ==
    /\ At(c, "limit")
    /\ ~redisDisabled
    /\ Fault
    /\ \E more \in {0, 1} : bucket' = bucket + more
    /\ redisDisabled' = TRUE
    /\ Goes(c, "count")
    /\ UNCHANGED <<key, order, revoked, resumed, usage>>

\* checkDbRateLimits: requests that are not logged yet do not count.
LimitByLogs(c) ==
    /\ At(c, "count") \/ (At(c, "limit") /\ redisDisabled)
    /\ Goes(c, IF logs >= DayLimit THEN "log" ELSE "use")
    /\ UNCHANGED <<key, order, tally, revoked, counters, usage>>

\* last_used_at is written, and the handler answers.
Use(c) ==
    /\ At(c, "use")
    /\ tally' = [tally EXCEPT !.through = @ + 1]
    /\ call' = [call EXCEPT ![c].at = "log", ![c].through = TRUE]
    /\ UNCHANGED <<key, order, revoked, counters, usage>>

-----------------------------------------------------------------------------
(* createUsageLog, after the answer; its errors are only written to the log *)

\* The log is written and the logs of the day are read; nothing of either waits for the other.
Log(c) ==
    /\ At(c, "log")
    /\ logs' = logs + 1
    /\ LET alone == \A d \in Calls : call[d].at \notin Logging
       IN  call' = [d \in Calls |->
              IF d = c THEN [call[c] EXCEPT !.at = "sum", !.alone = alone]
              ELSE [call[d] EXCEPT !.alone = FALSE]]
    /\ settled' = FALSE
    /\ UNCHANGED <<key, order, tally, revoked, counters, summary, events>>

ReadLogs(c) ==
    /\ At(c, "sum")
    /\ call' = [call EXCEPT ![c].at = "find", ![c].mine = logs]
    /\ UNCHANGED <<key, order, tally, revoked, counters, usage>>

\* ApiUsageDailySummary.findOrCreate
FindOrCreate(c) ==
    /\ At(c, "find")
    /\ summary' = IF summary = 0 THEN call[c].mine ELSE summary
    /\ call' = [call EXCEPT ![c].at = "update", ![c].read = summary']
    /\ UNCHANGED <<key, order, tally, revoked, counters, logs, events, settled>>

\* Mutant: the row that was found is taken to be up to date.
Update_Kept(c) ==
    /\ At(c, "update")
    /\ Goes(c, "alert")
    /\ UNCHANGED <<key, order, tally, revoked, counters, usage>>

Update(c) ==
    /\ At(c, "update")
    /\ summary' = IF call[c].mine = call[c].read THEN summary ELSE call[c].mine
    /\ Goes(c, "alert")
    /\ UNCHANGED <<key, order, tally, revoked, counters, logs, events, settled>>

Threshold(total) == {t \in Thresholds : total * 100 >= t * DayLimit}
Highest(S) == {t \in S : \A u \in S : u <= t}

\* maybeRecordQuotaAlert, when there is no event of the day for the highest threshold reached:
\* two requests may record it twice, which is not told apart here.
RecordAlert(c) ==
    /\ At(c, "alert")
    /\ events' = events \cup Highest(Threshold(call[c].mine))
    /\ call' = [call EXCEPT ![c] = Free]
    /\ settled' = (settled \/ call[c].alone)
    /\ UNCHANGED <<key, order, tally, revoked, counters, logs, summary>>

-----------------------------------------------------------------------------
(* The super admin                                                         *)

GiveOrder(a) ==
    /\ order[a] = NoOrder
    /\ More /\ tally.orders < MaxOrders
    /\ tally' = [tally EXCEPT !.orders = @ + 1]
    /\ \E kind \in Orders : order' = [order EXCEPT ![a] = [kind |-> kind, seen |-> key, fresh |-> TRUE]]
    /\ UNCHANGED <<key, call, revoked, counters, usage>>

\* What updateKey, revokeKey and regenerateKey write; expires_at stays when a key is regenerated.
Ordered(kind, seen) ==
    CASE kind = "revoke" -> [seen EXCEPT !.status = "revoked"]
      [] kind \in {"regenerate", "activate"} -> [seen EXCEPT !.status = "active"]
      [] kind = "deactivate" -> [seen EXCEPT !.status = "inactive"]
      [] kind = "extend" -> [seen EXCEPT !.expiry = "future"]

\* Mutant: every field that was read is written back.
Carry_EveryField(a) ==
    LET kind == order[a].kind
    IN  /\ kind # "none"
        /\ key' = Saved_EveryField(key, order[a].seen, Ordered(kind, order[a].seen))
        /\ order' = [b \in Admins |-> IF b = a THEN NoOrder ELSE [order[b] EXCEPT !.fresh = FALSE]]
        /\ revoked' = CASE kind = "revoke" -> revoked \/ order[a].fresh
                        [] kind \in {"regenerate", "activate"} -> FALSE
                        [] OTHER -> revoked
        /\ UNCHANGED <<call, tally, counters, usage>>

Carry(a) ==
    LET kind == order[a].kind
    IN  /\ kind # "none"
        /\ key' = Saved(key, order[a].seen, Ordered(kind, order[a].seen))
        /\ order' = [b \in Admins |-> IF b = a THEN NoOrder
                                      ELSE [order[b] EXCEPT !.fresh = FALSE]]
        /\ revoked' = CASE kind = "revoke" -> revoked \/ order[a].fresh
                        [] kind \in {"regenerate", "activate"} -> FALSE
                        [] OTHER -> revoked
        /\ UNCHANGED <<call, tally, counters, usage>>

-----------------------------------------------------------------------------
\* A call of the database rejects: before the answer the request is refused with an
\* error, after it the rest of createUsageLog is left out.
Breaks(c) ==
    /\ Fault
    /\ \/ call[c].at \in Checking /\ Goes(c, "log")
       \/ call[c].at \in Logging /\ call' = [call EXCEPT ![c] = Free]
    /\ UNCHANGED <<key, order, revoked, counters, usage>>

\* The row of the log itself is not written: the request does not count.
LogLost(c) ==
    /\ At(c, "log")
    /\ MayFail
    /\ tally' = [tally EXCEPT !.errors = @ + 1, !.lost = @ + IF call[c].through THEN 1 ELSE 0]
    /\ call' = [call EXCEPT ![c] = Free]
    /\ UNCHANGED <<key, order, revoked, counters, usage>>

\* The process dies and comes back, with Redis enabled.
Restart ==
    /\ MayFail
    /\ tally' = [tally EXCEPT !.errors = @ + 1,
                              !.lost = @ + Cardinality({c \in Calls : At(c, "log") /\ call[c].through})]
    /\ call' = [c \in Calls |-> Free]
    /\ order' = [a \in Admins |-> NoOrder]
    /\ resumed' = (resumed \/ redisDisabled)
    /\ redisDisabled' = FALSE
    /\ UNCHANGED <<key, bucket, revoked, usage>>

ExpiryPasses ==
    /\ key.expiry = "future"
    /\ key' = [key EXCEPT !.expiry = "past"]
    /\ UNCHANGED <<call, order, tally, revoked, counters, usage>>

createUsageLog(c) ==
    Log(c) \/ ReadLogs(c) \/ FindOrCreate(c) \/ Update(c) \/ RecordAlert(c)

Next ==
    \/ \E c \in Calls :
          \/ Authenticate(c) \/ Expire(c) \/ LimitByRedis(c) \/ RedisFails(c) \/ LimitByLogs(c)
          \/ Use(c) \/ createUsageLog(c) \/ Breaks(c) \/ LogLost(c)
    \/ \E a \in Admins : GiveOrder(a) \/ Carry(a)
    \/ Restart \/ ExpiryPasses

Spec == Init /\ [][Next]_vars

-----------------------------------------------------------------------------
\* Every variable has the shape the code gives it.
TypeOK ==
    /\ key \in [status : KeyStatuses, expiry : {"none", "future", "past"}]
    /\ bucket \in Nat
    /\ redisDisabled \in BOOLEAN
    /\ logs \in Nat /\ summary \in Nat
    /\ events \subseteq Thresholds
    /\ \A c \in Calls : call[c].at \in {"idle", "log"} \cup Checking \cup Logging
    /\ \A a \in Admins : order[a].kind \in Orders \cup {"none"}
    /\ revoked \in BOOLEAN /\ resumed \in BOOLEAN /\ settled \in BOOLEAN

\* enforceApiKeyRateLimits: the daily limit is passed by the requests that were in progress
\* together and by those whose log was lost, and by no others, Redis or the logs counting
\* and across the change from one to the other. Back from the logs to Redis, which a
\* restart does, what the logs alone have counted is let through once more.
RateLimitHeld ==
    ~resumed => tally.through <= DayLimit + Cardinality(Calls) - 1 + tally.lost

\* createUsageLog: once a log was summarised with no other under way, the summary of the day
\* is what the logs say, whatever earlier ones left, and the threshold it has reached is told.
SummaryFollowsLogs ==
    settled => /\ summary = logs
               /\ Highest(Threshold(logs)) \subseteq events

\* revokeKey: a request that comes after the key was revoked is refused, until an order makes
\* it active again: an order or an expiry that had read the key before does not.
RevokedRefused == \A c \in Calls : call[c].late => call[c].at \notin Checking /\ ~call[c].through
=============================================================================
