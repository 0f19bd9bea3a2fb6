--------------------------- MODULE AnalysisWorker ---------------------------
(***************************************************************************)
(* The image analysis queue with Redis: enqueueInspectionAnalysis handing  *)
(* a job to BullMQ, the worker that runs it, the worker's failed handler   *)
(* (src/modules/analysis/analysis.queue.js), the run itself                *)
(* (analysis.service.js) and the watchdog (analysisJobWatchdog.service.js).*)
(*                                                                         *)
(* One image is modelled. Its BullMQ job has the deterministic id of the   *)
(* image, and every query of this path names the image or that id, so the  *)
(* jobs of two images do not meet. Each call of enqueueInspectionAnalysis  *)
(* inserts a row of its own, and all these rows carry the same             *)
(* queue_job_id: a run or a handler takes the newest.                      *)
(*                                                                         *)
(* BullMQ itself is external: add with a known id changes nothing, a       *)
(* failed attempt is retried until the attempts are spent, a job whose     *)
(* worker is gone is given to another one once and failed the second time, *)
(* failed jobs are kept (removeOnFail: false), completed ones trimmed.     *)
(*                                                                         *)
(* The age of a row says whether its last update is inside the dedup       *)
(* window (0), past it (1), or past the stale cutoff and the lease (2).    *)
(***************************************************************************)
EXTENDS Naturals, Sequences, Sequelize

CONSTANTS
    Calls,              \* the calls of enqueueInspectionAnalysis that may happen
    WatchdogCall,       \* the one of them that the watchdog makes, again and again
    Attempts,           \* resolveMaxAttempts(): attempts of a job
    PromptHandler,      \* a failed handler is through before the backoff has passed
    MaxAge,             \* bound on how old a row grows: 0, 1 or 2
    MaxRows,            \* bound on rows, past which no completed job is trimmed
    MaxCrashes,         \* bound on crashes of the process
    MaxDbErrors         \* bound on handlers and sweeps cut short by the database

ASSUME ConstantsAssumption ==
    /\ WatchdogCall \in Calls
    /\ Attempts \in Nat \ {0}
    /\ PromptHandler \in BOOLEAN
    /\ MaxAge \in 0..2
    /\ MaxRows \in Nat
    /\ MaxCrashes \in Nat
    /\ MaxDbErrors \in Nat

VARIABLES
    bull,           \* the BullMQ job of the image; granted is history: the attempts
                    \* that all the jobs added for the image have been given
    jobs,           \* the image's AiProcessingJob rows, oldest first
    media,          \* the image's ai_status
    call,           \* where each call of enqueueInspectionAnalysis is
    staleRow,       \* the stale row a call has read and closes next, 0 if none
    reprocess,      \* whether each call's request context asks for a reprocess
    run,            \* the run of the job's current attempt
    handlers,       \* invocations of the worker's failed handler under way
    watchdog,       \* reconcileStaleAnalysisJobs: its snapshot and its place
    crashes, dbErrors

dbVars == <<jobs, media>>
vars == <<bull, jobs, media, call, staleRow, reprocess, run, handlers, watchdog, crashes, dbErrors>>

-----------------------------------------------------------------------------
BullStates == {"none", "waiting", "active", "completed", "failed"}
JobStatuses == {"queued", "running", "succeeded", "failed", "dead_letter"}
AiStatuses == {"UPLOADED", "AI_QUEUED", "AI_PROCESSING", "AI_COMPLETED", "AI_FAILED"}
CallStates == {"idle", "find", "findStale", "failStale", "deadLetterStale", "retryMedia",
               "failMedia", "add", "insert", "done"}
RunStates == {"none", "find", "claim", "read", "process", "score", "finish", "tail"}
WatchdogStates == {"scan", "next", "media", "enqueue", "await"}

Live == {"queued", "running"}
Row(status, attempts) == [status |-> status, attempts |-> attempts, age |-> 0]
Rows == DOMAIN jobs

\* findOne(queue_job_id, order created_at DESC): 0 when there is no row yet.
NewestRow == Len(jobs)

NoRun == [at |-> "none", row |-> 0, read |-> Row("queued", 0)]
NoWatch == [at |-> "scan", todo |-> {}, row |-> 0, attempts |-> 0]

\* Rows of findRecentProcessingJob's two queries.
Recent == {r \in Rows : jobs[r].status \in Live /\ jobs[r].age = 0}
StaleRunning == {r \in Rows : jobs[r].status = "running" /\ jobs[r].age = 2}

\* instance.update of a row that was read earlier; updated_at is written in any case.
Updated(row, read, status, attempts) ==
    [Saved(row, read, Row(status, attempts)) EXCEPT !.age = 0]

\* The values a run or a handler has read.
Reading(r) == Row(jobs[r].status, jobs[r].attempts)

\* Mutant: one attempt too many is waited for.
Spent_OffByOne(attempts) == attempts > Attempts

\* A row's attempts are spent: it is dead-lettered instead of failed.
Spent(attempts) == attempts >= Attempts

-----------------------------------------------------------------------------
Init ==
    /\ bull = [state |-> "none", made |-> 0, stalled |-> 0, reprocess |-> FALSE, granted |-> 0]
    /\ jobs = <<>>
    /\ media = "UPLOADED"
    /\ call = [c \in Calls |-> "idle"]
    /\ staleRow = [c \in Calls |-> 0]
    /\ reprocess = [c \in Calls |-> FALSE]
    /\ run = NoRun
    /\ handlers = {}
    /\ watchdog = NoWatch
    /\ crashes = 0
    /\ dbErrors = 0

-----------------------------------------------------------------------------
(* enqueueInspectionAnalysis, and the update of the image before it.       *)

\* confirmUpload, triggerInspectionImageAi and requeueStaleImageAnalysis mark
\* the image queued and ask for an analysis; the reconciler for a reprocess.
Trigger(c) ==
    /\ c # WatchdogCall
    /\ call[c] = "idle"
    /\ media' = "AI_QUEUED"
    /\ call' = [call EXCEPT ![c] = "find"]
    /\ \E again \in BOOLEAN : reprocess' = [reprocess EXCEPT ![c] = again]
    /\ UNCHANGED <<bull, jobs, staleRow, run, handlers, watchdog, crashes, dbErrors>>

\* A recent row answers the call; without one a stale running row is looked for.
findRecentProcessingJob(c) ==
    /\ call[c] = "find"
    /\ call' = [call EXCEPT ![c] = IF Recent # {} THEN "done" ELSE "findStale"]
    /\ UNCHANGED <<bull, jobs, media, staleRow, reprocess, run, handlers, watchdog, crashes,
                   dbErrors>>

FindStale(c) ==
    /\ call[c] = "findStale"
    /\ \/ /\ StaleRunning = {}
          /\ call' = [call EXCEPT ![c] = "add"]
          /\ UNCHANGED staleRow
       \/ \E r \in StaleRunning :
             /\ call' = [call EXCEPT ![c] = IF Spent(jobs[r].attempts) THEN "deadLetterStale"
                                                                      ELSE "failStale"]
             /\ staleRow' = [staleRow EXCEPT ![c] = r]
    /\ UNCHANGED <<bull, jobs, media, reprocess, run, handlers, watchdog, crashes, dbErrors>>

\* The row that was stale is closed, whatever has become of it.
CloseStale(c) ==
    /\ \/ /\ call[c] = "deadLetterStale"
          /\ jobs' = [jobs EXCEPT ![staleRow[c]] = Row("dead_letter", @.attempts)]
          /\ call' = [call EXCEPT ![c] = "failMedia"]
       \/ /\ call[c] = "failStale"
          /\ jobs' = [jobs EXCEPT ![staleRow[c]] = Row("failed", @.attempts)]
          /\ call' = [call EXCEPT ![c] = "retryMedia"]
    /\ staleRow' = [staleRow EXCEPT ![c] = 0]
    /\ UNCHANGED <<bull, media, reprocess, run, handlers, watchdog, crashes, dbErrors>>

\* The image follows the stale row, if it still waits for the AI.
MarkStaleMedia(c) ==
    /\ call[c] \in {"retryMedia", "failMedia"}
    /\ media' = CASE media \notin {"AI_PROCESSING", "AI_QUEUED"} -> media
                  [] call[c] = "failMedia" -> "AI_FAILED"
                  [] OTHER -> "AI_QUEUED"
    /\ call' = [call EXCEPT ![c] = "add"]
    /\ UNCHANGED <<bull, jobs, staleRow, reprocess, run, handlers, watchdog, crashes, dbErrors>>

\* addJob: a job whose id BullMQ still knows is left as it is.
addJob(c) ==
    /\ call[c] = "add"
    /\ bull' = IF bull.state = "none"
               THEN [state |-> "waiting", made |-> 0, stalled |-> 0, reprocess |-> reprocess[c],
                     granted |-> bull.granted + Attempts]
               ELSE bull
    /\ call' = [call EXCEPT ![c] = "insert"]
    /\ UNCHANGED <<jobs, media, staleRow, reprocess, run, handlers, watchdog, crashes, dbErrors>>

createProcessingJobRecord(c) ==
    /\ call[c] = "insert"
    /\ jobs' = Append(jobs, Row("queued", 0))
    /\ call' = [call EXCEPT ![c] = "done"]
    /\ UNCHANGED <<bull, media, staleRow, reprocess, run, handlers, watchdog, crashes, dbErrors>>

\* A database or Redis call rejects: the caller gets the error. The watchdog's
\* own call is WatchdogThrows.
CallThrows(c) ==
    /\ c # WatchdogCall
    /\ call[c] \in CallStates \ {"idle", "done"}
    /\ call' = [call EXCEPT ![c] = "done"]
    /\ staleRow' = [staleRow EXCEPT ![c] = 0]
    /\ UNCHANGED <<bull, jobs, media, reprocess, run, handlers, watchdog, crashes, dbErrors>>

-----------------------------------------------------------------------------
(* BullMQ and the process it runs in.                                      *)

\* A worker takes the job, once the backoff of a failed attempt has passed.
Pick ==
    /\ bull.state = "waiting"
    /\ PromptHandler => handlers = {}
    /\ bull' = [bull EXCEPT !.state = "active"]
    /\ run' = [NoRun EXCEPT !.at = "find"]
    /\ UNCHANGED <<jobs, media, call, staleRow, reprocess, handlers, watchdog, crashes, dbErrors>>

\* An invocation of the failed handler for a job that has failed made times.
FailedEvent(made) == [made |-> made, at |-> "find", row |-> 0, read |-> Row("queued", 0)]

\* The worker of an active job is gone: another one gets the job, the second
\* time it is failed for good (releases differ on whether that is an attempt).
Stalled ==
    /\ bull.state = "active"
    /\ run = NoRun
    /\ \/ /\ bull.stalled = 0
          /\ bull' = [bull EXCEPT !.state = "waiting", !.stalled = 1]
          /\ UNCHANGED handlers
       \/ /\ bull.stalled = 1
          /\ \E counted \in 0..1 :
               /\ bull' = [bull EXCEPT !.state = "failed", !.made = @ + counted]
               /\ handlers' = handlers \cup {FailedEvent(bull.made + counted)}
    /\ UNCHANGED <<jobs, media, call, staleRow, reprocess, run, watchdog, crashes, dbErrors>>

\* removeOnComplete: newer completed jobs push this one out.
Trim ==
    /\ bull.state = "completed"
    /\ Len(jobs) < MaxRows
    /\ bull' = [bull EXCEPT !.state = "none"]
    /\ UNCHANGED <<jobs, media, call, staleRow, reprocess, run, handlers, watchdog, crashes,
                   dbErrors>>

\* The process that serves, runs and watches dies; Redis and the database stay.
Crash ==
    /\ crashes < MaxCrashes
    /\ crashes' = crashes + 1
    /\ run' = NoRun
    /\ handlers' = {}
    /\ watchdog' = NoWatch
    /\ call' = [c \in Calls |-> IF c = WatchdogCall \/ call[c] = "idle" THEN "idle" ELSE "done"]
    /\ staleRow' = [c \in Calls |-> 0]
    /\ UNCHANGED <<bull, jobs, media, reprocess, dbErrors>>

\* Time passes for a row that nobody updates.
Age(r) ==
    /\ jobs[r].status \in Live
    /\ jobs[r].age < MaxAge
    /\ jobs' = [jobs EXCEPT ![r].age = @ + 1]
    /\ UNCHANGED <<bull, media, call, staleRow, reprocess, run, handlers, watchdog, crashes,
                   dbErrors>>

-----------------------------------------------------------------------------
(* runInspectionAnalysis for the image. An error of the provider ends in a *)
(* fallback score (alwaysScoreOnFailure): what throws is a database call.  *)

\* The row is looked up by the job id: add comes before the insert, so the
\* newest row may belong to an earlier call, or there may be none.
RunFind ==
    /\ run.at = "find"
    /\ run' = IF NewestRow = 0
              THEN [NoRun EXCEPT !.at = "read"]
              ELSE [at |-> "claim", row |-> NewestRow, read |-> Reading(NewestRow)]
    /\ UNCHANGED <<bull, jobs, media, call, staleRow, reprocess, handlers, watchdog, crashes,
                   dbErrors>>

RunClaim ==
    /\ run.at = "claim"
    /\ jobs' = [jobs EXCEPT ![run.row] = Updated(@, run.read, "running", run.read.attempts + 1)]
    /\ run' = [NoRun EXCEPT !.at = "read", !.row = run.row]
    /\ UNCHANGED <<bull, media, call, staleRow, reprocess, handlers, watchdog, crashes, dbErrors>>

\* A scored image is taken from the cache, unless the job's payload, the one of
\* the call that created it, asks for a reprocess.
RunRead ==
    /\ run.at = "read"
    /\ run' = [run EXCEPT !.at = IF media = "AI_COMPLETED" /\ ~bull.reprocess
                                 THEN "finish" ELSE "process"]
    /\ UNCHANGED <<bull, jobs, media, call, staleRow, reprocess, handlers, watchdog, crashes,
                   dbErrors>>

RunProcess ==
    /\ run.at = "process"
    /\ media' = "AI_PROCESSING"
    /\ run' = [run EXCEPT !.at = "score"]
    /\ UNCHANGED <<bull, jobs, call, staleRow, reprocess, handlers, watchdog, crashes, dbErrors>>

RunScore ==
    /\ run.at = "score"
    /\ media' = "AI_COMPLETED"
    /\ run' = [run EXCEPT !.at = "finish"]
    /\ UNCHANGED <<bull, jobs, call, staleRow, reprocess, handlers, watchdog, crashes, dbErrors>>

RunFinish ==
    /\ run.at = "finish"
    /\ jobs' = IF run.row = 0 THEN jobs
               ELSE [jobs EXCEPT ![run.row] = Row("succeeded", @.attempts)]
    /\ run' = [run EXCEPT !.at = "tail"]
    /\ UNCHANGED <<bull, media, call, staleRow, reprocess, handlers, watchdog, crashes, dbErrors>>

\* Events, alerts and the audit log are written: the job is done.
RunEnd ==
    /\ run.at = "tail"
    /\ run' = NoRun
    /\ bull' = [bull EXCEPT !.state = "completed"]
    /\ UNCHANGED <<jobs, media, call, staleRow, reprocess, handlers, watchdog, crashes, dbErrors>>

\* The attempt fails, the run's last writes included: BullMQ retries the job
\* or gives it up, and tells the worker either way.
RunThrows ==
    /\ run # NoRun
    /\ run' = NoRun
    /\ bull' = [bull EXCEPT !.made = @ + 1,
                            !.state = IF bull.made + 1 >= Attempts THEN "failed" ELSE "waiting"]
    /\ handlers' = handlers \cup {FailedEvent(bull.made + 1)}
    /\ UNCHANGED <<jobs, media, call, staleRow, reprocess, watchdog, crashes, dbErrors>>

-----------------------------------------------------------------------------
(* worker.on('failed').                                                    *)

Becomes(h, next) == handlers' = (handlers \ {h}) \cup {next}

HandlerFind(h) ==
    /\ h.at = "find"
    /\ IF NewestRow = 0
       THEN Becomes(h, [h EXCEPT !.at = "media"])
       ELSE Becomes(h, [h EXCEPT !.at = "job", !.row = NewestRow, !.read = Reading(NewestRow)])
    /\ UNCHANGED <<bull, jobs, media, call, staleRow, reprocess, run, watchdog, crashes,
                   dbErrors>>

\* Mutant: the handler counts the attempt once more than the row says.
HandlerJob_CountsAgain(h) ==
    /\ h.at = "job"
    /\ jobs' = [jobs EXCEPT ![h.row] = Row(IF Spent(h.made) THEN "dead_letter" ELSE "failed",
                                          @.attempts + 1)]
    /\ Becomes(h, [FailedEvent(h.made) EXCEPT !.at = "media"])
    /\ UNCHANGED <<bull, media, call, staleRow, reprocess, run, watchdog, crashes, dbErrors>>

HandlerJob(h) ==
    /\ h.at = "job"
    /\ jobs' = [jobs EXCEPT ![h.row] =
                    Updated(@, h.read, IF Spent(h.made) THEN "dead_letter" ELSE "failed", h.made)]
    /\ Becomes(h, [FailedEvent(h.made) EXCEPT !.at = "media"])
    /\ UNCHANGED <<bull, media, call, staleRow, reprocess, run, watchdog, crashes, dbErrors>>

\* The image is updated whatever its state is by now.
HandlerMedia(h) ==
    /\ h.at = "media"
    /\ media' = IF Spent(h.made) THEN "AI_FAILED" ELSE "AI_QUEUED"
    /\ handlers' = handlers \ {h}
    /\ UNCHANGED <<bull, jobs, call, staleRow, reprocess, run, watchdog, crashes, dbErrors>>

\* A database call of the handler rejects; the handler logs it and is done.
HandlerThrows(h) ==
    /\ dbErrors < MaxDbErrors
    /\ dbErrors' = dbErrors + 1
    /\ handlers' = handlers \ {h}
    /\ UNCHANGED <<bull, jobs, media, call, staleRow, reprocess, run, watchdog, crashes>>

-----------------------------------------------------------------------------
(* reconcileStaleAnalysisJobs: the rows of one scan, one after another.    *)

WatchdogScan ==
    /\ watchdog.at = "scan"
    /\ StaleRunning # {}
    /\ watchdog' = [NoWatch EXCEPT !.at = "next",
                        !.todo = {[row |-> r, attempts |-> jobs[r].attempts] : r \in StaleRunning}]
    /\ UNCHANGED <<bull, jobs, media, call, staleRow, reprocess, run, handlers, crashes,
                   dbErrors>>

\* The row as the scan saw it decides, whatever has become of it.
WatchdogRow(e) ==
    /\ watchdog.at = "next"
    /\ e \in watchdog.todo
    /\ jobs' = [jobs EXCEPT ![e.row] =
                    Row(IF Spent(e.attempts) THEN "dead_letter" ELSE "queued", @.attempts)]
    /\ watchdog' = [at |-> "media", todo |-> watchdog.todo \ {e},
                    row |-> e.row, attempts |-> e.attempts]
    /\ UNCHANGED <<bull, media, call, staleRow, reprocess, run, handlers, crashes, dbErrors>>

\* Mutant: watchdogRunning is not reset.
NextRow_KeepsRunning == [NoWatch EXCEPT !.at = "next", !.todo = watchdog.todo]

\* The sweep goes on to its next row, or is over.
NextRow == IF watchdog.todo = {} THEN NoWatch
           ELSE [NoWatch EXCEPT !.at = "next", !.todo = watchdog.todo]

\* markImageForRetry or markImageDeadLetter, whatever the image's state.
WatchdogMedia ==
    /\ watchdog.at = "media"
    /\ IF Spent(watchdog.attempts)
       THEN /\ media' = "AI_FAILED"
            /\ watchdog' = NextRow
       ELSE /\ media' = "AI_QUEUED"
            /\ watchdog' = [watchdog EXCEPT !.at = "enqueue"]
    /\ UNCHANGED <<bull, jobs, call, staleRow, reprocess, run, handlers, crashes, dbErrors>>

WatchdogEnqueue ==
    /\ watchdog.at = "enqueue"
    /\ call' = [call EXCEPT ![WatchdogCall] = "find"]
    /\ reprocess' = [reprocess EXCEPT ![WatchdogCall] = TRUE]
    /\ watchdog' = [watchdog EXCEPT !.at = "await"]
    /\ UNCHANGED <<bull, jobs, media, staleRow, run, handlers, crashes, dbErrors>>

WatchdogEnqueued ==
    /\ watchdog.at = "await"
    /\ call[WatchdogCall] = "done"
    /\ call' = [call EXCEPT ![WatchdogCall] = "idle"]
    /\ watchdog' = NextRow
    /\ UNCHANGED <<bull, jobs, media, staleRow, reprocess, run, handlers, crashes, dbErrors>>

\* A database call of the sweep rejects: the rest of the snapshot is dropped.
WatchdogThrows ==
    /\ watchdog # NoWatch
    /\ dbErrors < MaxDbErrors
    /\ dbErrors' = dbErrors + 1
    /\ watchdog' = NoWatch
    /\ call' = [call EXCEPT ![WatchdogCall] = "idle"]
    /\ staleRow' = [staleRow EXCEPT ![WatchdogCall] = 0]
    /\ UNCHANGED <<bull, jobs, media, reprocess, run, handlers, crashes>>

-----------------------------------------------------------------------------
Enqueue(c) ==
    \/ Trigger(c) \/ findRecentProcessingJob(c) \/ FindStale(c) \/ CloseStale(c)
    \/ MarkStaleMedia(c) \/ addJob(c) \/ createProcessingJobRecord(c) \/ CallThrows(c)

RunStep ==
    RunFind \/ RunClaim \/ RunRead \/ RunProcess \/ RunScore \/ RunFinish \/ RunEnd

runInspectionAnalysis == RunStep \/ RunThrows

HandlerStep(h) == HandlerFind(h) \/ HandlerJob(h) \/ HandlerMedia(h) \/ HandlerThrows(h)

WatchdogStep ==
    \/ WatchdogScan \/ \E e \in watchdog.todo : WatchdogRow(e)
    \/ WatchdogMedia \/ WatchdogEnqueue \/ WatchdogEnqueued

Next ==
    \/ \E c \in Calls : Enqueue(c)
    \/ Pick \/ Stalled \/ Trim \/ Crash
    \/ runInspectionAnalysis
    \/ \E h \in handlers : HandlerStep(h)
    \/ WatchdogStep \/ WatchdogThrows
    \/ \E r \in Rows : Age(r)

Spec == Init /\ [][Next]_vars

\* BullMQ hands out waiting and stalled jobs, a started run either comes to its
\* end or throws, handlers and the sweep get their database answers, a call
\* that was made goes through, and rows grow old.
Fairness ==
    /\ WF_vars(Pick) /\ WF_vars(Stalled)
    /\ WF_vars(runInspectionAnalysis)
    /\ WF_vars(\E h \in handlers : HandlerStep(h))
    /\ WF_vars(WatchdogStep)
    /\ WF_vars(findRecentProcessingJob(WatchdogCall) \/ FindStale(WatchdogCall)
                  \/ CloseStale(WatchdogCall) \/ MarkStaleMedia(WatchdogCall)
                  \/ addJob(WatchdogCall) \/ createProcessingJobRecord(WatchdogCall))
    /\ WF_vars(\E r \in Rows : Age(r))

FairSpec == Spec /\ Fairness

-----------------------------------------------------------------------------
(* What the queue with Redis promises.                                     *)

Readings == [status : JobStatuses, attempts : Nat, age : {0}]

TypeOK ==
    /\ bull \in [state : BullStates, made : 0..Attempts, stalled : 0..1, reprocess : BOOLEAN,
                 granted : Nat]
    /\ jobs \in Seq([status : JobStatuses, attempts : Nat, age : 0..2])
    /\ media \in AiStatuses
    /\ call \in [Calls -> CallStates]
    /\ reprocess \in [Calls -> BOOLEAN]
    /\ staleRow \in [Calls -> 0..Len(jobs)]
    /\ run \in [at : RunStates, row : 0..Len(jobs), read : Readings]
    /\ handlers \subseteq [made : 0..Attempts, at : {"find", "job", "media"}, row : 0..Len(jobs),
                           read : Readings]
    /\ watchdog \in [at : WatchdogStates, row : 0..Len(jobs), attempts : Nat,
                     todo : SUBSET [row : Rows, attempts : Nat]]
    /\ crashes \in 0..MaxCrashes
    /\ dbErrors \in 0..MaxDbErrors

\* The attempts a row accounts for stay within the budget of the jobs added so far, one
\* more for each crash that cost a run without BullMQ counting it: the run's increment,
\* made from a value read earlier, and the handler's assignment, which may come late,
\* never add up to more. The budget is not that of one job: add comes before the insert,
\* so that the run of a job added again may go on counting in the row of the job before.
AttemptBudget == \A r \in Rows : jobs[r].attempts <= bull.granted + crashes

\* When BullMQ has given the job up and the failed handlers are through, the
\* image says so and no row claims that a run is under way: nothing but the
\* handler of the last attempt tells the database.
GivenUpIsRecorded ==
    bull.state = "failed" /\ handlers = {}
        => /\ media = "AI_FAILED"
           /\ \A r \in Rows : jobs[r].status # "running"

\* "Lease expired. Requeued by watchdog." (analysisJobWatchdog.service.js:113):
\* the sweep's call is handed to the queue. It does not hold: the row the sweep
\* has just set back to queued is recent and answers the call as a duplicate.
RequeuedByWatchdog == [][call[WatchdogCall] = "find" => call'[WatchdogCall] # "done"]_vars

\* "Transient worker failure. Retry scheduled." (analysis.queue.js:724): an image
\* the failed handler leaves queued has a job that will be tried again. It does
\* not hold: a job that stalled twice is failed with attempts to spare.
RetryScheduled ==
    jobs # <<>> /\ jobs[NewestRow].status = "failed" /\ media = "AI_QUEUED" /\ handlers = {}
        => bull.state # "failed"

=============================================================================
