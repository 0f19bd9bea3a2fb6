--------------------------- MODULE AnalysisInline ---------------------------
(***************************************************************************)
(* The in-process fallback of the image analysis queue: what               *)
(* enqueueInspectionAnalysis does when Redis is unavailable                *)
(* (src/modules/analysis/analysis.queue.js), the runs it starts            *)
(* (runInspectionAnalysis in analysis.service.js) and the watchdog that    *)
(* shares their rows (analysisJobWatchdog.service.js).                     *)
(*                                                                         *)
(* Every await in the code is a point where another callback may run, so   *)
(* a handler is split into one action per stretch between awaits.          *)
(* inlineQueue, inlineQueuedKeys and inlineActiveCount are the module      *)
(* variables of one process; job and media are rows of the database and    *)
(* survive Restart.                                                        *)
(*                                                                         *)
(* Abstractions: one inspection; a task key is its target, an image or the *)
(* whole inspection (the job type is constant and this path carries no     *)
(* submission id); a call of enqueueInspectionAnalysis names the task, the *)
(* job row and the run it leads to; the age of a row says whether its      *)
(* last update is inside the dedup window (0), past it (1), or past the    *)
(* stale cutoff too (2).                                                   *)
(***************************************************************************)
EXTENDS Naturals, Sequences, FiniteSets

CONSTANTS
    Images,         \* the evidence images of the inspection
    Whole,          \* the target of a call without an image id
    Calls,          \* the calls of enqueueInspectionAnalysis that may happen
    Concurrency,    \* resolveInlineConcurrency()
    QueueMax,       \* resolveInlineQueueMax()
    Asked,          \* bound on what the calls ask for, of Targets
    MaxAge,         \* bound on how old a row grows: 0, 1 or 2
    MaxRestarts     \* bound on how often the process is restarted

ASSUME ConstantsAssumption ==
    /\ IsFiniteSet(Calls)
    /\ Whole \notin Images
    /\ Concurrency \in Nat \ {0}
    /\ QueueMax \in Nat \ {0}
    /\ Asked \subseteq Images \cup {Whole}
    /\ MaxAge \in 0..2
    /\ MaxRestarts \in Nat

VARIABLES
    inlineQueue,        \* tasks waiting for a slot, oldest first
    inlineQueuedKeys,   \* keys of the tasks queued or being run
    inlineActiveCount,  \* slots in use
    call,               \* where each call of enqueueInspectionAnalysis is
    target,             \* what each call asks to analyse
    staleRow,           \* the stale row a call read and has still to close
    slot,               \* where runInlineTask is for each task
    run,                \* where runInspectionAnalysis is for each task
    todo,               \* images the run has still to process
    current,            \* the image the run is processing, Whole if none
    failure,            \* where markInlineJobFailure is for each task
    job,                \* the AiProcessingJob row of each call
    media,              \* InspectionMedia.ai_status of each image
    watchdog,           \* the rows the watchdog's scan returned, and its place
    raced,              \* history: targets for which two calls passed the key check together
    restarts            \* how often the process was restarted

poolVars == <<inlineQueue, inlineQueuedKeys, inlineActiveCount>>
vars == <<inlineQueue, inlineQueuedKeys, inlineActiveCount, call, target, staleRow,
          slot, run, todo, current, failure, job, media, watchdog, raced, restarts>>

-----------------------------------------------------------------------------
Targets == Images \cup {Whole}

CallStates == {"idle", "find", "findStale", "closeStale", "markStaleMedia", "checkKey",
               "insert", "admit", "reject", "done"}
SlotStates == {"none", "racing", "failing"}
RunStates == {"none", "begin", "read", "next", "provider", "tail", "ended", "threw"}
FailureStates == {"none", "job", "media"}
JobStatuses == {"absent", "queued", "running", "succeeded", "failed", "dead_letter"}
AiStatuses == {"UPLOADED", "AI_QUEUED", "AI_PROCESSING", "AI_COMPLETED", "AI_FAILED"}

Live == {"queued", "running"}
JobRow(status) == [status |-> status, age |-> 0]

\* The images of an update ... where id = image_id: none when there is no image id.
ImagesOf(t) == {t} \cap Images

\* Rows of findRecentProcessingJob's first query: an image narrows the search
\* to its own rows, a call for the whole inspection matches any row.
RecentJobs(t) == {d \in Calls : /\ job[d].status \in Live
                                /\ job[d].age = 0
                                /\ t \in Images => target[d] = t}

\* Rows of its second query, made only for an image.
StaleRunning(t) == {d \in Calls : /\ t \in Images
                                  /\ target[d] = t
                                  /\ job[d] = [status |-> "running", age |-> 2]}

\* Tasks that hold a slot, and tasks that hold one or wait for one.
Active == {c \in Calls : slot[c] # "none"}
Waiting == {inlineQueue[j] : j \in DOMAIN inlineQueue}
Pending == Active \cup Waiting

\* runInspectionAnalysis calls that are executing, timed out or not.
Executing == {c \in Calls : run[c] \in {"begin", "read", "next", "provider", "tail"}}

-----------------------------------------------------------------------------
Init ==
    /\ inlineQueue = <<>>
    /\ inlineQueuedKeys = {}
    /\ inlineActiveCount = 0
    /\ call = [c \in Calls |-> "idle"]
    /\ target = [c \in Calls |-> Whole]
    /\ staleRow = [c \in Calls |-> {}]
    /\ slot = [c \in Calls |-> "none"]
    /\ run = [c \in Calls |-> "none"]
    /\ todo = [c \in Calls |-> {}]
    /\ current = [c \in Calls |-> Whole]
    /\ failure = [c \in Calls |-> "none"]
    /\ job = [c \in Calls |-> JobRow("absent")]
    /\ media = [i \in Images |-> "UPLOADED"]
    /\ watchdog = [rows |-> {}, marking |-> {}]
    /\ raced = {}
    /\ restarts = 0

-----------------------------------------------------------------------------
(* drainInlineQueue: while a slot is free and a task waits, start the task. *)

\* How many tasks the while loop starts when n slots are in use and q waits.
Taken(q, n) ==
    LET room == IF n < Concurrency THEN Concurrency - n ELSE 0
    IN  IF Len(q) < room THEN Len(q) ELSE room

StartedBy(q, n) == {q[j] : j \in 1..Taken(q, n)}

\* The pool after drainInlineQueue ran on queue q with n slots in use, of which
\* the tasks in freed have just given theirs back.
drainInlineQueue(q, n, freed) ==
    /\ inlineQueue' = SubSeq(q, Taken(q, n) + 1, Len(q))
    /\ inlineActiveCount' = n + Taken(q, n)
    /\ slot' = [c \in Calls |-> IF c \in StartedBy(q, n) THEN "racing"
                                ELSE IF c \in freed THEN "none" ELSE slot[c]]
    /\ run' = [c \in Calls |-> IF c \in StartedBy(q, n) THEN "begin" ELSE run[c]]

-----------------------------------------------------------------------------
(* enqueueInspectionAnalysis, from its callers' update of the image to the  *)
(* hand-over to the pool.                                                   *)

\* triggerInspectionImageAi, confirmUpload and the routes that run or reprocess
\* an inspection: an image is marked queued first, an inspection is not.
Trigger(c, t) ==
    /\ call[c] = "idle"
    /\ call' = [call EXCEPT ![c] = "find"]
    /\ target' = [target EXCEPT ![c] = t]
    /\ media' = [i \in Images |-> IF i \in ImagesOf(t) THEN "AI_QUEUED" ELSE media[i]]
    /\ UNCHANGED <<poolVars, staleRow, slot, run, todo, current, failure, job, watchdog,
                   raced, restarts>>

\* findRecentProcessingJob: a recent row answers the call; without one, a call
\* for an image looks for a stale row too.
findRecentProcessingJob(c) ==
    /\ call[c] = "find"
    /\ call' = [call EXCEPT ![c] = IF RecentJobs(target[c]) # {} THEN "done"
                                   ELSE IF target[c] \in Images THEN "findStale"
                                   ELSE "checkKey"]
    /\ UNCHANGED <<poolVars, target, staleRow, slot, run, todo, current, failure, job,
                   media, watchdog, raced, restarts>>

FindStale(c) ==
    /\ call[c] = "findStale"
    /\ \/ /\ StaleRunning(target[c]) = {}
          /\ call' = [call EXCEPT ![c] = "checkKey"]
          /\ UNCHANGED staleRow
       \/ \E d \in StaleRunning(target[c]) :
             /\ staleRow' = [staleRow EXCEPT ![c] = {d}]
             /\ call' = [call EXCEPT ![c] = "closeStale"]
    /\ UNCHANGED <<poolVars, target, slot, run, todo, current, failure, job, media, watchdog, raced, restarts>>

\* The row that was stale is closed, whatever it has become since (its one
\* attempt was spent when it was read, so as dead_letter) ...
CloseStale(c) ==
    /\ call[c] = "closeStale"
    /\ job' = [d \in Calls |-> IF d \in staleRow[c] THEN JobRow("dead_letter") ELSE job[d]]
    /\ staleRow' = [staleRow EXCEPT ![c] = {}]
    /\ call' = [call EXCEPT ![c] = "markStaleMedia"]
    /\ UNCHANGED <<poolVars, target, slot, run, todo, current, failure, media, watchdog, raced, restarts>>

\* ... and the image is failed, if it still waits for the AI.
MarkStaleMedia(c) ==
    /\ call[c] = "markStaleMedia"
    /\ media' = [i \in Images |->
                    IF i \in ImagesOf(target[c]) /\ media[i] \in {"AI_PROCESSING", "AI_QUEUED"}
                    THEN "AI_FAILED" ELSE media[i]]
    /\ call' = [call EXCEPT ![c] = "checkKey"]
    /\ UNCHANGED <<poolVars, target, staleRow, slot, run, todo, current, failure, job,
                   watchdog, raced, restarts>>

\* Mutant: the key is not looked up.
CheckKey_Skipped(c) ==
    /\ call[c] = "checkKey"
    /\ call' = [call EXCEPT ![c] = "insert"]
    /\ raced' = IF /\ target[c] \notin inlineQueuedKeys
                   /\ \E d \in Calls : target[d] = target[c] /\ call[d] \in {"insert", "admit"}
                THEN raced \cup {target[c]} ELSE raced
    /\ UNCHANGED <<poolVars, target, staleRow, slot, run, todo, current, failure, job,
                   media, watchdog, restarts>>

\* addJob returned null. A key of a queued or running task answers the call.
CheckKey(c) ==
    /\ call[c] = "checkKey"
    /\ call' = [call EXCEPT ![c] = IF target[c] \in inlineQueuedKeys THEN "done" ELSE "insert"]
    /\ raced' = IF /\ target[c] \notin inlineQueuedKeys
                   /\ \E d \in Calls : target[d] = target[c] /\ call[d] \in {"insert", "admit"}
                THEN raced \cup {target[c]} ELSE raced
    /\ UNCHANGED <<poolVars, target, staleRow, slot, run, todo, current, failure, job,
                   media, watchdog, restarts>>

createProcessingJobRecord(c) ==
    /\ call[c] = "insert"
    /\ call' = [call EXCEPT ![c] = "admit"]
    /\ job' = [job EXCEPT ![c] = JobRow("queued")]
    /\ UNCHANGED <<poolVars, target, staleRow, slot, run, todo, current, failure, media,
                   watchdog, raced, restarts>>

\* The task gets its key and a place in the queue, and the queue is drained.
Admit(c) ==
    /\ call[c] = "admit"
    /\ Len(inlineQueue) < QueueMax
    /\ inlineQueuedKeys' = inlineQueuedKeys \cup {target[c]}
    /\ drainInlineQueue(Append(inlineQueue, c), inlineActiveCount, {})
    /\ call' = [call EXCEPT ![c] = "done"]
    /\ UNCHANGED <<target, staleRow, todo, current, failure, job, media, watchdog,
                   raced, restarts>>

\* Mutant: the rejected task's key is not deleted again.
Reject_KeepsKey(c) ==
    /\ call[c] = "admit"
    /\ Len(inlineQueue) >= QueueMax
    /\ inlineQueuedKeys' = inlineQueuedKeys \cup {target[c]}
    /\ call' = [call EXCEPT ![c] = "reject"]
    /\ failure' = [failure EXCEPT ![c] = "job"]
    /\ UNCHANGED <<inlineQueue, inlineActiveCount, target, staleRow, slot, run, todo,
                   current, job, media, watchdog, raced, restarts>>

\* The queue is full: the key is added and deleted at once, the job is failed.
Reject(c) ==
    /\ call[c] = "admit"
    /\ Len(inlineQueue) >= QueueMax
    /\ inlineQueuedKeys' = inlineQueuedKeys \ {target[c]}
    /\ call' = [call EXCEPT ![c] = "reject"]
    /\ failure' = [failure EXCEPT ![c] = "job"]
    /\ UNCHANGED <<inlineQueue, inlineActiveCount, target, staleRow, slot, run, todo,
                   current, job, media, watchdog, raced, restarts>>

\* The caller gets the rejected task back once markInlineJobFailure is through.
Rejected(c) ==
    /\ call[c] = "reject"
    /\ failure[c] = "none"
    /\ call' = [call EXCEPT ![c] = "done"]
    /\ UNCHANGED <<poolVars, target, staleRow, slot, run, todo, current, failure, job,
                   media, watchdog, raced, restarts>>

\* A database call before the hand-over rejects and the caller gets the error.
CallThrows(c) ==
    /\ call[c] \in {"find", "findStale", "closeStale", "markStaleMedia", "insert", "admit"}
    /\ call' = [call EXCEPT ![c] = "done"]
    /\ staleRow' = [staleRow EXCEPT ![c] = {}]
    /\ UNCHANGED <<poolVars, target, slot, run, todo, current, failure, job, media, watchdog,
                   raced, restarts>>

-----------------------------------------------------------------------------
(* runInspectionAnalysis. A provider or image error ends in a fallback     *)
(* score (alwaysScoreOnFailure), so a run that reaches its images scores   *)
(* them; what throws is a database call.                                   *)

\* The row is claimed.
RunBegin(c) ==
    /\ run[c] = "begin"
    /\ run' = [run EXCEPT ![c] = "read"]
    /\ job' = [job EXCEPT ![c] = JobRow("running")]
    /\ UNCHANGED <<poolVars, call, target, staleRow, slot, todo, current, failure,
                   media, watchdog, raced, restarts>>

\* The rows are read once; an image already scored is taken from the cache,
\* unless the call asks for a reprocess.
RunRead(c) ==
    /\ run[c] = "read"
    /\ \E reprocess \in BOOLEAN :
         todo' = [todo EXCEPT ![c] =
                    {i \in (IF target[c] = Whole THEN Images ELSE ImagesOf(target[c])) :
                        reprocess \/ media[i] # "AI_COMPLETED"}]
    /\ run' = [run EXCEPT ![c] = "next"]
    /\ UNCHANGED <<poolVars, call, target, staleRow, slot, current, failure, job, media,
                   watchdog, raced, restarts>>

\* The provider is asked about one image at a time ...
RunProcess(c, i) ==
    /\ run[c] = "next"
    /\ i \in todo[c]
    /\ media' = [media EXCEPT ![i] = "AI_PROCESSING"]
    /\ current' = [current EXCEPT ![c] = i]
    /\ run' = [run EXCEPT ![c] = "provider"]
    /\ UNCHANGED <<poolVars, call, target, staleRow, slot, todo, failure, job, watchdog,
                   raced, restarts>>

\* ... and its answer, or the fallback for its error, is the image's score.
RunScore(c) ==
    /\ run[c] = "provider"
    /\ media' = [media EXCEPT ![current[c]] = "AI_COMPLETED"]
    /\ todo' = [todo EXCEPT ![c] = @ \ {current[c]}]
    /\ current' = [current EXCEPT ![c] = Whole]
    /\ run' = [run EXCEPT ![c] = "next"]
    /\ UNCHANGED <<poolVars, call, target, staleRow, slot, failure, job, watchdog,
                   raced, restarts>>

\* Every image has a result: the job has succeeded, whatever its row says now.
RunFinish(c) ==
    /\ run[c] = "next"
    /\ todo[c] = {}
    /\ job' = [job EXCEPT ![c] = JobRow("succeeded")]
    /\ run' = [run EXCEPT ![c] = "tail"]
    /\ UNCHANGED <<poolVars, call, target, staleRow, slot, todo, current, failure,
                   media, watchdog, raced, restarts>>

\* Events, alerts and the audit log are written, and the run returns.
RunEnd(c) ==
    /\ run[c] = "tail"
    /\ run' = [run EXCEPT ![c] = "ended"]
    /\ UNCHANGED <<poolVars, call, target, staleRow, slot, todo, current, failure, job,
                   media, watchdog, raced, restarts>>

RunThrows(c) ==
    /\ c \in Executing
    /\ run' = [run EXCEPT ![c] = "threw"]
    /\ todo' = [todo EXCEPT ![c] = {}]
    /\ current' = [current EXCEPT ![c] = Whole]
    /\ UNCHANGED <<poolVars, call, target, staleRow, slot, failure, job, media,
                   watchdog, raced, restarts>>

-----------------------------------------------------------------------------
(* runInlineTask: the run raced against a timer, and what follows.         *)

\* Mutant: the timer gives the slot back itself, and the finally does so again.
Timeout_FreesSlot(c) ==
    /\ slot[c] = "racing"
    /\ c \in Executing
    /\ slot' = [slot EXCEPT ![c] = "failing"]
    /\ failure' = [failure EXCEPT ![c] = "job"]
    /\ inlineActiveCount' = inlineActiveCount - 1
    /\ UNCHANGED <<inlineQueue, inlineQueuedKeys, call, target, staleRow, run, todo,
                   current, job, media, watchdog, raced, restarts>>

\* Mutant: the run is awaited without a timer.
Timeout_NoTimer(c) == FALSE

\* The timer wins the race: the run goes on, its slot handles the failure.
Timeout(c) ==
    /\ slot[c] = "racing"
    /\ c \in Executing
    /\ slot' = [slot EXCEPT ![c] = "failing"]
    /\ failure' = [failure EXCEPT ![c] = "job"]
    /\ UNCHANGED <<poolVars, call, target, staleRow, run, todo, current, job, media,
                   watchdog, raced, restarts>>

\* The run's error loses the slot in the same way.
CatchThrown(c) ==
    /\ slot[c] = "racing"
    /\ run[c] = "threw"
    /\ slot' = [slot EXCEPT ![c] = "failing"]
    /\ failure' = [failure EXCEPT ![c] = "job"]
    /\ UNCHANGED <<poolVars, call, target, staleRow, run, todo, current, job, media,
                   watchdog, raced, restarts>>

\* markInlineJobFailure: the row first ...
FailJob(c) ==
    /\ failure[c] = "job"
    /\ job' = [job EXCEPT ![c] = JobRow("failed")]
    /\ failure' = [failure EXCEPT ![c] = "media"]
    /\ UNCHANGED <<poolVars, call, target, staleRow, slot, run, todo, current, media,
                   watchdog, raced, restarts>>

\* Mutant: the image is failed whatever its state.
FailMedia_Unguarded(c) ==
    /\ failure[c] = "media"
    /\ media' = [i \in Images |-> IF i \in ImagesOf(target[c]) THEN "AI_FAILED" ELSE media[i]]
    /\ failure' = [failure EXCEPT ![c] = "none"]
    /\ UNCHANGED <<poolVars, call, target, staleRow, slot, run, todo, current, job,
                   watchdog, raced, restarts>>

\* ... then the image, unless it has a score or has failed already.
FailMedia(c) ==
    /\ failure[c] = "media"
    /\ media' = [i \in Images |->
                    IF /\ i \in ImagesOf(target[c])
                       /\ media[i] \in {"AI_QUEUED", "AI_PROCESSING", "UPLOADED"}
                    THEN "AI_FAILED" ELSE media[i]]
    /\ failure' = [failure EXCEPT ![c] = "none"]
    /\ UNCHANGED <<poolVars, call, target, staleRow, slot, run, todo, current, job,
                   watchdog, raced, restarts>>

\* A database call of markInlineJobFailure rejects; drainInlineQueue swallows it.
FailThrows(c) ==
    /\ failure[c] # "none"
    /\ failure' = [failure EXCEPT ![c] = "none"]
    /\ UNCHANGED <<poolVars, call, target, staleRow, slot, run, todo, current, job,
                   media, watchdog, raced, restarts>>

\* Mutant: the queue is not drained when a task ends.
Release_NoDrain(c) ==
    /\ \/ slot[c] = "racing" /\ run[c] = "ended"
       \/ slot[c] = "failing" /\ failure[c] = "none"
    /\ inlineQueuedKeys' = inlineQueuedKeys \ {target[c]}
    /\ inlineActiveCount' = IF inlineActiveCount > 0 THEN inlineActiveCount - 1 ELSE 0
    /\ slot' = [slot EXCEPT ![c] = "none"]
    /\ UNCHANGED <<inlineQueue, call, target, staleRow, run, todo, current, failure,
                   job, media, watchdog, raced, restarts>>

\* The finally of drainInlineQueue: the slot and the key are given back and
\* the queue is drained again.
Release(c) ==
    /\ \/ slot[c] = "racing" /\ run[c] = "ended"
       \/ slot[c] = "failing" /\ failure[c] = "none"
    /\ inlineQueuedKeys' = inlineQueuedKeys \ {target[c]}
    /\ drainInlineQueue(inlineQueue,
                        IF inlineActiveCount > 0 THEN inlineActiveCount - 1 ELSE 0, {c})
    /\ UNCHANGED <<call, target, staleRow, todo, current, failure, job, media, watchdog,
                   raced, restarts>>

-----------------------------------------------------------------------------
(* reconcileStaleAnalysisJobs: one scan, then its rows one after another.   *)
(* A running row of this path has spent the one attempt it has, so the      *)
(* watchdog never requeues it.                                              *)

WatchdogScan ==
    /\ watchdog = [rows |-> {}, marking |-> {}]
    /\ LET rows == {c \in Calls : job[c] = [status |-> "running", age |-> 2]}
       IN  /\ rows # {}
           /\ watchdog' = [watchdog EXCEPT !.rows = rows]
    /\ UNCHANGED <<poolVars, call, target, staleRow, slot, run, todo, current, failure,
                   job, media, raced, restarts>>

WatchdogDeadLetter(c) ==
    /\ c \in watchdog.rows
    /\ watchdog.marking = {}
    /\ job' = [job EXCEPT ![c] = JobRow("dead_letter")]
    /\ watchdog' = [rows |-> watchdog.rows \ {c}, marking |-> {c}]
    /\ UNCHANGED <<poolVars, call, target, staleRow, slot, run, todo, current, failure,
                   media, raced, restarts>>

\* markImageDeadLetter, whatever the image's state.
WatchdogMarkImage(c) ==
    /\ c \in watchdog.marking
    /\ media' = [i \in Images |-> IF i \in ImagesOf(target[c]) THEN "AI_FAILED" ELSE media[i]]
    /\ watchdog' = [watchdog EXCEPT !.marking = {}]
    /\ UNCHANGED <<poolVars, call, target, staleRow, slot, run, todo, current, failure,
                   job, raced, restarts>>

-----------------------------------------------------------------------------
\* Time passes for a row that nobody updates.
Age(c) ==
    /\ job[c].status \in Live
    /\ job[c].age < MaxAge
    /\ job' = [job EXCEPT ![c].age = @ + 1]
    /\ UNCHANGED <<poolVars, call, target, staleRow, slot, run, todo, current, failure,
                   media, watchdog, raced, restarts>>

\* The process ends and a new one starts: what it held in memory is gone.
Restart ==
    /\ restarts < MaxRestarts
    /\ restarts' = restarts + 1
    /\ inlineQueue' = <<>>
    /\ inlineQueuedKeys' = {}
    /\ inlineActiveCount' = 0
    /\ call' = [c \in Calls |-> IF call[c] = "idle" THEN "idle" ELSE "done"]
    /\ staleRow' = [c \in Calls |-> {}]
    /\ slot' = [c \in Calls |-> "none"]
    /\ run' = [c \in Calls |-> "none"]
    /\ todo' = [c \in Calls |-> {}]
    /\ current' = [c \in Calls |-> Whole]
    /\ failure' = [c \in Calls |-> "none"]
    /\ watchdog' = [rows |-> {}, marking |-> {}]
    /\ raced' = {}
    /\ UNCHANGED <<target, job, media>>

-----------------------------------------------------------------------------
Enqueue(c) ==
    \/ \E t \in Asked : Trigger(c, t)
    \/ findRecentProcessingJob(c) \/ FindStale(c) \/ CloseStale(c) \/ MarkStaleMedia(c)
    \/ CheckKey(c) \/ createProcessingJobRecord(c)
    \/ Admit(c) \/ Reject(c) \/ Rejected(c) \/ CallThrows(c)

runInspectionAnalysis(c) ==
    \/ RunBegin(c) \/ RunRead(c)
    \/ \E i \in Images : RunProcess(c, i)
    \/ RunScore(c) \/ RunFinish(c) \/ RunEnd(c) \/ RunThrows(c)

runInlineTask(c) ==
    \/ Timeout(c) \/ CatchThrown(c)
    \/ FailJob(c) \/ FailMedia(c) \/ FailThrows(c)
    \/ Release(c)

Watchdog ==
    \/ WatchdogScan
    \/ \E c \in Calls : WatchdogDeadLetter(c) \/ WatchdogMarkImage(c)

Next ==
    \/ \E c \in Calls : Enqueue(c) \/ runInspectionAnalysis(c) \/ runInlineTask(c) \/ Age(c)
    \/ Watchdog
    \/ Restart

Spec == Init /\ [][Next]_vars

\* The timer of a task fires, the callbacks of a settled promise run, and a
\* database call made to record a failure is answered or rejected. Nothing is
\* assumed of the run itself: the provider may never answer.
Fairness ==
    \A c \in Calls : /\ WF_vars(Timeout(c) \/ CatchThrown(c))
                     /\ WF_vars(FailJob(c) \/ FailMedia(c) \/ FailThrows(c))
                     /\ WF_vars(Release(c))

FairSpec == Spec /\ Fairness

-----------------------------------------------------------------------------
(* What the fallback queue promises.                                       *)

TypeOK ==
    /\ inlineQueue \in Seq(Calls)
    /\ inlineQueuedKeys \subseteq Targets
    /\ inlineActiveCount \in Nat
    /\ call \in [Calls -> CallStates]
    /\ target \in [Calls -> Targets]
    /\ staleRow \in [Calls -> SUBSET Calls]
    /\ slot \in [Calls -> SlotStates]
    /\ run \in [Calls -> RunStates]
    /\ todo \in [Calls -> SUBSET Images]
    /\ current \in [Calls -> Targets]
    /\ failure \in [Calls -> FailureStates]
    /\ job \in [Calls -> [status : JobStatuses, age : 0..2]]
    /\ media \in [Images -> AiStatuses]
    /\ watchdog \in [rows : SUBSET Calls, marking : SUBSET Calls]
    /\ raced \subseteq Targets
    /\ restarts \in 0..MaxRestarts

\* "bounded concurrency" as the process accounts for it: the counter is the
\* number of tasks that hold a slot, never above the configured concurrency,
\* and the queue never exceeds its maximum. A slot lost on a timeout, or given
\* back twice (by the timeout and by the run that outlives it), would break it.
SlotsAccounted ==
    /\ inlineActiveCount = Cardinality(Active)
    /\ inlineActiveCount <= Concurrency
    /\ Len(inlineQueue) <= QueueMax

\* No task waits while a slot is free: drainInlineQueue runs only when a task
\* is added and when one ends, so a state where it should have run again and
\* did not would leave the queue standing until the next upload.
NoWaitForAFreeSlot == inlineQueue # <<>> => inlineActiveCount = Concurrency

\* A key is in inlineQueuedKeys only for a task that is queued or holds a slot.
\* A key left behind by a timeout, a rejection or an error would answer every
\* later call for that image with "deduped" until the process restarts.
NoStrandedKey == \A t \in inlineQueuedKeys : \E c \in Pending : target[c] = t

\* Two tasks of one key are pending together, or one is without its key, only
\* if two calls for it went through the awaits between the check of the key and
\* its insertion at the same time (the check and the add are not atomic).
OneTaskPerKeyUnlessRaced ==
    \A c \in Pending : target[c] \notin raced =>
        /\ target[c] \in inlineQueuedKeys
        /\ \A d \in Pending \ {c} : target[d] # target[c]

\* A score is withdrawn only by the watchdog, by a new trigger or by a run that
\* processes the image again: the failure handler of a task that timed out,
\* which runs beside the run it gave up on, never turns it into a failure.
ScoreOutlivesTimeout ==
    [][\A i \in Images :
          media[i] = "AI_COMPLETED" /\ media'[i] = "AI_FAILED"
              => \E c \in watchdog.marking : target[c] = i]_vars

\* Every task that enters the queue leaves its slot again, although the run may
\* never return: the timer frees it, and the tasks before it free theirs.
EveryTaskLeaves == \A c \in Calls : c \in Waiting ~> c \notin Pending

\* The comment at the head of the fallback branch (analysis.queue.js:566): "run
\* in in-process queue with bounded concurrency". It does not hold of the runs:
\* a task that timed out gives its slot to the next one and runs on.
BoundedConcurrency == Cardinality(Executing) <= Concurrency

=============================================================================
