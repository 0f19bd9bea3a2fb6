# TLA+ models of the sanitation backend

The repository is an Express/Sequelize backend. Workers inspect public toilets
and upload photographs, an AI scores the photographs, citizens complain,
complaints become tasks, sensors report. One Node process serves requests and,
in the default configuration, also runs the analysis queue and the periodic
sweeps; PostgreSQL, Redis (optional), the object store and the AI provider are
outside. The code is single-threaded, but every `await` is a point where another
request, callback or sweep may run, two processes may share the database, and a
process may die at any of them. These models are about what can then go wrong.

Paths below are those of the repository; the server lives in `src/`.

## 1. Inventory

| Component | State | Operations | Talks to |
|---|---|---|---|
| Analysis queue, in-process (`analysis.queue.js`) | `inlineQueue`, `inlineQueuedKeys`, `inlineActiveCount`; rows of `AiProcessingJob` | enqueue, drain, run with a timeout, fail | analysis run, image rows |
| Analysis queue, BullMQ (same file, `workers/`) | the jobs in Redis; the same rows | add, attempt, retry, `failed` event | queue manager, analysis run |
| Analysis run (`analysis.service.js`) | `AiProcessingJob`, `InspectionMedia.ai_status`, results | claim the row, score each image, finish | AI provider, evidence rollup |
| Watchdog (`analysisJobWatchdog.service.js`) | none of its own | scan expired leases, requeue or give up | queue, image rows |
| Evidence (`inspectionEvidence.service.js`) | image rows, totals and statuses of the inspection and its toilet | trigger, requeue, recompute totals | queue, toilets |
| Inspections (`inspection.service.js`) | inspections, submissions | create, submit, review, reopen | queue, tasks, toilets |
| Upload (`inspectionUpload.service.js`, `imageSessionReconciler.service.js`) | upload sessions, image rows | open session, confirm, retry, reconcile | object store, queue |
| Idempotency (`idempotency.middleware.js`) | key records with a lock lease | look up, lock, replay, store | every handler it wraps |
| Complaints, critical automation, worker assignment | complaints, the active task of a critical complaint | create, assign, resolve, dispatch | tasks, notifications |
| Tasks, reminders | tasks, assignment and reminder logs | accept, start, complete, reassign, remind | notifications |
| Backups | backup jobs, schedules, files | run, sweep, retain, reconcile | `pg_dump`, disk |
| Authentication, users | users, login sessions, one-time tokens | login, refresh, logout, reset, change of the temporary password, administrators' changes | every request |
| Import of workers | import jobs and their rows, users | validate a file, confirm a job | notifications |
| Sensors, alerts | devices, readings, alerts | register, attach, replace, detach; ingest, sweep; acknowledge, resolve | live updates |
| Notifications | notification rows, preferences, push tokens | create once per key, deliver, register a device | FCM |
| Public API | keys, counters in Redis, usage logs and daily summaries | check, limit, log, summarise; a super admin's orders | Redis |
| Geography master | batches, staged rows, the hierarchy | stage, import by pages, retire, delete | - |
| Platform: facilities and toilets | facilities, blocks, toilets, their QR codes | create and change; replace a code; deactivate, reactivate, delete | inspections |
| Quotas and limits | usage snapshots, notification marks | audit, notify, reset | notifications |
| Access control (`core/rbac`) | none | pure functions of role and location | every request |
| Live updates (`core/live`) | the open sockets | broadcast to a scope | - |
| Supervisor, dashboard, reports, super admin, audit | tables | create, read, update, delete | - |

What is hard in it:

- **Read, await, write.** Almost no handler locks what it reads. A row is read,
  something is awaited, and the row is written from the earlier value.
- **Check, then insert.** Several "once only" rules are a look-up followed by an
  insert; only some have a unique index behind them.
- **Work that outlives its owner.** A timeout does not cancel an analysis run, a
  lapsed lease does not stop its holder.
- **Two stores.** The BullMQ job and its database row, and the stored object and
  its image row, change one after the other; the process may die in between.
- **Retries.** BullMQ, the watchdog, the routes and the app all start the
  same analysis again.

What makes each component correct is listed with the hazards of `PROJECT.json`,
each at the line where it bites.

## 2. Modules

All modules follow one convention. A handler is split into one action per
stretch between two awaits, since nothing else can run inside a stretch; an
action carries the name of the function or of the step, and the place a handler
has reached (`at`, `call`, `slot`, `run`, ...) is part of the state, with what
the handler has read and still uses. Rows of the database are variables that a
crash leaves alone; module variables of the Node process are reset by it.
Logging, events, audit records and the wording of answers are left out. An
operator marked *Mutant* is a plausible mistake in the definition that follows
it; no specification uses it, and it serves to show that the property aimed at
that mistake can fail.

| Module | Models | Composed with |
|---|---|---|
| `AnalysisInline` | the in-process queue: `enqueueInspectionAnalysis` without Redis, `drainInlineQueue`, `runInlineTask`, `markInlineJobFailure`, the run, the watchdog's dead letters | `AnalysisInlineProofs`, `MCAnalysisInline` |
| `AnalysisWorker` | the BullMQ queue: calls, the job of an image, attempts, stalls, the `failed` handler, the run, the watchdog | `MCAnalysisWorker`, `AnalysisWorkerProofs` |
| `Sequelize` | what `instance.update` writes | `AnalysisWorker`, and most of those below |
| `ImageUpload` | one image: `createUploadSessions`, `confirmUpload`, `retryUploadSession`, the session reconciler, the analysis seen from the row | `MCStorage`, `StorageProofs` |
| `BackupJobs` | backup jobs: run, upload, verification, pruning, clean-up, failure by age | `MCStorage`, `StorageProofs` |
| `BackupSchedules`, `DailyRuns` | the schedules of backups, and what they promise | `MCSchedules`, `ScheduleProofs` |
| `ComplaintTasks` | a complaint and its tasks: the handlers of both, the automation that creates a task, the reminder sweep | `ComplaintTasksProofs` |
| `Idempotency` | `withIdempotency` and the record that the requests of one key share | `Submissions`, `RequestsProofs` |
| `Submissions` | `submitInspection` as the handler behind that middleware | `MCRequests`, `RequestsProofs` |
| `WorkerImport`, `SensorMapping`, `Notifications`, `FacilityQr`, `ToiletUnits` | the services of these names | `MCRequests`, `RequestsProofs` |
| `AreaHierarchy` | the areas of a tenant and the facilities mapped to them: create, change, remove | `MCRequests`, `RequestsProofs` |
| `InspectionRollup` | the status of one inspection: every handler that writes it, and the rollup | `MCServices`, `InspectionRollupProofs` |
| `Access`, `ApiKeys`, `SensorAlerts`, `GeographyImport` | the services of these names | `MCServices`, `ServicesProofs` |

`MCStorage`, `MCRequests`, `MCServices`, `MCSchedules` and `MCAnalysisWorker` are made of
*parts*: a variable `part`, chosen at the start, says which module runs. No row
is written by two modules of one of them, so that nothing is lost by running
them one at a time; the product would only multiply states. In the parts that
do not run, what a module leaves open at the start is fixed. A module that is
taken in by `INSTANCE` states what it asks of its constants in a definition
(`QrAssumption`, ...), which the module that hosts it assumes.

### AnalysisInline

`inlineQueue`, `inlineQueuedKeys` and `inlineActiveCount` are the three module
variables of `analysis.queue.js`. A call of `enqueueInspectionAnalysis` names
the task, the job row and the run it leads to, so `slot`, `run`, `failure` and
`job` are indexed by calls. `slot` is the `runInlineTask` of a task (`racing`
the run against the timer, then `failing`); `run` is `runInspectionAnalysis`,
which goes on when the timer has won. A row's age is 0 inside the dedup window,
1 past it, 2 past the stale cutoff and the lease. A provider error is a fallback
score (`alwaysScoreOnFailure`), so only database calls throw. This path writes
one attempt per row, so the watchdog never requeues a row of it. The search for an
earlier row of the image is two queries and an update, which closes a row that has
grown stale (`staleRow` is what the second query found); the row is closed from what that
query found, whatever has become of it.

### AnalysisWorker

One image. Its BullMQ job has the image's deterministic id, and every call
inserts a row of its own under that id, of which runs and handlers take the
newest. BullMQ is external and modelled from how the code uses it: `add` of a
known id does nothing, a failed attempt is retried until the attempts are spent,
a job whose worker is gone is picked up once more and failed the second time,
failed jobs are kept, completed ones trimmed. `bull.granted` is history, the attempts that
all the jobs added for the image have been given: when a completed job has been trimmed
and is added again, its run may find the row of the job before it, for `add` comes before
the insert, and goes on counting there. What a run and a failure handler write to a row is
`Updated`, over what they have read of it (`Reading`): a handler that read a row as
running writes nothing to a field that another has changed since, unless its own value
differs from the one it read. The search for an earlier row is in three steps here too.

### Idempotency

The requests that carry one key in one scope. `now` is the time a request came
in, the only one it compares with; `seen` is what it keeps of the record it has
read. The handler is one action; whether its answer is one to keep is an input.

### Submissions

Extends `Idempotency`: the middleware's handler is `submitInspection`, in the
five stretches between its awaits, and there are requests without a key beside
those that share one. It looks for a submission by the client's id if the body
has one, else by the key; then it marks the inspection, inserts the submission,
queues the analysis and raises an alert. `OneSubmission` says what the two
layers, neither of which is fenced, give together. Worth knowing: an answer of
the kind 4xx is stored and replayed for the whole time to live; after a crash
between the insert and the alert the same request is answered as one that was
done, and no alert comes.

### Sequelize

`Saved(row, read, values)`: the ORM writes the values that differ from what the
instance holds and no others. Many handlers pass a field back as they read it
(`submitted_at: inspection.submitted_at || ...`), and that such a write changes
nothing, although the row has, is what several properties rest on.

### ImageUpload

The object in the store, the two rows of an image (`InspectionMedia`,
`ImageSession`), the calls of the app, one sweep of the reconciler at a time (a
module flag guards it in the code) and the analysis as far as it shows in the
image row. `overlapped` remembers that two handlers were at work at once or that
one broke off between its two writes.

### BackupJobs

Each job runs from its own reading of its row, and `instance.update` writes the
metadata as that reading has them, over what others have set since. A job that
has uploaded and verified its archive completes, and then deletes the archives of
the jobs that completed before it, one by one, each marked after its deletion.
A process may end and a call may fail between any two of these. The catch around the
pruning of one archive (`backup.service.js:1194`) swallows a failed deletion and a failed
update of the row alike and goes on to the next archive; an error of the clean-up ends
the clean-up. The time of completion is taken before the update that stores it, and two
jobs may complete in one millisecond.

Three histories say when a row may offer an archive that is gone, or no archive is left.
`presumed` remembers that a job was failed for its age although it lived. `unmarked` are
the jobs whose archive a pruning job has deleted, or may have, without the row saying so:
the process ended after the deletion, the update of the row failed, or the store deleted
it and the answer was lost. Nothing comes back to such a row until its retention has run out.
`overlapped` (`together` in `MCStorage`) remembers that two jobs completed while one
of them was still pruning: the summary which the first writes then undoes the mark
that the second has set.

### BackupSchedules and DailyRuns

`DailyRuns` is the promise: a clock, the occurrence each schedule is armed for,
and what is taken: when it is due, in order, once. `BackupSchedules` has the
servers that sweep and may crash, the requests to the cron endpoint, an
operator's edit or the change of a time zone in a profile, and the
reconciliation that every start runs. `RunsAreDaily` is `Daily!Spec` under the
mapping of `next_run_at` to `armed`: every step of the servers is a step of the
promise or none. Two exceptions, which `DailyRuns` therefore grants. What was
due already when it was armed may be given up, by a second reconciliation before
any sweep has claimed it. And after an edit a schedule may be armed from a reading
that is no longer current, for a time that is not its own: `enabled` and
`next_run_at` are computed from the row as it was read, so that of two edits that
cross the later one leaves the other's time of day beside its own `next_run_at`. The
proof found this one, as a step for which the invariant had no argument; the part
*edits* of `MCSchedules` has the two edits, and the schedule is armed rightly again by
the next claim.

### InspectionRollup

Ten kinds of handler write the status of an inspection. Images are told apart by
the class the rollup puts them in (`Completed`, `InProcess`, `Failed`, the
rest); a scored image that asks for a review is `suspect`. A process is a call,
the analysis of an image, or the handler of its failure; `work` holds its place
and the instance it read. `RollupInspection`, `RollupImages` and `RollupSave`
are the three stretches of `recomputeInspectionAggregates`, with an instance of
its own. Any await of a request or of a failure handler may throw (`Throws`), up to the
last write of its rollup, and a submission may be refused between marking the
inspection and the rollup; `MaxFailures` bounds these. `order` and `owed` are
histories, for the statement of the property only: which rollups have read and not
yet written, and whether the status is left to a later rollup. The code leaves it so

- where no rollup follows a change: a CSV attachment
  (`inspection.service.js:1900`), a review (`:2442`), an upload retried
  (`inspectionUpload.service.js:941`), a session given up
  (`imageSessionReconciler.service.js:72`), an image queued when the queue turns
  its run away (`inspectionEvidence.service.js:1917`,
  `imageSessionReconciler.service.js:188`), a run that throws after its time was
  over;
- where what should have been followed by a rollup does not get to it: a submission
  marks the inspection (`inspection.service.js:2305`), and the insert of its row
  (`:2313`) is refused by the unique index, or anything up to the recompute (`:2408`)
  throws, so that the status rests at `SUBMITTED` whatever the images say; and so
  every other request or failure handler that throws after its first write;
- where a rollup does not write: its status equals the one it read, while
  another handler has changed the row since;
- where a rollup that read earlier writes later.

Each of these was found by taking it away from the property and looking at the
counterexample; with all of them in place the property holds. The next rollup of
the inspection makes up for any of them. What a rollup does to the rows before it counts
them is left out: rows of one image are merged, and a placeholder with nothing to
show is dropped when another image of its stage has something.

### ComplaintTasks

The rows of complaints and tasks, and the assignment and reminder logs reduced
to whom they name and how often. A request is one HTTP call: the handlers of
`task.service.js` are `LoadTask` and one save each, those of
`complaint.service.js` `LoadComplaint` and one save, and creating or updating a
complaint goes on to `handleComplaintCriticality`, with a step per query. The
transaction is `BeginTransaction` (its search) and `Commit`; PostgreSQL makes
two inserts under the index wait for each other, so the second is refused.
`IndexAllows` is that index, and every save of a task passes it. `disturbed`
remembers the tasks that were saved from a reading no longer current, or whose
handler broke off before its log entry. A complaint that is resolved between the
reading and the commit is assigned again; the model has these steps, and no
property says otherwise because nothing in the repository does. The sweep stands
for one of its five reminders, the escalation of what is overdue; the others
look up, send and log in the same way. Its limit of 250 tasks is not modelled, nor is a
task whose escalation finds no supervisor: that is logged as skipped
(`reminder.service.js:110`) and tried again at each sweep for as long as nobody is named
one, so that `EventuallyEscalated` is about tasks that have one.

### Access

One account and its sessions. A token is told apart by the second it was signed
in, for that is all that changes in it: within one second a session is given the
same token again. What a handler has read of the account is `seen`, and every
save is `Saved` over it. Three exceptions are in the statements because the code
makes them: two refreshes of one session under way together may both succeed; a
login that found the account locked, or a change of password that passed
`protect` before, makes an account active that was made inactive since. `SessionsStayEnded`
asks about the direct step from inactive to active, and there is another way: wrong
passwords lock an inactive account as any other (`auth.service.js:398-412`), and the
right one, once the lock is over, makes a locked account active. The model has these steps; the property
does not speak of them.

### ApiKeys

A request that brings the key is checked, limited, carried out and, after its
answer, logged; then the day's summary is counted from the logs, found or created
and overwritten. The limit is counted in Redis until Redis fails the process, and
from the logs afterwards, until a restart. `RateLimitHeld` says how far the limit may
be passed: by what was in progress together and by what was never logged. There is one
process, hence one cache; a revocation that an order writes back from a reading taken before
it, and changes of the limit itself, are outside what is counted.

### SensorAlerts and SensorMapping

`SensorAlerts` is the readings of one device against one bound, the sweep for
silent devices, and what operators do to the alerts. A resolved alert can be
acknowledged, which opens it again; the next reading closes or uses it.
`SensorMapping` is which device is in which toilet. There is no index on the
toilet; two requests about one toilet that overlap can leave two active sensors in
it, and a replacement takes out one of them only. `crossed` collects the devices
and toilets for which two requests were under way together, and the toilet a device
comes to when it is one of those: an operator who moves a device knows of the sensor
to displace in the toilet, not of who made the device active there meanwhile.
`OneSensorAToilet` is therefore about requests that do not cross; the race itself is
listed among the hazards as one that no property excludes, because the code has it.

### GeographyImport

An operator's commands on the versions of one source: stage a file, import it
level by level in pages of one transaction, retire what it does not list, delete.
A command may fail or die between any two writes. `torn` are the versions whose
staging died: nothing tells a batch staged in part from a whole one, and the
import completes it. `dropped` are, for each version, the codes retired or deleted
since that version last processed them: a code that another version has retired is
no longer active although an earlier version had processed it. A row is written as
active as its source says it is (`Activity`): the LGD adapter marks what is listed as
inactive (`lgd.adapter.js:58,77`), and the import keeps that (`import.service.js:229`).
So `dropped` also has the codes that another version has meanwhile written with the
other activity. LGD lists no country; its states take the active row of India as their
parent, which is taken to be there. LGD rows that match several rows of other sources
and are set aside as ambiguous are left out.

### WorkerImport

A file becomes a job and, in a second call, its rows; a confirmation locks the job
and makes the accounts in one transaction. Inserts of one employee code wait for
each other under the unique index. An error of the database aborts the
transaction, so that what the code means by *valid rows only* - a row that fails
is marked and the others go on - happens only when the notification of a new
account fails: its row is FAILED, and its account is committed with the rest.
What was announced survives a rollback. A job that is confirmed before its rows
are stored is completed with none (`early`).

### Notifications

One event, told by several publishers under one key. `lookedUp` remembers that two
had looked before either wrote, which the search cannot prevent. Tokens move: the
same device is registered by the next user, and a push to a token that was read
before goes to whoever holds the device (`moved`). Any failure of a push is left to
the publisher. What `ToldOnce` says of stray pushes is little beside the rest of it: only
a device that did not change hands while a push was under way gets none of another user's.
A key is stored cut to 220 characters (`notification.service.js:866`) and looked for
whole (`:796`); the keys the code makes, of one or two ids and a few words, are shorter,
and one that comes with a request is cut first (`:1795`), so the difference is left out.

### FacilityQr

The codes of one facility: created with it, replaced by administrators, and the
image file that shows one of them, drawn anew by every download. A replacement that
dies between retiring and issuing leaves the facility without a code, and the
endpoint that would issue one answers that there is none to replace (`lacking`);
crossing replacements may draw their images in either order (`undrawn`), which the
next download repairs. Viewing and printing hand out the image without drawing it.

### ToiletUnits

Administrators deactivate, reactivate and delete; the rollup of any inspection of
the toilet writes a status of its scores. Handlers of inspections ask for the
deletion and the status (`Available`), not for `deactivated_at`, so that a rollup
opens a deactivated toilet again: the finding of the run `toilet_reopened`. A
reactivation that crosses a deletion may leave a deleted toilet that is not marked
deactivated. The status of the facility is left out.

### AreaHierarchy

Zones, wards and clusters beneath an official city, and the columns of the facilities
that are mapped to them. A request reads and asks in one step and writes in another:
`request` keeps the row it has read and the one it will write; a removal has its
counts between. The city's administrator is held to what is in scope, a super
administrator is not. The handlers check the level of an area against its parent's,
never against its children's, and a change of `isActive` counts nothing: an area that
was given another level can come to lie beneath its own child (`relevelled`), and one
can be made inactive over what is in it, which only a removal refuses. What is hung
beneath an area between the counts and the update of its removal stays there
(`hung`), as does what a super administrator hangs there at any time, without being
asked whether the area is active. `Above` is the walk from parent to parent, as the
least set of areas that is closed under it; a walk that goes round ends, as in the
code, where it has been. Names, codes and boundaries are left out.

## 3. Runs

| Run | Instance | Shows |
|---|---|---|
| `inline_pool` | 3 calls, 2 images, one slot, one place in the queue, one restart | the counter is the number of tasks that hold a slot and within bounds, none waits beside a free slot, no key outlives its task, two tasks of one key only if two calls passed the key check together |
| `inline_stale` | 2 calls, one image and the whole inspection, rows that grow stale | the failure handler of a timed-out task never takes a score back; every queued task leaves the pool |
| `inline_overrun` | 2 calls, one slot | *violation*: runs exceed the configured concurrency |
| `worker` | *budget*: the confirmation of an upload and then a reprocess, 2 attempts, a crash, late handlers, a job trimmed and added again; *settle*: one call, 3 attempts, prompt handlers, no faults; *watch*: 2 attempts, a crash, stale rows, the watchdog | no more attempts than the jobs added were given, plus one per crash; a job given up is recorded; a waiting job leaves its image scored or failed for good; a running row is closed in the end |
| `worker_requeue` | no crash, stale rows | *violation*: the watchdog's requeue is answered as a duplicate of the row it has just touched |
| `worker_stalled` | 4 attempts, 2 crashes | *violation*: a job that stalled twice is failed while its image is left queued for a retry |
| `storage` | *images*: 3 calls of any kind, 2 reconciler attempts, a handler that breaks off; *backups*: 2 jobs, the clean-up, 2 faults | what is analysed is stored, reissues are bounded, the two rows agree unless handlers overlapped; an archive is left to restore from, what is offered is stored unless a deletion was not recorded; no session and no job stays open |
| `schedules` | *endpoint*: a server that may crash twice, a request to the cron endpoint, an edit, over two days; *edits*: a server that may crash once, two edits that may cross | the schedule implements `DailyRuns`; what is due is claimed |
| `tasks` | one complaint, 2 tasks in turn, 3 requests of any kind, 2 sweeps that may come together, one failure | one active task, the status fits the assignee, the log names the holder, a finished task stays finished unless handlers overlapped; what is overdue is escalated, and once |
| `requests` | 2 requests with a key and one without, 2 bodies, a clock that passes the lease and the time to live; 2 files, 2 codes and 2 confirmations; 3 sensors, 2 toilets and 2 operators; 2 publishers, 2 recipients, one device; 2 administrators and 4 codes; 2 who deal with a toilet; 2 who deal with 2 areas and a facility | a replay answers the same body, one handler per key until the key is open again, one submission; an import is done once and whole; one sensor to a toilet; one notification to a recipient; one code in force; a closed toilet is closed until a rollup; areas nest, and a removed one is empty |
| `toilet_reopened` | 2 requests or rollups at a time | *violation*: a deactivated toilet is open to inspections after a rollup |
| `services` | an image before and one after, in any state at rest, 2 overlapping calls and 2 runs, or two of these and a failure; 2 requests to an account, 4 in all; 2 requests with a key of one a day, 2 orders; 2 handlers and 3 readings; 2 versions of a source, a country and two states, 5 commands | the status at rest follows from the images, but for what the code leaves to the next rollup, a submission is never taken back; a refresh token is used once, ended sessions stay ended; the limit and revocation of a key hold, the summary is what the logs say; alerts follow readings; imports are whole, what a completed one retires is what it does not list, and what it lists is active or not as it says |

The four violations are listed under `findings`, with the line of the
repository that says otherwise.

**Bounds.** Each bound is a constant of its module and given in the `.cfg`.
Races in this code are between two handlers of one row, so two overlapping calls
and one sweep or run show them; the pool has a third call because it takes one
to hold the slot, one to wait and one to be turned away, `tasks` a third
request because one creates a task, one finishes it and one comes after, and the
bounds on requests in all (`MaxCalls`, `MaxOperations`, `MaxVisits`, ...) exceed
those on requests together, so that what a race leaves behind is met
by requests that run alone. Two images are enough to tell a key from another and,
in the rollup, to have one before and one after. A row's age has the three values
the code distinguishes. The lease of a key is 1, its time to live 2 and the clock
2: a request can outlive its lease and find its answer expired; that the
properties hold for any lease and any number of requests is proved. Schedules
have one server and one request to the endpoint, which are two sweeps; the state
of a server is whether it sweeps, so that a second one would repeat the second
sweep. Requests are interchangeable where a run declares symmetry; so are an image
before and one after in `services`, because `ReviewRequired` asks for one of
each, whichever is which. Runs with liveness properties declare none.
`Bounded` in `MCServices` limits calls, runs and failures of the inspection
together; `MaxEvents` does so in `ApiKeys`. Deadlock is not checked: all these
systems come to rest when the bounded calls are used up.

**Fairness.** Liveness is claimed under weak fairness of what the platform does
by itself: a timer fires, a settled promise's callbacks run, BullMQ hands out
waiting jobs and notices stalled ones, the interval of a sweep comes round, a
database call made by a handler is answered or rejected. Nothing is assumed of
the AI provider in `AnalysisInline` (`EveryTaskLeaves` holds because the timer
fires, not because the run ends), of the app in `ImageUpload` (that sessions
settle rests on the reconciler alone), of operators or of requests to an endpoint,
nor that a database call succeeds. In `AnalysisWorker` a run ends or throws; there
is no timeout on that path, and without it a hanging provider does keep a row
running until its lease is over. `PromptHandler` says that a `failed` handler, a
few database calls, is through before the backoff (seconds) has passed;
`SettlesForGood` needs it, since the handler updates the image without a
condition. In `BackupSchedules` a server that is down comes up again, sweeps, and
goes on with what it has begun; in `BackupJobs` a job's process goes on unless it
died, and somebody looks for jobs without a heartbeat.

## 4. Proofs

| Module | Theorems | Argument |
|---|---|---|
| `AnalysisInlineProofs` | `TypeOK`, `SlotsAccounted`, `NoWaitForAFreeSlot`, `NoStrandedKey`, for any number of calls, images, slots and places | `IInv` is their conjunction with `PoolShape`: the queue has no repetitions, a task in the queue holds no slot, and a task in the pool is past its call. Without it, `drainInlineQueue` could be thought to start a task that is running already, and the count of `Active` would not follow the counter. A lemma says that one call of `drainInlineQueue` starts nothing or exactly the head of the queue, since it runs only when one task is added or ends |
| | `OneTaskPerKeyUnlessRaced` | `Alone`, on top of `IInv`: of the calls that are past the key check without having raced, and the tasks that hold the key, there is one to a key |
| | `ScoreOutlivesTimeout` | from the types alone: the guard of `FailMedia` |
| `ComplaintTasksProofs` | `TypeOK`, `OneActiveTask`, `StatusNamesWorker`, `FinishedStays`, for any complaints, tasks, workers, requests and sweeps | `StepKinds`: a step leaves the tasks alone, creates one, saves one that was read, or marks one. Each changes one row, the index agrees with the search on what is active, and a save on a reading that is still good writes what its handler's guard allows |
| | `AssignmentLogged` | `Accounted`: whoever holds a task is in its log or about to be entered by a named request. The property does not say by which |
| | `EscalatedOnce` | `OneSweep`: one sweep at work, `reminderRunning` says so, and what it is about to send is not in the log |
| `InspectionRollupProofs` | `TypeOK`, `SubmittedForGood`, for any images and overlapping handlers | a lemma about `Saved` says that a field passed back as it was read is not written; every handler's `submitted_at` is the one its instance holds or true |
| | `StatusFollowsImages`, for any images and overlapping handlers | `RollupInv`: as long as a process stands where a rollup is still to be read (`Owing`), nothing is claimed; otherwise the last rollup that has read is about to write the status that follows from the images as they are (`LastFollows`). Each rollup under way is in the order once, and a call that may leave the rollup to a run names its image |
| `AnalysisWorkerProofs` | `TypeOK`, `AttemptBudget` (`AnalysisWorker`), for any calls, attempts, crashes, failed database calls and handlers, late or not | `BudgetInv`: a row holds at most what the jobs have `Used`, by BullMQ's count, one more per crash and one more while a run is past its claim, which BullMQ counts when that run throws; a run about to claim has read no more than that without its own attempt, a handler brings no more than was used; and an active job has attempts to spare (`JobInOrder`). One lemma says that the sum never shrinks (`UseGrows`) |
| | `GivenUpIsTold`, in the part with one call and no faults, for any number of attempts | `SettleInv`: nobody comes between the caller, its one row, the job and its handlers (`Lone`), at most one handler is at work and has the row as it is (`ReadingHolds`), a handler speaks for the last attempt while no other is made (`HandlersFollow`), and a running row has its run or a handler that will get to it (`RunningIsOwned`). A lemma takes the steps of the part to steps of the queue without the faults it excludes |
| `RequestsProofs` | `TypeOK`, `ReplayAnswersSameBody`, for any requests, payloads, lease and time to live | `Agreement`: the payload of every admitted request, and of every request past its comparison, is the record's, and only an admitted request's answer is stored. It is stronger than the property, which looks at replayed requests only |
| | `OneHandlerUntilReopened` | `Closed`, which holds until the key is reopened: nobody has seen the record open, every open request is within its lease, and one request `Owns` the record, by its answer or by its running lock |
| | `OneCodeInForce` (`FacilityQr`) | `QrInv`: codes are issued in order and the newest is in force; without one, somebody is about to issue it, unless the code is `lacking`; what is to be drawn resolves as long as the image can be trusted |
| | `ClosedUnlessRolledUp` (`ToiletUnits`) | `ToiletInv`: what a visitor has read is the row, in the columns it goes on to write, as long as it has not crossed another |
| | `ToldOnce` (`Notifications`) | `NoticeInv`: a row or one publisher about to write it, for each recipient; a registration writes on the token as it is unless it `raced` |
| | `OneSensorAToilet` (`SensorMapping`) | `MappingInv`: whoever is about to attach has found the toilet empty or displaces what is in it. It holds only with the exception for a device that was moved after it had crossed others, which the proof attempt asked for and TLC then showed |
| | `ImportIsWhole` (`WorkerImport`) | `ImportInv`: a confirmed job's counts are those of its rows, and each imported row has its account |
| | `OneSubmission` (`Submissions`) | `SubmissionInv`, with the `Agreement` and `Closed` of the middleware: unless two requests passed the look-up together, one is between look-up and insert, and nobody with the key has a row before |
| | `AreasHold`: `AreasNest` and `RemovedAreEmpty` (`AreaHierarchy`) | `NestInv`: each area lies lower than its parent, but where its level was changed; by the least-set definition of `Above`, a walk that never meets such an area is a descent of levels. `Emptied`: what is about to be removed is empty, but for what was `hung` |
| `StorageProofs` | `AnalysedMeansStored`, `ReissuesBounded`, `RowsAgree` (`ImageUpload`), for any calls and attempts | `UploadInv`: nobody goes on as if the object were stored before it is (`NotBeforeStored`); the count of reissues is the session's, which the one visit of the reconciler has as it is (`AttemptsCounted`); and while no two handlers overlap, the rows differ exactly by what the one at work has still to write (`Alone`) |
| | `ArchivesAreKept` (`BackupJobs`), for any jobs | `JobsInv`: what a pruning job has listed completed before it, the job itself has its archive, the last to complete is on nobody's list, and a row that offers an archive which is gone is among the `unmarked` or being pruned |
| `ServicesProofs` | `RefreshOnce`, `SessionsStayEnded` (`Access`) | `TokensInOrder`: a token that was exchanged is older than the one its session has, and `RefreshInv`: unless they raced, one refresh of a session is between its read and its save |
| | `KeysHold` (`ApiKeys`), for any limit | `KeyFacts`: what was let through is in the counter of Redis, in the logs, lost, or held by a named request. Sets of requests are counted by lemmas about `Cardinality` |
| | `AlertsFollowReadings` (`SensorAlerts`) | `AlertFacts`: the rows are those the last lone handler's reading asks for, and unless one was doubled there is one active row, or one handler about to insert it, for each type |
| | `CompletedIsWhole`, `RetiredAreMissing` (`GeographyImport`), for any codes, levels, files and pages | `GeographyFacts`: the run works level by level (`LevelByLevel`), its staged rows say what the file says (`RowsFollow`), what it has processed is in the hierarchy, active or not as the file says but for what was `dropped` since (`ProcessedStay`), and after the retirement only what is processed is active (`OthersRetired`) |
| `ScheduleProofs` | `RunsAreDaily`: `BackupSchedules` implements `DailyRuns`, for any schedules, servers, requests, edits, crashes and length of a day | `ScheduleFacts`, and a lemma per action that shows the step of `Daily` it maps to. What a sweep has listed counts for nothing by itself: the claim compares `next_run_at` with what was read, so that `Computed` has to say only that what a sweep or an edit is about to write was computed from its own reading, and `Untouched` that until the first edit every row has the configured time |

The theorems rest on the assumptions named in the modules (`ConstantsAssumption`,
and those that the `MC` modules state for the modules they host) and on nothing else.
`LockMs <= TtlMs`, in `Idempotency`, holds of the defaults and of every route's
options. The proofs of `RequestsProofs`, `StorageProofs` and `ServicesProofs`, but for those
about the middleware by itself, are about `MCSpec`, the specification the run checks:
a first lemma of each module (`StepOfParts`) says that a step of the whole is, for
each part, a step of that part or none; what follows is about the part alone. So is
`GivenUpIsTold`, which belongs to one setting (and to `MaxAge < 2`: no row outlives its
lease there). The others are about the `Spec` of the component, for every value of the
constants that a run chooses.

Each inductive invariant was checked by TLC on its run before it was proved.

Model-checked only is liveness (`EveryTaskLeaves`, `SettlesForGood`, `NoRowRunsForever`,
`StorageSettles`, `DueIsClaimed`, `EventuallyEscalated`), which is outside what the proof
system covers. Every invariant and every other action property of a run has its theorem.
`GivenUpIsTold` is a property of its setting: with a second call, a handler late or cut
short, or a crash, the code does not keep it; the run `worker_stalled` shows one way.

Every module states its types as `TypeOK`, the first step of such a proof; only what
the proofs or the runs do not already say is a property of a run.

## 5. Plan

The modules planned at first are built, and those that remain are small. What is
worth doing next, in this order:

1. The assignment of a critical complaint that was resolved since it was read
   (`criticalComplaint.service.js:355`), a hazard that no property covers yet.
2. More of the code: the administration of tenants and users, the supervisor's
   assignments, quotas.

## 6. Not modelled

`PROJECT.json` lists every component with its status and the reason. In short:

- External: the AI provider, object store, Redis, PostgreSQL and the push service
  appear as their answers.
- Contents: scoring arithmetic, the findings of an analysis, alerts' texts, reports,
  dashboards and the supervisor's queries are computed from rows and change none.
- Administration: creating and changing tenants, blocks, toilets, users and
  roles is validation and one write per call; the access rules
  (`core/rbac`) are pure functions of role and location.
- Code nothing reaches: activation tokens are created nowhere; `checkQuota` and
  `triggerThresholdNotification` of the quotas have no caller.
- In components that are modelled: the multipart upload of `media.service.js` (an
  older path that also ends in the rollup), the analysis of a whole submission when
  analysis on upload is switched off, the start and stop of the worker process and
  the latch of the queue manager (`redisSuppressed`), the reminders' limit of 250
  tasks (while so many are overdue and open, later ones are not seen), the load of a
  worker when two complaints are assigned at once
  (`workerAssignment.service.js:193`), the matching of LGD names and the activation
  of geographies for a tenant, preferences, reading and broadcasts of notifications.
