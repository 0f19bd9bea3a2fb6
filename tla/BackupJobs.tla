---------------------------- MODULE BackupJobs -----------------------------
(***************************************************************************)
(* The backups of one scope in a verified object store                     *)
(* (backups/backup.service.js): a job exports, uploads and checks its      *)
(* archive, records it, and deletes the archives of the jobs that          *)
(* completed before it; jobs without a heartbeat are failed by whoever     *)
(* looks, and the retention clean-up deletes old archives.                 *)
(*                                                                         *)
(* Each job is run by a request or a sweep of its own, from its own        *)
(* reading of the row: instance.update writes the metadata as the reading  *)
(* has it, whatever others have since written there. Of the metadata the   *)
(* model keeps whether they say that the archive has been deleted          *)
(* (cleanedUpAt), which no process knows of its own job, and whether the   *)
(* last heartbeat is older than staleActiveJobMs. Only the order of the    *)
(* times of completion is kept; a row has such a time when it says         *)
(* success, nobody asks for it before.                                     *)
(***************************************************************************)
EXTENDS Naturals, FiniteSets

CONSTANTS
    Jobs,       \* the jobs there can be
    MaxFaults   \* bound on processes that end, calls that fail and heartbeats that are late

JobsAssumption == IsFiniteSet(Jobs) /\ MaxFaults \in Nat

VARIABLES
    job,        \* the BackupJob rows
    runner,     \* where the process of each job is
    stored,     \* the jobs whose archive is in the store
    prune,      \* what each runner has listed to delete, and what it is deleting
    watch,      \* failStaleActiveBackupJobs: the jobs listed and not yet failed
    cleanup,    \* cleanupExpiredBackups: the jobs past their retention, and what it is deleting
    faults,     \* how many so far
    expired,    \* history: the retention clean-up has deleted an archive
    presumed,   \* history: a job was failed while its process lived or when it had succeeded
    unmarked,   \* history: jobs of which a deletion by pruning was not recorded
    overlapped  \* history: a job completed while another was between completion and its end

vars == <<job, runner, stored, prune, watch, cleanup, faults, expired, presumed, unmarked, overlapped>>

-----------------------------------------------------------------------------
Statuses == {"none", "queued", "running", "success", "failed"}
Places == {"idle", "start", "export", "verify", "finish", "record", "list", "prune", "fail", "done", "dead"}
Active == {"queued", "running"}
NoList == [rest |-> {}, now |-> {}]

\* createDownloadUrl: the jobs whose row offers an archive.
Offered == {j \in Jobs : job[j].status = "success" /\ ~job[j].cleaned}

\* Between the update to success and the last write to the row.
Completing == {j \in Jobs : runner[j] \in {"record", "list", "prune"}}

\* The last time at which an archive was complete, if there is one, and the next: two may
\* be so in one millisecond.
Latest ==
    {at \in {1} \cup UNION {{job[k].completed, job[k].completed + 1} : k \in Jobs} :
        at # 0 /\ \A k \in Jobs : job[k].completed <= at}

Init ==
    /\ job = [j \in Jobs |-> [status |-> "none", cleaned |-> FALSE, completed |-> 0, quiet |-> FALSE]]
    /\ runner = [j \in Jobs |-> "idle"]
    /\ stored = {}
    /\ prune = [j \in Jobs |-> NoList]
    /\ watch = {}
    /\ cleanup = NoList
    /\ faults = 0
    /\ expired = FALSE
    /\ presumed = FALSE
    /\ unmarked = {}
    /\ overlapped = FALSE

Goes(j, from, to) == runner[j] = from /\ runner' = [runner EXCEPT ![j] = to]
Fault == faults < MaxFaults /\ faults' = faults + 1

-----------------------------------------------------------------------------
(* A job.                                                                  *)

\* createAndRunJob: by hand, as a retry, or for a schedule that was claimed.
createAndRunJob(j) ==
    /\ Goes(j, "idle", "start")
    /\ job' = [job EXCEPT ![j].status = "queued"]
    /\ UNCHANGED <<stored, prune, watch, cleanup, faults, expired, presumed, unmarked, overlapped>>

\* runBackupJob, which does not ask whether the job has been failed meanwhile.
StartJob(j) ==
    /\ Goes(j, "start", "export")
    /\ job' = [job EXCEPT ![j].status = "running", ![j].quiet = FALSE]
    /\ UNCHANGED <<stored, prune, watch, cleanup, faults, expired, presumed, unmarked, overlapped>>

\* A heartbeat with the progress; the status is not written.
persistProgress(j) ==
    /\ runner[j] = "export"
    /\ job[j].quiet
    /\ job' = [job EXCEPT ![j].quiet = FALSE]
    /\ UNCHANGED <<runner, stored, prune, watch, cleanup, faults, expired, presumed, unmarked, overlapped>>

Upload(j) ==
    /\ Goes(j, "export", "verify")
    /\ stored' = stored \cup {j}
    /\ UNCHANGED <<job, prune, watch, cleanup, faults, expired, presumed, unmarked, overlapped>>

\* Mutant: an archive that did not pass is deleted, and the job goes on.
VerifyUpload_GoesOn(j) ==
    /\ Goes(j, "verify", "finish")
    /\ \E at \in Latest : job' = [job EXCEPT ![j].completed = at]
    /\ \/ UNCHANGED <<stored, faults>>
       \/ Fault /\ stored' \in {stored, stored \ {j}}
    /\ UNCHANGED <<prune, watch, cleanup, expired, presumed, unmarked, overlapped>>

\* The length and checksum the store has are those that were sent, and completedAt is taken,
\* which the row has when it says success; or the archive is deleted, which may fail too,
\* and the job fails.
VerifyUpload(j) ==
    /\ \/ /\ Goes(j, "verify", "finish")
          /\ \E at \in Latest : job' = [job EXCEPT ![j].completed = at]
          /\ UNCHANGED <<stored, faults>>
       \/ Goes(j, "verify", "fail") /\ Fault /\ stored' \in {stored, stored \ {j}} /\ UNCHANGED job
    /\ UNCHANGED <<prune, watch, cleanup, expired, presumed, unmarked, overlapped>>

\* The job succeeds, whatever its row has become.
FinishJob(j) ==
    /\ Goes(j, "finish", "record")
    /\ job' = [job EXCEPT ![j].status = "success", ![j].cleaned = FALSE, ![j].quiet = FALSE]
    /\ overlapped' = (overlapped \/ Completing # {})
    /\ UNCHANGED <<stored, prune, watch, cleanup, faults, expired, presumed, unmarked>>

\* BackupFile.create and the audit entry.
RecordFile(j) ==
    /\ Goes(j, "record", "list")
    /\ UNCHANGED <<job, stored, prune, watch, cleanup, faults, expired, presumed, unmarked, overlapped>>

\* An error anywhere before the pruning is caught, also where the job has succeeded.
BreakJob(j) ==
    /\ runner[j] \in {"export", "finish", "record"}
    /\ Goes(j, runner[j], "fail")
    /\ Fault
    /\ UNCHANGED <<job, stored, prune, watch, cleanup, expired, presumed, unmarked, overlapped>>

FailJob(j) ==
    /\ Goes(j, "fail", "done")
    /\ job' = [job EXCEPT ![j].status = "failed", ![j].cleaned = FALSE, ![j].quiet = FALSE]
    /\ UNCHANGED <<stored, prune, watch, cleanup, faults, expired, presumed, unmarked, overlapped>>

\* The process of a job ends, or an error is caught by nobody, and nothing of it goes on.
Crash(j) ==
    /\ runner[j] \notin {"idle", "done", "dead"}
    /\ runner' = [runner EXCEPT ![j] = "dead"]
    /\ prune' = [prune EXCEPT ![j] = NoList]
    /\ unmarked' = unmarked \cup prune[j].now
    /\ Fault
    /\ UNCHANGED <<job, stored, watch, cleanup, expired, presumed, overlapped>>

-----------------------------------------------------------------------------
(* Archives are deleted first and their jobs marked after.                 *)

\* prunePreviousBackupArtifacts: the jobs that completed before this one, or none when
\* they cannot be read.
PruneList(j) ==
    /\ Goes(j, "list", "prune")
    /\ \/ /\ prune' = [prune EXCEPT ![j].rest = {p \in Offered \ {j} : job[p].completed < job[j].completed}]
          /\ UNCHANGED faults
       \/ Fault /\ UNCHANGED prune
    /\ UNCHANGED <<job, stored, watch, cleanup, expired, presumed, unmarked, overlapped>>

\* The store deletes the archive and says so, or the call fails, whether it has deleted it
\* or not, and the next is tried.
PruneDelete(j, p) ==
    /\ p \in prune[j].rest
    /\ prune[j].now = {}
    /\ \/ /\ stored' = stored \ {p}
          /\ prune' = [prune EXCEPT ![j] = [rest |-> @.rest \ {p}, now |-> {p}]]
          /\ UNCHANGED <<faults, unmarked>>
       \/ /\ Fault
          /\ prune' = [prune EXCEPT ![j].rest = @ \ {p}]
          /\ \/ UNCHANGED <<stored, unmarked>>
             \/ stored' = stored \ {p} /\ unmarked' = unmarked \cup {p}
    /\ UNCHANGED <<job, runner, watch, cleanup, expired, presumed, overlapped>>

\* The row says that its archive is deleted, or cannot be written: that is logged, and the
\* pruning goes on with the row offering what is no more.
PruneMark(j, p) ==
    /\ p \in prune[j].now
    /\ prune' = [prune EXCEPT ![j].now = {}]
    /\ \/ job' = [job EXCEPT ![p].cleaned = TRUE] /\ UNCHANGED <<faults, unmarked>>
       \/ Fault /\ unmarked' = unmarked \cup {p} /\ UNCHANGED job
    /\ UNCHANGED <<runner, stored, watch, cleanup, expired, presumed, overlapped>>

\* The summary is written with the rest of the metadata as the runner knows them, or not.
PruneSummary(j) ==
    /\ prune[j] = NoList
    /\ Goes(j, "prune", "done")
    /\ \/ job' = [job EXCEPT ![j].cleaned = FALSE] /\ UNCHANGED faults
       \/ Fault /\ UNCHANGED job
    /\ UNCHANGED <<stored, prune, watch, cleanup, expired, presumed, unmarked, overlapped>>

runBackupJob(j) ==
    \/ StartJob(j)
    \/ persistProgress(j)
    \/ Upload(j)
    \/ VerifyUpload(j)
    \/ FinishJob(j)
    \/ RecordFile(j)
    \/ FailJob(j)
    \/ PruneList(j)
    \/ \E p \in Jobs : PruneDelete(j, p) \/ PruneMark(j, p)
    \/ PruneSummary(j)

\* cleanupExpiredBackups, asked for by a super admin: any archives may be of age.
CleanupList(old) ==
    /\ cleanup = NoList
    /\ old # {}
    /\ old \subseteq Offered
    /\ cleanup' = [NoList EXCEPT !.rest = old]
    /\ UNCHANGED <<job, runner, stored, prune, watch, faults, expired, presumed, unmarked, overlapped>>

\* An error of the store, which may have deleted the archive, ends the clean-up.
CleanupDelete(p) ==
    /\ p \in cleanup.rest
    /\ cleanup.now = {}
    /\ \/ /\ stored' = stored \ {p} /\ expired' = TRUE
          /\ cleanup' = [rest |-> cleanup.rest \ {p}, now |-> {p}]
          /\ UNCHANGED faults
       \/ /\ Fault
          /\ cleanup' = NoList
          /\ \/ UNCHANGED <<stored, expired>>
             \/ stored' = stored \ {p} /\ expired' = TRUE
    /\ UNCHANGED <<job, runner, prune, watch, presumed, unmarked, overlapped>>

\* So does an error of the update.
CleanupMark(p) ==
    /\ p \in cleanup.now
    /\ \/ /\ job' = [job EXCEPT ![p].cleaned = TRUE]
          /\ cleanup' = [cleanup EXCEPT !.now = {}]
          /\ UNCHANGED faults
       \/ cleanup' = NoList /\ Fault /\ UNCHANGED job
    /\ UNCHANGED <<runner, stored, prune, watch, expired, presumed, unmarked, overlapped>>

cleanupExpiredBackups ==
    \/ \E old \in SUBSET Jobs : CleanupList(old)
    \/ \E p \in Jobs : CleanupDelete(p) \/ CleanupMark(p)

-----------------------------------------------------------------------------
(* failStaleActiveBackupJobs, called by every sweep and by the pages that  *)
(* show jobs.                                                              *)

\* A job goes without a heartbeat for long: its process is dead, or slow.
GrowQuiet(j) ==
    /\ job[j].status \in Active
    /\ ~job[j].quiet
    /\ job' = [job EXCEPT ![j].quiet = TRUE]
    /\ IF runner[j] = "dead" THEN UNCHANGED faults ELSE Fault
    /\ UNCHANGED <<runner, stored, prune, watch, cleanup, expired, presumed, unmarked, overlapped>>

\* Mutant: queued jobs are left to be started.
WatchList_Running ==
    /\ watch = {}
    /\ watch' = {j \in Jobs : job[j].status = "running" /\ job[j].quiet}
    /\ watch' # {}
    /\ UNCHANGED <<job, runner, stored, prune, cleanup, faults, expired, presumed, unmarked, overlapped>>

WatchList ==
    /\ watch = {}
    /\ watch' = {j \in Jobs : job[j].status \in Active /\ job[j].quiet}
    /\ watch' # {}
    /\ UNCHANGED <<job, runner, stored, prune, cleanup, faults, expired, presumed, unmarked, overlapped>>

\* Failed as it was listed, whatever it has become.
WatchFail(j) ==
    /\ j \in watch
    /\ watch' = watch \ {j}
    /\ job' = [job EXCEPT ![j].status = "failed", ![j].cleaned = FALSE, ![j].quiet = FALSE]
    /\ presumed' = (presumed \/ runner[j] # "dead" \/ job[j].status = "success")
    /\ UNCHANGED <<runner, stored, prune, cleanup, faults, expired, unmarked, overlapped>>

failStaleActiveBackupJobs == WatchList \/ \E j \in Jobs : WatchFail(j)

Next ==
    \/ \E j \in Jobs : createAndRunJob(j) \/ runBackupJob(j) \/ BreakJob(j) \/ Crash(j) \/ GrowQuiet(j)
    \/ cleanupExpiredBackups
    \/ failStaleActiveBackupJobs

\* A job's process goes on until it is through or dead, every sweep looks for stale jobs.
Fairness ==
    /\ \A j \in Jobs : WF_vars(runBackupJob(j)) /\ WF_vars(runner[j] = "dead" /\ GrowQuiet(j))
    /\ WF_vars(failStaleActiveBackupJobs)

Spec == Init /\ [][Next]_vars /\ Fairness

-----------------------------------------------------------------------------
Lists == [rest: SUBSET Jobs, now: SUBSET Jobs]

\* Every variable has the shape the code gives it.
TypeOK ==
    /\ job \in [Jobs -> [status: Statuses, cleaned: BOOLEAN, completed: Nat, quiet: BOOLEAN]]
    /\ runner \in [Jobs -> Places]
    /\ stored \subseteq Jobs
    /\ prune \in [Jobs -> Lists]
    /\ watch \subseteq Jobs
    /\ cleanup \in Lists
    /\ faults \in 0 .. MaxFaults
    /\ expired \in BOOLEAN /\ presumed \in BOOLEAN /\ overlapped \in BOOLEAN
    /\ unmarked \subseteq Jobs

\* prunePreviousBackupArtifacts never takes the last archive: once a job has succeeded
\* there is a job that offers an archive which is in the store, however many jobs run
\* together and wherever they break off, unless the retention has run out or a job was
\* failed as stale that was not (it may have pruned the others by then).
LatestIsKept ==
    (\E j \in Jobs : job[j].status = "success") /\ ~expired /\ ~presumed => Offered \cap stored # {}

\* What a row offers can be downloaded, but for an archive whose deletion is being recorded
\* or could not be (its process ended, the update failed, which is only logged, or the store
\* deleted it and the answer was lost), and unless two jobs completed together (the summary
\* of the first then undoes the mark the second has set).
OfferedIsStored ==
    ~overlapped /\ ~expired =>
        \A j \in Offered \ stored : j \in unmarked \/ \E k \in Jobs : j \in prune[k].now

\* No job stays queued or running for good: its process brings it to an end, or it
\* falls silent and is failed.
JobsSettle == \A j \in Jobs : job[j].status \in Active ~> job[j].status \notin Active
=============================================================================
