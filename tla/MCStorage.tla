----------------------------- MODULE MCStorage ------------------------------
(* What is kept in the object store, images and backup archives: no row    *)
(* refers to both, so that either part runs alone.                         *)
EXTENDS ImageUpload

CONSTANTS Jobs, MaxFaults

VARIABLES part, job, runner, archives, prune, watch, cleanup, faults, expired, presumed, unmarked, together

J == INSTANCE BackupJobs WITH stored <- archives, overlapped <- together

ASSUME StorageAssumption == J!JobsAssumption

jobVars == <<job, runner, archives, prune, watch, cleanup, faults, expired, presumed, unmarked, together>>
all == <<part, vars, jobVars>>

MCInit ==
    /\ part \in {"images", "backups"}
    /\ Init
    /\ J!Init

ImagesStep(A) == part = "images" /\ A /\ UNCHANGED <<part, jobVars>>
BackupsStep(A) == part = "backups" /\ A /\ UNCHANGED <<part, vars>>

MCNext == ImagesStep(Next) \/ BackupsStep(J!Next)

\* The fairness of both modules, each in its part.
MCFairness ==
    /\ WF_all(ImagesStep(GrowStale /\ Next)) /\ WF_all(ImagesStep(Reconciler /\ Next))
    /\ \A j \in Jobs :
        /\ WF_all(BackupsStep(J!runBackupJob(j)))
        /\ WF_all(BackupsStep(runner[j] = "dead" /\ J!GrowQuiet(j)))
    /\ WF_all(BackupsStep(J!failStaleActiveBackupJobs))

MCSpec == MCInit /\ [][MCNext]_all /\ MCFairness

\* Every variable of both has the shape the code gives it.
StorageTypes == TypeOK /\ J!TypeOK

\* Pruning, which follows a verified upload, leaves an archive to restore from, and what the
\* row of a backup job offers can be downloaded (BackupJobs).
ArchivesAreKept == J!LatestIsKept /\ J!OfferedIsStored

\* No upload session stays open and no backup job stays queued or running for good.
StorageSettles == SessionsSettle /\ J!JobsSettle
=============================================================================
