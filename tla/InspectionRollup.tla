-------------------------- MODULE InspectionRollup --------------------------
(***************************************************************************)
(* The status of one inspection, which every handler around it writes: the *)
(* uploads of its images (inspectionUpload.service.js,                     *)
(* inspection.service.js, imageSessionReconciler.service.js), its          *)
(* submission and review (inspection.service.js), the analyses of its      *)
(* images in this process (analysis.service.js, analysis.queue.js), and    *)
(* the rollup that most of them end with, which derives the status from    *)
(* the images (recomputeInspectionAggregates).                             *)
(*                                                                         *)
(* No handler locks the inspection. Each works on an instance it read when *)
(* it began, saves only what differs from it (module Sequelize), and other *)
(* handlers run at its awaits. The rollup reads the inspection, then the   *)
(* images, then writes: one that read first may write last.                *)
(*                                                                         *)
(* Images are told apart by the class the rollup puts them in. Two things  *)
(* that it does first are left out: it merges rows of one image, and a     *)
(* placeholder with nothing to show does not count when another image of   *)
(* its stage has something. Here every row is an image and counts.         *)
(*                                                                         *)
(* The queue is module AnalysisInline seen from here: a call adds a run or *)
(* is turned away. pipeline_status, processing_status and review_required  *)
(* of the inspection are left out; where the code asks for                 *)
(* processing_status, both answers are possible. Analysis on upload is on, *)
(* so that a submission queues nothing (isAutoAnalysisOnUploadEnabled).    *)
(***************************************************************************)
EXTENDS Naturals, FiniteSets, Sequences, Sequelize

CONSTANTS
    Images,     \* the images the inspection may have
    Before,     \* those of the stage before cleaning, the others are after
    Calls,      \* requests and reconciler visits that overlap
    MaxCalls,   \* bound on how many there are in a behaviour
    MaxRuns,    \* bound on the analyses that begin
    MaxFailures \* bound on the analyses whose time is over and on what throws

ASSUME ConstantsAssumption ==
    /\ IsFiniteSet(Images)
    /\ Before \subseteq Images
    /\ IsFiniteSet(Calls)
    /\ MaxCalls \in Nat
    /\ MaxRuns \in Nat
    /\ MaxFailures \in Nat

VARIABLES
    image,      \* the class of each image row
    inspection, \* status and submitted_at of the Inspection row
    work,       \* where each process is, and what it has read
    begun,      \* calls begun
    runs,       \* runs begun
    failures,   \* how often one of them has failed
    order,      \* history: the rollups that have read and not written, oldest first
    owed        \* history: the status is left to a rollup yet to come

vars == <<image, inspection, work, begun, runs, failures, order, owed>>

-----------------------------------------------------------------------------
Classes == {"none", "uploading", "uploaded", "queued", "processing",
            "scored", "suspect", "failed"}
Statuses == {"DRAFT", "IN_PROGRESS", "SUBMITTED", "PARTIALLY_SCORED", "REVIEW_REQUIRED",
             "FULLY_SCORED", "COMPLETED"}
Places == {"idle", "createSessions", "confirmMedia", "confirmInspection", "queueMedia",
           "queueInspection", "enqueue", "uploadMedia", "uploadInspection", "uploadCsv",
           "retryMedia", "submit", "review",
           "triggerEnqueue", "recoverMedia", "recoverInspection", "recoverEnqueue",
           "queued", "claim", "analyse", "score", "finish",
           "failMedia", "failed", "rollup", "rollupImages", "rollupSave"}

\* Where a call has written nothing yet (createUploadSessions is one transaction).
Unwritten == {"createSessions", "confirmMedia", "uploadMedia", "uploadCsv", "retryMedia",
              "submit", "review", "recoverMedia"}

\* A process is a call, the analysis of an image, or the handler of its failure.
Run(i) == <<"run", i>>
Fail(i) == <<"fail", i>>
Runs == {Run(i) : i \in Images}
Fails == {Fail(i) : i \in Images}
Processes == Calls \cup Runs \cup Fails

Inspections == [status : Statuses, submitted : BOOLEAN]
NoInstance == [status |-> "DRAFT", submitted |-> FALSE]
NoImages == [i \in Images |-> "none"]
At(place) == [at |-> place, image |-> "-", instance |-> NoInstance,
              rollup |-> NoInstance, derived |-> "DRAFT"]

-----------------------------------------------------------------------------
(* The status that follows from the images.                                *)

Rows(images) == {i \in Images : images[i] # "none"}
Completed(images) == {i \in Images : images[i] \in {"scored", "suspect"}}
InProcess(images) == {i \in Images : images[i] \in {"queued", "processing"}}
Failed(images) == {i \in Images : images[i] = "failed"}

\* reviewRequired, of images that are all scored.
ReviewRequired(images) ==
    \/ \E i \in Images : images[i] = "suspect"
    \/ Rows(images) \cap Before = {}
    \/ Rows(images) \subseteq Before

resolveInspectionStatus(images, submitted) ==
    CASE ~submitted /\ Rows(images) = {} -> "DRAFT"
      [] ~submitted /\ Rows(images) # {} -> "IN_PROGRESS"
      [] submitted /\ Completed(images) = {} ->
            IF Failed(images) # {} THEN "REVIEW_REQUIRED" ELSE "SUBMITTED"
      [] OTHER ->
            IF Completed(images) # Rows(images) \/ InProcess(images) # {} THEN "PARTIALLY_SCORED"
            ELSE IF ReviewRequired(images) THEN "REVIEW_REQUIRED"
            ELSE "FULLY_SCORED"

\* A new inspection, or one that earlier calls have left, when all of them are
\* through and a rollup has seen what they did.
Init ==
    /\ image \in [Images -> {"none", "uploading", "scored"}]
    /\ \E submitted \in BOOLEAN :
          inspection = [status |-> resolveInspectionStatus(image, submitted), submitted |-> submitted]
    /\ work = [p \in Processes |-> At("idle")]
    /\ begun = 0
    /\ runs = 0
    /\ failures = 0
    /\ order = <<>>
    /\ owed = FALSE

-----------------------------------------------------------------------------
Goes(p, place) == work' = [work EXCEPT ![p].at = place]
Ends(p) == work' = [work EXCEPT ![p] = At("idle")]
Rolls(p) == work' = [work EXCEPT ![p] = At("rollup")]

\* The process saves values through its instance, which holds them from then on.
Saves(p, values, place) ==
    /\ inspection' = Saved(inspection, work[p].instance, values)
    /\ work' = [work EXCEPT ![p].at = place, ![p].instance = values]

\* A call that rolls up next, with an instance of the rollup's own.
SavesLast(p, values) ==
    /\ inspection' = Saved(inspection, work[p].instance, values)
    /\ Rolls(p)

SetImage(i, class) == image' = [image EXCEPT ![i] = class]

\* A change that no rollup follows: the rollups under way have read too early for it.
LeavesOwed == order' = <<>> /\ owed' = TRUE
KeepsAccount == UNCHANGED <<order, owed>>

WithStatus(instance, status) == [instance EXCEPT !.status = status]

\* The status a handler that queues an image writes.
StatusWhenQueued(instance, otherwise) ==
    IF instance.submitted THEN "SUBMITTED" ELSE otherwise

-----------------------------------------------------------------------------
(* recomputeInspectionAggregates: a fresh instance, the images, the totals *)
(* in memory, one save.                                                    *)

RollupInspection(p) ==
    /\ work[p].at = "rollup"
    /\ work' = [work EXCEPT ![p].at = "rollupImages", ![p].rollup = inspection]
    /\ order' = Append(order, p)
    /\ UNCHANGED <<image, inspection, begun, runs, failures, owed>>

RollupImages(p) ==
    /\ work[p].at = "rollupImages"
    /\ work' = [work EXCEPT ![p].at = "rollupSave", ![p].derived =
                               resolveInspectionStatus(image, work[p].rollup.submitted)]
    /\ UNCHANGED <<image, inspection, begun, runs, failures, order, owed>>

\* A status that is the one the rollup read is not written, although the row may
\* hold another by now.
Effective(p) ==
    work[p].derived # work[p].rollup.status \/ inspection.status = work[p].rollup.status

\* The rollup that has read last pays what is owed; one that was overtaken by it, owes.
RollupSave(p) ==
    /\ work[p].at = "rollupSave"
    /\ inspection' = Saved(inspection, work[p].rollup, WithStatus(work[p].rollup, work[p].derived))
    /\ \/ \E n \in DOMAIN order :
            /\ order[n] = p
            /\ order' = SubSeq(order, n + 1, Len(order))
            /\ owed' = ~Effective(p)
       \/ /\ \A n \in DOMAIN order : order[n] # p
          /\ owed' = TRUE
          /\ UNCHANGED order
    /\ \/ p \in Calls /\ Ends(p)
       \/ p \in Fails /\ work' = [work EXCEPT ![p] = At("failed")]
       \/ /\ p \in Runs
          /\ work' = [work EXCEPT ![p] = [At("finish") EXCEPT !.instance = work[p].instance]]
    /\ UNCHANGED <<image, begun, runs, failures>>

-----------------------------------------------------------------------------
(* Requests and visits of the reconciler. Each reads the inspection first  *)
(* and asks something else before it writes.                               *)

Begins(c, place, i) ==
    /\ work[c].at = "idle" /\ begun < MaxCalls
    /\ begun' = begun + 1
    /\ work' = [work EXCEPT ![c] = [At(place) EXCEPT !.image = i, !.instance = inspection]]

\* enqueueInspectionAnalysis takes the image on, unless the queue is full or
\* holds it already.
Enqueued(c, i, place) ==
    /\ runs < MaxRuns /\ runs' = runs + 1
    /\ work[Run(i)].at = "idle" /\ work[Fail(i)].at \in {"idle", "failed"}
    /\ work' = [work EXCEPT ![Run(i)].at = "queued", ![Fail(i)] = At("idle"), ![c] = At(place)]

Call(c) ==
    /\ \/ Begins(c, "createSessions", "-")
       \/ \E i \in Images :
            \/ image[i] # "none" /\ \E place \in {"confirmMedia", "retryMedia"} : Begins(c, place, i)
            \/ Begins(c, "uploadMedia", i)
            \/ image[i] = "uploading" /\ Begins(c, "recoverMedia", i)
       \/ Begins(c, "uploadCsv", "-")
       \/ Begins(c, "submit", "-")
       \/ Begins(c, "review", "-")
    /\ UNCHANGED <<image, inspection, runs, failures, order, owed>>

\* createUploadSessions, one transaction: those rows the request names that are not
\* durable, and the inspection.
CreateSessions(c) ==
    /\ work[c].at = "createSessions"
    /\ \E named \in SUBSET {i \in Images : image[i] \in {"none", "uploading", "failed"}} :
          image' = [i \in Images |-> IF i \in named THEN "uploading" ELSE image[i]]
    /\ SavesLast(c, WithStatus(work[c].instance, "IN_PROGRESS"))
    /\ KeepsAccount /\ UNCHANGED <<begun, runs, failures>>

\* confirmUpload of an image, whatever became of it.
\* It ends here when the object is not in the store or not the one expected.
ConfirmMedia(c) ==
    /\ work[c].at = "confirmMedia"
    /\ \/ SetImage(work[c].image, "uploaded") /\ Goes(c, "confirmInspection")
       \/ UNCHANGED image /\ Ends(c)
    /\ KeepsAccount /\ UNCHANGED <<inspection, begun, runs, failures>>

\* Of confirmUpload, which goes on to the image, and of the upload through the server.
ConfirmInspection(c) ==
    /\ \E step \in {<<"confirmInspection", "queueMedia">>, <<"uploadInspection", "queueInspection">>} :
          /\ work[c].at = step[1]
          /\ Saves(c, WithStatus(work[c].instance, "IN_PROGRESS"), step[2])
    /\ KeepsAccount /\ UNCHANGED <<image, begun, runs, failures>>

QueueMedia(c) ==
    /\ work[c].at = "queueMedia"
    /\ SetImage(work[c].image, "queued")
    /\ Goes(c, "queueInspection")
    /\ KeepsAccount /\ UNCHANGED <<inspection, begun, runs, failures>>

QueueInspection(c) ==
    /\ work[c].at = "queueInspection"
    /\ LET instance == work[c].instance
       IN  Saves(c, WithStatus(instance, StatusWhenQueued(instance, "IN_PROGRESS")), "enqueue")
    /\ KeepsAccount /\ UNCHANGED <<image, begun, runs, failures>>

Enqueue(c) ==
    /\ work[c].at = "enqueue"
    /\ \/ Enqueued(c, work[c].image, "rollup")
       \/ Rolls(c) /\ UNCHANGED runs
    /\ KeepsAccount /\ UNCHANGED <<image, inspection, begun, failures>>

\* uploadInspectionMedia: an image that came with the request, over any earlier row of it.
UploadMedia(c) ==
    /\ work[c].at = "uploadMedia"
    /\ SetImage(work[c].image, "queued")
    /\ Goes(c, "uploadInspection")
    /\ KeepsAccount /\ UNCHANGED <<inspection, begun, runs, failures>>

\* A CSV attachment leaves no image row, and no rollup follows.
UploadCsv(c) ==
    /\ work[c].at = "uploadCsv"
    /\ inspection' = Saved(inspection, work[c].instance, WithStatus(work[c].instance, "IN_PROGRESS"))
    /\ Ends(c)
    /\ LeavesOwed /\ UNCHANGED <<image, begun, runs, failures>>

\* retryUploadSession: the image is awaited again, whatever became of it, and no rollup follows.
RetryMedia(c) ==
    /\ work[c].at = "retryMedia"
    /\ SetImage(work[c].image, "uploading")
    /\ Ends(c)
    /\ LeavesOwed /\ UNCHANGED <<inspection, begun, runs, failures>>

SubmittedNow == [status |-> "SUBMITTED", submitted |-> TRUE]

\* submitInspection: refused for want of attachments or answered by an earlier submission
\* of the same client; or the inspection is submitted, and then the InspectionSubmission
\* is created before the rollup, or is refused because the client's other request has
\* created it by now (module Submissions), and no rollup follows.
Submit(c) ==
    /\ work[c].at = "submit"
    /\ \/ UNCHANGED inspection /\ Ends(c) /\ KeepsAccount
       \/ SavesLast(c, SubmittedNow) /\ KeepsAccount
       \/ inspection' = Saved(inspection, work[c].instance, SubmittedNow) /\ Ends(c) /\ LeavesOwed
    /\ UNCHANGED <<image, begun, runs, failures>>

\* reviewInspection: an accepted inspection that is still queued or processing
\* is completed, a rejected one is back for review, another keeps its status.
Review(c) ==
    /\ work[c].at = "review"
    /\ \E status \in {"COMPLETED", "REVIEW_REQUIRED", work[c].instance.status} :
          inspection' = Saved(inspection, work[c].instance, WithStatus(work[c].instance, status))
    /\ Ends(c)
    /\ LeavesOwed /\ UNCHANGED <<image, begun, runs, failures>>

\* triggerInspectionImageAi: the image is queued again, the inspection left to the run.
TriggerInspectionImageAi(c) ==
    /\ work[c].at = "idle" /\ begun < MaxCalls
    /\ \E i \in Images :
          /\ image[i] # "none"
          /\ SetImage(i, "queued")
          /\ work' = [work EXCEPT ![c] = [At("triggerEnqueue") EXCEPT !.image = i]]
    /\ begun' = begun + 1
    /\ KeepsAccount /\ UNCHANGED <<inspection, runs, failures>>

\* Of triggerInspectionImageAi and of the reconciler: no rollup when no run is added.
EnqueueOnly(c) ==
    /\ work[c].at \in {"triggerEnqueue", "recoverEnqueue"}
    /\ \/ Enqueued(c, work[c].image, "idle") /\ KeepsAccount
       \/ Ends(c) /\ LeavesOwed /\ UNCHANGED runs
    /\ UNCHANGED <<image, inspection, begun, failures>>

\* reconcileSingleSession: the object was found, or the session is given up, or reissued.
\* (What a confirmation at the same time makes of the row is module ImageUpload.)
ReconcileMedia(c) ==
    /\ work[c].at = "recoverMedia"
    /\ LET i == work[c].image
       IN  \/ SetImage(i, "queued") /\ Goes(c, "recoverInspection") /\ KeepsAccount
           \/ image[i] = "uploading" /\ SetImage(i, "failed") /\ Ends(c) /\ LeavesOwed
           \/ UNCHANGED image /\ Ends(c) /\ KeepsAccount
    /\ UNCHANGED <<inspection, begun, runs, failures>>

ReconcileInspection(c) ==
    /\ work[c].at = "recoverInspection"
    /\ LET instance == work[c].instance
       IN  Saves(c, WithStatus(instance, StatusWhenQueued(instance, instance.status)), "recoverEnqueue")
    /\ KeepsAccount /\ UNCHANGED <<image, begun, runs, failures>>

-----------------------------------------------------------------------------
(* runInspectionAnalysis of one image, in this process.                    *)

RunBegins(i) ==
    /\ work[Run(i)].at = "queued"
    /\ work' = [work EXCEPT ![Run(i)].at = "claim", ![Run(i)].instance = inspection]
    /\ KeepsAccount /\ UNCHANGED <<image, inspection, begun, runs, failures>>

RunClaims(i) ==
    /\ work[Run(i)].at = "claim"
    /\ LET instance == work[Run(i)].instance
       IN  Saves(Run(i), WithStatus(instance, StatusWhenQueued(instance, instance.status)), "analyse")
    /\ KeepsAccount /\ UNCHANGED <<image, begun, runs, failures>>

\* A score of the current version is kept, unless the caller wants it anew.
RunAnalyses(i) ==
    /\ work[Run(i)].at = "analyse"
    /\ \/ image[i] \in {"scored", "suspect"} /\ UNCHANGED image /\ Goes(Run(i), "rollup")
       \/ SetImage(i, "processing") /\ Goes(Run(i), "score")
    /\ KeepsAccount /\ UNCHANGED <<inspection, begun, runs, failures>>

\* Scored, failed for good, or to be tried again.
RunScores(i) ==
    /\ work[Run(i)].at = "score"
    /\ \E class \in {"scored", "suspect", "failed", "queued"} : SetImage(i, class)
    /\ Goes(Run(i), "rollup")
    /\ KeepsAccount /\ UNCHANGED <<inspection, begun, runs, failures>>

\* The last update of the run names submitted_at, with the value it read at first.
RunFinishes(i) ==
    /\ work[Run(i)].at = "finish"
    /\ LET instance == work[Run(i)].instance
       IN  inspection' = Saved(inspection, instance, instance)
    /\ Ends(Run(i))
    /\ KeepsAccount /\ UNCHANGED <<image, begun, runs, failures>>

\* Its time is over: the handler of its failure begins, and it goes on.
RunTimesOut(i) ==
    /\ failures < MaxFailures /\ work[Run(i)].at \notin {"idle", "queued"}
    /\ failures' = failures + 1
    /\ work[Fail(i)].at = "idle"
    /\ Goes(Fail(i), "failMedia")
    /\ KeepsAccount /\ UNCHANGED <<image, inspection, begun, runs>>

\* It throws, and the handler of its failure begins.
RunThrows(i) ==
    /\ failures < MaxFailures /\ work[Run(i)].at \notin {"idle", "queued"}
    /\ work[Fail(i)].at = "idle"
    /\ failures' = failures + 1
    /\ work' = [work EXCEPT ![Run(i)] = At("idle"), ![Fail(i)].at = "failMedia"]
    /\ \/ \E n \in DOMAIN order :
            /\ order[n] = Run(i)
            /\ order' = SubSeq(order, 1, n - 1) \o SubSeq(order, n + 1, Len(order))
       \/ (\A n \in DOMAIN order : order[n] # Run(i)) /\ UNCHANGED order
    /\ UNCHANGED <<image, inspection, begun, runs, owed>>

\* It throws after its time was over: nobody hears of it.
RunThrowsLate(i) ==
    /\ work[Run(i)].at \notin {"idle", "queued"}
    /\ work[Fail(i)].at # "idle"
    /\ Ends(Run(i))
    /\ LeavesOwed /\ UNCHANGED <<image, inspection, begun, runs, failures>>

\* Mutant: the rollup after a failed run is forgotten.
MarkInlineJobFailure_NoRollup(i) ==
    /\ work[Fail(i)].at = "failMedia"
    /\ image' = [image EXCEPT ![i] = IF @ \in {"uploaded", "queued", "processing"} THEN "failed" ELSE @]
    /\ Goes(Fail(i), "failed")
    /\ KeepsAccount /\ UNCHANGED <<inspection, begun, runs, failures>>

MarkInlineJobFailure(i) ==
    /\ work[Fail(i)].at = "failMedia"
    /\ image' = [image EXCEPT ![i] = IF @ \in {"uploaded", "queued", "processing"} THEN "failed" ELSE @]
    /\ Goes(Fail(i), "rollup")
    /\ KeepsAccount /\ UNCHANGED <<inspection, begun, runs, failures>>

\* Any of what a call or the handler of a failure asks of the database, the queue or the
\* store may throw: what it has written stays, and no rollup of its own follows.
Throws(p) ==
    /\ failures < MaxFailures /\ failures' = failures + 1
    /\ work[p].at \notin {"idle", "failed"}
    /\ work' = [work EXCEPT ![p] = At(IF p \in Calls THEN "idle" ELSE "failed")]
    /\ IF work[p].at \in Unwritten THEN KeepsAccount ELSE LeavesOwed
    /\ UNCHANGED <<image, inspection, begun, runs>>

-----------------------------------------------------------------------------
Next ==
    \/ \E p \in Processes : RollupInspection(p) \/ RollupImages(p) \/ RollupSave(p)
    \/ \E p \in Calls \cup Fails : Throws(p)
    \/ \E c \in Calls :
        \/ Call(c) \/ CreateSessions(c)
        \/ ConfirmMedia(c) \/ ConfirmInspection(c) \/ QueueMedia(c) \/ QueueInspection(c) \/ Enqueue(c)
        \/ UploadMedia(c) \/ UploadCsv(c) \/ RetryMedia(c)
        \/ Submit(c) \/ Review(c)
        \/ TriggerInspectionImageAi(c) \/ EnqueueOnly(c)
        \/ ReconcileMedia(c) \/ ReconcileInspection(c)
    \/ \E i \in Images :
        \/ RunBegins(i) \/ RunClaims(i) \/ RunAnalyses(i) \/ RunScores(i) \/ RunFinishes(i)
        \/ RunTimesOut(i) \/ RunThrows(i) \/ RunThrowsLate(i) \/ MarkInlineJobFailure(i)

Spec == Init /\ [][Next]_vars

-----------------------------------------------------------------------------
Works == [at : Places, image : Images \cup {"-"}, instance : Inspections,
          rollup : Inspections, derived : Statuses]

TypeOK ==
    /\ image \in [Images -> Classes]
    /\ inspection \in Inspections
    /\ work \in [Processes -> Works]
    /\ begun \in 0..MaxCalls
    /\ runs \in 0..MaxRuns
    /\ failures \in 0..MaxFailures
    /\ order \in Seq(Processes)
    /\ owed \in BOOLEAN

Quiet == \A p \in Processes : work[p].at \in {"idle", "failed"}

\* When every call, run and failure handler is through, the status is the one
\* that follows from the images (resolveInspectionStatus): every handler that
\* changes an image or the status is followed by a rollup that reads the change
\* and saves its result. Not so, until the next rollup, where the code leaves it:
\* after a CSV attachment, a review, a session given up or retried, an image queued without
\* a run, a submission of which the row was refused, a call or failure handler that throws
\* after its first write, a run that throws late, and a rollup overtaken by one that read
\* after it.
StatusFollowsImages ==
    Quiet /\ ~owed => inspection.status = resolveInspectionStatus(image, inspection.submitted)

\* A submitted inspection stays submitted, although every handler that overlaps
\* the submission saves an instance in which it is not.
SubmittedForGood == [][inspection.submitted => inspection'.submitted]_vars

=============================================================================
