----------------------- MODULE InspectionRollupProofs -----------------------
(***************************************************************************)
(* Proofs about the status of an inspection, for any number of images,     *)
(* calls and analyses that overlap.                                        *)
(***************************************************************************)
EXTENDS InspectionRollup, TLAPS

-----------------------------------------------------------------------------
(* The operators the actions are built from.                               *)

LEMMA StatusType ==
    ASSUME NEW images, NEW submitted \in BOOLEAN
    PROVE  resolveInspectionStatus(images, submitted) \in Statuses
BY DEF resolveInspectionStatus, Statuses

LEMMA AtType ==
    ASSUME NEW place \in Places
    PROVE  At(place) \in Works
BY DEF At, Works, NoInstance, Inspections, Statuses

LEMMA WithStatusType ==
    ASSUME NEW instance \in Inspections, NEW status \in Statuses
    PROVE  /\ WithStatus(instance, status) \in Inspections
           /\ WithStatus(instance, status).submitted = instance.submitted
BY DEF WithStatus, Inspections

LEMMA QueuedStatusType ==
    ASSUME NEW instance \in Inspections, NEW otherwise \in Statuses
    PROVE  StatusWhenQueued(instance, otherwise) \in Statuses
BY DEF StatusWhenQueued, Statuses

\* A save keeps the row a row, and a submitted row submitted, if the values are
\* submitted or as submitted as the instance.
LEMMA SavedType ==
    ASSUME NEW row \in Inspections, NEW read \in Inspections, NEW values \in Inspections
    PROVE  /\ Saved(row, read, values) \in Inspections
           /\ row.submitted /\ (values.submitted \/ values.submitted = read.submitted)
                => Saved(row, read, values).submitted
BY DEF Saved, Inspections

LEMMA GoesType ==
    ASSUME TypeOK, NEW p \in Processes, NEW place \in Places, Goes(p, place)
    PROVE  work' \in [Processes -> Works]
BY DEF TypeOK, Goes, Works

LEMMA MovesTo ==
    ASSUME TypeOK, NEW p \in Processes, NEW w \in Works, work' = [work EXCEPT ![p] = w]
    PROVE  work' \in [Processes -> Works]
BY DEF TypeOK

LEMMA EndsType ==
    ASSUME TypeOK, NEW p \in Processes, Ends(p) \/ Rolls(p)
    PROVE  work' \in [Processes -> Works]
<1>1. At("idle") \in Works /\ At("rollup") \in Works
  BY AtType DEF Places
<1> QED
  BY <1>1, MovesTo DEF Ends, Rolls

LEMMA SavesType ==
    ASSUME TypeOK, NEW p \in Processes, NEW values \in Inspections, NEW place \in Places,
           Saves(p, values, place) \/ SavesLast(p, values)
    PROVE  /\ inspection' \in Inspections
           /\ work' \in [Processes -> Works]
           /\ (values.submitted \/ values.submitted = work[p].instance.submitted)
                => (inspection.submitted => inspection'.submitted)
<1>1. work[p].instance \in Inspections /\ inspection \in Inspections
  BY DEF TypeOK, Works
<1>2. inspection' = Saved(inspection, work[p].instance, values)
  BY DEF Saves, SavesLast
<1>3. work' \in [Processes -> Works]
  <2>1. CASE Saves(p, values, place)
    BY <2>1 DEF TypeOK, Saves, Works
  <2>2. CASE SavesLast(p, values)
    BY <2>2, EndsType DEF SavesLast
  <2> QED
    BY <2>1, <2>2
<1> QED
  BY <1>1, <1>2, <1>3, SavedType

LEMMA SetImageType ==
    ASSUME TypeOK, NEW i, NEW class \in Classes, SetImage(i, class)
    PROVE  image' \in [Images -> Classes]
BY DEF TypeOK, SetImage

LEMMA AccountType ==
    ASSUME TypeOK, LeavesOwed \/ KeepsAccount
    PROVE  order' \in Seq(Processes) /\ owed' \in BOOLEAN
<1>1. order \in Seq(Processes) /\ owed \in BOOLEAN
  BY DEF TypeOK
<1>2. CASE LeavesOwed
  BY <1>2 DEF LeavesOwed
<1>3. CASE KeepsAccount
  BY <1>1, <1>3 DEF KeepsAccount
<1> QED
  BY <1>2, <1>3

-----------------------------------------------------------------------------
(* What every step keeps: the types, and a submitted inspection submitted. *)

Kept ==
    /\ TypeOK'
    /\ inspection.submitted => inspection'.submitted

\* The counters and the account of rollups, for a step that changes neither.
LEMMA RestType ==
    ASSUME TypeOK, LeavesOwed \/ KeepsAccount, UNCHANGED <<begun, runs, failures>>,
           image' \in [Images -> Classes], inspection' \in Inspections,
           work' \in [Processes -> Works]
    PROVE  TypeOK'
<1>1. order' \in Seq(Processes) /\ owed' \in BOOLEAN
  BY AccountType
<1> QED
  BY <1>1 DEF TypeOK

LEMMA Members ==
    /\ \A c \in Calls : c \in Processes
    /\ \A i \in Images : Run(i) \in Processes /\ Fail(i) \in Processes
BY DEF Processes, Runs, Fails

LEMMA RollupStep ==
    ASSUME TypeOK, NEW p \in Processes,
           RollupInspection(p) \/ RollupImages(p) \/ RollupSave(p)
    PROVE  Kept
<1> USE DEF TypeOK
<1>0. work[p] \in Works /\ work[p].rollup \in Inspections /\ work[p].derived \in Statuses
      /\ work[p].instance \in Inspections
  BY DEF Works
<1>1. CASE RollupInspection(p)
  <2>1. work' \in [Processes -> Works]
    <3>1. [work[p] EXCEPT !.at = "rollupImages", !.rollup = inspection] \in Works
      BY <1>0 DEF Works, Places
    <3>2. work' = [work EXCEPT ![p] = [work[p] EXCEPT !.at = "rollupImages", !.rollup = inspection]]
      BY <1>1 DEF RollupInspection
    <3> QED
      BY <3>1, <3>2, MovesTo
  <2>2. order' \in Seq(Processes)
    BY <1>1 DEF RollupInspection
  <2> QED
    BY <1>1, <2>1, <2>2 DEF RollupInspection, Kept
<1>2. CASE RollupImages(p)
  <2>1. resolveInspectionStatus(image, work[p].rollup.submitted) \in Statuses
    BY <1>0, StatusType DEF Inspections
  <2>2. work' \in [Processes -> Works]
    <3> DEFINE derived == resolveInspectionStatus(image, work[p].rollup.submitted)
    <3> HIDE DEF derived
    <3>1. [work[p] EXCEPT !.at = "rollupSave", !.derived = derived] \in Works
      BY <1>0, <2>1 DEF Works, Places, derived
    <3>2. work' = [work EXCEPT ![p] = [work[p] EXCEPT !.at = "rollupSave", !.derived = derived]]
      BY <1>2 DEF RollupImages, derived
    <3> QED
      BY <3>1, <3>2, MovesTo
  <2> QED
    BY <1>2, <2>2 DEF RollupImages, Kept
<1>3. CASE RollupSave(p)
  <2>1. inspection' \in Inspections /\ (inspection.submitted => inspection'.submitted)
    <3>1. WithStatus(work[p].rollup, work[p].derived) \in Inspections
          /\ WithStatus(work[p].rollup, work[p].derived).submitted = work[p].rollup.submitted
      BY <1>0, WithStatusType
    <3>2. inspection' = Saved(inspection, work[p].rollup, WithStatus(work[p].rollup, work[p].derived))
      BY <1>3 DEF RollupSave
    <3> QED
      BY <1>0, <3>1, <3>2, SavedType
  <2>2. work' \in [Processes -> Works]
    <3>1. At("failed") \in Works /\ At("finish") \in Works
      BY AtType DEF Places
    <3>2. [At("finish") EXCEPT !.instance = work[p].instance] \in Works
      BY <1>0, <3>1 DEF Works
    <3> QED
      BY <1>3, <3>1, <3>2, MovesTo, EndsType DEF RollupSave
  <2>3. order' \in Seq(Processes) /\ owed' \in BOOLEAN
    <3>1. CASE \A n \in DOMAIN order : order[n] # p
      BY <1>3, <3>1 DEF RollupSave
    <3>2. ASSUME NEW n \in DOMAIN order, order' = SubSeq(order, n + 1, Len(order)),
                 owed' = ~Effective(p)
          PROVE  order' \in Seq(Processes) /\ owed' \in BOOLEAN
      <4>1. n \in Nat /\ n + 1 \in 1..Len(order) + 1 /\ Len(order) \in 0..Len(order)
        OBVIOUS
      <4>2. order' \in Seq(Processes)
        BY <3>2, <4>1
      <4> QED
        BY <3>2, <4>2 DEF Effective
    <3> QED
      BY <1>3, <3>1, <3>2 DEF RollupSave
  <2> QED
    BY <1>3, <2>1, <2>2, <2>3 DEF RollupSave, Kept
<1> QED
  BY <1>1, <1>2, <1>3

\* A call that only begins.
LEMMA BeginsStep ==
    ASSUME TypeOK, NEW c \in Calls, NEW i \in Images \cup {"-"}, NEW place \in Places,
           Begins(c, place, i)
    PROVE  work' \in [Processes -> Works] /\ begun' \in 0..MaxCalls
<1>1. [At(place) EXCEPT !.image = i, !.instance = inspection] \in Works
  <2>1. At(place) \in Works /\ inspection \in Inspections
    BY AtType DEF TypeOK
  <2> QED
    BY <2>1 DEF Works
<1>2. work' = [work EXCEPT ![c] = [At(place) EXCEPT !.image = i, !.instance = inspection]]
      /\ begun' = begun + 1 /\ begun < MaxCalls
  BY DEF Begins
<1>3. begun' \in 0..MaxCalls
  BY <1>2, ConstantsAssumption DEF TypeOK
<1> QED
  BY <1>1, <1>2, <1>3, MovesTo, Members

LEMMA CallStep ==
    ASSUME TypeOK, NEW c \in Calls, Call(c)
    PROVE  Kept
<1>1. work' \in [Processes -> Works] /\ begun' \in 0..MaxCalls
  <2>1. {"createSessions", "confirmMedia", "uploadMedia", "recoverMedia", "uploadCsv",
         "retryMedia", "submit", "review"} \subseteq Places
    BY DEF Places
  <2>2. PICK place \in Places, i \in Images \cup {"-"} : Begins(c, place, i)
    BY <2>1 DEF Call
  <2> QED
    BY <2>2, BeginsStep
<1> QED
  BY <1>1 DEF Call, TypeOK, Kept

LEMMA EnqueuedType ==
    ASSUME TypeOK, NEW c \in Calls, NEW i, NEW place \in Places, Enqueued(c, i, place)
    PROVE  work' \in [Processes -> Works] /\ runs' \in 0..MaxRuns
<1>1. At(place) \in Works /\ At("idle") \in Works /\ "queued" \in Places
  BY AtType DEF Places
<1>2. runs' \in 0..MaxRuns
  BY ConstantsAssumption DEF Enqueued, TypeOK
<1> DEFINE w1 == [work EXCEPT ![Run(i)].at = "queued"]
           w2 == [w1 EXCEPT ![Fail(i)] = At("idle")]
<1>3. w1 \in [Processes -> Works]
  BY <1>1 DEF TypeOK, Works
<1>4. w2 \in [Processes -> Works]
  BY <1>1, <1>3
<1>5. work' = [w2 EXCEPT ![c] = At(place)]
  BY DEF Enqueued
<1>6. work' \in [Processes -> Works]
  BY <1>1, <1>4, <1>5
<1> QED
  BY <1>2, <1>6

\* The handlers of the uploads, of the submission and of the review.
LEMMA RequestStep ==
    ASSUME TypeOK, NEW c \in Calls,
           \/ CreateSessions(c) \/ ConfirmMedia(c) \/ ConfirmInspection(c)
           \/ QueueMedia(c) \/ QueueInspection(c) \/ Enqueue(c)
           \/ UploadMedia(c) \/ UploadCsv(c) \/ RetryMedia(c)
           \/ Submit(c) \/ Review(c)
    PROVE  Kept
<1> DEFINE instance == work[c].instance
           written(status) == WithStatus(instance, status)
<1>0. c \in Processes /\ instance \in Inspections /\ inspection \in Inspections
      /\ image \in [Images -> Classes] /\ work \in [Processes -> Works]
  BY Members DEF TypeOK, Works
<1>1. /\ \A status \in Statuses : written(status) \in Inspections
                                  /\ written(status).submitted = instance.submitted
      /\ "IN_PROGRESS" \in Statuses /\ StatusWhenQueued(instance, "IN_PROGRESS") \in Statuses
      /\ {"COMPLETED", "REVIEW_REQUIRED", instance.status} \subseteq Statuses
  <2>1. "IN_PROGRESS" \in Statuses /\ {"COMPLETED", "REVIEW_REQUIRED"} \subseteq Statuses
    BY DEF Statuses
  <2>2. instance.status \in Statuses
    BY <1>0 DEF Inspections
  <2> QED
    BY <1>0, <2>1, <2>2, WithStatusType, QueuedStatusType
<1>2. {"confirmInspection", "queueMedia", "queueInspection", "enqueue", "uploadInspection",
       "rollup", "idle"} \subseteq Places
  BY DEF Places
<1>3. {"uploaded", "queued", "uploading"} \subseteq Classes
  BY DEF Classes
<1>4. CASE CreateSessions(c)
  <2>1. image' \in [Images -> Classes]
    BY <1>0, <1>3, <1>4 DEF CreateSessions
  <2> QED
    BY <1>0, <1>1, <1>2, <1>4, <2>1, SavesType, RestType DEF CreateSessions, Kept
<1>5. CASE ConfirmMedia(c)
  <2>1. image' \in [Images -> Classes]
    BY <1>0, <1>3, <1>5, SetImageType DEF ConfirmMedia
  <2>2. work' \in [Processes -> Works]
    BY <1>0, <1>2, <1>5, GoesType, EndsType DEF ConfirmMedia
  <2> QED
    BY <1>0, <1>5, <2>1, <2>2, RestType DEF ConfirmMedia, Kept
<1>6. CASE ConfirmInspection(c)
  <2>1. PICK place \in Places : Saves(c, written("IN_PROGRESS"), place)
    BY <1>2, <1>6 DEF ConfirmInspection
  <2> QED
    BY <1>0, <1>1, <1>6, <2>1, SavesType, RestType DEF ConfirmInspection, Kept
<1>7. CASE QueueMedia(c) \/ UploadMedia(c)
  <2>1. image' \in [Images -> Classes]
    BY <1>3, <1>7, SetImageType DEF QueueMedia, UploadMedia
  <2>2. work' \in [Processes -> Works]
    BY <1>0, <1>2, <1>7, GoesType DEF QueueMedia, UploadMedia
  <2> QED
    BY <1>0, <1>7, <2>1, <2>2, RestType DEF QueueMedia, UploadMedia, Kept
<1>8. CASE QueueInspection(c)
  BY <1>0, <1>1, <1>2, <1>8, SavesType, RestType DEF QueueInspection, Kept
<1>9. CASE Enqueue(c)
  <2>1. work' \in [Processes -> Works] /\ runs' \in 0..MaxRuns
    <3>1. CASE Enqueued(c, work[c].image, "rollup")
      BY <1>2, <3>1, EnqueuedType
    <3>2. CASE Rolls(c) /\ UNCHANGED runs
      BY <1>0, <3>2, EndsType DEF TypeOK
    <3> QED
      BY <1>9, <3>1, <3>2 DEF Enqueue
  <2>2. order' \in Seq(Processes) /\ owed' \in BOOLEAN
    BY <1>9, AccountType DEF Enqueue
  <2> QED
    BY <1>9, <2>1, <2>2 DEF Enqueue, TypeOK, Kept
<1>10. CASE UploadCsv(c)
  <2>1. inspection' \in Inspections /\ (inspection.submitted => inspection'.submitted)
    BY <1>0, <1>1, <1>10, SavedType DEF UploadCsv
  <2> QED
    BY <1>0, <1>10, <2>1, EndsType, RestType DEF UploadCsv, Kept
<1>11. CASE Submit(c)
  <2>1. CASE UNCHANGED inspection /\ Ends(c)
    BY <1>0, <1>11, <2>1, EndsType, RestType DEF Submit, Kept
  <2>2. SubmittedNow \in Inspections /\ SubmittedNow.submitted
    BY DEF SubmittedNow, Inspections, Statuses
  <2>3. CASE SavesLast(c, SubmittedNow)
    BY <1>0, <1>2, <1>11, <2>2, <2>3, SavesType, RestType DEF Submit, Kept
  <2>4. CASE inspection' = Saved(inspection, instance, SubmittedNow) /\ Ends(c)
    <3>1. inspection' \in Inspections /\ (inspection.submitted => inspection'.submitted)
      BY <1>0, <2>2, <2>4, SavedType
    <3> QED
      BY <1>0, <1>11, <2>4, <3>1, EndsType, RestType DEF Submit, Kept
  <2> QED
    BY <1>11, <2>1, <2>3, <2>4 DEF Submit
<1>12. CASE Review(c)
  <2>1. inspection' \in Inspections /\ (inspection.submitted => inspection'.submitted)
    <3>1. PICK status \in Statuses : inspection' = Saved(inspection, instance, written(status))
      BY <1>1, <1>12 DEF Review
    <3> QED
      BY <1>0, <1>1, <3>1, SavedType
  <2> QED
    BY <1>0, <1>12, <2>1, EndsType, RestType DEF Review, Kept
<1>13. CASE RetryMedia(c)
  <2>1. image' \in [Images -> Classes]
    BY <1>3, <1>13, SetImageType DEF RetryMedia
  <2> QED
    BY <1>0, <1>13, <2>1, EndsType, RestType DEF RetryMedia, Kept
<1> QED
  BY <1>4, <1>5, <1>6, <1>7, <1>8, <1>9, <1>10, <1>11, <1>12, <1>13

\* A new analysis and the visits of the reconciler.
LEMMA QueueStep ==
    ASSUME TypeOK, NEW c \in Calls,
           \/ TriggerInspectionImageAi(c) \/ EnqueueOnly(c)
           \/ ReconcileMedia(c) \/ ReconcileInspection(c)
    PROVE  Kept
<1> DEFINE instance == work[c].instance
<1>0. c \in Processes /\ instance \in Inspections /\ inspection \in Inspections
      /\ image \in [Images -> Classes] /\ work \in [Processes -> Works]
  BY Members DEF TypeOK, Works
<1>1. {"triggerEnqueue", "recoverEnqueue", "recoverInspection", "idle"} \subseteq Places
      /\ {"queued", "failed"} \subseteq Classes
  BY DEF Places, Classes
<1>2. CASE TriggerInspectionImageAi(c)
  <2>1. PICK i \in Images : /\ SetImage(i, "queued")
                            /\ work' = [work EXCEPT ![c] = [At("triggerEnqueue") EXCEPT !.image = i]]
    BY <1>2 DEF TriggerInspectionImageAi
  <2>2. image' \in [Images -> Classes]
    BY <1>1, <2>1, SetImageType
  <2>3. work' \in [Processes -> Works]
    <3>1. [At("triggerEnqueue") EXCEPT !.image = i] \in Works
      <4>1. At("triggerEnqueue") \in Works
        BY <1>1, AtType
      <4> QED
        BY <4>1 DEF Works
    <3> QED
      BY <1>0, <2>1, <3>1, MovesTo
  <2>4. begun' \in 0..MaxCalls
    BY <1>2, ConstantsAssumption DEF TriggerInspectionImageAi, TypeOK
  <2>5. order' \in Seq(Processes) /\ owed' \in BOOLEAN
    BY <1>2, AccountType DEF TriggerInspectionImageAi
  <2> QED
    BY <1>2, <2>2, <2>3, <2>4, <2>5 DEF TriggerInspectionImageAi, TypeOK, Kept
<1>3. CASE EnqueueOnly(c)
  <2>1. work' \in [Processes -> Works] /\ runs' \in 0..MaxRuns
    <3>1. CASE Enqueued(c, work[c].image, "idle")
      BY <1>1, <3>1, EnqueuedType
    <3>2. CASE Ends(c) /\ UNCHANGED runs
      BY <1>0, <3>2, EndsType DEF TypeOK
    <3> QED
      BY <1>3, <3>1, <3>2 DEF EnqueueOnly
  <2>2. order' \in Seq(Processes) /\ owed' \in BOOLEAN
    BY <1>3, AccountType DEF EnqueueOnly
  <2> QED
    BY <1>3, <2>1, <2>2 DEF EnqueueOnly, TypeOK, Kept
<1>4. CASE ReconcileMedia(c)
  <2>1. image' \in [Images -> Classes]
    BY <1>0, <1>1, <1>4, SetImageType DEF ReconcileMedia
  <2>2. work' \in [Processes -> Works]
    BY <1>0, <1>1, <1>4, GoesType, EndsType DEF ReconcileMedia
  <2> QED
    BY <1>0, <1>4, <2>1, <2>2, RestType DEF ReconcileMedia, Kept
<1>5. CASE ReconcileInspection(c)
  <2>1. instance.status \in Statuses
    BY <1>0 DEF Inspections
  <2>2. /\ WithStatus(instance, StatusWhenQueued(instance, instance.status)) \in Inspections
        /\ WithStatus(instance, StatusWhenQueued(instance, instance.status)).submitted
             = instance.submitted
    BY <1>0, <2>1, WithStatusType, QueuedStatusType
  <2> QED
    BY <1>0, <1>1, <1>5, <2>2, SavesType, RestType DEF ReconcileInspection, Kept
<1> QED
  BY <1>2, <1>3, <1>4, <1>5

LEMMA RunStep ==
    ASSUME TypeOK, NEW i \in Images,
           \/ RunBegins(i) \/ RunClaims(i) \/ RunAnalyses(i) \/ RunScores(i) \/ RunFinishes(i)
           \/ RunTimesOut(i) \/ RunThrows(i) \/ RunThrowsLate(i) \/ MarkInlineJobFailure(i)
    PROVE  Kept
<1> DEFINE instance == work[Run(i)].instance
<1>0. /\ Run(i) \in Processes /\ Fail(i) \in Processes
      /\ instance \in Inspections /\ inspection \in Inspections
      /\ image \in [Images -> Classes] /\ work \in [Processes -> Works]
  BY Members DEF TypeOK, Works
<1>1. /\ {"claim", "analyse", "score", "rollup", "failMedia", "idle"} \subseteq Places
      /\ {"processing", "scored", "suspect", "failed", "queued"} \subseteq Classes
  BY DEF Places, Classes
<1>2. CASE RunBegins(i)
  <2>1. [work[Run(i)] EXCEPT !.at = "claim", !.instance = inspection] \in Works
    BY <1>0, <1>1 DEF Works
  <2>2. work' = [work EXCEPT ![Run(i)] =
                    [work[Run(i)] EXCEPT !.at = "claim", !.instance = inspection]]
    BY <1>0, <1>2 DEF RunBegins
  <2>3. work' \in [Processes -> Works]
    BY <1>0, <2>1, <2>2, MovesTo
  <2> QED
    BY <1>0, <1>2, <2>3, RestType DEF RunBegins, Kept
<1>3. CASE RunClaims(i)
  <2>1. instance.status \in Statuses
    BY <1>0 DEF Inspections
  <2>2. /\ WithStatus(instance, StatusWhenQueued(instance, instance.status)) \in Inspections
        /\ WithStatus(instance, StatusWhenQueued(instance, instance.status)).submitted
             = instance.submitted
    BY <1>0, <2>1, WithStatusType, QueuedStatusType
  <2> QED
    BY <1>0, <1>1, <1>3, <2>2, SavesType, RestType DEF RunClaims, Kept
<1>4. CASE RunAnalyses(i) \/ RunScores(i)
  <2>1. image' \in [Images -> Classes]
    BY <1>0, <1>1, <1>4, SetImageType DEF RunAnalyses, RunScores
  <2>2. work' \in [Processes -> Works]
    BY <1>0, <1>1, <1>4, GoesType DEF RunAnalyses, RunScores
  <2> QED
    BY <1>0, <1>4, <2>1, <2>2, RestType DEF RunAnalyses, RunScores, Kept
<1>5. CASE RunFinishes(i)
  <2>1. inspection' \in Inspections /\ (inspection.submitted => inspection'.submitted)
    BY <1>0, <1>5, SavedType DEF RunFinishes
  <2> QED
    BY <1>0, <1>5, <2>1, EndsType, RestType DEF RunFinishes, Kept
<1>6. CASE RunTimesOut(i)
  <2>1. work' \in [Processes -> Works]
    BY <1>0, <1>1, <1>6, GoesType DEF RunTimesOut
  <2>2. failures' \in 0..MaxFailures
    BY <1>6, ConstantsAssumption DEF RunTimesOut, TypeOK
  <2>3. order' \in Seq(Processes) /\ owed' \in BOOLEAN
    BY <1>6, AccountType DEF RunTimesOut
  <2> QED
    BY <1>6, <2>1, <2>2, <2>3 DEF RunTimesOut, TypeOK, Kept
<1>7. CASE RunThrows(i)
  <2>1. work' \in [Processes -> Works]
    <3> DEFINE w == [work EXCEPT ![Run(i)] = At("idle")]
    <3>1. w \in [Processes -> Works]
      BY <1>0, <1>1, AtType
    <3>2. [w[Fail(i)] EXCEPT !.at = "failMedia"] \in Works
      BY <1>0, <1>1, <3>1 DEF Works
    <3>3. work' = [w EXCEPT ![Fail(i)] = [w[Fail(i)] EXCEPT !.at = "failMedia"]]
      BY <1>0, <1>7 DEF RunThrows
    <3> QED
      BY <1>0, <3>1, <3>2, <3>3
  <2>2. failures' \in 0..MaxFailures
    BY <1>7, ConstantsAssumption DEF RunThrows, TypeOK
  <2>3. order' \in Seq(Processes)
    <3>1. order \in Seq(Processes)
      BY DEF TypeOK
    <3>2. ASSUME NEW n \in DOMAIN order,
                 order' = SubSeq(order, 1, n - 1) \o SubSeq(order, n + 1, Len(order))
          PROVE  order' \in Seq(Processes)
      <4>1. SubSeq(order, 1, n - 1) \in Seq(Processes)
        BY <3>1
      <4>2. SubSeq(order, n + 1, Len(order)) \in Seq(Processes)
        BY <3>1
      <4> QED
        BY <3>2, <4>1, <4>2
    <3> QED
      BY <1>7, <3>1, <3>2 DEF RunThrows
  <2> QED
    BY <1>7, <2>1, <2>2, <2>3 DEF RunThrows, TypeOK, Kept
<1>8. CASE RunThrowsLate(i)
  BY <1>0, <1>8, EndsType, RestType DEF RunThrowsLate, Kept
<1>9. CASE MarkInlineJobFailure(i)
  <2>1. image' \in [Images -> Classes]
    BY <1>0, <1>1, <1>9 DEF MarkInlineJobFailure
  <2>2. work' \in [Processes -> Works]
    BY <1>0, <1>1, <1>9, GoesType DEF MarkInlineJobFailure
  <2> QED
    BY <1>0, <1>9, <2>1, <2>2, RestType DEF MarkInlineJobFailure, Kept
<1> QED
  BY <1>2, <1>3, <1>4, <1>5, <1>6, <1>7, <1>8, <1>9

\* A call or the handler of a failure throws.
LEMMA ThrowStep ==
    ASSUME TypeOK, NEW p \in Processes, Throws(p)
    PROVE  Kept
<1>1. work' \in [Processes -> Works]
  <2>1. At("idle") \in Works /\ At("failed") \in Works
    BY AtType DEF Places
  <2>2. PICK w \in Works : work' = [work EXCEPT ![p] = w]
    BY <2>1 DEF Throws
  <2> QED
    BY <2>2, MovesTo
<1>2. failures' \in 0..MaxFailures
  BY ConstantsAssumption DEF Throws, TypeOK
<1>3. order' \in Seq(Processes) /\ owed' \in BOOLEAN
  BY AccountType DEF Throws
<1> QED
  BY <1>1, <1>2, <1>3 DEF Throws, TypeOK, Kept

-----------------------------------------------------------------------------
LEMMA InitTyped == Init => TypeOK
<1> SUFFICES ASSUME Init PROVE TypeOK
  OBVIOUS
<1>1. {"none", "uploading", "scored"} \subseteq Classes /\ "idle" \in Places
  BY DEF Classes, Places
<1>2. inspection \in Inspections
  BY StatusType DEF Init, Inspections
<1>3. work \in [Processes -> Works]
  BY <1>1, AtType DEF Init
<1>4. image \in [Images -> Classes]
  BY <1>1 DEF Init
<1>5. order \in Seq(Processes) /\ owed \in BOOLEAN
  <2>1. order = <<>> /\ owed = FALSE
    BY DEF Init
  <2>2. <<>> \in Seq(Processes)
    OBVIOUS
  <2> QED
    BY <2>1, <2>2
<1>6. begun \in 0..MaxCalls /\ runs \in 0..MaxRuns /\ failures \in 0..MaxFailures
  BY ConstantsAssumption DEF Init
<1> QED
  BY <1>2, <1>3, <1>4, <1>5, <1>6 DEF TypeOK

LEMMA Step == TypeOK /\ [Next]_vars => Kept
<1> SUFFICES ASSUME TypeOK, [Next]_vars PROVE Kept
  OBVIOUS
<1>1. CASE UNCHANGED vars
  <2>1. image' = image /\ inspection' = inspection /\ work' = work /\ begun' = begun
        /\ runs' = runs /\ failures' = failures /\ order' = order /\ owed' = owed
    BY <1>1 DEF vars
  <2> QED
    BY <2>1 DEF TypeOK, Kept
<1>2. CASE Next
  BY <1>2, RollupStep, CallStep, RequestStep, QueueStep, RunStep, ThrowStep DEF Next, Processes
<1> QED
  BY <1>1, <1>2

\* The variables keep their types, whatever the number of images, calls and runs.
THEOREM TypeCorrect == Spec => []TypeOK
<1>1. TypeOK /\ [Next]_vars => TypeOK'
  BY Step DEF Kept
<1> QED
  BY InitTyped, <1>1, PTL DEF Spec

\* A submitted inspection stays submitted: no handler that overlaps the submission
\* (a run, an upload, the reconciler, a rollup) takes submitted_at back.
THEOREM SubmittedStays == Spec => SubmittedForGood
<1>1. TypeOK /\ [Next]_vars => [inspection.submitted => inspection'.submitted]_vars
  BY Step DEF Kept
<1> QED
  BY TypeCorrect, <1>1, PTL DEF Spec, SubmittedForGood

-----------------------------------------------------------------------------
(* The status at rest.                                                     *)

\* Where a rollup is still to be read by the process, or by the run it adds.
Owing == {"confirmInspection", "queueMedia", "uploadInspection", "queueInspection", "enqueue",
          "triggerEnqueue", "recoverInspection", "recoverEnqueue",
          "queued", "claim", "analyse", "score", "failMedia", "rollup"}

\* Where a rollup has read the inspection and not written it.
Rolling == {"rollupImages", "rollupSave"}

\* Where a call may leave the rollup to a run, and comes from.
Naming == {"recoverMedia", "recoverInspection", "recoverEnqueue", "triggerEnqueue"}

RollupDue == \E p \in Processes : work[p].at \in Owing

\* The rollups in the order are under way, each of them once.
InOrder ==
    \A n \in DOMAIN order :
        /\ work[order[n]].at \in Rolling
        /\ \A m \in DOMAIN order : order[m] = order[n] => m = n

ImageNamed == \A p \in Processes : work[p].at \in Naming => work[p].image \in Images

Follows == inspection.status = resolveInspectionStatus(image, inspection.submitted)

\* What a rollup is going to write follows from the images as they are.
WillFollow(p) ==
    /\ work[p].rollup.submitted = inspection.submitted
    /\ work[p].at = "rollupSave" => work[p].derived = resolveInspectionStatus(image, inspection.submitted)

\* When no rollup is due any more, the last that has read will write the status that follows,
\* and when that one has written too, it follows.
LastFollows ==
    ~RollupDue => IF order = <<>> THEN owed \/ Follows ELSE WillFollow(order[Len(order)])

RollupInv == TypeOK /\ InOrder /\ ImageNamed /\ LastFollows

LEMMA LastInOrder ==
    ASSUME TypeOK, order # <<>>
    PROVE  /\ Len(order) \in DOMAIN order
           /\ \A n \in DOMAIN order : order[n] \in Processes
<1>1. order \in Seq(Processes)
  BY DEF TypeOK
<1> QED
  BY <1>1

\* A step that leaves those under way alone leaves the order right, and the last in it.
LEMMA OrderStays ==
    ASSUME TypeOK, InOrder, order' = order \/ order' = <<>>,
           \A q \in Processes : work[q].at \in Rolling => work'[q] = work[q]
    PROVE  InOrder'
<1>1. CASE order' = <<>>
  BY <1>1 DEF InOrder
<1>2. CASE order' = order
  <2>1. \A n \in DOMAIN order : order[n] \in Processes
    BY LastInOrder DEF TypeOK
  <2>2. \A n \in DOMAIN order : work'[order[n]] = work[order[n]]
    BY <2>1 DEF InOrder
  <2> QED
    BY <1>2, <2>2 DEF InOrder
<1> QED
  BY <1>1, <1>2

LEMMA LastStays ==
    ASSUME TypeOK, InOrder, LastFollows, UNCHANGED <<image, inspection, order, owed>>,
           \A q \in Processes : work[q].at \in Rolling => work'[q] = work[q],
           \A q \in Processes : work[q].at \in Owing => work'[q].at \in Owing
    PROVE  LastFollows'
<1> SUFFICES ASSUME ~RollupDue'
             PROVE  IF order' = <<>> THEN (owed \/ Follows)' ELSE WillFollow(order[Len(order)])'
  BY DEF LastFollows
<1>1. ~RollupDue
  BY DEF RollupDue
<1>2. image' = image /\ inspection' = inspection /\ order' = order /\ owed' = owed
  OBVIOUS
<1>3. CASE order = <<>>
  BY <1>1, <1>2, <1>3 DEF LastFollows, Follows
<1>4. CASE order # <<>>
  <2>1. WillFollow(order[Len(order)])
    BY <1>1, <1>4 DEF LastFollows
  <2>2. order[Len(order)] \in Processes /\ work[order[Len(order)]].at \in Rolling
    BY <1>4, LastInOrder DEF InOrder
  <2>3. work'[order[Len(order)]] = work[order[Len(order)]]
    BY <2>2
  <2> QED
    BY <1>2, <1>4, <2>1, <2>3 DEF WillFollow
<1> QED
  BY <1>3, <1>4

\* A step of one process that has no rollup under way: it owes one, or leaves it owed, or
\* changes nothing that a rollup would have to see.
LEMMA OneMoves ==
    ASSUME RollupInv, TypeOK', NEW p \in Processes, work[p].at \notin Rolling,
           \A q \in Processes \ {p} : work'[q] = work[q],
           work'[p].at \in Naming => work'[p].image \in Images,
           \/ KeepsAccount /\ work'[p].at \in Owing
           \/ LeavesOwed
           \/ KeepsAccount /\ UNCHANGED <<image, inspection>> /\ work[p].at \notin Owing
    PROVE  RollupInv'
<1>1. \A q \in Processes : work[q].at \in Rolling => work'[q] = work[q]
  OBVIOUS
<1>2. InOrder'
  BY <1>1, OrderStays DEF RollupInv, KeepsAccount, LeavesOwed
<1>3. ImageNamed'
  BY DEF RollupInv, ImageNamed
<1>4. LastFollows'
  <2>1. CASE KeepsAccount /\ work'[p].at \in Owing
    BY <2>1 DEF LastFollows, RollupDue
  <2>2. CASE LeavesOwed
    BY <2>2 DEF LeavesOwed, LastFollows
  <2>3. CASE KeepsAccount /\ UNCHANGED <<image, inspection>> /\ work[p].at \notin Owing
    <3>1. \A q \in Processes : work[q].at \in Owing => work'[q].at \in Owing
      BY <2>3
    <3> QED
      BY <1>1, <2>3, <3>1, LastStays DEF KeepsAccount, RollupInv
  <2> QED
    BY <2>1, <2>2, <2>3
<1> QED
  BY <1>2, <1>3, <1>4 DEF RollupInv

\* What the moves of a process make of it.
LEMMA MoveEffects ==
    ASSUME TypeOK, NEW p \in Processes, NEW place
    PROVE  /\ Goes(p, place) => work'[p].at = place /\ work'[p].image = work[p].image
           /\ \A values : Saves(p, values, place) => work'[p].at = place /\ work'[p].image = work[p].image
           /\ Ends(p) => work'[p].at = "idle"
           /\ Rolls(p) => work'[p].at = "rollup"
           /\ Goes(p, place) \/ Ends(p) \/ Rolls(p) \/ (\E values : Saves(p, values, place))
                => \A q \in Processes \ {p} : work'[q] = work[q]
<1>1. DOMAIN work = Processes /\ work \in [Processes -> Works] /\ work[p] \in Works
  BY DEF TypeOK
<1>2. ASSUME Goes(p, place) PROVE /\ work'[p].at = place /\ work'[p].image = work[p].image
                                  /\ \A q \in Processes \ {p} : work'[q] = work[q]
  BY <1>1, <1>2 DEF Goes, Works
<1>3. ASSUME NEW values, Saves(p, values, place)
      PROVE  /\ work'[p].at = place /\ work'[p].image = work[p].image
             /\ \A q \in Processes \ {p} : work'[q] = work[q]
  BY <1>1, <1>3 DEF Saves, Works
<1>4. ASSUME Ends(p) PROVE work'[p].at = "idle" /\ \A q \in Processes \ {p} : work'[q] = work[q]
  BY <1>1, <1>4 DEF Ends, At
<1>5. ASSUME Rolls(p) PROVE work'[p].at = "rollup" /\ \A q \in Processes \ {p} : work'[q] = work[q]
  BY <1>1, <1>5 DEF Rolls, At
<1> QED
  BY <1>2, <1>3, <1>4, <1>5

\* A call goes on, whatever its request.
LEMMA RequestFollows ==
    ASSUME RollupInv, TypeOK', NEW c \in Calls,
           \/ Call(c) \/ CreateSessions(c) \/ ConfirmMedia(c) \/ ConfirmInspection(c)
           \/ QueueMedia(c) \/ QueueInspection(c)
           \/ UploadMedia(c) \/ UploadCsv(c) \/ RetryMedia(c)
           \/ Submit(c) \/ Review(c)
    PROVE  RollupInv'
<1>0. c \in Processes /\ TypeOK
  BY Members DEF RollupInv
<1>1. CASE Call(c)
  <2>1. PICK place \in {"createSessions", "confirmMedia", "uploadMedia", "recoverMedia", "uploadCsv",
                        "retryMedia", "submit", "review"}, i \in Images \cup {"-"} :
            Begins(c, place, i) /\ (place = "recoverMedia" => i \in Images)
    BY <1>1 DEF Call
  <2>2. work[c].at = "idle" /\ work' = [work EXCEPT ![c] = [At(place) EXCEPT !.image = i, !.instance = inspection]]
    BY <2>1 DEF Begins
  <2>3. work'[c].at = place /\ work'[c].image = i /\ \A q \in Processes \ {c} : work'[q] = work[q]
    BY <1>0, <2>2 DEF TypeOK, At
  <2>4. KeepsAccount /\ UNCHANGED <<image, inspection>>
    BY <1>1 DEF Call, KeepsAccount
  <2> QED
    BY <1>0, <2>1, <2>2, <2>3, <2>4, OneMoves DEF Owing, Rolling, Naming
<1>2. CASE CreateSessions(c)
  <2>1. work[c].at = "createSessions" /\ Rolls(c) /\ KeepsAccount
    BY <1>2 DEF CreateSessions, SavesLast
  <2> QED
    BY <1>0, <2>1, MoveEffects, OneMoves DEF Owing, Rolling, Naming
<1>3. CASE ConfirmMedia(c)
  <2>1. work[c].at = "confirmMedia" /\ KeepsAccount /\ UNCHANGED inspection
        /\ (Goes(c, "confirmInspection") \/ (UNCHANGED image /\ Ends(c)))
    BY <1>3 DEF ConfirmMedia
  <2> QED
    BY <1>0, <2>1, MoveEffects, OneMoves DEF Owing, Rolling, Naming
<1>4. CASE ConfirmInspection(c)
  <2>1. PICK step \in {<<"confirmInspection", "queueMedia">>, <<"uploadInspection", "queueInspection">>} :
            /\ work[c].at = step[1]
            /\ Saves(c, WithStatus(work[c].instance, "IN_PROGRESS"), step[2])
    BY <1>4 DEF ConfirmInspection
  <2>2. KeepsAccount
    BY <1>4 DEF ConfirmInspection
  <2>3. work'[c].at = step[2] /\ \A q \in Processes \ {c} : work'[q] = work[q]
    BY <1>0, <2>1, MoveEffects
  <2> QED
    BY <1>0, <2>1, <2>2, <2>3, OneMoves DEF Owing, Rolling, Naming
<1>5. CASE QueueMedia(c) \/ UploadMedia(c)
  <2>1. work[c].at \in {"queueMedia", "uploadMedia"} /\ KeepsAccount
        /\ \E place \in {"queueInspection", "uploadInspection"} : Goes(c, place)
    BY <1>5 DEF QueueMedia, UploadMedia
  <2>2. PICK place \in {"queueInspection", "uploadInspection"} : Goes(c, place)
    BY <2>1
  <2>3. work'[c].at = place /\ \A q \in Processes \ {c} : work'[q] = work[q]
    BY <1>0, <2>2, MoveEffects
  <2> QED
    BY <1>0, <2>1, <2>3, OneMoves DEF Owing, Rolling, Naming
<1>6. CASE QueueInspection(c)
  <2>1. work[c].at = "queueInspection" /\ KeepsAccount /\ \E values : Saves(c, values, "enqueue")
    BY <1>6 DEF QueueInspection
  <2>2. work'[c].at = "enqueue" /\ \A q \in Processes \ {c} : work'[q] = work[q]
    BY <1>0, <2>1, MoveEffects
  <2> QED
    BY <1>0, <2>1, <2>2, OneMoves DEF Owing, Rolling, Naming
<1>7. CASE UploadCsv(c) \/ RetryMedia(c) \/ Review(c)
  <2>1. work[c].at \in {"uploadCsv", "retryMedia", "review"} /\ LeavesOwed /\ Ends(c)
    BY <1>7 DEF UploadCsv, RetryMedia, Review
  <2> QED
    BY <1>0, <2>1, MoveEffects, OneMoves DEF Owing, Rolling, Naming
<1>8. CASE Submit(c)
  <2>1. /\ work[c].at = "submit" /\ UNCHANGED image
        /\ \/ KeepsAccount /\ Rolls(c)
           \/ KeepsAccount /\ UNCHANGED inspection /\ Ends(c)
           \/ LeavesOwed /\ Ends(c)
    BY <1>8 DEF Submit, SavesLast
  <2> QED
    BY <1>0, <2>1, MoveEffects, OneMoves DEF Owing, Rolling, Naming
<1> QED
  BY <1>1, <1>2, <1>3, <1>4, <1>5, <1>6, <1>7, <1>8

\* A run that is taken on owes the rollup, a call that goes to one itself too.
LEMMA EnqueuedFollows ==
    ASSUME RollupInv, TypeOK', NEW c \in Calls, NEW i, NEW place \in {"idle", "rollup"},
           work[c].at \notin Rolling \cup {"idle"}, Enqueued(c, i, place), KeepsAccount,
           i \in Images \/ place = "rollup"
    PROVE  RollupInv'
<1>0. c \in Processes /\ TypeOK /\ work \in [Processes -> Works]
  BY Members DEF RollupInv, TypeOK
<1>1. /\ work[Run(i)].at = "idle" /\ work[Fail(i)].at \in {"idle", "failed"}
      /\ work' = [work EXCEPT ![Run(i)].at = "queued", ![Fail(i)] = At("idle"), ![c] = At(place)]
  BY DEF Enqueued
<1>2. Run(i) # Fail(i)
  BY DEF Run, Fail
<1>3. At(place).at = place /\ At("idle").at = "idle"
  BY DEF At
<1>4. work'[c] = At(place)
  BY <1>0, <1>1
<1>5. \A q \in Processes \ {c, Run(i), Fail(i)} : work'[q] = work[q]
  BY <1>0, <1>1
<1>6. \A q \in Processes : work[q].at \in Rolling => work'[q] = work[q]
  BY <1>1, <1>5 DEF Rolling
<1>7. \E p \in Processes : work'[p].at \in Owing
  <2>1. CASE place = "rollup"
    BY <1>0, <1>3, <1>4, <2>1 DEF Owing
  <2>2. CASE i \in Images /\ c # Run(i)
    <3>1. Run(i) \in Processes
      BY <2>2, Members
    <3>2. work[Run(i)] \in Works
      BY <1>0, <3>1
    <3>3. work'[Run(i)].at = "queued"
      BY <1>0, <1>1, <1>2, <2>2, <3>1, <3>2 DEF Works
    <3> QED
      BY <3>1, <3>3 DEF Owing
  <2> QED
    BY <1>1, <2>1, <2>2
<1>8. InOrder'
  BY <1>0, <1>6, OrderStays DEF RollupInv, KeepsAccount
<1>9. ImageNamed'
  <2>1. ASSUME NEW q \in Processes, work'[q].at \in Naming PROVE work'[q].image \in Images
    <3>1. q # c
      BY <1>3, <1>4, <2>1 DEF Naming
    <3>2. q # Fail(i)
      BY <1>0, <1>1, <1>3, <2>1, <3>1 DEF Naming
    <3>3. q # Run(i)
      <4>1. SUFFICES ASSUME q = Run(i) PROVE FALSE
        OBVIOUS
      <4>2. work[q] \in Works
        BY <1>0
      <4>3. work'[q].at = "queued"
        BY <1>0, <1>1, <1>2, <3>1, <4>1, <4>2 DEF Works
      <4> QED
        BY <2>1, <4>3 DEF Naming
    <3> QED
      BY <1>5, <2>1, <3>1, <3>2, <3>3 DEF RollupInv, ImageNamed
  <2> QED
    BY <2>1 DEF ImageNamed
<1>10. LastFollows'
  BY <1>7 DEF LastFollows, RollupDue
<1> QED
  BY <1>8, <1>9, <1>10 DEF RollupInv

LEMMA QueueFollows ==
    ASSUME RollupInv, TypeOK', NEW c \in Calls,
           \/ Enqueue(c) \/ TriggerInspectionImageAi(c) \/ EnqueueOnly(c)
           \/ ReconcileMedia(c) \/ ReconcileInspection(c)
    PROVE  RollupInv'
<1>0. c \in Processes /\ TypeOK
  BY Members DEF RollupInv
<1>1. CASE Enqueue(c)
  <2>1. work[c].at = "enqueue" /\ KeepsAccount
        /\ (Enqueued(c, work[c].image, "rollup") \/ Rolls(c))
    BY <1>1 DEF Enqueue
  <2>2. CASE Enqueued(c, work[c].image, "rollup")
    BY <2>1, <2>2, EnqueuedFollows DEF Rolling
  <2>3. CASE Rolls(c)
    BY <1>0, <2>1, <2>3, MoveEffects, OneMoves DEF Owing, Rolling, Naming
  <2> QED
    BY <2>1, <2>2, <2>3
<1>2. CASE TriggerInspectionImageAi(c)
  <2>1. PICK i \in Images : work' = [work EXCEPT ![c] = [At("triggerEnqueue") EXCEPT !.image = i]]
    BY <1>2 DEF TriggerInspectionImageAi
  <2>2. work[c].at = "idle" /\ KeepsAccount
    BY <1>2 DEF TriggerInspectionImageAi
  <2>3. /\ work'[c].at = "triggerEnqueue" /\ work'[c].image = i
        /\ \A q \in Processes \ {c} : work'[q] = work[q]
    BY <1>0, <2>1 DEF TypeOK, At
  <2> QED
    BY <1>0, <2>2, <2>3, OneMoves DEF Owing, Rolling
<1>3. CASE EnqueueOnly(c)
  <2>1. work[c].at \in {"triggerEnqueue", "recoverEnqueue"}
        /\ \/ Enqueued(c, work[c].image, "idle") /\ KeepsAccount
           \/ Ends(c) /\ LeavesOwed
    BY <1>3 DEF EnqueueOnly
  <2>2. work[c].image \in Images
    BY <1>0, <2>1 DEF RollupInv, ImageNamed, Naming
  <2>3. CASE Enqueued(c, work[c].image, "idle") /\ KeepsAccount
    BY <2>1, <2>2, <2>3, EnqueuedFollows DEF Rolling
  <2>4. CASE Ends(c) /\ LeavesOwed
    BY <1>0, <2>1, <2>4, MoveEffects, OneMoves DEF Rolling, Naming
  <2> QED
    BY <2>1, <2>3, <2>4
<1>4. CASE ReconcileMedia(c)
  <2>1. work[c].at = "recoverMedia" /\ UNCHANGED inspection
        /\ \/ Goes(c, "recoverInspection") /\ KeepsAccount
           \/ Ends(c) /\ LeavesOwed
           \/ UNCHANGED image /\ Ends(c) /\ KeepsAccount
    BY <1>4 DEF ReconcileMedia
  <2>2. work[c].image \in Images
    BY <1>0, <2>1 DEF RollupInv, ImageNamed, Naming
  <2> QED
    BY <1>0, <2>1, <2>2, MoveEffects, OneMoves DEF Owing, Rolling, Naming
<1>5. CASE ReconcileInspection(c)
  <2>1. work[c].at = "recoverInspection" /\ KeepsAccount /\ \E values : Saves(c, values, "recoverEnqueue")
    BY <1>5 DEF ReconcileInspection
  <2>2. work[c].image \in Images
    BY <1>0, <2>1 DEF RollupInv, ImageNamed, Naming
  <2> QED
    BY <1>0, <2>1, <2>2, MoveEffects, OneMoves DEF Owing, Rolling
<1> QED
  BY <1>1, <1>2, <1>3, <1>4, <1>5

\* An analysis and the handler of its failure go on.
LEMMA RunFollows ==
    ASSUME RollupInv, TypeOK', NEW i \in Images,
           \/ RunBegins(i) \/ RunClaims(i) \/ RunAnalyses(i) \/ RunScores(i) \/ RunFinishes(i)
           \/ RunTimesOut(i) \/ RunThrowsLate(i) \/ MarkInlineJobFailure(i)
    PROVE  RollupInv'
<1>0. /\ Run(i) \in Processes /\ Fail(i) \in Processes /\ TypeOK
      /\ work \in [Processes -> Works] /\ work[Run(i)] \in Works
      /\ work[Run(i)].instance \in Inspections /\ inspection \in Inspections
  BY Members DEF RollupInv, TypeOK, Works
<1>1. CASE RunBegins(i)
  <2>1. work[Run(i)].at = "queued" /\ KeepsAccount
        /\ work' = [work EXCEPT ![Run(i)].at = "claim", ![Run(i)].instance = inspection]
    BY <1>1 DEF RunBegins
  <2>2. work'[Run(i)].at = "claim" /\ \A q \in Processes \ {Run(i)} : work'[q] = work[q]
    BY <1>0, <2>1 DEF Works
  <2> QED
    BY <1>0, <2>1, <2>2, OneMoves DEF Owing, Rolling, Naming
<1>2. CASE RunClaims(i)
  <2>1. work[Run(i)].at = "claim" /\ KeepsAccount /\ \E values : Saves(Run(i), values, "analyse")
    BY <1>2 DEF RunClaims
  <2>2. work'[Run(i)].at = "analyse" /\ \A q \in Processes \ {Run(i)} : work'[q] = work[q]
    BY <1>0, <2>1, MoveEffects
  <2> QED
    BY <1>0, <2>1, <2>2, OneMoves DEF Owing, Rolling, Naming
<1>3. CASE RunAnalyses(i) \/ RunScores(i)
  <2>1. PICK place \in {"rollup", "score"} : Goes(Run(i), place)
    BY <1>3 DEF RunAnalyses, RunScores
  <2>2. work[Run(i)].at \in {"analyse", "score"} /\ KeepsAccount
    BY <1>3 DEF RunAnalyses, RunScores
  <2>3. work'[Run(i)].at = place /\ \A q \in Processes \ {Run(i)} : work'[q] = work[q]
    BY <1>0, <2>1, MoveEffects
  <2> QED
    BY <1>0, <2>2, <2>3, OneMoves DEF Owing, Rolling, Naming
<1>4. CASE RunFinishes(i)
  <2>1. work[Run(i)].at = "finish" /\ Ends(Run(i)) /\ KeepsAccount /\ UNCHANGED image
        /\ inspection' = Saved(inspection, work[Run(i)].instance, work[Run(i)].instance)
    BY <1>4 DEF RunFinishes
  <2>2. inspection' = inspection
    BY <1>0, <2>1 DEF Saved, Inspections
  <2> QED
    BY <1>0, <2>1, <2>2, MoveEffects, OneMoves DEF Owing, Rolling, Naming
<1>5. CASE RunTimesOut(i)
  <2>1. work[Fail(i)].at = "idle" /\ Goes(Fail(i), "failMedia") /\ KeepsAccount
    BY <1>5 DEF RunTimesOut
  <2> QED
    BY <1>0, <2>1, MoveEffects, OneMoves DEF Owing, Rolling, Naming
<1>6. CASE MarkInlineJobFailure(i)
  <2>1. work[Fail(i)].at = "failMedia" /\ Goes(Fail(i), "rollup") /\ KeepsAccount
    BY <1>6 DEF MarkInlineJobFailure
  <2> QED
    BY <1>0, <2>1, MoveEffects, OneMoves DEF Owing, Rolling, Naming
<1>7. CASE RunThrowsLate(i)
  <2>1. Ends(Run(i)) /\ LeavesOwed
    BY <1>7 DEF RunThrowsLate
  <2>2. work'[Run(i)].at = "idle" /\ \A q \in Processes \ {Run(i)} : work'[q] = work[q]
    BY <1>0, <2>1, MoveEffects
  <2>3. InOrder' /\ LastFollows'
    BY <2>1 DEF LeavesOwed, InOrder, LastFollows
  <2>4. ImageNamed'
    BY <2>2 DEF RollupInv, ImageNamed, Naming
  <2> QED
    BY <2>3, <2>4 DEF RollupInv
<1> QED
  BY <1>1, <1>2, <1>3, <1>4, <1>5, <1>6, <1>7

\* A run that throws is no longer in the order, and the handler of its failure owes the rollup.
LEMMA ThrowFollows ==
    ASSUME RollupInv, TypeOK', NEW i \in Images, RunThrows(i)
    PROVE  RollupInv'
<1>0. /\ Run(i) \in Processes /\ Fail(i) \in Processes /\ TypeOK /\ Run(i) # Fail(i)
      /\ work \in [Processes -> Works] /\ work[Fail(i)] \in Works /\ order \in Seq(Processes)
  BY Members DEF RollupInv, TypeOK, Run, Fail
<1>1. /\ work[Fail(i)].at = "idle"
      /\ work' = [work EXCEPT ![Run(i)] = At("idle"), ![Fail(i)].at = "failMedia"]
  BY DEF RunThrows
<1>2. /\ work'[Run(i)].at = "idle" /\ work'[Fail(i)].at = "failMedia"
      /\ \A q \in Processes \ {Run(i), Fail(i)} : work'[q] = work[q]
  BY <1>0, <1>1 DEF Works, At
<1>3. LastFollows'
  BY <1>0, <1>2 DEF LastFollows, RollupDue, Owing
<1>4. ImageNamed'
  BY <1>0, <1>2 DEF RollupInv, ImageNamed, Naming
<1>5. InOrder'
  <2>1. ASSUME NEW n \in DOMAIN order, order[n] = Run(i),
               order' = SubSeq(order, 1, n - 1) \o SubSeq(order, n + 1, Len(order))
        PROVE  InOrder'
    <3>1. n \in Nat /\ 1 <= n /\ n <= Len(order) /\ Len(order) \in Nat
      BY <1>0, <2>1
    <3> DEFINE a == SubSeq(order, 1, n - 1)
               b == SubSeq(order, n + 1, Len(order))
    <3>9. a \in Seq(Processes) /\ Len(a) = n - 1 /\ \A m \in 1 .. n - 1 : a[m] = order[m]
      BY <1>0, <3>1
    <3>10. b \in Seq(Processes) /\ Len(b) = Len(order) - n
      BY <1>0, <3>1
    <3>11. \A m \in 1 .. Len(order) - n : b[m] = order[n + m]
      BY <1>0, <3>1
    <3>12. order' = a \o b
      BY <2>1
    <3> HIDE DEF a, b
    <3>2. Len(order') = Len(order) - 1 /\ DOMAIN order' = 1 .. Len(order) - 1
      BY <1>0, <3>1, <3>9, <3>10, <3>12
    <3>3. \A m \in DOMAIN order' : order'[m] = order[IF m < n THEN m ELSE m + 1]
      <4>1. ASSUME NEW m \in DOMAIN order', m < n PROVE order'[m] = order[m]
        BY <3>1, <3>2, <3>9, <3>10, <3>12, <4>1
      <4>2. ASSUME NEW m \in DOMAIN order', ~(m < n) PROVE order'[m] = order[m + 1]
        <5>1. m \in Nat /\ m - (n - 1) \in 1 .. Len(order) - n /\ n + (m - (n - 1)) = m + 1
          BY <3>1, <3>2, <4>2
        <5>2. Len(a) \in Nat /\ Len(b) \in Nat /\ m \in 1 .. Len(a) + Len(b) /\ ~(m <= Len(a))
          BY <3>1, <3>2, <3>9, <3>10, <4>2
        <5>3. (a \o b)[m] = b[m - Len(a)]
          BY <3>9, <3>10, <5>2
        <5> QED
          BY <3>9, <3>11, <3>12, <5>1, <5>3
      <4> QED
        BY <4>1, <4>2
    <3>4. \A m \in DOMAIN order' : (IF m < n THEN m ELSE m + 1) \in DOMAIN order \ {n}
      BY <1>0, <3>1, <3>2
    <3>5. \A m \in DOMAIN order \ {n} : order[m] # Run(i) /\ work[order[m]].at \in Rolling /\ order[m] \in Processes
      BY <1>0, <2>1 DEF RollupInv, InOrder
    <3>6. \A m \in DOMAIN order \ {n} : work'[order[m]].at \in Rolling
      BY <1>1, <1>2, <3>5 DEF Rolling
    <3>7. \A m \in DOMAIN order' : work'[order'[m]].at \in Rolling
      BY <3>3, <3>4, <3>6
    <3>8. ASSUME NEW l \in DOMAIN order', NEW m \in DOMAIN order', order'[l] = order'[m] PROVE l = m
      <4>1. (IF l < n THEN l ELSE l + 1) = (IF m < n THEN m ELSE m + 1)
        BY <3>3, <3>4, <3>8 DEF RollupInv, InOrder
      <4> QED
        BY <3>1, <3>2, <4>1
    <3> QED
      BY <3>7, <3>8 DEF InOrder
  <2>2. ASSUME \A n \in DOMAIN order : order[n] # Run(i), order' = order
        PROVE  InOrder'
    <3>1. \A n \in DOMAIN order : order[n] \in Processes \ {Run(i), Fail(i)}
      BY <1>0, <1>1, <2>2 DEF RollupInv, InOrder, Rolling
    <3> QED
      BY <1>2, <2>2, <3>1 DEF RollupInv, InOrder
  <2> QED
    BY <2>1, <2>2 DEF RunThrows
<1> QED
  BY <1>3, <1>4, <1>5 DEF RollupInv

\* A call or the handler of a failure throws: it had written nothing, or leaves a rollup owed.
LEMMA BreakFollows ==
    ASSUME RollupInv, TypeOK', NEW p \in Processes, Throws(p)
    PROVE  RollupInv'
<1>0. TypeOK /\ work \in [Processes -> Works]
  BY DEF RollupInv, TypeOK
<1>1. work'[p].at \in {"idle", "failed"} /\ \A q \in Processes \ {p} : work'[q] = work[q]
  BY <1>0 DEF Throws, At
<1>2. UNCHANGED <<image, inspection>>
  BY DEF Throws
<1>3. CASE work[p].at \in Unwritten
  <2>1. KeepsAccount
    BY <1>3 DEF Throws
  <2> QED
    BY <1>1, <1>2, <1>3, <2>1, OneMoves DEF Unwritten, Owing, Rolling, Naming
<1>4. CASE work[p].at \notin Unwritten
  <2>1. LeavesOwed
    BY <1>4 DEF Throws
  <2>2. InOrder' /\ LastFollows'
    BY <2>1 DEF LeavesOwed, InOrder, LastFollows
  <2>3. ImageNamed'
    BY <1>1 DEF RollupInv, ImageNamed, Naming
  <2> QED
    BY <2>2, <2>3 DEF RollupInv
<1> QED
  BY <1>3, <1>4

\* A rollup reads the inspection: it is the last to have read.
LEMMA ReadFollows ==
    ASSUME RollupInv, TypeOK', NEW p \in Processes, RollupInspection(p)
    PROVE  RollupInv'
<1>0. TypeOK /\ work \in [Processes -> Works] /\ work[p] \in Works /\ order \in Seq(Processes)
  BY DEF RollupInv, TypeOK
<1>1. /\ work[p].at = "rollup" /\ order' = Append(order, p)
      /\ work' = [work EXCEPT ![p].at = "rollupImages", ![p].rollup = inspection]
      /\ UNCHANGED <<image, inspection>>
  BY DEF RollupInspection
<1>2. /\ work'[p].at = "rollupImages" /\ work'[p].rollup = inspection
      /\ \A q \in Processes \ {p} : work'[q] = work[q]
  BY <1>0, <1>1 DEF Works
<1>3. /\ Len(order) \in Nat /\ Len(order') = Len(order) + 1 /\ order'[Len(order')] = p
      /\ DOMAIN order = 1 .. Len(order) /\ DOMAIN order' = 1 .. Len(order) + 1
      /\ \A n \in DOMAIN order : order'[n] = order[n]
  BY <1>0, <1>1
<1>4. \A n \in DOMAIN order : order[n] \in Processes \ {p} /\ work[order[n]].at \in Rolling
  BY <1>0, <1>1 DEF RollupInv, InOrder, Rolling
<1>5. InOrder'
  <2>1. \A n \in DOMAIN order' : work'[order'[n]].at \in Rolling
    BY <1>2, <1>3, <1>4 DEF Rolling
  <2>2. \A m, n \in DOMAIN order' : order'[m] = order'[n] => m = n
    BY <1>3, <1>4 DEF RollupInv, InOrder
  <2> QED
    BY <2>1, <2>2 DEF InOrder
<1>6. ImageNamed'
  BY <1>2 DEF RollupInv, ImageNamed, Naming
<1>7. LastFollows'
  <2>1. order' # <<>>
    BY <1>3
  <2>2. WillFollow(order[Len(order)])'
    BY <1>1, <1>2, <1>3 DEF WillFollow
  <2> QED
    BY <2>1, <2>2 DEF LastFollows
<1> QED
  BY <1>5, <1>6, <1>7 DEF RollupInv

\* It reads the images: no later change is without a rollup due.
LEMMA ImagesFollow ==
    ASSUME RollupInv, TypeOK', NEW p \in Processes, RollupImages(p)
    PROVE  RollupInv'
<1>0. TypeOK /\ work \in [Processes -> Works] /\ work[p] \in Works /\ order \in Seq(Processes)
  BY DEF RollupInv, TypeOK
<1>1. /\ work[p].at = "rollupImages"
      /\ work' = [work EXCEPT ![p].at = "rollupSave", ![p].derived =
                                  resolveInspectionStatus(image, work[p].rollup.submitted)]
      /\ image' = image /\ inspection' = inspection /\ order' = order /\ owed' = owed
  BY DEF RollupImages
<1>2. /\ work'[p].at = "rollupSave" /\ work'[p].rollup = work[p].rollup
      /\ work'[p].derived = resolveInspectionStatus(image, work[p].rollup.submitted)
      /\ \A q \in Processes \ {p} : work'[q] = work[q]
  BY <1>0, <1>1 DEF Works
<1>3. InOrder'
  <2>1. \A n \in DOMAIN order : order[n] \in Processes
    BY <1>0
  <2>2. \A n \in DOMAIN order : work'[order[n]].at \in Rolling
    BY <1>2, <2>1 DEF RollupInv, InOrder, Rolling
  <2> QED
    BY <1>1, <2>2 DEF RollupInv, InOrder
<1>4. ImageNamed'
  BY <1>2 DEF RollupInv, ImageNamed, Naming
<1>5. LastFollows'
  <2>1. SUFFICES ASSUME ~RollupDue'
                 PROVE  IF order' = <<>> THEN (owed \/ Follows)' ELSE WillFollow(order[Len(order)])'
    BY DEF LastFollows
  <2>2. ~RollupDue
    BY <1>1, <1>2, <2>1 DEF RollupDue, Owing
  <2>3. CASE order = <<>>
    BY <1>1, <2>2, <2>3 DEF RollupInv, LastFollows, Follows
  <2>4. CASE order # <<>>
    <3>1. WillFollow(order[Len(order)]) /\ order[Len(order)] \in Processes
      BY <1>0, <2>2, <2>4, LastInOrder DEF RollupInv, LastFollows
    <3> QED
      BY <1>1, <1>2, <2>4, <3>1 DEF WillFollow
  <2> QED
    BY <2>3, <2>4
<1> QED
  BY <1>3, <1>4, <1>5 DEF RollupInv

\* It saves: the last to have read writes what follows, and one that was overtaken owes.
LEMMA SaveFollows ==
    ASSUME RollupInv, TypeOK', NEW p \in Processes, RollupSave(p)
    PROVE  RollupInv'
<1>0. /\ TypeOK /\ work \in [Processes -> Works] /\ work[p] \in Works /\ order \in Seq(Processes)
      /\ work[p].rollup \in Inspections /\ inspection \in Inspections
  BY DEF RollupInv, TypeOK, Works
<1>1. /\ work[p].at = "rollupSave" /\ image' = image
      /\ inspection' = Saved(inspection, work[p].rollup, WithStatus(work[p].rollup, work[p].derived))
  BY DEF RollupSave
<1>2. work'[p].at \in {"idle", "failed", "finish"} /\ \A q \in Processes \ {p} : work'[q] = work[q]
  <2>1. CASE Ends(p)
    BY <1>0, <2>1, MoveEffects
  <2>2. CASE work' = [work EXCEPT ![p] = At("failed")]
    BY <1>0, <2>2 DEF At
  <2>3. CASE work' = [work EXCEPT ![p] = [At("finish") EXCEPT !.instance = work[p].instance]]
    BY <1>0, <2>3 DEF At
  <2> QED
    BY <2>1, <2>2, <2>3 DEF RollupSave
<1>3. /\ inspection'.submitted = inspection.submitted
      /\ Effective(p) => inspection'.status = work[p].derived
  BY <1>0, <1>1 DEF Saved, WithStatus, Inspections, Effective
<1>4. ImageNamed'
  BY <1>2 DEF RollupInv, ImageNamed, Naming
<1>5. ~RollupDue' => ~RollupDue
  BY <1>1, <1>2 DEF RollupDue, Owing
<1>6. CASE \E n \in DOMAIN order : /\ order[n] = p
                                   /\ order' = SubSeq(order, n + 1, Len(order))
                                   /\ owed' = ~Effective(p)
  <2>1. PICK n \in DOMAIN order : /\ order[n] = p
                                  /\ order' = SubSeq(order, n + 1, Len(order))
                                  /\ owed' = ~Effective(p)
    BY <1>6
  <2>2. n \in Nat /\ 1 <= n /\ n <= Len(order) /\ Len(order) \in Nat /\ DOMAIN order = 1 .. Len(order)
    BY <1>0
  <2>3. Len(order') = Len(order) - n /\ DOMAIN order' = 1 .. Len(order) - n
    BY <1>0, <2>1, <2>2
  <2>4. \A m \in DOMAIN order' : order'[m] = order[n + m] /\ n + m \in DOMAIN order /\ n + m # n
    BY <1>0, <2>1, <2>2, <2>3
  <2>5. \A m \in DOMAIN order : m # n => order[m] \in Processes \ {p}
    BY <1>0, <2>1 DEF RollupInv, InOrder
  <2>6. InOrder'
    <3>1. \A m \in DOMAIN order' : work'[order'[m]].at \in Rolling
      BY <1>2, <2>4, <2>5 DEF RollupInv, InOrder
    <3>2. ASSUME NEW l \in DOMAIN order', NEW m \in DOMAIN order', order'[l] = order'[m] PROVE l = m
      <4>1. n + l = n + m
        BY <2>4, <3>2 DEF RollupInv, InOrder
      <4> QED
        BY <2>2, <2>3, <4>1
    <3> QED
      BY <3>1, <3>2 DEF InOrder
  <2>7. LastFollows'
    <3>1. SUFFICES ASSUME ~RollupDue'
                   PROVE  IF order' = <<>> THEN (owed \/ Follows)' ELSE WillFollow(order[Len(order)])'
      BY DEF LastFollows
    <3>2. WillFollow(order[Len(order)]) /\ order # <<>>
      BY <1>0, <1>5, <2>2, <3>1 DEF RollupInv, LastFollows
    <3>3. CASE n = Len(order)
      <4>1. order' = <<>>
        BY <1>0, <2>1, <2>2, <2>3, <3>3
      <4>2. WillFollow(p)
        BY <2>1, <3>2, <3>3
      <4>3. Effective(p) => Follows'
        BY <1>1, <1>3, <4>2 DEF WillFollow, Follows
      <4> QED
        BY <2>1, <4>1, <4>3
    <3>4. CASE n # Len(order)
      <4>1. order' # <<>> /\ Len(order') \in DOMAIN order'
        BY <2>2, <2>3, <3>4
      <4>2. order'[Len(order')] = order[Len(order)] /\ order[Len(order)] \in Processes \ {p}
        BY <2>2, <2>3, <2>4, <2>5, <3>4, <4>1
      <4>3. work'[order'[Len(order')]] = work[order[Len(order)]]
        BY <1>2, <4>2
      <4>4. WillFollow(order[Len(order)])'
        BY <1>1, <1>3, <3>2, <4>3 DEF WillFollow
      <4> QED
        BY <4>1, <4>4
    <3> QED
      BY <3>3, <3>4
  <2> QED
    BY <1>4, <2>6, <2>7 DEF RollupInv
<1>7. CASE /\ \A n \in DOMAIN order : order[n] # p
           /\ owed' = TRUE
           /\ UNCHANGED order
  <2>1. order' = order /\ \A n \in DOMAIN order : order[n] \in Processes \ {p}
    BY <1>0, <1>7
  <2>2. InOrder'
    BY <1>2, <2>1 DEF RollupInv, InOrder
  <2>3. LastFollows'
    <3>1. SUFFICES ASSUME ~RollupDue', order # <<>> PROVE WillFollow(order[Len(order)])'
      BY <1>7, <2>1 DEF LastFollows
    <3>2. WillFollow(order[Len(order)]) /\ Len(order) \in DOMAIN order
      BY <1>0, <1>5, <3>1, LastInOrder DEF RollupInv, LastFollows
    <3>3. work'[order'[Len(order')]] = work[order[Len(order)]]
      BY <1>2, <2>1, <3>2
    <3> QED
      BY <1>1, <1>3, <2>1, <3>2, <3>3 DEF WillFollow
  <2> QED
    BY <1>4, <2>2, <2>3 DEF RollupInv
<1> QED
  BY <1>6, <1>7 DEF RollupSave

-----------------------------------------------------------------------------
LEMMA InitFollows == Init => RollupInv
<1> SUFFICES ASSUME Init PROVE RollupInv
  OBVIOUS
<1>1. \A p \in Processes : work[p].at = "idle"
  BY DEF Init, At
<1>2. order = <<>> /\ Follows
  BY DEF Init, Follows
<1> QED
  BY <1>1, <1>2, InitTyped DEF RollupInv, InOrder, ImageNamed, Naming, LastFollows

LEMMA StepFollows == RollupInv /\ [Next]_vars => RollupInv'
<1> SUFFICES ASSUME RollupInv, [Next]_vars PROVE RollupInv'
  OBVIOUS
<1>1. TypeOK'
  BY Step DEF RollupInv, Kept
<1>2. CASE UNCHANGED vars
  BY <1>1, <1>2 DEF vars, RollupInv, InOrder, ImageNamed, LastFollows, RollupDue, Follows, WillFollow
<1>3. CASE \E p \in Processes : RollupInspection(p) \/ RollupImages(p) \/ RollupSave(p)
  BY <1>1, <1>3, ReadFollows, ImagesFollow, SaveFollows
<1>4. CASE \E c \in Calls :
        \/ Call(c) \/ CreateSessions(c)
        \/ ConfirmMedia(c) \/ ConfirmInspection(c) \/ QueueMedia(c) \/ QueueInspection(c) \/ Enqueue(c)
        \/ UploadMedia(c) \/ UploadCsv(c) \/ RetryMedia(c)
        \/ Submit(c) \/ Review(c)
        \/ TriggerInspectionImageAi(c) \/ EnqueueOnly(c)
        \/ ReconcileMedia(c) \/ ReconcileInspection(c)
  BY <1>1, <1>4, RequestFollows, QueueFollows
<1>5. CASE \E i \in Images :
        \/ RunBegins(i) \/ RunClaims(i) \/ RunAnalyses(i) \/ RunScores(i) \/ RunFinishes(i)
        \/ RunTimesOut(i) \/ RunThrows(i) \/ RunThrowsLate(i) \/ MarkInlineJobFailure(i)
  BY <1>1, <1>5, RunFollows, ThrowFollows
<1>6. CASE \E p \in Calls \cup Fails : Throws(p)
  BY <1>1, <1>6, BreakFollows DEF Processes
<1> QED
  BY <1>2, <1>3, <1>4, <1>5, <1>6 DEF Next

\* When every handler is through, the status of an inspection is the one that follows from
\* its images, but where the code leaves it to a rollup yet to come: for any number of images,
\* calls, runs and failures that overlap.
THEOREM StatusIsRight == Spec => []StatusFollowsImages
<1>1. RollupInv => StatusFollowsImages
  <2>1. SUFFICES ASSUME RollupInv, Quiet, ~owed PROVE Follows
    BY DEF StatusFollowsImages, Follows
  <2>2. ~RollupDue
    BY <2>1 DEF Quiet, RollupDue, Owing
  <2>3. order = <<>>
    <3>1. SUFFICES ASSUME order # <<>> PROVE FALSE
      OBVIOUS
    <3>2. Len(order) \in DOMAIN order /\ order[Len(order)] \in Processes
      BY <2>1, <3>1, LastInOrder DEF RollupInv
    <3> QED
      BY <2>1, <3>2 DEF RollupInv, InOrder, Quiet, Rolling
  <2> QED
    BY <2>1, <2>2, <2>3 DEF RollupInv, LastFollows
<1> QED
  BY InitFollows, StepFollows, <1>1, PTL DEF Spec
=============================================================================
