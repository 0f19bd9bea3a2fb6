---------------------------- MODULE ImageUpload ----------------------------
(***************************************************************************)
(* The direct upload of one evidence image: the app's calls that open,     *)
(* confirm and retry its upload session (inspectionUpload.service.js), the *)
(* sweep that settles sessions the app forgot                              *)
(* (imageSessionReconciler.service.js), the object store, and the analysis *)
(* the image is handed to.                                                 *)
(*                                                                         *)
(* The session row, the image row and the object are changed one after the *)
(* other, with awaits in between; createUploadSessions alone holds locks.  *)
(* The ORM's instance.update saves the fields that differ from what the    *)
(* handler has read, and no others (Saved).                                *)
(* The analysis queue is AnalysisInline or AnalysisWorker seen from here:  *)
(* a call adds a run or is answered as a duplicate. Checks of size, hash,  *)
(* type and encryption end a confirmation before it writes, like an object *)
(* that is not there.                                                      *)
(***************************************************************************)
EXTENDS Naturals, FiniteSets, Sequelize

CONSTANTS
    Calls,              \* the calls the app may make
    MaxAttempts,        \* resolveMaxAttempts()
    TriggerOnUpload,    \* runtimeConfig.analysis.triggerOnUpload
    MaxErrors           \* bound on the errors that break off a handler

ASSUME ConstantsAssumption ==
    /\ IsFiniteSet(Calls)
    /\ MaxAttempts \in Nat \ {0}
    /\ TriggerOnUpload \in BOOLEAN
    /\ MaxErrors \in Nat

VARIABLES
    stored,     \* the object is in the store
    media,      \* upload_status and ai_status of the InspectionMedia row
    session,    \* the ImageSession row
    call,       \* where each call of the app is, with the rows it has read
    visit,      \* where the reconciler is, with the rows it has read
    queued,     \* an analysis of the image is due
    run,        \* where that analysis is
    reissues,   \* history: presigned URLs the reconciler has reissued
    overlapped, \* history: two handlers were at work together, or one broke off
    errors      \* how many handlers have broken off

vars == <<stored, media, session, call, visit, queued, run, reissues, overlapped, errors>>

-----------------------------------------------------------------------------
UploadStatuses == {"none", "session_created", "confirmed", "failed_permanent"}
AiStatuses == {"PENDING_UPLOAD", "UPLOADED", "AI_QUEUED", "AI_PROCESSING", "AI_COMPLETED", "AI_FAILED"}
SessionStatuses == {"none", "created", "confirmed", "failed"}
CallStates == {"idle", "confirmHead", "confirmMedia", "confirmSession", "queueMedia", "enqueue",
               "retryMedia", "retrySession", "done"}
VisitStates == {"idle", "read", "head", "confirmMedia", "confirmSession", "enqueue",
                "failMedia", "failSession", "reissueSession", "reissueMedia"}

Media(upload, ai) == [upload |-> upload, ai |-> ai]
NoMedia == Media("none", "PENDING_UPLOAD")
NoVisit == [at |-> "idle", attempts |-> 0, media |-> NoMedia]
At(place) == [at |-> place, media |-> NoMedia, session |-> "none"]

\* isAlreadyDurable: an image in the store that is not to be uploaded again.
Durable == media.upload = "confirmed" /\ media.ai # "AI_FAILED"

\* Handlers that have begun and are not through: what they have read may be old.
InFlight == {c \in Calls : call[c].at \notin {"idle", "done"}}
AtWork == InFlight # {} \/ visit # NoVisit
Crowded == \/ \E c, d \in InFlight : c # d
           \/ InFlight # {} /\ visit # NoVisit

Init ==
    /\ stored = FALSE
    /\ media = NoMedia
    /\ session = [status |-> "none", attempts |-> 0, stale |-> FALSE]
    /\ call = [c \in Calls |-> At("idle")]
    /\ visit = NoVisit
    /\ queued = FALSE
    /\ run = "none"
    /\ reissues = 0
    /\ overlapped = FALSE
    /\ errors = 0

Goes(c, place) == call' = [call EXCEPT ![c].at = place]
Ends(c) == call' = [call EXCEPT ![c] = At("done")]
Reads(c, place) == call' = [call EXCEPT ![c] = [at |-> place, media |-> media, session |-> session.status]]

\* The session row once a call has set its status: the URL is fresh, or the row is.
SessionSaved(c, status) ==
    [session EXCEPT !.status = IF call[c].session = status THEN @ ELSE status, !.stale = FALSE]

-----------------------------------------------------------------------------
(* The app's calls.                                                        *)

\* One transaction under row locks: a durable image is left alone, any other
\* gets a new session, whatever attempts the old one had used.
createUploadSessions(c) ==
    /\ call[c].at = "idle"
    /\ Ends(c)
    /\ IF Durable
       THEN UNCHANGED <<media, session>>
       ELSE /\ media' = Media("session_created", "PENDING_UPLOAD")
            /\ session' = [session EXCEPT !.status = "created", !.stale = FALSE]
    /\ UNCHANGED <<stored, visit, queued, run, reissues, errors>>

\* The app puts the object to a presigned URL, perhaps to an old one.
PutObject ==
    /\ session.status # "none"
    /\ ~stored
    /\ stored' = TRUE
    /\ UNCHANGED <<media, session, call, visit, queued, run, reissues, errors>>

\* confirmUpload: image and session are read, then the store is asked.
ConfirmRead(c) ==
    /\ call[c].at = "idle"
    /\ media.upload # "none"
    /\ Reads(c, "confirmHead")
    /\ UNCHANGED <<stored, media, session, visit, queued, run, reissues, errors>>

\* Mutant: the answer of the store is not looked at.
ConfirmHead_Skipped(c) ==
    /\ call[c].at = "confirmHead"
    /\ Goes(c, "confirmMedia")
    /\ UNCHANGED <<stored, media, session, visit, queued, run, reissues, errors>>

ConfirmHead(c) ==
    /\ call[c].at = "confirmHead"
    /\ IF stored THEN Goes(c, "confirmMedia") ELSE Ends(c)
    /\ UNCHANGED <<stored, media, session, visit, queued, run, reissues, errors>>

ConfirmMedia(c) ==
    /\ call[c].at = "confirmMedia"
    /\ media' = Saved(media, call[c].media, Media("confirmed", "UPLOADED"))
    /\ call' = [call EXCEPT ![c].at = "confirmSession", ![c].media = NoMedia]
    /\ UNCHANGED <<stored, session, visit, queued, run, reissues, errors>>

\* When the analysis is triggered, or not, after the session is written.
AfterConfirm(c) == IF TriggerOnUpload THEN call' = [call EXCEPT ![c] = At("queueMedia")] ELSE Ends(c)

\* Mutant: the session is forgotten.
ConfirmSession_Forgotten(c) ==
    /\ call[c].at = "confirmSession"
    /\ AfterConfirm(c)
    /\ UNCHANGED <<stored, media, session, visit, queued, run, reissues, errors>>

ConfirmSession(c) ==
    /\ call[c].at = "confirmSession"
    /\ session' = SessionSaved(c, "confirmed")
    /\ AfterConfirm(c)
    /\ UNCHANGED <<stored, media, visit, queued, run, reissues, errors>>

QueueMedia(c) ==
    /\ call[c].at = "queueMedia"
    /\ media' = [media EXCEPT !.ai = "AI_QUEUED"]
    /\ Goes(c, "enqueue")
    /\ UNCHANGED <<stored, session, visit, queued, run, reissues, errors>>

\* enqueueInspectionAnalysis adds a run, or takes the call for a duplicate.
Enqueue(c) ==
    /\ call[c].at = "enqueue"
    /\ queued' \in {TRUE, queued}
    /\ Ends(c)
    /\ UNCHANGED <<stored, media, session, visit, run, reissues, errors>>

\* retryUploadSession: whatever the image's state, it is to be uploaded again.
RetryRead(c) ==
    /\ call[c].at = "idle"
    /\ media.upload # "none"
    /\ Reads(c, "retryMedia")
    /\ UNCHANGED <<stored, media, session, visit, queued, run, reissues, errors>>

RetryMedia(c) ==
    /\ call[c].at = "retryMedia"
    /\ media' = Saved(media, call[c].media, Media("session_created", "PENDING_UPLOAD"))
    /\ call' = [call EXCEPT ![c].at = "retrySession", ![c].media = NoMedia]
    /\ UNCHANGED <<stored, session, visit, queued, run, reissues, errors>>

RetrySession(c) ==
    /\ call[c].at = "retrySession"
    /\ session' = SessionSaved(c, "created")
    /\ Ends(c)
    /\ UNCHANGED <<stored, media, visit, queued, run, reissues, errors>>

-----------------------------------------------------------------------------
(* reconcileStaleImageSessions, one sweep at a time.                       *)

\* The session's URL expires, or its row has not been touched for staleMs.
GrowStale ==
    /\ session.status = "created"
    /\ ~session.stale
    /\ session' = [session EXCEPT !.stale = TRUE]
    /\ UNCHANGED <<stored, media, call, visit, queued, run, reissues, errors>>

ReconcilerScan ==
    /\ visit = NoVisit
    /\ session.status = "created"
    /\ session.stale
    /\ visit' = [NoVisit EXCEPT !.at = "read", !.attempts = session.attempts]
    /\ UNCHANGED <<stored, media, session, call, queued, run, reissues, errors>>

\* The rows of the scan have their turn one after the other; the image is read then.
ReconcilerRead ==
    /\ visit.at = "read"
    /\ visit' = [visit EXCEPT !.at = "head", !.media = media]
    /\ UNCHANGED <<stored, media, session, call, queued, run, reissues, errors>>

\* Mutant: the last attempt reissues the URL once more.
ReconcilerHead_OneMore ==
    /\ visit.at = "head"
    /\ visit' = [visit EXCEPT !.at = IF stored THEN "confirmMedia"
                                     ELSE IF visit.attempts >= MaxAttempts THEN "failMedia"
                                     ELSE "reissueSession"]
    /\ UNCHANGED <<stored, media, session, call, queued, run, reissues, errors>>

\* The object store is asked; its answer decides, not the row as it is by now.
ReconcilerHead ==
    /\ visit.at = "head"
    /\ visit' = [visit EXCEPT !.at = IF stored THEN "confirmMedia"
                                     ELSE IF visit.attempts + 1 >= MaxAttempts THEN "failMedia"
                                     ELSE "reissueSession"]
    /\ UNCHANGED <<stored, media, session, call, queued, run, reissues, errors>>

ReconcilerConfirmMedia ==
    /\ visit.at = "confirmMedia"
    /\ media' = Saved(media, visit.media,
                      Media("confirmed", IF TriggerOnUpload THEN "AI_QUEUED" ELSE "UPLOADED"))
    /\ visit' = [NoVisit EXCEPT !.at = "confirmSession"]
    /\ UNCHANGED <<stored, session, call, queued, run, reissues, errors>>

ReconcilerConfirmSession ==
    /\ visit.at = "confirmSession"
    /\ session' = [session EXCEPT !.status = "confirmed", !.stale = FALSE]
    /\ visit' = IF TriggerOnUpload THEN [visit EXCEPT !.at = "enqueue"] ELSE NoVisit
    /\ UNCHANGED <<stored, media, call, queued, run, reissues, errors>>

ReconcilerEnqueue ==
    /\ visit.at = "enqueue"
    /\ queued' \in {TRUE, queued}
    /\ visit' = NoVisit
    /\ UNCHANGED <<stored, media, session, call, run, reissues, errors>>

\* markPermanentUploadFailure.
ReconcilerFailMedia ==
    /\ visit.at = "failMedia"
    /\ media' = Saved(media, visit.media, Media("failed_permanent", "PENDING_UPLOAD"))
    /\ visit' = [visit EXCEPT !.at = "failSession", !.media = NoMedia]
    /\ UNCHANGED <<stored, session, call, queued, run, reissues, errors>>

ReconcilerFailSession ==
    /\ visit.at = "failSession"
    /\ session' = [status |-> "failed", attempts |-> visit.attempts + 1, stale |-> FALSE]
    /\ visit' = NoVisit
    /\ UNCHANGED <<stored, media, call, queued, run, reissues, errors>>

\* A new presigned URL: the session first, then the image, but not its AI status.
\* The session was read as created, so that its status is not saved.
ReconcilerReissueSession ==
    /\ visit.at = "reissueSession"
    /\ session' = [session EXCEPT !.attempts = visit.attempts + 1, !.stale = FALSE]
    /\ reissues' = reissues + 1
    /\ visit' = [visit EXCEPT !.at = "reissueMedia"]
    /\ UNCHANGED <<stored, media, call, queued, run, errors>>

ReconcilerReissueMedia ==
    /\ visit.at = "reissueMedia"
    /\ media' = Saved(media, visit.media, [visit.media EXCEPT !.upload = "session_created"])
    /\ visit' = NoVisit
    /\ UNCHANGED <<stored, session, call, queued, run, reissues, errors>>

-----------------------------------------------------------------------------
(* The analysis of the image, as far as it shows in the image row.         *)

RunStart ==
    /\ queued
    /\ run = "none"
    /\ queued' = FALSE
    /\ media' = [media EXCEPT !.ai = "AI_PROCESSING"]
    /\ run' = "asking"
    /\ UNCHANGED <<stored, session, call, visit, reissues, errors>>

\* An image scored already is taken from the cache.
RunCached ==
    /\ queued
    /\ run = "none"
    /\ media.ai = "AI_COMPLETED"
    /\ queued' = FALSE
    /\ UNCHANGED <<stored, media, session, call, visit, run, reissues, errors>>

RunEnd ==
    /\ run = "asking"
    /\ \E ai \in {"AI_COMPLETED", "AI_FAILED"} : media' = [media EXCEPT !.ai = ai]
    /\ run' = "none"
    /\ UNCHANGED <<stored, session, call, visit, queued, reissues, errors>>

\* A transient error: the run queues the image again itself.
RunRetry ==
    /\ run = "asking"
    /\ media' = [media EXCEPT !.ai = "AI_QUEUED"]
    /\ queued' \in {TRUE, queued}
    /\ run' = "none"
    /\ UNCHANGED <<stored, session, call, visit, reissues, errors>>

-----------------------------------------------------------------------------
ConfirmUpload(c) ==
    \/ ConfirmRead(c) \/ ConfirmHead(c) \/ ConfirmMedia(c) \/ ConfirmSession(c)
    \/ QueueMedia(c) \/ Enqueue(c)

RetryUploadSession(c) == RetryRead(c) \/ RetryMedia(c) \/ RetrySession(c)

Reconciler ==
    \/ ReconcilerScan \/ ReconcilerRead \/ ReconcilerHead
    \/ ReconcilerConfirmMedia \/ ReconcilerConfirmSession \/ ReconcilerEnqueue
    \/ ReconcilerFailMedia \/ ReconcilerFailSession
    \/ ReconcilerReissueSession \/ ReconcilerReissueMedia

Step ==
    \/ \E c \in Calls : ConfirmUpload(c) \/ RetryUploadSession(c)
    \/ PutObject \/ GrowStale
    \/ Reconciler
    \/ RunStart \/ RunCached \/ RunEnd \/ RunRetry

\* A database or storage call rejects, or the process dies, in mid-handler.
BreakOff ==
    /\ errors < MaxErrors
    /\ \/ \E c \in InFlight : Ends(c) /\ UNCHANGED visit
       \/ visit # NoVisit /\ visit' = NoVisit /\ UNCHANGED call
    /\ errors' = errors + 1
    /\ overlapped' = TRUE
    /\ UNCHANGED <<stored, media, session, queued, run, reissues>>

Next ==
    \/ \E c \in Calls : createUploadSessions(c) /\ overlapped' = (overlapped \/ AtWork)
    \/ Step /\ overlapped' = (overlapped \/ Crowded')
    \/ BreakOff

Spec == Init /\ [][Next]_vars

\* Time passes, and the reconciler's timer and its calls go on.
FairSpec == Spec /\ WF_vars(GrowStale /\ Next) /\ WF_vars(Reconciler /\ Next)

-----------------------------------------------------------------------------
(* What the upload pipeline promises.                                      *)

TypeOK ==
    /\ stored \in BOOLEAN
    /\ media \in [upload : UploadStatuses, ai : AiStatuses]
    /\ session \in [status : SessionStatuses, attempts : Nat, stale : BOOLEAN]
    /\ call \in [Calls -> [at : CallStates, media : [upload : UploadStatuses, ai : AiStatuses],
                         session : SessionStatuses]]
    /\ visit \in [at : VisitStates, attempts : Nat, media : [upload : UploadStatuses, ai : AiStatuses]]
    /\ queued \in BOOLEAN
    /\ run \in {"none", "asking"}
    /\ reissues \in Nat
    /\ overlapped \in BOOLEAN
    /\ errors \in 0..MaxErrors

\* An image is handed to the analysis, and gets a score, only when its object
\* is in the store, however calls, sweeps and runs interleave.
AnalysedMeansStored ==
    queued \/ run # "none" \/ media.ai \notin {"PENDING_UPLOAD"} => stored

\* The reconciler reissues a session's URL MaxAttempts - 1 times at most over
\* its whole life: the app's retries open the session again but do not give it
\* new attempts.
ReissuesBounded == reissues <= MaxAttempts - 1

\* The two rows agree when nobody is at work, unless two handlers overlapped or
\* one broke off between its two writes: nothing makes the pair of writes one.
RowsAgree ==
    ~AtWork /\ ~overlapped =>
        /\ session.status = "created" <=> media.upload = "session_created"
        /\ session.status = "confirmed" <=> media.upload = "confirmed"
        /\ session.status = "failed" <=> media.upload = "failed_permanent"

\* No session stays open: it is confirmed or failed in the end, by the app or by
\* the reconciler, whatever breaks off on the way.
SessionsSettle == session.status = "created" ~> session.status # "created"

=============================================================================
