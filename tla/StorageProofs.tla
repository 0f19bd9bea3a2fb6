---------------------------- MODULE StorageProofs ----------------------------
(***************************************************************************)
(* Proofs about what is kept in the object store (MCStorage): the upload   *)
(* of an image and the backups of a scope, each for any number of calls,   *)
(* attempts and jobs, and whatever breaks off.                             *)
(***************************************************************************)
EXTENDS MCStorage, TLAPS

\* A step of the whole is, for either part, a step of that part or none.
LEMMA StepOfParts ==
    ASSUME [MCNext]_all
    PROVE  [Next]_vars /\ [J!Next]_jobVars
BY DEF MCNext, ImagesStep, BackupsStep, all

-----------------------------------------------------------------------------
(* The upload of an image (ImageUpload).                                   *)

\* The places at which a handler has seen the object in the store.
HasSeen == {"confirmMedia", "confirmSession", "queueMedia", "enqueue"}

\* Until the object is in the store nobody goes on as if it were.
NotBeforeStored ==
    ~stored =>
        /\ ~queued /\ run = "none" /\ media.ai = "PENDING_UPLOAD"
        /\ \A c \in Calls : call[c].at \notin HasSeen
        /\ visit.at \notin HasSeen

\* The session keeps count of the URLs that were reissued, and the reconciler goes by the
\* count it has read, which nobody else changes meanwhile.
AttemptsCounted ==
    /\ reissues <= session.attempts
    /\ ReissuesBounded
    /\ visit.at \in {"read", "head", "failMedia", "failSession", "reissueSession"} =>
            visit.attempts = session.attempts
    /\ visit.at = "reissueSession" => visit.attempts + 1 < MaxAttempts

\* The two rows go together.
Agreed ==
    /\ session.status = "created" <=> media.upload = "session_created"
    /\ session.status = "confirmed" <=> media.upload = "confirmed"
    /\ session.status = "failed" <=> media.upload = "failed_permanent"

\* A call at work by itself has the rows as it has read them, or is between its two writes.
CallAlone(c) ==
    /\ call[c].at \in {"confirmHead", "confirmMedia", "retryMedia"} =>
            Agreed /\ call[c].media.upload = media.upload /\ call[c].session = session.status
    /\ call[c].at = "confirmSession" => media.upload = "confirmed" /\ call[c].session = session.status
    /\ call[c].at = "retrySession" => media.upload = "session_created" /\ call[c].session = session.status
    /\ call[c].at \in {"queueMedia", "enqueue"} => Agreed

\* So has the reconciler.
VisitAlone ==
    /\ visit.at = "read" => Agreed /\ session.status = "created"
    /\ visit.at \in {"head", "confirmMedia", "failMedia", "reissueSession", "reissueMedia"} =>
            Agreed /\ session.status = "created" /\ visit.media.upload = media.upload
    /\ visit.at = "confirmSession" => media.upload = "confirmed"
    /\ visit.at = "failSession" => media.upload = "failed_permanent"
    /\ visit.at = "enqueue" => Agreed

Alone ==
    ~overlapped =>
        /\ ~Crowded
        /\ \A c \in Calls : CallAlone(c)
        /\ VisitAlone
        /\ ~AtWork => Agreed

UploadInv ==
    /\ TypeOK
    /\ visit.at = "idle" => visit = NoVisit
    /\ NotBeforeStored
    /\ AttemptsCounted
    /\ Alone

Medias == [upload : UploadStatuses, ai : AiStatuses]
CallRecords == [at : CallStates, media : Medias, session : SessionStatuses]
VisitRecords == [at : VisitStates, attempts : Nat, media : Medias]

LEMMA UploadConstants == MaxAttempts \in Nat /\ MaxAttempts # 0 /\ TriggerOnUpload \in BOOLEAN /\ MaxErrors \in Nat
BY ConstantsAssumption

LEMMA SavedMedia ==
    ASSUME NEW row \in Medias, NEW read \in Medias, NEW values \in Medias
    PROVE  /\ Saved(row, read, values) \in Medias
           /\ Saved(row, read, values).upload = IF values.upload = read.upload THEN row.upload ELSE values.upload
           /\ Saved(row, read, values).ai = IF values.ai = read.ai THEN row.ai ELSE values.ai
BY DEF Saved, Medias

\* The records that rows, calls and the reconciler are set to.
LEMMA Records ==
    /\ \A upload \in UploadStatuses, ai \in AiStatuses :
        Media(upload, ai) \in Medias /\ Media(upload, ai).upload = upload /\ Media(upload, ai).ai = ai
    /\ NoMedia \in Medias /\ NoMedia.upload = "none" /\ NoMedia.ai = "PENDING_UPLOAD"
    /\ \A at \in CallStates : At(at) \in CallRecords /\ At(at).at = at
    /\ NoVisit \in VisitRecords /\ NoVisit.at = "idle" /\ NoVisit.attempts = 0
<1>1. \A upload \in UploadStatuses, ai \in AiStatuses :
        Media(upload, ai) \in Medias /\ Media(upload, ai).upload = upload /\ Media(upload, ai).ai = ai
  BY DEF Media, Medias
<1>2. NoMedia \in Medias /\ NoMedia.upload = "none" /\ NoMedia.ai = "PENDING_UPLOAD"
  BY <1>1 DEF NoMedia, UploadStatuses, AiStatuses
<1>3. \A at \in CallStates : At(at) \in CallRecords /\ At(at).at = at
  BY <1>2 DEF At, CallRecords, SessionStatuses
<1>4. NoVisit \in VisitRecords /\ NoVisit.at = "idle" /\ NoVisit.attempts = 0
  BY <1>2 DEF NoVisit, VisitRecords, VisitStates
<1> QED
  BY <1>1, <1>2, <1>3, <1>4

LEMMA UploadInit == Init => UploadInv
<1> SUFFICES ASSUME Init PROVE UploadInv
  OBVIOUS
<1>1. call = [c \in Calls |-> At("idle")] /\ visit = NoVisit /\ media = NoMedia
  BY DEF Init
<1>2. /\ \A c \in Calls : call[c] \in CallRecords /\ call[c].at = "idle"
      /\ visit \in VisitRecords /\ visit.at = "idle" /\ visit.attempts = 0
  BY <1>1, Records DEF CallStates
<1>3. TypeOK
  <2>1. call \in [Calls -> CallRecords]
    BY <1>1, <1>2
  <2>2. session \in [status : SessionStatuses, attempts : Nat, stale : BOOLEAN]
    BY DEF Init, SessionStatuses
  <2>3. /\ stored \in BOOLEAN /\ queued \in BOOLEAN /\ run \in {"none", "asking"}
        /\ overlapped \in BOOLEAN
    BY DEF Init
  <2>5. reissues \in Nat /\ errors \in 0 .. MaxErrors
    BY UploadConstants DEF Init
  <2>4. media \in Medias
    BY <1>1, Records
  <2> QED
    BY <1>2, <2>1, <2>2, <2>3, <2>4, <2>5 DEF TypeOK, Medias, CallRecords, VisitRecords
<1>4. InFlight = {} /\ ~AtWork /\ ~Crowded
  BY <1>1, <1>2 DEF InFlight, AtWork, Crowded
<1>5. Agreed
  BY <1>1, Records DEF Init, Agreed
<1>6. NotBeforeStored
  BY <1>1, <1>2, Records DEF Init, NotBeforeStored, HasSeen
<1>7. AttemptsCounted
  BY <1>1, <1>2, UploadConstants DEF Init, AttemptsCounted, ReissuesBounded
<1>8. Alone
  BY <1>2, <1>4, <1>5 DEF Alone, CallAlone, VisitAlone
<1> QED
  BY <1>1, <1>3, <1>6, <1>7, <1>8 DEF UploadInv


\* A call goes on as next, with the rows it has read or without.
LEMMA CallGoes ==
    ASSUME TypeOK, NEW c \in Calls, NEW next \in CallRecords, call' = [call EXCEPT ![c] = next]
    PROVE  /\ call' \in [Calls -> CallRecords]
           /\ call'[c] = next
           /\ \A d \in Calls \ {c} : call'[d] = call[d]
BY DEF TypeOK, CallRecords, Medias

\* One of the app's calls.
LEMMA UploadTypes ==
    ASSUME TypeOK, NEW c \in Calls
    PROVE  /\ call \in [Calls -> CallRecords] /\ visit \in VisitRecords /\ media \in Medias
           /\ call[c] \in CallRecords /\ call[c].media \in Medias /\ call[c].session \in SessionStatuses
           /\ session.status \in SessionStatuses /\ session.attempts \in Nat
BY DEF TypeOK, CallRecords, VisitRecords, Medias

\* A step that leaves the reconciler, the analysis and the count alone, and writes rows of the kind.
LEMMA CallKeepsTypes ==
    ASSUME TypeOK, NEW c \in Calls, call' \in [Calls -> CallRecords],
           media' \in Medias,
           session' \in [status : SessionStatuses, attempts : {session.attempts}, stale : BOOLEAN],
           queued' \in BOOLEAN, overlapped' \in BOOLEAN,
           UNCHANGED <<stored, visit, run, reissues, errors>>
    PROVE  TypeOK'
BY DEF TypeOK, CallRecords, Medias

\* The app's calls.
LEMMA UploadCall ==
    ASSUME UploadInv, NEW c \in Calls, ConfirmUpload(c) \/ RetryUploadSession(c), overlapped' = (overlapped \/ Crowded')
    PROVE  UploadInv'
<1> USE DEF UploadInv
<1>0. /\ call \in [Calls -> CallRecords] /\ visit \in VisitRecords /\ media \in Medias
      /\ call[c] \in CallRecords /\ call[c].media \in Medias /\ call[c].session \in SessionStatuses
      /\ session.status \in SessionStatuses /\ session.attempts \in Nat
      /\ session \in [status : SessionStatuses, attempts : {session.attempts}, stale : BOOLEAN]
  BY UploadTypes DEF TypeOK
<1>1. overlapped' \in BOOLEAN /\ (~overlapped' => ~overlapped /\ ~Crowded')
  BY DEF TypeOK, Crowded
\* What is left to show of a step of this call, by what it makes of the rows and of itself.
<1>2. ASSUME NEW next \in CallRecords, call' = [call EXCEPT ![c] = next],
             media' \in Medias,
             session' \in [status : SessionStatuses, attempts : {session.attempts}, stale : BOOLEAN],
             queued' \in BOOLEAN,
             UNCHANGED <<stored, visit, run, reissues, errors>>,
             ~stored => ~queued' /\ media'.ai = "PENDING_UPLOAD" /\ next.at \notin HasSeen,
             next.at # "idle",
             call[c].at \notin {"idle", "done"} \/ next.at # "done",
             ~overlapped /\ visit = NoVisit /\ InFlight \subseteq {c} =>
                CallAlone(c)' /\ (next.at = "done" => Agreed')
      PROVE  UploadInv'
  <2>1. /\ call' \in [Calls -> CallRecords] /\ call'[c] = next
        /\ \A d \in Calls \ {c} : call'[d] = call[d]
    BY <1>2, CallGoes
  <2>2. TypeOK'
    BY <1>1, <1>2, <2>1, CallKeepsTypes
  <2>3. NotBeforeStored'
    BY <1>2, <2>1 DEF NotBeforeStored
  <2>4. AttemptsCounted'
    BY <1>2 DEF AttemptsCounted, ReissuesBounded
  <2>5. Alone'
    <3> SUFFICES ASSUME ~overlapped' PROVE Alone'
      BY DEF Alone
    <3>1. ~overlapped /\ ~Crowded' /\ ~Crowded
      BY <1>1 DEF Alone
    <3>2. visit = NoVisit /\ visit' = NoVisit /\ InFlight \subseteq {c}
      <4>1. CASE c \in InFlight
        BY <1>2, <3>1, <4>1 DEF Crowded
      <4>2. CASE c \notin InFlight
        <5>1. c \in InFlight' /\ \A d \in InFlight : d \in InFlight'
          BY <1>2, <2>1, <4>2 DEF InFlight
        <5> QED
          BY <1>2, <3>1, <4>2, <5>1 DEF Crowded
      <4> QED
        BY <4>1, <4>2
    <3>3. CallAlone(c)' /\ (next.at = "done" => Agreed')
      BY <1>2, <3>1, <3>2
    <3>4. \A d \in Calls : CallAlone(d)'
      <4>1. \A d \in Calls \ {c} : call'[d].at \in {"idle", "done"}
        BY <2>1, <3>2 DEF InFlight
      <4>2. \A d \in Calls \ {c} : CallAlone(d)'
        BY <4>1 DEF CallAlone
      <4> QED
        BY <3>3, <4>2
    <3>5. VisitAlone'
      BY <3>2, Records DEF VisitAlone
    <3>6. ~AtWork' => next.at = "done"
      BY <1>2, <2>1 DEF AtWork, InFlight
    <3> QED
      BY <3>1, <3>3, <3>4, <3>5, <3>6 DEF Alone
  <2> QED
    BY <1>2, <2>2, <2>3, <2>4, <2>5
<1>3. ASSUME ~overlapped, visit = NoVisit, InFlight \subseteq {c}
      PROVE  /\ CallAlone(c)
             /\ call[c].at \in {"idle", "done"} => Agreed
  <2>1. CallAlone(c)
    BY <1>3 DEF Alone
  <2>2. call[c].at \in {"idle", "done"} => InFlight = {}
    BY <1>3 DEF InFlight
  <2> QED
    BY <1>3, <2>1, <2>2 DEF Alone, AtWork
<1>4. CASE ConfirmRead(c)
  <2> DEFINE next == [at |-> "confirmHead", media |-> media, session |-> session.status]
  <2>1. next \in CallRecords /\ next.at = "confirmHead" /\ next.media = media /\ next.session = session.status
    BY <1>0 DEF CallRecords, CallStates
  <2>2. call' = [call EXCEPT ![c] = next] /\ call[c].at = "idle" /\ UNCHANGED <<stored, media, session, visit, queued, run, reissues, errors>>
    BY <1>4 DEF ConfirmRead, Reads
  <2> HIDE DEF next
  <2>3. call'[c] = next
    BY <2>1, <2>2, CallGoes
  <2>4. ~stored => ~queued' /\ media'.ai = "PENDING_UPLOAD" /\ next.at \notin HasSeen
    BY <2>1, <2>2 DEF NotBeforeStored, HasSeen
  <2>5. ~overlapped /\ visit = NoVisit /\ InFlight \subseteq {c} => CallAlone(c)'
    BY <1>3, <2>1, <2>2, <2>3 DEF CallAlone, Agreed
  <2> QED
    BY <1>0, <1>2, <2>1, <2>2, <2>4, <2>5 DEF TypeOK
<1>5. CASE ConfirmHead(c)
  <2>1. /\ call[c].at = "confirmHead" /\ UNCHANGED <<stored, media, session, visit, queued, run, reissues, errors>>
        /\ IF stored THEN Goes(c, "confirmMedia") ELSE Ends(c)
    BY <1>5 DEF ConfirmHead
  <2>2. CASE stored
    <3>1. PICK next \in CallRecords : next = [call[c] EXCEPT !.at = "confirmMedia"]
      BY <1>0 DEF CallRecords, CallStates
    <3>2. /\ next.at = "confirmMedia" /\ next.media = call[c].media /\ next.session = call[c].session
          /\ call' = [call EXCEPT ![c] = next]
      BY <1>0, <2>1, <2>2, <3>1 DEF CallRecords, Goes
    <3>3. call'[c] = next
      BY <3>2, CallGoes
    <3>4. ~overlapped /\ visit = NoVisit /\ InFlight \subseteq {c} => CallAlone(c)'
      BY <1>3, <2>1, <3>2, <3>3 DEF CallAlone, Agreed
    <3> QED
      BY <1>0, <1>2, <2>1, <2>2, <3>2, <3>4 DEF TypeOK
  <2>3. CASE ~stored
    <3>1. /\ At("done") \in CallRecords /\ At("done").at = "done" /\ call' = [call EXCEPT ![c] = At("done")]
      BY <2>1, <2>3, Records DEF Ends, CallStates
    <3>2. call'[c].at = "done"
      BY <3>1, CallGoes
    <3>3. ~overlapped /\ visit = NoVisit /\ InFlight \subseteq {c} => CallAlone(c)' /\ Agreed'
      BY <1>3, <2>1, <3>2 DEF CallAlone, Agreed
    <3>4. ~stored => ~queued' /\ media'.ai = "PENDING_UPLOAD" /\ At("done").at \notin HasSeen
      BY <2>1, <3>1 DEF NotBeforeStored, HasSeen
    <3> QED
      BY <1>0, <1>2, <2>1, <3>1, <3>3, <3>4 DEF TypeOK
  <2> QED
    BY <2>2, <2>3
<1>6. CASE ConfirmMedia(c)
  <2>1. /\ call[c].at = "confirmMedia" /\ media' = Saved(media, call[c].media, Media("confirmed", "UPLOADED"))
        /\ call' = [call EXCEPT ![c].at = "confirmSession", ![c].media = NoMedia]
        /\ UNCHANGED <<stored, session, visit, queued, run, reissues, errors>>
    BY <1>6 DEF ConfirmMedia
  <2>2. stored
    BY <2>1 DEF NotBeforeStored, HasSeen
  <2>3. PICK next \in CallRecords : next = [call[c] EXCEPT !.at = "confirmSession", !.media = NoMedia]
    BY <1>0, Records DEF CallRecords, CallStates
  <2>4. /\ next.at = "confirmSession" /\ next.session = call[c].session
        /\ call' = [call EXCEPT ![c] = next]
    BY <1>0, <2>1, <2>3 DEF CallRecords
  <2>5. call'[c] = next
    BY <2>4, CallGoes
  <2>6. /\ media' \in Medias
        /\ media'.upload = IF call[c].media.upload = "confirmed" THEN media.upload ELSE "confirmed"
    <3>1. /\ Media("confirmed", "UPLOADED") \in Medias /\ Media("confirmed", "UPLOADED").upload = "confirmed"
      BY Records DEF UploadStatuses, AiStatuses
    <3> QED
      BY <1>0, <2>1, <3>1, SavedMedia
  <2>7. ~overlapped /\ visit = NoVisit /\ InFlight \subseteq {c} => CallAlone(c)'
    BY <1>3, <2>1, <2>4, <2>5, <2>6 DEF CallAlone
  <2> QED
    BY <1>0, <1>2, <2>1, <2>2, <2>4, <2>6, <2>7 DEF TypeOK
<1>7. CASE ConfirmSession(c)
  <2>1. /\ call[c].at = "confirmSession" /\ session' = SessionSaved(c, "confirmed") /\ AfterConfirm(c)
        /\ UNCHANGED <<stored, media, visit, queued, run, reissues, errors>>
    BY <1>7 DEF ConfirmSession
  <2>2. stored
    BY <2>1 DEF NotBeforeStored, HasSeen
  <2>3. PICK place \in {"queueMedia", "done"} : call' = [call EXCEPT ![c] = At(place)]
    BY <2>1 DEF AfterConfirm, Ends
  <2>4. At(place) \in CallRecords /\ At(place).at = place
    BY Records DEF CallStates
  <2>5. call'[c].at = place
    BY <2>3, <2>4, CallGoes
  <2>6. /\ session' \in [status : SessionStatuses, attempts : {session.attempts}, stale : BOOLEAN]
        /\ session'.status = IF call[c].session = "confirmed" THEN session.status ELSE "confirmed"
    BY <1>0, <2>1 DEF SessionSaved, SessionStatuses
  <2>7. ~overlapped /\ visit = NoVisit /\ InFlight \subseteq {c} => CallAlone(c)' /\ Agreed'
    BY <1>3, <2>1, <2>5, <2>6 DEF CallAlone, Agreed
  <2> QED
    BY <1>0, <1>2, <2>1, <2>2, <2>3, <2>4, <2>6, <2>7 DEF TypeOK
<1>8. CASE QueueMedia(c)
  <2>1. /\ call[c].at = "queueMedia" /\ media' = [media EXCEPT !.ai = "AI_QUEUED"] /\ Goes(c, "enqueue")
        /\ UNCHANGED <<stored, session, visit, queued, run, reissues, errors>>
    BY <1>8 DEF QueueMedia
  <2>2. stored
    BY <2>1 DEF NotBeforeStored, HasSeen
  <2>3. PICK next \in CallRecords : next = [call[c] EXCEPT !.at = "enqueue"]
    BY <1>0 DEF CallRecords, CallStates
  <2>4. next.at = "enqueue" /\ call' = [call EXCEPT ![c] = next]
    BY <1>0, <2>1, <2>3 DEF CallRecords, Goes
  <2>5. call'[c] = next
    BY <2>4, CallGoes
  <2>6. media' \in Medias /\ media'.upload = media.upload
    BY <1>0, <2>1 DEF Medias, AiStatuses
  <2>7. ~overlapped /\ visit = NoVisit /\ InFlight \subseteq {c} => CallAlone(c)'
    BY <1>3, <2>1, <2>4, <2>5, <2>6 DEF CallAlone, Agreed
  <2> QED
    BY <1>0, <1>2, <2>1, <2>2, <2>4, <2>6, <2>7 DEF TypeOK
<1>9. CASE Enqueue(c)
  <2>1. /\ call[c].at = "enqueue" /\ queued' \in {TRUE, queued} /\ call' = [call EXCEPT ![c] = At("done")]
        /\ UNCHANGED <<stored, media, session, visit, run, reissues, errors>>
    BY <1>9 DEF Enqueue, Ends
  <2>2. stored
    BY <2>1 DEF NotBeforeStored, HasSeen
  <2>3. At("done") \in CallRecords /\ At("done").at = "done"
    BY Records DEF CallStates
  <2>4. call'[c].at = "done"
    BY <2>1, <2>3, CallGoes
  <2>5. ~overlapped /\ visit = NoVisit /\ InFlight \subseteq {c} => CallAlone(c)' /\ Agreed'
    BY <1>3, <2>1, <2>4 DEF CallAlone, Agreed
  <2>6. queued' \in BOOLEAN
    BY <2>1 DEF TypeOK
  <2> QED
    BY <1>0, <1>2, <2>1, <2>2, <2>3, <2>5, <2>6
<1>10. CASE RetryRead(c)
  <2> DEFINE next == [at |-> "retryMedia", media |-> media, session |-> session.status]
  <2>1. next \in CallRecords /\ next.at = "retryMedia" /\ next.media = media /\ next.session = session.status
    BY <1>0 DEF CallRecords, CallStates
  <2>2. call' = [call EXCEPT ![c] = next] /\ call[c].at = "idle" /\ UNCHANGED <<stored, media, session, visit, queued, run, reissues, errors>>
    BY <1>10 DEF RetryRead, Reads
  <2> HIDE DEF next
  <2>3. call'[c] = next
    BY <2>1, <2>2, CallGoes
  <2>4. ~stored => ~queued' /\ media'.ai = "PENDING_UPLOAD" /\ next.at \notin HasSeen
    BY <2>1, <2>2 DEF NotBeforeStored, HasSeen
  <2>5. ~overlapped /\ visit = NoVisit /\ InFlight \subseteq {c} => CallAlone(c)'
    BY <1>3, <2>1, <2>2, <2>3 DEF CallAlone, Agreed
  <2> QED
    BY <1>0, <1>2, <2>1, <2>2, <2>4, <2>5 DEF TypeOK
<1>11. CASE RetryMedia(c)
  <2>1. /\ call[c].at = "retryMedia"
        /\ media' = Saved(media, call[c].media, Media("session_created", "PENDING_UPLOAD"))
        /\ call' = [call EXCEPT ![c].at = "retrySession", ![c].media = NoMedia]
        /\ UNCHANGED <<stored, session, visit, queued, run, reissues, errors>>
    BY <1>11 DEF RetryMedia
  <2>3. PICK next \in CallRecords : next = [call[c] EXCEPT !.at = "retrySession", !.media = NoMedia]
    BY <1>0, Records DEF CallRecords, CallStates
  <2>4. /\ next.at = "retrySession" /\ next.session = call[c].session
        /\ call' = [call EXCEPT ![c] = next]
    BY <1>0, <2>1, <2>3 DEF CallRecords
  <2>5. call'[c] = next
    BY <2>4, CallGoes
  <2>6. /\ media' \in Medias
        /\ media'.upload = IF call[c].media.upload = "session_created" THEN media.upload ELSE "session_created"
        /\ media'.ai \in {"PENDING_UPLOAD", media.ai}
    <3>1. /\ Media("session_created", "PENDING_UPLOAD") \in Medias
          /\ Media("session_created", "PENDING_UPLOAD").upload = "session_created"
          /\ Media("session_created", "PENDING_UPLOAD").ai = "PENDING_UPLOAD"
      BY Records DEF UploadStatuses, AiStatuses
    <3> QED
      BY <1>0, <2>1, <3>1, SavedMedia
  <2>7. ~overlapped /\ visit = NoVisit /\ InFlight \subseteq {c} => CallAlone(c)'
    BY <1>3, <2>1, <2>4, <2>5, <2>6 DEF CallAlone
  <2>8. ~stored => ~queued' /\ media'.ai = "PENDING_UPLOAD" /\ next.at \notin HasSeen
    BY <2>1, <2>4, <2>6 DEF NotBeforeStored, HasSeen
  <2> QED
    BY <1>0, <1>2, <2>1, <2>4, <2>6, <2>7, <2>8 DEF TypeOK
<1>12. CASE RetrySession(c)
  <2>1. /\ call[c].at = "retrySession" /\ session' = SessionSaved(c, "created")
        /\ call' = [call EXCEPT ![c] = At("done")]
        /\ UNCHANGED <<stored, media, visit, queued, run, reissues, errors>>
    BY <1>12 DEF RetrySession, Ends
  <2>2. At("done") \in CallRecords /\ At("done").at = "done"
    BY Records DEF CallStates
  <2>3. call'[c].at = "done"
    BY <2>1, <2>2, CallGoes
  <2>4. /\ session' \in [status : SessionStatuses, attempts : {session.attempts}, stale : BOOLEAN]
        /\ session'.status = IF call[c].session = "created" THEN session.status ELSE "created"
    BY <1>0, <2>1 DEF SessionSaved, SessionStatuses
  <2>5. ~overlapped /\ visit = NoVisit /\ InFlight \subseteq {c} => CallAlone(c)' /\ Agreed'
    BY <1>3, <2>1, <2>3, <2>4 DEF CallAlone, Agreed
  <2>6. ~stored => ~queued' /\ media'.ai = "PENDING_UPLOAD" /\ At("done").at \notin HasSeen
    BY <2>1, <2>2 DEF NotBeforeStored, HasSeen
  <2> QED
    BY <1>0, <1>2, <2>1, <2>2, <2>4, <2>5, <2>6 DEF TypeOK
<1> QED
  BY <1>4, <1>5, <1>6, <1>7, <1>8, <1>9, <1>10, <1>11, <1>12 DEF ConfirmUpload, RetryUploadSession

\* Opening a session, under locks: an overlap with whatever else is at work.
LEMMA UploadOpen ==
    ASSUME UploadInv, NEW c \in Calls, createUploadSessions(c), overlapped' = (overlapped \/ AtWork)
    PROVE  UploadInv'
<1> USE DEF UploadInv
<1>0. /\ call \in [Calls -> CallRecords] /\ visit \in VisitRecords /\ media \in Medias
      /\ session \in [status : SessionStatuses, attempts : Nat, stale : BOOLEAN]
  BY UploadTypes DEF TypeOK
<1>1. /\ call[c].at = "idle" /\ call' = [call EXCEPT ![c] = At("done")]
      /\ UNCHANGED <<stored, visit, queued, run, reissues, errors>>
      /\ \/ UNCHANGED <<media, session>>
         \/ /\ media' = Media("session_created", "PENDING_UPLOAD")
            /\ session' = [session EXCEPT !.status = "created", !.stale = FALSE]
  BY DEF createUploadSessions, Ends
<1>2. At("done") \in CallRecords /\ At("done").at = "done"
  BY Records DEF CallStates
<1>3. /\ call' \in [Calls -> CallRecords] /\ call'[c].at = "done"
      /\ \A d \in Calls \ {c} : call'[d] = call[d]
  BY <1>1, <1>2, CallGoes
<1>4. /\ media' \in Medias /\ media'.ai \in {media.ai, "PENDING_UPLOAD"}
      /\ session' \in [status : SessionStatuses, attempts : {session.attempts}, stale : BOOLEAN]
      /\ \/ UNCHANGED <<media, session>>
         \/ media'.upload = "session_created" /\ session'.status = "created"
  <2>1. CASE UNCHANGED <<media, session>>
    BY <1>0, <2>1
  <2>2. CASE /\ media' = Media("session_created", "PENDING_UPLOAD")
             /\ session' = [session EXCEPT !.status = "created", !.stale = FALSE]
    <3>1. media' \in Medias /\ media'.upload = "session_created" /\ media'.ai = "PENDING_UPLOAD"
      BY <2>2, Records DEF UploadStatuses, AiStatuses
    <3> QED
      BY <1>0, <2>2, <3>1 DEF SessionStatuses
  <2> QED
    BY <1>1, <2>1, <2>2
<1>5. overlapped' \in BOOLEAN /\ (~overlapped' => ~overlapped /\ ~AtWork)
  BY DEF TypeOK, AtWork
<1>6. TypeOK'
  <2>1. queued' \in BOOLEAN
    BY <1>1 DEF TypeOK
  <2> QED
    BY <1>1, <1>3, <1>4, <1>5, <2>1, CallKeepsTypes
<1>7. NotBeforeStored'
  BY <1>1, <1>3, <1>4 DEF NotBeforeStored, HasSeen
<1>8. AttemptsCounted'
  BY <1>1, <1>4 DEF AttemptsCounted, ReissuesBounded
<1>9. Alone'
  <2> SUFFICES ASSUME ~overlapped' PROVE Alone'
    BY DEF Alone
  <2>1. ~overlapped /\ InFlight = {} /\ visit = NoVisit /\ visit' = NoVisit /\ Agreed
    BY <1>1, <1>5 DEF Alone, AtWork
  <2>2. \A d \in Calls : call'[d].at \in {"idle", "done"}
    BY <1>3, <2>1 DEF InFlight
  <2>3. InFlight' = {}
    BY <2>2 DEF InFlight
  <2>4. ~Crowded' /\ Agreed'
    BY <1>4, <2>1, <2>3 DEF Crowded, Agreed
  <2>5. \A d \in Calls : CallAlone(d)'
    BY <2>2 DEF CallAlone
  <2>6. VisitAlone'
    BY <2>1, Records DEF VisitAlone
  <2> QED
    BY <2>4, <2>5, <2>6 DEF Alone
<1> QED
  BY <1>1, <1>6, <1>7, <1>8, <1>9

\* The app's client, the passing of time and the analysis: nobody moves, and the statuses the
\* rows share stay as they are.
LEMMA UploadAround ==
    ASSUME UploadInv, PutObject \/ GrowStale \/ RunStart \/ RunCached \/ RunEnd \/ RunRetry,
           overlapped' = (overlapped \/ Crowded')
    PROVE  UploadInv'
<1> USE DEF UploadInv
<1>0. /\ call \in [Calls -> CallRecords] /\ visit \in VisitRecords /\ media \in Medias
      /\ session \in [status : SessionStatuses, attempts : Nat, stale : BOOLEAN]
      /\ stored \in BOOLEAN /\ queued \in BOOLEAN /\ run \in {"none", "asking"}
  BY DEF TypeOK, CallRecords, VisitRecords, Medias
<1>1. overlapped' \in BOOLEAN /\ (~overlapped' => ~overlapped /\ ~Crowded')
  BY DEF TypeOK, Crowded
<1>2. /\ UNCHANGED <<call, visit, reissues, errors>>
      /\ stored' \in {stored, TRUE}
      /\ session' \in [status : {session.status}, attempts : {session.attempts}, stale : BOOLEAN]
  <2>1. CASE PutObject
    BY <1>0, <2>1 DEF PutObject
  <2>2. CASE GrowStale
    BY <1>0, <2>2 DEF GrowStale
  <2>3. CASE RunStart \/ RunCached \/ RunEnd \/ RunRetry
    BY <1>0, <2>3 DEF RunStart, RunCached, RunEnd, RunRetry
  <2> QED
    BY <2>1, <2>2, <2>3
<1>3. /\ media' \in Medias /\ media'.upload = media.upload
      /\ queued' \in BOOLEAN /\ run' \in {"none", "asking"}
  <2>1. CASE PutObject \/ GrowStale
    BY <1>0, <2>1 DEF PutObject, GrowStale
  <2>2. CASE RunStart
    BY <1>0, <2>2 DEF RunStart, Medias, AiStatuses
  <2>3. CASE RunCached
    BY <1>0, <2>3 DEF RunCached
  <2>4. CASE RunEnd
    BY <1>0, <2>4 DEF RunEnd, Medias, AiStatuses
  <2>5. CASE RunRetry
    BY <1>0, <2>5 DEF RunRetry, Medias, AiStatuses
  <2> QED
    BY <2>1, <2>2, <2>3, <2>4, <2>5
<1>4. TypeOK'
  <2>1. session' \in [status : SessionStatuses, attempts : Nat, stale : BOOLEAN]
    BY <1>0, <1>2
  <2> QED
    BY <1>0, <1>1, <1>2, <1>3, <2>1 DEF TypeOK, Medias
<1>5. NotBeforeStored'
  <2> SUFFICES ASSUME ~stored' PROVE NotBeforeStored'
    BY DEF NotBeforeStored
  <2>1. ~stored
    BY <1>0, <1>2
  <2>2. ~queued /\ run = "none" /\ media.ai = "PENDING_UPLOAD"
    BY <2>1 DEF NotBeforeStored
  <2>3. PutObject \/ GrowStale
    BY <2>2 DEF RunStart, RunCached, RunEnd, RunRetry
  <2>4. UNCHANGED <<media, queued, run>>
    BY <2>3 DEF PutObject, GrowStale
  <2> QED
    BY <1>2, <2>1, <2>4 DEF NotBeforeStored
<1>6. AttemptsCounted'
  BY <1>2 DEF AttemptsCounted, ReissuesBounded
<1>7. Alone'
  <2> SUFFICES ASSUME ~overlapped' PROVE Alone'
    BY DEF Alone
  <2>1. ~overlapped /\ ~Crowded'
    BY <1>1
  <2>2. session'.status = session.status
    BY <1>2
  <2>3. Agreed' <=> Agreed
    BY <1>3, <2>2 DEF Agreed
  <2>4. \A d \in Calls : CallAlone(d)'
    BY <1>2, <1>3, <2>1, <2>2, <2>3 DEF Alone, CallAlone
  <2>5. VisitAlone'
    BY <1>2, <1>3, <2>1, <2>2, <2>3 DEF Alone, VisitAlone
  <2>6. ~AtWork' => Agreed'
    BY <1>2, <2>1, <2>3 DEF Alone, AtWork, InFlight
  <2> QED
    BY <2>1, <2>4, <2>5, <2>6 DEF Alone
<1> QED
  BY <1>2, <1>4, <1>5, <1>6, <1>7

\* A handler breaks off, after which nothing is said of the rows.
LEMMA UploadBreakOff ==
    ASSUME UploadInv, BreakOff
    PROVE  UploadInv'
<1> USE DEF UploadInv
<1>1. /\ errors < MaxErrors /\ errors' = errors + 1 /\ overlapped' = TRUE
      /\ UNCHANGED <<stored, media, session, queued, run, reissues>>
      /\ \/ visit' = visit /\ \E c \in Calls : call' = [call EXCEPT ![c] = At("done")]
         \/ visit' = NoVisit /\ call' = call
  BY DEF BreakOff, InFlight, Ends
<1>2. /\ call \in [Calls -> CallRecords] /\ visit \in VisitRecords
      /\ At("done") \in CallRecords /\ At("done").at = "done"
      /\ NoVisit \in VisitRecords /\ NoVisit.at = "idle"
  BY UploadTypes, Records DEF CallStates, TypeOK, CallRecords, VisitRecords, Medias
<1>3. /\ call' \in [Calls -> CallRecords] /\ \A d \in Calls : call'[d] \in {call[d], At("done")}
      /\ visit' \in {visit, NoVisit}
  BY <1>1, <1>2
<1>4. TypeOK'
  <2>1. errors' \in 0 .. MaxErrors
    BY <1>1, UploadConstants DEF TypeOK
  <2>2. visit' \in VisitRecords
    BY <1>2, <1>3
  <2> QED
    BY <1>1, <1>3, <2>1, <2>2 DEF TypeOK, CallRecords, VisitRecords, Medias
<1>5. NotBeforeStored'
  <2> SUFFICES ASSUME ~stored' PROVE NotBeforeStored'
    BY DEF NotBeforeStored
  <2>1. \A d \in Calls : call'[d].at \notin HasSeen
    BY <1>1, <1>2, <1>3 DEF NotBeforeStored, HasSeen
  <2>2. visit'.at \notin HasSeen
    BY <1>1, <1>2, <1>3 DEF NotBeforeStored, HasSeen
  <2> QED
    BY <1>1, <2>1, <2>2 DEF NotBeforeStored
<1>6. AttemptsCounted'
  BY <1>1, <1>2, <1>3 DEF AttemptsCounted, ReissuesBounded
<1>7. Alone'
  BY <1>1 DEF Alone
<1> QED
  BY <1>3, <1>4, <1>5, <1>6, <1>7

\* The sweep of forgotten sessions.
LEMMA UploadReconciler ==
    ASSUME UploadInv, Reconciler, overlapped' = (overlapped \/ Crowded')
    PROVE  UploadInv'
<1> USE DEF UploadInv
<1>0. /\ call \in [Calls -> CallRecords] /\ visit \in VisitRecords /\ media \in Medias
      /\ session \in [status : SessionStatuses, attempts : Nat, stale : BOOLEAN]
      /\ visit.media \in Medias /\ visit.attempts \in Nat /\ reissues \in Nat
      /\ queued \in BOOLEAN /\ stored \in BOOLEAN /\ visit.at \in VisitStates
  BY DEF TypeOK, CallRecords, VisitRecords, Medias
<1>1. overlapped' \in BOOLEAN /\ (~overlapped' => ~overlapped /\ ~Crowded')
  BY DEF TypeOK, Crowded
\* What is left to show of a step of the reconciler.
<1>2. ASSUME NEW next \in VisitRecords, visit' = next,
             next.at = "idle" => next = NoVisit,
             visit # NoVisit \/ next # NoVisit,
             media' \in Medias,
             session' \in [status : SessionStatuses, attempts : Nat, stale : BOOLEAN],
             queued' \in BOOLEAN, reissues' \in Nat,
             UNCHANGED <<stored, call, run, errors>>,
             ~stored => ~queued' /\ media'.ai = "PENDING_UPLOAD" /\ next.at \notin HasSeen,
             AttemptsCounted',
             ~overlapped /\ InFlight = {} => VisitAlone' /\ (next = NoVisit => Agreed')
      PROVE  UploadInv'
  <2>1. TypeOK'
    BY <1>1, <1>2 DEF TypeOK, VisitRecords, Medias
  <2>2. NotBeforeStored'
    BY <1>2 DEF NotBeforeStored
  <2>3. Alone'
    <3> SUFFICES ASSUME ~overlapped' PROVE Alone'
      BY DEF Alone
    <3>1. ~overlapped /\ ~Crowded' /\ ~Crowded
      BY <1>1 DEF Alone
    <3>2. InFlight = {}
      BY <1>2, <3>1 DEF Crowded, InFlight
    <3>3. \A d \in Calls : CallAlone(d)'
      BY <1>2, <3>2 DEF CallAlone, InFlight
    <3>4. ~AtWork' => next = NoVisit
      BY <1>2 DEF AtWork
    <3> QED
      BY <1>2, <3>1, <3>2, <3>3, <3>4 DEF Alone
  <2> QED
    BY <1>2, <2>1, <2>2, <2>3
<1>3. ASSUME ~overlapped PROVE VisitAlone /\ (visit = NoVisit /\ InFlight = {} => Agreed)
  BY <1>3 DEF Alone, AtWork
<1>4. CASE ReconcilerScan
  <2>1. /\ visit = NoVisit /\ session.status = "created"
        /\ visit' = [NoVisit EXCEPT !.at = "read", !.attempts = session.attempts]
        /\ UNCHANGED <<stored, media, session, call, queued, run, reissues, errors>>
    BY <1>4 DEF ReconcilerScan
  <2>2. PICK next \in VisitRecords : next = [NoVisit EXCEPT !.at = "read", !.attempts = session.attempts]
    BY <1>0, Records DEF VisitRecords, VisitStates
  <2>3. next.at = "read" /\ next.attempts = session.attempts /\ visit' = next
    BY <2>1, <2>2, Records DEF VisitRecords
  <2>4. AttemptsCounted'
    BY <2>1, <2>3 DEF AttemptsCounted, ReissuesBounded
  <2>5. ~overlapped /\ InFlight = {} => VisitAlone'
    BY <1>3, <2>1, <2>3 DEF VisitAlone, Agreed
  <2>6. next # NoVisit /\ (~stored => ~queued' /\ media'.ai = "PENDING_UPLOAD" /\ next.at \notin HasSeen)
    BY <2>1, <2>3, Records DEF NotBeforeStored, HasSeen
  <2> QED
    BY <1>0, <1>2, <2>1, <2>3, <2>4, <2>5, <2>6
<1>5. CASE ReconcilerRead
  <2>1. /\ visit.at = "read" /\ visit' = [visit EXCEPT !.at = "head", !.media = media]
        /\ UNCHANGED <<stored, media, session, call, queued, run, reissues, errors>>
    BY <1>5 DEF ReconcilerRead
  <2>2. PICK next \in VisitRecords : next = [visit EXCEPT !.at = "head", !.media = media]
    BY <1>0 DEF VisitRecords, VisitStates
  <2>3. next.at = "head" /\ next.attempts = visit.attempts /\ next.media = media /\ visit' = next
    BY <1>0, <2>1, <2>2 DEF VisitRecords
  <2>4. AttemptsCounted'
    BY <2>1, <2>3 DEF AttemptsCounted, ReissuesBounded
  <2>5. ~overlapped /\ InFlight = {} => VisitAlone'
    BY <1>3, <2>1, <2>3 DEF VisitAlone, Agreed
  <2>6. next # NoVisit /\ (~stored => ~queued' /\ media'.ai = "PENDING_UPLOAD" /\ next.at \notin HasSeen)
    BY <2>1, <2>3, Records DEF NotBeforeStored, HasSeen
  <2> QED
    BY <1>0, <1>2, <2>1, <2>3, <2>4, <2>5, <2>6
<1>6. CASE ReconcilerHead
  <2>1. /\ visit.at = "head"
        /\ UNCHANGED <<stored, media, session, call, queued, run, reissues, errors>>
    BY <1>6 DEF ReconcilerHead
  <2>2. PICK place \in {"confirmMedia", "failMedia", "reissueSession"} :
            /\ visit' = [visit EXCEPT !.at = place]
            /\ place = "confirmMedia" => stored
            /\ place = "reissueSession" => ~(visit.attempts + 1 >= MaxAttempts)
    BY <1>6 DEF ReconcilerHead
  <2>3. PICK next \in VisitRecords : next = [visit EXCEPT !.at = place]
    BY <1>0 DEF VisitRecords, VisitStates
  <2>4. next.at = place /\ next.attempts = visit.attempts /\ next.media = visit.media /\ visit' = next
    BY <1>0, <2>2, <2>3 DEF VisitRecords
  <2>5. AttemptsCounted'
    BY <1>0, <2>1, <2>2, <2>4, UploadConstants DEF AttemptsCounted, ReissuesBounded
  <2>6. ~overlapped /\ InFlight = {} => VisitAlone'
    BY <1>3, <2>1, <2>2, <2>4 DEF VisitAlone, Agreed
  <2>7. next # NoVisit /\ (~stored => ~queued' /\ media'.ai = "PENDING_UPLOAD" /\ next.at \notin HasSeen)
    BY <2>1, <2>2, <2>4, Records DEF NotBeforeStored, HasSeen
  <2>8. next.at # "idle"
    BY <2>2, <2>4
  <2> QED
    BY <1>0, <1>2, <2>1, <2>4, <2>5, <2>6, <2>7, <2>8
<1>7. CASE ReconcilerConfirmMedia
  <2>1. /\ visit.at = "confirmMedia" /\ visit' = [NoVisit EXCEPT !.at = "confirmSession"]
        /\ UNCHANGED <<stored, session, call, queued, run, reissues, errors>>
    BY <1>7 DEF ReconcilerConfirmMedia
  <2>2. stored
    BY <2>1 DEF NotBeforeStored, HasSeen
  <2>3. PICK next \in VisitRecords : next = [NoVisit EXCEPT !.at = "confirmSession"]
    BY Records DEF VisitRecords, VisitStates
  <2>4. next.at = "confirmSession" /\ visit' = next
    BY <2>1, <2>3, Records DEF VisitRecords
  <2>5. /\ media' \in Medias
        /\ media'.upload = IF visit.media.upload = "confirmed" THEN media.upload ELSE "confirmed"
    <3>1. PICK ai \in AiStatuses : media' = Saved(media, visit.media, Media("confirmed", ai))
      BY <1>7 DEF ReconcilerConfirmMedia, AiStatuses
    <3>2. Media("confirmed", ai) \in Medias /\ Media("confirmed", ai).upload = "confirmed"
      BY Records DEF UploadStatuses
    <3> QED
      BY <1>0, <3>1, <3>2, SavedMedia
  <2>6. AttemptsCounted'
    BY <2>1, <2>4 DEF AttemptsCounted, ReissuesBounded
  <2>7. ~overlapped /\ InFlight = {} => VisitAlone'
    BY <1>3, <2>1, <2>4, <2>5 DEF VisitAlone
  <2>8. next # NoVisit
    BY <2>4, Records
  <2> QED
    BY <1>0, <1>2, <2>1, <2>2, <2>4, <2>5, <2>6, <2>7, <2>8
<1>8. CASE ReconcilerConfirmSession
  <2>1. /\ visit.at = "confirmSession"
        /\ session' = [session EXCEPT !.status = "confirmed", !.stale = FALSE]
        /\ visit' = IF TriggerOnUpload THEN [visit EXCEPT !.at = "enqueue"] ELSE NoVisit
        /\ UNCHANGED <<stored, media, call, queued, run, reissues, errors>>
    BY <1>8 DEF ReconcilerConfirmSession
  <2>2. stored
    BY <2>1 DEF NotBeforeStored, HasSeen
  <2>3. PICK next \in VisitRecords : visit' = next /\ (next = NoVisit \/ next.at = "enqueue")
    <3>1. [visit EXCEPT !.at = "enqueue"] \in VisitRecords /\ [visit EXCEPT !.at = "enqueue"].at = "enqueue"
      BY <1>0 DEF VisitRecords, VisitStates
    <3> QED
      BY <2>1, <3>1, Records
  <2>4. /\ session' \in [status : SessionStatuses, attempts : Nat, stale : BOOLEAN]
        /\ session'.status = "confirmed" /\ session'.attempts = session.attempts
    BY <1>0, <2>1 DEF SessionStatuses
  <2>5. AttemptsCounted'
    BY <2>1, <2>3, <2>4, Records DEF AttemptsCounted, ReissuesBounded
  <2>6. ~overlapped /\ InFlight = {} => VisitAlone' /\ Agreed'
    BY <1>3, <2>1, <2>3, <2>4, Records DEF VisitAlone, Agreed
  <2>7. visit # NoVisit /\ (next.at = "idle" => next = NoVisit)
    BY <2>1, <2>3, Records
  <2> QED
    BY <1>0, <1>2, <2>1, <2>2, <2>3, <2>4, <2>5, <2>6, <2>7
<1>9. CASE ReconcilerEnqueue
  <2>1. /\ visit.at = "enqueue" /\ queued' \in {TRUE, queued} /\ visit' = NoVisit
        /\ UNCHANGED <<stored, media, session, call, run, reissues, errors>>
    BY <1>9 DEF ReconcilerEnqueue
  <2>2. stored
    BY <2>1 DEF NotBeforeStored, HasSeen
  <2>3. AttemptsCounted'
    BY <2>1, Records DEF AttemptsCounted, ReissuesBounded
  <2>4. ~overlapped /\ InFlight = {} => VisitAlone' /\ Agreed'
    BY <1>3, <2>1, Records DEF VisitAlone, Agreed
  <2>5. visit # NoVisit /\ queued' \in BOOLEAN
    BY <1>0, <2>1, Records
  <2> QED
    BY <1>0, <1>2, <2>1, <2>2, <2>3, <2>4, <2>5, Records
<1>10. CASE ReconcilerFailMedia
  <2>1. /\ visit.at = "failMedia"
        /\ media' = Saved(media, visit.media, Media("failed_permanent", "PENDING_UPLOAD"))
        /\ visit' = [visit EXCEPT !.at = "failSession", !.media = NoMedia]
        /\ UNCHANGED <<stored, session, call, queued, run, reissues, errors>>
    BY <1>10 DEF ReconcilerFailMedia
  <2>2. PICK next \in VisitRecords : next = [visit EXCEPT !.at = "failSession", !.media = NoMedia]
    BY <1>0, Records DEF VisitRecords, VisitStates
  <2>3. next.at = "failSession" /\ next.attempts = visit.attempts /\ visit' = next
    BY <1>0, <2>1, <2>2 DEF VisitRecords
  <2>4. /\ media' \in Medias /\ media'.ai \in {"PENDING_UPLOAD", media.ai}
        /\ media'.upload = IF visit.media.upload = "failed_permanent" THEN media.upload ELSE "failed_permanent"
    <3>1. /\ Media("failed_permanent", "PENDING_UPLOAD") \in Medias
          /\ Media("failed_permanent", "PENDING_UPLOAD").upload = "failed_permanent"
          /\ Media("failed_permanent", "PENDING_UPLOAD").ai = "PENDING_UPLOAD"
      BY Records DEF UploadStatuses, AiStatuses
    <3> QED
      BY <1>0, <2>1, <3>1, SavedMedia
  <2>5. AttemptsCounted'
    BY <2>1, <2>3 DEF AttemptsCounted, ReissuesBounded
  <2>6. ~overlapped /\ InFlight = {} => VisitAlone'
    BY <1>3, <2>1, <2>3, <2>4 DEF VisitAlone
  <2>7. next # NoVisit /\ (~stored => ~queued' /\ media'.ai = "PENDING_UPLOAD" /\ next.at \notin HasSeen)
    BY <2>1, <2>3, <2>4, Records DEF NotBeforeStored, HasSeen
  <2> QED
    BY <1>0, <1>2, <2>1, <2>3, <2>4, <2>5, <2>6, <2>7
<1>11. CASE ReconcilerFailSession
  <2>1. /\ visit.at = "failSession" /\ visit' = NoVisit
        /\ session' = [status |-> "failed", attempts |-> visit.attempts + 1, stale |-> FALSE]
        /\ UNCHANGED <<stored, media, call, queued, run, reissues, errors>>
    BY <1>11 DEF ReconcilerFailSession
  <2>2. /\ session' \in [status : SessionStatuses, attempts : Nat, stale : BOOLEAN]
        /\ session'.status = "failed" /\ session'.attempts = visit.attempts + 1
    BY <1>0, <2>1 DEF SessionStatuses
  <2>3. AttemptsCounted'
    BY <1>0, <2>1, <2>2, Records DEF AttemptsCounted, ReissuesBounded
  <2>4. ~overlapped /\ InFlight = {} => VisitAlone' /\ Agreed'
    BY <1>3, <2>1, <2>2, Records DEF VisitAlone, Agreed
  <2>5. visit # NoVisit /\ (~stored => ~queued' /\ media'.ai = "PENDING_UPLOAD" /\ NoVisit.at \notin HasSeen)
    BY <2>1, Records DEF NotBeforeStored, HasSeen
  <2> QED
    BY <1>0, <1>2, <2>1, <2>2, <2>3, <2>4, <2>5, Records
<1>12. CASE ReconcilerReissueSession
  <2>1. /\ visit.at = "reissueSession" /\ reissues' = reissues + 1
        /\ session' = [session EXCEPT !.attempts = visit.attempts + 1, !.stale = FALSE]
        /\ visit' = [visit EXCEPT !.at = "reissueMedia"]
        /\ UNCHANGED <<stored, media, call, queued, run, errors>>
    BY <1>12 DEF ReconcilerReissueSession
  <2>2. PICK next \in VisitRecords : next = [visit EXCEPT !.at = "reissueMedia"]
    BY <1>0 DEF VisitRecords, VisitStates
  <2>3. next.at = "reissueMedia" /\ next.media = visit.media /\ visit' = next
    BY <1>0, <2>1, <2>2 DEF VisitRecords
  <2>4. /\ session' \in [status : SessionStatuses, attempts : Nat, stale : BOOLEAN]
        /\ session'.status = session.status /\ session'.attempts = visit.attempts + 1
    <3>1. PICK attempts \in Nat : attempts = visit.attempts + 1
      BY <1>0
    <3>2. session' = [session EXCEPT !.attempts = attempts, !.stale = FALSE]
      BY <2>1, <3>1
    <3> QED
      BY <1>0, <3>1, <3>2
  <2>5. AttemptsCounted'
    BY <1>0, <2>1, <2>3, <2>4, UploadConstants DEF AttemptsCounted, ReissuesBounded
  <2>6. ~overlapped /\ InFlight = {} => VisitAlone'
    BY <1>3, <2>1, <2>3, <2>4 DEF VisitAlone, Agreed
  <2>7. next # NoVisit /\ (~stored => ~queued' /\ media'.ai = "PENDING_UPLOAD" /\ next.at \notin HasSeen)
    BY <2>1, <2>3, Records DEF NotBeforeStored, HasSeen
  <2> QED
    BY <1>0, <1>2, <2>1, <2>3, <2>4, <2>5, <2>6, <2>7
<1>13. CASE ReconcilerReissueMedia
  <2>1. /\ visit.at = "reissueMedia" /\ visit' = NoVisit
        /\ media' = Saved(media, visit.media, [visit.media EXCEPT !.upload = "session_created"])
        /\ UNCHANGED <<stored, session, call, queued, run, reissues, errors>>
    BY <1>13 DEF ReconcilerReissueMedia
  <2>2. /\ media' \in Medias /\ media'.ai = media.ai
        /\ media'.upload = IF visit.media.upload = "session_created" THEN media.upload ELSE "session_created"
    <3>1. PICK values \in Medias : values = [visit.media EXCEPT !.upload = "session_created"]
      BY <1>0 DEF Medias, UploadStatuses
    <3>2. values.upload = "session_created" /\ values.ai = visit.media.ai
      BY <1>0, <3>1 DEF Medias
    <3>3. media' = Saved(media, visit.media, values)
      BY <2>1, <3>1
    <3>4. Saved(media, visit.media, values).ai = media.ai
      BY <1>0, <3>2, SavedMedia
    <3> QED
      BY <1>0, <3>2, <3>3, <3>4, SavedMedia
  <2>3. AttemptsCounted'
    BY <2>1, Records DEF AttemptsCounted, ReissuesBounded
  <2>4. ~overlapped /\ InFlight = {} => VisitAlone' /\ Agreed'
    BY <1>3, <2>1, <2>2, Records DEF VisitAlone, Agreed
  <2>5. visit # NoVisit /\ (~stored => ~queued' /\ media'.ai = "PENDING_UPLOAD" /\ NoVisit.at \notin HasSeen)
    BY <2>1, <2>2, Records DEF NotBeforeStored, HasSeen
  <2> QED
    BY <1>0, <1>2, <2>1, <2>2, <2>3, <2>4, <2>5, Records
<1> QED
  BY <1>4, <1>5, <1>6, <1>7, <1>8, <1>9, <1>10, <1>11, <1>12, <1>13 DEF Reconciler

LEMMA UploadNext ==
    ASSUME UploadInv, [Next]_vars
    PROVE  UploadInv'
<1>1. ASSUME NEW c \in Calls, createUploadSessions(c), overlapped' = (overlapped \/ AtWork)
      PROVE  UploadInv'
  BY <1>1, UploadOpen
<1>2. ASSUME Step, overlapped' = (overlapped \/ Crowded')
      PROVE  UploadInv'
  BY <1>2, UploadCall, UploadAround, UploadReconciler DEF Step
<1>3. CASE BreakOff
  BY <1>3, UploadBreakOff
<1>4. CASE UNCHANGED vars
  BY <1>4 DEF vars, UploadInv, TypeOK, NotBeforeStored, AttemptsCounted, ReissuesBounded, Alone, CallAlone,
              VisitAlone, Agreed, Crowded, AtWork, InFlight
<1> QED
  BY <1>1, <1>2, <1>3, <1>4 DEF Next

THEOREM UploadHolds == MCSpec => []UploadInv
<1>1. MCInit => UploadInv
  BY UploadInit DEF MCInit
<1>2. UploadInv /\ [MCNext]_all => UploadInv'
  BY UploadNext, StepOfParts
<1> QED
  BY <1>1, <1>2, PTL DEF MCSpec

\* An image is analysed, or due to be, only when its object is in the store, however calls,
\* sweeps and runs interleave and whatever breaks off.
THEOREM AnalysedImages == MCSpec => []AnalysedMeansStored
<1>1. UploadInv => AnalysedMeansStored
  BY DEF UploadInv, NotBeforeStored, AnalysedMeansStored, TypeOK
<1> QED
  BY <1>1, UploadHolds, PTL

\* The presigned URL of an image is reissued MaxAttempts - 1 times at most over the life of its session.
THEOREM Reissues == MCSpec => []ReissuesBounded
<1>1. UploadInv => ReissuesBounded
  BY DEF UploadInv, AttemptsCounted
<1> QED
  BY <1>1, UploadHolds, PTL

\* The session's row and the image's row agree when nobody is at work, unless two handlers
\* were at work together or one broke off.
THEOREM RowsTogether == MCSpec => []RowsAgree
<1>1. UploadInv => RowsAgree
  BY DEF UploadInv, Alone, Agreed, RowsAgree
<1> QED
  BY <1>1, UploadHolds, PTL

-----------------------------------------------------------------------------
(* The backups of a scope (BackupJobs).                                    *)

\* Where the process of a job may be once the job has succeeded.
Past == {"record", "list", "prune", "fail", "done", "dead"}

Succeeded(k) == job[k].status = "success"
Offers(k) == Succeeded(k) /\ ~job[k].cleaned /\ k \in archives
IsListed(p, k) == p \in prune[k].rest \/ p \in prune[k].now

\* A job, its process and what it prunes: jobs that completed before it.
JobFacts(k) ==
    /\ Succeeded(k) => runner[k] \in Past
    /\ prune[k] # J!NoList => runner[k] = "prune"
    /\ \A p \in Jobs : IsListed(p, k) => p # k /\ runner[p] \in Past /\ job[p].completed < job[k].completed
    /\ \A p \in prune[k].now : prune[k].now = {p}
    /\ runner[k] \in {"verify", "finish"} => k \in archives
    /\ ~presumed /\ runner[k] \in {"record", "list", "prune"} => Succeeded(k)

CleanupFacts ==
    /\ \A p \in cleanup.rest \cup cleanup.now : runner[p] \in Past
    /\ cleanup.now # {} => expired

\* A job that has succeeded and cannot be failed any more by an error of its own.
Secured(k) == Succeeded(k) /\ runner[k] \in {"list", "prune", "done", "dead"}

\* The last of the secured jobs offers its archive. A job that may still fail does so
\* too, or there is a secured one that completed after it.
LastIsKept ==
    ~expired /\ ~presumed =>
        /\ (\E k \in Jobs : Secured(k)) =>
                \E m \in Jobs : /\ Secured(m) /\ Offers(m)
                                /\ \A k \in Jobs : Secured(k) => job[k].completed <= job[m].completed
        /\ \A j \in Jobs : Succeeded(j) /\ ~Secured(j) =>
                Offers(j) \/ \E k \in Jobs : Secured(k) /\ job[j].completed < job[k].completed

\* While no two jobs complete together, the one that does has its archive, which nobody has listed.
OneCompletes ==
    ~together /\ ~expired =>
        /\ \A j, k \in J!Completing : j = k
        /\ \A j \in J!Completing : j \in archives /\ \A k \in Jobs : ~IsListed(j, k)

JobsInv ==
    /\ J!TypeOK
    /\ \A k \in Jobs : JobFacts(k)
    /\ CleanupFacts
    /\ LastIsKept
    /\ OneCompletes
    /\ J!OfferedIsStored

JobRecords == [status : J!Statuses, cleaned : BOOLEAN, completed : Nat, quiet : BOOLEAN]

LEMMA JobsTyped ==
    ASSUME J!TypeOK
    PROVE  /\ job \in [Jobs -> JobRecords] /\ runner \in [Jobs -> J!Places] /\ prune \in [Jobs -> J!Lists]
           /\ \A k \in Jobs : /\ job[k].completed \in Nat /\ job[k].status \in J!Statuses /\ job[k].cleaned \in BOOLEAN
                              /\ prune[k].rest \subseteq Jobs /\ prune[k].now \subseteq Jobs
           /\ cleanup \in J!Lists /\ cleanup.rest \subseteq Jobs /\ cleanup.now \subseteq Jobs
           /\ archives \subseteq Jobs
BY DEF J!TypeOK, J!Lists, JobRecords

\* The time at which a job completes is one.
LEMMA LatestTime ==
    ASSUME J!TypeOK, NEW at \in J!Latest
    PROVE  at \in Nat
BY JobsTyped DEF J!Latest

LEMMA JobsKeepTypes ==
    ASSUME J!TypeOK, J!Next
    PROVE  J!TypeOK'
<1> USE DEF J!TypeOK
<1>0. job \in [Jobs -> JobRecords] /\ MaxFaults \in Nat
  BY JobsTyped, StorageAssumption DEF J!JobsAssumption
<1>1. ASSUME J!Fault PROVE faults' \in 0 .. MaxFaults
  BY <1>0, <1>1 DEF J!Fault
\* What a step may write to a row, one field at a time.
<1>2. ASSUME NEW j \in Jobs, NEW status \in J!Statuses, NEW cleaned \in BOOLEAN, NEW quiet \in BOOLEAN
      PROVE  /\ [job EXCEPT ![j].status = status] \in [Jobs -> JobRecords]
             /\ [job EXCEPT ![j].cleaned = cleaned] \in [Jobs -> JobRecords]
             /\ [job EXCEPT ![j].quiet = quiet] \in [Jobs -> JobRecords]
             /\ \A at \in Nat : [job EXCEPT ![j].completed = at] \in [Jobs -> JobRecords]
             /\ [job EXCEPT ![j].status = status, ![j].quiet = quiet] \in [Jobs -> JobRecords]
             /\ [job EXCEPT ![j].status = status, ![j].cleaned = cleaned, ![j].quiet = quiet] \in [Jobs -> JobRecords]
  BY <1>0 DEF JobRecords
<1>3. /\ {"queued", "running", "failed", "success"} \subseteq J!Statuses
      /\ {"start", "export", "verify", "finish", "record", "list", "prune", "fail", "done", "dead"} \subseteq J!Places
  BY DEF J!Statuses, J!Places
<1>4. ASSUME NEW j \in Jobs, NEW from, NEW to \in J!Places, J!Goes(j, from, to)
      PROVE  runner' \in [Jobs -> J!Places]
  BY <1>4 DEF J!Goes
<1>5. ASSUME NEW j \in Jobs, J!createAndRunJob(j) PROVE J!TypeOK'
  <2>1. job' \in [Jobs -> JobRecords] /\ runner' \in [Jobs -> J!Places]
    BY <1>2, <1>3, <1>4, <1>5 DEF J!createAndRunJob
  <2> QED
    BY <1>5, <2>1 DEF J!createAndRunJob, JobRecords
<1>6. ASSUME NEW j \in Jobs, J!StartJob(j) PROVE J!TypeOK'
  <2>1. job' \in [Jobs -> JobRecords] /\ runner' \in [Jobs -> J!Places]
    BY <1>2, <1>3, <1>4, <1>6 DEF J!StartJob
  <2> QED
    BY <1>6, <2>1 DEF J!StartJob, JobRecords
<1>7. ASSUME NEW j \in Jobs, J!persistProgress(j) PROVE J!TypeOK'
  <2>1. job' \in [Jobs -> JobRecords]
    BY <1>2, <1>3, <1>7 DEF J!persistProgress
  <2> QED
    BY <1>7, <2>1 DEF J!persistProgress, JobRecords
<1>8. ASSUME NEW j \in Jobs, J!Upload(j) \/ J!VerifyUpload(j) \/ J!RecordFile(j) \/ J!BreakJob(j) PROVE J!TypeOK'
  <2>1. runner' \in [Jobs -> J!Places]
    BY <1>3, <1>4, <1>8 DEF J!Upload, J!VerifyUpload, J!RecordFile, J!BreakJob
  <2>2. faults' \in 0 .. MaxFaults
    BY <1>1, <1>8 DEF J!Upload, J!VerifyUpload, J!RecordFile, J!BreakJob
  <2>3. archives' \subseteq Jobs
    BY <1>8 DEF J!Upload, J!VerifyUpload, J!RecordFile, J!BreakJob
  <2>4. job' \in [Jobs -> JobRecords]
    <3>1. CASE job' = job
      BY <1>0, <3>1
    <3>2. CASE job' # job
      <4>1. PICK at \in J!Latest : job' = [job EXCEPT ![j].completed = at]
        BY <1>8, <3>2 DEF J!Upload, J!VerifyUpload, J!RecordFile, J!BreakJob
      <4>2. at \in Nat
        BY LatestTime
      <4> QED
        BY <1>2, <4>1, <4>2
    <3> QED
      BY <3>1, <3>2
  <2> QED
    BY <1>8, <2>1, <2>2, <2>3, <2>4 DEF J!Upload, J!VerifyUpload, J!RecordFile, J!BreakJob, JobRecords
<1>9. ASSUME NEW j \in Jobs, J!FinishJob(j) PROVE J!TypeOK'
  <2>1. job' \in [Jobs -> JobRecords] /\ runner' \in [Jobs -> J!Places]
    BY <1>2, <1>3, <1>4, <1>9 DEF J!FinishJob
  <2>2. together' \in BOOLEAN
    BY <1>9 DEF J!FinishJob
  <2> QED
    BY <1>9, <2>1, <2>2 DEF J!FinishJob, JobRecords
<1>10. ASSUME NEW j \in Jobs, J!FailJob(j) PROVE J!TypeOK'
  <2>1. job' \in [Jobs -> JobRecords] /\ runner' \in [Jobs -> J!Places]
    BY <1>2, <1>3, <1>4, <1>10 DEF J!FailJob
  <2> QED
    BY <1>10, <2>1 DEF J!FailJob, JobRecords
<1>11. ASSUME NEW j \in Jobs, J!Crash(j) PROVE J!TypeOK'
  <2>1. runner' \in [Jobs -> J!Places] /\ prune' \in [Jobs -> J!Lists]
    BY <1>3, <1>11 DEF J!Crash, J!Lists, J!NoList
  <2>2. faults' \in 0 .. MaxFaults /\ unmarked' \subseteq Jobs
    BY <1>1, <1>11, JobsTyped DEF J!Crash
  <2> QED
    BY <1>11, <2>1, <2>2 DEF J!Crash
<1>12. ASSUME NEW j \in Jobs, J!PruneList(j) PROVE J!TypeOK'
  <2>1. runner' \in [Jobs -> J!Places]
    BY <1>3, <1>4, <1>12 DEF J!PruneList
  <2>2. prune' \in [Jobs -> J!Lists]
    BY <1>12 DEF J!PruneList, J!Lists, J!Offered
  <2>3. faults' \in 0 .. MaxFaults
    BY <1>1, <1>12 DEF J!PruneList
  <2> QED
    BY <1>12, <2>1, <2>2, <2>3 DEF J!PruneList
<1>13. ASSUME NEW j \in Jobs, NEW p \in Jobs, J!PruneDelete(j, p) PROVE J!TypeOK'
  <2>1. prune' \in [Jobs -> J!Lists] /\ archives' \subseteq Jobs
    <3>1. /\ [rest |-> prune[j].rest \ {p}, now |-> {p}] \in J!Lists
          /\ [prune[j] EXCEPT !.rest = @ \ {p}] \in J!Lists
      BY DEF J!Lists
    <3>2. \E list \in J!Lists : prune' = [prune EXCEPT ![j] = list]
      BY <1>13, <3>1 DEF J!PruneDelete, J!Lists
    <3>3. archives' \subseteq Jobs
      BY <1>13 DEF J!PruneDelete
    <3> QED
      BY <3>2, <3>3
  <2>2. faults' \in 0 .. MaxFaults /\ unmarked' \subseteq Jobs
    BY <1>1, <1>13 DEF J!PruneDelete
  <2> QED
    BY <1>13, <2>1, <2>2 DEF J!PruneDelete
<1>14. ASSUME NEW j \in Jobs, NEW p \in Jobs, J!PruneMark(j, p) PROVE J!TypeOK'
  <2>1. prune' \in [Jobs -> J!Lists]
    BY <1>14 DEF J!PruneMark, J!Lists
  <2>2. job' \in [Jobs -> JobRecords]
    <3>1. CASE job' = job
      BY <1>0, <3>1
    <3>2. CASE job' = [job EXCEPT ![p].cleaned = TRUE]
      BY <1>2, <3>2
    <3> QED
      BY <1>14, <3>1, <3>2 DEF J!PruneMark
  <2>3. faults' \in 0 .. MaxFaults /\ unmarked' \subseteq Jobs
    BY <1>1, <1>14 DEF J!PruneMark
  <2> QED
    BY <1>14, <2>1, <2>2, <2>3 DEF J!PruneMark, JobRecords
<1>15. ASSUME NEW j \in Jobs, J!PruneSummary(j) PROVE J!TypeOK'
  <2>1. job' \in [Jobs -> JobRecords] /\ runner' \in [Jobs -> J!Places]
    <3>1. runner' \in [Jobs -> J!Places]
      BY <1>3, <1>4, <1>15 DEF J!PruneSummary
    <3>2. CASE job' = job
      BY <1>0, <3>1, <3>2
    <3>3. CASE job' = [job EXCEPT ![j].cleaned = FALSE]
      BY <1>2, <3>1, <3>3
    <3> QED
      BY <1>15, <3>2, <3>3 DEF J!PruneSummary
  <2>2. faults' \in 0 .. MaxFaults
    BY <1>1, <1>15 DEF J!PruneSummary
  <2> QED
    BY <1>15, <2>1, <2>2 DEF J!PruneSummary, JobRecords
<1>16. ASSUME NEW old \in SUBSET Jobs, J!CleanupList(old) PROVE J!TypeOK'
  <2>1. cleanup' \in J!Lists
    BY <1>16 DEF J!CleanupList, J!NoList, J!Lists
  <2> QED
    BY <1>16, <2>1 DEF J!CleanupList
<1>17. ASSUME NEW p \in Jobs, J!CleanupDelete(p) PROVE J!TypeOK'
  <2>1. cleanup' \in J!Lists /\ archives' \subseteq Jobs
    BY <1>17 DEF J!CleanupDelete, J!Lists, J!NoList
  <2>2. faults' \in 0 .. MaxFaults /\ expired' \in BOOLEAN
    BY <1>1, <1>17 DEF J!CleanupDelete
  <2> QED
    BY <1>17, <2>1, <2>2 DEF J!CleanupDelete
<1>18. ASSUME NEW p \in Jobs, J!CleanupMark(p) PROVE J!TypeOK'
  <2>1. cleanup' \in J!Lists
    BY <1>18 DEF J!CleanupMark, J!Lists, J!NoList
  <2>2. job' \in [Jobs -> JobRecords]
    <3>1. CASE job' = job
      BY <1>0, <3>1
    <3>2. CASE job' = [job EXCEPT ![p].cleaned = TRUE]
      BY <1>2, <3>2
    <3> QED
      BY <1>18, <3>1, <3>2 DEF J!CleanupMark
  <2>3. faults' \in 0 .. MaxFaults
    BY <1>1, <1>18 DEF J!CleanupMark
  <2> QED
    BY <1>18, <2>1, <2>2, <2>3 DEF J!CleanupMark, JobRecords
<1>19. ASSUME NEW j \in Jobs, J!GrowQuiet(j) PROVE J!TypeOK'
  <2>1. job' \in [Jobs -> JobRecords]
    BY <1>2, <1>3, <1>19 DEF J!GrowQuiet
  <2>2. faults' \in 0 .. MaxFaults
    BY <1>1, <1>19 DEF J!GrowQuiet
  <2> QED
    BY <1>19, <2>1, <2>2 DEF J!GrowQuiet, JobRecords
<1>20. CASE J!WatchList
  BY <1>20 DEF J!WatchList
<1>21. ASSUME NEW j \in Jobs, J!WatchFail(j) PROVE J!TypeOK'
  <2>1. job' \in [Jobs -> JobRecords]
    BY <1>2, <1>3, <1>21 DEF J!WatchFail
  <2>2. presumed' \in BOOLEAN /\ watch' \subseteq Jobs
    BY <1>21 DEF J!WatchFail
  <2> QED
    BY <1>21, <2>1, <2>2 DEF J!WatchFail, JobRecords
<1> QED
  BY <1>5, <1>6, <1>7, <1>8, <1>9, <1>10, <1>11, <1>12, <1>13, <1>14, <1>15, <1>16, <1>17, <1>18, <1>19,
     <1>20, <1>21
  DEF J!Next, J!runBackupJob, J!cleanupExpiredBackups, J!failStaleActiveBackupJobs

\* A step of a job that has not got past its end yet, or of whoever lists such jobs: what the
\* others have done, and what they have listed, is as it was; its own time of completion may
\* be taken.
LEMMA JobsAside ==
    ASSUME JobsInv, J!TypeOK', NEW j \in Jobs,
           \A k \in Jobs : /\ Succeeded(k)' <=> Succeeded(k)
                           /\ job'[k].cleaned = job[k].cleaned
                           /\ k # j \/ runner[j] \in Past => job'[k].completed = job[k].completed,
           \A k \in Jobs \ {j} : runner'[k] = runner[k],
           \/ runner'[j] = runner[j]
           \/ runner[j] \notin Past /\ runner'[j] \notin Past \ {"fail"},
           runner'[j] \in {"verify", "finish"} => j \in archives',
           archives \ {j} \subseteq archives',
           runner[j] \in Past => archives' = archives,
           UNCHANGED <<prune, cleanup, expired, presumed, unmarked, together>>
    PROVE  JobsInv'
<1> USE DEF JobsInv
<1>0. /\ \A k \in Jobs : job[k].completed \in Nat /\ prune[k].rest \subseteq Jobs /\ prune[k].now \subseteq Jobs
      /\ cleanup.rest \subseteq Jobs /\ cleanup.now \subseteq Jobs
      /\ \A k \in Jobs : runner[k] \in Past => runner'[k] = runner[k]
      /\ \A k \in Jobs : runner'[k] \in {"record", "list", "prune", "done", "dead"} => runner[k] = runner'[k]
      /\ \A k \in Jobs : runner[k] \in Past => job'[k].completed = job[k].completed
  BY JobsTyped DEF Past
<1>1. \A k \in Jobs : JobFacts(k)'
  <2> SUFFICES ASSUME NEW k \in Jobs PROVE JobFacts(k)'
    OBVIOUS
  <2>1. JobFacts(k)
    OBVIOUS
  <2>2. Succeeded(k)' => runner'[k] \in Past
    BY <1>0, <2>1 DEF JobFacts
  <2>3. prune'[k] # J!NoList => runner'[k] = "prune"
    BY <1>0, <2>1 DEF JobFacts, J!NoList, Past
  <2>4. ASSUME NEW p \in Jobs, IsListed(p, k)'
        PROVE  p # k /\ runner'[p] \in Past /\ job'[p].completed < job'[k].completed
    <3>1. p # k /\ runner[p] \in Past /\ job[p].completed < job[k].completed /\ runner[k] = "prune"
      BY <2>1, <2>4 DEF JobFacts, IsListed, J!NoList
    <3> QED
      BY <1>0, <3>1 DEF Past
  <2>5. runner'[k] \in {"verify", "finish"} => k \in archives'
    BY <1>0, <2>1 DEF JobFacts
  <2>6. ~presumed' /\ runner'[k] \in {"record", "list", "prune"} => Succeeded(k)'
    BY <1>0, <2>1 DEF JobFacts
  <2> QED
    BY <2>1, <2>2, <2>3, <2>4, <2>5, <2>6 DEF JobFacts, J!NoList
<1>2. CleanupFacts'
  BY <1>0 DEF CleanupFacts
<1>3. \A k \in Jobs : /\ Secured(k)' <=> Secured(k)
                      /\ Offers(k) => Offers(k)'
  BY <1>0 DEF Secured, Offers, JobFacts, Past, Succeeded
<1>4. LastIsKept'
  <2>1. \A k \in Jobs : /\ Secured(k) => Succeeded(k)
                        /\ Succeeded(k) => job'[k].completed = job[k].completed
    BY <1>0 DEF Secured, JobFacts
  <2> QED
    BY <1>3, <2>1 DEF LastIsKept
<1>5. OneCompletes'
  BY <1>0 DEF OneCompletes, J!Completing, IsListed, Past
<1>6. J!OfferedIsStored'
  BY <1>0 DEF J!OfferedIsStored, J!Offered, JobFacts, Succeeded, Past
<1> QED
  BY <1>1, <1>2, <1>4, <1>5, <1>6

\* Steps of a job up to its completion, and of those who see that it is late.
LEMMA JobsBefore ==
    ASSUME JobsInv, J!TypeOK', NEW j \in Jobs,
           \/ J!createAndRunJob(j) \/ J!StartJob(j) \/ J!persistProgress(j) \/ J!Upload(j) \/ J!VerifyUpload(j)
           \/ J!BreakJob(j) /\ runner[j] \in {"export", "finish"}
           \/ J!GrowQuiet(j)
    PROVE  JobsInv'
<1> USE DEF JobsInv
<1>0. job \in [Jobs -> JobRecords] /\ runner \in [Jobs -> J!Places]
  BY JobsTyped
<1>1. ASSUME runner[j] \notin Past PROVE ~Succeeded(j)
  BY <1>1 DEF JobFacts
<1>2. CASE J!createAndRunJob(j) \/ J!StartJob(j)
  <2>1. PICK from \in {"idle", "start"}, to \in {"start", "export"} :
            /\ runner[j] = from /\ runner' = [runner EXCEPT ![j] = to]
            /\ \/ job' = [job EXCEPT ![j].status = "queued"]
               \/ job' = [job EXCEPT ![j].status = "running", ![j].quiet = FALSE]
            /\ UNCHANGED <<archives, prune, cleanup, expired, presumed, unmarked, together>>
    BY <1>2 DEF J!createAndRunJob, J!StartJob, J!Goes
  <2>2. ~Succeeded(j) /\ runner[j] \notin Past /\ runner'[j] \notin Past \cup {"verify", "finish"}
    BY <1>0, <1>1, <2>1 DEF Past
  <2>3. \A k \in Jobs : /\ job'[k].status = "success" <=> job[k].status = "success"
                        /\ job'[k].cleaned = job[k].cleaned
                        /\ job'[k].completed = job[k].completed
    BY <1>0, <2>1, <2>2 DEF JobRecords, Succeeded
  <2> QED
    BY <1>0, <2>1, <2>2, <2>3, JobsAside DEF Succeeded
<1>3. CASE J!persistProgress(j) \/ J!GrowQuiet(j)
  <2>1. /\ \E quiet \in BOOLEAN : job' = [job EXCEPT ![j].quiet = quiet]
        /\ UNCHANGED <<runner, archives, prune, cleanup, expired, presumed, unmarked, together>>
    BY <1>3 DEF J!persistProgress, J!GrowQuiet
  <2>2. \A k \in Jobs : /\ job'[k].status = "success" <=> job[k].status = "success"
                        /\ job'[k].cleaned = job[k].cleaned
                        /\ job'[k].completed = job[k].completed
    BY <1>0, <2>1 DEF JobRecords
  <2>3. runner'[j] \in {"verify", "finish"} => j \in archives'
    BY <2>1 DEF JobFacts
  <2> QED
    BY <2>1, <2>2, <2>3, JobsAside DEF Succeeded
<1>4. CASE J!Upload(j) \/ J!VerifyUpload(j) \/ (J!BreakJob(j) /\ runner[j] \in {"export", "finish"})
  <2>1. /\ UNCHANGED <<prune, cleanup, expired, presumed, unmarked, together>>
        /\ job' = job \/ \E at \in J!Latest : job' = [job EXCEPT ![j].completed = at]
        /\ runner[j] \in {"export", "verify", "finish"}
        /\ \E to \in {"verify", "finish", "fail"} : runner' = [runner EXCEPT ![j] = to]
        /\ archives \ {j} \subseteq archives'
    BY <1>4 DEF J!Upload, J!VerifyUpload, J!BreakJob, J!Goes
  <2>2. ASSUME runner'[j] \in {"verify", "finish"} PROVE j \in archives'
    <3>1. j \in archives' \/ (archives' = archives /\ runner[j] = "verify")
      BY <1>0, <1>4, <2>2 DEF J!Upload, J!VerifyUpload, J!BreakJob, J!Goes
    <3> QED
      BY <3>1 DEF JobFacts
  <2>3. runner[j] \notin Past /\ runner'[j] \notin Past \ {"fail"} /\ \A k \in Jobs \ {j} : runner'[k] = runner[k]
    BY <1>0, <2>1 DEF Past
  <2>4. \A k \in Jobs : /\ job'[k].status = job[k].status
                        /\ job'[k].cleaned = job[k].cleaned
                        /\ k # j => job'[k].completed = job[k].completed
    BY <1>0, <2>1 DEF JobRecords
  <2> QED
    BY <2>1, <2>2, <2>3, <2>4, JobsAside DEF Succeeded
<1> QED
  BY <1>2, <1>3, <1>4

\* The steps from a job's completion on.
LEMMA JobsFinish ==
    ASSUME JobsInv, J!TypeOK', NEW j \in Jobs, J!FinishJob(j)
    PROVE  JobsInv'
<1> USE DEF JobsInv
<1>0. job \in [Jobs -> JobRecords] /\ runner \in [Jobs -> J!Places]
      /\ \A k \in Jobs : job[k].completed \in Nat
  BY JobsTyped
<1>1. /\ runner[j] = "finish" /\ runner' = [runner EXCEPT ![j] = "record"]
      /\ together' = (together \/ J!Completing # {})
      /\ UNCHANGED <<archives, prune, cleanup, expired, presumed, unmarked>>
  BY DEF J!FinishJob, J!Goes
<1>2. job' = [job EXCEPT ![j].status = "success", ![j].cleaned = FALSE, ![j].quiet = FALSE]
  BY DEF J!FinishJob
<1>3. /\ Succeeded(j)' /\ ~job'[j].cleaned /\ job'[j].completed = job[j].completed
      /\ \A k \in Jobs \ {j} : job'[k] = job[k] /\ runner'[k] = runner[k]
      /\ runner'[j] = "record" /\ j \in archives
  BY <1>0, <1>1, <1>2 DEF Succeeded, JobFacts, JobRecords
<1>4. \A k \in Jobs : job'[k].completed = job[k].completed
  BY <1>3
\* Nobody has listed the job, and it has listed none.
<1>5. prune[j] = J!NoList /\ (\A k \in Jobs : ~IsListed(j, k)) /\ ~Succeeded(j)
  BY <1>1 DEF JobFacts, Past
<1>6. \A k \in Jobs : JobFacts(k)'
  <2> SUFFICES ASSUME NEW k \in Jobs PROVE JobFacts(k)'
    OBVIOUS
  <2>1. CASE k = j
    <3>1. \A p : ~IsListed(p, j)
      BY <1>5 DEF IsListed, J!NoList
    <3> QED
      BY <1>1, <1>3, <1>5, <2>1, <3>1 DEF JobFacts, IsListed, J!NoList, Past
  <2>2. CASE k # j
    BY <1>1, <1>3, <1>4, <1>5, <2>2 DEF JobFacts, IsListed, J!NoList, Past, Succeeded
  <2> QED
    BY <2>1, <2>2
<1>7. CleanupFacts'
  BY <1>1, <1>3 DEF CleanupFacts, Past
<1>8. LastIsKept'
  <2>1. \A k \in Jobs : Secured(k)' <=> Secured(k)
    BY <1>1, <1>3 DEF Secured, Succeeded
  <2>2. \A k \in Jobs \ {j} : (Offers(k)' <=> Offers(k)) /\ (Succeeded(k)' <=> Succeeded(k))
    BY <1>1, <1>3 DEF Offers, Succeeded
  <2>3. Offers(j)' /\ ~Secured(j)
    BY <1>1, <1>3 DEF Offers, Secured
  <2> QED
    BY <1>1, <1>4, <2>1, <2>2, <2>3 DEF LastIsKept, Secured
<1>9. OneCompletes'
  <2> SUFFICES ASSUME ~together', ~expired' PROVE OneCompletes'
    BY DEF OneCompletes
  <2>1. J!Completing = {}
    BY <1>1
  <2>2. J!Completing' = {j}
    BY <1>3, <2>1 DEF J!Completing
  <2>3. \A k \in Jobs : ~IsListed(j, k)'
    BY <1>1, <1>5 DEF IsListed
  <2> QED
    BY <1>1, <1>3, <2>2, <2>3 DEF OneCompletes
<1>10. J!OfferedIsStored'
  <2> SUFFICES ASSUME ~together', ~expired', NEW i \in J!Offered' \ archives'
               PROVE  i \in unmarked' \/ \E k \in Jobs : i \in prune'[k].now
    BY DEF J!OfferedIsStored
  <2>1. i # j /\ i \in J!Offered \ archives /\ ~together /\ ~expired
    BY <1>1, <1>3 DEF J!Offered
  <2>2. i \in unmarked \/ \E k \in Jobs : i \in prune[k].now
    BY <2>1 DEF J!OfferedIsStored
  <2> QED
    BY <1>1, <2>2
<1> QED
  BY <1>6, <1>7, <1>8, <1>9, <1>10

\* A job that can no longer fail joins those of which the last has its archive.
LEMMA JoinsSecured ==
    ASSUME J!TypeOK, LastIsKept, ~expired, ~presumed, NEW j \in Jobs, Succeeded(j), ~Secured(j)
    PROVE  \E m \in Jobs : /\ Secured(m) \/ m = j
                          /\ Offers(m)
                          /\ \A k \in Jobs : Secured(k) \/ k = j => job[k].completed <= job[m].completed
<1>0. \A k \in Jobs : job[k].completed \in Nat
  BY JobsTyped
<1>1. CASE \E k \in Jobs : Secured(k) /\ job[j].completed < job[k].completed
  <2>1. PICK m \in Jobs : /\ Secured(m) /\ Offers(m)
                          /\ \A k \in Jobs : Secured(k) => job[k].completed <= job[m].completed
    BY <1>1 DEF LastIsKept
  <2>2. job[j].completed <= job[m].completed
    BY <1>0, <1>1, <2>1
  <2> QED
    BY <2>1, <2>2
<1>2. CASE ~ \E k \in Jobs : Secured(k) /\ job[j].completed < job[k].completed
  <2>1. Offers(j)
    BY <1>2 DEF LastIsKept
  <2>2. \A k \in Jobs : Secured(k) => job[k].completed <= job[j].completed
    BY <1>0, <1>2
  <2> QED
    BY <1>0, <2>1, <2>2
<1> QED
  BY <1>1, <1>2

LEMMA JobsRecord ==
    ASSUME JobsInv, J!TypeOK', NEW j \in Jobs, J!RecordFile(j)
    PROVE  JobsInv'
<1> USE DEF JobsInv
<1>0. job \in [Jobs -> JobRecords] /\ runner \in [Jobs -> J!Places]
      /\ \A k \in Jobs : job[k].completed \in Nat
  BY JobsTyped
<1>1. /\ runner[j] = "record" /\ runner' = [runner EXCEPT ![j] = "list"]
      /\ UNCHANGED <<job, archives, prune, cleanup, expired, presumed, unmarked, together>>
  BY DEF J!RecordFile, J!Goes
<1>2. runner'[j] = "list" /\ \A k \in Jobs \ {j} : runner'[k] = runner[k]
  BY <1>0, <1>1
<1>3. \A k \in Jobs : JobFacts(k)'
  BY <1>1, <1>2 DEF JobFacts, IsListed, J!NoList, Past, Succeeded
<1>4. CleanupFacts'
  BY <1>1, <1>2 DEF CleanupFacts, Past
<1>5. LastIsKept'
  <2> SUFFICES ASSUME ~expired, ~presumed PROVE LastIsKept'
    BY <1>1 DEF LastIsKept
  <2>1. /\ Succeeded(j) /\ ~Secured(j) /\ Secured(j)'
        /\ \A k \in Jobs \ {j} : Secured(k)' <=> Secured(k)
        /\ \A k \in Jobs : /\ (Offers(k)' <=> Offers(k)) /\ (Succeeded(k)' <=> Succeeded(k))
                           /\ job'[k].completed = job[k].completed
    BY <1>1, <1>2 DEF Secured, Succeeded, Offers, JobFacts
  <2>2. \E m \in Jobs : /\ Secured(m)' /\ Offers(m)'
                        /\ \A k \in Jobs : Secured(k)' => job'[k].completed <= job'[m].completed
    BY <2>1, JoinsSecured
  <2>3. \A i \in Jobs : Succeeded(i)' /\ ~Secured(i)' =>
            Offers(i)' \/ \E k \in Jobs : Secured(k)' /\ job'[i].completed < job'[k].completed
    BY <2>1 DEF LastIsKept
  <2> QED
    BY <2>2, <2>3 DEF LastIsKept
<1>6. OneCompletes'
  BY <1>1, <1>2 DEF OneCompletes, J!Completing, IsListed
<1>7. J!OfferedIsStored'
  BY <1>1, <1>2 DEF J!OfferedIsStored, J!Offered
<1> QED
  BY <1>3, <1>4, <1>5, <1>6, <1>7

\* An error after the job has completed, and its being failed for one: it may no longer count.
LEMMA JobsFail ==
    ASSUME JobsInv, J!TypeOK', NEW j \in Jobs, (J!BreakJob(j) /\ runner[j] = "record") \/ J!FailJob(j)
    PROVE  JobsInv'
<1> USE DEF JobsInv
<1>0. job \in [Jobs -> JobRecords] /\ runner \in [Jobs -> J!Places]
      /\ \A k \in Jobs : job[k].completed \in Nat
  BY JobsTyped
<1>1. PICK from \in {"record", "fail"}, to \in {"fail", "done"} :
        /\ runner[j] = from /\ runner' = [runner EXCEPT ![j] = to]
        /\ to = "fail" => job' = job
        /\ to = "done" => job' = [job EXCEPT ![j].status = "failed", ![j].cleaned = FALSE, ![j].quiet = FALSE]
        /\ UNCHANGED <<archives, prune, cleanup, expired, presumed, unmarked, together>>
  BY DEF J!BreakJob, J!FailJob, J!Goes
<1>2. /\ runner'[j] = to /\ (to = "done" => ~Succeeded(j)')
      /\ \A k \in Jobs \ {j} : runner'[k] = runner[k] /\ job'[k] = job[k]
      /\ \A k \in Jobs : job'[k].completed = job[k].completed
      /\ Succeeded(j)' => Succeeded(j) /\ job'[j] = job[j] /\ to = "fail"
  BY <1>0, <1>1 DEF JobRecords, Succeeded
<1>3. \A k \in Jobs : JobFacts(k)'
  BY <1>1, <1>2 DEF JobFacts, IsListed, J!NoList, Past, Succeeded
<1>4. CleanupFacts'
  BY <1>1, <1>2 DEF CleanupFacts, Past
<1>5. LastIsKept'
  <2>1. \A k \in Jobs : /\ Secured(k)' <=> Secured(k)
                        /\ Succeeded(k)' => Succeeded(k) /\ (Offers(k)' <=> Offers(k))
                        /\ job'[k].completed = job[k].completed
    BY <1>1, <1>2 DEF Secured, Succeeded, Offers
  <2>2. \A k \in Jobs : Secured(k) => Succeeded(k)'
    BY <1>1, <1>2 DEF Secured, Succeeded
  <2> QED
    BY <1>1, <2>1, <2>2 DEF LastIsKept
<1>6. OneCompletes'
  BY <1>1, <1>2 DEF OneCompletes, J!Completing, IsListed
<1>7. J!OfferedIsStored'
  <2> SUFFICES ASSUME ~together, ~expired, NEW i \in J!Offered' \ archives'
               PROVE  i \in unmarked' \/ \E k \in Jobs : i \in prune'[k].now
    BY <1>1 DEF J!OfferedIsStored
  <2>1. i \in J!Offered \ archives
    BY <1>1, <1>2 DEF J!Offered, Succeeded
  <2>2. i \in unmarked \/ \E k \in Jobs : i \in prune[k].now
    BY <2>1 DEF J!OfferedIsStored
  <2> QED
    BY <1>1, <1>2, <2>1, <2>2 DEF J!Offered
<1> QED
  BY <1>3, <1>4, <1>5, <1>6, <1>7

\* The process of a job ends: what it was deleting stays as it is.
LEMMA JobsCrash ==
    ASSUME JobsInv, J!TypeOK', NEW j \in Jobs, J!Crash(j)
    PROVE  JobsInv'
<1> USE DEF JobsInv
<1>0. job \in [Jobs -> JobRecords] /\ runner \in [Jobs -> J!Places] /\ prune \in [Jobs -> J!Lists]
      /\ \A k \in Jobs : job[k].completed \in Nat
  BY JobsTyped
<1>1. /\ runner[j] \notin {"idle", "done", "dead"} /\ runner' = [runner EXCEPT ![j] = "dead"]
      /\ prune' = [prune EXCEPT ![j] = J!NoList] /\ unmarked' = unmarked \cup prune[j].now
      /\ UNCHANGED <<job, archives, cleanup, expired, presumed, together>>
  BY DEF J!Crash
<1>2. /\ runner'[j] = "dead" /\ prune'[j] = J!NoList /\ (\A p : ~IsListed(p, j)')
      /\ \A k \in Jobs \ {j} : runner'[k] = runner[k] /\ prune'[k] = prune[k]
  BY <1>0, <1>1 DEF J!NoList, IsListed
<1>3. \A k \in Jobs : JobFacts(k)'
  <2> SUFFICES ASSUME NEW k \in Jobs PROVE JobFacts(k)'
    OBVIOUS
  <2>1. CASE k = j
    BY <1>1, <1>2, <2>1 DEF JobFacts, IsListed, J!NoList, Past, Succeeded
  <2>2. CASE k # j
    BY <1>1, <1>2, <2>2 DEF JobFacts, IsListed, J!NoList, Past, Succeeded
  <2> QED
    BY <2>1, <2>2
<1>4. CleanupFacts'
  BY <1>1, <1>2 DEF CleanupFacts, Past
<1>5. LastIsKept'
  <2> SUFFICES ASSUME ~expired, ~presumed PROVE LastIsKept'
    BY <1>1 DEF LastIsKept
  <2>1. /\ Secured(j)' <=> Succeeded(j)
        /\ Secured(j) => Succeeded(j)
        /\ \A k \in Jobs \ {j} : Secured(k)' <=> Secured(k)
        /\ \A k \in Jobs : /\ (Offers(k)' <=> Offers(k)) /\ (Succeeded(k)' <=> Succeeded(k))
                           /\ job'[k].completed = job[k].completed
    BY <1>1, <1>2 DEF Secured, Succeeded, Offers
  <2>2. CASE ~Succeeded(j) \/ Secured(j)
    BY <1>1, <2>1, <2>2 DEF LastIsKept
  <2>3. CASE Succeeded(j) /\ ~Secured(j)
    <3>1. \E m \in Jobs : /\ Secured(m)' /\ Offers(m)'
                          /\ \A k \in Jobs : Secured(k)' => job'[k].completed <= job'[m].completed
      BY <2>1, <2>3, JoinsSecured
    <3>2. \A i \in Jobs : Succeeded(i)' /\ ~Secured(i)' =>
              Offers(i)' \/ \E k \in Jobs : Secured(k)' /\ job'[i].completed < job'[k].completed
      BY <2>1, <2>3 DEF LastIsKept
    <3> QED
      BY <3>1, <3>2 DEF LastIsKept
  <2> QED
    BY <2>2, <2>3
<1>6. OneCompletes'
  BY <1>1, <1>2 DEF OneCompletes, J!Completing, IsListed
<1>7. J!OfferedIsStored'
  <2> SUFFICES ASSUME ~together, ~expired, NEW i \in J!Offered' \ archives'
               PROVE  i \in unmarked' \/ \E k \in Jobs : i \in prune'[k].now
    BY <1>1 DEF J!OfferedIsStored
  <2>1. i \in J!Offered \ archives /\ i \in Jobs
    BY <1>1 DEF J!Offered
  <2>2. i \in unmarked \/ \E k \in Jobs : i \in prune[k].now
    BY <2>1 DEF J!OfferedIsStored
  <2> QED
    BY <1>1, <1>2, <2>2
<1> QED
  BY <1>3, <1>4, <1>5, <1>6, <1>7

\* A job lists those before it, to delete what they have.
LEMMA JobsPruneList ==
    ASSUME JobsInv, J!TypeOK', NEW j \in Jobs, J!PruneList(j)
    PROVE  JobsInv'
<1> USE DEF JobsInv
<1>0. /\ job \in [Jobs -> JobRecords] /\ runner \in [Jobs -> J!Places] /\ prune \in [Jobs -> J!Lists]
      /\ \A k \in Jobs : job[k].completed \in Nat
  BY JobsTyped
<1>1. /\ runner[j] = "list" /\ runner' = [runner EXCEPT ![j] = "prune"]
      /\ \/ prune' = [prune EXCEPT ![j].rest = {p \in J!Offered \ {j} : job[p].completed < job[j].completed}]
         \/ prune' = prune
      /\ UNCHANGED <<job, archives, cleanup, expired, presumed, unmarked, together>>
  BY DEF J!PruneList, J!Goes
<1>2. /\ runner'[j] = "prune" /\ prune'[j].now = prune[j].now /\ prune[j] = J!NoList
      /\ prune'[j].rest \subseteq {p \in J!Offered \ {j} : job[p].completed < job[j].completed}
      /\ \A k \in Jobs \ {j} : runner'[k] = runner[k] /\ prune'[k] = prune[k]
  BY <1>0, <1>1 DEF J!Lists, J!NoList, JobFacts
<1>3. \A p \in Jobs : IsListed(p, j)' => p # j /\ Succeeded(p) /\ job[p].completed < job[j].completed
  BY <1>2 DEF IsListed, J!NoList, J!Offered, Succeeded
<1>4. \A k \in Jobs : JobFacts(k)'
  <2> SUFFICES ASSUME NEW k \in Jobs PROVE JobFacts(k)'
    OBVIOUS
  <2>1. CASE k = j
    BY <1>1, <1>2, <1>3, <2>1 DEF JobFacts, J!NoList, Past, Succeeded
  <2>2. CASE k # j
    BY <1>1, <1>2, <2>2 DEF JobFacts, IsListed, J!NoList, Past, Succeeded
  <2> QED
    BY <2>1, <2>2
<1>5. CleanupFacts'
  BY <1>1, <1>2 DEF CleanupFacts, Past
<1>6. LastIsKept'
  <2>1. \A k \in Jobs : /\ Secured(k)' <=> Secured(k)
                        /\ Succeeded(k)' <=> Succeeded(k)
                        /\ Offers(k)' <=> Offers(k)
    BY <1>1, <1>2 DEF Secured, Succeeded, Offers
  <2> QED
    BY <1>1, <2>1 DEF LastIsKept
<1>7. OneCompletes'
  <2> SUFFICES ASSUME ~together', ~expired' PROVE OneCompletes'
    BY DEF OneCompletes
  <2>1. J!Completing' = J!Completing /\ j \in J!Completing
    BY <1>1, <1>2 DEF J!Completing
  <2>2. \A i \in J!Completing, k \in Jobs : ~IsListed(i, k)'
    <3>1. \A i \in J!Completing : i = j
      BY <1>1, <2>1 DEF OneCompletes
    <3>2. ~IsListed(j, j)'
      BY <1>3
    <3>3. \A k \in Jobs \ {j} : ~IsListed(j, k)'
      BY <1>1, <1>2, <2>1 DEF OneCompletes, IsListed
    <3> QED
      BY <3>1, <3>2, <3>3
  <2> QED
    BY <1>1, <2>1, <2>2 DEF OneCompletes
<1>8. J!OfferedIsStored'
  BY <1>1, <1>2 DEF J!OfferedIsStored, J!Offered
<1> QED
  BY <1>4, <1>5, <1>6, <1>7, <1>8

\* A job deletes what it has listed, one archive after the other.
LEMMA JobsPruneDelete ==
    ASSUME JobsInv, J!TypeOK', NEW j \in Jobs, NEW p \in Jobs, J!PruneDelete(j, p)
    PROVE  JobsInv'
<1> USE DEF JobsInv
<1>0. /\ prune \in [Jobs -> J!Lists] /\ \A k \in Jobs : job[k].completed \in Nat
  BY JobsTyped
<1>1. /\ p \in prune[j].rest /\ prune[j].now = {} /\ archives' \in {archives, archives \ {p}}
      /\ prune' \in {[prune EXCEPT ![j] = [rest |-> @.rest \ {p}, now |-> {p}]], [prune EXCEPT ![j].rest = @ \ {p}]}
      /\ unmarked' \in {unmarked, unmarked \cup {p}}
      /\ UNCHANGED <<job, runner, cleanup, expired, presumed, together>>
  BY DEF J!PruneDelete
<1>2. archives' = archives \/ p \in prune'[j].now \/ p \in unmarked'
  BY <1>0 DEF J!PruneDelete, J!Lists
<1>3. /\ prune'[j].rest \subseteq prune[j].rest /\ prune'[j].now \in {{}, {p}}
      /\ \A k \in Jobs \ {j} : prune'[k] = prune[k]
      /\ \A i, k \in Jobs : IsListed(i, k)' => IsListed(i, k)
  BY <1>0, <1>1 DEF J!Lists, IsListed
<1>4. /\ IsListed(p, j) /\ runner[j] = "prune" /\ p # j /\ runner[p] \in Past
      /\ job[p].completed < job[j].completed
  BY <1>1 DEF JobFacts, IsListed, J!NoList
<1>5. \A k \in Jobs : JobFacts(k)'
  <2> SUFFICES ASSUME NEW k \in Jobs PROVE JobFacts(k)'
    OBVIOUS
  <2>1. prune'[k] # J!NoList => runner'[k] = "prune"
    BY <1>1, <1>3, <1>4 DEF JobFacts
  <2>2. \A i \in prune'[k].now : prune'[k].now = {i}
    BY <1>3 DEF JobFacts
  <2>3. runner'[k] \in {"verify", "finish"} => k \in archives'
    BY <1>1, <1>4 DEF JobFacts, Past
  <2> QED
    BY <1>1, <1>3, <2>1, <2>2, <2>3 DEF JobFacts, Succeeded
<1>6. CleanupFacts'
  BY <1>1 DEF CleanupFacts
<1>7. LastIsKept'
  <2> SUFFICES ASSUME ~expired, ~presumed PROVE LastIsKept'
    BY <1>1 DEF LastIsKept
  <2>1. /\ Secured(j)
        /\ \A k \in Jobs : /\ Secured(k)' <=> Secured(k)
                           /\ Succeeded(k)' <=> Succeeded(k)
                           /\ k # p => (Offers(k)' <=> Offers(k))
    BY <1>1, <1>4 DEF Secured, Succeeded, Offers, JobFacts
  <2>2. PICK m \in Jobs : /\ Secured(m) /\ Offers(m)
                          /\ \A k \in Jobs : Secured(k) => job[k].completed <= job[m].completed
    BY <2>1 DEF LastIsKept
  <2>3. m # p
    BY <1>0, <1>4, <2>1, <2>2
  <2> QED
    BY <1>1, <1>4, <2>1, <2>2, <2>3 DEF LastIsKept
<1>8. OneCompletes'
  <2> SUFFICES ASSUME ~together', ~expired' PROVE OneCompletes'
    BY DEF OneCompletes
  <2>1. J!Completing' = J!Completing /\ p \notin J!Completing
    BY <1>1, <1>4 DEF J!Completing, OneCompletes
  <2> QED
    BY <1>1, <1>3, <2>1 DEF OneCompletes, J!Completing
<1>9. J!OfferedIsStored'
  <2> SUFFICES ASSUME ~together, ~expired, NEW i \in J!Offered \ archives'
               PROVE  i \in unmarked' \/ \E k \in Jobs : i \in prune'[k].now
    BY <1>1 DEF J!OfferedIsStored, J!Offered
  <2>1. CASE i \in archives
    BY <1>1, <1>2, <2>1
  <2>2. CASE i \notin archives
    BY <1>1, <1>3, <2>2 DEF J!OfferedIsStored
  <2> QED
    BY <2>1, <2>2
<1> QED
  BY <1>5, <1>6, <1>7, <1>8, <1>9

\* The archive a job has deleted is marked as such.
LEMMA JobsPruneMark ==
    ASSUME JobsInv, J!TypeOK', NEW j \in Jobs, NEW p \in Jobs, J!PruneMark(j, p)
    PROVE  JobsInv'
<1> USE DEF JobsInv
<1>0. /\ job \in [Jobs -> JobRecords] /\ prune \in [Jobs -> J!Lists]
      /\ \A k \in Jobs : job[k].completed \in Nat
  BY JobsTyped
<1>1. /\ p \in prune[j].now
      /\ prune' = [prune EXCEPT ![j].now = {}]
      /\ \/ job' = [job EXCEPT ![p].cleaned = TRUE] /\ unmarked' = unmarked
         \/ job' = job /\ unmarked' = unmarked \cup {p}
      /\ UNCHANGED <<runner, archives, cleanup, expired, presumed, together>>
  BY DEF J!PruneMark
<1>2. /\ prune'[j].rest = prune[j].rest /\ prune'[j].now = {} /\ prune[j].now = {p}
      /\ \A k \in Jobs \ {j} : prune'[k] = prune[k]
      /\ \A i, k \in Jobs : IsListed(i, k)' => IsListed(i, k)
  BY <1>0, <1>1 DEF J!Lists, IsListed, JobFacts
<1>3. /\ job'[p].cleaned \/ p \in unmarked'
      /\ \A k \in Jobs \ {p} : job'[k] = job[k]
      /\ \A k \in Jobs : job'[k].status = job[k].status /\ job'[k].completed = job[k].completed
  BY <1>0, <1>1 DEF JobRecords
<1>4. /\ IsListed(p, j) /\ runner[j] = "prune" /\ job[p].completed < job[j].completed
  BY <1>1 DEF JobFacts, IsListed, J!NoList
<1>5. \A k \in Jobs : JobFacts(k)'
  <2> SUFFICES ASSUME NEW k \in Jobs PROVE JobFacts(k)'
    OBVIOUS
  <2>1. prune'[k] # J!NoList => runner'[k] = "prune"
    BY <1>1, <1>2, <1>4 DEF JobFacts
  <2>2. \A i \in prune'[k].now : prune'[k].now = {i}
    BY <1>2 DEF JobFacts
  <2> QED
    BY <1>1, <1>2, <1>3, <2>1, <2>2 DEF JobFacts, Succeeded
<1>6. CleanupFacts'
  BY <1>1 DEF CleanupFacts
<1>7. LastIsKept'
  <2> SUFFICES ASSUME ~expired, ~presumed PROVE LastIsKept'
    BY <1>1 DEF LastIsKept
  <2>1. /\ Secured(j)
        /\ \A k \in Jobs : /\ Secured(k)' <=> Secured(k)
                           /\ Succeeded(k)' <=> Succeeded(k)
                           /\ k # p => (Offers(k)' <=> Offers(k))
    BY <1>1, <1>3, <1>4 DEF Secured, Succeeded, Offers, JobFacts
  <2>2. PICK m \in Jobs : /\ Secured(m) /\ Offers(m)
                          /\ \A k \in Jobs : Secured(k) => job[k].completed <= job[m].completed
    BY <2>1 DEF LastIsKept
  <2>3. m # p
    BY <1>0, <1>4, <2>1, <2>2
  <2> QED
    BY <1>1, <1>3, <1>4, <2>1, <2>2, <2>3 DEF LastIsKept
<1>8. OneCompletes'
  BY <1>1, <1>2 DEF OneCompletes, J!Completing
<1>9. J!OfferedIsStored'
  <2> SUFFICES ASSUME ~together, ~expired, NEW i \in J!Offered' \ archives
               PROVE  i \in unmarked' \/ \E k \in Jobs : i \in prune'[k].now
    BY <1>1 DEF J!OfferedIsStored
  <2>1. i \in J!Offered /\ (i = p => i \in unmarked')
    <3>1. i \in Jobs /\ job'[i].status = "success" /\ ~job'[i].cleaned
      BY DEF J!Offered
    <3>2. CASE job' = job
      BY <1>1, <1>3, <3>1, <3>2 DEF J!Offered
    <3>3. CASE job' # job
      <4>1. job'[p].cleaned
        BY <1>0, <1>1, <3>3 DEF JobRecords
      <4>2. i # p /\ job'[i] = job[i]
        BY <1>3, <3>1, <4>1
      <4> QED
        BY <3>1, <4>2 DEF J!Offered
    <3> QED
      BY <3>2, <3>3
  <2>2. i \in unmarked \/ \E k \in Jobs : i \in prune[k].now
    BY <2>1 DEF J!OfferedIsStored
  <2> QED
    BY <1>1, <1>2, <2>1, <2>2
<1> QED
  BY <1>5, <1>6, <1>7, <1>8, <1>9

\* The job is through, and its row is written as the job knows it: nobody has deleted its archive.
LEMMA JobsPruneSummary ==
    ASSUME JobsInv, J!TypeOK', NEW j \in Jobs, J!PruneSummary(j)
    PROVE  JobsInv'
<1> USE DEF JobsInv
<1>0. /\ job \in [Jobs -> JobRecords] /\ runner \in [Jobs -> J!Places]
      /\ \A k \in Jobs : job[k].completed \in Nat
  BY JobsTyped
<1>1. /\ runner[j] = "prune" /\ runner' = [runner EXCEPT ![j] = "done"]
      /\ prune[j] = J!NoList
      /\ job' = job \/ job' = [job EXCEPT ![j].cleaned = FALSE]
      /\ UNCHANGED <<archives, prune, cleanup, expired, presumed, unmarked, together>>
  BY DEF J!PruneSummary, J!Goes
<1>2. /\ runner'[j] = "done" /\ \A k \in Jobs \ {j} : runner'[k] = runner[k]
      /\ job'[j].cleaned => job[j].cleaned
      /\ \A k \in Jobs \ {j} : job'[k] = job[k]
      /\ \A k \in Jobs : job'[k].status = job[k].status /\ job'[k].completed = job[k].completed
  BY <1>0, <1>1 DEF JobRecords
<1>3. \A k \in Jobs : JobFacts(k)'
  BY <1>1, <1>2 DEF JobFacts, IsListed, J!NoList, Past, Succeeded
<1>4. CleanupFacts'
  BY <1>1, <1>2 DEF CleanupFacts, Past
<1>5. LastIsKept'
  <2>1. \A k \in Jobs : /\ Secured(k)' <=> Secured(k)
                        /\ Succeeded(k)' <=> Succeeded(k)
                        /\ Offers(k) => Offers(k)'
    BY <1>1, <1>2 DEF Secured, Succeeded, Offers
  <2> QED
    BY <1>1, <1>2, <2>1 DEF LastIsKept
<1>6. OneCompletes'
  <2>1. J!Completing' \subseteq J!Completing
    BY <1>1, <1>2 DEF J!Completing
  <2> QED
    BY <1>1, <2>1 DEF OneCompletes, IsListed
<1>7. J!OfferedIsStored'
  <2> SUFFICES ASSUME ~together, ~expired, NEW i \in J!Offered' \ archives
               PROVE  i \in unmarked' \/ \E k \in Jobs : i \in prune'[k].now
    BY <1>1 DEF J!OfferedIsStored
  <2>1. j \in archives
    BY <1>1 DEF OneCompletes, J!Completing
  <2>2. i \in J!Offered \ archives
    BY <1>2, <2>1 DEF J!Offered
  <2> QED
    BY <1>1, <1>2, <2>2 DEF J!OfferedIsStored, J!Offered
<1> QED
  BY <1>3, <1>4, <1>5, <1>6, <1>7

\* The retention clean-up: from its first deletion on nothing is said of what is kept.
LEMMA JobsCleanup ==
    ASSUME JobsInv, J!TypeOK', J!cleanupExpiredBackups
    PROVE  JobsInv'
<1> USE DEF JobsInv
<1>0. /\ job \in [Jobs -> JobRecords] /\ cleanup \in J!Lists
      /\ \A k \in Jobs : job[k].completed \in Nat
  BY JobsTyped
<1>1. ASSUME NEW old \in SUBSET Jobs, J!CleanupList(old) PROVE JobsInv'
  <2>1. /\ old \subseteq J!Offered /\ cleanup' = [J!NoList EXCEPT !.rest = old]
        /\ UNCHANGED <<job, runner, archives, prune, expired, presumed, unmarked, together>>
    BY <1>1 DEF J!CleanupList
  <2>2. cleanup'.rest = old /\ cleanup'.now = {}
    BY <2>1 DEF J!NoList
  <2>3. \A k \in Jobs : JobFacts(k)'
    BY <2>1 DEF JobFacts, IsListed, J!NoList, Succeeded
  <2>4. CleanupFacts'
    BY <2>1, <2>2 DEF CleanupFacts, J!Offered, JobFacts, Succeeded
  <2>5. LastIsKept' /\ OneCompletes' /\ J!OfferedIsStored'
    BY <2>1 DEF LastIsKept, OneCompletes, J!OfferedIsStored, J!Offered, J!Completing, Secured, Succeeded, Offers,
                IsListed
  <2> QED
    BY <2>3, <2>4, <2>5
<1>2. ASSUME NEW p \in Jobs, J!CleanupDelete(p) PROVE JobsInv'
  <2>1. /\ p \in cleanup.rest
        /\ \/ archives' = archives \ {p} /\ cleanup' = [rest |-> cleanup.rest \ {p}, now |-> {p}] /\ expired'
           \/ archives' = archives \ {p} /\ cleanup' = J!NoList /\ expired'
           \/ UNCHANGED <<archives, expired>> /\ cleanup' = J!NoList
        /\ UNCHANGED <<job, runner, prune, presumed, unmarked, together>>
    BY <1>2 DEF J!CleanupDelete
  <2>2. /\ cleanup'.rest \subseteq cleanup.rest
        /\ cleanup'.now = {} \/ (cleanup'.now = {p} /\ expired')
    BY <1>0, <2>1 DEF J!Lists, J!NoList
  <2>3. \A k \in Jobs : JobFacts(k)'
    BY <2>1 DEF JobFacts, IsListed, J!NoList, Succeeded, CleanupFacts, Past
  <2>4. CleanupFacts'
    BY <2>1, <2>2 DEF CleanupFacts
  <2>5. LastIsKept' /\ OneCompletes' /\ J!OfferedIsStored'
    BY <2>1 DEF LastIsKept, OneCompletes, J!OfferedIsStored, J!Offered, J!Completing, Secured, Succeeded, Offers,
                IsListed
  <2> QED
    BY <2>3, <2>4, <2>5
<1>3. ASSUME NEW p \in Jobs, J!CleanupMark(p) PROVE JobsInv'
  <2>1. /\ p \in cleanup.now
        /\ job' = job \/ job' = [job EXCEPT ![p].cleaned = TRUE]
        /\ cleanup' \in {J!NoList, [cleanup EXCEPT !.now = {}]}
        /\ UNCHANGED <<runner, archives, prune, expired, presumed, unmarked, together>>
    BY <1>3 DEF J!CleanupMark
  <2>2. expired /\ cleanup'.rest \subseteq cleanup.rest /\ cleanup'.now = {}
    BY <1>0, <2>1 DEF CleanupFacts, J!Lists, J!NoList
  <2>3. \A k \in Jobs : job'[k].status = job[k].status /\ job'[k].completed = job[k].completed
    BY <1>0, <2>1 DEF JobRecords
  <2>4. \A k \in Jobs : JobFacts(k)'
    BY <2>1, <2>3 DEF JobFacts, IsListed, J!NoList, Succeeded
  <2>5. CleanupFacts'
    BY <2>1, <2>2 DEF CleanupFacts
  <2>6. LastIsKept' /\ OneCompletes' /\ J!OfferedIsStored'
    BY <2>1, <2>2 DEF LastIsKept, OneCompletes, J!OfferedIsStored
  <2> QED
    BY <2>4, <2>5, <2>6
<1> QED
  BY <1>1, <1>2, <1>3 DEF J!cleanupExpiredBackups

\* Jobs without a heartbeat are failed: one that has succeeded, or lives, is presumed stale.
LEMMA JobsWatch ==
    ASSUME JobsInv, J!TypeOK', J!failStaleActiveBackupJobs
    PROVE  JobsInv'
<1> USE DEF JobsInv
<1>0. /\ job \in [Jobs -> JobRecords] /\ runner \in [Jobs -> J!Places] /\ presumed \in BOOLEAN
      /\ \A k \in Jobs : job[k].completed \in Nat
  BY JobsTyped DEF J!TypeOK
<1>1. CASE J!WatchList
  <2>1. UNCHANGED <<job, runner, archives, prune, cleanup, expired, presumed, unmarked, together>>
    BY <1>1 DEF J!WatchList
  <2> QED
    BY <2>1 DEF JobFacts, IsListed, J!NoList, Succeeded, CleanupFacts, LastIsKept, OneCompletes, J!OfferedIsStored,
                J!Offered, J!Completing, Secured, Offers
<1>2. ASSUME NEW j \in Jobs, J!WatchFail(j) PROVE JobsInv'
  <2>1. /\ job' = [job EXCEPT ![j].status = "failed", ![j].cleaned = FALSE, ![j].quiet = FALSE]
        /\ presumed' = (presumed \/ runner[j] # "dead" \/ job[j].status = "success")
        /\ UNCHANGED <<runner, archives, prune, cleanup, expired, unmarked, together>>
    BY <1>2 DEF J!WatchFail
  <2>2. /\ ~Succeeded(j)' /\ job'[j].status = "failed"
        /\ \A k \in Jobs \ {j} : job'[k] = job[k]
        /\ \A k \in Jobs : job'[k].completed = job[k].completed
    BY <1>0, <2>1 DEF JobRecords, Succeeded
  <2>3. ~presumed' => ~presumed /\ runner[j] = "dead" /\ ~Succeeded(j)
    BY <1>0, <2>1 DEF Succeeded
  <2>4. \A k \in Jobs : JobFacts(k)'
    BY <2>1, <2>2, <2>3 DEF JobFacts, IsListed, J!NoList, Succeeded
  <2>5. CleanupFacts'
    BY <2>1 DEF CleanupFacts
  <2>6. LastIsKept'
    <3> SUFFICES ASSUME ~expired', ~presumed' PROVE LastIsKept'
      BY DEF LastIsKept
    <3>1. \A k \in Jobs : /\ Secured(k)' <=> Secured(k)
                          /\ Succeeded(k)' <=> Succeeded(k)
                          /\ Offers(k)' <=> Offers(k)
      BY <2>1, <2>2, <2>3 DEF Secured, Succeeded, Offers
    <3> QED
      BY <2>1, <2>2, <2>3, <3>1 DEF LastIsKept
  <2>7. OneCompletes'
    BY <2>1 DEF OneCompletes, J!Completing, IsListed
  <2>8. J!OfferedIsStored'
    <3>1. J!Offered' \subseteq J!Offered
      BY <2>2 DEF J!Offered, Succeeded
    <3> QED
      BY <2>1, <2>2, <3>1 DEF J!OfferedIsStored, J!Offered
  <2> QED
    BY <2>4, <2>5, <2>6, <2>7, <2>8
<1> QED
  BY <1>1, <1>2 DEF J!failStaleActiveBackupJobs

LEMMA JobsInit == J!Init => JobsInv
<1> SUFFICES ASSUME J!Init PROVE JobsInv
  OBVIOUS
<1>1. /\ \A k \in Jobs : /\ job[k].status = "none" /\ ~job[k].cleaned /\ job[k].completed = 0
                         /\ runner[k] = "idle" /\ prune[k] = J!NoList
      /\ cleanup = J!NoList /\ J!NoList.rest = {} /\ J!NoList.now = {}
      /\ archives = {} /\ ~expired
  BY DEF J!Init, J!NoList
<1>2. J!TypeOK
  <2>1. job \in [Jobs -> JobRecords]
    BY DEF J!Init, JobRecords, J!Statuses
  <2>2. runner \in [Jobs -> J!Places] /\ prune \in [Jobs -> J!Lists] /\ cleanup \in J!Lists
    BY DEF J!Init, J!Places, J!Lists, J!NoList
  <2>3. faults \in 0 .. MaxFaults
    BY StorageAssumption DEF J!Init, J!JobsAssumption
  <2> QED
    BY <2>1, <2>2, <2>3 DEF J!Init, J!TypeOK, JobRecords
<1>3. \A k \in Jobs : ~Succeeded(k) /\ \A p : ~IsListed(p, k)
  BY <1>1 DEF Succeeded, IsListed
<1> QED
  BY <1>1, <1>2, <1>3 DEF JobsInv, JobFacts, CleanupFacts, LastIsKept, OneCompletes, J!OfferedIsStored, J!Offered,
                          J!Completing, Secured, Past, Succeeded

LEMMA JobsNext ==
    ASSUME JobsInv, [J!Next]_jobVars
    PROVE  JobsInv'
<1>1. CASE J!Next
  <2>1. J!TypeOK'
    BY <1>1, JobsKeepTypes DEF JobsInv
  <2>2. ASSUME NEW j \in Jobs,
               \/ J!createAndRunJob(j) \/ J!runBackupJob(j) \/ J!BreakJob(j) \/ J!Crash(j) \/ J!GrowQuiet(j)
        PROVE  JobsInv'
    <3>1. J!BreakJob(j) => runner[j] \in {"export", "finish", "record"}
      BY DEF J!BreakJob
    <3> QED
      BY <2>1, <2>2, <3>1, JobsBefore, JobsFinish, JobsRecord, JobsFail, JobsCrash, JobsPruneList, JobsPruneDelete,
         JobsPruneMark, JobsPruneSummary
      DEF J!runBackupJob
  <2> QED
    BY <1>1, <2>1, <2>2, JobsCleanup, JobsWatch DEF J!Next
<1>2. CASE UNCHANGED jobVars
  BY <1>2 DEF jobVars, JobsInv, J!TypeOK, JobFacts, IsListed, J!NoList, Succeeded, CleanupFacts, LastIsKept,
              OneCompletes, J!OfferedIsStored, J!Offered, J!Completing, Secured, Offers
<1> QED
  BY <1>1, <1>2

THEOREM JobsHold == MCSpec => []JobsInv
<1>1. MCInit => JobsInv
  BY JobsInit DEF MCInit
<1>2. JobsInv /\ [MCNext]_all => JobsInv'
  BY JobsNext, StepOfParts
<1> QED
  BY <1>1, <1>2, PTL DEF MCSpec

\* A job that has succeeded leaves an archive to restore from, and what a row offers can be
\* downloaded, however many jobs run together and prune each other's archives.
THEOREM KeptArchives == MCSpec => []ArchivesAreKept
<1>1. JobsInv => J!LatestIsKept
  <2> SUFFICES ASSUME JobsInv, NEW j \in Jobs, Succeeded(j), ~expired, ~presumed
               PROVE  J!Offered \cap archives # {}
    BY DEF J!LatestIsKept, Succeeded
  <2>1. \E m \in Jobs : Offers(m)
    BY DEF JobsInv, LastIsKept
  <2> QED
    BY <2>1 DEF Offers, Succeeded, J!Offered
<1>2. JobsInv => ArchivesAreKept
  BY <1>1 DEF JobsInv, ArchivesAreKept
<1> QED
  BY <1>2, JobsHold, PTL
=============================================================================
