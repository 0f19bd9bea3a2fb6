---------------------------- MODULE Submissions ----------------------------
(***************************************************************************)
(* submitInspection (inspections/inspection.service.js) behind the         *)
(* middleware of its route: the requests that submit one inspection, some  *)
(* with the Idempotency-Key of the record of Idempotency, some with none.  *)
(*                                                                         *)
(* The handler looks for an earlier submission itself, by the client's id  *)
(* of it or else by the key, for the middleware lets a key pass again when *)
(* its lock or its answer has expired. A unique index stands behind the    *)
(* client's id, nothing behind the key. The status of the inspection is in *)
(* InspectionRollup; here the row is who submitted it last.                *)
(***************************************************************************)
EXTENDS Idempotency

CONSTANTS
    Others,            \* requests without an Idempotency-Key
    ClientId,          \* clientSubmissionId in each body
    NoClient,          \* the id of a body that has none
    TriggerOnUpload    \* runtimeConfig.analysis.triggerOnUpload

Submitters == Requests \cup Others

ASSUME SubmissionsAssumption ==
    /\ IsFiniteSet(Others) /\ Others \cap Requests = {} /\ NoRequest \notin Others
    /\ DOMAIN ClientId = Bodies
    /\ TriggerOnUpload \in BOOLEAN

VARIABLES
    form,           \* the body of each request without a key
    complete,       \* the media that the type of inspection asks for are confirmed
    place,          \* where the handler is with each request
    outcome,        \* what it has answered
    found,          \* the request whose submission the answer names
    submittedBy,    \* the request whose submitted_at the inspection holds
    stored,         \* InspectionSubmission, by the request that created each row
    analysed,       \* the rows whose analysis has been asked for
    escalated,      \* the rows whose recipients have been alerted
    crossed         \* history: two requests with the key were between look-up and insert

submissionVars ==
    <<form, complete, place, outcome, found, submittedBy, stored, analysed, escalated, crossed>>

allVars == <<vars, submissionVars>>

-----------------------------------------------------------------------------
Body(r) == IF r \in Requests THEN body[r] ELSE form[r]
Client(r) == ClientId[Body(r)]
Inserting == {"update", "insert"}
Working == {"look"} \cup Inserting \cup {"enqueue", "escalate"}

SubmissionsInit ==
    /\ Init
    /\ form \in [Others -> Bodies]
    /\ complete \in BOOLEAN
    /\ place = [r \in Submitters |-> "out"]
    /\ outcome = [r \in Submitters |-> "none"]
    /\ found = [r \in Submitters |-> NoRequest]
    /\ submittedBy = NoRequest
    /\ stored = {} /\ analysed = {} /\ escalated = {}
    /\ crossed = FALSE

Goes(r, to) ==
    /\ place' = [place EXCEPT ![r] = to]
    /\ crossed' = (crossed \/ \E s, t \in Requests :
                        s # t /\ place'[s] \in Inserting /\ place'[t] \in Inserting)

Answers(r, result, row) ==
    /\ Goes(r, "answered")
    /\ outcome' = [outcome EXCEPT ![r] = result]
    /\ found' = [found EXCEPT ![r] = row]

StillOut == UNCHANGED <<outcome, found>>

-----------------------------------------------------------------------------
(* submitInspection, a stretch at a time.                                  *)

\* The inspection is read with its media, and refused where these do not suffice.
LoadInspection(r) ==
    /\ place[r] = "out" /\ (r \in Requests => at[r] = "handler")
    /\ IF complete THEN Goes(r, "look") /\ StillOut ELSE Answers(r, "refused", NoRequest)
    /\ UNCHANGED <<vars, form, complete, submittedBy, stored, analysed, escalated>>

\* Mutant: a submission without a client's id is not looked for.
Earlier_ByClient(r) == {s \in stored : Client(r) # NoClient /\ Client(s) = Client(r)}

\* The submissions that the request repeats: of its client's id, or else of its key.
Earlier(r) ==
    IF Client(r) # NoClient THEN {s \in stored : Client(s) = Client(r)}
    ELSE {s \in stored : r \in Requests /\ s \in Requests}

FindSubmission(r) ==
    /\ place[r] = "look"
    /\ IF Earlier(r) = {} THEN Goes(r, "update") /\ StillOut
       ELSE \E s \in Earlier(r) : Answers(r, "ok", s)
    /\ UNCHANGED <<vars, form, complete, submittedBy, stored, analysed, escalated>>

UpdateInspection(r) ==
    /\ place[r] = "update"
    /\ submittedBy' = r
    /\ Goes(r, "insert") /\ StillOut
    /\ UNCHANGED <<vars, form, complete, stored, analysed, escalated>>

\* unique(inspection_id, client_submission_id): what the loser has written stays.
CreateSubmission(r) ==
    /\ place[r] = "insert"
    /\ IF Client(r) # NoClient /\ \E s \in stored : Client(s) = Client(r)
       THEN Answers(r, "error", NoRequest) /\ UNCHANGED stored
       ELSE Goes(r, "enqueue") /\ stored' = stored \cup {r} /\ StillOut
    /\ UNCHANGED <<vars, form, complete, submittedBy, analysed, escalated>>

\* With analysis on upload the images have been analysed one by one.
EnqueueSubmission(r) ==
    /\ place[r] = "enqueue"
    /\ analysed' = IF TriggerOnUpload THEN analysed ELSE analysed \cup {r}
    /\ Goes(r, "escalate") /\ StillOut
    /\ UNCHANGED <<vars, form, complete, submittedBy, stored, escalated>>

\* createSubmissionEscalationAlert: an error of it is logged, and the answer is the same.
Escalate(r) ==
    /\ place[r] = "escalate"
    /\ escalated' \in {escalated, escalated \cup {r}}
    /\ Answers(r, "ok", r)
    /\ UNCHANGED <<vars, form, complete, submittedBy, stored, analysed>>

\* A query is rejected.
Throw(r) ==
    /\ place[r] \in Working
    /\ Answers(r, "error", NoRequest)
    /\ UNCHANGED <<vars, form, complete, submittedBy, stored, analysed, escalated>>

submitInspection(r) ==
    \/ LoadInspection(r) \/ FindSubmission(r) \/ UpdateInspection(r) \/ CreateSubmission(r)
    \/ EnqueueSubmission(r) \/ Escalate(r) \/ Throw(r)

-----------------------------------------------------------------------------
(* The request around it.                                                  *)

\* Errors of the client, 4xx, are answers that the middleware keeps.
Respond(r) ==
    /\ place[r] = "answered"
    /\ Handle(r) /\ kept'[r] = (outcome[r] # "error")
    /\ UNCHANGED submissionVars

\* Before the answer is sent the client goes away, and the handler goes on, or the process dies.
Leave(r) ==
    /\ Abandon(r)
    /\ \/ UNCHANGED place
       \/ place[r] \in Working \cup {"out"} /\ place' = [place EXCEPT ![r] = "dead"]
    /\ UNCHANGED <<form, complete, outcome, found, submittedBy, stored, analysed, escalated, crossed>>

Die(r) ==
    /\ place[r] \in Working /\ (r \in Requests => at[r] = "done")
    /\ Goes(r, "dead") /\ StillOut
    /\ UNCHANGED <<vars, form, complete, submittedBy, stored, analysed, escalated>>

ConfirmMedia ==
    /\ ~complete
    /\ complete' = TRUE
    /\ UNCHANGED <<vars, form, place, outcome, found, submittedBy, stored, analysed, escalated, crossed>>

Middleware(r) ==
    /\ \/ Enter(r) \/ FindStored(r) \/ FindNothing(r) \/ Clear(r) \/ Lock(r)
       \/ Create(r) \/ CreateLoses(r) \/ Reread(r) \/ Finish(r)
    /\ UNCHANGED submissionVars

SubmissionsNext ==
    \/ Tick /\ UNCHANGED submissionVars
    \/ ConfirmMedia
    \/ \E r \in Requests : Middleware(r) \/ Respond(r) \/ Leave(r)
    \/ \E r \in Submitters : submitInspection(r) \/ Die(r)

SubmissionsSpec == SubmissionsInit /\ [][SubmissionsNext]_allVars

-----------------------------------------------------------------------------
(* A submission is recorded once, however often it is sent: while the lock  *)
(* holds, after it has lapsed under a handler that still runs, and after    *)
(* the stored answer is gone. Two rows of one key there are only if two of  *)
(* its handlers were between look-up and insert together, and of one id of  *)
(* the client never; an answer names a row of what was asked; and the       *)
(* inspection was submitted last by a request that has a row, is about to   *)
(* insert it, or failed to.                                                 *)
OneSubmission ==
    /\ \A r, s \in stored : r # s =>
        /\ Client(r) = NoClient \/ Client(s) # Client(r)
        /\ (r \in Requests /\ s \in Requests) => crossed
    /\ \A r \in Submitters : outcome[r] = "ok" =>
        /\ found[r] \in stored
        /\ Body(found[r]) = Body(r) \/ Client(found[r]) = Client(r)
    /\ submittedBy # NoRequest =>
        \/ submittedBy \in stored
        \/ place[submittedBy] \in {"insert", "dead"}
        \/ outcome[submittedBy] = "error"
=============================================================================
