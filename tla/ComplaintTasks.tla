--------------------------- MODULE ComplaintTasks ---------------------------
(***************************************************************************)
(* Critical complaints and their tasks: the automation that gives a        *)
(* complaint one task and a worker (criticalComplaint.service.js,          *)
(* workerAssignment.service.js), the handlers of the complaint             *)
(* (complaint.service.js) and of the task (task.service.js), and the sweep *)
(* that marks and escalates what is overdue (reminder.service.js).         *)
(*                                                                         *)
(* Every handler reads a row, awaits, and saves what differs from its      *)
(* reading (Saved). One partial unique index guards the tasks. Nothing     *)
(* sets a task of this type to pending or cancelled. Whether a complaint   *)
(* is critical and which workers are near enough are free choices; the     *)
(* complaints here have a facility, without which nothing is created.      *)
(***************************************************************************)
EXTENDS Naturals, FiniteSets, Sequelize

CONSTANTS
    Complaints,
    Workers,
    Tasks,          \* bound on the tasks that are created
    Requests,       \* the requests the API gets
    Ticks,          \* bound on the reminder sweeps at work at once, in one process
    None,           \* no worker, no complaint
    MaxActive,      \* maxActiveTasksPerWorker
    MaxFailures     \* bound on the escalations that are not sent

ASSUME ConstantsAssumption ==
    /\ IsFiniteSet(Tasks)
    /\ None \notin Workers \cup Complaints
    /\ MaxActive \in Nat \ {0}
    /\ MaxFailures \in Nat

VARIABLES
    complaint,  \* the Complaint rows
    task,       \* the InspectionTask rows
    logged,     \* the workers TaskAssignmentLog names for each task
    request,    \* where each request is, with the row it has read
    running,    \* reminderRunning
    tick,       \* where each sweep is, with the tasks it has read and not visited
    due,        \* the tasks whose due_at has passed
    sent,       \* how many rows with status sent TaskReminderLog has for each task
    failures,   \* how many escalations were not sent
    disturbed   \* history: tasks saved from an old reading, or whose handler broke off half way

vars == <<complaint, task, logged, request, running, tick, due, sent, failures, disturbed>>

-----------------------------------------------------------------------------
ActiveStatuses == {"unassigned", "assigned", "accepted", "in_progress", "overdue"}
\* Mutant: the index forgets the overdue tasks.
IndexedStatuses_NotOverdue == {"unassigned", "assigned", "accepted", "in_progress"}

\* The WHERE of inspection_tasks_critical_complaint_active_unique.
IndexedStatuses == {"unassigned", "assigned", "accepted", "in_progress", "overdue"}

TaskStatuses == {"none", "completed"} \cup ActiveStatuses
ComplaintStatuses == {"none", "open", "assigned", "resolved", "rejected"}
TerminalComplaint == {"resolved", "rejected"}
SomeWorker == Workers \cup {None}

ComplaintRows == [status : ComplaintStatuses, worker : SomeWorker]
TaskRows == [complaint : Complaints \cup {None}, status : TaskStatuses, worker : SomeWorker,
             accepted : BOOLEAN, started : BOOLEAN]

NewTask(c, status, w) ==
    [complaint |-> c, status |-> status, worker |-> w, accepted |-> FALSE, started |-> FALSE]

\* findActiveTaskForComplaint
HasActiveTask(c) == \E t \in Tasks : task[t].complaint = c /\ task[t].status \in ActiveStatuses

\* getActiveTaskCounts
ActiveTasksOf(w) == {t \in Tasks : task[t].worker = w /\ task[t].status \in ActiveStatuses}

\* The unique index lets task t have this row.
IndexAllows(t, row) ==
    row.status \in IndexedStatuses =>
        \A u \in Tasks \ {t} : ~ (task[u].complaint = row.complaint /\ task[u].status \in IndexedStatuses)

Idle == [at |-> "idle"]
Done == [at |-> "done"]
Goes(r, where) == request' = [request EXCEPT ![r] = where]

Init ==
    /\ complaint = [c \in Complaints |-> [status |-> "none", worker |-> None]]
    /\ task = [t \in Tasks |-> NewTask(None, "none", None)]
    /\ logged = [t \in Tasks |-> {}]
    /\ request = [r \in Requests |-> Idle]
    /\ running = FALSE
    /\ tick = [k \in Ticks |-> [at |-> "idle"]]
    /\ due = {}
    /\ sent = [t \in Tasks |-> 0]
    /\ failures = 0
    /\ disturbed = {}
-----------------------------------------------------------------------------
(* The handlers of complaint.service.js.                                     *)

\* createComplaint, createPublicComplaint: the row, then the automation.
CreateComplaint(r, c) ==
    /\ request[r] = Idle
    /\ complaint[c].status = "none"
    /\ complaint' = [complaint EXCEPT ![c].status = "open"]
    /\ Goes(r, [at |-> "critical", c |-> c])
    /\ UNCHANGED <<task, logged, running, tick, due, sent, failures, disturbed>>

\* loadScopedComplaint, at the head of the other handlers.
LoadComplaint(r, c) ==
    /\ request[r] = Idle
    /\ complaint[c].status # "none"
    /\ Goes(r, [at |-> "change", c |-> c, read |-> complaint[c]])
    /\ UNCHANGED <<complaint, task, logged, running, tick, due, sent, failures, disturbed>>

SaveComplaint(r, values) ==
    LET c == request[r].c
    IN  complaint' = [complaint EXCEPT ![c] = Saved(@, request[r].read, values)]

\* updateComplaint goes on to the automation.
UpdateComplaint(r) ==
    /\ request[r].at = "change"
    /\ \E status \in ComplaintStatuses \ {"none"} :
           SaveComplaint(r, [request[r].read EXCEPT !.status = status])
    /\ Goes(r, [at |-> "critical", c |-> request[r].c])
    /\ UNCHANGED <<task, logged, running, tick, due, sent, failures, disturbed>>

\* assignComplaint, to a worker or to nobody.
AssignComplaint(r) ==
    /\ request[r].at = "change"
    /\ \E w \in SomeWorker :
           SaveComplaint(r, [status |-> IF w = None THEN request[r].read.status ELSE "assigned",
                             worker |-> w])
    /\ Goes(r, Done)
    /\ UNCHANGED <<task, logged, running, tick, due, sent, failures, disturbed>>

\* dispatchComplaint assigns the first worker it has told, if nobody is assigned.
DispatchComplaint(r) ==
    /\ request[r].at = "change"
    /\ request[r].read.status # "resolved"
    /\ \E w \in IF request[r].read.worker = None THEN SomeWorker ELSE {request[r].read.worker} :
           SaveComplaint(r, [status |-> IF w = None THEN request[r].read.status ELSE "assigned",
                             worker |-> w])
    /\ Goes(r, Done)
    /\ UNCHANGED <<task, logged, running, tick, due, sent, failures, disturbed>>

ResolveComplaint(r) ==
    /\ request[r].at = "change"
    /\ SaveComplaint(r, [request[r].read EXCEPT !.status = "resolved"])
    /\ Goes(r, Done)
    /\ UNCHANGED <<task, logged, running, tick, due, sent, failures, disturbed>>

ChangeComplaint(r) ==
    \/ UpdateComplaint(r)
    \/ AssignComplaint(r)
    \/ DispatchComplaint(r)
    \/ ResolveComplaint(r)

-----------------------------------------------------------------------------
(* handleComplaintCriticality. A complaint that is not critical ends it      *)
(* before it writes, like a failure (BreakOff).                              *)

ReadCritical(r) ==
    /\ request[r].at = "critical"
    /\ LET c == request[r].c
       IN  /\ complaint[c].status \notin TerminalComplaint
           /\ Goes(r, [at |-> "find", c |-> c, read |-> complaint[c]])
    /\ UNCHANGED <<complaint, task, logged, running, tick, due, sent, failures, disturbed>>

FindActiveTask(r) ==
    /\ request[r].at = "find"
    /\ Goes(r, IF HasActiveTask(request[r].c) THEN Done ELSE [request[r] EXCEPT !.at = "worker"])
    /\ UNCHANGED <<complaint, task, logged, running, tick, due, sent, failures, disturbed>>

\* findNearestEligibleWorker, by the load each worker has now; nobody may be near.
Eligible(w) == Cardinality(ActiveTasksOf(w)) < MaxActive

SelectWorker(r) ==
    /\ request[r].at = "worker"
    /\ \E w \in SomeWorker :
           /\ w # None => Eligible(w)
           /\ Goes(r, [at |-> "begin", c |-> request[r].c, read |-> request[r].read, worker |-> w])
    /\ UNCHANGED <<complaint, task, logged, running, tick, due, sent, failures, disturbed>>

\* The transaction looks for an active task again.
BeginTransaction(r) ==
    /\ request[r].at = "begin"
    /\ Goes(r, IF HasActiveTask(request[r].c) THEN Done ELSE [request[r] EXCEPT !.at = "commit"])
    /\ UNCHANGED <<complaint, task, logged, running, tick, due, sent, failures, disturbed>>

\* It inserts the task and its log and saves the complaint, or the index refuses the task.
Commit(r) ==
    /\ request[r].at = "commit"
    /\ LET w == request[r].worker
           row == NewTask(request[r].c, IF w = None THEN "unassigned" ELSE "assigned", w)
       IN  \E t \in {u \in Tasks : task[u].status = "none"} :
               /\ IndexAllows(t, row)
               /\ task' = [task EXCEPT ![t] = row]
               /\ logged' = [logged EXCEPT ![t] = @ \cup {w}]
               /\ SaveComplaint(r, IF w = None THEN request[r].read
                                   ELSE [status |-> "assigned", worker |-> w])
    /\ Goes(r, Done)
    /\ UNCHANGED <<running, tick, due, sent, failures, disturbed>>

HandleComplaintCriticality(r) ==
    \/ ReadCritical(r)
    \/ FindActiveTask(r)
    \/ SelectWorker(r)
    \/ BeginTransaction(r)
    \/ Commit(r)

-----------------------------------------------------------------------------
(* The handlers of task.service.js.                                          *)

LoadTask(r, t) ==
    /\ request[r] = Idle
    /\ task[t].status # "none"
    /\ Goes(r, [at |-> "task", t |-> t, read |-> task[t]])
    /\ UNCHANGED <<complaint, task, logged, running, tick, due, sent, failures, disturbed>>

\* task.update; the index refuses what would make a second active task.
SaveTask(r, values) ==
    LET t == request[r].t
        row == Saved(task[t], request[r].read, values)
    IN  /\ IndexAllows(t, row)
        /\ task' = [task EXCEPT ![t] = row]
        /\ disturbed' = IF task[t] = request[r].read THEN disturbed ELSE disturbed \cup {t}

\* Mutants: a task nobody has, and a completed one, can be accepted.
AcceptTask_Unassigned(r) ==
    /\ request[r].at = "task"
    /\ request[r].read.status # "completed"
    /\ SaveTask(r, [request[r].read EXCEPT !.status = "accepted", !.accepted = TRUE])
    /\ Goes(r, Done)
    /\ UNCHANGED <<complaint, logged, running, tick, due, sent, failures>>
AcceptTask_Completed(r) ==
    /\ request[r].at = "task"
    /\ request[r].read.worker # None
    /\ SaveTask(r, [request[r].read EXCEPT !.status = "accepted", !.accepted = TRUE])
    /\ Goes(r, Done)
    /\ UNCHANGED <<complaint, logged, running, tick, due, sent, failures>>

AcceptTask(r) ==
    /\ request[r].at = "task"
    /\ request[r].read.status # "completed"
    /\ request[r].read.worker # None
    /\ SaveTask(r, [request[r].read EXCEPT !.status = "accepted", !.accepted = TRUE])
    /\ Goes(r, Done)
    /\ UNCHANGED <<complaint, logged, running, tick, due, sent, failures>>

\* startTask asks neither for the status nor, of an administrator, for an assignee.
StartTask(r) ==
    /\ request[r].at = "task"
    /\ SaveTask(r, [request[r].read EXCEPT !.status = "in_progress", !.accepted = TRUE, !.started = TRUE])
    /\ Goes(r, Done)
    /\ UNCHANGED <<complaint, logged, running, tick, due, sent, failures>>

CompleteTask(r) ==
    /\ request[r].at = "task"
    /\ SaveTask(r, [request[r].read EXCEPT !.status = "completed"])
    /\ Goes(r, Done)
    /\ UNCHANGED <<complaint, logged, running, tick, due, sent, failures>>

\* Mutant: the log names whom the task is taken from.
ReassignTask_LogsOld(r) ==
    /\ request[r].at = "task"
    /\ request[r].read.status # "completed"
    /\ \E w \in SomeWorker :
           /\ SaveTask(r, [request[r].read EXCEPT !.status = IF w = None THEN "unassigned" ELSE "assigned",
                                                  !.worker = w,
                                                  !.accepted = FALSE,
                                                  !.started = @ /\ w # None])
           /\ Goes(r, [at |-> "log", t |-> request[r].t, worker |-> request[r].read.worker])
    /\ UNCHANGED <<complaint, logged, running, tick, due, sent, failures>>

\* reassignTask, to a worker or to nobody, then the log.
ReassignTask(r) ==
    /\ request[r].at = "task"
    /\ request[r].read.status # "completed"
    /\ \E w \in SomeWorker :
           /\ SaveTask(r, [request[r].read EXCEPT !.status = IF w = None THEN "unassigned" ELSE "assigned",
                                                  !.worker = w,
                                                  !.accepted = FALSE,
                                                  !.started = @ /\ w # None])
           /\ Goes(r, [at |-> "log", t |-> request[r].t, worker |-> w])
    /\ UNCHANGED <<complaint, logged, running, tick, due, sent, failures>>

LogAssignment(r) ==
    /\ request[r].at = "log"
    /\ logged' = [logged EXCEPT ![request[r].t] = @ \cup {request[r].worker}]
    /\ Goes(r, Done)
    /\ UNCHANGED <<complaint, task, running, tick, due, sent, failures, disturbed>>

ChangeTask(r) ==
    \/ AcceptTask(r)
    \/ StartTask(r)
    \/ CompleteTask(r)
    \/ ReassignTask(r)
    \/ LogAssignment(r)

\* A guard fails, the complaint is not critical, the index refuses a row or the
\* database a call. (A refused insert looks for the winner's task and writes nothing.)
BreakOff(r) ==
    /\ request[r] \notin {Idle, Done}
    /\ Goes(r, Done)
    /\ disturbed' = IF request[r].at = "log" THEN disturbed \cup {request[r].t} ELSE disturbed
    /\ UNCHANGED <<complaint, task, logged, running, tick, due, sent, failures>>

-----------------------------------------------------------------------------
(* runReminderSweep, with the escalation of what is overdue.                 *)

DeadlinePasses(t) ==
    /\ task[t].status # "none"
    /\ t \notin due
    /\ due' = due \cup {t}
    /\ UNCHANGED <<complaint, task, logged, request, running, tick, sent, failures, disturbed>>

Resting == [at |-> "idle"]
TickGoes(k, where) == tick' = [tick EXCEPT ![k] = where]

\* Mutant: a sweep starts while another is at work.
Sweep_Overlapping(k) ==
    /\ tick[k] = Resting
    /\ running' = TRUE
    /\ LET active == {t \in Tasks : task[t].status \in ActiveStatuses}
       IN  TickGoes(k, [at |-> "next", read |-> [t \in active |-> task[t].status]])
    /\ UNCHANGED <<complaint, task, logged, request, due, sent, failures, disturbed>>

\* The interval comes round: a sweep that is at work already is left alone.
Sweep(k) ==
    /\ tick[k] = Resting
    /\ ~ running
    /\ running' = TRUE
    /\ LET active == {t \in Tasks : task[t].status \in ActiveStatuses}
       IN  TickGoes(k, [at |-> "next", read |-> [t \in active |-> task[t].status]])
    /\ UNCHANGED <<complaint, task, logged, request, due, sent, failures, disturbed>>

\* task.update({ status: 'overdue' }), unless the sweep has read it overdue.
Marked(k, t) == IF tick[k].read[t] = "overdue" THEN task[t] ELSE [task[t] EXCEPT !.status = "overdue"]

Without(t, f) == [u \in DOMAIN f \ {t} |-> f[u]]

\* processTaskReminder: an overdue task of the snapshot is marked, whatever became of it.
MarkOverdue(k) ==
    /\ tick[k].at = "next"
    /\ \E t \in DOMAIN tick[k].read :
         IF t \in due
         THEN /\ IndexAllows(t, Marked(k, t))
              /\ task' = [task EXCEPT ![t] = Marked(k, t)]
              /\ disturbed' = IF task[t].status \in {tick[k].read[t], Marked(k, t).status} THEN disturbed
                              ELSE disturbed \cup {t}
              /\ TickGoes(k, [at |-> "look", t |-> t, read |-> Without(t, tick[k].read)])
         ELSE /\ TickGoes(k, [tick[k] EXCEPT !.read = Without(t, @)])
              /\ UNCHANGED <<task, disturbed>>
    /\ UNCHANGED <<complaint, logged, request, running, due, sent, failures>>

\* hasReminder
LookForReminder(k) ==
    /\ tick[k].at = "look"
    /\ TickGoes(k, IF sent[tick[k].t] > 0 THEN [at |-> "next", read |-> tick[k].read]
                                          ELSE [tick[k] EXCEPT !.at = "send"])
    /\ UNCHANGED <<complaint, task, logged, request, running, due, sent, failures, disturbed>>

\* send, then createReminderLog with what became of it.
SendAndLog(k) ==
    /\ tick[k].at = "send"
    /\ \/ /\ sent' = [sent EXCEPT ![tick[k].t] = @ + 1]
          /\ UNCHANGED failures
       \/ /\ failures < MaxFailures
          /\ failures' = failures + 1
          /\ UNCHANGED sent
    /\ TickGoes(k, [at |-> "next", read |-> tick[k].read])
    /\ UNCHANGED <<complaint, task, logged, request, running, due, disturbed>>

\* Mutant: reminderRunning is cleared where the sweep ends well only.
EndSweep_NoFinally(k) ==
    /\ tick[k] # Resting
    /\ \/ /\ tick[k].at = "next" /\ DOMAIN tick[k].read = {}
          /\ running' = FALSE
          /\ UNCHANGED failures
       \/ /\ failures < MaxFailures
          /\ failures' = failures + 1
          /\ UNCHANGED running
    /\ TickGoes(k, Resting)
    /\ UNCHANGED <<complaint, task, logged, request, due, sent, disturbed>>

\* The snapshot is through, or a call failed: finally.
EndSweep(k) ==
    /\ tick[k] # Resting
    /\ \/ /\ tick[k].at = "next" /\ DOMAIN tick[k].read = {}
          /\ UNCHANGED failures
       \/ /\ failures < MaxFailures
          /\ failures' = failures + 1
       \/ /\ tick[k].at = "next" /\ \E t \in DOMAIN tick[k].read : t \in due /\ ~ IndexAllows(t, Marked(k, t))
          /\ UNCHANGED failures
    /\ running' = FALSE
    /\ TickGoes(k, Resting)
    /\ UNCHANGED <<complaint, task, logged, request, due, sent, disturbed>>

RunReminderSweep(k) ==
    \/ Sweep(k)
    \/ MarkOverdue(k)
    \/ LookForReminder(k)
    \/ SendAndLog(k)
    \/ EndSweep(k)

-----------------------------------------------------------------------------
Next ==
    \/ \E r \in Requests :
        \/ \E c \in Complaints : CreateComplaint(r, c) \/ LoadComplaint(r, c)
        \/ ChangeComplaint(r)
        \/ HandleComplaintCriticality(r)
        \/ \E t \in Tasks : LoadTask(r, t)
        \/ ChangeTask(r)
        \/ BreakOff(r)
    \/ \E t \in Tasks : DeadlinePasses(t)
    \/ \E k \in Ticks : RunReminderSweep(k)

\* The interval comes round, and a call of the sweep is answered or rejected.
Fairness == \A k \in Ticks : WF_vars(RunReminderSweep(k))

Spec == Init /\ [][Next]_vars /\ Fairness

-----------------------------------------------------------------------------
(* Properties.                                                               *)

RequestStates ==
    {Idle, Done}
    \cup [at : {"critical"}, c : Complaints]
    \cup [at : {"change", "find", "worker"}, c : Complaints, read : ComplaintRows]
    \cup [at : {"begin", "commit"}, c : Complaints, read : ComplaintRows, worker : SomeWorker]
    \cup [at : {"task"}, t : Tasks, read : TaskRows]
    \cup [at : {"log"}, t : Tasks, worker : SomeWorker]

Snapshots == UNION {[seen -> ActiveStatuses] : seen \in SUBSET Tasks}

TickStates ==
    {Resting}
    \cup [at : {"next"}, read : Snapshots]
    \cup [at : {"look", "send"}, t : Tasks, read : Snapshots]

\* Rows, readings and places are what they are declared to be.
TypeOK ==
    /\ complaint \in [Complaints -> ComplaintRows]
    /\ task \in [Tasks -> TaskRows]
    /\ logged \in [Tasks -> SUBSET SomeWorker]
    /\ request \in [Requests -> RequestStates]
    /\ running \in BOOLEAN
    /\ tick \in [Ticks -> TickStates]
    /\ due \in SUBSET Tasks
    /\ sent \in [Tasks -> Nat]
    /\ failures \in 0..MaxFailures
    /\ disturbed \in SUBSET Tasks

\* A complaint has at most one active task, whichever way a task becomes active: two
\* automations at once, a finished task that is started again, a sweep that marks a
\* finished task overdue. The index refuses what the search for an active task misses.
OneActiveTask ==
    \A t, u \in Tasks :
        /\ task[t].complaint = task[u].complaint
        /\ task[t].status \in ActiveStatuses
        /\ task[u].status \in ActiveStatuses
        => t = u

\* The status of a task says whether it has a worker, unless handlers overlapped: an
\* accepted task with nobody to do it is one no later handler looks for.
StatusNamesWorker ==
    \A t \in Tasks \ disturbed :
        /\ task[t].status \in {"assigned", "accepted"} => task[t].worker # None
        /\ task[t].status = "unassigned" => task[t].worker = None

\* A completed task leaves that status only by being started again, or by a handler or a
\* sweep that read it before.
FinishedStays ==
    [][\A t \in Tasks : task[t].status = "completed"
            => task'[t].status \in {"completed", "in_progress"} \/ t \in disturbed']_vars

\* Whoever holds a task is named in the assignment log once the handler that assigned the
\* task is through.
AssignmentLogged ==
    \A t \in Tasks \ disturbed :
        (\A r \in Requests : ~ (request[r].at = "log" /\ request[r].t = t))
            => task[t].worker \in logged[t] \cup {None}

\* One process escalates a task once, though the interval may come round while a sweep is
\* at work.
EscalatedOnce == \A t \in Tasks : sent[t] <= 1

\* What is overdue is escalated, or gets completed, if calls of the sweep fail finitely often.
EventuallyEscalated ==
    \A t \in Tasks : t \in due ~> (sent[t] > 0 \/ task[t].status = "completed")

=============================================================================
