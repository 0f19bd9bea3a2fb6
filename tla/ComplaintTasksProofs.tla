------------------------ MODULE ComplaintTasksProofs ------------------------
(***************************************************************************)
(* Proofs about the tasks of complaints, for any number of complaints,     *)
(* tasks, workers, requests and sweeps.                                    *)
(***************************************************************************)
EXTENDS ComplaintTasks, TLAPS

-----------------------------------------------------------------------------
(* Rows and readings.                                                      *)

LEMMA NewTaskType ==
    ASSUME NEW c \in Complaints \cup {None}, NEW s \in TaskStatuses, NEW w \in SomeWorker
    PROVE  NewTask(c, s, w) \in TaskRows
BY DEF NewTask, TaskRows

\* A save keeps a task a task; a field passed back as read is not written, and a save on
\* a reading that is still good writes the values.
LEMMA SavedTask ==
    ASSUME NEW row \in TaskRows, NEW read \in TaskRows, NEW values \in TaskRows
    PROVE  /\ Saved(row, read, values) \in TaskRows
           /\ values.complaint = read.complaint => Saved(row, read, values).complaint = row.complaint
           /\ values.worker = read.worker => Saved(row, read, values).worker = row.worker
           /\ row = read => /\ Saved(row, read, values).status = values.status
                            /\ Saved(row, read, values).worker = values.worker
BY DEF Saved, TaskRows

LEMMA SavedComplaint ==
    ASSUME NEW row \in ComplaintRows, NEW read \in ComplaintRows, NEW values \in ComplaintRows
    PROVE  Saved(row, read, values) \in ComplaintRows
BY DEF Saved, ComplaintRows

\* What a request holds at each place.
LEMMA RequestHolds ==
    ASSUME TypeOK, NEW r \in Requests
    PROVE  /\ request[r].at \in {"critical", "change", "find", "worker", "begin", "commit"}
                => request[r].c \in Complaints
           /\ request[r].at \in {"change", "find", "worker", "begin", "commit"}
                => request[r].read \in ComplaintRows
           /\ request[r].at \in {"begin", "commit"} => request[r].worker \in SomeWorker
           /\ request[r].at = "task" => request[r].t \in Tasks /\ request[r].read \in TaskRows
           /\ request[r].at = "log" => request[r].t \in Tasks /\ request[r].worker \in SomeWorker
<1>1. request[r] \in RequestStates
  BY DEF TypeOK
<1> QED
  BY <1>1 DEF RequestStates, Idle, Done

LEMMA GoesType ==
    ASSUME TypeOK, NEW r \in Requests, NEW where \in RequestStates, Goes(r, where)
    PROVE  request' \in [Requests -> RequestStates]
BY DEF TypeOK, Goes

LEMMA DoneType == Done \in RequestStates
BY DEF RequestStates

\* What a sweep holds at each place.
LEMMA TickHolds ==
    ASSUME TypeOK, NEW k \in Ticks
    PROVE  /\ tick[k].at \in {"next", "look", "send"} => tick[k].read \in Snapshots
           /\ tick[k].at \in {"look", "send"} => tick[k].t \in Tasks
           /\ tick[k] = Resting <=> tick[k].at = "idle"
<1>1. tick[k] \in TickStates
  BY DEF TypeOK
<1> QED
  BY <1>1 DEF TickStates, Resting

LEMMA TickGoesType ==
    ASSUME TypeOK, NEW k \in Ticks, NEW where \in TickStates, TickGoes(k, where)
    PROVE  tick' \in [Ticks -> TickStates]
BY DEF TypeOK, TickGoes

LEMMA SnapshotType ==
    ASSUME NEW f \in Snapshots
    PROVE  /\ DOMAIN f \in SUBSET Tasks
           /\ f \in [DOMAIN f -> ActiveStatuses]
           /\ \A t \in DOMAIN f : f[t] \in ActiveStatuses
           /\ \A t : Without(t, f) \in Snapshots
<1>1. PICK seen \in SUBSET Tasks : f \in [seen -> ActiveStatuses]
  BY DEF Snapshots
<1>2. ASSUME NEW t
      PROVE  Without(t, f) \in Snapshots
  <2>1. Without(t, f) \in [seen \ {t} -> ActiveStatuses]
    BY <1>1 DEF Without
  <2>2. seen \ {t} \in SUBSET Tasks
    OBVIOUS
  <2> QED
    BY <2>1, <2>2 DEF Snapshots
<1> QED
  BY <1>1, <1>2

-----------------------------------------------------------------------------
(* What a change of the tasks keeps.                                       *)

\* The row task t gets, from whom it may come and what is noted of it.
Change(t, row) ==
    /\ IndexAllows(t, row)
    /\ task' = [task EXCEPT ![t] = row]

LEMMA ChangeType ==
    ASSUME TypeOK, NEW t \in Tasks, NEW row \in TaskRows, Change(t, row)
    PROVE  task' \in [Tasks -> TaskRows]
BY DEF TypeOK, Change

\* The index and the search agree on what is active.
LEMMA ChangeKeepsOneActive ==
    ASSUME TypeOK, OneActiveTask, NEW t \in Tasks, NEW row \in TaskRows, Change(t, row)
    PROVE  OneActiveTask'
<1>1. IndexedStatuses = ActiveStatuses
  BY DEF IndexedStatuses, ActiveStatuses
<1>2. /\ task'[t] = row
      /\ \A u \in Tasks \ {t} : task'[u] = task[u]
  BY DEF TypeOK, Change
<1>3. row.status \in ActiveStatuses =>
          \A u \in Tasks \ {t} : ~ (task[u].complaint = row.complaint /\ task[u].status \in ActiveStatuses)
  BY <1>1 DEF Change, IndexAllows
<1>4. ASSUME NEW u \in Tasks, NEW v \in Tasks,
             task'[u].complaint = task'[v].complaint,
             task'[u].status \in ActiveStatuses, task'[v].status \in ActiveStatuses
      PROVE  u = v
  <2>1. CASE u # t /\ v # t
    BY <1>2, <1>4, <2>1 DEF OneActiveTask
  <2>2. CASE u = t /\ v # t
    BY <1>2, <1>3, <1>4, <2>2
  <2>3. CASE u # t /\ v = t
    BY <1>2, <1>3, <1>4, <2>3
  <2>4. CASE u = t /\ v = t
    BY <2>4
  <2> QED
    BY <2>1, <2>2, <2>3, <2>4
<1> QED
  BY <1>4 DEF OneActiveTask

\* A save by request r on the task it has read.
LEMMA SaveTaskStep ==
    ASSUME TypeOK, NEW r \in Requests, request[r].at = "task",
           NEW values \in TaskRows, values.complaint = request[r].read.complaint,
           SaveTask(r, values)
    PROVE  LET t == request[r].t
           IN  /\ t \in Tasks
               /\ \E row \in TaskRows : Change(t, row)
               /\ \A u \in Tasks \ {t} : task'[u] = task[u]
               /\ disturbed' \in SUBSET Tasks /\ disturbed \subseteq disturbed'
               /\ t \notin disturbed' => /\ task[t] = request[r].read
                                         /\ task'[t].status = values.status
                                         /\ task'[t].worker = values.worker
               /\ values.worker = request[r].read.worker => task'[t].worker = task[t].worker
<1> DEFINE t == request[r].t
           row == Saved(task[t], request[r].read, values)
<1>1. t \in Tasks /\ request[r].read \in TaskRows /\ task[t] \in TaskRows
  BY RequestHolds DEF TypeOK
<1>2. row \in TaskRows /\ Change(t, row)
  BY <1>1, SavedTask DEF SaveTask, Change
<1>3. /\ task'[t] = row
      /\ \A u \in Tasks \ {t} : task'[u] = task[u]
  BY <1>1, <1>2 DEF TypeOK, Change
<1>4. /\ disturbed' \in SUBSET Tasks /\ disturbed \subseteq disturbed'
      /\ t \notin disturbed' => task[t] = request[r].read
  BY <1>1 DEF SaveTask, TypeOK
<1>5. /\ task[t] = request[r].read => row.status = values.status /\ row.worker = values.worker
      /\ values.worker = request[r].read.worker => row.worker = task[t].worker
  BY <1>1, SavedTask
<1> QED
  BY <1>1, <1>2, <1>3, <1>4, <1>5

\* What each handler saves is a task of the same complaint.
LEMMA ValuesType ==
    ASSUME NEW read \in TaskRows, NEW w \in SomeWorker
    PROVE  /\ [read EXCEPT !.status = "accepted", !.accepted = TRUE] \in TaskRows
           /\ [read EXCEPT !.status = "in_progress", !.accepted = TRUE, !.started = TRUE] \in TaskRows
           /\ [read EXCEPT !.status = "completed"] \in TaskRows
           /\ [read EXCEPT !.status = IF w = None THEN "unassigned" ELSE "assigned", !.worker = w,
                           !.accepted = FALSE, !.started = @ /\ w # None] \in TaskRows
BY DEF TaskRows, TaskStatuses, ActiveStatuses

-----------------------------------------------------------------------------
(* Type correctness.                                                       *)

LEMMA InitType == Init => TypeOK
<1> SUFFICES ASSUME Init PROVE TypeOK
  OBVIOUS
<1>1. NewTask(None, "none", None) \in TaskRows
  BY NewTaskType DEF TaskStatuses, SomeWorker
<1>2. [status |-> "none", worker |-> None] \in ComplaintRows
  BY DEF ComplaintRows, ComplaintStatuses, SomeWorker
<1>3. Idle \in RequestStates /\ [at |-> "idle"] \in TickStates
  BY DEF RequestStates, TickStates, Resting
<1>4. failures \in 0..MaxFailures
  BY ConstantsAssumption DEF Init
<1>5. sent \in [Tasks -> Nat] /\ logged \in [Tasks -> SUBSET SomeWorker]
  BY DEF Init
<1>6. /\ complaint \in [Complaints -> ComplaintRows]
      /\ task \in [Tasks -> TaskRows]
  BY <1>1, <1>2 DEF Init
<1>7. /\ request \in [Requests -> RequestStates]
      /\ tick \in [Ticks -> TickStates]
  BY <1>3 DEF Init
<1> QED
  BY <1>4, <1>5, <1>6, <1>7 DEF Init, TypeOK

\* The rest of the types, for a step of a request.
LEMMA RequestStepType ==
    ASSUME TypeOK, complaint' \in [Complaints -> ComplaintRows], task' \in [Tasks -> TaskRows],
           logged' \in [Tasks -> SUBSET SomeWorker], request' \in [Requests -> RequestStates],
           disturbed' \in SUBSET Tasks, UNCHANGED <<running, tick, due, sent, failures>>
    PROVE  TypeOK'
BY DEF TypeOK

LEMMA SaveComplaintType ==
    ASSUME TypeOK, NEW r \in Requests,
           request[r].at \in {"change", "find", "worker", "begin", "commit"},
           NEW values \in ComplaintRows, SaveComplaint(r, values)
    PROVE  complaint' \in [Complaints -> ComplaintRows]
<1>1. /\ request[r].c \in Complaints /\ request[r].read \in ComplaintRows
      /\ complaint[request[r].c] \in ComplaintRows
  BY RequestHolds DEF TypeOK
<1>2. Saved(complaint[request[r].c], request[r].read, values) \in ComplaintRows
  BY <1>1, SavedComplaint
<1> QED
  BY <1>1, <1>2 DEF SaveComplaint, TypeOK

LEMMA ComplaintStepType ==
    ASSUME TypeOK, NEW r \in Requests,
           ChangeComplaint(r) \/ \E c \in Complaints : CreateComplaint(r, c) \/ LoadComplaint(r, c)
    PROVE  TypeOK'
<1> USE DoneType
<1>1. ASSUME NEW c \in Complaints, CreateComplaint(r, c)
      PROVE  TypeOK'
  <2>1. complaint' \in [Complaints -> ComplaintRows]
    BY <1>1 DEF CreateComplaint, TypeOK, ComplaintRows, ComplaintStatuses
  <2>2. [at |-> "critical", c |-> c] \in RequestStates
    BY DEF RequestStates
  <2>3. request' \in [Requests -> RequestStates]
    BY <1>1, <2>2, GoesType DEF CreateComplaint
  <2> QED
    BY <1>1, <2>1, <2>3, RequestStepType DEF CreateComplaint, TypeOK
<1>2. ASSUME NEW c \in Complaints, LoadComplaint(r, c)
      PROVE  TypeOK'
  <2>1. [at |-> "change", c |-> c, read |-> complaint[c]] \in RequestStates
    BY DEF RequestStates, TypeOK
  <2>2. request' \in [Requests -> RequestStates]
    BY <1>2, <2>1, GoesType DEF LoadComplaint
  <2> QED
    BY <1>2, <2>2, RequestStepType DEF LoadComplaint, TypeOK
<1>3. CASE UpdateComplaint(r)
  <2>1. request[r].c \in Complaints /\ request[r].read \in ComplaintRows
    BY <1>3, RequestHolds DEF UpdateComplaint
  <2>2. complaint' \in [Complaints -> ComplaintRows]
    <3>1. PICK status \in ComplaintStatuses : SaveComplaint(r, [request[r].read EXCEPT !.status = status])
      BY <1>3 DEF UpdateComplaint
    <3>2. [request[r].read EXCEPT !.status = status] \in ComplaintRows
      BY <2>1 DEF ComplaintRows
    <3> QED
      BY <1>3, <3>1, <3>2, SaveComplaintType DEF UpdateComplaint
  <2>3. [at |-> "critical", c |-> request[r].c] \in RequestStates
    BY <2>1 DEF RequestStates
  <2>4. request' \in [Requests -> RequestStates]
    BY <1>3, <2>3, GoesType DEF UpdateComplaint
  <2> QED
    BY <1>3, <2>2, <2>4, RequestStepType DEF UpdateComplaint, TypeOK
<1>4. CASE AssignComplaint(r) \/ DispatchComplaint(r)
  <2>1. request[r].at = "change" /\ request[r].read \in ComplaintRows
    BY <1>4, RequestHolds DEF AssignComplaint, DispatchComplaint
  <2>2. \E w \in SomeWorker : SaveComplaint(r,
            [status |-> IF w = None THEN request[r].read.status ELSE "assigned", worker |-> w])
    BY <1>4, <2>1 DEF AssignComplaint, DispatchComplaint, ComplaintRows
  <2>3. complaint' \in [Complaints -> ComplaintRows]
    <3>1. PICK w \in SomeWorker : SaveComplaint(r,
              [status |-> IF w = None THEN request[r].read.status ELSE "assigned", worker |-> w])
      BY <2>2
    <3>2. [status |-> IF w = None THEN request[r].read.status ELSE "assigned", worker |-> w] \in ComplaintRows
      BY <2>1 DEF ComplaintRows, ComplaintStatuses
    <3> QED
      BY <2>1, <3>1, <3>2, SaveComplaintType
  <2>4. request' \in [Requests -> RequestStates]
    BY <1>4, GoesType DEF AssignComplaint, DispatchComplaint
  <2> QED
    BY <1>4, <2>3, <2>4, RequestStepType DEF AssignComplaint, DispatchComplaint, TypeOK
<1>5. CASE ResolveComplaint(r)
  <2>1. request[r].at = "change" /\ request[r].read \in ComplaintRows
    BY <1>5, RequestHolds DEF ResolveComplaint
  <2>2. [request[r].read EXCEPT !.status = "resolved"] \in ComplaintRows
    BY <2>1 DEF ComplaintRows, ComplaintStatuses
  <2>3. complaint' \in [Complaints -> ComplaintRows]
    BY <1>5, <2>1, <2>2, SaveComplaintType DEF ResolveComplaint
  <2>4. request' \in [Requests -> RequestStates]
    BY <1>5, GoesType DEF ResolveComplaint
  <2> QED
    BY <1>5, <2>3, <2>4, RequestStepType DEF ResolveComplaint, TypeOK
<1> QED
  BY <1>1, <1>2, <1>3, <1>4, <1>5 DEF ChangeComplaint

\* What a commit writes.
LEMMA CommitStep ==
    ASSUME TypeOK, NEW r \in Requests, Commit(r)
    PROVE  \E t \in Tasks, s \in {"unassigned", "assigned"} :
               LET w == request[r].worker
                   row == NewTask(request[r].c, s, w)
               IN  /\ task[t].status = "none" /\ row \in TaskRows /\ w \in SomeWorker
                   /\ s = IF w = None THEN "unassigned" ELSE "assigned"
                   /\ Change(t, row)
                   /\ logged' = [logged EXCEPT ![t] = @ \cup {w}]
<1>1. request[r].c \in Complaints /\ request[r].worker \in SomeWorker
  BY RequestHolds DEF Commit
<1>2. \A s \in {"unassigned", "assigned"} : NewTask(request[r].c, s, request[r].worker) \in TaskRows
  BY <1>1, NewTaskType DEF TaskStatuses, ActiveStatuses
<1> QED
  BY <1>1, <1>2 DEF Commit, Change

LEMMA CriticalStepType ==
    ASSUME TypeOK, NEW r \in Requests, HandleComplaintCriticality(r)
    PROVE  TypeOK'
<1> USE DoneType
<1>1. CASE ReadCritical(r)
  <2>1. request[r].c \in Complaints
    BY <1>1, RequestHolds DEF ReadCritical
  <2>2. [at |-> "find", c |-> request[r].c, read |-> complaint[request[r].c]] \in RequestStates
    BY <2>1 DEF RequestStates, TypeOK
  <2>3. request' \in [Requests -> RequestStates]
    BY <1>1, <2>2, GoesType DEF ReadCritical
  <2> QED
    BY <1>1, <2>3, RequestStepType DEF ReadCritical, TypeOK
<1>2. CASE FindActiveTask(r)
  <2>1. request[r] \in [at : {"find"}, c : Complaints, read : ComplaintRows]
    BY <1>2 DEF FindActiveTask, TypeOK, RequestStates, Idle, Done
  <2>2. [request[r] EXCEPT !.at = "worker"] \in RequestStates
    BY <2>1 DEF RequestStates
  <2>3. request' \in [Requests -> RequestStates]
    BY <1>2, <2>2, GoesType DEF FindActiveTask
  <2> QED
    BY <1>2, <2>3, RequestStepType DEF FindActiveTask, TypeOK
<1>3. CASE SelectWorker(r)
  <2>1. request[r].c \in Complaints /\ request[r].read \in ComplaintRows
    BY <1>3, RequestHolds DEF SelectWorker
  <2>2. \A w \in SomeWorker :
            [at |-> "begin", c |-> request[r].c, read |-> request[r].read, worker |-> w] \in RequestStates
    BY <2>1 DEF RequestStates
  <2>3. request' \in [Requests -> RequestStates]
    BY <1>3, <2>2, GoesType DEF SelectWorker
  <2> QED
    BY <1>3, <2>3, RequestStepType DEF SelectWorker, TypeOK
<1>4. CASE BeginTransaction(r)
  <2>1. request[r] \in [at : {"begin"}, c : Complaints, read : ComplaintRows, worker : SomeWorker]
    BY <1>4 DEF BeginTransaction, TypeOK, RequestStates, Idle, Done
  <2>2. [request[r] EXCEPT !.at = "commit"] \in RequestStates
    BY <2>1 DEF RequestStates
  <2>3. request' \in [Requests -> RequestStates]
    BY <1>4, <2>2, GoesType DEF BeginTransaction
  <2> QED
    BY <1>4, <2>3, RequestStepType DEF BeginTransaction, TypeOK
<1>5. CASE Commit(r)
  <2>1. /\ request[r].at = "commit" /\ request[r].read \in ComplaintRows
        /\ request[r].worker \in SomeWorker
    BY <1>5, RequestHolds DEF Commit
  <2>2. task' \in [Tasks -> TaskRows] /\ logged' \in [Tasks -> SUBSET SomeWorker]
    <3>1. PICK t \in Tasks, status \in {"unassigned", "assigned"} :
              /\ NewTask(request[r].c, status, request[r].worker) \in TaskRows
              /\ Change(t, NewTask(request[r].c, status, request[r].worker))
              /\ logged' = [logged EXCEPT ![t] = @ \cup {request[r].worker}]
      BY <1>5, CommitStep
    <3> QED
      BY <2>1, <3>1, ChangeType DEF TypeOK
  <2>3. complaint' \in [Complaints -> ComplaintRows]
    <3>1. [status |-> "assigned", worker |-> request[r].worker] \in ComplaintRows
      BY <2>1 DEF ComplaintRows, ComplaintStatuses
    <3>2. \E values \in ComplaintRows : SaveComplaint(r, values)
      BY <1>5, <2>1, <3>1 DEF Commit
    <3> QED
      BY <2>1, <3>2, SaveComplaintType
  <2>4. request' \in [Requests -> RequestStates]
    BY <1>5, GoesType DEF Commit
  <2> QED
    BY <1>5, <2>2, <2>3, <2>4, RequestStepType DEF Commit, TypeOK
<1> QED
  BY <1>1, <1>2, <1>3, <1>4, <1>5 DEF HandleComplaintCriticality

-----------------------------------------------------------------------------
(* The four saves of a task.                                               *)

\* The values r saves on the task it has read, as each handler's guard allows.
SavesAs(r, values) ==
    /\ values \in TaskRows
    /\ values.complaint = request[r].read.complaint
    /\ SaveTask(r, values)
    /\ \/ /\ values.status = "accepted" /\ values.worker = request[r].read.worker
          /\ values.worker # None /\ request[r].read.status # "completed"
          /\ request'[r] = Done
       \/ /\ values.status \in {"in_progress", "completed"} /\ values.worker = request[r].read.worker
          /\ request'[r] = Done
       \/ /\ values.status = IF values.worker = None THEN "unassigned" ELSE "assigned"
          /\ request[r].read.status # "completed"
          /\ request'[r] = [at |-> "log", t |-> request[r].t, worker |-> values.worker]

LEMMA TaskSaves ==
    ASSUME TypeOK, NEW r \in Requests,
           AcceptTask(r) \/ StartTask(r) \/ CompleteTask(r) \/ ReassignTask(r)
    PROVE  /\ request[r].at = "task"
           /\ \E values \in TaskRows : SavesAs(r, values)
           /\ request' = [request EXCEPT ![r] = request'[r]]
           /\ request'[r] \in RequestStates
           /\ UNCHANGED <<complaint, logged, running, tick, due, sent, failures>>
<1> USE DoneType
<1>1. request[r].at = "task" /\ request[r].read \in TaskRows /\ request[r].t \in Tasks
  BY RequestHolds DEF AcceptTask, StartTask, CompleteTask, ReassignTask
<1>2. /\ UNCHANGED <<complaint, logged, running, tick, due, sent, failures>>
      /\ request' = [request EXCEPT ![r] = request'[r]]
  <2>1. \E where : Goes(r, where)
    BY DEF AcceptTask, StartTask, CompleteTask, ReassignTask
  <2>2. request' = [request EXCEPT ![r] = request'[r]]
    BY <2>1 DEF Goes, TypeOK
  <2> QED
    BY <2>2 DEF AcceptTask, StartTask, CompleteTask, ReassignTask
<1>3. None \in SomeWorker
  BY DEF SomeWorker
<1>4. CASE AcceptTask(r)
  <2> DEFINE values == [request[r].read EXCEPT !.status = "accepted", !.accepted = TRUE]
  <2>1. values \in TaskRows /\ SaveTask(r, values)
    BY <1>1, <1>3, <1>4, ValuesType DEF AcceptTask
  <2>2. /\ values.status = "accepted" /\ values.worker = request[r].read.worker
        /\ values.complaint = request[r].read.complaint
    BY <1>1 DEF TaskRows
  <2>3. /\ request[r].read.worker # None /\ request[r].read.status # "completed"
        /\ request'[r] = Done
    BY <1>4 DEF AcceptTask, Goes, TypeOK
  <2>4. SavesAs(r, values)
    BY <2>1, <2>2, <2>3 DEF SavesAs
  <2> QED
    BY <1>1, <1>2, <2>1, <2>3, <2>4
<1>5. CASE StartTask(r)
  <2> DEFINE values == [request[r].read EXCEPT !.status = "in_progress", !.accepted = TRUE, !.started = TRUE]
  <2>1. values \in TaskRows /\ SaveTask(r, values)
    BY <1>1, <1>3, <1>5, ValuesType DEF StartTask
  <2>2. /\ values.status = "in_progress" /\ values.worker = request[r].read.worker
        /\ values.complaint = request[r].read.complaint
    BY <1>1 DEF TaskRows
  <2>3. request'[r] = Done
    BY <1>5 DEF StartTask, Goes, TypeOK
  <2>4. SavesAs(r, values)
    BY <2>1, <2>2, <2>3 DEF SavesAs
  <2> QED
    BY <1>1, <1>2, <2>1, <2>3, <2>4
<1>6. CASE CompleteTask(r)
  <2> DEFINE values == [request[r].read EXCEPT !.status = "completed"]
  <2>1. values \in TaskRows /\ SaveTask(r, values)
    BY <1>1, <1>3, <1>6, ValuesType DEF CompleteTask
  <2>2. /\ values.status = "completed" /\ values.worker = request[r].read.worker
        /\ values.complaint = request[r].read.complaint
    BY <1>1 DEF TaskRows
  <2>3. request'[r] = Done
    BY <1>6 DEF CompleteTask, Goes, TypeOK
  <2>4. SavesAs(r, values)
    BY <2>1, <2>2, <2>3 DEF SavesAs
  <2> QED
    BY <1>1, <1>2, <2>1, <2>3, <2>4
<1>7. CASE ReassignTask(r)
  <2> DEFINE values(w) == [request[r].read EXCEPT
                               !.status = IF w = None THEN "unassigned" ELSE "assigned",
                               !.worker = w, !.accepted = FALSE, !.started = @ /\ w # None]
  <2>1. PICK w \in SomeWorker :
            /\ SaveTask(r, values(w))
            /\ Goes(r, [at |-> "log", t |-> request[r].t, worker |-> w])
    BY <1>7 DEF ReassignTask
  <2>2. /\ values(w) \in TaskRows
        /\ values(w).status = IF w = None THEN "unassigned" ELSE "assigned"
        /\ values(w).worker = w
        /\ values(w).complaint = request[r].read.complaint
    <3>1. values(w) \in TaskRows
      BY <1>1, ValuesType
    <3>2. /\ values(w).status = IF w = None THEN "unassigned" ELSE "assigned"
          /\ values(w).worker = w
          /\ values(w).complaint = request[r].read.complaint
      BY <1>1 DEF TaskRows
    <3> QED
      BY <3>1, <3>2
  <2>3. request[r].read.status # "completed"
    BY <1>7 DEF ReassignTask
  <2>4. request'[r] = [at |-> "log", t |-> request[r].t, worker |-> w]
    BY <2>1 DEF Goes, TypeOK
  <2>5. request'[r] \in RequestStates
    BY <1>1, <2>4 DEF RequestStates
  <2>6. SavesAs(r, values(w))
    BY <2>1, <2>2, <2>3, <2>4 DEF SavesAs
  <2> QED
    BY <1>1, <1>2, <2>2, <2>5, <2>6
<1> QED
  BY <1>4, <1>5, <1>6, <1>7

LEMMA TaskStepType ==
    ASSUME TypeOK, NEW r \in Requests,
           \/ \E t \in Tasks : LoadTask(r, t)
           \/ ChangeTask(r)
           \/ BreakOff(r)
    PROVE  TypeOK'
<1> USE DoneType
<1>1. ASSUME NEW t \in Tasks, LoadTask(r, t)
      PROVE  TypeOK'
  <2>1. [at |-> "task", t |-> t, read |-> task[t]] \in RequestStates
    BY DEF RequestStates, TypeOK
  <2>2. request' \in [Requests -> RequestStates]
    BY <1>1, <2>1, GoesType DEF LoadTask
  <2> QED
    BY <1>1, <2>2, RequestStepType DEF LoadTask, TypeOK
<1>2. CASE AcceptTask(r) \/ StartTask(r) \/ CompleteTask(r) \/ ReassignTask(r)
  <2>1. PICK values \in TaskRows : SavesAs(r, values)
    BY <1>2, TaskSaves
  <2>2. request[r].at = "task" /\ values.complaint = request[r].read.complaint /\ SaveTask(r, values)
    BY <1>2, <2>1, TaskSaves DEF SavesAs
  <2>3. task' \in [Tasks -> TaskRows] /\ disturbed' \in SUBSET Tasks
    BY <2>2, SaveTaskStep, ChangeType
  <2>4. request' \in [Requests -> RequestStates]
    BY <1>2, TaskSaves DEF TypeOK
  <2> QED
    BY <1>2, <2>3, <2>4, TaskSaves, RequestStepType DEF TypeOK
<1>3. CASE LogAssignment(r)
  <2>1. request[r].t \in Tasks /\ request[r].worker \in SomeWorker
    BY <1>3, RequestHolds DEF LogAssignment
  <2>2. logged' \in [Tasks -> SUBSET SomeWorker]
    BY <1>3, <2>1 DEF LogAssignment, TypeOK
  <2>3. request' \in [Requests -> RequestStates]
    BY <1>3, GoesType DEF LogAssignment
  <2> QED
    BY <1>3, <2>2, <2>3, RequestStepType DEF LogAssignment, TypeOK
<1>4. CASE BreakOff(r)
  <2>1. disturbed' \in SUBSET Tasks
    BY <1>4, RequestHolds DEF BreakOff, TypeOK
  <2>2. request' \in [Requests -> RequestStates]
    BY <1>4, GoesType DEF BreakOff
  <2> QED
    BY <1>4, <2>1, <2>2, RequestStepType DEF BreakOff, TypeOK
<1> QED
  BY <1>1, <1>2, <1>3, <1>4 DEF ChangeTask

-----------------------------------------------------------------------------
(* The sweep.                                                              *)

\* The row a sweep gives an overdue task, and what is noted of it.
LEMMA MarkedType ==
    ASSUME TypeOK, NEW k \in Ticks, NEW t \in Tasks
    PROVE  Marked(k, t) \in TaskRows
BY DEF TypeOK, Marked, TaskRows, TaskStatuses, ActiveStatuses

\* A step that marks a task changes it by its index and nothing else about the tasks;
\* the others leave the tasks alone.
LEMMA SweepStepTasks ==
    ASSUME TypeOK, NEW k \in Ticks, RunReminderSweep(k)
    PROVE  \/ UNCHANGED <<task, disturbed>>
           \/ \E t \in Tasks :
                 /\ tick[k].at = "next" /\ t \in DOMAIN tick[k].read
                 /\ Change(t, Marked(k, t))
                 /\ disturbed' = IF task[t].status \in {tick[k].read[t], Marked(k, t).status} THEN disturbed
                                 ELSE disturbed \cup {t}
<1>1. CASE MarkOverdue(k)
  <2>1. tick[k].at = "next" /\ DOMAIN tick[k].read \in SUBSET Tasks
    BY <1>1, TickHolds, SnapshotType DEF MarkOverdue
  <2> QED
    BY <1>1, <2>1 DEF MarkOverdue, Change
<1>2. CASE Sweep(k) \/ LookForReminder(k) \/ SendAndLog(k) \/ EndSweep(k)
  BY <1>2 DEF Sweep, LookForReminder, SendAndLog, EndSweep
<1> QED
  BY <1>1, <1>2 DEF RunReminderSweep

LEMMA SweepStepType ==
    ASSUME TypeOK, NEW k \in Ticks, RunReminderSweep(k)
    PROVE  TypeOK'
<1>1. task' \in [Tasks -> TaskRows] /\ disturbed' \in SUBSET Tasks
  <2>1. CASE UNCHANGED <<task, disturbed>>
    BY <2>1 DEF TypeOK
  <2>2. ASSUME NEW t \in Tasks, Change(t, Marked(k, t)),
               disturbed' = IF task[t].status \in {tick[k].read[t], Marked(k, t).status} THEN disturbed ELSE disturbed \cup {t}
        PROVE  task' \in [Tasks -> TaskRows] /\ disturbed' \in SUBSET Tasks
    BY <2>2, MarkedType, ChangeType DEF TypeOK
  <2> QED
    BY <2>1, <2>2, SweepStepTasks
<1>2. \E where \in TickStates : TickGoes(k, where)
  <2>1. CASE Sweep(k)
    <3> DEFINE active == {t \in Tasks : task[t].status \in ActiveStatuses}
    <3>1. [t \in active |-> task[t].status] \in [active -> ActiveStatuses] /\ active \in SUBSET Tasks
      OBVIOUS
    <3>2. [t \in active |-> task[t].status] \in Snapshots
      BY <3>1 DEF Snapshots
    <3> QED
      BY <2>1, <3>2 DEF Sweep, TickStates
  <2>2. CASE MarkOverdue(k)
    <3>1. tick[k].at = "next" /\ tick[k].read \in Snapshots
      BY <2>2, TickHolds DEF MarkOverdue
    <3>2. PICK t \in DOMAIN tick[k].read :
              \/ TickGoes(k, [tick[k] EXCEPT !.read = Without(t, @)])
              \/ TickGoes(k, [at |-> "look", t |-> t, read |-> Without(t, tick[k].read)])
      BY <2>2 DEF MarkOverdue
    <3>3. t \in Tasks /\ Without(t, tick[k].read) \in Snapshots
      BY <3>1, SnapshotType
    <3>4. tick[k] \in [at : {"next"}, read : Snapshots]
      BY <3>1 DEF TypeOK, TickStates, Resting
    <3>5. /\ [tick[k] EXCEPT !.read = Without(t, @)] \in TickStates
          /\ [at |-> "look", t |-> t, read |-> Without(t, tick[k].read)] \in TickStates
      BY <3>3, <3>4 DEF TickStates
    <3> QED
      BY <3>2, <3>5
  <2>3. CASE LookForReminder(k)
    <3>1. tick[k] \in [at : {"look"}, t : Tasks, read : Snapshots]
      BY <2>3 DEF LookForReminder, TypeOK, TickStates, Resting
    <3>2. /\ [at |-> "next", read |-> tick[k].read] \in TickStates
          /\ [tick[k] EXCEPT !.at = "send"] \in TickStates
      BY <3>1 DEF TickStates
    <3> QED
      BY <2>3, <3>2 DEF LookForReminder
  <2>4. CASE SendAndLog(k)
    <3>1. tick[k].read \in Snapshots
      BY <2>4, TickHolds DEF SendAndLog
    <3> QED
      BY <2>4, <3>1 DEF SendAndLog, TickStates
  <2>5. CASE EndSweep(k)
    BY <2>5 DEF EndSweep, TickStates
  <2> QED
    BY <2>1, <2>2, <2>3, <2>4, <2>5 DEF RunReminderSweep
<1>3. tick' \in [Ticks -> TickStates]
  BY <1>2, TickGoesType
<1>4. running' \in BOOLEAN
  BY DEF RunReminderSweep, Sweep, MarkOverdue, LookForReminder, SendAndLog, EndSweep, TypeOK
<1>5. sent' \in [Tasks -> Nat]
  <2>1. CASE UNCHANGED sent
    BY <2>1 DEF TypeOK
  <2>2. CASE SendAndLog(k)
    BY <2>2, TickHolds DEF SendAndLog, TypeOK
  <2> QED
    BY <2>1, <2>2 DEF RunReminderSweep, Sweep, MarkOverdue, LookForReminder, EndSweep
<1>6. failures' \in 0..MaxFailures
  BY ConstantsAssumption DEF RunReminderSweep, Sweep, MarkOverdue, LookForReminder, SendAndLog, EndSweep, TypeOK
<1>7. UNCHANGED <<complaint, logged, request, due>>
  BY DEF RunReminderSweep, Sweep, MarkOverdue, LookForReminder, SendAndLog, EndSweep
<1> QED
  BY <1>1, <1>3, <1>4, <1>5, <1>6, <1>7 DEF TypeOK

LEMMA NextType == TypeOK /\ [Next]_vars => TypeOK'
<1> SUFFICES ASSUME TypeOK, [Next]_vars PROVE TypeOK'
  OBVIOUS
<1>1. ASSUME NEW t \in Tasks, DeadlinePasses(t)
      PROVE  TypeOK'
  BY <1>1 DEF DeadlinePasses, TypeOK
<1>2. CASE UNCHANGED vars
  BY <1>2 DEF vars, TypeOK
<1> QED
  BY <1>1, <1>2, ComplaintStepType, CriticalStepType, TaskStepType, SweepStepType DEF Next

\* Rows, readings and places are what they are declared to be.
THEOREM TypeCorrect == Spec => []TypeOK
<1> QED
  BY InitType, NextType, PTL DEF Spec

-----------------------------------------------------------------------------
(* The four ways a step may touch the tasks.                               *)

Quiet ==
    /\ UNCHANGED <<task, logged>>
    /\ disturbed \subseteq disturbed'
    /\ \A r \in Requests : request[r].at = "log" => request'[r] = request[r] \/ request[r].t \in disturbed'

Commits == \E r \in Requests : Commit(r)

Saves(r, values) ==
    /\ request[r].at = "task"
    /\ SavesAs(r, values)
    /\ request' = [request EXCEPT ![r] = request'[r]]
    /\ UNCHANGED logged

Marks(k, t) ==
    /\ tick[k].at = "next" /\ t \in DOMAIN tick[k].read
    /\ Change(t, Marked(k, t))
    /\ disturbed' = IF task[t].status \in {tick[k].read[t], Marked(k, t).status} THEN disturbed ELSE disturbed \cup {t}
    /\ UNCHANGED <<logged, request>>

LEMMA StepKinds ==
    ASSUME TypeOK, [Next]_vars
    PROVE  \/ Quiet
           \/ Commits
           \/ \E r \in Requests, values \in TaskRows : Saves(r, values)
           \/ \E k \in Ticks, t \in Tasks : Marks(k, t)
           \/ \E r \in Requests : LogAssignment(r)
<1>1. CASE UNCHANGED vars
  BY <1>1 DEF vars, Quiet
<1>2. ASSUME NEW t \in Tasks, DeadlinePasses(t)
      PROVE  Quiet
  BY <1>2 DEF DeadlinePasses, Quiet
<1>3. ASSUME NEW r \in Requests,
             \/ \E c \in Complaints : CreateComplaint(r, c) \/ LoadComplaint(r, c)
             \/ ChangeComplaint(r)
             \/ \E t \in Tasks : LoadTask(r, t)
      PROVE  Quiet
  <2>1. request[r].at # "log" /\ UNCHANGED <<task, logged, disturbed>>
    <3>1. CASE ChangeComplaint(r)
      <4>1. request[r].at = "change"
        BY <3>1 DEF ChangeComplaint, UpdateComplaint, AssignComplaint, DispatchComplaint, ResolveComplaint
      <4>2. UNCHANGED <<task, logged, disturbed>>
        BY <3>1 DEF ChangeComplaint, UpdateComplaint, AssignComplaint, DispatchComplaint, ResolveComplaint
      <4> QED
        BY <4>1, <4>2
    <3>2. CASE ~ ChangeComplaint(r)
      <4>1. request[r] = Idle /\ UNCHANGED <<task, logged, disturbed>>
        BY <1>3, <3>2 DEF CreateComplaint, LoadComplaint, LoadTask
      <4> QED
        BY <4>1 DEF Idle
    <3> QED
      BY <3>1, <3>2
  <2>2. \E where : Goes(r, where)
    BY <1>3 DEF CreateComplaint, LoadComplaint, ChangeComplaint, UpdateComplaint, AssignComplaint,
                DispatchComplaint, ResolveComplaint, LoadTask
  <2> QED
    BY <2>1, <2>2 DEF Goes, TypeOK, Quiet
<1>4. ASSUME NEW r \in Requests, HandleComplaintCriticality(r)
      PROVE  Quiet \/ Commits
  <2>1. CASE Commit(r)
    BY <2>1 DEF Commits
  <2>2. CASE ReadCritical(r) \/ FindActiveTask(r) \/ SelectWorker(r) \/ BeginTransaction(r)
    <3>1. request[r].at # "log" /\ UNCHANGED <<task, logged, disturbed>>
      BY <2>2 DEF ReadCritical, FindActiveTask, SelectWorker, BeginTransaction
    <3>2. \E where : Goes(r, where)
      BY <2>2 DEF ReadCritical, FindActiveTask, SelectWorker, BeginTransaction
    <3> QED
      BY <3>1, <3>2 DEF Goes, TypeOK, Quiet
  <2> QED
    BY <1>4, <2>1, <2>2 DEF HandleComplaintCriticality
<1>5. ASSUME NEW r \in Requests, ChangeTask(r)
      PROVE  LogAssignment(r) \/ \E values \in TaskRows : Saves(r, values)
  <2>1. CASE LogAssignment(r)
    BY <2>1
  <2>2. CASE AcceptTask(r) \/ StartTask(r) \/ CompleteTask(r) \/ ReassignTask(r)
    BY <2>2, TaskSaves DEF Saves
  <2> QED
    BY <1>5, <2>1, <2>2 DEF ChangeTask
<1>6. ASSUME NEW r \in Requests, BreakOff(r)
      PROVE  Quiet
  BY <1>6 DEF BreakOff, Goes, TypeOK, Quiet
<1>7. ASSUME NEW k \in Ticks, RunReminderSweep(k)
      PROVE  Quiet \/ \E t \in Tasks : Marks(k, t)
  <2>1. UNCHANGED <<logged, request>>
    BY <1>7 DEF RunReminderSweep, Sweep, MarkOverdue, LookForReminder, SendAndLog, EndSweep
  <2> QED
    BY <1>7, <2>1, SweepStepTasks DEF Quiet, Marks
<1> QED
  BY <1>1, <1>2, <1>3, <1>4, <1>5, <1>6, <1>7 DEF Next

-----------------------------------------------------------------------------
(* One active task.                                                        *)

LEMMA OneActiveInit == Init => OneActiveTask
BY DEF Init, OneActiveTask, NewTask, ActiveStatuses

LEMMA OneActiveStep == TypeOK /\ OneActiveTask /\ [Next]_vars => OneActiveTask'
<1> SUFFICES ASSUME TypeOK, OneActiveTask, [Next]_vars PROVE OneActiveTask'
  OBVIOUS
<1>1. CASE UNCHANGED task
  BY <1>1 DEF OneActiveTask
<1>2. ASSUME NEW t \in Tasks, NEW row \in TaskRows, Change(t, row)
      PROVE  OneActiveTask'
  BY <1>2, ChangeKeepsOneActive
<1>3. ASSUME NEW r \in Requests, Commit(r)
      PROVE  \E t \in Tasks, row \in TaskRows : Change(t, row)
  BY <1>3, CommitStep
<1>4. ASSUME NEW r \in Requests, NEW values \in TaskRows, Saves(r, values)
      PROVE  \E t \in Tasks, row \in TaskRows : Change(t, row)
  BY <1>4, SaveTaskStep DEF Saves, SavesAs
<1>5. ASSUME NEW k \in Ticks, NEW t \in Tasks, Marks(k, t)
      PROVE  \E row \in TaskRows : Change(t, row)
  BY <1>5, MarkedType DEF Marks
<1> QED
  BY <1>1, <1>2, <1>3, <1>4, <1>5, StepKinds DEF Quiet, Commits, LogAssignment

\* A complaint has at most one active task, whatever overlaps: the index refuses what the
\* search for an active task misses.
THEOREM OneActive == Spec => []OneActiveTask
<1> QED
  BY InitType, NextType, OneActiveInit, OneActiveStep, PTL DEF Spec

-----------------------------------------------------------------------------
(* The status of a task and its worker; completed tasks.                   *)

LEMMA StatusInit == Init => StatusNamesWorker
BY DEF Init, StatusNamesWorker, NewTask

LEMMA StatusStep == TypeOK /\ StatusNamesWorker /\ [Next]_vars => StatusNamesWorker'
<1> SUFFICES ASSUME TypeOK, StatusNamesWorker, [Next]_vars PROVE StatusNamesWorker'
  OBVIOUS
<1>1. CASE Quiet
  BY <1>1 DEF Quiet, StatusNamesWorker
<1>2. ASSUME NEW r \in Requests, Commit(r)
      PROVE  StatusNamesWorker'
  <2>1. PICK t \in Tasks, s \in {"unassigned", "assigned"} :
            /\ s = IF request[r].worker = None THEN "unassigned" ELSE "assigned"
            /\ Change(t, NewTask(request[r].c, s, request[r].worker))
    BY <1>2, CommitStep
  <2>2. /\ task'[t] = NewTask(request[r].c, s, request[r].worker)
        /\ \A u \in Tasks \ {t} : task'[u] = task[u]
        /\ disturbed' = disturbed
    BY <1>2, <2>1 DEF Change, TypeOK, Commit
  <2> QED
    BY <2>1, <2>2 DEF StatusNamesWorker, NewTask
<1>3. ASSUME NEW r \in Requests, NEW values \in TaskRows, Saves(r, values)
      PROVE  StatusNamesWorker'
  <2>1. /\ \A u \in Tasks \ {request[r].t} : task'[u] = task[u]
        /\ disturbed \subseteq disturbed'
        /\ request[r].t \notin disturbed' => /\ task'[request[r].t].status = values.status
                                             /\ task'[request[r].t].worker = values.worker
    BY <1>3, SaveTaskStep DEF Saves, SavesAs
  <2>2. /\ values.status \in {"assigned", "accepted"} => values.worker # None
        /\ values.status = "unassigned" => values.worker = None
    BY <1>3 DEF Saves, SavesAs
  <2> QED
    BY <2>1, <2>2 DEF StatusNamesWorker
<1>4. ASSUME NEW k \in Ticks, NEW t \in Tasks, Marks(k, t)
      PROVE  StatusNamesWorker'
  <2>1. /\ task'[t] = Marked(k, t)
        /\ \A u \in Tasks \ {t} : task'[u] = task[u]
        /\ disturbed \subseteq disturbed'
    BY <1>4 DEF Marks, Change, TypeOK
  <2>2. Marked(k, t) = task[t] \/ Marked(k, t).status = "overdue"
    BY DEF Marked, TypeOK, TaskRows
  <2> QED
    BY <2>1, <2>2 DEF StatusNamesWorker
<1>5. ASSUME NEW r \in Requests, LogAssignment(r)
      PROVE  StatusNamesWorker'
  BY <1>5 DEF LogAssignment, StatusNamesWorker
<1> QED
  BY <1>1, <1>2, <1>3, <1>4, <1>5, StepKinds DEF Commits

\* The status of a task says whether it has a worker, unless handlers overlapped.
THEOREM StatusCorrect == Spec => []StatusNamesWorker
<1> QED
  BY InitType, NextType, StatusInit, StatusStep, PTL DEF Spec

LEMMA FinishedStep ==
    ASSUME TypeOK, [Next]_vars, NEW t \in Tasks, task[t].status = "completed"
    PROVE  task'[t].status \in {"completed", "in_progress"} \/ t \in disturbed'
<1>1. CASE UNCHANGED task
  BY <1>1
<1>2. ASSUME NEW r \in Requests, Commit(r)
      PROVE  task'[t] = task[t]
  <2>1. PICK u \in Tasks, s \in {"unassigned", "assigned"} :
            /\ task[u].status = "none"
            /\ Change(u, NewTask(request[r].c, s, request[r].worker))
    BY <1>2, CommitStep
  <2> QED
    BY <2>1 DEF Change, TypeOK
<1>3. ASSUME NEW r \in Requests, NEW values \in TaskRows, Saves(r, values),
             task'[t] # task[t], t \notin disturbed'
      PROVE  task'[t].status \in {"completed", "in_progress"}
  <2>1. /\ \A u \in Tasks \ {request[r].t} : task'[u] = task[u]
        /\ request[r].t \notin disturbed' => /\ task[request[r].t] = request[r].read
                                             /\ task'[request[r].t].status = values.status
    BY <1>3, SaveTaskStep DEF Saves, SavesAs
  <2>2. t = request[r].t
    BY <1>3, <2>1
  <2> QED
    BY <1>3, <2>1, <2>2 DEF Saves, SavesAs
<1>4. ASSUME NEW k \in Ticks, NEW u \in Tasks, Marks(k, u)
      PROVE  task'[t] = task[t] \/ t \in disturbed'
  <2>1. tick[k].read[u] # "completed"
    BY <1>4, TickHolds, SnapshotType DEF Marks, ActiveStatuses
  <2>2. Marked(k, u) = task[u] \/ Marked(k, u).status = "overdue"
    BY DEF Marked, TypeOK, TaskRows
  <2>3. /\ task'[u] = Marked(k, u)
        /\ \A v \in Tasks \ {u} : task'[v] = task[v]
    BY <1>4 DEF Marks, Change, TypeOK
  <2>4. u = t => Marked(k, u) = task[u] \/ u \in disturbed'
    BY <1>4, <2>1, <2>2 DEF Marks
  <2> QED
    BY <2>3, <2>4
<1> QED
  BY <1>1, <1>2, <1>3, <1>4, StepKinds DEF Commits, LogAssignment, Quiet

\* A completed task leaves that status only by being started again, or by a handler or a
\* sweep that read it before.
THEOREM FinishedForGood == Spec => FinishedStays
<1>1. TypeOK /\ [Next]_vars =>
          [\A t \in Tasks : task[t].status = "completed"
               => task'[t].status \in {"completed", "in_progress"} \/ t \in disturbed']_vars
  BY FinishedStep
<1> QED
  BY <1>1, TypeCorrect, PTL DEF Spec, FinishedStays

-----------------------------------------------------------------------------
(* The assignment log.                                                     *)

\* Whoever holds a task is in its log, or about to be entered by the handler that
\* assigned the task. AssignmentLogged alone does not tell which handler that is.
Accounted ==
    \A t \in Tasks \ disturbed :
        \/ task[t].worker \in logged[t] \cup {None}
        \/ \E r \in Requests : /\ request[r].at = "log" /\ request[r].t = t
                               /\ request[r].worker = task[t].worker

LEMMA AccountedInit == Init => Accounted
BY DEF Init, Accounted, NewTask

LEMMA AccountedStep == TypeOK /\ Accounted /\ [Next]_vars => Accounted'
<1> SUFFICES ASSUME TypeOK, Accounted, [Next]_vars PROVE Accounted'
  OBVIOUS
<1>1. CASE Quiet
  <2> SUFFICES ASSUME NEW t \in Tasks \ disturbed'
               PROVE  \/ task'[t].worker \in logged'[t] \cup {None}
                      \/ \E r \in Requests : /\ request'[r].at = "log" /\ request'[r].t = t
                                             /\ request'[r].worker = task'[t].worker
    BY DEF Accounted
  <2> QED
    BY <1>1 DEF Quiet, Accounted
<1>2. ASSUME NEW r \in Requests, Commit(r)
      PROVE  Accounted'
  <2>1. PICK t \in Tasks, s \in {"unassigned", "assigned"} :
            /\ Change(t, NewTask(request[r].c, s, request[r].worker))
            /\ logged' = [logged EXCEPT ![t] = @ \cup {request[r].worker}]
    BY <1>2, CommitStep
  <2>2. /\ task'[t].worker = request[r].worker
        /\ request[r].worker \in logged'[t]
    BY <2>1 DEF Change, TypeOK, NewTask
  <2>3. \A u \in Tasks \ {t} : task'[u] = task[u] /\ logged'[u] = logged[u]
    BY <2>1 DEF Change, TypeOK
  <2>4. /\ disturbed' = disturbed
        /\ \A q \in Requests : request[q].at = "log" => request'[q] = request[q]
    BY <1>2 DEF Commit, Goes, TypeOK
  <2> QED
    BY <2>2, <2>3, <2>4 DEF Accounted
<1>3. ASSUME NEW r \in Requests, NEW values \in TaskRows, Saves(r, values)
      PROVE  Accounted'
  <2> DEFINE t == request[r].t
  <2>1. /\ t \in Tasks
        /\ \A u \in Tasks \ {t} : task'[u] = task[u]
        /\ disturbed \subseteq disturbed'
        /\ t \notin disturbed' => task'[t].worker = values.worker
        /\ values.worker = request[r].read.worker => task'[t].worker = task[t].worker
    BY <1>3, SaveTaskStep DEF Saves, SavesAs
  <2>2. /\ logged' = logged
        /\ \A q \in Requests : request[q].at = "log" => request'[q] = request[q]
    BY <1>3 DEF Saves, TypeOK
  <2>3. CASE values.worker = request[r].read.worker
    BY <2>1, <2>2, <2>3 DEF Accounted
  <2>4. CASE request'[r] = [at |-> "log", t |-> t, worker |-> values.worker]
    <3>1. request'[r].at = "log" /\ request'[r].t = t /\ request'[r].worker = values.worker
      BY <2>4
    <3> QED
      BY <2>1, <2>2, <3>1 DEF Accounted
  <2> QED
    BY <1>3, <2>3, <2>4 DEF Saves, SavesAs
<1>4. ASSUME NEW k \in Ticks, NEW t \in Tasks, Marks(k, t)
      PROVE  Accounted'
  <2>1. Marked(k, t).worker = task[t].worker
    BY DEF Marked, TypeOK, TaskRows
  <2>2. /\ \A u \in Tasks : task'[u].worker = task[u].worker
        /\ disturbed \subseteq disturbed'
        /\ logged' = logged /\ request' = request
    BY <1>4, <2>1 DEF Marks, Change, TypeOK
  <2> QED
    BY <2>2 DEF Accounted
<1>5. ASSUME NEW r \in Requests, LogAssignment(r)
      PROVE  Accounted'
  <2>1. request[r].t \in Tasks /\ request[r].at = "log"
    BY <1>5, RequestHolds DEF LogAssignment
  <2>2. /\ task' = task /\ disturbed' = disturbed
        /\ request[r].worker \in logged'[request[r].t]
        /\ \A u \in Tasks : logged[u] \subseteq logged'[u]
        /\ \A q \in Requests \ {r} : request'[q] = request[q]
    BY <1>5, <2>1 DEF LogAssignment, Goes, TypeOK
  <2> SUFFICES ASSUME NEW t \in Tasks \ disturbed
               PROVE  \/ task[t].worker \in logged'[t] \cup {None}
                      \/ \E q \in Requests : /\ request'[q].at = "log" /\ request'[q].t = t
                                             /\ request'[q].worker = task[t].worker
    BY <2>2 DEF Accounted
  <2>3. CASE task[t].worker \in logged[t] \cup {None}
    BY <2>2, <2>3
  <2>4. ASSUME NEW q \in Requests, request[q].at = "log", request[q].t = t,
               request[q].worker = task[t].worker
        PROVE  \/ task[t].worker \in logged'[t]
               \/ request'[q] = request[q]
    BY <2>2, <2>4
  <2> QED
    BY <2>3, <2>4 DEF Accounted
<1> QED
  BY <1>1, <1>2, <1>3, <1>4, <1>5, StepKinds DEF Commits

\* Whoever holds a task is named in the assignment log once the handler that assigned the
\* task is through.
THEOREM LogComplete == Spec => []AssignmentLogged
<1>1. Accounted => AssignmentLogged
  BY DEF Accounted, AssignmentLogged
<1> QED
  BY <1>1, InitType, NextType, AccountedInit, AccountedStep, PTL DEF Spec

-----------------------------------------------------------------------------
(* One escalation.                                                         *)

\* At most one sweep is at work, reminderRunning says so, and what it is about to send has
\* not been sent.
OneSweep ==
    /\ \A k \in Ticks : tick[k] # Resting => running
    /\ \A k, l \in Ticks : tick[k] # Resting /\ tick[l] # Resting => k = l
    /\ \A k \in Ticks : tick[k].at = "send" => sent[tick[k].t] = 0
    /\ EscalatedOnce

LEMMA OneSweepInit == Init => OneSweep
BY DEF Init, OneSweep, EscalatedOnce, Resting

LEMMA OneSweepStep == TypeOK /\ OneSweep /\ [Next]_vars => OneSweep'
<1> SUFFICES ASSUME TypeOK, OneSweep, [Next]_vars PROVE OneSweep'
  OBVIOUS
<1>1. CASE UNCHANGED <<tick, running, sent>>
  BY <1>1 DEF OneSweep, EscalatedOnce
<1>2. ASSUME NEW k \in Ticks, RunReminderSweep(k)
      PROVE  OneSweep'
  <2>1. \A l \in Ticks \ {k} : tick'[l] = tick[l]
    BY <1>2 DEF RunReminderSweep, Sweep, MarkOverdue, LookForReminder, SendAndLog, EndSweep, TickGoes, TypeOK
  <2>2. CASE Sweep(k)
    <3>1. \A l \in Ticks : tick[l] = Resting
      BY <2>2 DEF Sweep, OneSweep
    <3>2. running' = TRUE /\ sent' = sent /\ tick'[k].at = "next"
      BY <2>2 DEF Sweep, TickGoes, TypeOK
    <3> QED
      BY <2>1, <3>1, <3>2 DEF OneSweep, EscalatedOnce, Resting
  <2>3. CASE MarkOverdue(k) \/ LookForReminder(k)
    <3>1. tick[k] # Resting /\ running' = running /\ sent' = sent
      BY <2>3 DEF MarkOverdue, LookForReminder, Resting
    <3>2. tick'[k].at = "send" => sent[tick'[k].t] = 0
      <4>1. CASE MarkOverdue(k)
        <5>1. PICK f : \/ TickGoes(k, [tick[k] EXCEPT !.read = f])
                       \/ \E t \in Tasks : TickGoes(k, [at |-> "look", t |-> t, read |-> f])
          BY <4>1, TickHolds, SnapshotType DEF MarkOverdue
        <5>2. tick[k] \in [at : {"next"}, read : Snapshots]
          BY <4>1 DEF MarkOverdue, TypeOK, TickStates, Resting
        <5>3. tick'[k].at # "send"
          BY <5>1, <5>2 DEF TickGoes, TypeOK
        <5> QED
          BY <5>3
      <4>2. CASE LookForReminder(k)
        <5>1. tick[k] \in [at : {"look"}, t : Tasks, read : Snapshots]
          BY <4>2 DEF LookForReminder, TypeOK, TickStates, Resting
        <5>2. CASE sent[tick[k].t] > 0
          BY <4>2, <5>2 DEF LookForReminder, TickGoes, TypeOK
        <5>3. CASE ~ (sent[tick[k].t] > 0)
          <6>1. tick'[k] = [tick[k] EXCEPT !.at = "send"]
            BY <4>2, <5>3 DEF LookForReminder, TickGoes, TypeOK
          <6>2. tick'[k].t = tick[k].t /\ tick[k].t \in Tasks
            BY <5>1, <6>1
          <6>3. sent[tick[k].t] \in Nat
            BY <6>2 DEF TypeOK
          <6> QED
            BY <5>3, <6>2, <6>3
        <5> QED
          BY <5>2, <5>3
      <4> QED
        BY <2>3, <4>1, <4>2
    <3> QED
      BY <2>1, <3>1, <3>2 DEF OneSweep, EscalatedOnce
  <2>4. CASE SendAndLog(k)
    <3>1. /\ tick[k].at = "send" /\ tick[k].t \in Tasks /\ tick[k] # Resting
          /\ sent[tick[k].t] = 0
      BY <2>4, TickHolds DEF SendAndLog, OneSweep, Resting
    <3>2. /\ running' = running /\ tick'[k].at = "next"
          /\ sent' = sent \/ sent' = [sent EXCEPT ![tick[k].t] = @ + 1]
      BY <2>4 DEF SendAndLog, TickGoes, TypeOK
    <3>3. EscalatedOnce'
      BY <3>1, <3>2 DEF OneSweep, EscalatedOnce, TypeOK
    <3>4. \A l \in Ticks \ {k} : tick'[l] = Resting
      BY <2>1, <3>1 DEF OneSweep
    <3> QED
      BY <3>1, <3>2, <3>3, <3>4 DEF OneSweep, Resting
  <2>5. CASE EndSweep(k)
    <3>1. \A l \in Ticks : tick'[l] = Resting
      BY <2>1, <2>5 DEF EndSweep, OneSweep, TickGoes, TypeOK
    <3>2. sent' = sent
      BY <2>5 DEF EndSweep
    <3> QED
      BY <3>1, <3>2 DEF OneSweep, EscalatedOnce, Resting
  <2> QED
    BY <1>2, <2>2, <2>3, <2>4, <2>5 DEF RunReminderSweep
<1>3. ASSUME NEW r \in Requests,
             \/ \E c \in Complaints : CreateComplaint(r, c) \/ LoadComplaint(r, c)
             \/ ChangeComplaint(r)
             \/ HandleComplaintCriticality(r)
      PROVE  UNCHANGED <<tick, running, sent>>
  BY <1>3 DEF CreateComplaint, LoadComplaint, ChangeComplaint, UpdateComplaint, AssignComplaint,
              DispatchComplaint, ResolveComplaint, HandleComplaintCriticality, ReadCritical,
              FindActiveTask, SelectWorker, BeginTransaction, Commit
<1>4. ASSUME NEW r \in Requests, (\E t \in Tasks : LoadTask(r, t)) \/ ChangeTask(r) \/ BreakOff(r)
      PROVE  UNCHANGED <<tick, running, sent>>
  BY <1>4 DEF LoadTask, ChangeTask, AcceptTask, StartTask, CompleteTask, ReassignTask, LogAssignment, BreakOff
<1>5. ASSUME NEW t \in Tasks, DeadlinePasses(t)
      PROVE  UNCHANGED <<tick, running, sent>>
  BY <1>5 DEF DeadlinePasses
<1> QED
  BY <1>1, <1>2, <1>3, <1>4, <1>5 DEF Next, vars

\* One process escalates a task once.
THEOREM EscalatesOnce == Spec => []EscalatedOnce
<1>1. OneSweep => EscalatedOnce
  BY DEF OneSweep
<1> QED
  BY <1>1, InitType, NextType, OneSweepInit, OneSweepStep, PTL DEF Spec
=============================================================================
