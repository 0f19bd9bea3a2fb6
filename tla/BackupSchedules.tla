-------------------------- MODULE BackupSchedules --------------------------
(***************************************************************************)
(* Daily backup schedules (backups/backup.service.js, backup.scheduler.js, *)
(* backupSchedule.js): the operators' edits, the sweeps that claim what is *)
(* due, and the reconciliation a server runs when it starts.               *)
(*                                                                         *)
(* Every server sweeps on a timer, and the cron endpoint starts sweeps of  *)
(* its own; a sweep keeps the time it began at, claims one schedule after  *)
(* the other and waits for each backup before the next claim. Times are    *)
(* natural numbers, a day is Day of them, and the time of day and the zone *)
(* of a schedule are one offset into the day. What a backup does is        *)
(* BackupJobs.                                                             *)
(***************************************************************************)
EXTENDS Naturals, FiniteSets, Sequelize

CONSTANTS
    Schedules,  \* schedules there can be
    Servers,    \* server processes
    Crons,      \* requests to the cron endpoint that can be under way
    Edits,      \* requests of operators that change a schedule
    Day,        \* instants in a day
    MaxTime,    \* bound on the clock
    MaxCrashes  \* bound on crashes of servers and on backups that cannot be started

ASSUME ConstantsAssumption ==
    /\ IsFiniteSet(Schedules) /\ IsFiniteSet(Servers) /\ IsFiniteSet(Crons) /\ IsFiniteSet(Edits)
    /\ Day \in Nat \ {0}
    /\ MaxTime \in Nat /\ MaxTime >= Day
    /\ MaxCrashes \in Nat

VARIABLES
    now,        \* the time
    row,        \* the BackupSchedule rows
    server,     \* where each server is
    sweep,      \* where each sweep is, with the time it began and what it has listed
    edit,       \* where each request of an operator is, with what it has computed and read
    crashes,    \* crashes and failures so far
    taken,      \* history: the occurrences claimed since the schedule was configured
    late        \* history: what the schedule waits for was due when it was armed, or is not its time of day

vars == <<now, row, server, sweep, edit, crashes, taken, late>>

-----------------------------------------------------------------------------
Never == 0
Offsets == 0 .. Day - 1
Instants == 0 .. MaxTime + Day
Sweepers == Servers \cup Crons

\* The occurrences of a daily time are a day apart; previousDailyRun may be one of now itself.
nextDailyRun(offset, from) == CHOOSE o \in from + 1 .. from + Day : o % Day = offset

previousDailyRun(offset, from) == CHOOSE o \in (from + 1) - Day .. from : o % Day = offset

Row(life, enabled, offset, next, last, updated) ==
    [life |-> life, enabled |-> enabled, offset |-> offset,
     next_run_at |-> next, last_run_at |-> last, updated_at |-> updated]
NoRow == Row("none", FALSE, 0, Never, Never, 0)
NoSweep == [at |-> "idle", now |-> 0, due |-> {}, run |-> {}]
NoEdit == [at |-> "idle", of |-> {}, values |-> NoRow, seen |-> NoRow]

Exists(s) == row[s].life = "row"

IsDue(s, time) ==
    Exists(s) /\ row[s].enabled /\ row[s].next_run_at <= time

Init ==
    /\ now = Day
    /\ row \in [Schedules -> {NoRow, Row("row", TRUE, 0, nextDailyRun(0, Day), Never, Day)}]
    /\ server = [v \in Servers |-> "up"]
    /\ sweep = [w \in Sweepers |-> NoSweep]
    /\ edit = [e \in Edits |-> NoEdit]
    /\ crashes = 0
    /\ taken = [s \in Schedules |-> {}]
    /\ late = [s \in Schedules |-> FALSE]

Tick ==
    /\ now < MaxTime
    /\ now' = now + 1
    /\ UNCHANGED <<row, server, sweep, edit, crashes, taken, late>>

\* Of the schedules whose next run or time of day is written anew.
Lateness ==
    late' = [s \in Schedules |->
        IF row'[s].next_run_at = row[s].next_run_at /\ row'[s].offset = row[s].offset THEN late[s]
        ELSE row'[s].next_run_at <= now \/ row'[s].next_run_at % Day # row'[s].offset]

-----------------------------------------------------------------------------
(* Operators.                                                              *)

Configured(s) ==
    /\ taken' = [taken EXCEPT ![s] = {}]
    /\ Lateness

\* upsertSchedule: the next run is computed before the row is read.
UpsertAsk(e, s, offset, enabled) ==
    /\ edit[e].at = "idle"
    /\ LET next == IF enabled THEN nextDailyRun(offset, now) ELSE Never
       IN  edit' = [edit EXCEPT ![e] = [at |-> "upsert", of |-> {s}, seen |-> NoRow,
                                        values |-> Row("row", enabled, offset, next, Never, now)]]
    /\ UNCHANGED <<now, row, server, sweep, crashes, taken, late>>

UpsertCreate(e, s) ==
    /\ edit[e].at = "upsert" /\ s \in edit[e].of
    /\ row[s].life = "none"
    /\ row' = [row EXCEPT ![s] = edit[e].values]
    /\ edit' = [edit EXCEPT ![e] = [NoEdit EXCEPT !.at = "done"]]
    /\ Configured(s)
    /\ UNCHANGED <<now, server, sweep, crashes>>

\* There is no row to update once the schedule is deleted.
UpsertRead(e, s) ==
    /\ edit[e].at = "upsert" /\ s \in edit[e].of
    /\ Exists(s)
    /\ edit' = [edit EXCEPT ![e].at = "write", ![e].seen = row[s],
                            ![e].values.last_run_at = row[s].last_run_at]
    /\ UNCHANGED <<now, row, server, sweep, crashes, taken, late>>

\* updateMe: the operator's new time zone moves the schedules the operator has created.
\* Only whether they are enabled is read, so what is computed is written in any case.
ProfileRead(e, s, offset) ==
    /\ edit[e].at = "idle"
    /\ Exists(s)
    /\ edit' = [edit EXCEPT ![e] = [at |-> "profile", of |-> {s}, seen |-> row[s],
                                    values |-> [row[s] EXCEPT !.offset = offset]]]
    /\ UNCHANGED <<now, row, server, sweep, crashes, taken, late>>

ProfileCompute(e, s) ==
    /\ edit[e].at = "profile" /\ s \in edit[e].of
    /\ edit' = [edit EXCEPT ![e].at = "retime", ![e].values.updated_at = now,
                            ![e].values.next_run_at =
                                IF edit[e].seen.enabled THEN nextDailyRun(edit[e].values.offset, now) ELSE Never]
    /\ UNCHANGED <<now, row, server, sweep, crashes, taken, late>>

\* An update finds no row where the schedule has been deleted.
Write(e, s, updated) ==
    /\ edit' = [edit EXCEPT ![e] = [NoEdit EXCEPT !.at = "done"]]
    /\ row' = IF Exists(s) THEN [row EXCEPT ![s] = updated] ELSE row
    /\ Configured(s)
    /\ UNCHANGED <<now, server, sweep, crashes>>

ProfileWrite(e, s) ==
    /\ edit[e].at = "retime" /\ s \in edit[e].of
    /\ LET new == edit[e].values
       IN  Write(e, s, [row[s] EXCEPT !.offset = new.offset, !.next_run_at = new.next_run_at,
                                      !.updated_at = new.updated_at])

UpsertWrite(e, s) ==
    /\ edit[e].at = "write" /\ s \in edit[e].of
    /\ Write(e, s, Saved(row[s], edit[e].seen, edit[e].values))

deleteSchedule(e, s) ==
    /\ edit[e].at = "idle"
    /\ Exists(s)
    /\ row' = [row EXCEPT ![s] = [NoRow EXCEPT !.life = "deleted"]]
    /\ edit' = [edit EXCEPT ![e] = [NoEdit EXCEPT !.at = "done"]]
    /\ Configured(s)
    /\ UNCHANGED <<now, server, sweep, crashes>>

Operator ==
    \E e \in Edits, s \in Schedules :
        \/ \E offset \in Offsets, enabled \in BOOLEAN : UpsertAsk(e, s, offset, enabled)
        \/ UpsertCreate(e, s)
        \/ UpsertRead(e, s)
        \/ \E offset \in Offsets : ProfileRead(e, s, offset)
        \/ ProfileCompute(e, s)
        \/ ProfileWrite(e, s)
        \/ UpsertWrite(e, s)
        \/ deleteSchedule(e, s)

-----------------------------------------------------------------------------
(* Sweeps.                                                                 *)

Alive(w) == w \in Servers => server[w] # "down"

\* runSweep begins one sweep of a server at a time; the endpoint does not ask.
SweepStart(w) ==
    /\ Alive(w)
    /\ sweep[w].at = "idle"
    /\ sweep' = [sweep EXCEPT ![w] = [NoSweep EXCEPT !.at = "list", !.now = now]]
    /\ UNCHANGED <<now, row, server, edit, crashes, taken, late>>

\* A schedule with its time of day and zone as the sweep has read them.
Listed(s) == [schedule |-> s, offset |-> row[s].offset, armed |-> row[s].next_run_at # Never]

SweepList(w) ==
    /\ sweep[w].at = "list"
    /\ LET due == {Listed(s) : s \in {t \in Schedules : IsDue(t, sweep[w].now)}}
       IN  sweep' = [sweep EXCEPT ![w] = IF due = {} THEN NoSweep ELSE [@ EXCEPT !.at = "claim", !.due = due]]
    /\ UNCHANGED <<now, row, server, edit, crashes, taken, late>>

\* The sweep w once it is through with schedule s.
Without(w, s) ==
    LET rest == {d \in sweep[w].due : d.schedule # s}
    IN  IF rest = {} THEN NoSweep ELSE [sweep[w] EXCEPT !.at = "claim", !.due = rest, !.run = {}]

\* Mutant: the update does not ask whether the schedule is still due.
claimDueSchedule_Unasked(w, d) ==
    LET s == d.schedule
    IN  /\ sweep[w].at = "claim"
        /\ d \in sweep[w].due
        /\ IF Exists(s) /\ row[s].enabled
           THEN /\ \E offset \in {row[s].offset, d.offset} :
                    row' = [row EXCEPT ![s].offset = offset,
                                       ![s].last_run_at = sweep[w].now, ![s].updated_at = sweep[w].now,
                                       ![s].next_run_at = nextDailyRun(d.offset, sweep[w].now)]
                /\ taken' = [taken EXCEPT ![s] = @ \cup ({row[s].next_run_at} \ {Never})]
                /\ Lateness
                /\ sweep' = [sweep EXCEPT ![w].at = "run", ![w].run = {s}]
           ELSE /\ sweep' = [sweep EXCEPT ![w] = Without(w, s)]
                /\ UNCHANGED <<row, taken, late>>
        /\ UNCHANGED <<now, server, edit, crashes>>

\* One UPDATE whose condition lets a single sweep have the occurrence. It writes the
\* time zone as it was listed (not the time of day), and the next run these give; the
\* order of the schedules is by their next run, any order where they share it.
claimDueSchedule(w, d) ==
    LET s == d.schedule
    IN  /\ sweep[w].at = "claim"
        /\ d \in sweep[w].due
        /\ IF IsDue(s, sweep[w].now) /\ (d.armed <=> row[s].next_run_at # Never)
           THEN /\ \E offset \in {row[s].offset, d.offset} :
                    row' = [row EXCEPT ![s].offset = offset,
                                       ![s].last_run_at = sweep[w].now, ![s].updated_at = sweep[w].now,
                                       ![s].next_run_at = nextDailyRun(d.offset, sweep[w].now)]
                /\ taken' = [taken EXCEPT ![s] = @ \cup ({row[s].next_run_at} \ {Never})]
                /\ Lateness
                /\ sweep' = [sweep EXCEPT ![w].at = "run", ![w].run = {s}]
           ELSE /\ sweep' = [sweep EXCEPT ![w] = Without(w, s)]
                /\ UNCHANGED <<row, taken, late>>
        /\ UNCHANGED <<now, server, edit, crashes>>

\* Mutant: the sweep waits for a backup that does not answer.
SweepRun_Waits(w, s) ==
    /\ sweep[w].at = "run" /\ s \in sweep[w].run
    /\ FALSE
    /\ UNCHANGED vars

\* createAndRunJob has returned, its job succeeded or not.
SweepRun(w, s) ==
    /\ sweep[w].at = "run" /\ s \in sweep[w].run
    /\ sweep' = [sweep EXCEPT ![w] = Without(w, s)]
    /\ UNCHANGED <<now, row, server, edit, crashes, taken, late>>

\* The job could not be created: the schedule is gone, or the insert failed.
\* The error ends the sweep, and what it had claimed has no job.
SweepAbort(w, s) ==
    /\ sweep[w].at = "run" /\ s \in sweep[w].run
    /\ ~Exists(s) \/ crashes < MaxCrashes
    /\ crashes' = IF Exists(s) THEN crashes + 1 ELSE crashes
    /\ sweep' = [sweep EXCEPT ![w] = NoSweep]
    /\ UNCHANGED <<now, row, server, edit, taken, late>>

runBackupScheduleSweep(w) ==
    \/ SweepStart(w)
    \/ SweepList(w)
    \/ \E d \in sweep[w].due : claimDueSchedule(w, d)
    \/ \E s \in Schedules : SweepRun(w, s) \/ SweepAbort(w, s)

-----------------------------------------------------------------------------
(* A server's life.                                                        *)

Crash(v) ==
    /\ server[v] # "down"
    /\ crashes < MaxCrashes
    /\ crashes' = crashes + 1
    /\ server' = [server EXCEPT ![v] = "down"]
    /\ sweep' = [sweep EXCEPT ![v] = NoSweep]
    /\ UNCHANGED <<now, row, edit, taken, late>>

Restart(v) ==
    /\ server[v] = "down"
    /\ server' = [server EXCEPT ![v] = "starting"]
    /\ UNCHANGED <<now, row, sweep, edit, crashes, taken, late>>

\* The last occurrence has not been processed, and the schedule had been configured for it.
Missed(s) ==
    LET previous == previousDailyRun(row[s].offset, now)
    IN  row[s].updated_at <= previous /\ row[s].last_run_at < previous

Reconciled(s) ==
    IF ~row[s].enabled THEN Never
    ELSE IF Missed(s) THEN previousDailyRun(row[s].offset, now)
    ELSE nextDailyRun(row[s].offset, now)

\* reconcileBackupScheduleTimes: one transaction, the rows locked.
\* A row whose next run stays as it is, is not written.
reconcileBackupScheduleTimes(v) ==
    /\ server[v] = "starting"
    /\ server' = [server EXCEPT ![v] = "up"]
    /\ LET moved == {s \in Schedules : Exists(s) /\ row[s].next_run_at # Reconciled(s)}
       IN  /\ row' = [s \in Schedules |-> IF s \in moved
                        THEN [row[s] EXCEPT !.next_run_at = Reconciled(s), !.updated_at = now]
                        ELSE row[s]]
           /\ Lateness
    /\ UNCHANGED <<now, sweep, edit, crashes, taken>>

Next ==
    \/ Tick
    \/ Operator
    \/ \E w \in Sweepers : runBackupScheduleSweep(w)
    \/ \E v \in Servers : Crash(v) \/ Restart(v) \/ reconcileBackupScheduleTimes(v)

\* Servers come back and their timers fire; nobody is bound to call the endpoint or to edit.
Fairness ==
    \A v \in Servers :
        /\ WF_vars(runBackupScheduleSweep(v))
        /\ WF_vars(Restart(v))

Spec == Init /\ [][Next]_vars /\ Fairness

-----------------------------------------------------------------------------
\* Every variable has the shape the code gives it.
RowTypes == [life: {"none", "row", "deleted"}, enabled: BOOLEAN, offset: Offsets,
             next_run_at: Instants, last_run_at: Instants, updated_at: Instants]

TypeOK ==
    /\ now \in Day .. MaxTime
    /\ row \in [Schedules -> RowTypes]
    /\ server \in [Servers -> {"up", "down", "starting"}]
    /\ \A w \in Sweepers : sweep[w].now \in Instants /\ sweep[w].run \subseteq Schedules
    /\ \A e \in Edits : edit[e].values \in RowTypes /\ edit[e].seen \in RowTypes
    /\ crashes \in 0 .. MaxCrashes
    /\ taken \in [Schedules -> SUBSET Instants]
    /\ late \in [Schedules -> BOOLEAN]

Daily == INSTANCE DailyRuns WITH
    Times <- Instants,
    clock <- now,
    armed <- [s \in Schedules |-> row[s].next_run_at],
    edits <- Cardinality({e \in Edits : edit[e].at = "done"})

\* Whatever servers, sweeps and requests to the endpoint do together, claimDueSchedule
\* and reconcileBackupScheduleTimes keep the promise of a daily schedule: no occurrence
\* is claimed before it is due, out of order, or twice between two edits, and none that
\* is due is passed over for the next, but where it was due already when it was armed:
\* a second reconciliation, before a sweep has claimed what the first recovered, sees
\* a schedule configured after the missed run and gives that run up. So does a
\* reconciliation with a run that is not of the schedule's time of day: a claim that
\* listed the schedule before an edit arms it for that, and so do two edits that cross.
RunsAreDaily == Daily!Spec

\* A schedule that is due does not stay due: a sweep claims it, or somebody changes it,
\* whatever other sweeps hold it listed and whichever server has crashed.
DueIsClaimed ==
    \A s \in Schedules : IsDue(s, now) ~> ~IsDue(s, now)
=============================================================================
