--------------------------- MODULE ScheduleProofs ----------------------------
(***************************************************************************)
(* Proof that the backup schedules (BackupSchedules) keep the promise of a *)
(* daily schedule (DailyRuns), for any number of schedules, servers,       *)
(* requests and edits, whatever the length of a day: every step of theirs  *)
(* is one of DailyRuns or leaves what that sees as it is.                  *)
(***************************************************************************)
EXTENDS BackupSchedules, FiniteSetTheorems, TLAPS

-----------------------------------------------------------------------------
(* Instants a day apart.                                                   *)

LEMMA Division ==
    ASSUME NEW t \in Nat
    PROVE  t \div Day \in Nat /\ t % Day \in Offsets /\ t = Day * (t \div Day) + (t % Day)
<1>1. Day \in Nat \ {0}
  BY ConstantsAssumption
<1>2. t % Day \in 0 .. Day - 1
  BY <1>1
<1>3. t \div Day \in Nat
  BY <1>1
<1>4. t = Day * (t \div Day) + (t % Day)
  BY <1>1
<1> QED
  BY <1>2, <1>3, <1>4 DEF Offsets

LEMMA Remainder ==
    ASSUME NEW n \in Nat, NEW offset \in Offsets
    PROVE  Day * n + offset \in Nat /\ (Day * n + offset) % Day = offset
<1>1. Day \in Nat \ {0} /\ offset \in 0 .. Day - 1
  BY ConstantsAssumption DEF Offsets
<1>2. Day * n \in Nat
  BY <1>1
<1> QED
  BY <1>1, <1>2

LEMMA Apart ==
    ASSUME NEW early \in Nat, NEW after \in Nat, early % Day = after % Day, early < after
    PROVE  early + Day <= after
<1>1. Day \in Nat \ {0}
  BY ConstantsAssumption
<1>2. PICK e \in Nat, a \in Nat, r \in Nat : early = Day * e + r /\ after = Day * a + r
  BY Division DEF Offsets
<1>3. e < a
  <2> SUFFICES ASSUME a <= e
               PROVE  FALSE
    BY <1>2
  <2>1. PICK n \in Nat : e = a + n
    BY <1>2
  <2>2. Day * e = Day * a + Day * n /\ Day * n \in Nat /\ Day * a \in Nat
    BY <1>1, <1>2, <2>1
  <2> QED
    BY <1>1, <1>2, <2>2
<1>4. PICK n \in Nat : a = (e + 1) + n
  BY <1>2, <1>3
<1>5. Day * a = Day * e + Day + Day * n /\ Day * n \in Nat /\ Day * e \in Nat
  BY <1>1, <1>2, <1>4
<1> QED
  BY <1>1, <1>2, <1>5

\* nextDailyRun, backupSchedule.js: the next occurrence is of the time of day, and within a day.
LEMMA NextRun ==
    ASSUME NEW offset \in Offsets, NEW from \in Nat
    PROVE  /\ nextDailyRun(offset, from) \in Nat
           /\ from < nextDailyRun(offset, from) /\ nextDailyRun(offset, from) <= from + Day
           /\ nextDailyRun(offset, from) % Day = offset
<1>1. Day \in Nat \ {0} /\ offset \in 0 .. Day - 1 /\ offset \in Nat
  BY ConstantsAssumption DEF Offsets
<1>2. PICK n \in Nat, r \in 0 .. Day - 1 : from = Day * n + r
  BY Division DEF Offsets
<1>3. \E o \in from + 1 .. from + Day : o % Day = offset
  <2>1. Day * n \in Nat /\ Day * (n + 1) = Day * n + Day
    BY <1>1
  <2>2. CASE r < offset
    <3>1. Day * n + offset \in from + 1 .. from + Day /\ (Day * n + offset) % Day = offset
      BY <1>1, <1>2, <2>1, <2>2, Remainder
    <3> QED
      BY <3>1
  <2>3. CASE ~(r < offset)
    <3>1. Day * (n + 1) + offset \in from + 1 .. from + Day
      BY <1>1, <1>2, <2>1, <2>3
    <3>2. (Day * (n + 1) + offset) % Day = offset
      BY Remainder
    <3> QED
      BY <3>1, <3>2
  <2> QED
    BY <2>2, <2>3
<1>4. nextDailyRun(offset, from) \in from + 1 .. from + Day /\ nextDailyRun(offset, from) % Day = offset
  BY <1>3 DEF nextDailyRun
<1> QED
  BY <1>1, <1>4

\* previousDailyRun: the last occurrence, which may be now.
LEMMA PreviousRun ==
    ASSUME NEW offset \in Offsets, NEW from \in Nat, from >= Day
    PROVE  /\ previousDailyRun(offset, from) \in Nat \ {0}
           /\ previousDailyRun(offset, from) <= from
           /\ previousDailyRun(offset, from) % Day = offset
           /\ \A t \in Nat : t <= from /\ t % Day = offset => t <= previousDailyRun(offset, from)
<1>1. Day \in Nat \ {0} /\ offset \in 0 .. Day - 1 /\ offset \in Nat
  BY ConstantsAssumption DEF Offsets
<1>2. PICK before \in Nat : from = before + Day
  BY <1>1
<1>3. \E o \in (from + 1) - Day .. from : o % Day = offset
  <2>1. /\ nextDailyRun(offset, before) \in Nat /\ nextDailyRun(offset, before) % Day = offset
        /\ before < nextDailyRun(offset, before) /\ nextDailyRun(offset, before) <= from
    BY <1>2, NextRun
  <2> QED
    BY <1>1, <1>2, <2>1
<1>4. /\ previousDailyRun(offset, from) \in (from + 1) - Day .. from
      /\ previousDailyRun(offset, from) % Day = offset
  BY <1>3 DEF previousDailyRun
<1>5. previousDailyRun(offset, from) \in Nat \ {0} /\ from < previousDailyRun(offset, from) + Day
  BY <1>1, <1>2, <1>4
<1>6. ASSUME NEW t \in Nat, t <= from, t % Day = offset
      PROVE  t <= previousDailyRun(offset, from)
  BY <1>1, <1>4, <1>5, <1>6, Apart
<1> QED
  BY <1>4, <1>5, <1>6

-----------------------------------------------------------------------------
(* The inductive invariant.                                                *)

Editing ==
    [at : {"idle", "upsert", "write", "profile", "retime", "done"}, of : SUBSET Schedules,
     values : RowTypes, seen : RowTypes]
Listing == [schedule : Schedules, offset : Offsets, armed : BOOLEAN]
Sweeping ==
    [at : {"idle", "list", "claim", "run"}, now : Nat, due : SUBSET Listing, run : SUBSET Schedules]

ScheduleTypes ==
    /\ now \in Nat /\ Day <= now /\ now <= MaxTime
    /\ row \in [Schedules -> RowTypes]
    /\ edit \in [Edits -> Editing]
    /\ sweep \in [Sweepers -> Sweeping]
    /\ taken \in [Schedules -> SUBSET Nat]
    /\ late \in [Schedules -> BOOLEAN]

\* Nothing is dated later than now, and what was taken was taken no later than the last run,
\* which is before the next.
TakenBefore ==
    /\ \A w \in Sweepers : sweep[w].now <= now
    /\ \A s \in Schedules :
          /\ row[s].last_run_at <= now /\ row[s].updated_at <= now
          /\ taken[s] # {} => /\ row[s].enabled /\ row[s].last_run_at < row[s].next_run_at
                              /\ \A t \in taken[s] : t <= row[s].last_run_at

\* A schedule armed in time is armed for its time of day, after what is recorded of it: a
\* reconciliation finds that run missed once it is over.
ArmedInTime ==
    \A s \in Schedules : ~late[s] /\ row[s].next_run_at # Never =>
        /\ row[s].next_run_at % Day = row[s].offset
        /\ row[s].updated_at < row[s].next_run_at
        /\ row[s].last_run_at < row[s].next_run_at

\* An edit is of one schedule. What it has computed; and where it is going to leave the next
\* run as it read it, the next run is after the time it will write for the edit.
Computed(e) ==
    /\ \A s, t \in edit[e].of : s = t
    /\ edit[e].at \in {"upsert", "write", "retime"} =>
          /\ edit[e].values.updated_at <= now
          /\ edit[e].values.next_run_at # Never =>
                /\ edit[e].values.updated_at < edit[e].values.next_run_at
                /\ edit[e].values.next_run_at % Day = edit[e].values.offset
    /\ edit[e].at = "upsert" => edit[e].values.last_run_at = Never
    /\ edit[e].at = "write" =>
          /\ edit[e].values.last_run_at = edit[e].seen.last_run_at
          /\ edit[e].values.next_run_at = edit[e].seen.next_run_at =>
                \A s \in edit[e].of : ~late[s] /\ row[s].next_run_at # Never =>
                    edit[e].values.updated_at < row[s].next_run_at

\* A schedule that is armed for its time of day, which is that of the start of a day.
AsConfigured(r) == r.enabled /\ r.offset = 0 /\ r.next_run_at # Never /\ r.next_run_at % Day = 0

\* Until an edit is done, that is all there is.
Untouched ==
    (\A e \in Edits : edit[e].at # "done") =>
        /\ \A s \in Schedules : Exists(s) => AsConfigured(row[s])
        /\ \A w \in Sweepers : \A d \in sweep[w].due : d.offset = 0
        /\ \A e \in Edits : edit[e].at = "write" => AsConfigured(edit[e].seen)

ScheduleFacts ==
    ScheduleTypes /\ TakenBefore /\ ArmedInTime /\ (\A e \in Edits : Computed(e)) /\ Untouched

-----------------------------------------------------------------------------
(* Steps that leave the schedules as they are.                             *)

\* What DailyRuns sees of the schedules.
Shown ==
    <<now, [s \in Schedules |-> row[s].next_run_at], late, taken,
      Cardinality({e \in Edits : edit[e].at = "done"})>>

LEMMA RowFields ==
    ASSUME NEW r \in RowTypes
    PROVE  /\ r.enabled \in BOOLEAN /\ r.offset \in Offsets
           /\ r.next_run_at \in Instants /\ r.next_run_at \in Nat
           /\ r.last_run_at \in Instants /\ r.last_run_at \in Nat
           /\ r.updated_at \in Instants /\ r.updated_at \in Nat
BY ConstantsAssumption DEF RowTypes, Instants

LEMMA RowFacts ==
    ASSUME NEW life \in {"none", "row", "deleted"}, NEW enabled \in BOOLEAN, NEW offset \in Offsets,
           NEW next \in Instants, NEW last \in Instants, NEW updated \in Instants
    PROVE  /\ Row(life, enabled, offset, next, last, updated) \in RowTypes
           /\ Row(life, enabled, offset, next, last, updated).life = life
           /\ Row(life, enabled, offset, next, last, updated).enabled = enabled
           /\ Row(life, enabled, offset, next, last, updated).offset = offset
           /\ Row(life, enabled, offset, next, last, updated).next_run_at = next
           /\ Row(life, enabled, offset, next, last, updated).last_run_at = last
           /\ Row(life, enabled, offset, next, last, updated).updated_at = updated
BY DEF Row, RowTypes

LEMMA Nothing ==
    /\ 0 \in Offsets /\ Never \in Instants
    /\ NoRow \in RowTypes /\ NoRow.next_run_at = Never /\ NoRow.last_run_at = Never
    /\ NoRow.updated_at = 0 /\ NoRow.offset = 0 /\ NoRow.life = "none" /\ NoRow.enabled = FALSE
<1>1. 0 \in Offsets /\ Never \in Instants /\ 0 \in Instants
  BY ConstantsAssumption DEF Offsets, Instants, Never
<1> QED
  BY <1>1 DEF NoRow, Row, RowTypes, Never

\* Steps of a sweep that claim nothing.
LEMMA QuietSweep ==
    ASSUME ScheduleFacts, NEW w \in Sweepers, NEW new \in Sweeping, new.now <= now,
           \A d \in new.due :
              d \in sweep[w].due \/ \E s \in Schedules : Exists(s) /\ d.offset = row[s].offset,
           sweep' = [sweep EXCEPT ![w] = new],
           UNCHANGED <<now, row, edit, taken, late>>
    PROVE  ScheduleFacts' /\ UNCHANGED Shown
<1>1. /\ sweep' \in [Sweepers -> Sweeping] /\ sweep'[w] = new
      /\ \A v \in Sweepers \ {w} : sweep'[v] = sweep[v]
  BY DEF ScheduleFacts, ScheduleTypes
<1>2. ScheduleTypes'
  BY <1>1 DEF ScheduleFacts, ScheduleTypes
<1>3. TakenBefore'
  BY <1>1 DEF ScheduleFacts, TakenBefore
<1>4. ArmedInTime'
  BY DEF ScheduleFacts, ArmedInTime
<1>5. \A e \in Edits : Computed(e)'
  BY DEF ScheduleFacts, Computed
<1>6. Untouched'
  <2> SUFFICES ASSUME \A e \in Edits : edit[e].at # "done"
               PROVE  \A v \in Sweepers : \A d \in sweep'[v].due : d.offset = 0
    BY DEF ScheduleFacts, Untouched, Exists, AsConfigured
  <2>1. /\ \A s \in Schedules : Exists(s) => row[s].offset = 0
        /\ \A v \in Sweepers : \A d \in sweep[v].due : d.offset = 0
    BY DEF ScheduleFacts, Untouched, AsConfigured
  <2> QED
    BY <1>1, <2>1
<1> QED
  BY <1>2, <1>3, <1>4, <1>5, <1>6 DEF ScheduleFacts, Shown

\* Steps of an edit that write nothing.
LEMMA QuietEdit ==
    ASSUME ScheduleFacts, NEW e \in Edits, NEW new \in Editing, edit[e].at # "done", new.at # "done",
           new.at = "write" => AsConfigured(new.seen) \/ \E f \in Edits : edit[f].at = "done",
           edit' = [edit EXCEPT ![e] = new],
           Computed(e)',
           UNCHANGED <<now, row, sweep, taken, late>>
    PROVE  ScheduleFacts' /\ UNCHANGED Shown
<1>1. /\ edit' \in [Edits -> Editing] /\ edit'[e] = new
      /\ \A f \in Edits \ {e} : edit'[f] = edit[f]
  BY DEF ScheduleFacts, ScheduleTypes
<1>2. ScheduleTypes'
  BY <1>1 DEF ScheduleFacts, ScheduleTypes
<1>3. TakenBefore'
  BY DEF ScheduleFacts, TakenBefore
<1>4. ArmedInTime'
  BY DEF ScheduleFacts, ArmedInTime
<1>5. \A f \in Edits : Computed(f)'
  <2> SUFFICES ASSUME NEW f \in Edits \ {e}
               PROVE  Computed(f)'
    OBVIOUS
  <2>1. Computed(f)
    BY DEF ScheduleFacts
  <2> QED
    BY <1>1, <2>1 DEF Computed
<1>6. \A f \in Edits : edit'[f].at = "done" <=> edit[f].at = "done"
  BY <1>1
<1>7. Untouched'
  BY <1>1, <1>6 DEF ScheduleFacts, Untouched, Exists, AsConfigured
<1>8. {f \in Edits : edit[f].at = "done"}' = {f \in Edits : edit[f].at = "done"}
  BY <1>6
<1> QED
  BY <1>2, <1>3, <1>4, <1>5, <1>7, <1>8 DEF ScheduleFacts, Shown

LEMMA TickQuiet ==
    ASSUME ScheduleFacts, Tick
    PROVE  ScheduleFacts' /\ Daily!Tick
<1>1. /\ now' \in Nat /\ now' = now + 1 /\ now' <= MaxTime /\ now' \in Instants
      /\ now \in Nat
  BY ConstantsAssumption DEF ScheduleFacts, ScheduleTypes, Tick, Instants
<1>2. ScheduleTypes'
  BY <1>1, ConstantsAssumption DEF ScheduleFacts, ScheduleTypes, Tick
<1>3. TakenBefore'
  <2>1. \A w \in Sweepers : sweep[w].now \in Nat
    BY DEF ScheduleFacts, ScheduleTypes, Sweeping
  <2>2. \A s \in Schedules : row[s].last_run_at \in Nat /\ row[s].updated_at \in Nat
    BY RowFields DEF ScheduleFacts, ScheduleTypes
  <2> QED
    BY <1>1, <2>1, <2>2 DEF ScheduleFacts, TakenBefore, Tick
<1>4. ArmedInTime'
  BY DEF ScheduleFacts, ArmedInTime, Tick
<1>5. \A e \in Edits : Computed(e)'
  <2> SUFFICES ASSUME NEW e \in Edits
               PROVE  Computed(e)'
    OBVIOUS
  <2>1. Computed(e) /\ edit[e].values.updated_at \in Nat
    BY RowFields DEF ScheduleFacts, ScheduleTypes, Editing
  <2> QED
    BY <1>1, <2>1 DEF Computed, Tick
<1>6. Untouched'
  BY DEF ScheduleFacts, Untouched, Exists, AsConfigured, Tick
<1>7. Daily!Tick
  BY <1>1 DEF Daily!Tick, Tick
<1> QED
  BY <1>2, <1>3, <1>4, <1>5, <1>6, <1>7 DEF ScheduleFacts

LEMMA NothingMoves ==
    ASSUME ScheduleFacts, UNCHANGED <<now, row, edit, taken, late>>,
           NEW w \in Sweepers, sweep' = [sweep EXCEPT ![w] = NoSweep]
    PROVE  ScheduleFacts' /\ UNCHANGED Shown
<1>1. NoSweep \in Sweeping /\ NoSweep.now = 0 /\ NoSweep.due = {}
  BY DEF NoSweep, Sweeping
<1>2. 0 <= now
  BY DEF ScheduleFacts, ScheduleTypes
<1>3. \A d \in NoSweep.due :
        d \in sweep[w].due \/ \E s \in Schedules : Exists(s) /\ d.offset = row[s].offset
  BY <1>1
<1> QED
  BY <1>1, <1>2, <1>3, QuietSweep

LEMMA WithoutFacts ==
    ASSUME ScheduleFacts, NEW w \in Sweepers, NEW s \in Schedules
    PROVE  /\ Without(w, s) \in Sweeping /\ Without(w, s).now <= now
           /\ Without(w, s).due \subseteq sweep[w].due
<1>1. sweep[w] \in Sweeping /\ sweep[w].now <= now /\ now \in Nat
  BY DEF ScheduleFacts, ScheduleTypes, TakenBefore
<1>2. NoSweep \in Sweeping /\ NoSweep.now = 0 /\ NoSweep.due = {}
  BY DEF NoSweep, Sweeping
<1> DEFINE rest == {d \in sweep[w].due : d.schedule # s}
           next == [sweep[w] EXCEPT !.at = "claim", !.due = rest, !.run = {}]
<1>3. rest \in SUBSET Listing
  BY <1>1 DEF Sweeping
<1>4. next \in Sweeping /\ next.now = sweep[w].now /\ next.due = rest
  BY <1>1, <1>3 DEF Sweeping
<1> QED
  BY <1>1, <1>2, <1>4 DEF Without

LEMMA SweepQuiet ==
    ASSUME ScheduleFacts, NEW w \in Sweepers,
           (SweepStart(w) \/ SweepList(w) \/ \E s \in Schedules : SweepRun(w, s) \/ SweepAbort(w, s))
    PROVE  ScheduleFacts' /\ UNCHANGED Shown
<1>1. sweep[w] \in Sweeping /\ sweep[w].now <= now /\ now \in Nat
  BY DEF ScheduleFacts, ScheduleTypes, TakenBefore
<1>2. ASSUME SweepStart(w)
      PROVE  ScheduleFacts' /\ UNCHANGED Shown
  <2>1. PICK new \in Sweeping : new = [NoSweep EXCEPT !.at = "list", !.now = now]
    BY <1>1 DEF NoSweep, Sweeping
  <2>2. new.now = now /\ new.due = {}
    BY <2>1 DEF NoSweep
  <2>3. sweep' = [sweep EXCEPT ![w] = new] /\ UNCHANGED <<now, row, edit, taken, late>>
    BY <1>2, <2>1 DEF SweepStart
  <2>4. new.now <= now
    BY <1>1, <2>2
  <2>5. \A d \in new.due :
          d \in sweep[w].due \/ \E s \in Schedules : Exists(s) /\ d.offset = row[s].offset
    BY <2>2
  <2> QED
    BY <2>3, <2>4, <2>5, QuietSweep
<1>3. ASSUME SweepList(w)
      PROVE  ScheduleFacts' /\ UNCHANGED Shown
  <2> DEFINE due == {Listed(s) : s \in {t \in Schedules : IsDue(t, sweep[w].now)}}
  <2>1. \A s \in Schedules : Listed(s) \in Listing /\ Listed(s).offset = row[s].offset
    BY RowFields DEF Listed, Listing, ScheduleFacts, ScheduleTypes
  <2>2. due \in SUBSET Listing
    BY <2>1
  <2>3. \A d \in due : \E s \in Schedules : Exists(s) /\ d.offset = row[s].offset
    BY <2>1 DEF IsDue
  <2>4. UNCHANGED <<now, row, edit, taken, late>>
    BY <1>3 DEF SweepList
  <2>5. CASE due = {}
    <3>1. sweep' = [sweep EXCEPT ![w] = NoSweep]
      BY <1>3, <2>5 DEF SweepList
    <3> QED
      BY <2>4, <3>1, NothingMoves
  <2>6. CASE due # {}
    <3>1. PICK new \in Sweeping : new = [sweep[w] EXCEPT !.at = "claim", !.due = due]
      BY <1>1, <2>2 DEF Sweeping
    <3>2. new.now = sweep[w].now /\ new.due = due
      BY <1>1, <3>1 DEF Sweeping
    <3>3. sweep' = [sweep EXCEPT ![w] = new]
      BY <1>3, <2>6, <3>1 DEF SweepList
    <3> QED
      BY <1>1, <2>3, <2>4, <3>2, <3>3, QuietSweep
  <2> QED
    BY <2>5, <2>6
<1>4. ASSUME NEW s \in Schedules, SweepRun(w, s)
      PROVE  ScheduleFacts' /\ UNCHANGED Shown
  <2>1. PICK new \in Sweeping : new = Without(w, s)
    BY WithoutFacts
  <2>2. new.now <= now /\ new.due \subseteq sweep[w].due
    BY <2>1, WithoutFacts
  <2>3. sweep' = [sweep EXCEPT ![w] = new] /\ UNCHANGED <<now, row, edit, taken, late>>
    BY <1>4, <2>1 DEF SweepRun
  <2> QED
    BY <2>2, <2>3, QuietSweep
<1>5. ASSUME NEW s \in Schedules, SweepAbort(w, s)
      PROVE  ScheduleFacts' /\ UNCHANGED Shown
  BY <1>5, NothingMoves DEF SweepAbort
<1> QED
  BY <1>2, <1>3, <1>4, <1>5

LEMMA ServerQuiet ==
    ASSUME ScheduleFacts, NEW v \in Servers, (Crash(v) \/ Restart(v))
    PROVE  ScheduleFacts' /\ UNCHANGED Shown
<1>1. ASSUME Crash(v)
      PROVE  ScheduleFacts' /\ UNCHANGED Shown
  <2>1. v \in Sweepers
    BY DEF Sweepers
  <2> QED
    BY <1>1, <2>1, NothingMoves DEF Crash
<1>2. ASSUME Restart(v)
      PROVE  ScheduleFacts' /\ UNCHANGED Shown
  <2>1. UNCHANGED <<now, row, sweep, edit, taken, late>>
    BY <1>2 DEF Restart
  <2> QED
    BY <2>1 DEF ScheduleFacts, ScheduleTypes, TakenBefore, ArmedInTime, Computed, Untouched, Exists,
                AsConfigured, Shown
<1> QED
  BY <1>1, <1>2

\* nextDailyRun is an instant the rows can hold.
LEMMA NextInstant ==
    ASSUME ScheduleTypes, NEW offset \in Offsets, NEW from \in Nat, from <= now
    PROVE  /\ nextDailyRun(offset, from) \in Instants /\ nextDailyRun(offset, from) # Never
           /\ from < nextDailyRun(offset, from) /\ nextDailyRun(offset, from) % Day = offset
<1>1. now \in Nat /\ now <= MaxTime /\ Day \in Nat /\ MaxTime \in Nat
  BY ConstantsAssumption DEF ScheduleTypes
<1>2. PICK n \in Nat : n = nextDailyRun(offset, from)
  BY NextRun
<1>3. from < n /\ n <= from + Day /\ n % Day = offset
  BY <1>2, NextRun
<1>4. n \in 0 .. MaxTime + Day /\ n # 0
  BY <1>1, <1>3
<1> QED
  BY <1>2, <1>3, <1>4 DEF Instants, Never

LEMMA EditQuiet ==
    ASSUME ScheduleFacts, NEW e \in Edits, NEW s \in Schedules,
           (\/ \E offset \in Offsets, enabled \in BOOLEAN : UpsertAsk(e, s, offset, enabled)
            \/ UpsertRead(e, s)
            \/ \E offset \in Offsets : ProfileRead(e, s, offset)
            \/ ProfileCompute(e, s))
    PROVE  ScheduleFacts' /\ UNCHANGED Shown
<1>1. /\ edit \in [Edits -> Editing] /\ edit[e] \in Editing /\ row[s] \in RowTypes
      /\ now \in Nat /\ now <= MaxTime /\ now \in Instants /\ row[s].updated_at <= now
      /\ Computed(e) /\ edit[e].values \in RowTypes /\ edit[e].seen \in RowTypes
      /\ \A offset \in Offsets :
            /\ nextDailyRun(offset, now) \in Instants /\ now < nextDailyRun(offset, now)
            /\ nextDailyRun(offset, now) % Day = offset
  <2>1. /\ edit \in [Edits -> Editing] /\ edit[e] \in Editing /\ row[s] \in RowTypes
        /\ now \in Nat /\ now <= MaxTime /\ now \in Instants /\ now <= now /\ row[s].updated_at <= now
        /\ Computed(e) /\ edit[e].values \in RowTypes /\ edit[e].seen \in RowTypes
    BY ConstantsAssumption DEF ScheduleFacts, ScheduleTypes, TakenBefore, Editing, Instants
  <2>2. \A offset \in Offsets :
            /\ nextDailyRun(offset, now) \in Instants /\ now < nextDailyRun(offset, now)
            /\ nextDailyRun(offset, now) % Day = offset
    BY <2>1, NextInstant DEF ScheduleFacts
  <2> QED
    BY <2>1, <2>2
<1>2. ASSUME NEW offset \in Offsets, NEW enabled \in BOOLEAN, UpsertAsk(e, s, offset, enabled)
      PROVE  ScheduleFacts' /\ UNCHANGED Shown
  <2>1. PICK next \in Instants : next = IF enabled THEN nextDailyRun(offset, now) ELSE Never
    BY <1>1, Nothing
  <2>2. next # Never => now < next /\ next % Day = offset
    BY <1>1, <2>1
  <2>3. PICK values \in RowTypes : values = Row("row", enabled, offset, next, Never, now)
    BY <1>1, RowFacts, Nothing
  <2>4. /\ values.offset = offset /\ values.next_run_at = next /\ values.last_run_at = Never
        /\ values.updated_at = now
    BY <2>3 DEF Row
  <2>5. PICK new \in Editing : new = [at |-> "upsert", of |-> {s}, values |-> values, seen |-> NoRow]
    BY Nothing DEF Editing
  <2>6. new.at = "upsert" /\ new.values = values /\ new.of = {s}
    BY <2>5
  <2>7. edit' = [edit EXCEPT ![e] = new] /\ UNCHANGED <<now, row, sweep, taken, late>>
    BY <1>2, <2>1, <2>3, <2>5 DEF UpsertAsk
  <2>8. edit'[e] = new /\ now' = now
    BY <1>1, <2>7
  <2>9. Computed(e)'
    BY <1>1, <2>2, <2>4, <2>6, <2>8 DEF Computed
  <2>10. edit[e].at # "done"
    BY <1>2 DEF UpsertAsk
  <2> QED
    BY <2>6, <2>7, <2>9, <2>10, QuietEdit
<1>3. ASSUME UpsertRead(e, s)
      PROVE  ScheduleFacts' /\ UNCHANGED Shown
  <2>1. edit[e].at = "upsert" /\ s \in edit[e].of /\ Exists(s)
    BY <1>3 DEF UpsertRead
  <2>2. PICK values \in RowTypes : values = [edit[e].values EXCEPT !.last_run_at = row[s].last_run_at]
    BY <1>1, RowFields DEF RowTypes
  <2>3. /\ values.offset = edit[e].values.offset /\ values.next_run_at = edit[e].values.next_run_at
        /\ values.updated_at = edit[e].values.updated_at /\ values.last_run_at = row[s].last_run_at
    BY <1>1, <2>2 DEF RowTypes
  <2>4. PICK new \in Editing : new = [edit[e] EXCEPT !.at = "write", !.seen = row[s], !.values = values]
    BY <1>1 DEF Editing
  <2>5. new.at = "write" /\ new.values = values /\ new.seen = row[s] /\ new.of = edit[e].of
    BY <1>1, <2>4 DEF Editing
  <2>7. edit' = [edit EXCEPT ![e] = new] /\ UNCHANGED <<now, row, sweep, taken, late>>
    BY <1>1, <1>3, <2>2, <2>4 DEF UpsertRead, Editing
  <2>8. edit'[e] = new /\ now' = now /\ row' = row /\ late' = late
    BY <1>1, <2>7
  <2>9. Computed(e)'
    <3>1. values.updated_at <= now
      BY <1>1, <2>1, <2>3 DEF Computed
    <3>2. values.next_run_at # Never => /\ values.updated_at < values.next_run_at
                                       /\ values.next_run_at % Day = values.offset
      BY <1>1, <2>1, <2>3 DEF Computed
    <3>3. values.next_run_at = row[s].next_run_at /\ row[s].next_run_at # Never
            => values.updated_at < row[s].next_run_at
      BY <3>2
    <3>4. \A t \in new.of : t = s
      BY <1>1, <2>1, <2>5 DEF Computed
    <3> QED
      BY <1>1, <2>1, <2>3, <2>5, <2>8, <3>1, <3>2, <3>3, <3>4 DEF Computed
  <2>10. AsConfigured(new.seen) \/ \E f \in Edits : edit[f].at = "done"
    BY <2>1, <2>5 DEF ScheduleFacts, Untouched
  <2> QED
    BY <2>1, <2>5, <2>7, <2>9, <2>10, QuietEdit
<1>4. ASSUME NEW offset \in Offsets, ProfileRead(e, s, offset)
      PROVE  ScheduleFacts' /\ UNCHANGED Shown
  <2>1. PICK values \in RowTypes : values = [row[s] EXCEPT !.offset = offset]
    BY <1>1 DEF RowTypes
  <2>2. PICK new \in Editing : new = [at |-> "profile", of |-> {s}, seen |-> row[s], values |-> values]
    BY <1>1 DEF Editing
  <2>3. new.at = "profile" /\ new.of = {s}
    BY <2>2
  <2>4. /\ edit' = [edit EXCEPT ![e] = new] /\ UNCHANGED <<now, row, sweep, taken, late>>
        /\ edit[e].at # "done"
    BY <1>4, <2>1, <2>2 DEF ProfileRead
  <2>5. edit'[e] = new
    BY <1>1, <2>4
  <2>6. Computed(e)'
    BY <2>3, <2>5 DEF Computed
  <2> QED
    BY <2>3, <2>4, <2>6, QuietEdit
<1>5. ASSUME ProfileCompute(e, s)
      PROVE  ScheduleFacts' /\ UNCHANGED Shown
  <2>1. edit[e].values.offset \in Offsets /\ edit[e].seen.enabled \in BOOLEAN
    BY <1>1, RowFields
  <2>2. PICK next \in Instants :
            next = IF edit[e].seen.enabled THEN nextDailyRun(edit[e].values.offset, now) ELSE Never
    BY <1>1, <2>1, Nothing
  <2>3. next # Never => now < next /\ next % Day = edit[e].values.offset
    BY <1>1, <2>1, <2>2
  <2>4. PICK values \in RowTypes : values = [edit[e].values EXCEPT !.updated_at = now, !.next_run_at = next]
    BY <1>1 DEF RowTypes
  <2>5. /\ values.offset = edit[e].values.offset /\ values.next_run_at = next /\ values.updated_at = now
    BY <1>1, <2>4 DEF RowTypes
  <2>6. PICK new \in Editing : new = [edit[e] EXCEPT !.at = "retime", !.values = values]
    BY <1>1 DEF Editing
  <2>7. new.at = "retime" /\ new.values = values /\ new.of = edit[e].of
    BY <1>1, <2>6 DEF Editing
  <2>8. edit' = [edit EXCEPT ![e] = new] /\ UNCHANGED <<now, row, sweep, taken, late>>
    <3>1. /\ edit' = [edit EXCEPT ![e].at = "retime", ![e].values.updated_at = now,
                                 ![e].values.next_run_at = next]
          /\ UNCHANGED <<now, row, sweep, taken, late>>
      BY <1>5, <2>2 DEF ProfileCompute
    <3> QED
      BY <1>1, <2>4, <2>6, <3>1 DEF Editing
  <2>9. edit'[e] = new /\ now' = now
    BY <1>1, <2>8
  <2>10. Computed(e)'
    BY <1>1, <2>3, <2>5, <2>7, <2>9 DEF Computed
  <2>11. edit[e].at # "done"
    BY <1>5 DEF ProfileCompute
  <2> QED
    BY <2>7, <2>8, <2>10, <2>11, QuietEdit
<1> QED
  BY <1>2, <1>3, <1>4, <1>5

-----------------------------------------------------------------------------
(* Steps that arm a schedule.                                              *)

\* Whether a step leaves what schedule s waits for as it is.
Kept(s) == row'[s].next_run_at = row[s].next_run_at /\ row'[s].offset = row[s].offset

LEMMA Rearmed ==
    ASSUME ScheduleFacts, Lateness
    PROVE  /\ late' \in [Schedules -> BOOLEAN]
           /\ \A s \in Schedules :
                /\ Kept(s) => late'[s] = late[s]
                /\ ~Kept(s) => late'[s] = (\/ row'[s].next_run_at <= now
                                          \/ row'[s].next_run_at % Day # row'[s].offset)
<1>1. \A s \in Schedules : late[s] \in BOOLEAN
  BY DEF ScheduleFacts, ScheduleTypes
<1>2. \A s \in Schedules :
        (IF Kept(s) THEN late[s]
         ELSE row'[s].next_run_at <= now \/ row'[s].next_run_at % Day # row'[s].offset) \in BOOLEAN
  BY <1>1
<1>3. late' = [s \in Schedules |-> IF Kept(s) THEN late[s]
            ELSE row'[s].next_run_at <= now \/ row'[s].next_run_at % Day # row'[s].offset]
  BY DEF Lateness, Kept
<1>4. late' \in [Schedules -> BOOLEAN]
  BY <1>2, <1>3
<1>5. ASSUME NEW s \in Schedules
      PROVE  late'[s] = IF Kept(s) THEN late[s]
                        ELSE row'[s].next_run_at <= now \/ row'[s].next_run_at % Day # row'[s].offset
  BY <1>3
<1>6. ASSUME NEW s \in Schedules
      PROVE  /\ Kept(s) => late'[s] = late[s]
             /\ ~Kept(s) => late'[s] = (\/ row'[s].next_run_at <= now
                                       \/ row'[s].next_run_at % Day # row'[s].offset)
  BY <1>5, Zenon
<1> QED
  BY <1>4, <1>6

LEMMA ArmedAnew ==
    ASSUME ScheduleFacts, Lateness, UNCHANGED now, row' \in [Schedules -> RowTypes],
           \A s \in Schedules : row'[s].updated_at <= now /\ row'[s].last_run_at <= now,
           \A s \in Schedules : Kept(s) /\ ~late[s] /\ row[s].next_run_at # Never =>
              row'[s].updated_at < row[s].next_run_at /\ row'[s].last_run_at < row[s].next_run_at
    PROVE  ArmedInTime' /\ \A e \in Edits : edit'[e] = edit[e] => Computed(e)'
<1>1. \A s \in Schedules :
        /\ row[s].next_run_at \in Nat /\ row[s].updated_at \in Nat /\ row[s].last_run_at \in Nat
        /\ row'[s].next_run_at \in Nat /\ row'[s].updated_at \in Nat /\ row'[s].last_run_at \in Nat
  BY RowFields DEF ScheduleFacts, ScheduleTypes
<1>2. now \in Nat
  BY DEF ScheduleFacts, ScheduleTypes
<1>3. \A s \in Schedules : ~Kept(s) /\ ~late'[s] =>
        now < row'[s].next_run_at /\ row'[s].next_run_at % Day = row'[s].offset
  <2> SUFFICES ASSUME NEW s \in Schedules, ~Kept(s), ~late'[s]
               PROVE  now < row'[s].next_run_at /\ row'[s].next_run_at % Day = row'[s].offset
    OBVIOUS
  <2>1. ~(row'[s].next_run_at <= now) /\ row'[s].next_run_at % Day = row'[s].offset
    BY Rearmed, Zenon
  <2> QED
    BY <1>1, <1>2, <2>1
<1>4. \A s \in Schedules : Kept(s) /\ ~late'[s] => ~late[s]
  BY Rearmed
<1>5. ArmedInTime'
  <2> SUFFICES ASSUME NEW s \in Schedules, ~late'[s], row'[s].next_run_at # Never
               PROVE  /\ row'[s].next_run_at % Day = row'[s].offset
                      /\ row'[s].updated_at < row'[s].next_run_at
                      /\ row'[s].last_run_at < row'[s].next_run_at
    BY DEF ArmedInTime
  <2>1. CASE Kept(s)
    <3>1. /\ ~late[s] /\ row'[s].next_run_at = row[s].next_run_at /\ row'[s].offset = row[s].offset
      BY <1>4, <2>1 DEF Kept
    <3> QED
      BY <2>1, <3>1 DEF ScheduleFacts, ArmedInTime
  <2>2. CASE ~Kept(s)
    BY <1>1, <1>2, <1>3, <2>2
  <2> QED
    BY <2>1, <2>2
<1>6. ASSUME NEW e \in Edits, edit'[e] = edit[e]
      PROVE  Computed(e)'
  <2>1. Computed(e) /\ edit[e].values.updated_at \in Nat /\ edit[e].of \subseteq Schedules
    BY RowFields DEF ScheduleFacts, ScheduleTypes, Editing
  <2>2. ASSUME edit[e].at = "write", edit[e].values.next_run_at = edit[e].seen.next_run_at,
               NEW s \in edit[e].of, ~late'[s], row'[s].next_run_at # Never
        PROVE  edit[e].values.updated_at < row'[s].next_run_at
    <3>1. CASE Kept(s)
      <4>1. ~late[s] /\ row'[s].next_run_at = row[s].next_run_at
        BY <1>4, <2>1, <2>2, <3>1 DEF Kept
      <4> QED
        BY <2>1, <2>2, <4>1 DEF Computed
    <3>2. CASE ~Kept(s)
      <4>1. edit[e].values.updated_at <= now
        BY <2>1, <2>2 DEF Computed
      <4> QED
        BY <1>1, <1>2, <1>3, <2>1, <2>2, <3>2, <4>1
    <3> QED
      BY <3>1, <3>2
  <2> QED
    BY <1>6, <2>1, <2>2 DEF Computed
<1> QED
  BY <1>5, <1>6

\* An edit that is done adds to what DailyRuns counts, and a stale reading needs one.
LEMMA EditsCount ==
    /\ IsFiniteSet({e \in Edits : edit[e].at = "done"})
    /\ Cardinality({e \in Edits : edit[e].at = "done"}) \in Nat
    /\ Cardinality({e \in Edits : edit[e].at = "done"}) > 0 <=> \E e \in Edits : edit[e].at = "done"
<1> DEFINE done == {e \in Edits : edit[e].at = "done"}
<1>1. IsFiniteSet(done)
  BY ConstantsAssumption, FS_Subset
<1>2. Cardinality(done) \in Nat
  BY <1>1, FS_CardinalityType
<1>3. Cardinality(done) = 0 <=> done = {}
  BY <1>1, FS_EmptySet
<1> QED
  BY <1>1, <1>2, <1>3

LEMMA EditDone ==
    ASSUME ScheduleFacts, NEW e \in Edits, edit[e].at # "done",
           edit' = [edit EXCEPT ![e] = [NoEdit EXCEPT !.at = "done"]]
    PROVE  /\ edit' \in [Edits -> Editing] /\ edit'[e].at = "done" /\ edit'[e].of = {}
           /\ \A f \in Edits \ {e} : edit'[f] = edit[f]
           /\ Cardinality({f \in Edits : edit'[f].at = "done"})
                = Cardinality({f \in Edits : edit[f].at = "done"}) + 1
<1>1. PICK new \in Editing : new = [NoEdit EXCEPT !.at = "done"]
  BY Nothing DEF NoEdit, Editing
<1>2. new.at = "done" /\ new.of = {}
  BY <1>1 DEF NoEdit
<1>3. /\ edit' \in [Edits -> Editing] /\ edit'[e] = new
      /\ \A f \in Edits \ {e} : edit'[f] = edit[f]
  BY <1>1 DEF ScheduleFacts, ScheduleTypes
<1>4. {f \in Edits : edit'[f].at = "done"} = {f \in Edits : edit[f].at = "done"} \cup {e}
  BY <1>2, <1>3
<1>5. e \notin {f \in Edits : edit[f].at = "done"}
  OBVIOUS
<1>6. Cardinality({f \in Edits : edit[f].at = "done"} \cup {e})
        = Cardinality({f \in Edits : edit[f].at = "done"}) + 1
  BY <1>5, EditsCount, FS_AddElement
<1> QED
  BY <1>2, <1>3, <1>4, <1>6

\* The step that ends an edit of schedule s, which may leave the row as it is.
LEMMA Configuring ==
    ASSUME ScheduleFacts, NEW e \in Edits, NEW s \in Schedules, NEW new \in RowTypes,
           edit[e].at # "done", edit' = [edit EXCEPT ![e] = [NoEdit EXCEPT !.at = "done"]],
           row' = [row EXCEPT ![s] = new], Configured(s), UNCHANGED <<now, sweep>>,
           new.updated_at <= now, new.last_run_at <= now,
           new.next_run_at = row[s].next_run_at /\ new.offset = row[s].offset
             /\ ~late[s] /\ row[s].next_run_at # Never =>
                new.updated_at < row[s].next_run_at /\ new.last_run_at < row[s].next_run_at,
           (\A f \in Edits : edit[f].at # "done") =>
                \/ new.next_run_at = Never \/ new.next_run_at % Day = new.offset
                \/ new.next_run_at = row[s].next_run_at /\ new.offset = row[s].offset
    PROVE  ScheduleFacts' /\ Daily!Configure(s)
<1>1. /\ row' \in [Schedules -> RowTypes] /\ row'[s] = new
      /\ \A t \in Schedules \ {s} : row'[t] = row[t]
  BY DEF ScheduleFacts, ScheduleTypes
<1>2. /\ now \in Nat /\ row[s] \in RowTypes /\ late \in [Schedules -> BOOLEAN]
      /\ taken \in [Schedules -> SUBSET Nat] /\ now' = now /\ sweep' = sweep
  BY DEF ScheduleFacts, ScheduleTypes
<1>3. taken' = [taken EXCEPT ![s] = {}] /\ taken' \in [Schedules -> SUBSET Nat]
  BY <1>2 DEF Configured
<1>4. \A t \in Schedules : row'[t].updated_at <= now /\ row'[t].last_run_at <= now
  BY <1>1 DEF ScheduleFacts, TakenBefore
<1>5. \A t \in Schedules : Kept(t) /\ ~late[t] /\ row[t].next_run_at # Never =>
        row'[t].updated_at < row[t].next_run_at /\ row'[t].last_run_at < row[t].next_run_at
  BY <1>1 DEF ScheduleFacts, ArmedInTime, Kept
<1>6. Lateness
  BY DEF Configured
<1>7. ArmedInTime' /\ \A f \in Edits : edit'[f] = edit[f] => Computed(f)'
  BY <1>1, <1>2, <1>4, <1>5, <1>6, ArmedAnew
<1>8. /\ edit' \in [Edits -> Editing] /\ edit'[e].at = "done" /\ edit'[e].of = {}
      /\ \A f \in Edits \ {e} : edit'[f] = edit[f]
      /\ Cardinality({f \in Edits : edit'[f].at = "done"})
            = Cardinality({f \in Edits : edit[f].at = "done"}) + 1
  BY EditDone
<1>9. \A f \in Edits : Computed(f)'
  <2>1. Computed(e)'
    BY <1>8 DEF Computed
  <2> QED
    BY <1>7, <1>8, <2>1
<1>10. late' \in [Schedules -> BOOLEAN]
  BY <1>6, Rearmed
<1>11. ScheduleTypes'
  BY <1>1, <1>2, <1>3, <1>8, <1>10 DEF ScheduleFacts, ScheduleTypes
<1>12. TakenBefore'
  <2>1. \A t \in Schedules \ {s} : taken'[t] = taken[t] /\ row'[t] = row[t]
    BY <1>1, <1>2, <1>3
  <2>2. taken'[s] = {}
    BY <1>2, <1>3
  <2> QED
    BY <1>2, <1>4, <2>1, <2>2 DEF ScheduleFacts, TakenBefore
<1>13. Untouched'
  BY <1>8 DEF Untouched
<1>14. Daily!Configure(s)
  <2> DEFINE o == new.next_run_at
             stale == new.next_run_at % Day # new.offset
             armed == [t \in Schedules |-> row[t].next_run_at]
  <2>1. o \in Instants /\ o \in Nat /\ stale \in BOOLEAN
    BY RowFields
  <2>2. armed' = [armed EXCEPT ![s] = o]
    BY <1>1
  <2>3. CASE Kept(s)
    <3>1. late' = late
      <4>1. \A t \in Schedules : Kept(t)
        BY <1>1, <2>3 DEF Kept
      <4>2. \A t \in Schedules : late'[t] = late[t]
        BY <1>6, <4>1, Rearmed
      <4> QED
        BY <1>2, <1>10, <4>2
    <3>2. o = armed[s]
      BY <1>1, <2>3 DEF Kept
    <3>3. FALSE \in Daily!Stale
      BY DEF Daily!Stale
    <3> HIDE DEF o, armed
    <3>4. \E p \in Instants \cup {Never}, q \in Daily!Stale :
            /\ armed' = [armed EXCEPT ![s] = p]
            /\ \/ late' = [late EXCEPT ![s] = q \/ p <= now]
               \/ late' = late /\ p = armed[s]
      BY <2>1, <2>2, <3>1, <3>2, <3>3
    <3> QED
      BY <1>2, <1>3, <1>8, <3>4 DEF Daily!Configure, armed
  <2>4. CASE ~Kept(s)
    <3>1. late' = [late EXCEPT ![s] = stale \/ o <= now]
      <4>1. late'[s] = (stale \/ o <= now)
        <5>1. late'[s] = (row'[s].next_run_at <= now \/ row'[s].next_run_at % Day # row'[s].offset)
          BY <1>6, <2>4, Rearmed
        <5> QED
          BY <1>1, <5>1, Zenon
      <4>2. \A t \in Schedules \ {s} : late'[t] = late[t]
        <5>1. \A t \in Schedules \ {s} : Kept(t)
          BY <1>1 DEF Kept
        <5> QED
          BY <1>6, <5>1, Rearmed
      <4> QED
        BY <1>2, <1>10, <4>1, <4>2
    <3>2. \E q \in Daily!Stale : late' = [late EXCEPT ![s] = q \/ o <= now]
      <4>1. CASE \E f \in Edits : edit[f].at = "done"
        <5>1. Daily!Stale = BOOLEAN
          BY <4>1, EditsCount DEF Daily!Stale
        <5> QED
          BY <2>1, <3>1, <5>1
      <4>2. CASE \A f \in Edits : edit[f].at # "done"
        <5>1. (stale \/ o <= now) <=> (FALSE \/ o <= now)
          <6>1. new.next_run_at = Never \/ new.next_run_at % Day = new.offset
            BY <1>1, <2>4, <4>2 DEF Kept
          <6> QED
            BY <1>2, <6>1 DEF Never
        <5>2. FALSE \in Daily!Stale
          BY DEF Daily!Stale
        <5>3. late' = [late EXCEPT ![s] = FALSE \/ o <= now]
          BY <3>1, <5>1
        <5> QED
          BY <5>2, <5>3
      <4> QED
        BY <4>1, <4>2
    <3> HIDE DEF o, armed
    <3>3. \E p \in Instants \cup {Never}, q \in Daily!Stale :
            /\ armed' = [armed EXCEPT ![s] = p]
            /\ \/ late' = [late EXCEPT ![s] = q \/ p <= now]
               \/ late' = late /\ p = armed[s]
      BY <2>1, <2>2, <3>2
    <3> QED
      BY <1>2, <1>3, <1>8, <3>3 DEF Daily!Configure, armed
  <2> QED
    BY <2>3, <2>4
<1> QED
  BY <1>7, <1>9, <1>11, <1>12, <1>13, <1>14 DEF ScheduleFacts

\* instance.update on a schedule, field by field.
LEMMA SavedRow ==
    ASSUME NEW old \in RowTypes, NEW read \in RowTypes, NEW values \in RowTypes
    PROVE  /\ Saved(old, read, values) \in RowTypes
           /\ Saved(old, read, values).offset
                = IF values.offset = read.offset THEN old.offset ELSE values.offset
           /\ Saved(old, read, values).next_run_at
                = IF values.next_run_at = read.next_run_at THEN old.next_run_at ELSE values.next_run_at
           /\ Saved(old, read, values).last_run_at
                = IF values.last_run_at = read.last_run_at THEN old.last_run_at ELSE values.last_run_at
           /\ Saved(old, read, values).updated_at
                = IF values.updated_at = read.updated_at THEN old.updated_at ELSE values.updated_at
<1>1. DOMAIN old = {"life", "enabled", "offset", "next_run_at", "last_run_at", "updated_at"}
  BY DEF RowTypes
<1>2. Saved(old, read, values) \in RowTypes
  BY DEF Saved, RowTypes
<1> QED
  BY <1>1, <1>2 DEF Saved

\* What an edit is about to write.
LEMMA EditHolds ==
    ASSUME ScheduleFacts, NEW e \in Edits, NEW s \in Schedules
    PROVE  /\ edit[e].values \in RowTypes /\ edit[e].seen \in RowTypes /\ row[s] \in RowTypes
           /\ now \in Nat /\ row[s].updated_at <= now /\ row[s].last_run_at <= now
           /\ ~late[s] /\ row[s].next_run_at # Never =>
                row[s].updated_at < row[s].next_run_at /\ row[s].last_run_at < row[s].next_run_at
           /\ edit[e].values.updated_at \in Nat /\ edit[e].values.next_run_at \in Nat
           /\ Computed(e)
<1>1. edit[e].values \in RowTypes /\ edit[e].seen \in RowTypes /\ row[s] \in RowTypes /\ now \in Nat
  BY DEF ScheduleFacts, ScheduleTypes, Editing
<1>2. edit[e].values.updated_at \in Nat /\ edit[e].values.next_run_at \in Nat
  BY <1>1, RowFields
<1> QED
  BY <1>1, <1>2 DEF ScheduleFacts, TakenBefore, ArmedInTime

LEMMA Creating ==
    ASSUME ScheduleFacts, NEW e \in Edits, NEW s \in Schedules, UpsertCreate(e, s)
    PROVE  ScheduleFacts' /\ Daily!Configure(s)
<1>1. PICK new \in RowTypes : new = edit[e].values
  BY EditHolds
<1>2. /\ edit[e].at = "upsert" /\ row' = [row EXCEPT ![s] = new] /\ Configured(s)
      /\ edit' = [edit EXCEPT ![e] = [NoEdit EXCEPT !.at = "done"]] /\ UNCHANGED <<now, sweep>>
  BY <1>1 DEF UpsertCreate
<1>3. /\ new.updated_at <= now /\ new.last_run_at = Never
      /\ new.next_run_at # Never => new.updated_at < new.next_run_at /\ new.next_run_at % Day = new.offset
      /\ new.next_run_at \in Nat /\ now \in Nat
  BY <1>1, <1>2, EditHolds DEF Computed
<1>4. new.last_run_at <= now /\ (new.next_run_at # Never => new.last_run_at < new.next_run_at)
  BY <1>3 DEF Never
<1> QED
  BY <1>2, <1>3, <1>4, Configuring

LEMMA Retiming ==
    ASSUME ScheduleFacts, NEW e \in Edits, NEW s \in Schedules, ProfileWrite(e, s)
    PROVE  ScheduleFacts' /\ Daily!Configure(s)
<1>1. PICK values \in RowTypes : values = edit[e].values
  BY EditHolds
<1>2. row[s] \in RowTypes /\ row \in [Schedules -> RowTypes]
  BY DEF ScheduleFacts, ScheduleTypes
<1>3. PICK updated \in RowTypes :
        updated = [row[s] EXCEPT !.offset = values.offset, !.next_run_at = values.next_run_at,
                                 !.updated_at = values.updated_at]
  BY <1>2 DEF RowTypes
<1>4. /\ updated.offset = values.offset /\ updated.next_run_at = values.next_run_at
      /\ updated.updated_at = values.updated_at /\ updated.last_run_at = row[s].last_run_at
  BY <1>2, <1>3 DEF RowTypes
<1>5. /\ edit[e].at = "retime" /\ Configured(s) /\ UNCHANGED <<now, sweep>>
      /\ edit' = [edit EXCEPT ![e] = [NoEdit EXCEPT !.at = "done"]]
      /\ row' = IF Exists(s) THEN [row EXCEPT ![s] = updated] ELSE row
  BY <1>1, <1>3 DEF ProfileWrite, Write
<1>6. CASE Exists(s)
  <2>1. /\ updated.updated_at <= now
        /\ updated.next_run_at # Never =>
              updated.updated_at < updated.next_run_at /\ updated.next_run_at % Day = updated.offset
    BY <1>1, <1>4, <1>5, EditHolds DEF Computed
  <2>2. updated.last_run_at <= now
    BY <1>4, EditHolds
  <2>3. updated.next_run_at = row[s].next_run_at /\ updated.offset = row[s].offset
          /\ ~late[s] /\ row[s].next_run_at # Never =>
            updated.updated_at < row[s].next_run_at /\ updated.last_run_at < row[s].next_run_at
    BY <1>4, <2>1, EditHolds
  <2> QED
    BY <1>5, <1>6, <2>1, <2>2, <2>3, Configuring
<1>7. CASE ~Exists(s)
  <2>1. row' = [row EXCEPT ![s] = row[s]]
    BY <1>2, <1>5, <1>7
  <2> QED
    BY <1>2, <1>5, <2>1, EditHolds, Configuring
<1> QED
  BY <1>6, <1>7

LEMMA Upserting ==
    ASSUME ScheduleFacts, NEW e \in Edits, NEW s \in Schedules, UpsertWrite(e, s)
    PROVE  ScheduleFacts' /\ Daily!Configure(s)
<1>1. PICK values \in RowTypes, seen \in RowTypes, old \in RowTypes :
        values = edit[e].values /\ seen = edit[e].seen /\ old = row[s]
  BY EditHolds
<1>2. row \in [Schedules -> RowTypes]
  BY DEF ScheduleFacts, ScheduleTypes
<1>3. PICK updated \in RowTypes : updated = Saved(old, seen, values)
  BY SavedRow
<1>4. /\ edit[e].at = "write" /\ s \in edit[e].of /\ Configured(s) /\ UNCHANGED <<now, sweep>>
      /\ edit' = [edit EXCEPT ![e] = [NoEdit EXCEPT !.at = "done"]]
      /\ row' = IF Exists(s) THEN [row EXCEPT ![s] = updated] ELSE row
  BY <1>1, <1>3 DEF UpsertWrite, Write
<1>5. CASE Exists(s)
  <2>1. /\ values.updated_at <= now /\ values.last_run_at = seen.last_run_at
        /\ values.next_run_at # Never =>
              values.updated_at < values.next_run_at /\ values.next_run_at % Day = values.offset
        /\ values.next_run_at = seen.next_run_at /\ ~late[s] /\ old.next_run_at # Never =>
              values.updated_at < old.next_run_at
    BY <1>1, <1>4, EditHolds DEF Computed
  <2>2. /\ \/ updated.offset = values.offset
           \/ updated.offset = old.offset /\ values.offset = seen.offset
        /\ \/ updated.next_run_at = values.next_run_at
           \/ updated.next_run_at = old.next_run_at /\ values.next_run_at = seen.next_run_at
        /\ updated.last_run_at = old.last_run_at
        /\ updated.updated_at = values.updated_at \/ updated.updated_at = old.updated_at
    BY <1>3, <2>1, SavedRow
  <2>3. /\ old.updated_at <= now /\ old.last_run_at <= now
        /\ ~late[s] /\ old.next_run_at # Never =>
              old.updated_at < old.next_run_at /\ old.last_run_at < old.next_run_at
    BY <1>1, EditHolds
  <2>4. updated.updated_at <= now /\ updated.last_run_at <= now
    BY <2>1, <2>2, <2>3
  <2>5. updated.next_run_at = old.next_run_at /\ ~late[s] /\ old.next_run_at # Never =>
            updated.updated_at < old.next_run_at /\ updated.last_run_at < old.next_run_at
    BY <2>1, <2>2, <2>3
  <2>6. ASSUME \A f \in Edits : edit[f].at # "done"
        PROVE  updated.next_run_at = Never \/ updated.next_run_at % Day = updated.offset
    <3>1. AsConfigured(old) /\ AsConfigured(seen)
      BY <1>1, <1>4, <1>5, <2>6 DEF ScheduleFacts, Untouched
    <3>2. CASE updated.next_run_at = values.next_run_at
      <4>1. updated.offset = values.offset
        BY <2>2, <3>1 DEF AsConfigured
      <4> QED
        BY <2>1, <3>2, <4>1
    <3>3. CASE updated.next_run_at = old.next_run_at /\ values.next_run_at = seen.next_run_at
      <4>1. values.offset = 0
        BY <2>1, <3>1, <3>3 DEF AsConfigured
      <4> QED
        BY <2>2, <3>1, <3>3, <4>1 DEF AsConfigured
    <3> QED
      BY <2>2, <3>2, <3>3
  <2> QED
    BY <1>1, <1>4, <1>5, <2>4, <2>5, <2>6, Configuring
<1>6. CASE ~Exists(s)
  <2>1. row' = [row EXCEPT ![s] = old] /\ old = row[s]
    BY <1>1, <1>2, <1>4, <1>6
  <2> QED
    BY <1>1, <1>4, <2>1, EditHolds, Configuring
<1> QED
  BY <1>5, <1>6

LEMMA Deleting ==
    ASSUME ScheduleFacts, NEW e \in Edits, NEW s \in Schedules, deleteSchedule(e, s)
    PROVE  ScheduleFacts' /\ Daily!Configure(s)
<1>1. PICK new \in RowTypes : new = [NoRow EXCEPT !.life = "deleted"]
  BY Nothing DEF RowTypes
<1>2. new.next_run_at = Never /\ new.last_run_at = 0 /\ new.updated_at = 0
  BY <1>1, Nothing DEF NoRow, Row, Never
<1>3. /\ edit[e].at # "done" /\ row' = [row EXCEPT ![s] = new] /\ Configured(s)
      /\ edit' = [edit EXCEPT ![e] = [NoEdit EXCEPT !.at = "done"]] /\ UNCHANGED <<now, sweep>>
  BY <1>1 DEF deleteSchedule
<1>4. new.updated_at <= now /\ new.last_run_at <= now
  BY <1>2 DEF ScheduleFacts, ScheduleTypes
<1> QED
  BY <1>2, <1>3, <1>4, Configuring

-----------------------------------------------------------------------------
(* A sweep claims a schedule.                                              *)

\* What a claim that has found the schedule due makes of its row.
LEMMA ClaimFacts ==
    ASSUME ScheduleFacts, NEW w \in Sweepers, NEW d \in sweep[w].due, NEW s \in Schedules,
           s = d.schedule, claimDueSchedule(w, d),
           IsDue(s, sweep[w].now), d.armed <=> row[s].next_run_at # Never
    PROVE  \E new \in RowTypes :
              /\ row' = [row EXCEPT ![s] = new]
              /\ new.life = row[s].life /\ new.enabled /\ new.offset \in {row[s].offset, d.offset}
              /\ new.last_run_at = sweep[w].now /\ new.updated_at = sweep[w].now
              /\ new.next_run_at \in Instants /\ new.next_run_at # Never
              /\ sweep[w].now < new.next_run_at /\ row[s].next_run_at < new.next_run_at
              /\ new.next_run_at % Day = d.offset
<1>1. /\ sweep[w] \in Sweeping /\ sweep[w].now <= now /\ sweep[w].now \in Nat /\ d \in Listing
      /\ row \in [Schedules -> RowTypes] /\ row[s] \in RowTypes /\ now \in Nat /\ now <= MaxTime
  BY DEF ScheduleFacts, ScheduleTypes, TakenBefore, Sweeping
<1>2. PICK time \in Nat : time = sweep[w].now
  BY <1>1
<1>3. d.offset \in Offsets /\ row[s].offset \in Offsets /\ row[s].next_run_at \in Nat
  BY <1>1, RowFields DEF Listing
<1>4. time \in Instants
  BY <1>1, <1>2, ConstantsAssumption DEF Instants
<1>5. PICK next \in Instants : next = nextDailyRun(d.offset, time)
  BY <1>1, <1>2, <1>3, NextInstant DEF ScheduleFacts
<1>6. next # Never /\ time < next /\ next % Day = d.offset /\ next \in Nat
  BY <1>1, <1>2, <1>3, <1>5, NextInstant, NextRun DEF ScheduleFacts
<1>7. PICK offset \in {row[s].offset, d.offset} :
        row' = [row EXCEPT ![s].offset = offset, ![s].last_run_at = time, ![s].updated_at = time,
                           ![s].next_run_at = next]
  BY <1>2, <1>5 DEF claimDueSchedule
<1>8. PICK new \in RowTypes :
        new = [row[s] EXCEPT !.offset = offset, !.last_run_at = time, !.updated_at = time,
                             !.next_run_at = next]
  BY <1>1, <1>3, <1>4 DEF RowTypes
<1>9. /\ new.life = row[s].life /\ new.offset = offset /\ new.last_run_at = time
      /\ new.updated_at = time /\ new.next_run_at = next
  BY <1>1, <1>8 DEF RowTypes
<1>10. new.enabled = row[s].enabled
  BY <1>1, <1>8, Zenon DEF RowTypes
<1>11. row[s].enabled /\ row[s].next_run_at <= time
  BY <1>2 DEF IsDue
<1>12. row' = [row EXCEPT ![s] = new]
  BY <1>1, <1>7, <1>8
<1>13. /\ new.enabled /\ new.offset \in {row[s].offset, d.offset}
       /\ new.last_run_at = sweep[w].now /\ new.updated_at = sweep[w].now
  BY <1>2, <1>9, <1>10, <1>11
<1>14. row[s].next_run_at < next
  BY <1>3, <1>6, <1>11
<1>15. /\ new.next_run_at \in Instants /\ new.next_run_at # Never
       /\ sweep[w].now < new.next_run_at /\ row[s].next_run_at < new.next_run_at
       /\ new.next_run_at % Day = d.offset
  BY <1>2, <1>5, <1>6, <1>9, <1>14
<1> QED
  BY <1>9, <1>12, <1>13, <1>15

LEMMA Claiming ==
    ASSUME ScheduleFacts, NEW w \in Sweepers, NEW d \in sweep[w].due, NEW s \in Schedules,
           s = d.schedule, claimDueSchedule(w, d),
           IsDue(s, sweep[w].now), d.armed <=> row[s].next_run_at # Never
    PROVE  ScheduleFacts' /\ (Daily!Take(s) \/ Daily!Recover)
<1>1. PICK new \in RowTypes :
        /\ row' = [row EXCEPT ![s] = new]
        /\ new.life = row[s].life /\ new.enabled /\ new.offset \in {row[s].offset, d.offset}
        /\ new.last_run_at = sweep[w].now /\ new.updated_at = sweep[w].now
        /\ new.next_run_at \in Instants /\ new.next_run_at # Never
        /\ sweep[w].now < new.next_run_at /\ row[s].next_run_at < new.next_run_at
        /\ new.next_run_at % Day = d.offset
  BY ClaimFacts
<1>2. /\ sweep \in [Sweepers -> Sweeping] /\ sweep[w] \in Sweeping /\ sweep[w].now <= now
      /\ sweep[w].now \in Nat /\ now \in Nat /\ row[s] \in RowTypes /\ row[s].next_run_at \in Nat
      /\ new.next_run_at \in Nat /\ row[s].next_run_at <= sweep[w].now /\ Exists(s)
  BY RowFields DEF ScheduleFacts, ScheduleTypes, TakenBefore, Sweeping, IsDue
<1>3. /\ row' \in [Schedules -> RowTypes] /\ row'[s] = new
      /\ \A t \in Schedules \ {s} : row'[t] = row[t]
  BY <1>1 DEF ScheduleFacts, ScheduleTypes
<1>4. /\ taken' = [taken EXCEPT ![s] = @ \cup ({row[s].next_run_at} \ {Never})]
      /\ Lateness /\ UNCHANGED <<now, edit>>
      /\ sweep' = [sweep EXCEPT ![w].at = "run", ![w].run = {s}]
  BY DEF claimDueSchedule
<1>5. ~Kept(s) /\ \A t \in Schedules \ {s} : Kept(t)
  BY <1>1, <1>2, <1>3 DEF Kept
<1>6. ArmedInTime' /\ \A e \in Edits : Computed(e)'
  <2>1. \A t \in Schedules : row'[t].updated_at <= now /\ row'[t].last_run_at <= now
    BY <1>1, <1>2, <1>3 DEF ScheduleFacts, TakenBefore
  <2>2. \A t \in Schedules : Kept(t) /\ ~late[t] /\ row[t].next_run_at # Never =>
          row'[t].updated_at < row[t].next_run_at /\ row'[t].last_run_at < row[t].next_run_at
    BY <1>3, <1>5 DEF ScheduleFacts, ArmedInTime
  <2>3. \A e \in Edits : edit'[e] = edit[e]
    BY <1>4
  <2> QED
    BY <1>3, <1>4, <2>1, <2>2, <2>3, ArmedAnew
<1>7. PICK swept \in Sweeping : swept = [sweep[w] EXCEPT !.at = "run", !.run = {s}]
  BY <1>2 DEF Sweeping
<1>8. /\ swept.now = sweep[w].now /\ swept.due = sweep[w].due
      /\ sweep' \in [Sweepers -> Sweeping] /\ sweep'[w] = swept
      /\ \A v \in Sweepers \ {w} : sweep'[v] = sweep[v]
  BY <1>2, <1>4, <1>7 DEF Sweeping
<1>9. late' \in [Schedules -> BOOLEAN]
  BY <1>4, Rearmed
<1>10. /\ taken' \in [Schedules -> SUBSET Nat]
       /\ taken'[s] = taken[s] \cup ({row[s].next_run_at} \ {Never})
       /\ \A t \in Schedules \ {s} : taken'[t] = taken[t]
  BY <1>2, <1>4 DEF ScheduleFacts, ScheduleTypes
<1>11. ScheduleTypes'
  BY <1>3, <1>4, <1>8, <1>9, <1>10 DEF ScheduleFacts, ScheduleTypes
<1>12. \A t \in taken[s] : t \in Nat /\ t < row[s].next_run_at
  <2>1. taken[s] \subseteq Nat /\ row[s].last_run_at \in Nat
    BY <1>2, RowFields DEF ScheduleFacts, ScheduleTypes
  <2> QED
    BY <1>2, <2>1 DEF ScheduleFacts, TakenBefore
<1>13. TakenBefore'
  <2>1. \A v \in Sweepers : sweep'[v].now <= now
    BY <1>8 DEF ScheduleFacts, TakenBefore
  <2>2. \A t \in taken'[s] : t <= sweep[w].now
    BY <1>2, <1>10, <1>12
  <2>3. /\ row'[s].last_run_at <= now /\ row'[s].updated_at <= now
        /\ row'[s].enabled /\ row'[s].last_run_at < row'[s].next_run_at
        /\ \A t \in taken'[s] : t <= row'[s].last_run_at
    BY <1>1, <1>2, <1>3, <2>2
  <2>4. \A t \in Schedules \ {s} :
          /\ row'[t].last_run_at <= now /\ row'[t].updated_at <= now
          /\ taken'[t] # {} => /\ row'[t].enabled /\ row'[t].last_run_at < row'[t].next_run_at
                               /\ \A p \in taken'[t] : p <= row'[t].last_run_at
    BY <1>3, <1>10 DEF ScheduleFacts, TakenBefore
  <2> QED
    BY <1>4, <2>1, <2>3, <2>4 DEF TakenBefore
<1>14. ASSUME \A e \in Edits : edit[e].at # "done"
       PROVE  AsConfigured(row[s]) /\ new.offset = 0 /\ new.next_run_at % Day = 0
  <2>1. AsConfigured(row[s]) /\ d.offset = 0
    BY <1>2, <1>14 DEF ScheduleFacts, Untouched
  <2> QED
    BY <1>1, <2>1 DEF AsConfigured
<1>15. Untouched'
  <2> SUFFICES ASSUME \A e \in Edits : edit[e].at # "done"
               PROVE  /\ \A t \in Schedules : row'[t].life = "row" => AsConfigured(row'[t])
                      /\ \A v \in Sweepers : \A c \in sweep'[v].due : c.offset = 0
                      /\ \A e \in Edits : edit[e].at = "write" => AsConfigured(edit[e].seen)
    BY <1>4 DEF Untouched, Exists, AsConfigured
  <2>1. AsConfigured(row'[s])
    BY <1>1, <1>3, <1>14 DEF AsConfigured
  <2> QED
    BY <1>3, <1>8, <2>1 DEF ScheduleFacts, Untouched, Exists
<1> DEFINE armed == [t \in Schedules |-> row[t].next_run_at]
           o == new.next_run_at
           stale == new.next_run_at % Day # new.offset
<1>16. armed' = [armed EXCEPT ![s] = o] /\ armed[s] = row[s].next_run_at
  BY <1>3
<1>17. late' = [late EXCEPT ![s] = stale \/ o <= now]
  <2>1. late'[s] = (stale \/ o <= now)
    <3>1. late'[s] = (row'[s].next_run_at <= now \/ row'[s].next_run_at % Day # row'[s].offset)
      BY <1>4, <1>5, Rearmed
    <3> QED
      BY <1>3, <3>1, Zenon
  <2>2. \A t \in Schedules \ {s} : late'[t] = late[t]
    BY <1>4, <1>5, Rearmed
  <2> QED
    BY <1>9, <2>1, <2>2 DEF ScheduleFacts, ScheduleTypes
<1>18. stale \in Daily!Stale
  <2>1. CASE \E e \in Edits : edit[e].at = "done"
    <3>1. Daily!Stale = BOOLEAN
      BY <2>1, EditsCount DEF Daily!Stale
    <3> QED
      BY <3>1
  <2>2. CASE \A e \in Edits : edit[e].at # "done"
    <3>1. stale = FALSE
      BY <1>14, <2>2
    <3> QED
      BY <3>1 DEF Daily!Stale
  <2> QED
    BY <2>1, <2>2
<1>19. CASE row[s].next_run_at # Never
  <2>1. taken' = [taken EXCEPT ![s] = @ \cup {armed[s]}]
    BY <1>4, <1>16, <1>19
  <2>2. Daily!Due(s) /\ Daily!Later(s, armed[s])
    BY <1>2, <1>12, <1>16, <1>19 DEF Daily!Due, Daily!Later
  <2>3. o \in Instants /\ o > armed[s]
    BY <1>1, <1>2, <1>16
  <2> HIDE DEF o, stale
  <2>4. \E p \in Instants, q \in Daily!Stale :
          /\ p > armed[s]
          /\ armed' = [armed EXCEPT ![s] = p]
          /\ late' = [late EXCEPT ![s] = q \/ p <= now]
    BY <1>16, <1>17, <1>18, <2>3
  <2>5. Daily!Take(s)
    BY <1>4, <2>1, <2>2, <2>4 DEF Daily!Take
  <2> QED
    BY <1>6, <1>11, <1>13, <1>15, <2>5 DEF ScheduleFacts
<1>20. CASE row[s].next_run_at = Never
  <2>1. taken[s] = {} /\ taken' = taken
    <3>1. taken[s] = {}
      BY <1>12, <1>20 DEF Never
    <3>2. taken'[s] = taken[s]
      BY <1>10, <1>20
    <3> QED
      BY <1>10, <3>1, <3>2 DEF ScheduleFacts, ScheduleTypes
  <2>2. armed' \in [Schedules -> Instants \cup {Never}]
    BY <1>3, RowFields
  <2>3. \A t \in Schedules : armed'[t] # armed[t] =>
          Daily!Later(t, armed'[t]) /\ (Daily!Due(t) /\ armed'[t] > now => late[t])
    BY <1>16, <1>20, <2>1 DEF Daily!Later, Daily!Due
  <2>4. \E q \in [Schedules -> Daily!Stale] :
          late' = [t \in Schedules |-> IF armed'[t] = armed[t] THEN late[t] ELSE q[t] \/ armed'[t] <= now]
    <3> DEFINE q == [t \in Schedules |-> stale]
    <3>1. q \in [Schedules -> Daily!Stale]
      BY <1>18
    <3>2. armed'[s] # armed[s] /\ armed'[s] = o /\ \A t \in Schedules \ {s} : armed'[t] = armed[t]
      BY <1>1, <1>16, <1>20
    <3>3. \A t \in Schedules : q[t] = stale
      OBVIOUS
    <3>4. late'[s] = (q[s] \/ armed'[s] <= now) /\ \A t \in Schedules \ {s} : late'[t] = late[t]
      <4>1. late'[s] = (stale \/ o <= now)
        <5>1. late'[s] = (row'[s].next_run_at <= now \/ row'[s].next_run_at % Day # row'[s].offset)
          BY <1>4, <1>5, Rearmed
        <5> QED
          BY <1>3, <5>1, Zenon
      <4>2. \A t \in Schedules \ {s} : late'[t] = late[t]
        BY <1>4, <1>5, Rearmed
      <4> HIDE DEF q, armed, o, stale
      <4> QED
        BY <3>2, <3>3, <4>1, <4>2, Zenon
    <3> HIDE DEF q, armed, o, stale
    <3>5. \A t \in Schedules :
            late'[t] = IF armed'[t] = armed[t] THEN late[t] ELSE q[t] \/ armed'[t] <= now
      BY <3>2, <3>4, Zenon
    <3>6. late' = [t \in Schedules |-> IF armed'[t] = armed[t] THEN late[t] ELSE q[t] \/ armed'[t] <= now]
      BY <1>9, <3>5
    <3> QED
      BY <3>1, <3>6
  <2>5. Daily!Recover
    BY <1>4, <2>1, <2>2, <2>3, <2>4 DEF Daily!Recover
  <2> QED
    BY <1>6, <1>11, <1>13, <1>15, <2>5 DEF ScheduleFacts
<1> QED
  BY <1>19, <1>20

LEMMA ClaimStep ==
    ASSUME ScheduleFacts, NEW w \in Sweepers, NEW d \in sweep[w].due, claimDueSchedule(w, d)
    PROVE  /\ ScheduleFacts'
           /\ UNCHANGED Shown \/ Daily!Recover \/ \E s \in Schedules : Daily!Take(s)
<1>1. PICK s \in Schedules : s = d.schedule
  BY DEF ScheduleFacts, ScheduleTypes, Sweeping, Listing
<1>2. CASE IsDue(s, sweep[w].now) /\ (d.armed <=> row[s].next_run_at # Never)
  BY <1>1, <1>2, Claiming
<1>3. CASE ~(IsDue(s, sweep[w].now) /\ (d.armed <=> row[s].next_run_at # Never))
  <2>1. PICK new \in Sweeping : new = Without(w, s)
    BY WithoutFacts
  <2>2. new.now <= now /\ new.due \subseteq sweep[w].due
    BY <2>1, WithoutFacts
  <2>3. sweep' = [sweep EXCEPT ![w] = new] /\ UNCHANGED <<now, row, edit, taken, late>>
    BY <1>1, <1>3, <2>1 DEF claimDueSchedule
  <2> QED
    BY <2>2, <2>3, QuietSweep
<1> QED
  BY <1>2, <1>3

-----------------------------------------------------------------------------
(* A server starts.                                                        *)

\* What the reconciliation makes of a schedule: one that was armed in time and is due was
\* missed, and is armed for a run that is due still.
LEMMA ReconciledFacts ==
    ASSUME ScheduleFacts, NEW s \in Schedules
    PROVE  /\ Reconciled(s) \in Instants
           /\ Reconciled(s) = Never \/ Reconciled(s) % Day = row[s].offset
           /\ row[s].enabled => Reconciled(s) # Never
           /\ taken[s] # {} => /\ row[s].last_run_at < Reconciled(s)
                               /\ \A t \in taken[s] : t < Reconciled(s)
           /\ row[s].next_run_at # Never /\ row[s].next_run_at <= now /\ ~late[s] => Reconciled(s) <= now
<1>1. /\ row[s] \in RowTypes /\ now \in Nat /\ now >= Day /\ now <= now /\ taken[s] \subseteq Nat
      /\ now <= MaxTime /\ MaxTime \in Nat /\ Day \in Nat
  BY ConstantsAssumption DEF ScheduleFacts, ScheduleTypes
<1>2. PICK offset \in Offsets, last \in Nat, next \in Nat, updated \in Nat :
        /\ offset = row[s].offset /\ last = row[s].last_run_at /\ next = row[s].next_run_at
        /\ updated = row[s].updated_at
  BY <1>1, RowFields
<1>3. PICK previous \in Nat : previous = previousDailyRun(offset, now)
  BY <1>1, PreviousRun
<1>4. /\ previous # 0 /\ previous <= now /\ previous % Day = offset
      /\ \A t \in Nat : t <= now /\ t % Day = offset => t <= previous
  BY <1>1, <1>3, PreviousRun
<1>5. PICK following \in Instants : following = nextDailyRun(offset, now)
  BY <1>1, NextInstant DEF ScheduleFacts
<1>6. following # Never /\ now < following /\ following % Day = offset /\ following \in Nat
  BY <1>1, <1>5, NextInstant, NextRun DEF ScheduleFacts
<1>7. previous \in Instants /\ previous # Never
  BY <1>1, <1>4 DEF Instants, Never
<1>8. Reconciled(s) = IF ~row[s].enabled THEN Never
                      ELSE IF updated <= previous /\ last < previous THEN previous ELSE following
  BY <1>2, <1>3, <1>5 DEF Reconciled, Missed
<1>9. Never \in Instants /\ Never = 0
  BY Nothing DEF Never
<1>10. /\ Reconciled(s) \in Instants
       /\ Reconciled(s) = Never \/ Reconciled(s) % Day = offset
       /\ row[s].enabled => Reconciled(s) # Never
  BY <1>4, <1>6, <1>7, <1>8, <1>9
<1>11. ASSUME taken[s] # {}
       PROVE  last < Reconciled(s) /\ \A t \in taken[s] : t < Reconciled(s)
  <2>1. row[s].enabled /\ last <= now /\ \A t \in taken[s] : t <= last
    BY <1>2, <1>11 DEF ScheduleFacts, TakenBefore
  <2>2. last < Reconciled(s) /\ Reconciled(s) \in Nat
    BY <1>1, <1>6, <1>8, <2>1
  <2> QED
    BY <1>1, <2>1, <2>2
<1>12. ASSUME next # Never, next <= now, ~late[s]
       PROVE  Reconciled(s) <= now
  <2>1. next % Day = offset /\ updated < next /\ last < next
    BY <1>2, <1>12 DEF ScheduleFacts, ArmedInTime
  <2>2. next <= previous
    BY <1>4, <1>12, <2>1
  <2>3. updated <= previous /\ last < previous
    BY <2>1, <2>2
  <2> QED
    BY <1>1, <1>4, <1>8, <1>9, <2>3
<1> QED
  BY <1>2, <1>10, <1>11, <1>12

LEMMA Reconciling ==
    ASSUME ScheduleFacts, NEW v \in Servers, reconcileBackupScheduleTimes(v)
    PROVE  ScheduleFacts' /\ Daily!Recover
<1> DEFINE moved == {s \in Schedules : Exists(s) /\ row[s].next_run_at # Reconciled(s)}
<1>1. /\ row \in [Schedules -> RowTypes] /\ now \in Nat /\ now \in Instants
      /\ late \in [Schedules -> BOOLEAN]
  BY ConstantsAssumption DEF ScheduleFacts, ScheduleTypes, Instants
<1>2. /\ row' = [s \in Schedules |-> IF s \in moved
                    THEN [row[s] EXCEPT !.next_run_at = Reconciled(s), !.updated_at = now]
                    ELSE row[s]]
      /\ Lateness /\ UNCHANGED <<now, sweep, edit, taken>>
  BY DEF reconcileBackupScheduleTimes
<1>3. \A s \in Schedules : s \notin moved => row'[s] = row[s]
  BY <1>2
<1>4. \A s \in moved :
        /\ row'[s] \in RowTypes /\ row'[s].next_run_at = Reconciled(s) /\ row'[s].updated_at = now
        /\ row'[s].offset = row[s].offset /\ row'[s].last_run_at = row[s].last_run_at
        /\ row'[s].life = row[s].life /\ (row'[s].enabled <=> row[s].enabled)
  <2> SUFFICES ASSUME NEW s \in moved
               PROVE  /\ row'[s] \in RowTypes /\ row'[s].next_run_at = Reconciled(s)
                      /\ row'[s].updated_at = now
                      /\ row'[s].offset = row[s].offset /\ row'[s].last_run_at = row[s].last_run_at
                      /\ row'[s].life = row[s].life /\ (row'[s].enabled <=> row[s].enabled)
    OBVIOUS
  <2>1. PICK next \in Instants : next = Reconciled(s)
    BY ReconciledFacts
  <2>2. row'[s] = [row[s] EXCEPT !.next_run_at = next, !.updated_at = now]
    BY <1>2, <2>1
  <2>3. PICK new \in RowTypes : new = [row[s] EXCEPT !.next_run_at = next, !.updated_at = now]
    BY <1>1 DEF RowTypes
  <2>4. /\ new.next_run_at = next /\ new.updated_at = now /\ new.offset = row[s].offset
        /\ new.last_run_at = row[s].last_run_at /\ new.life = row[s].life
    BY <1>1, <2>3 DEF RowTypes
  <2>5. new.enabled <=> row[s].enabled
    BY <1>1, <2>3 DEF RowTypes
  <2> QED
    BY <2>1, <2>2, <2>3, <2>4, <2>5
<1>5. \A s \in moved : row[s].next_run_at # Reconciled(s) /\ Exists(s)
  OBVIOUS
<1> HIDE DEF moved
<1>6. moved \subseteq Schedules
  BY DEF moved
<1>7. row' \in [Schedules -> RowTypes]
  <2>1. \A s \in Schedules : row'[s] \in RowTypes
    BY <1>1, <1>3, <1>4
  <2>2. DOMAIN row' = Schedules /\ row' = [s \in Schedules |-> row'[s]]
    BY <1>2
  <2> QED
    BY <2>1, <2>2
<1>8. \A s \in Schedules : Kept(s) <=> s \notin moved
  BY <1>3, <1>4, <1>5 DEF Kept
<1>9. ArmedInTime' /\ \A e \in Edits : Computed(e)'
  <2>1. \A s \in Schedules : row'[s].updated_at <= now /\ row'[s].last_run_at <= now
    BY <1>1, <1>3, <1>4 DEF ScheduleFacts, TakenBefore
  <2>2. \A s \in Schedules : Kept(s) /\ ~late[s] /\ row[s].next_run_at # Never =>
          row'[s].updated_at < row[s].next_run_at /\ row'[s].last_run_at < row[s].next_run_at
    BY <1>3, <1>8 DEF ScheduleFacts, ArmedInTime
  <2>3. \A e \in Edits : edit'[e] = edit[e]
    BY <1>2
  <2> QED
    BY <1>2, <1>7, <2>1, <2>2, <2>3, ArmedAnew
<1>10. late' \in [Schedules -> BOOLEAN]
  BY <1>2, Rearmed
<1>11. ScheduleTypes'
  BY <1>2, <1>7, <1>10 DEF ScheduleFacts, ScheduleTypes
<1>12. TakenBefore'
  <2>1. ASSUME NEW s \in Schedules
        PROVE  /\ row'[s].last_run_at <= now /\ row'[s].updated_at <= now
               /\ taken[s] # {} => /\ row'[s].enabled /\ row'[s].last_run_at < row'[s].next_run_at
                                   /\ \A t \in taken[s] : t <= row'[s].last_run_at
    <3>1. CASE s \in moved
      <4>1. taken[s] # {} => row[s].last_run_at < Reconciled(s)
        BY ReconciledFacts
      <4> QED
        BY <1>1, <1>4, <3>1, <4>1 DEF ScheduleFacts, TakenBefore
    <3>2. CASE s \notin moved
      BY <1>3, <3>2 DEF ScheduleFacts, TakenBefore
    <3> QED
      BY <3>1, <3>2
  <2>2. \A w \in Sweepers : sweep'[w].now <= now
    BY <1>2 DEF ScheduleFacts, TakenBefore
  <2> QED
    BY <1>2, <2>1, <2>2 DEF TakenBefore
<1>13. Untouched'
  <2> SUFFICES ASSUME \A e \in Edits : edit[e].at # "done"
               PROVE  /\ \A s \in Schedules : row'[s].life = "row" => AsConfigured(row'[s])
                      /\ \A w \in Sweepers : \A d \in sweep[w].due : d.offset = 0
                      /\ \A e \in Edits : edit[e].at = "write" => AsConfigured(edit[e].seen)
    BY <1>2 DEF Untouched, Exists, AsConfigured
  <2>1. ASSUME NEW s \in moved
        PROVE  AsConfigured(row'[s])
    <3>1. row[s].enabled /\ row[s].offset = 0
      BY <1>5, <1>6 DEF ScheduleFacts, Untouched, AsConfigured
    <3>2. Reconciled(s) # Never /\ Reconciled(s) % Day = 0
      BY <1>6, <3>1, ReconciledFacts
    <3> QED
      BY <1>4, <3>1, <3>2 DEF AsConfigured
  <2>2. \A s \in Schedules \ moved : row'[s].life = "row" => AsConfigured(row'[s])
    BY <1>3 DEF ScheduleFacts, Untouched, Exists
  <2>3. /\ \A w \in Sweepers : \A d \in sweep[w].due : d.offset = 0
        /\ \A e \in Edits : edit[e].at = "write" => AsConfigured(edit[e].seen)
    BY DEF ScheduleFacts, Untouched
  <2> QED
    BY <2>1, <2>2, <2>3
<1> DEFINE armed == [s \in Schedules |-> row[s].next_run_at]
<1>14. Daily!Recover
  <2>1. armed' \in [Schedules -> Instants \cup {Never}]
    BY <1>7, RowFields
  <2>2. \A s \in Schedules : /\ armed[s] = row[s].next_run_at /\ armed'[s] = row'[s].next_run_at
                             /\ armed'[s] # armed[s] <=> s \in moved
                             /\ s \in moved => armed'[s] = Reconciled(s)
    BY <1>3, <1>4, <1>5
  <2> HIDE DEF armed
  <2>3. ASSUME NEW s \in Schedules, armed'[s] # armed[s]
        PROVE  /\ Daily!Later(s, armed'[s])
               /\ row[s].next_run_at # Never /\ row[s].next_run_at <= now /\ armed'[s] > now => late[s]
    <3>1. armed'[s] = Reconciled(s) /\ Reconciled(s) \in Nat
      BY <2>2, <2>3, ReconciledFacts, ConstantsAssumption DEF Instants
    <3>2. \A t \in taken[s] : t < Reconciled(s)
      BY ReconciledFacts
    <3>3. row[s].next_run_at # Never /\ row[s].next_run_at <= now /\ ~late[s] => Reconciled(s) <= now
      BY ReconciledFacts
    <3> QED
      BY <1>1, <3>1, <3>2, <3>3 DEF Daily!Later
  <2>4. \E q \in [Schedules -> Daily!Stale] :
          late' = [s \in Schedules |-> IF armed'[s] = armed[s] THEN late[s] ELSE q[s] \/ armed'[s] <= now]
    <3> DEFINE q == [s \in Schedules |-> FALSE]
    <3>1. q \in [Schedules -> Daily!Stale] /\ \A s \in Schedules : q[s] = FALSE
      BY DEF Daily!Stale
    <3> HIDE DEF q
    <3>2. ASSUME NEW s \in Schedules
          PROVE  late'[s] = IF armed'[s] = armed[s] THEN late[s] ELSE q[s] \/ armed'[s] <= now
      <4>1. CASE s \notin moved
        BY <1>2, <1>8, <2>2, <4>1, Rearmed
      <4>2. CASE s \in moved
        <5>1. late'[s] = (row'[s].next_run_at <= now \/ row'[s].next_run_at % Day # row'[s].offset)
          BY <1>2, <1>8, <4>2, Rearmed
        <5>2. row'[s].next_run_at % Day # row'[s].offset => row'[s].next_run_at <= now
          <6>1. Reconciled(s) = Never \/ Reconciled(s) % Day = row[s].offset
            BY ReconciledFacts
          <6> QED
            BY <1>1, <1>4, <4>2, <6>1 DEF Never
        <5>3. late'[s] = (row'[s].next_run_at <= now)
          BY <5>1, <5>2
        <5>4. late'[s] = (q[s] \/ armed'[s] <= now)
          BY <2>2, <3>1, <5>3
        <5> QED
          BY <2>2, <4>2, <5>4, Zenon
      <4> QED
        BY <4>1, <4>2
    <3>3. late' = [s \in Schedules |-> IF armed'[s] = armed[s] THEN late[s] ELSE q[s] \/ armed'[s] <= now]
      BY <1>10, <3>2
    <3> QED
      BY <3>1, <3>3
  <2>5. \A s \in Schedules : armed'[s] # armed[s] =>
          Daily!Later(s, armed'[s]) /\ (Daily!Due(s) /\ armed'[s] > now => late[s])
    BY <2>2, <2>3 DEF Daily!Due
  <2> QED
    BY <1>2, <2>1, <2>4, <2>5 DEF Daily!Recover, armed
<1> QED
  BY <1>9, <1>11, <1>12, <1>13, <1>14 DEF ScheduleFacts

-----------------------------------------------------------------------------
(* Every step.                                                             *)

LEMMA Starts ==
    ASSUME Init
    PROVE  ScheduleFacts /\ Daily!Init
<1>1. Day \in Nat /\ Day >= 1 /\ MaxTime \in Nat /\ MaxTime >= Day
  BY ConstantsAssumption
<1>2. 0 \in Offsets /\ Day \in Instants /\ Never \in Instants /\ Never = 0
  BY <1>1, Nothing DEF Instants, Never
<1>3. PICK next \in Nat : next = nextDailyRun(0, Day)
  BY <1>1, <1>2, NextRun
<1>4. Day < next /\ next <= Day + Day /\ next % Day = 0
  BY <1>1, <1>2, <1>3, NextRun
<1>5. next \in Instants /\ next # Never
  BY <1>1, <1>2, <1>3, <1>4 DEF Instants
<1>6. PICK first \in RowTypes : first = Row("row", TRUE, 0, next, Never, Day)
  BY <1>2, <1>5, RowFacts
<1>7. /\ first.life = "row" /\ first.enabled /\ first.offset = 0 /\ first.next_run_at = next
      /\ first.last_run_at = 0 /\ first.updated_at = Day
  BY <1>2, <1>6 DEF Row
<1>8. \A s \in Schedules : row[s] \in {NoRow, first}
  BY <1>3, <1>6 DEF Init
<1>9. /\ now = Day /\ row \in [Schedules -> RowTypes]
      /\ sweep = [w \in Sweepers |-> NoSweep] /\ edit = [e \in Edits |-> NoEdit]
      /\ taken = [s \in Schedules |-> {}] /\ late = [s \in Schedules |-> FALSE]
  BY <1>3, <1>6, Nothing DEF Init
<1>10. /\ NoSweep \in Sweeping /\ NoSweep.now = 0 /\ NoSweep.due = {}
       /\ NoEdit \in Editing /\ NoEdit.at = "idle" /\ NoEdit.of = {}
  BY Nothing DEF NoSweep, Sweeping, NoEdit, Editing
<1>11. ScheduleTypes
  BY <1>1, <1>9, <1>10 DEF ScheduleTypes
<1>12. \A s \in Schedules :
         /\ row[s].last_run_at = 0 /\ row[s].updated_at <= Day /\ row[s].offset = 0
         /\ row[s].next_run_at = Never \/ row[s].next_run_at = next
         /\ row[s].life = "row" => row[s] = first
  BY <1>1, <1>2, <1>7, <1>8, Nothing
<1>13. TakenBefore
  <2>1. 0 <= now
    BY <1>1, <1>9
  <2> QED
    BY <1>9, <1>10, <1>12, <2>1 DEF TakenBefore
<1>14. ArmedInTime
  <2> SUFFICES ASSUME NEW s \in Schedules, row[s].next_run_at # Never
               PROVE  /\ row[s].next_run_at % Day = row[s].offset
                      /\ row[s].updated_at < row[s].next_run_at
                      /\ row[s].last_run_at < row[s].next_run_at
    BY DEF ArmedInTime
  <2>1. row[s].next_run_at = next /\ row[s].updated_at \in Nat
    BY <1>9, <1>12, RowFields
  <2> QED
    BY <1>1, <1>4, <1>12, <2>1
<1>15. \A e \in Edits : Computed(e)
  BY <1>9, <1>10 DEF Computed
<1>16. Untouched
  BY <1>4, <1>5, <1>7, <1>9, <1>10, <1>12 DEF Untouched, Exists, AsConfigured
<1>17. Cardinality({e \in Edits : edit[e].at = "done"}) = 0
  <2>1. {e \in Edits : edit[e].at = "done"} = {}
    BY <1>9, <1>10
  <2> QED
    BY <2>1, FS_EmptySet
<1>18. [s \in Schedules |-> row[s].next_run_at] \in [Schedules -> Instants \cup {Never}]
  BY <1>9, RowFields
<1>19. Daily!Init
  BY <1>2, <1>9, <1>17, <1>18 DEF Daily!Init
<1> QED
  BY <1>11, <1>13, <1>14, <1>15, <1>16, <1>19 DEF ScheduleFacts

LEMMA Steps ==
    ASSUME ScheduleFacts, [Next]_vars
    PROVE  ScheduleFacts' /\ (Daily!Next \/ UNCHANGED Shown)
<1>1. CASE Tick
  BY <1>1, TickQuiet DEF Daily!Next
<1>2. ASSUME NEW e \in Edits, NEW s \in Schedules,
             NEW offset \in Offsets, NEW enabled \in BOOLEAN, UpsertAsk(e, s, offset, enabled)
      PROVE  ScheduleFacts' /\ (Daily!Next \/ UNCHANGED Shown)
  BY <1>2, EditQuiet
<1>3. ASSUME NEW e \in Edits, NEW s \in Schedules, UpsertCreate(e, s)
      PROVE  ScheduleFacts' /\ (Daily!Next \/ UNCHANGED Shown)
  BY <1>3, Creating DEF Daily!Next
<1>4. ASSUME NEW e \in Edits, NEW s \in Schedules, UpsertRead(e, s)
      PROVE  ScheduleFacts' /\ (Daily!Next \/ UNCHANGED Shown)
  BY <1>4, EditQuiet
<1>5. ASSUME NEW e \in Edits, NEW s \in Schedules, NEW offset \in Offsets, ProfileRead(e, s, offset)
      PROVE  ScheduleFacts' /\ (Daily!Next \/ UNCHANGED Shown)
  BY <1>5, EditQuiet
<1>6. ASSUME NEW e \in Edits, NEW s \in Schedules, ProfileCompute(e, s)
      PROVE  ScheduleFacts' /\ (Daily!Next \/ UNCHANGED Shown)
  BY <1>6, EditQuiet
<1>7. ASSUME NEW e \in Edits, NEW s \in Schedules, ProfileWrite(e, s)
      PROVE  ScheduleFacts' /\ (Daily!Next \/ UNCHANGED Shown)
  BY <1>7, Retiming DEF Daily!Next
<1>8. ASSUME NEW e \in Edits, NEW s \in Schedules, UpsertWrite(e, s)
      PROVE  ScheduleFacts' /\ (Daily!Next \/ UNCHANGED Shown)
  BY <1>8, Upserting DEF Daily!Next
<1>9. ASSUME NEW e \in Edits, NEW s \in Schedules, deleteSchedule(e, s)
      PROVE  ScheduleFacts' /\ (Daily!Next \/ UNCHANGED Shown)
  BY <1>9, Deleting DEF Daily!Next
<1>10. ASSUME NEW w \in Sweepers, runBackupScheduleSweep(w)
       PROVE  ScheduleFacts' /\ (Daily!Next \/ UNCHANGED Shown)
  BY <1>10, SweepQuiet, ClaimStep DEF runBackupScheduleSweep, Daily!Next
<1>11. ASSUME NEW v \in Servers, (Crash(v) \/ Restart(v))
       PROVE  ScheduleFacts' /\ (Daily!Next \/ UNCHANGED Shown)
  BY <1>11, ServerQuiet
<1>12. ASSUME NEW v \in Servers, reconcileBackupScheduleTimes(v)
       PROVE  ScheduleFacts' /\ (Daily!Next \/ UNCHANGED Shown)
  BY <1>12, Reconciling DEF Daily!Next
<1>13. CASE UNCHANGED vars
  BY <1>13 DEF vars, ScheduleFacts, ScheduleTypes, TakenBefore, ArmedInTime, Computed, Untouched,
               Exists, AsConfigured, Shown
<1>14. CASE Operator
  BY <1>2, <1>3, <1>4, <1>5, <1>6, <1>7, <1>8, <1>9, <1>14 DEF Operator
<1> QED
  BY <1>1, <1>10, <1>11, <1>12, <1>13, <1>14 DEF Next

\* claimDueSchedule, reconcileBackupScheduleTimes and the edits of a schedule: the backup
\* schedules are daily schedules as DailyRuns has them. However many servers, sweeps, edits and
\* crashes there are, no occurrence is claimed before it is due, out of order or twice between
\* two edits, and none that is due is passed over, but where it was armed late or by a stale reading.
THEOREM SchedulesAreDaily == Spec => RunsAreDaily
<1>1. Init => ScheduleFacts /\ Daily!Init
  BY Starts
<1>2. ScheduleFacts /\ [Next]_vars => ScheduleFacts'
  BY Steps
<1>3. ScheduleFacts /\ [Next]_vars =>
        [Daily!Next]_<<now, [s \in Schedules |-> row[s].next_run_at], late, taken,
                       Cardinality({e \in Edits : edit[e].at = "done"})>>
  BY Steps DEF Shown
<1> QED
  BY <1>1, <1>2, <1>3, PTL DEF Spec, RunsAreDaily, Daily!Spec
=============================================================================
