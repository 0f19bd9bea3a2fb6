----------------------------- MODULE DailyRuns -----------------------------
(***************************************************************************)
(* What a backup schedule promises, whatever processes serve it: the       *)
(* occurrence it is armed for is taken when it is due and not before,      *)
(* occurrences are taken in order and each at most once, and only an       *)
(* operator who configures the schedule starts the account anew. Recovery  *)
(* after an outage may arm another occurrence, one that has not been       *)
(* taken; it passes over a due one for one that is not only where that     *)
(* was armed late, when it was already due, or by a stale reading of a     *)
(* schedule that has been configured since.                                *)
(* BackupSchedules implements it.                                          *)
(***************************************************************************)
EXTENDS Naturals

CONSTANTS
    Schedules,  \* the schedules
    Times,      \* instants
    Never       \* armed for nothing

TimesAssumption == Times \subseteq Nat /\ Never \in Nat

VARIABLES
    clock,      \* the time
    armed,      \* the occurrence each schedule waits for
    late,       \* that occurrence was due already when it was armed, or armed by a stale reading
    taken,      \* the occurrences taken since the schedule was configured
    edits       \* how often schedules have been configured

Due(s) == armed[s] # Never /\ armed[s] <= clock
Later(s, o) == \A t \in taken[s] : t < o
Stale == IF edits > 0 THEN BOOLEAN ELSE {FALSE}

Init ==
    /\ clock \in Times
    /\ armed \in [Schedules -> Times \cup {Never}]
    /\ late = [s \in Schedules |-> FALSE]
    /\ taken = [s \in Schedules |-> {}]
    /\ edits = 0

Tick ==
    /\ clock' \in Times
    /\ clock' > clock
    /\ UNCHANGED <<armed, late, taken, edits>>

Take(s) ==
    /\ Due(s)
    /\ Later(s, armed[s])
    /\ taken' = [taken EXCEPT ![s] = @ \cup {armed[s]}]
    /\ \E o \in Times, stale \in Stale :
        /\ o > armed[s]
        /\ armed' = [armed EXCEPT ![s] = o]
        /\ late' = [late EXCEPT ![s] = stale \/ o <= clock]
    /\ UNCHANGED <<clock, edits>>

Configure(s) ==
    /\ edits' = edits + 1
    /\ \E o \in Times \cup {Never}, stale \in Stale :
        /\ armed' = [armed EXCEPT ![s] = o]
        /\ \/ late' = [late EXCEPT ![s] = stale \/ o <= clock]
           \/ late' = late /\ o = armed[s]
    /\ taken' = [taken EXCEPT ![s] = {}]
    /\ UNCHANGED clock

\* Of any number of schedules in one step.
Recover ==
    /\ armed' \in [Schedules -> Times \cup {Never}]
    /\ \A s \in Schedules : armed'[s] # armed[s] =>
        /\ Later(s, armed'[s])
        /\ Due(s) /\ armed'[s] > clock => late[s]
    /\ \E stale \in [Schedules -> Stale] :
        late' = [s \in Schedules |-> IF armed'[s] = armed[s] THEN late[s] ELSE stale[s] \/ armed'[s] <= clock]
    /\ UNCHANGED <<clock, taken, edits>>

Next ==
    \/ Tick
    \/ Recover
    \/ \E s \in Schedules : Take(s) \/ Configure(s)

Spec == Init /\ [][Next]_<<clock, armed, late, taken, edits>>
=============================================================================
