---------------------------- MODULE MCSchedules ----------------------------
(* BackupSchedules with two settings, each a part of its own: one edit      *)
(* beside the sweeps of a server and of the cron endpoint, and two edits    *)
(* that cross, beside a server that may crash once.                         *)
EXTENDS BackupSchedules

VARIABLE part

all == <<part, vars>>

FirstEdit == CHOOSE e \in Edits : TRUE

\* The edits are interchangeable: the first to begin is always the same.
OneEdit == \A e \in Edits \ {FirstEdit} : edit[e].at = "idle"
InTurn == OneEdit \/ edit[FirstEdit].at # "idle"

\* The smaller bounds of the second part.
ServerOnly == crashes <= 1 /\ now < MaxTime /\ \A c \in Crons : sweep[c].at = "idle"

MCInit == part \in {"endpoint", "edits"} /\ Init

MCNext ==
    /\ Next
    /\ UNCHANGED part
    /\ part = "endpoint" => OneEdit'
    /\ part = "edits" => InTurn' /\ ServerOnly'

MCSpec == MCInit /\ [][MCNext]_all /\ Fairness
=============================================================================
