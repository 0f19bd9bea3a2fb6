-------------------------- MODULE GeographyImport --------------------------
(***************************************************************************)
(* The import of one source into the global geography master              *)
(* (geography-master/import.service.js), run by an operator command by     *)
(* command (scripts/geography-master.js). Every version of the source has  *)
(* one batch, found again by its checksum: its rows are staged, imported   *)
(* level by level in pages of one transaction each, and what the version   *)
(* does not list can be retired. A command can fail, or its process die,   *)
(* between any two writes; the next one takes the batch up where its rows  *)
(* say it is.                                                              *)
(*                                                                         *)
(* One country, and the source is preferred for all it lists: the filters  *)
(* of retirement on these are left out, as is the matching of LGD names    *)
(* with rows of other sources, which can also set a row aside as           *)
(* ambiguous. LGD lists no country: its states, which take the active row  *)
(* of India as their parent, are the first level then, and that row is     *)
(* taken to be there.                                                      *)
(***************************************************************************)
EXTENDS Naturals, FiniteSets

CONSTANTS
    Versions,     \* the versions of the source file
    Codes,        \* external_code
    Level,        \* the level of each code, 0 for country
    Parent,       \* parent_external_code of each code
    Files,        \* what the versions may say of each code
    PageSize,     \* batchSize of stageRecords and of importStagedBatch
    MaxCommands   \* bound on the commands of the operator

Levels == {Level[c] : c \in Codes}
Contents == {"absent", "valid", "inactive", "rejected"}

GeographyAssumption ==
    /\ IsFiniteSet(Codes) /\ IsFiniteSet(Versions)
    /\ Level \in [Codes -> Nat] /\ Parent \in [Codes -> Codes]
    /\ \A c \in Codes : \A level \in 0 .. Level[c] : level \in Levels
    /\ \A c \in Codes : Level[c] > 0 => Level[Parent[c]] < Level[c]
    /\ Files \subseteq [Versions -> [Codes -> Contents]]
    /\ PageSize \in Nat \ {0} /\ MaxCommands \in Nat

VARIABLES
    file,        \* what each version says of each code
    batch,       \* GlobalGeographyImportBatch.status of each version
    staged,      \* validation_status of each version's staged rows
    geography,   \* the master's rows: is_active, or none
    run,         \* the command that is running
    commands,    \* the commands so far
    torn,        \* history: versions whose rows were being staged when they were imported
    dropped      \* history: of each version, the codes that were taken out, or written active where
                 \* it has them inactive or the reverse, since it last processed them

vars == <<file, batch, staged, geography, run, commands, torn, dropped>>

-----------------------------------------------------------------------------
Idle == [at |-> "idle"]

\* raw_payload.isActive: an LGD row can be valid and say of itself that it is not active
Activity(v, c) == IF file[v][c] = "inactive" THEN "retired" ELSE "active"
Validated(v, c) == IF file[v][c] = "inactive" THEN "valid" ELSE file[v][c]

Listed(v) == {c \in Codes : file[v][c] # "absent"}
ValidRows(v, level) == {c \in Codes : Level[c] = level /\ staged[v][c] = "valid"}
Processed(v) == {c \in Codes : staged[v][c] = "processed"}
ImportedLevels(v) == {Level[c] : c \in Processed(v)}

Init ==
    /\ file \in Files
    /\ batch = [v \in Versions |-> "none"]
    /\ staged = [v \in Versions |-> [c \in Codes |-> "none"]]
    /\ geography = [c \in Codes |-> "none"]
    /\ run = Idle
    /\ commands = 0
    /\ torn = {}
    /\ dropped = [v \in Versions |-> {}]

Starts == run = Idle /\ commands < MaxCommands /\ commands' = commands + 1

-----------------------------------------------------------------------------
(* createImportBatch and stageRecords: a batch of this checksum is reused, and completed it is left *)
BeginStaging(v) ==
    /\ Starts
    /\ batch[v] # "completed"
    /\ batch' = [batch EXCEPT ![v] = IF @ = "none" THEN "staging" ELSE @]
    /\ run' = [at |-> "stage", version |-> v, left |-> Listed(v)]
    /\ UNCHANGED <<file, staged, geography, torn, dropped>>

(* The rows that one flush writes, whatever an earlier staging or import has made of them *)
Staged(S) ==
    [staged EXCEPT ![run.version] = [c \in Codes |-> IF c \in S THEN Validated(run.version, c) ELSE @[c]]]

Flush ==
    /\ run.at = "stage"
    /\ \E S \in SUBSET run.left :
        /\ S # {} /\ (S = run.left \/ Cardinality(S) = PageSize) /\ Cardinality(S) <= PageSize
        /\ staged' = Staged(S)
        /\ run' = [run EXCEPT !.left = @ \ S]
    /\ UNCHANGED <<file, batch, geography, commands, torn, dropped>>

EndStaging ==
    /\ run.at = "stage" /\ run.left = {}
    /\ batch' = [batch EXCEPT ![run.version] = "staged"]
    /\ torn' = torn \ {run.version}
    /\ run' = Idle
    /\ UNCHANGED <<file, staged, geography, commands, dropped>>

-----------------------------------------------------------------------------
(* importStagedBatch: a completed batch is answered from its summary *)
BeginImport(v, retire) ==
    /\ Starts
    /\ batch[v] \notin {"none", "completed"}
    /\ batch' = [batch EXCEPT ![v] = "importing"]
    /\ run' = [at |-> "import", version |-> v, retire |-> retire, level |-> 0, taken |-> {}]
    /\ UNCHANGED <<file, staged, geography, torn, dropped>>

(* resolveParentId: the row of the source for the parent's code, retired or not *)
Resolved(c) == Level[c] = 0 \/ geography[Parent[c]] # "none"

(* importLevelPage, one transaction: the rows that have a parent are written, with the activity *)
(* the source gives them, and the others explained                                              *)
Page ==
    /\ run.at = "import"
    /\ \E S \in SUBSET ValidRows(run.version, run.level) :
        /\ S # {} /\ (S = ValidRows(run.version, run.level) \/ Cardinality(S) = PageSize)
        /\ Cardinality(S) <= PageSize
        /\ LET written == {c \in S : Resolved(c)} IN
            /\ staged' = [staged EXCEPT ![run.version] =
                [c \in Codes |-> IF c \in written THEN "processed" ELSE IF c \in S THEN "orphaned" ELSE @[c]]]
            /\ geography' = [c \in Codes |-> IF c \in written THEN Activity(run.version, c) ELSE geography[c]]
            /\ run' = [run EXCEPT !.taken = @ \cup written]
            /\ dropped' = [v \in Versions |-> IF v = run.version THEN dropped[v] \ written ELSE
                dropped[v] \cup {c \in written : Activity(v, c) # Activity(run.version, c)}]
    /\ UNCHANGED <<file, batch, commands, torn>>

\* Mutant: the loop takes a step too many
LevelAfter_Skips(level) == level + 2

(* The levels in LEVEL_ORDER *)
LevelAfter(level) == level + 1

NextLevel ==
    /\ run.at = "import"
    /\ run.level \in Levels
    /\ ValidRows(run.version, run.level) = {}
    /\ run' = [run EXCEPT !.level = LevelAfter(@)]
    /\ UNCHANGED <<file, batch, staged, geography, commands, torn, dropped>>

\* Mutant: only what this run has processed is spared
Spared_ThisRun == run.taken

(* The codes retirement spares: every row of the batch that has been processed, in this run or before *)
Spared == Processed(run.version)

(* The active codes on the levels it has imported that it does not spare *)
Missing ==
    {c \in Codes : geography[c] = "active" /\ c \notin Spared /\ Level[c] \in ImportedLevels(run.version)}

Retire ==
    /\ run.at = "import" /\ run.level \notin Levels
    /\ LET gone == IF run.retire /\ Spared # {} THEN Missing ELSE {} IN
        /\ geography' = [c \in Codes |-> IF c \in gone THEN "retired" ELSE geography[c]]
        /\ dropped' = [v \in Versions |-> IF v = run.version THEN dropped[v] ELSE dropped[v] \cup gone]
    /\ run' = [run EXCEPT !.at = "retired"]
    /\ UNCHANGED <<file, batch, staged, commands, torn>>

Complete ==
    /\ run.at = "retired"
    /\ batch' = [batch EXCEPT ![run.version] = "completed"]
    /\ run' = Idle
    /\ UNCHANGED <<file, staged, geography, commands, torn, dropped>>

(* An exception of the import, after which the batch is failed *)
Fail ==
    /\ run.at \in {"import", "retired"}
    /\ batch' = [batch EXCEPT ![run.version] = "failed"]
    /\ run' = Idle
    /\ UNCHANGED <<file, staged, geography, commands, torn, dropped>>

(* The process dies, or staging throws: the batch keeps the status it has *)
Crash ==
    /\ run # Idle
    /\ run' = Idle
    /\ torn' = IF run.at = "stage" THEN torn \cup {run.version} ELSE torn
    /\ UNCHANGED <<file, batch, staged, geography, commands, dropped>>

(* markSourceRecordsInactive, from a file of deletions *)
Delete(S) ==
    /\ Starts
    /\ geography' = [c \in Codes |->
        IF c \in S /\ geography[c] # "none" THEN "retired" ELSE geography[c]]
    /\ dropped' = [v \in Versions |-> dropped[v] \cup S]
    /\ UNCHANGED <<file, batch, staged, run, torn>>

Next ==
    \/ \E v \in Versions : BeginStaging(v)
    \/ \E v \in Versions, retire \in BOOLEAN : BeginImport(v, retire)
    \/ \E c \in Codes : Delete({c})
    \/ Flush \/ EndStaging
    \/ Page \/ NextLevel \/ Retire \/ Complete \/ Fail \/ Crash

Spec == Init /\ [][Next]_vars

-----------------------------------------------------------------------------
TypeOK ==
    /\ file \in Files
    /\ batch \in [Versions -> {"none", "staging", "staged", "importing", "completed", "failed"}]
    /\ staged \in [Versions -> [Codes -> {"none", "valid", "rejected", "processed", "orphaned"}]]
    /\ geography \in [Codes -> {"none", "active", "retired"}]
    /\ run.at \in {"idle", "stage", "import", "retired"}
    /\ commands \in 0 .. MaxCommands
    /\ torn \subseteq Versions /\ dropped \in [Versions -> SUBSET Codes]

(* A batch that is completed has all that its version lists: every valid row  *)
(* is processed, or orphaned because its parent is not among the processed,   *)
(* and the rejected rows are still there, whatever runs failed or died before *)
(* and wherever they stopped. Excepted are the versions last staged by a      *)
(* command that died: stageRecords leaves no mark of that and the batch is    *)
(* imported as if it were whole.                                              *)
CompletedIsWhole ==
    \A v \in Versions \ torn : batch[v] = "completed" =>
        \A c \in Codes :
            CASE file[v][c] = "absent" -> staged[v][c] = "none"
              [] file[v][c] = "rejected" -> staged[v][c] = "rejected"
              [] OTHER -> \/ staged[v][c] = "processed"
                          \/ /\ staged[v][c] = "orphaned"
                             /\ Level[c] > 0 /\ staged[v][Parent[c]] # "processed"

(* When a batch is completed with retireMissing, what is active on the levels *)
(* it has imported is among what it has processed, over all the runs that it  *)
(* took, and that is active or not as its source says; but for what a file of *)
(* deletions, the retirement of another version or its import has changed in  *)
(* between: a row processed before that is not imported again.                *)
RetiredAreMissing ==
    [][\A v \in Versions :
        (batch'[v] = "completed" /\ batch[v] # "completed" /\ run.retire) =>
            \A c \in Codes : Level[c] \in ImportedLevels(v) =>
                /\ geography[c] = "active" => c \in Processed(v)
                /\ c \in Processed(v) \ dropped[v] => geography[c] = Activity(v, c)]_vars
=============================================================================
