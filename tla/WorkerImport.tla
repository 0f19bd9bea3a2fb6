---------------------------- MODULE WorkerImport ----------------------------
(***************************************************************************)
(* Workers imported from a file (workers-import/workerImport.service.js):  *)
(* a file is validated into a job and its rows, and a confirmation makes   *)
(* an account of each valid row, in one transaction that holds the job     *)
(* locked. A worker is told apart by the employee code, on which accounts  *)
(* have a unique index: an insert waits for the transaction that has       *)
(* inserted the same code, and a refused insert, as any error of the       *)
(* database, aborts the whole transaction, for nothing can be written in   *)
(* it any more. Notifications use another connection, and stay whatever    *)
(* becomes of the transaction.                                             *)
(***************************************************************************)
EXTENDS Naturals, FiniteSets

CONSTANTS
    Jobs,       \* files uploaded
    Codes,      \* employee codes, each in a row of every file
    Confirms,   \* requests to confirm a job
    Nobody      \* the job of an account made elsewhere

ImportAssumption ==
    IsFiniteSet(Jobs) /\ IsFiniteSet(Codes) /\ IsFiniteSet(Confirms) /\ Nobody \notin Jobs

VARIABLES
    job,        \* the WorkerImportJob rows
    rows,       \* the status of each WorkerImportRow
    file,       \* the rows of each file that are valid, once it is validated
    account,    \* the accounts with each code, by the job that made them
    confirm,    \* where each confirmation is, with what its transaction has written
    announced,  \* the rows whose account somebody has been told of
    undone,     \* history: the rows with an insert that was rolled back
    early       \* history: the jobs confirmed before their rows were stored

vars == <<job, rows, file, account, confirm, announced, undone, early>>

-----------------------------------------------------------------------------
NoJob == [status |-> "none", created |-> 0, failed |-> 0]
Idle == [at |-> "idle", jobs |-> {}, mode |-> "none", todo |-> {}, row |-> {}, made |-> {}, failed |-> {}]
Confirmed == {"COMPLETED", "PARTIALLY_COMPLETED"}

OfStatus(j, status) == {c \in Codes : rows[j][c] = status}

\* Another transaction has inserted an account with the code and not ended.
Pending(c, code) == \E d \in Confirms \ {c} : code \in confirm[d].made \cup confirm[d].failed \cup confirm[d].row
Locked(c, j) == \E d \in Confirms \ {c} : j \in confirm[d].jobs

Init ==
    /\ job = [j \in Jobs |-> NoJob]
    /\ rows = [j \in Jobs |-> [c \in Codes |-> "none"]]
    /\ file \in [Jobs -> SUBSET Codes]
    /\ account \in [Codes -> {{}, {Nobody}}]
    /\ confirm = [c \in Confirms |-> Idle]
    /\ announced = {} /\ undone = {} /\ early = {}

-----------------------------------------------------------------------------
(* persistValidationResults: the job, then its rows, in no transaction.    *)

\* validateRow: what is wrong with a row by itself is wrong whenever it is asked; a code
\* that has an account by now is one more error.
ValidRows(j) == {c \in file[j] : account[c] = {}}

CreateJob(j) ==
    /\ job[j].status = "none"
    /\ job' = [job EXCEPT ![j].status = "VALIDATED"]
    /\ file' = [file EXCEPT ![j] = ValidRows(j)]
    /\ UNCHANGED <<rows, account, confirm, announced, undone, early>>

\* One insert of all the rows, which a crash or an error can come before.
CreateRows(j) ==
    /\ job[j].status # "none" /\ OfStatus(j, "none") = Codes
    /\ rows' = [rows EXCEPT ![j] = [c \in Codes |-> IF c \in file[j] THEN "VALID" ELSE "INVALID"]]
    /\ UNCHANGED <<job, file, account, confirm, announced, undone, early>>

-----------------------------------------------------------------------------
(* confirmImport                                                           *)

\* Mutant: the job is read without a lock.
ReadJob_Unlocked(c, j) ==
    /\ confirm[c].at = "idle" /\ job[j].status # "none"
    /\ confirm' = [confirm EXCEPT ![c] =
            IF job[j].status \in Confirmed THEN [Idle EXCEPT !.at = "done"]
            ELSE [Idle EXCEPT !.at = "rows", !.jobs = {j}]]
    /\ UNCHANGED <<job, rows, file, account, announced, undone, early>>

\* A job confirmed before is shown as it is. Its status IMPORTING nobody else sees.
ReadJob(c, j) ==
    /\ confirm[c].at = "idle" /\ job[j].status # "none"
    /\ ~Locked(c, j)
    /\ confirm' = [confirm EXCEPT ![c] =
            IF job[j].status \in Confirmed THEN [Idle EXCEPT !.at = "done"]
            ELSE [Idle EXCEPT !.at = "rows", !.jobs = {j}]]
    /\ UNCHANGED <<job, rows, file, account, announced, undone, early>>

ReadRows(c, j) ==
    /\ confirm[c].at = "rows" /\ j \in confirm[c].jobs
    /\ \E mode \in {"VALID_ROWS_ONLY", "ALL_OR_NOTHING"} :
        confirm' = [confirm EXCEPT ![c] =
            IF mode = "ALL_OR_NOTHING" /\ OfStatus(j, "INVALID") # {} THEN [Idle EXCEPT !.at = "done"]
            ELSE [@ EXCEPT !.at = "row", !.mode = mode, !.todo = OfStatus(j, "VALID")]]
    /\ early' = IF OfStatus(j, "none") = Codes THEN early \cup {j} ELSE early
    /\ UNCHANGED <<job, rows, file, account, announced, undone>>

\* The account, its role and its assignment.
InsertAccount(c, code) ==
    /\ confirm[c].at = "row" /\ code \in confirm[c].todo
    /\ ~Pending(c, code) /\ account[code] = {}
    /\ confirm' = [confirm EXCEPT ![c].at = "announce", ![c].row = {code}, ![c].todo = @ \ {code}]
    /\ UNCHANGED <<job, rows, file, account, announced, undone, early>>

\* An error here is the row's, whose account the transaction keeps, if the mode allows.
Announce(c, j, code) ==
    /\ confirm[c].at = "announce" /\ code \in confirm[c].row /\ j \in confirm[c].jobs
    /\ \/ /\ announced' = announced \cup {<<j, code>>}
          /\ confirm' = [confirm EXCEPT ![c].at = "row", ![c].row = {}, ![c].made = @ \cup {code}]
       \/ /\ confirm[c].mode = "VALID_ROWS_ONLY"
          /\ confirm' = [confirm EXCEPT ![c].at = "row", ![c].row = {}, ![c].failed = @ \cup {code}]
          /\ UNCHANGED announced
    /\ UNCHANGED <<job, rows, file, account, undone, early>>

\* The job is finished, the rows and accounts are there for everybody.
Commit(c, j) ==
    /\ confirm[c].at = "row" /\ confirm[c].todo = {} /\ j \in confirm[c].jobs
    /\ LET t == confirm[c]
       IN  /\ job' = [job EXCEPT ![j] =
                [status |-> IF t.failed = {} THEN "COMPLETED" ELSE "PARTIALLY_COMPLETED",
                 created |-> Cardinality(t.made),
                 failed |-> Cardinality(t.failed) + Cardinality(OfStatus(j, "INVALID"))]]
           /\ rows' = [rows EXCEPT ![j] = [code \in Codes |->
                IF code \in t.made THEN "IMPORTED" ELSE IF code \in t.failed THEN "FAILED" ELSE @[code]]]
           /\ account' = [code \in Codes |-> IF code \in t.made \cup t.failed THEN account[code] \cup {j}
                                             ELSE account[code]]
    /\ confirm' = [confirm EXCEPT ![c] = [Idle EXCEPT !.at = "done"]]
    /\ UNCHANGED <<file, announced, undone, early>>

\* An insert is refused, two transactions wait for each other's code and the database
\* aborts one, a query is rejected, or the process dies.
Rollback(c, j) ==
    /\ confirm[c].at \in {"rows", "row", "announce"} /\ j \in confirm[c].jobs
    /\ undone' = undone \cup ({j} \X (confirm[c].made \cup confirm[c].failed \cup confirm[c].row))
    /\ confirm' = [confirm EXCEPT ![c] = [Idle EXCEPT !.at = "done"]]
    /\ UNCHANGED <<job, rows, file, account, announced, early>>

confirmImport(c) ==
    \E j \in Jobs :
        \/ ReadJob(c, j) \/ ReadRows(c, j) \/ Commit(c, j) \/ Rollback(c, j)
        \/ \E code \in Codes : InsertAccount(c, code) \/ Announce(c, j, code)

Next ==
    \/ \E j \in Jobs : CreateJob(j) \/ CreateRows(j)
    \/ \E c \in Confirms : confirmImport(c)

Spec == Init /\ [][Next]_vars

-----------------------------------------------------------------------------
\* Every variable has the shape the code gives it.
TypeOK ==
    /\ \A j \in Jobs :
        /\ job[j].status \in {"none", "VALIDATED"} \cup Confirmed
        /\ job[j].created \in Nat /\ job[j].failed \in Nat
    /\ rows \in [Jobs -> [Codes -> {"none", "VALID", "INVALID", "IMPORTED", "FAILED"}]]
    /\ account \in [Codes -> SUBSET (Jobs \cup {Nobody})]
    /\ announced \subseteq Jobs \X Codes /\ undone \subseteq Jobs \X Codes /\ early \subseteq Jobs

\* However often and by whomever a job is confirmed, it is imported once and whole. A
\* code has one account; the accounts of a job are its rows that are imported, and those
\* that failed, which failed for want of a notification only; its counters say how many;
\* before it is confirmed there is nothing of it, and afterwards no valid row is left,
\* where the rows were stored when it was. Who was told of an account that is not there
\* was told before a rollback.
ImportIsWhole ==
    /\ \A code \in Codes : \A j, k \in account[code] : j = k
    /\ \A j \in Jobs :
        /\ \A code \in Codes :
            /\ j \in account[code] <=> rows[j][code] \in {"IMPORTED", "FAILED"}
            /\ rows[j][code] = "IMPORTED" => <<j, code>> \in announced
            /\ <<j, code>> \in announced /\ j \notin account[code] =>
                <<j, code>> \in undone \/ \E c \in Confirms : j \in confirm[c].jobs
        /\ job[j].status \in Confirmed =>
            /\ job[j].created = Cardinality(OfStatus(j, "IMPORTED"))
            /\ (job[j].status = "COMPLETED") <=> (OfStatus(j, "FAILED") = {})
            /\ j \notin early => job[j].failed = Cardinality(OfStatus(j, "FAILED")) + Cardinality(OfStatus(j, "INVALID"))
                                 /\ OfStatus(j, "VALID") = {}
        /\ job[j].status = "VALIDATED" => OfStatus(j, "IMPORTED") \cup OfStatus(j, "FAILED") = {}
=============================================================================
