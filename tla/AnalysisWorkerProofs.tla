------------------------ MODULE AnalysisWorkerProofs ------------------------
(***************************************************************************)
(* Proofs about the analysis queue with Redis: for any number of calls and *)
(* of attempts, crashes, failed database calls and late handlers, what the *)
(* rows account for stays within the budget; and in the setting without    *)
(* faults a job that is given up is recorded as such.                      *)
(***************************************************************************)
EXTENDS MCAnalysisWorker, SequenceTheorems, TLAPS

\* A run that has claimed its row, and has not ended.
Claimed == {"read", "process", "score", "finish", "tail"}

\* What is shown to the row by BullMQ's own count: the budget of the jobs that are gone, and
\* the attempts that the one there is has made.
Used == IF bull.state = "none" THEN bull.granted ELSE bull.granted - Attempts + bull.made

\* One more while a run is past its claim, which BullMQ counts when it throws.
Underway == IF run.at \in Claimed \/ bull.state = "completed" THEN 1 ELSE 0

\* Calls that close a stale row next.
Closing == {"failStale", "deadLetterStale"}

\* A job has attempts to spare until it is given up, a run belongs to an active job, and who
\* is to write a row has found it.
JobInOrder ==
    /\ bull.state # "none" => Attempts <= bull.granted
    /\ bull.state \in {"waiting", "active", "completed"} => bull.made < Attempts
    /\ run.at # "none" => bull.state = "active"
    /\ run.at = "none" => run = NoRun
    /\ run.at = "claim" => run.row \in Rows
    /\ \A h \in handlers : h.at = "job" => h.row \in Rows
    /\ \A c \in Calls : call[c] \in Closing => staleRow[c] \in Rows

WithinUse ==
    /\ \A r \in Rows : jobs[r].attempts <= Used + crashes + Underway
    /\ run.at = "claim" => run.read.attempts <= Used + crashes
    /\ \A h \in handlers : h.made <= Used

BudgetInv == TypeOK /\ JobInOrder /\ WithinUse

-----------------------------------------------------------------------------
(* Rows of the image.                                                      *)

JobRow == [status : JobStatuses, attempts : Nat, age : 0..2]

SetsRow(r, new) == r \in Rows /\ new \in JobRow /\ jobs' = [jobs EXCEPT ![r] = new]

AddsRow == jobs' = Append(jobs, Row("queued", 0))

\* A row is set to a status, with the attempts it had.
Restates == \E r \in Rows, new \in JobRow : SetsRow(r, new) /\ new.attempts = jobs[r].attempts

LEMMA RowsAre ==
    ASSUME TypeOK
    PROVE  /\ jobs \in Seq(JobRow) /\ Len(jobs) \in Nat
           /\ Rows = 1..Len(jobs)
           /\ \A r \in Rows : jobs[r] \in JobRow
<1>1. jobs \in Seq(JobRow)
  BY DEF TypeOK, JobRow
<1>2. Len(jobs) \in Nat /\ DOMAIN jobs = 1..Len(jobs)
  BY <1>1, LenProperties
<1>3. \A r \in 1..Len(jobs) : jobs[r] \in JobRow
  BY <1>1, ElementOfSeq
<1> QED
  BY <1>1, <1>2, <1>3 DEF Rows

LEMMA RowIsSet ==
    ASSUME TypeOK, NEW r, NEW new, SetsRow(r, new)
    PROVE  /\ jobs' \in Seq(JobRow) /\ Len(jobs') = Len(jobs) /\ Rows' = Rows
           /\ \A q \in Rows : jobs'[q] = IF q = r THEN new ELSE jobs[q]
<1>1. r \in 1..Len(jobs) /\ new \in JobRow /\ jobs \in Seq(JobRow)
  BY RowsAre DEF SetsRow
<1>2. /\ [jobs EXCEPT ![r] = new] \in Seq(JobRow)
      /\ Len([jobs EXCEPT ![r] = new]) = Len(jobs)
      /\ \A q \in 1..Len(jobs) : [jobs EXCEPT ![r] = new][q] = IF q = r THEN new ELSE jobs[q]
  BY <1>1, ExceptSeq
<1>3. jobs' = [jobs EXCEPT ![r] = new]
  BY DEF SetsRow
<1> QED
  BY <1>2, <1>3, RowsAre DEF Rows

LEMMA RowIsAdded ==
    ASSUME TypeOK, AddsRow
    PROVE  /\ jobs' \in Seq(JobRow) /\ Len(jobs') = Len(jobs) + 1 /\ Rows' = 1..(Len(jobs) + 1)
           /\ \A q \in Rows : jobs'[q] = jobs[q]
           /\ jobs'[Len(jobs) + 1].attempts = 0
<1>1. Row("queued", 0) \in JobRow /\ Row("queued", 0).attempts = 0
  BY DEF Row, JobRow, JobStatuses
<1>2. jobs \in Seq(JobRow) /\ Rows = 1..Len(jobs)
  BY RowsAre
<1>3. /\ Append(jobs, Row("queued", 0)) \in Seq(JobRow)
      /\ Len(Append(jobs, Row("queued", 0))) = Len(jobs) + 1
      /\ \A q \in 1..Len(jobs) : Append(jobs, Row("queued", 0))[q] = jobs[q]
      /\ Append(jobs, Row("queued", 0))[Len(jobs) + 1] = Row("queued", 0)
  BY <1>1, <1>2, AppendProperties
<1>4. jobs' = Append(jobs, Row("queued", 0))
  BY DEF AddsRow
<1>5. DOMAIN jobs' = 1..Len(jobs')
  BY <1>3, <1>4
<1> QED
  BY <1>1, <1>2, <1>3, <1>4, <1>5 DEF Rows

\* A status is one the code writes.
LEMMA RowTyped ==
    ASSUME NEW status \in JobStatuses, NEW attempts \in Nat
    PROVE  Row(status, attempts) \in JobRow /\ Row(status, attempts).attempts = attempts
BY DEF Row, JobRow

\* What a run or a handler that has read no row holds.
LEMMA NoReading == Row("queued", 0) \in Readings
BY DEF Row, Readings, JobStatuses

\* What a run or a handler reads.
LEMMA ReadingTyped ==
    ASSUME TypeOK, NEW r \in Rows
    PROVE  /\ Reading(r) \in Readings
           /\ Reading(r).attempts = jobs[r].attempts /\ Reading(r).status = jobs[r].status
BY RowsAre DEF Reading, Row, Readings, JobRow

\* What an update on an earlier reading leaves in a row.
LEMMA UpdatedIs ==
    ASSUME NEW row \in JobRow, NEW read \in Readings, NEW status \in JobStatuses,
           NEW attempts \in Nat, NEW new, new = Updated(row, read, status, attempts)
    PROVE  /\ new \in JobRow /\ new.age = 0
           /\ new.status = IF status = read.status THEN row.status ELSE status
           /\ new.attempts = IF attempts = read.attempts THEN row.attempts ELSE attempts
<1>1. PICK a : a = IF 0 = read.age THEN row.age ELSE 0
  OBVIOUS
<1>2. PICK kept \in JobStatuses : kept = IF status = read.status THEN row.status ELSE status
  BY DEF JobRow
<1>3. PICK n \in Nat : n = IF attempts = read.attempts THEN row.attempts ELSE attempts
  BY DEF JobRow
<1>4. Saved(row, read, Row(status, attempts)) = [status |-> kept, attempts |-> n, age |-> a]
  BY <1>1, <1>2, <1>3 DEF Saved, Row, JobRow
<1>5. new = [status |-> kept, attempts |-> n, age |-> 0]
  BY <1>4 DEF Updated
<1> QED
  BY <1>2, <1>3, <1>5 DEF JobRow

LEMMA StatusSet ==
    ASSUME TypeOK, NEW r \in Rows, NEW status \in JobStatuses,
           jobs' = [jobs EXCEPT ![r] = Row(status, @.attempts)]
    PROVE  Restates
<1>1. jobs[r] \in JobRow
  BY RowsAre
<1>2. jobs[r].attempts \in Nat
  BY <1>1 DEF JobRow
<1>3. Row(status, jobs[r].attempts) \in JobRow /\ Row(status, jobs[r].attempts).attempts = jobs[r].attempts
  BY <1>2, RowTyped
<1>4. SetsRow(r, Row(status, jobs[r].attempts))
  BY <1>3 DEF SetsRow
<1> QED
  BY <1>3, <1>4 DEF Restates

\* What a call of enqueueInspectionAnalysis does to the rows.
LEMMA CallRows ==
    ASSUME TypeOK, JobInOrder, NEW c \in Calls, Enqueue(c)
    PROVE  jobs' = jobs \/ Restates \/ AddsRow
<1>1. CASE Trigger(c) \/ findRecentProcessingJob(c) \/ FindStale(c) \/ MarkStaleMedia(c) \/ addJob(c)
           \/ CallThrows(c)
  BY <1>1 DEF Trigger, findRecentProcessingJob, FindStale, MarkStaleMedia, addJob, CallThrows
<1>2. CASE CloseStale(c)
  <2>1. staleRow[c] \in Rows /\ "dead_letter" \in JobStatuses /\ "failed" \in JobStatuses
    BY <1>2 DEF CloseStale, JobInOrder, Closing, JobStatuses
  <2>2. \/ jobs' = [jobs EXCEPT ![staleRow[c]] = Row("dead_letter", @.attempts)]
        \/ jobs' = [jobs EXCEPT ![staleRow[c]] = Row("failed", @.attempts)]
    BY <1>2 DEF CloseStale
  <2> QED
    BY <2>1, <2>2, StatusSet
<1>3. CASE createProcessingJobRecord(c)
  BY <1>3 DEF createProcessingJobRecord, AddsRow
<1> QED
  BY <1>1, <1>2, <1>3 DEF Enqueue

LEMMA SweepRows ==
    ASSUME TypeOK, WatchdogStep \/ WatchdogThrows
    PROVE  jobs' = jobs \/ Restates
<1>1. CASE WatchdogScan \/ WatchdogMedia \/ WatchdogEnqueue \/ WatchdogEnqueued \/ WatchdogThrows
  BY <1>1 DEF WatchdogScan, WatchdogMedia, WatchdogEnqueue, WatchdogEnqueued, WatchdogThrows
<1>2. ASSUME NEW e \in watchdog.todo, WatchdogRow(e) PROVE Restates
  <2>1. e.row \in Rows
    BY DEF TypeOK
  <2>2. PICK status \in JobStatuses : jobs' = [jobs EXCEPT ![e.row] = Row(status, @.attempts)]
    <3>1. jobs' = [jobs EXCEPT ![e.row] = Row(IF Spent(e.attempts) THEN "dead_letter" ELSE "queued", @.attempts)]
      BY <1>2 DEF WatchdogRow
    <3> QED
      BY <3>1 DEF JobStatuses
  <2> QED
    BY <2>1, <2>2, StatusSet
<1> QED
  BY <1>1, <1>2 DEF WatchdogStep

LEMMA AgeRows ==
    ASSUME TypeOK, NEW r \in Rows, Age(r)
    PROVE  Restates
<1>1. jobs[r] \in JobRow /\ jobs[r].age < MaxAge
  BY RowsAre DEF Age
<1>2. PICK new : new = [jobs[r] EXCEPT !.age = jobs[r].age + 1]
  OBVIOUS
<1>3. new \in JobRow /\ new.attempts = jobs[r].attempts
  BY <1>1, <1>2, ConstantsAssumption DEF JobRow
<1>4. jobs' = [jobs EXCEPT ![r] = new]
  BY <1>2 DEF Age
<1> QED
  BY <1>3, <1>4 DEF Restates, SetsRow

\* The claim of a run sets the row it has found, to one attempt more than it has read.
LEMMA ClaimRows ==
    ASSUME TypeOK, JobInOrder, RunClaim
    PROVE  \E new \in JobRow : /\ SetsRow(run.row, new)
                             /\ new.attempts = run.read.attempts + 1 /\ new.age = 0
<1>1. /\ run.row \in Rows /\ run.read \in Readings /\ run.read.attempts \in Nat
      /\ run.read.attempts + 1 \in Nat /\ run.read.attempts + 1 # run.read.attempts
      /\ "running" \in JobStatuses
  BY DEF RunClaim, JobInOrder, TypeOK, Readings, JobStatuses
<1>2. PICK new : new = Updated(jobs[run.row], run.read, "running", run.read.attempts + 1)
  OBVIOUS
<1>3. jobs[run.row] \in JobRow
  BY <1>1, RowsAre
<1>4. new \in JobRow /\ new.attempts = run.read.attempts + 1 /\ new.age = 0
  BY <1>1, <1>2, <1>3, UpdatedIs
<1>5. jobs' = [jobs EXCEPT ![run.row] = new]
  BY <1>2 DEF RunClaim
<1> QED
  BY <1>1, <1>4, <1>5 DEF SetsRow

LEMMA FinishRows ==
    ASSUME TypeOK, RunFinish
    PROVE  jobs' = jobs \/ Restates
<1>1. CASE run.row = 0
  BY <1>1 DEF RunFinish
<1>2. CASE run.row # 0
  <2>1. run.row \in Rows /\ "succeeded" \in JobStatuses
    BY <1>2, RowsAre DEF TypeOK, JobStatuses
  <2>2. jobs' = [jobs EXCEPT ![run.row] = Row("succeeded", @.attempts)]
    BY <1>2 DEF RunFinish
  <2> QED
    BY <2>1, <2>2, StatusSet
<1> QED
  BY <1>1, <1>2

\* The failed handler writes what differs from its reading, into what the row has become.
LEMMA HandlerRows ==
    ASSUME TypeOK, JobInOrder, NEW h \in handlers, HandlerJob(h)
    PROVE  \E new \in JobRow :
              /\ SetsRow(h.row, new) /\ new.age = 0
              /\ new.attempts \in {h.made, jobs[h.row].attempts}
              /\ jobs[h.row].status = h.read.status => new.status \in {"dead_letter", "failed"}
<1>1. h.row \in Rows /\ h.made \in Nat /\ h.read \in Readings
  BY DEF HandlerJob, JobInOrder, TypeOK
<1>2. PICK status \in {"dead_letter", "failed"} : status = IF Spent(h.made) THEN "dead_letter" ELSE "failed"
  OBVIOUS
<1>3. status \in JobStatuses /\ jobs[h.row] \in JobRow
  BY <1>1, RowsAre DEF JobStatuses
<1>4. PICK new : new = Updated(jobs[h.row], h.read, status, h.made)
  OBVIOUS
<1>5. /\ new \in JobRow /\ new.age = 0
      /\ new.status = IF status = h.read.status THEN jobs[h.row].status ELSE status
      /\ new.attempts = IF h.made = h.read.attempts THEN jobs[h.row].attempts ELSE h.made
  BY <1>1, <1>3, <1>4, UpdatedIs
<1>6. jobs' = [jobs EXCEPT ![h.row] = new]
  BY <1>2, <1>4 DEF HandlerJob
<1> QED
  BY <1>1, <1>2, <1>5, <1>6 DEF SetsRow

\* Rows are never deleted.
LEMMA RowsStay ==
    ASSUME TypeOK, JobInOrder, [Next]_vars
    PROVE  /\ jobs' \in Seq(JobRow) /\ Len(jobs') \in Nat
           /\ Len(jobs) <= Len(jobs') /\ Rows' = 1..Len(jobs') /\ Rows \subseteq Rows'
<1>1. CASE jobs' = jobs
  BY <1>1, RowsAre DEF Rows
<1>2. CASE \E r, new : SetsRow(r, new)
  BY <1>2, RowIsSet, RowsAre
<1>3. CASE AddsRow
  BY <1>3, RowIsAdded, RowsAre
<1>4. CASE Restates
  BY <1>4, <1>2 DEF Restates
<1>5. CASE UNCHANGED vars
  BY <1>5, <1>1 DEF vars
<1>6. ASSUME NEW c \in Calls, Enqueue(c) PROVE jobs' = jobs \/ Restates \/ AddsRow
  BY <1>6, CallRows
<1>7. CASE Pick \/ Stalled \/ Trim \/ Crash
  BY <1>7, <1>1 DEF Pick, Stalled, Trim, Crash
<1>8. CASE RunFind \/ RunRead \/ RunProcess \/ RunScore \/ RunEnd \/ RunThrows
  BY <1>8, <1>1 DEF RunFind, RunRead, RunProcess, RunScore, RunEnd, RunThrows
<1>9. CASE RunClaim
  BY <1>9, <1>2, ClaimRows
<1>10. CASE RunFinish
  BY <1>10, <1>1, <1>4, FinishRows
<1>11. ASSUME NEW h \in handlers, HandlerFind(h) \/ HandlerMedia(h) \/ HandlerThrows(h) PROVE jobs' = jobs
  BY <1>11 DEF HandlerFind, HandlerMedia, HandlerThrows
<1>12. ASSUME NEW h \in handlers, HandlerJob(h) PROVE \E r, new : SetsRow(r, new)
  BY <1>12, HandlerRows
<1>13. CASE WatchdogStep \/ WatchdogThrows
  BY <1>13, <1>1, <1>4, SweepRows
<1>14. ASSUME NEW r \in Rows, Age(r) PROVE Restates
  BY <1>14, AgeRows
<1> QED
  BY <1>1, <1>2, <1>3, <1>4, <1>5, <1>6, <1>7, <1>8, <1>9, <1>10, <1>11, <1>12, <1>13, <1>14
     DEF Next, runInspectionAnalysis, RunStep, HandlerStep

-----------------------------------------------------------------------------
(* Types, and the order of a job, its run and its handlers.                *)

\* What is not about rows.
ScalarsOK ==
    /\ bull \in [state : BullStates, made : 0..Attempts, stalled : 0..1, reprocess : BOOLEAN,
                 granted : Nat]
    /\ media \in AiStatuses
    /\ call \in [Calls -> CallStates]
    /\ reprocess \in [Calls -> BOOLEAN]
    /\ crashes \in 0..MaxCrashes
    /\ dbErrors \in 0..MaxDbErrors

Indices(n) ==
    /\ run \in [at : RunStates, row : 0..n, read : Readings]
    /\ handlers \subseteq [made : 0..Attempts, at : {"find", "job", "media"}, row : 0..n, read : Readings]
    /\ watchdog \in [at : WatchdogStates, row : 0..n, attempts : Nat,
                     todo : SUBSET [row : 1..n, attempts : Nat]]

LEMMA TypesSplit ==
    TypeOK <=> /\ jobs \in Seq(JobRow) /\ ScalarsOK /\ Indices(Len(jobs))
               /\ staleRow \in [Calls -> 0..Len(jobs)]
<1>1. jobs \in Seq(JobRow) => Rows = 1..Len(jobs)
  BY LenProperties DEF Rows
<1> QED
  BY <1>1 DEF TypeOK, JobRow, ScalarsOK, Indices

LEMMA CallTypes ==
    ASSUME TypeOK, NEW c \in Calls, Enqueue(c)
    PROVE  ScalarsOK'
<1> USE DEF TypeOK, ScalarsOK
<1>1. CASE Trigger(c)
  BY <1>1 DEF Trigger, AiStatuses, CallStates
<1>2. CASE findRecentProcessingJob(c)
  BY <1>2 DEF findRecentProcessingJob, CallStates
<1>7. CASE FindStale(c)
  <2>1. \E next \in CallStates : call' = [call EXCEPT ![c] = next]
    BY <1>7 DEF FindStale, CallStates
  <2> QED
    BY <1>7, <2>1 DEF FindStale
<1>8. CASE CloseStale(c)
  <2>1. \E next \in CallStates : call' = [call EXCEPT ![c] = next]
    BY <1>8 DEF CloseStale, CallStates
  <2> QED
    BY <1>8, <2>1 DEF CloseStale
<1>3. CASE MarkStaleMedia(c)
  BY <1>3 DEF MarkStaleMedia, AiStatuses, CallStates
<1>4. CASE addJob(c)
  BY <1>4, ConstantsAssumption DEF addJob, BullStates, CallStates
<1>5. CASE createProcessingJobRecord(c)
  BY <1>5 DEF createProcessingJobRecord, CallStates
<1>6. CASE CallThrows(c)
  BY <1>6 DEF CallThrows, CallStates
<1> QED
  BY <1>1, <1>2, <1>3, <1>4, <1>5, <1>6, <1>7, <1>8 DEF Enqueue

LEMMA QueueTypes ==
    ASSUME TypeOK, JobInOrder, Pick \/ Stalled \/ Trim \/ Crash \/ runInspectionAnalysis
    PROVE  ScalarsOK'
<1> USE DEF TypeOK, ScalarsOK
<1>1. CASE Pick
  BY <1>1 DEF Pick, BullStates
<1>2. CASE Stalled
  <2>1. bull.made + 1 \in 0..Attempts
    BY <1>2, ConstantsAssumption DEF Stalled, JobInOrder
  <2>2. CASE bull' = [bull EXCEPT !.state = "waiting", !.stalled = 1]
    <3>1. \A state \in BullStates, stalled \in 0..1 :
             [bull EXCEPT !.state = state, !.stalled = stalled]
               \in [state : BullStates, made : 0..Attempts, stalled : 0..1, reprocess : BOOLEAN, granted : Nat]
      OBVIOUS
    <3>2. "waiting" \in BullStates /\ 1 \in 0..1
      BY DEF BullStates
    <3>3. bull' \in [state : BullStates, made : 0..Attempts, stalled : 0..1, reprocess : BOOLEAN,
                     granted : Nat]
      BY <2>2, <3>1, <3>2
    <3> QED
      BY <1>2, <3>3 DEF Stalled
  <2>3. ASSUME NEW counted \in 0..1, bull' = [bull EXCEPT !.state = "failed", !.made = @ + counted]
        PROVE  ScalarsOK'
    <3>1. bull.made + counted \in 0..Attempts
      BY <2>1
    <3>2. bull' \in [state : BullStates, made : 0..Attempts, stalled : 0..1, reprocess : BOOLEAN,
                     granted : Nat]
      BY <2>3, <3>1 DEF BullStates
    <3> QED
      BY <1>2, <3>2 DEF Stalled
  <2> QED
    BY <1>2, <2>2, <2>3 DEF Stalled
<1>3. CASE Trim
  BY <1>3 DEF Trim, BullStates
<1>4. CASE Crash
  BY <1>4, ConstantsAssumption DEF Crash, CallStates
<1>5. CASE RunFind \/ RunClaim \/ RunRead \/ RunFinish
  BY <1>5 DEF RunFind, RunClaim, RunRead, RunFinish
<1>6. CASE RunProcess \/ RunScore
  BY <1>6 DEF RunProcess, RunScore, AiStatuses
<1>7. CASE RunEnd
  BY <1>7 DEF RunEnd, BullStates
<1>8. CASE RunThrows
  <2>1. bull.made + 1 \in 0..Attempts
    BY <1>8, ConstantsAssumption DEF RunThrows, JobInOrder
  <2>2. bull' \in [state : BullStates, made : 0..Attempts, stalled : 0..1, reprocess : BOOLEAN,
                   granted : Nat]
    BY <1>8, <2>1 DEF RunThrows, BullStates
  <2> QED
    BY <1>8, <2>2 DEF RunThrows
<1> QED
  BY <1>1, <1>2, <1>3, <1>4, <1>5, <1>6, <1>7, <1>8 DEF runInspectionAnalysis, RunStep

LEMMA OtherTypes ==
    ASSUME TypeOK,
           \/ \E h \in handlers : HandlerStep(h)
           \/ WatchdogStep \/ WatchdogThrows
           \/ \E r \in Rows : Age(r)
    PROVE  ScalarsOK'
<1> USE DEF TypeOK, ScalarsOK
<1>1. ASSUME NEW h \in handlers, HandlerFind(h) \/ HandlerJob(h) PROVE ScalarsOK'
  BY <1>1 DEF HandlerFind, HandlerJob
<1>2. ASSUME NEW h \in handlers, HandlerMedia(h) PROVE ScalarsOK'
  BY <1>2 DEF HandlerMedia, AiStatuses
<1>3. ASSUME NEW h \in handlers, HandlerThrows(h) PROVE ScalarsOK'
  BY <1>3, ConstantsAssumption DEF HandlerThrows
<1>4. ASSUME WatchdogScan \/ \E e \in watchdog.todo : WatchdogRow(e) PROVE ScalarsOK'
  BY <1>4 DEF WatchdogScan, WatchdogRow
<1>5. CASE WatchdogMedia
  BY <1>5 DEF WatchdogMedia, AiStatuses
<1>6. CASE WatchdogEnqueue
  BY <1>6, ConstantsAssumption DEF WatchdogEnqueue, CallStates
<1>7. CASE WatchdogEnqueued
  BY <1>7, ConstantsAssumption DEF WatchdogEnqueued, CallStates
<1>8. CASE WatchdogThrows
  BY <1>8, ConstantsAssumption DEF WatchdogThrows, CallStates
<1>9. ASSUME NEW r \in Rows, Age(r) PROVE ScalarsOK'
  BY <1>9 DEF Age
<1> QED
  BY <1>1, <1>2, <1>3, <1>4, <1>5, <1>6, <1>7, <1>8, <1>9 DEF HandlerStep, WatchdogStep

\* Rows that are added leave every index in range.
LEMMA IndicesGrow ==
    ASSUME NEW n \in Nat, NEW m \in Nat, n <= m, Indices(n)
    PROVE  Indices(m)
<1>1. 0..n \subseteq 0..m /\ 1..n \subseteq 1..m
  OBVIOUS
<1>2. [row : 1..n, attempts : Nat] \subseteq [row : 1..m, attempts : Nat]
  BY <1>1
<1> QED
  BY <1>1, <1>2 DEF Indices

\* A run that has looked for its row, or claimed it, goes on.
LEMMA RunGoesOn ==
    ASSUME RunFind \/ RunClaim
    PROVE  run'.at # "none" /\ UNCHANGED <<bull, handlers>>
<1>1. CASE RunFind
  <2>1. CASE NewestRow = 0
    <3>1. run' = [NoRun EXCEPT !.at = "read"]
      BY <1>1, <2>1 DEF RunFind
    <3> QED
      BY <1>1, <3>1 DEF RunFind, NoRun
  <2>2. CASE NewestRow # 0
    <3>1. run' = [at |-> "claim", row |-> NewestRow, read |-> Reading(NewestRow)]
      BY <1>1, <2>2 DEF RunFind
    <3> QED
      BY <1>1, <3>1 DEF RunFind
  <2> QED
    BY <2>1, <2>2
<1>2. CASE RunClaim
  <2>1. run' = [NoRun EXCEPT !.at = "read", !.row = run.row] /\ UNCHANGED <<bull, handlers>>
    BY <1>2 DEF RunClaim
  <2> QED
    BY <2>1 DEF NoRun
<1> QED
  BY <1>1, <1>2

\* The failed handler goes on from its first step to the row it has found, if any, and from
\* there to the image.
LEMMA HandlerMoves ==
    ASSUME TypeOK, NEW h \in handlers, HandlerFind(h) \/ HandlerJob(h)
    PROVE  \E next : /\ Becomes(h, next)
                    /\ next \in [made : {h.made}, at : {"job", "media"}, row : 0..Len(jobs),
                                 read : Readings]
                    /\ (next.at = "job" => (/\ next.row = NewestRow /\ next.row \in Rows
                                           /\ next.read.status = jobs[next.row].status))
                    /\ (HandlerJob(h) => next.at = "media")
                    /\ ((Rows # {} /\ HandlerFind(h)) => next.at = "job")
<1>1. h \in [made : 0..Attempts, at : {"find", "job", "media"}, row : 0..Len(jobs), read : Readings]
  BY DEF TypeOK
<1>2. Len(jobs) \in Nat /\ Rows = 1..Len(jobs) /\ NewestRow = Len(jobs)
  BY RowsAre DEF NewestRow
<1>3. CASE HandlerJob(h)
  <2>1. PICK next : next = [FailedEvent(h.made) EXCEPT !.at = "media"]
    OBVIOUS
  <2>2. next = [made |-> h.made, at |-> "media", row |-> 0, read |-> Row("queued", 0)]
    BY <2>1 DEF FailedEvent
  <2>3. ~HandlerFind(h)
    BY <1>3 DEF HandlerFind, HandlerJob
  <2> QED
    BY <1>2, <1>3, <2>1, <2>2, <2>3, NoReading DEF HandlerJob
<1>4. CASE HandlerFind(h) /\ NewestRow = 0
  <2>1. PICK next : next = [h EXCEPT !.at = "media"]
    OBVIOUS
  <2>2. next.at = "media" /\ next \in [made : {h.made}, at : {"job", "media"}, row : 0..Len(jobs), read : Readings]
    BY <1>1, <2>1
  <2>3. Becomes(h, next) /\ Rows = {}
    BY <1>2, <1>4, <2>1 DEF HandlerFind
  <2> QED
    BY <2>2, <2>3
<1>5. CASE HandlerFind(h) /\ NewestRow # 0
  <2>1. NewestRow \in Rows /\ NewestRow \in 0..Len(jobs)
    BY <1>2, <1>5
  <2>2. PICK read \in Readings : read = Reading(NewestRow) /\ read.status = jobs[NewestRow].status
    BY <2>1, ReadingTyped
  <2>3. PICK next : next = [h EXCEPT !.at = "job", !.row = NewestRow, !.read = read]
    OBVIOUS
  <2>4. next = [made |-> h.made, at |-> "job", row |-> NewestRow, read |-> read]
    BY <1>1, <2>3
  <2>5. Becomes(h, next) /\ ~HandlerJob(h)
    BY <1>5, <2>2, <2>3 DEF HandlerFind, HandlerJob
  <2> QED
    BY <2>1, <2>2, <2>4, <2>5
<1> QED
  BY <1>3, <1>4, <1>5

LEMMA HandlersTyped ==
    ASSUME NEW n \in Nat, Indices(n), NEW h \in handlers,
           \/ handlers' = handlers \ {h}
           \/ \E next : /\ next \in [made : 0..Attempts, at : {"find", "job", "media"}, row : 0..n, read : Readings]
                        /\ Becomes(h, next)
    PROVE  handlers' \subseteq [made : 0..Attempts, at : {"find", "job", "media"}, row : 0..n, read : Readings]
BY DEF Indices, Becomes

LEMMA IndicesStep ==
    ASSUME TypeOK, JobInOrder, [Next]_vars
    PROVE  Indices(Len(jobs))'
<1>0. /\ Len(jobs) \in Nat /\ Len(jobs') \in Nat /\ Len(jobs) <= Len(jobs')
      /\ Indices(Len(jobs)) /\ Rows = 1..Len(jobs)
  BY RowsStay, RowsAre, TypesSplit
<1>a. Indices(Len(jobs'))
  BY <1>0, IndicesGrow
<1>1. CASE UNCHANGED <<run, handlers, watchdog>>
  BY <1>1, <1>a DEF Indices
<1>2. CASE UNCHANGED vars
  BY <1>2, <1>1 DEF vars
<1>3. ASSUME NEW c \in Calls, Enqueue(c) PROVE UNCHANGED <<run, handlers, watchdog>>
  BY <1>3 DEF Enqueue, Trigger, findRecentProcessingJob, FindStale, CloseStale, MarkStaleMedia, addJob,
              createProcessingJobRecord, CallThrows
<1>4. CASE Pick
  BY <1>4, <1>a, NoReading DEF Pick, Indices, NoRun, RunStates
<1>5. CASE Stalled
  <2>1. bull.made + 1 \in 0..Attempts /\ bull.made \in 0..Attempts
    BY <1>5, ConstantsAssumption DEF Stalled, JobInOrder, TypeOK
  <2>2. \A made \in 0..Attempts :
           FailedEvent(made) \in [made : 0..Attempts, at : {"find", "job", "media"}, row : 0..Len(jobs'), read : Readings]
    BY <1>0, NoReading DEF FailedEvent
  <2>3. \A counted \in 0..1 : bull.made + counted \in 0..Attempts
    BY <2>1
  <2>4. handlers' \subseteq handlers \cup {FailedEvent(bull.made + counted) : counted \in 0..1}
    BY <1>5 DEF Stalled
  <2> QED
    BY <1>5, <1>a, <2>2, <2>3, <2>4 DEF Stalled, Indices
<1>6. CASE Trim
  BY <1>6, <1>1 DEF Trim
<1>7. CASE Crash
  BY <1>7, <1>0, NoReading DEF Crash, Indices, NoRun, NoWatch, RunStates, WatchdogStates
<1>8. CASE RunFind
  <2>1. run' \in [at : RunStates, row : 0..Len(jobs'), read : Readings]
    <3>1. CASE NewestRow = 0
      BY <1>8, <1>0, <3>1, NoReading DEF RunFind, NoRun, RunStates
    <3>2. CASE NewestRow # 0
      <4>1. NewestRow \in 0..Len(jobs') /\ Reading(NewestRow) \in Readings
        BY <3>2, <1>0, ReadingTyped DEF NewestRow
      <4> QED
        BY <1>8, <3>2, <4>1 DEF RunFind, RunStates
    <3> QED
      BY <3>1, <3>2
  <2> QED
    BY <1>8, <1>a, <2>1 DEF RunFind, Indices
<1>9. CASE RunClaim \/ RunRead \/ RunProcess \/ RunScore \/ RunFinish
  <2>1. run' \in [at : RunStates, row : 0..Len(jobs'), read : Readings]
    BY <1>9, <1>a, NoReading DEF RunClaim, RunRead, RunProcess, RunScore, RunFinish, NoRun, RunStates, Indices
  <2> QED
    BY <1>9, <1>a, <2>1 DEF RunClaim, RunRead, RunProcess, RunScore, RunFinish, Indices
<1>10. CASE RunEnd
  BY <1>10, <1>a, NoReading DEF RunEnd, NoRun, RunStates, Indices
<1>11. CASE RunThrows
  <2>1. bull.made + 1 \in 0..Attempts
    BY <1>11, ConstantsAssumption DEF RunThrows, JobInOrder, TypeOK
  <2>2. FailedEvent(bull.made + 1) \in [made : 0..Attempts, at : {"find", "job", "media"}, row : 0..Len(jobs'), read : Readings]
    BY <1>0, <2>1, NoReading DEF FailedEvent
  <2> QED
    BY <1>11, <1>a, <2>2, NoReading DEF RunThrows, NoRun, RunStates, Indices
<1>12. ASSUME NEW h \in handlers, HandlerStep(h) PROVE Indices(Len(jobs))'
  <2>0. h \in [made : 0..Attempts, at : {"find", "job", "media"}, row : 0..Len(jobs'), read : Readings]
    BY <1>a DEF Indices
  <2>1. CASE HandlerFind(h) \/ HandlerJob(h)
    <3>1. PICK next : /\ Becomes(h, next)
                      /\ next \in [made : {h.made}, at : {"job", "media"}, row : 0..Len(jobs), read : Readings]
      BY <2>1, HandlerMoves
    <3>2. next \in [made : 0..Attempts, at : {"find", "job", "media"}, row : 0..Len(jobs'), read : Readings]
      BY <1>0, <2>0, <3>1
    <3>3. handlers' \subseteq [made : 0..Attempts, at : {"find", "job", "media"}, row : 0..Len(jobs'), read : Readings]
      BY <1>0, <1>a, <3>1, <3>2, HandlersTyped
    <3> QED
      BY <1>a, <2>1, <3>3 DEF HandlerFind, HandlerJob, Indices
  <2>3. CASE HandlerMedia(h) \/ HandlerThrows(h)
    BY <1>a, <2>3 DEF HandlerMedia, HandlerThrows, Indices
  <2> QED
    BY <1>12, <2>1, <2>3 DEF HandlerStep
<1>13. CASE WatchdogStep \/ WatchdogThrows
  <2>1. watchdog' \in [at : WatchdogStates, row : 0..Len(jobs'), attempts : Nat,
                       todo : SUBSET [row : 1..Len(jobs'), attempts : Nat]]
    <3> USE DEF NoWatch, WatchdogStates
    <3>1. CASE WatchdogScan
      <4>1. {[row |-> r, attempts |-> jobs[r].attempts] : r \in StaleRunning}
              \subseteq [row : 1..Len(jobs'), attempts : Nat]
        BY <1>0, RowsAre DEF StaleRunning, JobRow
      <4>2. PICK todo : todo = {[row |-> r, attempts |-> jobs[r].attempts] : r \in StaleRunning}
        OBVIOUS
      <4>3. todo \in SUBSET [row : 1..Len(jobs'), attempts : Nat]
        BY <4>1, <4>2
      <4>4. watchdog' = [NoWatch EXCEPT !.at = "next", !.todo = todo]
        BY <3>1, <4>2 DEF WatchdogScan
      <4>5. watchdog' = [at |-> "next", todo |-> todo, row |-> 0, attempts |-> 0]
        BY <4>4, Zenon
      <4> QED
        BY <4>3, <4>5, <1>0
    <3>2. ASSUME NEW e \in watchdog.todo, WatchdogRow(e)
          PROVE  watchdog' \in [at : WatchdogStates, row : 0..Len(jobs'), attempts : Nat,
                                todo : SUBSET [row : 1..Len(jobs'), attempts : Nat]]
      <4>1. e \in [row : 1..Len(jobs'), attempts : Nat]
        BY <1>a DEF Indices
      <4>2. watchdog.todo \ {e} \subseteq [row : 1..Len(jobs'), attempts : Nat]
        BY <1>a DEF Indices
      <4> QED
        BY <3>2, <4>1, <4>2, <1>0 DEF WatchdogRow
    <3>3. NextRow \in [at : WatchdogStates, row : 0..Len(jobs'), attempts : Nat,
                       todo : SUBSET [row : 1..Len(jobs'), attempts : Nat]]
      <4>1. PICK todo \in SUBSET [row : 1..Len(jobs'), attempts : Nat] : todo = watchdog.todo
        BY <1>a DEF Indices
      <4>2. NoWatch \in [at : WatchdogStates, row : 0..Len(jobs'), attempts : Nat,
                         todo : SUBSET [row : 1..Len(jobs'), attempts : Nat]]
        BY <1>0
      <4>3. [at |-> "next", todo |-> todo, row |-> 0, attempts |-> 0]
              \in [at : WatchdogStates, row : 0..Len(jobs'), attempts : Nat,
                  todo : SUBSET [row : 1..Len(jobs'), attempts : Nat]]
        BY <1>0
      <4> QED
        BY <4>1, <4>2, <4>3 DEF NextRow
    <3>4. \A where \in WatchdogStates :
             [watchdog EXCEPT !.at = where] \in [at : WatchdogStates, row : 0..Len(jobs'), attempts : Nat,
                       todo : SUBSET [row : 1..Len(jobs'), attempts : Nat]]
      BY <1>a DEF Indices
    <3>5. CASE WatchdogMedia
      BY <3>3, <3>4, <3>5 DEF WatchdogMedia
    <3>6. CASE WatchdogEnqueue
      BY <3>4, <3>6 DEF WatchdogEnqueue
    <3>7. CASE WatchdogEnqueued
      BY <3>3, <3>7 DEF WatchdogEnqueued
    <3>8. CASE WatchdogThrows
      BY <1>0, <3>8 DEF WatchdogThrows
    <3> QED
      BY <1>13, <3>1, <3>2, <3>5, <3>6, <3>7, <3>8 DEF WatchdogStep
  <2>2. UNCHANGED <<run, handlers>>
    BY <1>13 DEF WatchdogStep, WatchdogScan, WatchdogRow, WatchdogMedia, WatchdogEnqueue, WatchdogEnqueued, WatchdogThrows
  <2> QED
    BY <1>a, <2>1, <2>2 DEF Indices
<1>14. ASSUME NEW r \in Rows, Age(r) PROVE UNCHANGED <<run, handlers, watchdog>>
  BY <1>14 DEF Age
<1> QED
  BY <1>1, <1>2, <1>3, <1>4, <1>5, <1>6, <1>7, <1>8, <1>9, <1>10, <1>11, <1>12, <1>13, <1>14
     DEF Next, runInspectionAnalysis, RunStep

\* Who closes a stale row has found it.
LEMMA StaleStep ==
    ASSUME TypeOK, JobInOrder, [Next]_vars
    PROVE  /\ staleRow' \in [Calls -> 0..Len(jobs')]
           /\ \A c \in Calls : call'[c] \in Closing => staleRow'[c] \in Rows'
<1>0. /\ Len(jobs) \in Nat /\ Len(jobs') \in Nat /\ Len(jobs) <= Len(jobs')
      /\ Rows = 1..Len(jobs) /\ Rows' = 1..Len(jobs')
      /\ staleRow \in [Calls -> 0..Len(jobs)] /\ call \in [Calls -> CallStates]
      /\ \A c \in Calls : call[c] \in Closing => staleRow[c] \in Rows
      /\ WatchdogCall \in Calls
  BY RowsStay, RowsAre, ConstantsAssumption DEF TypeOK, JobInOrder
<1>a. staleRow \in [Calls -> 0..Len(jobs')]
  BY <1>0
<1> USE DEF Closing
<1>1. ASSUME UNCHANGED staleRow, \A c \in Calls : call'[c] \in Closing => call[c] \in Closing
      PROVE  /\ staleRow' \in [Calls -> 0..Len(jobs')]
             /\ \A c \in Calls : call'[c] \in Closing => staleRow'[c] \in Rows'
  BY <1>0, <1>a, <1>1
<1>2. CASE UNCHANGED vars
  BY <1>1, <1>2 DEF vars
<1>3. ASSUME NEW c \in Calls, Enqueue(c)
      PROVE  /\ staleRow' \in [Calls -> 0..Len(jobs')]
             /\ \A d \in Calls : call'[d] \in Closing => staleRow'[d] \in Rows'
  <2>1. CASE Trigger(c) \/ findRecentProcessingJob(c) \/ MarkStaleMedia(c) \/ addJob(c)
             \/ createProcessingJobRecord(c)
    BY <1>0, <1>1, <2>1 DEF Trigger, findRecentProcessingJob, MarkStaleMedia, addJob, createProcessingJobRecord
  <2>2. CASE FindStale(c)
    <3>1. CASE UNCHANGED staleRow /\ call' = [call EXCEPT ![c] = "add"]
      BY <1>0, <1>1, <3>1
    <3>2. ASSUME NEW q \in StaleRunning, NEW next \in CallStates,
                 staleRow' = [staleRow EXCEPT ![c] = q], call' = [call EXCEPT ![c] = next]
          PROVE  /\ staleRow' \in [Calls -> 0..Len(jobs')]
                 /\ \A d \in Calls : call'[d] \in Closing => staleRow'[d] \in Rows'
      <4>1. q \in 1..Len(jobs)
        BY <1>0 DEF StaleRunning
      <4> QED
        BY <1>0, <1>a, <3>2, <4>1
    <3> QED
      BY <2>2, <3>1, <3>2 DEF FindStale, CallStates
  <2>3. CASE CloseStale(c) \/ CallThrows(c)
    <3>1. /\ staleRow' = [staleRow EXCEPT ![c] = 0]
          /\ \E next \in {"failMedia", "retryMedia", "done"} : call' = [call EXCEPT ![c] = next]
      BY <2>3 DEF CloseStale, CallThrows
    <3> QED
      BY <1>0, <1>a, <3>1
  <2> QED
    BY <1>3, <2>1, <2>2, <2>3 DEF Enqueue
<1>4. CASE Crash
  BY <1>0, <1>4 DEF Crash
<1>5. CASE WatchdogThrows
  BY <1>0, <1>a, <1>5 DEF WatchdogThrows
<1>6. CASE WatchdogStep
  BY <1>0, <1>1, <1>6 DEF WatchdogStep, WatchdogScan, WatchdogRow, WatchdogMedia, WatchdogEnqueue, WatchdogEnqueued
<1>7. CASE Pick \/ Stalled \/ Trim \/ runInspectionAnalysis
  BY <1>1, <1>7 DEF Pick, Stalled, Trim, runInspectionAnalysis, RunStep, RunFind, RunClaim, RunRead, RunProcess,
                    RunScore, RunFinish, RunEnd, RunThrows
<1>8. CASE \E h \in handlers : HandlerStep(h)
  BY <1>1, <1>8 DEF HandlerStep, HandlerFind, HandlerJob, HandlerMedia, HandlerThrows
<1>9. ASSUME NEW r \in Rows, Age(r) PROVE UNCHANGED <<call, staleRow>>
  BY <1>9 DEF Age
<1> QED
  BY <1>1, <1>2, <1>3, <1>4, <1>5, <1>6, <1>7, <1>8, <1>9 DEF Next

LEMMA TypeStep ==
    ASSUME TypeOK, JobInOrder, [Next]_vars
    PROVE  TypeOK'
<1>1. jobs' \in Seq(JobRow)
  BY RowsStay
<1>2. ScalarsOK'
  <2>1. CASE UNCHANGED vars
    BY <2>1, TypesSplit DEF vars, ScalarsOK
  <2> QED
    BY <2>1, CallTypes, QueueTypes, OtherTypes DEF Next
<1>3. Indices(Len(jobs))'
  BY IndicesStep
<1>4. jobs' \in Seq(JobRow) => Rows' = 1..Len(jobs')
  BY LenProperties DEF Rows
<1> QED
  BY <1>1, <1>2, <1>3, <1>4, StaleStep DEF TypeOK, ScalarsOK, Indices, JobRow

\* Where the job and the run do not move, handlers look for rows that stay.
LEMMA HandlersInOrder ==
    ASSUME TypeOK, JobInOrder, [Next]_vars
    PROVE  \A h \in handlers' : h.at = "job" => h.row \in Rows'
<1>0. Rows \subseteq Rows'
  BY RowsStay
<1> USE DEF JobInOrder
<1>1. CASE handlers' \subseteq handlers
  BY <1>0, <1>1
<1>2. ASSUME NEW new, handlers' \subseteq handlers \cup {new}, new.at = "job" => new.row \in Rows'
      PROVE  \A h \in handlers' : h.at = "job" => h.row \in Rows'
  BY <1>0, <1>2
<1>3. CASE UNCHANGED vars
  BY <1>3, <1>1 DEF vars
<1>4. ASSUME NEW c \in Calls, Enqueue(c) PROVE handlers' = handlers
  BY <1>4 DEF Enqueue, Trigger, findRecentProcessingJob, FindStale, CloseStale, MarkStaleMedia, addJob,
              createProcessingJobRecord, CallThrows
<1>5. CASE Pick \/ Trim \/ Crash
  BY <1>5, <1>1 DEF Pick, Trim, Crash
<1>6. CASE Stalled
  <2>1. CASE handlers' = handlers
    BY <2>1, <1>1
  <2>2. ASSUME NEW counted \in 0..1, handlers' = handlers \cup {FailedEvent(bull.made + counted)}
        PROVE  \A h \in handlers' : h.at = "job" => h.row \in Rows'
    BY <2>2, <1>2 DEF FailedEvent
  <2> QED
    BY <1>6, <2>1, <2>2 DEF Stalled
<1>7. CASE RunStep
  BY <1>7, <1>1 DEF RunStep, RunFind, RunClaim, RunRead, RunProcess, RunScore, RunFinish, RunEnd
<1>8. CASE RunThrows
  BY <1>8, <1>2 DEF RunThrows, FailedEvent
<1>9. ASSUME NEW h \in handlers, HandlerFind(h) \/ HandlerJob(h)
      PROVE  \A g \in handlers' : g.at = "job" => g.row \in Rows'
  <2>1. PICK next : Becomes(h, next) /\ (next.at = "job" => next.row \in Rows)
    BY <1>9, HandlerMoves
  <2>2. handlers' \subseteq handlers \cup {next}
    BY <2>1 DEF Becomes
  <2> QED
    BY <1>0, <1>2, <2>1, <2>2
<1>11. ASSUME NEW h \in handlers, HandlerMedia(h) \/ HandlerThrows(h) PROVE handlers' \subseteq handlers
  BY <1>11 DEF HandlerMedia, HandlerThrows
<1>12. CASE WatchdogStep \/ WatchdogThrows
  BY <1>12, <1>1 DEF WatchdogStep, WatchdogScan, WatchdogRow, WatchdogMedia, WatchdogEnqueue, WatchdogEnqueued,
                     WatchdogThrows
<1>13. ASSUME NEW r \in Rows, Age(r) PROVE handlers' = handlers
  BY <1>13 DEF Age
<1> QED
  BY <1>1, <1>3, <1>4, <1>5, <1>6, <1>7, <1>8, <1>9, <1>11, <1>12, <1>13
     DEF Next, runInspectionAnalysis, HandlerStep

\* A job and its run.
JobAndRun ==
    /\ bull.state # "none" => Attempts <= bull.granted
    /\ bull.state \in {"waiting", "active", "completed"} => bull.made < Attempts
    /\ run.at # "none" => bull.state = "active"
    /\ run.at = "none" => run = NoRun

LEMMA JobAndRunStep ==
    ASSUME TypeOK, JobInOrder, [Next]_vars
    PROVE  JobAndRun'
<1>0. /\ JobAndRun /\ Attempts \in Nat \ {0}
      /\ bull \in [state : BullStates, made : 0..Attempts, stalled : 0..1, reprocess : BOOLEAN, granted : Nat]
      /\ run \in [at : RunStates, row : 0..Len(jobs), read : Readings]
  BY ConstantsAssumption DEF JobInOrder, JobAndRun, TypeOK
<1>1. CASE UNCHANGED <<bull, run>>
  BY <1>0, <1>1 DEF JobAndRun
<1>2. CASE UNCHANGED vars
  BY <1>2, <1>1 DEF vars
<1>3. ASSUME NEW c \in Calls, Enqueue(c) PROVE JobAndRun'
  <2>1. CASE UNCHANGED <<bull, run>>
    BY <1>1, <2>1
  <2>2. CASE addJob(c)
    BY <1>0, <2>2 DEF addJob, JobAndRun
  <2> QED
    BY <1>3, <2>1, <2>2 DEF Enqueue, Trigger, findRecentProcessingJob, FindStale, CloseStale, MarkStaleMedia,
                            createProcessingJobRecord, CallThrows
<1>4. CASE Pick
  BY <1>0, <1>4 DEF Pick, JobAndRun, NoRun
<1>5. CASE Stalled
  BY <1>0, <1>5 DEF Stalled, JobAndRun, NoRun
<1>6. CASE Trim
  BY <1>0, <1>6 DEF Trim, JobAndRun
<1>7. CASE Crash
  BY <1>0, <1>7 DEF Crash, JobAndRun, NoRun
<1>8. CASE RunFind
  BY <1>0, <1>8 DEF RunFind, JobAndRun, NoRun
<1>9. CASE RunClaim \/ RunRead \/ RunProcess \/ RunScore \/ RunFinish
  BY <1>0, <1>9 DEF RunClaim, RunRead, RunProcess, RunScore, RunFinish, JobAndRun, NoRun
<1>10. CASE RunEnd
  BY <1>0, <1>10 DEF RunEnd, JobAndRun, NoRun
<1>11. CASE RunThrows
  BY <1>0, <1>11 DEF RunThrows, JobAndRun, NoRun
<1>12. ASSUME NEW h \in handlers, HandlerStep(h) PROVE UNCHANGED <<bull, run>>
  BY <1>12 DEF HandlerStep, HandlerFind, HandlerJob, HandlerMedia, HandlerThrows
<1>13. CASE WatchdogStep \/ WatchdogThrows
  BY <1>13, <1>1 DEF WatchdogStep, WatchdogScan, WatchdogRow, WatchdogMedia, WatchdogEnqueue, WatchdogEnqueued,
                     WatchdogThrows
<1>14. ASSUME NEW r \in Rows, Age(r) PROVE UNCHANGED <<bull, run>>
  BY <1>14 DEF Age
<1> QED
  BY <1>1, <1>2, <1>3, <1>4, <1>5, <1>6, <1>7, <1>8, <1>9, <1>10, <1>11, <1>12, <1>13, <1>14
     DEF Next, runInspectionAnalysis, RunStep

LEMMA ClaimStep ==
    ASSUME TypeOK, JobInOrder, [Next]_vars, run'.at = "claim"
    PROVE  run'.row \in Rows'
<1>0. Rows \subseteq Rows' /\ run \in [at : RunStates, row : 0..Len(jobs), read : Readings]
  BY RowsStay DEF TypeOK
<1>1. CASE run' = run
  BY <1>0, <1>1 DEF JobInOrder
<1>2. CASE RunFind
  BY <1>0, <1>2, RowsAre DEF RunFind, NoRun, NewestRow
<1>3. ~(Pick \/ Crash \/ RunClaim \/ RunRead \/ RunProcess \/ RunScore \/ RunFinish \/ RunEnd \/ RunThrows)
  <2>1. ~RunClaim /\ ~Pick
    BY DEF RunClaim, Pick, NoRun
  <2>2. ~Crash /\ ~RunEnd /\ ~RunThrows
    BY DEF Crash, RunEnd, RunThrows, NoRun
  <2>3. ~RunRead /\ ~RunProcess /\ ~RunScore /\ ~RunFinish
    BY <1>0 DEF RunRead, RunProcess, RunScore, RunFinish
  <2> QED
    BY <2>1, <2>2, <2>3
<1>4. ASSUME NEW c \in Calls, Enqueue(c) PROVE run' = run
  BY <1>4 DEF Enqueue, Trigger, findRecentProcessingJob, FindStale, CloseStale, MarkStaleMedia, addJob,
              createProcessingJobRecord, CallThrows
<1>5. ASSUME NEW h \in handlers, HandlerStep(h) PROVE run' = run
  BY <1>5 DEF HandlerStep, HandlerFind, HandlerJob, HandlerMedia, HandlerThrows
<1>6. CASE WatchdogStep \/ WatchdogThrows \/ Stalled \/ Trim
  BY <1>6, <1>1 DEF WatchdogStep, WatchdogScan, WatchdogRow, WatchdogMedia, WatchdogEnqueue, WatchdogEnqueued,
                    WatchdogThrows, Stalled, Trim
<1>7. ASSUME NEW r \in Rows, Age(r) PROVE run' = run
  BY <1>7 DEF Age
<1> QED
  BY <1>1, <1>2, <1>3, <1>4, <1>5, <1>6, <1>7 DEF Next, vars, runInspectionAnalysis, RunStep

LEMMA OrderStep ==
    ASSUME TypeOK, JobInOrder, [Next]_vars
    PROVE  JobInOrder'
BY HandlersInOrder, JobAndRunStep, ClaimStep, StaleStep DEF JobInOrder, JobAndRun

-----------------------------------------------------------------------------
(* The budget.                                                             *)

Total == Used + crashes + Underway

LEMMA TotalsAre ==
    ASSUME TypeOK, JobInOrder
    PROVE  /\ Used \in Nat /\ crashes \in Nat /\ Underway \in {0, 1} /\ Total \in Nat
           /\ Used + crashes <= Total
<1>1. Used \in Nat
  BY ConstantsAssumption DEF Used, TypeOK, JobInOrder
<1>2. crashes \in Nat /\ Underway \in {0, 1}
  BY DEF TypeOK, Underway
<1> QED
  BY <1>1, <1>2 DEF Total

LEMMA TotalsNext ==
    ASSUME TypeOK', JobInOrder'
    PROVE  Used' \in Nat /\ crashes' \in Nat /\ Total' \in Nat
<1>1. Used' \in Nat
  BY ConstantsAssumption DEF Used, TypeOK, JobInOrder
<1>2. crashes' \in Nat /\ Underway' \in {0, 1}
  BY DEF TypeOK, Underway
<1>3. \A u, c, w \in Nat : u + c + w \in Nat
  OBVIOUS
<1>4. Underway' \in Nat
  BY <1>2
<1>5. Total' \in Nat
  BY <1>1, <1>2, <1>3, <1>4 DEF Total
<1> QED
  BY <1>1, <1>2, <1>5

\* What is accounted to the jobs never shrinks: an attempt that ends is counted by BullMQ,
\* by the completion, or as a crash.
LEMMA UseGrows ==
    ASSUME TypeOK, JobInOrder, [Next]_vars
    PROVE  Used <= Used' /\ crashes <= crashes' /\ Total <= Total'
<1>0. /\ Attempts \in Nat \ {0} /\ crashes \in Nat
      /\ bull \in [state : BullStates, made : 0..Attempts, stalled : 0..1, reprocess : BOOLEAN, granted : Nat]
      /\ run \in [at : RunStates, row : 0..Len(jobs), read : Readings]
      /\ JobAndRun
  BY ConstantsAssumption DEF TypeOK, JobInOrder, JobAndRun
<1> USE DEF Used, Underway, Total, Claimed
<1>1. CASE UNCHANGED <<bull, run, crashes>>
  BY <1>0, <1>1, TotalsAre
<1>2. CASE UNCHANGED vars
  BY <1>2, <1>1 DEF vars
<1>3. ASSUME NEW c \in Calls, Enqueue(c) PROVE Used <= Used' /\ crashes <= crashes' /\ Total <= Total'
  <2>1. CASE UNCHANGED <<bull, run, crashes>>
    BY <1>1, <2>1
  <2>2. CASE addJob(c)
    BY <1>0, <2>2 DEF addJob, JobAndRun
  <2> QED
    BY <1>3, <2>1, <2>2 DEF Enqueue, Trigger, findRecentProcessingJob, FindStale, CloseStale, MarkStaleMedia,
                            createProcessingJobRecord, CallThrows
<1>4. CASE Pick
  BY <1>0, <1>4 DEF Pick, JobAndRun, NoRun
<1>5. CASE Stalled
  <2>1. /\ bull.state = "active" /\ run = NoRun /\ run' = run /\ crashes' = crashes
        /\ bull'.granted = bull.granted /\ bull'.state \in {"waiting", "failed"}
        /\ bull'.made \in {bull.made, bull.made + 1}
    <3>1. CASE bull' = [bull EXCEPT !.state = "waiting", !.stalled = 1]
      BY <1>0, <1>5, <3>1 DEF Stalled
    <3>2. ASSUME NEW counted \in 0..1, bull' = [bull EXCEPT !.state = "failed", !.made = @ + counted]
          PROVE  /\ bull'.granted = bull.granted /\ bull'.state = "failed"
                 /\ bull'.made \in {bull.made, bull.made + 1}
      <4>1. bull'.granted = bull.granted /\ bull'.state = "failed" /\ bull'.made = bull.made + counted
        BY <1>0, <3>2
      <4>2. counted = 0 \/ counted = 1
        OBVIOUS
      <4> QED
        BY <1>0, <4>1, <4>2
    <3> QED
      BY <1>5, <3>1, <3>2 DEF Stalled
  <2> QED
    BY <1>0, <2>1 DEF JobAndRun, NoRun
<1>6. CASE Trim
  BY <1>0, <1>6 DEF Trim, JobAndRun
<1>7. CASE Crash
  BY <1>0, <1>7 DEF Crash, JobAndRun, NoRun
<1>8. CASE RunFind
  BY <1>0, <1>8 DEF RunFind, JobAndRun, NoRun
<1>9. CASE RunClaim \/ RunRead \/ RunProcess \/ RunScore \/ RunFinish
  BY <1>0, <1>9 DEF RunClaim, RunRead, RunProcess, RunScore, RunFinish, JobAndRun, NoRun
<1>10. CASE RunEnd
  BY <1>0, <1>10 DEF RunEnd, JobAndRun, NoRun
<1>11. CASE RunThrows
  BY <1>0, <1>11 DEF RunThrows, JobAndRun, NoRun
<1>12. ASSUME NEW h \in handlers, HandlerStep(h) PROVE UNCHANGED <<bull, run, crashes>>
  BY <1>12 DEF HandlerStep, HandlerFind, HandlerJob, HandlerMedia, HandlerThrows
<1>13. CASE WatchdogStep \/ WatchdogThrows
  BY <1>13, <1>1 DEF WatchdogStep, WatchdogScan, WatchdogRow, WatchdogMedia, WatchdogEnqueue, WatchdogEnqueued,
                     WatchdogThrows
<1>14. ASSUME NEW r \in Rows, Age(r) PROVE UNCHANGED <<bull, run, crashes>>
  BY <1>14 DEF Age
<1> QED
  BY <1>1, <1>2, <1>3, <1>4, <1>5, <1>6, <1>7, <1>8, <1>9, <1>10, <1>11, <1>12, <1>13, <1>14
     DEF Next, runInspectionAnalysis, RunStep

\* Every row accounts for as much as the jobs have had.
RowsWithin == \A r \in Rows : jobs[r].attempts <= Total

LEMMA RowsWithinStep ==
    ASSUME TypeOK, JobInOrder, WithinUse, [Next]_vars
    PROVE  RowsWithin'
<1>0. /\ Used \in Nat /\ crashes \in Nat /\ Total \in Nat /\ Used + crashes <= Total
      /\ Total' \in Nat /\ Total <= Total'
  BY TypeStep, OrderStep, TotalsAre, TotalsNext, UseGrows
<1>a. \A r \in Rows : jobs[r].attempts \in Nat /\ jobs[r].attempts <= Total
  BY RowsAre DEF JobRow, WithinUse, Total
<1>1. CASE jobs' = jobs
  BY <1>0, <1>1, <1>a DEF RowsWithin, Rows
<1>2. ASSUME NEW r, NEW new, SetsRow(r, new), new.attempts <= Total'
      PROVE  RowsWithin'
  BY <1>0, <1>2, <1>a, RowIsSet DEF RowsWithin
<1>3. CASE Restates
  <2>1. PICK r \in Rows, new \in JobRow : SetsRow(r, new) /\ new.attempts = jobs[r].attempts
    BY <1>3 DEF Restates
  <2>2. new.attempts <= Total'
    BY <1>0, <1>a, <2>1
  <2> QED
    BY <1>2, <2>1, <2>2
<1>4. CASE AddsRow
  <2>1. \A q \in 1..(Len(jobs) + 1) : jobs'[q].attempts <= Total'
    <3>1. Rows = 1..Len(jobs) /\ Len(jobs) \in Nat
      BY RowsAre
    <3>2. \A q \in Rows : jobs'[q] = jobs[q]
      BY <1>4, RowIsAdded
    <3>3. jobs'[Len(jobs) + 1].attempts = 0
      BY <1>4, RowIsAdded
    <3>4. \A q \in 1..(Len(jobs) + 1) : q \in Rows \/ q = Len(jobs) + 1
      BY <3>1
    <3> QED
      BY <1>0, <1>a, <3>2, <3>3, <3>4
  <2> QED
    BY <1>4, <2>1, RowIsAdded DEF RowsWithin
<1>5. CASE UNCHANGED vars
  BY <1>5, <1>1 DEF vars
<1>6. ASSUME NEW c \in Calls, Enqueue(c) PROVE jobs' = jobs \/ Restates \/ AddsRow
  BY <1>6, CallRows
<1>7. CASE Pick \/ Stalled \/ Trim \/ Crash
  BY <1>7, <1>1 DEF Pick, Stalled, Trim, Crash
<1>8. CASE RunFind \/ RunRead \/ RunProcess \/ RunScore \/ RunEnd \/ RunThrows
  BY <1>8, <1>1 DEF RunFind, RunRead, RunProcess, RunScore, RunEnd, RunThrows
<1>9. CASE RunClaim
  <2>1. /\ run.read.attempts \in Nat /\ run.read.attempts <= Used + crashes
        /\ run.at = "claim" /\ bull.state = "active"
    BY <1>9 DEF RunClaim, WithinUse, JobInOrder, TypeOK, Readings
  <2>2. Used' = Used /\ crashes' = crashes
    BY <1>9 DEF RunClaim, Used
  <2>3. Underway' = 1
    <3>1. run'.at = "read"
      BY <1>9 DEF RunClaim, NoRun
    <3> QED
      BY <3>1 DEF Underway, Claimed
  <2>4. run.read.attempts + 1 <= Total'
    BY <1>0, <2>1, <2>2, <2>3 DEF Total
  <2>5. PICK new \in JobRow : SetsRow(run.row, new) /\ new.attempts = run.read.attempts + 1
    BY <1>9, ClaimRows
  <2> QED
    BY <1>2, <2>4, <2>5
<1>10. CASE RunFinish
  BY <1>10, <1>1, <1>3, FinishRows
<1>11. ASSUME NEW h \in handlers, HandlerFind(h) \/ HandlerMedia(h) \/ HandlerThrows(h) PROVE jobs' = jobs
  BY <1>11 DEF HandlerFind, HandlerMedia, HandlerThrows
<1>12. ASSUME NEW h \in handlers, HandlerJob(h) PROVE RowsWithin'
  <2>1. PICK new \in JobRow : SetsRow(h.row, new) /\ new.attempts \in {h.made, jobs[h.row].attempts}
    BY <1>12, HandlerRows
  <2>2. /\ h.made \in Nat /\ h.made <= Used
        /\ jobs[h.row].attempts \in Nat /\ jobs[h.row].attempts <= Total
    BY <1>a, <2>1 DEF WithinUse, TypeOK, SetsRow
  <2>3. new.attempts <= Total'
    BY <1>0, <2>1, <2>2
  <2> QED
    BY <1>2, <2>1, <2>3
<1>13. CASE WatchdogStep \/ WatchdogThrows
  BY <1>13, <1>1, <1>3, SweepRows
<1>14. ASSUME NEW r \in Rows, Age(r) PROVE Restates
  BY <1>14, AgeRows
<1> QED
  BY <1>1, <1>3, <1>4, <1>5, <1>6, <1>7, <1>8, <1>9, <1>10, <1>11, <1>12, <1>13, <1>14
     DEF Next, runInspectionAnalysis, RunStep, HandlerStep

LEMMA ReadWithinStep ==
    ASSUME TypeOK, JobInOrder, WithinUse, [Next]_vars, run'.at = "claim"
    PROVE  run'.read.attempts <= Used' + crashes'
<1>0. /\ Used \in Nat /\ crashes \in Nat /\ Used' \in Nat /\ crashes' \in Nat
      /\ Used <= Used' /\ crashes <= crashes'
      /\ run \in [at : RunStates, row : 0..Len(jobs), read : Readings]
  <2>1. TypeOK' /\ JobInOrder'
    BY TypeStep, OrderStep
  <2> QED
    BY <2>1, TotalsAre, TotalsNext, UseGrows DEF TypeOK
<1>1. CASE run' = run
  BY <1>0, <1>1 DEF WithinUse, Readings
<1>2. CASE RunFind
  <2>1. NewestRow # 0
    BY <1>2 DEF RunFind, NoRun
  <2>2. run'.read.attempts = jobs[NewestRow].attempts /\ NewestRow \in Rows
    <3>1. NewestRow \in Rows
      BY <2>1, RowsAre DEF NewestRow
    <3>2. run'.read = Reading(NewestRow)
      BY <1>2, <2>1 DEF RunFind
    <3> QED
      BY <3>1, <3>2, ReadingTyped
  <2>3. run.at = "find" /\ bull.state = "active"
    BY <1>2 DEF RunFind, JobInOrder
  <2>4. Underway = 0
    BY <2>3 DEF Underway, Claimed
  <2>5. jobs[NewestRow].attempts <= Used + crashes
    BY <1>0, <2>2, <2>4, RowsAre DEF WithinUse, JobRow
  <2>6. jobs[NewestRow].attempts \in Nat
    BY <2>2, RowsAre DEF JobRow
  <2> QED
    BY <1>0, <2>2, <2>5, <2>6
<1>3. ~(Pick \/ Crash \/ RunClaim \/ RunRead \/ RunProcess \/ RunScore \/ RunFinish \/ RunEnd \/ RunThrows)
  <2>1. ~RunClaim /\ ~Pick
    BY DEF RunClaim, Pick, NoRun
  <2>2. ~Crash /\ ~RunEnd /\ ~RunThrows
    BY DEF Crash, RunEnd, RunThrows, NoRun
  <2>3. ~RunRead /\ ~RunProcess /\ ~RunScore /\ ~RunFinish
    BY <1>0 DEF RunRead, RunProcess, RunScore, RunFinish
  <2> QED
    BY <2>1, <2>2, <2>3
<1>4. ASSUME NEW c \in Calls, Enqueue(c) PROVE run' = run
  BY <1>4 DEF Enqueue, Trigger, findRecentProcessingJob, FindStale, CloseStale, MarkStaleMedia, addJob,
              createProcessingJobRecord, CallThrows
<1>5. ASSUME NEW h \in handlers, HandlerStep(h) PROVE run' = run
  BY <1>5 DEF HandlerStep, HandlerFind, HandlerJob, HandlerMedia, HandlerThrows
<1>6. CASE WatchdogStep \/ WatchdogThrows \/ Stalled \/ Trim
  BY <1>6, <1>1 DEF WatchdogStep, WatchdogScan, WatchdogRow, WatchdogMedia, WatchdogEnqueue, WatchdogEnqueued,
                    WatchdogThrows, Stalled, Trim
<1>7. ASSUME NEW r \in Rows, Age(r) PROVE run' = run
  BY <1>7 DEF Age
<1> QED
  BY <1>1, <1>2, <1>3, <1>4, <1>5, <1>6, <1>7 DEF Next, vars, runInspectionAnalysis, RunStep

LEMMA HandlersWithinStep ==
    ASSUME TypeOK, JobInOrder, WithinUse, [Next]_vars
    PROVE  \A h \in handlers' : h.made <= Used'
<1>0. /\ Used \in Nat /\ Used' \in Nat /\ Used <= Used' /\ Attempts \in Nat \ {0}
      /\ bull \in [state : BullStates, made : 0..Attempts, stalled : 0..1, reprocess : BOOLEAN, granted : Nat]
  <2>1. TypeOK' /\ JobInOrder'
    BY TypeStep, OrderStep
  <2> QED
    BY <2>1, TotalsAre, TotalsNext, UseGrows, ConstantsAssumption DEF TypeOK
<1>a. \A h \in handlers : h.made \in Nat /\ h.made <= Used
  BY DEF WithinUse, TypeOK
<1>1. CASE handlers' \subseteq handlers
  BY <1>0, <1>a, <1>1
<1>2. ASSUME NEW new, handlers' \subseteq handlers \cup {new}, new.made <= Used'
      PROVE  \A h \in handlers' : h.made <= Used'
  BY <1>0, <1>a, <1>2
<1>3. ASSUME NEW c \in Calls, Enqueue(c) PROVE handlers' = handlers
  BY <1>3 DEF Enqueue, Trigger, findRecentProcessingJob, FindStale, CloseStale, MarkStaleMedia, addJob,
              createProcessingJobRecord, CallThrows
<1>4. CASE Pick \/ Trim \/ Crash
  BY <1>4, <1>1 DEF Pick, Trim, Crash
<1>5. CASE Stalled
  <2>1. CASE handlers' = handlers
    BY <2>1, <1>1
  <2>2. ASSUME NEW counted \in 0..1, handlers' = handlers \cup {FailedEvent(bull.made + counted)},
               bull' = [bull EXCEPT !.state = "failed", !.made = @ + counted]
        PROVE  \A h \in handlers' : h.made <= Used'
    <3>1. bull.state = "active" /\ Attempts <= bull.granted
      BY <1>5 DEF Stalled, JobInOrder
    <3>2. bull'.state = "failed" /\ bull'.made = bull.made + counted /\ bull'.granted = bull.granted
      BY <1>0, <2>2
    <3>3. Used' = bull.granted - Attempts + (bull.made + counted)
      BY <3>2 DEF Used
    <3>4. bull.made + counted <= Used'
      BY <1>0, <3>1, <3>3
    <3>5. FailedEvent(bull.made + counted).made = bull.made + counted
      BY DEF FailedEvent
    <3>6. FailedEvent(bull.made + counted).made <= Used'
      BY <3>4, <3>5
    <3> QED
      BY <1>2, <2>2, <3>6
  <2> QED
    BY <1>5, <2>1, <2>2 DEF Stalled
<1>6. CASE RunStep
  BY <1>6, <1>1 DEF RunStep, RunFind, RunClaim, RunRead, RunProcess, RunScore, RunFinish, RunEnd
<1>7. CASE RunThrows
  <2>1. bull.state = "active" /\ Attempts <= bull.granted
    BY <1>7 DEF RunThrows, JobInOrder
  <2>2. bull'.state # "none" /\ bull'.made = bull.made + 1 /\ bull'.granted = bull.granted
    BY <1>0, <1>7 DEF RunThrows
  <2>3. bull.made + 1 <= Used'
    BY <1>0, <2>1, <2>2 DEF Used
  <2>4. FailedEvent(bull.made + 1).made = bull.made + 1
    BY DEF FailedEvent
  <2>5. FailedEvent(bull.made + 1).made <= Used'
    BY <2>3, <2>4
  <2>6. handlers' \subseteq handlers \cup {FailedEvent(bull.made + 1)}
    BY <1>7 DEF RunThrows
  <2> QED
    BY <1>2, <2>5, <2>6
<1>8. ASSUME NEW h \in handlers, HandlerFind(h) \/ HandlerJob(h) PROVE \A g \in handlers' : g.made <= Used'
  <2>1. PICK next : Becomes(h, next) /\ next.made = h.made
    BY <1>8, HandlerMoves
  <2>2. next.made <= Used'
    BY <1>0, <1>a, <2>1
  <2>3. handlers' \subseteq handlers \cup {next}
    BY <2>1 DEF Becomes
  <2> QED
    BY <1>2, <2>2, <2>3
<1>9. ASSUME NEW h \in handlers, HandlerMedia(h) \/ HandlerThrows(h) PROVE handlers' \subseteq handlers
  BY <1>9 DEF HandlerMedia, HandlerThrows
<1>10. CASE WatchdogStep \/ WatchdogThrows
  BY <1>10, <1>1 DEF WatchdogStep, WatchdogScan, WatchdogRow, WatchdogMedia, WatchdogEnqueue, WatchdogEnqueued,
                     WatchdogThrows
<1>11. ASSUME NEW r \in Rows, Age(r) PROVE handlers' = handlers
  BY <1>11 DEF Age
<1> QED
  BY <1>1, <1>3, <1>4, <1>5, <1>6, <1>7, <1>8, <1>9, <1>10, <1>11
     DEF Next, vars, runInspectionAnalysis, HandlerStep

LEMMA BudgetInit == Init => BudgetInv
<1> SUFFICES ASSUME Init PROVE BudgetInv
  OBVIOUS
<1>1. TypeOK
  <2>1. jobs = <<>> /\ jobs \in Seq(JobRow) /\ Len(jobs) = 0
    BY DEF Init
  <2>2. ScalarsOK
    BY ConstantsAssumption DEF Init, ScalarsOK, BullStates, AiStatuses, CallStates
  <2>3. Indices(Len(jobs))
    BY <2>1, NoReading DEF Init, Indices, NoRun, NoWatch, RunStates, WatchdogStates
  <2>4. staleRow \in [Calls -> 0..Len(jobs)]
    BY <2>1 DEF Init
  <2> QED
    BY <2>1, <2>2, <2>3, <2>4, TypesSplit
<1>2. JobInOrder
  BY DEF Init, JobInOrder, NoRun, Closing
<1>3. WithinUse
  BY DEF Init, WithinUse, NoRun, Rows
<1> QED
  BY <1>1, <1>2, <1>3 DEF BudgetInv

\* The queue with Redis keeps its types, its order and its count of attempts.
THEOREM BudgetKeeps == Spec => []BudgetInv
<1>1. Init => BudgetInv
  BY BudgetInit
<1>2. BudgetInv /\ [Next]_vars => BudgetInv'
  BY TypeStep, OrderStep, RowsWithinStep, ReadWithinStep, HandlersWithinStep
     DEF BudgetInv, WithinUse, RowsWithin, Total
<1> QED
  BY <1>1, <1>2, PTL DEF Spec

\* The variables of the queue with Redis keep their types.
THEOREM WorkerTypes == Spec => []TypeOK
<1>1. BudgetInv => TypeOK
  BY DEF BudgetInv
<1> QED
  BY <1>1, BudgetKeeps, PTL

\* No row accounts for more attempts than the jobs added for the image were given, one more
\* for each crash, whatever runs, handlers, calls and sweeps meet in whatever order.
THEOREM AttemptsWithinBudget == Spec => []AttemptBudget
<1>1. BudgetInv => AttemptBudget
  <2> SUFFICES ASSUME BudgetInv, NEW r \in Rows PROVE jobs[r].attempts <= bull.granted + crashes
    BY DEF AttemptBudget
  <2>1. jobs[r].attempts \in Nat /\ jobs[r].attempts <= Used + crashes + Underway
    BY RowsAre DEF BudgetInv, WithinUse, JobRow
  <2>2. Used + Underway <= bull.granted
    BY ConstantsAssumption DEF BudgetInv, TypeOK, JobInOrder, Used, Underway, Claimed
  <2>3. Used \in Nat /\ crashes \in Nat /\ Underway \in {0, 1} /\ bull.granted \in Nat
    BY TotalsAre DEF BudgetInv, TypeOK
  <2> QED
    BY <2>1, <2>2, <2>3
<1> QED
  BY <1>1, BudgetKeeps, PTL

-----------------------------------------------------------------------------
(* One prompt call, without faults.                                        *)

\* Nobody comes between the caller, its one row, the job and its handlers.
Lone ==
    /\ crashes = 0 /\ dbErrors = 0
    /\ watchdog = NoWatch
    /\ \A r \in Rows : jobs[r].age < 2
    /\ OneCall /\ call[WatchdogCall] = "idle"
    /\ call[First] \notin Closing \cup {"retryMedia", "failMedia"}
    /\ jobs # <<>> => Len(jobs) = 1 /\ call[First] = "done"
    /\ call[First] \in {"idle", "find", "findStale", "add"} => bull.state = "none"

\* A handler speaks for the attempt that was made last, while no other is made; and a job is
\* given up with no attempts to spare, which its handler tells the image.
HandlersFollow ==
    /\ bull.state = "active" => run.at # "none"
    /\ \A h \in handlers : bull.state \in {"waiting", "failed"} /\ h.made = bull.made
    /\ bull.state = "failed" =>
         /\ Attempts <= bull.made
         /\ handlers = {} => media = "AI_FAILED"

\* A row stays running after its run only until the handler has got to it.
RunningIsOwned ==
    \A r \in Rows : jobs[r].status = "running" =>
        \/ run.at # "none"
        \/ bull.state = "completed"
        \/ \E h \in handlers : h.at = "find" \/ (h.at = "job" /\ h.row = r)

\* There is one handler, and what it has read is what the row says.
ReadingHolds ==
    /\ \A g, h \in handlers : g = h
    /\ \A h \in handlers : h.at = "job" => h.read.status = jobs[h.row].status

SettleInv == part = "settle" => TypeOK /\ JobInOrder /\ Lone /\ HandlersFollow /\ ReadingHolds /\ RunningIsOwned

\* A step of this part is one of the queue, without the faults that it excludes.
SettleNext ==
    \/ \E c \in Calls : Enqueue(c)
    \/ Pick /\ handlers = {}
    \/ Stalled
    \/ runInspectionAnalysis
    \/ \E h \in handlers : HandlerFind(h) \/ HandlerJob(h) \/ HandlerMedia(h)
    \/ WatchdogStep
    \/ \E r \in Rows : Age(r)

LEMMA SettleIsQueue ==
    ASSUME TypeOK, crashes = 0, dbErrors = 0, Settle!Next
    PROVE  SettleNext
<1>1. ASSUME NEW c \in Calls, Settle!Enqueue(c) PROVE Enqueue(c)
  <2>1. CASE Settle!Trigger(c)
    BY <2>1 DEF Settle!Trigger, Trigger, Enqueue
  <2>2. CASE Settle!findRecentProcessingJob(c)
    BY <2>2 DEF Settle!findRecentProcessingJob, Settle!Recent, Settle!Rows, Settle!Live,
                findRecentProcessingJob, Recent, Rows, Live, Enqueue
  <2>7. CASE Settle!FindStale(c)
    BY <2>7 DEF Settle!FindStale, Settle!StaleRunning, Settle!Rows, Settle!Spent,
                FindStale, StaleRunning, Rows, Spent, Enqueue
  <2>8. CASE Settle!CloseStale(c)
    BY <2>8 DEF Settle!CloseStale, Settle!Row, CloseStale, Row, Enqueue
  <2>3. CASE Settle!MarkStaleMedia(c)
    BY <2>3 DEF Settle!MarkStaleMedia, MarkStaleMedia, Enqueue
  <2>4. CASE Settle!addJob(c)
    BY <2>4 DEF Settle!addJob, addJob, Enqueue
  <2>5. CASE Settle!createProcessingJobRecord(c)
    BY <2>5 DEF Settle!createProcessingJobRecord, Settle!Row, createProcessingJobRecord, Row, Enqueue
  <2>6. CASE Settle!CallThrows(c)
    BY <2>6 DEF Settle!CallThrows, Settle!CallStates, CallThrows, CallStates, Enqueue
  <2> QED
    BY <1>1, <2>1, <2>2, <2>3, <2>4, <2>5, <2>6, <2>7, <2>8 DEF Settle!Enqueue
<1>2. CASE Settle!Pick
  BY <1>2 DEF Settle!Pick, Settle!NoRun, Settle!Row, Pick, NoRun, Row, SettleNext
<1>3. CASE Settle!Stalled
  BY <1>3 DEF Settle!Stalled, Settle!NoRun, Settle!FailedEvent, Settle!Row, Stalled, NoRun, FailedEvent, Row, SettleNext
<1>4. ~Settle!Trim /\ ~Settle!Crash /\ ~Settle!WatchdogThrows
  BY RowsAre DEF Settle!Trim, Settle!Crash, Settle!WatchdogThrows
<1>5. CASE Settle!runInspectionAnalysis
  <2> USE DEF SettleNext
  <2>1. CASE Settle!RunFind
    BY <2>1 DEF Settle!RunFind, Settle!NewestRow, Settle!NoRun, Settle!Reading, Settle!Row,
                RunFind, NewestRow, NoRun, Reading, Row, RunStep, runInspectionAnalysis
  <2>2. CASE Settle!RunClaim \/ Settle!RunFinish
    BY <2>2 DEF Settle!RunClaim, Settle!RunFinish, Settle!Updated, Settle!Saved, Settle!NoRun, Settle!Row,
                RunClaim, RunFinish, Updated, Saved, NoRun, Row, RunStep, runInspectionAnalysis
  <2>3. CASE Settle!RunRead \/ Settle!RunProcess \/ Settle!RunScore
    BY <2>3 DEF Settle!RunRead, Settle!RunProcess, Settle!RunScore, RunRead, RunProcess, RunScore, RunStep,
                runInspectionAnalysis
  <2>4. CASE Settle!RunEnd
    BY <2>4 DEF Settle!RunEnd, Settle!NoRun, Settle!Row, RunEnd, NoRun, Row, RunStep, runInspectionAnalysis
  <2>5. CASE Settle!RunThrows
    BY <2>5 DEF Settle!RunThrows, Settle!NoRun, Settle!FailedEvent, Settle!Row,
                RunThrows, NoRun, FailedEvent, Row, runInspectionAnalysis
  <2> QED
    BY <1>5, <2>1, <2>2, <2>3, <2>4, <2>5 DEF Settle!runInspectionAnalysis, Settle!RunStep
<1>6. ASSUME NEW h \in handlers, Settle!HandlerStep(h) PROVE HandlerFind(h) \/ HandlerJob(h) \/ HandlerMedia(h)
  <2>1. CASE Settle!HandlerFind(h)
    BY <2>1 DEF Settle!HandlerFind, Settle!NewestRow, Settle!Becomes, Settle!Reading, Settle!Row,
                HandlerFind, NewestRow, Becomes, Reading, Row
  <2>2. CASE Settle!HandlerJob(h)
    BY <2>2 DEF Settle!HandlerJob, Settle!Updated, Settle!Saved, Settle!FailedEvent, Settle!Row, Settle!Spent,
                Settle!Becomes, HandlerJob, Updated, Saved, FailedEvent, Row, Spent, Becomes
  <2>3. CASE Settle!HandlerMedia(h)
    BY <2>3 DEF Settle!HandlerMedia, Settle!Spent, HandlerMedia, Spent
  <2>4. ~Settle!HandlerThrows(h)
    BY DEF Settle!HandlerThrows
  <2> QED
    BY <1>6, <2>1, <2>2, <2>3, <2>4 DEF Settle!HandlerStep
<1>7. CASE Settle!WatchdogStep
  <2> USE DEF WatchdogStep, SettleNext
  <2>1. CASE Settle!WatchdogScan
    BY <2>1 DEF Settle!WatchdogScan, Settle!StaleRunning, Settle!Rows, Settle!NoWatch,
                WatchdogScan, StaleRunning, Rows, NoWatch
  <2>2. ASSUME NEW e \in watchdog.todo, Settle!WatchdogRow(e) PROVE WatchdogRow(e)
    BY <2>2 DEF Settle!WatchdogRow, Settle!Row, Settle!Spent, WatchdogRow, Row, Spent
  <2>3. CASE Settle!WatchdogMedia
    BY <2>3 DEF Settle!WatchdogMedia, Settle!Spent, Settle!NextRow, Settle!NoWatch, WatchdogMedia, Spent, NextRow, NoWatch
  <2>4. CASE Settle!WatchdogEnqueue
    BY <2>4 DEF Settle!WatchdogEnqueue, WatchdogEnqueue
  <2>5. CASE Settle!WatchdogEnqueued
    BY <2>5 DEF Settle!WatchdogEnqueued, Settle!NextRow, Settle!NoWatch, WatchdogEnqueued, NextRow, NoWatch
  <2> QED
    BY <1>7, <2>1, <2>2, <2>3, <2>4, <2>5 DEF Settle!WatchdogStep
<1>8. ASSUME NEW r \in Settle!Rows, Settle!Age(r) PROVE r \in Rows /\ Age(r)
  BY <1>8 DEF Settle!Age, Settle!Rows, Settle!Live, Age, Rows, Live
<1> QED
  BY <1>1, <1>2, <1>3, <1>4, <1>5, <1>6, <1>7, <1>8 DEF Settle!Next, SettleNext

LEMMA SettleNextIsNext == SettleNext => Next
BY DEF SettleNext, Next, HandlerStep

LEMMA LoneStep ==
    ASSUME TypeOK, JobInOrder, Lone, SettleNext, OneCall'
    PROVE  Lone'
<1>0. /\ jobs \in Seq(JobRow) /\ Len(jobs) \in Nat /\ Rows = 1..Len(jobs)
      /\ call \in [Calls -> CallStates] /\ MaxAge < 2 /\ MaxAge \in Nat
      /\ First \in Calls /\ WatchdogCall \in Calls /\ First # WatchdogCall
  BY RowsAre, ConstantsAssumption, SettingsAssumption DEF TypeOK
<1>a. StaleRunning = {}
  BY DEF StaleRunning, Lone
<1> USE DEF Lone
<1>1. ASSUME NEW c \in Calls, Enqueue(c) PROVE Lone'
  <2>1. CASE Trigger(c)
    <3>1. c = First
      BY <1>0, <2>1 DEF Trigger, OneCall
    <3> QED
      BY <1>0, <2>1, <3>1 DEF Trigger, Rows, Closing
  <2>2. CASE findRecentProcessingJob(c)
    <3>1. c = First
      BY <1>0, <2>2 DEF findRecentProcessingJob, OneCall
    <3>2. jobs' = jobs /\ call'[First] \in {"done", "findStale"} /\ call'[WatchdogCall] = "idle"
      BY <1>0, <2>2, <3>1 DEF findRecentProcessingJob
    <3> QED
      BY <1>0, <2>2, <3>1, <3>2 DEF findRecentProcessingJob, Rows, Closing
  <2>7. CASE FindStale(c)
    <3>1. c = First
      BY <1>0, <2>7 DEF FindStale, OneCall
    <3>2. jobs' = jobs /\ call' = [call EXCEPT ![First] = "add"]
      BY <1>a, <2>7, <3>1 DEF FindStale
    <3> QED
      BY <1>0, <2>7, <3>1, <3>2 DEF FindStale, Rows, Closing
  <2>8. ~CloseStale(c)
    BY <1>0 DEF CloseStale, OneCall, Closing
  <2>3. ~MarkStaleMedia(c)
    BY <1>0 DEF MarkStaleMedia, OneCall
  <2>4. CASE addJob(c)
    <3>1. c = First
      BY <1>0, <2>4 DEF addJob, OneCall
    <3> QED
      BY <1>0, <2>4, <3>1 DEF addJob, Rows, Closing
  <2>5. CASE createProcessingJobRecord(c)
    <3>1. c = First
      BY <1>0, <2>5 DEF createProcessingJobRecord, OneCall
    <3>2. jobs = <<>> /\ call'[First] = "done" /\ call'[WatchdogCall] = "idle"
      BY <1>0, <2>5, <3>1 DEF createProcessingJobRecord
    <3>3. jobs' = <<Row("queued", 0)>>
      BY <2>5, <3>2 DEF createProcessingJobRecord
    <3>4. Len(jobs') = 1 /\ \A r \in Rows' : jobs'[r].age < 2
      BY <3>3 DEF Rows, Row
    <3> QED
      BY <1>0, <2>5, <3>2, <3>4 DEF createProcessingJobRecord, Closing
  <2>6. CASE CallThrows(c)
    <3>1. c = First
      BY <1>0, <2>6 DEF CallThrows, OneCall
    <3> QED
      BY <1>0, <2>6, <3>1 DEF CallThrows, Rows, Closing
  <2> QED
    BY <1>1, <2>1, <2>2, <2>3, <2>4, <2>5, <2>6, <2>7, <2>8 DEF Enqueue
<1>2. CASE Pick
  BY <1>2 DEF Pick, Rows
<1>3. CASE Stalled
  BY <1>3 DEF Stalled, Rows
<1>4. ASSUME NEW r \in Rows, NEW new, SetsRow(r, new), new.age < 2,
             UNCHANGED <<call, watchdog, crashes, dbErrors, bull>>
      PROVE  Lone'
  <2>1. Len(jobs') = Len(jobs) /\ Rows' = Rows /\ \A q \in Rows : jobs'[q].age < 2
    BY <1>4, RowIsSet
  <2>2. jobs' # <<>> => jobs # <<>>
    BY <1>0, <2>1
  <2> QED
    BY <1>4, <2>1, <2>2
<1>5. ASSUME NEW r \in Rows, NEW status \in JobStatuses, NEW attempts \in Nat,
             jobs' = [jobs EXCEPT ![r] = Row(status, attempts)],
             UNCHANGED <<call, watchdog, crashes, dbErrors, bull>>
      PROVE  Lone'
  <2>1. SetsRow(r, Row(status, attempts)) /\ Row(status, attempts).age < 2
    BY <1>5, RowTyped DEF SetsRow, Row
  <2> QED
    BY <1>4, <1>5, <2>1
<1>6. CASE runInspectionAnalysis
  <2>1. CASE RunFind \/ RunRead \/ RunProcess \/ RunScore
    BY <2>1 DEF RunFind, RunRead, RunProcess, RunScore, Rows
  <2>2. CASE RunClaim
    <3>1. PICK new \in JobRow : SetsRow(run.row, new) /\ new.age = 0
      BY <2>2, ClaimRows
    <3>2. run.row \in Rows /\ new.age < 2
      BY <3>1 DEF SetsRow
    <3>3. UNCHANGED <<call, watchdog, crashes, dbErrors, bull>>
      BY <2>2 DEF RunClaim
    <3> QED
      BY <1>4, <3>1, <3>2, <3>3
  <2>3. CASE RunFinish
    <3>1. CASE run.row = 0
      BY <2>3, <3>1 DEF RunFinish, Rows
    <3>2. CASE run.row # 0
      <4>1. run.row \in Rows /\ "succeeded" \in JobStatuses
        BY <1>0, <3>2 DEF TypeOK, JobStatuses
      <4>2. jobs[run.row].attempts \in Nat
        BY <4>1, RowsAre DEF JobRow
      <4> QED
        BY <1>5, <2>3, <3>2, <4>1, <4>2 DEF RunFinish
    <3> QED
      BY <3>1, <3>2
  <2>4. CASE RunEnd \/ RunThrows
    <3>1. bull.state = "active"
      BY <2>4 DEF RunEnd, RunThrows, JobInOrder
    <3> QED
      BY <2>4, <3>1 DEF RunEnd, RunThrows, Rows
  <2> QED
    BY <1>6, <2>1, <2>2, <2>3, <2>4 DEF runInspectionAnalysis, RunStep
<1>7. ASSUME NEW h \in handlers, HandlerFind(h) \/ HandlerMedia(h) PROVE Lone'
  BY <1>7 DEF HandlerFind, HandlerMedia, Rows
<1>8. ASSUME NEW h \in handlers, HandlerJob(h) PROVE Lone'
  <2>1. PICK new \in JobRow : SetsRow(h.row, new) /\ new.age = 0
    BY <1>8, HandlerRows
  <2>2. h.row \in Rows /\ new.age < 2
    BY <2>1 DEF SetsRow
  <2>3. UNCHANGED <<call, watchdog, crashes, dbErrors, bull>>
    BY <1>8 DEF HandlerJob
  <2> QED
    BY <1>4, <2>1, <2>2, <2>3
<1>9. ~WatchdogStep
  BY <1>a DEF WatchdogStep, WatchdogScan, WatchdogRow, WatchdogMedia, WatchdogEnqueue, WatchdogEnqueued, NoWatch
<1>10. ASSUME NEW r \in Rows, Age(r) PROVE Lone'
  <2>1. jobs[r] \in JobRow /\ jobs[r].age < MaxAge
    BY <1>10, RowsAre DEF Age
  <2>2. PICK new : new = [jobs[r] EXCEPT !.age = jobs[r].age + 1]
    OBVIOUS
  <2>3. new \in JobRow /\ new.age < 2
    BY <1>0, <2>1, <2>2 DEF JobRow
  <2>4. jobs' = [jobs EXCEPT ![r] = new]
    BY <1>10, <2>2 DEF Age
  <2> QED
    BY <1>4, <1>10, <2>3, <2>4 DEF Age, SetsRow
<1> QED
  BY <1>1, <1>2, <1>3, <1>6, <1>7, <1>8, <1>9, <1>10 DEF SettleNext

LEMMA HandlersFollowStep ==
    ASSUME TypeOK, JobInOrder, Lone, HandlersFollow, SettleNext, OneCall'
    PROVE  HandlersFollow'
<1>0. /\ bull \in [state : BullStates, made : 0..Attempts, stalled : 0..1, reprocess : BOOLEAN, granted : Nat]
      /\ run \in [at : RunStates, row : 0..Len(jobs), read : Readings]
      /\ call \in [Calls -> CallStates]
      /\ Attempts \in Nat \ {0} /\ First \in Calls
  BY ConstantsAssumption, SettingsAssumption DEF TypeOK
<1>a. run.at # "none" <=> bull.state = "active"
  BY DEF JobInOrder, HandlersFollow
<1>b. bull.state \in {"none", "active", "completed"} => handlers = {}
  BY DEF HandlersFollow
<1> USE DEF HandlersFollow
<1>1. CASE UNCHANGED <<bull, run, handlers, media>>
  BY <1>1
<1>2. ASSUME NEW c \in Calls, Enqueue(c) PROVE HandlersFollow'
  <2>1. CASE UNCHANGED <<bull, run, handlers, media>>
    BY <1>1, <2>1
  <2>2. CASE Trigger(c)
    <3>1. c = First
      BY <1>0, <2>2 DEF Trigger, OneCall
    <3>2. bull.state = "none"
      BY <2>2, <3>1 DEF Trigger, Lone
    <3> QED
      BY <1>a, <2>2, <3>2 DEF Trigger
  <2>3. ~MarkStaleMedia(c) /\ ~CloseStale(c)
    BY <1>0 DEF MarkStaleMedia, CloseStale, Closing, Lone, OneCall
  <2>4. CASE addJob(c)
    BY <1>0, <1>a, <1>b, <2>4 DEF addJob
  <2> QED
    BY <1>2, <2>1, <2>2, <2>3, <2>4 DEF Enqueue, findRecentProcessingJob, FindStale, createProcessingJobRecord, CallThrows
<1>3. CASE Pick /\ handlers = {}
  BY <1>0, <1>3 DEF Pick, NoRun
<1>4. ~Stalled
  BY <1>a DEF Stalled, NoRun
<1>5. CASE RunFind \/ RunClaim \/ RunRead \/ RunProcess \/ RunScore \/ RunFinish
  <2>1. run'.at # "none" /\ bull.state = "active" /\ UNCHANGED <<bull, handlers>>
    <3>1. CASE RunClaim \/ RunFind
      <4>1. run.at # "none"
        BY <3>1 DEF RunFind, RunClaim
      <4> QED
        BY <1>a, <3>1, <4>1, RunGoesOn
    <3>2. CASE RunRead \/ RunProcess \/ RunScore \/ RunFinish
      BY <1>0, <1>a, <3>2 DEF RunRead, RunProcess, RunScore, RunFinish
    <3> QED
      BY <1>5, <3>1, <3>2
  <2> QED
    BY <2>1
<1>6. CASE RunEnd
  <2>1. handlers' = {} /\ bull'.state = "completed"
    BY <1>0, <1>a, <1>b, <1>6 DEF RunEnd
  <2> QED
    BY <2>1
<1>7. CASE RunThrows
  <2>1. handlers = {}
    BY <1>a, <1>b, <1>7 DEF RunThrows, JobInOrder
  <2>2. /\ bull'.made = bull.made + 1 /\ bull'.state \in {"waiting", "failed"}
        /\ bull'.state = "failed" => Attempts <= bull.made + 1
    BY <1>0, <1>7 DEF RunThrows
  <2>3. handlers' = {FailedEvent(bull.made + 1)} /\ FailedEvent(bull.made + 1).made = bull.made + 1
    BY <1>7, <2>1 DEF RunThrows, FailedEvent
  <2> QED
    BY <2>2, <2>3
<1>8. ASSUME NEW h \in handlers, HandlerFind(h) \/ HandlerJob(h) PROVE HandlersFollow'
  <2>2. PICK next : Becomes(h, next) /\ next.made = h.made
    BY <1>8, HandlerMoves
  <2>3. handlers' \subseteq handlers \cup {next} /\ handlers' # {}
    BY <2>2 DEF Becomes
  <2>4. UNCHANGED <<bull, run, media>>
    BY <1>8 DEF HandlerFind, HandlerJob
  <2> QED
    BY <2>2, <2>3, <2>4
<1>9. ASSUME NEW h \in handlers, HandlerMedia(h) PROVE HandlersFollow'
  <2>1. h.made = bull.made /\ h.made \in Nat
    BY DEF TypeOK
  <2>2. bull.state = "failed" => media' = "AI_FAILED"
    BY <1>0, <1>9, <2>1 DEF HandlerMedia, Spent
  <2> QED
    BY <1>9, <2>2 DEF HandlerMedia
<1>10. ~WatchdogStep
  <2>1. StaleRunning = {}
    BY DEF StaleRunning, Lone
  <2> QED
    BY <2>1 DEF WatchdogStep, WatchdogScan, WatchdogRow, WatchdogMedia, WatchdogEnqueue, WatchdogEnqueued, NoWatch, Lone
<1>11. ASSUME NEW r \in Rows, Age(r) PROVE UNCHANGED <<bull, run, handlers, media>>
  BY <1>11 DEF Age
<1> QED
  BY <1>1, <1>2, <1>3, <1>4, <1>5, <1>6, <1>7, <1>8, <1>9, <1>10, <1>11
     DEF SettleNext, runInspectionAnalysis, RunStep

\* In this part nothing is written between the handler's reading and its update.
LEMMA ReadingHoldsStep ==
    ASSUME TypeOK, JobInOrder, Lone, HandlersFollow, ReadingHolds, SettleNext, OneCall'
    PROVE  ReadingHolds'
<1>0. /\ First \in Calls /\ call \in [Calls -> CallStates]
      /\ \A h \in handlers : h.at = "job" => h.row \in Rows
  BY SettingsAssumption DEF TypeOK, JobInOrder
<1>b. bull.state = "active" => handlers = {}
  BY DEF HandlersFollow
<1> USE DEF ReadingHolds
<1>1. ASSUME handlers' \subseteq handlers, \A r \in Rows : jobs'[r].status = jobs[r].status
      PROVE  ReadingHolds'
  BY <1>0, <1>1
<1>2. CASE UNCHANGED <<jobs, handlers>>
  BY <1>2
<1>3. ASSUME NEW c \in Calls, Enqueue(c) PROVE ReadingHolds'
  <2>1. ~CloseStale(c)
    BY <1>0 DEF CloseStale, Closing, Lone, OneCall
  <2>2. CASE createProcessingJobRecord(c)
    <3>1. AddsRow /\ handlers' = handlers
      BY <2>2 DEF createProcessingJobRecord, AddsRow
    <3> QED
      BY <1>1, <3>1, RowIsAdded
  <2> QED
    BY <1>2, <1>3, <2>1, <2>2 DEF Enqueue, Trigger, findRecentProcessingJob, FindStale, MarkStaleMedia, addJob,
                                  CallThrows
<1>4. CASE Pick /\ handlers = {}
  BY <1>4 DEF Pick
<1>5. ~Stalled
  BY DEF Stalled, HandlersFollow, NoRun
<1>6. CASE RunStep
  <2>1. handlers = {} /\ handlers' = {}
    BY <1>6, <1>b DEF RunStep, RunFind, RunClaim, RunRead, RunProcess, RunScore, RunFinish, RunEnd, JobInOrder
  <2> QED
    BY <2>1
<1>7. CASE RunThrows
  <2>1. handlers' = {FailedEvent(bull.made + 1)}
    BY <1>7, <1>b DEF RunThrows, JobInOrder
  <2>2. FailedEvent(bull.made + 1).at = "find"
    BY DEF FailedEvent
  <2> QED
    BY <2>1, <2>2
<1>8. ASSUME NEW h \in handlers, HandlerFind(h) \/ HandlerJob(h) PROVE ReadingHolds'
  <2>1. PICK next : /\ Becomes(h, next)
                    /\ next.at = "job" => next.read.status = jobs[next.row].status
                    /\ HandlerJob(h) => next.at = "media"
    BY <1>8, HandlerMoves
  <2>2. handlers' = {next}
    BY <2>1 DEF Becomes
  <2>3. CASE HandlerFind(h)
    BY <2>1, <2>2, <2>3 DEF HandlerFind
  <2>4. CASE HandlerJob(h)
    BY <2>1, <2>2, <2>4
  <2> QED
    BY <1>8, <2>3, <2>4
<1>9. ASSUME NEW h \in handlers, HandlerMedia(h) PROVE ReadingHolds'
  BY <1>1, <1>9 DEF HandlerMedia
<1>10. ~WatchdogStep
  <2>1. StaleRunning = {}
    BY DEF StaleRunning, Lone
  <2> QED
    BY <2>1 DEF WatchdogStep, WatchdogScan, WatchdogRow, WatchdogMedia, WatchdogEnqueue, WatchdogEnqueued, NoWatch, Lone
<1>11. ASSUME NEW r \in Rows, Age(r) PROVE ReadingHolds'
  <2>1. jobs[r] \in JobRow /\ jobs[r].age < MaxAge
    BY <1>11, RowsAre DEF Age
  <2>2. PICK new : new = [jobs[r] EXCEPT !.age = jobs[r].age + 1]
    OBVIOUS
  <2>3. new \in JobRow /\ new.status = jobs[r].status
    BY <2>1, <2>2, ConstantsAssumption DEF JobRow
  <2>4. SetsRow(r, new)
    BY <1>11, <2>2, <2>3 DEF Age, SetsRow
  <2>5. \A q \in Rows : jobs'[q].status = jobs[q].status
    BY <2>3, <2>4, RowIsSet
  <2> QED
    BY <1>1, <1>11, <2>5 DEF Age
<1> QED
  BY <1>3, <1>4, <1>5, <1>6, <1>7, <1>8, <1>9, <1>10, <1>11 DEF SettleNext, runInspectionAnalysis

\* The row is at what a run has claimed, a handler has still to close, or a status that no
\* longer says that a run is under way.
LEMMA RunningIsOwnedStep ==
    ASSUME TypeOK, JobInOrder, Lone, HandlersFollow, ReadingHolds, RunningIsOwned, SettleNext,
           OneCall'
    PROVE  RunningIsOwned'
<1>0. /\ jobs \in Seq(JobRow) /\ Len(jobs) \in Nat /\ Rows = 1..Len(jobs)
      /\ bull \in [state : BullStates, made : 0..Attempts, stalled : 0..1, reprocess : BOOLEAN, granted : Nat]
      /\ run \in [at : RunStates, row : 0..Len(jobs), read : Readings]
      /\ First \in Calls /\ call \in [Calls -> CallStates]
  BY RowsAre, SettingsAssumption DEF TypeOK
<1>a. Rows # {} => Rows = {1} /\ NewestRow = 1
  BY <1>0 DEF Lone, NewestRow
<1>b. run.at # "none" <=> bull.state = "active"
  BY DEF JobInOrder, HandlersFollow
<1>1. CASE UNCHANGED <<jobs, bull, run, handlers>>
  BY <1>1 DEF RunningIsOwned, Rows
<1>2. CASE run'.at # "none"
  BY <1>2 DEF RunningIsOwned
<1>3. CASE bull'.state = "completed"
  BY <1>3 DEF RunningIsOwned
<1>4. ASSUME NEW c \in Calls, Enqueue(c) PROVE RunningIsOwned'
  <2>1. CASE UNCHANGED <<jobs, bull, run, handlers>>
    BY <1>1, <2>1
  <2>2. CASE findRecentProcessingJob(c)
    BY <1>1, <2>2 DEF findRecentProcessingJob
  <2>5. ~CloseStale(c)
    BY <1>0 DEF CloseStale, Closing, Lone, OneCall
  <2>3. CASE addJob(c)
    <3>1. c = First
      BY <1>0, <2>3 DEF addJob, Lone, OneCall
    <3>2. Rows = {} /\ jobs' = jobs
      BY <1>0, <2>3, <3>1 DEF addJob, Lone
    <3> QED
      BY <3>2 DEF RunningIsOwned, Rows
  <2>4. CASE createProcessingJobRecord(c)
    <3>1. c = First
      BY <1>0, <2>4 DEF createProcessingJobRecord, Lone, OneCall
    <3>2. jobs = <<>>
      BY <2>4, <3>1 DEF createProcessingJobRecord, Lone
    <3>3. jobs' = <<Row("queued", 0)>>
      BY <2>4, <3>2 DEF createProcessingJobRecord
    <3>4. \A r \in Rows' : jobs'[r].status = "queued"
      BY <3>3 DEF Rows, Row
    <3> QED
      BY <3>4 DEF RunningIsOwned
  <2> QED
    BY <1>4, <2>1, <2>2, <2>3, <2>4, <2>5 DEF Enqueue, Trigger, FindStale, MarkStaleMedia, CallThrows
<1>5. CASE Pick
  BY <1>0, <1>2, <1>5 DEF Pick, NoRun
<1>6. ~Stalled
  BY <1>b DEF Stalled, NoRun
<1>7. CASE RunFind \/ RunClaim \/ RunRead \/ RunProcess \/ RunScore \/ RunFinish
  <2>1. run'.at # "none"
    <3>1. CASE RunClaim \/ RunFind
      BY <3>1, RunGoesOn
    <3>2. CASE RunRead \/ RunProcess \/ RunScore \/ RunFinish
      BY <1>0, <3>2 DEF RunRead, RunProcess, RunScore, RunFinish
    <3> QED
      BY <1>7, <3>1, <3>2
  <2> QED
    BY <1>2, <2>1
<1>8. CASE RunEnd
  BY <1>0, <1>3, <1>8 DEF RunEnd
<1>9. CASE RunThrows
  <2>1. FailedEvent(bull.made + 1) \in handlers' /\ FailedEvent(bull.made + 1).at = "find"
    BY <1>9 DEF RunThrows, FailedEvent
  <2> QED
    BY <2>1 DEF RunningIsOwned
<1>10. ASSUME NEW h \in handlers, HandlerFind(h) PROVE RunningIsOwned'
  <2>1. PICK next : /\ Becomes(h, next)
                    /\ next.at = "job" => next.row = NewestRow
                    /\ Rows # {} => next.at = "job"
    BY <1>10, HandlerMoves
  <2>2. /\ jobs' = jobs /\ run' = run /\ bull' = bull /\ h.at = "find"
        /\ next \in handlers' /\ handlers \ {h} \subseteq handlers'
    BY <1>10, <2>1 DEF HandlerFind, Becomes
  <2>3. \A r \in Rows : next.at = "job" /\ next.row = r
    BY <1>a, <2>1
  <2> QED
    BY <2>2, <2>3 DEF RunningIsOwned, Rows
<1>11. ASSUME NEW h \in handlers, HandlerJob(h) PROVE RunningIsOwned'
  <2>1. h.row \in Rows /\ h.read.status = jobs[h.row].status
    BY <1>11 DEF HandlerJob, JobInOrder, ReadingHolds
  <2>2. PICK new \in JobRow : SetsRow(h.row, new) /\ new.status \in {"dead_letter", "failed"}
    BY <1>11, <2>1, HandlerRows
  <2>3. Rows' = Rows /\ \A r \in Rows : jobs'[r].status # "running"
    <3>1. Rows' = Rows /\ \A q \in Rows : jobs'[q] = IF q = h.row THEN new ELSE jobs[q]
      BY <2>2, RowIsSet
    <3>2. \A q \in Rows : q = h.row
      BY <1>a, <2>1
    <3> QED
      BY <2>2, <3>1, <3>2
  <2> QED
    BY <2>3 DEF RunningIsOwned
<1>12. ASSUME NEW h \in handlers, HandlerMedia(h) PROVE RunningIsOwned'
  <2>1. jobs' = jobs /\ run' = run /\ bull' = bull /\ handlers' = handlers \ {h} /\ h.at = "media"
    BY <1>12 DEF HandlerMedia
  <2> QED
    BY <2>1 DEF RunningIsOwned, Rows
<1>13. ~WatchdogStep
  <2>1. StaleRunning = {}
    BY DEF StaleRunning, Lone
  <2> QED
    BY <2>1 DEF WatchdogStep, WatchdogScan, WatchdogRow, WatchdogMedia, WatchdogEnqueue, WatchdogEnqueued, NoWatch, Lone
<1>14. ASSUME NEW r \in Rows, Age(r) PROVE RunningIsOwned'
  <2>1. jobs[r] \in JobRow /\ jobs[r].age < MaxAge
    BY <1>14, RowsAre DEF Age
  <2>2. PICK new : new = [jobs[r] EXCEPT !.age = jobs[r].age + 1]
    OBVIOUS
  <2>3. new \in JobRow /\ new.status = jobs[r].status
    BY <2>1, <2>2, ConstantsAssumption DEF JobRow
  <2>4. SetsRow(r, new)
    BY <1>14, <2>2, <2>3 DEF Age, SetsRow
  <2>5. Rows' = Rows /\ \A q \in Rows : jobs'[q].status = jobs[q].status
    BY <2>3, <2>4, RowIsSet
  <2>6. UNCHANGED <<bull, run, handlers>>
    BY <1>14 DEF Age
  <2> QED
    BY <2>5, <2>6 DEF RunningIsOwned
<1> QED
  BY <1>4, <1>5, <1>6, <1>7, <1>8, <1>9, <1>10, <1>11, <1>12, <1>13, <1>14
     DEF SettleNext, runInspectionAnalysis, RunStep

LEMMA SettleInit == MCInit => SettleInv
<1> SUFFICES ASSUME Init PROVE TypeOK /\ JobInOrder /\ Lone /\ HandlersFollow /\ ReadingHolds /\ RunningIsOwned
  BY DEF MCInit, SettleInv
<1>1. TypeOK /\ JobInOrder
  BY BudgetInit DEF BudgetInv
<1>2. Lone
  BY SettingsAssumption, ConstantsAssumption DEF Init, Lone, OneCall, Rows, Closing
<1>3. HandlersFollow /\ ReadingHolds
  BY DEF Init, HandlersFollow, ReadingHolds
<1>4. RunningIsOwned
  BY DEF Init, RunningIsOwned, Rows
<1> QED
  BY <1>1, <1>2, <1>3, <1>4

LEMMA SettleStep ==
    ASSUME SettleInv, [MCNext]_all
    PROVE  SettleInv'
<1>1. part' = part
  BY DEF MCNext, In, Either, all
<1>2. SUFFICES ASSUME part = "settle"
               PROVE  TypeOK' /\ JobInOrder' /\ Lone' /\ HandlersFollow' /\ ReadingHolds' /\ RunningIsOwned'
  BY <1>1 DEF SettleInv
<1>3. TypeOK /\ JobInOrder /\ Lone /\ HandlersFollow /\ ReadingHolds /\ RunningIsOwned
  BY <1>2 DEF SettleInv
<1>4. CASE UNCHANGED all
  <2>1. UNCHANGED vars
    BY <1>4 DEF all
  <2>2. TypeOK' /\ JobInOrder'
    BY <1>3, <2>1, TypeStep, OrderStep
  <2>3. Lone' /\ HandlersFollow' /\ ReadingHolds' /\ RunningIsOwned'
    BY <1>3, <2>1 DEF vars, Lone, OneCall, HandlersFollow, ReadingHolds, RunningIsOwned, Rows
  <2> QED
    BY <2>2, <2>3
<1>5. CASE MCNext
  <2>1. Settle!Next /\ OneCall'
    BY <1>2, <1>5 DEF MCNext, In, Either
  <2>2. SettleNext
    BY <1>3, <2>1, SettleIsQueue DEF Lone
  <2>3. TypeOK' /\ JobInOrder'
    BY <1>3, <2>2, SettleNextIsNext, TypeStep, OrderStep
  <2>4. Lone' /\ HandlersFollow' /\ ReadingHolds' /\ RunningIsOwned'
    BY <1>3, <2>1, <2>2, LoneStep, HandlersFollowStep, ReadingHoldsStep, RunningIsOwnedStep
  <2> QED
    BY <2>3, <2>4
<1> QED
  BY <1>4, <1>5

\* With one call, prompt handlers, no faults and any number of attempts: a job that BullMQ has
\* given up, and whose handlers are through, has its image failed and no row running.
THEOREM GivenUpIsToldAlways == MCSpec => []GivenUpIsTold
<1>1. MCInit => SettleInv
  BY SettleInit
<1>2. SettleInv /\ [MCNext]_all => SettleInv'
  BY SettleStep
<1>3. SettleInv => GivenUpIsTold
  BY DEF SettleInv, GivenUpIsTold, GivenUpIsRecorded, HandlersFollow, RunningIsOwned, JobInOrder
<1> QED
  BY <1>1, <1>2, <1>3, PTL DEF MCSpec
=============================================================================
