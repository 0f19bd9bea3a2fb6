-------------------------- MODULE MCAnalysisWorker --------------------------
(* AnalysisWorker with three settings, each a part of its own: two calls,  *)
(* a crash and late handlers for the budget of attempts, one prompt call   *)
(* without faults for how a job settles, and rows past their lease for the *)
(* watchdog.                                                               *)
EXTENDS AnalysisWorker

CONSTANT First      \* the one call that is made besides the watchdog's, where one is enough

ASSUME SettingsAssumption ==
    /\ First \in Calls \ {WatchdogCall}
    /\ MaxAge < 2

VARIABLE part

all == <<part, vars>>

Budget == INSTANCE AnalysisWorker WITH Attempts <- 2, MaxAge <- 0, MaxDbErrors <- 0
Settle == INSTANCE AnalysisWorker WITH
    PromptHandler <- TRUE, MaxRows <- 0, MaxCrashes <- 0, MaxDbErrors <- 0
Watch == INSTANCE AnalysisWorker WITH
    PromptHandler <- TRUE, Attempts <- 2, MaxAge <- 2, MaxRows <- 0, MaxCrashes <- 1

MCInit == part \in {"budget", "settle", "watch"} /\ Init

In(p, A) == part = p /\ A /\ UNCHANGED part
Either(A, B) == In("settle", A) \/ In("watch", B)

\* Nobody but the first caller and the watchdog has asked for an analysis.
OneCall == \A c \in Calls \ {First, WatchdogCall} : call[c] = "idle"

\* The first caller has confirmed the upload; then the reconciler comes for a reprocess.
InTurn ==
    /\ ~reprocess[First]
    /\ \A c \in Calls \ {First, WatchdogCall} :
          call[c] # "idle" => reprocess[c] /\ call[First] # "idle"

MCNext ==
    \/ In("budget", Budget!Next /\ InTurn')
    \/ Either(Settle!Next, Watch!Next) /\ OneCall'

\* The fairness of AnalysisWorker in the two parts that ask what happens in the end.
MCFairness ==
    /\ WF_all(Either(Settle!Pick, Watch!Pick))
    /\ WF_all(Either(Settle!Stalled, Watch!Stalled))
    /\ WF_all(Either(Settle!runInspectionAnalysis, Watch!runInspectionAnalysis))
    /\ WF_all(\E h \in handlers : Either(Settle!HandlerStep(h), Watch!HandlerStep(h)))
    /\ WF_all(Either(Settle!WatchdogStep, Watch!WatchdogStep))
    /\ WF_all(Either(Settle!Enqueue(WatchdogCall), Watch!Enqueue(WatchdogCall)))
    /\ WF_all(\E r \in Rows : Either(Settle!Age(r), Watch!Age(r)))

MCSpec == MCInit /\ [][MCNext]_all /\ MCFairness

\* A given-up job is recorded as such (AnalysisWorker!GivenUpIsRecorded), where no call,
\* handler or sweep breaks off: the handler of the last attempt alone tells the database.
GivenUpIsTold == part = "settle" => GivenUpIsRecorded

\* An image settles and stays so (enqueueInspectionAnalysis): one call, runs inside
\* the lease and handlers faster than the backoff.
SettlesForGood ==
    part = "settle" /\ bull.state = "waiting" ~> [](media \in {"AI_COMPLETED", "AI_FAILED"})

\* A row whose run died with its process, or hangs, does not stay running: a
\* later attempt, a later call or the watchdog closes it.
NoRowRunsForever ==
    LET Running(r) == part = "watch" /\ r \in Rows /\ jobs[r].status = "running"
    IN  \A r \in 1..2 : Running(r) ~> ~Running(r)
=============================================================================
