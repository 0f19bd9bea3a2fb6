------------------------ MODULE AnalysisInlineProofs ------------------------
(***************************************************************************)
(* Proofs about the in-process fallback queue, for any number of images,   *)
(* calls, slots and places: types, the accounting of the slots, that no    *)
(* task waits for a free slot, that no key is stranded, and that a key has *)
(* one task unless two calls for it raced.                                 *)
(***************************************************************************)
EXTENDS AnalysisInline, FiniteSetTheorems, SequenceTheorems, TLAPS

\* What makes the accounting inductive: a task is in the queue at most once,
\* one that waits holds no slot, and only a call that was handed over does
\* either. So draining starts tasks that held no slot, and a task that is
\* admitted is new.
PoolShape ==
    /\ \A j, k \in DOMAIN inlineQueue : inlineQueue[j] = inlineQueue[k] => j = k
    /\ \A j \in DOMAIN inlineQueue : /\ slot[inlineQueue[j]] = "none"
                                     /\ call[inlineQueue[j]] = "done"
    /\ \A c \in Active : call[c] = "done"

IInv ==
    /\ TypeOK
    /\ PoolShape
    /\ SlotsAccounted
    /\ NoWaitForAFreeSlot
    /\ NoStrandedKey

-----------------------------------------------------------------------------
(* drainInlineQueue starts nothing when the slots are in use or nothing     *)
(* waits, and otherwise, with one slot free, exactly the head.              *)

LEMMA DrainNothing ==
    ASSUME NEW q \in Seq(Calls), NEW n \in Nat,
           n = Concurrency \/ q = <<>>
    PROVE  /\ Taken(q, n) = 0
           /\ StartedBy(q, n) = {}
           /\ SubSeq(q, Taken(q, n) + 1, Len(q)) = q
<1>1. Concurrency \in Nat \ {0}
  BY ConstantsAssumption
<1>2. Len(q) \in Nat /\ (q = <<>> => Len(q) = 0)
  OBVIOUS
<1>3. Taken(q, n) = 0
  BY <1>1, <1>2 DEF Taken
<1>4. StartedBy(q, n) = {}
  BY <1>3 DEF StartedBy
<1>5. SubSeq(q, 1, Len(q)) = q
  OBVIOUS
<1> QED
  BY <1>3, <1>4, <1>5

LEMMA DrainHead ==
    ASSUME NEW q \in Seq(Calls), NEW n \in Nat,
           q # <<>>, Len(q) = 1 \/ n + 1 = Concurrency, n < Concurrency
    PROVE  /\ Taken(q, n) = 1
           /\ StartedBy(q, n) = {q[1]}
           /\ SubSeq(q, Taken(q, n) + 1, Len(q)) = Tail(q)
<1>1. Concurrency \in Nat \ {0}
  BY ConstantsAssumption
<1>2. Len(q) \in Nat /\ Len(q) >= 1
  OBVIOUS
<1>3. Taken(q, n) = 1
  BY <1>1, <1>2 DEF Taken
<1>4. StartedBy(q, n) = {q[1]}
  BY <1>3 DEF StartedBy
<1>5. SubSeq(q, 2, Len(q)) = Tail(q)
  BY <1>2
<1> QED
  BY <1>3, <1>4, <1>5

-----------------------------------------------------------------------------
(* Most steps leave the pool alone.                                        *)

\* The pool does not move, no slot is taken or given back, and what is
\* pending keeps its target.
PoolStill ==
    /\ UNCHANGED poolVars
    /\ \A c \in Calls : slot'[c] = "none" <=> slot[c] = "none"
    /\ \A c \in Calls : call[c] = "done" => call'[c] = "done" /\ target'[c] = target[c]

LEMMA PoolStillKeepsInvariant ==
    ASSUME IInv, TypeOK', PoolStill
    PROVE  IInv' /\ Pending' = Pending
<1> USE DEF IInv
<1>1. Active' = Active /\ Waiting' = Waiting /\ Pending' = Pending
  BY DEF PoolStill, poolVars, Active, Waiting, Pending
<1>2. PoolShape'
  BY <1>1 DEF PoolStill, poolVars, PoolShape, Active, TypeOK
<1>3. SlotsAccounted' /\ NoWaitForAFreeSlot'
  BY <1>1 DEF PoolStill, poolVars, SlotsAccounted, NoWaitForAFreeSlot
<1>4. NoStrandedKey'
  <2>1. \A c \in Pending : c \in Calls /\ target'[c] = target[c]
    BY DEF PoolStill, PoolShape, Pending, Active, Waiting, TypeOK
  <2> QED
    BY <1>1, <2>1 DEF PoolStill, poolVars, NoStrandedKey
<1> QED
  BY <1>1, <1>2, <1>3, <1>4

LEMMA EnqueueKeepsPool ==
    ASSUME IInv, NEW c \in Calls,
           \/ \E t \in Asked : Trigger(c, t)
           \/ findRecentProcessingJob(c) \/ FindStale(c) \/ CloseStale(c) \/ MarkStaleMedia(c)
           \/ CheckKey(c) \/ createProcessingJobRecord(c) \/ Rejected(c) \/ CallThrows(c)
    PROVE  TypeOK' /\ PoolStill
<1> USE DEF IInv, TypeOK, PoolStill, poolVars
<1>1. ASSUME NEW t \in Asked, Trigger(c, t) PROVE TypeOK' /\ PoolStill
  <2>1. t \in Targets
    BY ConstantsAssumption DEF Targets
  <2> QED
    BY <1>1, <2>1 DEF Trigger, AiStatuses, CallStates
<1>2. CASE findRecentProcessingJob(c)
  BY <1>2 DEF findRecentProcessingJob, CallStates
<1>8. CASE FindStale(c)
  <2>1. staleRow' \in [Calls -> SUBSET Calls]
    <3>1. CASE UNCHANGED staleRow
      BY <3>1
    <3>2. ASSUME NEW d \in StaleRunning(target[c]), staleRow' = [staleRow EXCEPT ![c] = {d}]
          PROVE  staleRow' \in [Calls -> SUBSET Calls]
      BY <3>2 DEF StaleRunning
    <3> QED
      BY <1>8, <3>1, <3>2 DEF FindStale
  <2>2. call' \in [Calls -> CallStates] /\ call'[c] # "done"
    BY <1>8 DEF FindStale, CallStates
  <2> QED
    BY <1>8, <2>1, <2>2 DEF FindStale
<1>9. CASE CloseStale(c)
  <2>1. JobRow("dead_letter") \in [status : JobStatuses, age : 0..2]
    BY DEF JobRow, JobStatuses
  <2>2. job' \in [Calls -> [status : JobStatuses, age : 0..2]]
    BY <1>9, <2>1 DEF CloseStale
  <2> QED
    BY <1>9, <2>2 DEF CloseStale, CallStates
<1>3. CASE MarkStaleMedia(c)
  BY <1>3 DEF MarkStaleMedia, AiStatuses, CallStates
<1>4. CASE CheckKey(c)
  BY <1>4 DEF CheckKey, CallStates
<1>5. CASE createProcessingJobRecord(c)
  BY <1>5 DEF createProcessingJobRecord, JobRow, JobStatuses, CallStates
<1>6. CASE Rejected(c)
  BY <1>6 DEF Rejected, CallStates
<1>7. CASE CallThrows(c)
  BY <1>7 DEF CallThrows, CallStates
<1> QED
  BY <1>1, <1>2, <1>3, <1>4, <1>5, <1>6, <1>7, <1>8, <1>9

LEMMA RunKeepsPool ==
    ASSUME IInv, NEW c \in Calls, runInspectionAnalysis(c)
    PROVE  TypeOK' /\ PoolStill
<1> USE DEF IInv, TypeOK, PoolStill, poolVars
<1>1. CASE RunBegin(c)
  BY <1>1 DEF RunBegin, JobRow, JobStatuses, RunStates
<1>2. CASE RunRead(c)
  BY <1>2 DEF RunRead, RunStates, ImagesOf
<1>3. ASSUME NEW i \in Images, RunProcess(c, i) PROVE TypeOK' /\ PoolStill
  BY <1>3 DEF RunProcess, RunStates, AiStatuses, Targets
<1>4. CASE RunScore(c)
  BY <1>4 DEF RunScore, RunStates, AiStatuses, Targets
<1>5. CASE RunFinish(c)
  BY <1>5 DEF RunFinish, JobRow, JobStatuses, RunStates
<1>6. CASE RunEnd(c)
  BY <1>6 DEF RunEnd, RunStates
<1>7. CASE RunThrows(c)
  BY <1>7 DEF RunThrows, RunStates, Targets
<1> QED
  BY <1>1, <1>2, <1>3, <1>4, <1>5, <1>6, <1>7 DEF runInspectionAnalysis

LEMMA FailureKeepsPool ==
    ASSUME IInv, NEW c \in Calls,
           \/ Timeout(c) \/ CatchThrown(c) \/ FailJob(c) \/ FailMedia(c)
           \/ FailThrows(c) \/ Age(c)
    PROVE  TypeOK' /\ PoolStill
<1> USE DEF IInv, TypeOK, PoolStill, poolVars
<1>1. CASE Timeout(c)
  BY <1>1 DEF Timeout, SlotStates, FailureStates
<1>2. CASE CatchThrown(c)
  BY <1>2 DEF CatchThrown, SlotStates, FailureStates
<1>3. CASE FailJob(c)
  BY <1>3 DEF FailJob, JobRow, JobStatuses, FailureStates
<1>4. CASE FailMedia(c)
  BY <1>4 DEF FailMedia, AiStatuses, FailureStates
<1>5. CASE FailThrows(c)
  BY <1>5 DEF FailThrows, FailureStates
<1>6. CASE Age(c)
  <2>1. job[c].age + 1 \in 0..2
    BY <1>6, ConstantsAssumption DEF Age
  <2>2. job' = [job EXCEPT ![c] = [job[c] EXCEPT !.age = job[c].age + 1]]
    BY <1>6 DEF Age
  <2>3. job' \in [Calls -> [status : JobStatuses, age : 0..2]]
    BY <2>1, <2>2
  <2> QED
    BY <1>6, <2>3 DEF Age
<1> QED
  BY <1>1, <1>2, <1>3, <1>4, <1>5, <1>6

LEMMA WatchdogKeepsPool ==
    ASSUME IInv, Watchdog
    PROVE  TypeOK' /\ PoolStill
<1> USE DEF IInv, TypeOK, PoolStill, poolVars
<1>1. CASE WatchdogScan
  BY <1>1 DEF WatchdogScan
<1>2. ASSUME NEW c \in Calls, WatchdogDeadLetter(c) PROVE TypeOK' /\ PoolStill
  BY <1>2 DEF WatchdogDeadLetter, JobRow, JobStatuses
<1>3. ASSUME NEW c \in Calls, WatchdogMarkImage(c) PROVE TypeOK' /\ PoolStill
  BY <1>3 DEF WatchdogMarkImage, AiStatuses
<1> QED
  BY <1>1, <1>2, <1>3 DEF Watchdog

-----------------------------------------------------------------------------
(* The four steps that move the pool.                                      *)

LEMMA AdmitKeepsInvariant ==
    ASSUME IInv, NEW c \in Calls, Admit(c)
    PROVE  IInv' /\ Pending' = Pending \cup {c}
<1> USE DEF IInv
<1> DEFINE q == Append(inlineQueue, c)
           n == inlineActiveCount
<1>1. /\ q \in Seq(Calls)
      /\ Len(q) = Len(inlineQueue) + 1
      /\ q[Len(q)] = c
      /\ \A j \in 1..Len(inlineQueue) : q[j] = inlineQueue[j]
      /\ DOMAIN q = 1..Len(q)
      /\ DOMAIN inlineQueue = 1..Len(inlineQueue)
      /\ Len(inlineQueue) \in Nat
  BY DEF TypeOK
<1>2. c \notin Pending
  BY DEF Admit, PoolShape, Pending, Active, Waiting
<1>3. n \in Nat /\ n <= Concurrency /\ Concurrency \in Nat
  BY ConstantsAssumption DEF SlotsAccounted, TypeOK
<1>4. IsFiniteSet(Active)
  BY ConstantsAssumption, FS_Subset DEF Active
<1>5. call' = [call EXCEPT ![c] = "done"] /\ UNCHANGED <<target, staleRow, todo, current, failure, job,
                                                        media, watchdog, raced, restarts>>
  BY DEF Admit
<1>6. inlineQueuedKeys' = inlineQueuedKeys \cup {target[c]}
  BY DEF Admit
<1>7. CASE n = Concurrency
  <2>1. /\ inlineQueue' = q
        /\ inlineActiveCount' = n
        /\ slot' = slot
        /\ run' = run
    <3>1. /\ Taken(q, n) = 0
          /\ StartedBy(q, n) = {}
          /\ SubSeq(q, Taken(q, n) + 1, Len(q)) = q
      BY <1>1, <1>3, <1>7, DrainNothing
    <3>2. drainInlineQueue(q, n, {})
      BY DEF Admit
    <3> HIDE DEF q, n
    <3> QED
      BY <3>1, <3>2, <1>3 DEF drainInlineQueue, TypeOK
  <2>2. Active' = Active /\ Waiting' = Waiting \cup {c}
    BY <2>1, <1>1 DEF Active, Waiting
  <2>3. TypeOK'
    BY <2>1, <1>1, <1>3, <1>5, <1>6 DEF TypeOK, CallStates, Targets
  <2>4. PoolShape'
    BY <2>1, <2>2, <1>1, <1>2, <1>5 DEF PoolShape, Pending, Waiting, Active, TypeOK
  <2>5. SlotsAccounted' /\ NoWaitForAFreeSlot'
    BY <2>1, <2>2, <1>1, <1>7, ConstantsAssumption DEF SlotsAccounted, NoWaitForAFreeSlot, Admit
  <2>6. NoStrandedKey'
    BY <2>2, <1>5, <1>6 DEF NoStrandedKey, Pending
  <2>7. Pending' = Pending \cup {c}
    BY <2>2 DEF Pending
  <2> QED
    BY <2>3, <2>4, <2>5, <2>6, <2>7
<1>8. CASE n # Concurrency
  <2>1. inlineQueue = <<>>
    BY <1>8 DEF NoWaitForAFreeSlot
  <2>2. q = <<c>> /\ Len(q) = 1 /\ q[1] = c /\ Tail(q) = <<>>
    BY <2>1
  <2>3. /\ inlineQueue' = <<>>
        /\ inlineActiveCount' = n + 1
        /\ slot' = [slot EXCEPT ![c] = "racing"]
        /\ run' = [run EXCEPT ![c] = "begin"]
    <3>1. /\ Taken(q, n) = 1
          /\ StartedBy(q, n) = {c}
          /\ SubSeq(q, Taken(q, n) + 1, Len(q)) = <<>>
      <4>1. q # <<>> /\ n < Concurrency
        BY <2>2, <1>3, <1>8
      <4> HIDE DEF q, n
      <4> QED
        BY <1>1, <1>3, <2>2, <4>1, DrainHead
    <3>2. drainInlineQueue(q, n, {})
      BY DEF Admit
    <3> HIDE DEF q, n
    <3> QED
      BY <3>1, <3>2, <1>3 DEF drainInlineQueue, TypeOK
  <2>4. Active' = Active \cup {c} /\ Waiting' = {} /\ Waiting = {}
    BY <2>1, <2>3 DEF Active, Waiting, TypeOK
  <2>5. Cardinality(Active') = Cardinality(Active) + 1
    BY <2>4, <1>2, <1>4, FS_AddElement DEF Pending
  <2>6. TypeOK'
    BY <2>3, <1>3, <1>5, <1>6 DEF TypeOK, CallStates, SlotStates, RunStates, Targets
  <2>7. PoolShape'
    BY <2>3, <2>4, <1>5 DEF PoolShape, TypeOK
  <2>8. SlotsAccounted' /\ NoWaitForAFreeSlot'
    BY <2>3, <2>5, <1>3, <1>8, ConstantsAssumption DEF SlotsAccounted, NoWaitForAFreeSlot
  <2>9. NoStrandedKey'
    BY <2>4, <1>5, <1>6 DEF NoStrandedKey, Pending
  <2>10. Pending' = Pending \cup {c}
    BY <2>4 DEF Pending
  <2> QED
    BY <2>6, <2>7, <2>8, <2>9, <2>10
<1> QED
  BY <1>7, <1>8

\* A rejected task is not pending, so no task that has the key loses its own
\* witness: at most a key with tasks is dropped.
LEMMA RejectKeepsInvariant ==
    ASSUME IInv, NEW c \in Calls, Reject(c)
    PROVE  IInv' /\ Pending' = Pending
<1> USE DEF IInv
<1>1. TypeOK'
  BY DEF Reject, TypeOK, CallStates, FailureStates
<1>2. c \notin Pending
  BY DEF Reject, PoolShape, Pending, Active, Waiting
<1>3. Active' = Active /\ Waiting' = Waiting /\ Pending' = Pending
  BY DEF Reject, Active, Waiting, Pending
<1>4. PoolShape'
  BY <1>2, <1>3 DEF Reject, PoolShape, Pending, Waiting, Active, TypeOK
<1>5. SlotsAccounted' /\ NoWaitForAFreeSlot'
  BY <1>3 DEF Reject, SlotsAccounted, NoWaitForAFreeSlot
<1>6. NoStrandedKey'
  BY <1>3 DEF Reject, NoStrandedKey
<1> QED
  BY <1>1, <1>3, <1>4, <1>5, <1>6

LEMMA ReleaseKeepsInvariant ==
    ASSUME IInv, NEW c \in Calls, Release(c)
    PROVE  IInv' /\ Pending' = Pending \ {c}
<1> USE DEF IInv
<1> DEFINE n == IF inlineActiveCount > 0 THEN inlineActiveCount - 1 ELSE 0
<1>1. c \in Active
  BY DEF Release, Active
<1>2. IsFiniteSet(Active)
  BY ConstantsAssumption, FS_Subset DEF Active
<1>3. /\ IsFiniteSet(Active \ {c})
      /\ Cardinality(Active \ {c}) = Cardinality(Active) - 1
      /\ Cardinality(Active \ {c}) \in Nat
  BY <1>1, <1>2, FS_RemoveElement, FS_CardinalityType
<1>4. n \in Nat /\ n + 1 = inlineActiveCount /\ n < Concurrency /\ Concurrency \in Nat
  BY <1>3, ConstantsAssumption DEF SlotsAccounted, TypeOK
<1>5. /\ inlineQueue \in Seq(Calls)
      /\ DOMAIN inlineQueue = 1..Len(inlineQueue)
      /\ Len(inlineQueue) \in Nat
  BY DEF TypeOK
<1>6. /\ inlineQueuedKeys' = inlineQueuedKeys \ {target[c]}
      /\ UNCHANGED <<call, target, staleRow, todo, current, failure, job, media, watchdog,
                     raced, restarts>>
  BY DEF Release
<1>7. call[c] = "done"
  BY <1>1 DEF PoolShape
<1>8. CASE inlineQueue = <<>>
  <2>1. /\ inlineQueue' = <<>>
        /\ inlineActiveCount' = n
        /\ slot' = [slot EXCEPT ![c] = "none"]
        /\ run' = run
    <3>1. /\ Taken(inlineQueue, n) = 0
          /\ StartedBy(inlineQueue, n) = {}
          /\ SubSeq(inlineQueue, Taken(inlineQueue, n) + 1, Len(inlineQueue)) = <<>>
      BY <1>4, <1>5, <1>8, DrainNothing
    <3>2. drainInlineQueue(inlineQueue, n, {c})
      BY DEF Release
    <3>3. n \in Nat
      BY <1>4
    <3> HIDE DEF n
    <3>4. inlineQueue' = <<>> /\ inlineActiveCount' = n
      BY <3>1, <3>2, <3>3 DEF drainInlineQueue
    <3>5. /\ slot' = [slot EXCEPT ![c] = "none"]
          /\ run' = run
      BY <3>1, <3>2 DEF drainInlineQueue, TypeOK
    <3> QED
      BY <3>4, <3>5
  <2>2. Active' = Active \ {c} /\ Waiting' = {} /\ Waiting = {}
    BY <2>1, <1>8 DEF Active, Waiting, TypeOK
  <2>3. TypeOK'
    BY <2>1, <1>4, <1>6 DEF TypeOK, SlotStates
  <2>4. PoolShape'
    BY <2>1, <2>2, <1>6 DEF PoolShape
  <2>5. SlotsAccounted' /\ NoWaitForAFreeSlot'
    BY <2>1, <2>2, <1>3, <1>4, <1>8 DEF SlotsAccounted, NoWaitForAFreeSlot
  <2>6. NoStrandedKey'
    BY <2>2, <1>6 DEF NoStrandedKey, Pending
  <2>7. Pending' = Pending \ {c}
    BY <2>2 DEF Pending
  <2> QED
    BY <2>3, <2>4, <2>5, <2>6, <2>7
<1>9. CASE inlineQueue # <<>>
  <2> DEFINE h == inlineQueue[1]
  <2>1. /\ h \in Calls
        /\ 1 \in DOMAIN inlineQueue
        /\ slot[h] = "none"
        /\ call[h] = "done"
        /\ h # c
    BY <1>1, <1>5, <1>9 DEF PoolShape, Active
  <2>2. n + 1 = Concurrency
    BY <1>4, <1>9 DEF NoWaitForAFreeSlot
  <2>3. /\ inlineQueue' = Tail(inlineQueue)
        /\ inlineActiveCount' = n + 1
        /\ slot' = [slot EXCEPT ![c] = "none", ![h] = "racing"]
        /\ run' = [run EXCEPT ![h] = "begin"]
    <3>1. /\ Taken(inlineQueue, n) = 1
          /\ StartedBy(inlineQueue, n) = {h}
          /\ SubSeq(inlineQueue, Taken(inlineQueue, n) + 1, Len(inlineQueue)) = Tail(inlineQueue)
      BY <1>4, <1>5, <1>9, <2>2, DrainHead
    <3>2. drainInlineQueue(inlineQueue, n, {c})
      BY DEF Release
    <3> HIDE DEF n
    <3> QED
      BY <3>1, <3>2, <2>1 DEF drainInlineQueue, TypeOK
  <2>4. /\ Tail(inlineQueue) \in Seq(Calls)
        /\ Len(Tail(inlineQueue)) = Len(inlineQueue) - 1
        /\ DOMAIN Tail(inlineQueue) = 1..(Len(inlineQueue) - 1)
        /\ \A j \in 1..(Len(inlineQueue) - 1) : Tail(inlineQueue)[j] = inlineQueue[j + 1]
    BY <1>5, <1>9
  <2>5. \A j \in 1..(Len(inlineQueue) - 1) :
            /\ inlineQueue'[j] = inlineQueue[j + 1]
            /\ j + 1 \in DOMAIN inlineQueue
            /\ inlineQueue'[j] # h
    BY <2>1, <2>3, <2>4, <1>5 DEF PoolShape
  <2>6. Active' = (Active \ {c}) \cup {h}
    BY <2>1, <2>3 DEF Active, TypeOK
  <2>7. Cardinality(Active') = Cardinality(Active)
    <3>1. h \notin Active \ {c}
      BY <2>1 DEF Active
    <3>2. Cardinality((Active \ {c}) \cup {h}) = Cardinality(Active \ {c}) + 1
      BY <3>1, <1>3, FS_AddElement
    <3>3. Cardinality(Active) \in Nat
      BY <1>2, FS_CardinalityType
    <3> QED
      BY <3>2, <3>3, <2>6, <1>3
  <2>8. Waiting' = Waiting \ {h}
    <3>1. Waiting' = {inlineQueue[j + 1] : j \in 1..(Len(inlineQueue) - 1)}
      BY <2>3, <2>4 DEF Waiting
    <3>2. \A k \in DOMAIN inlineQueue : k = 1 \/ (k - 1 \in 1..(Len(inlineQueue) - 1) /\ k = (k - 1) + 1)
      BY <1>5
    <3>3. Waiting' \subseteq Waiting \ {h}
      BY <3>1, <2>1, <2>5 DEF Waiting, PoolShape
    <3>4. ASSUME NEW k \in DOMAIN inlineQueue, inlineQueue[k] # h
          PROVE  inlineQueue[k] \in Waiting'
      <4>1. k - 1 \in 1..(Len(inlineQueue) - 1) /\ k = (k - 1) + 1
        BY <3>2, <3>4
      <4> QED
        BY <4>1, <3>1
    <3> QED
      BY <3>3, <3>4 DEF Waiting
  <2>9. Pending' = Pending \ {c}
    <3>1. c \notin Waiting
      BY <1>1 DEF PoolShape, Waiting, Active
    <3>2. h \in Waiting
      BY <2>1 DEF Waiting
    <3> QED
      BY <3>1, <3>2, <2>1, <2>6, <2>8 DEF Pending
  <2>10. TypeOK'
    BY <2>1, <2>3, <2>4, <1>4, <1>6 DEF TypeOK, SlotStates, RunStates
  <2>11. PoolShape'
    <3>1. \A j, k \in DOMAIN inlineQueue' : inlineQueue'[j] = inlineQueue'[k] => j = k
      BY <2>3, <2>4, <2>5, <1>5 DEF PoolShape
    <3>2. \A j \in DOMAIN inlineQueue' : /\ slot'[inlineQueue'[j]] = "none"
                                          /\ call'[inlineQueue'[j]] = "done"
      BY <2>3, <2>4, <2>5, <1>6 DEF PoolShape, TypeOK
    <3>3. \A d \in Active' : call'[d] = "done"
      BY <2>1, <2>6, <1>6 DEF PoolShape
    <3> QED
      BY <3>1, <3>2, <3>3 DEF PoolShape
  <2>12. SlotsAccounted' /\ NoWaitForAFreeSlot'
    BY <2>2, <2>3, <2>4, <2>7, <1>4, <1>5, ConstantsAssumption
       DEF SlotsAccounted, NoWaitForAFreeSlot
  <2>13. NoStrandedKey'
    BY <2>9, <1>6 DEF NoStrandedKey
  <2> QED
    BY <2>9, <2>10, <2>11, <2>12, <2>13
<1> QED
  BY <1>8, <1>9

\* A pool without tasks satisfies the invariant.
LEMMA EmptyPool ==
    ASSUME inlineQueue = <<>>, inlineQueuedKeys = {}, inlineActiveCount = 0,
           \A c \in Calls : slot[c] = "none"
    PROVE  PoolShape /\ SlotsAccounted /\ NoWaitForAFreeSlot /\ NoStrandedKey
<1>1. Active = {} /\ Cardinality({}) = 0
  BY FS_EmptySet DEF Active
<1> QED
  BY <1>1, ConstantsAssumption DEF PoolShape, SlotsAccounted, NoWaitForAFreeSlot, NoStrandedKey

LEMMA RestartKeepsInvariant ==
    ASSUME IInv, Restart
    PROVE  IInv'
<1>1. TypeOK'
  BY ConstantsAssumption DEF IInv, Restart, TypeOK, CallStates, SlotStates, RunStates, FailureStates, Targets
<1>2. /\ inlineQueue' = <<>> /\ inlineQueuedKeys' = {} /\ inlineActiveCount' = 0
      /\ \A c \in Calls : slot'[c] = "none"
  BY DEF Restart
<1>3. Active' = {} /\ Cardinality({}) = 0
  BY <1>2, FS_EmptySet DEF Active
<1>4. PoolShape' /\ SlotsAccounted' /\ NoWaitForAFreeSlot' /\ NoStrandedKey'
  BY <1>2, <1>3, ConstantsAssumption DEF PoolShape, SlotsAccounted, NoWaitForAFreeSlot, NoStrandedKey
<1> QED
  BY <1>1, <1>4 DEF IInv

-----------------------------------------------------------------------------
LEMMA InitEstablishesInvariant == Init => IInv
<1> SUFFICES ASSUME Init PROVE IInv
  OBVIOUS
<1>1. TypeOK
  BY ConstantsAssumption
     DEF Init, TypeOK, JobRow, JobStatuses, CallStates, SlotStates, RunStates, FailureStates,
         AiStatuses, Targets
<1> QED
  BY <1>1, EmptyPool DEF Init, IInv

LEMMA NextKeepsInvariant == IInv /\ [Next]_vars => IInv'
<1> SUFFICES ASSUME IInv, [Next]_vars PROVE IInv'
  OBVIOUS
<1>1. ASSUME NEW c \in Calls, Enqueue(c) PROVE IInv'
  BY <1>1, EnqueueKeepsPool, AdmitKeepsInvariant, RejectKeepsInvariant, PoolStillKeepsInvariant
     DEF Enqueue
<1>2. ASSUME NEW c \in Calls, runInspectionAnalysis(c) PROVE IInv'
  BY <1>2, RunKeepsPool, PoolStillKeepsInvariant
<1>3. ASSUME NEW c \in Calls, runInlineTask(c) PROVE IInv'
  BY <1>3, FailureKeepsPool, ReleaseKeepsInvariant, PoolStillKeepsInvariant DEF runInlineTask
<1>4. ASSUME NEW c \in Calls, Age(c) PROVE IInv'
  BY <1>4, FailureKeepsPool, PoolStillKeepsInvariant
<1>5. CASE Watchdog
  BY <1>5, WatchdogKeepsPool, PoolStillKeepsInvariant
<1>6. CASE Restart
  BY <1>6, RestartKeepsInvariant
<1>7. CASE UNCHANGED vars
  BY <1>7 DEF vars, IInv, TypeOK, PoolShape, SlotsAccounted, NoWaitForAFreeSlot, NoStrandedKey,
              Active, Waiting, Pending
<1> QED
  BY <1>1, <1>2, <1>3, <1>4, <1>5, <1>6, <1>7 DEF Next

\* Every state of the fallback queue satisfies the inductive invariant.
THEOREM InvariantHolds == Spec => []IInv
BY InitEstablishesInvariant, NextKeepsInvariant, PTL DEF Spec

\* The variables keep their types.
THEOREM TypeCorrect == Spec => []TypeOK
BY InvariantHolds, PTL DEF IInv

\* inlineActiveCount is the number of tasks that hold a slot, and neither it nor
\* the queue exceeds its limit, however tasks time out, fail or restart.
THEOREM SlotsAreAccounted == Spec => []SlotsAccounted
BY InvariantHolds, PTL DEF IInv

\* drainInlineQueue, called only where a task is added or ends, never leaves a
\* task waiting beside a free slot.
THEOREM NoTaskWaitsForAFreeSlot == Spec => []NoWaitForAFreeSlot
BY InvariantHolds, PTL DEF IInv

\* Every key in inlineQueuedKeys is that of a task that is queued or holds a
\* slot, so no image is locked out of the queue for good.
THEOREM NoKeyIsStranded == Spec => []NoStrandedKey
BY InvariantHolds, PTL DEF IInv

-----------------------------------------------------------------------------
(* One task per key.                                                       *)

\* Calls that have found no task with their key and have not handed theirs over.
Passing == {c \in Calls : call[c] \in {"insert", "admit"}}

\* Of a target that is not raced, one call at most is between the check of the key and its
\* insertion, then the key is not held; and a task that is pending holds it, alone.
Alone ==
    /\ \A c \in Pending \cup Passing, d \in Pending \cup Passing :
          target[c] = target[d] /\ target[c] \notin raced => c = d
    /\ \A c \in Pending : target[c] \in inlineQueuedKeys \cup raced
    /\ \A c \in Passing : target[c] \in inlineQueuedKeys => target[c] \in raced

\* Steps that touch neither the pool nor what calls have passed the check.
LEMMA StillAlone ==
    ASSUME IInv, Alone, Pending' = Pending, UNCHANGED <<inlineQueuedKeys, raced>>,
           Passing' \subseteq Passing,
           \A c \in Pending \cup Passing : target'[c] = target[c]
    PROVE  Alone'
BY DEF Alone

LEMMA PendingDone ==
    ASSUME IInv
    PROVE  \A c \in Pending : c \in Calls /\ call[c] = "done"
BY DEF IInv, PoolShape, Pending, Active, Waiting, TypeOK

LEMMA EnqueueKeepsAlone ==
    ASSUME IInv, Alone, NEW c \in Calls, Enqueue(c)
    PROVE  Alone'
<1>1. /\ \A d \in Pending : d \in Calls /\ call[d] = "done"
      /\ call \in [Calls -> CallStates] /\ target \in [Calls -> Targets]
  BY PendingDone DEF IInv, TypeOK
<1>2. ASSUME \/ \E t \in Asked : Trigger(c, t)
             \/ findRecentProcessingJob(c) \/ FindStale(c) \/ CloseStale(c) \/ MarkStaleMedia(c)
             \/ CheckKey(c) \/ createProcessingJobRecord(c) \/ Rejected(c) \/ CallThrows(c)
      PROVE  Pending' = Pending /\ UNCHANGED inlineQueuedKeys
  BY <1>2, EnqueueKeepsPool, PoolStillKeepsInvariant DEF PoolStill, poolVars
<1>3. ASSUME NEW t \in Asked, Trigger(c, t) PROVE Alone'
  <2>1. Passing' \subseteq Passing /\ UNCHANGED raced
    BY <1>1, <1>3 DEF Trigger, Passing
  <2>2. \A d \in Pending \cup Passing : target'[d] = target[d]
    BY <1>1, <1>3 DEF Trigger, Passing
  <2> QED
    BY <1>2, <1>3, <2>1, <2>2, StillAlone
<1>4. CASE findRecentProcessingJob(c) \/ FindStale(c) \/ CloseStale(c) \/ MarkStaleMedia(c)
           \/ createProcessingJobRecord(c) \/ Rejected(c) \/ CallThrows(c)
  <2>1. Passing' \subseteq Passing /\ UNCHANGED <<raced, target>>
    BY <1>1, <1>4 DEF findRecentProcessingJob, FindStale, CloseStale, MarkStaleMedia,
                      createProcessingJobRecord, Rejected, CallThrows, Passing
  <2> QED
    BY <1>2, <1>4, <2>1, StillAlone
<1>5. CASE CheckKey(c)
  <2>1. target' = target /\ raced \subseteq raced' /\ inlineQueuedKeys' = inlineQueuedKeys
    BY <1>5 DEF CheckKey, poolVars
  <2>2. Passing' \subseteq Passing \cup {c} /\ c \notin Passing
    BY <1>1, <1>5 DEF CheckKey, Passing
  <2>3. c \in Passing' => target[c] \notin inlineQueuedKeys
    BY <1>1, <1>5 DEF CheckKey, Passing
  <2>4. c \in Passing' /\ (\E d \in Passing : target[d] = target[c]) => target[c] \in raced'
    BY <1>1, <1>5, <2>3 DEF CheckKey, Passing
  <2>5. c \in Passing' => \A d \in Pending : target[d] = target[c] => target[c] \in raced
    BY <2>3 DEF Alone
  <2> QED
    BY <1>2, <1>5, <2>1, <2>2, <2>3, <2>4, <2>5 DEF Alone
<1>6. CASE Admit(c)
  <2>1. /\ Pending' = Pending \cup {c} /\ c \in Passing /\ c \notin Pending
        /\ Passing' = Passing \ {c} /\ UNCHANGED <<target, raced>>
        /\ inlineQueuedKeys' = inlineQueuedKeys \cup {target[c]}
    BY <1>1, <1>6, AdmitKeepsInvariant DEF Admit, Passing
  <2> QED
    BY <2>1 DEF Alone
<1>7. CASE Reject(c)
  <2>1. /\ Pending' = Pending /\ c \in Passing /\ c \notin Pending
        /\ Passing' = Passing \ {c} /\ UNCHANGED <<target, raced>>
        /\ inlineQueuedKeys' = inlineQueuedKeys \ {target[c]}
    BY <1>1, <1>7, RejectKeepsInvariant DEF Reject, Passing
  <2> QED
    BY <2>1 DEF Alone
<1> QED
  BY <1>3, <1>4, <1>5, <1>6, <1>7 DEF Enqueue

LEMMA OthersKeepAlone ==
    ASSUME IInv, Alone, PoolStill, TypeOK', UNCHANGED <<call, target, raced>>
    PROVE  Alone'
<1>1. Pending' = Pending /\ UNCHANGED inlineQueuedKeys
  BY PoolStillKeepsInvariant DEF PoolStill, poolVars
<1>2. Passing' = Passing
  BY DEF Passing
<1> QED
  BY <1>1, <1>2, StillAlone

LEMMA ReleaseKeepsAlone ==
    ASSUME IInv, Alone, NEW c \in Calls, Release(c)
    PROVE  Alone'
<1>1. /\ Pending' = Pending \ {c} /\ c \in Pending /\ Passing' = Passing
      /\ UNCHANGED <<target, raced>>
      /\ inlineQueuedKeys' = inlineQueuedKeys \ {target[c]}
  BY ReleaseKeepsInvariant DEF Release, Passing, Pending, Active
<1> QED
  BY <1>1 DEF Alone

LEMMA RestartKeepsAlone ==
    ASSUME IInv, Restart
    PROVE  Alone'
<1>1. Active' = {} /\ Waiting' = {} /\ Passing' = {}
  BY DEF Restart, Active, Waiting, Passing
<1> QED
  BY <1>1 DEF Alone, Pending

LEMMA NextKeepsAlone == IInv /\ Alone /\ [Next]_vars => Alone'
<1> SUFFICES ASSUME IInv, Alone, [Next]_vars PROVE Alone'
  OBVIOUS
<1>1. ASSUME NEW c \in Calls, Enqueue(c) PROVE Alone'
  BY <1>1, EnqueueKeepsAlone
<1>2. ASSUME NEW c \in Calls, runInspectionAnalysis(c) PROVE Alone'
  <2>1. UNCHANGED <<call, target, raced>>
    BY <1>2 DEF runInspectionAnalysis, RunBegin, RunRead, RunProcess, RunScore, RunFinish, RunEnd, RunThrows
  <2> QED
    BY <1>2, <2>1, RunKeepsPool, OthersKeepAlone
<1>3. ASSUME NEW c \in Calls,
             (Timeout(c) \/ CatchThrown(c) \/ FailJob(c) \/ FailMedia(c) \/ FailThrows(c) \/ Age(c))
      PROVE  Alone'
  <2>1. UNCHANGED <<call, target, raced>>
    BY <1>3 DEF Timeout, CatchThrown, FailJob, FailMedia, FailThrows, Age
  <2> QED
    BY <1>3, <2>1, FailureKeepsPool, OthersKeepAlone
<1>4. ASSUME NEW c \in Calls, Release(c) PROVE Alone'
  BY <1>4, ReleaseKeepsAlone
<1>5. CASE Watchdog
  <2>1. UNCHANGED <<call, target, raced>>
    BY <1>5 DEF Watchdog, WatchdogScan, WatchdogDeadLetter, WatchdogMarkImage
  <2> QED
    BY <1>5, <2>1, WatchdogKeepsPool, OthersKeepAlone
<1>6. CASE Restart
  BY <1>6, RestartKeepsAlone
<1>7. CASE UNCHANGED vars
  BY <1>7 DEF vars, Alone, Pending, Active, Waiting, Passing
<1> QED
  BY <1>1, <1>2, <1>3, <1>4, <1>5, <1>6, <1>7 DEF Next, runInlineTask

\* enqueueInspectionAnalysis: the key set keeps a target at one task, which holds its key, as
\* long as no two calls for it are at once between the check of the key and its insertion.
THEOREM OneTaskPerKey == Spec => []OneTaskPerKeyUnlessRaced
<1>1. Init => Alone
  BY DEF Init, Alone, Pending, Active, Waiting, Passing
<1>2. Alone => OneTaskPerKeyUnlessRaced
  BY DEF Alone, OneTaskPerKeyUnlessRaced
<1> QED
  BY <1>1, <1>2, InvariantHolds, NextKeepsAlone, PTL DEF Spec

-----------------------------------------------------------------------------
(* The failure handler's guard: what takes a score away.                   *)

\* What ScoreOutlivesTimeout says of one step.
ScoreKept ==
    \A i \in Images : media[i] = "AI_COMPLETED" /\ media'[i] = "AI_FAILED"
                        => \E c \in watchdog.marking : target[c] = i

LEMMA StepKeepsScore == TypeOK /\ [Next]_vars => ScoreKept
<1> SUFFICES ASSUME TypeOK, [Next]_vars PROVE ScoreKept
  OBVIOUS
<1> USE DEF TypeOK, ScoreKept
<1>1. ASSUME NEW c \in Calls, Enqueue(c) PROVE ScoreKept
  <2>1. ASSUME NEW t \in Asked, Trigger(c, t) PROVE ScoreKept
    BY <2>1 DEF Trigger
  <2>2. CASE MarkStaleMedia(c)
    BY <2>2 DEF MarkStaleMedia
  <2>3. CASE ~MarkStaleMedia(c) /\ ~(\E t \in Asked : Trigger(c, t))
    <3>1. media' = media
      BY <1>1, <2>3 DEF Enqueue, findRecentProcessingJob, FindStale, CloseStale, CheckKey,
                        createProcessingJobRecord, Admit, Reject, Rejected, CallThrows
    <3> QED
      BY <3>1
  <2> QED
    BY <2>1, <2>2, <2>3
<1>2. ASSUME NEW c \in Calls, runInspectionAnalysis(c) PROVE ScoreKept
  <2>1. ASSUME NEW i \in Images, RunProcess(c, i) PROVE ScoreKept
    BY <2>1 DEF RunProcess
  <2>2. CASE RunScore(c)
    BY <2>2 DEF RunScore
  <2>3. CASE RunBegin(c) \/ RunRead(c) \/ RunFinish(c) \/ RunEnd(c) \/ RunThrows(c)
    BY <2>3 DEF RunBegin, RunRead, RunFinish, RunEnd, RunThrows
  <2> QED
    BY <1>2, <2>1, <2>2, <2>3 DEF runInspectionAnalysis
<1>3. ASSUME NEW c \in Calls, runInlineTask(c) PROVE ScoreKept
  <2>1. CASE FailMedia(c)
    BY <2>1 DEF FailMedia
  <2>2. CASE Timeout(c) \/ CatchThrown(c) \/ FailJob(c) \/ FailThrows(c) \/ Release(c)
    BY <2>2 DEF Timeout, CatchThrown, FailJob, FailThrows, Release
  <2> QED
    BY <1>3, <2>1, <2>2 DEF runInlineTask
<1>4. ASSUME NEW c \in Calls, Age(c) PROVE ScoreKept
  BY <1>4 DEF Age
<1>5. CASE Watchdog
  <2>1. ASSUME NEW c \in Calls, WatchdogMarkImage(c) PROVE ScoreKept
    BY <2>1 DEF WatchdogMarkImage, ImagesOf
  <2>2. CASE WatchdogScan \/ \E c \in Calls : WatchdogDeadLetter(c)
    BY <2>2 DEF WatchdogScan, WatchdogDeadLetter
  <2> QED
    BY <1>5, <2>1, <2>2 DEF Watchdog
<1>6. CASE Restart \/ UNCHANGED vars
  BY <1>6 DEF Restart, vars
<1> QED
  BY <1>1, <1>2, <1>3, <1>4, <1>5, <1>6 DEF Next

\* markInlineJobFailure, which runs beside the analysis it gave up on, never
\* turns a scored image into a failed one: only the watchdog does.
THEOREM ScoreOutlivesItsTimeout == Spec => ScoreOutlivesTimeout
<1>1. TypeOK /\ [Next]_vars => [ScoreKept]_vars
  BY StepKeepsScore
<1> QED
  BY <1>1, TypeCorrect, PTL DEF Spec, ScoreOutlivesTimeout, ScoreKept
=============================================================================
