-------------------------- MODULE JobQueue_proofs --------------------------
(***************************************************************************)
(* What the queue promises for any number of jobs, workers, outages and    *)
(* requests: rows stay well typed, a job has one runner, and what has      *)
(* ended stays as it ended, as long as handlers keep within their leases;  *)
(* that the scheduled link checks above it are uses of this queue; and     *)
(* what these owe: an occurrence has one job, an answer is for the URL it  *)
(* was asked for, and a run that reports success has checked every item.   *)
(***************************************************************************)
EXTENDS Schedules, TLAPS

\* A new row is a row.
LEMMA NewJobIsRow ==
  ASSUME NEW slot \in Slots \cup {None}
  PROVE  NewJob(slot) \in Row /\ NewJob(slot).status = "queued"
  BY AttemptsPositive DEF NewJob, Row, Statuses, Waiting

\* The rows and the runs keep their types.
LEMMA TypePreserved ==
  ASSUME QueueTypeOK, [QueueNext]_queueVars
  PROVE  QueueTypeOK'
<1> USE DEF QueueTypeOK
<1>1. CASE UNCHANGED queueVars
  BY <1>1 DEF queueVars
<1>2. ASSUME NEW j \in JobIds, NEW slot \in Slots \cup {None}, Enqueue(j, slot),
             Asked \/ UNCHANGED requests
      PROVE  QueueTypeOK'
  BY <1>2, NewJobIsRow, BoundsNat DEF Enqueue, Asked
<1>3. ASSUME NEW old \in JobIds, NEW j \in JobIds, Retry(old, j)
      PROVE  QueueTypeOK'
  BY <1>3, <1>2 DEF Retry
<1>4. ASSUME NEW j \in JobIds, RequestCancel(j) \/ Purge(j)
      PROVE  QueueTypeOK'
  <2>1. jobs[j] \in Row
    OBVIOUS
  <2>2. /\ [jobs[j] EXCEPT !.cancel = TRUE] \in Row
        /\ [jobs[j] EXCEPT !.status = "purged"] \in Row
    BY <2>1 DEF Row, Statuses
  <2>3. jobs' \in [JobIds -> Row]
    BY <1>4, <2>2 DEF RequestCancel, Purge
  <2> QED
    BY <1>4, <2>3, BoundsNat DEF RequestCancel, Purge, Asked
<1>5. ASSUME NEW j \in JobIds, LeaseRunsOut(j) \/ BackoffEnds(j)
      PROVE  QueueTypeOK'
  <2>1. jobs[j] \in Row
    OBVIOUS
  <2>2. /\ [jobs[j] EXCEPT !.expired = TRUE] \in Row
        /\ [jobs[j] EXCEPT !.backoff = FALSE] \in Row
    BY <2>1 DEF Row
  <2>3. jobs' \in [JobIds -> Row]
    BY <1>5, <2>2 DEF LeaseRunsOut, BackoffEnds
  <2>4. outages' \in 0 .. MaxOutages
    BY <1>5, BoundsNat DEF LeaseRunsOut, BackoffEnds, Outage
  <2>5. overran' \in BOOLEAN
    BY <1>5, Zenon DEF LeaseRunsOut, BackoffEnds
  <2>6. UNCHANGED <<runner, up, requests>>
    BY <1>5 DEF LeaseRunsOut, BackoffEnds
  <2> QED
    BY <2>3, <2>4, <2>5, <2>6
<1>6. ASSUME NEW w \in Workers, WatchCancel(w) \/ ReadFlag(w)
      PROVE  QueueTypeOK'
  <2>1. runner[w] \in Run
    BY <1>6 DEF WatchCancel, ReadFlag, Idle
  <2>2. jobs[runner[w].job] \in Row
    BY <2>1 DEF Run
  <2>3. /\ [runner[w] EXCEPT !.stop = TRUE] \in Run
        /\ [runner[w] EXCEPT !.phase = "settling", !.flag = jobs[runner[w].job].cancel] \in Run
    BY <2>1, <2>2 DEF Run, Row
  <2>4. runner' \in [Workers -> Run \cup {None}]
    BY <1>6, <2>3 DEF WatchCancel, ReadFlag
  <2> QED
    BY <1>6, <2>4 DEF WatchCancel, ReadFlag
<1>7. ASSUME NEW w \in Workers, Settle(w)
      PROVE  QueueTypeOK'
  <2>1. runner[w] \in Run
    BY <1>7 DEF Settle, Idle
  <2>2. jobs[runner[w].job] \in Row
    BY <2>1 DEF Run
  <2>3. Settled(jobs[runner[w].job], runner[w]) \in Row
    <3> DEFINE job == jobs[runner[w].job]
               r == runner[w]
    <3>1. \A status \in Statuses : [job EXCEPT !.status = status] \in Row
      BY <2>2 DEF Row
    <3>2. r.attempt + 1 < MaxAttempts =>
            [job EXCEPT !.status = "retry_wait", !.attempt = r.attempt + 1, !.backoff = TRUE] \in Row
      <4>1. r.attempt \in 0 .. MaxAttempts - 1
        BY <2>1 DEF Run
      <4>2. r.attempt + 1 < MaxAttempts => r.attempt + 1 \in 0 .. MaxAttempts - 1
        BY <4>1, AttemptsPositive
      <4> QED
        BY <2>2, <4>2 DEF Row, Statuses, Waiting
    <3>3. {"cancelled", "succeeded", "failed"} \subseteq Statuses
      BY DEF Statuses, Terminal
    <3> QED
      BY <2>2, <3>1, <3>2, <3>3 DEF Settled
  <2> QED
    BY <1>7, <2>1, <2>3 DEF Settle, Run
<1>8. CASE RecoverExpiredLeases
  <2>1. \A j \in JobIds : Requeued(jobs[j]) \in Row
    BY DEF Requeued, Row, Statuses, Waiting
  <2> QED
    BY <1>8, <2>1 DEF RecoverExpiredLeases
<1>9. ASSUME NEW w \in Workers, NEW j \in JobIds, Claim(w, j)
      PROVE  QueueTypeOK'
  <2>1. jobs[j] \in Row
    OBVIOUS
  <2>2. [jobs[j] EXCEPT !.status = "running", !.expired = FALSE] \in Row
    BY <2>1 DEF Row, Statuses
  <2>3. [job |-> j, attempt |-> jobs[j].attempt, phase |-> "handler",
         stop |-> FALSE, outcome |-> None, flag |-> FALSE] \in Run
    BY <2>1 DEF Row, Run
  <2>4. jobs' \in [JobIds -> Row]
    BY <1>9, <2>1, <2>2 DEF Claim
  <2>5. runner' \in [Workers -> Run \cup {None}]
    BY <1>9, <2>3 DEF Claim
  <2> QED
    BY <1>9, <2>4, <2>5 DEF Claim
<1>10. ASSUME NEW w \in Workers, NEW outcome \in Outcomes, HandlerEnds(w, outcome)
       PROVE  QueueTypeOK'
  BY <1>10 DEF HandlerEnds, Idle, Run
<1>11. CASE Stop
  <2>1. \A w \in Workers : ~Idle(w) => [runner[w] EXCEPT !.stop = TRUE] \in Run
    BY DEF Idle, Run
  <2>2. runner' \in [Workers -> Run \cup {None}]
    BY <1>11, <2>1 DEF Stop
  <2>3. outages' \in 0 .. MaxOutages
    BY <1>11, BoundsNat DEF Stop, Outage
  <2>4. up' \in BOOLEAN
    BY <1>11 DEF Stop
  <2> QED
    BY <1>11, <2>2, <2>3, <2>4 DEF Stop
<1>12. CASE Start \/ Crash \/ AskElsewhere
  <2>1. outages' \in 0 .. MaxOutages /\ requests' \in 0 .. MaxRequests
    BY <1>12, BoundsNat DEF Start, Crash, AskElsewhere, Outage, Asked
  <2>2. up' \in BOOLEAN /\ UNCHANGED <<jobs, overran>>
    BY <1>12, Zenon DEF Start, Crash, AskElsewhere
  <2>3. runner' \in [Workers -> Run \cup {None}]
    BY <1>12 DEF Start, Crash, AskElsewhere
  <2> QED
    BY <2>1, <2>2, <2>3
<1> QED
  BY <1>1, <1>2, <1>3, <1>4, <1>5, <1>6, <1>7, <1>8, <1>9, <1>10, <1>11, <1>12
  DEF QueueNext, QueueStep

\* Whoever holds a job, its row says so.
LEMMA OneRunnerPreserved ==
  ASSUME QueueTypeOK, OneRunner, [QueueNext]_queueVars
  PROVE  OneRunner'
<1> SUFFICES ASSUME ~overran'
             PROVE  \A w \in Workers : ~Idle(w)' =>
                       /\ jobs'[runner'[w].job].status = "running"
                       /\ ~jobs'[runner'[w].job].expired
                       /\ \A v \in Workers : Running(v, runner[w].job)' => v = w
  BY DEF OneRunner
<1> DEFINE Holds(w, j) == runner[w] # None /\ runner[w].job = j
<1> USE DEF QueueTypeOK
<1>a. ~overran
  BY Zenon DEF QueueNext, QueueStep, queueVars, Retry, RequestCancel, Purge, LeaseRunsOut, BackoffEnds,
     WatchCancel, ReadFlag, Settle, RecoverExpiredLeases, AskElsewhere, Enqueue, Claim, HandlerEnds,
     Stop, Start, Crash
<1>b. \A w \in Workers, j \in JobIds : Holds(w, j) =>
         /\ jobs[j].status = "running" /\ ~jobs[j].expired
         /\ \A v \in Workers : Holds(v, j) => v = w
  BY <1>a DEF OneRunner, Idle, Running
<1>c. \A w \in Workers : runner[w] # None => runner[w].job \in JobIds
  BY DEF Run
<1>1. CASE UNCHANGED queueVars
  BY <1>1, <1>b, <1>c DEF queueVars, Idle, Running
<1>2. ASSUME NEW j \in JobIds, NEW slot \in Slots \cup {None}, Enqueue(j, slot)
      PROVE  OneRunner'
  BY <1>2, <1>b, <1>c DEF Enqueue, OneRunner, Idle, Running
<1>3. ASSUME NEW old \in JobIds, NEW j \in JobIds, Retry(old, j)
      PROVE  OneRunner'
  BY <1>3, <1>2 DEF Retry
<1>4. ASSUME NEW j \in JobIds, RequestCancel(j) \/ Purge(j) \/ BackoffEnds(j)
      PROVE  OneRunner'
  BY <1>4, <1>b, <1>c DEF RequestCancel, Purge, BackoffEnds, Terminal, OneRunner, Idle, Running, Row
<1>5. ASSUME NEW j \in JobIds, LeaseRunsOut(j)
      PROVE  OneRunner'
  BY <1>5, <1>b, <1>c DEF LeaseRunsOut, OneRunner, Idle, Running, Row
<1>6. ASSUME NEW w \in Workers, WatchCancel(w) \/ ReadFlag(w)
      PROVE  OneRunner'
  BY <1>6, <1>b, <1>c DEF WatchCancel, ReadFlag, OneRunner, Idle, Running, Run
<1>7. ASSUME NEW w \in Workers, Settle(w)
      PROVE  OneRunner'
  BY <1>7, <1>b, <1>c DEF Settle, OneRunner, Idle, Running
<1>8. CASE RecoverExpiredLeases
  BY <1>8, <1>b, <1>c DEF RecoverExpiredLeases, Requeued, Recoverable, OneRunner, Idle, Running
<1>9. ASSUME NEW w \in Workers, NEW j \in JobIds, Claim(w, j)
      PROVE  OneRunner'
  BY <1>9, <1>b, <1>c DEF Claim, Waiting, OneRunner, Idle, Running, Row
<1>10. ASSUME NEW w \in Workers, NEW outcome \in Outcomes, HandlerEnds(w, outcome)
       PROVE  OneRunner'
  BY <1>10, <1>b, <1>c DEF HandlerEnds, OneRunner, Idle, Running, Run
<1>11. CASE Stop
  BY <1>11, <1>b, <1>c DEF Stop, OneRunner, Idle, Running, Run
<1>12. CASE Start \/ Crash \/ AskElsewhere
  BY <1>12, <1>b, <1>c DEF Start, Crash, AskElsewhere, OneRunner, Idle, Running
<1> QED
  BY <1>1, <1>2, <1>3, <1>4, <1>5, <1>6, <1>7, <1>8, <1>9, <1>10, <1>11, <1>12
  DEF QueueNext, QueueStep, OneRunner

LEMMA InitOK ==
  ASSUME QueueInit
  PROVE  QueueTypeOK /\ OneRunner
<1>0. NewJob(None) \in Row
  BY NewJobIsRow
<1>1. NoJob \in Row
  BY <1>0 DEF NoJob, Row, Statuses
<1>2. QueueTypeOK
  <2>1. jobs \in [JobIds -> Row] /\ runner \in [Workers -> Run \cup {None}]
    BY <1>1 DEF QueueInit
  <2>2. outages \in 0 .. MaxOutages /\ requests \in 0 .. MaxRequests
    BY BoundsNat DEF QueueInit
  <2>3. up \in BOOLEAN /\ overran \in BOOLEAN
    BY Zenon DEF QueueInit
  <2> QED
    BY <2>1, <2>2, <2>3 DEF QueueTypeOK
<1>3. OneRunner
  BY DEF QueueInit, OneRunner, Idle
<1> QED
  BY <1>2, <1>3

\* A job has one runner at a time, and its row says so, for any number of jobs and workers.
THEOREM JobHasOneRunner == QueueSpec => [](QueueTypeOK /\ OneRunner)
<1>1. QueueInit => QueueTypeOK /\ OneRunner
  BY InitOK
<1>2. QueueTypeOK /\ OneRunner /\ [QueueNext]_queueVars => (QueueTypeOK /\ OneRunner)'
  BY TypePreserved, OneRunnerPreserved
<1> QED
  BY <1>1, <1>2, PTL DEF QueueSpec

\* What has ended stays as it ended: only the settling of the one runner writes a status,
\* and its job has not ended.
THEOREM EndedStaysEnded == QueueSpec => EndedIsEnded
<1>1. ASSUME QueueTypeOK, OneRunner, [QueueNext]_queueVars, ~overran,
             NEW j \in JobIds, jobs[j].status \in Terminal
      PROVE  jobs'[j].status \in {jobs[j].status, "purged"}
  <2> USE <1>1 DEF QueueTypeOK, Terminal
  <2>1. CASE UNCHANGED jobs
    BY <2>1
  <2>2. ASSUME NEW i \in JobIds, NEW slot \in Slots \cup {None}, Enqueue(i, slot)
        PROVE  jobs'[j].status = jobs[j].status
    BY <2>2 DEF Enqueue
  <2>3. ASSUME NEW i \in JobIds, RequestCancel(i) \/ Purge(i) \/ LeaseRunsOut(i) \/ BackoffEnds(i)
        PROVE  jobs'[j].status \in {jobs[j].status, "purged"}
    BY <2>3 DEF RequestCancel, Purge, LeaseRunsOut, BackoffEnds, Row
  <2>4. ASSUME NEW w \in Workers, Settle(w)
        PROVE  jobs'[j].status = jobs[j].status
    <3>1. runner[w].job # j
      BY <2>4 DEF Settle, OneRunner, Idle
    <3> QED
      BY <2>4, <3>1 DEF Settle
  <2>5. CASE RecoverExpiredLeases
    BY <2>5 DEF RecoverExpiredLeases, Requeued, Recoverable
  <2>6. ASSUME NEW w \in Workers, NEW i \in JobIds, Claim(w, i)
        PROVE  jobs'[j].status = jobs[j].status
    BY <2>6 DEF Claim, Waiting
  <2>7. ASSUME NEW w \in Workers,
               WatchCancel(w) \/ ReadFlag(w) \/ \E outcome \in Outcomes : HandlerEnds(w, outcome)
        PROVE  UNCHANGED jobs
    BY <2>7 DEF WatchCancel, ReadFlag, HandlerEnds
  <2>8. CASE Stop \/ Start \/ Crash \/ AskElsewhere
    BY <2>8 DEF Stop, Start, Crash, AskElsewhere
  <2>9. ASSUME NEW old \in JobIds, NEW i \in JobIds, Retry(old, i)
        PROVE  jobs'[j].status = jobs[j].status
    BY <2>9, <2>2 DEF Retry
  <2> QED
    BY <2>1, <2>2, <2>3, <2>4, <2>5, <2>6, <2>7, <2>8, <2>9 DEF QueueNext, QueueStep, queueVars
<1>2. QueueTypeOK /\ OneRunner /\ [QueueNext]_queueVars =>
        [~overran => \A j \in JobIds : jobs[j].status \in Terminal =>
                        jobs'[j].status \in {jobs[j].status, "purged"}]_queueVars
  BY <1>1
<1> QED
  BY <1>2, JobHasOneRunner, PTL DEF EndedIsEnded, QueueSpec

---------------------------------------------------------------------------
(* The scheduled link checks *)

LEMMA StepsOfTheQueue ==
  ASSUME [Next]_allVars
  PROVE  [QueueNext]_queueVars
<1>1. CASE UNCHANGED allVars
  BY <1>1 DEF allVars, queueVars
<1>2. CASE Owner
  <2>1. ASSUME NEW s \in ScheduleIds, NEW j \in JobIds, RunNow(s, j)
        PROVE  QueueNext
    BY <2>1 DEF RunNow, QueueNext
  <2>2. ASSUME NEW s \in ScheduleIds, NEW plan, NEW enabled,
               CreateSchedule(s, plan) \/ UpdateSchedule(s, plan, enabled) \/ DeleteSchedule(s)
        PROVE  QueueNext
    BY <2>2 DEF CreateSchedule, UpdateSchedule, DeleteSchedule, QueueNext, AskElsewhere
  <2> QED
    BY <1>2, <2>1, <2>2 DEF Owner
<1>3. CASE Tick
  <2>1. ASSUME NEW e \in ticking, EnqueueOccurrence(e)
        PROVE  [QueueNext]_queueVars
    BY <2>1 DEF EnqueueOccurrence, QueueNext
  <2> QED
    BY <1>3, <2>1 DEF Tick, ListDue, AdvanceNextRun, SkipOccurrence, queueVars
<1>4. CASE DayPasses
  BY <1>4 DEF DayPasses
<1>5. CASE CheckStep
  <2>1. ASSUME NEW w \in Workers, HandlerStep(w) \/ StoreFails(w)
        PROVE  [QueueNext]_queueVars
    BY <2>1 DEF HandlerStep, StoreFails, ReadBookmarks, SeedRun, PendingItems, RecordResult,
       Interrupted, FinishRun, QueueNext, Outcomes
  <2>2. ASSUME NEW w \in Workers, NEW j \in JobIds, ClaimCheck(w, j)
        PROVE  QueueNext
    BY <2>2 DEF ClaimCheck, QueueNext
  <2>3. ASSUME NEW n \in Nodes, NEW url, EditTree(n, url)
        PROVE  QueueNext
    BY <2>3 DEF EditTree, QueueNext, AskElsewhere
  <2>4. CASE ReadForStart \/ SeedForStart
    BY <2>4 DEF ReadForStart, SeedForStart
  <2>5. CASE QueueStep \/ Stop
    BY <2>5 DEF QueueNext
  <2> QED
    BY <1>5, <2>1, <2>2, <2>3, <2>4, <2>5 DEF CheckStep
<1>6. ASSUME NEW j \in JobIds, StartLinkCheck(j)
      PROVE  QueueNext
  BY <1>6 DEF StartLinkCheck, QueueNext
<1>7. CASE NewProcess
  BY <1>7 DEF NewProcess, QueueNext
<1> QED
  BY <1>1, <1>2, <1>3, <1>4, <1>5, <1>6, <1>7 DEF Next

\* Schedules, ticks and link checks use the queue as it is meant to be used: every step of
\* theirs is a step of the queue or none, so that what the queue promises holds for them.
THEOREM ScheduledChecksUseTheQueue == Spec => QueueSpec
<1>1. Init => QueueInit
  BY DEF Init, CheckInit
<1>2. [Next]_allVars => [QueueNext]_queueVars
  BY StepsOfTheQueue
<1> QED
  BY <1>1, <1>2, PTL DEF Spec, QueueSpec

\* Of the composed system: a job has one runner at a time.
THEOREM CheckHasOneRunner == Spec => []OneRunner
  BY ScheduledChecksUseTheQueue, JobHasOneRunner, PTL

---------------------------------------------------------------------------
(* What the queue does beside the handlers of link checks *)

\* Steps of the queue that neither claim a job nor complete one.
QueueBeside ==
    \/ UNCHANGED queueVars \/ QueueStep \/ AskElsewhere
    \/ \E j \in JobIds, slot \in Slots \cup {None} : Enqueue(j, slot) /\ (Asked \/ UNCHANGED requests)
    \/ \E w \in Workers, outcome \in {"retry", "error"} : HandlerEnds(w, outcome)
    \/ Stop \/ Start \/ Crash

\* A handler step, with a claim and without the request that began the run.
HandlerMoves(w) ==
    \/ ReadBookmarks(w) \/ SeedRun(w) \/ PendingItems(w)
    \/ \E n \in Nodes : RecordResult(w, n)
    \/ FinishRun(w)
    \/ \E j \in JobIds : ClaimCheck(w, j)

\* A step of the system is a step of one handler, the seeding by a request, or leaves runs
\* and handlers alone.
LEMMA ChecksStep ==
  ASSUME [Next]_allVars
  PROVE  \/ UNCHANGED <<items, finished, check>> /\ QueueBeside
         \/ \E w \in Workers : HandlerMoves(w)
         \/ SeedForStart
<1> USE DEF QueueBeside
<1>1. CASE UNCHANGED allVars
  BY <1>1 DEF allVars, queueVars, checkVars
<1>2. CASE Owner
  <2>1. ASSUME NEW s \in ScheduleIds, NEW j \in JobIds, RunNow(s, j)
        PROVE  UNCHANGED <<items, finished, check>> /\ QueueBeside
    BY <2>1 DEF RunNow, checkVars
  <2>2. ASSUME NEW s \in ScheduleIds, NEW plan, NEW enabled,
               CreateSchedule(s, plan) \/ UpdateSchedule(s, plan, enabled) \/ DeleteSchedule(s)
        PROVE  UNCHANGED <<items, finished, check>> /\ AskElsewhere
    BY <2>2 DEF CreateSchedule, UpdateSchedule, DeleteSchedule, AskElsewhere, checkVars
  <2> QED
    BY <1>2, <2>1, <2>2 DEF Owner
<1>3. CASE Tick
  <2>1. ASSUME NEW e \in ticking, EnqueueOccurrence(e)
        PROVE  UNCHANGED <<items, finished, check>> /\ QueueBeside
    BY <2>1 DEF EnqueueOccurrence, checkVars
  <2> QED
    BY <1>3, <2>1 DEF Tick, ListDue, AdvanceNextRun, SkipOccurrence, checkVars
<1>4. CASE DayPasses
  BY <1>4 DEF DayPasses, checkVars
<1>5. CASE CheckStep
  <2>1. ASSUME NEW w \in Workers, HandlerStep(w)
        PROVE  HandlerMoves(w) \/ (UNCHANGED <<items, finished, check>> /\ QueueBeside)
    BY <2>1 DEF HandlerStep, HandlerMoves, Interrupted, checkVars
  <2>2. ASSUME NEW w \in Workers, StoreFails(w)
        PROVE  UNCHANGED <<items, finished, check>> /\ QueueBeside
    BY <2>2 DEF StoreFails, checkVars
  <2>3. ASSUME NEW w \in Workers, NEW j \in JobIds, ClaimCheck(w, j)
        PROVE  HandlerMoves(w)
    BY <2>3 DEF HandlerMoves
  <2>4. ASSUME NEW n \in Nodes, NEW url, EditTree(n, url)
        PROVE  UNCHANGED <<items, finished, check>> /\ AskElsewhere
    BY <2>4 DEF EditTree, AskElsewhere
  <2>5. CASE ReadForStart
    BY <2>5 DEF ReadForStart
  <2>6. CASE (QueueStep \/ Stop) /\ UNCHANGED checkVars
    BY <2>6 DEF checkVars
  <2> QED
    BY <1>5, <2>1, <2>2, <2>3, <2>4, <2>5, <2>6 DEF CheckStep
<1>6. ASSUME NEW j \in JobIds, StartLinkCheck(j)
      PROVE  UNCHANGED <<items, finished, check>> /\ QueueBeside
  BY <1>6 DEF StartLinkCheck
<1>7. CASE NewProcess
  BY <1>7 DEF NewProcess
<1> QED
  BY <1>1, <1>2, <1>3, <1>4, <1>5, <1>6, <1>7 DEF Next

\* Then whoever is at work was at work on the same job, and has moved at most from the handler to
\* an end that is not a success.
LEMMA RunnersGoOn ==
  ASSUME QueueTypeOK, QueueBeside, NEW w \in Workers, ~Idle(w)'
  PROVE  /\ ~Idle(w) /\ runner'[w].job = runner[w].job
         /\ runner'[w].phase = "handler" => runner[w].phase = "handler"
         /\ runner'[w].phase # "handler" /\ runner'[w].outcome = "ok" =>
               runner[w].phase # "handler" /\ runner[w].outcome = "ok"
<1> USE DEF QueueTypeOK, Idle
<1>1. CASE runner' = runner
  BY <1>1
<1>2. ASSUME NEW v \in Workers, WatchCancel(v) \/ ReadFlag(v) \/ Settle(v)
      PROVE  /\ ~Idle(w) /\ runner'[w].job = runner[w].job
             /\ runner'[w].phase = "handler" => runner[w].phase = "handler"
             /\ runner'[w].phase # "handler" /\ runner'[w].outcome = "ok" =>
                   runner[w].phase # "handler" /\ runner[w].outcome = "ok"
  BY <1>2 DEF WatchCancel, ReadFlag, Settle, Run
<1>3. ASSUME NEW v \in Workers, NEW outcome \in {"retry", "error"}, HandlerEnds(v, outcome)
      PROVE  /\ ~Idle(w) /\ runner'[w].job = runner[w].job
             /\ runner'[w].phase = "handler" => runner[w].phase = "handler"
             /\ runner'[w].phase # "handler" /\ runner'[w].outcome = "ok" =>
                   runner[w].phase # "handler" /\ runner[w].outcome = "ok"
  BY <1>3 DEF HandlerEnds, Run
<1>4. CASE Stop
  BY <1>4 DEF Stop, Run
<1>5. CASE Crash
  BY <1>5 DEF Crash
<1>6. ASSUME ~(\E v \in Workers : WatchCancel(v) \/ ReadFlag(v) \/ Settle(v)), QueueStep
      PROVE  runner' = runner
  BY <1>6 DEF QueueStep, Retry, RequestCancel, Purge, LeaseRunsOut, BackoffEnds, Enqueue,
     RecoverExpiredLeases
<1>7. CASE UNCHANGED queueVars \/ AskElsewhere \/ Start
           \/ \E j \in JobIds, slot \in Slots \cup {None} : Enqueue(j, slot)
  BY <1>7, <1>1 DEF queueVars, AskElsewhere, Start, Enqueue
<1> QED
  BY <1>1, <1>2, <1>3, <1>4, <1>5, <1>6, <1>7 DEF QueueBeside

\* A job succeeds when its runner settles a success.
LEMMA SucceedsBySettling ==
  ASSUME QueueTypeOK, [QueueNext]_queueVars, NEW j \in JobIds, jobs'[j].status = "succeeded"
  PROVE  \/ jobs[j].status = "succeeded"
         \/ \E w \in Workers : /\ Running(w, j) /\ runner[w].phase = "settling"
                               /\ runner[w].outcome = "ok"
<1> USE DEF QueueTypeOK
<1>1. ASSUME NEW i \in JobIds, RequestCancel(i) \/ Purge(i) \/ LeaseRunsOut(i) \/ BackoffEnds(i)
      PROVE  jobs[j].status = "succeeded"
  BY <1>1 DEF RequestCancel, Purge, LeaseRunsOut, BackoffEnds, Row
<1>2. ASSUME NEW i \in JobIds, NEW slot \in Slots \cup {None}, Enqueue(i, slot)
      PROVE  jobs[j].status = "succeeded"
  BY <1>2, NewJobIsRow DEF Enqueue
<1>3. ASSUME NEW w \in Workers, Settle(w), jobs[j].status # "succeeded"
      PROVE  Running(w, j) /\ runner[w].phase = "settling" /\ runner[w].outcome = "ok"
  <2>1. runner[w] \in Run /\ runner[w].job \in JobIds
    BY <1>3 DEF Settle, Idle, Run
  <2>2. runner[w].job = j
    BY <1>3, <2>1 DEF Settle
  <2>3. Settled(jobs[j], runner[w]).status = "succeeded" /\ jobs[j] \in Row
    BY <1>3, <2>2 DEF Settle
  <2>4. runner[w].outcome = "ok"
    BY <1>3, <2>3 DEF Settled, Row
  <2> QED
    BY <1>3, <2>2, <2>4 DEF Settle, Running
<1>4. CASE RecoverExpiredLeases
  BY <1>4 DEF RecoverExpiredLeases, Requeued, Row
<1>5. ASSUME NEW w \in Workers, NEW i \in JobIds, Claim(w, i)
      PROVE  jobs[j].status = "succeeded"
  BY <1>5 DEF Claim, Row
<1>6. ASSUME NEW old \in JobIds, NEW i \in JobIds, Retry(old, i)
      PROVE  jobs[j].status = "succeeded"
  BY <1>6, <1>2 DEF Retry
<1>7. ASSUME \/ UNCHANGED queueVars \/ AskElsewhere \/ Stop \/ Start \/ Crash
             \/ \E w \in Workers : WatchCancel(w) \/ ReadFlag(w) \/ \E o \in Outcomes : HandlerEnds(w, o)
      PROVE  jobs[j].status = "succeeded"
  BY <1>7 DEF queueVars, AskElsewhere, Stop, Start, Crash, WatchCancel, ReadFlag, HandlerEnds
<1> QED
  BY <1>1, <1>2, <1>3, <1>4, <1>5, <1>6, <1>7 DEF QueueNext, QueueStep

\* A row that was written keeps its occurrence, and purged rows stay purged.
LEMMA SlotStays ==
  ASSUME QueueTypeOK, [QueueNext]_queueVars, NEW j \in JobIds, jobs[j].status # "none"
  PROVE  /\ jobs'[j].status # "none" /\ jobs'[j].slot = jobs[j].slot
         /\ jobs[j].status = "purged" => jobs'[j].status = "purged"
<1> USE DEF QueueTypeOK
<1> DEFINE Stays == /\ jobs'[j].status # "none" /\ jobs'[j].slot = jobs[j].slot
                    /\ jobs[j].status = "purged" => jobs'[j].status = "purged"
<1>1. ASSUME NEW i \in JobIds, RequestCancel(i) \/ Purge(i) \/ LeaseRunsOut(i) \/ BackoffEnds(i)
      PROVE  Stays
  BY <1>1 DEF RequestCancel, Purge, LeaseRunsOut, BackoffEnds, Row, Terminal
<1>2. ASSUME NEW i \in JobIds, NEW slot \in Slots \cup {None}, Enqueue(i, slot)
      PROVE  Stays
  BY <1>2 DEF Enqueue
<1>3. ASSUME NEW w \in Workers, Settle(w)
      PROVE  Stays
  <2>1. runner[w] \in Run /\ runner[w].job \in JobIds
    BY <1>3 DEF Settle, Idle, Run
  <2>2. CASE runner[w].job # j
    BY <1>3, <2>1, <2>2 DEF Settle
  <2>3. CASE runner[w].job = j
    <3>1. jobs'[j] = Settled(jobs[j], runner[w]) /\ jobs[j] \in Row
      BY <1>3, <2>3 DEF Settle
    <3>2. Settled(jobs[j], runner[w]).slot = jobs[j].slot
      BY <3>1 DEF Settled, Row
    <3>3. Settled(jobs[j], runner[w]).status # "none"
      BY <3>1 DEF Settled, Row
    <3>4. jobs[j].status = "purged" => Settled(jobs[j], runner[w]).status = "purged"
      BY <3>1 DEF Settled
    <3> QED
      BY <3>1, <3>2, <3>3, <3>4
  <2> QED
    BY <2>2, <2>3
<1>4. CASE RecoverExpiredLeases
  BY <1>4 DEF RecoverExpiredLeases, Requeued, Recoverable, Row
<1>5. ASSUME NEW w \in Workers, NEW i \in JobIds, Claim(w, i)
      PROVE  Stays
  BY <1>5 DEF Claim, Row, Waiting
<1>6. ASSUME NEW old \in JobIds, NEW i \in JobIds, Retry(old, i)
      PROVE  Stays
  BY <1>6, <1>2 DEF Retry
<1>7. ASSUME \/ UNCHANGED queueVars \/ AskElsewhere \/ Stop \/ Start \/ Crash
             \/ \E w \in Workers : WatchCancel(w) \/ ReadFlag(w) \/ \E o \in Outcomes : HandlerEnds(w, o)
      PROVE  Stays
  BY <1>7 DEF queueVars, AskElsewhere, Stop, Start, Crash, WatchCancel, ReadFlag, HandlerEnds
<1> QED
  BY <1>1, <1>2, <1>3, <1>4, <1>5, <1>6, <1>7 DEF QueueNext, QueueStep

---------------------------------------------------------------------------
(* The runs of link checks *)

\* What a request that starts a check holds is a job that was written without an occurrence.
StartsOwnJob ==
    starting # None => jobs[starting.job].status # "none" /\ jobs[starting.job].slot = None

\* What a handler works on are items of its run, under the URLs they show.
HeldItems ==
    \A w \in Workers : At(w, "checking") =>
        \A n \in DOMAIN check[w].urls :
            /\ items[runner[w].job][n] # None
            /\ items[runner[w].job][n].url = check[w].urls[n]

\* A function into the URLs from some of the nodes is a map of URLs.
LEMMA MapsOfUrls ==
  /\ \A D \in SUBSET Nodes : \A f \in [D -> Urls] : f \in UrlMaps
  /\ \A u \in UrlMaps : /\ DOMAIN u \subseteq Nodes
                        /\ \A n \in DOMAIN u : u[n] \in Urls
<1>1. \A D \in SUBSET Nodes : \A f \in [D -> Urls] : f \in UrlMaps
  BY Zenon DEF UrlMaps
<1>2. ASSUME NEW u \in UrlMaps
      PROVE  /\ DOMAIN u \subseteq Nodes
             /\ \A n \in DOMAIN u : u[n] \in Urls
  <2>1. PICK D \in SUBSET Nodes : u \in [D -> Urls]
    BY Zenon DEF UrlMaps
  <2> QED
    BY <2>1
<1> QED
  BY <1>1, <1>2

\* What is read of the tree is such a map; seeding keeps the type of a run and what is there.
LEMMA SnapshotIsMap ==
  ASSUME CheckTypeOK
  PROVE  Snapshot \in UrlMaps
<1>1. Snapshot \in [Bookmarks -> Urls] /\ Bookmarks \in SUBSET Nodes
  BY DEF CheckTypeOK, Snapshot, Bookmarks
<1> QED
  BY <1>1, MapsOfUrls, Zenon

LEMMA SeededKeeps ==
  ASSUME NEW run \in [Nodes -> Item \cup {None}], NEW urls \in UrlMaps
  PROVE  /\ Seeded(run, urls) \in [Nodes -> Item \cup {None}]
         /\ \A n \in Nodes : run[n] # None => Seeded(run, urls)[n] = run[n]
         /\ \A n \in Nodes : run[n] = None => Seeded(run, urls)[n] = None
                                              \/ Seeded(run, urls)[n].answer = None
  BY MapsOfUrls DEF Seeded, Item

\* An answer makes an item of an item.
LEMMA AnsweredIsItem ==
  ASSUME NEW item \in Item, NEW url \in Urls
  PROVE  /\ [item EXCEPT !.answer = url] \in Item
         /\ [item EXCEPT !.answer = url].answer = url
         /\ [item EXCEPT !.answer = url].url = item.url
         /\ [item EXCEPT !.answer = url] # None
  BY NoneIsNoItem DEF Item

\* A record of the result of one item.
LEMMA RecordKeeps ==
  ASSUME QueueTypeOK, CheckTypeOK, NEW w \in Workers, NEW n \in Nodes, RecordResult(w, n)
  PROVE  /\ items' \in [JobIds -> [Nodes -> Item \cup {None}]]
         /\ runner[w].job \in JobIds
         /\ check[w].urls[n] \in Urls
         /\ \A j \in JobIds, m \in Nodes :
               j # runner[w].job \/ m # n => items'[j][m] = items[j][m]
         /\ items'[runner[w].job][n] =
               IF items[runner[w].job][n] = None THEN None
               ELSE [items[runner[w].job][n] EXCEPT !.answer = check[w].urls[n]]
<1> DEFINE j == runner[w].job
           item == items[j][n]
           url == check[w].urls[n]
<1>1. j \in JobIds
  BY DEF RecordResult, At, Idle, QueueTypeOK, Run
<1>2. url \in Urls
  BY MapsOfUrls DEF RecordResult, CheckTypeOK
<1>3. item \in Item \cup {None} /\ items[j] \in [Nodes -> Item \cup {None}]
  BY <1>1 DEF CheckTypeOK
<1>4. item # None => [item EXCEPT !.answer = url] \in Item
  BY <1>2, <1>3, AnsweredIsItem
<1> DEFINE new == IF item = None THEN None ELSE [item EXCEPT !.answer = url]
<1>5. items' = [items EXCEPT ![j] = [items[j] EXCEPT ![n] = new]]
  BY DEF RecordResult
<1>6. new \in Item \cup {None}
  BY <1>4
<1>7. new = IF item = None THEN item ELSE [item EXCEPT !.answer = url]
  OBVIOUS
<1> HIDE DEF new
<1>8. items' \in [JobIds -> [Nodes -> Item \cup {None}]]
  BY <1>1, <1>3, <1>5, <1>6 DEF CheckTypeOK
<1>9. /\ items'[j][n] = new
      /\ \A i \in JobIds, m \in Nodes : i # j \/ m # n => items'[i][m] = items[i][m]
  BY <1>1, <1>3, <1>5 DEF CheckTypeOK
<1> HIDE DEF j, item, url
<1>10. items'[j][n] = IF item = None THEN None ELSE [item EXCEPT !.answer = url]
  BY <1>7, <1>9
<1> QED
  BY <1>1, <1>2, <1>8, <1>9, <1>10 DEF j, item, url

\* Snapshots of the tree and of what is pending, and the place of the handler that took them.
Places == {"start", "read", "seeded", "checking"}

LEMMA HandlerTypes ==
  ASSUME QueueTypeOK, CheckTypeOK, NEW w \in Workers, HandlerMoves(w)
  PROVE  /\ items' \in [JobIds -> [Nodes -> Item \cup {None}]]
         /\ finished' \subseteq JobIds
         /\ check' \in [Workers -> [at : Places, urls : UrlMaps]]
         /\ UNCHANGED <<tree, starting>>
<1> USE DEF CheckTypeOK
<1>j. ~Idle(w) => runner[w].job \in JobIds
  BY DEF QueueTypeOK, Idle, Run
<1>u. check \in [Workers -> [at : Places, urls : UrlMaps]]
  BY DEF Places
<1>1. CASE ReadBookmarks(w)
  BY <1>1, <1>u, SnapshotIsMap DEF ReadBookmarks, Places
<1>2. CASE SeedRun(w)
  <2>1. check' \in [Workers -> [at : Places, urls : UrlMaps]]
    BY <1>2, <1>u DEF SeedRun, Places
  <2>2. items' = [items EXCEPT ![runner[w].job] = Seeded(items[runner[w].job], check[w].urls)]
    BY <1>2 DEF SeedRun
  <2>3. Seeded(items[runner[w].job], check[w].urls) \in [Nodes -> Item \cup {None}]
    BY <1>2, <1>j, SeededKeeps DEF SeedRun, At
  <2> QED
    BY <1>2, <2>1, <2>2, <2>3 DEF SeedRun
<1>3. CASE PendingItems(w)
  <2> DEFINE run == items[runner[w].job]
             held == [n \in Pending(run) |-> run[n].url]
  <2>1. run \in [Nodes -> Item \cup {None}]
    BY <1>3, <1>j DEF PendingItems, At
  <2>2. Pending(run) \in SUBSET Nodes /\ held \in [Pending(run) -> Urls]
    BY <2>1 DEF Pending, Item
  <2>3. held \in UrlMaps
    BY <2>2, MapsOfUrls, Zenon
  <2>4. check' = [check EXCEPT ![w] = [at |-> "checking", urls |-> held]]
    BY <1>3 DEF PendingItems
  <2> HIDE DEF held
  <2>5. check' \in [Workers -> [at : Places, urls : UrlMaps]]
    BY <1>u, <2>3, <2>4 DEF Places
  <2> QED
    BY <1>3, <2>5 DEF PendingItems
<1>4. ASSUME NEW n \in Nodes, RecordResult(w, n)
      PROVE  /\ items' \in [JobIds -> [Nodes -> Item \cup {None}]]
             /\ check' \in [Workers -> [at : Places, urls : UrlMaps]]
             /\ UNCHANGED <<tree, starting, finished>>
  <2> DEFINE rest == [m \in DOMAIN check[w].urls \ {n} |-> check[w].urls[m]]
  <2>1. check[w].urls \in UrlMaps
    OBVIOUS
  <2>2. DOMAIN check[w].urls \ {n} \in SUBSET Nodes /\ rest \in [DOMAIN check[w].urls \ {n} -> Urls]
    BY <2>1, MapsOfUrls
  <2>3. rest \in UrlMaps
    BY <2>2, MapsOfUrls, Zenon
  <2>4. check' = [check EXCEPT ![w].urls = rest]
    BY <1>4 DEF RecordResult
  <2> HIDE DEF rest
  <2>5. check' \in [Workers -> [at : Places, urls : UrlMaps]]
    BY <1>u, <2>3, <2>4
  <2> QED
    BY <1>4, <2>5, RecordKeeps DEF RecordResult
<1>5. CASE FinishRun(w)
  BY <1>5, <1>u, <1>j DEF FinishRun, At
<1>6. ASSUME NEW j \in JobIds, ClaimCheck(w, j)
      PROVE  /\ check' \in [Workers -> [at : Places, urls : UrlMaps]]
             /\ UNCHANGED <<tree, starting, finished, items>>
  <2>1. [n \in {} |-> None] \in [{} -> Urls] /\ {} \in SUBSET Nodes
    OBVIOUS
  <2>2. [n \in {} |-> None] \in UrlMaps
    BY <2>1, MapsOfUrls, Zenon
  <2>3. NotStarted \in [at : Places, urls : UrlMaps]
    BY <2>2 DEF NotStarted, Places
  <2> QED
    BY <1>6, <1>u, <2>3 DEF ClaimCheck
<1> QED
  BY <1>1, <1>2, <1>3, <1>4, <1>5, <1>6 DEF HandlerMoves

LEMMA SeedTypes ==
  ASSUME QueueTypeOK, CheckTypeOK, SeedForStart
  PROVE  /\ items' \in [JobIds -> [Nodes -> Item \cup {None}]]
         /\ starting.job \in JobIds
         /\ \A n \in Nodes : items[starting.job][n] # None =>
               items'[starting.job][n] = items[starting.job][n]
         /\ \A j \in JobIds : j # starting.job => items'[j] = items[j]
<1>1. starting.job \in JobIds /\ starting.urls \in UrlMaps
  BY DEF SeedForStart, CheckTypeOK
<1>2. items' = [items EXCEPT ![starting.job] = Seeded(items[starting.job], starting.urls)]
  BY DEF SeedForStart
<1>3. items[starting.job] \in [Nodes -> Item \cup {None}]
  BY <1>1 DEF CheckTypeOK
<1>4. /\ Seeded(items[starting.job], starting.urls) \in [Nodes -> Item \cup {None}]
      /\ \A n \in Nodes : items[starting.job][n] # None =>
            Seeded(items[starting.job], starting.urls)[n] = items[starting.job][n]
  BY <1>1, <1>3, SeededKeeps
<1> QED
  BY <1>1, <1>2, <1>4 DEF CheckTypeOK

\* What a step does to the tree and to the request in progress.
LEMMA StartTypes ==
  ASSUME QueueTypeOK, CheckTypeOK, StartsOwnJob, [Next]_allVars
  PROVE  /\ tree' \in [Nodes -> Urls \cup {None}]
         /\ starting' # None => starting' \in [job : JobIds, urls : UrlMaps \cup {None}]
         /\ starting' # None =>
               jobs'[starting'.job].status # "none" /\ jobs'[starting'.job].slot = None
<1> DEFINE Kept == /\ tree' \in [Nodes -> Urls \cup {None}]
                   /\ starting' # None => starting' \in [job : JobIds, urls : UrlMaps \cup {None}]
                   /\ starting' # None =>
                         jobs'[starting'.job].status # "none" /\ jobs'[starting'.job].slot = None
<1>q. [QueueNext]_queueVars
  BY StepsOfTheQueue
<1>s. \A j \in JobIds : jobs[j].status # "none" =>
         jobs'[j].status # "none" /\ jobs'[j].slot = jobs[j].slot
  BY <1>q, SlotStays
<1>1. ASSUME UNCHANGED <<tree, starting>>
      PROVE  Kept
  BY <1>1, <1>s DEF CheckTypeOK, StartsOwnJob
<1>2. ASSUME NEW n \in Nodes, NEW url \in Urls \cup {None}, EditTree(n, url)
      PROVE  Kept
  BY <1>2, <1>s DEF EditTree, CheckTypeOK, StartsOwnJob
<1>3. CASE ReadForStart
  <2>1. [starting EXCEPT !.urls = Snapshot].job = starting.job
        /\ [starting EXCEPT !.urls = Snapshot] \in [job : JobIds, urls : UrlMaps \cup {None}]
    BY <1>3, SnapshotIsMap DEF ReadForStart, CheckTypeOK
  <2> QED
    BY <1>3, <1>s, <2>1 DEF ReadForStart, CheckTypeOK, StartsOwnJob
<1>4. CASE SeedForStart
  BY <1>4 DEF SeedForStart, CheckTypeOK
<1>5. ASSUME NEW j \in JobIds, StartLinkCheck(j)
      PROVE  Kept
  <2>1. jobs'[j] = NewJob(None)
    BY <1>5 DEF StartLinkCheck, Enqueue, QueueTypeOK
  <2>2. starting' = [job |-> j, urls |-> None]
    BY <1>5 DEF StartLinkCheck
  <2> QED
    BY <1>5, <2>1, <2>2 DEF StartLinkCheck, CheckTypeOK, NewJob
<1>6. CASE NewProcess
  BY <1>6 DEF NewProcess, CheckTypeOK
<1>7. ASSUME NEW w \in Workers, HandlerStep(w) \/ StoreFails(w) \/ \E j \in JobIds : ClaimCheck(w, j)
      PROVE  UNCHANGED <<tree, starting>>
  BY <1>7 DEF HandlerStep, StoreFails, ClaimCheck, ReadBookmarks, SeedRun, PendingItems,
     RecordResult, Interrupted, FinishRun, checkVars
<1>8. CASE CheckStep
  BY <1>8, <1>1, <1>2, <1>3, <1>4, <1>7 DEF CheckStep, checkVars
<1>9. CASE Owner \/ Tick \/ DayPasses
  BY <1>9, <1>1 DEF Owner, Tick, DayPasses, CreateSchedule, UpdateSchedule, DeleteSchedule, RunNow,
     ListDue, EnqueueOccurrence, AdvanceNextRun, SkipOccurrence, checkVars
<1>10. CASE UNCHANGED allVars
  BY <1>10, <1>1 DEF allVars, checkVars
<1> QED
  BY <1>1, <1>5, <1>6, <1>8, <1>9, <1>10 DEF Next

\* The runs, the handlers and the requests keep their types.
LEMMA CheckTypePreserved ==
  ASSUME QueueTypeOK, CheckTypeOK, StartsOwnJob, [Next]_allVars
  PROVE  CheckTypeOK' /\ StartsOwnJob'
<1>1. /\ tree' \in [Nodes -> Urls \cup {None}]
      /\ starting' # None => starting' \in [job : JobIds, urls : UrlMaps \cup {None}]
      /\ StartsOwnJob'
  BY StartTypes DEF StartsOwnJob
<1>2. /\ items' \in [JobIds -> [Nodes -> Item \cup {None}]]
      /\ finished' \subseteq JobIds
      /\ check' \in [Workers -> [at : Places, urls : UrlMaps]]
  <2>1. CASE UNCHANGED <<items, finished, check>>
    BY <2>1 DEF CheckTypeOK, Places
  <2>2. ASSUME NEW w \in Workers, HandlerMoves(w)
        PROVE  /\ items' \in [JobIds -> [Nodes -> Item \cup {None}]]
               /\ finished' \subseteq JobIds
               /\ check' \in [Workers -> [at : Places, urls : UrlMaps]]
    BY <2>2, HandlerTypes
  <2>3. CASE SeedForStart
    BY <2>3, SeedTypes DEF SeedForStart, CheckTypeOK, Places
  <2> QED
    BY <2>1, <2>2, <2>3, ChecksStep
<1> QED
  BY <1>1, <1>2 DEF CheckTypeOK, Places

\* What another writer does to a run leaves the items a handler works on as they are but for
\* their answer.
LEMMA HeldItemsPreserved ==
  ASSUME QueueTypeOK, CheckTypeOK, StartsOwnJob, HeldItems, AnswersForTheirURL, [Next]_allVars
  PROVE  HeldItems' /\ AnswersForTheirURL'
<1> DEFINE Held(w, j) ==
             \A n \in DOMAIN check[w].urls :
                 items[j][n] # None /\ items[j][n].url = check[w].urls[n]
<1>h. \A w \in Workers : At(w, "checking") => runner[w].job \in JobIds /\ Held(w, runner[w].job)
  BY DEF HeldItems, At, Idle, QueueTypeOK, Run
<1>d. \A w \in Workers : DOMAIN check[w].urls \subseteq Nodes
  BY MapsOfUrls DEF CheckTypeOK
\* Items that are there keep their URL and, if they had one, their answer's agreement.
<1> DEFINE ItemsStay ==
             \A j \in JobIds, n \in Nodes :
                /\ items[j][n] # None => items'[j][n] # None /\ items'[j][n].url = items[j][n].url
                /\ items'[j][n] # None /\ items'[j][n].answer # None =>
                      items'[j][n].answer = items'[j][n].url
<1>a. ItemsStay => AnswersForTheirURL'
  BY DEF AnswersForTheirURL
<1>k. ASSUME ItemsStay, NEW w \in Workers, runner'[w].job = runner[w].job, At(w, "checking"),
             DOMAIN check'[w].urls \subseteq DOMAIN check[w].urls,
             \A n \in DOMAIN check'[w].urls : check'[w].urls[n] = check[w].urls[n],
             NEW n \in DOMAIN check'[w].urls
      PROVE  items'[runner'[w].job][n] # None /\ items'[runner'[w].job][n].url = check'[w].urls[n]
  BY <1>k, <1>h, <1>d
<1>1. CASE UNCHANGED <<items, finished, check>> /\ QueueBeside
  <2>1. ItemsStay
    BY <1>1 DEF AnswersForTheirURL
  <2>2. \A w \in Workers : At(w, "checking")' => At(w, "checking") /\ runner'[w].job = runner[w].job
    BY <1>1, RunnersGoOn DEF At
  <2> QED
    BY <1>1, <1>a, <1>k, <2>1, <2>2 DEF HeldItems
<1>2. CASE SeedForStart
  <2>1. ItemsStay
    <3> SUFFICES ASSUME NEW j \in JobIds, NEW n \in Nodes
                 PROVE  /\ items[j][n] # None =>
                              items'[j][n] # None /\ items'[j][n].url = items[j][n].url
                        /\ items'[j][n] # None /\ items'[j][n].answer # None =>
                              items'[j][n].answer = items'[j][n].url
      OBVIOUS
    <3>1. CASE j # starting.job \/ items[j][n] # None
      BY <1>2, <3>1, SeedTypes DEF AnswersForTheirURL
    <3>2. CASE j = starting.job /\ items[j][n] = None
      <4>1. items[j] \in [Nodes -> Item \cup {None}] /\ starting.urls \in UrlMaps
        BY <1>2 DEF CheckTypeOK, SeedForStart
      <4>2. items'[j] = Seeded(items[j], starting.urls)
        BY <1>2, <3>2 DEF SeedForStart, CheckTypeOK
      <4> QED
        BY <3>2, <4>1, <4>2, SeededKeeps
    <3> QED
      BY <3>1, <3>2
  <2>2. UNCHANGED <<runner, check>>
    BY <1>2 DEF SeedForStart, queueVars
  <2> QED
    BY <1>a, <1>k, <2>1, <2>2 DEF HeldItems, At, Idle
<1>3. ASSUME NEW w \in Workers, ReadBookmarks(w)
      PROVE  HeldItems' /\ AnswersForTheirURL'
  <2>1. ItemsStay /\ UNCHANGED runner
    BY <1>3 DEF ReadBookmarks, queueVars, AnswersForTheirURL
  <2>2. \A v \in Workers : At(v, "checking")' => At(v, "checking") /\ check'[v] = check[v]
    BY <1>3, <2>1 DEF ReadBookmarks, At, Idle, CheckTypeOK
  <2> QED
    BY <1>a, <1>k, <2>1, <2>2 DEF HeldItems
<1>4. ASSUME NEW w \in Workers, SeedRun(w)
      PROVE  HeldItems' /\ AnswersForTheirURL'
  <2>1. runner[w].job \in JobIds /\ check[w].urls \in UrlMaps
    BY <1>4 DEF SeedRun, At, Idle, QueueTypeOK, Run, CheckTypeOK
  <2>2. items' = [items EXCEPT ![runner[w].job] = Seeded(items[runner[w].job], check[w].urls)]
        /\ UNCHANGED runner
    BY <1>4 DEF SeedRun, queueVars
  <2>3. ItemsStay
    <3> SUFFICES ASSUME NEW j \in JobIds, NEW n \in Nodes
                 PROVE  /\ items[j][n] # None =>
                              items'[j][n] # None /\ items'[j][n].url = items[j][n].url
                        /\ items'[j][n] # None /\ items'[j][n].answer # None =>
                              items'[j][n].answer = items'[j][n].url
      OBVIOUS
    <3>1. items[j] \in [Nodes -> Item \cup {None}]
      BY DEF CheckTypeOK
    <3>2. j # runner[w].job => items'[j] = items[j]
      BY <2>2 DEF CheckTypeOK
    <3>3. j = runner[w].job => items'[j] = Seeded(items[j], check[w].urls)
      BY <2>2 DEF CheckTypeOK
    <3> QED
      BY <2>1, <3>1, <3>2, <3>3, SeededKeeps DEF AnswersForTheirURL
  <2>4. \A v \in Workers : At(v, "checking")' => At(v, "checking") /\ check'[v] = check[v]
    BY <1>4, <2>2 DEF SeedRun, At, Idle, CheckTypeOK
  <2> QED
    BY <1>a, <1>k, <2>2, <2>3, <2>4 DEF HeldItems
<1>5. ASSUME NEW w \in Workers, PendingItems(w)
      PROVE  HeldItems' /\ AnswersForTheirURL'
  <2>1. ItemsStay /\ UNCHANGED runner
    BY <1>5 DEF PendingItems, queueVars, AnswersForTheirURL
  <2>2. ASSUME NEW v \in Workers, v # w, At(v, "checking")'
        PROVE  At(v, "checking") /\ check'[v] = check[v]
    BY <1>5, <2>1, <2>2 DEF PendingItems, At, Idle, CheckTypeOK
  <2> DEFINE run == items[runner[w].job]
  <2>3. check'[w].urls = [n \in Pending(run) |-> run[n].url]
    BY <1>5 DEF PendingItems, CheckTypeOK
  <2>4. UNCHANGED items
    BY <1>5 DEF PendingItems
  <2>5. ASSUME NEW n \in DOMAIN check'[w].urls
        PROVE  items'[runner'[w].job][n] # None /\ items'[runner'[w].job][n].url = check'[w].urls[n]
    BY <2>1, <2>3, <2>4 DEF Pending
  <2>6. ASSUME NEW v \in Workers, v # w, At(v, "checking")', NEW n \in DOMAIN check'[v].urls
        PROVE  items'[runner'[v].job][n] # None /\ items'[runner'[v].job][n].url = check'[v].urls[n]
    BY <1>k, <2>1, <2>2, <2>6
  <2> QED
    BY <1>a, <2>1, <2>5, <2>6 DEF HeldItems
<1>6. ASSUME NEW w \in Workers, NEW n \in Nodes, RecordResult(w, n)
      PROVE  HeldItems' /\ AnswersForTheirURL'
  <2>1. UNCHANGED runner /\ At(w, "checking") /\ n \in DOMAIN check[w].urls
    BY <1>6 DEF RecordResult, queueVars
  <2>2. items[runner[w].job][n] # None /\ items[runner[w].job][n].url = check[w].urls[n]
        /\ items[runner[w].job][n] \in Item
    BY <1>h, <2>1 DEF CheckTypeOK
  <2> DEFINE new == [items[runner[w].job][n] EXCEPT !.answer = check[w].urls[n]]
  <2>n. new # None /\ new.answer = check[w].urls[n] /\ new.url = items[runner[w].job][n].url
    <3>1. check[w].urls[n] \in Urls
      BY <1>6, RecordKeeps
    <3> QED
      BY <2>2, <3>1, AnsweredIsItem, Zenon
  <2>i. /\ \A j \in JobIds, m \in Nodes :
               j # runner[w].job \/ m # n => items'[j][m] = items[j][m]
        /\ items'[runner[w].job][n] = new
    BY <1>6, <2>2, RecordKeeps
  <2> HIDE DEF new
  <2>3. ItemsStay
    BY <2>2, <2>n, <2>i DEF AnswersForTheirURL
  <2>4. ASSUME NEW v \in Workers, At(v, "checking")'
        PROVE  /\ At(v, "checking")
               /\ DOMAIN check'[v].urls \subseteq DOMAIN check[v].urls
               /\ \A m \in DOMAIN check'[v].urls : check'[v].urls[m] = check[v].urls[m]
    BY <1>6, <2>1, <2>4 DEF RecordResult, At, Idle, CheckTypeOK
  <2> QED
    BY <1>a, <1>k, <2>1, <2>3, <2>4 DEF HeldItems
<1>7. ASSUME NEW w \in Workers, FinishRun(w)
      PROVE  HeldItems' /\ AnswersForTheirURL'
  <2>1. ItemsStay /\ UNCHANGED check
    BY <1>7 DEF FinishRun, AnswersForTheirURL
  <2>2. \A v \in Workers : At(v, "checking")' => At(v, "checking") /\ runner'[v].job = runner[v].job
    BY <1>7, <2>1 DEF FinishRun, HandlerEnds, At, Idle, QueueTypeOK, Run
  <2> QED
    BY <1>a, <1>k, <2>1, <2>2 DEF HeldItems
<1>8. ASSUME NEW w \in Workers, NEW j \in JobIds, ClaimCheck(w, j)
      PROVE  HeldItems' /\ AnswersForTheirURL'
  <2>1. ItemsStay
    BY <1>8 DEF ClaimCheck, AnswersForTheirURL
  <2>2. check'[w].at = "start" /\ \A v \in Workers : v # w => check'[v] = check[v]
    BY <1>8 DEF ClaimCheck, CheckTypeOK, NotStarted
  <2>3. \A v \in Workers : v # w => runner'[v] = runner[v]
    BY <1>8 DEF ClaimCheck, Claim, QueueTypeOK
  <2>4. \A v \in Workers : At(v, "checking")' =>
           v # w /\ At(v, "checking") /\ runner'[v].job = runner[v].job /\ check'[v] = check[v]
    BY <2>2, <2>3 DEF At, Idle
  <2> QED
    BY <1>a, <1>k, <2>1, <2>4 DEF HeldItems
<1> QED
  BY <1>1, <1>2, <1>3, <1>4, <1>5, <1>6, <1>7, <1>8, ChecksStep DEF HandlerMoves

Complete(j) == j \in finished /\ Pending(items[j]) = {}

\* While handlers keep within their leases, an attempt at a scheduled run works on all that is
\* pending, and one that has ended well has left nothing.
AttemptsComplete ==
    ~overran => \A w \in Workers : ~Idle(w) /\ jobs[runner[w].job].slot # None =>
        /\ At(w, "checking") => Pending(items[runner[w].job]) \subseteq DOMAIN check[w].urls
        /\ runner[w].phase # "handler" /\ runner[w].outcome = "ok" => Complete(runner[w].job)

\* The slot of a job somebody runs is that of before.
LEMMA RunnersSlot ==
  ASSUME QueueTypeOK, OneRunner, ~overran, [QueueNext]_queueVars, NEW w \in Workers, ~Idle(w)
  PROVE  /\ runner[w].job \in JobIds
         /\ jobs[runner[w].job].status = "running"
         /\ jobs'[runner[w].job].slot = jobs[runner[w].job].slot
         /\ \A v \in Workers : ~Idle(v) /\ runner[v].job = runner[w].job => v = w
<1>1. runner[w].job \in JobIds /\ jobs[runner[w].job].status = "running"
  BY DEF OneRunner, QueueTypeOK, Idle, Run
<1>2. jobs'[runner[w].job].slot = jobs[runner[w].job].slot
  BY <1>1, SlotStays
<1> QED
  BY <1>1, <1>2 DEF OneRunner, Running

LEMMA OverranStays ==
  ASSUME [QueueNext]_queueVars, overran
  PROVE  overran'
  BY Zenon DEF QueueNext, QueueStep, queueVars, Retry, RequestCancel, Purge, LeaseRunsOut, BackoffEnds,
     WatchCancel, ReadFlag, Settle, RecoverExpiredLeases, AskElsewhere, Enqueue, Claim, HandlerEnds,
     Stop, Start, Crash

\* What a step of a handler does to the runs of other jobs: nothing.
LEMMA OtherRunsStay ==
  ASSUME QueueTypeOK, CheckTypeOK, NEW w \in Workers, HandlerMoves(w),
         NEW j \in JobIds, runner[w].job # j \/ Idle(w)
  PROVE  items'[j] = items[j] /\ (j \in finished => j \in finished')
<1>1. ASSUME NEW n \in Nodes, RecordResult(w, n)
      PROVE  items'[j] = items[j]
  BY <1>1 DEF RecordResult, At, CheckTypeOK
<1>2. CASE SeedRun(w)
  BY <1>2 DEF SeedRun, At, CheckTypeOK
<1>3. CASE ReadBookmarks(w) \/ PendingItems(w) \/ FinishRun(w) \/ \E i \in JobIds : ClaimCheck(w, i)
  BY <1>3 DEF ReadBookmarks, PendingItems, FinishRun, ClaimCheck
<1>4. \/ finished' = finished
      \/ finished' = finished \cup {runner[w].job}
  BY DEF HandlerMoves, RecordResult, SeedRun, ReadBookmarks, PendingItems, FinishRun, ClaimCheck
<1> QED
  BY <1>1, <1>2, <1>3, <1>4 DEF HandlerMoves

\* Attempts go on completing their runs.
LEMMA AttemptsPreserved ==
  ASSUME QueueTypeOK, OneRunner, CheckTypeOK, StartsOwnJob, AttemptsComplete, [Next]_allVars
  PROVE  AttemptsComplete'
<1> SUFFICES ASSUME ~overran', NEW v \in Workers, ~Idle(v)', jobs'[runner'[v].job].slot # None
             PROVE  /\ At(v, "checking")' =>
                         Pending(items'[runner'[v].job]) \subseteq DOMAIN check'[v].urls
                    /\ runner'[v].phase # "handler" /\ runner'[v].outcome = "ok" =>
                         runner'[v].job \in finished' /\ Pending(items'[runner'[v].job]) = {}
  BY DEF AttemptsComplete, Complete, Pending
<1> DEFINE Goal == /\ At(v, "checking")' =>
                         Pending(items'[runner'[v].job]) \subseteq DOMAIN check'[v].urls
                   /\ runner'[v].phase # "handler" /\ runner'[v].outcome = "ok" =>
                         runner'[v].job \in finished' /\ Pending(items'[runner'[v].job]) = {}
<1>q. [QueueNext]_queueVars
  BY StepsOfTheQueue
<1>o. ~overran
  BY <1>q, OverranStays
<1> DEFINE j == runner[v].job
<1>s. ~Idle(v) => /\ j \in JobIds /\ jobs[j].status = "running" /\ jobs'[j].slot = jobs[j].slot
                  /\ \A w \in Workers : ~Idle(w) /\ runner[w].job = j => w = v
  BY <1>q, <1>o, RunnersSlot
\* Nobody else has touched the run, and the worker is where it was or has ended without success.
<1>g. ASSUME ~Idle(v), runner'[v].job = j, items'[j] = items[j], check'[v] = check[v],
             j \in finished => j \in finished',
             runner'[v].phase = "handler" => runner[v].phase = "handler",
             runner'[v].phase # "handler" /\ runner'[v].outcome = "ok" =>
                runner[v].phase # "handler" /\ runner[v].outcome = "ok"
      PROVE  Goal
  <2>1. jobs[j].slot # None
    BY <1>g, <1>s
  <2>2. /\ At(v, "checking") => Pending(items[j]) \subseteq DOMAIN check[v].urls
        /\ runner[v].phase # "handler" /\ runner[v].outcome = "ok" =>
              j \in finished /\ Pending(items[j]) = {}
    BY <1>g, <1>o, <2>1 DEF AttemptsComplete, Complete
  <2>3. At(v, "checking")' => At(v, "checking")
    BY <1>g DEF At
  <2> QED
    BY <1>g, <2>2, <2>3
<1>1. CASE UNCHANGED <<items, finished, check>> /\ QueueBeside
  BY <1>1, <1>g, RunnersGoOn
<1>2. CASE SeedForStart
  <2>1. UNCHANGED <<jobs, runner, check, finished>>
    BY <1>2 DEF SeedForStart, queueVars
  <2>2. j \in JobIds /\ ~Idle(v)
    BY <1>s, <2>1 DEF Idle
  <2>3. j # starting.job
    BY <1>2, <2>1 DEF SeedForStart, StartsOwnJob
  <2>4. items'[j] = items[j]
    BY <1>2, <2>2, <2>3, SeedTypes
  <2> QED
    BY <1>g, <2>1, <2>2, <2>4
<1>3. ASSUME NEW w \in Workers, HandlerMoves(w), v # w
      PROVE  Goal
  <2>1. runner'[v] = runner[v] /\ check'[v] = check[v]
    BY <1>3 DEF HandlerMoves, RecordResult, SeedRun, ReadBookmarks, PendingItems, FinishRun,
       ClaimCheck, HandlerEnds, Claim, queueVars, QueueTypeOK, CheckTypeOK
  <2>2. ~Idle(v)
    BY <2>1 DEF Idle
  <2>3. runner[w].job # j \/ Idle(w)
    BY <1>3, <1>s, <2>2
  <2>4. items'[j] = items[j] /\ (j \in finished => j \in finished')
    BY <1>3, <1>s, <2>2, <2>3, OtherRunsStay
  <2> QED
    BY <1>g, <2>1, <2>2, <2>4
<1>4. CASE ReadBookmarks(v)
  BY <1>4 DEF ReadBookmarks, queueVars, At, CheckTypeOK
<1>5. CASE SeedRun(v)
  BY <1>5 DEF SeedRun, queueVars, At, CheckTypeOK
<1>6. CASE PendingItems(v)
  BY <1>6 DEF PendingItems, queueVars, At, CheckTypeOK
<1>7. ASSUME NEW n \in Nodes, RecordResult(v, n)
      PROVE  Goal
  <2>1. UNCHANGED <<jobs, runner>> /\ At(v, "checking")
    BY <1>7 DEF RecordResult, queueVars
  <2>2. Pending(items[j]) \subseteq DOMAIN check[v].urls /\ j \in JobIds
    BY <1>o, <1>s, <2>1 DEF AttemptsComplete, At, Idle
  <2>3. DOMAIN check'[v].urls = DOMAIN check[v].urls \ {n}
    BY <1>7 DEF RecordResult, CheckTypeOK
  <2>4. n \notin Pending(items'[j])
    <3>1. items[j][n] \in Item \cup {None}
      BY <2>2 DEF CheckTypeOK
    <3>2. check[v].urls[n] \in Urls
      BY <1>7, RecordKeeps
    <3>3. items'[j][n] = IF items[j][n] = None THEN None
                         ELSE [items[j][n] EXCEPT !.answer = check[v].urls[n]]
      BY <1>7, RecordKeeps
    <3>4. items[j][n] # None => [items[j][n] EXCEPT !.answer = check[v].urls[n]].answer # None
      BY <3>1, <3>2, AnsweredIsItem, NoneIsNoItem
    <3> QED
      BY <3>3, <3>4 DEF Pending
  <2>5. Pending(items'[j]) \subseteq Pending(items[j]) \cup {n}
    <3>1. \A m \in Nodes : m # n => items'[j][m] = items[j][m]
      BY <1>7, <2>2 DEF RecordResult, CheckTypeOK
    <3> QED
      BY <3>1 DEF Pending
  <2> QED
    BY <2>1, <2>2, <2>3, <2>4, <2>5 DEF At
<1>8. CASE FinishRun(v)
  <2>1. At(v, "checking") /\ DOMAIN check[v].urls = {} /\ UNCHANGED <<items, jobs>>
    BY <1>8 DEF FinishRun, AllAnswered, HandlerEnds
  <2>2. runner'[v].job = j /\ runner'[v].phase = "ended" /\ finished' = finished \cup {j}
    BY <1>8 DEF FinishRun, HandlerEnds, QueueTypeOK, Run, Idle
  <2>3. Pending(items[j]) = {}
    BY <1>o, <2>1, <2>2 DEF AttemptsComplete, At
  <2> QED
    BY <2>1, <2>2, <2>3 DEF At
<1>9. ASSUME NEW i \in JobIds, ClaimCheck(v, i)
      PROVE  Goal
  BY <1>9 DEF ClaimCheck, Claim, At, NotStarted, QueueTypeOK, CheckTypeOK
<1> QED
  BY <1>1, <1>2, <1>3, <1>4, <1>5, <1>6, <1>7, <1>8, <1>9, ChecksStep DEF HandlerMoves

\* The invariant of the checks.
CheckInv ==
    /\ QueueTypeOK /\ OneRunner
    /\ CheckTypeOK /\ StartsOwnJob /\ HeldItems /\ AnswersForTheirURL
    /\ AttemptsComplete /\ ScheduledRunComplete

\* A run whose scheduled job has succeeded is not touched any more.
LEMMA CompletePreserved ==
  ASSUME CheckInv, [Next]_allVars
  PROVE  ScheduledRunComplete'
<1> USE DEF CheckInv
<1> SUFFICES ASSUME ~overran', NEW j \in JobIds, jobs'[j].status = "succeeded", jobs'[j].slot # None
             PROVE  j \in finished' /\ Pending(items'[j]) = {}
  BY DEF ScheduledRunComplete, Pending
<1>q. [QueueNext]_queueVars
  BY StepsOfTheQueue
<1>o. ~overran
  BY <1>q, OverranStays
<1>1. \/ jobs[j].status = "succeeded"
      \/ \E w \in Workers : Running(w, j) /\ runner[w].phase = "settling" /\ runner[w].outcome = "ok"
  BY <1>q, SucceedsBySettling
<1>2. jobs[j].status # "none"
  BY <1>1, <1>o DEF OneRunner, Running
<1>3. jobs[j].slot # None
  BY <1>2, <1>q, SlotStays
<1>4. j \in finished /\ Pending(items[j]) = {}
  <2>1. CASE jobs[j].status = "succeeded"
    BY <2>1, <1>o, <1>3 DEF ScheduledRunComplete
  <2>2. ASSUME NEW w \in Workers, Running(w, j), runner[w].phase = "settling", runner[w].outcome = "ok"
        PROVE  j \in finished /\ Pending(items[j]) = {}
    BY <2>2, <1>o, <1>3 DEF AttemptsComplete, Complete, Running
  <2> QED
    BY <1>1, <2>1, <2>2
<1>5. items'[j] = items[j] /\ (j \in finished => j \in finished')
  <2>1. CASE UNCHANGED <<items, finished, check>>
    BY <2>1
  <2>2. CASE SeedForStart
    <3>1. j # starting.job
      BY <1>3, <2>2 DEF SeedForStart, StartsOwnJob
    <3> QED
      BY <2>2, <3>1, SeedTypes DEF SeedForStart
  <2>3. ASSUME NEW w \in Workers, HandlerMoves(w)
        PROVE  items'[j] = items[j] /\ (j \in finished => j \in finished')
    <3>1. CASE jobs[j].status = "succeeded"
      <4>1. runner[w].job # j \/ Idle(w)
        BY <3>1, <1>o DEF OneRunner
      <4> QED
        BY <2>3, <4>1, OtherRunsStay
    <3>2. CASE jobs[j].status # "succeeded"
      \* Then the step settles, which is no step of a handler.
      <4>1. jobs'[j].status \notin {jobs[j].status, "running"}
        BY <3>2
      <4>2. jobs'[j] = jobs[j] \/ jobs'[j].status = "running"
        <5>1. ASSUME NEW i \in JobIds, ClaimCheck(w, i)
              PROVE  jobs'[j] = jobs[j] \/ jobs'[j].status = "running"
          <6>1. [jobs[i] EXCEPT !.status = "running", !.expired = FALSE].status = "running"
            BY DEF QueueTypeOK, Row
          <6> QED
            BY <5>1, <6>1 DEF ClaimCheck, Claim, QueueTypeOK
        <5>2. CASE ~\E i \in JobIds : ClaimCheck(w, i)
          BY <2>3, <5>2 DEF HandlerMoves, RecordResult, SeedRun, ReadBookmarks, PendingItems, FinishRun,
             HandlerEnds, queueVars
        <5> QED
          BY <5>1, <5>2
      <4> QED
        BY <4>1, <4>2
    <3> QED
      BY <3>1, <3>2
  <2> QED
    BY <2>1, <2>2, <2>3, ChecksStep
<1> QED
  BY <1>4, <1>5

LEMMA CheckInvInit ==
  ASSUME Init
  PROVE  CheckInv
<1>1. QueueTypeOK /\ OneRunner
  BY InitOK DEF Init, CheckInit
<1>2. \A j \in JobIds : jobs[j].status # "succeeded"
  BY DEF Init, CheckInit, QueueInit, NoJob, NewJob
<1>3. NotStarted \in [at : Places, urls : UrlMaps]
  <2>1. [n \in {} |-> None] \in [{} -> Urls] /\ {} \in SUBSET Nodes
    OBVIOUS
  <2>2. [n \in {} |-> None] \in UrlMaps
    BY <2>1, MapsOfUrls, Zenon
  <2> QED
    BY <2>2 DEF NotStarted, Places
<1>4. CheckTypeOK
  BY <1>3 DEF Init, CheckInit, CheckTypeOK, Places
<1>5. StartsOwnJob /\ AnswersForTheirURL
  BY DEF Init, CheckInit, StartsOwnJob, AnswersForTheirURL
<1>6. \A w \in Workers : Idle(w)
  BY DEF Init, CheckInit, QueueInit, Idle
<1> QED
  BY <1>1, <1>2, <1>4, <1>5, <1>6 DEF CheckInv, HeldItems, At, AttemptsComplete, ScheduledRunComplete

\* Whatever happens, the invariant of the checks holds.
LEMMA ChecksStayInvariant == Spec => []CheckInv
<1>1. Init => CheckInv
  BY CheckInvInit
<1>2. CheckInv /\ [Next]_allVars => CheckInv'
  <2> SUFFICES ASSUME CheckInv, [Next]_allVars
               PROVE  CheckInv'
    OBVIOUS
  <2>1. QueueTypeOK' /\ OneRunner'
    BY StepsOfTheQueue, TypePreserved, OneRunnerPreserved DEF CheckInv
  <2>2. CheckTypeOK' /\ StartsOwnJob'
    BY CheckTypePreserved DEF CheckInv
  <2>3. HeldItems' /\ AnswersForTheirURL'
    BY HeldItemsPreserved DEF CheckInv
  <2>4. AttemptsComplete'
    BY AttemptsPreserved DEF CheckInv
  <2>5. ScheduledRunComplete'
    BY CompletePreserved
  <2> QED
    BY <2>1, <2>2, <2>3, <2>4, <2>5 DEF CheckInv
<1> QED
  BY <1>1, <1>2, PTL DEF Spec

\* An answer is about the URL its item shows, for any number of writers of a run.
THEOREM AnswersAreForTheirURL == Spec => []AnswersForTheirURL
<1>1. CheckInv => AnswersForTheirURL
  BY DEF CheckInv
<1> QED
  BY <1>1, ChecksStayInvariant, PTL

\* A scheduled job that succeeded has checked everything, however often it was interrupted.
THEOREM SucceededRunsAreComplete == Spec => []ScheduledRunComplete
<1>1. CheckInv => ScheduledRunComplete
  BY DEF CheckInv
<1> QED
  BY <1>1, ChecksStayInvariant, PTL

---------------------------------------------------------------------------
(* The occurrences of schedules *)

\* An occurrence has a row, which may have been purged since.
Dispatched(s, occurrence) ==
    \E j \in JobIds : jobs[j].status # "none" /\ jobs[j].slot = <<s, occurrence>>

\* The rows of schedules and the entries of a tick have their columns; what a tick has sent
\* and what a schedule counts as run is dispatched.
SchedulesDispatched ==
    /\ DOMAIN sched = ScheduleIds
    /\ \A s \in Rows : /\ "last" \in DOMAIN sched[s]
                       /\ sched[s].last # None => Dispatched(s, sched[s].last)
    /\ \A e \in ticking : /\ {"id", "occurrence", "sent"} \subseteq DOMAIN e
                          /\ e.sent => Dispatched(e.id, e.occurrence)

UnwrittenHaveNoSlot == \A j \in JobIds : jobs[j].status = "none" => jobs[j].slot = None

\* No two jobs stand for one occurrence.
OneJobEach ==
    \A i, j \in JobIds :
        jobs[i].slot # None /\ jobs[i].slot = jobs[j].slot
        /\ "purged" \notin {jobs[i].status, jobs[j].status} => i = j

\* Whoever is at work is at work on a row that was written.
RunJobsWritten == \A w \in Workers : ~Idle(w) => jobs[runner[w].job].status # "none"

LEMMA RunJobsStayWritten ==
  ASSUME QueueTypeOK, RunJobsWritten, [QueueNext]_queueVars
  PROVE  RunJobsWritten'
<1> SUFFICES ASSUME NEW w \in Workers, ~Idle(w)'
             PROVE  jobs'[runner'[w].job].status # "none"
  BY DEF RunJobsWritten
<1>1. ASSUME NEW v \in Workers, NEW j \in JobIds, Claim(v, j)
      PROVE  jobs'[runner'[w].job].status # "none"
  <2>1. [jobs[j] EXCEPT !.status = "running", !.expired = FALSE].status # "none"
    BY DEF QueueTypeOK, Row
  <2>2. CASE w = v
    BY <1>1, <2>1, <2>2 DEF Claim, QueueTypeOK
  <2>3. CASE w # v
    <3>1. runner'[w] = runner[w] /\ ~Idle(w) /\ runner[w].job \in JobIds
      BY <1>1, <2>3 DEF Claim, QueueTypeOK, Idle, Run
    <3> QED
      BY <3>1, SlotStays DEF RunJobsWritten
  <2> QED
    BY <2>2, <2>3
<1>2. ASSUME NEW v \in Workers, NEW outcome \in Outcomes, HandlerEnds(v, outcome)
      PROVE  ~Idle(w) /\ runner'[w].job = runner[w].job
  BY <1>2 DEF HandlerEnds, QueueTypeOK, Idle, Run
<1>3. ASSUME QueueBeside
      PROVE  ~Idle(w) /\ runner'[w].job = runner[w].job
  BY <1>3, RunnersGoOn
<1>4. ASSUME ~Idle(w), runner'[w].job = runner[w].job
      PROVE  jobs'[runner'[w].job].status # "none"
  <2>1. runner[w].job \in JobIds /\ jobs[runner[w].job].status # "none"
    BY <1>4 DEF RunJobsWritten, QueueTypeOK, Idle, Run
  <2> QED
    BY <1>4, <2>1, SlotStays
<1>5. \/ QueueBeside
      \/ \E v \in Workers : \/ \E j \in JobIds : Claim(v, j)
                            \/ \E outcome \in Outcomes : HandlerEnds(v, outcome)
  BY DEF QueueNext, QueueBeside
<1> QED
  BY <1>1, <1>2, <1>3, <1>4, <1>5

\* A row is written without an occurrence, or for one that no job stands for.
LEMMA RowsAreEnqueued ==
  ASSUME QueueTypeOK, RunJobsWritten, [Next]_allVars, NEW j \in JobIds, jobs[j].status = "none"
  PROVE  \/ jobs'[j].status = "none" /\ jobs'[j].slot = jobs[j].slot
         \/ Enqueue(j, None)
         \/ \E slot \in Slots : Enqueue(j, slot) /\ ~Occupied(slot)
<1> DEFINE Goal == \/ jobs'[j].status = "none" /\ jobs'[j].slot = jobs[j].slot
                   \/ Enqueue(j, None)
                   \/ \E slot \in Slots : Enqueue(j, slot) /\ ~Occupied(slot)
<1>u. UNCHANGED jobs => Goal
  OBVIOUS
<1>e. ASSUME NEW i \in JobIds, Enqueue(i, None)
      PROVE  Goal
  BY <1>e DEF Enqueue, QueueTypeOK
<1>1. CASE Owner
  BY <1>1, <1>u, <1>e DEF Owner, CreateSchedule, UpdateSchedule, DeleteSchedule, RunNow
<1>2. ASSUME NEW e \in ticking, EnqueueOccurrence(e)
      PROVE  Goal
  <2>1. ASSUME NEW i \in JobIds, NEW slot \in Slots, Enqueue(i, slot), ~Occupied(slot)
        PROVE  Goal
    BY <2>1 DEF Enqueue, QueueTypeOK
  <2> QED
    BY <1>2, <1>u, <2>1 DEF EnqueueOccurrence, queueVars
<1>3. CASE Tick
  BY <1>2, <1>3, <1>u DEF Tick, ListDue, AdvanceNextRun, SkipOccurrence, queueVars
<1>4. ASSUME NEW i \in JobIds, RequestCancel(i) \/ Purge(i) \/ LeaseRunsOut(i) \/ BackoffEnds(i)
      PROVE  Goal
  BY <1>4 DEF RequestCancel, Purge, LeaseRunsOut, BackoffEnds, QueueTypeOK, Row, Terminal
<1>5. ASSUME NEW w \in Workers, Settle(w)
      PROVE  Goal
  <2>1. runner[w].job # j
    BY <1>5 DEF Settle, RunJobsWritten
  <2> QED
    BY <1>5, <2>1 DEF Settle, QueueTypeOK
<1>6. CASE RecoverExpiredLeases
  BY <1>6 DEF RecoverExpiredLeases, Requeued, Recoverable
<1>7. CASE QueueStep
  BY <1>4, <1>5, <1>6, <1>7, <1>e, <1>u DEF QueueStep, Retry, WatchCancel, ReadFlag
<1>8. ASSUME NEW w \in Workers, NEW i \in JobIds, ClaimCheck(w, i)
      PROVE  Goal
  BY <1>8 DEF ClaimCheck, Claim, Waiting, QueueTypeOK
<1>9. CASE CheckStep
  <2>1. ASSUME NEW w \in Workers, HandlerStep(w) \/ StoreFails(w)
        PROVE  UNCHANGED jobs
    BY <2>1 DEF HandlerStep, StoreFails, ReadBookmarks, SeedRun, PendingItems, RecordResult,
       Interrupted, FinishRun, HandlerEnds, queueVars
  <2> QED
    BY <1>7, <1>8, <1>9, <1>u, <2>1 DEF CheckStep, EditTree, ReadForStart, SeedForStart, Stop, queueVars
<1>10. ASSUME NEW i \in JobIds, StartLinkCheck(i)
       PROVE  Goal
  BY <1>10, <1>e DEF StartLinkCheck
<1>11. CASE NewProcess \/ DayPasses \/ UNCHANGED allVars
  BY <1>11, <1>u DEF NewProcess, Crash, Start, DayPasses, allVars, queueVars
<1> QED
  BY <1>1, <1>3, <1>9, <1>10, <1>11 DEF Next

\* No occurrence gets a second job.
LEMMA OneJobEachPreserved ==
  ASSUME QueueTypeOK, RunJobsWritten, UnwrittenHaveNoSlot, OneJobEach, [Next]_allVars
  PROVE  UnwrittenHaveNoSlot' /\ OneJobEach'
<1>q. [QueueNext]_queueVars
  BY StepsOfTheQueue
<1>s. \A j \in JobIds : jobs[j].status # "none" =>
         /\ jobs'[j].status # "none" /\ jobs'[j].slot = jobs[j].slot
         /\ jobs[j].status = "purged" => jobs'[j].status = "purged"
  BY <1>q, SlotStays
<1>1. UnwrittenHaveNoSlot'
  <2> SUFFICES ASSUME NEW j \in JobIds, jobs'[j].status = "none"
               PROVE  jobs'[j].slot = None
    BY DEF UnwrittenHaveNoSlot
  <2>1. jobs[j].status = "none" /\ jobs[j].slot = None
    BY <1>s DEF UnwrittenHaveNoSlot
  <2>2. ASSUME NEW slot \in Slots \cup {None}, Enqueue(j, slot)
        PROVE  FALSE
    BY <2>2 DEF Enqueue, QueueTypeOK, NewJob
  <2> QED
    BY <2>1, <2>2, RowsAreEnqueued
<1>2. OneJobEach'
  <2> SUFFICES ASSUME NEW i \in JobIds, NEW j \in JobIds, i # j, jobs'[i].slot # None,
                      jobs'[i].slot = jobs'[j].slot,
                      jobs'[i].status # "purged", jobs'[j].status # "purged"
               PROVE  FALSE
    BY DEF OneJobEach
  \* A row that is written for an occurrence is the only one.
  <2>1. ASSUME NEW k \in JobIds, NEW m \in JobIds, k # m, jobs[k].status = "none",
               jobs'[k].slot # None, jobs'[m].slot = jobs'[k].slot, jobs'[m].status # "purged"
        PROVE  FALSE
    <3>1. PICK slot \in Slots : Enqueue(k, slot) /\ ~Occupied(slot)
      <4>1. ~Enqueue(k, None)
        BY <2>1 DEF Enqueue, QueueTypeOK, NewJob
      <4> QED
        BY <2>1, <4>1, RowsAreEnqueued DEF UnwrittenHaveNoSlot
    <3>2. jobs'[k].slot = slot /\ jobs'[m] = jobs[m]
      BY <2>1, <3>1 DEF Enqueue, QueueTypeOK, NewJob
    <3>3. jobs[m].status # "none"
      BY <2>1, <3>2 DEF UnwrittenHaveNoSlot
    <3> QED
      BY <2>1, <3>1, <3>2, <3>3 DEF Occupied
  <2>2. jobs[i].status # "none" /\ jobs[j].status # "none"
    BY <2>1
  <2> QED
    BY <2>2, <1>s DEF OneJobEach
<1> QED
  BY <1>1, <1>2

\* What is dispatched stays so.
LEMMA DispatchedStays ==
  ASSUME QueueTypeOK, [QueueNext]_queueVars, NEW s, NEW occurrence, Dispatched(s, occurrence)
  PROVE  Dispatched(s, occurrence)'
<1>1. PICK j \in JobIds : jobs[j].status # "none" /\ jobs[j].slot = <<s, occurrence>>
  BY DEF Dispatched
<1>2. jobs'[j].status # "none" /\ jobs'[j].slot = <<s, occurrence>>
  BY <1>1, SlotStays
<1> QED
  BY <1>2 DEF Dispatched

\* Enqueue first, advance second: the schedule counts what a tick has sent.
LEMMA DispatchedPreserved ==
  ASSUME QueueTypeOK, SchedulesDispatched, [Next]_allVars
  PROVE  SchedulesDispatched'
<1> USE DEF SchedulesDispatched, Rows
<1>q. [QueueNext]_queueVars
  BY StepsOfTheQueue
<1>d. \A s, occurrence : Dispatched(s, occurrence) => Dispatched(s, occurrence)'
  BY <1>q, DispatchedStays
<1>u. ASSUME UNCHANGED sched, ticking' \subseteq ticking
      PROVE  SchedulesDispatched'
  BY <1>u, <1>d
<1>1. ASSUME NEW s \in ScheduleIds, NEW plan, CreateSchedule(s, plan)
      PROVE  SchedulesDispatched'
  <2> DEFINE row == [enabled |-> TRUE, plan |-> Stored(plan), last |-> None, next |-> NextRun(plan, now)]
  <2>1. sched' = [sched EXCEPT ![s] = row] /\ ticking' = ticking
    BY <1>1 DEF CreateSchedule
  <2>2. "last" \in DOMAIN row /\ row.last = None
    OBVIOUS
  <2> HIDE DEF row
  <2> QED
    BY <2>1, <2>2, <1>d
<1>2. ASSUME NEW s \in ScheduleIds, NEW plan, NEW enabled, UpdateSchedule(s, plan, enabled)
      PROVE  SchedulesDispatched'
  <2> DEFINE r0 == sched[s]
             r1 == [r0 EXCEPT !.enabled = enabled]
             r2 == [r1 EXCEPT !.plan = Stored(plan)]
             r3 == [r2 EXCEPT !.next = NextRun(plan, now)]
  <2>1. sched' = [sched EXCEPT ![s] = r3] /\ ticking' = ticking
    BY <1>2 DEF UpdateSchedule
  <2>2. s \in Rows
    BY <1>2 DEF UpdateSchedule
  <2>3. "last" \in DOMAIN r1 /\ r1.last = r0.last
    BY <2>2
  <2> HIDE DEF r1
  <2>4. "last" \in DOMAIN r2 /\ r2.last = r0.last
    BY <2>3
  <2> HIDE DEF r2
  <2>5. "last" \in DOMAIN r3 /\ r3.last = r0.last
    BY <2>4
  <2> HIDE DEF r3
  <2> QED
    BY <2>1, <2>2, <2>5, <1>d
<1>3. ASSUME NEW s \in ScheduleIds, DeleteSchedule(s)
      PROVE  SchedulesDispatched'
  BY <1>3, <1>d DEF DeleteSchedule
<1>4. ASSUME NEW s \in ScheduleIds, NEW j \in JobIds, RunNow(s, j)
      PROVE  SchedulesDispatched'
  BY <1>4, <1>u DEF RunNow, scheduleVars
<1>5. CASE Owner
  BY <1>1, <1>2, <1>3, <1>4, <1>5 DEF Owner
<1>6. CASE ListDue
  <2>1. \A s : {"id", "occurrence", "sent"} \subseteq DOMAIN Due(s) /\ ~Due(s).sent
    BY DEF Due
  <2>2. UNCHANGED sched /\ \A e \in ticking' : \E s \in ScheduleIds : e = Due(s)
    BY <1>6 DEF ListDue
  <2> QED
    BY <2>1, <2>2, <1>d
<1>7. ASSUME NEW e \in ticking, EnqueueOccurrence(e)
      PROVE  SchedulesDispatched'
  <2> DEFINE sent == [e EXCEPT !.sent = TRUE]
  <2>1. {"id", "occurrence", "sent"} \subseteq DOMAIN sent
        /\ sent.id = e.id /\ sent.occurrence = e.occurrence
    OBVIOUS
  <2>2. UNCHANGED sched /\ ticking' = (ticking \ {e}) \cup {sent}
    BY <1>7 DEF EnqueueOccurrence
  <2>3. Dispatched(e.id, e.occurrence)'
    <3> DEFINE slot == <<e.id, e.occurrence>>
    <3>1. CASE Occupied(slot)
      <4>1. Dispatched(e.id, e.occurrence)
        BY <3>1 DEF Occupied, Dispatched
      <4> QED
        BY <4>1, <1>d
    <3>2. ASSUME NEW j \in JobIds, Enqueue(j, slot)
          PROVE  Dispatched(e.id, e.occurrence)'
      <4>1. jobs'[j] = NewJob(slot)
        BY <3>2 DEF Enqueue, QueueTypeOK
      <4>2. jobs'[j].status # "none" /\ jobs'[j].slot = slot
        BY <4>1 DEF NewJob
      <4> QED
        BY <4>2 DEF Dispatched
    <3> QED
      BY <1>7, <3>1, <3>2 DEF EnqueueOccurrence
  <2> HIDE DEF sent
  <2> QED
    BY <2>1, <2>2, <2>3, <1>d
<1>8. ASSUME NEW e \in ticking, AdvanceNextRun(e)
      PROVE  SchedulesDispatched'
  <2>1. ticking' \subseteq ticking /\ Dispatched(e.id, e.occurrence)
    BY <1>8 DEF AdvanceNextRun, Ready
  <2>2. CASE e.id \notin Rows
    BY <1>8, <1>u, <2>1, <2>2 DEF AdvanceNextRun
  <2>3. CASE e.id \in Rows
    <3> DEFINE r0 == sched[e.id]
               r1 == [r0 EXCEPT !.next = e.next]
               r2 == [r1 EXCEPT !.last = e.occurrence]
    <3>1. sched' = [sched EXCEPT ![e.id] = r2]
      BY <1>8, <2>3 DEF AdvanceNextRun
    <3>2. "last" \in DOMAIN r1
      BY <2>3
    <3> HIDE DEF r1
    <3>3. "last" \in DOMAIN r2 /\ r2.last = e.occurrence
      BY <3>2
    <3> HIDE DEF r2
    <3> QED
      BY <2>1, <2>3, <3>1, <3>3, <1>d
  <2> QED
    BY <2>2, <2>3
<1>9. ASSUME NEW e \in ticking, SkipOccurrence(e)
      PROVE  SchedulesDispatched'
  BY <1>9, <1>u DEF SkipOccurrence
<1>10. CASE DayPasses
  BY <1>10, <1>u DEF DayPasses
<1>11. CASE NewProcess /\ NoTick
  BY <1>11, <1>u DEF NoTick
<1>12. CASE UNCHANGED scheduleVars
  BY <1>12, <1>u DEF scheduleVars
<1> QED
  BY <1>5, <1>6, <1>7, <1>8, <1>9, <1>10, <1>11, <1>12 DEF Next, Tick, allVars

\* An occurrence that counts as run has its job and no occurrence has two, wherever the process dies.
THEOREM OccurrencesAreOnce == Spec => []OccurrencesHaveOneJob
<1> DEFINE Inv == /\ QueueTypeOK /\ RunJobsWritten /\ UnwrittenHaveNoSlot /\ OneJobEach
                  /\ SchedulesDispatched
<1>1. Init => Inv
  <2> SUFFICES ASSUME Init
               PROVE  Inv
    OBVIOUS
  <2>1. QueueTypeOK /\ jobs = [j \in JobIds |-> NoJob] /\ runner = [w \in Workers |-> None]
    BY InitOK DEF Init, CheckInit, QueueInit
  <2>2. NoJob.slot = None
    BY DEF NoJob, NewJob
  <2>3. DOMAIN sched = ScheduleIds /\ Rows = {} /\ ticking = {}
    BY DEF Init, Rows
  <2> QED
    BY <2>1, <2>2, <2>3
    DEF RunJobsWritten, Idle, UnwrittenHaveNoSlot, OneJobEach, SchedulesDispatched
<1>2. Inv /\ [Next]_allVars => Inv'
  <2> SUFFICES ASSUME Inv, [Next]_allVars
               PROVE  Inv'
    OBVIOUS
  <2>1. QueueTypeOK' /\ RunJobsWritten'
    BY StepsOfTheQueue, TypePreserved, RunJobsStayWritten
  <2>2. UnwrittenHaveNoSlot' /\ OneJobEach'
    BY OneJobEachPreserved
  <2>3. SchedulesDispatched'
    BY DispatchedPreserved
  <2> QED
    BY <2>1, <2>2, <2>3
<1>3. Inv => OccurrencesHaveOneJob
  BY DEF OccurrencesHaveOneJob, SchedulesDispatched, Dispatched, OneJobEach
<1> QED
  BY <1>1, <1>2, <1>3, PTL DEF Spec
=============================================================================
