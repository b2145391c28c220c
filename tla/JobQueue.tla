------------------------------ MODULE JobQueue ------------------------------
(***************************************************************************)
(* The persistent job queue (src/server/internal/jobs): rows claimed with  *)
(* a lease, handlers that end, fail, are cancelled or outlive their lease, *)
(* and a process that is stopped or dies under them.                       *)
(*                                                                         *)
(* Time is left out: a lease or a backoff runs out at some point.          *)
(***************************************************************************)
EXTENDS Naturals, FiniteSets

CONSTANTS
    JobIds,       \* the rows there can be: a bound
    Workers,      \* the workers of the one process
    MaxAttempts,  \* max_attempts of every job
    MaxOutages,   \* bound on the shutdowns, crashes and overlong handlers
    MaxRequests,  \* bound on what users and administrators ask for
    Slots,        \* the occurrences of schedules a job can stand for
    None

VARIABLES
    jobs,     \* the jobs rows
    runner,   \* worker -> the job it runs, or None
    up,       \* workers claim: the service has been started and not been stopped
    outages,  \* how often the process was stopped or died, or a handler outlived its lease
    requests, \* how often somebody asked for something
    overran   \* history: a handler was still at work when the lease of its job ran out

queueVars == <<jobs, runner, up, outages, requests, overran>>

ASSUME AttemptsPositive == MaxAttempts \in Nat \ {0}
ASSUME BoundsNat == MaxOutages \in Nat /\ MaxRequests \in Nat
ASSUME NoneIsNoSlot == None \notin Slots

Waiting  == {"queued", "retry_wait"}
Terminal == {"succeeded", "failed", "cancelled"}
\* "none" is a row not written yet, "purged" one that was deleted.
Statuses == Waiting \cup Terminal \cup {"running", "none", "purged"}
Outcomes == {"ok", "retry", "error"}

\* A row of the table, and what a worker holds of the job it runs.
Row == [status : Statuses, attempt : 0 .. MaxAttempts - 1, cancel : BOOLEAN,
        backoff : BOOLEAN, expired : BOOLEAN, slot : Slots \cup {None}]

Run == [job : JobIds, attempt : 0 .. MaxAttempts - 1, phase : {"handler", "ended", "settling"},
        stop : BOOLEAN, outcome : Outcomes \cup {None}, flag : BOOLEAN]

ASSUME NoneIsNoRun == None \notin Run

\* slot ties the job to the occurrence of a schedule.
NewJob(slot) ==
    [status |-> "queued", attempt |-> 0, cancel |-> FALSE, backoff |-> FALSE,
     expired |-> FALSE, slot |-> slot]

NoJob == [NewJob(None) EXCEPT !.status = "none"]

Idle(w) == runner[w] = None
Running(w, j) == ~Idle(w) /\ runner[w].job = j

Asked ==
    /\ requests < MaxRequests
    /\ requests' = requests + 1

Outage ==
    /\ outages < MaxOutages
    /\ outages' = outages + 1

---------------------------------------------------------------------------
(* Rows *)

Enqueue(j, slot) ==
    /\ jobs[j].status = "none"
    /\ jobs' = [jobs EXCEPT ![j] = NewJob(slot)]
    /\ UNCHANGED <<runner, up, outages, overran>>

\* An administrator retries a job that ended badly: as a new row.
Retry(old, j) ==
    /\ Asked
    /\ jobs[old].status \in {"failed", "cancelled"}
    /\ Enqueue(j, None)

\* Cancel checks first that the job has not ended, in a statement of its own: by the
\* time the flag is written it may have.
RequestCancel(j) ==
    /\ Asked
    /\ jobs[j].status \notin {"none", "purged"} /\ ~jobs[j].cancel
    /\ jobs' = [jobs EXCEPT ![j].cancel = TRUE]
    /\ UNCHANGED <<runner, up, outages, overran>>

\* The retention of the session cleanup.
Purge(j) ==
    /\ Asked
    /\ jobs[j].status \in Terminal
    /\ jobs' = [jobs EXCEPT ![j].status = "purged"]
    /\ UNCHANGED <<runner, up, outages, overran>>

---------------------------------------------------------------------------
(* The passing of time *)

\* The ten minutes of a claim are over.  Nothing renews them, and a handler may still be
\* at work.
LeaseRunsOut(j) ==
    /\ jobs[j].status = "running" /\ ~jobs[j].expired
    /\ jobs' = [jobs EXCEPT ![j].expired = TRUE]
    /\ \/ (\E w \in Workers : Running(w, j)) /\ overran' = TRUE /\ Outage
       \/ (\A w \in Workers : ~Running(w, j)) /\ UNCHANGED <<overran, outages>>
    /\ UNCHANGED <<runner, up, requests>>

BackoffEnds(j) ==
    /\ jobs[j].backoff
    /\ jobs' = [jobs EXCEPT ![j].backoff = FALSE]
    /\ UNCHANGED <<runner, up, outages, requests, overran>>

---------------------------------------------------------------------------
(* Workers *)

\* Mutant of Recoverable: whatever runs is taken for abandoned.
RecoverableAnyLease(job) == job.status = "running"

\* Mutant of Recoverable: a job left behind by a dead worker is overlooked.
RecoverableQueued(job) == job.status = "queued" /\ job.expired

Recoverable(job) == job.status = "running" /\ job.expired

Requeued(job) ==
    IF Recoverable(job) THEN [job EXCEPT !.status = "queued", !.expired = FALSE] ELSE job

RecoverExpiredLeases ==
    /\ up /\ \E w \in Workers : Idle(w)
    /\ \E j \in JobIds : Recoverable(jobs[j])
    /\ jobs' = [j \in JobIds |-> Requeued(jobs[j])]
    /\ UNCHANGED <<runner, up, outages, requests, overran>>

Claim(w, j) ==
    /\ up /\ Idle(w)
    /\ jobs[j].status \in Waiting /\ ~jobs[j].backoff
    /\ jobs' = [jobs EXCEPT ![j].status = "running", ![j].expired = FALSE]
    /\ runner' = [runner EXCEPT ![w] = [job |-> j, attempt |-> jobs[j].attempt, phase |-> "handler",
                                        stop |-> FALSE, outcome |-> None, flag |-> FALSE]]
    /\ UNCHANGED <<up, outages, requests, overran>>

\* The watcher beside a handler has seen the flag.
WatchCancel(w) ==
    /\ ~Idle(w) /\ runner[w].phase = "handler" /\ ~runner[w].stop
    /\ jobs[runner[w].job].cancel
    /\ runner' = [runner EXCEPT ![w].stop = TRUE]
    /\ UNCHANGED <<jobs, up, outages, requests, overran>>

HandlerEnds(w, outcome) ==
    /\ ~Idle(w) /\ runner[w].phase = "handler"
    /\ runner' = [runner EXCEPT ![w].phase = "ended", ![w].outcome = outcome]
    /\ UNCHANGED <<jobs, up, outages, requests, overran>>

\* The flag is read again, since a handler may have finished despite it.
ReadFlag(w) ==
    /\ ~Idle(w) /\ runner[w].phase = "ended"
    /\ runner' = [runner EXCEPT ![w].phase = "settling", ![w].flag = jobs[runner[w].job].cancel]
    /\ UNCHANGED <<jobs, up, outages, requests, overran>>

\* What the row becomes.  Neither Finish nor ScheduleRetry asks whose the job is by now.
Settled(job, r) ==
    IF job.status = "purged" THEN job
    ELSE CASE r.flag               -> [job EXCEPT !.status = "cancelled"]
           [] ~r.flag /\ r.outcome = "ok" -> [job EXCEPT !.status = "succeeded"]
           [] ~r.flag /\ r.outcome = "retry" /\ r.attempt + 1 < MaxAttempts
                -> [job EXCEPT !.status = "retry_wait", !.attempt = r.attempt + 1,
                               !.backoff = TRUE]
           [] OTHER                -> [job EXCEPT !.status = "failed"]

Settle(w) ==
    /\ ~Idle(w) /\ runner[w].phase = "settling"
    /\ jobs' = [jobs EXCEPT ![runner[w].job] = Settled(@, runner[w])]
    /\ runner' = [runner EXCEPT ![w] = None]
    /\ UNCHANGED <<up, outages, requests, overran>>

---------------------------------------------------------------------------
(* The process *)

\* A shutdown cancels the context of every handler and waits for their last writes.
Stop ==
    /\ Outage
    /\ up /\ up' = FALSE
    /\ runner' = [w \in Workers |->
                    IF Idle(w) \/ runner[w].phase # "handler" THEN runner[w]
                    ELSE [runner[w] EXCEPT !.stop = TRUE]]
    /\ UNCHANGED <<jobs, requests, overran>>

Start ==
    /\ ~up /\ \A w \in Workers : Idle(w)
    /\ up' = TRUE
    /\ UNCHANGED <<jobs, runner, outages, requests, overran>>

Crash ==
    /\ Outage
    /\ runner' = [w \in Workers |-> None]
    /\ up' = TRUE
    /\ UNCHANGED <<jobs, requests, overran>>

QueueInit ==
    /\ jobs = [j \in JobIds |-> NoJob]
    /\ runner = [w \in Workers |-> None]
    /\ up = TRUE /\ outages = 0 /\ requests = 0 /\ overran = FALSE

\* What goes on whatever a handler does.
QueueStep ==
    \/ \E j \in JobIds :
          \/ \E old \in JobIds : Retry(old, j)
          \/ RequestCancel(j) \/ Purge(j)
          \/ LeaseRunsOut(j) \/ BackoffEnds(j)
    \/ \E w \in Workers : WatchCancel(w) \/ ReadFlag(w) \/ Settle(w)
    \/ RecoverExpiredLeases

\* Somebody asks the rest of the system for something.
AskElsewhere == Asked /\ UNCHANGED <<jobs, runner, up, outages, overran>>

QueueNext ==
    \/ QueueStep \/ AskElsewhere
    \/ \E j \in JobIds, slot \in Slots \cup {None} : Enqueue(j, slot) /\ (Asked \/ UNCHANGED requests)
    \/ \E w \in Workers : \/ \E j \in JobIds : Claim(w, j)
                          \/ \E outcome \in Outcomes : HandlerEnds(w, outcome)
    \/ Stop \/ Start \/ Crash

QueueSpec == QueueInit /\ [][QueueNext]_queueVars

---------------------------------------------------------------------------
(* Properties *)

\* Types; and a job is never claimed for more attempts than it has.
QueueTypeOK ==
    /\ jobs \in [JobIds -> Row] /\ runner \in [Workers -> Run \cup {None}]
    /\ up \in BOOLEAN /\ outages \in 0 .. MaxOutages /\ requests \in 0 .. MaxRequests
    /\ overran \in BOOLEAN

\* While handlers keep within their leases, and however often the process is stopped or
\* dies, a job is run by one worker at a time and only while its row says so (the guard
\* of Claim, and a requeue only after the lease).
OneRunner ==
    ~overran => \A w \in Workers : ~Idle(w) =>
        /\ jobs[runner[w].job].status = "running" /\ ~jobs[runner[w].job].expired
        /\ \A v \in Workers : Running(v, runner[w].job) => v = w

\* Then also what has ended stays as it ended.
EndedIsEnded ==
    [][~overran => \A j \in JobIds : jobs[j].status \in Terminal =>
                       jobs'[j].status \in {jobs[j].status, "purged"}]_queueVars
=============================================================================
