----------------------------- MODULE Schedules -----------------------------
(***************************************************************************)
(* Scheduled link checks (src/server/internal/schedule): the rows of       *)
(* schedules, the tick that enqueues what is due, and below it the queue   *)
(* and the checks.                                                         *)
(*                                                                         *)
(* The unit of time is a day of a calendar with short weeks and months;    *)
(* time of day and time zone are left out.                                 *)
(***************************************************************************)
EXTENDS LinkCheck, FiniteSetsExt

CONSTANTS
    ScheduleIds,
    Plans,              \* plans a user can ask for: [kind, day]
    Week, Month,        \* days in a week, in a month
    MaxDay              \* bound on time

VARIABLES
    sched,   \* id -> row, or None
    wanted,  \* history: id -> the plan its owner asked for
    now,     \* today
    ticking, \* what the running tick has yet to dispatch
    off      \* history: occurrences dispatched on a day their owner had not asked for

scheduleVars == <<sched, wanted, now, ticking, off>>
allVars == <<queueVars, checkVars, scheduleVars>>

Rows == {s \in ScheduleIds : sched[s] # None}

---------------------------------------------------------------------------
(* Occurrences *)

\* Weekdays are counted from 0, days of a month from 1.
OccursOn(plan, day) ==
    \/ plan.kind = "daily"
    \/ plan.kind = "weekly" /\ day % Week = plan.day
    \/ plan.kind = "monthly" /\ (day % Month) + 1 = plan.day

\* computeNextRun looks a week or some months ahead: None where there is no such day.
NextRun(plan, after) ==
    LET days == {d \in after + 1 .. after + Week + Month : OccursOn(plan, d)}
    IN IF days = {} THEN None ELSE Min(days)

\* The table has no columns for weekday and day of month; a row read back has 0 there.
Stored(plan) == [plan EXCEPT !.day = 0]

---------------------------------------------------------------------------
(* The owner *)

CreateSchedule(s, plan) ==
    /\ Asked /\ sched[s] = None
    /\ sched' = [sched EXCEPT ![s] = [enabled |-> TRUE, plan |-> Stored(plan), last |-> None,
                                      next |-> NextRun(plan, now)]]
    /\ wanted' = [wanted EXCEPT ![s] = plan]
    /\ UNCHANGED <<jobs, runner, up, outages, overran, checkVars, now, ticking, off>>

\* A day of month of 0, as a stored row has it, is refused.
Valid(plan) == plan.kind = "monthly" => plan.day # 0

\* With another plan, or with the one the row is read back with.
UpdateSchedule(s, plan, enabled) ==
    /\ Asked /\ s \in Rows /\ Valid(plan)
    /\ sched' = [sched EXCEPT ![s].enabled = enabled, ![s].plan = Stored(plan),
                              ![s].next = NextRun(plan, now)]
    /\ wanted' = [wanted EXCEPT ![s] = IF plan = sched[s].plan THEN @ ELSE plan]
    /\ UNCHANGED <<jobs, runner, up, outages, overran, checkVars, now, ticking, off>>

DeleteSchedule(s) ==
    /\ Asked /\ s \in Rows
    /\ sched' = [sched EXCEPT ![s] = None]
    /\ UNCHANGED <<jobs, runner, up, outages, overran, checkVars, wanted, now, ticking, off>>

\* A job without an occurrence and without a run: the handler seeds it.
RunNow(s, j) ==
    /\ Asked /\ s \in Rows
    /\ Enqueue(j, None)
    /\ UNCHANGED <<checkVars, scheduleVars>>

---------------------------------------------------------------------------
(* The tick *)

\* A plan without another day is pushed a day out.
Due(s) ==
    [id |-> s, occurrence |-> sched[s].next, sent |-> FALSE,
     next |-> IF NextRun(sched[s].plan, now) = None THEN now + 1
              ELSE NextRun(sched[s].plan, now)]

ListDue ==
    /\ up /\ ticking = {}
    /\ LET due == {s \in Rows : sched[s].enabled /\ sched[s].next <= now}
       IN due # {} /\ ticking' = {Due(s) : s \in due}
    /\ UNCHANGED <<queueVars, checkVars, sched, wanted, now, off>>

\* Mutant of Occupied: replays are not absorbed.
OccupiedNever(slot) == FALSE

\* The unique index over (schedule_id, scheduled_for).
Occupied(slot) == \E j \in JobIds : jobs[j].slot = slot /\ jobs[j].status \notin {"none", "purged"}

EnqueueOccurrence(e) ==
    /\ e \in ticking /\ ~e.sent
    /\ LET slot == <<e.id, e.occurrence>>
       IN /\ slot \in Slots
          /\ \/ Occupied(slot) /\ UNCHANGED queueVars
             \/ ~Occupied(slot) /\ \E j \in JobIds : Enqueue(j, slot) /\ UNCHANGED requests
    /\ ticking' = (ticking \ {e}) \cup {[e EXCEPT !.sent = TRUE]}
    /\ off' = IF OccursOn(wanted[e.id], e.occurrence) THEN off ELSE off \cup {e.occurrence}
    /\ UNCHANGED <<checkVars, sched, wanted, now>>

Ready(e) == e.sent

\* The row may have been changed or deleted since it was read.
AdvanceNextRun(e) ==
    /\ e \in ticking /\ Ready(e)
    /\ sched' = IF e.id \notin Rows THEN sched
                ELSE [sched EXCEPT ![e.id].next = e.next, ![e.id].last = e.occurrence]
    /\ ticking' = ticking \ {e}
    /\ UNCHANGED <<queueVars, checkVars, wanted, now, off>>

\* The enqueue failed: the row stays due.
SkipOccurrence(e) ==
    /\ e \in ticking /\ ~e.sent
    /\ ticking' = ticking \ {e}
    /\ UNCHANGED <<queueVars, checkVars, sched, wanted, now, off>>

DayPasses ==
    /\ now < MaxDay
    /\ now' = now + 1
    /\ UNCHANGED <<queueVars, checkVars, sched, wanted, ticking, off>>

---------------------------------------------------------------------------

Init ==
    /\ CheckInit
    /\ sched = [s \in ScheduleIds |-> None]
    /\ wanted = [s \in ScheduleIds |-> None]
    /\ now = 0 /\ ticking = {} /\ off = {}

\* A tick ends with its process.
NoTick ==
    /\ ticking' = {}
    /\ UNCHANGED <<sched, wanted, now, off>>

Owner ==
    \E s \in ScheduleIds :
        \/ \E plan \in Plans : CreateSchedule(s, plan)
        \/ s \in Rows /\ \E plan \in Plans \cup {sched[s].plan}, enabled \in BOOLEAN :
                             UpdateSchedule(s, plan, enabled)
        \/ DeleteSchedule(s)
        \/ \E j \in JobIds : RunNow(s, j)

Tick == ListDue \/ \E e \in ticking : EnqueueOccurrence(e) \/ AdvanceNextRun(e) \/ SkipOccurrence(e)

Next ==
    \/ Owner \/ Tick \/ DayPasses
    \/ CheckStep /\ UNCHANGED scheduleVars
    \/ (\E j \in JobIds : StartLinkCheck(j)) /\ UNCHANGED scheduleVars
    \/ NewProcess /\ NoTick

Spec == Init /\ [][Next]_allVars

\* Workers poll as long as the process is up, handlers come to an end, leases and backoffs
\* run out, the tick comes again, and somebody starts the process again.
Fairness ==
    /\ WF_allVars(~up /\ NewProcess /\ NoTick)
    /\ WF_allVars(RecoverExpiredLeases /\ UNCHANGED <<checkVars, scheduleVars>>)
    /\ WF_allVars(ListDue)
    /\ WF_allVars(\E e \in ticking : EnqueueOccurrence(e) \/ AdvanceNextRun(e))
    /\ \A j \in JobIds : WF_allVars((LeaseRunsOut(j) \/ BackoffEnds(j))
                                    /\ UNCHANGED <<checkVars, scheduleVars>>)
    /\ \A w \in Workers :
          /\ WF_allVars(HandlerStep(w) /\ UNCHANGED scheduleVars)
          /\ WF_allVars((ReadFlag(w) \/ Settle(w)) /\ UNCHANGED <<checkVars, scheduleVars>>)
          /\ WF_allVars((\E j \in JobIds : ClaimCheck(w, j)) /\ UNCHANGED scheduleVars)

FairSpec == Spec /\ Fairness

---------------------------------------------------------------------------
(* Properties *)

\* An occurrence that a schedule counts as run has its job, and no occurrence has two,
\* though the process may die between the two writes of a tick (Tick: "enqueue first,
\* advance second").
OccurrencesHaveOneJob ==
    /\ \A s \in Rows : sched[s].last # None =>
          \E j \in JobIds : jobs[j].slot = <<s, sched[s].last>>
    /\ \A i, j \in JobIds :
          jobs[i].slot # None /\ jobs[i].slot = jobs[j].slot
          /\ "purged" \notin {jobs[i].status, jobs[j].status} => i = j

\* Whatever is enqueued ends, through crashes, shutdowns and lost leases
\* (RecoverExpiredLeases, ScheduleRetry up to max_attempts).
EveryJobEnds ==
    \A j \in JobIds : jobs[j].status \in Waiting \cup {"running"}
                      ~> jobs[j].status \in Terminal \cup {"purged"}

\* A schedule runs on the days its owner asked for (the comments on Weekday and
\* DayOfMonth in Schedule).
RunsWhenPlanned == off = {}
=============================================================================
