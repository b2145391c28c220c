----------------------- MODULE BindingLifecycle_proofs -----------------------
(***************************************************************************)
(* That no trigger is forgotten, for any number of edits, faults, kills    *)
(* and sessions, the dead ends included: who joins a pass, captures an     *)
(* edit or finds the run lock taken is served by a sweep to come.          *)
(***************************************************************************)
EXTENDS BindingLifecycle, TLAPS

\* What the EXCEPTs of a flow rely on.
Shaped(fl) ==
    /\ fl = [f \in Flows |-> fl[f]]
    /\ \A f \in Flows : "at" \in DOMAIN fl[f]

OwesInv == Shaped(flow) /\ OwesNothing

\* A pass is over by the end of its last sweep only.
GoesOn == Shaped(flow') /\ (flow'["pass"].at = "idle" => flow["pass"].at = "idle")

\* A flow that is sent to a place other than idle, or is a message, does not end a pass.
LEMMA SentOn ==
  ASSUME Shaped(flow), NEW f \in Flows, NEW r, "at" \in DOMAIN r,
         f = "pass" => r.at # "idle", flow' = [flow EXCEPT ![f] = r]
  PROVE  GoesOn
  BY DEF Shaped, GoesOn, Flows

LEMMA AtPhase ==
  ASSUME Shaped(flow), NEW f \in Flows, NEW at, flow' = At(f, at), f = "pass" => at # "idle"
  PROVE  GoesOn
<1> DEFINE r == [NoFlow EXCEPT !.at = at]
<1>1. r.at = at /\ "at" \in DOMAIN r
  BY DEF NoFlow
<1>2. flow' = [flow EXCEPT ![f] = r]
  BY DEF At
<1> HIDE DEF r
<1> QED
  BY <1>1, <1>2, SentOn

\* What follows a part of the pass is the next part.
LEMMA FollowingIsPart ==
  ASSUME NEW from, NEW outcome
  PROVE  Following("pass", from, outcome) # "idle"
  BY DEF Following

LEMMA LeavesGoesOn ==
  ASSUME Shaped(flow), NEW f \in Flows, NEW from, NEW outcome, Leaves(f, from, outcome)
  PROVE  GoesOn
  BY AtPhase, FollowingIsPart DEF Leaves

LEMMA DrivesGoesOn ==
  ASSUME Shaped(flow), NEW f \in Flows, NEW from, NEW s, Drives(f, from, s)
  PROVE  GoesOn
<1> DEFINE r == [NoFlow EXCEPT !.at = "round", !.from = from, !.s = s]
<1>1. r.at = "round" /\ "at" \in DOMAIN r
  BY DEF NoFlow
<1>2. flow' = [flow EXCEPT ![f] = r]
  BY DEF Drives
<1> HIDE DEF r
<1> QED
  BY <1>1, <1>2, SentOn

\* A round of sync is under way.
LEMMA PostsGoesOn ==
  ASSUME Shaped(flow), NEW f \in Flows, NEW from, NEW sent,
         flow' = [flow EXCEPT ![f] = [NoFlow EXCEPT !.at = "post", !.from = from,
                                                    !.sent = sent]]
  PROVE  GoesOn
<1> DEFINE r == [NoFlow EXCEPT !.at = "post", !.from = from, !.sent = sent]
<1>1. r.at = "post" /\ "at" \in DOMAIN r
  BY DEF NoFlow
<1>2. flow' = [flow EXCEPT ![f] = r]
  OBVIOUS
<1> HIDE DEF r
<1> QED
  BY <1>1, <1>2, SentOn

LEMMA DriveRecoveryGoesOn ==
  ASSUME Shaped(flow), NEW f \in Flows, NEW from, NEW rows, DriveRecovery(f, from, rows)
  PROVE  GoesOn
  BY LeavesGoesOn, DrivesGoesOn DEF DriveRecovery

LEMMA FailsGoesOn ==
  ASSUME Shaped(flow), NEW f \in Flows, NEW code, Fails(f, code)
  PROVE  GoesOn
  BY LeavesGoesOn, DriveRecoveryGoesOn DEF Fails

\* A pass that takes up a session goes on whatever state the session is in.
LEMMA TakesUpGoesOn ==
  ASSUME Shaped(flow), NEW f \in Flows, NEW s, NEW seen, TakesUp(f, s, seen)
  PROVE  GoesOn
<1>1. CASE flow' = [flow EXCEPT ![f].at = "finish", ![f].s = s]
  BY <1>1 DEF Shaped, GoesOn, Flows
<1>2. CASE flow' = [flow EXCEPT ![f].at = "call", ![f].s = s, ![f].saw = seen.phase]
  BY <1>2 DEF Shaped, GoesOn, Flows
<1>3. CASE \E from, outcome : Leaves(f, from, outcome)
  BY <1>3, LeavesGoesOn
<1> QED
  BY <1>1, <1>2, <1>3 DEF TakesUp

LEMMA AnsweredGoesOn ==
  ASSUME Shaped(flow), NEW f \in Flows, Answered(f)
  PROVE  GoesOn
<1> PICK r \in Results(f) :
      IF r.code # "ok" THEN Fails(f, r.code)
      ELSE IF flow[f].at # "post" THEN Proceeds(f, r)
      ELSE Leaves(f, flow[f].from, "synced")
  BY DEF Answered
<1>1. CASE Proceeds(f, r) /\ flow[f].at # "post"
  <2>1. flow[f].at \in {"round", "call", "complete", "decide"}
    BY <1>1 DEF Answered, Calling
  <2>2. CASE flow[f].at = "round"
    BY <1>1, <2>2, TakesUpGoesOn DEF Proceeds
  <2>3. CASE flow[f].at = "call"
    BY <1>1, <2>3 DEF Proceeds, Shaped, GoesOn, Flows
  <2>4. CASE flow[f].at = "complete"
    BY <1>1, <2>4 DEF Proceeds, Shaped, GoesOn, Flows
  <2>5. CASE flow[f].at = "decide"
    BY <1>1, <2>5, DrivesGoesOn DEF Proceeds
  <2> QED
    BY <2>1, <2>2, <2>3, <2>4, <2>5
<1> QED
  BY <1>1, LeavesGoesOn, FailsGoesOn

\* The steps of a flow, and what cuts its requests short, leave the pass to its sweep.
LEMMA FlowStepGoesOn ==
  ASSUME Shaped(flow), NEW f \in Flows, Step(f) \/ RequestLost(f) \/ AnswerLost(f)
  PROVE  GoesOn
<1>1. CASE Answered(f)
  BY <1>1, AnsweredGoesOn
<1>2. CASE Finish(f)
  BY <1>2, LeavesGoesOn DEF Finish
<1>3. CASE Recover(f)
  BY <1>3, AtPhase, FollowingIsPart DEF Recover, AttemptRecovery
<1>4. CASE RunFullResync(f)
  BY <1>4, AtPhase, FollowingIsPart, DrivesGoesOn DEF RunFullResync
<1>5. CASE Quiesce(f)
  BY <1>5, AtPhase, PostsGoesOn DEF Quiesce
<1>6. CASE Verify(f)
  BY <1>6, AtPhase, FollowingIsPart DEF Verify
<1>7. CASE RequestLost(f) \/ AnswerLost(f)
  BY <1>7, FailsGoesOn DEF RequestLost, AnswerLost
<1> QED
  BY <1>1, <1>2, <1>3, <1>4, <1>5, <1>6, <1>7 DEF Step

\* So do the messages of the user.
LEMMA MessageGoesOn ==
  ASSUME Shaped(flow),
         Answer \/ Review \/ ResolveIntents \/ Remount \/ RecoverMapping
  PROVE  GoesOn
<1>1. "message" \in Flows
  BY DEF Flows
<1>2. CASE Answer
  <2> DEFINE r == [NoFlow EXCEPT !.at = "decide", !.from = "answer", !.s = ActiveReconSession]
  <2>1. "at" \in DOMAIN r
    BY DEF NoFlow
  <2>2. flow' = [flow EXCEPT !["message"] = r]
    BY <1>2 DEF Answer
  <2> HIDE DEF r
  <2> QED
    BY <1>1, <2>1, <2>2, SentOn
<1>3. CASE Review
  <2> PICK kept \in SUBSET ops :
        flow' = [flow EXCEPT !["message"] = [NoFlow EXCEPT !.at = "resolve", !.sent = kept]]
    BY <1>3 DEF Review
  <2> DEFINE r == [NoFlow EXCEPT !.at = "resolve", !.sent = kept]
  <2>1. "at" \in DOMAIN r
    BY DEF NoFlow
  <2>2. flow' = [flow EXCEPT !["message"] = r]
    OBVIOUS
  <2> HIDE DEF r
  <2> QED
    BY <1>1, <2>1, <2>2, SentOn
<1>4. CASE ResolveIntents
  BY <1>1, <1>4, AtPhase DEF ResolveIntents
<1>5. CASE Remount \/ RecoverMapping
  BY <1>1, <1>5, DriveRecoveryGoesOn DEF Remount, RecoverMapping
<1> QED
  BY <1>2, <1>3, <1>4, <1>5

---------------------------------------------------------------------------
(* The invariant *)

LEMMA InitOwes == Init => OwesInv
<1> SUFFICES ASSUME Init PROVE OwesInv
  OBVIOUS
<1>1. Shaped(flow)
  BY DEF Init, Shaped, NoFlow
<1>2. OwesNothing
  BY DEF Init, OwesNothing
<1> QED
  BY <1>1, <1>2 DEF OwesInv

\* Who leaves triggers, timer and worker alone leaves what is owed.
LEMMA OwesKept ==
  ASSUME OwesInv, GoesOn, unseen' = unseen, awake' = awake, rerun' = rerun, timer => timer'
  PROVE  OwesInv'
  BY DEF OwesInv, OwesNothing, GoesOn, Idle

\* A step keeps the invariant.
LEMMA OwesPreserved ==
  ASSUME OwesInv, [Next]_vars
  PROVE  OwesInv'
<1> Shaped(flow) /\ "pass" \in Flows
  BY DEF OwesInv, Flows
<1> USE DEF history, store, memory
<1>1. ASSUME NEW f \in Flows, Step(f) \/ RequestLost(f) \/ AnswerLost(f)
      PROVE  OwesInv'
  <2>1. unseen' = unseen /\ awake' = awake /\ rerun' = rerun /\ timer' = timer
    BY <1>1 DEF Step, Answered, Finish, Recover, RunFullResync, Quiesce, Verify, RequestLost,
                AnswerLost
  <2> QED
    BY <1>1, <2>1, FlowStepGoesOn, OwesKept
<1>2. CASE Answer \/ Review \/ ResolveIntents \/ Remount \/ RecoverMapping
  <2>1. unseen' = unseen /\ awake' = awake /\ rerun' = rerun /\ timer' = timer
    BY <1>2 DEF Answer, Review, ResolveIntents, Remount, RecoverMapping
  <2> QED
    BY <1>2, <2>1, MessageGoesOn, OwesKept
<1>3. CASE RunBinding \/ ResumeRecovery \/ SyncAll
  <2>1. unseen' = unseen /\ awake' = awake /\ rerun' = rerun
    BY <1>3 DEF RunBinding, ResumeRecovery, SyncAll
  <2>2. GoesOn
    BY <1>3, AtPhase, DrivesGoesOn, PostsGoesOn DEF RunBinding, ResumeRecovery, SyncAll
  <2>3. ASSUME timer PROVE timer'
    <3>1. CASE SyncAll
      BY <2>3, <3>1, Zenon DEF SyncAll
    <3>2. CASE RunBinding \/ ResumeRecovery
      BY <2>3, <3>2 DEF RunBinding, ResumeRecovery
    <3> QED
      BY <1>3, <3>1, <3>2
  <2> QED
    BY <2>1, <2>2, <2>3, OwesKept
<1>4. CASE Begins /\ rerun' = FALSE /\ unseen' = FALSE
  <2>1. Shaped(flow')
    BY <1>4, AtPhase DEF Begins, GoesOn
  <2> QED
    BY <1>4, <2>1 DEF OwesInv, OwesNothing
<1>5. CASE SweepEnds
  <2>1. CASE rerun
    <3>1. GoesOn
      BY <1>5, <2>1, AtPhase DEF SweepEnds
    <3> QED
      BY <1>5, <2>1, <3>1 DEF SweepEnds, OwesInv, OwesNothing, GoesOn
  <2>2. CASE ~rerun
    <3>1. Shaped(flow')
      BY <1>5, <2>2 DEF SweepEnds, At, NoFlow, Shaped
    <3> QED
      BY <1>5, <2>2, <3>1 DEF SweepEnds, OwesInv, OwesNothing
  <2> QED
    BY <2>1, <2>2
<1>6. CASE TimerFires \/ ManualSync
  <2>1. CASE Idle("pass")
    BY <1>4, <1>6, <2>1 DEF TimerFires, ManualSync, RunSync, Begins
  <2>2. CASE ~Idle("pass")
    BY <1>6, <2>2 DEF TimerFires, ManualSync, RunSync, OwesInv, OwesNothing, Idle
  <2> QED
    BY <2>1, <2>2
<1>7. CASE Alarm \/ Wake
  BY <1>4, <1>7 DEF Alarm, Wake, Begins
<1>8. CASE Capture
  BY <1>8 DEF Capture, OwesInv, OwesNothing
<1>9. CASE Restore \/ Unbind \/ UnbindLost \/ Pair \/ BindSpace \/ MountRemoved
  <2>1. UNCHANGED memory /\ unseen' = unseen
    BY <1>9 DEF Restore, Unbind, UnbindLost, Pair, BindSpace, MountRemoved, PutBackBehind
  <2> QED
    BY <2>1 DEF OwesInv, OwesNothing, Idle
<1>10. ASSUME Dies PROVE OwesInv'
  BY <1>10 DEF Dies, OwesInv, OwesNothing, Shaped, NoFlow
<1>11. ASSUME NEW f \in Flows, KilledInCall(f) \/ KilledBetweenWrites(f) PROVE OwesInv'
  BY <1>10, <1>11 DEF KilledInCall, KilledBetweenWrites
<1>12. CASE Killed
  BY <1>10, <1>12 DEF Killed
<1>13. CASE UNCHANGED vars
  BY <1>13 DEF vars, OwesInv, OwesNothing, Idle
<1> QED
  BY <1>1, <1>2, <1>3, <1>5, <1>6, <1>7, <1>8, <1>9, <1>11, <1>12, <1>13
     DEF Next, PassStep

\* Whatever was captured or asked for since the last sweep began has a timer, another sweep
\* of the pass in flight or the next worker's coming (workerLoop.ts:46-52, 168-177): for
\* any number of faults and kills, whichever dead ends are left out.
THEOREM TriggersAreServed == Spec => []OwesNothing
<1>1. Init => OwesInv
  BY InitOwes
<1>2. OwesInv /\ [Next]_vars => OwesInv'
  BY OwesPreserved
<1>3. OwesInv => OwesNothing
  BY DEF OwesInv
<1> QED
  BY <1>1, <1>2, <1>3, PTL DEF Spec
=============================================================================
