-------------------------- MODULE Reconcile_proofs --------------------------
(***************************************************************************)
(* What TLAPS proves of a first reconciliation, for any trees, edits and   *)
(* backups: a binding is only active at the baseline of the epoch the      *)
(* space is in, at the revision its session has committed.                 *)
(*                                                                         *)
(* The plan, the steps and the trees stay closed: what matters of a plan   *)
(* is that it is a list of primitives, and of running it that no command   *)
(* touches the epoch.                                                      *)
(***************************************************************************)
EXTENDS Reconcile, WellFoundedInduction, TLAPS

Pending == binding.state = "pending_initial"

\* The columns of a session that its baseline is computed from.
Columns == {"state", "phase", "epoch", "rev", "committed", "commitRev"}

HasEpoch(space) == "epoch" \in DOMAIN space /\ space.epoch \in Nat \ {0}

\* A session is open, or will be when its plan is stored, while the binding waits for
\* it; and no plan is under way for a session that has committed or is completed.
SessionPending ==
    /\ Open(sess) \/ planning # None => Columns \subseteq DOMAIN sess /\ Pending
    /\ planning # None => client.known /\ ~sess.committed /\ sess.state # "completed"

\* A committed session is in the epoch and at the revision that were agreed, as long as
\* it is open: a restore closes it.
CommittedAgrees ==
    Open(sess) /\ sess.committed =>
        /\ sess.state = "running" /\ sess.phase = "committed"
        /\ agreed.epoch = sp.epoch /\ sess.epoch = sp.epoch /\ sess.commitRev = agreed.rev

\* An active binding is one whose session is completed, at what was agreed.
ActiveAgrees ==
    ~Pending =>
        /\ sess.state = "completed"
        /\ binding.epoch = sp.epoch /\ agreed.epoch = sp.epoch /\ binding.base = agreed.rev

IInv == HasEpoch(sp) /\ "known" \in DOMAIN client /\ SessionPending /\ CommittedAgrees /\ ActiveAgrees

---------------------------------------------------------------------------
(* Lemmas *)

\* Induction over the naturals, for a set in the place of a predicate.
LEMMA Induct ==
    ASSUME NEW T, 0 \in T, \A k \in Nat : k \in T => k + 1 \in T
    PROVE  Nat \subseteq T
<1>1. SUFFICES ASSUME Nat \ T # {} PROVE FALSE
  OBVIOUS
<1>2. PICK x \in Nat \ T : \A y \in Nat \ T : ~(<<y, x>> \in OpToRel(<, Nat))
  BY <1>1, WFMin, NatLessThanWellFounded
<1>3. \A y \in Nat \ T : ~(y < x)
  BY <1>2 DEF OpToRel
<1>4. x # 0
  OBVIOUS
<1>5. x - 1 \in Nat /\ x - 1 < x
  BY <1>4
<1>6. x - 1 \in T
  BY <1>3, <1>5
<1>7. (x - 1) + 1 = x
  OBVIOUS
<1>8. QED  BY <1>5, <1>6, <1>7

\* No command of the executor touches the epoch of the space.
LEMMA CommandKeepsEpoch ==
    ASSUME NEW space, NEW c, "epoch" \in DOMAIN space, c.op \in Kinds
    PROVE  "epoch" \in DOMAIN Ran(space, c) /\ Ran(space, c).epoch = space.epoch
<1> DEFINE out == Execute(space, c, None)
<1>1. "epoch" \in DOMAIN out /\ out.epoch = space.epoch
  <2>1. CASE c.op = "create"
    BY <2>1 DEF Execute, CreateNode, Journaled
  <2>2. CASE c.op = "update_title"
    BY <2>2 DEF Execute, UpdateNodeTitle, Journaled
  <2>3. CASE c.op = "update_url"
    BY <2>3 DEF Execute, UpdateNodeURL, Journaled
  <2>4. CASE c.op = "move"
    <3>1. out = MoveNode(space, c, None)
      BY <2>4 DEF Execute
    <3>2. CASE AlreadyInPlace(space, c)
      BY <3>1, <3>2 DEF MoveNode
    <3>3. CASE ~AlreadyInPlace(space, c)
      BY <3>1, <3>3 DEF MoveNode, Journaled
    <3>4. QED  BY <3>2, <3>3
  <2>5. CASE c.op = "delete"
    BY <2>5 DEF Execute, DeleteNode, Journaled
  <2>6. QED  BY <2>1, <2>2, <2>3, <2>4, <2>5 DEF Kinds
<1>2. Ran(space, c) = [out EXCEPT !.journal = <<>>, !.tomb = <<>>]
  BY DEF Ran
<1> HIDE DEF out
<1>3. QED  BY <1>1, <1>2

\* So a plan leaves the epoch as it was, however far it runs.
LEMMA PlanKeepsEpoch ==
    ASSUME NEW space, NEW plan, "epoch" \in DOMAIN space, Decodes(plan)
    PROVE  /\ "epoch" \in DOMAIN Result(space, plan).space
           /\ Result(space, plan).space.epoch = space.epoch
<1> DEFINE base == [ok |-> TRUE, space |-> space]
           run(st, op) == IF st.ok /\ CanExecute(st.space, op)
                          THEN [ok |-> TRUE, space |-> Ran(st.space, op)]
                          ELSE [st EXCEPT !.ok = FALSE]
           Rec(g, n) == g = [k \in 0 .. n |-> IF k = 0 THEN base ELSE run(g[k - 1], plan[k])]
           T == {n \in Nat : \E g : Rec(g, n)}
           Good(st) == /\ DOMAIN st = {"ok", "space"} /\ "epoch" \in DOMAIN st.space
                       /\ st.space.epoch = space.epoch
<1>0. Len(plan) \in Nat /\ \A k \in 1 .. Len(plan) : plan[k].op \in Kinds
  <2>1. plan \in Seq(Primitives)
    BY DEF Decodes
  <2>2. \A k \in 1 .. Len(plan) : plan[k] \in Primitives
    BY <2>1
  <2>3. QED  BY <2>1, <2>2 DEF Primitives
<1>1. 0 \in T
  <2>1. Rec([k \in 0 .. 0 |-> base], 0)
    OBVIOUS
  <2>2. QED  BY <2>1
<1>2. ASSUME NEW n \in Nat, n \in T PROVE n + 1 \in T
  <2>1. PICK g : Rec(g, n)
    BY <1>2
  <2> DEFINE h == [k \in 0 .. n + 1 |-> IF k = n + 1 THEN run(g[n], plan[n + 1]) ELSE g[k]]
  <2>2. ASSUME NEW k \in 0 .. n + 1
        PROVE  h[k] = IF k = 0 THEN base ELSE run(h[k - 1], plan[k])
    <3> HIDE DEF base, run
    <3>1. CASE k = n + 1
      BY <3>1
    <3>2. CASE k \in 0 .. n
      BY <3>2, <2>1
    <3>3. QED  BY <3>1, <3>2
  <2>3. Rec(h, n + 1)
    <3> HIDE DEF base, run
    <3> QED BY <2>2
  <2> HIDE DEF h, base, run
  <2>4. QED  BY <2>3
<1>3. Len(plan) \in T
  <2> HIDE DEF T
  <2> QED BY <1>0, <1>1, <1>2, Induct
<1> DEFINE after == CHOOSE g : Rec(g, Len(plan))
<1>4. Rec(after, Len(plan))
  BY <1>3
<1>5. Result(space, plan) = after[Len(plan)]
  BY DEF Result
<1> HIDE DEF after, T
<1>6. after[0] = base
  BY <1>0, <1>4
<1>7. ASSUME NEW k \in 1 .. Len(plan) PROVE after[k] = run(after[k - 1], plan[k])
  <2> HIDE DEF base, run
  <2> QED BY <1>0, <1>4
<1> DEFINE U == {n \in Nat : n <= Len(plan) => Good(after[n])}
<1>8. 0 \in U
  BY <1>6
<1>9. ASSUME NEW n \in Nat, n \in U PROVE n + 1 \in U
  <2>1. SUFFICES ASSUME n + 1 <= Len(plan) PROVE Good(after[n + 1])
    OBVIOUS
  <2>2. Good(after[n]) /\ plan[n + 1].op \in Kinds
    BY <1>0, <1>9, <2>1
  <2>3. after[n + 1] = run(after[n], plan[n + 1])
    <3> HIDE DEF base, run
    <3>1. n + 1 \in 1 .. Len(plan) /\ (n + 1) - 1 = n
      BY <1>0, <2>1
    <3>2. QED  BY <1>7, <3>1
  <2>4. "epoch" \in DOMAIN Ran(after[n].space, plan[n + 1])
        /\ Ran(after[n].space, plan[n + 1]).epoch = space.epoch
    BY <2>2, CommandKeepsEpoch
  <2>5. QED  BY <2>2, <2>3, <2>4
<1>10. Len(plan) \in U
  <2> HIDE DEF U
  <2> QED BY <1>0, <1>8, <1>9, Induct
<1>11. QED  BY <1>0, <1>5, <1>10
---------------------------------------------------------------------------
(* The inductive invariant *)

LEMMA InitEstablishes ==
    ASSUME Init, Type = "initial"
    PROVE  IInv
<1>1. HasEpoch(sp)
  BY DEF Init, HasEpoch, Space
<1>0. "known" \in DOMAIN client
  BY DEF Init, NoSession
<1>2. Pending /\ sess = None /\ planning = None
  BY DEF Init, Pending
<1>3. QED  BY <1>0, <1>1, <1>2 DEF IInv, SessionPending, CommittedAgrees, ActiveAgrees, Open

\* Freezing the server's side changes no column but the epoch and the revision.
LEMMA FreezingKeeps ==
    ASSUME NEW s, Columns \subseteq DOMAIN s
    PROVE  /\ Columns \subseteq DOMAIN Frozen(s)
           /\ Frozen(s).state = s.state /\ Frozen(s).committed = s.committed
BY DEF Frozen, Columns

\* What a step that touches no row does: the extension may forget or learn its session,
\* but not while a plan is computed for it.
LEMMA RowsUntouched ==
    ASSUME IInv, UNCHANGED <<sp, binding, sess, planning, agreed>>,
           "known" \in DOMAIN client', planning # None => client'.known
    PROVE  IInv'
BY DEF IInv, HasEpoch, SessionPending, CommittedAgrees, ActiveAgrees, Open, Pending

\* What a step of an open session that has not committed does, when it stays so.
LEMMA RowWritten ==
    ASSUME IInv, UNCHANGED <<sp, binding, agreed>>, Pending,
           Columns \subseteq DOMAIN sess', ~sess'.committed, sess'.state # "completed",
           "known" \in DOMAIN client', client'.known
    PROVE  IInv'
BY DEF IInv, HasEpoch, SessionPending, CommittedAgrees, ActiveAgrees, Open, Pending

LEMMA StepKeeps ==
    ASSUME IInv, [Next]_vars, Type = "initial"
    PROVE  IInv'
<1>0. "known" \in DOMAIN client /\ (planning # None => client.known)
      /\ (Open(sess) => Columns \subseteq DOMAIN sess /\ Pending)
      /\ (planning # None => Columns \subseteq DOMAIN sess /\ Pending
                            /\ ~sess.committed /\ sess.state # "completed")
      /\ (Open(sess) => sess.state # "completed")
  BY DEF IInv, SessionPending, Open
<1>1. CASE CreateSession
  <2>1. ~Open(sess) /\ Pending /\ planning = None
    BY <1>0, <1>1 DEF CreateSession, Pending
  <2>2. sess' = NewSession /\ UNCHANGED <<sp, binding, planning, client, agreed>>
    BY <1>1 DEF CreateSession
  <2>3. Columns \subseteq DOMAIN NewSession /\ ~NewSession.committed
    BY DEF Columns, NewSession
  <2>4. QED
    BY <1>0, <2>1, <2>2, <2>3
       DEF IInv, HasEpoch, SessionPending, CommittedAgrees, ActiveAgrees, Open, Pending
<1>2. CASE KeepSession
  BY <1>0, <1>2, RowsUntouched DEF KeepSession
<1>3. CASE SubmitSnapshot
  <2>1. Open(sess) /\ sess.phase = "collecting" /\ client.known
    BY <1>3 DEF SubmitSnapshot
  <2>2. /\ sess' = [sess EXCEPT !.client = Snapshot, !.phase = "snapshot_ready"]
        /\ client' = [client EXCEPT !.refs = Refs(browser)]
        /\ UNCHANGED <<sp, binding, agreed>>
    BY <1>3 DEF SubmitSnapshot
  <2>3. ~sess.committed
    BY <2>1 DEF IInv, CommittedAgrees
  <2>4. Columns \subseteq DOMAIN sess' /\ ~sess'.committed /\ sess'.state = sess.state
    BY <1>0, <2>1, <2>2, <2>3 DEF Columns
  <2>5. QED  BY <1>0, <2>1, <2>2, <2>4, RowWritten
<1>4. CASE CreateServerSnapshot
  <2>1. /\ Open(sess) /\ sess.phase = "snapshot_ready" /\ client.known /\ sess' = Frozen(sess)
        /\ UNCHANGED <<sp, binding, agreed, client>>
    BY <1>4 DEF CreateServerSnapshot
  <2>2. ~sess.committed
    BY <2>1 DEF IInv, CommittedAgrees
  <2>3. QED  BY <1>0, <2>1, <2>2, FreezingKeeps, RowWritten
<1>5. CASE Plan
  <2>1. /\ Open(sess) /\ sess.phase \in {"server_ready", "planned"} /\ client.known
        /\ sess' = IF Stale(sess) THEN Frozen(sess) ELSE sess
        /\ UNCHANGED <<sp, binding, agreed, client>>
    BY <1>5 DEF Plan
  <2>2. ~sess.committed
    BY <2>1 DEF IInv, CommittedAgrees
  <2>3. QED  BY <1>0, <2>1, <2>2, FreezingKeeps, RowWritten
<1>6. CASE Decide
  <2>1. /\ Open(sess) /\ sess.state = "waiting_user" /\ client.known
        /\ UNCHANGED <<sp, binding, sess, agreed, client>>
    BY <1>6 DEF Decide
  <2>2. ~sess.committed
    BY <2>1 DEF IInv, CommittedAgrees
  <2>3. QED  BY <1>0, <2>1, <2>2, RowWritten
<1>7. CASE StorePlan
  <2>1. planning # None /\ UNCHANGED <<sp, binding, agreed, client>>
    BY <1>7 DEF StorePlan
  <2>2. sess' = [sess EXCEPT !.plan = planning.plan, !.steps = planning.steps,
                            !.issues = planning.issues, !.desired = planning.desired,
                            !.phase = "planned",
                            !.state = IF DOMAIN planning.issues = {} THEN "running"
                                                                ELSE "waiting_user"]
    BY <1>7 DEF StorePlan
  <2>3. /\ Columns \subseteq DOMAIN sess' /\ ~sess'.committed
        /\ sess'.state \in {"running", "waiting_user"}
    BY <1>0, <2>1, <2>2 DEF Columns
  <2>4. QED  BY <1>0, <2>1, <2>3, RowWritten
<1>8. CASE Commit
  <2>1. /\ client.known /\ planning = None /\ Open(sess) /\ sess.state = "running"
        /\ ~PlanStale(sess) /\ Decodes(sess.plan)
        /\ sp' = Result(sp, sess.plan).space
        /\ sess' = [sess EXCEPT !.committed = TRUE, !.commitRev = sp'.rev, !.phase = "committed"]
        /\ UNCHANGED <<binding, planning, client>>
    BY <1>8 DEF Commit
  <2>2. agreed' = [tree |-> TreeOf(sp'), epoch |-> sp'.epoch, rev |-> sp'.rev]
    BY <1>8 DEF Commit
  <2>3. sess.epoch = sp.epoch
    BY <2>1 DEF PlanStale, Stale
  <2>4. HasEpoch(sp') /\ sp'.epoch = sp.epoch
    BY <2>1, PlanKeepsEpoch DEF IInv, HasEpoch
  <2>5. /\ Columns \subseteq DOMAIN sess' /\ sess'.state = "running" /\ sess'.epoch = sess.epoch
        /\ sess'.phase = "committed" /\ sess'.commitRev = sp'.rev
    BY <1>0, <2>1 DEF Columns
  <2>6. QED
    BY <1>0, <2>1, <2>2, <2>3, <2>4, <2>5
       DEF IInv, SessionPending, CommittedAgrees, ActiveAgrees, Pending
<1>9. CASE FetchSteps \/ ApplyStep \/ PassFails \/ Killed \/ KilledInStep \/ UserRemoves
  <2>1. UNCHANGED <<sp, binding, sess, planning, agreed>>
    BY <1>9 DEF FetchSteps, ApplyStep, PassFails, Killed, KilledInStep, UserRemoves
  <2>2. DOMAIN client' = DOMAIN client /\ client'.known = client.known
    BY <1>0, <1>9 DEF FetchSteps, ApplyStep, PassFails, Killed, KilledInStep, UserRemoves
  <2>3. QED  BY <1>0, <2>1, <2>2, RowsUntouched
<1>10. CASE Complete
  <2>1. /\ Open(sess) /\ sess.committed
        /\ sess' = [sess EXCEPT !.state = "completed", !.phase = ""]
        /\ binding' = [state |-> "active", epoch |-> sp.epoch, base |-> Baseline]
        /\ UNCHANGED <<sp, planning, agreed, client>>
    BY <1>10 DEF Complete
  <2>2. planning = None
    BY <1>0, <2>1
  <2>3. Baseline = agreed.rev /\ agreed.epoch = sp.epoch
    BY <2>1 DEF IInv, CommittedAgrees, Baseline
  <2>4. sess'.state = "completed"
    BY <1>0, <2>1 DEF Columns
  <2>5. QED
    BY <1>0, <2>1, <2>2, <2>3, <2>4
       DEF IInv, HasEpoch, SessionPending, CommittedAgrees, ActiveAgrees, Open, Pending
<1>11. CASE Finish
  <2>1. sess.state = "completed" /\ UNCHANGED <<sp, binding, sess, planning, agreed>>
        /\ client' = [NoSession EXCEPT !.done = TRUE]
    BY <1>11 DEF Finish
  <2>2. planning = None
    BY <2>1 DEF IInv, SessionPending
  <2>3. "known" \in DOMAIN client'
    BY <2>1 DEF NoSession
  <2>4. QED  BY <2>1, <2>2, <2>3, RowsUntouched
<1>12. CASE StartOver
  <2>1. sess.state = "failed" /\ planning = None /\ client' = NoSession
        /\ UNCHANGED <<sp, binding, sess, planning>>
    BY <1>12 DEF StartOver
  <2>2. "known" \in DOMAIN client' /\ ~Open(sess) /\ Pending
    BY <2>1 DEF NoSession, Open, IInv, ActiveAgrees
  <2>3. QED
    BY <2>1, <2>2
       DEF IInv, HasEpoch, SessionPending, CommittedAgrees, ActiveAgrees, Open, Pending
<1>13. CASE WebEdits
  <2>1. PICK c \in Edits : sp' = Ran(sp, c)
    BY <1>13 DEF WebEdits
  <2>2. HasEpoch(sp') /\ sp'.epoch = sp.epoch
    BY <2>1, CommandKeepsEpoch, EditsAreCommands DEF IInv, HasEpoch
  <2>3. UNCHANGED <<binding, sess, planning, client, agreed>>
    BY <1>13 DEF WebEdits
  <2>4. QED
    BY <1>0, <2>2, <2>3
       DEF IInv, SessionPending, CommittedAgrees, ActiveAgrees, Open, Pending
<1>14. CASE Restore
  <2>1. /\ sp' = Space(sp.epoch + 1, backup)
        /\ binding' = [state |-> "pending_initial", epoch |-> sp.epoch + 1, base |-> 0]
        /\ sess' = Superseded(sess) /\ UNCHANGED <<planning, client, agreed>>
    BY <1>14 DEF Restore
  <2>2. HasEpoch(sp') /\ Pending'
    BY <2>1 DEF IInv, HasEpoch, Space, Pending
  <2>3. CASE Open(sess)
    <3>1. sess' = [sess EXCEPT !.state = "failed", !.phase = ""]
      BY <2>1, <2>3 DEF Superseded
    <3>2. Columns \subseteq DOMAIN sess' /\ sess'.state = "failed" /\ sess'.committed = sess.committed
      BY <1>0, <2>3, <3>1 DEF Columns
    <3>3. QED
      BY <1>0, <2>1, <2>2, <3>2
         DEF IInv, SessionPending, CommittedAgrees, ActiveAgrees, Open
  <2>4. CASE ~Open(sess)
    <3>1. sess' = sess
      BY <2>1, <2>4 DEF Superseded
    <3>2. QED
      BY <1>0, <2>1, <2>2, <2>4, <3>1
         DEF IInv, SessionPending, CommittedAgrees, ActiveAgrees, Open
  <2>5. QED  BY <2>3, <2>4
<1>15. CASE UNCHANGED vars
  BY <1>0, <1>15, RowsUntouched DEF vars
<1>16. QED
  BY <1>1, <1>2, <1>3, <1>4, <1>5, <1>6, <1>7, <1>8, <1>9, <1>10, <1>11, <1>12, <1>13, <1>14,
     <1>15 DEF Next

---------------------------------------------------------------------------
(* The theorem *)

\* A first reconciliation makes a binding active only at the baseline of the epoch the
\* space is in and the revision that its own commit has led to, whatever restores, web
\* edits, deaths of the worker and plans stored late came in between (service.go,
\* Complete, and the store's restore of a baseline).
THEOREM ActiveBindingIsAtItsBaseline == Spec => []ActiveAtItsBaseline
<1>1. CASE Type = "initial"
  <2>1. Init => IInv
    BY <1>1, InitEstablishes
  <2>2. IInv /\ [Next]_vars => IInv'
    BY <1>1, StepKeeps
  <2>3. IInv => ActiveAtItsBaseline
    BY DEF IInv, HasEpoch, ActiveAgrees, ActiveAtItsBaseline, Pending
  <2>4. QED  BY <2>1, <2>2, <2>3, PTL DEF Spec
<1>2. CASE Type # "initial"
  <2>1. ActiveAtItsBaseline
    BY <1>2 DEF ActiveAtItsBaseline
  <2>2. QED  BY <2>1, PTL
<1>3. QED  BY <1>1, <1>2
=============================================================================
