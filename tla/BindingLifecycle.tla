-------------------------- MODULE BindingLifecycle --------------------------
(***************************************************************************)
(* One binding of the extension from its pairing on: the passes of the     *)
(* worker loop, the run lock, the reconciliation sessions the device and   *)
(* the server each keep, the review of unsent edits, and the messages that *)
(* run beside a pass (workerLoop.ts, initialReconcile.ts, resync.ts,       *)
(* syncCoordinator.ts).  Requests and answers get lost, the worker is      *)
(* killed, a backup is restored, the user edits, removes the folder, and   *)
(* unbinds, pairs and binds again (pairing.ts, the server's device         *)
(* service).                                                               *)
(*                                                                         *)
(* This is the control: which call is made next, what its failure leaves   *)
(* behind, who picks that up.  Reconcile has the trees and the plans,      *)
(* SyncRound the rounds.  The mount is partial and sync switched on.       *)
(*                                                                         *)
(* Reads and writes of the local store that follow each other with nothing *)
(* between them but the store are one step; KilledBetweenWrites tears the  *)
(* three that are two transactions.                                        *)
(***************************************************************************)
EXTENDS Integers, FiniteSets, FiniteSetsExt

CONSTANTS
    MaxEdits,   \* bound on the captured edits
    MaxFaults,  \* bound on lost requests and answers, refusals, restores and the like
    MaxKills,   \* bound on the workers killed
    Sids,       \* ids of server sessions
    Avoided,    \* the ways into a dead end this instance leaves out, of DeadEnds
    None

\* The ways by which a binding can get where no trigger gets it out of.
DeadEnds == {"decision lost", "review torn", "restore at a question", "pending recovery",
             "mapping refused", "mount lost at work", "session left open",
             "recovery beside a pass", "unbound at work", "foreign replica"}

ASSUME AvoidedAssumption == Avoided \subseteq DeadEnds

Flows == {"pass", "message"}

VARIABLES
    binding,   \* the binding's state in the local store, "none" while there is no such row
    sessions,  \* the open reconSessions rows, RUNNING or WAITING_USER
    ops,       \* the client_seq of the captured edits the server has not answered
    seq,       \* the last client_seq given out
    mounted,   \* the mount folder is there
    lock,      \* who holds the run lock
    server,    \* the server's binding state, its client_seq and receipts, and reconciliations
    flow,      \* where the pass and the message in progress are
    timer,     \* a debounced sync is scheduled
    rerun,     \* the pass in flight owes another sweep
    awake,     \* there is a worker
    unseen,    \* history: an edit was captured, a sync asked for, since the last sweep began
    captured,  \* history: the edits so far
    faults,    \* history: the faults so far
    kills      \* history: the workers killed

store == <<binding, sessions, ops, seq, mounted, lock>>
memory == <<flow, timer, rerun, awake>>
history == <<unseen, captured, faults, kills>>
vars == <<store, server, memory, history>>

\* The server's row of a binding just made.
NewRow ==
    [state |-> "pending_initial", max |-> 0, known |-> {}, sess |-> [i \in Sids |-> None]]

NoFlow == [at |-> "idle", from |-> None, s |-> None, saw |-> None, sent |-> {}]

Init ==
    /\ binding = "pending_initial" /\ sessions = {} /\ ops = {} /\ seq = 0
    /\ mounted = TRUE /\ lock = None
    /\ server = NewRow
    /\ flow = [f \in Flows |-> NoFlow]
    /\ timer = FALSE /\ rerun = FALSE /\ awake = FALSE
    /\ unseen = TRUE /\ captured = 0 /\ faults = 0 /\ kills = 0

Fault(n) == faults + n <= MaxFaults /\ faults' = faults + n
Idle(f) == flow[f].at = "idle"

\* An update of the binding's row: none of a row that is gone.
Becomes(state) == binding' = IF binding = "none" THEN "none" ELSE state

\* A recovery takes no run lock: a pass beside it drives the same session.
Apart(f) ==
    "recovery beside a pass" \in Avoided =>
        \A g \in Flows \ {f} : Idle(g) \/ flow[g].from = "answer"

---------------------------------------------------------------------------
(* The local sessions *)

\* Running before waiting, then by key: a review's begins with the binding's id, which
\* is older than any session's.
Before(s, t) ==
    \/ s.state = "RUNNING" /\ t.state = "WAITING_USER"
    \/ s.state = t.state /\ s.driver = "client" /\ t.driver = "server"
    \/ s.state = t.state /\ s.driver = t.driver /\ s.id < t.id

ActiveIn(S) == IF S = {} THEN None ELSE CHOOSE s \in S : \A t \in S \ {s} : Before(s, t)
ActiveReconSession == ActiveIn(sessions)

Held == sessions \cup ({flow[f].s : f \in Flows} \ {None})

\* A row with a new key, above those in use.
NewSession(driver, type, state) ==
    [id |-> 1 + Max({0} \cup {s.id : s \in Held}),
     driver |-> driver, type |-> type, state |-> state, sid |-> None, reviewed |-> FALSE]

Without(s) == {t \in sessions : t.id # s.id}

\* Writes the whole row: a copy read earlier brings back what it was.
Touch(s) == Without(s) \cup {s}

\* The binding follows the session.
StateOf(s) == IF s.type = "FULL_RESYNC" THEN "resyncing" ELSE "initializing"

---------------------------------------------------------------------------
(* The server's side of each call *)

OpenSids == {i \in Sids : server.sess[i] # None
                          /\ server.sess[i].state \in {"running", "waiting_user"}}

FreshSid == CHOOSE i \in Sids : i \notin OpenSids \cup {s.sid : s \in Held}

Ok(srv, i) == [srv |-> srv, code |-> "ok", sid |-> i, cost |-> 0]
Refused(code) == [srv |-> server, code |-> code, sid |-> None, cost |-> 0]
AtCost(n, r) == [r EXCEPT !.cost = n]

\* The session i with a new phase and state.
Moved(i, phase, state) ==
    Ok([server EXCEPT !.sess[i].phase = phase, !.sess[i].state = state], i)

Eligible(type) == (type = "INITIAL") <=> (server.state = "pending_initial")

\* Mutant of Create: the refusal is not taken for the sound of an orphan.
CreateOnce(type) ==
    IF ~Eligible(type) THEN {Refused("BINDING_NOT_ELIGIBLE")}
    ELSE IF OpenSids # {} THEN {Refused("RECONCILIATION_IN_PROGRESS")}
    ELSE {Ok([server EXCEPT !.sess[FreshSid] =
                 [type |-> type, phase |-> "collecting", state |-> "running"]], FreshSid)}

\* One session is open at most; one of the same type that already is gets adopted.
Create(type) ==
    IF ~Eligible(type) THEN {Refused("BINDING_NOT_ELIGIBLE")}
    ELSE IF OpenSids # {}
    THEN {IF server.sess[i].type = type THEN Ok(server, i)
          ELSE Refused("RECONCILIATION_IN_PROGRESS") : i \in OpenSids}
    ELSE {Ok([server EXCEPT !.sess[FreshSid] =
                 [type |-> type, phase |-> "collecting", state |-> "running"]], FreshSid)}

Ensure(s) == IF s.sid = None THEN Create(s.type) ELSE {Ok(server, s.sid)}

\* Only a session matched by content has questions.
Planned(i) ==
    {Moved(i, "planned", "running")} \cup
    (IF server.sess[i].type = "FULL_RESYNC" THEN {} ELSE {Moved(i, "planned", "waiting_user")})

\* The snapshot calls name the binding, and reach the session open on it.
Submit(s) ==
    IF ~mounted \/ \A i \in OpenSids : server.sess[i].phase # "collecting"
    THEN {Refused("RECONCILIATION_PHASE_INVALID")}
    ELSE {Moved(i, "snapshot_ready", "running") : i \in OpenSids} \cup
         (IF s.type = "FULL_RESYNC" /\ "mapping refused" \notin Avoided
          THEN {AtCost(1, Refused("CLIENT_SNAPSHOT_INVALID"))} ELSE {})

Freeze ==
    IF \A i \in OpenSids : server.sess[i].phase = "collecting"
    THEN {Refused("RECONCILIATION_PHASE_INVALID")}
    ELSE {IF server.sess[i].phase = "snapshot_ready" THEN Moved(i, "server_ready", "running")
          ELSE Ok(server, i) : i \in OpenSids}

InPhase(i, phases) == i \in OpenSids /\ server.sess[i].phase \in phases

Plan(i) == IF InPhase(i, {"server_ready", "planned"}) THEN Planned(i)
           ELSE {Refused("RECONCILIATION_PHASE_INVALID")}

\* A stale plan is planned again, once more round of the session.
Commit(i) ==
    IF InPhase(i, {"planned"})
    THEN {Moved(i, "committed", server.sess[i].state)}
         \cup {AtCost(1, r) : r \in Planned(i)}
    ELSE {Refused("RECONCILIATION_PHASE_INVALID")}

\* The steps are fetched, applied and verified.
Apply(i) == {AtCost(1, Refused("not satisfied"))}
            \cup (IF mounted THEN {Ok(server, i)} ELSE {Refused("no mount")})

Complete(i) ==
    LET s == server.sess[i] IN
    IF s.state = "completed" THEN {Ok(server, i)}
    ELSE IF s.state = "failed" THEN {Refused("RECONCILIATION_SUPERSEDED")}
    ELSE {Ok([server EXCEPT !.state = "active", !.sess[i].state = "completed"], i)}

Decide(i) ==
    IF server.sess[i].state = "waiting_user"
    THEN {Moved(i, "planned", "running"), AtCost(1, Moved(i, "planned", "waiting_user"))}
    ELSE {Refused("RECONCILIATION_PHASE_INVALID")}

\* An operation without a receipt needs a client_seq above those spent.
Regressed(sent) == \E n \in sent \ server.known : n <= server.max

\* A round of sync: what ends it for good, and what the journal no longer allows.
Sync(sent) ==
    IF server.state # "active" \/ (sent # {} /\ OpenSids # {}) \/ Regressed(sent)
    THEN {Refused("terminal")}
    ELSE {Ok([server EXCEPT !.max = Max({@} \cup sent), !.known = sent], None),
          AtCost(1, Refused("terminal"))}

\* What the server may do with the request the flow is about to make.
Results(f) ==
    LET at == flow[f].at
        s  == flow[f].s
        theirs == s # None /\ s.sid # None /\ server.sess[s.sid] = None
    IN  CASE server.state = "foreign" \/ theirs ->
               {Refused(IF at = "post" THEN "terminal" ELSE "NOT_BINDING_OWNER")}
          [] at = "round" -> Ensure(s)
          [] at = "call" /\ flow[f].saw = "collecting" -> Submit(s)
          [] at = "call" /\ flow[f].saw = "snapshot_ready" -> Freeze
          [] at = "call" /\ flow[f].saw = "server_ready" -> Plan(s.sid)
          [] at = "call" /\ flow[f].saw = "planned" -> Commit(s.sid)
          [] at = "call" /\ flow[f].saw = "committed" -> Apply(s.sid)
          [] at = "complete" -> Complete(s.sid)
          [] at = "decide" -> Decide(s.sid)
          [] at = "post" -> Sync(flow[f].sent)

Calling(f) == flow[f].at \in {"round", "call", "complete", "decide", "post"}
---------------------------------------------------------------------------
(* A session is driven: one call a round, until it waits, ends or fails *)

\* Where a flow goes on when the part of it called `from` is over.
Following(f, from, outcome) ==
    CASE from = "reconcile" -> "resume"
      [] from = "resume" -> "sync"
      [] from = "sync" -> "recover"
      [] from = "quiesce" -> "verify"
      [] from \in {"resync", "fallback"} /\ outcome = "completed" -> "quiesce"
      [] OTHER -> IF f = "pass" THEN "sweep" ELSE "idle"

At(f, at) == [flow EXCEPT ![f] = [NoFlow EXCEPT !.at = at]]

\* The part of f in progress ends, and with it its hold of the run lock.
Leaves(f, from, outcome) ==
    /\ flow' = At(f, Following(f, from, outcome))
    /\ lock' = IF lock = f THEN None ELSE lock

Drives(f, from, s) ==
    /\ flow' = [flow EXCEPT ![f] = [NoFlow EXCEPT !.at = "round", !.from = from, !.s = s]]

\* Joins the session that is open, if a lifecycle opened it, or opens one; rows are
\* the open ones.
DriveRecovery(f, from, rows) ==
    LET a == ActiveIn(rows)
        s == NewSession("server", "MAPPING_LOST", "RUNNING")
    IN  IF binding = "none"
        THEN sessions' = rows /\ Leaves(f, from, "error") /\ UNCHANGED binding
        ELSE IF a = None
        THEN /\ sessions' = rows \cup {s} /\ binding' = "initializing"
             /\ Drives(f, from, s)
             /\ UNCHANGED lock
        ELSE IF a.driver = "server" /\ a.state = "RUNNING"
        THEN /\ binding' = StateOf(a)
             /\ Drives(f, from, a)
             /\ sessions' = rows /\ UNCHANGED lock
        ELSE /\ binding' = IF from = "fallback" /\ a.driver = "client"
                           THEN "needs_recovery" ELSE binding
             /\ Leaves(f, from, "waiting_user")
             /\ sessions' = rows

\* What an exception leaves behind.  Only a resync has handlers: a mapping that is refused
\* is matched again.
Fails(f, code) ==
    LET from == flow[f].from IN
    IF from = "resync" /\ code = "CLIENT_SNAPSHOT_INVALID"
    THEN DriveRecovery(f, "fallback", Without(flow[f].s))
    ELSE /\ sessions' = IF from = "resync" /\ code = "BINDING_NOT_ELIGIBLE"
                        THEN Without(flow[f].s) ELSE sessions
         /\ Becomes(IF from = "resync" /\ code = "BINDING_NOT_ELIGIBLE" THEN "pending_initial"
                    ELSE IF from \in {"resync", "fallback"} \/ code = "terminal"
                    THEN "needs_recovery" ELSE binding)
         /\ Leaves(f, from, code)

\* The session as it was read decides.
TakesUp(f, s, seen) ==
    CASE seen.state = "completed" ->
            /\ sessions' = Touch(s)
            /\ flow' = [flow EXCEPT ![f].at = "finish", ![f].s = s]
            /\ UNCHANGED <<binding, lock>>
      [] seen.state = "failed" ->
            /\ sessions' = Without(s) /\ Becomes("needs_recovery")
            /\ Leaves(f, flow[f].from, "failed")
      [] seen.state = "waiting_user" ->
            /\ sessions' = Touch([s EXCEPT !.state = "WAITING_USER"])
            /\ Becomes("waiting_user")
            /\ Leaves(f, flow[f].from, "waiting_user")
      [] OTHER ->
            /\ sessions' = Touch(s)
            /\ flow' = [flow EXCEPT ![f].at = "call", ![f].s = s, ![f].saw = seen.phase]
            /\ UNCHANGED <<binding, lock>>

\* The answer r to a call other than a sync.
Proceeds(f, r) ==
    LET s == flow[f].s IN
    CASE flow[f].at = "round" -> TakesUp(f, [s EXCEPT !.sid = r.sid], r.srv.sess[r.sid])
      [] flow[f].at = "call" ->
            /\ flow' = [flow EXCEPT ![f].at =
                           IF flow[f].saw = "committed" THEN "complete" ELSE "round"]
            /\ UNCHANGED <<binding, sessions, lock>>
      [] flow[f].at = "complete" ->
            /\ flow' = [flow EXCEPT ![f].at = "finish"]
            /\ UNCHANGED <<binding, sessions, lock>>
      [] flow[f].at = "decide" ->
            /\ sessions' = Touch([s EXCEPT !.state = "RUNNING"])
            /\ Becomes(StateOf(s))
            /\ Drives(f, "answer", [s EXCEPT !.state = "RUNNING"])
            /\ UNCHANGED lock

Answered(f) ==
    /\ Calling(f)
    /\ \E r \in Results(f) :
        /\ Fault(r.cost) /\ server' = r.srv
        /\ IF r.code # "ok" THEN Fails(f, r.code) /\ ops' = ops
           ELSE IF flow[f].at # "post" THEN Proceeds(f, r) /\ ops' = ops
           ELSE /\ ops' = ops \ flow[f].sent
                /\ Leaves(f, flow[f].from, "synced")
                /\ UNCHANGED <<binding, sessions>>
    /\ UNCHANGED <<seq, mounted, timer, rerun, awake, unseen, captured, kills>>

\* A session that is not an initial one was opened here and never on the server.
Uncreated == \E s \in sessions : s.driver = "server" /\ s.sid = None /\ s.type # "INITIAL"

\* The server would refuse to create it, and only resyncFromServer copes with that.
Creatable == "pending recovery" \in Avoided => ~Uncreated \/ server.state = "active"

RequestLost(f) ==
    /\ Calling(f) /\ Fault(1) /\ Fails(f, "network") /\ Creatable
    /\ UNCHANGED <<ops, seq, mounted, server, timer, rerun, awake, unseen, captured, kills>>

AnswerLost(f) ==
    /\ Calling(f) /\ Fault(1) /\ Fails(f, "network")
    /\ "decision lost" \in Avoided => flow[f].at # "decide"
    /\ \E r \in Results(f) : r.cost = 0 /\ r.srv # server /\ server' = r.srv
    /\ UNCHANGED <<ops, seq, mounted, timer, rerun, awake, unseen, captured, kills>>

\* The baseline is written, with it go the creates the reconciliation adopted, and the
\* session is closed.
Finish(f) ==
    /\ flow[f].at = "finish"
    /\ Becomes("active") /\ ops' \in SUBSET ops
    /\ sessions' = Without(flow[f].s)
    /\ Leaves(f, flow[f].from, "completed")
    /\ UNCHANGED <<seq, mounted, server, timer, rerun, awake, history>>

---------------------------------------------------------------------------
(* Recovery *)

AttemptRecovery(f) ==
    LET a == ActiveReconSession IN
    IF (a # None /\ a.reviewed) \/ ops = {}
    THEN flow' = At(f, "resync") /\ UNCHANGED <<binding, sessions>>
    ELSE /\ binding' = "waiting_user"
         /\ sessions' = Touch(NewSession("client", "FULL_RESYNC", "WAITING_USER"))
         /\ flow' = At(f, Following(f, "resync", "waiting"))

Recover(f) ==
    /\ flow[f].at = "recover"
    /\ IF binding = "needs_recovery" THEN AttemptRecovery(f)
       ELSE flow' = At(f, Following(f, "resync", "noop")) /\ UNCHANGED <<binding, sessions>>
    /\ UNCHANGED <<ops, seq, mounted, lock, server, timer, rerun, awake, history>>

\* A review is closed; a session of the lifecycle is the one to resume.
RunFullResync(f) ==
    LET stale == ActiveReconSession
        rest  == IF stale # None /\ stale.driver = "client" THEN Without(stale) ELSE sessions
        found == ActiveIn(rest)
        s     == IF found # None THEN found ELSE NewSession("server", "FULL_RESYNC", "RUNNING")
    IN  /\ flow[f].at = "resync"
        /\ IF binding \in {"needs_recovery", "resyncing"} /\ s.driver = "server"
           THEN /\ binding' = "resyncing" /\ sessions' = rest \cup {s}
                /\ Drives(f, "resync", s)
           ELSE /\ Becomes("needs_recovery") /\ sessions' = rest
                /\ flow' = At(f, Following(f, "resync", "waiting"))
        /\ UNCHANGED <<ops, seq, mounted, lock, server, timer, rerun, awake, history>>

\* The rounds of the verification, then its scan.
Quiesce(f) ==
    /\ flow[f].at = "quiesce"
    /\ IF binding = "active" /\ lock = None
       THEN /\ lock' = f
            /\ flow' = [flow EXCEPT ![f] = [NoFlow EXCEPT !.at = "post", !.from = "quiesce",
                                                          !.sent = ops]]
       ELSE flow' = At(f, "verify") /\ UNCHANGED lock
    /\ UNCHANGED <<binding, sessions, ops, seq, mounted, server, timer, rerun, awake, history>>

Verify(f) ==
    /\ flow[f].at = "verify"
    /\ \/ Fault(0) /\ UNCHANGED binding
       \/ Fault(1) /\ Becomes("needs_recovery")
    /\ flow' = At(f, Following(f, "resync", "resynced"))
    /\ UNCHANGED <<sessions, ops, seq, mounted, lock, server, timer, rerun, awake,
                   unseen, captured, kills>>

---------------------------------------------------------------------------
(* The pass *)

Pending == {"pending_initial", "initializing", "resyncing"}

RunBinding ==
    LET a == ActiveReconSession
        s == IF a = None THEN NewSession("server", "INITIAL", "RUNNING") ELSE a
    IN  /\ flow["pass"].at = "reconcile"
        /\ IF binding \in Pending /\ lock = None /\ s.driver = "server"
           THEN /\ binding' = "initializing" /\ sessions' = sessions \cup {s}
                /\ lock' = "pass"
                /\ Drives("pass", "reconcile", s)
           ELSE flow' = At("pass", "resume") /\ UNCHANGED <<binding, sessions, lock>>
        /\ UNCHANGED <<ops, seq, mounted, server, timer, rerun, awake, history>>

ResumeRecovery ==
    LET a == ActiveReconSession IN
    /\ flow["pass"].at = "resume"
    /\ IF binding \in {"needs_recovery", "mount_missing"} /\ a # None
          /\ a.driver = "server" /\ a.state = "RUNNING"
       THEN binding' = StateOf(a) /\ Drives("pass", "resume", a)
       ELSE flow' = At("pass", "sync") /\ UNCHANGED binding
    /\ UNCHANGED <<sessions, ops, seq, mounted, lock, server, timer, rerun, awake, history>>

\* Busy means another holder: the round is wanted all the same.
SyncAll ==
    /\ flow["pass"].at = "sync"
    /\ IF binding = "active" /\ lock = None
       THEN /\ lock' = "pass"
            /\ flow' = [flow EXCEPT !["pass"] = [NoFlow EXCEPT !.at = "post", !.from = "sync",
                                                               !.sent = ops]]
       ELSE flow' = At("pass", "recover") /\ UNCHANGED lock
    /\ timer' = (timer \/ (binding = "active" /\ lock # None))
    /\ UNCHANGED <<binding, sessions, ops, seq, mounted, server, rerun, awake, history>>

\* Mutant of SweepEnds: who joined the pass is not served.
SweepEndsAtOnce ==
    /\ flow["pass"].at = "sweep"
    /\ flow' = At("pass", "idle")
    /\ UNCHANGED <<store, server, timer, rerun, awake, history>>

\* One more sweep for those who joined with something new.
SweepEnds ==
    /\ flow["pass"].at = "sweep"
    /\ rerun' = FALSE
    /\ IF rerun THEN flow' = At("pass", "reconcile") /\ unseen' = FALSE
       ELSE flow' = At("pass", "idle") /\ UNCHANGED unseen
    /\ UNCHANGED <<store, server, timer, awake, captured, faults, kills>>

Begins ==
    /\ Apart("pass")
    /\ flow' = At("pass", "reconcile")
    /\ rerun' = FALSE /\ unseen' = FALSE

\* For something new: joins a pass in flight, which then owes another sweep.
RunSync ==
    IF Idle("pass") THEN Begins
    ELSE rerun' = TRUE /\ unseen' = TRUE /\ UNCHANGED flow

TimerFires ==
    /\ timer /\ timer' = FALSE
    /\ RunSync
    /\ UNCHANGED <<store, server, awake, captured, faults, kills>>

\* A click during a pass is counted as a fault: a user who never stops keeps it going.
ManualSync ==
    /\ awake /\ RunSync
    /\ Fault(IF Idle("pass") THEN 0 ELSE 1)
    /\ UNCHANGED <<store, server, timer, awake, captured, kills>>

\* The periodic alarm asks for no more than the pass in flight does.
Alarm ==
    /\ awake /\ Idle("pass") /\ Begins
    /\ UNCHANGED <<store, server, timer, awake, captured, faults, kills>>

\* Locks left behind belong to the worker this one replaces.
Wake ==
    /\ ~awake /\ awake' = TRUE
    /\ lock' = None
    /\ Begins
    /\ UNCHANGED <<binding, sessions, ops, seq, mounted, server, timer,
                   captured, faults, kills>>

---------------------------------------------------------------------------
(* The user and the messages *)

Capturing == {"active", "initializing", "resyncing", "needs_recovery", "waiting_user"}

Capture ==
    /\ awake /\ captured < MaxEdits /\ binding \in Capturing
    /\ captured' = captured + 1 /\ seq' = seq + 1
    /\ ops' = ops \cup {seq'}
    /\ timer' = TRUE /\ unseen' = TRUE
    /\ UNCHANGED <<binding, sessions, mounted, lock, server, flow, rerun, awake,
                   faults, kills>>

Answer ==
    LET a == ActiveReconSession IN
    /\ awake /\ Idle("message") /\ binding = "waiting_user"
    /\ a # None /\ a.sid # None /\ lock = None
    /\ lock' = "message"
    /\ flow' = [flow EXCEPT !["message"] = [NoFlow EXCEPT !.at = "decide", !.from = "answer",
                                                          !.s = a]]
    /\ UNCHANGED <<binding, sessions, ops, seq, mounted, server, timer, rerun, awake, history>>

InReview ==
    LET a == ActiveReconSession IN
    /\ binding = "waiting_user"
    /\ a # None /\ a.type = "FULL_RESYNC" /\ a.state = "WAITING_USER"

\* The user keeps some of the edits that are shown and discards the others.
Review ==
    /\ awake /\ Idle("message") /\ InReview /\ Apart("message")
    /\ \E kept \in SUBSET ops :
        flow' = [flow EXCEPT !["message"] = [NoFlow EXCEPT !.at = "resolve", !.sent = kept]]
    /\ UNCHANGED <<store, server, timer, rerun, awake, history>>

Renumbered(kept) == seq + 1 .. seq + Cardinality(kept)

\* All are removed, those captured since they were shown too, and the kept queued anew.
ResolveIntents ==
    LET a == ActiveReconSession IN
    /\ flow["message"].at = "resolve"
    /\ IF InReview
       THEN /\ ops' = Renumbered(flow["message"].sent)
            /\ seq' = seq + Cardinality(flow["message"].sent) /\ binding' = "needs_recovery"
            /\ sessions' = Touch([a EXCEPT !.state = "RUNNING", !.reviewed = TRUE])
            /\ flow' = At("message", "recover")
       ELSE flow' = At("message", "idle") /\ UNCHANGED <<binding, sessions, ops, seq>>
    /\ UNCHANGED <<mounted, lock, server, timer, rerun, awake, history>>

\* A recovery asks for a binding the server calls active.
RecoverySafe == "pending recovery" \in Avoided => server.state = "active"

Remount ==
    /\ awake /\ Idle("message") /\ binding = "mount_missing" /\ RecoverySafe
    /\ Apart("message")
    /\ mounted' = TRUE /\ ops' = {}
    /\ DriveRecovery("message", "mapping", sessions)
    /\ UNCHANGED <<seq, server, timer, rerun, awake, history>>

\* A scan of the browser finds more than the mapping can be trusted with.
RecoverMapping ==
    /\ awake /\ Idle("message") /\ binding = "active" /\ RecoverySafe
    /\ Apart("message") /\ Fault(1)
    /\ DriveRecovery("message", "mapping", sessions)
    /\ UNCHANGED <<ops, seq, mounted, server, timer, rerun, awake, unseen, captured, kills>>

---------------------------------------------------------------------------
(* Faults *)

Abandoned(sess) ==
    [i \in Sids |-> IF i \in OpenSids THEN [sess[i] EXCEPT !.state = "failed"] ELSE sess[i]]

\* The binding as before its first reconciliation, the session open on it closed.
PutBack == [server EXCEPT !.state = "pending_initial", !.sess = Abandoned(@)]

\* The local row learns of it in the next sweeps.
PutBackBehind ==
    /\ "restore at a question" \in Avoided =>
         ~\E s \in sessions : s.driver = "server" /\ s.state = "WAITING_USER"
    /\ "pending recovery" \in Avoided => binding # "mount_missing" /\ ~Uncreated
    /\ UNCHANGED <<store, memory, unseen, captured, kills>>

\* A restore puts every binding back, and with the history go the receipts.
Restore ==
    /\ Fault(1) /\ server.state = "active"
    /\ server' = [PutBack EXCEPT !.known = {}]
    /\ PutBackBehind

\* All that is stored here of the binding goes; what is under way goes on.
ReplicaDropped ==
    /\ "unbound at work" \in Avoided => \A f \in Flows : Idle(f)
    /\ binding' = "none" /\ sessions' = {} /\ ops' = {}
    /\ UNCHANGED <<seq, mounted, lock>>

\* The user's unbinding: the server's half, then the replica.  The binding's client_seq
\* stays with the server.
Unbind ==
    /\ Fault(1) /\ binding # "none" /\ server.state # "foreign"
    /\ server' = PutBack
    /\ ReplicaDropped
    /\ UNCHANGED <<memory, unseen, captured, kills>>

\* Its answer is lost.
UnbindLost ==
    /\ Fault(1) /\ binding # "none" /\ server.state # "foreign"
    /\ server' = PutBack /\ server' # server
    /\ PutBackBehind

\* Paired anew, as another device: the replica was the former one's, and this one has no
\* row yet.  After an unpairing nothing tells that there was another device.
Pair ==
    /\ Fault(1) /\ binding # "none"
    /\ \/ server' = NewRow /\ ReplicaDropped
       \/ /\ "foreign replica" \notin Avoided
          /\ server' = [server EXCEPT !.state = "foreign"] /\ UNCHANGED store
    /\ UNCHANGED <<memory, unseen, captured, kills>>

\* A row that is not pending is not handed out again.
Bindable == server.state = "pending_initial"

\* Binding again gets the server's row back, and a local row that numbers from 1.
BindSpace ==
    /\ binding = "none" /\ Bindable
    /\ server' = [server EXCEPT !.known = {}]
    /\ binding' = "pending_initial" /\ seq' = 0 /\ mounted' = TRUE
    /\ UNCHANGED <<sessions, ops, lock, memory, history>>

MountRemoved ==
    /\ Fault(1) /\ awake /\ mounted /\ mounted' = FALSE
    /\ "mount lost at work" \in Avoided =>
         binding = "active" /\ sessions = {} /\ \A f \in Flows : Idle(f)
    /\ RecoverySafe
    /\ binding' = IF binding \in Capturing THEN "mount_missing" ELSE binding
    /\ UNCHANGED <<sessions, ops, seq, lock, server, memory, unseen, captured, kills>>

Dies ==
    /\ awake /\ kills < MaxKills /\ kills' = kills + 1 /\ Creatable
    /\ awake' = FALSE /\ timer' = FALSE /\ rerun' = FALSE
    /\ flow' = [f \in Flows |-> NoFlow]

Killed ==
    /\ Dies
    /\ "decision lost" \in Avoided => \A f \in Flows : flow[f].at # "decide"
    /\ UNCHANGED <<store, server, unseen, captured, faults>>

\* The request got through before the worker died.
KilledInCall(f) ==
    /\ Calling(f) /\ Dies
    /\ "decision lost" \in Avoided => flow[f].at # "decide"
    /\ \E r \in Results(f) : r.cost = 0 /\ r.srv # server /\ server' = r.srv
    /\ UNCHANGED <<store, unseen, captured, faults>>

\* What the first of two transactions leaves: the active binding without its session
\* closed, the question without its session, the edits without the review's end.
TornWrites(f) ==
    LET at == flow[f].at IN
    {[binding |-> "active", ops |-> left] : left \in {o \in SUBSET ops :
        /\ at = "finish"
        /\ "session left open" \in Avoided => captured = MaxEdits /\ o = {}}}
    \cup {[binding |-> "waiting_user", ops |-> o] : o \in {o \in {ops} :
        /\ "review torn" \notin Avoided
        /\ at = "recover" /\ binding = "needs_recovery" /\ o # {}}}
    \cup {[binding |-> "needs_recovery", ops |-> o] : o \in {o \in {Renumbered(flow[f].sent)} :
        /\ "review torn" \notin Avoided
        /\ at = "resolve" /\ InReview}}

KilledBetweenWrites(f) ==
    /\ Dies
    /\ \E torn \in TornWrites(f) :
        Becomes(torn.binding) /\ ops' = torn.ops /\ seq' = Max({seq} \cup torn.ops)
    /\ UNCHANGED <<sessions, mounted, lock, server, unseen, captured, faults>>

---------------------------------------------------------------------------

Step(f) ==
    \/ Answered(f) \/ Finish(f) \/ Recover(f) \/ RunFullResync(f)
    \/ Quiesce(f) \/ Verify(f)

PassStep == RunBinding \/ ResumeRecovery \/ SyncAll \/ SweepEnds

Next ==
    \/ \E f \in Flows :
        Step(f) \/ RequestLost(f) \/ AnswerLost(f) \/ KilledInCall(f) \/ KilledBetweenWrites(f)
    \/ PassStep
    \/ TimerFires \/ Alarm \/ ManualSync \/ Wake
    \/ Capture \/ Answer \/ Review \/ ResolveIntents \/ Remount \/ RecoverMapping
    \/ Restore \/ Unbind \/ UnbindLost \/ Pair \/ BindSpace \/ MountRemoved \/ Killed

\* What runs goes on, alarms and wakes come, and the user deals with what is asked.
Spec ==
    /\ Init /\ [][Next]_vars
    /\ \A f \in Flows : WF_vars(Step(f))
    /\ WF_vars(PassStep) /\ WF_vars(TimerFires) /\ WF_vars(Alarm) /\ WF_vars(Wake)
    /\ SF_vars(Answer) /\ SF_vars(Review) /\ SF_vars(Remount) /\ WF_vars(ResolveIntents)

---------------------------------------------------------------------------
(* Properties *)

\* A worker at rest owes nothing: whatever was captured or asked for since the last sweep
\* began has a timer, a further sweep of the pass in flight, or the sweep of the next
\* worker coming (workerLoop.ts:46-52, 168-177).
OwesNothing == unseen => ~awake \/ timer \/ (rerun /\ ~Idle("pass"))

\* Whatever a binding goes through, it ends up active, on both sides, with every edit
\* answered, adopted or discarded: no lost message, kill, restore or removed folder
\* leaves it where no trigger and no answer of the user gets it out (workerLoop.ts:152-161,
\* initialReconcile.ts:205-211).  One that is unbound can be bound again, and edits then get
\* past the client_seq the server spent before (device.go:324-328).
EverySettles ==
    <>[](\/ binding = "active" /\ server.state = "active" /\ ops = {}
         \/ binding = "none" /\ Bindable)
=============================================================================
