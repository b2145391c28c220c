----------------------------- MODULE SyncRound -----------------------------
(***************************************************************************)
(* One device's sync rounds (syncCoordinator.ts) against the service       *)
(* (service.go), transaction by transaction: the round reads the outbox,   *)
(* marks and sends, waits, stores answers and rows, applies the rows one   *)
(* by one and settles.  The server checks the request, answers each        *)
(* operation in a transaction, reads the page in another and writes the    *)
(* device's watermarks in a last one.  Between any two of these steps the  *)
(* user edits, others edit, history is collected, the space is restored,   *)
(* the binding revoked, the request lost or the worker killed; a request   *)
(* the device has given up (a stray) may still be served.                  *)
(*                                                                         *)
(* What an operation says is a body, what the server makes of it is left   *)
(* open (SyncDecide has it): a row or none, and a revision to settle       *)
(* after.  The run lock, and one pass per worker, make rounds exclusive.   *)
(***************************************************************************)
EXTENDS Integers, FiniteSets

CONSTANTS
    Bodies,     \* what operations say
    None,
    MaxPage,    \* rows of a page (MAX_CHANGES_PER_ROUND)
    MaxRounds,  \* rounds of a sync (MAX_ROUNDS_PER_SYNC)
    MinKeep,    \* rows journal GC always keeps (minKeepRevisions)
    MaxSeq,     \* bound on the device's operations
    MaxRev,     \* bound on revisions
    MaxFaults,  \* bound on lost requests and killed workers
    MaxEpoch    \* bound on restores

ASSUME RoundConstants ==
    /\ Bodies # {} /\ None \notin Bodies /\ None \notin Int
    /\ MaxPage \in Nat \ {0} /\ MaxRounds \in Nat \ {0}
    /\ MinKeep \in Nat /\ MaxSeq \in Nat /\ MaxRev \in Nat /\ MaxFaults \in Nat /\ MaxEpoch \in Nat

VARIABLES
    space,     \* the space: epoch, rev, floor, and the author of each journal row
    row,       \* the server's row of the binding
    receipts,  \* seq -> receipt
    binding,   \* the device's binding record
    outbox,    \* seq -> pending operation
    inbox,     \* revision -> author of the row stored for it
    handler,   \* an outbox record an event handler has read and not written yet
    pc,        \* where the round is
    rounds,    \* rounds of this sync so far
    picked,    \* operations the round has read for its request
    more,      \* has_more of the last response
    calls,     \* the request the round waits for, and a stray perhaps still being served
    faults,    \* faults so far
    answered,  \* history: seq -> settle revision of its first answer
    effects    \* history: seq -> rows written for it

serverVars == <<space, row, receipts, answered, effects>>
replicaVars == <<binding, outbox, inbox>>
roundVars == <<pc, rounds, picked, more>>
vars == <<serverVars, replicaVars, handler, roundVars, calls, faults>>

Authors == 0 .. MaxSeq  \* 0: somebody else

Sides == {"live", "stray"}

\* f with x for k.
With(f, k, x) == [j \in DOMAIN f \cup {k} |-> IF j = k THEN x ELSE f[j]]

Init ==
    /\ space = [epoch |-> 1, rev |-> 0, floor |-> 0, journal |-> << >>]
    /\ row = [state |-> "active", maxSeq |-> 0, applied |-> 0, received |-> 0]
    /\ receipts = << >>
    /\ binding = [state |-> "active", code |-> None, epoch |-> 1, applied |-> 0,
                  received |-> 0, clientSeq |-> 0]
    /\ outbox = << >> /\ inbox = << >>
    /\ handler = None
    /\ pc = "idle" /\ rounds = 0 /\ picked = << >> /\ more = FALSE
    /\ calls = [w \in Sides |-> None] /\ faults = 0
    /\ answered = << >> /\ effects = [s \in 1 .. MaxSeq |-> 0]

---------------------------------------------------------------------------
(* The server *)

Finished == {"answered", "refused"}

Refused(c, code) == [c EXCEPT !.phase = "refused", !.code = code]

\* The request of side w goes on as c; nobody waits for the end of a stray.
Becomes(w, c) ==
    calls' = [calls EXCEPT ![w] = IF w = "stray" /\ c.phase \in Finished THEN None ELSE c]

\* advisoryCheck
Advice(c) ==
    IF row.state # "active" THEN "BINDING_NOT_ACTIVE"
    ELSE IF c.epoch # space.epoch THEN "EPOCH_MISMATCH"
    ELSE IF c.received > space.rev THEN "INVALID_WATERMARK"
    ELSE IF c.received < space.floor THEN "HISTORY_EXPIRED"
    ELSE "ok"

Admit(w) ==
    LET c == calls[w] IN
    /\ c.phase = "sent"
    /\ Becomes(w, IF Advice(c) = "ok" THEN [c EXCEPT !.phase = "operations"]
                  ELSE Refused(c, Advice(c)))
    /\ UNCHANGED serverVars

\* Operations are processed in client_seq order.
NextOp(c) == CHOOSE s \in c.todo : \A t \in c.todo : s <= t

\* Mutant of Verdict: the sequence number is not compared with the watermark.
VerdictAnySeq(c, s) ==
    IF row.state # "active" THEN "BINDING_NOT_ACTIVE"
    ELSE IF c.epoch # space.epoch THEN "EPOCH_MISMATCH"
    ELSE IF s \in DOMAIN receipts
    THEN IF receipts[s].body # c.ops[s].body THEN "OP_ID_REUSED" ELSE "replay"
    ELSE IF c.ops[s].base < space.floor THEN "OPERATION_HISTORY_EXPIRED"
    ELSE "decide"

\* processOperation up to the decision.
Verdict(c, s) ==
    IF row.state # "active" THEN "BINDING_NOT_ACTIVE"
    ELSE IF c.epoch # space.epoch THEN "EPOCH_MISMATCH"
    ELSE IF s \in DOMAIN receipts
    THEN IF receipts[s].body # c.ops[s].body THEN "OP_ID_REUSED" ELSE "replay"
    ELSE IF s <= row.maxSeq THEN "CLIENT_SEQ_REGRESSED"
    ELSE IF c.ops[s].base < space.floor THEN "OPERATION_HISTORY_EXPIRED"
    ELSE "decide"

Replied(c, s, settle) == [c EXCEPT !.todo = @ \ {s}, !.results = With(@, s, settle)]

Appended(author) ==
    [space EXCEPT !.rev = @ + 1, !.journal = With(@, space.rev + 1, author)]

\* The space, the receipt and the sequence watermark commit together.
Decide(w, s) ==
    \E written \in BOOLEAN :
        LET c  == calls[w]
            sp == IF written THEN Appended(s) ELSE space
        IN  /\ sp.rev <= MaxRev
            /\ \E settle \in IF written THEN {sp.rev} ELSE 0 .. sp.rev :
                   /\ space' = sp
                   /\ row' = [row EXCEPT !.maxSeq = IF @ < s THEN s ELSE @]
                   /\ receipts' = With(receipts, s, [body |-> c.ops[s].body, settle |-> settle,
                                                     at |-> sp.rev])
                   /\ Becomes(w, Replied(c, s, settle))
                   /\ answered' = IF s \in DOMAIN answered THEN answered
                                  ELSE With(answered, s, settle)
                   /\ effects' = [effects EXCEPT ![s] = @ + (sp.rev - space.rev)]

\* processOperation
Process(w) ==
    LET c == calls[w]
        s == NextOp(c)
    IN  /\ c.phase = "operations"
        /\ c.todo # {}
        /\ IF Verdict(c, s) = "decide" THEN Decide(w, s)
           ELSE /\ Becomes(w, IF Verdict(c, s) = "replay"
                              THEN Replied(c, s, receipts[s].settle)
                              ELSE Refused(c, Verdict(c, s)))
                /\ UNCHANGED serverVars

\* Mutant of PageVerdict: the floor is only checked when the request comes in.
PageVerdictNoFloor(c) == IF c.epoch # space.epoch THEN "EPOCH_MISMATCH" ELSE "ok"

PageVerdict(c) ==
    IF c.epoch # space.epoch THEN "EPOCH_MISMATCH"
    ELSE IF c.received < space.floor THEN "HISTORY_EXPIRED"
    ELSE "ok"

\* The first rows above the request's watermark.
Page(c) ==
    LET above == {r \in DOMAIN space.journal : r > c.received}
        page  == {r \in above : Cardinality({q \in above : q <= r}) <= MaxPage}
    IN  [rows    |-> [r \in page |-> space.journal[r]],
         through |-> IF page = {} THEN c.received
                     ELSE CHOOSE r \in page : \A q \in page : q <= r,
         more    |-> page # above]

\* changePage
ReadPage(w) ==
    LET c == calls[w] IN
    /\ c.phase = "operations"
    /\ c.todo = {}
    /\ Becomes(w, IF PageVerdict(c) = "ok"
                  THEN [c EXCEPT !.phase = "read", !.page = Page(c)]
                  ELSE Refused(c, PageVerdict(c)))
    /\ UNCHANGED serverVars

\* Mutant of Watermarks: written without its guards.
WatermarksUnguarded(c) == [row EXCEPT !.applied = c.applied, !.received = c.received]

\* UpdateBindingSync: guarded against late requests.
Watermarks(c) ==
    IF /\ row.state = "active" /\ c.epoch = space.epoch
       /\ row.applied <= c.applied /\ row.received <= c.received
    THEN [row EXCEPT !.applied = c.applied, !.received = c.received]
    ELSE row

Report(w) ==
    LET c == calls[w] IN
    /\ c.phase = "read"
    /\ row' = Watermarks(c)
    /\ Becomes(w, [c EXCEPT !.phase = "answered"])
    /\ UNCHANGED <<space, receipts, answered, effects>>

Serve(w) ==
    /\ calls[w] # None
    /\ Admit(w) \/ Process(w) \/ ReadPage(w) \/ Report(w)
    /\ UNCHANGED <<replicaVars, handler, roundVars, faults>>

---------------------------------------------------------------------------
(* Others, and maintenance *)

worldUnchanged == UNCHANGED <<answered, effects, replicaVars, handler, roundVars, calls, faults>>

WebEdit ==
    /\ space.rev < MaxRev
    /\ space' = Appended(0)
    /\ UNCHANGED <<row, receipts>>
    /\ worldUnchanged

\* JournalGCSpace.  How many rows are past their age is up to the clock.
CollectJournal ==
    /\ \E floor \in space.floor + 1 .. space.rev - MinKeep :
           /\ space' = [space EXCEPT !.floor = floor,
                                     !.journal = [r \in floor + 1 .. space.rev |-> @[r]]]
           /\ receipts' = [s \in {s \in DOMAIN receipts : receipts[s].at > floor} |-> receipts[s]]
    /\ UNCHANGED row
    /\ worldUnchanged

\* ReplaceBaseline
Restore ==
    /\ space.epoch < MaxEpoch
    /\ space' = [epoch |-> space.epoch + 1, rev |-> 0, floor |-> 0, journal |-> << >>]
    /\ row' = [row EXCEPT !.state = "pending_initial", !.applied = 0, !.received = 0]
    /\ receipts' = << >>
    /\ worldUnchanged

\* RevokeBinding
Revoke ==
    /\ row' = [row EXCEPT !.state = "pending_initial", !.applied = 0, !.received = 0]
    /\ row' # row
    /\ UNCHANGED <<space, receipts>>
    /\ worldUnchanged

---------------------------------------------------------------------------
(* The device: event handlers *)

\* The edit becomes an operation based on the revision the device has applied.
Capture ==
    /\ binding.clientSeq < MaxSeq
    /\ \E body \in Bodies :
           outbox' = With(outbox, binding.clientSeq + 1,
                          [body |-> body, base |-> binding.applied, status |-> "QUEUED",
                           settle |-> None])
    /\ binding' = [binding EXCEPT !.clientSeq = @ + 1]
    /\ UNCHANGED <<serverVars, inbox, handler, roundVars, calls, faults>>

\* The row that operation s wrote has been applied: its node has its canonical id.
Mapped(s) == \E r \in DOMAIN inbox : r <= binding.applied /\ inbox[r] = s

\* The handler of an edit of a node without canonical id finds its create still
\* queued (findCreate).  Which operations are creates is left open.
FindQueuedCreate ==
    /\ handler = None
    /\ \E s \in DOMAIN outbox :
           /\ outbox[s].status = "QUEUED"
           /\ ~Mapped(s)
           /\ handler' = [seq |-> s, record |-> outbox[s]]
    /\ UNCHANGED <<serverVars, replicaVars, roundVars, calls, faults>>

\* handleChanged, handleMoved: the record goes back with another body.
Amend ==
    /\ handler # None
    /\ \E body \in Bodies \ {handler.record.body} :
           outbox' = With(outbox, handler.seq, [handler.record EXCEPT !.body = body])
    /\ handler' = None
    /\ UNCHANGED <<serverVars, binding, inbox, roundVars, calls, faults>>

\* handleRemoved: what was never sent need not be.
Withdraw ==
    /\ handler # None
    /\ outbox' = [s \in DOMAIN outbox \ {handler.seq} |-> outbox[s]]
    /\ handler' = None
    /\ UNCHANGED <<serverVars, binding, inbox, roundVars, calls, faults>>

---------------------------------------------------------------------------
(* The device: a round *)

WithStatus(status) == {s \in DOMAIN outbox : outbox[s].status = status}

Payloads(S) == [s \in S |-> [body |-> outbox[s].body, base |-> outbox[s].base]]

\* buildRequest reads the queued operations.
ReadQueued ==
    /\ pc \in {"idle", "again"}
    /\ binding.state = "active"
    /\ picked' = Payloads(WithStatus("QUEUED"))
    /\ rounds' = IF pc = "idle" THEN 1 ELSE rounds + 1
    /\ pc' = "queued"
    /\ UNCHANGED <<serverVars, replicaVars, handler, more, calls, faults>>

\* Mutant of Unanswered: what was sent once is not sent again.
UnansweredNever == {}

\* Operations an earlier round never got an answer for.
Unanswered == WithStatus("IN_FLIGHT")

ReadInFlight ==
    /\ pc = "queued"
    /\ picked' = [s \in DOMAIN picked \cup Unanswered |->
                     IF s \in DOMAIN picked THEN picked[s] ELSE Payloads(Unanswered)[s]]
    /\ pc' = "picked"
    /\ UNCHANGED <<serverVars, replicaVars, handler, rounds, more, calls, faults>>

\* Mutant of Request: the row to begin with is taken for the row received last.
RequestAhead ==
    [epoch |-> binding.epoch, applied |-> binding.applied, received |-> binding.received + 1,
     ops |-> picked, todo |-> DOMAIN picked, results |-> << >>, page |-> None,
     phase |-> "sent", code |-> None]

Request ==
    [epoch |-> binding.epoch, applied |-> binding.applied, received |-> binding.received,
     ops |-> picked, todo |-> DOMAIN picked, results |-> << >>, page |-> None,
     phase |-> "sent", code |-> None]

\* markInFlight, and the request leaves with what was read before.
Send ==
    /\ pc = "picked"
    /\ outbox' = [s \in DOMAIN outbox |->
                     IF s \in DOMAIN picked THEN [outbox[s] EXCEPT !.status = "IN_FLIGHT"]
                     ELSE outbox[s]]
    /\ calls' = [calls EXCEPT !["live"] = Request]
    /\ picked' = << >>
    /\ pc' = "waiting"
    /\ UNCHANGED <<serverVars, binding, inbox, handler, rounds, more, faults>>

\* A refusal ends the round and asks for recovery: every code of advisoryCheck,
\* processOperation and changePage is terminal.
Halt ==
    LET c == calls["live"] IN
    /\ pc = "waiting"
    /\ c.phase = "refused"
    /\ binding' = [binding EXCEPT !.state = "needs_recovery", !.code = c.code]
    /\ calls' = [calls EXCEPT !["live"] = None]
    /\ pc' = "idle"
    /\ rounds' = 0
    /\ UNCHANGED <<serverVars, outbox, inbox, handler, picked, more, faults>>

\* Mutant of Advanced: one too far.
AdvancedPastPage(page) == page.through + 1

Advanced(page) == IF binding.received < page.through THEN page.through ELSE binding.received

\* Answers, rows and received_revision are one transaction.
Ingest ==
    LET c == calls["live"] IN
    /\ pc = "waiting"
    /\ c.phase = "answered"
    /\ outbox' = [s \in DOMAIN outbox |->
                     IF s \in DOMAIN c.results
                     THEN [outbox[s] EXCEPT !.status = "RESOLVED", !.settle = c.results[s]]
                     ELSE outbox[s]]
    /\ inbox' = [r \in DOMAIN inbox \cup DOMAIN c.page.rows |->
                    IF r \in DOMAIN c.page.rows THEN c.page.rows[r] ELSE inbox[r]]
    /\ binding' = [binding EXCEPT !.received = Advanced(c.page)]
    /\ more' = c.page.more
    /\ calls' = [calls EXCEPT !["live"] = None]
    /\ pc' = "applying"
    /\ UNCHANGED <<serverVars, handler, rounds, picked, faults>>

Unapplied == {r \in DOMAIN inbox : r > binding.applied}

\* The next row of the inbox; one that does not follow makes applyChange throw.
ApplyNext ==
    /\ pc = "applying"
    /\ Unapplied # {}
    /\ IF binding.applied + 1 \in Unapplied
       THEN binding' = [binding EXCEPT !.applied = @ + 1] /\ UNCHANGED pc
       ELSE pc' = "idle" /\ UNCHANGED binding
    /\ UNCHANGED <<serverVars, outbox, inbox, handler, rounds, picked, more, calls, faults>>

\* Mutant of Settled: an answer is all it takes.
SettledAtOnce == WithStatus("RESOLVED")

\* Answered, and the state that answered it has arrived.
Settled == {s \in WithStatus("RESOLVED") : outbox[s].settle <= binding.applied}

Settle ==
    /\ pc = "applying"
    /\ Unapplied = {}
    /\ outbox' = [s \in DOMAIN outbox \ Settled |-> outbox[s]]
    /\ more' = FALSE
    /\ IF more /\ rounds < MaxRounds
       THEN pc' = "again" /\ UNCHANGED rounds
       ELSE pc' = "idle" /\ rounds' = 0
    /\ UNCHANGED <<serverVars, binding, inbox, handler, picked, calls, faults>>

\* The worker is killed, or the request or its response is lost: the round ends where
\* it is, and the server may go on with the request.
Abandon ==
    /\ pc # "idle"
    /\ faults < MaxFaults
    /\ faults' = faults + 1
    /\ pc' = "idle"
    /\ picked' = << >>
    /\ handler' \in {handler, None}
    /\ \/ calls' = [calls EXCEPT !["live"] = None]
       \/ /\ calls["live"] # None
          /\ calls["live"].phase \notin Finished
          /\ calls' = [live |-> None, stray |-> calls["live"]]
    /\ rounds' = 0
    /\ more' = FALSE
    /\ UNCHANGED <<serverVars, replicaVars>>

---------------------------------------------------------------------------

Round == ReadQueued \/ ReadInFlight \/ Send \/ Halt \/ Ingest \/ ApplyNext \/ Settle

\* Operations are never changed once captured.
NextCaptured ==
    \/ Capture \/ Round \/ Abandon
    \/ \E w \in Sides : Serve(w)
    \/ WebEdit \/ CollectJournal \/ Restore \/ Revoke

Next == NextCaptured \/ FindQueuedCreate \/ Amend \/ Withdraw

SpecCaptured == Init /\ [][NextCaptured]_vars

Spec == Init /\ [][Next]_vars

\* The alarm starts rounds as long as the binding is active, and a server that got a
\* request finishes it.
FairSpec == SpecCaptured /\ WF_vars(Round) /\ WF_vars(Serve("live"))

---------------------------------------------------------------------------
(* Properties *)

Codes == {"BINDING_NOT_ACTIVE", "EPOCH_MISMATCH", "INVALID_WATERMARK", "HISTORY_EXPIRED",
          "OPERATION_HISTORY_EXPIRED", "CLIENT_SEQ_REGRESSED", "OP_ID_REUSED"}

Pending == [body : Bodies, base : 0 .. MaxRev, status : {"QUEUED", "IN_FLIGHT", "RESOLVED"},
            settle : 0 .. MaxRev \cup {None}]

\* The records keep their fields, and the watermarks their order.
TypeOK ==
    /\ space.rev \in 0 .. MaxRev /\ space.floor \in 0 .. space.rev
    /\ DOMAIN space.journal = space.floor + 1 .. space.rev
    /\ row.state \in {"active", "pending_initial"}
    /\ row.maxSeq \in 0 .. MaxSeq
    /\ binding.state \in {"active", "needs_recovery"} /\ binding.code \in Codes \cup {None}
    /\ 0 <= binding.applied /\ binding.applied <= binding.received
    /\ binding.epoch = space.epoch => binding.received <= space.rev
    /\ DOMAIN outbox \subseteq 1 .. binding.clientSeq
    /\ \A s \in DOMAIN outbox :
           outbox[s] \in Pending /\ (outbox[s].status = "RESOLVED") = (outbox[s].settle # None)
    /\ pc \in {"idle", "queued", "picked", "waiting", "applying", "again"}
    /\ pc # "waiting" => calls["live"] = None

\* However often an operation is sent, by rounds and strays in any order, receipts
\* collected or not, it writes at most one row, and the answer the device keeps is the
\* first one that was given (service.go:274-345, syncCoordinator.ts:359-370).
OneAnswer ==
    /\ \A s \in 1 .. MaxSeq : effects[s] <= 1
    /\ \A s \in WithStatus("RESOLVED") : outbox[s].settle = answered[s]

\* The inbox holds every row up to received_revision, each the server's: no page that
\* was cut by journal GC, no lost response and no killed worker leaves a hole
\* (service.go:163-187, syncCoordinator.ts:108-136).
InboxIsJournal ==
    /\ DOMAIN inbox = 1 .. binding.received
    /\ binding.epoch = space.epoch =>
           \A r \in DOMAIN inbox \cap DOMAIN space.journal : inbox[r] = space.journal[r]

\* A device is sent into recovery only by what happened to the space or the binding,
\* never by its own retries: no sequence number goes back, no operation comes with
\* another body, no watermark is ahead (syncCoordinator.ts:80-103).  The one exception
\* is an answered operation at the very floor, whose receipt is gone.
RecoveryHasCause ==
    binding.state = "needs_recovery" =>
        /\ binding.code \notin {"OP_ID_REUSED", "INVALID_WATERMARK"}
        /\ \/ space.epoch > binding.epoch
           \/ row.state # "active"
           \/ binding.code = "HISTORY_EXPIRED" /\ binding.received < space.floor
           \/ /\ binding.code \in {"OPERATION_HISTORY_EXPIRED", "CLIENT_SEQ_REGRESSED"}
              /\ space.floor > 0
              /\ \E s \in WithStatus("IN_FLIGHT") : outbox[s].base <= space.floor

\* The server never takes back what the device has reported, however late a request is
\* finished, unless the binding has to start again (device.go:350-364).
ReportsGrow ==
    [][\/ row'.applied >= row.applied /\ row'.received >= row.received
       \/ row'.state # "active"]_row

Ledger ==
    INSTANCE OpLedger WITH
        captured  <- binding.clientSeq,
        answers   <- answered,
        applied   <- binding.applied,
        forgotten <- (1 .. binding.clientSeq) \ DOMAIN outbox,
        stopped   <- binding.state # "active"

\* Rounds implement the ledger: edits are answered in their order, and an operation
\* leaves the outbox only when it was answered and the revision that settles it has
\* been applied (syncCoordinator.ts:372-383, doc 04 section 7).
KeepsLedger == Ledger!LedgerSpec

\* When the user pauses, every edit is answered and settled, however many rounds fail
\* before, or the device asks for recovery (syncCoordinator.ts:76-176,
\* workerLoop.ts:196-221).
EveryEditLands ==
    DOMAIN outbox # {} ~> (DOMAIN outbox = {} \/ binding.state = "needs_recovery")

\* syncCoordinator.ts:222-226: "an operation that has already been sent keeps its payload
\* forever"; doc 22 B.19.
SentPayloadFrozen ==
    calls["live"] # None =>
        \A s \in DOMAIN calls["live"].ops :
            s \in DOMAIN outbox /\ outbox[s].body = calls["live"].ops[s].body
=============================================================================
