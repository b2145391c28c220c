-------------------------- MODULE SyncRound_proofs --------------------------
(***************************************************************************)
(* Proofs about SyncRound: for every bound, and with event handlers beside *)
(* the rounds, the inbox is a gapless copy of the journal, an operation    *)
(* has one effect and one answer, and reports never go back.  As long as   *)
(* captured operations are not changed any more, the rounds implement      *)
(* OpLedger: edits are answered in the order they were made, and forgotten *)
(* when their effect has arrived; and a device gives up its mirror only    *)
(* for a cause the server has.                                             *)
(***************************************************************************)
EXTENDS SyncRound, FiniteSetTheorems, WellFoundedInduction, TLAPS

---------------------------------------------------------------------------
(* The inductive invariant *)

SpaceOK ==
    /\ DOMAIN space = {"epoch", "rev", "floor", "journal"}
    /\ space.epoch \in Nat \ {0}
    /\ space.rev \in 0 .. MaxRev
    /\ space.floor \in 0 .. space.rev
    /\ DOMAIN space.journal = space.floor + 1 .. space.rev

RowOK ==
    row \in [state : {"active", "pending_initial"}, maxSeq : 0 .. MaxSeq,
             applied : Nat, received : Nat]

\* Sequence numbers above the watermark are fresh; what was answered stays so.
AnswersOK ==
    /\ effects \in [1 .. MaxSeq -> 0 .. 1]
    /\ \A s \in 1 .. MaxSeq : s > row.maxSeq => effects[s] = 0
    /\ DOMAIN answered \subseteq 1 .. row.maxSeq
    /\ \A s \in DOMAIN answered : answered[s] \in 0 .. MaxRev
    /\ DOMAIN receipts \subseteq DOMAIN answered
    /\ \A s \in DOMAIN receipts : receipts[s].settle = answered[s]

BindingOK ==
    /\ binding \in [state : {"active", "needs_recovery"}, code : Codes \cup {None}, epoch : {1},
                    applied : 0 .. MaxRev, received : 0 .. MaxRev, clientSeq : 0 .. MaxSeq]
    /\ binding.applied <= binding.received

OutboxOK ==
    /\ DOMAIN outbox \subseteq 1 .. binding.clientSeq
    /\ \A s \in DOMAIN outbox :
           /\ outbox[s] \in Pending
           /\ (outbox[s].status = "RESOLVED") = (outbox[s].settle # None)
           /\ outbox[s].status = "RESOLVED" =>
                  s \in DOMAIN answered /\ outbox[s].settle = answered[s]
    /\ handler # None =>
           /\ handler.seq \in 1 .. binding.clientSeq
           /\ handler.record \in Pending
           /\ handler.record.status = "QUEUED" /\ handler.record.settle = None
    /\ DOMAIN picked \subseteq 1 .. binding.clientSeq
    /\ \A s \in DOMAIN picked \cap DOMAIN outbox : outbox[s].status # "RESOLVED"
    /\ pc \notin {"queued", "picked"} => DOMAIN picked = {}

\* Rows stored under the present epoch are the journal's.
InboxOK ==
    /\ DOMAIN inbox = 1 .. binding.received
    /\ binding.epoch = space.epoch =>
           /\ binding.received <= space.rev
           /\ \A r \in DOMAIN inbox : r > space.floor => inbox[r] = space.journal[r]

CallFields == {"epoch", "applied", "received", "ops", "todo", "results", "page", "phase", "code"}

\* told: the answers a request may repeat.
CallOK(c, told) ==
    /\ DOMAIN c = CallFields
    /\ c.applied \in Nat /\ c.received \in Nat
    /\ c.todo \subseteq 1 .. MaxSeq
    /\ c.phase \in {"sent", "operations", "read", "answered", "refused"}
    /\ c.phase = "refused" => c.code \in Codes
    /\ \A s \in DOMAIN c.results : s \in DOMAIN told /\ c.results[s] = told[s]

\* A page goes on where the device is, without a gap.
PageOK(p) ==
    /\ p.through \in binding.received .. MaxRev
    /\ DOMAIN p.rows = binding.received + 1 .. p.through
    /\ binding.epoch = space.epoch =>
           /\ p.through <= space.rev
           /\ \A r \in DOMAIN p.rows : r > space.floor => p.rows[r] = space.journal[r]

CallsOK ==
    /\ DOMAIN calls = Sides
    /\ \A w \in Sides : calls[w] # None => CallOK(calls[w], answered)

LiveOK ==
    /\ pc \in {"idle", "queued", "picked", "waiting", "applying", "again"}
    /\ pc # "waiting" => calls["live"] = None
    /\ pc = "waiting" =>
           /\ CallOK(calls["live"], answered)
           /\ calls["live"].epoch = binding.epoch
           /\ calls["live"].received = binding.received
           /\ calls["live"].phase \in {"read", "answered"} => PageOK(calls["live"].page)

RoundInv ==
    /\ SpaceOK /\ RowOK /\ AnswersOK
    /\ BindingOK /\ OutboxOK /\ InboxOK
    /\ CallsOK /\ LiveOK
---------------------------------------------------------------------------
(* Lemmas *)

LEMMA SmallestExists ==
    ASSUME NEW T \in SUBSET Nat, T # {}
    PROVE  \E s \in T : \A t \in T : s <= t
<1> DEFINE R == {p \in Nat \X Nat : p[1] < p[2]}
<1>1. OpToRel(<, Nat) = R
    BY DEF OpToRel
<1>2. IsWellFoundedOn(R, Nat)
    BY <1>1, NatLessThanWellFounded
<1>3. \E x \in T : \A y \in T : ~ (<<y, x>> \in R)
    <2> HIDE DEF R
    <2> QED BY <1>2, WFMin
<1>4. \A x, y \in Nat : <<y, x>> \notin R => x <= y
    OBVIOUS
<1> HIDE DEF R
<1> QED BY <1>3, <1>4

\* Operations are answered in sequence order, one of the request each time.
LEMMA NextOpIsOne ==
    ASSUME NEW c, c.todo \subseteq Nat, c.todo # {}
    PROVE  NextOp(c) \in c.todo
BY SmallestExists DEF NextOp

\* The page has the rows that follow the request's watermark, without a gap.
LEMMA PageIsNext ==
    ASSUME RoundConstants, SpaceOK, NEW c, c.received \in Nat,
           space.floor <= c.received, c.received <= space.rev
    PROVE  /\ Page(c).through \in c.received .. space.rev
           /\ DOMAIN Page(c).rows = c.received + 1 .. Page(c).through
           /\ \A r \in DOMAIN Page(c).rows : Page(c).rows[r] = space.journal[r]
<1> DEFINE above == {r \in DOMAIN space.journal : r > c.received}
           upTo(r) == {q \in above : q <= r}
           page  == {r \in above : Cardinality(upTo(r)) <= MaxPage}
           last  == IF space.rev < c.received + MaxPage THEN space.rev ELSE c.received + MaxPage
<1>1. above = c.received + 1 .. space.rev
    BY DEF SpaceOK
<1>2. ASSUME NEW r \in above
      PROVE  Cardinality(upTo(r)) = r - c.received
    <2>1. upTo(r) = c.received + 1 .. r
        BY <1>1 DEF SpaceOK
    <2>2. c.received + 1 \in Int /\ r \in Int /\ c.received + 1 <= r
        BY <1>1 DEF SpaceOK
    <2>3. \A a, b \in Int : a <= b => Cardinality(a .. b) = b - a + 1
        BY FS_Interval
    <2>4. Cardinality(c.received + 1 .. r) = r - (c.received + 1) + 1
        <3> HIDE DEF above, page, last
        <3> QED BY <2>2, <2>3
    <2>5. r - (c.received + 1) + 1 = r - c.received
        BY <2>2
    <2> HIDE DEF upTo, page, last
    <2> QED BY <2>1, <2>4, <2>5
<1>3. last \in c.received .. space.rev /\ MaxPage \in Nat \ {0}
    BY DEF SpaceOK, RoundConstants
<1>4. page = c.received + 1 .. last
    <2> HIDE DEF above, upTo
    <2>1. page = {r \in above : r - c.received <= MaxPage}
        BY <1>2
    <2> QED BY <2>1, <1>1, <1>3 DEF SpaceOK
<1>5. Page(c) = [rows    |-> [r \in page |-> space.journal[r]],
                 through |-> IF page = {} THEN c.received
                             ELSE CHOOSE r \in page : \A q \in page : q <= r,
                 more    |-> page # above]
    BY DEF Page
<1> HIDE DEF above, page, last
<1>6. Page(c).through = last
    <2>1. CASE page = {}
        BY <1>3, <1>4, <1>5, <2>1 DEF SpaceOK
    <2>2. CASE page # {}
        <3>1. last \in page /\ \A q \in page : q <= last
            BY <1>3, <1>4, <2>2 DEF SpaceOK
        <3>2. \A r \in page : (\A q \in page : q <= r) => r = last
            BY <3>1, <1>3, <1>4 DEF SpaceOK
        <3> QED BY <3>1, <3>2, <1>5, <2>2
    <2> QED BY <2>1, <2>2
<1>7. Page(c).rows = [r \in page |-> space.journal[r]]
    BY <1>5
<1> QED BY <1>3, <1>4, <1>6, <1>7

---------------------------------------------------------------------------
(* The others, and maintenance *)

\* What may happen to a journal somebody has read from: rows are appended and
\* collected, never changed, or the epoch ends.
HistoryStays ==
    space'.epoch = 1 =>
        /\ space.epoch = 1
        /\ space.rev <= space'.rev
        /\ space.floor <= space'.floor
        /\ \A r \in space'.floor + 1 .. space.rev : space'.journal[r] = space.journal[r]

LEMMA RowsStay ==
    ASSUME RoundConstants, SpaceOK, SpaceOK', BindingOK, HistoryStays, UNCHANGED <<binding, inbox>>
    PROVE  /\ InboxOK => InboxOK'
           /\ \A p : PageOK(p) => PageOK(p)'
<1>1. InboxOK => InboxOK'
    BY DEF RoundConstants, SpaceOK, BindingOK, HistoryStays, InboxOK
<1>2. ASSUME NEW p, PageOK(p)
      PROVE  PageOK(p)'
    <2>1. p.through \in binding.received .. MaxRev /\ binding.received \in Nat
        BY <1>2 DEF BindingOK, PageOK
    <2>2. ASSUME binding.epoch = space'.epoch
          PROVE  /\ p.through <= space'.rev
                 /\ \A r \in DOMAIN p.rows :
                        r > space'.floor => p.rows[r] = space'.journal[r]
        <3>1. /\ space.epoch = 1 /\ space.rev <= space'.rev /\ space.floor <= space'.floor
              /\ \A r \in space'.floor + 1 .. space.rev : space'.journal[r] = space.journal[r]
            BY <2>2 DEF BindingOK, HistoryStays
        <3>2. /\ p.through <= space.rev
              /\ \A r \in DOMAIN p.rows : r > space.floor => p.rows[r] = space.journal[r]
            BY <1>2, <3>1 DEF BindingOK, PageOK
        <3>3. DOMAIN p.rows = binding.received + 1 .. p.through
            BY <1>2 DEF PageOK
        <3>4. MaxRev \in Nat /\ space.rev \in Nat /\ space'.rev \in Nat
              /\ space.floor \in Nat /\ space'.floor \in Nat
            BY DEF RoundConstants, SpaceOK
        <3>5. p.through \in Nat /\ p.through <= space'.rev
            BY <2>1, <3>1, <3>2, <3>4
        <3>6. ASSUME NEW r \in DOMAIN p.rows, r > space'.floor
              PROVE  p.rows[r] = space'.journal[r]
            <4>1. r \in Nat /\ r <= space.rev /\ r > space.floor
                BY <2>1, <3>1, <3>2, <3>3, <3>4, <3>6
            <4> QED BY <3>1, <3>2, <3>4, <3>6, <4>1
        <3> QED BY <3>5, <3>6
    <2> QED BY <1>2, <2>2 DEF PageOK
<1> QED BY <1>1, <1>2

\* A step of the world outside keeps the invariant if it keeps the server's tables.
LEMMA WorldKeeps ==
    ASSUME RoundConstants, RoundInv, worldUnchanged, HistoryStays,
           SpaceOK', RowOK', row'.maxSeq = row.maxSeq,
           DOMAIN receipts' \subseteq DOMAIN receipts,
           \A s \in DOMAIN receipts' : receipts'[s] = receipts[s]
    PROVE  RoundInv'
<1> USE DEF RoundInv, worldUnchanged, replicaVars, roundVars
<1>1. AnswersOK' /\ BindingOK'
    BY DEF AnswersOK, BindingOK
<1>2. OutboxOK' /\ CallsOK'
    BY DEF OutboxOK, CallsOK, CallOK
<1>3. InboxOK' /\ \A p : PageOK(p) => PageOK(p)'
    BY RowsStay
<1>4. LiveOK'
    BY <1>3 DEF LiveOK
<1> QED BY <1>1, <1>2, <1>3, <1>4

LEMMA AppendedStays ==
    ASSUME RoundConstants, SpaceOK, NEW author, space' = Appended(author), space.rev < MaxRev
    PROVE  /\ SpaceOK' /\ HistoryStays
           /\ space'.rev = space.rev + 1 /\ space'.epoch = space.epoch
BY DEF RoundConstants, SpaceOK, HistoryStays, Appended, With

LEMMA WebEditKeeps ==
    ASSUME RoundConstants, RoundInv, WebEdit
    PROVE  RoundInv'
<1>1. SpaceOK' /\ HistoryStays
    BY AppendedStays DEF RoundInv, WebEdit
<1>2. RowOK'
    BY DEF RoundInv, WebEdit, RowOK
<1> QED BY <1>1, <1>2, WorldKeeps DEF WebEdit

LEMMA CollectJournalKeeps ==
    ASSUME RoundConstants, RoundInv, CollectJournal
    PROVE  RoundInv'
<1>1. SpaceOK' /\ HistoryStays
    BY DEF RoundConstants, RoundInv, CollectJournal, SpaceOK, HistoryStays
<1>2. RowOK'
    BY DEF RoundInv, CollectJournal, RowOK
<1> QED BY <1>1, <1>2, WorldKeeps DEF CollectJournal

LEMMA RestoreKeeps ==
    ASSUME RoundConstants, RoundInv, Restore
    PROVE  RoundInv'
<1>1. SpaceOK' /\ HistoryStays
    BY DEF RoundConstants, RoundInv, Restore, SpaceOK, HistoryStays
<1>2. RowOK' /\ row'.maxSeq = row.maxSeq
    BY DEF RoundInv, Restore, RowOK
<1>3. DOMAIN receipts' = {}
    BY DEF Restore
<1> QED BY <1>1, <1>2, <1>3, WorldKeeps DEF Restore

LEMMA RevokeKeeps ==
    ASSUME RoundConstants, RoundInv, Revoke
    PROVE  RoundInv'
<1>1. SpaceOK' /\ HistoryStays
    BY DEF RoundInv, Revoke, SpaceOK, HistoryStays
<1>2. RowOK' /\ row'.maxSeq = row.maxSeq
    BY DEF RoundInv, Revoke, RowOK
<1> QED BY <1>1, <1>2, WorldKeeps DEF Revoke

---------------------------------------------------------------------------
(* The handlers *)

\* What no step of the device touches.
LEMMA DeviceKeepsServer ==
    ASSUME RoundInv, UNCHANGED serverVars
    PROVE  SpaceOK' /\ RowOK' /\ AnswersOK'
BY DEF RoundInv, serverVars, SpaceOK, RowOK, AnswersOK

LEMMA CaptureKeeps ==
    ASSUME RoundConstants, RoundInv, Capture
    PROVE  RoundInv'
<1> USE DEF RoundInv, Capture, serverVars, roundVars
<1>1. SpaceOK' /\ RowOK' /\ AnswersOK'
    BY DeviceKeepsServer
<1>2. BindingOK'
    BY DEF RoundConstants, BindingOK
<1>3. OutboxOK'
    BY DEF RoundConstants, BindingOK, OutboxOK, Pending, With
<1>4. InboxOK' /\ CallsOK'
    BY DEF BindingOK, InboxOK, CallsOK, CallOK
<1>5. LiveOK'
    BY DEF BindingOK, LiveOK, CallOK, PageOK
<1> QED BY <1>1, <1>2, <1>3, <1>4, <1>5

LEMMA HandlersKeep ==
    ASSUME RoundConstants, RoundInv, FindQueuedCreate \/ Amend \/ Withdraw
    PROVE  RoundInv'
<1>1. /\ UNCHANGED <<space, row, receipts, answered, effects, binding, inbox, roundVars, calls>>
    BY DEF FindQueuedCreate, Amend, Withdraw, serverVars, replicaVars
<1>2. UNCHANGED <<pc, picked>>
    BY <1>1 DEF roundVars
<1>3. SpaceOK' /\ RowOK' /\ AnswersOK'
    BY <1>1, DeviceKeepsServer DEF serverVars
<1>4. BindingOK' /\ InboxOK'
    BY <1>1 DEF RoundInv, BindingOK, InboxOK
<1>5. CallsOK' /\ LiveOK'
    BY <1>1, <1>2 DEF RoundInv, CallsOK, LiveOK, PageOK
<1>6. OutboxOK'
    <2> USE <1>1 DEF RoundInv, OutboxOK, roundVars
    <2>1. CASE FindQueuedCreate
        BY <2>1 DEF FindQueuedCreate, replicaVars
    <2>2. CASE Amend
        BY <2>2 DEF Amend, With, Pending
    <2>3. CASE Withdraw
        BY <2>3 DEF Withdraw
    <2> QED BY <2>1, <2>2, <2>3
<1> QED BY <1>3, <1>4, <1>5, <1>6 DEF RoundInv

---------------------------------------------------------------------------
(* A round *)

\* What a step that only reads the outbox, or writes it, leaves alone.
LEMMA Untouched ==
    ASSUME RoundInv
    PROVE  /\ UNCHANGED binding => BindingOK'
           /\ UNCHANGED <<binding, space, inbox>> => InboxOK'
           /\ UNCHANGED <<calls, answered>> => CallsOK'
           /\ UNCHANGED <<binding, space, answered, calls>> /\ pc # "waiting" /\ pc' # "waiting"
              /\ pc' \in {"idle", "queued", "picked", "waiting", "applying", "again"}
              => LiveOK'
BY DEF RoundInv, BindingOK, InboxOK, CallsOK, CallOK, LiveOK

LEMMA ReadsKeep ==
    ASSUME RoundInv, ReadQueued \/ ReadInFlight
    PROVE  RoundInv'
<1>1. /\ UNCHANGED <<serverVars, replicaVars, handler, calls>>
      /\ pc # "waiting" /\ pc' \in {"queued", "picked"}
    BY DEF ReadQueued, ReadInFlight
<1>2. \A s \in DOMAIN picked' :
          \/ s \in DOMAIN picked
          \/ s \in DOMAIN outbox /\ outbox[s].status # "RESOLVED"
    BY DEF ReadQueued, ReadInFlight, Payloads, WithStatus, Unanswered
<1>3. SpaceOK' /\ RowOK' /\ AnswersOK'
    BY <1>1, DeviceKeepsServer
<1>4. BindingOK' /\ InboxOK' /\ CallsOK' /\ LiveOK'
    BY <1>1, Untouched DEF serverVars, replicaVars
<1>5. OutboxOK'
    <2>1. OutboxOK /\ UNCHANGED <<binding, outbox, answered, handler>>
        BY <1>1 DEF RoundInv, serverVars, replicaVars
    <2> QED BY <1>1, <1>2, <2>1 DEF OutboxOK
<1> QED BY <1>3, <1>4, <1>5 DEF RoundInv

LEMMA SendKeeps ==
    ASSUME RoundConstants, RoundInv, Send
    PROVE  RoundInv'
<1> USE DEF Send, serverVars
<1>1. SpaceOK' /\ RowOK' /\ AnswersOK'
    BY DeviceKeepsServer
<1>2. BindingOK' /\ InboxOK'
    BY Untouched
<1>3. CallOK(Request, answered)
    BY DEF RoundConstants, RoundInv, BindingOK, OutboxOK, CallOK, CallFields, Request
<1>4. calls'["live"] = Request /\ calls'["stray"] = calls["stray"] /\ DOMAIN calls' = Sides
    BY DEF RoundInv, CallsOK, Sides
<1>5. CallOK(calls["live"], answered)'
    BY <1>4, <1>3 DEF CallOK, Request
<1>6. CallsOK'
    BY <1>4, <1>5 DEF RoundInv, CallsOK, CallOK, Sides
<1>7. LiveOK'
    BY <1>4, <1>5 DEF LiveOK, Request
<1>8. OutboxOK'
    <2>1. OutboxOK /\ UNCHANGED <<binding, answered, handler>> /\ DOMAIN picked' = {}
        BY DEF RoundInv
    <2>2. /\ DOMAIN outbox' = DOMAIN outbox
          /\ \A s \in DOMAIN outbox :
                 outbox'[s] = IF s \in DOMAIN picked
                              THEN [outbox[s] EXCEPT !.status = "IN_FLIGHT"] ELSE outbox[s]
        OBVIOUS
    <2>3. ASSUME NEW s \in DOMAIN outbox
          PROVE  /\ outbox'[s] \in Pending
                 /\ (outbox'[s].status = "RESOLVED") = (outbox'[s].settle # None)
                 /\ outbox'[s].status = "RESOLVED" =>
                        s \in DOMAIN answered /\ outbox'[s].settle = answered[s]
        BY <2>1, <2>2 DEF OutboxOK, Pending
    <2> QED BY <2>1, <2>2, <2>3 DEF OutboxOK
<1> QED BY <1>1, <1>2, <1>6, <1>7, <1>8 DEF RoundInv

\* The round gets its answer: nobody waits any more.
LEMMA CallEnds ==
    ASSUME RoundInv, UNCHANGED <<answered>>, calls' = [calls EXCEPT !["live"] = None]
    PROVE  CallsOK' /\ calls'["live"] = None
BY DEF RoundInv, CallsOK, CallOK, Sides

LEMMA HaltKeeps ==
    ASSUME RoundInv, Halt
    PROVE  RoundInv'
<1> USE DEF Halt, serverVars
<1>1. SpaceOK' /\ RowOK' /\ AnswersOK'
    BY DeviceKeepsServer
<1>2. CallsOK' /\ calls'["live"] = None
    BY CallEnds
<1>3. calls["live"].code \in Codes
    BY DEF RoundInv, LiveOK, CallOK
<1>4. BindingOK'
    BY <1>3 DEF RoundInv, BindingOK
<1>5. /\ binding'.received = binding.received /\ binding'.epoch = binding.epoch
      /\ binding'.clientSeq = binding.clientSeq
    BY DEF RoundInv, BindingOK
<1>6. InboxOK' /\ OutboxOK'
    BY <1>5 DEF RoundInv, InboxOK, OutboxOK
<1>7. LiveOK'
    BY <1>2 DEF LiveOK
<1> QED BY <1>1, <1>2, <1>4, <1>6, <1>7 DEF RoundInv

LEMMA IngestKeeps ==
    ASSUME RoundConstants, RoundInv, Ingest
    PROVE  RoundInv'
<1> DEFINE c == calls["live"]
<1>1. SpaceOK' /\ RowOK' /\ AnswersOK'
    BY DeviceKeepsServer DEF Ingest
<1>2. CallsOK' /\ calls'["live"] = None
    BY CallEnds DEF Ingest, serverVars
<1>3. CallOK(c, answered) /\ PageOK(c.page)
    BY DEF RoundInv, Ingest, LiveOK
<1>4. BindingOK /\ InboxOK /\ OutboxOK /\ AnswersOK
    BY DEF RoundInv
<1>5. MaxRev \in Nat /\ None \notin Int
    BY DEF RoundConstants
<1>6. binding.received \in Nat /\ binding.applied \in Nat /\ binding.applied <= binding.received
    BY <1>4, <1>5 DEF BindingOK
<1>7. c.page.through \in binding.received .. MaxRev
    BY <1>3 DEF PageOK
<1>8. Advanced(c.page) = c.page.through
    BY <1>5, <1>6, <1>7 DEF Advanced
<1>9. binding' = [binding EXCEPT !.received = c.page.through]
    BY <1>8 DEF Ingest
<1>10. BindingOK' /\ binding'.received = c.page.through /\ binding'.epoch = binding.epoch
       /\ binding'.clientSeq = binding.clientSeq
    BY <1>4, <1>5, <1>6, <1>7, <1>9 DEF BindingOK
<1>11. InboxOK'
    <2>1. inbox' = [r \in DOMAIN inbox \cup DOMAIN c.page.rows |->
                       IF r \in DOMAIN c.page.rows THEN c.page.rows[r] ELSE inbox[r]]
        BY DEF Ingest
    <2>2. DOMAIN inbox = 1 .. binding.received
          /\ DOMAIN c.page.rows = binding.received + 1 .. c.page.through
        BY <1>3, <1>4 DEF InboxOK, PageOK
    <2>3. (1 .. binding.received) \cup (binding.received + 1 .. c.page.through)
              = 1 .. c.page.through
        BY <1>5, <1>6, <1>7
    <2>4. DOMAIN inbox' = 1 .. binding'.received
        BY <2>1, <2>2, <2>3, <1>10
    <2>5. ASSUME binding.epoch = space.epoch
          PROVE  /\ c.page.through <= space.rev
                 /\ \A r \in DOMAIN inbox' : r > space.floor => inbox'[r] = space.journal[r]
        BY <1>3, <1>4, <2>1, <2>5 DEF InboxOK, PageOK
    <2> QED BY <2>4, <2>5, <1>10 DEF InboxOK, Ingest, serverVars
<1>12. OutboxOK'
    <2>1. \A s \in DOMAIN c.results : /\ s \in DOMAIN answered /\ c.results[s] = answered[s]
                                      /\ answered[s] \in 0 .. MaxRev /\ answered[s] # None
        BY <1>3, <1>4, <1>5 DEF CallOK, AnswersOK
    <2>2. /\ DOMAIN outbox' = DOMAIN outbox
          /\ \A s \in DOMAIN outbox :
                 outbox'[s] = IF s \in DOMAIN c.results
                              THEN [outbox[s] EXCEPT !.status = "RESOLVED",
                                                     !.settle = c.results[s]]
                              ELSE outbox[s]
        BY DEF Ingest
    <2>3. ASSUME NEW s \in DOMAIN outbox
          PROVE  /\ outbox'[s] \in Pending
                 /\ (outbox'[s].status = "RESOLVED") = (outbox'[s].settle # None)
                 /\ outbox'[s].status = "RESOLVED" =>
                        s \in DOMAIN answered /\ outbox'[s].settle = answered[s]
        <3>1. CASE s \in DOMAIN c.results
            <4>1. outbox'[s] = [outbox[s] EXCEPT !.status = "RESOLVED", !.settle = answered[s]]
                BY <2>1, <2>2, <3>1
            <4>2. outbox[s] \in Pending
                BY <1>4 DEF OutboxOK
            <4>3. outbox'[s].status = "RESOLVED" /\ outbox'[s].settle = answered[s]
                BY <4>1, <4>2 DEF Pending
            <4>4. outbox'[s] \in Pending
                BY <2>1, <3>1, <4>1, <4>2 DEF Pending
            <4> QED BY <2>1, <3>1, <4>3, <4>4
        <3>2. CASE s \notin DOMAIN c.results
            BY <1>4, <2>2, <3>2 DEF OutboxOK
        <3> QED BY <3>1, <3>2
    <2>4. DOMAIN picked = {} /\ UNCHANGED <<picked, handler, answered>>
        BY <1>4 DEF OutboxOK, Ingest, serverVars
    <2> QED BY <1>4, <1>10, <2>2, <2>3, <2>4 DEF OutboxOK
<1>13. LiveOK'
    BY <1>2 DEF Ingest, LiveOK
<1> QED BY <1>1, <1>2, <1>10, <1>11, <1>12, <1>13 DEF RoundInv

LEMMA ApplyNextKeeps ==
    ASSUME RoundConstants, RoundInv, ApplyNext
    PROVE  RoundInv'
<1> USE DEF ApplyNext, serverVars
<1>1. SpaceOK' /\ RowOK' /\ AnswersOK'
    BY DeviceKeepsServer
<1>2. CallsOK'
    BY Untouched
<1>3. BindingOK' /\ binding'.received = binding.received /\ binding'.epoch = binding.epoch
      /\ binding'.clientSeq = binding.clientSeq
    BY DEF RoundConstants, RoundInv, BindingOK, InboxOK, Unapplied
<1>4. InboxOK' /\ OutboxOK'
    BY <1>3 DEF RoundInv, InboxOK, OutboxOK
<1>5. LiveOK'
    BY DEF RoundInv, LiveOK
<1> QED BY <1>1, <1>2, <1>3, <1>4, <1>5 DEF RoundInv

LEMMA SettleKeeps ==
    ASSUME RoundInv, Settle
    PROVE  RoundInv'
<1> USE DEF Settle, serverVars
<1>1. SpaceOK' /\ RowOK' /\ AnswersOK'
    BY DeviceKeepsServer
<1>2. BindingOK' /\ InboxOK' /\ CallsOK' /\ LiveOK'
    BY Untouched
<1>3. OutboxOK'
    BY DEF RoundInv, OutboxOK
<1> QED BY <1>1, <1>2, <1>3 DEF RoundInv

LEMMA AbandonKeeps ==
    ASSUME RoundInv, Abandon
    PROVE  RoundInv'
<1> USE DEF Abandon, serverVars, replicaVars
<1>1. SpaceOK' /\ RowOK' /\ AnswersOK'
    BY DeviceKeepsServer
<1>2. BindingOK' /\ InboxOK'
    BY Untouched
<1>3. DOMAIN picked' = {}
    OBVIOUS
<1>4. OutboxOK'
    BY <1>3 DEF RoundInv, OutboxOK
<1>5. CallsOK' /\ calls'["live"] = None
    BY DEF RoundInv, CallsOK, CallOK, Sides
<1>6. LiveOK'
    BY <1>5 DEF LiveOK
<1> QED BY <1>1, <1>2, <1>4, <1>5, <1>6 DEF RoundInv

---------------------------------------------------------------------------
(* The server *)

\* A request that goes on as c stays one, and the device still waits for it; answers
\* only become more, so that what a request was told stays what was answered.
LEMMA CallGoesOn ==
    ASSUME RoundConstants, RoundInv, NEW w \in Sides, calls[w] # None, NEW c, Becomes(w, c),
           CallOK(c, answered'), c.epoch = calls[w].epoch, c.received = calls[w].received,
           w = "live" /\ c.phase \in {"read", "answered"} => PageOK(c.page),
           \A s \in DOMAIN answered : s \in DOMAIN answered' /\ answered'[s] = answered[s],
           UNCHANGED <<binding, inbox, pc>>, SpaceOK', HistoryStays
    PROVE  CallsOK' /\ LiveOK' /\ InboxOK'
<1>1. /\ DOMAIN calls' = Sides
      /\ calls'[w] = c \/ (w = "stray" /\ calls'[w] = None)
      /\ \A v \in Sides \ {w} : calls'[v] = calls[v]
    BY DEF RoundInv, CallsOK, Becomes, Sides
<1>2. \A v \in Sides : calls[v] # None => CallOK(calls[v], answered')
    BY DEF RoundInv, CallsOK, CallOK
<1>3. CallsOK'
    BY <1>1, <1>2 DEF CallsOK
<1>4. InboxOK' /\ \A p : PageOK(p) => PageOK(p)'
    BY RowsStay DEF RoundInv
<1>5. LiveOK'
    <2>1. CASE w = "stray"
        <3>1. calls'["live"] = calls["live"]
            BY <1>1, <2>1 DEF Sides
        <3> QED BY <1>2, <1>4, <3>1 DEF RoundInv, LiveOK, CallOK
    <2>2. CASE w = "live"
        <3>1. calls'["live"] = c
            BY <1>1, <2>2
        <3>2. pc = "waiting" /\ LiveOK
            BY <2>2 DEF RoundInv, LiveOK
        <3>3. c.phase \in {"read", "answered"} => PageOK(c.page)'
            BY <1>4, <2>2
        <3> QED BY <2>2, <3>1, <3>2, <3>3 DEF LiveOK
    <2> QED BY <2>1, <2>2 DEF Sides
<1> QED BY <1>3, <1>4, <1>5

\* Nothing on the device changes while the server works.
LEMMA ServeKeepsDevice ==
    ASSUME RoundInv, UNCHANGED <<replicaVars, handler, roundVars>>,
           \A s \in DOMAIN answered : s \in DOMAIN answered' /\ answered'[s] = answered[s]
    PROVE  BindingOK' /\ OutboxOK'
BY DEF RoundInv, replicaVars, roundVars, BindingOK, OutboxOK

\* The steps that only take the request further.
LEMMA CallAloneKeeps ==
    ASSUME RoundConstants, RoundInv, NEW w \in Sides, calls[w] # None, NEW c, Becomes(w, c),
           CallOK(c, answered), c.epoch = calls[w].epoch, c.received = calls[w].received,
           w = "live" /\ c.phase \in {"read", "answered"} => PageOK(c.page),
           RowOK', row'.maxSeq = row.maxSeq,
           UNCHANGED <<space, receipts, answered, effects, replicaVars, handler, roundVars>>
    PROVE  RoundInv'
<1>1. SpaceOK' /\ AnswersOK' /\ HistoryStays
    BY DEF RoundInv, SpaceOK, AnswersOK, HistoryStays
<1>2. BindingOK' /\ OutboxOK'
    BY ServeKeepsDevice
<1>3. CallsOK' /\ LiveOK' /\ InboxOK'
    BY <1>1, CallGoesOn DEF replicaVars, roundVars
<1> QED BY <1>1, <1>2, <1>3 DEF RoundInv

LEMMA AdmitKeeps ==
    ASSUME RoundConstants, RoundInv, NEW w \in Sides, calls[w] # None, Admit(w),
           UNCHANGED <<replicaVars, handler, roundVars, faults>>
    PROVE  RoundInv'
<1>1. CallOK(calls[w], answered)
    BY DEF RoundInv, CallsOK
<1>2. Advice(calls[w]) \in Codes \cup {"ok"}
    BY DEF Advice, Codes
<1>3. PICK c : c = IF Advice(calls[w]) = "ok" THEN [calls[w] EXCEPT !.phase = "operations"]
                   ELSE Refused(calls[w], Advice(calls[w]))
    OBVIOUS
<1>4. Becomes(w, c)
    BY <1>3 DEF Admit
<1>5. /\ CallOK(c, answered) /\ c.epoch = calls[w].epoch /\ c.received = calls[w].received
      /\ c.phase \in {"operations", "refused"}
    BY <1>1, <1>2, <1>3 DEF CallOK, CallFields, Refused
<1>6. UNCHANGED <<space, row, receipts, answered, effects>> /\ RowOK'
    BY DEF RoundInv, Admit, serverVars, RowOK
<1> QED BY <1>4, <1>5, <1>6, CallAloneKeeps

LEMMA ReadPageKeeps ==
    ASSUME RoundConstants, RoundInv, NEW w \in Sides, calls[w] # None, ReadPage(w),
           UNCHANGED <<replicaVars, handler, roundVars, faults>>
    PROVE  RoundInv'
<1>1. CallOK(calls[w], answered)
    BY DEF RoundInv, CallsOK
<1>2. PageVerdict(calls[w]) \in Codes \cup {"ok"}
    BY DEF PageVerdict, Codes
<1>3. PICK c : c = IF PageVerdict(calls[w]) = "ok"
                   THEN [calls[w] EXCEPT !.phase = "read", !.page = Page(calls[w])]
                   ELSE Refused(calls[w], PageVerdict(calls[w]))
    OBVIOUS
<1>4. Becomes(w, c)
    BY <1>3 DEF ReadPage
<1>5. /\ CallOK(c, answered) /\ c.epoch = calls[w].epoch /\ c.received = calls[w].received
      /\ c.phase = "read" => PageVerdict(calls[w]) = "ok" /\ c.page = Page(calls[w])
      /\ c.phase \in {"read", "refused"}
    BY <1>1, <1>2, <1>3 DEF CallOK, CallFields, Refused
<1>6. ASSUME w = "live", c.phase = "read"
      PROVE  PageOK(c.page)
    <2>1. PageVerdict(calls[w]) = "ok" /\ c.page = Page(calls[w])
        BY <1>5, <1>6
    <2>2. calls[w].epoch = space.epoch /\ space.floor <= calls[w].received
        BY <2>1, <1>1 DEF PageVerdict, RoundInv, SpaceOK, CallOK
    <2>3. calls[w].epoch = binding.epoch /\ calls[w].received = binding.received
        BY <1>6 DEF RoundInv, LiveOK
    <2>4. binding.received <= space.rev
        BY <2>2, <2>3 DEF RoundInv, InboxOK
    <2>5. /\ Page(calls[w]).through \in binding.received .. space.rev
          /\ DOMAIN Page(calls[w]).rows = binding.received + 1 .. Page(calls[w]).through
          /\ \A r \in DOMAIN Page(calls[w]).rows : Page(calls[w]).rows[r] = space.journal[r]
        BY <1>1, <2>2, <2>3, <2>4, PageIsNext DEF RoundInv, CallOK
    <2>6. space.rev \in Nat /\ space.rev <= MaxRev /\ MaxRev \in Nat /\ binding.received \in Nat
        BY DEF RoundConstants, RoundInv, SpaceOK, BindingOK
    <2> QED BY <2>1, <2>5, <2>6 DEF PageOK
<1>7. UNCHANGED <<space, row, receipts, answered, effects>> /\ RowOK'
    BY DEF RoundInv, ReadPage, serverVars, RowOK
<1> QED BY <1>4, <1>5, <1>6, <1>7, CallAloneKeeps

LEMMA ReportKeeps ==
    ASSUME RoundConstants, RoundInv, NEW w \in Sides, calls[w] # None, Report(w),
           UNCHANGED <<replicaVars, handler, roundVars, faults>>
    PROVE  RoundInv'
<1>1. CallOK(calls[w], answered)
    BY DEF RoundInv, CallsOK
<1>2. PICK c : c = [calls[w] EXCEPT !.phase = "answered"]
    OBVIOUS
<1>3. Becomes(w, c) /\ calls[w].phase = "read"
    BY <1>2 DEF Report
<1>4. /\ CallOK(c, answered) /\ c.epoch = calls[w].epoch /\ c.received = calls[w].received
      /\ c.page = calls[w].page
    BY <1>1, <1>2 DEF CallOK, CallFields
<1>5. w = "live" => PageOK(c.page)
    BY <1>3, <1>4 DEF RoundInv, LiveOK
<1>6. RowOK' /\ row'.maxSeq = row.maxSeq
    BY <1>1 DEF RoundInv, Report, RowOK, Watermarks, CallOK
<1> QED BY <1>3, <1>4, <1>5, <1>6, CallAloneKeeps DEF Report

\* One operation is answered: its sequence number was fresh, it takes the watermark
\* along, and at most one row is written for it.
LEMMA DecideKeeps ==
    ASSUME RoundConstants, RoundInv, NEW w \in Sides, calls[w] # None,
           NEW s \in calls[w].todo, s > row.maxSeq, Decide(w, s),
           UNCHANGED <<replicaVars, handler, roundVars, faults>>
    PROVE  RoundInv'
<1>1. CallOK(calls[w], answered) /\ SpaceOK /\ RowOK /\ AnswersOK
    BY DEF RoundInv, CallsOK
<1> DEFINE sp(written) == IF written THEN Appended(s) ELSE space
           Taken(written, settle) ==
               /\ space' = sp(written)
               /\ row' = [row EXCEPT !.maxSeq = IF @ < s THEN s ELSE @]
               /\ receipts' = With(receipts, s, [body |-> calls[w].ops[s].body,
                                                 settle |-> settle, at |-> sp(written).rev])
               /\ Becomes(w, Replied(calls[w], s, settle))
               /\ answered' = IF s \in DOMAIN answered THEN answered
                              ELSE With(answered, s, settle)
               /\ effects' = [effects EXCEPT ![s] = @ + (sp(written).rev - space.rev)]
<1>15. PICK written \in BOOLEAN :
          /\ sp(written).rev <= MaxRev
          /\ \E settle \in IF written THEN {sp(written).rev} ELSE 0 .. sp(written).rev :
                 Taken(written, settle)
    BY Zenon DEF Decide
<1>16. PICK settle \in IF written THEN {sp(written).rev} ELSE 0 .. sp(written).rev :
          Taken(written, settle)
    BY <1>15
<1>2. /\ sp(written).rev <= MaxRev /\ Taken(written, settle)
      /\ settle \in IF written THEN {sp(written).rev} ELSE 0 .. sp(written).rev
    BY <1>15, <1>16
<1>3. s \in 1 .. MaxSeq /\ s \notin DOMAIN answered /\ s \notin DOMAIN receipts /\ effects[s] = 0
    BY <1>1 DEF CallOK, RowOK, AnswersOK
<1>4. /\ SpaceOK' /\ HistoryStays
      /\ space'.rev - space.rev \in 0 .. 1 /\ settle \in 0 .. MaxRev
    <2>1. CASE written
        <3>1. space' = Appended(s) /\ Appended(s).rev = space.rev + 1 /\ settle = space.rev + 1
              /\ space.rev + 1 <= MaxRev
            BY <1>1, <1>2, <2>1 DEF SpaceOK, Appended
        <3> QED BY <1>1, <3>1, AppendedStays DEF SpaceOK, RoundConstants
    <2>2. CASE ~written
        <3>1. space' = space /\ settle \in 0 .. space.rev
            BY <1>2, <2>2
        <3> QED BY <1>1, <3>1 DEF SpaceOK, HistoryStays, RoundConstants
    <2> QED BY <2>1, <2>2
<1>5. RowOK' /\ row'.maxSeq = s
    BY <1>1, <1>2, <1>3 DEF RowOK
<1>6. answered' = With(answered, s, settle) /\ receipts'[s].settle = settle
      /\ DOMAIN receipts' = DOMAIN receipts \cup {s}
      /\ \A t \in DOMAIN receipts : t # s => receipts'[t] = receipts[t]
    BY <1>2, <1>3 DEF With
<1>7. AnswersOK'
    <2>1. effects' \in [1 .. MaxSeq -> 0 .. 1] /\ \A t \in 1 .. MaxSeq : t > s => effects'[t] = 0
        BY <1>1, <1>2, <1>3, <1>4 DEF AnswersOK, RowOK
    <2> QED BY <1>1, <1>3, <1>4, <1>5, <1>6, <2>1 DEF AnswersOK, RowOK, With
<1>8. \A t \in DOMAIN answered : t \in DOMAIN answered' /\ answered'[t] = answered[t]
    BY <1>3, <1>6 DEF With
<1>9. PICK c : c = Replied(calls[w], s, settle)
    OBVIOUS
<1>10. /\ Becomes(w, c) /\ c.epoch = calls[w].epoch /\ c.received = calls[w].received
       /\ c.page = calls[w].page /\ c.phase = calls[w].phase
    BY <1>1, <1>2, <1>9 DEF CallOK, CallFields, Replied
<1>11. CallOK(c, answered')
    <2>1. c.results = With(calls[w].results, s, settle) /\ c.todo = calls[w].todo \ {s}
          /\ c.applied = calls[w].applied /\ c.code = calls[w].code /\ DOMAIN c = CallFields
        BY <1>1, <1>9 DEF CallOK, CallFields, Replied
    <2>2. \A t \in DOMAIN c.results : t \in DOMAIN answered' /\ c.results[t] = answered'[t]
        BY <1>1, <1>3, <1>6, <1>8, <2>1 DEF CallOK, With
    <2> QED BY <1>1, <1>10, <2>1, <2>2 DEF CallOK
<1>12. w = "live" /\ c.phase \in {"read", "answered"} => PageOK(c.page)
    BY <1>10 DEF RoundInv, LiveOK
<1>13. CallsOK' /\ LiveOK' /\ InboxOK'
    BY <1>4, <1>8, <1>10, <1>11, <1>12, CallGoesOn DEF replicaVars, roundVars
<1>14. BindingOK' /\ OutboxOK'
    BY <1>8, ServeKeepsDevice
<1> QED BY <1>4, <1>5, <1>7, <1>13, <1>14 DEF RoundInv

LEMMA ProcessKeeps ==
    ASSUME RoundConstants, RoundInv, NEW w \in Sides, calls[w] # None, Process(w),
           UNCHANGED <<replicaVars, handler, roundVars, faults>>
    PROVE  RoundInv'
<1> DEFINE s == NextOp(calls[w])
           verdict == Verdict(calls[w], s)
<1>1. CallOK(calls[w], answered)
    BY DEF RoundInv, CallsOK
<1>2. s \in calls[w].todo
    BY <1>1, NextOpIsOne DEF Process, CallOK
<1>3. verdict \in Codes \cup {"replay", "decide"}
    BY DEF Verdict, Codes
<1>4. CASE verdict = "decide"
    <2>1. s \in 1 .. MaxSeq /\ row.maxSeq \in Nat
        BY <1>1, <1>2 DEF RoundInv, RowOK, CallOK
    <2>2. s > row.maxSeq
        BY <1>4, <2>1 DEF Verdict
    <2>3. Decide(w, s)
        BY <1>4 DEF Process
    <2> HIDE DEF s
    <2> QED BY <1>2, <2>2, <2>3, DecideKeeps
<1>5. CASE verdict # "decide"
    <2>1. PICK c : c = IF verdict = "replay" THEN Replied(calls[w], s, receipts[s].settle)
                       ELSE Refused(calls[w], verdict)
        OBVIOUS
    <2>2. Becomes(w, c) /\ UNCHANGED serverVars /\ calls[w].phase = "operations"
        BY <1>5, <2>1 DEF Process
    <2>3. verdict = "replay" => s \in DOMAIN receipts
        BY DEF Verdict
    <2>4. verdict = "replay" => s \in DOMAIN answered /\ receipts[s].settle = answered[s]
        BY <2>3 DEF RoundInv, AnswersOK
    <2> HIDE DEF s, verdict
    <2>5. /\ CallOK(c, answered) /\ c.epoch = calls[w].epoch /\ c.received = calls[w].received
          /\ c.phase \in {"operations", "refused"}
        <3>1. CASE verdict = "replay"
            BY <1>1, <2>1, <2>2, <2>4, <3>1 DEF CallOK, CallFields, Replied, With
        <3>2. CASE verdict # "replay"
            BY <1>1, <1>3, <1>5, <2>1, <3>2 DEF CallOK, CallFields, Refused
        <3> QED BY <3>1, <3>2
    <2>6. RowOK' /\ row'.maxSeq = row.maxSeq
        BY <2>2 DEF RoundInv, serverVars, RowOK
    <2> QED BY <2>2, <2>5, <2>6, CallAloneKeeps DEF serverVars
<1> QED BY <1>4, <1>5

LEMMA ServeKeeps ==
    ASSUME RoundConstants, RoundInv, NEW w \in Sides, Serve(w)
    PROVE  RoundInv'
BY AdmitKeeps, ProcessKeeps, ReadPageKeeps, ReportKeeps DEF Serve

---------------------------------------------------------------------------
(* The theorems *)

LEMMA InitEstablishes ==
    ASSUME RoundConstants, Init
    PROVE  RoundInv
<1> USE DEF Init
<1>1. SpaceOK /\ RowOK /\ AnswersOK
    BY DEF RoundConstants, SpaceOK, RowOK, AnswersOK
<1>2. BindingOK /\ OutboxOK /\ InboxOK
    BY DEF RoundConstants, BindingOK, OutboxOK, InboxOK
<1>3. CallsOK /\ LiveOK
    BY DEF CallsOK, LiveOK, Sides
<1> QED BY <1>1, <1>2, <1>3 DEF RoundInv

LEMMA NextKeeps ==
    ASSUME RoundConstants, RoundInv, [Next]_vars
    PROVE  RoundInv'
<1>1. CASE Next
    BY <1>1, CaptureKeeps, HandlersKeep, ReadsKeep, SendKeeps, HaltKeeps, IngestKeeps,
       ApplyNextKeeps, SettleKeeps, AbandonKeeps, ServeKeeps, WebEditKeeps,
       CollectJournalKeeps, RestoreKeeps, RevokeKeeps DEF Next, NextCaptured, Round
<1>2. CASE UNCHANGED vars
    BY <1>2 DEF vars, serverVars, replicaVars, roundVars, RoundInv, SpaceOK, RowOK, AnswersOK,
                BindingOK, OutboxOK, InboxOK, CallsOK, LiveOK, PageOK
<1> QED BY <1>1, <1>2

\* Device, server and everything under way between them agree, in every reachable state:
\* the invariant the theorems below follow from.
THEOREM RoundInvariant == Spec => []RoundInv
<1>1. Init => RoundInv
    BY InitEstablishes, RoundConstants
<1>2. RoundInv /\ [Next]_vars => RoundInv'
    BY NextKeeps, RoundConstants
<1> QED BY <1>1, <1>2, PTL DEF Spec

\* The records of device and server keep their types, and the watermarks their order,
\* whatever rounds, strays, handlers and the world do (TypeOK).
THEOREM TypeCorrect == Spec => []TypeOK
<1>1. RoundInv => TypeOK
    BY RoundConstants DEF RoundInv, SpaceOK, RowOK, BindingOK, OutboxOK, InboxOK, LiveOK, TypeOK
<1> QED BY <1>1, RoundInvariant, PTL

\* For any number of operations, lost requests, strays and restores: an operation writes
\* at most one row and the device keeps the first answer (service.go:274-345).
THEOREM AnsweredOnce == Spec => []OneAnswer
<1>1. RoundInv => OneAnswer
    BY DEF RoundInv, AnswersOK, OutboxOK, OneAnswer, WithStatus
<1> QED BY <1>1, RoundInvariant, PTL

\* For any page size and any retention: the device's inbox is a gapless copy of the
\* journal up to its watermark (syncCoordinator.ts:108-136, service.go:163-187).
THEOREM InboxWithoutGap == Spec => []InboxIsJournal
<1>1. RoundInv => InboxIsJournal
    BY DEF RoundInv, SpaceOK, BindingOK, InboxOK, InboxIsJournal
<1> QED BY <1>1, RoundInvariant, PTL

\* No request, however late it is finished, takes back what the device has reported
\* (device.go:350-364).
THEOREM ReportsNeverBack == Spec => ReportsGrow
<1>1. ASSUME RoundInv, [Next]_vars
      PROVE  [\/ row'.applied >= row.applied /\ row'.received >= row.received
              \/ row'.state # "active"]_row
    <2>1. CASE Next
        <3>1. UNCHANGED row \/ Restore \/ Revoke \/ \E w \in Sides : Process(w) \/ Report(w)
            BY <2>1 DEF Next, NextCaptured, Round, Capture, FindQueuedCreate, Amend, Withdraw,
                        ReadQueued, ReadInFlight, Send, Halt, Ingest, ApplyNext, Settle, Abandon,
                        Serve, Admit, ReadPage, WebEdit, CollectJournal, serverVars
        <3>2. CASE Restore \/ Revoke
            BY <1>1, <3>2 DEF RoundInv, RowOK, Restore, Revoke
        <3>3. ASSUME NEW w \in Sides, Process(w) \/ Report(w)
              PROVE  \/ UNCHANGED row
                     \/ row'.applied >= row.applied /\ row'.received >= row.received
            <4>1. CASE Process(w)
                <5>1. UNCHANGED row \/ row' = [row EXCEPT !.maxSeq = row'.maxSeq]
                    BY <1>1, <4>1 DEF RoundInv, RowOK, Process, Decide, serverVars
                <5> QED BY <1>1, <5>1 DEF RoundInv, RowOK
            <4>2. CASE Report(w)
                BY <1>1, <4>2 DEF RoundInv, RowOK, Report, Watermarks
            <4> QED BY <3>3, <4>1, <4>2
        <3> QED BY <3>1, <3>2, <3>3
    <2>2. CASE UNCHANGED vars
        BY <2>2 DEF vars, serverVars
    <2> QED BY <1>1, <2>1, <2>2
<1> QED BY <1>1, RoundInvariant, PTL DEF Spec, ReportsGrow

---------------------------------------------------------------------------
(* The ledger: what the invariant adds *)

\* With an operation, S has all earlier ones that are still unanswered.
Closed(S) == \A t \in S : \A u \in row.maxSeq + 1 .. t : u \in S

\* The answered operations are those up to the watermark, and the outbox has the others.
InOrder ==
    /\ DOMAIN answered = 1 .. row.maxSeq
    /\ row.maxSeq <= binding.clientSeq
    /\ \A s \in row.maxSeq + 1 .. binding.clientSeq :
           s \in DOMAIN outbox /\ outbox[s].status \in {"QUEUED", "IN_FLIGHT"}

RequestsClosed ==
    /\ pc = "queued" => Closed(DOMAIN picked \cup WithStatus("IN_FLIGHT"))
    /\ pc = "picked" => Closed(DOMAIN picked)
    /\ \A w \in Sides : calls[w] # None =>
           calls[w].todo \subseteq 1 .. binding.clientSeq /\ Closed(calls[w].todo)

\* A round goes on only while the binding is active.
RoundIsActive == pc # "idle" => binding.state = "active"

LedgerInv ==
    /\ RoundInv /\ InOrder /\ RequestsClosed
    /\ RoundIsActive

---------------------------------------------------------------------------
(* The invariant *)

LEMMA ActiveKept ==
    ASSUME RoundInv, RoundIsActive, NextCaptured
    PROVE  RoundIsActive'
<1>1. ASSUME Capture \/ Ingest \/ ApplyNext
      PROVE  binding'.state = binding.state /\ (pc' # "idle" => pc # "idle")
    BY <1>1 DEF RoundInv, BindingOK, Capture, Ingest, ApplyNext, roundVars
<1>2. CASE ReadQueued \/ ReadInFlight \/ Send \/ Halt \/ Settle \/ Abandon
    BY <1>2 DEF RoundIsActive, ReadQueued, ReadInFlight, Send, Halt, Settle, Abandon, replicaVars
<1>3. CASE WebEdit \/ CollectJournal \/ Restore \/ Revoke \/ \E w \in Sides : Serve(w)
    BY <1>3 DEF RoundIsActive, WebEdit, CollectJournal, Restore, Revoke, Serve, worldUnchanged,
                replicaVars, roundVars
<1> QED BY <1>1, <1>2, <1>3 DEF RoundIsActive, NextCaptured, Round

\* Steps that leave watermark, answers and edits alone.
LEMMA OrderUntouched ==
    ASSUME RoundInv, InOrder, RequestsClosed,
           row'.maxSeq = row.maxSeq, UNCHANGED <<answered, outbox, picked, pc, calls>>,
           binding'.clientSeq = binding.clientSeq
    PROVE  InOrder' /\ RequestsClosed'
BY DEF InOrder, RequestsClosed, Closed, WithStatus

LEMMA WorldKeepsOrder ==
    ASSUME RoundInv, InOrder, RequestsClosed,
           WebEdit \/ CollectJournal \/ Restore \/ Revoke
    PROVE  InOrder' /\ RequestsClosed'
<1>1. row'.maxSeq = row.maxSeq
    BY DEF RoundInv, RowOK, WebEdit, CollectJournal, Restore, Revoke
<1>2. UNCHANGED <<answered, outbox, picked, pc, calls, binding>>
    BY DEF WebEdit, CollectJournal, Restore, Revoke, worldUnchanged, replicaVars, roundVars
<1> QED BY <1>1, <1>2, OrderUntouched

LEMMA CaptureKeepsOrder ==
    ASSUME RoundConstants, RoundInv, InOrder, RequestsClosed, Capture
    PROVE  InOrder' /\ RequestsClosed'
<1>1. /\ binding'.clientSeq = binding.clientSeq + 1 /\ binding.clientSeq \in Nat
      /\ UNCHANGED <<row, answered, picked, pc, calls>>
      /\ row.maxSeq \in Nat
    BY DEF RoundConstants, RoundInv, RowOK, BindingOK, Capture, serverVars, roundVars
<1>2. /\ DOMAIN outbox' = DOMAIN outbox \cup {binding.clientSeq + 1}
      /\ \A s \in DOMAIN outbox : outbox'[s] = outbox[s]
      /\ outbox'[binding.clientSeq + 1].status = "QUEUED"
    BY <1>1 DEF RoundInv, OutboxOK, Capture, With
<1>3. InOrder'
    BY <1>1, <1>2 DEF InOrder
<1>4. WithStatus("IN_FLIGHT")' = WithStatus("IN_FLIGHT")
    BY <1>1, <1>2 DEF WithStatus, RoundInv, OutboxOK
<1>5. RequestsClosed'
    BY <1>1, <1>4 DEF RequestsClosed, Closed
<1> QED BY <1>3, <1>5

LEMMA ReadsKeepOrder ==
    ASSUME RoundConstants, RoundInv, InOrder, RequestsClosed, ReadQueued \/ ReadInFlight
    PROVE  InOrder' /\ RequestsClosed'
<1>1. UNCHANGED <<row, answered, outbox, binding, calls>>
    BY DEF ReadQueued, ReadInFlight, serverVars, replicaVars
<1>2. InOrder'
    BY <1>1 DEF InOrder
<1>3. CASE ReadQueued
    <2>1. DOMAIN picked' = WithStatus("QUEUED") /\ pc' = "queued"
        BY <1>3 DEF ReadQueued, Payloads
    <2>2. \A t \in WithStatus("QUEUED") \cup WithStatus("IN_FLIGHT") :
              \A u \in row.maxSeq + 1 .. t : u \in WithStatus("QUEUED") \cup WithStatus("IN_FLIGHT")
        <3>1. WithStatus("QUEUED") \cup WithStatus("IN_FLIGHT") \subseteq 1 .. binding.clientSeq
            BY DEF WithStatus, RoundInv, OutboxOK
        <3>2. \A u \in row.maxSeq + 1 .. binding.clientSeq :
                  u \in WithStatus("QUEUED") \cup WithStatus("IN_FLIGHT")
            BY DEF WithStatus, InOrder
        <3>3. row.maxSeq \in Nat /\ binding.clientSeq \in Nat
            BY DEF RoundConstants, RoundInv, RowOK, BindingOK
        <3> QED BY <3>1, <3>2, <3>3
    <2> QED BY <1>1, <1>2, <2>1, <2>2 DEF RequestsClosed, Closed, WithStatus
<1>4. CASE ReadInFlight
    <2>1. DOMAIN picked' = DOMAIN picked \cup WithStatus("IN_FLIGHT") /\ pc = "queued" /\ pc' = "picked"
        BY <1>4 DEF ReadInFlight, Unanswered
    <2> QED BY <1>1, <1>2, <2>1 DEF RequestsClosed, Closed
<1> QED BY <1>3, <1>4

LEMMA SendKeepsOrder ==
    ASSUME RoundConstants, RoundInv, InOrder, RequestsClosed, Send
    PROVE  InOrder' /\ RequestsClosed'
<1>1. UNCHANGED <<row, answered, binding>> /\ pc = "picked" /\ pc' = "waiting"
    BY DEF Send, serverVars
<1>2. /\ DOMAIN outbox' = DOMAIN outbox
      /\ \A s \in DOMAIN outbox : outbox'[s].status \in {outbox[s].status, "IN_FLIGHT"}
    BY DEF Send, RoundInv, OutboxOK, Pending
<1>3. InOrder'
    BY <1>1, <1>2 DEF InOrder
<1>4. calls'["live"].todo = DOMAIN picked /\ calls'["stray"] = calls["stray"]
    BY DEF Send, Request, RoundInv, CallsOK, Sides
<1>5. DOMAIN picked \subseteq 1 .. binding.clientSeq
    BY DEF RoundInv, OutboxOK
<1>6. RequestsClosed'
    BY <1>1, <1>4, <1>5 DEF RequestsClosed, Closed, Sides
<1> QED BY <1>3, <1>6

LEMMA RoundEndKeepsOrder ==
    ASSUME RoundConstants, RoundInv, InOrder, RequestsClosed,
           Halt \/ Ingest \/ ApplyNext \/ Settle \/ Abandon
    PROVE  InOrder' /\ RequestsClosed'
<1>1. UNCHANGED <<row, answered>> /\ pc' \in {"idle", "applying", "again"}
      /\ binding'.clientSeq = binding.clientSeq
    BY DEF RoundInv, BindingOK, Halt, Ingest, ApplyNext, Settle, Abandon, serverVars, replicaVars
<1>2. ASSUME NEW s \in DOMAIN outbox, s \notin DOMAIN answered
      PROVE  s \in DOMAIN outbox' /\ outbox'[s].status = outbox[s].status
    <2>1. CASE Halt \/ ApplyNext \/ Abandon
        BY <1>2, <2>1 DEF Halt, ApplyNext, Abandon, replicaVars
    <2>2. CASE Ingest
        <3>1. s \notin DOMAIN calls["live"].results
            BY <1>2, <2>2 DEF Ingest, RoundInv, LiveOK, CallOK
        <3> QED BY <2>2, <3>1 DEF Ingest
    <2>3. CASE Settle
        BY <1>2, <2>3 DEF Settle, Settled, WithStatus, RoundInv, OutboxOK
    <2> QED BY <2>1, <2>2, <2>3
<1>3. InOrder'
    <2>1. row.maxSeq \in Nat
        BY DEF RoundInv, RowOK
    <2>2. \A s \in row.maxSeq + 1 .. binding.clientSeq : s \in DOMAIN outbox /\ s \notin DOMAIN answered
        BY <2>1 DEF InOrder
    <2> QED BY <1>1, <1>2, <2>2 DEF InOrder
<1>4. \A w \in Sides : calls'[w] # None => \E v \in Sides : calls'[w] = calls[v] /\ calls[v] # None
    <2>1. \/ UNCHANGED calls
          \/ calls' = [calls EXCEPT !["live"] = None]
          \/ calls["live"] # None /\ calls' = [live |-> None, stray |-> calls["live"]]
        BY DEF Halt, Ingest, ApplyNext, Settle, Abandon
    <2>2. DOMAIN calls = {"live", "stray"}
        BY DEF RoundInv, CallsOK, Sides
    <2> QED BY <2>1, <2>2 DEF Sides
<1>5. RequestsClosed'
    BY <1>1, <1>4 DEF RequestsClosed, Closed
<1> QED BY <1>3, <1>5

\* What a step of the server does to the answers: nothing, or the next operation in order
\* is answered.
NextAnswered ==
    /\ row.maxSeq < binding.clientSeq
    /\ row'.maxSeq = row.maxSeq + 1
    /\ \E settle \in 0 .. MaxRev : answered' = With(answered, row.maxSeq + 1, settle)

LEMMA DecidesNext ==
    ASSUME RoundConstants, RoundInv, InOrder, RequestsClosed, NEW w \in Sides, calls[w] # None,
           Process(w), Verdict(calls[w], NextOp(calls[w])) = "decide"
    PROVE  NextAnswered /\ DOMAIN answered' = 1 .. row'.maxSeq
<1> DEFINE s == NextOp(calls[w])
<1>1. CallOK(calls[w], answered) /\ calls[w].todo \subseteq 1 .. binding.clientSeq
      /\ Closed(calls[w].todo)
    BY DEF RoundInv, CallsOK, RequestsClosed
<1>2. s \in calls[w].todo /\ \A t \in calls[w].todo : s <= t
    <2>1. \E t \in calls[w].todo : \A u \in calls[w].todo : t <= u
        BY <1>1, SmallestExists DEF Process, CallOK
    <2> QED BY <2>1 DEF NextOp
<1>3. s \in 1 .. MaxSeq /\ s \in 1 .. binding.clientSeq /\ row.maxSeq \in Nat
    BY <1>1, <1>2 DEF RoundInv, RowOK, CallOK
<1>4. s > row.maxSeq
    BY <1>3 DEF Verdict
<1>5. s = row.maxSeq + 1
    <2> HIDE DEF s
    <2>1. CASE s # row.maxSeq + 1
        <3>1. row.maxSeq + 1 \in row.maxSeq + 1 .. s
            BY <1>3, <1>4
        <3>2. row.maxSeq + 1 \in calls[w].todo
            BY <1>1, <1>2, <3>1 DEF Closed
        <3>3. s <= row.maxSeq + 1
            BY <1>2, <3>2
        <3> QED BY <1>3, <1>4, <2>1, <3>3
    <2> QED BY <2>1
<1>6. Decide(w, s)
    BY DEF Process
<1> HIDE DEF s
<1>7. s \notin DOMAIN answered
    BY <1>3, <1>4 DEF InOrder
<1>8. row' = [row EXCEPT !.maxSeq = IF @ < s THEN s ELSE @]
      /\ \E settle \in 0 .. MaxRev : answered' = With(answered, s, settle)
    <2>1. PICK written \in BOOLEAN :
              LET sp == IF written THEN Appended(s) ELSE space
              IN  /\ sp.rev <= MaxRev
                  /\ \E settle \in IF written THEN {sp.rev} ELSE 0 .. sp.rev :
                         /\ row' = [row EXCEPT !.maxSeq = IF @ < s THEN s ELSE @]
                         /\ answered' = IF s \in DOMAIN answered THEN answered
                                        ELSE With(answered, s, settle)
        BY <1>6, Zenon DEF Decide
    <2>2. /\ space.rev \in Nat /\ MaxRev \in Nat
          /\ Appended(s).rev = space.rev + 1
        BY DEF RoundConstants, RoundInv, SpaceOK, Appended
    <2> QED BY <1>7, <2>1, <2>2
<1>9. row'.maxSeq = row.maxSeq + 1
    BY <1>3, <1>5, <1>8 DEF RoundInv, RowOK
<1>10. binding.clientSeq \in Nat
    BY DEF RoundConstants, RoundInv, BindingOK
<1>11. NextAnswered
    BY <1>3, <1>5, <1>8, <1>9, <1>10 DEF NextAnswered
<1>12. DOMAIN answered' = 1 .. row.maxSeq + 1
    BY <1>3, <1>5, <1>8 DEF InOrder, With
<1> QED BY <1>9, <1>11, <1>12

\* A request loses operations only as they are answered.
LEMMA ServeGoesOn ==
    ASSUME RoundInv, NEW w \in Sides, Serve(w)
    PROVE  \E c : /\ Becomes(w, c)
                  /\ c.todo \subseteq calls[w].todo
                  /\ calls[w].todo \ c.todo \subseteq DOMAIN answered'
<1>1. calls[w] # None /\ CallOK(calls[w], answered)
    BY DEF Serve, RoundInv, CallsOK
<1> DEFINE s == NextOp(calls[w])
<1>2. CASE Admit(w)
    <2>1. PICK c : c = IF Advice(calls[w]) = "ok" THEN [calls[w] EXCEPT !.phase = "operations"]
                       ELSE Refused(calls[w], Advice(calls[w]))
        OBVIOUS
    <2>2. Becomes(w, c)
        BY <1>2, <2>1 DEF Admit
    <2>3. c.todo = calls[w].todo
        BY <1>1, <2>1 DEF Refused, CallOK, CallFields
    <2> QED BY <2>2, <2>3
<1>3. CASE ReadPage(w)
    BY <1>1, <1>3 DEF ReadPage, Refused, CallOK, CallFields
<1>4. CASE Report(w)
    BY <1>1, <1>4 DEF Report, CallOK, CallFields
<1>5. CASE Process(w) /\ Verdict(calls[w], s) = "decide"
    <2>1. Decide(w, s)
        BY <1>5 DEF Process
    <2>2. PICK settle : /\ Becomes(w, Replied(calls[w], s, settle))
                        /\ answered' = IF s \in DOMAIN answered THEN answered
                                       ELSE With(answered, s, settle)
        <3> HIDE DEF s
        <3> QED BY <2>1, Zenon DEF Decide
    <2>3. s \in DOMAIN answered'
        BY <2>2 DEF With
    <2>4. Replied(calls[w], s, settle).todo = calls[w].todo \ {s}
        BY <1>1 DEF Replied, CallOK, CallFields
    <2> HIDE DEF s
    <2> QED BY <2>2, <2>3, <2>4
<1>6. CASE Process(w) /\ Verdict(calls[w], s) # "decide"
    <2>1. Becomes(w, IF Verdict(calls[w], s) = "replay"
                     THEN Replied(calls[w], s, receipts[s].settle)
                     ELSE Refused(calls[w], Verdict(calls[w], s)))
          /\ UNCHANGED answered
        BY <1>6 DEF Process, serverVars
    <2>2. Verdict(calls[w], s) = "replay" => s \in DOMAIN answered
        BY DEF Verdict, RoundInv, AnswersOK
    <2> HIDE DEF s
    <2>3. CASE Verdict(calls[w], s) = "replay"
        <3>1. Replied(calls[w], s, receipts[s].settle).todo = calls[w].todo \ {s}
            BY <1>1 DEF Replied, CallOK, CallFields
        <3> QED BY <2>1, <2>2, <2>3, <3>1
    <2>4. CASE Verdict(calls[w], s) # "replay"
        <3>1. Refused(calls[w], Verdict(calls[w], s)).todo = calls[w].todo
            BY <1>1 DEF Refused, CallOK, CallFields
        <3> QED BY <2>1, <2>4, <3>1
    <2> QED BY <2>3, <2>4
<1> QED BY <1>2, <1>3, <1>4, <1>5, <1>6 DEF Serve

LEMMA ServeAnswersInOrder ==
    ASSUME RoundConstants, RoundInv, InOrder, RequestsClosed, NEW w \in Sides, Serve(w)
    PROVE  \/ UNCHANGED answered /\ row'.maxSeq = row.maxSeq
           \/ NextAnswered /\ DOMAIN answered' = 1 .. row'.maxSeq
<1>1. CASE Admit(w) \/ ReadPage(w)
    BY <1>1 DEF Admit, ReadPage, serverVars
<1>2. CASE Report(w)
    BY <1>2 DEF Report, Watermarks, RoundInv, RowOK
<1>3. CASE Process(w) /\ Verdict(calls[w], NextOp(calls[w])) = "decide"
    BY <1>3, DecidesNext DEF Serve
<1>4. CASE Process(w) /\ Verdict(calls[w], NextOp(calls[w])) # "decide"
    BY <1>4 DEF Process, serverVars
<1> QED BY <1>1, <1>2, <1>3, <1>4 DEF Serve

LEMMA ServeKeepsOrder ==
    ASSUME RoundConstants, RoundInv, InOrder, RequestsClosed, NEW w \in Sides, Serve(w)
    PROVE  InOrder' /\ RequestsClosed'
<1>1. /\ UNCHANGED <<binding, outbox, picked, pc>>
      /\ calls[w] # None /\ DOMAIN calls = {"live", "stray"}
      /\ row.maxSeq \in Nat /\ binding.clientSeq \in Nat
    BY DEF Serve, replicaVars, roundVars, RoundConstants, RoundInv, CallsOK, Sides, RowOK, BindingOK
<1>2. /\ DOMAIN answered' = 1 .. row'.maxSeq
      /\ row'.maxSeq \in {row.maxSeq, row.maxSeq + 1} /\ row'.maxSeq <= binding.clientSeq
    BY <1>1, ServeAnswersInOrder DEF NextAnswered, InOrder
<1>3. InOrder'
    BY <1>1, <1>2 DEF InOrder
<1>4. ASSUME NEW S, Closed(S), NEW T \in SUBSET S, S \ T \subseteq DOMAIN answered', S \subseteq Nat
      PROVE  Closed(T)'
    BY <1>1, <1>2, <1>4 DEF Closed
<1>5. PICK c : /\ Becomes(w, c)
               /\ c.todo \subseteq calls[w].todo
               /\ calls[w].todo \ c.todo \subseteq DOMAIN answered'
    BY ServeGoesOn
<1>6. /\ calls'[w] = c \/ calls'[w] = None
      /\ \A v \in Sides \ {w} : calls'[v] = calls[v]
    BY <1>1, <1>5 DEF Becomes, Sides
<1>7. \A v \in Sides : calls[v] # None =>
          calls[v].todo \subseteq 1 .. binding.clientSeq /\ Closed(calls[v].todo)
    BY DEF RequestsClosed
<1>8. ASSUME NEW v \in Sides, calls'[v] # None
      PROVE  (calls[v].todo \subseteq 1 .. binding.clientSeq /\ Closed(calls[v].todo))'
    <2>1. CASE v = w
        <3>1. calls[w].todo \subseteq 1 .. binding.clientSeq /\ Closed(calls[w].todo)
            BY <1>1, <1>7
        <3>2. calls[w].todo \subseteq Nat
            BY <1>1, <3>1
        <3>3. Closed(c.todo)'
            BY <1>4, <1>5, <3>1, <3>2
        <3>4. calls'[v] = c
            BY <1>6, <1>8, <2>1
        <3> QED BY <1>1, <1>5, <3>1, <3>3, <3>4 DEF Closed
    <2>2. CASE v # w
        <3>1. calls'[v] = calls[v]
            BY <1>6, <2>2
        <3>2. calls[v].todo \subseteq 1 .. binding.clientSeq /\ Closed(calls[v].todo)
            BY <1>7, <1>8, <3>1
        <3> QED BY <1>1, <1>2, <3>1, <3>2 DEF Closed
    <2> QED BY <2>1, <2>2
<1>9. pc = "queued" => Closed(DOMAIN picked \cup WithStatus("IN_FLIGHT"))'
    <2>1. WithStatus("IN_FLIGHT")' = WithStatus("IN_FLIGHT")
        BY <1>1 DEF WithStatus
    <2> QED BY <1>1, <1>2, <2>1 DEF RequestsClosed, Closed
<1>10. pc = "picked" => Closed(DOMAIN picked)'
    BY <1>1, <1>2 DEF RequestsClosed, Closed
<1>11. RequestsClosed'
    BY <1>1, <1>8, <1>9, <1>10 DEF RequestsClosed
<1> QED BY <1>3, <1>11

LEMMA LedgerInvKept ==
    ASSUME RoundConstants, LedgerInv, [NextCaptured]_vars
    PROVE  LedgerInv'
<1> USE DEF LedgerInv
<1>1. RoundInv'
    BY NextKeeps DEF Next
<1>2. CASE NextCaptured
    <2>1. RoundIsActive'
        BY <1>2, ActiveKept
    <2>2. InOrder' /\ RequestsClosed'
        BY <1>2, CaptureKeepsOrder, ReadsKeepOrder, SendKeepsOrder, RoundEndKeepsOrder,
           ServeKeepsOrder, WorldKeepsOrder DEF NextCaptured, Round
    <2> QED BY <1>1, <2>1, <2>2
<1>3. CASE UNCHANGED vars
    <2>1. UNCHANGED <<row, answered, outbox, picked, pc, calls, binding>>
        BY <1>3 DEF vars, serverVars, replicaVars, roundVars
    <2>2. InOrder' /\ RequestsClosed'
        BY <2>1, OrderUntouched
    <2>3. RoundIsActive'
        BY <2>1 DEF RoundIsActive
    <2> QED BY <1>1, <2>2, <2>3
<1> QED BY <1>2, <1>3

---------------------------------------------------------------------------
(* The refinement *)

\* What the device no longer keeps (the mapping of OpLedger's forgotten).
Gone == (1 .. binding.clientSeq) \ DOMAIN outbox

LEMMA CaptureTakesDown ==
    ASSUME RoundConstants, LedgerInv, Capture
    PROVE  Ledger!TakeDown
<1>1. /\ binding.clientSeq < MaxSeq /\ binding.clientSeq \in Nat
      /\ binding' = [binding EXCEPT !.clientSeq = @ + 1]
      /\ DOMAIN outbox' = DOMAIN outbox \cup {binding.clientSeq + 1}
      /\ UNCHANGED answered
    BY DEF RoundConstants, LedgerInv, RoundInv, BindingOK, Capture, With, serverVars
<1>2. /\ binding'.clientSeq = binding.clientSeq + 1 /\ binding'.applied = binding.applied
      /\ binding'.state = binding.state
    BY <1>1 DEF LedgerInv, RoundInv, BindingOK
<1>3. 1 .. binding.clientSeq + 1 = (1 .. binding.clientSeq) \cup {binding.clientSeq + 1}
      /\ binding.clientSeq + 1 \notin 1 .. binding.clientSeq
    BY <1>1
<1>4. UNCHANGED Gone
    BY <1>1, <1>2, <1>3 DEF Gone
<1> QED BY <1>1, <1>2, <1>4 DEF Ledger!TakeDown, Gone

LEMMA ServeAnswersNext ==
    ASSUME RoundConstants, LedgerInv, NEW w \in Sides, Serve(w)
    PROVE  Ledger!AnswerNext \/ UNCHANGED Ledger!ledgerVars
<1>1. UNCHANGED <<binding, outbox>>
    BY DEF Serve, replicaVars
<1>2. CASE UNCHANGED answered
    BY <1>1, <1>2 DEF Ledger!ledgerVars
<1>3. CASE NextAnswered
    <2>1. PICK settle \in 0 .. MaxRev : answered' = With(answered, row.maxSeq + 1, settle)
        BY <1>3 DEF NextAnswered
    <2>2. row.maxSeq \in Nat /\ binding.clientSeq \in Nat /\ row.maxSeq < binding.clientSeq
        BY <1>3 DEF NextAnswered, RoundConstants, LedgerInv, RoundInv, RowOK, BindingOK
    <2>3. DOMAIN answered = 1 .. (row.maxSeq + 1) - 1 /\ row.maxSeq + 1 \in 1 .. binding.clientSeq
        BY <2>2 DEF LedgerInv, InOrder
    <2>4. DOMAIN answered \cup {row.maxSeq + 1} = 1 .. row.maxSeq + 1
        BY <2>2, <2>3
    <2>5. answered' = [t \in 1 .. row.maxSeq + 1 |-> IF t = row.maxSeq + 1 THEN settle ELSE answered[t]]
        BY <2>1, <2>4 DEF With
    <2> QED BY <1>1, <2>3, <2>5 DEF Ledger!AnswerNext
<1> QED BY <1>2, <1>3, ServeAnswersInOrder DEF LedgerInv

LEMMA RoundMaps ==
    ASSUME RoundConstants, LedgerInv, Round
    PROVE  Ledger!LedgerNext \/ UNCHANGED Ledger!ledgerVars
<1>1. UNCHANGED answered
    BY DEF Round, ReadQueued, ReadInFlight, Send, Halt, Ingest, ApplyNext, Settle, serverVars
<1>2. CASE ReadQueued \/ ReadInFlight \/ Send
    <2>1. UNCHANGED binding /\ DOMAIN outbox' = DOMAIN outbox
        BY <1>2 DEF ReadQueued, ReadInFlight, Send, replicaVars
    <2> QED BY <1>1, <2>1 DEF Ledger!ledgerVars
<1>3. CASE Ingest
    <2>1. DOMAIN outbox' = DOMAIN outbox /\ binding'.clientSeq = binding.clientSeq
          /\ binding'.applied = binding.applied /\ binding'.state = binding.state
        BY <1>3 DEF Ingest, LedgerInv, RoundInv, BindingOK
    <2> QED BY <1>1, <2>1 DEF Ledger!ledgerVars
<1>4. CASE Halt
    <2>1. UNCHANGED outbox /\ binding'.clientSeq = binding.clientSeq
          /\ binding'.applied = binding.applied /\ binding'.state = "needs_recovery"
        BY <1>4 DEF Halt, LedgerInv, RoundInv, BindingOK
    <2>2. Ledger!Stop
        BY <1>1, <2>1 DEF Ledger!Stop
    <2> QED BY <2>2 DEF Ledger!LedgerNext
<1>5. CASE ApplyNext
    <2>1. binding.state = "active" /\ UNCHANGED outbox
        BY <1>5 DEF ApplyNext, LedgerInv, RoundIsActive
    <2>2. CASE UNCHANGED binding
        BY <1>1, <2>1, <2>2 DEF Ledger!ledgerVars
    <2>3. CASE binding' = [binding EXCEPT !.applied = @ + 1]
        <3>1. binding'.clientSeq = binding.clientSeq /\ binding'.applied = binding.applied + 1
              /\ binding'.state = binding.state
            BY <2>3 DEF LedgerInv, RoundInv, BindingOK
        <3>2. Ledger!Reach
            BY <1>1, <2>1, <3>1 DEF Ledger!Reach
        <3> QED BY <3>2 DEF Ledger!LedgerNext
    <2> QED BY <1>5, <2>2, <2>3 DEF ApplyNext
<1>6. CASE Settle
    <2>1. binding.state = "active" /\ UNCHANGED binding
          /\ DOMAIN outbox' = DOMAIN outbox \ Settled
        BY <1>6 DEF Settle, LedgerInv, RoundIsActive
    <2>2. /\ Settled \in SUBSET (1 .. binding.clientSeq)
          /\ \A s \in Settled : s \in DOMAIN answered /\ answered[s] <= binding.applied
        BY DEF Settled, WithStatus, LedgerInv, RoundInv, OutboxOK
    <2>3. Gone' = Gone \cup Settled
        BY <2>1, <2>2 DEF Gone
    <2>4. Ledger!Forget
        BY <1>1, <2>1, <2>2, <2>3 DEF Ledger!Forget, Gone
    <2> QED BY <2>4 DEF Ledger!LedgerNext
<1> QED BY <1>2, <1>3, <1>4, <1>5, <1>6 DEF Round

\* For any number of edits, rounds, losses, strays, restores and revocations, with pages of
\* any size: every step of device or server is a step of the ledger or none
\* (syncCoordinator.ts:372-383, doc 04 section 7).
THEOREM RoundsKeepLedger == SpecCaptured => KeepsLedger
<1>1. Init => LedgerInv /\ Ledger!LedgerInit
    <2> SUFFICES ASSUME Init PROVE LedgerInv /\ Ledger!LedgerInit
        OBVIOUS
    <2>1. RoundInv
        BY InitEstablishes, RoundConstants
    <2>2. InOrder /\ RequestsClosed /\ RoundIsActive
        BY DEF Init, InOrder, RequestsClosed, RoundIsActive, Sides
    <2>3. Ledger!LedgerInit
        BY DEF Init, Ledger!LedgerInit
    <2> QED BY <2>1, <2>2, <2>3 DEF LedgerInv
<1>2. LedgerInv /\ [NextCaptured]_vars => LedgerInv'
    BY LedgerInvKept, RoundConstants
<1>3. LedgerInv /\ [NextCaptured]_vars => [Ledger!LedgerNext]_Ledger!ledgerVars
    <2> SUFFICES ASSUME LedgerInv, [NextCaptured]_vars
                 PROVE  Ledger!LedgerNext \/ UNCHANGED Ledger!ledgerVars
        OBVIOUS
    <2>1. CASE Capture
        BY <2>1, CaptureTakesDown, RoundConstants DEF Ledger!LedgerNext
    <2>2. CASE Round
        BY <2>2, RoundMaps, RoundConstants
    <2>3. CASE \E w \in Sides : Serve(w)
        BY <2>3, ServeAnswersNext, RoundConstants DEF Ledger!LedgerNext
    <2>4. CASE Abandon \/ WebEdit \/ CollectJournal \/ Restore \/ Revoke \/ UNCHANGED vars
        <3>1. UNCHANGED <<binding, outbox, answered>>
            BY <2>4 DEF Abandon, WebEdit, CollectJournal, Restore, Revoke, worldUnchanged, vars,
                        serverVars, replicaVars
        <3> QED BY <3>1 DEF Ledger!ledgerVars
    <2> QED BY <2>1, <2>2, <2>3, <2>4 DEF NextCaptured
<1> QED BY <1>1, <1>2, <1>3, PTL DEF SpecCaptured, KeepsLedger, Ledger!LedgerSpec

---------------------------------------------------------------------------
(* Recovery has a cause *)

\* What is known of an operation elsewhere is what the outbox has of it.
SaysSame(ops) ==
    /\ DOMAIN ops \subseteq 1 .. binding.clientSeq
    /\ \A s \in DOMAIN ops \cap DOMAIN outbox :
           ops[s].body = outbox[s].body /\ ops[s].base = outbox[s].base

SaysWhatWasCaptured ==
    /\ SaysSame(picked)
    /\ \A w \in Sides : calls[w] # None =>
           /\ SaysSame(calls[w].ops)
           /\ calls[w].todo \subseteq DOMAIN calls[w].ops
           /\ calls[w].epoch = binding.epoch
    /\ \A s \in DOMAIN receipts \cap DOMAIN outbox : receipts[s].body = outbox[s].body

\* The request the device waits for has operations of the outbox, marked as sent.
SentIsInFlight ==
    /\ DOMAIN picked \subseteq DOMAIN outbox
    /\ pc = "waiting" => DOMAIN calls["live"].ops \subseteq WithStatus("IN_FLIGHT")

\* An operation is answered at or after its base, so that its receipt is there until the
\* floor reaches the base.
BasesReached ==
    /\ \A s \in DOMAIN outbox : outbox[s].base <= binding.applied
    /\ binding.epoch = space.epoch =>
           /\ \A s \in DOMAIN receipts :
                  /\ receipts[s].at \in 0 .. space.rev
                  /\ s \in DOMAIN outbox => outbox[s].base <= receipts[s].at
           /\ \A s \in DOMAIN answered \ DOMAIN receipts :
                  /\ space.floor > 0
                  /\ s \in DOMAIN outbox => outbox[s].base <= space.floor

\* The causes of RecoveryHasCause.
Caused(code) ==
    /\ code \notin {"OP_ID_REUSED", "INVALID_WATERMARK"}
    /\ \/ space.epoch > binding.epoch
       \/ row.state # "active"
       \/ code = "HISTORY_EXPIRED" /\ binding.received < space.floor
       \/ /\ code \in {"OPERATION_HISTORY_EXPIRED", "CLIENT_SEQ_REGRESSED"}
          /\ space.floor > 0
          /\ \E s \in WithStatus("IN_FLIGHT") : outbox[s].base <= space.floor

\* A refusal the device has not seen yet has its cause already.
RefusalHasCause ==
    pc = "waiting" /\ calls["live"].phase = "refused" => Caused(calls["live"].code)

CauseInv ==
    /\ LedgerInv
    /\ SaysWhatWasCaptured /\ SentIsInFlight /\ BasesReached
    /\ RefusalHasCause /\ RecoveryHasCause

\* Causes do not go away: epochs end and floors rise for good, nothing makes a binding
\* active again, and what was sent stays until it is answered.
LEMMA CauseStays ==
    ASSUME RoundInv, NEW code, Caused(code),
           \/ space'.epoch > space.epoch
           \/ space'.epoch = space.epoch /\ space'.floor >= space.floor,
           space'.epoch \in Nat, space'.floor \in Nat,
           row.state # "active" => row'.state # "active",
           binding'.epoch = binding.epoch, binding'.received = binding.received,
           \A s \in WithStatus("IN_FLIGHT") :
               s \in WithStatus("IN_FLIGHT")' /\ outbox'[s].base = outbox[s].base
    PROVE  Caused(code)'
<1>1. /\ space.epoch \in Nat /\ space.floor \in Nat /\ binding.epoch = 1
      /\ binding.received \in Int
    BY RoundConstants DEF RoundInv, SpaceOK, BindingOK
<1>2. CASE space.epoch > binding.epoch
    BY <1>1, <1>2 DEF Caused
<1>3. CASE space'.epoch > space.epoch
    <2>1. space.epoch >= 1
        BY DEF RoundInv, SpaceOK
    <2> QED BY <1>1, <1>3, <2>1 DEF Caused
<1>4. CASE row.state # "active"
    BY <1>4 DEF Caused
<1>5. CASE code = "HISTORY_EXPIRED" /\ binding.received < space.floor /\ space'.floor >= space.floor
    BY <1>1, <1>5 DEF Caused
<1>6. CASE /\ code \in {"OPERATION_HISTORY_EXPIRED", "CLIENT_SEQ_REGRESSED"}
           /\ space.floor > 0 /\ space'.floor >= space.floor
           /\ \E s \in WithStatus("IN_FLIGHT") : outbox[s].base <= space.floor
    <2>1. PICK s \in WithStatus("IN_FLIGHT") : outbox[s].base <= space.floor
        BY <1>6
    <2>2. s \in WithStatus("IN_FLIGHT")' /\ outbox'[s].base = outbox[s].base
        OBVIOUS
    <2>3. outbox[s].base \in Nat
        BY RoundConstants DEF RoundInv, OutboxOK, WithStatus, Pending
    <2>4. outbox'[s].base <= space'.floor /\ space'.floor > 0
        BY <1>1, <1>6, <2>1, <2>2, <2>3
    <2> QED BY <1>6, <2>2, <2>4 DEF Caused
<1> QED BY <1>1, <1>2, <1>3, <1>4, <1>5, <1>6 DEF Caused

\* The parts that only speak of the device and its requests.
LEMMA DeviceAloneSays ==
    ASSUME SaysWhatWasCaptured, SentIsInFlight,
           UNCHANGED <<binding, outbox, picked, pc, calls>>,
           \A s \in DOMAIN receipts' : s \in DOMAIN receipts /\ receipts'[s] = receipts[s]
    PROVE  SaysWhatWasCaptured' /\ SentIsInFlight'
BY DEF SaysWhatWasCaptured, SaysSame, SentIsInFlight, WithStatus

LEMMA WorldKeepsCause ==
    ASSUME RoundConstants, CauseInv, WebEdit \/ CollectJournal \/ Restore \/ Revoke, LedgerInv'
    PROVE  CauseInv'
<1>1. UNCHANGED <<answered, outbox, picked, pc, calls, binding>>
    BY DEF WebEdit, CollectJournal, Restore, Revoke, worldUnchanged, replicaVars, roundVars
<1>2. RoundInv /\ SpaceOK /\ SpaceOK' /\ AnswersOK /\ BindingOK /\ OutboxOK
    BY DEF CauseInv, LedgerInv, RoundInv
<1>3. \A s \in DOMAIN receipts' : s \in DOMAIN receipts /\ receipts'[s] = receipts[s]
    <2>1. CASE Restore
        <3>1. DOMAIN receipts' = {}
            BY <2>1 DEF Restore
        <3> QED BY <3>1
    <2>2. CASE WebEdit \/ CollectJournal \/ Revoke
        BY <2>2 DEF WebEdit, CollectJournal, Revoke
    <2> QED BY <2>1, <2>2
<1>4. SaysWhatWasCaptured' /\ SentIsInFlight'
    BY <1>1, <1>3, DeviceAloneSays DEF CauseInv
<1>5. BasesReached'
    <2>1. BasesReached
        BY DEF CauseInv
    <2>2. CASE WebEdit
        <3>1. /\ space'.epoch = space.epoch /\ space'.rev = space.rev + 1
              /\ space'.floor = space.floor /\ UNCHANGED receipts
            BY <1>2, <2>2 DEF WebEdit, Appended, SpaceOK
        <3> QED BY <1>1, <1>2, <2>1, <3>1 DEF BasesReached, SpaceOK
    <2>3. CASE Revoke
        BY <1>1, <2>1, <2>3 DEF BasesReached, Revoke
    <2>4. CASE Restore
        <3>1. space'.epoch = space.epoch + 1 /\ space.epoch \in Nat \ {0} /\ binding.epoch = 1
            BY <1>2, <2>4 DEF Restore, SpaceOK, BindingOK
        <3>2. binding'.epoch # space'.epoch
            BY <1>1, <3>1
        <3> QED BY <1>1, <2>1, <3>2 DEF BasesReached
    <2>5. CASE CollectJournal
        <3>1. PICK floor \in space.floor + 1 .. space.rev - MinKeep :
                  /\ space' = [space EXCEPT !.floor = floor,
                                   !.journal = [r \in floor + 1 .. space.rev |-> @[r]]]
                  /\ receipts' = [s \in {s \in DOMAIN receipts : receipts[s].at > floor} |->
                                      receipts[s]]
            BY <2>5 DEF CollectJournal
        <3>2. space'.epoch = space.epoch /\ space'.rev = space.rev /\ space'.floor = floor
            BY <1>2, <3>1 DEF SpaceOK
        <3>3. floor \in Nat /\ floor > 0 /\ floor >= space.floor /\ space.floor \in Nat
            BY <1>2, <3>1 DEF SpaceOK, RoundConstants
        <3>4. \A s \in DOMAIN outbox : outbox[s].base \in Nat
            BY <1>2 DEF OutboxOK, Pending, RoundConstants
        <3>5. DOMAIN receipts' = {s \in DOMAIN receipts : receipts[s].at > floor}
              /\ \A s \in DOMAIN receipts' : receipts'[s] = receipts[s]
            BY <3>1
        <3>6. ASSUME binding.epoch = space.epoch, NEW s \in DOMAIN answered \ DOMAIN receipts',
                     s \in DOMAIN outbox
              PROVE  outbox[s].base <= floor
            <4>1. CASE s \in DOMAIN receipts
                <5>1. receipts[s].at \in Nat /\ receipts[s].at <= floor
                      /\ outbox[s].base <= receipts[s].at
                    BY <1>2, <2>1, <3>3, <3>5, <3>6, <4>1 DEF BasesReached, SpaceOK
                <5> QED BY <3>3, <3>4, <3>6, <5>1
            <4>2. CASE s \notin DOMAIN receipts
                BY <2>1, <3>3, <3>4, <3>6, <4>2 DEF BasesReached
            <4> QED BY <4>1, <4>2
        <3>7. ASSUME binding.epoch = space.epoch, NEW s \in DOMAIN receipts'
              PROVE  /\ receipts'[s].at \in 0 .. space'.rev
                     /\ s \in DOMAIN outbox => outbox[s].base <= receipts'[s].at
            BY <2>1, <3>2, <3>5, <3>7 DEF BasesReached
        <3> HIDE <3>1
        <3> QED BY <1>1, <2>1, <3>2, <3>3, <3>6, <3>7 DEF BasesReached
    <2> QED BY <2>2, <2>3, <2>4, <2>5
<1>6. \A code : Caused(code) => Caused(code)'
    <2> SUFFICES ASSUME NEW code, Caused(code) PROVE Caused(code)'
        OBVIOUS
    <2>1. /\ \/ space'.epoch > space.epoch
             \/ space'.epoch = space.epoch /\ space'.floor >= space.floor
          /\ space'.epoch \in Nat /\ space'.floor \in Nat
        <3>1. space'.epoch \in Nat /\ space'.floor \in Nat
            BY <1>2 DEF SpaceOK
        <3>2. CASE WebEdit \/ Revoke
            <4>1. space'.epoch = space.epoch /\ space'.floor = space.floor
                BY <1>2, <3>2 DEF WebEdit, Revoke, Appended, SpaceOK
            <4> QED BY <1>2, <3>1, <4>1 DEF SpaceOK
        <3>3. CASE CollectJournal
            <4>1. PICK floor \in space.floor + 1 .. space.rev - MinKeep :
                      space' = [space EXCEPT !.floor = floor,
                                    !.journal = [r \in floor + 1 .. space.rev |-> @[r]]]
                BY <3>3 DEF CollectJournal
            <4>2. space'.epoch = space.epoch /\ space'.floor = floor
                BY <1>2, <4>1 DEF SpaceOK
            <4> QED BY <1>2, <3>1, <4>2 DEF SpaceOK
        <3>4. CASE Restore
            <4>1. space'.epoch = space.epoch + 1
                BY <3>4 DEF Restore
            <4> QED BY <1>2, <3>1, <4>1 DEF SpaceOK
        <3> QED BY <3>1, <3>2, <3>3, <3>4
    <2>2. row.state # "active" => row'.state # "active"
        BY <1>2 DEF RoundInv, RowOK, WebEdit, CollectJournal, Restore, Revoke
    <2>3. WithStatus("IN_FLIGHT")' = WithStatus("IN_FLIGHT")
        BY <1>1 DEF WithStatus
    <2> QED BY <1>1, <1>2, <2>1, <2>2, <2>3, CauseStays
<1>7. RefusalHasCause'
    BY <1>1, <1>6 DEF CauseInv, RefusalHasCause
<1>8. RecoveryHasCause'
    <2>1. RecoveryHasCause
        BY DEF CauseInv
    <2>2. binding.state = "needs_recovery" => Caused(binding.code)
        BY <2>1 DEF RecoveryHasCause, Caused
    <2>3. binding.state = "needs_recovery" => Caused(binding.code)'
        BY <1>1, <1>6, <2>2
    <2> QED BY <1>1, <2>3 DEF RecoveryHasCause, Caused
<1> QED BY <1>4, <1>5, <1>7, <1>8 DEF CauseInv

LEMMA CaptureKeepsCause ==
    ASSUME RoundConstants, CauseInv, Capture, LedgerInv'
    PROVE  CauseInv'
<1> DEFINE n == binding.clientSeq + 1
<1>1. RoundInv /\ BindingOK /\ OutboxOK /\ SpaceOK /\ AnswersOK /\ RowOK /\ CallsOK /\ InOrder
    BY DEF CauseInv, LedgerInv, RoundInv
<1>2. /\ binding'.clientSeq = n /\ binding.clientSeq \in Nat
      /\ binding'.applied = binding.applied /\ binding'.epoch = binding.epoch
      /\ binding'.received = binding.received /\ binding'.state = binding.state
      /\ binding'.code = binding.code /\ binding.applied \in Nat
    BY <1>1 DEF Capture, BindingOK, RoundConstants
<1>3. UNCHANGED <<space, row, receipts, answered, pc, picked, calls>>
    BY DEF Capture, serverVars, roundVars
<1>4. /\ DOMAIN outbox' = DOMAIN outbox \cup {n}
      /\ \A s \in DOMAIN outbox : outbox'[s] = outbox[s]
      /\ n \notin DOMAIN outbox /\ outbox'[n].base = binding.applied
    BY <1>1, <1>2 DEF Capture, OutboxOK, With
<1>5. n \notin DOMAIN answered /\ DOMAIN receipts \subseteq DOMAIN answered
    BY <1>1, <1>2 DEF InOrder, RowOK, AnswersOK
<1> HIDE DEF n
<1>6. ASSUME NEW ops, SaysSame(ops)
      PROVE  SaysSame(ops)'
    <2>1. DOMAIN ops \subseteq 1 .. binding.clientSeq /\ n \notin 1 .. binding.clientSeq
        BY <1>2, <1>6 DEF SaysSame, n
    <2>2. DOMAIN ops \subseteq 1 .. binding'.clientSeq
        BY <1>2, <2>1 DEF n
    <2> QED BY <1>4, <1>6, <2>1, <2>2 DEF SaysSame
<1>7. SaysWhatWasCaptured'
    BY <1>2, <1>3, <1>4, <1>5, <1>6 DEF CauseInv, SaysWhatWasCaptured
<1>8. WithStatus("IN_FLIGHT") \subseteq WithStatus("IN_FLIGHT")'
    BY <1>4 DEF WithStatus
<1>9. SentIsInFlight'
    BY <1>3, <1>4, <1>8 DEF CauseInv, SentIsInFlight
<1>10. BasesReached'
    <2>1. BasesReached
        BY DEF CauseInv
    <2>2. \A s \in DOMAIN outbox' : outbox'[s].base <= binding'.applied
        BY <1>2, <1>4, <2>1 DEF BasesReached
    <2> QED BY <1>2, <1>3, <1>4, <1>5, <2>1, <2>2 DEF BasesReached
<1>11. \A code : Caused(code) => Caused(code)'
    <2> SUFFICES ASSUME NEW code, Caused(code) PROVE Caused(code)'
        OBVIOUS
    <2>1. space'.epoch = space.epoch /\ space'.floor >= space.floor
          /\ space'.epoch \in Nat /\ space'.floor \in Nat
        BY <1>1, <1>3 DEF SpaceOK
    <2>2. \A s \in WithStatus("IN_FLIGHT") :
              s \in WithStatus("IN_FLIGHT")' /\ outbox'[s].base = outbox[s].base
        BY <1>4, <1>8 DEF WithStatus
    <2> QED BY <1>1, <1>2, <1>3, <2>1, <2>2, CauseStays
<1>12. RefusalHasCause'
    BY <1>3, <1>11 DEF CauseInv, RefusalHasCause
<1>13. RecoveryHasCause'
    <2>1. binding.state = "needs_recovery" => Caused(binding.code)
        BY DEF CauseInv, RecoveryHasCause, Caused
    <2>2. PICK code : code = binding.code
        OBVIOUS
    <2>3. binding.state = "needs_recovery" => Caused(code)'
        BY <1>11, <2>1, <2>2
    <2> QED BY <1>2, <2>2, <2>3 DEF RecoveryHasCause, Caused
<1> QED BY <1>7, <1>9, <1>10, <1>12, <1>13 DEF CauseInv

\* While a round is on the device has not asked for recovery.
LEMMA RoundNeedsNoCause ==
    ASSUME LedgerInv', pc' # "idle" \/ binding'.state = "active"
    PROVE  RecoveryHasCause'
BY DEF LedgerInv, RoundIsActive, RecoveryHasCause

LEMMA ReadsKeepCause ==
    ASSUME RoundConstants, CauseInv, ReadQueued \/ ReadInFlight, LedgerInv'
    PROVE  CauseInv'
<1>1. UNCHANGED <<space, row, receipts, answered, binding, outbox, calls>>
      /\ pc' \in {"queued", "picked"} /\ OutboxOK
    BY DEF ReadQueued, ReadInFlight, serverVars, replicaVars, CauseInv, LedgerInv, RoundInv
<1>2. /\ DOMAIN picked' \subseteq DOMAIN outbox
      /\ \A s \in DOMAIN picked' :
             picked'[s].body = outbox[s].body /\ picked'[s].base = outbox[s].base
    <2>1. CASE ReadQueued
        BY <2>1 DEF ReadQueued, Payloads, WithStatus
    <2>2. CASE ReadInFlight
        <3>1. \A s \in DOMAIN picked :
                  /\ s \in DOMAIN outbox
                  /\ picked[s].body = outbox[s].body /\ picked[s].base = outbox[s].base
            BY DEF CauseInv, SaysWhatWasCaptured, SaysSame, SentIsInFlight
        <3> QED BY <2>2, <3>1 DEF ReadInFlight, Unanswered, Payloads, WithStatus
    <2> QED BY <2>1, <2>2
<1>3. SaysSame(picked)'
    BY <1>1, <1>2 DEF SaysSame, OutboxOK
<1>4. SaysWhatWasCaptured'
    BY <1>1, <1>3 DEF CauseInv, SaysWhatWasCaptured, SaysSame
<1>5. SentIsInFlight'
    BY <1>1, <1>2 DEF SentIsInFlight
<1>6. BasesReached'
    BY <1>1 DEF CauseInv, BasesReached
<1>7. RefusalHasCause' /\ RecoveryHasCause'
    BY <1>1, RoundNeedsNoCause DEF RefusalHasCause
<1> QED BY <1>4, <1>5, <1>6, <1>7 DEF CauseInv

LEMMA SendKeepsCause ==
    ASSUME RoundConstants, CauseInv, Send, LedgerInv'
    PROVE  CauseInv'
<1>1. UNCHANGED <<space, row, receipts, answered, binding>> /\ pc' = "waiting"
      /\ OutboxOK /\ CallsOK /\ DOMAIN picked' = {}
    BY DEF Send, serverVars, CauseInv, LedgerInv, RoundInv
<1>2. /\ DOMAIN outbox' = DOMAIN outbox
      /\ \A s \in DOMAIN outbox :
             /\ outbox'[s].body = outbox[s].body /\ outbox'[s].base = outbox[s].base
             /\ s \in DOMAIN picked => outbox'[s].status = "IN_FLIGHT"
    BY <1>1 DEF Send, OutboxOK, Pending
<1>3. calls'["live"] = Request /\ calls'["stray"] = calls["stray"]
    BY <1>1 DEF Send, CallsOK, Sides
<1>4. \A ops : SaysSame(ops) => SaysSame(ops)'
    BY <1>1, <1>2 DEF SaysSame
<1>5. /\ Request.ops = picked /\ Request.todo = DOMAIN picked
      /\ Request.epoch = binding.epoch /\ Request.phase = "sent"
    BY DEF Request
<1>6. SaysSame(picked)'
    BY <1>1 DEF SaysSame
<1>7. SaysWhatWasCaptured'
    <2>1. SaysWhatWasCaptured
        BY DEF CauseInv
    <2>2. SaysSame(calls["live"].ops)' /\ calls'["live"].todo \subseteq DOMAIN calls'["live"].ops
          /\ calls'["live"].epoch = binding'.epoch
        <3>1. PICK ops : ops = picked
            OBVIOUS
        <3>2. SaysSame(ops)
            BY <2>1, <3>1 DEF SaysWhatWasCaptured
        <3>3. SaysSame(ops)'
            BY <1>4, <3>2
        <3>4. calls'["live"].ops = ops /\ calls'["live"].todo = DOMAIN ops
              /\ calls'["live"].epoch = binding.epoch
            BY <1>3, <1>5, <3>1
        <3> QED BY <1>1, <3>3, <3>4 DEF SaysSame
    <2>3. calls["stray"] # None =>
              /\ SaysSame(calls["stray"].ops)'
              /\ calls'["stray"].todo \subseteq DOMAIN calls'["stray"].ops
              /\ calls'["stray"].epoch = binding'.epoch
        <3> SUFFICES ASSUME calls["stray"] # None
                     PROVE  /\ SaysSame(calls["stray"].ops)'
                            /\ calls'["stray"].todo \subseteq DOMAIN calls'["stray"].ops
                            /\ calls'["stray"].epoch = binding'.epoch
            OBVIOUS
        <3>1. PICK ops : ops = calls["stray"].ops
            OBVIOUS
        <3>2. SaysSame(ops) /\ calls["stray"].todo \subseteq DOMAIN ops
              /\ calls["stray"].epoch = binding.epoch
            BY <2>1, <3>1 DEF SaysWhatWasCaptured, Sides
        <3>3. SaysSame(ops)'
            BY <1>4, <3>2
        <3> QED BY <1>1, <1>3, <3>1, <3>2, <3>3 DEF SaysSame
    <2> QED BY <1>1, <1>2, <1>3, <1>6, <2>1, <2>2, <2>3 DEF SaysWhatWasCaptured, Sides
<1>8. SentIsInFlight'
    BY <1>1, <1>2, <1>3, <1>5 DEF CauseInv, SentIsInFlight, WithStatus
<1>9. BasesReached'
    BY <1>1, <1>2 DEF CauseInv, BasesReached
<1>10. RefusalHasCause' /\ RecoveryHasCause'
    BY <1>1, <1>3, <1>5, RoundNeedsNoCause DEF RefusalHasCause
<1> QED BY <1>7, <1>8, <1>9, <1>10 DEF CauseInv

\* Steps after which nothing is waited for, and of the outbox what is left is as it was.
LEMMA RoundEndKeepsCause ==
    ASSUME RoundConstants, CauseInv, Halt \/ Ingest \/ ApplyNext \/ Settle \/ Abandon, LedgerInv'
    PROVE  CauseInv'
<1>1. UNCHANGED <<space, row, receipts, answered>> /\ pc' \in {"idle", "applying", "again"}
      /\ DOMAIN picked' = {}
      /\ BindingOK /\ OutboxOK /\ CallsOK /\ RoundInv /\ SpaceOK
    BY DEF Halt, Ingest, ApplyNext, Settle, Abandon, serverVars, CauseInv, LedgerInv, RoundInv,
           OutboxOK
<1>2. /\ binding'.epoch = binding.epoch /\ binding'.clientSeq = binding.clientSeq
      /\ binding.applied <= binding'.applied /\ binding.applied \in Nat /\ binding'.applied \in Nat
    <2>1. binding.applied \in Nat
        BY <1>1 DEF BindingOK, RoundConstants
    <2>2. ASSUME NEW x, NEW y,
                 \/ binding' = [binding EXCEPT !.received = x]
                 \/ binding' = [binding EXCEPT !.state = x, !.code = y]
          PROVE  /\ binding'.epoch = binding.epoch /\ binding'.clientSeq = binding.clientSeq
                 /\ binding'.applied = binding.applied
        BY <1>1, <2>2 DEF BindingOK
    <2>3. CASE Halt
        <3>1. binding' = [binding EXCEPT !.state = "needs_recovery", !.code = calls["live"].code]
            BY <2>3 DEF Halt
        <3> QED BY <2>1, <2>2, <3>1
    <2>4. CASE Ingest
        <3>1. binding' = [binding EXCEPT !.received = Advanced(calls["live"].page)]
            BY <2>4 DEF Ingest
        <3> QED BY <2>1, <2>2, <3>1
    <2>5. CASE ApplyNext
        BY <1>1, <2>1, <2>5 DEF ApplyNext, BindingOK
    <2>6. CASE Settle \/ Abandon
        BY <2>1, <2>6 DEF Settle, Abandon, replicaVars
    <2> QED BY <2>3, <2>4, <2>5, <2>6
<1>3. \A s \in DOMAIN outbox' :
          /\ s \in DOMAIN outbox
          /\ outbox'[s].body = outbox[s].body /\ outbox'[s].base = outbox[s].base
          /\ outbox[s].base \in Nat
    <2>1. \A s \in DOMAIN outbox : outbox[s].base \in Nat /\ outbox[s] \in Pending
        BY <1>1 DEF OutboxOK, Pending, RoundConstants
    <2>2. CASE Halt \/ ApplyNext \/ Abandon
        BY <2>1, <2>2 DEF Halt, ApplyNext, Abandon, replicaVars
    <2>3. CASE Ingest
        <3>1. /\ DOMAIN outbox' = DOMAIN outbox
              /\ \A s \in DOMAIN outbox :
                     \/ outbox'[s] = outbox[s]
                     \/ \E x : outbox'[s] = [outbox[s] EXCEPT !.status = "RESOLVED", !.settle = x]
            BY <2>3 DEF Ingest
        <3>2. ASSUME NEW s \in DOMAIN outbox
              PROVE  outbox'[s].body = outbox[s].body /\ outbox'[s].base = outbox[s].base
            <4>1. PICK x : \/ outbox'[s] = outbox[s]
                           \/ outbox'[s] = [outbox[s] EXCEPT !.status = "RESOLVED", !.settle = x]
                BY <3>1
            <4>2. outbox[s] \in Pending
                BY <2>1
            <4> QED BY <4>1, <4>2 DEF Pending
        <3> QED BY <2>1, <3>1, <3>2
    <2>4. CASE Settle
        BY <2>1, <2>4 DEF Settle
    <2> QED BY <2>2, <2>3, <2>4
<1>4. \A w \in Sides : calls'[w] # None => \E v \in Sides : calls'[w] = calls[v] /\ calls[v] # None
    <2>1. \/ UNCHANGED calls
          \/ calls' = [calls EXCEPT !["live"] = None]
          \/ calls["live"] # None /\ calls' = [live |-> None, stray |-> calls["live"]]
        BY DEF Halt, Ingest, ApplyNext, Settle, Abandon
    <2>2. DOMAIN calls = {"live", "stray"}
        BY <1>1 DEF CallsOK, Sides
    <2> QED BY <2>1, <2>2 DEF Sides
<1>5. \A ops : SaysSame(ops) => SaysSame(ops)'
    BY <1>2, <1>3 DEF SaysSame
<1>6. SaysWhatWasCaptured'
    <2>1. SaysWhatWasCaptured
        BY DEF CauseInv
    <2>2. SaysSame(picked)'
        BY <1>1 DEF SaysSame
    <2>3. ASSUME NEW w \in Sides, calls'[w] # None
          PROVE  /\ SaysSame(calls[w].ops)'
                 /\ calls'[w].todo \subseteq DOMAIN calls'[w].ops
                 /\ calls'[w].epoch = binding'.epoch
        <3>1. PICK v \in Sides : calls'[w] = calls[v] /\ calls[v] # None
            BY <1>4, <2>3
        <3>2. SaysSame(calls[v].ops) /\ calls[v].todo \subseteq DOMAIN calls[v].ops
              /\ calls[v].epoch = binding.epoch
            BY <2>1, <3>1 DEF SaysWhatWasCaptured
        <3> QED BY <1>2, <1>3, <3>1, <3>2 DEF SaysSame
    <2>4. \A s \in DOMAIN receipts' \cap DOMAIN outbox' : receipts'[s].body = outbox'[s].body
        BY <1>1, <1>3, <2>1 DEF SaysWhatWasCaptured
    <2> QED BY <2>2, <2>3, <2>4 DEF SaysWhatWasCaptured
<1>7. SentIsInFlight'
    BY <1>1 DEF SentIsInFlight
<1>8. BasesReached'
    BY <1>1, <1>2, <1>3 DEF CauseInv, BasesReached, SpaceOK
<1>9. RefusalHasCause'
    BY <1>1 DEF RefusalHasCause
<1>10. RecoveryHasCause'
    <2>1. CASE Halt
        <3>1. /\ binding'.code = calls["live"].code /\ binding'.received = binding.received
              /\ UNCHANGED outbox /\ pc = "waiting" /\ calls["live"].phase = "refused"
            BY <1>1, <2>1 DEF Halt, BindingOK
        <3>2. Caused(calls["live"].code)
            BY <3>1 DEF CauseInv, RefusalHasCause
        <3>3. space'.epoch = space.epoch /\ space'.floor >= space.floor
              /\ space'.epoch \in Nat /\ space'.floor \in Nat
            BY <1>1 DEF SpaceOK
        <3>4. \A s \in WithStatus("IN_FLIGHT") :
                  s \in WithStatus("IN_FLIGHT")' /\ outbox'[s].base = outbox[s].base
            BY <3>1 DEF WithStatus
        <3>5. \A code : Caused(code) => Caused(code)'
            BY <1>1, <1>2, <3>1, <3>3, <3>4, CauseStays
        <3>6. Caused(binding.code)'
            BY <3>1, <3>2, <3>5 DEF Caused
        <3> QED BY <3>6 DEF RecoveryHasCause, Caused
    <2>2. CASE Ingest \/ ApplyNext \/ Settle \/ Abandon
        <3>1. binding'.state = "active"
            <4>1. binding.state = "active"
                BY <2>2 DEF Ingest, ApplyNext, Settle, Abandon, CauseInv, LedgerInv, RoundIsActive
            <4>2. binding'.state = binding.state
                BY <1>1, <2>2 DEF Ingest, ApplyNext, Settle, Abandon, replicaVars, BindingOK
            <4> QED BY <4>1, <4>2
        <3> QED BY <3>1, RoundNeedsNoCause
    <2> QED BY <2>1, <2>2
<1> QED BY <1>6, <1>7, <1>8, <1>9, <1>10 DEF CauseInv

\* The reasons for which the server refuses request c.
RefusedFor(c, code) ==
    \/ code = Advice(c) /\ code # "ok"
    \/ /\ c.todo # {}
       /\ code = Verdict(c, NextOp(c)) /\ code \notin {"decide", "replay"}
    \/ code = PageVerdict(c) /\ code # "ok"

\* Serving a request changes neither what it says nor whose it is; a refusal has a reason.
LEMMA RequestStays ==
    ASSUME RoundInv, NEW w \in Sides, Serve(w)
    PROVE  \E c : /\ Becomes(w, c)
                  /\ c.ops = calls[w].ops /\ c.epoch = calls[w].epoch
                  /\ c.todo \subseteq calls[w].todo
                  /\ c.phase = "refused" =>
                         UNCHANGED serverVars /\ RefusedFor(calls[w], c.code)
<1>1. calls[w] # None /\ DOMAIN calls[w] = CallFields
    BY DEF Serve, RoundInv, CallsOK, CallOK
<1> DEFINE s == NextOp(calls[w])
<1>2. \A code : LET c == Refused(calls[w], code)
                IN  /\ c.ops = calls[w].ops /\ c.epoch = calls[w].epoch /\ c.todo = calls[w].todo
                    /\ c.phase = "refused" /\ c.code = code
    BY <1>1 DEF Refused, CallFields
<1>3. CASE Admit(w)
    <2>1. CASE Advice(calls[w]) = "ok"
        <3>1. PICK c : c = [calls[w] EXCEPT !.phase = "operations"]
            OBVIOUS
        <3>2. Becomes(w, c)
            BY <1>3, <2>1, <3>1 DEF Admit
        <3>3. /\ c.ops = calls[w].ops /\ c.epoch = calls[w].epoch /\ c.todo = calls[w].todo
              /\ c.phase = "operations"
            BY <1>1, <3>1 DEF CallFields
        <3> QED BY <3>2, <3>3
    <2>2. CASE Advice(calls[w]) # "ok"
        <3>1. PICK c : c = Refused(calls[w], Advice(calls[w]))
            OBVIOUS
        <3>2. Becomes(w, c) /\ UNCHANGED serverVars
            BY <1>3, <2>2, <3>1 DEF Admit
        <3>3. RefusedFor(calls[w], c.code)
            BY <1>2, <2>2, <3>1 DEF RefusedFor
        <3> QED BY <1>2, <3>1, <3>2, <3>3
    <2> QED BY <2>1, <2>2
<1>4. CASE ReadPage(w)
    <2>1. CASE PageVerdict(calls[w]) = "ok"
        <3>1. PICK c : c = [calls[w] EXCEPT !.phase = "read", !.page = Page(calls[w])]
            OBVIOUS
        <3>2. Becomes(w, c)
            BY <1>4, <2>1, <3>1 DEF ReadPage
        <3>3. /\ c.ops = calls[w].ops /\ c.epoch = calls[w].epoch /\ c.todo = calls[w].todo
              /\ c.phase = "read"
            BY <1>1, <3>1 DEF CallFields
        <3> QED BY <3>2, <3>3
    <2>2. CASE PageVerdict(calls[w]) # "ok"
        <3>1. PICK c : c = Refused(calls[w], PageVerdict(calls[w]))
            OBVIOUS
        <3>2. Becomes(w, c) /\ UNCHANGED serverVars
            BY <1>4, <2>2, <3>1 DEF ReadPage
        <3>3. RefusedFor(calls[w], c.code)
            BY <1>2, <2>2, <3>1 DEF RefusedFor
        <3> QED BY <1>2, <3>1, <3>2, <3>3
    <2> QED BY <2>1, <2>2
<1>5. CASE Report(w)
    <2>1. PICK c : c = [calls[w] EXCEPT !.phase = "answered"]
        OBVIOUS
    <2>2. Becomes(w, c)
        BY <1>5, <2>1 DEF Report
    <2>3. /\ c.ops = calls[w].ops /\ c.epoch = calls[w].epoch /\ c.todo = calls[w].todo
          /\ c.phase = "answered"
        BY <1>1, <2>1 DEF CallFields
    <2> QED BY <2>2, <2>3
<1>6. ASSUME NEW settle
      PROVE  LET c == Replied(calls[w], s, settle)
             IN  /\ c.ops = calls[w].ops /\ c.epoch = calls[w].epoch
                 /\ c.todo \subseteq calls[w].todo /\ c.phase = calls[w].phase
    <2> HIDE DEF s
    <2> QED BY <1>1 DEF Replied, CallFields
<1>7. CASE Process(w)
    <2>1. calls[w].phase = "operations" /\ calls[w].todo # {}
        BY <1>7 DEF Process
    <2>2. CASE Verdict(calls[w], s) = "decide"
        <3>1. Decide(w, s)
            BY <1>7, <2>2 DEF Process
        <3> HIDE DEF s
        <3>2. PICK settle : Becomes(w, Replied(calls[w], s, settle))
            BY <3>1, Zenon DEF Decide
        <3> QED BY <1>6, <2>1, <3>2
    <2>3. CASE Verdict(calls[w], s) = "replay"
        <3>1. Becomes(w, Replied(calls[w], s, receipts[s].settle))
            BY <1>7, <2>3 DEF Process
        <3> HIDE DEF s
        <3> QED BY <1>6, <2>1, <3>1
    <2>4. CASE Verdict(calls[w], s) \notin {"decide", "replay"}
        <3>1. PICK c : c = Refused(calls[w], Verdict(calls[w], s))
            OBVIOUS
        <3>2. Becomes(w, c) /\ UNCHANGED serverVars
            BY <1>7, <2>4, <3>1 DEF Process
        <3>3. RefusedFor(calls[w], c.code)
            BY <1>2, <2>1, <2>4, <3>1 DEF RefusedFor
        <3> HIDE DEF s
        <3> QED BY <1>2, <3>1, <3>2, <3>3
    <2> QED BY <2>2, <2>3, <2>4
<1> QED BY <1>3, <1>4, <1>5, <1>7 DEF Serve

\* What the server refuses the round for is not of the round's own making.
LEMMA LiveRefusalCaused ==
    ASSUME RoundConstants, CauseInv, calls["live"] # None, NEW code, RefusedFor(calls["live"], code)
    PROVE  Caused(code)
<1> DEFINE c == calls["live"]
           s == NextOp(c)
<1>1. RoundInv /\ SpaceOK /\ BindingOK /\ OutboxOK /\ InboxOK /\ AnswersOK /\ RowOK /\ InOrder
    BY DEF CauseInv, LedgerInv, RoundInv
<1>2. /\ c.epoch = binding.epoch /\ c.received = binding.received /\ pc = "waiting"
      /\ binding.received \in Nat /\ binding.epoch = 1
    BY <1>1 DEF RoundInv, LiveOK, BindingOK, RoundConstants
<1>3. space.epoch \in Nat \ {0} /\ space.rev \in Nat /\ space.floor \in Nat
    BY <1>1 DEF SpaceOK
<1>4. CASE row.state # "active" /\ code = "BINDING_NOT_ACTIVE"
    BY <1>4 DEF Caused
<1>5. CASE c.epoch # space.epoch /\ code = "EPOCH_MISMATCH"
    BY <1>2, <1>3, <1>5 DEF Caused
<1>6. CASE code = "HISTORY_EXPIRED" /\ c.received < space.floor
    BY <1>2, <1>6 DEF Caused
<1>7. CASE code = "INVALID_WATERMARK" /\ c.epoch = space.epoch /\ c.received > space.rev
    BY <1>1, <1>2, <1>3, <1>7 DEF InboxOK
<1>8. CASE code = Verdict(c, s) /\ c.epoch = space.epoch /\ c.todo # {}
           /\ code \in {"OP_ID_REUSED", "CLIENT_SEQ_REGRESSED", "OPERATION_HISTORY_EXPIRED"}
    <2>1. s \in c.todo
        <3>1. CallOK(c, answered)
            BY DEF CauseInv, LedgerInv, RoundInv, CallsOK, Sides
        <3> QED BY <1>8, <3>1, NextOpIsOne DEF CallOK
    <2> HIDE DEF s
    <2>2. /\ s \in DOMAIN outbox /\ s \in WithStatus("IN_FLIGHT") /\ s \in DOMAIN c.ops
          /\ c.ops[s].body = outbox[s].body /\ c.ops[s].base = outbox[s].base
        BY <1>2, <2>1 DEF CauseInv, SaysWhatWasCaptured, SaysSame, SentIsInFlight, WithStatus, Sides
    <2> HIDE DEF c
    <2>3. code # "OP_ID_REUSED"
        <3>1. s \in DOMAIN receipts => receipts[s].body = outbox[s].body
            BY <2>2 DEF CauseInv, SaysWhatWasCaptured
        <3> QED BY <1>8, <2>2, <3>1 DEF Verdict
    <2>4. outbox[s].base \in Nat /\ s \in 1 .. binding.clientSeq
        BY <1>1, <2>2 DEF OutboxOK, Pending, RoundConstants
    <2>5. space.floor > 0 /\ outbox[s].base <= space.floor
        <3>1. CASE code = "CLIENT_SEQ_REGRESSED"
            <4>1. s <= row.maxSeq /\ s \notin DOMAIN receipts
                BY <1>8, <3>1 DEF Verdict
            <4>2. s \in DOMAIN answered
                BY <1>1, <2>4, <4>1 DEF InOrder, RowOK
            <4> QED BY <1>2, <1>8, <2>2, <4>1, <4>2 DEF CauseInv, BasesReached
        <3>2. CASE code = "OPERATION_HISTORY_EXPIRED"
            <4>1. c.ops[s].base < space.floor
                BY <1>8, <3>2 DEF Verdict
            <4> QED BY <1>3, <2>2, <2>4, <4>1
        <3> QED BY <1>8, <2>3, <3>1, <3>2
    <2>6. code \in {"OPERATION_HISTORY_EXPIRED", "CLIENT_SEQ_REGRESSED"}
        BY <1>8, <2>3
    <2> QED BY <2>2, <2>5, <2>6 DEF Caused
<1> HIDE DEF s
<1>9. ASSUME code = Advice(c), code # "ok"
      PROVE  \/ row.state # "active" /\ code = "BINDING_NOT_ACTIVE"
             \/ c.epoch # space.epoch /\ code = "EPOCH_MISMATCH"
             \/ code = "HISTORY_EXPIRED" /\ c.received < space.floor
             \/ code = "INVALID_WATERMARK" /\ c.epoch = space.epoch /\ c.received > space.rev
    BY <1>9 DEF Advice
<1>10. ASSUME code = PageVerdict(c), code # "ok"
       PROVE  \/ c.epoch # space.epoch /\ code = "EPOCH_MISMATCH"
              \/ code = "HISTORY_EXPIRED" /\ c.received < space.floor
    BY <1>10 DEF PageVerdict
<1>11. ASSUME code = Verdict(c, s), code \notin {"decide", "replay"}
       PROVE  \/ row.state # "active" /\ code = "BINDING_NOT_ACTIVE"
              \/ c.epoch # space.epoch /\ code = "EPOCH_MISMATCH"
              \/ /\ c.epoch = space.epoch
                 /\ code \in {"OP_ID_REUSED", "CLIENT_SEQ_REGRESSED", "OPERATION_HISTORY_EXPIRED"}
    BY <1>11 DEF Verdict
<1> HIDE DEF c
<1>12. \/ code = Advice(c) /\ code # "ok"
       \/ c.todo # {} /\ code = Verdict(c, s) /\ code \notin {"decide", "replay"}
       \/ code = PageVerdict(c) /\ code # "ok"
    BY DEF RefusedFor, s, c
<1> QED BY <1>4, <1>5, <1>6, <1>7, <1>8, <1>9, <1>10, <1>11, <1>12

\* What serving does to the tables: nothing that matters here, or operation s gets its
\* receipt, at a revision the space has reached.
LEMMA ReceiptsMove ==
    ASSUME RoundConstants, CauseInv, NEW w \in Sides, Serve(w)
    PROVE  /\ space'.epoch = space.epoch /\ space'.floor = space.floor /\ space'.rev >= space.rev
           /\ row'.state = row.state
           /\ \/ UNCHANGED <<receipts, answered>>
              \/ \E s \in calls[w].todo :
                     /\ calls[w].epoch = space.epoch
                     /\ DOMAIN receipts' = DOMAIN receipts \cup {s}
                     /\ \A t \in DOMAIN receipts \ {s} : receipts'[t] = receipts[t]
                     /\ receipts'[s].body = calls[w].ops[s].body /\ receipts'[s].at = space'.rev
                     /\ DOMAIN answered' = DOMAIN answered \cup {s}
<1>1. SpaceOK /\ RowOK /\ calls[w] # None /\ CallOK(calls[w], answered)
    BY DEF CauseInv, LedgerInv, RoundInv, CallsOK, Serve
<1>2. space.rev \in Nat
    BY <1>1 DEF SpaceOK, RoundConstants
<1>3. CASE Admit(w) \/ ReadPage(w)
    BY <1>2, <1>3 DEF Admit, ReadPage, serverVars
<1>4. CASE Report(w)
    BY <1>1, <1>2, <1>4 DEF Report, Watermarks, RowOK
<1> DEFINE s == NextOp(calls[w])
<1>5. CASE Process(w) /\ Verdict(calls[w], s) # "decide"
    BY <1>2, <1>5 DEF Process, serverVars
<1>6. CASE Process(w) /\ Verdict(calls[w], s) = "decide"
    <2>1. Decide(w, s) /\ s \in calls[w].todo /\ calls[w].epoch = space.epoch
        BY <1>1, <1>6, NextOpIsOne DEF Process, Verdict, CallOK
    <2> HIDE DEF s
    <2>2. PICK written \in BOOLEAN :
              LET sp == IF written THEN Appended(s) ELSE space
              IN  \E settle \in IF written THEN {sp.rev} ELSE 0 .. sp.rev :
                      /\ space' = sp
                      /\ row' = [row EXCEPT !.maxSeq = IF @ < s THEN s ELSE @]
                      /\ receipts' = With(receipts, s, [body |-> calls[w].ops[s].body,
                                                        settle |-> settle, at |-> sp.rev])
                      /\ answered' = IF s \in DOMAIN answered THEN answered
                                     ELSE With(answered, s, settle)
        BY <2>1, Zenon DEF Decide
    <2>3. PICK settle : receipts' = With(receipts, s, [body |-> calls[w].ops[s].body,
                                                       settle |-> settle, at |-> space'.rev])
        BY <2>2
    <2>4. DOMAIN answered' = DOMAIN answered \cup {s}
        BY <2>2 DEF With
    <2>5. space'.epoch = space.epoch /\ space'.floor = space.floor /\ space'.rev >= space.rev
        BY <1>1, <1>2, <2>2 DEF Appended, SpaceOK
    <2>6. row'.state = row.state
        BY <1>1, <2>2 DEF RowOK
    <2>7. /\ DOMAIN receipts' = DOMAIN receipts \cup {s}
          /\ \A t \in DOMAIN receipts \ {s} : receipts'[t] = receipts[t]
          /\ receipts'[s].body = calls[w].ops[s].body /\ receipts'[s].at = space'.rev
        BY <2>3 DEF With
    <2> QED BY <2>1, <2>4, <2>5, <2>6, <2>7
<1> QED BY <1>3, <1>4, <1>5, <1>6 DEF Serve

LEMMA ServeKeepsCause ==
    ASSUME RoundConstants, CauseInv, NEW w \in Sides, Serve(w), LedgerInv'
    PROVE  CauseInv'
<1>1. UNCHANGED <<binding, outbox, picked, pc>> /\ calls[w] # None /\ DOMAIN calls = Sides
    BY DEF Serve, replicaVars, roundVars, CauseInv, LedgerInv, RoundInv, CallsOK
<1>2. RoundInv /\ SpaceOK /\ SpaceOK' /\ OutboxOK /\ BindingOK /\ InboxOK
    BY DEF CauseInv, LedgerInv, RoundInv
<1>3. PICK c : /\ Becomes(w, c)
               /\ c.ops = calls[w].ops /\ c.epoch = calls[w].epoch
               /\ c.todo \subseteq calls[w].todo
               /\ c.phase = "refused" => UNCHANGED serverVars /\ RefusedFor(calls[w], c.code)
    BY <1>2, RequestStays
<1>4. /\ calls'[w] = c \/ (w = "stray" /\ calls'[w] = None)
      /\ \A v \in Sides \ {w} : calls'[v] = calls[v]
    BY <1>1, <1>3 DEF Becomes, Sides
<1>5. SaysWhatWasCaptured /\ BasesReached
    BY DEF CauseInv
<1>6. /\ space'.epoch = space.epoch /\ space'.floor = space.floor /\ space'.rev >= space.rev
      /\ row'.state = row.state
    BY ReceiptsMove
<1>7. ASSUME NEW s \in DOMAIN receipts' \cap DOMAIN outbox
      PROVE  receipts'[s].body = outbox[s].body
    <2>1. CASE UNCHANGED receipts
        BY <1>5, <1>7, <2>1 DEF SaysWhatWasCaptured
    <2>2. ASSUME NEW t \in calls[w].todo,
                 DOMAIN receipts' = DOMAIN receipts \cup {t},
                 \A u \in DOMAIN receipts \ {t} : receipts'[u] = receipts[u],
                 receipts'[t].body = calls[w].ops[t].body
          PROVE  receipts'[s].body = outbox[s].body
        <3>1. t \in DOMAIN outbox => calls[w].ops[t].body = outbox[t].body
            BY <1>1, <1>5, <2>2 DEF SaysWhatWasCaptured, SaysSame
        <3> QED BY <1>5, <1>7, <2>2, <3>1 DEF SaysWhatWasCaptured
    <2> QED BY <2>1, <2>2, ReceiptsMove
<1>8. SaysWhatWasCaptured'
    <2>1. \A ops : SaysSame(ops) => SaysSame(ops)'
        BY <1>1 DEF SaysSame
    <2>2. SaysSame(picked)'
        BY <1>1, <1>5 DEF SaysWhatWasCaptured, SaysSame
    <2>3. ASSUME NEW v \in Sides, calls'[v] # None
          PROVE  /\ SaysSame(calls[v].ops)'
                 /\ calls'[v].todo \subseteq DOMAIN calls'[v].ops
                 /\ calls'[v].epoch = binding'.epoch
        <3>1. calls[v] # None /\ calls'[v].ops = calls[v].ops /\ calls'[v].epoch = calls[v].epoch
              /\ calls'[v].todo \subseteq calls[v].todo
            BY <1>1, <1>3, <1>4, <2>3
        <3>2. PICK ops : ops = calls[v].ops
            OBVIOUS
        <3>3. SaysSame(ops) /\ calls[v].todo \subseteq DOMAIN ops /\ calls[v].epoch = binding.epoch
            BY <1>5, <3>1, <3>2 DEF SaysWhatWasCaptured
        <3>4. SaysSame(ops)'
            BY <2>1, <3>3
        <3> QED BY <1>1, <3>1, <3>2, <3>3, <3>4 DEF SaysSame
    <2> QED BY <1>1, <1>7, <2>2, <2>3 DEF SaysWhatWasCaptured
<1>9. SentIsInFlight'
    <2>1. SentIsInFlight
        BY DEF CauseInv
    <2>2. pc = "waiting" => DOMAIN calls'["live"].ops = DOMAIN calls["live"].ops
        BY <1>3, <1>4 DEF Sides
    <2> QED BY <1>1, <2>1, <2>2 DEF SentIsInFlight, WithStatus
<1>10. BasesReached'
    <2>1. \A s \in DOMAIN outbox : outbox[s].base <= binding.applied
        BY <1>5 DEF BasesReached
    <2>2. space.rev \in Nat /\ space'.rev \in Nat /\ binding.applied \in Nat
          /\ \A s \in DOMAIN outbox : outbox[s].base \in Nat
        BY <1>2 DEF SpaceOK, BindingOK, OutboxOK, Pending, RoundConstants
    <2>3. ASSUME binding.epoch = space.epoch
          PROVE  /\ \A s \in DOMAIN receipts' :
                        /\ receipts'[s].at \in 0 .. space'.rev
                        /\ s \in DOMAIN outbox => outbox[s].base <= receipts'[s].at
                 /\ \A s \in DOMAIN answered' \ DOMAIN receipts' :
                        /\ space.floor > 0
                        /\ s \in DOMAIN outbox => outbox[s].base <= space.floor
        <3>1. binding.applied <= space.rev
            BY <1>2, <2>2, <2>3 DEF InboxOK, BindingOK
        <3>2. \A s \in DOMAIN outbox : outbox[s].base <= space'.rev
            BY <1>6, <2>1, <2>2, <3>1
        <3>3. /\ \A s \in DOMAIN receipts :
                     /\ receipts[s].at \in 0 .. space'.rev
                     /\ s \in DOMAIN outbox => outbox[s].base <= receipts[s].at
              /\ \A s \in DOMAIN answered \ DOMAIN receipts :
                     /\ space.floor > 0
                     /\ s \in DOMAIN outbox => outbox[s].base <= space.floor
            BY <1>5, <1>6, <2>2, <2>3 DEF BasesReached
        <3>4. CASE UNCHANGED <<receipts, answered>>
            BY <3>3, <3>4
        <3>5. ASSUME NEW t,
                     DOMAIN receipts' = DOMAIN receipts \cup {t},
                     \A u \in DOMAIN receipts \ {t} : receipts'[u] = receipts[u],
                     receipts'[t].at = space'.rev,
                     DOMAIN answered' = DOMAIN answered \cup {t}
              PROVE  /\ \A s \in DOMAIN receipts' :
                            /\ receipts'[s].at \in 0 .. space'.rev
                            /\ s \in DOMAIN outbox => outbox[s].base <= receipts'[s].at
                     /\ \A s \in DOMAIN answered' \ DOMAIN receipts' :
                            /\ space.floor > 0
                            /\ s \in DOMAIN outbox => outbox[s].base <= space.floor
            <4>1. \A s \in DOMAIN receipts' :
                      /\ receipts'[s].at \in 0 .. space'.rev
                      /\ s \in DOMAIN outbox => outbox[s].base <= receipts'[s].at
                BY <2>2, <3>2, <3>3, <3>5
            <4>2. \A s \in DOMAIN answered' \ DOMAIN receipts' : s \in DOMAIN answered \ DOMAIN receipts
                BY <3>5
            <4> QED BY <3>3, <4>1, <4>2
        <3> QED BY <3>4, <3>5, ReceiptsMove
    <2> QED BY <1>1, <1>6, <2>1, <2>3 DEF BasesReached
<1>11. \A code : Caused(code) => Caused(code)'
    <2> SUFFICES ASSUME NEW code, Caused(code) PROVE Caused(code)'
        OBVIOUS
    <2>1. space'.epoch \in Nat /\ space'.floor \in Nat /\ space'.floor >= space.floor
        BY <1>2, <1>6 DEF SpaceOK
    <2>2. WithStatus("IN_FLIGHT")' = WithStatus("IN_FLIGHT")
        BY <1>1 DEF WithStatus
    <2> QED BY <1>1, <1>2, <1>6, <2>1, <2>2, CauseStays
<1>12. RefusalHasCause'
    <2> SUFFICES ASSUME pc' = "waiting", calls'["live"].phase = "refused"
                 PROVE  Caused(calls["live"].code)'
        BY DEF RefusalHasCause
    <2>1. PICK code : code = calls'["live"].code
        OBVIOUS
    <2>2. Caused(code)
        <3>1. CASE w = "live"
            <4>1. calls'["live"] = c
                BY <1>4, <3>1
            <4>2. RefusedFor(calls["live"], code)
                BY <1>3, <2>1, <3>1, <4>1
            <4> QED BY <1>1, <3>1, <4>2, LiveRefusalCaused
        <3>2. CASE w # "live"
            <4>1. calls'["live"] = calls["live"]
                BY <1>4, <3>2 DEF Sides
            <4> QED BY <1>1, <2>1, <4>1 DEF CauseInv, RefusalHasCause
        <3> QED BY <3>1, <3>2
    <2>3. Caused(code)'
        BY <1>11, <2>2
    <2> QED BY <2>1, <2>3 DEF Caused
<1>13. RecoveryHasCause'
    <2>1. binding.state = "needs_recovery" => Caused(binding.code)
        BY DEF CauseInv, RecoveryHasCause, Caused
    <2>2. binding.state = "needs_recovery" => Caused(binding.code)'
        BY <1>1, <1>11, <2>1
    <2> QED BY <1>1, <2>2 DEF RecoveryHasCause, Caused
<1> QED BY <1>8, <1>9, <1>10, <1>12, <1>13 DEF CauseInv

LEMMA CauseInvKept ==
    ASSUME RoundConstants, CauseInv, [NextCaptured]_vars
    PROVE  CauseInv'
<1>1. LedgerInv'
    BY LedgerInvKept DEF CauseInv
<1>2. CASE NextCaptured
    BY <1>1, <1>2, CaptureKeepsCause, ReadsKeepCause, SendKeepsCause, RoundEndKeepsCause,
       ServeKeepsCause, WorldKeepsCause DEF NextCaptured, Round
<1>3. CASE UNCHANGED vars
    BY <1>1, <1>3 DEF CauseInv, vars, serverVars, replicaVars, roundVars, SaysWhatWasCaptured, SaysSame,
                      SentIsInFlight, BasesReached, RefusalHasCause, RecoveryHasCause, Caused,
                      WithStatus
<1> QED BY <1>2, <1>3

\* For any number of rounds, losses, strays and operations: a device that asks for recovery
\* does so because the space was restored, its binding ended or its history was collected,
\* never because of its own retries (syncCoordinator.ts:80-103).
THEOREM RecoveryIsCaused == SpecCaptured => []RecoveryHasCause
<1>1. Init => CauseInv
    <2> SUFFICES ASSUME Init PROVE CauseInv
        OBVIOUS
    <2>1. RoundInv
        BY InitEstablishes, RoundConstants
    <2>2. LedgerInv
        BY <2>1 DEF Init, LedgerInv, InOrder, RequestsClosed, RoundIsActive, Sides
    <2>3. SaysWhatWasCaptured /\ SentIsInFlight /\ BasesReached
        BY DEF Init, SaysWhatWasCaptured, SaysSame, SentIsInFlight, BasesReached, Sides
    <2>4. RefusalHasCause /\ RecoveryHasCause
        BY DEF Init, RefusalHasCause, RecoveryHasCause
    <2> QED BY <2>2, <2>3, <2>4 DEF CauseInv
<1>2. CauseInv /\ [NextCaptured]_vars => CauseInv'
    BY CauseInvKept, RoundConstants
<1>3. CauseInv => RecoveryHasCause
    BY DEF CauseInv
<1> QED BY <1>1, <1>2, <1>3, PTL DEF SpecCaptured
=============================================================================
