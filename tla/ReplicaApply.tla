---------------------------- MODULE ReplicaApply ----------------------------
(***************************************************************************)
(* One device between two writers of its bookmarks: the applier, which     *)
(* brings the server's rows into the browser (remoteChangeApplier.ts), and *)
(* the user, whose edits the event processor captures (eventProcessor.ts). *)
(* The browser reports both alike, as events that come later; persisted    *)
(* expectations are to tell the applier's own echoes from edits.  A worker *)
(* may be killed between any two of its steps.                             *)
(*                                                                         *)
(* Bookmarks only: their URL goes the way of their title.  A place is the  *)
(* browser id of a folder of the mount, which stays, and a position, taken *)
(* for a token that is only compared; JournalReplay has the arithmetic.    *)
(* SyncRound has the rounds, the loss of requests and the answers' order.  *)
(***************************************************************************)
EXTENDS Naturals, SequencesExt

CONSTANTS
    Folders,     \* the mapped folders of the mount
    Words,       \* what titles are made of
    Alike,       \* two bookmarks may have the same title
    Prompt,      \* the events of a sync are handled before the next one starts
    MaxWrites,   \* bound on what the other devices and the user do
    MaxEdits,    \* bound on what the user does of it
    MaxJournal,  \* bound on the journal
    MaxExpected, \* bound on the expectations, which a failing call repeats
    MaxKills,    \* bound on the workers killed
    None

VARIABLES
    space,    \* server: live node -> title and place
    journal,  \* server: the rows, all after the binding's baseline
    browser,  \* browser id -> title and place
    chain,    \* events in the dispatch chain, each with the node as it was read
    reads,    \* onChanged and onMoved events whose node is being read
    mirror,   \* browser id -> localNodes row
    expected, \* the expectedMutations rows
    outbox,   \* the pendingOps rows in clientSeq order
    applied,  \* appliedRevision
    received, \* receivedRevision
    applier,  \* the sync in progress
    made,     \* how many nodes the browser has given an id
    kills,    \* how many workers were killed
    edits,    \* history: what the user did, in order
    lost,     \* history: events were lost with a worker
    overtook  \* history: an event was handled between a call of the browser and its commit,
              \* or the next row begun before an event was handled

server == <<space, journal>>
events == <<chain, reads>>
device == <<mirror, expected, outbox, applied, received>>
history == <<kills, edits, lost, overtook>>
vars == <<server, browser, made, events, device, applier, history>>

Positions == {0, 1}
Places == [folder : Folders, pos : Positions]

Idle == [at |-> "idle"]

Init ==
    /\ space = <<>> /\ journal = <<>>
    /\ browser = <<>> /\ chain = <<>> /\ reads = <<>>
    /\ mirror = <<>> /\ expected = {} /\ outbox = <<>>
    /\ applied = 0 /\ received = 0 /\ applier = Idle
    /\ made = 0 /\ kills = 0 /\ edits = <<>> /\ lost = FALSE /\ overtook = FALSE

Put(f, x, v) == [y \in DOMAIN f \cup {x} |-> IF y = x THEN v ELSE f[y]]
Drop(f, S) == Restrict(f, DOMAIN f \ S)

\* Canonical ids count from 1; the ids of an outbox row that was withdrawn may come again.
NewId == 1 + Max({0} \cup {journal[r].node : r \in DOMAIN journal}
                 \cup {outbox[i].node : i \in DOMAIN outbox})

\* Browser ids count from 101, and never come again.
NewBrowserId == 101 + made

\* The rows of other devices and the user's edits share one bound.
MayWrite == Len(SelectSeq(journal, LAMBDA row : row.origin = "other")) + Len(edits) < MaxWrites

\* A bookmark has titles of its own, unless bookmarks may be alike.
NewTitles ==
    LET creates == SelectSeq(journal \o edits, LAMBDA c : c.type = "create")
    IN  {IF Alike THEN <<0, w>> ELSE <<Len(creates), w>> : w \in Words}
OtherTitles(title) == {<<title[1], w>> : w \in Words} \ {title}

---------------------------------------------------------------------------
(* The server *)

Row(type, node, title, place, origin) ==
    [type |-> type, node |-> node, title |-> title, place |-> place, origin |-> origin]

Written(sp, row) ==
    CASE row.type = "create" -> Put(sp, row.node, [title |-> row.title, place |-> row.place])
      [] row.type = "update" -> [sp EXCEPT ![row.node].title = row.title]
      [] row.type = "move"   -> [sp EXCEPT ![row.node].place = row.place]
      [] row.type = "delete" -> Drop(sp, {row.node})

Write(row) ==
    /\ MayWrite /\ Len(journal) < MaxJournal
    /\ journal' = Append(journal, row)
    /\ space' = Written(space, row)

\* The rows of other devices: what is already so writes none.  Bound: they are written
\* while a request is on its way, for the device sees them in the answers alone.
Elsewhere ==
    /\ applier.at = "sent"
    /\ \/ \E t \in NewTitles, p \in Places : Write(Row("create", NewId, t, p, "other"))
       \/ \E n \in DOMAIN space :
             \/ \E t \in OtherTitles(space[n].title) : Write(Row("update", n, t, None, "other"))
             \/ \E p \in Places \ {space[n].place} : Write(Row("move", n, None, p, "other"))
             \/ Write(Row("delete", n, None, None, "other"))
    /\ UNCHANGED <<browser, made, events, device, applier, history>>

\* The last row that wrote what rows of this type write of the node, 0 when there is none.
LastRow(jr, node, type) ==
    Max({0} \cup {r \in DOMAIN jr : jr[r].node = node /\ jr[r].type \in {type, "create"}})

\* The server's answer to op: the row it writes, if any, and the revision to settle
\* after.  An edit of a field that another device changed after the base is refused.
Answer(sp, jr, op) ==
    LET gone    == op.type # "create" /\ op.node \notin DOMAIN sp
        there   == op.type = "move" /\ ~gone /\ sp[op.node].place = op.place
        winner  == LastRow(jr, op.node, op.type)
        refused == op.type \in {"update", "move"} /\ winner > op.base /\ jr[winner].origin = "other"
    IN  IF gone THEN [row |-> FALSE, settle |-> LastRow(jr, op.node, "delete")]
        ELSE IF there \/ refused THEN [row |-> FALSE, settle |-> winner]
        ELSE [row |-> TRUE, settle |-> Len(jr) + 1]

Serve(st, op) ==
    LET a   == Answer(st.space, st.journal, op)
        row == Row(op.type, op.node, op.title, op.place, "own")
        done == [op EXCEPT !.status = "RESOLVED", !.settle = a.settle]
    IN  IF op.status # "IN_FLIGHT" THEN [st EXCEPT !.outbox = Append(@, op)]
        ELSE [outbox  |-> Append(st.outbox, done),
              space   |-> IF a.row THEN Written(st.space, row) ELSE st.space,
              journal |-> IF a.row THEN Append(st.journal, row) ELSE st.journal]

Served == FoldLeft(Serve, [outbox |-> <<>>, space |-> space, journal |-> journal], outbox)

---------------------------------------------------------------------------
(* The browser *)

\* What the user does; onCreated and onRemoved carry the node, onChanged and onMoved
\* are read when their handler runs.
Event(kind, id, node) == [kind |-> kind, id |-> id, node |-> node]
Edit(type, id, title, place) == [type |-> type, id |-> id, title |-> title, place |-> place]

Created(id, title, place) ==
    /\ browser' = Put(browser, id, [title |-> title, place |-> place])
    /\ made' = made + 1
    /\ chain' = Append(chain, Event("created", id, browser'[id]))
    /\ UNCHANGED reads

\* A title or place that is there already makes no event.
Changed(id, kind, node) ==
    /\ browser' = [browser EXCEPT ![id] = node]
    /\ reads' = IF node = browser[id] THEN reads ELSE Append(reads, [kind |-> kind, id |-> id])
    /\ UNCHANGED <<made, chain>>

Removed(id) ==
    /\ browser' = Drop(browser, {id})
    /\ chain' = Append(chain, Event("removed", id, browser[id]))
    /\ UNCHANGED <<made, reads>>

UserEdit(edit, step) ==
    /\ MayWrite /\ Len(edits) < MaxEdits
    /\ edits' = Append(edits, edit)
    /\ step
    /\ UNCHANGED <<server, device, applier, kills, lost, overtook>>

UserCreates == \E t \in NewTitles, p \in Places :
    UserEdit(Edit("create", NewBrowserId, t, p), Created(NewBrowserId, t, p))
UserRenames == \E b \in DOMAIN browser : \E t \in OtherTitles(browser[b].title) :
    UserEdit(Edit("update", b, t, None), Changed(b, "changed", [browser[b] EXCEPT !.title = t]))
UserMoves == \E b \in DOMAIN browser : \E p \in Places \ {browser[b].place} :
    UserEdit(Edit("move", b, None, p), Changed(b, "moved", [browser[b] EXCEPT !.place = p]))
UserRemoves == \E b \in DOMAIN browser :
    UserEdit(Edit("delete", b, None, None), Removed(b))

\* The listener has read the node of its event; one that is gone makes no event.
ReadNode ==
    /\ reads # <<>>
    /\ LET e == Head(reads)
       IN  chain' = IF e.id \in DOMAIN browser
                    THEN Append(chain, Event(e.kind, e.id, browser[e.id])) ELSE chain
    /\ reads' = Tail(reads)
    /\ UNCHANGED <<server, browser, made, device, applier, history>>

---------------------------------------------------------------------------
(* The event processor: the head of the dispatch chain *)

LocalRow(cid, title, folder, pos) ==
    [cid |-> cid, title |-> title, folder |-> folder, pos |-> pos]

Op(type, node, title, place, id) ==
    [type |-> type, node |-> node, title |-> title, place |-> place, id |-> id,
     base |-> applied, status |-> "QUEUED", settle |-> None]

Queue(op) == outbox' = Append(outbox, op)

\* The create that carries this browser node, in an outbox state.
Carrying(id, status) ==
    {i \in DOMAIN outbox :
        outbox[i].type = "create" /\ outbox[i].id = id /\ outbox[i].status = status}

Provisional(e) ==
    {x \in expected : /\ x.kind = "create" /\ x.id = None
                      /\ x.place.folder = e.node.place.folder /\ x.title = e.node.title}
Settled(e) == {x \in expected : x.kind = "create" /\ x.id = e.id}

HandleCreated(e) ==
    \/ /\ Cardinality(Provisional(e)) = 1
       /\ LET x == CHOOSE x \in Provisional(e) : TRUE
          IN  /\ expected' = expected \ {x}
              /\ mirror' = Put(mirror, e.id,
                               LocalRow(x.cid, e.node.title, e.node.place.folder, x.place.pos))
       /\ UNCHANGED outbox
    \/ Cardinality(Provisional(e)) > 1 /\ UNCHANGED <<expected, mirror, outbox>>
    \/ /\ Provisional(e) = {} /\ Settled(e) # {}
       /\ expected' = expected \ Settled(e)
       /\ mirror' = IF e.id \in DOMAIN mirror THEN mirror
                    ELSE Put(mirror, e.id, LocalRow((CHOOSE x \in Settled(e) : TRUE).cid,
                                                    e.node.title, e.node.place.folder, None))
       /\ UNCHANGED outbox
    \/ /\ Provisional(e) = {} /\ Settled(e) = {}
       /\ mirror' = Put(mirror, e.id, LocalRow(None, e.node.title, e.node.place.folder, None))
       /\ Queue(Op("create", NewId, e.node.title, e.node.place, e.id))
       /\ UNCHANGED expected

\* A node without a canonical id: what its create, queued or sent, is to become.
Unacked(id) == mirror[id].cid = None
SentCreate(id) == Carrying(id, "QUEUED") = {} /\ Carrying(id, "IN_FLIGHT") # {}
QueuedRow(id) == CHOOSE i \in Carrying(id, "QUEUED") : TRUE
SentId(id) == outbox[CHOOSE i \in Carrying(id, "IN_FLIGHT") : TRUE].node

EchoesOfChange(e) ==
    {x \in expected : /\ x.kind = "update" /\ x.id = e.id
                      /\ x.cid = mirror[e.id].cid /\ x.title = e.node.title}

HandleChanged(e) ==
    LET retitled == [mirror EXCEPT ![e.id].title = e.node.title]
    IN  IF e.id \notin DOMAIN mirror THEN UNCHANGED <<expected, mirror, outbox>>
        ELSE
        \/ /\ ~Unacked(e.id) /\ EchoesOfChange(e) # {}
           /\ expected' = expected \ EchoesOfChange(e) /\ mirror' = retitled
           /\ UNCHANGED outbox
        \/ /\ ~Unacked(e.id) /\ EchoesOfChange(e) = {}
           /\ IF mirror[e.id].title = e.node.title THEN UNCHANGED outbox
              ELSE Queue(Op("update", mirror[e.id].cid, e.node.title, None, e.id))
           /\ mirror' = retitled /\ UNCHANGED expected
        \/ /\ Unacked(e.id) /\ Carrying(e.id, "QUEUED") # {}
           /\ outbox' = [outbox EXCEPT ![QueuedRow(e.id)].title = e.node.title]
           /\ mirror' = retitled /\ UNCHANGED expected
        \/ /\ Unacked(e.id) /\ SentCreate(e.id)
           /\ LET sent == outbox[CHOOSE i \in Carrying(e.id, "IN_FLIGHT") : TRUE]
              IN  IF sent.title = e.node.title THEN UNCHANGED outbox
                  ELSE Queue(Op("update", sent.node, e.node.title, None, e.id))
           /\ mirror' = retitled /\ UNCHANGED expected
        \/ /\ Unacked(e.id) /\ Carrying(e.id, "QUEUED") = {} /\ ~SentCreate(e.id)
           /\ UNCHANGED <<expected, mirror, outbox>>

EchoesOfMove(e) ==
    {x \in expected : /\ x.kind = "move" /\ x.cid = mirror[e.id].cid
                      /\ x.place.folder = e.node.place.folder}

HandleMoved(e) ==
    LET moved == [mirror EXCEPT ![e.id].folder = e.node.place.folder, ![e.id].pos = None]
    IN  IF e.id \notin DOMAIN mirror THEN UNCHANGED <<expected, mirror, outbox>>
        ELSE
        \/ /\ ~Unacked(e.id) /\ Cardinality(EchoesOfMove(e)) = 1
           /\ expected' = expected \ EchoesOfMove(e)
           /\ UNCHANGED <<mirror, outbox>>
        \/ /\ ~Unacked(e.id) /\ Cardinality(EchoesOfMove(e)) # 1
           /\ Queue(Op("move", mirror[e.id].cid, None, e.node.place, e.id))
           /\ mirror' = moved /\ UNCHANGED expected
        \/ /\ Unacked(e.id) /\ Carrying(e.id, "QUEUED") # {}
           /\ outbox' = [outbox EXCEPT ![QueuedRow(e.id)].place = e.node.place]
           /\ mirror' = moved /\ UNCHANGED expected
        \/ /\ Unacked(e.id) /\ SentCreate(e.id)
           /\ Queue(Op("move", SentId(e.id), None, e.node.place, e.id))
           /\ mirror' = moved /\ UNCHANGED expected
        \/ /\ Unacked(e.id) /\ Carrying(e.id, "QUEUED") = {} /\ ~SentCreate(e.id)
           /\ UNCHANGED <<expected, mirror, outbox>>

EchoesOfRemoval(e) == {x \in expected : x.kind = "delete" /\ x.id = e.id}

HandleRemoved(e) ==
    LET unmapped == Drop(mirror, {e.id})
    IN  IF e.id \notin DOMAIN mirror THEN UNCHANGED <<expected, mirror, outbox>>
        ELSE
        \/ /\ ~Unacked(e.id) /\ Cardinality(EchoesOfRemoval(e)) = 1
           /\ expected' = expected \ EchoesOfRemoval(e) /\ mirror' = unmapped
           /\ UNCHANGED outbox
        \/ /\ ~Unacked(e.id) /\ Cardinality(EchoesOfRemoval(e)) # 1
           /\ Queue(Op("delete", mirror[e.id].cid, None, None, e.id))
           /\ mirror' = unmapped /\ UNCHANGED expected
        \/ /\ Unacked(e.id) /\ Carrying(e.id, "QUEUED") # {}
           /\ outbox' = RemoveAt(outbox, QueuedRow(e.id))
           /\ mirror' = unmapped /\ UNCHANGED expected
        \/ /\ Unacked(e.id) /\ SentCreate(e.id)
           /\ Queue(Op("delete", SentId(e.id), None, None, e.id))
           /\ mirror' = unmapped /\ UNCHANGED expected
        \/ /\ Unacked(e.id) /\ Carrying(e.id, "QUEUED") = {} /\ ~SentCreate(e.id)
           /\ UNCHANGED <<expected, mirror, outbox>>

HandleEvent ==
    /\ chain # <<>>
    /\ LET e == Head(chain)
       IN  CASE e.kind = "created" -> HandleCreated(e)
             [] e.kind = "changed" -> HandleChanged(e)
             [] e.kind = "moved"   -> HandleMoved(e)
             [] e.kind = "removed" -> HandleRemoved(e)
    /\ chain' = Tail(chain)
    /\ overtook' = (overtook \/ applier.at = "called")
    /\ UNCHANGED <<server, browser, made, reads, applied, received, applier, kills, edits, lost>>

---------------------------------------------------------------------------
(* The applier, one sync at a time *)

RowOf(cid) == {b \in DOMAIN mirror : mirror[b].cid = cid}
FindMirrorByCanonical(cid) == Min(RowOf(cid))

Expectation(kind, cid, id, title, place) ==
    [rev |-> applied + 1, kind |-> kind, cid |-> cid, id |-> id, title |-> title, place |-> place,
     no |-> 1 + Max({0} \cup {x.no : x \in {y \in expected : y.rev = applied + 1}})]

AtLeast(n, m) == IF n < m THEN m ELSE n

StartSync ==
    /\ applier.at = "idle"
    /\ Prompt => chain = <<>> /\ reads = <<>>
    /\ applier' = [at |-> "recover", todo |-> expected]
    /\ UNCHANGED <<server, browser, made, events, device, history>>

\* Browser nodes that may be what a provisional create has left behind.
Candidates(x) ==
    {b \in DOMAIN browser : /\ b \notin DOMAIN mirror /\ browser[b].title = x.title
                            /\ browser[b].place.folder = x.place.folder}

Satisfied(x, b) ==
    IF x.kind = "delete" THEN b \notin DOMAIN browser
    ELSE /\ b \in DOMAIN browser
         /\ IF x.kind = "move" THEN browser[b].place = x.place ELSE browser[b].title = x.title

\* commitResolved with the node the browser has, if it was asked for one.
CommitResolved(x, asked) ==
    /\ expected' = expected \ {x}
    /\ mirror' =
        IF RowOf(x.cid) = {} THEN mirror
        ELSE LET b     == FindMirrorByCanonical(x.cid)
                 found == asked /\ b \in DOMAIN browser
             IN  [mirror EXCEPT ![b] =
                    [cid    |-> x.cid,
                     title  |-> IF found THEN browser[b].title
                                ELSE IF x.title # None THEN x.title ELSE @.title,
                     folder |-> IF found THEN browser[b].place.folder ELSE @.folder,
                     pos    |-> IF x.place # None THEN x.place.pos ELSE @.pos]]
    /\ applied' = AtLeast(applied, x.rev)

\* The next expectation of those the sync found when it started.
Recover ==
    /\ applier.at = "recover" /\ applier.todo # {}
    /\ LET x == CHOOSE x \in applier.todo :
                    \A y \in applier.todo : x.rev < y.rev \/ (x.rev = y.rev /\ x.no <= y.no)
       IN  /\ applier' = [applier EXCEPT !.todo = @ \ {x}]
           /\ IF x.kind = "create" /\ x.id # None THEN CommitResolved(x, FALSE)
              ELSE IF x.kind = "create" /\ Cardinality(Candidates(x)) = 1
              THEN LET b == CHOOSE b \in Candidates(x) : TRUE
                   IN  /\ expected' = expected \ {x}
                       /\ mirror' = Put(mirror, b, LocalRow(x.cid, x.title, x.place.folder, x.place.pos))
                       /\ applied' = AtLeast(applied, x.rev)
              ELSE IF x.kind # "create" /\ RowOf(x.cid) # {} /\ Satisfied(x, FindMirrorByCanonical(x.cid))
              THEN CommitResolved(x, TRUE)
              ELSE UNCHANGED <<expected, mirror, applied>>
    /\ UNCHANGED <<server, browser, made, events, outbox, received, history>>

Send ==
    /\ applier.at = "recover" /\ applier.todo = {}
    /\ outbox' = [i \in DOMAIN outbox |->
           IF outbox[i].status = "QUEUED" THEN [outbox[i] EXCEPT !.status = "IN_FLIGHT"] ELSE outbox[i]]
    /\ applier' = [at |-> "sent"]
    /\ UNCHANGED <<server, browser, made, events, mirror, expected, applied, received, history>>

\* The server answers the operations of the request, and the device stores results and rows.
Exchange ==
    /\ applier.at = "sent"
    /\ outbox' = Served.outbox /\ space' = Served.space /\ journal' = Served.journal
    /\ Len(journal') <= MaxJournal
    /\ received' = Len(journal')
    /\ applier' = [at |-> "apply"]
    /\ UNCHANGED <<browser, made, events, mirror, expected, applied, history>>

NextRow == journal[applied + 1]

Advance(rows) ==
    /\ mirror' = rows
    /\ applied' = applied + 1
    /\ UNCHANGED <<expected, applier>>

Expect(x, rows) ==
    /\ Cardinality(expected) < MaxExpected
    /\ mirror' = rows
    /\ expected' = expected \cup {x}
    /\ applier' = [at |-> "expected", x |-> x,
                   was |-> IF x.id = None THEN None ELSE mirror[x.id]]
    /\ UNCHANGED applied

Stuck ==
    /\ applier' = [at |-> "stuck"]
    /\ UNCHANGED <<mirror, expected, applied>>

\* tryAdoptLocalCreate: the outbox create of the node itself, else one not answered
\* yet that looks the same.
ProducersUnanswered(row) ==
    LET creates == {i \in DOMAIN outbox : outbox[i].type = "create" /\ outbox[i].status # "RESOLVED"}
        named   == {i \in creates : outbox[i].node = row.node}
        alike   == {i \in creates : outbox[i].title = row.title}
    IN  IF named # {} THEN {Min(named)} ELSE IF alike # {} THEN {Min(alike)} ELSE {}

Producers(row) ==
    LET creates == {i \in DOMAIN outbox : outbox[i].type = "create"}
        named   == {i \in creates : outbox[i].node = row.node}
        alike   == {i \in creates : outbox[i].status # "RESOLVED" /\ outbox[i].title = row.title}
    IN  IF named # {} THEN {Min(named)} ELSE IF alike # {} THEN {Min(alike)} ELSE {}

Adoptable(row) ==
    {outbox[i].id : i \in Producers(row)} \cap {b \in DOMAIN mirror : mirror[b].cid = None}

BeginCreate(row) ==
    LET here == RowOf(row.node) # {} /\ FindMirrorByCanonical(row.node) \in DOMAIN browser
        kept == IF RowOf(row.node) = {} THEN mirror
                ELSE Drop(mirror, {FindMirrorByCanonical(row.node)})
    IN  \/ here /\ Advance(mirror)
        \/ /\ ~here
           /\ \E b \in Adoptable(row) :
                  Advance([kept EXCEPT ![b].cid = row.node, ![b].pos = row.place.pos])
        \/ /\ ~here /\ Adoptable(row) = {}
           /\ Expect(Expectation("create", row.node, None, row.title, row.place), kept)

BeginUpdate(row) ==
    IF RowOf(row.node) = {} THEN Stuck
    ELSE LET b == FindMirrorByCanonical(row.node)
         IN  IF mirror[b].title = row.title THEN Advance(mirror)
             ELSE Expect(Expectation("update", row.node, b, row.title, None), mirror)

BeginMove(row) ==
    IF RowOf(row.node) = {} THEN Stuck
    ELSE LET b == FindMirrorByCanonical(row.node)
         IN  IF mirror[b].folder = row.place.folder /\ mirror[b].pos = row.place.pos
             THEN Advance(mirror)
             ELSE Expect(Expectation("move", row.node, b, None, row.place), mirror)

BeginDelete(row) ==
    IF RowOf(row.node) = {} THEN Advance(mirror)
    ELSE LET b == FindMirrorByCanonical(row.node)
         IN  IF b \notin DOMAIN browser THEN Advance(Drop(mirror, {b}))
             ELSE Expect(Expectation("delete", row.node, b, None, None), mirror)

\* Up to the expectation: what is satisfied already is left alone.
BeginRow ==
    /\ applier.at = "apply" /\ applied < received
    /\ CASE NextRow.type = "create" -> BeginCreate(NextRow)
         [] NextRow.type = "update" -> BeginUpdate(NextRow)
         [] NextRow.type = "move"   -> BeginMove(NextRow)
         [] NextRow.type = "delete" -> BeginDelete(NextRow)
    /\ overtook' = (overtook \/ chain \o reads # <<>>)
    /\ UNCHANGED <<server, browser, made, events, outbox, received, kills, edits, lost>>

\* The call of the browser; it fails when the user has removed the node.
Call ==
    /\ applier.at = "expected"
    /\ LET x == applier.x
       IN  \/ /\ x.kind = "create"
              /\ Created(NewBrowserId, x.title, x.place)
              /\ applier' = [applier EXCEPT !.at = "called", !.x.id = NewBrowserId]
           \/ /\ x.kind # "create" /\ x.id \in DOMAIN browser
              /\ \/ x.kind = "update" /\ Changed(x.id, "changed", [browser[x.id] EXCEPT !.title = x.title])
                 \/ x.kind = "move" /\ Changed(x.id, "moved", [browser[x.id] EXCEPT !.place = x.place])
                 \/ x.kind = "delete" /\ Removed(x.id)
              /\ applier' = [applier EXCEPT !.at = "called"]
           \/ /\ x.kind # "create" /\ x.id \notin DOMAIN browser
              /\ applier' = Idle
              /\ UNCHANGED <<browser, made, events>>
    /\ UNCHANGED <<server, device, history>>

\* All but a delete leave the expectation to the echo; a create writes it again, with the
\* id of the node, also when the echo has taken it.
ExpectedAfterForgotten(x) ==
    IF x.kind \in {"create", "delete"} THEN expected \ {x, [x EXCEPT !.id = None]} ELSE expected

ExpectedAfter(x) ==
    CASE x.kind = "create" -> (expected \ {[x EXCEPT !.id = None]}) \cup {x}
      [] x.kind = "delete" -> expected \ {x}
      [] OTHER -> expected

MirrorAfter(x, was) ==
    CASE x.kind = "create" -> Put(mirror, x.id, LocalRow(x.cid, x.title, x.place.folder, x.place.pos))
      [] x.kind = "update" -> Put(mirror, x.id, [was EXCEPT !.title = x.title])
      [] x.kind = "move"   -> Put(mirror, x.id, [was EXCEPT !.folder = x.place.folder, !.pos = x.place.pos])
      [] x.kind = "delete" -> Drop(mirror, {x.id})

\* Mirror, expectation and watermark in one transaction.
CommitRow ==
    /\ applier.at = "called"
    /\ mirror' = MirrorAfter(applier.x, applier.was)
    /\ expected' = ExpectedAfter(applier.x)
    /\ applied' = applied + 1
    /\ applier' = [at |-> "apply"]
    /\ UNCHANGED <<server, browser, made, events, outbox, received, history>>

SettlePending ==
    /\ applier.at = "apply" /\ applied = received
    /\ outbox' = SelectSeq(outbox, LAMBDA op : op.status # "RESOLVED" \/ op.settle > applied)
    /\ applier' = Idle
    /\ UNCHANGED <<server, browser, made, events, mirror, expected, applied, received, history>>

\* The worker is killed; with the browser, its events go too.
Kill ==
    /\ kills < MaxKills /\ kills' = kills + 1
    /\ applier.at # "stuck" /\ applier' = Idle
    /\ \/ UNCHANGED <<chain, reads, lost>>
       \/ /\ chain \o reads # <<>>
          /\ chain' = <<>> /\ reads' = <<>> /\ lost' = TRUE
    /\ UNCHANGED <<server, browser, made, device, edits, overtook>>

Next ==
    \/ Elsewhere
    \/ UserCreates \/ UserRenames \/ UserMoves \/ UserRemoves
    \/ ReadNode \/ HandleEvent
    \/ StartSync \/ Recover \/ Send \/ Exchange
    \/ BeginRow \/ Call \/ CommitRow \/ SettlePending
    \/ Kill

Spec == Init /\ [][Next]_vars

---------------------------------------------------------------------------
(* Properties *)

Said(op) ==
    \E i \in DOMAIN edits :
        /\ edits[i].type = op.type /\ edits[i].id = op.id
        /\ op.type = "update" => edits[i].title = op.title

\* What the applier does in the browser is not sent back as the user's: a create in the
\* outbox is one the user has made, and so is a retitling, unless events came late; then
\* it has at least a title that some row gave the node.  Echoes come before or after the
\* commit of their row, or after the worker that expected them is gone
\* (eventProcessor.ts:97-146, remoteChangeApplier.ts:265-289).
UploadsAreTheUsers ==
    \A i \in DOMAIN outbox :
        LET op == outbox[i]
        IN  \/ op.type \in {"move", "delete"}
            \/ Said(op)
            \/ /\ op.type = "update" /\ overtook
               /\ \E r \in DOMAIN journal : /\ journal[r].node = op.node
                                            /\ journal[r].title = op.title

\* Nothing is under way and nothing is left to do.
Quiet ==
    /\ applier.at = "idle" /\ chain = <<>> /\ reads = <<>> /\ outbox = <<>>
    /\ applied = Len(journal)

\* Every node of the browser has a canonical id, and no two have the same.
OneNodeEach ==
    /\ \A b \in DOMAIN browser : b \in DOMAIN mirror /\ mirror[b].cid # None
    /\ \A b, c \in DOMAIN browser : mirror[b].cid = mirror[c].cid => b = c

\* The browser has the nodes of the space, with their titles and at their places.
Converged ==
    /\ {mirror[b].cid : b \in DOMAIN browser} = DOMAIN space
    /\ \A b \in DOMAIN browser : browser[b] = space[mirror[b].cid]

\* When everything is quiet the browser and the space have each other's nodes one to
\* one, whatever the user did and wherever a worker was killed, unless events were lost
\* with it.  As long as only other devices write, no worker is killed and each event is
\* handled after the commit of its row and before the next row, they also agree on every
\* title and place.
QuietAgrees ==
    Quiet => /\ ~lost => OneNodeEach
             /\ kills = 0 /\ ~overtook /\ edits = <<>> => OneNodeEach /\ Converged

\* eventProcessor.ts:119-122: an echo that arrives late is still recognised.
MovesAreTheUsers ==
    \A i \in DOMAIN outbox : outbox[i].type = "move" => Said(outbox[i])

\* remoteChangeApplier.ts:46-49: a row whose target is unmapped means a lost mapping.
StuckLost == applier.at = "stuck" => lost
=============================================================================
