----------------------------- MODULE ChangeSets -----------------------------
(***************************************************************************)
(* Change sets and undo (src/server/internal/changeset): every edit of the *)
(* library API is a batch of commands in one transaction, with the before  *)
(* image of each command kept beside it; undo runs the inverse commands as *)
(* a new batch.  A change set that was undone, or was read before another  *)
(* request wrote, is what makes this hard: the request reads the change    *)
(* set outside the transaction that undoes it.                             *)
(*                                                                         *)
(* Journal rows carry the number of their change set as origin.            *)
(***************************************************************************)
EXTENDS CanonicalTree, SequencesExt

CONSTANTS
    Spaces,    \* the spaces of one owner
    Start,     \* space -> the nodes of the backup it was restored from last
    UndoRoot,  \* the key of the slot "Recovered/Undo"
    MaxRev,    \* bound on the revision counter of each space
    MaxEpoch,  \* bound on the epoch
    MaxSets    \* bound on the change sets ever written

VARIABLES
    spaces,   \* space -> its rows (CanonicalTree)
    minted,   \* how many ids were handed out; UUIDv7 ids grow, so ids are 1, 2, ...
    sets,     \* the changesets rows, in the order they were written
    pending   \* the change set a slow undo request has read and found not undone, or 0

setVars == <<spaces, minted, sets, pending>>

ASSUME IdsAreNumbers == IsFiniteSet(NodeIds) /\ NodeIds = 1 .. Cardinality(NodeIds)
ASSUME SetNumbersAreOrigins == MaxSets \in Nat /\ 1 .. MaxSets \subseteq Origins
ASSUME UndoRootIsRoot == UndoRoot \in RootKeys /\ IsFiniteSet(RootKeys)

\* Revision 0 of an epoch: a tree without history (ReplaceBaseline).
Baseline(epoch, slots, nodes) ==
    [epoch |-> epoch, rev |-> 0, floor |-> 0, slots |-> slots,
     nodes |-> [n \in DOMAIN nodes |->
                  [type |-> nodes[n].type, title |-> nodes[n].title, url |-> nodes[n].url,
                   parent |-> nodes[n].parent, pos |-> nodes[n].pos, createdRev |-> 0,
                   titleRev |-> 0, urlRev |-> 0, structRev |-> 0]],
     tomb |-> [n \in {} |-> n], journal |-> [r \in {} |-> r]]

---------------------------------------------------------------------------
(* A batch: its number, the space its commands have produced so far, the   *)
(* before images it has captured, and the ids handed out.                  *)

InOrder(nodes, p) ==
    LET kids == Children(nodes, p)
    IN  [k \in 1 .. Cardinality(kids) |-> CHOOSE n \in kids : Rank(nodes, kids, n) = k - 1]

\* The nodes of a list and everything below them, each expanded in its turn: the children
\* of a node go right behind it (deep), or to the end of the list.
Traversal(nodes, list, deep) ==
    LET size == Cardinality(DOMAIN nodes)
        seen[k \in 0 .. size] ==
            IF k = 0 THEN list
            ELSE LET last == seen[k - 1]
                     kids == InOrder(nodes, last[k])
                 IN  IF k > Len(last) THEN last
                     ELSE IF deep
                     THEN SubSeq(last, 1, k) \o kids \o SubSeq(last, k + 1, Len(last))
                     ELSE last \o kids
    IN  seen[size]

\* readSubtree: breadth first, a parent before its children, these in order.
BreadthFirst(nodes, root) == Traversal(nodes, <<root>>, FALSE)

\* Mutant of Snapshot: the folder is kept without what is in it.
SnapshotOfRoot(nodes, root) ==
    LET node == nodes[root]
    IN  <<[node |-> root, type |-> node.type, title |-> node.title, url |-> node.url,
           parent |-> node.parent]>>

\* The before image of a delete: every row of the subtree.
Snapshot(nodes, root) ==
    LET ids == BreadthFirst(nodes, root)
    IN  [k \in DOMAIN ids |->
            [node |-> ids[k], type |-> nodes[ids[k]].type, title |-> nodes[ids[k]].title,
             url |-> nodes[ids[k]].url, parent |-> nodes[ids[k]].parent]]

NothingCaptured == [updates |-> <<>>, moves |-> <<>>, creates |-> <<>>, deletes |-> <<>>]

\* dedupeUpdates: the earliest before image of a field, its latest after image.
WithUpdate(updates, u) ==
    LET same == {k \in DOMAIN updates : updates[k].node = u.node /\ updates[k].field = u.field}
    IN  IF same = {} THEN Append(updates, u)
        ELSE [k \in DOMAIN updates |->
                IF k \in same THEN [updates[k] EXCEPT !.after = u.after] ELSE updates[k]]

Captured(undo, nodes, c) ==
    CASE c.op = "create" -> [undo EXCEPT !.creates = Append(@, c.node)]
      [] c.op = "update_title" ->
            [undo EXCEPT !.updates = WithUpdate(@, [node |-> c.node, field |-> "title",
                                         before |-> nodes[c.node].title, after |-> c.title])]
      [] c.op = "update_url" ->
            [undo EXCEPT !.updates = WithUpdate(@, [node |-> c.node, field |-> "url",
                                         before |-> nodes[c.node].url, after |-> c.url])]
      [] c.op = "move" ->
            [undo EXCEPT !.moves = Append(@, [node |-> c.node, parent |-> nodes[c.node].parent,
                                              position |-> nodes[c.node].pos])]
      [] c.op = "delete" -> [undo EXCEPT !.deletes = Append(@, Snapshot(nodes, c.node))]

\* BeginBatch, for the next change set of the space s.
Begun(s) == [sp |-> spaces[s], undo |-> NothingCaptured, minted |-> minted,
             number |-> Len(sets) + 1, ok |-> TRUE]

\* Batch.Apply.  A command that fails makes the transaction roll back.
Apply(b, c) ==
    IF b.ok /\ CanExecute(b.sp, c)
    THEN [b EXCEPT !.sp = Execute(b.sp, c, b.number), !.undo = Captured(@, b.sp.nodes, c)]
    ELSE [b EXCEPT !.ok = FALSE]

ApplyAll(b, commands) ==
    LET done[k \in 0 .. Len(commands)] ==
            IF k = 0 THEN b ELSE Apply(done[k - 1], commands[k])
    IN  done[Len(commands)]

\* A create of the node n, with the fields of row.
NewNode(n, row, parent, before) ==
    [op |-> "create", node |-> n, type |-> row.type, title |-> row.title, url |-> row.url,
     parent |-> parent, before |-> before]

---------------------------------------------------------------------------
(* The plan of an undo, and its inverse commands *)

Created(undo) == Range(undo.creates)

\* Mutant of UpdateUnchanged: the value is not looked at, only that the node lives.
UpdateUnchangedAnyValue(sp, cs, u) == u.node \in DOMAIN sp.nodes

\* An update is reverted only while the field holds what the change set wrote.
UpdateUnchanged(sp, cs, u) ==
    /\ u.node \in DOMAIN sp.nodes
    /\ LET node == sp.nodes[u.node]
       IN  /\ (IF u.field = "title" THEN node.titleRev ELSE node.urlRev) <= cs.last
           /\ node[u.field] = u.after

MoveUnchanged(sp, cs, mv) ==
    /\ mv.node \in DOMAIN sp.nodes
    /\ sp.nodes[mv.node].structRev <= cs.last
    /\ mv.parent \in DOMAIN sp.nodes \cup sp.slots

\* A created folder may go only with what the change set itself created.
NothingAddedBelow(sp, undo, n) ==
    n \in DOMAIN sp.nodes /\ sp.nodes[n].type = "folder" =>
        SubtreeIDs(sp.nodes, n) \subseteq Created(undo)

\* reviewReasons finds none.
Clean(sp, cs) ==
    /\ \A k \in DOMAIN cs.undo.updates : UpdateUnchanged(sp, cs, cs.undo.updates[k])
    /\ \A k \in DOMAIN cs.undo.moves : MoveUnchanged(sp, cs, cs.undo.moves[k])
    /\ \A n \in Created(cs.undo) : NothingAddedBelow(sp, cs.undo, n)
    /\ \A k \in DOMAIN cs.undo.deletes : cs.undo.deletes[k][1].node \notin DOMAIN sp.nodes

\* Mutant of WithoutTombstones: the deletion records stay.
WithoutTombstonesKept(sp, ids) == sp

WithoutTombstones(sp, ids) ==
    [sp EXCEPT !.tomb = [n \in DOMAIN @ \ ids |-> @[n]]]

\* restoreSnapshot: under the old parent, or under the recovery slot, at the end.
RestoreSnapshot(b, snap) ==
    LET lost    == snap[1].parent \notin DOMAIN b.sp.nodes \cup b.sp.slots
        slotted == IF lost THEN [b EXCEPT !.sp.slots = @ \cup {UndoRoot}] ELSE b
        Parent(k) == IF k = 1 /\ lost THEN UndoRoot ELSE snap[k].parent
        done    == ApplyAll(slotted, [k \in DOMAIN snap |->
                                        NewNode(snap[k].node, snap[k], Parent(k), None)])
    IN  [done EXCEPT !.sp = WithoutTombstones(@, {snap[k].node : k \in DOMAIN snap})]

RevertOf(u) ==
    IF u.field = "title" THEN [op |-> "update_title", node |-> u.node, title |-> u.before]
                         ELSE [op |-> "update_url", node |-> u.node, url |-> u.before]

\* anchorAt: the child now at the old position, or the end.
MoveBack(b, mv) ==
    LET kids == InOrder(b.sp.nodes, mv.parent)
    IN  Apply(b, [op |-> "move", node |-> mv.node, parent |-> mv.parent,
                  before |-> IF mv.position < Len(kids) THEN kids[mv.position + 1] ELSE None])

\* Only the topmost created nodes are deleted, and those already gone are passed over.
DeleteCreated(b, undo, n) ==
    IF n \notin DOMAIN b.sp.nodes \/ b.sp.nodes[n].parent \in Created(undo)
    THEN b ELSE Apply(b, [op |-> "delete", node |-> n])

\* applyInverse: restore, revert, move back, delete what was created.  Last deleted first:
\* a folder deleted after a node inside it is there again when the node needs it.
InverseSteps(undo) ==
    LET Steps(what, list) == [k \in DOMAIN list |-> [what |-> what, of |-> list[k]]]
    IN  Steps("restore", Reverse(undo.deletes)) \o Steps("revert", undo.updates)
            \o Steps("move back", undo.moves) \o Steps("remove", Reverse(undo.creates))

InverseStep(b, undo, step) ==
    CASE step.what = "restore"   -> RestoreSnapshot(b, step.of)
      [] step.what = "revert"    -> Apply(b, RevertOf(step.of))
      [] step.what = "move back" -> MoveBack(b, step.of)
      [] step.what = "remove"    -> DeleteCreated(b, undo, step.of)

Inverted(b, undo) ==
    LET steps == InverseSteps(undo)
        done[k \in 0 .. Len(steps)] ==
            IF k = 0 THEN b ELSE InverseStep(done[k - 1], undo, steps[k])
    IN  done[Len(steps)]

---------------------------------------------------------------------------
(* Transactions *)

Image(sp) ==
    [slots |-> sp.slots,
     nodes |-> [n \in DOMAIN sp.nodes |->
                  [type |-> sp.nodes[n].type, title |-> sp.nodes[n].title,
                   url |-> sp.nodes[n].url, parent |-> sp.nodes[n].parent,
                   pos |-> sp.nodes[n].pos]]]

\* The row Finish inserts.  before is history: the space as the batch found it.
ChangeSet(s, b, undo, inverseOf) ==
    [space |-> s, epoch |-> spaces[s].epoch, last |-> b.sp.rev, undo |-> undo,
     undoneBy |-> None, inverseOf |-> inverseOf, before |-> Image(spaces[s])]

\* A batch that wrote no journal row records nothing.
Commits(s, b) ==
    /\ b.ok
    /\ b.sp.rev \in spaces[s].rev + 1 .. MaxRev
    /\ Len(sets) < MaxSets
    /\ b.minted <= Cardinality(NodeIds)
    /\ minted' = b.minted

\* One batch as one transaction.
Record(s, b) ==
    /\ Commits(s, b)
    /\ spaces' = [spaces EXCEPT ![s] = b.sp]
    /\ sets' = Append(sets, ChangeSet(s, b, b.undo, None))

\* A create under the next id.
CreateNext(b, row, parent, before) ==
    [Apply(b, NewNode(b.minted + 1, row, parent, before)) EXCEPT !.minted = @ + 1]

\* Where a node may go: a folder or a slot, and before one of its children or at the end.
Places(s) == {p \in ParentRefs : ValidParent(spaces[s], p)}
Anchors(s, p) == Children(spaces[s].nodes, p) \cup {None}

\* The library API: one node operation, or a title and a URL together (RecordNodeOp).
\* Operations with other arguments are refused and change nothing.
Edit(s) ==
    /\ \/ \E type \in {"folder", "bookmark"}, title \in Titles, p \in Places(s) :
          \E url \in IF type = "folder" THEN {None} ELSE Urls, before \in Anchors(s, p) :
               /\ minted < Cardinality(NodeIds)
               /\ Record(s, CreateNext(Begun(s), [type |-> type, title |-> title, url |-> url],
                                    p, before))
       \/ \E n \in DOMAIN spaces[s].nodes, title \in Titles :
               Record(s, Apply(Begun(s), [op |-> "update_title", node |-> n, title |-> title]))
       \/ \E n \in DOMAIN spaces[s].nodes, title \in Titles, url \in Urls :
               Record(s, ApplyAll(Begun(s), <<[op |-> "update_title", node |-> n, title |-> title],
                                              [op |-> "update_url", node |-> n, url |-> url]>>))
       \/ \E n \in DOMAIN spaces[s].nodes, p \in Places(s) : \E before \in Anchors(s, p) :
               Record(s, Apply(Begun(s), [op |-> "move", node |-> n, parent |-> p,
                                          before |-> before]))
       \/ \E n \in DOMAIN spaces[s].nodes :
               Record(s, Apply(Begun(s), [op |-> "delete", node |-> n]))
    /\ UNCHANGED pending

\* Undo reads the change set: it has before images and nobody has undone it.  The
\* window of thirty days only refuses, at any time.
Undoable(i) == sets[i].undo # None /\ sets[i].undoneBy = None

\* A change set from before a restore has before images of another world.
SameEpoch(sp, cs) == cs.epoch = sp.epoch

\* Undo's transaction.  An inverse without a row leaves nothing behind: undone_by is
\* written as NULL.
ExecuteUndo(i) ==
    LET cs == sets[i]
        s  == cs.space
        b  == Inverted(Begun(s), cs.undo)
    IN  /\ SameEpoch(spaces[s], cs)
        /\ Clean(spaces[s], cs)
        /\ Commits(s, b)
        /\ spaces' = [spaces EXCEPT ![s] = b.sp]
        /\ sets' = Append([sets EXCEPT ![i].undoneBy = b.number], ChangeSet(s, b, None, i))

\* A request that nothing comes in between.
Undo(i) == Undoable(i) /\ ExecuteUndo(i) /\ UNCHANGED pending

\* A request that others overtake: the change set is read before the transaction.
ReadForUndo(i) ==
    /\ pending = 0 /\ Undoable(i)
    /\ pending' = i
    /\ UNCHANGED <<spaces, minted, sets>>

LateUndo == pending # 0 /\ ExecuteUndo(pending) /\ pending' = 0

\* ReplaceBaseline, with a backup taken at any earlier time.
Restore(s) ==
    /\ spaces[s].epoch < MaxEpoch
    /\ \E i \in DOMAIN sets :
          /\ sets[i].space = s
          /\ spaces' = [spaces EXCEPT ![s] =
                Baseline(@.epoch + 1, sets[i].before.slots, sets[i].before.nodes)]
    /\ UNCHANGED <<minted, sets, pending>>

\* Bound: the spaces begin with trees of the ids handed out first.
ASSUME StartIsTree ==
    LET ids == UNION {DOMAIN Start[s] : s \in Spaces}
    IN  /\ ids = 1 .. Cardinality(ids) /\ ids \subseteq NodeIds
        /\ \A s \in Spaces :
               LET sp == Baseline(1, RootKeys \ {UndoRoot}, Start[s])
               IN  /\ IsSpace(sp)
                   /\ \A n \in DOMAIN sp.nodes : ValidParent(sp, sp.nodes[n].parent)
                   /\ Acyclic(sp.nodes)
                   /\ \A p \in ParentRefs :
                          LET kids == Children(sp.nodes, p)
                          IN  {sp.nodes[n].pos : n \in kids} = 0 .. Cardinality(kids) - 1

Init ==
    /\ spaces = [s \in Spaces |-> Baseline(1, RootKeys \ {UndoRoot}, Start[s])]
    /\ minted = Cardinality(UNION {DOMAIN Start[s] : s \in Spaces})
    /\ sets = <<>>
    /\ pending = 0

Next ==
    \/ \E s \in Spaces : Edit(s) \/ Restore(s)
    \/ \E i \in DOMAIN sets : Undo(i) \/ ReadForUndo(i)
    \/ LateUndo

Spec == Init /\ [][Next]_setVars

---------------------------------------------------------------------------
(* Properties *)

NewSets == DOMAIN sets' \ DOMAIN sets

\* An undo that follows its change set directly takes the tree back to what it was:
\* the same nodes with their titles, URLs and parents (service.go, applyInverse).
\* The order of siblings is not promised: restored nodes come back at the end.
Contents(nodes) ==
    [n \in DOMAIN nodes |-> <<nodes[n].type, nodes[n].title, nodes[n].url, nodes[n].parent>>]

UndoInverts ==
    [][\A i \in NewSets :
          LET undone == sets'[i].inverseOf
              s      == sets'[i].space
          IN  undone # None =>
                (spaces[s].rev = sets[undone].last =>
                    Contents(spaces'[s].nodes) = Contents(sets[undone].before.nodes))]_setVars

\* However much was done in between, by whomever, undo overwrites no field that was
\* written after its change set and removes no node the change set did not create
\* (doc 15 4-6: later work is reviewed, never overwritten).
UndoSparesLaterWork ==
    [][\A i \in NewSets :
          LET s   == sets'[i].space
              old == spaces[s].nodes
              new == spaces'[s].nodes
          IN  sets'[i].inverseOf # None =>
                LET cs == sets[sets'[i].inverseOf]
                IN  /\ DOMAIN old \ DOMAIN new \subseteq Created(cs.undo)
                    /\ \A n \in DOMAIN old \cap DOMAIN new :
                          /\ old[n].title # new[n].title => old[n].titleRev <= cs.last
                          /\ old[n].url # new[n].url => old[n].urlRev <= cs.last
                          /\ old[n].parent # new[n].parent => old[n].structRev <= cs.last
                    /\ cs.epoch = spaces[s].epoch]_setVars

\* A node is live or has a tombstone, never both, though undo revives ids: sync would
\* answer an operation on a revived node as if it were deleted.  And siblings stay
\* numbered without gap or tie, and every walk up ends in a slot of the space.
RevivedIsLive ==
    \A s \in Spaces :
        LET sp == spaces[s]
        IN  /\ DOMAIN sp.nodes \cap DOMAIN sp.tomb = {}
            /\ \A n \in DOMAIN sp.nodes : ValidParent(sp, sp.nodes[n].parent)
            /\ \A p \in sp.slots \cup DOMAIN sp.nodes :
                  LET kids == Children(sp.nodes, p)
                  IN  {sp.nodes[n].pos : n \in kids} = 0 .. Cardinality(kids) - 1

\* model.go: ErrAlreadyUndone rejects a second undo of the same ChangeSet.
UndoneOnce ==
    \A i, j \in DOMAIN sets :
        sets[i].inverseOf # None /\ sets[i].inverseOf = sets[j].inverseOf => i = j
=============================================================================
