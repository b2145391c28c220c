---------------------------- MODULE ReplicaTree ----------------------------
(***************************************************************************)
(* How the extension turns one journal row into its copies of the tree, as *)
(* pure operators:                                                         *)
(*   Apply...  the remote change applier (remoteChangeApplier.ts): the     *)
(*             browser's own bookmark tree and the mirror rows beside it;  *)
(*   Replay    the in-memory replay of an inbox (canonicalTree.ts).        *)
(* A replica is a record                                                   *)
(*   browser   parent -> sequence of its children, in the browser's order  *)
(*   mirror    mapped node -> title, url, parent, pos of its localNodes row*)
(* A mapped browser node goes by its canonical id.  Children of Locals are *)
(* bookmarks the browser holds and no mirror row maps (not yet acked, or   *)
(* outside the projection); they take up slots in the browser's order.     *)
(***************************************************************************)
EXTENDS CanonicalTree, SequencesExt

CONSTANT Locals  \* browser nodes without a canonical id

ASSUME LocalsHaveNoId == Locals \cap (ParentRefs \cup {None}) = {}

EmptyReplica ==
    [browser |-> [p \in ParentRefs |-> <<>>], mirror |-> [n \in {} |-> n]]

Without(f, S) == [x \in DOMAIN f \ S |-> f[x]]

With(f, x, v) == [y \in DOMAIN f \cup {x} |-> IF y = x THEN v ELSE f[y]]

---------------------------------------------------------------------------
(* The browser's order: a node is at one place below its parent *)

\* n comes off the list of its siblings.
Removed(kids, n) ==
    IF n \in Range(kids) THEN RemoveAt(kids, CHOOSE i \in DOMAIN kids : kids[i] = n) ELSE kids

Before(kids, m, n) == \E i, j \in DOMAIN kids : i < j /\ kids[i] = m /\ kids[j] = n

---------------------------------------------------------------------------
(* The applier *)

\* Mutant of BrowserIndexForPosition: the position is taken for an index.
BrowserIndexVerbatim(rep, p, position, placed) ==
    LET kids == Removed(rep.browser[p], placed)
    IN  IF position > Len(kids) THEN Len(kids) ELSE position

\* browserIndexForPosition: the slot (0-based) of the mapped sibling that has to
\* follow the placed node, the placed node itself taken out first; past the last
\* child when there is none.
BrowserIndexForPosition(rep, p, position, placed) ==
    LET kids   == Removed(rep.browser[p], placed)
        mapped == Range(kids) \cap DOMAIN rep.mirror
        target == {n \in mapped : Rank(rep.mirror, mapped, n) = position}
    IN  IF target = {} THEN Len(kids)
                       ELSE CHOOSE i \in 0 .. Len(kids) - 1 : kids[i + 1] \in target

\* writeMirrorPositions: each mapped child takes its rank in the browser's order.
WriteMirrorPositions(mirror, kids) ==
    [n \in DOMAIN mirror |->
        IF n \in Range(kids)
        THEN [mirror[n] EXCEPT !.pos = Cardinality({m \in DOMAIN mirror : Before(kids, m, n)})]
        ELSE mirror[n]]

\* Mutant of CreatedRow: folders get no mirror row.
CreatedRowBookmarksOnly(mirror, id, payload) ==
    IF payload.url = None THEN mirror
    ELSE With(mirror, id, [title |-> payload.title, url |-> payload.url,
                           parent |-> payload.parent, pos |-> payload.position])

CreatedRow(mirror, id, payload) ==
    With(mirror, id, [title |-> payload.title, url |-> payload.url,
                      parent |-> payload.parent, pos |-> payload.position])

ApplyCreate(rep, id, payload) ==
    LET index == BrowserIndexForPosition(rep, payload.parent, payload.position, id)
        kids  == InsertAt(rep.browser[payload.parent], index + 1, id)
    IN  IF id \in DOMAIN rep.mirror THEN rep
        ELSE [browser |-> [rep.browser EXCEPT ![payload.parent] = kids],
              mirror  |-> WriteMirrorPositions(CreatedRow(rep.mirror, id, payload), kids)]

ApplyUpdateTitle(rep, id, title) == [rep EXCEPT !.mirror[id].title = title]

ApplyUpdateURL(rep, id, url) == [rep EXCEPT !.mirror[id].url = url]

\* A mirror row already at the target place counts as satisfied.
MoveSatisfied(rep, id, payload) ==
    /\ rep.mirror[id].parent = payload.parent
    /\ rep.mirror[id].pos = payload.position

ApplyMove(rep, id, payload) ==
    LET from    == rep.mirror[id].parent
        index   == BrowserIndexForPosition(rep, payload.parent, payload.position, id)
        removed == [rep.browser EXCEPT ![from] = Removed(@, id)]
        placed  == [removed EXCEPT ![payload.parent] = InsertAt(@, index + 1, id)]
        row     == [rep.mirror EXCEPT ![id].parent = payload.parent,
                                      ![id].pos = payload.position]
    IN  IF MoveSatisfied(rep, id, payload) THEN rep
        ELSE [browser |-> placed,
              mirror  |-> WriteMirrorPositions(
                              WriteMirrorPositions(row, placed[payload.parent]), placed[from])]

\* Mutant of CollectSubtree: the named row only.
CollectSubtreeShallow(mirror, id) == {id}

\* The mirror rows of a browser node and of all below it.
CollectSubtree(mirror, id) == SubtreeIDs(mirror, id)

\* Sibling rows keep the positions they had.
ApplyDelete(rep, id) ==
    LET doomed == CollectSubtree(rep.mirror, id)
    IN  IF id \notin DOMAIN rep.mirror THEN rep
        ELSE [browser |-> [p \in ParentRefs |->
                              IF p \in doomed THEN <<>> ELSE Removed(rep.browser[p], id)],
              mirror  |-> Without(rep.mirror, doomed)]

\* The change targets a node, or a parent folder, that no mirror row maps.
Unmapped(rep, row) ==
    \/ row.type \in {"update_title", "update_url", "move"} /\ row.node \notin DOMAIN rep.mirror
    \/ /\ row.type \in {"create", "move"}
       /\ row.payload.parent \in NodeIds \ DOMAIN rep.mirror

ApplyChange(rep, row) ==
    CASE row.type = "create"       -> ApplyCreate(rep, row.node, row.payload)
      [] row.type = "update_title" -> ApplyUpdateTitle(rep, row.node, row.payload.title)
      [] row.type = "update_url"   -> ApplyUpdateURL(rep, row.node, row.payload.url)
      [] row.type = "move"         -> ApplyMove(rep, row.node, row.payload)
      [] row.type = "delete"       -> ApplyDelete(rep, row.node)

---------------------------------------------------------------------------
(* The replay: the node named by the change, and nothing beside it *)

\* Mutant of RemoveSubtree: the named node only.
RemoveSubtreeShallow(tree, id) == Without(tree, {id})

RemoveSubtree(tree, id) == Without(tree, SubtreeIDs(tree, id))

ReplayChange(tree, row) ==
    CASE row.type = "create" ->
             With(tree, row.node,
                  [title |-> row.payload.title, url |-> row.payload.url,
                   parent |-> row.payload.parent, pos |-> row.payload.position])
      [] row.type = "update_title" -> [tree EXCEPT ![row.node].title = row.payload.title]
      [] row.type = "update_url"   -> [tree EXCEPT ![row.node].url = row.payload.url]
      [] row.type = "move" ->
             [tree EXCEPT ![row.node].parent = row.payload.parent,
                          ![row.node].pos = row.payload.position]
      [] row.type = "delete" -> RemoveSubtree(tree, row.node)
=============================================================================
