--------------------------- MODULE CanonicalTree ---------------------------
(***************************************************************************)
(* The canonical bookmark tree of one Sync Space and the five commands of  *)
(* the canonical executor (src/server/internal/canonical/executor.go), as  *)
(* pure operators: a command maps a space to the space its transaction     *)
(* commits.  CanonicalExecutor and SyncServer turn them into actions.      *)
(*                                                                         *)
(* A space is a record                                                     *)
(*   epoch, rev, floor  the numbers of its sync_spaces row                 *)
(*   slots              the keys of its root_slots rows                    *)
(*   nodes              its nodes rows, a function on the live node ids    *)
(*   tomb               its tombstones, node id -> deletion revision       *)
(*   journal            its journal rows, revision -> row                  *)
(* Titles and URLs are opaque; None stands for the empty string and for a  *)
(* nil before_id.  A parent is a live folder id or a root slot key.        *)
(***************************************************************************)
EXTENDS Naturals, FiniteSets

CONSTANTS
    NodeIds,   \* the node ids clients and the server may ever mint
    RootKeys,  \* the keys of root slots, recovery containers included
    Titles,    \* non-empty titles
    Urls,      \* non-empty URLs
    None,      \* the empty string, the nil anchor, the absent origin
    Origins    \* who may author a command

ASSUME ConstantsDisjoint ==
    /\ NodeIds \cap RootKeys = {}
    /\ None \notin NodeIds \cup RootKeys \cup Titles \cup Urls

ParentRefs == NodeIds \cup RootKeys

---------------------------------------------------------------------------
(* Rows and commands *)

NodeType == {"folder", "bookmark"}

Nodes == [type : NodeType, title : Titles, url : Urls \cup {None},
          parent : ParentRefs, pos : Nat, createdRev : Nat, titleRev : Nat,
          urlRev : Nat, structRev : Nat]

Payloads ==
    [type : NodeType, title : Titles, url : Urls \cup {None}, parent : ParentRefs, position : Nat]
        \cup [title : Titles] \cup [url : Urls]
        \cup [parent : ParentRefs, position : Nat] \cup [count : Nat]

\* A row keeps the command's payload, tagged with its change_type.
IsRow(row) ==
    /\ DOMAIN row = {"type", "node", "payload", "origin"}
    /\ row.type \in {"create", "update_title", "update_url", "move", "delete"}
    /\ row.node \in NodeIds
    /\ row.origin \in Origins
    /\ row.payload \in Payloads

IsSpace(sp) ==
    /\ DOMAIN sp = {"epoch", "rev", "floor", "slots", "nodes", "tomb", "journal"}
    /\ sp.epoch \in Nat /\ sp.rev \in Nat /\ sp.floor \in Nat
    /\ sp.slots \subseteq RootKeys
    /\ DOMAIN sp.nodes \subseteq NodeIds
    /\ \A n \in DOMAIN sp.nodes : sp.nodes[n] \in Nodes
    /\ DOMAIN sp.tomb \subseteq NodeIds
    /\ \A n \in DOMAIN sp.tomb : sp.tomb[n] \in Nat
    /\ DOMAIN sp.journal \subseteq Nat
    /\ \A r \in DOMAIN sp.journal : IsRow(sp.journal[r])

\* The commands, with any arguments their handlers take.
Creations ==
    [op : {"create"}, node : NodeIds, type : NodeType, title : Titles \cup {None},
     url : Urls \cup {None}, parent : ParentRefs, before : NodeIds \cup {None}]
TitleUpdates == [op : {"update_title"}, node : NodeIds, title : Titles \cup {None}]
URLUpdates == [op : {"update_url"}, node : NodeIds, url : Urls \cup {None}]
Movements ==
    [op : {"move"}, node : NodeIds, parent : ParentRefs, before : NodeIds \cup {None}]
Deletions == [op : {"delete"}, node : NodeIds]

---------------------------------------------------------------------------
(* Reading the tree *)

Children(nodes, p) == {n \in DOMAIN nodes : nodes[n].parent = p}

\* ORDER BY position: how many of the siblings S come before n.  (The query's
\* tie-break on the id never decides: SiblingsDense in CanonicalExecutor.)
Rank(nodes, S, n) == Cardinality({m \in S : nodes[m].pos < nodes[n].pos})

\* A set of nodes that holds the parent of each of its members, root slots aside.
UpClosed(nodes, T) ==
    \A n \in T : nodes[n].parent \in DOMAIN nodes => nodes[n].parent \in T

\* The recursive walk of the store from n up to its root slot, n included.
AncestorsOrSelf(nodes, n) ==
    {a \in DOMAIN nodes : \A T \in SUBSET DOMAIN nodes :
                              n \in T /\ UpClosed(nodes, T) => a \in T}

SubtreeIDs(nodes, id) == {n \in DOMAIN nodes : id \in AncestorsOrSelf(nodes, n)}

\* No set of nodes holds all its own parents: every walk up leaves it, so every
\* node hangs, through folders, from a root slot.
Acyclic(nodes) ==
    \A S \in SUBSET DOMAIN nodes : S # {} => \E n \in S : nodes[n].parent \notin S

ValidParent(sp, p) ==
    \/ p \in sp.slots
    \/ p \in DOMAIN sp.nodes /\ sp.nodes[p].type = "folder"

ValidTypeURL(type, url) ==
    CASE type = "folder"   -> url = None
      [] type = "bookmark" -> url # None

---------------------------------------------------------------------------
(* Sibling positions *)

\* planInsert: the index before the anchor, or past the last sibling.
PlanInsert(nodes, S, before) ==
    IF before = None THEN Cardinality(S) ELSE Rank(nodes, S, before)

\* Writes a new position for the nodes newPos is defined on.
SetSiblingPositions(nodes, newPos) ==
    [n \in DOMAIN nodes |->
        IF n \in DOMAIN newPos THEN [nodes[n] EXCEPT !.pos = newPos[n]] ELSE nodes[n]]

\* The siblings an insertion at idx pushes one place back.
PushedBack(nodes, S, idx) ==
    [n \in {m \in S : Rank(nodes, S, m) >= idx} |-> Rank(nodes, S, n) + 1]

\* The siblings renumbered densely, leaving the place idx free.
Around(nodes, S, idx) ==
    [n \in S |-> LET r == Rank(nodes, S, n) IN IF r >= idx THEN r + 1 ELSE r]

\* The siblings renumbered densely.
Compacted(nodes, S) == [n \in S |-> Rank(nodes, S, n)]

---------------------------------------------------------------------------
(* Commands.  Each Can... is the validation, each ...Node the effect.      *)

Journaled(sp, row) ==
    [sp EXCEPT !.rev = @ + 1,
               !.journal = [r \in DOMAIN @ \cup {sp.rev + 1} |->
                                IF r = sp.rev + 1 THEN row ELSE @[r]]]

Row(type, node, payload, origin) ==
    [type |-> type, node |-> node, payload |-> payload, origin |-> origin]

CanCreate(sp, c) ==
    /\ c.title # None
    /\ ValidTypeURL(c.type, c.url)
    /\ ValidParent(sp, c.parent)
    /\ c.before # None => c.before \in Children(sp.nodes, c.parent)
    /\ c.node \notin DOMAIN sp.nodes

CreateNode(sp, c, origin) ==
    LET kids  == Children(sp.nodes, c.parent)
        idx   == PlanInsert(sp.nodes, kids, c.before)
        rev   == sp.rev + 1
        moved == SetSiblingPositions(sp.nodes, PushedBack(sp.nodes, kids, idx))
        node  == [type |-> c.type, title |-> c.title, url |-> c.url,
                  parent |-> c.parent, pos |-> idx, createdRev |-> rev,
                  titleRev |-> rev, urlRev |-> rev, structRev |-> rev]
    IN  [Journaled(sp, Row("create", c.node,
                           [type |-> c.type, title |-> c.title, url |-> c.url,
                            parent |-> c.parent, position |-> idx], origin))
         EXCEPT !.nodes = [n \in DOMAIN moved \cup {c.node} |->
                               IF n = c.node THEN node ELSE moved[n]]]

\* Mutant of CanUpdateTitle: an empty title is accepted.
CanUpdateTitleUnchecked(sp, c) == c.node \in DOMAIN sp.nodes

CanUpdateTitle(sp, c) == c.node \in DOMAIN sp.nodes /\ c.title # None

UpdateNodeTitle(sp, c, origin) ==
    [Journaled(sp, Row("update_title", c.node, [title |-> c.title], origin))
     EXCEPT !.nodes[c.node].title = c.title, !.nodes[c.node].titleRev = sp.rev + 1]

CanUpdateURL(sp, c) ==
    /\ c.node \in DOMAIN sp.nodes
    /\ sp.nodes[c.node].type = "bookmark"
    /\ c.url # None

\* Mutant of UpdateNodeURL: the title's revision is raised instead of the URL's.
UpdateNodeURLWrongRevision(sp, c, origin) ==
    [Journaled(sp, Row("update_url", c.node, [url |-> c.url], origin))
     EXCEPT !.nodes[c.node].url = c.url, !.nodes[c.node].titleRev = sp.rev + 1]

UpdateNodeURL(sp, c, origin) ==
    [Journaled(sp, Row("update_url", c.node, [url |-> c.url], origin))
     EXCEPT !.nodes[c.node].url = c.url, !.nodes[c.node].urlRev = sp.rev + 1]

\* Mutant of MakesCycle: only the folder itself is looked at, not what is below it.
MakesCycleSelfOnly(sp, c) ==
    sp.nodes[c.node].type = "folder" /\ c.parent = c.node

\* A folder may not go below itself: ErrNodeIsSelf and ErrTreeCycle.
MakesCycle(sp, c) ==
    /\ sp.nodes[c.node].type = "folder"
    /\ c.parent \in DOMAIN sp.nodes
    /\ c.node \in AncestorsOrSelf(sp.nodes, c.parent)

Siblings(sp, c) == Children(sp.nodes, c.parent) \ {c.node}

\* A move to the place the node already has commits nothing.
AlreadyInPlace(sp, c) ==
    /\ sp.nodes[c.node].parent = c.parent
    /\ \/ c.before = c.node
       \/ sp.nodes[c.node].pos = PlanInsert(sp.nodes, Siblings(sp, c), c.before)

CanMove(sp, c) ==
    /\ c.node \in DOMAIN sp.nodes
    /\ ValidParent(sp, c.parent)
    /\ ~MakesCycle(sp, c)
    /\ c.before # None => \/ c.before \in Siblings(sp, c)
                          \/ c.before = c.node /\ sp.nodes[c.node].parent = c.parent

\* Mutant of PlaceNode: the structure revision stays behind.
PlaceNodeOldRevision(nodes, c, idx, rev) ==
    [nodes EXCEPT ![c.node].parent = c.parent, ![c.node].pos = idx]

PlaceNode(nodes, c, idx, rev) ==
    [nodes EXCEPT ![c.node].parent = c.parent, ![c.node].pos = idx,
                  ![c.node].structRev = rev]

\* A MOVE within the parent.
Reorder(sp, c) ==
    LET base == Siblings(sp, c)
        idx  == PlanInsert(sp.nodes, base, c.before)
    IN  PlaceNode(SetSiblingPositions(sp.nodes, Around(sp.nodes, base, idx)),
                  c, idx, sp.rev + 1)

\* Mutant of Reparent: the old siblings do not close up.
ReparentLeavingGap(sp, c) ==
    LET new == Children(sp.nodes, c.parent)
        idx == PlanInsert(sp.nodes, new, c.before)
    IN  SetSiblingPositions(PlaceNode(sp.nodes, c, idx, sp.rev + 1),
                            PushedBack(sp.nodes, new, idx))

\* A MOVE to another parent: the old siblings close up, the new ones make room.
Reparent(sp, c) ==
    LET old  == Children(sp.nodes, sp.nodes[c.node].parent) \ {c.node}
        new  == Children(sp.nodes, c.parent)
        idx  == PlanInsert(sp.nodes, new, c.before)
        left == SetSiblingPositions(PlaceNode(sp.nodes, c, idx, sp.rev + 1),
                                    Compacted(sp.nodes, old))
    IN  SetSiblingPositions(left, PushedBack(sp.nodes, new, idx))

MoveNode(sp, c, origin) ==
    IF AlreadyInPlace(sp, c) THEN sp ELSE
    LET nodes == IF sp.nodes[c.node].parent = c.parent THEN Reorder(sp, c)
                                                       ELSE Reparent(sp, c)
    IN  [Journaled(sp, Row("move", c.node,
                           [parent |-> c.parent, position |-> nodes[c.node].pos], origin))
         EXCEPT !.nodes = nodes]

\* Mutant of InsertTombstones: stamped with the head from before the delete.
InsertTombstonesStale(tomb, ids, rev) ==
    [n \in DOMAIN tomb \cup ids |-> IF n \in ids THEN rev - 1 ELSE tomb[n]]

InsertTombstones(tomb, ids, rev) ==
    [n \in DOMAIN tomb \cup ids |-> IF n \in ids THEN rev ELSE tomb[n]]

CanDelete(sp, c) == c.node \in DOMAIN sp.nodes

\* The whole subtree goes, with one tombstone per node and one journal row.
DeleteNode(sp, c, origin) ==
    LET ids   == SubtreeIDs(sp.nodes, c.node)
        rest  == [n \in DOMAIN sp.nodes \ ids |-> sp.nodes[n]]
        kids  == Children(rest, sp.nodes[c.node].parent)
    IN  [Journaled(sp, Row("delete", c.node, [count |-> Cardinality(ids)], origin))
         EXCEPT !.nodes = SetSiblingPositions(rest, Compacted(rest, kids)),
                !.tomb = InsertTombstones(@, ids, sp.rev + 1)]

CanExecute(sp, c) ==
    CASE c.op = "create"       -> CanCreate(sp, c)
      [] c.op = "update_title" -> CanUpdateTitle(sp, c)
      [] c.op = "update_url"   -> CanUpdateURL(sp, c)
      [] c.op = "move"         -> CanMove(sp, c)
      [] c.op = "delete"       -> CanDelete(sp, c)

Execute(sp, c, origin) ==
    CASE c.op = "create"       -> CreateNode(sp, c, origin)
      [] c.op = "update_title" -> UpdateNodeTitle(sp, c, origin)
      [] c.op = "update_url"   -> UpdateNodeURL(sp, c, origin)
      [] c.op = "move"         -> MoveNode(sp, c, origin)
      [] c.op = "delete"       -> DeleteNode(sp, c, origin)
=============================================================================
