--------------------------- MODULE CommandLemmas ---------------------------
(***************************************************************************)
(* What one command of the canonical executor does to any space, as lemmas *)
(* about the operators of CanonicalTree: it keeps the rows well typed, the *)
(* tree a tree, siblings in order, and the journal, field revisions and    *)
(* tombstones in agreement.  The theorems about specifications built from  *)
(* the commands rest on them.                                              *)
(***************************************************************************)
EXTENDS CanonicalTree, FiniteSetTheorems, TLAPS

\* A space whose live nodes are finitely many, as those of every reachable one.
TypedSpace(sp) == IsSpace(sp) /\ IsFiniteSet(DOMAIN sp.nodes)

\* The tree properties of TreeWellFormed, of any space.
GoodTree(sp) ==
    /\ \A n \in DOMAIN sp.nodes : ValidParent(sp, sp.nodes[n].parent)
    /\ Acyclic(sp.nodes)

---------------------------------------------------------------------------
(* Sibling positions *)

\* A sibling's rank is a number: there are finitely many before it.
LEMMA RankType ==
    ASSUME NEW nodes, NEW S, IsFiniteSet(S), NEW n
    PROVE  Rank(nodes, S, n) \in Nat
<1>1. IsFiniteSet({m \in S : nodes[m].pos < nodes[n].pos})
  BY FS_Subset
<1>2. QED  BY <1>1, FS_CardinalityType DEF Rank

\* So is the index an insertion chooses.
LEMMA PlanInsertType ==
    ASSUME NEW nodes, NEW S, IsFiniteSet(S), NEW before
    PROVE  PlanInsert(nodes, S, before) \in Nat
BY RankType, FS_CardinalityType DEF PlanInsert

\* Renumbering changes nothing of a node but its position.
LEMMA SetSiblingPositionsKeeps ==
    ASSUME NEW nodes, \A n \in DOMAIN nodes : nodes[n] \in Nodes,
           NEW newPos, \A n \in DOMAIN newPos : newPos[n] \in Nat
    PROVE  LET after == SetSiblingPositions(nodes, newPos)
           IN  /\ DOMAIN after = DOMAIN nodes
               /\ \A n \in DOMAIN nodes :
                      /\ after[n] \in Nodes
                      /\ after[n].type = nodes[n].type
                      /\ after[n].parent = nodes[n].parent
<1> DEFINE after == SetSiblingPositions(nodes, newPos)
<1>1. DOMAIN after = DOMAIN nodes
  BY DEF SetSiblingPositions
<1>2. ASSUME NEW n \in DOMAIN nodes
      PROVE  /\ after[n] \in Nodes
             /\ after[n].type = nodes[n].type
             /\ after[n].parent = nodes[n].parent
  <2>1. CASE n \in DOMAIN newPos
    BY <1>2, <2>1 DEF SetSiblingPositions, Nodes
  <2>2. CASE n \notin DOMAIN newPos
    BY <1>2, <2>2 DEF SetSiblingPositions
  <2>3. QED  BY <2>1, <2>2
<1>3. QED  BY <1>1, <1>2

---------------------------------------------------------------------------
(* Journaling *)

\* A row of the journal is what its parts are.
LEMMA RowType ==
    ASSUME NEW type \in {"create", "update_title", "update_url", "move", "delete"},
           NEW node \in NodeIds, NEW payload \in Payloads, NEW origin \in Origins
    PROVE  IsRow(Row(type, node, payload, origin))
BY DEF IsRow, Row

\* A new row raises the head and leaves nodes, slots and tombstones alone.
LEMMA JournaledKeeps ==
    ASSUME NEW sp, IsSpace(sp), NEW row, IsRow(row)
    PROVE  /\ IsSpace(Journaled(sp, row))
           /\ Journaled(sp, row).nodes = sp.nodes
           /\ Journaled(sp, row).slots = sp.slots
           /\ Journaled(sp, row).tomb = sp.tomb
           /\ Journaled(sp, row).rev = sp.rev + 1
<1> DEFINE after == Journaled(sp, row)
<1>1. /\ DOMAIN after = DOMAIN sp
      /\ after.nodes = sp.nodes
      /\ after.slots = sp.slots
      /\ after.tomb = sp.tomb
      /\ after.epoch = sp.epoch
      /\ after.floor = sp.floor
      /\ after.rev = sp.rev + 1
      /\ after.journal = [r \in DOMAIN sp.journal \cup {sp.rev + 1} |->
                             IF r = sp.rev + 1 THEN row ELSE sp.journal[r]]
  BY DEF Journaled, IsSpace
<1>2. /\ DOMAIN after.journal \subseteq Nat
      /\ \A r \in DOMAIN after.journal : IsRow(after.journal[r])
  BY <1>1 DEF IsSpace
<1>3. IsSpace(after)
  BY <1>1, <1>2 DEF IsSpace
<1>4. QED  BY <1>1, <1>3

\* Replacing the nodes of a space by well-typed ones.
LEMMA NodesReplaced ==
    ASSUME NEW sp, IsSpace(sp), NEW nodes,
           DOMAIN nodes \subseteq NodeIds,
           \A n \in DOMAIN nodes : nodes[n] \in Nodes
    PROVE  LET after == [sp EXCEPT !.nodes = nodes]
           IN  /\ IsSpace(after)
               /\ after.nodes = nodes
               /\ after.slots = sp.slots
               /\ after.tomb = sp.tomb
<1> DEFINE after == [sp EXCEPT !.nodes = nodes]
<1>1. /\ DOMAIN after = DOMAIN sp
      /\ after.nodes = nodes
      /\ after.slots = sp.slots
      /\ after.tomb = sp.tomb
      /\ after.epoch = sp.epoch
      /\ after.floor = sp.floor
      /\ after.rev = sp.rev
      /\ after.journal = sp.journal
  BY DEF IsSpace
<1>2. IsSpace(after)
  BY <1>1 DEF IsSpace
<1>3. QED  BY <1>1, <1>2

---------------------------------------------------------------------------
(* Trees, as functions from nodes to records with a parent *)

\* Nodes that keep their parents make no new cycle, nor do nodes that go.
LEMMA AcyclicKept ==
    ASSUME NEW nodes, Acyclic(nodes), NEW after,
           DOMAIN after \subseteq DOMAIN nodes,
           \A n \in DOMAIN after : after[n].parent = nodes[n].parent
    PROVE  Acyclic(after)
BY DEF Acyclic

\* A new node below nothing of its own makes no cycle: nothing is below it yet.
LEMMA AcyclicAdded ==
    ASSUME NEW nodes, Acyclic(nodes), NEW new, new \notin DOMAIN nodes,
           NEW after, DOMAIN after = DOMAIN nodes \cup {new}, after[new].parent # new,
           \A n \in DOMAIN nodes : /\ after[n].parent = nodes[n].parent
                                   /\ nodes[n].parent # new
    PROVE  Acyclic(after)
<1> SUFFICES ASSUME NEW S \in SUBSET DOMAIN after, S # {}
             PROVE  \E n \in S : after[n].parent \notin S
  BY DEF Acyclic
<1>1. CASE S = {new}
  BY <1>1
<1>2. CASE S # {new}
  <2>1. S \ {new} # {} /\ S \ {new} \in SUBSET DOMAIN nodes
    BY <1>2
  <2>2. PICK n \in S \ {new} : nodes[n].parent \notin S \ {new}
    BY <2>1 DEF Acyclic
  <2>3. QED  BY <2>1, <2>2
<1>3. QED  BY <1>1, <1>2

\* A node that moves below one that is not below it makes no cycle.  A set of
\* nodes that held all its parents would hold the new parent; cut down to a set T
\* the walk up from there stays in, which the moved node is not in, it would
\* already have held all its parents before the move.
LEMMA AcyclicMoved ==
    ASSUME NEW nodes, Acyclic(nodes), NEW moved \in DOMAIN nodes, NEW target,
           NEW after, DOMAIN after = DOMAIN nodes,
           \A n \in DOMAIN nodes : after[n].parent = IF n = moved THEN target
                                                                  ELSE nodes[n].parent,
           target \in DOMAIN nodes => moved \notin AncestorsOrSelf(nodes, target)
    PROVE  Acyclic(after)
<1> SUFFICES ASSUME NEW S \in SUBSET DOMAIN after, S # {},
                    \A n \in S : after[n].parent \in S
             PROVE  FALSE
  BY DEF Acyclic
<1>1. PICK m \in S : nodes[m].parent \notin S
  BY DEF Acyclic
<1>2. m = moved /\ target \in S
  BY <1>1
<1>3. PICK T \in SUBSET DOMAIN nodes : target \in T /\ UpClosed(nodes, T) /\ moved \notin T
  BY <1>2 DEF AncestorsOrSelf
<1>4. PICK n \in S \cap T : nodes[n].parent \notin S \cap T
  <2>1. S \cap T \in SUBSET DOMAIN nodes /\ S \cap T # {}
    BY <1>2, <1>3
  <2>2. QED  BY <2>1 DEF Acyclic
<1>5. nodes[n].parent \in S
  BY <1>3, <1>4
<1>6. nodes[n].parent \in T
  BY <1>3, <1>4, <1>5 DEF UpClosed
<1>7. QED  BY <1>4, <1>5, <1>6

\* What is not in a subtree does not hang from it: its parent is not in it either.
LEMMA ParentOutsideSubtree ==
    ASSUME NEW nodes, NEW id, NEW n \in DOMAIN nodes, n \notin SubtreeIDs(nodes, id),
           nodes[n].parent \in DOMAIN nodes, id \in DOMAIN nodes
    PROVE  nodes[n].parent \notin SubtreeIDs(nodes, id)
<1> SUFFICES ASSUME nodes[n].parent \in SubtreeIDs(nodes, id)
             PROVE  id \in AncestorsOrSelf(nodes, n)
  BY DEF SubtreeIDs
<1>1. id \in AncestorsOrSelf(nodes, nodes[n].parent)
  BY DEF SubtreeIDs
<1>2. ASSUME NEW T \in SUBSET DOMAIN nodes, n \in T, UpClosed(nodes, T)
      PROVE  id \in T
  BY <1>1, <1>2 DEF UpClosed, AncestorsOrSelf
<1>3. QED  BY <1>2 DEF AncestorsOrSelf

---------------------------------------------------------------------------
(* The commands *)

\* The siblings an insertion pushes back get numbers.
LEMMA PushedBackType ==
    ASSUME NEW nodes, NEW S, IsFiniteSet(S), NEW idx
    PROVE  \A n \in DOMAIN PushedBack(nodes, S, idx) : PushedBack(nodes, S, idx)[n] \in Nat
BY RankType DEF PushedBack

\* Children are nodes, and as finitely many as the nodes.
LEMMA ChildrenFinite ==
    ASSUME NEW nodes, IsFiniteSet(DOMAIN nodes), NEW p
    PROVE  IsFiniteSet(Children(nodes, p)) /\ Children(nodes, p) \subseteq DOMAIN nodes
BY FS_Subset DEF Children

\* A create adds its node, well typed, below the parent it names, and moves no other.
LEMMA CreateNodeShape ==
    ASSUME NEW sp, TypedSpace(sp), NEW c, NEW origin \in Origins, CanCreate(sp, c),
           c.node \in NodeIds, c.type \in NodeType, c.title \in Titles \cup {None},
           c.url \in Urls \cup {None}, c.parent \in ParentRefs
    PROVE  LET after == CreateNode(sp, c, origin)
           IN  /\ TypedSpace(after)
               /\ DOMAIN after.nodes = DOMAIN sp.nodes \cup {c.node}
               /\ after.slots = sp.slots /\ after.tomb = sp.tomb
               /\ after.nodes[c.node].parent = c.parent
               /\ \A n \in DOMAIN sp.nodes :
                      /\ after.nodes[n].parent = sp.nodes[n].parent
                      /\ after.nodes[n].type = sp.nodes[n].type
<1> DEFINE kids  == Children(sp.nodes, c.parent)
           idx   == PlanInsert(sp.nodes, kids, c.before)
           moved == SetSiblingPositions(sp.nodes, PushedBack(sp.nodes, kids, idx))
           node  == [type |-> c.type, title |-> c.title, url |-> c.url,
                     parent |-> c.parent, pos |-> idx, createdRev |-> sp.rev + 1,
                     titleRev |-> sp.rev + 1, urlRev |-> sp.rev + 1, structRev |-> sp.rev + 1]
           nodes == [n \in DOMAIN moved \cup {c.node} |->
                        IF n = c.node THEN node ELSE moved[n]]
           payload == [type |-> c.type, title |-> c.title, url |-> c.url,
                       parent |-> c.parent, position |-> idx]
           after == CreateNode(sp, c, origin)
<1>1. after = [Journaled(sp, Row("create", c.node, payload, origin)) EXCEPT !.nodes = nodes]
  BY Zenon DEF CreateNode
<1>2. idx \in Nat /\ IsFiniteSet(kids)
  BY ChildrenFinite, PlanInsertType DEF TypedSpace
<1>3. c.title \in Titles /\ c.node \notin DOMAIN sp.nodes
  BY DEF CanCreate
<1>4. node \in Nodes
  BY <1>2, <1>3 DEF Nodes, TypedSpace, IsSpace
<1>5. /\ DOMAIN moved = DOMAIN sp.nodes
      /\ \A n \in DOMAIN sp.nodes : /\ moved[n] \in Nodes
                                    /\ moved[n].type = sp.nodes[n].type
                                    /\ moved[n].parent = sp.nodes[n].parent
  <2>1. \A n \in DOMAIN PushedBack(sp.nodes, kids, idx) :
            PushedBack(sp.nodes, kids, idx)[n] \in Nat
    BY <1>2, PushedBackType
  <2>2. QED  BY <2>1, SetSiblingPositionsKeeps DEF TypedSpace, IsSpace
<1>6. payload \in Payloads
  BY <1>2, <1>3 DEF Payloads
<1>7. IsRow(Row("create", c.node, payload, origin))
  BY <1>6, RowType
<1>8. /\ DOMAIN nodes = DOMAIN sp.nodes \cup {c.node}
      /\ DOMAIN nodes \subseteq NodeIds
      /\ \A n \in DOMAIN nodes : nodes[n] \in Nodes
  BY <1>4, <1>5 DEF TypedSpace, IsSpace
<1>9. IsFiniteSet(DOMAIN nodes)
  BY <1>8, FS_AddElement DEF TypedSpace
<1>10. /\ IsSpace(after) /\ after.nodes = nodes
       /\ after.slots = sp.slots /\ after.tomb = sp.tomb
  <2> DEFINE journaled == Journaled(sp, Row("create", c.node, payload, origin))
  <2>1. /\ IsSpace(journaled)
        /\ journaled.slots = sp.slots /\ journaled.tomb = sp.tomb
    BY <1>7, JournaledKeeps DEF TypedSpace
  <2> HIDE DEF journaled, nodes
  <2>2. after = [journaled EXCEPT !.nodes = nodes]
    BY <1>1 DEF journaled
  <2>3. QED  BY <2>1, <2>2, <1>8, NodesReplaced
<1>11. QED
  BY <1>3, <1>5, <1>8, <1>9, <1>10 DEF TypedSpace

\* A node keeps its type and its place when its title or its URL is rewritten.
LEMMA FieldRewritten ==
    ASSUME NEW x \in Nodes, NEW rev \in Nat
    PROVE  /\ \A t \in Titles : LET y == [x EXCEPT !.title = t, !.titleRev = rev]
                                IN  y \in Nodes /\ y.parent = x.parent /\ y.type = x.type
           /\ \A u \in Urls : LET y == [x EXCEPT !.url = u, !.urlRev = rev]
                              IN  y \in Nodes /\ y.parent = x.parent /\ y.type = x.type
BY DEF Nodes

\* An update of a title rewrites that field of its node and moves nothing.
LEMMA UpdateTitleShape ==
    ASSUME NEW sp, TypedSpace(sp), NEW c, NEW origin \in Origins, CanUpdateTitle(sp, c),
           c.title \in Titles \cup {None}
    PROVE  LET after == UpdateNodeTitle(sp, c, origin)
           IN  /\ TypedSpace(after)
               /\ DOMAIN after.nodes = DOMAIN sp.nodes
               /\ after.slots = sp.slots /\ after.tomb = sp.tomb
               /\ \A n \in DOMAIN sp.nodes :
                      /\ after.nodes[n].parent = sp.nodes[n].parent
                      /\ after.nodes[n].type = sp.nodes[n].type
<1> DEFINE journaled == Journaled(sp, Row("update_title", c.node, [title |-> c.title], origin))
           node == [sp.nodes[c.node] EXCEPT !.title = c.title, !.titleRev = sp.rev + 1]
           nodes == [sp.nodes EXCEPT ![c.node] = node]
           after == UpdateNodeTitle(sp, c, origin)
<1>1. c.node \in DOMAIN sp.nodes /\ c.title \in Titles
  BY DEF CanUpdateTitle
<1>2. IsRow(Row("update_title", c.node, [title |-> c.title], origin))
  <2>1. [title |-> c.title] \in Payloads
    BY <1>1 DEF Payloads
  <2>2. QED  BY <1>1, <2>1, RowType DEF TypedSpace, IsSpace
<1>3. /\ IsSpace(journaled) /\ journaled.nodes = sp.nodes
      /\ journaled.slots = sp.slots /\ journaled.tomb = sp.tomb
  BY <1>2, JournaledKeeps DEF TypedSpace
<1>4. /\ node \in Nodes
      /\ node.parent = sp.nodes[c.node].parent
      /\ node.type = sp.nodes[c.node].type
  <2>1. sp.nodes[c.node] \in Nodes /\ sp.rev + 1 \in Nat
    BY <1>1 DEF TypedSpace, IsSpace
  <2>2. QED  BY <1>1, <2>1, FieldRewritten
<1>5. /\ DOMAIN nodes = DOMAIN sp.nodes
      /\ DOMAIN nodes \subseteq NodeIds
      /\ \A n \in DOMAIN nodes : /\ nodes[n] \in Nodes
                                 /\ nodes[n].parent = sp.nodes[n].parent
                                 /\ nodes[n].type = sp.nodes[n].type
  <2> HIDE DEF node
  <2>1. QED  BY <1>1, <1>4 DEF TypedSpace, IsSpace
<1>6. after = [journaled EXCEPT !.nodes = nodes]
  <2> HIDE DEF journaled
  <2>1. after = [journaled EXCEPT !.nodes[c.node].title = c.title,
                                  !.nodes[c.node].titleRev = sp.rev + 1]
    BY Zenon DEF UpdateNodeTitle, journaled
  <2>2. DOMAIN journaled = {"epoch", "rev", "floor", "slots", "nodes", "tomb", "journal"}
    BY <1>3 DEF IsSpace
  <2>3. QED  BY <1>1, <1>3, <2>1, <2>2 DEF TypedSpace, IsSpace
<1>7. /\ IsSpace(after) /\ after.nodes = nodes
      /\ after.slots = sp.slots /\ after.tomb = sp.tomb
  <2> HIDE DEF journaled, nodes
  <2>1. QED  BY <1>3, <1>5, <1>6, NodesReplaced
<1>8. QED  BY <1>5, <1>7 DEF TypedSpace

\* So does an update of a URL: the node keeps its place and its type.
LEMMA UpdateURLShape ==
    ASSUME NEW sp, TypedSpace(sp), NEW c, NEW origin \in Origins, CanUpdateURL(sp, c),
           c.url \in Urls \cup {None}
    PROVE  LET after == UpdateNodeURL(sp, c, origin)
           IN  /\ TypedSpace(after)
               /\ DOMAIN after.nodes = DOMAIN sp.nodes
               /\ after.slots = sp.slots /\ after.tomb = sp.tomb
               /\ \A n \in DOMAIN sp.nodes :
                      /\ after.nodes[n].parent = sp.nodes[n].parent
                      /\ after.nodes[n].type = sp.nodes[n].type
<1> DEFINE journaled == Journaled(sp, Row("update_url", c.node, [url |-> c.url], origin))
           node == [sp.nodes[c.node] EXCEPT !.url = c.url, !.urlRev = sp.rev + 1]
           nodes == [sp.nodes EXCEPT ![c.node] = node]
           after == UpdateNodeURL(sp, c, origin)
<1>1. c.node \in DOMAIN sp.nodes /\ c.url \in Urls
  BY DEF CanUpdateURL
<1>2. IsRow(Row("update_url", c.node, [url |-> c.url], origin))
  <2>1. [url |-> c.url] \in Payloads
    BY <1>1 DEF Payloads
  <2>2. QED  BY <1>1, <2>1, RowType DEF TypedSpace, IsSpace
<1>3. /\ IsSpace(journaled) /\ journaled.nodes = sp.nodes
      /\ journaled.slots = sp.slots /\ journaled.tomb = sp.tomb
  BY <1>2, JournaledKeeps DEF TypedSpace
<1>4. /\ node \in Nodes
      /\ node.parent = sp.nodes[c.node].parent
      /\ node.type = sp.nodes[c.node].type
  <2>1. sp.nodes[c.node] \in Nodes /\ sp.rev + 1 \in Nat
    BY <1>1 DEF TypedSpace, IsSpace
  <2>2. QED  BY <1>1, <2>1, FieldRewritten
<1>5. /\ DOMAIN nodes = DOMAIN sp.nodes
      /\ DOMAIN nodes \subseteq NodeIds
      /\ \A n \in DOMAIN nodes : /\ nodes[n] \in Nodes
                                 /\ nodes[n].parent = sp.nodes[n].parent
                                 /\ nodes[n].type = sp.nodes[n].type
  <2> HIDE DEF node
  <2>1. QED  BY <1>1, <1>4 DEF TypedSpace, IsSpace
<1>6. after = [journaled EXCEPT !.nodes = nodes]
  <2> HIDE DEF journaled
  <2>1. after = [journaled EXCEPT !.nodes[c.node].url = c.url,
                                  !.nodes[c.node].urlRev = sp.rev + 1]
    BY Zenon DEF UpdateNodeURL, journaled
  <2>2. DOMAIN journaled = {"epoch", "rev", "floor", "slots", "nodes", "tomb", "journal"}
    BY <1>3 DEF IsSpace
  <2>3. QED  BY <1>1, <1>3, <2>1, <2>2 DEF TypedSpace, IsSpace
<1>7. /\ IsSpace(after) /\ after.nodes = nodes
      /\ after.slots = sp.slots /\ after.tomb = sp.tomb
  <2> HIDE DEF journaled, nodes
  <2>1. QED  BY <1>3, <1>5, <1>6, NodesReplaced
<1>8. QED  BY <1>5, <1>7 DEF TypedSpace


\* A moved node keeps its type, the others all they have.
LEMMA PlaceNodeKeeps ==
    ASSUME NEW nodes, \A n \in DOMAIN nodes : nodes[n] \in Nodes,
           NEW c, c.node \in DOMAIN nodes, c.parent \in ParentRefs,
           NEW idx \in Nat, NEW rev \in Nat
    PROVE  LET after == PlaceNode(nodes, c, idx, rev)
           IN  /\ DOMAIN after = DOMAIN nodes
               /\ \A n \in DOMAIN nodes :
                      /\ after[n] \in Nodes
                      /\ after[n].type = nodes[n].type
                      /\ after[n].parent = IF n = c.node THEN c.parent ELSE nodes[n].parent
<1> DEFINE after == PlaceNode(nodes, c, idx, rev)
           node == [nodes[c.node] EXCEPT !.parent = c.parent, !.pos = idx, !.structRev = rev]
<1>1. after = [nodes EXCEPT ![c.node] = node]
  BY DEF PlaceNode
<1>2. node \in Nodes /\ node.type = nodes[c.node].type /\ node.parent = c.parent
  <2>1. nodes[c.node] \in Nodes
    OBVIOUS
  <2>2. QED  BY <2>1 DEF Nodes
<1>3. QED
  <2> HIDE DEF node
  <2>1. QED  BY <1>1, <1>2

\* Renumberings give numbers.
LEMMA RenumberingType ==
    ASSUME NEW nodes, NEW S, IsFiniteSet(S), NEW idx
    PROVE  /\ \A n \in DOMAIN Around(nodes, S, idx) : Around(nodes, S, idx)[n] \in Nat
           /\ \A n \in DOMAIN Compacted(nodes, S) : Compacted(nodes, S)[n] \in Nat
BY RankType DEF Around, Compacted

\* Both ways of moving a node give it the new parent and leave the others theirs.
LEMMA MovedNodes ==
    ASSUME NEW sp, TypedSpace(sp), NEW c, CanMove(sp, c), c.parent \in ParentRefs,
           NEW after \in {Reorder(sp, c), Reparent(sp, c)}
    PROVE  /\ DOMAIN after = DOMAIN sp.nodes
           /\ \A n \in DOMAIN sp.nodes :
                  /\ after[n] \in Nodes
                  /\ after[n].type = sp.nodes[n].type
                  /\ after[n].parent = IF n = c.node THEN c.parent ELSE sp.nodes[n].parent
<1>1. /\ c.node \in DOMAIN sp.nodes /\ sp.rev + 1 \in Nat
      /\ \A n \in DOMAIN sp.nodes : sp.nodes[n] \in Nodes
  BY DEF CanMove, TypedSpace, IsSpace
<1>2. CASE after = Reorder(sp, c)
  <2> DEFINE base == Siblings(sp, c)
             idx  == PlanInsert(sp.nodes, base, c.before)
             room == SetSiblingPositions(sp.nodes, Around(sp.nodes, base, idx))
  <2>1. IsFiniteSet(base)
    BY ChildrenFinite, FS_Subset DEF Siblings, TypedSpace
  <2>2. idx \in Nat
    BY <2>1, PlanInsertType
  <2>3. /\ DOMAIN room = DOMAIN sp.nodes
        /\ \A n \in DOMAIN sp.nodes : /\ room[n] \in Nodes
                                      /\ room[n].type = sp.nodes[n].type
                                      /\ room[n].parent = sp.nodes[n].parent
    <3>1. \A n \in DOMAIN Around(sp.nodes, base, idx) : Around(sp.nodes, base, idx)[n] \in Nat
      BY <2>1, RenumberingType
    <3>2. QED  BY <1>1, <3>1, SetSiblingPositionsKeeps
  <2>4. after = PlaceNode(room, c, idx, sp.rev + 1)
    BY <1>2 DEF Reorder
  <2> HIDE DEF room, idx
  <2>5. QED  BY <1>1, <2>2, <2>3, <2>4, PlaceNodeKeeps
<1>3. CASE after = Reparent(sp, c)
  <2> DEFINE old    == Children(sp.nodes, sp.nodes[c.node].parent) \ {c.node}
             new    == Children(sp.nodes, c.parent)
             idx    == PlanInsert(sp.nodes, new, c.before)
             placed == PlaceNode(sp.nodes, c, idx, sp.rev + 1)
             left   == SetSiblingPositions(placed, Compacted(sp.nodes, old))
  <2>1. IsFiniteSet(old) /\ IsFiniteSet(new)
    BY ChildrenFinite, FS_Subset DEF TypedSpace
  <2>2. idx \in Nat
    BY <2>1, PlanInsertType
  <2>3. /\ DOMAIN placed = DOMAIN sp.nodes
        /\ \A n \in DOMAIN sp.nodes :
               /\ placed[n] \in Nodes
               /\ placed[n].type = sp.nodes[n].type
               /\ placed[n].parent = IF n = c.node THEN c.parent ELSE sp.nodes[n].parent
    <3> HIDE DEF idx
    <3>1. QED  BY <1>1, <2>2, PlaceNodeKeeps
  <2>4. /\ DOMAIN left = DOMAIN placed
        /\ \A n \in DOMAIN placed : /\ left[n] \in Nodes
                                    /\ left[n].type = placed[n].type
                                    /\ left[n].parent = placed[n].parent
    <3>1. \A n \in DOMAIN Compacted(sp.nodes, old) : Compacted(sp.nodes, old)[n] \in Nat
      BY <2>1, RenumberingType
    <3> HIDE DEF placed, old
    <3>2. QED  BY <2>3, <3>1, SetSiblingPositionsKeeps
  <2>5. after = SetSiblingPositions(left, PushedBack(sp.nodes, new, idx))
    BY <1>3 DEF Reparent
  <2>6. /\ DOMAIN after = DOMAIN left
        /\ \A n \in DOMAIN left : /\ after[n] \in Nodes
                                  /\ after[n].type = left[n].type
                                  /\ after[n].parent = left[n].parent
    <3>1. \A n \in DOMAIN PushedBack(sp.nodes, new, idx) : PushedBack(sp.nodes, new, idx)[n] \in Nat
      BY <2>1, PushedBackType
    <3> HIDE DEF left, new, idx
    <3>2. QED  BY <2>3, <2>4, <2>5, <3>1, SetSiblingPositionsKeeps
  <2> HIDE DEF left, placed
  <2>7. QED  BY <2>3, <2>4, <2>6
<1>4. QED  BY <1>2, <1>3

\* A move gives its node the parent it names; every other node keeps its own.
LEMMA MoveNodeShape ==
    ASSUME NEW sp, TypedSpace(sp), NEW c, NEW origin \in Origins, CanMove(sp, c),
           c.parent \in ParentRefs
    PROVE  LET after == MoveNode(sp, c, origin)
           IN  /\ TypedSpace(after)
               /\ DOMAIN after.nodes = DOMAIN sp.nodes
               /\ after.slots = sp.slots /\ after.tomb = sp.tomb
               /\ \A n \in DOMAIN sp.nodes :
                      /\ after.nodes[n].parent = IF n = c.node THEN c.parent
                                                               ELSE sp.nodes[n].parent
                      /\ after.nodes[n].type = sp.nodes[n].type
<1> DEFINE after == MoveNode(sp, c, origin)
<1>1. CASE AlreadyInPlace(sp, c)
  BY <1>1 DEF MoveNode, AlreadyInPlace
<1>2. CASE ~AlreadyInPlace(sp, c)
  <2> DEFINE nodes == IF sp.nodes[c.node].parent = c.parent THEN Reorder(sp, c)
                                                            ELSE Reparent(sp, c)
             payload == [parent |-> c.parent, position |-> nodes[c.node].pos]
             journaled == Journaled(sp, Row("move", c.node, payload, origin))
  <2>1. after = [journaled EXCEPT !.nodes = nodes]
    BY <1>2, Zenon DEF MoveNode
  <2>2. /\ DOMAIN nodes = DOMAIN sp.nodes
        /\ \A n \in DOMAIN sp.nodes :
               /\ nodes[n] \in Nodes
               /\ nodes[n].type = sp.nodes[n].type
               /\ nodes[n].parent = IF n = c.node THEN c.parent ELSE sp.nodes[n].parent
    <3>1. nodes \in {Reorder(sp, c), Reparent(sp, c)}
      OBVIOUS
    <3> HIDE DEF nodes
    <3>2. QED  BY <3>1, MovedNodes
  <2> HIDE DEF nodes
  <2>3. c.node \in DOMAIN sp.nodes /\ DOMAIN sp.nodes \subseteq NodeIds
    BY DEF CanMove, TypedSpace, IsSpace
  <2>4. nodes[c.node].pos \in Nat
    BY <2>2, <2>3 DEF Nodes
  <2>5. IsRow(Row("move", c.node, payload, origin))
    <3>1. payload \in Payloads
      BY <2>4 DEF Payloads
    <3>2. QED  BY <2>3, <3>1, RowType
  <2>6. /\ IsSpace(journaled)
        /\ journaled.slots = sp.slots /\ journaled.tomb = sp.tomb
    BY <2>5, JournaledKeeps DEF TypedSpace
  <2> HIDE DEF journaled
  <2>7. /\ IsSpace(after) /\ after.nodes = nodes
        /\ after.slots = sp.slots /\ after.tomb = sp.tomb
    BY <2>1, <2>2, <2>3, <2>6, NodesReplaced
  <2>8. QED  BY <2>2, <2>7 DEF TypedSpace
<1>3. QED  BY <1>1, <1>2

\* A delete takes its subtree away, with a tombstone for each node of it; the rest
\* keeps its place.
LEMMA DeleteNodeShape ==
    ASSUME NEW sp, TypedSpace(sp), NEW c, NEW origin \in Origins, CanDelete(sp, c)
    PROVE  LET after == DeleteNode(sp, c, origin)
               ids   == SubtreeIDs(sp.nodes, c.node)
           IN  /\ TypedSpace(after)
               /\ DOMAIN after.nodes = DOMAIN sp.nodes \ ids
               /\ after.slots = sp.slots
               /\ DOMAIN after.tomb = DOMAIN sp.tomb \cup ids
               /\ \A n \in DOMAIN sp.nodes \ ids :
                      /\ after.nodes[n].parent = sp.nodes[n].parent
                      /\ after.nodes[n].type = sp.nodes[n].type
<1> DEFINE after == DeleteNode(sp, c, origin)
           ids   == SubtreeIDs(sp.nodes, c.node)
           rest  == [n \in DOMAIN sp.nodes \ ids |-> sp.nodes[n]]
           kids  == Children(rest, sp.nodes[c.node].parent)
           nodes == SetSiblingPositions(rest, Compacted(rest, kids))
           payload == [count |-> Cardinality(ids)]
           journaled == Journaled(sp, Row("delete", c.node, payload, origin))
           tomb == InsertTombstones(sp.tomb, ids, sp.rev + 1)
           buried == [journaled EXCEPT !.tomb = tomb]
<1>1. c.node \in DOMAIN sp.nodes /\ DOMAIN sp.nodes \subseteq NodeIds
  BY DEF CanDelete, TypedSpace, IsSpace
<1>2. ids \subseteq DOMAIN sp.nodes /\ IsFiniteSet(ids)
  BY FS_Subset DEF SubtreeIDs, TypedSpace
<1>3. IsFiniteSet(DOMAIN rest) /\ \A n \in DOMAIN rest : rest[n] \in Nodes
  BY FS_Subset DEF TypedSpace, IsSpace
<1>4. /\ DOMAIN nodes = DOMAIN rest
      /\ \A n \in DOMAIN rest : /\ nodes[n] \in Nodes
                                /\ nodes[n].type = rest[n].type
                                /\ nodes[n].parent = rest[n].parent
  <2> HIDE DEF rest
  <2>1. IsFiniteSet(kids)
    BY <1>3, ChildrenFinite
  <2>2. \A n \in DOMAIN Compacted(rest, kids) : Compacted(rest, kids)[n] \in Nat
    BY <2>1, RenumberingType
  <2>3. QED  BY <1>3, <2>2, SetSiblingPositionsKeeps
<1>5. IsRow(Row("delete", c.node, payload, origin))
  <2>1. payload \in Payloads
    BY <1>2, FS_CardinalityType DEF Payloads
  <2>2. QED  BY <1>1, <2>1, RowType
<1>6. /\ IsSpace(journaled) /\ journaled.tomb = sp.tomb /\ journaled.nodes = sp.nodes
      /\ journaled.slots = sp.slots
  BY <1>5, JournaledKeeps DEF TypedSpace
<1>7. after = [journaled EXCEPT !.nodes = nodes, !.tomb = InsertTombstones(@, ids, sp.rev + 1)]
  BY Zenon DEF DeleteNode
<1>8. /\ DOMAIN tomb = DOMAIN sp.tomb \cup ids
      /\ DOMAIN tomb \subseteq NodeIds
      /\ \A n \in DOMAIN tomb : tomb[n] \in Nat
  <2> HIDE DEF ids
  <2>1. QED  BY <1>1, <1>2 DEF InsertTombstones, TypedSpace, IsSpace
<1> HIDE DEF journaled, nodes, tomb, ids, payload
<1>9. IsSpace(buried) /\ buried.slots = sp.slots /\ buried.tomb = tomb
  BY <1>6, <1>8 DEF IsSpace
<1>10. after = [buried EXCEPT !.nodes = nodes]
  BY <1>6, <1>7 DEF IsSpace, tomb
<1> HIDE DEF buried
<1>11. /\ IsSpace(after) /\ after.nodes = nodes
       /\ after.slots = sp.slots /\ after.tomb = tomb
  <2>1. DOMAIN rest \subseteq NodeIds
    BY <1>1
  <2> HIDE DEF after, rest
  <2>2. DOMAIN nodes \subseteq NodeIds /\ \A n \in DOMAIN nodes : nodes[n] \in Nodes
    BY <1>4, <2>1
  <2>3. QED  BY <1>9, <1>10, <2>2, NodesReplaced
<1>12. QED
  <2>1. DOMAIN after.nodes = DOMAIN sp.nodes \ ids
    BY <1>4, <1>11
  <2>2. QED  BY <1>3, <1>4, <1>8, <1>11, <2>1, FS_Subset DEF TypedSpace, ids


---------------------------------------------------------------------------
(* The commands keep the tree a tree *)

\* A parent that is a node is a folder, and no root slot is a node.
LEMMA ParentKinds ==
    ASSUME NEW sp, TypedSpace(sp), NEW p, ValidParent(sp, p)
    PROVE  p \in DOMAIN sp.nodes => sp.nodes[p].type = "folder"
BY ConstantsDisjoint DEF ValidParent, TypedSpace, IsSpace

\* A parent stays valid while the slots stay and it stays a folder.
LEMMA ParentKept ==
    ASSUME NEW sp, NEW after, after.slots = sp.slots, NEW p, ValidParent(sp, p),
           p \in DOMAIN sp.nodes =>
               p \in DOMAIN after.nodes /\ after.nodes[p].type = sp.nodes[p].type
    PROVE  ValidParent(after, p)
BY DEF ValidParent

\* A create hangs a leaf from a folder or a root slot.
LEMMA CreateKeepsTree ==
    ASSUME NEW sp, TypedSpace(sp), GoodTree(sp), NEW c, NEW origin \in Origins,
           CanCreate(sp, c), c.node \in NodeIds, c.type \in NodeType,
           c.title \in Titles \cup {None}, c.url \in Urls \cup {None}, c.parent \in ParentRefs
    PROVE  GoodTree(CreateNode(sp, c, origin))
<1> DEFINE after == CreateNode(sp, c, origin)
<1>1. /\ DOMAIN after.nodes = DOMAIN sp.nodes \cup {c.node}
      /\ after.slots = sp.slots
      /\ after.nodes[c.node].parent = c.parent
      /\ \A n \in DOMAIN sp.nodes : /\ after.nodes[n].parent = sp.nodes[n].parent
                                    /\ after.nodes[n].type = sp.nodes[n].type
  BY CreateNodeShape
<1> HIDE DEF after
<1>2. ValidParent(sp, c.parent) /\ c.node \notin DOMAIN sp.nodes
  BY DEF CanCreate
<1>3. ASSUME NEW p, ValidParent(sp, p) PROVE p # c.node
  BY <1>2, <1>3, ConstantsDisjoint DEF ValidParent, TypedSpace, IsSpace
<1>4. \A n \in DOMAIN after.nodes : ValidParent(after, after.nodes[n].parent)
  BY <1>1, <1>2, ParentKept DEF GoodTree
<1>5. Acyclic(after.nodes)
  <2>1. c.parent # c.node /\ \A n \in DOMAIN sp.nodes : sp.nodes[n].parent # c.node
    BY <1>2, <1>3 DEF GoodTree
  <2>2. \A n \in DOMAIN sp.nodes : /\ after.nodes[n].parent = sp.nodes[n].parent
                                    /\ sp.nodes[n].parent # c.node
    BY <1>1, <2>1
  <2>3. Acyclic(sp.nodes)
    BY DEF GoodTree
  <2>4. after.nodes[c.node].parent # c.node
    BY <1>1, <2>1
  <2>5. QED  BY <1>1, <1>2, <2>2, <2>3, <2>4, AcyclicAdded
<1>6. QED  BY <1>4, <1>5 DEF GoodTree, after

\* A change that keeps every node, its parent and its type keeps the tree.
LEMMA SameTree ==
    ASSUME NEW sp, GoodTree(sp), NEW after,
           DOMAIN after.nodes = DOMAIN sp.nodes, after.slots = sp.slots,
           \A n \in DOMAIN sp.nodes : /\ after.nodes[n].parent = sp.nodes[n].parent
                                      /\ after.nodes[n].type = sp.nodes[n].type
    PROVE  GoodTree(after)
<1>1. \A n \in DOMAIN after.nodes : ValidParent(after, after.nodes[n].parent)
  BY ParentKept DEF GoodTree
<1>2. Acyclic(after.nodes)
  BY AcyclicKept DEF GoodTree
<1>3. QED  BY <1>1, <1>2 DEF GoodTree

\* The cycle check lets a node go only below what is not below it.  For a bookmark
\* the code skips the check: nothing hangs from one.
LEMMA MoveLeavesSubtree ==
    ASSUME NEW sp, TypedSpace(sp), GoodTree(sp), NEW c, CanMove(sp, c),
           c.parent \in DOMAIN sp.nodes
    PROVE  c.node \notin AncestorsOrSelf(sp.nodes, c.parent)
<1>1. c.node \in DOMAIN sp.nodes /\ ValidParent(sp, c.parent) /\ ~MakesCycle(sp, c)
  BY DEF CanMove
<1>2. CASE sp.nodes[c.node].type = "folder"
  BY <1>1, <1>2 DEF MakesCycle
<1>3. CASE sp.nodes[c.node].type # "folder"
  <2> DEFINE T == DOMAIN sp.nodes \ {c.node}
  <2>1. c.parent \in T
    BY <1>1, <1>3, ParentKinds
  <2>2. UpClosed(sp.nodes, T)
    BY <1>3, ParentKinds DEF UpClosed, GoodTree
  <2>3. QED  BY <2>1, <2>2 DEF AncestorsOrSelf
<1>4. QED  BY <1>2, <1>3

\* A move makes no cycle and names a parent that is there.
LEMMA MoveKeepsTree ==
    ASSUME NEW sp, TypedSpace(sp), GoodTree(sp), NEW c, NEW origin \in Origins,
           CanMove(sp, c), c.parent \in ParentRefs
    PROVE  GoodTree(MoveNode(sp, c, origin))
<1> DEFINE after == MoveNode(sp, c, origin)
<1>1. /\ DOMAIN after.nodes = DOMAIN sp.nodes
      /\ after.slots = sp.slots
      /\ \A n \in DOMAIN sp.nodes :
             /\ after.nodes[n].parent = IF n = c.node THEN c.parent ELSE sp.nodes[n].parent
             /\ after.nodes[n].type = sp.nodes[n].type
  BY MoveNodeShape
<1> HIDE DEF after
<1>2. c.node \in DOMAIN sp.nodes /\ ValidParent(sp, c.parent)
  BY DEF CanMove
<1>3. \A n \in DOMAIN after.nodes : ValidParent(after, after.nodes[n].parent)
  BY <1>1, <1>2, ParentKept DEF GoodTree
<1>4. Acyclic(after.nodes)
  <2>1. c.parent \in DOMAIN sp.nodes => c.node \notin AncestorsOrSelf(sp.nodes, c.parent)
    BY MoveLeavesSubtree
  <2>2. Acyclic(sp.nodes)
    BY DEF GoodTree
  <2>3. QED  BY <1>1, <1>2, <2>1, <2>2, AcyclicMoved
<1>5. QED  BY <1>3, <1>4 DEF GoodTree, after

\* A delete leaves no orphan: what stays hung from what stays.
LEMMA DeleteKeepsTree ==
    ASSUME NEW sp, TypedSpace(sp), GoodTree(sp), NEW c, NEW origin \in Origins,
           CanDelete(sp, c)
    PROVE  GoodTree(DeleteNode(sp, c, origin))
<1> DEFINE after == DeleteNode(sp, c, origin)
           ids   == SubtreeIDs(sp.nodes, c.node)
<1>1. /\ DOMAIN after.nodes = DOMAIN sp.nodes \ ids
      /\ after.slots = sp.slots
      /\ \A n \in DOMAIN sp.nodes \ ids : /\ after.nodes[n].parent = sp.nodes[n].parent
                                          /\ after.nodes[n].type = sp.nodes[n].type
  BY DeleteNodeShape
<1> HIDE DEF after
<1>2. ASSUME NEW n \in DOMAIN after.nodes
      PROVE  ValidParent(after, after.nodes[n].parent)
  <2>1. sp.nodes[n].parent \in DOMAIN sp.nodes => sp.nodes[n].parent \notin ids
    BY <1>1, ParentOutsideSubtree DEF CanDelete
  <2>2. ValidParent(sp, sp.nodes[n].parent)
    BY <1>1 DEF GoodTree
  <2>3. QED  BY <1>1, <2>1, <2>2, ParentKept
<1>3. Acyclic(after.nodes)
  BY <1>1, AcyclicKept DEF GoodTree
<1>4. QED  BY <1>2, <1>3 DEF GoodTree, after

---------------------------------------------------------------------------
(* Dense positions *)

\* The siblings S are numbered 0, 1, 2, ... without gap or tie.
Dense(nodes, S) == {nodes[n].pos : n \in S} = 0 .. Cardinality(S) - 1

Numbered(nodes, S) == IsFiniteSet(S) /\ \A n \in S : nodes[n].pos \in Nat

Distinct(nodes, S) == \A m, n \in S : nodes[m].pos = nodes[n].pos => m = n

\* As many numbers as 0 .. k - 1 has.
LEMMA UpToCardinality ==
    ASSUME NEW k \in Nat
    PROVE  IsFiniteSet(0 .. k - 1) /\ Cardinality(0 .. k - 1) = k
<1>1. 0 \in Int /\ k - 1 \in Int
  OBVIOUS
<1>2. IsFiniteSet(0 .. k - 1) /\ Cardinality(0 .. k - 1) = IF 0 > k - 1 THEN 0 ELSE (k - 1) - 0 + 1
  BY <1>1, FS_Interval
<1>3. QED  BY <1>2

\* Dense positions have no tie.
LEMMA DenseDistinct ==
    ASSUME NEW nodes, NEW S, Numbered(nodes, S), Dense(nodes, S)
    PROVE  Distinct(nodes, S)
<1> DEFINE k == Cardinality(S)
           f == [n \in S |-> nodes[n].pos]
<1>1. IsFiniteSet(S) /\ k \in Nat
  BY FS_CardinalityType DEF Numbered
<1>2. Cardinality(0 .. k - 1) = k
  BY <1>1, UpToCardinality
<1>3. f \in Surjection(S, 0 .. k - 1)
  <2>1. {nodes[n].pos : n \in S} = 0 .. k - 1
    BY DEF Dense
  <2> HIDE DEF k
  <2>2. QED  BY <2>1 DEF Surjection
<1>4. f \in Injection(S, 0 .. k - 1)
  <2> HIDE DEF k, f
  <2>1. QED  BY <1>1, <1>2, <1>3, FS_SurjSameCardinalityImpliesInj DEF k
<1>5. \A m, n \in S : f[m] = f[n] => m = n
  <2> HIDE DEF f, k
  <2>1. QED  BY <1>4 DEF Injection, IsInjective
<1>6. QED  BY <1>5 DEF Distinct

\* Ranks are numbers, and siblings are ranked as they are positioned.
LEMMA RanksOrdered ==
    ASSUME NEW nodes, NEW S, Numbered(nodes, S)
    PROVE  /\ \A n \in S : Rank(nodes, S, n) \in Nat
           /\ \A m, n \in S : nodes[m].pos < nodes[n].pos
                                <=> Rank(nodes, S, m) < Rank(nodes, S, n)
<1> DEFINE before(n) == {m \in S : nodes[m].pos < nodes[n].pos}
<1>1. IsFiniteSet(S) /\ \A n \in S : nodes[n].pos \in Nat
  BY DEF Numbered
<1>2. \A n \in S : /\ IsFiniteSet(before(n)) /\ Rank(nodes, S, n) = Cardinality(before(n))
                    /\ Rank(nodes, S, n) \in Nat
  BY <1>1, FS_Subset, FS_CardinalityType DEF Rank
<1>3. ASSUME NEW m \in S, NEW n \in S, nodes[m].pos < nodes[n].pos
      PROVE  Rank(nodes, S, m) < Rank(nodes, S, n)
  <2>1. m \in before(n) /\ m \notin before(m) /\ before(m) \subseteq before(n)
    BY <1>1, <1>3
  <2> HIDE DEF before
  <2>2. /\ Cardinality(before(m)) <= Cardinality(before(n))
        /\ Cardinality(before(m)) # Cardinality(before(n))
    BY <1>2, <2>1, FS_Subset
  <2>3. QED  BY <1>2, <2>2
<1>4. ASSUME NEW m \in S, NEW n \in S, ~(nodes[m].pos < nodes[n].pos)
      PROVE  ~(Rank(nodes, S, m) < Rank(nodes, S, n))
  <2>1. CASE nodes[m].pos = nodes[n].pos
    <3>1. before(m) = before(n)
      BY <2>1
    <3> HIDE DEF before
    <3>2. QED  BY <1>2, <3>1
  <2>2. CASE nodes[n].pos < nodes[m].pos
    <3>1. Rank(nodes, S, n) < Rank(nodes, S, m)
      BY <1>3, <2>2
    <3>2. Rank(nodes, S, m) \in Nat /\ Rank(nodes, S, n) \in Nat
      BY <1>2
    <3>3. QED  BY <3>1, <3>2
  <2>3. QED  BY <1>1, <1>4, <2>1, <2>2
<1> HIDE DEF before
<1>5. QED  BY <1>2, <1>3, <1>4

\* Ranks are dense whenever positions have no tie.
LEMMA RanksDense ==
    ASSUME NEW nodes, NEW S, Numbered(nodes, S), Distinct(nodes, S)
    PROVE  {Rank(nodes, S, n) : n \in S} = 0 .. Cardinality(S) - 1
<1> DEFINE k == Cardinality(S)
           before(n) == {m \in S : nodes[m].pos < nodes[n].pos}
           f == [n \in S |-> Rank(nodes, S, n)]
<1>1. IsFiniteSet(S) /\ k \in Nat /\ \A n \in S : nodes[n].pos \in Nat
  BY FS_CardinalityType DEF Numbered
<1>2. ASSUME NEW T \in SUBSET S
      PROVE  /\ IsFiniteSet(T) /\ Cardinality(T) \in Nat
             /\ \A U \in SUBSET T : U # T => Cardinality(U) < Cardinality(T)
  <2>1. IsFiniteSet(T)
    BY <1>1, FS_Subset
  <2>2. Cardinality(T) \in Nat
    BY <2>1, FS_CardinalityType
  <2>3. ASSUME NEW U \in SUBSET T, U # T
        PROVE  Cardinality(U) < Cardinality(T)
    <3>1. IsFiniteSet(U) /\ Cardinality(U) <= Cardinality(T) /\ Cardinality(T) # Cardinality(U)
      BY <2>1, <2>3, FS_Subset
    <3>2. Cardinality(U) \in Nat
      BY <3>1, FS_CardinalityType
    <3>3. QED  BY <2>2, <3>1, <3>2
  <2>4. QED  BY <2>1, <2>2, <2>3
<1>3. ASSUME NEW n \in S
      PROVE  f[n] = Cardinality(before(n)) /\ f[n] \in 0 .. k - 1
  <2>1. before(n) \in SUBSET S /\ n \notin before(n)
    BY <1>1
  <2>2. f[n] = Cardinality(before(n))
    BY DEF Rank
  <2> HIDE DEF f, before
  <2>3. Cardinality(before(n)) < k /\ Cardinality(before(n)) \in Nat
    BY <1>2, <2>1
  <2>4. QED  BY <1>1, <2>2, <2>3
<1>4. ASSUME NEW m \in S, NEW n \in S, nodes[m].pos < nodes[n].pos
      PROVE  f[m] < f[n]
  BY <1>4, RanksOrdered
<1>5. f \in Injection(S, 0 .. k - 1)
  <2> HIDE DEF before, k
  <2>1. f \in [S -> 0 .. k - 1]
    BY <1>3
  <2>2. ASSUME NEW m \in S, NEW n \in S, m # n
        PROVE  f[m] # f[n]
    <3>1. nodes[m].pos # nodes[n].pos
      BY <2>2 DEF Distinct
    <3>2. CASE nodes[m].pos < nodes[n].pos
      BY <1>3, <1>4, <1>1, <3>2
    <3>3. CASE nodes[n].pos < nodes[m].pos
      BY <1>3, <1>4, <1>1, <3>3
    <3>4. QED  BY <1>1, <3>1, <3>2, <3>3
  <2> HIDE DEF f
  <2>3. QED  BY <2>1, <2>2 DEF Injection, IsInjective
<1>6. f \in Surjection(S, 0 .. k - 1)
  <2>1. IsFiniteSet(0 .. k - 1) /\ Cardinality(0 .. k - 1) = k
    BY <1>1, UpToCardinality
  <2> HIDE DEF f
  <2>2. QED  BY <1>5, <2>1, FS_Injection
<1>7. \A x \in 0 .. k - 1 : \E n \in S : f[n] = x
  <2> HIDE DEF f, k
  <2>1. QED  BY <1>6 DEF Surjection
<1>8. \A n \in S : f[n] = Rank(nodes, S, n) /\ f[n] \in 0 .. k - 1
  <2>1. \A n \in S : f[n] = Rank(nodes, S, n)
    OBVIOUS
  <2> HIDE DEF f, k, before
  <2>2. QED  BY <1>3, <2>1
<1> HIDE DEF f, k, before
<1>9. QED  BY <1>7, <1>8 DEF k

\* The rank of a densely numbered sibling is its position.
LEMMA DenseRank ==
    ASSUME NEW nodes, NEW S, Numbered(nodes, S), Dense(nodes, S), NEW n \in S
    PROVE  Rank(nodes, S, n) = nodes[n].pos
<1> DEFINE before == {m \in S : nodes[m].pos < nodes[n].pos}
           k == nodes[n].pos
           f == [m \in before |-> nodes[m].pos]
<1>1. IsFiniteSet(S) /\ \A m \in S : nodes[m].pos \in Nat
  BY DEF Numbered
<1>2. IsFiniteSet(before)
  BY <1>1, FS_Subset
<1>3. Cardinality(S) \in Nat /\ k \in 0 .. Cardinality(S) - 1
  BY <1>1, FS_CardinalityType DEF Dense
<1>4. f \in Surjection(before, 0 .. k - 1)
  <2>1. f \in [before -> 0 .. k - 1]
    BY <1>1
  <2>2. ASSUME NEW x \in 0 .. k - 1
        PROVE  \E m \in before : f[m] = x
    <3>1. x \in 0 .. Cardinality(S) - 1
      BY <1>3
    <3>2. PICK m \in S : nodes[m].pos = x
      BY <3>1 DEF Dense
    <3>3. QED  BY <1>3, <2>2, <3>2
  <2> HIDE DEF f, before, k
  <2>3. QED  BY <2>1, <2>2 DEF Surjection
<1>5. f \in Injection(before, 0 .. k - 1)
  <2>1. f \in [before -> 0 .. k - 1] /\ \A m, j \in before : f[m] = f[j] => m = j
    BY <1>1, DenseDistinct DEF Distinct
  <2> HIDE DEF f, before, k
  <2>2. QED  BY <2>1 DEF Injection, IsInjective
<1>6. Cardinality(before) = Cardinality(0 .. k - 1)
  <2>1. ExistsBijection(before, 0 .. k - 1)
    <3> HIDE DEF f, before, k
    <3>1. QED  BY <1>4, <1>5 DEF ExistsBijection, Bijection
  <2> HIDE DEF f, before, k
  <2>2. QED  BY <1>2, <2>1, FS_Bijection
<1>7. Cardinality(0 .. k - 1) = k
  BY <1>3, UpToCardinality
<1>8. QED  BY <1>6, <1>7 DEF Rank

\* Densely ranked siblings make room for one more at idx.
LEMMA RoomMade ==
    ASSUME NEW S, IsFiniteSet(S), NEW rank, NEW after, NEW new, new \notin S,
           NEW idx \in 0 .. Cardinality(S),
           {rank[n] : n \in S} = 0 .. Cardinality(S) - 1,
           \A n \in S : after[n].pos = IF rank[n] >= idx THEN rank[n] + 1 ELSE rank[n],
           after[new].pos = idx
    PROVE  Dense(after, S \cup {new})
<1> DEFINE k == Cardinality(S)
<1>1. k \in Nat /\ Cardinality(S \cup {new}) = k + 1
  BY FS_CardinalityType, FS_AddElement
<1> HIDE DEF k
<1>2. /\ idx \in 0 .. k
      /\ {rank[n] : n \in S} = 0 .. k - 1
  BY DEF k
<1>3. ASSUME NEW n \in S \cup {new}
      PROVE  after[n].pos \in 0 .. k
  BY <1>1, <1>2, <1>3
<1>4. ASSUME NEW x \in 0 .. k
      PROVE  \E n \in S \cup {new} : after[n].pos = x
  <2>1. CASE x = idx
    BY <2>1
  <2>2. CASE x < idx
    <3>1. x \in 0 .. k - 1
      BY <1>1, <1>2, <2>2
    <3>2. PICK n \in S : rank[n] = x
      BY <1>2, <3>1
    <3>3. QED  BY <1>2, <2>2, <3>2
  <2>3. CASE x > idx
    <3>1. x - 1 \in 0 .. k - 1
      BY <1>1, <1>2, <2>3
    <3>2. PICK n \in S : rank[n] = x - 1
      BY <1>2, <3>1
    <3>3. QED  BY <1>1, <1>2, <2>3, <3>2
  <2>4. QED  BY <1>2, <2>1, <2>2, <2>3
<1>5. {after[n].pos : n \in S \cup {new}} = 0 .. k
  BY <1>3, <1>4
<1>6. QED  BY <1>1, <1>5 DEF Dense

\* Positions that do not change stay dense.
LEMMA DenseSame ==
    ASSUME NEW nodes, NEW S, Dense(nodes, S),
           NEW after, \A n \in S : after[n].pos = nodes[n].pos
    PROVE  Dense(after, S)
BY DEF Dense

\* Siblings renumbered by rank are dense.
LEMMA CompactedDense ==
    ASSUME NEW nodes, NEW S, Numbered(nodes, S), Distinct(nodes, S),
           NEW after, \A n \in S : after[n].pos = Rank(nodes, S, n)
    PROVE  Dense(after, S)
<1>1. {Rank(nodes, S, n) : n \in S} = 0 .. Cardinality(S) - 1
  BY RanksDense
<1>2. {after[n].pos : n \in S} = {Rank(nodes, S, n) : n \in S}
  OBVIOUS
<1>3. QED  BY <1>1, <1>2 DEF Dense

\* An insertion where PlanInsert says leaves the siblings dense.
LEMMA InsertedDense ==
    ASSUME NEW nodes, NEW S, Numbered(nodes, S), Distinct(nodes, S),
           NEW before \in S \cup {None}, NEW new, new \notin S,
           NEW idx, idx = PlanInsert(nodes, S, before), NEW after,
           \A n \in S : after[n].pos = IF Rank(nodes, S, n) >= idx
                                       THEN Rank(nodes, S, n) + 1 ELSE Rank(nodes, S, n),
           after[new].pos = idx
    PROVE  Dense(after, S \cup {new})
<1> DEFINE rank == [n \in S |-> Rank(nodes, S, n)]
<1>1. IsFiniteSet(S) /\ Cardinality(S) \in Nat
  BY FS_CardinalityType DEF Numbered
<1>2. {rank[n] : n \in S} = 0 .. Cardinality(S) - 1
  <2>1. {Rank(nodes, S, n) : n \in S} = 0 .. Cardinality(S) - 1
    BY RanksDense
  <2>2. {rank[n] : n \in S} = {Rank(nodes, S, n) : n \in S}
    OBVIOUS
  <2>3. QED  BY <2>1, <2>2
<1>3. idx \in 0 .. Cardinality(S)
  <2>1. CASE before = None
    BY <1>1, <2>1 DEF PlanInsert
  <2>2. CASE before # None
    <3>1. idx = rank[before] /\ before \in S
      BY <2>2 DEF PlanInsert
    <3> HIDE DEF rank
    <3>2. rank[before] \in 0 .. Cardinality(S) - 1
      BY <1>2, <3>1
    <3>3. QED  BY <1>1, <3>1, <3>2
  <2>3. QED  BY <2>1, <2>2
<1>4. \A n \in S : after[n].pos = IF rank[n] >= idx THEN rank[n] + 1 ELSE rank[n]
  OBVIOUS
<1> HIDE DEF rank
<1>5. QED  BY <1>1, <1>2, <1>3, <1>4, RoomMade

---------------------------------------------------------------------------
(* What a command does to the fields of the nodes *)

Fields == {"type", "title", "url", "parent", "createdRev", "titleRev", "urlRev", "structRev"}

\* The columns of a node but its position.
SameFields(x, y) == \A f \in Fields : x[f] = y[f]

\* Renumbering writes positions and nothing else.
LEMMA PositionsSet ==
    ASSUME NEW nodes, \A n \in DOMAIN nodes : nodes[n] \in Nodes,
           NEW newPos
    PROVE  LET after == SetSiblingPositions(nodes, newPos)
           IN  /\ DOMAIN after = DOMAIN nodes
               /\ \A n \in DOMAIN nodes :
                      /\ SameFields(nodes[n], after[n])
                      /\ after[n].pos = IF n \in DOMAIN newPos THEN newPos[n] ELSE nodes[n].pos
<1> DEFINE after == SetSiblingPositions(nodes, newPos)
<1>1. DOMAIN after = DOMAIN nodes
  BY DEF SetSiblingPositions
<1>2. ASSUME NEW n \in DOMAIN nodes
      PROVE  /\ SameFields(nodes[n], after[n])
             /\ after[n].pos = IF n \in DOMAIN newPos THEN newPos[n] ELSE nodes[n].pos
  <2>1. CASE n \in DOMAIN newPos
    <3>1. after[n] = [nodes[n] EXCEPT !.pos = newPos[n]]
      BY <1>2, <2>1 DEF SetSiblingPositions
    <3>2. nodes[n] \in Nodes
      OBVIOUS
    <3>3. QED  BY <2>1, <3>1, <3>2 DEF Nodes, SameFields, Fields
  <2>2. CASE n \notin DOMAIN newPos
    BY <1>2, <2>2 DEF SetSiblingPositions, SameFields
  <2>3. QED  BY <2>1, <2>2
<1>3. QED  BY <1>1, <1>2

\* Placing a node writes its parent, its position and its structure revision.
LEMMA NodePlaced ==
    ASSUME NEW nodes, \A n \in DOMAIN nodes : nodes[n] \in Nodes,
           NEW c, c.node \in DOMAIN nodes, NEW idx, NEW rev
    PROVE  LET after == PlaceNode(nodes, c, idx, rev)
           IN  /\ DOMAIN after = DOMAIN nodes
               /\ \A n \in DOMAIN nodes \ {c.node} : after[n] = nodes[n]
               /\ after[c.node].parent = c.parent /\ after[c.node].pos = idx
               /\ after[c.node].structRev = rev
               /\ \A f \in Fields \ {"parent", "structRev"} :
                      after[c.node][f] = nodes[c.node][f]
<1> DEFINE after == PlaceNode(nodes, c, idx, rev)
           node == [nodes[c.node] EXCEPT !.parent = c.parent, !.pos = idx, !.structRev = rev]
<1>1. after = [nodes EXCEPT ![c.node] = node]
  BY DEF PlaceNode
<1>2. /\ node.parent = c.parent /\ node.pos = idx /\ node.structRev = rev
      /\ \A f \in Fields \ {"parent", "structRev"} : node[f] = nodes[c.node][f]
  <2>1. nodes[c.node] \in Nodes
    OBVIOUS
  <2>2. QED  BY <2>1 DEF Nodes, Fields
<1>3. QED
  <2> HIDE DEF node
  <2>1. QED  BY <1>1, <1>2

---------------------------------------------------------------------------
(* What a command does to the journal *)

\* The journal holds exactly the revisions above the floor.
JournalSpans(sp) == sp.floor <= sp.rev /\ DOMAIN sp.journal = sp.floor + 1 .. sp.rev

\* FieldRevisionsJournaled of one field of any space; rf is its revision.
FieldJournaled(sp, f, rf) ==
    \A n \in DOMAIN sp.nodes :
        LET rev == sp.nodes[n][rf]
        IN  rev > sp.floor =>
                /\ rev \in DOMAIN sp.journal
                /\ sp.journal[rev].node = n
                /\ f \in DOMAIN sp.journal[rev].payload
                /\ sp.journal[rev].payload[f] = sp.nodes[n][f]

\* FieldRevisionsLatest of one field of any space.
FieldLatest(sp, f, rf) ==
    \A r \in DOMAIN sp.journal :
        LET row == sp.journal[r]
        IN  row.node \in DOMAIN sp.nodes =>
                (f \in DOMAIN row.payload => r <= sp.nodes[row.node][rf])

\* The space after is sp with one more row, at the revision it gets.
OneMoreRow(sp, after, row) ==
    /\ after.epoch = sp.epoch /\ after.floor = sp.floor /\ after.slots = sp.slots
    /\ after.rev = sp.rev + 1
    /\ DOMAIN after.journal = DOMAIN sp.journal \cup {sp.rev + 1}
    /\ after.journal[sp.rev + 1] = row
    /\ \A r \in DOMAIN sp.journal \ {sp.rev + 1} : after.journal[r] = sp.journal[r]

\* Every node has kept the field, unless the row writes it.
FieldWritten(sp, after, row, f, rf) ==
    /\ \A n \in DOMAIN after.nodes \ {row.node} :
           /\ n \in DOMAIN sp.nodes
           /\ after.nodes[n][f] = sp.nodes[n][f] /\ after.nodes[n][rf] = sp.nodes[n][rf]
    /\ row.node \in DOMAIN after.nodes =>
           LET node == after.nodes[row.node]
           IN  IF f \in DOMAIN row.payload
               THEN node[rf] = after.rev /\ row.payload[f] = node[f]
               ELSE /\ row.node \in DOMAIN sp.nodes
                    /\ node[f] = sp.nodes[row.node][f] /\ node[rf] = sp.nodes[row.node][rf]

\* A command keeps the span of the journal.
LEMMA SpanKept ==
    ASSUME NEW sp, sp.floor \in Nat, sp.rev \in Nat, JournalSpans(sp),
           NEW after, NEW row, OneMoreRow(sp, after, row)
    PROVE  JournalSpans(after)
BY DEF JournalSpans, OneMoreRow

\* A field revision keeps naming the row that wrote the field, and the last such row.
LEMMA FieldKept ==
    ASSUME NEW sp, sp.floor \in Nat, sp.rev \in Nat, JournalSpans(sp), NEW f, NEW rf,
           NEW after, NEW row, OneMoreRow(sp, after, row), FieldWritten(sp, after, row, f, rf),
           \A n \in DOMAIN sp.nodes : sp.nodes[n][rf] \in Nat
    PROVE  /\ FieldJournaled(sp, f, rf) => FieldJournaled(after, f, rf)
           /\ FieldLatest(sp, f, rf) => FieldLatest(after, f, rf)
<1>1. ASSUME FieldJournaled(sp, f, rf), NEW n \in DOMAIN after.nodes,
             after.nodes[n][rf] > after.floor
      PROVE  LET rev == after.nodes[n][rf]
             IN  /\ rev \in DOMAIN after.journal
                 /\ after.journal[rev].node = n
                 /\ f \in DOMAIN after.journal[rev].payload
                 /\ after.journal[rev].payload[f] = after.nodes[n][f]
  <2>1. CASE n = row.node /\ f \in DOMAIN row.payload
    BY <1>1, <2>1 DEF OneMoreRow, FieldWritten
  <2>2. CASE ~(n = row.node /\ f \in DOMAIN row.payload)
    <3>1. /\ n \in DOMAIN sp.nodes
          /\ after.nodes[n][f] = sp.nodes[n][f] /\ after.nodes[n][rf] = sp.nodes[n][rf]
      BY <1>1, <2>2 DEF FieldWritten
    <3>2. sp.nodes[n][rf] > sp.floor
      BY <1>1, <3>1 DEF OneMoreRow
    <3>3. sp.nodes[n][rf] \in DOMAIN sp.journal /\ sp.nodes[n][rf] # sp.rev + 1
      BY <1>1, <3>1, <3>2 DEF FieldJournaled, JournalSpans
    <3>4. QED  BY <1>1, <3>1, <3>2, <3>3 DEF FieldJournaled, OneMoreRow
  <2>3. QED  BY <2>1, <2>2
<1>2. ASSUME FieldLatest(sp, f, rf), NEW r \in DOMAIN after.journal,
             after.journal[r].node \in DOMAIN after.nodes,
             f \in DOMAIN after.journal[r].payload
      PROVE  r <= after.nodes[after.journal[r].node][rf]
  <2> DEFINE n == after.journal[r].node
  <2>1. r \in Nat /\ r <= sp.rev + 1
    BY <1>2 DEF OneMoreRow, JournalSpans
  <2>2. CASE n = row.node /\ f \in DOMAIN row.payload
    BY <1>2, <2>1, <2>2 DEF OneMoreRow, FieldWritten
  <2>3. CASE ~(n = row.node /\ f \in DOMAIN row.payload)
    <3>1. r # sp.rev + 1 /\ r \in DOMAIN sp.journal /\ after.journal[r] = sp.journal[r]
      BY <1>2, <2>3 DEF OneMoreRow
    <3>2. n \in DOMAIN sp.nodes /\ after.nodes[n][rf] = sp.nodes[n][rf]
      BY <1>2, <2>3 DEF FieldWritten
    <3>3. QED  BY <1>2, <3>1, <3>2 DEF FieldLatest
  <2>4. QED  BY <2>2, <2>3
<1>3. FieldJournaled(sp, f, rf) => FieldJournaled(after, f, rf)
  BY <1>1 DEF FieldJournaled
<1>4. FieldLatest(sp, f, rf) => FieldLatest(after, f, rf)
  BY <1>2 DEF FieldLatest
<1>5. QED  BY <1>3, <1>4

---------------------------------------------------------------------------
(* The rows of any space agree *)

DenseSiblings(sp) == \A p \in ParentRefs : Dense(sp.nodes, Children(sp.nodes, p))

FieldsAgree(sp) ==
    /\ FieldJournaled(sp, "title", "titleRev") /\ FieldLatest(sp, "title", "titleRev")
    /\ FieldJournaled(sp, "url", "urlRev") /\ FieldLatest(sp, "url", "urlRev")
    /\ FieldJournaled(sp, "parent", "structRev") /\ FieldLatest(sp, "parent", "structRev")

\* TombstonesExact of any space; a tombstone is as old as the row of its delete, and
\* younger than that of its create, as long as the journal has them.
TombsAgree(sp) ==
    /\ DOMAIN sp.nodes \cap DOMAIN sp.tomb = {}
    /\ \A n \in DOMAIN sp.tomb :
           /\ sp.tomb[n] <= sp.rev
           /\ sp.tomb[n] > sp.floor => sp.journal[sp.tomb[n]].type = "delete"
    /\ \A r \in DOMAIN sp.journal :
           LET row == sp.journal[r]
           IN  /\ row.type = "create" =>
                      /\ row.node \in DOMAIN sp.nodes \cup DOMAIN sp.tomb
                      /\ row.node \in DOMAIN sp.tomb => r <= sp.tomb[row.node]
               /\ row.type = "delete" =>
                      /\ row.node \in DOMAIN sp.tomb /\ sp.tomb[row.node] = r
                      /\ row.payload.count = Cardinality({n \in DOMAIN sp.tomb : sp.tomb[n] = r})

LiveRows(sp) == JournalSpans(sp) /\ DenseSiblings(sp) /\ FieldsAgree(sp)

GoodRows(sp) == LiveRows(sp) /\ TombsAgree(sp)

\* Siblings that stay below their parent stay in order, those in placed aside.
SameOrder(nodes, after, placed) ==
    \A a, b \in (DOMAIN nodes \cap DOMAIN after) \ placed :
        nodes[a].parent = nodes[b].parent =>
            (nodes[a].pos < nodes[b].pos <=> after[a].pos < after[b].pos)

\* The node a row puts somewhere.
PlacedBy(row) == IF row.type \in {"create", "move"} THEN {row.node} ELSE {}

\* The row tells the position of the node it places; the others stay in order.
KeepsOrder(sp, after, row) ==
    /\ SameOrder(sp.nodes, after.nodes, PlacedBy(row))
    /\ row.type \in {"create", "move"} => row.payload.position = after.nodes[row.node].pos

\* The row, the fields and the positions of one step.
WritesRow(sp, after, row) ==
    /\ OneMoreRow(sp, after, row)
    /\ FieldWritten(sp, after, row, "title", "titleRev")
    /\ FieldWritten(sp, after, row, "url", "urlRev")
    /\ FieldWritten(sp, after, row, "parent", "structRev")
    /\ KeepsOrder(sp, after, row)

\* The fields a conflict is about.
Edited == {"title", "url", "parent"}

\* Those a command writes.
FieldsOf(op) ==
    CASE op = "create" -> Edited
      [] op = "update_title" -> {"title"}
      [] op = "update_url" -> {"url"}
      [] op = "move" -> {"parent"}
      [] op = "delete" -> {}

\* The space after has one more row, for what c did.
WritesCommand(sp, c, origin, after) ==
    \E payload :
        /\ WritesRow(sp, after, Row(c.op, c.node, payload, origin))
        /\ DOMAIN payload \cap Edited = FieldsOf(c.op)

\* A step that writes its row and its fields keeps their agreement.
LEMMA RowKeepsFields ==
    ASSUME NEW sp, TypedSpace(sp), JournalSpans(sp), FieldsAgree(sp),
           NEW after, NEW row, WritesRow(sp, after, row)
    PROVE  JournalSpans(after) /\ FieldsAgree(after)
<1>1. sp.floor \in Nat /\ sp.rev \in Nat
  BY DEF TypedSpace, IsSpace
<1>2. \A n \in DOMAIN sp.nodes : /\ sp.nodes[n]["titleRev"] \in Nat
                                 /\ sp.nodes[n]["urlRev"] \in Nat
                                 /\ sp.nodes[n]["structRev"] \in Nat
  BY DEF TypedSpace, IsSpace, Nodes
<1>3. JournalSpans(after)
  BY <1>1, SpanKept DEF WritesRow
<1>4. FieldJournaled(after, "title", "titleRev") /\ FieldLatest(after, "title", "titleRev")
  BY <1>1, <1>2, FieldKept DEF WritesRow, FieldsAgree
<1>5. FieldJournaled(after, "url", "urlRev") /\ FieldLatest(after, "url", "urlRev")
  BY <1>1, <1>2, FieldKept DEF WritesRow, FieldsAgree
<1>6. FieldJournaled(after, "parent", "structRev") /\ FieldLatest(after, "parent", "structRev")
  BY <1>1, <1>2, FieldKept DEF WritesRow, FieldsAgree
<1>7. QED  BY <1>3, <1>4, <1>5, <1>6 DEF FieldsAgree

\* A step that takes no node away keeps the tombstones in agreement with the rows.
LEMMA NoBurial ==
    ASSUME NEW sp, TypedSpace(sp), JournalSpans(sp), TombsAgree(sp),
           NEW after, NEW row, OneMoreRow(sp, after, row), after.tomb = sp.tomb,
           DOMAIN sp.nodes \subseteq DOMAIN after.nodes,
           DOMAIN after.nodes \cap DOMAIN sp.tomb = {},
           row.type # "delete", row.type = "create" => row.node \in DOMAIN after.nodes
    PROVE  TombsAgree(after)
<1>1. /\ after.rev = sp.rev + 1 /\ sp.rev \in Nat
      /\ \A n \in DOMAIN sp.tomb : sp.tomb[n] \in Nat /\ sp.tomb[n] <= sp.rev
  BY DEF OneMoreRow, TypedSpace, IsSpace, TombsAgree
<1>2. ASSUME NEW n \in DOMAIN after.tomb
      PROVE  /\ after.tomb[n] <= after.rev
             /\ after.tomb[n] > after.floor => after.journal[after.tomb[n]].type = "delete"
  <2>1. after.tomb[n] <= after.rev
    BY <1>1
  <2>2. ASSUME after.tomb[n] > after.floor
        PROVE  after.journal[after.tomb[n]].type = "delete"
    <3>1. sp.tomb[n] > sp.floor /\ sp.floor \in Nat
      BY <2>2 DEF OneMoreRow, TypedSpace, IsSpace
    <3>2. sp.tomb[n] \in DOMAIN sp.journal \ {sp.rev + 1}
      BY <1>1, <3>1 DEF JournalSpans
    <3>3. QED  BY <3>1, <3>2 DEF OneMoreRow, TombsAgree
  <2>3. QED  BY <2>1, <2>2
<1>3. ASSUME NEW r \in DOMAIN after.journal
      PROVE  /\ after.journal[r].type = "create" =>
                    /\ after.journal[r].node \in DOMAIN after.nodes \cup DOMAIN after.tomb
                    /\ after.journal[r].node \in DOMAIN after.tomb =>
                           r <= after.tomb[after.journal[r].node]
             /\ after.journal[r].type = "delete" =>
                    /\ after.journal[r].node \in DOMAIN after.tomb
                    /\ after.tomb[after.journal[r].node] = r
                    /\ after.journal[r].payload.count
                           = Cardinality({n \in DOMAIN after.tomb : after.tomb[n] = r})
  <2>1. CASE r = sp.rev + 1
    <3>1. after.journal[r] = row
      BY <2>1 DEF OneMoreRow
    <3>2. QED  BY <3>1
  <2>2. CASE r # sp.rev + 1
    <3>1. r \in DOMAIN sp.journal /\ after.journal[r] = sp.journal[r]
      BY <1>3, <2>2 DEF OneMoreRow
    <3>2. QED  BY <3>1 DEF TombsAgree
  <2>3. QED  BY <2>1, <2>2
<1>4. QED  BY <1>2, <1>3 DEF TombsAgree

\* Journaled writes its row, whatever the nodes become after it.
LEMMA JournaledRow ==
    ASSUME NEW sp, IsSpace(sp), NEW row, NEW after,
           after.epoch = Journaled(sp, row).epoch, after.floor = Journaled(sp, row).floor,
           after.slots = Journaled(sp, row).slots, after.rev = Journaled(sp, row).rev,
           after.journal = Journaled(sp, row).journal
    PROVE  OneMoreRow(sp, after, row)
<1>1. /\ Journaled(sp, row).epoch = sp.epoch /\ Journaled(sp, row).floor = sp.floor
      /\ Journaled(sp, row).slots = sp.slots /\ Journaled(sp, row).rev = sp.rev + 1
      /\ Journaled(sp, row).journal = [r \in DOMAIN sp.journal \cup {sp.rev + 1} |->
                                          IF r = sp.rev + 1 THEN row ELSE sp.journal[r]]
  BY DEF Journaled, IsSpace
<1>2. QED  BY <1>1 DEF OneMoreRow

\* Where nodes keep parents and positions, siblings stay dense.
LEMMA SameSiblings ==
    ASSUME NEW sp, DenseSiblings(sp), NEW after, DOMAIN after.nodes = DOMAIN sp.nodes,
           \A n \in DOMAIN sp.nodes : /\ after.nodes[n].parent = sp.nodes[n].parent
                                      /\ after.nodes[n].pos = sp.nodes[n].pos
    PROVE  DenseSiblings(after)
<1> SUFFICES ASSUME NEW p \in ParentRefs
             PROVE  Dense(after.nodes, Children(after.nodes, p))
  BY DEF DenseSiblings
<1>1. Children(after.nodes, p) = Children(sp.nodes, p)
  BY DEF Children
<1>2. Dense(sp.nodes, Children(sp.nodes, p))
  BY DEF DenseSiblings
<1>3. \A n \in Children(sp.nodes, p) : after.nodes[n].pos = sp.nodes[n].pos
  BY DEF Children
<1>4. QED  BY <1>1, <1>2, <1>3, DenseSame

\* The children of a parent are numbered.
LEMMA ChildrenNumbered ==
    ASSUME NEW sp, TypedSpace(sp), NEW p
    PROVE  Numbered(sp.nodes, Children(sp.nodes, p))
<1>1. IsFiniteSet(Children(sp.nodes, p)) /\ Children(sp.nodes, p) \subseteq DOMAIN sp.nodes
  BY ChildrenFinite DEF TypedSpace
<1>2. \A n \in DOMAIN sp.nodes : sp.nodes[n].pos \in Nat
  BY DEF TypedSpace, IsSpace, Nodes
<1>3. QED  BY <1>1, <1>2 DEF Numbered

\* A create writes its row with every field of its node, and makes room for it.
LEMMA CreateKeepsRows ==
    ASSUME NEW sp, TypedSpace(sp), LiveRows(sp), NEW c, NEW origin \in Origins,
           CanCreate(sp, c), c.node \in NodeIds,
           c.type \in NodeType, c.title \in Titles \cup {None},
           c.url \in Urls \cup {None}, c.parent \in ParentRefs
    PROVE  LET after == CreateNode(sp, c, origin)
           IN  /\ LiveRows(after) /\ (TombsAgree(sp) /\ c.node \notin DOMAIN sp.tomb => TombsAgree(after))
               /\ \E payload :
                      /\ WritesRow(sp, after, Row("create", c.node, payload, origin))
                      /\ DOMAIN payload \cap Edited = FieldsOf("create")
<1> DEFINE kids  == Children(sp.nodes, c.parent)
           idx   == PlanInsert(sp.nodes, kids, c.before)
           moved == SetSiblingPositions(sp.nodes, PushedBack(sp.nodes, kids, idx))
           node  == [type |-> c.type, title |-> c.title, url |-> c.url,
                     parent |-> c.parent, pos |-> idx, createdRev |-> sp.rev + 1,
                     titleRev |-> sp.rev + 1, urlRev |-> sp.rev + 1, structRev |-> sp.rev + 1]
           nodes == [n \in DOMAIN moved \cup {c.node} |->
                        IF n = c.node THEN node ELSE moved[n]]
           payload == [type |-> c.type, title |-> c.title, url |-> c.url,
                       parent |-> c.parent, position |-> idx]
           row == Row("create", c.node, payload, origin)
           after == CreateNode(sp, c, origin)
<1>1. after = [Journaled(sp, row) EXCEPT !.nodes = nodes]
  BY Zenon DEF CreateNode
<1>2. /\ c.node \notin DOMAIN sp.nodes
      /\ c.before \in kids \cup {None} /\ None \notin kids
      /\ \A n \in DOMAIN sp.nodes : sp.nodes[n] \in Nodes
      /\ Numbered(sp.nodes, kids) /\ Dense(sp.nodes, kids) /\ Distinct(sp.nodes, kids)
  <2>1. c.node \notin DOMAIN sp.nodes /\ c.before \in kids \cup {None}
    BY DEF CanCreate
  <2>2. Numbered(sp.nodes, kids) /\ Dense(sp.nodes, kids)
    BY ChildrenNumbered DEF LiveRows, DenseSiblings
  <2>3. \A n \in DOMAIN sp.nodes : sp.nodes[n] \in Nodes
    BY DEF TypedSpace, IsSpace
  <2>4. None \notin kids
    BY ConstantsDisjoint DEF Children, TypedSpace, IsSpace
  <2>5. QED  BY <2>1, <2>2, <2>3, <2>4, DenseDistinct
<1>3. /\ DOMAIN moved = DOMAIN sp.nodes
      /\ \A n \in DOMAIN sp.nodes :
             /\ SameFields(sp.nodes[n], moved[n])
             /\ moved[n].pos = IF n \in kids /\ Rank(sp.nodes, kids, n) >= idx
                               THEN Rank(sp.nodes, kids, n) + 1 ELSE sp.nodes[n].pos
  <2>1. /\ DOMAIN PushedBack(sp.nodes, kids, idx) = {m \in kids : Rank(sp.nodes, kids, m) >= idx}
        /\ \A n \in DOMAIN PushedBack(sp.nodes, kids, idx) :
               PushedBack(sp.nodes, kids, idx)[n] = Rank(sp.nodes, kids, n) + 1
    BY DEF PushedBack
  <2> HIDE DEF kids, idx
  <2>2. QED  BY <1>2, <2>1, PositionsSet
<1>4. /\ after.nodes = nodes /\ after.tomb = sp.tomb
      /\ OneMoreRow(sp, after, row)
  <2> DEFINE journaled == Journaled(sp, row)
  <2>1. /\ DOMAIN journaled = {"epoch", "rev", "floor", "slots", "nodes", "tomb", "journal"}
        /\ journaled.tomb = sp.tomb
    BY DEF Journaled, TypedSpace, IsSpace
  <2> HIDE DEF nodes, row
  <2>2. after = [journaled EXCEPT !.nodes = nodes]
    BY <1>1
  <2> HIDE DEF journaled, after
  <2>3. /\ after.nodes = nodes /\ after.tomb = sp.tomb
        /\ after.epoch = journaled.epoch /\ after.floor = journaled.floor
        /\ after.slots = journaled.slots /\ after.rev = journaled.rev
        /\ after.journal = journaled.journal
    BY <2>1, <2>2
  <2>4. OneMoreRow(sp, after, row)
    BY <2>3, JournaledRow DEF journaled, TypedSpace
  <2>5. QED  BY <2>3, <2>4
<1>5. /\ DOMAIN after.nodes = DOMAIN sp.nodes \cup {c.node} /\ after.nodes[c.node] = node
      /\ \A n \in DOMAIN sp.nodes : after.nodes[n] = moved[n]
  BY <1>2, <1>3, <1>4
<1>6. /\ row.node = c.node /\ row.type = "create" /\ row.payload = payload
      /\ row.payload["title"] = node["title"] /\ node["titleRev"] = sp.rev + 1
      /\ row.payload["url"] = node["url"] /\ node["urlRev"] = sp.rev + 1
      /\ row.payload["parent"] = node["parent"] /\ node["structRev"] = sp.rev + 1
      /\ {"title", "url", "parent"} \subseteq DOMAIN row.payload
      /\ node.parent = c.parent /\ node.pos = idx /\ row.payload.position = idx
  BY DEF Row
<1> HIDE DEF nodes, after, node, row, moved, idx, payload
<1>7. WritesRow(sp, after, row)
  <2>1. after.rev = sp.rev + 1
    BY <1>4 DEF OneMoreRow
  <2>2. \A n \in DOMAIN sp.nodes : \A f \in Fields : after.nodes[n][f] = sp.nodes[n][f]
    BY <1>3, <1>5 DEF SameFields
  <2>3. FieldWritten(sp, after, row, "title", "titleRev")
    BY <1>5, <1>6, <2>1, <2>2 DEF FieldWritten, Fields
  <2>4. FieldWritten(sp, after, row, "url", "urlRev")
    BY <1>5, <1>6, <2>1, <2>2 DEF FieldWritten, Fields
  <2>5. FieldWritten(sp, after, row, "parent", "structRev")
    BY <1>5, <1>6, <2>1, <2>2 DEF FieldWritten, Fields
  <2>6. KeepsOrder(sp, after, row)
    <3>1. idx \in Nat
      BY <1>2, PlanInsertType DEF idx, Numbered
    <3>2. \A n \in kids : Rank(sp.nodes, kids, n) = sp.nodes[n].pos
      BY <1>2, DenseRank
    <3>3. \A n \in DOMAIN sp.nodes :
              /\ sp.nodes[n].pos \in Nat
              /\ n \in kids <=> sp.nodes[n].parent = c.parent
              /\ after.nodes[n].pos = IF n \in kids /\ sp.nodes[n].pos >= idx
                                      THEN sp.nodes[n].pos + 1 ELSE sp.nodes[n].pos
      BY <1>2, <1>3, <1>5, <3>2 DEF Nodes, Children
    <3> HIDE DEF kids
    <3>4. SameOrder(sp.nodes, after.nodes, PlacedBy(row))
      BY <1>2, <1>5, <1>6, <3>1, <3>3 DEF SameOrder, PlacedBy
    <3>5. QED  BY <1>5, <1>6, <3>4 DEF KeepsOrder
  <2>7. QED  BY <1>4, <2>3, <2>4, <2>5, <2>6 DEF WritesRow
<1>8. DenseSiblings(after)
  <2> SUFFICES ASSUME NEW p \in ParentRefs
               PROVE  Dense(after.nodes, Children(after.nodes, p))
    BY DEF DenseSiblings
  <2>1. \A n \in DOMAIN sp.nodes : after.nodes[n].parent = sp.nodes[n].parent
    BY <1>3, <1>5 DEF SameFields, Fields
  <2>2. CASE p = c.parent
    <3>1. Children(after.nodes, p) = kids \cup {c.node}
      BY <1>5, <1>6, <2>1, <2>2 DEF Children
    <3>2. \A n \in kids : after.nodes[n].pos = IF Rank(sp.nodes, kids, n) >= idx
                                               THEN Rank(sp.nodes, kids, n) + 1
                                               ELSE Rank(sp.nodes, kids, n)
      <4>1. \A n \in kids : Rank(sp.nodes, kids, n) = sp.nodes[n].pos
        BY <1>2, DenseRank
      <4>2. kids \subseteq DOMAIN sp.nodes
        BY DEF Children
      <4> HIDE DEF kids
      <4>3. QED  BY <1>3, <1>5, <4>1, <4>2
    <3>3. c.node \notin kids
      BY <1>2 DEF Children
    <3>4. idx = PlanInsert(sp.nodes, kids, c.before)
      BY DEF idx
    <3> HIDE DEF kids
    <3>5. Dense(after.nodes, kids \cup {c.node})
      BY <1>2, <1>5, <1>6, <3>2, <3>3, <3>4, InsertedDense
    <3>6. QED  BY <3>1, <3>5
  <2>3. CASE p # c.parent
    <3>1. Children(after.nodes, p) = Children(sp.nodes, p)
      BY <1>5, <1>6, <2>1, <2>3 DEF Children
    <3>2. \A n \in Children(sp.nodes, p) : after.nodes[n].pos = sp.nodes[n].pos
      BY <1>3, <1>5, <2>3 DEF Children
    <3>3. QED  BY <3>1, <3>2, DenseSame DEF LiveRows, DenseSiblings
  <2>4. QED  BY <2>2, <2>3
<1>9. ASSUME TombsAgree(sp), c.node \notin DOMAIN sp.tomb
      PROVE  TombsAgree(after)
  <2>1. JournalSpans(sp) /\ TombsAgree(sp)
    BY <1>9 DEF LiveRows
  <2>2. /\ DOMAIN after.nodes \cap DOMAIN sp.tomb = {}
        /\ DOMAIN sp.nodes \subseteq DOMAIN after.nodes
    BY <1>5, <1>9, <2>1 DEF TombsAgree
  <2>3. row.type # "delete" /\ row.node \in DOMAIN after.nodes
    BY <1>5, <1>6
  <2>4. QED  BY <1>4, <2>1, <2>2, <2>3, NoBurial
<1>10. LiveRows(after)
  BY <1>7, <1>8, RowKeepsFields DEF LiveRows
<1>11. DOMAIN payload \cap Edited = FieldsOf("create")
  BY DEF FieldsOf, payload, Edited
<1>12. QED  BY <1>7, <1>9, <1>10, <1>11 DEF row, after

\* An update of a title writes its row with that field alone, and moves nothing.
LEMMA UpdateTitleKeepsRows ==
    ASSUME NEW sp, TypedSpace(sp), LiveRows(sp), NEW c, NEW origin \in Origins,
           CanUpdateTitle(sp, c)
    PROVE  LET after == UpdateNodeTitle(sp, c, origin)
           IN  /\ LiveRows(after) /\ (TombsAgree(sp) => TombsAgree(after))
               /\ WritesRow(sp, after, Row("update_title", c.node, [title |-> c.title], origin))
<1> DEFINE row == Row("update_title", c.node, [title |-> c.title], origin)
           journaled == Journaled(sp, row)
           node == [sp.nodes[c.node] EXCEPT !.title = c.title, !.titleRev = sp.rev + 1]
           nodes == [sp.nodes EXCEPT ![c.node] = node]
           after == UpdateNodeTitle(sp, c, origin)
<1>1. c.node \in DOMAIN sp.nodes /\ sp.nodes[c.node] \in Nodes
  BY DEF CanUpdateTitle, TypedSpace, IsSpace
<1>2. /\ node["title"] = c.title /\ node["titleRev"] = sp.rev + 1 /\ node.pos = sp.nodes[c.node].pos
      /\ \A f \in Fields \ {"title", "titleRev"} : node[f] = sp.nodes[c.node][f]
  BY <1>1 DEF Nodes, Fields
<1>3. /\ row.node = c.node /\ row.type = "update_title" /\ DOMAIN row.payload = {"title"}
      /\ row.payload["title"] = c.title
  BY DEF Row
<1>4. /\ DOMAIN journaled = {"epoch", "rev", "floor", "slots", "nodes", "tomb", "journal"}
      /\ journaled.tomb = sp.tomb /\ journaled.nodes = sp.nodes
  BY DEF Journaled, TypedSpace, IsSpace
<1> HIDE DEF row
<1>5. after = [journaled EXCEPT !.nodes = nodes]
  <2> HIDE DEF journaled
  <2>1. after = [journaled EXCEPT !.nodes[c.node].title = c.title,
                                  !.nodes[c.node].titleRev = sp.rev + 1]
    BY Zenon DEF UpdateNodeTitle, journaled, row
  <2>2. QED  BY <1>1, <1>4, <2>1 DEF Nodes
<1> HIDE DEF node, after, nodes
<1>6. /\ after.nodes = nodes /\ after.tomb = sp.tomb /\ OneMoreRow(sp, after, row)
  <2> HIDE DEF journaled
  <2>1. /\ after.nodes = nodes /\ after.tomb = sp.tomb
        /\ after.epoch = journaled.epoch /\ after.floor = journaled.floor
        /\ after.slots = journaled.slots /\ after.rev = journaled.rev
        /\ after.journal = journaled.journal
    BY <1>4, <1>5
  <2>2. OneMoreRow(sp, after, row)
    BY <2>1, JournaledRow DEF journaled, TypedSpace
  <2>3. QED  BY <2>1, <2>2
<1>7. /\ DOMAIN after.nodes = DOMAIN sp.nodes /\ after.nodes[c.node] = node
      /\ \A n \in DOMAIN sp.nodes \ {c.node} : after.nodes[n] = sp.nodes[n]
  BY <1>1, <1>6 DEF nodes
<1> HIDE DEF journaled
<1>8. WritesRow(sp, after, row)
  <2>1. after.rev = sp.rev + 1
    BY <1>6 DEF OneMoreRow
  <2>2. FieldWritten(sp, after, row, "title", "titleRev")
    BY <1>1, <1>2, <1>3, <1>7, <2>1 DEF FieldWritten, Fields
  <2>3. FieldWritten(sp, after, row, "url", "urlRev")
    BY <1>1, <1>2, <1>3, <1>7, <2>1 DEF FieldWritten, Fields
  <2>4. FieldWritten(sp, after, row, "parent", "structRev")
    BY <1>1, <1>2, <1>3, <1>7, <2>1 DEF FieldWritten, Fields
  <2>5. KeepsOrder(sp, after, row)
    <3>1. \A n \in DOMAIN sp.nodes : after.nodes[n].pos = sp.nodes[n].pos
      BY <1>1, <1>2, <1>7
    <3>2. QED  BY <1>3, <1>7, <3>1 DEF KeepsOrder, SameOrder
  <2>6. QED  BY <1>6, <2>2, <2>3, <2>4, <2>5 DEF WritesRow
<1>9. DenseSiblings(after)
  <2>1. \A n \in DOMAIN sp.nodes : /\ after.nodes[n].parent = sp.nodes[n].parent
                                    /\ after.nodes[n].pos = sp.nodes[n].pos
    BY <1>1, <1>2, <1>7 DEF Fields
  <2>2. QED  BY <1>7, <2>1, SameSiblings DEF LiveRows
<1>10. ASSUME TombsAgree(sp) PROVE TombsAgree(after)
  <2>1. /\ JournalSpans(sp) /\ TombsAgree(sp)
        /\ DOMAIN after.nodes \cap DOMAIN sp.tomb = {}
    BY <1>7, <1>10 DEF LiveRows, TombsAgree
  <2>2. row.type # "delete" /\ row.type # "create"
    BY <1>3
  <2>3. QED  BY <1>6, <1>7, <2>1, <2>2, NoBurial
<1>11. LiveRows(after)
  BY <1>8, <1>9, RowKeepsFields DEF LiveRows
<1>12. QED  BY <1>8, <1>10, <1>11 DEF row, after

\* An update of a URL writes its row with that field alone, and moves nothing.
LEMMA UpdateURLKeepsRows ==
    ASSUME NEW sp, TypedSpace(sp), LiveRows(sp), NEW c, NEW origin \in Origins,
           CanUpdateURL(sp, c)
    PROVE  LET after == UpdateNodeURL(sp, c, origin)
           IN  /\ LiveRows(after) /\ (TombsAgree(sp) => TombsAgree(after))
               /\ WritesRow(sp, after, Row("update_url", c.node, [url |-> c.url], origin))
<1> DEFINE row == Row("update_url", c.node, [url |-> c.url], origin)
           journaled == Journaled(sp, row)
           node == [sp.nodes[c.node] EXCEPT !.url = c.url, !.urlRev = sp.rev + 1]
           nodes == [sp.nodes EXCEPT ![c.node] = node]
           after == UpdateNodeURL(sp, c, origin)
<1>1. c.node \in DOMAIN sp.nodes /\ sp.nodes[c.node] \in Nodes
  BY DEF CanUpdateURL, TypedSpace, IsSpace
<1>2. /\ node["url"] = c.url /\ node["urlRev"] = sp.rev + 1 /\ node.pos = sp.nodes[c.node].pos
      /\ \A f \in Fields \ {"url", "urlRev"} : node[f] = sp.nodes[c.node][f]
  BY <1>1 DEF Nodes, Fields
<1>3. /\ row.node = c.node /\ row.type = "update_url" /\ DOMAIN row.payload = {"url"}
      /\ row.payload["url"] = c.url
  BY DEF Row
<1>4. /\ DOMAIN journaled = {"epoch", "rev", "floor", "slots", "nodes", "tomb", "journal"}
      /\ journaled.tomb = sp.tomb /\ journaled.nodes = sp.nodes
  BY DEF Journaled, TypedSpace, IsSpace
<1> HIDE DEF row
<1>5. after = [journaled EXCEPT !.nodes = nodes]
  <2> HIDE DEF journaled
  <2>1. after = [journaled EXCEPT !.nodes[c.node].url = c.url,
                                  !.nodes[c.node].urlRev = sp.rev + 1]
    BY Zenon DEF UpdateNodeURL, journaled, row
  <2>2. QED  BY <1>1, <1>4, <2>1 DEF Nodes
<1> HIDE DEF node, after, nodes
<1>6. /\ after.nodes = nodes /\ after.tomb = sp.tomb /\ OneMoreRow(sp, after, row)
  <2> HIDE DEF journaled
  <2>1. /\ after.nodes = nodes /\ after.tomb = sp.tomb
        /\ after.epoch = journaled.epoch /\ after.floor = journaled.floor
        /\ after.slots = journaled.slots /\ after.rev = journaled.rev
        /\ after.journal = journaled.journal
    BY <1>4, <1>5
  <2>2. OneMoreRow(sp, after, row)
    BY <2>1, JournaledRow DEF journaled, TypedSpace
  <2>3. QED  BY <2>1, <2>2
<1>7. /\ DOMAIN after.nodes = DOMAIN sp.nodes /\ after.nodes[c.node] = node
      /\ \A n \in DOMAIN sp.nodes \ {c.node} : after.nodes[n] = sp.nodes[n]
  BY <1>1, <1>6 DEF nodes
<1> HIDE DEF journaled
<1>8. WritesRow(sp, after, row)
  <2>1. after.rev = sp.rev + 1
    BY <1>6 DEF OneMoreRow
  <2>2. FieldWritten(sp, after, row, "title", "titleRev")
    BY <1>1, <1>2, <1>3, <1>7, <2>1 DEF FieldWritten, Fields
  <2>3. FieldWritten(sp, after, row, "url", "urlRev")
    BY <1>1, <1>2, <1>3, <1>7, <2>1 DEF FieldWritten, Fields
  <2>4. FieldWritten(sp, after, row, "parent", "structRev")
    BY <1>1, <1>2, <1>3, <1>7, <2>1 DEF FieldWritten, Fields
  <2>5. KeepsOrder(sp, after, row)
    <3>1. \A n \in DOMAIN sp.nodes : after.nodes[n].pos = sp.nodes[n].pos
      BY <1>1, <1>2, <1>7
    <3>2. QED  BY <1>3, <1>7, <3>1 DEF KeepsOrder, SameOrder
  <2>6. QED  BY <1>6, <2>2, <2>3, <2>4, <2>5 DEF WritesRow
<1>9. DenseSiblings(after)
  <2>1. \A n \in DOMAIN sp.nodes : /\ after.nodes[n].parent = sp.nodes[n].parent
                                    /\ after.nodes[n].pos = sp.nodes[n].pos
    BY <1>1, <1>2, <1>7 DEF Fields
  <2>2. QED  BY <1>7, <2>1, SameSiblings DEF LiveRows
<1>10. ASSUME TombsAgree(sp) PROVE TombsAgree(after)
  <2>1. /\ JournalSpans(sp) /\ TombsAgree(sp)
        /\ DOMAIN after.nodes \cap DOMAIN sp.tomb = {}
    BY <1>7, <1>10 DEF LiveRows, TombsAgree
  <2>2. row.type # "delete" /\ row.type # "create"
    BY <1>3
  <2>3. QED  BY <1>6, <1>7, <2>1, <2>2, NoBurial
<1>11. LiveRows(after)
  BY <1>8, <1>9, RowKeepsFields DEF LiveRows
<1>12. QED  BY <1>8, <1>10, <1>11 DEF row, after

\* What a move does to the fields of the nodes: the structure of the moved node changes.
MovedFields(sp, c, after) ==
    /\ DOMAIN after = DOMAIN sp.nodes
    /\ \A n \in DOMAIN sp.nodes \ {c.node} : SameFields(sp.nodes[n], after[n])
    /\ after[c.node].parent = c.parent /\ after[c.node].structRev = sp.rev + 1
    /\ \A f \in Fields \ {"parent", "structRev"} : after[c.node][f] = sp.nodes[c.node][f]

\* The anchor of a move that changes something is a sibling to be.
LEMMA MoveAnchor ==
    ASSUME NEW sp, TypedSpace(sp), NEW c, CanMove(sp, c), ~AlreadyInPlace(sp, c)
    PROVE  c.before \in Siblings(sp, c) \cup {None} /\ None \notin Siblings(sp, c)
<1>1. c.before \in Siblings(sp, c) \cup {None}
  BY DEF CanMove, AlreadyInPlace
<1>2. None \notin Siblings(sp, c)
  BY ConstantsDisjoint DEF Siblings, Children, TypedSpace, IsSpace
<1>3. QED  BY <1>1, <1>2

\* A move within its parent renumbers the siblings around the node.
LEMMA ReorderEffect ==
    ASSUME NEW sp, TypedSpace(sp), DenseSiblings(sp), NEW c, CanMove(sp, c),
           ~AlreadyInPlace(sp, c), c.parent \in ParentRefs, sp.nodes[c.node].parent = c.parent
    PROVE  LET after == Reorder(sp, c)
           IN  /\ MovedFields(sp, c, after)
               /\ \A p \in ParentRefs : Dense(after, Children(after, p))
               /\ SameOrder(sp.nodes, after, {c.node})
<1> DEFINE base  == Siblings(sp, c)
           idx   == PlanInsert(sp.nodes, base, c.before)
           room  == SetSiblingPositions(sp.nodes, Around(sp.nodes, base, idx))
           after == Reorder(sp, c)
<1>1. /\ c.node \in DOMAIN sp.nodes
      /\ \A n \in DOMAIN sp.nodes : sp.nodes[n] \in Nodes
  BY DEF CanMove, TypedSpace, IsSpace
<1>2. /\ base \cup {c.node} = Children(sp.nodes, c.parent) /\ c.node \notin base
      /\ base \subseteq DOMAIN sp.nodes
  BY <1>1 DEF Siblings, Children
<1>3. Numbered(sp.nodes, base) /\ Distinct(sp.nodes, base)
  <2>1. /\ Numbered(sp.nodes, Children(sp.nodes, c.parent))
        /\ Dense(sp.nodes, Children(sp.nodes, c.parent))
    BY ChildrenNumbered DEF DenseSiblings
  <2>2. Distinct(sp.nodes, Children(sp.nodes, c.parent))
    BY <2>1, DenseDistinct
  <2>3. base \subseteq Children(sp.nodes, c.parent)
    BY <1>2
  <2> HIDE DEF base
  <2>4. QED  BY <2>1, <2>2, <2>3, FS_Subset DEF Numbered, Distinct
<1>4. /\ DOMAIN room = DOMAIN sp.nodes
      /\ \A n \in DOMAIN sp.nodes :
             /\ SameFields(sp.nodes[n], room[n])
             /\ room[n].pos = IF n \in base
                              THEN IF Rank(sp.nodes, base, n) >= idx
                                   THEN Rank(sp.nodes, base, n) + 1 ELSE Rank(sp.nodes, base, n)
                              ELSE sp.nodes[n].pos
  <2>1. /\ DOMAIN Around(sp.nodes, base, idx) = base
        /\ \A n \in base : Around(sp.nodes, base, idx)[n]
                               = IF Rank(sp.nodes, base, n) >= idx
                                 THEN Rank(sp.nodes, base, n) + 1 ELSE Rank(sp.nodes, base, n)
    BY DEF Around
  <2> HIDE DEF base, idx
  <2>2. QED  BY <1>1, <2>1, PositionsSet
<1>5. \A n \in DOMAIN room : room[n] \in Nodes
  <2>1. IsFiniteSet(base)
    BY <1>3 DEF Numbered
  <2>2. \A n \in DOMAIN Around(sp.nodes, base, idx) : Around(sp.nodes, base, idx)[n] \in Nat
    BY <2>1, RenumberingType
  <2> HIDE DEF base, idx
  <2>3. QED  BY <1>1, <2>2, SetSiblingPositionsKeeps
<1>6. after = PlaceNode(room, c, idx, sp.rev + 1)
  BY DEF Reorder
<1> HIDE DEF room, base, idx, after
<1>7. /\ DOMAIN after = DOMAIN sp.nodes
      /\ \A n \in DOMAIN sp.nodes \ {c.node} : after[n] = room[n]
      /\ after[c.node].parent = c.parent /\ after[c.node].pos = idx
      /\ after[c.node].structRev = sp.rev + 1
      /\ \A f \in Fields \ {"parent", "structRev"} : after[c.node][f] = room[c.node][f]
  BY <1>1, <1>4, <1>5, <1>6, NodePlaced
<1>8. MovedFields(sp, c, after)
  BY <1>1, <1>4, <1>7 DEF MovedFields, SameFields
<1>9. ASSUME NEW p \in ParentRefs
      PROVE  Dense(after, Children(after, p))
  <2>1. \A n \in DOMAIN sp.nodes : after[n].parent = sp.nodes[n].parent
    BY <1>4, <1>7 DEF SameFields, Fields
  <2>2. Children(after, p) = Children(sp.nodes, p)
    BY <1>7, <2>1 DEF Children
  <2>3. CASE p = c.parent
    <3>1. \A n \in base : after[n].pos = IF Rank(sp.nodes, base, n) >= idx
                                         THEN Rank(sp.nodes, base, n) + 1
                                         ELSE Rank(sp.nodes, base, n)
      BY <1>2, <1>4, <1>7
    <3>2. c.before \in base \cup {None}
      BY MoveAnchor DEF base
    <3>3. Dense(after, base \cup {c.node})
      BY <1>2, <1>3, <1>7, <3>1, <3>2, InsertedDense DEF idx
    <3>4. QED  BY <1>2, <2>2, <2>3, <3>3
  <2>4. CASE p # c.parent
    <3>1. \A n \in Children(sp.nodes, p) : n \in DOMAIN sp.nodes /\ n \notin base /\ n # c.node
      BY <1>2, <2>4 DEF Children
    <3>2. \A n \in Children(sp.nodes, p) : after[n].pos = sp.nodes[n].pos
      BY <1>4, <1>7, <3>1
    <3>3. QED  BY <2>2, <3>2, DenseSame DEF DenseSiblings
  <2>5. QED  BY <2>3, <2>4
<1>10. SameOrder(sp.nodes, after, {c.node})
  <2>1. idx \in Nat
    BY <1>3, PlanInsertType DEF idx, Numbered
  <2>2. /\ \A n \in base : Rank(sp.nodes, base, n) \in Nat
        /\ \A m, n \in base : sp.nodes[m].pos < sp.nodes[n].pos
                               <=> Rank(sp.nodes, base, m) < Rank(sp.nodes, base, n)
    BY <1>3, RanksOrdered
  <2>3. \A n \in DOMAIN sp.nodes \ {c.node} :
            /\ n \in base <=> sp.nodes[n].parent = c.parent
            /\ n \in base => after[n].pos = IF Rank(sp.nodes, base, n) >= idx
                                            THEN Rank(sp.nodes, base, n) + 1
                                            ELSE Rank(sp.nodes, base, n)
            /\ n \notin base => after[n].pos = sp.nodes[n].pos
    BY <1>4, <1>7 DEF base, Siblings, Children
  <2>4. ASSUME NEW m \in DOMAIN sp.nodes \ {c.node}, NEW n \in DOMAIN sp.nodes \ {c.node},
               sp.nodes[m].parent = sp.nodes[n].parent
        PROVE  sp.nodes[m].pos < sp.nodes[n].pos <=> after[m].pos < after[n].pos
    <3>1. CASE m \in base
      <4>1. n \in base
        BY <2>3, <2>4, <3>1
      <4>2. QED  BY <2>1, <2>2, <2>3, <3>1, <4>1
    <3>2. CASE m \notin base
      <4>1. n \notin base
        BY <2>3, <2>4, <3>2
      <4>2. QED  BY <2>3, <3>2, <4>1
    <3>3. QED  BY <3>1, <3>2
  <2>5. QED  BY <1>7, <2>4 DEF SameOrder
<1>11. QED  BY <1>8, <1>9, <1>10 DEF after

\* A move to another parent closes the gap it leaves and makes room where it goes.
LEMMA ReparentEffect ==
    ASSUME NEW sp, TypedSpace(sp), DenseSiblings(sp), NEW c, CanMove(sp, c),
           ~AlreadyInPlace(sp, c), c.parent \in ParentRefs,
           sp.nodes[c.node].parent # c.parent
    PROVE  LET after == Reparent(sp, c)
           IN  /\ MovedFields(sp, c, after)
               /\ \A p \in ParentRefs : Dense(after, Children(after, p))
               /\ SameOrder(sp.nodes, after, {c.node})
<1> DEFINE from   == sp.nodes[c.node].parent
           old    == Children(sp.nodes, from) \ {c.node}
           new    == Children(sp.nodes, c.parent)
           idx    == PlanInsert(sp.nodes, new, c.before)
           placed == PlaceNode(sp.nodes, c, idx, sp.rev + 1)
           left   == SetSiblingPositions(placed, Compacted(sp.nodes, old))
           after  == Reparent(sp, c)
<1>1. /\ c.node \in DOMAIN sp.nodes /\ from \in ParentRefs
      /\ \A n \in DOMAIN sp.nodes : sp.nodes[n] \in Nodes
      /\ sp.rev + 1 \in Nat
  BY DEF CanMove, TypedSpace, IsSpace, Nodes
<1>2. /\ old \cup {c.node} = Children(sp.nodes, from) /\ c.node \notin old
      /\ c.node \notin new /\ old \cap new = {}
      /\ old \subseteq DOMAIN sp.nodes /\ new \subseteq DOMAIN sp.nodes
  BY <1>1 DEF Children
<1>3. /\ Numbered(sp.nodes, new) /\ Dense(sp.nodes, new) /\ Distinct(sp.nodes, new)
      /\ Numbered(sp.nodes, old) /\ Distinct(sp.nodes, old)
  <2>1. \A p \in ParentRefs : /\ Numbered(sp.nodes, Children(sp.nodes, p))
                              /\ Dense(sp.nodes, Children(sp.nodes, p))
                              /\ Distinct(sp.nodes, Children(sp.nodes, p))
    BY ChildrenNumbered, DenseDistinct DEF DenseSiblings
  <2>2. old \subseteq Children(sp.nodes, from)
    BY <1>2
  <2> HIDE DEF old, from
  <2>3. Numbered(sp.nodes, old) /\ Distinct(sp.nodes, old)
    BY <1>1, <2>1, <2>2, FS_Subset DEF Numbered, Distinct
  <2>4. QED  BY <2>1, <2>3
<1>4. idx \in Nat
  BY <1>3, PlanInsertType DEF Numbered
<1>5. after = SetSiblingPositions(left, PushedBack(sp.nodes, new, idx))
  BY DEF Reparent
<1> HIDE DEF idx
<1>6. /\ DOMAIN placed = DOMAIN sp.nodes
      /\ \A n \in DOMAIN sp.nodes \ {c.node} : placed[n] = sp.nodes[n]
      /\ placed[c.node].parent = c.parent /\ placed[c.node].pos = idx
      /\ placed[c.node].structRev = sp.rev + 1
      /\ \A f \in Fields \ {"parent", "structRev"} : placed[c.node][f] = sp.nodes[c.node][f]
      /\ \A n \in DOMAIN sp.nodes : placed[n] \in Nodes
  BY <1>1, <1>4, NodePlaced, PlaceNodeKeeps
<1>7. /\ DOMAIN Compacted(sp.nodes, old) = old
      /\ \A n \in old : Compacted(sp.nodes, old)[n] = Rank(sp.nodes, old, n)
      /\ DOMAIN PushedBack(sp.nodes, new, idx) = {n \in new : Rank(sp.nodes, new, n) >= idx}
      /\ \A n \in DOMAIN PushedBack(sp.nodes, new, idx) :
             PushedBack(sp.nodes, new, idx)[n] = Rank(sp.nodes, new, n) + 1
  BY DEF Compacted, PushedBack
<1> HIDE DEF placed, old, new
<1>8. /\ DOMAIN left = DOMAIN sp.nodes
      /\ \A n \in DOMAIN sp.nodes :
             /\ SameFields(placed[n], left[n])
             /\ left[n].pos = IF n \in old THEN Rank(sp.nodes, old, n) ELSE placed[n].pos
      /\ \A n \in DOMAIN left : left[n] \in Nodes
  <2>1. \A n \in DOMAIN Compacted(sp.nodes, old) : Compacted(sp.nodes, old)[n] \in Nat
    BY <1>3, RenumberingType DEF Numbered
  <2>2. QED  BY <1>6, <1>7, <2>1, PositionsSet, SetSiblingPositionsKeeps
<1> HIDE DEF left, after
<1>9. /\ DOMAIN after = DOMAIN sp.nodes
      /\ \A n \in DOMAIN sp.nodes :
             /\ SameFields(left[n], after[n])
             /\ after[n].pos = IF n \in new /\ Rank(sp.nodes, new, n) >= idx
                               THEN Rank(sp.nodes, new, n) + 1 ELSE left[n].pos
  BY <1>5, <1>7, <1>8, PositionsSet
<1>10. MovedFields(sp, c, after)
  BY <1>1, <1>6, <1>8, <1>9 DEF MovedFields, SameFields, Fields
<1>11. ASSUME NEW p \in ParentRefs
       PROVE  Dense(after, Children(after, p))
  <2>1. \A n \in DOMAIN sp.nodes :
            after[n].parent = IF n = c.node THEN c.parent ELSE sp.nodes[n].parent
    BY <1>10 DEF MovedFields, SameFields, Fields
  <2>2. CASE p = c.parent
    <3>1. Children(after, p) = new \cup {c.node}
      BY <1>1, <1>9, <2>1, <2>2 DEF Children, new
    <3>2. \A n \in new : after[n].pos = IF Rank(sp.nodes, new, n) >= idx
                                        THEN Rank(sp.nodes, new, n) + 1
                                        ELSE Rank(sp.nodes, new, n)
      <4>1. \A n \in new : Rank(sp.nodes, new, n) = sp.nodes[n].pos
        BY <1>3, DenseRank
      <4>2. \A n \in new : left[n].pos = sp.nodes[n].pos
        BY <1>2, <1>6, <1>8
      <4>3. QED  BY <1>2, <1>9, <4>1, <4>2
    <3>3. after[c.node].pos = idx
      BY <1>1, <1>2, <1>6, <1>8, <1>9
    <3>4. c.before \in new \cup {None}
      BY MoveAnchor DEF Siblings, new
    <3>5. Dense(after, new \cup {c.node})
      BY <1>2, <1>3, <3>2, <3>3, <3>4, InsertedDense DEF idx
    <3>6. QED  BY <3>1, <3>5
  <2>3. CASE p = from
    <3>1. Children(after, p) = old
      BY <1>1, <1>2, <1>9, <2>1, <2>3 DEF Children
    <3>2. \A n \in old : after[n].pos = Rank(sp.nodes, old, n)
      BY <1>2, <1>8, <1>9
    <3>3. QED  BY <1>3, <3>1, <3>2, CompactedDense
  <2>4. CASE p # c.parent /\ p # from
    <3>1. Children(after, p) = Children(sp.nodes, p)
      BY <1>9, <2>1, <2>4 DEF Children
    <3>2. \A n \in Children(sp.nodes, p) :
              n \in DOMAIN sp.nodes /\ n # c.node /\ n \notin old /\ n \notin new
      BY <2>4 DEF Children, old, new
    <3>3. \A n \in Children(sp.nodes, p) : after[n].pos = sp.nodes[n].pos
      BY <1>6, <1>8, <1>9, <3>2
    <3>4. QED  BY <3>1, <3>3, DenseSame DEF DenseSiblings
  <2>5. QED  BY <2>2, <2>3, <2>4
<1>12. SameOrder(sp.nodes, after, {c.node})
  <2>1. /\ \A n \in old : Rank(sp.nodes, old, n) \in Nat
        /\ \A m, n \in old : sp.nodes[m].pos < sp.nodes[n].pos
                              <=> Rank(sp.nodes, old, m) < Rank(sp.nodes, old, n)
    BY <1>3, RanksOrdered
  <2>2. \A n \in new : Rank(sp.nodes, new, n) = sp.nodes[n].pos /\ sp.nodes[n].pos \in Nat
    BY <1>3, DenseRank DEF Numbered
  <2>3. \A n \in DOMAIN sp.nodes \ {c.node} :
            /\ n \in old <=> sp.nodes[n].parent = from
            /\ n \in new <=> sp.nodes[n].parent = c.parent
            /\ placed[n] = sp.nodes[n]
    BY <1>6 DEF old, new, Children
  <2>4. \A n \in DOMAIN sp.nodes \ {c.node} :
            /\ n \in old => after[n].pos = Rank(sp.nodes, old, n)
            /\ n \in new => after[n].pos = IF sp.nodes[n].pos >= idx THEN sp.nodes[n].pos + 1
                                                                    ELSE sp.nodes[n].pos
            /\ n \notin old \cup new => after[n].pos = sp.nodes[n].pos
    BY <1>2, <1>8, <1>9, <2>2, <2>3
  <2>5. ASSUME NEW m \in DOMAIN sp.nodes \ {c.node}, NEW n \in DOMAIN sp.nodes \ {c.node},
               sp.nodes[m].parent = sp.nodes[n].parent
        PROVE  sp.nodes[m].pos < sp.nodes[n].pos <=> after[m].pos < after[n].pos
    <3>1. CASE m \in old
      <4>1. n \in old
        BY <2>3, <2>5, <3>1
      <4>2. QED  BY <2>1, <2>4, <3>1, <4>1
    <3>2. CASE m \in new
      <4>1. n \in new
        BY <2>3, <2>5, <3>2
      <4>2. QED  BY <1>4, <2>2, <2>4, <3>2, <4>1
    <3>3. CASE m \notin old \cup new
      <4>1. n \notin old \cup new
        BY <2>3, <2>5, <3>3
      <4>2. QED  BY <2>4, <3>3, <4>1
    <3>4. QED  BY <3>1, <3>2, <3>3
  <2>6. QED  BY <1>9, <2>5 DEF SameOrder
<1>13. QED  BY <1>10, <1>11, <1>12 DEF after

\* A move that changes something writes its row with the parent of its node.
LEMMA MoveKeepsRows ==
    ASSUME NEW sp, TypedSpace(sp), LiveRows(sp), NEW c, NEW origin \in Origins,
           CanMove(sp, c), ~AlreadyInPlace(sp, c), c.parent \in ParentRefs
    PROVE  LET after == MoveNode(sp, c, origin)
           IN  /\ LiveRows(after) /\ (TombsAgree(sp) => TombsAgree(after))
               /\ \E pos : WritesRow(sp, after, Row("move", c.node,
                                                    [parent |-> c.parent, position |-> pos], origin))
<1> DEFINE nodes == IF sp.nodes[c.node].parent = c.parent THEN Reorder(sp, c)
                                                          ELSE Reparent(sp, c)
           row == Row("move", c.node, [parent |-> c.parent, position |-> nodes[c.node].pos], origin)
           journaled == Journaled(sp, row)
           after == MoveNode(sp, c, origin)
<1>1. after = [journaled EXCEPT !.nodes = nodes]
  BY Zenon DEF MoveNode
<1>2. /\ MovedFields(sp, c, nodes)
      /\ \A p \in ParentRefs : Dense(nodes, Children(nodes, p))
      /\ SameOrder(sp.nodes, nodes, {c.node})
  BY ReorderEffect, ReparentEffect DEF LiveRows
<1> HIDE DEF nodes
<1>3. /\ row.node = c.node /\ row.type = "move" /\ DOMAIN row.payload = {"parent", "position"}
      /\ row.payload["parent"] = c.parent /\ row.payload.position = nodes[c.node].pos
  BY DEF Row
<1> HIDE DEF row
<1>4. /\ DOMAIN journaled = {"epoch", "rev", "floor", "slots", "nodes", "tomb", "journal"}
      /\ journaled.tomb = sp.tomb
  BY DEF Journaled, TypedSpace, IsSpace
<1>5. /\ after.nodes = nodes /\ after.tomb = sp.tomb /\ OneMoreRow(sp, after, row)
  <2> HIDE DEF journaled, after
  <2>1. /\ after.nodes = nodes /\ after.tomb = sp.tomb
        /\ after.epoch = journaled.epoch /\ after.floor = journaled.floor
        /\ after.slots = journaled.slots /\ after.rev = journaled.rev
        /\ after.journal = journaled.journal
    BY <1>1, <1>4
  <2>2. OneMoreRow(sp, after, row)
    BY <2>1, JournaledRow DEF journaled, TypedSpace
  <2>3. QED  BY <2>1, <2>2
<1> HIDE DEF after, journaled
<1>6. c.node \in DOMAIN sp.nodes
  BY DEF CanMove
<1>7. WritesRow(sp, after, row)
  <2>1. after.rev = sp.rev + 1
    BY <1>5 DEF OneMoreRow
  <2>2. FieldWritten(sp, after, row, "title", "titleRev")
    BY <1>2, <1>3, <1>5, <1>6, <2>1 DEF FieldWritten, MovedFields, SameFields, Fields
  <2>3. FieldWritten(sp, after, row, "url", "urlRev")
    BY <1>2, <1>3, <1>5, <1>6, <2>1 DEF FieldWritten, MovedFields, SameFields, Fields
  <2>4. FieldWritten(sp, after, row, "parent", "structRev")
    BY <1>2, <1>3, <1>5, <1>6, <2>1 DEF FieldWritten, MovedFields, SameFields, Fields
  <2>5. KeepsOrder(sp, after, row)
    BY <1>2, <1>3, <1>5 DEF KeepsOrder, PlacedBy
  <2>6. QED  BY <1>5, <2>2, <2>3, <2>4, <2>5 DEF WritesRow
<1>8. DenseSiblings(after)
  BY <1>2, <1>5 DEF DenseSiblings
<1>9. ASSUME TombsAgree(sp) PROVE TombsAgree(after)
  <2>1. /\ JournalSpans(sp) /\ TombsAgree(sp)
        /\ DOMAIN after.nodes = DOMAIN sp.nodes
        /\ DOMAIN after.nodes \cap DOMAIN sp.tomb = {}
    BY <1>2, <1>5, <1>9 DEF LiveRows, TombsAgree, MovedFields
  <2>2. row.type # "delete" /\ row.type # "create"
    BY <1>3
  <2>3. QED  BY <1>5, <2>1, <2>2, NoBurial
<1>10. LiveRows(after)
  BY <1>7, <1>8, RowKeepsFields DEF LiveRows
<1>11. QED  BY <1>7, <1>9, <1>10 DEF row, after

\* A subtree holds whatever hangs from it.
LEMMA SubtreeHolds ==
    ASSUME NEW nodes, NEW id, NEW n \in DOMAIN nodes, nodes[n].parent \in SubtreeIDs(nodes, id)
    PROVE  n \in SubtreeIDs(nodes, id)
<1>1. nodes[n].parent \in DOMAIN nodes /\ id \in AncestorsOrSelf(nodes, nodes[n].parent)
  BY DEF SubtreeIDs
<1>2. ASSUME NEW T \in SUBSET DOMAIN nodes, n \in T, UpClosed(nodes, T)
      PROVE  id \in T
  BY <1>1, <1>2 DEF UpClosed, AncestorsOrSelf
<1>3. QED  BY <1>1, <1>2 DEF SubtreeIDs, AncestorsOrSelf

\* The top of a subtree is in it, and what else is in it hangs from it.
LEMMA SubtreeHangs ==
    ASSUME NEW nodes, NEW id \in DOMAIN nodes, NEW n \in SubtreeIDs(nodes, id), n # id
    PROVE  nodes[n].parent \in SubtreeIDs(nodes, id)
<1>1. n \in DOMAIN nodes /\ id \in AncestorsOrSelf(nodes, n)
  BY DEF SubtreeIDs
<1>2. nodes[n].parent \in DOMAIN nodes
  <2>1. CASE nodes[n].parent \notin DOMAIN nodes
    <3>1. {n} \in SUBSET DOMAIN nodes /\ UpClosed(nodes, {n})
      BY <1>1, <2>1 DEF UpClosed
    <3>2. QED  BY <1>1, <3>1 DEF AncestorsOrSelf
  <2>2. QED  BY <2>1
<1>3. ASSUME NEW T \in SUBSET DOMAIN nodes, nodes[n].parent \in T, UpClosed(nodes, T)
      PROVE  id \in T
  <2>1. T \cup {n} \in SUBSET DOMAIN nodes /\ UpClosed(nodes, T \cup {n})
    BY <1>1, <1>3 DEF UpClosed
  <2>2. id \in T \cup {n}
    BY <1>1, <2>1 DEF AncestorsOrSelf
  <2>3. QED  BY <2>2
<1>4. QED  BY <1>2, <1>3 DEF SubtreeIDs, AncestorsOrSelf

\* A node is in its own subtree.
LEMMA SubtreeTop ==
    ASSUME NEW nodes, NEW id \in DOMAIN nodes
    PROVE  id \in SubtreeIDs(nodes, id)
BY DEF SubtreeIDs, AncestorsOrSelf

\* A delete buries its subtree at the revision of its row and closes the gap it leaves.
LEMMA DeleteKeepsRows ==
    ASSUME NEW sp, TypedSpace(sp), LiveRows(sp), NEW c, NEW origin \in Origins,
           CanDelete(sp, c)
    PROVE  LET after == DeleteNode(sp, c, origin)
           IN  /\ LiveRows(after) /\ (TombsAgree(sp) => TombsAgree(after))
               /\ \E count : WritesRow(sp, after, Row("delete", c.node, [count |-> count], origin))
<1> DEFINE ids   == SubtreeIDs(sp.nodes, c.node)
           rest  == [n \in DOMAIN sp.nodes \ ids |-> sp.nodes[n]]
           from  == sp.nodes[c.node].parent
           kids  == Children(rest, from)
           nodes == SetSiblingPositions(rest, Compacted(rest, kids))
           row   == Row("delete", c.node, [count |-> Cardinality(ids)], origin)
           tomb  == InsertTombstones(sp.tomb, ids, sp.rev + 1)
           journaled == Journaled(sp, row)
           after == DeleteNode(sp, c, origin)
<1>1. /\ c.node \in DOMAIN sp.nodes /\ from \in ParentRefs
      /\ \A n \in DOMAIN sp.nodes : sp.nodes[n] \in Nodes
      /\ JournalSpans(sp) /\ DenseSiblings(sp)
  BY DEF CanDelete, TypedSpace, IsSpace, Nodes, LiveRows
<1>2. ids \subseteq DOMAIN sp.nodes /\ c.node \in ids
  BY <1>1, SubtreeTop DEF SubtreeIDs
<1>3. /\ row.node = c.node /\ row.type = "delete" /\ DOMAIN row.payload = {"count"}
      /\ row.payload.count = Cardinality(ids)
  BY DEF Row
<1>4. /\ DOMAIN journaled = {"epoch", "rev", "floor", "slots", "nodes", "tomb", "journal"}
      /\ journaled.tomb = sp.tomb
  BY DEF Journaled, TypedSpace, IsSpace
<1>5. after = [journaled EXCEPT !.nodes = nodes, !.tomb = InsertTombstones(@, ids, sp.rev + 1)]
  BY Zenon DEF DeleteNode
<1>6. /\ DOMAIN rest = DOMAIN sp.nodes \ ids
      /\ \A n \in DOMAIN rest : rest[n] = sp.nodes[n]
  OBVIOUS
<1>7. /\ DOMAIN tomb = DOMAIN sp.tomb \cup ids
      /\ \A n \in DOMAIN tomb : tomb[n] = IF n \in ids THEN sp.rev + 1 ELSE sp.tomb[n]
  BY DEF InsertTombstones
<1> HIDE DEF row, nodes, rest, ids
<1>8. /\ after.nodes = nodes /\ after.tomb = tomb /\ OneMoreRow(sp, after, row)
  <2> HIDE DEF journaled, after
  <2>1. /\ after.nodes = nodes /\ after.tomb = tomb
        /\ after.epoch = journaled.epoch /\ after.floor = journaled.floor
        /\ after.slots = journaled.slots /\ after.rev = journaled.rev
        /\ after.journal = journaled.journal
    BY <1>4, <1>5
  <2>2. OneMoreRow(sp, after, row)
    BY <2>1, JournaledRow DEF journaled, TypedSpace
  <2>3. QED  BY <2>1, <2>2
<1> HIDE DEF after, journaled, tomb
<1>9. /\ DOMAIN nodes = DOMAIN rest
      /\ \A n \in DOMAIN rest :
             /\ SameFields(rest[n], nodes[n])
             /\ nodes[n].pos = IF n \in kids THEN Rank(rest, kids, n) ELSE rest[n].pos
  <2>1. /\ DOMAIN Compacted(rest, kids) = kids
        /\ \A n \in kids : Compacted(rest, kids)[n] = Rank(rest, kids, n)
    BY DEF Compacted
  <2>2. \A n \in DOMAIN rest : rest[n] \in Nodes
    BY <1>1, <1>6
  <2> HIDE DEF kids
  <2>3. QED  BY <2>1, <2>2, PositionsSet DEF nodes
<1>10. /\ DOMAIN after.nodes = DOMAIN sp.nodes \ ids
       /\ \A n \in DOMAIN after.nodes : SameFields(sp.nodes[n], after.nodes[n])
  BY <1>6, <1>8, <1>9
<1>11. WritesRow(sp, after, row)
  <2>1. c.node \notin DOMAIN after.nodes
    BY <1>2, <1>10
  <2>2. FieldWritten(sp, after, row, "title", "titleRev")
    BY <1>3, <1>10, <2>1 DEF FieldWritten, SameFields, Fields
  <2>3. FieldWritten(sp, after, row, "url", "urlRev")
    BY <1>3, <1>10, <2>1 DEF FieldWritten, SameFields, Fields
  <2>4. FieldWritten(sp, after, row, "parent", "structRev")
    BY <1>3, <1>10, <2>1 DEF FieldWritten, SameFields, Fields
  <2>5. Numbered(rest, kids)
    <3>1. kids \subseteq Children(sp.nodes, from) /\ kids \subseteq DOMAIN rest
      BY <1>6 DEF Children
    <3>2. Numbered(sp.nodes, Children(sp.nodes, from))
      BY ChildrenNumbered
    <3> HIDE DEF kids, from
    <3>3. QED  BY <1>6, <3>1, <3>2, FS_Subset DEF Numbered
  <2>6. KeepsOrder(sp, after, row)
    <3>1. /\ \A n \in kids : Rank(rest, kids, n) \in Nat
          /\ \A m, n \in kids : rest[m].pos < rest[n].pos
                                 <=> Rank(rest, kids, m) < Rank(rest, kids, n)
      BY <2>5, RanksOrdered
    <3>2. \A n \in DOMAIN rest : n \in kids <=> rest[n].parent = from
      BY DEF Children
    <3> HIDE DEF kids, from
    <3>3. ASSUME NEW m \in DOMAIN rest, NEW n \in DOMAIN rest, rest[m].parent = rest[n].parent
          PROVE  rest[m].pos < rest[n].pos <=> after.nodes[m].pos < after.nodes[n].pos
      <4>1. CASE m \in kids
        <5>1. n \in kids
          BY <3>2, <3>3, <4>1
        <5>2. QED  BY <1>8, <1>9, <3>1, <4>1, <5>1
      <4>2. CASE m \notin kids
        <5>1. n \notin kids
          BY <3>2, <3>3, <4>2
        <5>2. QED  BY <1>8, <1>9, <4>2, <5>1
      <4>3. QED  BY <4>1, <4>2
    <3>4. QED  BY <1>3, <1>6, <1>8, <1>9, <3>3 DEF KeepsOrder, SameOrder
  <2>7. QED  BY <1>8, <2>2, <2>3, <2>4, <2>6 DEF WritesRow
<1>12. DenseSiblings(after)
  <2> SUFFICES ASSUME NEW p \in ParentRefs
               PROVE  Dense(after.nodes, Children(after.nodes, p))
    BY DEF DenseSiblings
  <2>1. \A n \in DOMAIN after.nodes : after.nodes[n].parent = sp.nodes[n].parent
    BY <1>10 DEF SameFields, Fields
  <2>2. CASE p = from
    <3>1. Children(after.nodes, p) = kids
      BY <1>6, <1>10, <2>1, <2>2 DEF Children
    <3>2. kids \subseteq Children(sp.nodes, from) /\ kids \subseteq DOMAIN rest
      BY <1>6 DEF Children
    <3>3. /\ Numbered(sp.nodes, Children(sp.nodes, from))
          /\ Distinct(sp.nodes, Children(sp.nodes, from))
      BY <1>1, ChildrenNumbered, DenseDistinct DEF DenseSiblings
    <3> HIDE DEF kids, from
    <3>4. Numbered(rest, kids) /\ Distinct(rest, kids)
      BY <1>6, <3>2, <3>3, FS_Subset DEF Numbered, Distinct
    <3>5. \A n \in kids : after.nodes[n].pos = Rank(rest, kids, n)
      BY <1>8, <1>9, <3>2
    <3>6. Dense(after.nodes, kids)
      BY <3>4, <3>5, CompactedDense
    <3>7. QED  BY <3>1, <3>6
  <2>3. CASE p # from /\ p \in ids
    <3>1. Children(after.nodes, p) = {}
      BY <1>10, <2>1, <2>3, SubtreeHolds DEF Children, ids
    <3>2. Dense(after.nodes, {})
      BY FS_EmptySet DEF Dense
    <3>3. QED  BY <3>1, <3>2
  <2>4. CASE p # from /\ p \notin ids
    <3>1. \A n \in Children(sp.nodes, p) : n \in DOMAIN sp.nodes /\ n \notin ids
      BY <1>1, <2>4, SubtreeHangs DEF Children, ids
    <3>2. Children(after.nodes, p) = Children(sp.nodes, p)
      BY <1>10, <2>1, <3>1 DEF Children
    <3>3. \A n \in Children(sp.nodes, p) : n \notin kids
      BY <1>6, <2>4 DEF Children
    <3>4. \A n \in Children(sp.nodes, p) : after.nodes[n].pos = sp.nodes[n].pos
      BY <1>6, <1>8, <1>9, <3>1, <3>3
    <3>5. QED  BY <1>1, <3>2, <3>4, DenseSame DEF DenseSiblings
  <2>5. QED  BY <2>2, <2>3, <2>4
<1>13. ASSUME TombsAgree(sp) PROVE TombsAgree(after)
  <2>1. /\ after.rev = sp.rev + 1 /\ sp.rev \in Nat
        /\ \A n \in DOMAIN sp.tomb : sp.tomb[n] \in Nat /\ sp.tomb[n] <= sp.rev
        /\ ids \cap DOMAIN sp.tomb = {}
    BY <1>1, <1>13, <1>2, <1>8 DEF OneMoreRow, TypedSpace, IsSpace, TombsAgree
  <2>2. ASSUME NEW n \in DOMAIN after.tomb
        PROVE  /\ after.tomb[n] <= after.rev
               /\ after.tomb[n] > after.floor => after.journal[after.tomb[n]].type = "delete"
    <3>1. CASE n \in ids
      BY <1>3, <1>7, <1>8, <2>1, <3>1 DEF OneMoreRow
    <3>2. CASE n \notin ids
      <4>1. n \in DOMAIN sp.tomb /\ after.tomb[n] = sp.tomb[n]
        BY <1>7, <1>8, <3>2
      <4>2. after.floor = sp.floor /\ sp.floor \in Nat
        BY <1>8 DEF OneMoreRow, TypedSpace, IsSpace
      <4>3. ASSUME sp.tomb[n] > sp.floor
            PROVE  after.journal[sp.tomb[n]].type = "delete"
        <5>1. sp.tomb[n] \in DOMAIN sp.journal \ {sp.rev + 1}
          BY <1>1, <1>13, <2>1, <4>1, <4>2, <4>3 DEF JournalSpans
        <5>2. sp.journal[sp.tomb[n]].type = "delete"
          BY <1>1, <1>13, <4>1, <4>3 DEF TombsAgree
        <5>3. QED  BY <1>8, <5>1, <5>2 DEF OneMoreRow
      <4>4. QED  BY <2>1, <4>1, <4>2, <4>3
    <3>3. QED  BY <3>1, <3>2
  <2>3. DOMAIN after.nodes \cap DOMAIN after.tomb = {}
    BY <1>1, <1>13, <1>7, <1>8, <1>10 DEF TombsAgree
  <2>4. {n \in DOMAIN after.tomb : after.tomb[n] = sp.rev + 1} = ids
    BY <1>7, <1>8, <2>1
  <2>5. ASSUME NEW r \in DOMAIN after.journal
        PROVE  LET at == after.journal[r]
               IN  /\ at.type = "create" =>
                          /\ at.node \in DOMAIN after.nodes \cup DOMAIN after.tomb
                          /\ at.node \in DOMAIN after.tomb => r <= after.tomb[at.node]
                   /\ at.type = "delete" =>
                          /\ at.node \in DOMAIN after.tomb /\ after.tomb[at.node] = r
                          /\ at.payload.count
                                 = Cardinality({n \in DOMAIN after.tomb : after.tomb[n] = r})
    <3>1. CASE r = sp.rev + 1
      <4>1. after.journal[r] = row
        BY <1>8, <3>1 DEF OneMoreRow
      <4>2. after.tomb[c.node] = r /\ c.node \in DOMAIN after.tomb
        BY <1>2, <1>7, <1>8, <3>1
      <4>3. QED  BY <1>3, <2>4, <3>1, <4>1, <4>2
    <3>2. CASE r # sp.rev + 1
      <4>1. r \in DOMAIN sp.journal /\ after.journal[r] = sp.journal[r] /\ r \in Nat /\ r <= sp.rev
        BY <1>1, <1>13, <1>8, <2>1, <2>5, <3>2 DEF OneMoreRow, JournalSpans, TypedSpace, IsSpace
      <4>2. {n \in DOMAIN after.tomb : after.tomb[n] = r} = {n \in DOMAIN sp.tomb : sp.tomb[n] = r}
        BY <1>7, <1>8, <2>1, <3>2
      <4> DEFINE at == sp.journal[r]
      <4>3. at.type = "create" =>
                /\ at.node \in DOMAIN sp.nodes \cup DOMAIN sp.tomb
                /\ at.node \in DOMAIN sp.tomb => r <= sp.tomb[at.node]
        BY <1>1, <1>13, <4>1 DEF TombsAgree
      <4>4. at.type = "delete" =>
                /\ at.node \in DOMAIN sp.tomb /\ sp.tomb[at.node] = r
                /\ at.payload.count = Cardinality({n \in DOMAIN sp.tomb : sp.tomb[n] = r})
        BY <1>1, <1>13, <4>1 DEF TombsAgree
      <4> HIDE DEF at
      <4>5. at.type = "create" =>
                /\ at.node \in DOMAIN after.nodes \cup DOMAIN after.tomb
                /\ at.node \in DOMAIN after.tomb => r <= after.tomb[at.node]
        BY <1>7, <1>8, <1>10, <2>1, <4>1, <4>3
      <4>6. at.type = "delete" => at.node \in DOMAIN after.tomb /\ after.tomb[at.node] = r
        BY <1>7, <1>8, <2>1, <4>4
      <4>7. QED  BY <4>1, <4>2, <4>4, <4>5, <4>6 DEF at
    <3>3. QED  BY <3>1, <3>2
  <2>6. QED  BY <2>2, <2>3, <2>5 DEF TombsAgree
<1>14. LiveRows(after)
  BY <1>11, <1>12, RowKeepsFields DEF LiveRows
<1>15. QED  BY <1>11, <1>13, <1>14 DEF row, after

---------------------------------------------------------------------------
(* Any one command *)

\* A command with the arguments its handler takes.
IsCommand(c) ==
    \/ /\ c.op = "create" /\ c.node \in NodeIds /\ c.type \in NodeType
       /\ c.title \in Titles \cup {None} /\ c.url \in Urls \cup {None} /\ c.parent \in ParentRefs
    \/ c.op = "update_title" /\ c.title \in Titles \cup {None}
    \/ c.op = "update_url" /\ c.url \in Urls \cup {None}
    \/ c.op = "move" /\ c.parent \in ParentRefs
    \/ c.op = "delete"

\* What a command may be asked to do with sp.
Executable(sp, c) ==
    /\ IsCommand(c) /\ CanExecute(sp, c)
    /\ c.op = "create" => c.node \notin DOMAIN sp.tomb

\* The arguments handlers take make commands.
LEMMA CommandsTyped ==
    /\ \A c \in Creations : IsCommand(c) /\ c.op = "create"
    /\ \A c \in TitleUpdates \cup URLUpdates \cup Movements \cup Deletions :
           IsCommand(c) /\ c.op # "create"
BY DEF Creations, TitleUpdates, URLUpdates, Movements, Deletions, IsCommand

\* A space whose rows agree, whatever its tombstones say.
LiveSpace(sp) == TypedSpace(sp) /\ GoodTree(sp) /\ LiveRows(sp)

GoodSpace(sp) == TypedSpace(sp) /\ GoodTree(sp) /\ GoodRows(sp)

\* The nodes a command adds, and those it buries.
Added(c) == IF c.op = "create" THEN {c.node} ELSE {}
Buried(sp, c) == IF c.op = "delete" THEN SubtreeIDs(sp.nodes, c.node) ELSE {}

\* The nodes and the tombstones after a command.
Census(sp, c, after) ==
    /\ DOMAIN after.nodes = (DOMAIN sp.nodes \ Buried(sp, c)) \cup Added(c)
    /\ DOMAIN after.tomb = DOMAIN sp.tomb \cup Buried(sp, c)

\* The nodes after a command: a create adds its own, a delete buries some.
Peopled(sp, c, after) ==
    DOMAIN after.nodes \cup DOMAIN after.tomb
        = DOMAIN sp.nodes \cup DOMAIN sp.tomb \cup (IF c.op = "create" THEN {c.node} ELSE {})

\* A command leaves a live space, with one more row for what it did; a move to the
\* place the node already has leaves the space as it was.  Its tombstones agree as well
\* if they did and no node was created that had one.
LEMMA CommandKeeps ==
    ASSUME NEW sp, LiveSpace(sp), NEW c, IsCommand(c), CanExecute(sp, c), NEW origin \in Origins
    PROVE  LET after == Execute(sp, c, origin)
           IN  /\ LiveSpace(after)
               /\ TombsAgree(sp) /\ Added(c) \cap DOMAIN sp.tomb = {} => TombsAgree(after)
               /\ Census(sp, c, after)
               /\ \/ after = sp /\ c.op = "move" /\ AlreadyInPlace(sp, c)
                  \/ WritesCommand(sp, c, origin, after)
<1> DEFINE after == Execute(sp, c, origin)
           Entombed == TombsAgree(sp) /\ Added(c) \cap DOMAIN sp.tomb = {} => TombsAgree(after)
           Kept == /\ LiveSpace(after) /\ Entombed /\ Census(sp, c, after)
                   /\ \/ after = sp /\ c.op = "move" /\ AlreadyInPlace(sp, c)
                      \/ WritesCommand(sp, c, origin, after)
<1> SUFFICES Kept
  OBVIOUS
<1>1. TypedSpace(sp) /\ GoodTree(sp) /\ LiveRows(sp)
  BY DEF LiveSpace
<1>2. CASE c.op = "create"
  <2>1. /\ c.node \in NodeIds /\ c.type \in NodeType /\ c.title \in Titles \cup {None}
        /\ c.url \in Urls \cup {None} /\ c.parent \in ParentRefs /\ CanCreate(sp, c)
    BY <1>2 DEF IsCommand, CanExecute
  <2>2. after = CreateNode(sp, c, origin) /\ Added(c) = {c.node} /\ Buried(sp, c) = {}
    BY <1>2 DEF Execute, Added, Buried
  <2>3. TypedSpace(after) /\ DOMAIN after.nodes = DOMAIN sp.nodes \cup {c.node} /\ after.tomb = sp.tomb
    BY <1>1, <2>1, <2>2, CreateNodeShape
  <2>4. GoodTree(after)
    BY <1>1, <2>1, <2>2, CreateKeepsTree
  <2>5. LiveRows(after) /\ Entombed /\ WritesCommand(sp, c, origin, after)
    BY <1>1, <1>2, <2>1, <2>2, CreateKeepsRows DEF WritesCommand
  <2> HIDE DEF after, Entombed
  <2>6. QED  BY <2>2, <2>3, <2>4, <2>5 DEF LiveSpace, Census
<1>3. CASE c.op = "update_title"
  <2>1. CanUpdateTitle(sp, c) /\ c.title \in Titles \cup {None}
    BY <1>3 DEF IsCommand, CanExecute
  <2>2. after = UpdateNodeTitle(sp, c, origin) /\ Added(c) = {} /\ Buried(sp, c) = {}
    BY <1>3 DEF Execute, Added, Buried
  <2>3. /\ TypedSpace(after) /\ DOMAIN after.nodes = DOMAIN sp.nodes
        /\ after.slots = sp.slots /\ after.tomb = sp.tomb
        /\ \A n \in DOMAIN sp.nodes : /\ after.nodes[n].parent = sp.nodes[n].parent
                                      /\ after.nodes[n].type = sp.nodes[n].type
    BY <1>1, <2>1, <2>2, UpdateTitleShape
  <2>4. LiveRows(after) /\ Entombed /\ WritesCommand(sp, c, origin, after)
    <3>1. /\ LiveRows(after) /\ (TombsAgree(sp) => TombsAgree(after))
          /\ WritesRow(sp, after, Row(c.op, c.node, [title |-> c.title], origin))
      BY <1>1, <1>3, <2>1, <2>2, UpdateTitleKeepsRows
    <3>2. DOMAIN [title |-> c.title] \cap Edited = FieldsOf(c.op)
      BY <1>3 DEF Edited, FieldsOf
    <3> HIDE DEF after
    <3>3. QED  BY <3>1, <3>2 DEF WritesCommand
  <2> HIDE DEF after, Entombed
  <2>5. GoodTree(after)
    BY <1>1, <2>3, SameTree
  <2>6. QED  BY <2>2, <2>3, <2>4, <2>5 DEF LiveSpace, Census
<1>4. CASE c.op = "update_url"
  <2>1. CanUpdateURL(sp, c) /\ c.url \in Urls \cup {None}
    BY <1>4 DEF IsCommand, CanExecute
  <2>2. after = UpdateNodeURL(sp, c, origin) /\ Added(c) = {} /\ Buried(sp, c) = {}
    BY <1>4 DEF Execute, Added, Buried
  <2>3. /\ TypedSpace(after) /\ DOMAIN after.nodes = DOMAIN sp.nodes
        /\ after.slots = sp.slots /\ after.tomb = sp.tomb
        /\ \A n \in DOMAIN sp.nodes : /\ after.nodes[n].parent = sp.nodes[n].parent
                                      /\ after.nodes[n].type = sp.nodes[n].type
    BY <1>1, <2>1, <2>2, UpdateURLShape
  <2>4. LiveRows(after) /\ Entombed /\ WritesCommand(sp, c, origin, after)
    <3>1. /\ LiveRows(after) /\ (TombsAgree(sp) => TombsAgree(after))
          /\ WritesRow(sp, after, Row(c.op, c.node, [url |-> c.url], origin))
      BY <1>1, <1>4, <2>1, <2>2, UpdateURLKeepsRows
    <3>2. DOMAIN [url |-> c.url] \cap Edited = FieldsOf(c.op)
      BY <1>4 DEF Edited, FieldsOf
    <3> HIDE DEF after
    <3>3. QED  BY <3>1, <3>2 DEF WritesCommand
  <2> HIDE DEF after, Entombed
  <2>5. GoodTree(after)
    BY <1>1, <2>3, SameTree
  <2>6. QED  BY <2>2, <2>3, <2>4, <2>5 DEF LiveSpace, Census
<1>5. CASE c.op = "move"
  <2>1. CanMove(sp, c) /\ c.parent \in ParentRefs
    BY <1>5 DEF IsCommand, CanExecute
  <2>2. after = MoveNode(sp, c, origin) /\ Added(c) = {} /\ Buried(sp, c) = {}
    BY <1>5 DEF Execute, Added, Buried
  <2>3. CASE AlreadyInPlace(sp, c)
    <3>1. after = sp
      BY <2>2, <2>3 DEF MoveNode
    <3>2. Entombed
      BY <3>1
    <3> HIDE DEF after, Entombed
    <3>3. QED  BY <1>1, <1>5, <2>2, <2>3, <3>1, <3>2 DEF Census, LiveSpace
  <2>4. CASE ~AlreadyInPlace(sp, c)
    <3>1. TypedSpace(after) /\ DOMAIN after.nodes = DOMAIN sp.nodes /\ after.tomb = sp.tomb
      BY <1>1, <2>1, <2>2, MoveNodeShape
    <3>2. GoodTree(after)
      BY <1>1, <2>1, <2>2, MoveKeepsTree
    <3>3. LiveRows(after) /\ Entombed /\ WritesCommand(sp, c, origin, after)
      <4>1. /\ LiveRows(after) /\ (TombsAgree(sp) => TombsAgree(after))
            /\ \E pos : WritesRow(sp, after, Row(c.op, c.node,
                                                 [parent |-> c.parent, position |-> pos], origin))
        BY <1>1, <1>5, <2>1, <2>2, <2>4, MoveKeepsRows
      <4>2. \A pos : DOMAIN [parent |-> c.parent, position |-> pos] \cap Edited = FieldsOf(c.op)
        BY <1>5 DEF Edited, FieldsOf
      <4> HIDE DEF after
      <4>3. QED  BY <4>1, <4>2 DEF WritesCommand
    <3> HIDE DEF after, Entombed
    <3>4. QED  BY <2>2, <3>1, <3>2, <3>3 DEF LiveSpace, Census
  <2>5. QED  BY <2>3, <2>4
<1>6. CASE c.op = "delete"
  <2>1. CanDelete(sp, c)
    BY <1>6 DEF CanExecute
  <2>2. /\ after = DeleteNode(sp, c, origin) /\ Added(c) = {}
        /\ Buried(sp, c) = SubtreeIDs(sp.nodes, c.node)
    BY <1>6 DEF Execute, Added, Buried
  <2>3. /\ TypedSpace(after) /\ DOMAIN after.nodes = DOMAIN sp.nodes \ Buried(sp, c)
        /\ DOMAIN after.tomb = DOMAIN sp.tomb \cup Buried(sp, c)
    BY <1>1, <2>1, <2>2, DeleteNodeShape
  <2>4. GoodTree(after)
    BY <1>1, <2>1, <2>2, DeleteKeepsTree
  <2>5. LiveRows(after) /\ Entombed /\ WritesCommand(sp, c, origin, after)
    <3>1. /\ LiveRows(after) /\ (TombsAgree(sp) => TombsAgree(after))
          /\ \E count : WritesRow(sp, after, Row(c.op, c.node, [count |-> count], origin))
      BY <1>1, <1>6, <2>1, <2>2, DeleteKeepsRows
    <3>2. \A count : DOMAIN [count |-> count] \cap Edited = FieldsOf(c.op)
      BY <1>6 DEF Edited, FieldsOf
    <3> HIDE DEF after
    <3>3. QED  BY <3>1, <3>2 DEF WritesCommand
  <2> HIDE DEF after, Entombed
  <2>6. QED  BY <2>2, <2>3, <2>4, <2>5 DEF LiveSpace, Census
<1>7. c.op \in {"create", "update_title", "update_url", "move", "delete"}
  BY DEF IsCommand
<1> HIDE DEF Kept
<1>8. QED  BY <1>2, <1>3, <1>4, <1>5, <1>6, <1>7

\* And a good space stays one, for a command that creates no node it has buried.
LEMMA ExecuteKeeps ==
    ASSUME NEW sp, GoodSpace(sp), NEW c, Executable(sp, c), NEW origin \in Origins
    PROVE  LET after == Execute(sp, c, origin)
           IN  /\ GoodSpace(after)
               /\ Peopled(sp, c, after)
               /\ \/ after = sp /\ c.op = "move" /\ AlreadyInPlace(sp, c)
                  \/ WritesCommand(sp, c, origin, after)
<1>1. LiveSpace(sp) /\ TombsAgree(sp) /\ IsCommand(c) /\ CanExecute(sp, c)
  BY DEF GoodSpace, GoodRows, LiveSpace, Executable
<1>2. Added(c) \cap DOMAIN sp.tomb = {}
  BY DEF Executable, Added
<1> DEFINE after == Execute(sp, c, origin)
<1>3. /\ LiveSpace(after) /\ TombsAgree(after) /\ Census(sp, c, after)
      /\ \/ after = sp /\ c.op = "move" /\ AlreadyInPlace(sp, c)
         \/ WritesCommand(sp, c, origin, after)
  BY <1>1, <1>2, CommandKeeps
<1> HIDE DEF after
<1>4. Peopled(sp, c, after)
  <2>1. Buried(sp, c) \subseteq DOMAIN sp.nodes
    BY DEF Buried, SubtreeIDs
  <2>2. QED  BY <1>3, <2>1 DEF Census, Peopled, Added
<1>5. QED  BY <1>3, <1>4 DEF GoodSpace, GoodRows, LiveSpace, after
=============================================================================
