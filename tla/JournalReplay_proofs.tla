------------------------ MODULE JournalReplay_proofs ------------------------
(***************************************************************************)
(* Theorems of the canonical executor, and of a device that follows its    *)
(* space: whatever the space has gone through, and however far behind the  *)
(* device is, the next row applies, and once it has caught up its browser, *)
(* its mirror and its replay hold what the server holds.                   *)
(***************************************************************************)
EXTENDS JournalReplay, CommandLemmas

---------------------------------------------------------------------------
(* The canonical executor: its rows stay typed, its tree stays a tree and  *)
(* its rows agree with the journal.                                        *)

\* c ran on behalf of o, and handed out the id it creates.
Ran(c, o) ==
    /\ Executable(space, c) /\ space' = Execute(space, c, o)
    /\ c.op = "create" => c.node \notin minted
    /\ minted' = minted \cup (IF c.op = "create" THEN {c.node} ELSE {})

\* Every action of the executor runs one command the lemmas know.
LEMMA CommandRan ==
    ASSUME DOMAIN space.tomb \subseteq minted, NEW o, Command(o)
    PROVE  \E c : Ran(c, o)
<1>1. ASSUME NEW c \in Creations, c.node \notin minted, Run(c, o), minted' = minted \cup {c.node}
      PROVE  Ran(c, o)
  BY <1>1, CommandsTyped DEF Ran, Run, Executable
<1>2. ASSUME NEW c \in TitleUpdates \cup URLUpdates \cup Movements \cup Deletions,
             Run(c, o), UNCHANGED minted
      PROVE  Ran(c, o)
  BY <1>2, CommandsTyped DEF Ran, Run, Executable
<1>3. QED
  BY <1>1, <1>2 DEF Command, Create, UpdateTitle, UpdateURL, Move, Delete

\* Rows stay in agreement only in a tree whose ids are never handed out twice, and
\* ranks and counts are numbers only of finitely many nodes.
RowsInv ==
    /\ GoodSpace(space)
    /\ minted \subseteq NodeIds
    /\ DOMAIN space.nodes \cup DOMAIN space.tomb \subseteq minted

\* The empty space is well typed, a tree, and has no rows to disagree.
LEMMA InitRowsInv == Init => RowsInv
<1> SUFFICES ASSUME Init PROVE RowsInv
  OBVIOUS
<1>1. /\ space = EmptySpace /\ minted = {}
      /\ space.nodes = [n \in {} |-> n] /\ space.tomb = [n \in {} |-> n]
      /\ space.journal = [r \in {} |-> r] /\ space.rev = 0 /\ space.floor = 0
  BY DEF Init, EmptySpace
<1>2. DOMAIN space.nodes = {} /\ DOMAIN space.tomb = {} /\ DOMAIN space.journal = {}
  BY <1>1
<1>3. TypedSpace(space)
  BY <1>1, <1>2, FS_EmptySet DEF TypedSpace, IsSpace, EmptySpace
<1>4. GoodTree(space)
  BY <1>2 DEF GoodTree, Acyclic
<1>5. JournalSpans(space)
  BY <1>1, <1>2 DEF JournalSpans
<1>6. DenseSiblings(space)
  BY <1>2, FS_EmptySet DEF DenseSiblings, Dense, Children
<1>7. FieldsAgree(space) /\ TombsAgree(space)
  BY <1>2 DEF FieldsAgree, FieldJournaled, FieldLatest, TombsAgree
<1>8. QED  BY <1>1, <1>2, <1>3, <1>4, <1>5, <1>6, <1>7 DEF RowsInv, GoodSpace, GoodRows, LiveRows

\* Every command keeps it: the validation each one makes is enough.
LEMMA NextRowsInv == RowsInv /\ [Next]_treeVars => RowsInv'
<1> SUFFICES ASSUME RowsInv, [Next]_treeVars PROVE RowsInv'
  OBVIOUS
<1>1. CASE Next
  <2>1. PICK o \in Origins : \E c : Ran(c, o)
    BY <1>1, CommandRan DEF Next, RowsInv
  <2>2. PICK c : Ran(c, o)
    BY <2>1
  <2>3. GoodSpace(space') /\ Peopled(space, c, space')
    BY <2>2, ExecuteKeeps DEF Ran, RowsInv
  <2>4. c.op = "create" => c.node \in NodeIds
    BY <2>2 DEF Ran, Executable, IsCommand
  <2>5. QED  BY <2>2, <2>3, <2>4 DEF RowsInv, Ran, Peopled
<1>2. CASE UNCHANGED treeVars
  BY <1>2 DEF RowsInv, treeVars
<1>3. QED  BY <1>1, <1>2

\* It holds of every reachable space.
LEMMA RowsInvAlways == Spec => []RowsInv
BY InitRowsInv, NextRowsInv, PTL DEF Spec

\* Every row of the tables keeps its type, and no live or buried node has an id
\* that was never handed out (canonical/executor.go, every command).
THEOREM TypeCorrect == Spec => []TypeOK
<1>1. RowsInv => TypeOK
  BY DEF RowsInv, GoodSpace, TypedSpace, TypeOK
<1>2. QED  BY <1>1, RowsInvAlways, PTL

\* Whatever sequence of creates, moves and subtree deletes runs, every node hangs
\* from a live folder or an existing root slot and no folder is below itself: the
\* cycle check of moveNode and the subtree delete are enough for trees of any size
\* (canonical/executor.go, ErrTreeCycle; doc 22 C.2, C.3).
THEOREM TreeStaysATree == Spec => []TreeWellFormed
<1>1. RowsInv => TreeWellFormed
  BY DEF RowsInv, GoodSpace, GoodTree, TreeWellFormed
<1>2. QED  BY <1>1, RowsInvAlways, PTL

\* The property of the runs is what the lemmas call agreement.
LEMMA RowsInvConsistent == RowsInv => RowsConsistent
<1> SUFFICES ASSUME RowsInv PROVE RowsConsistent
  OBVIOUS
<1>1. SiblingsDense
  BY DEF RowsInv, GoodSpace, GoodRows, LiveRows, DenseSiblings, Dense, SiblingsDense
<1>2. FieldRevisionsJournaled
  BY DEF RowsInv, GoodSpace, GoodRows, LiveRows, FieldsAgree, FieldJournaled, FieldRevisionsJournaled
<1>3. FieldRevisionsLatest
  BY DEF RowsInv, GoodSpace, GoodRows, LiveRows, FieldsAgree, FieldLatest, FieldRevisionsLatest
<1>4. TombstonesExact
  BY DEF RowsInv, GoodSpace, GoodRows, LiveRows, TombsAgree, TombstonesExact
<1>5. QED  BY <1>1, <1>2, <1>3, <1>4 DEF RowsConsistent

\* Whatever commands ran before, siblings are numbered without gap or tie, every field
\* revision names the last row that wrote the field and that row holds its value, and
\* the tombstones are those of the deletes: what conflict decisions and replays read is
\* right for trees and journals of any size (canonical/executor.go:98-481).
THEOREM RowsAgree == Spec => []RowsConsistent
BY RowsInvAlways, RowsInvConsistent, PTL

---------------------------------------------------------------------------
(* The browser's lists of siblings *)

Places == NodeIds \cup Locals

\* A list that shows each of its members once.
Kids(kids) == kids \in Seq(Places) /\ IsInjective(kids)

\* A sibling that comes off the list leaves the others in their order.
LEMMA RemovedKids ==
    ASSUME NEW kids, Kids(kids), NEW n
    PROVE  LET after == Removed(kids, n)
           IN  /\ Kids(after) /\ Range(after) = Range(kids) \ {n}
               /\ \A a, b : Before(after, a, b) <=> Before(kids, a, b) /\ a # n /\ b # n
<1> DEFINE after == Removed(kids, n)
<1> SUFFICES /\ Kids(after) /\ Range(after) = Range(kids) \ {n}
             /\ \A a, b : Before(after, a, b) <=> Before(kids, a, b) /\ a # n /\ b # n
  OBVIOUS
<1>1. CASE n \notin Range(kids)
  <2>1. after = kids
    BY <1>1 DEF Removed
  <2>2. \A a, b : Before(kids, a, b) => a \in Range(kids) /\ b \in Range(kids)
    BY DEF Before, Range
  <2>3. QED  BY <1>1, <2>1, <2>2
<1>2. CASE n \in Range(kids)
  <2>1. PICK i \in DOMAIN kids : kids[i] = n /\ after = RemoveAt(kids, i)
    BY <1>2 DEF Removed, Range
  <2>2. /\ after \in Seq(Places) /\ Len(after) = Len(kids) - 1
        /\ \A j \in 1 .. Len(after) : after[j] = IF j < i THEN kids[j] ELSE kids[j + 1]
    <3>1. i \in 1 .. Len(kids) /\ kids \in Seq(Places) /\ Len(kids) \in Nat
      BY <2>1 DEF Kids
    <3> DEFINE left == SubSeq(kids, 1, i - 1)
               right == SubSeq(kids, i + 1, Len(kids))
    <3>2. /\ left \in Seq(Places) /\ Len(left) = i - 1
          /\ \A j \in 1 .. i - 1 : left[j] = kids[j]
      BY <3>1
    <3>3. /\ right \in Seq(Places) /\ Len(right) = Len(kids) - i
          /\ \A j \in 1 .. Len(kids) - i : right[j] = kids[j + i]
      BY <3>1
    <3>4. after = left \o right
      BY <2>1 DEF RemoveAt
    <3> HIDE DEF left, right, after
    <3>5. /\ after \in Seq(Places) /\ Len(after) = Len(kids) - 1
          /\ \A j \in 1 .. Len(after) : after[j] = IF j <= Len(left) THEN left[j]
                                                    ELSE right[j - Len(left)]
      BY <3>1, <3>2, <3>3, <3>4
    <3>6. ASSUME NEW j \in 1 .. Len(after)
          PROVE  after[j] = IF j < i THEN kids[j] ELSE kids[j + 1]
      <4>1. CASE j < i
        BY <3>1, <3>2, <3>5, <4>1
      <4>2. CASE j >= i
        <5>1. j - (i - 1) \in 1 .. Len(kids) - i /\ (j - (i - 1)) + i = j + 1 /\ ~(j <= i - 1)
          BY <3>1, <3>5, <4>2
        <5>2. right[j - (i - 1)] = kids[j + 1]
          BY <3>3, <5>1
        <5>3. after[j] = right[j - (i - 1)]
          BY <3>2, <3>5, <5>1
        <5>4. QED  BY <3>1, <4>2, <5>2, <5>3
      <4>3. QED  BY <3>1, <4>1, <4>2
    <3>7. QED  BY <3>5, <3>6
  <2> HIDE DEF after
  <2>3. DOMAIN kids = 1 .. Len(kids) /\ DOMAIN after = 1 .. Len(after) /\ Len(kids) \in Nat
    BY <2>2 DEF Kids
  <2>4. \A j, k \in DOMAIN kids : kids[j] = kids[k] => j = k
    BY DEF Kids, IsInjective
  <2> DEFINE old(x) == IF x < i THEN x ELSE x + 1
  <2>5. IsInjective(after)
    <3>1. \A j \in DOMAIN after : old(j) \in DOMAIN kids /\ after[j] = kids[old(j)]
      BY <2>1, <2>2, <2>3
    <3>2. \A j, k \in DOMAIN after : old(j) = old(k) => j = k
      BY <2>1, <2>3
    <3> HIDE DEF old
    <3>3. \A j, k \in DOMAIN after : after[j] = after[k] => j = k
      BY <2>4, <3>1, <3>2
    <3>4. QED  BY <3>3 DEF IsInjective
  <2>6. \A j \in DOMAIN kids : j # i => \E k \in DOMAIN after : after[k] = kids[j]
    <3>1. ASSUME NEW j \in DOMAIN kids, j # i
          PROVE  \E k \in DOMAIN after : after[k] = kids[j]
      <4>1. CASE j < i
        BY <2>1, <2>2, <2>3, <3>1, <4>1
      <4>2. CASE j > i
        <5>1. j - 1 \in DOMAIN after /\ after[j - 1] = kids[j]
          BY <2>1, <2>2, <2>3, <3>1, <4>2
        <5>2. QED  BY <5>1
      <4>3. QED  BY <2>1, <2>3, <3>1, <4>1, <4>2
    <3>2. QED  BY <3>1
  <2>7. Range(after) = Range(kids) \ {n}
    <3>1. \A k \in DOMAIN after : \E j \in DOMAIN kids : j # i /\ after[k] = kids[j]
      BY <2>1, <2>2, <2>3
    <3>2. QED  BY <2>1, <2>3, <2>4, <2>6, <3>1 DEF Range
  <2>8. ASSUME NEW a, NEW b, Before(after, a, b)
        PROVE  Before(kids, a, b) /\ a # n /\ b # n
    <3>1. PICK j, k \in DOMAIN after : j < k /\ after[j] = a /\ after[k] = b
      BY <2>8 DEF Before
    <3>2. /\ old(j) \in DOMAIN kids /\ old(k) \in DOMAIN kids /\ old(j) < old(k)
          /\ kids[old(j)] = a /\ kids[old(k)] = b /\ old(j) # i /\ old(k) # i
      BY <2>1, <2>2, <2>3, <3>1
    <3>3. QED  BY <2>1, <2>4, <3>2 DEF Before
  <2>9. ASSUME NEW a, NEW b, Before(kids, a, b), a # n, b # n
        PROVE  Before(after, a, b)
    <3>1. PICK j, k \in DOMAIN kids : j < k /\ kids[j] = a /\ kids[k] = b
      BY <2>9 DEF Before
    <3> DEFINE new(x) == IF x < i THEN x ELSE x - 1
    <3>2. j # i /\ k # i
      BY <2>1, <2>9, <3>1
    <3>3. /\ new(j) \in DOMAIN after /\ new(k) \in DOMAIN after /\ new(j) < new(k)
          /\ after[new(j)] = a /\ after[new(k)] = b
      BY <2>1, <2>2, <2>3, <3>1, <3>2
    <3>4. QED  BY <3>3 DEF Before
  <2>10. QED  BY <2>2, <2>5, <2>7, <2>8, <2>9 DEF Kids
<1>3. QED  BY <1>1, <1>2

\* One that is put at i comes after those before i and before the others.
LEMMA InsertedKids ==
    ASSUME NEW kids, Kids(kids), NEW i \in 1 .. Len(kids) + 1, NEW n \in Places,
           n \notin Range(kids)
    PROVE  LET after == InsertAt(kids, i, n)
           IN  /\ Kids(after) /\ Range(after) = Range(kids) \cup {n}
               /\ \A a, b : a # n /\ b # n => (Before(after, a, b) <=> Before(kids, a, b))
               /\ \A a \in Range(kids) :
                      /\ Before(after, a, n) <=> \E j \in 1 .. i - 1 : kids[j] = a
                      /\ Before(after, n, a) <=> \E j \in i .. Len(kids) : kids[j] = a
               /\ ~Before(after, n, n)
<1> DEFINE after == InsertAt(kids, i, n)
<1> SUFFICES /\ Kids(after) /\ Range(after) = Range(kids) \cup {n}
             /\ \A a, b : a # n /\ b # n => (Before(after, a, b) <=> Before(kids, a, b))
             /\ \A a \in Range(kids) :
                    /\ Before(after, a, n) <=> \E j \in 1 .. i - 1 : kids[j] = a
                    /\ Before(after, n, a) <=> \E j \in i .. Len(kids) : kids[j] = a
             /\ ~Before(after, n, n)
  OBVIOUS
<1>1. /\ after \in Seq(Places) /\ Len(after) = Len(kids) + 1
      /\ \A j \in 1 .. Len(after) : after[j] = IF j < i THEN kids[j]
                                               ELSE IF j = i THEN n ELSE kids[j - 1]
  BY DEF Kids, InsertAt
<1> HIDE DEF after
<1>2. DOMAIN kids = 1 .. Len(kids) /\ DOMAIN after = 1 .. Len(after) /\ Len(kids) \in Nat
  BY <1>1 DEF Kids
<1>3. \A j, k \in DOMAIN kids : kids[j] = kids[k] => j = k
  BY DEF Kids, IsInjective
<1>4. \A j \in DOMAIN kids : kids[j] # n
  BY DEF Range
<1> DEFINE new(j) == IF j < i THEN j ELSE j + 1
<1>6. \A j \in DOMAIN kids : new(j) \in DOMAIN after /\ after[new(j)] = kids[j]
  BY <1>1, <1>2
<1>7. i \in DOMAIN after /\ after[i] = n
  BY <1>1, <1>2
<1>8. \A k \in DOMAIN after : k # i => \E j \in DOMAIN kids : k = new(j) /\ after[k] = kids[j]
  <2>1. ASSUME NEW k \in DOMAIN after, k # i
        PROVE  \E j \in DOMAIN kids : k = new(j) /\ after[k] = kids[j]
    <3>1. CASE k < i
      BY <1>1, <1>2, <2>1, <3>1
    <3>2. CASE k > i
      <4>1. k - 1 \in DOMAIN kids /\ k = new(k - 1) /\ after[k] = kids[k - 1]
        BY <1>1, <1>2, <2>1, <3>2
      <4>2. QED  BY <4>1
    <3>3. QED  BY <1>2, <2>1, <3>1, <3>2
  <2>2. QED  BY <2>1
<1>5. IsInjective(after)
  <2>1. \A j, k \in DOMAIN after : after[j] = after[k] => j = k
    <3>1. ASSUME NEW j \in DOMAIN after, NEW k \in DOMAIN after, after[j] = after[k]
          PROVE  j = k
      <4>1. CASE j = i \/ k = i
        BY <1>4, <1>7, <1>8, <3>1, <4>1
      <4>2. CASE j # i /\ k # i
        BY <1>3, <1>8, <3>1, <4>2
      <4>3. QED  BY <4>1, <4>2
    <3>2. QED  BY <3>1
  <2>2. QED  BY <2>1 DEF IsInjective
<1>9. Range(after) = Range(kids) \cup {n}
  BY <1>6, <1>7, <1>8 DEF Range
<1>10. \A j, k \in DOMAIN kids : j < k <=> new(j) < new(k)
  BY <1>2
<1>11. \A j \in DOMAIN kids : /\ new(j) < i <=> j \in 1 .. i - 1
                              /\ new(j) > i <=> j \in i .. Len(kids)
  BY <1>2
<1> HIDE DEF new
<1>12. ASSUME NEW a, NEW b, a # n, b # n
       PROVE  Before(after, a, b) <=> Before(kids, a, b)
  BY <1>6, <1>7, <1>8, <1>10, <1>12 DEF Before
<1>13. ASSUME NEW a \in Range(kids)
       PROVE  /\ Before(after, a, n) <=> \E j \in 1 .. i - 1 : kids[j] = a
              /\ Before(after, n, a) <=> \E j \in i .. Len(kids) : kids[j] = a
  <2>1. PICK k \in DOMAIN kids : kids[k] = a
    BY DEF Range
  <2>2. \A j \in DOMAIN after : /\ after[j] = a <=> j = new(k)
                                /\ after[j] = n <=> j = i
    BY <1>2, <1>3, <1>4, <1>5, <1>6, <1>7, <2>1 DEF IsInjective
  <2>3. Before(after, a, n) <=> new(k) < i
    BY <1>6, <1>7, <2>2 DEF Before
  <2>4. Before(after, n, a) <=> i < new(k)
    BY <1>6, <1>7, <2>2 DEF Before
  <2>5. \A j \in DOMAIN kids : kids[j] = a <=> j = k
    BY <1>3, <2>1
  <2>6. \A S \in {1 .. i - 1, i .. Len(kids)} : (\E j \in S : kids[j] = a) <=> k \in S
    BY <1>2, <2>1, <2>5
  <2>7. i \in DOMAIN after /\ new(k) \in DOMAIN after
    BY <1>6, <1>7
  <2>8. /\ new(k) < i <=> k \in 1 .. i - 1
        /\ i < new(k) <=> k \in i .. Len(kids)
    BY <1>2, <1>11, <2>7
  <2>9. QED  BY <2>3, <2>4, <2>6, <2>8
<1>14. ~Before(after, n, n)
  BY <1>2, <1>5 DEF Before, IsInjective
<1>15. QED  BY <1>1, <1>5, <1>9, <1>12, <1>13, <1>14 DEF Kids

---------------------------------------------------------------------------
(* What a row says of the tree *)

\* The fields the extension copies.
Like(x, y) == x.title = y.title /\ x.url = y.url /\ x.parent = y.parent

\* The nodes of a good space, as far as the device can tell.
GoodNodes(t) ==
    /\ DOMAIN t \subseteq NodeIds /\ IsFiniteSet(DOMAIN t)
    /\ \A n \in DOMAIN t : /\ t[n].parent \in RootKeys \cup DOMAIN t /\ t[n].parent # n
                           /\ t[n].pos \in Nat
    /\ \A p \in ParentRefs : Dense(t, Children(t, p))

\* The node of the row in u, where the row says so, and in t otherwise.
Rewritten(t, row, u, f) ==
    u[row.node][f] = IF f \in DOMAIN row.payload THEN row.payload[f] ELSE t[row.node][f]

\* The nodes of u are those of t, with the row's or without its subtree.
Repeopled(t, row, u) ==
    /\ row.node \in DOMAIN t <=> row.type # "create"
    /\ DOMAIN u = CASE row.type = "create" -> DOMAIN t \cup {row.node}
                    [] row.type = "delete" -> DOMAIN t \ SubtreeIDs(t, row.node)
                    [] OTHER               -> DOMAIN t

\* The row turns the tree t into u.
RowStep(t, row, u) ==
    /\ GoodNodes(u)
    /\ row.type \in {"create", "update_title", "update_url", "move", "delete"}
    /\ DOMAIN row.payload \cap Edited = FieldsOf(row.type)
    /\ SameOrder(t, u, PlacedBy(row))
    /\ row.type \in {"create", "move"} => row.payload.position = u[row.node].pos
    /\ \A n \in DOMAIN u \ {row.node} : n \in DOMAIN t /\ Like(u[n], t[n])
    /\ Repeopled(t, row, u)
    /\ row.type # "delete" => \A f \in Edited : Rewritten(t, row, u, f)

LEMMA GoodSpaceNodes ==
    ASSUME NEW sp, GoodSpace(sp)
    PROVE  GoodNodes(sp.nodes)
<1>1. /\ DOMAIN sp.nodes \subseteq NodeIds /\ IsFiniteSet(DOMAIN sp.nodes)
      /\ \A p \in ParentRefs : Dense(sp.nodes, Children(sp.nodes, p))
      /\ \A n \in DOMAIN sp.nodes : sp.nodes[n].pos \in Nat
  BY DEF GoodSpace, TypedSpace, IsSpace, GoodRows, LiveRows, DenseSiblings, Nodes
<1>2. ASSUME NEW n \in DOMAIN sp.nodes
      PROVE  sp.nodes[n].parent \in RootKeys \cup DOMAIN sp.nodes /\ sp.nodes[n].parent # n
  <2>1. ValidParent(sp, sp.nodes[n].parent) /\ Acyclic(sp.nodes) /\ sp.slots \subseteq RootKeys
    BY DEF GoodSpace, GoodTree, TypedSpace, IsSpace
  <2>2. {n} \in SUBSET DOMAIN sp.nodes /\ {n} # {}
    OBVIOUS
  <2>3. sp.nodes[n].parent \notin {n}
    BY <2>1, <2>2 DEF Acyclic
  <2>4. QED  BY <2>1, <2>3 DEF ValidParent
<1>3. QED  BY <1>1, <1>2 DEF GoodNodes

\* The row a command writes says what the command did to the tree.
LEMMA CommandStep ==
    ASSUME NEW sp, GoodSpace(sp), NEW c, Executable(sp, c), NEW origin \in Origins,
           NEW after, after = Execute(sp, c, origin)
    PROVE  \/ after = sp
           \/ \E row : OneMoreRow(sp, after, row) /\ RowStep(sp.nodes, row, after.nodes)
<1>1. CASE WritesCommand(sp, c, origin, after)
  <2>1. PICK payload : /\ WritesRow(sp, after, Row(c.op, c.node, payload, origin))
                       /\ DOMAIN payload \cap Edited = FieldsOf(c.op)
    BY <1>1 DEF WritesCommand
  <2> DEFINE row == Row(c.op, c.node, payload, origin)
  <2>2. row.type = c.op /\ row.node = c.node /\ row.payload = payload
    BY DEF Row
  <2>3. c.op \in {"create", "update_title", "update_url", "move", "delete"}
    BY DEF Executable, IsCommand
  <2>4. GoodSpace(after) /\ TypedSpace(sp)
    BY ExecuteKeeps DEF GoodSpace
  <2>5. /\ OneMoreRow(sp, after, row) /\ KeepsOrder(sp, after, row)
        /\ FieldWritten(sp, after, row, "title", "titleRev")
        /\ FieldWritten(sp, after, row, "url", "urlRev")
        /\ FieldWritten(sp, after, row, "parent", "structRev")
    BY <2>1 DEF WritesRow
  <2>6. Repeopled(sp.nodes, row, after.nodes)
    <3>1. CASE c.op = "create"
      <4>1. /\ CanCreate(sp, c) /\ c.node \in NodeIds /\ c.type \in NodeType
            /\ c.title \in Titles \cup {None} /\ c.url \in Urls \cup {None} /\ c.parent \in ParentRefs
            /\ after = CreateNode(sp, c, origin)
        BY <3>1 DEF Executable, IsCommand, CanExecute, Execute
      <4>2. DOMAIN after.nodes = DOMAIN sp.nodes \cup {c.node} /\ c.node \notin DOMAIN sp.nodes
        BY <2>4, <4>1, CreateNodeShape DEF CanCreate
      <4>3. QED  BY <2>2, <3>1, <4>2 DEF Repeopled
    <3>2. CASE c.op = "delete"
      <4>1. CanDelete(sp, c) /\ after = DeleteNode(sp, c, origin)
        BY <3>2 DEF Executable, CanExecute, Execute
      <4>2. /\ DOMAIN after.nodes = DOMAIN sp.nodes \ SubtreeIDs(sp.nodes, c.node)
            /\ c.node \in DOMAIN sp.nodes
        BY <2>4, <4>1, DeleteNodeShape DEF CanDelete
      <4>3. QED  BY <2>2, <3>2, <4>2 DEF Repeopled
    <3>3. CASE c.op = "update_title"
      <4>1. /\ CanUpdateTitle(sp, c) /\ after = UpdateNodeTitle(sp, c, origin)
            /\ c.title \in Titles \cup {None}
        BY <3>3 DEF Executable, IsCommand, CanExecute, Execute
      <4>2. DOMAIN after.nodes = DOMAIN sp.nodes /\ c.node \in DOMAIN sp.nodes
        BY <2>4, <4>1, UpdateTitleShape DEF CanUpdateTitle
      <4>3. QED  BY <2>2, <3>3, <4>2 DEF Repeopled
    <3>4. CASE c.op = "update_url"
      <4>1. /\ CanUpdateURL(sp, c) /\ after = UpdateNodeURL(sp, c, origin)
            /\ c.url \in Urls \cup {None}
        BY <3>4 DEF Executable, IsCommand, CanExecute, Execute
      <4>2. DOMAIN after.nodes = DOMAIN sp.nodes /\ c.node \in DOMAIN sp.nodes
        BY <2>4, <4>1, UpdateURLShape DEF CanUpdateURL
      <4>3. QED  BY <2>2, <3>4, <4>2 DEF Repeopled
    <3>5. CASE c.op = "move"
      <4>1. CanMove(sp, c) /\ after = MoveNode(sp, c, origin) /\ c.parent \in ParentRefs
        BY <3>5 DEF Executable, IsCommand, CanExecute, Execute
      <4>2. DOMAIN after.nodes = DOMAIN sp.nodes /\ c.node \in DOMAIN sp.nodes
        BY <2>4, <4>1, MoveNodeShape DEF CanMove
      <4>3. QED  BY <2>2, <3>5, <4>2 DEF Repeopled
    <3> HIDE DEF row
    <3>6. QED  BY <2>3, <3>1, <3>2, <3>3, <3>4, <3>5
  <2> HIDE DEF row
  <2>7. row.type # "delete" => row.node \in DOMAIN after.nodes
    BY <2>2, <2>3, <2>6 DEF Repeopled
  <2>8. row.type # "delete" => \A f \in Edited : Rewritten(sp.nodes, row, after.nodes, f)
    BY <2>5, <2>7 DEF FieldWritten, Rewritten, Edited
  <2>9. \A n \in DOMAIN after.nodes \ {row.node} :
            n \in DOMAIN sp.nodes /\ Like(after.nodes[n], sp.nodes[n])
    BY <2>5 DEF FieldWritten, Like
  <2>10. GoodNodes(after.nodes)
    BY <2>4, GoodSpaceNodes
  <2>11. RowStep(sp.nodes, row, after.nodes)
    BY <2>1, <2>2, <2>3, <2>5, <2>6, <2>8, <2>9, <2>10 DEF RowStep, KeepsOrder
  <2>12. QED  BY <2>5, <2>11
<1>2. QED  BY <1>1, ExecuteKeeps

---------------------------------------------------------------------------
(* What the device makes of a row *)

MirrorColumns == {"title", "url", "parent", "pos"}

\* One row per node of t, with the title, the URL and the parent of the node.
MirrorOf(mirror, t) ==
    /\ DOMAIN mirror = DOMAIN t
    /\ \A n \in DOMAIN t : DOMAIN mirror[n] = MirrorColumns /\ Like(mirror[n], t[n])

\* The browser shows each node of t once, below its parent.
Shows(browser, t) ==
    /\ DOMAIN browser = ParentRefs
    /\ \A p \in ParentRefs : /\ Kids(browser[p])
                             /\ Range(browser[p]) \cap NodeIds = Children(t, p)

Copied(rep, t) ==
    /\ DOMAIN rep = {"browser", "mirror"}
    /\ MirrorOf(rep.mirror, t) /\ Shows(rep.browser, t)

\* Positions are written and nothing else.
LEMMA PositionsWritten ==
    ASSUME NEW mirror, NEW t, MirrorOf(mirror, t), NEW kids
    PROVE  LET after == WriteMirrorPositions(mirror, kids)
           IN  /\ MirrorOf(after, t)
               /\ \A n \in DOMAIN t :
                      after[n].pos = IF n \in Range(kids)
                                     THEN Cardinality({m \in DOMAIN t : Before(kids, m, n)})
                                     ELSE mirror[n].pos
<1> DEFINE after == WriteMirrorPositions(mirror, kids)
           place(n) == Cardinality({m \in DOMAIN mirror : Before(kids, m, n)})
<1>1. DOMAIN after = DOMAIN t /\ DOMAIN mirror = DOMAIN t
  BY DEF WriteMirrorPositions, MirrorOf
<1>2. ASSUME NEW n \in DOMAIN t
      PROVE  /\ DOMAIN after[n] = MirrorColumns /\ Like(after[n], t[n])
             /\ after[n].pos = IF n \in Range(kids) THEN place(n) ELSE mirror[n].pos
  <2>1. after[n] = IF n \in Range(kids) THEN [mirror[n] EXCEPT !.pos = place(n)] ELSE mirror[n]
    BY <1>1 DEF WriteMirrorPositions
  <2>2. DOMAIN mirror[n] = MirrorColumns /\ Like(mirror[n], t[n])
    BY DEF MirrorOf
  <2> HIDE DEF after, place
  <2>3. QED  BY <2>1, <2>2 DEF MirrorColumns, Like
<1> HIDE DEF after
<1>3. MirrorOf(after, t)
  BY <1>1, <1>2 DEF MirrorOf
<1>4. QED  BY <1>1, <1>2, <1>3 DEF after

\* The slot is one of the list without the placed node.
LEMMA IndexInList ==
    ASSUME NEW rep, NEW p, NEW position, NEW placed, Kids(rep.browser[p])
    PROVE  BrowserIndexForPosition(rep, p, position, placed)
               \in 0 .. Len(Removed(rep.browser[p], placed))
<1> DEFINE kids   == Removed(rep.browser[p], placed)
           mapped == Range(kids) \cap DOMAIN rep.mirror
           target == {n \in mapped : Rank(rep.mirror, mapped, n) = position}
           index  == BrowserIndexForPosition(rep, p, position, placed)
<1>1. index = IF target = {} THEN Len(kids)
              ELSE CHOOSE i \in 0 .. Len(kids) - 1 : kids[i + 1] \in target
  BY DEF BrowserIndexForPosition
<1>2. Kids(kids)
  BY RemovedKids
<1>3. target \subseteq Range(kids)
  OBVIOUS
<1> HIDE DEF kids, target, index
<1>4. Len(kids) \in Nat /\ DOMAIN kids = 1 .. Len(kids)
  BY <1>2 DEF Kids
<1>5. CASE target = {}
  BY <1>1, <1>4, <1>5 DEF kids, index
<1>6. CASE target # {}
  <2>1. PICK j \in DOMAIN kids : kids[j] \in target
    BY <1>3, <1>6 DEF Range
  <2>2. j - 1 \in 0 .. Len(kids) - 1 /\ kids[(j - 1) + 1] \in target
    BY <1>4, <2>1
  <2>3. index \in 0 .. Len(kids) - 1
    BY <1>1, <1>6, <2>2
  <2>4. QED  BY <1>4, <2>3 DEF kids, index
<1>7. QED  BY <1>5, <1>6

\* A node that is in no list is removed from none.
LEMMA NothingRemoved ==
    ASSUME NEW kids, NEW n, n \notin Range(kids)
    PROVE  Removed(kids, n) = kids
BY DEF Removed

\* The list of p with n put where its position says.
PutInPlace(rep, p, position, n) ==
    InsertAt(Removed(rep.browser[p], n), BrowserIndexForPosition(rep, p, position, n) + 1, n)

LEMMA PutKids ==
    ASSUME NEW rep, NEW p, NEW position, NEW n \in Places, Kids(rep.browser[p])
    PROVE  /\ Kids(PutInPlace(rep, p, position, n))
           /\ Range(PutInPlace(rep, p, position, n)) = Range(rep.browser[p]) \cup {n}
<1> DEFINE kids == Removed(rep.browser[p], n)
           i == BrowserIndexForPosition(rep, p, position, n) + 1
<1>1. Kids(kids) /\ Range(kids) = Range(rep.browser[p]) \ {n}
  BY RemovedKids
<1>2. i \in 1 .. Len(kids) + 1
  <2>1. Len(kids) \in Nat
    BY <1>1 DEF Kids
  <2>2. QED  BY <2>1, IndexInList
<1>3. PutInPlace(rep, p, position, n) = InsertAt(kids, i, n)
  BY DEF PutInPlace
<1> HIDE DEF kids, i
<1>4. Kids(InsertAt(kids, i, n)) /\ Range(InsertAt(kids, i, n)) = Range(kids) \cup {n}
  BY <1>1, <1>2, InsertedKids
<1>5. QED  BY <1>1, <1>3, <1>4

\* A created node gets its row, and one place below its parent.
LEMMA CreateCopied ==
    ASSUME NEW rep, NEW t, Copied(rep, t), NEW row, NEW u, RowStep(t, row, u),
           row.type = "create"
    PROVE  LET n == row.node  p == row.payload.parent
               after == ApplyCreate(rep, n, row.payload)
           IN  /\ Copied(after, u) /\ n \in NodeIds \ DOMAIN t /\ p = u[n].parent
               /\ p \in RootKeys \cup DOMAIN t
               /\ after.browser = [rep.browser EXCEPT
                                       ![p] = PutInPlace(rep, p, row.payload.position, n)]
               /\ after.mirror = WriteMirrorPositions(CreatedRow(rep.mirror, n, row.payload),
                                                      after.browser[p])
               /\ MirrorOf(CreatedRow(rep.mirror, n, row.payload), u)
               /\ \A m \in DOMAIN t :
                      CreatedRow(rep.mirror, n, row.payload)[m].pos = rep.mirror[m].pos
               /\ Children(u, p) = Children(t, p) \cup {n}
               /\ \A q \in ParentRefs \ {p} : Children(u, q) = Children(t, q)
<1> DEFINE n == row.node
           p == row.payload.parent
           kids == PutInPlace(rep, p, row.payload.position, n)
           made == CreatedRow(rep.mirror, n, row.payload)
           after == ApplyCreate(rep, n, row.payload)
<1> SUFFICES /\ Copied(after, u) /\ n \in NodeIds \ DOMAIN t /\ p = u[n].parent
             /\ p \in RootKeys \cup DOMAIN t
             /\ after.browser = [rep.browser EXCEPT ![p] = kids]
             /\ after.mirror = WriteMirrorPositions(made, after.browser[p])
             /\ MirrorOf(made, u) /\ \A m \in DOMAIN t : made[m].pos = rep.mirror[m].pos
             /\ Children(u, p) = Children(t, p) \cup {n}
             /\ \A q \in ParentRefs \ {p} : Children(u, q) = Children(t, q)
  OBVIOUS
<1>1. /\ n \notin DOMAIN t /\ DOMAIN u = DOMAIN t \cup {n} /\ DOMAIN u \subseteq NodeIds
      /\ DOMAIN rep.mirror = DOMAIN t /\ DOMAIN rep.browser = ParentRefs
  BY DEF RowStep, Repeopled, GoodNodes, Copied, MirrorOf, Shows
<1>2. /\ u[n].title = row.payload.title /\ u[n].url = row.payload.url
      /\ u[n].parent = row.payload.parent
  <2>1. DOMAIN row.payload \cap Edited = Edited
    BY DEF RowStep, FieldsOf
  <2>2. \A f \in Edited : u[n][f] = row.payload[f]
    BY <2>1 DEF RowStep, Rewritten
  <2>3. QED  BY <2>2 DEF Edited
<1>3. p \in RootKeys \cup DOMAIN t /\ p \in ParentRefs
  BY <1>1, <1>2 DEF RowStep, GoodNodes, ParentRefs
<1>4. \A q \in ParentRefs : n \notin Range(rep.browser[q]) /\ Kids(rep.browser[q])
  BY <1>1 DEF Copied, Shows, Children
<1>5. \A m \in DOMAIN t : u[m].parent = t[m].parent /\ Like(u[m], t[m])
  BY <1>1 DEF RowStep, Like
<1>6. \A q \in ParentRefs : Children(u, q) = Children(t, q) \cup IF q = p THEN {n} ELSE {}
  BY <1>1, <1>2, <1>5 DEF Children
<1>7. after.browser = [rep.browser EXCEPT ![p] = kids]
      /\ after.mirror = WriteMirrorPositions(made, kids) /\ DOMAIN after = {"browser", "mirror"}
  <2>1. Removed(rep.browser[p], n) = rep.browser[p]
    BY <1>3, <1>4, NothingRemoved
  <2>2. QED  BY <1>1, <2>1 DEF ApplyCreate, PutInPlace
<1>8. MirrorOf(made, u) /\ \A m \in DOMAIN t : made[m].pos = rep.mirror[m].pos
  <2> DEFINE new == [title |-> row.payload.title, url |-> row.payload.url,
                     parent |-> row.payload.parent, pos |-> row.payload.position]
  <2>1. /\ DOMAIN made = DOMAIN u /\ made[n] = new
        /\ \A m \in DOMAIN t : made[m] = rep.mirror[m]
    BY <1>1 DEF CreatedRow, With
  <2>2. DOMAIN new = MirrorColumns /\ Like(new, u[n])
    BY <1>2 DEF MirrorColumns, Like
  <2> HIDE DEF new, made
  <2>3. \A m \in DOMAIN t : DOMAIN made[m] = MirrorColumns /\ Like(made[m], u[m])
    BY <1>5, <2>1 DEF Copied, MirrorOf, Like
  <2>4. QED  BY <1>1, <2>1, <2>2, <2>3 DEF MirrorOf
<1>9. Kids(kids) /\ Range(kids) = Range(rep.browser[p]) \cup {n}
  BY <1>1, <1>3, <1>4, PutKids DEF Places
<1> HIDE DEF n, p, kids, made, after
<1>10. Shows(after.browser, u)
  <2>1. /\ DOMAIN after.browser = ParentRefs /\ after.browser[p] = kids
        /\ \A q \in ParentRefs \ {p} : after.browser[q] = rep.browser[q]
    BY <1>1, <1>3, <1>7
  <2>2. \A q \in ParentRefs : Range(rep.browser[q]) \cap NodeIds = Children(t, q)
    BY DEF Copied, Shows
  <2>3. n \in NodeIds
    BY <1>1
  <2>4. ASSUME NEW q \in ParentRefs
        PROVE  Kids(after.browser[q]) /\ Range(after.browser[q]) \cap NodeIds = Children(u, q)
    <3>1. CASE q = p
      BY <1>6, <1>9, <2>1, <2>2, <2>3, <3>1
    <3>2. CASE q # p
      BY <1>4, <1>6, <2>1, <2>2, <3>2
    <3>3. QED  BY <3>1, <3>2
  <2>5. QED  BY <2>1, <2>4 DEF Shows
<1>11. Copied(after, u)
  BY <1>7, <1>8, <1>10, PositionsWritten DEF Copied
<1>12. after.browser[p] = kids
  BY <1>1, <1>3, <1>7
<1>13. /\ Children(u, p) = Children(t, p) \cup {n}
       /\ \A q \in ParentRefs \ {p} : Children(u, q) = Children(t, q)
  BY <1>3, <1>6
<1>14. n \in NodeIds \ DOMAIN t /\ p = u[n].parent
  BY <1>1, <1>2 DEF n, p
<1>15. after.mirror = WriteMirrorPositions(made, after.browser[p])
  BY <1>7, <1>12
<1>16. QED  BY <1>3, <1>7, <1>8, <1>11, <1>12, <1>13, <1>14, <1>15

\* A new title or URL goes into the row of its node.
LEMMA UpdateCopied ==
    ASSUME NEW rep, NEW t, Copied(rep, t), NEW row, NEW u, RowStep(t, row, u),
           row.type \in {"update_title", "update_url"}
    PROVE  LET after == ApplyChange(rep, row)
           IN  /\ Copied(after, u) /\ after.browser = rep.browser
               /\ row.node \in DOMAIN t /\ DOMAIN u = DOMAIN t
               /\ \A m \in DOMAIN t : /\ after.mirror[m].pos = rep.mirror[m].pos
                                      /\ u[m].parent = t[m].parent
<1> DEFINE n == row.node
           after == ApplyChange(rep, row)
           f == IF row.type = "update_title" THEN "title" ELSE "url"
           v == row.payload[f]
<1> SUFFICES /\ Copied(after, u) /\ after.browser = rep.browser
             /\ n \in DOMAIN t /\ DOMAIN u = DOMAIN t
             /\ \A m \in DOMAIN t : /\ after.mirror[m].pos = rep.mirror[m].pos
                                    /\ u[m].parent = t[m].parent
  OBVIOUS
<1>1. n \in DOMAIN t /\ DOMAIN u = DOMAIN t /\ DOMAIN rep.mirror = DOMAIN t
  BY DEF RowStep, Repeopled, Copied, MirrorOf
<1>2. f \in {"title", "url"} /\ u[n][f] = v
      /\ \A g \in Edited \ {f} : u[n][g] = t[n][g]
  <2>1. DOMAIN row.payload \cap Edited = {f}
    BY DEF RowStep, FieldsOf
  <2>2. \A g \in Edited : Rewritten(t, row, u, g)
    BY DEF RowStep
  <2>3. f \in {"title", "url"} /\ f \in Edited
    BY DEF Edited
  <2> HIDE DEF f
  <2>4. QED  BY <2>1, <2>2, <2>3 DEF Rewritten
<1>3. /\ DOMAIN after = {"browser", "mirror"} /\ after.browser = rep.browser
      /\ DOMAIN after.mirror = DOMAIN t
      /\ \A m \in DOMAIN t \ {n} : after.mirror[m] = rep.mirror[m]
      /\ after.mirror[n] = [rep.mirror[n] EXCEPT ![f] = v]
  <2>1. DOMAIN rep = {"browser", "mirror"}
    BY DEF Copied
  <2>2. CASE row.type = "update_title"
    <3>1. after = [rep EXCEPT !.mirror[n].title = v] /\ f = "title"
      BY <2>2 DEF ApplyChange, ApplyUpdateTitle
    <3> HIDE DEF after, f, n, v
    <3>2. QED  BY <1>1, <2>1, <3>1
  <2>3. CASE row.type = "update_url"
    <3>1. after = [rep EXCEPT !.mirror[n].url = v] /\ f = "url"
      BY <2>3 DEF ApplyChange, ApplyUpdateURL
    <3> HIDE DEF after, f, n, v
    <3>2. QED  BY <1>1, <2>1, <3>1
  <2>4. QED  BY <2>2, <2>3
<1> HIDE DEF f, v, n, after
<1>4. \A m \in DOMAIN t \ {n} : Like(u[m], t[m])
  BY <1>1 DEF RowStep, n
<1>5. \A m \in DOMAIN t : DOMAIN rep.mirror[m] = MirrorColumns /\ Like(rep.mirror[m], t[m])
  BY DEF Copied, MirrorOf
<1>6. /\ DOMAIN after.mirror[n] = MirrorColumns /\ Like(after.mirror[n], u[n])
      /\ after.mirror[n].pos = rep.mirror[n].pos /\ u[n].parent = t[n].parent
  <2>1. DOMAIN rep.mirror[n] = MirrorColumns /\ Like(rep.mirror[n], t[n])
    BY <1>1, <1>5
  <2>2. /\ f = "title" => u[n].url = t[n].url
        /\ f = "url" => u[n].title = t[n].title
        /\ u[n].parent = t[n].parent
    BY <1>2 DEF Edited
  <2>3. CASE f = "title"
    BY <1>2, <1>3, <2>1, <2>2, <2>3 DEF MirrorColumns, Like
  <2>4. CASE f = "url"
    BY <1>2, <1>3, <2>1, <2>2, <2>4 DEF MirrorColumns, Like
  <2>5. QED  BY <1>2, <2>3, <2>4
<1>7. MirrorOf(after.mirror, u)
  <2>1. ASSUME NEW m \in DOMAIN t
        PROVE  DOMAIN after.mirror[m] = MirrorColumns /\ Like(after.mirror[m], u[m])
    <3>1. CASE m = n
      BY <1>6, <3>1
    <3>2. CASE m # n
      <4>1. after.mirror[m] = rep.mirror[m] /\ Like(u[m], t[m])
        BY <1>3, <1>4, <3>2
      <4>2. QED  BY <1>5, <4>1 DEF Like
    <3>3. QED  BY <3>1, <3>2
  <2>2. QED  BY <1>1, <1>3, <2>1 DEF MirrorOf
<1>8. \A m \in DOMAIN t : u[m].parent = t[m].parent
  BY <1>4, <1>6 DEF Like
<1>9. Shows(after.browser, u)
  <2>1. \A p \in ParentRefs : Children(u, p) = Children(t, p)
    BY <1>1, <1>8 DEF Children
  <2>2. QED  BY <1>3, <2>1 DEF Copied, Shows
<1>10. \A m \in DOMAIN t : after.mirror[m].pos = rep.mirror[m].pos
  BY <1>3, <1>6
<1>11. QED  BY <1>1, <1>3, <1>7, <1>8, <1>9, <1>10 DEF Copied

\* A subtree depends on nothing but the parents.
LEMMA SameSubtree ==
    ASSUME NEW x, NEW y, DOMAIN x = DOMAIN y,
           \A n \in DOMAIN y : x[n].parent = y[n].parent, NEW id
    PROVE  SubtreeIDs(x, id) = SubtreeIDs(y, id)
<1>1. \A T \in SUBSET DOMAIN y : UpClosed(x, T) <=> UpClosed(y, T)
  BY DEF UpClosed
<1>2. \A n \in DOMAIN y : AncestorsOrSelf(x, n) = AncestorsOrSelf(y, n)
  BY <1>1 DEF AncestorsOrSelf
<1>3. QED  BY <1>2 DEF SubtreeIDs

\* A deleted subtree loses its rows and its places, and nothing else goes.
LEMMA DeleteCopied ==
    ASSUME NEW rep, NEW t, Copied(rep, t), NEW row, NEW u, RowStep(t, row, u),
           row.type = "delete"
    PROVE  Copied(ApplyDelete(rep, row.node), u)
<1> DEFINE n == row.node
           doomed == SubtreeIDs(t, n)
           after == ApplyDelete(rep, n)
<1>1. /\ n \in DOMAIN t /\ DOMAIN u = DOMAIN t \ doomed /\ n \in doomed
      /\ DOMAIN rep.mirror = DOMAIN t /\ DOMAIN t \subseteq NodeIds \cup DOMAIN t
  BY SubtreeTop DEF RowStep, Repeopled, Copied, MirrorOf
<1>2. CollectSubtree(rep.mirror, n) = doomed
  BY SameSubtree DEF CollectSubtree, Copied, MirrorOf, Like
<1>3. after = [browser |-> [p \in ParentRefs |->
                               IF p \in doomed THEN <<>> ELSE Removed(rep.browser[p], n)],
               mirror |-> Without(rep.mirror, doomed)]
  BY <1>1, <1>2 DEF ApplyDelete
<1>4. \A m \in DOMAIN u : Like(u[m], t[m]) /\ m \in DOMAIN t
  BY <1>1 DEF RowStep
<1> HIDE DEF after, n
<1>5. /\ DOMAIN after = {"browser", "mirror"}
      /\ after.browser = [p \in ParentRefs |->
                             IF p \in doomed THEN <<>> ELSE Removed(rep.browser[p], n)]
      /\ after.mirror = [m \in DOMAIN u |-> rep.mirror[m]]
  BY <1>1, <1>3 DEF Without
<1>6. MirrorOf(after.mirror, u)
  BY <1>4, <1>5 DEF Copied, MirrorOf, Like
<1>7. ASSUME NEW p \in ParentRefs
      PROVE  Kids(after.browser[p]) /\ Range(after.browser[p]) \cap NodeIds = Children(u, p)
  <2>1. Kids(rep.browser[p]) /\ Range(rep.browser[p]) \cap NodeIds = Children(t, p)
    BY DEF Copied, Shows
  <2>2. CASE p \in doomed
    <3>1. after.browser[p] = <<>>
      BY <1>5, <2>2
    <3>2. Kids(<<>>) /\ Range(<<>>) = {}
      BY DEF Kids, IsInjective, Range
    <3>3. Children(u, p) = {}
      <4>1. ASSUME NEW m \in DOMAIN u, u[m].parent = p
            PROVE  FALSE
        <5>1. m \in DOMAIN t /\ t[m].parent \in SubtreeIDs(t, n)
          BY <1>4, <2>2, <4>1 DEF Like
        <5>2. m \in doomed
          BY <5>1, SubtreeHolds
        <5>3. QED  BY <1>1, <5>2
      <4>2. QED  BY <4>1 DEF Children
    <3>4. QED  BY <3>1, <3>2, <3>3
  <2>3. CASE p \notin doomed
    <3>1. after.browser[p] = Removed(rep.browser[p], n)
      BY <1>5, <2>3
    <3>2. /\ Kids(after.browser[p])
          /\ Range(after.browser[p]) = Range(rep.browser[p]) \ {n}
      BY <2>1, <3>1, RemovedKids
    <3>3. \A m \in Children(t, p) : m \in doomed => m = n
      BY <1>1, <2>3, SubtreeHangs DEF Children
    <3>4. Children(u, p) = Children(t, p) \ doomed
      BY <1>1, <1>4 DEF Children, Like
    <3>5. QED
      <4> HIDE DEF doomed
      <4>1. QED  BY <1>1, <2>1, <3>2, <3>3, <3>4
  <2>4. QED  BY <2>2, <2>3
<1>8. Shows(after.browser, u)
  BY <1>5, <1>7 DEF Shows
<1>9. QED  BY <1>5, <1>6, <1>8 DEF Copied, after, n

\* What a move changes of the tree: the parent of its node.
LEMMA MoveReparents ==
    ASSUME NEW t, NEW row, NEW u, GoodNodes(t), RowStep(t, row, u), row.type = "move"
    PROVE  LET n == row.node  p == row.payload.parent  from == t[n].parent
           IN  /\ n \in DOMAIN t /\ DOMAIN u = DOMAIN t /\ n \in NodeIds
               /\ p = u[n].parent /\ u[n].title = t[n].title /\ u[n].url = t[n].url
               /\ p \in RootKeys \cup DOMAIN t /\ p \in ParentRefs /\ from \in ParentRefs
               /\ \A m \in DOMAIN t \ {n} : Like(u[m], t[m])
               /\ Children(u, p) = Children(t, p) \cup {n}
               /\ from # p => Children(u, from) = Children(t, from) \ {n}
               /\ \A q \in ParentRefs \ {p, from} : Children(u, q) = Children(t, q)
<1> DEFINE n == row.node
           p == row.payload.parent
           from == t[n].parent
<1> SUFFICES /\ n \in DOMAIN t /\ DOMAIN u = DOMAIN t /\ n \in NodeIds
             /\ p = u[n].parent /\ u[n].title = t[n].title /\ u[n].url = t[n].url
             /\ p \in RootKeys \cup DOMAIN t /\ p \in ParentRefs /\ from \in ParentRefs
             /\ \A m \in DOMAIN t \ {n} : Like(u[m], t[m])
             /\ Children(u, p) = Children(t, p) \cup {n}
             /\ from # p => Children(u, from) = Children(t, from) \ {n}
             /\ \A q \in ParentRefs \ {p, from} : Children(u, q) = Children(t, q)
  OBVIOUS
<1>1. n \in DOMAIN t /\ DOMAIN u = DOMAIN t /\ DOMAIN t \subseteq NodeIds
  BY DEF RowStep, Repeopled, GoodNodes
<1>2. p = u[n].parent /\ u[n].title = t[n].title /\ u[n].url = t[n].url
  <2>1. DOMAIN row.payload \cap Edited = {"parent"}
    BY DEF RowStep, FieldsOf
  <2>2. \A f \in Edited : Rewritten(t, row, u, f)
    BY DEF RowStep
  <2>3. QED  BY <2>1, <2>2 DEF Rewritten, Edited
<1>3. \A m \in DOMAIN t \ {n} : Like(u[m], t[m]) /\ u[m].parent = t[m].parent
  BY <1>1 DEF RowStep, Like
<1>4. p \in RootKeys \cup DOMAIN t /\ from \in RootKeys \cup DOMAIN t
  BY <1>1, <1>2 DEF RowStep, GoodNodes
<1> HIDE DEF n, p
<1>5. /\ Children(u, p) = Children(t, p) \cup {n}
      /\ from # p => Children(u, from) = Children(t, from) \ {n}
      /\ \A q \in ParentRefs \ {p, from} : Children(u, q) = Children(t, q)
  BY <1>1, <1>2, <1>3 DEF Children
<1>6. QED  BY <1>1, <1>2, <1>3, <1>4, <1>5 DEF ParentRefs

\* The mirror before it writes positions, for a moved node.
MovedRow(rep, n, payload) ==
    [rep.mirror EXCEPT ![n].parent = payload.parent, ![n].pos = payload.position]

\* A moved node goes from one list to its place in the other.
LEMMA MoveCopied ==
    ASSUME NEW rep, NEW t, Copied(rep, t), NEW row, NEW u, GoodNodes(t), RowStep(t, row, u),
           row.type = "move", ~MoveSatisfied(rep, row.node, row.payload)
    PROVE  LET n == row.node  p == row.payload.parent  from == t[n].parent
               after == ApplyMove(rep, n, row.payload)
               made == MovedRow(rep, n, row.payload)
           IN  /\ Copied(after, u)
               /\ after.browser[p] = PutInPlace(rep, p, row.payload.position, n)
               /\ from # p => after.browser[from] = Removed(rep.browser[from], n)
               /\ \A q \in ParentRefs \ {p, from} : after.browser[q] = rep.browser[q]
               /\ MirrorOf(made, u)
               /\ \A m \in DOMAIN t \ {n} : made[m].pos = rep.mirror[m].pos
               /\ after.mirror = WriteMirrorPositions(WriteMirrorPositions(made, after.browser[p]),
                                                      after.browser[from])
<1> DEFINE n == row.node
           p == row.payload.parent
           from == t[n].parent
           pos == row.payload.position
           index == BrowserIndexForPosition(rep, p, pos, n)
           put == PutInPlace(rep, p, pos, n)
           made == MovedRow(rep, n, row.payload)
           after == ApplyMove(rep, n, row.payload)
<1> SUFFICES /\ Copied(after, u)
             /\ after.browser[p] = put
             /\ from # p => after.browser[from] = Removed(rep.browser[from], n)
             /\ \A q \in ParentRefs \ {p, from} : after.browser[q] = rep.browser[q]
             /\ MirrorOf(made, u)
             /\ \A m \in DOMAIN t \ {n} : made[m].pos = rep.mirror[m].pos
             /\ after.mirror = WriteMirrorPositions(WriteMirrorPositions(made, after.browser[p]),
                                                    after.browser[from])
  OBVIOUS
<1>1. /\ n \in DOMAIN t /\ DOMAIN u = DOMAIN t /\ n \in NodeIds
      /\ p = u[n].parent /\ u[n].title = t[n].title /\ u[n].url = t[n].url
      /\ p \in ParentRefs /\ from \in ParentRefs
      /\ \A m \in DOMAIN t \ {n} : Like(u[m], t[m])
      /\ Children(u, p) = Children(t, p) \cup {n}
      /\ from # p => Children(u, from) = Children(t, from) \ {n}
      /\ \A q \in ParentRefs \ {p, from} : Children(u, q) = Children(t, q)
  BY MoveReparents
<1>2. DOMAIN rep.mirror = DOMAIN t /\ DOMAIN rep.browser = ParentRefs
      /\ rep.mirror[n].parent = from
      /\ \A m \in DOMAIN t : DOMAIN rep.mirror[m] = MirrorColumns /\ Like(rep.mirror[m], t[m])
  BY <1>1 DEF Copied, MirrorOf, Shows, Like
<1>3. \A q \in ParentRefs : Kids(rep.browser[q]) /\ Range(rep.browser[q]) \cap NodeIds = Children(t, q)
  BY DEF Copied, Shows
<1>4. \A q \in ParentRefs \ {from} : n \notin Range(rep.browser[q])
  BY <1>1, <1>3 DEF Children
<1> DEFINE removed == [rep.browser EXCEPT ![from] = Removed(@, n)]
           placed  == [removed EXCEPT ![p] = InsertAt(@, index + 1, n)]
<1>5. /\ DOMAIN after = {"browser", "mirror"} /\ after.browser = placed
      /\ after.mirror = WriteMirrorPositions(WriteMirrorPositions(made, placed[p]), placed[from])
  BY <1>2 DEF ApplyMove, MovedRow
<1>6. /\ DOMAIN placed = ParentRefs /\ placed[p] = put
      /\ from # p => placed[from] = Removed(rep.browser[from], n)
      /\ \A q \in ParentRefs \ {p, from} : placed[q] = rep.browser[q]
  <2>1. /\ DOMAIN removed = ParentRefs /\ removed[from] = Removed(rep.browser[from], n)
        /\ \A q \in ParentRefs \ {from} : removed[q] = rep.browser[q]
    BY <1>1, <1>2
  <2>2. removed[p] = Removed(rep.browser[p], n)
    BY <1>1, <1>4, <2>1, NothingRemoved
  <2>3. put = InsertAt(removed[p], index + 1, n)
    BY <2>2 DEF PutInPlace
  <2> HIDE DEF removed, index, put, p, from, n
  <2>4. QED  BY <1>1, <2>1, <2>3
<1>7. MirrorOf(made, u) /\ \A m \in DOMAIN t \ {n} : made[m].pos = rep.mirror[m].pos
  <2> DEFINE one == [rep.mirror EXCEPT ![n].parent = p]
  <2>1. /\ DOMAIN one = DOMAIN t /\ \A m \in DOMAIN t \ {n} : one[m] = rep.mirror[m]
        /\ DOMAIN one[n] = MirrorColumns /\ Like(one[n], u[n])
    BY <1>1, <1>2 DEF MirrorColumns, Like
  <2>2. made = [one EXCEPT ![n].pos = pos]
    BY DEF MovedRow
  <2> HIDE DEF made, one, pos
  <2>3. /\ DOMAIN made = DOMAIN t /\ \A m \in DOMAIN t \ {n} : made[m] = rep.mirror[m]
        /\ DOMAIN made[n] = MirrorColumns /\ Like(made[n], u[n])
    BY <1>1, <2>1, <2>2 DEF MirrorColumns, Like
  <2>4. ASSUME NEW m \in DOMAIN t
        PROVE  DOMAIN made[m] = MirrorColumns /\ Like(made[m], u[m])
    <3>1. CASE m = n
      BY <2>3, <3>1
    <3>2. CASE m # n
      BY <1>1, <1>2, <2>3, <3>2 DEF Like
    <3>3. QED  BY <3>1, <3>2
  <2>5. QED  BY <1>1, <2>3, <2>4 DEF MirrorOf
<1>8. Kids(put) /\ Range(put) = Range(rep.browser[p]) \cup {n}
  BY <1>1, <1>3, PutKids DEF Places
<1>9. Kids(Removed(rep.browser[from], n))
      /\ Range(Removed(rep.browser[from], n)) = Range(rep.browser[from]) \ {n}
  BY <1>1, <1>3, RemovedKids
<1> HIDE DEF n, p, from, pos, index, put, made, after, removed, placed
<1>10. Shows(placed, u)
  <2>1. ASSUME NEW q \in ParentRefs
        PROVE  Kids(placed[q]) /\ Range(placed[q]) \cap NodeIds = Children(u, q)
    <3>1. CASE q = p
      BY <1>1, <1>3, <1>6, <1>8, <3>1
    <3>2. CASE q # p /\ q = from
      <4>1. placed[q] = Removed(rep.browser[from], n) /\ Children(u, q) = Children(t, q) \ {n}
        BY <1>1, <1>6, <3>2
      <4>2. QED  BY <1>3, <1>9, <3>2, <4>1
    <3>3. CASE q # p /\ q # from
      BY <1>1, <1>3, <1>6, <3>3
    <3>4. QED  BY <3>1, <3>2, <3>3
  <2>2. QED  BY <1>6, <2>1 DEF Shows
<1>11. Copied(after, u)
  <2>1. MirrorOf(WriteMirrorPositions(made, placed[p]), u)
    BY <1>7, PositionsWritten
  <2>2. MirrorOf(after.mirror, u)
    BY <1>5, <2>1, PositionsWritten
  <2>3. QED  BY <1>5, <1>10, <2>2 DEF Copied
<1>12. QED  BY <1>5, <1>6, <1>7, <1>11

---------------------------------------------------------------------------
(* The order of the siblings *)

\* The siblings of one parent are numbered densely.
LEMMA ChildrenDense ==
    ASSUME NEW t, GoodNodes(t), NEW p \in ParentRefs
    PROVE  /\ Numbered(t, Children(t, p)) /\ Dense(t, Children(t, p))
           /\ Distinct(t, Children(t, p))
<1>1. Children(t, p) \subseteq DOMAIN t /\ Dense(t, Children(t, p))
  BY DEF GoodNodes, Children
<1>2. IsFiniteSet(Children(t, p)) /\ \A n \in DOMAIN t : t[n].pos \in Nat
  BY <1>1, FS_Subset DEF GoodNodes
<1>3. Numbered(t, Children(t, p))
  BY <1>1, <1>2 DEF Numbered
<1>4. QED  BY <1>1, <1>3, DenseDistinct

\* Siblings in the same order have the same ranks.
LEMMA SameRanks ==
    ASSUME NEW x, NEW y, NEW S,
           \A a, b \in S : x[a].pos < x[b].pos <=> y[a].pos < y[b].pos
    PROVE  \A n \in S : Rank(x, S, n) = Rank(y, S, n)
<1>1. \A n \in S : {m \in S : x[m].pos < x[n].pos} = {m \in S : y[m].pos < y[n].pos}
  OBVIOUS
<1>2. QED  BY <1>1 DEF Rank

\* Siblings in the same order, numbered densely both times, have the same positions.
LEMMA SamePositions ==
    ASSUME NEW x, NEW y, NEW S, Numbered(x, S), Dense(x, S), Numbered(y, S), Dense(y, S),
           \A a, b \in S : x[a].pos < x[b].pos <=> y[a].pos < y[b].pos
    PROVE  \A n \in S : x[n].pos = y[n].pos
BY SameRanks, DenseRank

\* A node comes after those the others rank below its position.
LEMMA PlacedAmong ==
    ASSUME NEW u, NEW S, Numbered(u, S), Dense(u, S), NEW n \in S, NEW a \in S \ {n}
    PROVE  /\ u[a].pos < u[n].pos <=> Rank(u, S \ {n}, a) < u[n].pos
           /\ u[a].pos # u[n].pos
<1> DEFINE others == {m \in S \ {n} : u[m].pos < u[a].pos}
<1>1. /\ u[a].pos \in Nat /\ u[n].pos \in Nat /\ u[a].pos # u[n].pos
  BY DenseDistinct DEF Numbered, Distinct
<1>2. Rank(u, S, a) = u[a].pos
  BY DenseRank
<1>3. Rank(u, S \ {n}, a) = Cardinality(others) /\ IsFiniteSet(others) /\ n \notin others
  BY FS_Subset DEF Rank, Numbered
<1>4. Cardinality(others) \in Nat
  BY <1>3, FS_CardinalityType
<1>5. CASE u[a].pos < u[n].pos
  <2>1. {m \in S : u[m].pos < u[a].pos} = others
    BY <1>1, <1>5
  <2>2. Rank(u, S, a) = Cardinality(others)
    BY <2>1 DEF Rank
  <2> HIDE DEF others
  <2>3. QED  BY <1>1, <1>2, <1>3, <1>5, <2>2
<1>6. CASE u[n].pos < u[a].pos
  <2>1. {m \in S : u[m].pos < u[a].pos} = others \cup {n}
    BY <1>6
  <2>2. Rank(u, S, a) = Cardinality(others \cup {n})
    BY <2>1 DEF Rank
  <2> HIDE DEF others
  <2>3. Cardinality(others \cup {n}) = Cardinality(others) + 1
    BY <1>3, FS_AddElement
  <2>4. QED  BY <1>1, <1>2, <1>3, <1>4, <1>6, <2>2, <2>3
<1>7. QED  BY <1>1, <1>5, <1>6

\* The browser has the siblings of p in the order of their positions.
Ordered(kids, S, t) == \A a, b \in S : Before(kids, a, b) <=> t[a].pos < t[b].pos

\* A node put at the slot of its position stands in order among its siblings.
LEMMA PutInOrder ==
    ASSUME NEW rep, NEW p, NEW n \in Places, Kids(rep.browser[p]),
           NEW u, NEW S, Numbered(u, S), Dense(u, S), n \in S,
           (Range(rep.browser[p]) \cap DOMAIN rep.mirror) \ {n} = S \ {n},
           Ordered(rep.browser[p], S \ {n}, u),
           \A a \in S \ {n} : Rank(rep.mirror, S \ {n}, a) = Rank(u, S \ {n}, a)
    PROVE  Ordered(PutInPlace(rep, p, u[n].pos, n), S, u)
<1> DEFINE base == S \ {n}
           kids == Removed(rep.browser[p], n)
           index == BrowserIndexForPosition(rep, p, u[n].pos, n)
           put == PutInPlace(rep, p, u[n].pos, n)
           k == u[n].pos
           target == {a \in base : Rank(u, base, a) = k}
<1>1. /\ Kids(kids) /\ Range(kids) = Range(rep.browser[p]) \ {n}
      /\ \A a, b : Before(kids, a, b) <=> Before(rep.browser[p], a, b) /\ a # n /\ b # n
  BY RemovedKids
<1>2. base = Range(kids) \cap DOMAIN rep.mirror
  BY <1>1
<1>3. index = IF target = {} THEN Len(kids)
              ELSE CHOOSE i \in 0 .. Len(kids) - 1 : kids[i + 1] \in target
  <2> DEFINE mapped == Range(kids) \cap DOMAIN rep.mirror
             found == {a \in mapped : Rank(rep.mirror, mapped, a) = k}
  <2>1. index = IF found = {} THEN Len(kids)
                ELSE CHOOSE i \in 0 .. Len(kids) - 1 : kids[i + 1] \in found
    BY DEF BrowserIndexForPosition
  <2>2. \A a \in base : Rank(rep.mirror, base, a) = Rank(u, base, a)
    OBVIOUS
  <2>3. mapped = base
    BY <1>2
  <2> HIDE DEF base, mapped, index, kids, k
  <2>4. found = target
    BY <2>2, <2>3
  <2>5. QED  BY <2>1, <2>4
<1>4. Len(kids) \in Nat /\ DOMAIN kids = 1 .. Len(kids)
      /\ \A i, j \in DOMAIN kids : kids[i] = kids[j] => i = j
  BY <1>1 DEF Kids, IsInjective
<1>5. index \in 0 .. Len(kids)
  BY IndexInList
<1>6. base \subseteq S /\ k \in Nat /\ \A a \in base : u[a].pos \in Nat
  BY DEF Numbered
<1>7. Numbered(u, base) /\ Distinct(u, base)
  <2>1. IsFiniteSet(base)
    BY FS_Subset DEF Numbered
  <2>2. QED  BY <1>6, <2>1, DenseDistinct DEF Numbered, Distinct
<1>8. \A a \in base : /\ u[a].pos < k <=> Rank(u, base, a) < k
                      /\ u[a].pos # k /\ Rank(u, base, a) \in Nat
  BY <1>7, PlacedAmong, RanksOrdered
<1>9. \A a, b \in base : u[a].pos < u[b].pos <=> Rank(u, base, a) < Rank(u, base, b)
  BY <1>7, RanksOrdered
<1>10. \A a, b \in base : Before(kids, a, b) <=> u[a].pos < u[b].pos
  BY <1>1 DEF Ordered
<1>11. {Rank(u, base, a) : a \in base} = 0 .. Cardinality(base) - 1
       /\ Cardinality(base) \in Nat
  BY <1>7, RanksDense, FS_CardinalityType DEF Numbered
<1>12. put = InsertAt(kids, index + 1, n)
  BY DEF PutInPlace
<1> HIDE DEF base, kids, index, put, k
\* The siblings before the slot are those the position comes after.
<1>13. ASSUME NEW j \in DOMAIN kids, kids[j] \in base
       PROVE  j <= index <=> u[kids[j]].pos < k
  <2> DEFINE a == kids[j]
  <2>1. CASE target = {}
    <3>1. index = Len(kids) /\ j <= index
      BY <1>3, <1>4, <2>1
    <3>2. ~(u[a].pos > k)
      <4>1. ASSUME u[a].pos > k
            PROVE  FALSE
        <5>1. k <= Rank(u, base, a) /\ Rank(u, base, a) \in 0 .. Cardinality(base) - 1
          BY <1>6, <1>8, <1>11, <1>13, <4>1
        <5>2. k \in {Rank(u, base, b) : b \in base}
          BY <1>6, <1>11, <5>1
        <5>3. QED  BY <2>1, <5>2
      <4>2. QED  BY <4>1
    <3>3. QED  BY <1>6, <1>8, <1>13, <3>1, <3>2
  <2>2. CASE target # {}
    <3>1. \E i \in 0 .. Len(kids) - 1 : kids[i + 1] \in target
      <4>1. PICK i \in DOMAIN kids : kids[i] \in target
        BY <1>2, <2>2 DEF Range
      <4>2. i - 1 \in 0 .. Len(kids) - 1 /\ kids[(i - 1) + 1] \in target
        BY <1>4, <4>1
      <4>3. QED  BY <4>2
    <3>2. index \in 0 .. Len(kids) - 1 /\ kids[index + 1] \in target
      BY <1>3, <2>2, <3>1
    <3> DEFINE b == kids[index + 1]
    <3>3. b \in base /\ Rank(u, base, b) = k /\ index + 1 \in DOMAIN kids
      BY <1>4, <3>2
    <3>4. Before(kids, a, b) <=> j < index + 1
      BY <1>4, <1>13, <3>3 DEF Before
    <3>5. Before(kids, a, b) <=> u[a].pos < k
      BY <1>8, <1>9, <1>10, <1>13, <3>3
    <3>6. QED  BY <1>4, <1>5, <3>4, <3>5
  <2>3. QED  BY <2>1, <2>2
<1>14. ASSUME NEW a \in base
       PROVE  /\ Before(put, a, n) <=> u[a].pos < k
              /\ Before(put, n, a) <=> k < u[a].pos
  <2>1. PICK j \in DOMAIN kids : kids[j] = a
    BY <1>2 DEF Range
  <2>2. index + 1 \in 1 .. Len(kids) + 1 /\ n \notin Range(kids) /\ a \in Range(kids)
    BY <1>1, <1>2, <1>4, <1>5
  <2>3. /\ Before(put, a, n) <=> \E i \in 1 .. (index + 1) - 1 : kids[i] = a
        /\ Before(put, n, a) <=> \E i \in index + 1 .. Len(kids) : kids[i] = a
    BY <1>1, <1>12, <2>2, InsertedKids
  <2>4. /\ (\E i \in 1 .. (index + 1) - 1 : kids[i] = a) <=> j <= index
        /\ (\E i \in index + 1 .. Len(kids) : kids[i] = a) <=> ~(j <= index)
    BY <1>4, <1>5, <2>1
  <2>5. j <= index <=> u[a].pos < k
    BY <1>13, <2>1
  <2>6. QED  BY <1>6, <1>8, <2>3, <2>4, <2>5
<1>15. /\ \A a, b \in base : Before(put, a, b) <=> u[a].pos < u[b].pos
       /\ ~Before(put, n, n)
  <2>1. index + 1 \in 1 .. Len(kids) + 1 /\ n \notin Range(kids) /\ n \notin base
    BY <1>1, <1>4, <1>5 DEF base
  <2>2. /\ \A a, b : a # n /\ b # n => (Before(put, a, b) <=> Before(kids, a, b))
        /\ ~Before(put, n, n)
    BY <1>1, <1>12, <2>1, InsertedKids
  <2>3. QED  BY <1>10, <2>1, <2>2
<1>16. ASSUME NEW a \in S, NEW b \in S
       PROVE  Before(put, a, b) <=> u[a].pos < u[b].pos
  <2>1. a \in base \/ a = n
    BY DEF base
  <2>2. b \in base \/ b = n
    BY DEF base
  <2>3. CASE a \in base /\ b \in base
    BY <1>15, <2>3
  <2>4. CASE a \in base /\ b = n
    BY <1>14, <2>4 DEF k
  <2>5. CASE a = n /\ b \in base
    BY <1>14, <2>5 DEF k
  <2>6. CASE a = n /\ b = n
    BY <1>6, <1>15, <2>6 DEF k
  <2>7. QED  BY <2>1, <2>2, <2>3, <2>4, <2>5, <2>6
<1>17. QED  BY <1>16 DEF Ordered, put

\* The browser shows the order of t, and the mirror its positions.
InOrder(rep, t) ==
    /\ \A p \in ParentRefs : Ordered(rep.browser[p], Children(t, p), t)
    /\ \A n \in DOMAIN t : rep.mirror[n].pos = t[n].pos

\* The siblings a row does not place are in the order they were in.
LEMMA StayInOrder ==
    ASSUME NEW t, NEW row, NEW u, RowStep(t, row, u), NEW p,
           NEW S, S \subseteq (Children(t, p) \cap DOMAIN u) \ PlacedBy(row)
    PROVE  /\ \A a, b \in S : t[a].pos < t[b].pos <=> u[a].pos < u[b].pos
           /\ \A kids : Ordered(kids, S, t) => Ordered(kids, S, u)
<1>1. \A a, b \in S : t[a].pos < t[b].pos <=> u[a].pos < u[b].pos
  BY DEF RowStep, SameOrder, Children
<1>2. QED  BY <1>1 DEF Ordered

\* Siblings among which no node comes or goes keep their positions.
LEMMA Undisturbed ==
    ASSUME NEW t, GoodNodes(t), NEW row, NEW u, RowStep(t, row, u), NEW p \in ParentRefs,
           Children(u, p) = Children(t, p), Children(t, p) \cap PlacedBy(row) = {}
    PROVE  /\ \A n \in Children(t, p) : u[n].pos = t[n].pos
           /\ \A kids : Ordered(kids, Children(t, p), t) => Ordered(kids, Children(u, p), u)
<1> DEFINE S == Children(t, p)
<1>1. S \subseteq (S \cap DOMAIN u) \ PlacedBy(row)
  BY DEF Children
<1>2. GoodNodes(u)
  BY DEF RowStep
<1>3. /\ Numbered(t, S) /\ Dense(t, S)
      /\ Numbered(u, S) /\ Dense(u, S)
  BY <1>2, ChildrenDense
<1>4. /\ \A a, b \in S : t[a].pos < t[b].pos <=> u[a].pos < u[b].pos
      /\ \A kids : Ordered(kids, S, t) => Ordered(kids, S, u)
  BY <1>1, StayInOrder
<1>5. \A n \in S : t[n].pos = u[n].pos
  BY <1>3, <1>4, SamePositions
<1>6. QED  BY <1>4, <1>5

\* Written from a list in order, positions are those of the server.
LEMMA PositionsRead ==
    ASSUME NEW u, GoodNodes(u), NEW mirror, MirrorOf(mirror, u), NEW p \in ParentRefs, NEW kids,
           Range(kids) \cap NodeIds = Children(u, p), Ordered(kids, Children(u, p), u)
    PROVE  \A n \in DOMAIN u : WriteMirrorPositions(mirror, kids)[n].pos
                                   = IF n \in Children(u, p) THEN u[n].pos ELSE mirror[n].pos
<1> DEFINE S == Children(u, p)
           after == WriteMirrorPositions(mirror, kids)
<1>1. DOMAIN u \subseteq NodeIds /\ S \subseteq DOMAIN u
  BY DEF GoodNodes, Children
<1>2. \A n \in DOMAIN u : n \in Range(kids) <=> n \in S
  BY <1>1
<1>3. \A n \in DOMAIN u :
          after[n].pos = IF n \in Range(kids)
                         THEN Cardinality({m \in DOMAIN u : Before(kids, m, n)})
                         ELSE mirror[n].pos
  BY PositionsWritten
<1>4. ASSUME NEW n \in S
      PROVE  after[n].pos = u[n].pos
  <2>1. \A m \in DOMAIN u : Before(kids, m, n) => m \in S
    <3>1. \A m : Before(kids, m, n) => m \in Range(kids)
      BY DEF Before, Range
    <3>2. QED  BY <1>2, <3>1
  <2>2. {m \in DOMAIN u : Before(kids, m, n)} = {m \in S : u[m].pos < u[n].pos}
    BY <1>1, <2>1 DEF Ordered
  <2>3. Rank(u, S, n) = u[n].pos
    BY ChildrenDense, DenseRank
  <2>4. after[n].pos = Cardinality({m \in DOMAIN u : Before(kids, m, n)})
    BY <1>1, <1>2, <1>3
  <2>5. QED  BY <2>2, <2>3, <2>4 DEF Rank
<1>5. \A n \in DOMAIN u \ S : after[n].pos = mirror[n].pos
  BY <1>2, <1>3
<1> HIDE DEF after, S
<1>6. QED  BY <1>4, <1>5 DEF after, S

\* A node that a row puts below p at its position: the list of p is in order.
LEMMA PlacedInOrder ==
    ASSUME NEW rep, NEW t, GoodNodes(t), Copied(rep, t), InOrder(rep, t),
           NEW row, NEW u, RowStep(t, row, u), row.type \in {"create", "move"},
           NEW p \in ParentRefs, row.node \in NodeIds,
           Children(u, p) = Children(t, p) \cup {row.node}
    PROVE  Ordered(PutInPlace(rep, p, row.payload.position, row.node), Children(u, p), u)
<1> DEFINE n == row.node
           S == Children(u, p)
           base == S \ {n}
<1>1. GoodNodes(u) /\ row.payload.position = u[n].pos /\ PlacedBy(row) = {n}
  BY DEF RowStep, PlacedBy
<1>2. Numbered(u, S) /\ Dense(u, S) /\ n \in S
  BY <1>1, ChildrenDense
<1>3. base \subseteq (Children(t, p) \cap DOMAIN u) \ PlacedBy(row)
  BY <1>1 DEF Children
<1>4. /\ DOMAIN rep.mirror = DOMAIN t /\ DOMAIN t \subseteq NodeIds /\ Kids(rep.browser[p])
      /\ Range(rep.browser[p]) \cap NodeIds = Children(t, p)
      /\ Children(t, p) \subseteq DOMAIN t
  BY DEF Copied, MirrorOf, Shows, GoodNodes, Children
<1>5. (Range(rep.browser[p]) \cap DOMAIN rep.mirror) \ {n} = base
  BY <1>4
<1>6. Ordered(rep.browser[p], base, t)
  BY <1>3 DEF InOrder, Ordered
<1>7. /\ Ordered(rep.browser[p], base, u)
      /\ \A a, b \in base : t[a].pos < t[b].pos <=> u[a].pos < u[b].pos
  BY <1>3, <1>6, StayInOrder
<1>8. \A a, b \in base : rep.mirror[a].pos < rep.mirror[b].pos <=> u[a].pos < u[b].pos
  BY <1>3, <1>4, <1>7 DEF InOrder
<1>9. \A a \in base : Rank(rep.mirror, base, a) = Rank(u, base, a)
  BY <1>8, SameRanks
<1>10. n \in Places
  BY DEF Places
<1> HIDE DEF n
<1>11. Ordered(PutInPlace(rep, p, u[n].pos, n), S, u)
  BY <1>2, <1>4, <1>5, <1>7, <1>9, <1>10, PutInOrder
<1>12. QED  BY <1>1, <1>11 DEF n

LEMMA CreateInOrder ==
    ASSUME NEW rep, NEW t, GoodNodes(t), Copied(rep, t), InOrder(rep, t),
           NEW row, NEW u, RowStep(t, row, u), row.type = "create"
    PROVE  InOrder(ApplyCreate(rep, row.node, row.payload), u)
<1> DEFINE n == row.node
           p == row.payload.parent
           put == PutInPlace(rep, p, row.payload.position, n)
           made == CreatedRow(rep.mirror, n, row.payload)
           after == ApplyCreate(rep, n, row.payload)
<1>1. /\ Copied(after, u) /\ n \in NodeIds \ DOMAIN t /\ p = u[n].parent
      /\ p \in RootKeys \cup DOMAIN t
      /\ after.browser = [rep.browser EXCEPT ![p] = put]
      /\ after.mirror = WriteMirrorPositions(made, after.browser[p])
      /\ MirrorOf(made, u) /\ \A m \in DOMAIN t : made[m].pos = rep.mirror[m].pos
      /\ Children(u, p) = Children(t, p) \cup {n}
      /\ \A q \in ParentRefs \ {p} : Children(u, q) = Children(t, q)
  BY CreateCopied
<1>2. /\ DOMAIN t \subseteq NodeIds /\ GoodNodes(u) /\ DOMAIN u = DOMAIN t \cup {n}
      /\ PlacedBy(row) = {n} /\ DOMAIN rep.browser = ParentRefs
  BY DEF GoodNodes, RowStep, Repeopled, PlacedBy, Copied, Shows
<1>3. p \in ParentRefs
  BY <1>1, <1>2 DEF ParentRefs
<1>4. after.browser[p] = put /\ \A q \in ParentRefs \ {p} : after.browser[q] = rep.browser[q]
  BY <1>1, <1>2, <1>3
<1>5. Ordered(put, Children(u, p), u)
  BY <1>1, <1>3, PlacedInOrder
<1>6. \A q \in ParentRefs \ {p} : Children(t, q) \cap PlacedBy(row) = {}
  BY <1>1, <1>2 DEF Children
<1> HIDE DEF put, made, after, n, p
<1>7. ASSUME NEW q \in ParentRefs \ {p}
      PROVE  /\ Ordered(after.browser[q], Children(u, q), u)
             /\ \A m \in Children(t, q) : u[m].pos = t[m].pos
  BY <1>1, <1>4, <1>6, Undisturbed DEF InOrder
<1>8. \A q \in ParentRefs : Ordered(after.browser[q], Children(u, q), u)
  BY <1>4, <1>5, <1>7
<1>9. Range(after.browser[p]) \cap NodeIds = Children(u, p)
  BY <1>1, <1>3 DEF Copied, Shows
<1>10. \A m \in DOMAIN u : after.mirror[m].pos
                               = IF m \in Children(u, p) THEN u[m].pos ELSE made[m].pos
  <2>1. GoodNodes(u) /\ MirrorOf(made, u) /\ Ordered(after.browser[p], Children(u, p), u)
    BY <1>1, <1>2, <1>4, <1>5
  <2>2. \A m \in DOMAIN u : WriteMirrorPositions(made, after.browser[p])[m].pos
                                = IF m \in Children(u, p) THEN u[m].pos ELSE made[m].pos
    BY <1>3, <1>9, <2>1, PositionsRead
  <2>3. QED  BY <1>1, <2>2
<1>11. ASSUME NEW m \in DOMAIN u
       PROVE  after.mirror[m].pos = u[m].pos
  <2>1. CASE m \in Children(u, p)
    BY <1>10, <2>1
  <2>2. CASE m \notin Children(u, p)
    <3>1. u[m].parent # p /\ m \in DOMAIN t /\ u[m].parent \in ParentRefs
      BY <1>1, <1>2, <2>2 DEF Children, GoodNodes, ParentRefs
    <3>2. m \in Children(t, u[m].parent)
      BY <1>1, <3>1 DEF Children
    <3>3. u[m].pos = t[m].pos
      BY <1>7, <3>1, <3>2
    <3>4. QED  BY <1>1, <1>10, <2>2, <3>1, <3>3 DEF InOrder
  <2>3. QED  BY <2>1, <2>2
<1>12. QED  BY <1>8, <1>11 DEF InOrder, after, n

LEMMA UpdateInOrder ==
    ASSUME NEW rep, NEW t, GoodNodes(t), Copied(rep, t), InOrder(rep, t),
           NEW row, NEW u, RowStep(t, row, u), row.type \in {"update_title", "update_url"}
    PROVE  InOrder(ApplyChange(rep, row), u)
<1> DEFINE after == ApplyChange(rep, row)
<1>1. /\ after.browser = rep.browser /\ DOMAIN u = DOMAIN t
      /\ \A m \in DOMAIN t : /\ after.mirror[m].pos = rep.mirror[m].pos
                             /\ u[m].parent = t[m].parent
  BY UpdateCopied
<1> HIDE DEF after
<1>2. \A p \in ParentRefs : Children(u, p) = Children(t, p) /\ Children(t, p) \cap PlacedBy(row) = {}
  BY <1>1 DEF Children, PlacedBy
<1>3. ASSUME NEW p \in ParentRefs
      PROVE  /\ Ordered(after.browser[p], Children(u, p), u)
             /\ \A m \in Children(t, p) : u[m].pos = t[m].pos
  BY <1>1, <1>2, Undisturbed DEF InOrder
<1>4. ASSUME NEW m \in DOMAIN u
      PROVE  after.mirror[m].pos = u[m].pos
  <2>1. t[m].parent \in ParentRefs /\ m \in Children(t, t[m].parent) /\ m \in DOMAIN t
    BY <1>1 DEF GoodNodes, Children, ParentRefs
  <2>2. u[m].pos = t[m].pos
    BY <1>3, <2>1
  <2>3. QED  BY <1>1, <2>1, <2>2 DEF InOrder
<1>5. QED  BY <1>3, <1>4 DEF InOrder, after

\* A move that the mirror takes for done has changed no order.
LEMMA SatisfiedInOrder ==
    ASSUME NEW rep, NEW t, GoodNodes(t), Copied(rep, t), InOrder(rep, t),
           NEW row, NEW u, RowStep(t, row, u), row.type = "move",
           MoveSatisfied(rep, row.node, row.payload)
    PROVE  InOrder(rep, u)
<1> DEFINE n == row.node
           p == row.payload.parent
           S == Children(t, p)
           base == S \ {n}
<1>1. /\ n \in DOMAIN t /\ DOMAIN u = DOMAIN t /\ p \in ParentRefs
      /\ Children(u, p) = Children(t, p) \cup {n}
      /\ \A q \in ParentRefs \ {p, t[n].parent} : Children(u, q) = Children(t, q)
  BY MoveReparents
<1>2. p = t[n].parent /\ u[n].pos = t[n].pos
  BY <1>1 DEF MoveSatisfied, Copied, MirrorOf, Like, InOrder, RowStep
<1>3. Children(u, p) = S /\ n \in S
  BY <1>1, <1>2 DEF Children
<1>4. PlacedBy(row) = {n} /\ GoodNodes(u)
  BY DEF PlacedBy, RowStep
<1> HIDE DEF n, p
<1>5. /\ Numbered(t, S) /\ Dense(t, S) /\ Numbered(u, S) /\ Dense(u, S)
  BY <1>1, <1>3, <1>4, ChildrenDense
<1>6. base \subseteq (Children(t, p) \cap DOMAIN u) \ PlacedBy(row)
  BY <1>1, <1>4 DEF Children
<1>7. \A a, b \in base : t[a].pos < t[b].pos <=> u[a].pos < u[b].pos
  <2> HIDE DEF base, S
  <2>1. QED  BY <1>6, StayInOrder
<1>8. \A a \in base : Rank(t, base, a) = Rank(u, base, a)
  BY <1>7, SameRanks
<1>9. ASSUME NEW a \in base
      PROVE  /\ t[a].pos < t[n].pos <=> u[a].pos < u[n].pos
             /\ t[n].pos < t[a].pos <=> u[n].pos < u[a].pos
  <2>1. /\ t[a].pos < t[n].pos <=> Rank(t, base, a) < t[n].pos
        /\ t[a].pos # t[n].pos
    BY <1>3, <1>5, PlacedAmong
  <2>2. /\ u[a].pos < u[n].pos <=> Rank(u, base, a) < u[n].pos
        /\ u[a].pos # u[n].pos
    BY <1>3, <1>5, PlacedAmong
  <2>3. /\ t[a].pos \in Nat /\ t[n].pos \in Nat /\ u[a].pos \in Nat /\ u[n].pos \in Nat
    BY <1>3, <1>5 DEF Numbered
  <2>4. Rank(t, base, a) = Rank(u, base, a)
    BY <1>8
  <2> HIDE DEF base, S
  <2>5. QED  BY <1>2, <2>1, <2>2, <2>3, <2>4
<1>10. ASSUME NEW a \in S, NEW b \in S
       PROVE  t[a].pos < t[b].pos <=> u[a].pos < u[b].pos
  <2>1. CASE a # n /\ b # n
    BY <1>7, <2>1
  <2>2. CASE a = n /\ b # n
    BY <1>9, <2>2
  <2>3. CASE a # n /\ b = n
    BY <1>9, <2>3
  <2>4. CASE a = n /\ b = n
    BY <1>2, <2>4
  <2>5. QED  BY <2>1, <2>2, <2>3, <2>4
<1>11. \A a \in S : t[a].pos = u[a].pos
  BY <1>5, <1>10, SamePositions
<1>12. \A q \in ParentRefs \ {p} : /\ Children(u, q) = Children(t, q)
                                   /\ Children(t, q) \cap PlacedBy(row) = {}
  BY <1>1, <1>2, <1>4 DEF Children
<1>13. ASSUME NEW q \in ParentRefs
       PROVE  /\ Ordered(rep.browser[q], Children(u, q), u)
              /\ \A m \in Children(t, q) : u[m].pos = t[m].pos
  <2>1. Ordered(rep.browser[q], Children(t, q), t)
    BY DEF InOrder
  <2>2. CASE q = p
    BY <1>3, <1>10, <1>11, <2>1, <2>2 DEF Ordered
  <2>3. CASE q # p
    BY <1>12, <2>1, <2>3, Undisturbed
  <2>4. QED  BY <2>2, <2>3
<1>14. \A m \in DOMAIN t : m \in Children(t, t[m].parent) /\ t[m].parent \in ParentRefs
  BY DEF Children, GoodNodes, ParentRefs
<1>15. \A m \in DOMAIN t : u[m].pos = t[m].pos
  BY <1>13, <1>14
<1>16. QED  BY <1>1, <1>13, <1>15 DEF InOrder

LEMMA MoveInOrder ==
    ASSUME NEW rep, NEW t, GoodNodes(t), Copied(rep, t), InOrder(rep, t),
           NEW row, NEW u, RowStep(t, row, u), row.type = "move",
           ~MoveSatisfied(rep, row.node, row.payload)
    PROVE  InOrder(ApplyMove(rep, row.node, row.payload), u)
<1> DEFINE n == row.node
           p == row.payload.parent
           from == t[n].parent
           put == PutInPlace(rep, p, row.payload.position, n)
           made == MovedRow(rep, n, row.payload)
           after == ApplyMove(rep, n, row.payload)
           half == WriteMirrorPositions(made, after.browser[p])
<1>1. /\ Copied(after, u) /\ after.browser[p] = put
      /\ from # p => after.browser[from] = Removed(rep.browser[from], n)
      /\ \A q \in ParentRefs \ {p, from} : after.browser[q] = rep.browser[q]
      /\ MirrorOf(made, u)
      /\ \A m \in DOMAIN t \ {n} : made[m].pos = rep.mirror[m].pos
      /\ after.mirror = WriteMirrorPositions(half, after.browser[from])
  BY MoveCopied
<1>2. /\ n \in DOMAIN t /\ DOMAIN u = DOMAIN t /\ n \in NodeIds
      /\ p = u[n].parent /\ p \in ParentRefs /\ from \in ParentRefs
      /\ \A m \in DOMAIN t \ {n} : Like(u[m], t[m])
      /\ Children(u, p) = Children(t, p) \cup {n}
      /\ from # p => Children(u, from) = Children(t, from) \ {n}
      /\ \A q \in ParentRefs \ {p, from} : Children(u, q) = Children(t, q)
  BY MoveReparents
<1>3. PlacedBy(row) = {n} /\ GoodNodes(u)
  BY DEF PlacedBy, RowStep
<1>4. Ordered(put, Children(u, p), u)
  BY <1>2, PlacedInOrder
<1>5. from # p => Ordered(Removed(rep.browser[from], n), Children(u, from), u)
  <2>1. SUFFICES ASSUME from # p
                 PROVE  Ordered(Removed(rep.browser[from], n), Children(u, from), u)
    OBVIOUS
  <2>2. Children(u, from) = Children(t, from) \ {n} /\ Kids(rep.browser[from])
    BY <1>2, <2>1 DEF Copied, Shows
  <2>3. Children(u, from) \subseteq (Children(t, from) \cap DOMAIN u) \ PlacedBy(row)
    BY <1>3, <2>2 DEF Children
  <2>4. Ordered(rep.browser[from], Children(u, from), t)
    BY <1>2, <2>2 DEF InOrder, Ordered
  <2>5. Ordered(rep.browser[from], Children(u, from), u)
    BY <2>3, <2>4, StayInOrder
  <2>6. \A a, b : Before(Removed(rep.browser[from], n), a, b)
                     <=> Before(rep.browser[from], a, b) /\ a # n /\ b # n
    BY <2>2, RemovedKids
  <2>7. n \notin Children(u, from)
    BY <2>2
  <2> HIDE DEF from, n
  <2>8. QED  BY <2>5, <2>6, <2>7 DEF Ordered
<1>6. ASSUME NEW q \in ParentRefs \ {p, from}
      PROVE  /\ Ordered(after.browser[q], Children(u, q), u)
             /\ \A m \in Children(t, q) : u[m].pos = t[m].pos
  <2>1. Children(u, q) = Children(t, q) /\ Children(t, q) \cap PlacedBy(row) = {}
    BY <1>2, <1>3, <1>6 DEF Children
  <2>2. Ordered(rep.browser[q], Children(t, q), t)
    BY <1>6 DEF InOrder
  <2>3. after.browser[q] = rep.browser[q]
    BY <1>1, <1>6
  <2>4. QED  BY <1>6, <2>1, <2>2, <2>3, Undisturbed
<1> HIDE DEF n, p, from, put, made, after, half
<1>7. \A q \in ParentRefs : Ordered(after.browser[q], Children(u, q), u)
  BY <1>1, <1>4, <1>5, <1>6
<1>8. \A q \in ParentRefs : Range(after.browser[q]) \cap NodeIds = Children(u, q)
  BY <1>1 DEF Copied, Shows
<1>9. \A m \in DOMAIN u : half[m].pos = IF m \in Children(u, p) THEN u[m].pos ELSE made[m].pos
  <2>1. Ordered(after.browser[p], Children(u, p), u)
    BY <1>2, <1>7
  <2>2. MirrorOf(made, u) /\ GoodNodes(u) /\ p \in ParentRefs
        /\ Range(after.browser[p]) \cap NodeIds = Children(u, p)
    BY <1>1, <1>2, <1>3, <1>8
  <2>3. \A m \in DOMAIN u : WriteMirrorPositions(made, after.browser[p])[m].pos
                                = IF m \in Children(u, p) THEN u[m].pos ELSE made[m].pos
    BY <2>1, <2>2, PositionsRead
  <2>4. QED  BY <2>3 DEF half
<1>10. \A m \in DOMAIN u :
           after.mirror[m].pos = IF m \in Children(u, from) THEN u[m].pos ELSE half[m].pos
  <2>1. MirrorOf(half, u)
    BY <1>1, PositionsWritten DEF half
  <2>2. Ordered(after.browser[from], Children(u, from), u)
    BY <1>2, <1>7
  <2>3. \A m \in DOMAIN u : WriteMirrorPositions(half, after.browser[from])[m].pos
                                = IF m \in Children(u, from) THEN u[m].pos ELSE half[m].pos
    BY <1>2, <1>3, <1>8, <2>1, <2>2, PositionsRead
  <2>4. QED  BY <1>1, <2>3
<1>11. ASSUME NEW m \in DOMAIN u
       PROVE  after.mirror[m].pos = u[m].pos
  <2>1. CASE m \in Children(u, p) \cup Children(u, from)
    BY <1>9, <1>10, <2>1
  <2>2. CASE m \notin Children(u, p) \cup Children(u, from)
    <3>1. m # n /\ m \in DOMAIN t \ {n}
      BY <1>2, <2>2
    <3>2. u[m].parent \in ParentRefs \ {p, from} /\ m \in Children(u, u[m].parent)
      BY <1>3, <2>2 DEF Children, GoodNodes, ParentRefs
    <3>3. u[m].pos = t[m].pos
      BY <1>2, <1>6, <3>2
    <3>4. after.mirror[m].pos = made[m].pos
      BY <1>9, <1>10, <2>2
    <3>5. QED  BY <1>1, <3>1, <3>3, <3>4 DEF InOrder
  <2>3. QED  BY <2>1, <2>2
<1>12. QED  BY <1>7, <1>11 DEF InOrder, after, n

---------------------------------------------------------------------------
(* One row, on the device *)

\* A row the server has written in a tree that is copied here always applies, and
\* leaves a copy of the tree it was written into.
LEMMA RowCopied ==
    ASSUME NEW rep, NEW t, GoodNodes(t), Copied(rep, t),
           NEW row, NEW u, RowStep(t, row, u)
    PROVE  /\ ~Unmapped(rep, row)
           /\ Copied(ApplyChange(rep, row), u)
           /\ row.type # "delete" /\ InOrder(rep, t) => InOrder(ApplyChange(rep, row), u)
<1>1. row.type \in {"create", "update_title", "update_url", "move", "delete"}
  BY DEF RowStep
<1>2. DOMAIN rep.mirror = DOMAIN t /\ NodeIds \cap RootKeys = {}
  BY ConstantsDisjoint DEF Copied, MirrorOf
<1>3. CASE row.type = "create"
  <2>1. ApplyChange(rep, row) = ApplyCreate(rep, row.node, row.payload)
    BY <1>3 DEF ApplyChange
  <2>2. /\ Copied(ApplyCreate(rep, row.node, row.payload), u)
        /\ row.payload.parent \in RootKeys \cup DOMAIN t
    BY <1>3, CreateCopied
  <2>3. ~Unmapped(rep, row)
    BY <1>2, <1>3, <2>2 DEF Unmapped
  <2>4. InOrder(rep, t) => InOrder(ApplyCreate(rep, row.node, row.payload), u)
    BY <1>3, CreateInOrder
  <2>5. QED  BY <2>1, <2>2, <2>3, <2>4
<1>4. CASE row.type \in {"update_title", "update_url"}
  <2>1. Copied(ApplyChange(rep, row), u) /\ row.node \in DOMAIN t
    BY <1>4, UpdateCopied
  <2>2. ~Unmapped(rep, row)
    BY <1>2, <1>4, <2>1 DEF Unmapped
  <2>3. InOrder(rep, t) => InOrder(ApplyChange(rep, row), u)
    BY <1>4, UpdateInOrder
  <2>4. QED  BY <2>1, <2>2, <2>3
<1>5. CASE row.type = "move"
  <2>1. ApplyChange(rep, row) = ApplyMove(rep, row.node, row.payload)
    BY <1>5 DEF ApplyChange
  <2>2. row.node \in DOMAIN t /\ row.payload.parent \in RootKeys \cup DOMAIN t
    BY <1>5, MoveReparents
  <2>3. ~Unmapped(rep, row)
    BY <1>2, <1>5, <2>2 DEF Unmapped
  <2>4. CASE MoveSatisfied(rep, row.node, row.payload)
    <3>1. ApplyMove(rep, row.node, row.payload) = rep
      BY <2>4 DEF ApplyMove
    <3>2. Copied(rep, u)
      <4>1. /\ row.node \in DOMAIN t /\ DOMAIN u = DOMAIN t
            /\ row.payload.parent = u[row.node].parent
            /\ u[row.node].title = t[row.node].title /\ u[row.node].url = t[row.node].url
            /\ \A m \in DOMAIN t \ {row.node} : Like(u[m], t[m])
        BY <1>5, MoveReparents
      <4>2. t[row.node].parent = row.payload.parent
        BY <2>2, <2>4 DEF MoveSatisfied, Copied, MirrorOf, Like
      <4>3. \A m \in DOMAIN t : Like(u[m], t[m])
        BY <4>1, <4>2 DEF Like
      <4>4. \A q \in ParentRefs : Children(u, q) = Children(t, q)
        BY <4>1, <4>3 DEF Children, Like
      <4>5. MirrorOf(rep.mirror, u)
        BY <4>1, <4>3 DEF Copied, MirrorOf, Like
      <4>6. QED  BY <4>4, <4>5 DEF Copied, Shows
    <3>3. InOrder(rep, t) => InOrder(rep, u)
      BY <1>5, <2>4, SatisfiedInOrder
    <3>4. QED  BY <2>1, <2>3, <3>1, <3>2, <3>3
  <2>5. CASE ~MoveSatisfied(rep, row.node, row.payload)
    <3>1. Copied(ApplyMove(rep, row.node, row.payload), u)
      BY <1>5, <2>5, MoveCopied
    <3>2. InOrder(rep, t) => InOrder(ApplyMove(rep, row.node, row.payload), u)
      BY <1>5, <2>5, MoveInOrder
    <3>3. QED  BY <2>1, <2>3, <3>1, <3>2
  <2>6. QED  BY <2>4, <2>5
<1>6. CASE row.type = "delete"
  <2>1. ApplyChange(rep, row) = ApplyDelete(rep, row.node) /\ ~Unmapped(rep, row)
    BY <1>6 DEF ApplyChange, Unmapped
  <2>2. QED  BY <1>6, <2>1, DeleteCopied
<1>7. QED  BY <1>1, <1>3, <1>4, <1>5, <1>6

\* The replay of a row keeps the replayed tree like the server's.
LEMMA RowReplayed ==
    ASSUME NEW r, NEW t, GoodNodes(t), MirrorOf(r, t), NEW row, NEW u, RowStep(t, row, u)
    PROVE  MirrorOf(ReplayChange(r, row), u)
<1> DEFINE n == row.node
           after == ReplayChange(r, row)
<1>1. row.type \in {"create", "update_title", "update_url", "move", "delete"}
  BY DEF RowStep
<1>2. DOMAIN r = DOMAIN t /\ \A m \in DOMAIN t : DOMAIN r[m] = MirrorColumns /\ Like(r[m], t[m])
  BY DEF MirrorOf
<1>3. \A m \in DOMAIN u \ {n} : m \in DOMAIN t /\ Like(u[m], t[m])
  BY DEF RowStep
<1>4. row.type # "delete" =>
          /\ n \in DOMAIN t <=> row.type # "create"
          /\ DOMAIN u = DOMAIN t \cup {n}
          /\ \A f \in Edited : u[n][f] = IF f \in FieldsOf(row.type) THEN row.payload[f] ELSE t[n][f]
  <2>1. SUFFICES ASSUME row.type # "delete"
                 PROVE  /\ n \in DOMAIN t <=> row.type # "create"
                        /\ DOMAIN u = DOMAIN t \cup {n}
                        /\ \A f \in Edited : u[n][f] = IF f \in FieldsOf(row.type)
                                                       THEN row.payload[f] ELSE t[n][f]
    OBVIOUS
  <2>2. (n \in DOMAIN t <=> row.type # "create") /\ DOMAIN u = DOMAIN t \cup {n}
    <3>1. CASE row.type = "create"
      BY <3>1 DEF RowStep, Repeopled
    <3>2. CASE row.type # "create"
      BY <1>1, <2>1, <3>2 DEF RowStep, Repeopled
    <3>3. QED  BY <3>1, <3>2
  <2>3. /\ \A f \in Edited : Rewritten(t, row, u, f)
        /\ \A f \in Edited : f \in FieldsOf(row.type) <=> f \in DOMAIN row.payload
    BY <2>1 DEF RowStep
  <2>4. QED  BY <2>2, <2>3 DEF Rewritten
\* What is left to see is the row of the node itself.
<1>5. ASSUME row.type # "delete", DOMAIN after = DOMAIN t \cup {n},
             \A m \in DOMAIN t \ {n} : after[m] = r[m],
             DOMAIN after[n] = MirrorColumns, Like(after[n], u[n])
      PROVE  MirrorOf(after, u)
  <2> HIDE DEF after, n
  <2>1. ASSUME NEW m \in DOMAIN u
        PROVE  DOMAIN after[m] = MirrorColumns /\ Like(after[m], u[m])
    <3>1. CASE m = n
      BY <1>5, <3>1
    <3>2. CASE m # n
      BY <1>2, <1>3, <1>5, <3>2 DEF Like
    <3>3. QED  BY <3>1, <3>2
  <2>2. QED  BY <1>4, <1>5, <2>1 DEF MirrorOf
<1>6. CASE row.type = "create"
  <2> DEFINE new == [title |-> row.payload.title, url |-> row.payload.url,
                     parent |-> row.payload.parent, pos |-> row.payload.position]
  <2>1. after = With(r, n, new)
    BY <1>6 DEF ReplayChange
  <2>2. DOMAIN new = MirrorColumns /\ Like(new, u[n])
    BY <1>4, <1>6 DEF MirrorColumns, Like, Edited, FieldsOf
  <2> HIDE DEF new, after, n
  <2>3. /\ DOMAIN after = DOMAIN t \cup {n} /\ after[n] = new
        /\ \A m \in DOMAIN t \ {n} : after[m] = r[m]
    BY <1>2, <2>1 DEF With
  <2>4. QED  BY <1>5, <1>6, <2>2, <2>3 DEF after, n
<1>7. CASE row.type = "update_title"
  <2>1. after = [r EXCEPT ![n].title = row.payload.title]
    BY <1>7 DEF ReplayChange
  <2>2. /\ n \in DOMAIN t /\ u[n].title = row.payload.title /\ u[n].url = t[n].url
        /\ u[n].parent = t[n].parent
    BY <1>4, <1>7 DEF Edited, FieldsOf
  <2> HIDE DEF after, n
  <2>3. DOMAIN after = DOMAIN t \cup {n} /\ \A m \in DOMAIN t \ {n} : after[m] = r[m]
    BY <1>2, <2>1, <2>2
  <2>4. DOMAIN after[n] = MirrorColumns /\ Like(after[n], u[n])
    BY <1>2, <2>1, <2>2 DEF MirrorColumns, Like
  <2>5. QED  BY <1>5, <1>7, <2>3, <2>4 DEF after, n
<1>8. CASE row.type = "update_url"
  <2>1. after = [r EXCEPT ![n].url = row.payload.url]
    BY <1>8 DEF ReplayChange
  <2>2. /\ n \in DOMAIN t /\ u[n].url = row.payload.url /\ u[n].title = t[n].title
        /\ u[n].parent = t[n].parent
    BY <1>4, <1>8 DEF Edited, FieldsOf
  <2> HIDE DEF after, n
  <2>3. DOMAIN after = DOMAIN t \cup {n} /\ \A m \in DOMAIN t \ {n} : after[m] = r[m]
    BY <1>2, <2>1, <2>2
  <2>4. DOMAIN after[n] = MirrorColumns /\ Like(after[n], u[n])
    BY <1>2, <2>1, <2>2 DEF MirrorColumns, Like
  <2>5. QED  BY <1>5, <1>8, <2>3, <2>4 DEF after, n
<1>9. CASE row.type = "move"
  <2> DEFINE one == [r EXCEPT ![n].parent = row.payload.parent]
  <2>1. after = [one EXCEPT ![n].pos = row.payload.position]
    BY <1>9 DEF ReplayChange
  <2>2. /\ n \in DOMAIN t /\ u[n].parent = row.payload.parent /\ u[n].title = t[n].title
        /\ u[n].url = t[n].url
    BY <1>4, <1>9 DEF Edited, FieldsOf
  <2>3. /\ DOMAIN one = DOMAIN t /\ \A m \in DOMAIN t \ {n} : one[m] = r[m]
        /\ DOMAIN one[n] = MirrorColumns /\ Like(one[n], u[n])
    BY <1>2, <2>2 DEF MirrorColumns, Like
  <2> HIDE DEF one, after, n
  <2>4. DOMAIN after = DOMAIN t \cup {n} /\ \A m \in DOMAIN t \ {n} : after[m] = r[m]
    BY <2>1, <2>2, <2>3
  <2>5. DOMAIN after[n] = MirrorColumns /\ Like(after[n], u[n])
    BY <2>1, <2>2, <2>3 DEF MirrorColumns, Like
  <2>6. QED  BY <1>5, <1>9, <2>4, <2>5 DEF after, n
<1>10. CASE row.type = "delete"
  <2>1. after = Without(r, SubtreeIDs(r, n)) /\ DOMAIN u = DOMAIN t \ SubtreeIDs(t, n)
        /\ n \in DOMAIN t
    BY <1>10 DEF ReplayChange, RemoveSubtree, RowStep, Repeopled
  <2>2. SubtreeIDs(r, n) = SubtreeIDs(t, n)
    BY <1>2, SameSubtree DEF Like
  <2>3. n \notin DOMAIN u
    BY <2>1, SubtreeTop
  <2> HIDE DEF after, n
  <2>4. after = [m \in DOMAIN u |-> r[m]]
    BY <1>2, <2>1, <2>2 DEF Without
  <2>5. QED  BY <1>2, <1>3, <2>3, <2>4 DEF MirrorOf, Like, after
<1>11. QED  BY <1>1, <1>6, <1>7, <1>8, <1>9, <1>10

---------------------------------------------------------------------------
(* The invariant *)

\* No row up to a deletes a subtree.
NoDelete(sp, a) == \A r \in 1 .. a : sp.journal[r].type # "delete"

\* h holds the trees the rows after a were written into: the device has a copy of the
\* one at its own revision, and each row leads to the next, up to the tree of now.
Trees(h, sp, rep, rpl, a) ==
    /\ h[sp.rev] = sp.nodes
    /\ \A r \in a .. sp.rev : GoodNodes(h[r])
    /\ \A r \in a + 1 .. sp.rev : RowStep(h[r - 1], sp.journal[r], h[r])
    /\ Copied(rep, h[a]) /\ MirrorOf(rpl, h[a])
    /\ NoDelete(sp, a) => InOrder(rep, h[a])

\* The server keeps no old tree; that there were such trees is what makes the rows fit.
Follows(sp, rep, rpl, a) ==
    /\ sp.floor = 0 /\ sp.rev \in Nat /\ a \in 0 .. sp.rev
    /\ \E h : Trees(h, sp, rep, rpl, a)

FollowInv == RowsInv /\ Follows(space, replica, replayed, applied)

\* A device that has applied nothing has a copy of the empty tree.
LEMMA InitFollows == ReplayInit => FollowInv
<1> SUFFICES ASSUME ReplayInit PROVE Follows(space, replica, replayed, applied)
  BY InitRowsInv DEF ReplayInit, FollowInv
<1>1. RowsInv /\ space = EmptySpace
  BY InitRowsInv DEF ReplayInit, Init
<1>2. /\ space.floor = 0 /\ space.rev = 0 /\ applied = 0 /\ DOMAIN space.nodes = {}
      /\ GoodNodes(space.nodes)
  BY <1>1, GoodSpaceNodes DEF EmptySpace, ReplayInit, RowsInv
<1>3. DOMAIN replica.mirror = {} /\ DOMAIN replayed = {} /\ DOMAIN replica.browser = ParentRefs
      /\ DOMAIN replica = {"browser", "mirror"}
      /\ \A p \in ParentRefs : replica.browser[p] = <<>>
  BY DEF ReplayInit, EmptyReplica
<1>4. Kids(<<>>) /\ Range(<<>>) = {}
  BY DEF Kids, IsInjective, Range
<1>5. \A p \in ParentRefs : Children(space.nodes, p) = {}
  BY <1>2 DEF Children
<1>6. Copied(replica, space.nodes) /\ MirrorOf(replayed, space.nodes)
  BY <1>2, <1>3, <1>4, <1>5 DEF Copied, MirrorOf, Shows
<1>7. InOrder(replica, space.nodes)
  BY <1>2, <1>5 DEF InOrder, Ordered
<1> DEFINE h == [r \in 0 .. 0 |-> space.nodes]
<1>8. \A r \in 0 .. 0 : h[r] = space.nodes
  OBVIOUS
<1>9. Trees(h, space, replica, replayed, applied)
  <2> HIDE DEF h
  <2>1. QED  BY <1>2, <1>6, <1>7, <1>8 DEF Trees
<1>10. QED  BY <1>2, <1>9 DEF Follows

\* One more row on the server: the tree it leads to is the tree of now.
LEMMA WriteFollows ==
    ASSUME FollowInv, NEW o \in Origins, NEW c, Ran(c, o)
    PROVE  Follows(space', replica, replayed, applied)
<1>1. GoodSpace(space) /\ Executable(space, c) /\ space' = Execute(space, c, o)
  BY DEF FollowInv, RowsInv, Ran
<1> DEFINE after == Execute(space, c, o)
<1>2. \/ after = space
      \/ \E row : OneMoreRow(space, after, row) /\ RowStep(space.nodes, row, after.nodes)
  BY <1>1, CommandStep
<1> SUFFICES Follows(after, replica, replayed, applied)
  BY <1>1
<1> HIDE DEF after
<1>3. CASE after = space
  BY <1>3 DEF FollowInv
<1>4. ASSUME NEW row, OneMoreRow(space, after, row), RowStep(space.nodes, row, after.nodes)
      PROVE  Follows(after, replica, replayed, applied)
  <2>1. /\ space.floor = 0 /\ space.rev \in Nat /\ applied \in 0 .. space.rev
        /\ DOMAIN space.journal = 1 .. space.rev
    BY <1>1 DEF FollowInv, Follows, GoodSpace, GoodRows, LiveRows, JournalSpans
  <2>2. PICK h : Trees(h, space, replica, replayed, applied)
    BY DEF FollowInv, Follows
  <2>3. /\ after.floor = 0 /\ after.rev = space.rev + 1 /\ after.journal[space.rev + 1] = row
        /\ \A r \in 1 .. space.rev : after.journal[r] = space.journal[r]
    BY <1>4, <2>1 DEF OneMoreRow
  <2> DEFINE more == [r \in 0 .. space.rev + 1 |->
                         IF r = space.rev + 1 THEN after.nodes ELSE h[r]]
  <2>4. /\ more[space.rev + 1] = after.nodes
        /\ \A r \in 0 .. space.rev : more[r] = h[r]
    BY <2>1
  <2> HIDE DEF more
  <2>5. ASSUME NEW r \in applied .. after.rev
        PROVE  GoodNodes(more[r])
    <3>1. CASE r = space.rev + 1
      BY <1>4, <2>4, <3>1 DEF RowStep
    <3>2. CASE r # space.rev + 1
      <4>1. r \in applied .. space.rev /\ r \in 0 .. space.rev
        BY <2>1, <2>3, <3>2
      <4>2. QED  BY <2>2, <2>4, <4>1 DEF Trees
    <3>3. QED  BY <3>1, <3>2
  <2>6. ASSUME NEW r \in applied + 1 .. after.rev
        PROVE  RowStep(more[r - 1], after.journal[r], more[r])
    <3>1. CASE r = space.rev + 1
      <4>1. r - 1 = space.rev /\ space.rev \in 0 .. space.rev /\ h[space.rev] = space.nodes
        BY <2>1, <2>2, <3>1 DEF Trees
      <4>2. more[r - 1] = space.nodes /\ more[r] = after.nodes /\ after.journal[r] = row
        BY <2>3, <2>4, <3>1, <4>1
      <4>3. QED  BY <1>4, <4>2
    <3>2. CASE r # space.rev + 1
      <4>1. /\ r \in applied + 1 .. space.rev /\ r \in 0 .. space.rev
            /\ r - 1 \in 0 .. space.rev /\ r \in 1 .. space.rev
        BY <2>1, <2>3, <3>2
      <4>2. RowStep(h[r - 1], space.journal[r], h[r])
        BY <2>2, <4>1 DEF Trees
      <4>3. QED  BY <2>3, <2>4, <4>1, <4>2
    <3>3. QED  BY <3>1, <3>2
  <2>7. more[applied] = h[applied]
    BY <2>1, <2>4
  <2>8. NoDelete(after, applied) => NoDelete(space, applied)
    <3>1. 1 .. applied \subseteq 1 .. space.rev
      BY <2>1
    <3>2. QED  BY <2>3, <3>1 DEF NoDelete
  <2>9. Trees(more, after, replica, replayed, applied)
    BY <2>2, <2>3, <2>4, <2>5, <2>6, <2>7, <2>8 DEF Trees
  <2>10. after.rev \in Nat /\ applied \in 0 .. after.rev
    BY <2>1, <2>3
  <2>11. QED  BY <2>3, <2>9, <2>10 DEF Follows
<1>5. QED  BY <1>2, <1>3, <1>4

\* The device applies its next row, and is one tree further.
LEMMA ApplyFollows ==
    ASSUME FollowInv, ApplyNext
    PROVE  Follows(space, replica', replayed', applied')
<1>1. /\ space.floor = 0 /\ space.rev \in Nat /\ applied \in 0 .. space.rev
      /\ applied < space.rev /\ applied' = applied + 1
  BY DEF FollowInv, Follows, ApplyNext
<1> DEFINE row == space.journal[applied + 1]
<1>2. replica' = ApplyChange(replica, row) /\ replayed' = ReplayChange(replayed, row)
  BY DEF ApplyNext
<1>3. PICK h : Trees(h, space, replica, replayed, applied)
  BY DEF FollowInv, Follows
<1>4. /\ applied \in applied .. space.rev /\ applied + 1 \in applied + 1 .. space.rev
      /\ (applied + 1) - 1 = applied
  BY <1>1
<1>5. /\ GoodNodes(h[applied]) /\ Copied(replica, h[applied]) /\ MirrorOf(replayed, h[applied])
      /\ RowStep(h[applied], row, h[applied + 1])
      /\ NoDelete(space, applied) => InOrder(replica, h[applied])
  <2>1. RowStep(h[(applied + 1) - 1], space.journal[applied + 1], h[applied + 1])
    BY <1>3, <1>4 DEF Trees
  <2>2. QED  BY <1>3, <1>4, <2>1 DEF Trees
<1>6. /\ Copied(replica', h[applied + 1])
      /\ row.type # "delete" /\ InOrder(replica, h[applied])
             => InOrder(replica', h[applied + 1])
  BY <1>2, <1>5, RowCopied
<1>7. MirrorOf(replayed', h[applied + 1])
  BY <1>2, <1>5, RowReplayed
<1>8. NoDelete(space, applied + 1) => NoDelete(space, applied) /\ row.type # "delete"
  BY <1>1 DEF NoDelete
<1>9. /\ \A r \in applied + 1 .. space.rev : r \in applied .. space.rev
      /\ \A r \in (applied + 1) + 1 .. space.rev : r \in applied + 1 .. space.rev
  BY <1>1
<1> HIDE DEF row
<1>10. Trees(h, space, replica', replayed', applied + 1)
  BY <1>3, <1>5, <1>6, <1>7, <1>8, <1>9 DEF Trees
<1>11. applied + 1 \in 0 .. space.rev
  BY <1>1
<1>12. QED  BY <1>1, <1>10, <1>11 DEF Follows

\* A bookmark of the user's own takes a place and changes nothing else.
LEMMA LocalFollows ==
    ASSUME FollowInv, NEW l \in Locals, NEW p \in ParentRefs, NEW i, AddLocal(l, p, i)
    PROVE  Follows(space, replica', replayed, applied)
<1>1. PICK h : Trees(h, space, replica, replayed, applied)
  BY DEF FollowInv, Follows
<1> DEFINE t == h[applied]
           kids == replica.browser[p]
           more == InsertAt(kids, i, l)
<1>2. /\ l \notin Range(kids) /\ i \in 1 .. Len(kids) + 1
      /\ replica' = [replica EXCEPT !.browser[p] = more]
  BY DEF AddLocal
<1>3. l \in Places /\ l \notin NodeIds
  BY LocalsHaveNoId DEF Places, ParentRefs
<1>4. /\ DOMAIN replica = {"browser", "mirror"} /\ DOMAIN replica.browser = ParentRefs
      /\ \A q \in ParentRefs : /\ Kids(replica.browser[q])
                               /\ Range(replica.browser[q]) \cap NodeIds = Children(t, q)
      /\ MirrorOf(replica.mirror, t)
  BY <1>1 DEF Trees, Copied, Shows
<1>5. /\ Kids(more) /\ Range(more) = Range(kids) \cup {l}
      /\ \A a, b : a # l /\ b # l => (Before(more, a, b) <=> Before(kids, a, b))
  BY <1>2, <1>3, <1>4, InsertedKids
<1> HIDE DEF kids, more, t
<1>6. /\ DOMAIN replica' = {"browser", "mirror"} /\ DOMAIN replica'.browser = ParentRefs
      /\ replica'.mirror = replica.mirror /\ replica'.browser[p] = more
      /\ \A q \in ParentRefs \ {p} : replica'.browser[q] = replica.browser[q]
  BY <1>2, <1>4
<1>7. ASSUME NEW q \in ParentRefs
      PROVE  /\ Kids(replica'.browser[q])
             /\ Range(replica'.browser[q]) \cap NodeIds = Children(t, q)
             /\ \A a, b \in Children(t, q) :
                    Before(replica'.browser[q], a, b) <=> Before(replica.browser[q], a, b)
  <2>1. CASE q = p
    <3>1. Range(kids) \cap NodeIds = Children(t, q)
      BY <1>4, <2>1 DEF kids
    <3>2. \A a \in Children(t, q) : a # l
      BY <1>3, <3>1
    <3>3. \A a, b \in Children(t, q) : Before(more, a, b) <=> Before(kids, a, b)
      BY <1>5, <3>2
    <3>4. QED  BY <1>3, <1>5, <1>6, <2>1, <3>1, <3>3 DEF kids
  <2>2. CASE q # p
    BY <1>4, <1>6, <2>2
  <2>3. QED  BY <2>1, <2>2
<1>8. Copied(replica', t)
  BY <1>4, <1>6, <1>7 DEF Copied, Shows
<1>9. InOrder(replica, t) => InOrder(replica', t)
  <2>1. SUFFICES ASSUME InOrder(replica, t) PROVE InOrder(replica', t)
    OBVIOUS
  <2>2. \A q \in ParentRefs : Ordered(replica'.browser[q], Children(t, q), t)
    BY <1>7, <2>1 DEF InOrder, Ordered
  <2>3. QED  BY <1>6, <2>1, <2>2 DEF InOrder
<1>10. Trees(h, space, replica', replayed, applied)
  BY <1>1, <1>8, <1>9 DEF Trees, t
<1>11. QED  BY <1>10 DEF Follows, FollowInv

\* Every step keeps the trees.
LEMMA NextFollows == FollowInv /\ [ReplayNext]_vars => FollowInv'
<1> SUFFICES ASSUME FollowInv, [ReplayNext]_vars PROVE FollowInv'
  OBVIOUS
<1>1. RowsInv
  BY DEF FollowInv
<1>2. CASE Write
  <2>1. Next /\ replica' = replica /\ replayed' = replayed /\ applied' = applied
    BY <1>2 DEF Write
  <2>2. PICK o \in Origins : \E c : Ran(c, o)
    BY <1>1, <2>1, CommandRan DEF Next, RowsInv
  <2>3. PICK c : Ran(c, o)
    BY <2>2
  <2>4. Follows(space', replica, replayed, applied)
    BY <2>3, WriteFollows
  <2>5. RowsInv'
    BY <1>1, <2>1, NextRowsInv
  <2>6. QED  BY <2>1, <2>4, <2>5 DEF FollowInv
<1>3. CASE ApplyNext
  <2>1. UNCHANGED treeVars /\ space' = space
    BY <1>3 DEF ApplyNext, treeVars
  <2>2. RowsInv'
    BY <1>1, <2>1, NextRowsInv
  <2>3. QED  BY <1>3, <2>1, <2>2, ApplyFollows DEF FollowInv
<1>4. ASSUME NEW l \in Locals, NEW p \in ParentRefs, NEW i, AddLocal(l, p, i)
      PROVE  FollowInv'
  <2>1. UNCHANGED treeVars /\ space' = space /\ replayed' = replayed /\ applied' = applied
    BY <1>4 DEF AddLocal, treeVars
  <2>2. RowsInv'
    BY <1>1, <2>1, NextRowsInv
  <2>3. QED  BY <1>4, <2>1, <2>2, LocalFollows DEF FollowInv
<1>5. CASE UNCHANGED vars
  <2>1. UNCHANGED treeVars /\ space' = space /\ UNCHANGED <<replica, replayed, applied>>
    BY <1>5 DEF vars, treeVars
  <2>2. RowsInv'
    BY <1>1, <2>1, NextRowsInv
  <2>3. QED  BY <2>1, <2>2 DEF FollowInv
<1>6. QED  BY <1>2, <1>3, <1>4, <1>5 DEF ReplayNext

LEMMA FollowsAlways == ReplaySpec => []FollowInv
BY InitFollows, NextFollows, PTL DEF ReplaySpec

---------------------------------------------------------------------------
(* What the runs check *)

\* However many creates, edits, moves and subtree deletes the server has journaled and
\* however far behind the device is, its next row names only nodes and folders it has
\* mapped; and a device that has applied them all shows exactly the live nodes, with
\* title, URL and parent, each once, among any bookmarks of the user's own
\* (remoteChangeApplier.ts:110-300; changes in revision order, syncCoordinator.ts).
THEOREM ReplicaHasTheContent == ReplaySpec => []ReplicaContent
<1>1. FollowInv => ReplicaContent
  <2> SUFFICES ASSUME FollowInv PROVE ReplicaContent
    OBVIOUS
  <2>1. PICK h : Trees(h, space, replica, replayed, applied)
    BY DEF FollowInv, Follows
  <2>2. space.rev \in Nat /\ applied \in 0 .. space.rev
    BY DEF FollowInv, Follows
  <2>3. NextRowApplies
    <3>1. SUFFICES ASSUME applied < space.rev
                   PROVE  ~Unmapped(replica, space.journal[applied + 1])
      BY DEF NextRowApplies
    <3>2. /\ applied \in applied .. space.rev /\ applied + 1 \in applied + 1 .. space.rev
          /\ (applied + 1) - 1 = applied
      BY <2>2, <3>1
    <3>3. RowStep(h[(applied + 1) - 1], space.journal[applied + 1], h[applied + 1])
      BY <2>1, <3>2 DEF Trees
    <3>4. GoodNodes(h[applied]) /\ Copied(replica, h[applied])
      BY <2>1, <3>2 DEF Trees
    <3>5. QED  BY <3>2, <3>3, <3>4, RowCopied
  <2>4. CaughtUp => Copied(replica, space.nodes)
    BY <2>1 DEF CaughtUp, Trees
  <2>5. QED  BY <2>3, <2>4 DEF ReplicaContent, Copied, MirrorOf, Shows, Like, Kids
<1>2. QED  BY <1>1, FollowsAlways, PTL

\* Until the first subtree delete the browser shows the server's order too, whatever
\* bookmarks of the user's own stand between, and every mirror row holds the server's
\* position: the slot the applier computes from the ranks of the mapped siblings is the
\* right one (remoteChangeApplier.ts, browserIndexForPosition, writeMirrorPositions).
THEOREM OrderStaysUntilDelete == ReplaySpec => []OrderKeptUntilDelete
<1>1. FollowInv => OrderKeptUntilDelete
  <2> SUFFICES ASSUME FollowInv, CaughtUp, DOMAIN space.tomb = {}
               PROVE  /\ \A p \in ParentRefs : InServerOrder(p)
                      /\ \A n \in DOMAIN space.nodes : replica.mirror[n].pos = space.nodes[n].pos
    BY DEF OrderKeptUntilDelete
  <2>1. PICK h : Trees(h, space, replica, replayed, applied)
    BY DEF FollowInv, Follows
  <2>2. space.rev \in Nat /\ space.floor = 0 /\ GoodRows(space)
    BY DEF FollowInv, Follows, RowsInv, GoodSpace, TypedSpace, IsSpace
  <2>3. NoDelete(space, applied)
    <3>1. DOMAIN space.journal = 1 .. applied
      BY <2>2 DEF CaughtUp, GoodRows, LiveRows, JournalSpans
    <3>2. \A r \in DOMAIN space.journal : space.journal[r].type # "delete"
      BY <2>2 DEF GoodRows, LiveRows, TombsAgree
    <3>3. QED  BY <3>1, <3>2 DEF NoDelete
  <2>4. InOrder(replica, space.nodes)
    BY <2>1, <2>3 DEF CaughtUp, Trees
  <2>5. QED  BY <2>4 DEF InOrder, Ordered, InServerOrder
<1>2. QED  BY <1>1, FollowsAlways, PTL

\* A replay of every row has the server's nodes with their titles, URLs and parents,
\* for journals of any length (canonicalTree.ts:44-97).
THEOREM ReplayHasTheContent == ReplaySpec => []ReplayContent
<1>1. FollowInv => ReplayContent
  <2> SUFFICES ASSUME FollowInv, CaughtUp
               PROVE  /\ DOMAIN replayed = DOMAIN space.nodes
                      /\ \A n \in DOMAIN replayed :
                             /\ replayed[n].title = space.nodes[n].title
                             /\ replayed[n].url = space.nodes[n].url
                             /\ replayed[n].parent = space.nodes[n].parent
    BY DEF ReplayContent
  <2>1. PICK h : Trees(h, space, replica, replayed, applied)
    BY DEF FollowInv, Follows
  <2>2. MirrorOf(replayed, space.nodes)
    BY <2>1 DEF CaughtUp, Trees
  <2>3. QED  BY <2>2 DEF MirrorOf, Like
<1>2. QED  BY <1>1, FollowsAlways, PTL
=============================================================================
