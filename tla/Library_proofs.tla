---------------------------- MODULE Library_proofs ----------------------------
(***************************************************************************)
(* What TLAPS proves of the library, for any spaces, ids, titles, URLs and *)
(* bounds: whatever is edited, undone, restored from a backup, imported,   *)
(* applied from a publication or transferred, no live node has a           *)
(* tombstone, siblings stay numbered and every parent is there; a bookmark *)
(* is deleted on the word of a link check only if it is the one the check  *)
(* has seen; an undo spares what was written after its change set; and a   *)
(* transfer loses nothing, adds nothing and keeps fields, parents, order.  *)
(*                                                                         *)
(* The argument goes by batches: whatever list of commands a batch comes   *)
(* from, each keeps the rows and touches only its own node (CommandLemmas),*)
(* and the ids it creates are either new or those whose tombstones the     *)
(* undo takes away. A transfer adds to this that the list it copies is the *)
(* whole subtree, parents first, which its own success shows.              *)
(***************************************************************************)
EXTENDS Library, CommandLemmas, SequenceTheorems, WellFoundedInduction

---------------------------------------------------------------------------
(* Lists *)

\* Induction over the naturals, for a set in the place of a predicate.
LEMMA Induct ==
    ASSUME NEW T, 0 \in T, \A k \in Nat : k \in T => k + 1 \in T
    PROVE  Nat \subseteq T
<1>1. SUFFICES ASSUME Nat \ T # {} PROVE FALSE
  OBVIOUS
<1>2. PICK x \in Nat \ T : \A y \in Nat \ T : ~(<<y, x>> \in OpToRel(<, Nat))
  BY <1>1, WFMin, NatLessThanWellFounded
<1>3. \A y \in Nat \ T : ~(y < x)
  BY <1>2 DEF OpToRel
<1>4. x # 0
  OBVIOUS
<1>5. x - 1 \in Nat /\ x - 1 < x
  BY <1>4
<1>6. x - 1 \in T
  BY <1>3, <1>5
<1>7. (x - 1) + 1 = x
  OBVIOUS
<1>8. QED  BY <1>5, <1>6, <1>7

\* A function on an initial segment of the naturals is a list.
LEMMA ListOf ==
    ASSUME NEW S, NEW n \in Nat, NEW f, DOMAIN f = 1 .. n, f = [k \in DOMAIN f |-> f[k]],
           \A k \in 1 .. n : f[k] \in S
    PROVE  f \in Seq(S) /\ Len(f) = n
OBVIOUS

\* A list of members of S is one of members of a larger set.
LEMMA ListGrows ==
    ASSUME NEW S, NEW T, S \subseteq T, NEW f \in Seq(S)
    PROVE  f \in Seq(T)
OBVIOUS

LEMMA OneLongList ==
    ASSUME NEW S, NEW x \in S
    PROVE  <<x>> \in Seq(S)
OBVIOUS

\* The children of a node, in order, are a list of nodes.
LEMMA InOrderLists ==
    ASSUME NEW sp, TypedSpace(sp), DenseSiblings(sp), NEW p \in ParentRefs
    PROVE  InOrder(sp.nodes, p) \in Seq(DOMAIN sp.nodes)
<1> DEFINE kids == Children(sp.nodes, p)
           nth(k) == CHOOSE n \in kids : Rank(sp.nodes, kids, n) = k - 1
<1>1. Numbered(sp.nodes, kids) /\ Dense(sp.nodes, kids) /\ kids \subseteq DOMAIN sp.nodes
  BY ChildrenNumbered, ChildrenFinite DEF DenseSiblings, TypedSpace
<1>2. Cardinality(kids) \in Nat
  BY <1>1, FS_CardinalityType DEF Numbered
<1>3. ASSUME NEW k \in 1 .. Cardinality(kids) PROVE nth(k) \in DOMAIN sp.nodes
  <2>1. k - 1 \in 0 .. Cardinality(kids) - 1
    BY <1>2
  <2>2. PICK n \in kids : sp.nodes[n].pos = k - 1
    BY <1>1, <2>1 DEF Dense
  <2> HIDE DEF kids
  <2>3. Rank(sp.nodes, kids, n) = k - 1
    BY <1>1, <2>2, DenseRank
  <2>4. QED  BY <1>1, <2>3
<1>4. InOrder(sp.nodes, p) = [k \in 1 .. Cardinality(kids) |-> nth(k)]
  BY DEF InOrder
<1> HIDE DEF kids, nth
<1>5. QED  BY <1>2, <1>3, <1>4

\* A list with the children of one of its members put in, or appended.
LEMMA Expanded ==
    ASSUME NEW D, NEW last \in Seq(D), NEW kids \in Seq(D), NEW k \in Nat, k # 0
    PROVE  /\ last \o kids \in Seq(D)
           /\ k <= Len(last) =>
                  SubSeq(last, 1, k) \o kids \o SubSeq(last, k + 1, Len(last)) \in Seq(D)
<1>1. last \o kids \in Seq(D)
  OBVIOUS
<1>2. ASSUME k <= Len(last)
      PROVE  SubSeq(last, 1, k) \o kids \o SubSeq(last, k + 1, Len(last)) \in Seq(D)
  <2>1. SubSeq(last, 1, k) \in Seq(D) /\ SubSeq(last, k + 1, Len(last)) \in Seq(D)
    <3>1. \A i \in 1 .. Len(last) : last[i] \in D
      OBVIOUS
    <3>2. QED  BY <1>2, <3>1, SubSeqProperties
  <2>2. QED  BY <2>1
<1>3. QED  BY <1>1, <1>2

\* A walk of a tree goes over nodes of the tree alone.
LEMMA TraversalVisits ==
    ASSUME NEW sp, TypedSpace(sp), DenseSiblings(sp), NEW list \in Seq(DOMAIN sp.nodes), NEW deep
    PROVE  Traversal(sp.nodes, list, deep) \in Seq(DOMAIN sp.nodes)
<1> DEFINE D == DOMAIN sp.nodes
           size == Cardinality(D)
           run(last, k) ==
               IF k > Len(last) THEN last
               ELSE IF deep
               THEN SubSeq(last, 1, k) \o InOrder(sp.nodes, last[k]) \o SubSeq(last, k + 1, Len(last))
               ELSE last \o InOrder(sp.nodes, last[k])
           Rec(g, n) == g = [k \in 0 .. n |-> IF k = 0 THEN list ELSE run(g[k - 1], k)]
           T == {n \in Nat : \E g : Rec(g, n)}
<1>0. size \in Nat
  BY FS_CardinalityType DEF TypedSpace
<1>1. 0 \in T
  <2>1. Rec([k \in 0 .. 0 |-> list], 0)
    OBVIOUS
  <2>2. QED  BY <2>1
<1>2. ASSUME NEW n \in Nat, n \in T PROVE n + 1 \in T
  <2>1. PICK g : Rec(g, n)
    BY <1>2
  <2> DEFINE h == [k \in 0 .. n + 1 |-> IF k = n + 1 THEN run(g[n], n + 1) ELSE g[k]]
  <2>2. ASSUME NEW k \in 0 .. n + 1
        PROVE  h[k] = IF k = 0 THEN list ELSE run(h[k - 1], k)
    <3> HIDE DEF run
    <3>1. CASE k = n + 1
      BY <3>1
    <3>2. CASE k \in 0 .. n
      BY <3>2, <2>1
    <3>3. QED  BY <3>1, <3>2
  <2>3. Rec(h, n + 1)
    <3> HIDE DEF run
    <3> QED BY <2>2
  <2> HIDE DEF h, run
  <2>4. QED  BY <2>3
<1>3. size \in T
  <2> HIDE DEF T
  <2> QED BY <1>0, <1>1, <1>2, Induct
<1> DEFINE seen == CHOOSE g : Rec(g, size)
<1>4. Rec(seen, size)
  BY <1>3
<1>5. Traversal(sp.nodes, list, deep) = seen[size]
  BY DEF Traversal
<1> HIDE DEF seen, T, size
<1> DEFINE U == {n \in Nat : n <= size => seen[n] \in Seq(D)}
<1>6. 0 \in U
  BY <1>0, <1>4
<1>7. ASSUME NEW n \in Nat, n \in U PROVE n + 1 \in U
  <2>1. SUFFICES ASSUME n + 1 <= size PROVE seen[n + 1] \in Seq(D)
    OBVIOUS
  <2>2. seen[n] \in Seq(D)
    BY <1>0, <1>7, <2>1
  <2>3. seen[n + 1] = run(seen[n], n + 1)
    <3> HIDE DEF run
    <3>1. n + 1 \in 0 .. size /\ (n + 1) - 1 = n /\ n + 1 # 0
      BY <1>0, <2>1
    <3>2. QED  BY <1>4, <3>1
  <2>4. CASE n + 1 > Len(seen[n])
    BY <2>2, <2>3, <2>4
  <2>5. CASE ~(n + 1 > Len(seen[n]))
    <3> DEFINE last == seen[n]
               kids == InOrder(sp.nodes, last[n + 1])
    <3>1. n + 1 <= Len(last) /\ last[n + 1] \in D
      BY <2>2, <2>5
    <3>2. D \subseteq ParentRefs
      BY DEF TypedSpace, IsSpace, ParentRefs
    <3>3. kids \in Seq(D)
      BY <3>1, <3>2, InOrderLists
    <3>4. run(last, n + 1) = IF deep
                             THEN SubSeq(last, 1, n + 1) \o kids \o SubSeq(last, n + 1 + 1, Len(last))
                             ELSE last \o kids
      BY <2>5
    <3>5. last \in Seq(D)
      BY <2>2
    <3> HIDE DEF kids, last, run, D
    <3>6. /\ last \o kids \in Seq(D)
          /\ SubSeq(last, 1, n + 1) \o kids \o SubSeq(last, n + 1 + 1, Len(last)) \in Seq(D)
      BY <3>1, <3>3, <3>5, Expanded
    <3>7. seen[n + 1] = run(last, n + 1)
      BY <2>3 DEF last
    <3>8. QED  BY <3>4, <3>6, <3>7
  <2>6. QED  BY <2>4, <2>5
<1>8. size \in U
  <2> HIDE DEF U
  <2> QED BY <1>0, <1>6, <1>7, Induct
<1>9. QED  BY <1>0, <1>5, <1>8

---------------------------------------------------------------------------
(* Before images, files and publications *)

Snaps(ids) ==
    [node : ids, type : NodeType, title : Titles, url : Urls \cup {None}, parent : ParentRefs]

Updates ==
    [node : NodeIds, field : {"title"}, before : Titles, after : Titles]
        \cup [node : NodeIds, field : {"url"}, before : Urls \cup {None}, after : Urls]

Moves == [node : NodeIds, parent : ParentRefs, position : Nat]

\* The before images of a batch; the nodes it deleted are among ids.
Undos(ids) ==
    [updates : Seq(Updates), moves : Seq(Moves), creates : Seq(NodeIds),
     deletes : Seq(Seq(Snaps(ids)))]

\* The items of a file or a publication.
ItemRows ==
    [key : NodeIds, type : NodeType, title : Titles, url : Urls \cup {None}, under : Nat]

\* A delete captures rows of the space.
LEMMA SnapshotTyped ==
    ASSUME NEW sp, TypedSpace(sp), DenseSiblings(sp), NEW n \in DOMAIN sp.nodes,
           NEW ids, DOMAIN sp.nodes \subseteq ids
    PROVE  Snapshot(sp.nodes, n) \in Seq(Snaps(ids))
<1> DEFINE order == BreadthFirst(sp.nodes, n)
           row(k) == [node |-> order[k], type |-> sp.nodes[order[k]].type,
                      title |-> sp.nodes[order[k]].title, url |-> sp.nodes[order[k]].url,
                      parent |-> sp.nodes[order[k]].parent]
<1>1. order \in Seq(DOMAIN sp.nodes)
  <2>1. <<n>> \in Seq(DOMAIN sp.nodes)
    BY OneLongList
  <2>2. QED  BY <2>1, TraversalVisits DEF BreadthFirst
<1>2. Snapshot(sp.nodes, n) = [k \in DOMAIN order |-> row(k)]
  BY DEF Snapshot
<1> HIDE DEF order
<1>3. DOMAIN order = 1 .. Len(order) /\ Len(order) \in Nat
  BY <1>1
<1>4. ASSUME NEW k \in DOMAIN order PROVE row(k) \in Snaps(ids)
  <2>1. order[k] \in DOMAIN sp.nodes
    BY <1>1, <1>4
  <2>2. sp.nodes[order[k]] \in Nodes
    BY <2>1 DEF TypedSpace, IsSpace
  <2>3. QED  BY <2>1, <2>2 DEF Nodes, Snaps
<1> HIDE DEF row
<1>5. QED  BY <1>2, <1>3, <1>4

\* Lists one after the other are a list.
LEMMA FlattenLists ==
    ASSUME NEW D, NEW seqs \in Seq(Seq(D))
    PROVE  FlattenSeq(seqs) \in Seq(D)
<1> DEFINE size == Len(seqs)
           run(last, k) == last \o seqs[k]
           Rec(g, n) == g = [k \in 1 .. n |-> IF k = 1 THEN seqs[k] ELSE run(g[k - 1], k)]
           T == {n \in Nat : n = 0 \/ \E g : Rec(g, n)}
<1>0. size \in Nat /\ \A k \in 1 .. size : seqs[k] \in Seq(D)
  OBVIOUS
<1>a. CASE size = 0
  <2>1. seqs = <<>>
    BY <1>a
  <2>2. QED  BY <1>a, <2>1 DEF FlattenSeq
<1>b. CASE size # 0
  <2> HIDE DEF size
  <2>1. 0 \in T
    OBVIOUS
  <2>2. ASSUME NEW n \in Nat, n \in T PROVE n + 1 \in T
    <3>1. CASE n = 0
      <4> DEFINE h == [k \in 1 .. 1 |-> seqs[k]]
      <4>1. Rec(h, 1)
        <5> HIDE DEF run
        <5>1. h = [k \in 1 .. 1 |-> IF k = 1 THEN seqs[k] ELSE run(h[k - 1], k)]
          OBVIOUS
        <5>2. QED  BY <5>1
      <4>2. n + 1 = 1
        BY <3>1
      <4> HIDE DEF h, Rec
      <4>3. QED  BY <4>1, <4>2
    <3>2. CASE n # 0
      <4>1. PICK g : Rec(g, n)
        BY <2>2, <3>2
      <4> DEFINE h == [k \in 1 .. n + 1 |-> IF k = n + 1 THEN run(g[n], n + 1) ELSE g[k]]
      <4>2. ASSUME NEW k \in 1 .. n + 1
            PROVE  h[k] = IF k = 1 THEN seqs[k] ELSE run(h[k - 1], k)
        <5> HIDE DEF run
        <5>1. CASE k = n + 1
          BY <3>2, <5>1
        <5>2. CASE k \in 1 .. n
          BY <5>2, <4>1
        <5>3. QED  BY <5>1, <5>2
      <4>3. Rec(h, n + 1)
        <5>1. h = [k \in 1 .. n + 1 |-> h[k]]
          OBVIOUS
        <5> HIDE DEF h
        <5>2. QED  BY <4>2, <5>1
      <4> HIDE DEF h, Rec
      <4>4. QED  BY <4>3
    <3>3. QED  BY <3>1, <3>2
  <2>3. size \in T
    <3> HIDE DEF T
    <3> QED BY <1>0, <2>1, <2>2, Induct
  <2> DEFINE flat == CHOOSE g : Rec(g, size)
  <2>4. Rec(flat, size)
    <3>1. \E g : Rec(g, size)
      BY <1>b, <2>3
    <3> HIDE DEF Rec
    <3>2. QED  BY <3>1
  <2>5. FlattenSeq(seqs) = flat[size]
    BY <1>b DEF FlattenSeq, size
  <2> HIDE DEF flat, T
  <2> DEFINE U == {n \in Nat : n \in 1 .. size => flat[n] \in Seq(D)}
  <2>6. 0 \in U
    OBVIOUS
  <2>7. ASSUME NEW n \in Nat, n \in U PROVE n + 1 \in U
    <3>1. SUFFICES ASSUME n + 1 \in 1 .. size PROVE flat[n + 1] \in Seq(D)
      OBVIOUS
    <3>2. seqs[n + 1] \in Seq(D)
      BY <1>0, <3>1
    <3>3. CASE n = 0
      BY <2>4, <3>1, <3>2, <3>3
    <3>4. CASE n # 0
      <4>1. flat[n] \in Seq(D)
        BY <1>0, <2>7, <3>1, <3>4
      <4>2. flat[n + 1] = run(flat[n], n + 1)
        <5> HIDE DEF run
        <5>1. n + 1 \in 1 .. size /\ n + 1 # 1 /\ (n + 1) - 1 = n
          BY <1>0, <3>1, <3>4
        <5>2. QED  BY <2>4, <5>1
      <4>3. QED  BY <3>2, <4>1, <4>2
    <3>5. QED  BY <3>3, <3>4
  <2>8. size \in U
    <3> HIDE DEF U
    <3> QED BY <1>0, <2>6, <2>7, Induct
  <2>9. QED  BY <1>0, <1>b, <2>5, <2>8
<1>c. QED  BY <1>a, <1>b

\* What is at the top of a space is a list of its nodes.
LEMMA TopsListed ==
    ASSUME NEW sp, TypedSpace(sp), DenseSiblings(sp)
    PROVE  Tops(sp) \in Seq(DOMAIN sp.nodes)
<1> DEFINE D == DOMAIN sp.nodes
           roots == {n \in D : sp.nodes[n].parent \in RootKeys}
           rank(k) == {n \in roots : sp.nodes[n].pos = k - 1}
           seqs == [k \in 1 .. Cardinality(roots) |-> SetToSeq(rank(k))]
<1>1. IsFiniteSet(D) /\ IsFiniteSet(roots) /\ Cardinality(roots) \in Nat
  BY FS_Subset, FS_CardinalityType DEF TypedSpace, IsSpace
<1> HIDE DEF D, roots
<1>2. ASSUME NEW k \in 1 .. Cardinality(roots) PROVE SetToSeq(rank(k)) \in Seq(D)
  <2> DEFINE S == rank(k)
  <2>1. IsFiniteSet(S) /\ S \subseteq D /\ Cardinality(S) \in Nat
    BY <1>1, FS_Subset, FS_CardinalityType DEF roots
  <2> HIDE DEF S
  <2>2. PICK f \in [1 .. Cardinality(S) -> S] : IsInjective(f)
    <3>1. ExistsBijection(1 .. Cardinality(S), S)
      BY <2>1, FS_CardinalityType
    <3>2. QED  BY <3>1 DEF ExistsBijection, Bijection, Injection, IsInjective
  <2>3. SetToSeq(S) \in [1 .. Cardinality(S) -> S]
    BY <2>2 DEF SetToSeq
  <2>4. SetToSeq(S) \in Seq(D)
    BY <2>1, <2>3
  <2>5. QED  BY <2>4 DEF S
<1>3. seqs \in Seq(Seq(D))
  <2> HIDE DEF rank
  <2> QED BY <1>1, <1>2
<1> HIDE DEF seqs
<1>4. FlattenSeq(seqs) \in Seq(D)
  BY <1>3, FlattenLists
<1>5. QED  BY <1>4 DEF Tops, seqs, rank, roots, D

\* A file holds rows of the space it was exported from.
LEMMA ItemsTyped ==
    ASSUME NEW sp, TypedSpace(sp), DenseSiblings(sp), NEW tops \in Seq(DOMAIN sp.nodes)
    PROVE  Items(sp.nodes, tops) \in Seq(ItemRows)
<1> DEFINE ids == Walk(sp.nodes, tops)
           Place(n) == {j \in DOMAIN ids : ids[j] = n}
           under(n) == IF Place(n) = {} THEN 0 ELSE CHOOSE j \in Place(n) : TRUE
           row(k) == [key |-> ids[k], type |-> sp.nodes[ids[k]].type,
                      title |-> sp.nodes[ids[k]].title, url |-> sp.nodes[ids[k]].url,
                      under |-> under(sp.nodes[ids[k]].parent)]
<1>1. ids \in Seq(DOMAIN sp.nodes)
  BY TraversalVisits DEF Walk
<1>2. Items(sp.nodes, tops) = [k \in DOMAIN ids |-> row(k)]
  BY DEF Items
<1> HIDE DEF ids
<1>3. DOMAIN ids = 1 .. Len(ids) /\ Len(ids) \in Nat
  BY <1>1
<1>4. ASSUME NEW n PROVE under(n) \in Nat
  <2>1. Place(n) \subseteq Nat
    BY <1>3
  <2> HIDE DEF Place
  <2>2. QED  BY <2>1
<1> HIDE DEF under
<1>5. ASSUME NEW k \in DOMAIN ids PROVE row(k) \in ItemRows
  <2>1. ids[k] \in DOMAIN sp.nodes /\ DOMAIN sp.nodes \subseteq NodeIds
    BY <1>1, <1>5 DEF TypedSpace, IsSpace
  <2>2. sp.nodes[ids[k]] \in Nodes
    BY <2>1 DEF TypedSpace, IsSpace
  <2>3. QED  BY <1>4, <2>1, <2>2 DEF Nodes, ItemRows
<1> HIDE DEF row
<1>6. QED  BY <1>2, <1>3, <1>5

\* So does a publication, under the title it was given.
LEMMA SourceTyped ==
    ASSUME NEW s, TypedSpace(spaces[s]), DenseSiblings(spaces[s]), NEW root, NEW title,
           root # None => root \in DOMAIN spaces[s].nodes /\ title \in Titles
    PROVE  SourceItems(s, root, title) \in Seq(ItemRows)
<1>1. CASE root = None
  BY <1>1, TopsListed, ItemsTyped DEF SourceItems
<1>2. CASE root # None
  <2> DEFINE items == Items(spaces[s].nodes, <<root>>)
  <2>1. <<root>> \in Seq(DOMAIN spaces[s].nodes)
    BY <1>2, OneLongList
  <2>2. items \in Seq(ItemRows)
    BY <2>1, ItemsTyped
  <2>3. SourceItems(s, root, title) = [items EXCEPT ![1].title = title]
    BY <1>2 DEF SourceItems
  <2> HIDE DEF items
  <2>4. \A x \in ItemRows : [x EXCEPT !.title = title] \in ItemRows
    BY <1>2 DEF ItemRows
  <2> DEFINE titled == [items EXCEPT ![1].title = title]
  <2>5. DOMAIN titled = DOMAIN items /\ \A k \in DOMAIN items : titled[k] \in ItemRows
    BY <2>2, <2>4
  <2>6. DOMAIN items = 1 .. Len(items) /\ Len(items) \in Nat /\ titled = [k \in DOMAIN items |-> titled[k]]
    BY <2>2
  <2>7. titled \in Seq(ItemRows)
    <3> HIDE DEF titled
    <3> QED BY <2>5, <2>6, ListOf
  <2>8. QED  BY <2>3, <2>7
<1>3. QED  BY <1>1, <1>2

---------------------------------------------------------------------------
(* Spaces *)

\* The rows say what their commands wrote, and a node that was deleted and revived has
\* had its URL written since.
History(sp) ==
    \A r \in DOMAIN sp.journal :
        LET row == sp.journal[r]
        IN  /\ DOMAIN row.payload \cap Edited = FieldsOf(row.type)
            /\ row.type = "delete" /\ row.node \in DOMAIN sp.nodes =>
                   r <= sp.nodes[row.node].urlRev

Sound(sp) == LiveSpace(sp) /\ sp.floor = 0 /\ History(sp)

\* The nodes a space knows, live or deleted.
Known(sp) == DOMAIN sp.nodes \cup DOMAIN sp.tomb

\* A command that was asked for; its parent is looked up when it is executed.
Asked(c) ==
    \/ /\ c.op = "create" /\ c.node \in NodeIds /\ c.type \in NodeType
       /\ c.title \in Titles \cup {None} /\ c.url \in Urls \cup {None}
    \/ c.op = "update_title" /\ c.title \in Titles \cup {None}
    \/ c.op = "update_url" /\ c.url \in Urls \cup {None}
    \/ c.op \in {"move", "delete"}

LEMMA AskedCommands ==
    ASSUME NEW sp, TypedSpace(sp), NEW c, Asked(c), CanExecute(sp, c)
    PROVE  IsCommand(c)
<1>1. \A p : ValidParent(sp, p) => p \in ParentRefs
  BY DEF ValidParent, TypedSpace, IsSpace, ParentRefs
<1>2. CASE c.op = "create"
  BY <1>1, <1>2 DEF Asked, CanExecute, CanCreate, IsCommand
<1>3. CASE c.op = "move"
  BY <1>1, <1>3 DEF Asked, CanExecute, CanMove, IsCommand
<1>4. CASE c.op \notin {"create", "move"}
  BY <1>4 DEF Asked, IsCommand
<1>5. QED  BY <1>2, <1>3, <1>4

\* What a command leaves of a sound space is sound.
LEMMA CommandSound ==
    ASSUME NEW sp, Sound(sp), NEW c, Asked(c), CanExecute(sp, c), NEW origin \in Origins
    PROVE  LET after == Execute(sp, c, origin)
           IN  /\ Sound(after) /\ Census(sp, c, after) /\ after.slots = sp.slots
               /\ after.epoch = sp.epoch
               /\ after = sp \/ WritesCommand(sp, c, origin, after)
<1> DEFINE after == Execute(sp, c, origin)
           Kept == /\ Sound(after) /\ Census(sp, c, after) /\ after.slots = sp.slots
                   /\ after.epoch = sp.epoch
                   /\ after = sp \/ WritesCommand(sp, c, origin, after)
<1> SUFFICES Kept
  OBVIOUS
<1>1. LiveSpace(sp) /\ TypedSpace(sp) /\ IsCommand(c)
  BY AskedCommands DEF Sound, LiveSpace
<1>2. /\ LiveSpace(after) /\ Census(sp, c, after)
      /\ after = sp \/ WritesCommand(sp, c, origin, after)
  BY <1>1, CommandKeeps
<1>3. c.op = "delete" => c.node \in Buried(sp, c)
  BY SubtreeTop DEF Buried, CanExecute, CanDelete
<1> HIDE DEF after
<1>4. CASE after = sp
  BY <1>2, <1>4
<1>5. CASE WritesCommand(sp, c, origin, after)
  <2>1. PICK payload :
            /\ WritesRow(sp, after, Row(c.op, c.node, payload, origin))
            /\ DOMAIN payload \cap Edited = FieldsOf(c.op)
    BY <1>5 DEF WritesCommand
  <2> DEFINE row == Row(c.op, c.node, payload, origin)
  <2>2. row.type = c.op /\ row.node = c.node /\ row.payload = payload
    BY DEF Row
  <2> HIDE DEF row
  <2>3. OneMoreRow(sp, after, row) /\ FieldWritten(sp, after, row, "url", "urlRev")
    BY <2>1 DEF WritesRow, row
  <2>4. /\ DOMAIN sp.journal = 1 .. sp.rev /\ sp.rev \in Nat
        /\ \A n \in DOMAIN sp.nodes : sp.nodes[n].urlRev \in Nat
    BY <1>1 DEF Sound, LiveSpace, LiveRows, JournalSpans, TypedSpace, IsSpace, Nodes
  <2>5. ASSUME NEW r \in DOMAIN after.journal
        PROVE  LET at == after.journal[r]
               IN  /\ DOMAIN at.payload \cap Edited = FieldsOf(at.type)
                   /\ at.type = "delete" /\ at.node \in DOMAIN after.nodes =>
                          r <= after.nodes[at.node].urlRev
    <3>1. CASE r = sp.rev + 1
      <4>1. after.journal[r] = row
        BY <2>3, <3>1 DEF OneMoreRow
      <4>2. row.type = "delete" => row.node \notin DOMAIN after.nodes
        BY <1>2, <1>3, <2>2 DEF Census, Added
      <4>3. QED  BY <2>1, <2>2, <4>1, <4>2
    <3>2. CASE r # sp.rev + 1
      <4>1. /\ r \in DOMAIN sp.journal /\ after.journal[r] = sp.journal[r]
            /\ r \in Nat /\ r <= sp.rev
        BY <2>3, <2>4, <3>2 DEF OneMoreRow
      <4> DEFINE at == sp.journal[r]
      <4>2. /\ DOMAIN at.payload \cap Edited = FieldsOf(at.type)
            /\ at.type = "delete" /\ at.node \in DOMAIN sp.nodes =>
                   r <= sp.nodes[at.node].urlRev
        BY <4>1 DEF Sound, History
      <4> HIDE DEF at
      <4>3. ASSUME at.type = "delete", at.node \in DOMAIN after.nodes
            PROVE  r <= after.nodes[at.node].urlRev
        <5>1. CASE at.node # row.node
          <6>1. /\ at.node \in DOMAIN sp.nodes
                /\ after.nodes[at.node].urlRev = sp.nodes[at.node].urlRev
            BY <2>3, <4>3, <5>1 DEF FieldWritten
          <6>2. QED  BY <4>2, <4>3, <6>1
        <5>2. CASE at.node = row.node
          <6>1. \/ after.nodes[at.node].urlRev = sp.rev + 1
                \/ /\ at.node \in DOMAIN sp.nodes
                   /\ after.nodes[at.node].urlRev = sp.nodes[at.node].urlRev
            BY <2>3, <4>3, <5>2 DEF FieldWritten, OneMoreRow
          <6>2. QED  BY <2>4, <4>1, <4>2, <4>3, <6>1
        <5>3. QED  BY <5>1, <5>2
      <4>4. QED  BY <4>1, <4>2, <4>3 DEF at
    <3>3. QED  BY <3>1, <3>2
  <2>6. after.floor = 0 /\ after.slots = sp.slots /\ after.epoch = sp.epoch
    BY <2>3 DEF OneMoreRow, Sound
  <2>7. QED  BY <1>2, <1>5, <2>5, <2>6 DEF Sound, History
<1>6. QED  BY <1>2, <1>4, <1>5

\* Root slots may be added and tombstones go beside the rows.
LEMMA SoundBeside ==
    ASSUME NEW sp, Sound(sp), NEW after, DOMAIN after = DOMAIN sp,
           after.epoch = sp.epoch, after.rev = sp.rev, after.floor = sp.floor,
           after.nodes = sp.nodes, after.journal = sp.journal,
           sp.slots \subseteq after.slots, after.slots \subseteq RootKeys,
           DOMAIN after.tomb \subseteq DOMAIN sp.tomb,
           \A n \in DOMAIN after.tomb : after.tomb[n] = sp.tomb[n]
    PROVE  Sound(after)
<1>1. TypedSpace(sp) /\ GoodTree(sp) /\ LiveRows(sp)
  BY DEF Sound, LiveSpace
<1>2. TypedSpace(after)
  BY <1>1 DEF TypedSpace, IsSpace
<1>3. GoodTree(after)
  BY <1>1 DEF GoodTree, ValidParent
<1>4. LiveRows(after)
  BY <1>1 DEF LiveRows, JournalSpans, DenseSiblings, FieldsAgree, FieldJournaled, FieldLatest
<1>5. after.floor = 0 /\ History(after)
  BY DEF Sound, History
<1>6. QED  BY <1>2, <1>3, <1>4, <1>5 DEF Sound, LiveSpace

\* A tree without history is sound.
LEMMA BaselineSound ==
    ASSUME NEW epoch, NEW slots, NEW nodes,
           LET sp == Baseline(epoch, slots, nodes)
           IN  IsSpace(sp) /\ GoodTree(sp) /\ DenseSiblings(sp)
    PROVE  LET sp == Baseline(epoch, slots, nodes)
           IN  /\ Sound(sp) /\ sp.tomb = [n \in {} |-> n] /\ DOMAIN sp.nodes = DOMAIN nodes
               /\ sp.slots = slots
<1> DEFINE sp == Baseline(epoch, slots, nodes)
<1>1. /\ sp.rev = 0 /\ sp.floor = 0 /\ DOMAIN sp.journal = {} /\ sp.tomb = [n \in {} |-> n]
      /\ DOMAIN sp.nodes = DOMAIN nodes /\ sp.slots = slots
      /\ \A n \in DOMAIN nodes : /\ sp.nodes[n].titleRev = 0 /\ sp.nodes[n].urlRev = 0
                                 /\ sp.nodes[n].structRev = 0
  BY DEF Baseline
<1>2. IsSpace(sp) /\ GoodTree(sp) /\ DenseSiblings(sp)
  OBVIOUS
<1> HIDE DEF sp
<1>3. TypedSpace(sp)
  BY <1>2, IdsAreNumbers, FS_Subset DEF TypedSpace, IsSpace
<1>4. JournalSpans(sp) /\ FieldsAgree(sp) /\ History(sp)
  BY <1>1 DEF JournalSpans, FieldsAgree, FieldJournaled, FieldLatest, History
<1>5. Sound(sp)
  BY <1>1, <1>2, <1>3, <1>4 DEF Sound, LiveSpace, LiveRows
<1>6. QED  BY <1>1, <1>5 DEF sp

\* A tree that can be restored.
Restorable(slots, nodes) == Sound(Baseline(1, slots, nodes))

LEMMA RestoredSound ==
    ASSUME NEW slots, NEW nodes, Restorable(slots, nodes), NEW epoch \in Nat
    PROVE  LET sp == Baseline(epoch, slots, nodes)
           IN  /\ Sound(sp) /\ sp.tomb = [n \in {} |-> n] /\ DOMAIN sp.nodes = DOMAIN nodes
<1> DEFINE sp == Baseline(epoch, slots, nodes)
           one == Baseline(1, slots, nodes)
<1>1. /\ DOMAIN sp = {"epoch", "rev", "floor", "slots", "nodes", "tomb", "journal"}
      /\ sp.epoch = epoch
      /\ \A f \in {"rev", "floor", "slots", "nodes", "tomb", "journal"} : sp[f] = one[f]
  BY DEF Baseline
<1>2. IsSpace(one) /\ GoodTree(one) /\ DenseSiblings(one)
  BY DEF Restorable, Sound, LiveSpace, LiveRows, TypedSpace
<1> HIDE DEF sp, one
<1>3. IsSpace(sp) /\ GoodTree(sp) /\ DenseSiblings(sp)
  BY <1>1, <1>2 DEF IsSpace, GoodTree, ValidParent, DenseSiblings
<1>4. QED  BY <1>3, BaselineSound DEF sp

\* So is the image of a sound space.
LEMMA ImageRestorable ==
    ASSUME NEW sp, Sound(sp)
    PROVE  Restorable(Image(sp).slots, Image(sp).nodes)
<1> DEFINE image == Image(sp)
           one == Baseline(1, image.slots, image.nodes)
           row(n) == [type |-> sp.nodes[n].type, title |-> sp.nodes[n].title,
                      url |-> sp.nodes[n].url, parent |-> sp.nodes[n].parent,
                      pos |-> sp.nodes[n].pos, createdRev |-> 0,
                      titleRev |-> 0, urlRev |-> 0, structRev |-> 0]
<1>1. /\ image.slots = sp.slots
      /\ image.nodes = [n \in DOMAIN sp.nodes |->
                           [type |-> sp.nodes[n].type, title |-> sp.nodes[n].title,
                            url |-> sp.nodes[n].url, parent |-> sp.nodes[n].parent,
                            pos |-> sp.nodes[n].pos]]
  BY DEF Image
<1> HIDE DEF image
<1>2. /\ DOMAIN one = {"epoch", "rev", "floor", "slots", "nodes", "tomb", "journal"}
      /\ one.epoch = 1 /\ one.rev = 0 /\ one.floor = 0 /\ one.slots = sp.slots
      /\ one.tomb = [n \in {} |-> n] /\ one.journal = [r \in {} |-> r]
      /\ one.nodes = [n \in DOMAIN sp.nodes |-> row(n)]
  BY <1>1 DEF Baseline
<1>3. IsSpace(sp) /\ GoodTree(sp) /\ DenseSiblings(sp)
  BY DEF Sound, LiveSpace, LiveRows, TypedSpace
<1>4. \A n \in DOMAIN sp.nodes : row(n) \in Nodes
  <2>1. \A n \in DOMAIN sp.nodes : sp.nodes[n] \in Nodes
    BY <1>3 DEF IsSpace
  <2>2. QED  BY <2>1 DEF Nodes
<1>5. /\ DOMAIN one.nodes = DOMAIN sp.nodes
      /\ \A n \in DOMAIN sp.nodes : /\ one.nodes[n] = row(n)
                                    /\ one.nodes[n].parent = sp.nodes[n].parent
                                    /\ one.nodes[n].type = sp.nodes[n].type
                                    /\ one.nodes[n].pos = sp.nodes[n].pos
  BY <1>2
<1> HIDE DEF one, row
<1>6. IsSpace(one)
  BY <1>2, <1>3, <1>4, <1>5 DEF IsSpace
<1>7. GoodTree(one)
  BY <1>2, <1>3, <1>5, SameTree
<1>8. DenseSiblings(one)
  BY <1>3, <1>5, SameSiblings
<1>9. QED  BY <1>6, <1>7, <1>8, BaselineSound DEF Restorable, one, image

---------------------------------------------------------------------------
(* Batches *)

\* A batch whose space knows the nodes ids.
Batch(b, ids) ==
    /\ DOMAIN b = {"sp", "undo", "minted", "number", "ok"}
    /\ b.number \in Origins
    /\ Sound(b.sp) /\ b.undo \in Undos(ids)
    /\ ids \subseteq NodeIds /\ Known(b.sp) \subseteq ids

\* The batch a comes from b by commands that create nodes of new.
Leads(b, a, new) ==
    /\ a.number = b.number /\ a.minted = b.minted
    /\ Known(a.sp) \subseteq Known(b.sp) \cup new
    /\ DOMAIN a.sp.nodes \cap DOMAIN a.sp.tomb
           \subseteq (DOMAIN b.sp.nodes \cap DOMAIN b.sp.tomb) \cup new

\* Where a command writes: it takes away no more than the subtree it deletes, and of the
\* nodes that stay it writes its own fields of its own node.
Limits(nodes, after, c) ==
    /\ c.op # "create" => DOMAIN after \subseteq DOMAIN nodes
    /\ DOMAIN nodes \ DOMAIN after \subseteq (IF c.op = "delete" THEN SubtreeIDs(nodes, c.node) ELSE {})
    /\ \A n \in DOMAIN nodes \cap DOMAIN after, f \in Edited :
           after[n][f] # nodes[n][f] => n = c.node /\ c.op # "create" /\ f \in FieldsOf(c.op)

\* The nodes there were are there, with their titles, URLs and parents.
Untouched(nodes, after) ==
    /\ DOMAIN nodes \subseteq DOMAIN after
    /\ \A n \in DOMAIN nodes, f \in Edited : after[n][f] = nodes[n][f]

LEMMA CommandLimits ==
    ASSUME NEW sp, NEW c, Asked(c), CanExecute(sp, c), NEW origin, NEW after,
           Census(sp, c, after), after = sp \/ WritesCommand(sp, c, origin, after)
    PROVE  Limits(sp.nodes, after.nodes, c)
<1>1. Buried(sp, c) \subseteq DOMAIN sp.nodes /\ (c.op # "delete" => Buried(sp, c) = {})
  BY DEF Buried, SubtreeIDs
<1>2. c.op # "create" => Added(c) = {}
  BY DEF Added
<1>3. c.op = "create" => c.node \notin DOMAIN sp.nodes
  BY DEF CanExecute, CanCreate
<1>4. ASSUME NEW n \in DOMAIN sp.nodes \cap DOMAIN after.nodes, NEW f \in Edited,
             after.nodes[n][f] # sp.nodes[n][f]
      PROVE  n = c.node /\ f \in FieldsOf(c.op)
  <2>1. PICK payload : /\ WritesRow(sp, after, Row(c.op, c.node, payload, origin))
                       /\ DOMAIN payload \cap Edited = FieldsOf(c.op)
    BY <1>4 DEF WritesCommand
  <2> DEFINE row == Row(c.op, c.node, payload, origin)
  <2>2. row.node = c.node /\ row.payload = payload
    BY DEF Row
  <2> HIDE DEF row
  <2>3. \E rf : FieldWritten(sp, after, row, f, rf)
    BY <2>1 DEF WritesRow, Edited, row
  <2>4. QED  BY <1>4, <2>1, <2>2, <2>3 DEF FieldWritten
<1>5. QED  BY <1>1, <1>2, <1>3, <1>4 DEF Limits, Census, Buried

LEMMA UpdateKept ==
    ASSUME NEW updates \in Seq(Updates), NEW u \in Updates
    PROVE  WithUpdate(updates, u) \in Seq(Updates)
<1> DEFINE same == {k \in DOMAIN updates : updates[k].node = u.node /\ updates[k].field = u.field}
           new == [k \in DOMAIN updates |->
                     IF k \in same THEN [updates[k] EXCEPT !.after = u.after] ELSE updates[k]]
<1>1. CASE same = {}
  BY <1>1 DEF WithUpdate
<1>2. CASE same # {}
  <2>1. WithUpdate(updates, u) = new
    BY <1>2 DEF WithUpdate
  <2>2. DOMAIN updates = 1 .. Len(updates) /\ Len(updates) \in Nat
    OBVIOUS
  <2>3. ASSUME NEW k \in 1 .. Len(updates) PROVE new[k] \in Updates
    <3>1. updates[k] \in Updates
      OBVIOUS
    <3>2. updates[k].field = u.field => [updates[k] EXCEPT !.after = u.after] \in Updates
      BY <3>1 DEF Updates
    <3>3. QED  BY <2>2, <3>1, <3>2
  <2>4. DOMAIN new = 1 .. Len(updates) /\ new = [k \in DOMAIN new |-> new[k]]
    BY <2>2
  <2> HIDE DEF new
  <2>5. QED  BY <2>1, <2>2, <2>3, <2>4, ListOf
<1>3. QED  BY <1>1, <1>2

\* The before image of a command that runs is one.
LEMMA CapturedTyped ==
    ASSUME NEW b, NEW ids, Batch(b, ids), NEW c, Asked(c), CanExecute(b.sp, c)
    PROVE  Captured(b.undo, b.sp.nodes, c) \in Undos(ids)
<1> DEFINE undo == b.undo
           nodes == b.sp.nodes
<1>1. /\ undo \in Undos(ids) /\ TypedSpace(b.sp) /\ DenseSiblings(b.sp)
      /\ DOMAIN nodes \subseteq ids /\ ids \subseteq NodeIds
  BY DEF Batch, Sound, LiveSpace, LiveRows, Known
<1>2. /\ undo.updates \in Seq(Updates) /\ undo.moves \in Seq(Moves)
      /\ undo.creates \in Seq(NodeIds) /\ undo.deletes \in Seq(Seq(Snaps(ids)))
  BY <1>1 DEF Undos
<1>3. c.op # "create" => c.node \in DOMAIN nodes /\ nodes[c.node] \in Nodes /\ c.node \in NodeIds
  BY <1>1 DEF TypedSpace, IsSpace, Asked, CanExecute, CanUpdateTitle, CanUpdateURL, CanMove, CanDelete
<1> HIDE DEF undo, nodes
<1>4. CASE c.op = "create"
  <2>1. Append(undo.creates, c.node) \in Seq(NodeIds)
    BY <1>2, <1>4 DEF Asked
  <2>2. Captured(undo, nodes, c) = [undo EXCEPT !.creates = Append(@, c.node)]
    BY <1>4 DEF Captured
  <2>3. QED  BY <1>1, <2>1, <2>2 DEF Undos, undo, nodes
<1>5. CASE c.op = "update_title"
  <2> DEFINE u == [node |-> c.node, field |-> "title", before |-> nodes[c.node].title,
                   after |-> c.title]
  <2>1. u \in Updates
    BY <1>3, <1>5 DEF Asked, CanExecute, CanUpdateTitle, Updates, Nodes
  <2>2. WithUpdate(undo.updates, u) \in Seq(Updates)
    BY <1>2, <2>1, UpdateKept
  <2>3. Captured(undo, nodes, c) = [undo EXCEPT !.updates = WithUpdate(@, u)]
    BY <1>5 DEF Captured
  <2> HIDE DEF u
  <2>4. QED  BY <1>1, <2>2, <2>3 DEF Undos, undo, nodes
<1>6. CASE c.op = "update_url"
  <2> DEFINE u == [node |-> c.node, field |-> "url", before |-> nodes[c.node].url,
                   after |-> c.url]
  <2>1. u \in Updates
    BY <1>3, <1>6 DEF Asked, CanExecute, CanUpdateURL, Updates, Nodes
  <2>2. WithUpdate(undo.updates, u) \in Seq(Updates)
    BY <1>2, <2>1, UpdateKept
  <2>3. Captured(undo, nodes, c) = [undo EXCEPT !.updates = WithUpdate(@, u)]
    BY <1>6 DEF Captured
  <2> HIDE DEF u
  <2>4. QED  BY <1>1, <2>2, <2>3 DEF Undos, undo, nodes
<1>7. CASE c.op = "move"
  <2> DEFINE mv == [node |-> c.node, parent |-> nodes[c.node].parent, position |-> nodes[c.node].pos]
  <2>1. mv \in Moves
    BY <1>3, <1>7 DEF Moves, Nodes
  <2>2. Append(undo.moves, mv) \in Seq(Moves)
    BY <1>2, <2>1
  <2>3. Captured(undo, nodes, c) = [undo EXCEPT !.moves = Append(@, mv)]
    BY <1>7 DEF Captured
  <2> HIDE DEF mv
  <2>4. QED  BY <1>1, <2>2, <2>3 DEF Undos, undo, nodes
<1>8. CASE c.op = "delete"
  <2>1. Snapshot(nodes, c.node) \in Seq(Snaps(ids))
    BY <1>1, <1>3, <1>8, SnapshotTyped DEF nodes
  <2>2. Append(undo.deletes, Snapshot(nodes, c.node)) \in Seq(Seq(Snaps(ids)))
    BY <1>2, <2>1
  <2>3. Captured(undo, nodes, c) = [undo EXCEPT !.deletes = Append(@, Snapshot(nodes, c.node))]
    BY <1>8 DEF Captured
  <2>4. QED  BY <1>1, <2>2, <2>3 DEF Undos, undo, nodes
<1>9. QED  BY <1>4, <1>5, <1>6, <1>7, <1>8 DEF Asked

\* Applying a command, or failing to, keeps a batch one.
LEMMA ApplyKeeps ==
    ASSUME NEW b, NEW ids, Batch(b, ids), NEW c, Asked(c), Added(c) \subseteq ids
    PROVE  LET a == Apply(b, c)
           IN  /\ Batch(a, ids) /\ Leads(b, a, Added(c)) /\ Limits(b.sp.nodes, a.sp.nodes, c)
               /\ c.op = "create" => DOMAIN a.sp.tomb = DOMAIN b.sp.tomb
<1> DEFINE a == Apply(b, c)
           Kept == /\ Batch(a, ids) /\ Leads(b, a, Added(c)) /\ Limits(b.sp.nodes, a.sp.nodes, c)
                   /\ c.op = "create" => DOMAIN a.sp.tomb = DOMAIN b.sp.tomb
<1> SUFFICES Kept
  OBVIOUS
<1>1. CASE b.ok /\ CanExecute(b.sp, c)
  <2> DEFINE after == Execute(b.sp, c, b.number)
             undo == Captured(b.undo, b.sp.nodes, c)
  <2>1. a = [b EXCEPT !.sp = after, !.undo = undo]
    BY <1>1 DEF Apply
  <2>2. Sound(after) /\ Census(b.sp, c, after) /\ Limits(b.sp.nodes, after.nodes, c)
    BY <1>1, CommandSound, CommandLimits DEF Batch
  <2>3. undo \in Undos(ids)
    BY <1>1, CapturedTyped
  <2> HIDE DEF after, undo, a
  <2>4. /\ DOMAIN a = DOMAIN b /\ a.number = b.number /\ a.minted = b.minted
        /\ a.sp = after /\ a.undo = undo
    BY <2>1 DEF Batch
  <2>5. Buried(b.sp, c) \subseteq DOMAIN b.sp.nodes /\ (c.op = "create" => Buried(b.sp, c) = {})
    BY DEF Buried, SubtreeIDs
  <2>6. Known(after) \subseteq Known(b.sp) \cup Added(c)
    BY <2>2, <2>5 DEF Census, Known
  <2>7. DOMAIN after.nodes \cap DOMAIN after.tomb
            \subseteq (DOMAIN b.sp.nodes \cap DOMAIN b.sp.tomb) \cup Added(c)
    BY <2>2, <2>5 DEF Census
  <2>8. c.op = "create" => DOMAIN after.tomb = DOMAIN b.sp.tomb
    BY <2>2, <2>5 DEF Census
  <2>9. QED  BY <2>2, <2>3, <2>4, <2>6, <2>7, <2>8 DEF Batch, Leads
<1>2. CASE ~(b.ok /\ CanExecute(b.sp, c))
  <2>1. a = [b EXCEPT !.ok = FALSE]
    BY <1>2 DEF Apply
  <2> HIDE DEF a
  <2>2. QED  BY <2>1 DEF Batch, Leads, Limits
<1>3. QED  BY <1>1, <1>2

\* A batch stays one when more ids are known.
LEMMA UndosGrow ==
    ASSUME NEW ids, NEW more, ids \subseteq more
    PROVE  Undos(ids) \subseteq Undos(more)
<1>1. Snaps(ids) \subseteq Snaps(more)
  BY DEF Snaps
<1>2. Seq(Snaps(ids)) \subseteq Seq(Snaps(more))
  BY <1>1, ListGrows
<1>3. Seq(Seq(Snaps(ids))) \subseteq Seq(Seq(Snaps(more)))
  BY <1>2, ListGrows
<1>4. QED  BY <1>3 DEF Undos

LEMMA BatchGrows ==
    ASSUME NEW b, NEW ids, NEW more, Batch(b, ids), ids \subseteq more, more \subseteq NodeIds
    PROVE  Batch(b, more)
BY UndosGrow DEF Batch

\* A list of commands is applied one after the other.
LEMMA ApplyAllSteps ==
    ASSUME NEW b, NEW commands, Len(commands) \in Nat
    PROVE  \E done : /\ ApplyAll(b, commands) = done[Len(commands)] /\ done[0] = b
                     /\ \A k \in 1 .. Len(commands) : done[k] = Apply(done[k - 1], commands[k])
<1> DEFINE size == Len(commands)
           Rec(g, n) == g = [k \in 0 .. n |-> IF k = 0 THEN b ELSE Apply(g[k - 1], commands[k])]
           T == {n \in Nat : \E g : Rec(g, n)}
<1>1. 0 \in T
  <2>1. Rec([k \in 0 .. 0 |-> b], 0)
    OBVIOUS
  <2>2. QED  BY <2>1
<1>2. ASSUME NEW n \in Nat, n \in T PROVE n + 1 \in T
  <2>1. PICK g : Rec(g, n)
    BY <1>2
  <2> DEFINE h == [k \in 0 .. n + 1 |-> IF k = n + 1 THEN Apply(g[n], commands[n + 1]) ELSE g[k]]
  <2>2. ASSUME NEW k \in 0 .. n + 1
        PROVE  h[k] = IF k = 0 THEN b ELSE Apply(h[k - 1], commands[k])
    <3>1. CASE k = n + 1
      BY <3>1
    <3>2. CASE k \in 0 .. n
      BY <3>2, <2>1
    <3>3. QED  BY <3>1, <3>2
  <2>3. Rec(h, n + 1)
    BY <2>2
  <2> HIDE DEF h
  <2>4. QED  BY <2>3
<1>3. size \in T
  <2> HIDE DEF T
  <2> QED BY <1>1, <1>2, Induct
<1> DEFINE done == CHOOSE g : Rec(g, size)
<1>4. Rec(done, size)
  BY <1>3
<1>5. ApplyAll(b, commands) = done[size]
  BY DEF ApplyAll
<1> HIDE DEF done, T
<1>6. done[0] = b /\ \A k \in 1 .. size : done[k] = Apply(done[k - 1], commands[k])
  BY <1>4
<1>7. QED  BY <1>5, <1>6

\* A list of commands keeps a batch one; creates alone bury nothing.
LEMMA ApplyAllKeeps ==
    ASSUME NEW b, NEW ids, Batch(b, ids), NEW commands, Len(commands) \in Nat,
           NEW new, new \subseteq ids,
           \A k \in 1 .. Len(commands) : Asked(commands[k]) /\ Added(commands[k]) \subseteq new
    PROVE  LET a == ApplyAll(b, commands)
           IN  /\ Batch(a, ids) /\ Leads(b, a, new)
               /\ (\A k \in 1 .. Len(commands) : commands[k].op = "create")
                      => DOMAIN a.sp.tomb = DOMAIN b.sp.tomb /\ Untouched(b.sp.nodes, a.sp.nodes)
<1> DEFINE size == Len(commands)
           creating == \A k \in 1 .. size : commands[k].op = "create"
           Good(a) == /\ Batch(a, ids) /\ Leads(b, a, new)
                      /\ creating => DOMAIN a.sp.tomb = DOMAIN b.sp.tomb
                                     /\ Untouched(b.sp.nodes, a.sp.nodes)
<1>1. PICK done : /\ ApplyAll(b, commands) = done[size] /\ done[0] = b
                  /\ \A k \in 1 .. size : done[k] = Apply(done[k - 1], commands[k])
  BY ApplyAllSteps
<1> DEFINE U == {n \in Nat : n <= size => Good(done[n])}
<1>2. 0 \in U
  BY <1>1 DEF Leads, Untouched
<1>3. ASSUME NEW n \in Nat, n \in U PROVE n + 1 \in U
  <2>1. SUFFICES ASSUME n + 1 <= size PROVE Good(done[n + 1])
    OBVIOUS
  <2>2. Good(done[n]) /\ n + 1 \in 1 .. size /\ (n + 1) - 1 = n
    BY <1>3, <2>1
  <2> DEFINE a == done[n]
             c == commands[n + 1]
             then == done[n + 1]
  <2>3. then = Apply(a, c) /\ Asked(c) /\ Added(c) \subseteq new
    BY <1>1, <2>2
  <2>4. creating => c.op = "create"
    BY <2>2
  <2>5. /\ Batch(a, ids) /\ Leads(b, a, new)
        /\ creating => DOMAIN a.sp.tomb = DOMAIN b.sp.tomb /\ Untouched(b.sp.nodes, a.sp.nodes)
    BY <2>2
  <2> HIDE DEF a, c, then, creating
  <2>6. /\ Batch(then, ids) /\ Leads(a, then, Added(c))
        /\ c.op = "create" => DOMAIN then.sp.tomb = DOMAIN a.sp.tomb
        /\ Limits(a.sp.nodes, then.sp.nodes, c)
    BY <2>3, <2>5, ApplyKeeps
  <2>7. Leads(b, then, new)
    BY <2>3, <2>5, <2>6 DEF Leads
  <2>8. ASSUME creating PROVE Untouched(b.sp.nodes, then.sp.nodes)
    BY <2>4, <2>5, <2>6, <2>8 DEF Untouched, Limits
  <2>9. QED  BY <2>4, <2>5, <2>6, <2>7, <2>8 DEF then
<1>4. Len(commands) \in U
  <2> HIDE DEF U
  <2> QED BY <1>2, <1>3, Induct
<1>5. QED  BY <1>1, <1>4

Shaped(b) ==
    /\ DOMAIN b = {"sp", "undo", "minted", "number", "ok"}
    /\ DOMAIN b.undo = {"updates", "moves", "creates", "deletes"}

\* A batch as it is between operations: it knows the ids handed out, and none both live
\* and deleted.  One that ran out of ids is not committed.
Whole(b) ==
    /\ Shaped(b) /\ b.minted \in Nat
    /\ b.minted <= Cardinality(NodeIds) =>
           /\ Batch(b, 1 .. b.minted)
           /\ DOMAIN b.sp.nodes \cap DOMAIN b.sp.tomb = {}

\* The ids handed out so far are ids.
LEMMA HandedOut ==
    ASSUME NEW m \in Nat, m <= Cardinality(NodeIds)
    PROVE  1 .. m \subseteq NodeIds
<1>1. Cardinality(NodeIds) \in Nat /\ NodeIds = 1 .. Cardinality(NodeIds)
  BY IdsAreNumbers, FS_CardinalityType
<1>2. QED  BY <1>1

Operations == {"create", "update_title", "update_url", "move", "delete"}

\* What the batch a has of the batch b, whatever its commands did: its number, how many
\* ids were handed out before, and the moves captured so far, if it moves nothing.
Follows(b, a, moving) ==
    /\ Shaped(a) /\ a.minted = b.minted /\ a.number = b.number
    /\ ~moving => a.undo.moves = b.undo.moves

LEMMA ApplyShape ==
    ASSUME NEW b, Shaped(b), NEW c, c.op \in Operations
    PROVE  Follows(b, Apply(b, c), c.op = "move")
<1> DEFINE a == Apply(b, c)
           undo == Captured(b.undo, b.sp.nodes, c)
<1>1. /\ DOMAIN undo = {"updates", "moves", "creates", "deletes"}
      /\ c.op # "move" => undo.moves = b.undo.moves
  BY DEF Captured, Shaped, Operations
<1>2. a \in {[b EXCEPT !.ok = FALSE], [b EXCEPT !.sp = Execute(b.sp, c, b.number), !.undo = undo]}
  BY DEF Apply
<1> HIDE DEF a, undo
<1>3. DOMAIN a = DOMAIN b /\ a.minted = b.minted /\ a.number = b.number /\ a.undo \in {b.undo, undo}
  BY <1>2 DEF Shaped
<1>4. QED  BY <1>1, <1>3 DEF Follows, Shaped, a

LEMMA ApplyAllShape ==
    ASSUME NEW b, Shaped(b), NEW commands, Len(commands) \in Nat, NEW moving \in BOOLEAN,
           \A k \in 1 .. Len(commands) : /\ commands[k].op \in Operations
                                         /\ ~moving => commands[k].op # "move"
    PROVE  Follows(b, ApplyAll(b, commands), moving)
<1>1. PICK done : /\ ApplyAll(b, commands) = done[Len(commands)] /\ done[0] = b
                  /\ \A k \in 1 .. Len(commands) : done[k] = Apply(done[k - 1], commands[k])
  BY ApplyAllSteps
<1> DEFINE U == {n \in Nat : n <= Len(commands) => Follows(b, done[n], moving)}
<1>2. 0 \in U
  BY <1>1 DEF Follows
<1>3. ASSUME NEW n \in Nat, n \in U PROVE n + 1 \in U
  <2>1. SUFFICES ASSUME n + 1 <= Len(commands) PROVE Follows(b, done[n + 1], moving)
    OBVIOUS
  <2>2. Follows(b, done[n], moving) /\ n + 1 \in 1 .. Len(commands) /\ (n + 1) - 1 = n
    BY <1>3, <2>1
  <2>3. done[n + 1] = Apply(done[n], commands[n + 1])
    BY <1>1, <2>2
  <2>4. Follows(done[n], done[n + 1], commands[n + 1].op = "move")
    BY <2>2, <2>3, ApplyShape DEF Follows
  <2>5. QED  BY <2>2, <2>4 DEF Follows
<1>4. Len(commands) \in U
  <2> HIDE DEF U
  <2> QED BY <1>2, <1>3, Induct
<1>5. QED  BY <1>1, <1>4

\* A batch stays whole when it runs a command that creates nothing.
LEMMA ApplyWhole ==
    ASSUME NEW b, Whole(b), NEW c, Asked(c), c.op # "create"
    PROVE  Whole(Apply(b, c)) /\ Follows(b, Apply(b, c), c.op = "move")
<1> DEFINE a == Apply(b, c)
<1>1. Follows(b, a, c.op = "move")
  <2>1. c.op \in Operations
    BY DEF Asked, Operations
  <2>2. QED  BY <2>1, ApplyShape DEF Whole
<1>2. Added(c) = {}
  BY DEF Added
<1>3. ASSUME b.minted <= Cardinality(NodeIds)
      PROVE  Batch(a, 1 .. b.minted) /\ Leads(b, a, {})
  BY <1>2, <1>3, ApplyKeeps DEF Whole
<1> HIDE DEF a
<1>4. Whole(a)
  BY <1>1, <1>3 DEF Whole, Leads, Follows
<1>5. QED  BY <1>1, <1>4 DEF a

\* And when it runs a list of them.
LEMMA ApplyAllWhole ==
    ASSUME NEW b, Whole(b), NEW commands, Len(commands) \in Nat,
           \A k \in 1 .. Len(commands) : Asked(commands[k]) /\ commands[k].op # "create"
    PROVE  Whole(ApplyAll(b, commands))
<1>1. PICK done : /\ ApplyAll(b, commands) = done[Len(commands)] /\ done[0] = b
                  /\ \A k \in 1 .. Len(commands) : done[k] = Apply(done[k - 1], commands[k])
  BY ApplyAllSteps
<1> DEFINE U == {n \in Nat : n <= Len(commands) => Whole(done[n])}
<1>2. 0 \in U
  BY <1>1
<1>3. ASSUME NEW n \in Nat, n \in U PROVE n + 1 \in U
  <2>1. SUFFICES ASSUME n + 1 <= Len(commands) PROVE Whole(done[n + 1])
    OBVIOUS
  <2>2. Whole(done[n]) /\ n + 1 \in 1 .. Len(commands) /\ (n + 1) - 1 = n
    BY <1>3, <2>1
  <2>3. done[n + 1] = Apply(done[n], commands[n + 1])
    BY <1>1, <2>2
  <2>4. Asked(commands[n + 1]) /\ commands[n + 1].op # "create"
    BY <2>2
  <2>5. QED  BY <2>2, <2>3, <2>4, ApplyWhole
<1>4. Len(commands) \in U
  <2> HIDE DEF U
  <2> QED BY <1>2, <1>3, Induct
<1>5. QED  BY <1>1, <1>4

\* The length of a list given member by member.
LEMMA LengthOf ==
    ASSUME NEW n \in Nat, NEW f, DOMAIN f = 1 .. n, f = [k \in DOMAIN f |-> f[k]]
    PROVE  Len(f) = n
<1>1. \A k \in 1 .. n : f[k] \in {f[i] : i \in 1 .. n}
  OBVIOUS
<1>2. QED  BY <1>1, ListOf

\* A create under the next id.
LEMMA CreateNextWhole ==
    ASSUME NEW b, Whole(b), NEW row, row.type \in NodeType, row.title \in Titles \cup {None},
           row.url \in Urls \cup {None}, NEW parent, NEW before
    PROVE  /\ Whole(CreateNext(b, row, parent, before))
           /\ CreateNext(b, row, parent, before).minted = b.minted + 1
           /\ CreateNext(b, row, parent, before).undo.moves = b.undo.moves
<1> DEFINE c == NewNode(b.minted + 1, row, parent, before)
           a == Apply(b, c)
           next == CreateNext(b, row, parent, before)
<1>1. c.op = "create" /\ c.node = b.minted + 1 /\ Added(c) = {b.minted + 1}
      /\ c.type = row.type /\ c.title = row.title /\ c.url = row.url
  BY DEF NewNode, Added
<1>2. Shaped(a) /\ a.minted = b.minted /\ b.minted \in Nat /\ a.undo.moves = b.undo.moves
  <2>1. c.op \in Operations /\ c.op # "move"
    BY <1>1 DEF Operations
  <2> HIDE DEF c
  <2>2. Follows(b, a, c.op = "move")
    BY <2>1, ApplyShape DEF Whole
  <2>3. QED  BY <2>1, <2>2 DEF Follows, Whole
<1>3. next = [a EXCEPT !.minted = @ + 1]
  BY DEF CreateNext
<1> HIDE DEF a, c, next
<1>4. DOMAIN next = DOMAIN a /\ next.minted = b.minted + 1 /\ next.sp = a.sp
      /\ next.undo = a.undo /\ next.number = a.number
  BY <1>2, <1>3 DEF Shaped
<1>5. ASSUME next.minted <= Cardinality(NodeIds)
      PROVE  /\ Batch(next, 1 .. next.minted)
             /\ DOMAIN next.sp.nodes \cap DOMAIN next.sp.tomb = {}
  <2>1. 1 .. b.minted + 1 \subseteq NodeIds /\ b.minted <= Cardinality(NodeIds)
    <3>1. Cardinality(NodeIds) \in Nat
      BY IdsAreNumbers, FS_CardinalityType
    <3>2. QED  BY <1>2, <1>4, <1>5, <3>1, HandedOut
  <2>2. Batch(b, 1 .. b.minted) /\ DOMAIN b.sp.nodes \cap DOMAIN b.sp.tomb = {}
    BY <2>1 DEF Whole
  <2>3. Batch(b, 1 .. b.minted + 1)
    BY <1>2, <2>1, <2>2, BatchGrows
  <2>4. Asked(c) /\ Added(c) \subseteq 1 .. b.minted + 1
    BY <1>1, <1>2, <2>1 DEF Asked
  <2>5. /\ Batch(a, 1 .. b.minted + 1) /\ Leads(b, a, {b.minted + 1})
        /\ DOMAIN a.sp.tomb = DOMAIN b.sp.tomb
    <3>1. /\ Batch(a, 1 .. b.minted + 1) /\ Leads(b, a, Added(c))
          /\ c.op = "create" => DOMAIN a.sp.tomb = DOMAIN b.sp.tomb
      BY <2>3, <2>4, ApplyKeeps DEF a
    <3>2. QED  BY <1>1, <3>1
  <2>6. b.minted + 1 \notin DOMAIN b.sp.tomb
    BY <1>2, <2>2 DEF Batch, Known
  <2>7. DOMAIN a.sp.nodes \cap DOMAIN a.sp.tomb = {}
    BY <2>2, <2>5, <2>6 DEF Leads
  <2>8. QED  BY <1>2, <1>4, <2>5, <2>7 DEF Batch, Shaped
<1>6. QED  BY <1>2, <1>4, <1>5 DEF Whole, Shaped, next

\* The rows of a before image come back under their old ids, without tombstones.
LEMMA RestoreWhole ==
    ASSUME NEW b, Whole(b), NEW snap,
           b.minted <= Cardinality(NodeIds) => snap \in Seq(Snaps(1 .. b.minted)),
           Len(snap) \in Nat, DOMAIN snap = 1 .. Len(snap)
    PROVE  /\ Whole(RestoreSnapshot(b, snap)) /\ RestoreSnapshot(b, snap).minted = b.minted
           /\ b.minted <= Cardinality(NodeIds) =>
                  Untouched(b.sp.nodes, RestoreSnapshot(b, snap).sp.nodes)
<1> DEFINE lost    == snap[1].parent \notin DOMAIN b.sp.nodes \cup b.sp.slots
           slotted == IF lost THEN [b EXCEPT !.sp.slots = @ \cup {UndoRoot}] ELSE b
           Parent(k) == IF k = 1 /\ lost THEN UndoRoot ELSE snap[k].parent
           commands == [k \in DOMAIN snap |-> NewNode(snap[k].node, snap[k], Parent(k), None)]
           done    == ApplyAll(slotted, commands)
           new     == {snap[k].node : k \in DOMAIN snap}
           restored == RestoreSnapshot(b, snap)
<1>1. restored = [done EXCEPT !.sp = WithoutTombstones(@, new)]
  BY DEF RestoreSnapshot
<1>2. Len(commands) = Len(snap)
  <2>1. DOMAIN commands = 1 .. Len(snap)
    OBVIOUS
  <2> DEFINE f == commands
  <2>2. f = [k \in DOMAIN f |-> f[k]]
    OBVIOUS
  <2> HIDE DEF f, commands
  <2>3. QED  BY <2>1, <2>2, LengthOf DEF f
<1>3. Shaped(slotted) /\ DOMAIN slotted = DOMAIN b /\ slotted.minted = b.minted
      /\ slotted.undo = b.undo /\ slotted.number = b.number
      /\ slotted.sp \in {b.sp, [b.sp EXCEPT !.slots = @ \cup {UndoRoot}]}
  BY DEF Whole, Shaped
<1>4. ASSUME NEW k \in 1 .. Len(commands)
      PROVE  /\ commands[k].op = "create" /\ commands[k].node = snap[k].node
             /\ commands[k].type = snap[k].type /\ commands[k].title = snap[k].title
             /\ commands[k].url = snap[k].url
  BY <1>2 DEF NewNode
<1> HIDE DEF commands, slotted
<1>5. Shaped(done) /\ done.minted = b.minted
  <2>1. \A k \in 1 .. Len(commands) : commands[k].op \in Operations /\ commands[k].op # "move"
    BY <1>4 DEF Operations
  <2>2. Follows(slotted, done, FALSE)
    BY <1>2, <1>3, <2>1, ApplyAllShape
  <2>3. QED  BY <1>3, <2>2 DEF Follows
<1>6. /\ DOMAIN restored = DOMAIN done /\ restored.minted = b.minted
      /\ restored.sp = WithoutTombstones(done.sp, new)
      /\ restored.undo = done.undo /\ restored.number = done.number
  <2> HIDE DEF done, restored
  <2>1. DOMAIN done = {"sp", "undo", "minted", "number", "ok"}
    BY <1>5 DEF Shaped
  <2>2. QED  BY <1>1, <1>5, <2>1
<1>7. ASSUME b.minted <= Cardinality(NodeIds)
      PROVE  /\ Batch(restored, 1 .. b.minted)
             /\ DOMAIN restored.sp.nodes \cap DOMAIN restored.sp.tomb = {}
             /\ Untouched(b.sp.nodes, restored.sp.nodes)
  <2> DEFINE ids == 1 .. b.minted
  <2>1. /\ Batch(b, ids) /\ DOMAIN b.sp.nodes \cap DOMAIN b.sp.tomb = {}
        /\ \A k \in DOMAIN snap : snap[k] \in Snaps(ids)
    BY <1>7 DEF Whole
  <2>2. b.sp.slots \subseteq RootKeys
    BY <2>1 DEF Batch, Sound, LiveSpace, TypedSpace, IsSpace
  <2>3. /\ Sound(slotted.sp) /\ slotted.sp.nodes = b.sp.nodes /\ slotted.sp.tomb = b.sp.tomb
    <3>1. CASE slotted.sp = b.sp
      BY <2>1, <3>1 DEF Batch
    <3>2. CASE slotted.sp = [b.sp EXCEPT !.slots = @ \cup {UndoRoot}]
      <4> DEFINE after == slotted.sp
      <4>1. DOMAIN b.sp = {"epoch", "rev", "floor", "slots", "nodes", "tomb", "journal"}
        BY <2>1 DEF Batch, Sound, LiveSpace, TypedSpace, IsSpace
      <4>2. /\ DOMAIN after = DOMAIN b.sp /\ after.slots = b.sp.slots \cup {UndoRoot}
            /\ after.epoch = b.sp.epoch /\ after.rev = b.sp.rev /\ after.floor = b.sp.floor
            /\ after.nodes = b.sp.nodes /\ after.tomb = b.sp.tomb /\ after.journal = b.sp.journal
        BY <3>2, <4>1
      <4> HIDE DEF after
      <4>3. Sound(b.sp) /\ after.slots \subseteq RootKeys
        BY <2>1, <2>2, <4>2, UndoRootIsRoot DEF Batch
      <4>4. Sound(after)
        BY <4>2, <4>3, SoundBeside
      <4>5. QED  BY <4>2, <4>4 DEF after
    <3>3. QED  BY <1>3, <3>1, <3>2
  <2>4. Batch(slotted, ids)
    BY <1>3, <2>1, <2>3 DEF Batch, Known
  <2>5. new \subseteq ids
    BY <2>1 DEF Snaps
  <2>6. ASSUME NEW k \in 1 .. Len(commands)
        PROVE  Asked(commands[k]) /\ Added(commands[k]) \subseteq new
    <3>1. k \in DOMAIN snap /\ snap[k] \in Snaps(ids) /\ ids \subseteq NodeIds
      BY <1>2, <2>1 DEF Batch
    <3>2. snap[k].node \in new
      BY <3>1
    <3> HIDE DEF new, ids
    <3>3. QED  BY <1>4, <3>1, <3>2 DEF Asked, Added, Snaps
  <2> HIDE DEF new, ids
  <2>7. /\ Batch(done, ids) /\ Leads(slotted, done, new)
        /\ DOMAIN done.sp.tomb = DOMAIN slotted.sp.tomb
        /\ Untouched(slotted.sp.nodes, done.sp.nodes)
    BY <1>2, <1>4, <2>4, <2>5, <2>6, ApplyAllKeeps
  <2> HIDE DEF done, restored
  <2>8. Sound(restored.sp) /\ restored.sp.nodes = done.sp.nodes
    <3> DEFINE from == done.sp
               after == restored.sp
    <3>1. Sound(from) /\ from.slots \subseteq RootKeys
          /\ DOMAIN from = {"epoch", "rev", "floor", "slots", "nodes", "tomb", "journal"}
      BY <2>7 DEF Batch, Sound, LiveSpace, TypedSpace, IsSpace
    <3>2. after = WithoutTombstones(from, new)
      BY <1>6
    <3> HIDE DEF from, after
    <3>3. /\ DOMAIN after = DOMAIN from /\ after.slots = from.slots
          /\ after.epoch = from.epoch /\ after.rev = from.rev /\ after.floor = from.floor
          /\ after.nodes = from.nodes /\ after.journal = from.journal
          /\ after.tomb = [n \in DOMAIN from.tomb \ new |-> from.tomb[n]]
      BY <3>1, <3>2 DEF WithoutTombstones
    <3>4. Sound(after)
      BY <3>1, <3>3, SoundBeside
    <3>5. QED  BY <3>3, <3>4 DEF from, after
  <2>9. DOMAIN restored.sp.tomb = DOMAIN done.sp.tomb \ new
    <3>1. "tomb" \in DOMAIN done.sp
      BY <2>7 DEF Batch, Sound, LiveSpace, TypedSpace, IsSpace
    <3>2. QED  BY <1>6, <3>1 DEF WithoutTombstones
  <2>10. Known(restored.sp) \subseteq ids
    BY <2>7, <2>8, <2>9 DEF Batch, Known
  <2>11. Batch(restored, ids)
    BY <1>6, <2>7, <2>8, <2>10 DEF Batch
  <2>12. DOMAIN restored.sp.nodes \cap DOMAIN restored.sp.tomb = {}
    BY <2>1, <2>3, <2>7, <2>8, <2>9 DEF Leads
  <2>13. Untouched(b.sp.nodes, restored.sp.nodes)
    BY <2>3, <2>7, <2>8
  <2>14. QED  BY <2>11, <2>12, <2>13 DEF ids
<1> HIDE DEF restored, done
<1>8. b.minted \in Nat
  BY DEF Whole
<1>9. Shaped(restored)
  BY <1>5, <1>6 DEF Shaped
<1>10. QED  BY <1>6, <1>7, <1>8, <1>9 DEF Whole, restored

---------------------------------------------------------------------------
(* Undo *)

\* The inverse steps of the before images ids.
InverseKinds(ids) ==
    [what : {"restore"}, of : Seq(Snaps(ids))] \cup [what : {"revert"}, of : Updates]
        \cup [what : {"move back"}, of : Moves] \cup [what : {"remove"}, of : NodeIds]

LEMMA ReverseLists ==
    ASSUME NEW S, NEW f \in Seq(S)
    PROVE  Reverse(f) \in Seq(S)
BY DEF Reverse

\* The steps that one kind of before images asks for.
StepsFor(what, list) == [k \in DOMAIN list |-> [what |-> what, of |-> list[k]]]

LEMMA StepsOf ==
    ASSUME NEW S, NEW what, NEW list \in Seq(S), NEW Kinds,
           \A of \in S : [what |-> what, of |-> of] \in Kinds
    PROVE  StepsFor(what, list) \in Seq(Kinds)
<1> DEFINE steps == [k \in DOMAIN list |-> [what |-> what, of |-> list[k]]]
<1>1. DOMAIN steps = 1 .. Len(list) /\ Len(list) \in Nat /\ steps = [k \in DOMAIN steps |-> steps[k]]
  OBVIOUS
<1>2. ASSUME NEW k \in 1 .. Len(list) PROVE steps[k] \in Kinds
  OBVIOUS
<1> HIDE DEF steps
<1>3. steps \in Seq(Kinds)
  BY <1>1, <1>2, ListOf
<1>4. QED  BY <1>3 DEF steps, StepsFor

LEMMA FourLists ==
    ASSUME NEW S, NEW a \in Seq(S), NEW c \in Seq(S), NEW d \in Seq(S), NEW e \in Seq(S)
    PROVE  a \o c \o d \o e \in Seq(S)
OBVIOUS

LEMMA InverseTyped ==
    ASSUME NEW ids, NEW undo \in Undos(ids)
    PROVE  InverseSteps(undo) \in Seq(InverseKinds(ids))
<1> DEFINE Kinds == InverseKinds(ids)
<1>1. /\ undo.updates \in Seq(Updates) /\ undo.moves \in Seq(Moves)
      /\ undo.creates \in Seq(NodeIds) /\ undo.deletes \in Seq(Seq(Snaps(ids)))
  BY DEF Undos
<1>2. Reverse(undo.deletes) \in Seq(Seq(Snaps(ids))) /\ Reverse(undo.creates) \in Seq(NodeIds)
  BY <1>1, ReverseLists
<1>3. /\ \A of \in Seq(Snaps(ids)) : [what |-> "restore", of |-> of] \in Kinds
      /\ \A of \in Updates : [what |-> "revert", of |-> of] \in Kinds
      /\ \A of \in Moves : [what |-> "move back", of |-> of] \in Kinds
      /\ \A of \in NodeIds : [what |-> "remove", of |-> of] \in Kinds
  BY DEF InverseKinds
<1> HIDE DEF Kinds
<1>4. StepsFor("restore", Reverse(undo.deletes)) \in Seq(Kinds)
  BY <1>2, <1>3, StepsOf
<1>5. StepsFor("revert", undo.updates) \in Seq(Kinds)
  BY <1>1, <1>3, StepsOf
<1>6. StepsFor("move back", undo.moves) \in Seq(Kinds)
  BY <1>1, <1>3, StepsOf
<1>7. StepsFor("remove", Reverse(undo.creates)) \in Seq(Kinds)
  BY <1>2, <1>3, StepsOf
<1>8. InverseSteps(undo) = StepsFor("restore", Reverse(undo.deletes)) \o StepsFor("revert", undo.updates)
            \o StepsFor("move back", undo.moves) \o StepsFor("remove", Reverse(undo.creates))
  BY DEF InverseSteps, StepsFor
<1>9. StepsFor("restore", Reverse(undo.deletes)) \o StepsFor("revert", undo.updates)
            \o StepsFor("move back", undo.moves) \o StepsFor("remove", Reverse(undo.creates))
        \in Seq(Kinds)
  BY <1>4, <1>5, <1>6, <1>7, FourLists
<1>10. QED  BY <1>8, <1>9 DEF Kinds

\* A step of an undo keeps the batch whole and hands out no id.
LEMMA InverseStepWhole ==
    ASSUME NEW b, Whole(b), NEW undo, NEW step,
           step \in InverseKinds(1 .. b.minted)
    PROVE  Whole(InverseStep(b, undo, step)) /\ InverseStep(b, undo, step).minted = b.minted
<1>1. CASE step.what = "restore"
  <2>1. step.of \in Seq(Snaps(1 .. b.minted))
    BY <1>1 DEF InverseKinds
  <2>2. Len(step.of) \in Nat /\ DOMAIN step.of = 1 .. Len(step.of)
    BY <2>1
  <2>3. InverseStep(b, undo, step) = RestoreSnapshot(b, step.of)
    BY <1>1 DEF InverseStep
  <2>4. QED  BY <2>1, <2>2, <2>3, RestoreWhole
<1>2. CASE step.what = "revert"
  <2>1. step.of \in Updates
    BY <1>2 DEF InverseKinds
  <2>2. Asked(RevertOf(step.of)) /\ RevertOf(step.of).op # "create"
    BY <2>1 DEF Updates, RevertOf, Asked
  <2>3. InverseStep(b, undo, step) = Apply(b, RevertOf(step.of))
    BY <1>2 DEF InverseStep
  <2>4. QED  BY <2>2, <2>3, ApplyWhole DEF Follows
<1>3. CASE step.what = "move back"
  <2> DEFINE mv == step.of
             kids == InOrder(b.sp.nodes, mv.parent)
             c == [op |-> "move", node |-> mv.node, parent |-> mv.parent,
                   before |-> IF mv.position < Len(kids) THEN kids[mv.position + 1] ELSE None]
  <2>1. InverseStep(b, undo, step) = MoveBack(b, mv)
    BY <1>3 DEF InverseStep
  <2>2. MoveBack(b, mv) = Apply(b, c)
    BY DEF MoveBack
  <2>3. Asked(c) /\ c.op # "create"
    BY DEF Asked
  <2> HIDE DEF c
  <2>4. QED  BY <2>1, <2>2, <2>3, ApplyWhole DEF Follows
<1>4. CASE step.what = "remove"
  <2> DEFINE c == [op |-> "delete", node |-> step.of]
  <2>1. Asked(c) /\ c.op # "create"
    BY DEF Asked
  <2>2. InverseStep(b, undo, step) \in {b, Apply(b, c)}
    BY <1>4 DEF InverseStep, DeleteCreated
  <2> HIDE DEF c
  <2>3. QED  BY <2>1, <2>2, ApplyWhole DEF Follows
<1>5. QED  BY <1>1, <1>2, <1>3, <1>4 DEF InverseKinds

\* An undo takes one inverse step after the other.
LEMMA InvertedSteps ==
    ASSUME NEW b, NEW undo, Len(InverseSteps(undo)) \in Nat
    PROVE  \E done : /\ Inverted(b, undo) = done[Len(InverseSteps(undo))] /\ done[0] = b
                     /\ \A k \in 1 .. Len(InverseSteps(undo)) :
                            done[k] = InverseStep(done[k - 1], undo, InverseSteps(undo)[k])
<1> DEFINE size == Len(InverseSteps(undo))
           base == b
           run(prev, k) == InverseStep(prev, undo, InverseSteps(undo)[k])
           Rec(g, n) == g = [k \in 0 .. n |-> IF k = 0 THEN base ELSE run(g[k - 1], k)]
           T == {n \in Nat : \E g : Rec(g, n)}
<1>1. 0 \in T
  <2>1. Rec([k \in 0 .. 0 |-> base], 0)
    OBVIOUS
  <2>2. QED  BY <2>1
<1>2. ASSUME NEW n \in Nat, n \in T PROVE n + 1 \in T
  <2>1. PICK g : Rec(g, n)
    BY <1>2
  <2> DEFINE h == [k \in 0 .. n + 1 |-> IF k = n + 1 THEN run(g[n], n + 1) ELSE g[k]]
  <2> HIDE DEF base, run
  <2>2. ASSUME NEW k \in 0 .. n + 1
        PROVE  h[k] = IF k = 0 THEN base ELSE run(h[k - 1], k)
    <3>1. CASE k = n + 1
      BY <3>1
    <3>2. CASE k \in 0 .. n
      BY <3>2, <2>1
    <3>3. QED  BY <3>1, <3>2
  <2>3. Rec(h, n + 1)
    BY <2>2
  <2> HIDE DEF h
  <2>4. QED  BY <2>3
<1>3. size \in T
  <2> HIDE DEF T, size
  <2>1. size \in Nat
    BY DEF size
  <2>2. QED  BY <1>1, <1>2, <2>1, Induct
<1> DEFINE done == CHOOSE g : Rec(g, size)
<1>4. Rec(done, size)
  BY <1>3
<1>5. Inverted(b, undo) = done[Len(InverseSteps(undo))]
  BY DEF Inverted
<1> HIDE DEF done, T
<1>6. done[0] = base /\ \A k \in 1 .. size : done[k] = run(done[k - 1], k)
  <2> HIDE DEF base, run
  <2> QED BY <1>4
<1>7. QED  BY <1>5, <1>6

\* The batch of an undo is whole.
LEMMA InvertedWhole ==
    ASSUME NEW b, Whole(b), NEW undo \in Undos(1 .. b.minted)
    PROVE  Whole(Inverted(b, undo)) /\ Inverted(b, undo).minted = b.minted
<1> DEFINE steps == InverseSteps(undo)
           Good(a) == Whole(a) /\ a.minted = b.minted
<1>1. steps \in Seq(InverseKinds(1 .. b.minted))
  BY InverseTyped
<1>2. Len(steps) \in Nat /\ \A k \in 1 .. Len(steps) : steps[k] \in InverseKinds(1 .. b.minted)
  BY <1>1
<1>3. PICK done : /\ Inverted(b, undo) = done[Len(steps)] /\ done[0] = b
                  /\ \A k \in 1 .. Len(steps) : done[k] = InverseStep(done[k - 1], undo, steps[k])
  BY <1>2, InvertedSteps
<1> HIDE DEF steps
<1> DEFINE U == {n \in Nat : n <= Len(steps) => Good(done[n])}
<1>4. 0 \in U
  BY <1>3
<1>5. ASSUME NEW n \in Nat, n \in U PROVE n + 1 \in U
  <2>1. SUFFICES ASSUME n + 1 <= Len(steps) PROVE Good(done[n + 1])
    OBVIOUS
  <2>2. Good(done[n]) /\ n + 1 \in 1 .. Len(steps) /\ (n + 1) - 1 = n
    BY <1>2, <1>5, <2>1
  <2>3. done[n + 1] = InverseStep(done[n], undo, steps[n + 1])
    BY <1>3, <2>2
  <2>4. steps[n + 1] \in InverseKinds(1 .. done[n].minted)
    BY <1>2, <2>2
  <2>5. QED  BY <2>2, <2>3, <2>4, InverseStepWhole
<1>6. Len(steps) \in U
  <2> HIDE DEF U
  <2> QED BY <1>2, <1>4, <1>5, Induct
<1>7. QED  BY <1>2, <1>3, <1>6

---------------------------------------------------------------------------
(* Copies of trees *)

\* The length of the list of a parent's children.
LEMMA InOrderLength ==
    ASSUME NEW nodes, DOMAIN nodes \subseteq NodeIds, NEW p
    PROVE  /\ Len(InOrder(nodes, p)) \in Nat
           /\ DOMAIN InOrder(nodes, p) = 1 .. Len(InOrder(nodes, p))
<1> DEFINE list == InOrder(nodes, p)
           size == Cardinality(Children(nodes, p))
<1>1. size \in Nat
  <2>1. IsFiniteSet(Children(nodes, p))
    BY IdsAreNumbers, FS_Subset DEF Children
  <2>2. QED  BY <2>1, FS_CardinalityType
<1>2. DOMAIN list = 1 .. size /\ list = [k \in DOMAIN list |-> list[k]]
  BY DEF InOrder
<1> HIDE DEF list, size
<1>3. Len(list) = size
  BY <1>1, <1>2, LengthOf
<1>4. QED  BY <1>1, <1>2, <1>3 DEF list

\* Clearing the target is a list of deletes.
LEMMA TargetWhole ==
    ASSUME NEW b, Whole(b), b.minted <= Cardinality(NodeIds), NEW target, NEW strategy
    PROVE  Whole(Target(b, target, strategy)) /\ Follows(b, Target(b, target, strategy), FALSE)
<1> DEFINE kids == InOrder(b.sp.nodes, target)
           commands == [k \in DOMAIN kids |-> [op |-> "delete", node |-> kids[k]]]
<1>1. Len(kids) \in Nat /\ DOMAIN kids = 1 .. Len(kids)
  <2>1. DOMAIN b.sp.nodes \subseteq NodeIds
    BY DEF Whole, Batch, Known
  <2>2. QED  BY <2>1, InOrderLength
<1>2. \A k \in DOMAIN kids : Asked(commands[k]) /\ commands[k].op # "create"
  BY DEF Asked
<1>3. DOMAIN commands = DOMAIN kids /\ commands = [k \in DOMAIN commands |-> commands[k]]
  OBVIOUS
<1>4. Cleared(b, target) = ApplyAll(b, commands)
  BY DEF Cleared
<1> HIDE DEF kids, commands
<1>5. Len(commands) = Len(kids)
  BY <1>1, <1>3, LengthOf
<1>6. Whole(Cleared(b, target))
  BY <1>1, <1>2, <1>4, <1>5, ApplyAllWhole
<1>7. Follows(b, Cleared(b, target), FALSE)
  <2>1. \A k \in 1 .. Len(commands) : commands[k].op \in Operations /\ commands[k].op # "move"
    BY <1>1, <1>3, <1>5 DEF Operations, commands
  <2>2. QED  BY <1>1, <1>4, <1>5, <2>1, ApplyAllShape DEF Whole
<1>8. QED  BY <1>6, <1>7 DEF Target, Follows, Whole

\* The items of a file are merged one after the other.
LEMMA MergeSteps ==
    ASSUME NEW b, NEW items, NEW target, NEW strategy, Len(items) \in Nat
    PROVE  \E done : /\ MergeFile(b, items, target, strategy) = done[Len(items)]
                     /\ done[0] = [b |-> Target(b, target, strategy), at |-> <<>>, made |-> {}]
                     /\ \A k \in 1 .. Len(items) :
                            done[k] = MergeItem(done[k - 1], items[k], target)
<1> DEFINE size == Len(items)
           base == [b |-> Target(b, target, strategy), at |-> <<>>, made |-> {}]
           run(prev, k) == MergeItem(prev, items[k], target)
           Rec(g, n) == g = [k \in 0 .. n |-> IF k = 0 THEN base ELSE run(g[k - 1], k)]
           T == {n \in Nat : \E g : Rec(g, n)}
<1>1. 0 \in T
  <2>1. Rec([k \in 0 .. 0 |-> base], 0)
    OBVIOUS
  <2>2. QED  BY <2>1
<1>2. ASSUME NEW n \in Nat, n \in T PROVE n + 1 \in T
  <2>1. PICK g : Rec(g, n)
    BY <1>2
  <2> DEFINE h == [k \in 0 .. n + 1 |-> IF k = n + 1 THEN run(g[n], n + 1) ELSE g[k]]
  <2> HIDE DEF base, run
  <2>2. ASSUME NEW k \in 0 .. n + 1
        PROVE  h[k] = IF k = 0 THEN base ELSE run(h[k - 1], k)
    <3>1. CASE k = n + 1
      BY <3>1
    <3>2. CASE k \in 0 .. n
      BY <3>2, <2>1
    <3>3. QED  BY <3>1, <3>2
  <2>3. Rec(h, n + 1)
    BY <2>2
  <2> HIDE DEF h
  <2>4. QED  BY <2>3
<1>3. size \in T
  <2> HIDE DEF T, size
  <2>1. size \in Nat
    BY DEF size
  <2>2. QED  BY <1>1, <1>2, <2>1, Induct
<1> DEFINE done == CHOOSE g : Rec(g, size)
<1>4. Rec(done, size)
  BY <1>3
<1>5. MergeFile(b, items, target, strategy) = done[Len(items)]
  BY DEF MergeFile
<1> HIDE DEF done, T
<1>6. done[0] = base /\ \A k \in 1 .. size : done[k] = run(done[k - 1], k)
  <2> HIDE DEF base, run
  <2> QED BY <1>4
<1>7. QED  BY <1>5, <1>6

\* The items of a publication are placed one after the other.
LEMMA PlaceSteps ==
    ASSUME NEW b, NEW items, NEW target, NEW map, NEW strategy, Len(items) \in Nat
    PROVE  \E done : /\ PlaceAll(b, items, target, map, strategy) = done[Len(items)] /\ done[0] = [b |-> Target(b, target, strategy), at |-> <<>>, index |-> <<>>]
                     /\ \A k \in 1 .. Len(items) :
                            done[k] = PlaceItem(done[k - 1], items[k], target, map, strategy)
<1> DEFINE size == Len(items)
           base == [b |-> Target(b, target, strategy), at |-> <<>>, index |-> <<>>]
           run(prev, k) == PlaceItem(prev, items[k], target, map, strategy)
           Rec(g, n) == g = [k \in 0 .. n |-> IF k = 0 THEN base ELSE run(g[k - 1], k)]
           T == {n \in Nat : \E g : Rec(g, n)}
<1>1. 0 \in T
  <2>1. Rec([k \in 0 .. 0 |-> base], 0)
    OBVIOUS
  <2>2. QED  BY <2>1
<1>2. ASSUME NEW n \in Nat, n \in T PROVE n + 1 \in T
  <2>1. PICK g : Rec(g, n)
    BY <1>2
  <2> DEFINE h == [k \in 0 .. n + 1 |-> IF k = n + 1 THEN run(g[n], n + 1) ELSE g[k]]
  <2> HIDE DEF base, run
  <2>2. ASSUME NEW k \in 0 .. n + 1
        PROVE  h[k] = IF k = 0 THEN base ELSE run(h[k - 1], k)
    <3>1. CASE k = n + 1
      BY <3>1
    <3>2. CASE k \in 0 .. n
      BY <3>2, <2>1
    <3>3. QED  BY <3>1, <3>2
  <2>3. Rec(h, n + 1)
    BY <2>2
  <2> HIDE DEF h
  <2>4. QED  BY <2>3
<1>3. size \in T
  <2> HIDE DEF T, size
  <2>1. size \in Nat
    BY DEF size
  <2>2. QED  BY <1>1, <1>2, <2>1, Induct
<1> DEFINE done == CHOOSE g : Rec(g, size)
<1>4. Rec(done, size)
  BY <1>3
<1>5. PlaceAll(b, items, target, map, strategy) = done[Len(items)]
  BY DEF PlaceAll
<1> HIDE DEF done, T
<1>6. done[0] = base /\ \A k \in 1 .. size : done[k] = run(done[k - 1], k)
  <2> HIDE DEF base, run
  <2> QED BY <1>4
<1>7. QED  BY <1>5, <1>6

\* What an import merges into is whole, and ids are only handed out.
LEMMA MergeWhole ==
    ASSUME NEW b, Whole(b), b.minted <= Cardinality(NodeIds), NEW items \in Seq(ItemRows),
           NEW target, NEW strategy
    PROVE  LET a == MergeFile(b, items, target, strategy).b
           IN  Whole(a) /\ b.minted <= a.minted /\ a.undo.moves = b.undo.moves
<1> DEFINE Good(acc) == /\ DOMAIN acc = {"b", "at", "made"} /\ Whole(acc.b)
                        /\ b.minted <= acc.b.minted
                        /\ acc.b.undo.moves = b.undo.moves
<1>1. Len(items) \in Nat /\ \A k \in 1 .. Len(items) : items[k] \in ItemRows
  OBVIOUS
<1>2. PICK done : /\ MergeFile(b, items, target, strategy) = done[Len(items)]
                  /\ done[0] = [b |-> Target(b, target, strategy), at |-> <<>>, made |-> {}]
                  /\ \A k \in 1 .. Len(items) : done[k] = MergeItem(done[k - 1], items[k], target)
  BY <1>1, MergeSteps
<1>3. Good(done[0])
  <2>1. b.minted \in Nat
    BY DEF Whole
  <2>2. QED  BY <1>2, <2>1, TargetWhole DEF Follows
<1>4. ASSUME NEW acc, Good(acc), NEW item \in ItemRows
      PROVE  Good(MergeItem(acc, item, target))
  <2> DEFINE next == MergeItem(acc, item, target)
             parent == Under(acc.at, target, item)
             children == ChildRows(acc.b.sp.nodes, parent)
             alike == MatchesIn(acc, children, item)
             created == CreateItem(acc.b, item, parent)
  <2>1. CASE alike # {}
    <3>1. next = [acc EXCEPT !.at = Append(@, LastOf(children, alike))]
      BY <2>1 DEF MergeItem
    <3> HIDE DEF next
    <3>2. DOMAIN next = DOMAIN acc /\ next.b = acc.b
      BY <1>4, <3>1
    <3>3. QED  BY <1>4, <3>2 DEF next
  <2>2. CASE alike = {}
    <3>1. next = [b |-> created, at |-> Append(acc.at, acc.b.minted + 1),
                made |-> acc.made \cup {Len(acc.at) + 1}]
      BY <2>2 DEF MergeItem
    <3>2. Whole(created) /\ created.minted = acc.b.minted + 1 /\ created.undo.moves = acc.b.undo.moves
      <4>1. item.type \in NodeType /\ item.title \in Titles \cup {None} /\ item.url \in Urls \cup {None}
        BY <1>4 DEF ItemRows
      <4>2. QED  BY <1>4, <4>1, CreateNextWhole DEF CreateItem
    <3> HIDE DEF next, created
    <3>3. DOMAIN next = {"b", "at", "made"} /\ next.b = created
      BY <3>1
    <3>4. acc.b.minted \in Nat /\ b.minted \in Nat
      BY <1>4 DEF Whole
    <3>5. Whole(next.b) /\ b.minted <= next.b.minted /\ next.b.undo.moves = b.undo.moves
      BY <1>4, <3>2, <3>3, <3>4
    <3>6. QED  BY <3>3, <3>5 DEF next
  <2>3. QED  BY <2>1, <2>2
<1> HIDE DEF Good
<1> DEFINE U == {n \in Nat : n <= Len(items) => Good(done[n])}
<1>5. 0 \in U
  BY <1>3
<1>6. ASSUME NEW n \in Nat, n \in U PROVE n + 1 \in U
  <2>1. SUFFICES ASSUME n + 1 <= Len(items) PROVE Good(done[n + 1])
    OBVIOUS
  <2>2. Good(done[n]) /\ n + 1 \in 1 .. Len(items) /\ (n + 1) - 1 = n
    BY <1>1, <1>6, <2>1
  <2>3. QED  BY <1>1, <1>2, <1>4, <2>2
<1>7. Len(items) \in U
  <2> HIDE DEF U
  <2> QED BY <1>1, <1>5, <1>6, Induct
<1>8. QED  BY <1>1, <1>2, <1>7 DEF Good

\* Refreshing a node keeps the batch whole and hands out no id.
LEMMA RefreshWhole ==
    ASSUME NEW b, Whole(b), NEW n, NEW item \in ItemRows
    PROVE  Whole(Refresh(b, n, item)) /\ Follows(b, Refresh(b, n, item), FALSE)
<1> DEFINE t == [op |-> "update_title", node |-> n, title |-> item.title]
           u == [op |-> "update_url", node |-> n, url |-> item.url]
           titled == IF b.sp.nodes[n].title = item.title THEN b ELSE Apply(b, t)
<1>1. Asked(t) /\ t.op # "create" /\ t.op # "move" /\ Asked(u) /\ u.op # "create" /\ u.op # "move"
  BY DEF Asked, ItemRows
<1>2. Refresh(b, n, item) \in {titled, Apply(titled, u)}
  BY DEF Refresh
<1>3. Whole(titled) /\ Follows(b, titled, FALSE)
  <2>1. titled \in {b, Apply(b, t)}
    OBVIOUS
  <2>2. Follows(b, b, FALSE)
    BY DEF Follows, Whole
  <2> HIDE DEF t, titled
  <2>3. Whole(Apply(b, t)) /\ Follows(b, Apply(b, t), FALSE)
    BY <1>1, ApplyWhole DEF Follows
  <2>4. QED  BY <2>1, <2>2, <2>3
<1> HIDE DEF titled, u
<1>4. Whole(Apply(titled, u)) /\ Follows(titled, Apply(titled, u), FALSE)
  BY <1>1, <1>3, ApplyWhole DEF Follows
<1>5. QED  BY <1>2, <1>3, <1>4 DEF Follows

\* The batch that applies a publication is whole, and ids are only handed out.
LEMMA PlaceWhole ==
    ASSUME NEW b, Whole(b), b.minted <= Cardinality(NodeIds), NEW items \in Seq(ItemRows),
           NEW target, NEW map, NEW strategy
    PROVE  LET a == PlaceAll(b, items, target, map, strategy).b
           IN  Whole(a) /\ b.minted <= a.minted /\ a.undo.moves = b.undo.moves
<1> DEFINE Good(acc) == /\ DOMAIN acc = {"b", "at", "index"} /\ Whole(acc.b)
                        /\ b.minted <= acc.b.minted /\ acc.b.undo.moves = b.undo.moves
<1>1. Len(items) \in Nat /\ \A k \in 1 .. Len(items) : items[k] \in ItemRows
  OBVIOUS
<1>2. PICK done : /\ PlaceAll(b, items, target, map, strategy) = done[Len(items)]
                  /\ done[0] = [b |-> Target(b, target, strategy), at |-> <<>>, index |-> <<>>]
                  /\ \A k \in 1 .. Len(items) :
                         done[k] = PlaceItem(done[k - 1], items[k], target, map, strategy)
  BY <1>1, PlaceSteps
<1>3. Good(done[0])
  <2>1. b.minted \in Nat
    BY DEF Whole
  <2>2. QED  BY <1>2, <2>1, TargetWhole DEF Follows
<1>4. ASSUME NEW acc, Good(acc), NEW item \in ItemRows
      PROVE  Good(PlaceItem(acc, item, target, map, strategy))
  <2> DEFINE next == PlaceItem(acc, item, target, map, strategy)
             parent == Under(acc.at, target, item)
             seen == Indexed(acc, parent)
             made == CreateItem(acc.b, item, parent)
             fresh == Refresh(acc.b, map[item.key], item)
  <2>1. DOMAIN seen = DOMAIN acc /\ seen.b = acc.b
    BY <1>4 DEF Indexed
  <2>2. CASE strategy = "merge" /\ Refreshable(acc.b, map, item)
    <3>1. next = [acc EXCEPT !.b = fresh, !.at = Append(@, map[item.key])]
      BY <2>2 DEF PlaceItem
    <3>2. Whole(fresh) /\ fresh.minted = acc.b.minted /\ fresh.undo.moves = acc.b.undo.moves
      BY <1>4, RefreshWhole DEF Follows
    <3> HIDE DEF next, fresh
    <3>3. DOMAIN next = DOMAIN acc /\ next.b = fresh
      BY <1>4, <3>1
    <3>4. QED  BY <1>4, <3>2, <3>3 DEF next
  <2>3. CASE ~(strategy = "merge" /\ Refreshable(acc.b, map, item))
             /\ strategy = "merge" /\ Matches(seen.index[parent], item) # {}
    <3>1. next = [seen EXCEPT !.at = Append(@, LastOf(seen.index[parent], Matches(seen.index[parent], item)))]
      BY <2>3 DEF PlaceItem
    <3> HIDE DEF next, seen
    <3>2. DOMAIN next = DOMAIN seen /\ next.b = seen.b
      BY <1>4, <2>1, <3>1
    <3>3. QED  BY <1>4, <2>1, <3>2 DEF next
  <2>4. CASE /\ ~(strategy = "merge" /\ Refreshable(acc.b, map, item))
             /\ ~(strategy = "merge" /\ Matches(seen.index[parent], item) # {})
    <3>1. next = [seen EXCEPT !.b = made, !.at = Append(@, acc.b.minted + 1)]
      BY <2>4 DEF PlaceItem
    <3>2. Whole(made) /\ made.minted = acc.b.minted + 1 /\ made.undo.moves = acc.b.undo.moves
      <4>1. item.type \in NodeType /\ item.title \in Titles \cup {None} /\ item.url \in Urls \cup {None}
        BY <1>4 DEF ItemRows
      <4>2. QED  BY <1>4, <4>1, CreateNextWhole DEF CreateItem
    <3> HIDE DEF next, made, seen
    <3>3. DOMAIN next = {"b", "at", "index"} /\ next.b = made
      BY <1>4, <2>1, <3>1
    <3>4. acc.b.minted \in Nat /\ b.minted \in Nat
      BY <1>4 DEF Whole
    <3>5. Whole(next.b) /\ b.minted <= next.b.minted /\ next.b.undo.moves = b.undo.moves
      BY <1>4, <3>2, <3>3, <3>4
    <3>6. QED  BY <3>3, <3>5 DEF next
  <2>5. QED  BY <2>2, <2>3, <2>4
<1> HIDE DEF Good
<1> DEFINE U == {n \in Nat : n <= Len(items) => Good(done[n])}
<1>5. 0 \in U
  BY <1>3
<1>6. ASSUME NEW n \in Nat, n \in U PROVE n + 1 \in U
  <2>1. SUFFICES ASSUME n + 1 <= Len(items) PROVE Good(done[n + 1])
    OBVIOUS
  <2>2. Good(done[n]) /\ n + 1 \in 1 .. Len(items) /\ (n + 1) - 1 = n
    BY <1>1, <1>6, <2>1
  <2>3. QED  BY <1>1, <1>2, <1>4, <2>2
<1>7. Len(items) \in U
  <2> HIDE DEF U
  <2> QED BY <1>1, <1>5, <1>6, Induct
<1>8. QED  BY <1>1, <1>2, <1>7 DEF Good

\* The copy of a subtree is whole: each node has an id of its own range.
LEMMA CopyWhole ==
    ASSUME NEW b, Whole(b), b.minted <= Cardinality(NodeIds),
           NEW sp, TypedSpace(sp), DenseSiblings(sp), NEW root \in DOMAIN sp.nodes,
           NEW target, NEW before
    PROVE  LET a == CopySubtree(b, sp.nodes, root, target, before)
           IN  Whole(a) /\ b.minted <= a.minted /\ a.undo.moves = b.undo.moves
<1> DEFINE ids == CopyOrder(sp.nodes, root)
           Copy(n) == NewNode(FreshFor(b, ids, n), sp.nodes[n],
                              IF n = root THEN target ELSE FreshFor(b, ids, sp.nodes[n].parent),
                              IF n = root THEN before ELSE None)
           commands == [k \in DOMAIN ids |-> Copy(ids[k])]
           done == ApplyAll(b, commands)
           a == CopySubtree(b, sp.nodes, root, target, before)
           top == b.minted + Len(ids)
           new == b.minted + 1 .. top
<1>1. ids \in Seq(DOMAIN sp.nodes)
  <2>1. <<root>> \in Seq(DOMAIN sp.nodes)
    BY OneLongList
  <2>2. QED  BY <2>1, TraversalVisits DEF CopyOrder, BreadthFirst
<1>2. Len(ids) \in Nat /\ DOMAIN ids = 1 .. Len(ids) /\ b.minted \in Nat /\ Shaped(b)
  BY <1>1 DEF Whole
<1>3. a = [done EXCEPT !.minted = @ + Len(ids)]
  BY DEF CopySubtree
<1>4. ASSUME NEW k \in 1 .. Len(ids)
      PROVE  /\ commands[k].op = "create" /\ commands[k].node \in new
             /\ commands[k].type \in NodeType /\ commands[k].title \in Titles \cup {None}
             /\ commands[k].url \in Urls \cup {None}
  <2>1. ids[k] \in DOMAIN sp.nodes
    BY <1>1
  <2>2. /\ sp.nodes[ids[k]].type \in NodeType /\ sp.nodes[ids[k]].title \in Titles
        /\ sp.nodes[ids[k]].url \in Urls \cup {None}
    BY <2>1 DEF TypedSpace, IsSpace, Nodes
  <2>3. (CHOOSE j \in DOMAIN ids : ids[j] = ids[k]) \in DOMAIN ids
    BY <1>2
  <2>4. FreshFor(b, ids, ids[k]) \in new
    BY <1>2, <2>3 DEF FreshFor
  <2>5. commands[k] = Copy(ids[k])
    BY <1>2
  <2> HIDE DEF commands, ids, new
  <2>6. QED  BY <2>2, <2>4, <2>5 DEF NewNode
<1>5. DOMAIN commands = 1 .. Len(ids) /\ commands = [k \in DOMAIN commands |-> commands[k]]
  BY <1>2
<1> HIDE DEF ids, commands, a
<1>6. Len(commands) = Len(ids)
  BY <1>2, <1>5, LengthOf
<1>7. Follows(b, done, FALSE)
  <2>1. \A k \in 1 .. Len(commands) : commands[k].op \in Operations /\ commands[k].op # "move"
    BY <1>4, <1>6 DEF Operations
  <2>2. QED  BY <1>2, <1>6, <2>1, ApplyAllShape
<1> HIDE DEF done
<1>8. /\ Shaped(a) /\ a.minted = top /\ a.sp = done.sp /\ a.undo = done.undo
      /\ a.number = done.number /\ a.undo.moves = b.undo.moves
  BY <1>2, <1>3, <1>7 DEF Follows, Shaped
<1>9. ASSUME top <= Cardinality(NodeIds)
      PROVE  Batch(a, 1 .. top) /\ DOMAIN a.sp.nodes \cap DOMAIN a.sp.tomb = {}
  <2>1. 1 .. top \subseteq NodeIds /\ top \in Nat /\ new \subseteq 1 .. top
        /\ 1 .. b.minted \subseteq 1 .. top
    BY <1>2, <1>9, HandedOut
  <2>2. Batch(b, 1 .. b.minted) /\ DOMAIN b.sp.nodes \cap DOMAIN b.sp.tomb = {}
    BY DEF Whole
  <2>3. Batch(b, 1 .. top)
    BY <2>1, <2>2, BatchGrows
  <2>4. ASSUME NEW k \in 1 .. Len(commands)
        PROVE  Asked(commands[k]) /\ Added(commands[k]) \subseteq new /\ commands[k].op = "create"
    <3> HIDE DEF new
    <3> QED BY <1>4, <1>6, <2>1 DEF Asked, Added
  <2>5. /\ Batch(done, 1 .. top) /\ Leads(b, done, new)
        /\ DOMAIN done.sp.tomb = DOMAIN b.sp.tomb
    <3> HIDE DEF new, top
    <3> QED BY <1>2, <1>6, <2>1, <2>3, <2>4, ApplyAllKeeps DEF done
  <2>6. new \cap DOMAIN b.sp.tomb = {}
    BY <1>2, <2>2 DEF Batch, Known
  <2>7. DOMAIN done.sp.nodes \cap DOMAIN done.sp.tomb = {}
    <3> HIDE DEF new, top
    <3> QED BY <2>2, <2>5, <2>6 DEF Leads
  <2>8. QED  BY <1>2, <1>8, <2>5, <2>7 DEF Batch, Shaped
<1>10. top \in Nat /\ b.minted <= top
  BY <1>2
<1> HIDE DEF top
<1>11. QED  BY <1>2, <1>8, <1>9, <1>10 DEF Whole, a

---------------------------------------------------------------------------
(* The state of the library *)

\* A space that knows only ids handed out, none of them both live and deleted.
SpaceHeld(sp, ids) ==
    Sound(sp) /\ DOMAIN sp.nodes \cap DOMAIN sp.tomb = {} /\ Known(sp) \subseteq ids

\* A change set: what it undoes and what can be restored from it.  No batch both moves
\* and creates.
SetHeld(cs, ids) ==
    /\ DOMAIN cs = {"space", "epoch", "last", "undo", "undoneBy", "inverseOf", "before"}
    /\ cs.space \in Spaces
    /\ cs.undo # None => cs.undo \in Undos(ids) /\ (cs.undo.moves = <<>> \/ cs.undo.creates = <<>>)
    /\ Restorable(cs.before.slots, cs.before.nodes)
    /\ DOMAIN cs.before.nodes \subseteq ids

SpacesHeld ==
    /\ DOMAIN spaces = Spaces
    /\ minted \in Nat /\ minted <= Cardinality(NodeIds)
    /\ \A s \in Spaces : SpaceHeld(spaces[s], 1 .. minted)

SetsHeld ==
    /\ \E S : sets \in Seq(S)
    /\ \A i \in DOMAIN sets : SetHeld(sets[i], 1 .. minted)

PendingHeld == pending # 0 => pending \in DOMAIN sets /\ sets[pending].undo # None

\* What a request has read of a tree.
TreeRead(read) ==
    /\ {"space", "items"} \subseteq DOMAIN read
    /\ read.space \in Spaces /\ read.items \in Seq(ItemRows)

CopiesHeld ==
    /\ plan # None => TreeRead(plan)
    /\ pub # None => /\ {"root", "title"} \subseteq DOMAIN pub /\ TreeRead(pub)
                     /\ pub.root # None => pub.title \in Titles
    /\ applying # None => TreeRead(applying)

FindingHeld ==
    finding # None => /\ finding.space \in Spaces /\ finding.urlRev \in Nat
                      /\ finding.rev \in Nat /\ finding.urlRev <= finding.rev

LibraryInv == SpacesHeld /\ SetsHeld /\ PendingHeld /\ CopiesHeld /\ FindingHeld

LEMMA SetsGrow ==
    ASSUME NEW cs, NEW ids, NEW more, SetHeld(cs, ids), ids \subseteq more
    PROVE  SetHeld(cs, more)
BY UndosGrow DEF SetHeld

\* The first batch of a transaction.
Fresh(b, s) ==
    /\ Whole(b) /\ b.minted = minted /\ b.sp = spaces[s]
    /\ b.undo = NothingCaptured /\ b.undo.moves = <<>> /\ b.undo.creates = <<>>
    /\ minted <= Cardinality(NodeIds)

LEMMA FreshBatch ==
    ASSUME SpacesHeld, NEW s \in Spaces, NEW b,
           DOMAIN b = {"sp", "undo", "minted", "number", "ok"}, b.sp = spaces[s],
           b.undo = NothingCaptured, b.minted = minted, b.number \in 1 .. MaxSets
    PROVE  Fresh(b, s)
<1>1. /\ NothingCaptured \in Undos(1 .. minted)
      /\ NothingCaptured.moves = <<>> /\ NothingCaptured.creates = <<>>
      /\ DOMAIN NothingCaptured = {"updates", "moves", "creates", "deletes"}
  BY DEF NothingCaptured, Undos
<1>2. b.number \in Origins
  BY SetNumbersAreOrigins
<1>3. /\ minted \in Nat /\ minted <= Cardinality(NodeIds) /\ SpaceHeld(spaces[s], 1 .. minted)
      /\ 1 .. minted \subseteq NodeIds
  BY HandedOut DEF SpacesHeld
<1>4. Batch(b, 1 .. minted)
  BY <1>1, <1>2, <1>3 DEF Batch, SpaceHeld
<1>5. Whole(b)
  BY <1>1, <1>3, <1>4 DEF Whole, Shaped, SpaceHeld
<1>6. QED  BY <1>1, <1>3, <1>5 DEF Fresh

LEMMA BegunFresh ==
    ASSUME SpacesHeld, SetsHeld, NEW s \in Spaces, Len(sets) < MaxSets
    PROVE  Fresh(Begun(s), s)
<1>1. Len(sets) \in Nat /\ MaxSets \in Nat
  BY SetNumbersAreOrigins DEF SetsHeld
<1>2. Len(sets) + 1 \in 1 .. MaxSets
  BY <1>1
<1>3. /\ DOMAIN Begun(s) = {"sp", "undo", "minted", "number", "ok"} /\ Begun(s).sp = spaces[s]
      /\ Begun(s).undo = NothingCaptured /\ Begun(s).minted = minted
      /\ Begun(s).number = Len(sets) + 1
  BY DEF Begun
<1>4. QED  BY <1>2, <1>3, FreshBatch

\* A batch that is committed leaves the spaces sound.
LEMMA SpacesCommitted ==
    ASSUME SpacesHeld, NEW s \in Spaces, NEW b, Whole(b), minted <= b.minted, Commits(s, b),
           spaces' = [spaces EXCEPT ![s] = b.sp]
    PROVE  SpacesHeld' /\ 1 .. minted \subseteq 1 .. minted'
<1>1. b.minted <= Cardinality(NodeIds) /\ minted' = b.minted /\ b.minted \in Nat /\ minted \in Nat
  BY DEF Commits, Whole, SpacesHeld
<1>2. 1 .. minted \subseteq 1 .. minted'
  BY <1>1
<1>3. SpaceHeld(b.sp, 1 .. minted')
  BY <1>1 DEF Whole, Batch, SpaceHeld
<1>4. \A t \in Spaces : SpaceHeld(spaces[t], 1 .. minted')
  BY <1>2 DEF SpacesHeld, SpaceHeld
<1>5. DOMAIN spaces' = Spaces /\ \A t \in Spaces : SpaceHeld(spaces'[t], 1 .. minted')
  BY <1>3, <1>4 DEF SpacesHeld
<1>6. QED  BY <1>1, <1>2, <1>5 DEF SpacesHeld

\* The row it writes holds what undo and restore read.
LEMMA SetWritten ==
    ASSUME SpacesHeld, NEW s \in Spaces, NEW b, Whole(b), minted <= b.minted,
           b.minted <= Cardinality(NodeIds), NEW undo, NEW inverseOf,
           undo # None => undo = b.undo /\ (undo.moves = <<>> \/ undo.creates = <<>>)
    PROVE  SetHeld(ChangeSet(s, b, undo, inverseOf), 1 .. b.minted)
<1> DEFINE cs == ChangeSet(s, b, undo, inverseOf)
<1>1. /\ DOMAIN cs = {"space", "epoch", "last", "undo", "undoneBy", "inverseOf", "before"}
      /\ cs.space = s /\ cs.undo = undo /\ cs.before = Image(spaces[s])
  BY DEF ChangeSet
<1> HIDE DEF cs
<1>2. undo # None => undo \in Undos(1 .. b.minted)
  BY DEF Whole, Batch
<1>3. Sound(spaces[s]) /\ DOMAIN spaces[s].nodes \subseteq 1 .. minted /\ minted \in Nat
      /\ b.minted \in Nat
  BY DEF SpacesHeld, SpaceHeld, Known, Whole
<1>4. Restorable(cs.before.slots, cs.before.nodes)
  BY <1>1, <1>3, ImageRestorable
<1>5. DOMAIN cs.before.nodes = DOMAIN spaces[s].nodes
  BY <1>1 DEF Image
<1>6. DOMAIN cs.before.nodes \subseteq 1 .. b.minted
  BY <1>3, <1>5
<1>7. QED  BY <1>1, <1>2, <1>4, <1>6 DEF SetHeld, cs

LongerBy(list, longer, x) ==
    /\ \E S : longer \in Seq(S)
    /\ DOMAIN longer = DOMAIN list \cup {Len(list) + 1}
    /\ longer[Len(list) + 1] = x
    /\ \A i \in DOMAIN list : longer[i] = list[i]
    /\ longer # list

LEMMA Appended ==
    ASSUME NEW list, \E S : list \in Seq(S), NEW x
    PROVE  LongerBy(list, Append(list, x), x)
<1>1. PICK S : list \in Seq(S)
  OBVIOUS
<1> DEFINE T == S \cup {x}
<1>2. list \in Seq(T)
  BY <1>1
<1>3. Append(list, x) \in Seq(T)
  BY <1>2
<1>4. /\ Len(list) \in Nat /\ DOMAIN list = 1 .. Len(list)
      /\ Len(Append(list, x)) = Len(list) + 1 /\ DOMAIN Append(list, x) = 1 .. Len(list) + 1
      /\ Append(list, x)[Len(list) + 1] = x
      /\ \A i \in 1 .. Len(list) : Append(list, x)[i] = list[i]
  <2> HIDE DEF T
  <2>1. x \in T
    BY DEF T
  <2>2. QED  BY <1>2, <2>1
<1> DEFINE size == Len(list)
<1>5. DOMAIN Append(list, x) = DOMAIN list \cup {Len(list) + 1} /\ Append(list, x) # list
  <2>1. size \in Nat => 1 .. size + 1 = (1 .. size) \cup {size + 1} /\ size # size + 1
    <3> HIDE DEF size
    <3> QED OBVIOUS
  <2>2. DOMAIN Append(list, x) = DOMAIN list \cup {Len(list) + 1}
    BY <1>4, <2>1
  <2>3. Append(list, x) # list
    BY <1>4, <2>1
  <2>4. QED  BY <2>2, <2>3
<1>6. \E R : Append(list, x) \in Seq(R)
  BY <1>3
<1>7. QED  BY <1>4, <1>5, <1>6 DEF LongerBy

\* One batch, one transaction.
LEMMA RecordKeeps ==
    ASSUME SpacesHeld, SetsHeld, PendingHeld, UNCHANGED pending, NEW s \in Spaces, NEW b,
           Whole(b), minted <= b.minted, b.undo.moves = <<>> \/ b.undo.creates = <<>>,
           Record(s, b)
    PROVE  SpacesHeld' /\ SetsHeld' /\ PendingHeld'
<1> DEFINE cs == ChangeSet(s, b, b.undo, None)
<1>1. Commits(s, b) /\ spaces' = [spaces EXCEPT ![s] = b.sp] /\ sets' = Append(sets, cs)
  BY DEF Record
<1>2. SpacesHeld' /\ 1 .. minted \subseteq 1 .. minted'
  BY <1>1, SpacesCommitted
<1>3. SetHeld(cs, 1 .. minted')
  <2>1. minted' = b.minted /\ b.minted <= Cardinality(NodeIds)
    BY <1>1 DEF Commits
  <2>2. QED  BY <2>1, SetWritten
<1> HIDE DEF cs
<1>4. LongerBy(sets, sets', cs)
  BY <1>1, Appended DEF SetsHeld
<1>5. \A i \in DOMAIN sets : SetHeld(sets'[i], 1 .. minted')
  <2>1. \A i \in DOMAIN sets : SetHeld(sets[i], 1 .. minted)
    BY DEF SetsHeld
  <2>2. \A i \in DOMAIN sets : SetHeld(sets[i], 1 .. minted')
    BY <1>2, <2>1, SetsGrow
  <2>3. QED  BY <1>4, <2>2 DEF LongerBy
<1>6. SetsHeld'
  BY <1>3, <1>4, <1>5 DEF SetsHeld, LongerBy
<1>7. PendingHeld'
  BY <1>4 DEF PendingHeld, LongerBy
<1>8. QED  BY <1>2, <1>6, <1>7

\* An undo marks the change set it undoes and writes its own.
LEMMA UndoKeeps ==
    ASSUME SpacesHeld, SetsHeld, NEW i \in DOMAIN sets, sets[i].undo # None, ExecuteUndo(i)
    PROVE  /\ SpacesHeld' /\ SetsHeld' /\ DOMAIN sets \subseteq DOMAIN sets'
           /\ \A j \in DOMAIN sets : sets'[j].undo = sets[j].undo
<1> DEFINE s == sets[i].space
           b == Inverted(Begun(s), sets[i].undo)
           marked == [sets EXCEPT ![i].undoneBy = b.number]
           cs == ChangeSet(s, b, None, i)
<1>1. Commits(s, b) /\ spaces' = [spaces EXCEPT ![s] = b.sp] /\ sets' = Append(marked, cs)
  BY DEF ExecuteUndo
<1>2. SetHeld(sets[i], 1 .. minted) /\ s \in Spaces /\ sets[i].undo \in Undos(1 .. minted)
  BY DEF SetsHeld, SetHeld
<1>3. Fresh(Begun(s), s)
  BY <1>1, <1>2, BegunFresh DEF Commits
<1>4. Whole(b) /\ b.minted = minted /\ b.minted <= Cardinality(NodeIds)
  BY <1>2, <1>3, InvertedWhole DEF Fresh
<1> HIDE DEF b
<1>5. minted' = minted /\ minted \in Nat /\ minted <= b.minted
  BY <1>1, <1>4 DEF Commits, SpacesHeld
<1>6. SpacesHeld'
  BY <1>1, <1>2, <1>4, <1>5, SpacesCommitted
<1>7. SetHeld(cs, 1 .. minted)
  BY <1>2, <1>4, <1>5, SetWritten
<1> HIDE DEF cs, s
<1>8. /\ DOMAIN marked = DOMAIN sets /\ \E S : marked \in Seq(S)
      /\ \A j \in DOMAIN sets : SetHeld(marked[j], 1 .. minted) /\ marked[j].undo = sets[j].undo
  <2>1. DOMAIN marked = DOMAIN sets
    OBVIOUS
  <2>2. ASSUME NEW j \in DOMAIN sets
        PROVE  SetHeld(marked[j], 1 .. minted) /\ marked[j].undo = sets[j].undo
    <3>1. SetHeld(sets[j], 1 .. minted)
      BY DEF SetsHeld
    <3>2. CASE j = i
      <4> DEFINE m == marked[j]
      <4>1. m = [sets[j] EXCEPT !.undoneBy = b.number]
        BY <3>2
      <4> HIDE DEF m
      <4>2. /\ DOMAIN m = DOMAIN sets[j] /\ m.space = sets[j].space /\ m.undo = sets[j].undo
            /\ m.before = sets[j].before
        BY <3>1, <4>1 DEF SetHeld
      <4>3. SetHeld(m, 1 .. minted)
        BY <3>1, <4>2 DEF SetHeld
      <4>4. QED  BY <4>2, <4>3 DEF m
    <3>3. CASE j # i
      BY <3>1, <3>3
    <3>4. QED  BY <3>2, <3>3
  <2>3. \E S : marked \in Seq(S)
    <3>1. PICK S : sets \in Seq(S)
      BY DEF SetsHeld
    <3> DEFINE T == {marked[j] : j \in DOMAIN sets}
    <3>2. DOMAIN marked = 1 .. Len(sets) /\ marked = [j \in DOMAIN marked |-> marked[j]]
          /\ Len(sets) \in Nat
      BY <3>1
    <3>3. \A j \in 1 .. Len(sets) : marked[j] \in T
      BY <3>2
    <3> HIDE DEF marked, T
    <3>4. marked \in Seq(T)
      BY <3>2, <3>3, ListOf
    <3>5. QED  BY <3>4
  <2>4. QED  BY <2>1, <2>2, <2>3
<1> HIDE DEF marked
<1>9. LongerBy(marked, sets', cs)
  BY <1>1, <1>8, Appended
<1>10. SetsHeld'
  BY <1>5, <1>7, <1>8, <1>9 DEF SetsHeld, LongerBy
<1>11. QED  BY <1>6, <1>8, <1>9, <1>10 DEF LongerBy

\* What a transaction may commit.
Committable(b) ==
    Whole(b) /\ minted <= b.minted /\ (b.undo.moves = <<>> \/ b.undo.creates = <<>>)

LEMMA AppliedCommittable ==
    ASSUME SpacesHeld, NEW s, NEW b, Fresh(b, s), NEW c, Asked(c), c.op # "create"
    PROVE  Committable(Apply(b, c)) /\ (c.op # "move" => Apply(b, c).undo.moves = <<>>)
<1> DEFINE a == Apply(b, c)
<1>1. Whole(a) /\ Follows(b, a, c.op = "move")
  BY ApplyWhole DEF Fresh
<1>2. minted \in Nat /\ a.minted = minted
  BY <1>1 DEF Follows, Fresh, SpacesHeld
<1>3. CASE c.op # "move"
  BY <1>1, <1>2, <1>3 DEF Committable, Follows, Fresh
<1>4. CASE c.op = "move"
  <2>1. Captured(b.undo, b.sp.nodes, c).creates = <<>>
    BY <1>4 DEF Captured, Fresh, NothingCaptured
  <2>2. DOMAIN b = {"sp", "undo", "minted", "number", "ok"} /\ b.undo.creates = <<>>
    BY DEF Fresh, Whole, Shaped
  <2>3. a.undo \in {b.undo, Captured(b.undo, b.sp.nodes, c)}
    BY <2>2 DEF Apply
  <2>4. a.undo.creates = <<>>
    BY <2>1, <2>2, <2>3
  <2>5. QED  BY <1>1, <1>2, <1>4, <2>4 DEF Committable
<1>5. QED  BY <1>3, <1>4

LEMMA RecordedKeeps ==
    ASSUME SpacesHeld, SetsHeld, PendingHeld, UNCHANGED pending, NEW s \in Spaces, NEW b,
           Committable(b), Record(s, b)
    PROVE  SpacesHeld' /\ SetsHeld' /\ PendingHeld'
BY RecordKeeps DEF Committable

LEMMA Recorders ==
    ASSUME SpacesHeld, SetsHeld, NEW s \in Spaces, NEW b, Record(s, b)
    PROVE  Fresh(Begun(s), s)
BY BegunFresh DEF Record, Commits

\* One node operation, or two.
LEMMA EditKeeps ==
    ASSUME SpacesHeld, SetsHeld, PendingHeld, NEW s \in Spaces, Edit(s)
    PROVE  SpacesHeld' /\ SetsHeld' /\ PendingHeld'
<1>1. UNCHANGED pending
  BY DEF Edit
<1> DEFINE one(c) == Record(s, Apply(Begun(s), c))
           made(row, p, before) == CreateNext(Begun(s), row, p, before)
           two(n, title, url) ==
               ApplyAll(Begun(s), <<[op |-> "update_title", node |-> n, title |-> title],
                                    [op |-> "update_url", node |-> n, url |-> url]>>)
<1>2. ASSUME NEW c, Asked(c), c.op # "create", one(c)
      PROVE  SpacesHeld' /\ SetsHeld' /\ PendingHeld'
  <2>1. Fresh(Begun(s), s)
    BY <1>2, Recorders
  <2>2. Committable(Apply(Begun(s), c))
    BY <1>2, <2>1, AppliedCommittable
  <2>3. QED  BY <1>1, <1>2, <2>2, RecordedKeeps
<1>3. ASSUME NEW row, NEW p, NEW before, row.type \in NodeType, row.title \in Titles,
             row.url \in Urls \cup {None}, Record(s, made(row, p, before))
      PROVE  SpacesHeld' /\ SetsHeld' /\ PendingHeld'
  <2>1. Fresh(Begun(s), s)
    BY <1>3, Recorders
  <2>2. /\ Whole(made(row, p, before)) /\ made(row, p, before).minted = Begun(s).minted + 1
        /\ made(row, p, before).undo.moves = Begun(s).undo.moves
    BY <1>3, <2>1, CreateNextWhole DEF Fresh
  <2> HIDE DEF made
  <2>3. Committable(made(row, p, before))
    BY <2>1, <2>2 DEF Committable, Fresh, SpacesHeld
  <2>4. QED  BY <1>1, <1>3, <2>3, RecordedKeeps
<1>4. ASSUME NEW n, NEW title \in Titles, NEW url \in Urls, Record(s, two(n, title, url))
      PROVE  SpacesHeld' /\ SetsHeld' /\ PendingHeld'
  <2> DEFINE commands == <<[op |-> "update_title", node |-> n, title |-> title],
                           [op |-> "update_url", node |-> n, url |-> url]>>
             b == ApplyAll(Begun(s), commands)
  <2>1. Fresh(Begun(s), s)
    BY <1>4, Recorders
  <2>2. /\ Len(commands) = 2
        /\ \A k \in 1 .. 2 : /\ Asked(commands[k]) /\ commands[k].op \in Operations
                             /\ commands[k].op \notin {"create", "move"}
    BY DEF Asked, Operations
  <2>3. Record(s, b)
    BY <1>4
  <2> HIDE DEF commands
  <2>4. Whole(b) /\ Follows(Begun(s), b, FALSE)
    <3>1. Len(commands) \in Nat /\ 1 .. Len(commands) = 1 .. 2
      BY <2>2
    <3>2. Whole(b)
      BY <2>1, <2>2, <3>1, ApplyAllWhole DEF Fresh
    <3>3. Follows(Begun(s), b, FALSE)
      BY <2>1, <2>2, <3>1, ApplyAllShape DEF Fresh, Whole
    <3>4. QED  BY <3>2, <3>3
  <2> HIDE DEF b
  <2>5. Committable(b)
    BY <2>1, <2>4 DEF Committable, Fresh, Follows, SpacesHeld
  <2>6. QED  BY <1>1, <2>3, <2>5, RecordedKeeps
<1> HIDE DEF one, made, two
<1>5. CASE \E type \in {"folder", "bookmark"}, title \in Titles, p \in Places(s) :
               \E url \in IF type = "folder" THEN {None} ELSE Urls, before \in Anchors(s, p) :
                   Record(s, made([type |-> type, title |-> title, url |-> url], p, before))
  <2>1. PICK type \in {"folder", "bookmark"}, title \in Titles, p \in Places(s),
             url \in Urls \cup {None} :
                 \E before : Record(s, made([type |-> type, title |-> title, url |-> url], p, before))
    BY <1>5
  <2> DEFINE row == [type |-> type, title |-> title, url |-> url]
  <2>2. row.type \in NodeType /\ row.title \in Titles /\ row.url \in Urls \cup {None}
    BY DEF NodeType
  <2> HIDE DEF row
  <2>3. PICK before : Record(s, made(row, p, before))
    BY <2>1 DEF row
  <2>4. QED  BY <1>3, <2>2, <2>3
<1>6. CASE \E n \in DOMAIN spaces[s].nodes, title \in Titles :
               one([op |-> "update_title", node |-> n, title |-> title])
  <2>1. PICK n \in DOMAIN spaces[s].nodes, title \in Titles : one([op |-> "update_title", node |-> n, title |-> title])
    BY <1>6
  <2>2. Asked([op |-> "update_title", node |-> n, title |-> title])
    BY DEF Asked
  <2>3. QED  BY <1>2, <2>1, <2>2
<1>7. CASE \E n \in DOMAIN spaces[s].nodes, title \in Titles, url \in Urls :
               Record(s, two(n, title, url))
  BY <1>4, <1>7
<1>8. CASE \E n \in DOMAIN spaces[s].nodes, p \in Places(s) : \E before \in Anchors(s, p) :
               one([op |-> "move", node |-> n, parent |-> p, before |-> before])
  <2>1. PICK n \in DOMAIN spaces[s].nodes, p \in Places(s) :
            \E before : one([op |-> "move", node |-> n, parent |-> p, before |-> before])
    BY <1>8
  <2>2. \A before : Asked([op |-> "move", node |-> n, parent |-> p, before |-> before])
    BY DEF Asked
  <2>3. QED  BY <1>2, <2>1, <2>2
<1>9. CASE \E n \in DOMAIN spaces[s].nodes : one([op |-> "delete", node |-> n])
  <2>1. PICK n : one([op |-> "delete", node |-> n])
    BY <1>9
  <2>2. Asked([op |-> "delete", node |-> n])
    BY DEF Asked
  <2>3. QED  BY <1>2, <2>1, <2>2
<1>10. QED  BY <1>5, <1>6, <1>7, <1>8, <1>9 DEF Edit, one, made, two

\* A backup is restored.
LEMMA RestoreKeeps ==
    ASSUME SpacesHeld, SetsHeld, PendingHeld, NEW s \in Spaces, Restore(s)
    PROVE  SpacesHeld' /\ SetsHeld' /\ PendingHeld'
<1>1. PICK i \in DOMAIN sets :
          spaces' = [spaces EXCEPT ![s] = Baseline(@.epoch + 1, sets[i].before.slots,
                                                   sets[i].before.nodes)]
  BY DEF Restore
<1>2. UNCHANGED <<minted, sets, pending>>
  BY DEF Restore
<1> DEFINE image == sets[i].before
           sp == Baseline(spaces[s].epoch + 1, image.slots, image.nodes)
<1>3. Restorable(image.slots, image.nodes) /\ DOMAIN image.nodes \subseteq 1 .. minted
  BY DEF SetsHeld, SetHeld
<1>4. spaces[s].epoch + 1 \in Nat
  BY DEF SpacesHeld, SpaceHeld, Sound, LiveSpace, TypedSpace, IsSpace
<1>5. spaces' = [spaces EXCEPT ![s] = sp]
  BY <1>1
<1>6. Sound(sp) /\ sp.tomb = [n \in {} |-> n] /\ DOMAIN sp.nodes = DOMAIN image.nodes
  BY <1>3, <1>4, RestoredSound
<1> HIDE DEF sp
<1>7. SpaceHeld(sp, 1 .. minted)
  BY <1>3, <1>6 DEF SpaceHeld, Known
<1>8. SpacesHeld'
  BY <1>2, <1>5, <1>7 DEF SpacesHeld
<1>9. SetsHeld' /\ PendingHeld'
  BY <1>2 DEF SetsHeld, PendingHeld
<1>10. QED  BY <1>8, <1>9

LEMMA SpaceHolds ==
    ASSUME SpacesHeld, NEW s \in Spaces
    PROVE  /\ Sound(spaces[s]) /\ TypedSpace(spaces[s]) /\ DenseSiblings(spaces[s])
           /\ spaces[s].rev \in Nat
BY DEF SpacesHeld, SpaceHeld, Sound, LiveSpace, LiveRows, TypedSpace, IsSpace

\* What a preview, a publication or an apply has read of a tree.
LEMMA PlansHeld ==
    ASSUME LibraryInv, \/ \E s, from \in Spaces : Preview(s, from)
                       \/ \E target, strategy : CheckPlan(target, strategy)
                       \/ DropPlan
    PROVE  LibraryInv'
<1>1. UNCHANGED <<setVars, pub, applying, finding>>
  BY DEF Preview, CheckPlan, DropPlan
<1>2. plan' # None => TreeRead(plan')
  <2>1. ASSUME NEW s \in Spaces, NEW from \in Spaces, Preview(s, from) PROVE TreeRead(plan')
    <3> DEFINE items == Items(spaces[from].nodes, Tops(spaces[from]))
    <3>1. items \in Seq(ItemRows)
      BY SpaceHolds, TopsListed, ItemsTyped DEF LibraryInv
    <3>2. plan' = [space |-> s, rev |-> spaces[s].rev, seenAt |-> Now(s), strategy |-> None,
                   target |-> None, items |-> items]
      BY <2>1 DEF Preview
    <3> HIDE DEF items
    <3>3. {"space", "items"} \subseteq DOMAIN plan' /\ plan'.space = s /\ plan'.items = items
      BY <3>2
    <3>4. QED  BY <3>1, <3>3 DEF TreeRead
  <2>2. ASSUME NEW target, NEW strategy, CheckPlan(target, strategy) PROVE TreeRead(plan')
    <3>1. TreeRead(plan) /\ plan' = [plan EXCEPT !.target = target, !.strategy = strategy]
      BY <2>2 DEF CheckPlan, LibraryInv, CopiesHeld
    <3>2. DOMAIN plan' = DOMAIN plan /\ plan'.space = plan.space /\ plan'.items = plan.items
      BY <3>1 DEF TreeRead
    <3>3. QED  BY <3>1, <3>2 DEF TreeRead
  <2>3. CASE DropPlan
    BY <2>3 DEF DropPlan
  <2>4. QED  BY <2>1, <2>2, <2>3
<1>3. SpacesHeld' /\ SetsHeld' /\ PendingHeld' /\ FindingHeld'
  BY <1>1 DEF LibraryInv, setVars, SpacesHeld, SetsHeld, PendingHeld, FindingHeld
<1>4. CopiesHeld'
  BY <1>1, <1>2 DEF LibraryInv, CopiesHeld
<1>5. QED  BY <1>3, <1>4 DEF LibraryInv

LEMMA PublicationsHeld ==
    ASSUME LibraryInv,
           \/ \E s \in Spaces : Publish(s, None, None)
           \/ \E s \in Spaces, root \in NodeIds, title \in Titles : Publish(s, root, title)
           \/ Republish
           \/ \E title \in Titles : Retitle(title)
           \/ Unpublish
    PROVE  LibraryInv'
<1>1. UNCHANGED <<setVars, plan, applying, finding>>
  BY DEF Publish, Republish, Retitle, Unpublish
<1> DEFINE Held == pub' # None => /\ {"root", "title"} \subseteq DOMAIN pub' /\ TreeRead(pub')
                                  /\ pub'.root # None => pub'.title \in Titles
<1>2. ASSUME NEW s \in Spaces, NEW root, NEW title, root # None => title \in Titles,
             Publish(s, root, title)
      PROVE  Held
  <2> DEFINE items == SourceItems(s, root, title)
  <2>1. root # None => root \in DOMAIN spaces[s].nodes /\ title \in Titles
    BY <1>2 DEF Publish
  <2>2. items \in Seq(ItemRows)
    BY <2>1, SpaceHolds, SourceTyped DEF LibraryInv
  <2>3. pub' = [space |-> s, root |-> root, title |-> title, version |-> 1, items |-> items]
    BY <1>2 DEF Publish
  <2> HIDE DEF items
  <2>4. /\ {"space", "items", "root", "title"} \subseteq DOMAIN pub' /\ pub'.space = s
        /\ pub'.items = items /\ pub'.root = root /\ pub'.title = title
    BY <2>3
  <2>5. QED  BY <1>2, <2>2, <2>4 DEF TreeRead
<1>3. ASSUME Republish PROVE Held
  <2> DEFINE items == SourceItems(pub.space, pub.root, pub.title)
  <2>1. /\ TreeRead(pub) /\ {"root", "title"} \subseteq DOMAIN pub
        /\ pub.root # None => pub.title \in Titles /\ pub.root \in DOMAIN spaces[pub.space].nodes
    BY <1>3 DEF Republish, LibraryInv, CopiesHeld
  <2>2. items \in Seq(ItemRows)
    BY <2>1, SpaceHolds, SourceTyped DEF LibraryInv, TreeRead
  <2>3. pub' = [pub EXCEPT !.version = @ + 1, !.items = items]
    BY <1>3 DEF Republish
  <2> HIDE DEF items
  <2>4. /\ DOMAIN pub' = DOMAIN pub /\ pub'.space = pub.space /\ pub'.items = items
        /\ pub'.root = pub.root /\ pub'.title = pub.title
    BY <2>1, <2>3 DEF TreeRead
  <2>5. QED  BY <2>1, <2>2, <2>4 DEF TreeRead
<1>r. ASSUME NEW title \in Titles, Retitle(title) PROVE Held
  <2>1. TreeRead(pub) /\ {"root", "title"} \subseteq DOMAIN pub
    BY <1>r DEF Retitle, LibraryInv, CopiesHeld
  <2>2. pub' = [pub EXCEPT !.title = title]
    BY <1>r DEF Retitle
  <2>3. /\ DOMAIN pub' = DOMAIN pub /\ pub'.space = pub.space /\ pub'.items = pub.items
        /\ pub'.root = pub.root /\ pub'.title = title
    BY <2>1, <2>2 DEF TreeRead
  <2>4. QED  BY <2>1, <2>3 DEF TreeRead
<1>4. ASSUME Unpublish PROVE Held
  BY <1>4 DEF Unpublish
<1>5. Held
  <2> HIDE DEF Held
  <2>1. \A title \in Titles : title # None
    BY ConstantsDisjoint
  <2>2. QED  BY <1>2, <1>3, <1>r, <1>4
<1>6. SpacesHeld' /\ SetsHeld' /\ PendingHeld' /\ FindingHeld'
  BY <1>1 DEF LibraryInv, setVars, SpacesHeld, SetsHeld, PendingHeld, FindingHeld
<1>7. CopiesHeld'
  BY <1>1, <1>5 DEF LibraryInv, CopiesHeld
<1>8. QED  BY <1>6, <1>7 DEF LibraryInv

\* What stays when the spaces are written.
LEMMA WrittenBeside ==
    ASSUME LibraryInv, SpacesHeld', SetsHeld', PendingHeld',
           plan' # None => TreeRead(plan'), UNCHANGED pub,
           applying' # None => TreeRead(applying'), finding' \in {finding, None}
    PROVE  LibraryInv'
<1>1. CopiesHeld'
  BY DEF LibraryInv, CopiesHeld
<1>2. FindingHeld'
  BY DEF LibraryInv, FindingHeld
<1>3. QED  BY <1>1, <1>2 DEF LibraryInv

LEMMA ImportKeeps ==
    ASSUME LibraryInv, ApplyPlan
    PROVE  LibraryInv'
<1> DEFINE s == plan.space
           b == Merged.b
<1>1. TreeRead(plan) /\ s \in Spaces /\ plan.items \in Seq(ItemRows)
  BY DEF ApplyPlan, LibraryInv, CopiesHeld, TreeRead
<1>2. Record(s, b) /\ plan' = None /\ UNCHANGED <<pending, pub, applying, finding>>
  BY DEF ApplyPlan
<1>3. SpacesHeld /\ SetsHeld /\ PendingHeld
  BY DEF LibraryInv
<1> HIDE DEF s
<1>4. Fresh(Begun(s), s)
  BY <1>1, <1>2, <1>3, Recorders
<1>5. Whole(b) /\ minted <= b.minted /\ b.undo.moves = <<>>
  BY <1>1, <1>4, MergeWhole DEF Merged, Fresh, s
<1> HIDE DEF b
<1>6. Committable(b)
  BY <1>5 DEF Committable
<1>7. SpacesHeld' /\ SetsHeld' /\ PendingHeld'
  BY <1>1, <1>2, <1>3, <1>6, RecordedKeeps
<1>8. applying' # None => TreeRead(applying')
  BY <1>2 DEF LibraryInv, CopiesHeld
<1>9. QED  BY <1>2, <1>7, <1>8, WrittenBeside

LEMMA ApplicationKeeps ==
    ASSUME LibraryInv, \/ \E s \in Spaces : \E target, strategy :
                              ReadPublication(s, target, strategy)
                       \/ CommitApplication
                       \/ SaveImport
                       \/ AbandonApplication
    PROVE  LibraryInv'
<1>1. UNCHANGED <<pending, plan, pub, finding>>
  BY DEF ReadPublication, CommitApplication, SaveImport, AbandonApplication, setVars
<1>2. SpacesHeld /\ SetsHeld /\ PendingHeld
  BY DEF LibraryInv
<1>3. plan' # None => TreeRead(plan')
  BY <1>1 DEF LibraryInv, CopiesHeld
<1>4. UNCHANGED setVars => SpacesHeld' /\ SetsHeld' /\ PendingHeld'
  BY <1>2 DEF setVars, SpacesHeld, SetsHeld, PendingHeld
<1>5. ASSUME NEW s \in Spaces, NEW target, NEW strategy, ReadPublication(s, target, strategy)
      PROVE  LibraryInv'
  <2>1. TreeRead(pub) /\ UNCHANGED setVars
    BY <1>5 DEF ReadPublication, LibraryInv, CopiesHeld
  <2>2. /\ {"space", "items"} \subseteq DOMAIN applying'
        /\ applying'.space = s /\ applying'.items = pub.items
    BY <1>5 DEF ReadPublication
  <2>3. TreeRead(applying')
    BY <2>1, <2>2 DEF TreeRead
  <2>4. QED  BY <1>1, <1>3, <1>4, <2>1, <2>3, WrittenBeside
<1>6. CASE CommitApplication
  <2> DEFINE s == applying.space
             b == Application.b
  <2>1. TreeRead(applying) /\ s \in Spaces /\ applying.items \in Seq(ItemRows)
    BY <1>6 DEF CommitApplication, LibraryInv, CopiesHeld, TreeRead
  <2>2. TreeRead(applying')
    <3> DEFINE map == Placed(applying.items, Application.at)
    <3>1. applying' = [applying EXCEPT !.phase = "save", !.map = map]
      BY <1>6 DEF CommitApplication
    <3> HIDE DEF map
    <3>2. /\ DOMAIN applying' = DOMAIN applying /\ applying'.space = applying.space
          /\ applying'.items = applying.items
      BY <2>1, <3>1 DEF TreeRead
    <3>3. QED  BY <2>1, <3>2 DEF TreeRead
  <2>3. Record(s, b) \/ UNCHANGED <<spaces, minted, sets>>
    BY <1>6 DEF CommitApplication
  <2> HIDE DEF s
  <2>4. CASE Record(s, b)
    <3>1. Fresh(Begun(s), s)
      BY <1>2, <2>1, <2>4, Recorders
    <3>2. Whole(b) /\ minted <= b.minted /\ b.undo.moves = <<>>
      BY <2>1, <3>1, PlaceWhole DEF Application, Fresh, s
    <3> HIDE DEF b
    <3>3. Committable(b)
      BY <3>2 DEF Committable
    <3>4. SpacesHeld' /\ SetsHeld' /\ PendingHeld'
      BY <1>1, <1>2, <2>1, <2>4, <3>3, RecordedKeeps
    <3>5. QED  BY <1>1, <1>3, <2>2, <3>4, WrittenBeside
  <2>5. CASE UNCHANGED <<spaces, minted, sets>>
    <3>1. UNCHANGED setVars
      BY <1>1, <2>5 DEF setVars
    <3>2. QED  BY <1>1, <1>3, <1>4, <2>2, <3>1, WrittenBeside
  <2>6. QED  BY <2>3, <2>4, <2>5
<1>7. CASE SaveImport \/ AbandonApplication
  <2>1. UNCHANGED setVars /\ applying' = None
    BY <1>7 DEF SaveImport, AbandonApplication
  <2>2. QED  BY <1>1, <1>3, <1>4, <2>1, WrittenBeside
<1>8. QED  BY <1>5, <1>6, <1>7

LEMMA CheckingKeeps ==
    ASSUME LibraryInv, \/ \E s \in Spaces, n \in NodeIds : CheckLink(s, n)
                       \/ DeleteBookmarkIfUnchanged
                       \/ DropFinding
    PROVE  LibraryInv'
<1>1. UNCHANGED <<pending, plan, pub, applying>>
  BY DEF CheckLink, DeleteBookmarkIfUnchanged, DropFinding, setVars
<1>2. SpacesHeld /\ SetsHeld /\ PendingHeld
  BY DEF LibraryInv
<1>3. CopiesHeld'
  BY <1>1 DEF LibraryInv, CopiesHeld
<1>4. UNCHANGED setVars => SpacesHeld' /\ SetsHeld' /\ PendingHeld'
  BY <1>2 DEF setVars, SpacesHeld, SetsHeld, PendingHeld
<1>5. ASSUME NEW s \in Spaces, NEW n \in NodeIds, CheckLink(s, n)
      PROVE  LibraryInv'
  <2> DEFINE sp == spaces[s]
  <2>1. UNCHANGED setVars /\ n \in DOMAIN sp.nodes
        /\ finding'.space = s /\ finding'.urlRev = sp.nodes[n].urlRev /\ finding'.rev = sp.rev
    BY <1>5 DEF CheckLink
  <2>2. /\ sp.rev \in Nat /\ sp.nodes[n].urlRev \in Nat /\ sp.floor = 0
        /\ DOMAIN sp.journal = sp.floor + 1 .. sp.rev /\ FieldJournaled(sp, "url", "urlRev")
    <3>1. Sound(sp)
      BY <1>2, SpaceHolds
    <3> HIDE DEF sp
    <3>2. QED  BY <2>1, <3>1 DEF Sound, LiveSpace, LiveRows, JournalSpans, FieldsAgree,
                                 TypedSpace, IsSpace, Nodes
  <2> HIDE DEF sp
  <2>3. sp.nodes[n].urlRev <= sp.rev
    <3>1. sp.nodes[n].urlRev > 0 => sp.nodes[n].urlRev \in DOMAIN sp.journal
      BY <2>1, <2>2 DEF FieldJournaled
    <3>2. QED  BY <2>2, <3>1
  <2>4. FindingHeld'
    BY <2>1, <2>2, <2>3 DEF FindingHeld
  <2>5. QED  BY <1>3, <1>4, <2>1, <2>4 DEF LibraryInv
<1>6. CASE DeleteBookmarkIfUnchanged
  <2> DEFINE s == finding.space
             c == [op |-> "delete", node |-> finding.node]
  <2>1. s \in Spaces /\ Record(s, Apply(Begun(s), c)) /\ finding' = None
    BY <1>6 DEF DeleteBookmarkIfUnchanged, LibraryInv, FindingHeld
  <2>2. Asked(c) /\ c.op # "create"
    BY DEF Asked
  <2> HIDE DEF s, c
  <2>3. Fresh(Begun(s), s)
    BY <1>2, <2>1, Recorders
  <2>4. Committable(Apply(Begun(s), c))
    BY <1>2, <2>2, <2>3, AppliedCommittable
  <2>5. SpacesHeld' /\ SetsHeld' /\ PendingHeld'
    BY <1>1, <1>2, <2>1, <2>4, RecordedKeeps
  <2>6. FindingHeld'
    BY <2>1 DEF FindingHeld
  <2>7. QED  BY <1>3, <2>5, <2>6 DEF LibraryInv
<1>7. CASE DropFinding
  <2>1. UNCHANGED setVars /\ finding' = None
    BY <1>7 DEF DropFinding
  <2>2. FindingHeld'
    BY <2>1 DEF FindingHeld
  <2>3. QED  BY <1>3, <1>4, <2>1, <2>2 DEF LibraryInv
<1>8. QED  BY <1>5, <1>6, <1>7

LEMMA TwoAppended ==
    ASSUME NEW list, \E S : list \in Seq(S), NEW x, NEW y
    PROVE  list \o <<x, y>> = Append(Append(list, x), y)
<1>1. PICK S : list \in Seq(S)
  OBVIOUS
<1> DEFINE T == S \cup {x, y}
<1>2. list \in Seq(T) /\ x \in T /\ y \in T
  BY <1>1
<1> HIDE DEF T
<1>3. <<x, y>> \in Seq(T) /\ Len(<<x, y>>) = 2 /\ <<x, y>>[1] = x /\ <<x, y>>[2] = y
  BY <1>2
<1>4. /\ list \o <<x, y>> \in Seq(T) /\ Len(list \o <<x, y>>) = Len(list) + 2
      /\ \A k \in 1 .. Len(list) : (list \o <<x, y>>)[k] = list[k]
      /\ (list \o <<x, y>>)[Len(list) + 1] = x /\ (list \o <<x, y>>)[Len(list) + 2] = y
  BY <1>2, <1>3
<1>5. /\ Append(list, x) \in Seq(T) /\ Len(Append(list, x)) = Len(list) + 1
      /\ \A k \in 1 .. Len(list) : Append(list, x)[k] = list[k]
      /\ Append(list, x)[Len(list) + 1] = x
  BY <1>2
<1> DEFINE longer == Append(list, x)
<1> HIDE DEF longer
<1>6. /\ Append(longer, y) \in Seq(T) /\ Len(Append(longer, y)) = Len(longer) + 1
      /\ \A k \in 1 .. Len(longer) : Append(longer, y)[k] = longer[k]
      /\ Append(longer, y)[Len(longer) + 1] = y
  BY <1>2, <1>5 DEF longer
<1> DEFINE a == list \o <<x, y>>
           c == Append(longer, y)
<1>7. /\ a \in Seq(T) /\ c \in Seq(T) /\ Len(list) \in Nat
      /\ Len(a) = Len(list) + 2 /\ Len(c) = Len(list) + 2
      /\ \A k \in 1 .. Len(list) : a[k] = list[k] /\ c[k] = list[k]
      /\ a[Len(list) + 1] = x /\ c[Len(list) + 1] = x
      /\ a[Len(list) + 2] = y /\ c[Len(list) + 2] = y
  BY <1>2, <1>4, <1>5, <1>6 DEF longer
<1> HIDE DEF a, c
<1>8. a = c
  BY <1>7
<1>9. QED  BY <1>8 DEF a, c, longer

\* Both sides of a transfer and their two change sets.
LEMMA TransferKeeps ==
    ASSUME LibraryInv, NEW x, NEW s \in Spaces, NEW t \in Spaces, NEW n, NEW target, NEW before,
           Transfer(x, s, t, n, target, before)
    PROVE  LibraryInv'
<1> DEFINE nodes == spaces[s].nodes
           in == CopySubtree(Begun(t), nodes, n, target, before)
           from == [Begun(s) EXCEPT !.number = Len(sets) + 2]
           out == Apply(from, [op |-> "delete", node |-> n])
           arrival == ChangeSet(t, in, None, None)
           departure == ChangeSet(s, out, None, None)
<1>1. SpacesHeld /\ SetsHeld /\ PendingHeld
  BY DEF LibraryInv
<1>2. /\ s # t /\ n \in DOMAIN nodes /\ Len(sets) + 2 <= MaxSets
      /\ in.minted <= Cardinality(NodeIds) /\ minted' = in.minted
      /\ spaces' = [spaces EXCEPT ![s] = out.sp, ![t] = in.sp]
      /\ sets' = sets \o <<arrival, departure>>
      /\ UNCHANGED <<pending, plan, pub, applying, finding>>
  BY DEF Transfer, Deleted
<1>3. Len(sets) \in Nat /\ MaxSets \in Nat
  BY <1>1, SetNumbersAreOrigins DEF SetsHeld
<1>4. Len(sets) < MaxSets /\ Len(sets) + 2 \in 1 .. MaxSets
  BY <1>2, <1>3
<1>5. Fresh(Begun(t), t)
  BY <1>1, <1>4, BegunFresh
<1>6. Whole(in) /\ minted <= in.minted /\ in.minted \in Nat
  <2>1. TypedSpace(spaces[s]) /\ DenseSiblings(spaces[s])
    BY <1>1, SpaceHolds
  <2>2. Whole(in) /\ Begun(t).minted <= in.minted
    BY <1>2, <1>5, <2>1, CopyWhole DEF Fresh
  <2> HIDE DEF in
  <2>3. QED  BY <1>5, <2>2 DEF Fresh, Whole
<1>7. Fresh(from, s)
  <2>1. /\ DOMAIN from = {"sp", "undo", "minted", "number", "ok"} /\ from.sp = spaces[s]
        /\ from.undo = NothingCaptured /\ from.minted = minted /\ from.number = Len(sets) + 2
    BY DEF Begun
  <2> HIDE DEF from
  <2>2. QED  BY <1>1, <1>4, <2>1, FreshBatch
<1>8. Whole(out) /\ out.minted = minted /\ minted \in Nat /\ minted <= Cardinality(NodeIds)
  <2> DEFINE c == [op |-> "delete", node |-> n]
  <2>1. Asked(c) /\ c.op # "create"
    BY DEF Asked
  <2> HIDE DEF c, from
  <2>2. Whole(Apply(from, c)) /\ Follows(from, Apply(from, c), c.op = "move")
    BY <1>7, <2>1, ApplyWhole DEF Fresh
  <2>3. Whole(Apply(from, c)) /\ Apply(from, c).minted = minted
    BY <1>7, <2>2 DEF Fresh, Follows
  <2>4. QED  BY <1>1, <2>3 DEF SpacesHeld, c
<1> HIDE DEF in, out
<1>9. SetHeld(arrival, 1 .. in.minted)
  BY <1>1, <1>2, <1>6, SetWritten
<1>10. SetHeld(departure, 1 .. minted)
  <2>1. SetHeld(departure, 1 .. out.minted)
    BY <1>1, <1>8, SetWritten
  <2>2. QED  BY <1>8, <2>1
<1> HIDE DEF arrival, departure
<1>11. 1 .. minted \subseteq 1 .. minted'
  BY <1>2, <1>6, <1>8
<1>12. SpacesHeld'
  <2>1. SpaceHeld(in.sp, 1 .. minted') /\ SpaceHeld(out.sp, 1 .. minted)
    BY <1>2, <1>6, <1>8 DEF Whole, Batch, SpaceHeld
  <2>2. \A u \in Spaces : SpaceHeld(spaces[u], 1 .. minted')
    BY <1>1, <1>11 DEF SpacesHeld, SpaceHeld
  <2>3. SpaceHeld(out.sp, 1 .. minted')
    BY <1>11, <2>1 DEF SpaceHeld
  <2>4. DOMAIN spaces' = Spaces /\ \A u \in Spaces : SpaceHeld(spaces'[u], 1 .. minted')
    BY <1>1, <1>2, <2>1, <2>2, <2>3 DEF SpacesHeld
  <2>5. QED  BY <1>2, <1>6, <2>4 DEF SpacesHeld
<1>13. SetsHeld' /\ PendingHeld'
  <2> DEFINE longer == Append(sets, arrival)
  <2>1. LongerBy(sets, longer, arrival)
    BY <1>1, Appended DEF SetsHeld
  <2>2. LongerBy(longer, Append(longer, departure), departure)
    <3> HIDE DEF longer
    <3> QED BY <2>1, Appended DEF LongerBy
  <2>3. sets' = Append(longer, departure)
    BY <1>1, <1>2, TwoAppended DEF SetsHeld
  <2> HIDE DEF longer
  <2>4. /\ \E S : sets' \in Seq(S)
        /\ DOMAIN sets' = DOMAIN sets \cup {Len(sets) + 1, Len(longer) + 1}
        /\ \A i \in DOMAIN sets : sets'[i] = sets[i]
        /\ sets'[Len(sets) + 1] = arrival /\ sets'[Len(longer) + 1] = departure
    BY <2>1, <2>2, <2>3 DEF LongerBy
  <2>5. \A i \in DOMAIN sets : SetHeld(sets[i], 1 .. minted')
    <3>1. \A i \in DOMAIN sets : SetHeld(sets[i], 1 .. minted)
      BY <1>1 DEF SetsHeld
    <3>2. QED  BY <1>11, <3>1, SetsGrow
  <2>6. SetHeld(arrival, 1 .. minted') /\ SetHeld(departure, 1 .. minted')
    BY <1>2, <1>9, <1>10, <1>11, SetsGrow
  <2>7. \A i \in DOMAIN sets' : SetHeld(sets'[i], 1 .. minted')
    BY <2>4, <2>5, <2>6
  <2>8. SetsHeld'
    BY <2>4, <2>7 DEF SetsHeld
  <2>9. PendingHeld'
    BY <1>1, <1>2, <2>4 DEF PendingHeld
  <2>10. QED  BY <2>8, <2>9
<1>14. plan' # None => TreeRead(plan')
  BY <1>2 DEF LibraryInv, CopiesHeld
<1>15. applying' # None => TreeRead(applying')
  BY <1>2 DEF LibraryInv, CopiesHeld
<1>16. QED  BY <1>2, <1>12, <1>13, <1>14, <1>15, WrittenBeside

---------------------------------------------------------------------------
(* The specification *)

LEMMA LibraryInvInit == LibraryInit => LibraryInv
<1> SUFFICES ASSUME LibraryInit PROVE LibraryInv
  OBVIOUS
<1> DEFINE ids == UNION {DOMAIN Start[s] : s \in Spaces}
           Slots == RootKeys \ {UndoRoot}
<1>1. /\ spaces = [s \in Spaces |-> Baseline(1, Slots, Start[s])]
      /\ minted = Cardinality(ids) /\ sets = <<>> /\ pending = 0
      /\ plan = None /\ pub = None /\ applying = None /\ finding = None
  BY DEF LibraryInit, Init
<1>2. ids = 1 .. Cardinality(ids) /\ ids \subseteq NodeIds
  BY StartIsTree
<1>3. minted \in Nat /\ minted <= Cardinality(NodeIds) /\ ids = 1 .. minted
  <2>1. IsFiniteSet(NodeIds) /\ IsFiniteSet(ids)
    BY <1>2, IdsAreNumbers, FS_Subset
  <2> HIDE DEF ids
  <2>2. Cardinality(ids) \in Nat /\ Cardinality(ids) <= Cardinality(NodeIds)
    BY <1>2, <2>1, FS_Subset, FS_CardinalityType
  <2>3. QED  BY <1>1, <1>2, <2>2
<1>4. ASSUME NEW s \in Spaces PROVE SpaceHeld(spaces[s], 1 .. minted)
  <2> DEFINE sp == Baseline(1, Slots, Start[s])
  <2>1. IsSpace(sp) /\ GoodTree(sp) /\ DenseSiblings(sp)
    BY StartIsTree DEF GoodTree, DenseSiblings, Dense
  <2>2. Sound(sp) /\ sp.tomb = [n \in {} |-> n] /\ DOMAIN sp.nodes = DOMAIN Start[s]
    BY <2>1, BaselineSound
  <2>3. spaces[s] = sp
    BY <1>1
  <2>4. DOMAIN Start[s] \subseteq 1 .. minted
    BY <1>3
  <2> HIDE DEF sp
  <2>5. QED  BY <2>2, <2>3, <2>4 DEF SpaceHeld, Known
<1>5. SpacesHeld
  BY <1>1, <1>3, <1>4 DEF SpacesHeld
<1>6. SetsHeld
  BY <1>1 DEF SetsHeld
<1>7. QED  BY <1>1, <1>5, <1>6 DEF LibraryInv, PendingHeld, CopiesHeld, FindingHeld

\* Every step of the library keeps the invariant.
LEMMA LibraryInvNext == LibraryInv /\ [LibraryNext]_vars => LibraryInv'
<1> SUFFICES ASSUME LibraryInv, [LibraryNext]_vars PROVE LibraryInv'
  OBVIOUS
<1>1. SpacesHeld /\ SetsHeld /\ PendingHeld
  BY DEF LibraryInv
<1>2. CASE UNCHANGED vars
  BY <1>2 DEF vars, setVars, copyVars, LibraryInv, SpacesHeld, SetsHeld, PendingHeld,
              CopiesHeld, FindingHeld
<1>3. CASE Next /\ UNCHANGED copyVars
  <2>1. ASSUME NEW s \in Spaces, Edit(s) \/ Restore(s)
        PROVE  SpacesHeld' /\ SetsHeld' /\ PendingHeld'
    BY <1>1, <2>1, EditKeeps, RestoreKeeps
  <2>2. ASSUME NEW i \in DOMAIN sets, Undo(i)
        PROVE  SpacesHeld' /\ SetsHeld' /\ PendingHeld'
    <3>1. /\ SpacesHeld' /\ SetsHeld' /\ DOMAIN sets \subseteq DOMAIN sets'
          /\ \A j \in DOMAIN sets : sets'[j].undo = sets[j].undo
      BY <1>1, <2>2, UndoKeeps DEF Undo, Undoable
    <3>2. QED  BY <1>1, <2>2, <3>1 DEF Undo, PendingHeld
  <2>3. ASSUME NEW i \in DOMAIN sets, ReadForUndo(i)
        PROVE  SpacesHeld' /\ SetsHeld' /\ PendingHeld'
    BY <1>1, <2>3 DEF ReadForUndo, Undoable, SpacesHeld, SetsHeld, PendingHeld
  <2>4. ASSUME LateUndo
        PROVE  SpacesHeld' /\ SetsHeld' /\ PendingHeld'
    <3>1. pending \in DOMAIN sets /\ sets[pending].undo # None /\ ExecuteUndo(pending) /\ pending' = 0
      BY <1>1, <2>4 DEF LateUndo, PendingHeld
    <3>2. SpacesHeld' /\ SetsHeld'
      BY <1>1, <3>1, UndoKeeps
    <3>3. QED  BY <3>1, <3>2 DEF PendingHeld
  <2>5. SpacesHeld' /\ SetsHeld' /\ PendingHeld'
    BY <1>3, <2>1, <2>2, <2>3, <2>4 DEF Next
  <2>6. CopiesHeld' /\ FindingHeld'
    BY <1>3 DEF copyVars, LibraryInv, CopiesHeld, FindingHeld
  <2>7. QED  BY <2>5, <2>6 DEF LibraryInv
<1>4. CASE Importing
  BY <1>4, PlansHeld, ImportKeeps DEF Importing
<1>5. CASE Publishing
  <2>1. CASE \E s \in Publishers : \/ Publish(s, None, None)
                                   \/ \E root \in NodeIds, title \in Titles : Publish(s, root, title)
    BY <2>1, PublicationsHeld, PublishersAreSpaces
  <2>2. CASE Republish \/ (\E title \in Titles : Retitle(title)) \/ Unpublish
    BY <2>2, PublicationsHeld
  <2>3. CASE \E s \in Spaces \ Publishers, strategy \in Strategies : \E target \in Places(s) :
                Len(sets) < Budget[using] /\ ReadPublication(s, target, strategy)
    BY <2>3, ApplicationKeeps
  <2>4. CASE CommitApplication \/ SaveImport \/ AbandonApplication
    BY <2>4, ApplicationKeeps
  <2>5. QED  BY <1>5, <2>1, <2>2, <2>3, <2>4 DEF Publishing
<1>6. CASE Transferring
  BY <1>6, TransferKeeps DEF Transferring
<1>7. CASE Checking
  BY <1>7, CheckingKeeps DEF Checking
<1>8. QED  BY <1>2, <1>3, <1>4, <1>5, <1>6, <1>7 DEF LibraryNext

LEMMA LibraryInvAlways == LibrarySpec => []LibraryInv
BY LibraryInvInit, LibraryInvNext, PTL DEF LibrarySpec

\* Whatever is edited, undone, restored, imported, applied or moved over: a node is live
\* or has a tombstone, siblings stay numbered, and every parent is there.
THEOREM NoNodeIsBoth == LibrarySpec => []RevivedIsLive
<1>1. LibraryInv => RevivedIsLive
  <2> SUFFICES ASSUME LibraryInv, NEW s \in Spaces
               PROVE  LET sp == spaces[s]
                      IN  /\ DOMAIN sp.nodes \cap DOMAIN sp.tomb = {}
                          /\ \A n \in DOMAIN sp.nodes : ValidParent(sp, sp.nodes[n].parent)
                          /\ \A p \in sp.slots \cup DOMAIN sp.nodes :
                                LET kids == Children(sp.nodes, p)
                                IN  {sp.nodes[n].pos : n \in kids} = 0 .. Cardinality(kids) - 1
    BY DEF RevivedIsLive
  <2> DEFINE sp == spaces[s]
  <2>1. Sound(sp) /\ DOMAIN sp.nodes \cap DOMAIN sp.tomb = {}
    BY DEF LibraryInv, SpacesHeld, SpaceHeld
  <2> HIDE DEF sp
  <2>2. /\ GoodTree(sp) /\ DenseSiblings(sp)
        /\ sp.slots \cup DOMAIN sp.nodes \subseteq ParentRefs
    BY <2>1 DEF Sound, LiveSpace, LiveRows, TypedSpace, IsSpace, ParentRefs
  <2>3. \A n \in DOMAIN sp.nodes : ValidParent(sp, sp.nodes[n].parent)
    BY <2>2 DEF GoodTree
  <2>4. \A p \in sp.slots \cup DOMAIN sp.nodes :
            LET kids == Children(sp.nodes, p)
            IN  {sp.nodes[n].pos : n \in kids} = 0 .. Cardinality(kids) - 1
    BY <2>2 DEF DenseSiblings, Dense
  <2>5. QED  BY <2>1, <2>3, <2>4 DEF sp
<1>2. QED  BY <1>1, LibraryInvAlways, PTL

\* A bookmark goes on the word of a link check only if nobody has written its URL since
\* it was checked, and it was not deleted and revived meanwhile.
THEOREM CheckedIsWhatGoes == LibrarySpec => DeletesWhatWasChecked
<1> DEFINE Goes == finding # None /\ finding' = None /\ sets' # sets =>
                      LET sp == spaces[finding.space]
                      IN  /\ finding.epoch = sp.epoch
                          /\ \A r \in finding.rev + 1 .. sp.rev :
                                sp.journal[r].node = finding.node =>
                                    sp.journal[r].type \in {"update_title", "move"}
<1>1. ASSUME LibraryInv, [LibraryNext]_vars PROVE [Goes]_vars
  <2> SUFFICES ASSUME finding # None, finding' = None, sets' # sets PROVE Goes
    OBVIOUS
  <2>1. DeleteBookmarkIfUnchanged
    <3>1. ASSUME UNCHANGED finding PROVE FALSE
      BY <3>1
    <3>2. CASE Checking
      BY <3>2 DEF Checking, CheckLink, DropFinding, setVars
    <3>3. CASE Importing
      BY <3>1, <3>3 DEF Importing, Preview, CheckPlan, ApplyPlan, DropPlan
    <3>4. CASE Publishing
      BY <3>1, <3>4 DEF Publishing, Publish, Republish, Retitle, Unpublish, ReadPublication,
                        CommitApplication, SaveImport, AbandonApplication
    <3>5. CASE Transferring
      <4>1. UNCHANGED finding
        BY <3>5 DEF Transferring, Transfer
      <4>2. QED  BY <3>1, <4>1
    <3>6. CASE UNCHANGED copyVars \/ UNCHANGED vars
      BY <3>1, <3>6 DEF vars, copyVars
    <3>7. QED  BY <1>1, <3>2, <3>3, <3>4, <3>5, <3>6 DEF LibraryNext
  <2> DEFINE sp == spaces[finding.space]
  <2>2. /\ finding.epoch = sp.epoch /\ finding.node \in DOMAIN sp.nodes
        /\ sp.nodes[finding.node].urlRev = finding.urlRev
    BY <2>1 DEF DeleteBookmarkIfUnchanged, Unchanged
  <2>3. Sound(sp) /\ finding.urlRev \in Nat /\ finding.rev \in Nat /\ finding.urlRev <= finding.rev
    BY <1>1, SpaceHolds DEF LibraryInv, FindingHeld
  <2> HIDE DEF sp
  <2>4. /\ DOMAIN sp.journal = 1 .. sp.rev /\ FieldLatest(sp, "url", "urlRev")
        /\ \A r \in DOMAIN sp.journal : IsRow(sp.journal[r])
    BY <2>3 DEF Sound, LiveSpace, LiveRows, JournalSpans, FieldsAgree, TypedSpace, IsSpace
  <2>5. ASSUME NEW r \in finding.rev + 1 .. sp.rev, sp.journal[r].node = finding.node
        PROVE  sp.journal[r].type \in {"update_title", "move"}
    <3> DEFINE row == sp.journal[r]
    <3>1. r \in DOMAIN sp.journal /\ ~(r <= finding.urlRev) /\ IsRow(row)
      BY <2>3, <2>4
    <3>2. row.type \in {"create", "update_title", "update_url", "move", "delete"}
      BY <3>1 DEF IsRow
    <3>3. "url" \notin DOMAIN row.payload
      BY <2>2, <2>4, <2>5, <3>1 DEF FieldLatest
    <3>4. DOMAIN row.payload \cap Edited = FieldsOf(row.type) /\ row.type # "delete"
      BY <2>2, <2>3, <2>5, <3>1 DEF Sound, History
    <3> HIDE DEF row
    <3>5. row.type \notin {"create", "update_url"}
      BY <3>3, <3>4 DEF FieldsOf, Edited
    <3>6. QED  BY <3>2, <3>4, <3>5 DEF row
  <2>6. QED  BY <2>2, <2>5 DEF sp
<1>2. QED  BY <1>1, LibraryInvAlways, PTL DEF LibrarySpec, DeletesWhatWasChecked

---------------------------------------------------------------------------
(* What an undo leaves alone *)

\* Nothing hangs from a bookmark.
LEMMA BookmarkAlone ==
    ASSUME NEW sp, TypedSpace(sp), GoodTree(sp), NEW n \in DOMAIN sp.nodes,
           sp.nodes[n].type # "folder"
    PROVE  SubtreeIDs(sp.nodes, n) \subseteq {n}
<1> SUFFICES ASSUME NEW m \in SubtreeIDs(sp.nodes, n), m # n PROVE FALSE
  OBVIOUS
<1> DEFINE T == DOMAIN sp.nodes \ {n}
<1>1. m \in T /\ n \in AncestorsOrSelf(sp.nodes, m)
  BY DEF SubtreeIDs
<1>2. UpClosed(sp.nodes, T)
  <2>1. ASSUME NEW k \in T, sp.nodes[k].parent \in DOMAIN sp.nodes
        PROVE  sp.nodes[k].parent # n
    BY <2>1, ParentKinds DEF GoodTree
  <2>2. QED  BY <2>1 DEF UpClosed
<1>3. QED  BY <1>1, <1>2 DEF AncestorsOrSelf

\* Where nodes came and went and none that stayed was moved, what hangs from a node of
\* those there were hung from it before.
LEMMA NothingMovedBelow ==
    ASSUME NEW sp, TypedSpace(sp), GoodTree(sp), NEW after, DOMAIN after \subseteq NodeIds,
           \A n \in DOMAIN sp.nodes \cap DOMAIN after : after[n].parent = sp.nodes[n].parent,
           NEW n, NEW m \in SubtreeIDs(after, n), m \in DOMAIN sp.nodes
    PROVE  m \in SubtreeIDs(sp.nodes, n)
<1> DEFINE A == AncestorsOrSelf(sp.nodes, m)
           T == A \cap DOMAIN after
<1>1. m \in DOMAIN after /\ n \in AncestorsOrSelf(after, m)
  BY DEF SubtreeIDs
<1>2. m \in A /\ A \subseteq DOMAIN sp.nodes /\ UpClosed(sp.nodes, A)
  BY DEF AncestorsOrSelf, UpClosed
<1>3. UpClosed(after, T)
  <2>1. SUFFICES ASSUME NEW k \in T, after[k].parent \in DOMAIN after PROVE after[k].parent \in A
    BY DEF UpClosed
  <2> DEFINE p == sp.nodes[k].parent
  <2>2. k \in DOMAIN sp.nodes /\ after[k].parent = p
    BY <1>2
  <2>3. p \in DOMAIN after
    BY <2>1, <2>2
  <2>4. p \in DOMAIN sp.nodes \/ p \in sp.slots
    BY <2>2 DEF GoodTree, ValidParent
  <2>5. p \in DOMAIN sp.nodes => p \in A
    BY <1>2, <2>2 DEF UpClosed
  <2>6. p \notin sp.slots
    BY <2>3, ConstantsDisjoint DEF TypedSpace, IsSpace
  <2>7. QED  BY <2>2, <2>4, <2>5, <2>6
<1>4. n \in T
  BY <1>1, <1>2, <1>3 DEF AncestorsOrSelf
<1>5. QED  BY <1>4 DEF SubtreeIDs

\* Everything an undo has left of the nodes old, when it has come as far as nodes: what
\* is gone it had created, and what is otherwise nobody has written since.
Spared(old, cs, nodes) ==
    /\ DOMAIN old \ DOMAIN nodes \subseteq Created(cs.undo)
    /\ \A n \in DOMAIN old \cap DOMAIN nodes :
           /\ old[n].title # nodes[n].title => old[n].titleRev <= cs.last
           /\ old[n].url # nodes[n].url => old[n].urlRev <= cs.last
           /\ old[n].parent # nodes[n].parent =>
                  old[n].structRev <= cs.last /\ cs.undo.moves # <<>>

\* A command that reverts a field nobody has written since keeps it so.
LEMMA RevertSpares ==
    ASSUME NEW old, NEW cs, NEW nodes, Spared(old, cs, nodes), NEW c, NEW after,
           Limits(nodes, after, c), c.op \in {"update_title", "update_url", "move"},
           c.node \in DOMAIN old,
           c.op = "update_title" => old[c.node].titleRev <= cs.last,
           c.op = "update_url" => old[c.node].urlRev <= cs.last,
           c.op = "move" => old[c.node].structRev <= cs.last /\ cs.undo.moves # <<>>
    PROVE  Spared(old, cs, after)
<1>1. DOMAIN after = DOMAIN nodes
  BY DEF Limits
<1>2. ASSUME NEW n \in DOMAIN old \cap DOMAIN after, NEW f \in Edited, after[n][f] # nodes[n][f]
      PROVE  n = c.node /\ f \in FieldsOf(c.op)
  BY <1>1, <1>2 DEF Limits
<1>3. \A n \in DOMAIN old \cap DOMAIN after :
          /\ after[n].title # nodes[n].title => n = c.node /\ c.op = "update_title"
          /\ after[n].url # nodes[n].url => n = c.node /\ c.op = "update_url"
          /\ after[n].parent # nodes[n].parent => n = c.node /\ c.op = "move"
  <2>1. /\ "title" \in FieldsOf(c.op) => c.op = "update_title"
        /\ "url" \in FieldsOf(c.op) => c.op = "update_url"
        /\ "parent" \in FieldsOf(c.op) => c.op = "move"
    BY DEF FieldsOf
  <2>2. {"title", "url", "parent"} = Edited
    BY DEF Edited
  <2>3. QED  BY <1>2, <2>1, <2>2
<1>4. QED  BY <1>1, <1>3 DEF Spared

\* Where nothing is moved back, to delete what the change set has created takes away only
\* what it has created: reviewReasons has found nothing else below it.
LEMMA RemoveSpares ==
    ASSUME NEW sp, TypedSpace(sp), GoodTree(sp), NEW cs, cs.undo.moves = <<>>, NEW nodes,
           DOMAIN nodes \subseteq NodeIds, Spared(sp.nodes, cs, nodes), NEW c, NEW after,
           Limits(nodes, after, c), c.op = "delete", c.node \in Created(cs.undo),
           NothingAddedBelow(sp, cs.undo, c.node)
    PROVE  Spared(sp.nodes, cs, after)
<1> DEFINE old == sp.nodes
<1>1. DOMAIN after \subseteq DOMAIN nodes /\ DOMAIN nodes \ DOMAIN after \subseteq SubtreeIDs(nodes, c.node)
  BY DEF Limits
<1>2. \A n \in DOMAIN old \cap DOMAIN nodes : nodes[n].parent = old[n].parent
  BY DEF Spared
<1>3. ASSUME NEW m \in DOMAIN old \cap SubtreeIDs(nodes, c.node) PROVE m \in Created(cs.undo)
  <2>1. m \in SubtreeIDs(old, c.node)
    BY <1>2, <1>3, NothingMovedBelow
  <2>2. c.node \in DOMAIN old
    BY <2>1 DEF SubtreeIDs, AncestorsOrSelf
  <2>3. CASE old[c.node].type = "folder"
    BY <2>1, <2>2, <2>3 DEF NothingAddedBelow
  <2>4. CASE old[c.node].type # "folder"
    <3>1. SubtreeIDs(old, c.node) \subseteq {c.node}
      BY <2>2, <2>4, BookmarkAlone
    <3>2. QED  BY <2>1, <3>1
  <2>5. QED  BY <2>3, <2>4
<1>4. \A n \in DOMAIN old \cap DOMAIN after, f \in Edited : after[n][f] = nodes[n][f]
  <2>1. FieldsOf(c.op) = {}
    BY DEF FieldsOf
  <2>2. QED  BY <1>1, <2>1 DEF Limits
<1>5. \A n \in DOMAIN old \cap DOMAIN after :
          /\ after[n].title = nodes[n].title /\ after[n].url = nodes[n].url
          /\ after[n].parent = nodes[n].parent
  <2>1. {"title", "url", "parent"} = Edited
    BY DEF Edited
  <2>2. QED  BY <1>4, <2>1
<1>6. DOMAIN old \ DOMAIN after \subseteq Created(cs.undo)
  BY <1>1, <1>3 DEF Spared
<1>7. QED  BY <1>1, <1>5, <1>6 DEF Spared

\* A restore comes before anything is taken away, so it touches none of the nodes.
LEMMA RestoreSpares ==
    ASSUME NEW old, NEW cs, NEW nodes, Spared(old, cs, nodes), DOMAIN old \subseteq DOMAIN nodes,
           NEW after, Untouched(nodes, after)
    PROVE  Spared(old, cs, after) /\ DOMAIN old \subseteq DOMAIN after
<1>1. {"title", "url", "parent"} = Edited
  BY DEF Edited
<1>2. \A n \in DOMAIN old :
          /\ after[n].title = nodes[n].title /\ after[n].url = nodes[n].url
          /\ after[n].parent = nodes[n].parent
  BY <1>1 DEF Untouched
<1>3. QED  BY <1>2 DEF Spared, Untouched

\* The steps of an undo: restores first, and then others, each of something the change
\* set has kept.
RestoreKinds(ids) == [what : {"restore"}, of : Seq(Snaps(ids))]
LaterKinds(undo) ==
    [what : {"revert"}, of : Range(undo.updates)] \cup [what : {"move back"}, of : Range(undo.moves)]
        \cup [what : {"remove"}, of : Created(undo)]

\* The first m are of R, the others of S.
FirstOf(list, m, R, S) ==
    /\ Len(list) \in Nat /\ m \in Nat /\ m <= Len(list) /\ list \in Seq(R \cup S)
    /\ \A k \in 1 .. Len(list) : IF k <= m THEN list[k] \in R ELSE list[k] \in S

LEMMA FirstAlone ==
    ASSUME NEW R, NEW S, NEW list \in Seq(R)
    PROVE  FirstOf(list, Len(list), R, S)
<1>1. Len(list) \in Nat /\ \A k \in 1 .. Len(list) : list[k] \in R
  OBVIOUS
<1>2. list \in Seq(R \cup S)
  BY ListGrows
<1>3. QED  BY <1>1, <1>2 DEF FirstOf

LEMMA FirstJoined ==
    ASSUME NEW R, NEW S, NEW m, NEW list, FirstOf(list, m, R, S), NEW more \in Seq(S)
    PROVE  FirstOf(list \o more, m, R, S)
<1> DEFINE T == R \cup S
           both == list \o more
<1>1. /\ Len(list) \in Nat /\ m \in Nat /\ m <= Len(list) /\ list \in Seq(T)
      /\ \A k \in 1 .. Len(list) : IF k <= m THEN list[k] \in R ELSE list[k] \in S
  BY DEF FirstOf
<1>2. more \in Seq(T) /\ Len(more) \in Nat /\ \A k \in 1 .. Len(more) : more[k] \in S
  <2>1. S \subseteq T
    OBVIOUS
  <2> HIDE DEF T
  <2>2. more \in Seq(T)
    BY <2>1, ListGrows
  <2>3. QED  BY <2>2
<1> HIDE DEF T
<1>3. both \in Seq(T) /\ Len(both) = Len(list) + Len(more)
  BY <1>1, <1>2
<1>4. \A k \in 1 .. Len(both) : both[k] = IF k <= Len(list) THEN list[k] ELSE more[k - Len(list)]
  BY <1>1, <1>2, <1>3
<1> HIDE DEF both
<1>5. ASSUME NEW k \in 1 .. Len(both) PROVE IF k <= m THEN both[k] \in R ELSE both[k] \in S
  <2>1. CASE k <= Len(list)
    <3>1. k \in 1 .. Len(list) /\ both[k] = list[k]
      BY <1>1, <1>2, <1>3, <1>4, <2>1
    <3>2. QED  BY <1>1, <3>1
  <2>2. CASE ~(k <= Len(list))
    <3>1. k - Len(list) \in 1 .. Len(more) /\ both[k] = more[k - Len(list)] /\ ~(k <= m)
      BY <1>1, <1>2, <1>3, <1>4, <2>2
    <3>2. QED  BY <1>2, <3>1
  <2>3. QED  BY <2>1, <2>2
<1>6. Len(both) \in Nat /\ m <= Len(both)
  BY <1>1, <1>2, <1>3
<1>7. QED  BY <1>1, <1>3, <1>5, <1>6 DEF FirstOf, both, T

LEMMA ListOfItsOwn ==
    ASSUME NEW S, NEW list \in Seq(S)
    PROVE  list \in Seq(Range(list))
<1>1. \A k \in 1 .. Len(list) : list[k] \in Range(list)
  BY DEF Range
<1>2. /\ Len(list) \in Nat /\ DOMAIN list = 1 .. Len(list)
      /\ list = [k \in DOMAIN list |-> list[k]]
  OBVIOUS
<1>3. QED  BY <1>1, <1>2, ListOf

LEMMA RestoresFirst ==
    ASSUME NEW ids, NEW undo \in Undos(ids)
    PROVE  \E m : FirstOf(InverseSteps(undo), m, RestoreKinds(ids), LaterKinds(undo))
<1> DEFINE R == RestoreKinds(ids)
           S == LaterKinds(undo)
<1>1. /\ undo.updates \in Seq(Range(undo.updates)) /\ undo.moves \in Seq(Range(undo.moves))
      /\ undo.creates \in Seq(Created(undo)) /\ undo.deletes \in Seq(Seq(Snaps(ids)))
  BY ListOfItsOwn DEF Undos, Created
<1>2. Reverse(undo.deletes) \in Seq(Seq(Snaps(ids))) /\ Reverse(undo.creates) \in Seq(Created(undo))
  BY <1>1, ReverseLists
<1>3. /\ \A of \in Seq(Snaps(ids)) : [what |-> "restore", of |-> of] \in R
      /\ \A of \in Range(undo.updates) : [what |-> "revert", of |-> of] \in S
      /\ \A of \in Range(undo.moves) : [what |-> "move back", of |-> of] \in S
      /\ \A of \in Created(undo) : [what |-> "remove", of |-> of] \in S
  BY DEF RestoreKinds, LaterKinds
<1> HIDE DEF R, S
<1> DEFINE first == StepsFor("restore", Reverse(undo.deletes))
           reverts == StepsFor("revert", undo.updates)
           movesBack == StepsFor("move back", undo.moves)
           removes == StepsFor("remove", Reverse(undo.creates))
<1>4. first \in Seq(R)
  BY <1>2, <1>3, StepsOf
<1>5. reverts \in Seq(S)
  BY <1>1, <1>3, StepsOf
<1>6. movesBack \in Seq(S)
  BY <1>1, <1>3, StepsOf
<1>7. removes \in Seq(S)
  BY <1>2, <1>3, StepsOf
<1>8. InverseSteps(undo) = first \o reverts \o movesBack \o removes
  BY DEF InverseSteps, StepsFor
<1> HIDE DEF first, reverts, movesBack, removes
<1> DEFINE m == Len(first)
<1>9. FirstOf(first, m, R, S)
  BY <1>4, FirstAlone
<1> HIDE DEF m
<1>10. FirstOf(first \o reverts, m, R, S)
  BY <1>5, <1>9, FirstJoined
<1>11. FirstOf(first \o reverts \o movesBack, m, R, S)
  BY <1>6, <1>10, FirstJoined
<1>12. FirstOf(first \o reverts \o movesBack \o removes, m, R, S)
  BY <1>7, <1>11, FirstJoined
<1>13. QED  BY <1>8, <1>12 DEF R, S

\* What an undo reads and finds: a change set with its before images, and no reason for a
\* review.  A change set that moved something created nothing: each is one request.
Undoing(sp, cs, ids) ==
    /\ TypedSpace(sp) /\ GoodTree(sp) /\ Clean(sp, cs) /\ cs.undo \in Undos(ids)
    /\ cs.undo.moves = <<>> \/ cs.undo.creates = <<>>

\* Any step but a restore spares later work.
LEMMA LaterStepSpares ==
    ASSUME NEW sp, NEW cs, NEW b, b.minted <= Cardinality(NodeIds), Whole(b),
           Undoing(sp, cs, 1 .. b.minted), Spared(sp.nodes, cs, b.sp.nodes),
           NEW step \in LaterKinds(cs.undo)
    PROVE  Spared(sp.nodes, cs, InverseStep(b, cs.undo, step).sp.nodes)
<1> DEFINE ids == 1 .. b.minted
           old == sp.nodes
<1>1. Batch(b, ids) /\ DOMAIN b.sp.nodes \subseteq NodeIds
  BY DEF Whole, Batch, Sound, LiveSpace, TypedSpace, IsSpace
<1>2. /\ cs.undo.updates \in Seq(Updates) /\ cs.undo.moves \in Seq(Moves)
      /\ cs.undo.creates \in Seq(NodeIds)
  BY DEF Undoing, Undos
<1>3. ASSUME NEW c, Asked(c), c.op # "create" PROVE Limits(b.sp.nodes, Apply(b, c).sp.nodes, c)
  <2>1. Added(c) \subseteq ids
    BY <1>3 DEF Added
  <2> HIDE DEF ids
  <2>2. QED  BY <1>1, <1>3, <2>1, ApplyKeeps
<1>4. CASE step.what = "revert"
  <2> DEFINE u == step.of
             c == RevertOf(u)
  <2>1. PICK k \in DOMAIN cs.undo.updates : u = cs.undo.updates[k]
    BY <1>4 DEF LaterKinds, Range
  <2>2. u \in Updates /\ UpdateUnchanged(sp, cs, u)
    BY <1>2, <2>1 DEF Undoing, Clean
  <2>3. /\ u.node \in DOMAIN old
        /\ u.field = "title" => old[u.node].titleRev <= cs.last
        /\ u.field # "title" => old[u.node].urlRev <= cs.last
    BY <2>2 DEF UpdateUnchanged
  <2>4. /\ Asked(c) /\ c.op \in {"update_title", "update_url"} /\ c.node = u.node
        /\ c.op = "update_title" <=> u.field = "title"
    BY <2>2 DEF Updates, RevertOf, Asked
  <2>5. InverseStep(b, cs.undo, step) = Apply(b, c)
    BY <1>4 DEF InverseStep
  <2> HIDE DEF c, u
  <2>6. Limits(b.sp.nodes, Apply(b, c).sp.nodes, c)
    BY <1>3, <2>4
  <2>7. QED  BY <2>3, <2>4, <2>5, <2>6, RevertSpares
<1>5. CASE step.what = "move back"
  <2> DEFINE mv == step.of
             kids == InOrder(b.sp.nodes, mv.parent)
             c == [op |-> "move", node |-> mv.node, parent |-> mv.parent,
                   before |-> IF mv.position < Len(kids) THEN kids[mv.position + 1] ELSE None]
  <2>1. PICK k \in DOMAIN cs.undo.moves : mv = cs.undo.moves[k]
    BY <1>5 DEF LaterKinds, Range
  <2>2. MoveUnchanged(sp, cs, mv) /\ cs.undo.moves # <<>>
    BY <1>2, <2>1 DEF Undoing, Clean
  <2>3. mv.node \in DOMAIN old /\ old[mv.node].structRev <= cs.last
    BY <2>2 DEF MoveUnchanged
  <2>4. Asked(c) /\ c.op = "move" /\ c.node = mv.node
    BY DEF Asked
  <2>5. InverseStep(b, cs.undo, step) = Apply(b, c)
    BY <1>5 DEF InverseStep, MoveBack
  <2> HIDE DEF c, mv
  <2>6. Limits(b.sp.nodes, Apply(b, c).sp.nodes, c)
    BY <1>3, <2>4
  <2>7. QED  BY <2>2, <2>3, <2>4, <2>5, <2>6, RevertSpares
<1>6. CASE step.what = "remove"
  <2> DEFINE c == [op |-> "delete", node |-> step.of]
  <2>1. step.of \in Created(cs.undo)
    BY <1>6 DEF LaterKinds
  <2>2. cs.undo.moves = <<>>
    BY <1>2, <2>1 DEF Undoing, Created, Range
  <2>3. NothingAddedBelow(sp, cs.undo, step.of)
    BY <2>1 DEF Undoing, Clean
  <2>4. InverseStep(b, cs.undo, step) \in {b, Apply(b, c)}
    BY <1>6 DEF InverseStep, DeleteCreated
  <2>5. Asked(c) /\ c.op = "delete" /\ c.node = step.of
    BY DEF Asked
  <2> HIDE DEF c
  <2>6. Limits(b.sp.nodes, Apply(b, c).sp.nodes, c)
    BY <1>3, <2>5
  <2>7. TypedSpace(sp) /\ GoodTree(sp)
    BY DEF Undoing
  <2>8. Spared(old, cs, Apply(b, c).sp.nodes)
    BY <1>1, <2>1, <2>2, <2>3, <2>5, <2>6, <2>7, RemoveSpares
  <2>9. QED  BY <2>4, <2>8
<1>7. QED  BY <1>4, <1>5, <1>6 DEF LaterKinds

\* A whole undo spares later work.
LEMMA InvertedSpares ==
    ASSUME NEW sp, NEW cs, NEW b, b.minted <= Cardinality(NodeIds), Whole(b), b.sp = sp,
           Undoing(sp, cs, 1 .. b.minted)
    PROVE  Spared(sp.nodes, cs, Inverted(b, cs.undo).sp.nodes)
<1> DEFINE ids == 1 .. b.minted
           undo == cs.undo
           old == sp.nodes
           steps == InverseSteps(undo)
<1>1. undo \in Undos(ids)
  BY DEF Undoing
<1>2. PICK m : FirstOf(steps, m, RestoreKinds(ids), LaterKinds(undo))
  BY <1>1, RestoresFirst
<1>3. /\ Len(steps) \in Nat /\ m \in Nat
      /\ \A k \in 1 .. Len(steps) : steps[k] \in InverseKinds(ids)
      /\ \A k \in 1 .. Len(steps) : IF k <= m THEN steps[k] \in RestoreKinds(ids)
                                              ELSE steps[k] \in LaterKinds(undo)
  <2>1. steps \in Seq(InverseKinds(ids))
    BY <1>1, InverseTyped
  <2>2. QED  BY <1>2, <2>1 DEF FirstOf
<1>4. PICK done : /\ Inverted(b, undo) = done[Len(steps)] /\ done[0] = b
                  /\ \A k \in 1 .. Len(steps) : done[k] = InverseStep(done[k - 1], undo, steps[k])
  <2>1. Len(InverseSteps(cs.undo)) \in Nat
    BY <1>3
  <2>2. QED  BY <2>1, InvertedSteps
<1> HIDE DEF steps
<1> DEFINE Good(n) == /\ Whole(done[n]) /\ done[n].minted = b.minted
                      /\ Spared(old, cs, done[n].sp.nodes)
                      /\ n <= m => DOMAIN old \subseteq DOMAIN done[n].sp.nodes
           U == {n \in Nat : n <= Len(steps) => Good(n)}
<1>5. 0 \in U
  <2>1. Spared(old, cs, b.sp.nodes) /\ DOMAIN old \subseteq DOMAIN b.sp.nodes
    BY DEF Spared
  <2>2. Good(0)
    BY <1>4, <2>1
  <2>3. QED  BY <2>2
<1>6. ASSUME NEW n \in Nat, n \in U PROVE n + 1 \in U
  <2>1. SUFFICES ASSUME n + 1 <= Len(steps) PROVE Good(n + 1)
    OBVIOUS
  <2>2. /\ Good(n) /\ n + 1 \in 1 .. Len(steps) /\ (n + 1) - 1 = n
        /\ n + 1 <= m => n <= m
    BY <1>3, <1>6, <2>1
  <2> DEFINE a == done[n]
             step == steps[n + 1]
             then == done[n + 1]
  <2>3. then = InverseStep(a, undo, step)
    BY <1>4, <2>2
  <2>4. /\ Whole(a) /\ a.minted = b.minted /\ Spared(old, cs, a.sp.nodes)
        /\ n + 1 <= m => DOMAIN old \subseteq DOMAIN a.sp.nodes
    BY <2>2
  <2>5. /\ step \in InverseKinds(1 .. a.minted)
        /\ IF n + 1 <= m THEN step \in RestoreKinds(ids) ELSE step \in LaterKinds(undo)
    BY <1>3, <2>2, <2>4
  <2> HIDE DEF a, step, then
  <2>6. Whole(then) /\ then.minted = b.minted
    BY <2>3, <2>4, <2>5, InverseStepWhole
  <2>7. CASE n + 1 <= m
    <3>1. step.what = "restore" /\ step.of \in Seq(Snaps(1 .. a.minted))
      BY <2>4, <2>5, <2>7 DEF RestoreKinds
    <3>2. Len(step.of) \in Nat /\ DOMAIN step.of = 1 .. Len(step.of)
      BY <3>1
    <3>3. then = RestoreSnapshot(a, step.of)
      BY <2>3, <3>1 DEF InverseStep
    <3>4. Untouched(a.sp.nodes, then.sp.nodes)
      BY <2>4, <3>1, <3>2, <3>3, RestoreWhole
    <3>5. Spared(old, cs, then.sp.nodes) /\ DOMAIN old \subseteq DOMAIN then.sp.nodes
      BY <2>4, <2>7, <3>4, RestoreSpares
    <3>6. QED  BY <2>6, <3>5 DEF then
  <2>8. CASE ~(n + 1 <= m)
    <3>1. Spared(old, cs, then.sp.nodes)
      BY <2>3, <2>4, <2>5, <2>8, LaterStepSpares
    <3>2. QED  BY <2>6, <2>8, <3>1 DEF then
  <2>9. QED  BY <2>7, <2>8
<1>7. Len(steps) \in U
  <2> HIDE DEF U
  <2> QED BY <1>3, <1>5, <1>6, Induct
<1>8. QED  BY <1>3, <1>4, <1>7

\* Only undos write change sets that invert others.
LEMMA RecordInvertsNone ==
    ASSUME SetsHeld, NEW s, NEW b, Record(s, b), NEW i \in NewSets
    PROVE  sets'[i].inverseOf = None
<1> DEFINE cs == ChangeSet(s, b, b.undo, None)
<1>1. sets' = Append(sets, cs) /\ cs.inverseOf = None
  BY DEF Record, ChangeSet
<1> HIDE DEF cs
<1>2. LongerBy(sets, sets', cs)
  BY <1>1, Appended DEF SetsHeld
<1>3. QED  BY <1>1, <1>2 DEF LongerBy, NewSets

LEMMA TransferInvertsNone ==
    ASSUME SetsHeld, NEW x, NEW s, NEW t, NEW n, NEW target, NEW before,
           Transfer(x, s, t, n, target, before), NEW i \in NewSets
    PROVE  sets'[i].inverseOf = None
<1>1. PICK in, out : sets' = sets \o <<ChangeSet(t, in, None, None), ChangeSet(s, out, None, None)>>
  BY DEF Transfer
<1> DEFINE arrival == ChangeSet(t, in, None, None)
           departure == ChangeSet(s, out, None, None)
           one == Append(sets, arrival)
<1>2. arrival.inverseOf = None /\ departure.inverseOf = None
  BY DEF ChangeSet
<1> HIDE DEF arrival, departure
<1>3. sets' = Append(one, departure)
  BY <1>1, TwoAppended DEF SetsHeld, arrival, departure
<1>4. LongerBy(sets, one, arrival)
  BY Appended DEF SetsHeld
<1> HIDE DEF one
<1>5. LongerBy(one, sets', departure)
  <2>1. \E S : one \in Seq(S)
    BY <1>4 DEF LongerBy
  <2>2. QED  BY <1>3, <2>1, Appended
<1>6. QED  BY <1>2, <1>4, <1>5 DEF LongerBy, NewSets

LEMMA OnlyUndosInvert ==
    ASSUME LibraryInv, [LibraryNext]_vars, NEW i \in NewSets, sets'[i].inverseOf # None
    PROVE  \E j \in DOMAIN sets : sets[j].undo # None /\ ExecuteUndo(j)
<1>1. SetsHeld /\ PendingHeld
  BY DEF LibraryInv
<1>2. UNCHANGED sets => FALSE
  BY DEF NewSets
<1>3. \A s, b : ~Record(s, b)
  BY <1>1, RecordInvertsNone
<1>4. CASE UNCHANGED vars
  BY <1>2, <1>4 DEF vars, setVars
<1>5. CASE Next
  <2>1. ASSUME NEW s \in Spaces, Edit(s) PROVE FALSE
    BY <1>3, <2>1 DEF Edit
  <2>2. ASSUME NEW s \in Spaces, Restore(s) PROVE FALSE
    BY <1>2, <2>2 DEF Restore
  <2>3. ASSUME NEW j \in DOMAIN sets, ReadForUndo(j) PROVE FALSE
    BY <1>2, <2>3 DEF ReadForUndo
  <2>4. ASSUME NEW j \in DOMAIN sets, Undo(j) PROVE sets[j].undo # None /\ ExecuteUndo(j)
    BY <2>4 DEF Undo, Undoable
  <2>5. ASSUME LateUndo
        PROVE  pending \in DOMAIN sets /\ sets[pending].undo # None /\ ExecuteUndo(pending)
    BY <1>1, <2>5 DEF LateUndo, PendingHeld
  <2>6. QED  BY <1>5, <2>1, <2>2, <2>3, <2>4, <2>5 DEF Next
<1>6. CASE Importing
  <2>1. ASSUME NEW s, NEW from, Preview(s, from) PROVE FALSE
    BY <1>2, <2>1 DEF Preview, setVars
  <2>2. ASSUME NEW target, NEW strategy, CheckPlan(target, strategy) PROVE FALSE
    BY <1>2, <2>2 DEF CheckPlan, setVars
  <2>3. ASSUME ApplyPlan PROVE FALSE
    BY <1>3, <2>3 DEF ApplyPlan
  <2>4. ASSUME DropPlan PROVE FALSE
    BY <1>2, <2>4 DEF DropPlan, setVars
  <2>5. QED  BY <1>6, <2>1, <2>2, <2>3, <2>4 DEF Importing
<1>7. CASE Publishing
  <2>1. ASSUME NEW s, NEW root, NEW title, Publish(s, root, title) PROVE FALSE
    BY <1>2, <2>1 DEF Publish, setVars
  <2>2. ASSUME NEW title,
               Republish \/ Retitle(title) \/ Unpublish \/ SaveImport \/ AbandonApplication
        PROVE  FALSE
    BY <1>2, <2>2 DEF Republish, Retitle, Unpublish, SaveImport, AbandonApplication, setVars
  <2>3. ASSUME NEW s, NEW target, NEW strategy, ReadPublication(s, target, strategy) PROVE FALSE
    BY <1>2, <2>3 DEF ReadPublication, setVars
  <2>4. ASSUME CommitApplication PROVE FALSE
    BY <1>2, <1>3, <2>4 DEF CommitApplication
  <2>5. QED  BY <1>7, <2>1, <2>2, <2>3, <2>4 DEF Publishing
<1>8. CASE Transferring
  BY <1>1, <1>8, TransferInvertsNone DEF Transferring
<1>9. CASE Checking
  <2>1. ASSUME NEW s, NEW n, CheckLink(s, n) PROVE FALSE
    BY <1>2, <2>1 DEF CheckLink, setVars
  <2>2. ASSUME DeleteBookmarkIfUnchanged PROVE FALSE
    BY <1>3, <2>2 DEF DeleteBookmarkIfUnchanged
  <2>3. ASSUME DropFinding PROVE FALSE
    BY <1>2, <2>3 DEF DropFinding, setVars
  <2>4. QED  BY <1>9, <2>1, <2>2, <2>3 DEF Checking
<1>10. QED  BY <1>4, <1>5, <1>6, <1>7, <1>8, <1>9 DEF LibraryNext

\* Whatever an undo finds, and whoever wrote since: it overwrites no field written after
\* its change set and takes away no node the change set did not create.
THEOREM LaterWorkIsSpared == LibrarySpec => UndoSparesLaterWork
<1> DEFINE Spares(i) ==
               LET s   == sets'[i].space
                   old == spaces[s].nodes
                   new == spaces'[s].nodes
               IN  sets'[i].inverseOf # None =>
                     LET cs == sets[sets'[i].inverseOf]
                     IN  /\ DOMAIN old \ DOMAIN new \subseteq Created(cs.undo)
                         /\ \A n \in DOMAIN old \cap DOMAIN new :
                               /\ old[n].title # new[n].title => old[n].titleRev <= cs.last
                               /\ old[n].url # new[n].url => old[n].urlRev <= cs.last
                               /\ old[n].parent # new[n].parent => old[n].structRev <= cs.last
                         /\ cs.epoch = spaces[s].epoch
           Sparing == \A i \in NewSets : Spares(i)
<1>1. ASSUME LibraryInv, [LibraryNext]_vars PROVE [Sparing]_setVars
  <2> SUFFICES ASSUME NEW i \in NewSets, sets'[i].inverseOf # None PROVE Spares(i)
    OBVIOUS
  <2>1. SpacesHeld /\ SetsHeld /\ PendingHeld
    BY <1>1 DEF LibraryInv
  <2>2. PICK j \in DOMAIN sets : sets[j].undo # None /\ ExecuteUndo(j)
    BY <1>1, OnlyUndosInvert
  <2> DEFINE cs == sets[j]
             s == cs.space
             from == Begun(s)
             b == Inverted(from, cs.undo)
             marked == [sets EXCEPT ![j].undoneBy = b.number]
             mark == ChangeSet(s, b, None, j)
  <2>3. /\ SameEpoch(spaces[s], cs) /\ Clean(spaces[s], cs) /\ Commits(s, b)
        /\ spaces' = [spaces EXCEPT ![s] = b.sp] /\ sets' = Append(marked, mark)
    BY <2>2 DEF ExecuteUndo
  <2>4. /\ s \in Spaces /\ cs.undo \in Undos(1 .. minted)
        /\ cs.undo.moves = <<>> \/ cs.undo.creates = <<>>
    BY <2>1, <2>2 DEF SetsHeld, SetHeld
  <2>5. mark.space = s /\ mark.inverseOf = j
    BY DEF ChangeSet
  <2>6. Fresh(from, s)
    BY <2>1, <2>3, <2>4, BegunFresh DEF Commits
  <2> HIDE DEF from
  <2>7. TypedSpace(spaces[s]) /\ GoodTree(spaces[s])
    BY <2>1, <2>4, SpaceHolds DEF Sound, LiveSpace
  <2>8. Undoing(spaces[s], cs, 1 .. from.minted)
    BY <2>3, <2>4, <2>6, <2>7 DEF Undoing, Fresh
  <2>9. Spared(spaces[s].nodes, cs, b.sp.nodes)
    <3>1. from.minted <= Cardinality(NodeIds) /\ Whole(from) /\ from.sp = spaces[s]
      BY <2>6 DEF Fresh
    <3> HIDE DEF cs, s
    <3>2. QED  BY <2>8, <3>1, InvertedSpares
  <2> HIDE DEF b, mark
  <2>10. spaces'[s] = b.sp
    BY <2>1, <2>3, <2>4 DEF SpacesHeld
  <2>11. DOMAIN marked = DOMAIN sets /\ \E S : marked \in Seq(S)
    <3>1. PICK S : sets \in Seq(S)
      BY <2>1 DEF SetsHeld
    <3> DEFINE T == {marked[k] : k \in DOMAIN sets}
    <3>2. DOMAIN marked = 1 .. Len(sets) /\ marked = [k \in DOMAIN marked |-> marked[k]]
          /\ Len(sets) \in Nat /\ DOMAIN sets = 1 .. Len(sets)
      BY <3>1
    <3>3. \A k \in 1 .. Len(sets) : marked[k] \in T
      BY <3>2
    <3> HIDE DEF marked, T
    <3>4. marked \in Seq(T)
      BY <3>2, <3>3, ListOf
    <3>5. QED  BY <3>2, <3>4
  <2> HIDE DEF marked
  <2>12. sets'[i] = mark
    <3>1. LongerBy(marked, sets', mark)
      BY <2>3, <2>11, Appended
    <3>2. QED  BY <2>11, <3>1 DEF LongerBy, NewSets
  <2> HIDE DEF cs, s
  <2>13. cs.epoch = spaces[s].epoch
    BY <2>3 DEF SameEpoch
  <2>14. sets'[i].space = s /\ sets[sets'[i].inverseOf] = cs
    BY <2>5, <2>12 DEF cs
  <2>15. QED  BY <2>9, <2>10, <2>13, <2>14 DEF Spared
<1>2. QED  BY <1>1, LibraryInvAlways, PTL DEF LibrarySpec, UndoSparesLaterWork

---------------------------------------------------------------------------
(* The walk of a subtree *)

\* The children of a node are listed by their positions, each of them once.
LEMMA KidsListed ==
    ASSUME NEW sp, TypedSpace(sp), DenseSiblings(sp), NEW p \in ParentRefs
    PROVE  LET kids == InOrder(sp.nodes, p)
           IN  /\ kids \in Seq(Children(sp.nodes, p))
               /\ \A m \in DOMAIN kids : sp.nodes[kids[m]].pos = m - 1
               /\ \A n \in Children(sp.nodes, p) : \E m \in DOMAIN kids : kids[m] = n
<1> DEFINE kids == Children(sp.nodes, p)
           nth(k) == CHOOSE n \in kids : Rank(sp.nodes, kids, n) = k - 1
           list == InOrder(sp.nodes, p)
<1>1. Numbered(sp.nodes, kids) /\ Dense(sp.nodes, kids)
  BY ChildrenNumbered DEF DenseSiblings
<1>2. Cardinality(kids) \in Nat
  BY <1>1, FS_CardinalityType DEF Numbered
<1>3. list = [k \in 1 .. Cardinality(kids) |-> nth(k)]
  BY DEF InOrder
<1> HIDE DEF kids, list
<1>4. \A n \in kids : Rank(sp.nodes, kids, n) = sp.nodes[n].pos
  BY <1>1, DenseRank
<1>5. ASSUME NEW k \in 1 .. Cardinality(kids)
      PROVE  nth(k) \in kids /\ sp.nodes[nth(k)].pos = k - 1
  <2>1. k - 1 \in 0 .. Cardinality(kids) - 1
    BY <1>2
  <2>2. \E n \in kids : Rank(sp.nodes, kids, n) = k - 1
    BY <1>1, <1>4, <2>1 DEF Dense
  <2>3. nth(k) \in kids /\ Rank(sp.nodes, kids, nth(k)) = k - 1
    BY <2>2
  <2> HIDE DEF nth
  <2>4. QED  BY <1>4, <2>3
<1> HIDE DEF nth
<1>6. DOMAIN list = 1 .. Cardinality(kids) /\ list \in Seq(kids)
  BY <1>2, <1>3, <1>5
<1>7. \A m \in DOMAIN list : sp.nodes[list[m]].pos = m - 1
  BY <1>3, <1>5
<1>8. ASSUME NEW n \in kids PROVE \E m \in DOMAIN list : list[m] = n
  <2>1. sp.nodes[n].pos \in 0 .. Cardinality(kids) - 1
    BY <1>1 DEF Dense
  <2>2. sp.nodes[n].pos + 1 \in DOMAIN list
    BY <1>2, <1>6, <2>1
  <2>3. list[sp.nodes[n].pos + 1] \in kids
        /\ sp.nodes[list[sp.nodes[n].pos + 1]].pos = sp.nodes[n].pos
    BY <1>2, <1>6, <1>7, <2>1, <2>2
  <2>4. Distinct(sp.nodes, kids)
    BY <1>1, DenseDistinct
  <2>5. list[sp.nodes[n].pos + 1] = n
    BY <2>3, <2>4 DEF Distinct
  <2>6. QED  BY <2>2, <2>5
<1>9. QED  BY <1>6, <1>7, <1>8 DEF kids, list

\* Breadth first, the list grows by the children of one node after the other.
Unrolled(nodes, root, seen) ==
    /\ BreadthFirst(nodes, root) = seen[Cardinality(DOMAIN nodes)]
    /\ seen[0] = <<root>>
    /\ \A k \in 1 .. Cardinality(DOMAIN nodes) :
           seen[k] = IF k > Len(seen[k - 1]) THEN seen[k - 1]
                     ELSE seen[k - 1] \o InOrder(nodes, seen[k - 1][k])

LEMMA BreadthSteps ==
    ASSUME NEW nodes, NEW root, Cardinality(DOMAIN nodes) \in Nat
    PROVE  \E seen : Unrolled(nodes, root, seen)
<1> DEFINE size == Cardinality(DOMAIN nodes)
           list == <<root>>
           run(last, k) == IF k > Len(last) THEN last ELSE last \o InOrder(nodes, last[k])
           Rec(g, n) == g = [k \in 0 .. n |-> IF k = 0 THEN list ELSE run(g[k - 1], k)]
           T == {n \in Nat : \E g : Rec(g, n)}
<1>1. 0 \in T
  <2>1. Rec([k \in 0 .. 0 |-> list], 0)
    OBVIOUS
  <2>2. QED  BY <2>1
<1>2. ASSUME NEW n \in Nat, n \in T PROVE n + 1 \in T
  <2>1. PICK g : Rec(g, n)
    BY <1>2
  <2> DEFINE h == [k \in 0 .. n + 1 |-> IF k = n + 1 THEN run(g[n], n + 1) ELSE g[k]]
  <2>2. ASSUME NEW k \in 0 .. n + 1
        PROVE  h[k] = IF k = 0 THEN list ELSE run(h[k - 1], k)
    <3> HIDE DEF run, list
    <3>1. CASE k = n + 1
      BY <3>1
    <3>2. CASE k \in 0 .. n
      BY <3>2, <2>1
    <3>3. QED  BY <3>1, <3>2
  <2>3. Rec(h, n + 1)
    <3> HIDE DEF run, list
    <3> QED BY <2>2
  <2> HIDE DEF h, run, list
  <2>4. QED  BY <2>3
<1>3. size \in T
  <2> HIDE DEF T
  <2> QED BY <1>1, <1>2, Induct
<1> DEFINE seen == CHOOSE g : Rec(g, size)
<1>4. Rec(seen, size)
  BY <1>3
<1>5. BreadthFirst(nodes, root) = seen[size]
  BY DEF BreadthFirst, Traversal
<1>6. seen[0] = list /\ \A k \in 1 .. size : seen[k] = run(seen[k - 1], k)
  <2> HIDE DEF seen, run, list
  <2> QED BY <1>4
<1> HIDE DEF seen
<1>7. Unrolled(nodes, root, seen)
  BY <1>5, <1>6 DEF Unrolled
<1>8. QED  BY <1>7

\* The list as far as the first k of it are expanded: but for the root, each node comes
\* after its parent, one of the k; the children of these are all there; and siblings
\* stand in their order.
Walked(nodes, list, k, root) ==
    /\ list \in Seq(DOMAIN nodes) /\ Len(list) >= 1 /\ list[1] = root
    /\ \A j \in 2 .. Len(list) :
           \E i \in 1 .. Len(list) : i <= k /\ i < j /\ list[i] = nodes[list[j]].parent
    /\ \A i \in 1 .. Len(list) : i <= k => Children(nodes, list[i]) \subseteq Range(list)
    /\ \A i, j \in 2 .. Len(list) :
           i < j /\ nodes[list[i]].parent = nodes[list[j]].parent =>
               nodes[list[i]].pos < nodes[list[j]].pos

\* One more node is expanded.
LEMMA WalkedOn ==
    ASSUME NEW sp, TypedSpace(sp), DenseSiblings(sp), NEW root, NEW k \in Nat, NEW list,
           Walked(sp.nodes, list, k, root), IsInjective(list), k + 1 <= Len(list)
    PROVE  Walked(sp.nodes, list \o InOrder(sp.nodes, list[k + 1]), k + 1, root)
<1> DEFINE p == list[k + 1]
           kids == InOrder(sp.nodes, p)
           longer == list \o kids
<1>1. /\ list \in Seq(DOMAIN sp.nodes) /\ p \in DOMAIN sp.nodes /\ Len(list) \in Nat
      /\ DOMAIN list = 1 .. Len(list)
  BY DEF Walked
<1>2. /\ kids \in Seq(Children(sp.nodes, p))
      /\ \A m \in DOMAIN kids : sp.nodes[kids[m]].pos = m - 1
      /\ \A n \in Children(sp.nodes, p) : \E m \in DOMAIN kids : kids[m] = n
  <2>1. p \in ParentRefs
    BY <1>1 DEF TypedSpace, IsSpace, ParentRefs
  <2> HIDE DEF p
  <2>2. QED  BY <2>1, KidsListed
<1>3. \A m \in DOMAIN kids : kids[m] \in DOMAIN sp.nodes /\ sp.nodes[kids[m]].parent = p
  BY <1>2 DEF Children
<1>4. kids \in Seq(DOMAIN sp.nodes) /\ Len(kids) \in Nat /\ DOMAIN kids = 1 .. Len(kids)
  BY <1>2, ListGrows DEF Children
<1> HIDE DEF kids, p
<1>5. /\ longer \in Seq(DOMAIN sp.nodes) /\ Len(longer) = Len(list) + Len(kids)
      /\ \A i \in 1 .. Len(list) : longer[i] = list[i]
      /\ \A m \in 1 .. Len(kids) : longer[Len(list) + m] = kids[m]
  BY <1>1, <1>4
<1>6. \A j \in 1 .. Len(longer) :
          j \in 1 .. Len(list) \/ \E m \in 1 .. Len(kids) : j = Len(list) + m
  <2> SUFFICES ASSUME NEW j \in 1 .. Len(longer), j \notin 1 .. Len(list)
               PROVE  \E m \in 1 .. Len(kids) : j = Len(list) + m
    OBVIOUS
  <2> HIDE DEF longer
  <2>1. j - Len(list) \in 1 .. Len(kids) /\ j = Len(list) + (j - Len(list))
    BY <1>1, <1>4, <1>5
  <2>2. QED  BY <2>1
<1> HIDE DEF longer
<1>7. longer[1] = root /\ Len(longer) >= 1
  BY <1>1, <1>4, <1>5 DEF Walked
<1>8. \A i \in 1 .. Len(list) : longer[i] \in Range(longer)
  BY <1>1, <1>4, <1>5 DEF Range
<1>9. Range(list) \subseteq Range(longer) /\ Children(sp.nodes, p) \subseteq Range(longer)
  <2>1. Range(list) \subseteq Range(longer)
    BY <1>1, <1>5, <1>8 DEF Range
  <2>2. ASSUME NEW n \in Children(sp.nodes, p) PROVE n \in Range(longer)
    <3>1. PICK m \in 1 .. Len(kids) : kids[m] = n
      BY <1>2, <1>4
    <3>2. Len(list) + m \in DOMAIN longer
      BY <1>1, <1>4, <1>5
    <3>3. QED  BY <1>5, <3>1, <3>2 DEF Range
  <2>3. QED  BY <2>1, <2>2
<1>10. ASSUME NEW i \in 1 .. Len(longer), i <= k + 1
       PROVE  Children(sp.nodes, longer[i]) \subseteq Range(longer)
  <2>1. i \in 1 .. Len(list) /\ longer[i] = list[i] /\ (i <= k \/ i = k + 1)
    BY <1>1, <1>5, <1>10
  <2>2. CASE i <= k
    BY <1>9, <2>1, <2>2 DEF Walked
  <2>3. CASE i = k + 1
    BY <1>9, <2>1, <2>3 DEF p
  <2>4. QED  BY <2>1, <2>2, <2>3
<1>11. ASSUME NEW j \in 2 .. Len(longer)
       PROVE  \E i \in 1 .. Len(longer) :
                  i <= k + 1 /\ i < j /\ longer[i] = sp.nodes[longer[j]].parent
  <2>1. CASE j \in 1 .. Len(list)
    <3>1. PICK i \in 1 .. Len(list) : i <= k /\ i < j /\ list[i] = sp.nodes[list[j]].parent
      BY <1>1, <1>11, <2>1 DEF Walked
    <3>2. i \in 1 .. Len(longer) /\ i <= k + 1 /\ longer[i] = list[i] /\ longer[j] = list[j]
      BY <1>1, <1>4, <1>5, <2>1, <3>1
    <3>3. QED  BY <3>1, <3>2
  <2>2. ASSUME NEW m \in 1 .. Len(kids), j = Len(list) + m
        PROVE  \E i \in 1 .. Len(longer) :
                  i <= k + 1 /\ i < j /\ longer[i] = sp.nodes[longer[j]].parent
    <3>1. longer[j] = kids[m] /\ sp.nodes[kids[m]].parent = p /\ k + 1 < j
          /\ k + 1 \in 1 .. Len(longer) /\ longer[k + 1] = p
      BY <1>1, <1>3, <1>4, <1>5, <2>2 DEF p
    <3>2. QED  BY <3>1
  <2>3. QED  BY <1>6, <2>1, <2>2
\* A child of the node expanded only now was not there before.
<1>12. \A i \in 2 .. Len(list) : sp.nodes[list[i]].parent # p
  <2>1. ASSUME NEW i \in 2 .. Len(list), sp.nodes[list[i]].parent = p PROVE FALSE
    <3>1. PICK h \in 1 .. Len(list) : h <= k /\ list[h] = list[k + 1]
      BY <2>1 DEF Walked, p
    <3>2. h = k + 1
      BY <1>1, <3>1 DEF IsInjective
    <3>3. QED  BY <1>1, <3>1, <3>2
  <2>2. QED  BY <2>1
<1>13. ASSUME NEW i \in 2 .. Len(longer), NEW j \in 2 .. Len(longer), i < j,
              sp.nodes[longer[i]].parent = sp.nodes[longer[j]].parent
       PROVE  sp.nodes[longer[i]].pos < sp.nodes[longer[j]].pos
  <2>1. CASE j \in 1 .. Len(list)
    <3>1. i \in 2 .. Len(list) /\ j \in 2 .. Len(list)
          /\ longer[i] = list[i] /\ longer[j] = list[j]
      BY <1>1, <1>5, <1>13, <2>1
    <3>2. QED  BY <1>13, <3>1 DEF Walked
  <2>2. ASSUME NEW m \in 1 .. Len(kids), j = Len(list) + m
        PROVE  sp.nodes[longer[i]].pos < sp.nodes[longer[j]].pos
    <3>1. longer[j] = kids[m] /\ sp.nodes[kids[m]].parent = p
      BY <1>3, <1>4, <1>5, <2>2
    <3>2. i \notin 1 .. Len(list)
      BY <1>1, <1>5, <1>12, <1>13, <3>1
    <3>3. PICK l \in 1 .. Len(kids) : i = Len(list) + l
      BY <1>6, <1>7, <3>2
    <3>4. longer[i] = kids[l] /\ l < m
      BY <1>1, <1>4, <1>5, <1>13, <2>2, <3>3
    <3>5. sp.nodes[kids[l]].pos = l - 1 /\ sp.nodes[kids[m]].pos = m - 1
      BY <1>2, <1>4
    <3>6. QED  BY <1>4, <3>1, <3>4, <3>5
  <2>3. QED  BY <1>6, <1>7, <2>1, <2>2
<1>14. Walked(sp.nodes, longer, k + 1, root)
  BY <1>5, <1>7, <1>10, <1>11, <1>13 DEF Walked
<1>15. QED  BY <1>14 DEF longer, kids, p

Starts(list, longer) ==
    Len(list) <= Len(longer) /\ \A i \in 1 .. Len(list) : longer[i] = list[i]

\* A walk that meets no node twice is over the subtree: what is below the root and
\* nothing else, each node after its parent and siblings in order.
LEMMA BreadthWalks ==
    ASSUME NEW sp, TypedSpace(sp), DenseSiblings(sp), NEW root \in DOMAIN sp.nodes,
           IsInjective(BreadthFirst(sp.nodes, root))
    PROVE  LET ids == BreadthFirst(sp.nodes, root)
           IN  Walked(sp.nodes, ids, Len(ids), root)
<1> DEFINE D == DOMAIN sp.nodes
           size == Cardinality(D)
           ids == BreadthFirst(sp.nodes, root)
<1>1. size \in Nat /\ IsFiniteSet(D)
  BY FS_CardinalityType DEF TypedSpace
<1>2. PICK seen : Unrolled(sp.nodes, root, seen)
  BY <1>1, BreadthSteps
<1>3. /\ ids = seen[size] /\ seen[0] = <<root>>
      /\ \A n \in Nat : n + 1 <= size =>
             seen[n + 1] = IF n + 1 > Len(seen[n]) THEN seen[n]
                           ELSE seen[n] \o InOrder(sp.nodes, seen[n][n + 1])
  <2>1. ASSUME NEW n \in Nat, n + 1 <= size
        PROVE  n + 1 \in 1 .. size /\ (n + 1) - 1 = n
    BY <1>1, <2>1
  <2>2. QED  BY <1>2, <2>1 DEF Unrolled
<1> HIDE DEF ids, size
<1> DEFINE L == {n \in Nat : n <= size => seen[n] \in Seq(D)}
<1>4. Nat \subseteq L
  <2>1. 0 \in L
    <3>1. <<root>> \in Seq(D)
      BY OneLongList
    <3>2. QED  BY <1>3, <3>1
  <2>2. ASSUME NEW n \in Nat, n \in L PROVE n + 1 \in L
    <3>1. SUFFICES ASSUME n + 1 <= size PROVE seen[n + 1] \in Seq(D)
      OBVIOUS
    <3>2. seen[n] \in Seq(D)
      BY <1>1, <2>2, <3>1
    <3>3. CASE n + 1 > Len(seen[n])
      BY <1>3, <3>1, <3>2, <3>3
    <3>4. CASE ~(n + 1 > Len(seen[n]))
      <4>1. seen[n][n + 1] \in ParentRefs
        BY <3>2, <3>4 DEF TypedSpace, IsSpace, ParentRefs
      <4>2. InOrder(sp.nodes, seen[n][n + 1]) \in Seq(D)
        BY <4>1, InOrderLists
      <4>3. seen[n + 1] = seen[n] \o InOrder(sp.nodes, seen[n][n + 1])
        BY <1>3, <3>1, <3>4
      <4> DEFINE kids == InOrder(sp.nodes, seen[n][n + 1])
      <4> HIDE DEF kids, D
      <4>4. QED  BY <3>2, <4>2, <4>3 DEF kids
    <3>5. QED  BY <3>3, <3>4
  <2> HIDE DEF L
  <2>3. QED  BY <2>1, <2>2, Induct
<1>5. \A n \in Nat : n <= size => seen[n] \in Seq(D) /\ Len(seen[n]) \in Nat
  BY <1>4
<1>6. ASSUME NEW n \in Nat, n + 1 <= size
      PROVE  Starts(seen[n], seen[n + 1])
  <2>1. seen[n] \in Seq(D) /\ seen[n + 1] \in Seq(D)
    BY <1>1, <1>5, <1>6
  <2>2. CASE n + 1 > Len(seen[n])
    BY <1>3, <1>6, <2>1, <2>2 DEF Starts
  <2>3. CASE ~(n + 1 > Len(seen[n]))
    <3> DEFINE kids == InOrder(sp.nodes, seen[n][n + 1])
    <3>1. seen[n][n + 1] \in ParentRefs
      BY <2>1, <2>3 DEF TypedSpace, IsSpace, ParentRefs
    <3>2. kids \in Seq(D) /\ seen[n + 1] = seen[n] \o kids
      BY <1>3, <1>6, <2>3, <3>1, InOrderLists
    <3> HIDE DEF kids
    <3>3. QED  BY <2>1, <3>2 DEF Starts
  <2>4. QED  BY <2>2, <2>3
<1>7. ASSUME NEW n \in Nat, n <= size PROVE Starts(seen[n], ids)
  <2> DEFINE U == {m \in Nat : n + m <= size => Starts(seen[n], seen[n + m])}
  <2>1. 0 \in U
    BY <1>5, <1>7 DEF Starts
  <2>2. ASSUME NEW m \in Nat, m \in U PROVE m + 1 \in U
    <3>1. SUFFICES ASSUME n + (m + 1) <= size PROVE Starts(seen[n], seen[n + (m + 1)])
      OBVIOUS
    <3>2. n + m \in Nat /\ n + (m + 1) = (n + m) + 1 /\ n + m <= size
      BY <1>1, <3>1
    <3>3. Starts(seen[n], seen[n + m]) /\ Starts(seen[n + m], seen[(n + m) + 1])
      BY <1>6, <2>2, <3>1, <3>2
    <3>4. Len(seen[n]) \in Nat /\ Len(seen[n + m]) \in Nat /\ Len(seen[(n + m) + 1]) \in Nat
      BY <1>1, <1>5, <3>1, <3>2
    <3>5. QED  BY <3>2, <3>3, <3>4 DEF Starts
  <2>3. Nat \subseteq U
    <3> HIDE DEF U
    <3> QED BY <2>1, <2>2, Induct
  <2>4. size - n \in Nat /\ n + (size - n) = size
    BY <1>1, <1>7
  <2>5. size - n \in U
    BY <2>3, <2>4
  <2>6. Starts(seen[n], seen[n + (size - n)])
    BY <1>1, <2>4, <2>5
  <2>7. QED  BY <1>3, <2>4, <2>6
<1>8. ids \in Seq(D) /\ IsInjective(ids) /\ DOMAIN ids = 1 .. Len(ids) /\ Len(ids) \in Nat
  BY <1>1, <1>3, <1>5 DEF ids
<1>9. ASSUME NEW n \in Nat, n <= size PROVE IsInjective(seen[n])
  <2>1. Starts(seen[n], ids) /\ seen[n] \in Seq(D)
    BY <1>5, <1>7, <1>9
  <2>2. QED  BY <1>8, <2>1 DEF Starts, IsInjective
<1> DEFINE W == {n \in Nat : n <= size => Walked(sp.nodes, seen[n], n, root)}
<1>10. 0 \in W
  <2>1. <<root>> \in Seq(D)
    BY OneLongList
  <2>2. seen[0] \in Seq(D) /\ Len(seen[0]) = 1 /\ seen[0][1] = root
    BY <1>3, <2>1
  <2>3. 2 .. Len(seen[0]) = {} /\ \A i \in 1 .. Len(seen[0]) : ~(i <= 0)
    BY <2>2
  <2>4. Walked(sp.nodes, seen[0], 0, root)
    BY <2>2, <2>3 DEF Walked
  <2>5. QED  BY <2>4
<1>11. ASSUME NEW n \in Nat, n \in W PROVE n + 1 \in W
  <2>1. SUFFICES ASSUME n + 1 <= size PROVE Walked(sp.nodes, seen[n + 1], n + 1, root)
    OBVIOUS
  <2>2. Walked(sp.nodes, seen[n], n, root) /\ IsInjective(seen[n]) /\ Len(seen[n]) \in Nat
    BY <1>1, <1>5, <1>9, <1>11, <2>1
  <2>3. CASE n + 1 > Len(seen[n])
    <3>1. seen[n + 1] = seen[n]
      BY <1>3, <2>1, <2>3
    <3>2. \A i \in 1 .. Len(seen[n]) : i <= n
      BY <2>2, <2>3
    <3>3. Walked(sp.nodes, seen[n], n + 1, root)
      <4> DEFINE list == seen[n]
      <4> HIDE DEF list
      <4>1. /\ Walked(sp.nodes, list, n, root) /\ \A i \in 1 .. Len(list) : i <= n /\ i <= n + 1
        BY <2>2, <3>2 DEF list
      <4>2. \A j \in 2 .. Len(list) :
               \E i \in 1 .. Len(list) : i <= n + 1 /\ i < j /\ list[i] = sp.nodes[list[j]].parent
        BY <4>1 DEF Walked
      <4>3. QED  BY <4>1, <4>2 DEF Walked, list
    <3>4. QED  BY <3>1, <3>3
  <2>4. CASE ~(n + 1 > Len(seen[n]))
    <3>1. seen[n + 1] = seen[n] \o InOrder(sp.nodes, seen[n][n + 1])
      BY <1>3, <2>1, <2>4
    <3>2. n + 1 <= Len(seen[n])
      BY <2>2, <2>4
    <3>3. QED  BY <2>2, <3>1, <3>2, WalkedOn
  <2>5. QED  BY <2>3, <2>4
<1>12. Walked(sp.nodes, ids, size, root)
  <2> HIDE DEF W
  <2>1. size \in W
    BY <1>1, <1>10, <1>11, Induct
  <2>2. QED  BY <1>1, <1>3, <2>1 DEF W
<1>13. Len(ids) <= size
  <2>1. ids \in [1 .. Len(ids) -> D]
    BY <1>8
  <2>2. IsFiniteSet(1 .. Len(ids)) /\ Cardinality(1 .. Len(ids)) = Len(ids)
    <3>1. 1 \in Int /\ Len(ids) \in Int
      BY <1>8
    <3>2. IsFiniteSet(1 .. Len(ids))
          /\ Cardinality(1 .. Len(ids)) = IF 1 > Len(ids) THEN 0 ELSE Len(ids) - 1 + 1
      BY <3>1, FS_Interval
    <3>3. QED  BY <1>8, <3>2
  <2>3. ids \in Injection(1 .. Len(ids), D)
    BY <1>8, <2>1 DEF Injection, IsInjective
  <2>4. QED  BY <1>1, <2>2, <2>3, FS_Injection DEF size
<1>14. Walked(sp.nodes, ids, Len(ids), root)
  BY <1>1, <1>8, <1>12, <1>13 DEF Walked
<1>15. QED  BY <1>14 DEF ids

\* A list that is a walk below a folder names the whole subtree, and nothing else.
LEMMA WalkCovers ==
    ASSUME NEW sp, TypedSpace(sp), NEW root \in DOMAIN sp.nodes, NEW ids,
           Walked(sp.nodes, ids, Len(ids), root)
    PROVE  Range(ids) = SubtreeIDs(sp.nodes, root)
<1>1. /\ ids \in Seq(DOMAIN sp.nodes) /\ Len(ids) \in Nat /\ DOMAIN ids = 1 .. Len(ids)
      /\ Len(ids) >= 1 /\ ids[1] = root
  BY DEF Walked
<1> DEFINE Sub == SubtreeIDs(sp.nodes, root)
           U == {m \in Nat : \A j \in 1 .. Len(ids) : j <= m => ids[j] \in Sub}
<1>2. 0 \in U
  OBVIOUS
<1>3. ASSUME NEW m \in Nat, m \in U PROVE m + 1 \in U
  <2>1. SUFFICES ASSUME NEW j \in 1 .. Len(ids), j <= m + 1 PROVE ids[j] \in Sub
    OBVIOUS
  <2>2. CASE j = 1
    BY <1>1, <2>2, SubtreeTop
  <2>3. CASE j # 1
    <3>1. PICK i \in 1 .. Len(ids) : i < j /\ ids[i] = sp.nodes[ids[j]].parent
      BY <1>1, <2>1, <2>3 DEF Walked
    <3>2. ids[i] \in Sub
      BY <1>1, <1>3, <2>1, <3>1
    <3>3. ids[j] \in DOMAIN sp.nodes
      BY <1>1
    <3>4. QED  BY <3>1, <3>2, <3>3, SubtreeHolds
  <2>4. QED  BY <2>2, <2>3
<1>4. Range(ids) \subseteq Sub
  <2>1. Nat \subseteq U
    <3> HIDE DEF U
    <3> QED BY <1>2, <1>3, Induct
  <2>2. \A j \in 1 .. Len(ids) : ids[j] \in Sub
    BY <1>1, <2>1
  <2> HIDE DEF Sub
  <2>3. QED  BY <1>1, <2>2 DEF Range
<1>5. ASSUME NEW n \in Sub, n \notin Range(ids) PROVE FALSE
  <2> DEFINE rest == DOMAIN sp.nodes \ Range(ids)
  <2>1. UpClosed(sp.nodes, rest)
    <3>1. ASSUME NEW c \in rest, sp.nodes[c].parent \in Range(ids) PROVE FALSE
      <4>1. PICK i \in 1 .. Len(ids) : ids[i] = sp.nodes[c].parent
        BY <1>1, <3>1 DEF Range
      <4>2. c \in Children(sp.nodes, ids[i])
        BY <4>1 DEF Children
      <4>3. c \in Range(ids)
        BY <1>1, <4>2 DEF Walked
      <4>4. QED  BY <4>3
    <3>2. QED  BY <3>1 DEF UpClosed
  <2>2. n \in rest /\ root \in AncestorsOrSelf(sp.nodes, n)
    BY <1>5 DEF SubtreeIDs
  <2>3. root \in rest
    <3>1. rest \in SUBSET DOMAIN sp.nodes
      OBVIOUS
    <3> HIDE DEF rest
    <3>2. QED  BY <2>1, <2>2, <3>1 DEF AncestorsOrSelf
  <2>4. root \in Range(ids)
    BY <1>1 DEF Range
  <2>5. QED  BY <2>3, <2>4
<1>6. QED  BY <1>4, <1>5

---------------------------------------------------------------------------
(* Transfer: the copies *)

SameContent(x, y) == x.type = y.type /\ x.title = y.title /\ x.url = y.url /\ x.parent = y.parent

\* What a creation writes: its node as it is asked for, and nothing into the other rows but
\* positions; at the end of the siblings it moves none of them.
Creation(nodes, after, c) ==
    /\ c.node \notin DOMAIN nodes /\ DOMAIN after = DOMAIN nodes \cup {c.node}
    /\ SameContent(c, after[c.node])
    /\ \A n \in DOMAIN nodes : SameContent(nodes[n], after[n])
    /\ c.before = None =>
           \A n \in DOMAIN nodes :
               /\ after[n].pos = nodes[n].pos
               /\ nodes[n].parent = c.parent => nodes[n].pos < after[c.node].pos

LEMMA CreateWrites ==
    ASSUME NEW sp, TypedSpace(sp), DenseSiblings(sp), NEW c, NEW origin, CanCreate(sp, c)
    PROVE  Creation(sp.nodes, CreateNode(sp, c, origin).nodes, c)
<1> DEFINE kids  == Children(sp.nodes, c.parent)
           idx   == PlanInsert(sp.nodes, kids, c.before)
           shifted == SetSiblingPositions(sp.nodes, PushedBack(sp.nodes, kids, idx))
           node  == [type |-> c.type, title |-> c.title, url |-> c.url,
                     parent |-> c.parent, pos |-> idx, createdRev |-> sp.rev + 1,
                     titleRev |-> sp.rev + 1, urlRev |-> sp.rev + 1, structRev |-> sp.rev + 1]
           nodes == [n \in DOMAIN shifted \cup {c.node} |-> IF n = c.node THEN node ELSE shifted[n]]
           row == Row("create", c.node, [type |-> c.type, title |-> c.title, url |-> c.url,
                                         parent |-> c.parent, position |-> idx], origin)
           after == CreateNode(sp, c, origin).nodes
<1>1. /\ c.node \notin DOMAIN sp.nodes /\ c.parent \in ParentRefs
      /\ \A n \in DOMAIN sp.nodes : sp.nodes[n] \in Nodes
  BY DEF CanCreate, ValidParent, TypedSpace, IsSpace, ParentRefs
<1>2. Numbered(sp.nodes, kids) /\ Dense(sp.nodes, kids)
  BY <1>1, ChildrenNumbered DEF DenseSiblings
<1>3. /\ DOMAIN shifted = DOMAIN sp.nodes
      /\ \A n \in DOMAIN sp.nodes :
             /\ SameFields(sp.nodes[n], shifted[n])
             /\ shifted[n].pos = IF n \in kids /\ Rank(sp.nodes, kids, n) >= idx
                               THEN Rank(sp.nodes, kids, n) + 1 ELSE sp.nodes[n].pos
  <2>1. /\ DOMAIN PushedBack(sp.nodes, kids, idx) = {m \in kids : Rank(sp.nodes, kids, m) >= idx}
        /\ \A n \in DOMAIN PushedBack(sp.nodes, kids, idx) :
               PushedBack(sp.nodes, kids, idx)[n] = Rank(sp.nodes, kids, n) + 1
    BY DEF PushedBack
  <2> HIDE DEF kids, idx
  <2>2. QED  BY <1>1, <2>1, PositionsSet
<1>4. after = nodes
  <2>1. DOMAIN Journaled(sp, row) = {"epoch", "rev", "floor", "slots", "nodes", "tomb", "journal"}
    BY DEF Journaled, TypedSpace, IsSpace
  <2>2. CreateNode(sp, c, origin) = [Journaled(sp, row) EXCEPT !.nodes = nodes]
    BY Zenon DEF CreateNode
  <2> HIDE DEF nodes, row
  <2>3. QED  BY <2>1, <2>2
<1>5. /\ DOMAIN after = DOMAIN sp.nodes \cup {c.node} /\ after[c.node] = node
      /\ \A n \in DOMAIN sp.nodes : after[n] = shifted[n]
  BY <1>1, <1>3, <1>4
<1>6. SameContent(c, after[c.node]) /\ after[c.node].pos = idx
  BY <1>5 DEF SameContent
<1> HIDE DEF after, nodes, shifted, row
<1>7. ASSUME NEW n \in DOMAIN sp.nodes PROVE SameContent(sp.nodes[n], after[n])
  BY <1>3, <1>5 DEF SameContent, SameFields, Fields
<1>8. ASSUME c.before = None, NEW n \in DOMAIN sp.nodes
      PROVE  /\ after[n].pos = sp.nodes[n].pos
             /\ sp.nodes[n].parent = c.parent => sp.nodes[n].pos < after[c.node].pos
  <2>1. idx = Cardinality(kids) /\ idx \in Nat
    BY <1>2, <1>8, FS_CardinalityType DEF PlanInsert, Numbered
  <2>2. n \in kids <=> sp.nodes[n].parent = c.parent
    BY DEF Children
  <2> HIDE DEF idx, kids
  <2>3. n \in kids => Rank(sp.nodes, kids, n) = sp.nodes[n].pos /\ sp.nodes[n].pos \in 0 .. idx - 1
    BY <1>2, <2>1, DenseRank DEF Dense
  <2>4. QED  BY <1>3, <1>5, <1>6, <2>1, <2>2, <2>3
<1>9. QED  BY <1>1, <1>5, <1>6, <1>7, <1>8 DEF Creation, after

\* The first k of a list of creations: their nodes are there, all new and all different.
\* If all but the very first go to the end, those of one parent stand in the list's order.
AllMade(nodes, after, commands, k) ==
    /\ DOMAIN after = DOMAIN nodes \cup {commands[j].node : j \in 1 .. k}
    /\ \A j \in 1 .. k : /\ commands[j].node \notin DOMAIN nodes
                         /\ SameContent(commands[j], after[commands[j].node])
    /\ \A n \in DOMAIN nodes : SameContent(nodes[n], after[n])
    /\ \A i, j \in 1 .. k : i < j => commands[i].node # commands[j].node
    /\ (\A j \in 2 .. k : commands[j].before = None) =>
           \A i, j \in 2 .. k : i < j /\ commands[i].parent = commands[j].parent =>
               after[commands[i].node].pos < after[commands[j].node].pos

LEMMA OneMoreCreation ==
    ASSUME NEW nodes, NEW commands, NEW k \in Nat, NEW then, NEW after,
           AllMade(nodes, then, commands, k), Creation(then, after, commands[k + 1])
    PROVE  AllMade(nodes, after, commands, k + 1)
<1> DEFINE c == commands[k + 1]
           at(j) == commands[j].node
<1>1. \A j \in 1 .. k + 1 : j \in 1 .. k \/ j = k + 1
  OBVIOUS
<1>2. \A j \in 1 .. k : at(j) \in DOMAIN then /\ at(j) # at(k + 1)
  BY DEF AllMade, Creation
<1>3. DOMAIN after = DOMAIN nodes \cup {at(j) : j \in 1 .. k + 1}
  <2>1. {at(j) : j \in 1 .. k + 1} = {at(j) : j \in 1 .. k} \cup {at(k + 1)}
    BY <1>1
  <2>2. DOMAIN after = (DOMAIN nodes \cup {at(j) : j \in 1 .. k}) \cup {at(k + 1)}
    BY DEF AllMade, Creation
  <2> HIDE DEF at
  <2>3. QED  BY <2>1, <2>2
<1>4. \A n \in DOMAIN nodes : SameContent(nodes[n], after[n])
  BY DEF AllMade, Creation, SameContent
<1>5. ASSUME NEW j \in 1 .. k + 1
      PROVE  at(j) \notin DOMAIN nodes /\ SameContent(commands[j], after[at(j)])
  <2>1. CASE j \in 1 .. k
    BY <1>2, <2>1 DEF AllMade, Creation, SameContent
  <2>2. CASE j = k + 1
    BY <2>2 DEF AllMade, Creation
  <2>3. QED  BY <1>1, <2>1, <2>2
<1>6. \A i, j \in 1 .. k + 1 : i < j => at(i) # at(j)
  BY <1>1, <1>2 DEF AllMade
<1>7. ASSUME \A j \in 2 .. k + 1 : commands[j].before = None,
             NEW i \in 2 .. k + 1, NEW j \in 2 .. k + 1, i < j,
             commands[i].parent = commands[j].parent
      PROVE  after[at(i)].pos < after[at(j)].pos
  <2>1. c.before = None /\ i \in 2 .. k /\ i \in 1 .. k
        /\ \A l \in 2 .. k : commands[l].before = None
    BY <1>7
  <2>2. after[at(i)].pos = then[at(i)].pos /\ SameContent(commands[i], then[at(i)])
    BY <1>2, <2>1 DEF AllMade, Creation
  <2>3. CASE j \in 2 .. k
    <3>1. after[at(j)].pos = then[at(j)].pos
      BY <1>2, <2>1, <2>3 DEF Creation
    <3>2. then[at(i)].pos < then[at(j)].pos
      BY <1>7, <2>1, <2>3 DEF AllMade
    <3>3. QED  BY <2>2, <3>1, <3>2
  <2>4. CASE j = k + 1
    <3>1. then[at(i)].parent = c.parent
      BY <1>7, <2>2, <2>4 DEF SameContent
    <3>2. QED  BY <1>2, <2>1, <2>2, <2>4, <3>1 DEF Creation
  <2>5. QED  BY <2>3, <2>4
<1>8. QED  BY <1>3, <1>4, <1>5, <1>6, <1>7 DEF AllMade

\* A batch of creations that goes through has made them all.
LEMMA AllCreated ==
    ASSUME NEW b, NEW ids, Batch(b, ids), NEW commands, Len(commands) \in Nat,
           \A k \in 1 .. Len(commands) :
               Asked(commands[k]) /\ commands[k].op = "create" /\ commands[k].node \in ids,
           ApplyAll(b, commands).ok
    PROVE  AllMade(b.sp.nodes, ApplyAll(b, commands).sp.nodes, commands, Len(commands))
<1> DEFINE size == Len(commands)
           nodes == b.sp.nodes
<1>1. PICK done : /\ ApplyAll(b, commands) = done[size] /\ done[0] = b
                  /\ \A k \in 1 .. size : done[k] = Apply(done[k - 1], commands[k])
  BY ApplyAllSteps
<1>2. \A n \in Nat : n + 1 <= size =>
          /\ n + 1 \in 1 .. size /\ done[n + 1] = Apply(done[n], commands[n + 1])
  <2>1. ASSUME NEW n \in Nat, n + 1 <= size
        PROVE  n + 1 \in 1 .. size /\ (n + 1) - 1 = n
    BY <2>1
  <2>2. QED  BY <1>1, <2>1
<1> DEFINE B == {n \in Nat : n <= size => Batch(done[n], ids)}
<1>3. Nat \subseteq B
  <2>1. 0 \in B
    BY <1>1
  <2>2. ASSUME NEW n \in Nat, n \in B PROVE n + 1 \in B
    <3>1. SUFFICES ASSUME n + 1 <= size PROVE Batch(done[n + 1], ids)
      OBVIOUS
    <3>2. Batch(done[n], ids) /\ n + 1 \in 1 .. size
      BY <1>2, <2>2, <3>1
    <3> DEFINE a == done[n]
               c == commands[n + 1]
    <3>3. Asked(c) /\ Added(c) \subseteq ids
      BY <3>2 DEF Added
    <3>4. done[n + 1] = Apply(a, c) /\ Batch(a, ids)
      BY <1>2, <3>1, <3>2
    <3> HIDE DEF a, c
    <3>5. QED  BY <3>3, <3>4, ApplyKeeps
  <2> HIDE DEF B
  <2>3. QED  BY <2>1, <2>2, Induct
<1>4. ASSUME NEW n \in Nat, n + 1 <= size, done[n + 1].ok
      PROVE  done[n].ok /\ CanExecute(done[n].sp, commands[n + 1])
  <2>1. Batch(done[n], ids) /\ done[n + 1] = Apply(done[n], commands[n + 1])
    BY <1>2, <1>3, <1>4
  <2>2. QED  BY <1>4, <2>1 DEF Batch, Apply
<1> DEFINE O == {m \in Nat : m <= size => done[size - m].ok}
<1>5. Nat \subseteq O
  <2>1. 0 \in O
    BY <1>1
  <2>2. ASSUME NEW m \in Nat, m \in O PROVE m + 1 \in O
    <3>1. SUFFICES ASSUME m + 1 <= size PROVE done[size - (m + 1)].ok
      OBVIOUS
    <3>2. size - (m + 1) \in Nat /\ (size - (m + 1)) + 1 = size - m /\ size - m <= size
      BY <3>1
    <3>3. done[size - m].ok
      BY <2>2, <3>1
    <3>4. QED  BY <1>4, <3>2, <3>3
  <2> HIDE DEF O
  <2>3. QED  BY <2>1, <2>2, Induct
<1>6. ASSUME NEW n \in Nat, n <= size PROVE done[n].ok
  <2>1. size - n \in O /\ size - n <= size /\ size - (size - n) = n
    BY <1>5, <1>6
  <2>2. QED  BY <2>1
<1> DEFINE C == {n \in Nat : n <= size => AllMade(nodes, done[n].sp.nodes, commands, n)}
<1>7. 0 \in C
  <2>1. 1 .. 0 = {} /\ 2 .. 0 = {}
    OBVIOUS
  <2>2. QED  BY <1>1, <2>1 DEF AllMade, SameContent
<1>8. ASSUME NEW n \in Nat, n \in C PROVE n + 1 \in C
  <2>1. SUFFICES ASSUME n + 1 <= size
                 PROVE  AllMade(nodes, done[n + 1].sp.nodes, commands, n + 1)
    OBVIOUS
  <2> DEFINE a == done[n]
             c == commands[n + 1]
             then == a.sp.nodes
             after == done[n + 1].sp.nodes
  <2>2. /\ AllMade(nodes, then, commands, n) /\ Batch(a, ids)
        /\ a.ok /\ CanExecute(a.sp, c) /\ done[n + 1] = Apply(a, c)
        /\ c.op = "create"
    BY <1>2, <1>3, <1>4, <1>6, <1>8, <2>1
  <2>3. done[n + 1].sp = CreateNode(a.sp, c, a.number) /\ CanCreate(a.sp, c)
    BY <2>2 DEF Apply, Batch, Execute, CanExecute
  <2>4. TypedSpace(a.sp) /\ DenseSiblings(a.sp)
    BY <2>2 DEF Batch, Sound, LiveSpace, LiveRows
  <2>5. Creation(then, after, c)
    BY <2>3, <2>4, CreateWrites
  <2> HIDE DEF then, after
  <2>6. AllMade(nodes, after, commands, n + 1)
    BY <2>2, <2>5, OneMoreCreation
  <2>7. QED  BY <2>6 DEF after
<1>9. size \in C
  <2> HIDE DEF C
  <2> QED BY <1>7, <1>8, Induct
<1>10. QED  BY <1>1, <1>9

\* What a copy conserves: at is where each node of the subtree has gone.
Conserved(src, root, at, target, old, new) ==
    LET Content(node) == <<node.type, node.title, node.url>>
    IN  /\ DOMAIN at = SubtreeIDs(src, root)
        /\ DOMAIN new = DOMAIN old \cup Range(at)
        /\ DOMAIN old \cap Range(at) = {}
        /\ IsInjective(at)
        /\ \A n \in DOMAIN at :
              /\ Content(new[at[n]]) = Content(src[n])
              /\ new[at[n]].parent = IF n = root THEN target ELSE at[src[n].parent]
              /\ \A k \in DOMAIN at \ {root} : n # root /\ src[k].parent = src[n].parent =>
                    (src[k].pos < src[n].pos <=> new[at[k]].pos < new[at[n]].pos)
        /\ \A n \in DOMAIN old : Contents(new)[n] = Contents(old)[n]

LEMMA CopyConserves ==
    ASSUME NEW b, Whole(b), NEW sp, TypedSpace(sp), DenseSiblings(sp),
           NEW root \in DOMAIN sp.nodes, NEW target, NEW before,
           CopySubtree(b, sp.nodes, root, target, before).ok,
           CopySubtree(b, sp.nodes, root, target, before).minted <= Cardinality(NodeIds)
    PROVE  LET ids == BreadthFirst(sp.nodes, root)
           IN  Conserved(sp.nodes, root, [m \in Range(ids) |-> FreshFor(b, ids, m)], target,
                         b.sp.nodes, CopySubtree(b, sp.nodes, root, target, before).sp.nodes)
<1> DEFINE ids == CopyOrder(sp.nodes, root)
           Copy(n) == NewNode(FreshFor(b, ids, n), sp.nodes[n],
                              IF n = root THEN target ELSE FreshFor(b, ids, sp.nodes[n].parent),
                              IF n = root THEN before ELSE None)
           commands == [k \in DOMAIN ids |-> Copy(ids[k])]
           done == ApplyAll(b, commands)
           a == CopySubtree(b, sp.nodes, root, target, before)
           top == b.minted + Len(ids)
           at == [m \in Range(ids) |-> FreshFor(b, ids, m)]
           src == sp.nodes
           old == b.sp.nodes
           new == done.sp.nodes
<1>1. ids \in Seq(DOMAIN sp.nodes)
  <2>1. <<root>> \in Seq(DOMAIN sp.nodes)
    BY OneLongList
  <2>2. QED  BY <2>1, TraversalVisits DEF CopyOrder, BreadthFirst
<1>2. Len(ids) \in Nat /\ DOMAIN ids = 1 .. Len(ids) /\ b.minted \in Nat /\ Shaped(b)
  BY <1>1 DEF Whole
<1>3. a = [done EXCEPT !.minted = @ + Len(ids)]
  BY DEF CopySubtree
<1>4. ASSUME NEW k \in 1 .. Len(ids)
      PROVE  /\ commands[k].op = "create" /\ commands[k].node = at[ids[k]]
             /\ commands[k].type = src[ids[k]].type /\ commands[k].title = src[ids[k]].title
             /\ commands[k].url = src[ids[k]].url
             /\ commands[k].parent = IF ids[k] = root THEN target
                                     ELSE FreshFor(b, ids, src[ids[k]].parent)
             /\ ids[k] # root => commands[k].before = None
  <2>1. commands[k] = Copy(ids[k]) /\ ids[k] \in Range(ids)
    BY <1>2 DEF Range
  <2> HIDE DEF commands, ids
  <2>2. at[ids[k]] = FreshFor(b, ids, ids[k])
    BY <2>1
  <2> HIDE DEF at
  <2>3. QED  BY <2>1, <2>2 DEF NewNode
<1>5. ASSUME NEW m \in Range(ids)
      PROVE  \E k \in 1 .. Len(ids) : ids[k] = m /\ at[m] = b.minted + k
  <2>1. at[m] = b.minted + (CHOOSE k \in DOMAIN ids : ids[k] = m)
    BY DEF FreshFor
  <2>2. \E k \in DOMAIN ids : ids[k] = m
    BY DEF Range
  <2> HIDE DEF at, ids
  <2>3. QED  BY <1>2, <2>1, <2>2
<1>6. DOMAIN at = Range(ids) /\ \A m \in Range(ids) : at[m] = FreshFor(b, ids, m)
  OBVIOUS
<1>7. DOMAIN commands = 1 .. Len(ids) /\ commands = [k \in DOMAIN commands |-> commands[k]]
  BY <1>2
<1> HIDE DEF ids, commands, a, at
<1>8. Len(commands) = Len(ids)
  BY <1>2, <1>7, LengthOf
<1>9. Follows(b, done, FALSE)
  <2>1. \A k \in 1 .. Len(commands) : commands[k].op \in Operations /\ commands[k].op # "move"
    BY <1>4, <1>8 DEF Operations
  <2>2. QED  BY <1>2, <1>8, <2>1, ApplyAllShape
<1> HIDE DEF done
<1>10. a.minted = top /\ a.sp = done.sp /\ a.ok = done.ok
  BY <1>2, <1>3, <1>9 DEF Follows, Shaped
<1>11. top <= Cardinality(NodeIds) /\ top \in Nat /\ done.ok
  BY <1>2, <1>10 DEF a
<1>12. /\ 1 .. top \subseteq NodeIds /\ Batch(b, 1 .. top) /\ DOMAIN old \subseteq 1 .. b.minted
       /\ b.minted <= Cardinality(NodeIds)
  <2>1. 1 .. top \subseteq NodeIds /\ 1 .. b.minted \subseteq 1 .. top
        /\ b.minted <= Cardinality(NodeIds)
    <3>1. 1 .. top \subseteq NodeIds
      BY <1>11, HandedOut
    <3>2. Cardinality(NodeIds) \in Nat
      BY IdsAreNumbers, FS_CardinalityType
    <3>3. QED  BY <1>2, <1>11, <3>1, <3>2
  <2>2. Batch(b, 1 .. b.minted)
    BY <2>1 DEF Whole
  <2> HIDE DEF top
  <2>3. Batch(b, 1 .. top)
    BY <2>1, <2>2, BatchGrows
  <2>4. DOMAIN old \subseteq 1 .. b.minted
    BY <2>2 DEF Batch, Known
  <2>5. QED  BY <2>1, <2>3, <2>4
<1>13. \A m \in Range(ids) : at[m] \in 1 .. top /\ at[m] \notin DOMAIN old
  BY <1>2, <1>5, <1>12
<1>14. \A k \in 1 .. Len(ids) : ids[k] \in Range(ids) /\ ids[k] \in DOMAIN src
  BY <1>1, <1>2 DEF Range
<1>15. AllMade(old, new, commands, Len(ids))
  <2>1. ASSUME NEW k \in 1 .. Len(commands)
        PROVE  /\ Asked(commands[k]) /\ commands[k].op = "create"
               /\ commands[k].node \in 1 .. top
    <3>1. /\ src[ids[k]].type \in NodeType /\ src[ids[k]].title \in Titles
          /\ src[ids[k]].url \in Urls \cup {None}
      BY <1>8, <1>14 DEF TypedSpace, IsSpace, Nodes
    <3>2. at[ids[k]] \in 1 .. top
      BY <1>8, <1>13, <1>14
    <3> HIDE DEF top
    <3>3. QED  BY <1>4, <1>8, <1>12, <3>1, <3>2 DEF Asked
  <2> HIDE DEF top
  <2>2. QED  BY <1>2, <1>8, <1>11, <1>12, <2>1, AllCreated DEF done
<1>16. \A i, j \in 1 .. Len(ids) : ids[i] = ids[j] => i = j
  <2>1. \A i, j \in 1 .. Len(ids) : i < j => commands[i].node # commands[j].node
    BY <1>15 DEF AllMade
  <2>2. \A i, j \in 1 .. Len(ids) : i < j => ids[i] # ids[j]
    BY <1>4, <2>1
  <2>3. QED  BY <1>2, <2>2
<1>17. Walked(src, ids, Len(ids), root) /\ ids = BreadthFirst(src, root)
  <2>1. ids = BreadthFirst(src, root)
    BY DEF ids, CopyOrder
  <2>2. IsInjective(ids)
    BY <1>2, <1>16 DEF IsInjective
  <2>3. QED  BY <2>1, <2>2, BreadthWalks
<1>18. Range(ids) = SubtreeIDs(src, root)
  BY <1>17, WalkCovers
<1>19. /\ ids[1] = root /\ Len(ids) >= 1
       /\ \A k \in 2 .. Len(ids) : k \in 1 .. Len(ids) /\ ids[k] # root
  BY <1>2, <1>16, <1>17 DEF Walked
<1>20. \A n \in Range(ids) \ {root} :
           /\ src[n].parent \in Range(ids)
           /\ \E k \in 2 .. Len(ids) : ids[k] = n
  <2>1. ASSUME NEW n \in Range(ids) \ {root} PROVE src[n].parent \in Range(ids)
    BY <1>18, <2>1, SubtreeHangs
  <2>2. ASSUME NEW n \in Range(ids) \ {root} PROVE \E k \in 2 .. Len(ids) : ids[k] = n
    BY <1>2, <1>5, <1>19, <2>2
  <2>3. QED  BY <2>1, <2>2
<1>21. DOMAIN new = DOMAIN old \cup Range(at) /\ DOMAIN old \cap Range(at) = {}
  <2>1. Range(at) = {at[ids[j]] : j \in 1 .. Len(ids)}
    <3>1. Range(at) = {at[m] : m \in Range(ids)}
      BY <1>6 DEF Range
    <3>2. Range(ids) = {ids[j] : j \in 1 .. Len(ids)}
      BY <1>2 DEF Range
    <3>3. QED  BY <3>1, <3>2
  <2>2. {at[ids[j]] : j \in 1 .. Len(ids)} = {commands[j].node : j \in 1 .. Len(ids)}
    BY <1>4
  <2>3. Range(at) \cap DOMAIN old = {}
    BY <1>6, <1>13 DEF Range
  <2>4. QED  BY <1>15, <2>1, <2>2, <2>3 DEF AllMade
<1>22. IsInjective(at)
  <2>1. ASSUME NEW m \in Range(ids), NEW n \in Range(ids), at[m] = at[n] PROVE m = n
    <3>1. PICK k \in 1 .. Len(ids) : ids[k] = m /\ at[m] = b.minted + k
      BY <1>5
    <3>2. PICK l \in 1 .. Len(ids) : ids[l] = n /\ at[n] = b.minted + l
      BY <1>5
    <3>3. b.minted + k = b.minted + l
      BY <2>1, <3>1, <3>2
    <3>4. k = l
      BY <1>2, <3>3
    <3>5. QED  BY <3>1, <3>2, <3>4
  <2>2. QED  BY <1>6, <2>1 DEF IsInjective
<1>23. ASSUME NEW n \in Range(ids)
       PROVE  /\ <<new[at[n]].type, new[at[n]].title, new[at[n]].url>>
                      = <<src[n].type, src[n].title, src[n].url>>
              /\ new[at[n]].parent = IF n = root THEN target ELSE at[src[n].parent]
  <2>1. PICK k \in 1 .. Len(ids) : ids[k] = n
    BY <1>5
  <2>2. SameContent(commands[k], new[at[n]])
    BY <1>4, <1>15, <2>1 DEF AllMade
  <2>3. n # root => at[src[n].parent] = FreshFor(b, ids, src[n].parent)
    BY <1>6, <1>20
  <2>4. QED  BY <1>4, <2>1, <2>2, <2>3 DEF SameContent
<1>24. ASSUME NEW i \in 2 .. Len(ids), NEW j \in 2 .. Len(ids), i < j,
              src[ids[i]].parent = src[ids[j]].parent
       PROVE  /\ src[ids[i]].pos < src[ids[j]].pos
              /\ new[at[ids[i]]].pos < new[at[ids[j]]].pos
  <2>1. src[ids[i]].pos < src[ids[j]].pos
    BY <1>17, <1>24 DEF Walked
  <2>2. \A k \in 2 .. Len(ids) : commands[k].before = None
    BY <1>4, <1>19
  <2>3. commands[i].parent = commands[j].parent
    BY <1>4, <1>19, <1>24
  <2>4. new[commands[i].node].pos < new[commands[j].node].pos
    BY <1>15, <1>24, <2>2, <2>3 DEF AllMade
  <2>5. QED  BY <1>4, <1>19, <2>1, <2>4
<1>25. \A n \in Range(ids) : src[n].pos \in Nat /\ new[at[n]].pos \in Nat
  <2>1. ASSUME NEW n \in Range(ids) PROVE src[n].pos \in Nat
    BY <1>5, <1>14 DEF TypedSpace, IsSpace, Nodes
  <2>2. TypedSpace(done.sp)
    <3>1. Whole(a) /\ a.minted <= Cardinality(NodeIds)
      BY <1>12, CopyWhole DEF a
    <3>2. QED  BY <1>10, <3>1 DEF Whole, Batch, Sound, LiveSpace
  <2>3. ASSUME NEW n \in Range(ids) PROVE new[at[n]].pos \in Nat
    <3>1. at[n] \in DOMAIN new
      BY <1>6, <1>21 DEF Range
    <3>2. QED  BY <2>2, <3>1 DEF TypedSpace, IsSpace, Nodes
  <2>4. QED  BY <2>1, <2>3
<1>26. ASSUME NEW n \in Range(ids) \ {root}, NEW k \in Range(ids) \ {root},
              src[k].parent = src[n].parent
       PROVE  src[k].pos < src[n].pos <=> new[at[k]].pos < new[at[n]].pos
  <2>1. PICK i \in 2 .. Len(ids) : ids[i] = k
    BY <1>20
  <2>2. PICK j \in 2 .. Len(ids) : ids[j] = n
    BY <1>20
  <2>3. CASE i < j
    BY <1>24, <1>26, <2>1, <2>2, <2>3
  <2>4. CASE j < i
    <3>1. src[n].pos < src[k].pos /\ new[at[n]].pos < new[at[k]].pos
      BY <1>24, <1>26, <2>1, <2>2, <2>4
    <3>2. QED  BY <1>25, <3>1
  <2>5. CASE i = j
    <3>1. k = n
      BY <2>1, <2>2, <2>5
    <3>2. QED  BY <1>25, <3>1
  <2>6. QED  BY <2>3, <2>4, <2>5
<1>27. \A n \in DOMAIN old : Contents(new)[n] = Contents(old)[n]
  BY <1>15, <1>21 DEF AllMade, SameContent, Contents
<1>28. Conserved(src, root, at, target, old, new)
  BY <1>6, <1>18, <1>21, <1>22, <1>23, <1>26, <1>27 DEF Conserved
<1>29. at = [m \in Range(BreadthFirst(src, root)) |-> FreshFor(b, BreadthFirst(src, root), m)]
  BY <1>17 DEF at
<1>30. QED  BY <1>10, <1>28, <1>29 DEF a

\* No other action writes down a transfer.
LEMMA OnlyTransfersRecord ==
    ASSUME [LibraryNext]_vars, NEW x \in DOMAIN moved' \ DOMAIN moved
    PROVE  \E y \in TransferIds, s, t \in Spaces :
               \E n, target, before : Transfer(y, s, t, n, target, before)
<1>1. ASSUME UNCHANGED moved PROVE FALSE
  BY <1>1
<1>2. CASE Transferring
  BY <1>2 DEF Transferring
<1>3. CASE Importing
  BY <1>1, <1>3 DEF Importing, Preview, CheckPlan, ApplyPlan, DropPlan
<1>4. CASE Publishing
  BY <1>1, <1>4 DEF Publishing, Publish, Republish, Retitle, Unpublish, ReadPublication,
                    CommitApplication, SaveImport, AbandonApplication
<1>5. CASE Checking
  BY <1>1, <1>5 DEF Checking, CheckLink, DeleteBookmarkIfUnchanged, DropFinding
<1>6. CASE UNCHANGED copyVars \/ UNCHANGED vars
  BY <1>1, <1>6 DEF vars, copyVars
<1>7. QED  BY <1>2, <1>3, <1>4, <1>5, <1>6 DEF LibraryNext

\* What a transfer copies is all that it takes away.
LEMMA DeleteTakes ==
    ASSUME NEW b, NEW ids, Batch(b, ids), NEW n,
           Apply(b, [op |-> "delete", node |-> n]).ok
    PROVE  DOMAIN Apply(b, [op |-> "delete", node |-> n]).sp.nodes
               = DOMAIN b.sp.nodes \ SubtreeIDs(b.sp.nodes, n)
<1> DEFINE c == [op |-> "delete", node |-> n]
           a == Apply(b, c)
<1>1. c.op = "delete" /\ c.node = n /\ Asked(c)
  BY DEF Asked
<1> HIDE DEF c
<1>2. DOMAIN b = {"sp", "undo", "minted", "number", "ok"} /\ b.number \in Origins /\ Sound(b.sp)
  BY DEF Batch
<1>3. a.ok
  BY DEF c
<1>4. CanExecute(b.sp, c) /\ a.sp = Execute(b.sp, c, b.number)
  BY <1>2, <1>3 DEF Apply
<1>5. Census(b.sp, c, a.sp)
  BY <1>1, <1>2, <1>4, CommandSound
<1>6. DOMAIN a.sp.nodes = DOMAIN b.sp.nodes \ SubtreeIDs(b.sp.nodes, n)
  BY <1>1, <1>5 DEF Census, Buried, Added
<1>7. QED  BY <1>6 DEF c

\* What leaves one space by a transfer arrives in the other: under new ids, with the same
\* fields, below the same parents and in the same order; and no other node of either space
\* comes, goes or changes its content (spacetransfer/service.go).
THEOREM TransfersConserve == LibrarySpec => TransferConserves
<1> DEFINE Kept(x) ==
          LET m    == moved'[x]
              src  == spaces[m.source].nodes
              tgt  == spaces'[m.target].nodes
              Content(node) == <<node.type, node.title, node.url>>
          IN  /\ DOMAIN m.map = SubtreeIDs(src, m.node)
              /\ DOMAIN spaces'[m.source].nodes = DOMAIN src \ DOMAIN m.map
              /\ DOMAIN tgt = DOMAIN spaces[m.target].nodes \cup Range(m.map)
              /\ DOMAIN spaces[m.target].nodes \cap Range(m.map) = {}
              /\ IsInjective(m.map)
              /\ \A n \in DOMAIN m.map :
                    /\ Content(tgt[m.map[n]]) = Content(src[n])
                    /\ tgt[m.map[n]].parent = IF n = m.node THEN m.under ELSE m.map[src[n].parent]
                    /\ \A k \in DOMAIN m.map \ {m.node} : n # m.node /\ src[k].parent = src[n].parent =>
                          (src[k].pos < src[n].pos <=> tgt[m.map[k]].pos < tgt[m.map[n]].pos)
              /\ \A n \in DOMAIN spaces[m.target].nodes :
                    Contents(tgt)[n] = Contents(spaces[m.target].nodes)[n]
           Conserving == \A x \in DOMAIN moved' \ DOMAIN moved : Kept(x)
<1>1. ASSUME LibraryInv, [LibraryNext]_vars PROVE [Conserving]_vars
  <2> SUFFICES ASSUME NEW x \in DOMAIN moved' \ DOMAIN moved PROVE Kept(x)
    OBVIOUS
  <2>1. SpacesHeld /\ SetsHeld
    BY <1>1 DEF LibraryInv
  <2>2. PICK y \in TransferIds, s \in Spaces, t \in Spaces :
            \E n, target, before : Transfer(y, s, t, n, target, before)
    BY <1>1, OnlyTransfersRecord
  <2>3. PICK n, target, before : Transfer(y, s, t, n, target, before)
    BY <2>2
  <2> DEFINE nodes == spaces[s].nodes
             in == CopySubtree(Begun(t), nodes, n, target, before)
             from == [Begun(s) EXCEPT !.number = Len(sets) + 2]
             out == Apply(from, [op |-> "delete", node |-> n])
             ids == BreadthFirst(nodes, n)
             map == [m \in Range(ids) |-> FreshFor(Begun(t), ids, m)]
             record == [source |-> s, node |-> n, target |-> t, under |-> target, map |-> map]
  <2>4. /\ y \notin DOMAIN moved /\ s # t /\ n \in DOMAIN nodes /\ in.ok /\ out.ok
        /\ Len(sets) + 2 <= MaxSets /\ in.minted <= Cardinality(NodeIds)
        /\ spaces' = [spaces EXCEPT ![s] = out.sp, ![t] = in.sp]
        /\ moved' = With(moved, y, record)
    BY <2>3 DEF Transfer, Deleted
  <2>5. Len(sets) < MaxSets /\ Len(sets) + 2 \in 1 .. MaxSets
    <3>1. Len(sets) \in Nat /\ MaxSets \in Nat
      BY <2>1, SetNumbersAreOrigins DEF SetsHeld
    <3>2. QED  BY <2>4, <3>1
  <2>6. Fresh(Begun(t), t)
    BY <2>1, <2>5, BegunFresh
  <2>7. TypedSpace(spaces[s]) /\ DenseSiblings(spaces[s])
    BY <2>1, SpaceHolds
  <2>8. Conserved(nodes, n, map, target, spaces[t].nodes, in.sp.nodes)
    <3>1. Whole(Begun(t)) /\ Begun(t).sp = spaces[t]
      BY <2>6 DEF Fresh
    <3>2. Conserved(nodes, n, map, target, Begun(t).sp.nodes, in.sp.nodes)
      BY <2>4, <2>7, <3>1, CopyConserves
    <3>3. QED  BY <3>1, <3>2
  <2>9. DOMAIN out.sp.nodes = DOMAIN nodes \ SubtreeIDs(nodes, n)
    <3>1. /\ DOMAIN from = {"sp", "undo", "minted", "number", "ok"} /\ from.sp = spaces[s]
          /\ from.undo = NothingCaptured /\ from.minted = minted /\ from.number = Len(sets) + 2
      BY DEF Begun
    <3> HIDE DEF from
    <3>2. Fresh(from, s)
      BY <2>1, <2>5, <3>1, FreshBatch
    <3>3. Batch(from, 1 .. from.minted)
      BY <3>1, <3>2 DEF Fresh, Whole
    <3>4. QED  BY <2>4, <3>1, <3>3, DeleteTakes
  <2> HIDE DEF in, out, map
  <2>10. x = y /\ moved'[x] = record
    <3> HIDE DEF record
    <3>1. DOMAIN moved' = DOMAIN moved \cup {y} /\ moved'[y] = record
      BY <2>4 DEF With
    <3>2. QED  BY <3>1
  <2>11. spaces'[s] = out.sp /\ spaces'[t] = in.sp
    BY <2>1, <2>4 DEF SpacesHeld
  <2>12. /\ record.source = s /\ record.node = n /\ record.target = t /\ record.under = target
         /\ record.map = map
    OBVIOUS
  <2> HIDE DEF record
  <2>13. QED  BY <2>8, <2>9, <2>10, <2>11, <2>12 DEF Conserved
<1>2. QED  BY <1>1, LibraryInvAlways, PTL DEF LibrarySpec, TransferConserves
=============================================================================
