----------------------------- MODULE TreeCopies -----------------------------
(***************************************************************************)
(* The three ways a whole tree gets into a space, each as one batch: the   *)
(* copy a cross-space transfer makes (src/server/internal/spacetransfer),  *)
(* the merge of an imported file (src/server/internal/transfer) and the    *)
(* application of a publication (src/server/internal/plaza).               *)
(*                                                                         *)
(* A file and a publication are a sequence of items in the order of the    *)
(* walk: each with the key its publisher knows it by, its fields, and the  *)
(* place in the sequence of the folder it is in (0 for the top).           *)
(***************************************************************************)
EXTENDS ChangeSets

\* The walk of buildTree and of an export: folders before their contents, in order.
Walk(nodes, tops) == Traversal(nodes, tops, TRUE)

Items(nodes, tops) ==
    LET ids == Walk(nodes, tops)
        Place(n) == {j \in DOMAIN ids : ids[j] = n}
    IN  [k \in DOMAIN ids |->
            LET node == nodes[ids[k]]
            IN  [key |-> ids[k], type |-> node.type, title |-> node.title, url |-> node.url,
                 under |-> IF Place(node.parent) = {} THEN 0
                           ELSE CHOOSE j \in Place(node.parent) : TRUE]]

\* What sits at the top of a space, in any of its slots, by position.
Tops(sp) ==
    LET roots == {n \in DOMAIN sp.nodes : sp.nodes[n].parent \in RootKeys}
    IN  FlattenSeq([k \in 1 .. Cardinality(roots) |->
                       SetToSeq({n \in roots : sp.nodes[n].pos = k - 1})])

Under(at, target, item) == IF item.under = 0 THEN target ELSE at[item.under]

\* A folder is known again by its title, a bookmark by its URL.
Name(x) == IF x.type = "folder" THEN x.title ELSE x.url

\* Mutant of Alike: one index of titles and URLs.
AlikeOfAnyKind(child, item) == Name(child) = Name(item)

Alike(child, item) == child.type = item.type /\ Name(child) = Name(item)

Matches(children, item) == {n \in DOMAIN children : Alike(children[n], item)}

\* The index of a parent's children keeps the last of those that are alike.
LastOf(children, S) == CHOOSE n \in S : \A m \in S : children[m].pos <= children[n].pos

ChildRows(nodes, p) == [n \in Children(nodes, p) |-> nodes[n]]

CreateItem(b, item, parent) == CreateNext(b, item, parent, None)

\* The strategy "replace" clears the target first, with journaled deletes.
Cleared(b, target) ==
    LET kids == InOrder(b.sp.nodes, target)
    IN  ApplyAll(b, [k \in DOMAIN kids |-> [op |-> "delete", node |-> kids[k]]])

Target(b, target, strategy) == IF strategy = "replace" THEN Cleared(b, target) ELSE b

---------------------------------------------------------------------------
(* Import: a folder that is there already is entered, a bookmark kept *)

\* In a folder made by this import one index serves titles and URLs alike.
MatchesIn(acc, children, item) ==
    IF item.under \in acc.made THEN {n \in DOMAIN children : Name(children[n]) = Name(item)}
                               ELSE Matches(children, item)

\* acc is the batch, the nodes the items so far stand for, and the items that were made.
MergeItem(acc, item, target) ==
    LET parent   == Under(acc.at, target, item)
        children == ChildRows(acc.b.sp.nodes, parent)
        alike    == MatchesIn(acc, children, item)
    IN  IF alike # {} THEN [acc EXCEPT !.at = Append(@, LastOf(children, alike))]
        ELSE [b |-> CreateItem(acc.b, item, parent), at |-> Append(acc.at, acc.b.minted + 1),
              made |-> acc.made \cup {Len(acc.at) + 1}]

MergeFile(b, items, target, strategy) ==
    LET done[k \in 0 .. Len(items)] ==
            IF k = 0 THEN [b |-> Target(b, target, strategy), at |-> <<>>, made |-> {}]
            ELSE MergeItem(done[k - 1], items[k], target)
    IN  done[Len(items)]

---------------------------------------------------------------------------
(* Publication: what this import created before is refreshed, wherever the *)
(* consumer has moved it; else what is alike at the place is reused.       *)

\* refresh: the mapped node is still there, and still of that kind.
Refreshable(b, map, item) ==
    /\ item.key \in DOMAIN map
    /\ map[item.key] \in DOMAIN b.sp.nodes
    /\ b.sp.nodes[map[item.key]].type = item.type

Refresh(b, n, item) ==
    LET titled == IF b.sp.nodes[n].title = item.title THEN b
                  ELSE Apply(b, [op |-> "update_title", node |-> n, title |-> item.title])
    IN  IF item.type = "folder" \/ b.sp.nodes[n].url = item.url THEN titled
        ELSE Apply(titled, [op |-> "update_url", node |-> n, url |-> item.url])

\* A row more, under a key that has none.
With(rows, key, row) == [k \in DOMAIN rows \cup {key} |-> IF k = key THEN row ELSE rows[k]]

\* The children of a parent are indexed once, when the walk first looks there.
Indexed(acc, parent) ==
    IF parent \in DOMAIN acc.index THEN acc
    ELSE [acc EXCEPT !.index = With(@, parent, ChildRows(acc.b.sp.nodes, parent))]

PlaceItem(acc, item, target, map, strategy) ==
    LET parent == Under(acc.at, target, item)
        seen   == Indexed(acc, parent)
    IN  IF strategy = "merge" /\ Refreshable(acc.b, map, item)
        THEN [acc EXCEPT !.b = Refresh(@, map[item.key], item), !.at = Append(@, map[item.key])]
        ELSE IF strategy = "merge" /\ Matches(seen.index[parent], item) # {}
        THEN [seen EXCEPT !.at = Append(@, LastOf(seen.index[parent],
                                                  Matches(seen.index[parent], item)))]
        ELSE [seen EXCEPT !.b = CreateItem(acc.b, item, parent),
                          !.at = Append(@, acc.b.minted + 1)]

PlaceAll(b, items, target, map, strategy) ==
    LET done[k \in 0 .. Len(items)] ==
            IF k = 0 THEN [b |-> Target(b, target, strategy), at |-> <<>>, index |-> <<>>]
            ELSE PlaceItem(done[k - 1], items[k], target, map, strategy)
    IN  done[Len(items)]

\* Which node of the consumer each published node was placed on.
Placed(items, at) == [key \in {items[k].key : k \in DOMAIN items} |->
                         at[CHOOSE k \in DOMAIN items : items[k].key = key]]

---------------------------------------------------------------------------
(* Transfer: fresh ids for the whole subtree, hierarchy and order kept *)

\* Mutant of CopyOrder: the walk visits the last child first.
CopyOrderBackwards(nodes, root) == <<root>> \o Reverse(Tail(BreadthFirst(nodes, root)))

CopyOrder(nodes, root) == BreadthFirst(nodes, root)

FreshFor(b, ids, n) == b.minted + (CHOOSE k \in DOMAIN ids : ids[k] = n)

CopySubtree(b, nodes, root, target, before) ==
    LET ids == CopyOrder(nodes, root)
        Copy(n) == NewNode(FreshFor(b, ids, n), nodes[n],
                           IF n = root THEN target ELSE FreshFor(b, ids, nodes[n].parent),
                           IF n = root THEN before ELSE None)
    IN  [ApplyAll(b, [k \in DOMAIN ids |-> Copy(ids[k])]) EXCEPT !.minted = @ + Len(ids)]
=============================================================================
