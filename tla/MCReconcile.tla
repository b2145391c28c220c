---------------------------- MODULE MCReconcile ----------------------------
(* Small instances of Reconcile for TLC. *)
EXTENDS Reconcile, TLC

CONSTANTS a, b, u, v, main, side

Folder(t) == [type |-> "folder", title |-> t, url |-> None]
Bookmark(t, w) == [type |-> "bookmark", title |-> t, url |-> w]
Labels == {Folder(a), Bookmark(a, u), Bookmark(b, u)}

\* The tree of the ids in a sequence, each below an earlier folder or a root.
TreeWith(roots, ids, label, above) ==
    [roots |-> roots,
     node |-> [n \in Range(ids) |-> LET i == CHOOSE j \in DOMAIN ids : ids[j] = n IN
                  [parent |-> above[i], type |-> label[i].type, title |-> label[i].title,
                   url |-> label[i].url, cid |-> None]],
     kids |-> [c \in roots \cup Range(ids) |->
                  LET mine == SelectSeq([i \in DOMAIN ids |-> i], LAMBDA i : above[i] = c)
                  IN  [k \in DOMAIN mine |-> ids[mine[k]]]]]

\* All trees of ids whose labels are in the set.
TreesWith(roots, ids, labels) ==
    {TreeWith(roots, ids, l, p) :
        <<l, p>> \in {lp \in [DOMAIN ids -> labels] \X [DOMAIN ids -> roots \cup Range(ids)] :
            \A i \in DOMAIN ids : lp[2][i] \in roots \/
                \E j \in 1..(i - 1) : ids[j] = lp[2][i] /\ lp[1][j].type = "folder"}}

Plain(tree) == [tree EXCEPT !.node = [n \in DOMAIN @ |->
    [parent |-> @[n].parent, type |-> @[n].type, title |-> @[n].title, url |-> @[n].url]]]

\* Nothing is mapped yet and nothing queued; a backup of this moment keeps the ids.
Apart(servers, browsers) ==
    {[server |-> p[1], browser |-> Plain(p[2]), mirror |-> <<>>, queued |-> {},
      backup |-> p[1]] : p \in servers \X browsers}

\* The backup is of a time when the space held another tree.
Stranger == TreeWith({main}, <<15>>, <<Folder(a)>>, <<main>>)
Elsewhere(starts) == {[s EXCEPT !.backup = Stranger] : s \in starts}

Queued(starts) == {[s EXCEPT !.queued = Refs(s.browser)] : s \in starts}

\* Everything is mapped: the browser holds the space, with other ids.
Together(servers, twin) ==
    {[server |-> s, queued |-> {}, backup |-> s, mirror |-> [b2 \in {twin[n] : n \in Refs(s)} |->
                                    CHOOSE n \in Refs(s) : twin[n] = b2],
      browser |-> LET image(x) == IF x \in s.roots THEN x ELSE twin[x] IN
        [roots |-> s.roots,
         node |-> [b2 \in {twin[n] : n \in Refs(s)} |->
             LET x == s.node[CHOOSE n \in Refs(s) : twin[n] = b2]
             IN  [parent |-> image(x.parent), type |-> x.type, title |-> x.title, url |-> x.url]],
         kids |-> [c \in s.roots \cup {twin[n] : n \in Refs(s)} |->
             LET row == s.kids[IF c \in s.roots THEN c ELSE CHOOSE n \in Refs(s) : twin[n] = c]
             IN  [i \in DOMAIN row |-> twin[row[i]]]]]] : s \in servers}

\* Rows of three siblings told apart by their keys.
Rows(roots, ids) ==
    {TreeWith(roots, ids, l, [i \in 1..3 |-> main]) :
        l \in {f \in [1..3 -> {Folder(a), Folder(b), Bookmark(a, u), Bookmark(b, v)}] :
                 \A i, j \in 1..3 : i # j => f[i] # f[j]}}

Of(k, ids) == TreesWith({main}, SubSeq(ids, 1, k), Labels)
UpTo(k, ids) == UNION {Of(n, ids) : n \in 0..k}

\* A bookmark in a folder.
Nested == TreeWith({main}, <<1, 2>>, <<Folder(a), Bookmark(a, u)>>, <<main, 1>>)

\* Every shape of few nodes; a backup that keeps the ids is of one node, or Nested.
MCStarts == Apart(UpTo(1, <<1>>) \cup Of(1, <<2>>), UpTo(2, <<21, 22>>))
            \cup Apart({Nested}, UpTo(1, <<21>>))
            \cup Elsewhere(Apart(Of(2, <<1, 2>>), UpTo(2, <<21, 22>>)))
            \cup Queued(Elsewhere(Apart(
                     {TreeWith({main}, <<1, 2, 3>>, <<Folder(a), Folder(b), Bookmark(a, u)>>,
                               <<main, main, main>>)}, Rows({main}, <<21, 22, 23>>))))
MCMapped == Together(UpTo(2, <<1, 2>>), [n \in {1, 2} |-> n + 20])
MCSideUnmounted == Apart({TreeWith({main, side}, <<1>>, <<Folder(a)>>, <<side>>)},
                         UpTo(1, <<21>>))

MCEdits ==
    {[op |-> "create", node |-> 14, type |-> "bookmark", title |-> b, url |-> v,
      parent |-> main, before |-> None],
     [op |-> "delete", node |-> 1], [op |-> "update_title", node |-> 2, title |-> b]}
=============================================================================
