------------------------------ MODULE TreePlan ------------------------------
(***************************************************************************)
(* The tree reconciliation engine (src/server/internal/reconcile): match   *)
(* two trees, build the desired one, plan the primitives that lead there.  *)
(* Pure operators; Reconcile drives them.                                  *)
(*                                                                         *)
(* A tree is a record                                                      *)
(*   roots  the root slot keys it holds                                    *)
(*   node   ref -> [parent, type, title, url, cid]; cid is the canonical   *)
(*          id the node is known by, or None                               *)
(*   kids   root key or ref -> the refs below it, in sibling order         *)
(* A root is written by its key in every tree: linkRoots pairs the roots   *)
(* of equal keys, and a parent reference names a root by its key.          *)
(*                                                                         *)
(* A desired tree has the same shape over canonical ids, with src (the     *)
(* source node a desired node stands for, or None) in the place of cid.    *)
(***************************************************************************)
EXTENDS CanonicalTree, SequencesExt

Refs(tree) == DOMAIN tree.node

\* The root slot a node hangs under.
RootOf(tree, n) ==
    LET up[m \in Refs(tree)] == LET p == tree.node[m].parent IN
            IF p \in tree.roots THEN p ELSE up[p]
    IN  up[n]

---------------------------------------------------------------------------
(* Identity.  A match gives with, source ref -> target ref, and open, the  *)
(* ambiguous source refs -> their candidates.                              *)

\* Folders are recognised by their exact title, bookmarks by their exact URL.
Key(tree, n) == LET x == tree.node[n] IN
    <<x.type, IF x.type = "folder" THEN x.title ELSE x.url>>

\* No sibling before s has its key: a candidate is used by the first of them.
FirstOfKey(src, s) ==
    LET row == src.kids[src.node[s].parent] IN
    \A i, j \in DOMAIN row : i < j /\ row[j] = s => Key(src, row[i]) # Key(src, s)

Alike(src, tgt, s, container) ==
    IF container = None THEN {}
    ELSE {t \in Range(tgt.kids[container]) : Key(tgt, t) = Key(src, s)}

\* Parent-aware: only below a matched parent, and only a unique candidate.
MatchExact(src, tgt) ==
    LET with[s \in Refs(src) \cup src.roots] ==
            IF s \in src.roots THEN IF s \in tgt.roots THEN s ELSE None
            ELSE LET alike == Alike(src, tgt, s, with[src.node[s].parent])
                 IN  IF Cardinality(alike) = 1 /\ FirstOfKey(src, s)
                     THEN CHOOSE t \in alike : TRUE ELSE None
        among(s) == Alike(src, tgt, s, with[src.node[s].parent])
    IN  [with |-> [s \in {x \in Refs(src) : with[x] # None} |-> with[s]],
         open |-> [s \in {x \in Refs(src) : Cardinality(among(x)) > 1} |-> among(s)]]

\* By the canonical ids both sides carry, wherever the nodes are.
MatchByCanonicalID(src, tgt) ==
    LET same(s) == {t \in Refs(tgt) : tgt.node[t].cid # None
                                      /\ tgt.node[t].cid = src.node[s].cid}
        matched == {s \in Refs(src) : same(s) # {}}
    IN  [with |-> [s \in matched |-> CHOOSE t \in same(s) : TRUE], open |-> <<>>]

\* Decisions name a candidate, or None for the safe default: stay unmatched.
CanFold(match, choice) ==
    LET made == {s \in DOMAIN choice \cap DOMAIN match.open : choice[s] # None} IN
    \A s \in made : /\ choice[s] \in match.open[s] \ Range(match.with)
                    /\ \A t \in made \ {s} : choice[t] # choice[s]

FoldDecisions(match, choice) ==
    LET made == {s \in DOMAIN choice \cap DOMAIN match.open : choice[s] # None} IN
    [with |-> [s \in DOMAIN match.with \cup made |->
                  IF s \in made THEN choice[s] ELSE match.with[s]],
     open |-> [s \in DOMAIN match.open \ made |-> match.open[s]]]

---------------------------------------------------------------------------
(* The desired tree *)

\* Source-only nodes keep an id of their own, or get a fresh one.
DesiredId(match, src, tgt, fresh, s) ==
    IF s \in DOMAIN match.with THEN tgt.node[match.with[s]].cid
    ELSE IF src.node[s].cid # None THEN src.node[s].cid ELSE fresh[s]

\* The target-only nodes that stay: below the roots the source has, unless replaced.
KeptNodes(match, src, tgt, strategy) ==
    IF strategy = "replace" THEN {}
    ELSE {t \in Refs(tgt) \ Range(match.with) : RootOf(tgt, t) \in src.roots}

\* Fails, with ErrUnknownRoot, when the source has a root the target lacks.
BuildDesired(match, src, tgt, strategy, fresh) ==
    LET id(s)   == IF s \in src.roots THEN s ELSE DesiredId(match, src, tgt, fresh, s)
        kept    == KeptNodes(match, src, tgt, strategy)
        srcOf   == [i \in {id(s) : s \in Refs(src)} |-> CHOOSE s \in Refs(src) : id(s) = i]
        place(s) == LET x == src.node[s]
                        y == IF strategy = "preserve" /\ s \in DOMAIN match.with
                             THEN tgt.node[match.with[s]] ELSE x
                    IN  [parent |-> id(x.parent), type |-> y.type,
                         title |-> y.title, url |-> y.url, src |-> s]
        stay(t) == LET x == tgt.node[t]
                       p == x.parent
                   IN  [parent |-> IF p \in tgt.roots THEN p ELSE tgt.node[p].cid,
                        type |-> x.type, title |-> x.title, url |-> x.url, src |-> None]
        ids     == DOMAIN srcOf \cup kept
        below(s) == [i \in DOMAIN src.kids[s] |-> id(src.kids[s][i])]
        still(t) == SelectSeq(tgt.kids[t], LAMBDA k : k \in kept)
        kids(c) == IF c \in src.roots THEN below(c) \o still(c)
                   ELSE IF c \in DOMAIN srcOf THEN
                        LET s == srcOf[c] IN
                        IF s \in DOMAIN match.with THEN still(match.with[s]) \o below(s)
                                                   ELSE below(s)
                   ELSE still(c)
    IN  [roots |-> src.roots,
         node |-> [i \in ids |-> IF i \in DOMAIN srcOf THEN place(srcOf[i]) ELSE stay(i)],
         kids |-> [c \in src.roots \cup ids |-> kids(c)]]

---------------------------------------------------------------------------
(* The plan.  at maps the desired ids that the current tree holds to its   *)
(* refs.  A primitive carries the desired id beside the ref it acts on.    *)

Op(kind, id, ref, node, parent, before) ==
    [op |-> kind, id |-> id, node |-> ref, type |-> node.type, title |-> node.title,
     url |-> node.url, parent |-> parent, before |-> before]

\* The containers of the desired tree, each before those below it.
Preorder(desired) ==
    LET from[c \in DOMAIN desired.kids] ==
            FoldLeft(LAMBDA seen, k : seen \o from[k], <<c>>, desired.kids[c])
    IN  FoldSet(LAMBDA r, seen : seen \o from[r], <<>>, desired.roots)

\* The container of the desired tree a current node is in.  A parent the desired
\* tree dropped stays itself and is no container of that tree.
Home(current, at, n) ==
    LET p == current.node[n].parent IN
    IF p \in Range(at) THEN CHOOSE id \in DOMAIN at : at[id] = p ELSE p

IsHere(current, at, c, id) == id \in DOMAIN at /\ Home(current, at, at[id]) = c

\* The ids to create in c, the last of them first.
Missing(desired, at, c) == Reverse(SelectSeq(desired.kids[c], LAMBDA id : id \notin DOMAIN at))

\* A created node goes before the next sibling that is in c by then.
Anchor(current, desired, at, c, id) ==
    LET row  == desired.kids[c]
        i    == CHOOSE j \in DOMAIN row : row[j] = id
        next == {j \in DOMAIN row : j > i /\ (row[j] \in DOMAIN at
                                               => IsHere(current, at, c, row[j]))}
    IN  IF next = {} THEN None
        ELSE row[CHOOSE j \in next : \A k \in next : j <= k]

Creates(current, desired, at, c) ==
    [i \in DOMAIN Missing(desired, at, c) |->
        LET id == Missing(desired, at, c)[i]
        IN  Op("create", id, id, desired.node[id], c, Anchor(current, desired, at, c, id))]

\* The members of c once the creates have run, leaving out what goes away.
AfterCreates(current, desired, at, c) ==
    LET held == IF c \in desired.roots THEN current.kids[c]
                ELSE IF c \in DOMAIN at THEN current.kids[at[c]] ELSE <<>>
        row  == Range(desired.kids[c])
        id(n) == CHOOSE i \in DOMAIN at : at[i] = n
        there == SelectSeq(held, LAMBDA n : n \in Range(at) /\ id(n) \in row)
        put(list, new) ==
            LET before == Anchor(current, desired, at, c, new)
            IN  IF before = None THEN Append(list, new)
                ELSE InsertAt(list, CHOOSE i \in DOMAIN list : list[i] = before, new)
    IN  FoldLeft(put, [i \in DOMAIN there |-> id(there[i])], Missing(desired, at, c))

\* longestIncreasingSubsequence: the indices into seq of the one patience finds.
\* tails[k] is the index of the smallest tail of length k, prev chains back.
LongestIncreasing(seq) ==
    LET step(st, i) ==
            LET k == Cardinality({j \in DOMAIN st.tails : seq[st.tails[j]] < seq[i]})
            IN  [tails |-> [j \in DOMAIN st.tails \cup {k + 1} |->
                                IF j = k + 1 THEN i ELSE st.tails[j]],
                 prev |-> Append(st.prev, IF k = 0 THEN 0 ELSE st.tails[k])]
        end == FoldLeftDomain(step, [tails |-> <<>>, prev |-> <<>>], seq)
        back[i \in 0..Len(seq)] == IF i = 0 THEN {} ELSE {i} \cup back[end.prev[i]]
    IN  IF seq = <<>> THEN {} ELSE back[end.tails[Len(end.tails)]]

\* The members that stay where they are.
Kept(current, desired, at, c) ==
    LET list == AfterCreates(current, desired, at, c)
        rank(id) == CHOOSE j \in DOMAIN desired.kids[c] : desired.kids[c][j] = id
    IN  {list[i] : i \in LongestIncreasing([i \in DOMAIN list |-> rank(list[i])])}

Movers(current, desired, at, c) ==
    SelectSeq([i \in DOMAIN desired.kids[c] |-> i],
              LAMBDA i : desired.kids[c][i] \notin Kept(current, desired, at, c))

\* Mutant of LastFirst: the first of them first.
FirstFirst(movers) == movers

LastFirst(movers) == Reverse(movers)

\* Everything else is moved into its place, the last of them first.
Moves(current, desired, at, c) ==
    LET row    == desired.kids[c]
        movers == LastFirst(Movers(current, desired, at, c))
    IN  [m \in DOMAIN movers |->
            LET id == row[movers[m]]
            IN  Op("move", id, IF id \in DOMAIN at THEN at[id] ELSE id, desired.node[id], c,
                   IF movers[m] < Len(row) THEN row[movers[m] + 1] ELSE None)]

Updates(current, desired, at, id) ==
    LET was == current.node[at[id]]
        now == desired.node[id]
    IN  IF was.type # now.type THEN <<>>
        ELSE (IF was.title # now.title
              THEN <<Op("update_title", id, at[id], now, None, None)>> ELSE <<>>)
             \o (IF now.type = "bookmark" /\ was.url # now.url
                 THEN <<Op("update_url", id, at[id], now, None, None)>> ELSE <<>>)

\* The topmost nodes the desired tree dropped.
DeleteRoots(current, at) ==
    {n \in Refs(current) \ Range(at) : current.node[n].parent \in current.roots \cup Range(at)}

\* Creates, updates, moves, deletes.  Updates do not depend on each other and
\* neither do deletes: the maps the code ranges over may give any order.
BuildPlan(current, desired, at) ==
    LET each(op(_), over) == FoldLeft(LAMBDA ops, x : ops \o op(x), <<>>, over)
        any(op(_), over) == FoldSet(LAMBDA x, ops : ops \o op(x), <<>>, over)
        drop(n) == <<Op("delete", current.node[n].cid, n, current.node[n], None, None)>>
    IN  each(LAMBDA c : Creates(current, desired, at, c), Preorder(desired))
        \o any(LAMBDA id : Updates(current, desired, at, id), DOMAIN at)
        \o each(LAMBDA c : Moves(current, desired, at, c), Preorder(desired))
        \o any(drop, DeleteRoots(current, at))

---------------------------------------------------------------------------
(* Client steps *)

\* Every desired node with a source node, unless the client knows it by that id.
AssignSteps(client, desired) ==
    LET told(id) == LET s == desired.node[id].src IN
                    s # None /\ ~(s \in Refs(client) /\ client.node[s].cid = id)
    IN  FoldLeft(LAMBDA steps, c : steps \o
                     LET row == SelectSeq(desired.kids[c], told)
                     IN  [i \in DOMAIN row |-> Op("assign_identity", row[i], desired.node[row[i]].src,
                                                  desired.node[row[i]], None, None)],
                 <<>>, Preorder(desired))

\* The client holds a desired node as the source node, or, in a resync, as the
\* node that carries its id.
ClientHolds(client, desired, bySource) ==
    LET ref(id) == IF bySource THEN {desired.node[id].src} \cap Refs(client)
                   ELSE {n \in Refs(client) : client.node[n].cid = id}
    IN  [id \in {i \in DOMAIN desired.node : ref(i) # {}} |-> CHOOSE n \in ref(id) : TRUE]

DeriveClientSteps(client, desired, bySource) ==
    AssignSteps(client, desired)
    \o BuildPlan(client, desired, ClientHolds(client, desired, bySource))
=============================================================================
