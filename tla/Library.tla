------------------------------ MODULE Library ------------------------------
(***************************************************************************)
(* The library of one owner: several spaces edited through the API and by  *)
(* undo, with the operations that write whole trees beside it: import of a *)
(* previewed file, publication and its application in another space,       *)
(* transfer of a subtree between spaces, and the deletion of a bookmark a  *)
(* link check has found dead.  Each reads something, lets other requests   *)
(* write, and writes: the plan of an import is bound to a revision, a      *)
(* publication is applied with the mapping read before, a finding names    *)
(* the bookmark it was made about.                                         *)
(***************************************************************************)
EXTENDS TreeCopies

CONSTANTS
    TransferIds,  \* ids clients choose for transfers
    Publishers,   \* the spaces published from; publications are applied in the others: a bound
    MaxVersion,   \* bound on the version of a publication
    Budget        \* operation -> bound on the change sets of a behaviour that uses it

ASSUME PublishersAreSpaces == Publishers \subseteq Spaces

VARIABLES
    plan,      \* the one import plan held in memory, or None
    pub,       \* the publication, or None
    applying,  \* the one slow request that applies it, or None
    imported,  \* its publication_imports row with its mappings, or None
    moved,     \* cross_space_transfers: transfer id -> record
    finding,   \* one broken-link finding, or None
    using      \* the operation this behaviour uses beside edit and undo: a bound

copyVars == <<plan, pub, applying, imported, moved, finding, using>>
vars == <<setVars, copyVars>>

\* Bound: one request at a time is between its read and its transaction.  Such
\* requests meet only through the rows of the spaces, which others write meanwhile.
NobodyElse == plan = None /\ applying = None /\ finding = None /\ pending = 0

Now(s) == <<spaces[s].epoch, spaces[s].rev>>

---------------------------------------------------------------------------
(* Import *)

\* Preview a file: an export of some space, taken now.
Preview(s, from) ==
    /\ NobodyElse
    /\ plan' = [space |-> s, rev |-> spaces[s].rev, seenAt |-> Now(s), strategy |-> None,
                target |-> None, items |-> Items(spaces[from].nodes, Tops(spaces[from]))]
    /\ UNCHANGED <<setVars, pub, applying, imported, moved, finding, using>>

\* Apply, up to its transaction: the staleness check looks at the revision alone.
CheckPlan(target, strategy) ==
    /\ plan # None /\ plan.strategy = None
    /\ plan.rev = spaces[plan.space].rev
    /\ plan' = [plan EXCEPT !.target = target, !.strategy = strategy]
    /\ UNCHANGED <<setVars, pub, applying, imported, moved, finding, using>>

Merged == MergeFile(Begun(plan.space), plan.items, plan.target, plan.strategy)

\* The transaction; then the plan is dropped.
ApplyPlan ==
    /\ plan # None /\ plan.strategy # None
    /\ Record(plan.space, Merged.b)
    /\ plan' = None
    /\ UNCHANGED <<pending, pub, applying, imported, moved, finding, using>>

\* The plan outlives its hour, or the restart of the server.
DropPlan ==
    /\ plan # None
    /\ plan' = None
    /\ UNCHANGED <<setVars, pub, applying, imported, moved, finding, using>>

---------------------------------------------------------------------------
(* Publication *)

\* A published node carries the title of the publication, a space has no node to carry it.
SourceItems(s, root, title) ==
    IF root = None THEN Items(spaces[s].nodes, Tops(spaces[s]))
    ELSE [Items(spaces[s].nodes, <<root>>) EXCEPT ![1].title = title]

\* Publish a space or one node of it.
Publish(s, root, title) ==
    /\ pub = None
    /\ root # None => root \in DOMAIN spaces[s].nodes
    /\ pub' = [space |-> s, root |-> root, title |-> title, version |-> 1,
               items |-> SourceItems(s, root, title)]
    /\ UNCHANGED <<setVars, plan, applying, imported, moved, finding, using>>

\* UpdateSnapshot.  Of two that read the same version the second fails on the unique
\* version row, so the tree of a version is the tree of one moment.
Republish ==
    /\ pub # None /\ pub.version < MaxVersion
    /\ pub.root # None => pub.root \in DOMAIN spaces[pub.space].nodes
    /\ pub' = [pub EXCEPT !.version = @ + 1, 
                         !.items = SourceItems(pub.space, pub.root, pub.title)]
    /\ UNCHANGED <<setVars, plan, applying, imported, moved, finding, using>>

\* UpdateMeta: the title alone, the tree keeps the one of its version.  Bound: only where
\* a version to come has a node to carry it.
Retitle(title) ==
    /\ pub # None /\ pub.root # None /\ pub.version < MaxVersion
    /\ pub' = [pub EXCEPT !.title = title]
    /\ UNCHANGED <<setVars, plan, applying, imported, moved, finding, using>>

\* Unpublish: the copies stay, the import record goes with the row.
Unpublish ==
    /\ pub # None
    /\ pub' = None /\ imported' = None
    /\ UNCHANGED <<setVars, plan, applying, moved, finding, using>>

NoMapping == [key \in {} |-> key]

\* An apply reads the publication and the mapping of the latest one at this place.
ReadPublication(s, target, strategy) ==
    /\ pub # None /\ NobodyElse
    /\ applying' = [space |-> s, target |-> target, strategy |-> strategy,
                    items |-> pub.items, phase |-> "read",
                    map |-> IF imported # None /\ imported.space = s /\ imported.target = target
                            THEN imported.map ELSE NoMapping]
    /\ UNCHANGED <<setVars, plan, pub, imported, moved, finding, using>>

Application == PlaceAll(Begun(applying.space), applying.items, applying.target,
                        applying.map, applying.strategy)

\* The transaction.  One that changes nothing commits too, and its record is saved.
CommitApplication ==
    /\ applying # None /\ applying.phase = "read"
    /\ \/ Record(applying.space, Application.b)
       \/ /\ Application.b.ok /\ Application.b.sp = spaces[applying.space]
          /\ UNCHANGED <<spaces, minted, sets>>
    /\ applying' = [applying EXCEPT !.phase = "save",
                                    !.map = Placed(applying.items, Application.at)]
    /\ UNCHANGED <<pending, plan, pub, imported, moved, finding, using>>

\* SaveImport: the row, then its mappings one statement at a time.  A crash in between
\* leaves some of them, and one before leaves the old record.
SaveImport ==
    /\ applying # None /\ applying.phase = "save"
    /\ pub # None
    /\ \E kept \in SUBSET DOMAIN applying.map :
          imported' = [space |-> applying.space, target |-> applying.target,
                       map |-> [key \in kept |-> applying.map[key]]]
    /\ applying' = None
    /\ UNCHANGED <<setVars, plan, pub, moved, finding, using>>

\* The request dies, fails or is answered with an error: what it committed stays.
AbandonApplication ==
    /\ applying # None
    /\ applying' = None
    /\ UNCHANGED <<setVars, plan, pub, imported, moved, finding, using>>

---------------------------------------------------------------------------
(* Transfer *)

Deleted(s, n, number) ==
    Apply([Begun(s) EXCEPT !.number = number], [op |-> "delete", node |-> n])

\* Both sides and the record are one transaction.  A repeat finds the record, before
\* the transaction or by its primary key, and is answered from it.
Transfer(x, s, t, n, target, before) ==
    LET nodes == spaces[s].nodes
        in    == CopySubtree(Begun(t), nodes, n, target, before)
        out   == Deleted(s, n, Len(sets) + 2)
        ids   == BreadthFirst(nodes, n)
    IN  /\ x \notin DOMAIN moved
        /\ s # t /\ n \in DOMAIN nodes
        /\ in.ok /\ out.ok
        /\ in.sp.rev <= MaxRev /\ out.sp.rev <= MaxRev
        /\ Len(sets) + 2 <= MaxSets
        /\ in.minted <= Cardinality(NodeIds)
        /\ minted' = in.minted
        /\ spaces' = [spaces EXCEPT ![s] = out.sp, ![t] = in.sp]
        /\ sets' = sets \o <<ChangeSet(t, in, None, None), ChangeSet(s, out, None, None)>>
        /\ moved' = With(moved, x, [source |-> s, node |-> n, target |-> t, under |-> target,
                                    map |-> [m \in Range(ids) |-> FreshFor(Begun(t), ids, m)]])
        /\ UNCHANGED <<pending, plan, pub, applying, imported, finding, using>>

---------------------------------------------------------------------------
(* Findings of a link check *)

CheckLink(s, n) ==
    /\ NobodyElse
    /\ n \in DOMAIN spaces[s].nodes
    /\ LET node == spaces[s].nodes[n]
       IN  /\ node.type = "bookmark"
           /\ finding' = [space |-> s, node |-> n, epoch |-> spaces[s].epoch, url |-> node.url,
                          createdRev |-> node.createdRev, urlRev |-> node.urlRev,
                          rev |-> spaces[s].rev]
    /\ UNCHANGED <<setVars, plan, pub, applying, imported, moved, using>>

\* Mutant of Unchanged: the URL is compared, not its revision or the node's identity.
UnchangedByURL(sp, f) == f.node \in DOMAIN sp.nodes /\ sp.nodes[f.node].url = f.url

\* The preconditions of DeleteBookmarkIfUnchanged, read in its transaction.
Unchanged(sp, f) ==
    /\ sp.epoch = f.epoch
    /\ f.node \in DOMAIN sp.nodes
    /\ LET node == sp.nodes[f.node]
       IN  /\ node.type = "bookmark" /\ node.createdRev = f.createdRev
           /\ node.url = f.url /\ node.urlRev = f.urlRev

DeleteBookmarkIfUnchanged ==
    /\ finding # None
    /\ Unchanged(spaces[finding.space], finding)
    /\ Record(finding.space, Apply(Begun(finding.space), [op |-> "delete", node |-> finding.node]))
    /\ finding' = None
    /\ UNCHANGED <<pending, plan, pub, applying, imported, moved, using>>

---------------------------------------------------------------------------

\* The finding is dismissed, or refused because its bookmark changed.
DropFinding ==
    /\ finding # None /\ finding' = None
    /\ UNCHANGED <<setVars, plan, pub, applying, imported, moved, using>>

Strategies == {"merge", "replace"}

LibraryInit ==
    /\ Init
    /\ plan = None /\ pub = None /\ applying = None /\ imported = None /\ finding = None
    /\ moved = [x \in {} |-> x]
    /\ using \in DOMAIN Budget

Importing ==
    \/ \E s, from \in Spaces : Preview(s, from)
    \/ plan # None /\ \E target \in Places(plan.space), strategy \in Strategies :
          CheckPlan(target, strategy)
    \/ ApplyPlan
    \/ DropPlan

Publishing ==
    \/ \E s \in Publishers : \/ Publish(s, None, None)
                            \/ \E root \in NodeIds, title \in Titles : Publish(s, root, title)
    \/ Republish
    \/ \E title \in Titles : Retitle(title)
    \/ Unpublish
    \/ \E s \in Spaces \ Publishers, strategy \in Strategies : \E target \in Places(s) :
          Len(sets) < Budget[using] /\ ReadPublication(s, target, strategy)
    \/ CommitApplication
    \/ SaveImport
    \/ AbandonApplication

Transferring ==
    \E x \in TransferIds, s, t \in Spaces :
        \E n \in DOMAIN spaces[s].nodes, target \in Places(t) :
            \E before \in Children(spaces[t].nodes, target) \cup {None} :
                Transfer(x, s, t, n, target, before)

Checking ==
    \/ \E s \in Spaces, n \in NodeIds : CheckLink(s, n)
    \/ DeleteBookmarkIfUnchanged
    \/ DropFinding

LibraryNext ==
    \/ /\ Len(sets) < Budget[using]
       /\ Next
       /\ pending' # 0 => pending # 0 \/ NobodyElse
       /\ UNCHANGED copyVars
    \/ using = "import" /\ Importing /\ Len(sets') <= Budget[using]
    \/ using = "publication" /\ Publishing /\ Len(sets') <= Budget[using]
    \/ using = "transfer" /\ Len(sets) < Budget[using] /\ Transferring
    \/ using = "link check" /\ Checking /\ Len(sets') <= Budget[using]

LibrarySpec == LibraryInit /\ [][LibraryNext]_vars

---------------------------------------------------------------------------
(* Properties *)

\* A transfer conserves: what leaves one space arrives in the other under new ids with
\* the same fields, below the same (copied) parents and in the same order, and no other
\* node of either space comes, goes or changes its content.
TransferConserves ==
    [][\A x \in DOMAIN moved' \ DOMAIN moved :
          LET m    == moved'[x]
              src  == spaces[m.source].nodes
              tgt  == spaces'[m.target].nodes
              Fields(node) == <<node.type, node.title, node.url>>
          IN  /\ DOMAIN m.map = SubtreeIDs(src, m.node)
              /\ DOMAIN spaces'[m.source].nodes = DOMAIN src \ DOMAIN m.map
              /\ DOMAIN tgt = DOMAIN spaces[m.target].nodes \cup Range(m.map)
              /\ DOMAIN spaces[m.target].nodes \cap Range(m.map) = {}
              /\ IsInjective(m.map)
              /\ \A n \in DOMAIN m.map :
                    /\ Fields(tgt[m.map[n]]) = Fields(src[n])
                    /\ tgt[m.map[n]].parent = IF n = m.node THEN m.under ELSE m.map[src[n].parent]
                    /\ \A k \in DOMAIN m.map \ {m.node} : n # m.node /\ src[k].parent = src[n].parent =>
                          (src[k].pos < src[n].pos <=> tgt[m.map[k]].pos < tgt[m.map[n]].pos)
              /\ \A n \in DOMAIN spaces[m.target].nodes :
                    Contents(tgt)[n] = Contents(spaces[m.target].nodes)[n]]_vars

\* In a folder it makes, an import takes the later of a folder and a bookmark for the
\* earlier when the title of the one is the URL of the other.
Mistaken(items, made) ==
    {k \in DOMAIN items :
        /\ items[k].under \in made
        /\ \E j \in 1 .. k - 1 : /\ items[j].under = items[k].under
                                /\ items[j].type # items[k].type
                                /\ Name(items[j]) = Name(items[k])}

\* The items have arrived: each on a live node, which has its kind and, unless it is the
\* node of another item as well, its name, a title or a URL; a new node is where its item
\* is.  Only of those that are mistaken the kind and the name are lost.  A merge removes
\* nothing, and leaves all other nodes as they were.
Arrived(old, new, items, at, mistaken, target, strategy) ==
    /\ \A k \in DOMAIN items :
          /\ at[k] \in DOMAIN new
          /\ k \notin mistaken =>
                /\ new[at[k]].type = items[k].type
                /\ (\A j \in DOMAIN items \ {k} : at[j] # at[k]) =>
                      Name(new[at[k]]) = Name(items[k])
          /\ at[k] \notin DOMAIN old => new[at[k]].parent = Under(at, target, items[k])
    /\ DOMAIN new \ DOMAIN old \subseteq Range(at)
    /\ strategy = "merge" =>
          /\ DOMAIN old \subseteq DOMAIN new
          /\ \A n \in DOMAIN old \ Range(at) : new[n] = old[n]
          /\ \A n \in DOMAIN old : new[n].parent = old[n].parent

\* Whatever the consumer did to the target between the moment a file was previewed or a
\* publication and its mapping were read and the transaction (plaza.go, transfer.Apply):
\* every item is there afterwards and a merge has taken nothing away.  The exception is
\* what an import mistakes in the folders it makes (transfer/service.go:439-440).
TreesArrive ==
    [][/\ plan # None /\ plan' = None /\ sets' # sets =>
              Arrived(spaces[plan.space].nodes, spaces'[plan.space].nodes, plan.items,
                      Merged.at, Mistaken(plan.items, Merged.made), plan.target, plan.strategy)
       /\ applying # None /\ applying' # None /\ applying'.phase # applying.phase =>
              Arrived(spaces[applying.space].nodes, spaces'[applying.space].nodes, applying.items,
                      Application.at, {}, applying.target, applying.strategy)]_vars

\* A bookmark is deleted on the word of a link check only if it is the very bookmark the
\* check has seen: since then, in the same epoch, nobody has written its URL, and it has
\* not been deleted and revived (library/service.go, BookmarkDeleteCondition).
DeletesWhatWasChecked ==
    [][finding # None /\ finding' = None /\ sets' # sets =>
          LET sp == spaces[finding.space]
          IN  /\ finding.epoch = sp.epoch
              /\ \A r \in finding.rev + 1 .. sp.rev :
                    sp.journal[r].node = finding.node =>
                        sp.journal[r].type \in {"update_title", "move"}]_vars

\* doc 11: the plan of an import is bound to the target's epoch and revision; one that
\* is stale when it is confirmed is previewed again.
AppliedAsPreviewed ==
    [][plan # None /\ plan' = None /\ sets' # sets => plan.seenAt = Now(plan.space)]_vars
=============================================================================
