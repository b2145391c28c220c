--------------------------- MODULE JournalReplay ---------------------------
(***************************************************************************)
(* A device that follows one Space: the canonical executor writes journal  *)
(* rows, and the device applies them in revision order, each when it gets  *)
(* to it (strictly serial apply, syncCoordinator.ts).  Two copies are kept *)
(* from the same rows: the browser with its mirror, and the replayed tree. *)
(***************************************************************************)
EXTENDS CanonicalExecutor, ReplicaTree

VARIABLES
    replica,   \* what the applier has made of the rows up to applied
    replayed,  \* what the replay makes of the same rows
    applied    \* appliedRevision of the binding

vars == <<treeVars, replica, replayed, applied>>

ReplayInit ==
    /\ Init
    /\ replica = EmptyReplica
    /\ replayed = [n \in {} |-> n]
    /\ applied = 0

Write == Next /\ UNCHANGED <<replica, replayed, applied>>

\* The row after appliedRevision; applyChange refuses any other.
ApplyNext ==
    /\ applied < space.rev
    /\ ~Unmapped(replica, space.journal[applied + 1])
    /\ LET row == space.journal[applied + 1]
       IN  /\ replica' = ApplyChange(replica, row)
           /\ replayed' = ReplayChange(replayed, row)
    /\ applied' = applied + 1
    /\ UNCHANGED treeVars

\* The user bookmarks a page; the node stays unmapped.
AddLocal(l, p, i) ==
    /\ \A q \in ParentRefs : l \notin Range(replica.browser[q])
    /\ p \in RootKeys \cup DOMAIN replica.mirror
    /\ i \in 1 .. Len(replica.browser[p]) + 1
    /\ replica' = [replica EXCEPT !.browser[p] = InsertAt(@, i, l)]
    /\ UNCHANGED <<treeVars, replayed, applied>>

ReplayNext ==
    \/ Write
    \/ ApplyNext
    \/ \E l \in Locals, p \in ParentRefs, i \in 1 .. Cardinality(NodeIds \cup Locals) :
           AddLocal(l, p, i)

ReplaySpec == ReplayInit /\ [][ReplayNext]_vars

---------------------------------------------------------------------------
(* Properties *)

CaughtUp == applied = space.rev

\* The mapped children of p stand in the browser in the order of the server's positions.
InServerOrder(p) ==
    \A m, n \in Children(space.nodes, p) :
        Before(replica.browser[p], m, n) <=> space.nodes[m].pos < space.nodes[n].pos

\* Rows in revision order never name a node or a parent folder the device has not
\* mapped: a device that skips none never has to fall back to recovery
\* (UnmappedProjectionError), however far behind it is.
NextRowApplies ==
    applied < space.rev => ~Unmapped(replica, space.journal[applied + 1])

\* A device that has applied every revision holds exactly the live nodes, each with
\* the server's title, URL and parent, and each is one browser node under that
\* parent: rows carry enough to rebuild the tree, whatever local bookmarks the
\* browser has beside them.  And it gets there: the next row always applies.
ReplicaContent ==
    /\ NextRowApplies
    /\ CaughtUp =>
        /\ DOMAIN replica.mirror = DOMAIN space.nodes
        /\ \A n \in DOMAIN space.nodes :
               /\ replica.mirror[n].title = space.nodes[n].title
               /\ replica.mirror[n].url = space.nodes[n].url
               /\ replica.mirror[n].parent = space.nodes[n].parent
        /\ \A p \in ParentRefs :
               /\ Range(replica.browser[p]) \cap NodeIds = Children(space.nodes, p)
               /\ IsInjective(replica.browser[p])

\* As long as no subtree has been deleted, the browser also shows the server's
\* order, local bookmarks between the mapped ones or not, and every mirror row
\* holds the server's position.
OrderKeptUntilDelete ==
    CaughtUp /\ DOMAIN space.tomb = {} =>
        /\ \A p \in ParentRefs : InServerOrder(p)
        /\ \A n \in DOMAIN space.nodes : replica.mirror[n].pos = space.nodes[n].pos

\* A replay of the rows has the server's nodes, fields and parents.  Not its order:
\* the replay shifts no sibling (canonicalTree.ts:44-97).
ReplayContent ==
    CaughtUp =>
        /\ DOMAIN replayed = DOMAIN space.nodes
        /\ \A n \in DOMAIN replayed :
               /\ replayed[n].title = space.nodes[n].title
               /\ replayed[n].url = space.nodes[n].url
               /\ replayed[n].parent = space.nodes[n].parent

\* remoteChangeApplierOrdering.test.ts:1-3: "the browser has to end up in that
\* order" - the server's canonical positions.
BrowserOrderIsCanonical ==
    CaughtUp => \A p \in ParentRefs : InServerOrder(p)
=============================================================================
