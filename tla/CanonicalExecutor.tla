------------------------- MODULE CanonicalExecutor -------------------------
(***************************************************************************)
(* The canonical executor as a state machine: one action per command, each *)
(* the whole transaction of Executor.Execute.  A command that fails its    *)
(* validation rolls back and is not a step.  SQLite runs on one connection *)
(* (sqlite.go, SetMaxOpenConns(1)), so transactions are atomic steps.      *)
(***************************************************************************)
EXTENDS CanonicalTree

CONSTANT MaxRev   \* bound on the revision counter, for model checking

VARIABLES
    space,   \* the space's rows
    minted   \* ids handed out so far: UUIDv7 never repeats one

treeVars == <<space, minted>>

EmptySpace ==
    [epoch |-> 1, rev |-> 0, floor |-> 0, slots |-> RootKeys,
     nodes |-> [n \in {} |-> n], tomb |-> [n \in {} |-> n], journal |-> [r \in {} |-> r]]

Init == space = EmptySpace /\ minted = {}

Run(c, origin) ==
    /\ space.rev < MaxRev
    /\ CanExecute(space, c)
    /\ space' = Execute(space, c, origin)

Create(o) ==
    \E c \in Creations :
        /\ c.node \notin minted
        /\ Run(c, o)
        /\ minted' = minted \cup {c.node}

UpdateTitle(o) == (\E c \in TitleUpdates : Run(c, o)) /\ UNCHANGED minted

UpdateURL(o) == (\E c \in URLUpdates : Run(c, o)) /\ UNCHANGED minted

Move(o) == (\E c \in Movements : Run(c, o)) /\ UNCHANGED minted

Delete(o) == (\E c \in Deletions : Run(c, o)) /\ UNCHANGED minted

\* Any one command, on behalf of o.
Command(o) == Create(o) \/ UpdateTitle(o) \/ UpdateURL(o) \/ Move(o) \/ Delete(o)

Next == \E o \in Origins : Command(o)

Spec == Init /\ [][Next]_treeVars

---------------------------------------------------------------------------
(* Properties *)

\* The rows of the tables have the columns the schema gives them.
TypeOK ==
    /\ IsSpace(space)
    /\ minted \subseteq NodeIds
    /\ DOMAIN space.nodes \cup DOMAIN space.tomb \subseteq minted

\* The tree the executor leaves is a tree: every parent is a live folder or an
\* existing root slot, and no folder is below itself, whatever moves and subtree
\* deletes did before (doc 22 C.2, C.3, C.6).
TreeWellFormed ==
    /\ \A n \in DOMAIN space.nodes : ValidParent(space, space.nodes[n].parent)
    /\ Acyclic(space.nodes)

\* Siblings are numbered 0, 1, 2, ... without gap or tie after every command: the
\* order a device computes indexes from is total (executor.go, dense reindex).
SiblingsDense ==
    \A p \in ParentRefs :
        LET kids == Children(space.nodes, p)
        IN  {space.nodes[n].pos : n \in kids} = 0 .. Cardinality(kids) - 1

\* A field revision names the row that wrote the field's present value.  The
\* conflict decision compares it with an operation's base and reads that row's
\* origin, so a revision left behind would lose or refuse an edit wrongly.
FieldRevisionsJournaled ==
    \A n \in DOMAIN space.nodes :
        LET node == space.nodes[n]
            Wrote(rev, field) ==
                rev > space.floor =>
                    /\ rev \in DOMAIN space.journal
                    /\ space.journal[rev].node = n
                    /\ field \in DOMAIN space.journal[rev].payload
                    /\ space.journal[rev].payload[field] = node[field]
        IN  /\ Wrote(node.titleRev, "title")
            /\ Wrote(node.urlRev, "url")
            /\ Wrote(node.structRev, "parent")

\* The last row of a field is the one its revision names: no later row of the
\* journal writes the same field of the node.
FieldRevisionsLatest ==
    \A r \in DOMAIN space.journal :
        LET row == space.journal[r]
        IN  row.node \in DOMAIN space.nodes =>
                LET node == space.nodes[row.node]
                IN  /\ "title" \in DOMAIN row.payload => r <= node.titleRev
                    /\ "url" \in DOMAIN row.payload => r <= node.urlRev
                    /\ "parent" \in DOMAIN row.payload => r <= node.structRev

\* A node is live or has a tombstone, never both, and the tombstone's revision is
\* that of a delete row: of the node itself or of a folder above it.
TombstonesExact ==
    /\ DOMAIN space.nodes \cap DOMAIN space.tomb = {}
    /\ \A r \in DOMAIN space.journal :
           /\ space.journal[r].type = "create" =>
                  space.journal[r].node \in DOMAIN space.nodes \cup DOMAIN space.tomb
           /\ space.journal[r].type = "delete" =>
                  /\ space.journal[r].node \in DOMAIN space.tomb
                  /\ space.journal[r].payload.count =
                         Cardinality({n \in DOMAIN space.tomb : space.tomb[n] = r})

\* The numbering of siblings, the field revisions and the tombstones agree with the rows
\* of the journal, whichever commands were executed before (executor.go:98-481).
RowsConsistent ==
    /\ SiblingsDense
    /\ FieldRevisionsJournaled
    /\ FieldRevisionsLatest
    /\ TombstonesExact
=============================================================================
