----------------------------- MODULE SyncDecide -----------------------------
(***************************************************************************)
(* How the server answers one device operation: the decisions of           *)
(* server/internal/sync/decide.go as one operator, Decide.  An operation is*)
(* what the device captured: cmd, the command it asks for; base, the       *)
(* revision it had applied; seq, its client_seq.  An answer is the         *)
(* operation result and the space the transaction leaves; status "error"   *)
(* stands for a failed statement, which rolls the transaction back and ends*)
(* the request without a result.                                           *)
(***************************************************************************)
EXTENDS CanonicalTree

CONSTANT Bindings  \* the devices' bindings to the space

\* The absent reason is none of the reasons a parent is refused for.
ASSUME NoneIsNoReason == None \notin {"parent_deleted", "invalid_parent", "parent_not_folder"}

\* recoveryRootKey: the container for what the device made below a deleted folder.
RecoveryRootKey(b) == <<"recovered", b>>

DeviceOrigin(b, seq) == [binding |-> b, seq |-> seq]

\* An edit made on the web or by the server: its row has no origin binding.
WebOrigin == [binding |-> None, seq |-> 0]

Answer(sp, status, reason, settle) ==
    [sp |-> sp, status |-> status, reason |-> reason, settle |-> settle]

Rejected(sp, reason) == Answer(sp, "REJECTED", reason, 0)

Failed(sp) == Answer(sp, "error", "internal", 0)

---------------------------------------------------------------------------
\* applyCommand.  What the executor refuses at this point is an empty title or
\* URL, or a folder moved below itself.
Applied(sp, b, op, cmd) ==
    IF CanExecute(sp, cmd)
    THEN LET done == Execute(sp, cmd, DeviceOrigin(b, op.seq))
         IN  Answer(done, "APPLIED", "", done.rev)
    ELSE Rejected(sp, IF cmd.op = "move" THEN "tree_cycle" ELSE "invalid_payload")

\* An operation that lost its parent or its anchor says so, whatever applyCommand
\* answered: a command that was refused is not called so any more.
Relabelled(answer, status, reason) == [answer EXCEPT !.status = status, !.reason = reason]

\* Mutant of GoneAnswer: the answer does not say which delete it lost to.
GoneAnswerUnsettled(sp, op, status, reason) ==
    IF op.cmd.node \in DOMAIN sp.tomb THEN Answer(sp, status, reason, 0)
    ELSE Rejected(sp, "invalid_target")

\* deletedTargetResult: the operation's target is not in the tree.
GoneAnswer(sp, op, status, reason) ==
    IF op.cmd.node \in DOMAIN sp.tomb
    THEN Answer(sp, status, reason, sp.tomb[op.cmd.node])
    ELSE Rejected(sp, "invalid_target")

\* sameBindingCausal: the device wrote rev itself, before this operation.
SameBindingCausal(sp, b, rev, op) ==
    /\ rev \in DOMAIN sp.journal
    /\ sp.journal[rev].origin.binding = b
    /\ sp.journal[rev].origin.seq < op.seq

\* LoadJournalOrigin scans origin_binding_id into a string: a NULL is an error.
OriginUnreadable(sp, rev) ==
    rev \in DOMAIN sp.journal /\ sp.journal[rev].origin.binding = None

\* Mutant of Concurrent: the row after the base counts as seen.
ConcurrentNextSeen(sp, b, rev, op) == rev > op.base + 1 /\ ~SameBindingCausal(sp, b, rev, op)

\* The field was written after the operation's base, and not by the device before.
Concurrent(sp, b, rev, op) == rev > op.base /\ ~SameBindingCausal(sp, b, rev, op)

AnchorGone(sp, cmd) == cmd.before # None /\ cmd.before \notin Children(sp.nodes, cmd.parent)

AnchorGoneReason(sp, anchor) ==
    IF anchor \notin DOMAIN sp.tomb /\ anchor \in DOMAIN sp.nodes THEN "anchor_moved"
                                                                  ELSE "anchor_deleted"

\* The command runs at the parent asked for; an anchor that left it means append.
AppliedAtParent(sp, b, op) ==
    IF AnchorGone(sp, op.cmd)
    THEN Relabelled(Applied(sp, b, op, [op.cmd EXCEPT !.before = None]),
                    "REBASED", AnchorGoneReason(sp, op.cmd.before))
    ELSE Applied(sp, b, op, op.cmd)

GoneParent(sp, p) == p \in NodeIds /\ p \notin DOMAIN sp.nodes

\* The reason a create or move is refused for its parent, None when it is not.
\* For a create a parent with a tombstone is not refused here (Recovered).
ParentRefusal(sp, p) ==
    CASE GoneParent(sp, p) -> IF p \in DOMAIN sp.tomb THEN "parent_deleted" ELSE "invalid_parent"
      [] p \in RootKeys \ sp.slots -> "invalid_parent"
      [] p \in DOMAIN sp.nodes /\ sp.nodes[p].type # "folder" -> "parent_not_folder"
      [] OTHER -> None

\* Mutant of Recovered: an operation below a deleted folder is refused.
RecoveredRefused(sp, b, op) == Rejected(sp, "parent_deleted")

\* New data below a deleted folder goes to the device's recovery container.  Its
\* slot is inserted unconditionally (EnsureRootSlot): a second insert of the key
\* fails.
Recovered(sp, b, op) ==
    IF RecoveryRootKey(b) \in sp.slots THEN Failed(sp)
    ELSE Relabelled(Applied([sp EXCEPT !.slots = @ \cup {RecoveryRootKey(b)}], b, op,
                            [op.cmd EXCEPT !.parent = RecoveryRootKey(b), !.before = None]),
                    "RECOVERED", "parent_deleted")

DecideCreate(sp, b, op) ==
    LET refusal == ParentRefusal(sp, op.cmd.parent)
    IN  IF op.cmd.node \in DOMAIN sp.nodes
        THEN Answer(sp, "NOOP", "already_exists", sp.nodes[op.cmd.node].createdRev)
        ELSE IF refusal = "parent_deleted" THEN Recovered(sp, b, op)
        ELSE IF refusal # None THEN Rejected(sp, refusal)
        ELSE IF op.cmd.before = op.cmd.node THEN Rejected(sp, "invalid_anchor")
        ELSE AppliedAtParent(sp, b, op)

\* One field of a node, title or url: rev and current are its revision and value.
DecideField(sp, b, op, rev, current, wanted) ==
    IF rev > op.base /\ OriginUnreadable(sp, rev) THEN Failed(sp)
    ELSE IF Concurrent(sp, b, rev, op)
    THEN Answer(sp, IF current = wanted THEN "NOOP" ELSE "CONFLICT", "concurrent_update", rev)
    ELSE Applied(sp, b, op, op.cmd)

DecideUpdate(sp, b, op) ==
    IF op.cmd.node \notin DOMAIN sp.nodes THEN GoneAnswer(sp, op, "REJECTED", "target_deleted")
    ELSE LET node == sp.nodes[op.cmd.node]
         IN  CASE op.cmd.op = "update_title" ->
                      DecideField(sp, b, op, node.titleRev, node.title, op.cmd.title)
               [] op.cmd.op = "update_url" ->
                      IF node.type # "bookmark" THEN Rejected(sp, "not_bookmark")
                      ELSE DecideField(sp, b, op, node.urlRev, node.url, op.cmd.url)

\* The place asked for, gone anchors taken as append, is the one the node has.
AtIntendedPlace(sp, op) ==
    AlreadyInPlace(sp, [op.cmd EXCEPT !.before = IF AnchorGone(sp, op.cmd) THEN None ELSE @])

DecideMove(sp, b, op) ==
    IF op.cmd.node \notin DOMAIN sp.nodes THEN GoneAnswer(sp, op, "REJECTED", "target_deleted")
    ELSE LET rev     == sp.nodes[op.cmd.node].structRev
             refusal == ParentRefusal(sp, op.cmd.parent)
         IN  IF refusal # None THEN Rejected(sp, refusal)
             ELSE IF op.cmd.before = op.cmd.node THEN Rejected(sp, "invalid_anchor")
             ELSE IF AtIntendedPlace(sp, op) THEN Answer(sp, "NOOP", "already_in_place", rev)
             ELSE IF rev > op.base /\ OriginUnreadable(sp, rev) THEN Failed(sp)
             ELSE IF Concurrent(sp, b, rev, op)
                  THEN Answer(sp, "CONFLICT", "concurrent_move", rev)
                  ELSE AppliedAtParent(sp, b, op)

DecideDelete(sp, b, op) ==
    IF op.cmd.node \notin DOMAIN sp.nodes THEN GoneAnswer(sp, op, "NOOP", "already_deleted")
    ELSE Applied(sp, b, op, op.cmd)

Decide(sp, b, op) ==
    CASE op.cmd.op = "create" -> DecideCreate(sp, b, op)
      [] op.cmd.op \in {"update_title", "update_url"} -> DecideUpdate(sp, b, op)
      [] op.cmd.op = "move" -> DecideMove(sp, b, op)
      [] op.cmd.op = "delete" -> DecideDelete(sp, b, op)
=============================================================================
