----------------------------- MODULE Reconcile -----------------------------
(***************************************************************************)
(* One reconciliation of one binding, end to end: the server's session     *)
(* (src/server/internal/reconcile/service.go), the extension that drives   *)
(* it (src/extension/src/core/sync/initialReconcile.ts), and what happens  *)
(* beside it: the web edits the space, a backup is restored, the worker    *)
(* dies, the user removes a bookmark.                                      *)
(*                                                                         *)
(* The server computes a plan outside any transaction, so planning takes   *)
(* two steps; every other call is one.  The extension reads the session's  *)
(* phase and makes the call it asks for in one step: the server checks the *)
(* phase again.                                                            *)
(***************************************************************************)
EXTENDS ReconcileSteps

CONSTANTS
    Type,          \* the session type: "initial", "recovery" or "full_resync"
    Starts,        \* what there is at first: [server, browser, mirror, queued, backup],
                   \* the browser tree over the root slots this binding mounts, the
                   \* browser ids with a queued create, the canonical tree of a backup
    Edits,         \* the commands the web may run
    MaxFaults      \* bound: web edits, restores, kills and removals together

Kinds == {"create", "update_title", "update_url", "move", "delete"}

ASSUME MountsAreSlots == \A s \in Starts : s.browser.roots \subseteq RootKeys
ASSUME EditsAreCommands == \A c \in Edits : c.op \in Kinds

VARIABLES
    sp,        \* the Sync Space
    backup,    \* the canonical tree a restore brings; its nodes keep their ids
    binding,   \* its device_space_bindings row: state, epoch, applied revision
    sess,      \* the latest reconciliations row of the binding, or None
    planning,  \* a Plan or Decide call that has not stored its plan yet, or None
    browser,   \* the mounted browser tree
    mirror,    \* the mapping, browser id -> canonical id
    outbox,    \* the browser ids with a queued create
    client,    \* the extension's session record and the pass it is in
    agreed,    \* what the committed steps lead to: a tree and its epoch and revision
    faults     \* how many faults have happened

vars == <<sp, backup, binding, sess, planning, browser, mirror, outbox, client, agreed, faults>>

\* A tree as a space: the numbers of a fresh baseline.
Space(epoch, tree) ==
    [epoch |-> epoch, rev |-> 0, floor |-> 0, slots |-> RootKeys,
     nodes |-> [n \in Refs(tree) |->
         LET x == tree.node[n]
             row == tree.kids[x.parent]
         IN  [type |-> x.type, title |-> x.title, url |-> x.url, parent |-> x.parent,
              pos |-> (CHOOSE i \in DOMAIN row : row[i] = n) - 1,
              createdRev |-> 0, titleRev |-> 0, urlRev |-> 0, structRev |-> 0]],
     tomb |-> <<>>, journal |-> <<>>]

\* The canonical tree, siblings by position.
TreeOf(space) ==
    [roots |-> space.slots,
     node |-> [n \in DOMAIN space.nodes |-> LET x == space.nodes[n] IN
                  [parent |-> x.parent, type |-> x.type, title |-> x.title,
                   url |-> x.url, cid |-> n]],
     kids |-> [c \in space.slots \cup DOMAIN space.nodes |->
                  LET S == Children(space.nodes, c)
                  IN  [i \in 1..Cardinality(S) |->
                          CHOOSE n \in S : Rank(space.nodes, S, n) = i - 1]]]

\* Runs a command.  Nothing here reads the journal, so it is not kept.
Ran(space, c) == [Execute(space, c, None) EXCEPT !.journal = <<>>, !.tomb = <<>>]

\* The primitives a stored plan may hold; it decodes as a list of them or not at all.
Primitives ==
    [op : Kinds, id : NodeIds, node : NodeIds, type : {"folder", "bookmark"}, title : Titles,
     url : Urls \cup {None}, parent : ParentRefs \cup {None}, before : NodeIds \cup {None}]

Decodes(plan) == plan \in Seq(Primitives)

\* A plan runs in one transaction: one command that fails undoes the others.
Result(space, plan) ==
    LET run(st, op) == IF st.ok /\ CanExecute(st.space, op)
                       THEN [ok |-> TRUE, space |-> Ran(st.space, op)]
                       ELSE [st EXCEPT !.ok = FALSE]
        after[k \in 0 .. Len(plan)] ==
            IF k = 0 THEN [ok |-> TRUE, space |-> space] ELSE run(after[k - 1], plan[k])
    IN  after[Len(plan)]

---------------------------------------------------------------------------
(* Sessions *)

Open(s) == s # None /\ s.state \in {"running", "waiting_user"}

NewSession ==
    [state |-> "running", phase |-> "collecting", client |-> None, frozen |-> None,
     epoch |-> 0, rev |-> 0, plan |-> <<>>, steps |-> <<>>, issues |-> <<>>, desired |-> None,
     committed |-> FALSE, commitRev |-> 0]

\* Nothing is committed yet; the epochs of a space begin at 1.
NothingAgreed == [tree |-> None, epoch |-> 0, rev |-> 0]

\* The extension has no pass running and knows of no session.
NoSession == [known |-> FALSE, refs |-> {}, steps |-> None, at |-> 0, done |-> FALSE]

Init ==
    /\ binding = [state |-> IF Type = "initial" THEN "pending_initial" ELSE "active",
                  epoch |-> 1, base |-> 0]
    /\ \E s \in Starts : /\ sp = Space(1, s.server) /\ backup = s.backup
                          /\ browser = s.browser /\ mirror = s.mirror /\ outbox = s.queued
    /\ sess = None /\ planning = None
    /\ client = NoSession /\ agreed = NothingAgreed /\ faults = 0

\* POST reconciliations.
CreateSession ==
    /\ ~client.known /\ ~client.done /\ ~Open(sess)
    /\ binding.state = (IF Type = "initial" THEN "pending_initial" ELSE "active")
    /\ sess' = NewSession
    /\ UNCHANGED <<sp, binding, planning, browser, mirror, outbox, client, agreed, faults>>

\* The extension stores the session's id, from the answer or, when that was lost,
\* from the active session it is refused for.
KeepSession ==
    /\ ~client.known /\ Open(sess)
    /\ client' = [client EXCEPT !.known = TRUE]
    /\ UNCHANGED <<sp, binding, sess, planning, browser, mirror, outbox, agreed, faults>>

Snapshot ==
    [roots |-> browser.roots,
     node |-> [b \in Refs(browser) |-> LET x == browser.node[b] IN
                  [parent |-> x.parent, type |-> x.type, title |-> x.title, url |-> x.url,
                   cid |-> IF Type = "full_resync" /\ b \in DOMAIN mirror
                           THEN mirror[b] ELSE None]],
     kids |-> browser.kids]

\* Mutant of SubmitSnapshot: the refs are not persisted.
SubmitSnapshotOnly ==
    /\ client.known /\ Open(sess) /\ sess.phase = "collecting"
    /\ sess' = [sess EXCEPT !.client = Snapshot, !.phase = "snapshot_ready"]
    /\ UNCHANGED <<sp, binding, planning, browser, mirror, outbox, client, agreed, faults>>

\* The refs are persisted first, then the snapshot is sent.
SubmitSnapshot ==
    /\ client.known /\ Open(sess) /\ sess.phase = "collecting"
    /\ client' = [client EXCEPT !.refs = Refs(browser)]
    /\ sess' = [sess EXCEPT !.client = Snapshot, !.phase = "snapshot_ready"]
    /\ UNCHANGED <<sp, binding, planning, browser, mirror, outbox, agreed, faults>>

Frozen(s) == [s EXCEPT !.frozen = TreeOf(sp), !.epoch = sp.epoch, !.rev = sp.rev,
                       !.phase = "server_ready"]

CreateServerSnapshot ==
    /\ client.known /\ Open(sess) /\ sess.phase = "snapshot_ready"
    /\ sess' = Frozen(sess)
    /\ UNCHANGED <<sp, binding, planning, browser, mirror, outbox, client, agreed, faults>>

---------------------------------------------------------------------------
(* Planning *)

Stale(s) == s.epoch # sp.epoch \/ s.rev # sp.rev

\* Fresh ids, one for each node of the client's snapshot that may need one.
FreshIds(s) ==
    LET used == DOMAIN sp.nodes \cup Refs(s.frozen) \cup Range(mirror)
                \cup {s.steps[i].id : i \in DOMAIN s.steps}
                \cup Refs(backup) \cup {c.node : c \in Edits}
        below(S, x) == Cardinality({y \in S : y < x})
    IN  [b \in Refs(s.client) |->
            CHOOSE i \in NodeIds \ used : below(NodeIds \ used, i) = below(Refs(s.client), b)]

Match(s) == IF Type = "full_resync" THEN MatchByCanonicalID(s.frozen, s.client)
                                    ELSE MatchExact(s.client, s.frozen)

Strategy == CASE Type = "initial" -> "merge" [] Type = "recovery" -> "preserve"
              [] Type = "full_resync" -> "replace"

\* A source root the target lacks, or a decision no candidate answers, is an error.
CanCompute(s, choice) ==
    /\ Type = "full_resync" => s.frozen.roots \subseteq s.client.roots
    /\ CanFold(Match(s), choice)

\* Mutant of ServerPlan: a first reconciliation leaves the space as it is, too.
ServerPlanNone(s, desired) == <<>>

\* Only an initial session changes the space.
ServerPlan(s, desired) ==
    IF Type = "initial"
    THEN BuildPlan(s.frozen, desired, [id \in DOMAIN desired.node \cap Refs(s.frozen) |-> id])
    ELSE <<>>

\* computeAndStorePlan up to the first write.
Computed(s, choice) ==
    LET match   == FoldDecisions(Match(s), choice)
        fresh   == FreshIds(s)
        desired == IF Type = "full_resync"
                   THEN BuildDesired(match, s.frozen, s.client, Strategy, fresh)
                   ELSE BuildDesired(match, s.client, s.frozen, Strategy, fresh)
    IN  [plan |-> ServerPlan(s, desired),
         steps |-> DeriveClientSteps(s.client, desired, Type # "full_resync"),
         issues |-> match.open, desired |-> desired]

\* Why a commit answers PLAN_STALE.
PlanStale(s) == IF Type = "initial" THEN Stale(s) ELSE s.epoch # sp.epoch

\* A server_ready session is planned; one whose commit is stale is planned again.
Plan ==
    /\ client.known /\ Open(sess) /\ planning = None
    /\ \/ sess.phase = "server_ready"
       \/ sess.phase = "planned" /\ sess.state = "running" /\ PlanStale(sess)
    /\ LET s == IF Stale(sess) THEN Frozen(sess) ELSE sess IN
       /\ CanCompute(s, <<>>)
       /\ sess' = s
       /\ planning' = Computed(s, <<>>)
    /\ UNCHANGED <<sp, binding, browser, mirror, outbox, client, agreed, faults>>

\* The user answers each open issue with a candidate, or leaves it at the default.
Decide ==
    /\ client.known /\ Open(sess) /\ planning = None /\ sess.state = "waiting_user"
    /\ \E choice \in [DOMAIN sess.issues ->
                          UNION {sess.issues[s] : s \in DOMAIN sess.issues} \cup {None}] :
        /\ CanCompute(sess, choice)
        /\ planning' = Computed(sess, choice)
    /\ UNCHANGED <<sp, binding, sess, browser, mirror, outbox, client, agreed, faults>>

\* The plan, the steps and the issues are stored, whatever became of the session.
StorePlan ==
    /\ planning # None
    /\ sess' = [sess EXCEPT !.plan = planning.plan, !.steps = planning.steps,
                            !.issues = planning.issues, !.desired = planning.desired,
                            !.phase = "planned",
                            !.state = IF DOMAIN planning.issues = {} THEN "running"
                                                                ELSE "waiting_user"]
    /\ planning' = None
    /\ UNCHANGED <<sp, binding, browser, mirror, outbox, client, agreed, faults>>

---------------------------------------------------------------------------
(* Commit, apply, complete *)

Commit ==
    /\ client.known /\ planning = None
    /\ Open(sess) /\ sess.state = "running" /\ sess.phase = "planned"
    /\ ~PlanStale(sess)
    /\ Decodes(sess.plan) /\ Result(sp, sess.plan).ok
    /\ sp' = Result(sp, sess.plan).space
    /\ sess' = [sess EXCEPT !.committed = TRUE, !.commitRev = sp'.rev, !.phase = "committed"]
    /\ agreed' = IF Type = "initial"
                 THEN [tree |-> TreeOf(sp'), epoch |-> sp'.epoch, rev |-> sp'.rev]
                 ELSE [tree |-> sess.frozen, epoch |-> sess.epoch, rev |-> sess.rev]
    /\ UNCHANGED <<binding, planning, browser, mirror, outbox, client, faults>>

FetchSteps ==
    /\ client.known /\ client.steps = None
    /\ Open(sess) /\ sess.state = "running" /\ sess.phase = "committed"
    /\ client' = [client EXCEPT !.steps = sess.steps, !.at = 1]
    /\ UNCHANGED <<sp, binding, sess, planning, browser, mirror, outbox, agreed, faults>>

Applying == client.steps # None /\ client.at <= Len(client.steps)
Step == client.steps[client.at]
NewNode == CHOOSE b \in BrowserIds \ (Refs(browser) \cup DOMAIN mirror \cup client.refs) : TRUE

ApplyStep ==
    /\ Applying /\ Resolves(browser, mirror, client.refs, Step)
    /\ browser' = InBrowser(browser, mirror, client.refs, Step, NewNode)
    /\ mirror' = InMirror(browser, mirror, client.refs, Step, NewNode)
    /\ client' = [client EXCEPT !.at = @ + 1]
    /\ UNCHANGED <<sp, binding, sess, planning, outbox, agreed, faults>>

\* A step that resolves to nothing, or a plan that did not land, ends the pass.
PassFails ==
    /\ client.steps # None
    /\ IF Applying THEN ~Resolves(browser, mirror, client.refs, Step)
                   ELSE ~Verified(browser, mirror, client.steps)
    /\ client' = [client EXCEPT !.steps = None, !.at = 0]
    /\ UNCHANGED <<sp, binding, sess, planning, browser, mirror, outbox, agreed, faults>>

\* Mutant of Baseline: the snapshot's revision also where the commit went past it.
BaselineOfSnapshot == sess.rev

\* The commit's head after an initial merge, the snapshot's point otherwise.
Baseline == IF Type = "initial" THEN sess.commitRev ELSE sess.rev

Complete ==
    /\ client.steps # None /\ ~Applying
    /\ Verified(browser, mirror, client.steps)
    /\ Open(sess) /\ sess.committed /\ sess.epoch = sp.epoch /\ binding.epoch = sess.epoch
    /\ sess' = [sess EXCEPT !.state = "completed", !.phase = ""]
    /\ binding' = [state |-> "active", epoch |-> sp.epoch, base |-> Baseline]
    /\ UNCHANGED <<sp, planning, browser, mirror, outbox, client, agreed, faults>>

\* The queued creates of nodes that are mapped by now are settled.
Finish ==
    /\ client.known /\ sess.state = "completed"
    /\ client' = [NoSession EXCEPT !.done = TRUE]
    /\ outbox' = outbox \ DOMAIN mirror
    /\ UNCHANGED <<sp, binding, sess, planning, browser, mirror, agreed, faults>>

\* The server closed the session.  The binding asks for recovery, its resync is
\* refused, and it falls back to a first reconciliation.
StartOver ==
    /\ client.known /\ sess.state = "failed" /\ planning = None
    /\ client' = NoSession
    /\ agreed' = NothingAgreed
    /\ UNCHANGED <<sp, binding, sess, planning, browser, mirror, outbox, faults>>

---------------------------------------------------------------------------
(* Faults *)

Budget == faults < MaxFaults /\ faults' = faults + 1

WebEdits ==
    /\ Budget
    /\ \E c \in Edits : CanExecute(sp, c) /\ sp' = Ran(sp, c)
    /\ UNCHANGED <<binding, sess, planning, browser, mirror, outbox, client, agreed>>

Superseded(s) == IF Open(s) THEN [s EXCEPT !.state = "failed", !.phase = ""] ELSE s

\* A backup is restored: a new epoch, and every binding owes a first reconciliation.
Restore ==
    /\ Budget /\ ~client.done
    /\ sp' = Space(sp.epoch + 1, backup)
    /\ binding' = [state |-> "pending_initial", epoch |-> sp.epoch + 1, base |-> 0]
    /\ sess' = Superseded(sess)
    /\ UNCHANGED <<planning, browser, mirror, outbox, client, agreed>>

\* The worker dies between two steps.
Killed ==
    /\ Budget /\ client.steps # None
    /\ client' = [client EXCEPT !.steps = None, !.at = 0]
    /\ UNCHANGED <<sp, binding, sess, planning, browser, mirror, outbox, agreed>>

\* The worker dies with the browser call made and the mirror not written.
KilledInStep ==
    /\ Budget /\ Applying /\ Resolves(browser, mirror, client.refs, Step)
    /\ browser' = InBrowser(browser, mirror, client.refs, Step, NewNode)
    /\ browser' # browser
    /\ client' = [client EXCEPT !.steps = None, !.at = 0]
    /\ UNCHANGED <<sp, binding, sess, planning, mirror, outbox, agreed>>

\* The user removes a node of the snapshot while the steps run.  Its event drops the
\* mapping; the delete it queues is left out, the pass never gets to settle it.
UserRemoves ==
    /\ Budget /\ client.steps # None /\ Open(sess)
    /\ \E b \in client.refs \cap Refs(browser) :
        /\ browser' = BrowserRemove(browser, b)
        /\ mirror' = Unmap(mirror, Below(browser, b))
    /\ UNCHANGED <<sp, binding, sess, planning, outbox, client, agreed>>

Next ==
    /\ \/ CreateSession \/ KeepSession \/ SubmitSnapshot \/ CreateServerSnapshot
       \/ Plan \/ Decide \/ StorePlan \/ Commit
       \/ FetchSteps \/ ApplyStep \/ PassFails \/ Complete \/ Finish \/ StartOver
       \/ WebEdits \/ Restore \/ Killed \/ KilledInStep \/ UserRemoves
    /\ UNCHANGED backup

Spec == Init /\ [][Next]_vars

---------------------------------------------------------------------------
(* Properties *)

\* An initial plan that is still current runs through the executor, command by
\* command, and the space it leaves is the desired tree to the last sibling: the
\* anchors, the order of the phases and the longest increasing run fit together.
PlanReachesDesired ==
    Type = "initial" /\ Open(sess) /\ sess.phase = "planned" /\ ~Stale(sess) =>
        LET end == Result(sp, sess.plan)
            got == TreeOf(end.space)
        IN  /\ Decodes(sess.plan) /\ end.ok
            /\ Refs(got) = Refs(sess.desired)
            /\ \A n \in Refs(got) : \A f \in {"parent", "type", "title", "url"} :
                   got.node[n][f] = sess.desired.node[n][f]
            /\ \A c \in DOMAIN sess.desired.kids : got.kids[c] = sess.desired.kids[c]

\* An initial merge matches and creates; it deletes no canonical node, whatever slot
\* the node is in (doc 07 section 5: Merge keeps target-only subtrees).
MergeKeeps ==
    Type = "initial" /\ Open(sess) /\ sess.phase = "planned" =>
        \A i \in DOMAIN sess.plan : sess.plan[i].op # "delete"

\* After a restore, a row from before it gives the canonical node that this step is to
\* give an identity to another browser node: no step of the plan writes such a row.
RowOfBefore ==
    /\ sess.epoch > 1 /\ Step.op = "assign_identity"
    /\ FindMirrorByCanonical(mirror, Step.id) \ {Step.node} # {}
    /\ \A i \in DOMAIN client.steps \ {client.at} :
          client.steps[i].op \in {"assign_identity", "create"} => client.steps[i].id # Step.id

\* What a step names can be found when its turn comes: in the refs of the snapshot,
\* or in the mapping the steps before it have written.  Two things are excepted: what
\* the user took away, and a restore that brought back an id which a mirror row of
\* before it holds for another browser node (reconcileSteps.ts:109-119).
StepsResolve ==
    Applying /\ client.refs \subseteq Refs(browser) =>
        Resolves(browser, mirror, client.refs, Step) \/ RowOfBefore

SameNode(b, n) ==
    LET x == browser.node[b]
        y == agreed.tree.node[n]
    IN  /\ x.type = y.type /\ x.title = y.title /\ x.url = y.url
        /\ IF y.parent \in RootKeys THEN x.parent = y.parent
           ELSE x.parent \in DOMAIN mirror /\ mirror[x.parent] = y.parent

\* Once a first reconciliation is over the browser and the canonical tree at the
\* binding's baseline are the same tree: every canonical node has its one browser node,
\* with its fields, its parent and its place among the siblings, and every node the
\* device declared is one of them.  So nothing below that baseline has to be sent again,
\* in spite of edits, restores and workers that died on the way.
BaselineAgrees ==
    client.done /\ Type = "initial" =>
        /\ sess.epoch = agreed.epoch /\ Refs(sess.client) \subseteq DOMAIN mirror
        /\ \A n \in Refs(agreed.tree) :
              \E b \in Refs(browser) : FindMirrorByCanonical(mirror, n) = {b} /\ SameNode(b, n)
        /\ \A c \in DOMAIN browser.kids : LET row == browser.kids[c] IN
              \A i, j \in DOMAIN row : i < j /\ {row[i], row[j]} \subseteq DOMAIN mirror =>
                  LET m == agreed.tree.kids[agreed.tree.node[mirror[row[i]]].parent]
                      at(b) == CHOOSE k \in DOMAIN m : m[k] = mirror[b]
                  IN  at(row[i]) < at(row[j])

\* Nothing the device declared is lost to the server: once a reconciliation is over, it
\* is a canonical node at the baseline, or its creation is still queued (recovery_test.go,
\* lines 8-9: data only the browser has must still get uploaded).
NothingStranded ==
    client.done => \A b \in Refs(sess.client) \cap Refs(browser) :
        b \in outbox \/ (b \in DOMAIN mirror /\ mirror[b] \in Refs(agreed.tree))

\* A binding is only active at the baseline of the epoch the space is in: a session
\* that a restore superseded never hands its revision to the new baseline.
ActiveAtItsBaseline ==
    binding.state = "active" /\ Type = "initial" =>
        sp.epoch > 0 /\ binding.epoch = sp.epoch /\ agreed.epoch = sp.epoch
        /\ binding.base = agreed.rev
=============================================================================
