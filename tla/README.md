# Pontis, specified

Pontis keeps the bookmarks of several browsers and of a web library in step. A Go server
(`server/`) holds, for every Sync Space, one *canonical* bookmark tree with a journal of all
changes; a browser extension (`extension/`) follows that journal into the browser's own tree,
captures what the user does there and sends it to the server as operations; a web UI
(`web/`) edits the canonical tree directly. This directory holds TLA+ modules of that
machinery, TLC configurations that check them on small instances, and theorems checked by
TLAPS. Every definition is translated from the source; `PROJECT.json` maps each one to its lines.

## The system

| Part | State | Operations | Hard because |
|---|---|---|---|
| canonical executor (`server/internal/canonical`) | `nodes`, `root_slots`, `tombstones`, `journal`, `sync_spaces` rows | create, update title, update URL, move, delete; each one transaction | positions of siblings, cycle check, subtree delete, four revisions per node |
| change sets and undo (`changeset`, `canonical/undo.go`) | change sets with before images | apply a batch, review and execute an undo | the tree was edited since; the set was read before |
| library API, import, publication plaza, cross-space transfer (`library`, `transfer`, `plaza`, `spacetransfer`) | plans in memory, publications, mappings, transfer records | preview and apply, publish and apply again, move a subtree, delete what a check found | each reads, lets others write, and writes |
| jobs, schedules, link checks (`jobs`, `schedule`, `organizer`) | job rows with leases, `next_run_at`, runs and their items | enqueue, claim, settle, cancel, sweep; tick; answer items | leases expire under running handlers, the process stops between two writes |
| sync service (`server/internal/sync`) | operation receipts, `max_client_seq` of a binding | answer an operation (`decide.go`), serve a page of changes | operations are based on revisions long past; requests are lost, repeated, late |
| journal retention (`store/sqlite/maintenance.go`) | `retention_floor` | prune journal, tombstones, receipts | every other part may still refer to what it prunes |
| backup and restore (`backup`) | backup files and catalogue, `epoch` | take, restore, delete, prune | a restore starts a new epoch at revision 0 while devices and requests of the old one live on |
| devices and bindings (`device`, `pairing.ts`) | binding state, watermarks, epoch; local rows | pair, bind, revoke, activate | two halves, one on each side |
| reconciliation (`reconcile`, `initialReconcile.ts`, `reconcileSteps.ts`) | sessions, snapshots, plans, device steps | snapshot, freeze, plan, decide, commit, step, complete | a plan is computed against trees that move on |
| recovery and resync (`resync.ts`, `verifyReplica.ts`) | local sessions, edits under review | review edits, resync, remount, recover a mapping, verify | two sides each keep a session, one of them forgets |
| event capture (`eventProcessor.ts`) | outbox, client sequence numbers | turn browser events into operations | events echo the applier's own writes |
| change applier (`remoteChangeApplier.ts`) | browser tree, mirror (`localNodes`), expectations | apply a journal row, recover | writes two stores that do not commit together |
| replay and verification (`canonicalTree.ts`, `verifyReplica.ts`) | none | replay rows in memory, compare three trees | must agree with server and applier |
| sync coordinator (`syncCoordinator.ts`) | inbox, watermarks, binding status | rounds of request, ingest, apply, settle | several transactions per round, a worker may die between any two |
| worker loop (`workerLoop.ts`) | pass in flight, rerun flag, timer | trigger, pass, sweep again | triggers that join a running pass; the worker is killed at will |

They interact as follows. The web UI, the jobs and the sync service all call the executor; SQLite runs
on one connection (`SetMaxOpenConns(1)`), so a transaction is an atomic step and the server's
concurrency is the order of transactions. The worker loop of a device runs passes: reconcile what is
pending, resume a recovery, a round of sync for each active binding, recover those that need it. A round
sends queued operations; the server answers each in a transaction of its own, then reads a page of
journal rows; the device stores answers and rows, applies the rows one by one to browser and mirror, and
drops an answered operation once it has applied the revision the answer names. The browser reports what
the applier does as it reports what the user does, so expectations have to tell the two apart. Restores,
revocations and journal GC reach devices only through the errors of later requests; these lead to a
review of unsent edits and a new reconciliation.

## Modules

| Module | Models | State and actions |
|---|---|---|
| `CanonicalTree` | `executor.go`, `store/sqlite/canonical.go`: the five commands | pure operators `Can...` (validation) and `...Node` (effect) on a space record |
| `CanonicalExecutor` | the executor as a state machine | `space`, `minted`; `Create`, `UpdateTitle`, `UpdateURL`, `Move`, `Delete`, each the whole of `Executor.Execute` |
| `CommandLemmas` | | lemmas about the commands, on which most theorems about trees rest |
| `ReplicaTree` | `remoteChangeApplier.ts`, `canonicalTree.ts` | pure operators: one journal row applied to browser and mirror, and to a replayed tree |
| `JournalReplay` | a device that follows a space | composes the two: `Write`, `ApplyNext`, `AddLocal` |
| `JournalReplay_proofs` | | theorems of `CanonicalExecutor` and of `JournalReplay` |
| `ReplicaApply` | `remoteChangeApplier.ts` and `eventProcessor.ts` against one browser | journal, browser, mirror, expectations, outbox, events to come; writes of others, edits of the user, one action per handler, and the applier step by step (`Recover`, `Exchange`, `BeginRow`, `Call`, `CommitRow`, `SettlePending`), `Kill` |
| `SyncDecide` | `decide.go` | `Decide`: answer and resulting space for one operation |
| `SyncServer` | `service.go` (`processOperation`), `maintenance.go`, restore, revoke, activate | `bindings`, `receipts`, `ops`, `backup`; `Arrive`, `ArriveLate`, `Redeliver`, `WebEdit`, `CollectJournal`, `TakeBackup`, `Restore`, `Revoke`, `Activate` |
| `SyncServer_proofs` | | theorems of `SyncServer` |
| `OpLedger` | what a user is promised about edits | abstract: `TakeDown`, `AnswerNext`, `Reach`, `Forget`, `Stop` |
| `SyncRound` | `syncCoordinator.ts` rounds, the request path of `service.go`, the handlers' writes to the outbox | outbox, inbox, device and server row of the binding, receipts, calls; the steps below |
| `SyncRound_proofs` | | theorems of `SyncRound`; its refinement of `OpLedger`, and why it recovers |
| `TreePlan` | `match.go`, `desired.go`, `planner.go`, `lis.go`, `steps.go` | pure operators: match two trees, build the desired one, plan the primitives, assign the device's steps |
| `ReconcileSteps` | `reconcileSteps.ts` | pure operators: resolve a step, apply it to browser and mirror, verify |
| `Reconcile` | `reconcile/service.go` with `initialReconcile.ts`, one session end to end | session, snapshots, plan, steps, space, backup, browser, mirror; one action per call, `Step`, `Finish`, `StartOver`; web edits, `Restore`, `Killed`, `KilledInStep`, `UserRemoves` |
| `Reconcile_proofs` | | a theorem of `Reconcile` |
| `BindingLifecycle` | `workerLoop.ts`, the control of `initialReconcile.ts`, `resync.ts`, `pairing.ts`; the server's binding and sessions | binding, local sessions, edits, lock, server, flows; phases of a pass, calls and their loss, messages of the user, restore, unbinding, kills |
| `ChangeSets` | `changeset/service.go`, `canonical/undo.go` | spaces, change sets; `Edit`, `Undo`, `ReadForUndo` and `LateUndo`, `Restore` |
| `TreeCopies` | `spacetransfer`, `transfer`, `plaza`: how a tree gets into a space | pure operators over a batch: `CopySubtree`, `MergeFile`, `PlaceAll` |
| `Library` | the library of one owner | `ChangeSets` and `Preview`/`ApplyPlan`, `Publish`/`Republish`/`Retitle`/`ReadPublication`/`CommitApplication`/`SaveImport`, `Transfer`, `CheckLink`/`DeleteBookmarkIfUnchanged` |
| `Library_proofs` | | theorems of `Library` |
| `JobQueue` | `jobs.go`, `store/sqlite/jobs.go` | job rows, runners; `Enqueue`, `Claim`, `HandlerEnds`, `ReadFlag`, `Settle`, `RequestCancel`, `Retry`, `RecoverExpiredLeases`, `LeaseRunsOut`, `Stop`, `Start`, `Crash` |
| `LinkCheck` | the dead-link handler of `organizer.go`, `store/sqlite/linkcheck.go` | the queue, and runs with their items: seed, answer one by one, finish, be interrupted, be resumed |
| `Schedules` | `schedule.go`, `store/sqlite/schedule.go` | the checks, and schedules: create, update, delete, run now, the tick in its transactions, days that pass |
| `BindingLifecycle_proofs` | | theorems of `BindingLifecycle` |
| `JobQueue_proofs` | | theorems of the queue, which schedules and checks refine, and of those two |
| `MC...` | | instances for TLC |

### Correspondence

*Executor.* A parent is a live folder id or a root-slot key, as in `ParentRef`. A node keeps
title, URL, parent, position and its four revisions. Ids are drawn from a set; `minted` remembers
those handed out, since UUIDv7 values never repeat (an undo re-creates nodes under old ids; undo is
not part of this module). Sibling positions are written exactly as the code writes them: an
insertion pushes later siblings back, a reorder renumbers the siblings around the new place, a
reparent compacts the old siblings and pushes back the new ones, a delete compacts. The recursive
ancestor query is `AncestorsOrSelf`, the least parent-closed set that holds the node.

*Sync service.* `Processed` follows `processOperation` check by check: binding and epoch, receipt,
sequence watermark, floor, decision; `Commit` writes space, receipt and watermark together, as
the transaction does. The answers keep their status, reason and settle-after revision. A device's
operations are enumerated from what it can have captured: nodes that were in its tree at its base
revision, targets it had not deleted itself, bases that never go back.

*Replica.* The browser's child lists are sequences that also hold bookmarks the server does not
know (`Locals`); `BrowserIndexForPosition` and `WriteMirrorPositions` are the applier's own index
arithmetic. `ReplicaApply` has its steps.

*Rounds.* One step per transaction. On the device: read queued operations, read operations in
flight (`buildRequest` awaits twice), mark and send, store answers, rows and `received_revision`
(`Ingest`), apply one row, settle; a refused request halts the binding. On the server: check the
request (`Admit`), answer each operation in sequence order (`Process`), read the page (`ReadPage`),
write the watermarks (`Report`). `Abandon` is a killed worker or a lost request or response at any of
these points; a request the device gave up may go on being served as a *stray* beside the next round.
The run lock and the single pass of a worker make rounds exclusive, but event handlers run beside
them: `FindQueuedCreate` reads a record, `Amend` or `Withdraw` write it back later. What a decision
says is left open here: a row or none, a revision to settle after. Which operations are creates
is left open as well. A restored or revoked binding stays `pending_initial`; re-activation is in
`SyncServer`. The coordinator's own comparison of the response's epoch with the binding's is left out: a
request that is answered carried the epoch of the space.

*Trees and plans.* A tree is `[roots, node, kids]`; a root is written by the key of its slot on both
sides, as `linkRoots` pairs them, and a parent reference is a key or a node. `MatchExact` and
`MatchByCanonicalID` walk container by container; ambiguous candidates wait for a decision. `BuildPlan` is
the planner's order: creates before the anchors they need, moves of the siblings outside a longest
increasing subsequence, updates, deletes of roots of what is gone. A `local_ref` is the browser id. The
device's steps are applied and verified as `reconcileSteps.ts` does, with a kill between any two and inside
a create (`KilledInStep`); the worker does not die within a `Plan` call, which only the server feels.
A full resync that falls back to an initial one after a restore is folded into `StartOver`. Titles and
positions of mirror rows, and expectations during a session, are left out; the user's edits during a
session are removals.

*Applier and events.* `ReplicaApply` has bookmarks only; a URL goes the way of a title, a place is a mapped folder and
a position token that is only compared, the folders of a partial mount stay. The browser appends an event
for every change, whoever made it; onChanged and onMoved handlers read the node first (`ReadNode`), and each
handler is one step. The applier's expectation, browser call and commit are three. The server's decision is
simplified: an operation is refused when a row of another device after its base wrote the same field.
Lost requests and duplicates are left to `SyncRound`.

*The life of a binding.* A flow, the pass or a message of the UI, is at a phase of the pass or at a call; `Results`
says what the server may answer, `Answered` what the code makes of it, `RequestLost` and `AnswerLost` what
it makes of an exception. A local session is `[driver, type, state, sid, reviewed]`: the driver is
"client" for the rows that `recordSession` writes for a review and "server" for those of the lifecycle. The
server keeps its sessions by id and the binding's state. `Finish` leaves any subset of the edits queued, since which ones a
session adopts is `Reconcile`'s matter. The server's part of a restore and of an unbinding is `PutBack`.
Reads and writes of the local database that follow each other directly are one step, those that are two
transactions can be torn by a kill. The switch for sync is on, the mount is partial, a sync is one
round, all locks are released before any is acquired.

*Change sets and trees.* A batch is a record of space, commands and captured before images that is
committed as one step; an inverse is one list of steps (`InverseSteps`), run one after the other. Change sets are numbered, and journal rows name theirs as origin. Ids grow as UUIDv7 ids do. `Undo` reads and
executes at once; `ReadForUndo` and `LateUndo` separate the two. A file or a publication is a sequence of
items in the order of the walk (`Traversal`, breadth or depth first). Import plans are bound to the revision they were previewed at,
publications are applied with the mapping read before, findings name the URL that was checked.

*Jobs.* Time is left out of the queue: a lease or a backoff runs out at some point; one that runs out under a
running handler is an outage, since handlers are expected to keep within it. The unit of time of schedules
is a day of a calendar with short weeks and months.

## Runs

| Run | Shows |
|---|---|
| `MCReplayContent` | after any four commands on three nodes: a tree, dense positions, exact tombstones, field revisions that name the row that wrote the field last; and a device that applies each row in order ends with the server's nodes, fields and parents, and with the server's order while nothing was deleted |
| `MCSyncConflicts` | two devices and the web, with repeated requests and journal GC: no lost update, answers that name their cause (a refused move that is called rebased excepted), new data kept, one effect, one answer, no forgotten target |
| `MCSyncEpochs` | restores, revocations and requests that outlive them: no operation of an old epoch has an effect, the journal has no hole |
| `MCSyncRound` | rounds implement the ledger: edits are answered once and in order, and forgotten only when the state that answered them has arrived; recovery always has a cause outside the device; reported watermarks grow; when the user pauses, every edit is settled or the device asks for recovery |
| `MCSyncRoundHandlers` | with handlers beside the round: no hole in the inbox, one effect and one answer per operation |
| `MCReplicaApply` | what the applier does is not uploaded as the user's: no create, and no retitling as long as events are handled between their row and the next; at rest, browser, mirror and space hold each other's nodes one to one, and as long as only other devices write, no worker is killed and no event is late, the same titles and places |
| `MCReconcile` | the plan leads to the desired tree and its steps can be resolved (rows of before a restore excepted); at the end of a session browser and space agree at the binding's baseline; no queued create is stranded |
| `MCBindingLifecycle` | no trigger is forgotten; outside ten known dead ends a binding ends up active on both sides with its edits answered, or unbound and ready to be bound again |
| `MCLibrary` | undo gives back what was there and spares what came later, nodes that are live have no tombstone, transfers conserve, copied trees arrive whole (what an import mistakes excepted), what a check found is deleted only as it was found |
| `MCSchedules` | a job has one runner, an occurrence one job, an answer its URL, a scheduled check that succeeded no open item |
| `MCJobsEnd` | what is enqueued ends |
| `MCHonestOpAnswered` | a disagreement between code and documentation: expected to be violated |

Further configurations are kept beside these. `MCCanonicalExecutor.cfg` is the executor alone with five commands and
holds. The others show a disagreement below each: `MCBrowserOrderIsCanonical`,
`MCAnsweredStaysAnswerable`, `MCSentPayloadFrozen`, `MCMergeKeeps`, `MCResyncSteps`, `MCUndoneOnce`,
`MCRunsWhenPlanned`, `MCFinishedRunComplete`. The dead ends of a binding are shown by `MCBindingLifecycle.cfg` with one
element of `Avoided` left out; one edit, two faults and one kill reach each of them.

### Bounds

`MaxRev`, `MaxSeq`, `MaxOps` and `MaxEpoch` bound the counters in the guards. Three nodes are the
fewest with a folder below a folder and a sibling, so that cycles, subtree deletes and both
sibling lists of a reparent occur; four commands build that tree and disturb it, five disturb it twice
(`MCCanonicalExecutor.cfg`). Two titles distinguish a write from its repetition. For the service, two devices with two
operations between them, beside the web, are the fewest with a conflict, a causal predecessor and a foreign edit
in between; three revisions let journal GC (`MinKeep = 1`) collect a row somebody still needs, and two
epochs let everything of one outlive it. For rounds, one device suffices, since devices meet only at
the server and the others are the author 0 of a row; a page of one row makes a page boundary of every
row; two rounds per sync make `has_more` stop short; one fault leaves one stray, which is how two
requests of one device overlap. Two operations are needed where their order matters
(`KeepsLedger`), and two bodies where a payload may change.

`ReplicaApply`: `MaxWrites` counts the writes of others and the edits of the user together, `MaxEdits` those of the user;
three are a foreign change, an edit that meets it, and one that follows; `MaxJournal` and `MaxExpected` stop what a
failing call would repeat; one kill (`MaxKills`). `Alike = FALSE` (no two bookmarks look alike) and
`Prompt = TRUE` (events of one sync are handled before the next) are conditions and not bounds: without either,
the properties fail (below). `Reconcile`: all trees of two labelled nodes on each side, ambiguous ones
included, and rows of three siblings in any order; two faults (`MaxFaults`: edits, restores, kills, removals), so that a
restore follows an edit or another restore. A backup keeps the ids of its nodes. That of a first tree of one node, or of a
bookmark in a folder, is the tree itself, so that a restore meets mirror rows which hold its ids; the larger starts restore a
tree with an id of its own, since their own trees would take the run past its five minutes.
`BindingLifecycle`: two edits (one can be captured while the other is under review), two faults and two
kills, so that a second failure meets the recovery from the first; four server sessions, since one is
open at most and a flow holds one. Larger instances with three faults and one or two kills hold as well
(1.1 and 1.9 million states).

`Library`: `Budget` bounds the change sets of a behaviour by the operation it uses, so that each operation is
explored with others before, in and after it, but not all operations together; one space publishes (`Publishers`), versions go to
`MaxVersion`, `Start` is a folder with a bookmark, one title is also a URL (fifth disagreement), by `NobodyElse` one slow request
at a time is between its read and its transaction. `Schedules`: two jobs, two workers, two attempts; `MaxRequests` bounds what users ask for,
`MaxOutages` the shutdowns, crashes and overlong handlers, `MaxDay` the calendar, `Slots` the occurrences.

Node ids, bindings, workers and root slots are interchangeable in the code and are declared symmetric where no
liveness is checked. `CHECK_DEADLOCK FALSE` is set where the bounds stop the
model: the real system always accepts another command. `BindingLifecycle` checks for deadlock.

### Fairness

`EveryEditLands` assumes weak fairness of a round's steps: the alarm and
the debounce timer start rounds as long as the binding is active (`workerLoop.ts`), and a
running round always has a next step; and of `Serve("live")`: a server that got a request finishes it.
Nothing is assumed of strays, of users, of maintenance, nor of faults, which `MaxFaults` makes finite: with a
network that fails forever nothing is promised. The run leaves handlers out, since a payload that changes under a
round (below) makes a device stop over its own edit.

`EveryJobEnds` assumes that workers poll and run on (`jobs.go`: a loop per worker), that the sweep of expired leases
and the tick come again, that leases and backoffs run out, and that a stopped process is started again.

`EverySettles` assumes that a flow goes on as long as its worker lives, that the debounce timer fires and the
periodic alarm and the browser's wake come (`background.ts`), and that a user who is asked answers: `Answer`, `Review` and
`Remount` are strongly fair, since a pass that runs in between disables them again and again. Nobody
has to bind again what was unbound.

### Disagreements

Of code and documentation, or of two parts of the code. The first has a run, the others were met while modelling; a
configuration in brackets shows one.

*Synchronisation.*
1. `LoadJournalOrigin` (`store/sqlite/sync.go:204`) scans a column into a string that is NULL for
   web edits, so that an edit concurrent with one fails instead of being decided (`MCHonestOpAnswered`).
2. `EnsureRootSlot` (`canonical.go:114`) inserts unconditionally, so that the second create
   below deleted folders fails instead of being recovered (the same run shows it).
3. `applyDelete` leaves the mirror positions of the deleted node's siblings as they were
   (`remoteChangeApplier.ts:490`). A later move to such a position is taken for satisfied (`:425`), and the browser
   keeps an order that is not the server's [`MCBrowserOrderIsCanonical`].
4. Journal GC deletes receipts at the floor (`maintenance.go:83`), but operations based on the floor
   are accepted. An operation that was answered there without writing a row loses its receipt, and
   its repetition is refused with `CLIENT_SEQ_REGRESSED` [`MCAnsweredStaysAnswerable`].
5. An event handler reads a queued create, a round sends it, and the handler writes it
   back with another payload, as `QUEUED`, or deletes it (`eventProcessor.ts:233`, `syncCoordinator.ts:222`). The next round
   sends the new payload under the old operation id, which the server refuses with `OP_ID_REUSED`; or the created
   bookmark comes back [`MCSentPayloadFrozen`].
6. `applyChange` (`canonicalTree.ts`) shifts no sibling, so that the replayed tree has the server's content but
   not always its order.
7. `decideMove` writes REBASED over whatever `applyCommand` answered (`decide.go:242-244`; `decideCreate` at 99-104 does so, too). A
   move below a folder that was itself moved below the node meanwhile, before an anchor that is gone, is refused as a
   cycle and answered REBASED with no revision to settle after. Nothing is appended, which is what REBASED says
   (`docs/04-sync-protocol.md:225-236`), and the device drops the move at once. `AnswerNamesItsCause` excepts it by name: of the
   answers that claim an effect without a row it allows a REBASED move only.

*Applier and events* (`ReplicaApply` with other constants).
1. A provisional expectation of a create that never reached the browser stays. A later recovery gives any
   unmapped node that looks alike its id (`Alike = TRUE` violates `QuietAgrees`), and a late echo resets a title.
2. With an event of one sync handled in the next (`Prompt = FALSE`), an echo whose expectation was settled and swept
   (`eventProcessor.ts:119-122`) is uploaded as an edit of the user.
3. Two moves below one parent whose echoes come late are queued as moves of the user (`MovesAreTheUsers`).
4. A bookmark deleted here while it is renamed elsewhere sends the binding into recovery
   (`remoteChangeApplier.ts:351-353`; `StuckLost`).
5. A node removed between the browser's create and the commit leaves a mirror row without a node, at which every later move
   fails. A rename in the same place is absorbed.
6. The removal of a node whose create was answered but not applied is dropped (`eventProcessor.ts:256`).
7. Other devices retitle a bookmark three times, to one title, another and the first again, and the events of a sync are handled
   late. The first echo consumes both expectations of its title (`eventProcessor.ts:204-215`); the echo of the second retitling
   is then uploaded as an edit of the user, which the server accepts (`MaxWrites = 4` violates `UploadsAreTheUsers` without
   its condition on `overtook`).
8. An echo that is handled after the commit of a later row puts the mirror's title back. The next row with that title
   is taken for satisfied (`remoteChangeApplier.ts:359`), and the browser keeps another title than the server without
   anything left to do (`MaxWrites = 4` violates `QuietAgrees` if `overtook` leaves out rows begun before an event is
   handled).

*Reconciliation.*
1. The first merge of a binding that mounts some of the root slots deletes what is under the others:
   `freezeServerSnapshot` freezes every slot, `BuildDesired` walks those of the client, and `BuildPlan` deletes
   what the desired tree lacks (`service.go:308`; `desired.go:12` says "StrategyMerge keeps target-only
   subtrees") [`MCMergeKeeps`].
2. A recovery adopts nodes that only the browser has under ids the server never has, and drops their queued creates
   (`NothingStranded` with `Type = "recovery"`; `httpapi/recovery_test.go:8-9`).
3. An answer that keeps the safe default leaves the issue open, and the session waits for the user for ever (doc 08 §11,
   `initialReconcile.ts:430-431`).
4. A full resync's steps cannot be resolved by the device (`steps.go:40-41`, `:50-66`) [`MCResyncSteps`].
5. A `Plan` that is slow sets a session that failed or completed meanwhile back to running (`service.go:1059`).
6. A bookmark or folder without a title blocks the first sync (`executor.go:126`).
7. A worker killed between the browser's create and the mirror's row creates a twin when it replays
   (`reconcileSteps.ts:6-9`).
8. A restore brings back ids that mirror rows of before still hold. When such a row is of another browser node than the one the
   new plan matches with the id, because titles were edited between the two plans, `assign_identity` is refused
   (`reconcileSteps.ts:109-119`), and again at each pass: no step takes the row away. `StepsResolve` excepts exactly this
   (`RowOfBefore`), and is violated by `MCReconcile` without the exception.

*The life of a binding*: the elements of `Avoided`, each a way to a state that no trigger and no answer leaves.
1. "decision lost": the answer to a decision is lost, or the worker dies in it. The session waits for the user here and runs on the
   server; later answers are refused (`service.go:474`), and passes leave a waiting session alone, although
   `initialReconcile.ts:208-210` promises the contrary.
2. "review torn": a kill between the two writes that open or close a review (`resync.ts:77-82`, `:113-156`).
3. "restore at a question": a backup is restored while the user is asked; the answer is refused for ever.
4. "pending recovery": a recovery session is opened here while the server calls the binding `pending_initial`; its
   creation is refused with `BINDING_NOT_ELIGIBLE`, which only `resyncFromServer` handles.
5. "mapping refused": a full resync falls back to a recovery when its mapping is refused, but the server's session
   of the other type stays open, and the recovery is refused.
6. "mount lost at work": the mount folder is removed during a session, whose end overwrites `mount_missing`.
7. "session left open": a kill between activating the binding and closing the session; at the next recovery the review is
   never shown.
8. "recovery beside a pass": recoveries take no run lock, so that two flows drive one session.
9. "unbound at work": a flow that outlives the unbinding re-creates the server's session, or completes it: the server's
   row is then active, and binding again is refused with `BINDING_EXISTS`.
10. "foreign replica": unpairing forgets the device's id (`bootstrap.ts:35`), so that pairing again does not see that there was another
    device and keeps its replicas (`pairing.ts:74`), which `pairing.ts:51-53` says it must not: they can neither be synced nor
    unbound (`NOT_BINDING_OWNER`). So does a page closed between the two writes of a pairing.

Beside these: after unbinding and binding again the first edits are refused, since the server's row keeps its
`max_client_seq` (`device.go:324-328`) while the device numbers from 1 (`pairing.ts:105`); every review of the refused
edits renumbers them, until they are past it. Edits captured during a review are deleted with it
(`resync.ts:99-153`). A resumed resync skips the rebase of its edits and the verification (`resync.ts:204`).

*Jobs and schedules.*
1. Nothing renews a lease (doc 13:274 says they are), so that a handler that outlives its lease of ten minutes runs
   beside another: `OneRunner` holds with `~overran` only.
2. Three graceful shutdowns fail a link check, while crashes are not counted.
3. A cancelled link check ends cancelled, doc 13:375 says `retry_wait`.
4. Insert and scan of a schedule leave out the day of a weekly or monthly plan (`store/sqlite/schedule.go:49`)
   [`MCRunsWhenPlanned`].
5. A crash between the stamp that completes a run and the end of its job lets the next attempt add items to the
   finished run (`linkcheck.go:95`) [`MCFinishedRunComplete`].

*Library.*
1. Two requests can undo one change set twice, since the flag is read outside the transaction (`service.go:335`)
   [`MCUndoneOnce`].
2. An import is bound to the revision it was previewed at but not to the epoch, and the comparison is outside the transaction
   (`transfer/service.go:342`, doc 11:127); `AppliedAsPreviewed`.
3. The undo of a replacing import restores siblings in another order.
4. A publication applied again by location does not converge among siblings of one title.
5. An import hands one map as index of titles and of URLs to the walk of a folder it makes (`transfer/service.go:439-440`, whose
   comment at 381-382 says that each level has an index of its own). A bookmark whose URL is the title of a folder beside it
   is taken for that folder and dropped as kept; a folder whose title is the URL of a bookmark beside it is taken for the
   bookmark, and what is in it is created below a bookmark, at which the whole import fails. `TreesArrive` excepts the items
   concerned (`Mistaken`); `MCLibrary` has a title that is a URL, and violates `TreesArrive` without the exception.

## Proofs

`JournalReplay_proofs` proves of the executor, for every set of node ids, root slots, titles, URLs and
authors, and any number of commands:

- `TypeCorrect`: `Spec => []TypeOK`;
- `TreeStaysATree`: `Spec => []TreeWellFormed`: every parent is a live folder or an existing slot, and
  no folder is below itself;
- `RowsAgree`: `Spec => []RowsConsistent`: siblings are numbered from 0 without gap or repetition, the title, URL and
  place of a node name the journal row that wrote them last, and tombstones are those of the deleted, as many as the row says.

The assumption is `ConstantsDisjoint`: ids are not slot keys, and the empty string is none of the
values. One invariant, `RowsInv`, has all three: the space is good (`GoodSpace`) and what it names was handed out. Its parts need
each other. Finiteness of the tree is there because positions are cardinalities of sibling sets, which are numbers only then. That
nothing hangs from a bookmark (valid parents) is why moving a bookmark needs no cycle check. Acyclicity is stated without
paths, as "no set of nodes holds all its own parents"; that makes the move lemma (`AcyclicMoved`) a matter of intersecting such
a set with the closed set the cycle check walks.

`CommandLemmas` says what a command does to any space (`CommandKeeps`, `ExecuteKeeps`, from a shape lemma, a tree lemma and a
row lemma for each command). A space is *live* (`LiveSpace`) if it is typed, its tree is a tree, the journal holds exactly the
revisions above the floor, siblings are dense, and the revisions of a node that are above the floor are those of its last rows;
*good* (`GoodSpace`) if tombstones agree as well, where one is younger than its node's create. The two are kept apart because an undo
creates nodes that still have tombstones, and takes these away afterwards: in between the space is live. A position written by a
command is a rank among the siblings it leaves, so that density is a statement about cardinalities (`RanksOrdered` and the lemmas
around it): moving one node shifts the ranks between its old and its new place by one, and a subtree delete renumbers what stays.

It proves of a device that follows the space, for journals of any length, any nodes and any bookmarks of the user's own:

- `ReplicaHasTheContent`: `ReplaySpec => []ReplicaContent`;
- `OrderStaysUntilDelete`: `ReplaySpec => []OrderKeptUntilDelete`;
- `ReplayHasTheContent`: `ReplaySpec => []ReplayContent`.

The device lags behind by any number of rows, and the server keeps no old tree to compare it with. The invariant
`FollowInv` therefore says that there is a history of trees (`Trees`): the last is the server's, each follows from the
one before by the row between (`RowStep`), and the device is a copy of the one at its own revision. A write of the
server lengthens the history by one; a row applied moves the device along it. In place of an induction over the journal
there is one case per type of row (`RowCopied`, `RowReplayed`). For the order, `InOrder` adds that the mapped children of a
folder stand in the order of their positions. The applier counts ranks among siblings it has mapped, local bookmarks
between them, and `PutInOrder` shows that the browser index it computes is the right one; `SameOrder` says of each
command but a delete that it leaves the order of the siblings it does not place. A delete leaves the order too, but not
the mirror's positions (the third disagreement of *Synchronisation*), which is why the theorem ends there. The assumptions are `ConstantsDisjoint`
and `LocalsHaveNoId`: what only the browser has is not among the server's ids.

`SyncServer_proofs` proves for any number of devices, operations, nodes, restores and journal collections:

- `RoundsAreService`: the two specifications that the runs check imply `SyncSpec`, which the others are about;
- `ServiceKeepsTree`: the executor's invariants, whoever writes, after every restore;
- `JournalHasItsEpoch`, `OperationsTakeEffectOnce`, `RetriesAreReplayed`, `HonestOpsAreRecognised`, `NewDataIsKept`,
  `AnswersNameTheirCause`, `NoUpdateIsLost`: `SyncSpec` implies that the invariant of the runs holds always;
- `RetriesChangeNothing`: a repetition that gets an answer is a stuttering step.

The invariant `Inv` has a part for each table. `SpaceInv` is that of the executor; `OpsInv` numbers the operations of a
binding without gap; `AnswersInv` says that an operation has one answer and is then below the watermark of its binding, or has none and
is of an epoch gone by, so that only a receipt is ever consulted again; `ReceiptsInv` that a receipt repeats this answer. `JournalInv` has
the three facts about rows. `RowsKnown`: every row is about a node handed out, and its origin is an operation of this
epoch. `CausesKept`: the row an answer names is there as long as the operation's base is retained, since it is
younger than the base; an answer without a row is of an operation without effect. `NothingUnseen`: what a device's row
replaces since its base is the device's own. The decision lemmas
(`DecideOutcome` and those above it) read `decide.go` once and for all: what each answer says of the tree it was given, and that
the tree it leaves is good. `NoUpdateIsLost` follows from three facts about a write that was let through: the last row of the field is
not after the base or comes from the same device; if from the same device, it is an earlier operation; and that one
had seen all before its own base, which is not above the present one. So what nobody saw stays nobody's. `BackupInv`
says that a backup is the tree of some good space, which makes a restore start from a good one.

The assumptions are `ConstantsDisjoint` and `SyncConstants`: bounds are numbers, origins and recovery slots are among the
constants, and `None` is no binding. The last matters: were the absent origin of
a web edit a binding, the edit would pass for that device's own earlier one (`sameBindingCausal`) and be overwritten.

`SyncRound_proofs` proves for every page size, retention, number of operations, faults and restores,
with event handlers beside the rounds:

- `TypeCorrect`: `Spec => []TypeOK`;
- `AnsweredOnce`: `Spec => []OneAnswer`: at most one row per operation, and the device keeps the first answer;
- `InboxWithoutGap`: `Spec => []InboxIsJournal`;
- `ReportsNeverBack`: `Spec => ReportsGrow`.

They follow from one inductive invariant, `RoundInv`. What it adds: sequence numbers above the server's watermark
are fresh, receipts and the results of every request repeat the recorded answers (strays included, which is why
repetitions are harmless), and the request the device waits for carries the device's own watermark and, once its
page is read, the rows that follow it. `HistoryStays` names what the server may do to a journal somebody has read
from (append, collect, or end the epoch); the lemmas on the world's steps all rest on it. `PageIsNext` is the
arithmetic of a page: the rows up to `MaxPage` above a watermark that is not below the floor are an interval.

`SyncRound_proofs` also has the refinement: `SpecCaptured => KeepsLedger`. `LedgerInv` adds to `RoundInv` that the
answered operations are those up to the watermark, that the outbox holds all others, and that every request,
and every half-read outbox between the two reads of `buildRequest`, has with an operation all earlier unanswered
ones (`Closed`); hence the server meets operations in order although two requests may overlap. The handlers are left
out here, since a withdrawn operation leaves a gap in the sequence, which the ledger does not have.

The same module proves `RecoveryIsCaused`: `SpecCaptured => []RecoveryHasCause`: a device asks for recovery only after the
epoch changed, the binding was revoked, or rows or receipts it needed were collected. `CauseInv` adds to `LedgerInv` that
a refusal under way has its cause already (`RefusalHasCause`), that requests and receipts say what the outbox says, so that an id
is never found with another payload, and that an operation was answered at or after its base (`BasesReached`), so that a missing receipt means
that the floor has reached the base. `CauseStays` shows that no step takes a cause away. It is about `SpecCaptured`, since a handler that rewrites a
sent operation is a cause inside the device (the fifth disagreement of *Synchronisation*).

The assumption is `RoundConstants`: bounds are natural numbers, a page has at least one row, and
`None` is neither a body nor a number.

`JobQueue_proofs` proves for every number of jobs, workers, attempts, requests and outages:

- `JobHasOneRunner`: `QueueSpec => [](QueueTypeOK /\ OneRunner)`;
- `EndedStaysEnded`: `QueueSpec => EndedIsEnded`, an action property: a job that ended is not touched, unless it is purged;
- `ScheduledChecksUseTheQueue`: `Spec => QueueSpec`, where `Spec` is that of `Schedules`: every step of schedules, requests
  and link checks is a step of the queue or leaves it alone; and `CheckHasOneRunner`, which follows.

The inductive invariant is `QueueTypeOK /\ OneRunner`: as long as no handler has outlived its lease, a job that some worker runs is
`running` with a lease that holds, and the worker is the only one. The assumptions are `BoundsNat` and `AttemptsPositive`.

About link checks and schedules it proves, for any nodes, URLs, plans and days:

- `AnswersAreForTheirURL`: `Spec => []AnswersForTheirURL`: the status recorded for an item is an answer for its URL,
  however often the node was edited and the check interrupted;
- `SucceededRunsAreComplete`: `Spec => []ScheduledRunComplete`: the run of a scheduled job that succeeded has no open item,
  as long as no handler outlived its lease;
- `OccurrencesAreOnce`: `Spec => []OccurrencesHaveOneJob`: an occurrence gets one job at most, across ticks, crashes and changes of the plan.

`CheckInv` adds what handlers and requests know between their transactions: what a handler works on are items of its run, under
the URLs they show (`HeldItems`); a request seeds the job it enqueued, which no schedule knows (`StartsOwnJob`); and an attempt at a scheduled run
works on all that is pending, so that one that ended well left nothing (`AttemptsComplete`). For occurrences: what a tick has sent, and what a
schedule counts as run, has a row of the queue (`SchedulesDispatched`), and the key of a row that was written stays
(`OneJobEach`). A further assumption, `NoneIsNoItem`, keeps the absent item apart from the items.

`BindingLifecycle_proofs` proves, for any numbers of edits, faults, kills and sessions and with every dead end allowed:

- `TriggersAreServed`: `Spec => []OwesNothing`.

The invariant adds that a flow is a record with a place. What it takes is that nothing but the end of a sweep that owes
no other makes a pass idle (`GoesOn`), shown for each of the some twenty ways a flow is sent on, errors included.

`Reconcile_proofs` proves, for any trees on both sides, edits, restores, kills and removals:

- `ActiveBindingIsAtItsBaseline`: `Spec => []ActiveAtItsBaseline`.

The invariant follows a session to its commit: while the binding waits, only an open session or one whose plan is under way can
activate it (`SessionPending`); a committed session is at the epoch and the revision that were agreed (`CommittedAgrees`), since
a restore closes it; and an active binding is one whose session completed there (`ActiveAgrees`). Plan and trees stay opaque:
of a plan it matters that it is a list of primitives (`Decodes`, what the server finds when it decodes the stored plan), of which
none touches the epoch. The further assumption is `EditsAreCommands`.

`Library_proofs` proves for any number of spaces, change sets, undos, restores, imports, publications, transfers and checks:

- `NoNodeIsBoth`: `LibrarySpec => []RevivedIsLive`;
- `CheckedIsWhatGoes`: `LibrarySpec => DeletesWhatWasChecked`;
- `LaterWorkIsSpared`: `LibrarySpec => UndoSparesLaterWork`;
- `TransfersConserve`: `LibrarySpec => TransferConserves`.

The argument goes by batches. `ApplyKeeps` says that a command leaves a live space, and only so much else (`Limits`); a list of
commands, of items or of inverse steps is then an induction over its length. The library's induction theorems take an operator, so
`Induct` states induction for a set, and a lemma beside each recursive function (`ApplyAllSteps`, `InvertedSteps`,
`MergeSteps`, `PlaceSteps`) says that its values exist. A batch is `Whole` when its space is live, its ids are minted and no node is
both live and buried. A restore breaks and repairs the last (`RestoreWhole`): it creates only what its snapshot names, and clears
exactly those tombstones. `LibraryInv` adds what change sets and slow requests remember: before images are typed, their ids
minted, the images of a space make good baselines to restore.

For `DeletesWhatWasChecked` the journal has to tell what became of a bookmark: a row writes the fields of its command, and the
row of a delete is older than the URL of a node that lives (`History`). So if the revision of the URL is what the check saw, no create,
delete or change of the URL came after it. For `UndoSparesLaterWork`, `Spared` is carried from step to step. Restores come first
(`RestoresFirst`) and touch none of the nodes there are; a revert writes a field the review has compared; and what is
taken away with a created folder hung from it when the review looked (`NothingMovedBelow`), because a change set that creates has moved
nothing. That last fact is part of `LibraryInv`.

For `TransfersConserve`, the list a transfer copies has to be the subtree. That a walk in breadth comes to every node once is not
assumed of the rows: had the list named a node twice, the batch would have created one id twice and failed, so the success
of the batch shows the list to be without repetition, and such a walk holds all the nodes of the subtree, parents before children and siblings in order
(`BreadthWalks`, `WalkCovers`). `AllMade` then follows the creations, each at the end of its folder, and `DeleteTakes` says
that the delete in the other space takes that same subtree.

The assumptions are `ConstantsDisjoint`, `IdsAreNumbers`, `SetNumbersAreOrigins`, `StartIsTree`, `UndoRootIsRoot` (the recovery slot
is one of finitely many) and `PublishersAreSpaces`.

Only model-checked:

- liveness (`EveryEditLands`, `EveryJobEnds`, `EverySettles`): the proof system has no support for fairness;
- `UndoInverts` and `TreesArrive` of `Library`: the first says that a list of commands composed with its reversed inverses is the
  identity, positions included, the second that a publication or a file lands below the copies of its folders although its items merge into
  rows that are there, by an index that goes stale as the batch writes;
- `Reconcile` but for its baseline: that a plan leads to the desired tree, that steps resolve, that both sides agree and nothing
  is stranded are about the matching of two trees and the planner's order, each recursive over a tree;
- `UploadsAreTheUsers` and `QuietAgrees` of `ReplicaApply`: the invariant would have to account for every title by the events,
  expectations and rows that carry it, in every order they can be under way in, and hold under `Prompt` and without `Alike` only;
- of `BindingLifecycle` all but `OwesNothing`.

## Not modelled

`PROJECT.json` lists every component with its status. Not modelled for good: HTTP decoding,
authentication, configuration, logging, file formats, presentation, duplicate scans and the fetches of a link check,
moderation and listings of the plaza, the simulation harness. Left out of what is modelled: imports of
other formats than the service's own JSON, the comparison of the three trees by the verifier (only when it runs, and what its failure leads to), bookmarks dragged between spaces, reorder events,
the files and retention of backups, the pages and the hash of a plan, the expiry of sessions, several bindings
in one pass.

## Plan

1. Proofs: the refusals of `BindingLifecycle`; `UploadsAreTheUsers`, with the server's answers given one at a time.
2. Folders and cross-space drags in `ReplicaApply`; the verifier's comparison.
3. Backup retention.
