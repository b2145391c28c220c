----------------------------- MODULE SyncServer -----------------------------
(***************************************************************************)
(* The sync service around one space: devices' operations (each one        *)
(* transaction of processOperation, service.go), edits on the web, journal *)
(* GC, backup restore, and revoking and re-activating a binding.           *)
(*                                                                         *)
(* What a device asks is what it could have captured: an operation names   *)
(* nodes its tree had at the revision base it had applied, and base never  *)
(* goes back.  Nothing changes between its capture and its first arrival   *)
(* but the server, so both are one step, Arrive, whose base may be any     *)
(* number of revisions behind.  Every later copy of the request, a retry   *)
(* or one the network delivers late, is a Redeliver of the same operation. *)
(* A request that outlived a restore arrives with the epoch it was made in.*)
(***************************************************************************)
EXTENDS CanonicalExecutor, SyncDecide

CONSTANTS
    MainSlots,  \* the root slots the space is created with
    MaxSeq,     \* bound on operations per binding
    MaxOps,     \* bound on operations altogether
    MaxEpoch,   \* bound on restores
    MinKeep     \* rows journal GC always keeps (minKeepRevisions)

ASSUME SyncConstants ==
    /\ MainSlots \subseteq RootKeys
    /\ \A b \in Bindings : RecoveryRootKey(b) \in RootKeys \ MainSlots
    /\ WebOrigin \in Origins
    /\ \A b \in Bindings, s \in 1 .. MaxSeq : DeviceOrigin(b, s) \in Origins
    /\ None \notin Bindings
    /\ MaxSeq \in Nat
    /\ MinKeep \in Nat

VARIABLES
    bindings,  \* binding -> its device_space_bindings row
    receipts,  \* <<binding, seq>> -> its client_operation_receipts row
    ops,       \* <<binding, seq>> -> the operation and what came of it
    backup     \* the tree of the backup last taken, or None

syncVars == <<bindings, receipts, ops, backup>>
vars == <<treeVars, syncVars>>

NoRows == [k \in {} |-> k]

SyncInit ==
    /\ space = [EmptySpace EXCEPT !.slots = MainSlots]
    /\ minted = {}
    /\ bindings = [b \in Bindings |-> [state |-> "active", epoch |-> 1, maxSeq |-> 0]]
    /\ receipts = NoRows
    /\ ops = NoRows
    /\ backup = None

---------------------------------------------------------------------------
(* One operation in its transaction *)

\* Mutant of Served: the epoch is checked before the transaction only.
ServedAnyEpoch(b, epoch) == bindings[b].state = "active"

\* The binding is active and request, binding and space agree on the epoch.
Served(b, epoch) ==
    /\ bindings[b].state = "active"
    /\ epoch = space.epoch
    /\ bindings[b].epoch = space.epoch

Receipt(answer) ==
    [status |-> answer.status, reason |-> answer.reason, settle |-> answer.settle,
     processedAt |-> answer.sp.rev]

Outcome(r) == [status |-> r.status, reason |-> r.reason, settle |-> r.settle]

Refused(code) == Answer(space, "error", code, 0)

\* Mutant of Processed: receipts are not looked up.
ProcessedWithoutReceipt(b, op) ==
    IF ~Served(b, op.epoch) THEN Refused("EPOCH_MISMATCH")
    ELSE IF op.seq <= bindings[b].maxSeq THEN Refused("CLIENT_SEQ_REGRESSED")
    ELSE IF op.base < space.floor THEN Refused("OPERATION_HISTORY_EXPIRED")
    ELSE Decide(space, b, op)

\* processOperation: the answer, and the space it leaves.
Processed(b, op) ==
    IF ~Served(b, op.epoch) THEN Refused("EPOCH_MISMATCH")
    ELSE IF <<b, op.seq>> \in DOMAIN receipts
    THEN LET r == receipts[<<b, op.seq>>] IN Answer(space, r.status, r.reason, r.settle)
    ELSE IF op.seq <= bindings[b].maxSeq THEN Refused("CLIENT_SEQ_REGRESSED")
    ELSE IF op.base < space.floor THEN Refused("OPERATION_HISTORY_EXPIRED")
    ELSE Decide(space, b, op)

\* Mutant of AdvanceClientSeq: the watermark stays where it is.
AdvanceClientSeqNever(b, seq) == bindings

AdvanceClientSeq(b, seq) == [bindings EXCEPT ![b].maxSeq = IF @ < seq THEN seq ELSE @]

\* ops after the request of op got outcomes and wrote that many rows.
Filed(k, op, outcomes, rows) ==
    LET before == IF k \in DOMAIN ops THEN ops[k] ELSE [answers |-> {}, effects |-> 0]
    IN  [j \in DOMAIN ops \cup {k} |->
            IF j # k THEN ops[j]
            ELSE [op |-> op, answers |-> before.answers \cup outcomes,
                  effects |-> before.effects + rows]]

\* The space, the receipt and the sequence watermark commit together, unless the
\* operation is refused or was answered before.
Commit(b, op) ==
    LET answer == Processed(b, op)
        k      == <<b, op.seq>>
    IN  /\ answer.status # "error"
        /\ answer.sp.rev <= MaxRev
        /\ space' = answer.sp
        /\ receipts' = IF k \in DOMAIN receipts THEN receipts
                       ELSE [j \in DOMAIN receipts \cup {k} |->
                                IF j = k THEN Receipt(answer) ELSE receipts[j]]
        /\ bindings' = AdvanceClientSeq(b, op.seq)
        /\ ops' = Filed(k, op, {Outcome(answer)}, answer.sp.rev - space.rev)
        /\ UNCHANGED backup

---------------------------------------------------------------------------
(* What a device can have captured *)

OpsOf(b) == {k \in DOMAIN ops : k[1] = b}

NextSeq(b) == Cardinality(OpsOf(b)) + 1

CanAsk(b) == NextSeq(b) <= MaxSeq /\ Cardinality(DOMAIN ops) < MaxOps

\* The revisions the device may have applied: it never goes back in an epoch.
Bases(b) ==
    {r \in 0 .. space.rev :
        \A k \in OpsOf(b) : ops[k].op.epoch = space.epoch => ops[k].op.base <= r}

\* n was in the tree at revision base, or the device has made it since.
Known(b, n, base) ==
    /\ \A r \in DOMAIN space.journal :
           space.journal[r].type = "create" /\ space.journal[r].node = n
               => r <= base \/ space.journal[r].origin.binding = b
    /\ \/ n \in DOMAIN space.nodes
       \/ n \in DOMAIN space.tomb /\ space.tomb[n] > base
       \/ \E r \in DOMAIN space.journal :
              r > base /\ space.journal[r].type = "delete" /\ space.journal[r].node = n

KnownFolder(b, p, base) ==
    /\ Known(b, p, base)
    /\ p \in DOMAIN space.nodes => space.nodes[p].type = "folder"
    /\ \A r \in DOMAIN space.journal :
           space.journal[r].type = "create" /\ space.journal[r].node = p
               => space.journal[r].payload.type = "folder"

ParentsAt(b, base) == MainSlots \cup {p \in minted : KnownFolder(b, p, base)}

NodesAt(b, base) == {n \in minted : Known(b, n, base)}

\* The commands a device may ask for at base.
Captures(b, base) ==
    [op : {"create"}, node : NodeIds \ minted, type : {"folder"}, title : Titles, url : {None},
     parent : ParentsAt(b, base), before : NodesAt(b, base) \cup {None}]
    \cup [op : {"create"}, node : NodeIds \ minted, type : {"bookmark"}, title : Titles,
          url : Urls, parent : ParentsAt(b, base), before : NodesAt(b, base) \cup {None}]
    \cup [op : {"update_title"}, node : NodesAt(b, base), title : Titles]
    \cup [op : {"update_url"}, url : Urls,
          node : {n \in NodesAt(b, base) :
                     n \in DOMAIN space.nodes => space.nodes[n].type = "bookmark"}]
    \cup {c \in [op : {"move"}, node : NodesAt(b, base), parent : ParentsAt(b, base),
                 before : NodesAt(b, base) \cup {None}] : c.node \notin {c.parent, c.before}}
    \cup [op : {"delete"}, node : NodesAt(b, base)]

---------------------------------------------------------------------------
(* Actions *)

Arrive(b) ==
    /\ CanAsk(b)
    /\ \E base \in Bases(b) : \E cmd \in Captures(b, base) :
           /\ Commit(b, [seq |-> NextSeq(b), base |-> base, epoch |-> space.epoch, cmd |-> cmd])
           /\ minted' = minted \cup (IF cmd.op = "create" THEN {cmd.node} ELSE {})

\* A request made before the last restore arrives for the first time.
ArriveLate(b) ==
    /\ CanAsk(b)
    /\ \E epoch \in 1 .. space.epoch - 1, n \in minted :
           LET op == [seq |-> NextSeq(b), base |-> 0, epoch |-> epoch,
                      cmd |-> [op |-> "delete", node |-> n]]
           IN  IF Processed(b, op).status = "error"
               THEN /\ ops' = Filed(<<b, op.seq>>, op, {}, 0)
                    /\ UNCHANGED <<space, bindings, receipts, backup>>
               ELSE Commit(b, op)
    /\ UNCHANGED minted

Redeliver(b) ==
    /\ \E k \in OpsOf(b) : Commit(b, ops[k].op)
    /\ UNCHANGED minted

WebEdit == Command(WebOrigin) /\ UNCHANGED syncVars

\* Mutant of Collected: tombstones are dropped up to the head, not up to the floor.
CollectedAllTombstones(floor) ==
    [space EXCEPT !.floor = IF @ < floor THEN floor ELSE @,
                  !.journal = [r \in {r \in DOMAIN @ : r > floor} |-> @[r]],
                  !.tomb = [n \in {} |-> n]]

\* The space after its history up to floor is pruned.
Collected(floor) ==
    [space EXCEPT !.floor = IF @ < floor THEN floor ELSE @,
                  !.journal = [r \in {r \in DOMAIN @ : r > floor} |-> @[r]],
                  !.tomb = [n \in {n \in DOMAIN @ : @[n] > floor} |-> @[n]]]

\* JournalGCSpace.  How many rows are past their age is up to the clock.
CollectJournal ==
    \E floor \in 1 .. space.rev :
        /\ floor + MinKeep <= space.rev
        /\ space' = Collected(floor)
        /\ receipts' = [k \in {k \in DOMAIN receipts : receipts[k].processedAt > floor} |->
                           receipts[k]]
        /\ UNCHANGED <<minted, bindings, ops, backup>>

\* One backup is enough; that of an empty space is left out.
TakeBackup ==
    /\ backup = None
    /\ space.nodes # NoRows
    /\ backup' = [slots |-> space.slots, nodes |-> space.nodes]
    /\ UNCHANGED <<treeVars, bindings, receipts, ops>>

\* Mutant of Baseline: the space keeps counting revisions where it was.
BaselineKeepingRevision ==
    [space EXCEPT !.epoch = @ + 1, !.floor = 0, !.slots = backup.slots,
                  !.nodes = [n \in DOMAIN backup.nodes |->
                                [backup.nodes[n] EXCEPT !.createdRev = 0, !.titleRev = 0,
                                                        !.urlRev = 0, !.structRev = 0]],
                  !.tomb = NoRows, !.journal = NoRows]

\* The backup's tree as revision 0 of a new epoch, without any history.
Baseline ==
    [space EXCEPT !.epoch = @ + 1, !.rev = 0, !.floor = 0, !.slots = backup.slots,
                  !.nodes = [n \in DOMAIN backup.nodes |->
                                [backup.nodes[n] EXCEPT !.createdRev = 0, !.titleRev = 0,
                                                        !.urlRev = 0, !.structRev = 0]],
                  !.tomb = NoRows, !.journal = NoRows]

\* ReplaceBaseline: every binding has to be initialized again.
Restore ==
    /\ backup # None
    /\ space.epoch < MaxEpoch
    /\ space' = Baseline
    /\ receipts' = NoRows
    /\ bindings' = [b \in Bindings |-> [bindings[b] EXCEPT !.state = "pending_initial",
                                                           !.epoch = space.epoch + 1]]
    /\ UNCHANGED <<minted, ops, backup>>

\* RevokeBinding: epoch and sequence watermark stay.
Revoke(b) ==
    /\ bindings' = [bindings EXCEPT ![b].state = "pending_initial"]
    /\ UNCHANGED <<treeVars, receipts, ops, backup>>

\* FinalizeBinding, at the end of a reconciliation of the space's present epoch.
Activate(b) ==
    /\ bindings[b].state = "pending_initial"
    /\ bindings[b].epoch = space.epoch
    /\ bindings' = [bindings EXCEPT ![b].state = "active"]
    /\ UNCHANGED <<treeVars, receipts, ops, backup>>

\* Rounds alone, without maintenance of the space or its bindings.
RoundNext == WebEdit \/ \E b \in Bindings : Arrive(b) \/ Redeliver(b)

RetentionNext == RoundNext \/ CollectJournal

SyncNext ==
    \/ RetentionNext
    \/ \E b \in Bindings : ArriveLate(b) \/ Revoke(b) \/ Activate(b)
    \/ TakeBackup
    \/ Restore

RoundSpec == SyncInit /\ [][RoundNext]_vars
RetentionSpec == SyncInit /\ [][RetentionNext]_vars
SyncSpec == SyncInit /\ [][SyncNext]_vars

---------------------------------------------------------------------------
(* Properties *)

\* Answered in this epoch, with its receipt and the rows since its base still there.
Retained(k) ==
    /\ k \in DOMAIN receipts
    /\ ops[k].op.epoch = space.epoch
    /\ ops[k].op.base >= space.floor

AnswerOf(k) == CHOOSE a \in ops[k].answers : TRUE

\* An operation changes the tree at most once and has one answer, however often and
\* however late its request is repeated, receipts collected or not (service.go:274-301).
EffectOnce ==
    \A k \in DOMAIN ops : ops[k].effects <= 1 /\ Cardinality(ops[k].answers) <= 1

\* A repeated request is answered with what the first one was: a device that lost
\* the response never gets an error instead (service.go:274-283).
RetryReplays ==
    \A k \in DOMAIN ops :
        Retained(k) /\ Served(k[1], ops[k].op.epoch) =>
            LET again == Processed(k[1], ops[k].op)
            IN  Outcome(again) = AnswerOf(k) /\ again.sp = space

Writes(row, field) == field \in DOMAIN row.payload

\* No update is lost: between the revision a device had applied and the revision its
\* edit of a field got, nobody else wrote that field of that node (decide.go:107-152,
\* 225-240).
NoLostUpdate ==
    \A r \in DOMAIN space.journal :
        LET row == space.journal[r]
            k   == <<row.origin.binding, row.origin.seq>>
        IN  row.origin # WebOrigin /\ row.type \in {"update_title", "update_url", "move"} =>
                \A q \in DOMAIN space.journal :
                    /\ ops[k].op.base < q /\ q < r
                    /\ space.journal[q].node = row.node
                    /\ \E f \in {"title", "url", "parent"} :
                           Writes(row, f) /\ Writes(space.journal[q], f)
                    => /\ space.journal[q].origin.binding = k[1]
                       /\ space.journal[q].origin.seq < k[2]

\* The revision an answer says to settle after is that of the row that decided it:
\* the operation's own row, the write it lost to, or the delete of its target.  The
\* device drops the operation from its outbox when it has applied that row, at once
\* when it is told 0: then nothing was written.  Of the answers that claim an effect
\* only that of a move can be such a one, when its anchor is gone and the executor
\* refuses it as a cycle (decide.go:242-244 writes REBASED over the rejection).
AnswerNamesItsCause ==
    \A k \in DOMAIN ops :
        Retained(k) =>
            LET answer == AnswerOf(k)
                op     == ops[k].op
                Cause  == space.journal[answer.settle]
            IN  /\ answer.settle = 0 => ops[k].effects = 0
                /\ answer.status \in {"APPLIED", "REBASED", "RECOVERED"} =>
                       IF answer.settle = 0
                       THEN answer.status = "REBASED" /\ op.cmd.op = "move"
                       ELSE /\ Cause.origin = DeviceOrigin(k[1], k[2])
                            /\ Cause.node = op.cmd.node /\ Cause.type = op.cmd.op
                /\ answer.reason \in {"concurrent_update", "concurrent_move"} =>
                       /\ answer.settle > op.base
                       /\ Cause.node = op.cmd.node
                       /\ Cause.origin.binding # k[1]
                /\ answer.reason \in {"target_deleted", "already_deleted"} =>
                       /\ answer.settle > op.base
                       /\ Cause.type = "delete"

\* What a device made is not dropped because somebody else deleted the folder, or the
\* sibling it was put before: a create is only ever refused for an invalid payload
\* (decide.go:11-14, doc 04 section 11).
NewDataProtected ==
    \A k \in DOMAIN ops :
        ops[k].op.cmd.op = "create" =>
            \A a \in ops[k].answers : a.status \in {"APPLIED", "REBASED", "RECOVERED"}

\* A device within the retained history never asks for something the server has
\* forgotten: its targets and parents are live or have tombstones (the floor is the
\* same for journal and tombstones, maintenance.go:76-86).
HonestOpRecognised ==
    \A k \in DOMAIN ops :
        \A a \in ops[k].answers : a.reason \notin {"invalid_target", "invalid_parent"}

\* The journal is exactly the revisions above the floor, so a device whose watermark the
\* floor admits never misses a row (service.go:175-182), and every row in it comes from
\* an operation of the journal's own epoch: a request that outlived a restore has no
\* effect (service.go:89-94, 262-271).
JournalOfThisEpoch ==
    /\ DOMAIN space.journal = space.floor + 1 .. space.rev
    /\ \A r \in DOMAIN space.journal :
           LET k == <<space.journal[r].origin.binding, space.journal[r].origin.seq>>
           IN  space.journal[r].origin # WebOrigin => ops[k].op.epoch = space.epoch

\* Whatever a device within the retained history can come to ask for, it gets an answer.
\* New data below a deleted folder goes to its recovery container, the second time as
\* the first (doc 04 section 11), and "concurrent edits of the same field conflict"
\* (decide.go:107-111) also when the other edit was made on the web.
HonestOpAnswered ==
    \A b \in Bindings : \A base \in Bases(b) : \A cmd \in Captures(b, base) :
        Served(b, space.epoch) /\ base >= space.floor =>
            Decide(space, b, [seq |-> NextSeq(b), base |-> base, epoch |-> space.epoch,
                              cmd |-> cmd]).status # "error"

\* docs/14-data-lifecycle-and-gc.md section 5: receipts are not collected before the
\* history the server still supports, so an operation that was answered keeps being
\* answered for as long as its base is above or at the floor.
AnsweredStaysAnswerable ==
    \A k \in DOMAIN ops :
        /\ ops[k].answers # {}
        /\ Served(k[1], ops[k].op.epoch)
        /\ ops[k].op.base >= space.floor
        => Processed(k[1], ops[k].op).status # "error"
=============================================================================
