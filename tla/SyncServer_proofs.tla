------------------------- MODULE SyncServer_proofs -------------------------
(***************************************************************************)
(* Theorems of the sync service around one space, for any number of        *)
(* bindings, nodes, revisions, operations and restores.  They rest on one  *)
(* inductive invariant, Inv, which says of every operation on file which   *)
(* row wrote it or which row it lost to, of every row of the journal which *)
(* operation or web edit wrote it, and of the space that its rows, field   *)
(* revisions and tombstones tell one story; the lemmas before it say what  *)
(* the decision makes of an operation and what the answer does to a space. *)
(***************************************************************************)
EXTENDS SyncServer, CommandLemmas

---------------------------------------------------------------------------
(* What the server decides about an operation a device can have captured *)

\* A node the operation's device knew at base and the server has not forgotten.
Recognised(sp, n, base) ==
    n \in DOMAIN sp.nodes \/ (n \in DOMAIN sp.tomb /\ sp.tomb[n] > base)

\* A parent the device may name: a slot of the space, or a folder it knew.
RecognisedParent(sp, p) ==
    \/ p \in MainSlots
    \/ /\ p \in NodeIds /\ p \in DOMAIN sp.nodes \cup DOMAIN sp.tomb
       /\ p \in DOMAIN sp.nodes => sp.nodes[p].type = "folder"

\* What a captured command asks of sp.
Askable(sp, cmd, base) ==
    /\ IsCommand(cmd)
    /\ cmd.op = "create" =>
           /\ cmd.node \notin DOMAIN sp.nodes \cup DOMAIN sp.tomb
           /\ cmd.title \in Titles /\ ValidTypeURL(cmd.type, cmd.url)
           /\ cmd.before # cmd.node
           /\ {"type", "title", "url"} \subseteq DOMAIN cmd
    /\ cmd.op # "create" => Recognised(sp, cmd.node, base)
    /\ cmd.op \in {"create", "move"} =>
           /\ {"op", "node", "parent", "before"} \subseteq DOMAIN cmd
           /\ RecognisedParent(sp, cmd.parent)

\* The space, and what every restore and every operation leaves of it.
SpaceInv ==
    /\ GoodSpace(space)
    /\ MainSlots \subseteq space.slots
    /\ minted \subseteq NodeIds
    /\ DOMAIN space.nodes \cup DOMAIN space.tomb \subseteq minted

\* A node known at base is live, or its tombstone is younger.
LEMMA KnownIsRecognised ==
    ASSUME SpaceInv, NEW b, NEW n, NEW base \in Nat, Known(b, n, base)
    PROVE  Recognised(space, n, base)
<1>1. \A r \in DOMAIN space.journal :
          space.journal[r].type = "delete" =>
              /\ space.journal[r].node \in DOMAIN space.tomb
              /\ space.tomb[space.journal[r].node] = r
  BY DEF SpaceInv, GoodSpace, GoodRows, LiveRows, TombsAgree
<1>2. QED  BY <1>1 DEF Known, Recognised

\* What a device can have captured is what it may ask.
LEMMA CapturedIsAskable ==
    ASSUME SpaceInv, NEW b, NEW base \in Nat, NEW cmd \in Captures(b, base)
    PROVE  Askable(space, cmd, base)
<1> DEFINE before == NodesAt(b, base) \cup {None}
<1>1. /\ \A n \in NodesAt(b, base) : n \in minted /\ Recognised(space, n, base)
      /\ \A p \in ParentsAt(b, base) : RecognisedParent(space, p) /\ p \in ParentRefs
  <2>1. \A n \in NodesAt(b, base) : n \in minted /\ Recognised(space, n, base)
    BY KnownIsRecognised DEF NodesAt
  <2>2. ASSUME NEW p \in ParentsAt(b, base)
        PROVE  RecognisedParent(space, p) /\ p \in ParentRefs
    <3>1. CASE p \in MainSlots
      BY <3>1, SyncConstants DEF RecognisedParent, ParentRefs
    <3>2. CASE p \in minted /\ KnownFolder(b, p, base)
      <4>1. p \in NodeIds /\ Recognised(space, p, base)
        BY <3>2, KnownIsRecognised DEF SpaceInv, KnownFolder
      <4>2. p \in DOMAIN space.nodes => space.nodes[p].type = "folder"
        BY <3>2 DEF KnownFolder
      <4>3. QED  BY <4>1, <4>2 DEF RecognisedParent, Recognised, ParentRefs
    <3>3. QED  BY <3>1, <3>2 DEF ParentsAt
  <2>3. QED  BY <2>1, <2>2
<1>2. \A n \in NodeIds \ minted : /\ n \notin DOMAIN space.nodes \cup DOMAIN space.tomb
                                  /\ n \notin before
  BY <1>1, ConstantsDisjoint DEF SpaceInv
<1> HIDE DEF before
<1>3. CASE cmd \in [op : {"create"}, node : NodeIds \ minted, type : {"folder"}, title : Titles,
                    url : {None}, parent : ParentsAt(b, base), before : before]
  <2>1. /\ cmd.op = "create" /\ cmd.node \in NodeIds \ minted /\ cmd.type = "folder"
        /\ cmd.title \in Titles /\ cmd.url = None /\ cmd.parent \in ParentsAt(b, base)
        /\ cmd.before \in before
        /\ DOMAIN cmd = {"op", "node", "type", "title", "url", "parent", "before"}
    BY <1>3
  <2>2. ValidTypeURL(cmd.type, cmd.url)
    BY <2>1 DEF ValidTypeURL
  <2>3. IsCommand(cmd)
    BY <1>1, <2>1 DEF IsCommand, NodeType
  <2>4. QED  BY <1>1, <1>2, <2>1, <2>2, <2>3 DEF Askable
<1>4. CASE cmd \in [op : {"create"}, node : NodeIds \ minted, type : {"bookmark"}, title : Titles,
                    url : Urls, parent : ParentsAt(b, base), before : before]
  <2>1. /\ cmd.op = "create" /\ cmd.node \in NodeIds \ minted /\ cmd.type = "bookmark"
        /\ cmd.title \in Titles /\ cmd.url \in Urls /\ cmd.parent \in ParentsAt(b, base)
        /\ cmd.before \in before
        /\ DOMAIN cmd = {"op", "node", "type", "title", "url", "parent", "before"}
    BY <1>4
  <2>2. ValidTypeURL(cmd.type, cmd.url)
    BY <2>1, ConstantsDisjoint DEF ValidTypeURL
  <2>3. IsCommand(cmd)
    BY <1>1, <2>1 DEF IsCommand, NodeType
  <2>4. QED  BY <1>1, <1>2, <2>1, <2>2, <2>3 DEF Askable
<1>5. CASE cmd \in [op : {"update_title"}, node : NodesAt(b, base), title : Titles]
  BY <1>1, <1>5 DEF Askable, IsCommand
<1>6. CASE cmd \in [op : {"update_url"}, url : Urls,
                    node : {n \in NodesAt(b, base) :
                               n \in DOMAIN space.nodes => space.nodes[n].type = "bookmark"}]
  BY <1>1, <1>6 DEF Askable, IsCommand
<1>7. CASE cmd \in [op : {"move"}, node : NodesAt(b, base), parent : ParentsAt(b, base),
                    before : before]
  BY <1>1, <1>7 DEF Askable, IsCommand
<1>8. CASE cmd \in [op : {"delete"}, node : NodesAt(b, base)]
  BY <1>1, <1>8 DEF Askable, IsCommand
<1>9. QED  BY <1>3, <1>4, <1>5, <1>6, <1>7, <1>8 DEF Captures, before

Effective == {"APPLIED", "REBASED", "RECOVERED"}

\* The spaces a command may run in: one with the recovery container of b, if need be.
Grounds(sp, b) == {sp, [sp EXCEPT !.slots = @ \cup {RecoveryRootKey(b)}]}

\* The write an edit replaces is one its device had seen or made.
SawLastWrite(sp, b, op) ==
    LET node == sp.nodes[op.cmd.node]
    IN  /\ op.cmd.op = "update_title" => ~Concurrent(sp, b, node.titleRev, op)
        /\ op.cmd.op = "update_url" => ~Concurrent(sp, b, node.urlRev, op)
        /\ op.cmd.op = "move" => ~Concurrent(sp, b, node.structRev, op)

\* The answer to an operation that runs its command.
Effected(sp, b, op, answer) ==
    /\ answer.status \in Effective
    /\ answer.reason \in {"", "anchor_moved", "anchor_deleted", "parent_deleted"}
    /\ \E ground \in Grounds(sp, b) : \E c :
           /\ Executable(ground, c) /\ c.op = op.cmd.op /\ c.node = op.cmd.node
           /\ ~(c.op = "move" /\ AlreadyInPlace(ground, c))
           /\ answer.sp = Execute(ground, c, DeviceOrigin(b, op.seq))
           /\ answer.settle = answer.sp.rev
    /\ op.cmd.op # "create" => op.cmd.node \in DOMAIN sp.nodes
    /\ SawLastWrite(sp, b, op)

\* The answer to one that leaves the space as it is, with the row it lost to.  It does
\* not claim an effect, unless the executor refused a move that had lost its anchor.
Declined(sp, b, op, answer) ==
    /\ answer.sp = sp /\ op.cmd.op # "create"
    /\ answer.status \in Effective =>
           answer.status = "REBASED" /\ op.cmd.op = "move" /\ answer.settle = 0
    /\ answer.reason \notin {"invalid_target", "invalid_parent"}
    /\ answer.reason \in {"concurrent_update", "concurrent_move"} =>
           /\ answer.settle > op.base /\ answer.settle \in DOMAIN sp.journal
           /\ sp.journal[answer.settle].node = op.cmd.node
           /\ Concurrent(sp, b, answer.settle, op) /\ ~OriginUnreadable(sp, answer.settle)
    /\ answer.reason \in {"target_deleted", "already_deleted"} =>
           /\ op.cmd.node \notin DOMAIN sp.nodes /\ op.cmd.node \in DOMAIN sp.tomb
           /\ answer.settle = sp.tomb[op.cmd.node]

\* An operation arriving at sp.
Asked(sp, b, op) ==
    /\ GoodSpace(sp) /\ MainSlots \subseteq sp.slots
    /\ b \in Bindings /\ op.base \in Nat /\ op.base >= sp.floor
    /\ Askable(sp, op.cmd, op.base)

\* A parent the device may name is not refused as unknown.
LEMMA ParentNotUnknown ==
    ASSUME NEW sp, GoodSpace(sp), MainSlots \subseteq sp.slots,
           NEW p, RecognisedParent(sp, p)
    PROVE  /\ ParentRefusal(sp, p) \in {"parent_deleted", None}
           /\ ParentRefusal(sp, p) = None => ValidParent(sp, p)
<1>1. p \in MainSlots => /\ p \in sp.slots /\ p \in RootKeys /\ p \notin NodeIds
                          /\ p \notin DOMAIN sp.nodes
  BY SyncConstants, ConstantsDisjoint DEF GoodSpace, TypedSpace, IsSpace
<1>2. CASE GoneParent(sp, p)
  <2>1. p \in DOMAIN sp.tomb /\ p \notin DOMAIN sp.nodes
    BY <1>1, <1>2 DEF RecognisedParent, GoneParent
  <2>2. p \notin RootKeys \ sp.slots
    BY <1>2, ConstantsDisjoint DEF GoneParent
  <2>3. ParentRefusal(sp, p) = "parent_deleted"
    BY <1>2, <2>1, <2>2 DEF ParentRefusal
  <2>4. QED  BY <2>3, NoneIsNoReason
<1>3. CASE ~GoneParent(sp, p)
  <2>1. ValidParent(sp, p)
    BY <1>1, <1>3 DEF RecognisedParent, GoneParent, ValidParent
  <2>2. p \notin RootKeys \ sp.slots
    BY <1>1, <1>3, ConstantsDisjoint DEF RecognisedParent
  <2>3. ~(p \in DOMAIN sp.nodes /\ sp.nodes[p].type # "folder")
    BY <1>1, <1>3 DEF RecognisedParent
  <2>4. ParentRefusal(sp, p) = None
    BY <1>3, <2>2, <2>3 DEF ParentRefusal
  <2>5. QED  BY <2>1, <2>4
<1>4. QED  BY <1>2, <1>3

\* A command that drops its anchor is the same command otherwise.
LEMMA AnchorDropped ==
    ASSUME NEW c, {"op", "node", "parent", "before"} \subseteq DOMAIN c, NEW p,
           c.op = "create" => {"type", "title", "url"} \subseteq DOMAIN c
    PROVE  /\ LET d == [c EXCEPT !.before = None]
              IN  /\ d.op = c.op /\ d.node = c.node /\ d.parent = c.parent /\ d.before = None
                  /\ c.op = "create" => d.type = c.type /\ d.title = c.title /\ d.url = c.url
           /\ LET d == [c EXCEPT !.parent = p, !.before = None]
              IN  /\ d.op = c.op /\ d.node = c.node /\ d.parent = p /\ d.before = None
                  /\ c.op = "create" => d.type = c.type /\ d.title = c.title /\ d.url = c.url
<1>1. "op" # "before" /\ "node" # "before" /\ "parent" # "before"
  OBVIOUS
<1>2. QED  BY <1>1

Says(answer, sp, status, reason, settle) ==
    /\ answer.sp = sp /\ answer.settle = settle
    /\ answer.status = status /\ answer.reason = reason

\* An answer that was given another status and reason has them, and is the same otherwise.
LEMMA RelabelledAnswer ==
    ASSUME NEW sp, NEW settle, NEW given, NEW because, NEW status, NEW reason
    PROVE  /\ Says(Answer(sp, given, because, settle), sp, given, because, settle)
           /\ Says(Relabelled(Answer(sp, given, because, settle), status, reason),
                   sp, status, reason, settle)
<1> DEFINE old == Answer(sp, given, because, settle)
<1>1. /\ old.sp = sp /\ old.settle = settle /\ old.status = given /\ old.reason = because
      /\ DOMAIN old = {"sp", "status", "reason", "settle"}
  BY DEF Answer
<1> HIDE DEF old
<1> DEFINE new == [old EXCEPT !.status = status, !.reason = reason]
<1>2. new.sp = sp /\ new.settle = settle /\ new.status = status /\ new.reason = reason
  BY <1>1
<1>3. Relabelled(old, status, reason) = new
  BY DEF Relabelled
<1> HIDE DEF new
<1>4. QED  BY <1>1, <1>2, <1>3 DEF old, Says

\* A node without a tombstone that the device knew is live.
LEMMA GoneIsBuried ==
    ASSUME NEW sp, NEW b, NEW op, Asked(sp, b, op), op.cmd.op # "create",
           op.cmd.node \notin DOMAIN sp.nodes, NEW status \in {"REJECTED", "NOOP"},
           NEW reason \in {"target_deleted", "already_deleted"}
    PROVE  Declined(sp, b, op, GoneAnswer(sp, op, status, reason))
<1>1. op.cmd.node \in DOMAIN sp.tomb
  BY DEF Asked, Askable, Recognised
<1>2. GoneAnswer(sp, op, status, reason) = Answer(sp, status, reason, sp.tomb[op.cmd.node])
  BY <1>1 DEF GoneAnswer
<1>3. QED  BY <1>1, <1>2 DEF Answer, Declined, Effective

\* A create is never refused: it runs, below the parent it names or in the recovery
\* container (a second recovery fails and rolls back).
LEMMA DecideCreateOutcome ==
    ASSUME NEW sp, NEW b, NEW op, Asked(sp, b, op), op.cmd.op = "create",
           DecideCreate(sp, b, op).status # "error"
    PROVE  Effected(sp, b, op, DecideCreate(sp, b, op))
<1> DEFINE c == op.cmd
           answer == DecideCreate(sp, b, op)
           refusal == ParentRefusal(sp, c.parent)
           key == RecoveryRootKey(b)
           Fits(ground, d) ==
               /\ d.op = "create" /\ d.node = c.node /\ d.type = c.type
               /\ d.title = c.title /\ d.url = c.url
               /\ d.parent \in ParentRefs /\ ValidParent(ground, d.parent)
               /\ d.before # None => d.before \in Children(ground.nodes, d.parent)
<1> SUFFICES Effected(sp, b, op, answer)
  OBVIOUS
<1>1. /\ IsCommand(c) /\ c.node \in NodeIds /\ c.type \in NodeType
      /\ c.node \notin DOMAIN sp.nodes \cup DOMAIN sp.tomb
      /\ c.title \in Titles /\ c.title # None /\ ValidTypeURL(c.type, c.url)
      /\ c.url \in Urls \cup {None} /\ c.parent \in ParentRefs
      /\ c.before # c.node /\ RecognisedParent(sp, c.parent)
      /\ {"op", "node", "type", "title", "url", "parent", "before"} \subseteq DOMAIN c
      /\ b \in Bindings /\ GoodSpace(sp) /\ MainSlots \subseteq sp.slots
  BY ConstantsDisjoint DEF Asked, Askable, IsCommand
<1>2. /\ refusal \in {"parent_deleted", None} /\ None # "parent_deleted"
      /\ refusal = None => ValidParent(sp, c.parent)
  BY <1>1, ParentNotUnknown, NoneIsNoReason
<1>3. ASSUME NEW ground \in Grounds(sp, b), NEW d, Fits(ground, d), NEW status \in Effective,
             NEW reason \in {"", "anchor_moved", "anchor_deleted", "parent_deleted"},
             answer \in {Applied(ground, b, op, d),
                         Relabelled(Applied(ground, b, op, d), status, reason)}
      PROVE  Effected(sp, b, op, answer)
  <2>1. ground.nodes = sp.nodes /\ ground.tomb = sp.tomb
    BY <1>1, <1>3 DEF Grounds, GoodSpace, TypedSpace, IsSpace
  <2>2. CanExecute(ground, d)
    BY <1>1, <1>3, <2>1 DEF CanExecute, CanCreate
  <2>3. IsCommand(d)
    BY <1>1, <1>3 DEF IsCommand
  <2>4. Executable(ground, d)
    BY <1>1, <1>3, <2>1, <2>2, <2>3 DEF Executable
  <2> HIDE DEF answer
  <2> DEFINE done == Execute(ground, d, DeviceOrigin(b, op.seq))
             last == done.rev
  <2>a. Applied(ground, b, op, d) = Answer(done, "APPLIED", "", last)
    BY <2>2 DEF Applied
  <2> HIDE DEF done, last
  <2>x. \/ answer = Answer(done, "APPLIED", "", last)
        \/ answer = Relabelled(Answer(done, "APPLIED", "", last), status, reason)
    BY <1>3, <2>a
  <2>b. /\ answer.sp = done /\ answer.settle = last
        /\ answer.status \in {"APPLIED", status} /\ answer.reason \in {"", reason}
    <3>1. \/ Says(answer, done, "APPLIED", "", last)
          \/ Says(answer, done, status, reason, last)
      BY <2>x, RelabelledAnswer
    <3>2. QED  BY <3>1 DEF Says
  <2>5. /\ answer.sp = Execute(ground, d, DeviceOrigin(b, op.seq))
        /\ answer.settle = answer.sp.rev
        /\ answer.status \in {"APPLIED", status} /\ answer.reason \in {"", reason}
    BY <2>b DEF done, last
  <2>6. QED  BY <1>3, <2>4, <2>5 DEF Effected, Effective, SawLastWrite
<1>4. CASE refusal = "parent_deleted"
  <2> DEFINE ground == [sp EXCEPT !.slots = @ \cup {key}]
             d == [c EXCEPT !.parent = key, !.before = None]
  <2>1. answer = Recovered(sp, b, op)
    BY <1>1, <1>4 DEF DecideCreate
  <2>2. key \notin sp.slots
    BY <2>1 DEF Recovered, Failed, Answer
  <2>3. answer = Relabelled(Applied(ground, b, op, d), "RECOVERED", "parent_deleted")
    BY <2>1, <2>2 DEF Recovered
  <2>4. /\ d.op = "create" /\ d.node = c.node /\ d.type = c.type /\ d.title = c.title
        /\ d.url = c.url /\ d.parent = key /\ d.before = None
    BY <1>1, AnchorDropped
  <2>5. ground.slots = sp.slots \cup {key}
    BY <1>1 DEF GoodSpace, TypedSpace, IsSpace
  <2>6. key \in ParentRefs /\ ValidParent(ground, key)
    BY <1>1, <2>5, SyncConstants DEF ValidParent, ParentRefs
  <2>7. ground \in Grounds(sp, b)
    BY DEF Grounds
  <2>8. Fits(ground, d)
    <3> HIDE DEF ground, d, c, key
    <3>1. QED  BY <2>4, <2>6
  <2> HIDE DEF answer, ground, d, Fits
  <2>9. QED  BY <1>3, <2>3, <2>7, <2>8 DEF Effective
<1>5. CASE refusal = None
  <2>1. answer = AppliedAtParent(sp, b, op)
    BY <1>1, <1>2, <1>5 DEF DecideCreate
  <2>2. sp \in Grounds(sp, b)
    BY DEF Grounds
  <2>3. CASE AnchorGone(sp, c)
    <3> DEFINE d == [c EXCEPT !.before = None]
               reason == AnchorGoneReason(sp, c.before)
    <3>1. answer = Relabelled(Applied(sp, b, op, d), "REBASED", reason)
      BY <2>1, <2>3 DEF AppliedAtParent
    <3>2. /\ d.op = "create" /\ d.node = c.node /\ d.type = c.type /\ d.title = c.title
          /\ d.url = c.url /\ d.parent = c.parent /\ d.before = None
      BY <1>1, AnchorDropped
    <3>3. reason \in {"", "anchor_moved", "anchor_deleted", "parent_deleted"}
      BY DEF AnchorGoneReason
    <3>4. Fits(sp, d)
      <4> HIDE DEF d, c
      <4>1. QED  BY <1>1, <1>2, <1>5, <3>2
    <3> HIDE DEF answer, d, reason, Fits
    <3>5. QED  BY <1>3, <2>2, <3>1, <3>3, <3>4 DEF Effective
  <2>4. CASE ~AnchorGone(sp, c)
    <3>1. answer = Applied(sp, b, op, c)
      BY <2>1, <2>4 DEF AppliedAtParent
    <3>2. c.before # None => c.before \in Children(sp.nodes, c.parent)
      BY <2>4 DEF AnchorGone
    <3>3. Fits(sp, c)
      BY <1>1, <1>2, <1>5, <3>2
    <3> HIDE DEF answer, c, Fits
    <3>4. QED  BY <1>3, <2>2, <3>1, <3>3 DEF Effective
  <2>5. QED  BY <2>3, <2>4
<1>6. QED  BY <1>2, <1>4, <1>5

\* The command runs where it is asked for, or is refused without effect.
LEMMA AppliedOutcome ==
    ASSUME NEW sp, NEW b, NEW op, Asked(sp, b, op), op.cmd.op # "create",
           op.cmd.node \in DOMAIN sp.nodes, SawLastWrite(sp, b, op),
           NEW c, IsCommand(c), c.op = op.cmd.op, c.node = op.cmd.node,
           ~(c.op = "move" /\ AlreadyInPlace(sp, c)),
           NEW reason \in {"anchor_moved", "anchor_deleted"},
           NEW answer, \/ answer = Applied(sp, b, op, c)
                       \/ /\ op.cmd.op = "move"
                          /\ answer = Relabelled(Applied(sp, b, op, c), "REBASED", reason)
    PROVE  Effected(sp, b, op, answer) \/ Declined(sp, b, op, answer)
<1>1. CASE CanExecute(sp, c)
  <2> DEFINE done == Execute(sp, c, DeviceOrigin(b, op.seq))
             last == done.rev
  <2>a. Applied(sp, b, op, c) = Answer(done, "APPLIED", "", last)
    BY <1>1 DEF Applied
  <2> HIDE DEF done, last
  <2>x. \/ answer = Answer(done, "APPLIED", "", last)
        \/ answer = Relabelled(Answer(done, "APPLIED", "", last), "REBASED", reason)
    BY <2>a
  <2>b. /\ answer.sp = done /\ answer.settle = last
        /\ answer.status \in {"APPLIED", "REBASED"} /\ answer.reason \in {"", reason}
    <3>1. \/ Says(answer, done, "APPLIED", "", last)
          \/ Says(answer, done, "REBASED", reason, last)
      BY <2>x, RelabelledAnswer
    <3>2. QED  BY <3>1 DEF Says
  <2>1. /\ answer.sp = Execute(sp, c, DeviceOrigin(b, op.seq))
        /\ answer.settle = answer.sp.rev
        /\ answer.status \in Effective /\ answer.reason \in {"", reason}
    BY <2>b DEF done, last, Effective
  <2>2. Executable(sp, c) /\ sp \in Grounds(sp, b)
    BY <1>1 DEF Executable, Grounds
  <2>3. QED  BY <2>1, <2>2 DEF Effected
<1>2. CASE ~CanExecute(sp, c)
  <2> DEFINE because == IF c.op = "move" THEN "tree_cycle" ELSE "invalid_payload"
  <2>a. Applied(sp, b, op, c) = Answer(sp, "REJECTED", because, 0)
    BY <1>2 DEF Applied, Rejected
  <2>b. because \in {"tree_cycle", "invalid_payload"}
    OBVIOUS
  <2> HIDE DEF because
  <2>x. \/ answer = Answer(sp, "REJECTED", because, 0)
        \/ /\ op.cmd.op = "move"
           /\ answer = Relabelled(Answer(sp, "REJECTED", because, 0), "REBASED", reason)
    BY <2>a
  <2>c. \/ Says(answer, sp, "REJECTED", because, 0)
        \/ op.cmd.op = "move" /\ Says(answer, sp, "REBASED", reason, 0)
    BY <2>x, RelabelledAnswer
  <2>1. /\ answer.sp = sp /\ answer.settle = 0
        /\ \/ answer.status = "REJECTED"
           \/ answer.status = "REBASED" /\ op.cmd.op = "move"
        /\ answer.reason \in {"tree_cycle", "invalid_payload", reason}
    BY <2>b, <2>c DEF Says
  <2>2. QED  BY <2>1 DEF Declined, Effective
<1>3. QED  BY <1>1, <1>2

\* The row a field revision past the base names is in the journal, and about the node.
LEMMA RevisionNamesRow ==
    ASSUME NEW sp, NEW b, NEW op, Asked(sp, b, op), NEW n \in DOMAIN sp.nodes,
           NEW rf \in {"titleRev", "urlRev", "structRev"}, sp.nodes[n][rf] > op.base
    PROVE  sp.nodes[n][rf] \in DOMAIN sp.journal /\ sp.journal[sp.nodes[n][rf]].node = n
<1>1. sp.nodes[n][rf] \in Nat /\ sp.floor \in Nat
  BY DEF Asked, GoodSpace, TypedSpace, IsSpace, Nodes
<1>2. sp.nodes[n][rf] > sp.floor
  BY <1>1 DEF Asked
<1>3. QED  BY <1>2 DEF Asked, GoodSpace, GoodRows, LiveRows, FieldsAgree, FieldJournaled

\* An edit of a field loses to a write it had not seen, and runs otherwise.
LEMMA DecideFieldOutcome ==
    ASSUME NEW sp, NEW b, NEW op, Asked(sp, b, op),
           op.cmd.op \in {"update_title", "update_url"}, op.cmd.node \in DOMAIN sp.nodes,
           NEW rev, rev = IF op.cmd.op = "update_title" THEN sp.nodes[op.cmd.node].titleRev
                                                        ELSE sp.nodes[op.cmd.node].urlRev,
           NEW current, NEW wanted,
           DecideField(sp, b, op, rev, current, wanted).status # "error"
    PROVE  LET answer == DecideField(sp, b, op, rev, current, wanted)
           IN  Effected(sp, b, op, answer) \/ Declined(sp, b, op, answer)
<1> DEFINE answer == DecideField(sp, b, op, rev, current, wanted)
<1> SUFFICES Effected(sp, b, op, answer) \/ Declined(sp, b, op, answer)
  OBVIOUS
<1>1. ~(rev > op.base /\ OriginUnreadable(sp, rev))
  BY DEF DecideField, Failed, Answer
<1>2. CASE Concurrent(sp, b, rev, op)
  <2>1. /\ answer.sp = sp /\ answer.settle = rev /\ answer.reason = "concurrent_update"
        /\ answer.status \in {"NOOP", "CONFLICT"}
    BY <1>1, <1>2 DEF DecideField, Answer
  <2>2. rev > op.base
    BY <1>2 DEF Concurrent
  <2>3. rev \in DOMAIN sp.journal /\ sp.journal[rev].node = op.cmd.node
    BY <2>2, RevisionNamesRow
  <2> HIDE DEF answer
  <2>4. QED  BY <1>1, <1>2, <2>1, <2>2, <2>3 DEF Declined, Effective
<1>3. CASE ~Concurrent(sp, b, rev, op)
  <2>1. answer = Applied(sp, b, op, op.cmd)
    BY <1>1, <1>3 DEF DecideField
  <2>2. SawLastWrite(sp, b, op)
    BY <1>3 DEF SawLastWrite
  <2>3. IsCommand(op.cmd)
    BY DEF Asked, Askable
  <2> HIDE DEF answer
  <2>4. QED  BY <2>1, <2>2, <2>3, AppliedOutcome DEF Effective
<1>4. QED  BY <1>2, <1>3

\* So does an update of either field.
LEMMA DecideUpdateOutcome ==
    ASSUME NEW sp, NEW b, NEW op, Asked(sp, b, op),
           op.cmd.op \in {"update_title", "update_url"},
           DecideUpdate(sp, b, op).status # "error"
    PROVE  LET answer == DecideUpdate(sp, b, op)
           IN  Effected(sp, b, op, answer) \/ Declined(sp, b, op, answer)
<1> DEFINE answer == DecideUpdate(sp, b, op)
           node == sp.nodes[op.cmd.node]
<1> SUFFICES Effected(sp, b, op, answer) \/ Declined(sp, b, op, answer)
  OBVIOUS
<1>1. CASE op.cmd.node \notin DOMAIN sp.nodes
  <2>1. answer = GoneAnswer(sp, op, "REJECTED", "target_deleted")
    BY <1>1 DEF DecideUpdate
  <2>2. op.cmd.op # "create"
    OBVIOUS
  <2> HIDE DEF answer
  <2>3. QED  BY <1>1, <2>1, <2>2, GoneIsBuried
<1>2. CASE op.cmd.node \in DOMAIN sp.nodes /\ op.cmd.op = "update_title"
  <2>1. answer = DecideField(sp, b, op, node.titleRev, node.title, op.cmd.title)
    BY <1>2 DEF DecideUpdate
  <2>2. answer.status # "error"
    OBVIOUS
  <2> HIDE DEF answer
  <2>3. QED  BY <1>2, <2>1, <2>2, DecideFieldOutcome
<1>3. CASE op.cmd.node \in DOMAIN sp.nodes /\ op.cmd.op = "update_url"
  <2>1. CASE node.type = "bookmark"
    <3>1. answer = DecideField(sp, b, op, node.urlRev, node.url, op.cmd.url)
      BY <1>3, <2>1 DEF DecideUpdate
    <3>2. answer.status # "error"
      OBVIOUS
    <3> HIDE DEF answer
    <3>3. QED  BY <1>3, <3>1, <3>2, DecideFieldOutcome
  <2>2. CASE node.type # "bookmark"
    <3>1. answer = Rejected(sp, "not_bookmark")
      BY <1>3, <2>2 DEF DecideUpdate
    <3>2. /\ answer.sp = sp /\ answer.status = "REJECTED" /\ answer.reason = "not_bookmark"
      BY <3>1 DEF Rejected, Answer
    <3> HIDE DEF answer
    <3>3. QED  BY <1>3, <3>2 DEF Declined, Effective
  <2>3. QED  BY <2>1, <2>2
<1>4. QED  BY <1>1, <1>2, <1>3

\* A move has its anchor dropped once, before it is compared with the node's place and
\* again when it runs.
LEMMA DecideMoveOutcome ==
    ASSUME NEW sp, NEW b, NEW op, Asked(sp, b, op), op.cmd.op = "move",
           DecideMove(sp, b, op).status # "error"
    PROVE  LET answer == DecideMove(sp, b, op)
           IN  Effected(sp, b, op, answer) \/ Declined(sp, b, op, answer)
<1> DEFINE answer == DecideMove(sp, b, op)
           c == op.cmd
           rev == sp.nodes[c.node].structRev
           refusal == ParentRefusal(sp, c.parent)
<1> SUFFICES Effected(sp, b, op, answer) \/ Declined(sp, b, op, answer)
  OBVIOUS
<1>1. /\ IsCommand(c) /\ c.parent \in ParentRefs
      /\ {"op", "node", "parent", "before"} \subseteq DOMAIN c
      /\ refusal \in {"parent_deleted", None}
  <2>1. RecognisedParent(sp, c.parent) /\ GoodSpace(sp) /\ MainSlots \subseteq sp.slots
    BY DEF Asked, Askable
  <2>2. refusal \in {"parent_deleted", None}
    BY <2>1, ParentNotUnknown
  <2>3. QED  BY <2>2 DEF Asked, Askable, IsCommand
<1>2. CASE c.node \notin DOMAIN sp.nodes
  <2>1. answer = GoneAnswer(sp, op, "REJECTED", "target_deleted")
    BY <1>2 DEF DecideMove
  <2> HIDE DEF answer
  <2>2. QED  BY <1>2, <2>1, GoneIsBuried
<1>3. ASSUME NEW reason \in {"parent_deleted", "invalid_anchor", "already_in_place"},
             answer.sp = sp, answer.status \in {"REJECTED", "NOOP"}, answer.reason = reason
      PROVE  Declined(sp, b, op, answer)
  <2> HIDE DEF answer
  <2>1. QED  BY <1>3 DEF Declined, Effective
<1>4. CASE c.node \in DOMAIN sp.nodes /\ refusal # None
  <2>1. answer = Rejected(sp, "parent_deleted")
    BY <1>1, <1>4 DEF DecideMove
  <2>2. answer.sp = sp /\ answer.status = "REJECTED" /\ answer.reason = "parent_deleted"
    BY <2>1 DEF Rejected, Answer
  <2> HIDE DEF answer
  <2>3. QED  BY <1>3, <2>2
<1>5. CASE c.node \in DOMAIN sp.nodes /\ refusal = None /\ c.before = c.node
  <2>1. answer = Rejected(sp, "invalid_anchor")
    BY <1>5 DEF DecideMove
  <2>2. answer.sp = sp /\ answer.status = "REJECTED" /\ answer.reason = "invalid_anchor"
    BY <2>1 DEF Rejected, Answer
  <2> HIDE DEF answer
  <2>3. QED  BY <1>3, <2>2
<1>6. CASE c.node \in DOMAIN sp.nodes /\ refusal = None /\ c.before # c.node
           /\ AtIntendedPlace(sp, op)
  <2>1. answer = Answer(sp, "NOOP", "already_in_place", rev)
    BY <1>6 DEF DecideMove
  <2>2. answer.sp = sp /\ answer.status = "NOOP" /\ answer.reason = "already_in_place"
    BY <2>1 DEF Answer
  <2> HIDE DEF answer
  <2>3. QED  BY <1>3, <2>2
<1>7. CASE c.node \in DOMAIN sp.nodes /\ refusal = None /\ c.before # c.node
           /\ ~AtIntendedPlace(sp, op)
  <2>1. ~(rev > op.base /\ OriginUnreadable(sp, rev))
    BY <1>7 DEF DecideMove, Failed, Answer
  <2>2. CASE Concurrent(sp, b, rev, op)
    <3>1. /\ answer.sp = sp /\ answer.settle = rev /\ answer.reason = "concurrent_move"
          /\ answer.status = "CONFLICT"
      BY <1>7, <2>1, <2>2 DEF DecideMove, Answer
    <3>2. rev > op.base
      BY <2>2 DEF Concurrent
    <3>3. rev \in DOMAIN sp.journal /\ sp.journal[rev].node = c.node
      BY <1>7, <3>2, RevisionNamesRow
    <3> HIDE DEF answer
    <3>4. QED  BY <2>1, <2>2, <3>1, <3>2, <3>3 DEF Declined, Effective
  <2>3. CASE ~Concurrent(sp, b, rev, op)
    <3>1. answer = AppliedAtParent(sp, b, op)
      BY <1>7, <2>1, <2>3 DEF DecideMove
    <3>2. SawLastWrite(sp, b, op)
      BY <2>3 DEF SawLastWrite
    <3>3. CASE AnchorGone(sp, c)
      <4> DEFINE d == [c EXCEPT !.before = None]
                 reason == AnchorGoneReason(sp, c.before)
      <4>1. answer = Relabelled(Applied(sp, b, op, d), "REBASED", reason)
        BY <3>1, <3>3 DEF AppliedAtParent
      <4>2. d.op = c.op /\ d.node = c.node /\ d.parent = c.parent
        BY <1>1, AnchorDropped
      <4>3. ~AlreadyInPlace(sp, d)
        BY <1>7, <3>3 DEF AtIntendedPlace
      <4>4. reason \in {"anchor_moved", "anchor_deleted"}
        BY DEF AnchorGoneReason
      <4> HIDE DEF d, reason, answer
      <4>5. IsCommand(d)
        BY <1>1, <4>2 DEF IsCommand
      <4>6. QED  BY <1>7, <3>2, <4>1, <4>2, <4>3, <4>4, <4>5, AppliedOutcome DEF Effective
    <3>4. CASE ~AnchorGone(sp, c)
      <4>1. answer = Applied(sp, b, op, c)
        BY <3>1, <3>4 DEF AppliedAtParent
      <4> DEFINE d == [c EXCEPT !.before = IF AnchorGone(sp, op.cmd) THEN None ELSE @]
      <4>2. d.node = c.node /\ d.parent = c.parent /\ d.before = c.before
        BY <1>1, <3>4
      <4>3. ~AlreadyInPlace(sp, c)
        <5>1. ~AlreadyInPlace(sp, d)
          BY <1>7 DEF AtIntendedPlace
        <5> HIDE DEF d
        <5>2. QED  BY <4>2, <5>1 DEF AlreadyInPlace, Siblings
      <4> HIDE DEF answer
      <4>4. QED  BY <1>1, <1>7, <3>2, <4>1, <4>3, AppliedOutcome DEF Effective
    <3>5. QED  BY <3>3, <3>4
  <2>4. QED  BY <2>2, <2>3
<1>8. QED  BY <1>2, <1>4, <1>5, <1>6, <1>7

\* A delete of what is already gone names the delete that took it.
LEMMA DecideDeleteOutcome ==
    ASSUME NEW sp, NEW b, NEW op, Asked(sp, b, op), op.cmd.op = "delete"
    PROVE  LET answer == DecideDelete(sp, b, op)
           IN  Effected(sp, b, op, answer) \/ Declined(sp, b, op, answer)
<1> DEFINE answer == DecideDelete(sp, b, op)
<1> SUFFICES Effected(sp, b, op, answer) \/ Declined(sp, b, op, answer)
  OBVIOUS
<1>1. CASE op.cmd.node \notin DOMAIN sp.nodes
  <2>1. answer = GoneAnswer(sp, op, "NOOP", "already_deleted")
    BY <1>1 DEF DecideDelete
  <2> HIDE DEF answer
  <2>2. QED  BY <1>1, <2>1, GoneIsBuried
<1>2. CASE op.cmd.node \in DOMAIN sp.nodes
  <2>1. answer = Applied(sp, b, op, op.cmd)
    BY <1>2 DEF DecideDelete
  <2>2. SawLastWrite(sp, b, op)
    BY DEF SawLastWrite
  <2>3. IsCommand(op.cmd)
    BY DEF Asked, Askable
  <2> HIDE DEF answer
  <2>4. QED  BY <1>2, <2>1, <2>2, <2>3, AppliedOutcome DEF Effective
<1>3. QED  BY <1>1, <1>2

\* Whatever a device asks, its command runs and is answered with the row it writes, or
\* the space stays as it is and the answer names what stood in the way.
LEMMA DecideOutcome ==
    ASSUME NEW sp, NEW b, NEW op, Asked(sp, b, op), Decide(sp, b, op).status # "error"
    PROVE  LET answer == Decide(sp, b, op)
           IN  Effected(sp, b, op, answer) \/ Declined(sp, b, op, answer)
<1> DEFINE answer == Decide(sp, b, op)
<1> SUFFICES Effected(sp, b, op, answer) \/ Declined(sp, b, op, answer)
  OBVIOUS
<1>1. op.cmd.op \in {"create", "update_title", "update_url", "move", "delete"}
  BY DEF Asked, Askable, IsCommand
<1>2. CASE op.cmd.op = "create"
  <2>1. answer = DecideCreate(sp, b, op) /\ answer.status # "error"
    BY <1>2 DEF Decide
  <2> HIDE DEF answer
  <2>2. QED  BY <1>2, <2>1, DecideCreateOutcome
<1>3. CASE op.cmd.op \in {"update_title", "update_url"}
  <2>1. answer = DecideUpdate(sp, b, op) /\ answer.status # "error"
    BY <1>3 DEF Decide
  <2> HIDE DEF answer
  <2>2. QED  BY <1>3, <2>1, DecideUpdateOutcome
<1>4. CASE op.cmd.op = "move"
  <2>1. answer = DecideMove(sp, b, op) /\ answer.status # "error"
    BY <1>4 DEF Decide
  <2> HIDE DEF answer
  <2>2. QED  BY <1>4, <2>1, DecideMoveOutcome
<1>5. CASE op.cmd.op = "delete"
  <2>1. answer = DecideDelete(sp, b, op)
    BY <1>5 DEF Decide
  <2> HIDE DEF answer
  <2>2. QED  BY <1>5, <2>1, DecideDeleteOutcome
<1>6. QED  BY <1>1, <1>2, <1>3, <1>4, <1>5

---------------------------------------------------------------------------
(* What an operation or an edit on the web does to the space *)

\* after is sp with one more row, of origin, for what was done to node n by op.
Extends(sp, after, origin, op, n) ==
    /\ after.rev = sp.rev + 1 /\ after.floor = sp.floor /\ after.epoch = sp.epoch
    /\ DOMAIN after.journal = DOMAIN sp.journal \cup {sp.rev + 1}
    /\ \A r \in DOMAIN sp.journal : after.journal[r] = sp.journal[r]
    /\ LET row == after.journal[sp.rev + 1]
       IN  /\ row.origin = origin /\ row.type = op /\ row.node = n
           /\ DOMAIN row.payload \cap Edited = FieldsOf(op)
    /\ DOMAIN after.nodes \cup DOMAIN after.tomb
           = DOMAIN sp.nodes \cup DOMAIN sp.tomb \cup (IF op = "create" THEN {n} ELSE {})
    /\ n \in DOMAIN after.nodes \cup DOMAIN after.tomb

\* Making room for the recovery container harms nothing.
LEMMA GroundGood ==
    ASSUME NEW sp, GoodSpace(sp), NEW b \in Bindings, NEW ground \in Grounds(sp, b)
    PROVE  /\ GoodSpace(ground)
           /\ ground.nodes = sp.nodes /\ ground.tomb = sp.tomb /\ ground.journal = sp.journal
           /\ ground.rev = sp.rev /\ ground.floor = sp.floor /\ ground.epoch = sp.epoch
           /\ sp.slots \subseteq ground.slots
<1>1. CASE ground = sp
  BY <1>1
<1>2. CASE ground = [sp EXCEPT !.slots = @ \cup {RecoveryRootKey(b)}]
  <2>1. /\ DOMAIN ground = DOMAIN sp
        /\ ground.nodes = sp.nodes /\ ground.tomb = sp.tomb /\ ground.journal = sp.journal
        /\ ground.rev = sp.rev /\ ground.floor = sp.floor /\ ground.epoch = sp.epoch
        /\ ground.slots = sp.slots \cup {RecoveryRootKey(b)}
    BY <1>2 DEF GoodSpace, TypedSpace, IsSpace
  <2>2. RecoveryRootKey(b) \in RootKeys
    BY SyncConstants
  <2>3. TypedSpace(ground)
    BY <2>1, <2>2 DEF GoodSpace, TypedSpace, IsSpace
  <2>4. GoodTree(ground)
    BY <2>1 DEF GoodSpace, GoodTree, ValidParent
  <2>5. JournalSpans(ground) /\ DenseSiblings(ground)
    BY <2>1 DEF GoodSpace, GoodRows, LiveRows, JournalSpans, DenseSiblings
  <2>6. FieldsAgree(ground)
    BY <2>1 DEF GoodSpace, GoodRows, LiveRows, FieldsAgree, FieldJournaled, FieldLatest
  <2>7. TombsAgree(ground)
    BY <2>1 DEF GoodSpace, GoodRows, LiveRows, TombsAgree
  <2>8. QED  BY <2>1, <2>3, <2>4, <2>5, <2>6, <2>7 DEF GoodSpace, GoodRows, LiveRows
<1>3. QED  BY <1>1, <1>2 DEF Grounds

\* A command that does not find its node in place already extends the space it runs in.
LEMMA CommandExtends ==
    ASSUME NEW sp, GoodSpace(sp), NEW c, Executable(sp, c), NEW origin \in Origins,
           ~(c.op = "move" /\ AlreadyInPlace(sp, c)),
           NEW after, after = Execute(sp, c, origin)
    PROVE  /\ GoodSpace(after) /\ after.slots = sp.slots
           /\ Extends(sp, after, origin, c.op, c.node)
<1>1. GoodSpace(after) /\ Peopled(sp, c, after) /\ WritesCommand(sp, c, origin, after)
  BY ExecuteKeeps
<1>2. PICK payload : /\ WritesRow(sp, after, Row(c.op, c.node, payload, origin))
                     /\ DOMAIN payload \cap Edited = FieldsOf(c.op)
  BY <1>1 DEF WritesCommand
<1> DEFINE row == Row(c.op, c.node, payload, origin)
<1>3. row.origin = origin /\ row.type = c.op /\ row.node = c.node /\ row.payload = payload
  BY DEF Row
<1> HIDE DEF row
<1>4. /\ after.rev = sp.rev + 1 /\ after.floor = sp.floor /\ after.epoch = sp.epoch
      /\ after.slots = sp.slots
      /\ DOMAIN after.journal = DOMAIN sp.journal \cup {sp.rev + 1}
      /\ after.journal[sp.rev + 1] = row
      /\ \A r \in DOMAIN sp.journal \ {sp.rev + 1} : after.journal[r] = sp.journal[r]
  BY <1>2 DEF row, WritesRow, OneMoreRow
<1>5. sp.rev + 1 \notin DOMAIN sp.journal
  BY DEF GoodSpace, GoodRows, LiveRows, JournalSpans, TypedSpace, IsSpace
<1>6. c.node \in DOMAIN after.nodes \cup DOMAIN after.tomb
  <2>1. c.op # "create" => c.node \in DOMAIN sp.nodes
    BY DEF Executable, IsCommand, CanExecute, CanUpdateTitle, CanUpdateURL, CanMove, CanDelete
  <2>2. QED  BY <1>1, <2>1 DEF Peopled
<1>7. QED  BY <1>1, <1>2, <1>3, <1>4, <1>5, <1>6 DEF Extends, Peopled

\* An operation that runs extends the space it arrived at.
LEMMA EffectedExtends ==
    ASSUME NEW sp, NEW b, NEW op, Asked(sp, b, op), NEW answer, Effected(sp, b, op, answer),
           DeviceOrigin(b, op.seq) \in Origins
    PROVE  /\ GoodSpace(answer.sp) /\ sp.slots \subseteq answer.sp.slots
           /\ Extends(sp, answer.sp, DeviceOrigin(b, op.seq), op.cmd.op, op.cmd.node)
           /\ answer.settle = sp.rev + 1
<1>1. GoodSpace(sp) /\ b \in Bindings
  BY DEF Asked
<1>2. PICK ground \in Grounds(sp, b) : \E c :
           /\ Executable(ground, c) /\ c.op = op.cmd.op /\ c.node = op.cmd.node
           /\ ~(c.op = "move" /\ AlreadyInPlace(ground, c))
           /\ answer.sp = Execute(ground, c, DeviceOrigin(b, op.seq))
           /\ answer.settle = answer.sp.rev
  BY DEF Effected
<1>3. PICK c :
           /\ Executable(ground, c) /\ c.op = op.cmd.op /\ c.node = op.cmd.node
           /\ ~(c.op = "move" /\ AlreadyInPlace(ground, c))
           /\ answer.sp = Execute(ground, c, DeviceOrigin(b, op.seq))
           /\ answer.settle = answer.sp.rev
  BY <1>2
<1>4. /\ GoodSpace(ground)
      /\ ground.nodes = sp.nodes /\ ground.tomb = sp.tomb /\ ground.journal = sp.journal
      /\ ground.rev = sp.rev /\ ground.floor = sp.floor /\ ground.epoch = sp.epoch
      /\ sp.slots \subseteq ground.slots
  BY <1>1, GroundGood
<1>5. /\ GoodSpace(answer.sp) /\ answer.sp.slots = ground.slots
      /\ Extends(ground, answer.sp, DeviceOrigin(b, op.seq), c.op, c.node)
  BY <1>3, <1>4, CommandExtends
<1>6. QED  BY <1>3, <1>4, <1>5 DEF Extends

---------------------------------------------------------------------------
(* The inductive invariant *)

BindingsInv ==
    /\ bindings = [b \in Bindings |-> [state |-> bindings[b].state, epoch |-> bindings[b].epoch,
                                      maxSeq |-> bindings[b].maxSeq]]
    /\ \A b \in Bindings : bindings[b].maxSeq \in Nat

\* A binding numbers its operations from 1 on, so the next number is fresh.
OpsInv ==
    /\ DOMAIN ops \subseteq Bindings \X Nat
    /\ ops = [k \in DOMAIN ops |-> [op |-> ops[k].op, answers |-> ops[k].answers,
                                    effects |-> ops[k].effects]]
    /\ \A b \in Bindings : /\ IsFiniteSet(OpsOf(b))
                           /\ \A k \in OpsOf(b) : k[2] \in 1 .. Cardinality(OpsOf(b))
    /\ \A k \in DOMAIN ops :
           /\ ops[k].op.seq = k[2] /\ ops[k].op.base \in Nat
           /\ ops[k].op.epoch \in Nat /\ ops[k].op.epoch <= space.epoch

\* What an answer to an operation captured at a retained base can say.
Honest(op, a) ==
    /\ a.reason \notin {"invalid_target", "invalid_parent"}
    /\ op.cmd.op = "create" => a.status \in Effective

\* Every operation has at most one answer and one effect.  One without an answer
\* outlived a restore; one with an answer is below the watermark, so only its receipt
\* is ever consulted again.
AnswersInv ==
    \A k \in DOMAIN ops :
        /\ ops[k].effects \in {0, 1}
        /\ \/ ops[k].answers = {} /\ ops[k].op.epoch < space.epoch
           \/ \E a : /\ ops[k].answers = {a} /\ Honest(ops[k].op, a)
                     /\ k[2] <= bindings[k[1]].maxSeq

\* A receipt holds the one answer.
ReceiptsInv ==
    /\ DOMAIN receipts \subseteq DOMAIN ops
    /\ \A k \in DOMAIN receipts : ops[k].answers = {Outcome(receipts[k])}

OriginOf(row) == <<row.origin.binding, row.origin.seq>>

\* Every row is about a node handed out, the create being its first; a device's row
\* comes from an operation of this epoch.
RowsKnown ==
    \A r \in DOMAIN space.journal :
        LET row == space.journal[r]
        IN  /\ row.node \in minted
            /\ DOMAIN row.payload \cap Edited = FieldsOf(row.type)
            /\ row.type = "create" =>
                   \A q \in DOMAIN space.journal : q < r => space.journal[q].node # row.node
            /\ row.origin # WebOrigin =>
                   /\ OriginOf(row) \in DOMAIN ops
                   /\ ops[OriginOf(row)].op.epoch = space.epoch

\* a, the answer to the operation k, names the row that decided it.
NamesCause(k, a) ==
    LET op    == ops[k].op
        Cause == space.journal[a.settle]
    IN  /\ a.settle = 0 => ops[k].effects = 0
        /\ a.status \in Effective =>
               \/ a.settle = 0 /\ a.status = "REBASED" /\ op.cmd.op = "move"
               \/ /\ a.settle > op.base /\ a.settle \in DOMAIN space.journal
                  /\ Cause.origin = DeviceOrigin(k[1], k[2])
                  /\ Cause.node = op.cmd.node /\ Cause.type = op.cmd.op
        /\ a.reason \in {"concurrent_update", "concurrent_move"} =>
               /\ a.settle > op.base /\ a.settle \in DOMAIN space.journal
               /\ Cause.node = op.cmd.node /\ Cause.origin.binding # k[1]
        /\ a.reason \in {"target_deleted", "already_deleted"} =>
               /\ a.settle > op.base /\ a.settle \in DOMAIN space.journal
               /\ Cause.type = "delete"

\* The rows answers name stay for as long as the base they are younger than.
CauseKept(k) ==
    ops[k].op.epoch = space.epoch /\ ops[k].op.base >= space.floor =>
        \A a \in ops[k].answers : NamesCause(k, a)

CausesKept == \A k \in DOMAIN ops : CauseKept(k)

SharesField(row, other) ==
    \E f \in Edited : f \in DOMAIN row.payload /\ f \in DOMAIN other.payload

\* What a device's row, a create's included, replaces since its base is the device's own.
NothingUnseen ==
    \A r, q \in DOMAIN space.journal :
        LET row   == space.journal[r]
            other == space.journal[q]
            k     == OriginOf(row)
        IN  /\ row.origin # WebOrigin /\ ops[k].op.base < q /\ q < r
            /\ other.node = row.node /\ SharesField(row, other)
            => other.origin.binding = k[1] /\ other.origin.seq < k[2]

\* The backup is the tree of a good space.
BackupInv ==
    backup # None =>
        \E sp : /\ GoodSpace(sp) /\ MainSlots \subseteq sp.slots /\ DOMAIN sp.nodes \subseteq minted
                /\ backup = [slots |-> sp.slots, nodes |-> sp.nodes]

JournalInv == RowsKnown /\ CausesKept /\ NothingUnseen

Inv ==
    /\ SpaceInv /\ BindingsInv /\ OpsInv /\ AnswersInv /\ ReceiptsInv
    /\ JournalInv /\ BackupInv

---------------------------------------------------------------------------
(* Operations on file *)

\* The operation op of b is filed for the first time.
Files(b, op, answers, rows) ==
    ops' = [j \in DOMAIN ops \cup {<<b, op.seq>>} |->
               IF j # <<b, op.seq>> THEN ops[j]
               ELSE [op |-> op, answers |-> answers, effects |-> rows]]

\* The next number of a binding is a new one.
LEMMA NextSeqIsFresh ==
    ASSUME OpsInv, NEW b \in Bindings
    PROVE  NextSeq(b) \in Nat \ {0} /\ <<b, NextSeq(b)>> \notin DOMAIN ops
<1>1. Cardinality(OpsOf(b)) \in Nat
  BY FS_CardinalityType DEF OpsInv
<1>2. \A k \in OpsOf(b) : k[2] <= Cardinality(OpsOf(b))
  BY <1>1 DEF OpsInv
<1>3. <<b, NextSeq(b)>> \notin OpsOf(b)
  BY <1>1, <1>2 DEF NextSeq
<1>4. QED  BY <1>1, <1>3 DEF NextSeq, OpsOf

\* Filing it leaves the others alone, and the numbering dense.
LEMMA FilingKeepsOps ==
    ASSUME OpsInv, NEW b \in Bindings, NEW op, op.seq = NextSeq(b), op.base \in Nat,
           op.epoch \in Nat, op.epoch <= space.epoch, space.epoch \in Nat, space'.epoch = space.epoch,
           NEW answers, NEW rows, Files(b, op, answers, rows)
    PROVE  LET k == <<b, op.seq>>
           IN  /\ OpsInv'
               /\ k \notin DOMAIN ops /\ DOMAIN ops' = DOMAIN ops \cup {k}
               /\ ops'[k] = [op |-> op, answers |-> answers, effects |-> rows]
               /\ \A j \in DOMAIN ops : ops'[j] = ops[j]
<1> DEFINE k == <<b, op.seq>>
<1>1. NextSeq(b) \in Nat \ {0} /\ k \notin DOMAIN ops
  BY NextSeqIsFresh
<1>2. /\ DOMAIN ops' = DOMAIN ops \cup {k}
      /\ ops'[k] = [op |-> op, answers |-> answers, effects |-> rows]
      /\ \A j \in DOMAIN ops : ops'[j] = ops[j]
  BY <1>1 DEF Files
<1>3. k \in Bindings \X Nat /\ k[1] = b /\ k[2] = NextSeq(b)
  BY <1>1
<1>4. DOMAIN ops' \subseteq Bindings \X Nat
  BY <1>2, <1>3 DEF OpsInv
<1>5. ASSUME NEW c \in Bindings
      PROVE  /\ IsFiniteSet(OpsOf(c)')
             /\ \A j \in OpsOf(c)' : j[2] \in 1 .. Cardinality(OpsOf(c)')
  <2>1. CASE c = b
    <3>1. OpsOf(c)' = OpsOf(b) \cup {k} /\ k \notin OpsOf(b)
      BY <1>1, <1>2, <1>3, <2>1 DEF OpsOf
    <3>2. IsFiniteSet(OpsOf(b)) /\ Cardinality(OpsOf(b)) \in Nat
      BY FS_CardinalityType DEF OpsInv
    <3>3. IsFiniteSet(OpsOf(c)') /\ Cardinality(OpsOf(c)') = Cardinality(OpsOf(b)) + 1
      BY <3>1, <3>2, FS_AddElement
    <3>4. \A j \in OpsOf(b) : j[2] \in 1 .. Cardinality(OpsOf(b))
      BY DEF OpsInv
    <3>5. k[2] = Cardinality(OpsOf(b)) + 1
      BY <1>3 DEF NextSeq
    <3> HIDE DEF k
    <3>6. ASSUME NEW j \in OpsOf(c)' PROVE j[2] \in 1 .. Cardinality(OpsOf(b)) + 1
      <4>1. CASE j \in OpsOf(b)
        BY <3>2, <3>4, <4>1
      <4>2. CASE j = k
        BY <3>2, <3>5, <4>2
      <4>3. QED  BY <3>1, <4>1, <4>2
    <3>7. QED  BY <3>3, <3>6
  <2>2. CASE c # b
    <3>1. OpsOf(c)' = OpsOf(c)
      BY <1>2, <1>3, <2>2 DEF OpsOf
    <3>2. QED  BY <3>1 DEF OpsInv
  <2>3. QED  BY <2>1, <2>2
<1> HIDE DEF k
<1>6. ASSUME NEW j \in DOMAIN ops'
      PROVE  /\ ops'[j].op.seq = j[2] /\ ops'[j].op.base \in Nat
             /\ ops'[j].op.epoch \in Nat /\ ops'[j].op.epoch <= space'.epoch
  <2>1. CASE j = k
    BY <1>2, <1>3, <2>1
  <2>2. CASE j \in DOMAIN ops
    BY <1>2, <2>2 DEF OpsInv
  <2>3. QED  BY <1>2, <2>1, <2>2
<1> DEFINE Entry(file, j) == [op |-> file[j].op, answers |-> file[j].answers,
                              effects |-> file[j].effects]
<1>7. ops' = [j \in DOMAIN ops' |-> Entry(ops', j)]
  <2>1. ops' = [j \in DOMAIN ops' |-> ops'[j]]
    BY <1>2 DEF Files, k
  <2>2. \A j \in DOMAIN ops : ops[j] = Entry(ops, j)
    BY DEF OpsInv
  <2>3. \A j \in DOMAIN ops : ops'[j] = Entry(ops', j)
    BY <1>2, <2>2
  <2>4. ops'[k] = Entry(ops', k)
    BY <1>2
  <2> HIDE DEF Entry
  <2>5. QED  BY <1>2, <2>1, <2>3, <2>4
<1>8. OpsInv'
  BY <1>4, <1>5, <1>6, <1>7 DEF OpsInv
<1>9. QED  BY <1>1, <1>2, <1>8 DEF k

\* Advancing the watermark.
LEMMA WatermarkAdvances ==
    ASSUME BindingsInv, NEW b \in Bindings, NEW s \in Nat, bindings' = AdvanceClientSeq(b, s)
    PROVE  /\ BindingsInv'
           /\ \A c \in Bindings : bindings'[c].maxSeq >= bindings[c].maxSeq
           /\ bindings'[b].maxSeq >= s
           /\ s <= bindings[b].maxSeq => bindings' = bindings
<1> DEFINE Entry(table, c) == [state |-> table[c].state, epoch |-> table[c].epoch,
                               maxSeq |-> table[c].maxSeq]
           high == IF bindings[b].maxSeq < s THEN s ELSE bindings[b].maxSeq
           next == [bindings[b] EXCEPT !.maxSeq = high]
<1>1. bindings' = [bindings EXCEPT ![b] = next]
  BY DEF AdvanceClientSeq
<1>2. /\ bindings = [c \in Bindings |-> Entry(bindings, c)] /\ DOMAIN bindings = Bindings
      /\ \A c \in Bindings : bindings[c] = Entry(bindings, c)
      /\ \A c \in Bindings : bindings[c].maxSeq \in Nat
  BY DEF BindingsInv
<1>3. next = [state |-> bindings[b].state, epoch |-> bindings[b].epoch, maxSeq |-> high]
  BY <1>2
<1>4. \A c \in Bindings : bindings'[c] = IF c = b THEN next ELSE bindings[c]
  BY <1>1, <1>2
<1>5. bindings' = [c \in Bindings |-> bindings'[c]]
  BY <1>1, <1>2
<1>6. high \in Nat /\ high >= s /\ high >= bindings[b].maxSeq
  BY <1>2
<1>7. \A c \in Bindings :
          /\ bindings'[c] = Entry(bindings', c)
          /\ bindings'[c].maxSeq = IF c = b THEN high ELSE bindings[c].maxSeq
  BY <1>2, <1>3, <1>4
<1>8. ASSUME s <= bindings[b].maxSeq PROVE bindings' = bindings
  <2>1. high = bindings[b].maxSeq
    BY <1>2, <1>8
  <2>2. next = bindings[b]
    BY <1>2, <1>3, <2>1
  <2> HIDE DEF next, Entry
  <2>3. QED  BY <1>1, <1>2, <2>2
<1> HIDE DEF next, high
<1>9. BindingsInv'
  <2>1. bindings' = [c \in Bindings |-> Entry(bindings', c)]
    <3> HIDE DEF Entry
    <3>1. QED  BY <1>5, <1>7
  <2>2. \A c \in Bindings : bindings'[c].maxSeq \in Nat
    BY <1>2, <1>6, <1>7
  <2>3. QED  BY <2>1, <2>2 DEF BindingsInv
<1> HIDE DEF Entry
<1>10. ASSUME NEW c \in Bindings PROVE bindings'[c].maxSeq >= bindings[c].maxSeq
  <2>1. bindings[c].maxSeq \in Nat
    BY <1>2
  <2>2. bindings'[c].maxSeq = IF c = b THEN high ELSE bindings[c].maxSeq
    BY <1>7
  <2>3. QED  BY <1>6, <2>1, <2>2
<1>11. bindings'[b].maxSeq >= s
  BY <1>6, <1>7
<1>12. QED  BY <1>8, <1>9, <1>10, <1>11

---------------------------------------------------------------------------
(* What each step does *)

\* An operation that was answered is answered from its receipt, or not at all.
LEMMA AnsweredFromReceipt ==
    ASSUME OpsInv, AnswersInv, NEW k \in DOMAIN ops, Served(k[1], ops[k].op.epoch)
    PROVE  LET r      == receipts[k]
               answer == Processed(k[1], ops[k].op)
           IN  /\ k = <<k[1], ops[k].op.seq>> /\ k[1] \in Bindings /\ k[2] \in Nat
               /\ k[2] <= bindings[k[1]].maxSeq
               /\ k \in DOMAIN receipts => answer = Answer(space, r.status, r.reason, r.settle)
               /\ k \notin DOMAIN receipts => answer.status = "error"
<1> DEFINE answer == Processed(k[1], ops[k].op)
           r == receipts[k]
<1>1. /\ k = <<k[1], ops[k].op.seq>> /\ k[1] \in Bindings /\ k[2] \in Nat
      /\ ops[k].op.seq = k[2]
  BY DEF OpsInv
<1>2. ops[k].op.epoch = space.epoch /\ ops[k].op.epoch \in Nat
  BY DEF Served, OpsInv
<1>3. k[2] <= bindings[k[1]].maxSeq
  BY <1>2 DEF AnswersInv
<1>4. CASE k \in DOMAIN receipts
  <2>1. answer = Answer(space, r.status, r.reason, r.settle)
    BY <1>1, <1>4 DEF Processed
  <2>2. QED  BY <1>1, <1>3, <1>4, <2>1
<1>5. CASE k \notin DOMAIN receipts
  <2>1. answer = Refused("CLIENT_SEQ_REGRESSED")
    BY <1>1, <1>3, <1>5 DEF Processed
  <2>2. answer.status = "error"
    BY <2>1 DEF Refused, Answer
  <2>3. QED  BY <1>1, <1>3, <1>5, <2>2
<1>6. QED  BY <1>4, <1>5

\* So a repeated request changes nothing at all.
LEMMA RedeliverChangesNothing ==
    ASSUME Inv, NEW b \in Bindings, Redeliver(b)
    PROVE  UNCHANGED vars
<1>1. OpsInv /\ AnswersInv /\ ReceiptsInv /\ BindingsInv /\ SpaceInv
  BY DEF Inv
<1>2. PICK k \in OpsOf(b) : Commit(b, ops[k].op)
  BY DEF Redeliver
<1>3. k \in DOMAIN ops /\ k[1] = b
  BY DEF OpsOf
<1> DEFINE op == ops[k].op
           r == receipts[k]
           answer == Processed(b, op)
<1>4. answer.status # "error"
  BY <1>2 DEF Commit
<1>5. Served(b, op.epoch)
  <2>1. ~Served(b, op.epoch) => answer.status = "error"
    BY DEF Processed, Refused, Answer
  <2>2. QED  BY <1>4, <2>1
<1>6. /\ k = <<b, op.seq>> /\ k[2] \in Nat /\ k[2] = op.seq
      /\ k[2] <= bindings[b].maxSeq /\ k \in DOMAIN receipts
      /\ answer = Answer(space, r.status, r.reason, r.settle)
  BY <1>1, <1>3, <1>4, <1>5, AnsweredFromReceipt DEF OpsInv
<1>7. answer.sp = space /\ Outcome(answer) = Outcome(r)
  BY <1>6 DEF Answer, Outcome
<1> HIDE DEF answer
<1>8. /\ space' = space /\ receipts' = receipts /\ backup' = backup
      /\ bindings' = AdvanceClientSeq(b, op.seq)
      /\ ops' = Filed(k, op, {Outcome(answer)}, answer.sp.rev - space.rev)
  BY <1>2, <1>6, <1>7 DEF Commit, answer
<1>9. bindings' = bindings
  BY <1>1, <1>6, <1>8, WatermarkAdvances
<1>10. ops' = ops
  <2>1. ops[k].answers = {Outcome(r)} /\ ops[k].effects \in {0, 1}
    BY <1>1, <1>3, <1>6 DEF ReceiptsInv, AnswersInv
  <2>2. ops[k] = [op |-> op, answers |-> ops[k].answers, effects |-> ops[k].effects]
    BY <1>1, <1>3 DEF OpsInv
  <2>3. answer.sp.rev - space.rev = 0
    <3>1. space.rev \in Nat
      BY <1>1 DEF SpaceInv, GoodSpace, TypedSpace, IsSpace
    <3>2. QED  BY <1>7, <3>1
  <2>4. ops' = [j \in DOMAIN ops \cup {k} |->
                   IF j # k THEN ops[j]
                   ELSE [op |-> op, answers |-> ops[k].answers \cup {Outcome(answer)},
                         effects |-> ops[k].effects + (answer.sp.rev - space.rev)]]
    BY <1>3, <1>8 DEF Filed
  <2>5. DOMAIN ops \cup {k} = DOMAIN ops /\ ops = [j \in DOMAIN ops |-> ops[j]]
    <3>1. DOMAIN ops \cup {k} = DOMAIN ops
      BY <1>3
    <3>2. ops = [j \in DOMAIN ops |-> ops[j]]
      <4> DEFINE Entry(j) == [op |-> ops[j].op, answers |-> ops[j].answers,
                            effects |-> ops[j].effects]
      <4>1. ops = [j \in DOMAIN ops |-> Entry(j)]
        BY <1>1 DEF OpsInv
      <4> HIDE DEF Entry
      <4>2. QED  BY <4>1
    <3>3. QED  BY <3>1, <3>2
  <2>6. [op |-> op, answers |-> ops[k].answers \cup {Outcome(answer)},
         effects |-> ops[k].effects + (answer.sp.rev - space.rev)] = ops[k]
    BY <1>7, <2>1, <2>2, <2>3
  <2>7. \A j \in DOMAIN ops : ops'[j] = ops[j]
    BY <2>4, <2>5, <2>6
  <2>8. QED  BY <2>4, <2>5, <2>7
<1>11. minted' = minted
  BY DEF Redeliver
<1>12. QED  BY <1>8, <1>9, <1>10, <1>11 DEF vars, treeVars, syncVars

\* b asks op for the first time and is answered: its command ran, or was declined.
ArrivesWith(b, op, answer) ==
    /\ Asked(space, b, op)
    /\ op.seq = NextSeq(b) /\ DeviceOrigin(b, op.seq) \in Origins
    /\ op.base \in Bases(b) /\ op.epoch = space.epoch
    /\ op.cmd.op = "create" => op.cmd.node \in NodeIds \ minted
    /\ minted' = minted \cup (IF op.cmd.op = "create" THEN {op.cmd.node} ELSE {})
    /\ space' = answer.sp
    /\ Files(b, op, {Outcome(answer)}, space'.rev - space.rev)
    /\ receipts' = [j \in DOMAIN receipts \cup {<<b, op.seq>>} |->
                       IF j = <<b, op.seq>> THEN Receipt(answer) ELSE receipts[j]]
    /\ bindings' = AdvanceClientSeq(b, op.seq)
    /\ backup' = backup

\* A captured create names a new node.
LEMMA CapturedCreateIsNew ==
    ASSUME NEW b, NEW base, NEW cmd \in Captures(b, base), cmd.op = "create"
    PROVE  cmd.node \in NodeIds \ minted
BY DEF Captures

\* The space after an operation is a row longer, or the same.
LEMMA OutcomeSpace ==
    ASSUME SpaceInv, NEW b, NEW op, Asked(space, b, op), DeviceOrigin(b, op.seq) \in Origins,
           NEW answer, Effected(space, b, op, answer) \/ Declined(space, b, op, answer)
    PROVE  /\ space.rev \in Nat
           /\ \/ Effected(space, b, op, answer) /\ answer.sp.rev = space.rev + 1
              \/ Declined(space, b, op, answer) /\ answer.sp.rev = space.rev
<1>1. space.rev \in Nat
  BY DEF SpaceInv, GoodSpace, TypedSpace, IsSpace
<1>2. CASE Effected(space, b, op, answer)
  <2>1. Extends(space, answer.sp, DeviceOrigin(b, op.seq), op.cmd.op, op.cmd.node)
    BY <1>2, EffectedExtends
  <2>2. QED  BY <1>1, <1>2, <2>1 DEF Extends
<1>3. CASE Declined(space, b, op, answer)
  BY <1>1, <1>3 DEF Declined
<1>4. QED  BY <1>2, <1>3

\* Arrive is such a step.
LEMMA ArriveDecides ==
    ASSUME Inv, NEW b \in Bindings, Arrive(b)
    PROVE  \E op : \E answer :
               /\ ArrivesWith(b, op, answer)
               /\ Effected(space, b, op, answer) \/ Declined(space, b, op, answer)
<1>1. SpaceInv /\ OpsInv /\ ReceiptsInv
  BY DEF Inv
<1>2. /\ space.rev \in Nat /\ space.floor \in Nat
      /\ GoodSpace(space) /\ MainSlots \subseteq space.slots
  BY <1>1 DEF SpaceInv, GoodSpace, TypedSpace, IsSpace
<1>3. NextSeq(b) \in Nat \ {0} /\ NextSeq(b) <= MaxSeq /\ <<b, NextSeq(b)>> \notin DOMAIN ops
  BY <1>1, NextSeqIsFresh DEF Arrive, CanAsk
<1> DEFINE Sent(base, cmd) ==
               /\ Commit(b, [seq |-> NextSeq(b), base |-> base, epoch |-> space.epoch, cmd |-> cmd])
               /\ minted' = minted \cup (IF cmd.op = "create" THEN {cmd.node} ELSE {})
<1>captured. PICK base \in Bases(b) : \E cmd \in Captures(b, base) : Sent(base, cmd)
  BY DEF Arrive
<1>4. PICK cmd \in Captures(b, base) : Sent(base, cmd)
  BY <1>captured
<1> DEFINE op == [seq |-> NextSeq(b), base |-> base, epoch |-> space.epoch, cmd |-> cmd]
           answer == Processed(b, op)
           k == <<b, op.seq>>
<1>5. /\ op.seq = NextSeq(b) /\ op.base = base /\ op.epoch = space.epoch /\ op.cmd = cmd
      /\ base \in Nat /\ k \notin DOMAIN ops /\ k \notin DOMAIN receipts
  BY <1>1, <1>2, <1>3 DEF Bases, ReceiptsInv
<1>6. DeviceOrigin(b, op.seq) \in Origins
  BY <1>3, <1>5, SyncConstants
<1> HIDE DEF op
<1>7. Commit(b, op) /\ answer.status # "error"
  BY <1>4 DEF Commit, op
<1>8. op.base >= space.floor /\ answer = Decide(space, b, op)
  <2>1. Served(b, op.epoch) /\ ~(op.seq <= bindings[b].maxSeq) /\ ~(op.base < space.floor)
    BY <1>5, <1>7 DEF Processed, Refused, Answer
  <2>2. QED  BY <1>2, <1>5, <2>1 DEF Processed
<1> HIDE DEF answer
<1>9. Askable(space, cmd, base)
  BY <1>1, <1>5, CapturedIsAskable
<1>10. Asked(space, b, op)
  BY <1>2, <1>5, <1>8, <1>9 DEF Asked
<1>11. Effected(space, b, op, answer) \/ Declined(space, b, op, answer)
  BY <1>7, <1>8, <1>10, DecideOutcome
<1>12. answer.sp.rev - space.rev \in {0, 1}
  BY <1>1, <1>6, <1>10, <1>11, OutcomeSpace
<1>13. /\ space' = answer.sp /\ backup' = backup /\ bindings' = AdvanceClientSeq(b, op.seq)
       /\ receipts' = [j \in DOMAIN receipts \cup {k} |->
                          IF j = k THEN Receipt(answer) ELSE receipts[j]]
       /\ ops' = Filed(k, op, {Outcome(answer)}, answer.sp.rev - space.rev)
  BY <1>5, <1>7 DEF Commit, answer
<1>14. Files(b, op, {Outcome(answer)}, space'.rev - space.rev)
  <2> DEFINE outcomes == {Outcome(answer)}
             rows == answer.sp.rev - space.rev
  <2>1. {} \cup outcomes = outcomes /\ 0 + rows = rows
    BY <1>12
  <2> HIDE DEF outcomes, rows
  <2>2. ops' = [j \in DOMAIN ops \cup {k} |->
                   IF j # k THEN ops[j]
                   ELSE [op |-> op, answers |-> {} \cup outcomes, effects |-> 0 + rows]]
    BY <1>5, <1>13 DEF Filed, outcomes, rows
  <2>3. Files(b, op, outcomes, rows)
    BY <2>1, <2>2 DEF Files
  <2>4. QED  BY <1>13, <2>3 DEF outcomes, rows
<1>15. op.cmd.op = "create" => op.cmd.node \in NodeIds \ minted
  BY <1>5, CapturedCreateIsNew
<1>16. ArrivesWith(b, op, answer)
  BY <1>4, <1>5, <1>6, <1>10, <1>13, <1>14, <1>15 DEF ArrivesWith
<1>17. QED  BY <1>11, <1>16

\* A request that outlived a restore has no effect: it is filed and never answered.
LEMMA LateChangesNothing ==
    ASSUME Inv, NEW b \in Bindings, ArriveLate(b)
    PROVE  /\ UNCHANGED <<space, minted, bindings, receipts, backup>>
           /\ \E op : /\ op.seq = NextSeq(b) /\ op.base \in Nat
                      /\ op.epoch \in Nat /\ op.epoch < space.epoch
                      /\ Files(b, op, {}, 0)
<1>1. SpaceInv /\ OpsInv
  BY DEF Inv
<1>2. space.epoch \in Nat /\ <<b, NextSeq(b)>> \notin DOMAIN ops
  BY <1>1, NextSeqIsFresh DEF SpaceInv, GoodSpace, TypedSpace, IsSpace
<1> DEFINE Late(epoch, n) == [seq |-> NextSeq(b), base |-> 0, epoch |-> epoch,
                              cmd |-> [op |-> "delete", node |-> n]]
<1>3. PICK epoch \in 1 .. space.epoch - 1, n \in minted :
          IF Processed(b, Late(epoch, n)).status = "error"
          THEN /\ ops' = Filed(<<b, Late(epoch, n).seq>>, Late(epoch, n), {}, 0)
               /\ UNCHANGED <<space, bindings, receipts, backup>>
          ELSE Commit(b, Late(epoch, n))
  BY DEF ArriveLate
<1> DEFINE op == Late(epoch, n)
<1>4. /\ op.seq = NextSeq(b) /\ op.base = 0 /\ op.epoch = epoch
      /\ epoch \in Nat /\ epoch < space.epoch
  BY <1>2
<1> HIDE DEF op
<1>5. Processed(b, op).status = "error"
  <2>1. ~Served(b, op.epoch)
    BY <1>2, <1>4 DEF Served
  <2>2. QED  BY <2>1 DEF Processed, Refused, Answer
<1>6. /\ ops' = Filed(<<b, op.seq>>, op, {}, 0)
      /\ UNCHANGED <<space, bindings, receipts, backup>>
  BY <1>3, <1>5 DEF op
<1>7. Files(b, op, {}, 0)
  <2> DEFINE none == {}
             zero == 0
  <2>1. none \cup none = none /\ zero + zero = zero
    OBVIOUS
  <2> HIDE DEF none, zero
  <2>2. ops' = [j \in DOMAIN ops \cup {<<b, op.seq>>} |->
                   IF j # <<b, op.seq>> THEN ops[j]
                   ELSE [op |-> op, answers |-> none \cup none, effects |-> zero + zero]]
    BY <1>2, <1>4, <1>6 DEF Filed, none, zero
  <2>3. QED  BY <2>1, <2>2 DEF Files, none, zero
<1>8. QED  BY <1>4, <1>6, <1>7 DEF ArriveLate

---------------------------------------------------------------------------
(* Rows and answers outlive what comes after them *)

\* No operation is filed anew or forgotten.
OpsGrow == DOMAIN ops \subseteq DOMAIN ops' /\ \A k \in DOMAIN ops : ops'[k] = ops[k]

\* Whoever wrote one of those fields of n after base is the device of k, before k.
OwnSince(k, base, n, fields) ==
    \A q \in DOMAIN space.journal :
        LET other == space.journal[q]
        IN  /\ base < q /\ other.node = n
            /\ \E f \in fields : f \in DOMAIN other.payload
            => other.origin.binding = k[1] /\ other.origin.seq < k[2]

\* One more row is known like the others.
LEMMA GrowthKeepsRows ==
    ASSUME GoodSpace(space), RowsKnown, NEW origin, NEW op, NEW n,
           Extends(space, space', origin, op, n), OpsGrow, minted \subseteq minted', n \in minted',
           op = "create" => n \notin minted,
           origin # WebOrigin => /\ <<origin.binding, origin.seq>> \in DOMAIN ops'
                                 /\ ops'[<<origin.binding, origin.seq>>].op.epoch = space.epoch
    PROVE  RowsKnown'
<1> DEFINE last == space.rev + 1
<1>1. /\ DOMAIN space'.journal = DOMAIN space.journal \cup {last}
      /\ \A q \in DOMAIN space.journal : space'.journal[q] = space.journal[q]
      /\ space'.epoch = space.epoch
  BY DEF Extends
<1>2. LET row == space'.journal[last]
      IN  /\ row.origin = origin /\ row.type = op /\ row.node = n
          /\ DOMAIN row.payload \cap Edited = FieldsOf(op)
  BY DEF Extends
<1>3. \A q \in DOMAIN space.journal : q \in Nat /\ q < last
  BY DEF GoodSpace, TypedSpace, IsSpace, GoodRows, LiveRows, JournalSpans
<1> HIDE DEF last
<1>4. ASSUME NEW r \in DOMAIN space'.journal
      PROVE  LET row == space'.journal[r]
             IN  /\ row.node \in minted'
                 /\ DOMAIN row.payload \cap Edited = FieldsOf(row.type)
                 /\ row.type = "create" =>
                        \A q \in DOMAIN space'.journal : q < r => space'.journal[q].node # row.node
                 /\ row.origin # WebOrigin =>
                        /\ OriginOf(row) \in DOMAIN ops'
                        /\ ops'[OriginOf(row)].op.epoch = space'.epoch
  <2>1. CASE r = last
    <3>1. \A q \in DOMAIN space.journal : space.journal[q].node \in minted
      BY DEF RowsKnown
    <3>2. ~(last < last)
      BY DEF last, GoodSpace, TypedSpace, IsSpace
    <3>3. op = "create" =>
              \A q \in DOMAIN space'.journal : q < r => space'.journal[q].node # n
      BY <1>1, <2>1, <3>1, <3>2
    <3>4. QED  BY <1>1, <1>2, <2>1, <3>3 DEF OriginOf
  <2>2. CASE r \in DOMAIN space.journal
    <3> DEFINE row == space.journal[r]
    <3>1. space'.journal[r] = row
      BY <1>1, <2>2
    <3>2. /\ row.node \in minted
          /\ DOMAIN row.payload \cap Edited = FieldsOf(row.type)
          /\ row.type = "create" =>
                 \A q \in DOMAIN space.journal : q < r => space.journal[q].node # row.node
          /\ row.origin # WebOrigin =>
                 /\ OriginOf(row) \in DOMAIN ops
                 /\ ops[OriginOf(row)].op.epoch = space.epoch
      BY <2>2 DEF RowsKnown
    <3>3. ~(last < r) /\ r \in Nat
      BY <1>3, <2>2 DEF last, GoodSpace, TypedSpace, IsSpace
    <3> HIDE DEF row
    <3>4. row.type = "create" =>
              \A q \in DOMAIN space'.journal : q < r => space'.journal[q].node # row.node
      BY <1>1, <3>2, <3>3
    <3>5. QED  BY <1>1, <3>1, <3>2, <3>4 DEF OpsGrow
  <2>3. QED  BY <1>1, <2>1, <2>2
<1>5. QED  BY <1>4 DEF RowsKnown

\* The rows old answers name are still there.
LEMMA GrowthKeepsCauses ==
    ASSUME CausesKept, OpsGrow, space'.epoch = space.epoch, space'.floor = space.floor,
           DOMAIN space.journal \subseteq DOMAIN space'.journal,
           \A q \in DOMAIN space.journal : space'.journal[q] = space.journal[q],
           NEW k \in DOMAIN ops
    PROVE  CauseKept(k)'
<1>1. ops'[k] = ops[k] /\ CauseKept(k)
  BY DEF OpsGrow, CausesKept
<1>2. SUFFICES ASSUME ops[k].op.epoch = space.epoch, ops[k].op.base >= space.floor,
                      NEW a \in ops[k].answers
               PROVE  NamesCause(k, a)'
  BY <1>1 DEF CauseKept
<1>3. NamesCause(k, a)
  BY <1>1, <1>2 DEF CauseKept
<1>4. QED  BY <1>1, <1>3 DEF NamesCause

\* A row whose device had seen what it replaces leaves nothing unseen.
LEMMA GrowthLeavesNothingUnseen ==
    ASSUME GoodSpace(space), RowsKnown, NothingUnseen, NEW origin, NEW op, NEW n,
           Extends(space, space', origin, op, n), OpsGrow,
           origin # WebOrigin =>
               LET k == <<origin.binding, origin.seq>>
               IN  OwnSince(k, ops'[k].op.base, n, FieldsOf(op))
    PROVE  NothingUnseen'
<1> DEFINE last == space.rev + 1
<1>1. /\ DOMAIN space'.journal = DOMAIN space.journal \cup {last}
      /\ \A q \in DOMAIN space.journal : space'.journal[q] = space.journal[q]
  BY DEF Extends
<1>2. LET row == space'.journal[last]
      IN  /\ row.origin = origin /\ row.type = op /\ row.node = n
          /\ DOMAIN row.payload \cap Edited = FieldsOf(op)
  BY DEF Extends
<1>3. \A q \in DOMAIN space.journal : q \in Nat /\ q < last /\ last \in Nat
  BY DEF GoodSpace, TypedSpace, IsSpace, GoodRows, LiveRows, JournalSpans
<1>4. ~(last < last)
  BY DEF last, GoodSpace, TypedSpace, IsSpace
<1> HIDE DEF last
<1>5. ASSUME NEW r \in DOMAIN space'.journal, NEW q \in DOMAIN space'.journal,
             space'.journal[r].origin # WebOrigin,
             ops'[OriginOf(space'.journal[r])].op.base < q, q < r,
             space'.journal[q].node = space'.journal[r].node,
             SharesField(space'.journal[r], space'.journal[q])
      PROVE  /\ space'.journal[q].origin.binding = OriginOf(space'.journal[r])[1]
             /\ space'.journal[q].origin.seq < OriginOf(space'.journal[r])[2]
  <2>1. q \in DOMAIN space.journal /\ space'.journal[q] = space.journal[q]
    BY <1>1, <1>3, <1>4, <1>5
  <2>2. CASE r = last
    <3> DEFINE k == <<origin.binding, origin.seq>>
    <3>1. OriginOf(space'.journal[r]) = k /\ origin # WebOrigin
      BY <1>2, <1>5, <2>2 DEF OriginOf
    <3>2. OwnSince(k, ops'[k].op.base, n, FieldsOf(op))
      BY <3>1
    <3>3. \E f \in FieldsOf(op) : f \in DOMAIN space.journal[q].payload
      BY <1>2, <1>5, <2>1, <2>2 DEF SharesField
    <3>4. ops'[k].op.base < q /\ space.journal[q].node = n
      BY <1>2, <1>5, <2>1, <2>2, <3>1
    <3> HIDE DEF k
    <3>5. QED  BY <2>1, <3>1, <3>2, <3>3, <3>4 DEF OwnSince
  <2>3. CASE r \in DOMAIN space.journal
    <3>1. space'.journal[r] = space.journal[r]
      BY <1>1, <2>3
    <3>2. OriginOf(space.journal[r]) \in DOMAIN ops
      BY <1>5, <2>3, <3>1 DEF RowsKnown
    <3>3. ops'[OriginOf(space.journal[r])] = ops[OriginOf(space.journal[r])]
      BY <3>2 DEF OpsGrow
    <3>4. QED  BY <1>5, <2>1, <2>3, <3>1, <3>3 DEF NothingUnseen
  <2>4. QED  BY <1>1, <2>2, <2>3
<1>6. QED  BY <1>5 DEF NothingUnseen

\* Filing operations does not disturb the journal.
LEMMA SameSpaceKeepsRows ==
    ASSUME RowsKnown, NothingUnseen, space' = space, minted \subseteq minted', OpsGrow
    PROVE  RowsKnown' /\ NothingUnseen'
<1>1. RowsKnown'
  BY DEF RowsKnown, OpsGrow
<1>2. ASSUME NEW r \in DOMAIN space.journal, space.journal[r].origin # WebOrigin
      PROVE  ops'[OriginOf(space.journal[r])] = ops[OriginOf(space.journal[r])]
  BY <1>2 DEF RowsKnown, OpsGrow
<1>3. NothingUnseen'
  BY <1>2 DEF NothingUnseen
<1>4. QED  BY <1>1, <1>3

---------------------------------------------------------------------------
(* An operation that is answered *)

\* A device's row in the journal comes from an operation it made before.
LEMMA OwnRowIsEarlier ==
    ASSUME OpsInv, RowsKnown, NEW b \in Bindings, NEW q \in DOMAIN space.journal,
           space.journal[q].origin.binding = b
    PROVE  /\ space.journal[q].origin # WebOrigin
           /\ OriginOf(space.journal[q]) \in OpsOf(b)
           /\ space.journal[q].origin.seq \in Nat
           /\ space.journal[q].origin.seq < NextSeq(b)
           /\ ops[OriginOf(space.journal[q])].op.epoch = space.epoch
<1> DEFINE k == OriginOf(space.journal[q])
<1>1. space.journal[q].origin # WebOrigin
  BY SyncConstants DEF WebOrigin
<1>2. k \in DOMAIN ops /\ ops[k].op.epoch = space.epoch
  BY <1>1 DEF RowsKnown
<1>3. k[1] = b /\ k[2] = space.journal[q].origin.seq
  BY DEF OriginOf
<1> HIDE DEF k
<1>4. k \in OpsOf(b)
  BY <1>2, <1>3 DEF OpsOf
<1>5. Cardinality(OpsOf(b)) \in Nat
  BY FS_CardinalityType DEF OpsInv
<1>6. k[2] \in 1 .. Cardinality(OpsOf(b))
  BY <1>4 DEF OpsInv
<1>7. k[2] \in Nat /\ k[2] < NextSeq(b)
  BY <1>5, <1>6 DEF NextSeq
<1>8. QED  BY <1>1, <1>2, <1>3, <1>4, <1>7 DEF k

\* A device that saw the last write of a field saw them all: the last one is older than
\* its base, or its own, and what that one replaced was seen when it was made.
LEMMA SeenFieldIsOwn ==
    ASSUME SpaceInv, OpsInv, RowsKnown, NothingUnseen, NEW b \in Bindings, NEW op,
           op.base \in Bases(b), op.base >= space.floor, op.seq = NextSeq(b),
           NEW n \in DOMAIN space.nodes, NEW f \in Edited, NEW rf,
           FieldJournaled(space, f, rf), FieldLatest(space, f, rf), space.nodes[n][rf] \in Nat,
           ~Concurrent(space, b, space.nodes[n][rf], op)
    PROVE  OwnSince(<<b, op.seq>>, op.base, n, {f})
<1> DEFINE last == space.nodes[n][rf]
           journal == space.journal
<1>1. SUFFICES ASSUME NEW q \in DOMAIN journal, op.base < q, journal[q].node = n,
                      f \in DOMAIN journal[q].payload
               PROVE  journal[q].origin.binding = b /\ journal[q].origin.seq < op.seq
  BY DEF OwnSince
<1>2. /\ DOMAIN journal \subseteq Nat /\ op.base \in Nat /\ space.floor \in Nat /\ q \in Nat
  BY DEF SpaceInv, GoodSpace, TypedSpace, IsSpace, Bases
<1>3. q <= last
  BY <1>1 DEF FieldLatest
<1>4. last > op.base /\ last > space.floor
  <2> HIDE DEF last
  <2>1. QED  BY <1>1, <1>2, <1>3 DEF last
<1>5. /\ last \in DOMAIN journal /\ journal[last].origin.binding = b
      /\ journal[last].origin.seq < op.seq
  BY <1>4 DEF Concurrent, SameBindingCausal
<1>6. CASE q = last
  BY <1>5, <1>6
<1>7. CASE q < last
  <2> DEFINE k == OriginOf(journal[last])
  <2>1. journal[last].node = n /\ f \in DOMAIN journal[last].payload
    BY <1>4 DEF FieldJournaled
  <2>2. /\ journal[last].origin # WebOrigin /\ k \in OpsOf(b)
        /\ ops[k].op.epoch = space.epoch /\ journal[last].origin.seq \in Nat
    BY <1>5, OwnRowIsEarlier
  <2>3. ops[k].op.base <= op.base /\ ops[k].op.base \in Nat
    BY <2>2 DEF Bases, OpsInv, OpsOf
  <2>4. ops[k].op.base < q
    BY <1>1, <1>2, <2>3
  <2>5. SharesField(journal[last], journal[q])
    BY <1>1, <2>1 DEF SharesField
  <2>6. journal[q].origin.binding = k[1] /\ journal[q].origin.seq < k[2]
    BY <1>1, <1>5, <1>7, <2>1, <2>2, <2>4, <2>5 DEF NothingUnseen
  <2>7. k[1] = b /\ k[2] = journal[last].origin.seq
    BY <1>5 DEF OriginOf
  <2>8. journal[q].origin.seq \in Nat
    BY <2>6, <2>7, OwnRowIsEarlier
  <2>9. op.seq \in Nat
    BY NextSeqIsFresh
  <2> HIDE DEF k
  <2>10. QED  BY <1>5, <2>2, <2>6, <2>7, <2>8, <2>9
<1>8. QED
  <2> HIDE DEF last
  <2>1. last \in Nat
    BY DEF last
  <2>2. QED  BY <1>2, <1>3, <1>6, <1>7, <2>1

\* What an operation that runs replaces is its device's own since its base.
LEMMA EffectedSawAll ==
    ASSUME Inv, NEW b \in Bindings, NEW op, Asked(space, b, op), op.base \in Bases(b),
           op.seq = NextSeq(b), op.cmd.op = "create" => op.cmd.node \notin minted,
           NEW answer, Effected(space, b, op, answer)
    PROVE  OwnSince(<<b, op.seq>>, op.base, op.cmd.node, FieldsOf(op.cmd.op))
<1> DEFINE n == op.cmd.node
<1>1. /\ SpaceInv /\ OpsInv /\ RowsKnown /\ NothingUnseen /\ FieldsAgree(space)
      /\ op.base >= space.floor
  BY DEF Inv, JournalInv, SpaceInv, GoodSpace, GoodRows, LiveRows, Asked
<1>2. op.cmd.op \in {"create", "update_title", "update_url", "move", "delete"}
  BY DEF Asked, Askable, IsCommand
<1>3. CASE op.cmd.op = "create"
  BY <1>1, <1>3 DEF OwnSince, RowsKnown
<1>4. CASE op.cmd.op = "delete"
  BY <1>4 DEF OwnSince, FieldsOf
<1>5. n \in DOMAIN space.nodes =>
          /\ space.nodes[n]["titleRev"] \in Nat /\ space.nodes[n]["urlRev"] \in Nat
          /\ space.nodes[n]["structRev"] \in Nat
  BY <1>1 DEF SpaceInv, GoodSpace, TypedSpace, IsSpace, Nodes
<1>6. CASE op.cmd.op = "update_title"
  <2>1. n \in DOMAIN space.nodes /\ ~Concurrent(space, b, space.nodes[n]["titleRev"], op)
    BY <1>6 DEF Effected, SawLastWrite
  <2>2. FieldsOf(op.cmd.op) = {"title"} /\ "title" \in Edited
    BY <1>6 DEF FieldsOf, Edited
  <2>3. QED  BY <1>1, <1>5, <2>1, <2>2, SeenFieldIsOwn DEF FieldsAgree
<1>7. CASE op.cmd.op = "update_url"
  <2>1. n \in DOMAIN space.nodes /\ ~Concurrent(space, b, space.nodes[n]["urlRev"], op)
    BY <1>7 DEF Effected, SawLastWrite
  <2>2. FieldsOf(op.cmd.op) = {"url"} /\ "url" \in Edited
    BY <1>7 DEF FieldsOf, Edited
  <2>3. QED  BY <1>1, <1>5, <2>1, <2>2, SeenFieldIsOwn DEF FieldsAgree
<1>8. CASE op.cmd.op = "move"
  <2>1. n \in DOMAIN space.nodes /\ ~Concurrent(space, b, space.nodes[n]["structRev"], op)
    BY <1>8 DEF Effected, SawLastWrite
  <2>2. FieldsOf(op.cmd.op) = {"parent"} /\ "parent" \in Edited
    BY <1>8 DEF FieldsOf, Edited
  <2>3. QED  BY <1>1, <1>5, <2>1, <2>2, SeenFieldIsOwn DEF FieldsAgree
<1>9. QED  BY <1>2, <1>3, <1>4, <1>6, <1>7, <1>8

\* The answer says what an honest device may hear.
LEMMA OutcomeHonest ==
    ASSUME NEW sp, NEW b, NEW op, NEW answer,
           Effected(sp, b, op, answer) \/ Declined(sp, b, op, answer)
    PROVE  Honest(op, Outcome(answer))
<1>1. Outcome(answer).status = answer.status /\ Outcome(answer).reason = answer.reason
  BY DEF Outcome
<1>2. CASE Effected(sp, b, op, answer)
  BY <1>1, <1>2 DEF Effected, Honest
<1>3. CASE Declined(sp, b, op, answer)
  BY <1>1, <1>3 DEF Declined, Honest
<1>4. QED  BY <1>2, <1>3

\* Filing the operation that arrived, as the other lemmas want it.
LEMMA ArrivalFiled ==
    ASSUME Inv, NEW b \in Bindings, NEW op, NEW answer, ArrivesWith(b, op, answer),
           Effected(space, b, op, answer) \/ Declined(space, b, op, answer)
    PROVE  LET k == <<b, op.seq>>
           IN  /\ OpsInv' /\ OpsGrow
               /\ k \notin DOMAIN ops /\ DOMAIN ops' = DOMAIN ops \cup {k}
               /\ ops'[k] = [op |-> op, answers |-> {Outcome(answer)},
                             effects |-> space'.rev - space.rev]
               /\ space.rev \in Nat /\ space.epoch \in Nat /\ space'.epoch = space.epoch
               /\ op.base \in Nat /\ op.seq \in Nat
<1>1. SpaceInv /\ OpsInv
  BY DEF Inv
<1>2. space.rev \in Nat /\ space.epoch \in Nat /\ op.base \in Nat /\ op.epoch = space.epoch
  BY <1>1 DEF SpaceInv, GoodSpace, TypedSpace, IsSpace, ArrivesWith, Asked
<1>3. space'.epoch = space.epoch
  <2>1. CASE Effected(space, b, op, answer)
    BY <2>1, EffectedExtends DEF ArrivesWith, Extends
  <2>2. CASE Declined(space, b, op, answer)
    BY <2>2 DEF ArrivesWith, Declined
  <2>3. QED  BY <2>1, <2>2
<1>4. /\ op.seq = NextSeq(b) /\ op.seq \in Nat
      /\ Files(b, op, {Outcome(answer)}, space'.rev - space.rev)
  BY <1>1, NextSeqIsFresh DEF ArrivesWith
<1> DEFINE rows == space'.rev - space.rev
           outcomes == {Outcome(answer)}
<1>5. op.epoch \in Nat /\ op.epoch <= space.epoch
  BY <1>2
<1> HIDE DEF rows, outcomes
<1>6. Files(b, op, outcomes, rows)
  BY <1>4 DEF rows, outcomes
<1>7. /\ OpsInv' /\ <<b, op.seq>> \notin DOMAIN ops /\ DOMAIN ops' = DOMAIN ops \cup {<<b, op.seq>>}
      /\ ops'[<<b, op.seq>>] = [op |-> op, answers |-> outcomes, effects |-> rows]
      /\ \A j \in DOMAIN ops : ops'[j] = ops[j]
  BY <1>1, <1>2, <1>3, <1>4, <1>5, <1>6, FilingKeepsOps
<1>8. QED  BY <1>2, <1>3, <1>4, <1>7 DEF OpsGrow, rows, outcomes

\* The row an answer names is there when it is given: the operation's own, the write it
\* had not seen, which is not its device's, or the delete of its target, younger than
\* its base.
LEMMA AnswerHasCause ==
    ASSUME Inv, NEW b \in Bindings, NEW op, NEW answer, ArrivesWith(b, op, answer),
           Effected(space, b, op, answer) \/ Declined(space, b, op, answer)
    PROVE  CauseKept(<<b, op.seq>>)'
<1> DEFINE k == <<b, op.seq>>
           a == Outcome(answer)
           Cause == space'.journal[a.settle]
<1>1. /\ SpaceInv /\ OpsInv /\ RowsKnown /\ GoodSpace(space) /\ TombsAgree(space)
      /\ DOMAIN space.journal = space.floor + 1 .. space.rev
      /\ space.rev \in Nat /\ space.floor \in Nat
  BY DEF Inv, JournalInv, SpaceInv, GoodSpace, GoodRows, LiveRows, JournalSpans, TypedSpace, IsSpace
<1>2. /\ Asked(space, b, op) /\ space' = answer.sp /\ DeviceOrigin(b, op.seq) \in Origins
      /\ op.seq = NextSeq(b) /\ op.base \in Nat /\ op.base >= space.floor
  BY DEF ArrivesWith, Asked
<1>3. /\ ops'[k].op = op /\ ops'[k].answers = {a} /\ ops'[k].effects = space'.rev - space.rev
      /\ k[1] = b /\ k[2] = op.seq
  <2>1. ops'[k] = [op |-> op, answers |-> {a}, effects |-> space'.rev - space.rev]
    BY ArrivalFiled
  <2> HIDE DEF a
  <2>2. QED  BY <2>1
<1>4. a.status = answer.status /\ a.reason = answer.reason /\ a.settle = answer.settle
  BY DEF Outcome
<1> HIDE DEF k, a
<1>5. SUFFICES NamesCause(k, a)'
  BY <1>3 DEF CauseKept, k
<1>6. CASE Effected(space, b, op, answer)
  <2>1. /\ Extends(space, space', DeviceOrigin(b, op.seq), op.cmd.op, op.cmd.node)
        /\ a.settle = space.rev + 1
    BY <1>2, <1>4, <1>6, EffectedExtends
  <2>2. /\ a.settle \in DOMAIN space'.journal /\ Cause.origin = DeviceOrigin(b, op.seq)
        /\ Cause.node = op.cmd.node /\ Cause.type = op.cmd.op
    BY <2>1 DEF Extends
  <2>later. a.settle > op.base
    BY <1>1, <1>2, <2>1 DEF ArrivesWith, Bases
  <2>3. a.reason \notin {"concurrent_update", "concurrent_move", "target_deleted",
                         "already_deleted"}
    BY <1>4, <1>6 DEF Effected
  <2>4. a.settle # 0
    BY <1>1, <2>1
  <2>5. QED  BY <1>3, <2>2, <2>later, <2>3, <2>4 DEF NamesCause
<1>7. CASE Declined(space, b, op, answer)
  <2>1. /\ space' = space /\ ops'[k].effects = 0
        /\ a.status \in Effective =>
               a.settle = 0 /\ a.status = "REBASED" /\ op.cmd.op = "move"
    BY <1>1, <1>2, <1>3, <1>4, <1>7 DEF Declined
  <2>2. ASSUME a.reason \in {"concurrent_update", "concurrent_move"}
        PROVE  /\ a.settle > op.base /\ a.settle \in DOMAIN space.journal
               /\ space.journal[a.settle].node = op.cmd.node
               /\ space.journal[a.settle].origin.binding # b
    <3>1. /\ a.settle > op.base /\ a.settle \in DOMAIN space.journal
          /\ space.journal[a.settle].node = op.cmd.node
          /\ Concurrent(space, b, a.settle, op)
      BY <1>4, <1>7, <2>2 DEF Declined
    <3>2. ~(/\ space.journal[a.settle].origin.binding = b
            /\ space.journal[a.settle].origin.seq < op.seq)
      BY <3>1 DEF Concurrent, SameBindingCausal
    <3>3. QED  BY <1>1, <1>2, <3>1, <3>2, OwnRowIsEarlier
  <2>3. ASSUME a.reason \in {"target_deleted", "already_deleted"}
        PROVE  /\ a.settle > op.base /\ a.settle \in DOMAIN space.journal
               /\ space.journal[a.settle].type = "delete"
    <3>1. /\ op.cmd.op # "create" /\ op.cmd.node \notin DOMAIN space.nodes
          /\ op.cmd.node \in DOMAIN space.tomb /\ a.settle = space.tomb[op.cmd.node]
      BY <1>4, <1>7, <2>3 DEF Declined
    <3>2. a.settle > op.base
      BY <1>2, <3>1 DEF Asked, Askable, Recognised
    <3>3. a.settle \in Nat /\ a.settle <= space.rev
      BY <1>1, <3>1 DEF GoodSpace, TypedSpace, IsSpace, TombsAgree
    <3>4. a.settle > space.floor
      BY <1>1, <1>2, <3>2, <3>3
    <3>5. space.journal[a.settle].type = "delete"
      BY <1>1, <3>1, <3>4 DEF TombsAgree
    <3>6. QED  BY <1>1, <3>2, <3>3, <3>4, <3>5
  <2>4. QED  BY <1>3, <2>1, <2>2, <2>3 DEF NamesCause
<1>8. QED  BY <1>6, <1>7

\* An operation that arrives keeps the invariant.
LEMMA ArriveKeepsInv ==
    ASSUME Inv, NEW b \in Bindings, Arrive(b)
    PROVE  Inv'
<1>1. PICK op : \E answer :
               /\ ArrivesWith(b, op, answer)
               /\ Effected(space, b, op, answer) \/ Declined(space, b, op, answer)
  BY ArriveDecides
<1>2. PICK answer : /\ ArrivesWith(b, op, answer)
                    /\ Effected(space, b, op, answer) \/ Declined(space, b, op, answer)
  BY <1>1
<1> DEFINE k == <<b, op.seq>>
           origin == DeviceOrigin(b, op.seq)
           n == op.cmd.node
<1>3. /\ SpaceInv /\ BindingsInv /\ OpsInv /\ AnswersInv /\ ReceiptsInv /\ BackupInv
      /\ RowsKnown /\ CausesKept /\ NothingUnseen /\ GoodSpace(space)
  BY DEF Inv, JournalInv, SpaceInv
<1>4. /\ OpsInv' /\ OpsGrow
      /\ k \notin DOMAIN ops /\ DOMAIN ops' = DOMAIN ops \cup {k}
      /\ ops'[k] = [op |-> op, answers |-> {Outcome(answer)}, effects |-> space'.rev - space.rev]
      /\ space.rev \in Nat /\ space.epoch \in Nat /\ space'.epoch = space.epoch
      /\ op.base \in Nat /\ op.seq \in Nat
  BY <1>2, ArrivalFiled
<1>5. /\ Asked(space, b, op) /\ space' = answer.sp /\ origin \in Origins
      /\ op.seq = NextSeq(b) /\ op.base \in Bases(b) /\ op.epoch = space.epoch
      /\ op.cmd.op = "create" => n \in NodeIds \ minted
      /\ minted' = minted \cup (IF op.cmd.op = "create" THEN {n} ELSE {})
      /\ bindings' = AdvanceClientSeq(b, op.seq) /\ backup' = backup
      /\ receipts' = [j \in DOMAIN receipts \cup {k} |->
                         IF j = k THEN Receipt(answer) ELSE receipts[j]]
  BY <1>2 DEF ArrivesWith
<1>6. minted \subseteq minted' /\ minted' \subseteq NodeIds
  BY <1>3, <1>5 DEF SpaceInv
<1>7. SpaceInv' /\ RowsKnown' /\ NothingUnseen' /\ space'.floor = space.floor
      /\ DOMAIN space.journal \subseteq DOMAIN space'.journal
      /\ \A q \in DOMAIN space.journal : space'.journal[q] = space.journal[q]
  <2>1. CASE Effected(space, b, op, answer)
    <3>1. /\ GoodSpace(space') /\ space.slots \subseteq space'.slots
          /\ Extends(space, space', origin, op.cmd.op, n)
      BY <1>5, <2>1, EffectedExtends
    <3>2. DOMAIN space'.nodes \cup DOMAIN space'.tomb
              = DOMAIN space.nodes \cup DOMAIN space.tomb
                    \cup (IF op.cmd.op = "create" THEN {n} ELSE {})
      BY <3>1 DEF Extends
    <3>3. SpaceInv'
      BY <1>3, <1>5, <1>6, <3>1, <3>2 DEF SpaceInv
    <3>4. n \in minted'
      BY <1>3, <3>1, <3>2, <3>3 DEF SpaceInv, Extends
    <3>5. OwnSince(k, op.base, n, FieldsOf(op.cmd.op))
      BY <1>5, <2>1, EffectedSawAll
    <3>6. <<origin.binding, origin.seq>> = k
      BY DEF DeviceOrigin
    <3>7. ops'[k].op = op
      BY <1>4
    <3> HIDE DEF k, origin, n
    <3>8. RowsKnown'
      BY <1>3, <1>4, <1>5, <1>6, <3>1, <3>4, <3>6, <3>7, GrowthKeepsRows
    <3>9. NothingUnseen'
      BY <1>3, <1>4, <3>1, <3>5, <3>6, <3>7, GrowthLeavesNothingUnseen
    <3>10. QED  BY <3>1, <3>3, <3>8, <3>9 DEF Extends
  <2>2. CASE Declined(space, b, op, answer)
    <3>1. space' = space /\ minted' = minted
      BY <1>5, <2>2 DEF Declined
    <3>2. SpaceInv'
      BY <1>3, <3>1 DEF SpaceInv
    <3>3. QED  BY <1>3, <1>4, <3>1, <3>2, SameSpaceKeepsRows
  <2>3. QED  BY <1>2, <2>1, <2>2
<1>8. /\ BindingsInv' /\ bindings'[b].maxSeq >= op.seq
      /\ \A c \in Bindings : bindings'[c].maxSeq >= bindings[c].maxSeq
  BY <1>3, <1>4, <1>5, WatermarkAdvances
<1>9. AnswersInv'
  <2>1. ASSUME NEW j \in DOMAIN ops
        PROVE  /\ ops[j].effects \in {0, 1}
               /\ \/ ops[j].answers = {} /\ ops[j].op.epoch < space.epoch
                  \/ \E a : /\ ops[j].answers = {a} /\ Honest(ops[j].op, a)
                            /\ j[2] <= bindings'[j[1]].maxSeq
    <3>1. /\ j[1] \in Bindings /\ j[2] \in Nat /\ bindings[j[1]].maxSeq \in Nat
          /\ bindings'[j[1]].maxSeq \in Nat
      BY <1>3, <1>8 DEF OpsInv, BindingsInv
    <3>2. j[2] <= bindings[j[1]].maxSeq => j[2] <= bindings'[j[1]].maxSeq
      BY <1>8, <3>1
    <3>3. QED  BY <1>3, <3>2 DEF AnswersInv
  <2>2. ops'[k].effects \in {0, 1}
    BY <1>2, <1>3, <1>4, <1>5, OutcomeSpace
  <2>3. Honest(op, Outcome(answer))
    BY <1>2, OutcomeHonest
  <2>4. k[1] = b /\ k[2] = op.seq /\ op.seq <= bindings'[b].maxSeq
    <3>1. bindings'[b].maxSeq \in Nat
      BY <1>8 DEF BindingsInv
    <3>2. QED  BY <1>4, <1>8, <3>1
  <2>5. ops'[k].op = op /\ ops'[k].answers = {Outcome(answer)}
    BY <1>4
  <2> HIDE DEF k
  <2>6. QED  BY <1>4, <2>1, <2>2, <2>3, <2>4, <2>5 DEF AnswersInv, OpsGrow
<1>10. ReceiptsInv'
  <2>1. DOMAIN receipts' = DOMAIN receipts \cup {k}
    BY <1>5
  <2>2. receipts'[k] = Receipt(answer) /\ Outcome(Receipt(answer)) = Outcome(answer)
    BY <1>5 DEF Outcome, Receipt
  <2>3. \A j \in DOMAIN receipts : j # k /\ receipts'[j] = receipts[j]
    BY <1>3, <1>4, <1>5 DEF ReceiptsInv
  <2>4. ops'[k].answers = {Outcome(answer)}
    BY <1>4
  <2> HIDE DEF k
  <2>5. QED  BY <1>3, <1>4, <2>1, <2>2, <2>3, <2>4 DEF ReceiptsInv, OpsGrow
<1>11. CausesKept'
  <2>1. CauseKept(k)'
    BY <1>2, AnswerHasCause
  <2>2. \A j \in DOMAIN ops : CauseKept(j)'
    BY <1>3, <1>4, <1>7, GrowthKeepsCauses
  <2> HIDE DEF k
  <2>3. QED  BY <1>4, <2>1, <2>2 DEF CausesKept
<1>12. BackupInv'
  BY <1>3, <1>5, <1>6 DEF BackupInv
<1>13. QED  BY <1>4, <1>7, <1>8, <1>9, <1>10, <1>11, <1>12 DEF Inv, JournalInv

---------------------------------------------------------------------------
(* The other steps *)

\* So does a request that outlived a restore.
LEMMA LateKeepsInv ==
    ASSUME Inv, NEW b \in Bindings, ArriveLate(b)
    PROVE  Inv'
<1>1. UNCHANGED <<space, minted, bindings, receipts, backup>>
  BY LateChangesNothing
<1>2. PICK op : /\ op.seq = NextSeq(b) /\ op.base \in Nat
                /\ op.epoch \in Nat /\ op.epoch < space.epoch
                /\ Files(b, op, {}, 0)
  BY LateChangesNothing
<1> DEFINE k == <<b, op.seq>>
<1>3. /\ SpaceInv /\ BindingsInv /\ OpsInv /\ AnswersInv /\ ReceiptsInv /\ BackupInv
      /\ RowsKnown /\ CausesKept /\ NothingUnseen
      /\ space.epoch \in Nat /\ op.epoch <= space.epoch
  BY <1>2 DEF Inv, JournalInv, SpaceInv, GoodSpace, TypedSpace, IsSpace
<1>4. /\ OpsInv' /\ OpsGrow /\ DOMAIN ops' = DOMAIN ops \cup {k}
      /\ ops'[k] = [op |-> op, answers |-> {}, effects |-> 0]
  BY <1>1, <1>2, <1>3, FilingKeepsOps DEF OpsGrow
<1>5. ops'[k].op = op /\ ops'[k].answers = {} /\ ops'[k].effects = 0
  BY <1>4
<1> HIDE DEF k
<1>6. SpaceInv' /\ BindingsInv' /\ BackupInv'
  BY <1>1, <1>3 DEF SpaceInv, BindingsInv, BackupInv
<1>7. RowsKnown' /\ NothingUnseen'
  BY <1>1, <1>3, <1>4, SameSpaceKeepsRows
<1>8. CausesKept'
  <2>1. CauseKept(k)'
    BY <1>5 DEF CauseKept
  <2>2. \A j \in DOMAIN ops : CauseKept(j)'
    BY <1>1, <1>3, <1>4, GrowthKeepsCauses
  <2>3. QED  BY <1>4, <2>1, <2>2 DEF CausesKept
<1>9. AnswersInv'
  BY <1>1, <1>2, <1>3, <1>4, <1>5 DEF AnswersInv, OpsGrow
<1>10. ReceiptsInv'
  BY <1>1, <1>3, <1>4 DEF ReceiptsInv, OpsGrow
<1>11. QED  BY <1>4, <1>6, <1>7, <1>8, <1>9, <1>10 DEF Inv, JournalInv

\* c ran on behalf of o, and handed out the id it creates.
Ran(c, o) ==
    /\ Executable(space, c) /\ space' = Execute(space, c, o)
    /\ c.op = "create" => c.node \notin minted
    /\ minted' = minted \cup (IF c.op = "create" THEN {c.node} ELSE {})

\* Every action of the executor runs one command the lemmas know.
LEMMA CommandRan ==
    ASSUME DOMAIN space.tomb \subseteq minted, NEW o, Command(o)
    PROVE  \E c : Ran(c, o)
<1>1. ASSUME NEW c \in Creations, c.node \notin minted, Run(c, o), minted' = minted \cup {c.node}
      PROVE  Ran(c, o)
  BY <1>1, CommandsTyped DEF Ran, Run, Executable
<1>2. ASSUME NEW c \in TitleUpdates \cup URLUpdates \cup Movements \cup Deletions,
             Run(c, o), UNCHANGED minted
      PROVE  Ran(c, o)
  BY <1>2, CommandsTyped DEF Ran, Run, Executable
<1>3. QED
  BY <1>1, <1>2 DEF Command, Create, UpdateTitle, UpdateURL, Move, Delete

\* An edit on the web keeps it: its row is nobody's operation.
LEMMA WebEditKeepsInv ==
    ASSUME Inv, WebEdit
    PROVE  Inv'
<1>1. /\ SpaceInv /\ BindingsInv /\ OpsInv /\ AnswersInv /\ ReceiptsInv /\ BackupInv
      /\ RowsKnown /\ CausesKept /\ NothingUnseen
      /\ GoodSpace(space) /\ DOMAIN space.tomb \subseteq minted /\ WebOrigin \in Origins
  BY SyncConstants DEF Inv, JournalInv, SpaceInv
<1>2. UNCHANGED <<bindings, receipts, ops, backup>>
  BY DEF WebEdit, syncVars
<1>3. PICK c : Ran(c, WebOrigin)
  BY <1>1, CommandRan DEF WebEdit
<1>4. /\ Executable(space, c) /\ space' = Execute(space, c, WebOrigin)
      /\ c.op = "create" => c.node \notin minted /\ c.node \in NodeIds
      /\ minted' = minted \cup (IF c.op = "create" THEN {c.node} ELSE {})
  BY <1>3 DEF Ran, Executable, IsCommand
<1>5. minted \subseteq minted' /\ minted' \subseteq NodeIds /\ OpsGrow
  BY <1>1, <1>2, <1>4 DEF SpaceInv, OpsGrow
<1>6. /\ SpaceInv' /\ RowsKnown' /\ NothingUnseen'
      /\ space'.epoch = space.epoch /\ space'.floor = space.floor
      /\ DOMAIN space.journal \subseteq DOMAIN space'.journal
      /\ \A q \in DOMAIN space.journal : space'.journal[q] = space.journal[q]
  <2>1. CASE c.op = "move" /\ AlreadyInPlace(space, c)
    <3>1. space' = space
      BY <1>4, <2>1 DEF Execute, MoveNode
    <3>2. minted' = minted
      BY <1>4, <2>1
    <3>3. SpaceInv'
      BY <1>1, <3>1, <3>2 DEF SpaceInv
    <3>4. RowsKnown' /\ NothingUnseen'
      BY <1>1, <1>5, <3>1, SameSpaceKeepsRows
    <3>5. QED  BY <3>1, <3>3, <3>4
  <2>2. CASE ~(c.op = "move" /\ AlreadyInPlace(space, c))
    <3>1. /\ GoodSpace(space') /\ space'.slots = space.slots
          /\ Extends(space, space', WebOrigin, c.op, c.node)
      BY <1>1, <1>4, <2>2, CommandExtends
    <3>2. DOMAIN space'.nodes \cup DOMAIN space'.tomb
              = DOMAIN space.nodes \cup DOMAIN space.tomb
                    \cup (IF c.op = "create" THEN {c.node} ELSE {})
      BY <3>1 DEF Extends
    <3>3. SpaceInv'
      BY <1>1, <1>4, <1>5, <3>1, <3>2 DEF SpaceInv
    <3>4. c.node \in minted'
      BY <3>1, <3>3 DEF SpaceInv, Extends
    <3>5. RowsKnown'
      BY <1>1, <1>4, <1>5, <3>1, <3>4, GrowthKeepsRows
    <3>6. NothingUnseen'
      BY <1>1, <1>5, <3>1, GrowthLeavesNothingUnseen
    <3>7. QED  BY <3>1, <3>3, <3>5, <3>6 DEF Extends
  <2>3. QED  BY <2>1, <2>2
<1>7. CausesKept'
  <2>1. \A j \in DOMAIN ops : CauseKept(j)'
    BY <1>1, <1>5, <1>6, GrowthKeepsCauses
  <2>2. QED  BY <1>2, <2>1 DEF CausesKept
<1>8. BindingsInv' /\ ReceiptsInv'
  BY <1>1, <1>2 DEF BindingsInv, ReceiptsInv
<1>9. OpsInv'
  BY <1>1, <1>2, <1>6 DEF OpsInv, OpsOf
<1>10. AnswersInv'
  BY <1>1, <1>2, <1>6 DEF AnswersInv
<1>11. BackupInv'
  BY <1>1, <1>2, <1>5 DEF BackupInv
<1>12. QED  BY <1>6, <1>7, <1>8, <1>9, <1>10, <1>11 DEF Inv, JournalInv

\* Pruned history is older than every row, tombstone and field revision still asked for.
LEMMA CollectedGood ==
    ASSUME NEW sp, GoodSpace(sp), NEW floor \in Nat, floor <= sp.rev,
           NEW after, DOMAIN after = DOMAIN sp,
           after.epoch = sp.epoch, after.rev = sp.rev, after.slots = sp.slots,
           after.nodes = sp.nodes, after.floor = IF sp.floor < floor THEN floor ELSE sp.floor,
           after.journal = [r \in {r \in DOMAIN sp.journal : r > floor} |-> sp.journal[r]],
           after.tomb = [n \in {n \in DOMAIN sp.tomb : sp.tomb[n] > floor} |-> sp.tomb[n]]
    PROVE  GoodSpace(after)
<1>1. /\ sp.floor \in Nat /\ sp.rev \in Nat /\ sp.floor <= sp.rev
      /\ DOMAIN sp.journal = sp.floor + 1 .. sp.rev
      /\ \A n \in DOMAIN sp.tomb : sp.tomb[n] \in Nat
  BY DEF GoodSpace, TypedSpace, IsSpace, GoodRows, LiveRows, JournalSpans
<1>2. /\ DOMAIN after.journal = {r \in DOMAIN sp.journal : r > floor}
      /\ \A r \in DOMAIN after.journal : after.journal[r] = sp.journal[r]
      /\ DOMAIN after.tomb = {n \in DOMAIN sp.tomb : sp.tomb[n] > floor}
      /\ \A n \in DOMAIN after.tomb : after.tomb[n] = sp.tomb[n]
  OBVIOUS
<1>3. after.floor \in Nat /\ after.floor >= floor /\ after.floor >= sp.floor
      /\ after.floor <= sp.rev
  BY <1>1
<1>4. TypedSpace(after)
  BY <1>1, <1>2, <1>3 DEF GoodSpace, TypedSpace, IsSpace
<1>5. GoodTree(after)
  BY SameTree DEF GoodSpace
<1>6. JournalSpans(after)
  <2>1. ASSUME NEW r PROVE r \in DOMAIN after.journal <=> r \in after.floor + 1 .. after.rev
    BY <1>1, <1>2
  <2>2. QED  BY <1>3, <2>1 DEF JournalSpans
<1>7. DenseSiblings(after)
  BY DEF GoodSpace, GoodRows, LiveRows, DenseSiblings
<1>8. ASSUME NEW f, NEW rf, FieldJournaled(sp, f, rf), FieldLatest(sp, f, rf),
             \A n \in DOMAIN sp.nodes : sp.nodes[n][rf] \in Nat
      PROVE  FieldJournaled(after, f, rf) /\ FieldLatest(after, f, rf)
  <2>1. ASSUME NEW n \in DOMAIN sp.nodes, sp.nodes[n][rf] > after.floor
        PROVE  sp.nodes[n][rf] > sp.floor /\ sp.nodes[n][rf] > floor
    <3>1. sp.nodes[n][rf] \in Nat
      BY <1>8
    <3>2. QED  BY <1>1, <1>3, <2>1, <3>1
  <2>2. FieldJournaled(after, f, rf)
    BY <1>2, <1>8, <2>1 DEF FieldJournaled
  <2>3. FieldLatest(after, f, rf)
    BY <1>2, <1>8 DEF FieldLatest
  <2>4. QED  BY <2>2, <2>3
<1>9. FieldsAgree(after)
  <2>1. \A n \in DOMAIN sp.nodes : /\ sp.nodes[n]["titleRev"] \in Nat
                                   /\ sp.nodes[n]["urlRev"] \in Nat
                                   /\ sp.nodes[n]["structRev"] \in Nat
    BY DEF GoodSpace, TypedSpace, IsSpace, Nodes
  <2>2. FieldsAgree(sp)
    BY DEF GoodSpace, GoodRows, LiveRows
  <2>3. QED  BY <1>8, <2>1, <2>2 DEF FieldsAgree
<1>10. TombsAgree(after)
  <2>1. TombsAgree(sp)
    BY DEF GoodSpace, GoodRows, LiveRows
  <2>2. DOMAIN after.nodes \cap DOMAIN after.tomb = {}
    BY <1>2, <2>1 DEF TombsAgree
  <2>3. ASSUME NEW n \in DOMAIN after.tomb
        PROVE  /\ after.tomb[n] <= after.rev
               /\ after.tomb[n] > after.floor => after.journal[after.tomb[n]].type = "delete"
    <3>1. /\ after.tomb[n] = sp.tomb[n] /\ n \in DOMAIN sp.tomb /\ sp.tomb[n] > floor
          /\ sp.tomb[n] <= sp.rev /\ sp.tomb[n] \in Nat
      BY <1>1, <1>2, <2>1 DEF TombsAgree
    <3>2. CASE sp.tomb[n] > after.floor
      <4>1. sp.tomb[n] > sp.floor
        BY <1>1, <1>3, <3>1, <3>2
      <4>2. sp.tomb[n] \in DOMAIN after.journal /\ sp.journal[sp.tomb[n]].type = "delete"
        BY <1>1, <1>2, <2>1, <3>1, <4>1 DEF TombsAgree
      <4>3. QED  BY <1>2, <3>1, <4>2
    <3>3. QED  BY <3>1, <3>2
  <2>4. ASSUME NEW r \in DOMAIN after.journal, sp.journal[r].type = "create"
        PROVE  /\ sp.journal[r].node \in DOMAIN after.nodes \cup DOMAIN after.tomb
               /\ sp.journal[r].node \in DOMAIN after.tomb => r <= after.tomb[sp.journal[r].node]
    <3> DEFINE n == sp.journal[r].node
    <3>1. /\ r \in DOMAIN sp.journal /\ r > floor /\ r \in Nat
      BY <1>1, <1>2
    <3>2. n \in DOMAIN sp.nodes \cup DOMAIN sp.tomb
      BY <2>1, <2>4, <3>1 DEF TombsAgree
    <3>3. n \in DOMAIN sp.tomb => r <= sp.tomb[n] /\ sp.tomb[n] > floor
      <4>1. n \in DOMAIN sp.tomb => r <= sp.tomb[n]
        BY <2>1, <2>4, <3>1 DEF TombsAgree
      <4>2. n \in DOMAIN sp.tomb => sp.tomb[n] \in Nat
        BY <1>1
      <4> HIDE DEF n
      <4>3. QED  BY <3>1, <4>1, <4>2
    <3> HIDE DEF n
    <3>4. n \in DOMAIN sp.tomb => n \in DOMAIN after.tomb
      BY <1>2, <3>3
    <3>5. n \in DOMAIN after.tomb => r <= after.tomb[n]
      BY <1>2, <3>3
    <3>6. QED  BY <3>2, <3>4, <3>5 DEF n
  <2>5. ASSUME NEW r \in DOMAIN after.journal, sp.journal[r].type = "delete"
        PROVE  /\ sp.journal[r].node \in DOMAIN after.tomb
               /\ after.tomb[sp.journal[r].node] = r
               /\ sp.journal[r].payload.count
                      = Cardinality({n \in DOMAIN after.tomb : after.tomb[n] = r})
    <3>1. /\ r \in DOMAIN sp.journal /\ r > floor
          /\ sp.journal[r].node \in DOMAIN sp.tomb /\ sp.tomb[sp.journal[r].node] = r
          /\ sp.journal[r].payload.count = Cardinality({n \in DOMAIN sp.tomb : sp.tomb[n] = r})
      BY <1>2, <2>1, <2>5 DEF TombsAgree
    <3>2. {n \in DOMAIN after.tomb : after.tomb[n] = r} = {n \in DOMAIN sp.tomb : sp.tomb[n] = r}
      BY <1>2, <3>1
    <3>3. QED  BY <1>2, <3>1, <3>2
  <2>6. ASSUME NEW r \in DOMAIN after.journal
        PROVE  LET row == after.journal[r]
               IN  /\ row.type = "create" =>
                          /\ row.node \in DOMAIN after.nodes \cup DOMAIN after.tomb
                          /\ row.node \in DOMAIN after.tomb => r <= after.tomb[row.node]
                   /\ row.type = "delete" =>
                          /\ row.node \in DOMAIN after.tomb /\ after.tomb[row.node] = r
                          /\ row.payload.count
                                 = Cardinality({n \in DOMAIN after.tomb : after.tomb[n] = r})
    <3>1. after.journal[r] = sp.journal[r]
      BY <1>2
    <3>2. QED  BY <2>4, <2>5, <3>1
  <2>7. QED  BY <2>2, <2>3, <2>6 DEF TombsAgree
<1>11. QED  BY <1>4, <1>5, <1>6, <1>7, <1>9, <1>10 DEF GoodSpace, GoodRows, LiveRows

\* Journal GC keeps the invariant: what an answer names is younger than its base, and a
\* base below the floor is no longer retained.
LEMMA CollectKeepsInv ==
    ASSUME Inv, CollectJournal
    PROVE  Inv'
<1>1. /\ SpaceInv /\ BindingsInv /\ OpsInv /\ AnswersInv /\ ReceiptsInv /\ BackupInv
      /\ RowsKnown /\ CausesKept /\ NothingUnseen /\ GoodSpace(space)
      /\ space.rev \in Nat /\ space.floor \in Nat
      /\ DOMAIN space.journal = space.floor + 1 .. space.rev
  BY DEF Inv, JournalInv, SpaceInv, GoodSpace, TypedSpace, IsSpace, GoodRows, LiveRows, JournalSpans
<1>2. PICK floor \in 1 .. space.rev :
          /\ space' = Collected(floor)
          /\ receipts' = [k \in {k \in DOMAIN receipts : receipts[k].processedAt > floor} |->
                             receipts[k]]
          /\ UNCHANGED <<minted, bindings, ops, backup>>
  BY DEF CollectJournal
<1>3. floor \in Nat /\ floor <= space.rev
  BY <1>1
<1>4. /\ DOMAIN space' = DOMAIN space
      /\ space'.epoch = space.epoch /\ space'.rev = space.rev /\ space'.slots = space.slots
      /\ space'.nodes = space.nodes
      /\ space'.floor = IF space.floor < floor THEN floor ELSE space.floor
      /\ space'.journal = [r \in {r \in DOMAIN space.journal : r > floor} |-> space.journal[r]]
      /\ space'.tomb = [n \in {n \in DOMAIN space.tomb : space.tomb[n] > floor} |-> space.tomb[n]]
  BY <1>1, <1>2 DEF Collected, GoodSpace, TypedSpace, IsSpace
<1>5. /\ DOMAIN space'.journal = {r \in DOMAIN space.journal : r > floor}
      /\ \A r \in DOMAIN space'.journal : space'.journal[r] = space.journal[r]
      /\ DOMAIN space'.tomb \subseteq DOMAIN space.tomb
  BY <1>4
<1>6. SpaceInv'
  <2>1. GoodSpace(space')
    BY <1>1, <1>3, <1>4, CollectedGood
  <2>2. QED  BY <1>1, <1>2, <1>4, <1>5, <2>1 DEF SpaceInv
<1>7. RowsKnown'
  BY <1>1, <1>2, <1>4, <1>5 DEF RowsKnown
<1>8. NothingUnseen'
  BY <1>1, <1>2, <1>5 DEF NothingUnseen
<1>9. CausesKept'
  <2>1. SUFFICES ASSUME NEW k \in DOMAIN ops, ops[k].op.epoch = space.epoch,
                        ops[k].op.base >= space'.floor, NEW a \in ops[k].answers
                 PROVE  NamesCause(k, a)'
    BY <1>2, <1>4 DEF CausesKept, CauseKept
  <2>2. ops[k].op.base \in Nat
    BY <1>1 DEF OpsInv
  <2>3. ops[k].op.base >= space.floor /\ ops[k].op.base >= floor
    BY <1>1, <1>3, <1>4, <2>1, <2>2
  <2>4. NamesCause(k, a)
    BY <1>1, <2>1, <2>3 DEF CausesKept, CauseKept
  <2>5. ASSUME a.settle > ops[k].op.base, a.settle \in DOMAIN space.journal
        PROVE  /\ a.settle \in DOMAIN space'.journal
               /\ space'.journal[a.settle] = space.journal[a.settle]
    <3>1. a.settle \in Nat /\ a.settle > floor
      BY <1>1, <1>3, <2>2, <2>3, <2>5
    <3>2. QED  BY <1>5, <2>5, <3>1
  <2>6. ops'[k] = ops[k]
    BY <1>2
  <2>7. QED  BY <2>4, <2>5, <2>6 DEF NamesCause
<1>10. BindingsInv' /\ OpsInv' /\ AnswersInv' /\ BackupInv'
  BY <1>1, <1>2, <1>4 DEF BindingsInv, OpsInv, OpsOf, AnswersInv, BackupInv
<1>11. ReceiptsInv'
  BY <1>1, <1>2 DEF ReceiptsInv
<1>12. QED  BY <1>6, <1>7, <1>8, <1>9, <1>10, <1>11 DEF Inv, JournalInv

\* A node as a restore brings it back: its fields were last written at revision 0.
Reset(node) ==
    [node EXCEPT !.createdRev = 0, !.titleRev = 0, !.urlRev = 0, !.structRev = 0]

\* It is the same node otherwise.
LEMMA ResetNode ==
    ASSUME NEW node \in Nodes
    PROVE  /\ Reset(node) \in Nodes /\ Reset(node).type = node.type
           /\ Reset(node).parent = node.parent /\ Reset(node).pos = node.pos
           /\ Reset(node).titleRev = 0 /\ Reset(node).urlRev = 0 /\ Reset(node).structRev = 0
<1> DEFINE n1 == [node EXCEPT !.createdRev = 0]
           n2 == [n1 EXCEPT !.titleRev = 0]
           n3 == [n2 EXCEPT !.urlRev = 0]
           n4 == [n3 EXCEPT !.structRev = 0]
<1>1. Reset(node) = n4
  BY Zenon DEF Reset
<1>2. n1 \in Nodes /\ n1.type = node.type /\ n1.parent = node.parent /\ n1.pos = node.pos
  BY DEF Nodes
<1> HIDE DEF n1
<1>3. /\ n2 \in Nodes /\ n2.type = node.type /\ n2.parent = node.parent /\ n2.pos = node.pos
      /\ n2.titleRev = 0
  BY <1>2 DEF Nodes
<1> HIDE DEF n2
<1>4. /\ n3 \in Nodes /\ n3.type = node.type /\ n3.parent = node.parent /\ n3.pos = node.pos
      /\ n3.titleRev = 0 /\ n3.urlRev = 0
  BY <1>3 DEF Nodes
<1> HIDE DEF n3
<1>5. /\ n4 \in Nodes /\ n4.type = node.type /\ n4.parent = node.parent /\ n4.pos = node.pos
      /\ n4.titleRev = 0 /\ n4.urlRev = 0 /\ n4.structRev = 0
  BY <1>4 DEF Nodes
<1> HIDE DEF n4
<1>6. QED  BY <1>1, <1>5

\* A restored tree is a good space without history.
LEMMA BaselineGood ==
    ASSUME NEW sp, GoodSpace(sp), NEW epoch \in Nat,
           NEW after, DOMAIN after = DOMAIN sp, after.epoch = epoch, after.rev = 0,
           after.floor = 0, after.slots = sp.slots, after.tomb = NoRows, after.journal = NoRows,
           after.nodes = [n \in DOMAIN sp.nodes |-> Reset(sp.nodes[n])]
    PROVE  GoodSpace(after)
<1>1. DOMAIN after.tomb = {} /\ DOMAIN after.journal = {} /\ DOMAIN after.nodes = DOMAIN sp.nodes
  BY DEF NoRows
<1>2. \A n \in DOMAIN sp.nodes :
          /\ after.nodes[n] \in Nodes /\ after.nodes[n].type = sp.nodes[n].type
          /\ after.nodes[n].parent = sp.nodes[n].parent /\ after.nodes[n].pos = sp.nodes[n].pos
          /\ after.nodes[n].titleRev = 0 /\ after.nodes[n].urlRev = 0
          /\ after.nodes[n].structRev = 0
  <2>1. ASSUME NEW n \in DOMAIN sp.nodes
        PROVE  sp.nodes[n] \in Nodes /\ after.nodes[n] = Reset(sp.nodes[n])
    BY DEF GoodSpace, TypedSpace, IsSpace
  <2>2. QED  BY <2>1, ResetNode
<1>3. TypedSpace(after)
  BY <1>1, <1>2 DEF GoodSpace, TypedSpace, IsSpace
<1>4. GoodTree(after)
  BY <1>1, <1>2, SameTree DEF GoodSpace
<1>5. JournalSpans(after)
  BY <1>1 DEF JournalSpans
<1>6. DenseSiblings(after)
  <2>1. ASSUME NEW p \in ParentRefs PROVE Dense(after.nodes, Children(after.nodes, p))
    <3>1. Children(after.nodes, p) = Children(sp.nodes, p)
      BY <1>1, <1>2 DEF Children
    <3>2. Dense(sp.nodes, Children(sp.nodes, p))
      BY DEF GoodSpace, GoodRows, LiveRows, DenseSiblings
    <3>3. \A n \in Children(sp.nodes, p) : after.nodes[n].pos = sp.nodes[n].pos
      BY <1>2 DEF Children
    <3> DEFINE S == Children(sp.nodes, p)
               nodes == sp.nodes
               reset == after.nodes
    <3>4. Dense(nodes, S) /\ \A n \in S : reset[n].pos = nodes[n].pos
      BY <3>2, <3>3
    <3> HIDE DEF S, nodes, reset
    <3>5. Dense(reset, S)
      BY <3>4, DenseSame
    <3>6. QED  BY <3>1, <3>5 DEF S, reset
  <2>2. QED  BY <2>1 DEF DenseSiblings
<1>7. FieldsAgree(after)
  <2>1. ASSUME NEW f, NEW rf, \A n \in DOMAIN sp.nodes : after.nodes[n][rf] = 0
        PROVE  FieldJournaled(after, f, rf) /\ FieldLatest(after, f, rf)
    <3>1. ASSUME NEW n \in DOMAIN after.nodes PROVE ~(after.nodes[n][rf] > after.floor)
      <4>1. after.nodes[n][rf] = 0
        BY <1>1, <2>1, Zenon
      <4>2. after.floor = 0 /\ ~(0 > 0)
        OBVIOUS
      <4>3. QED  BY <4>1, <4>2, Zenon
    <3>2. QED  BY <1>1, <3>1 DEF FieldJournaled, FieldLatest
  <2>2. \A n \in DOMAIN sp.nodes : /\ after.nodes[n]["titleRev"] = 0
                                   /\ after.nodes[n]["urlRev"] = 0
                                   /\ after.nodes[n]["structRev"] = 0
    BY <1>2
  <2>3. QED  BY <2>1, <2>2 DEF FieldsAgree
<1>8. TombsAgree(after)
  BY <1>1 DEF TombsAgree
<1>9. QED  BY <1>3, <1>4, <1>5, <1>6, <1>7, <1>8 DEF GoodSpace, GoodRows, LiveRows

\* A restore keeps the invariant: every operation is now of an earlier epoch.
LEMMA RestoreKeepsInv ==
    ASSUME Inv, Restore
    PROVE  Inv'
<1>1. /\ SpaceInv /\ BindingsInv /\ OpsInv /\ AnswersInv /\ BackupInv
      /\ GoodSpace(space) /\ space.epoch \in Nat
  BY DEF Inv, SpaceInv, GoodSpace, TypedSpace, IsSpace
<1>2. /\ backup # None /\ space' = Baseline /\ receipts' = NoRows
      /\ bindings' = [b \in Bindings |-> [bindings[b] EXCEPT !.state = "pending_initial",
                                                             !.epoch = space.epoch + 1]]
      /\ minted' = minted /\ ops' = ops /\ backup' = backup
  BY DEF Restore
<1>3. PICK sp : /\ GoodSpace(sp) /\ MainSlots \subseteq sp.slots /\ DOMAIN sp.nodes \subseteq minted
                /\ backup = [slots |-> sp.slots, nodes |-> sp.nodes]
  BY <1>1, <1>2 DEF BackupInv
<1>4. backup.slots = sp.slots /\ backup.nodes = sp.nodes
  BY <1>3
<1>5. DOMAIN space = DOMAIN sp
  BY <1>1, <1>3 DEF GoodSpace, TypedSpace, IsSpace
<1>6. /\ DOMAIN space' = DOMAIN sp /\ space'.epoch = space.epoch + 1 /\ space'.rev = 0
      /\ space'.floor = 0 /\ space'.slots = sp.slots
      /\ space'.tomb = NoRows /\ space'.journal = NoRows
      /\ space'.nodes = [n \in DOMAIN sp.nodes |-> Reset(sp.nodes[n])]
  <2> DEFINE nodes == [n \in DOMAIN backup.nodes |-> Reset(backup.nodes[n])]
             next == space.epoch + 1
  <2>1. space' = [space EXCEPT !.epoch = next, !.rev = 0, !.floor = 0, !.slots = backup.slots,
                               !.nodes = nodes, !.tomb = NoRows, !.journal = NoRows]
    BY <1>2, Zenon DEF Baseline, Reset
  <2> HIDE DEF nodes, next
  <2>2. DOMAIN space = {"epoch", "rev", "floor", "slots", "nodes", "tomb", "journal"}
    BY <1>1 DEF GoodSpace, TypedSpace, IsSpace
  <2>3. /\ DOMAIN space' = DOMAIN space /\ space'.epoch = next /\ space'.rev = 0
        /\ space'.floor = 0 /\ space'.slots = backup.slots
        /\ space'.tomb = NoRows /\ space'.journal = NoRows /\ space'.nodes = nodes
    BY <2>1, <2>2
  <2>4. QED  BY <1>4, <1>5, <2>3 DEF nodes, next
<1>7. GoodSpace(space')
  BY <1>1, <1>3, <1>6, BaselineGood
<1>8. DOMAIN space'.journal = {} /\ DOMAIN space'.tomb = {} /\ DOMAIN space'.nodes = DOMAIN sp.nodes
  BY <1>6 DEF NoRows
<1>9. SpaceInv'
  BY <1>1, <1>2, <1>3, <1>6, <1>7, <1>8 DEF SpaceInv
<1>10. \A b \in Bindings :
           /\ bindings'[b] = [state |-> bindings'[b].state, epoch |-> bindings'[b].epoch,
                              maxSeq |-> bindings'[b].maxSeq]
           /\ bindings'[b].maxSeq = bindings[b].maxSeq
  <2>1. ASSUME NEW b \in Bindings
        PROVE  bindings'[b] = [state |-> "pending_initial", epoch |-> space.epoch + 1,
                               maxSeq |-> bindings[b].maxSeq]
    <3>1. bindings[b] = [state |-> bindings[b].state, epoch |-> bindings[b].epoch,
                         maxSeq |-> bindings[b].maxSeq]
      BY <1>1 DEF BindingsInv
    <3> DEFINE next == space.epoch + 1
    <3>2. bindings'[b] = [bindings[b] EXCEPT !.state = "pending_initial", !.epoch = next]
      BY <1>2, Zenon
    <3> HIDE DEF next
    <3>3. ASSUME NEW state, NEW epoch, NEW seq,
                 bindings[b] = [state |-> state, epoch |-> epoch, maxSeq |-> seq]
          PROVE  bindings'[b] = [state |-> "pending_initial", epoch |-> next, maxSeq |-> seq]
      <4> DEFINE revoked == [bindings[b] EXCEPT !.state = "pending_initial"]
      <4>1. bindings'[b] = [revoked EXCEPT !.epoch = next]
        BY <3>2, Zenon
      <4>2. revoked = [state |-> "pending_initial", epoch |-> epoch, maxSeq |-> seq]
        BY <3>3
      <4> HIDE DEF revoked
      <4>3. QED  BY <4>1, <4>2
    <3>4. QED  BY <3>1, <3>3 DEF next
  <2>2. ASSUME NEW b \in Bindings
        PROVE  /\ bindings'[b] = [state |-> bindings'[b].state, epoch |-> bindings'[b].epoch,
                                  maxSeq |-> bindings'[b].maxSeq]
               /\ bindings'[b].maxSeq = bindings[b].maxSeq
    <3> DEFINE next == space.epoch + 1
               high == bindings[b].maxSeq
    <3>1. bindings'[b] = [state |-> "pending_initial", epoch |-> next, maxSeq |-> high]
      BY <2>1
    <3> HIDE DEF next, high
    <3>2. /\ bindings'[b].state = "pending_initial" /\ bindings'[b].epoch = next
          /\ bindings'[b].maxSeq = high
      BY <3>1
    <3>3. QED  BY <3>1, <3>2 DEF high
  <2>3. QED  BY <2>2
<1>11. BindingsInv'
  <2> DEFINE Entry(b) == [state |-> bindings'[b].state, epoch |-> bindings'[b].epoch,
                          maxSeq |-> bindings'[b].maxSeq]
  <2>1. bindings' = [b \in Bindings |-> bindings'[b]]
    BY <1>2
  <2>2. \A b \in Bindings : bindings'[b] = Entry(b)
    BY <1>10
  <2>3. bindings' = [b \in Bindings |-> Entry(b)]
    <3> HIDE DEF Entry
    <3>1. QED  BY <2>1, <2>2
  <2>4. \A b \in Bindings : bindings'[b].maxSeq \in Nat
    BY <1>1, <1>10 DEF BindingsInv
  <2>5. QED  BY <2>3, <2>4 DEF BindingsInv
<1>12. \A k \in DOMAIN ops :
           /\ ops[k].op.epoch \in Nat /\ ops[k].op.epoch < space'.epoch /\ k[1] \in Bindings
           /\ ops[k].op.epoch <= space'.epoch /\ ops[k].op.epoch # space'.epoch
  <2>1. ASSUME NEW k \in DOMAIN ops
        PROVE  /\ ops[k].op.epoch \in Nat /\ k[1] \in Bindings /\ ops[k].op.epoch <= space.epoch
    BY <1>1 DEF OpsInv
  <2>2. space'.epoch = space.epoch + 1
    BY <1>6
  <2>3. QED  BY <1>1, <2>1, <2>2
<1>13. OpsInv'
  BY <1>1, <1>2, <1>12 DEF OpsInv, OpsOf
<1>14. AnswersInv'
  BY <1>1, <1>2, <1>10, <1>12 DEF AnswersInv
<1>15. ReceiptsInv'
  <2>1. DOMAIN receipts' = {}
    BY <1>2 DEF NoRows
  <2>2. QED  BY <2>1 DEF ReceiptsInv
<1>16. RowsKnown' /\ NothingUnseen'
  BY <1>8 DEF RowsKnown, NothingUnseen
<1>17. CausesKept'
  BY <1>2, <1>12 DEF CausesKept, CauseKept
<1>18. BackupInv'
  BY <1>1, <1>2 DEF BackupInv
<1>19. QED  BY <1>9, <1>11, <1>13, <1>14, <1>15, <1>16, <1>17, <1>18 DEF Inv, JournalInv

\* Taking a backup copies a good tree.
LEMMA BackupKeepsInv ==
    ASSUME Inv, TakeBackup
    PROVE  Inv'
<1>1. /\ UNCHANGED <<space, minted, bindings, receipts, ops>>
      /\ backup' = [slots |-> space.slots, nodes |-> space.nodes]
  BY DEF TakeBackup, treeVars
<1>2. GoodSpace(space) /\ MainSlots \subseteq space.slots /\ DOMAIN space.nodes \subseteq minted
  BY DEF Inv, SpaceInv
<1>3. BackupInv'
  BY <1>1, <1>2 DEF BackupInv
<1>4. SpaceInv' /\ BindingsInv' /\ OpsInv' /\ AnswersInv' /\ ReceiptsInv'
  BY <1>1 DEF Inv, SpaceInv, BindingsInv, OpsInv, OpsOf, AnswersInv, ReceiptsInv
<1>5. JournalInv'
  BY <1>1 DEF Inv, JournalInv, RowsKnown, CausesKept, CauseKept, NamesCause, NothingUnseen
<1>6. QED  BY <1>3, <1>4, <1>5 DEF Inv

\* Revoking and re-activating a binding leave its watermark where it is.
LEMMA BindingStateKeepsInv ==
    ASSUME Inv, NEW b \in Bindings, Revoke(b) \/ Activate(b)
    PROVE  Inv'
<1>1. PICK state : bindings' = [bindings EXCEPT ![b].state = state]
  BY DEF Revoke, Activate
<1>2. UNCHANGED <<space, minted, receipts, ops, backup>>
  BY DEF Revoke, Activate, treeVars
<1>3. BindingsInv /\ AnswersInv /\ OpsInv
  BY DEF Inv
<1> DEFINE Entry(table, c) == [state |-> table[c].state, epoch |-> table[c].epoch,
                               maxSeq |-> table[c].maxSeq]
           next == [bindings[b] EXCEPT !.state = state]
<1>4. /\ bindings = [c \in Bindings |-> Entry(bindings, c)] /\ DOMAIN bindings = Bindings
      /\ \A c \in Bindings : bindings[c] = Entry(bindings, c)
      /\ \A c \in Bindings : bindings[c].maxSeq \in Nat
  BY <1>3 DEF BindingsInv
<1>5. next = [state |-> state, epoch |-> bindings[b].epoch, maxSeq |-> bindings[b].maxSeq]
  BY <1>4
<1>6. bindings' = [bindings EXCEPT ![b] = next]
  BY <1>1
<1>7. \A c \in Bindings : bindings'[c] = IF c = b THEN next ELSE bindings[c]
  BY <1>4, <1>6
<1>8. \A c \in Bindings : /\ bindings'[c] = Entry(bindings', c)
                          /\ bindings'[c].maxSeq = bindings[c].maxSeq
  BY <1>4, <1>5, <1>7
<1>9. bindings' = [c \in Bindings |-> bindings'[c]]
  BY <1>4, <1>6
<1> HIDE DEF Entry
<1>10. bindings' = [c \in Bindings |-> Entry(bindings', c)]
  BY <1>8, <1>9
<1>11. BindingsInv'
  BY <1>4, <1>8, <1>10 DEF BindingsInv, Entry
<1>12. AnswersInv'
  <2>1. \A k \in DOMAIN ops : k[1] \in Bindings
    BY <1>3 DEF OpsInv
  <2>2. QED  BY <1>2, <1>3, <1>8, <2>1 DEF AnswersInv
<1>13. SpaceInv' /\ OpsInv' /\ ReceiptsInv' /\ BackupInv'
  BY <1>2 DEF Inv, SpaceInv, OpsInv, OpsOf, ReceiptsInv, BackupInv
<1>14. JournalInv'
  BY <1>2 DEF Inv, JournalInv, RowsKnown, CausesKept, CauseKept, NamesCause, NothingUnseen
<1>15. QED  BY <1>11, <1>12, <1>13, <1>14 DEF Inv

---------------------------------------------------------------------------
(* The invariant holds *)

\* A new space is empty, and nobody has asked anything.
LEMMA InitInv == SyncInit => Inv
<1> SUFFICES ASSUME SyncInit PROVE Inv
  OBVIOUS
<1>1. /\ DOMAIN space = {"epoch", "rev", "floor", "slots", "nodes", "tomb", "journal"}
      /\ space.epoch = 1 /\ space.rev = 0 /\ space.floor = 0 /\ space.slots = MainSlots
      /\ space.nodes = [n \in {} |-> n] /\ space.tomb = [n \in {} |-> n]
      /\ space.journal = [r \in {} |-> r]
  BY DEF SyncInit, EmptySpace
<1>2. DOMAIN space.nodes = {} /\ DOMAIN space.tomb = {} /\ DOMAIN space.journal = {}
  BY <1>1
<1>3. minted = {} /\ DOMAIN receipts = {} /\ DOMAIN ops = {} /\ backup = None
      /\ ops = [k \in {} |-> k]
      /\ bindings = [b \in Bindings |-> [state |-> "active", epoch |-> 1, maxSeq |-> 0]]
  BY DEF SyncInit, NoRows
<1>4. GoodSpace(space)
  <2>1. TypedSpace(space)
    BY <1>1, <1>2, SyncConstants, FS_EmptySet DEF TypedSpace, IsSpace
  <2>2. GoodTree(space)
    BY <1>2 DEF GoodTree, Acyclic
  <2>3. JournalSpans(space)
    BY <1>1, <1>2 DEF JournalSpans
  <2>4. DenseSiblings(space)
    BY <1>2, FS_EmptySet DEF DenseSiblings, Dense, Children
  <2>5. FieldsAgree(space) /\ TombsAgree(space)
    BY <1>2 DEF FieldsAgree, FieldJournaled, FieldLatest, TombsAgree
  <2>6. QED  BY <2>1, <2>2, <2>3, <2>4, <2>5 DEF GoodSpace, GoodRows, LiveRows
<1>5. SpaceInv
  BY <1>1, <1>2, <1>3, <1>4 DEF SpaceInv
<1>6. BindingsInv
  <2>1. \A b \in Bindings : /\ bindings[b].state = "active" /\ bindings[b].epoch = 1
                            /\ bindings[b].maxSeq = 0
    BY <1>3
  <2>2. QED  BY <1>3, <2>1 DEF BindingsInv
<1>7. OpsInv
  <2>1. \A b \in Bindings : OpsOf(b) = {}
    BY <1>3 DEF OpsOf
  <2>2. QED  BY <1>3, <2>1, FS_EmptySet DEF OpsInv
<1>8. AnswersInv /\ ReceiptsInv /\ CausesKept /\ BackupInv
  BY <1>3 DEF AnswersInv, ReceiptsInv, CausesKept, BackupInv
<1>9. RowsKnown /\ NothingUnseen
  BY <1>2 DEF RowsKnown, NothingUnseen
<1>10. QED  BY <1>5, <1>6, <1>7, <1>8, <1>9 DEF Inv, JournalInv

\* Every step keeps it.
LEMMA NextInv == Inv /\ [SyncNext]_vars => Inv'
<1> SUFFICES ASSUME Inv, [SyncNext]_vars PROVE Inv'
  OBVIOUS
<1>1. ASSUME UNCHANGED vars PROVE Inv'
  <2>1. UNCHANGED <<space, minted, bindings, receipts, ops, backup>>
    BY <1>1 DEF vars, treeVars, syncVars
  <2>2. SpaceInv' /\ BindingsInv' /\ OpsInv' /\ AnswersInv' /\ ReceiptsInv' /\ BackupInv'
    BY <2>1 DEF Inv, SpaceInv, BindingsInv, OpsInv, OpsOf, AnswersInv, ReceiptsInv, BackupInv
  <2>3. JournalInv'
    BY <2>1 DEF Inv, JournalInv, RowsKnown, CausesKept, CauseKept, NamesCause, NothingUnseen
  <2>4. QED  BY <2>2, <2>3 DEF Inv
<1>2. CASE WebEdit
  BY <1>2, WebEditKeepsInv
<1>3. ASSUME NEW b \in Bindings, Arrive(b) PROVE Inv'
  BY <1>3, ArriveKeepsInv
<1>4. ASSUME NEW b \in Bindings, Redeliver(b) PROVE Inv'
  BY <1>1, <1>4, RedeliverChangesNothing
<1>5. CASE CollectJournal
  BY <1>5, CollectKeepsInv
<1>6. ASSUME NEW b \in Bindings, ArriveLate(b) PROVE Inv'
  BY <1>6, LateKeepsInv
<1>7. ASSUME NEW b \in Bindings, Revoke(b) \/ Activate(b) PROVE Inv'
  BY <1>7, BindingStateKeepsInv
<1>8. CASE TakeBackup
  BY <1>8, BackupKeepsInv
<1>9. CASE Restore
  BY <1>9, RestoreKeepsInv
<1>10. QED
  BY <1>1, <1>2, <1>3, <1>4, <1>5, <1>6, <1>7, <1>8, <1>9 DEF SyncNext, RetentionNext, RoundNext

\* So it holds throughout.
LEMMA InvAlways == SyncSpec => []Inv
<1>1. QED  BY InitInv, NextInv, PTL DEF SyncSpec

\* Rounds, and rounds with journal GC, are behaviours of the whole service: what holds
\* of it holds of them.
THEOREM RoundsAreService == (RoundSpec => SyncSpec) /\ (RetentionSpec => SyncSpec)
<1>1. [RoundNext]_vars => [SyncNext]_vars
  BY DEF SyncNext, RetentionNext
<1>2. [RetentionNext]_vars => [SyncNext]_vars
  BY DEF SyncNext
<1>3. QED  BY <1>1, <1>2, PTL DEF RoundSpec, RetentionSpec, SyncSpec

---------------------------------------------------------------------------
(* Theorems *)

\* Whatever devices, the web, journal GC and restores do, in any order, the tree stays a
\* tree and siblings, field revisions and tombstones agree with the journal
\* (canonical/executor.go; maintenance.go, JournalGCSpace; service.go, ReplaceBaseline).
THEOREM ServiceKeepsTree == SyncSpec => [](TypeOK /\ TreeWellFormed /\ RowsConsistent)
<1>1. Inv => TypeOK /\ TreeWellFormed
  BY DEF Inv, SpaceInv, GoodSpace, TypedSpace, GoodTree, TypeOK, TreeWellFormed
<1>2. Inv => RowsConsistent
  <2> SUFFICES ASSUME GoodRows(space) PROVE RowsConsistent
    BY DEF Inv, SpaceInv, GoodSpace
  <2>1. SiblingsDense
    BY DEF GoodRows, LiveRows, DenseSiblings, Dense, SiblingsDense
  <2>2. FieldRevisionsJournaled
    BY DEF GoodRows, LiveRows, FieldsAgree, FieldJournaled, FieldRevisionsJournaled
  <2>3. FieldRevisionsLatest
    BY DEF GoodRows, LiveRows, FieldsAgree, FieldLatest, FieldRevisionsLatest
  <2>4. TombstonesExact
    BY DEF GoodRows, LiveRows, TombsAgree, TombstonesExact
  <2>5. QED  BY <2>1, <2>2, <2>3, <2>4 DEF RowsConsistent
<1>3. QED  BY <1>1, <1>2, InvAlways, PTL

\* The journal is exactly the revisions above the floor, and no request that outlived a
\* restore has a row in it (service.go:89-94, 175-182, 262-271).
THEOREM JournalHasItsEpoch == SyncSpec => []JournalOfThisEpoch
<1>1. Inv => JournalOfThisEpoch
  <2> SUFFICES ASSUME Inv PROVE JournalOfThisEpoch
    OBVIOUS
  <2>1. DOMAIN space.journal = space.floor + 1 .. space.rev
    BY DEF Inv, SpaceInv, GoodSpace, GoodRows, LiveRows, JournalSpans
  <2>2. RowsKnown
    BY DEF Inv, JournalInv
  <2>3. QED  BY <2>1, <2>2 DEF RowsKnown, OriginOf, JournalOfThisEpoch
<1>2. QED  BY <1>1, InvAlways, PTL

\* However often and however late a request is repeated, receipts collected or not,
\* bindings revoked or not, its operation has one answer and at most one effect
\* (service.go:274-301).
THEOREM OperationsTakeEffectOnce == SyncSpec => []EffectOnce
<1>1. Inv => EffectOnce
  <2> SUFFICES ASSUME Inv, NEW k \in DOMAIN ops
               PROVE  ops[k].effects <= 1 /\ Cardinality(ops[k].answers) <= 1
    BY DEF EffectOnce
  <2>1. /\ ops[k].effects \in {0, 1}
        /\ ops[k].answers = {} \/ \E a : ops[k].answers = {a}
    BY DEF Inv, AnswersInv
  <2>2. Cardinality(ops[k].answers) \in {0, 1}
    BY <2>1, FS_EmptySet, FS_Singleton
  <2>3. QED  BY <2>1, <2>2
<1>2. QED  BY <1>1, InvAlways, PTL

\* A repeated request that gets an answer is a stutter: no row, receipt, watermark or
\* binding changes (service.go:274-283).
THEOREM RetriesChangeNothing ==
    SyncSpec => [][\A b \in Bindings : Redeliver(b) => UNCHANGED vars]_vars
<1>1. Inv => [\A b \in Bindings : Redeliver(b) => UNCHANGED vars]_vars
  BY RedeliverChangesNothing
<1>2. QED  BY <1>1, InvAlways, PTL

\* As long as its receipt is there a repeated request is answered with what the first
\* one was (service.go:274-283).
THEOREM RetriesAreReplayed == SyncSpec => []RetryReplays
<1>1. Inv => RetryReplays
  <2> SUFFICES ASSUME Inv, NEW k \in DOMAIN ops, k \in DOMAIN receipts,
                      Served(k[1], ops[k].op.epoch)
               PROVE  LET again == Processed(k[1], ops[k].op)
                      IN  Outcome(again) = AnswerOf(k) /\ again.sp = space
    BY DEF RetryReplays, Retained
  <2> DEFINE r == receipts[k]
             again == Processed(k[1], ops[k].op)
  <2>1. OpsInv /\ AnswersInv /\ ReceiptsInv
    BY DEF Inv
  <2>2. again = Answer(space, r.status, r.reason, r.settle)
    BY <2>1, AnsweredFromReceipt
  <2>3. ops[k].answers = {Outcome(r)}
    BY <2>1 DEF ReceiptsInv
  <2>4. AnswerOf(k) = Outcome(r)
    BY <2>3 DEF AnswerOf
  <2> HIDE DEF again
  <2>5. again.sp = space /\ Outcome(again) = Outcome(r)
    BY <2>2 DEF Answer, Outcome
  <2>6. QED  BY <2>4, <2>5 DEF again
<1>2. QED  BY <1>1, InvAlways, PTL

\* A device within the retained history is never told that the server does not know its
\* target or parent (maintenance.go:76-86).
THEOREM HonestOpsAreRecognised == SyncSpec => []HonestOpRecognised
<1>1. Inv => HonestOpRecognised
  BY DEF Inv, AnswersInv, Honest, HonestOpRecognised
<1>2. QED  BY <1>1, InvAlways, PTL

\* A create that is answered has created: below the folder it names, or in the device's
\* recovery container (decide.go:11-14, 42-78).
THEOREM NewDataIsKept == SyncSpec => []NewDataProtected
<1>1. Inv => NewDataProtected
  BY DEF Inv, AnswersInv, Honest, Effective, NewDataProtected
<1>2. QED  BY <1>1, InvAlways, PTL

\* The revision an answer says to settle after is that of the row that decided it, and
\* journal GC keeps that row for as long as the operation's base is retained
\* (decide.go; maintenance.go:76-86).  An answer without a row has had no effect; one that
\* claims an effect all the same is REBASED, to a move the executor refused.
THEOREM AnswersNameTheirCause == SyncSpec => []AnswerNamesItsCause
<1>1. Inv => AnswerNamesItsCause
  <2> SUFFICES ASSUME Inv, NEW k \in DOMAIN ops, Retained(k)
               PROVE  LET answer == AnswerOf(k)
                          op     == ops[k].op
                          Cause  == space.journal[answer.settle]
                      IN  /\ answer.settle = 0 => ops[k].effects = 0
                          /\ answer.status \in {"APPLIED", "REBASED", "RECOVERED"} =>
                                 IF answer.settle = 0
                                 THEN answer.status = "REBASED" /\ op.cmd.op = "move"
                                 ELSE /\ Cause.origin = DeviceOrigin(k[1], k[2])
                                      /\ Cause.node = op.cmd.node /\ Cause.type = op.cmd.op
                          /\ answer.reason \in {"concurrent_update", "concurrent_move"} =>
                                 /\ answer.settle > op.base
                                 /\ Cause.node = op.cmd.node
                                 /\ Cause.origin.binding # k[1]
                          /\ answer.reason \in {"target_deleted", "already_deleted"} =>
                                 /\ answer.settle > op.base
                                 /\ Cause.type = "delete"
    BY DEF AnswerNamesItsCause
  <2>1. ops[k].answers = {Outcome(receipts[k])}
    BY DEF Inv, ReceiptsInv, Retained
  <2>2. AnswerOf(k) \in ops[k].answers
    BY <2>1 DEF AnswerOf
  <2>3. NamesCause(k, AnswerOf(k))
    BY <2>2 DEF Inv, JournalInv, CausesKept, CauseKept, Retained
  <2>4. ops[k].op.base \in Nat
    BY DEF Inv, OpsInv
  <2>5. QED  BY <2>3, <2>4 DEF NamesCause, Effective
<1>2. QED  BY <1>1, InvAlways, PTL

\* No update is lost: between the revision a device had applied and the revision its edit
\* of a field got, nobody else wrote that field of that node, however many devices and
\* web edits there are (decide.go:107-152, 225-240).
THEOREM NoUpdateIsLost == SyncSpec => []NoLostUpdate
<1>1. Inv => NoLostUpdate
  <2> SUFFICES ASSUME NothingUnseen PROVE NoLostUpdate
    BY DEF Inv, JournalInv
  <2>1. QED  BY DEF NothingUnseen, NoLostUpdate, OriginOf, SharesField, Writes, Edited
<1>2. QED  BY <1>1, InvAlways, PTL
=============================================================================
