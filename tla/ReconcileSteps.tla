--------------------------- MODULE ReconcileSteps ---------------------------
(***************************************************************************)
(* How the extension drives the steps of a reconciliation into the browser *)
(* (src/extension/src/core/sync/reconcileSteps.ts), as pure operators on   *)
(*   browser  the mounted tree, [roots, node, kids] over browser ids       *)
(*   mirror   the localNodes rows, browser id -> canonical id              *)
(* A mounted browser root is written by the key of its slot.  The title    *)
(* and URL a mirror row repeats from its browser node, the positions it    *)
(* takes over at the end and the expected mutations are left out: nothing  *)
(* below depends on them as long as the user does not edit meanwhile.      *)
(***************************************************************************)
EXTENDS TreePlan

CONSTANT BrowserIds   \* the ids the browser hands out

ASSUME BrowserIdsAreTheirOwn == BrowserIds \cap (NodeIds \cup RootKeys \cup {None}) = {}

FindMirrorByCanonical(mirror, id) == {b \in DOMAIN mirror : mirror[b] = id}

Mapped(mirror, b, id) == [x \in DOMAIN mirror \cup {b} |-> IF x = b THEN id ELSE mirror[x]]
Unmap(mirror, gone) == [b \in DOMAIN mirror \ gone |-> mirror[b]]

---------------------------------------------------------------------------
(* The browser's own operations *)

Below(browser, b) ==
    LET under[x \in Refs(browser)] == LET p == browser.node[x].parent IN
            x = b \/ (p \in Refs(browser) /\ under[p])
    IN  {x \in Refs(browser) : under[x]}

Without(seq, x) == SelectSeq(seq, LAMBDA y : y # x)

BrowserCreate(browser, b, parent, index, new) ==
    [browser EXCEPT
        !.node = [x \in DOMAIN @ \cup {b} |-> IF x = b
                     THEN [parent |-> parent, type |-> new.type, title |-> new.title, url |-> new.url]
                     ELSE @[x]],
        !.kids = [c \in DOMAIN @ \cup {b} |-> IF c = b THEN <<>>
                     ELSE IF c = parent THEN InsertAt(@[c], index + 1, b) ELSE @[c]]]

BrowserMove(browser, b, parent, index) ==
    [browser EXCEPT
        !.node[b].parent = parent,
        !.kids = [c \in DOMAIN @ |-> LET rest == Without(@[c], b) IN
                     IF c = parent THEN InsertAt(rest, index + 1, b) ELSE rest]]

BrowserRemove(browser, b) ==
    LET gone == Below(browser, b) IN
    [browser EXCEPT
        !.node = [x \in DOMAIN @ \ gone |-> @[x]],
        !.kids = [c \in DOMAIN @ \ gone |-> Without(@[c], b)]]

---------------------------------------------------------------------------
(* Resolution *)

\* The snapshot's ref first, the mapping as the fallback; {} is a StepResolutionError.
ResolveTarget(mirror, refs, step) ==
    IF step.node \in refs THEN {step.node} ELSE FindMirrorByCanonical(mirror, step.id)

\* A mapped parent the browser no longer has makes the browser's own call fail.
ResolveParent(browser, mirror, step) ==
    IF step.parent \in RootKeys THEN {step.parent} \cap browser.roots
    ELSE FindMirrorByCanonical(mirror, step.parent) \cap Refs(browser)

\* Mutant of IndexForBefore: the index of the anchor counted from one.
IndexForBeforeOffByOne(mirror, children, before) ==
    LET at == {i \in DOMAIN children : children[i] \in FindMirrorByCanonical(mirror, before)}
    IN  IF before = None \/ at = {} THEN Len(children) ELSE CHOOSE i \in at : \A j \in at : i <= j

\* The index before the child mapped to the anchor, past the last one without it.
IndexForBefore(mirror, children, before) ==
    LET at == {i \in DOMAIN children : children[i] \in FindMirrorByCanonical(mirror, before)}
    IN  IF before = None \/ at = {} THEN Len(children)
        ELSE (CHOOSE i \in at : \A j \in at : i <= j) - 1

\* "Already there" looks at the sibling above, though the anchor belongs below.
IsPlaced(browser, mirror, parent, b, before) ==
    LET children == browser.kids[parent]
        at == {i \in DOMAIN children : children[i] = b}
    IN  \E i \in at : IF before = None THEN i = Len(children)
                      ELSE i > 1 /\ children[i - 1] \in FindMirrorByCanonical(mirror, before)

\* The node a create step made in an earlier pass.
Landed(browser, mirror, step) == FindMirrorByCanonical(mirror, step.id) \cap Refs(browser)

Resolves(browser, mirror, refs, step) ==
    CASE step.op = "assign_identity" ->
            /\ step.node \in refs
            /\ FindMirrorByCanonical(mirror, step.id) \subseteq {step.node}
      [] step.op = "create" ->
            \/ Landed(browser, mirror, step) # {}
            \/ ResolveParent(browser, mirror, step) # {}
      [] step.op \in {"update_title", "update_url", "delete"} ->
            ResolveTarget(mirror, refs, step) # {}
      [] step.op = "move" ->
            \E b \in ResolveTarget(mirror, refs, step) :
                b \in Refs(browser) => ResolveParent(browser, mirror, step) # {}

---------------------------------------------------------------------------
(* Steps that resolve.  Each is the browser call, then the mirror's write. *)

Target(mirror, refs, step) == CHOOSE b \in ResolveTarget(mirror, refs, step) : TRUE

\* new is the id a created node gets.
InBrowser(browser, mirror, refs, step, new) ==
    CASE step.op = "assign_identity" -> browser
      [] step.op = "create" ->
            IF Landed(browser, mirror, step) # {} THEN browser
            ELSE LET parent == CHOOSE p \in ResolveParent(browser, mirror, step) : TRUE
                 IN  BrowserCreate(browser, new, parent,
                         IndexForBefore(mirror, browser.kids[parent], step.before), step)
      [] OTHER ->
            LET held == Target(mirror, refs, step) IN
            IF held \notin Refs(browser) THEN browser
            ELSE CASE step.op = "update_title" -> [browser EXCEPT !.node[held].title = step.title]
                   [] step.op = "update_url"   -> [browser EXCEPT !.node[held].url = step.url]
                   [] step.op = "delete"       -> BrowserRemove(browser, held)
                   [] step.op = "move" ->
                         LET parent == CHOOSE p \in ResolveParent(browser, mirror, step) : TRUE
                             others == Without(browser.kids[parent], held)
                         IN  IF IsPlaced(browser, mirror, parent, held, step.before) THEN browser
                             ELSE BrowserMove(browser, held, parent,
                                              IndexForBefore(mirror, others, step.before))

\* browser is the tree before the step, new the id of a created node.
InMirror(browser, mirror, refs, step, new) ==
    CASE step.op = "assign_identity" ->
            IF step.node \in Refs(browser) THEN Mapped(mirror, step.node, step.id) ELSE mirror
      [] step.op = "create" ->
            IF Landed(browser, mirror, step) # {} THEN mirror
            ELSE Mapped(Unmap(mirror, FindMirrorByCanonical(mirror, step.id)), new, step.id)
      [] step.op = "delete" ->
            LET held == Target(mirror, refs, step)
            IN  Unmap(mirror, IF held \in Refs(browser) THEN Below(browser, held) ELSE {held})
      [] OTHER -> mirror

\* verifyAppliedSteps finds no problem.
Verified(browser, mirror, steps) ==
    /\ \A i \in DOMAIN steps : steps[i].op # "delete" =>
            FindMirrorByCanonical(mirror, steps[i].id) \cap Refs(browser) # {}
    /\ DOMAIN mirror \subseteq Refs(browser)
=============================================================================
