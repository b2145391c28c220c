----------------------------- MODULE MCLibrary -----------------------------
(* A library of two spaces for TLC: one holds a folder with a bookmark, the *)
(* other is empty.  MCBudget says how many change sets a behaviour may      *)
(* write, by the operation it uses.                                         *)
EXTENDS Library
CONSTANTS s1, s2, bar, t1, u1

MCNodeIds == 1 .. 6
MCFewIds == 1 .. 3

Node(type, title, url, parent, pos) ==
    [type |-> type, title |-> title, url |-> url, parent |-> parent, pos |-> pos]

MCStart ==
    s1 :> <<Node("folder", t1, None, bar, 0), Node("bookmark", t1, u1, 1, 0)>> @@ s2 :> <<>>

MCBudget == "none" :> 3 @@ "import" :> 2 @@ "publication" :> 2 @@ "transfer" :> 3
            @@ "link check" :> 3
MCUndoOnly == "none" :> 4
=============================================================================
