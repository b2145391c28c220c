------------------------------ MODULE OpLedger ------------------------------
(***************************************************************************)
(* What the user of a device is promised about its edits: each is taken    *)
(* down, answered once and in the order it was made, and forgotten by the  *)
(* device only when the state that answered it has arrived there.  How     *)
(* requests, rounds and receipts bring this about is SyncRound's business. *)
(***************************************************************************)
EXTENDS Integers

CONSTANTS MaxSeq, MaxRev

VARIABLES
    captured,   \* number of edits taken down so far
    answers,    \* edit -> the revision to reach before it may be forgotten
    applied,    \* the revision the device has reached
    forgotten,  \* edits the device no longer keeps
    stopped     \* the device has asked for recovery

ledgerVars == <<captured, answers, applied, forgotten, stopped>>

LedgerInit ==
    /\ captured = 0
    /\ answers = << >>
    /\ applied = 0
    /\ forgotten = {}
    /\ stopped = FALSE

TakeDown ==
    /\ captured < MaxSeq
    /\ captured' = captured + 1
    /\ UNCHANGED <<answers, applied, forgotten, stopped>>

\* Edits are answered one after the other; what the answer says is left open.
AnswerNext ==
    /\ \E s \in 1 .. captured, settle \in 0 .. MaxRev :
           /\ DOMAIN answers = 1 .. s - 1
           /\ answers' = [t \in 1 .. s |-> IF t = s THEN settle ELSE answers[t]]
    /\ UNCHANGED <<captured, applied, forgotten, stopped>>

Reach ==
    /\ ~stopped
    /\ applied' = applied + 1
    /\ UNCHANGED <<captured, answers, forgotten, stopped>>

Forget ==
    /\ ~stopped
    /\ \E S \in SUBSET (1 .. captured) :
           /\ \A s \in S : s \in DOMAIN answers /\ answers[s] <= applied
           /\ forgotten' = forgotten \cup S
    /\ UNCHANGED <<captured, answers, applied, stopped>>

Stop ==
    /\ stopped' = TRUE
    /\ UNCHANGED <<captured, answers, applied, forgotten>>

LedgerNext == TakeDown \/ AnswerNext \/ Reach \/ Forget \/ Stop

LedgerSpec == LedgerInit /\ [][LedgerNext]_ledgerVars
=============================================================================
