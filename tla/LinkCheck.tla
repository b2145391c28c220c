----------------------------- MODULE LinkCheck -----------------------------
(***************************************************************************)
(* The link check (src/server/internal/organizer, store/sqlite/linkcheck): *)
(* a run is a snapshot of the bookmarks of a space whose items are         *)
(* answered one by one by the handler of a job, so that the job can be     *)
(* interrupted and taken up again.                                         *)
(***************************************************************************)
EXTENDS JobQueue

CONSTANTS Nodes, Urls

\* A row of link_check_items: the URL it was seeded with, and the URL that was answered for.
Item == [url : Urls, answer : Urls \cup {None}]

\* What is read of a tree or of a run.
UrlMaps == UNION {[D -> Urls] : D \in SUBSET Nodes}

ASSUME NoneIsNoItem == None \notin Urls /\ None \notin Item

VARIABLES
    tree,      \* node -> its URL, None when it is no bookmark of the space
    items,     \* job -> node -> item of its run, or None
    finished,  \* the jobs whose run has a completion time
    check,     \* worker -> where its handler is
    starting   \* the request that starts a check, or None

checkVars == <<tree, items, finished, check, starting>>

Bookmarks == {n \in Nodes : tree[n] # None}

NotStarted == [at |-> "start", urls |-> [n \in {} |-> None]]

---------------------------------------------------------------------------
(* The run store *)

Snapshot == [n \in Bookmarks |-> tree[n]]

\* Mutant of Seeded: the row takes the newer URL.
SeededWithURL(run, urls) ==
    [n \in Nodes |-> IF n \notin DOMAIN urls THEN run[n]
                     ELSE [url |-> urls[n],
                           answer |-> IF run[n] = None THEN None ELSE run[n].answer]]

\* What is there stays.
Seeded(run, urls) ==
    [n \in Nodes |-> IF n \in DOMAIN urls /\ run[n] = None
                     THEN [url |-> urls[n], answer |-> None] ELSE run[n]]

Pending(run) == {n \in Nodes : run[n] # None /\ run[n].answer = None}

---------------------------------------------------------------------------
(* The tree and the request that starts a check *)

EditTree(n, url) ==
    /\ Asked /\ tree[n] # url
    /\ tree' = [tree EXCEPT ![n] = url]
    /\ UNCHANGED <<jobs, runner, up, outages, overran, items, finished, check, starting>>

\* StartLinkCheck: the job can be claimed before its run is seeded.
StartLinkCheck(j) ==
    /\ starting = None
    /\ Asked /\ Enqueue(j, None)
    /\ starting' = [job |-> j, urls |-> None]
    /\ UNCHANGED <<tree, items, finished, check>>

ReadForStart ==
    /\ starting # None /\ starting.urls = None
    /\ starting' = [starting EXCEPT !.urls = Snapshot]
    /\ UNCHANGED <<queueVars, tree, items, finished, check>>

SeedForStart ==
    /\ starting # None /\ starting.urls # None
    /\ items' = [items EXCEPT ![starting.job] = Seeded(@, starting.urls)]
    /\ starting' = None
    /\ UNCHANGED <<queueVars, tree, finished, check>>

---------------------------------------------------------------------------
(* The handler, CheckRun *)

ClaimCheck(w, j) ==
    /\ Claim(w, j)
    /\ check' = [check EXCEPT ![w] = NotStarted]
    /\ UNCHANGED <<tree, items, finished, starting>>

At(w, where) == ~Idle(w) /\ runner[w].phase = "handler" /\ check[w].at = where

ReadBookmarks(w) ==
    /\ At(w, "start")
    /\ check' = [check EXCEPT ![w] = [at |-> "read", urls |-> Snapshot]]
    /\ UNCHANGED <<queueVars, tree, items, finished, starting>>

SeedRun(w) ==
    /\ At(w, "read")
    /\ items' = [items EXCEPT ![runner[w].job] = Seeded(@, check[w].urls)]
    /\ check' = [check EXCEPT ![w].at = "seeded"]
    /\ UNCHANGED <<queueVars, tree, finished, starting>>

PendingItems(w) ==
    /\ At(w, "seeded")
    /\ LET run == items[runner[w].job]
       IN check' = [check EXCEPT ![w] = [at |-> "checking",
                                         urls |-> [n \in Pending(run) |-> run[n].url]]]
    /\ UNCHANGED <<queueVars, tree, items, finished, starting>>

\* Answers arrive in any order, some after the handler has been told to stop.
RecordResult(w, n) ==
    /\ At(w, "checking") /\ n \in DOMAIN check[w].urls
    /\ items' = [items EXCEPT ![runner[w].job][n] =
                    IF @ = None THEN None ELSE [@ EXCEPT !.answer = check[w].urls[n]]]
    /\ check' = [check EXCEPT ![w].urls = [m \in DOMAIN @ \ {n} |-> @[m]]]
    /\ UNCHANGED <<queueVars, tree, finished, starting>>

\* A stopped handler drops the items in flight and asks for another attempt.
Interrupted(w) ==
    /\ At(w, "checking") /\ runner[w].stop
    /\ HandlerEnds(w, "retry")
    /\ UNCHANGED checkVars

\* Mutant of AllAnswered: a stopped handler completes the run as well.
AllAnsweredOrStopped(w) == DOMAIN check[w].urls = {} \/ runner[w].stop

AllAnswered(w) == DOMAIN check[w].urls = {} /\ ~runner[w].stop

FinishRun(w) ==
    /\ At(w, "checking") /\ AllAnswered(w)
    /\ finished' = finished \cup {runner[w].job}
    /\ HandlerEnds(w, "ok")
    /\ UNCHANGED <<tree, items, check, starting>>

\* A read or write of the store fails: since the handler was told to stop, which is
\* resumable as long as no answer is being reported, or for good.
StoreFails(w) ==
    /\ ~Idle(w) /\ runner[w].phase = "handler"
    /\ \/ HandlerEnds(w, "error") /\ (runner[w].stop => check[w].at = "checking")
       \/ HandlerEnds(w, "retry") /\ runner[w].stop /\ check[w].at # "checking"
    /\ UNCHANGED checkVars

---------------------------------------------------------------------------

\* A request dies with the process; a process that is started has none.
NewProcess ==
    /\ Crash \/ Start
    /\ starting' = None
    /\ UNCHANGED <<tree, items, finished, check>>

CheckInit ==
    /\ QueueInit
    /\ tree \in [Nodes -> Urls]
    /\ items = [j \in JobIds |-> [n \in Nodes |-> None]]
    /\ finished = {}
    /\ check = [w \in Workers |-> NotStarted]
    /\ starting = None

HandlerStep(w) ==
    \/ ReadBookmarks(w) \/ SeedRun(w) \/ PendingItems(w)
    \/ (\E n \in Nodes : RecordResult(w, n))
    \/ Interrupted(w) \/ FinishRun(w)

\* What a link check does, and the queue beside it, except for new jobs and processes.
CheckStep ==
    \/ \E w \in Workers : HandlerStep(w) \/ StoreFails(w) \/ (\E j \in JobIds : ClaimCheck(w, j))
    \/ \E n \in Nodes, url \in Urls \cup {None} : EditTree(n, url)
    \/ ReadForStart \/ SeedForStart
    \/ (QueueStep \/ Stop) /\ UNCHANGED checkVars

CheckNext ==
    \/ CheckStep
    \/ \E j \in JobIds : StartLinkCheck(j)
    \/ NewProcess

---------------------------------------------------------------------------
(* Properties *)

\* Types of the tree, of the rows of runs, and of what handlers and requests hold.
CheckTypeOK ==
    /\ tree \in [Nodes -> Urls \cup {None}]
    /\ items \in [JobIds -> [Nodes -> Item \cup {None}]]
    /\ finished \subseteq JobIds
    /\ check \in [Workers -> [at : {"start", "read", "seeded", "checking"}, urls : UrlMaps]]
    /\ starting # None => starting \in [job : JobIds, urls : UrlMaps \cup {None}]

\* An answer is about the URL its item shows, whoever seeded the run when (SeedRun by the
\* request and by any number of attempts, from different states of the tree).
AnswersForTheirURL ==
    \A j \in JobIds, n \in Nodes :
        items[j][n] # None /\ items[j][n].answer # None => items[j][n].answer = items[j][n].url

\* What one attempt has learned the next ones keep: an item that is answered stays as
\* it is ("resume instead of start over").
AnswersStay ==
    [][\A j \in JobIds, n \in Nodes :
          items[j][n] # None /\ items[j][n].answer # None => items'[j][n] = items[j][n]]_checkVars

\* The run of a scheduled job that succeeded is complete and has its completion time, however
\* often it was interrupted, and whoever else seeded it.  (A run begun by a request may not be:
\* the request can add items to the finished run.)
ScheduledRunComplete ==
    ~overran => \A j \in JobIds :
        jobs[j].status = "succeeded" /\ jobs[j].slot # None =>
            j \in finished /\ Pending(items[j]) = {}

\* "FinishRun stamps the completion time of a run that checked everything" (the store's
\* comment).  Not so after a crash between the stamp and the end of the job: the next attempt
\* adds what has come since.
FinishedRunComplete ==
    ~overran => \A j \in finished : jobs[j].slot # None => Pending(items[j]) = {}
=============================================================================
