----------------------------- MODULE MergeCommit -----------------------------
(***************************************************************************)
(* The commit coalescer of one ingest-gateway worker, merge_commit.py: a   *)
(* FIFO queue, one drainer task and the thread that runs a group in the    *)
(* database.                                                               *)
(*                                                                         *)
(* Everything but that thread runs on one event loop, so the code between  *)
(* two awaits is one action.  None of the sections under self._lock awaits *)
(* anything: the lock is free whenever it is asked for, and taking it      *)
(* yields to nobody.  What time it is is left open: the oldest candidate's *)
(* deadline may have passed whenever it is looked at.  Module Gateway puts *)
(* this coalescer in front of the database and checks the two together.    *)
(***************************************************************************)
EXTENDS Naturals, Sequences, Functions

CONSTANTS
    Item,       \* candidates, one per submit()
    BatchSize,  \* MERGE_COMMIT_BATCH_SIZE
    Effect,     \* what the callback can do for an item: "hit", "miss", "error"
    CancelAt    \* the awaits, of Live, at which the drainer may be cancelled

Live == {"created", "waiting", "running"}
DrainerState == Live \cup {"none", "dead"}
Outcome == {"hit", "miss", "error"}

VARIABLES
    queue,      \* self._queue
    arrival,    \* self._arrival
    drainer,    \* self._drainer and the await it is suspended at; "dead" is a
                \* task that ended with its slot still set
    inflight,   \* self._inflight
    thread,     \* the group in the threadpool, and how its callback ended
    did,        \* per item: what the callback did for it
    future,     \* per item: its future, "none" before it is accepted
    waiter,     \* per item: the request handler inside submit()
    closing,    \* self._closing
    failed,     \* self._failure is set
    closer,     \* the worker's shutdown inside close()
    accepted,   \* history: the accepted items, in order
    taken       \* history: the items handed to the callback, in order

loopVars == <<queue, arrival, drainer, inflight, thread, taken>>
vars == <<loopVars, did, future, waiter, closing, failed, closer, accepted>>

TypeOK ==
    /\ queue \in Seq(Item) /\ arrival \in BOOLEAN /\ drainer \in DrainerState
    /\ inflight \in Seq(Item) /\ Len(inflight) <= BatchSize
    /\ thread \in [batch : Seq(Item),
                   end : {"idle", "busy", "list", "short", "raised"}]
    /\ did \in [Item -> Outcome \cup {"none"}]
    /\ future \in [Item -> Outcome \cup {"none", "pending"}]
    /\ waiter \in [Item -> {"idle", "waiting", "answered", "refused", "detached"}]
    /\ closing \in BOOLEAN /\ failed \in BOOLEAN
    /\ closer \in {"idle", "closing", "returned", "cancelled"}
    /\ accepted \in Seq(Item) /\ taken \in Seq(Item)

Init ==
    /\ queue = <<>> /\ arrival = FALSE /\ drainer = "none" /\ inflight = <<>>
    /\ thread = [batch |-> <<>>, end |-> "idle"]
    /\ did = [e \in Item |-> "none"] /\ future = [e \in Item |-> "none"]
    /\ waiter = [e \in Item |-> "idle"]
    /\ closing = FALSE /\ failed = FALSE /\ closer = "idle"
    /\ accepted = <<>> /\ taken = <<>>

(***************************************************************************)
(* submit()                                                                *)
(***************************************************************************)

EnsureDrainer == IF drainer = "none" THEN "created" ELSE drainer

(* Up to the await of the shielded future. *)
Submit(e) ==
    /\ waiter[e] = "idle" /\ ~closing
    /\ queue' = Append(queue, e) /\ accepted' = Append(accepted, e)
    /\ arrival' = TRUE
    /\ drainer' = EnsureDrainer
    /\ future' = [future EXCEPT ![e] = "pending"]
    /\ waiter' = [waiter EXCEPT ![e] = "waiting"]
    /\ UNCHANGED <<inflight, thread, taken, did, closing, failed, closer>>

(* _refuse_if_closed raises. *)
Refuse(e) ==
    /\ waiter[e] = "idle" /\ closing
    /\ waiter' = [waiter EXCEPT ![e] = "refused"]
    /\ UNCHANGED <<loopVars, did, future, closing, failed, closer, accepted>>

WaiterResumes(e) ==
    /\ waiter[e] = "waiting" /\ future[e] # "pending"
    /\ waiter' = [waiter EXCEPT ![e] = "answered"]
    /\ UNCHANGED <<loopVars, did, future, closing, failed, closer, accepted>>

(* The request is cancelled: the shield keeps the future, and with it the   *)
(* accepted item.                                                           *)
WaiterCancelled(e) ==
    /\ waiter[e] = "waiting"
    /\ waiter' = [waiter EXCEPT ![e] = "detached"]
    /\ UNCHANGED <<loopVars, did, future, closing, failed, closer, accepted>>

(***************************************************************************)
(* The drainer                                                             *)
(***************************************************************************)

(* Futures that are done already keep what they have. *)
Resolve(batch, answer) ==
    [e \in Item |-> IF e \in Range(batch) /\ future[e] = "pending"
                    THEN answer[e] ELSE future[e]]

Idle == [batch |-> <<>>, end |-> "idle"]

(* The newest candidates are taken instead of the oldest. *)
GroupNewest ==
    LET n == IF Len(queue) < BatchSize THEN Len(queue) ELSE BatchSize
    IN  <<SubSeq(queue, Len(queue) - n + 1, Len(queue)),
          SubSeq(queue, 1, Len(queue) - n)>>

(* The oldest candidates, one too many of them. *)
GroupTooLarge ==
    LET n == IF Len(queue) <= BatchSize THEN Len(queue) ELSE BatchSize + 1
    IN  <<SubSeq(queue, 1, n), SubSeq(queue, n + 1, Len(queue))>>

(* The oldest candidates, BatchSize at most, and what is left of the queue. *)
Group ==
    LET n == IF Len(queue) < BatchSize THEN Len(queue) ELSE BatchSize
    IN  <<SubSeq(queue, 1, n), SubSeq(queue, n + 1, Len(queue))>>

(* The group leaves the queue for a thread of the pool. *)
TakeGroup ==
    /\ drainer' = "running"
    /\ inflight' = Group[1] /\ queue' = Group[2]
    /\ taken' = taken \o Group[1]
    /\ thread' = [batch |-> Group[1], end |-> "busy"]
    /\ UNCHANGED arrival

(* The event is cleared and the length is not looked at again. *)
AwaitGroupUnchecked ==
    /\ drainer' = "waiting" /\ arrival' = FALSE
    /\ inflight' = <<>> /\ thread' = Idle
    /\ UNCHANGED <<queue, taken>>

(* _await_group goes to sleep only after clearing the event and finding the *)
(* group short of BatchSize.                                                *)
AwaitGroup ==
    /\ Len(queue) < BatchSize
    /\ drainer' = "waiting" /\ arrival' = FALSE
    /\ inflight' = <<>> /\ thread' = Idle
    /\ UNCHANGED <<queue, taken>>

(* One turn of _drain_loop, up to its next await.  A group that is not full *)
(* is taken at once when its deadline is past.                              *)
LoopTurn ==
    \/ /\ queue = <<>> /\ drainer' = "none"
       /\ inflight' = <<>> /\ thread' = Idle
       /\ UNCHANGED <<queue, arrival, taken>>
    \/ queue # <<>> /\ TakeGroup
    \/ queue # <<>> /\ AwaitGroup

DrainerStarts ==
    /\ drainer = "created" /\ LoopTurn
    /\ UNCHANGED <<did, future, waiter, closing, failed, closer, accepted>>

(* _await_group is woken by an arrival, by close() or by its timeout; after *)
(* a timeout the group is taken as it is.                                   *)
DrainerWakes ==
    /\ drainer = "waiting"
    /\ TakeGroup \/ (arrival /\ AwaitGroup)
    /\ UNCHANGED <<did, future, waiter, closing, failed, closer, accepted>>

(* The callback in its thread, external to this module: it does something   *)
(* for every item and then answers with a list, with a list of the wrong    *)
(* length, or by raising.                                                   *)
ExecuteBatch ==
    /\ thread.end = "busy"
    /\ \E r \in [Range(thread.batch) -> Effect] :
          did' = [e \in Item |-> IF e \in DOMAIN r THEN r[e] ELSE did[e]]
    /\ \E end \in {"list", "short", "raised"} : thread' = [thread EXCEPT !.end = end]
    /\ UNCHANGED <<queue, arrival, drainer, inflight, taken, future, waiter,
                   closing, failed, closer, accepted>>

(* A group that failed as a whole is reported as a group of misses. *)
AnswerFailedAsMiss(e) == IF thread.end = "list" THEN did[e] ELSE "miss"

(* Each item's own outcome, or a failure of the whole group. *)
Answer(e) == IF thread.end = "list" THEN did[e] ELSE "error"

(* _run_batch resolves the group, and _drain_loop goes on. *)
BatchReturns ==
    /\ drainer = "running" /\ thread.end \in {"list", "short", "raised"}
    /\ future' = Resolve(inflight, [e \in Item |-> Answer(e)])
    /\ LoopTurn
    /\ UNCHANGED <<did, waiter, closing, failed, closer, accepted>>

(* The members already taken off the queue are forgotten. *)
StrandedQueue == queue

(* _fail_everything resolves the group in flight and all that is queued. *)
Stranded == inflight \o queue

(* Admission goes on after the failure. *)
FailEverythingStillOpen ==
    /\ failed' = TRUE /\ drainer' = "none"
    /\ future' = Resolve(Stranded, [e \in Item |-> "error"])
    /\ inflight' = <<>> /\ queue' = <<>>
    /\ UNCHANGED <<arrival, thread, taken, did, waiter, closing, closer, accepted>>

FailEverything ==
    /\ failed' = TRUE /\ closing' = TRUE /\ drainer' = "none"
    /\ future' = Resolve(Stranded, [e \in Item |-> "error"])
    /\ inflight' = <<>> /\ queue' = <<>>
    /\ UNCHANGED <<arrival, thread, taken, did, waiter, closer, accepted>>

(* The drainer is cancelled, or its loop raises.  The thread goes on.  A    *)
(* task cancelled before its first step never enters _drain, so that no     *)
(* handler runs and the slot keeps the dead task.                           *)
DrainerCancelled ==
    /\ drainer \in CancelAt
    /\ IF drainer = "created"
       THEN /\ drainer' = "dead"
            /\ UNCHANGED <<queue, arrival, inflight, thread, taken, did, future,
                           waiter, closing, failed, closer, accepted>>
       ELSE FailEverything

(***************************************************************************)
(* close()                                                                 *)
(***************************************************************************)

(* close() does not look at what is still in the hands of the drainer. *)
CloseEarly ==
    /\ closer = "idle"
    /\ closing' = TRUE /\ arrival' = TRUE
    /\ closer' = IF queue = <<>> THEN "returned" ELSE "closing"
    /\ UNCHANGED <<queue, drainer, inflight, thread, taken, did, future, waiter,
                   failed, accepted>>

Close ==
    /\ closer = "idle"
    /\ closing' = TRUE /\ arrival' = TRUE
    /\ closer' = IF drainer = "none" THEN "returned" ELSE "closing"
    /\ UNCHANGED <<queue, drainer, inflight, thread, taken, did, future, waiter,
                   failed, accepted>>

(* The drainer that close() awaits has ended, by itself or cancelled. *)
CloseReturns ==
    /\ closer = "closing" /\ drainer \in {"none", "dead"}
    /\ closer' = "returned"
    /\ UNCHANGED <<loopVars, did, future, waiter, closing, failed, accepted>>

(* A cancelled caller of close() is not masked. *)
CloserCancelled ==
    /\ closer = "closing" /\ closer' = "cancelled"
    /\ UNCHANGED <<loopVars, did, future, waiter, closing, failed, accepted>>

(***************************************************************************)
(* The specification                                                       *)
(***************************************************************************)

Request(e) == Submit(e) \/ Refuse(e) \/ WaiterResumes(e) \/ WaiterCancelled(e)

Next ==
    \/ \E e \in Item : Request(e)
    \/ DrainerStarts \/ DrainerWakes \/ ExecuteBatch \/ BatchReturns
    \/ DrainerCancelled \/ Close \/ CloseReturns \/ CloserCancelled

Spec == Init /\ [][Next]_vars

(***************************************************************************)
(* Properties                                                              *)
(***************************************************************************)

(* FIFO: the candidates reach the database in the order in which submit()   *)
(* accepted them, each at most once and none left out, until                *)
(* _fail_everything gives up on the ones still queued.                      *)
HandedInOrder == ~failed => accepted = taken \o queue

(* An answer is the item's own: a waiter is told hit or miss only if the    *)
(* callback did that for this very event, whatever the group's other        *)
(* members and the shape of the callback's answer.                          *)
AnswersTrue ==
    \A e \in Item : future[e] \in {"hit", "miss"} => future[e] = did[e]

(* No lost wake-up: a drainer asleep beside a full group has an arrival     *)
(* that will wake it before its timeout.                                    *)
FullGroupWakes ==
    drainer = "waiting" /\ Len(queue) >= BatchSize => arrival

(* No item is stranded: one that waits for its outcome is in the queue or   *)
(* in the group of a drainer that still runs.  The drainer's retirement,    *)
(* its cancellation and close() are where it could go wrong.                *)
NobodyStranded ==
    \A e \in Item : future[e] = "pending" =>
        /\ e \in Range(queue) \cup Range(inflight)
        /\ drainer \in Live

(* One group at a time: while a group is in the database no drainer starts  *)
(* another, also after a cancellation that left the thread running.         *)
OneGroupAtATime ==
    [][thread.end = "busy" => thread'.batch = thread.batch]_vars

(* The promise of AcceptedWork, seen in the coalescer's own state. *)
Promise == INSTANCE AcceptedWork WITH
    work <- [e \in Item |->
               IF waiter[e] = "refused" THEN "refused"
               ELSE IF future[e] = "none" THEN "new"
               ELSE IF future[e] = "pending" THEN "accepted" ELSE "answered"],
    doors <- IF closing THEN "shut" ELSE "open"

(* The coalescer implements AcceptedWork: it answers every accepted item,   *)
(* and close() drains before it returns.                                    *)
KeepsPromise == Promise!Spec
=============================================================================
