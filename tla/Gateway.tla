------------------------------- MODULE Gateway -------------------------------
(***************************************************************************)
(* The ingest gateway: Ingest, with the coalescer of MergeCommit in front  *)
(* of the database.                                                        *)
(*                                                                         *)
(* Worker Watched has its coalescer in full: the requests it accepts reach *)
(* _execute_merge_batch only through the queue and the drainer, and are    *)
(* answered only through their futures.  The other workers share the       *)
(* database with it; of their coalescers only the interface is kept, some  *)
(* group of waiting requests at a time, and they may die.                  *)
(***************************************************************************)
EXTENDS Ingest

CONSTANTS
    Watched,    \* the worker whose coalescer is followed
    Elsewhere,  \* bound: the requests that may arrive at another worker
    CancelAt    \* the awaits at which its drainer may be cancelled

ASSUME GatewayAssumption ==
    /\ Watched \in Worker /\ Elsewhere \subseteq Req
    /\ CancelAt \subseteq {"created", "waiting", "running"}

VARIABLES
    queue, arrival, drainer, inflight, thread, future, waiter, closing, failed,
    closer, accepted, taken   \* as in MergeCommit

(* What the callback did for an item is what its group did for the request. *)
C == INSTANCE MergeCommit WITH
    Item <- Req, Effect <- {"hit", "miss", "error"},
    did <- [r \in Req |-> result[r].kind]

coalescerVars == <<queue, arrival, drainer, inflight, thread, future, waiter,
                   closing, failed, closer, accepted, taken>>
vars == <<ingestVars, coalescerVars>>

Init == IngestInit /\ C!Init

(***************************************************************************)
(* The watched worker                                                      *)
(***************************************************************************)

(* ingest() in submit(): the event is queued, or the closed door refuses it.*)
Submit(r) == Receive(r, Watched) /\ C!Submit(r)
TurnedAway(r) == Refused(r, Watched) /\ C!Refuse(r)

(* A group that the drainer hands to a thread of the pool is started there. *)
HandsOver ==
    IF thread'.end = "busy"
    THEN StartBatch(Watched, thread'.batch) ELSE UNCHANGED ingestVars

DrainerStarts == UNCHANGED result /\ C!DrainerStarts /\ HandsOver
DrainerWakes == UNCHANGED result /\ C!DrainerWakes /\ HandsOver
BatchReturns == UNCHANGED result /\ C!BatchReturns /\ HandsOver

(* wait_for runs out: the group is taken as it is. *)
DrainerTimesOut == DrainerWakes /\ thread'.end = "busy"

(* The callback ends with its list, or raises. *)
CallbackReturns == FinishBatch(Watched) /\ C!ExecuteBatch /\ thread'.end = "list"
CallbackRaises == BatchRaises(Watched) /\ C!ExecuteBatch /\ thread'.end = "raised"

(* submit() returns to ingest() with the outcome of the future. *)
Returns(r) == Resume(r, future[r]) /\ C!WaiterResumes(r)

(* The request's task is cancelled; the accepted item stays. *)
Detach(r) == Cancelled(r) /\ C!WaiterCancelled(r)

OnlyFault ==
    /\ Fault
    /\ UNCHANGED <<now, platform, dbVars, lock, batch, result, pc, home, read, answer>>

(* The end of the worker: its drainer is cancelled, or close() is called.   *)
DrainerCancelled == OnlyFault /\ C!DrainerCancelled
Shutdown == OnlyFault /\ C!Close
ShutdownReturns == UNCHANGED ingestVars /\ C!CloseReturns
ShutdownCancelled == UNCHANGED ingestVars /\ C!CloserCancelled

(***************************************************************************)
(* The other workers, and everything that is not the coalescer's           *)
(***************************************************************************)

(* Requests of w that wait for a group. *)
Waiting(w) == {r \in Req : home[r] = w /\ pc[r] = "queued" /\ result[r].kind = "none"
                             /\ r \notin Range(batch[w].items)}

StartGroup(w) ==
    /\ ~batch[w].on
    /\ \E n \in 1..BatchSize : \E items \in Injection(1..n, Waiting(w)) :
         StartBatch(w, items)
ResumeAny(w) == \E r \in Req : home[r] = w /\ Resume(r, result[r].kind)

(* What the event loop and the thread of another worker go on with. *)
GroupGoesOn(w) == StartGroup(w) \/ FinishBatch(w) \/ ResumeAny(w)

OtherWorker(w) ==
    \/ \E r \in Elsewhere : Receive(r, w)
    \/ GroupGoesOn(w) \/ BatchRaises(w) \/ Crash(w)

Database ==
    \/ \E w \in Worker : FusedStatement(w) \/ StatementFails(w)
    \/ \E r \in Req : \/ Refuse(r) \/ RejectPayload(r)
                     \/ Txn(r) \/ TxnFails(r) \/ CaseCloses(r)
    \/ PlatformChanges \/ Tick

Coalescer ==
    \/ \E r \in Req : Submit(r) \/ TurnedAway(r) \/ Returns(r) \/ Detach(r)
    \/ DrainerStarts \/ DrainerWakes \/ BatchReturns
    \/ CallbackReturns \/ CallbackRaises
    \/ DrainerCancelled \/ Shutdown \/ ShutdownReturns \/ ShutdownCancelled

Beside(A) == A /\ UNCHANGED coalescerVars

Next ==
    \/ Coalescer
    \/ Beside(Database)
    \/ \E w \in Worker \ {Watched} : Beside(OtherWorker(w))

(* Event loops run what is ready, wait_for times out, statements end or     *)
(* raise, and Temporal answers.  The steps under one WF are never enabled   *)
(* together, or run out.  PostgreSQL grants an advisory lock in the order   *)
(* in which it is asked for, hence the strong fairness.  Nobody has to send *)
(* an alert, cancel or close.                                               *)
Fairness ==
    /\ WF_vars(DrainerStarts \/ DrainerTimesOut \/ BatchReturns)
    /\ WF_vars(CallbackReturns \/ Beside(FusedStatement(Watched)))
    /\ WF_vars(ShutdownReturns)
    /\ \A w \in Worker \ {Watched} : WF_vars(Beside(FusedStatement(w) \/ GroupGoesOn(w)))
    /\ \A r \in Req : /\ WF_vars(Returns(r) \/ Beside(Txn(r)))
                       /\ SF_vars(Beside(AcquireLock(r)))

Spec == Init /\ [][Next]_vars /\ Fairness

(***************************************************************************)
(* Properties of the composition                                           *)
(***************************************************************************)

TypeOK == IngestTypeOK /\ C!TypeOK

(* FIFO: the candidates reach the database in the order in which submit()   *)
(* accepted them, until _fail_everything gives up on the ones still queued. *)
HandedInOrder == C!HandedInOrder

(* No lost wake-up: a drainer asleep beside a full group has an arrival     *)
(* that will wake it before its timeout.                                    *)
FullGroupWakes == C!FullGroupWakes

(* No item is stranded by the drainer's retirement, its cancellation or     *)
(* close(): one that waits is queued, or in the group of a live drainer.    *)
NobodyStranded == C!NobodyStranded

(* A waiter is told hit or miss only if the group's transaction did that    *)
(* for this very alert.                                                     *)
AnswersTrue == C!AnswersTrue

(* One group at a time: while a group is in the database the worker starts  *)
(* no other, also after a cancellation that left the thread running.        *)
OneGroupAtATime == C!OneGroupAtATime

(* The coalescer, on this database, implements AcceptedWork: every accepted *)
(* item is answered, and close() drains before it returns.                  *)
KeepsPromise == C!KeepsPromise
=============================================================================
