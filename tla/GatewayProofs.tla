---------------------------- MODULE GatewayProofs ----------------------------
(***************************************************************************)
(* The safety of the ingest gateway, for any number of requests, workers   *)
(* and slots, any group size and any bounds: the coalescer of the watched  *)
(* worker and the database, together.                                      *)
(*                                                                         *)
(* CoalescerProofs has an inductive invariant of the coalescer beside any  *)
(* database that leaves its items alone, IngestProofs one of the database  *)
(* under any coalescer that starts groups of waiting requests and hands on *)
(* the outcomes they had.  LinkInv is what makes each of them right about  *)
(* the other.                                                              *)
(***************************************************************************)
EXTENDS Gateway, IngestProofs

P == INSTANCE CoalescerProofs WITH
    Item <- Req, Effect <- {"hit", "miss", "error"},
    did <- [r \in Req |-> result[r].kind]

(* The batch of the watched worker is the group in its thread; what is      *)
(* queued waits for a group; the futures are those of its own requests.     *)
LinkInv ==
    /\ \A r \in Req : /\ pc[r] = "new" => waiter[r] = "idle"
                      /\ future[r] # "none" => home[r] = Watched
    /\ batch[Watched].on <=> thread.end = "busy"
    /\ thread.end = "busy" => /\ batch[Watched].items = thread.batch
                              /\ Range(queue) \cap Range(thread.batch) = {}
    /\ \A e \in Range(queue) : result[e].kind = "none" /\ pc[e] \in {"queued", "gone"}

GatewayInv == IngestInv /\ P!CoalescerInv /\ LinkInv

LEMMA CoalescerConfigured == P!Configured
BY IngestAssumption, GatewayAssumption, Zenon DEF P!Configured, P!Outcome, P!Live

LEMMA SameRange == \A s : C!Range(s) = Range(s) /\ P!Range(s) = Range(s)
BY Zenon DEF C!Range, P!Range, Range

(* The coalescer of Gateway is the one of CoalescerProofs. *)
LEMMA SameRequests ==
    ASSUME NEW r \in Req
    PROVE  /\ C!Submit(r) <=> P!Submit(r)
           /\ C!Refuse(r) <=> P!Refuse(r)
           /\ C!WaiterResumes(r) <=> P!WaiterResumes(r)
           /\ C!WaiterCancelled(r) <=> P!WaiterCancelled(r)
<1>1. C!Submit(r) <=> P!Submit(r)
  BY Zenon DEF C!Submit, P!Submit, C!EnsureDrainer, P!EnsureDrainer
<1>2. C!Refuse(r) <=> P!Refuse(r)
  BY Zenon DEF C!Refuse, P!Refuse, C!loopVars, P!loopVars
<1>3. C!WaiterResumes(r) <=> P!WaiterResumes(r)
  BY Zenon DEF C!WaiterResumes, P!WaiterResumes, C!loopVars, P!loopVars
<1>4. C!WaiterCancelled(r) <=> P!WaiterCancelled(r)
  BY Zenon DEF C!WaiterCancelled, P!WaiterCancelled, C!loopVars, P!loopVars
<1>. QED
  BY <1>1, <1>2, <1>3, <1>4, Zenon

LEMMA SameLoop ==
    /\ C!DrainerStarts <=> P!DrainerStarts
    /\ C!DrainerWakes <=> P!DrainerWakes
    /\ C!BatchReturns <=> P!BatchReturns
<1>1. C!Group = P!Group /\ C!Idle = P!Idle
  BY Zenon DEF C!Group, P!Group, C!Idle, P!Idle
<1>2. (C!TakeGroup <=> P!TakeGroup) /\ (C!AwaitGroup <=> P!AwaitGroup)
  BY <1>1, Zenon DEF C!TakeGroup, P!TakeGroup, C!AwaitGroup, P!AwaitGroup
<1>3. C!LoopTurn <=> P!LoopTurn
  BY <1>1, <1>2, Zenon DEF C!LoopTurn, P!LoopTurn
<1>4. C!Resolve(inflight, [e \in Req |-> C!Answer(e)])
      = P!Resolve(inflight, [e \in Req |-> P!Answer(e)])
  BY SameRange, Zenon DEF C!Resolve, P!Resolve, C!Answer, P!Answer
<1>5. (C!DrainerStarts <=> P!DrainerStarts) /\ (C!DrainerWakes <=> P!DrainerWakes)
  BY <1>2, <1>3, Zenon
  DEF C!DrainerStarts, P!DrainerStarts, C!DrainerWakes, P!DrainerWakes
<1>6. C!BatchReturns <=> P!BatchReturns
  BY <1>3, <1>4, Zenon DEF C!BatchReturns, P!BatchReturns
<1>. QED
  BY <1>5, <1>6, Zenon

LEMMA SameEnds ==
    /\ C!ExecuteBatch <=> P!ExecuteBatch
    /\ C!DrainerCancelled <=> P!DrainerCancelled
    /\ C!Close <=> P!Close
    /\ C!CloseReturns <=> P!CloseReturns
    /\ C!CloserCancelled <=> P!CloserCancelled
<1>1. C!ExecuteBatch <=> P!ExecuteBatch
  <2>1. C!Range(thread.batch) = P!Range(thread.batch)
    BY SameRange, Zenon
  <2>. QED
    BY <2>1, Zenon DEF C!ExecuteBatch, P!ExecuteBatch
<1>2. C!DrainerCancelled <=> P!DrainerCancelled
  <2>1. C!Resolve(C!Stranded, [e \in Req |-> "error"])
        = P!Resolve(P!Stranded, [e \in Req |-> "error"])
    BY SameRange, Zenon DEF C!Resolve, P!Resolve, C!Stranded, P!Stranded
  <2>2. C!FailEverything <=> P!FailEverything
    BY <2>1, Zenon DEF C!FailEverything, P!FailEverything
  <2>. QED
    BY <2>2, Zenon DEF C!DrainerCancelled, P!DrainerCancelled
<1>3. (C!Close <=> P!Close) /\ (C!CloseReturns <=> P!CloseReturns)
      /\ (C!CloserCancelled <=> P!CloserCancelled)
  BY Zenon DEF C!Close, P!Close, C!CloseReturns, P!CloseReturns, C!CloserCancelled,
     P!CloserCancelled, C!loopVars, P!loopVars
<1>. QED
  BY <1>1, <1>2, <1>3, Zenon

LEMMA GatewayInit == Init => GatewayInv
<1>. SUFFICES ASSUME Init PROVE GatewayInv
  BY Zenon
<1>1. IngestInv
  BY IngestInitInv, Zenon DEF Init
<1>2. P!CoalescerInv
  <2>1. P!Init
    BY Zenon DEF Init, C!Init, P!Init
  <2>. QED
    BY <2>1, CoalescerConfigured, P!InitCoalescer, Zenon
<1>3. LinkInv
  BY EmptyRange, GatewayAssumption, Zenon DEF Init, IngestInit, C!Init, LinkInv, NoBatch
<1>. QED
  BY <1>1, <1>2, <1>3, Zenon DEF GatewayInv

(***************************************************************************)
(* What the two invariants say of each other's state                       *)
(***************************************************************************)

LEMMA CoalescerFacts ==
    ASSUME P!CoalescerInv
    PROVE  /\ future \in [Req -> Outcome \cup {"none", "pending"}]
           /\ waiter \in [Req -> {"idle", "waiting", "answered", "refused", "detached"}]
           /\ thread \in [batch : Seq(Req),
                          end : {"idle", "busy", "list", "short", "raised"}]
           /\ queue \in Seq(Req) /\ Range(queue) \subseteq Req
           /\ Range(thread.batch) \subseteq Req
           /\ Range(queue) \cap Range(inflight) = {}
           /\ \A e \in Range(queue) : future[e] = "pending"
           /\ \A r \in Req : future[r] = "none" <=> waiter[r] \in {"idle", "refused"}
           /\ \A r \in Req : future[r] \in {"hit", "miss"} => future[r] = result[r].kind
           /\ thread.end = "busy" => drainer \in {"running", "none"}
           /\ thread.end = "busy" =>
                 \A e \in Range(thread.batch) : future[e] \in {"pending", "error"}
<1>1. /\ future \in [Req -> Outcome \cup {"none", "pending"}]
      /\ waiter \in [Req -> {"idle", "waiting", "answered", "refused", "detached"}]
      /\ queue \in Seq(Req)
      /\ thread \in [batch : Seq(Req), end : {"idle", "busy", "list", "short", "raised"}]
  BY Zenon DEF P!CoalescerInv, P!TypeOK, P!Outcome, Outcome
<1>2. Range(queue) \subseteq Req /\ Range(thread.batch) \subseteq Req
  BY <1>1 DEF Range
<1>3. /\ Range(queue) \cap Range(inflight) = {}
      /\ \A e \in Range(queue) : future[e] = "pending"
  BY SameRange, Zenon DEF P!CoalescerInv, P!Members
<1>4. /\ \A r \in Req : future[r] = "none" <=> waiter[r] \in {"idle", "refused"}
      /\ \A r \in Req : future[r] \in {"hit", "miss"} => future[r] = result[r].kind
  BY Zenon DEF P!CoalescerInv, P!Futures, P!AnswersTrue
<1>5. thread.end = "busy" =>
         /\ drainer \in {"running", "none"}
         /\ \A e \in Range(thread.batch) : future[e] \in {"pending", "error"}
  BY SameRange, Zenon DEF P!CoalescerInv, P!Running
<1>. QED
  BY <1>1, <1>2, <1>3, <1>4, <1>5, Zenon

(* A step of the drainer finds the thread free, and leaves in the queue and *)
(* in the group only what was queued.                                       *)
LEMMA DrainerTurn ==
    ASSUME GatewayInv, C!DrainerStarts \/ C!DrainerWakes \/ C!BatchReturns
    PROVE  /\ thread.end # "busy" /\ UNCHANGED waiter
           /\ Range(queue') \cup Range(inflight') = Range(queue)
           /\ Range(queue') \cap Range(inflight') = {}
           /\ inflight' \in Seq(Req) /\ Len(inflight') <= BatchSize
           /\ IsInjective(inflight')
           /\ thread'.end \in {"idle", "busy"}
           /\ thread'.end = "busy" => thread'.batch = inflight'
<1>1. P!DrainerStarts \/ P!DrainerWakes \/ P!BatchReturns
  BY SameLoop, Zenon
<1>2. /\ UNCHANGED <<accepted, failed, waiter>>
      /\ P!LoopTurn \/ P!TakeGroup \/ P!AwaitGroup
      /\ drainer \in {"created", "waiting"}
         \/ (drainer = "running" /\ thread.end \in {"list", "short", "raised"})
  BY <1>1, Zenon DEF P!DrainerStarts, P!DrainerWakes, P!BatchReturns
<1>3. thread.end # "busy"
  BY <1>2, CoalescerFacts, Zenon DEF GatewayInv
<1>4. P!Configured /\ P!TypeOK /\ P!Members /\ P!HandedInOrder
  BY CoalescerConfigured, Zenon DEF GatewayInv, P!CoalescerInv
<1>5. /\ inflight' \in Seq(Req) /\ Len(inflight') <= BatchSize
      /\ P!Range(queue') \cap P!Range(inflight') = {}
      /\ P!Range(queue') \cup P!Range(inflight') = P!Range(queue)
      /\ drainer' # "running" => thread' = P!Idle
      /\ drainer' = "running" => thread' = [batch |-> inflight', end |-> "busy"]
  BY <1>2, <1>4, P!TurnOfTheLoop, Zenon
<1>6. P!IsInjective(inflight)'
  BY <1>2, <1>4, P!TurnOfTheLoop, Zenon
<1>7. IsInjective(inflight')
  BY <1>6, Zenon DEF P!IsInjective, IsInjective
<1>. QED
  BY <1>2, <1>3, <1>5, <1>7, SameRange DEF P!Idle

(***************************************************************************)
(* A step of the gateway is a step of each part                            *)
(***************************************************************************)

LEMMA CoalescerIsNext == ASSUME Coalescer PROVE P!Next
<1>1. ASSUME NEW r \in Req, Submit(r) \/ TurnedAway(r) \/ Returns(r) \/ Detach(r)
      PROVE  P!Next
  <2>1. P!Request(r)
    BY <1>1, SameRequests, Zenon DEF Submit, TurnedAway, Returns, Detach, P!Request
  <2>. QED
    BY <2>1, Zenon DEF P!Next
<1>2. CASE DrainerStarts \/ DrainerWakes \/ BatchReturns
  BY <1>2, SameLoop, Zenon DEF DrainerStarts, DrainerWakes, BatchReturns, P!Next
<1>3. CASE CallbackReturns \/ CallbackRaises \/ DrainerCancelled
  BY <1>3, SameEnds, Zenon DEF CallbackReturns, CallbackRaises, DrainerCancelled, P!Next
<1>4. CASE Shutdown \/ ShutdownReturns \/ ShutdownCancelled
  BY <1>4, SameEnds, Zenon DEF Shutdown, ShutdownReturns, ShutdownCancelled, P!Next
<1>. QED
  BY <1>1, <1>2, <1>3, <1>4, Zenon DEF Coalescer

(* The coalescer starts groups of waiting requests, and hands on what they  *)
(* had.                                                                     *)
LEMMA CoalescerInIngest == ASSUME GatewayInv, Coalescer PROVE IngestStep
<1>1. Watched \in Worker
  BY GatewayAssumption, Zenon
<1>2. ASSUME NEW r \in Req, Submit(r) \/ TurnedAway(r) \/ Detach(r) PROVE HandlerStep(r)
  BY <1>1, <1>2, Zenon DEF Submit, TurnedAway, Detach, HandlerStep
<1>3. ASSUME NEW r \in Req, Returns(r) PROVE HandlerStep(r)
  <2>1. future[r] \in Outcome \cup {"none", "pending"} /\ Honest(r, future[r])
    BY CoalescerFacts, Zenon DEF GatewayInv, Honest
  <2>2. Resume(r, future[r])
    BY <1>3, Zenon DEF Returns
  <2>. QED
    BY <2>1, <2>2, Zenon DEF HandlerStep
<1>4. CASE DrainerStarts \/ DrainerWakes \/ BatchReturns
  <2>1. HandsOver /\ (C!DrainerStarts \/ C!DrainerWakes \/ C!BatchReturns)
    BY <1>4, Zenon DEF DrainerStarts, DrainerWakes, BatchReturns
  <2>2. CASE thread'.end = "busy"
    <3>1. /\ thread.end # "busy" /\ thread'.batch = inflight'
          /\ Range(inflight') \subseteq Range(queue)
          /\ inflight' \in Seq(Req) /\ Len(inflight') <= BatchSize
          /\ IsInjective(inflight')
      BY <2>1, <2>2, DrainerTurn, Zenon
    <3>2. \A e \in Range(queue) : e \in Req /\ future[e] = "pending"
      BY CoalescerFacts, Zenon DEF GatewayInv
    <3>3. /\ ~batch[Watched].on
          /\ \A e \in Range(queue) : /\ home[e] = Watched /\ result[e].kind = "none"
                                     /\ pc[e] \in {"queued", "gone"}
      BY <3>1, <3>2, Zenon DEF GatewayInv, LinkInv
    <3>4. Fresh(Watched, thread'.batch) /\ thread'.batch \in Seq(Req)
      BY <3>1, <3>3, Zenon DEF Fresh
    <3>5. GroupStep(Watched)
      BY <2>1, <2>2, <3>4, Zenon DEF HandsOver, GroupStep
    <3>. QED
      BY <1>1, <3>5, Zenon DEF IngestStep
  <2>3. CASE thread'.end # "busy"
    BY <2>1, <2>3, Zenon DEF HandsOver, IngestStep
  <2>. QED
    BY <2>2, <2>3, Zenon
<1>5. CASE CallbackReturns \/ CallbackRaises
  <2>1. GroupStep(Watched)
    BY <1>5, Zenon DEF CallbackReturns, CallbackRaises, GroupStep
  <2>. QED
    BY <1>1, <2>1, Zenon DEF IngestStep
<1>6. CASE DrainerCancelled \/ Shutdown \/ ShutdownReturns \/ ShutdownCancelled
  BY <1>6, Zenon
  DEF DrainerCancelled, Shutdown, ShutdownReturns, ShutdownCancelled, OnlyFault, OnlyFaults,
      IngestStep
<1>. QED
  BY <1>2, <1>3, <1>4, <1>5, <1>6, Zenon DEF Coalescer, IngestStep

LEMMA DatabaseInIngest == ASSUME Database PROVE IngestStep
<1>1. ASSUME NEW w \in Worker, FusedStatement(w) \/ StatementFails(w) PROVE GroupStep(w)
  BY <1>1, Zenon DEF GroupStep
<1>2. ASSUME NEW r \in Req, Refuse(r) \/ RejectPayload(r) \/ Txn(r) \/ TxnFails(r)
      PROVE  HandlerStep(r)
  BY <1>2, Zenon DEF HandlerStep
<1>. QED
  BY <1>1, <1>2, Zenon DEF Database, IngestStep

LEMMA OthersInIngest ==
    ASSUME GatewayInv, NEW w \in Worker, OtherWorker(w) PROVE IngestStep
<1>1. ASSUME NEW r \in Elsewhere, Receive(r, w) PROVE r \in Req /\ HandlerStep(r)
  BY <1>1, GatewayAssumption, Zenon DEF HandlerStep
<1>2. ASSUME NEW r \in Req, Resume(r, result[r].kind) PROVE HandlerStep(r)
  <2>1. result[r].kind \in Outcome \cup {"none", "pending"}
    BY Zenon DEF GatewayInv, IngestInv, IngestTyped, ResultRecord, Outcome
  <2>. QED
    BY <1>2, <2>1, Zenon DEF HandlerStep, Honest
<1>3. CASE StartGroup(w)
  <2>0. PICK n \in 1..BatchSize : \E items \in Injection(1..n, Waiting(w)) :
           StartBatch(w, items)
    BY <1>3, Zenon DEF StartGroup
  <2>1. PICK items \in Injection(1..n, Waiting(w)) : StartBatch(w, items)
    BY <2>0, Zenon
  <2>2. items \in [1..n -> Waiting(w)] /\ IsInjective(items)
    BY <2>1, Zenon DEF Injection
  <2>3. n \in Nat /\ n <= BatchSize /\ Waiting(w) \subseteq Req
    BY Bounds DEF Waiting
  <2>4. items \in Seq(Req) /\ Len(items) = n
    BY <2>2, <2>3
  <2>5. \A r \in Range(items) : r \in Waiting(w)
    BY <2>2, Zenon DEF Range
  <2>6. Fresh(w, items)
    BY <1>3, <2>2, <2>3, <2>4, <2>5, Zenon DEF Fresh, StartGroup, Waiting
  <2>7. GroupStep(w)
    BY <2>1, <2>4, <2>6, Zenon DEF GroupStep
  <2>. QED
    BY <2>7, Zenon DEF IngestStep
<1>4. CASE FinishBatch(w) \/ BatchRaises(w) \/ Crash(w)
  <2>1. GroupStep(w)
    BY <1>4, Zenon DEF GroupStep
  <2>. QED
    BY <2>1, Zenon DEF IngestStep
<1>. QED
  BY <1>1, <1>2, <1>3, <1>4, Zenon DEF OtherWorker, GroupGoesOn, ResumeAny, IngestStep

(* A group of another worker is made of requests that have no future here.  *)
LEMMA OtherGroupEnds ==
    ASSUME GatewayInv, NEW w \in Worker \ {Watched}, FinishBatch(w) \/ BatchRaises(w)
    PROVE  \A r \in Req : future[r] # "none" => result'[r] = result[r]
<1>1. PICK fatal \in BOOLEAN : /\ fatal \/ Len(batch[w].out) = Len(batch[w].items)
                               /\ Answered(w, fatal)
  BY GroupEnds, Zenon DEF GatewayInv, IngestInv
<1>2. \A r \in Req \ Range(batch[w].items) : result'[r] = result[r]
  BY <1>1, AnsweredResult DEF GatewayInv, IngestInv
<1>3. \A r \in Req : r \in Range(batch[w].items) => home[r] = w
  BY Zenon DEF GatewayInv, IngestInv, FlowInv, GroupsOK
<1>. QED
  BY <1>2, <1>3 DEF GatewayInv, LinkInv

LEMMA BesideIsElsewhere ==
    ASSUME GatewayInv, IngestStep, UNCHANGED coalescerVars,
           \A r \in Req : future[r] # "none" => result'[r] = result[r]
    PROVE  P!Elsewhere
<1>1. result' \in [Req -> ResultRecord]
  BY StepTyped, Zenon DEF GatewayInv, IngestInv, IngestTyped
<1>2. [r \in Req |-> result'[r].kind] \in [Req -> P!Outcome \cup {"none"}]
  BY <1>1, Zenon DEF ResultRecord, P!Outcome
<1>. QED
  BY <1>2, Zenon DEF P!Elsewhere, coalescerVars, P!loopVars

LEMMA DatabaseLeavesResults ==
    ASSUME Database PROVE UNCHANGED <<result, home>>
BY Zenon DEF Database, FusedStatement, StatementFails, Refuse, RejectPayload, Txn,
   ReadPlatform, AcquireLock, Find, Commit, StartWorkflow, TxnFails, CaseCloses,
   PlatformChanges, Tick

LEMMA OthersLeaveResults ==
    ASSUME GatewayInv, NEW w \in Worker \ {Watched}, OtherWorker(w)
    PROVE  \A r \in Req : future[r] # "none" => result'[r] = result[r]
<1>1. CASE FinishBatch(w) \/ BatchRaises(w)
  BY <1>1, OtherGroupEnds, Zenon
<1>2. CASE (\E r \in Elsewhere : Receive(r, w)) \/ StartGroup(w) \/ ResumeAny(w) \/ Crash(w)
  BY <1>2, Zenon DEF Receive, StartGroup, StartBatch, ResumeAny, Resume, Crash
<1>. QED
  BY <1>1, <1>2, Zenon DEF OtherWorker, GroupGoesOn

(* Together. *)
LEMMA StepOfBoth ==
    ASSUME GatewayInv, [Next]_vars PROVE IngestStep /\ (P!Next \/ P!Elsewhere)
<1>1. CASE Coalescer
  BY <1>1, CoalescerIsNext, CoalescerInIngest, Zenon
<1>2. CASE Beside(Database)
  BY <1>2, DatabaseInIngest, DatabaseLeavesResults, BesideIsElsewhere, Zenon DEF Beside
<1>3. ASSUME NEW w \in Worker \ {Watched}, Beside(OtherWorker(w))
      PROVE  IngestStep /\ P!Elsewhere
  BY <1>3, OthersInIngest, OthersLeaveResults, BesideIsElsewhere, Zenon DEF Beside
<1>4. CASE UNCHANGED vars
  <2>1. UNCHANGED ingestVars /\ UNCHANGED coalescerVars /\ UNCHANGED result
    BY <1>4, Zenon DEF vars, ingestVars
  <2>2. IngestStep
    BY <2>1, Zenon DEF IngestStep
  <2>. QED
    BY <2>1, <2>2, BesideIsElsewhere, Zenon
<1>. QED
  BY <1>1, <1>2, <1>3, <1>4, Zenon DEF Next

(***************************************************************************)
(* LinkInv is kept                                                         *)
(***************************************************************************)

(* By a step beside the coalescer that leaves its worker's group and its    *)
(* requests alone.                                                          *)
LEMMA LinkBeside ==
    ASSUME GatewayInv, UNCHANGED <<queue, thread, future, waiter>>,
           batch'[Watched].on = batch[Watched].on,
           batch'[Watched].items = batch[Watched].items,
           \A r \in Req : pc'[r] = "new" => pc[r] = "new",
           \A r \in Req : future[r] # "none" => home'[r] = home[r],
           \A e \in Range(queue) : /\ result'[e].kind = result[e].kind
                                   /\ pc'[e] \in {"queued", "gone"}
    PROVE  LinkInv'
BY DEF GatewayInv, LinkInv

(* By a handler that does not wait for the watched worker's coalescer. *)
LEMMA LinkHandler ==
    ASSUME GatewayInv, UNCHANGED <<queue, thread, future, waiter>>,
           NEW r \in Req, HandlerStep(r), pc[r] = "queued" => home[r] # Watched
    PROVE  LinkInv'
<1>1. /\ UNCHANGED <<batch, result>>
      /\ \A e \in Req \ {r} : pc'[e] = pc[e] /\ home'[e] = home[e]
      /\ pc[r] # "new" => home'[r] = home[r]
      /\ pc'[r] # "new" /\ pc[r] \in {"new", "queued"} \cup InTxn
  BY HandlerMoves, Zenon DEF GatewayInv, IngestInv, InTxn
<1>2. /\ future[r] # "none" => waiter[r] # "idle"
      /\ \A e \in Range(queue) : e \in Req /\ future[e] = "pending"
  BY CoalescerFacts, Zenon DEF GatewayInv
<1>3. \A e \in Range(queue) : pc[e] \in {"queued", "gone"} /\ home[e] = Watched
  BY <1>2, Zenon DEF GatewayInv, LinkInv
<1>4. \A e \in Req : future[e] # "none" => home'[e] = home[e]
  BY <1>1, <1>2, Zenon DEF GatewayInv, LinkInv
<1>5. \A e \in Range(queue) : e # r
  BY <1>1, <1>3, Zenon DEF InTxn
<1>6. \A e \in Range(queue) : pc'[e] \in {"queued", "gone"}
  BY <1>1, <1>2, <1>3, <1>5, Zenon
<1>7. \A e \in Req : pc'[e] = "new" => pc[e] = "new"
  BY <1>1, Zenon
<1>. QED
  BY <1>1, <1>4, <1>6, <1>7, LinkBeside, Zenon

LEMMA LinkDatabase == ASSUME GatewayInv, Beside(Database) PROVE LinkInv'
<1>1. Database /\ UNCHANGED <<queue, thread, future, waiter>>
  BY Zenon DEF Beside, coalescerVars
<1>2. Watched \in Worker /\ IngestTyped
  BY GatewayAssumption, Zenon DEF GatewayInv, IngestInv
<1>3. ASSUME NEW r \in Req, Refuse(r) \/ RejectPayload(r) \/ Txn(r) \/ TxnFails(r) PROVE LinkInv'
  <2>1. HandlerStep(r)
    BY <1>3, Zenon DEF HandlerStep
  <2>2. pc[r] # "queued"
    BY <1>3, Zenon DEF Refuse, RejectPayload, Txn, ReadPlatform, AcquireLock, Find, Commit,
       StartWorkflow, TxnFails
  <2>. QED
    BY <1>1, <2>1, <2>2, LinkHandler, Zenon
<1>4. ASSUME NEW w \in Worker, FusedStatement(w) \/ StatementFails(w) PROVE LinkInv'
  <2>1. /\ UNCHANGED <<pc, home, result>>
        /\ \A v \in Worker : /\ batch'[v].on = batch[v].on
                             /\ batch'[v].items = batch[v].items
    BY <1>2, <1>4, StatementEffect, Zenon
  <2>2. \A e \in Range(queue) : pc[e] \in {"queued", "gone"}
    BY Zenon DEF GatewayInv, LinkInv
  <2>. QED
    BY <1>1, <1>2, <2>1, <2>2, LinkBeside, Zenon
<1>5. CASE (\E r \in Req : CaseCloses(r)) \/ PlatformChanges \/ Tick
  <2>1. UNCHANGED <<pc, home, result, batch>>
    BY <1>5, Zenon DEF CaseCloses, PlatformChanges, Tick
  <2>. QED
    BY <1>1, <2>1, Zenon DEF GatewayInv, LinkInv
<1>. QED
  BY <1>1, <1>3, <1>4, <1>5, Zenon DEF Database

LEMMA LinkOthers ==
    ASSUME GatewayInv, NEW w \in Worker \ {Watched}, Beside(OtherWorker(w)) PROVE LinkInv'
<1>1. OtherWorker(w) /\ UNCHANGED <<queue, thread, future, waiter>>
  BY Zenon DEF Beside, coalescerVars
<1>2. Watched \in Worker /\ IngestTyped
  BY GatewayAssumption, Zenon DEF GatewayInv, IngestInv
<1>3. \A e \in Range(queue) : /\ e \in Req /\ future[e] # "none" /\ home[e] = Watched
                              /\ pc[e] \in {"queued", "gone"}
  <2>1. \A e \in Range(queue) : e \in Req /\ future[e] = "pending"
    BY CoalescerFacts, Zenon DEF GatewayInv
  <2>. QED
    BY <2>1, Zenon DEF GatewayInv, LinkInv
<1>4. ASSUME NEW r \in Elsewhere, Receive(r, w) PROVE LinkInv'
  <2>1. r \in Req /\ HandlerStep(r) /\ pc[r] # "queued"
    BY <1>4, GatewayAssumption, Zenon DEF HandlerStep, Receive
  <2>. QED
    BY <1>1, <2>1, LinkHandler, Zenon
<1>5. ASSUME NEW r \in Req, home[r] = w, Resume(r, result[r].kind) PROVE LinkInv'
  <2>1. HandlerStep(r)
    <3>1. result[r].kind \in Outcome \cup {"none", "pending"}
      BY <1>2, Zenon DEF IngestTyped, ResultRecord, Outcome
    <3>. QED
      BY <1>5, <3>1, Zenon DEF HandlerStep, Honest
  <2>. QED
    BY <1>1, <1>5, <2>1, LinkHandler, Zenon
<1>6. CASE StartGroup(w)
  <2>1. UNCHANGED <<pc, home, result>> /\ batch'[Watched] = batch[Watched]
    BY <1>2, <1>6, Zenon DEF StartGroup, StartBatch, IngestTyped
  <2>. QED
    BY <1>1, <1>3, <2>1, LinkBeside, Zenon
<1>7. CASE FinishBatch(w) \/ BatchRaises(w)
  <2>1. UNCHANGED <<pc, home>> /\ batch' = [batch EXCEPT ![w] = NoBatch]
    BY <1>2, <1>7, GroupEnds, Zenon
  <2>2. batch'[Watched] = batch[Watched]
    BY <1>2, <2>1, Zenon DEF IngestTyped
  <2>3. \A e \in Range(queue) : result'[e] = result[e]
    BY <1>3, <1>7, OtherGroupEnds, Zenon
  <2>. QED
    BY <1>1, <1>3, <2>1, <2>2, <2>3, LinkBeside, Zenon
<1>8. CASE Crash(w)
  <2>1. UNCHANGED <<home, result>> /\ batch'[Watched] = batch[Watched]
    BY <1>2, <1>8, Zenon DEF Crash, IngestTyped
  <2>2. \A r \in Req : pc'[r] \in {pc[r], "gone"}
    BY <1>8, Zenon DEF Crash
  <2>. QED
    BY <1>1, <1>3, <2>1, <2>2, LinkBeside, Zenon
<1>. QED
  BY <1>1, <1>4, <1>5, <1>6, <1>7, <1>8, Zenon DEF OtherWorker, GroupGoesOn, ResumeAny

LEMMA LinkSubmit == ASSUME GatewayInv, NEW r \in Req, Submit(r) PROVE LinkInv'
<1>1. /\ pc[r] = "new" /\ waiter[r] = "idle" /\ queue' = Append(queue, r)
      /\ UNCHANGED <<batch, result, thread>>
      /\ pc' = [pc EXCEPT ![r] = "queued"] /\ home' = [home EXCEPT ![r] = Watched]
      /\ future' = [future EXCEPT ![r] = "pending"]
      /\ waiter' = [waiter EXCEPT ![r] = "waiting"]
  BY Zenon DEF Submit, Receive, C!Submit
<1>2. /\ pc \in [Req -> Place] /\ home \in [Req -> Worker \cup {None}]
      /\ result[r].kind = "none"
  BY <1>1, Zenon DEF GatewayInv, IngestInv, IngestTyped, FlowInv, PlacesOK
<1>3. /\ future \in [Req -> Outcome \cup {"none", "pending"}] /\ queue \in Seq(Req)
      /\ waiter \in [Req -> {"idle", "waiting", "answered", "refused", "detached"}]
      /\ future[r] = "none" /\ Range(queue) \subseteq Req
      /\ thread.end = "busy" => \A e \in Range(thread.batch) : future[e] # "none"
  BY <1>1, CoalescerFacts, Zenon DEF GatewayInv
<1>4. Range(queue') = Range(queue) \cup {r}
  BY <1>1, <1>3, P!RangeAppend, SameRange, Zenon
<1>5. \A e \in Req : /\ pc'[e] = "new" => waiter'[e] = "idle"
                     /\ future'[e] # "none" => home'[e] = Watched
  BY <1>1, <1>2, <1>3, Zenon DEF GatewayInv, LinkInv
<1>6. thread'.end = "busy" => Range(queue') \cap Range(thread'.batch) = {}
  BY <1>1, <1>3, <1>4 DEF GatewayInv, LinkInv
<1>7. \A e \in Range(queue') : result'[e].kind = "none" /\ pc'[e] \in {"queued", "gone"}
  BY <1>1, <1>2, <1>3, <1>4, Zenon DEF GatewayInv, LinkInv
<1>. QED
  BY <1>1, <1>5, <1>6, <1>7, Zenon DEF GatewayInv, LinkInv

(* A waiter leaves the queue only through its future. *)
LEMMA LinkWaiter ==
    ASSUME GatewayInv, NEW r \in Req, TurnedAway(r) \/ Returns(r) \/ Detach(r)
    PROVE  LinkInv'
<1>1. /\ UNCHANGED <<batch, result, thread, queue, future>>
      /\ \A e \in Req \ {r} : pc'[e] = pc[e] /\ home'[e] = home[e] /\ waiter'[e] = waiter[e]
      /\ pc'[r] # "new"
      /\ \/ waiter[r] = "idle" /\ pc[r] = "new"
         \/ future[r] # "pending" /\ home'[r] = home[r]
         \/ pc'[r] = "gone" /\ home'[r] = home[r]
  <2>1. /\ pc \in [Req -> Place] /\ home \in [Req -> Worker \cup {None}]
        /\ waiter \in [Req -> {"idle", "waiting", "answered", "refused", "detached"}]
    BY CoalescerFacts, Zenon DEF GatewayInv, IngestInv, IngestTyped
  <2>2. CASE TurnedAway(r)
    BY <2>1, <2>2, Zenon DEF TurnedAway, Refused, Reply, C!Refuse, C!loopVars
  <2>3. CASE Returns(r)
    BY <2>1, <2>3, Zenon DEF Returns, Resume, Reply, C!WaiterResumes, C!loopVars
  <2>4. CASE Detach(r)
    BY <2>1, <2>4, Zenon DEF Detach, Cancelled, C!WaiterCancelled, C!loopVars
  <2>. QED
    BY <2>2, <2>3, <2>4, Zenon
<1>2. /\ \A e \in Range(queue) : e \in Req /\ future[e] = "pending"
      /\ waiter[r] = "idle" => future[r] = "none"
  BY CoalescerFacts, Zenon DEF GatewayInv
<1>3. \A e \in Req : future[e] # "none" => home'[e] = Watched
  BY <1>1, <1>2, SMTT(30) DEF GatewayInv, LinkInv
<1>4. \A e \in Req : pc'[e] = "new" => waiter'[e] = "idle"
  BY <1>1 DEF GatewayInv, LinkInv
<1>5. \A e \in Range(queue) : pc'[e] \in {"queued", "gone"}
  BY <1>1, <1>2 DEF GatewayInv, LinkInv
<1>. QED
  BY <1>1, <1>3, <1>4, <1>5, Zenon DEF GatewayInv, LinkInv

LEMMA LinkDrainer ==
    ASSUME GatewayInv, P!CoalescerInv', DrainerStarts \/ DrainerWakes \/ BatchReturns
    PROVE  LinkInv'
<1>1. HandsOver /\ (C!DrainerStarts \/ C!DrainerWakes \/ C!BatchReturns)
  BY Zenon DEF DrainerStarts, DrainerWakes, BatchReturns
<1>2. /\ thread.end # "busy" /\ UNCHANGED waiter
      /\ Range(queue') \subseteq Range(queue) /\ Range(queue') \cap Range(inflight') = {}
      /\ thread'.end = "busy" => thread'.batch = inflight'
  BY <1>1, DrainerTurn, Zenon
<1>3. UNCHANGED <<pc, home, result>>
  BY <1>1, Zenon DEF HandsOver, StartBatch, ingestVars
<1>4. \A r \in Req : future'[r] # "none" => future[r] # "none"
  <2>1. \A r \in Req : future[r] = "none" <=> waiter[r] \in {"idle", "refused"}
    BY CoalescerFacts, Zenon DEF GatewayInv
  <2>2. \A r \in Req : future'[r] = "none" <=> waiter'[r] \in {"idle", "refused"}
    BY Zenon DEF P!CoalescerInv, P!Futures
  <2>. QED
    BY <1>2, <2>1, <2>2, Zenon
<1>5. /\ batch'[Watched].on <=> thread'.end = "busy"
      /\ thread'.end = "busy" => batch'[Watched].items = thread'.batch
  <2>1. batch \in [Worker -> BatchRecord] /\ Watched \in Worker
    BY GatewayAssumption, Zenon DEF GatewayInv, IngestInv, IngestTyped
  <2>2. CASE thread'.end = "busy"
    BY <1>1, <2>1, <2>2 DEF HandsOver, StartBatch
  <2>3. CASE thread'.end # "busy"
    <3>1. batch' = batch
      BY <1>1, <2>3, Zenon DEF HandsOver, ingestVars
    <3>. QED
      BY <1>2, <2>3, <3>1, Zenon DEF GatewayInv, LinkInv
  <2>. QED
    BY <2>2, <2>3, Zenon
<1>6. \A r \in Req : /\ pc'[r] = "new" => waiter'[r] = "idle"
                     /\ future'[r] # "none" => home'[r] = Watched
  BY <1>2, <1>3, <1>4, Zenon DEF GatewayInv, LinkInv
<1>7. \A e \in Range(queue') : result'[e].kind = "none" /\ pc'[e] \in {"queued", "gone"}
  BY <1>2, <1>3, Zenon DEF GatewayInv, LinkInv
<1>. QED
  BY <1>2, <1>5, <1>6, <1>7, Zenon DEF LinkInv

(* The end of the group settles its members only. *)
LEMMA LinkCallback ==
    ASSUME GatewayInv, CallbackReturns \/ CallbackRaises PROVE LinkInv'
<1>1. /\ FinishBatch(Watched) \/ BatchRaises(Watched)
      /\ thread.end = "busy" /\ thread'.end \in {"list", "raised"}
      /\ UNCHANGED <<queue, future, waiter>>
  BY Zenon DEF CallbackReturns, CallbackRaises, C!ExecuteBatch
<1>2. Watched \in Worker /\ IngestTyped /\ batch \in [Worker -> BatchRecord]
  BY GatewayAssumption, Zenon DEF GatewayInv, IngestInv, IngestTyped
<1>3. /\ UNCHANGED <<pc, home>> /\ batch' = [batch EXCEPT ![Watched] = NoBatch]
      /\ \E fatal \in BOOLEAN : /\ fatal \/ Len(batch[Watched].out) = Len(batch[Watched].items)
                                /\ Answered(Watched, fatal)
  BY <1>1, <1>2, GroupEnds, Zenon
<1>4. \A r \in Req \ Range(batch[Watched].items) : result'[r] = result[r]
  BY <1>2, <1>3, AnsweredResult, Zenon
<1>5. \A e \in Range(queue) : e \in Req /\ e \notin Range(batch[Watched].items)
  BY <1>1, CoalescerFacts, Zenon DEF GatewayInv, LinkInv
<1>6. ~batch'[Watched].on
  BY <1>2, <1>3, Zenon DEF NoBatch
<1>. QED
  BY <1>1, <1>3, <1>4, <1>5, <1>6, Zenon DEF GatewayInv, LinkInv

LEMMA LinkEnd ==
    ASSUME GatewayInv, P!CoalescerInv',
           DrainerCancelled \/ Shutdown \/ ShutdownReturns \/ ShutdownCancelled
    PROVE  LinkInv'
<1>1. UNCHANGED <<pc, home, result, batch>>
  BY Zenon DEF DrainerCancelled, Shutdown, ShutdownReturns, ShutdownCancelled, OnlyFault, ingestVars
<1>2. UNCHANGED <<thread, waiter>> /\ (queue' = queue \/ queue' = <<>>)
  BY Zenon DEF DrainerCancelled, Shutdown, ShutdownReturns, ShutdownCancelled, C!DrainerCancelled,
     C!FailEverything, C!Close, C!CloseReturns, C!CloserCancelled, C!loopVars
<1>3. Range(queue') \subseteq Range(queue)
  BY <1>2, EmptyRange, Zenon
<1>4. \A r \in Req : future'[r] # "none" => future[r] # "none"
  <2>1. \A r \in Req : future[r] = "none" <=> waiter[r] \in {"idle", "refused"}
    BY CoalescerFacts, Zenon DEF GatewayInv
  <2>2. \A r \in Req : future'[r] = "none" <=> waiter'[r] \in {"idle", "refused"}
    BY Zenon DEF P!CoalescerInv, P!Futures
  <2>. QED
    BY <1>2, <2>1, <2>2, Zenon
<1>. QED
  BY <1>1, <1>2, <1>3, <1>4, Zenon DEF GatewayInv, LinkInv

(***************************************************************************)
(* The theorems                                                            *)
(***************************************************************************)

LEMMA GatewayStep == ASSUME GatewayInv, [Next]_vars PROVE GatewayInv'
<1>1. IngestInv'
  BY StepOfBoth, IngestStepInv, Zenon DEF GatewayInv
<1>2. P!CoalescerInv'
  BY StepOfBoth, CoalescerConfigured, P!StepKeeps, Zenon DEF GatewayInv
<1>3. LinkInv'
  <2>1. CASE Coalescer
    BY <1>2, <2>1, LinkSubmit, LinkWaiter, LinkDrainer, LinkCallback, LinkEnd, Zenon DEF Coalescer
  <2>2. CASE Beside(Database)
    BY <2>2, LinkDatabase, Zenon
  <2>3. ASSUME NEW w \in Worker \ {Watched}, Beside(OtherWorker(w)) PROVE LinkInv'
    BY <2>3, LinkOthers, Zenon
  <2>4. CASE UNCHANGED vars
    BY <2>4, Zenon DEF vars, ingestVars, coalescerVars, GatewayInv, LinkInv
  <2>. QED
    BY <2>1, <2>2, <2>3, <2>4, Zenon DEF Next
<1>. QED
  BY <1>1, <1>2, <1>3, Zenon DEF GatewayInv

(* The inductive invariant of the gateway: the two parts' invariants, and   *)
(* what each relies on of the other.                                        *)
THEOREM GatewayInvariant == Spec => []GatewayInv
BY GatewayInit, GatewayStep, PTL DEF Spec

(* Every variable of the gateway keeps its type, and no group is larger     *)
(* than MERGE_COMMIT_BATCH_SIZE.                                            *)
THEOREM GatewayTypes == Spec => []TypeOK
<1>1. P!CoalescerInv => C!TypeOK
  BY Zenon DEF P!CoalescerInv, P!TypeOK, C!TypeOK, P!DrainerState, C!DrainerState, P!Outcome,
     C!Outcome, P!Live, C!Live
<1>2. GatewayInv => TypeOK
  BY <1>1, IngestConsequences, Zenon DEF GatewayInv, TypeOK
<1>. QED
  BY <1>2, GatewayInvariant, PTL

(* Concurrent identical alerts open one investigation: two cases of one     *)
(* slot are open together only if the second was decided when the first was *)
(* older than the correlation window.                                       *)
THEOREM OneCasePerSlot == Spec => []OneOpenCase
<1>1. GatewayInv => OneOpenCase
  BY IngestConsequences, Zenon DEF GatewayInv
<1>. QED
  BY <1>1, GatewayInvariant, PTL

(* "merged", "opened" and "rejected" on account of the platform have their  *)
(* committed row, whatever failed in the group; "opened" also has its case  *)
(* and its workflow; and a request that the handler or ingest() turned away *)
(* before it was submitted never has a row.                                 *)
THEOREM AnswersAreDurable == Spec => []AnswerDurable
<1>1. GatewayInv => AnswerDurable
  BY IngestConsequences, Zenon DEF GatewayInv
<1>. QED
  BY <1>1, GatewayInvariant, PTL

(* A transaction of _ingest_txn past its advisory lock holds it until its   *)
(* commit, its rollback or the end of its process, and nobody else does.    *)
THEOREM LocksHeldInside == Spec => []LockHeldInside
<1>1. GatewayInv => LockHeldInside
  BY IngestConsequences, Zenon DEF GatewayInv
<1>. QED
  BY <1>1, GatewayInvariant, PTL

(* No alert is merged by the fused statement and decided once more by a     *)
(* transaction of its own.                                                  *)
THEOREM DecidedOnce == Spec => []NeverTwice
<1>1. GatewayInv => NeverTwice
  BY IngestConsequences, Zenon DEF GatewayInv
<1>. QED
  BY <1>1, GatewayInvariant, PTL

(* What the fused statement finds, the deciding read of _ingest_txn would   *)
(* find at the same instant.                                                *)
THEOREM FastPathSound == Spec => []FastPathAgrees
<1>1. GatewayInv => FastPathAgrees
  BY FastPathHolds, Zenon DEF GatewayInv, IngestInv
<1>. QED
  BY <1>1, GatewayInvariant, PTL

(* FIFO: the candidates reach the database in the order in which submit()   *)
(* accepted them, each once and none left out, until _fail_everything.      *)
THEOREM FirstInFirstOut == Spec => []HandedInOrder
<1>1. GatewayInv => HandedInOrder
  BY Zenon DEF GatewayInv, HandedInOrder, P!CoalescerInv, P!HandedInOrder, C!HandedInOrder
<1>. QED
  BY <1>1, GatewayInvariant, PTL

(* No lost wake-up: _await_group never sleeps beside a full group without   *)
(* an arrival that will wake it.                                            *)
THEOREM NoLostWakeup == Spec => []FullGroupWakes
<1>1. GatewayInv => FullGroupWakes
  BY Zenon DEF GatewayInv, FullGroupWakes, P!CoalescerInv, P!FullGroupWakes, C!FullGroupWakes
<1>. QED
  BY <1>1, GatewayInvariant, PTL

(* A waiter in submit() is told hit or miss only if the group's transaction *)
(* did that for its own alert.                                              *)
THEOREM TrueAnswers == Spec => []AnswersTrue
<1>1. GatewayInv => AnswersTrue
  BY Zenon DEF GatewayInv, AnswersTrue, P!CoalescerInv, P!AnswersTrue, C!AnswersTrue
<1>. QED
  BY <1>1, GatewayInvariant, PTL

(* One group at a time: while a group is in the database its worker starts  *)
(* no other, also when the drainer that started it has been cancelled.      *)
THEOREM OneGroup == Spec => OneGroupAtATime
<1>1. ASSUME GatewayInv, [Next]_vars PROVE thread.end = "busy" => thread'.batch = thread.batch
  BY <1>1, StepOfBoth, P!OneGroupStep, Zenon DEF GatewayInv
<1>. QED
  BY <1>1, GatewayInvariant, PTL DEF Spec, OneGroupAtATime, C!OneGroupAtATime

(* Where the drainer task is never cancelled before its first step, nobody  *)
(* is stranded by its retirement, its cancellation or close().              *)
THEOREM NobodyIsStranded ==
    ASSUME "created" \notin CancelAt PROVE Spec => []NobodyStranded
<1>1. Init => P!NothingStranded
  BY Zenon DEF Init, C!Init, P!NothingStranded, P!NobodyStranded
<1>2. ASSUME GatewayInv, P!NothingStranded, [Next]_vars PROVE P!NothingStranded'
  BY <1>2, StepOfBoth, CoalescerConfigured, P!StrandedStep, Zenon DEF GatewayInv
<1>3. P!NothingStranded => NobodyStranded
  BY SameRange, Zenon
  DEF P!NothingStranded, P!NobodyStranded, NobodyStranded, C!NobodyStranded, P!Live, C!Live
<1>. QED
  BY <1>1, <1>2, <1>3, GatewayInvariant, PTL DEF Spec

LEMMA SamePromise == P!Promise!Next => C!Promise!Next
<1>1. P!Promise!Pending = C!Promise!Pending
  BY Zenon DEF P!Promise!Pending, C!Promise!Pending
<1>2. \A S, s : P!Promise!To(S, s) = C!Promise!To(S, s)
  BY Zenon DEF P!Promise!To, C!Promise!To
<1>3. ASSUME NEW r \in Req, P!Promise!Accept(r) \/ P!Promise!Refuse(r)
      PROVE  C!Promise!Accept(r) \/ C!Promise!Refuse(r)
  BY <1>2, <1>3, Zenon
  DEF P!Promise!Accept, C!Promise!Accept, P!Promise!Refuse, C!Promise!Refuse
<1>4. P!Promise!Answer \/ P!Promise!GiveUp => C!Promise!Answer \/ C!Promise!GiveUp
  BY <1>1, <1>2, Zenon
  DEF P!Promise!Answer, C!Promise!Answer, P!Promise!GiveUp, C!Promise!GiveUp
<1>5. P!Promise!Close \/ P!Promise!Return \/ P!Promise!CallerGone
      => C!Promise!Close \/ C!Promise!Return \/ C!Promise!CallerGone
  BY <1>1, Zenon
  DEF P!Promise!Close, C!Promise!Close, P!Promise!Return, C!Promise!Return,
      P!Promise!CallerGone, C!Promise!CallerGone
<1>. QED
  BY <1>3, <1>4, <1>5, Zenon DEF P!Promise!Next, C!Promise!Next

(* The safety of AcceptedWork's promise, under the same assumption: items   *)
(* are accepted while the doors are open, answered once, and close()        *)
(* returns only when nobody waits any more.                                 *)
THEOREM ImplementsAcceptedWork ==
    ASSUME "created" \notin CancelAt
    PROVE  Spec => C!Promise!Init /\ [][C!Promise!Next]_(C!Promise!vars)
<1>1. Init => P!NothingStranded
  BY Zenon DEF Init, C!Init, P!NothingStranded, P!NobodyStranded
<1>2. ASSUME GatewayInv, P!NothingStranded, [Next]_vars PROVE P!NothingStranded'
  BY <1>2, StepOfBoth, CoalescerConfigured, P!StrandedStep, Zenon DEF GatewayInv
<1>3. Init => C!Promise!Init
  BY Zenon DEF Init, C!Init, C!Promise!Init
<1>4. ASSUME GatewayInv, P!NothingStranded, [Next]_vars
      PROVE  P!Promise!Next \/ UNCHANGED P!Promise!vars
  BY <1>4, StepOfBoth, CoalescerConfigured, P!PromiseStep, Zenon DEF GatewayInv
<1>5. P!Promise!Next => C!Promise!Next
  BY SamePromise, Zenon
<1>6. UNCHANGED P!Promise!vars => UNCHANGED C!Promise!vars
  BY Zenon DEF P!Promise!vars, C!Promise!vars
<1>7. ASSUME GatewayInv, P!NothingStranded, [Next]_vars
      PROVE  [C!Promise!Next]_(C!Promise!vars)
  BY <1>4, <1>5, <1>6, <1>7, Zenon
<1>. QED
  BY <1>1, <1>2, <1>3, <1>7, GatewayInvariant, PTL DEF Spec
=============================================================================
