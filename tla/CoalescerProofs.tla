--------------------------- MODULE CoalescerProofs ---------------------------
(***************************************************************************)
(* The safety proofs of the coalescer, for any number of items and any     *)
(* group size.                                                             *)
(*                                                                         *)
(* The lemmas are about one step of MergeCommit, or about a step of its    *)
(* surroundings (Elsewhere), so that module GatewayProofs can use them for *)
(* the coalescer inside the gateway, whose database also serves the items  *)
(* of other workers.                                                       *)
(***************************************************************************)
EXTENDS MergeCommit, TLAPS

(* What the construction of the coalescer guarantees of its constants. *)
Configured ==
    BatchSize \in Nat \ {0} /\ Effect \subseteq Outcome /\ CancelAt \subseteq Live

(* The callbacks of other workers do what they do for items of their own. *)
Elsewhere ==
    /\ UNCHANGED <<loopVars, future, waiter, closing, failed, closer, accepted>>
    /\ did' \in [Item -> Outcome \cup {"none"}]
    /\ \A e \in Item : future[e] # "none" => did'[e] = did[e]

(***************************************************************************)
(* Sequences                                                               *)
(***************************************************************************)

LEMMA RangeAppend ==
    ASSUME NEW s \in Seq(Item), NEW e \in Item
    PROVE  Append(s, e) \in Seq(Item) /\ Range(Append(s, e)) = Range(s) \cup {e}
<1>1. Append(s, e) \in Seq(Item) /\ Len(Append(s, e)) = Len(s) + 1
      /\ Append(s, e)[Len(s) + 1] = e
      /\ \A i \in 1..Len(s) : Append(s, e)[i] = s[i]
  OBVIOUS
<1>2. DOMAIN Append(s, e) = 1..Len(s) + 1 /\ DOMAIN s = 1..Len(s)
  BY <1>1
<1>. QED
  BY <1>1, <1>2 DEF Range

LEMMA InjectiveAppend ==
    ASSUME NEW s \in Seq(Item), NEW e \in Item, IsInjective(s), e \notin Range(s)
    PROVE  IsInjective(Append(s, e))
BY DEF Range, IsInjective

LEMMA RangeConcat ==
    ASSUME NEW s \in Seq(Item), NEW t \in Seq(Item)
    PROVE  s \o t \in Seq(Item) /\ Range(s \o t) = Range(s) \cup Range(t)
<1>1. /\ s \o t \in Seq(Item) /\ Len(s \o t) = Len(s) + Len(t)
      /\ \A i \in 1..Len(s) : (s \o t)[i] = s[i]
      /\ \A i \in 1..Len(t) : (s \o t)[Len(s) + i] = t[i]
  OBVIOUS
<1>2. DOMAIN (s \o t) = 1..Len(s) + Len(t) /\ DOMAIN s = 1..Len(s)
      /\ DOMAIN t = 1..Len(t) /\ Len(s) \in Nat /\ Len(t) \in Nat
  BY <1>1
<1>3. ASSUME NEW k \in 1..Len(s) + Len(t)
      PROVE  (s \o t)[k] \in Range(s) \cup Range(t)
  <2>1. CASE k \in 1..Len(s)
    BY <1>1, <1>2, <2>1, Zenon DEF Range
  <2>2. CASE k \notin 1..Len(s)
    <3>1. k - Len(s) \in 1..Len(t) /\ k = Len(s) + (k - Len(s))
      BY <1>2, <2>2
    <3>. QED
      BY <1>1, <1>2, <3>1, Zenon DEF Range
  <2>. QED
    BY <2>1, <2>2, Zenon
<1>4. \A i \in 1..Len(s) : i \in 1..Len(s) + Len(t)
  BY <1>2
<1>5. \A i \in 1..Len(t) : Len(s) + i \in 1..Len(s) + Len(t)
  BY <1>2
<1>6. Range(s) \cup Range(t) \subseteq Range(s \o t)
  <2>1. ASSUME NEW i \in 1..Len(s) PROVE s[i] \in Range(s \o t)
    BY <1>1, <1>2, <1>4, Zenon DEF Range
  <2>2. ASSUME NEW i \in 1..Len(t) PROVE t[i] \in Range(s \o t)
    BY <1>1, <1>2, <1>5, Zenon DEF Range
  <2>. QED
    BY <1>2, <2>1, <2>2, Zenon DEF Range
<1>7. Range(s \o t) \subseteq Range(s) \cup Range(t)
  BY <1>2, <1>3, Zenon DEF Range
<1>. QED
  BY <1>1, <1>6, <1>7, Zenon

(* The group and what is left of the queue are the queue, cut in two.      *)
LEMMA GroupSplits ==
    ASSUME queue \in Seq(Item), BatchSize \in Nat \ {0}
    PROVE  /\ Group[1] \in Seq(Item) /\ Group[2] \in Seq(Item)
           /\ Len(Group[1]) <= BatchSize
           /\ queue = Group[1] \o Group[2]
           /\ Range(queue) = Range(Group[1]) \cup Range(Group[2])
           /\ IsInjective(queue) => /\ IsInjective(Group[1]) /\ IsInjective(Group[2])
                                 /\ Range(Group[1]) \cap Range(Group[2]) = {}
<1>. DEFINE n == IF Len(queue) < BatchSize THEN Len(queue) ELSE BatchSize
            a == SubSeq(queue, 1, n)
            b == SubSeq(queue, n + 1, Len(queue))
<1>1. n \in 0..Len(queue) /\ n <= BatchSize /\ Len(queue) \in Nat
  OBVIOUS
<1>2. Group[1] = a /\ Group[2] = b
  BY Zenon DEF Group
<1>. HIDE DEF n
<1>3. /\ a \in Seq(Item) /\ Len(a) = n /\ b \in Seq(Item) /\ Len(b) = Len(queue) - n
      /\ \A i \in 1..n : a[i] = queue[i]
      /\ \A i \in 1..Len(queue) - n : b[i] = queue[n + i]
  BY <1>1
<1>4. DOMAIN a = 1..n /\ DOMAIN b = 1..Len(queue) - n /\ DOMAIN queue = 1..Len(queue)
  BY <1>3
<1>. HIDE DEF a, b
<1>5. queue = a \o b
  <2>. DEFINE c == a \o b
  <2>1. /\ c \in Seq(Item) /\ Len(c) = Len(queue)
        /\ \A i \in 1..n : c[i] = a[i]
        /\ \A i \in 1..Len(b) : c[n + i] = b[i]
    BY <1>1, <1>3
  <2>. HIDE DEF c
  <2>2. ASSUME NEW i \in 1..Len(queue) PROVE c[i] = queue[i]
    <3>1. CASE i <= n
      BY <1>1, <1>3, <2>1, <3>1
    <3>2. CASE i > n
      <4>1. i - n \in 1..Len(b) /\ i = n + (i - n)
        BY <1>1, <1>3, <3>2
      <4>. QED
        BY <1>3, <2>1, <4>1
    <3>. QED
      BY <1>1, <3>1, <3>2
  <2>3. c = queue
    BY <2>1, <2>2
  <2>. QED
    BY <2>3, Zenon DEF c
<1>6. Range(queue) = Range(a) \cup Range(b)
  BY <1>3, <1>5, RangeConcat, Zenon
<1>7. ASSUME IsInjective(queue)
      PROVE  IsInjective(a) /\ IsInjective(b) /\ Range(a) \cap Range(b) = {}
  <2>1. IsInjective(a)
    BY <1>1, <1>3, <1>4, <1>7 DEF IsInjective
  <2>2. \A i \in DOMAIN b : n + i \in DOMAIN queue
    BY <1>1, <1>4
  <2>3. ASSUME NEW i \in DOMAIN b, NEW j \in DOMAIN b, b[i] = b[j]
        PROVE  i = j
    <3>1. n + i = n + j
      BY <1>3, <1>4, <1>7, <2>2, <2>3 DEF IsInjective
    <3>. QED
      BY <1>1, <1>4, <3>1
  <2>4. ASSUME NEW i \in DOMAIN a, NEW j \in DOMAIN b
        PROVE  a[i] # b[j]
    <3>1. i \in DOMAIN queue /\ i # n + j
      BY <1>1, <1>4
    <3>. QED
      BY <1>3, <1>4, <1>7, <2>2, <3>1, Zenon DEF IsInjective
  <2>. QED
    BY <2>1, <2>3, <2>4, Zenon DEF IsInjective, Range
<1>. QED
  BY <1>1, <1>2, <1>3, <1>5, <1>6, <1>7, Zenon

LEMMA ConcatAssociative ==
    ASSUME NEW r \in Seq(Item), NEW s \in Seq(Item), NEW t \in Seq(Item)
    PROVE  (r \o s) \o t = r \o (s \o t)
OBVIOUS

LEMMA AppendConcat ==
    ASSUME NEW s \in Seq(Item), NEW t \in Seq(Item), NEW e \in Item
    PROVE  Append(s \o t, e) = s \o Append(t, e)
<1>1. s \o t \in Seq(Item) /\ <<e>> \in Seq(Item)
  OBVIOUS
<1>2. Append(s \o t, e) = (s \o t) \o <<e>>
  BY <1>1
<1>3. Append(t, e) = t \o <<e>>
  OBVIOUS
<1>. QED
  BY <1>1, <1>2, <1>3, ConcatAssociative

(***************************************************************************)
(* The inductive invariant                                                 *)
(***************************************************************************)

(* An item is in one place, and waits for its outcome there. *)
Members ==
    /\ IsInjective(queue) /\ IsInjective(inflight) /\ Range(queue) \cap Range(inflight) = {}
    /\ \A e \in Range(queue) \cup Range(inflight) : future[e] = "pending"

(* Exactly the accepted items have a future. *)
Futures == \A e \in Item : future[e] = "none" <=> waiter[e] \in {"idle", "refused"}

(* The thread has the group of the running drainer, or is what is left of a *)
(* drainer that was cancelled: then the items of its group have failed, and *)
(* no other drainer can come.                                               *)
Running ==
    /\ drainer # "running" => inflight = <<>>
    /\ drainer = "running" => thread.batch = inflight /\ thread.end # "idle"
    /\ drainer = "running" /\ thread.end # "busy" =>
          \A e \in Range(inflight) : did[e] \in Outcome
    /\ thread.end = "busy" =>
          /\ drainer = "running" \/ (drainer = "none" /\ closing)
          /\ \A e \in Range(thread.batch) : future[e] \in {"pending", "error"}

CoalescerInv ==
    /\ TypeOK /\ Members /\ Futures /\ Running
    /\ HandedInOrder /\ FullGroupWakes /\ AnswersTrue

LEMMA InitCoalescer == Configured /\ Init => CoalescerInv
<1>. SUFFICES ASSUME Configured, Init PROVE CoalescerInv
  BY Zenon
<1>1. TypeOK
  <2>1. queue \in Seq(Item) /\ inflight \in Seq(Item) /\ Len(inflight) <= BatchSize
        /\ accepted \in Seq(Item) /\ taken \in Seq(Item)
    BY DEF Configured, Init
  <2>2. thread \in [batch : Seq(Item), end : {"idle", "busy", "list", "short", "raised"}]
    BY DEF Init
  <2>. QED
    BY <2>1, <2>2, Zenon DEF Init, TypeOK, DrainerState
<1>2. Members
  BY DEF Init, Members, IsInjective, Range
<1>3. Futures /\ Running /\ AnswersTrue
  BY Zenon DEF Init, Futures, Running, AnswersTrue
<1>4. HandedInOrder /\ FullGroupWakes
  BY DEF Init, HandedInOrder, FullGroupWakes
<1>. QED
  BY <1>1, <1>2, <1>3, <1>4, Zenon DEF CoalescerInv

(* What a turn of _drain_loop does to the queue, the group and the thread. *)
LEMMA TurnOfTheLoop ==
    ASSUME Configured, TypeOK, Members, HandedInOrder, UNCHANGED <<accepted, failed>>,
           LoopTurn \/ TakeGroup \/ AwaitGroup
    PROVE  /\ queue' \in Seq(Item) /\ inflight' \in Seq(Item) /\ taken' \in Seq(Item)
           /\ Len(inflight') <= BatchSize /\ arrival' \in BOOLEAN
           /\ drainer' \in {"none", "waiting", "running"}
           /\ IsInjective(queue)' /\ IsInjective(inflight)'
           /\ Range(queue') \cap Range(inflight') = {}
           /\ Range(queue') \cup Range(inflight') = Range(queue)
           /\ drainer' # "running" => inflight' = <<>> /\ thread' = Idle
           /\ drainer' = "running" => thread' = [batch |-> inflight', end |-> "busy"]
           /\ HandedInOrder' /\ FullGroupWakes'
<1>1. CASE TakeGroup
  <2>1. /\ queue' = Group[2] /\ inflight' = Group[1] /\ taken' = taken \o Group[1]
        /\ drainer' = "running" /\ arrival' = arrival
        /\ thread' = [batch |-> Group[1], end |-> "busy"]
    BY <1>1, Zenon DEF TakeGroup
  <2>2. queue \in Seq(Item) /\ taken \in Seq(Item) /\ BatchSize \in Nat \ {0}
        /\ IsInjective(queue) /\ arrival \in BOOLEAN
    BY Zenon DEF TypeOK, Configured, Members
  <2>3. /\ Group[1] \in Seq(Item) /\ Group[2] \in Seq(Item)
        /\ Len(Group[1]) <= BatchSize /\ queue = Group[1] \o Group[2]
        /\ Range(queue) = Range(Group[1]) \cup Range(Group[2])
        /\ IsInjective(Group[1]) /\ IsInjective(Group[2])
        /\ Range(Group[1]) \cap Range(Group[2]) = {}
    BY <2>2, GroupSplits, Zenon
  <2>4. taken \o queue = taken' \o queue'
    BY <2>1, <2>2, <2>3, ConcatAssociative
  <2>5. HandedInOrder' /\ FullGroupWakes'
    BY <2>1, <2>4, Zenon DEF HandedInOrder, FullGroupWakes
  <2>6. IsInjective(queue)' /\ IsInjective(inflight)'
    BY <2>1, <2>3, Zenon DEF IsInjective
  <2>7. taken' \in Seq(Item)
    BY <2>1, <2>2, <2>3
  <2>. QED
    BY <2>1, <2>2, <2>3, <2>5, <2>6, <2>7, Zenon
<1>2. CASE \/ AwaitGroup
           \/ queue = <<>> /\ drainer' = "none" /\ inflight' = <<>> /\ thread' = Idle
              /\ UNCHANGED <<queue, arrival, taken>>
  <2>1. /\ UNCHANGED <<queue, taken>> /\ inflight' = <<>> /\ thread' = Idle
        /\ drainer' \in {"none", "waiting"} /\ arrival' \in {arrival, FALSE}
        /\ drainer' = "waiting" => Len(queue) < BatchSize
    BY <1>2, Zenon DEF AwaitGroup
  <2>2. queue \in Seq(Item) /\ taken \in Seq(Item) /\ BatchSize \in Nat \ {0}
        /\ IsInjective(queue) /\ arrival \in BOOLEAN
    BY Zenon DEF TypeOK, Configured, Members
  <2>3. Range(inflight') = {} /\ IsInjective(inflight)' /\ IsInjective(queue)'
    BY <2>1, <2>2 DEF Range, IsInjective
  <2>4. HandedInOrder' /\ FullGroupWakes'
    BY <2>1, <2>2 DEF HandedInOrder, FullGroupWakes
  <2>5. arrival' \in BOOLEAN
    BY <2>1, <2>2, Zenon
  <2>6. Len(inflight') <= BatchSize /\ inflight' \in Seq(Item)
    BY <2>1, <2>2
  <2>. QED
    BY <2>1, <2>2, <2>3, <2>4, <2>5, <2>6, Zenon
<1>. QED
  BY <1>1, <1>2, Zenon DEF LoopTurn

(***************************************************************************)
(* Each step keeps it                                                      *)
(***************************************************************************)

LEMMA SubmitKeeps ==
    ASSUME Configured, CoalescerInv, NEW e \in Item, Submit(e) PROVE CoalescerInv'
<1>. USE DEF CoalescerInv
<1>1. /\ waiter[e] = "idle" /\ ~closing /\ queue' = Append(queue, e)
      /\ accepted' = Append(accepted, e) /\ arrival' = TRUE
      /\ drainer' = IF drainer = "none" THEN "created" ELSE drainer
      /\ future' = [future EXCEPT ![e] = "pending"]
      /\ waiter' = [waiter EXCEPT ![e] = "waiting"]
      /\ UNCHANGED <<inflight, thread, taken, did, closing, failed, closer>>
  BY Zenon DEF Submit, EnsureDrainer
<1>2. queue \in Seq(Item) /\ taken \in Seq(Item) /\ accepted \in Seq(Item)
  BY Zenon DEF TypeOK
<1>3. future[e] = "none" /\ e \notin Range(queue) \cup Range(inflight)
  BY <1>1, Zenon DEF Futures, Members
<1>4. /\ queue' \in Seq(Item) /\ accepted' \in Seq(Item) /\ Range(queue') = Range(queue) \cup {e}
      /\ IsInjective(queue')
  BY <1>1, <1>2, <1>3, RangeAppend, InjectiveAppend, Zenon DEF Members
<1>5. /\ future' \in [Item -> Outcome \cup {"none", "pending"}] /\ future'[e] = "pending"
      /\ \A f \in Item \ {e} : future'[f] = future[f]
  BY <1>1, Zenon DEF TypeOK
<1>6. TypeOK'
  <2>1. drainer' \in DrainerState
    BY <1>1, Zenon DEF TypeOK, DrainerState, Live
  <2>2. waiter' \in [Item -> {"idle", "waiting", "answered", "refused", "detached"}]
    BY <1>1, Zenon DEF TypeOK
  <2>. QED
    BY <1>1, <1>4, <1>5, <2>1, <2>2, Zenon DEF TypeOK
<1>7. Members'
  <2>1. Range(queue) \cup Range(inflight) \subseteq Item
    BY DEF TypeOK, Range
  <2>. QED
    BY <1>1, <1>3, <1>4, <1>5, <2>1, Zenon DEF Members, IsInjective
<1>8. Futures'
  BY <1>1, <1>5, Zenon DEF Futures, TypeOK
<1>9. Running'
  <2>1. Range(thread.batch) \subseteq Item
    BY DEF TypeOK, Range
  <2>. QED
    BY <1>1, <1>5, <2>1, Zenon DEF Running
<1>10. HandedInOrder'
  <2>1. Append(taken \o queue, e) = taken \o Append(queue, e)
    BY <1>2, AppendConcat, Zenon
  <2>. QED
    BY <1>1, <2>1, Zenon DEF HandedInOrder
<1>11. FullGroupWakes' /\ AnswersTrue'
  BY <1>1, <1>5, Zenon DEF FullGroupWakes, AnswersTrue
<1>. QED
  BY <1>6, <1>7, <1>8, <1>9, <1>10, <1>11, Zenon

(* The other steps of a request only move its own waiter. *)
LEMMA WaiterKeeps ==
    ASSUME CoalescerInv, NEW e \in Item, Refuse(e) \/ WaiterResumes(e) \/ WaiterCancelled(e)
    PROVE  CoalescerInv'
<1>. USE DEF CoalescerInv
<1>1. /\ UNCHANGED <<queue, arrival, drainer, inflight, thread, taken, did, future,
                     closing, failed, closer, accepted>>
      /\ \/ waiter[e] = "idle" /\ waiter' = [waiter EXCEPT ![e] = "refused"]
         \/ waiter[e] = "waiting" /\ waiter' = [waiter EXCEPT ![e] = "answered"]
         \/ waiter[e] = "waiting" /\ waiter' = [waiter EXCEPT ![e] = "detached"]
  BY Zenon DEF Refuse, WaiterResumes, WaiterCancelled, loopVars
<1>2. waiter \in [Item -> {"idle", "waiting", "answered", "refused", "detached"}]
  BY Zenon DEF TypeOK
<1>3. waiter' \in [Item -> {"idle", "waiting", "answered", "refused", "detached"}]
  BY <1>1, <1>2, Zenon
<1>4. TypeOK'
  BY <1>1, <1>3, Zenon DEF TypeOK
<1>5. Futures'
  BY <1>1, <1>2, Zenon DEF Futures
<1>6. Members' /\ Running'
  BY <1>1, Zenon DEF Members, Running, IsInjective
<1>7. HandedInOrder' /\ FullGroupWakes' /\ AnswersTrue'
  BY <1>1, Zenon DEF HandedInOrder, FullGroupWakes, AnswersTrue
<1>. QED
  BY <1>4, <1>5, <1>6, <1>7, Zenon

(* A turn of the loop after the outcomes of the last group, if there was    *)
(* one, are with its items.                                                 *)
LEMMA TurnKeeps ==
    ASSUME Configured, CoalescerInv,
           UNCHANGED <<did, waiter, closing, failed, closer, accepted>>,
           future' \in [Item -> Outcome \cup {"none", "pending"}],
           \A e \in Item \ Range(inflight) : future'[e] = future[e],
           \A e \in Range(inflight) : future'[e] \in Outcome,
           AnswersTrue',
           LoopTurn \/ TakeGroup \/ AwaitGroup
    PROVE  CoalescerInv'
<1>. USE DEF CoalescerInv
<1>1. /\ queue' \in Seq(Item) /\ inflight' \in Seq(Item) /\ taken' \in Seq(Item)
      /\ Len(inflight') <= BatchSize /\ arrival' \in BOOLEAN
      /\ drainer' \in {"none", "waiting", "running"}
      /\ IsInjective(queue)' /\ IsInjective(inflight)'
      /\ Range(queue') \cap Range(inflight') = {}
      /\ Range(queue') \cup Range(inflight') = Range(queue)
      /\ drainer' # "running" => inflight' = <<>> /\ thread' = Idle
      /\ drainer' = "running" => thread' = [batch |-> inflight', end |-> "busy"]
      /\ HandedInOrder' /\ FullGroupWakes'
  BY TurnOfTheLoop, Zenon
<1>2. Range(queue) \subseteq Item /\ Range(inflight) \subseteq Item
  BY DEF TypeOK, Range
<1>3. \A e \in Range(queue') \cup Range(inflight') : future'[e] = "pending"
  BY <1>1, <1>2, Zenon DEF Members
<1>4. thread' \in [batch : Seq(Item), end : {"idle", "busy", "list", "short", "raised"}]
  BY <1>1 DEF Idle
<1>5. TypeOK'
  BY <1>1, <1>4, Zenon DEF TypeOK, DrainerState, Live
<1>6. Members'
  BY <1>1, <1>3, Zenon DEF Members
<1>7. Futures'
  BY <1>2, Zenon DEF Futures, Members, Outcome
<1>8. Running'
  BY <1>1, <1>3 DEF Running, Idle
<1>. QED
  BY <1>1, <1>5, <1>6, <1>7, <1>8, Zenon

(* A drainer that has just started, or has slept, has no group. *)
LEMMA DrainerKeeps ==
    ASSUME Configured, CoalescerInv, DrainerStarts \/ DrainerWakes
    PROVE  CoalescerInv'
<1>. USE DEF CoalescerInv
<1>1. /\ UNCHANGED <<did, future, waiter, closing, failed, closer, accepted>>
      /\ drainer # "running" /\ (LoopTurn \/ TakeGroup \/ AwaitGroup)
  BY Zenon DEF DrainerStarts, DrainerWakes
<1>2. Range(inflight) = {}
  BY <1>1 DEF Running, Range
<1>3. future' \in [Item -> Outcome \cup {"none", "pending"}]
  BY <1>1, Zenon DEF TypeOK
<1>4. AnswersTrue'
  BY <1>1, Zenon DEF AnswersTrue
<1>. QED
  BY <1>1, <1>2, <1>3, <1>4, TurnKeeps, Zenon

(* The callback does something for the items of its group, which have no    *)
(* outcome yet or have failed with their drainer.                           *)
LEMMA ExecuteKeeps ==
    ASSUME Configured, CoalescerInv, ExecuteBatch PROVE CoalescerInv'
<1>. USE DEF CoalescerInv
<1>1. /\ thread.end = "busy"
      /\ UNCHANGED <<queue, arrival, drainer, inflight, taken, future, waiter,
                     closing, failed, closer, accepted>>
  BY Zenon DEF ExecuteBatch
<1>2. PICK r \in [Range(thread.batch) -> Effect] :
         did' = [e \in Item |-> IF e \in DOMAIN r THEN r[e] ELSE did[e]]
  BY Zenon DEF ExecuteBatch
<1>3. PICK end \in {"list", "short", "raised"} : thread' = [thread EXCEPT !.end = end]
  BY Zenon DEF ExecuteBatch
<1>4. Range(thread.batch) \subseteq Item /\ Effect \subseteq Outcome
  BY DEF TypeOK, Range, Configured
<1>5. /\ \A e \in Range(thread.batch) : did'[e] \in Outcome
      /\ \A e \in Item \ Range(thread.batch) : did'[e] = did[e]
      /\ did' \in [Item -> Outcome \cup {"none"}]
  BY <1>2, <1>4, Zenon DEF TypeOK
<1>6. /\ thread' \in [batch : Seq(Item), end : {"idle", "busy", "list", "short", "raised"}]
      /\ thread'.batch = thread.batch /\ thread'.end \in {"list", "short", "raised"}
  BY <1>3, Zenon DEF TypeOK
<1>7. TypeOK'
  BY <1>1, <1>5, <1>6, Zenon DEF TypeOK
<1>8. Members' /\ Futures'
  BY <1>1, Zenon DEF Members, Futures, IsInjective
<1>9. Running'
  BY <1>1, <1>5, <1>6, Zenon DEF Running
<1>10. AnswersTrue'
  BY <1>1, <1>5, Zenon DEF AnswersTrue, Running
<1>11. HandedInOrder' /\ FullGroupWakes'
  BY <1>1, Zenon DEF HandedInOrder, FullGroupWakes
<1>. QED
  BY <1>7, <1>8, <1>9, <1>10, <1>11, Zenon

(* _run_batch gives each item of the group its own outcome, or a failure. *)
LEMMA ReturnKeeps ==
    ASSUME Configured, CoalescerInv, BatchReturns PROVE CoalescerInv'
<1>. USE DEF CoalescerInv
<1>1. /\ drainer = "running" /\ thread.end # "busy" /\ LoopTurn
      /\ UNCHANGED <<did, waiter, closing, failed, closer, accepted>>
      /\ future' = [e \in Item |-> IF e \in Range(inflight) /\ future[e] = "pending"
                                   THEN Answer(e) ELSE future[e]]
  BY Zenon DEF BatchReturns, Resolve
<1>2. Range(inflight) \subseteq Item /\ \A e \in Range(inflight) : future[e] = "pending"
  BY DEF TypeOK, Range, Members
<1>3. \A e \in Range(inflight) : Answer(e) \in Outcome
                                /\ (Answer(e) \in {"hit", "miss"} => Answer(e) = did[e])
  BY <1>1, Zenon DEF Running, Answer, Outcome
<1>4. /\ \A e \in Item \ Range(inflight) : future'[e] = future[e]
      /\ \A e \in Range(inflight) : future'[e] = Answer(e)
      /\ future' \in [Item -> Outcome \cup {"none", "pending"}]
  BY <1>1, <1>2, <1>3, Zenon DEF TypeOK
<1>5. AnswersTrue'
  BY <1>1, <1>3, <1>4, Zenon DEF AnswersTrue
<1>. QED
  BY <1>1, <1>3, <1>4, <1>5, TurnKeeps, Zenon

(* _fail_everything leaves nothing to wait for, and shuts the door. *)
LEMMA FailureKeeps ==
    ASSUME Configured, CoalescerInv, drainer # "created", drainer \in Live, FailEverything
    PROVE  CoalescerInv'
<1>. USE DEF CoalescerInv
<1>1. /\ failed' = TRUE /\ closing' = TRUE /\ drainer' = "none"
      /\ inflight' = <<>> /\ queue' = <<>>
      /\ UNCHANGED <<arrival, thread, taken, did, waiter, closer, accepted>>
      /\ future' = [e \in Item |-> IF e \in Range(inflight \o queue) /\ future[e] = "pending"
                                   THEN "error" ELSE future[e]]
  BY Zenon DEF FailEverything, Resolve, Stranded
<1>2. \A e \in Item : \/ future'[e] = future[e]
                      \/ future[e] = "pending" /\ future'[e] = "error"
  BY <1>1, Zenon
<1>3. future' \in [Item -> Outcome \cup {"none", "pending"}]
  BY <1>1, Zenon DEF TypeOK, Outcome
<1>4. TypeOK'
  <2>1. queue' \in Seq(Item) /\ inflight' \in Seq(Item) /\ Len(inflight') <= BatchSize
    BY <1>1 DEF Configured
  <2>. QED
    BY <1>1, <1>3, <2>1, Zenon DEF TypeOK, DrainerState
<1>5. Members'
  BY <1>1 DEF Members, Range, IsInjective
<1>6. Futures' /\ AnswersTrue'
  BY <1>1, <1>2, Zenon DEF Futures, AnswersTrue
<1>7. Running'
  <2>1. Range(thread.batch) \subseteq Item
    BY DEF TypeOK, Range
  <2>. QED
    BY <1>1, <1>2, <2>1, Zenon DEF Running
<1>8. HandedInOrder' /\ FullGroupWakes'
  BY <1>1, Zenon DEF HandedInOrder, FullGroupWakes
<1>. QED
  BY <1>4, <1>5, <1>6, <1>7, <1>8, Zenon

LEMMA CancelKeeps ==
    ASSUME Configured, CoalescerInv, DrainerCancelled PROVE CoalescerInv'
<1>1. CASE drainer = "created"
  <2>. USE DEF CoalescerInv
  <2>1. /\ drainer' = "dead"
        /\ UNCHANGED <<queue, arrival, inflight, thread, taken, did, future,
                       waiter, closing, failed, closer, accepted>>
    BY <1>1, Zenon DEF DrainerCancelled
  <2>2. TypeOK'
    BY <2>1, Zenon DEF TypeOK, DrainerState
  <2>3. Members' /\ Futures' /\ AnswersTrue'
    BY <2>1, Zenon DEF Members, Futures, AnswersTrue, IsInjective
  <2>4. Running'
    BY <1>1, <2>1, Zenon DEF Running
  <2>5. HandedInOrder' /\ FullGroupWakes'
    BY <2>1, Zenon DEF HandedInOrder, FullGroupWakes
  <2>. QED
    BY <2>2, <2>3, <2>4, <2>5, Zenon
<1>2. CASE drainer # "created"
  BY <1>2, FailureKeeps, Zenon DEF DrainerCancelled, Configured
<1>. QED
  BY <1>1, <1>2, Zenon

LEMMA CloseKeeps ==
    ASSUME CoalescerInv, Close \/ CloseReturns \/ CloserCancelled
    PROVE  CoalescerInv'
<1>. USE DEF CoalescerInv
<1>1. /\ UNCHANGED <<queue, drainer, inflight, thread, taken, did, future, waiter,
                     failed, accepted>>
      /\ closer' \in {"idle", "closing", "returned", "cancelled"}
      /\ (closing' = TRUE /\ arrival' = TRUE) \/ UNCHANGED <<closing, arrival>>
  <2>1. CASE Close
    BY <2>1, Zenon DEF Close
  <2>2. CASE CloseReturns \/ CloserCancelled
    BY <2>2, Zenon DEF CloseReturns, CloserCancelled, loopVars
  <2>. QED
    BY <2>1, <2>2, Zenon
<1>2. /\ closing' \in BOOLEAN /\ arrival' \in BOOLEAN
      /\ (arrival => arrival') /\ (closing => closing')
  <2>1. closing \in BOOLEAN /\ arrival \in BOOLEAN
    BY Zenon DEF TypeOK
  <2>2. CASE closing' = TRUE /\ arrival' = TRUE
    BY <2>2, Zenon
  <2>3. CASE closing' = closing /\ arrival' = arrival
    BY <2>1, <2>3, Zenon
  <2>. QED
    BY <1>1, <2>2, <2>3, Zenon
<1>3. TypeOK'
  BY <1>1, <1>2, Zenon DEF TypeOK
<1>4. Members' /\ Futures' /\ AnswersTrue'
  BY <1>1, Zenon DEF Members, Futures, AnswersTrue, IsInjective
<1>5. Running'
  BY <1>1, <1>2, Zenon DEF Running
<1>6. HandedInOrder' /\ FullGroupWakes'
  BY <1>1, <1>2, Zenon DEF HandedInOrder, FullGroupWakes
<1>. QED
  BY <1>3, <1>4, <1>5, <1>6, Zenon

LEMMA ElsewhereKeeps ==
    ASSUME CoalescerInv, Elsewhere PROVE CoalescerInv'
<1>. USE DEF CoalescerInv
<1>1. /\ UNCHANGED <<queue, arrival, drainer, inflight, thread, taken, future, waiter,
                     closing, failed, closer, accepted>>
      /\ did' \in [Item -> Outcome \cup {"none"}]
      /\ \A e \in Item : future[e] # "none" => did'[e] = did[e]
  BY Zenon DEF Elsewhere, loopVars
<1>2. TypeOK' /\ Members' /\ Futures' /\ AnswersTrue'
  BY <1>1 DEF TypeOK, Members, Futures, AnswersTrue, IsInjective
<1>3. Running'
  <2>1. Range(inflight) \subseteq Item
    BY DEF TypeOK, Range
  <2>. QED
    BY <1>1, <2>1, Zenon DEF Running, Members
<1>4. HandedInOrder' /\ FullGroupWakes'
  BY <1>1, Zenon DEF HandedInOrder, FullGroupWakes
<1>. QED
  BY <1>2, <1>3, <1>4, Zenon

(* Together: the invariant is inductive. *)
LEMMA StepKeeps ==
    ASSUME Configured, CoalescerInv, Next \/ Elsewhere PROVE CoalescerInv'
<1>1. ASSUME NEW e \in Item, Request(e) PROVE CoalescerInv'
  BY <1>1, SubmitKeeps, WaiterKeeps, Zenon DEF Request
<1>2. CASE DrainerStarts \/ DrainerWakes
  BY <1>2, DrainerKeeps, Zenon
<1>3. CASE ExecuteBatch
  BY <1>3, ExecuteKeeps, Zenon
<1>4. CASE BatchReturns
  BY <1>4, ReturnKeeps, Zenon
<1>5. CASE DrainerCancelled
  BY <1>5, CancelKeeps, Zenon
<1>6. CASE Close \/ CloseReturns \/ CloserCancelled
  BY <1>6, CloseKeeps, Zenon
<1>7. CASE Elsewhere
  BY <1>7, ElsewhereKeeps, Zenon
<1>. QED
  BY <1>1, <1>2, <1>3, <1>4, <1>5, <1>6, <1>7, Zenon DEF Next

(***************************************************************************)
(* What follows                                                            *)
(***************************************************************************)

(* While a group is in the database no step starts another. *)
LEMMA OneGroupStep ==
    ASSUME CoalescerInv, Next \/ Elsewhere, thread.end = "busy"
    PROVE  thread'.batch = thread.batch
<1>1. /\ drainer = "running" \/ (drainer = "none" /\ closing)
      /\ thread \in [batch : Seq(Item), end : {"idle", "busy", "list", "short", "raised"}]
  BY Zenon DEF CoalescerInv, Running, TypeOK
<1>2. ASSUME NEW e \in Item, Request(e) PROVE thread' = thread
  BY <1>2, Zenon DEF Request, Submit, Refuse, WaiterResumes, WaiterCancelled, loopVars
<1>3. CASE DrainerStarts \/ DrainerWakes \/ BatchReturns
  BY <1>1, <1>3, Zenon DEF DrainerStarts, DrainerWakes, BatchReturns
<1>4. CASE ExecuteBatch
  BY <1>1, <1>4, Zenon DEF ExecuteBatch
<1>5. CASE DrainerCancelled \/ Close \/ CloseReturns \/ CloserCancelled \/ Elsewhere
  BY <1>5, Zenon DEF DrainerCancelled, FailEverything, Close, CloseReturns, CloserCancelled,
     Elsewhere, loopVars
<1>. QED
  BY <1>2, <1>3, <1>4, <1>5, Zenon DEF Next

(* A drainer that is never cancelled before its first step always runs its  *)
(* handler, so its slot holds no dead task.                                 *)
NothingStranded == drainer # "dead" /\ NobodyStranded

LEMMA StrandedStep ==
    ASSUME Configured, "created" \notin CancelAt, CoalescerInv, NothingStranded,
           Next \/ Elsewhere
    PROVE  NothingStranded'
<1>. USE DEF NothingStranded, NobodyStranded
<1>1. /\ queue \in Seq(Item) /\ inflight \in Seq(Item)
      /\ Range(queue) \subseteq Item /\ Range(inflight) \subseteq Item
  BY DEF CoalescerInv, TypeOK, Range
<1>2. ASSUME NEW e \in Item, Submit(e) PROVE NothingStranded'
  <2>1. Range(queue') = Range(queue) \cup {e}
    BY <1>1, <1>2, RangeAppend, Zenon DEF Submit
  <2>2. drainer' \in Live
    BY <1>2, Zenon DEF Submit, EnsureDrainer, CoalescerInv, TypeOK, DrainerState, Live
  <2>3. \A f \in Item \ {e} : future'[f] = future[f]
    BY <1>2, Zenon DEF Submit, CoalescerInv, TypeOK
  <2>4. inflight' = inflight
    BY <1>2, Zenon DEF Submit
  <2>. QED
    BY <2>1, <2>2, <2>3, <2>4, Zenon DEF Live
<1>3. ASSUME NEW e \in Item, Refuse(e) \/ WaiterResumes(e) \/ WaiterCancelled(e)
      PROVE  NothingStranded'
  BY <1>3, Zenon DEF Refuse, WaiterResumes, WaiterCancelled, loopVars
<1>4. ASSUME LoopTurn \/ TakeGroup \/ AwaitGroup, UNCHANGED <<accepted, failed>>,
             \A e \in Item : future'[e] = "pending" =>
                future[e] = "pending" /\ e \notin Range(inflight),
             drainer' = "none" => queue = <<>>
      PROVE  NothingStranded'
  <2>1. /\ drainer' \in {"none", "waiting", "running"}
        /\ Range(queue') \cup Range(inflight') = Range(queue)
    BY <1>4, TurnOfTheLoop, Zenon DEF CoalescerInv
  <2>2. drainer' = "none" => Range(queue) = {}
    BY <1>4 DEF Range
  <2>. QED
    BY <1>4, <2>1, <2>2, Zenon DEF Live
<1>5. LoopTurn \/ TakeGroup \/ AwaitGroup => (drainer' = "none" => queue = <<>>)
  BY Zenon DEF LoopTurn, TakeGroup, AwaitGroup
<1>6. CASE DrainerStarts \/ DrainerWakes
  <2>1. /\ LoopTurn \/ TakeGroup \/ AwaitGroup
        /\ UNCHANGED <<future, accepted, failed>> /\ inflight = <<>>
    BY <1>6, Zenon DEF DrainerStarts, DrainerWakes, CoalescerInv, Running
  <2>2. Range(inflight) = {}
    BY <2>1 DEF Range
  <2>. QED
    BY <1>4, <1>5, <2>1, <2>2, Zenon
<1>7. CASE BatchReturns
  <2>1. /\ LoopTurn /\ UNCHANGED <<accepted, failed>>
        /\ drainer = "running" /\ thread.end # "busy"
        /\ future' = [e \in Item |-> IF e \in Range(inflight) /\ future[e] = "pending"
                                     THEN Answer(e) ELSE future[e]]
    BY <1>7, Zenon DEF BatchReturns, Resolve
  <2>2. \A e \in Range(inflight) : Answer(e) # "pending"
    BY <2>1, Zenon DEF CoalescerInv, Running, Answer, Outcome
  <2>. QED
    BY <1>4, <1>5, <2>1, <2>2, Zenon
<1>8. CASE DrainerCancelled
  <2>1. FailEverything
    BY <1>8, Zenon DEF DrainerCancelled
  <2>2. Range(inflight \o queue) = Range(inflight) \cup Range(queue)
    BY <1>1, RangeConcat, Zenon
  <2>3. \A e \in Item : future'[e] # "pending"
    BY <2>1, <2>2, Zenon DEF FailEverything, Resolve, Stranded
  <2>. QED
    BY <2>1, <2>3, Zenon DEF FailEverything
<1>9. CASE ExecuteBatch \/ Close \/ CloseReturns \/ CloserCancelled \/ Elsewhere
  BY <1>9, Zenon DEF ExecuteBatch, Close, CloseReturns, CloserCancelled, Elsewhere, loopVars
<1>. QED
  BY <1>2, <1>3, <1>6, <1>7, <1>8, <1>9, Zenon DEF Next, Request

(***************************************************************************)
(* The coalescer implements AcceptedWork                                   *)
(***************************************************************************)

(* The state of an item, as AcceptedWork sees it. *)
Work == [e \in Item |->
           IF waiter[e] = "refused" THEN "refused"
           ELSE IF future[e] = "none" THEN "new"
           ELSE IF future[e] = "pending" THEN "accepted" ELSE "answered"]
Doors == IF closing THEN "shut" ELSE "open"

LEMMA PromiseInit == Init => Promise!Init
BY Zenon DEF Init, Promise!Init

LEMMA PromiseStep ==
    ASSUME Configured, "created" \notin CancelAt, CoalescerInv, NothingStranded,
           Next \/ Elsewhere
    PROVE  Promise!Next \/ UNCHANGED Promise!vars
<1>. DEFINE To(S, s) == [e \in Item |-> IF e \in S THEN s ELSE Work[e]]
            Unchanged == Work' = Work /\ Doors' = Doors /\ closer' = closer
<1>0. /\ Promise!vars = <<Work, Doors, closer>>
      /\ Promise!Pending = {e \in Item : Work[e] = "accepted"}
      /\ \A S, s : Promise!To(S, s) = To(S, s)
  BY Zenon DEF Promise!vars, Promise!Pending, Promise!To, Work, Doors
<1>1. Unchanged => UNCHANGED Promise!vars
  BY Zenon DEF Promise!vars, Work, Doors
<1>2. /\ waiter \in [Item -> {"idle", "waiting", "answered", "refused", "detached"}]
      /\ future \in [Item -> Outcome \cup {"none", "pending"}]
      /\ Range(queue) \subseteq Item /\ Range(inflight) \subseteq Item
      /\ \A e \in Item : future[e] = "none" <=> waiter[e] \in {"idle", "refused"}
      /\ \A e \in Range(queue) \cup Range(inflight) : future[e] = "pending"
      /\ queue \in Seq(Item) /\ inflight \in Seq(Item)
  BY DEF CoalescerInv, TypeOK, Futures, Members, Range
<1>3. ASSUME NEW e \in Item, Submit(e) PROVE Promise!Accept(e)
  <2>1. Work[e] = "new" /\ Doors = "open" /\ Work' = To({e}, "accepted")
        /\ Doors' = Doors /\ closer' = closer
    BY <1>2, <1>3, Zenon DEF Submit, Work, Doors
  <2>. QED
    BY <2>1, Zenon DEF Promise!Accept, Promise!To, Work, Doors
<1>4. ASSUME NEW e \in Item, Refuse(e) PROVE Promise!Refuse(e)
  <2>1. Work[e] = "new" /\ Doors = "shut" /\ Work' = To({e}, "refused")
        /\ Doors' = Doors /\ closer' = closer
    BY <1>2, <1>4, Zenon DEF Refuse, Work, Doors
  <2>. QED
    BY <2>1, Zenon DEF Promise!Refuse, Promise!To, Work, Doors
<1>5. ASSUME NEW e \in Item, WaiterResumes(e) \/ WaiterCancelled(e) PROVE Unchanged
  BY <1>2, <1>5 DEF WaiterResumes, WaiterCancelled, Work, Doors
<1>6. CASE DrainerStarts \/ DrainerWakes \/ ExecuteBatch \/ Elsewhere
  BY <1>1, <1>6 DEF DrainerStarts, DrainerWakes, ExecuteBatch, Elsewhere, Work, Doors
<1>7. CASE BatchReturns
  <2>1. /\ drainer = "running" /\ thread.end # "busy"
        /\ UNCHANGED <<waiter, closing, closer>>
        /\ future' = [e \in Item |-> IF e \in Range(inflight) /\ future[e] = "pending"
                                     THEN Answer(e) ELSE future[e]]
    BY <1>7, Zenon DEF BatchReturns, Resolve
  <2>2. \A e \in Range(inflight) : Answer(e) \in Outcome
    BY <2>1, Zenon DEF CoalescerInv, Running, Answer, Outcome
  <2>3. \A e \in Range(inflight) : Answer(e) \notin {"none", "pending"}
    BY <2>2, Zenon DEF Outcome
  <2>4. Work' = To(Range(inflight), "answered") /\ Doors' = Doors /\ closer' = closer
    BY <1>2, <2>1, <2>3, Zenon DEF Work, Doors
  <2>5. CASE Range(inflight) = {}
    BY <1>1, <2>4, <2>5, Zenon DEF Work
  <2>6. CASE Range(inflight) # {}
    <3>1. Range(inflight) \in SUBSET Promise!Pending
      BY <1>0, <1>2, Zenon DEF Work
    <3>2. Promise!Answer
      BY <2>4, <2>6, <3>1, Zenon DEF Promise!Answer, Promise!To, Work, Doors
    <3>. QED
      BY <3>2, Zenon DEF Promise!Next
  <2>. QED
    BY <2>5, <2>6, Zenon
<1>8. CASE DrainerCancelled
  <2>1. FailEverything
    BY <1>8, Zenon DEF DrainerCancelled
  <2>2. Range(inflight \o queue) = Range(inflight) \cup Range(queue)
    BY <1>2, RangeConcat, Zenon
  <2>3. \A e \in Item : future'[e] = IF future[e] = "pending" THEN "error" ELSE future[e]
    BY <2>1, <2>2, Zenon DEF FailEverything, Resolve, Stranded, NothingStranded, NobodyStranded
  <2>4. Work' = To(Promise!Pending, "answered") /\ Doors' = "shut" /\ closer' = closer
    BY <1>0, <1>2, <2>1, <2>3, Zenon DEF FailEverything, Work, Doors
  <2>5. Promise!GiveUp
    BY <2>4, Zenon DEF Promise!GiveUp, Promise!To, Work, Doors
  <2>. QED
    BY <2>5, Zenon DEF Promise!Next
<1>9. drainer \in {"none", "dead"} => Promise!Pending = {}
  BY <1>0, <1>2, Zenon DEF NothingStranded, NobodyStranded, Work, Live
<1>10. CASE Close
  <2>1. /\ closer = "idle" /\ Work' = Work /\ Doors' = "shut"
        /\ closer' = IF drainer = "none" THEN "returned" ELSE "closing"
    BY <1>10, Zenon DEF Close, Work, Doors
  <2>2. Promise!Close
    BY <1>9, <2>1, Zenon DEF Promise!Close, Work, Doors
  <2>. QED
    BY <2>2, Zenon DEF Promise!Next
<1>11. CASE CloseReturns
  <2>1. Promise!Return
    BY <1>9, <1>11, Zenon DEF CloseReturns, Promise!Return
  <2>. QED
    BY <2>1, Zenon DEF Promise!Next
<1>12. CASE CloserCancelled
  <2>1. Promise!CallerGone
    BY <1>12, Zenon DEF CloserCancelled, Promise!CallerGone
  <2>. QED
    BY <2>1, Zenon DEF Promise!Next
<1>. QED
  BY <1>1, <1>3, <1>4, <1>5, <1>6, <1>7, <1>8, <1>10, <1>11, <1>12, Zenon
  DEF Next, Request, Promise!Next
=============================================================================
