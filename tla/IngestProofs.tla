----------------------------- MODULE IngestProofs -----------------------------
(***************************************************************************)
(* The safety proofs of ingest: for any number of requests, workers and    *)
(* correlation slots, any platforms and any bounds.                        *)
(*                                                                         *)
(* The lemmas are about the steps of Ingest, under what module Gateway's   *)
(* coalescer has to respect: the groups it starts are made of requests     *)
(* that wait for one, and it hands on the outcomes that the groups had.    *)
(* GatewayProofs shows that it does.                                       *)
(***************************************************************************)
EXTENDS Ingest, WellFoundedInduction, TLAPS

RowRecord == [disposition : {"none", "merged", "opened", "rejected"},
              case : Req \cup {None}, at : 0..MaxTime]
Outcome == {"hit", "miss", "error"}
OutRecord == [kind : Outcome, case : Req \cup {None}, at : 0..MaxTime]
BatchRecord == [on : BOOLEAN, items : Seq(Req), out : Seq(OutRecord), fatal : BOOLEAN]
ResultRecord == [kind : {"none", "hit", "miss", "error"}, case : Req \cup {None}]
ReadRecord == [window : Int, found : Req \cup {None}, at : 0..MaxTime]
AnswerRecord == [kind : {"none", "merged", "opened", "rejected", "error"} \cup Unsaved,
                 case : Req \cup {None}]
Place == {"new", "queued", "miss", "lock", "find", "write", "start", "done", "gone"}

(* IngestTypeOK, with the types that it leaves out. *)
IngestTyped ==
    /\ now \in 0..MaxTime /\ faults \in 0..MaxFaults
    /\ platform \in Platforms \cup {FirstPlatform}
    /\ row \in [Req -> RowRecord]
    /\ case \in [Req -> {"none", "open", "closed"}] /\ started \in SUBSET Req
    /\ lock \in [Slot -> Req \cup {None}]
    /\ pc \in [Req -> Place] /\ home \in [Req -> Worker \cup {None}]
    /\ result \in [Req -> ResultRecord]
    /\ batch \in [Worker -> BatchRecord]
    /\ \A w \in Worker : Len(batch[w].out) <= Len(batch[w].items)
                         /\ Len(batch[w].items) <= BatchSize
    /\ read \in [Req -> ReadRecord] /\ answer \in [Req -> AnswerRecord]

(* The fields of a row that is written and of an answer that is given. *)
LEMMA RowFields ==
    ASSUME NEW x, NEW d, NEW c, NEW at, x = Row(d, c, at)
    PROVE  x.disposition = d /\ x.case = c
  BY Zenon DEF Row

LEMMA AnswerFields ==
    ASSUME NEW x, NEW k, NEW c, x = [kind |-> k, case |-> c]
    PROVE  x.kind = k /\ x.case = c
  BY Zenon

LEMMA Bounds ==
    /\ BatchSize \in Nat \ {0} /\ None \notin Req /\ None \notin Worker
    /\ MaxTime \in Nat /\ MaxFaults \in Nat /\ DefaultWindow \in Int
    /\ 0 \in 0..MaxTime
BY IngestAssumption

LEMMA TypedImplies == IngestTyped => IngestTypeOK
BY Zenon DEF IngestTyped, IngestTypeOK, RowRecord, ResultRecord, Place, BatchRecord

(***************************************************************************)
(* The helpers of the model                                                *)
(***************************************************************************)

LEMMA CandidatesTyped ==
    ASSUME NEW rows \in [Req -> RowRecord], NEW slot, NEW window
    PROVE  Candidates(rows, slot, window) \subseteq Req
BY Zenon DEF Candidates, RowRecord

LEMMA WindowsTyped ==
    ASSUME NEW p \in Platforms \cup {FirstPlatform}
    PROVE  FusedWindow(p.cfg) \subseteq TxnWindow(p.cfg) /\ TxnWindow(p.cfg) \subseteq Int
<1>1. Override(p.cfg) \in Value /\ DefaultWindow \in Int
  BY IngestAssumption, Zenon DEF Override
<1>. QED
  BY <1>1, Zenon DEF Value, FusedWindow, TxnWindow

LEMMA SeenTyped ==
    ASSUME IngestTyped, NEW w \in Worker
    PROVE  Seen(w) \in [Req -> RowRecord]
<1>. DEFINE own == {i \in 1..Len(batch[w].out) : batch[w].out[i].kind = "hit"}
<1>1. row \in [Req -> RowRecord] /\ batch[w].out \in Seq(OutRecord)
  BY Zenon DEF IngestTyped, BatchRecord
<1>2. ASSUME NEW e \in Req, \E i \in own : batch[w].items[i] = e
      PROVE  Merged(batch[w].out[CHOOSE i \in own : batch[w].items[i] = e]) \in RowRecord
  <2>. DEFINE k == CHOOSE i \in own : batch[w].items[i] = e
  <2>1. k \in 1..Len(batch[w].out)
    BY <1>2, Zenon
  <2>. HIDE DEF k
  <2>2. batch[w].out[k] \in OutRecord
    BY <1>1, <2>1
  <2>3. Merged(batch[w].out[k]) \in RowRecord
    BY <2>2, Zenon DEF Merged, RowRecord, OutRecord
  <2>. QED
    BY <2>3, Zenon DEF k
<1>. QED
  BY <1>1, <1>2, Zenon DEF Seen

(* What the group's own transaction sees of a request. *)
LEMMA SeenRow ==
    ASSUME IngestTyped, NEW w \in Worker, NEW e \in Req
    PROVE  \/ Seen(w)[e] = row[e]
              /\ \A i \in 1..Len(batch[w].out) :
                    batch[w].items[i] = e => batch[w].out[i].kind # "hit"
           \/ \E i \in 1..Len(batch[w].out) :
                 /\ batch[w].items[i] = e /\ batch[w].out[i].kind = "hit"
                 /\ Seen(w)[e] = Merged(batch[w].out[i])
<1>. DEFINE own == {i \in 1..Len(batch[w].out) : batch[w].out[i].kind = "hit"}
<1>1. CASE \E i \in own : batch[w].items[i] = e
  <2>. DEFINE k == CHOOSE i \in own : batch[w].items[i] = e
  <2>1. k \in own /\ batch[w].items[k] = e
    BY <1>1, Zenon
  <2>2. Seen(w)[e] = Merged(batch[w].out[k])
    BY <1>1, Zenon DEF Seen
  <2>. HIDE DEF k
  <2>. QED
    BY <2>1, <2>2, Zenon
<1>2. CASE ~\E i \in own : batch[w].items[i] = e
  BY <1>2, Zenon DEF Seen
<1>. QED
  BY <1>1, <1>2, Zenon

(* What the list of a group says of a member, and that others keep theirs. *)
LEMMA AnsweredResult ==
    ASSUME IngestTyped, NEW w \in Worker, NEW fatal \in BOOLEAN,
           fatal \/ Len(batch[w].out) = Len(batch[w].items), Answered(w, fatal)
    PROVE  /\ result' \in [Req -> ResultRecord]
           /\ \A r \in Req \ Range(batch[w].items) : result'[r] = result[r]
           /\ \A r \in Range(batch[w].items) : \E i \in 1..Len(batch[w].items) :
                 /\ batch[w].items[i] = r
                 /\ fatal => result'[r].kind = "error"
                 /\ ~fatal => result'[r].kind = batch[w].out[i].kind
                              /\ (result'[r].kind = "hit" =>
                                    result'[r].case = batch[w].out[i].case)
           /\ \A r \in Range(batch[w].items) : result'[r].kind \in Outcome
<1>. DEFINE b == batch[w]
            n == Len(b.items)
            ix(r) == CHOOSE i \in 1..n : b.items[i] = r
            new(r) == [kind |-> Outcomes(b, fatal)[ix(r)],
                       case |-> IF Outcomes(b, fatal)[ix(r)] = "hit"
                                THEN b.out[ix(r)].case ELSE None]
<1>1. b.items \in Seq(Req) /\ b.out \in Seq(OutRecord) /\ n \in Nat
      /\ result \in [Req -> ResultRecord]
  BY DEF IngestTyped, BatchRecord
<1>2. result' = [r \in Req |-> IF r \notin Range(b.items) THEN result[r] ELSE new(r)]
  BY Zenon DEF Answered
<1>3. ASSUME NEW r \in Range(b.items) PROVE r \in Req /\ ix(r) \in 1..n /\ b.items[ix(r)] = r
  <2>1. r \in Req /\ \E i \in 1..n : b.items[i] = r
    BY <1>1 DEF Range
  <2>. QED
    BY <2>1, Zenon
<1>4. ASSUME NEW i \in 1..n
      PROVE  /\ fatal => Outcomes(b, fatal)[i] = "error"
             /\ ~fatal => Outcomes(b, fatal)[i] = b.out[i].kind /\ b.out[i] \in OutRecord
  BY <1>1 DEF Outcomes
<1>. HIDE DEF b, n, ix
<1>5. ASSUME NEW r \in Range(b.items)
      PROVE  /\ new(r) \in ResultRecord /\ new(r).kind \in Outcome
             /\ fatal => new(r).kind = "error"
             /\ ~fatal => new(r).kind = b.out[ix(r)].kind
                          /\ (new(r).kind = "hit" => new(r).case = b.out[ix(r)].case)
  BY <1>3, <1>4, Zenon DEF ResultRecord, OutRecord, Outcome
<1>6. \A r \in Range(b.items) : result'[r] = new(r)
  BY <1>2, <1>3, Zenon
<1>. HIDE DEF new
<1>7. result' \in [Req -> ResultRecord]
  BY <1>1, <1>2, <1>5, Zenon
<1>8. \A r \in Req \ Range(b.items) : result'[r] = result[r]
  BY <1>2, Zenon
<1>. QED
  BY <1>3, <1>5, <1>6, <1>7, <1>8 DEF b, n

(***************************************************************************)
(* The steps, and their types                                              *)
(***************************************************************************)

(* A group of w that may be started: requests of w that wait for one, each  *)
(* in it once.                                                              *)
Fresh(w, items) ==
    /\ items \in Seq(Req) /\ Len(items) <= BatchSize /\ IsInjective(items)
    /\ ~batch[w].on
    /\ \A r \in Range(items) :
          home[r] = w /\ pc[r] \in {"queued", "gone"} /\ result[r].kind = "none"

(* A hit or a miss is handed on only if it is what the group had. *)
Honest(r, outcome) == outcome \in {"hit", "miss"} => result[r].kind = outcome

OnlyFaults ==
    /\ Fault
    /\ UNCHANGED <<now, platform, dbVars, lock, batch, result, pc, home, read, answer>>

(* Every step of a request's handler. *)
HandlerStep(r) ==
    \/ Refuse(r) \/ RejectPayload(r) \/ Cancelled(r)
    \/ \E w \in Worker : Receive(r, w) \/ Refused(r, w)
    \/ \E outcome \in Outcome \cup {"none", "pending"} :
          Honest(r, outcome) /\ Resume(r, outcome)
    \/ Txn(r) \/ TxnFails(r)

(* Every step of a worker's group. *)
GroupStep(w) ==
    \/ \E items \in Seq(Req) : Fresh(w, items) /\ StartBatch(w, items)
    \/ FusedStatement(w) \/ StatementFails(w) \/ FinishBatch(w) \/ BatchRaises(w)
    \/ Crash(w)

IngestStep ==
    \/ \E r \in Req : HandlerStep(r) \/ CaseCloses(r)
    \/ \E w \in Worker : GroupStep(w)
    \/ PlatformChanges \/ Tick \/ OnlyFaults
    \/ UNCHANGED ingestVars

LEMMA FaultTyped ==
    ASSUME faults \in 0..MaxFaults, Fault \/ UNCHANGED faults PROVE faults' \in 0..MaxFaults
BY Bounds DEF Fault

LEMMA ReplyTyped ==
    ASSUME IngestTyped, NEW r \in Req, NEW c \in Req \cup {None},
           NEW kind \in {"merged", "opened", "rejected", "error"}, Reply(r, kind, c)
    PROVE  pc' \in [Req -> Place] /\ answer' \in [Req -> AnswerRecord]
<1>1. [kind |-> kind, case |-> c] \in AnswerRecord
  BY Zenon DEF AnswerRecord
<1>. QED
  BY <1>1, Zenon DEF IngestTyped, Reply, Place

LEMMA InitTyped == IngestInit => IngestTyped
<1>. SUFFICES ASSUME IngestInit PROVE IngestTyped
  BY Zenon
<1>1. NoBatch \in BatchRecord /\ Len(NoBatch.out) <= Len(NoBatch.items)
      /\ Len(NoBatch.items) <= BatchSize
  BY Bounds DEF NoBatch, BatchRecord
<1>2. NoRead \in ReadRecord /\ 0 \in 0..MaxFaults
  BY Bounds DEF NoRead, ReadRecord
<1>. QED
  BY <1>1, <1>2, Bounds, Zenon
  DEF IngestInit, IngestTyped, AnswerRecord, ResultRecord, RowRecord, Place

(* The time of an insert is a time. *)
LEMMA InsertTimesTyped ==
    ASSUME IngestTyped, NEW r \in Req PROVE InsertTimes(r) \subseteq 0..MaxTime
<1>1. now \in 0..MaxTime /\ read[r].at \in 0..MaxTime
  BY Zenon DEF IngestTyped, ReadRecord
<1>. QED
  BY <1>1, Bounds DEF InsertTimes

LEMMA WrittenTyped ==
    ASSUME IngestTyped, NEW r \in Req, NEW at \in 0..MaxTime
    PROVE  Written(r, at).row \in [Req -> RowRecord]
           /\ Written(r, at).case \in [Req -> {"none", "open", "closed"}]
<1>1. /\ Row("rejected", None, at) \in RowRecord /\ Row("opened", r, at) \in RowRecord
      /\ Row("merged", read[r].found, at) \in RowRecord
  BY Zenon DEF IngestTyped, Row, RowRecord, ReadRecord
<1>2. CASE pc[r] = "miss"
  BY <1>1, <1>2, Zenon DEF Written, Reject, IngestTyped
<1>3. CASE pc[r] # "miss" /\ read[r].found = None
  BY <1>1, <1>3, Zenon DEF Written, IngestTyped
<1>4. CASE pc[r] # "miss" /\ read[r].found # None
  BY <1>1, <1>4, Zenon DEF Written, IngestTyped
<1>. QED
  BY <1>2, <1>3, <1>4, Zenon

(* What the transaction of a request writes is its own row and case.        *)
LEMMA WrittenFrame ==
    ASSUME IngestTyped, NEW r \in Req, NEW at
    PROVE  /\ \A e \in Req \ {r} :
                 Written(r, at).row[e] = row[e] /\ Written(r, at).case[e] = case[e]
           /\ pc[r] = "miss" => Written(r, at).row[r] = Row("rejected", None, at)
                                /\ Written(r, at).case[r] = case[r]
           /\ pc[r] # "miss" /\ read[r].found = None =>
                 Written(r, at).row[r] = Row("opened", r, at) /\ Written(r, at).case[r] = "open"
           /\ pc[r] # "miss" /\ read[r].found # None =>
                 Written(r, at).row[r] = Row("merged", read[r].found, at)
                 /\ Written(r, at).case[r] = case[r]
<1>2. CASE pc[r] = "miss"
  BY <1>2, Zenon DEF Written, Reject, IngestTyped
<1>3. CASE pc[r] # "miss" /\ read[r].found = None
  BY <1>3, Zenon DEF Written, IngestTyped
<1>4. CASE pc[r] # "miss" /\ read[r].found # None
  BY <1>4, Zenon DEF Written, IngestTyped
<1>. QED
  BY <1>2, <1>3, <1>4, Zenon

(* A handler that is refused, waits, goes or is resumed. *)
LEMMA HandlerTyped ==
    ASSUME IngestTyped, NEW r \in Req,
           \/ Refuse(r) \/ RejectPayload(r) \/ Cancelled(r)
           \/ \E w \in Worker : Receive(r, w) \/ Refused(r, w)
           \/ \E outcome : Resume(r, outcome)
    PROVE  IngestTyped'
<1>1. UNCHANGED <<now, platform, row, case, started, lock, batch, result, read>>
  BY Zenon DEF Refuse, RejectPayload, Cancelled, Receive, Refused, Resume, dbVars
<1>2. faults' \in 0..MaxFaults
  <2>1. Fault \/ UNCHANGED faults
    BY Zenon DEF Refuse, RejectPayload, Cancelled, Receive, Refused, Resume
  <2>. QED
    BY <2>1, FaultTyped, Zenon DEF IngestTyped
<1>3. home' \in [Req -> Worker \cup {None}]
  BY Zenon DEF IngestTyped, Refuse, RejectPayload, Cancelled, Receive, Refused, Resume
<1>4. pc' \in [Req -> Place] /\ answer' \in [Req -> AnswerRecord]
  <2>1. CASE Refuse(r) \/ RejectPayload(r)
    <3>1. PICK kind \in Unsaved : answer' = [answer EXCEPT ![r].kind = kind]
      BY <2>1, Zenon DEF Refuse, RejectPayload, Unsaved
    <3>2. answer \in [Req -> AnswerRecord] /\ [answer[r] EXCEPT !.kind = kind] \in AnswerRecord
      BY Zenon DEF IngestTyped, AnswerRecord
    <3>3. pc' \in [Req -> Place]
      BY <2>1, Zenon DEF Refuse, RejectPayload, IngestTyped, Place
    <3>. QED
      BY <3>1, <3>2, <3>3, Zenon
  <2>2. CASE Cancelled(r) \/ \E w \in Worker : Receive(r, w)
    BY <2>2, Zenon DEF Cancelled, Receive, IngestTyped, Place
  <2>3. CASE \E w \in Worker : Refused(r, w)
    BY <2>3, ReplyTyped, Zenon DEF Refused
  <2>4. CASE \E outcome : Resume(r, outcome)
    <3>1. result[r].case \in Req \cup {None}
      BY Zenon DEF IngestTyped, ResultRecord
    <3>2. CASE Reply(r, "merged", result[r].case) \/ Reply(r, "error", None)
      BY <3>1, <3>2, ReplyTyped, Zenon
    <3>3. CASE pc' = [pc EXCEPT ![r] = "miss"] /\ UNCHANGED answer
      BY <3>3, Zenon DEF IngestTyped, Place
    <3>. QED
      BY <2>4, <3>2, <3>3, Zenon DEF Resume
  <2>. QED
    BY <2>1, <2>2, <2>3, <2>4, Zenon
<1>. QED
  BY <1>1, <1>2, <1>3, <1>4, Zenon DEF IngestTyped

LEMMA UnlockedTyped ==
    ASSUME IngestTyped, NEW r PROVE Unlocked(r) \in [Slot -> Req \cup {None}]
BY Zenon DEF IngestTyped, Unlocked

(* The request's own transaction. *)
LEMMA TxnTyped ==
    ASSUME IngestTyped, NEW r \in Req, Txn(r) \/ TxnFails(r)
    PROVE  IngestTyped'
<1>1. CASE ReadPlatform(r)
  <2>1. UNCHANGED <<now, faults, platform, case, started, lock, batch, result, home>>
    BY <1>1, Zenon DEF ReadPlatform
  <2>2. CASE ~Online /\ row' = Written(r, now).row /\ Reply(r, "rejected", None) /\ UNCHANGED read
    BY <2>1, <2>2, WrittenTyped, ReplyTyped, Zenon DEF IngestTyped
  <2>3. CASE Reply(r, "error", None) /\ UNCHANGED <<row, read>>
    BY <2>1, <2>3, ReplyTyped, Zenon DEF IngestTyped
  <2>4. CASE /\ \E v \in TxnWindow(platform.cfg) : read' = [read EXCEPT ![r].window = v]
             /\ pc' = [pc EXCEPT ![r] = "lock"] /\ UNCHANGED <<row, answer>>
    <3>1. TxnWindow(platform.cfg) \subseteq Int
      BY WindowsTyped, Zenon DEF IngestTyped
    <3>2. read' \in [Req -> ReadRecord]
      <4>1. PICK v \in Int : read' = [read EXCEPT ![r].window = v]
        BY <2>4, <3>1, Zenon
      <4>2. read \in [Req -> ReadRecord]
        BY Zenon DEF IngestTyped
      <4>3. [read[r] EXCEPT !.window = v] \in ReadRecord
        BY <4>2, Zenon DEF ReadRecord
      <4>. QED
        BY <4>1, <4>2, <4>3, Zenon
    <3>3. pc' \in [Req -> Place]
      BY <2>4, Zenon DEF IngestTyped, Place
    <3>. QED
      BY <2>1, <2>4, <3>2, <3>3, Zenon DEF IngestTyped
  <2>. QED
    BY <1>1, <2>2, <2>3, <2>4, Zenon DEF ReadPlatform
<1>2. CASE AcquireLock(r)
  <2>1. lock' \in [Slot -> Req \cup {None}] /\ pc' \in [Req -> Place]
    BY <1>2, Zenon DEF AcquireLock, IngestTyped, Slot, Place
  <2>. QED
    BY <1>2, <2>1, Zenon DEF AcquireLock, IngestTyped, dbVars
<1>3. CASE Find(r)
  <2>1. PICK c \in Req \cup {None} : read' = [read EXCEPT ![r].found = c, ![r].at = now]
    BY <1>3, CandidatesTyped, Zenon DEF Find, IngestTyped
  <2>2. read \in [Req -> ReadRecord] /\ now \in 0..MaxTime
    BY Zenon DEF IngestTyped
  <2>3. [read[r] EXCEPT !.found = c, !.at = now] \in ReadRecord
    BY <2>2, Zenon DEF ReadRecord
  <2>4. read' = [read EXCEPT ![r] = [read[r] EXCEPT !.found = c, !.at = now]]
    BY <2>1, <2>2, Zenon
  <2>5. read' \in [Req -> ReadRecord]
    BY <2>2, <2>3, <2>4, Zenon
  <2>6. pc' \in [Req -> Place]
    BY <1>3, Zenon DEF Find, IngestTyped, Place
  <2>. QED
    BY <1>3, <2>5, <2>6, Zenon DEF Find, IngestTyped, dbVars
<1>4. CASE Commit(r)
  <2>0. PICK at \in 0..MaxTime : row' = Written(r, at).row /\ case' = Written(r, at).case
    BY <1>4, InsertTimesTyped, Zenon DEF Commit
  <2>1. read[r].found \in Req \cup {None}
    BY Zenon DEF IngestTyped, ReadRecord
  <2>2. pc' \in [Req -> Place] /\ answer' \in [Req -> AnswerRecord]
    <3>1. CASE pc' = [pc EXCEPT ![r] = "start"] /\ UNCHANGED answer
      BY <3>1, Zenon DEF IngestTyped, Place
    <3>2. CASE Reply(r, "merged", read[r].found)
      BY <2>1, <3>2, ReplyTyped, Zenon
    <3>. QED
      BY <1>4, <3>1, <3>2, Zenon DEF Commit
  <2>. QED
    BY <1>4, <2>0, <2>2, WrittenTyped, UnlockedTyped, Zenon DEF Commit, IngestTyped
<1>5. CASE StartWorkflow(r)
  <2>1. started' \in SUBSET Req /\ (Fault \/ UNCHANGED faults)
        /\ (Reply(r, "opened", r) \/ Reply(r, "error", None))
    BY <1>5, Zenon DEF StartWorkflow, IngestTyped
  <2>2. pc' \in [Req -> Place] /\ answer' \in [Req -> AnswerRecord]
    BY <2>1, ReplyTyped, Zenon
  <2>3. faults' \in 0..MaxFaults
    BY <2>1, FaultTyped, Zenon DEF IngestTyped
  <2>. QED
    BY <1>5, <2>1, <2>2, <2>3, Zenon DEF StartWorkflow, IngestTyped
<1>6. CASE TxnFails(r)
  <2>1. \/ UNCHANGED <<row, case>>
        \/ \E at \in 0..MaxTime : row' = Written(r, at).row /\ case' = Written(r, at).case
    BY <1>6, InsertTimesTyped, Zenon DEF TxnFails
  <2>2. row' \in [Req -> RowRecord] /\ case' \in [Req -> {"none", "open", "closed"}]
    BY <2>1, WrittenTyped, Zenon DEF IngestTyped
  <2>3. pc' \in [Req -> Place] /\ answer' \in [Req -> AnswerRecord]
    BY <1>6, ReplyTyped, Zenon DEF TxnFails
  <2>4. faults' \in 0..MaxFaults
    BY <1>6, FaultTyped, Zenon DEF IngestTyped, TxnFails
  <2>. QED
    BY <1>6, <2>2, <2>3, <2>4, UnlockedTyped, Zenon DEF TxnFails, IngestTyped
<1>. QED
  BY <1>1, <1>2, <1>3, <1>4, <1>5, <1>6, Zenon DEF Txn

LEMMA BatchTyped ==
    ASSUME IngestTyped, NEW w \in Worker, NEW b \in BatchRecord,
           Len(b.out) <= Len(b.items), Len(b.items) <= BatchSize,
           batch' = [batch EXCEPT ![w] = b]
    PROVE  /\ batch' \in [Worker -> BatchRecord]
           /\ \A v \in Worker : Len(batch'[v].out) <= Len(batch'[v].items)
                                /\ Len(batch'[v].items) <= BatchSize
BY Zenon DEF IngestTyped

LEMMA NoBatchTyped ==
    NoBatch \in BatchRecord /\ Len(NoBatch.out) <= Len(NoBatch.items)
    /\ Len(NoBatch.items) <= BatchSize /\ NoBatch.items = <<>>
BY Bounds DEF NoBatch, BatchRecord

(* What the two outcomes of a statement leave of the group: one outcome     *)
(* more.                                                                    *)
LEMMA StatementEffect ==
    ASSUME IngestTyped, NEW w \in Worker, FusedStatement(w) \/ StatementFails(w)
    PROVE  /\ batch[w].on /\ ~batch[w].fatal /\ Len(batch[w].out) < Len(batch[w].items)
           /\ UNCHANGED <<now, platform, dbVars, lock, result, pc, home, read, answer>>
           /\ Fault \/ UNCHANGED faults
           /\ batch' \in [Worker -> BatchRecord]
           /\ \A v \in Worker \ {w} : batch'[v] = batch[v]
           /\ batch'[w].on = batch[w].on /\ batch'[w].items = batch[w].items
           /\ \E o \in OutRecord : batch'[w].out = Append(batch[w].out, o)
<1>1. batch \in [Worker -> BatchRecord] /\ now \in 0..MaxTime
  BY Zenon DEF IngestTyped
<1>2. batch[w].on /\ ~batch[w].fatal /\ Len(batch[w].out) < Len(batch[w].items)
      /\ batch[w].out \in Seq(OutRecord)
  BY <1>1, Zenon DEF FusedStatement, StatementFails, BatchRecord
<1>3. ASSUME NEW o \in OutRecord
      PROVE  Append(batch[w].out, o) \in Seq(OutRecord)
  BY <1>2
<1>4. CASE FusedStatement(w)
  <2>. DEFINE r == batch[w].items[Len(batch[w].out) + 1]
              found == UNION {Candidates(Seen(w), Fingerprint(r), v) :
                                v \in IF Online THEN FusedWindow(platform.cfg) ELSE {}}
  <2>1. found \subseteq Req
    BY SeenTyped, CandidatesTyped
  <2>2. \/ \E c \in found : batch' = [batch EXCEPT ![w].out = Append(@, Hit(c))]
        \/ batch' = [batch EXCEPT ![w].out = Append(@, Miss)]
    BY <1>4, Zenon DEF FusedStatement
  <2>. HIDE DEF found
  <2>3. Miss \in OutRecord /\ \A c \in found : Hit(c) \in OutRecord
    BY <1>1, <2>1, Bounds, Zenon DEF Hit, Miss, OutRecord, Outcome
  <2>4. PICK o \in OutRecord : batch' = [batch EXCEPT ![w].out = Append(@, o)]
    BY <2>2, <2>3, Zenon
  <2>5. [batch[w] EXCEPT !.out = Append(@, o)] \in BatchRecord
    BY <1>1, <1>3, Zenon DEF BatchRecord
  <2>6. /\ batch' \in [Worker -> BatchRecord]
        /\ \A v \in Worker \ {w} : batch'[v] = batch[v]
        /\ batch'[w] = [batch[w] EXCEPT !.out = Append(@, o)]
    BY <1>1, <2>4, <2>5, Zenon
  <2>7. batch'[w].on = batch[w].on /\ batch'[w].items = batch[w].items
        /\ batch'[w].out = Append(batch[w].out, o)
    BY <1>1, <2>6, Zenon DEF BatchRecord
  <2>. QED
    BY <1>2, <1>4, <2>6, <2>7, Zenon DEF FusedStatement
<1>5. CASE StatementFails(w)
  <2>1. Error \in OutRecord
    BY Bounds, Zenon DEF Error, OutRecord, Outcome
  <2>2. PICK lost \in BOOLEAN :
          batch' = [batch EXCEPT ![w].out = Append(@, Error), ![w].fatal = lost]
    BY <1>5, Zenon DEF StatementFails
  <2>. DEFINE b == [batch[w] EXCEPT !.out = Append(@, Error), !.fatal = lost]
  <2>3. b \in BatchRecord
    BY <1>1, <1>3, <2>1, Zenon DEF BatchRecord
  <2>4. b.on = batch[w].on /\ b.items = batch[w].items /\ b.out = Append(batch[w].out, Error)
    BY <1>1, Zenon DEF BatchRecord
  <2>5. batch' = [batch EXCEPT ![w] = b]
    BY <1>1, <2>2, Zenon
  <2>. HIDE DEF b
  <2>6. /\ batch' \in [Worker -> BatchRecord]
        /\ \A v \in Worker \ {w} : batch'[v] = batch[v]
        /\ batch'[w] = b
    BY <1>1, <2>3, <2>5, Zenon
  <2>. QED
    BY <1>2, <1>5, <2>1, <2>4, <2>6, Zenon DEF StatementFails
<1>. QED
  BY <1>4, <1>5, Zenon

LEMMA GroupTyped ==
    ASSUME IngestTyped, NEW w \in Worker, GroupStep(w) PROVE IngestTyped'
<1>1. ASSUME NEW items \in Seq(Req), Fresh(w, items), StartBatch(w, items)
      PROVE  IngestTyped'
  <2>. DEFINE b == [on |-> TRUE, items |-> items, out |-> <<>>, fatal |-> FALSE]
  <2>1. b \in BatchRecord /\ Len(b.out) <= Len(b.items) /\ Len(b.items) <= BatchSize
    BY <1>1 DEF Fresh, BatchRecord
  <2>2. batch' = [batch EXCEPT ![w] = b]
    BY <1>1, Zenon DEF StartBatch
  <2>. HIDE DEF b
  <2>3. /\ batch' \in [Worker -> BatchRecord]
        /\ \A v \in Worker : Len(batch'[v].out) <= Len(batch'[v].items)
                             /\ Len(batch'[v].items) <= BatchSize
    BY <2>1, <2>2, BatchTyped, Zenon
  <2>. QED
    BY <1>1, <2>3, Zenon DEF StartBatch, IngestTyped, dbVars
<1>2. CASE FusedStatement(w) \/ StatementFails(w)
  <2>1. /\ Len(batch[w].out) < Len(batch[w].items)
        /\ UNCHANGED <<now, platform, dbVars, lock, result, pc, home, read, answer>>
        /\ Fault \/ UNCHANGED faults
    BY <1>2, StatementEffect, Zenon
  <2>2. /\ batch' \in [Worker -> BatchRecord]
        /\ \A v \in Worker \ {w} : batch'[v] = batch[v]
        /\ batch'[w].items = batch[w].items
    BY <1>2, StatementEffect, Zenon
  <2>3. PICK o \in OutRecord : batch'[w].out = Append(batch[w].out, o)
    BY <1>2, StatementEffect, Zenon
  <2>4. batch[w].out \in Seq(OutRecord) /\ batch[w].items \in Seq(Req)
    BY Zenon DEF IngestTyped, BatchRecord
  <2>5. \A v \in Worker : Len(batch'[v].out) <= Len(batch'[v].items)
                          /\ Len(batch'[v].items) <= BatchSize
    <3>1. Len(batch'[w].out) <= Len(batch[w].items)
      BY <2>1, <2>3, <2>4
    <3>2. \A v \in Worker : Len(batch[v].out) <= Len(batch[v].items)
                            /\ Len(batch[v].items) <= BatchSize
      BY Zenon DEF IngestTyped
    <3>. QED
      BY <2>2, <3>1, <3>2, Zenon
  <2>6. faults' \in 0..MaxFaults
    BY <2>1, FaultTyped, Zenon DEF IngestTyped
  <2>. QED
    BY <2>1, <2>2, <2>5, <2>6, Zenon DEF IngestTyped, dbVars
<1>3. ASSUME NEW fatal \in BOOLEAN, fatal \/ Len(batch[w].out) = Len(batch[w].items),
             Answered(w, fatal), row' \in {row, Seen(w)}, Fault \/ UNCHANGED faults
      PROVE  IngestTyped'
  <2>1. result' \in [Req -> ResultRecord]
    BY <1>3, AnsweredResult, Zenon
  <2>2. /\ batch' \in [Worker -> BatchRecord]
        /\ \A v \in Worker : Len(batch'[v].out) <= Len(batch'[v].items)
                             /\ Len(batch'[v].items) <= BatchSize
    BY <1>3, NoBatchTyped, BatchTyped, Zenon DEF Answered
  <2>3. row' \in [Req -> RowRecord]
    BY <1>3, SeenTyped, Zenon DEF IngestTyped
  <2>4. faults' \in 0..MaxFaults
    BY <1>3, FaultTyped, Zenon DEF IngestTyped
  <2>. QED
    BY <1>3, <2>1, <2>2, <2>3, <2>4, Zenon DEF Answered, IngestTyped
<1>4. CASE FinishBatch(w)
  BY <1>3, <1>4, Zenon DEF FinishBatch
<1>5. CASE BatchRaises(w)
  BY <1>3, <1>5, Zenon DEF BatchRaises
<1>6. CASE Crash(w)
  <2>1. pc' \in [Req -> Place] /\ lock' \in [Slot -> Req \cup {None}]
    BY <1>6, Zenon DEF Crash, IngestTyped, Place
  <2>2. /\ batch' \in [Worker -> BatchRecord]
        /\ \A v \in Worker : Len(batch'[v].out) <= Len(batch'[v].items)
                             /\ Len(batch'[v].items) <= BatchSize
    BY <1>6, NoBatchTyped, BatchTyped, Zenon DEF Crash
  <2>3. faults' \in 0..MaxFaults
    BY <1>6, FaultTyped, Zenon DEF IngestTyped, Crash
  <2>. QED
    BY <1>6, <2>1, <2>2, <2>3, Zenon DEF Crash, IngestTyped, dbVars
<1>. QED
  BY <1>1, <1>2, <1>4, <1>5, <1>6, Zenon DEF GroupStep

LEMMA StepTyped ==
    ASSUME IngestTyped, IngestStep PROVE IngestTyped'
<1>1. ASSUME NEW r \in Req, HandlerStep(r) PROVE IngestTyped'
  BY <1>1, HandlerTyped, TxnTyped, Zenon DEF HandlerStep
<1>2. ASSUME NEW r \in Req, CaseCloses(r) PROVE IngestTyped'
  <2>1. case' \in [Req -> {"none", "open", "closed"}]
    BY <1>2, Zenon DEF CaseCloses, IngestTyped
  <2>. QED
    BY <1>2, <2>1, Zenon DEF CaseCloses, IngestTyped
<1>3. ASSUME NEW w \in Worker, GroupStep(w) PROVE IngestTyped'
  BY <1>3, GroupTyped, Zenon
<1>4. CASE PlatformChanges \/ Tick \/ OnlyFaults
  <2>1. faults' \in 0..MaxFaults
    BY <1>4, FaultTyped, Zenon DEF PlatformChanges, Tick, OnlyFaults, IngestTyped
  <2>2. now' \in 0..MaxTime
    BY <1>4, Bounds DEF PlatformChanges, Tick, OnlyFaults, IngestTyped
  <2>3. platform' \in Platforms \cup {FirstPlatform}
    BY <1>4, Zenon DEF PlatformChanges, Tick, OnlyFaults, IngestTyped
  <2>. QED
    BY <1>4, <2>1, <2>2, <2>3, Zenon DEF PlatformChanges, Tick, OnlyFaults, IngestTyped, dbVars
<1>5. CASE UNCHANGED ingestVars
  BY <1>5, Zenon DEF IngestTyped, ingestVars, dbVars
<1>. QED
  BY <1>1, <1>2, <1>3, <1>4, <1>5, Zenon DEF IngestStep

(***************************************************************************)
(* Where a request can be, and what its group does for it                  *)
(***************************************************************************)

InTxn == {"miss", "lock", "find", "write", "start"}

(* A group is made of requests of its worker that have no result yet. *)
GroupsOK ==
    \A w \in Worker :
        /\ IsInjective(batch[w].items)
        /\ ~batch[w].on => batch[w].items = <<>>
        /\ \A r \in Range(batch[w].items) :
              home[r] = w /\ result[r].kind = "none" /\ pc[r] \in {"queued", "done", "gone"}

(* A transaction of its own is only for a request whose group missed, and a *)
(* request that was turned away has no worker that could take it up.        *)
PlacesOK ==
    \A r \in Req : /\ pc[r] = "new" => result[r].kind = "none" /\ home[r] = None
                   /\ pc[r] \in InTxn => result[r].kind = "miss"
                   /\ answer[r].kind \in Unsaved =>
                         result[r].kind = "none" /\ home[r] = None /\ pc[r] = "done"

FlowInv == GroupsOK /\ PlacesOK

LEMMA EmptyRange == Range(<<>>) = {}
BY DEF Range

LEMMA ItemsAreRequests ==
    ASSUME IngestTyped, NEW w \in Worker
    PROVE  Range(batch[w].items) \subseteq Req
BY DEF IngestTyped, BatchRecord, Range

(* A handler's step moves its own request along, and no other. *)
LEMMA HandlerMoves ==
    ASSUME IngestTyped, NEW r \in Req, HandlerStep(r)
    PROVE  /\ UNCHANGED <<batch, result>>
           /\ \A e \in Req \ {r} : /\ pc'[e] = pc[e] /\ home'[e] = home[e]
                                   /\ answer'[e] = answer[e] /\ read'[e] = read[e]
           /\ pc[r] # "new" => home'[r] = home[r]
           /\ \/ pc[r] = "new" /\ pc'[r] \in {"queued", "done"}
              \/ pc[r] = "queued" /\ pc'[r] \in {"done", "gone"}
              \/ pc[r] = "queued" /\ pc'[r] = "miss" /\ result[r].kind = "miss"
              \/ pc[r] \in InTxn /\ pc'[r] \in InTxn \cup {"done"}
<1>1. /\ pc \in [Req -> Place] /\ answer \in [Req -> AnswerRecord]
      /\ read \in [Req -> ReadRecord] /\ home \in [Req -> Worker \cup {None}]
  BY Zenon DEF IngestTyped
<1>2. CASE \/ Refuse(r) \/ RejectPayload(r) \/ Cancelled(r)
          \/ \E w \in Worker : Receive(r, w) \/ Refused(r, w)
  BY <1>1, <1>2, Zenon DEF Refuse, RejectPayload, Cancelled, Receive, Refused, Reply
<1>3. ASSUME NEW outcome, Honest(r, outcome), Resume(r, outcome)
      PROVE  /\ UNCHANGED <<batch, result, home, read>> /\ pc[r] = "queued"
             /\ \A e \in Req \ {r} : pc'[e] = pc[e] /\ answer'[e] = answer[e]
             /\ pc'[r] = "done" \/ (pc'[r] = "miss" /\ result[r].kind = "miss")
  BY <1>1, <1>3, Zenon DEF Resume, Reply, Honest
<1>4. CASE Txn(r) \/ TxnFails(r)
  <2>1. UNCHANGED <<batch, result, home>>
    BY <1>4, Zenon DEF Txn, TxnFails, ReadPlatform, AcquireLock, Find, Commit, StartWorkflow
  <2>2. pc[r] \in InTxn /\ pc'[r] \in InTxn \cup {"done"}
    BY <1>1, <1>4, Zenon DEF Txn, TxnFails, ReadPlatform, AcquireLock, Find, Commit, StartWorkflow,
       Reply, InTxn
  <2>3. \A e \in Req \ {r} : pc'[e] = pc[e] /\ answer'[e] = answer[e]
    BY <1>1, <1>4, Zenon DEF Txn, TxnFails, ReadPlatform, AcquireLock, Find, Commit, StartWorkflow,
       Reply
  <2>4. \A e \in Req \ {r} : read'[e] = read[e]
    BY <1>1, <1>4, Zenon DEF Txn, TxnFails, ReadPlatform, AcquireLock, Find, Commit, StartWorkflow
  <2>. QED
    BY <2>1, <2>2, <2>3, <2>4, Zenon
<1>. QED
  BY <1>2, <1>3, <1>4, Zenon DEF HandlerStep

(* A request is turned away from where it has no worker yet. *)
LEMMA HandlerAnswers ==
    ASSUME IngestTyped, NEW r \in Req, HandlerStep(r)
    PROVE  \/ answer'[r].kind \notin Unsaved \/ answer'[r] = answer[r]
           \/ pc[r] = "new" /\ pc'[r] = "done" /\ home'[r] = home[r]
<1>1. pc \in [Req -> Place] /\ answer \in [Req -> AnswerRecord]
  BY Zenon DEF IngestTyped
<1>2. CASE Refuse(r) \/ RejectPayload(r)
  BY <1>1, <1>2, Zenon DEF Refuse, RejectPayload
<1>3. ASSUME NEW kind \in {"merged", "opened", "rejected", "error"}, NEW c, Reply(r, kind, c)
      PROVE  answer'[r].kind \notin Unsaved
  <2>1. answer'[r] = [kind |-> kind, case |-> c]
    BY <1>1, <1>3, Zenon DEF Reply
  <2>2. answer'[r].kind = kind
    BY <2>1, AnswerFields, Zenon
  <2>. QED
    BY <2>2, Zenon DEF Unsaved
<1>4. CASE UNCHANGED answer
  BY <1>4, Zenon
<1>5. CASE HandlerStep(r) /\ ~(Refuse(r) \/ RejectPayload(r))
  <2>1. \/ UNCHANGED answer
        \/ \E kind \in {"merged", "opened", "rejected", "error"} : \E c : Reply(r, kind, c)
    BY <1>5, Zenon DEF HandlerStep, Txn, Cancelled, Receive, Refused, Resume,
       TxnFails, ReadPlatform, AcquireLock, Find, Commit, StartWorkflow
  <2>. QED
    BY <1>3, <1>4, <2>1, Zenon
<1>. QED
  BY <1>2, <1>5, Zenon

(* The end of a group, whichever it is. *)
LEMMA GroupEnds ==
    ASSUME IngestTyped, NEW w \in Worker, FinishBatch(w) \/ BatchRaises(w)
    PROVE  /\ UNCHANGED <<now, platform, case, started, lock, pc, home, read, answer>>
           /\ batch[w].on /\ batch' = [batch EXCEPT ![w] = NoBatch]
           /\ row' \in {row, Seen(w)}
           /\ \E fatal \in BOOLEAN :
                 /\ fatal \/ Len(batch[w].out) = Len(batch[w].items)
                 /\ ~fatal => row' = Seen(w)
                 /\ Answered(w, fatal)
BY Zenon DEF FinishBatch, BatchRaises, Answered

LEMMA FlowStep ==
    ASSUME IngestTyped, FlowInv, IngestStep PROVE FlowInv'
<1>. USE DEF FlowInv
<1>0. \A w \in Worker : Range(batch[w].items) \subseteq Req
  BY ItemsAreRequests, Zenon
<1>1. ASSUME NEW r \in Req, HandlerStep(r) PROVE FlowInv'
  <2>1. /\ UNCHANGED <<batch, result>>
        /\ \A e \in Req \ {r} : pc'[e] = pc[e] /\ home'[e] = home[e]
        /\ pc[r] # "new" => home'[r] = home[r]
        /\ \A e \in Req \ {r} : answer'[e] = answer[e]
        /\ \/ answer'[r].kind \notin Unsaved \/ answer'[r] = answer[r]
           \/ pc[r] = "new" /\ pc'[r] = "done" /\ home'[r] = home[r]
        /\ \/ pc[r] = "new" /\ pc'[r] \in {"queued", "done"}
           \/ pc[r] = "queued" /\ pc'[r] \in {"done", "gone"}
           \/ pc[r] = "queued" /\ pc'[r] = "miss" /\ result[r].kind = "miss"
           \/ pc[r] \in InTxn /\ pc'[r] \in InTxn \cup {"done"}
    BY <1>1, HandlerMoves, HandlerAnswers, Zenon
  <2>2. PlacesOK'
    BY <2>1, Zenon DEF PlacesOK, InTxn
  <2>3. ASSUME NEW w \in Worker, NEW e \in Range(batch[w].items)
        PROVE  home'[e] = w /\ pc'[e] \in {"queued", "done", "gone"}
    BY <1>0, <2>1 DEF GroupsOK, InTxn
  <2>4. GroupsOK'
    BY <2>1, <2>3 DEF GroupsOK, IsInjective
  <2>. QED
    BY <2>2, <2>4, Zenon
<1>2. ASSUME NEW w \in Worker, NEW items \in Seq(Req), Fresh(w, items), StartBatch(w, items)
      PROVE  FlowInv'
  <2>1. UNCHANGED <<result, pc, home, answer>>
    BY <1>2, Zenon DEF StartBatch
  <2>2. /\ batch'[w] = [on |-> TRUE, items |-> items, out |-> <<>>, fatal |-> FALSE]
        /\ \A v \in Worker \ {w} : batch'[v] = batch[v]
    BY <1>2, Zenon DEF StartBatch, IngestTyped
  <2>3. batch'[w].on = TRUE /\ batch'[w].items = items
    BY <2>2
  <2>4. GroupsOK'
    BY <1>2, <2>1, <2>2, <2>3 DEF GroupsOK, IsInjective, Fresh
  <2>. QED
    BY <2>1, <2>4, Zenon DEF PlacesOK
<1>3. ASSUME NEW w \in Worker, FusedStatement(w) \/ StatementFails(w) PROVE FlowInv'
  <2>1. /\ UNCHANGED <<result, pc, home, answer>>
        /\ \A v \in Worker \ {w} : batch'[v] = batch[v]
        /\ batch'[w].on = batch[w].on /\ batch'[w].items = batch[w].items
    BY <1>3, StatementEffect, Zenon
  <2>2. GroupsOK'
    BY <2>1 DEF GroupsOK, IsInjective
  <2>. QED
    BY <2>1, <2>2, Zenon DEF PlacesOK
<1>4. ASSUME NEW w \in Worker, FinishBatch(w) \/ BatchRaises(w) PROVE FlowInv'
  <2>1. UNCHANGED <<pc, home, answer>> /\ batch' = [batch EXCEPT ![w] = NoBatch]
    BY <1>4, GroupEnds, Zenon
  <2>2. \A r \in Req \ Range(batch[w].items) : result'[r] = result[r]
    BY <1>4, GroupEnds, AnsweredResult, SMTT(30)
  <2>3. /\ batch'[w].items = <<>> /\ Range(batch'[w].items) = {}
        /\ \A v \in Worker \ {w} : batch'[v] = batch[v]
    BY <2>1, NoBatchTyped, EmptyRange, Zenon DEF IngestTyped
  <2>4. \A v \in Worker \ {w} : Range(batch[v].items) \cap Range(batch[w].items) = {}
    BY DEF GroupsOK
  <2>5. IsInjective(batch'[w].items)
    BY <2>3 DEF IsInjective
  <2>6. GroupsOK'
    <3>. SUFFICES ASSUME NEW v \in Worker
                  PROVE  /\ IsInjective(batch'[v].items)
                         /\ ~batch'[v].on => batch'[v].items = <<>>
                         /\ \A r \in Range(batch'[v].items) :
                               home'[r] = v /\ result'[r].kind = "none"
                               /\ pc'[r] \in {"queued", "done", "gone"}
      BY Zenon DEF GroupsOK, IsInjective
    <3>1. CASE v = w
      BY <2>3, <2>5, <3>1, Zenon
    <3>2. CASE v # w
      BY <1>0, <2>1, <2>2, <2>3, <2>4, <3>2 DEF GroupsOK
    <3>. QED
      BY <3>1, <3>2, Zenon
  <2>7. PlacesOK'
    <3>1. ASSUME NEW r \in Range(batch[w].items)
          PROVE  home[r] # None /\ pc[r] \in {"queued", "done", "gone"}
      <4>1. home[r] = w /\ pc[r] \in {"queued", "done", "gone"}
        BY Zenon DEF GroupsOK
      <4>. QED
        BY <4>1, Bounds, Zenon
    <3>2. ASSUME NEW r \in Req,
                 pc[r] = "new" \/ pc[r] \in InTxn \/ answer[r].kind \in Unsaved
          PROVE  r \notin Range(batch[w].items)
      BY <3>1, <3>2, Zenon DEF PlacesOK, InTxn
    <3>. QED
      BY <2>1, <2>2, <3>2, Zenon DEF PlacesOK
  <2>. QED
    BY <2>6, <2>7, Zenon
<1>5. ASSUME NEW w \in Worker, Crash(w) PROVE FlowInv'
  <2>1. UNCHANGED <<result, home, answer>> /\ batch' = [batch EXCEPT ![w] = NoBatch]
        /\ \A r \in Req : (pc[r] # "done" /\ pc'[r] = "gone") \/ pc'[r] = pc[r]
    BY <1>5, Zenon DEF Crash
  <2>2. /\ batch'[w].items = <<>> /\ Range(batch'[w].items) = {}
        /\ \A v \in Worker \ {w} : batch'[v] = batch[v]
    BY <2>1, NoBatchTyped, EmptyRange, Zenon DEF IngestTyped
  <2>3. IsInjective(batch'[w].items)
    BY <2>2 DEF IsInjective
  <2>4. GroupsOK'
    <3>. SUFFICES ASSUME NEW v \in Worker
                  PROVE  /\ IsInjective(batch'[v].items)
                         /\ ~batch'[v].on => batch'[v].items = <<>>
                         /\ \A r \in Range(batch'[v].items) :
                               home'[r] = v /\ result'[r].kind = "none"
                               /\ pc'[r] \in {"queued", "done", "gone"}
      BY Zenon DEF GroupsOK, IsInjective
    <3>1. CASE v = w
      BY <2>2, <2>3, <3>1, Zenon
    <3>2. CASE v # w
      BY <1>0, <2>1, <2>2, <3>2 DEF GroupsOK
    <3>. QED
      BY <3>1, <3>2, Zenon
  <2>5. PlacesOK'
    BY <2>1, Zenon DEF PlacesOK, InTxn
  <2>. QED
    BY <2>4, <2>5, Zenon
<1>6. ASSUME UNCHANGED <<batch, result, pc, home, answer>> PROVE FlowInv'
  BY <1>6 DEF GroupsOK, PlacesOK, IsInjective
<1>7. CASE (\E r \in Req : CaseCloses(r)) \/ PlatformChanges \/ Tick \/ OnlyFaults
           \/ UNCHANGED ingestVars
  <2>1. UNCHANGED <<batch, result, pc, home, answer>>
    BY <1>7, Zenon DEF CaseCloses, PlatformChanges, Tick, OnlyFaults, ingestVars
  <2>. QED
    BY <1>6, <2>1, Zenon
<1>. QED
  BY <1>1, <1>2, <1>3, <1>4, <1>5, <1>7, Zenon DEF IngestStep, GroupStep

(***************************************************************************)
(* The rows, the cases and the answers                                     *)
(***************************************************************************)

Undecided(r) ==
    \/ result[r].kind = "none"
    \/ result[r].kind = "miss" /\ pc[r] \in {"queued", "miss", "lock", "find", "write"}

Succeeded == {"merged", "opened", "rejected"}

(* What the database has of one request agrees with what its group, its     *)
(* transaction and its answer say.                                          *)
RowOK(r) ==
    /\ Undecided(r) => row[r].disposition = "none"
    /\ result[r].kind = "hit" => row[r].disposition = "merged" /\ row[r].case = result[r].case
    /\ answer[r].kind \in Succeeded =>
          /\ row[r].disposition = answer[r].kind /\ row[r].case = answer[r].case
          /\ result[r].kind \in {"hit", "miss"} /\ pc[r] = "done"
    /\ answer[r].kind = "opened" => r \in started
    /\ case[r] # "none" <=> row[r].disposition = "opened"
    /\ case[r] # "none" =>
          row[r].case = r /\ result[r].kind = "miss" /\ pc[r] \in {"start", "done", "gone"}
    /\ pc[r] = "start" => case[r] # "none"

RowsOK == \A r \in Req : RowOK(r)

LEMMA InitFlow == IngestInit => FlowInv /\ RowsOK /\ LockHeldInside
<1>. SUFFICES ASSUME IngestInit PROVE FlowInv /\ RowsOK /\ LockHeldInside
  BY Zenon
<1>1. FlowInv
  <2>1. GroupsOK
    BY EmptyRange, NoBatchTyped, SMTT(30) DEF IngestInit, GroupsOK, IsInjective
  <2>2. PlacesOK
    BY Zenon DEF IngestInit, PlacesOK, InTxn, Unsaved
  <2>. QED
    BY <2>1, <2>2, Zenon DEF FlowInv
<1>2. RowsOK
  BY Zenon DEF IngestInit, RowsOK, RowOK, Undecided, Succeeded
<1>3. LockHeldInside
  BY Bounds, Zenon DEF IngestInit, LockHeldInside, Slot
<1>. QED
  BY <1>1, <1>2, <1>3, Zenon

(* A request about which nothing changes, but that it may lose its handler. *)
LEMMA RowKept ==
    ASSUME NEW e \in Req, RowOK(e), started \subseteq started',
           row'[e] = row[e], case'[e] = case[e], result'[e] = result[e],
           \/ answer'[e] = answer[e] /\ pc'[e] = pc[e]
           \/ answer'[e] = answer[e] /\ pc[e] # "done" /\ pc'[e] = "gone"
           \/ answer'[e].kind \in Unsaved \cup {"error"} /\ pc'[e] = "done"
           \/ answer'[e] = answer[e] /\ pc[e] = "new" /\ pc'[e] = "queued"
              /\ result[e].kind = "none"
    PROVE  RowOK(e)'
BY Zenon DEF RowOK, Undecided, Succeeded, Unsaved

(* The steps of a handler before and after the group. *)
LEMMA HandlerRows ==
    ASSUME IngestTyped, FlowInv, RowsOK, NEW r \in Req,
           \/ Refuse(r) \/ RejectPayload(r) \/ Cancelled(r)
           \/ \E w \in Worker : Receive(r, w) \/ Refused(r, w)
           \/ \E outcome : Honest(r, outcome) /\ Resume(r, outcome)
    PROVE  RowsOK'
<1>1. UNCHANGED <<row, case, started, result>>
  BY Zenon DEF Refuse, RejectPayload, Cancelled, Receive, Refused, Resume, dbVars
<1>2. pc \in [Req -> Place] /\ answer \in [Req -> AnswerRecord]
  BY Zenon DEF IngestTyped
<1>3. \A e \in Req \ {r} : pc'[e] = pc[e] /\ answer'[e] = answer[e]
  BY <1>2, Zenon DEF Refuse, RejectPayload, Cancelled, Receive, Refused, Resume, Reply
<1>4. CASE \/ Refuse(r) \/ RejectPayload(r) \/ Cancelled(r)
          \/ \E w \in Worker : Receive(r, w) \/ Refused(r, w)
  <2>1. \/ answer'[r] = answer[r] /\ pc[r] # "done" /\ pc'[r] = "gone"
        \/ answer'[r].kind \in Unsaved \cup {"error"} /\ pc'[r] = "done"
        \/ answer'[r] = answer[r] /\ pc[r] = "new" /\ pc'[r] = "queued"
    <3>1. CASE Refuse(r) \/ RejectPayload(r)
      BY <1>2, <3>1 DEF Refuse, RejectPayload, Unsaved, AnswerRecord
    <3>2. CASE Cancelled(r) \/ \E w \in Worker : Receive(r, w) \/ Refused(r, w)
      BY <1>2, <3>2 DEF Cancelled, Receive, Refused, Reply
    <3>. QED
      BY <1>4, <3>1, <3>2, Zenon
  <2>2. pc[r] = "new" => result[r].kind = "none"
    BY Zenon DEF FlowInv, PlacesOK
  <2>. QED
    BY <1>1, <1>3, <2>1, <2>2, RowKept, Zenon DEF RowsOK
<1>5. ASSUME NEW outcome, Honest(r, outcome), Resume(r, outcome) PROVE RowOK(r)'
  <2>1. RowOK(r) /\ pc[r] = "queued"
    BY <1>5, Zenon DEF RowsOK, Resume
  <2>2. CASE outcome = "hit" /\ Reply(r, "merged", result[r].case)
    <3>1. pc'[r] = "done" /\ answer'[r] = [kind |-> "merged", case |-> result[r].case]
          /\ result[r].kind = "hit"
      BY <1>2, <1>5, <2>2, Zenon DEF Reply, Honest
    <3>. QED
      BY <1>1, <2>1, <3>1, SMTT(30) DEF RowOK, Undecided, Succeeded
  <2>3. CASE outcome = "miss" /\ pc' = [pc EXCEPT ![r] = "miss"] /\ UNCHANGED answer
    <3>1. pc'[r] = "miss" /\ answer'[r] = answer[r] /\ result[r].kind = "miss"
      BY <1>2, <1>5, <2>3, Zenon DEF Honest
    <3>. QED
      BY <1>1, <2>1, <3>1, Zenon DEF RowOK, Undecided, Succeeded
  <2>4. CASE Reply(r, "error", None)
    <3>1. pc'[r] = "done" /\ answer'[r].kind = "error"
      BY <1>2, <2>4, Zenon DEF Reply
    <3>. QED
      BY <1>1, <2>1, <3>1, RowKept, Zenon
  <2>. QED
    BY <1>5, <2>2, <2>3, <2>4, Zenon DEF Resume
<1>. QED
  BY <1>1, <1>3, <1>4, <1>5, RowKept, Zenon DEF RowsOK

(* A request that leaves its transaction with an answer and without a case. *)
LEMMA RowAnswered ==
    ASSUME NEW r \in Req, NEW d \in {"rejected", "merged"},
           result'[r].kind = "miss", pc'[r] = "done", case'[r] = "none",
           row'[r].disposition = d, answer'[r].kind = d,
           row'[r].case = answer'[r].case
    PROVE  RowOK(r)'
  BY Zenon DEF RowOK, Undecided, Succeeded

(* The request's own transaction. *)
LEMMA TxnRows ==
    ASSUME IngestTyped, FlowInv, RowsOK, NEW r \in Req, Txn(r) \/ TxnFails(r)
    PROVE  RowsOK'
<1>1. /\ UNCHANGED result /\ started \subseteq started'
      /\ \/ row' = row /\ case' = case
         \/ row' = Written(r, now).row /\ case' = case
         \/ \E at : row' = Written(r, at).row /\ case' = Written(r, at).case
  <2>1. CASE ReadPlatform(r)
    BY <2>1, Zenon DEF ReadPlatform
  <2>2. CASE AcquireLock(r) \/ Find(r)
    BY <2>2, Zenon DEF AcquireLock, Find, dbVars
  <2>3. CASE Commit(r) \/ StartWorkflow(r) \/ TxnFails(r)
    BY <2>3, Zenon DEF Commit, StartWorkflow, TxnFails
  <2>. QED
    BY <2>1, <2>2, <2>3, Zenon DEF Txn
<1>2. \A e \in Req \ {r} : /\ row'[e] = row[e] /\ case'[e] = case[e]
                           /\ pc'[e] = pc[e] /\ answer'[e] = answer[e]
  BY <1>1, WrittenFrame, HandlerMoves, SMTT(30) DEF HandlerStep
<1>3. \A e \in Req \ {r} : RowOK(e)'
  BY <1>1, <1>2, RowKept, Zenon DEF RowsOK
<1>4. /\ pc \in [Req -> Place] /\ answer \in [Req -> AnswerRecord]
      /\ RowOK(r) /\ read[r].found \in Req \cup {None}
      /\ case[r] \in {"none", "open", "closed"} /\ result[r].kind = "miss"
      /\ started \in SUBSET Req
  <2>1. pc[r] \in InTxn
    BY HandlerMoves, Zenon DEF HandlerStep, Txn, TxnFails, ReadPlatform, AcquireLock, Find, Commit,
       StartWorkflow, InTxn
  <2>. QED
    BY <2>1, Zenon DEF IngestTyped, RowsOK, ReadRecord, FlowInv, PlacesOK
<1>5. CASE ReadPlatform(r)
  <2>1. pc[r] = "miss" /\ UNCHANGED <<case, started>>
    BY <1>5, Zenon DEF ReadPlatform
  <2>2. CASE row' = Written(r, now).row /\ Reply(r, "rejected", None)
    <3>1. /\ row'[r] = Row("rejected", None, now) /\ pc'[r] = "done"
          /\ answer'[r] = [kind |-> "rejected", case |-> None]
      BY <1>4, <2>1, <2>2, WrittenFrame, Zenon DEF Reply
    <3>2. row'[r].disposition = "rejected" /\ row'[r].case = None
      BY <3>1, RowFields
    <3>3. case'[r] = "none" /\ result'[r].kind = "miss"
      BY <1>1, <1>4, <2>1, <3>1, Zenon DEF RowOK
    <3>4. answer'[r].kind = "rejected" /\ row'[r].case = answer'[r].case
      BY <3>1, <3>2, AnswerFields
    <3>5. RowOK(r)'
      BY <3>1, <3>2, <3>3, <3>4, RowAnswered, Zenon
    <3>. QED
      BY <1>3, <3>5, Zenon DEF RowsOK
  <2>3. CASE Reply(r, "error", None) /\ UNCHANGED row
    <3>1. pc'[r] = "done" /\ answer'[r].kind = "error"
      BY <1>4, <2>3, Zenon DEF Reply
    <3>. QED
      BY <1>1, <1>3, <1>4, <2>1, <2>3, <3>1, RowKept, Zenon DEF RowsOK
  <2>4. CASE pc' = [pc EXCEPT ![r] = "lock"] /\ UNCHANGED <<row, answer>>
    <3>1. pc'[r] = "lock" /\ answer'[r] = answer[r]
      BY <1>4, <2>4, Zenon
    <3>2. RowOK(r)'
      BY <1>1, <1>4, <2>1, <2>4, <3>1, Zenon DEF RowOK, Undecided, Succeeded
    <3>. QED
      BY <1>3, <3>2, Zenon DEF RowsOK
  <2>. QED
    BY <1>5, <2>2, <2>3, <2>4, Zenon DEF ReadPlatform
<1>6. CASE AcquireLock(r) \/ Find(r)
  <2>1. /\ UNCHANGED <<row, case, started, answer>>
        /\ pc[r] \in {"lock", "find"} /\ pc'[r] \in {"find", "write"}
    BY <1>4, <1>6, Zenon DEF AcquireLock, Find, dbVars
  <2>2. RowOK(r)'
    BY <1>1, <1>4, <2>1, Zenon DEF RowOK, Undecided, Succeeded
  <2>. QED
    BY <1>3, <2>2, Zenon DEF RowsOK
<1>7. CASE Commit(r)
  <2>1. pc[r] = "write" /\ UNCHANGED started
    BY <1>7, Zenon DEF Commit
  <2>4. PICK at : row' = Written(r, at).row /\ case' = Written(r, at).case
    BY <1>7, Zenon DEF Commit
  <2>2. CASE read[r].found = None
    <3>1. row'[r] = Row("opened", r, at) /\ case'[r] = "open" /\ pc'[r] = "start"
          /\ answer'[r] = answer[r]
      BY <1>4, <1>7, <2>1, <2>2, <2>4, WrittenFrame, Zenon DEF Commit
    <3>2. row'[r].disposition = "opened" /\ row'[r].case = r
      BY <3>1, RowFields
    <3>3. RowOK(r)'
      BY <1>1, <1>4, <2>1, <3>1, <3>2, Zenon DEF RowOK, Undecided, Succeeded
    <3>. QED
      BY <1>3, <3>3, Zenon DEF RowsOK
  <2>3. CASE read[r].found # None
    <3>1. /\ row'[r] = Row("merged", read[r].found, at) /\ case'[r] = case[r] /\ pc'[r] = "done"
          /\ answer'[r] = [kind |-> "merged", case |-> read[r].found]
      BY <1>4, <1>7, <2>1, <2>3, <2>4, WrittenFrame, Zenon DEF Commit, Reply
    <3>2. row'[r].disposition = "merged" /\ row'[r].case = read[r].found
      BY <3>1, RowFields
    <3>3. case'[r] = "none" /\ result'[r].kind = "miss"
      BY <1>1, <1>4, <2>1, <3>1, Zenon DEF RowOK
    <3>4. answer'[r].kind = "merged" /\ row'[r].case = answer'[r].case
      BY <3>1, <3>2, AnswerFields
    <3>5. RowOK(r)'
      BY <3>1, <3>2, <3>3, <3>4, RowAnswered, Zenon
    <3>. QED
      BY <1>3, <3>5, Zenon DEF RowsOK
  <2>. QED
    BY <2>2, <2>3, Zenon
<1>8. CASE StartWorkflow(r)
  <2>1. pc[r] = "start" /\ UNCHANGED <<row, case>>
    BY <1>8, Zenon DEF StartWorkflow
  <2>2. CASE started' = started \cup {r} /\ Reply(r, "opened", r)
    <3>1. pc'[r] = "done" /\ answer'[r] = [kind |-> "opened", case |-> r] /\ r \in started'
      BY <1>4, <2>2, Zenon DEF Reply
    <3>2. RowOK(r)'
      BY <1>1, <1>4, <2>1, <3>1, SMTT(30) DEF RowOK, Undecided, Succeeded
    <3>. QED
      BY <1>3, <3>2, Zenon DEF RowsOK
  <2>3. CASE Reply(r, "error", None)
    <3>1. pc'[r] = "done" /\ answer'[r].kind = "error"
      BY <1>4, <2>3, Zenon DEF Reply
    <3>. QED
      BY <1>1, <1>3, <1>4, <2>1, <3>1, RowKept, Zenon DEF RowsOK
  <2>. QED
    BY <1>8, <2>2, <2>3, Zenon DEF StartWorkflow
<1>9. CASE TxnFails(r)
  <2>1. pc[r] \in {"miss", "lock", "find", "write"} /\ Reply(r, "error", None)
        /\ UNCHANGED started
    BY <1>9, Zenon DEF TxnFails
  <2>2. pc'[r] = "done" /\ answer'[r].kind = "error"
    BY <1>4, <2>1, Zenon DEF Reply
  <2>3. CASE row' = row /\ case' = case
    BY <1>1, <1>3, <1>4, <2>2, <2>3, RowKept, Zenon DEF RowsOK
  <2>4. ASSUME NEW at, row' = Written(r, at).row, case' = Written(r, at).case PROVE RowsOK'
    <3>1. \/ row'[r] = Row("rejected", None, at) /\ case'[r] = case[r]
          \/ row'[r] = Row("opened", r, at) /\ case'[r] = "open"
          \/ row'[r] = Row("merged", read[r].found, at) /\ case'[r] = case[r]
      BY <2>4, WrittenFrame
    <3>2. \/ row'[r].disposition \in {"rejected", "merged"} /\ case'[r] = case[r]
          \/ row'[r].disposition = "opened" /\ row'[r].case = r /\ case'[r] = "open"
      BY <3>1, RowFields
    <3>3. RowOK(r)'
      BY <1>1, <1>4, <2>1, <2>2, <3>2, Zenon DEF RowOK, Undecided, Succeeded
    <3>. QED
      BY <1>3, <3>3, Zenon DEF RowsOK
  <2>. QED
    BY <1>9, <2>3, <2>4, Zenon DEF TxnFails
<1>. QED
  BY <1>5, <1>6, <1>7, <1>8, <1>9, Zenon DEF Txn

(* The end of a group decides its members' rows and results together. *)
LEMMA GroupRows ==
    ASSUME IngestTyped, FlowInv, RowsOK, NEW w \in Worker, FinishBatch(w) \/ BatchRaises(w)
    PROVE  RowsOK'
<1>. DEFINE b == batch[w]
<1>1. /\ UNCHANGED <<case, started, pc, answer>> /\ row' \in {row, Seen(w)}
  BY GroupEnds, Zenon
<1>2. PICK fatal \in BOOLEAN :
         /\ fatal \/ Len(b.out) = Len(b.items)
         /\ ~fatal => row' = Seen(w)
         /\ Answered(w, fatal)
  BY GroupEnds, Zenon
<1>3. /\ \A r \in Req \ Range(b.items) : result'[r] = result[r]
      /\ \A r \in Range(b.items) : \E i \in 1..Len(b.items) :
            /\ b.items[i] = r
            /\ fatal => result'[r].kind = "error"
            /\ ~fatal => result'[r].kind = b.out[i].kind
                         /\ (result'[r].kind = "hit" => result'[r].case = b.out[i].case)
      /\ \A r \in Range(b.items) : result'[r].kind \in Outcome
  <2>1. fatal \/ Len(batch[w].out) = Len(batch[w].items)
    BY <1>2, Zenon
  <2>2. Answered(w, fatal)
    BY <1>2, Zenon
  <2>3. \A r \in Req \ Range(batch[w].items) : result'[r] = result[r]
    BY <2>1, <2>2, AnsweredResult, Zenon
  <2>4. \A r \in Range(batch[w].items) : result'[r].kind \in Outcome
    BY <2>1, <2>2, AnsweredResult, Zenon
  <2>5. ASSUME NEW r \in Range(batch[w].items)
        PROVE  \E i \in 1..Len(batch[w].items) :
                  /\ batch[w].items[i] = r
                  /\ fatal => result'[r].kind = "error"
                  /\ ~fatal => result'[r].kind = batch[w].out[i].kind
                               /\ (result'[r].kind = "hit" =>
                                     result'[r].case = batch[w].out[i].case)
    BY <2>1, <2>2, AnsweredResult, SMTT(30)
  <2>. QED
    BY <2>3, <2>4, <2>5, Zenon
<1>4. /\ b.items \in Seq(Req) /\ b.out \in Seq(OutRecord) /\ Len(b.out) <= Len(b.items)
      /\ IsInjective(b.items)
      /\ \A r \in Range(b.items) : result[r].kind = "none" /\ pc[r] \in {"queued", "done", "gone"}
  BY Zenon DEF IngestTyped, BatchRecord, FlowInv, GroupsOK
<1>. HIDE DEF b
<1>5. ASSUME NEW e \in Req \ Range(b.items) PROVE RowOK(e)'
  <2>1. \A i \in 1..Len(b.out) : b.items[i] # e
    BY <1>4 DEF Range
  <2>2. row'[e] = row[e]
    BY <1>1, <2>1, SeenRow, SMTT(30) DEF b
  <2>. QED
    BY <1>1, <1>3, <2>2, RowKept, Zenon DEF RowsOK
<1>6. ASSUME NEW e \in Range(b.items) PROVE RowOK(e)'
  <2>1. e \in Req /\ RowOK(e)
    BY <1>4 DEF RowsOK, Range
  <2>2. /\ row[e].disposition = "none" /\ case[e] = "none" /\ answer[e].kind \notin Succeeded
        /\ pc[e] # "start"
    BY <1>4, <2>1, Zenon DEF RowOK, Undecided, Succeeded
  <2>3. row'[e] = row[e] \/ row'[e].disposition = "merged"
    <3>1. \A o : Merged(o).disposition = "merged"
      BY Zenon DEF Merged
    <3>. QED
      BY <1>1, <2>1, <3>1, SeenRow, SMTT(30)
  <2>4. CASE fatal
    <3>1. result'[e].kind = "error"
      BY <1>3, <2>4, Zenon
    <3>. QED
      BY <1>1, <2>1, <2>2, <2>3, <3>1, Zenon DEF RowOK, Undecided, Succeeded
  <2>5. CASE ~fatal
    <3>1. PICK i \in 1..Len(b.items) :
            /\ b.items[i] = e /\ result'[e].kind = b.out[i].kind
            /\ result'[e].kind = "hit" => result'[e].case = b.out[i].case
      BY <1>3, <2>5, Zenon
    <3>2. CASE result'[e].kind = "hit"
      <4>1. i \in 1..Len(b.out) /\ b.out[i].kind = "hit"
        BY <1>2, <2>5, <3>1, <3>2, Zenon
      <4>2. PICK j \in 1..Len(b.out) :
              b.items[j] = e /\ row'[e] = Merged(b.out[j])
        BY <1>2, <2>1, <2>5, <3>1, <4>1, SeenRow, SMTT(30) DEF b
      <4>3. i = j
        BY <1>4, <3>1, <4>2, SMTT(30) DEF IsInjective
      <4>4. row'[e].disposition = "merged" /\ row'[e].case = result'[e].case
        BY <3>1, <3>2, <4>2, <4>3 DEF Merged
      <4>. QED
        BY <1>1, <2>1, <2>2, <3>2, <4>4, Zenon DEF RowOK, Undecided, Succeeded
    <3>3. CASE result'[e].kind # "hit"
      <4>1. \A j \in 1..Len(b.out) : b.items[j] = e => b.out[j].kind # "hit"
        BY <1>4, <3>1, <3>3, SMTT(30) DEF IsInjective
      <4>2. row'[e] = row[e]
        BY <1>2, <2>1, <2>5, <4>1, SeenRow DEF b
      <4>. QED
        BY <1>1, <1>3, <2>1, <2>2, <3>3, <4>2, Zenon DEF RowOK, Undecided, Succeeded, Outcome
    <3>. QED
      BY <3>2, <3>3, Zenon
  <2>. QED
    BY <2>4, <2>5, Zenon
<1>. QED
  BY <1>5, <1>6, Zenon DEF RowsOK

LEMMA RowsStep ==
    ASSUME IngestTyped, FlowInv, RowsOK, IngestStep PROVE RowsOK'
<1>1. ASSUME NEW r \in Req, HandlerStep(r) PROVE RowsOK'
  BY <1>1, HandlerRows, TxnRows, Zenon DEF HandlerStep
<1>2. ASSUME NEW c \in Req, CaseCloses(c) PROVE RowsOK'
  <2>1. /\ UNCHANGED <<row, started, result, pc, answer>> /\ case[c] = "open"
        /\ case'[c] = "closed" /\ \A e \in Req \ {c} : case'[e] = case[e]
    BY <1>2, Zenon DEF CaseCloses, IngestTyped
  <2>2. RowOK(c)'
    BY <2>1, Zenon DEF RowsOK, RowOK, Undecided, Succeeded
  <2>. QED
    BY <2>1, <2>2, RowKept, Zenon DEF RowsOK
<1>3. ASSUME NEW w \in Worker, GroupStep(w) PROVE RowsOK'
  <2>1. CASE \E items \in Seq(Req) : Fresh(w, items) /\ StartBatch(w, items)
    <3>1. UNCHANGED <<row, case, started, result, pc, answer>>
      BY <2>1, Zenon DEF StartBatch, dbVars
    <3>. QED
      BY <3>1, RowKept, Zenon DEF RowsOK
  <2>2. CASE FusedStatement(w) \/ StatementFails(w)
    <3>1. UNCHANGED <<row, case, started, result, pc, answer>>
      BY <2>2, Zenon DEF FusedStatement, StatementFails, dbVars
    <3>. QED
      BY <3>1, RowKept, Zenon DEF RowsOK
  <2>3. CASE FinishBatch(w) \/ BatchRaises(w)
    BY <2>3, GroupRows, Zenon
  <2>4. CASE Crash(w)
    <3>1. /\ UNCHANGED <<row, case, started, result, answer>>
          /\ \A e \in Req : pc'[e] = pc[e] \/ (pc[e] # "done" /\ pc'[e] = "gone")
      BY <2>4, Zenon DEF Crash, dbVars
    <3>. QED
      BY <3>1, RowKept, Zenon DEF RowsOK
  <2>. QED
    BY <1>3, <2>1, <2>2, <2>3, <2>4, Zenon DEF GroupStep
<1>4. CASE PlatformChanges \/ Tick \/ OnlyFaults \/ UNCHANGED ingestVars
  <2>1. UNCHANGED <<row, case, started, result, pc, answer>>
    BY <1>4, Zenon DEF PlatformChanges, Tick, OnlyFaults, ingestVars, dbVars
  <2>. QED
    BY <2>1, RowKept, Zenon DEF RowsOK
<1>. QED
  BY <1>1, <1>2, <1>3, <1>4, Zenon DEF IngestStep

(***************************************************************************)
(* The advisory lock                                                       *)
(***************************************************************************)

LEMMA LockStep ==
    ASSUME IngestTyped, LockHeldInside, IngestStep PROVE LockHeldInside'
<1>0. /\ lock \in [Slot -> Req \cup {None}] /\ pc \in [Req -> Place]
      /\ \A r \in Req : Fingerprint(r) \in Slot
  BY Zenon DEF IngestTyped, Slot
<1>1. ASSUME NEW r \in Req, UNCHANGED lock,
             \A e \in Req \ {r} : pc'[e] = pc[e],
             pc[r] \in {"find", "write"} <=> pc'[r] \in {"find", "write"}
      PROVE  LockHeldInside'
  BY <1>1, Zenon DEF LockHeldInside
<1>2. ASSUME NEW r \in Req, lock' = Unlocked(r), pc'[r] \notin {"find", "write"},
             \A e \in Req \ {r} : pc'[e] = pc[e]
      PROVE  LockHeldInside'
  BY <1>0, <1>2, Bounds, Zenon DEF LockHeldInside, Unlocked
<1>3. ASSUME NEW r \in Req, HandlerStep(r) PROVE LockHeldInside'
  <2>1. \A e \in Req \ {r} : pc'[e] = pc[e]
    BY <1>3, HandlerMoves, Zenon
  <2>2. CASE \/ Refuse(r) \/ RejectPayload(r) \/ Cancelled(r)
             \/ \E w \in Worker : Receive(r, w) \/ Refused(r, w)
             \/ \E outcome : Resume(r, outcome)
    <3>1. UNCHANGED lock /\ pc[r] \in {"new", "queued"}
          /\ pc'[r] \in {"done", "gone", "queued", "miss"}
      BY <1>0, <2>2, Zenon DEF Refuse, RejectPayload, Cancelled, Receive, Refused, Resume, Reply
    <3>. QED
      BY <1>1, <2>1, <3>1, Zenon
  <2>3. CASE ReadPlatform(r) \/ Find(r) \/ StartWorkflow(r)
    <3>1. UNCHANGED lock /\ (pc[r] \in {"find", "write"} <=> pc'[r] \in {"find", "write"})
      BY <1>0, <2>3, Zenon DEF ReadPlatform, Find, StartWorkflow, Reply
    <3>. QED
      BY <1>1, <2>1, <3>1, Zenon
  <2>4. CASE AcquireLock(r)
    BY <1>0, <2>1, <2>4, Bounds DEF AcquireLock, LockHeldInside
  <2>5. CASE Commit(r) \/ TxnFails(r)
    <3>1. lock' = Unlocked(r) /\ pc'[r] \notin {"find", "write"}
      BY <1>0, <2>5, Zenon DEF Commit, TxnFails, Reply
    <3>. QED
      BY <1>2, <2>1, <3>1, Zenon
  <2>. QED
    BY <1>3, <2>2, <2>3, <2>4, <2>5, Zenon DEF HandlerStep, Txn
<1>4. ASSUME NEW w \in Worker, Crash(w) PROVE LockHeldInside'
  <2>. DEFINE lost == {r \in Req : home[r] = w /\ pc[r] \notin {"done", "gone"}}
  <2>1. /\ pc' = [r \in Req |-> IF r \in lost THEN "gone" ELSE pc[r]]
        /\ lock' = [s \in DOMAIN lock |-> IF lock[s] \in lost THEN None ELSE lock[s]]
    BY <1>4, Zenon DEF Crash
  <2>2. None \notin lost /\ lost \subseteq Req
    BY Bounds, Zenon
  <2>. HIDE DEF lost
  <2>. QED
    BY <1>0, <2>1, <2>2, Bounds, Zenon DEF LockHeldInside
<1>5. ASSUME NEW w \in Worker, GroupStep(w), ~Crash(w) PROVE UNCHANGED <<lock, pc>>
  BY <1>5, GroupEnds, Zenon DEF GroupStep, StartBatch, FusedStatement, StatementFails
<1>6. CASE (\E c \in Req : CaseCloses(c)) \/ PlatformChanges \/ Tick \/ OnlyFaults
           \/ UNCHANGED ingestVars
  BY <1>6, Zenon DEF CaseCloses, PlatformChanges, Tick, OnlyFaults, ingestVars, LockHeldInside
<1>. QED
  BY <1>3, <1>4, <1>5, <1>6, Zenon DEF IngestStep, LockHeldInside

(***************************************************************************)
(* One open case                                                           *)
(***************************************************************************)

(* There is a newest row among any. *)
LEMMA NewestExists ==
    ASSUME NEW rows \in [Req -> RowRecord], NEW H \in SUBSET Req, H # {}
    PROVE  \E e \in H : \A f \in H : rows[f].at <= rows[e].at
<1>. DEFINE T == {MaxTime - rows[e].at : e \in H}
<1>1. MaxTime \in Nat /\ \A e \in H : rows[e].at \in 0..MaxTime
  BY Bounds, Zenon DEF RowRecord
<1>2. T \subseteq Nat /\ T # {}
  BY <1>1
<1>. HIDE DEF T
<1>3. PICK x \in T : \A y \in T : ~(<<y, x>> \in OpToRel(<, Nat))
  BY <1>2, NatLessThanWellFounded, WFMin, Zenon
<1>4. \A y \in T : ~(y < x)
  BY <1>2, <1>3, Zenon DEF OpToRel
<1>5. PICK e \in H : x = MaxTime - rows[e].at
  BY Zenon DEF T
<1>6. ASSUME NEW f \in H PROVE rows[f].at <= rows[e].at
  <2>1. MaxTime - rows[f].at \in T
    BY Zenon DEF T
  <2>2. ~(MaxTime - rows[f].at < MaxTime - rows[e].at)
    BY <1>4, <1>5, <2>1, Zenon
  <2>. QED
    BY <1>1, <2>2
<1>. QED
  BY <1>6, Zenon

(* A transaction that found nothing is right for as long as it holds the    *)
(* lock.                                                                    *)
Decided ==
    \A d \in Req : pc[d] = "write" /\ read[d].found = None =>
        \A c \in Req \ {d} :
            Fingerprint(c) = Fingerprint(d) /\ case[c] = "open" => Apart(c, d)

(* The deciding read misses only the cases whose opening event is older     *)
(* than the window.                                                         *)
LEMMA FindDecides ==
    ASSUME IngestTyped, RowsOK, NEW d \in Req, Find(d), read'[d].found = None,
           NEW c \in Req, Fingerprint(c) = Fingerprint(d), case[c] = "open"
    PROVE  row[c].at < now - read[d].window
<1>. DEFINE hits == {e \in Req : /\ Fingerprint(e) = Fingerprint(d)
                                 /\ row[e].case # None /\ case[row[e].case] = "open"
                                 /\ row[e].at >= now - read[d].window}
            newest == {e \in hits : \A f \in hits : row[f].at <= row[e].at}
            found == Candidates(row, Fingerprint(d), read[d].window)
<1>1. row \in [Req -> RowRecord] /\ read \in [Req -> ReadRecord] /\ now \in 0..MaxTime
  BY Zenon DEF IngestTyped
<1>2. found = {row[e].case : e \in newest}
  BY Zenon DEF Candidates
<1>3. found \subseteq Req
  BY <1>1, CandidatesTyped, Zenon
<1>4. PICK x \in IF found = {} THEN {None} ELSE found :
         read' = [read EXCEPT ![d].found = x, ![d].at = now]
  BY Zenon DEF Find
<1>. HIDE DEF found
<1>5. x = None
  BY <1>1, <1>4, Zenon DEF ReadRecord
<1>6. found = {}
  BY <1>3, <1>4, <1>5, Bounds, Zenon
<1>7. newest = {}
  BY <1>2, <1>6, Zenon
<1>8. hits = {}
  BY <1>1, <1>7, NewestExists, Zenon
<1>9. row[c].case = c
  BY Zenon DEF RowsOK, RowOK
<1>10. ~(row[c].at >= now - read[d].window)
  BY <1>8, <1>9, Bounds, Zenon
<1>11. row[c].at \in Int /\ now \in Int /\ read[d].window \in Int
  BY <1>1 DEF RowRecord, ReadRecord
<1>. QED
  BY <1>10, <1>11

(* The row and the read of a request that has a case are final. *)
LEMMA OpenRowKept ==
    ASSUME IngestTyped, FlowInv, RowsOK, IngestStep, NEW c \in Req, case[c] # "none"
    PROVE  row'[c] = row[c] /\ read'[c] = read[c]
<1>1. result[c].kind = "miss" /\ pc[c] \in {"start", "done", "gone"}
  BY Zenon DEF RowsOK, RowOK
<1>2. ASSUME NEW r \in Req, HandlerStep(r) PROVE row'[c] = row[c] /\ read'[c] = read[c]
  <2>1. CASE r = c
    <3>1. StartWorkflow(c)
      BY <1>1, <1>2, <2>1, Zenon DEF HandlerStep, Txn, Refuse, RejectPayload, Cancelled,
         Receive, Refused, Resume,
         TxnFails, ReadPlatform, AcquireLock, Find, Commit
    <3>. QED
      BY <3>1, Zenon DEF StartWorkflow
  <2>2. CASE r # c
    <3>1. read'[c] = read[c]
      BY <1>2, <2>2, HandlerMoves, Zenon
    <3>2. row' = row \/ \E at : row' = Written(r, at).row
      BY <1>2, Zenon DEF HandlerStep, Txn, Refuse, RejectPayload, Cancelled,
         Receive, Refused, Resume,
         TxnFails, ReadPlatform, AcquireLock, Find, Commit, StartWorkflow, dbVars
    <3>. QED
      BY <2>2, <3>1, <3>2, WrittenFrame
  <2>. QED
    BY <2>1, <2>2, Zenon
<1>3. ASSUME NEW w \in Worker, GroupStep(w) PROVE row'[c] = row[c] /\ read'[c] = read[c]
  <2>1. CASE FinishBatch(w) \/ BatchRaises(w)
    <3>1. row' \in {row, Seen(w)} /\ read' = read
      BY <2>1, GroupEnds, Zenon
    <3>2. /\ c \notin Range(batch[w].items) /\ batch[w].items \in Seq(Req)
          /\ batch[w].out \in Seq(OutRecord) /\ Len(batch[w].out) <= Len(batch[w].items)
      BY <1>1, Zenon DEF FlowInv, GroupsOK, IngestTyped, BatchRecord
    <3>3. \A i \in 1..Len(batch[w].out) : batch[w].items[i] # c
      BY <3>2 DEF Range
    <3>. QED
      BY <3>1, <3>3, SeenRow
  <2>2. CASE ~(FinishBatch(w) \/ BatchRaises(w))
    BY <1>3, <2>2, Zenon DEF GroupStep, StartBatch, FusedStatement, StatementFails, Crash, dbVars
  <2>. QED
    BY <2>1, <2>2, Zenon
<1>4. CASE (\E r \in Req : CaseCloses(r)) \/ PlatformChanges \/ Tick \/ OnlyFaults
           \/ UNCHANGED ingestVars
  BY <1>4, Zenon DEF CaseCloses, PlatformChanges, Tick, OnlyFaults, ingestVars, dbVars
<1>. QED
  BY <1>2, <1>3, <1>4, Zenon DEF IngestStep

(* A case is opened by the commit of its own request's transaction, which   *)
(* found none; the commit may also be one that raised.                      *)
LEMMA CaseOpens ==
    ASSUME IngestTyped, IngestStep, NEW c \in Req, case[c] # "open", case'[c] = "open"
    PROVE  /\ pc[c] = "write" /\ read[c].found = None /\ read' = read
           /\ \A e \in Req \ {c} : row'[e] = row[e] /\ case'[e] = case[e]
<1>0. case \in [Req -> {"none", "open", "closed"}]
  BY Zenon DEF IngestTyped
<1>1. ASSUME NEW r \in Req, Commit(r) \/ TxnFails(r)
      PROVE  /\ pc[c] = "write" /\ read[c].found = None /\ read' = read
             /\ \A e \in Req \ {c} : row'[e] = row[e] /\ case'[e] = case[e]
  <2>1. PICK at : /\ read' = read /\ case' = Written(r, at).case /\ row' = Written(r, at).row
                  /\ pc[r] \in {"miss", "write"}
    BY <1>1, Zenon DEF Commit, TxnFails, AtCommit
  <2>2. \A e \in Req \ {r} : row'[e] = row[e] /\ case'[e] = case[e]
    <3>1. \A e \in Req \ {r} :
             Written(r, at).row[e] = row[e] /\ Written(r, at).case[e] = case[e]
      BY WrittenFrame
    <3>. QED
      BY <2>1, <3>1, Zenon
  <2>3. case'[r] = "open" => case[r] = "open" \/ (pc[r] # "miss" /\ read[r].found = None)
    <3>1. /\ pc[r] = "miss" => Written(r, at).case[r] = case[r]
          /\ pc[r] # "miss" /\ read[r].found # None => Written(r, at).case[r] = case[r]
      BY WrittenFrame, Zenon
    <3>. QED
      BY <2>1, <3>1, Zenon
  <2>. QED
    BY <2>1, <2>2, <2>3, Zenon
<1>2. ASSUME NEW r \in Req, HandlerStep(r), ~(Commit(r) \/ TxnFails(r)) PROVE UNCHANGED case
  BY <1>2, Zenon DEF HandlerStep, Txn, Refuse, RejectPayload, Cancelled, Receive, Refused, Resume,
     ReadPlatform, AcquireLock, Find, StartWorkflow, dbVars
<1>3. ASSUME NEW w \in Worker, GroupStep(w) PROVE UNCHANGED case
  BY <1>3, GroupEnds, Zenon DEF GroupStep, StartBatch, FusedStatement, StatementFails, Crash, dbVars
<1>4. ASSUME NEW r \in Req, CaseCloses(r) PROVE FALSE
  BY <1>0, <1>4, Zenon DEF CaseCloses
<1>5. CASE PlatformChanges \/ Tick \/ OnlyFaults \/ UNCHANGED ingestVars
  BY <1>5, Zenon DEF PlatformChanges, Tick, OnlyFaults, ingestVars, dbVars
<1>. QED
  BY <1>1, <1>2, <1>3, <1>4, <1>5, Zenon DEF IngestStep

(* The write is entered by the deciding read, and keeps what it read. *)
LEMMA WritePhase ==
    ASSUME IngestTyped, IngestStep, NEW d \in Req, pc'[d] = "write"
    PROVE  \/ pc[d] # "write" /\ Find(d)
           \/ pc[d] = "write" /\ read'[d] = read[d]
<1>0. pc \in [Req -> Place]
  BY Zenon DEF IngestTyped
<1>1. ASSUME NEW r \in Req, HandlerStep(r)
      PROVE  (pc[d] # "write" /\ Find(d)) \/ (pc[d] = "write" /\ read'[d] = read[d])
  <2>1. CASE r # d
    BY <1>1, <2>1, HandlerMoves, Zenon
  <2>2. CASE r = d
    BY <1>0, <1>1, <2>2, Zenon DEF HandlerStep, Txn, Refuse, RejectPayload, Cancelled,
       Receive, Refused, Resume,
       TxnFails, ReadPlatform, AcquireLock, Find, Commit, StartWorkflow, Reply
  <2>. QED
    BY <2>1, <2>2, Zenon
<1>2. ASSUME NEW w \in Worker, GroupStep(w) PROVE pc[d] = "write" /\ read' = read
  <2>1. CASE Crash(w)
    BY <2>1, Zenon DEF Crash
  <2>2. CASE ~Crash(w)
    BY <1>2, <2>2, GroupEnds, Zenon DEF GroupStep, StartBatch, FusedStatement, StatementFails
  <2>. QED
    BY <2>1, <2>2, Zenon
<1>3. CASE (\E r \in Req : CaseCloses(r)) \/ PlatformChanges \/ Tick \/ OnlyFaults
           \/ UNCHANGED ingestVars
  BY <1>3, Zenon DEF CaseCloses, PlatformChanges, Tick, OnlyFaults, ingestVars
<1>. QED
  BY <1>1, <1>2, <1>3, Zenon DEF IngestStep

LEMMA OpenCaseStep ==
    ASSUME IngestTyped, FlowInv, RowsOK, LockHeldInside, Decided, OneOpenCase, IngestStep
    PROVE  Decided' /\ OneOpenCase'
<1>1. Decided'
  <2>. SUFFICES ASSUME NEW d \in Req, pc'[d] = "write", read'[d].found = None,
                       NEW c \in Req \ {d}, Fingerprint(c) = Fingerprint(d), case'[c] = "open"
                PROVE  Apart(c, d)'
    BY Zenon DEF Decided
  <2>1. CASE pc[d] = "write" /\ read'[d] = read[d]
    <3>1. case[c] = "open"
      <4>. SUFFICES ASSUME case[c] # "open" PROVE FALSE
        BY Zenon
      <4>1. pc[c] = "write"
        BY CaseOpens, Zenon
      <4>. QED
        BY <2>1, <4>1 DEF LockHeldInside
    <3>2. Apart(c, d)
      BY <2>1, <3>1, Zenon DEF Decided
    <3>3. row'[c] = row[c]
      BY <3>1, OpenRowKept, Zenon
    <3>. QED
      BY <2>1, <3>2, <3>3, Zenon DEF Apart
  <2>2. CASE pc[d] # "write" /\ Find(d)
    <3>1. UNCHANGED <<row, case>>
      BY <2>2, Zenon DEF Find, dbVars
    <3>2. row[c].at < now - read[d].window
      BY <2>2, <3>1, FindDecides, Zenon
    <3>3. read'[d].at = now /\ read'[d].window = read[d].window
      BY <2>2 DEF Find, IngestTyped, ReadRecord
    <3>. QED
      BY <3>1, <3>2, <3>3, Zenon DEF Apart
  <2>. QED
    BY <2>1, <2>2, WritePhase, Zenon
<1>2. ASSUME NEW c \in Req, NEW d \in Req, c # d, Fingerprint(c) = Fingerprint(d),
             case'[c] = "open", case'[d] = "open", case[d] # "open"
      PROVE  Apart(c, d)'
  <2>1. /\ pc[d] = "write" /\ read[d].found = None /\ read' = read
        /\ row'[c] = row[c] /\ case'[c] = case[c]
    BY <1>2, CaseOpens, Zenon
  <2>2. Apart(c, d)
    BY <1>2, <2>1, Zenon DEF Decided
  <2>. QED
    BY <2>1, <2>2, Zenon DEF Apart
<1>3. ASSUME NEW c \in Req, NEW d \in Req, c # d, Fingerprint(c) = Fingerprint(d),
             case[c] = "open", case[d] = "open"
      PROVE  Apart(c, d)' \/ Apart(d, c)'
  <2>1. Apart(c, d) \/ Apart(d, c)
    BY <1>3, Zenon DEF OneOpenCase
  <2>2. row'[c] = row[c] /\ read'[c] = read[c] /\ row'[d] = row[d] /\ read'[d] = read[d]
    BY <1>3, OpenRowKept, Zenon
  <2>. QED
    BY <2>1, <2>2, Zenon DEF Apart
<1>4. OneOpenCase'
  BY <1>2, <1>3, Zenon DEF OneOpenCase
<1>. QED
  BY <1>1, <1>4, Zenon

(***************************************************************************)
(* Together                                                                *)
(***************************************************************************)

IngestInv ==
    IngestTyped /\ FlowInv /\ RowsOK /\ LockHeldInside /\ Decided /\ OneOpenCase

LEMMA IngestInitInv == IngestInit => IngestInv
<1>1. IngestInit => Decided /\ OneOpenCase
  BY Zenon DEF IngestInit, Decided, OneOpenCase
<1>. QED
  BY <1>1, InitTyped, InitFlow, Zenon DEF IngestInv

LEMMA IngestStepInv == ASSUME IngestInv, IngestStep PROVE IngestInv'
BY StepTyped, FlowStep, RowsStep, LockStep, OpenCaseStep, Zenon DEF IngestInv

(* What the invariant is for. *)
LEMMA IngestConsequences ==
    ASSUME IngestInv
    PROVE  IngestTypeOK /\ OneOpenCase /\ AnswerDurable /\ LockHeldInside /\ NeverTwice
<1>1. IngestTypeOK /\ OneOpenCase /\ LockHeldInside
  BY TypedImplies, Zenon DEF IngestInv
<1>2. AnswerDurable
  <2>. SUFFICES ASSUME NEW r \in Req
                PROVE  /\ answer[r].kind \in Succeeded =>
                             row[r].disposition = answer[r].kind /\ row[r].case = answer[r].case
                       /\ answer[r].kind = "opened" => r \in started /\ case[r] # "none"
                       /\ answer[r].kind \in Unsaved => row[r].disposition = "none"
    BY Zenon DEF AnswerDurable, Succeeded
  <2>1. RowOK(r) /\ (answer[r].kind \in Unsaved => result[r].kind = "none")
    BY Zenon DEF IngestInv, RowsOK, FlowInv, PlacesOK
  <2>. QED
    BY <2>1, Zenon DEF RowOK, Succeeded, Undecided
<1>3. NeverTwice
  BY Zenon DEF IngestInv, RowsOK, RowOK, FlowInv, PlacesOK, NeverTwice, Undecided, InTxn
<1>. QED
  BY <1>1, <1>2, <1>3, Zenon

(* The window that the fused statement takes is the one that the            *)
(* transaction would take.                                                  *)
LEMMA FastPathHolds == ASSUME IngestTyped PROVE FastPathAgrees
<1>1. FusedWindow(platform.cfg) \subseteq TxnWindow(platform.cfg)
  BY WindowsTyped, Zenon DEF IngestTyped
<1>. QED
  BY <1>1, Zenon DEF FastPathAgrees
=============================================================================
