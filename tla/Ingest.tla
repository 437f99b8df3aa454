------------------------------- MODULE Ingest -------------------------------
(***************************************************************************)
(* Webhook ingest and correlation: ingest.py and the correlation           *)
(* statements of investigation_repo.py, for all alerts of one platform.    *)
(* Module Gateway composes these actions with the coalescer that decides   *)
(* which requests make up a group.                                         *)
(*                                                                         *)
(* Several gateway workers share one PostgreSQL database at READ           *)
(* COMMITTED: a statement sees what was committed before it, and what its  *)
(* own transaction wrote.  A case is named by the request that opened it.  *)
(* The audit row of each disposition is written by the transaction that    *)
(* writes the alert_events row and is not kept apart from it.              *)
(***************************************************************************)
EXTENDS Integers, Sequences, Functions

CONSTANTS
    Req,            \* accepted webhook requests, one alert event each
    Worker,         \* gateway worker processes
    Fingerprint(_), \* the correlation slot of a request
    BatchSize,      \* MERGE_COMMIT_BATCH_SIZE
    DefaultWindow,  \* ingest.correlation_window_seconds
    FirstPlatform,  \* the platforms row when the alerts begin
    Platforms,      \* what it can become
    None,
    MaxTime,        \* bound: clock
    MaxFaults       \* bound: failures, cancellations, clock steps, platform changes

(* A value of platforms.config: absent, or a number n in one of the forms   *)
(* "int" (a JSON integer, or digits in a string), "loose" (60.0, " 60 ":    *)
(* int() takes it, the statement's pattern does not), and "bad" (neither).  *)
Value == [form : {"absent", "int", "loose", "bad"}, n : Int]

ASSUME IngestAssumption ==
    /\ BatchSize \in Nat \ {0} /\ None \notin Req \cup Worker
    /\ MaxTime \in Nat /\ MaxFaults \in Nat
    /\ DefaultWindow \in Int
    /\ \A p \in Platforms \cup {FirstPlatform} :
          p.cfg.seconds \in Value /\ p.cfg.window \in Value

VARIABLES
    now, faults,
    platform,   \* the platforms row, as the transactions read it
    row,        \* alert_events: disposition, investigation_id, received_at
    case,       \* investigations: "none", "open" (not terminal) or "closed"
    started,    \* the cases whose workflow was started
    lock,       \* advisory locks: the request whose transaction holds it
    batch,      \* per worker: the group in the database
    result,     \* per request: what its group did for it
    pc,         \* per request: where its handler is
    home,       \* per request: the worker that serves it
    read,       \* per request: what its own transaction has read
    answer      \* per request: the HTTP answer

dbVars == <<row, case, started>>
ingestVars == <<now, faults, platform, dbVars, lock, batch, result, pc, home,
                read, answer>>

Slot == {Fingerprint(r) : r \in Req}
NoBatch == [on |-> FALSE, items |-> <<>>, out |-> <<>>, fatal |-> FALSE]
NoRead == [window |-> 0, found |-> None, at |-> 0]

(***************************************************************************)
(* The correlation window                                                  *)
(***************************************************************************)

(* correlation_window_seconds wins over correlation_window by its presence. *)
Override(cfg) == IF cfg.seconds.form # "absent" THEN cfg.seconds ELSE cfg.window

(* The statement reads a value that it cannot parse as the default. *)
FusedWindowLenient(cfg) ==
    LET v == Override(cfg)
    IN  IF v.form = "int" THEN {v.n} ELSE {DefaultWindow}

(* The CASE of the fused statement: {} for its NULL. *)
FusedWindow(cfg) ==
    LET v == Override(cfg)
    IN  CASE v.form = "absent" -> {DefaultWindow}
          [] v.form = "int" -> {v.n}
          [] OTHER -> {}

(* The int() of _ingest_txn: {} when it raises. *)
TxnWindow(cfg) ==
    LET v == Override(cfg)
    IN  CASE v.form = "absent" -> {DefaultWindow}
          [] v.form = "bad" -> {}
          [] OTHER -> {v.n}

(* Lower-case status 'online'; a platform may also be unknown. *)
Online == platform.status = "online"

(* find_open_by_fingerprint, and the candidate of the fused statement: the  *)
(* case of the newest event of the slot, received in the window, whose case *)
(* is not terminal.  Rows of one instant may come in either order.          *)
Candidates(rows, slot, window) ==
    LET hits == {e \in Req : /\ Fingerprint(e) = slot
                             /\ rows[e].case # None /\ case[rows[e].case] = "open"
                             /\ rows[e].at >= now - window}
        newest == {e \in hits : \A f \in hits : rows[f].at <= rows[e].at}
    IN  {rows[e].case : e \in newest}

(***************************************************************************)
(* The merge group of a worker                                             *)
(***************************************************************************)

Fault == faults < MaxFaults /\ faults' = faults + 1

(* The answers that end a request before it reaches the database: "invalid" *)
(* is the 400 or 401 of a body that is not JSON or of a bad signature, and  *)
(* "rejected_payload" the 200 whose status is "rejected" and whose reason   *)
(* is a missing field or an unknown source.  The other 200 "rejected", on   *)
(* account of the platform, is "rejected" below.                            *)
Unsaved == {"invalid", "rejected_payload"}

(* The webhook handler refuses the request before ingest() is called. *)
Refuse(r) ==
    /\ pc[r] = "new"
    /\ pc' = [pc EXCEPT ![r] = "done"]
    /\ answer' = [answer EXCEPT ![r].kind = "invalid"]
    /\ UNCHANGED <<now, faults, platform, dbVars, lock, batch, result, home, read>>

(* ingest() returns before it submits: nothing is written. *)
RejectPayload(r) ==
    /\ pc[r] = "new"
    /\ pc' = [pc EXCEPT ![r] = "done"]
    /\ answer' = [answer EXCEPT ![r].kind = "rejected_payload"]
    /\ UNCHANGED <<now, faults, platform, dbVars, lock, batch, result, home, read>>

(* ingest() submits to the coalescer of its worker. *)
Receive(r, w) ==
    /\ pc[r] = "new"
    /\ pc' = [pc EXCEPT ![r] = "queued"] /\ home' = [home EXCEPT ![r] = w]
    /\ UNCHANGED <<now, faults, platform, dbVars, lock, batch, result, read, answer>>

(* _execute_merge_batch is handed a group: its session is opened. *)
StartBatch(w, items) ==
    /\ batch' = [batch EXCEPT ![w] = [on |-> TRUE, items |-> items, out |-> <<>>,
                                     fatal |-> FALSE]]
    /\ UNCHANGED <<now, faults, platform, dbVars, lock, result, pc, home, read, answer>>

Hit(c) == [kind |-> "hit", case |-> c, at |-> now]
Miss == [kind |-> "miss", case |-> None, at |-> 0]
Error == [kind |-> "error", case |-> None, at |-> 0]

(* What the group's transaction sees: its own hits on top of what others    *)
(* committed.                                                               *)
Merged(o) == [disposition |-> "merged", case |-> o.case, at |-> o.at]
Seen(w) ==
    LET b == batch[w]
        own == {i \in 1..Len(b.out) : b.out[i].kind = "hit"}
    IN  [e \in Req |-> IF \E i \in own : b.items[i] = e
                       THEN Merged(b.out[CHOOSE i \in own : b.items[i] = e])
                       ELSE row[e]]

(* merge_existing_event_with_audit for the next item, in its savepoint.     *)
FusedStatement(w) ==
    LET b == batch[w]
        r == b.items[Len(b.out) + 1]
        found == UNION {Candidates(Seen(w), Fingerprint(r), v) :
                          v \in IF Online THEN FusedWindow(platform.cfg) ELSE {}}
    IN  /\ b.on /\ ~b.fatal /\ Len(b.out) < Len(b.items)
        /\ \/ \E c \in found : batch' = [batch EXCEPT ![w].out = Append(@, Hit(c))]
           \/ found = {} /\ batch' = [batch EXCEPT ![w].out = Append(@, Miss)]
        /\ UNCHANGED <<now, faults, platform, dbVars, lock, result, pc, home,
                       read, answer>>

(* The statement raises.  _recover_savepoint either keeps the failure to    *)
(* this item or finds the transaction lost.                                 *)
StatementFails(w) ==
    LET b == batch[w]
    IN  /\ b.on /\ ~b.fatal /\ Len(b.out) < Len(b.items) /\ Fault
        /\ \E lost \in BOOLEAN :
             batch' = [batch EXCEPT ![w].out = Append(@, Error), ![w].fatal = lost]
        /\ UNCHANGED <<now, platform, dbVars, lock, result, pc, home, read, answer>>

(* A failed group leaves the answers its members already have. *)
OutcomesUnfenced(b, fatal) ==
    [i \in 1..Len(b.items) |-> IF i <= Len(b.out) THEN b.out[i].kind ELSE "error"]

(* The members of a failed group are tried again one by one. *)
OutcomesRetried(b, fatal) ==
    [i \in 1..Len(b.items) |-> IF fatal THEN "miss" ELSE b.out[i].kind]

(* The members of a failed group that are not failures of their own fail    *)
(* with it, the ones it never came to included.                             *)
Outcomes(b, fatal) ==
    [i \in 1..Len(b.items) |->
        IF fatal \/ b.out[i].kind = "error" THEN "error" ELSE b.out[i].kind]

(* What the list that the callback returns says of each member. *)
Answered(w, fatal) ==
    LET b == batch[w]
    IN  /\ result' = [r \in Req |->
              IF r \notin Range(b.items) THEN result[r]
              ELSE LET i == CHOOSE i \in 1..Len(b.items) : b.items[i] = r
                       kind == Outcomes(b, fatal)[i]
                   IN  [kind |-> kind,
                        case |-> IF kind = "hit" THEN b.out[i].case ELSE None]]
        /\ batch' = [batch EXCEPT ![w] = NoBatch]
        /\ UNCHANGED <<now, platform, case, started, lock, pc, home, read, answer>>

(* _finish_merge_batch: one commit if there is a hit, else a rollback.  A   *)
(* commit that raises may have reached the disk all the same.               *)
FinishBatch(w) ==
    LET b == batch[w]
        hits == \E i \in 1..Len(b.out) : b.out[i].kind = "hit"
    IN  /\ b.on
        /\ \/ b.fatal /\ row' = row /\ UNCHANGED faults /\ Answered(w, TRUE)
           \/ /\ ~b.fatal /\ Len(b.out) = Len(b.items)
              /\ row' = Seen(w) /\ UNCHANGED faults /\ Answered(w, FALSE)
           \/ /\ ~b.fatal /\ Len(b.out) = Len(b.items) /\ hits /\ Fault
              /\ row' \in {row, Seen(w)} /\ Answered(w, TRUE)

(* The session, a savepoint or the rollback of a group of misses raises:    *)
(* there is no list, and nothing of the group is committed.                 *)
BatchRaises(w) ==
    /\ batch[w].on /\ ~batch[w].fatal /\ Fault
    /\ UNCHANGED row /\ Answered(w, TRUE)

(***************************************************************************)
(* ingest(), when the coalescer has answered                               *)
(***************************************************************************)

Reply(r, kind, c) ==
    /\ pc' = [pc EXCEPT ![r] = "done"]
    /\ answer' = [answer EXCEPT ![r] = [kind |-> kind, case |-> c]]

(* A failure is not handed on to its handler. *)
ResumeSilent(r, outcome) ==
    /\ pc[r] = "queued"
    /\ \/ outcome = "hit" /\ Reply(r, "merged", result[r].case)
       \/ outcome = "miss" /\ pc' = [pc EXCEPT ![r] = "miss"] /\ UNCHANGED answer
    /\ UNCHANGED <<now, faults, platform, dbVars, lock, batch, result, home, read>>

(* A hit is answered, a miss goes on to a transaction of its own, and a     *)
(* failure is the server's error.                                           *)
Resume(r, outcome) ==
    /\ pc[r] = "queued"
    /\ \/ outcome = "hit" /\ Reply(r, "merged", result[r].case)
       \/ outcome = "miss" /\ pc' = [pc EXCEPT ![r] = "miss"] /\ UNCHANGED answer
       \/ outcome = "error" /\ Reply(r, "error", None)
    /\ UNCHANGED <<now, faults, platform, dbVars, lock, batch, result, home, read>>

(* The coalescer of the worker is closed: submit() raises. *)
Refused(r, w) ==
    /\ pc[r] = "new"
    /\ home' = [home EXCEPT ![r] = w] /\ Reply(r, "error", None)
    /\ UNCHANGED <<now, faults, platform, dbVars, lock, batch, result, read>>

(* The handler is cancelled while it waits for its group. *)
Cancelled(r) ==
    /\ pc[r] = "queued" /\ Fault
    /\ pc' = [pc EXCEPT ![r] = "gone"]
    /\ UNCHANGED <<now, platform, dbVars, lock, batch, result, home, read, answer>>

(***************************************************************************)
(* _ingest_txn, and the start of the workflow                              *)
(***************************************************************************)

Row(disposition, c, at) == [disposition |-> disposition, case |-> c, at |-> at]

(* _reject: the alert is kept, without a case. *)
Reject(r, at) == [row EXCEPT ![r] = Row("rejected", None, at)]

(* What the transaction commits: a rejection, or under the lock an alert    *)
(* merged into what was found, or a new case in RECEIVED with its trigger.  *)
(* received_at is the time at of the insert.                                *)
Written(r, at) ==
    CASE pc[r] = "miss" -> [row |-> Reject(r, at), case |-> case]
      [] pc[r] # "miss" /\ read[r].found = None ->
             [row |-> [row EXCEPT ![r] = Row("opened", r, at)],
              case |-> [case EXCEPT ![r] = "open"]]
      [] OTHER ->
             [row |-> [row EXCEPT ![r] = Row("merged", read[r].found, at)],
              case |-> case]

(* The insert lies between the deciding read and the commit.  A rejection   *)
(* is read, inserted and committed in one step.                             *)
InsertTimes(r) == IF pc[r] = "miss" THEN {now} ELSE read[r].at..now

(* get_platform: an unknown platform, or one that is not online, is         *)
(* rejected with a row; otherwise the window is computed before the lock.   *)
ReadPlatform(r) ==
    /\ pc[r] = "miss"
    /\ \/ /\ ~Online /\ row' = Written(r, now).row
          /\ Reply(r, "rejected", None) /\ UNCHANGED read
       \/ /\ Online /\ TxnWindow(platform.cfg) = {}
          /\ Reply(r, "error", None) /\ UNCHANGED <<row, read>>
       \/ /\ Online
          /\ \E v \in TxnWindow(platform.cfg) : read' = [read EXCEPT ![r].window = v]
          /\ pc' = [pc EXCEPT ![r] = "lock"] /\ UNCHANGED <<row, answer>>
    /\ UNCHANGED <<now, faults, platform, case, started, lock, batch, result, home>>

(* pg_advisory_xact_lock: waits for the transaction that holds the slot. *)
AcquireLock(r) ==
    /\ pc[r] = "lock" /\ lock[Fingerprint(r)] = None
    /\ lock' = [lock EXCEPT ![Fingerprint(r)] = r]
    /\ pc' = [pc EXCEPT ![r] = "find"]
    /\ UNCHANGED <<now, faults, platform, dbVars, batch, result, home, read, answer>>

(* No second look: the miss of the fused statement is taken for granted. *)
FindNothing(r) ==
    /\ pc[r] = "find"
    /\ read' = [read EXCEPT ![r].found = None, ![r].at = now]
    /\ pc' = [pc EXCEPT ![r] = "write"]
    /\ UNCHANGED <<now, faults, platform, dbVars, lock, batch, result, home, answer>>

(* The deciding re-read, with the window read before. *)
Find(r) ==
    /\ pc[r] = "find"
    /\ LET found == Candidates(row, Fingerprint(r), read[r].window)
       IN  \E c \in IF found = {} THEN {None} ELSE found :
             read' = [read EXCEPT ![r].found = c, ![r].at = now]
    /\ pc' = [pc EXCEPT ![r] = "write"]
    /\ UNCHANGED <<now, faults, platform, dbVars, lock, batch, result, home, answer>>

(* A session lock: nothing but the end of the process releases it. *)
UnlockedNever(r) == lock

Unlocked(r) == [s \in DOMAIN lock |-> IF lock[s] = r THEN None ELSE lock[s]]

(* The commit releases the advisory lock. *)
Commit(r) ==
    /\ pc[r] = "write"
    /\ \E at \in InsertTimes(r) :
          row' = Written(r, at).row /\ case' = Written(r, at).case
    /\ lock' = Unlocked(r)
    /\ IF read[r].found = None
       THEN pc' = [pc EXCEPT ![r] = "start"] /\ UNCHANGED answer
       ELSE Reply(r, "merged", read[r].found)
    /\ UNCHANGED <<now, faults, platform, started, batch, result, home, read>>

(* Where the transaction has come to its commit. *)
AtCommit(r) == pc[r] = "write" \/ (pc[r] = "miss" /\ ~Online)

(* A statement of the transaction raises, or its commit, which may have     *)
(* reached the disk all the same.                                           *)
TxnFails(r) ==
    /\ pc[r] \in {"miss", "lock", "find", "write"} /\ Fault
    /\ \/ UNCHANGED <<row, case>>
       \/ /\ AtCommit(r)
          /\ \E at \in InsertTimes(r) :
                row' = Written(r, at).row /\ case' = Written(r, at).case
    /\ lock' = Unlocked(r)
    /\ Reply(r, "error", None)
    /\ UNCHANGED <<now, platform, started, batch, result, home, read>>

(* start_investigation after the commit; Temporal may refuse or be away. *)
StartWorkflow(r) ==
    /\ pc[r] = "start"
    /\ \/ started' = started \cup {r} /\ Reply(r, "opened", r) /\ UNCHANGED faults
       \/ Fault /\ Reply(r, "error", None)
          /\ started' \in {started, started \cup {r}}
    /\ UNCHANGED <<now, platform, row, case, lock, batch, result, home, read>>

(***************************************************************************)
(* The environment                                                         *)
(***************************************************************************)

(* A worker process dies: its open transactions are rolled back. *)
Crash(w) ==
    LET lost == {r \in Req : home[r] = w /\ pc[r] \notin {"done", "gone"}}
    IN  /\ lost # {} /\ Fault
        /\ pc' = [r \in Req |-> IF r \in lost THEN "gone" ELSE pc[r]]
        /\ lock' = [s \in DOMAIN lock |-> IF lock[s] \in lost THEN None ELSE lock[s]]
        /\ batch' = [batch EXCEPT ![w] = NoBatch]
        /\ UNCHANGED <<now, platform, dbVars, result, home, read, answer>>

(* A workflow brings its case to a terminal status.  It stays there: the    *)
(* late commits by which module Investigation shows that a case can leave a *)
(* terminal status again are not part of this module.                       *)
CaseCloses(c) ==
    /\ case[c] = "open" /\ c \in started
    /\ case' = [case EXCEPT ![c] = "closed"]
    /\ UNCHANGED <<now, faults, platform, row, started, lock, batch, result,
                   pc, home, read, answer>>

(* The dashboard or the probe gateway updates the platforms row. *)
PlatformChanges ==
    /\ Fault /\ \E p \in Platforms : p # platform /\ platform' = p
    /\ UNCHANGED <<now, dbVars, lock, batch, result, pc, home, read, answer>>

Tick ==
    /\ now < MaxTime /\ now' = now + 1 /\ Fault
    /\ UNCHANGED <<platform, dbVars, lock, batch, result, pc, home,
                   read, answer>>

(***************************************************************************)
(* The initial state, and the steps of one request's own transaction       *)
(***************************************************************************)

IngestInit ==
    /\ now = 0 /\ faults = 0 /\ platform = FirstPlatform
    /\ row = [r \in Req |-> [disposition |-> "none", case |-> None, at |-> 0]]
    /\ case = [r \in Req |-> "none"] /\ started = {}
    /\ lock = [s \in Slot |-> None]
    /\ batch = [w \in Worker |-> NoBatch]
    /\ result = [r \in Req |-> [kind |-> "none", case |-> None]]
    /\ pc = [r \in Req |-> "new"] /\ home = [r \in Req |-> None]
    /\ read = [r \in Req |-> NoRead]
    /\ answer = [r \in Req |-> [kind |-> "none", case |-> None]]

Txn(r) == ReadPlatform(r) \/ AcquireLock(r) \/ Find(r) \/ Commit(r) \/ StartWorkflow(r)

(***************************************************************************)
(* Properties                                                              *)
(***************************************************************************)

IngestTypeOK ==
    /\ now \in 0..MaxTime /\ faults \in 0..MaxFaults
    /\ platform \in Platforms \cup {FirstPlatform}
    /\ row \in [Req -> [disposition : {"none", "merged", "opened", "rejected"},
                        case : Req \cup {None}, at : 0..MaxTime]]
    /\ case \in [Req -> {"none", "open", "closed"}] /\ started \in SUBSET Req
    /\ lock \in [Slot -> Req \cup {None}]
    /\ pc \in [Req -> {"new", "queued", "miss", "lock", "find", "write", "start",
                       "done", "gone"}]
    /\ home \in [Req -> Worker \cup {None}]
    /\ result \in [Req -> [kind : {"none", "hit", "miss", "error"},
                           case : Req \cup {None}]]
    /\ \A w \in Worker : batch[w].items \in Seq(Req) /\ Len(batch[w].items) <= BatchSize

(* Concurrent identical alerts open one investigation: of two cases of one  *)
(* fingerprint that are open together, the later one was decided, under the *)
(* lock, when the event that opened the earlier one was older than the      *)
(* correlation window; whichever workers and paths the alerts took.         *)
Apart(c, d) == row[c].at < read[d].at - read[d].window
OneOpenCase ==
    \A c, d \in Req :
        c # d /\ Fingerprint(c) = Fingerprint(d) /\ case[c] = "open" /\ case[d] = "open"
            => Apart(c, d) \/ Apart(d, c)

(* An answer says what is in the database: a request that was told          *)
(* "merged", "opened", or "rejected" on account of its platform, has its    *)
(* committed row saying so, whatever happened to the rest of its group;     *)
(* "opened" has its case and its workflow as well; and of a request that    *)
(* was turned away for its body, its signature or its payload, no group and *)
(* no transaction ever writes a row.                                        *)
AnswerDurable ==
    \A r \in Req :
        /\ answer[r].kind \in {"merged", "opened", "rejected"} =>
              row[r].disposition = answer[r].kind /\ row[r].case = answer[r].case
        /\ answer[r].kind = "opened" => r \in started /\ case[r] # "none"
        /\ answer[r].kind \in Unsaved => row[r].disposition = "none"


(* The fast path takes no decision that the deciding read would not take:   *)
(* whenever the fused statement finds a case, the transaction's own window  *)
(* and read, at the same instant, find the same one.                        *)
FastPathAgrees ==
    \A s \in Slot, v \in FusedWindow(platform.cfg) :
        Candidates(row, s, v) # {} =>
            \E u \in TxnWindow(platform.cfg) : Candidates(row, s, u) = Candidates(row, s, v)

(* An advisory lock is held by exactly the transaction that is between the  *)
(* lock and its end: a failed transaction or a dead worker leaves none      *)
(* behind, and no two transactions of one slot are inside together.         *)
LockHeldInside ==
    \A r \in Req : pc[r] \in {"find", "write"} <=> lock[Fingerprint(r)] = r

(* An alert is inserted once: a transaction of its own is under way only    *)
(* for an alert that no group has committed, also when the group's commit   *)
(* raised after it had reached the disk.                                    *)
NeverTwice ==
    \A r \in Req : pc[r] \in {"miss", "lock", "find", "write"} =>
        row[r].disposition = "none"

(* Every request gets an answer, unless its worker dies or its caller goes: *)
(* in the end no handler is left waiting, be it for its group, for the lock *)
(* or for the workflow's start.                                             *)
EveryRequestAnswered == <>[](\A r \in Req : pc[r] \in {"new", "done", "gone"})
=============================================================================
