---------------------- MODULE InvestigationLifecycle -----------------------
(* Proofs about Investigation, for every value of its constants: how a case *)
(* goes through its rounds and gates, and how it ends.                      *)
EXTENDS InvestigationProofs, FiniteSetTheorems, TLAPS

(***************************************************************************)
(* The invariants.  Each is inductive next to IInv.                        *)
(***************************************************************************)

(* The activities that close a case, and the status each of them sets. *)
Closing == {"reject_case", "close_with_summary", "close_resolved",
            "to_needs_human"}

Final(act) ==
    CASE act = "reject_case" -> "REJECTED"
      [] act = "close_with_summary" -> "CLOSED_SUMMARY"
      [] act = "close_resolved" -> "RESOLVED"
      [] act = "to_needs_human" -> "NEEDS_HUMAN"

(* The notification of a gate, not of a closed case. *)
NotifyingGate == pc = "send_notifications" /\ status \notin Terminal

(* No timeout can still overwrite what a human decided at the gate. *)
HumanInv ==
    (gate.decision # "none" /\ ~gate.isTimeout) =>
        /\ gate.id \in ApprovalId
        /\ db.appr[gate.id].decision = gate.decision
        /\ db.appr[gate.id].by = "user"
        /\ \A j \in late :
              (j.act = "record_approval_decision" /\ j.isTimeout) =>
                  j.id # gate.id

(* An attempt that is still to open an execution is the only one that its   *)
(* approval has, and nothing ran for that approval.                         *)
Starting(j) == j.act = "execute_playbook" /\ j.phase = "todo"

OnceInv ==
    /\ PlaybookRunsOnce
    /\ \A a \in ApprovalId : db.appr[a].kind = "absent" => db.runs[a] = 0
    /\ \A j \in late : Starting(j) => db.runs[j.id] = 0
    /\ \A j, k \in late : (Starting(j) /\ Starting(k) /\ j.id = k.id) => j = k
    /\ (pc = "execute_playbook" /\ phase = "todo") =>
          /\ db.runs[gate.id] = 0
          /\ \A j \in late : Starting(j) => j.id # gate.id
    /\ Returned("create_approval") => db.runs[res.id] = 0
    /\ (pc \in {"await_decision", "record_approval_decision"} \/ NotifyingGate)
          => db.runs[gate.id] = 0

(* The round is on record from the return of record_iteration to the end of *)
(* the loop; an attempt of an earlier round that still runs will find its   *)
(* own round there.                                                         *)
InRound == pc \in {"round_top", "get_spend", "collect", "analyze",
                   "record_iteration"}

Recorded ==
    \/ pc \in {"static_validate_raw_command", "create_approval",
               "await_decision", "record_approval_decision",
               "run_raw_command", "plan_next", "plan_remediation",
               "execute_playbook", "settle", "verify_fix"}
    \/ Returned("record_iteration") \/ NotifyingGate

RoundsInv ==
    /\ db.iters = 1..(round - 1) \/ db.iters = 1..round
    /\ db.rounds = Cardinality(db.iters)
    /\ pc \in {"create_case", "plan_initial"} => round = 0
    /\ InRound => round >= 1
    /\ Recorded => db.iters = 1..round
    /\ \A j \in late : j.act = "record_iteration" => j.round \in 1..round

(* An approved playbook was sent to the platform, and it has its row. *)
Executed ==
    \E r \in db.ran : r.kind = "remediation" /\ db.exec[r.id] # "none"

ExecutedInv ==
    /\ (executedAny \/ pc \in {"settle", "verify_fix", "close_resolved"})
          => Executed
    /\ (Returned("execute_playbook") /\ res.ok) => Executed
    /\ (pc = "execute_playbook" /\ phase = "mid") => db.exec[gate.id] # "none"
    /\ \A j \in late :
         /\ (j.act = "execute_playbook" /\ j.phase = "mid") =>
                db.exec[j.id] # "none"
         /\ j.act = "close_resolved" => Executed
    /\ db.status = "RESOLVED" => Executed

(* The workflow has decided how the case ends, and does not go back. *)
Over ==
    \/ pc \in Closing \cup Ended
    \/ pc = "send_notifications" /\ status \in Terminal

OverInv ==
    /\ db.status \in Terminal =>
          Over /\ (pc \in Closing => db.status = Final(pc))
    /\ \A j \in late : j.act \in Closing => Over /\ (pc \in Closing => pc = j.act)

(* The approvals create_approval has drawn. *)
Drawn == {a \in ApprovalId : db.appr[a].kind # "absent"}

(* The gate that is open is the one of a. *)
AtGate(a) ==
    \/ Returned("create_approval") /\ a = res.id
    \/ /\ \/ NotifyingGate \/ pc = "await_decision"
          \/ pc = "record_approval_decision" /\ phase # "done"
       /\ a = gate.id

(* Unless an attempt was given up, the database keeps pace with the         *)
(* workflow: no transaction is left to repeat, so none raises.              *)
CleanInv ==
    /\ db.spend <= MaxSpend /\ IsFiniteSet(Drawn)
    /\ pc = "done" => status \in Terminal
    /\ status \in Terminal => pc \in {"send_notifications"} \cup Ended
    /\ faults = 0 =>
         /\ late = {} /\ pc # "failed"
         /\ (InRound /\ ~Returned("record_iteration")) => round \notin db.iters
         /\ \A a \in ApprovalId : Undecided(db, a) => AtGate(a)
         /\ status \in Terminal => db.status = status
         /\ (pc \in Closing /\ phase = "done") => db.status = Final(pc)

(***************************************************************************)
(* What a transaction does to the books of the case.                       *)
(***************************************************************************)

(* The status: only a closing activity makes it terminal. *)
StatusBook(j, d, o) ==
    IF j.act \in Closing THEN o.db.status = Final(j.act)
                         ELSE o.db.status \in {d.status} \cup NonTerminal

(* The rounds: record_iteration adds one that is not there. *)
RoundsBook(j, d, o) ==
    IF j.act = "record_iteration"
    THEN /\ j.round \notin d.iters /\ o.db.iters = d.iters \cup {j.round}
         /\ o.db.rounds = d.rounds + 1
    ELSE o.db.iters = d.iters /\ o.db.rounds = d.rounds

(* The executions: the first transaction of execute_playbook opens one, and *)
(* no row is taken back.                                                    *)
RunsBook(j, d, o) ==
    /\ IF Starting(j)
       THEN /\ o.phase = "mid"
            /\ o.db.runs = [d.runs EXCEPT ![j.id] = d.runs[j.id] + 1]
            /\ j.id \in ApprovalId => o.db.exec[j.id] # "none"
       ELSE o.db.runs = d.runs
    /\ \A a \in ApprovalId : d.exec[a] # "none" => o.db.exec[a] # "none"
    /\ d.ran \subseteq o.db.ran
    /\ (j.act = "execute_playbook" /\ j.phase = "mid" /\ o.res.ok) =>
          \E r \in o.db.ran : r.id = j.id /\ r.kind = "remediation"

(* The rest: the cost stays within its bound, only two activities take a    *)
(* second transaction, and a notification changes nothing.                  *)
OtherBook(j, d, o) ==
    /\ d.spend <= MaxSpend => o.db.spend <= MaxSpend
    /\ o.phase = "mid" =>
          /\ j.phase = "todo"
          /\ j.act \in {"record_approval_decision", "execute_playbook"}
    /\ j.act = "send_notifications" => o.db = d

Books(j, d, o) ==
    StatusBook(j, d, o) /\ RoundsBook(j, d, o) /\ RunsBook(j, d, o)
    /\ OtherBook(j, d, o)

(* An outcome whose store agrees with d on the executions. *)
KeepsRuns(d, e) == e.runs = d.runs /\ e.exec = d.exec /\ e.ran = d.ran
KeepsRounds(d, e) == e.iters = d.iters /\ e.rounds = d.rounds

LEMMA Shapes ==
    \A d, r : /\ Done(d, r).db = d /\ Done(d, r).phase = "done" /\ Done(d, r).res = r
              /\ More(d).db = d /\ More(d).phase = "mid"
BY Zenon DEF Done, More

(* The activities that only set the status or charge for a call. *)
LEMMA PlainBooks ==
    ASSUME NEW d \in Store, NEW j \in Job, NEW o, o \in Perform(j, d),
           j.act \in {"create_case", "reject_case", "plan_initial",
                      "plan_next", "get_spend", "collect", "analyze",
                      "static_validate_raw_command", "send_notifications",
                      "plan_remediation", "close_with_summary",
                      "close_resolved", "to_needs_human"}
    PROVE  Books(j, d, o)
<1>1. SUFFICES
        \E e, r :
          /\ o = Done(e, r) /\ KeepsRuns(d, e) /\ KeepsRounds(d, e)
          /\ StatusBook(j, d, Done(e, r))
          /\ d.spend <= MaxSpend => e.spend <= MaxSpend
          /\ j.act = "send_notifications" => e = d
  BY Shapes DEF Books, RoundsBook, RunsBook, OtherBook, KeepsRuns, KeepsRounds,
                Starting
<1>. DEFINE S(x) == [d EXCEPT !.status = x]
<1>2. \A x : /\ KeepsRuns(d, S(x)) /\ KeepsRounds(d, S(x))
             /\ S(x).spend = d.spend /\ S(x).status = x
  BY Zenon DEF Store, KeepsRuns, KeepsRounds
<1>3. \A e \in Charged(d) :
         /\ KeepsRuns(d, e) /\ KeepsRounds(d, e) /\ e.status = d.status
         /\ e.spend <= MaxSpend
  BY CaseStoreAssumption DEF Store, Charged, KeepsRuns, KeepsRounds
<1>4. j.act = "create_case" => \E r : o = Done(S("OPEN"), r)
  BY Zenon DEF Perform, CreateCase
<1>5. j.act \in Closing => o = Done(S(Final(j.act)), NoResult)
  BY Zenon DEF Closing, Perform, CloseCase, Final
<1>. HIDE DEF S
<1>6. CASE j.act \in Closing \cup {"create_case"}
  BY <1>2, <1>4, <1>5, <1>6, Shapes DEF StatusBook, Closing, NonTerminal
<1>7. CASE j.act \in {"plan_initial", "plan_next", "collect", "analyze",
                      "plan_remediation"}
  <2>1. \E e \in Charged(d) : \E r : o = Done(e, r)
    BY <1>7, Zenon DEF Perform, PlanCalls, Collect, Analyze, PlanRemediation
  <2>. QED
    BY <1>3, <1>7, <2>1, Shapes DEF StatusBook, Closing
<1>8. CASE j.act \in {"get_spend", "static_validate_raw_command",
                      "send_notifications"}
  <2>1. \E r : o = Done(d, r)
    BY <1>8, Zenon DEF Perform, GetSpend, StaticValidateRawCommand, SendNotifications
  <2>2. KeepsRuns(d, d) /\ KeepsRounds(d, d)
    BY Zenon DEF KeepsRuns, KeepsRounds
  <2>. QED
    BY <1>8, <2>1, <2>2, Shapes DEF StatusBook, Closing
<1>. QED
  BY <1>6, <1>7, <1>8, Zenon DEF Closing

(* The activities that write rows of their own. *)
LEMMA RowBooks ==
    ASSUME NEW d \in Store, NEW j \in Job, NEW o, o \in Perform(j, d),
           j.act \in {"record_iteration", "create_approval",
                      "record_approval_decision", "run_raw_command",
                      "verify_fix"}
    PROVE  Books(j, d, o)
<1>0. j.act \notin Closing /\ ~Starting(j) /\ j.phase \in {"todo", "mid"}
  BY Zenon DEF Closing, Starting, Job
<1>1. CASE j.act = "record_iteration"
  <2>. DEFINE e == [d EXCEPT !.iters = @ \cup {j.round}, !.rounds = @ + 1,
                             !.status = "INVESTIGATING"]
  <2>1. o = Done(e, NoResult) /\ j.round \notin d.iters
    BY <1>1, Zenon DEF Perform, RecordIteration
  <2>2. /\ KeepsRuns(d, e) /\ e.iters = d.iters \cup {j.round}
        /\ e.rounds = d.rounds + 1 /\ e.status = "INVESTIGATING"
        /\ e.spend = d.spend
    BY Zenon DEF Store, KeepsRuns
  <2>. HIDE DEF e
  <2>. QED
    BY <1>0, <1>1, <2>1, <2>2, Shapes
    DEF Books, StatusBook, RoundsBook, RunsBook, OtherBook, KeepsRuns,
        NonTerminal
<1>2. SUFFICES
        ASSUME j.act # "record_iteration"
        PROVE  /\ KeepsRounds(d, o.db) /\ o.db.spend = d.spend
               /\ o.db.status \in {d.status} \cup NonTerminal
               /\ o.db.runs = d.runs /\ d.ran \subseteq o.db.ran
               /\ \A a \in ApprovalId :
                     d.exec[a] # "none" => o.db.exec[a] # "none"
               /\ o.phase = "mid" =>
                     j.phase = "todo" /\ j.act = "record_approval_decision"
  BY <1>0, <1>1, Zenon
  DEF Books, StatusBook, RoundsBook, RunsBook, OtherBook, KeepsRounds
<1>3. CASE j.act = "create_approval"
  <2>. DEFINE row == [kind |-> j.kind, subject |-> <<j.round, j.item>>,
                      decision |-> "none", by |-> "none"]
              e(a) == [d EXCEPT !.status = "AWAITING_APPROVAL",
                                !.appr[a] = row]
  <2>1. \E a, r : o = Done(e(a), r)
    BY <1>3, Zenon DEF Perform, CreateApproval
  <2>. HIDE DEF row
  <2>2. \A a : /\ KeepsRuns(d, e(a)) /\ KeepsRounds(d, e(a))
               /\ e(a).spend = d.spend /\ e(a).status = "AWAITING_APPROVAL"
    BY Zenon DEF Store, KeepsRuns, KeepsRounds
  <2>. HIDE DEF e
  <2>. QED
    BY <1>3, <2>1, <2>2, Shapes DEF KeepsRuns, NonTerminal
<1>4. CASE j.act = "record_approval_decision"
  <2>. DEFINE e == [d EXCEPT !.sysAudit = @ \cup {j.id}]
              f == [d EXCEPT !.appr[j.id].decision = j.decision,
                             !.appr[j.id].by = "system",
                             !.sysAudit = @ \cup {j.id}]
  <2>1. \/ o = More(d) /\ j.phase = "todo"
        \/ o = Done(d, NoResult) \/ o = Done(e, NoResult)
        \/ o = Done(f, NoResult)
    BY <1>0, <1>4, Zenon DEF Perform, ReadDecision, WriteDecision
  <2>2. /\ KeepsRuns(d, e) /\ KeepsRounds(d, e)
        /\ e.spend = d.spend /\ e.status = d.status
    BY Zenon DEF Store, KeepsRuns, KeepsRounds
  <2>3. /\ KeepsRuns(d, f) /\ KeepsRounds(d, f)
        /\ f.spend = d.spend /\ f.status = d.status
    BY Zenon DEF Store, KeepsRuns, KeepsRounds
  <2>. HIDE DEF e, f
  <2>. QED
    BY <1>4, <2>1, <2>2, <2>3, Shapes DEF KeepsRuns, KeepsRounds
<1>5. CASE j.act = "run_raw_command"
  <2>. DEFINE r == Run(j.id, "raw_command", <<j.round, j.item>>)
              e == [d EXCEPT !.ran = @ \cup {r}]
  <2>1. o = Done(e, NoResult)
    BY <1>5, Zenon DEF Perform, RunRawCommand
  <2>. HIDE DEF r
  <2>2. /\ KeepsRounds(d, e) /\ e.spend = d.spend /\ e.status = d.status
        /\ e.runs = d.runs /\ e.exec = d.exec /\ e.ran = d.ran \cup {r}
    BY Zenon DEF Store, KeepsRounds
  <2>. HIDE DEF e
  <2>. QED
    BY <1>5, <2>1, <2>2, Shapes
<1>6. CASE j.act = "verify_fix"
  <2>. DEFINE e == [d EXCEPT !.exec[j.id] = "succeeded", !.status = "VERIFYING"]
              f == [d EXCEPT !.exec[j.id] = "failed"]
  <2>1. \E r : o = Done(e, r) \/ o = Done(f, r)
    BY <1>6, Zenon DEF Perform, VerifyFix
  <2>2. /\ KeepsRounds(d, e) /\ e.spend = d.spend /\ e.runs = d.runs
        /\ e.ran = d.ran /\ e.status = "VERIFYING"
        /\ \A a \in ApprovalId : d.exec[a] # "none" => e.exec[a] # "none"
    BY Zenon DEF Store, KeepsRounds
  <2>3. /\ KeepsRounds(d, f) /\ f.spend = d.spend /\ f.runs = d.runs
        /\ f.ran = d.ran /\ f.status = d.status
        /\ \A a \in ApprovalId : d.exec[a] # "none" => f.exec[a] # "none"
    BY Zenon DEF Store, KeepsRounds
  <2>. HIDE DEF e, f
  <2>. QED
    BY <1>6, <2>1, <2>2, <2>3, Shapes DEF NonTerminal
<1>. QED
  BY <1>2, <1>3, <1>4, <1>5, <1>6, Zenon

(* The two transactions of execute_playbook. *)
LEMMA PlaybookBooks ==
    ASSUME NEW d \in Store, NEW j \in Job, NEW o, o \in Perform(j, d),
           j.act = "execute_playbook"
    PROVE  Books(j, d, o)
<1>0. j.act \notin Closing /\ j.phase \in {"todo", "mid"}
  BY Zenon DEF Closing, Job
<1>1. CASE j.phase = "todo"
  <2>. DEFINE e == [d EXCEPT !.status = "EXECUTING", !.exec[j.id] = "running",
                             !.runs[j.id] = @ + 1]
  <2>1. o = More(e)
    BY <1>1, Zenon DEF Perform, StartPlaybook
  <2>2. /\ KeepsRounds(d, e) /\ e.spend = d.spend /\ e.ran = d.ran
        /\ e.status = "EXECUTING"
        /\ e.runs = [d.runs EXCEPT ![j.id] = d.runs[j.id] + 1]
        /\ e.exec = [d.exec EXCEPT ![j.id] = "running"]
        /\ d.exec \in [ApprovalId -> {"none", "running", "failed", "succeeded"}]
    BY Zenon DEF Store, KeepsRounds
  <2>. HIDE DEF e
  <2>3. /\ \A a \in ApprovalId : d.exec[a] # "none" => e.exec[a] # "none"
        /\ j.id \in ApprovalId => e.exec[j.id] # "none"
    BY <2>2, Zenon
  <2>. QED
    BY <1>0, <1>1, <2>1, <2>2, <2>3, Shapes
    DEF Books, StatusBook, RoundsBook, RunsBook, OtherBook, KeepsRounds,
        Starting, NonTerminal
<1>2. CASE j.phase = "mid"
  <2>. DEFINE r == Run(j.id, "remediation", <<j.round, j.item>>)
              f == [d EXCEPT !.exec[j.id] = "failed"]
              g(x) == [x EXCEPT !.ran = @ \cup {r}]
              yes == Ok(TRUE)
              no == Ok(FALSE)
  <2>1. o = Done(g(d), yes) \/ o = Done(g(f), no) \/ o = Done(f, no)
    BY <1>2, Zenon DEF Perform, FinishPlaybook
  <2>2. r.id = j.id /\ r.kind = "remediation"
    BY Zenon DEF Run
  <2>3. ~no.ok
    BY Zenon DEF Ok, NoResult
  <2>4. /\ f \in Store /\ KeepsRounds(d, f) /\ f.spend = d.spend
        /\ f.runs = d.runs /\ f.ran = d.ran /\ f.status = d.status
        /\ \A a \in ApprovalId : d.exec[a] # "none" => f.exec[a] # "none"
    BY Zenon DEF Store, KeepsRounds
  <2>. HIDE DEF r, f
  <2>5. \A x \in Store :
           /\ KeepsRounds(x, g(x)) /\ g(x).spend = x.spend
           /\ g(x).runs = x.runs /\ g(x).exec = x.exec
           /\ g(x).ran = x.ran \cup {r} /\ g(x).status = x.status
    BY Zenon DEF Store, KeepsRounds
  <2>. HIDE DEF g, yes, no
  <2>6. /\ KeepsRounds(d, o.db) /\ o.db.spend = d.spend /\ o.phase = "done"
        /\ o.db.runs = d.runs /\ d.ran \subseteq o.db.ran
        /\ o.db.status = d.status
        /\ \A a \in ApprovalId : d.exec[a] # "none" => o.db.exec[a] # "none"
        /\ o.res.ok => r \in o.db.ran
    <3>1. o.phase = "done" /\ o.db \in {g(d), g(f), f}
      BY <2>1, Shapes
    <3>2. o.res.ok => o.db \in {g(d), g(f)}
      BY <2>1, <2>3, Shapes
    <3>3. /\ KeepsRounds(d, g(d)) /\ g(d).spend = d.spend /\ g(d).runs = d.runs
          /\ g(d).exec = d.exec /\ g(d).ran = d.ran \cup {r}
          /\ g(d).status = d.status
      BY <2>5, Zenon
    <3>4. /\ KeepsRounds(f, g(f)) /\ g(f).spend = f.spend /\ g(f).runs = f.runs
          /\ g(f).exec = f.exec /\ g(f).ran = f.ran \cup {r}
          /\ g(f).status = f.status
      BY <2>4, <2>5, Zenon
    <3>. QED
      BY <2>4, <3>1, <3>2, <3>3, <3>4, Zenon DEF KeepsRounds
  <2>. QED
    BY <1>0, <1>2, <2>2, <2>6, Zenon
    DEF Books, StatusBook, RoundsBook, RunsBook, OtherBook, KeepsRounds,
        Starting
<1>. QED
  BY <1>0, <1>1, <1>2, Zenon

LEMMA PerformBooks ==
    ASSUME NEW d \in Store, NEW j \in Job, NEW o, o \in Perform(j, d)
    PROVE  Books(j, d, o)
<1>1. j.act \in Activity
  BY Zenon DEF Job
<1>. QED
  BY <1>1, PlainBooks, RowBooks, PlaybookBooks, Zenon DEF Activity

(***************************************************************************)
(* The kinds of step.                                                      *)
(***************************************************************************)

(* Nothing an invariant speaks of changes. *)
Idles == UNCHANGED <<db, late, faults, pc, phase, res, status, round,
                     executedAny, gate>>

(* The current attempt commits a transaction with outcome o. *)
Commits(o) ==
    /\ InProgress /\ o \in Perform(CurrentJob, db)
    /\ db' = o.db /\ phase' = o.phase /\ res' = o.res
    /\ UNCHANGED <<late, faults, pc, status, round, executedAny, gate>>

(* The late attempt j does, and goes on if the outcome says so. *)
LateCommits(j, o) ==
    /\ j \in late /\ o \in Perform(j, db) /\ db' = o.db
    /\ \A l \in late' :
          \/ l \in late /\ l # j
          \/ /\ o.phase = "mid" /\ l.phase = "mid" /\ l.act = j.act
             /\ l.id = j.id /\ l.round = j.round /\ l.isTimeout = j.isTimeout
    /\ UNCHANGED <<faults, pc, phase, res, status, round, executedAny, gate>>

(* The current attempt raises or is given up: another one is started, or    *)
(* the workflow fails, or goes on without its notification.                 *)
Retries ==
    /\ InProgress
    /\ \/ pc' = pc /\ phase' = "todo" /\ pc # "execute_playbook"
       \/ pc' = "failed" /\ phase' = "todo"
       \/ pc' = pc /\ phase' = "done" /\ pc = "send_notifications"
    /\ late \subseteq late' /\ late' \subseteq late \cup {CurrentJob}
    /\ \/ faults' = faults + 1
       \/ faults' = faults /\ late' = late /\ Perform(CurrentJob, db) = {}
    /\ UNCHANGED <<db, res, status, round, executedAny, gate>>

LEMMA StepKinds ==
    ASSUME IInv, [Next]_vars
    PROVE  \/ Idles \/ CommitDecision \/ WorkflowStep \/ Retries
           \/ \E o : Commits(o)
           \/ \E j, o : LateCommits(j, o)
<1>. USE DEF taskVars, signalVars, statusVars, loopVars, itemVars, storeVars
<1>1. CASE SignalStep \/ CheckDecision \/ DeliverDecision \/ DeadlinePasses
           \/ WorkflowOver \/ UNCHANGED vars
  BY <1>1, Zenon
  DEF SignalStep, Pause, Resume, Abort, AdjustBudget, CheckDecision,
      DeliverDecision, DeadlinePasses, WorkflowOver, vars, Idles
<1>2. CASE AttemptStep
  BY <1>2, Zenon DEF AttemptStep, Commits
<1>3. CASE AttemptRaises \/ AttemptGivenUp
  <2>1. attempt \in Nat
    BY InvestigationAssumption DEF IInv, TypeOK
  <2>2. \/ pc' = pc /\ phase' = "todo" /\ pc # "execute_playbook"
        \/ pc' = "failed" /\ phase' = "todo"
        \/ pc' = pc /\ phase' = "done" /\ pc = "send_notifications"
    <3>1. NextAttempt
      BY <1>3, Zenon DEF AttemptRaises, AttemptGivenUp
    <3>2. pc = "execute_playbook" => ~(attempt + 1 < Attempts(pc))
      BY <2>1 DEF Attempts
    <3>. QED
      BY <3>1, <3>2, Zenon DEF NextAttempt
  <2>. QED
    <3>1. CASE AttemptRaises
      BY <2>2, <3>1, Zenon DEF AttemptRaises, Retries
    <3>2. CASE AttemptGivenUp
      BY <2>2, <3>2, Zenon DEF AttemptGivenUp, Retries
    <3>. QED
      BY <1>3, <3>1, <3>2, Zenon
<1>4. CASE LateStep
  <2>1. PICK j \in late : \E o \in Perform(j, db) :
           /\ db' = o.db
           /\ late' = (late \ {j}) \cup
                      (IF o.phase = "mid" THEN {[j EXCEPT !.phase = "mid"]}
                                          ELSE {})
    BY <1>4, Zenon DEF LateStep
  <2>2. PICK o \in Perform(j, db) :
           /\ db' = o.db
           /\ late' = (late \ {j}) \cup
                      (IF o.phase = "mid" THEN {[j EXCEPT !.phase = "mid"]}
                                          ELSE {})
    BY <2>1, Zenon
  <2>. DEFINE n == [j EXCEPT !.phase = "mid"]
  <2>3. /\ n.act = j.act /\ n.id = j.id /\ n.phase = "mid"
        /\ n.isTimeout = j.isTimeout /\ n.round = j.round
    BY Zenon DEF IInv, TypeOK, Job
  <2>4. \A l \in late' : (l \in late /\ l # j) \/ (l = n /\ o.phase = "mid")
    BY <2>2, Zenon
  <2>. HIDE DEF n
  <2>. QED
    BY <1>4, <2>2, <2>3, <2>4 DEF LateStep, LateCommits
<1>. QED
  BY <1>1, <1>2, <1>3, <1>4, Zenon DEF Next, WorkerStep, DashboardStep

(* What is known of the transaction of a job under way. *)
LEMMA CommitsOK ==
    ASSUME IInv, NEW j, UnderWay(j), NEW o, o \in Perform(j, db)
    PROVE  /\ db \in Store /\ j \in Job /\ JobOK(j)
           /\ o \in Outcomes /\ Effect(j, db, o) /\ Books(j, db, o)
           /\ (j.act = "record_approval_decision" /\ o.phase = "mid") =>
                  db.appr[j.id].decision = "none"
<1>1. /\ db \in Store /\ o \in Outcomes /\ Effect(j, db, o)
      /\ (j.act = "record_approval_decision" /\ o.phase = "mid") =>
             db.appr[j.id].decision = "none"
  BY UnderWayEffect, Zenon
<1>2. j \in Job /\ JobOK(j)
  BY UnderWayOK, Zenon
<1>. QED
  BY <1>1, <1>2, PerformBooks, Zenon

(* A human's decision changes one undecided row, and nothing else. *)
LEMMA DecisionCommitted ==
    ASSUME IInv, CommitDecision
    PROVE  /\ \A b \in ApprovalId :
                 /\ db'.appr[b].kind = db.appr[b].kind
                 /\ db.appr[b].decision # "none" => db'.appr[b] = db.appr[b]
                 /\ Undecided(db, b)' => Undecided(db, b)
           /\ db'.status = db.status /\ KeepsRuns(db, db')
           /\ KeepsRounds(db, db') /\ db'.spend = db.spend
           /\ UNCHANGED <<late, faults, pc, phase, res, status, round,
                          executedAny, gate>>
<1>1. PICK a \in checked, d \in Decision :
         Undecided(db, a) /\ db' = DecideApprovalAtomic(db, a, d)
  BY Zenon DEF CommitDecision
<1>2. /\ db'.status = db.status /\ KeepsRuns(db, db')
      /\ KeepsRounds(db, db') /\ db'.spend = db.spend
  BY <1>1, Zenon DEF DecideApprovalAtomic, IInv, TypeOK, Store, KeepsRuns, KeepsRounds
<1>3. \A b \in ApprovalId : b # a => db'.appr[b] = db.appr[b]
  BY <1>1, Zenon DEF DecideApprovalAtomic, IInv, TypeOK, Store
<1>4. a \in ApprovalId /\ db.appr[a] \in Approval /\ db.appr[a].decision = "none"
      /\ db.appr[a].kind # "absent"
  BY <1>1, Zenon DEF Undecided, IInv, TypeOK, Store
<1>5. db'.appr[a].kind = db.appr[a].kind
  BY <1>1, <1>4, Zenon DEF DecideApprovalAtomic, IInv, TypeOK, Store, Approval
<1>6. /\ UNCHANGED <<late, faults, pc, phase, res, status, round, executedAny,
                     gate>>
  BY Zenon DEF CommitDecision, taskVars, statusVars, loopVars, itemVars
<1>. QED
  BY <1>2, <1>3, <1>4, <1>5, <1>6, Zenon DEF Undecided

(* The workflow's own steps await something, and commit nothing. *)
LEMMA WorkflowAwaits ==
    ASSUME WorkflowStep
    PROVE  phase' = "todo" /\ UNCHANGED <<db, late, faults>>
BY Zenon DEF WorkflowStep, CaseCreated, Rejected, LoopEntered, RoundStarted,
       SpendChecked, Collected, Analyzed, IterationRecorded, Validated,
       ApprovalCreated, Notified, HumanDecided, ApprovalTimedOut,
       DecisionRecorded, RawCommandRan, PlannedNext, RemediationPlanned,
       PlaybookExecuted, Settled, FixVerified, SummaryClosed, ResolvedClosed,
       HandedToHuman, Closed, GateClosed, NextRawCommand, NextAction,
       CloseAfterActions, RequestApproval, JudgeReport, NeedsHuman, Await,
       storeVars

(***************************************************************************)
(* A closed case is reopened by late attempts only.                        *)
(***************************************************************************)

LEMMA OverStays ==
    ASSUME WorkflowStep, Over
    PROVE  Over' /\ pc' \notin Closing
<1>. USE DEF Returned, Closing, Ended, Await
<1>1. CASE Rejected
  BY <1>1, Zenon DEF Rejected, Over, Terminal
<1>2. CASE SummaryClosed
  BY <1>2, Zenon DEF SummaryClosed, Closed, Over
<1>3. CASE ResolvedClosed \/ HandedToHuman
  BY <1>3, Zenon DEF ResolvedClosed, HandedToHuman, Closed, Over, Terminal
<1>4. CASE Notified
  <2>1. status \in Terminal
    BY <1>4, Zenon DEF Notified, Over
  <2>. QED
    BY <1>4, <2>1, Zenon DEF Notified, Over
<1>5. CASE ~(Rejected \/ SummaryClosed \/ ResolvedClosed \/ HandedToHuman
             \/ Notified)
  <2>1. pc \notin Closing \cup Ended /\ pc # "send_notifications"
    BY <1>5, Zenon
    DEF WorkflowStep, CaseCreated, LoopEntered, RoundStarted, SpendChecked,
        Collected, Analyzed, IterationRecorded, Validated, ApprovalCreated,
        HumanDecided, ApprovalTimedOut, DecisionRecorded, RawCommandRan,
        PlannedNext, RemediationPlanned, PlaybookExecuted, Settled, FixVerified
  <2>. QED
    BY <2>1, Zenon DEF Over
<1>. QED
  BY <1>1, <1>2, <1>3, <1>4, <1>5, Zenon

LEMMA FinalTerminal == \A act \in Closing : Final(act) \in Terminal
BY Zenon DEF Closing, Final, Terminal

LEMMA OverStep == IInv /\ OverInv /\ [Next]_vars => OverInv'
<1>. SUFFICES ASSUME IInv, OverInv, [Next]_vars PROVE OverInv'
  BY Zenon
<1>0. \A s \in NonTerminal : s \notin Terminal
  BY Zenon DEF NonTerminal, Terminal
<1>1. CASE Idles
  BY <1>1, Zenon DEF Idles, OverInv, Over
<1>2. CASE CommitDecision
  BY <1>2, DecisionCommitted, Zenon DEF OverInv, Over
<1>3. CASE WorkflowStep
  <2>1. db.status \in Terminal \/ (\E j \in late : j.act \in Closing) => Over
    BY Zenon DEF OverInv
  <2>. QED
    BY <1>3, <2>1, OverStays, WorkflowAwaits, Zenon DEF OverInv
<1>4. CASE Retries
  <2>1. pc' = pc \/ pc' = "failed"
    BY <1>4, Zenon DEF Retries
  <2>2. Over => Over'
    BY <1>4, <2>1, Zenon DEF Retries, Over, Ended
  <2>3. pc' \in Closing => pc' = pc
    BY <2>1, Zenon DEF Closing
  <2>4. \A l \in late' : l \in late \/ l.act = pc
    BY <1>4 DEF Retries, CurrentJob
  <2>5. db' = db
    BY <1>4, Zenon DEF Retries
  <2>6. pc \in Closing => Over
    BY Zenon DEF Over
  <2>. QED
    BY <2>2, <2>3, <2>4, <2>5, <2>6, Zenon DEF OverInv
<1>5. ASSUME NEW o, Commits(o) PROVE OverInv'
  <2>1. Books(CurrentJob, db, o) /\ CurrentJob.act = pc
    BY <1>5, CommitsOK, Zenon DEF Commits, UnderWay, CurrentJob
  <2>2. IF pc \in Closing THEN db'.status = Final(pc)
                          ELSE db'.status \in {db.status} \cup NonTerminal
    BY <1>5, <2>1, Zenon DEF Commits, Books, StatusBook
  <2>3. pc' = pc /\ status' = status /\ late' = late
    BY <1>5, Zenon DEF Commits
  <2>. QED
    BY <1>0, <2>2, <2>3, Zenon DEF OverInv, Over
<1>6. ASSUME NEW j, NEW o, LateCommits(j, o) PROVE OverInv'
  <2>1. Books(j, db, o) /\ j \in late
    BY <1>6, CommitsOK, Zenon DEF LateCommits, UnderWay
  <2>2. IF j.act \in Closing
        THEN db'.status = Final(j.act)
        ELSE db'.status \in {db.status} \cup NonTerminal
    BY <1>6, <2>1, Zenon DEF LateCommits, Books, StatusBook
  <2>3. pc' = pc /\ status' = status
    BY <1>6, Zenon DEF LateCommits
  <2>4. \A l \in late' : l \in late \/ l.act = j.act
    BY <1>6, Zenon DEF LateCommits
  <2>. QED
    BY <1>0, <2>1, <2>2, <2>3, <2>4, Zenon DEF OverInv, Over
<1>. QED
  BY <1>1, <1>2, <1>3, <1>4, <1>5, <1>6, StepKinds, Zenon

LEMMA OverInvariant == Spec => []OverInv
<1>1. Init => OverInv
  BY DEF Init, InitStore, OverInv, Terminal
<1>. QED
  BY <1>1, OverStep, Invariance, PTL DEF Spec

(* Only an attempt that was given up and commits late takes a case out of a *)
(* terminal status (update_investigation_status replaces any status): for   *)
(* every step of every behaviour.                                           *)
THEOREM ReopenedOnlyLate == Spec => TerminalLeftOnlyLate
<1>1. IInv /\ OverInv /\ [Next]_vars =>
        ((db.status \in Terminal /\ db'.status # db.status) => LateStep)
  <2>. SUFFICES ASSUME IInv, OverInv, [Next]_vars, db.status \in Terminal,
                       db'.status # db.status, ~LateStep
                PROVE  FALSE
    BY Zenon
  <2>1. \E o : Commits(o)
    <3>1. ~Idles /\ ~CommitDecision /\ ~Retries /\ ~WorkflowStep
      BY DecisionCommitted, WorkflowAwaits, Zenon DEF Idles, Retries
    <3>2. AttemptStep
      BY <3>1, Zenon
      DEF Next, WorkerStep, DashboardStep, AttemptRaises, AttemptGivenUp,
          SignalStep, Pause, Resume, Abort, AdjustBudget, CheckDecision,
          DeliverDecision, DeadlinePasses, WorkflowOver, vars, storeVars
    <3>. QED
      BY <3>2, Zenon DEF AttemptStep, Commits, statusVars, loopVars, itemVars
  <2>2. PICK o : Commits(o)
    BY <2>1, Zenon
  <2>3. Books(CurrentJob, db, o) /\ CurrentJob.act = pc
    BY <2>2, CommitsOK, Zenon DEF Commits, UnderWay, CurrentJob
  <2>4. Over /\ (pc \in Closing => db.status = Final(pc))
    BY Zenon DEF OverInv
  <2>5. pc \notin Ended
    BY <2>2, Zenon DEF Commits, InProgress, Activity, Ended
  <2>6. CASE pc = "send_notifications"
    BY <2>2, <2>3, <2>6, Zenon DEF Books, OtherBook, Commits
  <2>7. CASE pc \in Closing
    BY <2>2, <2>3, <2>4, <2>7, Zenon DEF Books, StatusBook, Commits
  <2>. QED
    BY <2>4, <2>5, <2>6, <2>7, Zenon DEF Over
<1>2. (IInv /\ OverInv /\ [Next]_vars) =>
        [(db.status \in Terminal /\ db'.status # db.status) => LateStep]_vars
  BY <1>1, Zenon
<1>. QED
  BY <1>2, OverInvariant, Invariance, PTL DEF Spec, TerminalLeftOnlyLate

(***************************************************************************)
(* A gate acts on the decision a human took.                               *)
(***************************************************************************)

(* What a transaction does to a row that is decided. *)
LEMMA DecidedRow ==
    ASSUME IInv, NEW j, UnderWay(j), NEW o, o \in Perform(j, db),
           NEW a \in ApprovalId, db.appr[a].decision # "none"
    PROVE  \/ o.db.appr[a] = db.appr[a]
           \/ /\ j.act = "record_approval_decision" /\ j.isTimeout /\ j.id = a
<1>1. Effect(j, db, o) /\ db \in Store /\ j \in Job /\ RowsOK
  BY CommitsOK, Zenon DEF IInv
<1>2. CASE Keeps(db, o) \/ Releases(j, db, o)
  BY <1>2, Zenon DEF Keeps, Releases
<1>3. ASSUME NEW b \in ApprovalId, Inserts(j, db, o, b)
      PROVE  o.db.appr[a] = db.appr[a]
  BY <1>1, <1>3, Zenon DEF Inserts, RowsOK, Store
<1>4. CASE /\ j.act = "record_approval_decision" /\ j.phase = "mid"
           /\ Overwrites(j, db, o)
  <2>1. j.isTimeout
    BY <1>4, UnderWayOK, Zenon
  <2>. QED
    BY <1>1, <1>4, <2>1 DEF Overwrites, Store
<1>. QED
  BY <1>1, <1>2, <1>3, <1>4, Zenon DEF Effect

(* The steps that neither open nor close a gate leave it or drop it. *)
LEMMA OtherGates ==
    ASSUME WorkflowStep, ~(HumanDecided \/ ApprovalTimedOut \/ ApprovalCreated)
    PROVE  gate' = gate \/ gate' = NoGate
BY Zenon
DEF WorkflowStep, CaseCreated, Rejected, LoopEntered, RoundStarted,
    SpendChecked, Collected, Analyzed, IterationRecorded, Validated,
    Notified, DecisionRecorded, RawCommandRan, PlannedNext,
    RemediationPlanned, PlaybookExecuted, Settled, FixVerified,
    SummaryClosed, ResolvedClosed, HandedToHuman, Closed, itemVars

LEMMA HumanStep == IInv /\ HumanInv /\ [Next]_vars => HumanInv'
<1>. SUFFICES ASSUME IInv, HumanInv, [Next]_vars PROVE HumanInv'
  BY Zenon
<1>1. CASE Idles
  BY <1>1, Zenon DEF Idles, HumanInv
<1>2. CASE CommitDecision
  <2>1. gate' = gate /\ late' = late
    BY <1>2, DecisionCommitted, Zenon
  <2>2. (gate.decision # "none" /\ ~gate.isTimeout) =>
            db'.appr[gate.id] = db.appr[gate.id]
    BY <1>2, DecisionCommitted, Zenon DEF HumanInv
  <2>. QED
    BY <2>1, <2>2, Zenon DEF HumanInv
<1>3. CASE WorkflowStep
  <2>0. UNCHANGED <<db, late>>
    BY <1>3, WorkflowAwaits, Zenon
  <2>1. CASE HumanDecided
    <3>1. /\ decision.id = gate.id /\ Fresh(gate.id)
          /\ gate' = [gate EXCEPT !.decision = decision.decision,
                                  !.isTimeout = FALSE]
      BY <2>1, Zenon DEF HumanDecided, DecisionArrived, GateClosed, IInv, GatesOK
    <3>2. gate.id \in ApprovalId /\ gate'.id = gate.id
          /\ gate'.decision = decision.decision
      BY <3>1, Zenon DEF Fresh, Unreleased, IInv, TypeOK, Gate
    <3>3. decision # NoPayload
      BY <3>1, <3>2, CaseStoreAssumption DEF NoPayload
    <3>4. SignalOK(decision) /\ RowsOK
      BY <3>3, Zenon DEF IInv, SignalsOK
    <3>5. db.appr[gate.id] \in Approval
      BY <3>2, Zenon DEF IInv, TypeOK, Store
    <3>6. db.appr[gate.id].by = "user"
      BY <3>1, <3>2, <3>4, <3>5, Zenon DEF SignalOK, RowsOK, Fresh, Approval
    <3>7. db.appr[gate.id].decision = decision.decision
      BY <3>1, <3>4, <3>6, Zenon DEF SignalOK
    <3>8. \A j \in late : j.act = "record_approval_decision" => j.id # gate.id
      BY <3>1, Zenon DEF Fresh
    <3>. QED
      BY <2>0, <3>2, <3>6, <3>7, <3>8, Zenon DEF HumanInv
  <2>2. CASE ApprovalTimedOut
    <3>1. gate'.isTimeout
      BY <2>2, Zenon DEF ApprovalTimedOut, GateClosed, IInv, TypeOK, Gate
    <3>. QED
      BY <3>1, Zenon DEF HumanInv
  <2>3. CASE ApprovalCreated
    <3>1. gate'.decision = "none"
      BY <2>3, Zenon DEF ApprovalCreated, NoGate
    <3>. QED
      BY <3>1, Zenon DEF HumanInv
  <2>4. CASE ~(HumanDecided \/ ApprovalTimedOut \/ ApprovalCreated)
    <3>1. gate' = gate \/ gate' = NoGate
      BY <1>3, <2>4, OtherGates, Zenon
    <3>2. NoGate.decision = "none"
      BY Zenon DEF NoGate
    <3>. QED
      BY <2>0, <3>1, <3>2, Zenon DEF HumanInv
  <2>. QED
    BY <2>1, <2>2, <2>3, <2>4, Zenon
<1>4. CASE Retries
  <2>1. gate' = gate /\ db' = db
    BY <1>4, Zenon DEF Retries
  <2>2. \A l \in late' : l \in late \/ l.isTimeout = gate.isTimeout
    BY <1>4 DEF Retries, CurrentJob
  <2>. QED
    BY <2>1, <2>2, Zenon DEF HumanInv
<1>5. ASSUME NEW o, Commits(o) PROVE HumanInv'
  <2>1. gate' = gate /\ late' = late /\ db' = o.db
        /\ UnderWay(CurrentJob) /\ o \in Perform(CurrentJob, db)
    BY <1>5, Zenon DEF Commits, UnderWay
  <2>2. CurrentJob.isTimeout = gate.isTimeout
    BY Zenon DEF CurrentJob
  <2>3. (gate.decision # "none" /\ ~gate.isTimeout) =>
            db'.appr[gate.id] = db.appr[gate.id]
    BY <2>1, <2>2, DecidedRow DEF HumanInv
  <2>. QED
    BY <2>1, <2>3, Zenon DEF HumanInv
<1>6. ASSUME NEW j, NEW o, LateCommits(j, o) PROVE HumanInv'
  <2>1. gate' = gate /\ db' = o.db /\ UnderWay(j) /\ o \in Perform(j, db)
        /\ j \in late
    BY <1>6, Zenon DEF LateCommits, UnderWay
  <2>2. (gate.decision # "none" /\ ~gate.isTimeout) =>
            db'.appr[gate.id] = db.appr[gate.id]
    BY <2>1, DecidedRow DEF HumanInv
  <2>3. \A l \in late' : \E m \in late :
           l.act = m.act /\ l.id = m.id /\ l.isTimeout = m.isTimeout
    BY <1>6, Zenon DEF LateCommits
  <2>. QED
    BY <2>1, <2>2, <2>3 DEF HumanInv
<1>. QED
  BY <1>1, <1>2, <1>3, <1>4, <1>5, <1>6, StepKinds, Zenon

(* The decision a gate acts on and the one in its row never disagree: late  *)
(* attempts of the timeout path, repeated signals and signals of other      *)
(* gates do not come between wait_condition and the end of the gate.        *)
THEOREM HumansAreHonoured == Spec => []HumanDecisionHonoured
<1>1. Init => HumanInv
  BY DEF Init, HumanInv, NoGate
<1>2. HumanInv => HumanDecisionHonoured
  BY Zenon DEF HumanInv, HumanDecisionHonoured
<1>. QED
  BY <1>1, <1>2, HumanStep, Invariance, PTL DEF Spec

(***************************************************************************)
(* A case is resolved by what was executed.                                *)
(***************************************************************************)

(* An execution stays on record. *)
LEMMA ExecutedStays ==
    ASSUME db \in Store, Executed, db.ran \subseteq db'.ran,
           \A a \in ApprovalId : db.exec[a] # "none" => db'.exec[a] # "none"
    PROVE  Executed'
<1>1. PICK r \in db.ran : r.kind = "remediation" /\ db.exec[r.id] # "none"
  BY Zenon DEF Executed
<1>2. r.id \in ApprovalId
  BY Zenon DEF Store
<1>. QED
  BY <1>1, <1>2, Zenon DEF Executed

(* The workflow reaches close_resolved past a verified execution. *)
LEMMA WorkflowExecuted ==
    ASSUME IInv, ExecutedInv, WorkflowStep
    PROVE  (executedAny' \/ pc' \in {"settle", "verify_fix", "close_resolved"})
              => Executed
<1>. USE DEF Await, Returned
<1>1. CASE DecisionRecorded
  <2>1. executedAny' = executedAny
    BY <1>1, Zenon DEF DecisionRecorded
  <2>2. pc' \notin {"settle", "verify_fix"} /\ (pc' = "close_resolved" => executedAny)
    BY <1>1, Zenon
    DEF DecisionRecorded, NextRawCommand, JudgeReport, NeedsHuman, NextAction,
        RequestApproval, CloseAfterActions, IInv, TypeOK, Outcome
  <2>. QED
    BY <2>1, <2>2, Zenon DEF ExecutedInv
<1>2. CASE FixVerified \/ Settled
  BY <1>2, Zenon DEF FixVerified, Settled, ExecutedInv
<1>3. CASE PlaybookExecuted
  BY <1>3, Zenon DEF PlaybookExecuted, NeedsHuman, itemVars, ExecutedInv
<1>4. CASE ~(DecisionRecorded \/ FixVerified \/ Settled \/ PlaybookExecuted)
  <2>1. executedAny' => executedAny
    BY <1>4, Zenon
    DEF WorkflowStep, CaseCreated, Rejected, LoopEntered, RoundStarted,
        SpendChecked, Collected, Analyzed, IterationRecorded, Validated,
        ApprovalCreated, Notified, HumanDecided, ApprovalTimedOut, GateClosed,
        RawCommandRan, PlannedNext, RemediationPlanned, SummaryClosed,
        ResolvedClosed, HandedToHuman, Closed, itemVars
  <2>2. pc' \notin {"settle", "verify_fix", "close_resolved"}
    BY <1>4, Zenon
    DEF WorkflowStep, CaseCreated, Rejected, LoopEntered, RoundStarted,
        SpendChecked, Collected, Analyzed, IterationRecorded, Validated,
        ApprovalCreated, Notified, HumanDecided, ApprovalTimedOut, GateClosed,
        RawCommandRan, PlannedNext, RemediationPlanned, SummaryClosed,
        ResolvedClosed, HandedToHuman, Closed, NextRawCommand, JudgeReport,
        NeedsHuman, RequestApproval
  <2>. QED
    BY <2>1, <2>2, Zenon DEF ExecutedInv
<1>. QED
  BY <1>1, <1>2, <1>3, <1>4, Zenon

LEMMA ExecutedStep == IInv /\ ExecutedInv /\ [Next]_vars => ExecutedInv'
<1>. SUFFICES ASSUME IInv, ExecutedInv, [Next]_vars PROVE ExecutedInv'
  BY Zenon
<1>0. db \in Store
  BY Zenon DEF IInv, TypeOK
<1>1. CASE Idles
  BY <1>1, Zenon DEF Idles, ExecutedInv, Executed, Returned
<1>2. CASE CommitDecision
  BY <1>2, DecisionCommitted, SMT, Z3 DEF ExecutedInv, Executed, Returned, KeepsRuns
<1>3. CASE WorkflowStep
  <2>1. phase' = "todo" /\ UNCHANGED <<db, late>>
    BY <1>3, WorkflowAwaits, Zenon
  <2>2. Executed => Executed'
    BY <2>1, Zenon DEF Executed
  <2>. QED
    BY <1>3, <2>1, <2>2, WorkflowExecuted, Zenon DEF ExecutedInv, Returned
<1>4. CASE Retries
  <2>1. UNCHANGED <<db, executedAny, gate, res>>
    BY <1>4, Zenon DEF Retries
  <2>2. Executed => Executed'
    BY <2>1, Zenon DEF Executed
  <2>3. \A l \in late' :
           \/ l \in late
           \/ l.act = pc /\ l.phase = phase /\ l.id = gate.id
    BY <1>4 DEF Retries, CurrentJob
  <2>4. \/ pc' = pc /\ phase' = "todo"
        \/ pc' = "failed" /\ phase' = "todo"
        \/ pc' = pc /\ phase' = "done" /\ pc = "send_notifications"
    BY <1>4, Zenon DEF Retries
  <2>. QED
    BY <2>1, <2>2, <2>3, <2>4, Zenon DEF ExecutedInv, Returned
<1>5. ASSUME NEW j, UnderWay(j), NEW o, o \in Perform(j, db), db' = o.db
      PROVE  /\ Executed => Executed'
             /\ \A a \in ApprovalId : db.exec[a] # "none" => db'.exec[a] # "none"
             /\ (j.act = "execute_playbook" /\ j.phase = "mid" /\ o.res.ok
                 /\ db.exec[j.id] # "none") => Executed'
             /\ Starting(j) => db'.exec[j.id] # "none"
             /\ db'.status = "RESOLVED" =>
                   db.status = "RESOLVED" \/ j.act = "close_resolved"
             /\ j.act = "execute_playbook" => j.id \in ApprovalId
             /\ j.phase \in {"todo", "mid"}
             /\ o.phase = "mid" => j.phase = "todo"
  <2>1. Books(j, db, o) /\ j \in Job
    BY <1>5, CommitsOK, Zenon
  <2>2. j.act = "execute_playbook" => j.id \in ApprovalId
    BY <1>5, UnderWayOK, Zenon DEF ReleasingActs
  <2>3. /\ \A a \in ApprovalId : db.exec[a] # "none" => db'.exec[a] # "none"
        /\ db.ran \subseteq db'.ran
        /\ Starting(j) => db'.exec[j.id] # "none"
    BY <1>5, <2>1, <2>2, Zenon DEF Books, RunsBook, Starting
  <2>4. Executed => Executed'
    BY <1>0, <2>3, ExecutedStays, Zenon
  <2>5. (j.act = "execute_playbook" /\ j.phase = "mid" /\ o.res.ok
         /\ db.exec[j.id] # "none") => Executed'
    BY <1>5, <2>1, <2>2, <2>3, Zenon DEF Books, RunsBook, Executed
  <2>6. db'.status = "RESOLVED" =>
            db.status = "RESOLVED" \/ j.act = "close_resolved"
    BY <1>5, <2>1, Zenon DEF Books, StatusBook, Closing, Final, NonTerminal
  <2>7. j.phase \in {"todo", "mid"} /\ (o.phase = "mid" => j.phase = "todo")
    BY <2>1, Zenon DEF Books, OtherBook, Job
  <2>. QED
    BY <2>2, <2>3, <2>4, <2>5, <2>6, <2>7, Zenon
<1>6. ASSUME NEW o, Commits(o) PROVE ExecutedInv'
  <2>1. /\ UnderWay(CurrentJob) /\ o \in Perform(CurrentJob, db) /\ db' = o.db
        /\ phase' = o.phase /\ res' = o.res /\ phase # "done"
        /\ UNCHANGED <<late, pc, executedAny, gate>>
    BY <1>6, Zenon DEF Commits, UnderWay, InProgress
  <2>2. CurrentJob.act = pc /\ CurrentJob.phase = phase /\ CurrentJob.id = gate.id
    BY Zenon DEF CurrentJob
  <2>3. /\ Executed => Executed'
        /\ \A a \in ApprovalId : db.exec[a] # "none" => db'.exec[a] # "none"
        /\ (pc = "execute_playbook" /\ phase = "mid" /\ res'.ok) => Executed'
        /\ (pc = "execute_playbook" /\ phase = "todo") =>
              db'.exec[gate.id] # "none"
        /\ db'.status = "RESOLVED" =>
              db.status = "RESOLVED" \/ pc = "close_resolved"
        /\ phase \in {"todo", "mid"}
        /\ phase' = "mid" => phase = "todo"
    BY <1>5, <2>1, <2>2, Zenon DEF ExecutedInv, Starting
  <2>4. (pc = "execute_playbook" /\ phase = "todo") => phase' = "mid"
    BY <2>1, <2>2, CommitsOK, Zenon DEF Books, RunsBook, Starting
  <2>5. \A k \in late : k.act = "execute_playbook" => k.id \in ApprovalId
    BY UnderWayOK, Zenon DEF UnderWay, ReleasingActs
  <2>. QED
    BY <2>1, <2>3, <2>4, <2>5, Zenon DEF ExecutedInv, Returned
<1>7. ASSUME NEW j, NEW o, LateCommits(j, o) PROVE ExecutedInv'
  <2>1. /\ UnderWay(j) /\ o \in Perform(j, db) /\ db' = o.db /\ j \in late
        /\ UNCHANGED <<pc, phase, res, executedAny, gate>>
    BY <1>7, Zenon DEF LateCommits, UnderWay
  <2>2. /\ Executed => Executed'
        /\ \A a \in ApprovalId : db.exec[a] # "none" => db'.exec[a] # "none"
        /\ Starting(j) => db'.exec[j.id] # "none"
        /\ db'.status = "RESOLVED" =>
              db.status = "RESOLVED" \/ j.act = "close_resolved"
        /\ o.phase = "mid" => j.phase = "todo"
    BY <1>5, <2>1, Zenon
  <2>3. \A l \in late' :
           \/ l \in late
           \/ o.phase = "mid" /\ l.act = j.act /\ l.id = j.id
    BY <1>7, Zenon DEF LateCommits
  <2>4. /\ \A k \in late : k.act = "execute_playbook" => k.id \in ApprovalId
        /\ pc = "execute_playbook" => gate.id \in ApprovalId
    <3>1. pc = "execute_playbook" => JobOK(CurrentJob)
      BY Zenon DEF IInv, JobsOK, Activity
    <3>2. pc = "execute_playbook" => gate.id \in ApprovalId
      BY <3>1, Zenon DEF JobOK, CurrentJob, ReleasingActs, Cleared
    <3>. QED
      BY <3>2, UnderWayOK, Zenon DEF UnderWay, ReleasingActs
  <2>. QED
    BY <2>1, <2>2, <2>3, <2>4, Zenon DEF ExecutedInv, Returned, Starting
<1>. QED
  BY <1>1, <1>2, <1>3, <1>4, <1>6, <1>7, StepKinds, Zenon

(* The executed_any gate: a case is RESOLVED only if an approved playbook   *)
(* was sent to the platform and has its row, whatever ran late.             *)
THEOREM ResolvedByExecution == Spec => []ResolvedMeansExecuted
<1>1. Init => ExecutedInv
  BY SMTT(30) DEF Init, InitStore, ExecutedInv, Returned
<1>2. ExecutedInv => ResolvedMeansExecuted
  BY Zenon DEF ExecutedInv, Executed, ResolvedMeansExecuted
<1>. QED
  BY <1>1, <1>2, ExecutedStep, Invariance, PTL DEF Spec

(***************************************************************************)
(* One approval releases one run of a playbook.                            *)
(***************************************************************************)

(* The gate a workflow step leads into, and the one it came from. *)
LEMMA GateMoves ==
    ASSUME IInv, WorkflowStep
    PROVE  /\ pc' = "execute_playbook" =>
                 pc = "record_approval_decision" /\ gate' = gate
           /\ pc' = "await_decision" => NotifyingGate /\ gate' = gate
           /\ pc' = "record_approval_decision" =>
                 pc = "await_decision" /\ gate'.id = gate.id
           /\ NotifyingGate' =>
                 Returned("create_approval") /\ gate'.id = res.id
<1>. USE DEF Await, Returned, NotifyingGate
<1>1. CASE DecisionRecorded
  BY <1>1, Zenon
  DEF DecisionRecorded, NextRawCommand, JudgeReport, NeedsHuman, NextAction,
      RequestApproval, CloseAfterActions, IInv, TypeOK, Outcome
<1>2. CASE Notified
  BY <1>2, Zenon DEF Notified, itemVars
<1>3. CASE HumanDecided \/ ApprovalTimedOut
  BY <1>3, Zenon DEF HumanDecided, ApprovalTimedOut, GateClosed, IInv, TypeOK, Gate
<1>4. CASE ApprovalCreated
  BY <1>4, Zenon DEF ApprovalCreated, NoGate
<1>5. CASE ~(DecisionRecorded \/ Notified \/ HumanDecided \/ ApprovalTimedOut
             \/ ApprovalCreated)
  <2>1. pc' \notin {"execute_playbook", "await_decision",
                    "record_approval_decision"}
    BY <1>5, Zenon
    DEF WorkflowStep, CaseCreated, Rejected, LoopEntered, RoundStarted,
        SpendChecked, Collected, Analyzed, IterationRecorded, Validated,
        RawCommandRan, PlannedNext, RemediationPlanned, PlaybookExecuted,
        Settled, FixVerified, SummaryClosed, ResolvedClosed, HandedToHuman,
        Closed, NextRawCommand, JudgeReport, NeedsHuman, NextAction,
        RequestApproval, CloseAfterActions
  <2>2. pc' = "send_notifications" => status' \in Terminal
    BY <1>5, Zenon
    DEF WorkflowStep, CaseCreated, Rejected, LoopEntered, RoundStarted,
        SpendChecked, Collected, Analyzed, IterationRecorded, Validated,
        RawCommandRan, PlannedNext, RemediationPlanned, PlaybookExecuted,
        Settled, FixVerified, SummaryClosed, ResolvedClosed, HandedToHuman,
        Closed, NextRawCommand, JudgeReport, NeedsHuman, NextAction,
        RequestApproval, CloseAfterActions, Terminal
  <2>. QED
    BY <2>1, <2>2, Zenon
<1>. QED
  BY <1>1, <1>2, <1>3, <1>4, <1>5, Zenon

(* What a transaction does to the count of an approval's runs. *)
LEMMA RunsCount ==
    ASSUME IInv, NEW j, UnderWay(j), NEW o, o \in Perform(j, db), db' = o.db
    PROVE  /\ \A a \in ApprovalId :
                 db'.runs[a] = IF Starting(j) /\ j.id = a THEN db.runs[a] + 1
                                                          ELSE db.runs[a]
           /\ Starting(j) =>
                 j.id \in ApprovalId /\ db.appr[j.id].kind # "absent"
           /\ \A a \in ApprovalId : db'.appr[a].kind = "absent" =>
                                       db.appr[a].kind = "absent"
<1>1. Books(j, db, o) /\ Effect(j, db, o) /\ JobOK(j) /\ db \in Store /\ j \in Job
  BY CommitsOK, Zenon
<1>2. db.runs \in [ApprovalId -> Nat] /\ db.appr \in [ApprovalId -> Approval]
  BY <1>1, Zenon DEF Store
<1>3. \A a \in ApprovalId :
         db'.runs[a] = IF Starting(j) /\ j.id = a THEN db.runs[a] + 1
                                                  ELSE db.runs[a]
  BY <1>1, <1>2, Zenon DEF Books, RunsBook
<1>4. Starting(j) => j.id \in ApprovalId /\ db.appr[j.id].kind # "absent"
  <2>1. \A x, y, z : Cleared(x, y, z) =>
           x \in ApprovalId /\ db.appr[x].kind = y
    BY SMTT(30) DEF Cleared
  <2>. QED
    BY <1>1, <2>1, SMTT(30) DEF Starting, JobOK, ReleasingActs, KindReleased
<1>5. \A a \in ApprovalId : db'.appr[a].kind = "absent" =>
                               db.appr[a].kind = "absent"
  <2>1. CASE Keeps(db, o) \/ Releases(j, db, o)
    BY <2>1, Zenon DEF Keeps, Releases
  <2>2. CASE \E a \in ApprovalId : Inserts(j, db, o, a)
    BY <1>2, <2>2, Zenon DEF Inserts
  <2>3. CASE Overwrites(j, db, o)
    BY <1>2, <2>3 DEF Overwrites
  <2>. QED
    BY <1>1, <2>1, <2>2, <2>3, Zenon DEF Effect
<1>. QED
  BY <1>3, <1>4, <1>5, Zenon

LEMMA OnceStep == IInv /\ OnceInv /\ [Next]_vars => OnceInv'
<1>. SUFFICES ASSUME IInv, OnceInv, [Next]_vars PROVE OnceInv'
  BY Zenon
<1>0. /\ db.runs \in [ApprovalId -> Nat]
      /\ \A k \in late : Starting(k) => k.id \in ApprovalId
      /\ pc = "execute_playbook" => gate.id \in ApprovalId
      /\ Returned("create_approval") => Fresh(res.id)
      /\ NotifyingGate \/ pc = "await_decision" => Fresh(gate.id)
      /\ pc = "record_approval_decision" => Unreleased(gate.id)
  <2>1. \A x, y, z : Cleared(x, y, z) => x \in ApprovalId
    BY Zenon DEF Cleared
  <2>2. pc = "execute_playbook" => JobOK(CurrentJob)
    BY Zenon DEF IInv, JobsOK, Activity
  <2>3. pc = "execute_playbook" => gate.id \in ApprovalId
    BY <2>1, <2>2, Zenon DEF JobOK, CurrentJob, ReleasingActs
  <2>4. \A k \in late : Starting(k) => k.id \in ApprovalId
    BY UnderWayOK, Zenon DEF UnderWay, ReleasingActs, Starting
  <2>. QED
    BY <2>3, <2>4, Zenon DEF IInv, TypeOK, Store, GatesOK, NotifyingGate
<1>1. CASE Idles
  BY <1>1, Zenon DEF Idles, OnceInv, PlaybookRunsOnce, Returned, NotifyingGate
<1>2. CASE CommitDecision
  BY <1>2, DecisionCommitted
  DEF OnceInv, PlaybookRunsOnce, Returned, NotifyingGate, KeepsRuns
<1>3. CASE WorkflowStep
  <2>1. phase' = "todo" /\ UNCHANGED <<db, late>>
    BY <1>3, WorkflowAwaits, Zenon
  <2>2. pc' = "execute_playbook" =>
          /\ db.runs[gate'.id] = 0
          /\ \A j \in late : Starting(j) => j.id # gate'.id
    BY <1>0, <1>3, GateMoves, Zenon DEF OnceInv, Unreleased, Starting, ReleasingActs
  <2>3. (pc' \in {"await_decision", "record_approval_decision"}
         \/ NotifyingGate') => db.runs[gate'.id] = 0
    BY <1>3, GateMoves, Zenon DEF OnceInv
  <2>. QED
    BY <2>1, <2>2, <2>3, Zenon DEF OnceInv, PlaybookRunsOnce, Returned
<1>4. CASE Retries
  <2>1. UNCHANGED <<db, gate, res, status>>
    BY <1>4, Zenon DEF Retries
  <2>2. /\ \A l \in late' : l \in late \/ l = CurrentJob
        /\ CurrentJob.act = pc /\ CurrentJob.phase = phase
        /\ CurrentJob.id = gate.id
    BY <1>4, Zenon DEF Retries, CurrentJob
  <2>3. \/ pc' = pc /\ phase' = "todo" /\ pc # "execute_playbook"
        \/ pc' = "failed" /\ phase' = "todo"
        \/ pc' = pc /\ phase' = "done" /\ pc = "send_notifications"
    BY <1>4, Zenon DEF Retries
  <2>4. \A j \in late' : Starting(j) => db.runs[j.id] = 0
    BY <2>2, Zenon DEF OnceInv, Starting
  <2>5. \A j, k \in late' :
           (Starting(j) /\ Starting(k) /\ j.id = k.id) => j = k
    <3>. HIDE DEF CurrentJob
    <3>. QED
      BY <2>2 DEF OnceInv, Starting
  <2>6. PlaybookRunsOnce'
    BY <2>1, Zenon DEF OnceInv, PlaybookRunsOnce
  <2>. QED
    BY <2>1, <2>3, <2>4, <2>5, <2>6, Zenon DEF OnceInv, Returned, NotifyingGate
<1>5. ASSUME NEW o, Commits(o) PROVE OnceInv'
  <2>1. /\ UnderWay(CurrentJob) /\ o \in Perform(CurrentJob, db) /\ db' = o.db
        /\ phase' = o.phase /\ res' = o.res /\ phase # "done"
        /\ UNCHANGED <<late, pc, gate, status>>
    BY <1>5, Zenon DEF Commits, UnderWay, InProgress
  <2>2. CurrentJob.act = pc /\ CurrentJob.phase = phase /\ CurrentJob.id = gate.id
    BY Zenon DEF CurrentJob
  <2>. DEFINE starts == pc = "execute_playbook" /\ phase = "todo"
  <2>3. /\ \A a \in ApprovalId :
              db'.runs[a] = IF starts /\ gate.id = a THEN db.runs[a] + 1
                                                     ELSE db.runs[a]
        /\ starts => gate.id \in ApprovalId /\ db.appr[gate.id].kind # "absent"
        /\ \A a \in ApprovalId : db'.appr[a].kind = "absent" =>
                                    db.appr[a].kind = "absent"
    BY <2>1, <2>2, RunsCount, SMTT(30) DEF Starting
  <2>4. starts => phase' = "mid"
    BY <2>1, <2>2, CommitsOK, Zenon DEF Books, RunsBook, Starting
  <2>5. PlaybookRunsOnce'
    BY <1>0, <2>3, SMTT(30) DEF OnceInv, PlaybookRunsOnce
  <2>6. \A a \in ApprovalId : db'.appr[a].kind = "absent" => db'.runs[a] = 0
    BY <2>3, Zenon DEF OnceInv
  <2>7. \A j \in late' : Starting(j) => db'.runs[j.id] = 0
    BY <1>0, <2>1, <2>3, Zenon DEF OnceInv
  <2>8. Returned("create_approval")' => db'.runs[res'.id] = 0
    <3>. SUFFICES ASSUME pc = "create_approval" PROVE db'.runs[res'.id] = 0
      BY <2>1, Zenon DEF Returned
    <3>1. PICK a \in ApprovalId : Inserts(CurrentJob, db, o, a)
      BY <2>1, <2>2, CommitsOK, Zenon DEF Effect, ReleasingActs
    <3>. QED
      BY <2>1, <2>3, <3>1 DEF Inserts, OnceInv
  <2>9. (pc \in {"await_decision", "record_approval_decision"} \/ NotifyingGate)
           => db'.runs[gate.id] = 0
    BY <1>0, <2>3, Zenon DEF OnceInv, NotifyingGate, Fresh, Unreleased
  <2>10. ~(pc = "execute_playbook" /\ phase' = "todo")
    BY <2>1, <2>2, <2>4, CommitsOK, SMTT(30) DEF Outcomes
  <2>11. NotifyingGate' = NotifyingGate
    BY <2>1, Zenon DEF NotifyingGate
  <2>. QED
    BY <2>1, <2>5, <2>6, <2>7, <2>8, <2>9, <2>10, <2>11, Zenon DEF OnceInv
<1>6. ASSUME NEW j, NEW o, LateCommits(j, o) PROVE OnceInv'
  <2>1. /\ UnderWay(j) /\ o \in Perform(j, db) /\ db' = o.db /\ j \in late
        /\ UNCHANGED <<pc, phase, res, gate, status>>
    BY <1>6, Zenon DEF LateCommits, UnderWay
  <2>2. /\ \A a \in ApprovalId :
              db'.runs[a] = IF Starting(j) /\ j.id = a THEN db.runs[a] + 1
                                                       ELSE db.runs[a]
        /\ Starting(j) => j.id \in ApprovalId /\ db.appr[j.id].kind # "absent"
        /\ \A a \in ApprovalId : db'.appr[a].kind = "absent" =>
                                    db.appr[a].kind = "absent"
    BY <2>1, RunsCount, Zenon
  <2>3. \A l \in late' : Starting(l) => l \in late /\ l # j
    BY <1>6, Zenon DEF LateCommits, Starting
  <2>4. \A a : Unreleased(a) /\ Starting(j) => j.id # a
    BY <2>1, Zenon DEF Unreleased, Starting, ReleasingActs
  <2>5. PlaybookRunsOnce'
    BY <1>0, <2>1, <2>2, SMTT(30) DEF OnceInv, PlaybookRunsOnce
  <2>6. \A a \in ApprovalId : db'.appr[a].kind = "absent" => db'.runs[a] = 0
    BY <2>2, Zenon DEF OnceInv
  <2>7. \A k \in late' : Starting(k) => db'.runs[k.id] = 0
    BY <1>0, <2>1, <2>2, <2>3, Zenon DEF OnceInv
  <2>8. (pc = "execute_playbook" /\ phase = "todo") => db'.runs[gate.id] = 0
    BY <1>0, <2>1, <2>2, Zenon DEF OnceInv
  <2>9. \A a : (Unreleased(a) /\ db.runs[a] = 0) => db'.runs[a] = 0
    BY <2>2, <2>4, Zenon DEF Unreleased
  <2>10. \A a : Fresh(a) => Unreleased(a)
    BY Zenon DEF Fresh
  <2>11. Returned("create_approval") => db'.runs[res.id] = 0
    BY <1>0, <2>9, <2>10, Zenon DEF OnceInv
  <2>12. (pc \in {"await_decision", "record_approval_decision"} \/ NotifyingGate)
            => db'.runs[gate.id] = 0
    BY <1>0, <2>9, <2>10, Zenon DEF OnceInv
  <2>. QED
    BY <2>1, <2>3, <2>5, <2>6, <2>7, <2>8, <2>11, <2>12, Zenon
    DEF OnceInv, Returned, NotifyingGate
<1>. QED
  BY <1>1, <1>2, <1>3, <1>4, <1>5, <1>6, StepKinds, Zenon

(* _NO_RETRY on execute_playbook: one approval opens at most one execution, *)
(* however many attempts are given up and commit late.                      *)
THEOREM OneRunPerApproval == Spec => []PlaybookRunsOnce
<1>1. Init => OnceInv
  BY SMTT(30) DEF Init, InitStore, OnceInv, PlaybookRunsOnce, Returned, NotifyingGate
<1>2. OnceInv => PlaybookRunsOnce
  BY Zenon DEF OnceInv
<1>. QED
  BY <1>1, <1>2, OnceStep, Invariance, PTL DEF Spec

(***************************************************************************)
(* A human's decision is not audited as the system's.                      *)
(***************************************************************************)

(* Until its gate is closed, an approval has no audit of the system actor;  *)
(* nor does one that is not drawn yet.                                      *)
ActorInv ==
    /\ HumanActorKept
    /\ \A a \in ApprovalId : db.appr[a].kind = "absent" => a \notin db.sysAudit
    /\ Returned("create_approval") => res.id \notin db.sysAudit
    /\ (pc = "await_decision" \/ NotifyingGate) => gate.id \notin db.sysAudit

(* Only record_approval_decision audits, for its own approval, and only on  *)
(* the timeout path or after it found the row undecided.                    *)
LEMMA AuditBook ==
    ASSUME NEW d \in Store, NEW j \in Job, NEW o, o \in Perform(j, d)
    PROVE  \/ o.db.sysAudit = d.sysAudit
           \/ /\ j.act = "record_approval_decision"
              /\ j.isTimeout \/ j.phase = "mid"
              /\ o.db.sysAudit = d.sysAudit \cup {j.id}
<1>0. j.act \in Activity /\ j.phase \in {"todo", "mid"}
  BY Zenon DEF Job
<1>1. CASE j.act \in Closing \cup {"create_case"}
  <2>. DEFINE e(x) == [d EXCEPT !.status = x]
  <2>1. \E x, r : o = Done(e(x), r)
    BY <1>1, Zenon DEF Closing, Perform, CloseCase, CreateCase
  <2>2. \A x : e(x).sysAudit = d.sysAudit
    BY Zenon DEF Store
  <2>. HIDE DEF e
  <2>. QED
    BY <2>1, <2>2, Shapes
<1>2. CASE j.act \in {"plan_initial", "plan_next", "collect", "analyze",
                      "plan_remediation"}
  <2>1. \E e \in Charged(d) : \E r : o = Done(e, r)
    BY <1>2, Zenon DEF Perform, PlanCalls, Collect, Analyze, PlanRemediation
  <2>2. \A e \in Charged(d) : e.sysAudit = d.sysAudit
    BY DEF Store, Charged
  <2>. QED
    BY <2>1, <2>2, Shapes
<1>3. CASE j.act \in {"get_spend", "static_validate_raw_command",
                      "send_notifications"}
  <2>1. \E r : o = Done(d, r)
    BY <1>3, Zenon DEF Perform, GetSpend, StaticValidateRawCommand, SendNotifications
  <2>. QED
    BY <2>1, Shapes
<1>4. CASE j.act = "record_iteration"
  <2>. DEFINE e == [d EXCEPT !.iters = @ \cup {j.round}, !.rounds = @ + 1,
                             !.status = "INVESTIGATING"]
  <2>1. o = Done(e, NoResult)
    BY <1>4, Zenon DEF Perform, RecordIteration
  <2>2. e.sysAudit = d.sysAudit
    BY Zenon DEF Store
  <2>. HIDE DEF e
  <2>. QED
    BY <2>1, <2>2, Shapes
<1>5. CASE j.act = "create_approval"
  <2>. DEFINE row == [kind |-> j.kind, subject |-> <<j.round, j.item>>,
                      decision |-> "none", by |-> "none"]
              e(a) == [d EXCEPT !.status = "AWAITING_APPROVAL", !.appr[a] = row]
  <2>1. \E a, r : o = Done(e(a), r)
    BY <1>5, Zenon DEF Perform, CreateApproval
  <2>2. \A a : e(a).sysAudit = d.sysAudit
    BY Zenon DEF Store
  <2>. HIDE DEF e
  <2>. QED
    BY <2>1, <2>2, Shapes
<1>6. CASE j.act = "record_approval_decision"
  <2>. DEFINE e == [d EXCEPT !.sysAudit = @ \cup {j.id}]
              f == [d EXCEPT !.appr[j.id].decision = j.decision,
                             !.appr[j.id].by = "system",
                             !.sysAudit = @ \cup {j.id}]
  <2>1. \/ o = More(d) \/ o = Done(d, NoResult)
        \/ o = Done(e, NoResult) /\ j.isTimeout
        \/ o = Done(f, NoResult) /\ j.phase = "mid"
    BY <1>0, <1>6, Zenon DEF Perform, ReadDecision, WriteDecision
  <2>2. e.sysAudit = d.sysAudit \cup {j.id}
    BY Zenon DEF Store
  <2>3. f.sysAudit = d.sysAudit \cup {j.id}
    BY Zenon DEF Store
  <2>. HIDE DEF e, f
  <2>. QED
    BY <1>6, <2>1, <2>2, <2>3, Shapes
<1>7. CASE j.act = "run_raw_command"
  <2>. DEFINE e == [d EXCEPT !.ran = @ \cup {Run(j.id, "raw_command", <<j.round, j.item>>)}]
  <2>1. o = Done(e, NoResult)
    BY <1>7, Zenon DEF Perform, RunRawCommand
  <2>2. e.sysAudit = d.sysAudit
    BY Zenon DEF Store
  <2>. HIDE DEF e
  <2>. QED
    BY <2>1, <2>2, Shapes
<1>8. CASE j.act = "verify_fix"
  <2>. DEFINE e == [d EXCEPT !.exec[j.id] = "succeeded", !.status = "VERIFYING"]
              f == [d EXCEPT !.exec[j.id] = "failed"]
  <2>1. \E r : o = Done(e, r) \/ o = Done(f, r)
    BY <1>8, Zenon DEF Perform, VerifyFix
  <2>2. e.sysAudit = d.sysAudit /\ f.sysAudit = d.sysAudit
    BY Zenon DEF Store
  <2>. HIDE DEF e, f
  <2>. QED
    BY <2>1, <2>2, Shapes
<1>9. CASE j.act = "execute_playbook"
  <2>. DEFINE r == Run(j.id, "remediation", <<j.round, j.item>>)
              e == [d EXCEPT !.status = "EXECUTING", !.exec[j.id] = "running",
                             !.runs[j.id] = @ + 1]
              f == [d EXCEPT !.exec[j.id] = "failed"]
              g(x) == [x EXCEPT !.ran = @ \cup {r}]
  <2>1. o = More(e) \/ \E x : o = Done(g(d), x) \/ o = Done(g(f), x) \/ o = Done(f, x)
    BY <1>0, <1>9, Zenon DEF Perform, StartPlaybook, FinishPlaybook
  <2>2. e.sysAudit = d.sysAudit /\ f.sysAudit = d.sysAudit /\ f \in Store
    BY Zenon DEF Store
  <2>. HIDE DEF r, e, f
  <2>3. \A x \in Store : g(x).sysAudit = x.sysAudit
    BY Zenon DEF Store
  <2>. HIDE DEF g
  <2>4. g(d).sysAudit = d.sysAudit /\ g(f).sysAudit = d.sysAudit
    BY <2>2, <2>3
  <2>. QED
    BY <2>1, <2>2, <2>4, Shapes
<1>. QED
  BY <1>0, <1>1, <1>2, <1>3, <1>4, <1>5, <1>6, <1>7, <1>8, <1>9, Zenon
  DEF Activity, Closing

(* What an attempt under way can add to the audits: its own approval, on    *)
(* the timeout path; and an approval that is not drawn is not that one.     *)
LEMMA AuditsGrow ==
    ASSUME IInv, NEW j, UnderWay(j), NEW o, o \in Perform(j, db), db' = o.db
    PROVE  /\ \/ db'.sysAudit = db.sysAudit
              \/ /\ j.act = "record_approval_decision" /\ j.isTimeout
                 /\ j.id \in ApprovalId /\ db.appr[j.id].kind # "absent"
                 /\ db'.sysAudit = db.sysAudit \cup {j.id}
           /\ \A a \in ApprovalId : db'.appr[a].kind = "absent" =>
                                       db.appr[a].kind = "absent"
<1>1. db \in Store /\ j \in Job /\ JobOK(j)
  BY CommitsOK, Zenon
<1>2. (j.act = "record_approval_decision" /\ j.phase = "mid") => j.isTimeout
  BY UnderWayOK, Zenon
<1>3. j.act = "record_approval_decision" =>
         j.id \in ApprovalId /\ db.appr[j.id].kind # "absent"
  BY <1>1, Zenon DEF JobOK
<1>4. \/ db'.sysAudit = db.sysAudit
      \/ /\ j.act = "record_approval_decision" /\ (j.isTimeout \/ j.phase = "mid")
         /\ db'.sysAudit = db.sysAudit \cup {j.id}
  BY <1>1, AuditBook, Zenon
<1>5. \A a \in ApprovalId : db'.appr[a].kind = "absent" =>
                               db.appr[a].kind = "absent"
  BY RunsCount
<1>. QED
  BY <1>2, <1>3, <1>4, <1>5, Zenon

LEMMA ActorStep == IInv /\ HumanInv /\ ActorInv /\ [Next]_vars => ActorInv'
<1>. SUFFICES ASSUME IInv, HumanInv, ActorInv, [Next]_vars PROVE ActorInv'
  BY Zenon
<1>0. /\ Returned("create_approval") => Fresh(res.id)
      /\ NotifyingGate \/ pc = "await_decision" => Fresh(gate.id)
  BY Zenon DEF IInv, GatesOK, NotifyingGate
<1>1. CASE Idles
  BY <1>1, Zenon DEF Idles, ActorInv, HumanActorKept, Returned, NotifyingGate
<1>2. CASE CommitDecision
  <2>1. db'.sysAudit = db.sysAudit
    BY <1>2, Zenon DEF CommitDecision, DecideApprovalAtomic, IInv, TypeOK, Store
  <2>. QED
    BY <1>2, <2>1, DecisionCommitted, Zenon
    DEF ActorInv, HumanActorKept, Returned, NotifyingGate
<1>3. CASE WorkflowStep
  <2>1. phase' = "todo" /\ UNCHANGED <<db, late>>
    BY <1>3, WorkflowAwaits, Zenon
  <2>2. (pc' = "await_decision" \/ NotifyingGate') => gate'.id \notin db.sysAudit
    BY <1>3, GateMoves, Zenon DEF ActorInv
  <2>3. HumanActorKept'
    <3>1. CASE HumanDecided
      <4>1. pc = "await_decision" /\ gate'.id = gate.id
        BY <3>1, Zenon DEF HumanDecided, GateClosed, IInv, TypeOK, Gate
      <4>. QED
        BY <2>1, <4>1, Zenon DEF ActorInv, HumanActorKept
    <3>2. CASE ApprovalTimedOut
      <4>1. gate'.isTimeout
        BY <3>2, Zenon DEF ApprovalTimedOut, GateClosed, IInv, TypeOK, Gate
      <4>. QED
        BY <4>1, Zenon DEF HumanActorKept
    <3>3. CASE ApprovalCreated
      <4>1. gate'.decision = "none"
        BY <3>3, Zenon DEF ApprovalCreated, NoGate
      <4>. QED
        BY <4>1, Zenon DEF HumanActorKept
    <3>4. CASE ~(HumanDecided \/ ApprovalTimedOut \/ ApprovalCreated)
      <4>1. gate' = gate \/ gate' = NoGate
        BY <1>3, <3>4, OtherGates, Zenon
      <4>2. NoGate.decision = "none"
        BY Zenon DEF NoGate
      <4>. QED
        BY <2>1, <4>1, <4>2, Zenon DEF ActorInv, HumanActorKept
    <3>. QED
      BY <3>1, <3>2, <3>3, <3>4, Zenon
  <2>. QED
    BY <2>1, <2>2, <2>3, Zenon DEF ActorInv, Returned
<1>4. CASE Retries
  <2>1. UNCHANGED <<db, gate, res, status>>
    BY <1>4, Zenon DEF Retries
  <2>2. \/ phase' = "todo" /\ pc' \in {pc, "failed"}
        \/ pc' = pc /\ pc = "send_notifications"
    BY <1>4, Zenon DEF Retries
  <2>. QED
    BY <2>1, <2>2, Zenon DEF ActorInv, HumanActorKept, Returned, NotifyingGate
<1>5. ASSUME NEW o, Commits(o) PROVE ActorInv'
  <2>1. /\ UnderWay(CurrentJob) /\ o \in Perform(CurrentJob, db) /\ db' = o.db
        /\ phase' = o.phase /\ res' = o.res
        /\ UNCHANGED <<late, pc, gate, status>>
    BY <1>5, Zenon DEF Commits, UnderWay
  <2>2. CurrentJob.act = pc /\ CurrentJob.id = gate.id
        /\ CurrentJob.isTimeout = gate.isTimeout
    BY Zenon DEF CurrentJob
  <2>3. /\ \/ db'.sysAudit = db.sysAudit
           \/ /\ pc = "record_approval_decision" /\ gate.isTimeout
              /\ db.appr[gate.id].kind # "absent"
              /\ db'.sysAudit = db.sysAudit \cup {gate.id}
        /\ \A a \in ApprovalId : db'.appr[a].kind = "absent" =>
                                    db.appr[a].kind = "absent"
    <3>. HIDE DEF CurrentJob
    <3>. QED
      BY <2>1, <2>2, AuditsGrow
  <2>4. Returned("create_approval")' => res'.id \notin db'.sysAudit
    <3>. SUFFICES ASSUME pc = "create_approval" PROVE res'.id \notin db'.sysAudit
      BY <2>1, Zenon DEF Returned
    <3>1. PICK a \in ApprovalId : Inserts(CurrentJob, db, o, a)
      BY <2>1, <2>2, CommitsOK, Zenon DEF Effect, ReleasingActs
    <3>. QED
      BY <2>1, <2>3, <3>1 DEF Inserts, ActorInv
  <2>5. \A a \in ApprovalId : db'.appr[a].kind = "absent" => a \notin db'.sysAudit
    BY <2>3, Zenon DEF ActorInv
  <2>6. HumanActorKept'
    BY <2>1, <2>3, Zenon DEF ActorInv, HumanActorKept
  <2>7. (pc' = "await_decision" \/ NotifyingGate') => gate'.id \notin db'.sysAudit
    BY <2>1, <2>3, Zenon DEF ActorInv, NotifyingGate
  <2>. QED
    BY <2>4, <2>5, <2>6, <2>7, Zenon DEF ActorInv
<1>6. ASSUME NEW j, NEW o, LateCommits(j, o) PROVE ActorInv'
  <2>1. /\ UnderWay(j) /\ o \in Perform(j, db) /\ db' = o.db /\ j \in late
        /\ UNCHANGED <<pc, phase, res, gate, status>>
    BY <1>6, Zenon DEF LateCommits, UnderWay
  <2>2. /\ \/ db'.sysAudit = db.sysAudit
           \/ /\ j.act = "record_approval_decision" /\ j.isTimeout
              /\ j.id \in ApprovalId /\ db.appr[j.id].kind # "absent"
              /\ db'.sysAudit = db.sysAudit \cup {j.id}
        /\ \A a \in ApprovalId : db'.appr[a].kind = "absent" =>
                                    db.appr[a].kind = "absent"
    BY <2>1, AuditsGrow, Zenon
  <2>3. \A a : Fresh(a) /\ a \notin db.sysAudit => a \notin db'.sysAudit
    BY <2>1, <2>2, Zenon DEF Fresh
  <2>4. HumanActorKept'
    BY <2>1, <2>2, Zenon DEF ActorInv, HumanActorKept, HumanInv
  <2>5. \A a \in ApprovalId : db'.appr[a].kind = "absent" => a \notin db'.sysAudit
    BY <2>2, Zenon DEF ActorInv
  <2>. QED
    BY <1>0, <2>1, <2>3, <2>4, <2>5, Zenon DEF ActorInv, Returned, NotifyingGate
<1>. QED
  BY <1>1, <1>2, <1>3, <1>4, <1>5, <1>6, StepKinds, Zenon

(* When a signal closed the gate, record_approval_decision leaves the audit *)
(* to the user who decided: no attempt of it, the current one, a retry or   *)
(* one that commits late, writes the system actor's.                        *)
THEOREM ActorsAreKept == Spec => []HumanActorKept
<1>1. Init => HumanInv
  BY DEF Init, HumanInv, NoGate
<1>2. Init => ActorInv
  BY SMTT(30) DEF Init, InitStore, NoGate, ActorInv, HumanActorKept, Returned, NotifyingGate
<1>3. ActorInv => HumanActorKept
  BY Zenon DEF ActorInv
<1>. QED
  BY <1>1, <1>2, <1>3, HumanStep, ActorStep, Invariance, PTL DEF Spec

(***************************************************************************)
(* The rounds on record are the rounds of the loop.                        *)
(***************************************************************************)

LEMMA RoundMoves ==
    ASSUME IInv, WorkflowStep
    PROVE  /\ \/ round' = round
              \/ /\ pc = "plan_initial" /\ round' = 1 /\ pc' = "round_top"
              \/ /\ pc = "plan_next" /\ round' = round + 1 /\ pc' = "round_top"
           /\ pc' \in {"create_case", "plan_initial"} => pc = "create_case"
           /\ (InRound' /\ round' = round) => InRound \/ round = 1
           /\ Recorded' => Recorded /\ round' = round
<1>. USE DEF Await, Returned, InRound, Recorded, NotifyingGate
<1>1. CASE CaseCreated \/ Rejected
  BY <1>1, Zenon DEF CaseCreated, Rejected, loopVars, Terminal
<1>2. CASE LoopEntered
  <2>1. CASE last' >= 1
    BY <1>2, <2>1, Zenon DEF LoopEntered, NeedsHuman
  <2>2. CASE ~(last' >= 1)
    BY <1>2, <2>2, Zenon DEF LoopEntered, NeedsHuman
  <2>. QED
    BY <2>1, <2>2, Zenon
<1>3. CASE RoundStarted \/ SpendChecked \/ Collected \/ Analyzed
  BY <1>3, Zenon DEF RoundStarted, SpendChecked, Collected, Analyzed, NeedsHuman, loopVars
<1>4. CASE IterationRecorded \/ Validated \/ RawCommandRan \/ DecisionRecorded
  BY <1>4, Zenon
  DEF IterationRecorded, Validated, RawCommandRan, DecisionRecorded,
      NextRawCommand, JudgeReport, NeedsHuman, RequestApproval, NextAction,
      CloseAfterActions, loopVars, IInv, TypeOK, Outcome
<1>5. CASE ApprovalCreated \/ Notified \/ HumanDecided \/ ApprovalTimedOut
  BY <1>5, Zenon
  DEF ApprovalCreated, Notified, HumanDecided, ApprovalTimedOut, GateClosed,
      loopVars, statusVars
<1>6. CASE PlannedNext
  BY <1>6, SMTT(30) DEF PlannedNext, NeedsHuman, IInv, TypeOK
<1>7. CASE RemediationPlanned \/ PlaybookExecuted \/ Settled \/ FixVerified
  BY <1>7, Zenon
  DEF RemediationPlanned, PlaybookExecuted, Settled, FixVerified, NeedsHuman,
      RequestApproval, NextAction, CloseAfterActions, loopVars
<1>8. CASE SummaryClosed \/ ResolvedClosed \/ HandedToHuman
  BY <1>8, Zenon
  DEF SummaryClosed, ResolvedClosed, HandedToHuman, Closed, loopVars, Terminal
<1>. QED
  BY <1>1, <1>2, <1>3, <1>4, <1>5, <1>6, <1>7, <1>8, Zenon DEF WorkflowStep

(* record_iteration closes the round that is open. *)
LEMMA RoundRecorded ==
    ASSUME RoundsInv, round \in Nat, NEW n \in 1..round, n \notin db.iters,
           db'.iters = db.iters \cup {n}, db'.rounds = db.rounds + 1
    PROVE  /\ n = round /\ db.iters # 1..round /\ db'.iters = 1..round
           /\ db'.rounds = Cardinality(db'.iters)
<1>0. db.iters = 1..(round - 1) \/ db.iters = 1..round
  BY Zenon DEF RoundsInv
<1>1. db.iters = 1..(round - 1) /\ n = round
  <2>1. db.iters # 1..round
    BY Zenon
  <2>2. n \notin 1..(round - 1)
    BY <1>0, <2>1, Zenon
  <2>. QED
    BY <1>0, <2>1, <2>2
<1>2. db.iters # 1..round /\ db'.iters = 1..round
  <2>1. (1..(round - 1)) \cup {round} = 1..round
    BY <1>1
  <2>. QED
    BY <1>1, <2>1, Zenon
<1>3. Cardinality(1..(round - 1)) = round - 1 /\ Cardinality(1..round) = round
  <2>1. round >= 1 /\ round \in Int /\ round - 1 \in Int
    BY <1>1
  <2>2. /\ Cardinality(1..(round - 1)) =
              IF 1 > round - 1 THEN 0 ELSE (round - 1) - 1 + 1
        /\ Cardinality(1..round) = IF 1 > round THEN 0 ELSE round - 1 + 1
    BY <2>1, FS_Interval
  <2>. QED
    BY <2>1, <2>2
<1>. QED
  <2>1. db.rounds = Cardinality(1..(round - 1))
    BY <1>1, Zenon DEF RoundsInv
  <2>2. db'.rounds = round
    BY <1>3, <2>1
  <2>. QED
    BY <1>1, <1>2, <1>3, <2>2, Zenon

LEMMA RoundsStep == IInv /\ RoundsInv /\ [Next]_vars => RoundsInv'
<1>. SUFFICES ASSUME IInv, RoundsInv, [Next]_vars PROVE RoundsInv'
  BY Zenon
<1>0. round \in Nat
  BY Zenon DEF IInv, TypeOK
<1>1. CASE Idles
  BY <1>1, Zenon DEF Idles, RoundsInv, InRound, Recorded, Returned, NotifyingGate
<1>2. CASE CommitDecision
  BY <1>2, DecisionCommitted, Zenon
  DEF RoundsInv, InRound, Recorded, Returned, NotifyingGate, KeepsRounds
<1>3. CASE WorkflowStep
  <2>1. UNCHANGED <<db, late>>
    BY <1>3, WorkflowAwaits, Zenon
  <2>2. CASE round' = round
    BY <1>3, <2>1, <2>2, RoundMoves, SMTT(30) DEF RoundsInv
  <2>3. CASE round' # round
    <3>1. /\ db.iters = 1..(round' - 1) /\ round' >= 1 /\ pc' = "round_top"
          /\ round' >= round /\ round' \in Nat
      <4>1. CASE pc = "plan_initial" /\ round' = 1
        <5>1. round = 0
          BY <4>1, Zenon DEF RoundsInv
        <5>. QED
          BY <1>3, <2>3, <4>1, <5>1, RoundMoves DEF RoundsInv
      <4>2. CASE pc = "plan_next" /\ round' = round + 1
        BY <1>0, <1>3, <2>3, <4>2, RoundMoves DEF RoundsInv, Recorded
      <4>. QED
        BY <1>3, <2>3, <4>1, <4>2, RoundMoves, Zenon
    <3>2. \A j \in late : j.act = "record_iteration" => j.round \in 1..round'
      BY <1>0, <3>1 DEF RoundsInv
    <3>3. ~Recorded'
      BY <1>3, <2>3, RoundMoves, Zenon
    <3>. QED
      BY <2>1, <3>1, <3>2, <3>3, Zenon DEF RoundsInv
  <2>. QED
    BY <2>2, <2>3, Zenon
<1>4. CASE Retries
  <2>1. UNCHANGED <<db, round, status>>
    BY <1>4, Zenon DEF Retries
  <2>2. \A l \in late' : l \in late \/ (l.act = pc /\ l.round = round)
    BY <1>4, SMTT(30) DEF Retries, CurrentJob
  <2>3. /\ pc' = pc \/ pc' = "failed"
        /\ Recorded' => Recorded
    BY <1>4, Zenon DEF Retries, Recorded, Returned, NotifyingGate
  <2>4. \A l \in late' : l.act = "record_iteration" => l.round \in 1..round
    BY <1>0, <2>2, SMTT(30) DEF RoundsInv, InRound
  <2>. QED
    BY <2>1, <2>3, <2>4, Zenon DEF RoundsInv, InRound
<1>5. ASSUME NEW o, Commits(o) PROVE RoundsInv'
  <2>1. /\ UnderWay(CurrentJob) /\ o \in Perform(CurrentJob, db) /\ db' = o.db
        /\ UNCHANGED <<late, pc, round, status>> /\ phase # "done"
    BY <1>5, Zenon DEF Commits, UnderWay, InProgress
  <2>2. CurrentJob.act = pc /\ CurrentJob.round = round
    BY Zenon DEF CurrentJob
  <2>3. Books(CurrentJob, db, o)
    BY <2>1, CommitsOK, Zenon
  <2>4. CASE pc = "record_iteration"
    <3>1. round \in 1..round
      BY <1>0, <2>4 DEF RoundsInv, InRound
    <3>2. /\ round \notin db.iters /\ db'.iters = db.iters \cup {round}
          /\ db'.rounds = db.rounds + 1
      BY <2>1, <2>2, <2>3, <2>4, Zenon DEF Books, RoundsBook
    <3>3. db'.iters = 1..round /\ db'.rounds = Cardinality(db'.iters)
      BY <1>0, <3>1, <3>2, RoundRecorded, Zenon
    <3>. QED
      BY <2>1, <3>3, Zenon DEF RoundsInv, InRound
  <2>5. CASE pc # "record_iteration"
    <3>1. db'.iters = db.iters /\ db'.rounds = db.rounds
      BY <2>1, <2>2, <2>3, <2>5, Zenon DEF Books, RoundsBook
    <3>. QED
      BY <2>1, <2>5, <3>1, Zenon DEF RoundsInv, InRound, Recorded, Returned, NotifyingGate
  <2>. QED
    BY <2>4, <2>5, Zenon
<1>6. ASSUME NEW j, NEW o, LateCommits(j, o) PROVE RoundsInv'
  <2>1. /\ UnderWay(j) /\ o \in Perform(j, db) /\ db' = o.db /\ j \in late
        /\ UNCHANGED <<pc, phase, round, status>>
    BY <1>6, Zenon DEF LateCommits, UnderWay
  <2>2. Books(j, db, o)
    BY <2>1, CommitsOK, Zenon
  <2>3. \A l \in late' : \E m \in late : l.act = m.act /\ l.round = m.round
    BY <1>6, Zenon DEF LateCommits
  <2>4. CASE j.act = "record_iteration"
    <3>1. /\ j.round \notin db.iters /\ db'.iters = db.iters \cup {j.round}
          /\ db'.rounds = db.rounds + 1
      BY <2>1, <2>2, <2>4, Zenon DEF Books, RoundsBook
    <3>2. j.round \in 1..round
      BY <2>1, <2>4, Zenon DEF RoundsInv
    <3>3. db'.iters = 1..round /\ db'.rounds = Cardinality(db'.iters)
      BY <1>0, <3>1, <3>2, RoundRecorded, Zenon
    <3>. QED
      BY <2>1, <2>3, <3>3, Zenon DEF RoundsInv, InRound
  <2>5. CASE j.act # "record_iteration"
    <3>1. db'.iters = db.iters /\ db'.rounds = db.rounds
      BY <2>1, <2>2, <2>5, Zenon DEF Books, RoundsBook
    <3>. QED
      BY <2>1, <2>3, <3>1, Zenon DEF RoundsInv, InRound, Recorded, Returned, NotifyingGate
  <2>. QED
    BY <2>4, <2>5, Zenon
<1>. QED
  BY <1>1, <1>2, <1>3, <1>4, <1>5, <1>6, StepKinds, Zenon

LEMMA RoundsInvariant == Spec => []RoundsInv
<1>1. Init => RoundsInv
  <2>. SUFFICES ASSUME Init PROVE RoundsInv
    BY Zenon
  <2>1. /\ db.iters = {} /\ db.rounds = 0 /\ round = 0 /\ late = {}
        /\ pc = "create_case"
    BY Zenon DEF Init, InitStore
  <2>2. Cardinality({}) = 0
    BY FS_EmptySet, Zenon
  <2>. QED
    BY <2>1, <2>2 DEF RoundsInv, InRound, Recorded, Returned, NotifyingGate
<1>. QED
  BY <1>1, RoundsStep, Invariance, PTL DEF Spec

(* The iterations table holds the rounds the loop has run, without gap or   *)
(* repetition, and spent.rounds counts them: for any number of rounds, and  *)
(* however often record_iteration is retried or commits late.               *)
THEOREM RoundsOnRecord == Spec => []IterationsContiguous
<1>1. RoundsInv => IterationsContiguous
  BY Zenon DEF RoundsInv, IterationsContiguous
<1>. QED
  BY <1>1, RoundsInvariant, PTL

(***************************************************************************)
(* How a case ends when no attempt is given up.                            *)
(***************************************************************************)

(* The workflow reports a terminal status when the activity that sets it    *)
(* has returned, and then only notifies.                                    *)
LEMMA StatusMoves ==
    ASSUME WorkflowStep,
           status \in Terminal => pc \in {"send_notifications"} \cup Ended
    PROVE  /\ pc' = "done" => status' \in Terminal
           /\ pc' # "failed"
           /\ status' \in Terminal =>
                /\ pc' \in {"send_notifications", "done"}
                /\ \/ status' = status
                   \/ pc \in Closing /\ phase = "done" /\ status' = Final(pc)
<1>. USE DEF Await, Returned, Ended
<1>1. CASE Rejected
  BY <1>1, Zenon DEF Rejected, Terminal, Closing, Final
<1>2. CASE SummaryClosed \/ ResolvedClosed \/ HandedToHuman
  BY <1>2, Zenon
  DEF SummaryClosed, ResolvedClosed, HandedToHuman, Closed, Terminal, Closing,
      Final
<1>3. CASE Notified
  BY <1>3, Zenon DEF Notified, statusVars
<1>4. CASE ~(Rejected \/ SummaryClosed \/ ResolvedClosed \/ HandedToHuman
             \/ Notified)
  <2>1. pc \notin {"send_notifications"} \cup Ended
    BY <1>4, Zenon
    DEF WorkflowStep, CaseCreated, LoopEntered, RoundStarted, SpendChecked,
        Collected, Analyzed, IterationRecorded, Validated, ApprovalCreated,
        HumanDecided, ApprovalTimedOut, DecisionRecorded, RawCommandRan,
        PlannedNext, RemediationPlanned, PlaybookExecuted, Settled, FixVerified
  <2>2. status' = status \/ status' \in {"OPEN", "INVESTIGATING",
                                         "AWAITING_APPROVAL"}
    BY <1>4, Zenon
    DEF WorkflowStep, CaseCreated, LoopEntered, RoundStarted, SpendChecked,
        Collected, Analyzed, IterationRecorded, Validated, ApprovalCreated,
        HumanDecided, ApprovalTimedOut, GateClosed, DecisionRecorded,
        RawCommandRan, PlannedNext, RemediationPlanned, PlaybookExecuted,
        Settled, FixVerified, statusVars
  <2>3. status' \notin Terminal
    BY <2>1, <2>2, Zenon DEF Terminal
  <2>4. pc' \notin Ended
    BY <1>4, Zenon
    DEF WorkflowStep, CaseCreated, LoopEntered, RoundStarted, SpendChecked,
        Collected, Analyzed, IterationRecorded, Validated, ApprovalCreated,
        HumanDecided, ApprovalTimedOut, GateClosed, DecisionRecorded,
        RawCommandRan, PlannedNext, RemediationPlanned, PlaybookExecuted,
        Settled, FixVerified, NextRawCommand, JudgeReport, NeedsHuman,
        NextAction, RequestApproval, CloseAfterActions
  <2>. QED
    BY <2>3, <2>4, Zenon
<1>. QED
  BY <1>1, <1>2, <1>3, <1>4, Zenon

(* A workflow step does not walk away from an open gate. *)
LEMMA GateStays ==
    ASSUME IInv, WorkflowStep, NEW a, AtGate(a)
    PROVE  AtGate(a)'
<1>. USE DEF Await, Returned, NotifyingGate, AtGate
<1>1. CASE ApprovalCreated
  BY <1>1, Zenon DEF ApprovalCreated, NoGate, Terminal
<1>2. CASE Notified
  BY <1>2, Zenon DEF Notified, itemVars
<1>3. CASE HumanDecided \/ ApprovalTimedOut
  BY <1>3, Zenon DEF HumanDecided, ApprovalTimedOut, GateClosed, IInv, TypeOK, Gate
<1>4. CASE ~(ApprovalCreated \/ Notified \/ HumanDecided \/ ApprovalTimedOut)
  <2>1. /\ pc \notin {"create_approval", "send_notifications", "await_decision"}
        /\ pc = "record_approval_decision" => phase = "done"
    BY <1>4, Zenon
    DEF WorkflowStep, CaseCreated, Rejected, LoopEntered, RoundStarted,
        SpendChecked, Collected, Analyzed, IterationRecorded, Validated,
        DecisionRecorded, RawCommandRan, PlannedNext, RemediationPlanned,
        PlaybookExecuted, Settled, FixVerified, SummaryClosed, ResolvedClosed,
        HandedToHuman, Closed
  <2>. QED
    BY <2>1, Zenon
<1>. QED
  BY <1>1, <1>2, <1>3, <1>4, Zenon

(* A step into a round that is not on record. *)
LEMMA RoundOpens ==
    ASSUME IInv, RoundsInv, WorkflowStep, InRound',
           (InRound /\ ~Returned("record_iteration")) => round \notin db.iters
    PROVE  round' \notin db.iters
<1>0. round \in Nat
  BY Zenon DEF IInv, TypeOK
<1>1. CASE pc = "plan_initial"
  <2>1. round = 0
    BY <1>1, Zenon DEF RoundsInv
  <2>2. LoopEntered
    BY <1>1, Zenon
    DEF WorkflowStep, CaseCreated, Rejected, RoundStarted,
        SpendChecked, Collected, Analyzed, IterationRecorded, Validated,
        ApprovalCreated, Notified, HumanDecided, ApprovalTimedOut,
        DecisionRecorded, RawCommandRan, PlannedNext, RemediationPlanned,
        PlaybookExecuted, Settled, FixVerified, SummaryClosed, ResolvedClosed,
        HandedToHuman, Closed, Returned
  <2>3. round' = 1
    BY <2>2, Zenon DEF LoopEntered, NeedsHuman, Await, InRound
  <2>. QED
    BY <2>1, <2>3 DEF RoundsInv
<1>2. CASE pc = "plan_next" /\ round' = round + 1
  BY <1>0, <1>2 DEF RoundsInv, Recorded
<1>3. CASE pc # "plan_initial" /\ round' = round
  <2>1. RoundStarted \/ SpendChecked \/ Collected \/ Analyzed \/ PlannedNext
    BY <1>3, Zenon
    DEF InRound, WorkflowStep, CaseCreated, Rejected, LoopEntered,
        IterationRecorded, Validated, ApprovalCreated, Notified, HumanDecided,
        ApprovalTimedOut, GateClosed, DecisionRecorded, RawCommandRan,
        RemediationPlanned, PlaybookExecuted, Settled, FixVerified,
        SummaryClosed, ResolvedClosed, HandedToHuman, Closed, Returned, Await,
        NextRawCommand, JudgeReport, NeedsHuman, NextAction, RequestApproval,
        CloseAfterActions
  <2>2. ~PlannedNext
    BY <1>0, <1>3 DEF PlannedNext, NeedsHuman, Await, InRound
  <2>3. InRound /\ ~Returned("record_iteration")
    BY <2>1, <2>2, Zenon
    DEF RoundStarted, SpendChecked, Collected, Analyzed, Returned, InRound
  <2>. QED
    BY <1>3, <2>3, Zenon
<1>. QED
  BY <1>1, <1>2, <1>3, RoundMoves, Zenon

(* create_approval can always draw an id that is not in use, and the other  *)
(* transactions of a workflow that repeats none of them do not raise.       *)
LEMMA PerformPossible ==
    ASSUME ~IsFiniteSet(ApprovalId), IInv, CleanInv, faults = 0, InProgress
    PROVE  Perform(CurrentJob, db) # {}
<1>0. /\ CurrentJob.act = pc /\ CurrentJob.phase = phase
      /\ CurrentJob.round = round /\ pc \in Activity /\ phase \in {"todo", "mid"}
      /\ db \in Store
  BY Zenon DEF CurrentJob, InProgress, IInv, TypeOK
<1>1. PICK j : j = CurrentJob
  BY Zenon
<1>2. /\ j.act = pc /\ j.phase = phase /\ j.round = round
  BY <1>0, <1>1, Zenon
<1>3. Charged(db) # {}
  <2>1. db.spend \in db.spend..MaxSpend
    BY <1>0, CaseStoreAssumption DEF Store, CleanInv
  <2>. QED
    BY <2>1, Zenon DEF Charged
<1>4. PICK e : e \in Charged(db)
  BY <1>3, Zenon
<1>5. CASE pc = "record_iteration"
  <2>1. round \notin db.iters
    BY <1>5, Zenon DEF CleanInv, InRound, Returned, InProgress
  <2>2. Perform(j, db) = RecordIteration(db, round)
    BY <1>2, <1>5, Zenon DEF Perform
  <2>3. RecordIteration(db, round) # {}
    BY <2>1, Zenon DEF RecordIteration
  <2>. QED
    BY <1>1, <2>2, <2>3, Zenon
<1>6. CASE pc = "create_approval"
  <2>1. PICK a \in ApprovalId : db.appr[a].kind = "absent"
    BY Zenon DEF CleanInv, Drawn
  <2>2. Perform(j, db) = CreateApproval(db, j.kind, <<j.round, j.item>>)
    BY <1>2, <1>6, Zenon DEF Perform
  <2>3. CreateApproval(db, j.kind, <<j.round, j.item>>) # {}
    BY <2>1, Zenon DEF CreateApproval
  <2>. QED
    BY <1>1, <2>2, <2>3, Zenon
<1>7. CASE pc \in {"plan_initial", "plan_next", "collect"}
  <2>1. Perform(j, db) = PlanCalls(db) \/ Perform(j, db) = Collect(db)
    BY <1>2, <1>7, Zenon DEF Perform
  <2>2. Done(e, NoResult) \in PlanCalls(db) /\ Done(e, NoResult) \in Collect(db)
    BY <1>4, Zenon DEF PlanCalls, Collect
  <2>. QED
    BY <1>1, <2>1, <2>2, Zenon
<1>8. CASE pc \in {"analyze", "plan_remediation"}
  <2>1. Perform(j, db) = Analyze(db) \/ Perform(j, db) = PlanRemediation(db)
    BY <1>2, <1>8, Zenon DEF Perform
  <2>2. /\ <<e, "concluded", 0>> \in Charged(db) \X Outcome \X (0..MaxRaw)
        /\ <<e, 0>> \in Charged(db) \X (0..MaxActions)
    BY <1>4, CaseStoreAssumption DEF Outcome
  <2>3. Analyze(db) # {}
    BY <2>2, Zenon DEF Analyze
  <2>4. PlanRemediation(db) # {}
    BY <2>2, Zenon DEF PlanRemediation
  <2>. QED
    BY <1>1, <2>1, <2>3, <2>4, Zenon
<1>9. CASE pc \in {"create_case", "get_spend", "static_validate_raw_command",
                   "send_notifications"} \cup Closing
  BY <1>1, <1>2, <1>9, Zenon
  DEF Perform, Closing, CreateCase, CloseCase, GetSpend,
      StaticValidateRawCommand, SendNotifications
<1>10. CASE pc \in {"run_raw_command", "verify_fix"}
  BY <1>1, <1>2, <1>10, Zenon DEF Perform, RunRawCommand, VerifyFix
<1>11. CASE pc = "record_approval_decision"
  <2>1. \/ Perform(j, db) = ReadDecision(db, j.id, j.isTimeout)
        \/ Perform(j, db) = WriteDecision(db, j.id, j.decision)
    BY <1>0, <1>2, <1>11, Zenon DEF Perform
  <2>2. ReadDecision(db, j.id, j.isTimeout) # {}
    BY Zenon DEF ReadDecision
  <2>3. WriteDecision(db, j.id, j.decision) # {}
    BY Zenon DEF WriteDecision
  <2>. QED
    BY <1>1, <2>1, <2>2, <2>3, Zenon
<1>12. CASE pc = "execute_playbook"
  <2>1. \/ Perform(j, db) = StartPlaybook(db, j.id)
        \/ Perform(j, db) = FinishPlaybook(db, j.id, <<j.round, j.item>>)
    BY <1>0, <1>2, <1>12, Zenon DEF Perform
  <2>2. StartPlaybook(db, j.id) # {}
    BY Zenon DEF StartPlaybook
  <2>3. FinishPlaybook(db, j.id, <<j.round, j.item>>) # {}
    BY Zenon DEF FinishPlaybook
  <2>. QED
    BY <1>1, <2>1, <2>2, <2>3, Zenon
<1>. QED
  BY <1>0, <1>5, <1>6, <1>7, <1>8, <1>9, <1>10, <1>11, <1>12, Zenon
  DEF Activity, Closing

(* A transaction draws at most one id more. *)
LEMMA DrawnFinite ==
    ASSUME IInv, NEW j, UnderWay(j), NEW o, o \in Perform(j, db), db' = o.db,
           IsFiniteSet(Drawn)
    PROVE  IsFiniteSet(Drawn')
<1>1. Effect(j, db, o) /\ db.appr \in [ApprovalId -> Approval]
  BY CommitsOK, Zenon DEF Store
<1>2. \E a : Drawn' \subseteq Drawn \cup {a}
  <2>1. CASE Keeps(db, o) \/ Releases(j, db, o)
    BY <2>1, Zenon DEF Keeps, Releases, Drawn
  <2>2. CASE Overwrites(j, db, o)
    BY <1>1, <2>2, Zenon DEF Overwrites, Drawn
  <2>3. ASSUME NEW a \in ApprovalId, Inserts(j, db, o, a)
        PROVE  Drawn' \subseteq Drawn \cup {a}
    BY <1>1, <2>3, Zenon DEF Inserts, Drawn
  <2>. QED
    BY <1>1, <2>1, <2>2, <2>3, Zenon DEF Effect
<1>3. \A a : IsFiniteSet(Drawn \cup {a})
  BY FS_AddElement, Zenon
<1>. QED
  BY <1>2, <1>3, FS_Subset, Zenon

(* record_approval_decision returns once the row is decided. *)
LEMMA ReturnsDecided ==
    ASSUME IInv, NEW j, UnderWay(j), NEW o, o \in Perform(j, db), db' = o.db,
           j.act = "record_approval_decision", o.phase = "done"
    PROVE  db'.appr[j.id].decision # "none"
<1>1. /\ j.id \in ApprovalId /\ db \in Store /\ j \in Job
      /\ j.phase \in {"todo", "mid"}
  BY UnderWayOK, CommitsOK, SMTT(30) DEF Job
<1>2. CASE j.phase = "todo"
  <2>1. o \in ReadDecision(db, j.id, j.isTimeout)
    BY <1>2, Zenon DEF Perform
  <2>2. /\ db.appr[j.id].decision # "none"
        /\ o \in {Done(IF j.isTimeout
                       THEN [db EXCEPT !.sysAudit = @ \cup {j.id}] ELSE db,
                       NoResult)}
    BY <2>1, Shapes, Zenon DEF ReadDecision
  <2>3. db'.appr = db.appr
    <3>. DEFINE e == [db EXCEPT !.sysAudit = @ \cup {j.id}]
    <3>1. e.appr = db.appr
      BY <1>1, Zenon DEF Store
    <3>2. o = Done(e, NoResult) \/ o = Done(db, NoResult)
      BY <2>2, Zenon
    <3>. HIDE DEF e
    <3>. QED
      BY <3>1, <3>2, Shapes
  <2>. QED
    BY <2>2, <2>3, Zenon
<1>3. CASE j.phase = "mid"
  <2>1. o \in WriteDecision(db, j.id, j.decision) /\ j.decision \in Decision
    BY <1>3, UnderWayOK, Zenon DEF Perform
  <2>2. Overwrites(j, db, o)
    BY <1>1, <2>1, WriteDecisionOp, Zenon
  <2>. QED
    BY <1>1, <2>1, <2>2 DEF Overwrites, Store, Decision
<1>. QED
  BY <1>1, <1>2, <1>3, Zenon

(* The rows that are undecided after a transaction: those that were, and    *)
(* the one it inserts.                                                      *)
LEMMA UndecidedRows ==
    ASSUME IInv, NEW j, UnderWay(j), NEW o, o \in Perform(j, db), db' = o.db,
           NEW a \in ApprovalId, Undecided(db, a)'
    PROVE  \/ Undecided(db, a)
           \/ j.act = "create_approval" /\ o.phase = "done" /\ o.res.id = a
<1>1. /\ Effect(j, db, o) /\ db.appr \in [ApprovalId -> Approval]
      /\ j \in Job
  BY CommitsOK, Zenon DEF Store
<1>2. CASE Keeps(db, o) \/ Releases(j, db, o)
  BY <1>2, Zenon DEF Keeps, Releases, Undecided
<1>3. CASE /\ j.act = "record_approval_decision" /\ j.phase = "mid"
           /\ Overwrites(j, db, o)
  <2>1. j.decision # "none"
    BY <1>3, UnderWayOK, Zenon DEF Decision
  <2>. QED
    BY <1>1, <1>3, <2>1, SMT, Z3 DEF Overwrites, Undecided
<1>4. CASE /\ j.act = "create_approval" /\ o.phase = "done"
           /\ \E b \in ApprovalId : Inserts(j, db, o, b)
  BY <1>1, <1>4, Zenon DEF Inserts, Undecided
<1>. QED
  BY <1>1, <1>2, <1>3, <1>4, Zenon DEF Effect

LEMMA CleanStep ==
    ASSUME ~IsFiniteSet(ApprovalId)
    PROVE  IInv /\ RoundsInv /\ CleanInv /\ [Next]_vars => CleanInv'
<1>. SUFFICES ASSUME IInv, RoundsInv, CleanInv, [Next]_vars PROVE CleanInv'
  BY Zenon
<1>0. faults \in Nat /\ pc \in Pc
  BY InvestigationAssumption DEF IInv, TypeOK
<1>1. CASE Idles
  BY <1>1, Zenon
  DEF Idles, CleanInv, Drawn, InRound, Returned, Undecided, AtGate, NotifyingGate
<1>2. CASE CommitDecision
  <2>1. Drawn' = Drawn
    BY <1>2, DecisionCommitted, Zenon DEF Drawn
  <2>2. \A a \in ApprovalId : Undecided(db, a)' => Undecided(db, a)
    BY <1>2, DecisionCommitted, Zenon
  <2>3. \A a : AtGate(a)' = AtGate(a)
    BY <1>2, DecisionCommitted, Zenon DEF AtGate, Returned, NotifyingGate
  <2>4. InRound' = InRound /\ Returned("record_iteration")' =
                                Returned("record_iteration")
    BY <1>2, DecisionCommitted, Zenon DEF InRound, Returned
  <2>. QED
    BY <1>2, <2>1, <2>2, <2>3, <2>4, DecisionCommitted, Zenon
    DEF CleanInv, KeepsRounds
<1>3. CASE WorkflowStep
  <2>1. phase' = "todo" /\ UNCHANGED <<db, late, faults>>
    BY <1>3, WorkflowAwaits, Zenon
  <2>2. /\ pc' = "done" => status' \in Terminal
        /\ pc' # "failed"
        /\ status' \in Terminal =>
             /\ pc' \in {"send_notifications"} \cup Ended
             /\ \/ status' = status
                \/ pc \in Closing /\ phase = "done" /\ status' = Final(pc)
    BY <1>3, StatusMoves, Zenon DEF CleanInv, Ended
  <2>3. faults = 0 => (InRound' => round' \notin db.iters)
    BY <1>3, RoundOpens, Zenon DEF CleanInv
  <2>4. \A a : AtGate(a) => AtGate(a)'
    BY <1>3, GateStays, Zenon
  <2>5. Drawn' = Drawn /\ \A a : Undecided(db, a)' = Undecided(db, a)
    BY <2>1, Zenon DEF Drawn, Undecided
  <2>. QED
    BY <2>1, <2>2, <2>3, <2>4, <2>5, Zenon DEF CleanInv
<1>4. CASE Retries
  <2>1. faults' # 0
    <3>1. faults' = faults => Perform(CurrentJob, db) = {}
      BY <1>0, <1>4 DEF Retries
    <3>2. faults = 0 => Perform(CurrentJob, db) # {}
      BY <1>4, PerformPossible, Zenon DEF Retries
    <3>. QED
      BY <1>0, <1>4, <3>1, <3>2 DEF Retries
  <2>2. /\ db' = db /\ status' = status /\ pc \notin Ended
        /\ pc' = pc \/ pc' = "failed"
    BY <1>4, Zenon DEF Retries, InProgress, Activity, Ended
  <2>3. Drawn' = Drawn
    BY <2>2, Zenon DEF Drawn
  <2>. QED
    BY <2>1, <2>2, <2>3, Zenon DEF CleanInv, Ended
<1>5. ASSUME NEW o, Commits(o) PROVE CleanInv'
  <2>1. /\ UnderWay(CurrentJob) /\ o \in Perform(CurrentJob, db) /\ db' = o.db
        /\ phase' = o.phase /\ res' = o.res /\ phase # "done"
        /\ pc \in Activity
        /\ UNCHANGED <<late, faults, pc, status, round, gate>>
    BY <1>5, Zenon DEF Commits, UnderWay, InProgress
  <2>2. CurrentJob.act = pc /\ CurrentJob.id = gate.id
        /\ CurrentJob.round = round
    BY Zenon DEF CurrentJob
  <2>3. Books(CurrentJob, db, o) /\ o \in Outcomes
    BY <2>1, CommitsOK, Zenon
  <2>4. IsFiniteSet(Drawn') /\ db'.spend <= MaxSpend
    BY <2>1, <2>3, DrawnFinite, Zenon DEF CleanInv, Books, OtherBook
  <2>5. (InRound /\ ~Returned("record_iteration")') =>
            db'.iters = db.iters /\ ~Returned("record_iteration")
    <3>1. pc = "record_iteration" => phase' = "done"
      BY <2>1, <2>2, <2>3, Zenon DEF Books, OtherBook, Outcomes
    <3>. QED
      BY <2>1, <2>2, <2>3, <3>1, Zenon DEF Books, RoundsBook, Returned
  <2>6. ASSUME faults = 0, NEW a \in ApprovalId, Undecided(db, a)'
        PROVE  AtGate(a)'
    <3>1. CASE pc = "create_approval"
      <4>1. ~AtGate(a)
        BY <2>1, <3>1, Zenon DEF AtGate, Returned, NotifyingGate
      <4>2. ~Undecided(db, a)
        BY <2>6, <4>1, Zenon DEF CleanInv
      <4>. QED
        BY <2>1, <2>6, <3>1, <4>2, UndecidedRows, Zenon DEF AtGate, Returned
    <3>2. CASE pc # "create_approval"
      <4>1. AtGate(a)
        BY <2>1, <2>2, <2>6, <3>2, UndecidedRows, Zenon DEF CleanInv
      <4>2. a = gate.id /\ (NotifyingGate \/ pc = "record_approval_decision")
        BY <2>1, <3>2, <4>1, Zenon DEF AtGate, Returned, Activity
      <4>3. CASE NotifyingGate
        BY <2>1, <4>2, <4>3, Zenon DEF AtGate, NotifyingGate
      <4>4. CASE pc = "record_approval_decision"
        <5>1. phase' # "done"
          BY <2>1, <2>2, <2>6, <4>2, <4>4, ReturnsDecided, Zenon DEF Undecided
        <5>. QED
          BY <2>1, <4>2, <4>4, <5>1, Zenon DEF AtGate
      <4>. QED
        BY <4>2, <4>3, <4>4, Zenon
    <3>. QED
      BY <3>1, <3>2, Zenon
  <2>7. (faults = 0 /\ status \in Terminal) => db'.status = status
    <3>1. status \in Terminal => pc = "send_notifications"
      BY <2>1, Zenon DEF CleanInv, Ended, Activity
    <3>2. pc = "send_notifications" => db' = db
      BY <2>1, <2>2, <2>3, Zenon DEF Books, OtherBook
    <3>. QED
      BY <3>1, <3>2, Zenon DEF CleanInv
  <2>8. pc \in Closing => db'.status = Final(pc)
    BY <2>1, <2>2, <2>3, Zenon DEF Books, StatusBook
  <2>. QED
    BY <2>1, <2>4, <2>5, <2>6, <2>7, <2>8, Zenon DEF CleanInv, InRound
<1>6. ASSUME NEW j, NEW o, LateCommits(j, o) PROVE CleanInv'
  <2>1. /\ UnderWay(j) /\ o \in Perform(j, db) /\ db' = o.db /\ j \in late
        /\ UNCHANGED <<faults, pc, status>>
    BY <1>6, Zenon DEF LateCommits, UnderWay
  <2>2. faults # 0
    BY <2>1, Zenon DEF CleanInv
  <2>3. IsFiniteSet(Drawn') /\ db'.spend <= MaxSpend
    BY <2>1, DrawnFinite, CommitsOK, Zenon DEF CleanInv, Books, OtherBook
  <2>. QED
    BY <2>1, <2>2, <2>3, Zenon DEF CleanInv
<1>. QED
  BY <1>1, <1>2, <1>3, <1>4, <1>5, <1>6, StepKinds, Zenon

(* A workflow none of whose attempts is given up, when it is over, has      *)
(* closed its case: the database agrees with the workflow on a terminal     *)
(* status, and every approval it asked for is decided.  The ids             *)
(* create_approval draws (uuid4) do not run out.                            *)
THEOREM EndsClean ==
    ASSUME ~IsFiniteSet(ApprovalId)
    PROVE  Spec => []CleanEnd
<1>1. Init => CleanInv
  <2>. SUFFICES ASSUME Init PROVE CleanInv
    BY Zenon
  <2>1. /\ db = InitStore /\ pc = "create_case" /\ phase = "todo"
        /\ status = "RECEIVED" /\ late = {}
    BY Zenon DEF Init
  <2>2. Drawn = {} /\ \A a \in ApprovalId : ~Undecided(db, a)
    BY <2>1, Zenon DEF Drawn, Undecided, InitStore, NoApproval
  <2>3. IsFiniteSet({})
    BY FS_EmptySet, Zenon
  <2>. QED
    BY <2>1, <2>2, <2>3, CaseStoreAssumption, SMTT(30)
    DEF CleanInv, InitStore, InRound, Closing, Terminal
<1>2. CleanInv => CleanEnd
  <2>. SUFFICES ASSUME CleanInv, faults = 0, pc \in Ended
                PROVE  /\ pc = "done" /\ db.status = status
                       /\ status \in Terminal
                       /\ \A a \in ApprovalId : ~Undecided(db, a)
    BY Zenon DEF CleanEnd
  <2>1. pc = "done"
    BY Zenon DEF CleanInv, Ended
  <2>2. \A a : ~AtGate(a)
    BY <2>1, Zenon DEF AtGate, Returned, NotifyingGate
  <2>. QED
    BY <2>1, <2>2, Zenon DEF CleanInv
<1>3. IInv /\ RoundsInv /\ CleanInv /\ [Next]_vars => CleanInv'
  BY CleanStep, Zenon
<1>. QED
  BY <1>1, <1>2, <1>3, RoundsInvariant, Invariance, PTL DEF Spec
=============================================================================
