------------------------ MODULE InvestigationProofs ------------------------
(* Proofs about Investigation, for every value of its constants: what the   *)
(* transactions of CaseStore do, that the steps of the workflow and of the  *)
(* attempts preserve the inductive invariant, and that whatever the probe   *)
(* runs, a user approved.                                                   *)
EXTENDS Investigation, TLAPS

(***************************************************************************)
(* What one transaction of an activity does to approvals and releases.     *)
(***************************************************************************)

(* The transaction touches neither the approvals nor the record of what     *)
(* the probe ran.                                                           *)
Keeps(d, o) == o.db.appr = d.appr /\ o.db.ran = d.ran

(* It inserts the approval a the job asks for. *)
Inserts(j, d, o, a) ==
    /\ d.appr[a].kind = "absent"
    /\ o.db.appr = [d.appr EXCEPT ![a] =
          [kind |-> j.kind, subject |-> <<j.round, j.item>>,
           decision |-> "none", by |-> "none"]]
    /\ o.db.ran = d.ran
    /\ o.res.id = a

(* It overwrites the decision of the job's approval. *)
Overwrites(j, d, o) ==
    /\ o.db.appr = [d.appr EXCEPT ![j.id] =
          [kind |-> d.appr[j.id].kind, subject |-> d.appr[j.id].subject,
           decision |-> j.decision, by |-> "system"]]
    /\ o.db.ran = d.ran

(* It has the probe run what the job's approval released. *)
Releases(j, d, o) ==
    /\ o.db.appr = d.appr
    /\ o.db.ran = d.ran \cup {Run(j.id, KindReleased(j.act),
                                  <<j.round, j.item>>)}

Outcomes == [db : Store, phase : {"mid", "done"}, res : Result]

(* The two shapes of an outcome, taken apart. *)
LEMMA OutcomeShapes ==
    \A d \in Store, r \in Result :
        /\ Done(d, r) \in Outcomes
        /\ Done(d, r).db = d /\ Done(d, r).phase = "done" /\ Done(d, r).res = r
        /\ More(d) \in Outcomes
        /\ More(d).db = d /\ More(d).phase = "mid"
BY DEF Done, More, Outcomes, NoResult, Result, Outcome

LEMMA Results ==
    /\ NoResult \in Result
    /\ \A b \in BOOLEAN : Ok(b) \in Result
    /\ \A n \in Nat, c \in Outcome :
          [NoResult EXCEPT !.outcome = c, !.n = n] \in Result
    /\ \A n \in Nat : [NoResult EXCEPT !.n = n] \in Result
    /\ \A a \in ApprovalId : /\ [NoResult EXCEPT !.id = a] \in Result
                             /\ [NoResult EXCEPT !.id = a].id = a
BY Zenon DEF NoResult, Result, Ok, Outcome

(* Closing transactions, create_case and the activities that only read or   *)
(* charge keep the types, the approvals and the releases.                   *)
LEMMA PlainOps ==
    ASSUME NEW d \in Store, NEW o,
           \/ o \in CreateCase(d) \/ o \in GetSpend(d) \/ o \in PlanCalls(d)
           \/ o \in Collect(d) \/ o \in Analyze(d)
           \/ o \in StaticValidateRawCommand(d) \/ o \in PlanRemediation(d)
           \/ o \in SendNotifications(d)
           \/ \E s \in Status : o \in CloseCase(d, s)
    PROVE  o \in Outcomes /\ o.phase = "done" /\ Keeps(d, o)
<1>1. SUFFICES \E e \in Store, r \in Result :
                   o = Done(e, r) /\ e.appr = d.appr /\ e.ran = d.ran
  BY OutcomeShapes DEF Keeps
<1>2. \A s \in Status : LET e == [d EXCEPT !.status = s]
                        IN  e \in Store /\ e.appr = d.appr /\ e.ran = d.ran
  BY Zenon DEF Store
<1>3. \A e \in Charged(d) : e \in Store /\ e.appr = d.appr /\ e.ran = d.ran
  BY DEF Store, Charged
<1>4. CASE o \in CreateCase(d)
  <2>1. PICK b \in BOOLEAN : o = Done([d EXCEPT !.status = "OPEN"], Ok(b))
    BY <1>4, Zenon DEF CreateCase
  <2>. QED
    BY <1>2, <2>1, Results, Zenon DEF Status, NonTerminal
<1>5. CASE o \in GetSpend(d)
  <2>1. o = Done(d, [NoResult EXCEPT !.n = d.spend]) /\ d.spend \in Nat
    BY <1>5, Zenon DEF GetSpend, Store
  <2>. QED
    BY <2>1, Results, Zenon
<1>6. CASE o \in PlanCalls(d) \/ o \in Collect(d)
  BY <1>3, <1>6, Results, Zenon DEF PlanCalls, Collect
<1>7. CASE o \in Analyze(d)
  <2>1. PICK x \in Charged(d) \X Outcome \X (0..MaxRaw) :
          o = Done(x[1], [NoResult EXCEPT !.outcome = x[2], !.n = x[3]])
    BY <1>7, Zenon DEF Analyze
  <2>2. x[1] \in Charged(d) /\ x[2] \in Outcome /\ x[3] \in Nat
    BY CaseStoreAssumption
  <2>. QED
    BY <1>3, <2>1, <2>2, Results, Zenon
<1>8. CASE o \in StaticValidateRawCommand(d) \/ o \in SendNotifications(d)
  BY <1>8, Results, Zenon DEF StaticValidateRawCommand, SendNotifications
<1>9. CASE o \in PlanRemediation(d)
  <2>1. PICK x \in Charged(d) \X (0..MaxActions) :
          o = Done(x[1], [NoResult EXCEPT !.n = x[2]])
    BY <1>9, Zenon DEF PlanRemediation
  <2>2. x[1] \in Charged(d) /\ x[2] \in Nat
    BY CaseStoreAssumption
  <2>. QED
    BY <1>3, <2>1, <2>2, Results, Zenon
<1>10. CASE \E s \in Status : o \in CloseCase(d, s)
  <2>1. PICK s \in Status : o = Done([d EXCEPT !.status = s], NoResult)
    BY <1>10, Zenon DEF CloseCase
  <2>. QED
    BY <1>2, <2>1, Results, Zenon
<1>. QED
  BY <1>4, <1>5, <1>6, <1>7, <1>8, <1>9, <1>10, Zenon

(* e is a store with the approvals and the releases of d. *)
Same(d, e) == e \in Store /\ e.appr = d.appr /\ e.ran = d.ran

LEMMA OneField ==
    ASSUME NEW d \in Store
    PROVE  /\ \A x \in Status : Same(d, [d EXCEPT !.status = x])
           /\ \A n \in Nat : Same(d, [d EXCEPT !.iters = @ \cup {n}])
           /\ Same(d, [d EXCEPT !.rounds = @ + 1])
           /\ \A a : \A x \in {"running", "failed", "succeeded"} :
                 Same(d, [d EXCEPT !.exec[a] = x])
           /\ \A a : Same(d, [d EXCEPT !.runs[a] = @ + 1])
           /\ \A a \in ApprovalId : Same(d, [d EXCEPT !.sysAudit = @ \cup {a}])
<1>1. \A x \in Status : Same(d, [d EXCEPT !.status = x])
  BY Zenon DEF Store, Same
<1>2. \A n \in Nat : Same(d, [d EXCEPT !.iters = @ \cup {n}])
  BY Zenon DEF Store, Same
<1>3. Same(d, [d EXCEPT !.rounds = @ + 1])
  BY DEF Store, Same
<1>4. \A a : \A x \in {"running", "failed", "succeeded"} :
         Same(d, [d EXCEPT !.exec[a] = x])
  BY Zenon DEF Store, Same
<1>5. \A a : Same(d, [d EXCEPT !.runs[a] = @ + 1])
  BY DEF Store, Same
<1>6. \A a \in ApprovalId : Same(d, [d EXCEPT !.sysAudit = @ \cup {a}])
  BY Zenon DEF Store, Same
<1>. QED
  BY <1>1, <1>2, <1>3, <1>4, <1>5, <1>6, Zenon

(* record_iteration, verify_fix and the first transaction of                *)
(* execute_playbook change rows of their own.                               *)
LEMMA BookkeepingOps ==
    ASSUME NEW d \in Store, NEW n \in Nat, NEW a, NEW o,
           \/ o \in RecordIteration(d, n)
           \/ o \in StartPlaybook(d, a)
           \/ o \in VerifyFix(d, a)
    PROVE  o \in Outcomes /\ Keeps(d, o)
<1>1. "INVESTIGATING" \in Status /\ "EXECUTING" \in Status
      /\ "VERIFYING" \in Status
  BY Zenon DEF Status, NonTerminal
<1>2. SUFFICES \E e \in Store, r \in Result :
                   Same(d, e) /\ (o = Done(e, r) \/ o = More(e))
  BY OutcomeShapes DEF Keeps, Same
<1>3. CASE o \in RecordIteration(d, n)
  <2>. DEFINE e1 == [d EXCEPT !.iters = @ \cup {n}]
              e2 == [e1 EXCEPT !.rounds = @ + 1]
              e3 == [e2 EXCEPT !.status = "INVESTIGATING"]
  <2>1. o = Done(e3, NoResult)
    BY <1>3, Zenon DEF RecordIteration
  <2>2. Same(d, e1)
    BY OneField, Zenon
  <2>3. Same(e1, e2)
    <3>. HIDE DEF e1
    <3>. QED
      BY <2>2, OneField, Zenon DEF Same
  <2>4. Same(e2, e3)
    <3>. HIDE DEF e2
    <3>. QED
      BY <1>1, <2>3, OneField, Zenon DEF Same
  <2>. HIDE DEF e1, e2, e3
  <2>. QED
    BY <2>1, <2>2, <2>3, <2>4, Results, Zenon DEF Same
<1>4. CASE o \in StartPlaybook(d, a)
  <2>. DEFINE e1 == [d EXCEPT !.status = "EXECUTING"]
              e2 == [e1 EXCEPT !.exec[a] = "running"]
              e3 == [e2 EXCEPT !.runs[a] = @ + 1]
  <2>1. o = More(e3)
    BY <1>4, Zenon DEF StartPlaybook
  <2>2. Same(d, e1)
    BY <1>1, OneField, Zenon
  <2>3. Same(e1, e2)
    <3>. HIDE DEF e1
    <3>. QED
      BY <2>2, OneField, Zenon DEF Same
  <2>4. Same(e2, e3)
    <3>. HIDE DEF e2
    <3>. QED
      BY <2>3, OneField, Zenon DEF Same
  <2>. HIDE DEF e1, e2, e3
  <2>. QED
    BY <2>1, <2>2, <2>3, <2>4, Results, Zenon DEF Same
<1>5. CASE o \in VerifyFix(d, a)
  <2>. DEFINE e1 == [d EXCEPT !.exec[a] = "succeeded"]
              e2 == [e1 EXCEPT !.status = "VERIFYING"]
              e3 == [d EXCEPT !.exec[a] = "failed"]
  <2>1. o = Done(e2, Ok(TRUE)) \/ o = Done(e3, Ok(FALSE))
    BY <1>5, Zenon DEF VerifyFix
  <2>2. Same(d, e1) /\ Same(d, e3)
    BY OneField, Zenon
  <2>3. Same(e1, e2)
    <3>. HIDE DEF e1
    <3>. QED
      BY <1>1, <2>2, OneField, Zenon DEF Same
  <2>. HIDE DEF e1, e2, e3
  <2>4. Ok(TRUE) \in Result /\ Ok(FALSE) \in Result
    BY Results, Zenon
  <2>. QED
    BY <2>1, <2>2, <2>3, <2>4, Zenon DEF Same
<1>. QED
  BY <1>3, <1>4, <1>5, Zenon

(* create_approval inserts a row under an id not drawn before. *)
LEMMA CreateApprovalOp ==
    ASSUME NEW d \in Store, NEW j \in Job, NEW o,
           o \in CreateApproval(d, j.kind, <<j.round, j.item>>)
    PROVE  /\ o \in Outcomes /\ o.phase = "done"
           /\ \E a \in ApprovalId : Inserts(j, d, o, a)
<1>. DEFINE row == [kind |-> j.kind, subject |-> <<j.round, j.item>>,
                    decision |-> "none", by |-> "none"]
            e(a) == [d EXCEPT !.status = "AWAITING_APPROVAL", !.appr[a] = row]
            r(a) == [NoResult EXCEPT !.id = a]
<1>1. PICK a \in ApprovalId : d.appr[a].kind = "absent" /\ o = Done(e(a), r(a))
  BY Zenon DEF CreateApproval
<1>2. row \in Approval /\ "AWAITING_APPROVAL" \in Status
  BY Zenon DEF Approval, Job, Subject, Status, NonTerminal
<1>3. /\ e(a) \in Store /\ e(a).appr = [d.appr EXCEPT ![a] = row]
      /\ e(a).ran = d.ran
  BY <1>2, Zenon DEF Store
<1>4. r(a) \in Result /\ r(a).id = a
  BY Results, Zenon
<1>. HIDE DEF e, r
<1>5. o \in Outcomes /\ o.db = e(a) /\ o.phase = "done" /\ o.res = r(a)
  BY <1>1, <1>3, <1>4, OutcomeShapes, Zenon
<1>. QED
  BY <1>1, <1>3, <1>4, <1>5, Zenon DEF Inserts

(* record_approval_decision goes on only from a row it read as undecided ... *)
LEMMA ReadDecisionOp ==
    ASSUME NEW d \in Store, NEW a \in ApprovalId, NEW t \in BOOLEAN, NEW o,
           o \in ReadDecision(d, a, t)
    PROVE  /\ o \in Outcomes /\ Keeps(d, o)
           /\ o.phase = "mid" => d.appr[a].decision = "none"
<1>. DEFINE e == [d EXCEPT !.sysAudit = @ \cup {a}]
<1>1. Same(d, e)
  BY OneField, Zenon
<1>2. \/ o = More(d) /\ d.appr[a].decision = "none"
      \/ o = Done(e, NoResult) \/ o = Done(d, NoResult)
  BY Zenon DEF ReadDecision
<1>3. NoResult \in Result
  BY Results, Zenon
<1>. HIDE DEF e
<1>. QED
  BY <1>1, <1>2, <1>3, OutcomeShapes DEF Keeps, Same

(* ... and then it overwrites whatever is there. *)
LEMMA WriteDecisionOp ==
    ASSUME NEW d \in Store, NEW j \in Job, j.id \in ApprovalId,
           j.decision \in Decision, NEW o,
           o \in WriteDecision(d, j.id, j.decision)
    PROVE  o \in Outcomes /\ o.phase = "done" /\ Overwrites(j, d, o)
<1>. DEFINE row == [kind |-> d.appr[j.id].kind,
                    subject |-> d.appr[j.id].subject,
                    decision |-> j.decision, by |-> "system"]
            e == [d EXCEPT !.appr[j.id].decision = j.decision,
                           !.appr[j.id].by = "system",
                           !.sysAudit = @ \cup {j.id}]
<1>1. d.appr[j.id] \in Approval /\ row \in Approval
  BY Zenon DEF Store, Approval
<1>2. e.appr = [d.appr EXCEPT ![j.id] = row] /\ e.ran = d.ran
  BY <1>1 DEF Store, Approval
<1>3. e \in Store
  <2>1. e.appr \in [ApprovalId -> Approval]
    BY <1>1, <1>2 DEF Store
  <2>2. e.sysAudit \in SUBSET ApprovalId
    BY Zenon DEF Store
  <2>. QED
    BY <2>1, <2>2, Zenon DEF Store
<1>4. o = Done(e, NoResult) /\ NoResult \in Result
  BY Results, Zenon DEF WriteDecision
<1>. HIDE DEF e
<1>5. o \in Outcomes /\ o.db = e /\ o.phase = "done"
  BY <1>3, <1>4, OutcomeShapes
<1>. QED
  BY <1>2, <1>5, Zenon DEF Overwrites

(* run_raw_command and the steps of a playbook. *)
LEMMA ReleaseOps ==
    ASSUME NEW d \in Store, NEW j \in Job, j.id \in ApprovalId, NEW o,
           \/ /\ j.act = "run_raw_command"
              /\ o \in RunRawCommand(d, j.id, <<j.round, j.item>>)
           \/ /\ j.act = "execute_playbook"
              /\ o \in FinishPlaybook(d, j.id, <<j.round, j.item>>)
    PROVE  /\ o \in Outcomes /\ o.phase = "done"
           /\ Keeps(d, o) \/ Releases(j, d, o)
<1>. DEFINE r == Run(j.id, KindReleased(j.act), <<j.round, j.item>>)
            f == [d EXCEPT !.exec[j.id] = "failed"]
            g(e) == [e EXCEPT !.ran = @ \cup {r}]
<1>1. r \in [id : ApprovalId, kind : Kind, subject : Subject]
  BY Zenon DEF Run, KindReleased, Kind, Subject, Job
<1>2. Same(d, f)
  BY OneField, Zenon
<1>3. \A e \in Store : /\ g(e) \in Store /\ g(e).appr = e.appr
                       /\ g(e).ran = e.ran \cup {r}
  <2>. HIDE DEF r
  <2>. QED
    BY <1>1, Zenon DEF Store
<1>4. \/ o = Done(g(d), NoResult) \/ o = Done(g(d), Ok(TRUE))
      \/ o = Done(g(f), Ok(FALSE)) \/ o = Done(f, Ok(FALSE))
  BY Zenon DEF RunRawCommand, FinishPlaybook, KindReleased
<1>5. NoResult \in Result /\ Ok(TRUE) \in Result /\ Ok(FALSE) \in Result
  BY Results, Zenon
<1>6. \E e \in Store, s \in Result :
         /\ o = Done(e, s)
         /\ e.appr = d.appr
         /\ e.ran = d.ran \/ e.ran = d.ran \cup {r}
  <2>. HIDE DEF r, f, g
  <2>. QED
    BY <1>2, <1>3, <1>4, <1>5, Zenon DEF Same
<1>. QED
  BY <1>6, OutcomeShapes DEF Keeps, Releases

(* What any transaction of any activity does.  A job that may write a       *)
(* decision, or release something, names an approval.                       *)
Effect(j, d, o) ==
    \/ Keeps(d, o) /\ j.act # "create_approval"
    \/ /\ j.act = "create_approval" /\ o.phase = "done"
       /\ \E a \in ApprovalId : Inserts(j, d, o, a)
    \/ /\ j.act = "record_approval_decision" /\ j.phase = "mid"
       /\ o.phase = "done" /\ Overwrites(j, d, o)
    \/ j.act \in ReleasingActs /\ Releases(j, d, o)

LEMMA PerformEffect ==
    ASSUME NEW d \in Store, NEW j \in Job, NEW o, o \in Perform(j, d),
           j.act \in ReleasingActs => j.id \in ApprovalId,
           j.act = "record_approval_decision" => j.id \in ApprovalId,
           (j.act = "record_approval_decision" /\ j.phase = "mid") =>
               j.decision \in Decision
    PROVE  /\ o \in Outcomes
           /\ Effect(j, d, o)
           /\ (j.act = "record_approval_decision" /\ o.phase = "mid") =>
                  d.appr[j.id].decision = "none"
<1>1. {"REJECTED", "CLOSED_SUMMARY", "RESOLVED", "NEEDS_HUMAN"} \subseteq Status
  BY Zenon DEF Status, Terminal
<1>2. j.act \in Activity /\ j.phase \in {"todo", "mid"} /\ j.round \in Nat
      /\ j.isTimeout \in BOOLEAN
  BY Zenon DEF Job
<1>3. CASE j.act \in {"create_case", "reject_case", "plan_initial",
                      "plan_next", "get_spend", "collect", "analyze",
                      "static_validate_raw_command", "send_notifications",
                      "plan_remediation", "close_with_summary",
                      "close_resolved", "to_needs_human"}
  <2>1. \/ o \in CreateCase(d) \/ o \in GetSpend(d) \/ o \in PlanCalls(d)
        \/ o \in Collect(d) \/ o \in Analyze(d)
        \/ o \in StaticValidateRawCommand(d) \/ o \in PlanRemediation(d)
        \/ o \in SendNotifications(d)
        \/ o \in CloseCase(d, "REJECTED") \/ o \in CloseCase(d, "RESOLVED")
        \/ o \in CloseCase(d, "CLOSED_SUMMARY")
        \/ o \in CloseCase(d, "NEEDS_HUMAN")
    BY <1>3, Zenon DEF Perform
  <2>. QED
    BY <1>1, <1>3, <2>1, PlainOps, Zenon DEF Effect
<1>4. CASE \/ j.act \in {"record_iteration", "verify_fix"}
           \/ j.act = "execute_playbook" /\ j.phase = "todo"
  <2>1. \/ o \in RecordIteration(d, j.round) \/ o \in StartPlaybook(d, j.id)
        \/ o \in VerifyFix(d, j.id)
    BY <1>4, Zenon DEF Perform
  <2>. QED
    BY <1>2, <1>4, <2>1, BookkeepingOps, Zenon DEF Effect
<1>5. CASE j.act = "create_approval"
  <2>1. o \in CreateApproval(d, j.kind, <<j.round, j.item>>)
    BY <1>5, Zenon DEF Perform
  <2>. QED
    BY <1>5, <2>1, CreateApprovalOp, Zenon DEF Effect
<1>6. CASE j.act = "record_approval_decision" /\ j.phase = "todo"
  <2>1. o \in ReadDecision(d, j.id, j.isTimeout)
    BY <1>6, Zenon DEF Perform
  <2>. QED
    BY <1>2, <1>6, <2>1, ReadDecisionOp, Zenon DEF Effect
<1>7. CASE j.act = "record_approval_decision" /\ j.phase = "mid"
  <2>1. o \in WriteDecision(d, j.id, j.decision)
    BY <1>7, Zenon DEF Perform
  <2>. QED
    BY <1>7, <2>1, WriteDecisionOp, Zenon DEF Effect
<1>8. CASE \/ j.act = "run_raw_command"
           \/ j.act = "execute_playbook" /\ j.phase = "mid"
  <2>1. \/ /\ j.act = "run_raw_command"
           /\ o \in RunRawCommand(d, j.id, <<j.round, j.item>>)
        \/ /\ j.act = "execute_playbook"
           /\ o \in FinishPlaybook(d, j.id, <<j.round, j.item>>)
    BY <1>8, Zenon DEF Perform
  <2>. QED
    BY <1>8, <2>1, ReleaseOps, Zenon DEF Effect, ReleasingActs
<1>. QED
  BY <1>2, <1>3, <1>4, <1>5, <1>6, <1>7, <1>8, Zenon DEF Activity

(***************************************************************************)
(* Steps that leave the store alone.                                       *)
(***************************************************************************)

(* A step to a place outside the gates keeps everything but the types. *)
LEMMA OutsideGates ==
    ASSUME IInv, TypeOK', UNCHANGED <<db, late, net>>,
           decision' = decision \/ decision' = NoPayload,
           pc' \notin ReleasingActs \cup
                      {"await_decision", "record_approval_decision"},
           pc' = "create_approval" => phase' = "todo",
           pc' = "send_notifications" => status' \in Terminal
    PROVE  IInv'
<1>1. RowsOK' /\ ExecutionApproved' /\ SignalsOK'
  BY Zenon DEF IInv, RowsOK, ExecutionApproved, SignalsOK, SignalOK
<1>2. \A j \in late' : JobOK(j)'
  BY Zenon DEF IInv, JobsOK, JobOK, Cleared
<1>3. JobsOK'
  BY <1>2, Zenon DEF JobsOK, JobOK, CurrentJob, ReleasingActs
<1>4. GatesOK'
  BY Zenon DEF GatesOK, Returned
<1>. QED
  BY <1>1, <1>3, <1>4, Zenon DEF IInv

(* A step that does not move the workflow, and may only forget signals,     *)
(* keeps everything but the types.                                          *)
LEMMA WorkflowStays ==
    ASSUME IInv, TypeOK',
           UNCHANGED <<db, late, taskVars, statusVars, loopVars, itemVars>>,
           net' \subseteq net, decision' \in {decision} \cup net
    PROVE  IInv'
<1>1. RowsOK' /\ ExecutionApproved'
  BY Zenon DEF IInv, RowsOK, ExecutionApproved
<1>2. SignalsOK'
  BY Zenon DEF IInv, SignalsOK, SignalOK
<1>3. CurrentJob' = CurrentJob
  BY Zenon DEF CurrentJob, taskVars, loopVars, itemVars
<1>4. JobsOK'
  <2>1. \A j : JobOK(j) => JobOK(j)'
    BY Zenon DEF JobOK, Cleared
  <2>. QED
    BY <1>3, <2>1, Zenon DEF IInv, JobsOK, taskVars, itemVars
<1>5. GatesOK'
  <2>1. \A a : (Fresh(a) => Fresh(a)') /\ (Unreleased(a) => Unreleased(a)')
    BY Zenon DEF Fresh, Unreleased, loopVars, itemVars
  <2>. QED
    BY <2>1, Zenon
    DEF IInv, GatesOK, Returned, taskVars, statusVars, itemVars
<1>. QED
  BY <1>1, <1>2, <1>4, <1>5, Zenon DEF IInv

(***************************************************************************)
(* Workflow steps keep the types.                                          *)
(***************************************************************************)

TaskOK == /\ pc \in Pc /\ phase \in {"todo", "mid", "done"}
          /\ attempt \in 0..(MaxAttempts - 1) /\ res \in Result

LEMMA AwaitType ==
    ASSUME NEW x \in Pc, Await(x)
    PROVE  TaskOK'
<1>1. NoResult \in Result
  BY Results, Zenon
<1>. QED
  BY <1>1, InvestigationAssumption DEF Await, TaskOK

LEMMA WorkflowTypes ==
    ASSUME TypeOK, WorkflowStep,
           Returned("create_approval") => res.id \in ApprovalId
    PROVE  TypeOK'
<1>. USE DEF taskVars, signalVars, statusVars, loopVars, itemVars, storeVars
<1>0. NoGate \in Gate
  BY Zenon DEF NoGate, Gate
<1>1. CASE CaseCreated
  <2>1. TaskOK'
    BY <1>1, AwaitType, Zenon DEF CaseCreated, Pc, Activity
  <2>2. status' \in Status
    BY <1>1, Zenon DEF CaseCreated, Status, NonTerminal
  <2>3. budget' \in [BudgetKeys -> Int]
    BY <1>1, InvestigationAssumption DEF CaseCreated, Updated, TypeOK, NoOverride
  <2>. QED
    BY <1>1, <2>1, <2>2, <2>3, Zenon DEF CaseCreated, TypeOK, TaskOK
<1>2. CASE Rejected
  <2>1. TaskOK'
    BY <1>2, AwaitType, Zenon DEF Rejected, Pc, Activity
  <2>2. status' \in Status /\ reason' \in Reason
    BY <1>2, Zenon DEF Rejected, Status, Terminal, Reason
  <2>. QED
    BY <1>2, <2>1, <2>2, Zenon DEF Rejected, TypeOK, TaskOK
<1>3. CASE LoopEntered
  <2>1. TaskOK'
    BY <1>3, AwaitType, Zenon DEF LoopEntered, NeedsHuman, Pc, Activity
  <2>2. status' \in Status /\ reason' \in Reason /\ round' \in Nat
        /\ last' \in Int
    BY <1>3 DEF LoopEntered, NeedsHuman, Status, NonTerminal, Reason, TypeOK,
                BudgetKeys
  <2>. QED
    BY <1>3, <2>1, <2>2, Zenon DEF LoopEntered, TypeOK, TaskOK
<1>4. CASE RoundStarted
  <2>1. TaskOK'
    BY <1>4, AwaitType, Zenon DEF RoundStarted, NeedsHuman, Pc, Activity
  <2>2. reason' \in Reason
    BY <1>4, Zenon DEF RoundStarted, NeedsHuman, Reason, TypeOK
  <2>. QED
    BY <1>4, <2>1, <2>2, Zenon DEF RoundStarted, TypeOK, TaskOK
<1>5. CASE SpendChecked
  <2>1. TaskOK'
    BY <1>5, AwaitType, Zenon DEF SpendChecked, NeedsHuman, Pc, Activity
  <2>2. reason' \in Reason /\ spent' \in Nat
    BY <1>5, Zenon DEF SpendChecked, NeedsHuman, Reason, TypeOK, Result
  <2>3. budget' \in [BudgetKeys -> Int]
    BY <1>5, InvestigationAssumption
    DEF SpendChecked, Updated, TypeOK, NoOverride
  <2>4. expired' \in BOOLEAN /\ override' \in Overrides \cup {NoOverride}
    BY <1>5, Zenon DEF SpendChecked, TypeOK
  <2>. QED
    BY <1>5, <2>1, <2>2, <2>3, <2>4, Zenon DEF SpendChecked, TypeOK, TaskOK
<1>6. CASE Collected
  <2>1. TaskOK'
    BY <1>6, AwaitType, Zenon DEF Collected, Pc, Activity
  <2>. QED
    BY <1>6, <2>1, Zenon DEF Collected, TypeOK, TaskOK
<1>7. CASE Analyzed
  <2>1. TaskOK'
    BY <1>7, AwaitType, Zenon DEF Analyzed, Pc, Activity
  <2>2. outcome' \in Outcome /\ kind' \in Kind /\ item' \in Nat /\ items' \in Nat
    BY <1>7, Zenon DEF Analyzed, TypeOK, Result, Kind
  <2>. QED
    BY <1>7, <2>1, <2>2, Zenon DEF Analyzed, TypeOK, TaskOK
<1>8. CASE IterationRecorded
  <2>1. TaskOK' /\ reason' \in Reason /\ item' \in Nat
    BY <1>8, AwaitType
    DEF IterationRecorded, NextRawCommand, JudgeReport, NeedsHuman, Pc,
        Activity, Reason, TypeOK, Outcome
  <2>. QED
    BY <1>8, <2>1, Zenon DEF IterationRecorded, TypeOK, TaskOK
<1>9. CASE Validated
  <2>1. TaskOK' /\ reason' \in Reason /\ item' \in Nat
    BY <1>9, AwaitType
    DEF Validated, NextRawCommand, RequestApproval, JudgeReport, NeedsHuman,
        Pc, Activity, Reason, TypeOK, Outcome
  <2>2. decision' \in Payload \cup {NoPayload}
    BY <1>9, Zenon DEF Validated, RequestApproval, TypeOK
  <2>. QED
    BY <1>9, <2>1, <2>2, Zenon DEF Validated, TypeOK, TaskOK
<1>10. CASE ApprovalCreated
  <2>1. TaskOK'
    BY <1>10, AwaitType, Zenon DEF ApprovalCreated, Pc, Activity
  <2>2. awaiting' \in ApprovalId \cup {NoId} /\ status' \in Status
    BY <1>10, Zenon DEF ApprovalCreated, Status, NonTerminal
  <2>3. gate' \in Gate
    BY <1>10, Zenon DEF ApprovalCreated, NoGate, Gate
  <2>. QED
    BY <1>10, <2>1, <2>2, <2>3, Zenon DEF ApprovalCreated, TypeOK, TaskOK
<1>11. CASE Notified
  <2>1. TaskOK'
    BY <1>11, AwaitType, Zenon DEF Notified, Pc, Ended
  <2>. QED
    BY <1>11, <2>1, Zenon DEF Notified, TypeOK, TaskOK
<1>12. CASE HumanDecided \/ ApprovalTimedOut
  <2>1. PICK d \in Decision \cup {"none"}, t \in BOOLEAN : GateClosed(d, t)
    <3>1. decision.decision \in Decision \cup {"none"} /\ "denied" \in Decision
      BY DEF TypeOK, Payload, NoPayload, Decision
    <3>2. GateClosed(decision.decision, FALSE) \/ GateClosed("denied", TRUE)
      BY <1>12, Zenon DEF HumanDecided, ApprovalTimedOut
    <3>. QED
      BY <3>1, <3>2, Zenon
  <2>2. TaskOK'
    BY <2>1, AwaitType, Zenon DEF GateClosed, Pc, Activity
  <2>3. gate' \in Gate
    BY <2>1, Zenon DEF GateClosed, TypeOK, Gate
  <2>. QED
    BY <2>1, <2>2, <2>3, Zenon DEF GateClosed, TypeOK, TaskOK
<1>13. CASE DecisionRecorded
  <2>1. TaskOK' /\ reason' \in Reason /\ item' \in Nat
    BY <1>13, AwaitType
    DEF DecisionRecorded, NextRawCommand, NextAction, RequestApproval,
        CloseAfterActions, JudgeReport, NeedsHuman, Pc, Activity, Reason,
        TypeOK, Outcome
  <2>2. decision' \in Payload \cup {NoPayload}
    BY <1>13, Zenon DEF DecisionRecorded, NextAction, RequestApproval, TypeOK
  <2>3. gate' \in Gate
    <3>1. gate' = gate \/ gate' = NoGate
      BY <1>13, Zenon DEF DecisionRecorded
    <3>. QED
      BY <3>1, <1>0, Zenon DEF TypeOK
  <2>4. status' \in Status
    BY <1>13, Zenon DEF DecisionRecorded, Status, NonTerminal
  <2>. QED
    BY <1>13, <2>1, <2>2, <2>3, <2>4, Zenon DEF DecisionRecorded, TypeOK, TaskOK
<1>14. CASE RawCommandRan
  <2>1. TaskOK' /\ reason' \in Reason /\ item' \in Nat
    BY <1>14, AwaitType
    DEF RawCommandRan, NextRawCommand, JudgeReport, NeedsHuman, Pc, Activity,
        Reason, TypeOK, Outcome
  <2>2. gate' \in Gate
    BY <1>14, <1>0, Zenon DEF RawCommandRan
  <2>. QED
    BY <1>14, <2>1, <2>2, Zenon DEF RawCommandRan, TypeOK, TaskOK
<1>15. CASE PlannedNext
  <2>1. TaskOK' /\ reason' \in Reason /\ round' \in Nat
    BY <1>15, AwaitType
    DEF PlannedNext, NeedsHuman, Pc, Activity, Reason, TypeOK
  <2>. QED
    BY <1>15, <2>1, Zenon DEF PlannedNext, TypeOK, TaskOK
<1>16. CASE RemediationPlanned
  <2>1. TaskOK'
    BY <1>16, AwaitType, Zenon DEF RemediationPlanned, RequestApproval, Pc, Activity
  <2>2. kind' \in Kind /\ items' \in Nat /\ item' \in Nat
    BY <1>16 DEF RemediationPlanned, Kind, TypeOK, Result
  <2>3. executedAny' \in BOOLEAN /\ decision' \in Payload \cup {NoPayload}
    BY <1>16, Zenon DEF RemediationPlanned, RequestApproval, TypeOK
  <2>. QED
    BY <1>16, <2>1, <2>2, <2>3, Zenon DEF RemediationPlanned, TypeOK, TaskOK
<1>17. CASE PlaybookExecuted
  <2>1. TaskOK' /\ reason' \in Reason
    BY <1>17, AwaitType, Zenon
    DEF PlaybookExecuted, NeedsHuman, Pc, Activity, Reason, TypeOK
  <2>. QED
    BY <1>17, <2>1, Zenon DEF PlaybookExecuted, TypeOK, TaskOK
<1>18. CASE Settled
  <2>1. TaskOK'
    BY <1>18, AwaitType, Zenon DEF Settled, Pc, Activity
  <2>. QED
    BY <1>18, <2>1, Zenon DEF Settled, TypeOK, TaskOK
<1>19. CASE FixVerified
  <2>1. TaskOK' /\ reason' \in Reason /\ item' \in Nat
    BY <1>19, AwaitType
    DEF FixVerified, NextAction, RequestApproval, CloseAfterActions,
        NeedsHuman, Pc, Activity, Reason, TypeOK
  <2>2. decision' \in Payload \cup {NoPayload} /\ executedAny' \in BOOLEAN
    BY <1>19, Zenon DEF FixVerified, NextAction, RequestApproval, TypeOK
  <2>3. gate' \in Gate
    <3>1. gate' = gate \/ gate' = NoGate
      BY <1>19, Zenon DEF FixVerified
    <3>. QED
      BY <3>1, <1>0, Zenon DEF TypeOK
  <2>. QED
    BY <1>19, <2>1, <2>2, <2>3, Zenon DEF FixVerified, TypeOK, TaskOK
<1>20. CASE SummaryClosed \/ ResolvedClosed \/ HandedToHuman
  <2>1. PICK act \in Activity, final \in Terminal,
             next \in {"done", "send_notifications"} : Closed(act, final, next)
    BY <1>20, Zenon DEF SummaryClosed, ResolvedClosed, HandedToHuman, Activity,
                 Terminal
  <2>2. TaskOK' /\ status' \in Status
    BY <2>1, AwaitType, Zenon DEF Closed, Pc, Activity, Ended, Status
  <2>. QED
    BY <2>1, <2>2, Zenon DEF Closed, TypeOK, TaskOK
<1>. QED
  BY <1>1, <1>2, <1>3, <1>4, <1>5, <1>6, <1>7, <1>8, <1>9, <1>10, <1>11,
     <1>12, <1>13, <1>14, <1>15, <1>16, <1>17, <1>18, <1>19, <1>20
  DEF WorkflowStep

(***************************************************************************)
(* Workflow steps keep the invariant.                                      *)
(***************************************************************************)

(* The steps that neither open, close nor use a gate. *)
LEMMA PlainWorkflowStep ==
    ASSUME IInv, TypeOK',
           \/ CaseCreated \/ Rejected \/ LoopEntered \/ RoundStarted
           \/ SpendChecked \/ Collected \/ Analyzed \/ IterationRecorded
           \/ Validated \/ RawCommandRan \/ PlannedNext
           \/ RemediationPlanned \/ PlaybookExecuted \/ Settled
           \/ FixVerified \/ SummaryClosed \/ ResolvedClosed \/ HandedToHuman
    PROVE  IInv'
<1>1. UNCHANGED <<db, late, net>>
  BY Zenon DEF CaseCreated, Rejected, LoopEntered, RoundStarted, SpendChecked,
         Collected, Analyzed, IterationRecorded, Validated, RawCommandRan,
         PlannedNext, RemediationPlanned, PlaybookExecuted, Settled,
         FixVerified, SummaryClosed, ResolvedClosed, HandedToHuman, Closed,
         storeVars
<1>2. decision' = decision \/ decision' = NoPayload
  BY Zenon DEF CaseCreated, Rejected, LoopEntered, RoundStarted, SpendChecked,
         Collected, Analyzed, IterationRecorded, Validated, RawCommandRan,
         PlannedNext, RemediationPlanned, PlaybookExecuted, Settled,
         FixVerified, SummaryClosed, ResolvedClosed, HandedToHuman, Closed,
         signalVars, RequestApproval, NextAction
<1>3. /\ pc' \notin ReleasingActs \cup
                    {"await_decision", "record_approval_decision"}
      /\ phase' = "todo"
      /\ pc' = "send_notifications" => status' \in Terminal
  BY Zenon DEF CaseCreated, Rejected, LoopEntered, RoundStarted, SpendChecked,
         Collected, Analyzed, IterationRecorded, Validated, RawCommandRan,
         PlannedNext, RemediationPlanned, PlaybookExecuted, Settled,
         FixVerified, SummaryClosed, ResolvedClosed, HandedToHuman, Closed,
         RequestApproval, NextAction, NextRawCommand, JudgeReport, NeedsHuman,
         CloseAfterActions, Await, ReleasingActs, Terminal
<1>. QED
  BY <1>1, <1>2, <1>3, OutsideGates, Zenon

(* Conditions under which a step within a gate keeps what the gates do not  *)
(* mention.                                                                 *)
LEMMA WithinGates ==
    ASSUME IInv, UNCHANGED <<db, late, net, decision>>
    PROVE  /\ RowsOK' /\ ExecutionApproved' /\ SignalsOK'
           /\ \A j \in late' : JobOK(j)'
<1>1. RowsOK' /\ ExecutionApproved' /\ SignalsOK'
  BY Zenon DEF IInv, RowsOK, ExecutionApproved, SignalsOK, SignalOK
<1>2. \A j \in late' : JobOK(j)'
  BY Zenon DEF IInv, JobsOK, JobOK, Cleared
<1>. QED
  BY <1>1, <1>2, Zenon

(* create_approval has returned, and the notification is awaited. *)
LEMMA ApprovalCreatedInv ==
    ASSUME IInv, TypeOK', ApprovalCreated
    PROVE  IInv'
<1>1. /\ UNCHANGED <<db, late, net, decision, kind, round, item>>
      /\ pc' = "send_notifications" /\ gate'.id = res.id
  BY Zenon DEF ApprovalCreated, storeVars, signalVars, loopVars, Await, NoGate
<1>2. Fresh(res.id)
  BY Zenon DEF IInv, GatesOK, ApprovalCreated
<1>3. Fresh(gate.id)'
  BY <1>1, <1>2, Zenon DEF Fresh, Unreleased
<1>4. GatesOK'
  BY <1>1, <1>3, Zenon DEF GatesOK, Returned
<1>5. JobsOK'
  BY <1>1, WithinGates, Zenon DEF JobsOK, JobOK, CurrentJob, ReleasingActs
<1>. QED
  BY <1>1, <1>4, <1>5, WithinGates, Zenon DEF IInv

(* The notification has been sent, and the decision is awaited; or the case *)
(* is over.                                                                 *)
LEMMA NotifiedInv ==
    ASSUME IInv, TypeOK', Notified
    PROVE  IInv'
<1>1. CASE status \in Terminal
  <2>1. pc' = "done" /\ UNCHANGED <<db, late, net, decision>>
    BY <1>1, Zenon DEF Notified, Await, storeVars, signalVars
  <2>. QED
    BY <2>1, OutsideGates, Zenon DEF ReleasingActs
<1>2. CASE status \notin Terminal
  <2>1. /\ UNCHANGED <<db, late, net, decision, kind, round, item, gate>>
        /\ pc' = "await_decision"
    BY <1>2, Zenon DEF Notified, storeVars, signalVars, loopVars, itemVars, Await
  <2>2. Fresh(gate.id)
    BY <1>2, Zenon DEF IInv, GatesOK, Notified, Returned
  <2>3. Fresh(gate.id)'
    BY <2>1, <2>2, Zenon DEF Fresh, Unreleased
  <2>4. GatesOK'
    BY <2>1, <2>3, Zenon DEF GatesOK, Returned
  <2>5. JobsOK'
    BY <2>1, WithinGates, Zenon DEF JobsOK, ReleasingActs, Activity
  <2>. QED
    BY <2>1, <2>4, <2>5, WithinGates, Zenon DEF IInv
<1>. QED
  BY <1>1, <1>2, Zenon

(* The wait ends with a decision, or with the timeout. *)
LEMMA GateClosedInv ==
    ASSUME IInv, TypeOK', HumanDecided \/ ApprovalTimedOut
    PROVE  IInv'
<1>1. /\ UNCHANGED <<db, late, net, decision, kind, round, item>>
      /\ pc' = "record_approval_decision" /\ phase' = "todo"
      /\ gate'.id = gate.id
      /\ \/ /\ decision.id = gate.id
            /\ gate'.decision = decision.decision /\ gate'.isTimeout = FALSE
         \/ gate'.decision = "denied" /\ gate'.isTimeout = TRUE
  BY Zenon DEF IInv, TypeOK, Gate, HumanDecided, ApprovalTimedOut, GateClosed,
         DecisionArrived, storeVars, signalVars, loopVars, Await
<1>2. Fresh(gate.id)
  BY Zenon DEF IInv, GatesOK, HumanDecided, ApprovalTimedOut
<1>3. Unreleased(gate.id)'
  BY <1>1, <1>2, Zenon DEF Fresh, Unreleased
<1>4. ASSUME decision.id = gate.id
      PROVE  /\ db.appr[gate.id].decision = decision.decision
             /\ db.appr[gate.id].by = "user"
             /\ decision.decision # "none"
  <2>1. decision # NoPayload
    BY <1>2, <1>4, CaseStoreAssumption DEF Fresh, Unreleased, NoPayload
  <2>2. SignalOK(decision)
    BY <2>1, Zenon DEF IInv, SignalsOK
  <2>3. db.appr[gate.id] \in Approval
    BY <1>2, Zenon DEF IInv, TypeOK, Store, Fresh, Unreleased
  <2>4. db.appr[gate.id].by = "user"
    BY <1>2, <1>4, <2>2, <2>3, Zenon
    DEF SignalOK, IInv, RowsOK, Fresh, Unreleased, Approval
  <2>. QED
    BY <1>4, <2>2, <2>4, Zenon DEF SignalOK
<1>5. GatesOK'
  <2>1. gate'.decision # "none"
    BY <1>1, <1>4, Zenon
  <2>2. ~gate'.isTimeout => /\ db'.appr[gate'.id].decision = gate'.decision
                            /\ db'.appr[gate'.id].by = "user"
    BY <1>1, <1>4, Zenon
  <2>3. \A j \in late' :
          (j.act = "record_approval_decision" /\ j.id = gate'.id) =>
              j.isTimeout = gate'.isTimeout
    BY <1>1, <1>2, Zenon DEF Fresh
  <2>. QED
    BY <1>1, <1>3, <2>1, <2>2, <2>3, Zenon DEF GatesOK, Returned
<1>6. JobOK(CurrentJob)'
  <2>1. gate'.id \in ApprovalId /\ db'.appr[gate'.id].kind # "absent"
    BY <1>1, <1>2, Zenon DEF Fresh, Unreleased, IInv, TypeOK, Kind
  <2>2. ~gate'.isTimeout => db'.appr[gate'.id].decision # "none"
    BY <1>1, <1>4, Zenon
  <2>3. gate'.isTimeout =>
          /\ gate'.decision = "denied"
          /\ \A r \in db'.ran : r.id # gate'.id
          /\ \A k \in late' : k.act \in ReleasingActs => k.id # gate'.id
    BY <1>1, <1>2, Zenon DEF Fresh, Unreleased
  <2>. QED
    BY <1>1, <2>1, <2>2, <2>3, Zenon DEF JobOK, CurrentJob, ReleasingActs
<1>7. JobsOK'
  BY <1>1, <1>6, WithinGates, Zenon DEF JobsOK, ReleasingActs
<1>. QED
  BY <1>1, <1>5, <1>7, WithinGates, Zenon DEF IInv

(* The decision is on record: what an approval releases comes next, or the  *)
(* gate is left.                                                            *)
LEMMA DecisionRecordedInv ==
    ASSUME IInv, TypeOK', DecisionRecorded
    PROVE  IInv'
<1>1. UNCHANGED <<db, late, net, kind, round>>
      /\ pc = "record_approval_decision"
  BY Zenon DEF DecisionRecorded, storeVars, loopVars, Returned
<1>2. CASE gate.decision # "approved"
  <2>1. decision' = decision \/ decision' = NoPayload
    BY <1>2, Zenon DEF DecisionRecorded, NextAction, RequestApproval
  <2>2. /\ pc' \notin ReleasingActs \cup
                      {"await_decision", "record_approval_decision"}
        /\ phase' = "todo" /\ pc' # "send_notifications"
    BY <1>2, Zenon
    DEF DecisionRecorded, RequestApproval, NextAction, NextRawCommand,
        JudgeReport, NeedsHuman, CloseAfterActions, Await, ReleasingActs
  <2>. QED
    BY <1>1, <2>1, <2>2, OutsideGates, Zenon
<1>3. CASE gate.decision = "approved"
  <2>1. /\ UNCHANGED <<gate, item, decision>> /\ phase' = "todo"
        /\ pc' = IF kind = "raw_command" THEN "run_raw_command"
                                         ELSE "execute_playbook"
    BY <1>3, Zenon DEF DecisionRecorded, Await
  <2>2. JobOK(CurrentJob) /\ Unreleased(gate.id)
    BY <1>1, Zenon DEF IInv, JobsOK, GatesOK, Activity
  <2>3. ~gate.isTimeout
    BY <1>1, <1>3, <2>2, Zenon DEF JobOK, CurrentJob, IInv, TypeOK, Gate
  <2>4. Cleared(gate.id, kind, <<round, item>>)
    <3>1. db.appr[gate.id] \in Approval
      BY <2>2, Zenon DEF IInv, TypeOK, Store, Unreleased
    <3>2. /\ db.appr[gate.id].kind = kind
          /\ db.appr[gate.id].subject = <<round, item>>
          /\ db.appr[gate.id].decision = "approved"
          /\ db.appr[gate.id].by = "user"
      BY <1>1, <1>3, <2>2, <2>3, Zenon DEF IInv, GatesOK, Unreleased
    <3>. QED
      BY <2>2, <3>1, <3>2, Zenon DEF Cleared, Unreleased, Approval
  <2>5. KindReleased(pc') = kind /\ pc' \in ReleasingActs
    BY <2>1, Zenon DEF KindReleased, ReleasingActs, IInv, TypeOK, Kind
  <2>6. JobOK(CurrentJob)'
    BY <1>1, <2>1, <2>4, <2>5, Zenon DEF JobOK, CurrentJob, Cleared, ReleasingActs
  <2>7. \A j \in late' :
          (j.act = "record_approval_decision" /\ j.isTimeout) =>
              j.id # gate'.id
    BY <1>1, <2>1, <2>3, Zenon DEF IInv, GatesOK
  <2>8. JobsOK'
    BY <1>1, <2>1, <2>6, <2>7, WithinGates, Zenon DEF JobsOK
  <2>9. GatesOK'
    BY <2>1, Zenon DEF GatesOK, Returned
  <2>. QED
    BY <1>1, <2>1, <2>8, <2>9, WithinGates, Zenon DEF IInv
<1>. QED
  BY <1>2, <1>3, Zenon

LEMMA WorkflowInv ==
    ASSUME IInv, WorkflowStep
    PROVE  IInv'
<1>1. Returned("create_approval") => res.id \in ApprovalId
  BY Zenon DEF IInv, GatesOK, Fresh, Unreleased
<1>2. TypeOK'
  BY <1>1, WorkflowTypes, Zenon DEF IInv
<1>. QED
  BY <1>2, PlainWorkflowStep, ApprovalCreatedInv, NotifiedInv, GateClosedInv,
     DecisionRecordedInv, Zenon DEF WorkflowStep

(***************************************************************************)
(* Transactions of attempts keep the invariant.                            *)
(***************************************************************************)

(* A timeout that may still overwrite an approval, and a job the approval   *)
(* released, never name the same approval.                                  *)
Apart(j, k) ==
    /\ (j.act \in ReleasingActs /\ k.act = "record_approval_decision"
        /\ k.isTimeout) => j.id # k.id
    /\ (k.act \in ReleasingActs /\ j.act = "record_approval_decision"
        /\ j.isTimeout) => j.id # k.id

(* The jobs under way: the late ones and the current one. *)
UnderWay(j) == j \in late \/ (InProgress /\ j = CurrentJob)

(* No job joins the late ones, up to the phase they are in. *)
NoneJoins ==
    \A l \in late' : \E m \in late :
        l.act = m.act /\ l.id = m.id /\ l.isTimeout = m.isTimeout

LEMMA JobsApart ==
    ASSUME IInv, NEW j, UnderWay(j), NEW k,
           k \in late \/ (pc \in Activity /\ k = CurrentJob)
    PROVE  Apart(j, k)
<1>1. \A l, m \in late : Apart(l, m)
  BY Zenon DEF IInv, JobsOK, JobOK, Apart
<1>2. pc \in Activity =>
        \A l \in late : Apart(l, CurrentJob) /\ Apart(CurrentJob, l)
  <2>1. CurrentJob.act = pc /\ CurrentJob.id = gate.id
    BY Zenon DEF CurrentJob
  <2>. QED
    BY <2>1, Zenon DEF IInv, JobsOK, JobOK, Apart
<1>3. Apart(CurrentJob, CurrentJob)
  BY Zenon DEF Apart, ReleasingActs
<1>. QED
  BY <1>1, <1>2, <1>3, Zenon DEF UnderWay, InProgress

(* What every job under way satisfies, so that PerformEffect applies. *)
LEMMA UnderWayOK ==
    ASSUME IInv, NEW j, UnderWay(j)
    PROVE  /\ j \in Job /\ JobOK(j)
           /\ j.act \in ReleasingActs => j.id \in ApprovalId
           /\ j.act = "record_approval_decision" =>
                 j.id \in ApprovalId /\ j.decision \in Decision \cup {"none"}
           /\ (j.act = "record_approval_decision" /\ j.phase = "mid") =>
                 j.isTimeout /\ j.decision \in Decision
<1>1. CurrentJob \in [act : Pc, phase : {"todo", "mid", "done"}, round : Nat,
                      kind : Kind, item : Nat, id : ApprovalId \cup {NoId},
                      decision : Decision \cup {"none"}, isTimeout : BOOLEAN]
  BY Zenon DEF CurrentJob, IInv, TypeOK, Gate
<1>2. InProgress => CurrentJob \in Job
  BY <1>1, Zenon DEF Job, InProgress, CurrentJob
<1>3. j \in Job
  BY <1>2, Zenon DEF UnderWay, IInv, TypeOK
<1>4. JobOK(j)
  BY Zenon DEF UnderWay, IInv, JobsOK, InProgress
<1>. QED
  BY <1>3, <1>4, Zenon DEF JobOK, Cleared, Job, Decision

(* Hence what one of its transactions does. *)
LEMMA UnderWayEffect ==
    ASSUME IInv, NEW j, UnderWay(j), NEW o, o \in Perform(j, db)
    PROVE  /\ db \in Store /\ o \in Outcomes /\ Effect(j, db, o)
           /\ (j.act = "record_approval_decision" /\ o.phase = "mid") =>
                  db.appr[j.id].decision = "none"
<1>1. db \in Store
  BY Zenon DEF IInv, TypeOK
<1>2. /\ j \in Job
      /\ j.act \in ReleasingActs => j.id \in ApprovalId
      /\ j.act = "record_approval_decision" => j.id \in ApprovalId
      /\ (j.act = "record_approval_decision" /\ j.phase = "mid") =>
             j.decision \in Decision
  BY UnderWayOK, Zenon
<1>. QED
  BY <1>1, <1>2, PerformEffect, Zenon

(* The fields of the record a release leaves, and of the row that cleared it. *)
LEMMA RunFields ==
    ASSUME NEW a, NEW k, NEW s
    PROVE  Run(a, k, s).id = a /\ Run(a, k, s).kind = k
           /\ Run(a, k, s).subject = s
BY Zenon DEF Run

LEMMA ClearedRow ==
    ASSUME NEW a, NEW k, NEW s, Cleared(a, k, s)
    PROVE  /\ a \in ApprovalId
           /\ db.appr[a].kind = k /\ db.appr[a].subject = s
           /\ db.appr[a].decision = "approved" /\ db.appr[a].by = "user"
BY DEF Cleared

LEMMA ClearedKept ==
    ASSUME NEW a, NEW k, NEW s, Cleared(a, k, s), db'.appr[a] = db.appr[a]
    PROVE  Cleared(a, k, s)'
BY Zenon DEF Cleared

(* A release names an approval, and none names one that is not approved. *)
LEMMA RanIds ==
    ASSUME db \in Store
    PROVE  \A r \in db.ran : r.id \in ApprovalId
BY Zenon DEF Store

LEMMA NothingRan ==
    ASSUME ExecutionApproved, NEW a, db.appr[a].decision # "approved"
    PROVE  \A r \in db.ran : r.id # a
BY Zenon DEF ExecutionApproved

(* Releases stay approved while the rows they name stay as they are. *)
LEMMA ReleasesKept ==
    ASSUME ExecutionApproved, db'.ran = db.ran,
           \A r \in db.ran : db'.appr[r.id] = db.appr[r.id]
    PROVE  ExecutionApproved'
BY Zenon DEF ExecutionApproved

(* Rows, signals and releases after a transaction of a job. *)
LEMMA EffectOnRows ==
    ASSUME IInv, NEW j, UnderWay(j), NEW o, Effect(j, db, o), db' = o.db
    PROVE  /\ RowsOK' /\ ExecutionApproved'
           /\ \A m \in Payload : SignalOK(m) => SignalOK(m)'
<1>1. /\ j \in Job /\ JobOK(j) /\ db \in Store
      /\ RowsOK /\ ExecutionApproved
  BY UnderWayOK, Zenon DEF IInv, TypeOK
<1>2. CASE Keeps(db, o)
  BY <1>1, <1>2 DEF Keeps, RowsOK, ExecutionApproved, SignalOK
<1>3. ASSUME NEW a \in ApprovalId, Inserts(j, db, o, a)
      PROVE  /\ RowsOK' /\ ExecutionApproved'
             /\ \A m \in Payload : SignalOK(m) => SignalOK(m)'
  <2>1. db.appr[a].decision = "none"
    BY <1>1, <1>3, Zenon DEF Inserts, RowsOK
  <2>2. \A b \in ApprovalId \ {a} : db'.appr[b] = db.appr[b]
    BY <1>1, <1>3, Zenon DEF Inserts, Store
  <2>3. db'.appr[a] = [kind |-> j.kind, subject |-> <<j.round, j.item>>,
                       decision |-> "none", by |-> "none"]
        /\ db'.ran = db.ran
    BY <1>1, <1>3, Zenon DEF Inserts, Store
  <2>4. db'.appr[a].decision = "none" /\ db'.appr[a].by = "none"
    BY <2>3
  <2>5. RowsOK'
    BY <1>1, <2>2, <2>4, Zenon DEF RowsOK
  <2>6. ExecutionApproved'
    <3>1. \A r \in db.ran : r.id \in ApprovalId \ {a}
      BY <1>1, <2>1, RanIds, NothingRan, Zenon
    <3>. QED
      BY <1>1, <2>2, <2>3, <3>1, ReleasesKept, Zenon
  <2>7. \A m \in Payload : SignalOK(m) => SignalOK(m)'
    BY <2>1, <2>2, Zenon DEF SignalOK, Payload
  <2>. QED
    BY <2>5, <2>6, <2>7, Zenon
<1>4. CASE /\ j.act = "record_approval_decision" /\ j.phase = "mid"
           /\ Overwrites(j, db, o)
  <2>1. /\ j.id \in ApprovalId /\ db.appr[j.id].kind # "absent"
        /\ j.decision = "denied" /\ \A r \in db.ran : r.id # j.id
    BY <1>1, <1>4, UnderWayOK, Zenon DEF JobOK
  <2>2. \A b \in ApprovalId \ {j.id} : db'.appr[b] = db.appr[b]
    BY <1>1, <1>4, Zenon DEF Overwrites, Store
  <2>3. /\ db'.appr[j.id].decision = "denied" /\ db'.appr[j.id].by = "system"
        /\ db'.appr[j.id].kind = db.appr[j.id].kind
        /\ db'.ran = db.ran
    BY <1>1, <1>4, <2>1 DEF Overwrites, Store
  <2>5. RowsOK'
    BY <1>1, <2>1, <2>2, <2>3 DEF RowsOK
  <2>6. ExecutionApproved'
    <3>1. \A r \in db.ran : r.id \in ApprovalId \ {j.id}
      BY <1>1, <2>1, RanIds, Zenon
    <3>. QED
      BY <1>1, <2>2, <2>3, <3>1, ReleasesKept, Zenon
  <2>7. \A m \in Payload : SignalOK(m) => SignalOK(m)'
    BY <2>2, <2>3, Zenon DEF SignalOK, Payload
  <2>. QED
    BY <2>5, <2>6, <2>7, Zenon
<1>5. CASE j.act \in ReleasingActs /\ Releases(j, db, o)
  <2>1. Cleared(j.id, KindReleased(j.act), <<j.round, j.item>>)
    BY <1>1, <1>5, Zenon DEF JobOK
  <2>2. db'.appr = db.appr
        /\ db'.ran = db.ran \cup {Run(j.id, KindReleased(j.act),
                                      <<j.round, j.item>>)}
    BY <1>5, Zenon DEF Releases
  <2>3. RowsOK' /\ \A m \in Payload : SignalOK(m) => SignalOK(m)'
    BY <1>1, <2>2, Zenon DEF RowsOK, SignalOK
  <2>4. ExecutionApproved'
    <3>1. PICK x : x = Run(j.id, KindReleased(j.act), <<j.round, j.item>>)
      BY Zenon
    <3>2. /\ db.appr[x.id].kind = x.kind /\ db.appr[x.id].subject = x.subject
          /\ db.appr[x.id].decision = "approved" /\ db.appr[x.id].by = "user"
      BY <2>1, <3>1, RunFields, ClearedRow
    <3>3. db'.ran = db.ran \cup {x}
      BY <2>2, <3>1, Zenon
    <3>. QED
      BY <1>1, <2>2, <3>2, <3>3, Zenon DEF ExecutionApproved
  <2>. QED
    BY <2>3, <2>4, Zenon
<1>. QED
  BY <1>2, <1>3, <1>4, <1>5, Zenon DEF Effect

(* The other jobs after a transaction of a job. *)
LEMMA JobKept ==
    ASSUME IInv, NEW j, UnderWay(j), NEW o, Effect(j, db, o), db' = o.db,
           NoneJoins, NEW k, JobOK(k), Apart(j, k)
    PROVE  JobOK(k)'
<1>1. j \in Job /\ JobOK(j) /\ db \in Store /\ RowsOK
  BY UnderWayOK, Zenon DEF IInv, TypeOK
<1>2. \A l \in late' : (k.act = "record_approval_decision" /\ k.isTimeout
                        /\ l.act \in ReleasingActs) => l.id # k.id
  BY Zenon DEF NoneJoins, JobOK
<1>3. CASE Keeps(db, o)
  BY <1>2, <1>3, Zenon DEF Keeps, JobOK, Cleared
<1>4. ASSUME NEW a \in ApprovalId, Inserts(j, db, o, a)
      PROVE  JobOK(k)'
  <2>1. db.appr[a].decision = "none" /\ db.appr[a].kind = "absent"
    BY <1>1, <1>4, Zenon DEF Inserts, RowsOK
  <2>2. \A b \in ApprovalId \ {a} : db'.appr[b] = db.appr[b]
    BY <1>1, <1>4, Zenon DEF Inserts, Store
  <2>3. db'.ran = db.ran
    BY <1>4, Zenon DEF Inserts
  <2>4. k.act \in ReleasingActs => k.id # a
    <3>1. k.act \in ReleasingActs =>
              Cleared(k.id, KindReleased(k.act), <<k.round, k.item>>)
      BY Zenon DEF JobOK
    <3>. QED
      BY <2>1, <3>1, ClearedRow, Zenon
  <2>5. k.act = "record_approval_decision" => k.id # a
    BY <2>1, Zenon DEF JobOK
  <2>. QED
    BY <1>2, <2>2, <2>3, <2>4, <2>5, Zenon DEF JobOK, Cleared
<1>5. CASE /\ j.act = "record_approval_decision" /\ j.phase = "mid"
           /\ Overwrites(j, db, o)
  <2>1. j.id \in ApprovalId /\ j.isTimeout /\ j.decision = "denied"
    BY <1>1, <1>5, UnderWayOK, Zenon DEF JobOK
  <2>2. \A b \in ApprovalId \ {j.id} : db'.appr[b] = db.appr[b]
    BY <1>1, <1>5, Zenon DEF Overwrites, Store
  <2>3. /\ db'.appr[j.id].decision = "denied"
        /\ db'.appr[j.id].kind = db.appr[j.id].kind
        /\ db'.ran = db.ran
    BY <1>1, <1>5, <2>1 DEF Overwrites, Store
  <2>4. k.act \in ReleasingActs => k.id # j.id
    BY <1>5, <2>1, Zenon DEF Apart
  <2>. QED
    BY <1>2, <2>2, <2>3, <2>4, Zenon DEF JobOK, Cleared
<1>6. CASE j.act \in ReleasingActs /\ Releases(j, db, o)
  <2>1. (k.act = "record_approval_decision" /\ k.isTimeout) => k.id # j.id
    BY <1>6, Zenon DEF Apart
  <2>2. /\ db'.appr = db.appr
        /\ \A r \in db'.ran : r \in db.ran \/ r.id = j.id
    BY <1>6 DEF Releases, Run
  <2>. QED
    BY <1>2, <2>1, <2>2, Zenon DEF JobOK, Cleared
<1>. QED
  BY <1>3, <1>4, <1>5, <1>6, Zenon DEF Effect

(* The approval of the gate after a transaction of a job that did not ask   *)
(* for it.                                                                  *)
LEMMA GateKept ==
    ASSUME IInv, NEW j, UnderWay(j), NEW o, Effect(j, db, o), db' = o.db,
           NoneJoins, UNCHANGED <<kind, round, item>>, NEW a, Unreleased(a),
           j.act \in ReleasingActs => j.id # a
    PROVE  /\ Unreleased(a)'
           /\ (Fresh(a) /\ (j.act = "record_approval_decision" => j.id # a))
                 => Fresh(a)'
           /\ (j.act # "record_approval_decision" \/ j.phase # "mid"
               \/ j.id # a) => db'.appr[a] = db.appr[a]
<1>1. j \in Job /\ JobOK(j) /\ db \in Store /\ kind \in Kind
  BY UnderWayOK, Zenon DEF IInv, TypeOK
<1>2. a \in ApprovalId /\ db.appr[a].kind \in Kind
  BY <1>1, Zenon DEF Unreleased
<1>3. \A r \in db'.ran : r.id # a
  <2>1. \/ db'.ran = db.ran
        \/ /\ j.act \in ReleasingActs
           /\ db'.ran = db.ran \cup {Run(j.id, KindReleased(j.act),
                                         <<j.round, j.item>>)}
    BY Zenon DEF Effect, Keeps, Inserts, Overwrites, Releases
  <2>2. \A r \in db'.ran :
          r \in db.ran \/ (j.act \in ReleasingActs /\ r.id = j.id)
    BY <2>1, RunFields
  <2>. QED
    BY <2>2, Zenon DEF Unreleased
<1>4. \A l \in late' : l.act \in ReleasingActs => l.id # a
  BY Zenon DEF NoneJoins, Unreleased
<1>5. \/ db'.appr[a] = db.appr[a]
      \/ /\ j.act = "record_approval_decision" /\ j.phase = "mid" /\ j.id = a
         /\ db'.appr[a].kind = db.appr[a].kind
         /\ db'.appr[a].subject = db.appr[a].subject
  <2>1. CASE Keeps(db, o)
    BY <2>1, Zenon DEF Keeps
  <2>2. ASSUME NEW b \in ApprovalId, Inserts(j, db, o, b)
        PROVE  db'.appr[a] = db.appr[a]
    BY <1>1, <1>2, <2>2, Zenon DEF Inserts, Store, Kind
  <2>3. CASE /\ j.act = "record_approval_decision" /\ j.phase = "mid"
             /\ Overwrites(j, db, o)
    BY <1>1, <1>2, <2>3 DEF Overwrites, Store
  <2>4. CASE Releases(j, db, o)
    BY <2>4, Zenon DEF Releases
  <2>. QED
    BY <2>1, <2>2, <2>3, <2>4, Zenon DEF Effect
<1>6. Unreleased(a)'
  BY <1>3, <1>4, <1>5, Zenon DEF Unreleased
<1>7. (Fresh(a) /\ (j.act = "record_approval_decision" => j.id # a))
          => Fresh(a)'
  BY <1>5, <1>6, Zenon DEF Fresh, NoneJoins
<1>. QED
  BY <1>5, <1>6, <1>7, Zenon

(***************************************************************************)
(* The dashboard and the other signals.                                    *)
(***************************************************************************)

LEMMA CommitDecisionInv ==
    ASSUME IInv, CommitDecision
    PROVE  IInv'
<1>1. PICK a \in checked, d \in Decision :
         /\ Undecided(db, a)
         /\ db' = DecideApprovalAtomic(db, a, d)
         /\ net' = net \cup {[id |-> a, decision |-> d]}
  BY Zenon DEF CommitDecision
<1>2. UNCHANGED <<taskVars, signalVars, statusVars, loopVars, itemVars,
                  expired, late, checked, faults>>
  BY Zenon DEF CommitDecision
<1>3. /\ a \in ApprovalId /\ db.appr[a] \in Approval /\ d \in Decision
      /\ db.appr[a].decision = "none" /\ db.appr[a].kind # "absent"
      /\ db \in Store
  BY <1>1, Zenon DEF Undecided, IInv, TypeOK, Store
<1>. DEFINE row == [kind |-> db.appr[a].kind, subject |-> db.appr[a].subject,
                    decision |-> d, by |-> "user"]
<1>4. row \in Approval
  BY <1>3, Zenon DEF Approval
<1>5. db'.appr = [db.appr EXCEPT ![a] = row] /\ db'.ran = db.ran
  BY <1>1, <1>3 DEF DecideApprovalAtomic, Store, Approval
<1>6. db' \in Store
  <2>1. db'.appr \in [ApprovalId -> Approval]
    BY <1>3, <1>4, <1>5 DEF Store
  <2>. QED
    BY <1>1, <1>3, <2>1, Zenon DEF DecideApprovalAtomic, Store
<1>7. /\ db'.appr[a].decision = d /\ db'.appr[a].by = "user" /\ d # "none"
      /\ db'.appr[a].kind = db.appr[a].kind
      /\ db'.appr[a].subject = db.appr[a].subject
      /\ \A b \in ApprovalId \ {a} : db'.appr[b] = db.appr[b]
  BY <1>3, <1>5 DEF Store, Decision
<1>8. TypeOK'
  <2>1. net' \subseteq Payload
    <3>1. [id |-> a, decision |-> d] \in Payload
      BY <1>3, Zenon DEF Payload
    <3>2. net \subseteq Payload
      BY Zenon DEF IInv, TypeOK
    <3>. QED
      BY <1>1, <3>1, <3>2, Zenon
  <2>. QED
    BY <1>2, <1>6, <2>1
    DEF IInv, TypeOK, taskVars, signalVars, statusVars, loopVars, itemVars
<1>9. RowsOK' /\ ExecutionApproved'
  <2>1. RowsOK /\ ExecutionApproved
    BY Zenon DEF IInv
  <2>2. RowsOK'
    BY <1>3, <1>7, <2>1, Zenon DEF RowsOK
  <2>3. \A r \in db.ran : r.id \in ApprovalId \ {a}
    BY <1>3, <2>1, RanIds, NothingRan, Zenon
  <2>4. ExecutionApproved'
    BY <1>5, <1>7, <2>1, <2>3, ReleasesKept, Zenon
  <2>. QED
    BY <2>2, <2>4, Zenon
<1>10. SignalsOK'
  <2>1. \A m \in Payload : SignalOK(m) => SignalOK(m)'
    BY <1>3, <1>7, Zenon DEF SignalOK, Payload
  <2>2. \A m \in net' : SignalOK(m)'
    <3>1. \A m \in net : SignalOK(m)'
      BY <2>1, Zenon DEF IInv, TypeOK, SignalsOK
    <3>2. \A m : (m.id = a /\ m.decision = d) => SignalOK(m)'
      BY <1>7, Zenon DEF SignalOK
    <3>. QED
      BY <1>1, <3>1, <3>2, Zenon
  <2>3. decision' # NoPayload => SignalOK(decision)'
    BY <1>2, <2>1, Zenon DEF IInv, TypeOK, SignalsOK, signalVars
  <2>. QED
    BY <2>2, <2>3, Zenon DEF SignalsOK
<1>11. JobsOK'
  <2>1. \A j : JobOK(j) => JobOK(j)'
    <3>1. \A x, y, z : Cleared(x, y, z) => Cleared(x, y, z)'
      BY <1>3, <1>7, ClearedRow, ClearedKept, SMTT(30)
    <3>2. \A x \in ApprovalId :
             /\ db'.appr[x].kind = db.appr[x].kind
             /\ db.appr[x].decision # "none" => db'.appr[x].decision # "none"
      BY <1>3, <1>7, Zenon
    <3>. QED
      BY <1>2, <1>5, <3>1, <3>2, Zenon DEF JobOK
  <2>2. CurrentJob' = CurrentJob
    BY <1>2, Zenon DEF CurrentJob, taskVars, loopVars, itemVars
  <2>. QED
    BY <1>2, <2>1, <2>2, Zenon DEF IInv, JobsOK, taskVars, itemVars
<1>12. GatesOK'
  <2>1. \A b : (Fresh(b) => Fresh(b)') /\ (Unreleased(b) => Unreleased(b)')
    BY <1>2, <1>5, <1>7, Zenon DEF Fresh, Unreleased, loopVars, itemVars
  <2>2. (pc = "record_approval_decision" /\ ~gate.isTimeout) =>
            db'.appr[gate.id] = db.appr[gate.id]
    BY <1>3, <1>7, Zenon DEF IInv, GatesOK, Unreleased
  <2>. QED
    BY <1>2, <2>1, <2>2, Zenon
    DEF IInv, GatesOK, Returned, taskVars, statusVars, itemVars
<1>. QED
  BY <1>8, <1>9, <1>10, <1>11, <1>12, Zenon DEF IInv

LEMMA DeliverDecisionInv ==
    ASSUME IInv, DeliverDecision
    PROVE  IInv'
<1>1. PICK m \in net : ApprovalDecided(m) /\ net' \in {net, net \ {m}}
  BY Zenon DEF DeliverDecision
<1>2. net' \subseteq net /\ decision' \in {decision} \cup net
  BY <1>1, Zenon DEF ApprovalDecided
<1>3. TypeOK'
  BY <1>2, SMTT(30)
  DEF DeliverDecision, IInv, TypeOK, taskVars, statusVars, loopVars, itemVars
<1>. QED
  BY <1>2, <1>3, WorkflowStays, Zenon DEF DeliverDecision

(* Operators' signals, the dashboard's check, the clock, and stuttering. *)
LEMMA IdleInv ==
    ASSUME IInv,
           \/ SignalStep \/ CheckDecision \/ DeadlinePasses \/ UNCHANGED vars
    PROVE  IInv'
<1>1. TypeOK'
  BY Zenon DEF SignalStep, Pause, Resume, Abort, AdjustBudget, CheckDecision,
         DeadlinePasses, vars, IInv, TypeOK, taskVars, signalVars, statusVars,
         loopVars, itemVars, storeVars
<1>2. /\ UNCHANGED <<db, late, taskVars, statusVars, loopVars, itemVars>>
      /\ net' \subseteq net /\ decision' \in {decision} \cup net
  BY Zenon DEF SignalStep, Pause, Resume, Abort, AdjustBudget, CheckDecision,
         DeadlinePasses, vars, signalVars, storeVars
<1>. QED
  BY <1>1, <1>2, WorkflowStays, Zenon

(***************************************************************************)
(* The inductive invariant holds initially.                                *)
(***************************************************************************)

LEMMA InitInv == Init => IInv
<1>. SUFFICES ASSUME Init PROVE IInv
  BY Zenon
<1>. USE CaseStoreAssumption, InvestigationAssumption
<1>1. NoApproval \in Approval
  BY Zenon DEF NoApproval, Approval, Subject
<1>2. InitStore \in Store
  BY <1>1, Zenon DEF InitStore, Store, Status, NonTerminal
<1>3. TypeOK
  <2>1. pc \in Pc /\ attempt \in 0..(MaxAttempts - 1) /\ res \in Result
        /\ faults \in 0..MaxFaults
    <3>1. NoResult \in Result
      BY Results, Zenon
    <3>. QED
      BY <3>1 DEF Init, Pc, Activity
  <2>2. status \in Status /\ reason \in Reason /\ outcome \in Outcome
        /\ kind \in Kind /\ phase \in {"todo", "mid", "done"}
    BY Zenon DEF Init, Status, NonTerminal, Reason, Outcome, Kind
  <2>3. gate \in Gate
    BY Zenon DEF Init, NoGate, Gate
  <2>4. paused \in BOOLEAN /\ aborted \in BOOLEAN /\ executedAny \in BOOLEAN
        /\ expired \in BOOLEAN
    BY Zenon DEF Init
  <2>5. /\ override \in Overrides \cup {NoOverride}
        /\ decision \in Payload \cup {NoPayload}
        /\ awaiting \in ApprovalId \cup {NoId}
    BY Zenon DEF Init
  <2>6. /\ round \in Nat /\ last \in Int /\ budget \in [BudgetKeys -> Int]
        /\ spent \in Nat /\ item \in Nat /\ items \in Nat
    BY DEF Init
  <2>7. db \in Store /\ late \subseteq Job /\ checked \subseteq ApprovalId
        /\ net \subseteq Payload
    BY <1>2, Zenon DEF Init
  <2>. QED
    BY <2>1, <2>2, <2>3, <2>4, <2>5, <2>6, <2>7, Zenon DEF TypeOK
<1>4. \A a \in ApprovalId : db.appr[a] = NoApproval
  BY Zenon DEF Init, InitStore
<1>5. db.ran = {} /\ late = {} /\ net = {} /\ decision = NoPayload
      /\ pc = "create_case"
  BY Zenon DEF Init, InitStore
<1>6. RowsOK /\ SignalsOK /\ ExecutionApproved
  BY <1>4, <1>5, SMTT(30) DEF RowsOK, NoApproval, SignalsOK, ExecutionApproved
<1>7. JobsOK /\ GatesOK
  BY <1>5, Zenon DEF JobsOK, JobOK, CurrentJob, ReleasingActs, GatesOK, Returned
<1>. QED
  BY <1>3, <1>6, <1>7, Zenon DEF IInv

(***************************************************************************)
(* The steps of the activities' attempts.                                  *)
(***************************************************************************)

LEMMA AttemptStepInv ==
    ASSUME IInv, AttemptStep
    PROVE  IInv'
<1>0. PICK j : j = CurrentJob
  BY Zenon
<1>1. PICK o \in Perform(j, db) : db' = o.db /\ phase' = o.phase /\ res' = o.res
  BY <1>0, Zenon DEF AttemptStep
<1>2. /\ UNCHANGED <<pc, attempt, signalVars, statusVars, loopVars, itemVars,
                     expired, late, checked, net, faults>>
      /\ InProgress /\ UnderWay(j) /\ NoneJoins
      /\ j.act = pc /\ j.phase = phase /\ j.id = gate.id
  BY <1>0, Zenon DEF AttemptStep, UnderWay, NoneJoins, CurrentJob
<1>3. /\ o \in Outcomes /\ Effect(j, db, o)
      /\ (pc = "record_approval_decision" /\ o.phase = "mid") =>
             db.appr[gate.id].decision = "none"
  BY <1>2, UnderWayEffect, Zenon
<1>4. TypeOK'
  BY <1>1, <1>2, <1>3, Zenon
  DEF IInv, TypeOK, Outcomes, signalVars, statusVars, loopVars, itemVars
<1>5. RowsOK' /\ ExecutionApproved' /\ SignalsOK'
  <2>1. net \subseteq Payload /\ decision \in Payload \cup {NoPayload}
    BY Zenon DEF IInv, TypeOK
  <2>. QED
    BY <1>1, <1>2, <1>3, <2>1, EffectOnRows, Zenon DEF IInv, SignalsOK, signalVars
<1>6. JobsOK'
  <2>1. \A k : (k \in late \/ k = j) => JobOK(k)'
    <3>1. \A k : (k \in late \/ k = j) => JobOK(k) /\ Apart(j, k)
      BY <1>0, <1>2, JobsApart, UnderWayOK, Zenon DEF UnderWay, IInv, JobsOK, InProgress
    <3>. QED
      BY <1>1, <1>2, <1>3, <3>1, JobKept, Zenon
  <2>2. JobOK(CurrentJob)'
    <3>1. /\ CurrentJob'.act = j.act /\ CurrentJob'.round = j.round
          /\ CurrentJob'.item = j.item /\ CurrentJob'.id = j.id
          /\ CurrentJob'.decision = j.decision
          /\ CurrentJob'.isTimeout = j.isTimeout /\ CurrentJob'.phase = o.phase
      BY <1>0, <1>1, <1>2, Zenon DEF CurrentJob, loopVars, itemVars
    <3>2. JobOK(j)'
      BY <2>1, Zenon
    <3>3. (pc = "record_approval_decision" /\ ~j.isTimeout) => o.phase # "mid"
      BY <1>2, <1>3, UnderWayOK, Zenon DEF JobOK
    <3>. QED
      BY <1>2, <3>1, <3>2, <3>3, Zenon DEF JobOK, Cleared
  <2>. QED
    BY <1>2, <2>1, <2>2, Zenon DEF JobsOK, IInv, itemVars
<1>7. GatesOK'
  <2>1. CASE pc = "create_approval"
    <3>1. PICK a \in ApprovalId : Inserts(j, db, o, a)
      BY <1>2, <1>3, <2>1, Zenon DEF Effect, ReleasingActs
    <3>2. /\ db.appr[a].kind = "absent" /\ res'.id = a /\ db'.ran = db.ran
          /\ db'.appr[a] = [kind |-> kind, subject |-> <<round, item>>,
                            decision |-> "none", by |-> "none"]
      BY <1>0, <1>1, <3>1, Zenon DEF Inserts, IInv, TypeOK, Store, CurrentJob
    <3>3. \A r \in db.ran : r.id # a
      <4>1. db.appr[a].decision = "none" /\ ExecutionApproved
        BY <3>2, Zenon DEF IInv, RowsOK
      <4>. QED
        BY <4>1, NothingRan, Zenon
    <3>4. \A k \in late :
            k.act \in ReleasingActs \cup {"record_approval_decision"} =>
                k.id # a
      <4>1. \A k \in late : k.act \in ReleasingActs =>
                Cleared(k.id, KindReleased(k.act), <<k.round, k.item>>)
        BY Zenon DEF IInv, JobsOK, JobOK
      <4>2. \A k \in late : k.act = "record_approval_decision" =>
                db.appr[k.id].kind # "absent"
        BY Zenon DEF IInv, JobsOK, JobOK
      <4>3. \A k \in late : k.act \in ReleasingActs =>
                db.appr[k.id].kind = KindReleased(k.act)
        <5>1. \A x, y, z : Cleared(x, y, z) => db.appr[x].kind = y
          BY DEF Cleared
        <5>. QED
          BY <4>1, <5>1, Zenon
      <4>4. \A x : KindReleased(x) # "absent"
        BY Zenon DEF KindReleased
      <4>. QED
        BY <3>2, <4>2, <4>3, <4>4, Zenon
    <3>5. Fresh(a)'
      <4>1. UNCHANGED <<kind, round, item>> /\ late' = late
        BY <1>2, Zenon DEF loopVars, itemVars
      <4>2. /\ db'.appr[a].kind = kind /\ db'.appr[a].subject = <<round, item>>
            /\ db'.appr[a].by = "none" /\ db'.ran = db.ran
        BY <3>2
      <4>3. Unreleased(a)'
        BY <3>3, <3>4, <4>1, <4>2, Zenon DEF Unreleased
      <4>. QED
        BY <3>4, <4>1, <4>2, <4>3, Zenon DEF Fresh
    <3>. QED
      BY <1>2, <2>1, <3>2, <3>5, Zenon DEF GatesOK, Returned
  <2>2. CASE pc = "send_notifications"
    <3>1. status \notin Terminal => Fresh(gate.id)
      BY <2>2, Zenon DEF IInv, GatesOK
    <3>2. status \notin Terminal => Fresh(gate.id)'
      <4>1. UNCHANGED <<kind, round, item>> /\ gate' = gate
        BY <1>2, Zenon DEF loopVars, itemVars
      <4>2. j.act \notin ReleasingActs /\ j.act # "record_approval_decision"
        BY <1>2, <2>2, Zenon DEF ReleasingActs
      <4>3. \A a : Fresh(a) => Unreleased(a)
        BY Zenon DEF Fresh
      <4>4. \A a : Fresh(a) => Fresh(a)'
        BY <1>1, <1>2, <1>3, <4>1, <4>2, <4>3, GateKept, Zenon
      <4>. QED
        BY <3>1, <4>1, <4>4, Zenon
    <3>. QED
      BY <1>2, <2>2, <3>2, Zenon DEF GatesOK, Returned, statusVars, itemVars
  <2>3. CASE pc = "record_approval_decision"
    <3>1. Unreleased(gate.id) /\ pc \notin ReleasingActs
      BY <2>3, Zenon DEF IInv, GatesOK, ReleasingActs
    <3>2. /\ Unreleased(gate.id)'
          /\ phase # "mid" => db'.appr[gate.id] = db.appr[gate.id]
      BY <1>1, <1>2, <1>3, <3>1, GateKept, Zenon DEF loopVars, itemVars
    <3>3. ~gate.isTimeout => phase # "mid"
      <4>1. j.isTimeout = gate.isTimeout
        BY <1>0, Zenon DEF CurrentJob
      <4>2. j.phase = "mid" => j.isTimeout
        BY <1>2, <2>3, UnderWayOK, Zenon
      <4>. QED
        BY <1>2, <4>1, <4>2, Zenon
    <3>. QED
      BY <1>2, <2>3, <3>2, <3>3, Zenon DEF GatesOK, Returned, IInv, itemVars
  <2>4. CASE pc \notin {"create_approval", "send_notifications",
                        "record_approval_decision"}
    BY <1>2, <2>4, Zenon DEF GatesOK, Returned, InProgress, Activity
  <2>. QED
    BY <2>1, <2>2, <2>3, <2>4, Zenon
<1>. QED
  BY <1>4, <1>5, <1>6, <1>7, Zenon DEF IInv

LEMMA LateStepInv ==
    ASSUME IInv, LateStep
    PROVE  IInv'
<1>0. PICK j \in late : \E o \in Perform(j, db) :
         /\ db' = o.db
         /\ late' = (late \ {j}) \cup
                    (IF o.phase = "mid" THEN {[j EXCEPT !.phase = "mid"]}
                                        ELSE {})
  BY Zenon DEF LateStep
<1>1. PICK o \in Perform(j, db) :
         /\ db' = o.db
         /\ late' = (late \ {j}) \cup
                    (IF o.phase = "mid" THEN {[j EXCEPT !.phase = "mid"]}
                                        ELSE {})
  BY <1>0, Zenon
<1>2. /\ UNCHANGED <<taskVars, signalVars, statusVars, loopVars, itemVars,
                     expired, checked, net, faults>>
      /\ UnderWay(j) /\ j \in Job
  BY UnderWayOK, Zenon DEF LateStep, UnderWay
<1>3. /\ o \in Outcomes /\ Effect(j, db, o)
      /\ (j.act = "record_approval_decision" /\ o.phase = "mid") =>
             db.appr[j.id].decision = "none"
  BY <1>2, UnderWayEffect, Zenon
<1>. DEFINE n == [j EXCEPT !.phase = "mid"]
<1>4. /\ n \in Job /\ n.act = j.act /\ n.id = j.id /\ n.phase = "mid"
      /\ n.isTimeout = j.isTimeout /\ n.decision = j.decision
      /\ n.round = j.round /\ n.item = j.item
  BY <1>2, Zenon DEF Job
<1>5. \A l \in late' : l \in late \/ (l = n /\ o.phase = "mid")
  BY <1>1, Zenon
<1>. HIDE DEF n
<1>6. NoneJoins
  BY <1>4, <1>5, Zenon DEF NoneJoins
<1>7. TypeOK'
  <2>1. late' \subseteq Job /\ db' \in Store
    BY <1>1, <1>3, <1>4, <1>5, Zenon DEF IInv, TypeOK, Outcomes
  <2>. QED
    BY <1>2, <2>1, Zenon
    DEF IInv, TypeOK, taskVars, signalVars, statusVars, loopVars, itemVars
<1>8. RowsOK' /\ ExecutionApproved' /\ SignalsOK'
  <2>1. net \subseteq Payload /\ decision \in Payload \cup {NoPayload}
    BY Zenon DEF IInv, TypeOK
  <2>. QED
    BY <1>1, <1>2, <1>3, <2>1, EffectOnRows, Zenon DEF IInv, SignalsOK, signalVars
<1>9. JobsOK'
  <2>1. \A k : (k \in late \/ (pc \in Activity /\ k = CurrentJob)) => JobOK(k)'
    <3>1. \A k : (k \in late \/ (pc \in Activity /\ k = CurrentJob)) =>
                     JobOK(k) /\ Apart(j, k)
      BY <1>2, JobsApart, Zenon DEF IInv, JobsOK
    <3>. QED
      BY <1>1, <1>2, <1>3, <1>6, <3>1, JobKept, Zenon
  <2>2. o.phase = "mid" => JobOK(n)'
    <3>1. JobOK(j)' /\ JobOK(j)
      BY <1>1, <2>1, Zenon DEF IInv, JobsOK
    <3>2. (j.act = "record_approval_decision" /\ ~j.isTimeout) =>
              o.phase # "mid"
      BY <1>3, <3>1, Zenon DEF JobOK
    <3>. QED
      BY <1>4, <3>1, <3>2, Zenon DEF JobOK, Cleared
  <2>3. \A k \in late' : JobOK(k)'
    BY <1>5, <2>1, <2>2, Zenon
  <2>4. CurrentJob' = CurrentJob /\ pc' = pc /\ gate' = gate
    BY <1>2, Zenon DEF CurrentJob, taskVars, loopVars, itemVars
  <2>5. pc' \in Activity => JobOK(CurrentJob)'
    BY <2>1, <2>4, Zenon
  <2>6. pc' \in ReleasingActs =>
          \A k \in late' :
              (k.act = "record_approval_decision" /\ k.isTimeout) =>
                  k.id # gate'.id
    BY <1>4, <1>5, <2>4, Zenon DEF IInv, JobsOK
  <2>. QED
    BY <2>3, <2>5, <2>6, Zenon DEF JobsOK
<1>10. GatesOK'
  <2>1. UNCHANGED <<pc, phase, res, gate, status, kind, round, item>>
    BY <1>2, Zenon DEF taskVars, statusVars, loopVars, itemVars
  <2>2. \A a : Fresh(a) => Fresh(a)'
    BY <1>1, <1>2, <1>3, <1>6, <2>1, GateKept DEF Fresh, Unreleased
  <2>3. CASE pc = "record_approval_decision"
    <3>1. Unreleased(gate.id) /\ JobOK(j)
      BY <2>3, UnderWayOK, <1>2, Zenon DEF IInv, GatesOK
    <3>2. /\ Unreleased(gate.id)'
          /\ (j.act # "record_approval_decision" \/ j.phase # "mid"
              \/ j.id # gate.id) => db'.appr[gate.id] = db.appr[gate.id]
      BY <1>1, <1>2, <1>3, <1>6, <2>1, <3>1, GateKept DEF Unreleased
    <3>3. \A l \in late' :
            (l.act = "record_approval_decision" /\ l.id = gate.id) =>
                l.isTimeout = gate.isTimeout
      BY <1>1, <1>4, <1>5, <2>3 DEF IInv, GatesOK
    <3>4. (j.act = "record_approval_decision" /\ j.phase = "mid"
           /\ j.id = gate.id) => gate.isTimeout
      BY <1>2, <2>3, UnderWayOK, Zenon DEF IInv, GatesOK
    <3>. QED
      BY <2>1, <2>3, <3>2, <3>3, <3>4, Zenon DEF GatesOK, Returned, IInv
  <2>4. CASE pc # "record_approval_decision"
    BY <2>1, <2>2, <2>4, Zenon DEF GatesOK, Returned, IInv
  <2>. QED
    BY <2>3, <2>4, Zenon
<1>. QED
  BY <1>7, <1>8, <1>9, <1>10, Zenon DEF IInv

(***************************************************************************)
(* An attempt that raises or is given up.                                  *)
(***************************************************************************)

LEMMA RetryInv ==
    ASSUME IInv, InProgress, NextAttempt,
           late' = late \/ late' = late \cup {CurrentJob},
           faults' \in 0..MaxFaults,
           UNCHANGED <<res, signalVars, statusVars, loopVars, itemVars,
                       expired, db, checked, net>>
    PROVE  IInv'
<1>1. PICK j : j = CurrentJob
  BY Zenon
<1>2. /\ j \in Job /\ JobOK(j) /\ UnderWay(j)
      /\ j.act = pc /\ j.id = gate.id /\ j.isTimeout = gate.isTimeout
  <2>1. UnderWay(j)
    BY <1>1, Zenon DEF UnderWay
  <2>. QED
    BY <1>1, <2>1, UnderWayOK, Zenon DEF CurrentJob
<1>3. \A l \in late' : l \in late \/ l = j
  BY <1>1, Zenon
<1>4. \/ pc' = pc /\ phase' = "todo"
      \/ pc' = "failed" /\ phase' = "todo"
      \/ pc' = pc /\ pc = "send_notifications" /\ phase' = "done"
  BY Zenon DEF NextAttempt
<1>5. TypeOK'
  <2>1. attempt' \in 0..(MaxAttempts - 1)
    BY InvestigationAssumption, SMTT(30) DEF NextAttempt, Attempts, IInv, TypeOK
  <2>2. pc' \in Pc /\ phase' \in {"todo", "mid", "done"}
    BY <1>4, Zenon DEF IInv, TypeOK, Pc, Ended
  <2>3. late' \subseteq Job
    BY <1>2, <1>3, Zenon DEF IInv, TypeOK
  <2>. QED
    BY <2>1, <2>2, <2>3, Zenon
    DEF IInv, TypeOK, signalVars, statusVars, loopVars, itemVars
<1>6. RowsOK' /\ ExecutionApproved' /\ SignalsOK'
  BY Zenon DEF IInv, RowsOK, ExecutionApproved, SignalsOK, SignalOK, signalVars
<1>7. JobsOK'
  <2>1. \A k : (k \in late \/ k = j) => JobOK(k)'
    <3>1. \A k : (k \in late \/ k = j) => JobOK(k) /\ Apart(j, k)
      BY <1>1, <1>2, JobsApart, Zenon DEF IInv, JobsOK, InProgress
    <3>. QED
      BY <1>2, <1>3, <3>1 DEF JobOK, Cleared, Apart
  <2>2. pc' = pc => JobOK(CurrentJob)'
    <3>1. JobOK(j)'
      BY <2>1, Zenon
    <3>2. pc' = pc =>
          /\ CurrentJob'.act = j.act /\ CurrentJob'.round = j.round
          /\ CurrentJob'.item = j.item /\ CurrentJob'.id = j.id
          /\ CurrentJob'.decision = j.decision
          /\ CurrentJob'.isTimeout = j.isTimeout
          /\ CurrentJob'.phase # "mid"
      BY <1>1, <1>4, Zenon DEF CurrentJob, loopVars, itemVars
    <3>. QED
      BY <3>1, <3>2, Zenon DEF JobOK, Cleared
  <2>3. pc' \in ReleasingActs =>
          \A l \in late' :
              (l.act = "record_approval_decision" /\ l.isTimeout) =>
                  l.id # gate'.id
    BY <1>2, <1>3, <1>4, Zenon DEF IInv, JobsOK, itemVars, ReleasingActs
  <2>. QED
    BY <1>3, <1>4, <2>1, <2>2, <2>3, Zenon DEF JobsOK, Activity
<1>8. GatesOK'
  <2>1. CASE pc' = "send_notifications"
    <3>1. pc = "send_notifications"
      BY <1>4, <2>1, Zenon
    <3>2. Fresh(gate.id) => Fresh(gate.id)'
      BY <1>2, <1>3, <3>1, Zenon DEF Fresh, Unreleased, ReleasingActs, loopVars,
                              itemVars
    <3>. QED
      BY <2>1, <3>1, <3>2, Zenon DEF IInv, GatesOK, Returned, statusVars
  <2>2. CASE pc' = "record_approval_decision"
    <3>1. pc = "record_approval_decision"
      BY <1>4, <2>2, Zenon
    <3>2. Unreleased(gate.id)'
      BY <1>2, <1>3, <3>1, Zenon DEF IInv, GatesOK, Unreleased, ReleasingActs,
                              loopVars, itemVars
    <3>3. \A l \in late' :
            (l.act = "record_approval_decision" /\ l.id = gate'.id) =>
                l.isTimeout = gate'.isTimeout
      BY <1>2, <1>3, <3>1, Zenon DEF IInv, GatesOK, itemVars
    <3>. QED
      BY <2>2, <3>1, <3>2, <3>3, Zenon DEF IInv, GatesOK, Returned, itemVars
  <2>3. CASE pc' \notin {"send_notifications", "record_approval_decision"}
    BY <1>4, <2>3, Zenon DEF GatesOK, Returned, InProgress, Activity
  <2>. QED
    BY <2>1, <2>2, <2>3, Zenon
<1>. QED
  BY <1>5, <1>6, <1>7, <1>8, Zenon DEF IInv

LEMMA WorkerInv ==
    ASSUME IInv, WorkerStep
    PROVE  IInv'
<1>1. CASE AttemptRaises
  <2>1. faults' \in 0..MaxFaults /\ late' = late
    BY <1>1, Zenon DEF AttemptRaises, storeVars, IInv, TypeOK
  <2>. QED
    BY <1>1, <2>1, RetryInv, Zenon DEF AttemptRaises, storeVars
<1>2. CASE AttemptGivenUp
  <2>1. faults' \in 0..MaxFaults
    BY <1>2, InvestigationAssumption DEF AttemptGivenUp, IInv, TypeOK
  <2>. QED
    BY <1>2, <2>1, RetryInv, Zenon DEF AttemptGivenUp
<1>. QED
  BY <1>1, <1>2, AttemptStepInv, LateStepInv, Zenon DEF WorkerStep

LEMMA NextInv == IInv /\ [Next]_vars => IInv'
<1>. SUFFICES ASSUME IInv, [Next]_vars PROVE IInv'
  BY Zenon
<1>. QED
  BY WorkflowInv, WorkerInv, CommitDecisionInv, DeliverDecisionInv, IdleInv, Zenon
  DEF Next, DashboardStep, WorkflowOver

(***************************************************************************)
(* The results.                                                            *)
(***************************************************************************)

(* The inductive invariant holds throughout. *)
THEOREM Invariance == Spec => []IInv
BY InitInv, NextInv, PTL DEF Spec

(* Every variable of the workflow, its worker and its store stays in its    *)
(* domain: no activity returns, and no handler stores, anything else.       *)
THEOREM TypeCorrect == Spec => []TypeOK
<1>1. IInv => TypeOK
  BY Zenon DEF IInv
<1>. QED
  BY <1>1, Invariance, PTL

(* Whatever run_raw_command and execute_playbook ask the probe to run, a    *)
(* user approved, for any number of rounds, gates, retries, lost attempts   *)
(* and repeated signals.                                                    *)
THEOREM ExecutionsAreApproved == Spec => []ExecutionApproved
<1>1. IInv => ExecutionApproved
  BY Zenon DEF IInv
<1>. QED
  BY <1>1, Invariance, PTL
=============================================================================
