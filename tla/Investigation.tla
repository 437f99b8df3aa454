--------------------------- MODULE Investigation ---------------------------
(***************************************************************************)
(* InvestigationWorkflow, the activities it awaits, and the dashboard that *)
(* signals it.                                                             *)
(*                                                                         *)
(* The workflow is sequential: pc names what it awaits, an activity by the *)
(* activity's own name.  The code between two awaits is one action; signal *)
(* handlers run between such actions.  An activity is attempted by some    *)
(* worker; an attempt that times out or loses its worker is retried, and   *)
(* may still commit later, while its successor runs or after the case is   *)
(* closed.  The dashboard commits a human's decision in one transaction    *)
(* and signals the workflow afterwards.                                    *)
(***************************************************************************)
EXTENDS CaseStore

CONSTANTS
    Budget,       \* case.budget: [max_rounds, max_cost_usd]
    Signals,      \* the control signals an operator sends
    Overrides,    \* the budgets an operator may send with adjust_budget
    MaxAttempts,  \* _DEFAULT_RETRY.maximum_attempts
    MaxFaults     \* bound: attempts that are lost or time out

BudgetKeys == {"max_rounds", "max_cost_usd"}

ASSUME InvestigationAssumption ==
    /\ Budget \in [BudgetKeys -> Int]
    /\ \A o \in Overrides : \A k \in DOMAIN o \cap BudgetKeys : o[k] \in Int
    /\ MaxAttempts \in Nat \ {0}
    /\ MaxFaults \in Nat
    /\ Signals \subseteq {"pause", "resume", "abort", "adjust_budget"}

VARIABLES
    \* the activity being awaited
    pc, phase, attempt, res,
    \* attributes of the workflow object
    paused, aborted, override, decision, awaiting, status, reason,
    \* locals of run() and _request_approval()
    round, last, budget, spent, outcome, kind, item, items, executedAny, gate,
    \* the deadline has passed
    expired,
    \* database, attempts given up that still run, dashboard requests past
    \* the terminal check, signals under way, faults so far
    db, late, checked, net, faults

taskVars == <<pc, phase, attempt, res>>
signalVars == <<paused, aborted, override, decision>>
statusVars == <<awaiting, status, reason>>
loopVars == <<round, last, budget, spent, outcome>>
itemVars == <<kind, item, items, executedAny, gate>>
storeVars == <<db, late, checked, net, faults>>
vars == <<taskVars, signalVars, statusVars, loopVars, itemVars, expired,
          storeVars>>

Activity == {"create_case", "reject_case", "plan_initial", "get_spend",
             "collect", "analyze", "record_iteration",
             "static_validate_raw_command", "create_approval",
             "send_notifications", "record_approval_decision",
             "run_raw_command", "plan_next", "plan_remediation",
             "execute_playbook", "verify_fix", "close_with_summary",
             "close_resolved", "to_needs_human"}
Ended == {"done", "failed"}
Pc == Activity \cup Ended \cup {"round_top", "await_decision", "settle"}

Payload == [id : ApprovalId, decision : Decision]
NoPayload == [id |-> NoId, decision |-> "none"]
NoOverride == <<>>
Gate == [id : ApprovalId \cup {NoId}, decision : Decision \cup {"none"},
         isTimeout : BOOLEAN]
NoGate == [id |-> NoId, decision |-> "none", isTimeout |-> FALSE]

(***************************************************************************)
(* Activity attempts.                                                      *)
(***************************************************************************)

Job == [act : Activity, phase : {"todo", "mid"}, round : Nat, kind : Kind,
        item : Nat, id : ApprovalId \cup {NoId},
        decision : Decision \cup {"none"}, isTimeout : BOOLEAN]

(* The arguments of the activity the workflow awaits. *)
CurrentJob == [act |-> pc, phase |-> phase, round |-> round, kind |-> kind,
               item |-> item, id |-> gate.id, decision |-> gate.decision,
               isTimeout |-> gate.isTimeout]

(* What the next transaction of job j can do to the store d. *)
Perform(j, d) ==
    CASE j.act = "create_case" -> CreateCase(d)
      [] j.act = "reject_case" -> CloseCase(d, "REJECTED")
      [] j.act \in {"plan_initial", "plan_next"} -> PlanCalls(d)
      [] j.act = "get_spend" -> GetSpend(d)
      [] j.act = "collect" -> Collect(d)
      [] j.act = "analyze" -> Analyze(d)
      [] j.act = "record_iteration" -> RecordIteration(d, j.round)
      [] j.act = "static_validate_raw_command" -> StaticValidateRawCommand(d)
      [] j.act = "create_approval" ->
            CreateApproval(d, j.kind, <<j.round, j.item>>)
      [] j.act = "send_notifications" -> SendNotifications(d)
      [] j.act = "record_approval_decision" /\ j.phase = "todo" ->
            ReadDecision(d, j.id, j.isTimeout)
      [] j.act = "record_approval_decision" /\ j.phase = "mid" ->
            WriteDecision(d, j.id, j.decision)
      [] j.act = "run_raw_command" ->
            RunRawCommand(d, j.id, <<j.round, j.item>>)
      [] j.act = "plan_remediation" -> PlanRemediation(d)
      [] j.act = "execute_playbook" /\ j.phase = "todo" ->
            StartPlaybook(d, j.id)
      [] j.act = "execute_playbook" /\ j.phase = "mid" ->
            FinishPlaybook(d, j.id, <<j.round, j.item>>)
      [] j.act = "verify_fix" -> VerifyFix(d, j.id)
      [] j.act = "close_with_summary" -> CloseCase(d, "CLOSED_SUMMARY")
      [] j.act = "close_resolved" -> CloseCase(d, "RESOLVED")
      [] j.act = "to_needs_human" -> CloseCase(d, "NEEDS_HUMAN")

(* Variant: execute_playbook under _DEFAULT_RETRY. *)
AttemptsDefault(act) == MaxAttempts

(* The retry policy: execute_playbook is attempted once. *)
Attempts(act) == IF act = "execute_playbook" THEN 1 ELSE MaxAttempts

InProgress == pc \in Activity /\ phase # "done"

(* The current attempt commits its next transaction. *)
AttemptStep ==
    /\ InProgress
    /\ \E o \in Perform(CurrentJob, db) :
          db' = o.db /\ phase' = o.phase /\ res' = o.res
    /\ UNCHANGED <<pc, attempt, signalVars, statusVars, loopVars, itemVars,
                   expired, late, checked, net, faults>>

(* Variant: one attempt more than the policy allows. *)
NextAttemptOffByOne ==
    \/ /\ attempt + 1 <= Attempts(pc)
       /\ attempt' = attempt + 1 /\ phase' = "todo" /\ pc' = pc
    \/ /\ attempt + 1 > Attempts(pc)
       /\ attempt' = 0 /\ phase' = "todo" /\ pc' = "failed"

(* The server starts the next attempt, or the policy is exhausted: _notify  *)
(* swallows that, anywhere else it fails the workflow.                      *)
NextAttempt ==
    \/ /\ attempt + 1 < Attempts(pc)
       /\ attempt' = attempt + 1 /\ phase' = "todo" /\ pc' = pc
    \/ /\ attempt + 1 >= Attempts(pc)
       /\ attempt' = 0
       /\ IF pc = "send_notifications"
          THEN phase' = "done" /\ pc' = pc
          ELSE phase' = "todo" /\ pc' = "failed"

(* The transaction of the current attempt raises. *)
AttemptRaises ==
    /\ InProgress
    /\ Perform(CurrentJob, db) = {}
    /\ NextAttempt
    /\ UNCHANGED <<res, signalVars, statusVars, loopVars, itemVars, expired,
                   storeVars>>

(* The current attempt is given up (its worker crashed or stalled, or       *)
(* start_to_close_timeout passed) at any point; it may still go on.         *)
AttemptGivenUp ==
    /\ InProgress
    /\ faults < MaxFaults
    /\ faults' = faults + 1
    /\ late' = late \cup {CurrentJob}
    /\ NextAttempt
    /\ UNCHANGED <<res, signalVars, statusVars, loopVars, itemVars, expired,
                   db, checked, net>>

(* An attempt that was given up commits its next transaction. *)
LateStep ==
    /\ \E j \in late : \E o \in Perform(j, db) :
          /\ db' = o.db
          /\ late' = (late \ {j}) \cup
                     (IF o.phase = "mid" THEN {[j EXCEPT !.phase = "mid"]}
                                         ELSE {})
    /\ UNCHANGED <<taskVars, signalVars, statusVars, loopVars, itemVars,
                   expired, checked, net, faults>>

(***************************************************************************)
(* The workflow: run().                                                    *)
(***************************************************************************)

Returned(act) == pc = act /\ phase = "done"

Await(next) == pc' = next /\ phase' = "todo" /\ attempt' = 0 /\ res' = NoResult

(* reason is the argument; _terminal_reason takes it when the activity has  *)
(* returned.                                                                *)
NeedsHuman(why) == Await("to_needs_human") /\ reason' = why

(* dict.update *)
Updated(b, o) ==
    [k \in BudgetKeys |-> IF k \in DOMAIN o THEN o[k] ELSE b[k]]

(* The override is merged but kept, so round 1 merges it again. *)
CaseCreated ==
    /\ Returned("create_case")
    /\ budget' = Updated(budget, override)
    /\ status' = "OPEN"
    /\ IF res.ok THEN Await("reject_case") ELSE Await("plan_initial")
    /\ UNCHANGED <<signalVars, awaiting, reason, round, last, spent, outcome,
                   itemVars, expired, storeVars>>

Rejected ==
    /\ Returned("reject_case")
    /\ status' = "REJECTED" /\ reason' = "platform_not_ready"
    /\ Await("send_notifications")
    /\ UNCHANGED <<signalVars, awaiting, loopVars, itemVars, expired,
                   storeVars>>

(* range(1, max_rounds + 1) is evaluated here, once. *)
LoopEntered ==
    /\ Returned("plan_initial")
    /\ expired' = FALSE
    /\ last' = budget["max_rounds"]
    /\ status' = "INVESTIGATING"
    /\ IF last' >= 1
       THEN round' = 1 /\ Await("round_top") /\ UNCHANGED reason
       ELSE NeedsHuman("round_budget") /\ UNCHANGED round
    /\ UNCHANGED <<signalVars, awaiting, budget, spent, outcome, itemVars,
                   storeVars>>

(* _wait_if_paused, the abort check and the deadline check. *)
RoundStarted ==
    /\ pc = "round_top"
    /\ ~paused \/ aborted
    /\ \/ aborted /\ NeedsHuman("aborted")
       \/ ~aborted /\ expired /\ NeedsHuman("time_budget")
       \/ ~aborted /\ ~expired /\ Await("get_spend") /\ UNCHANGED reason
    /\ UNCHANGED <<signalVars, awaiting, status, loopVars, itemVars, expired,
                   storeVars>>

(* The cost check uses the budget of the previous round; only a round that  *)
(* passes it applies the override.                                          *)
SpendChecked ==
    /\ Returned("get_spend")
    /\ spent' = res.n
    /\ \/ /\ res.n >= budget["max_cost_usd"]
          /\ NeedsHuman("cost_budget")
          /\ UNCHANGED <<budget, override, expired>>
       \/ /\ res.n < budget["max_cost_usd"]
          /\ Await("collect")
          /\ budget' = Updated(budget, override)
          /\ expired' = (expired /\ "max_wall_seconds" \notin DOMAIN override)
          /\ override' = NoOverride
          /\ UNCHANGED reason
    /\ UNCHANGED <<paused, aborted, decision, awaiting, status, round, last,
                   outcome, itemVars, storeVars>>

Collected ==
    /\ Returned("collect")
    /\ Await("analyze")
    /\ UNCHANGED <<signalVars, statusVars, loopVars, itemVars, expired,
                   storeVars>>

Analyzed ==
    /\ Returned("analyze")
    /\ outcome' = res.outcome
    /\ kind' = "raw_command" /\ item' = 0 /\ items' = res.n
    /\ Await("record_iteration")
    /\ UNCHANGED <<signalVars, statusVars, round, last, budget, spent,
                   executedAny, gate, expired, storeVars>>

(* The checks after the raw-command gate. *)
JudgeReport ==
    \/ outcome = "concluded" /\ Await("plan_remediation") /\ UNCHANGED reason
    \/ outcome = "inconclusive" /\ NeedsHuman("inconclusive")
    \/ outcome = "need_more_data" /\ Await("plan_next") /\ UNCHANGED reason

(* Variant: no executed_any gate. *)
CloseAfterActionsResolved(any) == Await("close_resolved")

(* What follows the last playbook action. *)
CloseAfterActions(any) ==
    Await(IF any THEN "close_resolved" ELSE "close_with_summary")

(* The next iteration of the for loop over the raw commands of a report. *)
NextRawCommand ==
    IF item < items
    THEN item' = item + 1 /\ Await("static_validate_raw_command")
         /\ UNCHANGED reason
    ELSE UNCHANGED item /\ JudgeReport

(* _request_approval up to its first await. *)
RequestApproval == decision' = NoPayload /\ Await("create_approval")

(* The next iteration of the for loop over the playbook actions. *)
NextAction(any) ==
    IF item < items
    THEN item' = item + 1 /\ RequestApproval
    ELSE CloseAfterActions(any) /\ UNCHANGED <<item, decision>>

IterationRecorded ==
    /\ Returned("record_iteration")
    /\ NextRawCommand
    /\ UNCHANGED <<signalVars, awaiting, status, loopVars, kind, items,
                   executedAny, gate, expired, storeVars>>

Validated ==
    /\ Returned("static_validate_raw_command")
    /\ \/ res.ok /\ RequestApproval /\ UNCHANGED <<item, reason>>
       \/ ~res.ok /\ NextRawCommand /\ UNCHANGED decision
    /\ UNCHANGED <<paused, aborted, override, awaiting, status, loopVars, kind,
                   items, executedAny, gate, expired, storeVars>>

(***************************************************************************)
(* The workflow: _request_approval().                                      *)
(***************************************************************************)

ApprovalCreated ==
    /\ Returned("create_approval")
    /\ gate' = [NoGate EXCEPT !.id = res.id]
    /\ awaiting' = res.id
    /\ status' = "AWAITING_APPROVAL"
    /\ Await("send_notifications")
    /\ UNCHANGED <<signalVars, reason, loopVars, kind, item, items,
                   executedAny, expired, storeVars>>

(* _notify is the last await of a closed case, and the last but one of a    *)
(* gate.                                                                    *)
Notified ==
    /\ Returned("send_notifications")
    /\ Await(IF status \in Terminal THEN "done" ELSE "await_decision")
    /\ UNCHANGED <<signalVars, statusVars, loopVars, itemVars, expired,
                   storeVars>>

(* Variant: any decision satisfies the wait. *)
DecisionArrivedAny == decision.id # NoId

(* The condition of the wait: a decision for this very gate. *)
DecisionArrived == decision.id = gate.id

GateClosed(d, isTimeout) ==
    /\ gate' = [gate EXCEPT !.decision = d, !.isTimeout = isTimeout]
    /\ awaiting' = NoId
    /\ Await("record_approval_decision")
    /\ UNCHANGED <<signalVars, status, reason, loopVars, kind, item, items,
                   executedAny, expired, storeVars>>

(* wait_condition returns ... *)
HumanDecided ==
    /\ pc = "await_decision"
    /\ DecisionArrived
    /\ GateClosed(decision.decision, FALSE)

(* Variant: wait_condition without a timeout. *)
ApprovalNeverTimesOut == FALSE

(* ... or times out. *)
ApprovalTimedOut ==
    /\ pc = "await_decision"
    /\ ~DecisionArrived
    /\ GateClosed("denied", TRUE)

(* _request_approval returns to either of its call sites. *)
DecisionRecorded ==
    /\ Returned("record_approval_decision")
    /\ status' = "INVESTIGATING"
    /\ \/ /\ gate.decision = "approved"
          /\ Await(IF kind = "raw_command" THEN "run_raw_command"
                                           ELSE "execute_playbook")
          /\ UNCHANGED <<item, gate, reason, decision>>
       \/ /\ gate.decision # "approved"
          /\ gate' = NoGate
          /\ IF kind = "raw_command"
             THEN NextRawCommand /\ UNCHANGED decision
             ELSE NextAction(executedAny) /\ UNCHANGED reason
    /\ UNCHANGED <<paused, aborted, override, awaiting, loopVars, kind, items,
                   executedAny, expired, storeVars>>

RawCommandRan ==
    /\ Returned("run_raw_command")
    /\ gate' = NoGate
    /\ NextRawCommand
    /\ UNCHANGED <<signalVars, awaiting, status, loopVars, kind, items,
                   executedAny, expired, storeVars>>

PlannedNext ==
    /\ Returned("plan_next")
    /\ IF round < last
       THEN round' = round + 1 /\ Await("round_top") /\ UNCHANGED reason
       ELSE NeedsHuman("round_budget") /\ UNCHANGED round
    /\ UNCHANGED <<signalVars, awaiting, status, last, budget, spent, outcome,
                   itemVars, expired, storeVars>>

(***************************************************************************)
(* The workflow: remediation.                                              *)
(***************************************************************************)

RemediationPlanned ==
    /\ Returned("plan_remediation")
    /\ kind' = "remediation" /\ items' = res.n /\ executedAny' = FALSE
    /\ \/ res.n = 0 /\ item' = 0 /\ Await("close_with_summary")
          /\ UNCHANGED decision
       \/ res.n > 0 /\ item' = 1 /\ RequestApproval
    /\ UNCHANGED <<paused, aborted, override, statusVars, loopVars, gate,
                   expired, storeVars>>

PlaybookExecuted ==
    /\ Returned("execute_playbook")
    /\ IF res.ok THEN Await("settle") /\ UNCHANGED reason
                 ELSE NeedsHuman("playbook_failed")
    /\ UNCHANGED <<signalVars, awaiting, status, loopVars, itemVars, expired,
                   storeVars>>

(* The durable timer of the settle window. *)
Settled ==
    /\ pc = "settle"
    /\ Await("verify_fix")
    /\ UNCHANGED <<signalVars, statusVars, loopVars, itemVars, expired,
                   storeVars>>

FixVerified ==
    /\ Returned("verify_fix")
    /\ \/ /\ res.ok
          /\ executedAny' = TRUE
          /\ gate' = NoGate
          /\ NextAction(TRUE)
          /\ UNCHANGED reason
       \/ /\ ~res.ok
          /\ NeedsHuman("verification_failed")
          /\ UNCHANGED <<executedAny, gate, item, decision>>
    /\ UNCHANGED <<paused, aborted, override, awaiting, status, loopVars, kind,
                   items, expired, storeVars>>

(* The closing activities: the case_closed summary sends no notification. *)
Closed(act, final, next) ==
    /\ Returned(act)
    /\ status' = final
    /\ Await(next)
    /\ UNCHANGED <<signalVars, awaiting, reason, loopVars, itemVars, expired,
                   storeVars>>

(* Variant: the return after _needs_human("playbook_failed") is missing. *)
HandedToHumanNoReturn ==
    Closed("to_needs_human", "NEEDS_HUMAN",
           IF reason = "playbook_failed" THEN "settle"
                                         ELSE "send_notifications")

SummaryClosed == Closed("close_with_summary", "CLOSED_SUMMARY", "done")
ResolvedClosed == Closed("close_resolved", "RESOLVED", "send_notifications")
HandedToHuman == Closed("to_needs_human", "NEEDS_HUMAN", "send_notifications")

(***************************************************************************)
(* Signals.  The dashboard tests that the case is not terminal before it   *)
(* sends one; the signal may arrive any time later, and the handlers of a  *)
(* workflow that has not returned test _status again.                      *)
(***************************************************************************)

Running == pc \notin Ended

Pause ==
    /\ "pause" \in Signals /\ Running /\ status \notin Terminal
    /\ paused' = TRUE
    /\ UNCHANGED <<taskVars, aborted, override, decision, statusVars, loopVars,
                   itemVars, expired, storeVars>>

Resume ==
    /\ "resume" \in Signals /\ Running
    /\ paused' = FALSE
    /\ UNCHANGED <<taskVars, aborted, override, decision, statusVars, loopVars,
                   itemVars, expired, storeVars>>

Abort ==
    /\ "abort" \in Signals /\ Running /\ status \notin Terminal
    /\ aborted' = TRUE
    /\ UNCHANGED <<taskVars, paused, override, decision, statusVars, loopVars,
                   itemVars, expired, storeVars>>

AdjustBudget ==
    /\ "adjust_budget" \in Signals /\ Running /\ status \notin Terminal
    /\ override' \in Overrides
    /\ UNCHANGED <<taskVars, paused, aborted, decision, statusVars, loopVars,
                   itemVars, expired, storeVars>>

(* The handler of approval_decided: a signal for another gate is dropped,   *)
(* but only while a gate is awaited.                                        *)
ApprovalDecided(payload) ==
    decision' = IF awaiting # NoId /\ payload.id # awaiting
                THEN decision ELSE payload

(* decide_approval_atomic up to its UPDATE: the case is not terminal. *)
CheckDecision ==
    /\ \E a \in ApprovalId \ checked :
          /\ Undecided(db, a)
          /\ db.status \notin Terminal
          /\ checked' = checked \cup {a}
    /\ UNCHANGED <<taskVars, signalVars, statusVars, loopVars, itemVars,
                   expired, db, late, net, faults>>

(* The conditional UPDATE and the commit. *)
CommitDecision ==
    /\ \E a \in checked, d \in Decision :
          /\ Undecided(db, a)
          /\ db' = DecideApprovalAtomic(db, a, d)
          /\ net' = net \cup {[id |-> a, decision |-> d]}
    /\ UNCHANGED <<taskVars, signalVars, statusVars, loopVars, itemVars,
                   expired, late, checked, faults>>

(* post_decision signals the workflow after the commit; the signal can be   *)
(* delayed, delivered twice, or (never delivered) lost with the dashboard.  *)
DeliverDecision ==
    /\ Running
    /\ \E m \in net : ApprovalDecided(m) /\ net' \in {net, net \ {m}}
    /\ UNCHANGED <<taskVars, paused, aborted, override, statusVars, loopVars,
                   itemVars, expired, db, late, checked, faults>>

(* The wall-clock budget runs out.  Only a deadline that passes before the  *)
(* check at the top of a round, or between it and the override that moves   *)
(* the deadline, makes a difference.                                        *)
DeadlinePasses ==
    /\ pc \in {"round_top", "get_spend"} /\ ~expired
    /\ expired' = TRUE
    /\ UNCHANGED <<taskVars, signalVars, statusVars, loopVars, itemVars,
                   storeVars>>

(* The workflow has returned or failed: nothing more needs to happen. *)
WorkflowOver == pc \in Ended /\ UNCHANGED vars

-----------------------------------------------------------------------------
Init ==
    /\ pc = "create_case" /\ phase = "todo" /\ attempt = 0 /\ res = NoResult
    /\ paused = FALSE /\ aborted = FALSE
    /\ override = NoOverride /\ decision = NoPayload
    /\ awaiting = NoId /\ status = "RECEIVED" /\ reason = "none"
    /\ round = 0 /\ last = 0 /\ budget = Budget /\ spent = 0
    /\ outcome = "need_more_data"
    /\ kind = "raw_command" /\ item = 0 /\ items = 0
    /\ executedAny = FALSE /\ gate = NoGate
    /\ expired = FALSE
    /\ db = InitStore /\ late = {} /\ checked = {} /\ net = {} /\ faults = 0

(* The workflow's own steps. *)
WorkflowStep ==
    \/ CaseCreated \/ Rejected \/ LoopEntered \/ RoundStarted \/ SpendChecked
    \/ Collected \/ Analyzed \/ IterationRecorded \/ Validated
    \/ ApprovalCreated \/ Notified \/ HumanDecided \/ ApprovalTimedOut
    \/ DecisionRecorded \/ RawCommandRan \/ PlannedNext
    \/ RemediationPlanned \/ PlaybookExecuted \/ Settled \/ FixVerified
    \/ SummaryClosed \/ ResolvedClosed \/ HandedToHuman

WorkerStep == AttemptStep \/ AttemptRaises \/ AttemptGivenUp \/ LateStep

SignalStep == Pause \/ Resume \/ Abort \/ AdjustBudget

DashboardStep == CheckDecision \/ CommitDecision \/ DeliverDecision

Next ==
    \/ WorkflowStep \/ WorkerStep \/ SignalStep \/ DashboardStep
    \/ DeadlinePasses \/ WorkflowOver

Spec == Init /\ [][Next]_vars

(* The server delivers every activity result and fires every timer, and     *)
(* some worker is up: the workflow moves when it can, and an attempt that   *)
(* is not given up commits or raises.  Humans and abandoned attempts owe    *)
(* nothing.                                                                 *)
Fairness ==
    /\ WF_vars(WorkflowStep)
    /\ WF_vars(AttemptStep)
    /\ WF_vars(AttemptRaises)

FairSpec == Spec /\ Fairness

-----------------------------------------------------------------------------
Reason == {"none", "platform_not_ready", "aborted", "time_budget",
           "cost_budget", "round_budget", "inconclusive", "playbook_failed",
           "verification_failed"}

(* Every variable stays in its domain. *)
TypeOK ==
    /\ pc \in Pc /\ phase \in {"todo", "mid", "done"}
    /\ attempt \in 0..(MaxAttempts - 1) /\ res \in Result
    /\ paused \in BOOLEAN /\ aborted \in BOOLEAN
    /\ override \in Overrides \cup {NoOverride}
    /\ decision \in Payload \cup {NoPayload}
    /\ awaiting \in ApprovalId \cup {NoId} /\ status \in Status
    /\ reason \in Reason
    /\ round \in Nat /\ last \in Int /\ budget \in [BudgetKeys -> Int]
    /\ spent \in Nat /\ outcome \in Outcome
    /\ kind \in Kind /\ item \in Nat /\ items \in Nat
    /\ executedAny \in BOOLEAN
    /\ gate \in Gate
    /\ expired \in BOOLEAN
    /\ db \in Store /\ late \subseteq Job
    /\ checked \subseteq ApprovalId /\ net \subseteq Payload
    /\ faults \in 0..MaxFaults

(* Whatever the probe was asked to run, a raw command or a playbook, a user *)
(* approved: the approval that released it is recorded as approved by a     *)
(* user, for that kind and that very command or action.  Late attempts,     *)
(* repeated signals and timed-out gates do not break this.                  *)
ExecutionApproved ==
    \A r \in db.ran :
        /\ db.appr[r.id].kind = r.kind
        /\ db.appr[r.id].subject = r.subject
        /\ db.appr[r.id].decision = "approved"
        /\ db.appr[r.id].by = "user"

(* One approval releases at most one run of a playbook, whatever is retried *)
(* (_NO_RETRY on execute_playbook).                                         *)
PlaybookRunsOnce == \A a \in ApprovalId : db.runs[a] <= 1

(* A gate that closed on a signal acts on the decision the database holds,  *)
(* and a user took it: the signal and the row never disagree.               *)
HumanDecisionHonoured ==
    (gate.decision # "none" /\ ~gate.isTimeout) =>
        /\ db.appr[gate.id].decision = gate.decision
        /\ db.appr[gate.id].by = "user"

(* ... and record_approval_decision writes no audit of the system actor for *)
(* it, in any of its attempts: the user's row was committed before the      *)
(* signal was sent.                                                         *)
HumanActorKept ==
    (gate.decision # "none" /\ ~gate.isTimeout) => gate.id \notin db.sysAudit

(* A case is closed as RESOLVED only if an approved playbook was sent to    *)
(* the platform (the executed_any gate).                                    *)
ResolvedMeansExecuted ==
    db.status = "RESOLVED" =>
        \E r \in db.ran : /\ r.kind = "remediation"
                          /\ db.exec[r.id] # "none"

(* The rounds on record are the rounds the loop has run, without gap or     *)
(* repetition, and spent.rounds counts them, however often record_iteration *)
(* is retried.                                                              *)
IterationsContiguous ==
    /\ db.iters \in {1..round, 1..(round - 1)}
    /\ db.rounds = Cardinality(db.iters)

(* If no attempt is given up, a workflow that is over has closed its case:  *)
(* the database agrees with the workflow on a terminal status, and every    *)
(* approval it asked for is decided.                                        *)
CleanEnd ==
    (faults = 0 /\ pc \in Ended) =>
        /\ pc = "done" /\ db.status = status /\ status \in Terminal
        /\ \A a \in ApprovalId : ~Undecided(db, a)

(* Only an attempt that was given up and commits late can take a case out   *)
(* of a terminal status: neither the workflow nor the dashboard does        *)
(* (update_investigation_status replaces any status).                       *)
TerminalLeftOnlyLate ==
    [][(db.status \in Terminal /\ db'.status # db.status) => LateStep]_vars

(* Unless it is left paused, every investigation comes to an end: rounds,   *)
(* gates, retries and settle windows all run out.                           *)
Termination ==
    (<>[](~paused \/ aborted)) => <>(pc \in Ended)

-----------------------------------------------------------------------------
(* What docs, comments and tests of the repository say, and the code does   *)
(* not do.                                                                  *)

(* decide_approval: an approval that is decided is not decided again.       *)
DecisionFinal ==
    [][\A a \in ApprovalId :
          db.appr[a].decision # "none" => db'.appr[a] = db.appr[a]]_vars

(* run(): no round beyond the round budget is started.                      *)
RoundsWithinBudget == pc = "collect" => round <= budget["max_rounds"]

(* adjust_budget: a round is started only if the spend read at its top is   *)
(* below the cost budget in force.                                          *)
SpendWithinBudget == pc = "collect" => spent < budget["max_cost_usd"]

(* run(): the workflow terminates in a terminal state, on failure too.      *)
EndsTerminal == pc = "failed" => db.status \in Terminal

(* approval_decided: once the decision for the gate being opened has        *)
(* arrived, no late signal of a prior gate replaces it.                     *)
EarlyDecisionKept ==
    [][(/\ Returned("create_approval") /\ Returned("create_approval")'
        /\ decision.id = res.id) => decision' = decision]_vars

-----------------------------------------------------------------------------
(* The inductive invariant behind ExecutionApproved.                        *)

ReleasingActs == {"run_raw_command", "execute_playbook"}
KindReleased(act) ==
    IF act = "run_raw_command" THEN "raw_command" ELSE "remediation"

(* A user approved k for s under the id a. *)
Cleared(a, k, s) ==
    /\ a \in ApprovalId
    /\ db.appr[a] = [kind |-> k, subject |-> s, decision |-> "approved",
                     by |-> "user"]

(* A row is decided when it names who decided it. *)
RowsOK ==
    \A a \in ApprovalId :
        /\ db.appr[a].decision = "none" <=> db.appr[a].by = "none"
        /\ db.appr[a].kind = "absent" => db.appr[a].decision = "none"

(* A signal carries the decision of a user, unless the timeout path has     *)
(* overwritten it.                                                          *)
SignalOK(m) ==
    /\ db.appr[m.id].decision # "none"
    /\ db.appr[m.id].by = "user" => db.appr[m.id].decision = m.decision

SignalsOK ==
    /\ \A m \in net : SignalOK(m)
    /\ decision # NoPayload => SignalOK(decision)

(* The timeout path is the only one that can still overwrite a row, and it  *)
(* never does so for an approval that released something.                   *)
JobOK(j) ==
    /\ j.act \in ReleasingActs =>
          Cleared(j.id, KindReleased(j.act), <<j.round, j.item>>)
    /\ j.act = "record_approval_decision" =>
          /\ j.id \in ApprovalId
          /\ db.appr[j.id].kind # "absent"
          /\ ~j.isTimeout => /\ j.phase # "mid"
                             /\ db.appr[j.id].decision # "none"
          /\ j.isTimeout =>
                /\ j.decision = "denied"
                /\ \A r \in db.ran : r.id # j.id
                /\ \A k \in late : k.act \in ReleasingActs => k.id # j.id

JobsOK ==
    /\ \A j \in late : JobOK(j)
    /\ pc \in Activity => JobOK(CurrentJob)
    /\ pc \in ReleasingActs =>
          \A j \in late :
              (j.act = "record_approval_decision" /\ j.isTimeout) =>
                  j.id # gate.id

(* The approval a has released nothing and is not timed out. *)
Unreleased(a) ==
    /\ a \in ApprovalId
    /\ db.appr[a].kind = kind
    /\ db.appr[a].subject = <<round, item>>
    /\ \A r \in db.ran : r.id # a
    /\ \A j \in late : j.act \in ReleasingActs => j.id # a

Fresh(a) ==
    /\ Unreleased(a)
    /\ db.appr[a].by # "system"
    /\ \A j \in late : j.act = "record_approval_decision" => j.id # a

GatesOK ==
    /\ Returned("create_approval") => Fresh(res.id)
    /\ (pc = "send_notifications" /\ status \notin Terminal) => Fresh(gate.id)
    /\ pc = "await_decision" => Fresh(gate.id)
    /\ pc = "record_approval_decision" =>
          /\ Unreleased(gate.id)
          /\ gate.decision # "none"
          /\ ~gate.isTimeout => /\ db.appr[gate.id].decision = gate.decision
                                /\ db.appr[gate.id].by = "user"
          /\ \A j \in late :
                (j.act = "record_approval_decision" /\ j.id = gate.id) =>
                    j.isTimeout = gate.isTimeout

IInv ==
    /\ TypeOK /\ RowsOK /\ SignalsOK /\ JobsOK /\ GatesOK
    /\ ExecutionApproved
=============================================================================
