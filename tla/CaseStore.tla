----------------------------- MODULE CaseStore -----------------------------
(***************************************************************************)
(* The database side of one investigation: the rows an investigation owns, *)
(* and every transaction the worker's activities and the dashboard commit  *)
(* on them.  A transaction is an operator on the record of rows.           *)
(*                                                                         *)
(* A worker transaction returns the set of its possible outcomes           *)
(*     [db, phase, res]                                                    *)
(* where phase "mid" says that the activity has more to do after this      *)
(* step, and phase "done" that it returns res to the workflow.  The empty  *)
(* set says that the transaction raises and leaves no trace.               *)
(***************************************************************************)
EXTENDS Integers, FiniteSets

CONSTANTS
    ApprovalId,  \* the uuids create_approval can draw
    NoId,        \* no approval
    MaxRaw,      \* bound: raw_command_requests of one report
    MaxActions,  \* bound: playbook actions of one remediation plan
    MaxSpend     \* bound: dollars the model calls of one case can cost

ASSUME CaseStoreAssumption ==
    /\ NoId \notin ApprovalId
    /\ MaxRaw \in Nat /\ MaxActions \in Nat /\ MaxSpend \in Nat

(* investigation_repo.NON_TERMINAL_STATUSES and TERMINAL_STATUSES *)
Terminal == {"REJECTED", "NEEDS_HUMAN", "CLOSED_SUMMARY", "RESOLVED"}
NonTerminal == {"RECEIVED", "OPEN", "INVESTIGATING", "AWAITING_APPROVAL",
                "EXECUTING", "VERIFYING"}
Status == Terminal \cup NonTerminal

Kind == {"raw_command", "remediation"}
Decision == {"approved", "denied", "need_more"}
Subject == Nat \X Nat       \* the round, and the request or action within it
Outcome == {"concluded", "inconclusive", "need_more_data"}

(* A row of the approvals table; an absent row is an id not drawn yet. *)
Approval == [kind : Kind \cup {"absent"}, subject : Subject,
             decision : Decision \cup {"none"},
             by : {"none", "user", "system"}]

NoApproval == [kind |-> "absent", subject |-> <<0, 0>>, decision |-> "none",
               by |-> "none"]

(* status: investigations.status.  appr: approvals.  sysAudit: the ids an   *)
(* approval_decided audit of the system actor names.  iters: the rounds in  *)
(* iterations; rounds: investigations.spent.rounds.  spend: the sum of      *)
(* llm_calls.  exec: remediation_executions.status by the approval that     *)
(* released it, runs: how many such rows.  ran: what the probe was asked to *)
(* run, with the approval that released it.                                 *)
Store == [status : Status,
          appr : [ApprovalId -> Approval],
          sysAudit : SUBSET ApprovalId,
          iters : SUBSET Nat,
          rounds : Nat,
          spend : Nat,
          exec : [ApprovalId -> {"none", "running", "failed", "succeeded"}],
          runs : [ApprovalId -> Nat],
          ran : SUBSET [id : ApprovalId, kind : Kind, subject : Subject]]

InitStore == [status |-> "RECEIVED",
              appr |-> [a \in ApprovalId |-> NoApproval],
              sysAudit |-> {}, iters |-> {}, rounds |-> 0, spend |-> 0,
              exec |-> [a \in ApprovalId |-> "none"],
              runs |-> [a \in ApprovalId |-> 0],
              ran |-> {}]

(* What an activity can return to the workflow. *)
Result == [ok : BOOLEAN, n : Nat, id : ApprovalId \cup {NoId},
           outcome : Outcome]
NoResult == [ok |-> FALSE, n |-> 0, id |-> NoId, outcome |-> "need_more_data"]

Done(d, r) == [db |-> d, phase |-> "done", res |-> r]
More(d) == [db |-> d, phase |-> "mid", res |-> NoResult]
Ok(b) == [NoResult EXCEPT !.ok = b]

(***************************************************************************)
(* Activities without a decision of their own.                             *)
(***************************************************************************)

(* create_case promotes the RECEIVED row to OPEN whatever its status is; a  *)
(* platform that is not online makes it report a rejection (res.ok).        *)
CreateCase(d) ==
    {Done([d EXCEPT !.status = "OPEN"], Ok(rejected)) : rejected \in BOOLEAN}

GetSpend(d) == {Done(d, [NoResult EXCEPT !.n = d.spend])}

(* Every model call appends its cost to llm_calls; an activity makes any    *)
(* number of them.                                                          *)
Charged(d) == {[d EXCEPT !.spend = s] : s \in d.spend..MaxSpend}

PlanCalls(d) == {Done(e, NoResult) : e \in Charged(d)}

(* collect runs the plan's tool calls and summarises their output with a    *)
(* model call.                                                              *)
Collect(d) == {Done(e, NoResult) : e \in Charged(d)}

(* The report: its conclusion, and how many raw commands it requests. *)
Analyze(d) ==
    {Done(x[1], [NoResult EXCEPT !.outcome = x[2], !.n = x[3]]) :
        x \in Charged(d) \X Outcome \X (0..MaxRaw)}

(* Variant: record_iteration as an upsert that still bumps spent.rounds. *)
RecordIterationUpsert(d, round) ==
    {Done([d EXCEPT !.iters = @ \cup {round}, !.rounds = @ + 1,
                    !.status = "INVESTIGATING"], NoResult)}

(* (investigation_id, round) is the primary key of iterations: inserting a  *)
(* round a second time raises.                                              *)
RecordIteration(d, round) ==
    IF round \in d.iters
    THEN {}
    ELSE {Done([d EXCEPT !.iters = @ \cup {round}, !.rounds = @ + 1,
                         !.status = "INVESTIGATING"], NoResult)}

StaticValidateRawCommand(d) == {Done(d, Ok(b)) : b \in BOOLEAN}

(* The number of playbook actions; 0 stands for a plan that recommends only *)
(* manual work.                                                             *)
PlanRemediation(d) ==
    {Done(x[1], [NoResult EXCEPT !.n = x[2]]) :
        x \in Charged(d) \X (0..MaxActions)}

SendNotifications(d) == {Done(d, NoResult)}

(* reject_case, close_with_summary, close_resolved and to_needs_human go    *)
(* through update_investigation_status, which does not look at the status   *)
(* it replaces.                                                             *)
CloseCase(d, status) == {Done([d EXCEPT !.status = status], NoResult)}

(***************************************************************************)
(* Approvals.                                                              *)
(***************************************************************************)

CreateApproval(d, kind, subject) ==
    {Done([d EXCEPT !.status = "AWAITING_APPROVAL",
                    !.appr[a] = [kind |-> kind, subject |-> subject,
                                 decision |-> "none", by |-> "none"]],
          [NoResult EXCEPT !.id = a]) :
        a \in {b \in ApprovalId : d.appr[b].kind = "absent"}}

(* Variant: record_approval_decision does not test for an earlier decision. *)
ReadDecisionUntested(d, a, isTimeout) == {More(d)}

(* Variant: record_approval_decision never writes the decision. *)
ReadDecisionOnly(d, a, isTimeout) == {Done(d, NoResult)}

(* Variant: a decision that is already there is audited on every path. *)
ReadDecisionAudited(d, a, isTimeout) ==
    IF d.appr[a].decision = "none"
    THEN {More(d)}
    ELSE {Done([d EXCEPT !.sysAudit = @ \cup {a}], NoResult)}

(* record_approval_decision reads the row first.  A row that is already     *)
(* decided is left alone, but on the timeout path the system-actor audit is *)
(* written all the same.                                                    *)
ReadDecision(d, a, isTimeout) ==
    IF d.appr[a].decision = "none"
    THEN {More(d)}
    ELSE {Done(IF isTimeout THEN [d EXCEPT !.sysAudit = @ \cup {a}] ELSE d,
               NoResult)}

(* The UPDATE that follows names the row by its key alone: it does not test *)
(* again that the row is undecided.  by is who wrote the decision that the  *)
(* row holds; the column decided_by, which the UPDATE leaves out, may still *)
(* have the name of a user whose decision this replaces.                    *)
WriteDecision(d, a, decision) ==
    {Done([d EXCEPT !.appr[a].decision = decision, !.appr[a].by = "system",
                    !.sysAudit = @ \cup {a}], NoResult)}

(* The dashboard's decide_approval_atomic: UPDATE ... WHERE decision IS     *)
(* NULL, which changes a row that is undecided and no other.                *)
Undecided(d, a) == d.appr[a].kind # "absent" /\ d.appr[a].decision = "none"

DecideApprovalAtomic(d, a, decision) ==
    [d EXCEPT !.appr[a].decision = decision, !.appr[a].by = "user"]

(***************************************************************************)
(* What an approval releases.                                              *)
(***************************************************************************)

Run(a, kind, subject) == [id |-> a, kind |-> kind, subject |-> subject]

RunRawCommand(d, a, subject) ==
    {Done([d EXCEPT !.ran = @ \cup {Run(a, "raw_command", subject)}],
          NoResult)}

(* The first transaction of execute_playbook ... *)
StartPlaybook(d, a) ==
    {More([d EXCEPT !.status = "EXECUTING", !.exec[a] = "running",
                    !.runs[a] = @ + 1])}

(* ... and what follows: the playbook's steps are signed and sent to the    *)
(* probe one by one.  It can fail before any step is sent (unknown          *)
(* playbook, bad parameters, no signer) or at a step; the row of a playbook *)
(* that succeeds stays running until verify_fix.                            *)
FinishPlaybook(d, a, subject) ==
    LET failed == [d EXCEPT !.exec[a] = "failed"]
        sent == Run(a, "remediation", subject)
    IN  {Done([d EXCEPT !.ran = @ \cup {sent}], Ok(TRUE)),
         Done([failed EXCEPT !.ran = @ \cup {sent}], Ok(FALSE)),
         Done(failed, Ok(FALSE))}

VerifyFix(d, a) ==
    {Done([d EXCEPT !.exec[a] = "succeeded", !.status = "VERIFYING"],
          Ok(TRUE)),
     Done([d EXCEPT !.exec[a] = "failed"], Ok(FALSE))}
=============================================================================
