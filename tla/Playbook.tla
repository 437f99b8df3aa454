------------------------------ MODULE Playbook ------------------------------
(***************************************************************************)
(* Executing and verifying approved actions on one platform: the           *)
(* activities execute_playbook and verify_fix, the probe's write           *)
(* operations, and the counters in playbooks.maturity.                     *)
(*                                                                         *)
(* Several investigations may work on the platform together.  The probe    *)
(* serves each task in a goroutine of its own.  execute_playbook is        *)
(* attempted once, verify_fix may be retried (module Investigation).       *)
(***************************************************************************)
EXTENDS PlaybookSteps

CONSTANTS
    Exec,        \* executions, one per approved action
    Actions(_),  \* the actions that may be approved for an execution
    Deployments, \* "k8s", "swarm"
    Targets,     \* values of remediation_targets
    Property,    \* properties of the workers' configuration file
    Value,       \* plain values, without a newline, that are no whole file
    WithEquals,  \* the plain values that contain an equals sign
    FirstFile,   \* the file at first; None: it does not have the property
    Queries,     \* queries that run at first
    Attempts,    \* attempts of verify_fix
    MaxFaults    \* bound: lost answers, deaths and failing tools

ASSUME PlaybookAssumption ==
    /\ Attempts \in Nat \ {0} /\ MaxFaults \in Nat /\ Whitelist \subseteq Property
    /\ None \notin Value \cup Nat /\ WithEquals \subseteq Value
    /\ FirstFile \in [Property -> Value \cup {None}] /\ IsFiniteSet(Exec)

VARIABLES
    deployment, targets,  \* platforms.deployment and config.remediation_targets
    enabled,              \* write_enabled at the probe
    signer, trusted,      \* the key the worker signs with; the key of the probe's
                          \* KeyStore
    file,                 \* properties in the workers' config.properties
    env,                  \* environment of the swarm worker service
    queries,              \* running queries
    maturity,             \* playbooks.maturity; runs = None: no row yet
    row,                  \* remediation_executions.status
    action, pc,           \* per execution: its action and its activity
    step, task, log,      \* next step; the task at the probe; what the probe did
    seen,                 \* maturity as the open transaction read it
    check, good, attempt, \* verify_fix: checks done, verdict, attempts
    faults

cluster == <<file, env, queries>>
setting == <<deployment, targets, enabled, signer, trusted>>
playbookVars == <<setting, cluster, maturity, row, action, pc, step, task, log,
                  seen, check, good, attempt, faults>>

NoAction == [playbook |-> None, plan |-> <<>>]
NoTask == [stage |-> "none", step |-> 0, base |-> None]
NoRow == [runs |-> None, success |-> None]
ZeroRow == [runs |-> 0, success |-> 0]

AllowedActions == UNION {Actions(e) : e \in Exec}

(* The lines of a text give the properties plain values. *)
IsText(t) == \A p \in Property \cap DOMAIN t : t[p] \in Value \cup {None}

(* What a patch may say: for a property a plain value or a text, and for    *)
(* config.properties a text.                                                *)
PatchFits(q) ==
    /\ q.key \in Property => q.value \in Value \/ IsText(q.value)
    /\ q.key = FileKey => IsText(q.value)

PatchList(s) == s \in Seq({s[i] : i \in DOMAIN s}) /\ \A i \in DOMAIN s : PatchFits(s[i])

(* The lists of an action are lists, as Plan and its JSON have them. *)
ASSUME ActionsAssumption ==
    \A a \in AllowedActions :
        /\ a.plan \in Seq(STRING) /\ a.params.value \in Value \cup {None}
        /\ PatchList(a.params.patches) /\ PatchList(a.params.mem) /\ PatchList(a.params.top)

StepsOf(e) ==
    Steps(action[e].playbook, deployment, action[e].params,
          ResolveLocators(deployment, targets))

Fault == faults < MaxFaults /\ faults' = faults + 1

(***************************************************************************)
(* execute_playbook                                                        *)
(***************************************************************************)

(* A worker that runs takes the activity.  Its first transaction reads the  *)
(* playbook's row.                                                          *)
Open(e) ==
    /\ pc[e] = "idle" /\ signer # None
    /\ \E a \in Actions(e) :
         /\ action' = [action EXCEPT ![e] = a]
         /\ seen' = [seen EXCEPT ![e] = maturity[a.playbook]]
    /\ pc' = [pc EXCEPT ![e] = "opening"]
    /\ UNCHANGED <<setting, cluster, maturity, row, step, task, log, check, good,
                   attempt, faults>>

(* The run is counted for every step. *)
CountRunPerStep(m) == [m EXCEPT !.runs = @ + 2]

CountRun(m) == [m EXCEPT !.runs = @ + 1]

(* ... and writes it back with the execution's row.  Without a row it       *)
(* inserts one, which fails when another transaction has done so.           *)
OpenCommit(e) ==
    LET pb == action[e].playbook
    IN  /\ pc[e] = "opening"
        /\ IF seen[e] = NoRow /\ maturity[pb] # NoRow
           THEN /\ pc' = [pc EXCEPT ![e] = "raised"]
                /\ UNCHANGED <<maturity, row>>
           ELSE /\ maturity' = [maturity EXCEPT ![pb] =
                      CountRun(IF seen[e] = NoRow THEN ZeroRow ELSE seen[e])]
                /\ row' = [row EXCEPT ![e] = "running"]
                /\ pc' = [pc EXCEPT ![e] = "build"]
        /\ seen' = [seen EXCEPT ![e] = NoRow]
        /\ UNCHANGED <<setting, cluster, action, step, task, log, check, good, attempt,
                       faults>>

(* _finish_execution with status failed. *)
FinishFailed(e) ==
    /\ row' = [row EXCEPT ![e] = "failed"]
    /\ pc' = [pc EXCEPT ![e] = "ended"]

(* An unknown playbook or parameters its builder refuses end the execution; *)
(* so does a worker without a signer, after the pre-snapshot.               *)
Build(e) ==
    /\ pc[e] = "build"
    /\ IF StepsOf(e).ok /\ signer # None
       THEN pc' = [pc EXCEPT ![e] = "dispatch"] /\ UNCHANGED row
       ELSE FinishFailed(e)
    /\ UNCHANGED <<setting, cluster, maturity, action, step, task, log, seen, check,
                   good, attempt, faults>>

(* Sign and send one step. *)
Dispatch(e) ==
    /\ pc[e] = "dispatch"
    /\ task' = [task EXCEPT ![e] = [NoTask EXCEPT !.stage = "sent", !.step = step[e]]]
    /\ pc' = [pc EXCEPT ![e] = "await"]
    /\ UNCHANGED <<setting, cluster, maturity, row, action, step, log, seen, check,
                   good, attempt, faults>>

(* ProbeClient._execute: what the answer of the probe gateway becomes.  The *)
(* payload is "ok" or "failed" by its exit code and error; a 502 that tells *)
(* of a timeout is a failed result as well; any other failure raises.       *)
Execute(reply) ==
    CASE reply = "ok" -> "ok"
      [] reply \in {"failed", "timeout"} -> "failed"
      [] reply = "unavailable" -> "raised"

(* The answer of the probe's task, or one that the dispatch lost. *)
Answer(e, reply) ==
    \/ task[e].stage = "done" /\ reply = "ok" /\ UNCHANGED faults
    \/ task[e].stage = "refused" /\ reply = "failed" /\ UNCHANGED faults
    \/ reply \in {"timeout", "unavailable"} /\ Fault

(* The count of the steps starts at zero: the last one is left out. *)
NextStepEarly(e) ==
    /\ step' = [step EXCEPT ![e] = @ + 1]
    /\ pc' = [pc EXCEPT ![e] =
          IF step[e] + 1 >= Len(StepsOf(e).steps) THEN "settle" ELSE "dispatch"]
    /\ UNCHANGED row

NextStep(e) ==
    /\ step' = [step EXCEPT ![e] = @ + 1]
    /\ pc' = [pc EXCEPT ![e] =
          IF step[e] = Len(StepsOf(e).steps) THEN "settle" ELSE "dispatch"]
    /\ UNCHANGED row

(* A step whose answer does not come is sent again. *)
StepResultRetried(e) ==
    /\ pc[e] = "await"
    /\ \E reply \in {"ok", "failed", "timeout", "unavailable"} :
         /\ Answer(e, reply)
         /\ \/ Execute(reply) = "ok" /\ NextStep(e)
            \/ Execute(reply) = "failed" /\ FinishFailed(e) /\ UNCHANGED step
            \/ /\ Execute(reply) = "raised"
               /\ pc' = [pc EXCEPT ![e] = "dispatch"] /\ UNCHANGED <<row, step>>
    /\ UNCHANGED <<setting, cluster, maturity, action, task, log, seen, check, good,
                   attempt>>

(* The answer to a step: the next one, or the settle window after the last; *)
(* a failed result or an exception ends the execution, whatever the probe   *)
(* has done or is still going to do.                                        *)
StepResult(e) ==
    /\ pc[e] = "await"
    /\ \E reply \in {"ok", "failed", "timeout", "unavailable"} :
         /\ Answer(e, reply)
         /\ \/ Execute(reply) = "ok" /\ NextStep(e)
            \/ Execute(reply) # "ok" /\ FinishFailed(e) /\ UNCHANGED step
    /\ UNCHANGED <<setting, cluster, maturity, action, task, log, seen, check, good,
                   attempt>>

(* The worker dies in the middle: the row stays as it is. *)
WorkerDies(e) ==
    /\ pc[e] \in {"opening", "build", "dispatch", "await"} /\ Fault
    /\ pc' = [pc EXCEPT ![e] = "dead"]
    /\ UNCHANGED <<setting, cluster, maturity, row, action, step, task, log, seen,
                   check, good, attempt>>

(***************************************************************************)
(* ExecuteWrite at the probe                                               *)
(***************************************************************************)

ThisStep(e) == StepsOf(e).steps[task[e].step]

Merges(e) ==
    action[e].playbook = "presto.adjust_memory_config" /\ ThisStep(e).op = "k8s_patch_configmap"

(* applyMemoryConfigWhitelist: the probe has the list as well. *)
OffList(e) ==
    /\ action[e].playbook = "presto.adjust_memory_config"
    /\ ThisStep(e).op \in {"k8s_patch_configmap", "swarm_update_service_env"}
    /\ LET keys == Keys(ThisStep(e).patches)
       IN  keys = {} \/ ~(keys \subseteq Whitelist)

(* The gate: write_enabled, a signature by the trusted key, the whitelist;  *)
(* and for a memory patch the read of the ConfigMap it will be merged into. *)
ProbeTakes(e) ==
    /\ task[e].stage = "sent"
    /\ task' = [task EXCEPT ![e] =
          IF ~enabled \/ signer # trusted \/ OffList(e) THEN [@ EXCEPT !.stage = "refused"]
          ELSE [@ EXCEPT !.stage = "taken", !.base = IF Merges(e) THEN file ELSE None]]
    /\ UNCHANGED <<setting, cluster, maturity, row, action, pc, step, log, seen, check,
                   good, attempt, faults>>

(* The value a list of patches gives a key: the last one counts. *)
PatchOf(patches, k) ==
    patches[CHOOSE i \in DOMAIN patches :
              /\ patches[i].key = k
              /\ \A j \in DOMAIN patches : patches[j].key = k => j <= i].value

(* setProperty for the patches of some keys. *)
Overlay(content, patches, keys) ==
    [p \in Property |-> IF p \in keys THEN PatchOf(patches, p) ELSE content[p]]

(* The file that a text is the whole of. *)
FileOf(text) == [p \in Property |-> IF p \in DOMAIN text THEN text[p] ELSE None]

(* Every value is taken for the value of its key. *)
MergePropertiesFlat(base, patches) == {Overlay(base, patches, Keys(patches))}

(* The patches alone, without the file they belong to. *)
MergePropertiesAlone(base, patches) == {Overlay(FileOf(<<>>), patches, Keys(patches))}

(* mergeProperties: the patches on top of the file that was read.  But a    *)
(* value that is a text is the new file, with the patches on top whose      *)
(* values have neither a newline nor an equals sign; which text, if there   *)
(* are two, is up to the order in which Go ranges over a map.               *)
MergeProperties(base, patches) ==
    LET texts == {PatchOf(patches, k) : k \in Keys(patches)} \ Value
        short == {k \in Keys(patches) : PatchOf(patches, k) \in Value \ WithEquals}
    IN  IF texts = {} THEN {Overlay(base, patches, Keys(patches))}
        ELSE {Overlay(FileOf(t), patches, short) : t \in texts}

(* PatchConfigMap replaces data keys: config.properties is the whole file.  *)
(* The files that can come out.                                             *)
Patched(e, patches) ==
    IF Merges(e) THEN MergeProperties(task[e].base, patches)
    ELSE IF FileKey \notin Keys(patches) THEN {file}
    ELSE {FileOf(PatchOf(patches, FileKey))}

(* The patches on top of the service's environment; one without a key is    *)
(* passed over.                                                             *)
WithEnv(patches) ==
    LET named == Keys(patches) \ {""}
    IN  [n \in named \cup DOMAIN env |-> IF n \in named THEN PatchOf(patches, n) ELSE env[n]]

(* The primitive; restarts leave the files as they are. *)
ProbeWrites(e) ==
    LET s == ThisStep(e)
    IN  /\ task[e].stage = "taken"
        /\ file' \in IF s.op = "k8s_patch_configmap" THEN Patched(e, s.patches) ELSE {file}
        /\ env' = IF s.op = "swarm_update_service_env" THEN WithEnv(s.patches) ELSE env
        /\ queries' = IF s.op = "presto_kill_query" THEN queries \ {s.target} ELSE queries
        /\ log' = [log EXCEPT ![e] = Append(@, s)]
        /\ task' = [task EXCEPT ![e].stage = "done"]
        /\ UNCHANGED <<setting, maturity, row, action, pc, step, seen, check, good,
                       attempt, faults>>

(* A schema the parameters do not fit, or an API that answers with an error. *)
ProbeFails(e) ==
    /\ task[e].stage = "taken"
    /\ task' = [task EXCEPT ![e].stage = "refused"]
    /\ UNCHANGED <<setting, cluster, maturity, row, action, pc, step, log, seen, check,
                   good, attempt, faults>>

(***************************************************************************)
(* verify_fix                                                              *)
(***************************************************************************)

(* The workflow sleeps for the settle window and starts verify_fix. *)
Settled(e) ==
    /\ pc[e] = "settle"
    /\ pc' = [pc EXCEPT ![e] = "check"]
    /\ UNCHANGED <<setting, cluster, maturity, row, action, step, task, log, seen, check,
                   good, attempt, faults>>

(* check_config_key_equals also accepts the value anywhere in the file;     *)
(* whether a text is in it depends on how the file is laid out.             *)
ConfigKeyEquals(p) ==
    LET x == Expected(p)
    IN  CASE x.key = None \/ x.value = None -> {TRUE}
          [] x.key # None /\ x.value \in Value -> {\E q \in Property : file[q] = x.value}
          [] OTHER -> BOOLEAN

(* What a check says of a result: a failed one never passes, and the checks *)
(* without a body here follow the state of the cluster.                     *)
CheckSays(name, p, result) ==
    CASE result # "ok" -> {FALSE}
      [] name = "query_absent" /\ result = "ok" -> {p.query \notin queries}
      [] name = "config_key_equals" /\ result = "ok" -> ConfigKeyEquals(p)
      [] OTHER -> BOOLEAN

Again(e) ==
    /\ check' = [check EXCEPT ![e] = 0] /\ good' = [good EXCEPT ![e] = TRUE]
    /\ attempt' = [attempt EXCEPT ![e] = IF @ < Attempts THEN @ + 1 ELSE @]
    /\ pc' = [pc EXCEPT ![e] = IF attempt[e] < Attempts THEN "check" ELSE "raised"]

(* The next of run_verification's checks.  A request that raises fails the  *)
(* attempt, and the activity is tried again from the start.                 *)
RunCheck(e) ==
    LET names == Checks(action[e])
    IN  /\ pc[e] = "check"
        /\ \E reply \in {"ok", "failed", "timeout", "unavailable"} :
             \/ /\ Execute(reply) # "raised"
                /\ \E ok \in CheckSays(names[check[e] + 1], action[e].params, Execute(reply)) :
                     good' = [good EXCEPT ![e] = good[e] /\ ok]
                /\ check' = [check EXCEPT ![e] = @ + 1]
                /\ pc' = [pc EXCEPT ![e] = IF check[e] + 1 = Len(names) THEN "closing" ELSE "check"]
                /\ seen' = [seen EXCEPT ![e] = IF check[e] + 1 = Len(names)
                                               THEN maturity[action[e].playbook] ELSE NoRow]
                /\ UNCHANGED <<attempt, faults>>
             \/ Execute(reply) = "raised" /\ Fault /\ Again(e) /\ UNCHANGED seen
        /\ UNCHANGED <<setting, cluster, maturity, row, action, step, task, log>>

(* The last transaction: the execution's status, and one more success from  *)
(* the counters as they were read.  Its answer may be lost.                 *)
VerifyCommit(e) ==
    /\ pc[e] = "closing"
    /\ row' = [row EXCEPT ![e] = IF good[e] THEN "succeeded" ELSE "failed"]
    /\ maturity' = IF good[e]
                   THEN [maturity EXCEPT ![action[e].playbook] =
                           [seen[e] EXCEPT !.success = @ + 1]]
                   ELSE maturity
    /\ \/ pc' = [pc EXCEPT ![e] = "ended"] /\ UNCHANGED <<check, good, attempt, faults>>
       \/ Fault /\ Again(e)
    /\ seen' = [seen EXCEPT ![e] = NoRow]
    /\ UNCHANGED <<setting, cluster, action, step, task, log>>

(* seed_playbooks: inserts missing rows and leaves the counters alone. *)
Seed ==
    /\ \E pb \in DOMAIN maturity : maturity[pb] = NoRow
    /\ maturity' = [pb \in DOMAIN maturity |->
                      IF maturity[pb] = NoRow THEN ZeroRow ELSE maturity[pb]]
    /\ UNCHANGED <<setting, cluster, row, action, pc, step, task, log, seen, check,
                   good, attempt, faults>>

(***************************************************************************)
(* Its steps                                                               *)
(***************************************************************************)

PlaybookInit ==
    /\ deployment \in Deployments /\ targets \in Targets
    /\ enabled \in BOOLEAN /\ signer = None /\ trusted = None
    /\ file = FirstFile /\ env = <<>> /\ queries = Queries
    /\ \E seeded \in BOOLEAN : maturity = [pb \in {a.playbook : a \in AllowedActions} |->
                                           IF seeded THEN ZeroRow ELSE NoRow]
    /\ row = [e \in Exec |-> "none"] /\ action = [e \in Exec |-> NoAction]
    /\ pc = [e \in Exec |-> "idle"] /\ step = [e \in Exec |-> 1]
    /\ task = [e \in Exec |-> NoTask] /\ log = [e \in Exec |-> <<>>]
    /\ seen = [e \in Exec |-> NoRow] /\ check = [e \in Exec |-> 0]
    /\ good = [e \in Exec |-> TRUE] /\ attempt = [e \in Exec |-> 1] /\ faults = 0

PlaybookNext ==
    \/ \E e \in Exec :
          \/ Open(e) \/ OpenCommit(e) \/ Build(e) \/ Dispatch(e) \/ StepResult(e)
          \/ WorkerDies(e) \/ ProbeTakes(e) \/ ProbeWrites(e) \/ ProbeFails(e)
          \/ Settled(e) \/ RunCheck(e) \/ VerifyCommit(e)
    \/ Seed

(***************************************************************************)
(* Properties                                                              *)
(***************************************************************************)

PlaybookTypeOK ==
    /\ row \in [Exec -> {"none", "running", "failed", "succeeded"}]
    /\ pc \in [Exec -> {"idle", "opening", "build", "dispatch", "await", "settle",
                        "check", "closing", "ended", "raised", "dead"}]
    /\ file \in [Property -> Value \cup {None}] /\ queries \subseteq Queries
    /\ \A e \in Exec : attempt[e] \in 1..Attempts /\ check[e] \in 0..Len(Checks(action[e]))

(* The probe carries out the steps of an approved action in their order,    *)
(* each at most once and none that the builder did not list, although       *)
(* answers time out, workers die and a task may still be at the probe after *)
(* its execution was given up.                                              *)
StepsInOrder ==
    \A e \in Exec : pc[e] # "idle" =>
        /\ Len(log[e]) <= Len(StepsOf(e).steps)
        /\ \A i \in 1..Len(log[e]) : log[e][i] = StepsOf(e).steps[i]

(* "After remediation, dbagent re-checks the platform": an execution called *)
(* succeeded ran every step, and the query it was to kill is gone.          *)
SucceededMeansDone ==
    \A e \in Exec : row[e] = "succeeded" =>
        /\ log[e] = StepsOf(e).steps
        /\ action[e].playbook = "presto.kill_query" => action[e].params.query \notin queries

(* The counters never claim more runs than there are execution rows.        *)
RunsWithinRows ==
    \A pb \in DOMAIN maturity :
        maturity[pb] # NoRow =>
            maturity[pb].runs <= Cardinality({e \in Exec : action[e].playbook = pb /\ row[e] # "none"})

(* What an execution has written: the patches in the steps that the probe   *)
(* carried out, and of these the texts that were whole files.               *)
Wrote(e, op) ==
    UNION {{s.patches[i] : i \in DOMAIN s.patches} :
             s \in {x \in {log[e][k] : k \in DOMAIN log[e]} : x.op = op}}
WholeFiles(e) ==
    {q.value : q \in {x \in Wrote(e, "k8s_patch_configmap") :
                        x.key = FileKey \/ x.value \notin Value}}

(* MEMORY_CONFIG_WHITELIST on both deployments, also with executions side   *)
(* by side and with a merge into a file that has changed since it was read. *)
(* A property that is not on the list is what it was at first, or what a    *)
(* text says that some execution wrote as the whole file; a variable that   *)
(* is not on it was set, to the value it has, by an update_config execution.*)
OnlyWhitelisted ==
    /\ \A p \in Property \ Whitelist :
          \/ file[p] = FirstFile[p]
          \/ \E e \in Exec : \E t \in WholeFiles(e) : file[p] = FileOf(t)[p]
    /\ \A n \in DOMAIN env \ Whitelist :
          \E e \in Exec :
             /\ action[e].playbook = "presto.update_config_restart_workers"
             /\ \E q \in Wrote(e, "swarm_update_service_env") : q.key = n /\ q.value = env[n]
=============================================================================
