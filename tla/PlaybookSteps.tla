--------------------------- MODULE PlaybookSteps ----------------------------
(***************************************************************************)
(* The step registry of playbooks.py and the check lists of                *)
(* verification.py: what one approved action turns into, as operators.     *)
(*                                                                         *)
(* A patch is [key, value].  A value is a plain one, or a text of lines    *)
(* key=value, which is a function from the keys to their values.  A        *)
(* locator that platforms.config does not name stands for its default and  *)
(* is written as its own name; "" is a locator or tool that is empty or    *)
(* absent, or a key that is empty.                                         *)
(***************************************************************************)
EXTENDS Integers, Sequences, FiniteSets, TLC

CONSTANTS
    Whitelist,  \* MEMORY_CONFIG_WHITELIST
    None

(* playbook_params as the model supplies them: the names it may give, the   *)
(* list "patches", the mapping "memory_params", and whitelisted keys at the *)
(* top level.                                                               *)
Params(query, worker, key, value, patches, mem, top) ==
    [query |-> query, worker |-> worker, key |-> key, value |-> value,
     patches |-> patches, mem |-> mem, top |-> top]

(* config.properties, the default of the locator of that name. *)
FileKey == "config_file_key"

(***************************************************************************)
(* Locators                                                                *)
(***************************************************************************)

DefaultLocators(deployment) ==
    IF deployment = "swarm"
    THEN {"worker_service", "coordinator_service", "config_file"}
    ELSE {"namespace", "worker_configmap", "coordinator_configmap",
          "worker_workload_kind", "worker_workload_name",
          "coordinator_workload_kind", "coordinator_workload_name", "config_file_key"}

(* remediation_targets on top of the defaults. *)
ResolveLocators(deployment, targets) ==
    targets @@ [n \in DefaultLocators(deployment) |-> n]

(* locators.get(name) or <default>. *)
Locator(locators, name) ==
    IF name \in DOMAIN locators /\ locators[name] # "" THEN locators[name] ELSE name

(***************************************************************************)
(* Patches                                                                 *)
(***************************************************************************)

Built(s) == [ok |-> TRUE, steps |-> s]
Invalid == [ok |-> FALSE, steps |-> <<>>]

(* The elements of a list at the positions I, in their order. *)
Picked(s, I) ==
    [k \in 1..Cardinality(I) |->
        s[CHOOSE i \in I : Cardinality({j \in I : j <= i}) = k]]

Keys(patches) == {patches[i].key : i \in DOMAIN patches}

(* Without the patches whose key is one of skipped. *)
Without(patches, skipped) ==
    Picked(patches, {i \in DOMAIN patches : patches[i].key \notin skipped})

(* _memory_patches: "patches" alone when it is there, otherwise the mapping *)
(* and then the top-level keys it does not have.                            *)
MemoryPatches(p) ==
    IF p.patches # <<>> THEN Without(p.patches, {None, ""})
    ELSE p.mem \o Without(p.top, Keys(p.mem))

(* _config_patches: literal patches, one with an empty key included, or the *)
(* text of a file of one line.                                              *)
ConfigPatches(p, locators) ==
    IF p.patches # <<>> THEN Without(p.patches, {None})
    ELSE IF p.key = None THEN <<>>
    ELSE <<[key |-> Locator(locators, "config_file_key"),
            value |-> [k \in {p.key} |-> p.value]]>>

(***************************************************************************)
(* PLAYBOOK_STEPS                                                          *)
(***************************************************************************)

Step(op, target, patches) == [op |-> op, target |-> target, patches |-> patches]

StepsKillQuery(p) ==
    IF p.query = None THEN Invalid ELSE Built(<<Step("presto_kill_query", p.query, <<>>)>>)

(* Patch and restart, shared by the two playbooks that change properties. *)
PatchAndRestart(deployment, l, patches) ==
    IF deployment = "swarm"
    THEN <<Step("swarm_update_service_env", Locator(l, "worker_service"), patches),
           Step("swarm_restart_service", Locator(l, "worker_service"), <<>>)>>
    ELSE <<Step("k8s_patch_configmap", Locator(l, "worker_configmap"), patches),
           Step("k8s_rollout_restart", Locator(l, "worker_workload_name"), <<>>)>>

(* Swarm sets the key itself only when no patch is left. *)
StepsUpdateConfig(deployment, p, l) ==
    LET patches == ConfigPatches(p, l)
        direct == deployment = "swarm" /\ patches = <<>> /\ p.key \notin {None, ""}
    IN  Built(PatchAndRestart(deployment, l,
                IF direct THEN <<[key |-> p.key, value |-> p.value]>> ELSE patches))

StepsRestartCoordinator(deployment, l) ==
    Built(IF deployment = "swarm"
          THEN <<Step("swarm_restart_service", Locator(l, "coordinator_service"), <<>>)>>
          ELSE <<Step("k8s_rollout_restart", Locator(l, "coordinator_workload_name"), <<>>)>>)

(* Swarm restarts the whole service; Kubernetes one pod, named by the       *)
(* parameters or by the locators.                                           *)
StepsRestartWorker(deployment, p, l) ==
    Built(IF deployment = "swarm"
          THEN <<Step("swarm_restart_service", Locator(l, "worker_service"), <<>>)>>
          ELSE <<Step("k8s_delete_pod",
                      IF p.worker # None THEN p.worker ELSE Locator(l, "default_worker_pod"),
                      <<>>)>>)

StepsAdjustMemory(deployment, p, l) ==
    LET patches == MemoryPatches(p)
    IN  IF patches = <<>> \/ ~(Keys(patches) \subseteq Whitelist) THEN Invalid
        ELSE Built(PatchAndRestart(deployment, l, patches))

Steps(playbook, deployment, p, l) ==
    CASE playbook = "presto.kill_query" -> StepsKillQuery(p)
      [] playbook = "presto.update_config_restart_workers" -> StepsUpdateConfig(deployment, p, l)
      [] playbook = "presto.restart_coordinator" -> StepsRestartCoordinator(deployment, l)
      [] playbook = "presto.restart_worker" -> StepsRestartWorker(deployment, p, l)
      [] playbook = "presto.adjust_memory_config" -> StepsAdjustMemory(deployment, p, l)
      [] OTHER -> Invalid

(***************************************************************************)
(* PLAYBOOK_VERIFICATIONS, the plan's own checks, and the canary           *)
(***************************************************************************)

DefaultChecks(playbook) ==
    CASE playbook = "presto.kill_query" -> <<"query_absent">>
      [] playbook = "presto.update_config_restart_workers" ->
             <<"workers_active_count", "config_key_equals">>
      [] playbook = "presto.restart_coordinator" -> <<"coordinator_up", "workers_active_count">>
      [] playbook = "presto.restart_worker" -> <<"node_active">>
      [] playbook = "presto.adjust_memory_config" ->
             <<"workers_active_count", "config_key_equals", "jmx_memory_pool_ok">>
      [] OTHER -> <<>>

Checks(action) ==
    DefaultChecks(action.playbook)
      \o Picked(action.plan, {i \in DOMAIN action.plan : action.plan[i] # ""})
      \o <<"canary">>

(* The property check_config_key_equals looks for: config_key, or the first *)
(* of memory_params, or the first patch; None when there is none.           *)
Expected(p) ==
    CASE p.key \notin {None, ""} -> [key |-> p.key, value |-> p.value]
      [] p.key \in {None, ""} /\ p.mem # <<>> -> p.mem[1]
      [] p.key \in {None, ""} /\ p.mem = <<>> /\ p.patches # <<>> -> p.patches[1]
      [] OTHER -> [key |-> None, value |-> None]
=============================================================================
