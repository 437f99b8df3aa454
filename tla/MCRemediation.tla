----------------------------- MODULE MCRemediation ---------------------------
(* A small instance of Remediation for TLC. *)
EXTENDS Remediation, TLC

CONSTANTS e1, e2, j1, j2, v1, v2, v3

Act(playbook, params, plan) == [playbook |-> playbook, params |-> params, plan |-> plan]

P(key, value) == [key |-> key, value |-> value]
NoParams == Params(None, None, None, None, <<>>, <<>>, <<>>)

MemA == P("mem.a", v2)
MemB == P("mem.b", v2)
Other == P("other", v2)
Text == [n \in {"mem.a", "other"} |-> v2]
OtherText == [n \in {"mem.b"} |-> v2]

Kill == Act("presto.kill_query", [NoParams EXCEPT !.query = "q1"], <<>>)
KillNothing == Act("presto.kill_query", NoParams, <<"presto_nodes", "">>)
Update == Act("presto.update_config_restart_workers",
              [NoParams EXCEPT !.key = "other", !.value = v2], <<>>)
UpdateLiteral == Act("presto.update_config_restart_workers",
                     [NoParams EXCEPT !.patches = <<Other, P("", v1), P(None, v1)>>], <<>>)
UpdateNameless == Act("presto.update_config_restart_workers",
                      [NoParams EXCEPT !.patches = <<P(None, v1)>>, !.key = "other",
                                       !.value = v1], <<>>)
Coordinator == Act("presto.restart_coordinator", NoParams, <<>>)
Worker == Act("presto.restart_worker", NoParams, <<>>)
NamedWorker == Act("presto.restart_worker", [NoParams EXCEPT !.worker = "w1"], <<>>)
Memory == Act("presto.adjust_memory_config", [NoParams EXCEPT !.mem = <<MemA>>], <<>>)
MemoryTop == Act("presto.adjust_memory_config",
                 [NoParams EXCEPT !.mem = <<P("mem.a", Text)>>,
                                  !.top = <<P("mem.a", v1), P("mem.b", OtherText)>>],
                 <<>>)
MemoryList == Act("presto.adjust_memory_config",
                  [NoParams EXCEPT !.patches = <<P(None, v1), P("", v1), P("mem.a", Text),
                                                 MemB, P("mem.c", v3)>>], <<>>)
MemoryOffList == Act("presto.adjust_memory_config",
                     [NoParams EXCEPT !.patches = <<MemB, Other>>], <<>>)
MemoryNone == Act("presto.adjust_memory_config", NoParams, <<>>)
Unknown == Act("presto.unknown", NoParams, <<>>)

AllActions == {Kill, KillNothing, Update, UpdateLiteral, UpdateNameless, Coordinator,
               Worker, NamedWorker, Memory, MemoryTop, MemoryList, MemoryOffList,
               MemoryNone, Unknown}
AllFirst == [p \in Property |-> v1]

SecondActions == {Memory}
ActionsOf(e) == IF e = e1 THEN AllActions ELSE SecondActions

AnyTargets == {<<>>, [worker_service |-> "", config_file_key |-> "worker.properties"]}

(* dbagent on Kubernetes beside a platform there, and in compose beside swarm. *)
InstallsOf(d) == IF d = "k8s" THEN {"secret"} ELSE {"volume"}

Jobs == Permutations({j1, j2})
=============================================================================
