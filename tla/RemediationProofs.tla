-------------------------- MODULE RemediationProofs --------------------------
(***************************************************************************)
(* The safety of the write channel, for any number of executions and       *)
(* actions, any bounds and both deployments.                               *)
(*                                                                         *)
(* StepsInv is about the steps of an action on their way through the       *)
(* probe, CountInv about the maturity counters.  SigningKeyProofs has the  *)
(* signing key, RemediationTypes the types and what the probe writes.      *)
(***************************************************************************)
EXTENDS Remediation, FiniteSetTheorems, TLAPS

(***************************************************************************)
(* The executions                                                          *)
(***************************************************************************)

(* What the probe has done is the beginning of the steps. *)
LogFits(e) ==
    LET steps == StepsOf(e).steps
    IN  /\ log[e] \in Seq({steps[i] : i \in 1..Len(steps)})
        /\ Len(log[e]) <= Len(steps)
        /\ \A i \in 1..Len(log[e]) : log[e][i] = steps[i]

(* A step that is open at the probe is the one after the last it has done,  *)
(* and the execution does not send another while one is open.               *)
StepsFit(e) ==
    LET last == Len(StepsOf(e).steps)
        open == task[e].stage \in {"sent", "taken"}
    IN  /\ pc[e] \in {"idle", "opening", "build"} =>
             log[e] = <<>> /\ task[e].stage = "none" /\ step[e] = 1
        /\ pc[e] \in {"idle", "opening"} => row[e] = "none"
        /\ pc[e] # "idle" => LogFits(e)
        /\ open => task[e].step \in 1..last /\ Len(log[e]) = task[e].step - 1
        /\ pc[e] \in {"dispatch", "await"} => step[e] \in 1..last
        /\ pc[e] = "dispatch" => Len(log[e]) = step[e] - 1 /\ ~open
        /\ pc[e] = "await" =>
             /\ task[e].step = step[e]
             /\ task[e].stage = "done" => Len(log[e]) = step[e]
        /\ pc[e] \in {"settle", "check", "closing"} \/ row[e] = "succeeded" =>
             log[e] = StepsOf(e).steps /\ log[e] # <<>> /\ ~open
        /\ row[e] = "succeeded" => pc[e] \in {"check", "closing", "ended", "raised"}
        /\ \A i \in 1..Len(log[e]) :
             log[e][i].op = "presto_kill_query" => log[e][i].target \notin queries

TaskRecord(t) == DOMAIN t = {"stage", "step", "base"} /\ t.step \in Nat

StepsDomains ==
    /\ DOMAIN pc = Exec /\ DOMAIN row = Exec /\ DOMAIN action = Exec
    /\ DOMAIN step = Exec /\ DOMAIN task = Exec /\ DOMAIN log = Exec

StepsInv ==
    /\ StepsDomains
    /\ \A e \in Exec : TaskRecord(task[e]) /\ StepsFit(e)

Running == {"build", "dispatch", "await", "settle", "check", "closing"}
Counters == [runs : Nat, success : Nat]
RowsOf(pb) == {e \in Exec : action[e].playbook = pb /\ row[e] # "none"}
Counted(m, pb) == m \in Counters /\ m.runs <= Cardinality(RowsOf(pb))

(* The counters as an open transaction has read them were right then, and   *)
(* the rows that they count have not become fewer.                          *)
CountInv ==
    /\ DOMAIN maturity = {a.playbook : a \in AllowedActions} /\ DOMAIN seen = Exec
    /\ \A pb \in DOMAIN maturity : maturity[pb] = NoRow \/ Counted(maturity[pb], pb)
    /\ \A e \in Exec :
         /\ seen[e] = NoRow \/ Counted(seen[e], action[e].playbook)
         /\ pc[e] # "idle" => action[e].playbook \in DOMAIN maturity
         /\ pc[e] \in Running => maturity[action[e].playbook] # NoRow
         /\ pc[e] = "closing" => seen[e] # NoRow

LEMMA TupleShape ==
    /\ \A a : /\ Built(<<a>>).steps = <<a>> /\ Len(<<a>>) = 1 /\ <<a>>[1] = a
              /\ \A S : a \in S => <<a>> \in Seq(S)
    /\ \A a, b : /\ Built(<<a, b>>).steps = <<a, b>> /\ Len(<<a, b>>) = 2
                 /\ <<a, b>>[1] = a /\ <<a, b>>[2] = b
                 /\ \A S : a \in S /\ b \in S => <<a, b>> \in Seq(S)
    /\ Invalid.steps = <<>> /\ Invalid.ok = FALSE /\ Len(<<>>) = 0
BY DEF Built, Invalid

PatchOps == {"k8s_patch_configmap", "swarm_update_service_env"}

(* The patches that go into a ConfigMap; an environment may also get the    *)
(* key itself.                                                              *)
PatchesFor(playbook, p, l) ==
    IF playbook = "presto.adjust_memory_config" THEN MemoryPatches(p) ELSE ConfigPatches(p, l)
Direct(p) == <<[key |-> p.key, value |-> p.value]>>

(* What a builder returns: no step, one, or a patch and a restart.          *)
LEMMA BuilderShape ==
    ASSUME NEW playbook, NEW d, NEW p, NEW l
    PROVE  LET s == Steps(playbook, d, p, l)
           IN  \/ s = Invalid
               \/ \E op, t : /\ s = Built(<<Step(op, t, <<>>)>>)
                             /\ op \notin PatchOps
                             /\ playbook = "presto.kill_query" =>
                                  op = "presto_kill_query" /\ t = p.query
               \/ \E patches :
                    /\ s = Built(PatchAndRestart(d, l, patches))
                    /\ playbook \in {"presto.update_config_restart_workers",
                                     "presto.adjust_memory_config"}
                    /\ playbook = "presto.adjust_memory_config" =>
                         Keys(patches) \subseteq Whitelist
                    /\ patches \in {PatchesFor(playbook, p, l), Direct(p)}
                    /\ d # "swarm" => patches = PatchesFor(playbook, p, l)
<1>1. CASE playbook = "presto.kill_query"
  BY <1>1, Zenon DEF Steps, StepsKillQuery, PatchOps
<1>2. CASE playbook = "presto.update_config_restart_workers"
  BY <1>2, Zenon DEF Steps, StepsUpdateConfig, PatchesFor, Direct
<1>3. CASE playbook = "presto.restart_coordinator"
  BY <1>3 DEF Steps, StepsRestartCoordinator, PatchOps
<1>4. CASE playbook = "presto.restart_worker"
  BY <1>4 DEF Steps, StepsRestartWorker, PatchOps
<1>5. CASE playbook = "presto.adjust_memory_config"
  BY <1>5, Zenon DEF Steps, StepsAdjustMemory, PatchesFor
<1>6. CASE playbook \notin {"presto.kill_query", "presto.update_config_restart_workers",
                            "presto.restart_coordinator", "presto.restart_worker",
                            "presto.adjust_memory_config"}
  BY <1>6, Zenon DEF Steps
<1>. QED
  BY <1>1, <1>2, <1>3, <1>4, <1>5, <1>6, Zenon

Shape(playbook, p, list, s) ==
    /\ Len(s.steps) \in Nat /\ (s.ok => Len(s.steps) >= 1)
    /\ s.steps \in Seq({s.steps[i] : i \in 1..Len(s.steps)})
    /\ playbook = "presto.kill_query" /\ Len(s.steps) >= 1 =>
         s.steps[1].op = "presto_kill_query" /\ s.steps[1].target = p.query
    /\ \A i \in 1..Len(s.steps) : s.steps[i].op \in PatchOps =>
         /\ playbook \in {"presto.update_config_restart_workers",
                          "presto.adjust_memory_config"}
         /\ playbook = "presto.adjust_memory_config" =>
              Keys(s.steps[i].patches) \subseteq Whitelist
         /\ s.steps[i].patches \in {list, Direct(p)}
         /\ s.steps[i].op = "k8s_patch_configmap" => s.steps[i].patches = list

LEMMA StepsShape ==
    ASSUME NEW playbook, NEW d, NEW p, NEW l
    PROVE  Shape(playbook, p, PatchesFor(playbook, p, l), Steps(playbook, d, p, l))
<1>. DEFINE s == Steps(playbook, d, p, l)
<1>1. \/ s = Invalid
      \/ \E op, t : /\ s = Built(<<Step(op, t, <<>>)>>)
                    /\ op \notin PatchOps
                    /\ playbook = "presto.kill_query" =>
                         op = "presto_kill_query" /\ t = p.query
      \/ \E patches :
           /\ s = Built(PatchAndRestart(d, l, patches))
           /\ playbook \in {"presto.update_config_restart_workers",
                            "presto.adjust_memory_config"}
           /\ playbook = "presto.adjust_memory_config" => Keys(patches) \subseteq Whitelist
           /\ patches \in {PatchesFor(playbook, p, l), Direct(p)}
           /\ d # "swarm" => patches = PatchesFor(playbook, p, l)
  BY BuilderShape, Zenon
<1>. SUFFICES Shape(playbook, p, PatchesFor(playbook, p, l), s)
  BY Zenon
<1>. HIDE DEF s
<1>2. CASE s = Invalid
  <2>1. s.steps = <<>> /\ ~s.ok /\ Len(s.steps) = 0 /\ 1..Len(s.steps) = {}
    BY <1>2, TupleShape
  <2>2. s.steps \in Seq({s.steps[i] : i \in 1..Len(s.steps)})
    BY <2>1
  <2>3. Len(s.steps) \in Nat /\ ~(Len(s.steps) >= 1)
    BY <2>1
  <2>. QED
    BY <2>1, <2>2, <2>3, Zenon DEF Shape
<1>3. ASSUME NEW op, NEW t, s = Built(<<Step(op, t, <<>>)>>), op \notin PatchOps,
             playbook = "presto.kill_query" =>
                op = "presto_kill_query" /\ t = p.query
      PROVE  Shape(playbook, p, PatchesFor(playbook, p, l), s)
  <2>. DEFINE a == Step(op, t, <<>>)
  <2>1. a.op = op /\ a.target = t
    BY Zenon DEF Step
  <2>. HIDE DEF a
  <2>2. s.steps = <<a>> /\ Len(s.steps) = 1 /\ s.steps[1] = a
    BY <1>3, TupleShape DEF a
  <2>3. s.steps \in Seq({s.steps[i] : i \in 1..Len(s.steps)})
    BY <2>2, TupleShape
  <2>. QED
    BY <1>3, <2>1, <2>2, <2>3 DEF Shape
<1>4. ASSUME NEW patches, s = Built(PatchAndRestart(d, l, patches)),
             playbook \in {"presto.update_config_restart_workers",
                           "presto.adjust_memory_config"},
             playbook = "presto.adjust_memory_config" => Keys(patches) \subseteq Whitelist,
             patches \in {PatchesFor(playbook, p, l), Direct(p)},
             d # "swarm" => patches = PatchesFor(playbook, p, l)
      PROVE  Shape(playbook, p, PatchesFor(playbook, p, l), s)
  <2>1. PICK a, b : /\ PatchAndRestart(d, l, patches) = <<a, b>>
                    /\ a.patches = patches /\ b.op \notin PatchOps
                    /\ a.op = "k8s_patch_configmap" => d # "swarm"
    BY DEF PatchAndRestart, Step, PatchOps
  <2>2. s.steps = <<a, b>> /\ Len(s.steps) = 2 /\ s.steps[1] = a /\ s.steps[2] = b
    BY <1>4, <2>1, TupleShape
  <2>3. s.steps \in Seq({s.steps[i] : i \in 1..Len(s.steps)})
    BY <2>2, TupleShape
  <2>4. ASSUME NEW i \in 1..Len(s.steps), s.steps[i].op \in PatchOps
        PROVE  /\ s.steps[i].patches = patches
               /\ s.steps[i].op = "k8s_patch_configmap" => d # "swarm"
    <3>1. i = 1 \/ i = 2
      BY <2>2
    <3>. QED
      BY <2>1, <2>2, <2>4, <3>1, Zenon
  <2>5. playbook # "presto.kill_query"
    BY <1>4, Zenon
  <2>. QED
    BY <1>4, <2>2, <2>3, <2>4, <2>5 DEF Shape
<1>. QED
  <2>1. CASE \E op, t : /\ s = Built(<<Step(op, t, <<>>)>>)
                        /\ op \notin PatchOps
                        /\ playbook = "presto.kill_query" =>
                             op = "presto_kill_query" /\ t = p.query
    BY <1>3, <2>1, Zenon
  <2>2. CASE \E patches :
              /\ s = Built(PatchAndRestart(d, l, patches))
              /\ playbook \in {"presto.update_config_restart_workers",
                               "presto.adjust_memory_config"}
              /\ playbook = "presto.adjust_memory_config" => Keys(patches) \subseteq Whitelist
              /\ patches \in {PatchesFor(playbook, p, l), Direct(p)}
              /\ d # "swarm" => patches = PatchesFor(playbook, p, l)
    BY <1>4, <2>2, Zenon
  <2>. QED
    BY <1>1, <1>2, <2>1, <2>2, Zenon

PatchesOf(e) ==
    PatchesFor(action[e].playbook, action[e].params, ResolveLocators(deployment, targets))

LEMMA ShapeOf ==
    ASSUME NEW e
    PROVE  /\ Shape(action[e].playbook, action[e].params, PatchesOf(e), StepsOf(e))
           /\ Shape(action[e].playbook, action[e].params, PatchesOf(e), StepsOf(e))'
BY StepsShape, Zenon DEF StepsOf, PatchesOf

LEMMA StepsSame ==
    ASSUME NEW e, deployment' = deployment, targets' = targets, action'[e] = action[e]
    PROVE  StepsOf(e)' = StepsOf(e)
BY Zenon DEF StepsOf

LEMMA LogSame ==
    ASSUME NEW e, deployment' = deployment, targets' = targets, action'[e] = action[e],
           log'[e] = log[e]
    PROVE  StepsOf(e)' = StepsOf(e) /\ (LogFits(e)' <=> LogFits(e))
<1>1. StepsOf(e)' = StepsOf(e)
  BY StepsSame, Zenon
<1>. QED
  BY <1>1, Zenon DEF LogFits

(* An execution that a step does not touch; a query that ends stays ended.  *)
LEMMA StepsFrame ==
    ASSUME NEW e \in Exec, StepsFit(e), TaskRecord(task[e]),
           deployment' = deployment, targets' = targets, queries' \subseteq queries,
           action'[e] = action[e], pc'[e] = pc[e], row'[e] = row[e], step'[e] = step[e],
           task'[e] = task[e], log'[e] = log[e]
    PROVE  StepsFit(e)' /\ TaskRecord(task[e])'
<1>1. StepsOf(e)' = StepsOf(e) /\ (LogFits(e)' <=> LogFits(e))
  BY LogSame, Zenon
<1>2. TaskRecord(task[e])'
  BY Zenon DEF TaskRecord
<1>. QED
  BY <1>1, <1>2, Zenon DEF StepsFit

LEMMA StepsOthers ==
    ASSUME StepsInv, NEW e \in Exec,
           deployment' = deployment, targets' = targets, queries' \subseteq queries,
           StepsDomains',
           \A f \in Exec \ {e} :
              /\ action'[f] = action[f] /\ pc'[f] = pc[f] /\ row'[f] = row[f]
              /\ step'[f] = step[f] /\ task'[f] = task[f] /\ log'[f] = log[f],
           StepsFit(e)', TaskRecord(task[e])'
    PROVE  StepsInv'
<1>1. ASSUME NEW f \in Exec, f # e PROVE StepsFit(f)' /\ TaskRecord(task[f])'
  BY <1>1, StepsFrame, Zenon DEF StepsInv
<1>. QED
  BY <1>1, Zenon DEF StepsInv

LEMMA OpeningKeepsSteps ==
    ASSUME StepsInv, NEW e \in Exec,
           Open(e) \/ OpenCommit(e) \/ Build(e) \/ Dispatch(e)
    PROVE  StepsInv'
<1>1. /\ StepsDomains /\ TaskRecord(task[e]) /\ StepsFit(e)
  BY Zenon DEF StepsInv
<1>2. Shape(action[e].playbook, action[e].params, PatchesOf(e), StepsOf(e))
  BY ShapeOf, Zenon
<1>3. CASE Open(e)
  <2>1. /\ pc[e] = "idle" /\ pc'[e] = "opening" /\ StepsDomains'
        /\ UNCHANGED <<deployment, targets, queries, row, step, task, log>>
        /\ \A f \in Exec \ {e} : action'[f] = action[f] /\ pc'[f] = pc[f]
    BY <1>1, <1>3, Zenon DEF Open, StepsDomains, setting, cluster
  <2>2. LogFits(e)'
    <3>1. Len(StepsOf(e)'.steps) \in Nat
      BY ShapeOf, Zenon DEF Shape
    <3>2. log'[e] = <<>>
      BY <1>1, <2>1, Zenon DEF StepsFit
    <3>. QED
      BY <3>1, <3>2 DEF LogFits
  <2>3. StepsFit(e)' /\ TaskRecord(task[e])'
    BY <1>1, <2>1, <2>2, Zenon DEF StepsFit, TaskRecord
  <2>. QED
    BY <2>1, <2>3, StepsOthers, Zenon
<1>4. CASE OpenCommit(e)
  <2>1. /\ pc[e] = "opening" /\ pc'[e] \in {"build", "raised"} /\ StepsDomains'
        /\ UNCHANGED <<deployment, targets, queries, action, step, task, log>>
        /\ row'[e] # "succeeded" \/ row'[e] = row[e]
        /\ \A f \in Exec \ {e} : row'[f] = row[f] /\ pc'[f] = pc[f]
    BY <1>1, <1>4, Zenon DEF OpenCommit, StepsDomains, setting, cluster
  <2>2. StepsOf(e)' = StepsOf(e) /\ (LogFits(e)' <=> LogFits(e))
    BY <2>1, LogSame, Zenon
  <2>3. StepsFit(e)' /\ TaskRecord(task[e])'
    BY <1>1, <2>1, <2>2, Zenon DEF StepsFit, TaskRecord
  <2>. QED
    BY <2>1, <2>3, StepsOthers, Zenon
<1>5. CASE Build(e)
  <2>1. /\ pc[e] = "build" /\ StepsDomains'
        /\ \/ pc'[e] = "dispatch" /\ StepsOf(e).ok
           \/ pc'[e] = "ended"
        /\ UNCHANGED <<deployment, targets, queries, action, step, task, log>>
        /\ row'[e] # "succeeded" \/ row'[e] = row[e]
        /\ \A f \in Exec \ {e} : row'[f] = row[f] /\ pc'[f] = pc[f]
    BY <1>1, <1>5, Zenon DEF Build, FinishFailed, StepsDomains, setting, cluster
  <2>2. StepsOf(e)' = StepsOf(e) /\ (LogFits(e)' <=> LogFits(e))
    BY <2>1, LogSame, Zenon
  <2>3. StepsFit(e)' /\ TaskRecord(task[e])'
    BY <1>1, <1>2, <2>1, <2>2 DEF StepsFit, TaskRecord, Shape
  <2>. QED
    BY <2>1, <2>3, StepsOthers, Zenon
<1>6. CASE Dispatch(e)
  <2>1. /\ pc[e] = "dispatch" /\ pc'[e] = "await" /\ StepsDomains'
        /\ task'[e] = [NoTask EXCEPT !.stage = "sent", !.step = step[e]]
        /\ UNCHANGED <<deployment, targets, queries, action, step, row, log>>
        /\ \A f \in Exec \ {e} : task'[f] = task[f] /\ pc'[f] = pc[f]
    BY <1>1, <1>6, Zenon DEF Dispatch, StepsDomains, setting, cluster
  <2>2. /\ task'[e].stage = "sent" /\ task'[e].step = step[e]
        /\ DOMAIN task'[e] = {"stage", "step", "base"}
    BY <2>1, Zenon DEF NoTask
  <2>3. StepsOf(e)' = StepsOf(e) /\ (LogFits(e)' <=> LogFits(e))
    BY <2>1, LogSame, Zenon
  <2>4. step[e] \in 1..Len(StepsOf(e).steps) /\ Len(StepsOf(e).steps) \in Nat
    BY <1>1, <1>2, <2>1, Zenon DEF StepsFit, Shape
  <2>5. StepsFit(e)' /\ TaskRecord(task[e])'
    BY <1>1, <2>1, <2>2, <2>3, <2>4 DEF StepsFit, TaskRecord
  <2>. QED
    BY <2>1, <2>5, StepsOthers, Zenon
<1>. QED
  BY <1>3, <1>4, <1>5, <1>6, Zenon

LEMMA SameSequence ==
    ASSUME NEW S, NEW s \in Seq(S), NEW t \in Seq(S), Len(s) = Len(t),
           \A i \in 1..Len(s) : s[i] = t[i]
    PROVE  s = t
OBVIOUS

LEMMA AnswersKeepSteps ==
    ASSUME StepsInv, NEW e \in Exec, StepResult(e) \/ WorkerDies(e)
    PROVE  StepsInv'
<1>1. /\ StepsDomains /\ TaskRecord(task[e]) /\ StepsFit(e)
  BY Zenon DEF StepsInv
<1>2. Shape(action[e].playbook, action[e].params, PatchesOf(e), StepsOf(e))
  BY ShapeOf, Zenon
<1>3. CASE StepResult(e)
  <2>. DEFINE last == Len(StepsOf(e).steps)
  <2>1. /\ pc[e] = "await"
        /\ UNCHANGED <<deployment, targets, queries, action, task, log>>
    BY <1>3, Zenon DEF StepResult, setting, cluster
  <2>2. \/ NextStep(e) /\ task[e].stage = "done"
        \/ FinishFailed(e) /\ UNCHANGED step
    BY <1>3, Zenon DEF StepResult, Answer, Execute
  <2>3. StepsOf(e)' = StepsOf(e) /\ (LogFits(e)' <=> LogFits(e))
    BY <2>1, LogSame, Zenon
  <2>4. /\ step[e] \in 1..last /\ last \in Nat
        /\ LogFits(e) /\ task[e].step = step[e] /\ row[e] # "succeeded"
    BY <1>1, <1>2, <2>1, Zenon DEF StepsFit, Shape
  <2>5. CASE NextStep(e) /\ task[e].stage = "done"
    <3>1. /\ StepsDomains' /\ step'[e] = step[e] + 1 /\ row' = row
          /\ pc'[e] = IF step[e] = last THEN "settle" ELSE "dispatch"
          /\ \A f \in Exec \ {e} : step'[f] = step[f] /\ pc'[f] = pc[f]
      BY <1>1, <2>1, <2>5, Zenon DEF NextStep, StepsDomains
    <3>2. Len(log[e]) = step[e] /\ task'[e].stage = "done"
      BY <1>1, <2>1, <2>5, Zenon DEF StepsFit
    <3>3. step[e] = last => log[e] = StepsOf(e).steps
      BY <1>2, <2>4, <3>2, SameSequence, Zenon DEF LogFits, Shape
    <3>4. log[e] # <<>>
      BY <2>4, <3>2
    <3>5. StepsFit(e)' /\ TaskRecord(task[e])'
      <4>1. CASE step[e] = last
        BY <1>1, <2>1, <2>3, <2>4, <3>1, <3>2, <3>3, <3>4, <4>1, Zenon DEF StepsFit, TaskRecord
      <4>2. CASE step[e] # last
        <5>1. step'[e] \in 1..last /\ pc'[e] = "dispatch" /\ Len(log[e]) = step'[e] - 1
          BY <2>4, <3>1, <3>2, <4>2
        <5>. QED
          BY <1>1, <2>1, <2>3, <2>4, <3>1, <3>2, <5>1, Zenon DEF StepsFit, TaskRecord
      <4>. QED
        BY <4>1, <4>2, Zenon
    <3>. QED
      BY <2>1, <3>1, <3>5, StepsOthers, Zenon
  <2>6. CASE FinishFailed(e) /\ UNCHANGED step
    <3>1. /\ StepsDomains' /\ pc'[e] = "ended" /\ row'[e] = "failed"
          /\ \A f \in Exec \ {e} : row'[f] = row[f] /\ pc'[f] = pc[f]
      BY <1>1, <2>1, <2>6, Zenon DEF FinishFailed, StepsDomains
    <3>2. StepsFit(e)' /\ TaskRecord(task[e])'
      BY <1>1, <2>1, <2>3, <2>4, <3>1, Zenon DEF StepsFit, TaskRecord
    <3>. QED
      BY <2>1, <2>6, <3>1, <3>2, StepsOthers, Zenon
  <2>. QED
    BY <2>2, <2>5, <2>6, Zenon
<1>4. CASE WorkerDies(e)
  <2>1. /\ pc[e] \in {"opening", "build", "dispatch", "await"} /\ pc'[e] = "dead"
        /\ StepsDomains'
        /\ UNCHANGED <<deployment, targets, queries, row, action, step, task, log>>
        /\ \A f \in Exec \ {e} : pc'[f] = pc[f]
    BY <1>1, <1>4, Zenon DEF WorkerDies, StepsDomains, setting, cluster
  <2>2. StepsOf(e)' = StepsOf(e) /\ (LogFits(e)' <=> LogFits(e))
    BY <2>1, LogSame, Zenon
  <2>3. StepsFit(e)' /\ TaskRecord(task[e])'
    BY <1>1, <2>1, <2>2, Zenon DEF StepsFit, TaskRecord
  <2>. QED
    BY <2>1, <2>3, StepsOthers, Zenon
<1>. QED
  BY <1>3, <1>4, Zenon

LEMMA ProbeKeepsSteps ==
    ASSUME StepsInv, NEW e \in Exec, ProbeTakes(e) \/ ProbeWrites(e) \/ ProbeFails(e)
    PROVE  StepsInv'
<1>. DEFINE steps == StepsOf(e).steps
            n == task[e].step
<1>1. /\ StepsDomains /\ TaskRecord(task[e]) /\ StepsFit(e)
  BY Zenon DEF StepsInv
<1>2. Shape(action[e].playbook, action[e].params, PatchesOf(e), StepsOf(e))
  BY ShapeOf, Zenon
<1>3. /\ task[e].stage \in {"sent", "taken"}
      /\ UNCHANGED <<deployment, targets, action, pc, row, step>>
      /\ queries' \subseteq queries
  BY Zenon DEF ProbeTakes, ProbeWrites, ProbeFails, setting, cluster
<1>4. StepsOf(e)' = StepsOf(e)
  BY <1>3, StepsSame, Zenon
<1>5. /\ n \in 1..Len(steps) /\ Len(steps) \in Nat /\ Len(log[e]) = n - 1 /\ LogFits(e)
      /\ row[e] # "succeeded"
      /\ pc[e] \notin {"idle", "opening", "build", "dispatch", "settle", "check", "closing"}
  BY <1>1, <1>2, <1>3, Zenon DEF StepsFit, Shape
<1>6. CASE ProbeTakes(e) \/ ProbeFails(e)
  <2>1. /\ log' = log /\ queries' = queries /\ StepsDomains'
        /\ \A f \in Exec \ {e} : task'[f] = task[f]
    BY <1>1, <1>3, <1>6, Zenon DEF ProbeTakes, ProbeFails, StepsDomains, cluster
  <2>2. /\ task'[e].stage \in {"taken", "refused"} /\ task'[e].step = n
        /\ DOMAIN task'[e] = {"stage", "step", "base"}
    <3>1. \/ task'[e] = [task[e] EXCEPT !.stage = "refused"]
          \/ \E b : task'[e] = [task[e] EXCEPT !.stage = "taken", !.base = b]
      BY <1>1, <1>6, Zenon DEF ProbeTakes, ProbeFails, StepsDomains
    <3>. QED
      BY <1>1, <3>1, Zenon DEF TaskRecord
  <2>3. LogFits(e)' <=> LogFits(e)
    BY <1>3, <2>1, LogSame, Zenon
  <2>4. StepsFit(e)' /\ TaskRecord(task[e])'
    BY <1>1, <1>3, <1>4, <1>5, <2>1, <2>2, <2>3, Zenon DEF StepsFit, TaskRecord
  <2>. QED
    BY <1>3, <2>1, <2>4, StepsOthers, Zenon
<1>7. CASE ProbeWrites(e)
  <2>. DEFINE s == ThisStep(e)
  <2>1. /\ StepsDomains' /\ log'[e] = Append(log[e], s)
        /\ \A f \in Exec \ {e} : task'[f] = task[f] /\ log'[f] = log[f]
        /\ task'[e] = [task[e] EXCEPT !.stage = "done"]
        /\ s.op = "presto_kill_query" => s.target \notin queries'
    BY <1>1, <1>3, <1>7, Zenon DEF ProbeWrites, StepsDomains
  <2>2. task'[e].stage = "done" /\ task'[e].step = n /\ TaskRecord(task'[e])
    BY <1>1, <2>1, Zenon DEF TaskRecord
  <2>3. s = steps[n]
    BY Zenon DEF ThisStep
  <2>. HIDE DEF s
  <2>4. /\ log[e] \in Seq({steps[i] : i \in 1..Len(steps)})
        /\ s \in {steps[i] : i \in 1..Len(steps)}
    BY <1>5, <2>3, Zenon DEF LogFits
  <2>5. /\ log'[e] \in Seq({steps[i] : i \in 1..Len(steps)}) /\ Len(log'[e]) = n
        /\ \A i \in 1..n : log'[e][i] = IF i = n THEN s ELSE log[e][i]
    BY <1>5, <2>1, <2>4
  <2>6. LogFits(e)'
    <3>1. \A i \in 1..n : log'[e][i] = steps[i]
      <4>1. \A i \in 1..n - 1 : log[e][i] = steps[i]
        BY <1>5, Zenon DEF LogFits
      <4>2. \A i \in 1..n : i = n \/ i \in 1..n - 1
        BY <1>5
      <4>. QED
        BY <2>3, <2>5, <4>1, <4>2, Zenon
    <3>. QED
      BY <1>4, <1>5, <2>5, <3>1 DEF LogFits
  <2>7. \A i \in 1..Len(log'[e]) :
           log'[e][i].op = "presto_kill_query" => log'[e][i].target \notin queries'
    <3>1. \A i \in 1..Len(log[e]) :
             log[e][i].op = "presto_kill_query" => log[e][i].target \notin queries'
      BY <1>1, <1>3, Zenon DEF StepsFit
    <3>. QED
      BY <1>5, <2>1, <2>5, <3>1
  <2>8. StepsFit(e)'
    BY <1>1, <1>3, <1>4, <1>5, <2>2, <2>5, <2>6, <2>7, Zenon DEF StepsFit
  <2>. QED
    BY <1>3, <2>1, <2>2, <2>8, StepsOthers, Zenon
<1>. QED
  BY <1>6, <1>7, Zenon

LEMMA VerifyKeepsSteps ==
    ASSUME StepsInv, NEW e \in Exec, Settled(e) \/ RunCheck(e) \/ VerifyCommit(e)
    PROVE  StepsInv'
<1>1. /\ StepsDomains /\ TaskRecord(task[e]) /\ StepsFit(e)
  BY Zenon DEF StepsInv
<1>2. /\ UNCHANGED <<deployment, targets, queries, action, step, task, log>>
      /\ pc[e] \in {"settle", "check", "closing"}
      /\ pc'[e] \in {"check", "closing", "raised", "ended"}
      /\ StepsDomains' /\ \A f \in Exec \ {e} : pc'[f] = pc[f] /\ row'[f] = row[f]
  <2>1. CASE Settled(e)
    BY <1>1, <2>1, Zenon DEF Settled, StepsDomains, setting, cluster
  <2>2. CASE RunCheck(e)
    BY <1>1, <2>2, Zenon DEF RunCheck, Again, StepsDomains, setting, cluster
  <2>3. CASE VerifyCommit(e)
    BY <1>1, <2>3, Zenon DEF VerifyCommit, Again, StepsDomains, setting, cluster
  <2>. QED
    BY <2>1, <2>2, <2>3, Zenon
<1>3. StepsOf(e)' = StepsOf(e) /\ (LogFits(e)' <=> LogFits(e))
  BY <1>2, LogSame, Zenon
<1>4. StepsFit(e)' /\ TaskRecord(task[e])'
  BY <1>1, <1>2, <1>3, Zenon DEF StepsFit, TaskRecord
<1>. QED
  BY <1>2, <1>4, StepsOthers, Zenon

LEMMA StepsStep == ASSUME StepsInv, [Next]_vars PROVE StepsInv'
<1>1. ASSUME UNCHANGED <<deployment, targets, queries, action, pc, row, step, task, log>>
      PROVE  StepsInv'
  <2>1. \A e \in Exec : StepsFit(e)' /\ TaskRecord(task[e])'
    BY <1>1, StepsFrame, Zenon DEF StepsInv
  <2>. QED
    BY <1>1, <2>1, Zenon DEF StepsInv, StepsDomains
<1>2. CASE PlaybookNext
  BY <1>1, <1>2, OpeningKeepsSteps, AnswersKeepSteps, ProbeKeepsSteps, VerifyKeepsSteps, Zenon
  DEF PlaybookNext, Seed, setting, cluster
<1>3. CASE \E j \in Job : KeyJob(j)
  BY <1>1, <1>3, Zenon DEF KeyJob, playbookVars, setting, cluster
<1>4. CASE Start
  BY <1>1, <1>4, Zenon DEF Start, cluster
<1>5. CASE UNCHANGED vars
  BY <1>1, <1>5, Zenon DEF vars, playbookVars, setting, cluster
<1>. QED
  BY <1>2, <1>3, <1>4, <1>5, Zenon DEF Next

(* StepsInv is an invariant: what execute_playbook believes of its steps    *)
(* and what the probe has carried out agree, while answers are lost and     *)
(* workers die.                                                             *)
THEOREM StepsInvariant == Spec => []StepsInv
<1>1. ASSUME Init PROVE StepsInv
  <2>1. \A e \in Exec : /\ pc[e] = "idle" /\ log[e] = <<>> /\ task[e] = NoTask
                        /\ step[e] = 1 /\ row[e] = "none"
    BY <1>1, Zenon DEF Init, PlaybookInit
  <2>2. StepsDomains
    BY <1>1, Zenon DEF Init, PlaybookInit, StepsDomains
  <2>. QED
    BY <2>1, <2>2 DEF StepsInv, StepsFit, TaskRecord, NoTask
<1>. QED
  BY <1>1, StepsStep, PTL DEF Spec

(* The probe carries out the steps of an approved action in their order,    *)
(* each at most once and none that the builder did not list, although       *)
(* answers time out, workers die, and a task is still at the probe after    *)
(* its execution was given up.                                              *)
THEOREM StepsRunInOrder == Spec => []StepsInOrder
<1>1. StepsInv => StepsInOrder
  BY Zenon DEF StepsInv, StepsFit, LogFits, StepsInOrder
<1>. QED
  BY <1>1, StepsInvariant, PTL

(* An execution called succeeded ran every step, and the query it was to    *)
(* kill is gone.                                                            *)
THEOREM SucceededIsDone == Spec => []SucceededMeansDone
<1>1. ASSUME StepsInv PROVE SucceededMeansDone
  <2>. SUFFICES ASSUME NEW e \in Exec, row[e] = "succeeded"
                PROVE  /\ log[e] = StepsOf(e).steps
                       /\ action[e].playbook = "presto.kill_query" =>
                            action[e].params.query \notin queries
    BY Zenon DEF SucceededMeansDone
  <2>1. /\ log[e] = StepsOf(e).steps /\ log[e] # <<>>
        /\ \A i \in 1..Len(log[e]) :
             log[e][i].op = "presto_kill_query" => log[e][i].target \notin queries
    BY <1>1, Zenon DEF StepsInv, StepsFit
  <2>2. Shape(action[e].playbook, action[e].params, PatchesOf(e), StepsOf(e))
    BY ShapeOf, Zenon
  <2>3. Len(log[e]) >= 1
    BY <2>1, <2>2 DEF Shape
  <2>. QED
    BY <2>1, <2>2, <2>3 DEF Shape
<1>. QED
  BY <1>1, StepsInvariant, PTL

(***************************************************************************)
(* The properties that the probe changes                                   *)
(***************************************************************************)

(* An execution keeps its action, and only ProbeTakes reads a file and only *)
(* ProbeWrites changes one.                                                 *)
LEMMA TaskMoves ==
    ASSUME StepsInv, [Next]_vars, NEW e \in Exec
    PROVE  /\ UNCHANGED <<deployment, targets>>
           /\ pc[e] # "idle" => pc'[e] # "idle" /\ action'[e] = action[e]
           /\ task'[e] = task[e] \/ task'[e].stage # "taken" \/ ProbeTakes(e)
           /\ log'[e] = log[e] \/ ProbeWrites(e)
           /\ UNCHANGED <<file, env>> \/ \E f \in Exec : ProbeWrites(f)
<1>. DEFINE Goal == /\ UNCHANGED <<deployment, targets>>
                    /\ pc[e] # "idle" => pc'[e] # "idle" /\ action'[e] = action[e]
                    /\ task'[e] = task[e] \/ task'[e].stage # "taken" \/ ProbeTakes(e)
                    /\ log'[e] = log[e] \/ ProbeWrites(e)
                    /\ UNCHANGED <<file, env>> \/ \E f \in Exec : ProbeWrites(f)
<1>. USE DEF setting, cluster
<1>1. /\ DOMAIN pc = Exec /\ DOMAIN action = Exec /\ DOMAIN task = Exec /\ DOMAIN log = Exec
      /\ TaskRecord(task[e])
  BY Zenon DEF StepsInv, StepsDomains
<1>2. ASSUME NEW f \in Exec, Open(f) \/ OpenCommit(f) \/ Build(f) PROVE Goal
  BY <1>1, <1>2, Zenon DEF Open, OpenCommit, Build, FinishFailed
<1>3. ASSUME NEW f \in Exec, Dispatch(f) PROVE Goal
  BY <1>1, <1>3, Zenon DEF Dispatch, NoTask
<1>4. ASSUME NEW f \in Exec, StepResult(f) \/ WorkerDies(f) PROVE Goal
  BY <1>1, <1>4, Zenon DEF StepResult, NextStep, FinishFailed, WorkerDies
<1>5. ASSUME NEW f \in Exec, ProbeTakes(f) PROVE Goal
  BY <1>1, <1>5, Zenon DEF ProbeTakes
<1>6. ASSUME NEW f \in Exec, ProbeWrites(f) \/ ProbeFails(f) PROVE Goal
  BY <1>1, <1>6 DEF ProbeWrites, ProbeFails, TaskRecord
<1>7. ASSUME NEW f \in Exec, Settled(f) \/ RunCheck(f) \/ VerifyCommit(f) PROVE Goal
  BY <1>1, <1>7, Zenon DEF Settled, RunCheck, VerifyCommit, Again
<1>8. CASE PlaybookNext
  BY <1>2, <1>3, <1>4, <1>5, <1>6, <1>7, <1>8, Zenon DEF PlaybookNext, Seed
<1>9. CASE \E j \in Job : KeyJob(j)
  BY <1>9, Zenon DEF KeyJob, playbookVars
<1>10. CASE Start
  BY <1>10, Zenon DEF Start
<1>11. CASE UNCHANGED vars
  BY <1>11, Zenon DEF vars, playbookVars
<1>. QED
  BY <1>8, <1>9, <1>10, <1>11, Zenon DEF Next

(***************************************************************************)
(* The counters                                                            *)
(***************************************************************************)

RowsStay ==
    \A e \in Exec : row[e] # "none" =>
        row'[e] # "none" /\ action'[e].playbook = action[e].playbook

(* Rows are never deleted: a count that was right stays right.              *)
LEMMA RowsGrow ==
    ASSUME RowsStay
    PROVE  /\ \A pb : /\ Cardinality(RowsOf(pb)) \in Nat /\ Cardinality(RowsOf(pb))' \in Nat
                      /\ Cardinality(RowsOf(pb)) <= Cardinality(RowsOf(pb))'
           /\ \A m, pb : Counted(m, pb) =>
                m \in Counters /\ m.runs <= Cardinality(RowsOf(pb))'
<1>1. ASSUME NEW pb
      PROVE  /\ Cardinality(RowsOf(pb)) \in Nat /\ Cardinality(RowsOf(pb))' \in Nat
             /\ Cardinality(RowsOf(pb)) <= Cardinality(RowsOf(pb))'
  <2>1. /\ RowsOf(pb) \subseteq Exec /\ RowsOf(pb)' \subseteq Exec
        /\ RowsOf(pb) \subseteq RowsOf(pb)'
    BY Zenon DEF RowsOf, RowsStay
  <2>2. IsFiniteSet(RowsOf(pb)) /\ IsFiniteSet(RowsOf(pb)')
    BY <2>1, PlaybookAssumption, FS_Subset, Zenon
  <2>. QED
    BY <2>1, <2>2, FS_Subset, FS_CardinalityType, Zenon
<1>. QED
  BY <1>1 DEF Counted, Counters

(* A step that leaves the counters and what was read of them alone.         *)
LEMMA CountQuiet ==
    ASSUME CountInv, RowsStay, UNCHANGED <<maturity, seen, action>>,
           \A e \in Exec : pc'[e] = pc[e] \/ (/\ pc[e] # "idle" /\ pc'[e] # "closing"
                                              /\ pc'[e] \in Running => pc[e] \in Running)
    PROVE  CountInv'
<1>1. \A pb \in DOMAIN maturity' : (maturity[pb] = NoRow \/ Counted(maturity[pb], pb))'
  BY RowsGrow, Zenon DEF CountInv, Counted
<1>2. \A e \in Exec : (seen[e] = NoRow \/ Counted(seen[e], action[e].playbook))'
  BY RowsGrow, Zenon DEF CountInv, Counted
<1>3. \A e \in Exec : /\ (pc[e] # "idle" => action[e].playbook \in DOMAIN maturity)'
                      /\ (pc[e] \in Running => maturity[action[e].playbook] # NoRow)'
                      /\ (pc[e] = "closing" => seen[e] # NoRow)'
  BY Zenon DEF CountInv
<1>. QED
  BY <1>1, <1>2, <1>3, Zenon DEF CountInv

LEMMA OpenKeepsCount ==
    ASSUME StepsInv, CountInv, NEW e \in Exec, Open(e) PROVE CountInv'
<1>1. PICK a \in Actions(e) : /\ action' = [action EXCEPT ![e] = a]
                              /\ seen' = [seen EXCEPT ![e] = maturity[a.playbook]]
  BY Zenon DEF Open
<1>2. /\ pc[e] = "idle" /\ pc'[e] = "opening" /\ row' = row /\ maturity' = maturity
      /\ row[e] = "none" /\ DOMAIN action = Exec /\ DOMAIN seen = Exec
      /\ DOMAIN seen' = Exec /\ \A f \in Exec \ {e} : pc'[f] = pc[f]
  BY <1>1, Zenon DEF Open, StepsInv, StepsFit, StepsDomains, CountInv
<1>3. RowsStay
  BY <1>1, <1>2, Zenon DEF RowsStay
<1>4. a.playbook \in DOMAIN maturity
  BY DEF CountInv, AllowedActions
<1>5. \A pb \in DOMAIN maturity' : (maturity[pb] = NoRow \/ Counted(maturity[pb], pb))'
  BY <1>2, <1>3, RowsGrow, Zenon DEF CountInv, Counted
<1>6. ASSUME NEW f \in Exec
      PROVE  /\ (seen[f] = NoRow \/ Counted(seen[f], action[f].playbook))'
             /\ (pc[f] # "idle" => action[f].playbook \in DOMAIN maturity)'
             /\ (pc[f] \in Running => maturity[action[f].playbook] # NoRow)'
             /\ (pc[f] = "closing" => seen[f] # NoRow)'
  <2>1. CASE f = e
    <3>1. seen'[e] = maturity'[a.playbook] /\ action'[e] = a
      BY <1>1, <1>2, Zenon
    <3>. QED
      BY <1>2, <1>4, <1>5, <2>1, <3>1, Zenon DEF Running
  <2>2. CASE f # e
    <3>1. seen'[f] = seen[f] /\ action'[f] = action[f] /\ pc'[f] = pc[f]
      BY <1>1, <1>2, <2>2, Zenon
    <3>. QED
      BY <1>2, <1>3, <3>1, RowsGrow, Zenon DEF CountInv, Counted
  <2>. QED
    BY <2>1, <2>2, Zenon
<1>. QED
  BY <1>2, <1>5, <1>6, Zenon DEF CountInv, AllowedActions

SeenFits(e) ==
    /\ seen[e] = NoRow \/ Counted(seen[e], action[e].playbook)
    /\ pc[e] # "idle" => action[e].playbook \in DOMAIN maturity
    /\ pc[e] \in Running => maturity[action[e].playbook] # NoRow
    /\ pc[e] = "closing" => seen[e] # NoRow

LEMMA CountOthers ==
    ASSUME CountInv, RowsStay, UNCHANGED action, NEW e \in Exec,
           DOMAIN maturity' = DOMAIN maturity, DOMAIN seen' = Exec,
           \A pb \in DOMAIN maturity :
              /\ maturity'[pb] = maturity[pb] \/ Counted(maturity[pb], pb)'
              /\ maturity[pb] # NoRow => maturity'[pb] # NoRow,
           \A f \in Exec \ {e} : seen'[f] = seen[f] /\ pc'[f] = pc[f],
           SeenFits(e)'
    PROVE  CountInv'
<1>1. \A pb \in DOMAIN maturity' : (maturity[pb] = NoRow \/ Counted(maturity[pb], pb))'
  BY RowsGrow, Zenon DEF CountInv, Counted
<1>2. ASSUME NEW f \in Exec, f # e PROVE SeenFits(f)'
  <2>1. (seen[f] = NoRow \/ Counted(seen[f], action[f].playbook))'
    BY <1>2, RowsGrow, Zenon DEF CountInv, Counted
  <2>. QED
    BY <1>2, <2>1, Zenon DEF CountInv, SeenFits, Running
<1>. QED
  BY <1>1, <1>2, Zenon DEF CountInv, SeenFits, AllowedActions

LEMMA NoRowIsNone == NoRow \notin Counters /\ ZeroRow \in Counters /\ ZeroRow.runs = 0
BY PlaybookAssumption, Zenon DEF NoRow, ZeroRow, Counters

LEMMA OpenCommitKeepsCount ==
    ASSUME StepsInv, CountInv, NEW e \in Exec, OpenCommit(e) PROVE CountInv'
<1>. DEFINE pb == action[e].playbook
<1>1. /\ pc[e] = "opening" /\ row[e] = "none" /\ action' = action
      /\ DOMAIN row = Exec /\ DOMAIN pc = Exec
      /\ DOMAIN seen' = Exec /\ seen'[e] = NoRow
      /\ \A f \in Exec \ {e} : seen'[f] = seen[f]
  BY Zenon DEF OpenCommit, StepsInv, StepsFit, StepsDomains, CountInv
<1>2. pb \in DOMAIN maturity /\ (seen[e] = NoRow \/ Counted(seen[e], pb))
  BY <1>1, Zenon DEF CountInv
<1>3. CASE seen[e] = NoRow /\ maturity[pb] # NoRow
  <2>1. /\ UNCHANGED <<maturity, row>> /\ pc'[e] = "raised"
        /\ \A f \in Exec \ {e} : pc'[f] = pc[f]
    BY <1>1, <1>3, Zenon DEF OpenCommit
  <2>2. RowsStay /\ SeenFits(e)'
    BY <1>1, <1>2, <2>1, Zenon DEF RowsStay, SeenFits, Running
  <2>. QED
    BY <1>1, <2>1, <2>2, CountOthers, Zenon
<1>4. CASE ~(seen[e] = NoRow /\ maturity[pb] # NoRow)
  <2>. DEFINE m == IF seen[e] = NoRow THEN ZeroRow ELSE seen[e]
  <2>1. /\ maturity' = [maturity EXCEPT ![pb] = CountRun(m)]
        /\ row' = [row EXCEPT ![e] = "running"] /\ pc'[e] = "build"
        /\ \A f \in Exec \ {e} : pc'[f] = pc[f]
    BY <1>1, <1>4, Zenon DEF OpenCommit
  <2>2. RowsStay
    BY <1>1, <2>1, Zenon DEF RowsStay
  <2>3. m \in Counters /\ m.runs <= Cardinality(RowsOf(pb))
    BY <1>2, <2>2, NoRowIsNone, RowsGrow DEF Counted
  <2>. HIDE DEF m
  <2>4. CountRun(m) \in Counters /\ CountRun(m).runs = m.runs + 1
    BY <2>3 DEF CountRun, Counters
  <2>5. Cardinality(RowsOf(pb))' = Cardinality(RowsOf(pb)) + 1
    <3>1. RowsOf(pb)' = RowsOf(pb) \cup {e} /\ e \notin RowsOf(pb)
      BY <1>1, <2>1, Zenon DEF RowsOf
    <3>2. IsFiniteSet(RowsOf(pb))
      BY PlaybookAssumption, FS_Subset, Zenon DEF RowsOf
    <3>. QED
      BY <3>1, <3>2, FS_AddElement, Zenon
  <2>6. maturity'[pb] = CountRun(m) /\ Counted(maturity[pb], pb)'
    <3>1. maturity'[pb] = CountRun(m)
      BY <1>2, <2>1, Zenon
    <3>2. Cardinality(RowsOf(pb)) \in Nat /\ m.runs \in Nat
      BY <2>2, <2>3, RowsGrow, Zenon DEF Counters
    <3>. QED
      BY <1>1, <2>3, <2>4, <2>5, <3>1, <3>2 DEF Counted
  <2>7. \A q \in DOMAIN maturity \ {pb} : maturity'[q] = maturity[q]
    BY <2>1, Zenon
  <2>8. DOMAIN maturity' = DOMAIN maturity /\ maturity'[pb] # NoRow
    BY <2>1, <2>4, <2>6, NoRowIsNone, Zenon
  <2>9. SeenFits(e)'
    BY <1>1, <1>2, <2>1, <2>8, Zenon DEF SeenFits
  <2>. QED
    <3>1. \A q \in DOMAIN maturity :
             /\ maturity'[q] = maturity[q] \/ Counted(maturity[q], q)'
             /\ maturity[q] # NoRow => maturity'[q] # NoRow
      BY <1>1, <2>6, <2>7, <2>8, Zenon DEF Counted
    <3>. QED
      BY <1>1, <2>1, <2>2, <2>8, <2>9, <3>1, CountOthers, Zenon
<1>. QED
  BY <1>3, <1>4, Zenon

LEMMA VerifyKeepsCount ==
    ASSUME StepsInv, CountInv, NEW e \in Exec, RunCheck(e) \/ VerifyCommit(e)
    PROVE  CountInv'
<1>. DEFINE pb == action[e].playbook
<1>1. /\ pc[e] \in {"check", "closing"} /\ action' = action
      /\ DOMAIN row = Exec /\ DOMAIN pc = Exec /\ DOMAIN seen = Exec
      /\ pb \in DOMAIN maturity /\ maturity[pb] # NoRow /\ Counted(maturity[pb], pb)
  BY Zenon DEF RunCheck, VerifyCommit, StepsInv, StepsDomains, CountInv, Running
<1>2. CASE RunCheck(e)
  <2>1. /\ UNCHANGED <<maturity, row>> /\ pc[e] = "check" /\ DOMAIN seen' = Exec
        /\ \A f \in Exec \ {e} : pc'[f] = pc[f] /\ seen'[f] = seen[f]
        /\ \/ seen'[e] = NoRow /\ pc'[e] = "check"
           \/ seen'[e] = maturity[pb] /\ pc'[e] = "closing"
           \/ seen'[e] = seen[e] /\ pc'[e] \in {"check", "raised"}
    BY <1>1, <1>2, Zenon DEF RunCheck, Again
  <2>2. RowsStay
    BY <1>1, <2>1, Zenon DEF RowsStay
  <2>3. (seen[e] = NoRow \/ Counted(seen[e], action[e].playbook))'
    BY <1>1, <2>1, <2>2, RowsGrow, Zenon DEF CountInv, Counted
  <2>4. SeenFits(e)'
    BY <1>1, <2>1, <2>3, Zenon DEF SeenFits
  <2>. QED
    BY <1>1, <2>1, <2>2, <2>4, CountOthers, Zenon
<1>3. CASE VerifyCommit(e)
  <2>1. /\ pc[e] = "closing" /\ DOMAIN seen' = Exec /\ seen'[e] = NoRow
        /\ \A f \in Exec \ {e} : /\ pc'[f] = pc[f] /\ seen'[f] = seen[f]
                                 /\ row'[f] = row[f]
        /\ row'[e] \in {"succeeded", "failed"} /\ pc'[e] \in {"ended", "check", "raised"}
        /\ \/ maturity' = maturity
           \/ maturity' = [maturity EXCEPT ![pb] = [seen[e] EXCEPT !.success = @ + 1]]
    BY <1>1, <1>3, Zenon DEF VerifyCommit, Again
  <2>2. RowsStay
    BY <1>1, <2>1, Zenon DEF RowsStay
  <2>3. Counted(seen[e], pb)
    BY <2>1, Zenon DEF CountInv
  <2>. DEFINE m == [seen[e] EXCEPT !.success = @ + 1]
  <2>4. m \in Counters /\ m.runs = seen[e].runs
    BY <2>3 DEF Counted, Counters
  <2>. HIDE DEF m
  <2>5. m # NoRow /\ m.runs <= Cardinality(RowsOf(pb))'
    BY <1>1, <2>2, <2>3, <2>4, NoRowIsNone, RowsGrow, Zenon
  <2>6. maturity' = maturity \/ maturity' = [maturity EXCEPT ![pb] = m]
    BY <2>1, Zenon DEF m
  <2>7. /\ DOMAIN maturity' = DOMAIN maturity
        /\ maturity'[pb] = maturity[pb] \/ maturity'[pb] = m
        /\ \A q \in DOMAIN maturity \ {pb} : maturity'[q] = maturity[q]
    BY <1>1, <2>6, Zenon
  <2>8. \A q \in DOMAIN maturity :
           /\ maturity'[q] = maturity[q] \/ Counted(maturity[q], q)'
           /\ maturity[q] # NoRow => maturity'[q] # NoRow
    BY <1>1, <2>4, <2>5, <2>7, Zenon DEF Counted
  <2>9. SeenFits(e)'
    BY <1>1, <2>1, <2>5, <2>7, Zenon DEF SeenFits
  <2>. QED
    BY <1>1, <2>1, <2>2, <2>7, <2>8, <2>9, CountOthers, Zenon
<1>. QED
  BY <1>2, <1>3, Zenon

LEMMA SeedKeepsCount == ASSUME CountInv, Seed PROVE CountInv'
<1>1. /\ UNCHANGED <<row, action, pc, seen>>
      /\ maturity' = [pb \in DOMAIN maturity |->
                        IF maturity[pb] = NoRow THEN ZeroRow ELSE maturity[pb]]
  BY Zenon DEF Seed
<1>2. RowsStay
  BY <1>1, Zenon DEF RowsStay
<1>3. ZeroRow # NoRow /\ \A pb : Counted(ZeroRow, pb)
  BY <1>2, NoRowIsNone, RowsGrow DEF Counted
<1>4. \A pb \in DOMAIN maturity : maturity'[pb] # NoRow /\ Counted(maturity[pb], pb)'
  BY <1>1, <1>2, <1>3, RowsGrow, Zenon DEF CountInv, Counted
<1>5. \A e \in Exec : (seen[e] = NoRow \/ Counted(seen[e], action[e].playbook))'
  BY <1>1, <1>2, RowsGrow, Zenon DEF CountInv, Counted
<1>6. \A e \in Exec : /\ (pc[e] # "idle" => action[e].playbook \in DOMAIN maturity)'
                      /\ (pc[e] \in Running => maturity[action[e].playbook] # NoRow)'
                      /\ (pc[e] = "closing" => seen[e] # NoRow)'
  BY <1>1, <1>4, Zenon DEF CountInv, Running
<1>. QED
  BY <1>1, <1>4, <1>5, <1>6, Zenon DEF CountInv, AllowedActions

LEMMA QuietKeepsCount ==
    ASSUME StepsInv, CountInv, NEW e \in Exec,
           \/ Build(e) \/ Dispatch(e) \/ StepResult(e) \/ WorkerDies(e)
           \/ ProbeTakes(e) \/ ProbeWrites(e) \/ ProbeFails(e) \/ Settled(e)
    PROVE  CountInv'
<1>1. DOMAIN row = Exec /\ DOMAIN pc = Exec
  BY Zenon DEF StepsInv, StepsDomains
<1>2. /\ UNCHANGED <<maturity, seen, action>>
      /\ row' = row \/ row' = [row EXCEPT ![e] = "failed"]
      /\ \/ pc' = pc
         \/ \E p \in {"dispatch", "await", "settle", "check", "dead", "ended"} :
              /\ pc' = [pc EXCEPT ![e] = p] /\ pc[e] \in Running \cup {"opening"}
              /\ p \in Running => pc[e] \in Running
  <2>1. CASE Build(e)
    BY <2>1, Zenon DEF Build, FinishFailed, Running
  <2>2. CASE Dispatch(e)
    BY <2>2, Zenon DEF Dispatch, Running
  <2>3. CASE StepResult(e)
    BY <2>3, Zenon DEF StepResult, NextStep, FinishFailed, Running
  <2>4. CASE WorkerDies(e)
    BY <2>4, Zenon DEF WorkerDies, Running
  <2>5. CASE ProbeTakes(e) \/ ProbeWrites(e) \/ ProbeFails(e)
    BY <2>5, Zenon DEF ProbeTakes, ProbeWrites, ProbeFails
  <2>6. CASE Settled(e)
    BY <2>6, Zenon DEF Settled, Running
  <2>. QED
    BY <2>1, <2>2, <2>3, <2>4, <2>5, <2>6, Zenon
<1>3. RowsStay
  BY <1>1, <1>2, Zenon DEF RowsStay
<1>4. \A f \in Exec : pc'[f] = pc[f] \/ (/\ pc[f] # "idle" /\ pc'[f] # "closing"
                                         /\ pc'[f] \in Running => pc[f] \in Running)
  BY <1>1, <1>2, Zenon DEF Running
<1>. QED
  BY <1>2, <1>3, <1>4, CountQuiet, Zenon

LEMMA CountStep == ASSUME StepsInv, CountInv, [Next]_vars PROVE CountInv'
<1>1. ASSUME UNCHANGED <<maturity, seen, action, row, pc>> PROVE CountInv'
  BY <1>1, CountQuiet, Zenon DEF RowsStay
<1>2. CASE PlaybookNext
  BY <1>2, OpenKeepsCount, OpenCommitKeepsCount, VerifyKeepsCount, SeedKeepsCount,
     QuietKeepsCount, Zenon DEF PlaybookNext
<1>3. CASE \E j \in Job : KeyJob(j)
  BY <1>1, <1>3, Zenon DEF KeyJob, playbookVars
<1>4. CASE Start
  BY <1>1, <1>4, Zenon DEF Start
<1>5. CASE UNCHANGED vars
  BY <1>1, <1>5, Zenon DEF vars, playbookVars
<1>. QED
  BY <1>2, <1>3, <1>4, <1>5, Zenon DEF Next

(* The counters in playbooks.maturity never claim more runs than there are  *)
(* rows of executions: two transactions that read the same counters lose a  *)
(* run, and none is ever counted twice.                                     *)
THEOREM RunsHaveRows == Spec => []RunsWithinRows
<1>1. ASSUME Init PROVE CountInv
  <2>1. /\ DOMAIN maturity = {a.playbook : a \in AllowedActions} /\ DOMAIN seen = Exec
        /\ \A pb \in DOMAIN maturity : maturity[pb] = NoRow \/ maturity[pb] = ZeroRow
        /\ \A e \in Exec : pc[e] = "idle" /\ seen[e] = NoRow
    BY <1>1, Zenon DEF Init, PlaybookInit
  <2>2. \A pb : Counted(ZeroRow, pb)
    <3>1. \A pb : IsFiniteSet(RowsOf(pb))
      BY PlaybookAssumption, FS_Subset, Zenon DEF RowsOf
    <3>. QED
      BY <3>1, FS_CardinalityType, NoRowIsNone DEF Counted
  <2>. QED
    BY <2>1, <2>2, Zenon DEF CountInv, Running
<1>2. CountInv => RunsWithinRows
  BY Zenon DEF CountInv, RunsWithinRows, Counted, RowsOf
<1>. QED
  BY <1>1, <1>2, CountStep, StepsInvariant, PTL DEF Spec
=============================================================================
