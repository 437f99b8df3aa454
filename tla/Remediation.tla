----------------------------- MODULE Remediation -----------------------------
(***************************************************************************)
(* The write channel from the first installation on: the signing key is    *)
(* made (SigningKey), the worker and the probe gateway start with it, and  *)
(* approved actions are executed and verified (Playbook).                  *)
(***************************************************************************)
EXTENDS Playbook

CONSTANTS
    Job,          \* executions of the signing-key job
    Installs(_)   \* bound: the installations considered for a deployment

(* A job is none of the names that SigningKey gives to keys and volumes. *)
ASSUME RemediationAssumption ==
    /\ Job \cap {None, "old", "stale", "partial", "shared"} = {}
    /\ None \notin {"old", "stale", "partial", "ephemeral"}

VARIABLES
    install, disk, secret, job   \* as in SigningKey

K == INSTANCE SigningKey

keys == <<install, disk, secret, job>>
vars == <<playbookVars, keys>>

Init ==
    /\ PlaybookInit
    /\ K!KeyInit(Installs(deployment))

(* The job runs before the services do. *)
KeyJob(j) ==
    /\ signer = None
    /\ \/ K!Works(j) /\ UNCHANGED playbookVars
       \/ K!Breaks(j) /\ Fault
          /\ UNCHANGED <<setting, cluster, maturity, row, action, pc, step, task, log, seen,
                         check, good, attempt>>

(* build_investigation_activities calls bootstrap_signing_key on the        *)
(* read-only mount: only a key whose .pub is proved to be there loads.      *)
(* Otherwise the write raises, and the worker does not start, or signs with *)
(* a key of its own if config.signing.allow_ephemeral lets it.              *)
WorkerSigner(allowEphemeral) ==
    IF K!Mounted.key # None /\ K!SidecarProved(K!Mounted.pub, K!Mounted.key)
    THEN K!Mounted.key
    ELSE IF allowEphemeral THEN "ephemeral" ELSE None

(* The worker and the probe gateway start, and the job's containers, which  *)
(* have finished, are gone.  The gateway hands the mounted .pub to the      *)
(* probe in RegisterAck; the probe has registered before an investigation   *)
(* gets as far as an action, which takes its evidence.                      *)
Start ==
    /\ signer = None /\ K!Ready
    /\ \E allow \in BOOLEAN :
         WorkerSigner(allow) # None /\ signer' = WorkerSigner(allow)
    /\ trusted' = K!Mounted.pub
    /\ job' = [j \in Job |-> K!NewJob]
    /\ UNCHANGED <<deployment, targets, enabled, cluster, maturity, row, action, pc, step,
                   task, log, seen, check, good, attempt, faults, install, disk, secret>>

Next ==
    \/ \E j \in Job : KeyJob(j)
    \/ Start
    \/ PlaybookNext /\ UNCHANGED keys

Spec == Init /\ [][Next]_vars

(***************************************************************************)
(* Properties of the composition                                           *)
(***************************************************************************)

TypeOK ==
    /\ PlaybookTypeOK /\ K!KeyTypeOK
    /\ signer \in K!Key \cup {None, "ephemeral"} /\ trusted \in K!Key \cup {None}

(* "silent ephemeral keys must not substitute in prod (probe would reject   *)
(* unknown-key signatures)": whatever failed or died while the key was      *)
(* made, a worker that runs signs with the key that the probe verifies      *)
(* against, unless it was allowed an ephemeral one.                         *)
SignaturesTrusted == signer \in {None, "ephemeral"} \/ signer = trusted

(* Every successful run of the job holds the key that is mounted, also when *)
(* two pods raced to create the Secret or an earlier run died half-way.     *)
JobsAgree == K!JobsAgree

(* A key on the shared volume is never replaced, and appears whole.         *)
KeyKept == K!KeyKept
=============================================================================
