----------------------------- MODULE SigningKey -----------------------------
(***************************************************************************)
(* How the key of the write channel comes to be where the worker and the   *)
(* probe gateway find it: bootstrap_signing_key and the job that calls it, *)
(* file operation by file operation, on a volume that the runs of the job  *)
(* share (compose) or through a Kubernetes Secret that its pods, each with *)
(* a volume of its own, race to create (Helm).                             *)
(*                                                                         *)
(* A key pair is one value; a .pub file holds the key it belongs to.  Job  *)
(* j generates the key j.                                                  *)
(***************************************************************************)
EXTENDS Naturals

CONSTANTS
    Job,    \* executions of the job
    None    \* no file, no entry, no key

VARIABLES
    install,  \* "volume", or "secret" (--k8s-secret)
    disk,     \* each volume's key_path, its .tmp, .pub and .pub.tmp
    secret,   \* the entries of the Secret, both None if there is none
    job       \* per job: where it is, the key of its signer, the Secret it
              \* was sent, whether it is in _create_secret

files == <<disk, secret>>
keyVars == <<install, disk, secret, job>>

Key == Job \cup {"old", "stale"}
Bytes == Key \cup {None, "partial"}
Over == {"ok", "error", "killed"}
Pc == Over \cup {"new", "get", "load", "exists", "create", "write", "rename", "sidecar",
                 "pubtmp", "pubrename", "return", "post", "reget"}

Volume == Job \cup {"shared"}
VolumeOf(j) == IF install = "secret" THEN j ELSE "shared"
Here(j) == disk[VolumeOf(j)]

NoFiles == [key |-> None, tmp |-> None, pub |-> None, pubtmp |-> None]
NoSecret == [key |-> None, pub |-> None]
NewJob == [pc |-> "new", held |-> None, got |-> NoSecret, creating |-> FALSE]

(* The volume is empty, or has a key with its .pub, without one, or with    *)
(* that of the key it replaced by hand; a Secret may lack an entry.         *)
KeyInit(installs) ==
    /\ install \in installs
    /\ job = [j \in Job |-> NewJob]
    /\ LET found == {NoSecret} \cup [key : {"old"}, pub : {"old", "stale", None}]
       IN  \/ /\ install = "volume" /\ secret = NoSecret
              /\ \E f \in found : disk = [v \in Volume |->
                    IF v = "shared" THEN [NoFiles EXCEPT !.key = f.key, !.pub = f.pub]
                    ELSE NoFiles]
           \/ /\ install = "secret" /\ disk = [v \in Volume |-> NoFiles]
              /\ secret \in found \cup {[key |-> None, pub |-> "old"]}

At(j, pc) == job[j].pc = pc
Goto(j, pc) == job' = [job EXCEPT ![j].pc = pc]

(* The process is over; with a pod goes its volume, which was d. *)
Ends(j, pc, d) ==
    /\ job' = [job EXCEPT ![j] =
                 [pc |-> pc, held |-> IF pc = "ok" THEN job[j].held ELSE None,
                  got |-> NoSecret, creating |-> FALSE]]
    /\ disk' = IF install = "secret" THEN [d EXCEPT ![j] = NoFiles] ELSE d
    /\ UNCHANGED install

(***************************************************************************)
(* The job                                                                 *)
(***************************************************************************)

(* main.  The runs on a shared volume follow one another. *)
Main(j) ==
    /\ At(j, "new")
    /\ install = "volume" => \A i \in Job : job[i].pc \in Over \cup {"new"}
    /\ Goto(j, IF install = "secret" THEN "get" ELSE "exists")
    /\ UNCHANGED <<files, install>>

(* bootstrap_from_k8s_secret: 200 loads the Secret, 404 creates it. *)
GetSecret(j) ==
    /\ At(j, "get")
    /\ job' = [job EXCEPT ![j].pc = IF secret = NoSecret THEN "exists" ELSE "load",
                          ![j].creating = (secret = NoSecret), ![j].got = secret]
    /\ UNCHANGED <<files, install>>

(* _load_secret_to_path.  Nobody else sees the pod's files, so the two      *)
(* writes are one step.                                                     *)
LoadSecret(j) ==
    LET got == job[j].got
    IN  /\ At(j, "load")
        /\ IF got.key = None THEN Ends(j, "error", disk)
           ELSE /\ disk' = [disk EXCEPT ![j].key = got.key,
                                        ![j].pub = IF got.pub = None THEN @ ELSE got.pub]
                /\ job' = [job EXCEPT ![j].pc = "exists", ![j].creating = FALSE]
                /\ UNCHANGED install
        /\ UNCHANGED secret

(* The key is generated again although the file is there. *)
KeyExistsIgnored(j) ==
    At(j, "exists") /\ Goto(j, "create") /\ UNCHANGED <<files, install>>

(* bootstrap_signing_key: an existing key is loaded. *)
KeyExists(j) ==
    /\ At(j, "exists")
    /\ job' = IF Here(j).key = None THEN [job EXCEPT ![j].pc = "create"]
              ELSE [job EXCEPT ![j].pc = "sidecar", ![j].held = Here(j).key]
    /\ UNCHANGED <<files, install>>

(* O_CREAT | O_EXCL on the temporary file. *)
CreateTmp(j) ==
    /\ At(j, "create")
    /\ IF Here(j).tmp # None THEN Ends(j, "error", disk)
       ELSE /\ disk' = [disk EXCEPT ![VolumeOf(j)].tmp = "partial"]
            /\ job' = [job EXCEPT ![j].pc = "write", ![j].held = j]
            /\ UNCHANGED install
    /\ UNCHANGED secret

WriteTmp(j) ==
    /\ At(j, "write") /\ Goto(j, "rename")
    /\ disk' = [disk EXCEPT ![VolumeOf(j)].tmp = job[j].held]
    /\ UNCHANGED <<secret, install>>

RenameTmp(j) ==
    /\ At(j, "rename")
    /\ disk' = [disk EXCEPT ![VolumeOf(j)].key = Here(j).tmp, ![VolumeOf(j)].tmp = None]
    /\ Goto(j, "sidecar")
    /\ UNCHANGED <<secret, install>>

(* A .pub that is there is taken to be the right one. *)
SidecarProvedByName(pub, held) == pub # None

(* _write_public_key_sidecar does nothing only if it has read the very      *)
(* bytes that it would write.                                               *)
SidecarProved(pub, held) == pub = held

CheckSidecar(j) ==
    /\ At(j, "sidecar")
    /\ Goto(j, IF SidecarProved(Here(j).pub, job[j].held) THEN "return" ELSE "pubtmp")
    /\ UNCHANGED <<files, install>>

WriteSidecarTmp(j) ==
    /\ At(j, "pubtmp") /\ Goto(j, "pubrename")
    /\ disk' = [disk EXCEPT ![VolumeOf(j)].pubtmp = job[j].held]
    /\ UNCHANGED <<secret, install>>

RenameSidecar(j) ==
    /\ At(j, "pubrename")
    /\ disk' = [disk EXCEPT ![VolumeOf(j)].pub = Here(j).pubtmp, ![VolumeOf(j)].pubtmp = None]
    /\ Goto(j, "return")
    /\ UNCHANGED <<secret, install>>

Return(j) ==
    /\ At(j, "return")
    /\ IF job[j].creating THEN Goto(j, "post") /\ UNCHANGED <<disk, install>>
       ELSE Ends(j, "ok", disk)
    /\ UNCHANGED secret

Posted(j) == secret' = [key |-> Here(j).key, pub |-> Here(j).pub]

(* A conflict is taken for success. *)
PostSecretConflictOk(j) ==
    /\ At(j, "post") /\ Ends(j, "ok", disk)
    /\ IF secret = NoSecret THEN Posted(j) ELSE UNCHANGED secret

(* _create_secret posts the two files; after a 409 it reads the winner's.   *)
PostSecret(j) ==
    /\ At(j, "post")
    /\ IF secret = NoSecret THEN Posted(j) /\ Ends(j, "ok", disk)
       ELSE Goto(j, "reget") /\ UNCHANGED <<files, install>>

ReGetSecret(j) ==
    /\ At(j, "reget")
    /\ job' = [job EXCEPT ![j].pc = "load", ![j].got = secret]
    /\ UNCHANGED <<files, install>>

(***************************************************************************)
(* What can go wrong                                                       *)
(***************************************************************************)

(* Another status, or an httpx error, of a request. *)
RequestFails(j) ==
    job[j].pc \in {"get", "post", "reget"} /\ Ends(j, "error", disk) /\ UNCHANGED secret

(* The Secret is created and the answer lost. *)
PostAnswerLost(j) ==
    At(j, "post") /\ secret = NoSecret /\ Posted(j) /\ Ends(j, "error", disk)

(* The key's write raises: the temporary file is unlinked. *)
WriteTmpFails(j) ==
    At(j, "write") /\ Ends(j, "error", [disk EXCEPT ![VolumeOf(j)].tmp = None])
    /\ UNCHANGED secret

(* So it is when the .pub's write or rename raises. *)
SidecarFails(j) ==
    /\ job[j].pc \in {"pubtmp", "pubrename"}
    /\ Ends(j, "error", [disk EXCEPT ![VolumeOf(j)].pubtmp = None])
    /\ UNCHANGED secret

(* The process is killed; a file it was writing is cut short. *)
Kill(j) ==
    /\ job[j].pc \notin Over \cup {"new"}
    /\ \/ Ends(j, "killed", disk)
       \/ At(j, "pubtmp") /\ Ends(j, "killed", [disk EXCEPT ![VolumeOf(j)].pubtmp = "partial"])
    /\ UNCHANGED secret

Works(j) ==
    \/ Main(j) \/ GetSecret(j) \/ LoadSecret(j) \/ KeyExists(j) \/ CreateTmp(j)
    \/ WriteTmp(j) \/ RenameTmp(j) \/ CheckSidecar(j) \/ WriteSidecarTmp(j)
    \/ RenameSidecar(j) \/ Return(j) \/ PostSecret(j) \/ ReGetSecret(j)

Breaks(j) ==
    \/ RequestFails(j) \/ PostAnswerLost(j) \/ WriteTmpFails(j) \/ SidecarFails(j) \/ Kill(j)

(***************************************************************************)
(* What the services are given                                             *)
(***************************************************************************)

(* The volume or the Secret, mounted read-only. *)
Mounted ==
    IF install = "secret" THEN secret
    ELSE [key |-> disk["shared"].key, pub |-> disk["shared"].pub]

(* depends_on: service_completed_successfully, or Helm's wait for the hook. *)
Ready ==
    /\ \E j \in Job : At(j, "ok")
    /\ \A j \in Job : job[j].pc \in Over \cup {"new"}

KeyTypeOK ==
    /\ install \in {"volume", "secret"}
    /\ disk \in [Volume -> [key : Bytes, tmp : Bytes, pub : Bytes, pubtmp : Bytes]]
    /\ secret \in [key : Bytes, pub : Bytes]
    /\ job \in [Job -> [pc : Pc, held : Bytes, got : [key : Bytes, pub : Bytes],
                        creating : BOOLEAN]]

(* Every run that exits with 0 holds the key that is mounted, also when two *)
(* pods raced to create the Secret or an earlier run died half-way.         *)
JobsAgree == \A j \in Job : At(j, "ok") => Mounted.key = job[j].held

(* A key on the shared volume is never replaced, and appears whole.         *)
KeyKept ==
    [][disk'["shared"].key # disk["shared"].key =>
         disk["shared"].key = None /\ disk'["shared"].key \in Key]_keyVars
=============================================================================
