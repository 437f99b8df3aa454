--------------------------- MODULE SigningKeyProofs ---------------------------
(***************************************************************************)
(* The safety of the signing key, for any number of runs of its job: the   *)
(* job's half of the write channel.  KeyInv is the inductive invariant of  *)
(* the keys, PubInv that of the .pub files.                                *)
(***************************************************************************)
EXTENDS Remediation, TLAPS

(***************************************************************************)
(* The inductive invariants                                                *)
(***************************************************************************)

(* A run of the job that has begun and is not over. *)
Active(j) == job[j].pc \notin K!Over \cup {"new"}

(* What a run of the job knows of the files it works on. *)
FilesFit(j, run, here) ==
    /\ run.pc \in {"create", "write", "rename"} => here.key = None
    /\ run.pc \in {"write", "rename"} => run.held = j
    /\ run.pc = "rename" => here.tmp = run.held
    /\ run.pc \in {"sidecar", "pubtmp", "pubrename", "return", "post"} =>
          run.held = here.key /\ run.held # None

(* What it knows of the Secret: a run that is not creating it has loaded it.*)
SecretFits(run, here, sec) ==
    /\ run.pc \in {"load", "reget"} => sec # K!NoSecret
    /\ run.pc = "load" => run.got = sec
    /\ run.pc \in {"create", "write", "rename", "post"} => run.creating
    /\ run.pc \in {"exists", "sidecar", "pubtmp", "pubrename", "return"} /\ ~run.creating =>
          here.key = sec.key /\ sec.key # None

(* On a shared volume there is no Secret to work on. *)
VolumeFits(run) == ~run.creating /\ run.pc \notin {"get", "load", "post", "reget"}

KeyInv ==
    /\ K!KeyTypeOK
    /\ \A v \in K!Volume : disk[v].key \in K!Key \cup {None}
    /\ secret.key \in K!Key \cup {None}
    /\ \A j \in Job : /\ FilesFit(j, job[j], K!Here(j))
                      /\ install = "secret" => SecretFits(job[j], K!Here(j), secret)
                      /\ install = "volume" => VolumeFits(job[j])
                      /\ job[j].pc = "ok" => job[j].held # None
    /\ install = "volume" => \A i, j \in Job : Active(i) /\ Active(j) => i = j
    /\ K!JobsAgree

(***************************************************************************)
(* The signing key                                                         *)
(***************************************************************************)

FilesRecord == [key : K!Bytes, tmp : K!Bytes, pub : K!Bytes, pubtmp : K!Bytes]
SecretRecord == [key : K!Bytes, pub : K!Bytes]
RunRecord == [pc : K!Pc, held : K!Bytes, got : SecretRecord, creating : BOOLEAN]

LEMMA Names ==
    /\ None \in K!Bytes /\ None \notin K!Key /\ "partial" \in K!Bytes
    /\ K!Key \subseteq K!Bytes
    /\ \A j \in Job : j \in K!Key /\ j # None /\ j # "shared" /\ K!VolumeOf(j) \in K!Volume
    /\ \A i, j \in Job : install = "secret" /\ i # j => K!VolumeOf(i) # K!VolumeOf(j)
BY RemediationAssumption, Zenon DEF K!Bytes, K!Key, K!VolumeOf, K!Volume

LEMMA Typed ==
    ASSUME KeyInv
    PROVE  /\ install \in {"volume", "secret"} /\ secret \in SecretRecord
           /\ disk \in [K!Volume -> FilesRecord] /\ job \in [Job -> RunRecord]
BY Zenon DEF KeyInv, K!KeyTypeOK, FilesRecord, SecretRecord, RunRecord

(* A step of run j that leaves it as run, its volume as here and the Secret *)
(* as sec keeps the invariant, if they fit.                                 *)
LEMMA RunStep ==
    ASSUME KeyInv, NEW j \in Job, NEW run \in RunRecord, NEW here \in FilesRecord,
           job' = [job EXCEPT ![j] = run],
           disk' = [disk EXCEPT ![K!VolumeOf(j)] = here],
           UNCHANGED install, secret' \in SecretRecord,
           secret' = secret \/ secret = K!NoSecret,
           here.key \in K!Key \cup {None}, secret'.key \in K!Key \cup {None},
           Active(j) \/ here = K!Here(j),
           here.key = K!Here(j).key \/ K!Here(j).key = None \/ install = "secret",
           run.pc \in K!Over \cup {"new"} \/ Active(j)
              \/ (install = "volume" => \A i \in Job : ~Active(i)),
           FilesFit(j, run, here),
           install = "secret" => SecretFits(run, here, secret'),
           install = "volume" => VolumeFits(run),
           run.pc = "ok" => run.held # None /\ K!Mounted'.key = run.held
    PROVE  KeyInv'
<1>1. /\ install \in {"volume", "secret"} /\ secret \in SecretRecord
      /\ disk \in [K!Volume -> FilesRecord] /\ job \in [Job -> RunRecord]
  BY Typed, Zenon
<1>2. /\ K!VolumeOf(j) \in K!Volume /\ disk'[K!VolumeOf(j)] = here /\ job'[j] = run
      /\ \A v \in K!Volume : v # K!VolumeOf(j) => disk'[v] = disk[v]
      /\ \A i \in Job : i # j => job'[i] = job[i]
      /\ disk' \in [K!Volume -> FilesRecord] /\ job' \in [Job -> RunRecord]
  BY <1>1, Names, Zenon
<1>3. K!KeyTypeOK'
  BY <1>1, <1>2, Zenon DEF K!KeyTypeOK, FilesRecord, SecretRecord, RunRecord
<1>4. \A v \in K!Volume : disk'[v].key \in K!Key \cup {None}
  BY <1>2, Zenon DEF KeyInv
<1>5. /\ \A i \in Job : K!Here(i)' = disk'[K!VolumeOf(i)]
      /\ \A i \in Job : K!VolumeOf(i) \in K!Volume
  BY Names, Zenon DEF K!Here, K!VolumeOf
<1>6. ASSUME NEW i \in Job, i # j
      PROVE  \/ K!Here(i)' = K!Here(i)
             \/ install = "volume" /\ ~Active(i)
  <2>1. CASE install = "secret"
    BY <1>2, <1>5, <1>6, <2>1, Names DEF K!Here
  <2>2. CASE install = "volume" /\ Active(j)
    BY <1>6, <2>2, Zenon DEF KeyInv
  <2>3. CASE here = K!Here(j)
    BY <1>1, <1>2, <1>5, <2>3, Zenon DEF K!Here
  <2>. QED
    BY <1>1, <2>1, <2>2, <2>3, Zenon
<1>7. ASSUME NEW i \in Job, i # j
      PROVE  /\ FilesFit(i, job[i], K!Here(i)')
             /\ install = "secret" => SecretFits(job[i], K!Here(i)', secret')
             /\ install = "volume" => VolumeFits(job[i])
             /\ job[i].pc = "ok" => job[i].held # None
  <2>1. FilesFit(i, job[i], K!Here(i)')
    BY <1>6, <1>7, Zenon DEF KeyInv, FilesFit, Active, K!Over
  <2>2. install = "secret" => SecretFits(job[i], K!Here(i)', secret')
    BY <1>6, <1>7 DEF KeyInv, SecretFits, K!NoSecret
  <2>. QED
    BY <2>1, <2>2, Zenon DEF KeyInv
<1>8. install = "volume" => \A i, k \in Job : Active(i)' /\ Active(k)' => i = k
  BY <1>2, Zenon DEF KeyInv, Active
<1>9. ASSUME NEW i \in Job, i # j, job[i].pc = "ok" PROVE K!Mounted'.key = job[i].held
  <2>1. K!Mounted.key = job[i].held /\ job[i].held # None
    BY <1>9, Zenon DEF KeyInv, K!JobsAgree, K!At
  <2>2. CASE install = "secret"
    BY <2>1, <2>2 DEF K!Mounted, K!NoSecret
  <2>3. CASE install = "volume"
    BY <1>2, <2>1, <2>3, Zenon DEF K!Mounted, K!VolumeOf, K!Here
  <2>. QED
    BY <1>1, <2>2, <2>3, Zenon
<1>10. K!JobsAgree'
  BY <1>2, <1>9, Zenon DEF K!JobsAgree, K!At
<1>11. \A i \in Job :
          /\ FilesFit(i, job[i], K!Here(i))'
          /\ (install = "secret" => SecretFits(job[i], K!Here(i), secret))'
          /\ (install = "volume" => VolumeFits(job[i]))'
          /\ (job[i].pc = "ok" => job[i].held # None)'
  <2>1. ASSUME NEW i \in Job, i = j PROVE K!Here(i)' = here /\ job'[i] = run
    BY <1>2, <1>5, <2>1, Zenon
  <2>. QED
    BY <1>2, <1>7, <2>1, Zenon
<1>. QED
  BY <1>3, <1>4, <1>8, <1>10, <1>11, Zenon DEF KeyInv

(* A run that is over: with a pod goes its volume. *)
LEMMA EndsKeeps ==
    ASSUME KeyInv, NEW j \in Job, NEW end \in K!Over, NEW here \in FilesRecord, NEW d,
           Active(j), K!Ends(j, end, d), d = [disk EXCEPT ![K!VolumeOf(j)] = here],
           here.key = K!Here(j).key, secret' \in SecretRecord,
           secret'.key \in K!Key \cup {None}, secret' = secret \/ secret = K!NoSecret,
           end = "ok" => /\ job[j].held = K!Here(j).key /\ job[j].held # None
                         /\ install = "secret" => secret'.key = job[j].held
    PROVE  KeyInv'
<1>. DEFINE run == [pc |-> end, held |-> IF end = "ok" THEN job[j].held ELSE None,
                    got |-> K!NoSecret, creating |-> FALSE]
            left == IF install = "secret" THEN K!NoFiles ELSE here
<1>1. /\ install \in {"volume", "secret"} /\ secret \in SecretRecord
      /\ disk \in [K!Volume -> FilesRecord] /\ job \in [Job -> RunRecord]
  BY Typed, Zenon
<1>2. K!NoSecret \in SecretRecord /\ K!NoFiles \in FilesRecord /\ K!NoFiles.key = None
  BY Names, Zenon DEF SecretRecord, FilesRecord, K!NoSecret, K!NoFiles
<1>3. run \in RunRecord
  BY <1>1, <1>2, Names, Zenon DEF RunRecord, K!Pc
<1>4. job' = [job EXCEPT ![j] = run] /\ UNCHANGED install
  BY Zenon DEF K!Ends
<1>5. left \in FilesRecord /\ disk' = [disk EXCEPT ![K!VolumeOf(j)] = left]
  BY <1>1, <1>2, Names, Zenon DEF K!Ends, K!VolumeOf
<1>6. left.key \in K!Key \cup {None}
      /\ (left.key = K!Here(j).key \/ install = "secret")
  BY <1>2, Names, Zenon DEF KeyInv, K!Here
<1>7. FilesFit(j, run, left) /\ SecretFits(run, left, secret') /\ VolumeFits(run)
  BY Zenon DEF FilesFit, SecretFits, VolumeFits, K!Over
<1>8. run.pc = "ok" => run.held # None /\ K!Mounted'.key = run.held
  <2>1. CASE install = "secret"
    BY <1>4, <2>1, Zenon DEF K!Mounted
  <2>2. CASE install = "volume" /\ end = "ok"
    <3>1. K!VolumeOf(j) = "shared" /\ "shared" \in K!Volume
      BY <2>2, Zenon DEF K!VolumeOf, K!Volume
    <3>2. disk'["shared"].key = K!Here(j).key
      BY <1>1, <1>5, <2>2, <3>1, Zenon
    <3>. QED
      BY <1>4, <2>2, <3>2, Zenon DEF K!Mounted
  <2>. QED
    BY <1>1, <2>1, <2>2, Zenon
<1>9. run.pc \in K!Over
  BY Zenon
<1>. HIDE DEF run, left
<1>. QED
  BY <1>3, <1>4, <1>5, <1>6, <1>7, <1>8, <1>9, RunStep, Zenon

(* The same with the files as they are. *)
LEMMA EndsAsIs ==
    ASSUME KeyInv, NEW j \in Job, NEW end \in {"error", "killed"}, Active(j),
           K!Ends(j, end, disk), UNCHANGED secret
    PROVE  KeyInv'
<1>1. /\ disk \in [K!Volume -> FilesRecord] /\ K!VolumeOf(j) \in K!Volume
      /\ secret \in SecretRecord
  BY Typed, Names, Zenon
<1>2. disk = [disk EXCEPT ![K!VolumeOf(j)] = K!Here(j)] /\ K!Here(j) \in FilesRecord
  BY <1>1, Zenon DEF K!Here
<1>3. end \in K!Over /\ end # "ok" /\ secret.key \in K!Key \cup {None}
  BY Zenon DEF K!Over, KeyInv
<1>. QED
  BY <1>1, <1>2, <1>3, EndsKeeps, Zenon

(* A step of a run that leaves the files and the Secret alone. *)
LEMMA RunMoves ==
    ASSUME KeyInv, NEW j \in Job, NEW run \in RunRecord,
           job' = [job EXCEPT ![j] = run], UNCHANGED <<disk, secret, install>>,
           run.pc \notin K!Over,
           Active(j) \/ (install = "volume" => \A i \in Job : ~Active(i)),
           FilesFit(j, run, K!Here(j)),
           install = "secret" => SecretFits(run, K!Here(j), secret),
           install = "volume" => VolumeFits(run)
    PROVE  KeyInv'
<1>1. /\ disk \in [K!Volume -> FilesRecord] /\ K!VolumeOf(j) \in K!Volume
      /\ secret \in SecretRecord
  BY Typed, Names, Zenon
<1>2. disk' = [disk EXCEPT ![K!VolumeOf(j)] = K!Here(j)] /\ K!Here(j) \in FilesRecord
  BY <1>1, Zenon DEF K!Here
<1>3. /\ K!Here(j).key \in K!Key \cup {None} /\ secret.key \in K!Key \cup {None}
      /\ run.pc # "ok"
  BY <1>1, Zenon DEF K!Here, KeyInv, K!Over
<1>. QED
  BY <1>1, <1>2, <1>3, RunStep, Zenon

(* The steps of a run that only move it along. *)
LEMMA MovesKeep ==
    ASSUME KeyInv, NEW j \in Job,
           K!Main(j) \/ K!GetSecret(j) \/ K!KeyExists(j) \/ K!CheckSidecar(j)
              \/ K!ReGetSecret(j)
    PROVE  KeyInv'
<1>. DEFINE old == job[j]
            here == K!Here(j)
<1>1. /\ install \in {"volume", "secret"} /\ secret \in SecretRecord
      /\ disk \in [K!Volume -> FilesRecord] /\ job \in [Job -> RunRecord]
      /\ old \in RunRecord
  BY Typed, Zenon
<1>2. /\ here \in FilesRecord /\ here.key \in K!Key \cup {None} /\ K!NoSecret.key = None
      /\ install = "secret" => here = disk[j]
  BY <1>1, Names, Zenon DEF K!Here, KeyInv, K!VolumeOf, K!NoSecret
<1>3. /\ FilesFit(j, old, here)
      /\ install = "secret" => SecretFits(old, here, secret)
      /\ install = "volume" => VolumeFits(old)
  BY Zenon DEF KeyInv
<1>4. CASE K!Main(j)
  <2>. DEFINE run == [old EXCEPT !.pc = IF install = "secret" THEN "get" ELSE "exists"]
  <2>1. /\ job' = [job EXCEPT ![j] = run] /\ UNCHANGED <<disk, secret, install>>
        /\ install = "volume" => \A i \in Job : ~Active(i)
    BY <1>1, <1>4, Zenon DEF K!Main, K!Goto, K!files, Active
  <2>2. run \in RunRecord /\ run.pc = (IF install = "secret" THEN "get" ELSE "exists")
        /\ run.creating = old.creating
    BY <1>1, Zenon DEF RunRecord, K!Pc
  <2>. HIDE DEF run
  <2>3. FilesFit(j, run, here) /\ run.pc \notin K!Over
    BY <2>2, Zenon DEF FilesFit, K!Over
  <2>4. /\ install = "secret" => SecretFits(run, here, secret)
        /\ install = "volume" => VolumeFits(run)
    BY <1>3, <2>2, Zenon DEF SecretFits, VolumeFits
  <2>. QED
    BY <2>1, <2>2, <2>3, <2>4, RunMoves, Zenon
<1>5. CASE K!GetSecret(j)
  <2>. DEFINE run == [old EXCEPT !.pc = IF secret = K!NoSecret THEN "exists" ELSE "load",
                                 !.creating = (secret = K!NoSecret), !.got = secret]
  <2>1. /\ job' = [job EXCEPT ![j] = run] /\ UNCHANGED <<disk, secret, install>>
        /\ old.pc = "get"
    BY <1>1, <1>5, Zenon DEF K!GetSecret, K!At, K!files
  <2>2. /\ run \in RunRecord /\ run.got = secret
        /\ run.pc = (IF secret = K!NoSecret THEN "exists" ELSE "load")
        /\ run.creating = (secret = K!NoSecret)
    BY <1>1, Zenon DEF RunRecord, K!Pc
  <2>. HIDE DEF run
  <2>3. FilesFit(j, run, here) /\ run.pc \notin K!Over /\ SecretFits(run, here, secret)
    BY <2>2, Zenon DEF FilesFit, SecretFits, K!Over
  <2>4. install # "volume" /\ Active(j)
    BY <1>3, <2>1, Zenon DEF VolumeFits, Active, K!Over
  <2>. QED
    BY <2>1, <2>2, <2>3, <2>4, RunMoves, Zenon
<1>6. CASE K!KeyExists(j)
  <2>. DEFINE run == IF here.key = None THEN [old EXCEPT !.pc = "create"]
                     ELSE [old EXCEPT !.pc = "sidecar", !.held = here.key]
  <2>1. /\ job' = [job EXCEPT ![j] = run] /\ UNCHANGED <<disk, secret, install>>
        /\ old.pc = "exists"
    BY <1>1, <1>6, Zenon DEF K!KeyExists, K!At, K!files
  <2>2. /\ run \in RunRecord /\ run.creating = old.creating
        /\ here.key = None => run.pc = "create"
        /\ here.key # None => run.pc = "sidecar" /\ run.held = here.key
    BY <1>1, <1>2, Names, Zenon DEF RunRecord, K!Pc
  <2>. HIDE DEF run
  <2>3. FilesFit(j, run, here) /\ run.pc \notin K!Over
    BY <2>2, Zenon DEF FilesFit, K!Over
  <2>4. /\ install = "secret" => SecretFits(run, here, secret)
        /\ install = "volume" => VolumeFits(run)
    BY <1>3, <2>1, <2>2, Zenon DEF SecretFits, VolumeFits
  <2>5. Active(j)
    BY <2>1, Zenon DEF Active, K!Over
  <2>. QED
    BY <2>1, <2>2, <2>3, <2>4, <2>5, RunMoves, Zenon
<1>7. CASE K!CheckSidecar(j)
  <2>. DEFINE to == IF K!SidecarProved(here.pub, old.held) THEN "return" ELSE "pubtmp"
              run == [old EXCEPT !.pc = to]
  <2>1. /\ job' = [job EXCEPT ![j] = run] /\ UNCHANGED <<disk, secret, install>>
        /\ old.pc = "sidecar"
    BY <1>1, <1>7, Zenon DEF K!CheckSidecar, K!At, K!Goto, K!files
  <2>2. /\ run \in RunRecord /\ run.creating = old.creating /\ run.held = old.held
        /\ run.pc \in {"return", "pubtmp"}
    BY <1>1, Zenon DEF RunRecord, K!Pc
  <2>. HIDE DEF run
  <2>3. FilesFit(j, run, here) /\ run.pc \notin K!Over
    BY <1>3, <2>1, <2>2, Zenon DEF FilesFit, K!Over
  <2>4. /\ install = "secret" => SecretFits(run, here, secret)
        /\ install = "volume" => VolumeFits(run)
    BY <1>3, <2>1, <2>2, Zenon DEF SecretFits, VolumeFits
  <2>5. Active(j)
    BY <2>1, Zenon DEF Active, K!Over
  <2>. QED
    BY <2>1, <2>2, <2>3, <2>4, <2>5, RunMoves, Zenon
<1>8. CASE K!ReGetSecret(j)
  <2>. DEFINE run == [old EXCEPT !.pc = "load", !.got = secret]
  <2>1. /\ job' = [job EXCEPT ![j] = run] /\ UNCHANGED <<disk, secret, install>>
        /\ old.pc = "reget"
    BY <1>1, <1>8, Zenon DEF K!ReGetSecret, K!At, K!files
  <2>2. run \in RunRecord /\ run.pc = "load" /\ run.got = secret
    BY <1>1, Zenon DEF RunRecord, K!Pc
  <2>. HIDE DEF run
  <2>3. FilesFit(j, run, here) /\ run.pc \notin K!Over
    BY <2>2, Zenon DEF FilesFit, K!Over
  <2>4. install = "secret" /\ SecretFits(run, here, secret) /\ Active(j)
    BY <1>1, <1>3, <2>1, <2>2, Zenon DEF SecretFits, VolumeFits, Active, K!Over
  <2>. QED
    BY <2>1, <2>2, <2>3, <2>4, RunMoves, Zenon
<1>. QED
  BY <1>4, <1>5, <1>6, <1>7, <1>8, Zenon

(* A step that writes files of the run's own volume and goes on. *)
LEMMA RunWrites ==
    ASSUME KeyInv, NEW j \in Job, NEW run \in RunRecord, NEW here \in FilesRecord,
           job' = [job EXCEPT ![j] = run], disk' = [disk EXCEPT ![K!VolumeOf(j)] = here],
           UNCHANGED <<secret, install>>, Active(j), run.pc \notin K!Over,
           here.key \in K!Key \cup {None},
           here.key = K!Here(j).key \/ K!Here(j).key = None \/ install = "secret",
           FilesFit(j, run, here),
           install = "secret" => SecretFits(run, here, secret),
           install = "volume" => VolumeFits(run)
    PROVE  KeyInv'
<1>1. secret \in SecretRecord /\ secret.key \in K!Key \cup {None} /\ run.pc # "ok"
  BY Typed, Zenon DEF KeyInv, K!Over
<1>. QED
  BY <1>1, RunStep, Zenon

LEMMA KeyWritesKeep ==
    ASSUME KeyInv, NEW j \in Job, K!CreateTmp(j) \/ K!WriteTmp(j) \/ K!RenameTmp(j)
    PROVE  KeyInv'
<1>. DEFINE old == job[j]
            here == K!Here(j)
<1>1. /\ install \in {"volume", "secret"} /\ secret \in SecretRecord
      /\ disk \in [K!Volume -> FilesRecord] /\ job \in [Job -> RunRecord]
      /\ old \in RunRecord /\ here \in FilesRecord /\ K!VolumeOf(j) \in K!Volume
      /\ here = disk[K!VolumeOf(j)]
  BY Typed, Names, Zenon DEF K!Here
<1>2. here.key \in K!Key \cup {None}
  BY <1>1, Zenon DEF KeyInv
<1>3. /\ FilesFit(j, old, here)
      /\ install = "secret" => SecretFits(old, here, secret)
      /\ install = "volume" => VolumeFits(old)
  BY Zenon DEF KeyInv
<1>4. CASE K!CreateTmp(j)
  <2>1. old.pc = "create" /\ Active(j)
    BY <1>4, Zenon DEF K!CreateTmp, K!At, Active, K!Over
  <2>2. CASE here.tmp # None
    BY <1>4, <2>1, <2>2, EndsAsIs, Zenon DEF K!CreateTmp
  <2>3. CASE here.tmp = None
    <3>. DEFINE run == [old EXCEPT !.pc = "write", !.held = j]
                files == [here EXCEPT !.tmp = "partial"]
    <3>1. /\ job' = [job EXCEPT ![j] = run] /\ UNCHANGED <<secret, install>>
          /\ disk' = [disk EXCEPT ![K!VolumeOf(j)] = files]
      BY <1>1, <1>4, <2>3, Zenon DEF K!CreateTmp
    <3>2. /\ run \in RunRecord /\ run.pc = "write" /\ run.held = j
          /\ run.creating = old.creating
      BY <1>1, Names, Zenon DEF RunRecord, K!Pc
    <3>3. files \in FilesRecord /\ files.key = here.key
      BY <1>1, Names, Zenon DEF FilesRecord
    <3>. HIDE DEF run, files
    <3>4. FilesFit(j, run, files) /\ run.pc \notin K!Over
      BY <1>3, <2>1, <3>2, <3>3, Zenon DEF FilesFit, K!Over
    <3>5. /\ install = "secret" => SecretFits(run, files, secret)
          /\ install = "volume" => VolumeFits(run)
      BY <1>3, <2>1, <3>2, Zenon DEF SecretFits, VolumeFits
    <3>. QED
      BY <1>2, <2>1, <3>1, <3>2, <3>3, <3>4, <3>5, RunWrites, Zenon
  <2>. QED
    BY <2>2, <2>3, Zenon
<1>5. CASE K!WriteTmp(j)
  <2>. DEFINE run == [old EXCEPT !.pc = "rename"]
              files == [here EXCEPT !.tmp = old.held]
  <2>1. /\ job' = [job EXCEPT ![j] = run] /\ UNCHANGED <<secret, install>>
        /\ disk' = [disk EXCEPT ![K!VolumeOf(j)] = files]
        /\ old.pc = "write" /\ Active(j)
    BY <1>1, <1>5, Zenon DEF K!WriteTmp, K!At, K!Goto, Active, K!Over
  <2>2. /\ run \in RunRecord /\ run.pc = "rename" /\ run.held = old.held
        /\ run.creating = old.creating
    BY <1>1, Zenon DEF RunRecord, K!Pc
  <2>3. files \in FilesRecord /\ files.key = here.key /\ files.tmp = old.held
    BY <1>1, Zenon DEF FilesRecord, RunRecord
  <2>. HIDE DEF run, files
  <2>4. FilesFit(j, run, files) /\ run.pc \notin K!Over
    BY <1>3, <2>1, <2>2, <2>3, Zenon DEF FilesFit, K!Over
  <2>5. /\ install = "secret" => SecretFits(run, files, secret)
        /\ install = "volume" => VolumeFits(run)
    BY <1>3, <2>1, <2>2, Zenon DEF SecretFits, VolumeFits
  <2>. QED
    BY <1>2, <2>1, <2>2, <2>3, <2>4, <2>5, RunWrites, Zenon
<1>6. CASE K!RenameTmp(j)
  <2>. DEFINE run == [old EXCEPT !.pc = "sidecar"]
              files == [here EXCEPT !.key = here.tmp, !.tmp = None]
  <2>1. /\ job' = [job EXCEPT ![j] = run] /\ UNCHANGED <<secret, install>>
        /\ disk' = [disk EXCEPT ![K!VolumeOf(j)] = files]
        /\ old.pc = "rename" /\ Active(j)
    BY <1>1, <1>6, Zenon DEF K!RenameTmp, K!At, K!Goto, Active, K!Over
  <2>2. /\ run \in RunRecord /\ run.pc = "sidecar" /\ run.held = old.held
        /\ run.creating = old.creating
    BY <1>1, Zenon DEF RunRecord, K!Pc
  <2>3. files \in FilesRecord /\ files.key = here.tmp
    BY <1>1, Names, Zenon DEF FilesRecord
  <2>. HIDE DEF run, files
  <2>4. here.key = None /\ here.tmp = j /\ old.held = j /\ j \in K!Key /\ j # None
    BY <1>3, <2>1, Names, Zenon DEF FilesFit
  <2>5. FilesFit(j, run, files) /\ run.pc \notin K!Over
    BY <2>2, <2>3, <2>4, Zenon DEF FilesFit, K!Over
  <2>6. /\ install = "secret" => SecretFits(run, files, secret)
        /\ install = "volume" => VolumeFits(run)
    BY <1>3, <2>1, <2>2, Zenon DEF SecretFits, VolumeFits
  <2>. QED
    BY <2>1, <2>2, <2>3, <2>4, <2>5, <2>6, RunWrites, Zenon
<1>. QED
  BY <1>4, <1>5, <1>6, Zenon

LEMMA SidecarWritesKeep ==
    ASSUME KeyInv, NEW j \in Job, K!WriteSidecarTmp(j) \/ K!RenameSidecar(j)
    PROVE  KeyInv'
<1>. DEFINE old == job[j]
            here == K!Here(j)
<1>1. /\ disk \in [K!Volume -> FilesRecord] /\ job \in [Job -> RunRecord]
      /\ old \in RunRecord /\ here \in FilesRecord /\ K!VolumeOf(j) \in K!Volume
      /\ here = disk[K!VolumeOf(j)]
  BY Typed, Names, Zenon DEF K!Here
<1>2. here.key \in K!Key \cup {None}
  BY <1>1, Zenon DEF KeyInv
<1>3. /\ FilesFit(j, old, here)
      /\ install = "secret" => SecretFits(old, here, secret)
      /\ install = "volume" => VolumeFits(old)
  BY Zenon DEF KeyInv
<1>4. \E run \in RunRecord, files \in FilesRecord :
         /\ job' = [job EXCEPT ![j] = run] /\ UNCHANGED <<secret, install>>
         /\ disk' = [disk EXCEPT ![K!VolumeOf(j)] = files]
         /\ old.pc \in {"pubtmp", "pubrename"} /\ run.pc \in {"pubrename", "return"}
         /\ run.held = old.held /\ run.creating = old.creating /\ files.key = here.key
  <2>1. CASE K!WriteSidecarTmp(j)
    <3>. DEFINE run == [old EXCEPT !.pc = "pubrename"]
                files == [here EXCEPT !.pubtmp = old.held]
    <3>1. /\ job' = [job EXCEPT ![j] = run] /\ UNCHANGED <<secret, install>>
          /\ disk' = [disk EXCEPT ![K!VolumeOf(j)] = files] /\ old.pc = "pubtmp"
      BY <1>1, <2>1, Zenon DEF K!WriteSidecarTmp, K!At, K!Goto
    <3>2. /\ run \in RunRecord /\ run.pc = "pubrename" /\ run.held = old.held
          /\ run.creating = old.creating
      BY <1>1, Zenon DEF RunRecord, K!Pc
    <3>3. files \in FilesRecord /\ files.key = here.key
      BY <1>1, Zenon DEF FilesRecord, RunRecord
    <3>. HIDE DEF run, files
    <3>. QED
      BY <3>1, <3>2, <3>3, Zenon
  <2>2. CASE K!RenameSidecar(j)
    <3>. DEFINE run == [old EXCEPT !.pc = "return"]
                files == [here EXCEPT !.pub = here.pubtmp, !.pubtmp = None]
    <3>1. /\ job' = [job EXCEPT ![j] = run] /\ UNCHANGED <<secret, install>>
          /\ disk' = [disk EXCEPT ![K!VolumeOf(j)] = files] /\ old.pc = "pubrename"
      BY <1>1, <2>2, Zenon DEF K!RenameSidecar, K!At, K!Goto
    <3>2. /\ run \in RunRecord /\ run.pc = "return" /\ run.held = old.held
          /\ run.creating = old.creating
      BY <1>1, Zenon DEF RunRecord, K!Pc
    <3>3. files \in FilesRecord /\ files.key = here.key
      BY <1>1, Names, Zenon DEF FilesRecord
    <3>. HIDE DEF run, files
    <3>. QED
      BY <3>1, <3>2, <3>3, Zenon
  <2>. QED
    BY <2>1, <2>2, Zenon
<1>5. PICK run \in RunRecord, files \in FilesRecord :
         /\ job' = [job EXCEPT ![j] = run] /\ UNCHANGED <<secret, install>>
         /\ disk' = [disk EXCEPT ![K!VolumeOf(j)] = files]
         /\ old.pc \in {"pubtmp", "pubrename"} /\ run.pc \in {"pubrename", "return"}
         /\ run.held = old.held /\ run.creating = old.creating /\ files.key = here.key
  BY <1>4, Zenon
<1>6. FilesFit(j, run, files) /\ run.pc \notin K!Over /\ Active(j)
  BY <1>3, <1>5, Zenon DEF FilesFit, K!Over, Active
<1>7. /\ install = "secret" => SecretFits(run, files, secret)
      /\ install = "volume" => VolumeFits(run)
  BY <1>3, <1>5, Zenon DEF SecretFits, VolumeFits
<1>. QED
  BY <1>2, <1>5, <1>6, <1>7, RunWrites, Zenon

LEMMA LoadKeeps ==
    ASSUME KeyInv, NEW j \in Job, K!LoadSecret(j) PROVE KeyInv'
<1>. DEFINE old == job[j]
<1>1. /\ disk \in [K!Volume -> FilesRecord] /\ job \in [Job -> RunRecord]
      /\ old \in RunRecord /\ secret \in SecretRecord
      /\ install \in {"volume", "secret"} /\ secret.key \in K!Key \cup {None}
  BY Typed, Zenon DEF KeyInv
<1>2. old.pc = "load" /\ Active(j)
  BY Zenon DEF K!LoadSecret, K!At, Active, K!Over
<1>3. install = "secret" /\ old.got = secret /\ K!VolumeOf(j) = j /\ j \in K!Volume
  BY <1>1, <1>2, Zenon DEF KeyInv, VolumeFits, SecretFits, K!VolumeOf, K!Volume
<1>4. CASE old.got.key = None
  BY <1>2, <1>4, EndsAsIs, Zenon DEF K!LoadSecret
<1>5. CASE old.got.key # None
  <2>. DEFINE run == [old EXCEPT !.pc = "exists", !.creating = FALSE]
              pub == IF secret.pub = None THEN disk[j].pub ELSE secret.pub
              files == [disk[j] EXCEPT !.key = secret.key, !.pub = pub]
  <2>1. /\ job' = [job EXCEPT ![j] = run] /\ UNCHANGED <<secret, install>>
        /\ disk' = [disk EXCEPT ![j] = files]
    BY <1>1, <1>3, <1>5, Zenon DEF K!LoadSecret
  <2>2. run \in RunRecord /\ run.pc = "exists" /\ run.creating = FALSE
    BY <1>1, Zenon DEF RunRecord, K!Pc
  <2>3. files \in FilesRecord /\ files.key = secret.key
    BY <1>1, <1>3, Zenon DEF FilesRecord, SecretRecord
  <2>. HIDE DEF run, files
  <2>4. FilesFit(j, run, files) /\ run.pc \notin K!Over /\ SecretFits(run, files, secret)
    BY <1>3, <1>5, <2>2, <2>3, Zenon DEF FilesFit, SecretFits, K!Over
  <2>. QED
    BY <1>1, <1>2, <1>3, <2>1, <2>2, <2>3, <2>4, RunWrites, Zenon
<1>. QED
  BY <1>4, <1>5, Zenon

(* Where the run of the job ends well, or posts its key. *)
LEMMA ReturnKeeps ==
    ASSUME KeyInv, NEW j \in Job, K!Return(j) \/ K!PostSecret(j) \/ K!PostAnswerLost(j)
    PROVE  KeyInv'
<1>. DEFINE old == job[j]
            here == K!Here(j)
<1>1. /\ install \in {"volume", "secret"} /\ secret \in SecretRecord
      /\ disk \in [K!Volume -> FilesRecord] /\ job \in [Job -> RunRecord]
      /\ old \in RunRecord /\ here \in FilesRecord /\ K!VolumeOf(j) \in K!Volume
      /\ here = disk[K!VolumeOf(j)] /\ disk = [disk EXCEPT ![K!VolumeOf(j)] = here]
  BY Typed, Names, Zenon DEF K!Here
<1>2. /\ here.key \in K!Key \cup {None} /\ secret.key \in K!Key \cup {None}
      /\ "ok" \in K!Over /\ "error" \in K!Over
  BY <1>1, Zenon DEF KeyInv, K!Over
<1>3. /\ FilesFit(j, old, here)
      /\ install = "secret" => SecretFits(old, here, secret)
      /\ install = "volume" => VolumeFits(old)
  BY Zenon DEF KeyInv
<1>4. Active(j) /\ old.held = here.key /\ old.held # None
  BY <1>3, Zenon DEF K!Return, K!PostSecret, K!PostAnswerLost, K!At, Active, K!Over, FilesFit
<1>5. ASSUME NEW to \in {"post", "reget"}, K!Goto(j, to), UNCHANGED <<disk, secret, install>>,
             old.creating, to = "reget" => secret # K!NoSecret
      PROVE  KeyInv'
  <2>. DEFINE run == [old EXCEPT !.pc = to]
  <2>1. job' = [job EXCEPT ![j] = run]
    BY <1>1, <1>5, Zenon DEF K!Goto
  <2>2. /\ run \in RunRecord /\ run.pc = to /\ run.held = old.held
        /\ run.creating = old.creating
    BY <1>1, Zenon DEF RunRecord, K!Pc
  <2>. HIDE DEF run
  <2>3. FilesFit(j, run, here) /\ run.pc \notin K!Over /\ SecretFits(run, here, secret)
    BY <1>4, <1>5, <2>2, Zenon DEF FilesFit, SecretFits, K!Over
  <2>4. install # "volume"
    BY <1>3, <1>5, Zenon DEF VolumeFits
  <2>. QED
    BY <1>4, <1>5, <2>1, <2>2, <2>3, <2>4, RunMoves, Zenon
<1>6. CASE K!Return(j)
  <2>1. CASE old.creating
    BY <1>5, <1>6, <2>1, Zenon DEF K!Return
  <2>2. CASE ~old.creating
    <3>1. K!Ends(j, "ok", disk) /\ UNCHANGED secret /\ old.pc = "return"
      BY <1>6, <2>2, Zenon DEF K!Return, K!At
    <3>2. install = "secret" => secret'.key = old.held
      BY <1>3, <1>4, <2>2, <3>1, Zenon DEF SecretFits
    <3>. QED
      BY <1>1, <1>2, <1>4, <3>1, <3>2, EndsKeeps, Zenon
  <2>. QED
    BY <2>1, <2>2, Zenon
<1>7. CASE K!PostSecret(j) /\ secret # K!NoSecret
  <2>1. old.pc = "post" /\ K!Goto(j, "reget") /\ UNCHANGED <<disk, secret, install>>
    BY <1>7, Zenon DEF K!PostSecret, K!At, K!files
  <2>2. old.creating
    BY <1>1, <1>3, <2>1, Zenon DEF SecretFits, VolumeFits
  <2>. QED
    BY <1>5, <1>7, <2>1, <2>2, Zenon
<1>8. CASE (K!PostSecret(j) \/ K!PostAnswerLost(j)) /\ secret = K!NoSecret
  <2>1. /\ secret' = [key |-> here.key, pub |-> here.pub]
        /\ K!Ends(j, "ok", disk) \/ K!Ends(j, "error", disk)
    BY <1>8, Zenon DEF K!PostSecret, K!PostAnswerLost, K!Posted
  <2>2. secret' \in SecretRecord /\ secret'.key = here.key
    BY <1>1, <2>1, Zenon DEF SecretRecord, FilesRecord
  <2>. QED
    BY <1>1, <1>2, <1>4, <1>8, <2>1, <2>2, EndsKeeps, Zenon
<1>. QED
  BY <1>6, <1>7, <1>8, Zenon DEF K!PostAnswerLost

LEMMA BreaksKeep ==
    ASSUME KeyInv, NEW j \in Job,
           K!RequestFails(j) \/ K!WriteTmpFails(j) \/ K!SidecarFails(j) \/ K!Kill(j)
    PROVE  KeyInv'
<1>. DEFINE old == job[j]
            here == K!Here(j)
<1>1. /\ disk \in [K!Volume -> FilesRecord] /\ secret \in SecretRecord
      /\ here \in FilesRecord /\ K!VolumeOf(j) \in K!Volume
      /\ here = disk[K!VolumeOf(j)] /\ secret.key \in K!Key \cup {None}
  BY Typed, Names, Zenon DEF K!Here, KeyInv
<1>2. Active(j) /\ UNCHANGED secret
  BY Zenon DEF K!RequestFails, K!WriteTmpFails, K!SidecarFails, K!Kill, K!At, Active, K!Over
<1>3. CASE \E end \in {"error", "killed"} : K!Ends(j, end, disk)
  BY <1>2, <1>3, EndsAsIs, Zenon
<1>4. ASSUME NEW end \in {"error", "killed"}, NEW files \in FilesRecord, NEW d,
             d = [disk EXCEPT ![K!VolumeOf(j)] = files], K!Ends(j, end, d),
             files.key = here.key
      PROVE  KeyInv'
  <2>1. end \in K!Over /\ end # "ok"
    BY Zenon DEF K!Over
  <2>. QED
    BY <1>1, <1>2, <1>4, <2>1, EndsKeeps, Zenon
<1>5. ASSUME NEW bytes \in {None, "partial"}
      PROVE  /\ [here EXCEPT !.tmp = bytes] \in FilesRecord
             /\ [here EXCEPT !.tmp = bytes].key = here.key
             /\ [disk EXCEPT ![K!VolumeOf(j)].tmp = bytes]
                = [disk EXCEPT ![K!VolumeOf(j)] = [here EXCEPT !.tmp = bytes]]
             /\ [here EXCEPT !.pubtmp = bytes] \in FilesRecord
             /\ [here EXCEPT !.pubtmp = bytes].key = here.key
             /\ [disk EXCEPT ![K!VolumeOf(j)].pubtmp = bytes]
                = [disk EXCEPT ![K!VolumeOf(j)] = [here EXCEPT !.pubtmp = bytes]]
  BY <1>1, <1>5, Names, Zenon DEF FilesRecord
<1>6. CASE K!WriteTmpFails(j)
  <2>1. K!Ends(j, "error", [disk EXCEPT ![K!VolumeOf(j)].tmp = None])
    BY <1>6, Zenon DEF K!WriteTmpFails
  <2>. QED
    BY <1>4, <1>5, <2>1, Zenon
<1>7. CASE K!SidecarFails(j)
  <2>1. K!Ends(j, "error", [disk EXCEPT ![K!VolumeOf(j)].pubtmp = None])
    BY <1>7, Zenon DEF K!SidecarFails
  <2>. QED
    BY <1>4, <1>5, <2>1, Zenon
<1>8. CASE K!Ends(j, "killed", [disk EXCEPT ![K!VolumeOf(j)].pubtmp = "partial"])
  BY <1>4, <1>5, <1>8, Zenon
<1>. QED
  BY <1>3, <1>6, <1>7, <1>8, Zenon DEF K!RequestFails, K!Kill

LEMMA KeyJobKeeps ==
    ASSUME KeyInv, NEW j \in Job, K!Works(j) \/ K!Breaks(j) PROVE KeyInv'
BY MovesKeep, KeyWritesKeep, SidecarWritesKeep, LoadKeeps, ReturnKeeps, BreaksKeep, Zenon
   DEF K!Works, K!Breaks

LEMMA KeyInitInv == ASSUME NEW installs, K!KeyInit(installs) PROVE KeyInv
<1>1. /\ K!NoFiles \in FilesRecord /\ K!NoSecret \in SecretRecord
      /\ K!NewJob \in RunRecord /\ K!NoFiles.key = None /\ K!NoSecret.key = None
      /\ K!NewJob.pc = "new" /\ ~K!NewJob.creating
  BY Names, Zenon
  DEF FilesRecord, SecretRecord, RunRecord, K!NoFiles, K!NoSecret, K!NewJob, K!Pc
<1>2. "old" \in K!Key /\ "stale" \in K!Key
  BY Zenon DEF K!Key
<1>. DEFINE found == {K!NoSecret} \cup [key : {"old"}, pub : {"old", "stale", None}]
<1>3. ASSUME NEW f \in found
      PROVE  /\ f \in SecretRecord /\ f.key \in K!Key \cup {None}
             /\ [K!NoFiles EXCEPT !.key = f.key, !.pub = f.pub] \in FilesRecord
             /\ [K!NoFiles EXCEPT !.key = f.key, !.pub = f.pub].key = f.key
  <2>1. f \in SecretRecord /\ f.key \in K!Key \cup {None}
    BY <1>1, <1>2, Names, Zenon DEF SecretRecord
  <2>. QED
    BY <1>1, <2>1, Zenon DEF FilesRecord, SecretRecord
<1>4. /\ install \in {"volume", "secret"}
      /\ disk \in [K!Volume -> FilesRecord] /\ secret \in SecretRecord
      /\ \A v \in K!Volume : disk[v].key \in K!Key \cup {None}
      /\ secret.key \in K!Key \cup {None}
  <2>1. CASE install = "volume"
    BY <1>1, <1>3, <2>1, Zenon DEF K!KeyInit
  <2>2. CASE install = "secret"
    <3>1. [key |-> None, pub |-> "old"] \in SecretRecord
      BY <1>2, Names, Zenon DEF SecretRecord
    <3>2. /\ disk = [v \in K!Volume |-> K!NoFiles]
          /\ secret \in found \/ secret = [key |-> None, pub |-> "old"]
      BY <2>2, Zenon DEF K!KeyInit
    <3>3. secret \in SecretRecord /\ secret.key \in K!Key \cup {None}
      <4>. HIDE DEF found
      <4>1. CASE secret \in found
        BY <1>3, <4>1, Zenon
      <4>2. CASE secret = [key |-> None, pub |-> "old"]
        BY <3>1, <4>2, Zenon
      <4>. QED
        BY <3>2, <4>1, <4>2, Zenon
    <3>. QED
      BY <1>1, <2>2, <3>2, <3>3, Zenon
  <2>. QED
    BY <2>1, <2>2, Zenon DEF K!KeyInit
<1>5. job \in [Job -> RunRecord] /\ \A j \in Job : job[j] = K!NewJob
  BY <1>1, Zenon DEF K!KeyInit
<1>6. K!KeyTypeOK
  BY <1>4, <1>5, Zenon DEF K!KeyTypeOK, FilesRecord, SecretRecord, RunRecord
<1>7. \A j \in Job : /\ FilesFit(j, job[j], K!Here(j))
                     /\ install = "secret" => SecretFits(job[j], K!Here(j), secret)
                     /\ install = "volume" => VolumeFits(job[j])
                     /\ job[j].pc = "ok" => job[j].held # None
  BY <1>1, <1>5, Zenon DEF FilesFit, SecretFits, VolumeFits
<1>8. (\A j \in Job : ~Active(j)) /\ K!JobsAgree
  BY <1>1, <1>5, Zenon DEF Active, K!JobsAgree, K!At
<1>. QED
  BY <1>4, <1>6, <1>7, <1>8, Zenon DEF KeyInv

(* The job's containers are gone. *)
LEMMA StartKeepsKeys == ASSUME KeyInv, Start PROVE KeyInv'
<1>1. /\ UNCHANGED <<install, disk, secret>> /\ job' = [j \in Job |-> K!NewJob]
  BY Zenon DEF Start
<1>2. K!NewJob \in RunRecord /\ K!NewJob.pc = "new" /\ ~K!NewJob.creating
  BY Names, Zenon DEF SecretRecord, RunRecord, K!NoSecret, K!NewJob, K!Pc
<1>3. job' \in [Job -> RunRecord] /\ \A j \in Job : job'[j] = K!NewJob
  BY <1>1, <1>2, Zenon
<1>4. K!KeyTypeOK'
  BY <1>1, <1>3, Zenon DEF KeyInv, K!KeyTypeOK, RunRecord, SecretRecord
<1>5. \A j \in Job : /\ FilesFit(j, job[j], K!Here(j))'
                     /\ (install = "secret" => SecretFits(job[j], K!Here(j), secret))'
                     /\ (install = "volume" => VolumeFits(job[j]))'
                     /\ (job[j].pc = "ok" => job[j].held # None)'
  BY <1>2, <1>3, Zenon DEF FilesFit, SecretFits, VolumeFits
<1>6. (\A j \in Job : ~Active(j)') /\ K!JobsAgree'
  BY <1>2, <1>3, Zenon DEF Active, K!JobsAgree, K!At
<1>. QED
  BY <1>1, <1>4, <1>5, <1>6, Zenon DEF KeyInv

LEMMA KeyStep == ASSUME KeyInv, [Next]_vars PROVE KeyInv'
<1>1. ASSUME NEW j \in Job, KeyJob(j) PROVE KeyInv'
  BY <1>1, KeyJobKeeps, Zenon DEF KeyJob
<1>2. CASE Start
  BY <1>2, StartKeepsKeys, Zenon
<1>3. CASE UNCHANGED keys
  BY <1>3, Zenon
  DEF keys, KeyInv, K!KeyTypeOK, Active, K!JobsAgree, K!At, K!Mounted, K!Here, K!VolumeOf
<1>. QED
  BY <1>1, <1>2, <1>3, Zenon DEF Next, vars

(* KeyInv is an invariant of the job's runs, on a shared volume as with a   *)
(* Secret.                                                                  *)
THEOREM KeyInvariant == Spec => []KeyInv
<1>1. Init => KeyInv
  BY KeyInitInv, Zenon DEF Init
<1>. QED
  BY <1>1, KeyStep, PTL DEF Spec

(* Every run of the job that exits with 0 holds the key that is mounted,    *)
(* also when two pods raced to create the Secret or an earlier run died     *)
(* half-way.                                                                *)
THEOREM RunsAgree == Spec => []JobsAgree
<1>1. KeyInv => JobsAgree
  BY Zenon DEF KeyInv, JobsAgree
<1>. QED
  BY <1>1, KeyInvariant, PTL

(* Every step of bootstrap_signing_key leaves a key that is there alone.    *)
LEMMA KeyKeptStep ==
    ASSUME KeyInv, NEW j \in Job, K!Works(j) \/ K!Breaks(j)
    PROVE  disk'["shared"].key # disk["shared"].key =>
              disk["shared"].key = None /\ disk'["shared"].key \in K!Key
<1>1. /\ disk \in [K!Volume -> FilesRecord] /\ "shared" \in K!Volume
      /\ install \in {"volume", "secret"} /\ j # "shared"
  BY Typed, Names, Zenon DEF K!Volume
<1>2. CASE install = "secret"
  <2>1. K!VolumeOf(j) = j
    BY <1>2, Zenon DEF K!VolumeOf
  <2>2. CASE K!Works(j)
    BY <1>1, <1>2, <2>1, <2>2, Zenon
    DEF K!Works, K!Main, K!GetSecret, K!LoadSecret, K!KeyExists, K!CreateTmp, K!WriteTmp,
        K!RenameTmp, K!CheckSidecar, K!WriteSidecarTmp, K!RenameSidecar, K!Return,
        K!PostSecret, K!ReGetSecret, K!files, K!Ends
  <2>3. CASE K!Breaks(j)
    BY <1>1, <1>2, <2>1, <2>3, Zenon
    DEF K!Breaks, K!RequestFails, K!PostAnswerLost, K!WriteTmpFails, K!SidecarFails, K!Kill,
        K!Ends
  <2>. QED
    BY <2>2, <2>3, Zenon
<1>3. CASE install = "volume"
  <2>1. K!VolumeOf(j) = "shared" /\ K!Here(j) = disk["shared"]
    BY <1>3, Zenon DEF K!VolumeOf, K!Here
  <2>2. FilesFit(j, job[j], K!Here(j)) /\ VolumeFits(job[j])
    BY <1>3, Zenon DEF KeyInv
  <2>3. CASE K!RenameTmp(j)
    <3>1. disk'["shared"].key = disk["shared"].tmp /\ job[j].pc = "rename"
      BY <1>1, <2>1, <2>3, Zenon DEF K!RenameTmp, K!At, FilesRecord
    <3>. QED
      BY <2>1, <2>2, <3>1, Names, Zenon DEF FilesFit
  <2>4. ~K!LoadSecret(j)
    BY <2>2, Zenon DEF VolumeFits, K!LoadSecret, K!At
  <2>5. CASE K!Works(j) /\ ~K!RenameTmp(j)
    <3>1. CASE K!CreateTmp(j)
      BY <1>1, <1>3, <2>1, <3>1 DEF K!CreateTmp, K!Ends, FilesRecord
    <3>2. CASE K!WriteTmp(j) \/ K!WriteSidecarTmp(j) \/ K!RenameSidecar(j)
      BY <1>1, <2>1, <3>2
      DEF K!WriteTmp, K!WriteSidecarTmp, K!RenameSidecar, FilesRecord
    <3>3. CASE K!Return(j) \/ K!PostSecret(j)
      BY <1>1, <1>3, <3>3, Zenon DEF K!Return, K!PostSecret, K!files, K!Ends
    <3>4. CASE K!Main(j) \/ K!GetSecret(j) \/ K!KeyExists(j) \/ K!CheckSidecar(j)
               \/ K!ReGetSecret(j)
      BY <3>4, Zenon
      DEF K!Main, K!GetSecret, K!KeyExists, K!CheckSidecar, K!ReGetSecret, K!files
    <3>. QED
      BY <2>4, <2>5, <3>1, <3>2, <3>3, <3>4, Zenon DEF K!Works
  <2>6. CASE K!Breaks(j)
    BY <1>1, <1>3, <2>1, <2>6
    DEF K!Breaks, K!RequestFails, K!PostAnswerLost, K!WriteTmpFails, K!SidecarFails, K!Kill,
        K!Ends, FilesRecord
  <2>. QED
    BY <2>3, <2>5, <2>6, Zenon
<1>. QED
  BY <1>1, <1>2, <1>3, Zenon

(* A key on the shared volume is never replaced, and appears whole: a probe *)
(* that has it stays able to verify.                                        *)
THEOREM KeyIsKept == Spec => KeyKept
<1>1. ASSUME KeyInv, [Next]_vars
      PROVE  disk'["shared"].key # disk["shared"].key =>
                disk["shared"].key = None /\ disk'["shared"].key \in K!Key
  <2>1. ASSUME NEW j \in Job, KeyJob(j) PROVE K!Works(j) \/ K!Breaks(j)
    BY <2>1, Zenon DEF KeyJob
  <2>2. CASE Start \/ UNCHANGED keys
    BY <2>2, Zenon DEF Start, keys
  <2>. QED
    BY <1>1, <2>1, <2>2, KeyKeptStep, Zenon DEF Next, vars
<1>. QED
  BY <1>1, KeyInvariant, PTL DEF Spec, KeyKept, K!KeyKept

(***************************************************************************)
(* The signatures                                                          *)
(***************************************************************************)

LEMMA SettingKept ==
    /\ PlaybookNext => UNCHANGED setting
    /\ \A j \in Job : KeyJob(j) => UNCHANGED setting
<1>1. ASSUME NEW e \in Exec,
             \/ Open(e) \/ OpenCommit(e) \/ Build(e) \/ Dispatch(e) \/ StepResult(e)
             \/ WorkerDies(e) \/ ProbeTakes(e) \/ ProbeWrites(e) \/ ProbeFails(e)
             \/ Settled(e) \/ RunCheck(e) \/ VerifyCommit(e)
      PROVE  UNCHANGED setting
  BY <1>1, Zenon
  DEF Open, OpenCommit, Build, Dispatch, StepResult, WorkerDies, ProbeTakes,
         ProbeWrites, ProbeFails, Settled, RunCheck, VerifyCommit
<1>2. PlaybookNext => UNCHANGED setting
  BY <1>1, Zenon DEF PlaybookNext, Seed
<1>. QED
  BY <1>2, Zenon DEF KeyJob, playbookVars

(* Whatever failed or died while the key was made, a worker that runs signs *)
(* with the key the probe verifies against, unless it was allowed an        *)
(* ephemeral one: a worker that finds no .pub proved to be its key's does   *)
(* not start.                                                               *)
THEOREM SignedByTheTrusted == Spec => []SignaturesTrusted
<1>1. Init => SignaturesTrusted
  BY Zenon DEF Init, PlaybookInit, SignaturesTrusted
<1>2. ASSUME SignaturesTrusted, [Next]_vars PROVE SignaturesTrusted'
  <2>1. CASE Start
    BY <2>1, Zenon DEF Start, WorkerSigner, K!SidecarProved, SignaturesTrusted
  <2>2. CASE UNCHANGED setting
    BY <1>2, <2>2, Zenon DEF setting, SignaturesTrusted
  <2>. QED
    BY <1>2, <2>1, <2>2, SettingKept, Zenon DEF Next, vars, playbookVars
<1>. QED
  BY <1>1, <1>2, PTL DEF Spec

(***************************************************************************)
(* The types                                                               *)
(***************************************************************************)

(* A .pub that is there is whole: it was renamed from a file that was       *)
(* written to the end.                                                      *)
PubInv ==
    /\ \A v \in K!Volume : disk[v].pub \in K!Key \cup {None}
    /\ secret.pub \in K!Key \cup {None}
    /\ \A j \in Job : job[j].pc = "pubrename" => K!Here(j).pubtmp \in K!Key

(* A step of run j that writes to its own volume only. *)
LEMMA PubStep ==
    ASSUME KeyInv, PubInv, NEW j \in Job, UNCHANGED install,
           Active(j) \/ UNCHANGED disk,
           \A i \in Job : i # j => job'[i] = job[i],
           \A v \in K!Volume : v # K!VolumeOf(j) => disk'[v] = disk[v],
           disk'[K!VolumeOf(j)].pub \in K!Key \cup {None},
           secret'.pub \in K!Key \cup {None},
           job'[j].pc = "pubrename" => disk'[K!VolumeOf(j)].pubtmp \in K!Key
    PROVE  PubInv'
<1>1. \A v \in K!Volume : disk'[v].pub \in K!Key \cup {None}
  BY Zenon DEF PubInv
<1>2. \A i \in Job : K!Here(i)' = disk'[K!VolumeOf(i)] /\ K!VolumeOf(i) \in K!Volume
  BY Names, Zenon DEF K!Here, K!VolumeOf
<1>3. ASSUME NEW i \in Job, i # j, job'[i].pc = "pubrename"
      PROVE  K!Here(i)'.pubtmp \in K!Key
  <2>1. job[i].pc = "pubrename" /\ Active(i)
    BY <1>3, Zenon DEF Active, K!Over
  <2>2. disk' = disk \/ K!VolumeOf(i) # K!VolumeOf(j)
    BY <1>3, <2>1, Typed, Names, Zenon DEF KeyInv
  <2>3. disk'[K!VolumeOf(i)] = K!Here(i)
    BY <1>2, <2>2, Zenon DEF K!Here
  <2>. QED
    BY <1>2, <2>1, <2>3, Zenon DEF PubInv
<1>. QED
  BY <1>1, <1>2, <1>3, Zenon DEF PubInv

(* A run that is over, after it left the volumes as d. *)
LEMMA PubEnds ==
    ASSUME KeyInv, PubInv, NEW j \in Job, Active(j), NEW end \in K!Over,
           NEW d \in [K!Volume -> FilesRecord], K!Ends(j, end, d),
           \A v \in K!Volume : v # K!VolumeOf(j) => d[v] = disk[v],
           d[K!VolumeOf(j)].pub \in K!Key \cup {None},
           secret'.pub \in K!Key \cup {None}
    PROVE  PubInv'
<1>1. /\ job \in [Job -> RunRecord] /\ K!VolumeOf(j) \in K!Volume
      /\ install = "secret" => K!VolumeOf(j) = j
  BY Typed, Names, Zenon DEF K!VolumeOf
<1>2. /\ UNCHANGED install /\ job'[j].pc # "pubrename"
      /\ \A i \in Job : i # j => job'[i] = job[i]
  BY <1>1, Zenon DEF K!Ends, K!Over
<1>3. K!NoFiles.pub = None
  BY Zenon DEF K!NoFiles
<1>4. /\ \A v \in K!Volume : v # K!VolumeOf(j) => disk'[v] = disk[v]
      /\ disk'[K!VolumeOf(j)].pub \in K!Key \cup {None}
  <2>1. CASE install = "secret"
    <3>1. disk' = [d EXCEPT ![K!VolumeOf(j)] = K!NoFiles]
      BY <1>1, <2>1, Zenon DEF K!Ends
    <3>. QED
      BY <1>1, <1>3, <3>1, Zenon
  <2>2. CASE install # "secret"
    BY <2>2, Zenon DEF K!Ends
  <2>. QED
    BY <2>1, <2>2, Zenon
<1>. QED
  BY <1>2, <1>4, PubStep, Zenon

(* Every step of a run of the job. *)
LEMMA PubKept ==
    ASSUME KeyInv, PubInv, NEW j \in Job, K!Works(j) \/ K!Breaks(j) PROVE PubInv'
<1>. DEFINE V == K!VolumeOf(j)
<1>1. /\ V \in K!Volume /\ disk \in [K!Volume -> FilesRecord] /\ job \in [Job -> RunRecord]
      /\ secret \in SecretRecord /\ K!Here(j) = disk[V] /\ disk[V] \in FilesRecord
      /\ job[j] \in RunRecord
  BY Typed, Names, Zenon DEF K!Here
<1>2. disk[V].pub \in K!Key \cup {None} /\ secret.pub \in K!Key \cup {None}
  BY <1>1, Zenon DEF PubInv
<1>. HIDE DEF V
<1>3. ASSUME NEW end \in K!Over, K!Ends(j, end, disk), Active(j),
             secret'.pub \in K!Key \cup {None}
      PROVE  PubInv'
  BY <1>1, <1>2, <1>3, PubEnds, Zenon DEF V
<1>4. CASE K!Main(j) \/ K!GetSecret(j) \/ K!KeyExists(j) \/ K!CheckSidecar(j)
             \/ K!ReGetSecret(j)
  <2>1. UNCHANGED <<disk, secret, install>>
    BY <1>4, Zenon
    DEF K!Main, K!GetSecret, K!KeyExists, K!CheckSidecar, K!ReGetSecret, K!files
  <2>2. job'[j].pc # "pubrename" /\ \A i \in Job : i # j => job'[i] = job[i]
    <3>1. CASE K!GetSecret(j) \/ K!ReGetSecret(j)
      BY <1>1, <3>1 DEF K!GetSecret, K!ReGetSecret, RunRecord
    <3>2. CASE K!Main(j) \/ K!KeyExists(j) \/ K!CheckSidecar(j)
      BY <1>1, <3>2 DEF K!Main, K!KeyExists, K!CheckSidecar, K!Goto, RunRecord
    <3>. QED
      BY <1>4, <3>1, <3>2, Zenon
  <2>. QED
    BY <1>2, <2>1, <2>2, PubStep, Zenon DEF V
<1>5. CASE K!LoadSecret(j)
  <2>1. CASE job[j].got.key = None
    BY <1>2, <1>3, <1>5, <2>1, Zenon DEF K!LoadSecret, K!At, Active, K!Over
  <2>2. CASE job[j].got.key # None
    <3>1. /\ job[j].pc = "load" /\ Active(j) /\ UNCHANGED <<secret, install>>
          /\ disk' = [disk EXCEPT ![j].key = job[j].got.key,
                                  ![j].pub = IF job[j].got.pub = None THEN @ ELSE job[j].got.pub]
          /\ job' = [job EXCEPT ![j].pc = "exists", ![j].creating = FALSE]
      BY <1>5, <2>2, Zenon DEF K!LoadSecret, K!At, Active, K!Over
    <3>2. install = "secret" /\ V = j /\ job[j].got = secret
      BY <1>1, <3>1, Zenon DEF KeyInv, VolumeFits, SecretFits, K!KeyTypeOK, V, K!VolumeOf
    <3>3. /\ disk'[V].pub \in {disk[V].pub, secret.pub}
          /\ \A v \in K!Volume : v # V => disk'[v] = disk[v]
      BY <1>1, <3>1, <3>2 DEF FilesRecord
    <3>4. job'[j].pc # "pubrename" /\ \A i \in Job : i # j => job'[i] = job[i]
      BY <1>1, <3>1, Zenon DEF RunRecord
    <3>. QED
      BY <1>2, <3>1, <3>3, <3>4, PubStep, Zenon DEF V
  <2>. QED
    BY <2>1, <2>2, Zenon
<1>6. CASE K!CreateTmp(j)
  <2>1. CASE K!Here(j).tmp # None
    BY <1>2, <1>3, <1>6, <2>1, Zenon DEF K!CreateTmp, K!At, Active, K!Over
  <2>2. CASE K!Here(j).tmp = None
    <3>1. /\ Active(j) /\ UNCHANGED <<secret, install>>
          /\ disk' = [disk EXCEPT ![V].tmp = "partial"]
          /\ job' = [job EXCEPT ![j].pc = "write", ![j].held = j]
      BY <1>6, <2>2, Zenon DEF K!CreateTmp, K!At, Active, K!Over, V
    <3>2. /\ disk'[V].pub = disk[V].pub /\ job'[j].pc # "pubrename"
          /\ \A v \in K!Volume : v # V => disk'[v] = disk[v]
          /\ \A i \in Job : i # j => job'[i] = job[i]
      BY <1>1, <3>1, Zenon DEF FilesRecord, RunRecord
    <3>. QED
      BY <1>2, <3>1, <3>2, PubStep, Zenon DEF V
  <2>. QED
    BY <2>1, <2>2, Zenon
<1>7. CASE K!WriteTmp(j) \/ K!RenameTmp(j)
  <2>1. Active(j) /\ UNCHANGED <<secret, install>>
    BY <1>7, Zenon DEF K!WriteTmp, K!RenameTmp, K!At, Active, K!Over
  <2>2. /\ disk'[V].pub = disk[V].pub /\ job'[j].pc # "pubrename"
        /\ \A v \in K!Volume : v # V => disk'[v] = disk[v]
        /\ \A i \in Job : i # j => job'[i] = job[i]
    BY <1>1, <1>7 DEF K!WriteTmp, K!RenameTmp, K!Goto, FilesRecord, RunRecord, V
  <2>. QED
    BY <1>2, <2>1, <2>2, PubStep, Zenon DEF V
<1>8. CASE K!WriteSidecarTmp(j)
  <2>1. Active(j) /\ UNCHANGED <<secret, install>> /\ job[j].pc = "pubtmp"
    BY <1>8, Zenon DEF K!WriteSidecarTmp, K!At, Active, K!Over
  <2>2. job[j].held \in K!Key
    BY <1>1, <2>1, Zenon DEF KeyInv, FilesFit
  <2>3. /\ disk'[V].pub = disk[V].pub /\ disk'[V].pubtmp = job[j].held
        /\ \A v \in K!Volume : v # V => disk'[v] = disk[v]
        /\ \A i \in Job : i # j => job'[i] = job[i]
    BY <1>1, <1>8, Zenon DEF K!WriteSidecarTmp, K!Goto, FilesRecord, RunRecord, V
  <2>. QED
    BY <1>2, <2>1, <2>2, <2>3, PubStep, Zenon DEF V
<1>9. CASE K!RenameSidecar(j)
  <2>1. Active(j) /\ UNCHANGED <<secret, install>> /\ job[j].pc = "pubrename"
    BY <1>9, Zenon DEF K!RenameSidecar, K!At, Active, K!Over
  <2>2. disk[V].pubtmp \in K!Key
    BY <1>1, <2>1, Zenon DEF PubInv
  <2>3. /\ disk'[V].pub = disk[V].pubtmp /\ job'[j].pc # "pubrename"
        /\ \A v \in K!Volume : v # V => disk'[v] = disk[v]
        /\ \A i \in Job : i # j => job'[i] = job[i]
    BY <1>1, <1>9, Zenon DEF K!RenameSidecar, K!Goto, FilesRecord, RunRecord, V
  <2>. QED
    BY <1>2, <2>1, <2>2, <2>3, PubStep, Zenon DEF V
<1>10. CASE K!Return(j) /\ job[j].creating
  <2>1. UNCHANGED <<disk, secret, install>> /\ K!Goto(j, "post")
    BY <1>10, Zenon DEF K!Return
  <2>2. job'[j].pc # "pubrename" /\ \A i \in Job : i # j => job'[i] = job[i]
    BY <1>1, <2>1, Zenon DEF K!Goto, RunRecord
  <2>. QED
    BY <1>2, <2>1, <2>2, PubStep, Zenon DEF V
<1>11. CASE K!Return(j) /\ ~job[j].creating
  BY <1>2, <1>3, <1>11, Zenon DEF K!Return, K!At, Active, K!Over
<1>12. CASE K!PostSecret(j) /\ secret # K!NoSecret
  <2>1. UNCHANGED <<disk, secret, install>> /\ K!Goto(j, "reget")
    BY <1>12, Zenon DEF K!PostSecret, K!files
  <2>2. job'[j].pc # "pubrename" /\ \A i \in Job : i # j => job'[i] = job[i]
    BY <1>1, <2>1, Zenon DEF K!Goto, RunRecord
  <2>. QED
    BY <1>2, <2>1, <2>2, PubStep, Zenon DEF V
<1>13. CASE (K!PostSecret(j) /\ secret = K!NoSecret) \/ K!PostAnswerLost(j)
  <2>1. /\ Active(j) /\ K!Posted(j)
        /\ K!Ends(j, "ok", disk) \/ K!Ends(j, "error", disk)
    BY <1>13, Zenon DEF K!PostSecret, K!PostAnswerLost, K!At, Active, K!Over
  <2>2. secret'.pub = disk[V].pub
    BY <1>1, <2>1, Zenon DEF K!Posted
  <2>. QED
    BY <1>2, <1>3, <2>1, <2>2, Zenon DEF K!Over
<1>14. CASE K!RequestFails(j)
  BY <1>2, <1>3, <1>14, Zenon DEF K!RequestFails, Active, K!Over
<1>15. CASE K!WriteTmpFails(j) \/ K!SidecarFails(j) \/ K!Kill(j)
  <2>1. Active(j) /\ UNCHANGED secret
    BY <1>15, Zenon DEF K!WriteTmpFails, K!SidecarFails, K!Kill, K!At, Active, K!Over
  <2>2. ASSUME NEW bytes \in {None, "partial"}, NEW end \in K!Over,
               K!Ends(j, end, [disk EXCEPT ![V].tmp = bytes])
                 \/ K!Ends(j, end, [disk EXCEPT ![V].pubtmp = bytes])
        PROVE  PubInv'
    <3>1. PICK d : /\ K!Ends(j, end, d)
                   /\ d = [disk EXCEPT ![V].tmp = bytes] \/ d = [disk EXCEPT ![V].pubtmp = bytes]
      BY <2>2, Zenon
    <3>2. /\ d \in [K!Volume -> FilesRecord] /\ d[V].pub = disk[V].pub
          /\ \A v \in K!Volume : v # V => d[v] = disk[v]
      BY <1>1, <2>2, <3>1, Names DEF FilesRecord
    <3>. QED
      BY <1>2, <2>1, <3>1, <3>2, PubEnds, Zenon DEF V
  <2>3. CASE K!WriteTmpFails(j) \/ K!SidecarFails(j)
    BY <2>2, <2>3, Zenon DEF K!WriteTmpFails, K!SidecarFails, K!Over, V
  <2>4. CASE K!Kill(j)
    BY <1>2, <1>3, <2>1, <2>2, <2>4, Zenon DEF K!Kill, K!Over, V
  <2>. QED
    BY <1>15, <2>3, <2>4, Zenon
<1>. QED
  BY <1>4, <1>5, <1>6, <1>7, <1>8, <1>9, <1>10, <1>11, <1>12, <1>13, <1>14, <1>15, Zenon
  DEF K!Works, K!Breaks

LEMMA PubInit == ASSUME NEW installs, K!KeyInit(installs) PROVE PubInv
<1>. DEFINE found == {K!NoSecret} \cup [key : {"old"}, pub : {"old", "stale", None}]
<1>1. K!NoFiles.pub = None /\ K!NoSecret.pub = None
  BY Zenon DEF K!NoFiles, K!NoSecret
<1>2. ASSUME NEW f \in found
      PROVE  /\ f.pub \in K!Key \cup {None}
             /\ [K!NoFiles EXCEPT !.key = f.key, !.pub = f.pub].pub = f.pub
  BY <1>1, Zenon DEF K!Key, K!NoFiles
<1>3. secret.pub \in K!Key \cup {None}
  <2>1. secret \in found \/ secret = [key |-> None, pub |-> "old"]
    BY Zenon DEF K!KeyInit
  <2>2. [key |-> None, pub |-> "old"].pub \in K!Key
    BY Zenon DEF K!Key
  <2>. HIDE DEF found
  <2>. QED
    BY <1>2, <2>1, <2>2, Zenon
<1>4. \A v \in K!Volume : disk[v].pub \in K!Key \cup {None}
  BY <1>1, <1>2, Zenon DEF K!KeyInit
<1>5. \A j \in Job : job[j].pc # "pubrename"
  BY Zenon DEF K!KeyInit, K!NewJob
<1>. QED
  BY <1>3, <1>4, <1>5, Zenon DEF PubInv

SigningTypes ==
    /\ K!KeyTypeOK
    /\ signer \in K!Key \cup {None, "ephemeral"} /\ trusted \in K!Key \cup {None}

(* The variables of the signing key stay in their domains: the files and    *)
(* the Secret hold keys or what is left of one, and the worker signs with   *)
(* and the probe trusts a whole key or none.                                *)
THEOREM KeyTypes == Spec => []SigningTypes
<1>. DEFINE Inv == PubInv /\ SigningTypes
<1>1. Init => Inv
  <2>1. Init => PubInv /\ KeyInv
    BY PubInit, KeyInitInv, Zenon DEF Init
  <2>. QED
    BY <2>1, Zenon DEF Init, PlaybookInit, SigningTypes, KeyInv
<1>2. ASSUME KeyInv, KeyInv', Inv, [Next]_vars PROVE Inv'
  <2>1. PubInv'
    <3>1. ASSUME NEW j \in Job, KeyJob(j) PROVE PubInv'
      BY <1>2, <3>1, PubKept, Zenon DEF KeyJob
    <3>2. CASE Start
      <4>1. UNCHANGED <<install, disk, secret>> /\ \A j \in Job : job'[j].pc = "new"
        BY <3>2, Zenon DEF Start, K!NewJob
      <4>. QED
        BY <1>2, <4>1, Zenon DEF PubInv
    <3>3. CASE UNCHANGED keys
      BY <1>2, <3>3, Zenon DEF keys, PubInv, K!Here, K!VolumeOf
    <3>. QED
      BY <1>2, <3>1, <3>2, <3>3, Zenon DEF Next, vars
  <2>2. K!KeyTypeOK'
    BY <1>2, Zenon DEF KeyInv
  <2>3. (signer \in K!Key \cup {None, "ephemeral"} /\ trusted \in K!Key \cup {None})'
    <3>1. CASE Start
      <4>1. /\ K!Mounted.key \in K!Key \cup {None} /\ K!Mounted.pub \in K!Key \cup {None}
        BY <1>2, Zenon DEF KeyInv, PubInv, K!Mounted, K!Volume
      <4>. QED
        BY <3>1, <4>1, Zenon DEF Start, WorkerSigner
    <3>2. CASE UNCHANGED setting
      BY <1>2, <3>2, Zenon DEF setting, SigningTypes
    <3>. QED
      BY <1>2, <3>1, <3>2, SettingKept, Zenon DEF Next, vars, playbookVars
  <2>. QED
    BY <2>1, <2>2, <2>3, Zenon DEF SigningTypes
<1>. QED
  BY <1>1, <1>2, KeyInvariant, PTL DEF Spec
=============================================================================
