-------------------------- MODULE RemediationTypes --------------------------
(***************************************************************************)
(* The types of the write channel and what the probe writes, for any       *)
(* number of executions and actions, any bounds and both deployments.      *)
(*                                                                         *)
(* What a file holds comes from the lists of patches in an action, so this *)
(* begins with what leaving out and joining make of a list.  RowInv is     *)
(* about the executions and their checks, FileInv about config.properties  *)
(* and what the probe has read of it, SourceInv about where the values in  *)
(* them come from.                                                         *)
(***************************************************************************)
EXTENDS SigningKeyProofs, RemediationProofs

(***************************************************************************)
(* Lists                                                                   *)
(***************************************************************************)

LEMMA OneMore ==
    ASSUME NEW S, IsFiniteSet(S), NEW x, x \notin S
    PROVE  Cardinality(S \cup {x}) = Cardinality(S) + 1
  BY FS_AddElement

(* Of any set of positions, one is the k-th. *)
LEMMA KthExists ==
    ASSUME NEW n \in Nat, NEW I, I \subseteq 1..n, NEW k \in 1..Cardinality(I)
    PROVE  \E i \in I : Cardinality({j \in I : j <= i}) = k
<1> DEFINE C(m) == {j \in I : j <= m}
           N(m) == Cardinality(C(m))
           T == {m \in Nat : m <= n /\ N(m) >= k}
<1>1. \A m : IsFiniteSet(C(m)) /\ N(m) \in Nat
  <2>1. IsFiniteSet(1..n)
    BY FS_Interval
  <2>2. \A m : C(m) \subseteq 1..n
    BY Zenon
  <2>. QED
    BY <2>1, <2>2, FS_Subset, FS_CardinalityType, Zenon
<1>0. \A j \in I : j \in Int /\ 1 <= j /\ j <= n
  OBVIOUS
<1>2. C(n) = I /\ C(0) = {}
  <2>1. \A j \in I : j <= n /\ ~(j <= 0)
    BY <1>0
  <2>. QED
    BY <2>1, Zenon
<1>3. N(n) = Cardinality(I) /\ N(0) = 0
  BY <1>2, FS_EmptySet, Zenon
<1>4. \A m \in 1..n : N(m) = IF m \in I THEN N(m - 1) + 1 ELSE N(m - 1)
  <2>. SUFFICES ASSUME NEW m \in 1..n
                PROVE  N(m) = IF m \in I THEN N(m - 1) + 1 ELSE N(m - 1)
    BY Zenon
  <2>1. CASE m \in I
    <3>0. ~(m <= m - 1) /\ \A j \in I : j <= m <=> j <= m - 1 \/ j = m
      BY <1>0
    <3>1. C(m) = C(m - 1) \cup {m} /\ m \notin C(m - 1)
      BY <2>1, <3>0, Zenon
    <3>2. N(m) = N(m - 1) + 1
      BY <1>1, <3>1, OneMore, Zenon
    <3>. QED
      BY <2>1, <3>2, Zenon
  <2>2. CASE m \notin I
    <3>0. \A j \in I : j <= m <=> j <= m - 1
      BY <1>0, <2>2
    <3>1. C(m) = C(m - 1)
      BY <3>0, Zenon
    <3>. QED
      BY <2>2, <3>1, Zenon
  <2>. QED
    BY <2>1, <2>2, Zenon
<1>5. \A m : N(m) = Cardinality({j \in I : j <= m})
  BY Zenon
<1> HIDE DEF C, N
<1>6. Cardinality(I) \in Nat /\ k \in Nat /\ 1 <= k /\ k <= Cardinality(I)
  BY <1>1, <1>3
<1>7. T \subseteq Nat /\ n \in T
  BY <1>1, <1>3, <1>6
<1>8. PICK m \in T : \A y \in T : ~(<<y, m>> \in OpToRel(<, Nat))
  BY <1>7, NatLessThanWellFounded, WFMin, Zenon
<1>9. \A y \in T : ~(y < m)
  BY <1>7, <1>8, Zenon DEF OpToRel
<1>10. m \in 1..n /\ N(m) >= k
  <2>1. m \in Nat /\ m <= n /\ N(m) >= k
    BY <1>8, Zenon
  <2>2. m # 0
    BY <1>3, <1>6, <2>1
  <2>. QED
    BY <2>1, <2>2
<1>11. N(m - 1) < k
  <2>1. m - 1 \in Nat /\ m - 1 < m /\ m - 1 <= n
    BY <1>10
  <2>2. m - 1 \notin T
    BY <1>9, <2>1, Zenon
  <2>. QED
    BY <1>1, <1>6, <2>1, <2>2
<1>12. m \in I /\ N(m) = k
  BY <1>1, <1>4, <1>6, <1>10, <1>11
<1>. QED
  BY <1>5, <1>12, Zenon

(* What is picked is a sequence of what stood at those positions. *)
LEMMA PickedIsPart ==
    ASSUME NEW S, NEW s \in Seq(S), NEW I, I \subseteq DOMAIN s
    PROVE  /\ Picked(s, I) \in Seq({s[i] : i \in I})
           /\ Len(Picked(s, I)) = Cardinality(I) /\ Cardinality(I) \in Nat
<1>1. Len(s) \in Nat /\ I \subseteq 1..Len(s)
  OBVIOUS
<1>2. IsFiniteSet(I) /\ Cardinality(I) \in Nat
  <2>1. IsFiniteSet(1..Len(s))
    BY <1>1, FS_Interval
  <2>. QED
    BY <1>1, <2>1, FS_Subset, FS_CardinalityType, Zenon
<1> DEFINE Nth(k) == CHOOSE i \in I : Cardinality({j \in I : j <= i}) = k
<1>3. \A k \in 1..Cardinality(I) : Nth(k) \in I
  BY <1>1, KthExists, Zenon
<1>4. Picked(s, I) = [k \in 1..Cardinality(I) |-> s[Nth(k)]]
  BY DEF Picked
<1> HIDE DEF Nth
<1>5. \A k \in 1..Cardinality(I) : s[Nth(k)] \in {s[i] : i \in I}
  BY <1>3
<1>. QED
  BY <1>2, <1>4, <1>5

(* A set of positions has a last one. *)
LEMMA LastExists ==
    ASSUME NEW n \in Nat, NEW I, I \subseteq 1..n, I # {}
    PROVE  \E i \in I : \A j \in I : j <= i
<1>. DEFINE T == {m \in Nat : \A j \in I : j <= m}
<1>1. \A j \in I : j \in Int /\ 1 <= j /\ j <= n
  OBVIOUS
<1>2. T \subseteq Nat /\ n \in T
  BY <1>1, Zenon
<1>3. PICK m \in T : \A y \in T : ~(<<y, m>> \in OpToRel(<, Nat))
  BY <1>2, NatLessThanWellFounded, WFMin, Zenon
<1>4. /\ m \in Nat /\ \A j \in I : j <= m
      /\ \A y \in T : ~(y < m)
  BY <1>2, <1>3, Zenon DEF OpToRel
<1>5. m \in I
  <2>. SUFFICES ASSUME m \notin I PROVE FALSE
    BY Zenon
  <2>1. \A j \in I : j <= m - 1
    BY <1>1, <1>4
  <2>2. PICK j \in I : j \in Int /\ 1 <= j /\ j <= m
    BY <1>1, <1>4, Zenon
  <2>3. m - 1 \in Nat /\ m - 1 < m
    BY <1>4, <2>2
  <2>. QED
    BY <1>4, <2>1, <2>3, Zenon
<1>. QED
  BY <1>4, <1>5, Zenon

(***************************************************************************)
(* Patches and checks                                                      *)
(***************************************************************************)

Entries(s) == {s[i] : i \in DOMAIN s}

(* Leaving patches out adds none. *)
LEMMA WithoutIsPart ==
    ASSUME NEW s, s \in Seq(Entries(s)), NEW skipped
    PROVE  Without(s, skipped) \in Seq(Entries(s))
<1>. DEFINE I == {i \in DOMAIN s : s[i].key \notin skipped}
<1>1. I \subseteq DOMAIN s /\ {s[i] : i \in I} \subseteq Entries(s)
  BY Zenon DEF Entries
<1>2. Without(s, skipped) = Picked(s, I)
  BY Zenon DEF Without
<1>. HIDE DEF I
<1>3. Picked(s, I) \in Seq({s[i] : i \in I})
  BY <1>1, PickedIsPart, Zenon
<1>4. \A S, T, t : S \subseteq T /\ t \in Seq(S) => t \in Seq(T)
  OBVIOUS
<1>. QED
  BY <1>1, <1>2, <1>3, <1>4, Zenon

(* The value for a key is that of one of the patches for it. *)
LEMMA PatchOfSome ==
    ASSUME NEW S, NEW s \in Seq(S), NEW k \in Keys(s)
    PROVE  \E i \in DOMAIN s : s[i].key = k /\ PatchOf(s, k) = s[i].value
<1>. DEFINE I == {i \in DOMAIN s : s[i].key = k}
            Last(i) == s[i].key = k /\ \A j \in DOMAIN s : s[j].key = k => j <= i
<1>1. Len(s) \in Nat /\ DOMAIN s = 1..Len(s) /\ \A i \in DOMAIN s : s[i] \in S
  OBVIOUS
<1>2. I # {} /\ I \subseteq 1..Len(s)
  BY <1>1, Zenon DEF Keys
<1>3. \E i \in DOMAIN s : Last(i)
  BY <1>1, <1>2, LastExists, Zenon
<1>. DEFINE i == CHOOSE x \in DOMAIN s : Last(x)
<1>4. i \in DOMAIN s /\ Last(i)
  BY <1>3, Zenon
<1>5. PatchOf(s, k) = s[i].value
  BY Zenon DEF PatchOf
<1>. QED
  BY <1>1, <1>4, <1>5, Zenon

LEMMA ListOfFitting ==
    ASSUME NEW S, \A q \in S : PatchFits(q), NEW s \in Seq(S)
    PROVE  PatchList(s)
<1>1. s \in Seq({s[i] : i \in DOMAIN s}) /\ \A i \in DOMAIN s : s[i] \in S
  OBVIOUS
<1>. QED
  BY <1>1, Zenon DEF PatchList

LEMMA MemoryPatchesFit ==
    ASSUME NEW a \in AllowedActions PROVE PatchList(MemoryPatches(a.params))
<1>. DEFINE ps == a.params.patches
            mem == a.params.mem
            top == a.params.top
            S == Entries(ps) \cup Entries(mem) \cup Entries(top)
<1>1. /\ ps \in Seq(Entries(ps)) /\ mem \in Seq(Entries(mem)) /\ top \in Seq(Entries(top))
      /\ \A q \in S : PatchFits(q)
  BY ActionsAssumption, Zenon DEF PatchList, Entries
<1>2. /\ Without(ps, {None, ""}) \in Seq(Entries(ps))
      /\ Without(top, Keys(mem)) \in Seq(Entries(top))
  BY <1>1, WithoutIsPart, Zenon
<1>3. \A A, B, C, s, t : s \in Seq(A) /\ t \in Seq(B) =>
        s \in Seq(C \cup A \cup B) /\ s \in Seq(A \cup B \cup C) /\ s \o t \in Seq(C \cup A \cup B)
  OBVIOUS
<1>4. MemoryPatches(a.params) \in Seq(S)
  BY <1>1, <1>2, <1>3, Zenon DEF MemoryPatches
<1>. HIDE DEF S
<1>. QED
  BY <1>1, <1>4, ListOfFitting, Zenon

LEMMA ConfigPatchesFit ==
    ASSUME NEW a \in AllowedActions, NEW l PROVE PatchList(ConfigPatches(a.params, l))
<1>. DEFINE ps == a.params.patches
            text == [k \in {a.params.key} |-> a.params.value]
            one == [key |-> Locator(l, "config_file_key"), value |-> text]
            S == Entries(ps) \cup {one}
<1>1. /\ ps \in Seq(Entries(ps)) /\ a.params.value \in Value \cup {None}
      /\ \A q \in Entries(ps) : PatchFits(q)
  BY ActionsAssumption, Zenon DEF PatchList, Entries
<1>2. IsText(text)
  BY <1>1, Zenon DEF IsText
<1>3. one.value = text
  BY Zenon
<1>4. PatchFits(one)
  BY <1>2, <1>3, Zenon DEF PatchFits
<1>5. Without(ps, {None}) \in Seq(Entries(ps))
  BY <1>1, WithoutIsPart, Zenon
<1>. HIDE DEF one, ps
<1>6. \A A, s : /\ s \in Seq(A) => s \in Seq(A \cup {one})
                /\ <<one>> \in Seq(A \cup {one}) /\ <<>> \in Seq(A \cup {one})
  OBVIOUS
<1>7. ConfigPatches(a.params, l) \in {Without(ps, {None}), <<>>, <<one>>}
  BY Zenon DEF ConfigPatches, ps, one
<1>8. ConfigPatches(a.params, l) \in Seq(S) /\ \A q \in S : PatchFits(q)
  BY <1>1, <1>4, <1>5, <1>6, <1>7, Zenon
<1>. HIDE DEF S
<1>. QED
  BY <1>8, ListOfFitting, Zenon

(* The value for a key in a list that fits. *)
LEMMA PatchOfFits ==
    ASSUME NEW s, PatchList(s), NEW k \in Keys(s)
    PROVE  \E i \in DOMAIN s : s[i].key = k /\ PatchOf(s, k) = s[i].value /\ PatchFits(s[i])
<1>. DEFINE S == {s[i] : i \in DOMAIN s}
<1>1. s \in Seq(S) /\ \A i \in DOMAIN s : PatchFits(s[i])
  BY Zenon DEF PatchList
<1>. HIDE DEF S
<1>. QED
  BY <1>1, PatchOfSome

(* What mergeProperties makes: the patches on the file as it was read, or   *)
(* on a whole file among them.                                              *)
Merged(f, base, s) ==
    \E content, ks :
        /\ f = Overlay(content, s, ks) /\ ks \subseteq Keys(s)
        /\ \A k \in ks : PatchOf(s, k) \in Value
        /\ \/ content = base
           \/ \E i \in DOMAIN s : /\ s[i].value \notin Value /\ PatchFits(s[i])
                                  /\ content = FileOf(s[i].value)

LEMMA MergedFrom ==
    ASSUME NEW base, NEW s, PatchList(s), NEW f \in MergeProperties(base, s)
    PROVE  Merged(f, base, s)
<1>. DEFINE texts == {PatchOf(s, k) : k \in Keys(s)} \ Value
            short == {k \in Keys(s) : PatchOf(s, k) \in Value \ WithEquals}
<1>1. CASE texts = {}
  <2>1. f = Overlay(base, s, Keys(s))
    BY <1>1, Zenon DEF MergeProperties
  <2>2. \A k \in Keys(s) : PatchOf(s, k) \in Value
    BY <1>1, Zenon
  <2>. QED
    BY <2>1, <2>2, Zenon DEF Merged
<1>2. CASE texts # {}
  <2>1. PICK t \in texts : f = Overlay(FileOf(t), s, short)
    BY <1>2, Zenon DEF MergeProperties
  <2>2. PICK k \in Keys(s) : t = PatchOf(s, k) /\ t \notin Value
    BY <2>1, Zenon
  <2>3. PICK i \in DOMAIN s : s[i].value = t /\ PatchFits(s[i])
    BY <2>2, PatchOfFits, Zenon
  <2>4. short \subseteq Keys(s) /\ \A j \in short : PatchOf(s, j) \in Value
    BY Zenon
  <2>. QED
    BY <2>1, <2>2, <2>3, <2>4, Zenon DEF Merged
<1>. QED
  BY <1>1, <1>2, Zenon

(* The canary is always among the checks. *)
LEMMA ChecksLength ==
    ASSUME NEW a \in AllowedActions \cup {NoAction}
    PROVE  Len(Checks(a)) \in Nat /\ Len(Checks(a)) >= 1
<1>. DEFINE I == {i \in DOMAIN a.plan : a.plan[i] # ""}
<1>1. a.plan \in Seq(STRING)
  <2>1. NoAction.plan = <<>> /\ <<>> \in Seq(STRING)
    BY DEF NoAction
  <2>. QED
    BY <2>1, ActionsAssumption, Zenon
<1>2. I \subseteq DOMAIN a.plan
  BY Zenon
<1>3. Checks(a) = DefaultChecks(a.playbook) \o Picked(a.plan, I) \o <<"canary">>
  BY Zenon DEF Checks
<1>. HIDE DEF I
<1>4. \E S : Picked(a.plan, I) \in Seq(S)
  BY <1>1, <1>2, PickedIsPart, Zenon
<1>5. \E S : DefaultChecks(a.playbook) \in Seq(S)
  <2>1. PICK t1, t2, t3 :
          DefaultChecks(a.playbook) \in {<<>>, <<t1>>, <<t1, t2>>, <<t1, t2, t3>>}
    BY Zenon DEF DefaultChecks
  <2>2. <<>> \in Seq({}) /\ <<t1>> \in Seq({t1}) /\ <<t1, t2>> \in Seq({t1, t2})
    OBVIOUS
  <2>3. <<t1, t2, t3>> \in Seq({t1, t2, t3})
    OBVIOUS
  <2>. QED
    BY <2>1, <2>2, <2>3, Zenon
<1>6. \A R, S, s, t : s \in Seq(R) /\ t \in Seq(S) =>
        /\ Len(s \o t \o <<"canary">>) \in Nat /\ Len(s \o t \o <<"canary">>) >= 1
  OBVIOUS
<1>. QED
  BY <1>3, <1>4, <1>5, <1>6, Zenon

(***************************************************************************)
(* The inductive invariants                                                *)
(***************************************************************************)

Pcs == {"idle", "opening", "build", "dispatch", "await", "settle", "check", "closing",
        "ended", "raised", "dead"}
Rows == {"none", "running", "failed", "succeeded"}
Unverified == {"idle", "opening", "build", "dispatch", "await", "settle"}

(* An execution at "at" with action a that has done n checks. *)
ChecksFit(e, at, a, n) ==
    /\ a \in Actions(e) \/ (at = "idle" /\ a = NoAction)
    /\ n \in 0..Len(Checks(a))
    /\ at \in Unverified => n = 0
    /\ at = "check" => n < Len(Checks(a))

(* The checks begin at the first, and another one is made only if there is  *)
(* one.                                                                     *)
RowInv ==
    /\ row \in [Exec -> Rows] /\ pc \in [Exec -> Pcs] /\ attempt \in [Exec -> 1..Attempts]
    /\ DOMAIN action = Exec /\ DOMAIN check = Exec /\ queries \subseteq Queries
    /\ \A e \in Exec : ChecksFit(e, pc[e], action[e], check[e])

FileType == [Property -> Value \cup {None}]

(* What the probe has read of a file, and the file. *)
FileInv ==
    /\ file \in FileType
    /\ \A e \in Exec : task[e].stage = "taken" /\ Merges(e) => task[e].base \in FileType

(***************************************************************************)
(* The executions                                                          *)
(***************************************************************************)

(* A step of execution e. *)
LEMMA RowOthers ==
    ASSUME RowInv, NEW e \in Exec,
           row' \in [Exec -> Rows], pc' \in [Exec -> Pcs], attempt' \in [Exec -> 1..Attempts],
           DOMAIN action' = Exec, DOMAIN check' = Exec, queries' \subseteq queries,
           \A f \in Exec \ {e} :
              pc'[f] = pc[f] /\ action'[f] = action[f] /\ check'[f] = check[f],
           ChecksFit(e, pc'[e], action'[e], check'[e])
    PROVE  RowInv'
<1>1. ASSUME NEW f \in Exec PROVE ChecksFit(f, pc'[f], action'[f], check'[f])
  BY Zenon DEF RowInv
<1>2. (queries \subseteq Queries)'
  BY Zenon DEF RowInv
<1>. QED
  BY <1>1, <1>2, Zenon DEF RowInv

LEMMA ChecksAtStart ==
    ASSUME NEW e \in Exec, NEW a \in Actions(e), NEW at
    PROVE  ChecksFit(e, at, a, 0)
<1>1. a \in AllowedActions
  BY Zenon DEF AllowedActions
<1>2. Len(Checks(a)) \in Nat /\ Len(Checks(a)) >= 1
  BY <1>1, ChecksLength, Zenon
<1>3. 0 \in 0..Len(Checks(a)) /\ 0 < Len(Checks(a))
  BY <1>2
<1>. QED
  BY <1>3, Zenon DEF ChecksFit

(* Again: from the first check once more, or given up. *)
LEMMA AgainKeepsRow ==
    ASSUME RowInv, NEW e \in Exec, pc[e] # "idle", Again(e),
           row' \in [Exec -> Rows], UNCHANGED <<action, queries>>
    PROVE  RowInv'
<1>1. /\ pc \in [Exec -> Pcs] /\ attempt \in [Exec -> 1..Attempts] /\ DOMAIN check = Exec
      /\ DOMAIN action = Exec /\ action[e] \in Actions(e)
  BY Zenon DEF RowInv, ChecksFit
<1>2. attempt[e] \in 1..Attempts /\ (attempt[e] < Attempts => attempt[e] + 1 \in 1..Attempts)
  BY <1>1, PlaybookAssumption
<1>3. attempt' \in [Exec -> 1..Attempts]
  BY <1>1, <1>2, Zenon DEF Again
<1>4. pc' \in [Exec -> Pcs] /\ check'[e] = 0 /\ DOMAIN check' = Exec
  BY <1>1, Zenon DEF Again, Pcs
<1>5. \A f \in Exec \ {e} :
          pc'[f] = pc[f] /\ action'[f] = action[f] /\ check'[f] = check[f]
  BY <1>1, Zenon DEF Again
<1>6. ChecksFit(e, pc'[e], action'[e], check'[e])
  BY <1>1, <1>4, ChecksAtStart, Zenon
<1>. QED
  BY <1>1, <1>3, <1>4, <1>5, <1>6, RowOthers, Zenon

(* A step that only moves the execution on, to where no check is due, or to *)
(* the first one.                                                           *)
LEMMA MoveKeepsRow ==
    ASSUME RowInv, NEW e \in Exec, NEW at \in Pcs \ {"idle"}, pc[e] # "idle",
           pc' = [pc EXCEPT ![e] = at], row' \in [Exec -> Rows],
           queries' \subseteq queries, UNCHANGED <<action, check, attempt>>,
           check[e] = 0 \/ at \notin Unverified \cup {"check"}
    PROVE  RowInv'
<1>1. /\ pc \in [Exec -> Pcs] /\ attempt \in [Exec -> 1..Attempts] /\ DOMAIN check = Exec
      /\ DOMAIN action = Exec /\ action[e] \in Actions(e)
      /\ check[e] \in 0..Len(Checks(action[e]))
  BY Zenon DEF RowInv, ChecksFit
<1>2. pc' \in [Exec -> Pcs] /\ pc'[e] = at /\ \A f \in Exec \ {e} : pc'[f] = pc[f]
  BY <1>1, Zenon
<1>3. ChecksFit(e, at, action[e], check[e])
  <2>1. CASE check[e] = 0
    BY <1>1, <2>1, ChecksAtStart, Zenon
  <2>2. CASE at \notin Unverified \cup {"check"}
    BY <1>1, <2>2, Zenon DEF ChecksFit
  <2>. QED
    BY <2>1, <2>2, Zenon
<1>. QED
  BY <1>1, <1>2, <1>3, RowOthers, Zenon

LEMMA ExecutionKeepsRow ==
    ASSUME RowInv, NEW e \in Exec,
           Open(e) \/ OpenCommit(e) \/ Build(e) \/ Dispatch(e) \/ StepResult(e) \/ WorkerDies(e)
              \/ Settled(e)
    PROVE  RowInv'
<1>. USE DEF cluster
<1>1. /\ row \in [Exec -> Rows] /\ pc \in [Exec -> Pcs] /\ attempt \in [Exec -> 1..Attempts]
      /\ DOMAIN action = Exec /\ DOMAIN check = Exec
      /\ pc[e] \in Unverified => check[e] = 0
  BY Zenon DEF RowInv, ChecksFit
<1>2. CASE Open(e)
  <2>1. PICK a \in Actions(e) : action' = [action EXCEPT ![e] = a]
    BY <1>2, Zenon DEF Open
  <2>2. /\ pc[e] = "idle" /\ pc' = [pc EXCEPT ![e] = "opening"]
        /\ UNCHANGED <<row, queries, check, attempt>>
    BY <1>2, Zenon DEF Open
  <2>3. /\ pc' \in [Exec -> Pcs] /\ action'[e] = a /\ DOMAIN action' = Exec /\ check[e] = 0
        /\ \A f \in Exec \ {e} : pc'[f] = pc[f] /\ action'[f] = action[f]
    BY <1>1, <2>1, <2>2, Zenon DEF Pcs, Unverified
  <2>4. ChecksFit(e, pc'[e], a, 0)
    BY ChecksAtStart, Zenon
  <2>. QED
    BY <1>1, <2>2, <2>3, <2>4, RowOthers, Zenon
<1>3. ASSUME NEW at \in Pcs \ {"idle"}, pc' = [pc EXCEPT ![e] = at], row' \in [Exec -> Rows],
             UNCHANGED <<queries, action, check, attempt>>, pc[e] \in Unverified \ {"idle"}
      PROVE  RowInv'
  BY <1>1, <1>3, MoveKeepsRow, Zenon
<1>4. CASE OpenCommit(e)
  <2>1. pc[e] = "opening" /\ UNCHANGED <<queries, action, check, attempt>>
    BY <1>4, Zenon DEF OpenCommit
  <2>2. /\ row' \in [Exec -> Rows]
        /\ \E at \in {"raised", "build"} : pc' = [pc EXCEPT ![e] = at]
    BY <1>1, <1>4, Zenon DEF OpenCommit, Rows
  <2>. QED
    BY <1>3, <2>1, <2>2, Zenon DEF Pcs, Unverified
<1>5. CASE Build(e)
  BY <1>1, <1>3, <1>5, Zenon DEF Build, FinishFailed, Pcs, Rows, Unverified
<1>6. CASE Dispatch(e)
  BY <1>1, <1>3, <1>6, Zenon DEF Dispatch, Pcs, Unverified
<1>7. CASE StepResult(e)
  <2>1. pc[e] = "await" /\ UNCHANGED <<queries, action, check, attempt>>
    BY <1>7, Zenon DEF StepResult
  <2>2. NextStep(e) \/ FinishFailed(e)
    BY <1>7, Zenon DEF StepResult
  <2>3. /\ row' \in [Exec -> Rows]
        /\ \E at \in {"settle", "dispatch", "ended"} : pc' = [pc EXCEPT ![e] = at]
    BY <1>1, <2>2, Zenon DEF NextStep, FinishFailed, Rows
  <2>. QED
    BY <1>3, <2>1, <2>3, Zenon DEF Pcs, Unverified
<1>8. CASE WorkerDies(e)
  BY <1>1, <1>3, <1>8, Zenon DEF WorkerDies, Pcs, Unverified
<1>9. CASE Settled(e)
  BY <1>1, <1>3, <1>9, Zenon DEF Settled, Pcs, Unverified
<1>. QED
  BY <1>2, <1>4, <1>5, <1>6, <1>7, <1>8, <1>9, Zenon

LEMMA RunCheckKeepsRow == ASSUME RowInv, NEW e \in Exec, RunCheck(e) PROVE RowInv'
<1>. DEFINE n == Len(Checks(action[e]))
<1>1. /\ row \in [Exec -> Rows] /\ pc \in [Exec -> Pcs] /\ attempt \in [Exec -> 1..Attempts]
      /\ DOMAIN action = Exec /\ DOMAIN check = Exec /\ pc[e] = "check"
      /\ UNCHANGED <<action, queries, row>>
  BY Zenon DEF RowInv, RunCheck, cluster
<1>2. check[e] \in 0..n /\ check[e] < n /\ action[e] \in Actions(e)
  BY <1>1, Zenon DEF RowInv, ChecksFit
<1>3. CASE Again(e)
  BY <1>1, <1>3, AgainKeepsRow, Zenon
<1>4. CASE ~Again(e)
  <2>1. /\ check' = [check EXCEPT ![e] = @ + 1] /\ UNCHANGED attempt
        /\ pc' = [pc EXCEPT ![e] = IF check[e] + 1 = n THEN "closing" ELSE "check"]
    BY <1>4, Zenon DEF RunCheck
  <2>2. /\ check'[e] = check[e] + 1 /\ DOMAIN check' = Exec /\ pc' \in [Exec -> Pcs]
        /\ pc'[e] = IF check[e] + 1 = n THEN "closing" ELSE "check"
        /\ \A f \in Exec \ {e} : pc'[f] = pc[f] /\ check'[f] = check[f]
    BY <1>1, <2>1, Zenon DEF Pcs
  <2>3. action[e] \in AllowedActions
    BY <1>2, Zenon DEF AllowedActions
  <2>4. n \in Nat
    BY <2>3, ChecksLength, Zenon
  <2>5. check[e] + 1 \in 0..n /\ (check[e] + 1 # n => check[e] + 1 < n)
    BY <1>2, <2>4
  <2>6. ChecksFit(e, pc'[e], action[e], check'[e])
    BY <1>2, <2>2, <2>5, Zenon DEF ChecksFit, Unverified
  <2>. QED
    BY <1>1, <2>1, <2>2, <2>6, RowOthers, Zenon
<1>. QED
  BY <1>3, <1>4, Zenon

LEMMA RowStep == ASSUME RowInv, [Next]_vars PROVE RowInv'
<1>. USE DEF cluster
<1>1. /\ row \in [Exec -> Rows] /\ pc \in [Exec -> Pcs]
  BY Zenon DEF RowInv
<1>2. ASSUME NEW e \in Exec, ProbeTakes(e) \/ ProbeWrites(e) \/ ProbeFails(e) PROVE RowInv'
  <2>1. UNCHANGED <<row, pc, attempt, action, check>> /\ queries' \subseteq queries
    BY <1>2, Zenon DEF ProbeTakes, ProbeWrites, ProbeFails
  <2>. QED
    BY <2>1, Zenon DEF RowInv
<1>3. ASSUME NEW e \in Exec, VerifyCommit(e) PROVE RowInv'
  <2>1. /\ row' \in [Exec -> Rows] /\ pc[e] = "closing" /\ UNCHANGED <<action, queries>>
    BY <1>1, <1>3, Zenon DEF VerifyCommit, Rows
  <2>2. CASE Again(e)
    BY <2>1, <2>2, AgainKeepsRow, Zenon
  <2>3. CASE pc' = [pc EXCEPT ![e] = "ended"] /\ UNCHANGED <<check, attempt>>
    BY <2>1, <2>3, MoveKeepsRow, Zenon DEF Pcs, Unverified
  <2>. QED
    BY <1>3, <2>2, <2>3, Zenon DEF VerifyCommit
<1>4. CASE UNCHANGED <<row, pc, attempt, action, check, queries>>
  BY <1>4, Zenon DEF RowInv
<1>5. CASE PlaybookNext
  <2>1. CASE Seed
    BY <1>4, <2>1, Zenon DEF Seed
  <2>. QED
    BY <1>2, <1>3, <1>5, <2>1, ExecutionKeepsRow, RunCheckKeepsRow, Zenon DEF PlaybookNext
<1>6. CASE (\E j \in Job : KeyJob(j)) \/ Start \/ UNCHANGED vars
  BY <1>4, <1>6, Zenon DEF KeyJob, Start, vars, playbookVars
<1>. QED
  BY <1>5, <1>6, Zenon DEF Next

(***************************************************************************)
(* The file                                                                *)
(***************************************************************************)

LEMMA TextIsFile == ASSUME NEW t, IsText(t) PROVE FileOf(t) \in FileType
BY Zenon DEF IsText, FileOf, FileType

(* How the probe changes a ConfigMap. *)
LEMMA PatchedFrom ==
    ASSUME StepsInv, RowInv, NEW e \in Exec, ProbeWrites(e),
           ThisStep(e).op = "k8s_patch_configmap"
    PROVE  LET ps == ThisStep(e).patches
           IN  /\ task[e].stage = "taken" /\ PatchList(ps)
               /\ \/ /\ Merges(e) /\ Keys(ps) \subseteq Whitelist
                     /\ file' \in MergeProperties(task[e].base, ps)
                  \/ file' = file
                  \/ \E i \in DOMAIN ps : /\ ps[i].key = FileKey /\ PatchFits(ps[i])
                                          /\ file' = FileOf(ps[i].value)
<1>. DEFINE ps == ThisStep(e).patches
            l == ResolveLocators(deployment, targets)
<1>1. task[e].stage = "taken" /\ file' \in Patched(e, ps)
  BY Zenon DEF ProbeWrites
<1>2. pc[e] # "idle" /\ task[e].step \in 1..Len(StepsOf(e).steps)
  BY <1>1, Zenon DEF StepsInv, StepsFit
<1>3. action[e] \in AllowedActions
  BY <1>2, Zenon DEF RowInv, ChecksFit, AllowedActions
<1>4. /\ ps = PatchesFor(action[e].playbook, action[e].params, l)
      /\ action[e].playbook = "presto.adjust_memory_config" => Keys(ps) \subseteq Whitelist
  BY <1>2, ShapeOf, Zenon DEF ThisStep, Shape, PatchesOf, PatchOps
<1>5. PatchList(ps)
  BY <1>3, <1>4, MemoryPatchesFit, ConfigPatchesFit, Zenon DEF PatchesFor
<1>. HIDE DEF ps
<1>6. CASE Merges(e)
  <2>1. file' \in MergeProperties(task[e].base, ps) /\ Keys(ps) \subseteq Whitelist
    BY <1>1, <1>4, <1>6, Zenon DEF Patched, Merges
  <2>. QED
    BY <1>1, <1>5, <1>6, <2>1, Zenon DEF ps
<1>7. CASE ~Merges(e) /\ FileKey \notin Keys(ps)
  <2>1. file' = file
    BY <1>1, <1>7, Zenon DEF Patched
  <2>. QED
    BY <1>1, <1>5, <2>1, Zenon DEF ps
<1>8. CASE ~Merges(e) /\ FileKey \in Keys(ps)
  <2>1. file' = FileOf(PatchOf(ps, FileKey))
    BY <1>1, <1>8, Zenon DEF Patched
  <2>2. \E i \in DOMAIN ps : /\ ps[i].key = FileKey /\ PatchOf(ps, FileKey) = ps[i].value
                             /\ PatchFits(ps[i])
    BY <1>5, <1>8, PatchOfFits, Zenon
  <2>. QED
    BY <1>1, <1>5, <2>1, <2>2, Zenon DEF ps
<1>. QED
  BY <1>6, <1>7, <1>8, Zenon

(* What the probe writes is a file. *)
LEMMA WrittenIsFile ==
    ASSUME StepsInv, RowInv, FileInv, NEW e \in Exec, ProbeWrites(e)
    PROVE  file' \in FileType
<1>. DEFINE ps == ThisStep(e).patches
<1>1. CASE ThisStep(e).op # "k8s_patch_configmap"
  BY <1>1, Zenon DEF ProbeWrites, FileInv
<1>2. CASE ThisStep(e).op = "k8s_patch_configmap"
  <2>1. /\ task[e].stage = "taken" /\ PatchList(ps)
        /\ \/ /\ Merges(e) /\ Keys(ps) \subseteq Whitelist
              /\ file' \in MergeProperties(task[e].base, ps)
           \/ file' = file
           \/ \E i \in DOMAIN ps : /\ ps[i].key = FileKey /\ PatchFits(ps[i])
                                   /\ file' = FileOf(ps[i].value)
    BY <1>2, PatchedFrom, Zenon
  <2>. HIDE DEF ps
  <2>2. ASSUME Merges(e), Keys(ps) \subseteq Whitelist,
               file' \in MergeProperties(task[e].base, ps)
        PROVE  file' \in FileType
    <3>1. PICK content, ks :
            /\ file' = Overlay(content, ps, ks) /\ ks \subseteq Keys(ps)
            /\ \A k \in ks : PatchOf(ps, k) \in Value
            /\ \/ content = task[e].base
               \/ \E i \in DOMAIN ps : /\ ps[i].value \notin Value /\ PatchFits(ps[i])
                                       /\ content = FileOf(ps[i].value)
      <4>1. Merged(file', task[e].base, ps)
        BY <2>1, <2>2, MergedFrom, Zenon
      <4>. QED
        BY <4>1, Zenon DEF Merged
    <3>2. ASSUME NEW i \in DOMAIN ps, ps[i].value \notin Value, PatchFits(ps[i])
          PROVE  FileOf(ps[i].value) \in FileType
      <4>1. ps[i].key \in Property
        BY <2>2, PlaybookAssumption, Zenon DEF Keys
      <4>. QED
        BY <3>2, <4>1, TextIsFile, Zenon DEF PatchFits
    <3>3. content \in FileType
      BY <2>1, <2>2, <3>1, <3>2, Zenon DEF FileInv
    <3>. QED
      BY <3>1, <3>3, Zenon DEF Overlay, FileType
  <2>. QED
    BY <2>1, <2>2, TextIsFile, Zenon DEF FileInv, PatchFits
<1>. QED
  BY <1>1, <1>2, Zenon

(* What the probe reads to merge patches into is the file. *)
LEMMA TakenIsFile ==
    ASSUME StepsInv, NEW e \in Exec, ProbeTakes(e), task'[e].stage = "taken", Merges(e)'
    PROVE  task'[e].base = file
<1>1. UNCHANGED <<deployment, targets, action>>
  BY Zenon DEF ProbeTakes, setting
<1>2. TaskRecord(task[e]) /\ DOMAIN task = Exec
  BY Zenon DEF StepsInv, StepsDomains
<1>3. task'[e] = [task[e] EXCEPT !.stage = "taken",
                                 !.base = IF Merges(e) THEN file ELSE None]
  <2>1. \/ task'[e] = [task[e] EXCEPT !.stage = "refused"]
        \/ task'[e] = [task[e] EXCEPT !.stage = "taken",
                                      !.base = IF Merges(e) THEN file ELSE None]
    BY <1>2, Zenon DEF ProbeTakes
  <2>. QED
    BY <1>2, <2>1, Zenon DEF TaskRecord
<1>4. task'[e].step = task[e].step /\ StepsOf(e)' = StepsOf(e)
  BY <1>1, <1>2, <1>3, StepsSame, Zenon DEF TaskRecord
<1>5. Merges(e)
  BY <1>1, <1>4, Zenon DEF Merges, ThisStep
<1>. QED
  BY <1>2, <1>3, <1>5, Zenon DEF TaskRecord

LEMMA FileStep == ASSUME StepsInv, RowInv, FileInv, [Next]_vars PROVE FileInv'
<1>1. file' \in FileType
  <2>1. CASE Exec = {}
    <3>1. file' = file
      BY <2>1, Zenon DEF Next, PlaybookNext, Seed, KeyJob, Start, vars, playbookVars, cluster
    <3>. QED
      BY <3>1, Zenon DEF FileInv
  <2>2. CASE Exec # {}
    BY <2>2, TaskMoves, WrittenIsFile, Zenon DEF FileInv
  <2>. QED
    BY <2>1, <2>2, Zenon
<1>2. ASSUME NEW e \in Exec, task'[e].stage = "taken", Merges(e)'
      PROVE  task'[e].base \in FileType
  <2>1. CASE task'[e] = task[e]
    <3>1. pc[e] # "idle"
      BY <1>2, <2>1, Zenon DEF StepsInv, StepsFit
    <3>2. action'[e] = action[e] /\ StepsOf(e)' = StepsOf(e)
      BY <3>1, TaskMoves, StepsSame, Zenon
    <3>3. Merges(e)
      BY <1>2, <2>1, <3>2, Zenon DEF Merges, ThisStep
    <3>. QED
      BY <1>2, <2>1, <3>3, Zenon DEF FileInv
  <2>2. CASE ProbeTakes(e)
    BY <1>2, <2>2, TakenIsFile, Zenon DEF FileInv
  <2>. QED
    BY <1>2, <2>1, <2>2, TaskMoves, Zenon
<1>. QED
  BY <1>1, <1>2, Zenon DEF FileInv

LEMMA TypesInit == ASSUME Init PROVE RowInv /\ FileInv
<1>1. /\ row = [e \in Exec |-> "none"] /\ action = [e \in Exec |-> NoAction]
      /\ pc = [e \in Exec |-> "idle"] /\ task = [e \in Exec |-> NoTask]
      /\ check = [e \in Exec |-> 0] /\ attempt = [e \in Exec |-> 1]
      /\ file = FirstFile /\ queries = Queries
  BY Zenon DEF Init, PlaybookInit
<1>2. 1 \in 1..Attempts /\ FirstFile \in [Property -> Value \cup {None}]
  BY PlaybookAssumption
<1>3. Len(Checks(NoAction)) \in Nat
  BY ChecksLength, Zenon
<1>4. 0 \in 0..Len(Checks(NoAction))
  BY <1>3
<1>5. \A e \in Exec : task[e].stage = "none"
  BY <1>1, Zenon DEF NoTask
<1>6. \A e \in Exec : ChecksFit(e, pc[e], action[e], check[e])
  BY <1>1, <1>4, Zenon DEF ChecksFit, Unverified
<1>7. RowInv
  BY <1>1, <1>2, <1>6, Zenon DEF RowInv, Rows, Pcs
<1>. QED
  BY <1>1, <1>2, <1>5, <1>7, Zenon DEF FileInv, FileType

(***************************************************************************)
(* Where the values come from                                              *)
(***************************************************************************)

(* The patches in some of the steps of a list. *)
Among(steps, op) ==
    UNION {{s.patches[i] : i \in DOMAIN s.patches} :
             s \in {x \in {steps[k] : k \in DOMAIN steps} : x.op = op}}

Has(steps, op, q) ==
    \E k \in DOMAIN steps :
        /\ steps[k].op = op
        /\ \E i \in DOMAIN steps[k].patches : q = steps[k].patches[i]

LEMMA AmongSome ==
    ASSUME NEW steps, NEW op, NEW q
    PROVE  q \in Among(steps, op) <=> Has(steps, op, q)
<1>1. ASSUME q \in Among(steps, op)
      PROVE  Has(steps, op, q)
  <2>1. PICK s \in {x \in {steps[k] : k \in DOMAIN steps} : x.op = op} :
          q \in {s.patches[i] : i \in DOMAIN s.patches}
    BY <1>1, Zenon DEF Among
  <2>2. PICK k \in DOMAIN steps : s = steps[k]
    BY <2>1, Zenon
  <2>. QED
    BY <2>1, <2>2, Zenon DEF Has
<1>2. ASSUME NEW k \in DOMAIN steps, steps[k].op = op,
             NEW i \in DOMAIN steps[k].patches, q = steps[k].patches[i]
      PROVE  q \in Among(steps, op)
  <2>. DEFINE s == steps[k]
  <2>1. s \in {x \in {steps[n] : n \in DOMAIN steps} : x.op = op}
    BY <1>2, Zenon
  <2>2. q \in {s.patches[n] : n \in DOMAIN s.patches}
    BY <1>2, Zenon
  <2>. QED
    BY <2>1, <2>2, Zenon DEF Among
<1>. QED
  BY <1>1, <1>2, Zenon DEF Has

LEMMA WroteIsAmong ==
    ASSUME NEW e, NEW op, NEW q
    PROVE  /\ q \in Wrote(e, op) <=> Has(log[e], op, q)
           /\ q \in Wrote(e, op)' <=> Has(log'[e], op, q)
<1>1. Wrote(e, op) = Among(log[e], op) /\ Wrote(e, op)' = Among(log'[e], op)
  BY Zenon DEF Wrote, Among
<1>2. q \in Among(log[e], op) <=> Has(log[e], op, q)
  BY AmongSome
<1>3. q \in Among(log'[e], op) <=> Has(log'[e], op, q)
  BY AmongSome
<1>. QED
  BY <1>1, <1>2, <1>3, Zenon

LEMMA AppendHas ==
    ASSUME NEW S, NEW s \in Seq(S), NEW x
    PROVE  /\ \A op, q : Has(s, op, q) => Has(Append(s, x), op, q)
           /\ \A i \in DOMAIN x.patches : Has(Append(s, x), x.op, x.patches[i])
<1>. DEFINE t == Append(s, x)
<1>1. \A k \in DOMAIN s : k \in DOMAIN t /\ t[k] = s[k]
  OBVIOUS
<1>2. Len(s) + 1 \in DOMAIN t /\ t[Len(s) + 1] = x
  OBVIOUS
<1>. HIDE DEF t
<1>3. \A op, q : Has(s, op, q) => Has(t, op, q)
  BY <1>1, Zenon DEF Has
<1>4. \A i \in DOMAIN x.patches : Has(t, x.op, x.patches[i])
  BY <1>2, Zenon DEF Has
<1>. QED
  BY <1>3, <1>4, Zenon DEF t

(* What an execution has written stays written, and what the probe writes   *)
(* is added.                                                                *)
LEMMA LogGrows ==
    ASSUME StepsInv, [Next]_vars, NEW e \in Exec
    PROVE  /\ \A op : Wrote(e, op) \subseteq Wrote(e, op)'
           /\ \A op : Wrote(e, op) # {} => action'[e] = action[e]
           /\ WholeFiles(e) \subseteq WholeFiles(e)'
           /\ ProbeWrites(e) =>
                /\ action' = action
                /\ \A op : ThisStep(e).op = op =>
                     \A i \in DOMAIN ThisStep(e).patches :
                        ThisStep(e).patches[i] \in Wrote(e, op)'
<1>1. log[e] = <<>> \/ (pc[e] # "idle" /\ \E S : log[e] \in Seq(S))
  BY Zenon DEF StepsInv, StepsFit, LogFits
<1>2. ASSUME ProbeWrites(e) PROVE log'[e] = Append(log[e], ThisStep(e)) /\ action' = action
  BY <1>2, Zenon DEF ProbeWrites, StepsInv, StepsDomains
<1>3. PICK S : log[e] \in Seq(S)
  <2>1. <<>> \in Seq({})
    OBVIOUS
  <2>. QED
    BY <1>1, <2>1, Zenon
<1>4. log'[e] = log[e] \/ (ProbeWrites(e) /\ log'[e] = Append(log[e], ThisStep(e)))
  BY <1>2, TaskMoves, Zenon
<1>5. \A op, q : Has(log[e], op, q) => Has(log'[e], op, q)
  <2>1. \A op, q : Has(log[e], op, q) => Has(Append(log[e], ThisStep(e)), op, q)
    BY <1>3, AppendHas
  <2>. QED
    BY <1>4, <2>1, Zenon
<1>6. ASSUME NEW op PROVE Wrote(e, op) \subseteq Wrote(e, op)'
  BY <1>5, WroteIsAmong, Zenon
<1>7. WholeFiles(e) \subseteq WholeFiles(e)'
  BY <1>6, Zenon DEF WholeFiles
<1>8. ASSUME NEW op, Wrote(e, op) # {} PROVE action'[e] = action[e]
  <2>1. PICK q : Has(log[e], op, q)
    BY <1>8, WroteIsAmong, Zenon
  <2>2. log[e] # <<>>
    BY <2>1 DEF Has
  <2>. QED
    BY <1>1, <2>2, TaskMoves, Zenon
<1>9. ASSUME ProbeWrites(e), NEW op, ThisStep(e).op = op, NEW i \in DOMAIN ThisStep(e).patches
      PROVE  ThisStep(e).patches[i] \in Wrote(e, op)'
  <2>1. Has(Append(log[e], ThisStep(e)), op, ThisStep(e).patches[i])
    BY <1>3, <1>9, AppendHas
  <2>2. Has(log'[e], op, ThisStep(e).patches[i])
    BY <1>2, <1>9, <2>1, Zenon
  <2>. QED
    BY <2>2, WroteIsAmong, Zenon
<1>. QED
  BY <1>2, <1>6, <1>7, <1>8, <1>9, Zenon

(* A value of a property that is as at first, or from a whole file. *)
From(x, p) ==
    \/ x = FirstFile[p]
    \/ \E e \in Exec : \E t \in WholeFiles(e) : x = FileOf(t)[p]

(* A variable that an update_config execution has set. *)
SetBy(n, x) ==
    \E e \in Exec :
       /\ action[e].playbook = "presto.update_config_restart_workers"
       /\ \E q \in Wrote(e, "swarm_update_service_env") : q.key = n /\ q.value = x

(* OnlyWhitelisted, of the file as the probe has read it as well: a merge   *)
(* may bring back what another execution has replaced since.                *)
SourceInv ==
    /\ \A p \in Property \ Whitelist : From(file[p], p)
    /\ \A e \in Exec : task[e].stage = "taken" /\ Merges(e) =>
          \A p \in Property \ Whitelist : From(task[e].base[p], p)
    /\ \A n \in DOMAIN env \ Whitelist : SetBy(n, env[n])

(* A value keeps its origin. *)
LEMMA OriginKept ==
    ASSUME StepsInv, [Next]_vars
    PROVE  /\ \A x, p : From(x, p) =>
                \/ x = FirstFile[p]
                \/ \E e \in Exec : \E t \in WholeFiles(e)' : x = FileOf(t)[p]
           /\ \A n, x : SetBy(n, x) =>
                \E e \in Exec :
                  /\ action'[e].playbook = "presto.update_config_restart_workers"
                  /\ \E q \in Wrote(e, "swarm_update_service_env")' : q.key = n /\ q.value = x
<1>1. \A e \in Exec : WholeFiles(e) \subseteq WholeFiles(e)'
  BY LogGrows, Zenon
<1>2. ASSUME NEW e \in Exec, NEW q \in Wrote(e, "swarm_update_service_env")
      PROVE  q \in Wrote(e, "swarm_update_service_env")' /\ action'[e] = action[e]
  BY <1>2, LogGrows, Zenon
<1>3. ASSUME NEW x, NEW p, From(x, p)
      PROVE  \/ x = FirstFile[p]
             \/ \E e \in Exec : \E t \in WholeFiles(e)' : x = FileOf(t)[p]
  BY <1>1, <1>3, Zenon DEF From
<1>4. ASSUME NEW n, NEW x, SetBy(n, x)
      PROVE  \E e \in Exec :
               /\ action'[e].playbook = "presto.update_config_restart_workers"
               /\ \E q \in Wrote(e, "swarm_update_service_env")' : q.key = n /\ q.value = x
  BY <1>2, <1>4, Zenon DEF SetBy
<1>. QED
  BY <1>3, <1>4, Zenon

LEMMA WrittenFrom ==
    ASSUME StepsInv, RowInv, SourceInv, [Next]_vars, NEW e \in Exec, ProbeWrites(e),
           NEW p \in Property \ Whitelist
    PROVE  From(file[p], p)'
<1>. DEFINE ps == ThisStep(e).patches
            Old(x) == From(x, p)
            New(x) == \/ x = FirstFile[p]
                      \/ \E f \in Exec : \E t \in WholeFiles(f)' : x = FileOf(t)[p]
<1>1. \A x : Old(x) => New(x)
  BY OriginKept, Zenon
<1>2. SUFFICES New(file'[p])
  BY Zenon DEF From
<1>3. CASE ThisStep(e).op # "k8s_patch_configmap"
  <2>1. file' = file
    BY <1>3, Zenon DEF ProbeWrites
  <2>. QED
    BY <1>1, <2>1, Zenon DEF SourceInv
<1>4. CASE ThisStep(e).op = "k8s_patch_configmap"
  <2>1. ASSUME NEW i \in DOMAIN ps, ps[i].key = FileKey \/ ps[i].value \notin Value,
               file'[p] = FileOf(ps[i].value)[p]
        PROVE  New(file'[p])
    <3>1. ps[i] \in Wrote(e, "k8s_patch_configmap")'
      BY <1>4, LogGrows, Zenon
    <3>2. ps[i].value \in WholeFiles(e)'
      BY <2>1, <3>1, Zenon DEF WholeFiles
    <3>. QED
      BY <2>1, <3>2, Zenon
  <2>2. /\ task[e].stage = "taken" /\ PatchList(ps)
        /\ \/ /\ Merges(e) /\ Keys(ps) \subseteq Whitelist
              /\ file' \in MergeProperties(task[e].base, ps)
           \/ file' = file
           \/ \E i \in DOMAIN ps : /\ ps[i].key = FileKey /\ PatchFits(ps[i])
                                   /\ file' = FileOf(ps[i].value)
    BY <1>4, PatchedFrom, Zenon
  <2>. HIDE DEF ps, Old, New
  <2>3. ASSUME Merges(e), Keys(ps) \subseteq Whitelist,
               file' \in MergeProperties(task[e].base, ps)
        PROVE  New(file'[p])
    <3>1. Merged(file', task[e].base, ps)
      BY <2>2, <2>3, MergedFrom, Zenon
    <3>2. PICK content, ks :
            /\ file' = Overlay(content, ps, ks) /\ ks \subseteq Keys(ps)
            /\ \/ content = task[e].base
               \/ \E i \in DOMAIN ps : /\ ps[i].value \notin Value
                                       /\ content = FileOf(ps[i].value)
      BY <3>1, Zenon DEF Merged
    <3>3. file'[p] = content[p]
      BY <2>3, <3>2, Zenon DEF Overlay
    <3>4. Old(task[e].base[p])
      BY <2>2, <2>3, Zenon DEF SourceInv, Old
    <3>. QED
      BY <1>1, <2>1, <3>2, <3>3, <3>4, Zenon
  <2>4. Old(file[p])
    BY Zenon DEF SourceInv, Old
  <2>. QED
    BY <1>1, <2>1, <2>2, <2>3, <2>4, Zenon
<1>. QED
  BY <1>3, <1>4, Zenon

(* The list of patches for an environment. *)
LEMMA EnvPatches ==
    ASSUME StepsInv, RowInv, NEW e \in Exec, ProbeWrites(e),
           ThisStep(e).op = "swarm_update_service_env"
    PROVE  LET ps == ThisStep(e).patches
           IN  /\ \E S : ps \in Seq(S)
               /\ \/ action[e].playbook = "presto.update_config_restart_workers"
                  \/ Keys(ps) \subseteq Whitelist
<1>. DEFINE ps == ThisStep(e).patches
            l == ResolveLocators(deployment, targets)
<1>1. task[e].stage = "taken"
  BY Zenon DEF ProbeWrites
<1>2. pc[e] # "idle" /\ task[e].step \in 1..Len(StepsOf(e).steps)
  BY <1>1, Zenon DEF StepsInv, StepsFit
<1>3. action[e] \in AllowedActions
  BY <1>2, Zenon DEF RowInv, ChecksFit, AllowedActions
<1>4. /\ ps \in {PatchesFor(action[e].playbook, action[e].params, l), Direct(action[e].params)}
      /\ \/ action[e].playbook = "presto.update_config_restart_workers"
         \/ Keys(ps) \subseteq Whitelist
  BY <1>2, ShapeOf, Zenon DEF ThisStep, Shape, PatchesOf, PatchOps
<1>5. PatchList(PatchesFor(action[e].playbook, action[e].params, l))
  BY <1>3, MemoryPatchesFit, ConfigPatchesFit, Zenon DEF PatchesFor
<1>6. \A x : <<x>> \in Seq({x})
  OBVIOUS
<1>7. \E S : ps \in Seq(S)
  BY <1>4, <1>5, <1>6, Zenon DEF PatchList, Direct
<1>. QED
  BY <1>4, <1>7, Zenon

LEMMA EnvStep ==
    ASSUME StepsInv, RowInv, SourceInv, [Next]_vars, NEW e \in Exec, ProbeWrites(e),
           NEW n \in DOMAIN env' \ Whitelist
    PROVE  SetBy(n, env[n])'
<1>. DEFINE ps == ThisStep(e).patches
            op == "swarm_update_service_env"
            New(x) == \E f \in Exec :
                        /\ action'[f].playbook = "presto.update_config_restart_workers"
                        /\ \E q \in Wrote(f, op)' : q.key = n /\ q.value = x
<1>1. \A x : SetBy(n, x) => New(x)
  BY OriginKept
<1>2. SUFFICES New(env'[n])
  BY Zenon DEF SetBy
<1>3. CASE n \in DOMAIN env /\ env'[n] = env[n]
  BY <1>1, <1>3, Zenon DEF SourceInv
<1>4. CASE ~(n \in DOMAIN env /\ env'[n] = env[n])
  <2>1. ThisStep(e).op = op /\ env' = WithEnv(ps)
    BY <1>4, Zenon DEF ProbeWrites
  <2>2. n \in Keys(ps) /\ env'[n] = PatchOf(ps, n)
    BY <1>4, <2>1, Zenon DEF WithEnv
  <2>3. PICK S : ps \in Seq(S)
    BY <2>1, EnvPatches
  <2>4. PICK i \in DOMAIN ps : ps[i].key = n /\ env'[n] = ps[i].value
    BY <2>2, <2>3, PatchOfSome
  <2>5. ps[i] \in Wrote(e, op)' /\ action' = action
    BY <2>1, LogGrows, Zenon
  <2>6. action[e].playbook = "presto.update_config_restart_workers"
    BY <2>1, <2>2, EnvPatches, Zenon
  <2>. QED
    BY <2>4, <2>5, <2>6, Zenon
<1>. QED
  BY <1>3, <1>4, Zenon

LEMMA SourceStep == ASSUME StepsInv, RowInv, SourceInv, [Next]_vars PROVE SourceInv'
<1>. DEFINE New(x, p) == \/ x = FirstFile[p]
                         \/ \E f \in Exec : \E t \in WholeFiles(f)' : x = FileOf(t)[p]
<1>1. \A x, p : From(x, p) => New(x, p)
  BY OriginKept, Zenon
<1>2. UNCHANGED <<file, env>> \/ \E e \in Exec : ProbeWrites(e)
  <2>1. CASE Exec = {}
    BY <2>1, Zenon DEF Next, PlaybookNext, Seed, KeyJob, Start, vars, playbookVars, cluster
  <2>2. CASE Exec # {}
    BY <2>2, TaskMoves, Zenon
  <2>. QED
    BY <2>1, <2>2, Zenon
<1>3. ASSUME NEW p \in Property \ Whitelist PROVE From(file[p], p)'
  <2>1. CASE file' = file
    BY <1>1, <2>1, Zenon DEF SourceInv, From
  <2>. QED
    BY <1>2, <2>1, WrittenFrom, Zenon
<1>4. ASSUME NEW n \in DOMAIN env' \ Whitelist PROVE SetBy(n, env[n])'
  <2>1. CASE env' = env
    <3>1. SetBy(n, env[n])
      BY <2>1, Zenon DEF SourceInv
    <3>2. \E f \in Exec :
             /\ action'[f].playbook = "presto.update_config_restart_workers"
             /\ \E q \in Wrote(f, "swarm_update_service_env")' : q.key = n /\ q.value = env[n]
      BY <3>1, OriginKept
    <3>. QED
      BY <2>1, <3>2, Zenon DEF SetBy
  <2>. QED
    BY <1>2, <2>1, EnvStep, Zenon
<1>5. ASSUME NEW e \in Exec, task'[e].stage = "taken", Merges(e)',
             NEW p \in Property \ Whitelist
      PROVE  From(task[e].base[p], p)'
  <2>1. CASE task'[e] = task[e]
    <3>1. pc[e] # "idle"
      BY <1>5, <2>1, Zenon DEF StepsInv, StepsFit
    <3>2. action'[e] = action[e] /\ StepsOf(e)' = StepsOf(e)
      BY <3>1, TaskMoves, StepsSame, Zenon
    <3>3. Merges(e)
      BY <1>5, <2>1, <3>2, Zenon DEF Merges, ThisStep
    <3>4. From(task[e].base[p], p)
      BY <1>5, <2>1, <3>3, Zenon DEF SourceInv
    <3>. QED
      BY <1>1, <2>1, <3>4, Zenon DEF From
  <2>2. CASE ProbeTakes(e)
    <3>1. task'[e].base = file
      BY <1>5, <2>2, TakenIsFile, Zenon
    <3>2. From(file[p], p)
      BY Zenon DEF SourceInv
    <3>. QED
      BY <1>1, <3>1, <3>2, Zenon DEF From
  <2>. QED
    BY <1>5, <2>1, <2>2, TaskMoves, Zenon
<1>. QED
  BY <1>3, <1>4, <1>5, Zenon DEF SourceInv

(* Memory adjustments change properties and variables on the whitelist      *)
(* only, however many executions the probe serves together: whatever else   *)
(* a file or an environment says was there at first, or is in the patches   *)
(* of an approved action as a whole file or an update_config.               *)
THEOREM WhitelistedOnly == Spec => []OnlyWhitelisted
<1>1. ASSUME Init PROVE SourceInv
  <2>1. task = [e \in Exec |-> NoTask] /\ file = FirstFile /\ env = <<>>
    BY <1>1, Zenon DEF Init, PlaybookInit
  <2>2. (\A e \in Exec : task[e].stage = "none") /\ DOMAIN env = {}
    <3>1. DOMAIN <<>> = {}
      OBVIOUS
    <3>. QED
      BY <2>1, <3>1, Zenon DEF NoTask
  <2>. QED
    BY <2>1, <2>2, Zenon DEF SourceInv, From
<1>2. ASSUME SourceInv PROVE OnlyWhitelisted
  BY <1>2, Zenon DEF SourceInv, From, SetBy, OnlyWhitelisted
<1>. QED
  BY <1>1, <1>2, SourceStep, TypesInit, RowStep, StepsInvariant, PTL DEF Spec

(***************************************************************************)
(* The type invariant                                                      *)
(***************************************************************************)

(* Every variable stays in its domain.  In particular the probe never       *)
(* leaves anything but values in config.properties, verify_fix never makes  *)
(* a check that there is not, and no attempt exceeds its retry policy.      *)
THEOREM TypeCorrect == Spec => []TypeOK
<1>1. ASSUME RowInv, FileInv, SigningTypes PROVE TypeOK
  <2>1. PlaybookTypeOK
    BY <1>1, Zenon DEF RowInv, FileInv, ChecksFit, FileType, Rows, Pcs, PlaybookTypeOK
  <2>. QED
    BY <1>1, <2>1, Zenon DEF TypeOK, SigningTypes
<1>. QED
  BY <1>1, TypesInit, RowStep, FileStep, StepsInvariant, KeyTypes, PTL DEF Spec
=============================================================================
