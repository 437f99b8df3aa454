---------------------------- MODULE AcceptedWork ----------------------------
(***************************************************************************)
(* What the merge coalescer of an ingest-gateway worker promises to the    *)
(* request handlers that submit to it, and to the process that closes it:  *)
(* an item is accepted while the doors are open and refused afterwards, an *)
(* accepted item is answered once, and close() returns only when nothing   *)
(* accepted is left without an answer.                                     *)
(***************************************************************************)
CONSTANT Item   \* the alert events offered

VARIABLES
    work,       \* per item: "new", "accepted", "answered" or "refused"
    doors,      \* "open" or "shut"
    closer      \* "idle", "closing", "returned" or "cancelled"

vars == <<work, doors, closer>>

Pending == {e \in Item : work[e] = "accepted"}
To(S, s) == [e \in Item |-> IF e \in S THEN s ELSE work[e]]

Init == work = [e \in Item |-> "new"] /\ doors = "open" /\ closer = "idle"

Accept(e) == /\ doors = "open" /\ work[e] = "new"
             /\ work' = To({e}, "accepted") /\ UNCHANGED <<doors, closer>>

Refuse(e) == /\ doors = "shut" /\ work[e] = "new"
             /\ work' = To({e}, "refused") /\ UNCHANGED <<doors, closer>>

(* A group of accepted items gets its answers. *)
Answer == \E S \in SUBSET Pending :
            /\ S # {} /\ work' = To(S, "answered") /\ UNCHANGED <<doors, closer>>

(* Closing shuts the doors and may find nothing left to wait for. *)
Close == /\ closer = "idle" /\ doors' = "shut" /\ UNCHANGED work
         /\ closer' \in {"closing"} \cup (IF Pending = {} THEN {"returned"} ELSE {})

Return == /\ closer = "closing" /\ Pending = {}
          /\ closer' = "returned" /\ UNCHANGED <<work, doors>>

CallerGone == /\ closer = "closing" /\ closer' = "cancelled"
              /\ UNCHANGED <<work, doors>>

(* A worker that gives up answers all it holds and takes nothing more. *)
GiveUp == /\ doors' = "shut" /\ work' = To(Pending, "answered")
          /\ UNCHANGED closer

Next == \/ \E e \in Item : Accept(e) \/ Refuse(e)
        \/ Answer \/ Close \/ Return \/ CallerGone \/ GiveUp

(* There are finitely many items: every accepted one is answered in the     *)
(* end, and close() returns.                                                *)
Fairness == WF_vars(Answer) /\ WF_vars(Return)

Spec == Init /\ [][Next]_vars /\ Fairness
=============================================================================
