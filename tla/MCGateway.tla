----------------------------- MODULE MCGateway -----------------------------
(* A small instance of Gateway for TLC. *)
EXTENDS Gateway

CONSTANTS r1, r2, r3, w1, w2

TwoFingerprints(r) == IF r = r3 THEN "g" ELSE "f"

Absent == [form |-> "absent", n |-> 0]
Int1(n) == [form |-> "int", n |-> n]
Config(s, w) == [seconds |-> s, window |-> w]
Row1(status, cfg) == [status |-> status, cfg |-> cfg]

Default == Row1("online", Config(Absent, Absent))

FewPlatforms == {Row1("offline", Config(Absent, Absent)),
    Row1("online", Config([form |-> "bad", n |-> 0], Int1(1)))}
=============================================================================
