----------------------------- MODULE GatewayMC -----------------------------
(* Gateway for TLC: two runs of one session from one socket each, and a    *)
(* third request that resolves, or creates, the session of them.           *)
EXTENDS Gateway

CONSTANTS a, b, c, s1, s2, k

Three         == {a, b, c}
ThreeKeyOf    == [q \in Three |-> k]
ThreeSocketOf == [q \in Three |-> IF q = b THEN s2 ELSE s1]
ThreeMethodOf == [q \in Three |-> IF q = c THEN "sessions.create" ELSE "agent.run"]
=============================================================================
