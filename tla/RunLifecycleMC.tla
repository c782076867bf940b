--------------------------- MODULE RunLifecycleMC ---------------------------
(* RunLifecycle for TLC: one run with everything that can go wrong; two    *)
(* runs of one session; two runs of two sessions.                          *)
EXTENDS RunLifecycle

CONSTANTS r1, r2, k1, k2

OneRun           == {r1}
OneRunKeyOf      == [r \in OneRun |-> k1]
TwoRuns          == {r1, r2}
OneSession       == {k1}
OneSessionKeyOf  == [r \in TwoRuns |-> k1]
TwoSessions      == {k1, k2}
TwoSessionsKeyOf == [r \in TwoRuns |-> IF r = r1 THEN k1 ELSE k2]
=============================================================================
