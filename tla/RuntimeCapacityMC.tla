------------------------- MODULE RuntimeCapacityMC -------------------------
(* RuntimeCapacity for TLC: five executors for two permits, so that waiters *)
(* are woken while others wait and while others arrive.                     *)
EXTENDS RuntimeCapacity, TLC

CONSTANTS c1, c2, c3, c4, c5

ClientsMC == {c1, c2, c3, c4, c5}
=============================================================================
