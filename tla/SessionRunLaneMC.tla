------------------------- MODULE SessionRunLaneMC -------------------------
(* SessionRunLane for TLC: two sessions whose lanes have three slots, and  *)
(* works enough for one of them to have a running, a waiting, a cancelled  *)
(* waiting and a rejected one at the same time.                            *)
EXTENDS SessionRunLane

CONSTANTS w1, w2, w3, w4, w5, k1, k2

TwoKeys       == {k1, k2}
TwoKeysWorks  == {w1, w2, w3, w4, w5}
TwoKeysKeyOf  == [w \in TwoKeysWorks |-> IF w = w5 THEN k2 ELSE k1]
=============================================================================
