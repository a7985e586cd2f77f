------------------------------ MODULE MCBattle ------------------------------
(* Battle on small teams; one slot of each player is faster than the other's *)
(* and one pair ties.                                                        *)
EXTENDS Battle

MCSpeed == [p \in Players |-> [k \in Slots |-> IF k = 0 THEN 1 ELSE p + k]]
=============================================================================
