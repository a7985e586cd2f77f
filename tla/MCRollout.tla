------------------------------ MODULE MCRollout ------------------------------
(* Three Pokemon a side, with ties, one slower side and an opponent of which *)
(* one Pokemon's moves are not all known.                                    *)
EXTENDS Rollout

MCSpeed == [s \in Sides |-> [i \in Slots |-> IF s = "player" THEN i ELSE 2]]
MCKnown == [s \in Sides |-> [i \in Slots |-> IF s = "opponent" /\ i = Size THEN 1 ELSE 4]]
=============================================================================
