--------------------------------- MODULE Duel ---------------------------------
(* What the offline battle promises: each side has a count of Pokemon left,  *)
(* which only falls, one at a time; the battle is decided by the first count *)
(* to reach zero, at that moment, and for one side only.                     *)
EXTENDS Naturals

CONSTANT Size    \* Pokemon a side starts with

VARIABLES
    left,     \* the count of each side
    losers    \* the side that has lost

duelvars == <<left, losers>>

Side == {0, 1}

Init == left = [p \in Side |-> Size] /\ losers = {}

LoseOne(p) ==
    /\ losers = {} /\ left[p] > 0
    /\ left' = [left EXCEPT ![p] = left[p] - 1]
    /\ losers' = {q \in {p} : left[p] = 1}

Next == \E p \in Side : LoseOne(p)

Spec == Init /\ [][Next]_duelvars
=============================================================================
