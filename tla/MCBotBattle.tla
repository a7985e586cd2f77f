----------------------------- MODULE MCBotBattle -----------------------------
(* BotBattle on two Pokemon a side, both players owning the same two; in one *)
(* run the opponent has a third, which goes by a nickname.                   *)
EXTENDS BotBattle

CONSTANTS r1, bot, opp, muk, jynx, nick, psychic, rest

MCBaseHP    == [p \in {muk, jynx} |-> 5]
MCSides     == [p \in PlayerIDs |-> <<muk, jynx>>]
MCNicknamed == [p \in PlayerIDs |-> IF p = "p1" THEN <<muk, jynx>> ELSE <<muk, jynx, nick>>]
MCMaxHP     == [p \in PlayerIDs |-> IF p = "p1" THEN 1 ELSE 2]
MCOneHP     == [p \in PlayerIDs |-> 1]
MCLasting   == [p \in PlayerIDs |-> IF p = "p1" THEN {"hit", "par"}
                                     ELSE {"hit", "heal", "par", "cure"}]
MCFatal     == [p \in PlayerIDs |-> IF p = "p1" THEN {"hit", "explode", "trap"}
                                     ELSE {"hit", "explode", "disable"}]
MCMoveOf    == [p \in Pkmn |-> IF p = muk THEN psychic ELSE rest]

(* Nothing, and a turn of no battle, which nobody asked for. *)
MCGarbage == {<<>>, <<[type |-> "turn"]>>}
=============================================================================
