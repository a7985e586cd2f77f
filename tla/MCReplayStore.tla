---------------------------- MODULE MCReplayStore ----------------------------
(* Four battles, pages of one: a team of each kind of size, a player and a   *)
(* battle with nonviable Pokemon.                                            *)
EXTENDS ReplayStore

MCSize   == << <<2, 3>>, <<1, 2>>, <<2, 2>>, <<3, 0>> >>
MCViable == << <<TRUE, TRUE>>, <<FALSE, TRUE>>, <<FALSE, FALSE>>, <<TRUE, TRUE>> >>

TeamSize == [b \in Battles |-> [p \in Players |-> MCSize[b][p + 1]]]
AllViable == [b \in Battles |-> [p \in Players |-> MCViable[b][p + 1]]]
=============================================================================
