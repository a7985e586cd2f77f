------------------------------ MODULE MCPSUser ------------------------------
(* PSUser under a small set of frames: two battles whose frames interleave,  *)
(* both players owning the same species.                                     *)
EXTENDS PSUser

CONSTANTS r1, r2, bot, opp, muk, jynx, ditto, psychic, rest, hijumpkick

(* ditto and hijumpkick stand for names the JSON data does not have. *)
MCBaseHP == [p \in {muk, jynx} |-> 2]

InRoom(r, ls) == <<[type |-> "room", room |-> r]>> \o ls

Side(n, h, act) ==
    [name |-> n, moves |-> <<psychic, rest>>, hp |-> h, fnt |-> (h = 0), active |-> act]

Ask(side, wait, force, trap) ==
    <<[type |-> "request", wait |-> wait, forceSwitch |-> force,
       trapped |-> trap, moves |-> IF trap THEN 1 ELSE 4, side |-> side]>>

Joined(r) == InRoom(r, <<[type |-> "player", id |-> "p1", name |-> bot],
                         [type |-> "player", id |-> "p2", name |-> opp]>>)

Both == <<Side(muk, 2, TRUE), Side(jynx, 2, FALSE)>>
MukDown == <<Side(muk, 0, TRUE), Side(jynx, 2, FALSE)>>
JynxAlone == <<Side(jynx, 2, TRUE), Side(muk, 0, FALSE)>>

TurnLine == [type |-> "turn"]
SwitchLine(id, n) == [type |-> "switch", id |-> id, name |-> n, hp |-> 2]
MoveLine(id, n, m) == [type |-> "move", id |-> id, name |-> n, move |-> m]

(* The first battle meets every kind of line. *)
FirstBattle ==
    {Joined(r1),
     InRoom(r1, Ask(Both, FALSE, FALSE, FALSE)),
     InRoom(r1, Ask(Both, FALSE, FALSE, TRUE)),
     InRoom(r1, Ask(MukDown, FALSE, TRUE, FALSE)),
     InRoom(r1, Ask(JynxAlone, FALSE, FALSE, FALSE)),
     InRoom(r1, Ask(Both, TRUE, FALSE, FALSE)),
     InRoom(r1, <<SwitchLine("p1", muk), SwitchLine("p2", muk), TurnLine>>),
     InRoom(r1, <<MoveLine("p2", jynx, rest), MoveLine("p1", muk, psychic)>>),
     InRoom(r1, <<MoveLine("p2", muk, psychic), TurnLine>>),
     InRoom(r1, <<[type |-> "-damage", id |-> "p2", name |-> muk, hp |-> 0],
                  [type |-> "faint", id |-> "p2", name |-> muk]>>),
     InRoom(r1, <<[type |-> "-status", id |-> "p2", name |-> muk, status |-> "par"],
                  [type |-> "-status", id |-> "p2", name |-> muk, status |-> "psn"],
                  [type |-> "-boost", id |-> "p2", name |-> muk,
                   stat |-> "atk", boost |-> 1]>>),
     InRoom(r1, <<[type |-> "-curestatus", id |-> "p2", name |-> muk, status |-> "par"]>>),
     InRoom(r1, <<[type |-> "win", name |-> bot]>>)}

SecondBattle ==
    {Joined(r2),
     InRoom(r2, Ask(MukDown, FALSE, TRUE, FALSE)),
     InRoom(r2, <<SwitchLine("p2", ditto)>>),
     InRoom(r2, <<MoveLine("p2", muk, hijumpkick)>>),
     InRoom(r2, <<[type |-> "player", id |-> "p2", name |-> NoUser], TurnLine>>)}

Lobby ==
    {<<[type |-> "challstr"], [type |-> "updateuser", name |-> bot]>>,
     <<[type |-> "updatechallenges",
        from |-> <<[user |-> opp, format |-> "gen1ou"],
                   [user |-> opp, format |-> "gen7ou"],
                   [user |-> opp, format |-> "gen1randombattle"]>>]>>}

MCFrames == FirstBattle \cup SecondBattle \cup Lobby

MCReceive == \E f \in MCFrames : lines' = f /\ Receive

MCNext == MCReceive \/ Handle \/ Transmit

MCSpec == Init /\ [][MCNext]_vars
=============================================================================
