------------------------------- MODULE PSUser -------------------------------
(***************************************************************************)
(* The bot's message handler: PSUser::handle_message and PSUser::move      *)
(* (src/PSBot/PSUser.hpp), with the parts of Data.hpp they call.           *)
(*                                                                         *)
(* A frame of the Showdown websocket is a sequence of lines; handle_message*)
(* tokenises a line and dispatches on its first token.  A line is here a   *)
(* record whose "type" is that token and whose other fields are the tokens *)
(* the handler reads.  Each step of this module handles one line.          *)
(***************************************************************************)
EXTENDS Integers, Sequences

CONSTANTS
    Rooms,              \* battle rooms of the server
    NoRoom,             \* the empty room name, of frames with no ">room" line
    Users,              \* user names
    BotName,            \* the name main gives the agent
    NoUser,             \* a "player" line whose name token is missing
    Pkmn,               \* names the server may use for a Pokemon
    KnownPkmn,          \* those that are keys of data/pokemon.json
    Moves,              \* move names, lower case and without spaces
    KnownMoves,         \* those that are keys of data/move-data.json
    BaseHP,             \* the base HP pokemon.json gives a known Pokemon
    Stats,              \* names of the stats a "-boost" line may carry
    Formats,            \* battle formats a challenge may name
    AcceptedFormats,    \* PSUser::acceptedFormats
    MaxSent             \* bound: messages on their way out when a frame is read

VARIABLES
    username,     \* BasePSUser::username
    challenge,    \* whether chall_str and chall_id have been stored
    battleData,   \* PSUser::battleData, rooms not yet met holding NoBattle
    curRoom,      \* the local curRoom of handle_message
    lines,        \* parsedMessages[indxMessage..]: lines still to handle
    sent,         \* messages handed to the socket and not yet at the server
    crashed       \* an exception or a null pointer has ended the process

vars == <<username, challenge, battleData, curRoom, lines, sent, crashed>>

-----------------------------------------------------------------------------
(* Data *)

PlayerIDs == {"p1", "p2"}
Statuses  == {"frz", "brn", "par", "slp"}
AllRooms  == Rooms \cup {NoRoom}

PokemonData ==
    [name : KnownPkmn, hp : Nat, moves : Seq(KnownMoves),
     fainted : BOOLEAN, active : BOOLEAN, trapped : BOOLEAN,
     status : SUBSET Statuses, boosts : [Stats -> Int]]

BattleData ==
    [playerTeam : Seq(PokemonData), oppTeam : Seq(PokemonData),
     availableActions : SUBSET Int, playerID : PlayerIDs \cup {""}]

NoBattle == [playerTeam |-> <<>>, oppTeam |-> <<>>,
             availableActions |-> {}, playerID |-> ""]

(* One Pokemon of a request's side.pokemon; its condition is "hp" or "0 fnt". *)
SidePokemon ==
    [name : Pkmn, moves : Seq(Moves), hp : Nat, fnt : BOOLEAN, active : BOOLEAN]

(* The server lists a side with its active Pokemon first. *)
RequestLine ==
    {l \in [type : {"request"}, wait : BOOLEAN, forceSwitch : BOOLEAN,
            trapped : BOOLEAN, moves : 0..4, side : Seq(SidePokemon)] :
        Len(l.side) \in 1..6 /\ l.side[1].active}

Line ==
    RequestLine
      \cup [type : {"room"}, room : Rooms]
      \cup [type : {"player"}, id : PlayerIDs, name : Users \cup {NoUser}]
      \cup [type : {"challstr", "turn", "error", "other"}]
      \cup [type : {"updateuser", "win"}, name : Users]
      \cup [type : {"updatechallenges"},
            from : Seq([user : Users, format : Formats])]
      \cup [type : {"switch", "-damage", "-heal"},
            id : PlayerIDs, name : Pkmn, hp : Nat]
      \cup [type : {"move"}, id : PlayerIDs, name : Pkmn, move : Moves]
      \cup [type : {"faint"}, id : PlayerIDs, name : Pkmn]
      \cup [type : {"-status", "-curestatus"},
            id : PlayerIDs, name : Pkmn, status : Statuses \cup {"psn"}]
      \cup [type : {"-boost"}, id : PlayerIDs, name : Pkmn,
            stat : Stats, boost : Int]

Message ==
    [room : AllRooms, cmd : {"move", "switch", "pass"}, slot : Int]
      \cup [cmd : {"utm"}]
      \cup [cmd : {"accept"}, user : Users]

ASSUME ConstantsAssumption ==
    /\ NoRoom \notin Rooms
    /\ NoUser \notin Users
    /\ BotName \in Users
    /\ KnownPkmn \subseteq Pkmn
    /\ KnownMoves \subseteq Moves
    /\ BaseHP \in [KnownPkmn -> Nat]
    /\ AcceptedFormats \subseteq Formats
    /\ MaxSent \in Nat

-----------------------------------------------------------------------------
(* Helpers of Data.hpp.  getPokemon is the set of the one position it points *)
(* to: empty where the code returns nullptr.                                 *)

initPokemonFromName(name) ==
    [name |-> name, hp |-> BaseHP[name], moves |-> <<>>,
     fainted |-> FALSE, active |-> FALSE, trapped |-> FALSE,
     status |-> {}, boosts |-> [s \in Stats |-> 0]]

(* Mutant: only an active Pokemon is found. *)
getActiveNamed(name, team) ==
    {i \in DOMAIN team : team[i].name = name /\ team[i].active}

getPokemon(name, team) ==
    {i \in DOMAIN team : /\ team[i].name = name
                         /\ \A j \in 1..(i - 1) : team[j].name # name}

hasMove(p, m) == \E i \in DOMAIN p.moves : p.moves[i] = m

-----------------------------------------------------------------------------
(* What a request line stores. *)

(* Mutant: the faint is not copied from the condition. *)
requestTeamNoFaints(l) ==
    [i \in DOMAIN l.side |->
        [initPokemonFromName(l.side[i].name) EXCEPT
            !.moves   = l.side[i].moves,
            !.hp      = l.side[i].hp,
            !.active  = l.side[i].active,
            !.trapped = l.side[i].active /\ l.trapped]]

requestTeam(l) ==
    [i \in DOMAIN l.side |->
        [initPokemonFromName(l.side[i].name) EXCEPT
            !.moves   = l.side[i].moves,
            !.hp      = l.side[i].hp,
            !.fainted = l.side[i].fnt,
            !.active  = l.side[i].active,
            !.trapped = l.side[i].active /\ l.trapped]]

(* The actions a request allows: 0..3 for a move, and for the Pokemon at     *)
(* indxPkmn (i - 1 here) the action indxPkmn + 3.                            *)
moveActions(l) == IF l.forceSwitch THEN {} ELSE 0..(l.moves - 1)

(* Mutant: fainted Pokemon are offered too. *)
switchActionsToFainted(l) ==
    {i + 2 : i \in {j \in DOMAIN l.side : ~l.side[j].active /\ ~l.trapped}}

switchActions(l) ==
    {i + 2 : i \in {j \in DOMAIN l.side : /\ ~l.side[j].active
                                          /\ ~l.side[j].fnt
                                          /\ ~l.trapped}}

(* Names absent from the JSON data make their conversions throw. *)
requestIsKnown(l) ==
    \A i \in DOMAIN l.side :
        /\ l.side[i].name \in KnownPkmn
        /\ l.side[i].moves \in Seq(KnownMoves)

(* Mutant: a switch is numbered as the team vector is, from 0. *)
moveMessagesFromZero(room, actions) ==
    IF actions = {}
    THEN {[room |-> room, cmd |-> "pass", slot |-> 0]}
    ELSE {[room |-> room, cmd |-> "move", slot |-> c + 1] :
             c \in {a \in actions : a < 4}}
           \cup {[room |-> room, cmd |-> "switch", slot |-> c - 3] :
             c \in {a \in actions : a >= 4}}

(* PSUser::move: the messages it may send, randomChoice picking the action.  *)
moveMessages(room, actions) ==
    IF actions = {}
    THEN {[room |-> room, cmd |-> "pass", slot |-> 0]}
    ELSE {[room |-> room, cmd |-> "move", slot |-> c + 1] :
             c \in {a \in actions : a < 4}}
           \cup {[room |-> room, cmd |-> "switch", slot |-> c - 2] :
             c \in {a \in actions : a >= 4}}

-----------------------------------------------------------------------------
(* Outcomes a handler shares *)

At(types) == ~crashed /\ lines # <<>> /\ Head(lines).type \in types

(* Mutant: the player ID is not looked at. *)
OwnNever(l) == FALSE

Own(l) == l.id = battleData[curRoom].playerID

oppTeam == battleData[curRoom].oppTeam

(* The line changes nothing that is kept. *)
Ignore ==
    /\ lines' = Tail(lines)
    /\ UNCHANGED <<username, challenge, battleData, curRoom, sent, crashed>>

(* The line changes the opponent's team as the bot knows it. *)
SetOppTeam(team) ==
    /\ battleData' = [battleData EXCEPT ![curRoom].oppTeam = team]
    /\ lines' = Tail(lines)
    /\ UNCHANGED <<username, challenge, curRoom, sent, crashed>>

(* A json conversion throws or a null pointer is written through: the loop of *)
(* PSConnection catches NetExceptions only, so the process ends.              *)
Throw ==
    /\ crashed' = TRUE
    /\ lines' = <<>>
    /\ UNCHANGED <<username, challenge, battleData, curRoom, sent>>

-----------------------------------------------------------------------------
(* The handlers *)

(* Mutant: a room line starts the room's data anew. *)
RoomForgets ==
    /\ At({"room"})
    /\ curRoom' = Head(lines).room
    /\ battleData' = [battleData EXCEPT ![Head(lines).room] = NoBattle]
    /\ lines' = Tail(lines)
    /\ UNCHANGED <<username, challenge, sent, crashed>>

Room ==
    /\ At({"room"})
    /\ curRoom' = Head(lines).room
    /\ lines' = Tail(lines)
    /\ UNCHANGED <<username, challenge, battleData, sent, crashed>>

(* A player line without a name returns from handle_message at once: the     *)
(* lines that follow it in the frame are never handled.                      *)
Player ==
    /\ At({"player"})
    /\ LET l == Head(lines) IN
       \/ /\ l.name = NoUser
          /\ lines' = <<>>
          /\ UNCHANGED battleData
       \/ /\ l.name = username
          /\ lines' = Tail(lines)
          /\ battleData' = [battleData EXCEPT ![curRoom].playerID = l.id]
       \/ /\ l.name \notin {NoUser, username}
          /\ lines' = Tail(lines)
          /\ UNCHANGED battleData
    /\ UNCHANGED <<username, challenge, curRoom, sent, crashed>>

(* Mutant: a choice is made on every request, not only on a forced switch. *)
RequestAlwaysMoves ==
    /\ At({"request"})
    /\ LET l == Head(lines)
           available == moveActions(l) \cup switchActions(l) IN
       \/ l.wait /\ Ignore
       \/ /\ ~l.wait
          /\ battleData' = [battleData EXCEPT
                 ![curRoom].playerTeam = requestTeam(l),
                 ![curRoom].availableActions = available]
          /\ \E m \in moveMessages(curRoom, available) : sent' = Append(sent, m)
          /\ lines' = Tail(lines)
          /\ UNCHANGED <<username, challenge, curRoom, crashed>>

(* Mutant: a forced switch is left to the next turn line. *)
RequestNeverMoves ==
    /\ At({"request"})
    /\ LET l == Head(lines) IN
       \/ l.wait /\ Ignore
       \/ /\ ~l.wait
          /\ battleData' = [battleData EXCEPT
                 ![curRoom].playerTeam = requestTeam(l),
                 ![curRoom].availableActions = moveActions(l) \cup switchActions(l)]
          /\ lines' = Tail(lines)
          /\ UNCHANGED <<username, challenge, curRoom, sent, crashed>>

Request ==
    /\ At({"request"})
    /\ LET l == Head(lines)
           available == moveActions(l) \cup switchActions(l) IN
       \/ l.wait /\ Ignore
       \/ ~l.wait /\ ~requestIsKnown(l) /\ Throw
       \/ /\ ~l.wait /\ requestIsKnown(l)
          /\ battleData' = [battleData EXCEPT
                 ![curRoom].playerTeam = requestTeam(l),
                 ![curRoom].availableActions = available]
          /\ \/ ~l.forceSwitch /\ UNCHANGED sent
             \/ /\ l.forceSwitch
                /\ \E m \in moveMessages(curRoom, available) :
                      sent' = Append(sent, m)
          /\ lines' = Tail(lines)
          /\ UNCHANGED <<username, challenge, curRoom, crashed>>

Challstr ==
    /\ At({"challstr"})
    /\ challenge' = TRUE
    /\ lines' = Tail(lines)
    /\ UNCHANGED <<username, battleData, curRoom, sent, crashed>>

UpdateUser ==
    /\ At({"updateuser"})
    /\ username' = Head(lines).name
    /\ lines' = Tail(lines)
    /\ UNCHANGED <<challenge, battleData, curRoom, sent, crashed>>

(* accept_challenge: gen1ou needs a team to be sent first *)
acceptMessages(user, format) ==
    IF format = "gen1ou" THEN <<[cmd |-> "utm"], [cmd |-> "accept", user |-> user]>>
    ELSE IF format = "gen1randombattle" THEN <<[cmd |-> "accept", user |-> user]>>
    ELSE <<>>

(* One challenge of the line's challengesFrom per step *)
UpdateChallenges ==
    /\ At({"updatechallenges"})
    /\ LET l == Head(lines) IN
       \/ l.from = <<>> /\ Ignore
       \/ /\ l.from # <<>>
          /\ sent' = IF Head(l.from).format \in AcceptedFormats
                     THEN sent \o acceptMessages(Head(l.from).user,
                                                 Head(l.from).format)
                     ELSE sent
          /\ lines' = <<[l EXCEPT !.from = Tail(l.from)]>> \o Tail(lines)
          /\ UNCHANGED <<username, challenge, battleData, curRoom, crashed>>

(* Mutant: only the opponent's lead is added. *)
SwitchLeadOnly ==
    /\ At({"switch"})
    /\ LET l == Head(lines) IN
       \/ (Own(l) \/ oppTeam # <<>>) /\ Ignore
       \/ /\ ~Own(l) /\ oppTeam = <<>>
          /\ SetOppTeam(<<[initPokemonFromName(l.name)
                             EXCEPT !.hp = l.hp, !.active = TRUE]>>)

Switch ==
    /\ At({"switch"})
    /\ LET l == Head(lines) IN
       \/ (Own(l) \/ getPokemon(l.name, oppTeam) # {}) /\ Ignore
       \/ /\ ~Own(l) /\ getPokemon(l.name, oppTeam) = {}
          /\ \/ l.name \notin KnownPkmn /\ Throw
             \/ /\ l.name \in KnownPkmn
                /\ SetOppTeam(Append(oppTeam, [initPokemonFromName(l.name)
                                 EXCEPT !.hp = l.hp, !.active = TRUE]))

(* Mutant: the move is not looked up before it is stored. *)
MoveUnchecked ==
    /\ At({"move"})
    /\ LET l == Head(lines)
           attacker == getPokemon(l.name, oppTeam) IN
       \/ Own(l) /\ Ignore
       \/ /\ ~Own(l) /\ attacker = {}
          /\ SetOppTeam(Append(oppTeam, [initPokemonFromName(l.name)
                           EXCEPT !.moves = <<l.move>>]))
       \/ /\ ~Own(l)
          /\ \E i \in attacker :
                IF hasMove(oppTeam[i], l.move) THEN Ignore
                ELSE SetOppTeam([oppTeam EXCEPT ![i].moves = Append(@, l.move)])

Move ==
    /\ At({"move"})
    /\ LET l == Head(lines)
           attacker == getPokemon(l.name, oppTeam) IN
       \/ Own(l) /\ Ignore
       \/ /\ ~Own(l) /\ Throw
          /\ \/ l.move \notin KnownMoves
             \/ attacker = {} /\ l.name \notin KnownPkmn
       \/ /\ ~Own(l) /\ l.move \in KnownMoves
          /\ \/ \E i \in attacker :
                   \/ hasMove(oppTeam[i], l.move) /\ Ignore
                   \/ /\ ~hasMove(oppTeam[i], l.move)
                      /\ SetOppTeam([oppTeam EXCEPT
                             ![i].moves = Append(@, l.move)])
             \/ /\ attacker = {} /\ l.name \in KnownPkmn
                /\ SetOppTeam(Append(oppTeam, [initPokemonFromName(l.name)
                                 EXCEPT !.moves = <<l.move>>]))

(* The handlers below write through getPokemon's result unchecked. *)
NullPointer(l) == ~Own(l) /\ getPokemon(l.name, oppTeam) = {} /\ Throw

Faint ==
    /\ At({"faint"})
    /\ LET l == Head(lines) IN
       \/ Own(l) /\ Ignore
       \/ NullPointer(l)
       \/ /\ ~Own(l)
          /\ \E i \in getPokemon(l.name, oppTeam) :
                SetOppTeam([oppTeam EXCEPT ![i].fainted = TRUE])

DamageOrHeal ==
    /\ At({"-damage", "-heal"})
    /\ LET l == Head(lines) IN
       \/ Own(l) /\ Ignore
       \/ NullPointer(l)
       \/ /\ ~Own(l)
          /\ \E i \in getPokemon(l.name, oppTeam) :
                SetOppTeam([oppTeam EXCEPT ![i].hp = l.hp])

(* A status the bot does not track (psn) is dropped before the pointer is used. *)
StatusOrCure ==
    /\ At({"-status", "-curestatus"})
    /\ LET l == Head(lines) IN
       \/ (Own(l) \/ l.status \notin Statuses) /\ Ignore
       \/ l.status \in Statuses /\ NullPointer(l)
       \/ /\ ~Own(l) /\ l.status \in Statuses
          /\ \E i \in getPokemon(l.name, oppTeam) :
                SetOppTeam([oppTeam EXCEPT ![i].status =
                    IF l.type = "-status" THEN @ \cup {l.status}
                                          ELSE @ \ {l.status}])

Boost ==
    /\ At({"-boost"})
    /\ LET l == Head(lines) IN
       \/ Own(l) /\ Ignore
       \/ NullPointer(l)
       \/ /\ ~Own(l)
          /\ \E i \in getPokemon(l.name, oppTeam) :
                SetOppTeam([oppTeam EXCEPT ![i].boosts[l.stat] = l.boost])

Turn ==
    /\ At({"turn"})
    /\ \E m \in moveMessages(curRoom, battleData[curRoom].availableActions) :
          sent' = Append(sent, m)
    /\ lines' = Tail(lines)
    /\ UNCHANGED <<username, challenge, battleData, curRoom, crashed>>

(* win, error and chat lines are printed only. *)
Printed == At({"win", "error", "other"}) /\ Ignore

Handle ==
    \/ Room \/ Player \/ Request \/ Challstr \/ UpdateUser \/ UpdateChallenges
    \/ Switch \/ Move \/ Faint \/ DamageOrHeal \/ StatusOrCure \/ Boost
    \/ Turn \/ Printed

-----------------------------------------------------------------------------
(* The environment: the receive loop hands over a frame when the one before  *)
(* has been handled, and the socket takes messages to the server in order.   *)

Receive ==
    /\ ~crashed /\ lines = <<>> /\ Len(sent) <= MaxSent
    /\ lines' \in Seq(Line)
    /\ curRoom' = NoRoom
    /\ UNCHANGED <<username, challenge, battleData, sent, crashed>>

Transmit ==
    /\ sent # <<>>
    /\ sent' = Tail(sent)
    /\ UNCHANGED <<username, challenge, battleData, curRoom, lines, crashed>>

Init ==
    /\ username = BotName
    /\ challenge = FALSE
    /\ battleData = [r \in AllRooms |-> NoBattle]
    /\ curRoom = NoRoom
    /\ lines = <<>>
    /\ sent = <<>>
    /\ crashed = FALSE

Next == Receive \/ Handle \/ Transmit

Spec == Init /\ [][Next]_vars

-----------------------------------------------------------------------------
(* Properties *)

(* Every variable keeps to its type: in particular only known Pokemon and    *)
(* known moves are ever stored, because an unknown name ends the process     *)
(* before the team is written.                                               *)
TypeOK ==
    /\ username \in Users
    /\ challenge \in BOOLEAN
    /\ battleData \in [AllRooms -> BattleData]
    /\ curRoom \in AllRooms
    /\ lines \in Seq(Line)
    /\ sent \in Seq(Message)
    /\ crashed \in BOOLEAN

Distinct(team) ==
    /\ \A i, j \in DOMAIN team : team[i].name = team[j].name => i = j
    /\ \A i \in DOMAIN team : \A j, k \in DOMAIN team[i].moves :
          team[i].moves[j] = team[i].moves[k] => j = k

(* Whatever order switch and move lines come in, the opponent's team lists a *)
(* Pokemon once and each Pokemon lists a move once: both the switch and the  *)
(* move handler look a name up before they append (PSUser.hpp:333, :360).    *)
OppTeamDistinct == \A r \in AllRooms : Distinct(battleData[r].oppTeam)

(* The positions of a team the bot may switch to. *)
Bench(team) ==
    {i \in DOMAIN team : /\ ~team[i].active /\ ~team[i].fainted
                         /\ \A j \in DOMAIN team : ~team[j].trapped}

(* In every room, at any time, the switch actions on offer are exactly the   *)
(* Pokemon of the stored team that can come in: the two fields are rebuilt   *)
(* from one request (PSUser.hpp:258-259), never from two different ones, and *)
(* no move action is mistaken for a switch action.                           *)
SwitchActionsMatchTeam ==
    \A r \in AllRooms :
        {a \in battleData[r].availableActions : a > 3}
            = {i + 2 : i \in Bench(battleData[r].playerTeam)}

InWireForm(m) == /\ m.cmd = "move" => m.slot \in 1..4
                 /\ m.cmd = "switch" => m.slot \in 2..6

(* The ranges devnotes.txt:7-11 gives for what is sent to the server: moves  *)
(* in 1..4 and switches in 2..6, over the two renumberings between a request *)
(* and the message (PSUser.hpp:252 and :82-85).                              *)
SentInWireForm == \A i \in DOMAIN sent : InWireForm(sent[i])

Extends(old, new) ==
    \A i \in DOMAIN old :
        /\ i \in DOMAIN new
        /\ new[i].name = old[i].name
        /\ old[i].fainted => new[i].fainted
        /\ \A j \in DOMAIN old[i].moves :
             j \in DOMAIN new[i].moves /\ new[i].moves[j] = old[i].moves[j]

(* What is known of the opponent is never lost: a step forgets no Pokemon,   *)
(* revives none and drops none of its moves, and a Pokemon keeps its place   *)
(* in the vector, whichever rooms the frames in between belong to.           *)
OppKnowledgeGrows ==
    \A r \in AllRooms : Extends(battleData[r].oppTeam, battleData'[r].oppTeam)

OppKnowledgeNeverLost == [][OppKnowledgeGrows]_vars
=============================================================================
