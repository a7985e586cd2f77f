------------------------------ MODULE BotBattle ------------------------------
(***************************************************************************)
(* The bot in one battle: PSUser composed with the battle server it talks  *)
(* to over a websocket.                                                    *)
(*                                                                         *)
(* The server is not in the repository.  It is modelled from what the bot  *)
(* relies on: a request frame goes out before the frame that describes the *)
(* turn; a player whose Pokemon fainted is asked for a switch while the    *)
(* other waits; a move that goes on by itself, as Bide does, leaves its    *)
(* user trapped; an own side is listed active Pokemon first, which a switch*)
(* swaps with the one coming in.                                           *)
(* A move may be disabled, which a request shows and the bot does not read;*)
(* a choice that is not legal is answered with an error line.  A Pokemon   *)
(* goes by its ident, a nickname if it has one (scrape.py:62): it need not *)
(* be a species.  The bot is player p1.  Both sides may hold the same name.*)
(***************************************************************************)
EXTENDS PSUser, FiniteSets

CONSTANTS
    room,         \* the battle's room
    Opponent,     \* the user the bot plays
    Sides,        \* the names of each player's Pokemon, in order
    MaxHP,        \* each player's Pokemon start with this HP
    MoveOf,       \* the one move each Pokemon uses
    Effects,      \* what each player's attacks may do
    Disableable,  \* the slots of the bot's moves that may be disabled
    LongFrames,   \* whether a frame may be too long for the buffer
    Garbage       \* what the bytes of a stream read out of step may say

VARIABLES
    order,     \* each player's names as the server lists them, active first
    mon,       \* each player's Pokemon: [hp, par]
    shown,     \* the opponent's Pokemon that have been sent out
    phase,     \* "lobby", "turn", "force" (a faint is to be replaced), "over"
    trapped,   \* the bot may not choose a switch this turn
    disabled,  \* the slots of the bot's moves that are disabled
    refused,   \* the bot's choice was refused: another is waited for
    left,      \* the opponent has left the room
    toBot,     \* frames on their way to the bot, while it reads them as such
    outOfStep  \* a frame too long was met: its payload is read as frames

server  == <<order, mon, shown, phase, trapped, disabled, refused>>
allvars == <<vars, server, left, toBot, outOfStep>>

HitEffects == {"miss", "hit", "par", "heal", "cure", "explode", "trap", "disable"}

ASSUME BattleAssumption ==
    /\ room \in Rooms /\ Opponent \in Users \ {BotName}
    /\ Sides \in [PlayerIDs -> Seq(Pkmn)]
    /\ \A p \in PlayerIDs : Len(Sides[p]) \in 1..6
    /\ MaxHP \in [PlayerIDs -> Nat \ {0}]
    /\ MoveOf \in [Pkmn -> Moves]
    /\ Effects \in [PlayerIDs -> SUBSET HitEffects] /\ "trap" \notin Effects["p2"]
    /\ Disableable \subseteq 1..4
    /\ LongFrames \in BOOLEAN /\ Garbage \subseteq Seq(Line)

-----------------------------------------------------------------------------
(* The server's view *)

Other(p)  == CHOOSE q \in PlayerIDs : q # p
out(s, p) == s.order[p][1]
down(s, p) == s.mon[p][out(s, p)].hp = 0
beaten(s, p) == \A i \in DOMAIN s.order[p] : s.mon[p][s.order[p][i]].hp = 0
benched(s, p) == {i \in 2..Len(s.order[p]) : s.mon[p][s.order[p][i]].hp > 0}

Now == [order |-> order, mon |-> mon, lines |-> <<>>]

Named(type, s, p) == [type |-> type, id |-> p, name |-> out(s, p)]

(* One player switches in the Pokemon listed at k. *)
switched(s, p, k) ==
    LET new == [s EXCEPT !.order[p] = [@ EXCEPT ![1] = s.order[p][k],
                                                ![k] = s.order[p][1]]]
    IN [new EXCEPT !.lines = Append(@,
           [type |-> "switch", id |-> p, name |-> out(new, p),
            hp |-> s.mon[p][out(new, p)].hp])]

(* The HP of p's active Pokemon becomes h: a line says so, and one more when *)
(* it faints.                                                                *)
hpSet(s, p, type, h) ==
    LET line == [type |-> type, id |-> p, name |-> out(s, p), hp |-> h] IN
    [s EXCEPT !.mon[p][out(s, p)].hp = h,
              !.lines = @ \o IF h = 0 THEN <<line, Named("faint", s, p)>>
                                      ELSE <<line>>]

parSet(s, p, type, par) ==
    [s EXCEPT !.mon[p][out(s, p)].par = par,
              !.lines = Append(@, [type |-> type, id |-> p,
                                   name |-> out(s, p), status |-> "par"])]

(* The state once p's attack has had the effect, if p has not fainted; "none" *)
(* stands for a player who switched.                                         *)
attacked(s, p, effect) ==
    IF effect = "none" \/ down(s, p) THEN {s} ELSE
    LET q == Other(p)
        hp == s.mon[q][out(s, q)].hp
        used == [s EXCEPT !.lines = Append(@,
                    [type |-> "move", id |-> p, name |-> out(s, p),
                     move |-> MoveOf[out(s, p)]])]
    IN {CASE effect = "hit" /\ hp > 0 -> hpSet(used, q, "-damage", hp - 1)
          [] effect = "heal" -> hpSet(used, p, "-heal", MaxHP[p])
          [] effect = "par" /\ hp > 0 -> parSet(used, q, "-status", TRUE)
          [] effect = "cure" -> parSet(used, p, "-curestatus", FALSE)
          [] effect = "explode" /\ hp > 0 ->
                hpSet(hpSet(used, q, "-damage", 0), p, "-damage", 0)
          [] OTHER -> used}

(* What the bot may choose, going by what the request shows of it. *)
Listed(m) ==
    /\ m.room = room
    /\ \/ /\ m.cmd = "move" /\ phase = "turn"
          /\ m.slot \in 1..(IF trapped THEN 1 ELSE 4)
       \/ /\ m.cmd = "switch" /\ m.slot \in benched(Now, "p1")
          /\ \/ phase = "turn" /\ ~trapped
             \/ phase = "force" /\ down(Now, "p1")

(* What the server accepts: the move a trapped player is shown is not one of *)
(* the four.                                                                 *)
Legal(m) == Listed(m) /\ (m.cmd = "move" => trapped \/ m.slot \notin disabled)

(* The server waits for the bot's choice. *)
Awaits == phase = "turn" \/ (phase = "force" /\ down(Now, "p1"))

-----------------------------------------------------------------------------
(* Frames *)

(* The server sends frames that are then all those on their way: out of step *)
(* they are only more bytes.                                                 *)
Queued(q) == toBot' = IF outOfStep THEN <<>> ELSE q

InRoom(ls) == <<[type |-> "room", room |-> room]>> \o ls

SideOf(s) ==
    [i \in DOMAIN s.order["p1"] |->
        LET n == s.order["p1"][i] IN
        [name |-> n, moves |-> <<MoveOf[n]>>, hp |-> s.mon["p1"][n].hp,
         fnt |-> s.mon["p1"][n].hp = 0, active |-> i = 1]]

RequestFor(s, wait, force, trap) ==
    InRoom(<<[type |-> "request", wait |-> wait, forceSwitch |-> force,
              trapped |-> trap, moves |-> IF trap THEN 1 ELSE 4,
              side |-> SideOf(s)]>>)

(* A turn or a replacement has ended in s: the server commits it, asks again *)
(* and then tells what happened.  trap: the bot's attack leaves it trapped;  *)
(* dis: the slots that are disabled from now on.                             *)
Commit(s, trap, dis) ==
    /\ order' = s.order /\ mon' = s.mon /\ disabled' = dis /\ refused' = FALSE
    /\ shown' = shown \cup {s.lines[i].name :
                    i \in {j \in DOMAIN s.lines : /\ s.lines[j].type = "switch"
                                                  /\ s.lines[j].id = "p2"}}
    /\ \/ /\ \E p \in PlayerIDs : beaten(s, p)
          /\ phase' = "over" /\ trapped' = FALSE
          /\ \E u \in {BotName, Opponent} :
                Queued(Append(toBot, InRoom(Append(s.lines, [type |-> "win", name |-> u]))))
       \/ /\ \A p \in PlayerIDs : ~beaten(s, p)
          /\ \E p \in PlayerIDs : down(s, p)
          /\ phase' = "force" /\ trapped' = FALSE
          /\ Queued(toBot \o <<RequestFor(s, ~down(s, "p1"), down(s, "p1"), FALSE),
                                InRoom(s.lines)>>)
       \/ /\ \A p \in PlayerIDs : ~down(s, p)
          /\ phase' = "turn" /\ trapped' = trap
          /\ Queued(toBot \o <<RequestFor(s, FALSE, FALSE, trap),
                                InRoom(Append(s.lines, [type |-> "turn"]))>>)

-----------------------------------------------------------------------------
(* Steps of the server *)

Start ==
    /\ phase = "lobby"
    /\ LET s == [Now EXCEPT !.lines =
                   <<[type |-> "switch", id |-> "p1", name |-> out(Now, "p1"), hp |-> MaxHP["p1"]],
                     [type |-> "switch", id |-> "p2", name |-> out(Now, "p2"), hp |-> MaxHP["p2"]]>>]
       IN /\ phase' = "turn" /\ shown' = {out(s, "p2")}
          /\ Queued(toBot \o
                <<InRoom(<<[type |-> "player", id |-> "p1", name |-> BotName],
                           [type |-> "player", id |-> "p2", name |-> Opponent]>>),
                  RequestFor(s, FALSE, FALSE, FALSE),
                  InRoom(Append(s.lines, [type |-> "turn"]))>>)
    /\ UNCHANGED <<vars, order, mon, trapped, disabled, refused, left, outOfStep>>

(* The slots that may be disabled after a turn in which the bot chose m and  *)
(* the opponent's attack had the effect e; a switch frees all of them.       *)
disabledAfter(m, e) ==
    {{}} \cup (IF m.cmd = "move" THEN {disabled} ELSE {})
         \cup (IF e = "disable" THEN {{i} : i \in Disableable} ELSE {})

(* A turn is played with the bot's choice m and a choice of the opponent:    *)
(* switches first, then the attacks in either order.                         *)
PlayTurn ==
    /\ phase = "turn" /\ sent # <<>> /\ Legal(Head(sent))
    /\ sent' = Tail(sent)
    /\ UNCHANGED <<username, challenge, battleData, curRoom, lines, crashed, left, outOfStep>>
    /\ LET m == Head(sent) IN
       \E k \in benched(Now, "p2") \cup {1}, first \in PlayerIDs :
       \E e1 \in IF m.cmd = "switch" THEN {"none"} ELSE Effects["p1"],
          e2 \in IF k # 1 THEN {"none"} ELSE Effects["p2"],
          s1 \in {IF m.cmd = "switch" THEN switched(Now, "p1", m.slot) ELSE Now} :
       \E s2 \in {IF k # 1 THEN switched(s1, "p2", k) ELSE s1} :
       \E s3 \in attacked(s2, first, IF first = "p1" THEN e1 ELSE e2) :
       \E s4 \in attacked(s3, Other(first), IF first = "p1" THEN e2 ELSE e1) :
       \E dis \in disabledAfter(m, IF down(s4, "p2") THEN "none" ELSE e2) :
          Commit(s4, e1 = "trap", dis)

(* Each player whose active Pokemon fainted replaces it. *)
Replace ==
    /\ phase = "force"
    /\ UNCHANGED <<username, challenge, battleData, curRoom, lines, crashed, left, outOfStep>>
    /\ \/ /\ ~down(Now, "p1")
          /\ UNCHANGED sent
          /\ \E k \in benched(Now, "p2") : Commit(switched(Now, "p2", k), FALSE, disabled)
       \/ /\ down(Now, "p1") /\ sent # <<>> /\ Legal(Head(sent))
          /\ sent' = Tail(sent)
          /\ LET s == switched(Now, "p1", Head(sent).slot) IN
             \/ ~down(Now, "p2") /\ Commit(s, FALSE, {})
             \/ /\ down(Now, "p2")
                /\ \E k \in benched(Now, "p2") : Commit(switched(s, "p2", k), FALSE, {})

(* A choice that is not asked for or not legal: the server says so and, if   *)
(* it waits for one, goes on waiting.                                        *)
Refuse ==
    /\ sent # <<>> /\ ~(Awaits /\ Legal(Head(sent)))
    /\ sent' = Tail(sent)
    /\ refused' = Awaits
    /\ Queued(Append(toBot, InRoom(<<[type |-> "error"]>>)))
    /\ UNCHANGED <<username, challenge, battleData, curRoom, lines, crashed,
                   order, mon, shown, phase, trapped, disabled, left, outOfStep>>

(* "|player|p2": the opponent closes the battle's page. *)
OpponentLeaves ==
    /\ phase # "lobby" /\ ~left
    /\ left' = TRUE
    /\ Queued(Append(toBot, InRoom(<<[type |-> "player", id |-> "p2", name |-> NoUser]>>)))
    /\ UNCHANGED <<vars, server, outOfStep>>

(* Mutant: a second loop reads while the first is still handling a frame. *)
DeliverTwice ==
    /\ toBot # <<>> /\ ~crashed
    /\ lines' = Head(toBot)
    /\ curRoom' = NoRoom
    /\ toBot' = Tail(toBot)
    /\ UNCHANGED <<username, challenge, battleData, sent, crashed, server, left, outOfStep>>

(* The receive loop reads the next frame. *)
Deliver ==
    /\ ~outOfStep /\ toBot # <<>>
    /\ lines' = Head(toBot)
    /\ Receive
    /\ toBot' = Tail(toBot)
    /\ UNCHANGED <<server, left, outOfStep>>

(* receiveFrame throws on a frame larger than the buffer when it has read    *)
(* its header; the loop catches, prints and reads on (PSConnection.hpp:48-59)*)
(* with the payload still in the stream.                                     *)
FrameTooLong ==
    /\ LongFrames /\ ~outOfStep /\ toBot # <<>> /\ lines = <<>> /\ ~crashed
    /\ outOfStep' = TRUE /\ toBot' = <<>>
    /\ UNCHANGED <<vars, server, left>>

(* From then on pieces of payloads are read as frames, and may say anything. *)
ReadGarbage ==
    /\ outOfStep
    /\ lines' \in Garbage
    /\ Receive
    /\ UNCHANGED <<server, left, toBot, outOfStep>>

HandleLine == Handle /\ UNCHANGED <<server, left, toBot, outOfStep>>

(* The bot has crashed, or everything is read and the battle is over or the  *)
(* server waits for a choice the bot does not make again (PSUser.hpp:267).   *)
Done ==
    /\ crashed \/ (toBot = <<>> /\ lines = <<>> /\ (phase = "over" \/ refused))
    /\ UNCHANGED allvars

BattleInit ==
    /\ Init
    /\ order = Sides
    /\ mon = [p \in PlayerIDs |-> [n \in Pkmn |-> [hp |-> MaxHP[p], par |-> FALSE]]]
    /\ shown = {} /\ phase = "lobby" /\ trapped = FALSE
    /\ disabled = {} /\ refused = FALSE
    /\ left = FALSE /\ toBot = <<>> /\ outOfStep = FALSE

BattleNext ==
    \/ Start \/ PlayTurn \/ Replace \/ Refuse \/ OpponentLeaves
    \/ Deliver \/ FrameTooLong \/ ReadGarbage \/ HandleLine \/ Done

BattleSpec ==
    /\ BattleInit /\ [][BattleNext]_allvars
    /\ WF_allvars(Start \/ PlayTurn \/ Replace \/ Refuse)
    /\ WF_allvars(Deliver \/ ReadGarbage \/ HandleLine)

-----------------------------------------------------------------------------
(* Properties *)

(* All the names the bot has been told so far are species and moves its data *)
(* has: those of its own team, which a request spells out, and those of the  *)
(* opponent's Pokemon that came out.                                         *)
Met == {Sides["p1"][i] : i \in DOMAIN Sides["p1"]} \cup shown
NamesMet == \A n \in Met : n \in KnownPkmn /\ MoveOf[n] \in KnownMoves

(* Every choice on its way answers the request the server is waiting on and  *)
(* is one that request lists, as long as the stream is read in step: the     *)
(* actions collected from one frame are used when another arrives, and a wait*)
(* request in between leaves the old ones in place.  What is listed is legal *)
(* but for a disabled move.                                                  *)
ChoicesListed == ~outOfStep => \A i \in DOMAIN sent : Listed(sent[i])

(* When the bot has chosen its turn's action, its own team is the one the    *)
(* server plays with: "We've received all information for the turn. Time to  *)
(* choose a move!" (PSUser.hpp:446).                                         *)
ChoicesInformed ==
    ~outOfStep /\ phase = "turn" /\ sent # <<>> =>
        LET team == battleData[room].playerTeam IN
        /\ Len(team) = Len(order["p1"])
        /\ \A i \in DOMAIN team :
              /\ team[i].name = order["p1"][i]
              /\ team[i].hp = mon["p1"][team[i].name].hp
              /\ team[i].fainted = (team[i].hp = 0)
              /\ team[i].active = (i = 1)

(* Once everything sent has been handled, with no strange name in it, the bot*)
(* knows exactly the opposing Pokemon that were sent out, with the HP, faints*)
(* and paralysis the server has for them, although lines of its own equally  *)
(* named Pokemon arrive in the same frames.  Every one of them is marked     *)
(* active, out or not: what getActivePokemon (Data.hpp:197) returns is the   *)
(* opponent's lead for ever.                                                 *)
OppKnowledge ==
    ~outOfStep /\ phase # "lobby" /\ toBot = <<>> /\ lines = <<>> /\ NamesMet =>
        LET team == battleData[room].oppTeam IN
        /\ {team[i].name : i \in DOMAIN team} = shown
        /\ \A i \in DOMAIN team :
              LET actual == mon["p2"][team[i].name] IN
              /\ team[i].hp = actual.hp
              /\ team[i].fainted = (actual.hp = 0)
              /\ team[i].active
              /\ team[i].status = IF actual.par THEN {"par"} ELSE {}

(* As long as the stream is read in step, a battle brings the process down   *)
(* only with a name the data lacks, a nickname say (PSUser.hpp:205, :336): no*)
(* other line does, for none names an opposing Pokemon the bot has not been  *)
(* told of before, whose null pointer would be written through (:386, :397,  *)
(* :409).                                                                    *)
NeverCrashes == crashed => ~NamesMet \/ outOfStep

(* The bot sends a choice only when one is asked for and never two for one   *)
(* request, although a choice is made both on a request line (a forced       *)
(* switch, PSUser.hpp:262) and on a turn line (:449); nor does it repeat one *)
(* that was refused.  All of this as long as the stream is read in step.     *)
RR == INSTANCE RequestReply WITH owed <- Awaits /\ ~refused, inFlight <- Len(sent)
AnswersOnlyRequests == RR!Init /\ [][outOfStep \/ RR!Next]_(RR!rrvars)

(* While the stream is read in step and the process lives, the bot makes     *)
(* every choice the server waits for, once: neither the request after a      *)
(* double faint, nor a trapped turn, nor an opponent who leaves makes the bot*)
(* and the server wait for each other; a refused choice does.                *)
RequestsAnswered == Awaits ~> (sent # <<>> \/ refused \/ outOfStep \/ crashed)

(* A server that waits for a replacement gets to the next turn or the end.   *)
ReplacementsEnd ==
    (phase = "force") ~> (phase \in {"turn", "over"} \/ outOfStep \/ crashed)

(* Seen from the bot, the battle is an environment PSUser allows: what is    *)
(* proved of PSUser holds here.                                              *)
BotIsPSUser == Spec
=============================================================================
