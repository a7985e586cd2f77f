-------------------------------- MODULE Battle --------------------------------
(***************************************************************************)
(* The offline battle of src/simulator: Battle::battleLoop, battleLogic and*)
(* the Player operations they call.  The same code plays the battle itself *)
(* (player 0 choosing by MCTS, player 1 attacking at random) and each of   *)
(* the rollouts MCTS makes from a copy of it (both attacking at random): a *)
(* behaviour may at any turn go on as one of the rollouts.                 *)
(*                                                                         *)
(* A turn is the steps of the loop body in the order of the code: both     *)
(* moves are chosen, ordered, executed one after the other, and then each  *)
(* side is checked for a faint.  Damage is a number of the set Damages and *)
(* a choice of rand() or of MCTS is nondeterministic.                      *)
(***************************************************************************)
EXTENDS Integers, FiniteSets

CONSTANTS
    TeamSize,      \* Pokemon of a team: 6 in the code
    StartHP,       \* HP of a Pokemon at the start
    Damages,       \* what calcDamage may return for an attack
    Speed,         \* Speed[p][k]: speed of the Pokemon in slot k of player p
    MCTSTurn       \* the turn at which player 0 goes back to MCTS: 20 in the code

VARIABLES
    team,        \* players[p].team[k]: hp and fainted
    currentOut,  \* players[p].currentOut
    curMove,     \* players[p].curMove
    numAlive,    \* players[p].numAlive
    hasLost,     \* players[p].hasLost
    moveFunc,    \* players[p].moveFunc
    turn,        \* Battle::turn, held at MCTSTurn + 1 once past it
    inLoop,      \* the turn is one of battleLoop, not one MCTS plays itself
    first,       \* the player whose move is executed first
    pc           \* the next step of the turn

vars == <<team, currentOut, curMove, numAlive, hasLost, moveFunc, turn, inLoop,
          first, pc>>

Players   == {0, 1}
Slots     == 0..(TeamSize - 1)
MoveFuncs == {"MCTS", "randomAttack"}
Move      == [isSwitch : BOOLEAN, teamPos : Slots]
Steps     == {"choose0", "choose1", "order", "act1", "act2", "check0", "check1", "end", "over"}

ASSUME BattleAssumption ==
    /\ TeamSize \in Nat \ {0}
    /\ StartHP \in Nat \ {0}
    /\ Damages \subseteq Nat
    /\ Speed \in [Players -> [Slots -> Nat]]
    /\ MCTSTurn \in Nat

-----------------------------------------------------------------------------

Standing(p) == {k \in Slots : ~team[p][k].fainted}

out(p) == team[p][currentOut[p]]

(* What a player may choose.  randomAttack attacks with the Pokemon out;     *)
(* MCTS also tries moves 4..9, a switch to slot moveNum % 6: any slot, the   *)
(* one out and fainted ones included (moveFromInt, MoveFunctions.hpp:27-30). *)
Attack(p) == [isSwitch |-> FALSE, teamPos |-> currentOut[p]]

(* Mutant: the move number of a switch is not reduced modulo the team size. *)
movesUnreduced(p) ==
    {Attack(p)} \cup
    (IF moveFunc[p] = "MCTS"
     THEN {[isSwitch |-> TRUE, teamPos |-> k] : k \in (TeamSize - 2)..(2 * TeamSize - 3)}
     ELSE {})

movesOf(p) ==
    {Attack(p)} \cup
    (IF moveFunc[p] = "MCTS" THEN {[isSwitch |-> TRUE, teamPos |-> k] : k \in Slots}
                             ELSE {})

(* Who moves first: a switch before an attack, else the faster Pokemon, else *)
(* either.                                                                   *)
firstMovers ==
    LET speed(p) == Speed[p][curMove[p].teamPos] IN
    IF curMove[0].isSwitch THEN {0}
    ELSE IF curMove[1].isSwitch THEN {1}
    ELSE {p \in Players : speed(p) >= speed(1 - p)}

-----------------------------------------------------------------------------
(* The steps of a turn *)

Choose0 ==
    /\ pc = "choose0"
    /\ \E m \in movesOf(0) : curMove' = [curMove EXCEPT ![0] = m]
    /\ pc' = "choose1"
    /\ UNCHANGED <<team, currentOut, numAlive, hasLost, moveFunc, turn, inLoop, first>>

(* MCTS tries a move on a copy of the battle in which both players attack at *)
(* random.  It calls battleLogic for the first turn, then battleLoop.        *)
Rollout ==
    /\ pc = "choose0" /\ moveFunc[0] = "MCTS"
    /\ \E m \in movesOf(0) : curMove' = [curMove EXCEPT ![0] = m]
    /\ moveFunc' = [p \in Players |-> "randomAttack"]
    /\ inLoop' = FALSE
    /\ pc' = "choose1"
    /\ UNCHANGED <<team, currentOut, numAlive, hasLost, turn, first>>

Choose1 ==
    /\ pc = "choose1"
    /\ \E m \in movesOf(1) : curMove' = [curMove EXCEPT ![1] = m]
    /\ pc' = "order"
    /\ UNCHANGED <<team, currentOut, numAlive, hasLost, moveFunc, turn, inLoop, first>>

Order ==
    /\ pc = "order"
    /\ first' \in firstMovers
    /\ pc' = "act1"
    /\ UNCHANGED <<team, currentOut, curMove, numAlive, hasLost, moveFunc, turn, inLoop>>

(* Mutant: the switch is made in a copy of the player. *)
SwitchInCopy(i) == curMove[i].isSwitch /\ UNCHANGED <<team, currentOut>>

(* Mutant: the Pokemon comes in as it was at the start. *)
SwitchInAnew(i) ==
    /\ curMove[i].isSwitch
    /\ currentOut' = [currentOut EXCEPT ![i] = curMove[i].teamPos]
    /\ team' = [team EXCEPT ![i][curMove[i].teamPos] = [hp |-> StartHP, fainted |-> FALSE]]

SwitchIn(i) ==
    /\ curMove[i].isSwitch
    /\ currentOut' = [currentOut EXCEPT ![i] = curMove[i].teamPos]
    /\ UNCHANGED team

(* The attack hits the Pokemon named by the other player's move. *)
Hit(i) ==
    /\ ~curMove[i].isSwitch
    /\ ~team[i][curMove[i].teamPos].fainted
    /\ \E d \in Damages :
          LET k == curMove[1 - i].teamPos
              hp == team[1 - i][k].hp - d
          IN team' = [team EXCEPT ![1 - i][k] =
                         [hp |-> hp, fainted |-> @.fainted \/ hp <= 0]]
    /\ UNCHANGED currentOut

CannotAttack(i) ==
    /\ ~curMove[i].isSwitch
    /\ team[i][curMove[i].teamPos].fainted
    /\ UNCHANGED <<team, currentOut>>

Act(i) ==
    /\ SwitchIn(i) \/ Hit(i) \/ CannotAttack(i)
    /\ UNCHANGED <<curMove, numAlive, hasLost, moveFunc, turn, inLoop, first>>

ActFirst  == pc = "act1" /\ Act(first) /\ pc' = "act2"

ActSecond == pc = "act2" /\ Act(1 - first) /\ pc' = "check0"

(* Mutant: the slot drawn may have fainted. *)
makeSwitchToAny(i) ==
    \E k \in Slots :
        /\ k # currentOut[i]
        /\ curMove' = [curMove EXCEPT ![i] = [isSwitch |-> TRUE, teamPos |-> k]]
        /\ currentOut' = [currentOut EXCEPT ![i] = k]

(* makeSwitchOnFaint draws slots until one is neither the slot out nor       *)
(* fainted: the step is not enabled, for ever, when there is none.           *)
makeSwitchOnFaint(i) ==
    \E k \in Slots :
        /\ k # currentOut[i] /\ ~team[i][k].fainted
        /\ curMove' = [curMove EXCEPT ![i] = [isSwitch |-> TRUE, teamPos |-> k]]
        /\ currentOut' = [currentOut EXCEPT ![i] = k]

(* Mutant: the other player is marked as having lost. *)
CheckSwapped(i, next) ==
    \/ /\ ~out(i).fainted
       /\ pc' = next
       /\ UNCHANGED <<currentOut, curMove, numAlive, hasLost>>
    \/ /\ out(i).fainted
       /\ numAlive' = [numAlive EXCEPT ![i] = @ - 1]
       /\ \/ /\ numAlive[i] = 1
             /\ hasLost' = [hasLost EXCEPT ![1 - i] = TRUE]
             /\ pc' = "end"
             /\ UNCHANGED <<currentOut, curMove>>
          \/ /\ numAlive[i] # 1
             /\ makeSwitchOnFaint(i)
             /\ pc' = next
             /\ UNCHANGED hasLost

(* The faint check of one player: next is where the loop goes on. *)
Check(i, next) ==
    \/ /\ ~out(i).fainted
       /\ pc' = next
       /\ UNCHANGED <<currentOut, curMove, numAlive, hasLost>>
    \/ /\ out(i).fainted
       /\ numAlive' = [numAlive EXCEPT ![i] = @ - 1]
       /\ \/ /\ numAlive[i] = 1
             /\ hasLost' = [hasLost EXCEPT ![i] = TRUE]
             /\ pc' = "end"
             /\ UNCHANGED <<currentOut, curMove>>
          \/ /\ numAlive[i] # 1
             /\ makeSwitchOnFaint(i)
             /\ pc' = next
             /\ UNCHANGED hasLost

Check0 ==
    /\ pc = "check0" /\ Check(0, "check1")
    /\ UNCHANGED <<team, moveFunc, turn, inLoop, first>>

Check1 ==
    /\ pc = "check1" /\ Check(1, "end")
    /\ UNCHANGED <<team, moveFunc, turn, inLoop, first>>

(* Mutant: both players go over to MCTS. *)
EndTurnBothMCTS ==
    /\ pc = "end"
    /\ moveFunc' = IF inLoop /\ turn = MCTSTurn
                   THEN [p \in Players |-> "MCTS"] ELSE moveFunc
    /\ turn' = IF inLoop /\ turn <= MCTSTurn THEN turn + 1 ELSE turn
    /\ inLoop' = TRUE
    /\ pc' = IF \E p \in Players : hasLost[p] THEN "over" ELSE "choose0"
    /\ UNCHANGED <<team, currentOut, curMove, numAlive, hasLost, first>>

(* The end of the loop body and the test of the loop. *)
EndTurn ==
    /\ pc = "end"
    /\ moveFunc' = IF inLoop /\ turn = MCTSTurn
                   THEN [moveFunc EXCEPT ![0] = "MCTS"] ELSE moveFunc
    /\ turn' = IF inLoop /\ turn <= MCTSTurn THEN turn + 1 ELSE turn
    /\ inLoop' = TRUE
    /\ pc' = IF \E p \in Players : hasLost[p] THEN "over" ELSE "choose0"
    /\ UNCHANGED <<team, currentOut, curMove, numAlive, hasLost, first>>

Over == pc = "over" /\ UNCHANGED vars

Init ==
    /\ team = [p \in Players |-> [k \in Slots |-> [hp |-> StartHP, fainted |-> FALSE]]]
    /\ currentOut = [p \in Players |-> 0]
    /\ curMove = [p \in Players |-> [isSwitch |-> FALSE, teamPos |-> 0]]
    /\ numAlive = [p \in Players |-> TeamSize]
    /\ hasLost = [p \in Players |-> FALSE]
    /\ moveFunc = [p \in Players |-> IF p = 0 THEN "MCTS" ELSE "randomAttack"]
    /\ turn = 0
    /\ inLoop = TRUE
    /\ first = 0
    /\ pc = "choose0"

Next ==
    \/ Choose0 \/ Rollout \/ Choose1 \/ Order \/ ActFirst \/ ActSecond
    \/ Check0 \/ Check1 \/ EndTurn \/ Over

Spec == Init /\ [][Next]_vars

FairSpec == Spec /\ WF_vars(Next)

-----------------------------------------------------------------------------
(* Properties *)

(* Types *)
TypeOK ==
    /\ team \in [Players -> [Slots -> [hp : Int, fainted : BOOLEAN]]]
    /\ currentOut \in [Players -> Slots]
    /\ curMove \in [Players -> Move]
    /\ numAlive \in [Players -> 0..TeamSize]
    /\ hasLost \in [Players -> BOOLEAN]
    /\ moveFunc \in [Players -> MoveFuncs]
    /\ turn \in 0..(MCTSTurn + 1)
    /\ inLoop \in BOOLEAN
    /\ first \in Players
    /\ pc \in Steps

(* makeSwitchOnFaint is only called when a Pokemon it can draw is left, so   *)
(* its loop (PlayerFunctions.hpp:31) ends: although MCTS may switch to a     *)
(* fainted slot and have it counted as a second faint, the count is never    *)
(* above the number of Pokemon standing.                                     *)
FaintSwitchPossible ==
    \A i \in Players :
        pc = (IF i = 0 THEN "check0" ELSE "check1")
        /\ out(i).fainted /\ numAlive[i] # 1 =>
            \E k \in Slots : k # currentOut[i] /\ ~team[i][k].fainted

(* When moves are chosen, no fainted Pokemon is out on either side and the   *)
(* count of those left is at least one and at most the number standing.      *)
TurnStartsHealthy ==
    pc = "choose0" =>
        \A p \in Players : /\ ~out(p).fainted
                           /\ numAlive[p] \in 1..Cardinality(Standing(p))

(* For player 1, which never switches by choice, the count is exact: it      *)
(* loses with its whole team fainted and not before.                         *)
AttackerCountExact ==
    /\ pc = "choose0" => numAlive[1] = Cardinality(Standing(1))
    /\ hasLost[1] => Standing(1) = {}

(* "Player %i has %i Pokemon remaining!" (BattleFunctions.hpp:146): after a  *)
(* turn the count is the number of Pokemon not fainted, for both players.    *)
RemainingCountIsExact ==
    pc = "choose0" => \A p \in Players : numAlive[p] = Cardinality(Standing(p))

(* The battle is a Duel: a turn counts at most one faint at a time, and one  *)
(* player has lost, exactly when its count gets to zero.                     *)
D == INSTANCE Duel WITH Size <- TeamSize, left <- numAlive,
                        losers <- {p \in Players : hasLost[p]}
ImplementsDuel == D!Spec

HPs == [p \in Players |-> [k \in Slots |-> team[p][k].hp]]

(* The loop of battleLoop ends, however MCTS switches, unless from some time *)
(* on no attack does damage.                                                 *)
BattleEnds == <>(pc = "over") \/ <>[][UNCHANGED HPs]_team
=============================================================================
