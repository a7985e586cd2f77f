-------------------------------- MODULE Rollout --------------------------------
(***************************************************************************)
(* The bot's own simulator, src/PSBot/ai/Simulator.hpp: simulate plays on  *)
(* from copies of both teams, each side choosing at random.                *)
(*                                                                         *)
(* Nothing sets battleOver, so the loop has no way out but the end of the  *)
(* process: calcDamage reads moveData["type"] (line 23), an entry the data *)
(* file lacks, and the conversion to a string throws; nothing catches.  A  *)
(* number below zero is only ever compared with zero: hp stops there.      *)
(***************************************************************************)
EXTENDS Integers, Sequences, FiniteSets

CONSTANTS
    Size,      \* the Pokemon of a team
    StartHP,   \* the most HP one has
    Damages,   \* what an attack may do, if it does anything
    Speed,     \* stats["speed"] of each side's Pokemon
    KnownMoves,\* moves.size() of each side's Pokemon
    TypeEntry  \* whether moveData has an entry "type": of a set of cases

VARIABLES
    team,      \* the teams: hp, fainted and active of each Pokemon
    userMove,  \* the action each side has chosen for this turn
    first,     \* who acts first
    typed,     \* moveData has an entry "type"
    pc         \* "choose", "first", "second", or "dead": the process has ended

vars == <<team, userMove, first, typed, pc>>

Sides == {"player", "opponent"}
Slots == 1..Size
PokemonData == [hp : 0..StartHP, fainted : BOOLEAN, active : BOOLEAN]

ASSUME RolloutAssumption ==
    /\ Size \in Nat \ {0} /\ StartHP \in Nat \ {0}
    /\ Damages \subseteq Nat
    /\ Speed \in [Sides -> [Slots -> Nat]]
    /\ KnownMoves \in [Sides -> [Slots -> 0..4]]
    /\ TypeEntry \subseteq BOOLEAN

Other(s) == IF s = "player" THEN "opponent" ELSE "player"

-----------------------------------------------------------------------------

(* getActivePokemon: the first that is marked. *)
isActivePokemon(t, i) == t[i].active /\ \A j \in Slots : j < i => ~t[j].active

(* Mutant: switches are numbered as in PSUser, one lower. *)
validActionsFrom3(t) ==
    {a \in 0..3 : \E i \in Slots : t[i].active}
      \cup {i + 2 : i \in {j \in Slots : ~t[j].active /\ ~t[j].fainted}}

(* indxPkmn, counted from 0, is i - 1. *)
validActions(t) ==
    {a \in 0..3 : \E i \in Slots : t[i].active}
      \cup {i + 3 : i \in {j \in Slots : ~t[j].active /\ ~t[j].fainted}}

isSwitch(a)     == a > 3
switchToIndx(a) == a - 3

(* Mutant: speeds are compared before the switches are looked at. *)
goesFirstBySpeed(m, s) ==
    \E i, j \in Slots :
        /\ isActivePokemon(team[s], i) /\ isActivePokemon(team[Other(s)], j)
        /\ Speed[s][i] >= Speed[Other(s)][j]

(* Whether s may go first: a switch does, the player's before the opponent's,*)
(* then the faster one, and either of a tie.                                 *)
goesFirst(m, s) ==
    IF isSwitch(m["player"]) THEN s = "player"
    ELSE IF isSwitch(m["opponent"]) THEN s = "opponent"
    ELSE \E i, j \in Slots :
            /\ isActivePokemon(team[s], i) /\ isActivePokemon(team[Other(s)], j)
            /\ Speed[s][i] >= Speed[Other(s)][j]

Choose ==
    /\ pc = "choose"
    /\ userMove' \in [Sides -> 0..(Size + 3)]
    /\ \A s \in Sides : userMove'[s] \in validActions(team[s])
    /\ first' \in {s \in Sides : goesFirst(userMove', s)}
    /\ pc' = "first"
    /\ UNCHANGED <<team, typed>>

(* Mutant: the Pokemon going out keeps its flag. *)
SwitchKeepsFlag(s) ==
    /\ isSwitch(userMove[s])
    /\ team' = [team EXCEPT ![s] = [i \in Slots |-> [team[s][i] EXCEPT !.active =
                    i = switchToIndx(userMove[s]) \/ team[s][i].active]]]
    /\ pc' = IF pc = "first" THEN "second" ELSE "choose"

Switch(s) ==
    /\ isSwitch(userMove[s])
    /\ team' = [team EXCEPT ![s] = [i \in Slots |-> [team[s][i] EXCEPT !.active =
                    \/ i = switchToIndx(userMove[s])
                    \/ team[s][i].active /\ ~isActivePokemon(team[s], i)]]]
    /\ pc' = IF pc = "first" THEN "second" ELSE "choose"

(* calcDamage for an attack of i.  A move that is not known is read past the *)
(* end of a vector: the process may end, as it does of a name without data,  *)
(* or go on.                                                                 *)
calcDamageMayThrow(s, i) == ~typed \/ userMove[s] >= KnownMoves[s][i]

(* i attacks j. *)
Attack(s, i, j) ==
    /\ ~isSwitch(userMove[s])
    /\ isActivePokemon(team[s], i) /\ isActivePokemon(team[Other(s)], j)
    /\ \/ /\ team[s][i].fainted
          /\ UNCHANGED team
          /\ pc' = IF pc = "first" THEN "second" ELSE "choose"
       \/ /\ ~team[s][i].fainted
          /\ calcDamageMayThrow(s, i)
          /\ UNCHANGED team
          /\ pc' = "dead"
       \/ /\ ~team[s][i].fainted
          /\ typed
          /\ \E d \in Damages :
                LET hp == team[Other(s)][j].hp - d IN
                team' = [team EXCEPT ![Other(s)][j].hp = IF hp > 0 THEN hp ELSE 0,
                                     ![Other(s)][j].fainted = @ \/ hp <= 0]
          /\ pc' = IF pc = "first" THEN "second" ELSE "choose"

Act(s) ==
    /\ Switch(s) \/ \E i, j \in Slots : Attack(s, i, j)
    /\ UNCHANGED <<userMove, first, typed>>

ActFirst  == pc = "first" /\ Act(first)
ActSecond == pc = "second" /\ Act(Other(first))

Dead == pc = "dead" /\ UNCHANGED vars

(* The bot's team as a request gives it, with one Pokemon marked active; the *)
(* opponent's with every one it has switched in marked.                      *)
Init ==
    /\ team \in [Sides -> [Slots -> PokemonData]]
    /\ \A s \in Sides : \A i \in Slots : team[s][i].fainted = (team[s][i].hp = 0)
    /\ \E i \in Slots : \A j \in Slots : team["player"][j].active = (j = i)
    /\ \E i \in Slots : team["opponent"][i].active
    /\ userMove = [s \in Sides |-> 0] /\ first = "player"
    /\ typed \in TypeEntry
    /\ pc = "choose"

Next == Choose \/ ActFirst \/ ActSecond \/ Dead

Spec == Init /\ [][Next]_vars

-----------------------------------------------------------------------------
(* Properties *)

(* The sides that have an action of this turn still to do. *)
toAct(s) == pc = "first" \/ (pc = "second" /\ s # first)

(* Types *)
TypeOK ==
    /\ team \in [Sides -> [Slots -> PokemonData]]
    /\ userMove \in [Sides -> 0..(Size + 3)]
    /\ first \in Sides /\ typed \in BOOLEAN
    /\ pc \in {"choose", "first", "second", "dead"}

(* Over any number of turns the bot has exactly one Pokemon out, and the     *)
(* opponent, of which more may be marked, never none: getActivePokemon, whose*)
(* result is written through unchecked (Simulator.hpp:107, :128, :134), never*)
(* returns null.                                                             *)
OneOut ==
    /\ \E i \in Slots : \A j \in Slots : team["player"][j].active <=> j = i
    /\ \E i \in Slots : team["opponent"][i].active

(* A switch is numbered when it is offered (:88) and decoded when it is done *)
(* (:129), after the other side has acted: it still names a Pokemon on the   *)
(* bench that stands.                                                        *)
SwitchSound ==
    \A s \in Sides : toAct(s) /\ isSwitch(userMove[s]) =>
        LET i == switchToIndx(userMove[s]) IN
        i \in Slots /\ ~team[s][i].active /\ ~team[s][i].fainted

(* An attack hits the Pokemon that comes in, never one that is about to leave*)
(* or on the bench: "Order only matters if both players attack"              *)
(* (Simulator.hpp:100) needs switches to be done first.                      *)
HitsWhoIsOut ==
    \A s \in Sides : \A i \in Slots :
        team'[s][i].hp # team[s][i].hp =>
            isActivePokemon(team[s], i) /\ ~(toAct(s) /\ isSwitch(userMove[s]))
HitsOnlyWhoIsOut == [][HitsWhoIsOut]_vars
=============================================================================
