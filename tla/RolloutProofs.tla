---------------------------- MODULE RolloutProofs ----------------------------
(* Proofs of the invariants of Rollout for teams of any size and any speeds, *)
(* damages and moves.                                                        *)
EXTENDS Rollout, TLAPS

-----------------------------------------------------------------------------
(* What an action does *)

LEMMA OtherSide ==
    ASSUME NEW s \in Sides
    PROVE  /\ Other(s) \in Sides /\ Other(s) # s
           /\ \A t \in Sides : t # s => t = Other(s)
  BY DEF Sides, Other

(* A number above 3 names a slot. *)
LEMMA SwitchInRange ==
    ASSUME NEW a \in 0..(Size + 3), isSwitch(a)
    PROVE  switchToIndx(a) \in Slots
  BY RolloutAssumption DEF isSwitch, switchToIndx, Slots

(* A switch moves the flag within the team of the one who switches.          *)
LEMMA SwitchEffect ==
    ASSUME TypeOK, NEW s \in Sides, Switch(s)
    PROVE  /\ team' \in [Sides -> [Slots -> PokemonData]]
           /\ \A t \in Sides : t # s => team'[t] = team[t]
           /\ \A t \in Sides, k \in Slots :
                 /\ team'[t][k].hp = team[t][k].hp
                 /\ team'[t][k].fainted = team[t][k].fainted
           /\ \A k \in Slots :
                 team'[s][k].active <=> \/ k = switchToIndx(userMove[s])
                                        \/ team[s][k].active /\ ~isActivePokemon(team[s], k)
           /\ switchToIndx(userMove[s]) \in Slots
           /\ pc = "first" => pc' = "second"
           /\ pc # "first" => pc' = "choose"
  <1> DEFINE new(k) == \/ k = switchToIndx(userMove[s])
                       \/ team[s][k].active /\ ~isActivePokemon(team[s], k)
             side   == [k \in Slots |-> [team[s][k] EXCEPT !.active = new(k)]]
  <1>1. team \in [Sides -> [Slots -> PokemonData]]
    BY DEF TypeOK
  <1>2. team' = [team EXCEPT ![s] = side]
    BY Zenon DEF Switch
  <1>3. \A k \in Slots : new(k) \in BOOLEAN
    BY <1>1 DEF isActivePokemon, PokemonData
  <1>4. \A k \in Slots : /\ side[k] \in PokemonData
                         /\ side[k].active = new(k)
                         /\ side[k].hp = team[s][k].hp
                         /\ side[k].fainted = team[s][k].fainted
    <2> TAKE k \in Slots
    <2>1. team[s][k] \in PokemonData
      BY <1>1
    <2> HIDE DEF new
    <2> QED
      BY <1>3, <2>1 DEF PokemonData
  <1>5. side \in [Slots -> PokemonData]
    BY <1>4
  <1> HIDE DEF side
  <1>6. /\ team' \in [Sides -> [Slots -> PokemonData]]
        /\ team'[s] = side
        /\ \A t \in Sides : t # s => team'[t] = team[t]
    BY <1>1, <1>2, <1>5
  <1>7. /\ switchToIndx(userMove[s]) \in Slots
        /\ pc = "first" => pc' = "second"
        /\ pc # "first" => pc' = "choose"
    BY SwitchInRange DEF Switch, TypeOK
  <1>8. \A t \in Sides, k \in Slots :
            team'[t][k].hp = team[t][k].hp /\ team'[t][k].fainted = team[t][k].fainted
    BY <1>4, <1>6
  <1> QED
    BY <1>4, <1>6, <1>7, <1>8

(* An attack changes no flag, and nothing else but the one attacked.         *)
LEMMA AttackEffect ==
    ASSUME TypeOK, NEW s \in Sides, NEW i \in Slots, NEW j \in Slots, Attack(s, i, j)
    PROVE  /\ team' \in [Sides -> [Slots -> PokemonData]]
           /\ \A t \in Sides, k \in Slots :
                 /\ team'[t][k].active = team[t][k].active
                 /\ t # Other(s) \/ k # j => team'[t][k] = team[t][k]
           /\ isActivePokemon(team[Other(s)], j)
           /\ ~isSwitch(userMove[s])
           /\ pc = "first" => pc' \in {"second", "dead"}
           /\ pc # "first" => pc' \in {"choose", "dead"}
  <1>1. team \in [Sides -> [Slots -> PokemonData]] /\ Other(s) \in Sides
    BY OtherSide DEF TypeOK
  <1>2. /\ isActivePokemon(team[Other(s)], j)
        /\ ~isSwitch(userMove[s])
        /\ pc = "first" => pc' \in {"second", "dead"}
        /\ pc # "first" => pc' \in {"choose", "dead"}
    BY DEF Attack
  <1>3. CASE UNCHANGED team
    BY <1>1, <1>2, <1>3
  <1>4. CASE team' # team
    <2>1. PICK d \in Damages :
            LET hp == team[Other(s)][j].hp - d IN
            team' = [team EXCEPT ![Other(s)][j].hp = IF hp > 0 THEN hp ELSE 0,
                                 ![Other(s)][j].fainted = @ \/ hp <= 0]
      BY <1>4 DEF Attack
    <2> DEFINE o   == Other(s)
               old == team[o][j]
               hp  == old.hp - d
               to  == [old EXCEPT !.hp = IF hp > 0 THEN hp ELSE 0,
                                  !.fainted = @ \/ hp <= 0]
    <2>2. old \in PokemonData /\ d \in Nat
      BY <1>1, RolloutAssumption
    <2>3. old.hp \in 0..StartHP /\ StartHP \in Nat
      BY <2>2, RolloutAssumption DEF PokemonData
    <2>4. (IF hp > 0 THEN hp ELSE 0) \in 0..StartHP
      BY <2>2, <2>3
    <2>5. to \in PokemonData /\ to.active = old.active
      BY <2>2, <2>4 DEF PokemonData
    <2>6. team' = [team EXCEPT ![o] = [team[o] EXCEPT ![j] = to]]
      BY <1>1, <2>1, <2>2 DEF PokemonData
    <2> HIDE DEF to
    <2> QED
      BY <1>1, <1>2, <2>5, <2>6
  <1> QED
    BY <1>3, <1>4

-----------------------------------------------------------------------------
(* Types *)

(* The types of Rollout's variables. *)
THEOREM TypeCorrect == Spec => []TypeOK
  <1>1. Init => TypeOK
    BY RolloutAssumption DEF Init, TypeOK, Sides
  <1>2. TypeOK /\ [Next]_vars => TypeOK'
    <2> SUFFICES ASSUME TypeOK, [Next]_vars PROVE TypeOK'
      OBVIOUS
    <2>1. CASE Choose
      BY <2>1 DEF Choose, TypeOK, Sides
    <2>2. ASSUME NEW s \in Sides, Act(s), pc \in {"first", "second"} PROVE TypeOK'
      <3>1. CASE Switch(s)
        BY <2>2, <3>1, SwitchEffect DEF Act, TypeOK
      <3>2. ASSUME NEW i \in Slots, NEW j \in Slots, Attack(s, i, j) PROVE TypeOK'
        BY <2>2, <3>2, AttackEffect DEF Act, TypeOK
      <3> QED
        BY <2>2, <3>1, <3>2 DEF Act
    <2>3. first \in Sides /\ Other(first) \in Sides
      BY OtherSide DEF TypeOK
    <2>4. CASE ActFirst \/ ActSecond
      BY <2>2, <2>3, <2>4 DEF ActFirst, ActSecond
    <2>5. CASE UNCHANGED vars
      BY <2>5 DEF vars, TypeOK
    <2> QED
      BY <2>1, <2>4, <2>5 DEF Next, Dead
  <1> QED
    BY <1>1, <1>2, PTL DEF Spec

-----------------------------------------------------------------------------
(* Who is out *)

(* The bot always has one Pokemon out and the opponent at least one.         *)
THEOREM OneOutAlways == Spec => []OneOut
  <1>1. Init => OneOut
    BY DEF Init, OneOut
  <1>2. TypeOK /\ OneOut /\ [Next]_vars => OneOut'
    <2> SUFFICES ASSUME TypeOK, OneOut, [Next]_vars PROVE OneOut'
      OBVIOUS
    <2>1. ASSUME NEW s \in Sides, Switch(s) PROVE OneOut'
      <3> DEFINE to == switchToIndx(userMove[s])
      <3>1. to \in Slots /\ team'[s][to].active
        BY <2>1, SwitchEffect
      <3>2. CASE s = "player"
        <4>1. PICK i \in Slots : \A j \in Slots : team["player"][j].active <=> j = i
          BY DEF OneOut
        <4>2. isActivePokemon(team["player"], i)
          BY <4>1, RolloutAssumption DEF isActivePokemon, Slots
        <4>3. \A j \in Slots : team'["player"][j].active <=> j = to
          BY <2>1, <3>1, <3>2, <4>1, <4>2, SwitchEffect
        <4>4. team'["opponent"] = team["opponent"]
          BY <2>1, <3>2, SwitchEffect DEF Sides
        <4> QED
          BY <3>1, <4>3, <4>4 DEF OneOut
      <3>3. CASE s = "opponent"
        <4>1. team'["player"] = team["player"]
          BY <2>1, <3>3, SwitchEffect DEF Sides
        <4> QED
          BY <3>1, <3>3, <4>1 DEF OneOut
      <3> QED
        BY <3>2, <3>3 DEF Sides
    <2>2. ASSUME NEW s \in Sides, NEW i \in Slots, NEW j \in Slots, Attack(s, i, j)
          PROVE  OneOut'
      <3>1. \A t \in Sides, k \in Slots : team'[t][k].active = team[t][k].active
        BY <2>2, AttackEffect
      <3> QED
        BY <3>1 DEF OneOut, Sides
    <2>3. CASE UNCHANGED team
      BY <2>3 DEF OneOut
    <2>4. first \in Sides /\ Other(first) \in Sides
      BY OtherSide DEF TypeOK
    <2> QED
      BY <2>1, <2>2, <2>3, <2>4 DEF Next, Choose, ActFirst, ActSecond, Act, Dead, vars
  <1> QED
    BY <1>1, <1>2, TypeCorrect, PTL DEF Spec

-----------------------------------------------------------------------------
(* Switches *)

(* The target of a switch that is still to be done is on the bench: an attack*)
(* in between hits the one that is out.                                      *)
THEOREM SwitchesSound == Spec => []SwitchSound
  <1>1. Init => SwitchSound
    BY DEF Init, SwitchSound, toAct
  <1>2. TypeOK /\ SwitchSound /\ [Next]_vars => SwitchSound'
    <2> SUFFICES ASSUME TypeOK, SwitchSound, [Next]_vars PROVE SwitchSound'
      OBVIOUS
    <2>1. CASE Choose
      <3>1. ASSUME NEW s \in Sides, isSwitch(userMove'[s])
            PROVE  /\ switchToIndx(userMove'[s]) \in Slots
                   /\ ~team[s][switchToIndx(userMove'[s])].active
                   /\ ~team[s][switchToIndx(userMove'[s])].fainted
        <4>1. userMove'[s] \in validActions(team[s]) /\ userMove'[s] \notin 0..3
          BY <2>1, <3>1 DEF Choose, isSwitch
        <4>2. PICK i \in Slots : /\ ~team[s][i].active /\ ~team[s][i].fainted
                                 /\ userMove'[s] = i + 3
          BY <4>1 DEF validActions
        <4>3. switchToIndx(userMove'[s]) = i
          BY <4>2 DEF switchToIndx, Slots
        <4> QED
          BY <4>2, <4>3
      <3>2. UNCHANGED team
        BY <2>1 DEF Choose
      <3> QED
        BY <3>1, <3>2 DEF SwitchSound
    <2>2. CASE ActFirst
      <3> DEFINE o == Other(first)
      <3>1. first \in Sides /\ o \in Sides /\ o # first /\ first' = first
            /\ userMove' = userMove /\ pc = "first" /\ Act(first)
        BY <2>2, OtherSide DEF ActFirst, Act, TypeOK
      <3>2. pc' # "first"
        BY <3>1, SwitchEffect, AttackEffect DEF Act
      <3>3. SUFFICES ASSUME isSwitch(userMove[o])
                     PROVE  LET i == switchToIndx(userMove[o]) IN
                            i \in Slots /\ ~team'[o][i].active /\ ~team'[o][i].fainted
        BY <3>1, <3>2, OtherSide DEF SwitchSound, toAct
      <3> DEFINE i == switchToIndx(userMove[o])
      <3>4. i \in Slots /\ ~team[o][i].active /\ ~team[o][i].fainted
        BY <3>1, <3>3 DEF SwitchSound, toAct
      <3>5. CASE Switch(first)
        BY <3>1, <3>4, <3>5, SwitchEffect
      <3>6. ASSUME NEW k \in Slots, NEW j \in Slots, Attack(first, k, j)
            PROVE  ~team'[o][i].active /\ ~team'[o][i].fainted
        <4>1. isActivePokemon(team[o], j)
          BY <3>1, <3>6, AttackEffect
        <4>2. i # j
          BY <3>4, <4>1 DEF isActivePokemon
        <4>3. team'[o][i] = team[o][i]
          BY <3>1, <3>4, <3>6, <4>2, AttackEffect
        <4> QED
          BY <3>4, <4>3
      <3> QED
        BY <3>1, <3>4, <3>5, <3>6 DEF Act
    <2>3. CASE ActSecond
      <3>1. Other(first) \in Sides /\ pc # "first" /\ Act(Other(first))
        BY <2>3, OtherSide DEF ActSecond, TypeOK
      <3>2. pc' \in {"choose", "dead"}
        BY <3>1, SwitchEffect, AttackEffect DEF Act
      <3> QED
        BY <3>2 DEF SwitchSound, toAct
    <2>4. CASE UNCHANGED vars
      BY <2>4 DEF vars, SwitchSound, toAct
    <2> QED
      BY <2>1, <2>2, <2>3, <2>4 DEF Next, Dead
  <1> QED
    BY <1>1, <1>2, TypeCorrect, PTL DEF Spec

(* The one who acts first does not attack someone who is about to switch.    *)
InOrder ==
    pc = "first" /\ isSwitch(userMove[Other(first)]) => isSwitch(userMove[first])

LEMMA OrderKept == Spec => []InOrder
  <1>1. Init => InOrder
    BY DEF Init, InOrder
  <1>2. TypeOK /\ InOrder /\ [Next]_vars => InOrder'
    <2> SUFFICES ASSUME TypeOK, InOrder, [Next]_vars PROVE InOrder'
      OBVIOUS
    <2>1. CASE Choose
      <3>1. goesFirst(userMove', first') /\ first' \in {"player", "opponent"}
        BY <2>1 DEF Choose, Sides
      <3> QED
        BY <3>1 DEF InOrder, goesFirst, Other
    <2>2. CASE ActFirst \/ ActSecond
      <3>1. pc' # "first"
        BY <2>2, OtherSide, SwitchEffect, AttackEffect
        DEF ActFirst, ActSecond, Act, TypeOK
      <3> QED
        BY <3>1 DEF InOrder
    <2>3. CASE UNCHANGED vars
      BY <2>3 DEF vars, InOrder
    <2> QED
      BY <2>1, <2>2, <2>3 DEF Next, Dead
  <1> QED
    BY <1>1, <1>2, TypeCorrect, PTL DEF Spec

(* An attack hits the Pokemon that is out once all switches are done.        *)
THEOREM AttacksHitWhoIsOut == Spec => HitsOnlyWhoIsOut
  <1>1. TypeOK /\ InOrder /\ [Next]_vars => [HitsWhoIsOut]_vars
    <2> SUFFICES ASSUME TypeOK, InOrder, Next PROVE HitsWhoIsOut
      OBVIOUS
    <2>1. SUFFICES ASSUME NEW s \in Sides, NEW i \in Slots, team'[s][i].hp # team[s][i].hp
                   PROVE  /\ isActivePokemon(team[s], i)
                          /\ ~(toAct(s) /\ isSwitch(userMove[s]))
      BY DEF HitsWhoIsOut
    <2>2. ~UNCHANGED team
      BY <2>1
    <2>3. PICK a \in Sides : /\ Act(a)
                             /\ \/ pc = "first" /\ a = first
                                \/ pc = "second" /\ a = Other(first)
      BY <2>2, OtherSide DEF Next, Choose, Dead, ActFirst, ActSecond, TypeOK, vars
    <2>4. ~Switch(a)
      BY <2>1, SwitchEffect
    <2>5. PICK k \in Slots, j \in Slots : Attack(a, k, j)
      BY <2>3, <2>4 DEF Act
    <2>6. s = Other(a) /\ i = j
      BY <2>1, <2>5, AttackEffect
    <2>7. isActivePokemon(team[s], i) /\ ~isSwitch(userMove[a])
      BY <2>5, <2>6, AttackEffect
    <2>8. CASE pc = "first"
      BY <2>3, <2>6, <2>7, <2>8 DEF InOrder
    <2>9. CASE pc = "second"
      <3>1. s = first
        BY <2>3, <2>6, <2>9, OtherSide DEF TypeOK, Sides, Other
      <3> QED
        BY <2>7, <2>9, <3>1 DEF toAct
    <2> QED
      BY <2>3, <2>7, <2>8, <2>9
  <1> QED
    BY <1>1, TypeCorrect, OrderKept, PTL DEF Spec, HitsOnlyWhoIsOut
=============================================================================
