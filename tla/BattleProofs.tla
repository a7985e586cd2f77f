----------------------------- MODULE BattleProofs -----------------------------
(***************************************************************************)
(* Proofs about Battle: types, that a faint can always be answered with a  *)
(* switch, that turns start with healthy Pokemon, that player 1's count is *)
(* exact, and that the battle is a Duel, for every team size, speed table, *)
(* set of damages and turn at which MCTS comes back.                       *)
(***************************************************************************)
EXTENDS Battle, FiniteSetTheorems, TLAPS

-----------------------------------------------------------------------------
(* The inductive invariant *)

Decided == \E p \in Players : hasLost[p]

(* The turn may have hurt p's Pokemon and p's faint check is still to come. *)
Unchecked(p) == pc \in {"act2", "check0"} \/ (pc = "check1" /\ p = 1)

(* The faint that p's count does not have yet. *)
Uncounted(p) == IF Unchecked(p) /\ out(p).fainted THEN 1 ELSE 0

LostAtZero ==
    /\ \A p \in Players : hasLost[p] <=> numAlive[p] = 0
    /\ pc \notin {"end", "over"} => ~Decided

Healthy == ~Decided => \A p \in Players : ~Unchecked(p) => ~out(p).fainted

CountBounded ==
    ~Decided => \A p \in Players :
        numAlive[p] <= Cardinality(Standing(p)) + Uncounted(p)

(* An attack's position is the Pokemon out on both sides of it: the attacker *)
(* hits with it, and is hit there.                                           *)
Aimed ==
    /\ pc = "choose1" /\ ~curMove[0].isSwitch => curMove[0].teamPos = currentOut[0]
    /\ pc \in {"order", "act1", "act2"} =>
          \A p \in Players : ~curMove[p].isSwitch => curMove[p].teamPos = currentOut[p]
    /\ pc = "act2" => curMove[first].teamPos = currentOut[first]

(* Switches go before attacks, so who switches second has not been hit. *)
SwitchesFirst ==
    /\ pc \in {"act1", "act2"} /\ curMove[1 - first].isSwitch => curMove[first].isSwitch
    /\ pc = "act2" /\ curMove[1 - first].isSwitch => ~out(1 - first).fainted

(* Player 1 only attacks, so its count differs from the number standing only *)
(* between a faint and its check.                                            *)
AttackerExact ==
    /\ moveFunc[1] = "randomAttack"
    /\ pc \in {"order", "act1", "act2"} => ~curMove[1].isSwitch
    /\ pc = "act2" /\ first = 1 => ~out(1).fainted
    /\ ~Decided => numAlive[1] = Cardinality(Standing(1)) + Uncounted(1)
    /\ hasLost[1] => Standing(1) = {}

IInv ==
    /\ TypeOK /\ LostAtZero /\ Healthy /\ CountBounded /\ Aimed /\ SwitchesFirst
    /\ AttackerExact

-----------------------------------------------------------------------------
(* Sets of slots *)

(* A set of slots is finite, is empty when its cardinality is 0, and loses   *)
(* one when a slot that faints leaves it.                                    *)
LEMMA SlotSets ==
    ASSUME NEW S \in SUBSET Slots
    PROVE  /\ Cardinality(S) \in Nat
           /\ Cardinality(S) = 0 <=> S = {}
           /\ \A k \in S : Cardinality(S \ {k}) = Cardinality(S) - 1
<1>1. IsFiniteSet(Slots)
  BY FS_Interval, BattleAssumption DEF Slots
<1>2. IsFiniteSet(S)
  BY <1>1, FS_Subset
<1> QED
  BY <1>2, FS_CardinalityType, FS_EmptySet, FS_RemoveElement

(* Every player starts with all the slots standing. *)
LEMMA AllSlots == Cardinality(Slots) = TeamSize
  BY FS_Interval, BattleAssumption DEF Slots

-----------------------------------------------------------------------------
(* The invariant holds initially and is kept *)

(* The battle starts with everybody standing, healthy and counted.          *)
LEMMA InitIInv == Init => IInv
<1> SUFFICES ASSUME Init PROVE IInv
  OBVIOUS
<1> USE BattleAssumption DEF Init
<1>1. TypeOK
  BY DEF TypeOK, Players, Slots, Move, MoveFuncs, Steps
<1>2. \A p \in Players : Standing(p) = Slots /\ Uncounted(p) = 0
  BY DEF Standing, Players, Slots, Uncounted, Unchecked
<1>3. CountBounded /\ AttackerExact
  BY <1>2, AllSlots DEF CountBounded, AttackerExact, Players
<1>4. LostAtZero /\ Healthy
  BY DEF LostAtZero, Healthy, Decided, Players, Slots, out
<1>5. Aimed /\ SwitchesFirst
  BY DEF Aimed, SwitchesFirst, Players
<1> QED
  BY <1>1, <1>3, <1>4, <1>5 DEF IInv

(* Both moves are chosen without touching a team: what the players face is   *)
(* as it was.                                                                *)
LEMMA ChosenKeeps ==
    ASSUME IInv, UNCHANGED <<team, currentOut, numAlive, hasLost>>,
           pc \in {"choose0", "choose1", "order"},
           pc' \in {"choose1", "order", "act1"}
    PROVE  LostAtZero' /\ Healthy' /\ CountBounded'
<1>1. \A p \in Players : Standing(p)' = Standing(p) /\ out(p)' = out(p)
  BY DEF Standing, out
<1>2. \A p \in Players : ~Unchecked(p) /\ ~Unchecked(p)'
  BY DEF Unchecked
<1>3. \A p \in Players : Uncounted(p) = 0 /\ Uncounted(p)' = 0
  BY <1>2 DEF Uncounted
<1>4. Decided' <=> Decided
  BY DEF Decided
<1>5. LostAtZero'
  BY <1>4 DEF IInv, LostAtZero
<1>6. Healthy'
  BY <1>1, <1>2, <1>4 DEF IInv, Healthy
<1>7. CountBounded'
  BY <1>1, <1>3, <1>4 DEF IInv, CountBounded
<1> QED
  BY <1>5, <1>6, <1>7

(* A chosen move is well formed; an attack names the Pokemon out, and random *)
(* play chooses only attacks.                                                *)
LEMMA MovesTyped ==
    ASSUME TypeOK, NEW p \in Players, NEW m \in movesOf(p)
    PROVE  /\ m \in Move
           /\ ~m.isSwitch => m.teamPos = currentOut[p]
           /\ moveFunc[p] = "randomAttack" => ~m.isSwitch
<1>1. currentOut[p] \in Slots
  BY DEF TypeOK
<1>2. CASE m = Attack(p)
  BY <1>1, <1>2 DEF Attack, Move
<1>3. CASE moveFunc[p] = "MCTS" /\ m \in {[isSwitch |-> TRUE, teamPos |-> k] : k \in Slots}
  <2>1. PICK k \in Slots : m = [isSwitch |-> TRUE, teamPos |-> k]
    BY <1>3
  <2> QED
    BY <1>3, <2>1 DEF Move
<1> QED
  BY <1>2, <1>3 DEF movesOf

(* Player 0's choice, in the battle or in a rollout, keeps the invariant.    *)
LEMMA Choose0IInv ==
    ASSUME IInv, Choose0 \/ Rollout
    PROVE  IInv'
<1> USE DEF IInv
<1>1. /\ UNCHANGED <<team, currentOut, numAlive, hasLost, turn, first>>
      /\ pc = "choose0" /\ pc' = "choose1"
      /\ inLoop' \in {inLoop, FALSE}
  BY DEF Choose0, Rollout
<1>2. PICK m \in movesOf(0) : curMove' = [curMove EXCEPT ![0] = m]
  BY DEF Choose0, Rollout
<1>3. /\ moveFunc' \in [Players -> MoveFuncs]
      /\ moveFunc'[1] = "randomAttack"
  BY DEF Choose0, Rollout, TypeOK, AttackerExact, Players, MoveFuncs
<1>4. m \in Move /\ (~m.isSwitch => m.teamPos = currentOut[0])
  BY MovesTyped DEF Players
<1>5. LostAtZero' /\ Healthy' /\ CountBounded'
  BY <1>1, ChosenKeeps
<1>6. TypeOK'
  BY <1>1, <1>2, <1>3, <1>4 DEF TypeOK, Steps
<1>7. Aimed' /\ SwitchesFirst'
  BY <1>1, <1>2, <1>4 DEF Aimed, SwitchesFirst, TypeOK, Players
<1>8. AttackerExact'
  <2>1. Standing(1)' = Standing(1) /\ Uncounted(1)' = Uncounted(1) /\ Decided' = Decided
    BY <1>1 DEF Standing, Uncounted, Unchecked, Decided
  <2> QED
    BY <1>1, <1>3, <2>1 DEF AttackerExact
<1> QED
  BY <1>5, <1>6, <1>7, <1>8

(* Player 1's choice, always an attack, keeps the invariant.                 *)
LEMMA Choose1IInv ==
    ASSUME IInv, Choose1
    PROVE  IInv'
<1> USE DEF IInv
<1>1. /\ UNCHANGED <<team, currentOut, numAlive, hasLost, moveFunc, turn, inLoop, first>>
      /\ pc = "choose1" /\ pc' = "order"
  BY DEF Choose1
<1>2. PICK m \in movesOf(1) : curMove' = [curMove EXCEPT ![1] = m]
  BY DEF Choose1
<1>3. /\ m \in Move
      /\ ~m.isSwitch => m.teamPos = currentOut[1]
      /\ ~m.isSwitch
  BY MovesTyped DEF Players, AttackerExact
<1>4. LostAtZero' /\ Healthy' /\ CountBounded'
  BY <1>1, ChosenKeeps
<1>5. TypeOK'
  BY <1>1, <1>2, <1>3 DEF TypeOK, Steps
<1>6. Aimed' /\ SwitchesFirst'
  BY <1>1, <1>2, <1>3 DEF Aimed, SwitchesFirst, TypeOK, Players
<1>7. AttackerExact'
  <2>1. Standing(1)' = Standing(1) /\ Uncounted(1)' = Uncounted(1) /\ Decided' = Decided
    BY <1>1 DEF Standing, Uncounted, Unchecked, Decided
  <2>2. ~curMove'[1].isSwitch
    BY <1>2, <1>3 DEF TypeOK, Players
  <2> QED
    BY <1>1, <2>1, <2>2 DEF AttackerExact
<1> QED
  BY <1>4, <1>5, <1>6, <1>7

(* Ordering the moves puts a switch before an attack.                       *)
LEMMA OrderIInv ==
    ASSUME IInv, Order
    PROVE  IInv'
<1> USE DEF IInv
<1>1. /\ UNCHANGED <<team, currentOut, curMove, numAlive, hasLost, moveFunc, turn, inLoop>>
      /\ pc = "order" /\ pc' = "act1"
  BY DEF Order
<1>2. /\ first' \in Players
      /\ curMove[1 - first'].isSwitch => curMove[first'].isSwitch
  BY DEF Order, firstMovers, Players
<1>3. LostAtZero' /\ Healthy' /\ CountBounded'
  BY <1>1, ChosenKeeps
<1>4. TypeOK'
  BY <1>1, <1>2 DEF TypeOK, Steps
<1>5. Aimed' /\ SwitchesFirst'
  BY <1>1, <1>2 DEF Aimed, SwitchesFirst
<1>6. AttackerExact'
  <2>1. Standing(1)' = Standing(1) /\ Uncounted(1)' = Uncounted(1) /\ Decided' = Decided
    BY <1>1 DEF Standing, Uncounted, Unchecked, Decided
  <2> QED
    BY <1>1, <2>1 DEF AttackerExact
<1> QED
  BY <1>3, <1>4, <1>5, <1>6

-----------------------------------------------------------------------------
(* The two actions of a turn *)

(* What a hit does to the sets of Pokemon standing: the one out on the other *)
(* side may leave its set.                                                   *)
LEMMA HitStands ==
    ASSUME TypeOK, NEW i \in Players, Hit(i),
           curMove[1 - i].teamPos = currentOut[1 - i]
    PROVE  /\ team' \in [Players -> [Slots -> [hp : Int, fainted : BOOLEAN]]]
           /\ UNCHANGED currentOut
           /\ out(i)' = out(i) /\ Standing(i)' = Standing(i)
           /\ out(1 - i).fainted => out(1 - i)'.fainted
           /\ Standing(1 - i)' =
                 IF out(1 - i)'.fainted THEN Standing(1 - i) \ {currentOut[1 - i]}
                                        ELSE Standing(1 - i)
<1> DEFINE q == 1 - i
           k == curMove[q].teamPos
<1>1. q \in Players /\ q # i /\ k \in Slots
  BY DEF TypeOK, Move, Players
<1>2. PICK d \in Damages :
        team' = [team EXCEPT ![q][k] =
                    [hp |-> team[q][k].hp - d,
                     fainted |-> @.fainted \/ team[q][k].hp - d <= 0]]
  BY DEF Hit
<1>3. team[q][k] \in [hp : Int, fainted : BOOLEAN] /\ d \in Int
  BY <1>1, BattleAssumption DEF TypeOK
<1>4. team' \in [Players -> [Slots -> [hp : Int, fainted : BOOLEAN]]]
  BY <1>1, <1>2, <1>3 DEF TypeOK
<1>5. /\ team'[i] = team[i]
      /\ \A j \in Slots \ {k} : team'[q][j] = team[q][j]
      /\ team[q][k].fainted => team'[q][k].fainted
  BY <1>1, <1>2, <1>3 DEF TypeOK
<1>6. UNCHANGED currentOut
  BY DEF Hit
<1>7. out(i)' = out(i) /\ Standing(i)' = Standing(i)
  BY <1>5, <1>6 DEF out, Standing
<1>8. out(q)' = team'[q][k] /\ out(q) = team[q][k]
  BY <1>6 DEF out
<1>9. Standing(q)' = IF team'[q][k].fainted THEN Standing(q) \ {k} ELSE Standing(q)
  BY <1>1, <1>5 DEF Standing
<1> HIDE DEF q, k
<1>10. /\ out(q).fainted => out(q)'.fainted
       /\ Standing(q)' = IF out(q)'.fainted THEN Standing(q) \ {currentOut[q]}
                                            ELSE Standing(q)
  BY <1>5, <1>8, <1>9 DEF q, k
<1> QED
  BY <1>4, <1>6, <1>7, <1>10 DEF q

(* A player's Pokemon standing, with one more when the one out is fainted.   *)
Load(p) == Cardinality(Standing(p)) + (IF out(p).fainted THEN 1 ELSE 0)

(* What the action of player i does: the load of nobody falls, and that of a *)
(* player who attacks and is not already hit keeps.                          *)
LEMMA ActLoads ==
    ASSUME TypeOK, NEW i \in Players, Act(i),
           ~curMove[i].isSwitch => curMove[1 - i].teamPos = currentOut[1 - i],
           curMove[i].isSwitch => ~out(i).fainted
    PROVE  /\ team' \in [Players -> [Slots -> [hp : Int, fainted : BOOLEAN]]]
           /\ currentOut' \in [Players -> Slots]
           /\ ~curMove[i].isSwitch => currentOut' = currentOut /\ out(i)' = out(i)
           /\ curMove[i].isSwitch =>
                 /\ currentOut'[i] = curMove[i].teamPos
                 /\ currentOut'[1 - i] = currentOut[1 - i]
                 /\ out(1 - i)' = out(1 - i)
           /\ \A p \in Players : /\ Load(p)' \in Nat /\ Load(p) \in Nat
                                 /\ Load(p)' >= Load(p)
           /\ \A p \in Players :
                 ~curMove[p].isSwitch /\ (p = i \/ ~out(p).fainted) => Load(p)' = Load(p)
<1>1. 1 - i \in Players /\ 1 - i # i /\ \A p \in Players : p = i \/ p = 1 - i
  BY DEF Players
<1>2. \A p \in Players : Standing(p) \in SUBSET Slots /\ Standing(p)' \in SUBSET Slots
  BY DEF Standing
<1>3. \A p \in Players : /\ Cardinality(Standing(p)) \in Nat
                         /\ Cardinality(Standing(p)') \in Nat
  BY <1>2, SlotSets
<1>4. \A p \in Players : Cardinality(Standing(p))' = Cardinality(Standing(p)')
  OBVIOUS
<1>5. \A p \in Players : Load(p)' \in Nat /\ Load(p) \in Nat
  BY <1>3, <1>4 DEF Load
<1>6. CASE SwitchIn(i)
  <2>1. /\ curMove[i].isSwitch /\ team' = team
        /\ currentOut' = [currentOut EXCEPT ![i] = curMove[i].teamPos]
    BY <1>6 DEF SwitchIn
  <2>2. curMove[i].teamPos \in Slots
    BY DEF TypeOK, Move
  <2>3. /\ currentOut' \in [Players -> Slots]
        /\ currentOut'[i] = curMove[i].teamPos
        /\ currentOut'[1 - i] = currentOut[1 - i]
    BY <1>1, <2>1, <2>2 DEF TypeOK
  <2>4. \A p \in Players : Standing(p)' = Standing(p)
    BY <2>1 DEF Standing
  <2>5. out(1 - i)' = out(1 - i)
    BY <2>1, <2>3 DEF out
  <2>6. Load(1 - i)' = Load(1 - i) /\ Load(i)' >= Load(i)
    BY <1>1, <1>3, <2>1, <2>4, <2>5 DEF Load
  <2>7. team' \in [Players -> [Slots -> [hp : Int, fainted : BOOLEAN]]]
    BY <2>1 DEF TypeOK
  <2>8. \A p \in Players : /\ Load(p)' >= Load(p)
                           /\ ~curMove[p].isSwitch => Load(p)' = Load(p)
    BY <1>1, <1>5, <2>1, <2>6
  <2> QED
    BY <1>5, <2>1, <2>3, <2>5, <2>7, <2>8
<1>7. CASE Hit(i)
  <2>1. ~curMove[i].isSwitch
    BY <1>7 DEF Hit
  <2> DEFINE q == 1 - i
  <2>2. /\ team' \in [Players -> [Slots -> [hp : Int, fainted : BOOLEAN]]]
        /\ currentOut' = currentOut
        /\ out(i)' = out(i) /\ Standing(i)' = Standing(i)
        /\ out(q).fainted => out(q)'.fainted
        /\ Standing(q)' = IF out(q)'.fainted THEN Standing(q) \ {currentOut[q]}
                                             ELSE Standing(q)
    BY <1>7, <2>1, HitStands
  <2>3. Load(i)' = Load(i)
    BY <2>2 DEF Load
  <2>4. /\ currentOut[q] \in Slots
        /\ currentOut[q] \in Standing(q) <=> ~out(q).fainted
    BY <1>1 DEF TypeOK, Standing, out
  <2>5. Load(q)' >= Load(q) /\ (~out(q).fainted => Load(q)' = Load(q))
    <3>1. CASE out(q)'.fainted /\ ~out(q).fainted
      <4>1. Cardinality(Standing(q)') = Cardinality(Standing(q)) - 1
        <5>1. Standing(q)' = Standing(q) \ {currentOut[q]} /\ currentOut[q] \in Standing(q)
          BY <2>2, <2>4, <3>1
        <5>2. Standing(q) \in SUBSET Slots
          BY DEF Standing
        <5> QED
          BY <5>1, <5>2, SlotSets
      <4> QED
        BY <1>1, <1>3, <1>4, <3>1, <4>1 DEF Load
    <3>2. CASE out(q)'.fainted /\ out(q).fainted
      <4>1. Standing(q)' = Standing(q)
        BY <2>2, <2>4, <3>2
      <4> QED
        BY <1>1, <1>5, <3>2, <4>1 DEF Load
    <3>3. CASE ~out(q)'.fainted
      <4>1. Standing(q)' = Standing(q) /\ ~out(q).fainted
        BY <2>2, <3>3
      <4> QED
        BY <1>1, <1>5, <3>3, <4>1 DEF Load
    <3> QED
      BY <3>1, <3>2, <3>3
  <2>6. currentOut' \in [Players -> Slots]
    BY <2>2 DEF TypeOK
  <2>7. \A p \in Players : /\ Load(p)' >= Load(p)
                           /\ p = i \/ ~out(p).fainted => Load(p)' = Load(p)
    BY <1>1, <1>5, <2>3, <2>5
  <2> QED
    BY <1>5, <2>1, <2>2, <2>6, <2>7
<1>8. CASE CannotAttack(i)
  <2>1. ~curMove[i].isSwitch /\ team' = team /\ currentOut' = currentOut
    BY <1>8 DEF CannotAttack
  <2>2. \A p \in Players : Standing(p)' = Standing(p) /\ out(p)' = out(p)
    BY <2>1 DEF Standing, out
  <2>3. \A p \in Players : Load(p)' = Load(p)
    BY <2>2 DEF Load
  <2>4. team' \in [Players -> [Slots -> [hp : Int, fainted : BOOLEAN]]]
    BY <2>1 DEF TypeOK
  <2>5. currentOut' \in [Players -> Slots]
    BY <2>1 DEF TypeOK
  <2> QED
    BY <1>5, <2>1, <2>2, <2>3, <2>4, <2>5
<1> QED
  BY <1>6, <1>7, <1>8 DEF Act

(* Before a player has acted everybody is healthy, and so the count is at    *)
(* most the load; after both have, the load is what the checks are to count. *)
LEMMA ActFirstIInv ==
    ASSUME IInv, ActFirst
    PROVE  IInv'
<1> USE DEF IInv
<1>0. PICK i \in Players : i = first
  BY DEF TypeOK
<1>1. /\ UNCHANGED <<curMove, numAlive, hasLost, moveFunc, turn, inLoop, first>>
      /\ Act(i)
      /\ pc = "act1" /\ pc' = "act2"
  BY <1>0 DEF ActFirst, Act
<1>2. 1 - i \in Players /\ 1 - i # i
  BY DEF Players
<1>3. ~Decided /\ ~Decided'
  BY <1>1 DEF LostAtZero, Decided
<1>4. \A p \in Players : ~Unchecked(p) /\ Unchecked(p)' /\ ~out(p).fainted
  BY <1>1, <1>3 DEF Unchecked, Healthy
<1>5. \A p \in Players : /\ Cardinality(Standing(p)) + Uncounted(p) = Load(p)
                         /\ (Cardinality(Standing(p)) + Uncounted(p))' = Load(p)'
  BY <1>4 DEF Uncounted, Load
<1>6. ~curMove[i].isSwitch => curMove[1 - i].teamPos = currentOut[1 - i]
  BY <1>0, <1>1, <1>2 DEF Aimed, SwitchesFirst
<1>7. /\ team' \in [Players -> [Slots -> [hp : Int, fainted : BOOLEAN]]]
      /\ currentOut' \in [Players -> Slots]
      /\ ~curMove[i].isSwitch => currentOut' = currentOut /\ out(i)' = out(i)
      /\ curMove[i].isSwitch =>
            /\ currentOut'[i] = curMove[i].teamPos
            /\ currentOut'[1 - i] = currentOut[1 - i]
            /\ out(1 - i)' = out(1 - i)
      /\ \A p \in Players : /\ Load(p)' \in Nat /\ Load(p) \in Nat
                            /\ Load(p)' >= Load(p)
      /\ \A p \in Players : ~curMove[p].isSwitch => Load(p)' = Load(p)
  BY <1>1, <1>2, <1>4, <1>6, ActLoads
<1>8. TypeOK'
  BY <1>1, <1>7 DEF TypeOK, Steps
<1>9. LostAtZero' /\ Healthy'
  BY <1>1, <1>3, <1>4 DEF LostAtZero, Healthy
<1>10. CountBounded'
  <2>1. \A p \in Players : numAlive[p] <= Load(p) /\ numAlive[p] \in Int
    BY <1>3, <1>5 DEF CountBounded, TypeOK
  <2>2. \A p \in Players : numAlive'[p] <= Load(p)'
    BY <1>1, <1>7, <2>1
  <2> QED
    BY <1>5, <2>2 DEF CountBounded
<1>11. Aimed'
  <2>1. \A p \in Players : ~curMove[p].isSwitch => curMove[p].teamPos = currentOut'[p]
    BY <1>1, <1>2, <1>7 DEF Aimed, Players
  <2>2. curMove[i].teamPos = currentOut'[i]
    BY <1>2, <1>7, <2>1
  <2> QED
    BY <1>0, <1>1, <2>1, <2>2 DEF Aimed
<1>12. SwitchesFirst'
  <2>1. curMove[1 - i].isSwitch => curMove[i].isSwitch
    BY <1>0, <1>1 DEF SwitchesFirst
  <2>2. curMove[1 - i].isSwitch => ~out(1 - i)'.fainted
    BY <1>2, <1>4, <1>7, <2>1
  <2> QED
    BY <1>0, <1>1, <2>1, <2>2 DEF SwitchesFirst, out
<1>13. AttackerExact'
  <2>1. 1 \in Players /\ ~curMove[1].isSwitch /\ moveFunc[1] = "randomAttack"
    BY <1>1 DEF AttackerExact, Players
  <2>2. numAlive'[1] = Load(1)'
    BY <1>1, <1>3, <1>5, <1>7, <2>1 DEF AttackerExact
  <2>3. i = 1 => ~out(1)'.fainted
    BY <1>2, <1>4, <1>7, <2>1
  <2>4. ~hasLost'[1]
    BY <1>3, <2>1 DEF Decided
  <2> QED
    BY <1>0, <1>1, <1>5, <2>1, <2>2, <2>3, <2>4 DEF AttackerExact
<1> QED
  BY <1>8, <1>9, <1>10, <1>11, <1>12, <1>13

(* The second action finds the load the first has left, and keeps the bound.*)
LEMMA ActSecondIInv ==
    ASSUME IInv, ActSecond
    PROVE  IInv'
<1> USE DEF IInv
<1>0. PICK i \in Players : i = 1 - first
  BY DEF TypeOK, Players
<1>1. /\ UNCHANGED <<curMove, numAlive, hasLost, moveFunc, turn, inLoop, first>>
      /\ Act(i)
      /\ pc = "act2" /\ pc' = "check0"
  BY <1>0 DEF ActSecond, Act
<1>2. 1 - i = first /\ first \in Players
  BY <1>0 DEF TypeOK, Players
<1>3. ~Decided /\ ~Decided'
  BY <1>1 DEF LostAtZero, Decided
<1>4. \A p \in Players : Unchecked(p) /\ Unchecked(p)'
  BY <1>1 DEF Unchecked
<1>5. \A p \in Players : /\ Cardinality(Standing(p)) + Uncounted(p) = Load(p)
                         /\ (Cardinality(Standing(p)) + Uncounted(p))' = Load(p)'
  BY <1>4 DEF Uncounted, Load
<1>6. /\ ~curMove[i].isSwitch => curMove[1 - i].teamPos = currentOut[1 - i]
      /\ curMove[i].isSwitch => ~out(i).fainted
  BY <1>0, <1>1, <1>2 DEF Aimed, SwitchesFirst
<1>7. /\ team' \in [Players -> [Slots -> [hp : Int, fainted : BOOLEAN]]]
      /\ currentOut' \in [Players -> Slots]
      /\ \A p \in Players : /\ Load(p)' \in Nat /\ Load(p) \in Nat
                            /\ Load(p)' >= Load(p)
      /\ \A p \in Players :
            ~curMove[p].isSwitch /\ (p = i \/ ~out(p).fainted) => Load(p)' = Load(p)
  BY <1>1, <1>2, <1>6, ActLoads
<1>8. TypeOK'
  BY <1>1, <1>7 DEF TypeOK, Steps
<1>9. LostAtZero' /\ Healthy' /\ Aimed' /\ SwitchesFirst'
  BY <1>1, <1>3, <1>4 DEF LostAtZero, Healthy, Aimed, SwitchesFirst
<1>10. CountBounded'
  <2>1. \A p \in Players : numAlive[p] <= Load(p) /\ numAlive[p] \in Int
    BY <1>3, <1>5 DEF CountBounded, TypeOK
  <2>2. \A p \in Players : numAlive'[p] <= Load(p)'
    BY <1>1, <1>7, <2>1
  <2> QED
    BY <1>5, <2>2 DEF CountBounded
<1>11. AttackerExact'
  <2>1. 1 \in Players /\ ~curMove[1].isSwitch /\ moveFunc[1] = "randomAttack"
    BY <1>1 DEF AttackerExact, Players
  <2>2. i = 1 \/ ~out(1).fainted
    BY <1>0, <1>1, <1>2 DEF AttackerExact, Players
  <2>3. numAlive'[1] = Load(1)'
    BY <1>1, <1>3, <1>5, <1>7, <2>1, <2>2 DEF AttackerExact
  <2>4. ~hasLost'[1]
    BY <1>3, <2>1 DEF Decided
  <2> QED
    BY <1>1, <1>5, <2>1, <2>3, <2>4 DEF AttackerExact
<1> QED
  BY <1>8, <1>9, <1>10, <1>11

-----------------------------------------------------------------------------
(* The faint checks and the end of the turn *)

(* The check of a player: nothing to do, the battle lost, or a replacement.  *)
LEMMA CheckIInv ==
    ASSUME IInv, NEW i \in Players, NEW next,
           pc = (IF i = 0 THEN "check0" ELSE "check1"),
           next = (IF i = 0 THEN "check1" ELSE "end"),
           Check(i, next), UNCHANGED <<team, moveFunc, turn, inLoop, first>>
    PROVE  IInv'
<1> USE DEF IInv
<1>1. ~Decided /\ pc \in {"check0", "check1"} /\ next \in {"check1", "end"}
  BY DEF LostAtZero
<1>2. \A p \in Players : /\ numAlive[p] \in 1..TeamSize
                         /\ Standing(p)' = Standing(p)
                         /\ Cardinality(Standing(p)) \in Nat
                         /\ Cardinality(Standing(p)) = 0 => Standing(p) = {}
  <2>1. \A p \in Players : numAlive[p] \in 1..TeamSize
    BY <1>1, BattleAssumption DEF LostAtZero, Decided, TypeOK
  <2>2. \A p \in Players : Standing(p) \in SUBSET Slots /\ Standing(p)' = Standing(p)
    BY DEF Standing
  <2> QED
    BY <2>1, <2>2, SlotSets
<1>3. Unchecked(i)
  BY DEF Unchecked, Players
<1>4. \A p \in Players : p = i \/ p = 1 - i
  BY DEF Players
<1>5. CASE pc' = next /\ hasLost' = hasLost /\ ~out(i)'.fainted
           /\ currentOut'[1 - i] = currentOut[1 - i]
           /\ numAlive'[1 - i] = numAlive[1 - i]
           /\ numAlive'[i] = numAlive[i] - Uncounted(i)
           /\ numAlive'[i] # 0
           /\ TypeOK'
  <2>1. ~Decided'
    BY <1>1, <1>5 DEF Decided
  <2>2. /\ ~Unchecked(i)' /\ Uncounted(i)' = 0
        /\ Unchecked(1 - i)' = Unchecked(1 - i)
    BY <1>5 DEF Unchecked, Players, Uncounted
  <2>3. out(1 - i)' = out(1 - i) /\ Uncounted(1 - i)' = Uncounted(1 - i)
    BY <1>5, <2>2 DEF out, Uncounted
  <2>4. LostAtZero'
    BY <1>1, <1>2, <1>4, <1>5, <2>1 DEF LostAtZero, Decided
  <2>5. Healthy'
    BY <1>1, <1>4, <1>5, <2>2, <2>3 DEF Healthy
  <2>6. \A p \in Players :
           Uncounted(p) \in {0, 1} /\ numAlive'[p] = numAlive[p] - Uncounted(p) + Uncounted(p)'
    <3>1. \A p \in Players : Uncounted(p) \in {0, 1} /\ numAlive[p] \in Int
      BY <1>2 DEF Uncounted
    <3> QED
      BY <1>4, <1>5, <2>2, <2>3, <3>1
  <2>7. CountBounded'
    BY <1>1, <1>2, <2>2, <2>3, <2>6, <1>4 DEF CountBounded
  <2>8. Aimed' /\ SwitchesFirst'
    BY <1>1, <1>5 DEF Aimed, SwitchesFirst
  <2>9. AttackerExact'
    <3>1. 1 \in Players
      BY DEF Players
    <3>2. numAlive'[1] = Cardinality(Standing(1)) + Uncounted(1)'
      BY <1>1, <1>2, <2>6, <2>2, <2>3, <1>4, <3>1 DEF AttackerExact
    <3> QED
      BY <1>1, <1>2, <1>5, <2>1, <3>1, <3>2 DEF AttackerExact, Decided
  <2> QED
    BY <1>5, <2>4, <2>5, <2>7, <2>8, <2>9
<1>6. CASE ~out(i).fainted /\ pc' = next
           /\ UNCHANGED <<currentOut, curMove, numAlive, hasLost>>
  <2>1. Uncounted(i) = 0 /\ out(i)' = out(i)
    BY <1>6 DEF Uncounted, out
  <2>2. TypeOK'
    BY <1>1, <1>6 DEF TypeOK, Steps
  <2> QED
    BY <1>2, <1>5, <1>6, <2>1, <2>2
<1>7. CASE /\ out(i).fainted /\ numAlive[i] # 1
           /\ numAlive' = [numAlive EXCEPT ![i] = @ - 1]
           /\ makeSwitchOnFaint(i) /\ pc' = next /\ UNCHANGED hasLost
  <2>1. PICK k \in Slots :
           /\ ~team[i][k].fainted
           /\ curMove' = [curMove EXCEPT ![i] = [isSwitch |-> TRUE, teamPos |-> k]]
           /\ currentOut' = [currentOut EXCEPT ![i] = k]
    BY <1>7 DEF makeSwitchOnFaint
  <2>2. 1 - i \in Players /\ 1 - i # i
    BY DEF Players
  <2>3. /\ numAlive'[i] = numAlive[i] - 1 /\ numAlive'[1 - i] = numAlive[1 - i]
        /\ numAlive' \in [Players -> 0..TeamSize] /\ numAlive'[i] # 0
    BY <1>2, <1>7, <2>2, BattleAssumption DEF TypeOK
  <2>4. /\ currentOut' \in [Players -> Slots]
        /\ currentOut'[i] = k /\ currentOut'[1 - i] = currentOut[1 - i]
    BY <2>1, <2>2 DEF TypeOK
  <2>5. curMove' \in [Players -> Move]
    BY <2>1 DEF TypeOK, Move
  <2>6. TypeOK'
    BY <1>1, <1>7, <2>3, <2>4, <2>5 DEF TypeOK, Steps
  <2>7. ~out(i)'.fainted
    BY <2>1, <2>4 DEF out
  <2>8. Uncounted(i) = 1
    BY <1>3, <1>7 DEF Uncounted
  <2> QED
    BY <1>5, <1>7, <2>3, <2>4, <2>6, <2>7, <2>8
<1>8. CASE /\ out(i).fainted /\ numAlive[i] = 1
           /\ numAlive' = [numAlive EXCEPT ![i] = @ - 1]
           /\ hasLost' = [hasLost EXCEPT ![i] = TRUE]
           /\ pc' = "end" /\ UNCHANGED <<currentOut, curMove>>
  <2>1. 1 - i \in Players /\ 1 - i # i
    BY DEF Players
  <2>2. /\ numAlive' \in [Players -> 0..TeamSize]
        /\ numAlive'[i] = 0 /\ numAlive'[1 - i] = numAlive[1 - i]
    BY <1>8, <2>1, BattleAssumption DEF TypeOK
  <2>3. /\ hasLost' \in [Players -> BOOLEAN]
        /\ hasLost'[i] /\ hasLost'[1 - i] = hasLost[1 - i]
    BY <1>8, <2>1 DEF TypeOK
  <2>4. Decided' /\ ~hasLost[1 - i]
    BY <1>1, <2>1, <2>3 DEF Decided
  <2>5. TypeOK'
    BY <1>8, <2>2, <2>3 DEF TypeOK, Steps
  <2>6. LostAtZero'
    BY <1>2, <1>4, <1>8, <2>1, <2>2, <2>3, <2>4 DEF LostAtZero
  <2>7. Healthy' /\ CountBounded' /\ Aimed' /\ SwitchesFirst'
    BY <1>8, <2>4 DEF Healthy, CountBounded, Aimed, SwitchesFirst
  <2>8. AttackerExact'
    <3>1. hasLost'[1] => i = 1
      BY <1>4, <2>3, <2>4 DEF Players
    <3>2. i = 1 => Standing(1) = {}
      BY <1>1, <1>2, <1>3, <1>8 DEF AttackerExact, Uncounted
    <3> QED
      BY <1>2, <1>8, <2>4, <3>1, <3>2 DEF AttackerExact, Players
  <2> QED
    BY <2>5, <2>6, <2>7, <2>8
<1> QED
  BY <1>6, <1>7, <1>8 DEF Check

(* The end of the turn hands the invariant on to the next one.              *)
LEMMA EndTurnIInv ==
    ASSUME IInv, EndTurn
    PROVE  IInv'
<1> USE DEF IInv
<1>1. /\ UNCHANGED <<team, currentOut, curMove, numAlive, hasLost, first>>
      /\ pc = "end" /\ pc' = IF Decided THEN "over" ELSE "choose0"
  BY DEF EndTurn, Decided
<1>2. Decided' = Decided
  BY <1>1 DEF Decided
<1>3. \A p \in Players :
         /\ Standing(p)' = Standing(p) /\ out(p)' = out(p)
         /\ ~Unchecked(p) /\ ~Unchecked(p)' /\ Uncounted(p) = 0 /\ Uncounted(p)' = 0
  BY <1>1 DEF Standing, out, Unchecked, Uncounted
<1>4. moveFunc' \in [Players -> MoveFuncs] /\ moveFunc'[1] = moveFunc[1]
  BY DEF EndTurn, TypeOK, Players, MoveFuncs
<1>5. turn' \in 0..(MCTSTurn + 1) /\ inLoop' \in BOOLEAN
  BY BattleAssumption DEF EndTurn, TypeOK
<1>6. TypeOK'
  BY <1>1, <1>4, <1>5 DEF TypeOK, Steps
<1>7. LostAtZero' /\ Healthy' /\ CountBounded'
  BY <1>1, <1>2, <1>3 DEF LostAtZero, Healthy, CountBounded
<1>8. Aimed' /\ SwitchesFirst'
  BY <1>1 DEF Aimed, SwitchesFirst
<1>9. AttackerExact'
  BY <1>1, <1>2, <1>3, <1>4 DEF AttackerExact, Players
<1> QED
  BY <1>6, <1>7, <1>8, <1>9

(* A step that changes no variable keeps the invariant. *)
LEMMA StutterIInv == IInv /\ UNCHANGED vars => IInv'
<1> SUFFICES ASSUME IInv, UNCHANGED vars PROVE IInv'
  OBVIOUS
<1>1. \A p \in Players : /\ Standing(p)' = Standing(p) /\ out(p)' = out(p)
                         /\ Uncounted(p)' = Uncounted(p) /\ Unchecked(p)' = Unchecked(p)
  BY DEF vars, Standing, out, Uncounted, Unchecked
<1>2. Decided' = Decided
  BY DEF vars, Decided
<1>3. TypeOK'
  BY DEF IInv, TypeOK, vars
<1>4. LostAtZero' /\ Healthy' /\ CountBounded'
  BY <1>1, <1>2 DEF IInv, LostAtZero, Healthy, CountBounded, vars
<1>5. Aimed' /\ SwitchesFirst' /\ AttackerExact'
  BY <1>1, <1>2 DEF IInv, Aimed, SwitchesFirst, AttackerExact, vars, Players, out
<1> QED
  BY <1>3, <1>4, <1>5 DEF IInv

(* Every step keeps the invariant: one case per action.                     *)
LEMMA NextIInv == IInv /\ [Next]_vars => IInv'
<1> SUFFICES ASSUME IInv, [Next]_vars PROVE IInv'
  OBVIOUS
<1>1. CASE Choose0 \/ Rollout
  BY <1>1, Choose0IInv
<1>2. CASE Choose1
  BY <1>2, Choose1IInv
<1>3. CASE Order
  BY <1>3, OrderIInv
<1>4. CASE ActFirst
  BY <1>4, ActFirstIInv
<1>5. CASE ActSecond
  BY <1>5, ActSecondIInv
<1>6. CASE Check0
  BY <1>6, CheckIInv DEF Check0, Players
<1>7. CASE Check1
  BY <1>7, CheckIInv DEF Check1, Players
<1>8. CASE EndTurn
  BY <1>8, EndTurnIInv
<1>9. CASE Over \/ UNCHANGED vars
  BY <1>9, StutterIInv DEF Over
<1> QED
  BY <1>1, <1>2, <1>3, <1>4, <1>5, <1>6, <1>7, <1>8, <1>9 DEF Next

(* The invariant holds in every state of every battle.                      *)
LEMMA Invariant == Spec => []IInv
  BY InitIInv, NextIInv, PTL DEF Spec

-----------------------------------------------------------------------------
(* Theorems *)

(* Every variable of the battle keeps to its type: no count of Pokemon left  *)
(* goes below zero and no player position leaves the team.                   *)
THEOREM TypeCorrect == Spec => []TypeOK
  BY Invariant, PTL DEF IInv

(* The loop of makeSwitchOnFaint ends whenever it is entered: a Pokemon it   *)
(* can draw is left, although MCTS switches to fainted slots at will.        *)
THEOREM FaintSwitchAlwaysPossible == Spec => []FaintSwitchPossible
<1>1. IInv => FaintSwitchPossible
  <2> SUFFICES ASSUME IInv, NEW i \in Players,
                      pc = IF i = 0 THEN "check0" ELSE "check1",
                      out(i).fainted, numAlive[i] # 1
               PROVE  \E k \in Slots : k # currentOut[i] /\ ~team[i][k].fainted
    BY DEF FaintSwitchPossible
  <2>1. ~Decided /\ Uncounted(i) = 1
    BY DEF IInv, LostAtZero, Uncounted, Unchecked, Players
  <2>2. numAlive[i] \in Nat /\ numAlive[i] # 0 /\ numAlive[i] # 1
    BY <2>1, BattleAssumption DEF IInv, TypeOK, LostAtZero, Decided
  <2>3. numAlive[i] <= Cardinality(Standing(i)) + 1
    BY <2>1 DEF IInv, CountBounded
  <2>4. Standing(i) \in SUBSET Slots
    BY DEF Standing
  <2>5. Standing(i) # {}
    BY <2>2, <2>3, <2>4, SlotSets
  <2> QED
    BY <2>5 DEF Standing, out
<1> QED
  BY <1>1, Invariant, PTL

(* When moves are chosen both Pokemon out are healthy, and each count is at  *)
(* least one and at most the number of Pokemon standing.                     *)
THEOREM TurnsStartHealthy == Spec => []TurnStartsHealthy
<1>1. IInv => TurnStartsHealthy
  <2> SUFFICES ASSUME IInv, pc = "choose0", NEW p \in Players
               PROVE  ~out(p).fainted /\ numAlive[p] \in 1..Cardinality(Standing(p))
    BY DEF TurnStartsHealthy
  <2>1. ~Decided /\ ~Unchecked(p) /\ Uncounted(p) = 0
    BY DEF IInv, LostAtZero, Unchecked, Uncounted
  <2>2. numAlive[p] \in Nat /\ numAlive[p] # 0
    BY <2>1, BattleAssumption DEF IInv, TypeOK, LostAtZero, Decided
  <2>3. Cardinality(Standing(p)) \in Nat
    BY SlotSets DEF Standing
  <2> QED
    BY <2>1, <2>2, <2>3 DEF IInv, Healthy, CountBounded
<1> QED
  BY <1>1, Invariant, PTL

(* The count of player 1, who only attacks, is the number of its Pokemon     *)
(* standing whenever a turn starts, and it loses with all of them fainted.   *)
THEOREM AttackerCountAlwaysExact == Spec => []AttackerCountExact
<1>1. IInv => AttackerCountExact
  <2> SUFFICES ASSUME IInv PROVE AttackerCountExact
    OBVIOUS
  <2>1. CASE pc = "choose0"
    <3>1. ~Decided /\ Uncounted(1) = 0
      BY <2>1 DEF IInv, LostAtZero, Unchecked, Uncounted
    <3>2. Cardinality(Standing(1)) \in Nat
      BY SlotSets DEF Standing
    <3> QED
      BY <3>1, <3>2 DEF IInv, AttackerExact, AttackerCountExact
  <2>2. CASE pc # "choose0"
    BY <2>2 DEF IInv, AttackerExact, AttackerCountExact
  <2> QED
    BY <2>1, <2>2
<1> QED
  BY <1>1, Invariant, PTL

-----------------------------------------------------------------------------
(* The battle implements the Duel *)

(* Who has lost, as Duel sees it *)
Losers == {p \in Players : hasLost[p]}

(* A faint check is a stutter of the Duel or the loss of one Pokemon.        *)
LEMMA CheckDuels ==
    ASSUME IInv, NEW i \in Players, NEW next,
           pc \in {"check0", "check1"}, Check(i, next)
    PROVE  \/ UNCHANGED <<numAlive, hasLost>>
           \/ D!LoseOne(i)
<1>1. Losers = {} /\ numAlive[i] > 0
  BY BattleAssumption DEF IInv, LostAtZero, Decided, Losers, TypeOK
<1>2. CASE out(i).fainted
  <2>1. numAlive' = [numAlive EXCEPT ![i] = numAlive[i] - 1]
    BY <1>2 DEF Check
  <2>2. Losers' = {q \in {i} : numAlive[i] = 1}
    <3>1. CASE numAlive[i] = 1
      <4>1. hasLost' = [hasLost EXCEPT ![i] = TRUE]
        BY <1>2, <3>1 DEF Check
      <4>2. \A p \in Players : hasLost'[p] <=> p = i
        BY <1>1, <4>1 DEF IInv, TypeOK, Losers
      <4> QED
        BY <3>1, <4>2 DEF Losers
    <3>2. CASE numAlive[i] # 1
      <4>1. hasLost' = hasLost
        BY <1>2, <3>2 DEF Check
      <4> QED
        BY <1>1, <3>2, <4>1 DEF Losers
    <3> QED
      BY <3>1, <3>2
  <2> QED
    BY <1>1, <2>1, <2>2 DEF D!LoseOne, Losers
<1>3. CASE ~out(i).fainted
  BY <1>3 DEF Check
<1> QED
  BY <1>2, <1>3

(* The battle is a Duel: one side's count falls at a time, and the side that *)
(* loses is the first whose count gets to zero, at that moment.              *)
THEOREM BattleIsDuel == Spec => ImplementsDuel
<1>1. Init => D!Init
  BY DEF Init, D!Init, D!Side, Players
<1>2. IInv /\ [Next]_vars => [D!Next]_(D!duelvars)
  <2> SUFFICES ASSUME IInv, [Next]_vars PROVE [D!Next]_(D!duelvars)
    OBVIOUS
  <2>1. CASE UNCHANGED <<numAlive, hasLost>>
    BY <2>1 DEF D!duelvars
  <2>2. CASE Check0
    <3>1. UNCHANGED <<numAlive, hasLost>> \/ D!LoseOne(0)
      BY <2>2, CheckDuels DEF Check0, Players
    <3> QED
      BY <2>1, <3>1 DEF D!Next, D!Side
  <2>3. CASE Check1
    <3>1. UNCHANGED <<numAlive, hasLost>> \/ D!LoseOne(1)
      BY <2>3, CheckDuels DEF Check1, Players
    <3> QED
      BY <2>1, <3>1 DEF D!Next, D!Side
  <2>4. CASE Choose0 \/ Rollout \/ Choose1 \/ Order
    BY <2>1, <2>4 DEF Choose0, Rollout, Choose1, Order
  <2>5. CASE ActFirst \/ ActSecond
    BY <2>1, <2>5 DEF ActFirst, ActSecond, Act
  <2>6. CASE EndTurn
    BY <2>1, <2>6 DEF EndTurn
  <2>7. CASE Over \/ UNCHANGED vars
    BY <2>1, <2>7 DEF Over, vars
  <2> QED
    BY <2>2, <2>3, <2>4, <2>5, <2>6, <2>7 DEF Next
<1> QED
  BY <1>1, <1>2, Invariant, PTL DEF Spec, ImplementsDuel, D!Spec
=============================================================================
