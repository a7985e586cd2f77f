---------------------------- MODULE PSUserProofs ----------------------------
(* Proofs that the invariants of PSUser hold for every set of rooms, names,  *)
(* moves and well-formed frames.                                             *)
EXTENDS PSUser, TLAPS

-----------------------------------------------------------------------------
(* Sequences *)

(* The parts of a sequence that is not empty.                                *)
LEMMA HeadTail ==
    ASSUME NEW S, NEW s \in Seq(S), s # <<>>
    PROVE  Head(s) \in S /\ Tail(s) \in Seq(S)
  OBVIOUS

(* Overwriting an entry keeps a sequence over its set.                       *)
LEMMA UpdateInSeq ==
    ASSUME NEW S, NEW s \in Seq(S), NEW i \in DOMAIN s, NEW x \in S
    PROVE  [s EXCEPT ![i] = x] \in Seq(S)
  OBVIOUS

(* Sequences of at most two entries.                                         *)
LEMMA ShortSeq ==
    ASSUME NEW S
    PROVE  /\ <<>> \in Seq(S)
           /\ \A x \in S : <<x>> \in Seq(S)
           /\ \A x, y \in S : <<x, y>> \in Seq(S)
  OBVIOUS

(* Concatenation keeps a sequence over its set.                              *)
LEMMA ConcatInSeq ==
    ASSUME NEW S, NEW s \in Seq(S), NEW t \in Seq(S)
    PROVE  s \o t \in Seq(S)
  OBVIOUS

(* What Append adds and what it leaves alone.                                *)
LEMMA AppendFacts ==
    ASSUME NEW S, NEW s \in Seq(S), NEW x \in S
    PROVE  /\ Append(s, x) \in Seq(S)
           /\ Len(s) \in Nat
           /\ DOMAIN s = 1..Len(s)
           /\ DOMAIN Append(s, x) = 1..(Len(s) + 1)
           /\ \A j \in DOMAIN s : Append(s, x)[j] = s[j]
           /\ Append(s, x)[Len(s) + 1] = x
  OBVIOUS

(* The line in hand has the fields of its type. *)
LEMMA LineFields ==
    ASSUME NEW l \in Line
    PROVE  /\ l.type = "request" => l \in RequestLine
           /\ l.type = "room" => l.room \in Rooms
           /\ l.type = "player" => l.id \in PlayerIDs
           /\ l.type = "updateuser" => l.name \in Users
           /\ l.type = "updatechallenges" =>
                 l \in [type : {"updatechallenges"},
                        from : Seq([user : Users, format : Formats])]
           /\ l.type \in {"switch", "-damage", "-heal"} =>
                 l.name \in Pkmn /\ l.hp \in Nat
           /\ l.type = "move" => l.name \in Pkmn /\ l.move \in Moves
           /\ l.type = "-boost" => l.stat \in Stats /\ l.boost \in Int
  BY DEF Line, RequestLine

(* A Pokemon made from a known name is well typed.                           *)
LEMMA NewPokemon ==
    ASSUME NEW name \in KnownPkmn
    PROVE  initPokemonFromName(name) \in PokemonData
  BY ConstantsAssumption DEF initPokemonFromName, PokemonData, Statuses

(* The team built from a request whose names are known is well typed.        *)
LEMMA RequestTeamType ==
    ASSUME NEW l \in RequestLine, requestIsKnown(l)
    PROVE  requestTeam(l) \in Seq(PokemonData)
  <1>1. l.side \in Seq(SidePokemon) /\ l.trapped \in BOOLEAN
    BY DEF RequestLine
  <1>2. ASSUME NEW i \in DOMAIN l.side
        PROVE  requestTeam(l)[i] \in PokemonData
    <2>1. l.side[i] \in SidePokemon
      BY <1>1
    <2>2. l.side[i].name \in KnownPkmn /\ l.side[i].moves \in Seq(KnownMoves)
      BY DEF requestIsKnown
    <2>3. initPokemonFromName(l.side[i].name) \in PokemonData
      BY <2>2, NewPokemon
    <2> QED
      BY <1>1, <2>1, <2>2, <2>3 DEF requestTeam, PokemonData, SidePokemon
  <1> DEFINE n == Len(l.side)
  <1>3. n \in Nat /\ DOMAIN l.side = 1..n
    BY <1>1
  <1>4. requestTeam(l) \in [1..n -> PokemonData]
    BY <1>2, <1>3 DEF requestTeam
  <1> QED
    BY <1>3, <1>4

(* getPokemon points into the team.                                          *)
LEMMA Positions ==
    ASSUME NEW name, NEW team
    PROVE  getPokemon(name, team) \subseteq DOMAIN team
  BY DEF getPokemon

(* move() sends well-typed messages whatever actions are on offer. *)
LEMMA MoveMessageType ==
    ASSUME NEW room \in AllRooms, NEW actions \in SUBSET Int,
           NEW m \in moveMessages(room, actions)
    PROVE  m \in Message
  BY DEF moveMessages, Message

(* accept_challenge sends well-typed messages.                               *)
LEMMA AcceptMessageType ==
    ASSUME NEW user \in Users, NEW format
    PROVE  acceptMessages(user, format) \in Seq(Message)
  <1>1. [cmd |-> "utm"] \in Message /\ [cmd |-> "accept", user |-> user] \in Message
    BY DEF Message
  <1> QED
    BY <1>1, ShortSeq DEF acceptMessages

(* The current room's opposing team is well typed.                           *)
LEMMA OppTeamType ==
    ASSUME TypeOK
    PROVE  /\ battleData[curRoom] \in BattleData
           /\ oppTeam \in Seq(PokemonData)
  BY DEF TypeOK, BattleData, oppTeam

(* The three outcomes the handlers share preserve the types. *)
LEMMA IgnoreType ==
    ASSUME TypeOK, lines # <<>>, Ignore
    PROVE  TypeOK'
  BY HeadTail DEF TypeOK, Ignore

(* A throw keeps the types.                                                  *)
LEMMA ThrowType ==
    ASSUME TypeOK, Throw
    PROVE  TypeOK'
  BY DEF TypeOK, Throw

(* Writing a well-typed opposing team keeps the types.                       *)
LEMMA SetOppTeamType ==
    ASSUME TypeOK, lines # <<>>,
           NEW team \in Seq(PokemonData), SetOppTeam(team)
    PROVE  TypeOK'
  <1>1. battleData' \in [AllRooms -> BattleData]
    BY OppTeamType DEF TypeOK, SetOppTeam, BattleData
  <1> QED
    BY <1>1, HeadTail DEF TypeOK, SetOppTeam

-----------------------------------------------------------------------------
(* Every variable keeps to its type (PSUser!TypeOK). *)
THEOREM TypeCorrect == Spec => []TypeOK
<1>1. Init => TypeOK
  <2>1. NoBattle \in BattleData
    BY ShortSeq DEF NoBattle, BattleData
  <2> QED
    BY <2>1, ConstantsAssumption, ShortSeq DEF Init, TypeOK, AllRooms
<1>2. TypeOK /\ [Next]_vars => TypeOK'
  <2> SUFFICES ASSUME TypeOK, [Next]_vars
               PROVE  TypeOK'
    OBVIOUS
  <2> DEFINE l == Head(lines)
  <2>1. ASSUME ~crashed, lines # <<>>
        PROVE  l \in Line /\ Tail(lines) \in Seq(Line)
    BY <2>1, HeadTail DEF TypeOK
  <2>2. oppTeam \in Seq(PokemonData) /\ battleData[curRoom] \in BattleData
    BY OppTeamType
  <2>3. CASE Room
    BY <2>1, <2>3, LineFields DEF Room, At, TypeOK, AllRooms
  <2>4. CASE Player
    <3>1. l \in Line /\ Tail(lines) \in Seq(Line) /\ l.id \in PlayerIDs
      BY <2>1, <2>4, LineFields DEF Player, At
    <3>2. battleData' \in [AllRooms -> BattleData]
      <4>1. [battleData[curRoom] EXCEPT !.playerID = l.id] \in BattleData
        BY <2>2, <3>1 DEF BattleData
      <4>2. \/ UNCHANGED battleData
            \/ battleData' = [battleData EXCEPT ![curRoom].playerID = l.id]
        BY <2>4 DEF Player
      <4> QED
        BY <4>1, <4>2 DEF TypeOK
    <3>3. lines' \in Seq(Line)
      BY <2>4, <3>1, ShortSeq DEF Player
    <3> QED
      BY <2>4, <3>2, <3>3 DEF Player, TypeOK
  <2>5. CASE Request
    <3>1. l \in RequestLine /\ Tail(lines) \in Seq(Line) /\ lines # <<>>
      BY <2>1, <2>5, LineFields DEF Request, At
    <3> DEFINE available == moveActions(l) \cup switchActions(l)
    <3>2. available \in SUBSET Int
      <4>1. l.moves \in 0..4 /\ l.side \in Seq(SidePokemon)
        BY <3>1 DEF RequestLine
      <4> QED
        BY <4>1 DEF moveActions, switchActions
    <3>3. CASE Ignore \/ Throw
      BY <3>1, <3>3, IgnoreType, ThrowType
    <3>4. CASE ~(Ignore \/ Throw)
      <4> HIDE DEF available
      <4>1. /\ requestIsKnown(l)
            /\ battleData' = [battleData EXCEPT
                   ![curRoom].playerTeam = requestTeam(l),
                   ![curRoom].availableActions = available]
            /\ \/ UNCHANGED sent
               \/ \E m \in moveMessages(curRoom, available) :
                     sent' = Append(sent, m)
            /\ lines' = Tail(lines)
            /\ UNCHANGED <<username, challenge, curRoom, crashed>>
        BY <2>5, <3>4 DEF Request, available
      <4>2. requestTeam(l) \in Seq(PokemonData)
        BY <3>1, <4>1, RequestTeamType
      <4>3. battleData' \in [AllRooms -> BattleData]
        BY <2>2, <3>2, <4>1, <4>2 DEF TypeOK, BattleData
      <4>4. sent' \in Seq(Message)
        <5>1. ASSUME NEW m \in moveMessages(curRoom, available)
              PROVE  m \in Message
          BY <3>2, MoveMessageType DEF TypeOK
        <5>2. CASE UNCHANGED sent
          BY <5>2 DEF TypeOK
        <5>3. ASSUME NEW m \in moveMessages(curRoom, available),
                     sent' = Append(sent, m)
              PROVE  sent' \in Seq(Message)
          BY <5>1, <5>3 DEF TypeOK
        <5> QED
          BY <4>1, <5>2, <5>3
      <4> QED
        BY <3>1, <4>1, <4>3, <4>4 DEF TypeOK
    <3> QED
      BY <3>3, <3>4
  <2>6. CASE Challstr
    BY <2>1, <2>6 DEF Challstr, At, TypeOK
  <2>7. CASE UpdateUser
    BY <2>1, <2>7, LineFields DEF UpdateUser, At, TypeOK
  <2>8. CASE UpdateChallenges
    <3>1. /\ lines # <<>> /\ Tail(lines) \in Seq(Line)
          /\ l \in [type : {"updatechallenges"},
                     from : Seq([user : Users, format : Formats])]
      BY <2>1, <2>8, LineFields DEF UpdateChallenges, At
    <3>2. CASE Ignore
      BY <3>1, <3>2, IgnoreType
    <3>3. CASE ~Ignore
      <4>1. l.from # <<>>
        BY <2>8, <3>3 DEF UpdateChallenges
      <4> DEFINE Challenges == [user : Users, format : Formats]
      <4>2. Head(l.from).user \in Users /\ Tail(l.from) \in Seq(Challenges)
        <5>1. l.from \in Seq(Challenges)
          BY <3>1
        <5>2. Head(l.from) \in Challenges /\ Tail(l.from) \in Seq(Challenges)
          BY <4>1, <5>1, HeadTail
        <5> QED
          BY <5>2
      <4>3. [l EXCEPT !.from = Tail(l.from)] \in Line
        BY <3>1, <4>2 DEF Line
      <4>4. sent' \in Seq(Message)
        <5>1. acceptMessages(Head(l.from).user, Head(l.from).format) \in Seq(Message)
          BY <4>2, AcceptMessageType
        <5> QED
          BY <2>8, <3>3, <5>1, ConcatInSeq DEF UpdateChallenges, TypeOK
      <4>5. lines' \in Seq(Line)
        <5>1. lines' = <<[l EXCEPT !.from = Tail(l.from)]>> \o Tail(lines)
          BY <2>8, <3>3 DEF UpdateChallenges
        <5> QED
          BY <3>1, <4>3, <5>1, ShortSeq, ConcatInSeq
      <4> QED
        BY <2>8, <3>3, <4>4, <4>5 DEF UpdateChallenges, TypeOK
    <3> QED
      BY <3>2, <3>3
  <2>9. CASE Switch
    <3>1. lines # <<>> /\ l.name \in Pkmn /\ l.hp \in Nat
      BY <2>1, <2>9, LineFields DEF Switch, At
    <3>2. ASSUME l.name \in KnownPkmn
          PROVE  Append(oppTeam, [initPokemonFromName(l.name)
                     EXCEPT !.hp = l.hp, !.active = TRUE]) \in Seq(PokemonData)
      <4>1. initPokemonFromName(l.name) \in PokemonData
        BY <3>2, NewPokemon
      <4>2. [initPokemonFromName(l.name) EXCEPT !.hp = l.hp, !.active = TRUE]
               \in PokemonData
        BY <3>1, <4>1 DEF PokemonData
      <4> QED
        BY <2>2, <4>2
    <3> QED
      BY <2>9, <3>1, <3>2, IgnoreType, ThrowType, SetOppTeamType DEF Switch
  <2>10. CASE Move
    <3>1. lines # <<>>
      BY <2>10 DEF Move, At
    <3>2. ASSUME NEW i \in getPokemon(l.name, oppTeam), l.move \in KnownMoves
          PROVE  [oppTeam EXCEPT ![i].moves = Append(@, l.move)] \in Seq(PokemonData)
      <4>1. i \in DOMAIN oppTeam /\ oppTeam[i] \in PokemonData
        BY <2>2, Positions
      <4>2. [oppTeam[i] EXCEPT !.moves = Append(@, l.move)] \in PokemonData
        <5>1. oppTeam[i].moves \in Seq(KnownMoves)
          BY <4>1 DEF PokemonData
        <5>2. Append(oppTeam[i].moves, l.move) \in Seq(KnownMoves)
          BY <3>2, <5>1
        <5> QED
          BY <4>1, <5>2 DEF PokemonData
      <4> QED
        BY <2>2, <4>1, <4>2, UpdateInSeq
    <3>3. ASSUME l.name \in KnownPkmn, l.move \in KnownMoves
          PROVE  Append(oppTeam, [initPokemonFromName(l.name)
                     EXCEPT !.moves = <<l.move>>]) \in Seq(PokemonData)
      <4>1. initPokemonFromName(l.name) \in PokemonData
        BY <3>3, NewPokemon
      <4>2. [initPokemonFromName(l.name) EXCEPT !.moves = <<l.move>>] \in PokemonData
        <5>1. <<l.move>> \in Seq(KnownMoves)
          BY <3>3, ShortSeq
        <5> QED
          BY <4>1, <5>1 DEF PokemonData
      <4> QED
        BY <2>2, <4>2
    <3> QED
      BY <2>10, <3>1, <3>2, <3>3, IgnoreType, ThrowType, SetOppTeamType DEF Move
  <2>11. ASSUME NEW i \in getPokemon(l.name, oppTeam), NEW p \in PokemonData
         PROVE  i \in DOMAIN oppTeam /\ oppTeam[i] \in PokemonData
                /\ [oppTeam EXCEPT ![i] = p] \in Seq(PokemonData)
    BY <2>2, Positions, UpdateInSeq
  <2>12. CASE Faint
    <3>1. lines # <<>>
      BY <2>12 DEF Faint, At
    <3>2. ASSUME NEW i \in getPokemon(l.name, oppTeam)
          PROVE  [oppTeam EXCEPT ![i].fainted = TRUE] \in Seq(PokemonData)
      <4>1. oppTeam[i] \in PokemonData
        BY <2>2, Positions
      <4>2. [oppTeam[i] EXCEPT !.fainted = TRUE] \in PokemonData
        BY <4>1 DEF PokemonData
      <4> QED
        BY <2>11, <4>2
    <3> QED
      BY <2>12, <3>1, <3>2, IgnoreType, ThrowType, SetOppTeamType DEF Faint, NullPointer
  <2>13. CASE DamageOrHeal
    <3>1. lines # <<>> /\ l.hp \in Nat
      BY <2>1, <2>13, LineFields DEF DamageOrHeal, At
    <3>2. ASSUME NEW i \in getPokemon(l.name, oppTeam)
          PROVE  [oppTeam EXCEPT ![i].hp = l.hp] \in Seq(PokemonData)
      <4>1. oppTeam[i] \in PokemonData
        BY <2>2, Positions
      <4>2. [oppTeam[i] EXCEPT !.hp = l.hp] \in PokemonData
        BY <3>1, <4>1 DEF PokemonData
      <4> QED
        BY <2>11, <4>2
    <3> QED
      BY <2>13, <3>1, <3>2, IgnoreType, ThrowType, SetOppTeamType
         DEF DamageOrHeal, NullPointer
  <2>14. CASE StatusOrCure
    <3>1. lines # <<>>
      BY <2>14 DEF StatusOrCure, At
    <3> DEFINE marked(i) == IF l.type = "-status" THEN oppTeam[i].status \cup {l.status}
                                                  ELSE oppTeam[i].status \ {l.status}
    <3>2. ASSUME NEW i \in getPokemon(l.name, oppTeam), l.status \in Statuses
          PROVE  [oppTeam EXCEPT ![i].status = marked(i)] \in Seq(PokemonData)
      <4>1. oppTeam[i] \in PokemonData
        BY <2>2, Positions
      <4>2. marked(i) \in SUBSET Statuses
        BY <3>2, <4>1 DEF PokemonData
      <4>3. [oppTeam[i] EXCEPT !.status = marked(i)] \in PokemonData
        BY <4>1, <4>2 DEF PokemonData
      <4> QED
        BY <2>11, <4>3
    <3> QED
      BY <2>14, <3>1, <3>2, IgnoreType, ThrowType, SetOppTeamType
         DEF StatusOrCure, NullPointer
  <2>15. CASE Boost
    <3>1. lines # <<>> /\ l.stat \in Stats /\ l.boost \in Int
      BY <2>1, <2>15, LineFields DEF Boost, At
    <3>2. ASSUME NEW i \in getPokemon(l.name, oppTeam)
          PROVE  [oppTeam EXCEPT ![i].boosts[l.stat] = l.boost] \in Seq(PokemonData)
      <4>1. oppTeam[i] \in PokemonData
        BY <2>2, Positions
      <4>2. [oppTeam[i] EXCEPT !.boosts[l.stat] = l.boost] \in PokemonData
        BY <3>1, <4>1 DEF PokemonData
      <4> QED
        BY <2>11, <4>2
    <3> QED
      BY <2>15, <3>1, <3>2, IgnoreType, ThrowType, SetOppTeamType
         DEF Boost, NullPointer
  <2>16. CASE Turn
    <3>1. battleData[curRoom].availableActions \in SUBSET Int /\ curRoom \in AllRooms
      BY <2>2 DEF TypeOK, BattleData
    <3>2. sent' \in Seq(Message)
      BY <2>16, <3>1, MoveMessageType DEF Turn, TypeOK
    <3> QED
      BY <2>1, <2>16, <3>2 DEF Turn, At, TypeOK
  <2>17. CASE Printed
    BY <2>17, IgnoreType DEF Printed, At
  <2>18. CASE Receive
    BY <2>18 DEF Receive, TypeOK, AllRooms
  <2>19. CASE Transmit
    BY <2>19, HeadTail DEF Transmit, TypeOK
  <2>20. CASE UNCHANGED vars
    BY <2>20 DEF vars, TypeOK
  <2> QED
    BY <2>3, <2>4, <2>5, <2>6, <2>7, <2>8, <2>9, <2>10, <2>12, <2>13, <2>14,
       <2>15, <2>16, <2>17, <2>18, <2>19, <2>20 DEF Next, Handle
<1> QED
  BY <1>1, <1>2, PTL DEF Spec

-----------------------------------------------------------------------------
(* How one step changes what is known of an opponent: not at all, by a new   *)
(* Pokemon under a new name, or in one Pokemon, whose moves grow by at most  *)
(* one it did not have.                                                      *)
Added(old, new) ==
    \E p \in PokemonData :
        /\ new = Append(old, p)
        /\ \A i \in DOMAIN old : old[i].name # p.name
        /\ Len(p.moves) <= 1

Marked(old, new) ==
    \E i \in DOMAIN old : \E p \in PokemonData :
        /\ new = [old EXCEPT ![i] = p]
        /\ p.name = old[i].name
        /\ old[i].fainted => p.fainted
        /\ \/ p.moves = old[i].moves
           \/ \E m \in KnownMoves : /\ p.moves = Append(old[i].moves, m)
                                    /\ ~hasMove(old[i], m)

Grown(old, new) == new = old \/ Added(old, new) \/ Marked(old, new)

(* A team that grows as the handlers grow it stays distinct.                 *)
LEMMA GrownDistinct ==
    ASSUME NEW old \in Seq(PokemonData), NEW new, Distinct(old), Grown(old, new)
    PROVE  Distinct(new)
<1>1. CASE new = old
  BY <1>1
<1>2. CASE Added(old, new)
  <2>1. PICK p \in PokemonData : /\ new = Append(old, p)
                                 /\ \A i \in DOMAIN old : old[i].name # p.name
                                 /\ Len(p.moves) <= 1
    BY <1>2 DEF Added
  <2>2. /\ DOMAIN new = 1..(Len(old) + 1) /\ DOMAIN old = 1..Len(old)
        /\ Len(old) \in Nat
        /\ \A i \in DOMAIN old : new[i] = old[i]
        /\ new[Len(old) + 1] = p
    BY <2>1
  <2>3. \A j, k \in DOMAIN p.moves : j = k
    BY <2>1 DEF PokemonData
  <2> QED
    BY <2>1, <2>2, <2>3 DEF Distinct
<1>3. CASE Marked(old, new)
  <2>1. PICK i \in DOMAIN old, p \in PokemonData :
            /\ new = [old EXCEPT ![i] = p]
            /\ p.name = old[i].name
            /\ old[i].fainted => p.fainted
            /\ \/ p.moves = old[i].moves
               \/ \E m \in KnownMoves : /\ p.moves = Append(old[i].moves, m)
                                        /\ ~hasMove(old[i], m)
    BY <1>3 DEF Marked
  <2>2. /\ DOMAIN new = DOMAIN old
        /\ \A j \in DOMAIN old : new[j] = IF j = i THEN p ELSE old[j]
    BY <2>1
  <2>3. \A j, k \in DOMAIN p.moves : p.moves[j] = p.moves[k] => j = k
    <3>1. \A j, k \in DOMAIN old[i].moves :
              old[i].moves[j] = old[i].moves[k] => j = k
      BY DEF Distinct
    <3>2. ASSUME NEW m \in KnownMoves, p.moves = Append(old[i].moves, m),
                 ~hasMove(old[i], m)
          PROVE  \A j, k \in DOMAIN p.moves : p.moves[j] = p.moves[k] => j = k
      <4>1. old[i].moves \in Seq(KnownMoves)
        <5>1. old[i] \in PokemonData
          OBVIOUS
        <5> QED
          BY <5>1 DEF PokemonData
      <4>2. /\ DOMAIN p.moves = 1..(Len(old[i].moves) + 1)
            /\ DOMAIN old[i].moves = 1..Len(old[i].moves)
            /\ Len(old[i].moves) \in Nat
            /\ \A j \in DOMAIN old[i].moves : p.moves[j] = old[i].moves[j]
            /\ p.moves[Len(old[i].moves) + 1] = m
        <5> DEFINE ms == old[i].moves
        <5>1. /\ Len(ms) \in Nat
              /\ DOMAIN ms = 1..Len(ms)
              /\ DOMAIN Append(ms, m) = 1..(Len(ms) + 1)
              /\ \A j \in DOMAIN ms : Append(ms, m)[j] = ms[j]
              /\ Append(ms, m)[Len(ms) + 1] = m
          <6> HIDE DEF ms
          <6>1. ms \in Seq(KnownMoves)
            BY <4>1 DEF ms
          <6> QED
            BY <3>2, <6>1, AppendFacts
        <5> QED
          BY <3>2, <5>1
      <4>3. \A j \in DOMAIN old[i].moves : old[i].moves[j] # m
        BY <3>2 DEF hasMove
      <4> QED
        BY <3>1, <4>2, <4>3, SMTT(30)
    <3> QED
      BY <2>1, <3>1, <3>2
  <2> QED
    BY <2>1, <2>2, <2>3 DEF Distinct
<1> QED
  BY <1>1, <1>2, <1>3 DEF Grown

(* A team that grows as the handlers grow it forgets nothing.                *)
LEMMA GrownExtends ==
    ASSUME NEW old \in Seq(PokemonData), NEW new, Grown(old, new)
    PROVE  Extends(old, new)
<1>1. CASE new = old
  BY <1>1 DEF Extends
<1>2. CASE Added(old, new)
  <2>1. PICK p \in PokemonData : new = Append(old, p)
    BY <1>2 DEF Added
  <2>2. \A i \in DOMAIN old : i \in DOMAIN new /\ new[i] = old[i]
    BY <2>1
  <2> QED
    BY <2>2 DEF Extends
<1>3. CASE Marked(old, new)
  <2>1. PICK i \in DOMAIN old, p \in PokemonData :
            /\ new = [old EXCEPT ![i] = p]
            /\ p.name = old[i].name
            /\ old[i].fainted => p.fainted
            /\ \/ p.moves = old[i].moves
               \/ \E m \in KnownMoves : p.moves = Append(old[i].moves, m)
    BY <1>3 DEF Marked
  <2>2. /\ DOMAIN new = DOMAIN old
        /\ \A j \in DOMAIN old : new[j] = IF j = i THEN p ELSE old[j]
    BY <2>1
  <2>3. \A j \in DOMAIN old[i].moves :
            j \in DOMAIN p.moves /\ p.moves[j] = old[i].moves[j]
    <3>1. old[i] \in PokemonData
      OBVIOUS
    <3>2. old[i].moves \in Seq(KnownMoves)
      BY <3>1 DEF PokemonData
    <3>3. CASE p.moves = old[i].moves
      BY <3>3
    <3>4. ASSUME NEW m \in KnownMoves, p.moves = Append(old[i].moves, m)
          PROVE  \A j \in DOMAIN old[i].moves :
                    j \in DOMAIN p.moves /\ p.moves[j] = old[i].moves[j]
      BY <3>2, <3>4, AppendFacts
    <3> QED
      BY <2>1, <3>3, <3>4
  <2> QED
    BY <2>1, <2>2, <2>3 DEF Extends
<1> QED
  BY <1>1, <1>2, <1>3 DEF Grown

(* In a team without repeated names, getPokemon misses no name.              *)
LEMMA NotFound ==
    ASSUME NEW team \in Seq(PokemonData), Distinct(team), NEW name,
           getPokemon(name, team) = {}
    PROVE  \A i \in DOMAIN team : team[i].name # name
<1> SUFFICES ASSUME NEW i \in DOMAIN team, team[i].name = name
             PROVE  FALSE
  OBVIOUS
<1>1. \A j \in 1..(i - 1) : j \in DOMAIN team /\ j # i
  OBVIOUS
<1>2. i \in getPokemon(name, team)
  BY <1>1 DEF getPokemon, Distinct
<1> QED
  BY <1>2

(* Handlers that write through SetOppTeam leave the other rooms alone. *)
LEMMA SetOppTeamGrown ==
    ASSUME TypeOK, NEW team, SetOppTeam(team), Grown(oppTeam, team)
    PROVE  \A r \in AllRooms : Grown(battleData[r].oppTeam, battleData'[r].oppTeam)
<1> SUFFICES ASSUME NEW r \in AllRooms
             PROVE  Grown(battleData[r].oppTeam, battleData'[r].oppTeam)
  OBVIOUS
<1>1. CASE r = curRoom
  <2>1. battleData'[r].oppTeam = team
    BY <1>1 DEF SetOppTeam, TypeOK, BattleData
  <2> QED
    BY <1>1, <2>1 DEF oppTeam
<1>2. CASE r # curRoom
  <2>1. battleData'[r] = battleData[r]
    BY <1>2 DEF SetOppTeam, TypeOK
  <2> QED
    BY <2>1 DEF Grown
<1> QED
  BY <1>1, <1>2

(* A step that leaves the opposing teams alone grows them trivially.         *)
LEMMA SameTeamsGrown ==
    ASSUME \A r \in AllRooms : battleData'[r].oppTeam = battleData[r].oppTeam
    PROVE  \A r \in AllRooms : Grown(battleData[r].oppTeam, battleData'[r].oppTeam)
  BY DEF Grown

(* Storing the player ID or a request does not touch the opponent's team.     *)
LEMMA OtherFields ==
    ASSUME NEW d \in [AllRooms -> BattleData], NEW c \in AllRooms,
           NEW b, b.oppTeam = d[c].oppTeam, NEW r \in AllRooms
    PROVE  [d EXCEPT ![c] = b][r].oppTeam = d[r].oppTeam
<1>1. [d EXCEPT ![c] = b][r] = IF r = c THEN b ELSE d[r]
  OBVIOUS
<1> QED
  BY <1>1

(* Every step of the handler grows the opposing teams or keeps them.         *)
LEMMA TeamStep ==
    ASSUME TypeOK, OppTeamDistinct, [Next]_vars
    PROVE  \A r \in AllRooms : Grown(battleData[r].oppTeam, battleData'[r].oppTeam)
<1> DEFINE l == Head(lines)
<1>1. oppTeam \in Seq(PokemonData) /\ Distinct(oppTeam) /\ curRoom \in AllRooms
  BY OppTeamType DEF OppTeamDistinct, oppTeam, TypeOK
<1>2. \A i \in getPokemon(l.name, oppTeam) :
          i \in DOMAIN oppTeam /\ oppTeam[i] \in PokemonData
  BY <1>1, Positions
<1>3. ASSUME ~crashed, lines # <<>>
      PROVE  l \in Line
  BY <1>3, HeadTail DEF TypeOK
<1>4. CASE UNCHANGED battleData
  BY <1>4, SameTeamsGrown
<1>5. CASE Player
  <2>1. \A r \in AllRooms : battleData'[r].oppTeam = battleData[r].oppTeam
    <3> DEFINE b == [battleData[curRoom] EXCEPT !.playerID = l.id]
    <3>1. \/ UNCHANGED battleData
          \/ battleData' = [battleData EXCEPT ![curRoom] = b]
      BY <1>5 DEF Player
    <3>2. b.oppTeam = battleData[curRoom].oppTeam
      BY OppTeamType DEF BattleData
    <3> HIDE DEF b
    <3> QED
      BY <1>1, <3>1, <3>2, OtherFields DEF TypeOK
  <2> QED
    BY <2>1, SameTeamsGrown
<1>6. CASE Request
  <2>1. \A r \in AllRooms : battleData'[r].oppTeam = battleData[r].oppTeam
    <3> DEFINE available == moveActions(l) \cup switchActions(l)
               b == [battleData[curRoom] EXCEPT !.playerTeam = requestTeam(l),
                                                !.availableActions = available]
    <3>1. \/ UNCHANGED battleData
          \/ battleData' = [battleData EXCEPT ![curRoom] = b]
      <4>1. \/ UNCHANGED battleData
            \/ battleData' = [battleData EXCEPT
                   ![curRoom].playerTeam = requestTeam(l),
                   ![curRoom].availableActions = available]
        BY <1>6 DEF Request, Ignore, Throw
      <4> HIDE DEF available
      <4> QED
        BY <1>1, <4>1 DEF TypeOK
    <3>2. b.oppTeam = battleData[curRoom].oppTeam
      BY OppTeamType DEF BattleData
    <3> HIDE DEF b
    <3> QED
      BY <1>1, <3>1, <3>2, OtherFields DEF TypeOK
  <2> QED
    BY <2>1, SameTeamsGrown
<1>7. CASE Switch
  <2> DEFINE p == [initPokemonFromName(l.name) EXCEPT !.hp = l.hp, !.active = TRUE]
  <2>1. CASE Ignore \/ Throw
    BY <2>1, <1>4 DEF Ignore, Throw
  <2>2. CASE ~(Ignore \/ Throw)
    <3>1. /\ getPokemon(l.name, oppTeam) = {} /\ l.name \in KnownPkmn
          /\ SetOppTeam(Append(oppTeam, p))
      BY <1>7, <2>2 DEF Switch
    <3>2. p \in PokemonData /\ p.name = l.name /\ Len(p.moves) <= 1
      <4>1. l.hp \in Nat
        BY <1>3, <1>7, LineFields DEF Switch, At
      <4>2. initPokemonFromName(l.name) \in PokemonData
        BY <3>1, NewPokemon
      <4>3. p \in PokemonData
        BY <4>1, <4>2 DEF PokemonData
      <4>4. p.name = l.name /\ p.moves = <<>>
        BY DEF initPokemonFromName
      <4> QED
        BY <4>3, <4>4
    <3>3. Added(oppTeam, Append(oppTeam, p))
      BY <1>1, <3>1, <3>2, NotFound DEF Added
    <3> QED
      BY <3>1, <3>3, SetOppTeamGrown DEF Grown
  <2> QED
    BY <2>1, <2>2
<1>8. CASE Move
  <2> DEFINE new == [initPokemonFromName(l.name) EXCEPT !.moves = <<l.move>>]
             learnt(i) == [oppTeam EXCEPT ![i].moves = Append(@, l.move)]
  <2>1. CASE Ignore \/ Throw
    BY <2>1, <1>4 DEF Ignore, Throw
  <2>2. CASE ~(Ignore \/ Throw)
    <3>1. /\ l.move \in KnownMoves
          /\ \/ \E i \in getPokemon(l.name, oppTeam) :
                   ~hasMove(oppTeam[i], l.move) /\ SetOppTeam(learnt(i))
             \/ /\ getPokemon(l.name, oppTeam) = {} /\ l.name \in KnownPkmn
                /\ SetOppTeam(Append(oppTeam, new))
      BY <1>8, <2>2 DEF Move
    <3>2. ASSUME NEW i \in getPokemon(l.name, oppTeam),
                 ~hasMove(oppTeam[i], l.move)
          PROVE  Marked(oppTeam, learnt(i))
      <4> DEFINE p == [oppTeam[i] EXCEPT !.moves = Append(@, l.move)]
      <4>1. i \in DOMAIN oppTeam /\ oppTeam[i] \in PokemonData
        BY <1>2
      <4>2. oppTeam[i].moves \in Seq(KnownMoves)
        BY <4>1 DEF PokemonData
      <4>3. Append(oppTeam[i].moves, l.move) \in Seq(KnownMoves)
        BY <3>1, <4>2, AppendFacts
      <4>4. /\ p \in PokemonData /\ p.name = oppTeam[i].name
            /\ p.fainted = oppTeam[i].fainted
            /\ p.moves = Append(oppTeam[i].moves, l.move)
        BY <4>1, <4>3 DEF PokemonData
      <4>5. learnt(i) = [oppTeam EXCEPT ![i] = p]
        BY <1>1, <4>1
      <4> HIDE DEF p, learnt
      <4> QED
        BY <3>1, <3>2, <4>1, <4>4, <4>5 DEF Marked
    <3>3. ASSUME getPokemon(l.name, oppTeam) = {}, l.name \in KnownPkmn
          PROVE  Added(oppTeam, Append(oppTeam, new))
      <4>1. initPokemonFromName(l.name) \in PokemonData
        BY <3>3, NewPokemon
      <4>2. <<l.move>> \in Seq(KnownMoves) /\ Len(<<l.move>>) <= 1
        BY <3>1, ShortSeq
      <4>3. new \in PokemonData /\ new.moves = <<l.move>>
        BY <4>1, <4>2 DEF PokemonData
      <4>4. new.name = l.name
        BY DEF initPokemonFromName
      <4> HIDE DEF new
      <4> QED
        BY <1>1, <3>3, <4>2, <4>3, <4>4, NotFound DEF Added
    <3> QED
      BY <3>1, <3>2, <3>3, SetOppTeamGrown DEF Grown
  <2> QED
    BY <2>1, <2>2
<1>9. ASSUME NEW i \in getPokemon(l.name, oppTeam), NEW p \in PokemonData,
             p.name = oppTeam[i].name, p.moves = oppTeam[i].moves,
             oppTeam[i].fainted => p.fainted,
             SetOppTeam([oppTeam EXCEPT ![i] = p])
      PROVE  \A r \in AllRooms : Grown(battleData[r].oppTeam, battleData'[r].oppTeam)
  <2>1. Marked(oppTeam, [oppTeam EXCEPT ![i] = p])
    BY <1>2, <1>9 DEF Marked
  <2> QED
    BY <1>9, <2>1, SetOppTeamGrown DEF Grown
<1>10. CASE Faint
  <2>1. CASE Ignore \/ Throw
    BY <2>1, <1>4 DEF Ignore, Throw
  <2>2. CASE ~(Ignore \/ Throw)
    <3>1. PICK i \in getPokemon(l.name, oppTeam) :
              SetOppTeam([oppTeam EXCEPT ![i].fainted = TRUE])
      BY <1>10, <2>2 DEF Faint, NullPointer
    <3> DEFINE p == [oppTeam[i] EXCEPT !.fainted = TRUE]
    <3>2. /\ p \in PokemonData /\ p.name = oppTeam[i].name
          /\ p.moves = oppTeam[i].moves /\ p.fainted
      BY <1>2 DEF PokemonData
    <3>3. SetOppTeam([oppTeam EXCEPT ![i] = p])
      BY <3>1
    <3> HIDE DEF p
    <3> QED
      BY <1>9, <3>2, <3>3
  <2> QED
    BY <2>1, <2>2
<1>11. CASE DamageOrHeal
  <2>1. CASE Ignore \/ Throw
    BY <2>1, <1>4 DEF Ignore, Throw
  <2>2. CASE ~(Ignore \/ Throw)
    <3>1. PICK i \in getPokemon(l.name, oppTeam) :
              SetOppTeam([oppTeam EXCEPT ![i].hp = l.hp])
      BY <1>11, <2>2 DEF DamageOrHeal, NullPointer
    <3>2. l.hp \in Nat
      BY <1>3, <1>11, LineFields DEF DamageOrHeal, At
    <3> DEFINE p == [oppTeam[i] EXCEPT !.hp = l.hp]
    <3>3. /\ p \in PokemonData /\ p.name = oppTeam[i].name
          /\ p.moves = oppTeam[i].moves /\ p.fainted = oppTeam[i].fainted
      BY <1>2, <3>2 DEF PokemonData
    <3>4. SetOppTeam([oppTeam EXCEPT ![i] = p])
      BY <3>1
    <3> HIDE DEF p
    <3> QED
      BY <1>9, <3>3, <3>4
  <2> QED
    BY <2>1, <2>2
<1>12. CASE StatusOrCure
  <2>1. CASE Ignore \/ Throw
    BY <2>1, <1>4 DEF Ignore, Throw
  <2>2. CASE ~(Ignore \/ Throw)
    <3> DEFINE marked(i) == IF l.type = "-status"
                            THEN oppTeam[i].status \cup {l.status}
                            ELSE oppTeam[i].status \ {l.status}
    <3>1. l.status \in Statuses
      BY <1>12, <2>2 DEF StatusOrCure, NullPointer
    <3>2. PICK i \in getPokemon(l.name, oppTeam) :
              SetOppTeam([oppTeam EXCEPT ![i].status = marked(i)])
      BY <1>12, <2>2 DEF StatusOrCure, NullPointer
    <3> DEFINE p == [oppTeam[i] EXCEPT !.status = marked(i)]
    <3>3. marked(i) \in SUBSET Statuses
      BY <1>2, <3>1 DEF PokemonData
    <3>4. /\ p \in PokemonData /\ p.name = oppTeam[i].name
          /\ p.moves = oppTeam[i].moves /\ p.fainted = oppTeam[i].fainted
      BY <1>2, <3>3 DEF PokemonData
    <3>5. SetOppTeam([oppTeam EXCEPT ![i] = p])
      BY <3>2
    <3> HIDE DEF p
    <3> QED
      BY <1>9, <3>4, <3>5
  <2> QED
    BY <2>1, <2>2
<1>13. CASE Boost
  <2>1. CASE Ignore \/ Throw
    BY <2>1, <1>4 DEF Ignore, Throw
  <2>2. CASE ~(Ignore \/ Throw)
    <3>1. PICK i \in getPokemon(l.name, oppTeam) :
              SetOppTeam([oppTeam EXCEPT ![i].boosts[l.stat] = l.boost])
      BY <1>13, <2>2 DEF Boost, NullPointer
    <3>2. l.boost \in Int
      BY <1>3, <1>13, LineFields DEF Boost, At
    <3> DEFINE p == [oppTeam[i] EXCEPT !.boosts[l.stat] = l.boost]
    <3>3. /\ p \in PokemonData /\ p.name = oppTeam[i].name
          /\ p.moves = oppTeam[i].moves /\ p.fainted = oppTeam[i].fainted
      BY <1>2, <3>2 DEF PokemonData
    <3>4. SetOppTeam([oppTeam EXCEPT ![i] = p])
      BY <3>1
    <3> HIDE DEF p
    <3> QED
      BY <1>9, <3>3, <3>4
  <2> QED
    BY <2>1, <2>2
<1> QED
  BY <1>4, <1>5, <1>6, <1>7, <1>8, <1>10, <1>11, <1>12, <1>13
     DEF Next, Handle, Room, Challstr, UpdateUser, UpdateChallenges, Ignore,
         Turn, Printed, Receive, Transmit, vars

(* The opponent's team lists no Pokemon and no move twice                    *)
(* (PSUser!OppTeamDistinct).                                                 *)
THEOREM OppTeamAlwaysDistinct == Spec => []OppTeamDistinct
<1>1. Init => OppTeamDistinct
  <2>1. DOMAIN <<>> = {}
    OBVIOUS
  <2>2. ASSUME Init, NEW r \in AllRooms
        PROVE  battleData[r].oppTeam = <<>>
    BY <2>2 DEF Init, NoBattle
  <2> QED
    BY <2>1, <2>2 DEF OppTeamDistinct, Distinct
<1>2. TypeOK /\ OppTeamDistinct /\ [Next]_vars => OppTeamDistinct'
  <2> SUFFICES ASSUME TypeOK, OppTeamDistinct, [Next]_vars, NEW r \in AllRooms
               PROVE  Distinct(battleData'[r].oppTeam)
    BY DEF OppTeamDistinct
  <2>1. battleData[r].oppTeam \in Seq(PokemonData) /\ Distinct(battleData[r].oppTeam)
    BY DEF TypeOK, BattleData, OppTeamDistinct
  <2> QED
    BY <2>1, TeamStep, GrownDistinct
<1> QED
  BY <1>1, <1>2, TypeCorrect, PTL DEF Spec

(* No step forgets what is known of an opponent                              *)
(* (PSUser!OppKnowledgeNeverLost).                                           *)
THEOREM OppKnowledgeKept == Spec => OppKnowledgeNeverLost
<1>1. TypeOK /\ OppTeamDistinct /\ [Next]_vars => [OppKnowledgeGrows]_vars
  <2> SUFFICES ASSUME TypeOK, OppTeamDistinct, [Next]_vars, NEW r \in AllRooms
               PROVE  Extends(battleData[r].oppTeam, battleData'[r].oppTeam)
    BY DEF OppKnowledgeGrows
  <2>1. battleData[r].oppTeam \in Seq(PokemonData)
    BY DEF TypeOK, BattleData
  <2> QED
    BY <2>1, TeamStep, GrownExtends
<1> QED
  BY <1>1, TypeCorrect, OppTeamAlwaysDistinct, PTL DEF Spec, OppKnowledgeNeverLost

-----------------------------------------------------------------------------
(* What a request offers, and what is sent for it *)

(* A request offers exactly the bench, and no action above 8.                *)
LEMMA RequestOffer ==
    ASSUME NEW l \in RequestLine
    PROVE  LET available == moveActions(l) \cup switchActions(l) IN
           /\ available \subseteq 0..8
           /\ {a \in available : a > 3} = {i + 2 : i \in Bench(requestTeam(l))}
<1>1. /\ l.moves \in 0..4 /\ l.side \in Seq(SidePokemon)
      /\ Len(l.side) \in 1..6 /\ l.side[1].active
      /\ l.forceSwitch \in BOOLEAN /\ l.trapped \in BOOLEAN
  BY DEF RequestLine
<1>2. DOMAIN l.side = 1..Len(l.side)
  BY <1>1
<1>3. \A i \in DOMAIN l.side : l.side[i] \in SidePokemon
  BY <1>1
<1>4. moveActions(l) \subseteq 0..3
  BY <1>1 DEF moveActions
<1>5. \A i \in DOMAIN l.side : ~l.side[i].active => i \in 2..6
  BY <1>1, <1>2
<1>6. switchActions(l) \subseteq 4..8
  BY <1>5 DEF switchActions
<1>7. /\ DOMAIN requestTeam(l) = DOMAIN l.side
      /\ \A i \in DOMAIN l.side :
            /\ requestTeam(l)[i].fainted = l.side[i].fnt
            /\ requestTeam(l)[i].active = l.side[i].active
            /\ requestTeam(l)[i].trapped = (l.side[i].active /\ l.trapped)
  BY DEF requestTeam, initPokemonFromName
<1>8. 1 \in DOMAIN l.side
  BY <1>1, <1>2
<1>9. Bench(requestTeam(l)) = {j \in DOMAIN l.side : /\ ~l.side[j].active
                                                    /\ ~l.side[j].fnt
                                                    /\ ~l.trapped}
  BY <1>1, <1>7, <1>8 DEF Bench
<1>10. switchActions(l) = {i + 2 : i \in Bench(requestTeam(l))}
  BY <1>9 DEF switchActions
<1> QED
  BY <1>4, <1>6, <1>10

(* battleData changes its request fields only by a request line. *)
LEMMA RequestStep ==
    ASSUME TypeOK, [Next]_vars, NEW r \in AllRooms
    PROVE  \/ /\ battleData'[r].availableActions = battleData[r].availableActions
              /\ battleData'[r].playerTeam = battleData[r].playerTeam
           \/ \E l \in RequestLine :
                /\ battleData'[r].availableActions = moveActions(l) \cup switchActions(l)
                /\ battleData'[r].playerTeam = requestTeam(l)
<1> DEFINE l == Head(lines)
           available == moveActions(l) \cup switchActions(l)
<1>1. battleData[curRoom] \in BattleData /\ curRoom \in AllRooms
      /\ battleData \in [AllRooms -> BattleData]
  BY DEF TypeOK
<1>2. CASE UNCHANGED battleData
  BY <1>2
<1>3. CASE Player
  <2> DEFINE b == [battleData[curRoom] EXCEPT !.playerID = l.id]
  <2>1. \/ UNCHANGED battleData
        \/ battleData' = [battleData EXCEPT ![curRoom] = b]
    BY <1>3 DEF Player
  <2>2. /\ b.availableActions = battleData[curRoom].availableActions
        /\ b.playerTeam = battleData[curRoom].playerTeam
    BY <1>1 DEF BattleData
  <2> HIDE DEF b
  <2> QED
    BY <1>1, <2>1, <2>2
<1>4. CASE \E team : SetOppTeam(team)
  <2> DEFINE b(team) == [battleData[curRoom] EXCEPT !.oppTeam = team]
  <2>1. PICK team : battleData' = [battleData EXCEPT ![curRoom] = b(team)]
    BY <1>4 DEF SetOppTeam
  <2>2. /\ b(team).availableActions = battleData[curRoom].availableActions
        /\ b(team).playerTeam = battleData[curRoom].playerTeam
    BY <1>1 DEF BattleData
  <2> HIDE DEF b
  <2> QED
    BY <1>1, <2>1, <2>2
<1>5. CASE Request
  <2>1. l \in RequestLine
    BY <1>5, HeadTail, LineFields DEF Request, At, TypeOK
  <2> DEFINE b == [battleData[curRoom] EXCEPT !.playerTeam = requestTeam(l),
                                              !.availableActions = available]
  <2> HIDE DEF available
  <2>2. \/ UNCHANGED battleData
        \/ battleData' = [battleData EXCEPT ![curRoom] = b]
    <3>1. \/ UNCHANGED battleData
          \/ battleData' = [battleData EXCEPT
                 ![curRoom].playerTeam = requestTeam(l),
                 ![curRoom].availableActions = available]
      BY <1>5 DEF Request, Ignore, Throw, available
    <3> QED
      BY <1>1, <3>1
  <2>3. b.availableActions = available /\ b.playerTeam = requestTeam(l)
    BY <1>1 DEF BattleData
  <2> HIDE DEF b, l
  <2>4. CASE UNCHANGED battleData
    BY <2>4
  <2>5. CASE battleData' = [battleData EXCEPT ![curRoom] = b] /\ r = curRoom
    <3>1. battleData'[r] = b
      BY <1>1, <2>5
    <3> QED
      BY <2>1, <2>3, <3>1 DEF available
  <2>6. CASE battleData' = [battleData EXCEPT ![curRoom] = b] /\ r # curRoom
    BY <1>1, <2>6
  <2> QED
    BY <2>2, <2>4, <2>5, <2>6
<1> QED
  BY <1>2, <1>3, <1>4, <1>5
     DEF Next, Handle, Room, Challstr, UpdateUser, UpdateChallenges, Ignore, Throw,
         Switch, Move, NullPointer, Faint, DamageOrHeal, StatusOrCure, Boost,
         Turn, Printed, Receive, Transmit, vars

(* The switch actions on offer are the Pokemon that can come in              *)
(* (PSUser!SwitchActionsMatchTeam).                                          *)
THEOREM SwitchActionsAlwaysMatch == Spec => []SwitchActionsMatchTeam
<1>1. Init => SwitchActionsMatchTeam
  <2>1. DOMAIN <<>> = {}
    OBVIOUS
  <2>2. Bench(<<>>) = {}
    BY <2>1 DEF Bench
  <2>3. ASSUME Init, NEW r \in AllRooms
        PROVE  /\ battleData[r].availableActions = {}
               /\ battleData[r].playerTeam = <<>>
    BY <2>3 DEF Init, NoBattle
  <2>4. ASSUME Init, NEW r \in AllRooms
        PROVE  {a \in battleData[r].availableActions : a > 3}
                  = {i + 2 : i \in Bench(battleData[r].playerTeam)}
    <3>1. {a \in {} : a > 3} = {i + 2 : i \in {}}
      OBVIOUS
    <3> QED
      BY <2>2, <2>3, <2>4, <3>1
  <2> QED
    BY <2>4 DEF SwitchActionsMatchTeam
<1>2. TypeOK /\ SwitchActionsMatchTeam /\ [Next]_vars => SwitchActionsMatchTeam'
  <2> SUFFICES ASSUME TypeOK, SwitchActionsMatchTeam, [Next]_vars, NEW r \in AllRooms
               PROVE  {a \in battleData'[r].availableActions : a > 3}
                         = {i + 2 : i \in Bench(battleData'[r].playerTeam)}
    BY DEF SwitchActionsMatchTeam, Bench
  <2>1. {a \in battleData[r].availableActions : a > 3}
           = {i + 2 : i \in Bench(battleData[r].playerTeam)}
    BY DEF SwitchActionsMatchTeam
  <2> QED
    BY <2>1, RequestStep, RequestOffer
<1> QED
  BY <1>1, <1>2, TypeCorrect, PTL DEF Spec

(* Every action ever on offer is one of the nine the code numbers. *)
ActionsInRange == \A r \in AllRooms : battleData[r].availableActions \subseteq 0..8

(* Actions in 0..8 are sent in wire form.                                    *)
LEMMA MoveMessageForm ==
    ASSUME NEW room, NEW actions \in SUBSET (0..8),
           NEW m \in moveMessages(room, actions)
    PROVE  InWireForm(m)
  BY DEF moveMessages, InWireForm

(* The messages that accept a challenge carry no slot.                       *)
LEMMA AcceptMessageForm ==
    ASSUME NEW user, NEW format
    PROVE  LET ms == acceptMessages(user, format) IN
           /\ Len(ms) \in Nat /\ DOMAIN ms = 1..Len(ms)
           /\ \A i \in DOMAIN ms : InWireForm(ms[i])
<1> DEFINE utm == [cmd |-> "utm"]
           accept == [cmd |-> "accept", user |-> user]
<1>1. InWireForm(utm) /\ InWireForm(accept)
  BY DEF InWireForm
<1> HIDE DEF utm, accept
<1>2. CASE acceptMessages(user, format) = <<>>
  BY <1>2
<1>3. CASE acceptMessages(user, format) = <<accept>>
  BY <1>1, <1>3
<1>4. CASE acceptMessages(user, format) = <<utm, accept>>
  BY <1>1, <1>4
<1> QED
  BY <1>2, <1>3, <1>4 DEF acceptMessages, utm, accept

(* Every step keeps what is sent in wire form.                               *)
LEMMA SentStep ==
    ASSUME TypeOK, SentInWireForm, ActionsInRange, [Next]_vars
    PROVE  SentInWireForm'
<1>1. sent \in Seq(Message) /\ \A i \in DOMAIN sent : InWireForm(sent[i])
  BY DEF TypeOK, SentInWireForm
<1>2. ASSUME NEW m, InWireForm(m), sent' = Append(sent, m)
      PROVE  SentInWireForm'
  <2>1. /\ DOMAIN sent' = 1..(Len(sent) + 1) /\ DOMAIN sent = 1..Len(sent)
        /\ \A i \in DOMAIN sent : sent'[i] = sent[i]
        /\ sent'[Len(sent) + 1] = m /\ Len(sent) \in Nat
    BY <1>1, <1>2
  <2> QED
    BY <1>1, <1>2, <2>1 DEF SentInWireForm
<1>3. CASE UNCHANGED sent
  BY <1>1, <1>3 DEF SentInWireForm
<1>4. CASE Request
  <2> DEFINE l == Head(lines)
             available == moveActions(l) \cup switchActions(l)
  <2>1. l \in RequestLine
    BY <1>4, HeadTail, LineFields DEF Request, At, TypeOK
  <2>2. available \in SUBSET (0..8)
    BY <2>1, RequestOffer
  <2> HIDE DEF l, available
  <2>3. \/ UNCHANGED sent
        \/ \E m \in moveMessages(curRoom, available) : sent' = Append(sent, m)
    BY <1>4 DEF Request, Ignore, Throw, l, available
  <2>4. \A m \in moveMessages(curRoom, available) : InWireForm(m)
    BY <2>2, MoveMessageForm
  <2> QED
    BY <1>2, <1>3, <2>3, <2>4
<1>5. CASE Turn
  <2> DEFINE available == battleData[curRoom].availableActions
  <2>1. available \in SUBSET (0..8)
    BY DEF ActionsInRange, TypeOK
  <2>2. PICK m \in moveMessages(curRoom, available) : sent' = Append(sent, m)
    BY <1>5 DEF Turn
  <2>3. InWireForm(m)
    BY <2>1, MoveMessageForm
  <2> QED
    BY <1>2, <2>2, <2>3
<1>6. CASE UpdateChallenges
  <2>1. CASE Ignore
    BY <1>3, <2>1 DEF Ignore
  <2>2. CASE ~Ignore
    <3> DEFINE l == Head(lines)
    <3>1. PICK user, format : \/ UNCHANGED sent
                              \/ sent' = sent \o acceptMessages(user, format)
      BY <1>6, <2>2 DEF UpdateChallenges
    <3> DEFINE ms == acceptMessages(user, format)
    <3>2. /\ Len(ms) \in Nat /\ DOMAIN ms = 1..Len(ms)
          /\ \A i \in DOMAIN ms : InWireForm(ms[i])
      BY AcceptMessageForm
    <3> HIDE DEF ms
    <3>3. CASE sent' = sent \o ms
      <4>1. \A i \in DOMAIN sent' :
               \/ i \in DOMAIN sent /\ sent'[i] = sent[i]
               \/ \E j \in DOMAIN ms : sent'[i] = ms[j]
        BY <1>1, <3>2, <3>3
      <4> QED
        BY <1>1, <3>2, <4>1 DEF SentInWireForm
    <3> QED
      BY <1>3, <3>1, <3>3 DEF ms
  <2> QED
    BY <2>1, <2>2
<1>7. CASE Transmit
  <2>1. \A i \in DOMAIN sent' : i + 1 \in DOMAIN sent /\ sent'[i] = sent[i + 1]
    BY <1>1, <1>7 DEF Transmit
  <2> QED
    BY <1>1, <2>1 DEF SentInWireForm
<1> QED
  BY <1>3, <1>4, <1>5, <1>6, <1>7
     DEF Next, Handle, Room, Player, Challstr, UpdateUser, Ignore, Throw, SetOppTeam,
         Switch, Move, NullPointer, Faint, DamageOrHeal, StatusOrCure, Boost,
         Printed, Receive, vars

(* Whatever is sent keeps to the ranges of devnotes.txt                      *)
(* (PSUser!SentInWireForm); ActionsInRange makes it inductive.               *)
THEOREM SentAlwaysInWireForm == Spec => []SentInWireForm
<1>1. Init => SentInWireForm /\ ActionsInRange
  <2>1. DOMAIN <<>> = {}
    OBVIOUS
  <2>2. ASSUME Init, NEW r \in AllRooms
        PROVE  battleData[r].availableActions = {}
    BY <2>2 DEF Init, NoBattle
  <2> QED
    BY <2>1, <2>2 DEF Init, SentInWireForm, ActionsInRange
<1>2. TypeOK /\ ActionsInRange /\ [Next]_vars => ActionsInRange'
  <2> SUFFICES ASSUME TypeOK, ActionsInRange, [Next]_vars, NEW r \in AllRooms
               PROVE  battleData'[r].availableActions \subseteq 0..8
    BY DEF ActionsInRange
  <2> QED
    BY RequestStep, RequestOffer DEF ActionsInRange
<1>3. TypeOK /\ SentInWireForm /\ ActionsInRange /\ [Next]_vars => SentInWireForm'
  BY SentStep
<1> QED
  BY <1>1, <1>2, <1>3, TypeCorrect, PTL DEF Spec
=============================================================================
