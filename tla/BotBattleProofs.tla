--------------------------- MODULE BotBattleProofs ---------------------------
(* Proofs about the bot in a battle, for any teams, names, moves and effects.*)
(* Whatever is read, the battle is an environment PSUser allows.  As long as *)
(* the stream is read in step, the bot answers requests, each of them once;  *)
(* as long as, too, its data have the names it is told, it stays in step with*)
(* the server: it chooses what the request lists and informed, knows of the  *)
(* opponent what it was shown, and does not crash.                           *)
EXTENDS BotBattle, PSUserProofs

-----------------------------------------------------------------------------
(* The battle is one of PSUser's environments *)

LEMMA StepIsPSUser == [BattleNext]_allvars => [Next]_vars
  <1> SUFFICES ASSUME [BattleNext]_allvars PROVE [Next]_vars
    OBVIOUS
  <1>1. CASE Deliver
    BY <1>1 DEF Deliver, Next
  <1>2. CASE HandleLine
    BY <1>2 DEF HandleLine, Next
  <1>3. CASE PlayTurn
    BY <1>3 DEF PlayTurn, Transmit, Next
  <1>4. CASE Replace
    BY <1>4 DEF Replace, Transmit, Next, vars
  <1>5. CASE Start \/ OpponentLeaves \/ FrameTooLong \/ Done \/ UNCHANGED allvars
    BY <1>5 DEF Start, OpponentLeaves, FrameTooLong, Done, allvars
  <1>6. CASE ReadGarbage
    BY <1>6 DEF ReadGarbage, Next
  <1>7. CASE Refuse
    BY <1>7 DEF Refuse, Transmit, Next
  <1> QED
    BY <1>1, <1>2, <1>3, <1>4, <1>5, <1>6, <1>7 DEF BattleNext

(* Seen from the bot, the battle is an environment PSUser allows, so every   *)
(* theorem about PSUser holds in it (PSConnection.hpp:43).                   *)
THEOREM BattleIsPSUser == BattleSpec => BotIsPSUser
  <1>1. BattleInit => Init
    BY DEF BattleInit
  <1> QED
    BY <1>1, StepIsPSUser, PTL DEF BattleSpec, BotIsPSUser, Spec

(* In a battle too the opponent's team lists nothing twice, the switches on  *)
(* offer are those of the stored team, and what is sent keeps to the ranges  *)
(* of the protocol.                                                          *)
THEOREM BattleInheritsPSUser ==
    BattleSpec => [](OppTeamDistinct /\ SwitchActionsMatchTeam /\ SentInWireForm)
  BY BattleIsPSUser, OppTeamAlwaysDistinct, SwitchActionsAlwaysMatch,
     SentAlwaysInWireForm, PTL DEF BotIsPSUser

-----------------------------------------------------------------------------
(* Frames *)

(* The lines that tell what happened in a turn, and all lines of a battle.   *)
TellTypes == {"switch", "move", "faint", "-damage", "-heal", "-status", "-curestatus"}
BattleTypes == TellTypes \cup {"room", "player", "request", "turn", "win", "error"}

(* The lines that make the bot choose: PSUser.hpp:262 and :449.              *)
Asks(l) == \/ l.type = "turn"
           \/ l.type = "request" /\ ~l.wait /\ l.forceSwitch

Asked(f) == \E j \in DOMAIN f : Asks(f[j])

(* A sequence of lines of some types. *)
LinesOf(f, T) == \E S : f \in Seq(S) /\ \A l \in S : l.type \in T

(* A frame of a battle asks at most once. *)
IsFrame(f) == /\ LinesOf(f, BattleTypes)
              /\ \A j, k \in DOMAIN f : Asks(f[j]) /\ Asks(f[k]) => j = k

LEMMA AppendLine ==
    ASSUME NEW T, NEW f, LinesOf(f, T), NEW l, l.type \in T
    PROVE  LinesOf(Append(f, l), T)
  <1>1. PICK S : f \in Seq(S) /\ \A x \in S : x.type \in T
    BY DEF LinesOf
  <1>2. Append(f, l) \in Seq(S \cup {l})
    BY <1>1
  <1> QED
    BY <1>1, <1>2 DEF LinesOf

LEMMA ConcatLines ==
    ASSUME NEW T, NEW f, LinesOf(f, T), NEW g, LinesOf(g, T)
    PROVE  LinesOf(f \o g, T)
  <1>1. PICK S : f \in Seq(S) /\ \A x \in S : x.type \in T
    BY DEF LinesOf
  <1>2. PICK R : g \in Seq(R) /\ \A x \in R : x.type \in T
    BY DEF LinesOf
  <1>3. f \in Seq(S \cup R) /\ g \in Seq(S \cup R)
    BY <1>1, <1>2
  <1>4. f \o g \in Seq(S \cup R)
    BY <1>3
  <1> QED
    BY <1>1, <1>2, <1>4 DEF LinesOf

LEMMA ShortLines ==
    ASSUME NEW T
    PROVE  /\ LinesOf(<<>>, T)
           /\ \A x : x.type \in T => LinesOf(<<x>>, T)
           /\ \A x, y : x.type \in T /\ y.type \in T => LinesOf(<<x, y>>, T)
  <1>1. LinesOf(<<>>, T)
    <2> DEFINE S == {x \in {} : TRUE}
    <2>1. \A l \in S : l.type \in T
      OBVIOUS
    <2> HIDE DEF S
    <2>2. <<>> \in Seq(S)
      BY ShortSeq
    <2> QED
      BY <2>1, <2>2 DEF LinesOf
  <1>2. ASSUME NEW x, NEW y, x.type \in T, y.type \in T
        PROVE  LinesOf(<<x>>, T) /\ LinesOf(<<x, y>>, T)
    <2> DEFINE S == {x, y}
    <2>1. x \in S /\ y \in S /\ \A l \in S : l.type \in T
      BY <1>2
    <2> HIDE DEF S
    <2>2. <<x>> \in Seq(S) /\ <<x, y>> \in Seq(S)
      BY <2>1, ShortSeq
    <2> QED
      BY <2>1, <2>2 DEF LinesOf
  <1> QED
    BY <1>1, <1>2

(* The lines of a frame of a room come after the room's. *)
LEMMA InRoomFacts ==
    ASSUME NEW f, LinesOf(f, BattleTypes)
    PROVE  /\ LinesOf(InRoom(f), BattleTypes)
           /\ Len(f) \in Nat /\ DOMAIN f = 1..Len(f)
           /\ DOMAIN InRoom(f) = 1..(Len(f) + 1)
           /\ InRoom(f)[1] = [type |-> "room", room |-> room]
           /\ \A j \in DOMAIN f : InRoom(f)[j + 1] = f[j]
  <1> DEFINE r == [type |-> "room", room |-> room]
  <1>1. PICK S : f \in Seq(S) /\ \A x \in S : x.type \in BattleTypes
    BY DEF LinesOf
  <1>2. r.type \in BattleTypes
    BY DEF BattleTypes
  <1> HIDE DEF r
  <1>3. <<r>> \o f \in Seq(S \cup {r})
    BY <1>1
  <1>4. /\ Len(f) \in Nat /\ DOMAIN f = 1..Len(f)
        /\ DOMAIN (<<r>> \o f) = 1..(Len(f) + 1)
        /\ (<<r>> \o f)[1] = r
        /\ \A j \in 1..Len(f) : (<<r>> \o f)[j + 1] = f[j]
    BY <1>1
  <1>5. LinesOf(<<r>> \o f, BattleTypes)
    BY <1>1, <1>2, <1>3 DEF LinesOf
  <1> QED
    BY <1>4, <1>5 DEF InRoom, r

(* A frame that only tells asks nothing; one more line may ask. *)
LEMMA TellFrame ==
    ASSUME NEW f, LinesOf(f, TellTypes)
    PROVE  /\ IsFrame(InRoom(f)) /\ ~Asked(InRoom(f))
           /\ \A l : l.type \in BattleTypes =>
                 /\ IsFrame(InRoom(Append(f, l)))
                 /\ Asked(InRoom(Append(f, l))) => Asks(l)
  <1>1. LinesOf(f, BattleTypes)
    BY DEF LinesOf, BattleTypes
  <1>2. PICK S : f \in Seq(S) /\ \A x \in S : x.type \in TellTypes
    BY DEF LinesOf
  <1>3. \A j \in DOMAIN f : f[j] \in S
    BY <1>2
  <1>4. \A j \in DOMAIN f : ~Asks(f[j])
    BY <1>2, <1>3 DEF Asks, TellTypes
  <1>5. ~Asks([type |-> "room", room |-> room])
    BY DEF Asks
  <1>7. \A j \in DOMAIN InRoom(f) : ~Asks(InRoom(f)[j])
    <2> SUFFICES ASSUME NEW j \in DOMAIN InRoom(f) PROVE ~Asks(InRoom(f)[j])
      OBVIOUS
    <2>1. j = 1 \/ j - 1 \in DOMAIN f
      BY <1>1, InRoomFacts
    <2>2. j \in Nat /\ (j - 1) + 1 = j
      BY <1>1, InRoomFacts
    <2> QED
      BY <1>1, <1>4, <1>5, <2>1, <2>2, InRoomFacts
  <1>8. IsFrame(InRoom(f)) /\ ~Asked(InRoom(f))
    BY <1>1, <1>7, InRoomFacts DEF IsFrame, Asked
  <1>9. ASSUME NEW l, l.type \in BattleTypes
        PROVE  /\ IsFrame(InRoom(Append(f, l)))
               /\ Asked(InRoom(Append(f, l))) => Asks(l)
    <2> DEFINE g == Append(f, l)
    <2>1. LinesOf(g, BattleTypes)
      BY <1>1, <1>9, AppendLine
    <2>2. /\ Len(f) \in Nat /\ DOMAIN f = 1..Len(f)
          /\ DOMAIN g = 1..(Len(f) + 1) /\ Len(g) = Len(f) + 1
          /\ \A j \in DOMAIN f : g[j] = f[j]
          /\ g[Len(f) + 1] = l
      BY <1>2
    <2> HIDE DEF g
    <2>3. /\ LinesOf(InRoom(g), BattleTypes)
          /\ DOMAIN InRoom(g) = 1..(Len(g) + 1)
          /\ InRoom(g)[1] = [type |-> "room", room |-> room]
          /\ \A j \in DOMAIN g : InRoom(g)[j + 1] = g[j]
      BY <2>1, InRoomFacts
    <2>4. ASSUME NEW j \in DOMAIN InRoom(g), Asks(InRoom(g)[j])
          PROVE  j = Len(f) + 2 /\ Asks(l)
      <3>1. j # 1
        BY <1>5, <2>3, <2>4
      <3>2. j \in Nat /\ j - 1 \in DOMAIN g /\ (j - 1) + 1 = j
        BY <2>2, <2>3, <3>1
      <3>3. Asks(g[j - 1])
        BY <2>3, <2>4, <3>2
      <3>4. j - 1 \notin DOMAIN f
        BY <1>4, <2>2, <3>3
      <3>5. j - 1 = Len(f) + 1
        BY <2>2, <3>2, <3>4
      <3> QED
        BY <2>2, <3>2, <3>3, <3>5
    <2> QED
      BY <2>3, <2>4 DEF IsFrame, Asked, g
  <1> QED
    BY <1>8, <1>9

-----------------------------------------------------------------------------
(* What the server tells of a turn *)

(* A state of the server with the lines that tell how it came about. *)
Telling(s) == /\ s = [order |-> s.order, mon |-> s.mon, lines |-> s.lines]
              /\ LinesOf(s.lines, TellTypes)

LEMMA NowTells == Telling(Now)
  <1>1. Now.order = order /\ Now.mon = mon /\ Now.lines = <<>>
    BY DEF Now
  <1> QED
    BY <1>1, ShortLines DEF Now, Telling

LEMMA SwitchedTells ==
    ASSUME NEW s, Telling(s), NEW p, NEW k
    PROVE  Telling(switched(s, p, k))
  <1> DEFINE new == [s EXCEPT !.order[p] = [@ EXCEPT ![1] = s.order[p][k],
                                                     ![k] = s.order[p][1]]]
             l == [type |-> "switch", id |-> p, name |-> out(new, p),
                   hp |-> s.mon[p][out(new, p)].hp]
  <1>1. /\ new.lines = s.lines
        /\ new = [order |-> new.order, mon |-> new.mon, lines |-> new.lines]
    BY DEF Telling
  <1>2. switched(s, p, k) = [new EXCEPT !.lines = Append(new.lines, l)]
    BY DEF switched
  <1>3. l.type \in TellTypes
    BY DEF TellTypes
  <1> HIDE DEF new, l
  <1>4. LinesOf(Append(new.lines, l), TellTypes)
    BY <1>1, <1>3, AppendLine DEF Telling
  <1> QED
    BY <1>1, <1>2, <1>4 DEF Telling

LEMMA HpSetTells ==
    ASSUME NEW s, Telling(s), NEW p, NEW type \in TellTypes, NEW h
    PROVE  Telling(hpSet(s, p, type, h))
  <1> DEFINE l == [type |-> type, id |-> p, name |-> out(s, p), hp |-> h]
             told == IF h = 0 THEN <<l, Named("faint", s, p)>> ELSE <<l>>
             m == [s EXCEPT !.mon[p][out(s, p)].hp = h]
  <1>1. l.type \in TellTypes /\ Named("faint", s, p).type \in TellTypes
    BY DEF Named, TellTypes
  <1>2. /\ m.lines = s.lines
        /\ m = [order |-> m.order, mon |-> m.mon, lines |-> m.lines]
    BY DEF Telling
  <1>3. hpSet(s, p, type, h) = [m EXCEPT !.lines = s.lines \o told]
    BY <1>2 DEF hpSet
  <1> HIDE DEF l, m
  <1>4. LinesOf(told, TellTypes)
    BY <1>1, ShortLines
  <1> HIDE DEF told
  <1>5. LinesOf(s.lines \o told, TellTypes)
    BY <1>4, ConcatLines DEF Telling
  <1> QED
    BY <1>2, <1>3, <1>5 DEF Telling

LEMMA ParSetTells ==
    ASSUME NEW s, Telling(s), NEW p, NEW type \in TellTypes, NEW par
    PROVE  Telling(parSet(s, p, type, par))
  <1> DEFINE l == [type |-> type, id |-> p, name |-> out(s, p), status |-> "par"]
             m == [s EXCEPT !.mon[p][out(s, p)].par = par]
  <1>1. l.type \in TellTypes
    OBVIOUS
  <1>2. /\ m.lines = s.lines
        /\ m = [order |-> m.order, mon |-> m.mon, lines |-> m.lines]
    BY DEF Telling
  <1>3. parSet(s, p, type, par) = [m EXCEPT !.lines = Append(s.lines, l)]
    BY <1>2 DEF parSet
  <1> HIDE DEF l, m
  <1>4. LinesOf(Append(s.lines, l), TellTypes)
    BY <1>1, AppendLine DEF Telling
  <1> QED
    BY <1>2, <1>3, <1>4 DEF Telling

LEMMA AttackedTells ==
    ASSUME NEW s, Telling(s), NEW p, NEW effect, NEW t \in attacked(s, p, effect)
    PROVE  Telling(t)
  <1> DEFINE q == Other(p)
             hp == s.mon[q][out(s, q)].hp
             l == [type |-> "move", id |-> p, name |-> out(s, p), move |-> MoveOf[out(s, p)]]
             used == [s EXCEPT !.lines = Append(@, l)]
  <1>1. l.type \in TellTypes
    BY DEF TellTypes
  <1>2. \/ t = s
        \/ t = used
        \/ t = hpSet(used, q, "-damage", hp - 1)
        \/ t = hpSet(used, p, "-heal", MaxHP[p])
        \/ t = parSet(used, q, "-status", TRUE)
        \/ t = parSet(used, p, "-curestatus", FALSE)
        \/ t = hpSet(hpSet(used, q, "-damage", 0), p, "-damage", 0)
    BY DEF attacked
  <1> HIDE DEF q, hp, l
  <1>3. Telling(used)
    <2>1. used = [order |-> s.order, mon |-> s.mon, lines |-> Append(s.lines, l)]
      BY DEF Telling
    <2>2. LinesOf(Append(s.lines, l), TellTypes)
      BY <1>1, AppendLine DEF Telling
    <2> HIDE DEF used
    <2> QED
      BY <2>1, <2>2 DEF Telling
  <1>4. {"-damage", "-heal", "-status", "-curestatus"} \subseteq TellTypes
    BY DEF TellTypes
  <1> HIDE DEF used
  <1>5. \A n : Telling(hpSet(used, q, "-damage", n))
    BY <1>3, <1>4, HpSetTells
  <1> QED
    BY <1>2, <1>3, <1>4, <1>5, HpSetTells, ParSetTells

-----------------------------------------------------------------------------
(* Frames on their way *)

QueueOK(q)  == \E F : q \in Seq(F) /\ \A f \in F : IsFrame(f)
AnyAsked(q) == \E i \in DOMAIN q : Asked(q[i])
OneAsked(q) == \A i, k \in DOMAIN q : Asked(q[i]) /\ Asked(q[k]) => i = k

(* What is left of a frame asks only what the frame asked, and nothing once  *)
(* the line that asked has been handled.                                     *)
LEMMA TailFrame ==
    ASSUME NEW f, IsFrame(f), f # <<>>
    PROVE  /\ IsFrame(Tail(f)) /\ Head(f).type \in BattleTypes
           /\ Asked(Tail(f)) => Asked(f)
           /\ Asks(Head(f)) => Asked(f) /\ ~Asked(Tail(f))
  <1>1. PICK S : f \in Seq(S) /\ \A x \in S : x.type \in BattleTypes
    BY DEF IsFrame, LinesOf
  <1>2. /\ Len(f) \in Nat /\ Len(f) > 0 /\ DOMAIN f = 1..Len(f)
        /\ Tail(f) \in Seq(S) /\ Head(f) = f[1] /\ Head(f) \in S
        /\ DOMAIN Tail(f) = 1..(Len(f) - 1)
        /\ \A j \in 1..(Len(f) - 1) : Tail(f)[j] = f[j + 1]
    BY <1>1
  <1>3. \A j, k \in DOMAIN Tail(f) : Asks(Tail(f)[j]) /\ Asks(Tail(f)[k]) => j = k
    <2> SUFFICES ASSUME NEW j \in DOMAIN Tail(f), NEW k \in DOMAIN Tail(f),
                        Asks(Tail(f)[j]), Asks(Tail(f)[k])
                 PROVE  j = k
      OBVIOUS
    <2>1. Asks(f[j + 1]) /\ Asks(f[k + 1]) /\ j + 1 \in DOMAIN f /\ k + 1 \in DOMAIN f
          /\ j \in Int /\ k \in Int
      BY <1>2
    <2>2. j + 1 = k + 1
      BY <2>1 DEF IsFrame
    <2> QED
      BY <2>1, <2>2
  <1>4. LinesOf(Tail(f), BattleTypes)
    BY <1>1, <1>2 DEF LinesOf
  <1>5. ASSUME NEW j \in DOMAIN Tail(f), Asks(Tail(f)[j])
        PROVE  Asked(f) /\ ~Asks(Head(f))
    <2>1. j + 1 \in DOMAIN f /\ Asks(f[j + 1]) /\ 1 \in DOMAIN f /\ j + 1 # 1
      BY <1>2, <1>5
    <2> QED
      BY <1>2, <2>1 DEF Asked, IsFrame
  <1>6. Asks(Head(f)) => Asked(f)
    BY <1>2 DEF Asked
  <1> QED
    BY <1>1, <1>2, <1>3, <1>4, <1>5, <1>6 DEF IsFrame, Asked

LEMMA EmptyFrame == IsFrame(<<>>) /\ ~Asked(<<>>)
  BY ShortLines DEF IsFrame, Asked

LEMMA TailQueue ==
    ASSUME NEW q, QueueOK(q), OneAsked(q), q # <<>>
    PROVE  /\ QueueOK(Tail(q)) /\ OneAsked(Tail(q)) /\ IsFrame(Head(q))
           /\ AnyAsked(Tail(q)) => AnyAsked(q)
           /\ Asked(Head(q)) => AnyAsked(q) /\ ~AnyAsked(Tail(q))
  <1>1. PICK F : q \in Seq(F) /\ \A x \in F : IsFrame(x)
    BY DEF QueueOK
  <1>2. /\ Len(q) \in Nat /\ Len(q) > 0 /\ DOMAIN q = 1..Len(q)
        /\ Tail(q) \in Seq(F) /\ Head(q) = q[1] /\ Head(q) \in F
        /\ DOMAIN Tail(q) = 1..(Len(q) - 1)
        /\ \A j \in 1..(Len(q) - 1) : Tail(q)[j] = q[j + 1]
    BY <1>1
  <1>3. \A j, k \in DOMAIN Tail(q) : Asked(Tail(q)[j]) /\ Asked(Tail(q)[k]) => j = k
    <2> SUFFICES ASSUME NEW j \in DOMAIN Tail(q), NEW k \in DOMAIN Tail(q),
                        Asked(Tail(q)[j]), Asked(Tail(q)[k])
                 PROVE  j = k
      OBVIOUS
    <2>1. Asked(q[j + 1]) /\ Asked(q[k + 1]) /\ j + 1 \in DOMAIN q /\ k + 1 \in DOMAIN q
          /\ j \in Int /\ k \in Int
      BY <1>2
    <2>2. j + 1 = k + 1
      BY <2>1 DEF OneAsked
    <2> QED
      BY <2>1, <2>2
  <1>4. QueueOK(Tail(q)) /\ IsFrame(Head(q))
    BY <1>1, <1>2 DEF QueueOK
  <1>5. ASSUME NEW j \in DOMAIN Tail(q), Asked(Tail(q)[j])
        PROVE  AnyAsked(q) /\ ~Asked(Head(q))
    <2>1. j + 1 \in DOMAIN q /\ Asked(q[j + 1]) /\ 1 \in DOMAIN q /\ j + 1 # 1
      BY <1>2, <1>5
    <2> QED
      BY <1>2, <2>1 DEF AnyAsked, OneAsked
  <1>6. Asked(Head(q)) => AnyAsked(q)
    BY <1>2 DEF AnyAsked
  <1> QED
    BY <1>3, <1>4, <1>5, <1>6 DEF OneAsked, AnyAsked

(* Frames of which at most one asks join frames that ask nothing. *)
LEMMA JoinQueues ==
    ASSUME NEW q, QueueOK(q), ~AnyAsked(q), NEW g, QueueOK(g), OneAsked(g)
    PROVE  /\ QueueOK(q \o g) /\ OneAsked(q \o g)
           /\ AnyAsked(q \o g) => AnyAsked(g)
  <1>1. PICK F : q \in Seq(F) /\ \A x \in F : IsFrame(x)
    BY DEF QueueOK
  <1>2. PICK G : g \in Seq(G) /\ \A x \in G : IsFrame(x)
    BY DEF QueueOK
  <1>3. q \in Seq(F \cup G) /\ g \in Seq(F \cup G)
    BY <1>1, <1>2
  <1>4. /\ q \o g \in Seq(F \cup G)
        /\ Len(q) \in Nat /\ DOMAIN q = 1..Len(q) /\ Len(g) \in Nat /\ DOMAIN g = 1..Len(g)
        /\ DOMAIN (q \o g) = 1..(Len(q) + Len(g))
        /\ \A j \in 1..Len(q) : (q \o g)[j] = q[j]
        /\ \A j \in 1..(Len(q) + Len(g)) : j > Len(q) => (q \o g)[j] = g[j - Len(q)]
    BY <1>3
  <1>5. QueueOK(q \o g)
    BY <1>1, <1>2, <1>4 DEF QueueOK
  <1>6. ASSUME NEW j \in DOMAIN (q \o g), Asked((q \o g)[j])
        PROVE  j \in Int /\ j - Len(q) \in DOMAIN g /\ Asked(g[j - Len(q)])
    <2>1. ~ (j \in 1..Len(q))
      BY <1>4, <1>6 DEF AnyAsked
    <2>2. j \in Int /\ j > Len(q) /\ j <= Len(q) + Len(g)
      BY <1>4, <2>1
    <2> QED
      BY <1>4, <1>6, <2>2
  <1>7. OneAsked(q \o g)
    <2> SUFFICES ASSUME NEW j \in DOMAIN (q \o g), NEW k \in DOMAIN (q \o g),
                        Asked((q \o g)[j]), Asked((q \o g)[k])
                 PROVE  j = k
      BY DEF OneAsked
    <2>1. j - Len(q) = k - Len(q)
      BY <1>6 DEF OneAsked
    <2> QED
      BY <1>4, <1>6, <2>1
  <1> QED
    BY <1>5, <1>6, <1>7 DEF AnyAsked

(* Three frames one of which may ask. *)
LEMMA ShortQueue ==
    ASSUME NEW a, IsFrame(a), NEW b, IsFrame(b), NEW c, IsFrame(c), ~Asked(a)
    PROVE  /\ QueueOK(<<a>>) /\ ~AnyAsked(<<a>>) /\ OneAsked(<<a>>)
           /\ QueueOK(<<b>>) /\ OneAsked(<<b>>) /\ AnyAsked(<<b>>) => Asked(b)
           /\ QueueOK(<<b, c>>)
           /\ ~Asked(b) \/ ~Asked(c) => OneAsked(<<b, c>>)
           /\ AnyAsked(<<b, c>>) => Asked(b) \/ Asked(c)
           /\ QueueOK(<<a, b, c>>)
           /\ ~Asked(b) \/ ~Asked(c) => OneAsked(<<a, b, c>>)
  <1> DEFINE F == {a, b, c}
  <1>1. \A f \in F : IsFrame(f)
    OBVIOUS
  <1>2. <<a>> \in Seq(F) /\ <<b>> \in Seq(F) /\ <<b, c>> \in Seq(F) /\ <<a, b, c>> \in Seq(F)
    OBVIOUS
  <1>3. QueueOK(<<a>>) /\ QueueOK(<<b>>) /\ QueueOK(<<b, c>>) /\ QueueOK(<<a, b, c>>)
    <2> HIDE DEF F
    <2> QED
      BY <1>1, <1>2 DEF QueueOK
  <1> QED
    BY <1>3 DEF OneAsked, AnyAsked

-----------------------------------------------------------------------------
(* Requests and answers *)

(* Of the frames on their way, the lines being handled and the choices sent  *)
(* at most one is, or will be, an answer, and then the server awaits it and  *)
(* has not refused one.                                                      *)
Pending ==
    /\ QueueOK(toBot) /\ OneAsked(toBot) /\ IsFrame(lines)
    /\ ~ (Asked(lines) /\ AnyAsked(toBot))
    /\ sent # <<>> => ~Asked(lines) /\ ~AnyAsked(toBot) /\ \E m : sent = <<m>>
    /\ Asked(lines) \/ AnyAsked(toBot) \/ sent # <<>> => Awaits /\ ~refused
    /\ refused => Awaits

LEMMA RequestFrame ==
    ASSUME NEW s, NEW wait, NEW force, NEW trap
    PROVE  /\ IsFrame(RequestFor(s, wait, force, trap))
           /\ Asked(RequestFor(s, wait, force, trap)) => ~wait /\ force
  <1> DEFINE l == [type |-> "request", wait |-> wait, forceSwitch |-> force,
                   trapped |-> trap, moves |-> IF trap THEN 1 ELSE 4, side |-> SideOf(s)]
  <1>1. l.type \in BattleTypes /\ (Asks(l) => ~wait /\ force)
    BY DEF BattleTypes, Asks
  <1>2. RequestFor(s, wait, force, trap) = InRoom(<<l>>)
    BY DEF RequestFor
  <1> HIDE DEF l
  <1>3. <<l>> = Append(<<>>, l)
    OBVIOUS
  <1> QED
    BY <1>1, <1>2, <1>3, TellFrame, ShortLines

(* At the end of a turn the server asks at most once, and awaits an answer.  *)
LEMMA CommitAsks ==
    ASSUME ~outOfStep, QueueOK(toBot), ~AnyAsked(toBot),
           NEW s, NEW trap, NEW dis, Telling(s), Commit(s, trap, dis)
    PROVE  /\ QueueOK(toBot') /\ OneAsked(toBot') /\ (AnyAsked(toBot') => Awaits')
           /\ refused' = FALSE
  <1>1. ASSUME NEW u, toBot' = Append(toBot, InRoom(Append(s.lines, [type |-> "win", name |-> u])))
        PROVE  QueueOK(toBot') /\ OneAsked(toBot') /\ (AnyAsked(toBot') => Awaits')
    <2> DEFINE l == [type |-> "win", name |-> u]
    <2>1. l.type \in BattleTypes /\ ~Asks(l)
      BY DEF BattleTypes, Asks
    <2> HIDE DEF l
    <2>2. IsFrame(InRoom(Append(s.lines, l))) /\ ~Asked(InRoom(Append(s.lines, l)))
      BY <2>1, TellFrame DEF Telling
    <2>3. toBot' = toBot \o <<InRoom(Append(s.lines, l))>>
      <3>1. PICK F : toBot \in Seq(F)
        BY DEF QueueOK
      <3>2. \A f : Append(toBot, f) = toBot \o <<f>>
        BY <3>1
      <3> QED
        BY <1>1, <3>2 DEF l
    <2> QED
      BY <2>2, <2>3, JoinQueues, ShortQueue, EmptyFrame
  <1>2. ASSUME phase' = "force", order' = s.order, mon' = s.mon,
               toBot' = toBot \o <<RequestFor(s, ~down(s, "p1"), down(s, "p1"), FALSE),
                                   InRoom(s.lines)>>
        PROVE  QueueOK(toBot') /\ OneAsked(toBot') /\ (AnyAsked(toBot') => Awaits')
    <2> DEFINE b == RequestFor(s, ~down(s, "p1"), down(s, "p1"), FALSE)
               c == InRoom(s.lines)
    <2>1. IsFrame(b) /\ (Asked(b) => down(s, "p1"))
      BY RequestFrame
    <2>2. IsFrame(c) /\ ~Asked(c)
      BY TellFrame DEF Telling
    <2>3. down(s, "p1") => Awaits'
      BY <1>2 DEF down, out, Now, Awaits
    <2>4. toBot' = toBot \o <<b, c>>
      BY <1>2
    <2> HIDE DEF b, c
    <2>5. QueueOK(<<b, c>>) /\ OneAsked(<<b, c>>) /\ (AnyAsked(<<b, c>>) => Asked(b))
      BY <2>1, <2>2, EmptyFrame, ShortQueue
    <2> QED
      BY <2>1, <2>3, <2>4, <2>5, JoinQueues
  <1>3. ASSUME phase' = "turn",
               toBot' = toBot \o <<RequestFor(s, FALSE, FALSE, trap),
                                   InRoom(Append(s.lines, [type |-> "turn"]))>>
        PROVE  QueueOK(toBot') /\ OneAsked(toBot') /\ (AnyAsked(toBot') => Awaits')
    <2> DEFINE b == RequestFor(s, FALSE, FALSE, trap)
               c == InRoom(Append(s.lines, [type |-> "turn"]))
    <2>1. IsFrame(b) /\ ~Asked(b)
      BY RequestFrame
    <2>2. IsFrame(c)
      <3>1. [type |-> "turn"].type \in BattleTypes
        BY DEF BattleTypes
      <3> QED
        BY <3>1, TellFrame DEF Telling
    <2>3. Awaits'
      BY <1>3 DEF Awaits
    <2>4. toBot' = toBot \o <<b, c>>
      BY <1>3
    <2> HIDE DEF b, c
    <2>5. QueueOK(<<b, c>>) /\ OneAsked(<<b, c>>)
      BY <2>1, <2>2, EmptyFrame, ShortQueue
    <2> QED
      BY <2>3, <2>4, <2>5, JoinQueues
  <1> QED
    BY <1>1, <1>2, <1>3 DEF Commit, Queued

(* A turn ends in a state the lines tell of. *)
LEMMA PlayTurnCommits ==
    ASSUME PlayTurn
    PROVE  \E s, trap, dis : Telling(s) /\ Commit(s, trap, dis)
  <1> DEFINE m == Head(sent)
  <1>1. PICK k \in benched(Now, "p2") \cup {1}, first \in PlayerIDs :
        \E e1 \in IF m.cmd = "switch" THEN {"none"} ELSE Effects["p1"],
           e2 \in IF k # 1 THEN {"none"} ELSE Effects["p2"],
           s1 \in {IF m.cmd = "switch" THEN switched(Now, "p1", m.slot) ELSE Now} :
        \E s2 \in {IF k # 1 THEN switched(s1, "p2", k) ELSE s1} :
        \E s3 \in attacked(s2, first, IF first = "p1" THEN e1 ELSE e2) :
        \E s4 \in attacked(s3, Other(first), IF first = "p1" THEN e2 ELSE e1) :
        \E dis \in disabledAfter(m, IF down(s4, "p2") THEN "none" ELSE e2) :
           Commit(s4, e1 = "trap", dis)
    BY DEF PlayTurn
  <1>2. PICK e1 \in IF m.cmd = "switch" THEN {"none"} ELSE Effects["p1"],
             e2 \in IF k # 1 THEN {"none"} ELSE Effects["p2"],
             s1 \in {IF m.cmd = "switch" THEN switched(Now, "p1", m.slot) ELSE Now} :
        \E s2 \in {IF k # 1 THEN switched(s1, "p2", k) ELSE s1} :
        \E s3 \in attacked(s2, first, IF first = "p1" THEN e1 ELSE e2) :
        \E s4 \in attacked(s3, Other(first), IF first = "p1" THEN e2 ELSE e1) :
        \E dis \in disabledAfter(m, IF down(s4, "p2") THEN "none" ELSE e2) :
           Commit(s4, e1 = "trap", dis)
    BY <1>1
  <1>3. Telling(s1)
    BY NowTells, SwitchedTells
  <1>4. PICK s2 \in {IF k # 1 THEN switched(s1, "p2", k) ELSE s1} :
        \E s3 \in attacked(s2, first, IF first = "p1" THEN e1 ELSE e2) :
        \E s4 \in attacked(s3, Other(first), IF first = "p1" THEN e2 ELSE e1) :
        \E dis \in disabledAfter(m, IF down(s4, "p2") THEN "none" ELSE e2) :
           Commit(s4, e1 = "trap", dis)
    BY <1>2
  <1>5. Telling(s2)
    BY <1>3, SwitchedTells
  <1>6. PICK s3 \in attacked(s2, first, IF first = "p1" THEN e1 ELSE e2) :
        \E s4 \in attacked(s3, Other(first), IF first = "p1" THEN e2 ELSE e1) :
        \E dis \in disabledAfter(m, IF down(s4, "p2") THEN "none" ELSE e2) :
           Commit(s4, e1 = "trap", dis)
    BY <1>4
  <1>7. PICK s4 \in attacked(s3, Other(first), IF first = "p1" THEN e2 ELSE e1) :
        \E dis : Commit(s4, e1 = "trap", dis)
    BY <1>6
  <1>8. Telling(s4)
    BY <1>5, AttackedTells
  <1> QED
    BY <1>7, <1>8

(* Handling a line sends nothing, or the answer the line asked for. *)
LEMMA HandleAnswers ==
    ASSUME Handle, IsFrame(lines)
    PROVE  /\ lines # <<>>
           /\ \/ sent' = sent /\ lines' \in {Tail(lines), <<>>}
              \/ /\ Asks(Head(lines)) /\ lines' = Tail(lines)
                 /\ \E m : sent' = Append(sent, m)
  <1>1. CASE Room \/ Player \/ Challstr \/ UpdateUser \/ Printed
    BY <1>1 DEF Room, Player, Challstr, UpdateUser, Printed, At, Ignore
  <1>2. CASE Request
    <2>1. At({"request"})
      BY <1>2 DEF Request
    <2>2. \/ sent' = sent /\ lines' \in {Tail(lines), <<>>}
          \/ /\ ~Head(lines).wait /\ Head(lines).forceSwitch /\ lines' = Tail(lines)
             /\ \E m : sent' = Append(sent, m)
      BY <1>2 DEF Request, Ignore, Throw
    <2> QED
      BY <2>1, <2>2 DEF At, Asks
  <1>3. CASE UpdateChallenges
    BY <1>3, TailFrame DEF UpdateChallenges, At, BattleTypes, TellTypes
  <1>4. CASE Switch \/ Move
    BY <1>4 DEF Switch, Move, At, Ignore, Throw, SetOppTeam
  <1>5. CASE Faint \/ DamageOrHeal \/ StatusOrCure \/ Boost
    BY <1>5 DEF Faint, DamageOrHeal, StatusOrCure, Boost, NullPointer, At, Ignore, Throw, SetOppTeam
  <1>6. CASE Turn
    <2>1. At({"turn"}) /\ lines' = Tail(lines) /\ \E m : sent' = Append(sent, m)
      BY <1>6 DEF Turn
    <2> QED
      BY <2>1 DEF At, Asks
  <1> QED
    BY <1>1, <1>2, <1>3, <1>4, <1>5, <1>6 DEF Handle

-----------------------------------------------------------------------------
(* A choice is made only when one is asked for, and then once *)

LEMMA PendingInit == BattleInit => Pending /\ ~Awaits /\ sent = <<>>
  <1> SUFFICES ASSUME BattleInit PROVE Pending /\ ~Awaits /\ sent = <<>>
    OBVIOUS
  <1>1. toBot = <<>> /\ lines = <<>> /\ sent = <<>> /\ phase = "lobby" /\ refused = FALSE
    BY DEF BattleInit, Init
  <1>2. QueueOK(<<>>)
    <2> DEFINE F == {x \in {<<>>} : IsFrame(x)}
    <2>1. \A f \in F : IsFrame(f)
      OBVIOUS
    <2> HIDE DEF F
    <2>2. <<>> \in Seq(F)
      BY ShortSeq
    <2> QED
      BY <2>1, <2>2 DEF QueueOK
  <1> QED
    BY <1>1, <1>2, EmptyFrame DEF Pending, OneAsked, AnyAsked, Awaits

LEMMA LenFacts ==
    /\ Len(<<>>) = 0
    /\ \A m : Len(<<m>>) = 1 /\ Tail(<<m>>) = <<>> /\ <<m>> # <<>>
    /\ \A m : Append(<<>>, m) = <<m>>
  OBVIOUS

(* The server plays a turn or a replacement with the bot's choice. *)
LEMMA ServerTakes ==
    ASSUME Pending, ~outOfStep, NEW s, NEW trap, NEW dis, Telling(s), Commit(s, trap, dis),
           sent # <<>>, sent' = Tail(sent), lines' = lines
    PROVE  Pending' /\ RR!Accept
  <1>1. Awaits /\ ~refused /\ ~AnyAsked(toBot) /\ ~Asked(lines) /\ \E m : sent = <<m>>
    BY DEF Pending
  <1>2. sent' = <<>> /\ Len(sent) = 1 /\ Len(sent') = 0
    BY <1>1, LenFacts
  <1>3. /\ QueueOK(toBot') /\ OneAsked(toBot') /\ (AnyAsked(toBot') => Awaits')
        /\ refused' = FALSE
    BY <1>1, CommitAsks DEF Pending
  <1>4. Pending'
    BY <1>1, <1>2, <1>3 DEF Pending
  <1>5. (Awaits' /\ ~refused') \in BOOLEAN
    BY DEF Awaits
  <1>6. RR!Accept
    BY <1>1, <1>2, <1>5 DEF RR!Accept, Awaits
  <1> QED
    BY <1>4, <1>6

(* The server goes on while it awaits nothing. *)
LEMMA ServerAsks ==
    ASSUME Pending, ~Awaits, sent' = sent, lines' = lines, refused' \in {refused, FALSE},
           QueueOK(toBot'), OneAsked(toBot'), AnyAsked(toBot') => Awaits'
    PROVE  Pending' /\ (RR!Ask \/ UNCHANGED RR!rrvars)
  <1>1. sent = <<>> /\ ~Asked(lines) /\ ~refused
    BY DEF Pending
  <1>1a. ~refused'
    BY <1>1
  <1>2. Pending'
    BY <1>1, <1>1a DEF Pending
  <1>3. Awaits' => RR!Ask
    BY <1>1, <1>1a DEF RR!Ask, Awaits
  <1>4. ~Awaits' => UNCHANGED RR!rrvars
    BY <1>1 DEF RR!rrvars, Awaits
  <1> QED
    BY <1>2, <1>3, <1>4

LEMMA SameRR ==
    ASSUME UNCHANGED <<sent, phase, order, mon, refused>>
    PROVE  UNCHANGED RR!rrvars /\ (Awaits' <=> Awaits)
  BY DEF RR!rrvars, Awaits, down, out, Now

(* A stream read out of step is never in step again. *)
LEMMA StaysOutOfStep ==
    ASSUME [BattleNext]_allvars, outOfStep
    PROVE  outOfStep'
  BY DEF BattleNext, Start, PlayTurn, Replace, Refuse, OpponentLeaves, Deliver, FrameTooLong,
         ReadGarbage, HandleLine, Done, allvars

(* One more frame, which asks nothing. *)
LEMMA AppendQuiet ==
    ASSUME QueueOK(toBot), OneAsked(toBot), NEW f, IsFrame(f), ~Asked(f),
           toBot' = Append(toBot, f)
    PROVE  QueueOK(toBot') /\ OneAsked(toBot') /\ (AnyAsked(toBot') => AnyAsked(toBot))
  <1>1. PICK F : toBot \in Seq(F) /\ \A x \in F : IsFrame(x)
    BY DEF QueueOK
  <1>2. /\ toBot' \in Seq(F \cup {f})
        /\ Len(toBot) \in Nat /\ DOMAIN toBot = 1..Len(toBot)
        /\ DOMAIN toBot' = 1..(Len(toBot) + 1)
        /\ \A j \in DOMAIN toBot : toBot'[j] = toBot[j]
        /\ toBot'[Len(toBot) + 1] = f
    BY <1>1
  <1>3. \A j \in DOMAIN toBot' : Asked(toBot'[j]) => j \in DOMAIN toBot /\ Asked(toBot[j])
    BY <1>2
  <1> QED
    BY <1>1, <1>2, <1>3 DEF QueueOK, OneAsked, AnyAsked

LEMMA PendingStep ==
    ASSUME Pending, ~outOfStep, [BattleNext]_allvars
    PROVE  (~outOfStep' => Pending') /\ [RR!Next]_RR!rrvars
  <1>1. CASE Start
    <2>1. /\ phase = "lobby" /\ phase' = "turn" /\ sent' = sent /\ lines' = lines
          /\ refused' = refused
      BY <1>1 DEF Start, vars
    <2>2. ~Awaits /\ Awaits'
      BY <2>1 DEF Awaits
    <2>3. QueueOK(toBot') /\ OneAsked(toBot')
      <3>1. PICK s : /\ s = [Now EXCEPT !.lines =
                       <<[type |-> "switch", id |-> "p1", name |-> out(Now, "p1"), hp |-> MaxHP["p1"]],
                         [type |-> "switch", id |-> "p2", name |-> out(Now, "p2"), hp |-> MaxHP["p2"]]>>]
                     /\ toBot' = toBot \o
                          <<InRoom(<<[type |-> "player", id |-> "p1", name |-> BotName],
                                     [type |-> "player", id |-> "p2", name |-> Opponent]>>),
                            RequestFor(s, FALSE, FALSE, FALSE),
                            InRoom(Append(s.lines, [type |-> "turn"]))>>
        BY <1>1 DEF Start, Queued
      <3> DEFINE x == [type |-> "player", id |-> "p1", name |-> BotName]
                 y == [type |-> "player", id |-> "p2", name |-> Opponent]
                 v == [type |-> "switch", id |-> "p1", name |-> out(Now, "p1"), hp |-> MaxHP["p1"]]
                 w == [type |-> "switch", id |-> "p2", name |-> out(Now, "p2"), hp |-> MaxHP["p2"]]
                 a == InRoom(<<x, y>>)
                 b == RequestFor(s, FALSE, FALSE, FALSE)
                 c == InRoom(Append(s.lines, [type |-> "turn"]))
      <3>2. /\ x.type \in BattleTypes /\ y.type \in BattleTypes /\ ~Asks(x) /\ ~Asks(y)
            /\ v.type \in TellTypes /\ w.type \in TellTypes
            /\ [type |-> "turn"].type \in BattleTypes
        BY DEF BattleTypes, TellTypes, Asks
      <3>3. s.lines = <<v, w>>
        BY <3>1 DEF Now
      <3>4. toBot' = toBot \o <<a, b, c>>
        BY <3>1
      <3> HIDE DEF x, y, v, w
      <3>5. IsFrame(a) /\ ~Asked(a)
        <4>1. LinesOf(<<x, y>>, BattleTypes)
          BY <3>2, ShortLines
        <4>2. Len(<<x, y>>) = 2 /\ <<x, y>>[1] = x /\ <<x, y>>[2] = y
          OBVIOUS
        <4>3. ~Asks([type |-> "room", room |-> room])
          BY DEF Asks
        <4> DEFINE f == <<x, y>>
        <4> HIDE DEF f
        <4>4. \A j \in DOMAIN InRoom(f) : ~Asks(InRoom(f)[j])
          <5> SUFFICES ASSUME NEW j \in DOMAIN InRoom(f) PROVE ~Asks(InRoom(f)[j])
            OBVIOUS
          <5>1. LinesOf(f, BattleTypes) /\ Len(f) = 2 /\ f[1] = x /\ f[2] = y
            BY <4>1, <4>2 DEF f
          <5> DEFINE g == InRoom(f)
          <5>2. /\ DOMAIN f = 1..Len(f) /\ DOMAIN g = 1..(Len(f) + 1)
                /\ g[1] = [type |-> "room", room |-> room]
                /\ \A n \in DOMAIN f : g[n + 1] = f[n]
            BY <5>1, InRoomFacts
          <5> HIDE DEF g
          <5>3. 1 \in DOMAIN f /\ 2 \in DOMAIN f
            BY <5>1, <5>2
          <5>4. /\ DOMAIN f = 1..2 /\ DOMAIN g = 1..3
                /\ g[1] = [type |-> "room", room |-> room]
                /\ g[1 + 1] = f[1] /\ g[2 + 1] = f[2]
            BY <5>1, <5>2, <5>3
          <5>5. /\ DOMAIN f = 1..2 /\ DOMAIN InRoom(f) = 1..3
                /\ InRoom(f)[1] = [type |-> "room", room |-> room]
                /\ InRoom(f)[1 + 1] = f[1] /\ InRoom(f)[2 + 1] = f[2]
            BY <5>4 DEF g
          <5>6. j = 1 \/ j = 1 + 1 \/ j = 2 + 1
            BY <5>5
          <5> QED
            BY <3>2, <4>3, <5>1, <5>5, <5>6
        <4>5. LinesOf(InRoom(f), BattleTypes)
          BY <4>1, InRoomFacts DEF f
        <4> QED
          BY <4>4, <4>5 DEF IsFrame, Asked, f
      <3>6. IsFrame(b) /\ ~Asked(b)
        BY RequestFrame
      <3>7. IsFrame(c)
        <4>1. LinesOf(s.lines, TellTypes)
          BY <3>2, <3>3, ShortLines
        <4> QED
          BY <3>2, <4>1, TellFrame
      <3> HIDE DEF a, b, c
      <3>8. QueueOK(<<a, b, c>>) /\ OneAsked(<<a, b, c>>)
        BY <3>5, <3>6, <3>7, ShortQueue
      <3>9. QueueOK(toBot) /\ ~AnyAsked(toBot)
        BY <2>2 DEF Pending
      <3> QED
        BY <3>4, <3>8, <3>9, JoinQueues
    <2>4. Pending' /\ (RR!Ask \/ UNCHANGED RR!rrvars)
      BY <2>1, <2>2, <2>3, ServerAsks
    <2> QED
      BY <2>4 DEF RR!Next
  <1>2. CASE PlayTurn
    <2>1. sent # <<>> /\ sent' = Tail(sent) /\ lines' = lines
      BY <1>2 DEF PlayTurn
    <2> QED
      BY <1>2, <2>1, PlayTurnCommits, ServerTakes DEF RR!Next
  <1>3. CASE Replace
    <2>1. CASE ~down(Now, "p1")
      <3>1. ~Awaits /\ sent' = sent /\ lines' = lines
        BY <1>3, <2>1 DEF Replace, Awaits
      <3>2. \E s, trap, dis : Telling(s) /\ Commit(s, trap, dis)
        BY <1>3, <2>1, NowTells, SwitchedTells DEF Replace
      <3>3. /\ QueueOK(toBot') /\ OneAsked(toBot') /\ (AnyAsked(toBot') => Awaits')
            /\ refused' = FALSE
        BY <3>1, <3>2, CommitAsks DEF Pending
      <3> QED
        BY <3>1, <3>3, ServerAsks DEF RR!Next
    <2>2. CASE down(Now, "p1")
      <3>1. sent # <<>> /\ sent' = Tail(sent) /\ lines' = lines
        BY <1>3, <2>2 DEF Replace
      <3>2. \E s, trap, dis : Telling(s) /\ Commit(s, trap, dis)
        BY <1>3, <2>2, NowTells, SwitchedTells DEF Replace
      <3> QED
        BY <3>1, <3>2, ServerTakes DEF RR!Next
    <2> QED
      BY <2>1, <2>2
  <1>4. CASE OpponentLeaves
    <2>1. UNCHANGED <<sent, phase, order, mon, refused, lines>>
      BY <1>4 DEF OpponentLeaves, vars, server
    <2> DEFINE l == [type |-> "player", id |-> "p2", name |-> NoUser]
               f == InRoom(<<l>>)
    <2>2. l.type \in BattleTypes /\ ~Asks(l) /\ <<l>> = Append(<<>>, l)
      BY DEF BattleTypes, Asks
    <2>3. toBot' = Append(toBot, f)
      BY <1>4 DEF OpponentLeaves, Queued
    <2> HIDE DEF l
    <2>4. IsFrame(f) /\ ~Asked(f)
      BY <2>2, TellFrame, ShortLines
    <2> HIDE DEF f
    <2>5. QueueOK(toBot') /\ OneAsked(toBot') /\ (AnyAsked(toBot') => AnyAsked(toBot))
      BY <2>3, <2>4, AppendQuiet DEF Pending
    <2>6. Pending'
      BY <2>1, <2>5, SameRR DEF Pending
    <2> QED
      BY <2>1, <2>6, SameRR
  <1>5. CASE Deliver
    <2>1. /\ toBot # <<>> /\ lines = <<>> /\ lines' = Head(toBot) /\ toBot' = Tail(toBot)
          /\ UNCHANGED <<sent, phase, order, mon, refused>>
      BY <1>5 DEF Deliver, Receive, server
    <2>2. Pending'
      BY <2>1, TailQueue, SameRR DEF Pending
    <2> QED
      BY <2>1, <2>2, SameRR
  <1>6. CASE FrameTooLong
    <2>1. outOfStep' /\ UNCHANGED <<sent, phase, order, mon, refused>>
      BY <1>6 DEF FrameTooLong, vars, server
    <2> QED
      BY <2>1, SameRR
  <1>9. CASE Refuse
    <2>1. /\ sent # <<>> /\ sent' = Tail(sent) /\ refused' = Awaits
          /\ UNCHANGED <<phase, order, mon, lines>>
      BY <1>9 DEF Refuse
    <2>2. /\ Awaits /\ ~refused /\ ~AnyAsked(toBot) /\ ~Asked(lines)
          /\ \E m : sent = <<m>>
      BY <2>1 DEF Pending
    <2>3. Awaits' <=> Awaits
      BY <2>1 DEF Awaits, down, out, Now
    <2>4. sent' = <<>> /\ Len(sent) = 1 /\ Len(sent') = 0
      BY <2>1, <2>2, LenFacts
    <2> DEFINE l == [type |-> "error"]
               f == InRoom(<<l>>)
    <2>5. l.type \in BattleTypes /\ ~Asks(l) /\ <<l>> = Append(<<>>, l)
      BY DEF BattleTypes, Asks
    <2>6. toBot' = Append(toBot, f)
      BY <1>9 DEF Refuse, Queued
    <2> HIDE DEF l
    <2>7. IsFrame(f) /\ ~Asked(f)
      BY <2>5, TellFrame, ShortLines
    <2> HIDE DEF f
    <2>8. QueueOK(toBot') /\ OneAsked(toBot') /\ (AnyAsked(toBot') => AnyAsked(toBot))
      BY <2>6, <2>7, AppendQuiet DEF Pending
    <2>9. Pending'
      BY <2>1, <2>2, <2>3, <2>4, <2>8 DEF Pending
    <2>10. (Awaits' /\ ~refused') \in BOOLEAN
      BY DEF Awaits
    <2>11. RR!Accept
      BY <2>2, <2>4, <2>10 DEF RR!Accept, Awaits
    <2> QED
      BY <2>9, <2>11 DEF RR!Next
  <1>7. CASE HandleLine
    <2>1. Handle /\ UNCHANGED <<toBot, phase, order, mon, refused>>
      BY <1>7 DEF HandleLine, server
    <2>2. lines # <<>> /\ IsFrame(lines)
      BY <2>1, HandleAnswers DEF Pending
    <2>3. Awaits' <=> Awaits
      BY <2>1 DEF Awaits, down, out, Now
    <2>4. CASE sent' = sent /\ lines' \in {Tail(lines), <<>>}
      <3>1. IsFrame(lines') /\ (Asked(lines') => Asked(lines))
        BY <2>2, <2>4, TailFrame, EmptyFrame
      <3>2. Pending'
        BY <2>1, <2>3, <2>4, <3>1 DEF Pending
      <3> QED
        BY <2>1, <2>4, <3>2, SameRR
    <2>5. CASE /\ Asks(Head(lines)) /\ lines' = Tail(lines)
               /\ \E m : sent' = Append(sent, m)
      <3>1. IsFrame(lines') /\ Asked(lines) /\ ~Asked(lines')
        BY <2>2, <2>5, TailFrame
      <3>2. sent = <<>> /\ ~AnyAsked(toBot) /\ Awaits /\ ~refused
        BY <3>1 DEF Pending
      <3>3. \E m : sent' = <<m>>
        BY <2>5, <3>2, LenFacts
      <3>4. Pending'
        BY <2>1, <2>3, <3>1, <3>2, <3>3 DEF Pending
      <3>5. Len(sent) = 0 /\ Len(sent') = 1
        BY <3>2, <3>3, LenFacts
      <3>6. RR!Answer
        BY <2>1, <2>3, <3>2, <3>5 DEF RR!Answer, Awaits, down, out, Now
      <3> QED
        BY <3>4, <3>6 DEF RR!Next
    <2> QED
      BY <2>1, <2>2, <2>4, <2>5, HandleAnswers
  <1>8. CASE Done \/ UNCHANGED allvars
    <2>1. UNCHANGED <<toBot, lines, sent, phase, order, mon, refused>>
      BY <1>8 DEF Done, allvars, vars, server
    <2>2. Pending'
      BY <2>1, SameRR DEF Pending
    <2> QED
      BY <2>1, <2>2, SameRR
  <1>10. CASE ReadGarbage
    BY <1>10 DEF ReadGarbage
  <1> QED
    BY <1>1, <1>2, <1>3, <1>4, <1>5, <1>6, <1>7, <1>8, <1>9, <1>10 DEF BattleNext

(* As long as the stream is read in step, the bot sends a choice only when   *)
(* the server awaits one, never two for one request and none for a refusal,  *)
(* whatever the teams, names and effects (PSUser.hpp:262, :267 and :449).    *)
THEOREM AlwaysAnswersOnlyRequests == BattleSpec => AnswersOnlyRequests
  <1>1. BattleInit => Pending /\ RR!Init
    BY PendingInit, LenFacts DEF RR!Init
  <1>2. /\ (~outOfStep => Pending) /\ [BattleNext]_allvars
        => /\ ~outOfStep' => Pending'
           /\ [outOfStep \/ RR!Next]_(RR!rrvars)
    <2>1. [BattleNext]_allvars /\ outOfStep => outOfStep'
      BY StaysOutOfStep
    <2> QED
      BY <2>1, PendingStep
  <1> QED
    BY <1>1, <1>2, PTL DEF BattleSpec, AnswersOnlyRequests

-----------------------------------------------------------------------------
(* What the bot is told of the opponent *)

(* A view: the player ID the bot holds its own and, of each opposing Pokemon *)
(* it has been told of, what it was told last.                               *)
Note(hp, fainted, par) == [hp |-> hp, fainted |-> fainted, par |-> par]
View(pid, seen) == [pid |-> pid, seen |-> seen]

(* What a line about an opposing Pokemon changes in what was noted of it.    *)
Noted(l, note) ==
    Note(IF l.type \in {"-damage", "-heal"} THEN l.hp ELSE note.hp,
         note.fainted \/ l.type = "faint",
         IF l.type \in {"-status", "-curestatus"} THEN l.type = "-status" ELSE note.par)

Learns(l, u, v) ==
    \/ /\ l.name \in DOMAIN u.seen /\ v = u
       /\ l.type = "switch" \/ (l.type = "move" /\ l.move \in KnownMoves)
    \/ /\ l.name \in KnownPkmn \ DOMAIN u.seen /\ l.type = "switch"
       /\ v = View(u.pid, [n \in DOMAIN u.seen \cup {l.name} |->
                 IF n = l.name THEN Note(l.hp, FALSE, FALSE) ELSE u.seen[n]])
    \/ /\ l.name \in DOMAIN u.seen /\ l.type \in TellTypes \ {"switch", "move"}
       /\ l.type \in {"-status", "-curestatus"} => l.status = "par"
       /\ v = View(u.pid, [n \in DOMAIN u.seen |->
                 IF n = l.name THEN Noted(l, u.seen[n]) ELSE u.seen[n]])

(* Handling line l turns view u into view v, and does not throw.             *)
Reads(l, u, v) ==
    \/ l.type \notin TellTypes \cup {"player"} /\ v = u
    \/ l.type = "player" /\ v = IF l.name = BotName THEN View(l.id, u.seen) ELSE u
    \/ /\ l.type \in TellTypes /\ u.pid = "p1"
       /\ \/ l.id = "p1" /\ v = u
          \/ l.id = "p2" /\ Learns(l, u, v)

(* Handling the lines of f, and then the frames of q, turns u into v.        *)
Leads(f, u, v) ==
    \E K : /\ K[1] = u /\ K[Len(f) + 1] = v
           /\ \A j \in DOMAIN f : Reads(f[j], K[j], K[j + 1])

Chain(q, u, v) ==
    \E K : /\ K[1] = u /\ K[Len(q) + 1] = v
           /\ \A j \in DOMAIN q : Leads(q[j], K[j], K[j + 1])

LEMMA LeadsNowhere ==
    ASSUME NEW u, NEW v
    PROVE  Leads(<<>>, u, v) <=> u = v
  <1>1. Leads(<<>>, u, v) => u = v
    BY DEF Leads
  <1>2. Leads(<<>>, u, u)
    <2> DEFINE K == [j \in 1..1 |-> u]
    <2>1. K[1] = u /\ K[Len(<<>>) + 1] = u /\ \A j \in DOMAIN <<>> : Reads(<<>>[j], K[j], K[j + 1])
      OBVIOUS
    <2> QED
      BY <2>1 DEF Leads
  <1> QED
    BY <1>1, <1>2

LEMMA ChainNowhere ==
    ASSUME NEW u, NEW v
    PROVE  Chain(<<>>, u, v) <=> u = v
  <1>1. Chain(<<>>, u, v) => u = v
    BY DEF Chain
  <1>2. Chain(<<>>, u, u)
    <2> DEFINE K == [j \in 1..1 |-> u]
    <2>1. K[1] = u /\ K[Len(<<>>) + 1] = u /\ \A j \in DOMAIN <<>> : Leads(<<>>[j], K[j], K[j + 1])
      OBVIOUS
    <2> QED
      BY <2>1 DEF Chain
  <1> QED
    BY <1>1, <1>2

(* The first line, or frame, is handled. *)
LEMMA LeadsOn ==
    ASSUME NEW S, NEW f \in Seq(S), f # <<>>, NEW u, NEW v, Leads(f, u, v)
    PROVE  \E w : Reads(Head(f), u, w) /\ Leads(Tail(f), w, v)
  <1>1. PICK K : /\ K[1] = u /\ K[Len(f) + 1] = v
                 /\ \A j \in DOMAIN f : Reads(f[j], K[j], K[j + 1])
    BY DEF Leads
  <1> DEFINE L == [j \in 1..Len(f) |-> K[j + 1]]
  <1>2. /\ Len(f) \in Nat /\ Len(f) > 0 /\ DOMAIN f = 1..Len(f) /\ Head(f) = f[1]
        /\ Len(Tail(f)) + 1 = Len(f) /\ DOMAIN Tail(f) = 1..(Len(f) - 1)
        /\ \A j \in 1..(Len(f) - 1) : Tail(f)[j] = f[j + 1]
    OBVIOUS
  <1>3. Reads(Head(f), u, K[2])
    BY <1>1, <1>2
  <1>4. L[1] = K[2] /\ L[Len(Tail(f)) + 1] = v
    BY <1>1, <1>2
  <1>5. ASSUME NEW j \in DOMAIN Tail(f)
        PROVE  Reads(Tail(f)[j], L[j], L[j + 1])
    <2>1. j + 1 \in DOMAIN f /\ j \in 1..Len(f) /\ j + 1 \in 1..Len(f) /\ Tail(f)[j] = f[j + 1]
      BY <1>2
    <2>2. L[j] = K[j + 1] /\ L[j + 1] = K[(j + 1) + 1]
      BY <2>1
    <2> HIDE DEF L
    <2> QED
      BY <1>1, <2>1, <2>2
  <1> HIDE DEF L
  <1>6. Leads(Tail(f), K[2], v)
    BY <1>4, <1>5 DEF Leads
  <1> QED
    BY <1>3, <1>6

LEMMA ChainOn ==
    ASSUME NEW F, NEW q \in Seq(F), q # <<>>, NEW u, NEW v, Chain(q, u, v)
    PROVE  \E w : Leads(Head(q), u, w) /\ Chain(Tail(q), w, v)
  <1>1. PICK K : /\ K[1] = u /\ K[Len(q) + 1] = v
                 /\ \A j \in DOMAIN q : Leads(q[j], K[j], K[j + 1])
    BY DEF Chain
  <1> DEFINE L == [j \in 1..Len(q) |-> K[j + 1]]
  <1>2. /\ Len(q) \in Nat /\ Len(q) > 0 /\ DOMAIN q = 1..Len(q) /\ Head(q) = q[1]
        /\ Len(Tail(q)) + 1 = Len(q) /\ DOMAIN Tail(q) = 1..(Len(q) - 1)
        /\ \A j \in 1..(Len(q) - 1) : Tail(q)[j] = q[j + 1]
    OBVIOUS
  <1>3. Leads(Head(q), u, K[2])
    BY <1>1, <1>2
  <1>4. L[1] = K[2] /\ L[Len(Tail(q)) + 1] = v
    BY <1>1, <1>2
  <1>5. ASSUME NEW j \in DOMAIN Tail(q)
        PROVE  Leads(Tail(q)[j], L[j], L[j + 1])
    <2>1. j + 1 \in DOMAIN q /\ j \in 1..Len(q) /\ j + 1 \in 1..Len(q) /\ Tail(q)[j] = q[j + 1]
      BY <1>2
    <2>2. L[j] = K[j + 1] /\ L[j + 1] = K[(j + 1) + 1]
      BY <2>1
    <2> HIDE DEF L
    <2> QED
      BY <1>1, <2>1, <2>2
  <1> HIDE DEF L
  <1>6. Chain(Tail(q), K[2], v)
    BY <1>4, <1>5 DEF Chain
  <1> QED
    BY <1>3, <1>6

(* One more line, or frame, comes last. *)
LEMMA LeadsFurther ==
    ASSUME NEW S, NEW f \in Seq(S), NEW u, NEW v, Leads(f, u, v),
           NEW l, NEW w, Reads(l, v, w)
    PROVE  Leads(Append(f, l), u, w)
  <1>1. PICK K : /\ K[1] = u /\ K[Len(f) + 1] = v
                 /\ \A j \in DOMAIN f : Reads(f[j], K[j], K[j + 1])
    BY DEF Leads
  <1> DEFINE g == Append(f, l)
             L == [j \in 1..(Len(f) + 2) |-> IF j = Len(f) + 2 THEN w ELSE K[j]]
  <1>2. /\ Len(f) \in Nat /\ DOMAIN f = 1..Len(f)
        /\ DOMAIN g = 1..(Len(f) + 1) /\ Len(g) = Len(f) + 1
        /\ \A j \in 1..Len(f) : g[j] = f[j]
        /\ g[Len(f) + 1] = l
    OBVIOUS
  <1> HIDE DEF g
  <1>3. L[1] = u /\ L[Len(g) + 1] = w
    BY <1>1, <1>2
  <1>4. ASSUME NEW j \in DOMAIN g
        PROVE  Reads(g[j], L[j], L[j + 1])
    <2>1. CASE j = Len(f) + 1
      BY <1>1, <1>2, <2>1
    <2>2. CASE j # Len(f) + 1
      <3>1. /\ j \in DOMAIN f /\ j \in 1..Len(f) /\ g[j] = f[j]
            /\ j \in 1..(Len(f) + 2) /\ j + 1 \in 1..(Len(f) + 2)
            /\ j # Len(f) + 2 /\ j + 1 # Len(f) + 2
        BY <1>2, <2>2
      <3>2. L[j] = K[j] /\ L[j + 1] = K[j + 1]
        BY <3>1
      <3> HIDE DEF L
      <3> QED
        BY <1>1, <3>1, <3>2
    <2> QED
      BY <2>1, <2>2
  <1> HIDE DEF L
  <1>5. Leads(g, u, w)
    BY <1>3, <1>4 DEF Leads
  <1> QED
    BY <1>5 DEF g

LEMMA ChainFurther ==
    ASSUME NEW F, NEW q \in Seq(F), NEW u, NEW v, Chain(q, u, v),
           NEW f, NEW w, Leads(f, v, w)
    PROVE  Chain(Append(q, f), u, w)
  <1>1. PICK K : /\ K[1] = u /\ K[Len(q) + 1] = v
                 /\ \A j \in DOMAIN q : Leads(q[j], K[j], K[j + 1])
    BY DEF Chain
  <1> DEFINE g == Append(q, f)
             L == [j \in 1..(Len(q) + 2) |-> IF j = Len(q) + 2 THEN w ELSE K[j]]
  <1>2. /\ Len(q) \in Nat /\ DOMAIN q = 1..Len(q)
        /\ DOMAIN g = 1..(Len(q) + 1) /\ Len(g) = Len(q) + 1
        /\ \A j \in 1..Len(q) : g[j] = q[j]
        /\ g[Len(q) + 1] = f
    OBVIOUS
  <1> HIDE DEF g
  <1>3. L[1] = u /\ L[Len(g) + 1] = w
    BY <1>1, <1>2
  <1>4. ASSUME NEW j \in DOMAIN g
        PROVE  Leads(g[j], L[j], L[j + 1])
    <2>1. CASE j = Len(q) + 1
      BY <1>1, <1>2, <2>1
    <2>2. CASE j # Len(q) + 1
      <3>1. /\ j \in DOMAIN q /\ j \in 1..Len(q) /\ g[j] = q[j]
            /\ j \in 1..(Len(q) + 2) /\ j + 1 \in 1..(Len(q) + 2)
            /\ j # Len(q) + 2 /\ j + 1 # Len(q) + 2
        BY <1>2, <2>2
      <3>2. L[j] = K[j] /\ L[j + 1] = K[j + 1]
        BY <3>1
      <3> HIDE DEF L
      <3> QED
        BY <1>1, <3>1, <3>2
    <2> QED
      BY <2>1, <2>2
  <1> HIDE DEF L
  <1>5. Chain(g, u, w)
    BY <1>3, <1>4 DEF Chain
  <1> QED
    BY <1>5 DEF g

(* The room's line in front changes no view. *)
LEMMA LeadsInRoom ==
    ASSUME NEW f, LinesOf(f, BattleTypes), NEW u, NEW v, Leads(f, u, v)
    PROVE  Leads(InRoom(f), u, v)
  <1>1. PICK K : /\ K[1] = u /\ K[Len(f) + 1] = v
                 /\ \A j \in DOMAIN f : Reads(f[j], K[j], K[j + 1])
    BY DEF Leads
  <1> DEFINE g == InRoom(f)
             L == [j \in 1..(Len(f) + 2) |-> IF j = 1 THEN u ELSE K[j - 1]]
  <1>2. /\ Len(f) \in Nat /\ DOMAIN f = 1..Len(f)
        /\ DOMAIN g = 1..(Len(f) + 1)
        /\ g[1] = [type |-> "room", room |-> room]
        /\ \A j \in DOMAIN f : g[j + 1] = f[j]
    BY InRoomFacts
  <1>3. Len(g) = Len(f) + 1
    <2>1. PICK S : f \in Seq(S)
      BY DEF LinesOf
    <2> QED
      BY <2>1 DEF InRoom
  <1>4. Reads(g[1], u, u)
    BY <1>2 DEF Reads, TellTypes
  <1> HIDE DEF g
  <1>5. L[1] = u /\ L[Len(g) + 1] = v
    BY <1>1, <1>2, <1>3
  <1>6. ASSUME NEW j \in DOMAIN g
        PROVE  Reads(g[j], L[j], L[j + 1])
    <2>1. CASE j = 1
      BY <1>1, <1>2, <1>4, <2>1
    <2>2. CASE j # 1
      <3>1. /\ j - 1 \in DOMAIN f /\ (j - 1) + 1 = j /\ (j + 1) - 1 = j
            /\ j \in 1..(Len(f) + 2) /\ j + 1 \in 1..(Len(f) + 2) /\ j + 1 # 1
        BY <1>2, <2>2
      <3>2. L[j] = K[j - 1] /\ L[j + 1] = K[j] /\ g[j] = f[j - 1]
        BY <1>2, <2>2, <3>1
      <3> HIDE DEF L
      <3> QED
        BY <1>1, <3>1, <3>2
    <2> QED
      BY <2>1, <2>2
  <1> HIDE DEF L
  <1>7. Leads(g, u, v)
    BY <1>5, <1>6 DEF Leads
  <1> QED
    BY <1>7 DEF g

-----------------------------------------------------------------------------
(* Requests *)

(* A request that is not a wait.  The bot keeps what it says. *)
Req(l)    == l.type = "request" /\ ~l.wait
HasReq(f) == \E j \in DOMAIN f : Req(f[j])
AnyReq(q) == \E i \in DOMAIN q : HasReq(q[i])

(* A frame as the server makes it: a request and what asks for a choice do   *)
(* not share a frame, the room's line comes first, and a player line without *)
(* a name last.                                                              *)
WellMade(f) ==
    /\ \A j, k \in DOMAIN f : Req(f[j]) /\ (Req(f[k]) \/ Asks(f[k])) => j = k
    /\ \A j \in DOMAIN f :
          /\ f[j].type = "room" => j = 1 /\ f[j].room = room
          /\ f[j].type = "player" /\ f[j].name = NoUser => j = Len(f)

Whole(f) == WellMade(f) /\ f # <<>> /\ f[1].type = "room"

(* Every request on its way is request a, and something that asks follows it. *)
OnlyAsk(f, a) == \A j \in DOMAIN f : Req(f[j]) => f[j] = a
Wholes(q)     == \A i \in DOMAIN q : Whole(q[i])
OnlyAsks(q, a) == \A i \in DOMAIN q : OnlyAsk(q[i], a)
AskLater(q)   == \A i \in DOMAIN q : HasReq(q[i]) =>
                    \E k \in DOMAIN q : k >= i /\ Asked(q[k])

LEMMA TailMade ==
    ASSUME NEW f, LinesOf(f, BattleTypes), WellMade(f), f # <<>>, NEW a, OnlyAsk(f, a)
    PROVE  /\ WellMade(Tail(f)) /\ OnlyAsk(Tail(f), a)
           /\ HasReq(Tail(f)) => HasReq(f) /\ ~Req(Head(f)) /\ ~Asks(Head(f))
           /\ HasReq(f) => Req(Head(f)) \/ HasReq(Tail(f))
           /\ Req(Head(f)) => Head(f) = a /\ ~Asked(Tail(f)) /\ HasReq(f)
           /\ Asked(f) => Asks(Head(f)) \/ Asked(Tail(f))
           /\ Head(f).type = "room" => Head(f).room = room
           /\ Head(f).type = "player" /\ Head(f).name = NoUser => Tail(f) = <<>>
           /\ Tail(f) # <<>> => Head(Tail(f)).type # "room"
  <1>1. PICK S : f \in Seq(S) /\ \A x \in S : x.type \in BattleTypes
    BY DEF LinesOf
  <1>2. /\ Len(f) \in Nat /\ Len(f) > 0 /\ DOMAIN f = 1..Len(f)
        /\ Tail(f) \in Seq(S) /\ Head(f) = f[1] /\ Len(Tail(f)) = Len(f) - 1
        /\ DOMAIN Tail(f) = 1..(Len(f) - 1)
        /\ \A j \in 1..(Len(f) - 1) : Tail(f)[j] = f[j + 1]
    BY <1>1
  <1>0. /\ Tail(f) # <<>> => Head(Tail(f)) = f[2] /\ 2 \in DOMAIN f
        /\ Len(f) = 1 => Tail(f) = <<>>
    <2>1. \A x \in Seq(S) : /\ x # <<>> => Head(x) = x[1] /\ 1 \in DOMAIN x
                            /\ Len(x) = 0 => x = <<>>
      OBVIOUS
    <2>2. Tail(f) # <<>> => Head(Tail(f)) = Tail(f)[1] /\ 1 \in DOMAIN Tail(f)
      BY <1>2, <2>1
    <2> QED
      BY <1>2, <2>1, <2>2
  <1> DEFINE g == Tail(f)
  <1>3. \A j \in DOMAIN g : j + 1 \in DOMAIN f /\ g[j] = f[j + 1] /\ j \in Int /\ j + 1 # 1
    BY <1>2
  <1>4. \A j \in DOMAIN f : j # 1 => j - 1 \in DOMAIN g /\ f[j] = g[j - 1]
    <2> SUFFICES ASSUME NEW j \in DOMAIN f, j # 1 PROVE j - 1 \in DOMAIN g /\ f[j] = g[j - 1]
      OBVIOUS
    <2>1. j \in Int /\ j - 1 \in DOMAIN g /\ (j - 1) + 1 = j
      BY <1>2
    <2> QED
      BY <1>3, <2>1
  <1>5. 1 \in DOMAIN f /\ Head(f) = f[1] /\ Len(g) = Len(f) - 1 /\ Len(f) \in Int
    BY <1>2
  <1> HIDE DEF g
  <1>6. WellMade(g)
    <2>1. ASSUME NEW j \in DOMAIN g, NEW k \in DOMAIN g, Req(g[j]), Req(g[k]) \/ Asks(g[k])
          PROVE  j = k
      <3>1. j + 1 = k + 1
        BY <1>3, <2>1 DEF WellMade
      <3> QED
        BY <1>3, <3>1
    <2>2. ASSUME NEW j \in DOMAIN g
          PROVE  g[j].type # "room" /\ (g[j].type = "player" /\ g[j].name = NoUser => j = Len(g))
      <3>1. g[j].type # "room"
        BY <1>3 DEF WellMade
      <3>2. ASSUME g[j].type = "player", g[j].name = NoUser
            PROVE  j = Len(g)
        <4>1. j + 1 = Len(f)
          BY <1>3, <3>2 DEF WellMade
        <4> QED
          BY <1>3, <1>5, <4>1
      <3> QED
        BY <3>1, <3>2
    <2> QED
      BY <2>1, <2>2 DEF WellMade
  <1>7. OnlyAsk(g, a)
    BY <1>3 DEF OnlyAsk
  <1>8. HasReq(g) => HasReq(f) /\ ~Req(Head(f)) /\ ~Asks(Head(f))
    BY <1>3, <1>5 DEF HasReq, WellMade
  <1>9. HasReq(f) => Req(Head(f)) \/ HasReq(g)
    BY <1>4, <1>5 DEF HasReq
  <1>10. Req(Head(f)) => Head(f) = a /\ ~Asked(g) /\ HasReq(f)
    BY <1>3, <1>5 DEF HasReq, OnlyAsk, Asked, WellMade
  <1>11. Asked(f) => Asks(Head(f)) \/ Asked(g)
    BY <1>4, <1>5 DEF Asked
  <1>12. /\ Head(f).type = "room" => Head(f).room = room
         /\ Head(f).type = "player" /\ Head(f).name = NoUser => Tail(f) = <<>>
         /\ Tail(f) # <<>> => Head(Tail(f)).type # "room"
    BY <1>0, <1>2, <1>5 DEF WellMade
  <1> QED
    BY <1>6, <1>7, <1>8, <1>9, <1>10, <1>11, <1>12 DEF g

LEMMA TailMadeQueue ==
    ASSUME NEW q, QueueOK(q), q # <<>>, Wholes(q), AskLater(q), NEW a, OnlyAsks(q, a)
    PROVE  /\ Wholes(Tail(q)) /\ AskLater(Tail(q)) /\ OnlyAsks(Tail(q), a)
           /\ Whole(Head(q)) /\ OnlyAsk(Head(q), a)
           /\ HasReq(Head(q)) => Asked(Head(q)) \/ AnyAsked(Tail(q))
           /\ AnyReq(q) => HasReq(Head(q)) \/ AnyReq(Tail(q))
  <1>1. PICK F : q \in Seq(F)
    BY DEF QueueOK
  <1> DEFINE g == Tail(q)
  <1>2. /\ Len(q) \in Nat /\ Len(q) > 0 /\ DOMAIN q = 1..Len(q)
        /\ Head(q) = q[1] /\ DOMAIN g = 1..(Len(q) - 1)
        /\ \A j \in 1..(Len(q) - 1) : g[j] = q[j + 1]
    BY <1>1
  <1>3. \A j \in DOMAIN g : j + 1 \in DOMAIN q /\ g[j] = q[j + 1] /\ j \in Int /\ j + 1 # 1
    BY <1>2
  <1> HIDE DEF g
  <1>4. \A j \in DOMAIN q : j # 1 => j \in Int /\ j - 1 \in DOMAIN g /\ q[j] = g[j - 1]
    <2> SUFFICES ASSUME NEW j \in DOMAIN q, j # 1
                 PROVE  j \in Int /\ j - 1 \in DOMAIN g /\ q[j] = g[j - 1]
      OBVIOUS
    <2>1. j \in Int /\ j - 1 \in DOMAIN g /\ (j - 1) + 1 = j
      BY <1>2
    <2> QED
      BY <1>3, <2>1
  <1>5. 1 \in DOMAIN q /\ Head(q) = q[1]
    BY <1>2
  <1>6. Wholes(g) /\ OnlyAsks(g, a) /\ Whole(Head(q)) /\ OnlyAsk(Head(q), a)
    BY <1>3, <1>5 DEF Wholes, OnlyAsks
  <1>7. AskLater(g)
    <2> SUFFICES ASSUME NEW i \in DOMAIN g, HasReq(g[i])
                 PROVE  \E k \in DOMAIN g : k >= i /\ Asked(g[k])
      BY DEF AskLater
    <2>1. PICK k \in DOMAIN q : k >= i + 1 /\ Asked(q[k])
      BY <1>3 DEF AskLater
    <2>2. i \in Int /\ i >= 1 /\ k \in Int
      BY <1>1, <1>2 DEF g
    <2>3. k # 1
      BY <2>1, <2>2
    <2>4. k - 1 \in DOMAIN g /\ q[k] = g[k - 1]
      BY <1>4, <2>3
    <2>5. k - 1 >= i
      BY <2>1, <2>2
    <2> QED
      BY <2>1, <2>4, <2>5
  <1>8. HasReq(Head(q)) => Asked(Head(q)) \/ AnyAsked(g)
    <2> SUFFICES ASSUME HasReq(Head(q)), ~Asked(Head(q)) PROVE AnyAsked(g)
      OBVIOUS
    <2>1. PICK k \in DOMAIN q : Asked(q[k])
      BY <1>5 DEF AskLater
    <2> QED
      BY <1>4, <1>5, <2>1 DEF AnyAsked
  <1>9. AnyReq(q) => HasReq(Head(q)) \/ AnyReq(g)
    BY <1>4, <1>5 DEF AnyReq
  <1> QED
    BY <1>6, <1>7, <1>8, <1>9 DEF g

(* One more frame. *)
LEMMA AppendMade ==
    ASSUME NEW F, NEW q \in Seq(F), Wholes(q), NEW a, OnlyAsks(q, a),
           NEW f, Whole(f), OnlyAsk(f, a)
    PROVE  /\ Wholes(Append(q, f)) /\ OnlyAsks(Append(q, f), a)
           /\ AnyReq(Append(q, f)) <=> AnyReq(q) \/ HasReq(f)
           /\ AnyAsked(Append(q, f)) <=> AnyAsked(q) \/ Asked(f)
           /\ AskLater(q) /\ (HasReq(f) => Asked(f)) => AskLater(Append(q, f))
           /\ ~AnyReq(q) => AskLater(q)
           /\ ~AnyReq(q) /\ Asked(f) => AskLater(Append(q, f))
  <1> DEFINE g == Append(q, f)
  <1>1. /\ Len(q) \in Nat /\ DOMAIN q = 1..Len(q) /\ DOMAIN g = 1..(Len(q) + 1)
        /\ \A j \in DOMAIN q : j \in DOMAIN g /\ g[j] = q[j]
        /\ Len(q) + 1 \in DOMAIN g /\ g[Len(q) + 1] = f
        /\ \A j \in DOMAIN g : j \in DOMAIN q \/ j = Len(q) + 1
    OBVIOUS
  <1> HIDE DEF g
  <1>2. Wholes(g) /\ OnlyAsks(g, a)
    BY <1>1 DEF Wholes, OnlyAsks
  <1>3. AnyReq(g) <=> AnyReq(q) \/ HasReq(f)
    BY <1>1 DEF AnyReq
  <1>4. AnyAsked(g) <=> AnyAsked(q) \/ Asked(f)
    BY <1>1 DEF AnyAsked
  <1>5. AskLater(q) /\ (HasReq(f) => Asked(f)) => AskLater(g)
    BY <1>1 DEF AskLater
  <1>6. ~AnyReq(q) => AskLater(q)
    BY DEF AnyReq, AskLater
  <1>7. ~AnyReq(q) /\ Asked(f) => AskLater(g)
    BY <1>1 DEF AnyReq, AskLater
  <1> QED
    BY <1>2, <1>3, <1>4, <1>5, <1>6, <1>7 DEF g

(* Two more frames, of which the second may be what the first's request is   *)
(* to be answered at.                                                        *)
LEMMA AppendTwoMade ==
    ASSUME NEW F, NEW q \in Seq(F), Wholes(q), ~AnyReq(q), NEW a,
           NEW f, Whole(f), OnlyAsk(f, a), NEW g, Whole(g), OnlyAsk(g, a),
           ~HasReq(g), HasReq(f) => Asked(f) \/ Asked(g)
    PROVE  /\ Wholes(q \o <<f, g>>) /\ OnlyAsks(q \o <<f, g>>, a)
           /\ AskLater(q \o <<f, g>>)
           /\ AnyReq(q \o <<f, g>>) <=> HasReq(f)
           /\ q \o <<f, g>> = Append(Append(q, f), g)
  <1> DEFINE r == Append(q, f)
  <1>1. q \o <<f, g>> = Append(r, g) /\ r \in Seq(F \cup {f})
    <2>1. q \in Seq(F \cup {f, g}) /\ f \in F \cup {f, g} /\ g \in F \cup {f, g}
      OBVIOUS
    <2> QED
      BY <2>1
  <1>2. OnlyAsks(q, a)
    BY DEF AnyReq, HasReq, OnlyAsks, OnlyAsk
  <1>3. /\ Wholes(r) /\ OnlyAsks(r, a) /\ (AnyReq(r) <=> HasReq(f))
        /\ (HasReq(f) => Asked(f)) => AskLater(r)
    BY <1>2, AppendMade
  <1>4. Asked(g) => AskLater(Append(r, g))
    <2>1. /\ Len(q) \in Nat /\ DOMAIN q = 1..Len(q) /\ DOMAIN r = 1..(Len(q) + 1)
          /\ DOMAIN Append(r, g) = 1..(Len(q) + 2)
          /\ Append(r, g)[Len(q) + 2] = g
          /\ \A j \in 1..(Len(q) + 1) : Append(r, g)[j] = r[j]
      BY <1>1
    <2> DEFINE x == Append(r, g)
    <2>2. \A i \in DOMAIN x : i <= Len(q) + 2 /\ Len(q) + 2 \in DOMAIN x /\ x[Len(q) + 2] = g
      BY <2>1
    <2> HIDE DEF x
    <2>3. Asked(g) => AskLater(x)
      BY <2>2 DEF AskLater
    <2> QED
      BY <2>3 DEF x
  <1>6. q \o <<f, g>> = Append(Append(q, f), g)
    BY <1>1
  <1> HIDE DEF r
  <1>5. /\ Wholes(Append(r, g)) /\ OnlyAsks(Append(r, g), a)
        /\ AnyReq(Append(r, g)) <=> HasReq(f)
        /\ AskLater(r) => AskLater(Append(r, g))
    BY <1>1, <1>3, AppendMade
  <1> QED
    BY <1>1, <1>3, <1>4, <1>5, <1>6

-----------------------------------------------------------------------------
(* What the server tells of a turn is what became of the opponent's side *)

Mons == [PlayerIDs -> [Pkmn -> [hp : Nat, par : BOOLEAN]]]

(* The names of a player's Pokemon, and names the bot's data have. *)
Team(p) == {Sides[p][i] : i \in DOMAIN Sides[p]}
AllKnown(S) == \A n \in S : n \in KnownPkmn /\ MoveOf[n] \in KnownMoves

(* The opponent's Pokemon the lines send out. *)
SentOut(ls) == {ls[i].name : i \in {j \in DOMAIN ls : /\ ls[j].type = "switch"
                                                      /\ ls[j].id = "p2"}}
Seen(s) == shown \cup SentOut(s.lines)

(* What a bot that has been told everything knows in state s of the server. *)
NoteOn(m) == Note(m.hp, m.hp = 0, m.par)
Truth(s)  == View("p1", [n \in Seen(s) |-> NoteOn(s.mon["p2"][n])])

(* The sides keep their length, and a Pokemon not yet sent out is unhurt. *)
StateOK(s) ==
    /\ Telling(s)
    /\ s.order \in [PlayerIDs -> Seq(Pkmn)] /\ s.mon \in Mons
    /\ \A p \in PlayerIDs : Len(s.order[p]) = Len(Sides[p]) /\ s.order[p] \in Seq(Team(p))
    /\ Seen(s) \subseteq Pkmn /\ out(s, "p2") \in Seen(s)
    /\ \A n \in Pkmn \ Seen(s) : s.mon["p2"][n] = [hp |-> MaxHP["p2"], par |-> FALSE]

(* The lines tell it to a bot whose data have the names seen. *)
Informs(s) ==
    /\ StateOK(s)
    /\ AllKnown(Seen(s)) => Leads(s.lines, Truth(Now), Truth(s))

LEMMA SentOutMore ==
    ASSUME NEW T, NEW f, LinesOf(f, T), NEW l
    PROVE  /\ ~(l.type = "switch" /\ l.id = "p2") => SentOut(Append(f, l)) = SentOut(f)
           /\ l.type = "switch" /\ l.id = "p2" => SentOut(Append(f, l)) = SentOut(f) \cup {l.name}
  <1>1. PICK S : f \in Seq(S)
    BY DEF LinesOf
  <1> DEFINE g == Append(f, l)
  <1>2. /\ Len(f) \in Nat /\ DOMAIN f = 1..Len(f) /\ DOMAIN g = 1..(Len(f) + 1)
        /\ \A j \in 1..Len(f) : g[j] = f[j]
        /\ g[Len(f) + 1] = l
    BY <1>1
  <1> HIDE DEF g
  <1>3. /\ \A j \in DOMAIN f : j \in DOMAIN g /\ g[j] = f[j]
        /\ Len(f) + 1 \in DOMAIN g /\ g[Len(f) + 1] = l
        /\ \A j \in DOMAIN g : j \in DOMAIN f \/ j = Len(f) + 1
    BY <1>2
  <1> QED
    BY <1>3 DEF SentOut, g

(* The player in question and the Pokemon it has out. *)
LEMMA OutFacts ==
    ASSUME NEW s, StateOK(s), NEW p \in PlayerIDs
    PROVE  /\ out(s, p) \in Pkmn
           /\ s.mon[p][out(s, p)] \in [hp : Nat, par : BOOLEAN]
           /\ Len(s.order[p]) \in 1..6
           /\ Other(p) \in PlayerIDs
           /\ \A i \in 1..Len(s.order[p]) : s.order[p][i] \in Pkmn
  <1>1. s.order[p] \in Seq(Pkmn) /\ Len(s.order[p]) \in 1..6
    BY BattleAssumption DEF StateOK
  <1>2. \A i \in 1..Len(s.order[p]) : s.order[p][i] \in Pkmn
    BY <1>1
  <1>3. Other(p) \in PlayerIDs
    BY DEF Other, PlayerIDs
  <1>4. out(s, p) \in Pkmn
    BY <1>1, <1>2 DEF out
  <1>5. s.mon[p][out(s, p)] \in [hp : Nat, par : BOOLEAN]
    BY <1>4 DEF StateOK, Mons
  <1> QED
    BY <1>1, <1>2, <1>3, <1>4, <1>5

LEMMA WithLines ==
    ASSUME NEW o, NEW m, NEW ls, NEW more, NEW s, s = [order |-> o, mon |-> m, lines |-> ls]
    PROVE  [s EXCEPT !.lines = more] = [order |-> o, mon |-> m, lines |-> more]
  OBVIOUS

(* One more line, which is true. *)
LEMMA OneMore ==
    ASSUME NEW s, Informs(s), NEW t, StateOK(t), NEW l,
           t.lines = Append(s.lines, l), Seen(s) \subseteq Seen(t),
           AllKnown(Seen(t)) => Reads(l, Truth(s), Truth(t))
    PROVE  Informs(t)
  <1>1. PICK S : s.lines \in Seq(S)
    BY DEF Informs, StateOK, Telling, LinesOf
  <1>2. AllKnown(Seen(t)) => AllKnown(Seen(s))
    BY DEF AllKnown
  <1>3. AllKnown(Seen(t)) => Leads(t.lines, Truth(Now), Truth(t))
    BY <1>1, <1>2, LeadsFurther DEF Informs
  <1> QED
    BY <1>3 DEF Informs

(* A line about the bot's own side, or about a Pokemon known, of which       *)
(* nothing changes.                                                          *)
LEMMA SameTruth ==
    ASSUME NEW s, NEW t, Seen(t) = Seen(s), t.mon["p2"] = s.mon["p2"]
    PROVE  Truth(t) = Truth(s)
  BY DEF Truth

LEMMA TruthFacts ==
    ASSUME NEW s
    PROVE  /\ Truth(s).pid = "p1" /\ DOMAIN Truth(s).seen = Seen(s)
           /\ \A n \in Seen(s) : Truth(s).seen[n] = NoteOn(s.mon["p2"][n])
  BY DEF Truth, View

LEMMA SwitchedInforms ==
    ASSUME NEW s, Informs(s), NEW p \in PlayerIDs, NEW k \in 2..Len(s.order[p])
    PROVE  Informs(switched(s, p, k))
  <1> DEFINE new == [s EXCEPT !.order[p] = [@ EXCEPT ![1] = s.order[p][k],
                                                     ![k] = s.order[p][1]]]
             n == s.order[p][k]
             l == [type |-> "switch", id |-> p, name |-> n, hp |-> s.mon[p][n].hp]
             t == switched(s, p, k)
  <1> SUFFICES Informs(t)
    OBVIOUS
  <1>1. /\ Telling(s) /\ s.order \in [PlayerIDs -> Seq(Pkmn)] /\ s.mon \in Mons
        /\ Len(s.order[p]) \in 1..6 /\ n \in Pkmn /\ s.order[p][1] \in Pkmn
        /\ \A q \in PlayerIDs : s.order[q] \in Seq(Team(q))
    <2>1. StateOK(s)
      BY DEF Informs
    <2>2. /\ Telling(s) /\ s.order \in [PlayerIDs -> Seq(Pkmn)] /\ s.mon \in Mons
      BY <2>1 DEF StateOK
    <2>3. Len(s.order[p]) \in 1..6 /\ \A i \in 1..Len(s.order[p]) : s.order[p][i] \in Pkmn
      BY <2>1, OutFacts
    <2>4. \A q \in PlayerIDs : s.order[q] \in Seq(Team(q))
      BY <2>1 DEF StateOK
    <2> QED
      BY <2>2, <2>3, <2>4
  <1>2. /\ new = [order |-> new.order, mon |-> s.mon, lines |-> s.lines]
        /\ new.order \in [PlayerIDs -> Seq(Pkmn)]
        /\ \A q \in PlayerIDs : Len(new.order[q]) = Len(s.order[q])
        /\ \A q \in PlayerIDs : new.order[q] \in Seq(Team(q))
        /\ new.order[p][1] = n /\ \A q \in PlayerIDs : q # p => new.order[q] = s.order[q]
    <2> DEFINE o == [s.order[p] EXCEPT ![1] = s.order[p][k], ![k] = s.order[p][1]]
    <2>1. o \in Seq(Pkmn) /\ Len(o) = Len(s.order[p]) /\ o[1] = n
      BY <1>1
    <2>4. o \in Seq(Team(p))
      <3> DEFINE q == s.order[p]
                 T == Team(p)
      <3>1. q \in Seq(T) /\ Len(q) \in 1..6 /\ k \in 1..Len(q) /\ 1 \in 1..Len(q)
        BY <1>1
      <3>2. o = [q EXCEPT ![1] = q[k], ![k] = q[1]]
        OBVIOUS
      <3> HIDE DEF q, T, o
      <3>3. q[k] \in T /\ q[1] \in T
        BY <3>1
      <3>4. o \in Seq(T)
        BY <3>1, <3>2, <3>3
      <3> QED
        BY <3>4 DEF T
    <2>2. new = [s EXCEPT !.order = [s.order EXCEPT ![p] = o]]
      OBVIOUS
    <2>3. new = [order |-> [s.order EXCEPT ![p] = o], mon |-> s.mon, lines |-> s.lines]
      <3> HIDE DEF o, new
      <3> QED
        BY <1>1, <2>2 DEF Telling
    <2> HIDE DEF o, new
    <2> QED
      BY <1>1, <2>1, <2>3, <2>4
  <1>3. t = [order |-> new.order, mon |-> s.mon, lines |-> Append(s.lines, l)]
    <2>1. out(new, p) = n
      BY <1>2 DEF out
    <2>2. t = [new EXCEPT !.lines = Append(new.lines, l)]
      BY <2>1 DEF switched
    <2>3. new = [order |-> new.order, mon |-> s.mon, lines |-> s.lines] /\ new.lines = s.lines
      BY <1>2
    <2>4. [new EXCEPT !.lines = Append(s.lines, l)]
             = [order |-> new.order, mon |-> s.mon, lines |-> Append(s.lines, l)]
      <3> DEFINE ls == Append(s.lines, l)
                 o == new.order
      <3>1. new = [order |-> o, mon |-> s.mon, lines |-> s.lines]
        BY <2>3
      <3> HIDE DEF new, o, ls
      <3>2. [new EXCEPT !.lines = ls] = [order |-> o, mon |-> s.mon, lines |-> ls]
        BY ONLY <3>1, WithLines
      <3> QED
        BY <3>2 DEF o, ls
    <2> HIDE DEF new, l, t
    <2> QED
      BY <2>2, <2>3, <2>4
  <1>4. Telling(t)
    BY <1>1, SwitchedTells
  <1>5. /\ p = "p2" => Seen(t) = Seen(s) \cup {n}
        /\ p # "p2" => Seen(t) = Seen(s)
    <2>1. LinesOf(s.lines, TellTypes) /\ l.type = "switch" /\ l.id = p /\ l.name = n
      BY <1>1 DEF Telling
    <2> HIDE DEF l, t
    <2> QED
      BY <1>3, <2>1, SentOutMore DEF Seen
  <1> HIDE DEF new, t
  <1>6. t.mon = s.mon /\ t.order = new.order /\ t.lines = Append(s.lines, l)
    BY <1>3
  <1>7. p = "p1" \/ p = "p2"
    BY DEF PlayerIDs
  <1>8. out(t, "p2") = IF p = "p2" THEN n ELSE out(s, "p2")
    BY <1>2, <1>6, <1>7 DEF out, PlayerIDs
  <1>9. Seen(t) \subseteq Pkmn /\ out(t, "p2") \in Seen(t) /\ Seen(s) \subseteq Seen(t)
    BY <1>1, <1>5, <1>7, <1>8 DEF Informs, StateOK
  <1>10. StateOK(t)
    BY <1>1, <1>2, <1>4, <1>6, <1>9 DEF Informs, StateOK
  <1>11. l.type = "switch" /\ l.id = p /\ l.name = n /\ l.hp = s.mon[p][n].hp
    OBVIOUS
  <1> HIDE DEF l
  <1>12. CASE p = "p1"
    <2>1. Truth(t) = Truth(s)
      BY <1>5, <1>6, <1>12, SameTruth
    <2>2. Reads(l, Truth(s), Truth(t))
      BY <1>11, <1>12, <2>1, TruthFacts DEF Reads, TellTypes
    <2> QED
      BY <1>6, <1>9, <1>10, <2>2, OneMore
  <1>13. CASE p = "p2" /\ n \in Seen(s)
    <2>1. Truth(t) = Truth(s)
      BY <1>5, <1>6, <1>13, SameTruth
    <2>2. Reads(l, Truth(s), Truth(t))
      BY <1>11, <1>13, <2>1, TruthFacts DEF Reads, TellTypes, Learns
    <2> QED
      BY <1>6, <1>9, <1>10, <2>2, OneMore
  <1>14. CASE p = "p2" /\ n \notin Seen(s)
    <2>1. s.mon["p2"][n] = [hp |-> MaxHP["p2"], par |-> FALSE] /\ MaxHP["p2"] # 0
      BY <1>1, <1>14, BattleAssumption DEF Informs, StateOK, PlayerIDs
    <2>2. NoteOn(s.mon["p2"][n]) = Note(l.hp, FALSE, FALSE)
      <3>1. s.mon["p2"][n].hp = l.hp /\ (s.mon["p2"][n].hp = 0) = FALSE /\ s.mon["p2"][n].par = FALSE
        BY <1>11, <1>14, <2>1
      <3> QED
        BY <3>1 DEF NoteOn
    <2>3. Truth(t) = View("p1", [x \in Seen(s) \cup {l.name} |->
                 IF x = l.name THEN Note(l.hp, FALSE, FALSE) ELSE Truth(s).seen[x]])
      BY <1>5, <1>6, <1>11, <1>14, <2>2, TruthFacts DEF Truth
    <2>4. AllKnown(Seen(t)) => Learns(l, Truth(s), Truth(t))
      <3>1. AllKnown(Seen(t)) => l.name \in KnownPkmn
        BY <1>5, <1>11, <1>14 DEF AllKnown
      <3> QED
        BY <1>11, <1>14, <2>3, <3>1, TruthFacts DEF Learns
    <2>5. AllKnown(Seen(t)) => Reads(l, Truth(s), Truth(t))
      BY <1>11, <1>14, <2>4, TruthFacts DEF Reads, TellTypes
    <2> QED
      BY <1>6, <1>9, <1>10, <2>5, OneMore
  <1> QED
    BY <1>7, <1>12, <1>13, <1>14

(* From s to t the Pokemon that p has out became m. *)
Became(t, s, p, m) == t.mon = [s.mon EXCEPT ![p] = [@ EXCEPT ![out(s, p)] = m]]

LEMMA ChangeMon ==
    ASSUME NEW s, StateOK(s), NEW p \in PlayerIDs, NEW m \in [hp : Nat, par : BOOLEAN],
           NEW t, Became(t, s, p, m)
    PROVE  /\ t.mon \in Mons
           /\ \A q \in PlayerIDs : \A n \in Pkmn :
                 t.mon[q][n] = IF q = p /\ n = out(s, p) THEN m ELSE s.mon[q][n]
           /\ p = "p1" => t.mon["p2"] = s.mon["p2"]
  <1>1. s.mon \in Mons /\ out(s, p) \in Pkmn
    BY OutFacts DEF StateOK
  <1> QED
    BY <1>1 DEF Mons, Became, PlayerIDs

(* The truth about p's side, one Pokemon of which has become m. *)
TruthWith(s, p, m) ==
    View("p1", [x \in Seen(s) |->
                   IF x = out(s, p) THEN NoteOn(m) ELSE Truth(s).seen[x]])

LEMMA ChangeTruth ==
    ASSUME NEW s, StateOK(s), NEW p \in PlayerIDs, NEW m \in [hp : Nat, par : BOOLEAN],
           NEW t, Became(t, s, p, m), Seen(t) = Seen(s)
    PROVE  /\ p = "p1" => Truth(t) = Truth(s)
           /\ p = "p2" => Truth(t) = TruthWith(s, p, m)
  <1>1. Seen(s) \subseteq Pkmn
    BY DEF StateOK
  <1>2. p = "p1" => Truth(t) = Truth(s)
    BY ChangeMon, SameTruth
  <1>3. ASSUME p = "p2"
        PROVE  Truth(t) = TruthWith(s, p, m)
    <2>1. \A x \in Pkmn :
             t.mon["p2"][x] = IF x = out(s, p) THEN m ELSE s.mon["p2"][x]
      BY <1>3, ChangeMon DEF PlayerIDs
    <2>2. \A x \in Seen(s) : NoteOn(t.mon["p2"][x]) =
                 IF x = out(s, p) THEN NoteOn(m) ELSE Truth(s).seen[x]
      BY <1>1, <2>1, TruthFacts
    <2> QED
      BY <2>2 DEF Truth, TruthWith
  <1> QED
    BY <1>2, <1>3

(* Lines that send nobody out leave what is seen as it was. *)
LEMMA SameSeen ==
    ASSUME NEW s, LinesOf(s.lines, TellTypes), NEW t, NEW l, l.type # "switch",
           t.lines = Append(s.lines, l)
    PROVE  Seen(t) = Seen(s)
  BY SentOutMore DEF Seen

LEMMA UsedInforms ==
    ASSUME NEW s, Informs(s), NEW p \in PlayerIDs, NEW l,
           l = [type |-> "move", id |-> p, name |-> out(s, p), move |-> MoveOf[out(s, p)]],
           NEW t, t = [s EXCEPT !.lines = Append(@, l)]
    PROVE  Informs(t) /\ t.order = s.order /\ t.mon = s.mon
  <1>1. StateOK(s) /\ Telling(s)
    BY DEF Informs, StateOK
  <1>2. /\ l.type = "move" /\ l.id = p /\ l.name = out(s, p) /\ l.move = MoveOf[out(s, p)]
        /\ l.type \in TellTypes
    BY DEF TellTypes
  <1>3. /\ t.lines = Append(s.lines, l) /\ t.order = s.order /\ t.mon = s.mon
        /\ t = [order |-> t.order, mon |-> t.mon, lines |-> t.lines]
    BY <1>1 DEF Telling
  <1>4. Telling(t)
    BY <1>1, <1>2, <1>3, AppendLine DEF Telling
  <1>5. Seen(t) = Seen(s)
    BY <1>1, <1>2, <1>3, SameSeen DEF Telling
  <1>6. out(t, "p2") = out(s, "p2")
    BY <1>3 DEF out
  <1>7. StateOK(t)
    BY <1>1, <1>3, <1>4, <1>5, <1>6 DEF StateOK
  <1>8. Truth(t) = Truth(s)
    BY <1>3, <1>5, SameTruth
  <1>9. AllKnown(Seen(t)) => Reads(l, Truth(s), Truth(t))
    <2>1. p = "p1" \/ (p = "p2" /\ out(s, p) \in Seen(s))
      BY <1>1 DEF PlayerIDs, StateOK
    <2>2. AllKnown(Seen(t)) /\ p = "p2" => l.move \in KnownMoves
      BY <1>2, <1>5, <2>1 DEF AllKnown
    <2> QED
      BY <1>2, <1>8, <2>1, <2>2, TruthFacts DEF Reads, Learns
  <1> QED
    BY <1>3, <1>5, <1>7, <1>9, OneMore

(* p's Pokemon becomes m, which one line tells. *)
LEMMA ChangeInforms ==
    ASSUME NEW s, Informs(s), NEW p \in PlayerIDs, NEW m \in [hp : Nat, par : BOOLEAN],
           NEW t, Became(t, s, p, m),
           t.order = s.order, Telling(t), Seen(t) = Seen(s)
    PROVE  StateOK(t)
  <1>1. StateOK(s)
    BY DEF Informs
  <1>2. t.mon \in Mons /\ \A n \in Pkmn \ Seen(s) : t.mon["p2"][n] = s.mon["p2"][n]
    <2>1. /\ t.mon \in Mons
          /\ \A q \in PlayerIDs : \A n \in Pkmn :
                 t.mon[q][n] = IF q = p /\ n = out(s, p) THEN m ELSE s.mon[q][n]
      BY <1>1, ChangeMon
    <2>2. "p2" \in PlayerIDs /\ out(s, "p2") \in Seen(s)
      BY <1>1 DEF PlayerIDs, StateOK
    <2> QED
      BY <2>1, <2>2
  <1>3. out(t, "p2") = out(s, "p2")
    BY DEF out
  <1> QED
    BY <1>1, <1>2, <1>3 DEF StateOK

LEMMA ParSetInforms ==
    ASSUME NEW s, Informs(s), NEW p \in PlayerIDs,
           NEW type \in {"-status", "-curestatus"}, NEW par \in BOOLEAN, par <=> type = "-status"
    PROVE  Informs(parSet(s, p, type, par))
  <1> DEFINE l == [type |-> type, id |-> p, name |-> out(s, p), status |-> "par"]
             m == [s.mon[p][out(s, p)] EXCEPT !.par = par]
             t == parSet(s, p, type, par)
             hp == s.mon[p][out(s, p)].hp
  <1> SUFFICES Informs(t)
    OBVIOUS
  <1>1. StateOK(s) /\ Telling(s) /\ s.mon \in Mons
    BY DEF Informs, StateOK
  <1>2. /\ s.mon[p][out(s, p)] \in [hp : Nat, par : BOOLEAN] /\ out(s, p) \in Pkmn
        /\ m \in [hp : Nat, par : BOOLEAN] /\ m.hp = hp /\ m.par = par
    BY <1>1, OutFacts
  <1>3. /\ t.order = s.order /\ t.lines = Append(s.lines, l)
        /\ Became(t, s, p, m)
    <2>1. t = [[s EXCEPT !.mon = [s.mon EXCEPT ![p] = [@ EXCEPT ![out(s, p)] = m]]]
                 EXCEPT !.lines = Append(@, l)]
      BY DEF parSet
    <2> HIDE DEF l, m, t
    <2> QED
      BY <1>1, <2>1 DEF Telling, Became
  <1>4. Telling(t)
    BY <1>1, ParSetTells DEF TellTypes
  <1>5. /\ l.type = type /\ l.id = p /\ l.name = out(s, p) /\ l.status = "par"
        /\ l.type \in TellTypes \ {"switch", "move"}
    BY DEF TellTypes
  <1> HIDE DEF l, m, t, hp
  <1>6. Seen(t) = Seen(s)
    BY <1>1, <1>3, <1>5, SameSeen DEF Telling
  <1>7. StateOK(t)
    BY <1>2, <1>3, <1>4, <1>6, ChangeInforms
  <1>8. CASE p = "p1"
    <2>1. Truth(t) = Truth(s)
      BY <1>1, <1>2, <1>3, <1>6, <1>8, ChangeTruth
    <2>2. Reads(l, Truth(s), Truth(t))
      BY <1>5, <1>8, <2>1, TruthFacts DEF Reads
    <2> QED
      BY <1>3, <1>6, <1>7, <2>2, OneMore
  <1>9. CASE p = "p2"
    <2>1. /\ Truth(t) = View("p1", [x \in Seen(s) |->
                 IF x = out(s, p) THEN NoteOn(m) ELSE Truth(s).seen[x]])
          /\ out(s, p) \in Seen(s)
      <3>1. out(s, p) \in Seen(s)
        BY <1>1, <1>9 DEF StateOK
      <3>2. Truth(t) = TruthWith(s, p, m)
        BY <1>1, <1>2, <1>3, <1>6, <1>9, ChangeTruth
      <3> QED
        BY <3>1, <3>2 DEF TruthWith
    <2>2. NoteOn(m) = Noted(l, Truth(s).seen[out(s, p)])
      <3>1. Truth(s).seen[out(s, p)] = NoteOn(s.mon[p][out(s, p)])
        BY <1>9, <2>1, TruthFacts
      <3>2. NoteOn(m) = Note(hp, hp = 0, par)
        BY <1>2 DEF NoteOn
      <3>3. par = (type = "-status")
        OBVIOUS
      <3>4. /\ NoteOn(s.mon[p][out(s, p)]).hp = hp
            /\ NoteOn(s.mon[p][out(s, p)]).fainted = (hp = 0)
        BY DEF NoteOn, Note, hp
      <3>5. Noted(l, NoteOn(s.mon[p][out(s, p)])) = Note(hp, (hp = 0) \/ FALSE, par)
        BY <1>5, <3>3, <3>4 DEF Noted
      <3> QED
        BY <3>1, <3>2, <3>5
    <2>3. Truth(t) = View(Truth(s).pid, [n \in DOMAIN Truth(s).seen |->
                 IF n = l.name THEN Noted(l, Truth(s).seen[n]) ELSE Truth(s).seen[n]])
      BY <1>5, <2>1, <2>2, TruthFacts
    <2>4. Learns(l, Truth(s), Truth(t))
      BY <1>5, <2>1, <2>3, TruthFacts DEF Learns
    <2>5. Reads(l, Truth(s), Truth(t))
      BY <1>5, <1>9, <2>4, TruthFacts DEF Reads
    <2> QED
      BY <1>3, <1>6, <1>7, <2>5, OneMore
  <1> QED
    BY <1>8, <1>9 DEF PlayerIDs

LEMMA HpSetInforms ==
    ASSUME NEW s, Informs(s), NEW p \in PlayerIDs, NEW type \in {"-damage", "-heal"},
           NEW h \in Nat, h = 0 \/ s.mon[p][out(s, p)].hp # 0
    PROVE  Informs(hpSet(s, p, type, h))
  <1> DEFINE l == [type |-> type, id |-> p, name |-> out(s, p), hp |-> h]
             f == Named("faint", s, p)
             m == [s.mon[p][out(s, p)] EXCEPT !.hp = h]
             t == hpSet(s, p, type, h)
             old == s.mon[p][out(s, p)]
             one == Append(s.lines, l)
  <1> SUFFICES Informs(t)
    OBVIOUS
  <1>1. StateOK(s) /\ Telling(s) /\ s.mon \in Mons
    BY DEF Informs, StateOK
  <1>2. /\ old \in [hp : Nat, par : BOOLEAN] /\ out(s, p) \in Pkmn
        /\ m \in [hp : Nat, par : BOOLEAN] /\ m.hp = h /\ m.par = old.par
    BY <1>1, OutFacts
  <1>3. PICK S : s.lines \in Seq(S)
    BY <1>1 DEF Telling, LinesOf
  <1>4. /\ t.order = s.order
        /\ t.lines = IF h = 0 THEN Append(one, f) ELSE one
        /\ Became(t, s, p, m)
    <2>1. t = [[s EXCEPT !.mon = [s.mon EXCEPT ![p] = [@ EXCEPT ![out(s, p)] = m]]]
                 EXCEPT !.lines = @ \o (IF h = 0 THEN <<l, f>> ELSE <<l>>)]
      BY DEF hpSet
    <2>2. s.lines \o <<l>> = one /\ s.lines \o <<l, f>> = Append(one, f)
      <3> HIDE DEF l, f
      <3>1. s.lines \in Seq(S \cup {l, f})
        BY <1>3
      <3> QED
        BY <3>1
    <2> HIDE DEF l, m, t, f, one
    <2>3. t.lines = s.lines \o (IF h = 0 THEN <<l, f>> ELSE <<l>>)
      BY <1>1, <2>1 DEF Telling
    <2> QED
      BY <1>1, <2>1, <2>2, <2>3 DEF Telling, Became
  <1>5. Telling(t)
    BY <1>1, HpSetTells DEF TellTypes
  <1>6. /\ l.type = type /\ l.id = p /\ l.name = out(s, p) /\ l.hp = h
        /\ l.type \in TellTypes \ {"switch", "move"}
        /\ f.type = "faint" /\ f.id = p /\ f.name = out(s, p)
        /\ f.type \in TellTypes \ {"switch", "move"}
    BY DEF TellTypes, Named
  <1> HIDE DEF l, m, t, f, old
  <1>7. LinesOf(one, TellTypes) /\ one \in Seq(S \cup {l})
    BY <1>1, <1>3, <1>6, AppendLine DEF Telling
  <1>8. SentOut(one) = SentOut(s.lines) /\ SentOut(Append(one, f)) = SentOut(one)
    BY <1>1, <1>6, <1>7, SentOutMore DEF Telling
  <1> HIDE DEF one
  <1>9. Seen(t) = Seen(s)
    BY <1>4, <1>8 DEF Seen
  <1>10. StateOK(t)
    BY <1>2, <1>4, <1>5, <1>9, ChangeInforms
  <1>10a. p = "p1" => Truth(t) = Truth(s)
    BY <1>1, <1>2, <1>4, <1>9, ChangeTruth
  <1>10b. p = "p2" => Truth(t) = TruthWith(s, p, m)
    BY <1>1, <1>2, <1>4, <1>9, ChangeTruth
  <1>10c. AllKnown(Seen(s)) <=> AllKnown(Seen(t))
    BY <1>9
  <1> DEFINE mid == IF p = "p1" THEN Truth(s) ELSE
                    View("p1", [x \in Seen(s) |-> IF x = out(s, p)
                                 THEN Note(h, old.hp = 0, old.par) ELSE Truth(s).seen[x]])
  <1>11. Reads(l, Truth(s), mid)
    <2>1. CASE p = "p1"
      BY <1>6, <2>1, TruthFacts DEF Reads
    <2>2. CASE p = "p2"
      <3>1. out(s, p) \in Seen(s)
        BY <1>1, <2>2 DEF StateOK
      <3>2. Truth(s).seen[out(s, p)] = Note(old.hp, old.hp = 0, old.par)
        BY <2>2, <3>1, TruthFacts DEF NoteOn, old
      <3>3. /\ Note(old.hp, old.hp = 0, old.par).par = old.par
            /\ Note(old.hp, old.hp = 0, old.par).fainted = (old.hp = 0)
        BY DEF Note
      <3>4. Noted(l, Note(old.hp, old.hp = 0, old.par)) = Note(h, old.hp = 0, old.par)
        <4>1. /\ (old.hp = 0) \in BOOLEAN
              /\ (l.type \in {"-damage", "-heal"}) = TRUE
              /\ (l.type = "faint") = FALSE /\ (l.type \in {"-status", "-curestatus"}) = FALSE
          BY <1>6
        <4>2. ((old.hp = 0) \/ FALSE) = (old.hp = 0)
          OBVIOUS
        <4> QED
          BY <1>6, <3>3, <4>1, <4>2 DEF Noted
      <3>5. mid = View(Truth(s).pid, [n \in DOMAIN Truth(s).seen |->
                 IF n = l.name THEN Noted(l, Truth(s).seen[n]) ELSE Truth(s).seen[n]])
        <4>1. mid = View("p1", [x \in Seen(s) |-> IF x = out(s, p)
                             THEN Note(h, old.hp = 0, old.par) ELSE Truth(s).seen[x]])
          BY <2>2
        <4>2. \A x \in Seen(s) :
                 (IF x = out(s, p) THEN Note(h, old.hp = 0, old.par) ELSE Truth(s).seen[x])
                  = (IF x = l.name THEN Noted(l, Truth(s).seen[x]) ELSE Truth(s).seen[x])
          BY <1>6, <3>2, <3>4
        <4> HIDE DEF mid
        <4>3. DOMAIN Truth(s).seen = Seen(s) /\ Truth(s).pid = "p1"
          BY TruthFacts
        <4>4. [x \in Seen(s) |-> IF x = out(s, p)
                 THEN Note(h, old.hp = 0, old.par) ELSE Truth(s).seen[x]]
                = [x \in Seen(s) |-> IF x = l.name
                     THEN Noted(l, Truth(s).seen[x]) ELSE Truth(s).seen[x]]
          BY <4>2
        <4> QED
          BY <4>1, <4>3, <4>4
      <3> HIDE DEF mid
      <3>6. Learns(l, Truth(s), mid)
        BY <1>6, <3>1, <3>5, TruthFacts DEF Learns
      <3> QED
        BY <1>6, <2>2, <3>6, TruthFacts DEF Reads
    <2> QED
      BY <2>1, <2>2 DEF PlayerIDs
  <1>12. AllKnown(Seen(s)) => Leads(one, Truth(Now), mid)
    <2> HIDE DEF mid
    <2> QED
      BY <1>3, <1>11, LeadsFurther DEF Informs, one
  <1>13. CASE h # 0
    <2>1. mid = Truth(t)
      <3>1. CASE p = "p1"
        <4>1. Truth(t) = Truth(s)
          BY <3>1, <1>10a
        <4> QED
          BY <3>1, <4>1
      <3>2. CASE p = "p2"
        <4>1. Truth(t) = View("p1", [x \in Seen(s) |->
                 IF x = out(s, p) THEN NoteOn(m) ELSE Truth(s).seen[x]])
          BY <3>2, <1>10b DEF TruthWith
        <4>2. NoteOn(m) = Note(h, old.hp = 0, old.par)
          <5>1. (old.hp = 0) = FALSE /\ (h = 0) = FALSE
            BY <1>13 DEF old
          <5> QED
            BY <1>2, <5>1 DEF NoteOn
        <4> QED
          BY <3>2, <4>1, <4>2
      <3> QED
        BY <3>1, <3>2 DEF PlayerIDs
    <2> QED
      BY <1>4, <1>10, <1>10c, <1>12, <1>13, <2>1 DEF Informs
  <1>14. CASE h = 0
    <2>1. Reads(f, mid, Truth(t))
      <3>1. CASE p = "p1"
        <4>1. Truth(t) = Truth(s)
          BY <3>1, <1>10a
        <4> QED
          BY <1>6, <3>1, <4>1, TruthFacts DEF Reads
      <3>2. CASE p = "p2"
        <4>1. Truth(t) = View("p1", [x \in Seen(s) |->
                 IF x = out(s, p) THEN NoteOn(m) ELSE Truth(s).seen[x]])
          BY <3>2, <1>10b DEF TruthWith
        <4>2. Noted(f, Note(h, old.hp = 0, old.par)) = NoteOn(m)
          <5>1. /\ Note(h, old.hp = 0, old.par).hp = h
                /\ Note(h, old.hp = 0, old.par).par = old.par
                /\ Note(h, old.hp = 0, old.par).fainted = (old.hp = 0)
            BY DEF Note
          <5>2. ((old.hp = 0) \/ f.type = "faint") = TRUE /\ (m.hp = 0) = TRUE
            BY <1>2, <1>6, <1>14
          <5>3. Noted(f, Note(h, old.hp = 0, old.par)) = Note(h, TRUE, old.par)
            BY <1>6, <5>1, <5>2 DEF Noted
          <5>4. NoteOn(m) = Note(h, TRUE, old.par)
            BY <1>2, <5>2 DEF NoteOn
          <5> QED
            BY <5>3, <5>4
        <4>3. /\ mid.pid = "p1" /\ DOMAIN mid.seen = Seen(s)
              /\ \A x \in Seen(s) : mid.seen[x] =
                    IF x = out(s, p) THEN Note(h, old.hp = 0, old.par) ELSE Truth(s).seen[x]
          BY <3>2 DEF View
        <4> HIDE DEF mid
        <4>4. Truth(t) = View(mid.pid, [n \in DOMAIN mid.seen |->
                 IF n = f.name THEN Noted(f, mid.seen[n]) ELSE mid.seen[n]])
          BY <1>6, <4>1, <4>2, <4>3
        <4>5. f.name \in DOMAIN mid.seen
          BY <1>1, <1>6, <3>2, <4>3 DEF StateOK
        <4>6. Learns(f, mid, Truth(t))
          BY <1>6, <4>4, <4>5 DEF Learns
        <4> QED
          BY <1>6, <3>2, <4>3, <4>6 DEF Reads
      <3> QED
        BY <3>1, <3>2 DEF PlayerIDs
    <2> HIDE DEF mid
    <2>2. AllKnown(Seen(s)) => Leads(t.lines, Truth(Now), Truth(t))
      BY <1>4, <1>7, <1>12, <1>14, <2>1, LeadsFurther
    <2> QED
      BY <1>10, <1>10c, <2>2 DEF Informs
  <1> QED
    BY <1>13, <1>14

(* Whatever an attack does, the lines tell it. *)
LEMMA AttackedInforms ==
    ASSUME NEW s, Informs(s), NEW p \in PlayerIDs, NEW effect, NEW t \in attacked(s, p, effect)
    PROVE  Informs(t)
  <1> DEFINE q == Other(p)
             hp == s.mon[q][out(s, q)].hp
             l == [type |-> "move", id |-> p, name |-> out(s, p), move |-> MoveOf[out(s, p)]]
             used == [s EXCEPT !.lines = Append(@, l)]
  <1>1. \/ t = s
        \/ ~down(s, p) /\ \/ t = used
                          \/ t = hpSet(used, q, "-damage", hp - 1) /\ hp > 0
                          \/ t = hpSet(used, p, "-heal", MaxHP[p])
                          \/ t = parSet(used, q, "-status", TRUE)
                          \/ t = parSet(used, p, "-curestatus", FALSE)
                          \/ t = hpSet(hpSet(used, q, "-damage", 0), p, "-damage", 0)
    BY DEF attacked
  <1>2. Informs(used) /\ used.order = s.order /\ used.mon = s.mon
    BY UsedInforms
  <1>3. /\ q \in PlayerIDs /\ s.mon[q][out(s, q)] \in [hp : Nat, par : BOOLEAN]
        /\ MaxHP[p] \in Nat
    BY OutFacts, BattleAssumption DEF Informs
  <1>4. \A r : out(used, r) = out(s, r)
    BY <1>2 DEF out
  <1>5. down(s, p) <=> s.mon[p][out(s, p)].hp = 0
    BY DEF down
  <1>6. hp \in Nat
    BY <1>3
  <1> HIDE DEF used, q
  <1>7. CASE t = hpSet(used, q, "-damage", hp - 1) /\ hp > 0
    <2>1. hp - 1 \in Nat /\ used.mon[q][out(used, q)].hp # 0
      BY <1>2, <1>4, <1>6, <1>7
    <2> QED
      BY <1>2, <1>3, <1>7, <2>1, HpSetInforms
  <1>8. CASE t = hpSet(used, p, "-heal", MaxHP[p]) /\ ~down(s, p)
    <2>1. used.mon[p][out(used, p)].hp # 0
      BY <1>2, <1>4, <1>5, <1>8
    <2> QED
      BY <1>2, <1>3, <1>8, <2>1, HpSetInforms
  <1>9. CASE t = hpSet(hpSet(used, q, "-damage", 0), p, "-damage", 0)
    <2>1. Informs(hpSet(used, q, "-damage", 0))
      BY <1>2, <1>3, HpSetInforms
    <2> QED
      BY <1>9, <2>1, HpSetInforms
  <1>10. CASE t = parSet(used, q, "-status", TRUE) \/ t = parSet(used, p, "-curestatus", FALSE)
    BY <1>2, <1>3, <1>10, ParSetInforms
  <1> QED
    BY <1>1, <1>2, <1>7, <1>8, <1>9, <1>10

-----------------------------------------------------------------------------
(* The server's side of the invariant *)

(* The sides, the opponent's Pokemon that have not been out, and what goes   *)
(* with the phases.                                                          *)
Serves ==
    /\ order \in [PlayerIDs -> Seq(Pkmn)] /\ mon \in Mons
    /\ \A p \in PlayerIDs : Len(order[p]) = Len(Sides[p]) /\ order[p] \in Seq(Team(p))
    /\ trapped \in BOOLEAN /\ shown \subseteq Pkmn
    /\ \A n \in Pkmn \ shown : mon["p2"][n] = [hp |-> MaxHP["p2"], par |-> FALSE]
    /\ phase # "lobby" => out(Now, "p2") \in shown
    /\ phase = "lobby" => shown = {}
    /\ phase = "force" => \A p \in PlayerIDs : ~beaten(Now, p)
    /\ phase # "turn" => trapped = FALSE

(* The truth now, and the request the server waits on now. *)
Target == View("p1", [n \in shown |-> NoteOn(mon["p2"][n])])

Asking ==
    [type |-> "request", wait |-> FALSE, forceSwitch |-> phase = "force",
     trapped |-> trapped, moves |-> IF trapped THEN 1 ELSE 4, side |-> SideOf(Now)]

LEMMA NowFacts ==
    /\ Now.order = order /\ Now.mon = mon /\ Now.lines = <<>>
    /\ Seen(Now) = shown /\ Truth(Now) = Target
  <1>1. Now.order = order /\ Now.mon = mon /\ Now.lines = <<>>
    BY DEF Now
  <1>2. Seen(Now) = shown
    <2>1. SentOut(<<>>) = {}
      BY DEF SentOut
    <2> QED
      BY <1>1, <2>1 DEF Seen
  <1> QED
    BY <1>1, <1>2 DEF Truth, Target

LEMMA NowInforms ==
    ASSUME Serves, phase # "lobby"
    PROVE  Informs(Now)
  <1>1. StateOK(Now)
    BY NowFacts, NowTells DEF Serves, StateOK
  <1> QED
    BY <1>1, NowFacts, LeadsNowhere DEF Informs

(* Whoever may be switched in is on the bench. *)
LEMMA SwitchInforms ==
    ASSUME NEW s, Informs(s), NEW p \in PlayerIDs, NEW k \in benched(Now, p), Serves
    PROVE  Informs(switched(s, p, k))
  <1>1. k \in 2..Len(order[p]) /\ Len(order[p]) = Len(s.order[p])
    BY NowFacts DEF benched, Serves, Informs, StateOK
  <1> QED
    BY <1>1, SwitchedInforms

LEMMA PlayTurnInforms ==
    ASSUME PlayTurn, Serves
    PROVE  \E s, dis : \E trap \in BOOLEAN : Informs(s) /\ Commit(s, trap, dis)
  <1> DEFINE m == Head(sent)
  <1>1. phase = "turn" /\ Legal(m) /\ "p1" \in PlayerIDs /\ "p2" \in PlayerIDs
    BY DEF PlayTurn, PlayerIDs
  <1>2. PICK k \in benched(Now, "p2") \cup {1}, first \in PlayerIDs :
        \E e1 \in IF m.cmd = "switch" THEN {"none"} ELSE Effects["p1"],
           e2 \in IF k # 1 THEN {"none"} ELSE Effects["p2"],
           s1 \in {IF m.cmd = "switch" THEN switched(Now, "p1", m.slot) ELSE Now} :
        \E s2 \in {IF k # 1 THEN switched(s1, "p2", k) ELSE s1} :
        \E s3 \in attacked(s2, first, IF first = "p1" THEN e1 ELSE e2) :
        \E s4 \in attacked(s3, Other(first), IF first = "p1" THEN e2 ELSE e1) :
        \E dis \in disabledAfter(m, IF down(s4, "p2") THEN "none" ELSE e2) :
           Commit(s4, e1 = "trap", dis)
    BY DEF PlayTurn
  <1>3. PICK e1 \in IF m.cmd = "switch" THEN {"none"} ELSE Effects["p1"],
             e2 \in IF k # 1 THEN {"none"} ELSE Effects["p2"],
             s1 \in {IF m.cmd = "switch" THEN switched(Now, "p1", m.slot) ELSE Now} :
        \E s2 \in {IF k # 1 THEN switched(s1, "p2", k) ELSE s1} :
        \E s3 \in attacked(s2, first, IF first = "p1" THEN e1 ELSE e2) :
        \E s4 \in attacked(s3, Other(first), IF first = "p1" THEN e2 ELSE e1) :
        \E dis \in disabledAfter(m, IF down(s4, "p2") THEN "none" ELSE e2) :
           Commit(s4, e1 = "trap", dis)
    BY <1>2
  <1>4. Informs(s1)
    <2>1. Informs(Now)
      BY <1>1, NowInforms
    <2>2. ASSUME m.cmd = "switch" PROVE Informs(switched(Now, "p1", m.slot))
      <3>1. m.slot \in benched(Now, "p1")
        BY <1>1, <2>2 DEF Legal, Listed
      <3> QED
        BY <1>1, <2>1, <3>1, SwitchInforms
    <2> QED
      BY <2>1, <2>2
  <1>5. PICK s2 \in {IF k # 1 THEN switched(s1, "p2", k) ELSE s1} :
        \E s3 \in attacked(s2, first, IF first = "p1" THEN e1 ELSE e2) :
        \E s4 \in attacked(s3, Other(first), IF first = "p1" THEN e2 ELSE e1) :
        \E dis \in disabledAfter(m, IF down(s4, "p2") THEN "none" ELSE e2) :
           Commit(s4, e1 = "trap", dis)
    BY <1>3
  <1>6. Informs(s2)
    <2>1. k # 1 => Informs(switched(s1, "p2", k))
      BY <1>1, <1>4, SwitchInforms
    <2> QED
      BY <1>4, <2>1
  <1>7. PICK s3 \in attacked(s2, first, IF first = "p1" THEN e1 ELSE e2) :
        \E s4 \in attacked(s3, Other(first), IF first = "p1" THEN e2 ELSE e1) :
        \E dis \in disabledAfter(m, IF down(s4, "p2") THEN "none" ELSE e2) :
           Commit(s4, e1 = "trap", dis)
    BY <1>5
  <1>8. PICK s4 \in attacked(s3, Other(first), IF first = "p1" THEN e2 ELSE e1) :
        \E dis : Commit(s4, e1 = "trap", dis)
    BY <1>7
  <1>9. Informs(s3)
    BY <1>6, AttackedInforms
  <1>10. Other(first) \in PlayerIDs
    BY DEF Other, PlayerIDs
  <1>11. Informs(s4)
    BY <1>9, <1>10, AttackedInforms
  <1> QED
    BY <1>8, <1>11

LEMMA ReplaceInforms ==
    ASSUME Replace, Serves
    PROVE  \E s, dis : \E trap \in BOOLEAN : Informs(s) /\ Commit(s, trap, dis)
  <1>1. Informs(Now) /\ phase = "force" /\ "p1" \in PlayerIDs /\ "p2" \in PlayerIDs
    BY NowInforms DEF Replace, PlayerIDs
  <1>2. CASE ~down(Now, "p1")
    <2>1. PICK k \in benched(Now, "p2") : Commit(switched(Now, "p2", k), FALSE, disabled)
      BY <1>2 DEF Replace
    <2> QED
      BY <1>1, <2>1, SwitchInforms
  <1>3. CASE down(Now, "p1")
    <2> DEFINE s == switched(Now, "p1", Head(sent).slot)
    <2>1. /\ Legal(Head(sent))
          /\ \/ Commit(s, FALSE, {})
             \/ \E k \in benched(Now, "p2") : Commit(switched(s, "p2", k), FALSE, {})
      BY <1>3 DEF Replace
    <2>2. Head(sent).slot \in benched(Now, "p1")
      BY <1>1, <2>1 DEF Legal, Listed
    <2>3. Informs(s)
      BY <1>1, <2>2, SwitchInforms
    <2> HIDE DEF s
    <2>4. \A k \in benched(Now, "p2") : Informs(switched(s, "p2", k))
      BY <1>1, <2>3, SwitchInforms
    <2> QED
      BY <2>1, <2>3, <2>4
  <1> QED
    BY <1>2, <1>3

-----------------------------------------------------------------------------
(* The frames the server makes *)

LEMMA LineTypes ==
    ASSUME NEW f, NEW T, LinesOf(f, T)
    PROVE  /\ Len(f) \in Nat /\ DOMAIN f = 1..Len(f)
           /\ \A j \in DOMAIN f : f[j].type \in T
  <1>1. PICK S : f \in Seq(S) /\ \A x \in S : x.type \in T
    BY DEF LinesOf
  <1> QED
    BY <1>1

(* A frame of which no line is a request or a player's. *)
LEMMA InRoomMade ==
    ASSUME NEW f, LinesOf(f, TellTypes \cup {"turn", "win"})
    PROVE  /\ Whole(InRoom(f)) /\ ~HasReq(InRoom(f))
           /\ \A a : OnlyAsk(InRoom(f), a)
           /\ \A j \in DOMAIN f : Asks(f[j]) => Asked(InRoom(f))
  <1>1. LinesOf(f, BattleTypes)
    BY DEF LinesOf, BattleTypes
  <1>2. \A j \in DOMAIN f : f[j].type \in TellTypes \cup {"turn", "win"}
    BY LineTypes
  <1> DEFINE g == InRoom(f)
  <1>3. /\ Len(f) \in Nat /\ DOMAIN f = 1..Len(f) /\ DOMAIN g = 1..(Len(f) + 1)
        /\ g[1] = [type |-> "room", room |-> room]
        /\ \A j \in DOMAIN f : g[j + 1] = f[j]
    BY <1>1, InRoomFacts
  <1>4. g # <<>>
    BY <1>3
  <1> HIDE DEF g
  <1>5. \A j \in DOMAIN g : j # 1 => g[j].type \in TellTypes \cup {"turn", "win"}
    <2> SUFFICES ASSUME NEW j \in DOMAIN g, j # 1
                 PROVE  g[j].type \in TellTypes \cup {"turn", "win"}
      OBVIOUS
    <2>1. j - 1 \in DOMAIN f /\ (j - 1) + 1 = j
      BY <1>3
    <2> QED
      BY <1>2, <1>3, <2>1
  <1>6. g[1].type = "room" /\ g[1].room = room
    BY <1>3
  <1>7. \A j \in DOMAIN g : /\ g[j].type = "room" => j = 1 /\ g[j].room = room
                            /\ g[j].type # "player" /\ g[j].type # "request"
    BY <1>5, <1>6 DEF TellTypes
  <1>8. ~HasReq(g) /\ WellMade(g)
    BY <1>7 DEF HasReq, Req, WellMade
  <1>9. Whole(g) /\ \A a : OnlyAsk(g, a)
    BY <1>4, <1>6, <1>8 DEF Whole, OnlyAsk, HasReq
  <1>10. \A j \in DOMAIN f : j + 1 \in DOMAIN g /\ g[j + 1] = f[j]
    BY <1>3
  <1>11. \A j \in DOMAIN f : Asks(f[j]) => Asked(g)
    BY <1>10 DEF Asked
  <1> QED
    BY <1>8, <1>9, <1>11 DEF g

(* A frame of one line. *)
LEMMA OneLine ==
    ASSUME NEW l, l.type \in BattleTypes \ {"room"}
    PROVE  /\ LinesOf(<<l>>, BattleTypes)
           /\ Whole(InRoom(<<l>>))
           /\ HasReq(InRoom(<<l>>)) <=> Req(l)
           /\ Asked(InRoom(<<l>>)) <=> Asks(l)
           /\ \A a : (Req(l) => l = a) => OnlyAsk(InRoom(<<l>>), a)
           /\ \A u, v : Reads(l, u, v) => Leads(InRoom(<<l>>), u, v)
  <1> DEFINE f == <<l>>
             g == InRoom(f)
  <1>1. LinesOf(f, BattleTypes) /\ Len(f) = 1 /\ DOMAIN f = 1..1 /\ f[1] = l /\ f = Append(<<>>, l)
    BY ShortLines
  <1> HIDE DEF f
  <1>2. /\ DOMAIN g = 1..2 /\ g[1] = [type |-> "room", room |-> room] /\ g[2] = l
    <2>1. /\ DOMAIN g = 1..(Len(f) + 1) /\ g[1] = [type |-> "room", room |-> room]
          /\ \A j \in DOMAIN f : g[j + 1] = f[j]
      BY <1>1, InRoomFacts
    <2> HIDE DEF g
    <2>2. g[1 + 1] = f[1]
      BY <1>1, <2>1
    <2> QED
      BY <1>1, <2>1, <2>2
  <1>3. Len(g) = 2 /\ g # <<>>
    BY <1>1 DEF InRoom, f
  <1> HIDE DEF g
  <1>4. g[1].type = "room" /\ g[1].room = room /\ ~Req(g[1]) /\ ~Asks(g[1])
    BY <1>2 DEF Req, Asks
  <1>5. 1 \in DOMAIN g /\ 2 \in DOMAIN g /\ \A j \in DOMAIN g : j = 1 \/ j = 2
    BY <1>2
  <1>6. Whole(g)
    <2>1. \A j \in DOMAIN g : j # 1 => j = 2 /\ g[j] = l /\ l.type # "room"
      BY <1>2, <1>5
    <2> QED
      BY <1>3, <1>4, <2>1 DEF Whole, WellMade
  <1>7. /\ HasReq(g) <=> Req(l)
        /\ Asked(g) <=> Asks(l)
        /\ \A a : (Req(l) => l = a) => OnlyAsk(g, a)
    BY <1>2, <1>4, <1>5 DEF HasReq, Asked, OnlyAsk
  <1>8. ASSUME NEW u, NEW v, Reads(l, u, v)
        PROVE  Leads(g, u, v)
    <2>1. Leads(<<>>, u, u)
      BY LeadsNowhere
    <2>2. PICK S : <<>> \in Seq(S)
      BY ShortSeq
    <2>3. Leads(f, u, v)
      BY <1>1, <1>8, <2>1, <2>2, LeadsFurther
    <2> QED
      BY <1>1, <2>3, LeadsInRoom DEF g
  <1> QED
    BY <1>1, <1>6, <1>7, <1>8 DEF f, g

LEMMA RequestMade ==
    ASSUME NEW s, NEW wait \in BOOLEAN, NEW force, NEW trap
    PROVE  /\ Whole(RequestFor(s, wait, force, trap))
           /\ HasReq(RequestFor(s, wait, force, trap)) <=> ~wait
           /\ ~wait /\ force => Asked(RequestFor(s, wait, force, trap))
           /\ \A a : a = [type |-> "request", wait |-> FALSE, forceSwitch |-> force,
                          trapped |-> trap, moves |-> IF trap THEN 1 ELSE 4, side |-> SideOf(s)]
                     \/ wait => OnlyAsk(RequestFor(s, wait, force, trap), a)
           /\ \A u : Leads(RequestFor(s, wait, force, trap), u, u)
  <1> DEFINE l == [type |-> "request", wait |-> wait, forceSwitch |-> force,
                   trapped |-> trap, moves |-> IF trap THEN 1 ELSE 4, side |-> SideOf(s)]
  <1>1. /\ l.type \in BattleTypes \ {"room"} /\ l.type = "request" /\ l.wait = wait
        /\ l.forceSwitch = force
    BY DEF BattleTypes
  <1>2. wait = FALSE => l = [type |-> "request", wait |-> FALSE, forceSwitch |-> force,
                   trapped |-> trap, moves |-> IF trap THEN 1 ELSE 4, side |-> SideOf(s)]
    OBVIOUS
  <1>3. RequestFor(s, wait, force, trap) = InRoom(<<l>>)
    BY DEF RequestFor
  <1> HIDE DEF l
  <1>4. /\ Req(l) <=> ~wait
        /\ ~wait /\ force => Asks(l)
        /\ \A u : Reads(l, u, u)
    BY <1>1 DEF Req, Asks, Reads, TellTypes
  <1> QED
    BY <1>1, <1>2, <1>3, <1>4, OneLine

(* At the end of a turn the server's side is in order, the frames it sends   *)
(* hold the request it then waits on and no other, and tell the truth.       *)
LEMMA CommitServes ==
    ASSUME NEW s, Informs(s), NEW trap \in BOOLEAN, NEW dis, Commit(s, trap, dis),
           phase # "lobby"
    PROVE  /\ Serves' /\ phase' # "lobby"
           /\ Target' = Truth(s)
           /\ order' = s.order /\ mon' = s.mon
  <1>1. /\ order' = s.order /\ mon' = s.mon /\ shown' = Seen(s)
        /\ phase' \in {"over", "force", "turn"} /\ trapped' \in BOOLEAN
        /\ phase' # "turn" => trapped' = FALSE
        /\ phase' = "force" => \A p \in PlayerIDs : ~beaten(s, p)
    BY DEF Commit, Seen, SentOut
  <1>2. StateOK(s)
    BY DEF Informs
  <1>3. \A p \in PlayerIDs : beaten(s, p) <=> beaten(Now, p)'
    BY <1>1 DEF beaten, Now
  <1>4. out(Now, "p2")' = out(s, "p2")
    BY <1>1 DEF out, Now
  <1>5. Serves'
    BY <1>1, <1>2, <1>3, <1>4 DEF Serves, StateOK
  <1>6. Target' = Truth(s)
    BY <1>1 DEF Target, Truth
  <1> QED
    BY <1>1, <1>5, <1>6

(* The request of a turn's end is the one the server then waits on.          *)
LEMMA RequestIsAsking ==
    ASSUME NEW s, order' = s.order, mon' = s.mon, NEW force \in BOOLEAN,
           force <=> phase' = "force", NEW trap, trap = trapped'
    PROVE  Asking' = [type |-> "request", wait |-> FALSE, forceSwitch |-> force,
                      trapped |-> trap, moves |-> IF trap THEN 1 ELSE 4, side |-> SideOf(s)]
  <1>1. SideOf(Now)' = SideOf(s)
    BY DEF SideOf, Now
  <1>2. force = (phase' = "force")
    OBVIOUS
  <1> QED
    BY <1>1, <1>2 DEF Asking

LEMMA CommitFrames ==
    ASSUME ~outOfStep, NEW s, Informs(s), AllKnown(Seen(s)),
           NEW trap \in BOOLEAN, NEW dis, Commit(s, trap, dis), phase # "lobby",
           QueueOK(toBot), Wholes(toBot), ~AnyReq(toBot)
    PROVE  /\ Wholes(toBot') /\ OnlyAsks(toBot', Asking') /\ AskLater(toBot')
           /\ Awaits' => AnyReq(toBot')
           /\ \A u : Chain(toBot, u, Target) => Chain(toBot', u, Target')
  <1>1. /\ LinesOf(s.lines, TellTypes) /\ LinesOf(s.lines, TellTypes \cup {"turn", "win"})
        /\ LinesOf(s.lines, BattleTypes)
    BY DEF Informs, StateOK, Telling, LinesOf, BattleTypes
  <1>2. PICK F : toBot \in Seq(F)
    BY DEF QueueOK
  <1>3. PICK S : s.lines \in Seq(S)
    BY <1>1 DEF LinesOf
  <1>4. Leads(s.lines, Target, Target')
    BY NowFacts, CommitServes DEF Informs
  <1>5. \A l : l.type \in {"turn", "win"} =>
           /\ LinesOf(Append(s.lines, l), TellTypes \cup {"turn", "win"})
           /\ Leads(InRoom(Append(s.lines, l)), Target, Target')
           /\ Asks(l) => Asked(InRoom(Append(s.lines, l)))
    <2> SUFFICES ASSUME NEW l, l.type \in {"turn", "win"}
                 PROVE  /\ LinesOf(Append(s.lines, l), TellTypes \cup {"turn", "win"})
                        /\ Leads(InRoom(Append(s.lines, l)), Target, Target')
                        /\ Asks(l) => Asked(InRoom(Append(s.lines, l)))
      OBVIOUS
    <2>1. LinesOf(Append(s.lines, l), TellTypes \cup {"turn", "win"})
      BY <1>1, AppendLine
    <2>2. LinesOf(Append(s.lines, l), BattleTypes)
      BY <1>1, AppendLine DEF BattleTypes
    <2>3. Reads(l, Target', Target')
      BY DEF Reads, TellTypes
    <2>4. Leads(Append(s.lines, l), Target, Target')
      BY <1>3, <1>4, <2>3, LeadsFurther
    <2>5. Len(s.lines) + 1 \in DOMAIN Append(s.lines, l) /\ Append(s.lines, l)[Len(s.lines) + 1] = l
      BY <1>3
    <2>6. Asks(l) => Asked(InRoom(Append(s.lines, l)))
      <3> DEFINE f == Append(s.lines, l)
      <3>1. \A j \in DOMAIN f : Asks(f[j]) => Asked(InRoom(f))
        BY <2>1, InRoomMade
      <3> QED
        BY <2>5, <3>1
    <2> QED
      BY <2>1, <2>2, <2>4, <2>6, LeadsInRoom
  <1>6. Leads(InRoom(s.lines), Target, Target')
    BY <1>1, <1>4, LeadsInRoom
  <1>7. ASSUME NEW u, toBot' = Append(toBot, InRoom(Append(s.lines, [type |-> "win", name |-> u]))),
               phase' = "over"
        PROVE  /\ Wholes(toBot') /\ OnlyAsks(toBot', Asking') /\ AskLater(toBot')
               /\ Awaits' => AnyReq(toBot')
               /\ \A v : Chain(toBot, v, Target) => Chain(toBot', v, Target')
    <2> DEFINE l == [type |-> "win", name |-> u]
               f == InRoom(Append(s.lines, l))
    <2>1. l.type \in {"turn", "win"}
      OBVIOUS
    <2> HIDE DEF l
    <2>2. /\ Leads(f, Target, Target') /\ Whole(f) /\ ~HasReq(f) /\ \A a : OnlyAsk(f, a)
      <3>1. LinesOf(Append(s.lines, l), TellTypes \cup {"turn", "win"}) /\ Leads(f, Target, Target')
        BY <1>5, <2>1
      <3> QED
        BY <3>1, InRoomMade
    <2>3. toBot' = Append(toBot, f)
      BY <1>7 DEF l
    <2> HIDE DEF f
    <2>4. ~Awaits' /\ OnlyAsks(toBot, Asking')
      BY <1>7 DEF Awaits, AnyReq, HasReq, OnlyAsks, OnlyAsk
    <2> QED
      BY <1>2, <2>2, <2>3, <2>4, AppendMade, ChainFurther
  <1>8. ASSUME NEW b, NEW c, toBot' = toBot \o <<b, c>>,
               Whole(b), OnlyAsk(b, Asking'), \A u : Leads(b, u, u),
               Whole(c), ~HasReq(c), \A a : OnlyAsk(c, a), Leads(c, Target, Target'),
               HasReq(b) => Asked(b) \/ Asked(c), Awaits' => HasReq(b)
        PROVE  /\ Wholes(toBot') /\ OnlyAsks(toBot', Asking') /\ AskLater(toBot')
               /\ Awaits' => AnyReq(toBot')
               /\ \A v : Chain(toBot, v, Target) => Chain(toBot', v, Target')
    <2>1. /\ Wholes(toBot') /\ OnlyAsks(toBot', Asking') /\ AskLater(toBot')
          /\ AnyReq(toBot') <=> HasReq(b)
      BY <1>2, <1>8, AppendTwoMade
    <2>2. ASSUME NEW v, Chain(toBot, v, Target)
          PROVE  Chain(toBot', v, Target')
      <3>1. toBot' = Append(Append(toBot, b), c) /\ Append(toBot, b) \in Seq(F \cup {b})
        <4>1. toBot \in Seq(F \cup {b, c}) /\ b \in F \cup {b, c} /\ c \in F \cup {b, c}
          BY <1>2
        <4>2. Append(toBot, b) \in Seq(F \cup {b})
          BY <1>2
        <4> QED
          BY <1>8, <4>1, <4>2
      <3>2. Chain(Append(toBot, b), v, Target)
        BY <1>2, <1>8, <2>2, ChainFurther
      <3> QED
        BY <1>8, <3>1, <3>2, ChainFurther
    <2> QED
      BY <1>8, <2>1, <2>2
  <1>9. order' = s.order /\ mon' = s.mon
    BY DEF Commit
  <1>10. ASSUME phase' = "force", trapped' = FALSE,
                toBot' = toBot \o <<RequestFor(s, ~down(s, "p1"), down(s, "p1"), FALSE),
                                    InRoom(s.lines)>>
         PROVE  /\ Wholes(toBot') /\ OnlyAsks(toBot', Asking') /\ AskLater(toBot')
                /\ Awaits' => AnyReq(toBot')
                /\ \A v : Chain(toBot, v, Target) => Chain(toBot', v, Target')
    <2> DEFINE b == RequestFor(s, ~down(s, "p1"), down(s, "p1"), FALSE)
               c == InRoom(s.lines)
    <2>1. Awaits' <=> down(s, "p1")
      BY <1>9, <1>10 DEF Awaits, down, out, Now
    <2>2. /\ Whole(c) /\ ~HasReq(c) /\ \A a : OnlyAsk(c, a)
      BY <1>1, InRoomMade
    <2>3. down(s, "p1") \in BOOLEAN /\ (~down(s, "p1")) \in BOOLEAN
      BY DEF down
    <2>4. /\ Whole(b) /\ (HasReq(b) <=> down(s, "p1")) /\ (down(s, "p1") => Asked(b))
          /\ \A u : Leads(b, u, u)
      BY <2>3, RequestMade
    <2>5. OnlyAsk(b, Asking')
      <3>1. CASE down(s, "p1")
        <4>1. Asking' = [type |-> "request", wait |-> FALSE, forceSwitch |-> down(s, "p1"),
                         trapped |-> FALSE, moves |-> IF FALSE THEN 1 ELSE 4, side |-> SideOf(s)]
          BY <1>9, <1>10, <2>3, <3>1, RequestIsAsking
        <4> QED
          BY <2>3, <4>1, RequestMade
      <3>2. CASE ~down(s, "p1")
        BY <2>3, <3>2, RequestMade
      <3> QED
        BY <3>1, <3>2
    <2>6. toBot' = toBot \o <<b, c>>
      BY <1>10
    <2> HIDE DEF b
    <2>7. Leads(c, Target, Target')
      BY <1>6
    <2> HIDE DEF c
    <2> QED
      BY <1>8, <2>1, <2>2, <2>4, <2>5, <2>6, <2>7
  <1>11. ASSUME phase' = "turn", trapped' = trap,
                toBot' = toBot \o <<RequestFor(s, FALSE, FALSE, trap),
                                    InRoom(Append(s.lines, [type |-> "turn"]))>>
         PROVE  /\ Wholes(toBot') /\ OnlyAsks(toBot', Asking') /\ AskLater(toBot')
                /\ Awaits' => AnyReq(toBot')
                /\ \A v : Chain(toBot, v, Target) => Chain(toBot', v, Target')
    <2> DEFINE l == [type |-> "turn"]
               b == RequestFor(s, FALSE, FALSE, trap)
               c == InRoom(Append(s.lines, l))
    <2>1. l.type \in {"turn", "win"} /\ Asks(l)
      BY DEF Asks
    <2> HIDE DEF l
    <2>2. /\ Whole(c) /\ ~HasReq(c) /\ (\A a : OnlyAsk(c, a)) /\ Asked(c)
          /\ Leads(c, Target, Target')
      BY <1>5, <2>1, InRoomMade
    <2>3. /\ Whole(b) /\ HasReq(b) /\ \A u : Leads(b, u, u)
      BY RequestMade
    <2>4. OnlyAsk(b, Asking')
      <3>1. Asking' = [type |-> "request", wait |-> FALSE, forceSwitch |-> FALSE,
                       trapped |-> trap, moves |-> IF trap THEN 1 ELSE 4, side |-> SideOf(s)]
        BY <1>9, <1>11, RequestIsAsking
      <3> QED
        BY <3>1, RequestMade
    <2>5. toBot' = toBot \o <<b, c>>
      BY <1>11 DEF l
    <2> HIDE DEF b, c
    <2> QED
      BY <1>8, <2>2, <2>3, <2>4, <2>5
  <1> QED
    BY <1>7, <1>10, <1>11 DEF Commit, Queued

-----------------------------------------------------------------------------
(* What the bot makes of the lines *)

(* The team is the one of view u: every Pokemon told of, active, with no     *)
(* status but paralysis.                                                     *)
Knows(u, pid, team) ==
    /\ u.pid = pid
    /\ DOMAIN u.seen = {team[i].name : i \in DOMAIN team}
    /\ \A i \in DOMAIN team :
          /\ team[i].active = TRUE /\ team[i].status \subseteq {"par"}
          /\ u.seen[team[i].name] =
                Note(team[i].hp, team[i].fainted, "par" \in team[i].status)

Shows(u) == Knows(u, battleData[room].playerID, battleData[room].oppTeam)

(* A line told the opponent's side is handled: what the bot holds shows w.   *)
Told(w) ==
    /\ crashed' = FALSE /\ lines' = Tail(lines)
    /\ Knows(w, battleData'[room].playerID, battleData'[room].oppTeam)
    /\ UNCHANGED <<username, sent, curRoom>>
    /\ battleData'[room].playerTeam = battleData[room].playerTeam
    /\ battleData'[room].availableActions = battleData[room].availableActions

LEMMA RoomType ==
    ASSUME TypeOK
    PROVE  /\ room \in AllRooms /\ battleData[room] \in BattleData
           /\ battleData[room].oppTeam \in Seq(PokemonData)
  BY BattleAssumption DEF TypeOK, AllRooms, BattleData

LEMMA IgnoreTold ==
    ASSUME ~crashed, TypeOK, NEW u, Shows(u), Ignore
    PROVE  Told(u)
  BY DEF Ignore, Told, Shows, TypeOK

LEMMA SetTold ==
    ASSUME ~crashed, TypeOK, curRoom = room, NEW w, NEW team, SetOppTeam(team),
           Knows(w, battleData[room].playerID, team)
    PROVE  Told(w)
  <1>1. battleData' = [battleData EXCEPT ![room] = [battleData[room] EXCEPT !.oppTeam = team]]
    BY DEF SetOppTeam
  <1>2. battleData \in [AllRooms -> BattleData] /\ room \in AllRooms /\ battleData[room] \in BattleData
    BY RoomType DEF TypeOK
  <1>3. battleData'[room] = [battleData[room] EXCEPT !.oppTeam = team]
    BY <1>1, <1>2
  <1>4. /\ battleData'[room].oppTeam = team
        /\ battleData'[room].playerID = battleData[room].playerID
        /\ battleData'[room].playerTeam = battleData[room].playerTeam
        /\ battleData'[room].availableActions = battleData[room].availableActions
    BY <1>2, <1>3 DEF BattleData
  <1> QED
    BY <1>4 DEF SetOppTeam, Told, TypeOK

(* A name is found where it stands, if the team lists no name twice. *)
LEMMA FoundAt ==
    ASSUME NEW team \in Seq(PokemonData), Distinct(team), NEW name
    PROVE  /\ getPokemon(name, team) = {i \in DOMAIN team : team[i].name = name}
           /\ name \in {team[i].name : i \in DOMAIN team} <=> getPokemon(name, team) # {}
  <1>1. Len(team) \in Nat /\ DOMAIN team = 1..Len(team)
    OBVIOUS
  <1>2. ASSUME NEW i \in DOMAIN team, team[i].name = name, NEW j \in 1..(i - 1)
        PROVE  team[j].name # name
    <2>1. j \in DOMAIN team /\ j # i
      BY <1>1
    <2> QED
      BY <1>2, <2>1 DEF Distinct
  <1>3. getPokemon(name, team) = {i \in DOMAIN team : team[i].name = name}
    BY <1>2 DEF getPokemon
  <1> QED
    BY <1>3

(* View w is view u but for what is noted of one Pokemon. *)
Revised(w, u, name, note) ==
    /\ DOMAIN w.seen = DOMAIN u.seen \cup {name}
    /\ \A n \in DOMAIN w.seen : w.seen[n] = IF n = name THEN note ELSE u.seen[n]

(* One Pokemon's entry becomes q. *)
LEMMA EntryKnown ==
    ASSUME NEW u, NEW pid, NEW team \in Seq(PokemonData), Distinct(team), Knows(u, pid, team),
           NEW i \in DOMAIN team, NEW q, q.name = team[i].name, q.active = TRUE,
           q.status \subseteq {"par"}, NEW w, w.pid = pid,
           Revised(w, u, q.name, Note(q.hp, q.fainted, "par" \in q.status))
    PROVE  Knows(w, pid, [team EXCEPT ![i] = q])
  <1> DEFINE new == [team EXCEPT ![i] = q]
  <1>1. /\ DOMAIN new = DOMAIN team /\ new[i] = q
        /\ \A j \in DOMAIN team : j # i => new[j] = team[j]
    OBVIOUS
  <1> HIDE DEF new
  <1>2. \A j \in DOMAIN team : new[j].name = team[j].name
    BY <1>1
  <1>3. /\ {new[j].name : j \in DOMAIN new} = {team[j].name : j \in DOMAIN team}
        /\ DOMAIN w.seen = DOMAIN u.seen
    BY <1>1, <1>2 DEF Knows, Revised
  <1>4. ASSUME NEW j \in DOMAIN new
        PROVE  /\ new[j].active = TRUE /\ new[j].status \subseteq {"par"}
               /\ w.seen[new[j].name] = Note(new[j].hp, new[j].fainted, "par" \in new[j].status)
    <2>0. new[j].name \in DOMAIN u.seen
      BY <1>1, <1>2, <1>4 DEF Knows
    <2>1. CASE j = i
      BY <1>1, <1>3, <2>0, <2>1 DEF Revised
    <2>2. CASE j # i
      <3>1. j \in DOMAIN team /\ new[j] = team[j] /\ team[j].name # q.name
        BY <1>1, <2>2 DEF Distinct
      <3> QED
        BY <1>3, <2>0, <3>1 DEF Knows, Revised
    <2> QED
      BY <2>1, <2>2
  <1>5. Knows(w, pid, new)
    BY <1>3, <1>4 DEF Knows, Revised
  <1> QED
    BY <1>5 DEF new

(* A Pokemon not known before is added. *)
LEMMA AddedKnown ==
    ASSUME NEW u, NEW pid, NEW team \in Seq(PokemonData), Knows(u, pid, team),
           NEW q \in PokemonData, q.name \notin DOMAIN u.seen, q.active = TRUE,
           q.status \subseteq {"par"}, NEW w, w.pid = pid,
           Revised(w, u, q.name, Note(q.hp, q.fainted, "par" \in q.status))
    PROVE  Knows(w, pid, Append(team, q))
  <1> DEFINE new == Append(team, q)
  <1>1. /\ Len(team) \in Nat /\ DOMAIN team = 1..Len(team)
        /\ DOMAIN new = 1..(Len(team) + 1) /\ new[Len(team) + 1] = q
        /\ \A j \in DOMAIN team : new[j] = team[j]
    BY AppendFacts
  <1> HIDE DEF new
  <1>2. /\ \A j \in DOMAIN new : (j \in DOMAIN team /\ new[j] = team[j]) \/ new[j] = q
        /\ \A j \in DOMAIN team : j \in DOMAIN new
        /\ Len(team) + 1 \in DOMAIN new /\ new[Len(team) + 1] = q
    BY <1>1
  <1>3. {new[j].name : j \in DOMAIN new} = {team[j].name : j \in DOMAIN team} \cup {q.name}
    BY <1>1, <1>2
  <1>4. ASSUME NEW j \in DOMAIN new
        PROVE  /\ new[j].active = TRUE /\ new[j].status \subseteq {"par"}
               /\ w.seen[new[j].name] = Note(new[j].hp, new[j].fainted, "par" \in new[j].status)
    <2>0. new[j].name \in DOMAIN w.seen
      BY <1>3, <1>4 DEF Knows, Revised
    <2>1. CASE new[j] = q
      BY <2>0, <2>1 DEF Revised
    <2>2. CASE j \in DOMAIN team /\ new[j] = team[j]
      <3>1. team[j].name \in DOMAIN u.seen
        BY <2>2 DEF Knows
      <3> QED
        BY <2>0, <2>2, <3>1 DEF Knows, Revised
    <2> QED
      BY <1>2, <2>1, <2>2
  <1>5. Knows(w, pid, new)
    BY <1>3, <1>4 DEF Knows, Revised
  <1> QED
    BY <1>5 DEF new

(* What the bot holds of the opponent while a battle's lines are handled. *)
InBattle(u) == /\ ~crashed /\ TypeOK /\ OppTeamDistinct /\ lines # <<>>
               /\ curRoom = room /\ Shows(u)

LEMMA TeamFacts ==
    ASSUME NEW u, InBattle(u)
    PROVE  /\ oppTeam = battleData[room].oppTeam /\ oppTeam \in Seq(PokemonData)
           /\ Distinct(oppTeam) /\ Knows(u, battleData[room].playerID, oppTeam)
           /\ u.pid = battleData[room].playerID
           /\ DOMAIN u.seen = {oppTeam[i].name : i \in DOMAIN oppTeam}
           /\ \A l : Own(l) <=> l.id = u.pid
           /\ Head(lines) \in Line
           /\ \A i \in DOMAIN oppTeam : oppTeam[i] \in PokemonData
  <1>1. /\ TypeOK /\ OppTeamDistinct /\ lines # <<>> /\ curRoom = room /\ Shows(u)
    BY DEF InBattle
  <1>2. /\ room \in AllRooms /\ oppTeam = battleData[room].oppTeam
        /\ oppTeam \in Seq(PokemonData)
    BY <1>1, RoomType DEF oppTeam
  <1>3. Distinct(oppTeam)
    BY <1>1, <1>2 DEF OppTeamDistinct
  <1>4. Knows(u, battleData[room].playerID, oppTeam)
    BY <1>1, <1>2 DEF Shows
  <1>5. Head(lines) \in Line
    BY <1>1, HeadTail DEF TypeOK
  <1>6. \A l : Own(l) <=> l.id = u.pid
    BY <1>1, <1>4 DEF Own, Knows
  <1> QED
    BY <1>2, <1>3, <1>4, <1>5, <1>6 DEF Knows

(* The line writes what it says into the entry of a Pokemon the bot knows.   *)
LEMMA EntryTold ==
    ASSUME NEW u, InBattle(u), NEW l, l.name \in DOMAIN u.seen,
           NEW i \in DOMAIN oppTeam, oppTeam[i].name = l.name,
           NEW q, q.name = oppTeam[i].name, q.active = TRUE, q.status \subseteq {"par"},
           NEW w, w = View(u.pid, [n \in DOMAIN u.seen |->
                       IF n = l.name THEN Noted(l, u.seen[n]) ELSE u.seen[n]]),
           Note(q.hp, q.fainted, "par" \in q.status) = Noted(l, u.seen[l.name]),
           SetOppTeam([oppTeam EXCEPT ![i] = q])
    PROVE  Told(w)
  <1>1. /\ w.pid = u.pid
        /\ Revised(w, u, q.name, Note(q.hp, q.fainted, "par" \in q.status))
    BY DEF View, Revised
  <1>2. Knows(w, battleData[room].playerID, [oppTeam EXCEPT ![i] = q])
    <2> DEFINE pid == battleData[room].playerID
    <2>1. Knows(u, pid, oppTeam) /\ Distinct(oppTeam) /\ oppTeam \in Seq(PokemonData)
          /\ w.pid = pid
      BY <1>1, TeamFacts
    <2> HIDE DEF pid
    <2>2. Knows(w, pid, [oppTeam EXCEPT ![i] = q])
      BY <1>1, <2>1, EntryKnown
    <2> QED
      BY <2>2 DEF pid
  <1> DEFINE team == [oppTeam EXCEPT ![i] = q]
  <1>3. Knows(w, battleData[room].playerID, team) /\ SetOppTeam(team)
    BY <1>2
  <1> HIDE DEF team
  <1> QED
    BY <1>3, SetTold DEF InBattle

LEMMA SwitchTold ==
    ASSUME NEW u, InBattle(u), Switch, NEW w, Reads(Head(lines), u, w)
    PROVE  Told(w)
  <1> DEFINE l == Head(lines)
  <1>1. l.type = "switch" /\ l \in Line
    BY TeamFacts DEF Switch, At
  <1>2. u.pid = "p1" /\ ((l.id = "p1" /\ w = u) \/ (l.id = "p2" /\ Learns(l, u, w)))
    BY <1>1 DEF Reads, TellTypes
  <1>3. \/ (Own(l) \/ getPokemon(l.name, oppTeam) # {}) /\ Ignore
        \/ /\ ~Own(l) /\ getPokemon(l.name, oppTeam) = {}
           /\ \/ l.name \notin KnownPkmn /\ Throw
              \/ /\ l.name \in KnownPkmn
                 /\ SetOppTeam(Append(oppTeam, [initPokemonFromName(l.name)
                                  EXCEPT !.hp = l.hp, !.active = TRUE]))
    BY DEF Switch
  <1>4. /\ Own(l) <=> l.id = "p1"
        /\ l.name \in DOMAIN u.seen <=> getPokemon(l.name, oppTeam) # {}
    BY <1>2, TeamFacts, FoundAt
  <1> HIDE DEF l
  <1>5. CASE l.id = "p1" \/ l.name \in DOMAIN u.seen
    <2>1. w = u /\ Ignore
      BY <1>1, <1>2, <1>3, <1>4, <1>5 DEF Learns
    <2> QED
      BY <2>1, IgnoreTold DEF InBattle
  <1>6. CASE l.id = "p2" /\ l.name \notin DOMAIN u.seen
    <2> DEFINE q == [initPokemonFromName(l.name) EXCEPT !.hp = l.hp, !.active = TRUE]
               team == Append(oppTeam, q)
               pid == battleData[room].playerID
    <2>1. /\ l.name \in KnownPkmn /\ SetOppTeam(team)
          /\ w = View(u.pid, [n \in DOMAIN u.seen \cup {l.name} |->
                 IF n = l.name THEN Note(l.hp, FALSE, FALSE) ELSE u.seen[n]])
      BY <1>1, <1>2, <1>3, <1>4, <1>6 DEF Learns
    <2>2. /\ q \in PokemonData /\ q.name = l.name /\ q.active = TRUE /\ q.hp = l.hp
          /\ q.fainted = FALSE /\ q.status = {}
      <3>1. l.hp \in Nat /\ initPokemonFromName(l.name) \in PokemonData
        BY <1>1, <2>1, LineFields, NewPokemon
      <3> QED
        BY <3>1 DEF initPokemonFromName, PokemonData
    <2> HIDE DEF q
    <2>3. ("par" \in q.status) = FALSE /\ q.status \subseteq {"par"}
      BY <2>2
    <2>4. /\ w.pid = u.pid
          /\ Revised(w, u, q.name, Note(q.hp, q.fainted, "par" \in q.status))
      BY <2>1, <2>2, <2>3 DEF View, Revised
    <2>5. Knows(u, pid, oppTeam) /\ oppTeam \in Seq(PokemonData) /\ u.pid = pid
      BY TeamFacts
    <2> HIDE DEF pid
    <2>6. Knows(w, pid, team)
      BY <1>6, <2>2, <2>3, <2>4, <2>5, AddedKnown
    <2> HIDE DEF team
    <2> QED
      BY <2>1, <2>6, SetTold DEF InBattle, pid
  <1> QED
    BY <1>2, <1>5, <1>6

(* The handlers that look the Pokemon up find it. *)
LEMMA LookedUp ==
    ASSUME NEW u, InBattle(u), NEW w, Reads(Head(lines), u, w),
           Head(lines).type \in TellTypes \ {"switch"}
    PROVE  /\ ~NullPointer(Head(lines))
           /\ Own(Head(lines)) => w = u
           /\ ~Own(Head(lines)) => Learns(Head(lines), u, w) /\ Head(lines).name \in DOMAIN u.seen
           /\ ~Own(Head(lines)) => getPokemon(Head(lines).name, oppTeam) # {}
           /\ \A i \in getPokemon(Head(lines).name, oppTeam) :
                 /\ i \in DOMAIN oppTeam /\ oppTeam[i].name = Head(lines).name
                 /\ oppTeam[i] \in PokemonData
                 /\ oppTeam[i].active = TRUE /\ oppTeam[i].status \subseteq {"par"}
                 /\ u.seen[oppTeam[i].name] =
                      Note(oppTeam[i].hp, oppTeam[i].fainted, "par" \in oppTeam[i].status)
  <1> DEFINE l == Head(lines)
  <1>1. u.pid = "p1" /\ ((l.id = "p1" /\ w = u) \/ (l.id = "p2" /\ Learns(l, u, w)))
    BY DEF Reads, TellTypes
  <1>2. Learns(l, u, w) => l.name \in DOMAIN u.seen
    BY DEF Learns, TellTypes
  <1>3. /\ Own(l) <=> l.id = "p1"
        /\ l.name \in DOMAIN u.seen <=> getPokemon(l.name, oppTeam) # {}
        /\ getPokemon(l.name, oppTeam) = {i \in DOMAIN oppTeam : oppTeam[i].name = l.name}
    BY <1>1, TeamFacts, FoundAt
  <1>4. \A i \in DOMAIN oppTeam :
                 /\ oppTeam[i] \in PokemonData
                 /\ oppTeam[i].active = TRUE /\ oppTeam[i].status \subseteq {"par"}
                 /\ u.seen[oppTeam[i].name] =
                      Note(oppTeam[i].hp, oppTeam[i].fainted, "par" \in oppTeam[i].status)
    BY TeamFacts DEF Knows
  <1> HIDE DEF l
  <1>5. /\ ~NullPointer(l) /\ (Own(l) => w = u)
        /\ ~Own(l) => Learns(l, u, w) /\ l.name \in DOMAIN u.seen
                      /\ getPokemon(l.name, oppTeam) # {}
    BY <1>1, <1>2, <1>3 DEF NullPointer
  <1> QED
    BY <1>3, <1>4, <1>5 DEF l

LEMMA MoveTold ==
    ASSUME NEW u, InBattle(u), Move, NEW w, Reads(Head(lines), u, w)
    PROVE  Told(w)
  <1> DEFINE l == Head(lines)
             attacker == getPokemon(l.name, oppTeam)
  <1>1. l.type = "move"
    BY DEF Move, At
  <1>2. /\ Own(l) => w = u
        /\ ~Own(l) => Learns(l, u, w) /\ l.name \in DOMAIN u.seen /\ attacker # {}
        /\ \A i \in attacker :
                 /\ i \in DOMAIN oppTeam /\ oppTeam[i].name = l.name
                 /\ oppTeam[i] \in PokemonData
                 /\ oppTeam[i].active = TRUE /\ oppTeam[i].status \subseteq {"par"}
                 /\ u.seen[oppTeam[i].name] =
                      Note(oppTeam[i].hp, oppTeam[i].fainted, "par" \in oppTeam[i].status)
    BY <1>1, LookedUp DEF TellTypes
  <1>3. ~Own(l) => w = u /\ l.move \in KnownMoves
    BY <1>1, <1>2 DEF Learns
  <1>4. w = u
    BY <1>2, <1>3
  <1>5. \/ Ignore
        \/ \E i \in attacker : SetOppTeam([oppTeam EXCEPT ![i].moves = Append(@, l.move)])
    BY <1>2, <1>3 DEF Move
  <1>6. ASSUME NEW i \in attacker, SetOppTeam([oppTeam EXCEPT ![i].moves = Append(@, l.move)])
        PROVE  Told(u)
    <2> DEFINE q == [oppTeam[i] EXCEPT !.moves = Append(oppTeam[i].moves, l.move)]
               pid == battleData[room].playerID
               team == [oppTeam EXCEPT ![i] = q]
    <2>1. /\ q.name = oppTeam[i].name /\ q.active = TRUE /\ q.status = oppTeam[i].status
          /\ q.hp = oppTeam[i].hp /\ q.fainted = oppTeam[i].fainted /\ i \in DOMAIN oppTeam
      BY <1>2, <1>6 DEF PokemonData
    <2>2. SetOppTeam(team)
      BY <1>6
    <2> HIDE DEF q
    <2>3. /\ Knows(u, pid, oppTeam) /\ Distinct(oppTeam) /\ oppTeam \in Seq(PokemonData)
          /\ u.pid = pid
      BY TeamFacts
    <2> HIDE DEF pid
    <2>4. q.name \in DOMAIN u.seen /\ q.status \subseteq {"par"}
      BY <1>2, <1>6, <2>1, <2>3 DEF Knows
    <2>5. Revised(u, u, q.name, Note(q.hp, q.fainted, "par" \in q.status))
      BY <1>2, <1>6, <2>1, <2>4 DEF Revised
    <2>6. Knows(u, pid, team)
      BY <2>1, <2>3, <2>4, <2>5, EntryKnown
    <2> HIDE DEF team
    <2> QED
      BY <2>2, <2>6, SetTold DEF InBattle, pid
  <1> QED
    BY <1>4, <1>5, <1>6, IgnoreTold DEF InBattle

(* The lines that write a faint, HP or a status. *)
LEMMA WrittenTold ==
    ASSUME NEW u, InBattle(u), Faint \/ DamageOrHeal \/ StatusOrCure,
           NEW w, Reads(Head(lines), u, w)
    PROVE  Told(w)
  <1> DEFINE l == Head(lines)
             found == getPokemon(l.name, oppTeam)
  <1>1. l.type \in TellTypes \ {"switch", "move"}
    BY DEF Faint, DamageOrHeal, StatusOrCure, At, TellTypes
  <1>2. /\ ~NullPointer(l)
        /\ Own(l) => w = u
        /\ ~Own(l) => Learns(l, u, w) /\ l.name \in DOMAIN u.seen
        /\ \A i \in found :
                 /\ i \in DOMAIN oppTeam /\ oppTeam[i].name = l.name
                 /\ oppTeam[i] \in PokemonData
                 /\ oppTeam[i].active = TRUE /\ oppTeam[i].status \subseteq {"par"}
                 /\ u.seen[oppTeam[i].name] =
                      Note(oppTeam[i].hp, oppTeam[i].fainted, "par" \in oppTeam[i].status)
    BY <1>1, LookedUp
  <1>3. ~Own(l) =>
          /\ w = View(u.pid, [n \in DOMAIN u.seen |->
                 IF n = l.name THEN Noted(l, u.seen[n]) ELSE u.seen[n]])
          /\ l.type \in {"-status", "-curestatus"} => l.status = "par"
    BY <1>1, <1>2 DEF Learns
  <1>4. CASE Own(l) /\ Ignore
    BY <1>2, <1>4, IgnoreTold DEF InBattle
  <1> DEFINE faint(i)  == [oppTeam[i] EXCEPT !.fainted = TRUE]
             hurt(i)   == [oppTeam[i] EXCEPT !.hp = l.hp]
             status(i) == [oppTeam[i] EXCEPT !.status =
                              IF l.type = "-status" THEN oppTeam[i].status \cup {l.status}
                                                    ELSE oppTeam[i].status \ {l.status}]
  <1>5. \/ Own(l) /\ Ignore
        \/ /\ ~Own(l)
           /\ \E i \in found :
              \/ l.type = "faint" /\ SetOppTeam([oppTeam EXCEPT ![i] = faint(i)])
              \/ l.type \in {"-damage", "-heal"} /\ SetOppTeam([oppTeam EXCEPT ![i] = hurt(i)])
              \/ /\ l.type \in {"-status", "-curestatus"}
                 /\ SetOppTeam([oppTeam EXCEPT ![i] = status(i)])
    <2>1. CASE Faint
      BY <1>2, <2>1 DEF Faint, At
    <2>2. CASE DamageOrHeal
      BY <1>2, <2>2 DEF DamageOrHeal, At
    <2>3. CASE StatusOrCure
      <3>1. /\ l.type \in {"-status", "-curestatus"} /\ (~Own(l) => l.status \in Statuses)
        BY <1>3, <2>3 DEF StatusOrCure, At, Statuses
      <3>2. \/ Own(l) /\ Ignore
            \/ ~Own(l) /\ \E i \in found : SetOppTeam([oppTeam EXCEPT ![i] = status(i)])
        BY <1>2, <2>3, <3>1 DEF StatusOrCure
      <3> QED
        BY <3>1, <3>2
    <2> QED
      BY <2>1, <2>2, <2>3
  <1>6. ASSUME ~Own(l), NEW i \in found, NEW q, SetOppTeam([oppTeam EXCEPT ![i] = q]),
               q.name = oppTeam[i].name, q.active = TRUE, q.status \subseteq {"par"},
               Note(q.hp, q.fainted, "par" \in q.status)
                  = Noted(l, Note(oppTeam[i].hp, oppTeam[i].fainted, "par" \in oppTeam[i].status))
        PROVE  Told(w)
    <2>1. /\ i \in DOMAIN oppTeam /\ oppTeam[i].name = l.name
          /\ Note(q.hp, q.fainted, "par" \in q.status) = Noted(l, u.seen[l.name])
      BY <1>2, <1>6
    <2> HIDE DEF l
    <2> QED
      BY <1>2, <1>3, <1>6, <2>1, EntryTold
  <1>8. ASSUME ~Own(l), NEW i \in found, l.type = "faint",
               SetOppTeam([oppTeam EXCEPT ![i] = faint(i)])
        PROVE  Told(w)
    <2> DEFINE q == faint(i)
    <2>1. /\ q.name = oppTeam[i].name /\ q.active = TRUE /\ q.status = oppTeam[i].status
          /\ q.hp = oppTeam[i].hp /\ q.fainted = TRUE /\ oppTeam[i].status \subseteq {"par"}
      BY <1>2, <1>8 DEF PokemonData
    <2>2. SetOppTeam([oppTeam EXCEPT ![i] = q])
      BY <1>8
    <2> HIDE DEF q
    <2> DEFINE note == Note(oppTeam[i].hp, oppTeam[i].fainted, "par" \in oppTeam[i].status)
    <2>3. /\ note.hp = oppTeam[i].hp /\ note.par = ("par" \in oppTeam[i].status)
      BY DEF Note
    <2> HIDE DEF note
    <2>4. (note.fainted \/ l.type = "faint") = TRUE
      BY <1>8
    <2>5. Noted(l, note) = Note(oppTeam[i].hp, TRUE, "par" \in oppTeam[i].status)
      BY <1>8, <2>3, <2>4 DEF Noted
    <2> QED
      BY <1>6, <1>8, <2>1, <2>2, <2>5 DEF note
  <1>9. ASSUME ~Own(l), NEW i \in found, l.type \in {"-damage", "-heal"},
               SetOppTeam([oppTeam EXCEPT ![i] = hurt(i)])
        PROVE  Told(w)
    <2> DEFINE q == hurt(i)
    <2>1. /\ q.name = oppTeam[i].name /\ q.active = TRUE /\ q.status = oppTeam[i].status
          /\ q.hp = l.hp /\ q.fainted = oppTeam[i].fainted /\ oppTeam[i].status \subseteq {"par"}
          /\ oppTeam[i].fainted \in BOOLEAN
      BY <1>2, <1>9 DEF PokemonData
    <2>2. SetOppTeam([oppTeam EXCEPT ![i] = q])
      BY <1>9
    <2> HIDE DEF q
    <2> DEFINE note == Note(oppTeam[i].hp, oppTeam[i].fainted, "par" \in oppTeam[i].status)
    <2>3. /\ note.fainted = oppTeam[i].fainted /\ note.par = ("par" \in oppTeam[i].status)
      BY DEF Note
    <2> HIDE DEF note
    <2>4. (note.fainted \/ l.type = "faint") = oppTeam[i].fainted
      BY <1>9, <2>1, <2>3
    <2>5. Noted(l, note) = Note(l.hp, oppTeam[i].fainted, "par" \in oppTeam[i].status)
      BY <1>9, <2>3, <2>4 DEF Noted
    <2> QED
      BY <1>6, <1>9, <2>1, <2>2, <2>5 DEF note
  <1>10. ASSUME ~Own(l), NEW i \in found, l.type \in {"-status", "-curestatus"},
               SetOppTeam([oppTeam EXCEPT ![i] = status(i)])
        PROVE  Told(w)
    <2> DEFINE q == status(i)
    <2>0. l.status = "par"
      BY <1>3, <1>10
    <2>1. /\ q.name = oppTeam[i].name /\ q.active = TRUE
          /\ q.status = IF l.type = "-status" THEN oppTeam[i].status \cup {"par"}
                                              ELSE oppTeam[i].status \ {"par"}
          /\ q.hp = oppTeam[i].hp /\ q.fainted = oppTeam[i].fainted
          /\ oppTeam[i].status \subseteq {"par"} /\ oppTeam[i].fainted \in BOOLEAN
      BY <1>2, <1>10, <2>0 DEF PokemonData
    <2>2. SetOppTeam([oppTeam EXCEPT ![i] = q])
      BY <1>10
    <2> HIDE DEF q
    <2> DEFINE note == Note(oppTeam[i].hp, oppTeam[i].fainted, "par" \in oppTeam[i].status)
    <2>3. note.fainted = oppTeam[i].fainted /\ note.hp = oppTeam[i].hp
      BY DEF Note
    <2> HIDE DEF note
    <2>4. /\ (note.fainted \/ l.type = "faint") = oppTeam[i].fainted
          /\ (l.type = "-status") = ("par" \in q.status) /\ q.status \subseteq {"par"}
      BY <1>10, <2>1, <2>3
    <2>5. Noted(l, note) = Note(oppTeam[i].hp, oppTeam[i].fainted, "par" \in q.status)
      BY <1>10, <2>3, <2>4 DEF Noted
    <2> QED
      BY <1>6, <1>10, <2>1, <2>2, <2>4, <2>5 DEF note
  <1> QED
    BY <1>4, <1>5, <1>8, <1>9, <1>10

(* Every line that tells is handled, and the bot then knows what it says.    *)
LEMMA TellTold ==
    ASSUME NEW u, InBattle(u), Handle, Head(lines).type \in TellTypes,
           NEW w, Reads(Head(lines), u, w)
    PROVE  Told(w)
  <1>1. Switch \/ Move \/ Faint \/ DamageOrHeal \/ StatusOrCure
    BY DEF Handle, Room, Player, Request, Challstr, UpdateUser, UpdateChallenges, Boost,
           Turn, Printed, At, TellTypes
  <1> QED
    BY <1>1, SwitchTold, MoveTold, WrittenTold

-----------------------------------------------------------------------------
(* The invariant *)

(* What the bot may do now, and what it then holds of its own side. *)
Available == moveActions(Asking) \cup switchActions(Asking)
Fits == /\ battleData[room].playerTeam = requestTeam(Asking)
        /\ battleData[room].availableActions = Available

(* While the stream is read in step and the names told are in the bot's      *)
(* data: what is on its way to the bot asks what the                         *)
(* server waits for, and would make the bot know what the server knows; when *)
(* nothing that asks is on its way, the bot holds what was asked.            *)
InStep ==
    /\ username = BotName /\ crashed = FALSE
    /\ WellMade(lines) /\ Wholes(toBot)
    /\ lines # <<>> /\ Head(lines).type # "room" => curRoom = room
    /\ OnlyAsk(lines, Asking) /\ OnlyAsks(toBot, Asking) /\ AskLater(toBot)
    /\ HasReq(lines) => Asked(lines) \/ AnyAsked(toBot)
    /\ Awaits /\ ~HasReq(lines) /\ ~AnyReq(toBot) => Fits
    /\ \A i \in DOMAIN sent : sent[i] \in moveMessages(room, Available)
    /\ phase = "lobby" => /\ toBot = <<>> /\ lines = <<>> /\ sent = <<>>
                          /\ battleData[room] = NoBattle
    /\ phase # "lobby" => \E u, w : Shows(u) /\ Leads(lines, u, w) /\ Chain(toBot, w, Target)

BattleInv ==
    /\ Serves
    /\ ~outOfStep => Pending
    /\ ~outOfStep /\ NamesMet => InStep

LEMMA SameSides ==
    ASSUME UNCHANGED <<order, mon, shown, phase, trapped>>
    PROVE  /\ Serves => Serves'
           /\ Target' = Target /\ Asking' = Asking /\ Available' = Available
           /\ Awaits' <=> Awaits
           /\ phase' = phase
  <1>1. /\ Now' = Now /\ order' = order /\ mon' = mon /\ shown' = shown /\ phase' = phase
        /\ trapped' = trapped
    BY DEF Now
  <1>2. Asking' = Asking
    BY <1>1 DEF Asking
  <1>3. Available' = Available
    BY <1>2 DEF Available
  <1>4. Target' = Target
    BY <1>1 DEF Target
  <1>5. Awaits' <=> Awaits
    BY <1>1 DEF Awaits, down, out
  <1>6. Serves => Serves'
    BY <1>1 DEF Serves, out, beaten
  <1> QED
    BY <1>1, <1>2, <1>3, <1>4, <1>5, <1>6

LEMMA SameServer ==
    ASSUME UNCHANGED server
    PROVE  /\ Serves => Serves'
           /\ Target' = Target /\ Asking' = Asking /\ Available' = Available
           /\ Awaits' <=> Awaits
           /\ phase' = phase
  BY SameSides DEF server

(* The bot's data have what a request names. *)
LEMMA AskingKnown ==
    ASSUME Serves, NamesMet
    PROVE  requestIsKnown(Asking)
  <1>1. "p1" \in PlayerIDs
    BY DEF PlayerIDs
  <1>2. \A i \in DOMAIN order["p1"] : /\ order["p1"][i] \in KnownPkmn
                                      /\ MoveOf[order["p1"][i]] \in KnownMoves
    <2>1. order["p1"] \in Seq(Team("p1"))
      BY <1>1 DEF Serves
    <2>2. \A i \in DOMAIN order["p1"] : order["p1"][i] \in Team("p1")
      BY <2>1
    <2> QED
      BY <2>2 DEF NamesMet, Met, Team
  <1>3. /\ Asking.side = SideOf(Now) /\ DOMAIN SideOf(Now) = DOMAIN order["p1"]
        /\ \A i \in DOMAIN order["p1"] : /\ SideOf(Now)[i].name = order["p1"][i]
                                         /\ SideOf(Now)[i].moves = <<MoveOf[order["p1"][i]]>>
    BY DEF Asking, SideOf, Now
  <1>4. \A x \in KnownMoves : <<x>> \in Seq(KnownMoves)
    BY ShortSeq
  <1>5. ASSUME NEW i \in DOMAIN Asking.side
        PROVE  Asking.side[i].name \in KnownPkmn /\ Asking.side[i].moves \in Seq(KnownMoves)
    <2> DEFINE o == order["p1"]
               d == SideOf(Now)
    <2>1. /\ Asking.side = d /\ i \in DOMAIN o /\ o[i] \in KnownPkmn
          /\ MoveOf[o[i]] \in KnownMoves
          /\ d[i].name = o[i] /\ d[i].moves = <<MoveOf[o[i]]>>
      BY <1>2, <1>3
    <2> HIDE DEF o, d
    <2>2. d[i].moves \in Seq(KnownMoves)
      BY <1>4, <2>1
    <2> QED
      BY <2>1, <2>2
  <1> QED
    BY <1>5 DEF requestIsKnown

(* Line Head(lines) is handled: it is read as it turns view u into x, the    *)
(* actions on offer change only with a request, which is the server's, and   *)
(* a choice is sent only from what is on offer.                              *)
Took(x) ==
    /\ username' = BotName /\ crashed' = FALSE /\ lines' = Tail(lines)
    /\ Knows(x, battleData'[room].playerID, battleData'[room].oppTeam)
    /\ lines' # <<>> => curRoom' = room
    /\ \/ /\ Req(Head(lines))
          /\ battleData'[room].playerTeam = requestTeam(Asking)
          /\ battleData'[room].availableActions = Available
       \/ /\ ~Req(Head(lines))
          /\ battleData'[room].playerTeam = battleData[room].playerTeam
          /\ battleData'[room].availableActions = battleData[room].availableActions
    /\ \/ sent' = sent
       \/ \E m \in moveMessages(room, Available) : sent' = Append(sent, m)

(* What a handler finds. *)
Handling(u) ==
    /\ TypeOK /\ OppTeamDistinct /\ Serves /\ NamesMet /\ crashed = FALSE /\ username = BotName
    /\ lines # <<>> /\ IsFrame(lines) /\ WellMade(lines) /\ OnlyAsk(lines, Asking)
    /\ Head(lines).type # "room" => curRoom = room
    /\ Head(lines).type = "turn" => battleData[room].availableActions = Available
    /\ Shows(u)

LEMMA HandlingFacts ==
    ASSUME NEW u, Handling(u)
    PROVE  /\ Head(lines).type \in BattleTypes
           /\ Req(Head(lines)) => Head(lines) = Asking
           /\ Head(lines).type = "room" => Head(lines).room = room
           /\ Head(lines).type = "player" /\ Head(lines).name = NoUser => Tail(lines) = <<>>
           /\ room \in AllRooms /\ battleData \in [AllRooms -> BattleData]
           /\ battleData[room] \in BattleData
  <1>1. LinesOf(lines, BattleTypes) /\ Head(lines).type \in BattleTypes
    BY TailFrame DEF Handling, IsFrame
  <1> QED
    BY <1>1, TailMade, RoomType DEF Handling, TypeOK

LEMMA HandleTook ==
    ASSUME NEW u, Handling(u), Handle, NEW x, Reads(Head(lines), u, x)
    PROVE  Took(x)
  <1> DEFINE l == Head(lines)
  <1>1. l.type \in TellTypes \cup {"room", "player", "request", "turn", "win", "error"}
    BY HandlingFacts DEF BattleTypes
  <1>2. CASE l.type \in TellTypes
    <2>1. InBattle(u)
      BY <1>2 DEF InBattle, Handling, TellTypes
    <2>2. Told(x)
      BY <1>2, <2>1, TellTold
    <2>3. ~Req(l) /\ curRoom = room /\ username = BotName
      BY <1>2 DEF Req, TellTypes, Handling
    <2> QED
      BY <2>2, <2>3 DEF Told, Took
  <1>3. ASSUME x = u, ~Req(l), crashed' = FALSE, lines' = Tail(lines), username' = username,
               battleData' = battleData, sent' = sent, lines' # <<>> => curRoom' = room
        PROVE  Took(x)
    BY <1>3 DEF Took, Shows, Handling
  <1>4. CASE l.type = "room"
    <2>1. Room /\ x = u /\ ~Req(l)
      BY <1>4 DEF Handle, Room, Player, Request, Challstr, UpdateUser, UpdateChallenges, Boost,
           Turn, Printed, Switch, Move, Faint, DamageOrHeal, StatusOrCure, At, Reads, TellTypes, Req
    <2> QED
      BY <1>3, <1>4, <2>1, HandlingFacts DEF Room, Handling
  <1>5. CASE l.type \in {"win", "error"}
    <2>1. Printed /\ x = u /\ ~Req(l)
      BY <1>5 DEF Handle, Room, Player, Request, Challstr, UpdateUser, UpdateChallenges, Boost,
           Turn, Printed, Switch, Move, Faint, DamageOrHeal, StatusOrCure, At, Reads, TellTypes, Req
    <2> QED
      BY <1>3, <1>5, <2>1 DEF Printed, Ignore, Handling
  <1>6. CASE l.type = "player"
    <2>1. Player /\ ~Req(l) /\ curRoom = room
      BY <1>6 DEF Handle, Room, Player, Request, Challstr, UpdateUser, UpdateChallenges, Boost,
           Turn, Printed, Switch, Move, Faint, DamageOrHeal, StatusOrCure, At, TellTypes, Req, Handling
    <2>2. x = IF l.name = BotName THEN View(l.id, u.seen) ELSE u
      BY <1>6 DEF Reads, TellTypes
    <2>3. CASE l.name = NoUser
      BY <1>3, <1>6, <2>1, <2>2, <2>3, HandlingFacts, ConstantsAssumption DEF Player, Handling
    <2>4. CASE l.name \notin {NoUser, BotName}
      BY <1>3, <2>1, <2>2, <2>4 DEF Player, Handling
    <2>5. CASE l.name = BotName
      <3>1. /\ battleData' = [battleData EXCEPT ![room].playerID = l.id]
            /\ UNCHANGED <<username, curRoom, sent, crashed>> /\ lines' = Tail(lines)
        BY <2>1, <2>5, ConstantsAssumption DEF Player, Handling
      <3>2. /\ battleData'[room].playerID = l.id
            /\ battleData'[room].oppTeam = battleData[room].oppTeam
            /\ battleData'[room].playerTeam = battleData[room].playerTeam
            /\ battleData'[room].availableActions = battleData[room].availableActions
        BY <3>1, HandlingFacts DEF BattleData
      <3>3. x.pid = l.id /\ x.seen = u.seen
        BY <2>2, <2>5 DEF View
      <3>4. Knows(x, l.id, battleData[room].oppTeam)
        BY <3>3 DEF Handling, Shows, Knows
      <3> QED
        BY <2>1, <3>1, <3>2, <3>4 DEF Took, Handling
    <2> QED
      BY <2>3, <2>4, <2>5
  <1>7. CASE l.type = "turn"
    <2>1. Turn /\ x = u /\ ~Req(l) /\ curRoom = room
      BY <1>7 DEF Handle, Room, Player, Request, Challstr, UpdateUser, UpdateChallenges, Boost,
           Turn, Printed, Switch, Move, Faint, DamageOrHeal, StatusOrCure, At, Reads, TellTypes, Req,
           Handling
    <2>2. battleData[room].availableActions = Available
      BY <1>7 DEF Handling
    <2> QED
      BY <2>1, <2>2 DEF Turn, Took, Handling, Shows
  <1>8. CASE l.type = "request"
    <2>1. Request /\ x = u /\ curRoom = room
      BY <1>8 DEF Handle, Room, Player, Request, Challstr, UpdateUser, UpdateChallenges, Boost,
           Turn, Printed, Switch, Move, Faint, DamageOrHeal, StatusOrCure, At, Reads, TellTypes,
           Handling
    <2>2. CASE l.wait
      <3>1. Ignore /\ ~Req(l)
        BY <2>1, <2>2 DEF Request, Req
      <3> QED
        BY <1>3, <2>1, <3>1 DEF Ignore, Handling
    <2>3. CASE ~l.wait
      <3>1. Req(l) /\ l = Asking /\ requestIsKnown(l)
        BY <1>8, <2>3, HandlingFacts, AskingKnown DEF Req, Handling
      <3>2. /\ battleData' = [battleData EXCEPT ![room].playerTeam = requestTeam(Asking),
                                                ![room].availableActions = Available]
            /\ UNCHANGED <<username, curRoom, crashed>> /\ lines' = Tail(lines)
            /\ sent' = sent \/ \E m \in moveMessages(room, Available) : sent' = Append(sent, m)
        BY <2>1, <2>3, <3>1 DEF Request, Available
      <3>3. /\ battleData'[room].playerTeam = requestTeam(Asking)
            /\ battleData'[room].availableActions = Available
            /\ battleData'[room].playerID = battleData[room].playerID
            /\ battleData'[room].oppTeam = battleData[room].oppTeam
        BY <3>2, HandlingFacts DEF BattleData
      <3>4. Knows(x, battleData'[room].playerID, battleData'[room].oppTeam)
        BY <2>1, <3>3 DEF Handling, Shows
      <3> QED
        BY <2>1, <3>1, <3>2, <3>3, <3>4 DEF Took, Handling
    <2> QED
      BY <2>2, <2>3
  <1> QED
    BY <1>1, <1>2, <1>4, <1>5, <1>6, <1>7, <1>8

-----------------------------------------------------------------------------
(* The invariant is kept *)

(* When a choice is on its way, or a turn line makes the bot choose, no      *)
(* other request is.                                                         *)
LEMMA NothingElseAsked ==
    ASSUME Pending, InStep, sent # <<>> \/ (lines # <<>> /\ Head(lines).type = "turn")
    PROVE  Awaits /\ ~HasReq(lines) /\ ~AnyReq(toBot)
  <1>1. lines # <<>> /\ Asks(Head(lines)) => Asked(lines)
    BY TailFrame DEF Pending
  <1>2. ~AnyAsked(toBot) /\ Awaits
    BY <1>1 DEF Pending, Asks
  <1>3. ~AnyReq(toBot)
    BY <1>2 DEF InStep, AskLater, AnyReq, AnyAsked
  <1>4. CASE sent # <<>>
    BY <1>2, <1>3, <1>4 DEF InStep, Pending
  <1>5. CASE lines # <<>> /\ Head(lines).type = "turn"
    <2>1. ~Req(Head(lines)) /\ Asks(Head(lines))
      BY <1>5 DEF Req, Asks
    <2>2. /\ HasReq(lines) => Req(Head(lines)) \/ HasReq(Tail(lines))
          /\ HasReq(Tail(lines)) => ~Asks(Head(lines))
      BY <1>5, TailMade DEF InStep, Pending, IsFrame
    <2> QED
      BY <1>2, <1>3, <2>1, <2>2
  <1> QED
    BY <1>4, <1>5

LEMMA HandleInStep ==
    ASSUME Pending, Serves, NamesMet, InStep, TypeOK, OppTeamDistinct, HandleLine
    PROVE  InStep'
  <1>1. Handle /\ UNCHANGED server /\ toBot' = toBot
    BY DEF HandleLine
  <1>2. /\ lines # <<>>
        /\ \/ sent' = sent /\ lines' \in {Tail(lines), <<>>}
           \/ /\ Asks(Head(lines)) /\ lines' = Tail(lines)
              /\ \E m : sent' = Append(sent, m)
    BY <1>1, HandleAnswers DEF Pending
  <1>3. phase # "lobby"
    BY <1>2 DEF InStep
  <1>4. PICK u, w : Shows(u) /\ Leads(lines, u, w) /\ Chain(toBot, w, Target)
    BY <1>3 DEF InStep
  <1>5. PICK S : lines \in Seq(S)
    BY DEF Pending, IsFrame, LinesOf
  <1>6. PICK x : Reads(Head(lines), u, x) /\ Leads(Tail(lines), x, w)
    BY <1>2, <1>4, <1>5, LeadsOn
  <1>7. Head(lines).type = "turn" => Fits
    BY <1>2, NothingElseAsked DEF InStep
  <1>8. LinesOf(lines, BattleTypes) /\ WellMade(lines) /\ OnlyAsk(lines, Asking)
    BY DEF Pending, IsFrame, InStep
  <1>9. Handling(u)
    BY <1>2, <1>4, <1>7, <1>8 DEF Handling, InStep, Pending, Fits
  <1>10. Took(x)
    BY <1>1, <1>6, <1>9, HandleTook
  <1>11. /\ Target' = Target /\ Asking' = Asking /\ Available' = Available
         /\ Awaits' <=> Awaits
         /\ phase' = phase
    BY <1>1, SameServer
  <1>12. /\ WellMade(Tail(lines)) /\ OnlyAsk(Tail(lines), Asking)
         /\ HasReq(Tail(lines)) => HasReq(lines) /\ ~Req(Head(lines)) /\ ~Asks(Head(lines))
         /\ HasReq(lines) => Req(Head(lines)) \/ HasReq(Tail(lines))
         /\ Asked(lines) => Asks(Head(lines)) \/ Asked(Tail(lines))
    BY <1>2, <1>8, TailMade
  <1>13. lines' = Tail(lines) /\ username' = BotName /\ crashed' = FALSE
    BY <1>10 DEF Took
  <1>14. lines' # <<>> /\ Head(lines').type # "room" => curRoom' = room
    BY <1>10 DEF Took
  <1>15. HasReq(lines') => Asked(lines') \/ AnyAsked(toBot')
    BY <1>1, <1>12, <1>13 DEF InStep
  <1>16. Awaits' /\ ~HasReq(lines') /\ ~AnyReq(toBot') => Fits'
    <2> SUFFICES ASSUME Awaits', ~HasReq(lines'), ~AnyReq(toBot') PROVE Fits'
      OBVIOUS
    <2>1. CASE Req(Head(lines))
      BY <1>10, <1>11, <2>1 DEF Took, Fits
    <2>2. CASE ~Req(Head(lines))
      <3>1. Fits
        BY <1>1, <1>11, <1>12, <1>13, <2>2 DEF InStep
      <3> QED
        BY <1>10, <1>11, <2>2, <3>1 DEF Took, Fits
    <2> QED
      BY <2>1, <2>2
  <1>17. \A i \in DOMAIN sent' : sent'[i] \in moveMessages(room, Available')
    <2>1. CASE sent' = sent
      BY <1>11, <2>1 DEF InStep
    <2>2. CASE sent' # sent
      <3>1. Asked(lines)
        BY <1>2, <2>2, TailFrame DEF Pending
      <3>2. sent = <<>>
        BY <3>1 DEF Pending
      <3>3. PICK m \in moveMessages(room, Available) : sent' = Append(sent, m)
        BY <1>10, <2>2 DEF Took
      <3>4. DOMAIN sent' = 1..1 /\ sent'[1] = m
        BY <3>2, <3>3
      <3> QED
        BY <1>11, <3>4
    <2> QED
      BY <2>1, <2>2
  <1>18. \E v, z : Shows(v)' /\ Leads(lines', v, z) /\ Chain(toBot', z, Target')
    <2>1. Shows(x)'
      BY <1>10 DEF Took, Shows
    <2> QED
      BY <1>1, <1>4, <1>6, <1>11, <1>13, <2>1
  <1> QED
    BY <1>1, <1>3, <1>11, <1>12, <1>13, <1>14, <1>15, <1>16, <1>17, <1>18 DEF InStep

LEMMA DeliverInStep ==
    ASSUME Pending, Serves, InStep, Deliver
    PROVE  InStep'
  <1>1. /\ lines = <<>> /\ toBot # <<>> /\ lines' = Head(toBot) /\ toBot' = Tail(toBot)
        /\ UNCHANGED server
        /\ UNCHANGED <<username, battleData, sent, crashed>>
    BY DEF Deliver, Receive
  <1>2. phase # "lobby"
    BY <1>1 DEF InStep
  <1>3. PICK u, w : Shows(u) /\ Leads(lines, u, w) /\ Chain(toBot, w, Target)
    BY <1>2 DEF InStep
  <1>4. PICK F : toBot \in Seq(F)
    BY DEF Pending, QueueOK
  <1>5. Chain(toBot, u, Target)
    BY <1>1, <1>3, LeadsNowhere
  <1>6. PICK z : Leads(Head(toBot), u, z) /\ Chain(Tail(toBot), z, Target)
    BY <1>1, <1>4, <1>5, ChainOn
  <1>7. /\ Target' = Target /\ Asking' = Asking /\ Available' = Available
        /\ Awaits' <=> Awaits
        /\ phase' = phase
    BY <1>1, SameServer
  <1>8. /\ Wholes(Tail(toBot)) /\ AskLater(Tail(toBot)) /\ OnlyAsks(Tail(toBot), Asking)
        /\ Whole(Head(toBot)) /\ OnlyAsk(Head(toBot), Asking)
        /\ HasReq(Head(toBot)) => Asked(Head(toBot)) \/ AnyAsked(Tail(toBot))
        /\ AnyReq(toBot) => HasReq(Head(toBot)) \/ AnyReq(Tail(toBot))
    BY <1>1, TailMadeQueue DEF Pending, InStep
  <1>9. Head(lines').type = "room"
    <2>1. PICK S : lines' \in Seq(S)
      BY <1>1, TailQueue DEF Pending, IsFrame, LinesOf
    <2>2. lines' # <<>> /\ lines'[1].type = "room"
      BY <1>1, <1>8 DEF Whole
    <2> QED
      BY <2>1, <2>2
  <1>10. ~HasReq(<<>>)
    BY DEF HasReq
  <1>11. Awaits' /\ ~HasReq(lines') /\ ~AnyReq(toBot') => Fits'
    BY <1>1, <1>7, <1>8, <1>10 DEF InStep, Fits
  <1>12. Shows(u)'
    BY <1>1, <1>3 DEF Shows
  <1> QED
    BY <1>1, <1>2, <1>6, <1>7, <1>8, <1>9, <1>11, <1>12 DEF InStep, Whole

(* The server plays a turn, or has the fainted replaced. *)
LEMMA CommitInStep ==
    ASSUME Pending, Serves, InStep, ~outOfStep, NamesMet', NEW s, NEW trap \in BOOLEAN, NEW dis,
           Informs(s), Commit(s, trap, dis),
           phase # "lobby", ~HasReq(lines), ~AnyReq(toBot),
           UNCHANGED <<username, battleData, curRoom, lines, crashed>>, sent' = <<>>
    PROVE  Serves' /\ InStep'
  <1>1. Serves' /\ phase' # "lobby"
    BY CommitServes
  <1>2. /\ Wholes(toBot') /\ OnlyAsks(toBot', Asking') /\ AskLater(toBot')
        /\ Awaits' => AnyReq(toBot')
        /\ \A u : Chain(toBot, u, Target) => Chain(toBot', u, Target')
    <2>1. AllKnown(Seen(s))
      <3>1. shown' = Seen(s)
        BY DEF Commit, Seen, SentOut
      <3> QED
        BY <3>1 DEF NamesMet, Met, AllKnown
    <2> QED
      BY <2>1, CommitFrames DEF Pending, InStep
  <1>3. ~HasReq(lines') /\ OnlyAsk(lines', Asking') /\ WellMade(lines')
    BY DEF HasReq, OnlyAsk, InStep
  <1>4. lines' # <<>> /\ Head(lines').type # "room" => curRoom' = room
    BY DEF InStep
  <1>5. username' = BotName /\ crashed' = FALSE
    BY DEF InStep
  <1>6. \E u, w : Shows(u)' /\ Leads(lines', u, w) /\ Chain(toBot', w, Target')
    <2>1. PICK u, w : Shows(u) /\ Leads(lines, u, w) /\ Chain(toBot, w, Target)
      BY DEF InStep
    <2>2. Shows(u)'
      BY <2>1 DEF Shows
    <2> QED
      BY <1>2, <2>1, <2>2
  <1>7. \A i \in DOMAIN sent' : sent'[i] \in moveMessages(room, Available')
    OBVIOUS
  <1> QED
    BY <1>1, <1>2, <1>3, <1>4, <1>5, <1>6, <1>7 DEF InStep

LEMMA PlayTurnInStep ==
    ASSUME Pending, Serves, InStep, ~outOfStep, NamesMet', PlayTurn
    PROVE  Serves' /\ InStep'
  <1>1. /\ phase = "turn" /\ sent # <<>> /\ sent' = Tail(sent)
        /\ UNCHANGED <<username, battleData, curRoom, lines, crashed>>
    BY DEF PlayTurn
  <1>2. ~HasReq(lines) /\ ~AnyReq(toBot)
    BY <1>1, NothingElseAsked
  <1>3. sent' = <<>>
    BY <1>1, LenFacts DEF Pending
  <1> QED
    BY <1>1, <1>2, <1>3, PlayTurnInforms, CommitInStep

LEMMA ReplaceInStep ==
    ASSUME Pending, Serves, InStep, ~outOfStep, NamesMet', Replace
    PROVE  Serves' /\ InStep'
  <1>1. phase = "force" /\ UNCHANGED <<username, battleData, curRoom, lines, crashed>>
    BY DEF Replace
  <1>2. CASE down(Now, "p1")
    <2>1. sent # <<>> /\ sent' = Tail(sent)
      BY <1>2 DEF Replace
    <2>2. ~HasReq(lines) /\ ~AnyReq(toBot)
      BY <2>1, NothingElseAsked
    <2>3. sent' = <<>>
      BY <2>1, LenFacts DEF Pending
    <2> QED
      BY <1>1, <2>2, <2>3, ReplaceInforms, CommitInStep
  <1>3. CASE ~down(Now, "p1")
    <2>1. ~Awaits
      BY <1>1, <1>3 DEF Awaits
    <2>2. sent = <<>> /\ sent' = sent /\ ~Asked(lines) /\ ~AnyAsked(toBot)
      BY <1>3, <2>1 DEF Replace, Pending
    <2>3. ~HasReq(lines) /\ ~AnyReq(toBot)
      BY <2>2 DEF InStep, AskLater, AnyReq, AnyAsked
    <2> QED
      BY <1>1, <2>2, <2>3, ReplaceInforms, CommitInStep
  <1> QED
    BY <1>2, <1>3

(* A frame of one line that asks and tells nothing is sent. *)
LEMMA QuietInStep ==
    ASSUME Pending, InStep, phase # "lobby",
           NEW l, l.type \in BattleTypes \ {"room"}, ~Req(l), ~Asks(l), \A u : Reads(l, u, u),
           toBot' = Append(toBot, InRoom(<<l>>)), sent' \in {sent, <<>>},
           UNCHANGED <<order, mon, shown, phase, trapped>>,
           UNCHANGED <<username, battleData, curRoom, lines, crashed>>
    PROVE  InStep'
  <1> DEFINE f == InRoom(<<l>>)
  <1>3. /\ Whole(f) /\ ~HasReq(f) /\ ~Asked(f) /\ (\A a : OnlyAsk(f, a))
        /\ \A u : Leads(f, u, u)
    BY OneLine
  <1>1. toBot' = Append(toBot, f)
    OBVIOUS
  <1> HIDE DEF f
  <1>4. PICK F : toBot \in Seq(F)
    BY DEF Pending, QueueOK
  <1>5. /\ Target' = Target /\ Asking' = Asking /\ Available' = Available
        /\ Awaits' <=> Awaits
        /\ phase' = phase
    BY SameSides
  <1>6. /\ Wholes(toBot') /\ OnlyAsks(toBot', Asking') /\ AskLater(toBot')
        /\ AnyReq(toBot') <=> AnyReq(toBot)
        /\ AnyAsked(toBot') <=> AnyAsked(toBot)
    BY <1>1, <1>3, <1>4, <1>5, AppendMade DEF InStep
  <1>7. \E u, w : Shows(u)' /\ Leads(lines', u, w) /\ Chain(toBot', w, Target')
    <2>1. PICK u, w : Shows(u) /\ Leads(lines, u, w) /\ Chain(toBot, w, Target)
      BY DEF InStep
    <2>2. Shows(u)' /\ Chain(toBot', w, Target')
      BY <1>1, <1>3, <1>4, <1>5, <2>1, ChainFurther DEF Shows
    <2> QED
      BY <2>1, <2>2
  <1>8. Awaits' /\ ~HasReq(lines') /\ ~AnyReq(toBot') => Fits'
    BY <1>5, <1>6 DEF InStep, Fits
  <1>9. \A i \in DOMAIN sent' : sent'[i] \in moveMessages(room, Available')
    <2>1. CASE sent' = sent
      BY <1>5, <2>1 DEF InStep
    <2>2. CASE sent' = <<>>
      BY <2>2
    <2> QED
      BY <2>1, <2>2
  <1> QED
    BY <1>5, <1>6, <1>7, <1>8, <1>9 DEF InStep

LEMMA LeavesInStep ==
    ASSUME Pending, InStep, ~outOfStep, OpponentLeaves
    PROVE  InStep'
  <1> DEFINE l == [type |-> "player", id |-> "p2", name |-> NoUser]
  <1>1. /\ phase # "lobby" /\ toBot' = Append(toBot, InRoom(<<l>>))
        /\ UNCHANGED <<order, mon, shown, phase, trapped>>
        /\ UNCHANGED <<username, battleData, curRoom, lines, sent, crashed>>
    BY DEF OpponentLeaves, Queued, vars, server
  <1>2. /\ l.type \in BattleTypes \ {"room"} /\ ~Req(l) /\ ~Asks(l)
        /\ \A u : Reads(l, u, u)
    BY ConstantsAssumption DEF BattleTypes, Req, Asks, Reads
  <1> HIDE DEF l
  <1> QED
    BY <1>1, <1>2, QuietInStep

LEMMA RefuseInStep ==
    ASSUME Pending, InStep, ~outOfStep, Refuse
    PROVE  InStep'
  <1> DEFINE l == [type |-> "error"]
  <1>1. /\ toBot' = Append(toBot, InRoom(<<l>>)) /\ sent # <<>> /\ sent' = Tail(sent)
        /\ UNCHANGED <<order, mon, shown, phase, trapped>>
        /\ UNCHANGED <<username, battleData, curRoom, lines, crashed>>
    BY DEF Refuse, Queued
  <1>2. /\ l.type \in BattleTypes \ {"room"} /\ ~Req(l) /\ ~Asks(l)
        /\ \A u : Reads(l, u, u)
    BY DEF BattleTypes, TellTypes, Req, Asks, Reads
  <1>3. phase # "lobby"
    BY <1>1 DEF InStep
  <1>4. sent' = <<>>
    BY <1>1, LenFacts DEF Pending
  <1> HIDE DEF l
  <1> QED
    BY <1>1, <1>2, <1>3, <1>4, QuietInStep

LEMMA NothingHappens ==
    ASSUME InStep, UNCHANGED allvars
    PROVE  InStep'
  <1>1. /\ Target' = Target /\ Asking' = Asking /\ Available' = Available
        /\ Awaits' <=> Awaits
        /\ phase' = phase
    BY SameServer DEF allvars
  <1>2. /\ UNCHANGED <<username, battleData, curRoom, lines, sent, crashed, toBot>>
        /\ Fits' <=> Fits
    BY <1>1 DEF allvars, vars, Fits
  <1>3. \A u : Shows(u) => Shows(u)'
    BY <1>2 DEF Shows
  <1> QED
    BY <1>1, <1>2, <1>3 DEF InStep

(* A frame of two lines, neither a request nor a room's.                     *)
LEMMA TwoLines ==
    ASSUME NEW x, NEW y, x.type \in BattleTypes \ {"room", "request"},
           y.type \in BattleTypes \ {"room", "request"},
           x.type = "player" => x.name # NoUser, y.type = "player" => y.name # NoUser
    PROVE  /\ Whole(InRoom(<<x, y>>)) /\ ~HasReq(InRoom(<<x, y>>))
           /\ \A a : OnlyAsk(InRoom(<<x, y>>), a)
           /\ \A u, v, w : Reads(x, u, v) /\ Reads(y, v, w) =>
                 Leads(<<x, y>>, u, w) /\ Leads(InRoom(<<x, y>>), u, w)
  <1> DEFINE f == <<x, y>>
             g == InRoom(f)
  <1>1. /\ LinesOf(f, BattleTypes) /\ Len(f) = 2 /\ DOMAIN f = 1..2 /\ f[1] = x /\ f[2] = y
        /\ f = Append(Append(<<>>, x), y)
    BY ShortLines
  <1>2. <<>> \in Seq({x, y}) /\ Append(<<>>, x) \in Seq({x, y})
    OBVIOUS
  <1> HIDE DEF f
  <1>3. /\ DOMAIN g = 1..3 /\ g[1] = [type |-> "room", room |-> room] /\ g[2] = x /\ g[3] = y
    <2>1. /\ DOMAIN g = 1..(Len(f) + 1) /\ g[1] = [type |-> "room", room |-> room]
          /\ \A j \in DOMAIN f : g[j + 1] = f[j]
      BY <1>1, InRoomFacts
    <2> HIDE DEF g
    <2>2. g[1 + 1] = f[1] /\ g[2 + 1] = f[2]
      BY <1>1, <2>1
    <2> QED
      BY <1>1, <2>1, <2>2
  <1>4. g # <<>>
    BY <1>3
  <1> HIDE DEF g
  <1>5. \A j \in DOMAIN g : j = 1 \/ j = 2 \/ j = 3
    BY <1>3
  <1>6. g[1].type = "room" /\ g[1].room = room /\ ~Req(g[1]) /\ 1 \in DOMAIN g
    BY <1>3 DEF Req
  <1>7. \A j \in DOMAIN g : ~Req(g[j])
    BY <1>3, <1>5, <1>6 DEF Req
  <1>8. \A j \in DOMAIN g : j # 1 =>
           g[j].type # "room" /\ ~(g[j].type = "player" /\ g[j].name = NoUser)
    BY <1>3, <1>5
  <1>9. Whole(g) /\ ~HasReq(g) /\ \A a : OnlyAsk(g, a)
    BY <1>4, <1>6, <1>7, <1>8 DEF Whole, WellMade, HasReq, OnlyAsk
  <1>10. ASSUME NEW u, NEW v, NEW w, Reads(x, u, v), Reads(y, v, w)
         PROVE  Leads(f, u, w) /\ Leads(g, u, w)
    <2>1. Leads(<<>>, u, u)
      BY LeadsNowhere
    <2>2. Leads(Append(<<>>, x), u, v)
      BY <1>2, <1>10, <2>1, LeadsFurther
    <2>3. Leads(f, u, w)
      BY <1>1, <1>2, <1>10, <2>2, LeadsFurther
    <2> QED
      BY <1>1, <2>3, LeadsInRoom DEF g
  <1> QED
    BY <1>9, <1>10 DEF f, g

LEMMA StartServes ==
    ASSUME Serves, Start
    PROVE  /\ Serves' /\ phase' = "turn" /\ trapped' = FALSE
           /\ order' = order /\ mon' = mon /\ shown' = {out(Now, "p2")}
           /\ out(Now, "p2") \in Pkmn
           /\ mon["p2"][out(Now, "p2")] = [hp |-> MaxHP["p2"], par |-> FALSE]
  <1>1. "p1" \in PlayerIDs /\ "p2" \in PlayerIDs
    BY DEF PlayerIDs
  <1>2. /\ phase = "lobby" /\ phase' = "turn" /\ order' = order /\ mon' = mon
        /\ trapped' = trapped
    BY DEF Start
  <1>3. shown' = {out(Now, "p2")}
    BY DEF Start, Now, out
  <1>4. out(Now, "p2") \in Pkmn
    <2>1. order["p2"] \in Seq(Pkmn) /\ Len(order["p2"]) \in 1..6
      BY <1>1, BattleAssumption DEF Serves
    <2> QED
      BY <2>1 DEF out, Now
  <1>5. mon["p2"][out(Now, "p2")] = [hp |-> MaxHP["p2"], par |-> FALSE]
    BY <1>2, <1>4 DEF Serves
  <1>6. out(Now, "p2")' = out(Now, "p2")
    BY <1>2 DEF out, Now
  <1>7. Serves'
    BY <1>2, <1>3, <1>4, <1>6 DEF Serves
  <1> QED
    BY <1>2, <1>3, <1>4, <1>5, <1>7 DEF Serves

LEMMA SameSeq ==
    ASSUME NEW S, NEW s \in Seq(S), NEW t \in Seq(S), Len(s) = Len(t),
           \A i \in 1..Len(s) : s[i] = t[i]
    PROVE  s = t
  OBVIOUS
LEMMA ShortQueues ==
    ASSUME NEW a, NEW b, NEW c
    PROVE  /\ <<a, b, c>> = Append(Append(Append(<<>>, a), b), c)
           /\ <<>> \in Seq({a, b, c})
           /\ Append(<<>>, a) \in Seq({a, b, c})
           /\ Append(Append(<<>>, a), b) \in Seq({a, b, c})
  <1> DEFINE S == {a, b, c}
             t == Append(Append(Append(<<>>, a), b), c)
  <1>1. a \in S /\ b \in S /\ c \in S
    OBVIOUS
  <1> HIDE DEF S
  <1>2. /\ <<>> \in Seq(S) /\ Append(<<>>, a) \in Seq(S) /\ Append(Append(<<>>, a), b) \in Seq(S)
        /\ t \in Seq(S) /\ <<a, b, c>> \in Seq(S)
    BY <1>1
  <1>3. Len(t) = 3 /\ t[1] = a /\ t[2] = b /\ t[3] = c
    BY <1>1
  <1>4. Len(<<a, b, c>>) = 3 /\ <<a, b, c>>[1] = a /\ <<a, b, c>>[2] = b /\ <<a, b, c>>[3] = c
    OBVIOUS
  <1>5. t = <<a, b, c>>
    <2> DEFINE r == <<a, b, c>>
    <2>1. r \in Seq(S) /\ Len(r) = 3 /\ r[1] = a /\ r[2] = b /\ r[3] = c
      BY <1>2, <1>4
    <2> HIDE DEF r, t
    <2>2. \A i \in 1..3 : t[i] = r[i]
      BY <1>3, <2>1
    <2>3. t = r
      BY <1>2, <1>3, <2>1, <2>2, SameSeq
    <2> QED
      BY <2>3 DEF r
  <1> QED
    BY <1>2, <1>5 DEF S, t
LEMMA NoFrames ==
    ASSUME NEW a
    PROVE  Wholes(<<>>) /\ OnlyAsks(<<>>, a) /\ ~AnyReq(<<>>)
  <1>1. Wholes(<<>>)
    BY DEF Wholes
  <1>2. OnlyAsks(<<>>, a)
    BY DEF OnlyAsks
  <1>3. ~AnyReq(<<>>)
    BY DEF AnyReq
  <1> QED
    BY <1>1, <1>2, <1>3

LEMMA TurnLine ==
    ASSUME NEW l, l.type = "turn"
    PROVE  l.type \in TellTypes \cup {"turn", "win"} /\ Asks(l) /\ \A u : Reads(l, u, u)
  BY DEF Asks, Reads, TellTypes

LEMMA StartInStep ==
    ASSUME Pending, Serves, InStep, ~outOfStep, NamesMet', Start
    PROVE  InStep'
  <1> DEFINE x == [type |-> "player", id |-> "p1", name |-> BotName]
             y == [type |-> "player", id |-> "p2", name |-> Opponent]
             v == [type |-> "switch", id |-> "p1", name |-> out(Now, "p1"), hp |-> MaxHP["p1"]]
             w == [type |-> "switch", id |-> "p2", name |-> out(Now, "p2"), hp |-> MaxHP["p2"]]
             l == [type |-> "turn"]
             none == [n \in {} |-> n]
             u0 == View("", none)
             u1 == View("p1", none)
  <1>1. PICK s : /\ s = [Now EXCEPT !.lines = <<v, w>>]
                 /\ toBot' = toBot \o <<InRoom(<<x, y>>), RequestFor(s, FALSE, FALSE, FALSE),
                                        InRoom(Append(s.lines, l))>>
    BY DEF Start, Queued
  <1> DEFINE a == InRoom(<<x, y>>)
             b == RequestFor(s, FALSE, FALSE, FALSE)
             c == InRoom(Append(s.lines, l))
  <1>2. s.order = order /\ s.mon = mon /\ s.lines = <<v, w>>
    BY <1>1 DEF Now
  <1>3. /\ toBot = <<>> /\ lines = <<>> /\ sent = <<>> /\ battleData[room] = NoBattle
        /\ UNCHANGED <<username, battleData, curRoom, lines, sent, crashed>>
    BY DEF Start, vars, InStep
  <1>4. /\ Serves' /\ phase' = "turn" /\ trapped' = FALSE
        /\ order' = order /\ mon' = mon /\ shown' = {out(Now, "p2")}
        /\ out(Now, "p2") \in KnownPkmn
        /\ mon["p2"][out(Now, "p2")] = [hp |-> MaxHP["p2"], par |-> FALSE]
    BY StartServes DEF NamesMet, Met
  <1>5. /\ x.type \in BattleTypes \ {"room", "request"} /\ y.type \in BattleTypes \ {"room", "request"}
        /\ x.name # NoUser /\ y.name # NoUser
        /\ Reads(x, u0, u1) /\ Reads(y, u1, u1)
    BY ConstantsAssumption, BattleAssumption DEF BattleTypes, Reads, TellTypes, View
  <1>6. /\ v.type \in TellTypes /\ w.type \in TellTypes
        /\ Reads(v, u1, u1)
    BY DEF TellTypes, Reads, View
  <1>7. Reads(w, u1, Target')
    <2> DEFINE n0 == out(Now, "p2")
    <2>1. NoteOn(mon["p2"][n0]) = Note(w.hp, FALSE, FALSE)
      <3>1. MaxHP["p2"] # 0
        BY BattleAssumption DEF PlayerIDs
      <3>2. mon["p2"][n0].hp = w.hp /\ (mon["p2"][n0].hp = 0) = FALSE /\ mon["p2"][n0].par = FALSE
        BY <1>4, <3>1
      <3> QED
        BY <3>2 DEF NoteOn
    <2>2. w.name = n0 /\ w.id = "p2" /\ w.type = "switch"
      OBVIOUS
    <2> HIDE DEF w, n0
    <2>3. Target' = View("p1", [n \in {n0} |-> Note(w.hp, FALSE, FALSE)])
      <3>1. Target' = View("p1", [n \in {n0} |-> NoteOn(mon["p2"][n])])
        BY <1>4 DEF Target, n0
      <3>2. [n \in {n0} |-> NoteOn(mon["p2"][n])] = [n \in {n0} |-> Note(w.hp, FALSE, FALSE)]
        BY <2>1
      <3> QED
        BY <3>1, <3>2
    <2>4. /\ u1.pid = "p1" /\ u1.seen = none /\ DOMAIN u1.seen = {}
      BY DEF View
    <2> HIDE DEF u1
    <2>5. [n \in DOMAIN u1.seen \cup {w.name} |->
                 IF n = w.name THEN Note(w.hp, FALSE, FALSE) ELSE u1.seen[n]]
            = [n \in {n0} |-> Note(w.hp, FALSE, FALSE)]
      BY <2>2, <2>4
    <2>6. w.name \in KnownPkmn \ DOMAIN u1.seen
      BY <1>4, <2>2, <2>4 DEF n0
    <2>7. Learns(w, u1, Target')
      BY <2>2, <2>3, <2>4, <2>5, <2>6 DEF Learns
    <2> QED
      BY <2>2, <2>4, <2>7 DEF Reads, TellTypes
  <1>8. l.type \in TellTypes \cup {"turn", "win"} /\ Asks(l) /\ \A u : Reads(l, u, u)
    <2>1. l.type = "turn"
      OBVIOUS
    <2> HIDE DEF l
    <2> QED
      BY <2>1, TurnLine
  <1>9. battleData[room].playerID = "" /\ battleData[room].oppTeam = <<>>
    <2>1. battleData[room] = NoBattle
      BY <1>3
    <2>2. NoBattle.playerID = "" /\ NoBattle.oppTeam = <<>>
      BY DEF NoBattle
    <2> QED
      BY <2>1, <2>2
  <1>10. Shows(u0)'
    <2>1. u0.pid = "" /\ DOMAIN u0.seen = {}
      BY DEF View
    <2> HIDE DEF u0
    <2>2. DOMAIN <<>> = {}
      OBVIOUS
    <2>3. Knows(u0, "", <<>>)
      BY <2>1, <2>2 DEF Knows
    <2> QED
      BY <1>3, <1>9, <2>3 DEF Shows
  <1>11. toBot' = <<a, b, c>>
    BY <1>1, <1>3
  <1>12. Asking' = [type |-> "request", wait |-> FALSE, forceSwitch |-> FALSE,
                    trapped |-> FALSE, moves |-> IF FALSE THEN 1 ELSE 4, side |-> SideOf(s)]
    BY <1>2, <1>4, RequestIsAsking
  <1> HIDE DEF x, y, v, w, l, u0, u1, none
  <1>13. /\ Whole(a) /\ ~HasReq(a) /\ (\A r : OnlyAsk(a, r)) /\ Leads(a, u0, u1)
    BY <1>5, TwoLines
  <1>14. /\ Whole(b) /\ HasReq(b) /\ OnlyAsk(b, Asking') /\ Leads(b, u1, u1)
    BY <1>12, RequestMade
  <1>15. /\ Whole(c) /\ ~HasReq(c) /\ (\A r : OnlyAsk(c, r)) /\ Asked(c) /\ Leads(c, u1, Target')
    <2> DEFINE f == <<v, w>>
               g == Append(f, l)
    <2>1. LinesOf(f, TellTypes \cup {"turn", "win"}) /\ LinesOf(f, BattleTypes)
      BY <1>6, ShortLines DEF BattleTypes
    <2>2. LinesOf(g, TellTypes \cup {"turn", "win"}) /\ LinesOf(g, BattleTypes)
      BY <1>8, <2>1, AppendLine DEF BattleTypes
    <2>3. Leads(f, u1, Target')
      <3>1. v.type \in BattleTypes \ {"room", "request"} /\ w.type \in BattleTypes \ {"room", "request"}
            /\ v.type # "player" /\ w.type # "player"
        BY <1>6 DEF BattleTypes, TellTypes
      <3> QED
        BY <1>6, <1>7, <3>1, TwoLines
    <2>4. f \in Seq({v, w}) /\ 3 \in DOMAIN g /\ g[3] = l
      OBVIOUS
    <2>5. s.lines = f
      BY <1>2
    <2> HIDE DEF f
    <2>6. Leads(g, u1, Target')
      BY <1>8, <2>3, <2>4, LeadsFurther
    <2>7. c = InRoom(g)
      BY <2>5
    <2> HIDE DEF g, c
    <2> QED
      BY <1>8, <2>2, <2>4, <2>6, <2>7, InRoomMade, LeadsInRoom
  <1> HIDE DEF a, b, c
  <1>16. /\ <<a, b, c>> = Append(Append(Append(<<>>, a), b), c)
         /\ <<>> \in Seq({a, b, c}) /\ Append(<<>>, a) \in Seq({a, b, c})
         /\ Append(Append(<<>>, a), b) \in Seq({a, b, c})
    BY ShortQueues
  <1>17. Wholes(<<>>) /\ OnlyAsks(<<>>, Asking') /\ ~AnyReq(<<>>)
    BY NoFrames
  <1>18. Wholes(Append(<<>>, a)) /\ ~AnyReq(Append(<<>>, a))
    BY <1>13, <1>16, <1>17, AppendMade
  <1>19. /\ Wholes(toBot') /\ OnlyAsks(toBot', Asking') /\ AskLater(toBot') /\ AnyReq(toBot')
    <2> DEFINE q == Append(<<>>, a)
    <2>1. toBot' = Append(Append(q, b), c) /\ q \in Seq({a, b, c}) /\ Wholes(q) /\ ~AnyReq(q)
      BY <1>11, <1>16, <1>18
    <2> HIDE DEF q
    <2>2. /\ Wholes(q \o <<b, c>>) /\ OnlyAsks(q \o <<b, c>>, Asking')
          /\ AskLater(q \o <<b, c>>) /\ AnyReq(q \o <<b, c>>)
          /\ q \o <<b, c>> = Append(Append(q, b), c)
      BY <1>14, <1>15, <2>1, AppendTwoMade
    <2> QED
      BY <2>1, <2>2
  <1>20. Chain(toBot', u0, Target')
    <2>1. Chain(<<>>, u0, u0)
      BY ChainNowhere
    <2>2. Chain(Append(<<>>, a), u0, u1)
      BY <1>13, <1>16, <2>1, ChainFurther
    <2>3. Chain(Append(Append(<<>>, a), b), u0, u1)
      BY <1>14, <1>16, <2>2, ChainFurther
    <2> QED
      BY <1>11, <1>15, <1>16, <2>3, ChainFurther
  <1>21. Leads(lines', u0, u0)
    BY <1>3, LeadsNowhere
  <1>22. ~HasReq(lines') /\ WellMade(lines') /\ OnlyAsk(lines', Asking')
    BY <1>3 DEF HasReq, WellMade, OnlyAsk
  <1>23. username' = BotName /\ crashed' = FALSE
    BY <1>3 DEF InStep
  <1> QED
    BY <1>3, <1>4, <1>10, <1>19, <1>20, <1>21, <1>22, <1>23 DEF InStep

LEMMA BattleInvInit == BattleInit => BattleInv
  <1> SUFFICES ASSUME BattleInit PROVE BattleInv
    OBVIOUS
  <1>1. /\ order = Sides /\ phase = "lobby" /\ shown = {} /\ trapped = FALSE
        /\ mon = [p \in PlayerIDs |-> [n \in Pkmn |-> [hp |-> MaxHP[p], par |-> FALSE]]]
        /\ toBot = <<>> /\ lines = <<>> /\ sent = <<>>
        /\ username = BotName /\ crashed = FALSE
        /\ battleData = [r \in AllRooms |-> NoBattle]
    BY DEF BattleInit, Init
  <1>2. Serves
    <2>1. "p2" \in PlayerIDs /\ \A p \in PlayerIDs : MaxHP[p] \in Nat
      BY BattleAssumption DEF PlayerIDs
    <2>2. mon \in Mons /\ \A n \in Pkmn : mon["p2"][n] = [hp |-> MaxHP["p2"], par |-> FALSE]
      BY <1>1, <2>1 DEF Mons
    <2>3. \A p \in PlayerIDs : order[p] \in Seq(Team(p))
      <3> SUFFICES ASSUME NEW p \in PlayerIDs PROVE Sides[p] \in Seq(Team(p))
        BY <1>1
      <3>1. Sides[p] \in Seq(Pkmn)
        BY BattleAssumption
      <3>2. \A i \in DOMAIN Sides[p] : Sides[p][i] \in Team(p)
        BY DEF Team
      <3> QED
        BY <3>1, <3>2
    <2> QED
      BY <1>1, <2>2, <2>3, BattleAssumption DEF Serves
  <1>3. battleData[room] = NoBattle
    BY <1>1, BattleAssumption DEF AllRooms
  <1>4. ~Awaits
    BY <1>1 DEF Awaits
  <1>5. Wholes(toBot) /\ OnlyAsks(toBot, Asking) /\ AskLater(toBot)
    BY <1>1, NoFrames DEF AskLater, AnyReq
  <1>6. ~HasReq(lines) /\ WellMade(lines) /\ OnlyAsk(lines, Asking)
    BY <1>1 DEF HasReq, WellMade, OnlyAsk
  <1>7. \A i \in DOMAIN sent : sent[i] \in moveMessages(room, Available)
    BY <1>1
  <1>8. InStep
    BY <1>1, <1>3, <1>4, <1>5, <1>6, <1>7 DEF InStep
  <1> QED
    BY <1>2, <1>8, PendingInit DEF BattleInv

(* Names once met stay met. *)
LEMMA MetGrows ==
    ASSUME Serves, [BattleNext]_allvars, NamesMet'
    PROVE  NamesMet
  <1>1. ASSUME NEW s, NEW trap, NEW dis, Commit(s, trap, dis)
        PROVE  shown \subseteq shown'
    BY <1>1 DEF Commit
  <1>2. PlayTurn \/ Replace => shown \subseteq shown'
    BY <1>1, PlayTurnCommits DEF Replace
  <1>3. Start => shown \subseteq shown'
    BY DEF Start, Serves
  <1>4. Refuse \/ OpponentLeaves \/ Deliver \/ FrameTooLong \/ ReadGarbage \/ HandleLine \/ Done
          \/ UNCHANGED allvars => shown \subseteq shown'
    BY DEF Refuse, OpponentLeaves, Deliver, FrameTooLong, ReadGarbage, HandleLine, Done,
           allvars, server
  <1>5. shown \subseteq shown'
    BY <1>2, <1>3, <1>4 DEF BattleNext
  <1> QED
    BY <1>5 DEF NamesMet, Met

LEMMA BattleInvStep ==
    ASSUME BattleInv, TypeOK, OppTeamDistinct, [BattleNext]_allvars
    PROVE  BattleInv'
  <1>1. Serves'
    <2>1. CASE PlayTurn
      <3>1. phase = "turn"
        BY <2>1 DEF PlayTurn
      <3> QED
        BY <2>1, <3>1, PlayTurnInforms, CommitServes DEF BattleInv
    <2>2. CASE Replace
      <3>1. phase = "force"
        BY <2>2 DEF Replace
      <3> QED
        BY <2>2, <3>1, ReplaceInforms, CommitServes DEF BattleInv
    <2>3. CASE Start
      BY <2>3, StartServes DEF BattleInv
    <2>4. CASE Refuse
      BY <2>4, SameSides DEF BattleInv, Refuse
    <2>5. CASE OpponentLeaves \/ Deliver \/ FrameTooLong \/ ReadGarbage \/ HandleLine \/ Done
               \/ UNCHANGED allvars
      <3>1. UNCHANGED server
        BY <2>5 DEF OpponentLeaves, Deliver, FrameTooLong, ReadGarbage, HandleLine, Done, allvars
      <3> QED
        BY <3>1, SameServer DEF BattleInv
    <2> QED
      BY <2>1, <2>2, <2>3, <2>4, <2>5 DEF BattleNext
  <1>2. ~outOfStep' => Pending'
    BY StaysOutOfStep, PendingStep DEF BattleInv
  <1>3. ASSUME ~outOfStep', NamesMet'
        PROVE  InStep'
    <2>1. ~outOfStep /\ Pending /\ Serves /\ NamesMet /\ InStep
      BY <1>3, StaysOutOfStep, MetGrows DEF BattleInv
    <2>2. CASE Start
      BY <1>3, <2>1, <2>2, StartInStep
    <2>3. CASE PlayTurn
      BY <1>3, <2>1, <2>3, PlayTurnInStep
    <2>4. CASE Replace
      BY <1>3, <2>1, <2>4, ReplaceInStep
    <2>5. CASE Refuse
      BY <2>1, <2>5, RefuseInStep
    <2>6. CASE OpponentLeaves
      BY <2>1, <2>6, LeavesInStep
    <2>7. CASE Deliver
      BY <2>1, <2>7, DeliverInStep
    <2>8. CASE HandleLine
      BY <2>1, <2>8, HandleInStep
    <2>9. CASE Done \/ UNCHANGED allvars
      BY <2>1, <2>9, NothingHappens DEF Done
    <2>10. ~FrameTooLong /\ ~ReadGarbage
      BY <1>3, <2>1 DEF FrameTooLong, ReadGarbage
    <2> QED
      BY <2>2, <2>3, <2>4, <2>5, <2>6, <2>7, <2>8, <2>9, <2>10 DEF BattleNext
  <1> QED
    BY <1>1, <1>2, <1>3 DEF BattleInv

(* The bot and the server stay in step: what the bot holds and what is on    *)
(* its way to it together are what the server knows, for any teams, moves    *)
(* and effects, as long as the stream is read in step and no strange name is *)
(* told (PSUser.hpp:218-449).                                                *)
THEOREM AlwaysInStep == BattleSpec => []BattleInv
  <1>1. BattleSpec => [](TypeOK /\ OppTeamDistinct)
    BY BattleIsPSUser, TypeCorrect, OppTeamAlwaysDistinct, PTL DEF BotIsPSUser
  <1>2. BattleInit => BattleInv
    BY BattleInvInit
  <1>3. BattleInv /\ (TypeOK /\ OppTeamDistinct) /\ [BattleNext]_allvars => BattleInv'
    BY BattleInvStep
  <1> QED
    BY <1>1, <1>2, <1>3, PTL DEF BattleSpec

-----------------------------------------------------------------------------
(* What follows of the choices the bot makes *)

LEMMA OffersAreListed ==
    ASSUME Serves, Awaits, NEW m \in moveMessages(room, Available)
    PROVE  Listed(m)
  <1> DEFINE o == order["p1"]
             hp(i) == mon["p1"][o[i]].hp
  <1>1. "p1" \in PlayerIDs
    BY DEF PlayerIDs
  <1>2. /\ o \in Seq(Pkmn) /\ Len(o) \in 1..6 /\ DOMAIN o = 1..Len(o)
        /\ \A i \in 1..Len(o) : hp(i) \in Nat
    <2>1. /\ o \in Seq(Pkmn) /\ Len(o) = Len(Sides["p1"]) /\ Len(Sides["p1"]) \in 1..6
          /\ mon \in Mons
      BY <1>1, BattleAssumption DEF Serves
    <2>2. DOMAIN o = 1..Len(o) /\ \A i \in 1..Len(o) : o[i] \in Pkmn
      BY <2>1
    <2>3. \A n \in Pkmn : mon["p1"][n].hp \in Nat
      BY <1>1, <2>1 DEF Mons
    <2> QED
      BY <2>1, <2>2, <2>3
  <1>3. /\ benched(Now, "p1") = {i \in 2..Len(o) : hp(i) > 0}
        /\ down(Now, "p1") <=> hp(1) = 0
        /\ beaten(Now, "p1") <=> \A i \in 1..Len(o) : hp(i) = 0
    BY <1>2 DEF benched, down, beaten, out, Now
  <1>4. /\ Asking.forceSwitch = (phase = "force") /\ Asking.trapped = trapped
        /\ Asking.moves = IF trapped THEN 1 ELSE 4
        /\ DOMAIN Asking.side = 1..Len(o)
        /\ \A i \in 1..Len(o) : /\ Asking.side[i].active = (i = 1)
                                /\ Asking.side[i].fnt = (hp(i) = 0)
    BY <1>2 DEF Asking, SideOf, Now
  <1> HIDE DEF o, hp
  <1>5. switchActions(Asking) = IF trapped THEN {} ELSE {i + 2 : i \in benched(Now, "p1")}
    <2> DEFINE free == {j \in DOMAIN Asking.side : /\ ~Asking.side[j].active
                                                   /\ ~Asking.side[j].fnt
                                                   /\ ~Asking.trapped}
    <2>1. ASSUME NEW i \in 1..Len(o)
          PROVE  /\ ~Asking.side[i].active <=> i \in 2..Len(o)
                 /\ ~Asking.side[i].fnt <=> hp(i) > 0
      <3>1. /\ Asking.side[i].active = (i = 1) /\ Asking.side[i].fnt = (hp(i) = 0)
            /\ hp(i) \in Nat /\ Len(o) \in Nat
        BY <1>2, <1>4
      <3>2. ~Asking.side[i].active <=> i # 1
        BY <3>1
      <3>3. ~Asking.side[i].fnt <=> hp(i) # 0
        BY <3>1
      <3>4. i # 1 <=> i \in 2..Len(o)
        BY <3>1
      <3>5. hp(i) # 0 <=> hp(i) > 0
        BY <3>1
      <3> QED
        BY <3>2, <3>3, <3>4, <3>5
    <2>2. \A i \in 1..Len(o) : i \in free <=> ~trapped /\ i \in benched(Now, "p1")
      BY <1>3, <1>4, <2>1
    <2>3. free \subseteq 1..Len(o) /\ benched(Now, "p1") \subseteq 1..Len(o)
      BY <1>2, <1>3, <1>4
    <2>4. switchActions(Asking) = {i + 2 : i \in free}
      BY DEF switchActions
    <2> HIDE DEF free
    <2>5. CASE trapped
      BY <2>2, <2>3, <2>4, <2>5
    <2>6. CASE ~trapped
      <3>1. free = benched(Now, "p1")
        BY <2>2, <2>3, <2>6
      <3> QED
        BY <2>4, <2>6, <3>1
    <2> QED
      BY <2>5, <2>6
  <1>6. trapped \in BOOLEAN /\ (phase # "turn" => trapped = FALSE)
    BY DEF Serves
  <1>7. \A i \in benched(Now, "p1") : i \in Int /\ i >= 2
    BY <1>2, <1>3
  <1>8. \A c \in switchActions(Asking) :
           c \in Int /\ c >= 4 /\ ~trapped /\ c - 2 \in benched(Now, "p1")
    <2> SUFFICES ASSUME NEW c \in switchActions(Asking)
                 PROVE  c \in Int /\ c >= 4 /\ ~trapped /\ c - 2 \in benched(Now, "p1")
      OBVIOUS
    <2>1. ~trapped
      BY <1>5
    <2>2. PICK i \in benched(Now, "p1") : c = i + 2
      BY <1>5
    <2>3. c - 2 = i
      BY <1>7, <2>2
    <2> QED
      BY <1>7, <2>1, <2>2, <2>3
  <1>9. CASE phase = "turn"
    <2>1. moveActions(Asking) = 0..((IF trapped THEN 1 ELSE 4) - 1)
      BY <1>4, <1>9 DEF moveActions
    <2>2. /\ 0 \in Available
          /\ \A c \in Available :
                /\ c \in Int
                /\ c < 4 => c + 1 \in 1..(IF trapped THEN 1 ELSE 4)
                /\ c >= 4 => c \in switchActions(Asking)
      BY <1>6, <1>8, <2>1 DEF Available
    <2>3. \/ \E c \in Available : c < 4 /\ m = [room |-> room, cmd |-> "move", slot |-> c + 1]
          \/ \E c \in Available : c >= 4 /\ m = [room |-> room, cmd |-> "switch", slot |-> c - 2]
      BY <2>2 DEF moveMessages
    <2>4. ASSUME NEW c \in Available, c < 4, m = [room |-> room, cmd |-> "move", slot |-> c + 1]
          PROVE  Listed(m)
      <3>1. m.room = room /\ m.cmd = "move" /\ m.slot = c + 1
        BY <2>4
      <3> QED
        BY <1>9, <2>2, <2>4, <3>1 DEF Listed
    <2>5. ASSUME NEW c \in Available, c >= 4, m = [room |-> room, cmd |-> "switch", slot |-> c - 2]
          PROVE  Listed(m)
      <3>1. m.room = room /\ m.cmd = "switch" /\ m.slot = c - 2
        BY <2>5
      <3> QED
        BY <1>8, <1>9, <2>2, <2>5, <3>1 DEF Listed
    <2> QED
      BY <2>3, <2>4, <2>5
  <1>10. CASE phase # "turn"
    <2>1. phase = "force" /\ down(Now, "p1") /\ ~trapped
      BY <1>6, <1>10 DEF Awaits
    <2>2. ~beaten(Now, "p1")
      BY <1>1, <2>1 DEF Serves
    <2>3. PICK i \in benched(Now, "p1") : TRUE
      BY <1>2, <1>3, <2>1, <2>2
    <2>4. i + 2 \in switchActions(Asking) /\ Available = switchActions(Asking)
      BY <1>4, <1>5, <2>1, <2>3 DEF Available, moveActions
    <2>5. PICK c \in switchActions(Asking) :
             m = [room |-> room, cmd |-> "switch", slot |-> c - 2]
      BY <1>8, <2>4 DEF moveMessages
    <2> QED
      BY <1>8, <2>1, <2>5 DEF Listed
  <1> QED
    BY <1>9, <1>10

LEMMA ChoicesAreListed ==
    ASSUME BattleInv, ~outOfStep, NamesMet
    PROVE  ChoicesListed
  <1> SUFFICES ASSUME NEW i \in DOMAIN sent PROVE Listed(sent[i])
    BY DEF ChoicesListed
  <1>1. Serves /\ sent[i] \in moveMessages(room, Available)
    BY DEF BattleInv, InStep
  <1>2. sent # <<>>
    OBVIOUS
  <1>3. Awaits
    BY <1>2 DEF BattleInv, Pending
  <1> QED
    BY <1>1, <1>3, OffersAreListed

LEMMA ChoicesAreInformed ==
    ASSUME BattleInv, ~outOfStep, NamesMet
    PROVE  ChoicesInformed
  <1> SUFFICES ASSUME ~outOfStep, phase = "turn", sent # <<>> PROVE ChoicesInformed
    BY DEF ChoicesInformed
  <1>1. battleData[room].playerTeam = requestTeam(Asking)
    <2>1. Pending /\ InStep
      BY DEF BattleInv
    <2> QED
      BY <2>1, NothingElseAsked DEF InStep, Fits
  <1> DEFINE o == order["p1"]
             team == requestTeam(Asking)
  <1>2. o \in Seq(Pkmn) /\ DOMAIN o = 1..Len(o) /\ Len(o) \in Nat
    <2>1. o \in Seq(Pkmn)
      BY DEF BattleInv, Serves, PlayerIDs
    <2> QED
      BY <2>1
  <1>3. /\ DOMAIN Asking.side = DOMAIN o
        /\ \A i \in DOMAIN o : /\ Asking.side[i].name = o[i]
                               /\ Asking.side[i].hp = mon["p1"][o[i]].hp
                               /\ Asking.side[i].fnt = (mon["p1"][o[i]].hp = 0)
                               /\ Asking.side[i].active = (i = 1)
    BY DEF Asking, SideOf, Now
  <1>4. DOMAIN team = DOMAIN o /\ Len(team) = Len(o)
    BY <1>2, <1>3 DEF requestTeam
  <1>5. ASSUME NEW i \in DOMAIN o
        PROVE  /\ team[i].name = o[i]
               /\ team[i].hp = mon["p1"][o[i]].hp
               /\ team[i].fainted = (mon["p1"][o[i]].hp = 0)
               /\ team[i].active = (i = 1)
    <2> DEFINE x == Asking.side[i]
    <2>1. team[i] = [initPokemonFromName(x.name) EXCEPT
                        !.moves = x.moves, !.hp = x.hp, !.fainted = x.fnt,
                        !.active = x.active, !.trapped = x.active /\ Asking.trapped]
      BY <1>3 DEF requestTeam
    <2>2. /\ x.name = o[i] /\ x.hp = mon["p1"][o[i]].hp /\ x.fnt = (mon["p1"][o[i]].hp = 0)
          /\ x.active = (i = 1)
      BY <1>3
    <2> HIDE DEF x, team
    <2>3. /\ team[i].name = x.name /\ team[i].hp = x.hp /\ team[i].fainted = x.fnt
          /\ team[i].active = x.active
      BY <2>1 DEF initPokemonFromName
    <2> HIDE DEF o
    <2> QED
      BY <2>2, <2>3
  <1> HIDE DEF team
  <1>6. \A i \in DOMAIN team :
           /\ team[i].name = order["p1"][i]
           /\ team[i].hp = mon["p1"][team[i].name].hp
           /\ team[i].fainted = (team[i].hp = 0)
           /\ team[i].active = (i = 1)
    <2> SUFFICES ASSUME NEW i \in DOMAIN team
                 PROVE  /\ team[i].name = order["p1"][i]
                        /\ team[i].hp = mon["p1"][team[i].name].hp
                        /\ team[i].fainted = (team[i].hp = 0)
                        /\ team[i].active = (i = 1)
      OBVIOUS
    <2>1. /\ team[i].name = o[i]
          /\ team[i].hp = mon["p1"][o[i]].hp
          /\ team[i].fainted = (mon["p1"][o[i]].hp = 0)
          /\ team[i].active = (i = 1)
      BY <1>4, <1>5
    <2> QED
      BY <2>1
  <1> QED
    BY <1>1, <1>4, <1>6 DEF ChoicesInformed, team

LEMMA OppIsKnown ==
    ASSUME BattleInv, ~outOfStep
    PROVE  OppKnowledge
  <1> SUFFICES ASSUME phase # "lobby", toBot = <<>>, lines = <<>>, NamesMet
               PROVE  OppKnowledge
    BY DEF OppKnowledge
  <1> DEFINE team == battleData[room].oppTeam
             told == mon["p2"]
  <1>1. Shows(Target)
    BY LeadsNowhere, ChainNowhere DEF BattleInv, InStep
  <1>2. /\ Target.pid = "p1" /\ DOMAIN Target.seen = shown
        /\ \A n \in shown : Target.seen[n] = NoteOn(told[n])
    BY DEF Target, View
  <1>3. /\ shown = {team[i].name : i \in DOMAIN team}
        /\ \A i \in DOMAIN team :
              /\ team[i].active = TRUE /\ team[i].status \subseteq {"par"}
              /\ Target.seen[team[i].name] =
                    Note(team[i].hp, team[i].fainted, "par" \in team[i].status)
    BY <1>1, <1>2 DEF Shows, Knows
  <1>4. /\ shown \subseteq Pkmn
        /\ \A n \in Pkmn : told[n].par \in BOOLEAN
    BY DEF BattleInv, Serves, Mons, PlayerIDs
  <1>5. QED
    <2> HIDE DEF team, told
    <2>1. ASSUME NEW i \in DOMAIN team
          PROVE  LET actual == told[team[i].name] IN
                 /\ team[i].hp = actual.hp
                 /\ team[i].fainted = (actual.hp = 0)
                 /\ team[i].active
                 /\ team[i].status = IF actual.par THEN {"par"} ELSE {}
      <3> DEFINE actual == told[team[i].name]
      <3>1. team[i].name \in shown /\ actual.par \in BOOLEAN
        BY <1>3, <1>4
      <3>2. NoteOn(actual) = Note(team[i].hp, team[i].fainted, "par" \in team[i].status)
        BY <1>2, <1>3, <3>1
      <3>3. /\ team[i].hp = actual.hp /\ team[i].fainted = (actual.hp = 0)
            /\ actual.par = ("par" \in team[i].status)
        <4> HIDE DEF actual
        <4> QED
          BY <3>2 DEF NoteOn, Note
      <3>4. team[i].status = IF actual.par THEN {"par"} ELSE {}
        <4> HIDE DEF actual
        <4>1. team[i].status \subseteq {"par"}
          BY <1>3
        <4> QED
          BY <3>3, <4>1
      <3> QED
        BY <1>3, <3>3, <3>4
    <2> QED
      BY <1>3, <2>1 DEF OppKnowledge, team, told

(* As long as the stream is read in step and no strange name is told, every  *)
(* choice on its way answers the request the server waits on and is one it   *)
(* lists, although it is made of actions collected on an earlier frame       *)
(* (PSUser.hpp:262 and :449).                                                *)
THEOREM AlwaysChoosesListed == BattleSpec => [](NamesMet => ChoicesListed)
  <1>1. BattleInv => (NamesMet => ChoicesListed)
    BY ChoicesAreListed DEF ChoicesListed
  <1> QED
    BY <1>1, AlwaysInStep, PTL

(* Under the same conditions the bot chooses its turn's action with the team *)
(* the server plays with (PSUser.hpp:446).                                   *)
THEOREM AlwaysChoosesInformed == BattleSpec => [](NamesMet => ChoicesInformed)
  <1>1. BattleInv => (NamesMet => ChoicesInformed)
    BY ChoicesAreInformed DEF ChoicesInformed
  <1> QED
    BY <1>1, AlwaysInStep, PTL

(* As long as the stream is read in step, a bot that has handled everything  *)
(* sent, with no strange name in it, knows of the opponent exactly what the  *)
(* server has shown (PSUser.hpp:326-423).                                    *)
THEOREM OpponentAlwaysKnown == BattleSpec => []OppKnowledge
  <1>1. BattleInv => OppKnowledge
    BY OppIsKnown DEF OppKnowledge
  <1> QED
    BY <1>1, AlwaysInStep, PTL

(* As long as the stream is read in step, only a name the data lack brings   *)
(* the bot down: no line names an opposing Pokemon it has not been told of,  *)
(* so the unchecked pointers of PSUser.hpp:386, :397 and :409 are never null.*)
THEOREM NeverBroughtDown == BattleSpec => []NeverCrashes
  <1>1. BattleInv => NeverCrashes
    BY DEF BattleInv, InStep, NeverCrashes
  <1> QED
    BY <1>1, AlwaysInStep, PTL

(* Where no frame is too long for the buffer (PSConnection.hpp:46) and no    *)
(* Pokemon has a nickname or a move the data lack, it all holds without a    *)
(* condition, and the bot does not crash.                                    *)
THEOREM AllWellInStep ==
    ASSUME ~LongFrames, Pkmn = KnownPkmn, Moves = KnownMoves
    PROVE  BattleSpec => [](/\ ChoicesListed /\ ChoicesInformed
                            /\ OppKnowledge /\ ~crashed)
  <1>1. BattleInit => ~outOfStep
    BY DEF BattleInit
  <1>2. ~outOfStep /\ [BattleNext]_allvars => ~outOfStep'
    BY DEF BattleNext, Start, PlayTurn, Replace, Refuse, OpponentLeaves, Deliver, FrameTooLong,
           ReadGarbage, HandleLine, Done, allvars
  <1>3. BattleSpec => []~outOfStep
    BY <1>1, <1>2, PTL DEF BattleSpec
  <1>4. BattleInv => NamesMet
    <2> SUFFICES ASSUME BattleInv, NEW n \in Met
                 PROVE  n \in KnownPkmn /\ MoveOf[n] \in KnownMoves
      BY DEF NamesMet
    <2>1. shown \subseteq Pkmn
      BY DEF BattleInv, Serves
    <2>2. Sides["p1"] \in Seq(Pkmn)
      BY BattleAssumption DEF PlayerIDs
    <2>3. \A i \in DOMAIN Sides["p1"] : Sides["p1"][i] \in Pkmn
      BY <2>2
    <2> QED
      BY <2>1, <2>3, BattleAssumption DEF Met
  <1>5. ~outOfStep /\ NamesMet /\ NeverCrashes => ~crashed
    BY DEF NeverCrashes
  <1> QED
    BY <1>3, <1>4, <1>5, AlwaysInStep, AlwaysChoosesListed, AlwaysChoosesInformed,
       OpponentAlwaysKnown, NeverBroughtDown, PTL
=============================================================================
