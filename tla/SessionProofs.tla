---------------------------- MODULE SessionProofs ----------------------------
(* Proofs that the invariants of Session hold for every set of challengers,  *)
(* whatever formats they ask for and however often.                          *)
EXTENDS Session, TLAPS

-----------------------------------------------------------------------------
(* Sequences *)

(* The parts of a sequence that is not empty, and where they come from.      *)
LEMMA HeadTail ==
    ASSUME NEW S, NEW s \in Seq(S), s # <<>>
    PROVE  /\ Head(s) \in S /\ Head(s) = s[1] /\ 1 \in DOMAIN s
           /\ Tail(s) \in Seq(S)
           /\ Len(s) \in Nat /\ DOMAIN s = 1..Len(s)
           /\ DOMAIN Tail(s) = 1..(Len(s) - 1)
           /\ \A j \in DOMAIN Tail(s) : Tail(s)[j] = s[j + 1]
  OBVIOUS

(* What Append adds and what it leaves alone.                                *)
LEMMA AppendFacts ==
    ASSUME NEW S, NEW s \in Seq(S), NEW x \in S
    PROVE  /\ Append(s, x) \in Seq(S)
           /\ Len(s) \in Nat
           /\ DOMAIN s = 1..Len(s)
           /\ DOMAIN Append(s, x) = 1..(Len(s) + 1)
           /\ \A j \in DOMAIN s : Append(s, x)[j] = s[j]
           /\ Append(s, x)[Len(s) + 1] = x
  OBVIOUS

(* Sequences of at most two entries.                                         *)
LEMMA ShortSeq ==
    ASSUME NEW S
    PROVE  /\ <<>> \in Seq(S)
           /\ \A x \in S : <<x>> \in Seq(S)
           /\ \A x, y \in S : <<x, y>> \in Seq(S)
  OBVIOUS

(* An entry of a concatenation is one of either part.                        *)
LEMMA ConcatFacts ==
    ASSUME NEW S, NEW s \in Seq(S), NEW t \in Seq(S)
    PROVE  /\ s \o t \in Seq(S)
           /\ Len(s) \in Nat /\ Len(t) \in Nat
           /\ DOMAIN s = 1..Len(s) /\ DOMAIN t = 1..Len(t)
           /\ DOMAIN (s \o t) = 1..(Len(s) + Len(t))
           /\ \A j \in DOMAIN s : (s \o t)[j] = s[j]
           /\ \A j \in DOMAIN t : (s \o t)[Len(s) + j] = t[j]
  OBVIOUS

(* An entry of three parts joined is one of a part.                          *)
LEMMA ConcatThree ==
    ASSUME NEW S, NEW s \in Seq(S), NEW a \in S, NEW t \in Seq(S)
    PROVE  /\ s \o <<a>> \o t \in Seq(S)
           /\ Len(s) \in Nat /\ Len(t) \in Nat
           /\ DOMAIN s = 1..Len(s) /\ DOMAIN t = 1..Len(t)
           /\ DOMAIN (s \o <<a>> \o t) = 1..(Len(s) + 1 + Len(t))
           /\ \A j \in DOMAIN s : (s \o <<a>> \o t)[j] = s[j]
           /\ (s \o <<a>> \o t)[Len(s) + 1] = a
           /\ \A j \in DOMAIN t : (s \o <<a>> \o t)[Len(s) + 1 + j] = t[j]
  OBVIOUS

-----------------------------------------------------------------------------
(* Types *)

(* An assertion is only given for the bot's own name, and what is on its way *)
(* to the server with one carries that name.                                 *)
ValidNamed ==
    /\ response = "valid" =>
          loginName = BotName /\ main \in {"trn", "autojoin", "idle", "dead"}
    /\ \A j \in DOMAIN toServer :
          toServer[j].cmd = "trn" /\ toServer[j].assertion = "valid" =>
              toServer[j].name = BotName

(* accept_challenge sends well-typed messages.                               *)
LEMMA AcceptType ==
    ASSUME NEW u \in Challengers
    PROVE  accept_challenge(u) \in Seq(Ops)
  <1>1. SendOp([cmd |-> "utm"]) \in Ops /\ SendOp([cmd |-> "accept", user |-> u]) \in Ops
    BY DEF Ops, SendOp, Replies
  <1> QED
    BY <1>1, ShortSeq DEF accept_challenge

(* What there is to do for a frame is well typed.                            *)
LEMMA HandleType ==
    ASSUME NEW f \in Frames
    PROVE  handle_message(f) \in Seq(Ops)
  <1>1. f.type = "updateuser" => Store("username", f.name) \in Ops
    BY DEF Frames, Ops, Store
  <1>2. Store("chall_str", "whole") \in Ops /\ Store("chall_id", "whole") \in Ops
    BY DEF Ops, Store
  <1>3. f.type = "updatechallenges" => AcceptFrom(f.from) \in Ops
    BY DEF Frames, Ops, AcceptFrom
  <1> QED
    BY <1>1, <1>2, <1>3, ShortSeq
       DEF handle_message, UpdateUser, Challstr, UpdateChallenges

(* The bound on challenges is a number.                                      *)
LEMMA BoundIsNat == MaxChallenges \in Nat
  BY SessionAssumption

(* The types of the variables that hold sequences or records.               *)
LEMMA Types ==
    ASSUME TypeOK
    PROVE  /\ todo \in Seq(Ops) /\ frame \in Frames
           /\ toBot \in Seq(Frames) /\ toServer \in Seq(Message)
           /\ data \in Contents /\ loginName \in Names
           /\ response \in {"", "valid", "invalid"}
  BY DEF TypeOK

(* What a step that sends no message and leaves main alone keeps.            *)
LEMMA SameNamed ==
    ASSUME ValidNamed, UNCHANGED <<mainVars, toServer>>
    PROVE  ValidNamed'
  BY DEF ValidNamed, mainVars

(* The message of a step of main that sends.                                 *)
LEMMA SendType ==
    ASSUME TypeOK, NEW m \in Message, NEW next, send(m, next)
    PROVE  /\ toServer' \in Seq(Message)
           /\ main' \in {next, "dead"}
           /\ \A j \in DOMAIN toServer' :
                 toServer'[j] = m \/ (j \in DOMAIN toServer /\ toServer'[j] = toServer[j])
  <1>1. toServer \in Seq(Message)
    BY Types
  <1>2. (toServer' = Append(toServer, m) \/ toServer' = toServer) /\ main' \in {next, "dead"}
    BY DEF send
  <1>3. /\ Append(toServer, m) \in Seq(Message)
        /\ \A j \in DOMAIN Append(toServer, m) :
              \/ Append(toServer, m)[j] = m
              \/ (j \in DOMAIN toServer /\ Append(toServer, m)[j] = toServer[j])
    BY <1>1
  <1> QED
    BY <1>1, <1>2, <1>3

(* Steps of the main thread keep the types.                                  *)
LEMMA MainTypes ==
    ASSUME TypeOK, ValidNamed, Main
    PROVE  TypeOK' /\ ValidNamed'
  <1>1. CASE Connect
    <2>1. /\ [type |-> "updateuser", name |-> GuestName] \in Frames
          /\ [type |-> "challstr"] \in Frames
      BY DEF Frames
    <2>2. toBot' = toBot \/ \E f, g \in Frames : toBot' = <<f, g>>
      BY <1>1, <2>1 DEF Connect
    <2>3. toBot' \in Seq(Frames)
      BY <2>2, ShortSeq, Types
    <2> QED
      BY <1>1, <2>3, ZenonT(40) DEF Connect, serverVars, TypeOK, ValidNamed, MainSteps
  <1>2. CASE ConnectReturn
    BY <1>2 DEF ConnectReturn, receiverVars, serverVars, TypeOK, ValidNamed, MainSteps
  <1>3. CASE Login
    <2>1. loginName' \in Names
      BY <1>3, Types DEF Login, Contents
    <2>2. response # "valid"
      BY <1>3 DEF Login, ValidNamed
    <2>3. ValidNamed'
      BY <1>3, <2>2 DEF Login, ValidNamed
    <2>4. /\ main' \in MainSteps
          /\ UNCHANGED <<asked, response, receiverVars, serverVars, mutex, ws, toBot, toServer>>
      BY <1>3 DEF Login, MainSteps
    <2>5. TypeOK'
      BY <2>1, <2>4, ZenonT(30) DEF receiverVars, serverVars, TypeOK
    <2> QED
      BY <2>3, <2>5
  <1>4. CASE Wait
    <2>1. main = "wait"
      BY <1>4 DEF Wait
    <2>2. main' \in MainSteps
      BY <1>4 DEF Wait, MainSteps
    <2>3. UNCHANGED <<loginName, asked, response, receiverVars, serverVars, mutex, ws,
                      toBot, toServer>>
      BY <1>4 DEF Wait
    <2>4. ValidNamed'
      BY <2>1, <2>3 DEF ValidNamed
    <2>5. TypeOK'
      BY <2>3, <2>2, ZenonT(30) DEF receiverVars, serverVars, TypeOK
    <2> QED
      BY <2>4, <2>5
  <1>5. CASE Request
    <2>1. asked' \in [id : {"", "torn", "whole"}, str : {"", "torn", "whole"}]
      BY <1>5, Types DEF Request, Contents
    <2>2. main = "request"
      BY <1>5 DEF Request
    <2>3. main' \in MainSteps
      BY <1>5 DEF Request, MainSteps
    <2>4. UNCHANGED <<loginName, response, receiverVars, serverVars, mutex, ws, toBot,
                      toServer>>
      BY <1>5 DEF Request
    <2>5. ValidNamed'
      BY <2>2, <2>4 DEF ValidNamed
    <2>6. TypeOK'
      BY <2>1, <2>4, <2>3, ZenonT(30) DEF receiverVars, serverVars, TypeOK
    <2> QED
      BY <2>5, <2>6
  <1>6. CASE Receive
    <2>1. response' \in {"", "valid", "invalid"}
      BY <1>6 DEF Receive
    <2>2. response' = "valid" => loginName = BotName
      BY <1>6 DEF Receive
    <2>3. main' = "trn" /\ main' \in MainSteps
      BY <1>6 DEF Receive, MainSteps
    <2>4. UNCHANGED <<loginName, asked, receiverVars, serverVars, mutex, ws, toBot, toServer>>
      BY <1>6 DEF Receive
    <2>5. ValidNamed'
      BY <2>2, <2>3, <2>4 DEF ValidNamed
    <2>6. TypeOK'
      BY <2>1, <2>3, <2>4, ZenonT(30) DEF receiverVars, serverVars, TypeOK
    <2> QED
      BY <2>5, <2>6
  <1>7. CASE Trn
    <2> DEFINE m == [cmd |-> "trn", name |-> loginName, assertion |-> response]
    <2>1. m \in Message
      BY Types DEF Message
    <2>2. m.assertion = "valid" => m.name = BotName
      BY DEF ValidNamed
    <2>3. send(m, "autojoin")
      BY <1>7 DEF Trn
    <2> HIDE DEF m
    <2>4. /\ toServer' \in Seq(Message) /\ main' \in {"autojoin", "dead"}
          /\ \A j \in DOMAIN toServer' :
                toServer'[j] = m \/ (j \in DOMAIN toServer /\ toServer'[j] = toServer[j])
      BY <2>1, <2>3, SendType
    <2>5. ValidNamed'
      BY <1>7, <2>2, <2>4 DEF Trn, ValidNamed
    <2>6. toServer' \in Seq(Message) /\ main' \in MainSteps
      BY <2>4 DEF MainSteps
    <2>7. UNCHANGED <<loginName, asked, response, receiverVars, serverVars, mutex, ws, toBot>>
      BY <1>7 DEF Trn
    <2>8. TypeOK'
      BY <2>6, <2>7, ZenonT(30) DEF receiverVars, serverVars, TypeOK
    <2> QED
      BY <2>5, <2>8
  <1>8. CASE Autojoin
    <2> DEFINE m == [cmd |-> "autojoin"]
    <2>1. m \in Message /\ m.cmd # "trn"
      BY DEF Message
    <2>2. send(m, "idle")
      BY <1>8 DEF Autojoin
    <2> HIDE DEF m
    <2>3. /\ toServer' \in Seq(Message) /\ main' \in {"idle", "dead"}
          /\ \A j \in DOMAIN toServer' :
                toServer'[j] = m \/ (j \in DOMAIN toServer /\ toServer'[j] = toServer[j])
      BY <2>1, <2>2, SendType
    <2>4. ValidNamed'
      BY <1>8, <2>1, <2>3 DEF Autojoin, ValidNamed
    <2>5. toServer' \in Seq(Message) /\ main' \in MainSteps
      BY <2>3 DEF MainSteps
    <2>6. UNCHANGED <<loginName, asked, response, receiverVars, serverVars, mutex, ws, toBot>>
      BY <1>8 DEF Autojoin
    <2>7. TypeOK'
      BY <2>5, <2>6, ZenonT(30) DEF receiverVars, serverVars, TypeOK
    <2> QED
      BY <2>4, <2>7
  <1> QED
    BY <1>1, <1>2, <1>3, <1>4, <1>5, <1>6, <1>7, <1>8 DEF Main

(* Steps of the receive thread keep the types.                               *)
LEMMA ReceiverTypes ==
    ASSUME TypeOK, ValidNamed, Receiver
    PROVE  TypeOK' /\ ValidNamed'
  <1>1. CASE ReceiveFrame
    <2>1. Head(toBot) \in Frames /\ Tail(toBot) \in Seq(Frames)
      BY <1>1, HeadTail, Types DEF ReceiveFrame
    <2>2. ValidNamed'
      BY <1>1, SameNamed DEF ReceiveFrame
    <2>3. TypeOK'
      BY <1>1, <2>1, ZenonT(40) DEF ReceiveFrame, mainVars, serverVars, TypeOK
    <2> QED
      BY <2>2, <2>3
  <1>2. CASE Handle
    <2>1. handle_message(frame) \in Seq(Ops)
      BY HandleType, Types
    <2>2. ValidNamed'
      BY <1>2, SameNamed DEF Handle
    <2>3. TypeOK'
      BY <1>2, <2>1, ZenonT(40) DEF Handle, mainVars, serverVars, TypeOK
    <2> QED
      BY <2>2, <2>3
  <1>3. CASE DoStore
    <2> DEFINE o == Head(todo)
    <2>1. o \in Ops /\ Tail(todo) \in Seq(Ops) /\ o.op = "store"
      BY <1>3, HeadTail, Types DEF DoStore
    <2>2. /\ [data EXCEPT ![o.string] = "torn"] \in Contents
          /\ [data EXCEPT ![o.string] = o.value] \in Contents
      BY <2>1, Types DEF Ops, Contents, Names
    <2>3. ValidNamed'
      BY <1>3, SameNamed DEF DoStore
    <2>4. data' \in Contents /\ todo' \in Seq(Ops)
      BY <1>3, <2>1, <2>2, Types DEF DoStore
    <2>5. TypeOK'
      BY <1>3, <2>4 DEF DoStore, mainVars, serverVars, TypeOK
    <2> QED
      BY <2>3, <2>5
  <1>4. CASE DoSend
    <2> DEFINE m == Head(todo).msg
    <2>1. Head(todo) \in Ops /\ Tail(todo) \in Seq(Ops) /\ Head(todo).op = "send"
      BY <1>4, HeadTail, Types DEF DoSend
    <2>2. m \in Message /\ m.cmd # "trn"
      BY <2>1 DEF Ops, Replies, Message
    <2>3. toServer' = Append(toServer, m) \/ toServer' = toServer
      BY <1>4 DEF DoSend
    <2> HIDE DEF m
    <2>4. toServer' \in Seq(Message)
      <3>1. toServer \in Seq(Message)
        BY Types
      <3> QED
        BY <2>2, <2>3, <3>1
    <2>5. \A j \in DOMAIN toServer' :
             toServer'[j] = m \/ (j \in DOMAIN toServer /\ toServer'[j] = toServer[j])
      <3>1. toServer \in Seq(Message)
        BY Types
      <3> QED
        BY <2>2, <2>3, <3>1
    <2>6. ValidNamed'
      BY <1>4, <2>2, <2>5 DEF DoSend, mainVars, ValidNamed
    <2>7. todo' \in Seq(Ops)
      BY <1>4, <2>1, ShortSeq DEF DoSend
    <2>8. TypeOK'
      BY <1>4, <2>4, <2>7 DEF DoSend, mainVars, serverVars, TypeOK
    <2> QED
      BY <2>6, <2>8
  <1>5. CASE DoAccept
    <2>1. Head(todo) \in Ops /\ Tail(todo) \in Seq(Ops) /\ Head(todo).op = "accept"
      BY <1>5, HeadTail, Types DEF DoAccept
    <2>2. todo' \in Seq(Ops)
      <3>1. CASE todo' = Tail(todo)
        BY <2>1, <3>1
      <3>2. ASSUME NEW u \in Head(todo).from, NEW s,
                   s = (IF Format[u] \in AcceptedFormats THEN accept_challenge(u) ELSE <<>>),
                   todo' = s \o <<AcceptFrom(Head(todo).from \ {u})>> \o Tail(todo)
            PROVE  todo' \in Seq(Ops)
        <4>1. u \in Challengers /\ AcceptFrom(Head(todo).from \ {u}) \in Ops
          BY <2>1 DEF Ops, AcceptFrom
        <4>2. s \in Seq(Ops)
          BY <3>2, <4>1, AcceptType, ShortSeq
        <4>3. <<AcceptFrom(Head(todo).from \ {u})>> \in Seq(Ops)
          BY <4>1, ShortSeq
        <4> QED
          BY <2>1, <3>2, <4>2, <4>3, ConcatFacts
      <3> QED
        BY <1>5, <3>1, <3>2 DEF DoAccept
    <2>3. ValidNamed'
      BY <1>5, SameNamed DEF DoAccept
    <2>4. TypeOK'
      BY <1>5, <2>2, ZenonT(40) DEF DoAccept, mainVars, serverVars, TypeOK
    <2> QED
      BY <2>3, <2>4
  <1>6. CASE Done
    <2>1. NoFrame \in Frames
      BY DEF NoFrame, Frames
    <2>2. ValidNamed'
      BY <1>6, SameNamed DEF Done
    <2>3. TypeOK'
      BY <1>6, <2>1, ZenonT(40) DEF Done, mainVars, serverVars, TypeOK
    <2> QED
      BY <2>2, <2>3
  <1> QED
    BY <1>1, <1>2, <1>3, <1>4, <1>5, <1>6 DEF Receiver

(* Steps of the server and of the connection keep the types.                 *)
LEMMA ServerTypes ==
    ASSUME TypeOK, ValidNamed,
           Serve \/ Close \/ \E u \in Challengers : Challenge(u) \/ Withdraw(u)
    PROVE  TypeOK' /\ ValidNamed'
  <1>1. \A S \in SUBSET Challengers : Challenges(S) \in Frames
    BY DEF Challenges, Frames
  <1>2. CASE Serve
    <2> DEFINE m == Head(toServer)
    <2>1. /\ m \in Message /\ m = toServer[1] /\ 1 \in DOMAIN toServer
          /\ Tail(toServer) \in Seq(Message)
          /\ \A j \in DOMAIN Tail(toServer) :
                j + 1 \in DOMAIN toServer /\ Tail(toServer)[j] = toServer[j + 1]
      <3>1. toServer \in Seq(Message) /\ toServer # <<>>
        BY <1>2, Types DEF Serve
      <3> QED
        BY <3>1, HeadTail
    <2>2. m.cmd = "trn" /\ m.assertion = "valid" => m.name = BotName
      BY <2>1 DEF ValidNamed
    <2>3. ValidNamed'
      BY <1>2, <2>1 DEF Serve, ValidNamed, mainVars
    <2>4. serverName' \in {BotName, GuestName} /\ team' \in BOOLEAN
      BY <1>2, <2>2 DEF Serve, TypeOK
    <2>5. pending' \in SUBSET Challengers
      BY <1>2 DEF Serve, TypeOK
    <2>6. toBot' = toBot \/ \E f \in Frames : toBot' = Append(toBot, f)
      <3>1. m.cmd = "trn" /\ m.assertion = "valid" =>
               [type |-> "updateuser", name |-> m.name] \in Frames
        BY <2>2 DEF Frames
      <3>2. Challenges(pending') \in Frames
        BY <1>1, <2>5
      <3> QED
        BY <1>2, <3>1, <3>2 DEF Serve
    <2>7. toBot' \in Seq(Frames)
      <3>1. toBot \in Seq(Frames)
        BY Types
      <3> QED
        BY <2>6, <3>1
    <2>8. toServer' \in Seq(Message)
      BY <1>2, <2>1 DEF Serve
    <2>9. TypeOK'
      BY <1>2, <2>4, <2>5, <2>7, <2>8 DEF Serve, mainVars, receiverVars, TypeOK
    <2> QED
      BY <2>3, <2>9
  <1>3. CASE Close
    <2>1. toBot' \in Seq(Frames) /\ toServer' \in Seq(Message)
      BY <1>3, Types, ShortSeq DEF Close
    <2>2. ValidNamed'
      <3>1. DOMAIN toServer' = {}
        BY <1>3 DEF Close
      <3> QED
        BY <1>3, <3>1 DEF Close, ValidNamed, mainVars
    <2>3. TypeOK'
      BY <1>3, <2>1, ZenonT(40) DEF Close, mainVars, receiverVars, serverVars, TypeOK
    <2> QED
      BY <2>2, <2>3
  <1>4. ASSUME NEW u \in Challengers, Challenge(u)
        PROVE  TypeOK' /\ ValidNamed'
    <2>1. pending' \in SUBSET Challengers
      BY <1>4 DEF Challenge, TypeOK
    <2>2. toBot' \in Seq(Frames)
      BY <1>1, <1>4, <2>1, Types, AppendFacts DEF Challenge
    <2>3. made' \in [Challengers -> 0..MaxChallenges]
      <3>1. /\ made \in [Challengers -> 0..MaxChallenges] /\ made[u] < MaxChallenges
            /\ made' = [made EXCEPT ![u] = @ + 1]
        BY <1>4 DEF Challenge, TypeOK
      <3> QED
        BY <3>1, BoundIsNat
    <2>4. ValidNamed'
      BY <1>4, SameNamed DEF Challenge
    <2>5. TypeOK'
      BY <1>4, <2>1, <2>2, <2>3 DEF Challenge, mainVars, receiverVars, TypeOK
    <2> QED
      BY <2>4, <2>5
  <1>5. ASSUME NEW u \in Challengers, Withdraw(u)
        PROVE  TypeOK' /\ ValidNamed'
    <2>1. pending' \in SUBSET Challengers
      BY <1>5 DEF Withdraw, TypeOK
    <2>2. toBot' \in Seq(Frames)
      BY <1>1, <1>5, <2>1, Types, AppendFacts DEF Withdraw
    <2>3. ValidNamed'
      BY <1>5, SameNamed DEF Withdraw
    <2>4. TypeOK'
      BY <1>5, <2>1, <2>2, ZenonT(40) DEF Withdraw, mainVars, receiverVars, TypeOK
    <2> QED
      BY <2>3, <2>4
  <1> QED
    BY <1>2, <1>3, <1>4, <1>5

(* The types and what is named with a valid assertion, together inductive.   *)
LEMMA TypesAndNames == Spec => [](TypeOK /\ ValidNamed)
  <1>1. Init => TypeOK /\ ValidNamed
    <2> SUFFICES ASSUME Init PROVE TypeOK /\ ValidNamed
      OBVIOUS
    <2>1. /\ data \in Contents /\ frame \in Frames
          /\ asked \in [id : {"", "torn", "whole"}, str : {"", "torn", "whole"}]
      BY DEF Init, Contents, Names, NoFrame, Frames
    <2>2. todo \in Seq(Ops) /\ toBot \in Seq(Frames) /\ toServer \in Seq(Message)
      BY ShortSeq DEF Init
    <2>3. made \in [Challengers -> 0..MaxChallenges]
      <3>1. 0 \in 0..MaxChallenges
        BY BoundIsNat
      <3> QED
        BY <3>1 DEF Init
    <2>4. DOMAIN <<>> = {}
      OBVIOUS
    <2>5. ValidNamed
      BY <2>4 DEF Init, ValidNamed
    <2>6. /\ main \in MainSteps /\ receiver \in {"none", "read", "handle", "do"}
          /\ mutex \in {"free", "main", "receiver"} /\ ws \in {"null", "open", "closed"}
      BY DEF Init, MainSteps
    <2>7. /\ loginName \in Names /\ response \in {"", "valid", "invalid"}
          /\ serverName \in {BotName, GuestName} /\ team \in BOOLEAN
          /\ pending \in SUBSET Challengers
      BY DEF Init, Names
    <2> QED
      BY <2>1, <2>2, <2>3, <2>5, <2>6, <2>7, Zenon DEF TypeOK
  <1>2. (TypeOK /\ ValidNamed) /\ [Next]_vars => (TypeOK /\ ValidNamed)'
    <2> SUFFICES ASSUME TypeOK, ValidNamed, [Next]_vars
                 PROVE  TypeOK' /\ ValidNamed'
      OBVIOUS
    <2>1. CASE UNCHANGED vars
      <3> USE DEF mainVars, receiverVars, serverVars
      <3>1. TypeOK'
        <4>1. /\ UNCHANGED <<main, receiver, mutex, ws, data, loginName, asked, response>>
              /\ UNCHANGED <<frame, todo, toBot, toServer, serverName, team, pending, made>>
          BY <2>1 DEF vars
        <4> QED
          BY <4>1, ZenonT(60) DEF TypeOK
      <3>2. ValidNamed'
        BY <2>1, SameNamed DEF vars
      <3> QED
        BY <3>1, <3>2
    <2> QED
      BY <2>1, MainTypes, ReceiverTypes, ServerTypes DEF Next
  <1> QED
    BY <1>1, <1>2, PTL DEF Spec

(* Every variable keeps to its type (Session!TypeOK), for any challengers.   *)
THEOREM TypeCorrect == Spec => []TypeOK
  BY TypesAndNames, PTL

-----------------------------------------------------------------------------
(* The connection *)

(* What is true at the start.                                                *)
LEMMA InitialFacts ==
    ASSUME Init
    PROVE  /\ main = "connect" /\ receiver = "none" /\ ws = "null"
           /\ toBot = <<>> /\ todo = <<>> /\ toServer = <<>>
           /\ serverName = GuestName
           /\ data.chall_id = "" /\ data.chall_str = ""
  <1>1. data = [username |-> BotName, chall_str |-> "", chall_id |-> ""]
    BY DEF Init
  <1>2. data.chall_id = "" /\ data.chall_str = ""
    BY <1>1
  <1> QED
    BY <1>2 DEF Init

(* Before the connection, and for ever when it fails, nothing has been read, *)
(* stored or sent, and main is at the wait for credentials at most.          *)
Connected ==
    /\ ws = "null" <=> receiver = "none"
    /\ ws = "null" => /\ toBot = <<>> /\ todo = <<>>
                      /\ serverName = GuestName
                      /\ data.chall_id = ""
                      /\ main \in {"connect", "connected", "login", "wait", "spin"}
    /\ ws # "open" => toServer = <<>>
    /\ main = "connect" => ws = "null"

(* Steps of main keep Connected.                                             *)
LEMMA MainConnected ==
    ASSUME TypeOK, Connected, Main
    PROVE  Connected'
  <1> USE DEF Connected
  <1>1. CASE Connect
    BY <1>1 DEF Connect, serverVars
  <1>2. CASE ConnectReturn
    BY <1>2 DEF ConnectReturn, receiverVars, serverVars
  <1>3. CASE Login
    BY <1>3 DEF Login, receiverVars, serverVars
  <1>4. CASE Wait
    BY <1>4 DEF Wait, HasCredentials, receiverVars, serverVars
  <1>5. CASE Request
    BY <1>5 DEF Request, receiverVars, serverVars
  <1>6. CASE Receive
    BY <1>6 DEF Receive, receiverVars, serverVars
  <1>7. CASE Trn
    BY <1>7 DEF Trn, send, receiverVars, serverVars
  <1>8. CASE Autojoin
    BY <1>8 DEF Autojoin, send, receiverVars, serverVars
  <1> QED
    BY <1>1, <1>2, <1>3, <1>4, <1>5, <1>6, <1>7, <1>8 DEF Main

(* So do the steps of the others, which wait for a connection.               *)
LEMMA OtherConnected ==
    ASSUME TypeOK, Connected,
           \/ Receiver \/ Serve \/ Close
           \/ \E u \in Challengers : Challenge(u) \/ Withdraw(u)
    PROVE  Connected'
  <1> USE DEF Connected, mainVars
  <1>1. CASE Receiver
    <2>1. ws # "null" /\ receiver' # "none" /\ main' = main /\ ws' = ws
      BY <1>1 DEF Receiver, ReceiveFrame, Handle, DoStore, DoSend, DoAccept, Done
    <2>2. ws # "open" => toServer' = toServer
      BY <1>1 DEF Receiver, ReceiveFrame, Handle, DoStore, DoSend, DoAccept, Done
    <2> QED
      BY <2>1, <2>2
  <1>2. CASE Serve
    <2>1. ws = "open" /\ ws' = ws /\ main' = main /\ receiver' = receiver
      BY <1>2 DEF Serve, receiverVars
    <2> QED
      BY <2>1
  <1>3. CASE Close
    BY <1>3 DEF Close, receiverVars, serverVars
  <1>4. ASSUME NEW u \in Challengers, Challenge(u) \/ Withdraw(u)
        PROVE  Connected'
    <2>1. ws = "open" /\ ws' = ws /\ main' = main /\ receiver' = receiver
      BY <1>4 DEF Challenge, Withdraw, receiverVars
    <2> QED
      BY <2>1
  <1> QED
    BY <1>1, <1>2, <1>3, <1>4

(* Connected is an invariant.                                                *)
LEMMA AlwaysConnected == Spec => []Connected
  <1>1. Init => Connected
    BY InitialFacts DEF Connected
  <1>2. TypeOK /\ Connected /\ [Next]_vars => Connected'
    <2> SUFFICES ASSUME TypeOK, Connected, [Next]_vars PROVE Connected'
      OBVIOUS
    <2>1. CASE UNCHANGED vars
      BY <2>1 DEF vars, mainVars, receiverVars, serverVars, Connected
    <2> QED
      BY <2>1, MainConnected, OtherConnected DEF Next
  <1> QED
    BY <1>1, <1>2, TypeCorrect, PTL DEF Spec

(* main never sends on a null websocket (Session!NeverSendsUnconnected),     *)
(* whether the connection fails or not: credentials come over it only.       *)
THEOREM NeverUnconnected == Spec => []NeverSendsUnconnected
  <1>1. Connected => NeverSendsUnconnected
    BY DEF Connected, NeverSendsUnconnected
  <1> QED
    BY <1>1, AlwaysConnected, PTL

-----------------------------------------------------------------------------
(* The credentials *)

(* What a credential that is not empty reads as.                             *)
Given == IF TornReads THEN {"torn", "whole"} ELSE {"whole"}

(* A string is empty or given, and main is past the wait with given ones only*)
(* because no assignment empties one.                                        *)
Whole ==
    /\ data.chall_str \in {""} \cup Given /\ data.chall_id \in {""} \cup Given
    /\ main = "request" => data.chall_str \in Given /\ data.chall_id \in Given
    /\ main \in {"receive", "trn"} => asked.str \in Given /\ asked.id \in Given

(* Steps of main keep Whole.                                                 *)
LEMMA MainWhole ==
    ASSUME Whole, Main
    PROVE  Whole'
  <1> USE DEF Whole
  <1>1. CASE Connect
    BY <1>1 DEF Connect
  <1>2. CASE ConnectReturn
    BY <1>2 DEF ConnectReturn, receiverVars
  <1>3. CASE Login
    BY <1>3 DEF Login, receiverVars
  <1>4. CASE Wait
    BY <1>4 DEF Wait, HasCredentials, receiverVars
  <1>5. CASE Request
    BY <1>5 DEF Request, receiverVars
  <1>6. CASE Receive
    BY <1>6 DEF Receive, receiverVars
  <1>7. CASE Trn
    BY <1>7 DEF Trn, send, receiverVars
  <1>8. CASE Autojoin
    BY <1>8 DEF Autojoin, send, receiverVars
  <1> QED
    BY <1>1, <1>2, <1>3, <1>4, <1>5, <1>6, <1>7, <1>8 DEF Main

(* The receive thread stores given credentials.                              *)
LEMMA StoreWhole ==
    ASSUME TypeOK, Whole, DoStore
    PROVE  Whole'
  <1> DEFINE o == Head(todo)
  <1>1. o \in Ops /\ o.op = "store" /\ data \in Contents
    BY HeadTail, Types DEF DoStore
  <1>2. /\ o.string \in {"username", "chall_str", "chall_id"}
        /\ o.string # "username" => o.value = "whole"
    BY <1>1 DEF Ops
  <1>3. PICK v : /\ data' = [data EXCEPT ![o.string] = v] /\ UNCHANGED <<main, asked>>
                 /\ v = o.value \/ (TornReads /\ v = "torn")
    BY DEF DoStore, mainVars
  <1>4. o.string # "username" => v \in Given
    BY <1>2, <1>3 DEF Given
  <1>5. \A s \in {"chall_str", "chall_id"} : data'[s] = data[s] \/ data'[s] \in Given
    BY <1>1, <1>2, <1>3, <1>4 DEF Contents
  <1>6. /\ data'.chall_str = data.chall_str \/ data'.chall_str \in Given
        /\ data'.chall_id = data.chall_id \/ data'.chall_id \in Given
    BY <1>5
  <1> HIDE DEF o
  <1> QED
    BY <1>3, <1>6 DEF Whole

(* login asks with both credentials, whole ones unless strings can be seen   *)
(* half assigned (Session!CredentialsWhole).                                 *)
THEOREM CredentialsAlwaysWhole == Spec => []CredentialsWhole
  <1>1. Init => Whole
    BY InitialFacts DEF Whole
  <1>2. TypeOK /\ Whole /\ [Next]_vars => Whole'
    <2> SUFFICES ASSUME TypeOK, Whole, [Next]_vars PROVE Whole'
      OBVIOUS
    <2>1. CASE Main
      BY <2>1, MainWhole
    <2>2. CASE DoStore
      BY <2>2, StoreWhole
    <2>3. CASE ~Main /\ ~DoStore
      <3>1. UNCHANGED <<main, asked, data>>
        BY <2>3 DEF Next, vars, mainVars, receiverVars, Receiver, ReceiveFrame, Handle,
                    DoSend, DoAccept, Done, Serve, Close, Challenge, Withdraw
      <3> QED
        BY <3>1 DEF Whole
    <2> QED
      BY <2>1, <2>2, <2>3
  <1>3. Whole => CredentialsWhole
    BY DEF Whole, Given, CredentialsWhole
  <1> QED
    BY <1>1, <1>2, <1>3, TypeCorrect, PTL DEF Spec

-----------------------------------------------------------------------------
(* The name *)

IsUpdate(f) == f.type = "updateuser"
IsName(o)   == o.op = "store" /\ o.string = "username"

NoUpdate(s) == \A j \in DOMAIN s : ~IsUpdate(s[j])

(* The last update in a sequence of frames, if any, has the name n.          *)
LastIs(s, n) ==
    \A j \in DOMAIN s :
        IsUpdate(s[j]) /\ (\A k \in DOMAIN s : k > j => ~IsUpdate(s[k])) => s[j].name = n

(* With no update on its way, the name that is stored, about to be stored or *)
(* in the frame read is the server's.                                        *)
StoredName ==
    IF receiver = "handle" /\ IsUpdate(frame) THEN frame.name = serverName
    ELSE IF receiver = "do" /\ todo # <<>> /\ IsName(Head(todo))
    THEN Head(todo).value = serverName
    ELSE data.username = serverName

NameInv ==
    /\ ws = "open" => LastIs(toBot, serverName) /\ (NoUpdate(toBot) => StoredName)
    /\ \A k \in DOMAIN todo : k > 1 => ~IsName(todo[k])

(* A frame that is no update leaves the last one.                            *)
LEMMA AppendOther ==
    ASSUME NEW S, NEW s \in Seq(S), NEW f \in S, NEW n, ~IsUpdate(f), LastIs(s, n)
    PROVE  LastIs(Append(s, f), n) /\ (NoUpdate(Append(s, f)) => NoUpdate(s))
  BY AppendFacts DEF LastIs, NoUpdate

(* An update becomes the last one.                                           *)
LEMMA AppendUpdate ==
    ASSUME NEW S, NEW s \in Seq(S), NEW f \in S, IsUpdate(f)
    PROVE  LastIs(Append(s, f), f.name) /\ ~NoUpdate(Append(s, f))
  <1>1. /\ Len(s) \in Nat /\ DOMAIN Append(s, f) = 1..(Len(s) + 1)
        /\ Append(s, f)[Len(s) + 1] = f
    BY AppendFacts
  <1>2. ~NoUpdate(Append(s, f))
    BY <1>1 DEF NoUpdate
  <1>3. ASSUME NEW j \in DOMAIN Append(s, f),
               \A k \in DOMAIN Append(s, f) : k > j => ~IsUpdate(Append(s, f)[k])
        PROVE  Append(s, f)[j] = f
    BY <1>1, <1>3
  <1> QED
    BY <1>2, <1>3 DEF LastIs

(* Taking the first frame leaves the last update, or takes it.               *)
LEMMA TailLast ==
    ASSUME NEW S, NEW s \in Seq(S), s # <<>>, NEW n, LastIs(s, n)
    PROVE  /\ LastIs(Tail(s), n)
           /\ NoUpdate(Tail(s)) => IF IsUpdate(Head(s)) THEN Head(s).name = n
                                                        ELSE NoUpdate(s)
  <1>1. /\ Head(s) = s[1] /\ Len(s) \in Nat /\ 1 \in DOMAIN s /\ DOMAIN s = 1..Len(s)
        /\ DOMAIN Tail(s) = 1..(Len(s) - 1)
        /\ \A j \in DOMAIN Tail(s) : Tail(s)[j] = s[j + 1]
    BY HeadTail
  <1>2. \A k \in DOMAIN s : k # 1 => k - 1 \in DOMAIN Tail(s) /\ s[k] = Tail(s)[k - 1]
    BY <1>1
  <1>3. LastIs(Tail(s), n)
    <2> SUFFICES ASSUME NEW j \in DOMAIN Tail(s), IsUpdate(Tail(s)[j]),
                        \A k \in DOMAIN Tail(s) : k > j => ~IsUpdate(Tail(s)[k])
                 PROVE  Tail(s)[j].name = n
      BY DEF LastIs
    <2>1. j + 1 \in DOMAIN s /\ s[j + 1] = Tail(s)[j]
      BY <1>1
    <2>2. ASSUME NEW k \in DOMAIN s, k > j + 1
          PROVE  ~IsUpdate(s[k])
      <3>1. k - 1 \in DOMAIN Tail(s) /\ s[k] = Tail(s)[k - 1]
        BY <1>1, <1>2, <2>2
      <3>2. k - 1 > j
        BY <1>1, <2>2
      <3> QED
        BY <3>1, <3>2
    <2> QED
      BY <2>1, <2>2 DEF LastIs
  <1>4. NoUpdate(Tail(s)) => \A k \in DOMAIN s : k > 1 => ~IsUpdate(s[k])
    BY <1>1, <1>2 DEF NoUpdate
  <1>5. NoUpdate(Tail(s)) /\ IsUpdate(Head(s)) => Head(s).name = n
    BY <1>1, <1>4 DEF LastIs
  <1>6. NoUpdate(Tail(s)) /\ ~IsUpdate(Head(s)) => NoUpdate(s)
    BY <1>1, <1>4 DEF NoUpdate
  <1> QED
    BY <1>3, <1>5, <1>6

(* A sequence none of whose three parts stores a name stores none.           *)
LEMMA ConcatNone ==
    ASSUME NEW S, NEW s \in Seq(S), NEW a \in S, NEW t \in Seq(S),
           \A k \in DOMAIN s : ~IsName(s[k]), ~IsName(a),
           \A k \in DOMAIN t : ~IsName(t[k])
    PROVE  /\ s \o <<a>> \o t \in Seq(S)
           /\ \A k \in DOMAIN (s \o <<a>> \o t) : ~IsName((s \o <<a>> \o t)[k])
  <1> DEFINE r == s \o <<a>> \o t
  <1>1. /\ r \in Seq(S) /\ Len(s) \in Nat /\ Len(t) \in Nat
        /\ DOMAIN s = 1..Len(s) /\ DOMAIN t = 1..Len(t)
        /\ DOMAIN r = 1..(Len(s) + 1 + Len(t))
        /\ \A j \in DOMAIN s : r[j] = s[j]
        /\ r[Len(s) + 1] = a
        /\ \A j \in DOMAIN t : r[Len(s) + 1 + j] = t[j]
    BY ConcatThree
  <1> HIDE DEF r
  <1>2. ASSUME NEW k \in DOMAIN r
        PROVE  ~IsName(r[k])
    <2>1. CASE k \in DOMAIN s
      BY <1>1, <2>1
    <2>2. CASE k = Len(s) + 1
      BY <1>1, <2>2
    <2>3. CASE k > Len(s) + 1
      <3>1. k - (Len(s) + 1) \in DOMAIN t
        BY <1>1, <2>3
      <3>2. r[Len(s) + 1 + (k - (Len(s) + 1))] = t[k - (Len(s) + 1)]
        BY <1>1, <3>1
      <3>3. Len(s) + 1 + (k - (Len(s) + 1)) = k
        BY <1>1
      <3> QED
        BY <3>1, <3>2, <3>3
    <2> QED
      BY <1>1, <2>1, <2>2, <2>3
  <1> QED
    BY <1>1, <1>2 DEF r

(* Steps that leave the receive thread, its frames and the name alone.       *)
LEMMA SameName ==
    ASSUME NameInv, ws' = "open" => ws = "open",
           UNCHANGED <<receiver, frame, todo, data, toBot, serverName>>
    PROVE  NameInv'
  BY DEF NameInv, StoredName, LastIs, NoUpdate

(* The server may list challenges at any time.                               *)
LEMMA ListName ==
    ASSUME TypeOK, NameInv, ws = "open",
           UNCHANGED <<receiver, frame, todo, data, serverName>>,
           NEW f \in Frames, ~IsUpdate(f), toBot' = Append(toBot, f)
    PROVE  NameInv'
  <1>1. LastIs(toBot', serverName) /\ (NoUpdate(toBot') => NoUpdate(toBot))
    BY AppendOther, Types DEF NameInv
  <1>2. StoredName' <=> StoredName
    BY DEF StoredName
  <1> QED
    BY <1>1, <1>2 DEF NameInv, LastIs, NoUpdate

(* A connection begins with an update to the guest name.                     *)
LEMMA ConnectName ==
    ASSUME TypeOK, Connected, NameInv, Connect
    PROVE  NameInv'
  <1>1. CASE ws' # "open"
    BY <1>1 DEF Connect, NameInv
  <1>2. CASE ws' = "open" /\ ws # "open"
    <2> DEFINE u == [type |-> "updateuser", name |-> GuestName]
               c == [type |-> "challstr"]
    <2>1. u \in Frames /\ c \in Frames /\ IsUpdate(u) /\ ~IsUpdate(c) /\ u.name = GuestName
      BY DEF Frames, IsUpdate
    <2>2. serverName' = GuestName /\ UNCHANGED todo
      BY DEF Connect, Connected, serverVars
    <2>3. toBot' = <<u, c>> \/ toBot' = <<c, u>>
      BY <1>2 DEF Connect
    <2> HIDE DEF u, c
    <2>4. ~NoUpdate(toBot')
      BY <2>1, <2>3 DEF NoUpdate
    <2>5. LastIs(toBot', GuestName)
      BY <2>1, <2>3 DEF LastIs
    <2> QED
      BY <2>2, <2>4, <2>5 DEF NameInv
  <1>3. CASE ws = "open"
    BY <1>3 DEF Connect, Connected
  <1> QED
    BY <1>1, <1>2, <1>3

(* Steps of the receive thread.                                              *)
LEMMA ReceiverName ==
    ASSUME TypeOK, NameInv, Receiver
    PROVE  NameInv'
  <1>1. /\ toBot \in Seq(Frames) /\ todo \in Seq(Ops) /\ frame \in Frames
        /\ data \in Contents
    BY Types
  <1>2. UNCHANGED <<ws, serverName>>
    BY DEF Receiver, ReceiveFrame, Handle, DoStore, DoSend, DoAccept, Done, serverVars
  <1>3. CASE ReceiveFrame
    <2>1. /\ frame' = Head(toBot) /\ toBot' = Tail(toBot) /\ toBot # <<>>
          /\ receiver = "read" /\ receiver' = "handle" /\ UNCHANGED <<todo, data>>
      BY <1>3 DEF ReceiveFrame
    <2>2. CASE ws = "open"
      <3>1. LastIs(toBot', serverName)
        BY <1>1, <2>1, <2>2, TailLast DEF NameInv
      <3>2. NoUpdate(toBot') => IF IsUpdate(frame') THEN frame'.name = serverName
                                                    ELSE NoUpdate(toBot)
        BY <1>1, <2>1, <2>2, TailLast DEF NameInv
      <3>3. NoUpdate(toBot) => data.username = serverName
        BY <2>1, <2>2 DEF NameInv, StoredName
      <3>4. NoUpdate(toBot') => StoredName'
        BY <1>2, <2>1, <3>2, <3>3 DEF StoredName
      <3> QED
        BY <1>2, <2>1, <3>1, <3>4 DEF NameInv, LastIs, NoUpdate
    <2> QED
      BY <1>2, <2>1, <2>2 DEF NameInv
  <1>4. CASE Handle
    <2>1. /\ todo' = handle_message(frame) /\ receiver = "handle" /\ receiver' = "do"
          /\ UNCHANGED <<toBot, data, frame>>
      BY <1>4 DEF Handle
    <2>2. IsUpdate(frame) => /\ todo' = <<Store("username", frame.name)>>
                             /\ Head(todo') = Store("username", frame.name)
                             /\ todo' # <<>>
      BY <2>1 DEF IsUpdate, handle_message, UpdateUser
    <2>3. IsUpdate(frame) => IsName(Head(todo')) /\ Head(todo').value = frame.name
      BY <2>2 DEF IsName, Store
    <2>4. ~IsUpdate(frame) =>
             \/ todo' = <<Store("chall_str", "whole"), Store("chall_id", "whole")>>
             \/ todo' = <<AcceptFrom(frame.from)>>
             \/ todo' = <<>>
      BY <2>1 DEF IsUpdate, handle_message, Challstr, UpdateChallenges
    <2>5. /\ ~IsName(Store("chall_str", "whole")) /\ ~IsName(Store("chall_id", "whole"))
          /\ ~IsName(AcceptFrom(frame.from))
      BY DEF IsName, Store, AcceptFrom
    <2>6. ~IsUpdate(frame) => \A k \in DOMAIN todo' : ~IsName(todo'[k])
      BY <2>4, <2>5
    <2>7. ~IsUpdate(frame) => todo' = <<>> \/ ~IsName(Head(todo'))
      BY <2>4, <2>5
    <2>8. \A k \in DOMAIN todo' : k > 1 => ~IsName(todo'[k])
      BY <2>2, <2>6
    <2>9. StoredName => StoredName'
      BY <1>2, <2>1, <2>2, <2>3, <2>7 DEF StoredName
    <2> QED
      BY <1>2, <2>1, <2>8, <2>9 DEF NameInv, LastIs, NoUpdate
  <1>5. ASSUME receiver = "do", receiver' = "do", todo # <<>>, todo' = Tail(todo),
               UNCHANGED toBot,
               IF IsName(Head(todo)) THEN data'.username = Head(todo).value
                                     ELSE data'.username = data.username
        PROVE  NameInv'
    <2>1. /\ Head(todo) = todo[1] /\ Len(todo) \in Nat /\ DOMAIN todo = 1..Len(todo)
          /\ todo' \in Seq(Ops) /\ DOMAIN todo' = 1..(Len(todo) - 1)
          /\ \A j \in DOMAIN todo' : todo'[j] = todo[j + 1]
      BY <1>1, <1>5, HeadTail
    <2>2. \A k \in DOMAIN todo' : ~IsName(todo'[k])
      BY <2>1 DEF NameInv
    <2>3. todo' # <<>> => ~IsName(Head(todo'))
      BY <2>1, <2>2, HeadTail
    <2>4. StoredName => StoredName'
      BY <1>2, <1>5, <2>3 DEF StoredName
    <2> QED
      BY <1>2, <1>5, <2>2, <2>4 DEF NameInv, LastIs, NoUpdate
  <1>6. CASE DoStore
    <2> DEFINE o == Head(todo)
    <2>1. /\ receiver = "do" /\ receiver' = "do" /\ todo # <<>> /\ o.op = "store"
          /\ UNCHANGED <<toBot, frame>>
      BY <1>6 DEF DoStore
    <2>2. o \in Ops
      BY <1>1, <2>1, HeadTail
    <2>3. o.string \in {"username", "chall_str", "chall_id"}
      BY <2>1, <2>2 DEF Ops
    <2>4. CASE data' = [data EXCEPT ![o.string] = "torn"] /\ UNCHANGED todo
      <3>1. IsName(o) \/ data'.username = data.username
        BY <1>1, <2>1, <2>3, <2>4 DEF IsName, Contents
      <3>2. StoredName => StoredName'
        BY <1>2, <2>1, <2>4, <3>1 DEF StoredName
      <3> QED
        BY <1>2, <2>1, <2>4, <3>2 DEF NameInv, LastIs, NoUpdate
    <2>5. CASE data' = [data EXCEPT ![o.string] = o.value] /\ todo' = Tail(todo)
      <3>1. IF IsName(o) THEN data'.username = o.value ELSE data'.username = data.username
        BY <1>1, <2>1, <2>3, <2>5 DEF IsName, Contents
      <3> QED
        BY <1>5, <2>1, <2>5, <3>1
    <2> QED
      BY <1>6, <2>4, <2>5 DEF DoStore
  <1>7. CASE DoSend
    <2>1. /\ receiver = "do" /\ receiver' = "do" /\ todo # <<>> /\ ~IsName(Head(todo))
          /\ UNCHANGED <<toBot, data>>
          /\ todo' = Tail(todo) \/ (ws # "open" /\ todo' = <<>>)
      BY <1>7 DEF DoSend, IsName
    <2>2. CASE todo' = Tail(todo)
      BY <1>5, <2>1, <2>2
    <2>3. CASE ws # "open" /\ todo' = <<>>
      <3>1. DOMAIN todo' = {}
        BY <2>3
      <3> QED
        BY <1>2, <2>3, <3>1 DEF NameInv
    <2> QED
      BY <2>1, <2>2, <2>3
  <1>8. CASE DoAccept
    <2>1. /\ receiver = "do" /\ receiver' = "do" /\ todo # <<>> /\ ~IsName(Head(todo))
          /\ UNCHANGED <<toBot, data, frame>> /\ Head(todo).op = "accept"
      BY <1>8 DEF DoAccept, IsName
    <2>2. CASE todo' = Tail(todo)
      BY <1>5, <2>1, <2>2
    <2>3. ASSUME NEW u \in Head(todo).from, NEW s,
                 s = (IF Format[u] \in AcceptedFormats THEN accept_challenge(u) ELSE <<>>),
                 todo' = s \o <<AcceptFrom(Head(todo).from \ {u})>> \o Tail(todo)
          PROVE  NameInv'
      <3> DEFINE a == AcceptFrom(Head(todo).from \ {u})
      <3>1. Head(todo) \in Ops /\ Tail(todo) \in Seq(Ops)
        BY <1>1, <2>1, HeadTail
      <3>2. u \in Challengers /\ a \in Ops /\ ~IsName(a)
        BY <2>1, <2>3, <3>1 DEF Ops, AcceptFrom, IsName
      <3>3. s \in Seq(Ops)
        BY <2>3, <3>2, AcceptType, ShortSeq
      <3>4. \A k \in DOMAIN s : ~IsName(s[k])
        <4>1. /\ ~IsName(SendOp([cmd |-> "utm"]))
              /\ ~IsName(SendOp([cmd |-> "accept", user |-> u]))
          BY DEF IsName, SendOp
        <4> QED
          BY <2>3, <4>1 DEF accept_challenge
      <3>5. \A k \in DOMAIN Tail(todo) : ~IsName(Tail(todo)[k])
        BY <1>1, <2>1, HeadTail DEF NameInv
      <3>6. \A k \in DOMAIN todo' : ~IsName(todo'[k])
        BY <2>3, <3>1, <3>2, <3>3, <3>4, <3>5, ConcatNone DEF a
      <3>7. todo' \in Seq(Ops)
        BY <2>3, <3>1, <3>2, <3>3, ConcatNone DEF a
      <3>8. todo' # <<>> => ~IsName(Head(todo'))
        BY <3>6, <3>7, HeadTail
      <3>9. StoredName => StoredName'
        BY <1>2, <2>1, <3>8 DEF StoredName
      <3> QED
        BY <1>2, <2>1, <3>6, <3>9 DEF NameInv, LastIs, NoUpdate
    <2> QED
      BY <1>8, <2>2, <2>3 DEF DoAccept
  <1>9. CASE Done
    <2>1. /\ receiver = "do" /\ receiver' = "read" /\ todo = <<>>
          /\ UNCHANGED <<toBot, data, todo>>
      BY <1>9 DEF Done
    <2>2. StoredName => StoredName'
      BY <1>2, <2>1 DEF StoredName
    <2> QED
      BY <1>2, <2>1, <2>2 DEF NameInv, LastIs, NoUpdate
  <1> QED
    BY <1>3, <1>4, <1>6, <1>7, <1>8, <1>9 DEF Receiver

(* Steps of the server: a login is followed by an update.                    *)
LEMMA ServeName ==
    ASSUME TypeOK, Connected, ValidNamed, NameInv, Serve
    PROVE  NameInv'
  <1> DEFINE m == Head(toServer)
  <1>1. /\ toBot \in Seq(Frames) /\ ws = "open" /\ ws' = ws
        /\ UNCHANGED <<receiver, frame, todo, data>>
    BY Types DEF Serve, Connected, receiverVars
  <1>2. CASE m.cmd = "trn" /\ m.assertion = "valid"
    <2> DEFINE f == [type |-> "updateuser", name |-> m.name]
    <2>1. m.name = BotName
      BY <1>2, HeadTail, Types DEF Serve, ValidNamed
    <2>2. f \in Frames /\ IsUpdate(f) /\ f.name = m.name
      BY <2>1 DEF Frames, IsUpdate
    <2>3. toBot' = Append(toBot, f) /\ serverName' = f.name
      BY <1>2, <2>2 DEF Serve
    <2> HIDE DEF f
    <2>4. LastIs(toBot', serverName') /\ ~NoUpdate(toBot')
      BY <1>1, <2>2, <2>3, AppendUpdate
    <2> QED
      BY <1>1, <2>4 DEF NameInv, LastIs, NoUpdate
  <1>3. CASE ~(m.cmd = "trn" /\ m.assertion = "valid")
    <2>1. serverName' = serverName /\ pending' \subseteq Challengers
      BY <1>3 DEF Serve, TypeOK
    <2>2. toBot' = toBot \/ toBot' = Append(toBot, Challenges(pending'))
      BY <1>3 DEF Serve
    <2>3. Challenges(pending') \in Frames /\ ~IsUpdate(Challenges(pending'))
      BY <2>1 DEF Challenges, Frames, IsUpdate
    <2> QED
      BY <1>1, <2>1, <2>2, <2>3, SameName, ListName
  <1> QED
    BY <1>2, <1>3

(* Once its frames are handled the bot goes by the server's name for it      *)
(* (Session!NamesAgree): NameInv follows the last update through the frames  *)
(* on their way, the frame in hand and the string it is stored in.           *)
THEOREM NamesAlwaysAgree == Spec => []NamesAgree
  <1>1. Init => NameInv
    <2>1. DOMAIN <<>> = {}
      OBVIOUS
    <2> QED
      BY <2>1, InitialFacts DEF NameInv
  <1>2. TypeOK /\ ValidNamed /\ Connected /\ NameInv /\ [Next]_vars => NameInv'
    <2> SUFFICES ASSUME TypeOK, ValidNamed, Connected, NameInv, [Next]_vars
                 PROVE  NameInv'
      OBVIOUS
    <2>1. CASE UNCHANGED vars
      BY <2>1, SameName DEF vars, receiverVars, serverVars
    <2>2. CASE Main /\ ~Connect
      <3>1. UNCHANGED <<receiver, frame, todo, data, toBot, serverName, ws>>
        BY <2>2 DEF Main, ConnectReturn, Login, Wait, Request, Receive, Trn, Autojoin,
                    receiverVars, serverVars
      <3> QED
        BY <3>1, SameName
    <2>3. CASE Close
      BY <2>3 DEF Close, receiverVars, NameInv
    <2>4. ASSUME NEW u \in Challengers, Challenge(u) \/ Withdraw(u)
          PROVE  NameInv'
      <3>1. pending' \subseteq Challengers
        BY <2>4 DEF Challenge, Withdraw, TypeOK
      <3>2. Challenges(pending') \in Frames /\ ~IsUpdate(Challenges(pending'))
        BY <3>1 DEF Challenges, Frames, IsUpdate
      <3>3. /\ ws = "open" /\ toBot' = Append(toBot, Challenges(pending'))
            /\ UNCHANGED <<receiver, frame, todo, data, serverName>>
        BY <2>4 DEF Challenge, Withdraw, receiverVars
      <3> QED
        BY <3>2, <3>3, ListName
    <2> QED
      BY <2>1, <2>2, <2>3, <2>4, ConnectName, ReceiverName, ServeName DEF Next
  <1>3. NameInv => NamesAgree
    <2>1. DOMAIN <<>> = {}
      OBVIOUS
    <2> QED
      BY <2>1 DEF NameInv, NamesAgree, NoUpdate, StoredName
  <1> QED
    BY <1>1, <1>2, <1>3, TypesAndNames, AlwaysConnected, PTL DEF Spec

-----------------------------------------------------------------------------
(* The team *)

NeedsTeam(m) == m.cmd = "accept" /\ Format[m.user] = "gen1ou"
IsUtm(m)     == m.cmd = "utm"

TeamComing == team \/ \E j \in DOMAIN toServer : IsUtm(toServer[j])

(* An acceptance that needs a team has one before it, among the messages to  *)
(* send, on its way or at the server.                                        *)
TeamFirst(s, coming) ==
    \A k \in DOMAIN s :
        s[k].op = "send" /\ NeedsTeam(s[k].msg) =>
            IF k = 1 THEN coming ELSE s[k - 1].op = "send" /\ IsUtm(s[k - 1].msg)

TeamInv == ws = "open" => TeamBeforeAccept /\ TeamFirst(todo, TeamComing)

(* What is appended leaves the messages before in their places.              *)
LEMMA AppendTeam ==
    ASSUME NEW m \in Message, toServer \in Seq(Message),
           toServer' = Append(toServer, m), UNCHANGED team,
           TeamBeforeAccept, NeedsTeam(m) => TeamComing
    PROVE  /\ TeamBeforeAccept'
           /\ TeamComing \/ IsUtm(m) => TeamComing'
  <1>1. /\ Len(toServer) \in Nat /\ DOMAIN toServer = 1..Len(toServer)
        /\ DOMAIN toServer' = 1..(Len(toServer) + 1)
        /\ \A j \in DOMAIN toServer : toServer'[j] = toServer[j]
        /\ toServer'[Len(toServer) + 1] = m
    BY AppendFacts
  <1>2. TeamComing \/ IsUtm(m) => TeamComing'
    BY <1>1 DEF TeamComing
  <1>3. ASSUME NEW i \in DOMAIN toServer', NeedsTeam(toServer'[i])
        PROVE  team' \/ \E j \in 1..(i - 1) : toServer'[j].cmd = "utm"
    <2>1. CASE i \in DOMAIN toServer
      <3>1. team \/ \E j \in 1..(i - 1) : toServer[j].cmd = "utm"
        BY <1>1, <1>3, <2>1 DEF TeamBeforeAccept, NeedsTeam
      <3> QED
        BY <1>1, <2>1, <3>1
    <2>2. CASE i = Len(toServer) + 1
      <3>1. team \/ \E j \in DOMAIN toServer : toServer[j].cmd = "utm"
        BY <1>1, <1>3, <2>2 DEF TeamComing, IsUtm
      <3> QED
        BY <1>1, <2>2, <3>1
    <2> QED
      BY <1>1, <2>1, <2>2
  <1> QED
    BY <1>2, <1>3 DEF TeamBeforeAccept, NeedsTeam

(* Taking the first thing to do: if it sends a team, the team is coming.     *)
LEMMA TailTeam ==
    ASSUME NEW s \in Seq(Ops), s # <<>>, NEW before, NEW after,
           TeamFirst(s, before),
           Head(s).op = "send" /\ IsUtm(Head(s).msg) => after
    PROVE  TeamFirst(Tail(s), after)
  <1>1. /\ Head(s) = s[1] /\ Len(s) \in Nat /\ DOMAIN s = 1..Len(s)
        /\ DOMAIN Tail(s) = 1..(Len(s) - 1)
        /\ \A j \in DOMAIN Tail(s) : Tail(s)[j] = s[j + 1]
    BY HeadTail
  <1> SUFFICES ASSUME NEW k \in DOMAIN Tail(s), Tail(s)[k].op = "send",
                      NeedsTeam(Tail(s)[k].msg)
               PROVE  IF k = 1 THEN after
                      ELSE Tail(s)[k - 1].op = "send" /\ IsUtm(Tail(s)[k - 1].msg)
    BY DEF TeamFirst
  <1>2. k + 1 \in DOMAIN s /\ s[k + 1] = Tail(s)[k] /\ k + 1 # 1 /\ (k + 1) - 1 = k
    BY <1>1
  <1>3. s[k].op = "send" /\ IsUtm(s[k].msg)
    BY <1>2 DEF TeamFirst
  <1>4. CASE k = 1
    BY <1>1, <1>3, <1>4
  <1>5. CASE k # 1
    <2>1. k - 1 \in DOMAIN Tail(s) /\ Tail(s)[k - 1] = s[k]
      BY <1>1, <1>5
    <2> QED
      BY <1>3, <1>5, <2>1
  <1> QED
    BY <1>4, <1>5

(* Accepting the challenges listed puts every team first.                    *)
LEMMA AcceptTeam ==
    ASSUME NEW s \in Seq(Ops), NEW a \in Ops, NEW t \in Seq(Ops), NEW coming,
           TeamFirst(s, FALSE), a.op = "accept", TeamFirst(t, FALSE)
    PROVE  TeamFirst(s \o <<a>> \o t, coming)
  <1> DEFINE r == s \o <<a>> \o t
             n == Len(s) + 1
  <1>1. /\ Len(s) \in Nat /\ Len(t) \in Nat
        /\ DOMAIN s = 1..Len(s) /\ DOMAIN t = 1..Len(t)
        /\ DOMAIN r = 1..(n + Len(t))
        /\ \A j \in DOMAIN s : r[j] = s[j]
        /\ r[n] = a
        /\ \A j \in DOMAIN t : r[n + j] = t[j]
    BY ConcatThree
  <1> HIDE DEF r
  <1> SUFFICES ASSUME NEW k \in DOMAIN r, r[k].op = "send", NeedsTeam(r[k].msg)
               PROVE  IF k = 1 THEN coming ELSE r[k - 1].op = "send" /\ IsUtm(r[k - 1].msg)
    BY DEF TeamFirst, r
  <1>2. CASE k \in DOMAIN s
    <2>1. k # 1 /\ s[k - 1].op = "send" /\ IsUtm(s[k - 1].msg)
      BY <1>1, <1>2 DEF TeamFirst
    <2>2. k - 1 \in DOMAIN s
      BY <1>1, <1>2, <2>1
    <2> QED
      BY <1>1, <2>1, <2>2
  <1>3. CASE k = n
    BY <1>1, <1>3
  <1>4. CASE k > n
    <2> DEFINE j == k - n
    <2>1. j \in DOMAIN t /\ n + j = k
      BY <1>1, <1>4
    <2>2. r[k] = t[j]
      BY <1>1, <2>1
    <2>3. j # 1 /\ t[j - 1].op = "send" /\ IsUtm(t[j - 1].msg)
      BY <2>1, <2>2 DEF TeamFirst
    <2>4. j - 1 \in DOMAIN t /\ n + (j - 1) = k - 1
      <3>1. j # 1
        BY <2>3
      <3>2. DOMAIN t = 1..Len(t) /\ Len(t) \in Nat /\ n \in Nat /\ j \in Nat
        BY <1>1, <2>1
      <3>3. j \in 1..Len(t) /\ k = n + j
        BY <2>1, <3>2
      <3> HIDE DEF j, n
      <3>4. j - 1 \in 1..Len(t)
        BY <3>1, <3>2, <3>3
      <3>5. n + (j - 1) = k - 1
        BY <3>2, <3>3
      <3> QED
        BY <3>2, <3>4, <3>5
    <2>5. r[k - 1] = t[j - 1] /\ k # 1
      BY <1>1, <1>4, <2>4
    <2> QED
      BY <2>3, <2>5
  <1> QED
    BY <1>1, <1>2, <1>3, <1>4

(* Steps of the receive thread.                                              *)
LEMMA ReceiverTeam ==
    ASSUME TypeOK, TeamInv, Receiver
    PROVE  TeamInv'
  <1>1. todo \in Seq(Ops) /\ toServer \in Seq(Message) /\ frame \in Frames
    BY Types
  <1>2. UNCHANGED <<ws, team>>
    BY DEF Receiver, ReceiveFrame, Handle, DoStore, DoSend, DoAccept, Done, serverVars
  <1> SUFFICES ASSUME ws = "open"
               PROVE  TeamBeforeAccept' /\ TeamFirst(todo, TeamComing)'
    BY <1>2 DEF TeamInv
  <1>3. TeamBeforeAccept /\ TeamFirst(todo, TeamComing)
    BY DEF TeamInv
  <1>4. ASSUME UNCHANGED toServer, TeamFirst(todo', TeamComing)
        PROVE  TeamBeforeAccept' /\ TeamFirst(todo, TeamComing)'
    BY <1>2, <1>3, <1>4 DEF TeamBeforeAccept, TeamFirst, TeamComing
  <1>5. CASE ReceiveFrame \/ Done
    BY <1>3, <1>4, <1>5 DEF ReceiveFrame, Done
  <1>6. CASE Handle
    <2>1. \/ todo' = <<Store("username", frame.name)>>
          \/ todo' = <<Store("chall_str", "whole"), Store("chall_id", "whole")>>
          \/ todo' = <<AcceptFrom(frame.from)>>
          \/ todo' = <<>>
      BY <1>6 DEF Handle, handle_message, UpdateUser, Challstr, UpdateChallenges
    <2>2. /\ Store("username", frame.name).op # "send"
          /\ Store("chall_str", "whole").op # "send"
          /\ Store("chall_id", "whole").op # "send"
          /\ AcceptFrom(frame.from).op # "send"
      BY DEF Store, AcceptFrom
    <2>3. \A k \in DOMAIN todo' : todo'[k].op # "send"
      BY <2>1, <2>2
    <2>4. TeamFirst(todo', TeamComing)
      BY <2>3 DEF TeamFirst
    <2> QED
      BY <1>4, <1>6, <2>4 DEF Handle
  <1>7. CASE DoStore
    <2>1. todo # <<>> /\ Head(todo).op # "send" /\ UNCHANGED toServer
      BY <1>7 DEF DoStore
    <2>2. todo' = todo \/ todo' = Tail(todo)
      BY <1>7 DEF DoStore
    <2>3. TeamFirst(Tail(todo), TeamComing)
      BY <1>1, <1>3, <2>1, TailTeam
    <2>4. TeamFirst(todo', TeamComing)
      BY <1>3, <2>2, <2>3
    <2> QED
      BY <1>4, <2>1, <2>4
  <1>8. CASE DoSend
    <2> DEFINE m == Head(todo).msg
    <2>1. /\ todo # <<>> /\ Head(todo).op = "send" /\ Head(todo) \in Ops
          /\ Head(todo) = todo[1] /\ 1 \in DOMAIN todo
      BY <1>1, <1>8, HeadTail DEF DoSend
    <2>2. m \in Message
      BY <2>1 DEF Ops, Replies, Message
    <2>3. toServer' = Append(toServer, m) /\ todo' = Tail(todo)
      BY <1>8 DEF DoSend
    <2>4. NeedsTeam(m) => TeamComing
      BY <1>3, <2>1 DEF TeamFirst
    <2>5. TeamBeforeAccept' /\ (TeamComing \/ IsUtm(m) => TeamComing')
      BY <1>1, <1>2, <1>3, <2>2, <2>3, <2>4, AppendTeam
    <2>6. TeamFirst(Tail(todo), TeamComing')
      BY <1>1, <1>3, <2>1, <2>5, TailTeam
    <2> QED
      BY <2>3, <2>5, <2>6 DEF TeamFirst
  <1>9. CASE DoAccept
    <2>1. todo # <<>> /\ Head(todo).op = "accept" /\ UNCHANGED toServer
      BY <1>9 DEF DoAccept
    <2>2. TeamFirst(Tail(todo), FALSE)
      BY <1>1, <1>3, <2>1, TailTeam
    <2>3. TeamFirst(Tail(todo), TeamComing)
      BY <2>2 DEF TeamFirst
    <2>4. ASSUME NEW u \in Head(todo).from, NEW s,
                 s = (IF Format[u] \in AcceptedFormats THEN accept_challenge(u) ELSE <<>>),
                 todo' = s \o <<AcceptFrom(Head(todo).from \ {u})>> \o Tail(todo)
          PROVE  TeamFirst(todo', TeamComing)
      <3> DEFINE a == AcceptFrom(Head(todo).from \ {u})
      <3>1. Head(todo) \in Ops /\ Tail(todo) \in Seq(Ops)
        BY <1>1, <2>1, HeadTail
      <3>2. u \in Challengers /\ a \in Ops /\ a.op = "accept"
        BY <2>1, <2>4, <3>1 DEF Ops, AcceptFrom
      <3>3. s \in Seq(Ops)
        BY <2>4, <3>2, AcceptType, ShortSeq
      <3>4. TeamFirst(s, FALSE)
        <4> DEFINE t == SendOp([cmd |-> "utm"])
                   c == SendOp([cmd |-> "accept", user |-> u])
        <4>1. /\ t.op = "send" /\ IsUtm(t.msg) /\ ~NeedsTeam(t.msg)
              /\ c.op = "send" /\ (NeedsTeam(c.msg) => Format[u] = "gen1ou")
          BY DEF SendOp, IsUtm, NeedsTeam
        <4>2. \/ s = <<t, c>>
              \/ s = <<c>> /\ Format[u] # "gen1ou"
              \/ s = <<>>
          BY <2>4 DEF accept_challenge
        <4> HIDE DEF t, c
        <4> QED
          BY <4>1, <4>2 DEF TeamFirst
      <3> QED
        BY <2>2, <2>4, <3>1, <3>2, <3>3, <3>4, AcceptTeam DEF a
    <2>5. TeamFirst(todo', TeamComing)
      BY <1>9, <2>3, <2>4 DEF DoAccept
    <2> QED
      BY <1>4, <2>1, <2>5
  <1> QED
    BY <1>5, <1>6, <1>7, <1>8, <1>9 DEF Receiver

(* Steps of main: what it sends in between is no acceptance.                 *)
LEMMA MainTeam ==
    ASSUME TypeOK, Connected, TeamInv, Main
    PROVE  TeamInv'
  <1>1. CASE Connect
    <2>1. todo' = <<>> /\ toServer' = <<>>
      BY <1>1 DEF Connect, Connected
    <2>2. DOMAIN todo' = {} /\ DOMAIN toServer' = {}
      BY <2>1
    <2> QED
      BY <2>2 DEF TeamInv, TeamBeforeAccept, TeamFirst
  <1>2. ASSUME NEW m \in Message, NEW next, send(m, next), m.cmd # "accept",
               UNCHANGED <<todo, team, ws>>
        PROVE  TeamInv'
    <2>1. toServer \in Seq(Message)
      BY Types
    <2> SUFFICES ASSUME ws = "open" PROVE TeamInv'
      BY <1>2 DEF TeamInv
    <2>2. toServer' = Append(toServer, m)
      BY <1>2 DEF send
    <2>3. TeamBeforeAccept' /\ (TeamComing => TeamComing')
      BY <1>2, <2>1, <2>2, AppendTeam DEF TeamInv, NeedsTeam
    <2>4. TeamFirst(todo, TeamComing)
      BY DEF TeamInv
    <2> QED
      BY <1>2, <2>3, <2>4 DEF TeamInv, TeamFirst
  <1>3. CASE Trn
    <2> DEFINE m == [cmd |-> "trn", name |-> loginName, assertion |-> response]
    <2>1. m \in Message /\ m.cmd # "accept"
      BY Types DEF Message
    <2>2. send(m, "autojoin") /\ UNCHANGED <<todo, team, ws>>
      BY <1>3 DEF Trn, receiverVars, serverVars
    <2> QED
      BY <1>2, <2>1, <2>2
  <1>4. CASE Autojoin
    <2> DEFINE m == [cmd |-> "autojoin"]
    <2>1. m \in Message /\ m.cmd # "accept"
      BY DEF Message
    <2>2. send(m, "idle") /\ UNCHANGED <<todo, team, ws>>
      BY <1>4 DEF Autojoin, receiverVars, serverVars
    <2> QED
      BY <1>2, <2>1, <2>2
  <1>5. CASE ~Connect /\ ~Trn /\ ~Autojoin
    <2>1. UNCHANGED <<todo, team, ws, toServer>>
      BY <1>5 DEF Main, ConnectReturn, Login, Wait, Request, Receive, receiverVars, serverVars
    <2> QED
      BY <2>1 DEF TeamInv, TeamBeforeAccept, TeamFirst, TeamComing
  <1> QED
    BY <1>1, <1>3, <1>4, <1>5

(* The server takes the messages in order.                                   *)
LEMMA ServeTeam ==
    ASSUME TypeOK, Connected, TeamInv, Serve
    PROVE  TeamInv'
  <1>1. toServer \in Seq(Message) /\ toServer # <<>> /\ ws = "open"
    BY Types DEF Serve, Connected
  <1>2. /\ Head(toServer) = toServer[1] /\ Len(toServer) \in Nat
        /\ DOMAIN toServer = 1..Len(toServer)
        /\ DOMAIN Tail(toServer) = 1..(Len(toServer) - 1)
        /\ \A j \in DOMAIN Tail(toServer) : Tail(toServer)[j] = toServer[j + 1]
    BY <1>1, HeadTail
  <1>3. /\ toServer' = Tail(toServer) /\ UNCHANGED <<ws, todo>>
        /\ IsUtm(toServer[1]) => team'
        /\ team => team'
    BY <1>2 DEF Serve, receiverVars, IsUtm
  <1>4. ASSUME NEW j \in DOMAIN toServer, IsUtm(toServer[j])
        PROVE  team' \/ (j - 1 \in DOMAIN toServer' /\ IsUtm(toServer'[j - 1]))
    BY <1>2, <1>3, <1>4
  <1>5. TeamComing => TeamComing'
    BY <1>3, <1>4 DEF TeamComing
  <1>6. ASSUME NEW i \in DOMAIN toServer', NeedsTeam(toServer'[i])
        PROVE  team' \/ \E j \in 1..(i - 1) : toServer'[j].cmd = "utm"
    <2>1. i + 1 \in DOMAIN toServer /\ toServer[i + 1] = toServer'[i]
      BY <1>2, <1>3
    <2>2. team \/ \E j \in 1..((i + 1) - 1) : toServer[j].cmd = "utm"
      BY <1>1, <1>6, <2>1 DEF TeamInv, TeamBeforeAccept, NeedsTeam
    <2>3. CASE team
      BY <1>3, <2>3
    <2>4. ASSUME NEW j \in 1..i, IsUtm(toServer[j])
          PROVE  team' \/ \E h \in 1..(i - 1) : toServer'[h].cmd = "utm"
      <3>1. CASE j = 1
        BY <1>3, <2>4, <3>1
      <3>2. CASE j # 1
        <4>1. j - 1 \in 1..(i - 1) /\ j - 1 \in DOMAIN Tail(toServer) /\ (j - 1) + 1 = j
          BY <1>2, <1>3, <2>4, <3>2
        <4>2. toServer'[j - 1] = toServer[j]
          BY <1>2, <1>3, <4>1
        <4> QED
          BY <2>4, <4>1, <4>2 DEF IsUtm
      <3> QED
        BY <3>1, <3>2
    <2>5. team \/ \E j \in 1..i : IsUtm(toServer[j])
      BY <1>2, <1>3, <2>2 DEF IsUtm
    <2> QED
      BY <2>3, <2>4, <2>5
  <1>7. TeamFirst(todo, TeamComing)
    BY <1>1 DEF TeamInv
  <1>8. TeamBeforeAccept'
    BY <1>6 DEF TeamBeforeAccept, NeedsTeam
  <1> QED
    BY <1>3, <1>5, <1>7, <1>8 DEF TeamInv, TeamFirst

(* A challenge that needs a team is never accepted without one               *)
(* (Session!TeamBeforeAccept), whatever the two threads send in between.     *)
THEOREM TeamAlwaysFirst == Spec => []TeamBeforeAccept
  <1>1. Init => TeamInv
    BY InitialFacts DEF TeamInv
  <1>2. TypeOK /\ Connected /\ TeamInv /\ [Next]_vars => TeamInv'
    <2> SUFFICES ASSUME TypeOK, Connected, TeamInv, [Next]_vars PROVE TeamInv'
      OBVIOUS
    <2>1. ASSUME UNCHANGED <<todo, team, ws, toServer>>
          PROVE  TeamInv'
      BY <2>1 DEF TeamInv, TeamBeforeAccept, TeamFirst, TeamComing
    <2>2. CASE UNCHANGED vars
      BY <2>1, <2>2 DEF vars, receiverVars, serverVars
    <2>3. CASE Close
      BY <2>3 DEF Close, TeamInv
    <2>4. ASSUME NEW u \in Challengers, Challenge(u) \/ Withdraw(u)
          PROVE  TeamInv'
      BY <2>1, <2>4 DEF Challenge, Withdraw, receiverVars
    <2> QED
      BY <2>2, <2>3, <2>4, MainTeam, ReceiverTeam, ServeTeam DEF Next
  <1>3. Connected /\ TeamInv => TeamBeforeAccept
    <2>1. DOMAIN <<>> = {}
      OBVIOUS
    <2> QED
      BY <2>1 DEF Connected, TeamInv, TeamBeforeAccept
  <1> QED
    BY <1>1, <1>2, <1>3, TypeCorrect, AlwaysConnected, PTL DEF Spec
=============================================================================
