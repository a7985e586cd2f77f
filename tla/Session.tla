-------------------------------- MODULE Session --------------------------------
(***************************************************************************)
(* A session of the bot: the main thread of src/PSBot/Main.cpp, which      *)
(* connects, logs in and joins the lobby, beside the receive thread of     *)
(* PSConnection, which runs PSUser::handle_message on the frames of the    *)
(* lobby.                                                                  *)
(*                                                                         *)
(* connect and handle_message hold the data mutex; login, which waits for  *)
(* the credentials the receive thread stores, and send do not.  One step of*)
(* the receive thread is one assignment to a string the main thread also   *)
(* reads, or one message sent.  The server is not in the repository: it is *)
(* modelled from what the handlers rely on.                                *)
(***************************************************************************)
EXTENDS Integers, Sequences

CONSTANTS
    BotName,        \* the name main gives the agent
    GuestName,      \* the name the server gives a new connection
    Challengers,    \* users that may challenge the bot
    Format,         \* the format each of them challenges to
    AcceptedFormats,\* PSUser::acceptedFormats
    MaxChallenges,  \* bound: challenges a user makes
    ConnectFails,   \* whether the server may be unreachable
    Closes,         \* whether the connection may be closed
    TornReads,      \* whether the main thread sees a string half assigned
    HoistsTest      \* whether the compiler tests once, before login's loop

VARIABLES
    main,       \* the next step of main, "dead" when the process has ended
    receiver,   \* the next step of rcv_message_loop, "none" before it starts
    mutex,      \* who holds data_mutex
    ws,         \* PSConnection::ws: "null", "open" or, at the other end, "closed"
    data,       \* the strings username, chall_str and chall_id
    loginName,  \* login's parameter username
    asked,      \* the credentials in the request for an assertion
    response,   \* the answer to it
    frame,      \* the frame read
    todo,       \* what handle_message has still to do for it
    toBot, toServer,    \* frames and messages on their way
    serverName, \* the name the server knows the bot by
    team,       \* the bot has given the server a team
    pending,    \* the users whose challenges the server lists for the bot
    made        \* how many challenges each user has made

mainVars     == <<main, loginName, asked, response>>
receiverVars == <<receiver, data, frame, todo>>
serverVars   == <<serverName, team, pending, made>>
vars == <<mainVars, receiverVars, serverVars, mutex, ws, toBot, toServer>>

ASSUME SessionAssumption ==
    /\ BotName # GuestName
    /\ Format \in [Challengers -> STRING]
    /\ MaxChallenges \in Nat
    /\ {ConnectFails, Closes, TornReads, HoistsTest} \subseteq BOOLEAN

MainSteps == {"connect", "connected", "login", "wait", "spin", "request",
              "receive", "trn", "autojoin", "idle", "dead"}
Strings   == {"username", "chall_str", "chall_id"}
Names     == {BotName, GuestName, "torn"}
Contents  == [username : Names, chall_str : {"", "torn", "whole"},
              chall_id : {"", "torn", "whole"}]

Frames ==
    [type : {"updateuser"}, name : {BotName, GuestName}]
      \cup [type : {"challstr"}]
      \cup [type : {"updatechallenges"}, from : SUBSET Challengers]
      \cup [type : {"none"}]

Replies == [cmd : {"utm"}] \cup [cmd : {"accept"}, user : Challengers]

Message ==
    [cmd : {"trn"}, name : Names, assertion : {"valid", "invalid", ""}]
      \cup [cmd : {"autojoin"}] \cup Replies

NoFrame == [type |-> "none"]

-----------------------------------------------------------------------------
(* What handle_message does for a frame: strings to store, messages to send, *)
(* challenges to go through.                                                 *)

Store(s, v) == [op |-> "store", string |-> s, value |-> v]
SendOp(m)   == [op |-> "send", msg |-> m]
AcceptFrom(S) == [op |-> "accept", from |-> S]

Ops ==
    [op : {"store"}, string : {"username"}, value : {BotName, GuestName}]
      \cup [op : {"store"}, string : {"chall_str", "chall_id"}, value : {"whole"}]
      \cup [op : {"send"}, msg : Replies]
      \cup [op : {"accept"}, from : SUBSET Challengers]

(* Mutant: the token before the name is stored. *)
UpdateUserType(f) == <<Store("username", f.type)>>

(* Mutant: the name is stored while it is a guest's only. *)
UpdateUserGuest(f) == IF f.name = GuestName THEN <<Store("username", f.name)>> ELSE <<>>

UpdateUser(f) == <<Store("username", f.name)>>

Challstr == <<Store("chall_str", "whole"), Store("chall_id", "whole")>>

(* Mutant: the challenge is accepted before the team is sent. *)
acceptBeforeTeam(u) ==
    IF Format[u] = "gen1ou" THEN <<SendOp([cmd |-> "accept", user |-> u]),
                                   SendOp([cmd |-> "utm"])>>
    ELSE IF Format[u] = "gen1randombattle"
    THEN <<SendOp([cmd |-> "accept", user |-> u])>>
    ELSE <<>>

accept_challenge(u) ==
    IF Format[u] = "gen1ou" THEN <<SendOp([cmd |-> "utm"]),
                                   SendOp([cmd |-> "accept", user |-> u])>>
    ELSE IF Format[u] = "gen1randombattle"
    THEN <<SendOp([cmd |-> "accept", user |-> u])>>
    ELSE <<>>

UpdateChallenges(f) == <<AcceptFrom(f.from)>>

handle_message(f) ==
    IF f.type = "updateuser" THEN UpdateUser(f)
    ELSE IF f.type = "challstr" THEN Challstr
    ELSE IF f.type = "updatechallenges" THEN UpdateChallenges(f)
    ELSE <<>>

-----------------------------------------------------------------------------
(* The main thread *)

(* connect holds the mutex until it returns; the receive thread starts in it.*)
(* The server greets a connection with a guest name and a challenge string.  *)
Connect ==
    /\ main = "connect" /\ mutex = "free"
    /\ mutex' = "main"
    /\ main' = "connected"
    /\ \/ /\ ws' = "open" /\ receiver' = "read"
          /\ \E f, g \in {[type |-> "updateuser", name |-> GuestName],
                          [type |-> "challstr"]} :
                f # g /\ toBot' = <<f, g>>
       \/ /\ ConnectFails
          /\ UNCHANGED <<ws, receiver, toBot>>
    /\ UNCHANGED <<loginName, asked, response, data, frame, todo, serverVars, toServer>>

(* Mutant: the mutex is not released. *)
ConnectKeepsLock ==
    /\ main = "connected"
    /\ main' = "login"
    /\ UNCHANGED <<loginName, asked, response, receiverVars, serverVars, mutex, ws,
                   toBot, toServer>>

ConnectReturn ==
    /\ main = "connected"
    /\ mutex' = "free"
    /\ main' = "login"
    /\ UNCHANGED <<loginName, asked, response, receiverVars, serverVars, ws, toBot, toServer>>

(* main passes agent.username, which the receive thread may already have set. *)
Login ==
    /\ main = "login"
    /\ loginName' = data.username
    /\ main' = "wait"
    /\ UNCHANGED <<asked, response, receiverVars, serverVars, mutex, ws, toBot, toServer>>

(* Mutant: the credentials are not waited for. *)
GoOnAtOnce == TRUE

(* Mutant: only one of the credentials is waited for. *)
HasString == data.chall_str # ""

(* The test of login's loop. *)
HasCredentials == data.chall_str # "" /\ data.chall_id # ""

(* A loop whose test was hoisted out of it and found false spins for ever.   *)
Wait ==
    /\ main = "wait"
    /\ \/ HasCredentials /\ main' = "request"
       \/ HoistsTest /\ ~HasCredentials /\ main' = "spin"
    /\ UNCHANGED <<loginName, asked, response, receiverVars, serverVars, mutex, ws,
                   toBot, toServer>>

(* request_action: an exception in sending ends the process, one in receiving*)
(* leaves the response empty.                                                *)
Request ==
    /\ main = "request"
    /\ asked' = [id |-> data.chall_id, str |-> data.chall_str]
    /\ main' \in {"receive", "dead"}
    /\ UNCHANGED <<loginName, response, receiverVars, serverVars, mutex, ws, toBot, toServer>>

Receive ==
    /\ main = "receive"
    /\ response' \in {"", IF /\ asked = [id |-> "whole", str |-> "whole"]
                             /\ loginName = BotName
                          THEN "valid" ELSE "invalid"}
    /\ main' = "trn"
    /\ UNCHANGED <<loginName, asked, receiverVars, serverVars, mutex, ws, toBot, toServer>>

(* A message on a closed connection is lost or throws, on none at all it ends*)
(* the process: nothing in main catches.                                     *)
send(m, next) ==
    \/ ws = "open" /\ toServer' = Append(toServer, m) /\ main' = next
    \/ ws = "closed" /\ main' \in {next, "dead"} /\ UNCHANGED toServer
    \/ ws = "null" /\ main' = "dead" /\ UNCHANGED toServer

Trn ==
    /\ main = "trn"
    /\ send([cmd |-> "trn", name |-> loginName, assertion |-> response], "autojoin")
    /\ UNCHANGED <<loginName, asked, response, receiverVars, serverVars, mutex, ws, toBot>>

Autojoin ==
    /\ main = "autojoin"
    /\ send([cmd |-> "autojoin"], "idle")
    /\ UNCHANGED <<loginName, asked, response, receiverVars, serverVars, mutex, ws, toBot>>

Main == Connect \/ ConnectReturn \/ Login \/ Wait \/ Request \/ Receive \/ Trn \/ Autojoin

-----------------------------------------------------------------------------
(* The receive thread.  On a closed connection it reads empty frames for     *)
(* ever, which change nothing.                                               *)

alive == main # "dead"

ReceiveFrame ==
    /\ alive /\ receiver = "read" /\ toBot # <<>>
    /\ frame' = Head(toBot)
    /\ toBot' = Tail(toBot)
    /\ receiver' = "handle"
    /\ UNCHANGED <<mainVars, data, todo, serverVars, mutex, ws, toServer>>

Handle ==
    /\ alive /\ receiver = "handle" /\ mutex = "free"
    /\ mutex' = "receiver"
    /\ todo' = handle_message(frame)
    /\ receiver' = "do"
    /\ UNCHANGED <<mainVars, data, frame, serverVars, ws, toBot, toServer>>

DoStore ==
    /\ alive /\ receiver = "do" /\ todo # <<>>
    /\ LET o == Head(todo) IN
       /\ o.op = "store"
       /\ \/ /\ TornReads /\ data[o.string] # "torn"
             /\ data' = [data EXCEPT ![o.string] = "torn"]
             /\ UNCHANGED todo
          \/ /\ TornReads => data[o.string] = "torn"
             /\ data' = [data EXCEPT ![o.string] = o.value]
             /\ todo' = Tail(todo)
    /\ UNCHANGED <<mainVars, receiver, frame, serverVars, mutex, ws, toBot, toServer>>

(* Mutant: send takes the lock that stands commented out in it. *)
DoSendLocked ==
    /\ alive /\ receiver = "do" /\ todo # <<>> /\ mutex = "free"
    /\ Head(todo).op = "send"
    /\ toServer' = Append(toServer, Head(todo).msg)
    /\ todo' = Tail(todo)
    /\ UNCHANGED <<mainVars, receiver, data, frame, serverVars, mutex, ws, toBot>>

(* On a closed connection the message is lost, or the exception ends the     *)
(* handling of the frame, is caught by the loop and the mutex released.      *)
DoSend ==
    /\ alive /\ receiver = "do" /\ todo # <<>>
    /\ Head(todo).op = "send"
    /\ \/ ws = "open" /\ toServer' = Append(toServer, Head(todo).msg) /\ todo' = Tail(todo)
       \/ ws = "closed" /\ todo' \in {<<>>, Tail(todo)} /\ UNCHANGED toServer
    /\ UNCHANGED <<mainVars, receiver, data, frame, serverVars, mutex, ws, toBot>>

(* One of the challenges listed, in the order of the keys, which is any. *)
DoAccept ==
    /\ alive /\ receiver = "do" /\ todo # <<>>
    /\ Head(todo).op = "accept"
    /\ \/ Head(todo).from = {} /\ todo' = Tail(todo)
       \/ \E u \in Head(todo).from :
             todo' = (IF Format[u] \in AcceptedFormats THEN accept_challenge(u) ELSE <<>>)
                       \o <<AcceptFrom(Head(todo).from \ {u})>> \o Tail(todo)
    /\ UNCHANGED <<mainVars, receiver, data, frame, serverVars, mutex, ws, toBot, toServer>>

Done ==
    /\ alive /\ receiver = "do" /\ todo = <<>>
    /\ mutex' = "free"
    /\ frame' = NoFrame
    /\ receiver' = "read"
    /\ UNCHANGED <<mainVars, data, todo, serverVars, ws, toBot, toServer>>

Receiver == ReceiveFrame \/ Handle \/ DoStore \/ DoSend \/ DoAccept \/ Done

-----------------------------------------------------------------------------
(* The server and the bot's challengers *)

Challenges(from) == [type |-> "updatechallenges", from |-> from]

Serve ==
    /\ toServer # <<>>
    /\ toServer' = Tail(toServer)
    /\ LET m == Head(toServer) IN
       \/ /\ m.cmd = "trn" /\ m.assertion = "valid"
          /\ serverName' = m.name
          /\ toBot' = Append(toBot, [type |-> "updateuser", name |-> m.name])
          /\ UNCHANGED <<team, pending>>
       \/ /\ m.cmd = "utm"
          /\ team' = TRUE
          /\ UNCHANGED <<serverName, pending, toBot>>
       \/ /\ m.cmd = "accept" /\ m.user \in pending
          /\ pending' = pending \ {m.user}
          /\ toBot' = Append(toBot, Challenges(pending'))
          /\ UNCHANGED <<serverName, team>>
       \/ /\ \/ m.cmd = "trn" /\ m.assertion # "valid"
             \/ m.cmd = "autojoin"
             \/ m.cmd = "accept" /\ m.user \notin pending
          /\ UNCHANGED <<serverName, team, pending, toBot>>
    /\ UNCHANGED <<mainVars, receiverVars, made, mutex, ws>>

(* A user challenges the bot under its name, once at a time. *)
Challenge(u) ==
    /\ ws = "open" /\ serverName = BotName
    /\ u \notin pending /\ made[u] < MaxChallenges
    /\ pending' = pending \cup {u}
    /\ made' = [made EXCEPT ![u] = @ + 1]
    /\ toBot' = Append(toBot, Challenges(pending'))
    /\ UNCHANGED <<mainVars, receiverVars, serverName, team, mutex, ws, toServer>>

Withdraw(u) ==
    /\ ws = "open" /\ u \in pending
    /\ pending' = pending \ {u}
    /\ toBot' = Append(toBot, Challenges(pending'))
    /\ UNCHANGED <<mainVars, receiverVars, serverName, team, made, mutex, ws, toServer>>

Close ==
    /\ Closes /\ ws = "open"
    /\ ws' = "closed"
    /\ toServer' = <<>>
    /\ toBot' \in {toBot, <<>>}
    /\ UNCHANGED <<mainVars, receiverVars, serverVars, mutex>>

Init ==
    /\ main = "connect" /\ receiver = "none"
    /\ mutex = "free" /\ ws = "null"
    /\ data = [username |-> BotName, chall_str |-> "", chall_id |-> ""]
    /\ loginName = BotName
    /\ asked = [id |-> "", str |-> ""] /\ response = ""
    /\ frame = NoFrame /\ todo = <<>>
    /\ toBot = <<>> /\ toServer = <<>>
    /\ serverName = GuestName /\ team = FALSE
    /\ pending = {} /\ made = [u \in Challengers |-> 0]

Next ==
    \/ Main \/ Receiver \/ Serve \/ Close
    \/ \E u \in Challengers : Challenge(u) \/ Withdraw(u)

Spec == Init /\ [][Next]_vars

(* Both threads and the server go on; a challenge, a close or a hoisted test *)
(* need not come.                                                            *)
FairSpec ==
    Spec /\ WF_vars(Main /\ main' # "spin") /\ WF_vars(Receiver) /\ WF_vars(Serve)

-----------------------------------------------------------------------------
(* Properties *)

(* Types *)
TypeOK ==
    /\ main \in MainSteps
    /\ receiver \in {"none", "read", "handle", "do"}
    /\ mutex \in {"free", "main", "receiver"}
    /\ ws \in {"null", "open", "closed"}
    /\ data \in Contents
    /\ loginName \in Names
    /\ asked \in [id : {"", "torn", "whole"}, str : {"", "torn", "whole"}]
    /\ response \in {"", "valid", "invalid"}
    /\ frame \in Frames /\ todo \in Seq(Ops)
    /\ toBot \in Seq(Frames) /\ toServer \in Seq(Message)
    /\ serverName \in {BotName, GuestName} /\ team \in BOOLEAN
    /\ pending \in SUBSET Challengers
    /\ made \in [Challengers -> 0..MaxChallenges]

(* No message is sent without a connection: connect's failure is only        *)
(* printed (PSUser.hpp:28) and login called all the same, so it is the wait  *)
(* for credentials, which only a connection brings, that keeps main from     *)
(* writing through a null websocket.                                         *)
NeverSendsUnconnected == main \in {"trn", "autojoin"} => ws # "null"

(* "wait for credentials to be received" (PSUser.hpp:36): login asks for an  *)
(* assertion with both credentials, and, unless it can see a string half     *)
(* assigned, with what the server sent.                                      *)
CredentialsWhole ==
    main \in {"receive", "trn"} =>
        /\ asked.id # "" /\ asked.str # ""
        /\ ~TornReads => asked.id = "whole" /\ asked.str = "whole"

(* Whenever every frame has been handled, the bot goes by the name the server*)
(* knows it by, which is how it tells its own player line from the           *)
(* opponent's (PSUser.hpp:314), however login and the updates interleave.    *)
NamesAgree ==
    ws = "open" /\ receiver = "read" /\ toBot = <<>> => data.username = serverName

(* When the server takes the acceptance of a challenge that needs a team, it *)
(* has one, whatever main sends in between (PSUser.hpp:67-68).               *)
TeamBeforeAccept ==
    \A i \in DOMAIN toServer :
        toServer[i].cmd = "accept" /\ Format[toServer[i].user] = "gen1ou" =>
            team \/ \E j \in 1..(i - 1) : toServer[j].cmd = "utm"

(* Once connected, login and the join of the lobby come to an end, unless the*)
(* connection does or the compiled loop spins, and then the server knows the *)
(* bot by the name of a valid login: with two threads at one mutex, a loop   *)
(* that polls and an answer that comes to the other thread.                  *)
LoginEnds ==
    ws = "open" ~> \/ ws = "closed" \/ main \in {"spin", "dead"}
                   \/ main = "idle" /\ (response = "valid" => serverName = BotName)

Answered(u) == \/ u \notin pending \/ Format[u] \notin AcceptedFormats
               \/ ws = "closed" \/ main = "dead"

(* A challenge to an accepted format is accepted, or withdrawn: handling a   *)
(* list never blocks on the mutex it is handled under.                       *)
ChallengesAnswered == \A u \in Challengers : []<>Answered(u)
=============================================================================
