# Bullbot: specification and proofs

Bullbot is a Pokemon Showdown bot in C++ (`src/PSBot`), an offline battle
simulator with a Monte-Carlo tree search player (`src/simulator`), a small
neural-network library (`libs/Nemesis`) and Python scripts that collect replays
(`team_prediction`). This directory specifies the parts whose correctness is a
matter of order, state and protocol, checks them with TLC on small instances and
proves the most important properties with TLAPS for all parameters.

Paths below are relative to the repository.

## 1. Inventory

| Component | State | Operations | Hard behaviour | Correct when |
|---|---|---|---|---|
| Message handler, `src/PSBot/PSUser.hpp`, `Data.hpp` | per room: own team, opponent's team, actions on offer, player ID; user name; challenge string | one handler per kind of line; `move` | actions stored by one frame are used by a later one; lines of both players in one frame; nicknames and other names the JSON data lacks; disabled moves; null pointers | every choice is asked for, listed and made on current data; the opponent is tracked and never forgotten; nothing but a name the data lacks ends the process |
| Connection and session, `PSConnection.hpp`, `BasePSUser.hpp`, `Main.cpp` | web socket, one buffer, receive thread, credentials | `connect`, `rcv_message_loop`, `send_msg`, `login`, `request_action` | the main thread polls strings the receive thread writes without the lock both should hold; a connection that fails is only printed; a frame longer than the buffer leaves the stream out of step; a closed socket reads as empty frames | nothing is sent unconnected; login starts with whole credentials and ends; bot and server agree on the bot's name; a team precedes the acceptance that needs it |
| Offline battle, `src/simulator/{Battle,Player}*.hpp` | two teams, who is out, the moves chosen, the count of Pokemon left, turn | `battleLoop`, `battleLogic`, `makeSwitchOnFaint`, `create` | switches to fainted slots; faints of both sides in a turn; a draw that loops until it succeeds | the loops end; counts agree with teams; one loser |
| MCTS and random sampling, `src/simulator/MoveFunctions.hpp` | the search tree, copies of the battle | `MCTS`, `randomSampling`, `randomAttack`, `moveFromInt` | one tree grown by thousands of rollouts; a result credited up a path; rollouts that at turn 20 search again; `memcpy` of containers | visits and wins add up; every move is tried; a rollout is credited to the move it played |
| In-bot rollouts, `src/PSBot/ai` | copies of both teams | `simulate`, `randomChoice`, `calcDamage` | both sides choose before either acts; switch numbers differ from `PSUser`'s; results written through unchecked; `battleOver` is never set | someone is always out; a switch means the Pokemon it was offered for; an attack hits who comes in |
| State vectors, `Data.hpp` `asVector`, `stateAsVector` | none | two conversions | unknown moves take fewer entries than known ones, unknown Pokemon none; more than four moves wrap a `uint` | as many entries as the learner has inputs |
| Nemesis, `libs/Nemesis`, and the learner of `ai/MoveFunctions.hpp` | layers and weights, the learner's copy of them, a file | `append_layer`, `pop_layer`, `finalize`, `propagate`, `backpropagate`, `update_values`, `load`, `save` | a call that throws half way; a file cut off; a file of another shape; weights that diverge | shapes agree wherever a network gets to; a failed call changes nothing |
| Replay store, `team_prediction/{scrape,dbutils,create_db}.py` | a SQLite store | `insert`, the scrape, `create_db` | a commit after every statement, of `create_db` too; a scrape that stops at the first battle it has; a list that grows while it is read | rows linked; nothing stored twice; nothing listed left out |
| Team predictors, `team_predictor*.py`, `TeamPrediction.hpp` | - | - | experiments without state; disabled code | not modelled |
| Third party | - | - | - | out of scope |

How they interact. `main` connects, which starts the receive thread, logs in and
then waits for the keyboard. The receive thread reads a frame and calls
`PSUser::handle_message`, which holds the data mutex while it splits the frame in
lines and handles them one after the other; a handler may call `move`, which asks
`randomChoice` for an action and sends a message on the socket from the same
thread. The server answers with further frames. The simulator is a separate
program: `battleLoop` asks each player's move function for a move, `MCTS` copies
the battle and calls `battleLogic` and `battleLoop` on the copy. `randomChoice` has
`runRandomSimulations`, the bot's own rollouts, beside it. The state vectors are made
for the learner, but nothing calls the two together yet: they meet in the number 312
(`ai/MoveFunctions.hpp:28`). The scripts only share the replay store.

The hazards these give rise to are listed with their lines in `PROJECT.json`.

## 2. Modules

| Module | Models | Role |
|---|---|---|
| `PSUser` | `PSUser::handle_message`, `PSUser::move`, `accept_challenge`, the look-ups of `Data.hpp` | component |
| `MCPSUser` | frames of two interleaving battles, with unknown names | instance |
| `PSUserProofs` | theorems about `PSUser` | proofs |
| `BotBattle` | `PSUser` and the battle server it talks to | composition |
| `RequestReply` | a choice is made when asked for, once | abstract specification |
| `MCBotBattle` | two Pokemon a side, both players owning the same two, or a third with a nickname | instance |
| `BotBattleProofs` | theorems about `BotBattle`, and `PSUser`'s carried over | proofs |
| `Battle` | `battleLoop`, `battleLogic`, `makeSwitchOnFaint`, MCTS's choices and rollouts | component |
| `Duel` | counts that fall one at a time until one side has lost | abstract specification |
| `MCBattle` | three Pokemon a side | instance |
| `BattleProofs` | theorems about `Battle` | proofs |
| `MCTS` | the tree of `MCTS`: selection, expansion, simulation, back-propagation, choice | component |
| `MCTSProofs` | theorems about `MCTS` | proofs |
| `Session` | `main`, `connect`, `login`, `request_action` and `send` beside `rcv_message_loop` and the lobby's handlers | component |
| `MCSession` | three challengers, one per kind of format | instance |
| `SessionProofs` | theorems about `Session` | proofs |
| `ReplayStore` | `scrape.py`, `dbutils.insert`, `create_db.py`, crashes and uploads | component |
| `MCReplayStore` | four battles on pages of one | instance |
| `ReplayStoreProofs` | theorems about `ReplayStore` | proofs |
| `Rollout` | `simulate` and `calcDamage` of `ai/Simulator.hpp` | component |
| `MCRollout` | three Pokemon a side | instance |
| `RolloutProofs` | theorems about `Rollout` | proofs |
| `Learner` | `MLP`, its layers and files, `TDLearner`, the lengths of state vectors | component and composition |
| `MCLearner` | the networks of `build_td_learner` and `build_test_net` | instance |
| `LearnerProofs` | theorems about `Learner` | proofs |

Operators whose comment begins with "Mutant:" are wrong variants of the definition
that follows. They are used by no specification; each documents a bug that one of
the properties catches.

### PSUser

One step is one line of a frame. A line is a record: `type` is the first token, the
other fields are the tokens the handler reads. A Pokemon, move, user or room is a
member of a constant set; `KnownPkmn` and `KnownMoves` are the names the JSON data
has, and a look-up of any other name throws, which ends the process because the
receive loop catches network exceptions only. A null pointer written through
(`PSUser.hpp:386` and the like) ends it too.

| Variable | Code |
|---|---|
| `username`, `challenge` | `BasePSUser::username`; whether `chall_str` and `chall_id` are stored |
| `battleData` | `PSUser::battleData`; `NoBattle` for a room not met, as `operator[]` inserts it |
| `curRoom`, `lines` | the local `curRoom`, and the rest of `parsedMessages` |
| `sent` | messages handed to the socket and not yet at the server |
| `crashed` | an exception or a null pointer has ended the process |

`Receive` is the entry of `handle_message` and hands over any frame whatever; the
handlers are `Room`, `Player`, `Request`, `Challstr`, `UpdateUser`,
`UpdateChallenges`, `Switch`, `Move`, `Faint`, `DamageOrHeal`, `StatusOrCure`,
`Boost`, `Turn` and `Printed`. `randomChoice` is a choice among the actions on offer.
Of a Pokemon, its numeric stats, types and level are left out: nothing in the
handler depends on them. The server's promise that a request lists the active
Pokemon first is part of the type `RequestLine`; without it the bot's numbering of
switches (index + 3) meets that of moves.

### BotBattle

The server is not in the repository. It is modelled from what the handler and the
notes rely on: a request frame precedes the frame that tells the turn; a player
whose Pokemon fainted is asked for a switch, with no turn line to follow, while the
other is told to wait; a trapped player may not switch; a switch swaps the Pokemon
coming in with the first of the list; the opponent may leave, which sends a `player`
line without a name. An attack may miss, hurt, heal, paralyse, cure, faint both, trap its
user (a move that goes on by itself, as Bide), or disable one of the bot's moves. All definitions of the server are external; the
handler's are those of `PSUser`.

A Pokemon goes by its ident, which the handler looks up (`PSUser.hpp:205`, `:323`,
`:336`); that is its nickname if it has one (`scrape.py:62`), so `Sides` and `MoveOf` may
name Pokemon and moves the data lacks. A request marks a disabled move, which the handler
does not read: `Listed` is what a request offers, `Legal` what the server accepts. A choice
that is not legal is answered with an error line, which the handler only prints
(`PSUser.hpp:267`), so the server goes on waiting (`refused`).

Frames travel in order. With `LongFrames` one may be longer than the receive loop's
buffer: POCO's `receiveFrame` then throws with the payload unread, and asks that the
connection be terminated (`Net/WebSocket.h:207-211`); the loop prints the exception and
calls it again, so what it reads from there on are pieces of payload. `outOfStep` marks
that; `Garbage` is what they may say, and in the proofs it is any set of frames.

### Battle

One step is one part of the body of `battleLoop`: `Choose0`, `Choose1`, `Order`,
`ActFirst`, `ActSecond`, `Check0`, `Check1`, `EndTurn`. Damage is any number of the
constant `Damages` (the formula multiplies floats by a random factor), random
choices are nondeterministic. `MCTS` is the choice of any of its ten moves, which is
all its search promises; `Rollout` starts one of the rollouts, in which both players
attack at random from a copy of the state: a behaviour goes on either as the battle or
as one of its rollouts, so every property is of both. `turn` is held at one more
than `MCTSTurn`, past which the code only counts.

### MCTS

A node is the sequence of moves that leads to it; `tree` maps each node visited to its
visits and wins, `cur`, `indxBest`, `i` and `win` are the locals of that name. A node in
`MCTSNode::children` that was never visited is one not in `tree`. `Expand` and `Descend`
are the two outcomes of one turn of the selection loop, `Backpropagate` one turn of the
loop over parents. Who wins a rollout is nondeterministic (`Battle` models rollouts).
UCB is a sum of real functions, of which `betterUCB` keeps the order it is certain of:
among the children of one node a child with a ratio of wins as high and visits as few,
and one of the two strictly, comes first, and among children that are equal the first
one does. The code's 2000 iterations are too few for `float` to blur that order. The
model chooses any child that no other is certain to beat. `randomSampling`, which
nothing calls, is left out.

### Session

Two threads, each with a program counter (`main`, `receiver`), and the data mutex.

| Variable | Code |
|---|---|
| `mutex` | `data_mutex_ptr`: held by `connect` until it returns and by `handle_message`; not by `login` nor `send`, whose lock is commented out |
| `ws` | `PSConnection::ws`: null, open, or closed by the server |
| `data` | `username`, `chall_str`, `chall_id`, which both threads use |
| `loginName`, `asked`, `response` | `login`'s parameter, the credentials in its request, the answer |
| `frame`, `todo` | the frame read; what its handler has yet to do: strings to store, messages to send, challenges to go through |
| `toBot`, `toServer` | what is on its way |
| `serverName`, `team`, `pending`, `made` | the server's: the bot's name, whether it has its team, challenges listed and made |

Reading and storing a string without a lock is a data race. `TornReads` says whether
the build lets the main thread see a string half assigned, `HoistsTest` whether it
tests `login`'s condition only once, as an optimising compiler may of a loop with an
empty body: a test that was false is then false for ever (`"spin"`). A message on a
closed connection is lost or throws; an exception in the main thread, which nothing
catches, or a write through a null `ws` ends the process, one in the receive thread
ends the handling of the frame. On a closed connection the loop reads empty frames for
ever, which changes nothing and is no step. `rcv_message_loop`'s own static mutex is
left out: there is one loop. The login with a password and the getters, which `main`
does not call, are left out too.

### ReplayStore

One step is one commit of `insert` or one page, battle or player of the scrape; `pc`
says which is next. The tables are sequences, a row's number its rowid, and a battle
is a number, by age; a page is the `PageSize` newest after those before it. Of a
team only its size matters: a team of *n* gives *n* - 1 samples. A player with a Pokemon
not in `legal_pokemon` is left out (`Viable`), so a battle may be gone through and
nothing of it stored. `Crash` is an HTTP request or a statement that fails, or the
script stopped; what is committed stays. `Upload` puts a new battle on the site, also
between the scrape's two pages.
`create_db.py` drops and makes its tables one statement at a time; Python's `sqlite3`
opens no transaction for such a statement, so each is committed by itself, and a crash may
come between any two. `tables` are the tables there are: a statement on one that is
missing fails. The two scripts are taken not to run at once. The call of `insert`
(`scrape.py:82`) is commented out at this commit; the model has it, as `insert` has no
other caller. `listed` and `disturbed` are history variables.

### Rollout

A turn is `Choose`, in which both sides choose among `validActions` and `first` is
settled, and two `Act`s. The bot's team has one Pokemon active, as a request gives it;
the opponent's has every Pokemon that was switched in marked, which is what `PSUser`
leaves there. `typed` says whether the move data has an entry `"type"`, which
`calcDamage` reads (`Simulator.hpp:23`) and the data file lacks: without it the first
attack of a standing Pokemon ends the process. The model has the other case too,
because the turns behind that line would otherwise never be reached; a known number
of moves below four (`KnownMoves`) makes `calcDamage` read past a vector, which may
end the process or go on.

### Learner

The caller's network `net`, the learner's copy `q_estimator` and the file. Of a layer
the shape is kept, its activation, and whether a weight has stopped being a number:
written to a file it becomes null and cannot be read back. A rectifier cannot either,
as its parameter is not written. `outcome` is how a call ended, which is decided by the
lengths `dot`, `add` and `multiply` compare; `update_values` trains the layers up to
the first whose length is wrong. `save` may leave the file cut off; `Restart` ends the
process anywhere, in a save included. `made` is a history variable that follows the
shape a network was finalized for. `teamLength` is the length of one team's part of
`stateAsVector`. Every move an opponent is seen to use is listed (`PSUser.hpp:366`), so a
list may be longer than four; what is left of four is then below zero, and the loop that
fills it up counts with a `uint` (`unknownMoves`).

## 3. What the runs check

| Run | Cfg | Result | Shows |
|---|---|---|---|
| `psuser` | `MCPSUser` | pass | Under any order of 20 frames of two battles and the lobby: types; the opponent's team lists a Pokemon and a move once; the switches on offer are those of the stored team; messages are in wire form; nothing known of an opponent is lost |
| `botbattle` | `MCBotBattle` | pass | Over every effect on HP and status, with one nicknamed opponent: every choice in flight is one the request waited on lists, made on the team the server plays with; the opponent's Pokemon, HP, faints and paralysis are tracked exactly; only the nickname ends the process |
| `botbattle_live` | `MCBotBattleLive` | pass | With double faints, trapping and disabled moves, refused choices, an opponent who leaves and a frame too long at any point: choices are listed ones and answer requests one to one (`RequestReply`), none a refusal; every step is one `PSUser` allows; every choice the server waits for is sent unless one was refused; replacements end |
| `battle` | `MCBattle` | pass | `makeSwitchOnFaint` ends; turns start with healthy Pokemon out; player 1's count is exact; the battle implements `Duel`; `battleLoop` ends unless attacks stop doing damage |
| `battle_count` | `MCBattleCount` | violated | Player 0's count of Pokemon remaining falls below the truth |
| `mcts` | `MCTS` | pass | Visits and wins of a node are those of its children and its own first rollout; no move is tried twice before all were tried |
| `mcts_move` | `MCTSMove` | violated | The result of a rollout goes to a first move it did not play |
| `session` | `MCSession` | pass | In every interleaving of the two threads, with a server out of reach or closing and builds that tear reads or hoist the test: nothing is sent unconnected, neither credential asked with is missing, names agree, a team precedes the acceptance that needs it, login ends, challenges are answered |
| `replay` | `MCReplayStore` | pass | Over any number of scrapes and new stores, crashes between any two statements of either script, and uploads: rows are linked and stored once, undisturbed scrapes leave nothing out |
| `rollout` | `MCRollout` | pass | Someone is always out; a switch means the Pokemon it was offered for; an attack hits who comes in |
| `learner` | `MCLearner` | pass | A finalized network fits its shape wherever it gets to; a call that throws changes nothing; the learner takes vectors of whole, fully known teams only |
| `learner_vectors` | `MCLearnerVectors` | violated | An opponent not fully known makes a vector of another length |

### Bounds

* `MCPSUser`: two rooms, so that frames of one battle come between those of the other;
  two known Pokemon, one unknown; two known moves, one unknown; every kind of line. The
  frames may come in any order and number: the state is finite because the handler
  only stores what it has not seen. `MaxSent = 0`: a frame is read when the messages
  before have left, so at most those of one frame are under way.
* `MCBotBattle`: two Pokemon a side is the least with a switch, a forced switch, a
  double faint and a last Pokemon; both sides own the same two, so that lines must be
  told apart by player. The bot's have one HP, the opponent's two, so that an HP can
  be stale. `MaxSent = 1`. What attacks do is given per player, so that
  each run has what its properties tell apart: `MCLasting` what stays (hurts, heals,
  paralysis and its cure), `MCFatal` what ends or holds a turn (faints, double faints,
  trapping, disabling). A miss is left to a second paralysis and to a "disable" that
  disables nothing, which do no more. In `MCBotBattle` the opponent has a third Pokemon, with a
  nickname: names that are known beside one that is not. In `MCBotBattleLive`, where
  liveness is checked, all have one HP, one of the four slots may be disabled (the bot
  treats all alike) and what is read out of step is an empty frame or a turn line without a
  room: enough for a message nobody asked for. That any other bytes are read as frames is
  what `psuser` has and what the theorems are for.
* `MCBattle`: three Pokemon a side, the least where one may faint, be switched to again
  and be counted twice while two more are left; HP 2 and damages 0, 1, 2 give attacks
  that fail, hurt and finish; `MCTSTurn = 1` lets both random and searched turns come
  before and after it; the speeds have a tie.
* `MCTS`: two moves and seven iterations grow trees of depth four, in which a node has
  been expanded, completed and descended through; `NodeRepresentsMove` fails within four.
* `MCSession`: three challengers, one to a format that needs a team, one to a format that
  needs none, one to a format refused, each challenging once. Two challenges accepted
  are the least whose messages can mix, with each other and with `main`'s. All failures
  are allowed, in a build that tears reads and may hoist the test. Of such a build
  `CredentialsWhole` says that neither credential is empty; that both are whole in a build
  without torn reads is what its theorem adds.
* `MCReplayStore`: four battles on pages of one, so that two pages are half the site and
  a battle can fall behind them; sizes with no, one and two samples; one battle with a
  player left out and one with both.
* `MCRollout`: three Pokemon a side, HP 1, damages 0 and 1: the least with a bench of two
  and a fainted Pokemon among them. Speeds have ties and each order. One Pokemon's moves
  are not all known.
* `MCLearner`: two layers of sizes 312 and 9, networks of 312 and of 1 input, samples of
  312 and of 1: every pair that fits and that does not. Teams of no, three, five and six
  Pokemon, fully known or not, with lists of up to six moves. `UintValues` is 1024 in place of 2^32,
  which TLC's integers fall short of: all that matters is that it is larger than 312.

The largest state spaces are those of `botbattle` (1.5 million states), `learner`
(0.9 million) and `session` (0.3 million).

Deadlock is checked except in `MCPSUser`, where frames may simply not come and a
crashed process takes no step, in `MCBotBattleLive`, where the battle ends, or stands still
after a refused choice or out of step (that it goes on otherwise is what the run's liveness
properties say), and in `MCSession`, which is quiet once all challenges are answered.

### Fairness

`BattleSpec` assumes weak fairness of the server as a whole (a battle goes on once it
has what it waits for) and of the receive thread (`Deliver` or a handler: the thread
never blocks but in `receiveFrame`, and a frame under way arrives). Nothing is assumed
of the opponent leaving or of any particular choice. `FairSpec` of `Battle` is weak
fairness of the one thread there is. `BattleEnds` excepts
battles in which from some time on no attack does damage: with moves of no power only, a
battle indeed never ends. In `Session` each thread goes on as long as it can, as the
operating system's scheduler lets it, and so does the server; challenges, withdrawals and
closing need never happen. A build that hoists `login`'s test may spin; the fairness of the
main thread is of its other steps, so that it is never forced to, and `LoginEnds` excepts
a thread that does. `ReplayStore` and `Learner` state no liveness: their loops are over
finite lists.

## 4. What is proved

The eight `...Proofs` modules are checked by TLAPS; all proofs are complete and rest on
each component's named assumption (`ConstantsAssumption`, `BattleAssumption`,
`SearchAssumption`, `SessionAssumption`, `ReplayAssumption`, `RolloutAssumption`,
`LearnerAssumption`), which say that constants are sets, functions and bounds of the right kind, and that
the bot's name is not a guest's; and that teams have at most six Pokemon, which is a rule
of the game. No assumption says that names are in the data, that moves are not disabled
or that at most four are listed.

* `PSUser`, for any rooms, names, moves and any well-formed frames:
  * `TypeCorrect`: by handler; only handlers that look a name up store it.
  * `OppTeamAlwaysDistinct` and `OppKnowledgeKept`: every step changes a room's
    opposing team in one of three ways (`Grown`): not at all, by a Pokemon of a new name,
    or in one Pokemon whose moves grow by at most one it did not have
    (`TeamStep`). Distinctness and monotony follow from that shape.
  * `SwitchActionsAlwaysMatch`: both fields are rebuilt from one request
    (`RequestOffer`) and no other step writes either.
  * `SentAlwaysInWireForm`: needs the strengthening `ActionsInRange`, that stored
    actions are in 0..8, because a turn line sends what a request stored before.
* `Battle`, for any team size, HP, damages, speeds and turn of MCTS:
  * the inductive invariant `IInv`. The properties alone are not inductive:
    between an attack and the faint check the count is one too high, so
    `CountBounded` gives each player the uncounted faint (`Uncounted`), and to know that
    there is at most one, the invariant says that attacks name the Pokemon out on
    both sides (`Aimed`) and that who switches second has not been hit
    (`SwitchesFirst`). `Load` is the quantity no action lowers (`ActLoads`).
  * `TypeCorrect`, `FaintSwitchAlwaysPossible`, `TurnsStartHealthy`,
    `AttackerCountAlwaysExact` from it, and `BattleIsDuel`: a faint check is a step of the
    Duel or a stutter, everything else a stutter.

* `Session`, for any challengers and formats, any number of challenges, and any of the
  failures and builds the constants tell:
  * `TypeCorrect` needs `ValidNamed`: only a login with the bot's own name gets a valid
    assertion, so the server never gives it a third name.
  * `NeverUnconnected` needs `Connected`: without a socket there is no receive thread, so
    no credential, so `main` is at `login`'s loop at most.
  * `CredentialsAlwaysWhole` needs `Whole`: where strings are stored at once, each is
    empty or whole, and `asked` is a copy made after both were seen.
  * `NamesAlwaysAgree` needs `NameInv`, which follows a name from the server through the
    frames, the frame in hand and the store to be done: the last of them is the server's.
  * `TeamAlwaysFirst` needs `TeamInv`: an acceptance in `todo` that needs a team has the
    team right before it or, being first, the team is with the server or on its way
    (`TeamFirst`).

* `BotBattle`, for any teams, names, HP, effects of attacks and frames too long:
  * `BattleIsPSUser`: a step of the server takes at most the head of `sent`, which is
    `PSUser`'s `Transmit` or a stutter; `Deliver` is `Receive`; the rest is a handler.
    `BattleInheritsPSUser` draws three of `PSUser`'s invariants over.
  * `AlwaysAnswersOnlyRequests`, that the composition implements `RequestReply` until the
    stream is read out of step, with any names and refusals, needs `Pending`: of the frames
    on their way, the frame in hand and the choices sent, at most
    one is an answer or asks for one, and if there is one the server awaits it. Most of
    the proof is that the frames of a turn ask at most once (`CommitAsks`), whatever
    happened in the turn.
  * `AlwaysChoosesListed`, `AlwaysChoosesInformed`, `OpponentAlwaysKnown` and
    `NeverBroughtDown`; the four properties speak of the time the stream is read in step,
    and the first two theorems of the time before the bot was told a strange name
    (`NamesMet`, which the third has in its statement; the fourth says that a crash needs
    one). `AllWellInStep` draws the conclusion where there are no frames too long and no
    strange names. None of the four is inductive: they speak of moments when all is
    handled, and a step from there sends frames that are handled many steps later.
    `BattleInv` says what is true in between. Its parts:
    - `Serves`, of the server alone: a Pokemon not sent out is unhurt, whoever is out has
      been shown, and no side is beaten while a replacement is awaited. It holds out
      of step too.
    - The bot's knowledge as a *view*: the ID it plays under and a note on each opposing
      Pokemon. `Reads(l, u, v)` is what handling a line does to a view, `Leads` a frame
      and `Chain` a queue; the invariant is that the lines in hand and then the frames on
      their way lead from the view the bot's store shows (`Shows`) to the server's truth
      (`Target`). A line that names a Pokemon not told of before reads nothing, so that
      a view which can be read on is also one no line crashes. The server's half is
      `AttackedInforms` and `SwitchedInforms`: the lines of a turn lead from the truth
      before to the truth after, line by line. The bot's half is `TellTold`: a handler
      does to the store what `Reads` does to the view.
    - `OnlyAsk` and `AskLater`: every request on its way is the one the server waits on
      now (`Asking`) and something that asks follows it; when none is on its way and the
      server waits, the bot holds it (`Fits`). So what a turn line sends, made of
      the actions of an earlier frame, is listed now (`OffersAreListed`).
    - `WellMade`: a room's line comes first and a nameless player line last in a frame, so
      that a line is handled in the right room and nothing is cut off that matters.
* `MCTS`, for any number of moves and iterations: `TypeCorrect` needs `TreeOK` (the tree is
  closed under parents and the search on it) and `CountersOK`; `AlwaysAllTriedFirst` needs
  `Reached`, that the search only goes below a node with all its moves tried.
  `VisitsAlwaysAddUp` and `WinsAlwaysAddUp` need what the sums are in the middle of an
  iteration. On the way down the node just left is `ahead` of the nodes below it by one
  visit (`VisitsInv`); on the way up the node the search stands at is `owed` the win the
  node below was given (`WinsInv`). That the sum over a node's children grows by what one
  child gains (`SumShift`) or a new child brings (`SumGrow`) rests on `SumAdds`: a sum
  does not depend on the order in which the recursion of the library's fold takes
  the elements.
* `ReplayStore`, for any battles, sizes of teams and of pages:
  * `AlwaysLinked` needs, of `create_db.py`, that samples are dropped before the labels
    they refer to (`Emptied`: what is empty while it runs), as a crash leaves what is
    dropped and what is not. It says nothing of labels while there is no table of battles;
    nothing is written to such a store.
  * `AlwaysLinked` and `AlwaysStoredOnce` need `Fresh`: what the scrape is about to insert
    is not there, because a battle seen is never gone through again.
  * `NeverLeftOut` needs `PassInv`. `Progress`: of the battle at hand all players before
    `iplayer`, and of that one the samples up to `known`, are stored. `Window`, which holds
    while nothing has disturbed a scrape: everything listed is complete or still to come,
    behind a battle that an earlier scrape recorded all still to come is complete, and from
    a recorded battle down to where a scrape would end now all is listed (`Reaches`).
* `Rollout`, for any size, HP, damages, speeds and marks on the opponent's team: `OneOutAlways`
  by the effect of a switch (`SwitchEffect`); `SwitchesSound`, that an attack cannot
  touch the bench (`AttackEffect`); `AttacksHitWhoIsOut` needs `InOrder`: who goes second
  only switches if the first does.
* `Learner`, for any shapes, layers and samples: `MadeFitsAlways` by `ResizedFits` and
  `UpdatedShape`; `FailuresHarmless` needs that a network that propagates a sample is
  updated without a throw. `WholeTeamsAlwaysOnly` puts together that a network made for 312
  numbers takes no other number (`TakesInputs`) and that a team's vector has at most 26
  numbers for each Pokemon with at most four moves, all 26 only where four are known, and
  more than 312 in all with a longer list, where the `uint` wraps (`LengthFacts`,
  `LongestTeam`). It needs that a `uint` counts to more than 312 and that teams have at
  most six Pokemon: 13 Pokemon of which two moves are known each would give 312 numbers too.

Type correctness of `ReplayStore`, `Rollout` and `Learner` is proved and not listed among
the runs' properties.

The sums over sets of `MCTSProofs` and the sum over a sequence of `LearnerProofs` are
recursive functions. That there is a function as the recursion describes it, and what it
returns, is proved by induction over the size of the argument: not with the library's
induction theorems, whose parameter is a predicate no installed prover can instantiate,
but with `SetInduction`, which has a set of numbers in its place and follows from `WFMin`.

Only model-checked: the liveness properties `RequestsAnswered`, `ReplacementsEnd`,
`BattleEnds`, `LoginEnds` and `ChallengesAnswered` (fairness and `ENABLED`
are out of the prover's reach). Every invariant and every action property of the passing
runs is a theorem.

## 5. Disagreements found

Each of these is shown by a run:

* `numAlive` counts a fainted Pokemon again when MCTS switches to it
  (`BattleFunctions.hpp:113`), against the "Pokemon remaining" of a `printf` that stands
  in a block commented out (`:146`).
* Below the root's children a rollout plays the leaf's move only
  (`MoveFunctions.hpp:183`), against "Nth node represents Nth move" (`:120`).
* What is unknown of an opponent is not filled in to the length the learner takes
  (`Data.hpp:179`), against "filling in -1s for unknown information" (`:178`):
  `VectorsFit` is violated, and `WholeTeamsOnly` says which vectors fit.

The modules have these as the code does them, and no property is written against them:

* A disabled move is offered (`PSUser.hpp:191-197`), against "Mark current pokemon's moves as
  legal" (`:190`). `Listed` has it and `Legal` has not; the choice is refused and not made
  again. `devnotes.txt:1-5` knows of moves marked valid that are not, for another reason,
  and says that sending one "will result in a bot crash": the handler only prints the
  error (`PSUser.hpp:267`), and the bot stops playing.
* After a frame too long for its buffer the loop goes on reading the same stream
  (`PSConnection.hpp:47-59`), against "the WebSocket connection must be terminated"
  (`libs/POCO/lib/native/include/Poco/Net/WebSocket.h:209-211`): `ReadGarbage`.
* `create_db.py` drops `battle_ids` before `labels`, each in a commit of its own: cut off in
  between it leaves labels without battles, against "foreign key(battle_id) references
  battle_ids(id)" (`create_db.py:36`), which SQLite does not enforce as it is used.
  `Linked` excepts a store without a table of battles.
* An attack in the bot's own rollouts never returns: `calcDamage` reads
  `moveData["type"]` (`ai/Simulator.hpp:23`), which the data file does not have, against
  "Get final damage from damage formula" (`:62`): `Dead`.
* The comment `PSUser.hpp:308`, "BUG: when opponent quits, parsedMessage.size==2 and we
  crash", is out of date: the handler of `player` returns (`:311`), and `NeverCrashes`
  holds with an opponent who leaves.
* `devnotes.txt:20-25` gives the rollouts' switches as [4, 8]; `ai/Simulator.hpp:88` numbers
  them from 4 on, which are 4..9 for six Pokemon.

Others were met while modelling and contradict nothing the repository says:

* every Pokemon the opponent has sent out stays marked active (`PSUser.hpp:329`), so
  `getActivePokemon` returns the lead; `OppKnowledge` states it;
* `login` waits for ever when `connect` failed (`PSUser.hpp:28`), which is all that keeps
  `main` from a null websocket; `NeverSendsUnconnected` and its proof show that;
* a `player` line without a name returns from the whole frame (`PSUser.hpp:312`);
* a Pokemon with a nickname ends the process as soon as the bot is told of it
  (`PSUser.hpp:205`, `:336`), and so does a move the data lacks: `NeverCrashes` says that
  nothing else does;
* a refused choice is not made again, so the battle stands still: `RequestsAnswered`
  excepts it;
* nothing sets `battleOver` (`ai/Simulator.hpp:67`): a rollout has no end but the process's;
* one crash of a scrape, or one upload between its pages, can leave battles out for good
  (`scrape.py:43`): `NothingLeftOut` has that hypothesis;
* `requests.get` has no timeout (`scrape.py:30`, `:47`): a site that does not answer stops
  the scrape, and no property says otherwise;
* with five moves seen of one Pokemon, `asVector` appends some 2^32 numbers (`Data.hpp:109`).

## 6. Not modelled, and the plan

The plan of the first stage (`PSUser`, `BotBattle`, `Battle`, `MCTS`, `Session`) and of the
second (`ReplayStore`, `Rollout`, the shapes of Nemesis and the state vectors, the proofs
of `BotBattle` and `MCTS`) is done. Left:

1. a second `connect`, which detaches the first receive thread, in `Session`; `main`
   connects once, so no behaviour of this program has it;
2. the login with a password, and the getters, which `main` does not call;
3. `randomSampling`, which nothing calls, in `MCTS`.

Why the rest stays out. Of the repository's 539 000 lines of code 536 000 are dlib, POCO
and the JSON library, vendored without change: of these the program uses a web socket, a
HTTP request and a JSON value, which are modelled from their use. The program's own code is
about 2 750 lines. Beside the third-party code, the data files, `EnvironmentSettings.hpp`
(generated), `TeamPrediction.hpp` (disabled by `#if 0`), the Keras predictors (no state of
their own), the SQL and HTML text, the reading of team and data files at start-up, and the
floating-point arithmetic of Nemesis and of the damage formula, which TLC cannot evaluate,
are left out. What `memcpy` lets a rollout share with its battle
(`simulator/MoveFunctions.hpp:177`) is undefined behaviour of containers the modules do not
tell apart from their contents.
