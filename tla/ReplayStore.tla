------------------------------ MODULE ReplayStore ------------------------------
(***************************************************************************)
(* The replay store of team_prediction: scrape.py lists the newest battles *)
(* of the replay site and goes through them, dbutils.insert writes a       *)
(* player's team and what was known of it turn by turn, with a commit after*)
(* every statement; create_db.py drops the tables one by one and makes them*)
(* again.  The two scripts are not run at once.                            *)
(*                                                                         *)
(* Of a team only its size is kept: the samples of a team of n Pokemon are *)
(* its first 1, 2, ..., n - 1 revealed.  At this commit scrape.py:82, which*)
(* calls insert, is commented out; the module has the call.                *)
(***************************************************************************)
EXTENDS Integers, Sequences

CONSTANTS
    NumBattles,  \* bound: battles uploaded, numbered by age
    PageSize,    \* battles on a page of the site
    Size,        \* the Pokemon each player of a battle reveals
    Viable       \* whether they are all in legal_pokemon

VARIABLES
    battle_ids, labels, samples,   \* the tables; a row's number is its rowid
    tables,      \* the tables that exist
    pc,          \* the next step of the script that runs, "idle" if none does
    battle_urls, \* the battles still to go through
    iplayer,     \* the local iplayer
    rowid,       \* the local rowid of insert
    known,       \* the samples of insert committed so far
    uploaded     \* the battles on the site

(* Not in the program: *)
VARIABLES
    listed,      \* the battles a scrape has listed since the store was made
    disturbed    \* a script was interrupted, or the list grew as it was read

rows   == <<battle_ids, labels, samples>>
store  == <<rows, tables>>
locals == <<battle_urls, iplayer, rowid, known>>
vars   == <<store, pc, locals, uploaded, listed, disturbed>>

Battles == 1..NumBattles
Players == {0, 1}

ASSUME ReplayAssumption ==
    /\ NumBattles \in Nat /\ PageSize \in Nat \ {0}
    /\ Size \in [Battles -> [Players -> Nat]]
    /\ Viable \in [Battles -> [Players -> BOOLEAN]]

(* player is not a column: it tells a battle's two labels apart. *)
Table  == {"battle_ids", "labels", "samples"}
Label  == [battle : Battles, player : Players]
Sample == [label : Nat, known : Nat]

battle == Head(battle_urls)

(* The samples of a label. *)
samplesOf(l) == 1..(Size[l.battle][l.player] - 1)

-----------------------------------------------------------------------------
(* scrape.py *)

(* Page i of the site, newest first. *)
page(i) ==
    LET newest == uploaded - (i - 1) * PageSize
        oldest == IF newest > PageSize THEN newest - PageSize + 1 ELSE 1
    IN [k \in 1..(IF newest < oldest THEN 0 ELSE newest - oldest + 1) |-> newest + 1 - k]

FetchFirst ==
    /\ pc = "idle"
    /\ battle_urls' = page(1)
    /\ pc' = "second"
    /\ UNCHANGED <<store, iplayer, rowid, known, uploaded, listed, disturbed>>

FetchSecond ==
    /\ pc = "second"
    /\ battle_urls' = battle_urls \o page(2)
    /\ listed' = listed \cup {battle_urls'[k] : k \in DOMAIN battle_urls'}
    /\ pc' = "battle"
    /\ UNCHANGED <<store, iplayer, rowid, known, uploaded, disturbed>>

(* Mutant: every battle is gone through. *)
haveNone(b) == FALSE

already_have_battle(b) == b \in battle_ids

Finish ==
    /\ pc = "battle"
    /\ battle_urls # <<>> => "battle_ids" \in tables /\ already_have_battle(battle)
    /\ pc' = "idle" /\ battle_urls' = <<>>
    /\ UNCHANGED <<store, iplayer, rowid, known, uploaded, listed, disturbed>>

FetchBattle ==
    /\ pc = "battle"
    /\ battle_urls # <<>> /\ "battle_ids" \in tables /\ ~already_have_battle(battle)
    /\ iplayer' = 0
    /\ pc' = "player"
    /\ UNCHANGED <<store, battle_urls, rowid, known, uploaded, listed, disturbed>>

(* Mutant: a nonviable Pokemon drops the battle. *)
PlayerBreaks ==
    /\ pc = "player"
    /\ \/ /\ iplayer < 2 /\ Viable[battle][iplayer]
          /\ pc' = "insert"
          /\ UNCHANGED <<battle_urls, iplayer>>
       \/ /\ iplayer < 2 /\ ~Viable[battle][iplayer]
          /\ iplayer' = 2
          /\ UNCHANGED <<pc, battle_urls>>
       \/ /\ iplayer = 2
          /\ battle_urls' = Tail(battle_urls)
          /\ pc' = "battle"
          /\ UNCHANGED iplayer
    /\ UNCHANGED <<store, rowid, known, uploaded, listed, disturbed>>

(* "Handle nonviable Pokemon by just not including the player". *)
Player ==
    /\ pc = "player"
    /\ \/ /\ iplayer < 2 /\ Viable[battle][iplayer]
          /\ pc' = "insert"
          /\ UNCHANGED <<battle_urls, iplayer>>
       \/ /\ iplayer < 2 /\ ~Viable[battle][iplayer]
          /\ iplayer' = iplayer + 1
          /\ UNCHANGED <<pc, battle_urls>>
       \/ /\ iplayer = 2
          /\ battle_urls' = Tail(battle_urls)
          /\ pc' = "battle"
          /\ UNCHANGED iplayer
    /\ UNCHANGED <<store, rowid, known, uploaded, listed, disturbed>>

-----------------------------------------------------------------------------
(* dbutils.insert: one commit a step, of a row of a table that exists *)

InsertBattle ==
    /\ pc = "insert" /\ "battle_ids" \in tables
    /\ battle_ids' = battle_ids \cup {battle}
    /\ pc' = "label"
    /\ UNCHANGED <<labels, samples, tables, locals, uploaded, listed, disturbed>>

(* Mutant: the rowid is read before the insertion. *)
InsertLabelStale ==
    /\ pc = "label" /\ "labels" \in tables
    /\ labels' = Append(labels, [battle |-> battle, player |-> iplayer])
    /\ rowid' = Len(labels) /\ known' = 0
    /\ pc' = "samples"
    /\ UNCHANGED <<battle_ids, samples, tables, battle_urls, iplayer,
                   uploaded, listed, disturbed>>

InsertLabel ==
    /\ pc = "label" /\ "labels" \in tables
    /\ labels' = Append(labels, [battle |-> battle, player |-> iplayer])
    /\ rowid' = Len(labels') /\ known' = 0
    /\ pc' = "samples"
    /\ UNCHANGED <<battle_ids, samples, tables, battle_urls, iplayer,
                   uploaded, listed, disturbed>>

InsertSample ==
    /\ pc = "samples" /\ "samples" \in tables
    /\ known + 1 < Size[battle][iplayer]
    /\ known' = known + 1
    /\ samples' = Append(samples, [label |-> rowid, known |-> known'])
    /\ UNCHANGED <<battle_ids, labels, tables, pc, battle_urls, iplayer, rowid,
                   uploaded, listed, disturbed>>

InsertReturn ==
    /\ pc = "samples" /\ known + 1 >= Size[battle][iplayer]
    /\ iplayer' = iplayer + 1
    /\ pc' = "player"
    /\ UNCHANGED <<store, battle_urls, rowid, known, uploaded, listed, disturbed>>

Scrape ==
    \/ FetchFirst \/ FetchSecond \/ Finish \/ FetchBattle \/ Player
    \/ InsertBattle \/ InsertLabel \/ InsertSample \/ InsertReturn

-----------------------------------------------------------------------------

(* create_db.py: one statement a step.  Where there is no transaction, and a *)
(* drop or create table opens none, each is committed by itself; the commits *)
(* of :7 and :65 find nothing to do.                                         *)

DropBattles ==
    /\ pc = "idle"
    /\ pc' = "drop samples"
    /\ tables' = tables \ {"battle_ids"} /\ battle_ids' = {}
    /\ listed' = {} /\ disturbed' = FALSE
    /\ UNCHANGED <<labels, samples, locals, uploaded>>

(* Mutant: the tables are dropped in the order they were made. *)
DropLabelsFirst ==
    /\ pc = "drop samples"
    /\ pc' = "drop labels"
    /\ tables' = tables \ {"labels"} /\ labels' = <<>>
    /\ UNCHANGED <<battle_ids, samples, locals, uploaded, listed, disturbed>>

DropSamples ==
    /\ pc = "drop samples"
    /\ pc' = "drop labels"
    /\ tables' = tables \ {"samples"} /\ samples' = <<>>
    /\ UNCHANGED <<battle_ids, labels, locals, uploaded, listed, disturbed>>

DropLabels ==
    /\ pc = "drop labels"
    /\ pc' = "create battle_ids"
    /\ tables' = tables \ {"labels"} /\ labels' = <<>>
    /\ UNCHANGED <<battle_ids, samples, locals, uploaded, listed, disturbed>>

CreateBattles ==
    /\ pc = "create battle_ids"
    /\ pc' = "create labels"
    /\ tables' = tables \cup {"battle_ids"}
    /\ UNCHANGED <<rows, locals, uploaded, listed, disturbed>>

CreateLabels ==
    /\ pc = "create labels"
    /\ pc' = "create samples"
    /\ tables' = tables \cup {"labels"}
    /\ UNCHANGED <<rows, locals, uploaded, listed, disturbed>>

CreateSamples ==
    /\ pc = "create samples"
    /\ pc' = "idle"
    /\ tables' = tables \cup {"samples"}
    /\ UNCHANGED <<rows, locals, uploaded, listed, disturbed>>

Create ==
    \/ DropBattles \/ DropSamples \/ DropLabels
    \/ CreateBattles \/ CreateLabels \/ CreateSamples

-----------------------------------------------------------------------------

(* A request or a statement fails, as it does if its table is missing, which *)
(* nothing catches, or the script is stopped; what is committed stays.       *)
Crash ==
    /\ pc # "idle"
    /\ pc' = "idle" /\ battle_urls' = <<>>
    /\ disturbed' = TRUE
    /\ UNCHANGED <<store, iplayer, rowid, known, uploaded, listed>>

Upload ==
    /\ uploaded < NumBattles
    /\ uploaded' = uploaded + 1
    /\ disturbed' = (disturbed \/ pc = "second")
    /\ UNCHANGED <<store, pc, locals, listed>>

(* There is no database yet. *)
Init ==
    /\ battle_ids = {} /\ labels = <<>> /\ samples = <<>> /\ tables = {}
    /\ pc = "idle" /\ battle_urls = <<>> /\ iplayer = 0 /\ rowid = 0 /\ known = 0
    /\ uploaded \in 0..NumBattles
    /\ listed = {} /\ disturbed = FALSE

Next == Scrape \/ Crash \/ Create \/ Upload

Spec == Init /\ [][Next]_vars

-----------------------------------------------------------------------------
(* Properties *)

ScrapeSteps == {"second", "battle", "player", "insert", "label", "samples"}
CreateSteps == {"drop samples", "drop labels",
                "create battle_ids", "create labels", "create samples"}

(* Types *)
TypeOK ==
    /\ battle_ids \in SUBSET Battles /\ tables \in SUBSET Table
    /\ labels \in Seq(Label) /\ samples \in Seq(Sample)
    /\ pc \in ScrapeSteps \cup CreateSteps \cup {"idle"}
    /\ battle_urls \in Seq(Battles)
    /\ iplayer \in 0..2 /\ rowid \in Nat /\ known \in Nat
    /\ uploaded \in 0..NumBattles
    /\ listed \in SUBSET Battles /\ disturbed \in BOOLEAN

(* Whatever statements of either script a crash cut off, a sample refers to a*)
(* label, of whose team it is a proper part, and, while there is a table of  *)
(* battles, a label to one of it: SQLite enforces neither of the foreign keys*)
(* create_db.py:36 and :61 declare, so the order of the commits has to.      *)
Linked ==
    /\ "battle_ids" \in tables =>
          \A i \in DOMAIN labels : labels[i].battle \in battle_ids
    /\ \A i \in DOMAIN samples :
          /\ samples[i].label \in DOMAIN labels
          /\ samples[i].known \in samplesOf(labels[samples[i].label])

(* "Don't add the samples if we've already seen the battle" (scrape.py:40):  *)
(* over any number of scrapes, crashes in between the commits and pages that *)
(* overlap, no player's team and no sample of one is stored twice.           *)
StoredOnce ==
    /\ \A i, j \in DOMAIN labels : labels[i] = labels[j] => i = j
    /\ \A i, j \in DOMAIN samples : samples[i] = samples[j] => i = j

(* All there is to store of a battle is stored. *)
Complete(b) ==
    \A p \in Players : Viable[b][p] =>
        \E r \in DOMAIN labels :
            /\ labels[r] = [battle |-> b, player |-> p]
            /\ \A k \in samplesOf(labels[r]) :
                  \E i \in DOMAIN samples : samples[i] = [label |-> r, known |-> k]

(* A scrape stops at the first battle it has (scrape.py:43) and still leaves *)
(* out no battle it has listed: the ones behind were done before.  That needs*)
(* every script so far to have run to its end on a list that stood still; one*)
(* crash, or one upload between the two pages, and they may be lost for good.*)
NothingLeftOut == pc = "idle" /\ ~disturbed => \A b \in listed : Complete(b)
=============================================================================
