-------------------------- MODULE ReplayStoreProofs --------------------------
(* Proofs of the invariants of ReplayStore for any number of battles, pages  *)
(* of any length and teams of any size.                                      *)
EXTENDS ReplayStore, TLAPS

-----------------------------------------------------------------------------
(* Sequences *)

LEMMA AppendFacts ==
    ASSUME NEW S, NEW s \in Seq(S), NEW x \in S
    PROVE  /\ Append(s, x) \in Seq(S)
           /\ Len(s) \in Nat /\ Len(Append(s, x)) = Len(s) + 1
           /\ DOMAIN s = 1..Len(s)
           /\ DOMAIN Append(s, x) = 1..(Len(s) + 1)
           /\ \A j \in DOMAIN s : Append(s, x)[j] = s[j]
           /\ Append(s, x)[Len(s) + 1] = x
  OBVIOUS

LEMMA HeadTail ==
    ASSUME NEW S, NEW s \in Seq(S), s # <<>>
    PROVE  /\ Head(s) \in S /\ Head(s) = s[1] /\ 1 \in DOMAIN s
           /\ Tail(s) \in Seq(S)
           /\ Len(s) \in Nat /\ DOMAIN s = 1..Len(s)
           /\ DOMAIN Tail(s) = 1..(Len(s) - 1)
           /\ \A j \in DOMAIN Tail(s) : Tail(s)[j] = s[j + 1]
  OBVIOUS

(* A page lists the battles from its newest down. *)
LEMMA PageFacts ==
    ASSUME TypeOK, NEW i \in {1, 2}
    PROVE  LET newest == uploaded - (i - 1) * PageSize
               n      == IF newest > PageSize THEN PageSize
                         ELSE IF newest > 0 THEN newest ELSE 0
           IN  /\ page(i) \in Seq(Battles)
               /\ Len(page(i)) = n /\ DOMAIN page(i) = 1..n /\ n \in Nat
               /\ \A k \in 1..n : page(i)[k] = newest + 1 - k
  <1> DEFINE newest == uploaded - (i - 1) * PageSize
             n      == IF newest > PageSize THEN PageSize
                       ELSE IF newest > 0 THEN newest ELSE 0
             oldest == IF newest > PageSize THEN newest - PageSize + 1 ELSE 1
             len    == IF newest < oldest THEN 0 ELSE newest - oldest + 1
  <1>1. PageSize \in Nat \ {0} /\ NumBattles \in Nat /\ uploaded \in 0..NumBattles
    BY ReplayAssumption DEF TypeOK
  <1>2. (i - 1) * PageSize \in {0, PageSize}
    BY <1>1
  <1>3. newest \in Int /\ newest <= NumBattles
    BY <1>1, <1>2
  <1>4. len = n /\ n \in Nat /\ (\A k \in 1..n : newest + 1 - k \in Battles)
    BY <1>1, <1>3 DEF Battles
  <1>5. page(i) = [k \in 1..n |-> newest + 1 - k]
    BY <1>4 DEF page
  <1> HIDE DEF newest, n
  <1>6. page(i) \in [1..n -> Battles]
    BY <1>4, <1>5
  <1>7. page(i) \in Seq(Battles) /\ Len(page(i)) = n
    BY <1>4, <1>6
  <1> QED
    BY <1>4, <1>5, <1>7 DEF newest, n

(* Two pages of a list that stood still run from the newest battle down. *)
LEMMA PagesJoin ==
    ASSUME TypeOK
    PROVE  LET us == page(1) \o page(2)
               n  == IF uploaded > 2 * PageSize THEN 2 * PageSize ELSE uploaded
           IN  /\ us \in Seq(Battles) /\ DOMAIN us = 1..n /\ n \in Nat
               /\ \A k \in 1..n : us[k] = uploaded + 1 - k
  <1> DEFINE a  == page(1)
             b  == page(2)
             us == a \o b
             n  == IF uploaded > 2 * PageSize THEN 2 * PageSize ELSE uploaded
             n1 == IF uploaded > PageSize THEN PageSize ELSE uploaded
             n2 == IF uploaded > 2 * PageSize THEN PageSize
                   ELSE IF uploaded > PageSize THEN uploaded - PageSize ELSE 0
  <1>1. PageSize \in Nat \ {0} /\ uploaded \in Nat
    BY ReplayAssumption DEF TypeOK
  <1>2. /\ a \in Seq(Battles) /\ Len(a) = n1 /\ DOMAIN a = 1..n1
        /\ \A k \in 1..n1 : a[k] = uploaded + 1 - k
    <2>1. uploaded - (1 - 1) * PageSize = uploaded
      BY <1>1
    <2> QED
      BY <1>1, <2>1, PageFacts
  <1>3. /\ b \in Seq(Battles) /\ Len(b) = n2 /\ DOMAIN b = 1..n2
        /\ \A k \in 1..n2 : b[k] = uploaded - PageSize + 1 - k
    <2>1. uploaded - (2 - 1) * PageSize = uploaded - PageSize
      BY <1>1
    <2> QED
      BY <1>1, <2>1, PageFacts
  <1>4. n1 + n2 = n /\ n1 \in Nat /\ n2 \in Nat /\ n \in Nat /\ (n2 > 0 => n1 = PageSize)
    BY <1>1
  <1> HIDE DEF a, b, n, n1, n2
  <1>5. us \in Seq(Battles) /\ DOMAIN us = 1..n
    BY <1>2, <1>3, <1>4
  <1>6. \A k \in 1..n : us[k] = IF k <= n1 THEN a[k] ELSE b[k - n1]
    BY <1>2, <1>3, <1>4
  <1> HIDE DEF us
  <1>7. \A k \in 1..n : us[k] = uploaded + 1 - k
    <2> TAKE k \in 1..n
    <2>1. k <= n1 => k \in 1..n1
      BY <1>4
    <2>2. ~(k <= n1) => k - n1 \in 1..n2 /\ n1 = PageSize
      BY <1>4
    <2>3. CASE k <= n1
      BY <1>2, <1>6, <2>1, <2>3
    <2>4. CASE ~(k <= n1)
      <3>1. us[k] = uploaded - PageSize + 1 - (k - n1)
        BY <1>3, <1>6, <2>2, <2>4
      <3> QED
        BY <1>1, <1>4, <2>2, <2>4, <3>1
    <2> QED
      BY <2>3, <2>4
  <1> QED
    BY <1>4, <1>5, <1>7 DEF us, a, b, n

-----------------------------------------------------------------------------
(* Types *)


(* Where the scrape is: the battle it is at, and the row it has written last. *)
Position ==
    /\ pc \in {"player", "insert", "label", "samples"} => battle_urls # <<>>
    /\ pc \in {"insert", "label", "samples"} => iplayer \in Players
    /\ pc \in {"label", "samples"} => battle \in battle_ids
    /\ pc = "samples" =>
          /\ rowid \in DOMAIN labels
          /\ labels[rowid] = [battle |-> battle, player |-> iplayer]

TypeInv == TypeOK /\ Position

LEMMA Current ==
    ASSUME TypeInv, pc \in {"player", "insert", "label", "samples"}
    PROVE  /\ battle \in Battles
           /\ battle = battle_urls[1] /\ 1 \in DOMAIN battle_urls
           /\ pc # "player" => [battle |-> battle, player |-> iplayer] \in Label
  <1>1. battle_urls \in Seq(Battles) /\ battle_urls # <<>>
    BY DEF TypeInv, TypeOK, Position
  <1>2. battle \in Battles /\ battle = battle_urls[1] /\ 1 \in DOMAIN battle_urls
    BY <1>1, HeadTail DEF battle
  <1>3. pc # "player" => iplayer \in Players
    BY DEF TypeInv, Position
  <1> QED
    BY <1>2, <1>3 DEF Label

(* The step that comes next. *)
LEMMA NextStep ==
    ASSUME TypeOK, [Next]_vars
    PROVE  pc' \in ScrapeSteps \cup CreateSteps \cup {"idle"}
  <1>1. CASE Scrape
    <2>1. pc' \in ScrapeSteps \cup {"idle"}
      BY <1>1 DEF Scrape, FetchFirst, FetchSecond, Finish, FetchBattle, Player, InsertBattle,
                  InsertLabel, InsertSample, InsertReturn, ScrapeSteps
    <2> QED
      BY <2>1
  <1>2. CASE Create
    <2>1. pc' \in CreateSteps \cup {"idle"}
      BY <1>2 DEF Create, DropBattles, DropSamples, DropLabels, CreateBattles, CreateLabels,
                  CreateSamples, CreateSteps
    <2> QED
      BY <2>1
  <1>3. CASE Crash
    BY <1>3 DEF Crash
  <1>4. CASE Upload \/ UNCHANGED vars
    BY <1>4 DEF Upload, vars, TypeOK
  <1> QED
    BY <1>1, <1>2, <1>3, <1>4 DEF Next

LEMMA TypeInvStep ==
    ASSUME TypeInv, [Next]_vars
    PROVE  TypeInv'
  <1> USE DEF TypeInv
  <1>0. pc' \in ScrapeSteps \cup CreateSteps \cup {"idle"}
    BY NextStep
  <1>1. CASE FetchFirst
    BY <1>0, <1>1, PageFacts DEF FetchFirst, TypeOK, Position, store, rows
  <1>2. CASE FetchSecond
    <2>1. page(2) \in Seq(Battles)
      BY PageFacts
    <2>2. battle_urls' \in Seq(Battles)
      BY <1>2, <2>1 DEF FetchSecond, TypeOK
    <2>3. {battle_urls'[k] : k \in DOMAIN battle_urls'} \subseteq Battles
      BY <2>2
    <2> QED
      BY <1>0, <1>2, <2>2, <2>3 DEF FetchSecond, TypeOK, Position, store, rows
  <1>3. CASE Finish \/ Crash
    <2>1. <<>> \in Seq(Battles)
      OBVIOUS
    <2> QED
      BY <1>0, <1>3, <2>1 DEF Finish, Crash, TypeOK, Position, store, rows
  <1>4. CASE FetchBattle
    BY <1>0, <1>4 DEF FetchBattle, TypeOK, Position, store, rows
  <1>5. CASE Player
    <2>1. battle_urls \in Seq(Battles) /\ battle_urls # <<>> /\ pc = "player"
      BY <1>0, <1>5 DEF Player, TypeOK, Position
    <2>2. Tail(battle_urls) \in Seq(Battles)
      BY <2>1, HeadTail
    <2>3. iplayer < 2 => iplayer + 1 \in 0..2 /\ iplayer \in Players
      BY DEF TypeOK, Players
    <2> QED
      BY <1>0, <1>5, <2>1, <2>2, <2>3 DEF Player, TypeOK, Position, store, rows, battle
  <1>6. CASE InsertBattle
    BY <1>0, <1>6, Current DEF InsertBattle, TypeOK, Position, locals, battle
  <1>7. CASE InsertLabel
    <2> DEFINE l == [battle |-> battle, player |-> iplayer]
    <2>1. l \in Label /\ labels \in Seq(Label)
      BY <1>7, Current DEF InsertLabel, TypeOK
    <2>2. labels' = Append(labels, l) /\ rowid' = Len(labels')
      BY <1>7 DEF InsertLabel
    <2> HIDE DEF l
    <2>3. /\ labels' \in Seq(Label) /\ rowid' \in Nat /\ rowid' \in DOMAIN labels'
          /\ labels'[rowid'] = l
      BY <2>1, <2>2, AppendFacts
    <2> QED
      BY <1>0, <1>7, <2>3 DEF InsertLabel, TypeOK, Position, battle, l
  <1>8. CASE InsertSample
    <2>1. [label |-> rowid, known |-> known'] \in Sample /\ known' \in Nat
      BY <1>8 DEF InsertSample, TypeOK, Sample
    <2>2. samples' \in Seq(Sample)
      BY <1>8, <2>1, AppendFacts DEF InsertSample, TypeOK
    <2> QED
      BY <1>0, <1>8, <2>1, <2>2 DEF InsertSample, TypeOK, Position, battle
  <1>9. CASE InsertReturn
    <2>1. iplayer' \in 0..2
      BY <1>0, <1>9 DEF InsertReturn, TypeOK, Position, Players
    <2> QED
      BY <1>0, <1>9, <2>1 DEF InsertReturn, TypeOK, Position, store, rows, battle
  <1>10. CASE Create
    <2>1. <<>> \in Seq(Label) /\ <<>> \in Seq(Sample)
      OBVIOUS
    <2>2. TypeOK'
      <3>1. tables' \in SUBSET Table
        BY <1>10 DEF Create, DropBattles, DropSamples, DropLabels, CreateBattles,
                     CreateLabels, CreateSamples, TypeOK, Table
      <3> QED
        BY <1>0, <1>10, <2>1, <3>1
        DEF Create, DropBattles, DropSamples, DropLabels, CreateBattles, CreateLabels,
            CreateSamples, TypeOK, locals, rows
    <2> QED
      BY <1>10, <2>2
      DEF Create, DropBattles, DropSamples, DropLabels, CreateBattles, CreateLabels,
          CreateSamples, Position, locals, rows
  <1>11. CASE Upload
    <2>1. uploaded' \in 0..NumBattles
      BY <1>11, ReplayAssumption DEF Upload, TypeOK
    <2> QED
      BY <1>0, <1>11, <2>1 DEF Upload, TypeOK, Position, store, rows, locals, battle
  <1>12. CASE UNCHANGED vars
    BY <1>0, <1>12 DEF vars, store, rows, locals, TypeOK, Position, battle
  <1> QED
    BY <1>1, <1>2, <1>3, <1>4, <1>5, <1>6, <1>7, <1>8, <1>9, <1>10, <1>11, <1>12
    DEF Next, Scrape

LEMMA TypeInvAlways == Spec => []TypeInv
  <1>1. Init => TypeInv
    <2> SUFFICES ASSUME Init PROVE TypeInv
      OBVIOUS
    <2>1. labels \in Seq(Label) /\ samples \in Seq(Sample) /\ battle_urls \in Seq(Battles)
      BY DEF Init
    <2>2. TypeOK
      <3>1. /\ battle_ids \in SUBSET Battles /\ listed \in SUBSET Battles
            /\ disturbed \in BOOLEAN
        BY DEF Init
      <3>2. /\ iplayer \in 0..2 /\ rowid \in Nat /\ known \in Nat
            /\ uploaded \in 0..NumBattles /\ pc = "idle" /\ tables \in SUBSET Table
        BY DEF Init
      <3> QED
        BY <2>1, <3>1, <3>2 DEF TypeOK
    <2>3. Position
      BY DEF Init, Position
    <2> QED
      BY <2>2, <2>3 DEF TypeInv
  <1> QED
    BY <1>1, TypeInvStep, PTL DEF Spec

(* What create_db.py has dropped by now, and has not been filled again.      *)
Remaking == {"create battle_ids", "create labels", "create samples"}

Emptied ==
    /\ pc \in CreateSteps => battle_ids = {} /\ listed = {}
    /\ pc \in CreateSteps \ {"drop samples"} => samples = <<>>
    /\ pc \in Remaking => labels = <<>>

LEMMA EmptiedStep ==
    ASSUME Emptied, [Next]_vars
    PROVE  Emptied'
  <1> USE DEF CreateSteps, Remaking
  <1>1. CASE Scrape \/ Crash
    <2>1. pc' \notin CreateSteps
      BY <1>1 DEF Scrape, FetchFirst, FetchSecond, Finish, FetchBattle, Player, InsertBattle,
                  InsertLabel, InsertSample, InsertReturn, Crash
    <2> QED
      BY <2>1 DEF Emptied
  <1>2. CASE DropBattles
    BY <1>2 DEF DropBattles, Emptied
  <1>3. CASE DropSamples
    BY <1>3 DEF DropSamples, Emptied
  <1>4. CASE DropLabels
    BY <1>4 DEF DropLabels, Emptied
  <1>5. CASE CreateBattles \/ CreateLabels \/ CreateSamples
    <2>1. /\ pc \in Remaking /\ pc' \in Remaking \cup {"idle"}
          /\ UNCHANGED <<battle_ids, labels, samples, listed>>
      BY <1>5 DEF CreateBattles, CreateLabels, CreateSamples, rows
    <2> QED
      BY <2>1 DEF Emptied
  <1>6. CASE Upload \/ UNCHANGED vars
    <2>1. UNCHANGED <<pc, battle_ids, labels, samples, listed>>
      BY <1>6 DEF Upload, vars, store, rows
    <2> QED
      BY <2>1 DEF Emptied
  <1> QED
    BY <1>1, <1>2, <1>3, <1>4, <1>5, <1>6 DEF Next, Create

LEMMA EmptiedAlways == Spec => []Emptied
  <1>1. Init => Emptied
    BY DEF Init, Emptied, CreateSteps, Remaking
  <1> QED
    BY <1>1, EmptiedStep, PTL DEF Spec

(* The types of ReplayStore's variables. *)
THEOREM TypeCorrect == Spec => []TypeOK
  BY TypeInvAlways, PTL DEF TypeInv

-----------------------------------------------------------------------------
(* What is stored refers to what is stored, and is stored once *)

(* A battle that is gone through has no label of a player still to come, and *)
(* the last label none of the samples still to come.                         *)
Fresh ==
    /\ pc \in {"player", "insert", "label", "samples"} =>
          \A i \in DOMAIN labels : labels[i].battle = battle =>
              labels[i].player < iplayer \/ (pc = "samples" /\ i = rowid)
    /\ pc = "samples" =>
          \A i \in DOMAIN samples : samples[i].label = rowid => samples[i].known <= known

StoreInv == Linked /\ StoredOnce /\ Fresh

LEMMA RowTypes ==
    ASSUME TypeOK
    PROVE  /\ \A i \in DOMAIN labels : /\ labels[i] \in Label
                                       /\ labels[i].battle \in Battles
                                       /\ labels[i].player \in Players
           /\ \A i \in DOMAIN samples : /\ samples[i] \in Sample
                                        /\ samples[i].label \in Nat
                                        /\ samples[i].known \in Nat
  <1>1. labels \in Seq(Label) /\ samples \in Seq(Sample)
    BY DEF TypeOK
  <1>2. /\ \A i \in DOMAIN labels : labels[i] \in Label
        /\ \A i \in DOMAIN samples : samples[i] \in Sample
    BY <1>1
  <1> QED
    BY <1>2 DEF Label, Sample

(* As long as no row is written, only Fresh is at stake. *)
LEMMA NoRowWritten ==
    ASSUME StoreInv, UNCHANGED <<labels, samples, tables>>,
           battle_ids \subseteq battle_ids', Fresh'
    PROVE  StoreInv'
  BY DEF StoreInv, Linked, StoredOnce, samplesOf

LEMMA InsertLabelKeeps ==
    ASSUME TypeInv, StoreInv, InsertLabel
    PROVE  StoreInv'
  <1> DEFINE l == [battle |-> battle, player |-> iplayer]
             n == Len(labels)
  <1>1. l \in Label /\ labels \in Seq(Label) /\ battle \in battle_ids
        /\ l.battle = battle /\ l.player = iplayer /\ iplayer \in {0, 1}
    BY Current DEF InsertLabel, TypeInv, TypeOK, Position, Players
  <1>2. labels' = Append(labels, l) /\ rowid' = Len(labels') /\ pc' = "samples" /\ known' = 0
        /\ UNCHANGED <<battle_ids, samples, tables, battle_urls, iplayer>> /\ pc = "label"
    BY DEF InsertLabel
  <1>3. battle' = battle
    BY <1>2 DEF battle
  <1> HIDE DEF l
  <1>4. /\ DOMAIN labels = 1..n /\ n \in Nat /\ rowid' = n + 1
        /\ DOMAIN labels' = 1..(n + 1)
        /\ \A j \in DOMAIN labels : labels'[j] = labels[j]
        /\ labels'[n + 1] = l
    BY <1>1, <1>2, AppendFacts
  <1> HIDE DEF n
  <1>5. \A i \in DOMAIN labels : labels[i] # l
    <2> SUFFICES ASSUME NEW i \in DOMAIN labels, labels[i] = l PROVE FALSE
      OBVIOUS
    <2>1. labels[i].player < iplayer
      BY <1>1, <1>2 DEF StoreInv, Fresh
    <2> QED
      BY <1>1, <2>1
  <1>6. \A i \in DOMAIN labels' : i \in DOMAIN labels \/ i = n + 1
    BY <1>4
  <1>7. \A i \in DOMAIN samples :
            samples[i].label \in DOMAIN labels /\ samples[i].label # n + 1
    BY <1>4 DEF StoreInv, Linked
  <1>8. Linked'
    <2>1. "battle_ids" \in tables' =>
             \A i \in DOMAIN labels' : labels'[i].battle \in battle_ids'
      BY <1>1, <1>2, <1>4, <1>6 DEF StoreInv, Linked
    <2>2. \A i \in DOMAIN samples : /\ samples[i].label \in DOMAIN labels'
                                    /\ samples[i].known \in samplesOf(labels'[samples[i].label])
      BY <1>4, <1>7 DEF StoreInv, Linked
    <2> QED
      BY <1>2, <2>1, <2>2 DEF Linked, samplesOf
  <1>9. StoredOnce'
    BY <1>2, <1>4, <1>5, <1>6 DEF StoreInv, StoredOnce
  <1>10. Fresh'
    <2>1. \A i \in DOMAIN labels' : labels'[i].battle = battle =>
              labels'[i].player < iplayer \/ i = rowid'
      BY <1>2, <1>4, <1>6 DEF StoreInv, Fresh
    <2> QED
      BY <1>2, <1>3, <1>4, <1>7, <2>1 DEF Fresh
  <1> QED
    BY <1>8, <1>9, <1>10 DEF StoreInv

LEMMA InsertSampleKeeps ==
    ASSUME TypeInv, StoreInv, InsertSample
    PROVE  StoreInv'
  <1> DEFINE x == [label |-> rowid, known |-> known + 1]
             n == Len(samples)
  <1>1. /\ rowid \in Nat /\ known \in Nat /\ samples \in Seq(Sample)
        /\ rowid \in DOMAIN labels /\ known + 1 < Size[battle][iplayer]
        /\ labels[rowid] = [battle |-> battle, player |-> iplayer]
    BY DEF InsertSample, TypeInv, TypeOK, Position
  <1>2. x \in Sample /\ x.label = rowid /\ x.known = known + 1
    BY <1>1 DEF Sample
  <1>3. samples' = Append(samples, x) /\ known' = known + 1 /\ pc = "samples" /\ pc' = pc
        /\ UNCHANGED <<battle_ids, labels, tables, battle_urls, iplayer, rowid>>
    BY DEF InsertSample
  <1>4. battle' = battle
    BY <1>3 DEF battle
  <1> HIDE DEF x
  <1>5. /\ DOMAIN samples = 1..n /\ n \in Nat
        /\ DOMAIN samples' = 1..(n + 1)
        /\ \A j \in DOMAIN samples : samples'[j] = samples[j]
        /\ samples'[n + 1] = x
    BY <1>1, <1>2, <1>3, AppendFacts
  <1> HIDE DEF n
  <1>6. \A i \in DOMAIN samples' : i \in DOMAIN samples \/ i = n + 1
    BY <1>5
  <1>7. \A i \in DOMAIN samples : samples[i] # x
    <2> SUFFICES ASSUME NEW i \in DOMAIN samples, samples[i] = x PROVE FALSE
      OBVIOUS
    <2>1. known + 1 <= known
      BY <1>2, <1>3 DEF StoreInv, Fresh
    <2> QED
      BY <1>1, <2>1
  <1>8. x.known \in samplesOf(labels[rowid])
    <2>1. Size[battle][iplayer] \in Nat
      BY <1>3, Current, ReplayAssumption DEF TypeInv, Position
    <2>2. samplesOf(labels[rowid]) = 1..(Size[battle][iplayer] - 1)
      BY <1>1 DEF samplesOf
    <2> QED
      BY <1>1, <1>2, <2>1, <2>2
  <1>9. Linked'
    <2>1. \A i \in DOMAIN samples' : /\ samples'[i].label \in DOMAIN labels
                                     /\ samples'[i].known \in samplesOf(labels[samples'[i].label])
      BY <1>1, <1>2, <1>5, <1>6, <1>8 DEF StoreInv, Linked
    <2> QED
      BY <1>3, <2>1 DEF StoreInv, Linked, samplesOf
  <1>10. StoredOnce'
    BY <1>3, <1>5, <1>6, <1>7 DEF StoreInv, StoredOnce
  <1>11. Fresh'
    <2>1. \A i \in DOMAIN samples' : samples'[i].label = rowid => samples'[i].known <= known + 1
      <3>1. \A i \in DOMAIN samples : samples[i].known \in Nat
        BY RowTypes DEF TypeInv
      <3> QED
        BY <1>1, <1>2, <1>3, <1>5, <1>6, <3>1 DEF StoreInv, Fresh
    <2> QED
      BY <1>3, <1>4, <2>1 DEF StoreInv, Fresh
  <1> QED
    BY <1>9, <1>10, <1>11 DEF StoreInv

LEMMA StoreInvStep ==
    ASSUME TypeInv, Emptied, StoreInv, [Next]_vars
    PROVE  StoreInv'
  <1>1. CASE FetchFirst \/ FetchSecond \/ Finish \/ Crash
    BY <1>1, NoRowWritten
    DEF FetchFirst, FetchSecond, Finish, Crash, store, rows, Fresh
  <1>2. CASE FetchBattle
    <2>1. \A i \in DOMAIN labels : labels[i].battle # battle
      BY <1>2 DEF FetchBattle, already_have_battle, StoreInv, Linked
    <2>2. Fresh'
      BY <1>2, <2>1 DEF FetchBattle, Fresh, battle, store, rows
    <2> QED
      BY <1>2, <2>2, NoRowWritten DEF FetchBattle, store, rows
  <1>3. CASE Player
    <2>1. pc = "player" /\ UNCHANGED store
      BY <1>3 DEF Player
    <2>2. \A i \in DOMAIN labels : labels[i].battle = battle => labels[i].player < iplayer
      BY <2>1 DEF StoreInv, Fresh
    <2>3. Fresh'
      <3>1. CASE pc' = "insert" /\ UNCHANGED <<battle_urls, iplayer>>
        BY <2>1, <2>2, <3>1 DEF Fresh, battle, store, rows
      <3>2. CASE iplayer' = iplayer + 1 /\ UNCHANGED <<pc, battle_urls>>
        <4>1. \A i \in DOMAIN labels : labels[i].battle = battle => labels[i].player < iplayer + 1
          BY <2>2, RowTypes DEF TypeInv, TypeOK, Players
        <4> QED
          BY <2>1, <3>2, <4>1 DEF Fresh, battle, store, rows
      <3>3. CASE pc' = "battle"
        BY <3>3 DEF Fresh
      <3> QED
        BY <1>3, <3>1, <3>2, <3>3 DEF Player
    <2> QED
      BY <2>1, <2>3, NoRowWritten DEF store, rows
  <1>4. CASE InsertBattle
    <2>1. Fresh'
      BY <1>4 DEF InsertBattle, StoreInv, Fresh, battle, locals
    <2> QED
      BY <1>4, <2>1, NoRowWritten DEF InsertBattle
  <1>5. CASE InsertReturn
    <2>1. \A i \in DOMAIN labels : labels[i].battle = battle => labels[i].player < iplayer + 1
      <3>1. /\ iplayer \in {0, 1} /\ rowid \in DOMAIN labels
            /\ labels[rowid].player = iplayer /\ pc = "samples"
        BY <1>5 DEF InsertReturn, TypeInv, Position, Players
      <3>2. \A i \in DOMAIN labels : labels[i].player \in {0, 1}
        BY RowTypes DEF TypeInv, Players
      <3>3. \A i \in DOMAIN labels : labels[i].battle = battle =>
                labels[i].player < iplayer \/ i = rowid
        BY <3>1 DEF StoreInv, Fresh
      <3> QED
        BY <3>1, <3>2, <3>3
    <2>2. Fresh'
      BY <1>5, <2>1 DEF InsertReturn, Fresh, battle, store, rows
    <2> QED
      BY <1>5, <2>2, NoRowWritten DEF InsertReturn, store, rows
  <1>6. CASE Create
    <2>1. Fresh'
      BY <1>6 DEF Create, DropBattles, DropSamples, DropLabels, CreateBattles, CreateLabels,
                  CreateSamples, Fresh
    <2>2. CASE DropBattles
      <3>1. labels' = labels /\ samples' = samples /\ "battle_ids" \notin tables'
        BY <2>2 DEF DropBattles
      <3>2. Linked'
        BY <3>1 DEF StoreInv, Linked, samplesOf
      <3>3. StoredOnce'
        BY <3>1 DEF StoreInv, StoredOnce
      <3> QED
        BY <2>1, <3>2, <3>3 DEF StoreInv
    <2>3. CASE DropSamples
      <3>1. /\ labels' = labels /\ samples' = <<>> /\ battle_ids' = battle_ids
            /\ "battle_ids" \in tables' => "battle_ids" \in tables
        BY <2>3 DEF DropSamples
      <3>2. Linked'
        BY <3>1 DEF StoreInv, Linked
      <3>3. StoredOnce'
        BY <3>1 DEF StoreInv, StoredOnce
      <3> QED
        BY <2>1, <3>2, <3>3 DEF StoreInv
    <2>4. CASE DropLabels
      <3>1. labels' = <<>> /\ samples' = <<>>
        BY <2>4 DEF DropLabels, Emptied, CreateSteps
      <3> QED
        BY <2>1, <3>1 DEF StoreInv, Linked, StoredOnce
    <2>5. CASE CreateBattles \/ CreateLabels \/ CreateSamples
      <3>1. labels' = <<>> /\ samples' = <<>>
        BY <2>5 DEF CreateBattles, CreateLabels, CreateSamples, rows,
                    Emptied, CreateSteps, Remaking
      <3> QED
        BY <2>1, <3>1 DEF StoreInv, Linked, StoredOnce
    <2> QED
      BY <1>6, <2>2, <2>3, <2>4, <2>5 DEF Create
  <1>7. CASE Upload
    <2>1. Fresh'
      BY <1>7 DEF Upload, StoreInv, Fresh, battle, store, rows, locals
    <2> QED
      BY <1>7, <2>1, NoRowWritten DEF Upload, store, rows
  <1>8. CASE UNCHANGED vars
    <2>1. Fresh'
      BY <1>8 DEF vars, StoreInv, Fresh, battle, store, rows, locals
    <2> QED
      BY <1>8, <2>1, NoRowWritten DEF vars, store, rows
  <1> QED
    BY <1>1, <1>2, <1>3, <1>4, <1>5, <1>6, <1>7, <1>8, InsertLabelKeeps, InsertSampleKeeps
    DEF Next, Scrape

LEMMA StoreInvAlways == Spec => []StoreInv
  <1>1. Init => StoreInv
    BY DEF Init, StoreInv, Linked, StoredOnce, Fresh
  <1> QED
    BY <1>1, StoreInvStep, TypeInvAlways, EmptiedAlways, PTL DEF Spec

(* Wherever either script is cut off, no sample is without its label and,    *)
(* while there is a table of battles, no label without its battle            *)
(* (create_db.py:4-39, dbutils.py:67-84).                                    *)
THEOREM AlwaysLinked == Spec => []Linked
  BY StoreInvAlways, PTL DEF StoreInv

(* Nothing is stored twice, whatever is cut off and read again.              *)
THEOREM AlwaysStoredOnce == Spec => []StoredOnce
  BY StoreInvAlways, PTL DEF StoreInv

-----------------------------------------------------------------------------
(* No battle is left out *)

SampleStored(r, k) == \E i \in DOMAIN samples : samples[i] = [label |-> r, known |-> k]

PlayerDone(b, p) ==
    Viable[b][p] =>
        \E r \in DOMAIN labels : /\ labels[r] = [battle |-> b, player |-> p]
                                 /\ \A k \in samplesOf(labels[r]) : SampleStored(r, k)

LEMMA CompleteByPlayers ==
    ASSUME NEW b
    PROVE  Complete(b) <=> \A p \in Players : PlayerDone(b, p)
  BY DEF Complete, PlayerDone, SampleStored

(* What the scrape has done of the battle it is at. *)
Progress ==
    /\ pc \in {"player", "insert", "label", "samples"} =>
          \A p \in Players : p < iplayer => PlayerDone(battle, p)
    /\ pc = "samples" => \A k \in 1..known : SampleStored(rowid, k)

Going  == pc \in {"battle", "player", "insert", "label", "samples"}
Urls   == {battle_urls[k] : k \in DOMAIN battle_urls}
lowest == IF uploaded > 2 * PageSize THEN uploaded - 2 * PageSize + 1 ELSE 1

(* The battles from b down to the last one a scrape would list were listed. *)
Reaches(b) == b <= uploaded /\ \A c \in Battles : lowest <= c /\ c <= b => c \in listed

(* Every recorded battle reaches down, everything listed is complete or still *)
(* to come, and behind a battle recorded by an earlier scrape all is complete.*)
Window ==
    /\ \A b \in battle_ids : Reaches(b)
    /\ Going => \A b \in Urls : Reaches(b)
    /\ \A c \in listed : Complete(c) \/ (Going /\ c \in Urls)
    /\ Going => \A k, l \in DOMAIN battle_urls :
          /\ k < l => battle_urls[k] # battle_urls[l]
          /\ k <= l /\ battle_urls[k] \in battle_ids /\ (k # 1 \/ pc = "battle") =>
                Complete(battle_urls[l])
    /\ pc = "second" => battle_urls = page(1)

PassInv == Progress /\ (~disturbed => Window)

(* What is complete stays so as rows are appended. *)
LEMMA DoneGrows ==
    ASSUME DOMAIN labels \subseteq DOMAIN labels', DOMAIN samples \subseteq DOMAIN samples',
           \A i \in DOMAIN labels : labels'[i] = labels[i],
           \A i \in DOMAIN samples : samples'[i] = samples[i]
    PROVE  /\ \A r, k : SampleStored(r, k) => SampleStored(r, k)'
           /\ \A b, p : PlayerDone(b, p) => PlayerDone(b, p)'
           /\ \A b : Complete(b) => Complete(b)'
  <1>1. \A r, k : SampleStored(r, k) => SampleStored(r, k)'
    BY DEF SampleStored
  <1>2. \A b, p : PlayerDone(b, p) => PlayerDone(b, p)'
    BY <1>1 DEF PlayerDone, samplesOf
  <1>3. ASSUME NEW b, Complete(b) PROVE Complete(b)'
    BY <1>2, <1>3 DEF Complete, PlayerDone, SampleStored
  <1> QED
    BY <1>1, <1>2, <1>3

LEMMA FetchSecondKeeps ==
    ASSUME TypeInv, PassInv, FetchSecond
    PROVE  PassInv'
  <1> DEFINE n == IF uploaded > 2 * PageSize THEN 2 * PageSize ELSE uploaded
  <1>1. Progress'
    BY DEF FetchSecond, Progress
  <1>2. SUFFICES ASSUME ~disturbed PROVE Window'
    BY <1>1 DEF FetchSecond, PassInv
  <1>3. Window /\ pc = "second" /\ pc' = "battle" /\ ~Going /\ Going'
    BY <1>2 DEF PassInv, FetchSecond, Going
  <1>4. battle_urls' = page(1) \o page(2)
    BY <1>3 DEF FetchSecond, Window
  <1>5. /\ uploaded \in Nat /\ uploaded <= NumBattles /\ PageSize \in Nat \ {0}
        /\ n \in Nat /\ n <= uploaded /\ lowest = uploaded - n + 1
    BY ReplayAssumption DEF TypeInv, TypeOK, lowest
  <1>6. DOMAIN battle_urls' = 1..n /\ \A k \in 1..n : battle_urls'[k] = uploaded + 1 - k
    BY <1>4, PagesJoin DEF TypeInv
  <1>7. UNCHANGED <<battle_ids, labels, samples, uploaded>> /\ listed' = listed \cup Urls'
    BY DEF FetchSecond, Urls, store, rows
  <1> HIDE DEF n
  <1>8. \A b : Complete(b) <=> Complete(b)'
    BY <1>7 DEF Complete, samplesOf
  <1>9. \A b \in battle_ids' : Reaches(b)'
    BY <1>3, <1>7 DEF Window, Reaches, lowest
  <1>10. \A b \in Urls' : Reaches(b)'
    <2> SUFFICES ASSUME NEW k \in 1..n
                 PROVE  /\ uploaded + 1 - k <= uploaded
                        /\ \A c \in Battles : lowest <= c /\ c <= uploaded + 1 - k => c \in Urls'
      BY <1>6, <1>7 DEF Urls, Reaches, lowest
    <2>1. uploaded + 1 - k <= uploaded
      BY <1>5
    <2>2. ASSUME NEW c \in Battles, lowest <= c, c <= uploaded + 1 - k
          PROVE  c \in Urls'
      <3>1. uploaded + 1 - c \in 1..n /\ uploaded + 1 - (uploaded + 1 - c) = c
        BY <1>5, <2>2, ReplayAssumption DEF Battles
      <3>2. battle_urls'[uploaded + 1 - c] = c
        BY <1>6, <3>1
      <3> QED
        BY <1>6, <3>1, <3>2 DEF Urls
    <2> QED
      BY <2>1, <2>2
  <1>11. \A c \in listed' : Complete(c)' \/ c \in Urls'
    BY <1>3, <1>7, <1>8 DEF Window
  <1>12. ASSUME NEW k \in 1..n, NEW l \in 1..n
         PROVE  /\ k < l => battle_urls'[k] # battle_urls'[l]
                /\ k <= l /\ battle_urls'[k] \in battle_ids => Complete(battle_urls'[l])
    <2>1. battle_urls'[k] = uploaded + 1 - k /\ battle_urls'[l] = uploaded + 1 - l
      BY <1>6
    <2>2. k < l => battle_urls'[k] # battle_urls'[l]
      BY <1>5, <2>1
    <2>3. ASSUME k <= l, battle_urls'[k] \in battle_ids
          PROVE  Complete(battle_urls'[l])
      <3>1. uploaded + 1 - l \in Battles
        BY <1>5, ReplayAssumption DEF TypeInv, TypeOK, Battles
      <3>2. lowest <= uploaded + 1 - l /\ uploaded + 1 - l <= uploaded + 1 - k
        BY <1>5, <2>3
      <3>3. uploaded + 1 - l \in listed
        BY <1>3, <2>1, <2>3, <3>1, <3>2 DEF Window, Reaches
      <3> QED
        BY <1>3, <2>1, <3>3 DEF Window
    <2> QED
      BY <2>2, <2>3
  <1>13. \A k, l \in DOMAIN battle_urls' :
            /\ k < l => battle_urls'[k] # battle_urls'[l]
            /\ k <= l /\ battle_urls'[k] \in battle_ids' =>
                  \A c : c = battle_urls'[l] => Complete(c)'
    BY <1>6, <1>7, <1>8, <1>12
  <1>14. (\A k, l \in DOMAIN battle_urls :
            /\ k < l => battle_urls[k] # battle_urls[l]
            /\ k <= l /\ battle_urls[k] \in battle_ids => Complete(battle_urls[l]))'
    BY <1>13
  <1> QED
    BY <1>3, <1>9, <1>10, <1>11, <1>14 DEF Window

(* As long as nothing of the store, the list and the place in it changes.    *)
LEMMA CompleteSame ==
    ASSUME UNCHANGED <<labels, samples>>
    PROVE  /\ \A b : Complete(b) <=> Complete(b)'
           /\ \A b, p : PlayerDone(b, p) <=> PlayerDone(b, p)'
           /\ \A r, k : SampleStored(r, k) <=> SampleStored(r, k)'
  BY DEF Complete, PlayerDone, SampleStored, samplesOf

LEMMA FetchFirstKeeps ==
    ASSUME PassInv, FetchFirst
    PROVE  PassInv'
  <1>1. /\ pc = "idle" /\ pc' = "second" /\ battle_urls' = page(1)
        /\ UNCHANGED <<battle_ids, labels, samples, uploaded, listed, disturbed>>
    BY DEF FetchFirst, store, rows
  <1>2. page(1)' = page(1)
    BY <1>1 DEF page
  <1>3. Window => Window'
    BY <1>1, <1>2, CompleteSame DEF Window, Going, Reaches, lowest
  <1> QED
    BY <1>1, <1>3 DEF PassInv, Progress

LEMMA FinishKeeps ==
    ASSUME TypeInv, PassInv, Finish
    PROVE  PassInv'
  <1>1. /\ pc = "battle" /\ pc' = "idle"
        /\ battle_urls # <<>> => battle \in battle_ids
        /\ UNCHANGED <<battle_ids, labels, samples, uploaded, listed, disturbed>>
    BY DEF Finish, store, rows, already_have_battle
  <1>2. ASSUME Window PROVE Window'
    <2>1. ASSUME NEW c \in listed PROVE Complete(c)
      <3>1. CASE c \in Urls
        <4>1. PICK l \in DOMAIN battle_urls : battle_urls[l] = c
          BY <3>1 DEF Urls
        <4>2. battle_urls \in Seq(Battles) /\ battle_urls # <<>>
          BY <4>1 DEF TypeInv, TypeOK
        <4>3. battle_urls[1] \in battle_ids /\ 1 \in DOMAIN battle_urls /\ 1 <= l
          BY <1>1, <4>1, <4>2, HeadTail DEF battle
        <4> QED
          BY <1>1, <1>2, <4>1, <4>3 DEF Window, Going
      <3> QED
        BY <1>2, <2>1, <3>1 DEF Window
    <2> QED
      BY <1>1, <1>2, <2>1, CompleteSame DEF Window, Going, Reaches, lowest
  <1> QED
    BY <1>1, <1>2 DEF PassInv, Progress

(* A step within a battle that leaves the list and the battles alone.        *)
LEMMA SameList ==
    ASSUME Window, UNCHANGED <<battle_ids, battle_urls, uploaded, listed>>,
           Going, Going', pc' = "battle" => pc = "battle",
           \A b : Complete(b) => Complete(b)'
    PROVE  Window'
  <1>1. Urls' = Urls
    BY DEF Urls
  <1>2. /\ \A b \in battle_ids' : Reaches(b)'
        /\ \A b \in Urls' : Reaches(b)'
    BY <1>1 DEF Window, Reaches, lowest
  <1>3. \A c \in listed' : Complete(c)' \/ c \in Urls'
    BY <1>1 DEF Window
  <1>4. (\A k, l \in DOMAIN battle_urls :
            /\ k < l => battle_urls[k] # battle_urls[l]
            /\ k <= l /\ battle_urls[k] \in battle_ids /\ (k # 1 \/ pc = "battle") =>
                  Complete(battle_urls[l]))'
    <2> SUFFICES ASSUME NEW k \in DOMAIN battle_urls, NEW l \in DOMAIN battle_urls
                 PROVE  /\ k < l => battle_urls[k] # battle_urls[l]
                        /\ k <= l /\ battle_urls[k] \in battle_ids
                             /\ (k # 1 \/ pc' = "battle") =>
                                \A c : c = battle_urls[l] => Complete(c)'
      OBVIOUS
    <2> QED
      BY DEF Window
  <1> QED
    BY <1>2, <1>3, <1>4 DEF Window, Going

LEMMA FetchBattleKeeps ==
    ASSUME PassInv, FetchBattle
    PROVE  PassInv'
  <1>1. /\ pc = "battle" /\ pc' = "player" /\ iplayer' = 0
        /\ UNCHANGED <<battle_ids, labels, samples, battle_urls, uploaded, listed, disturbed>>
    BY DEF FetchBattle, store, rows
  <1>2. Progress'
    BY <1>1 DEF Progress, Players
  <1>3. Window => Window'
    BY <1>1, SameList, CompleteSame DEF Going
  <1> QED
    BY <1>1, <1>2, <1>3 DEF PassInv

LEMMA PlayerKeeps ==
    ASSUME TypeInv, PassInv, Player
    PROVE  PassInv'
  <1>1. /\ pc = "player"
        /\ UNCHANGED <<battle_ids, labels, samples, uploaded, listed, disturbed>>
    BY DEF Player, store, rows
  <1>2. battle_urls \in Seq(Battles) /\ battle_urls # <<>> /\ battle = battle_urls[1]
    BY <1>1, Current DEF TypeInv, TypeOK, Position
  <1>3. CASE iplayer < 2 /\ UNCHANGED battle_urls
    <2>1. pc' \in {"player", "insert"} /\ battle' = battle
      BY <1>1, <1>3 DEF Player, TypeInv, TypeOK, battle
    <2>2. \A p \in Players : p < iplayer' => PlayerDone(battle, p)
      <3>1. CASE iplayer' = iplayer
        BY <1>1, <3>1 DEF PassInv, Progress
      <3>2. CASE iplayer' = iplayer + 1 /\ ~Viable[battle][iplayer]
        <4>1. PlayerDone(battle, iplayer)
          BY <3>2 DEF PlayerDone
        <4>2. \A p \in Players : p < iplayer + 1 => p < iplayer \/ p = iplayer
          BY DEF Players, TypeInv, TypeOK
        <4> QED
          BY <1>1, <3>2, <4>1, <4>2 DEF PassInv, Progress
      <3> QED
        BY <1>3, <3>1, <3>2 DEF Player
    <2>3. Progress'
      BY <1>1, <2>1, <2>2, CompleteSame DEF Progress
    <2>4. Window => Window'
      BY <1>1, <1>3, <2>1, SameList, CompleteSame DEF Going
    <2> QED
      BY <1>1, <2>3, <2>4 DEF PassInv
  <1>4. CASE iplayer = 2 /\ battle_urls' = Tail(battle_urls) /\ pc' = "battle"
    <2>1. Complete(battle)
      BY <1>1, <1>4, CompleteByPlayers DEF PassInv, Progress, Players
    <2>2. /\ DOMAIN battle_urls = 1..Len(battle_urls) /\ Len(battle_urls) \in Nat
          /\ DOMAIN battle_urls' = 1..(Len(battle_urls) - 1)
          /\ \A j \in DOMAIN battle_urls' : battle_urls'[j] = battle_urls[j + 1]
      BY <1>2, <1>4, HeadTail
    <2>3. \A j \in DOMAIN battle_urls' : j + 1 \in DOMAIN battle_urls /\ j + 1 # 1
      BY <2>2
    <2>4. ASSUME NEW c \in Urls, c # battle PROVE c \in Urls'
      <3>1. PICK l \in DOMAIN battle_urls : battle_urls[l] = c
        BY <2>4 DEF Urls
      <3>2. l # 1
        BY <1>2, <2>4, <3>1
      <3>3. l - 1 \in DOMAIN battle_urls' /\ (l - 1) + 1 = l
        BY <2>2, <3>1, <3>2
      <3>4. battle_urls'[l - 1] = c
        BY <2>2, <3>1, <3>3
      <3> QED
        BY <3>3, <3>4 DEF Urls
    <2>5. Urls' \subseteq Urls
      BY <2>2, <2>3 DEF Urls
    <2>6. ASSUME Window PROVE Window'
      <3>1. /\ \A b \in battle_ids' : Reaches(b)'
            /\ \A b \in Urls' : Reaches(b)'
        BY <1>1, <2>5, <2>6 DEF Window, Reaches, lowest, Going
      <3>2. \A c \in listed' : Complete(c)' \/ c \in Urls'
        BY <1>1, <2>1, <2>4, <2>6, CompleteSame DEF Window
      <3>3. ASSUME NEW k \in DOMAIN battle_urls', NEW l \in DOMAIN battle_urls'
            PROVE  /\ k < l => battle_urls'[k] # battle_urls'[l]
                   /\ k <= l /\ battle_urls'[k] \in battle_ids =>
                         \A c : c = battle_urls'[l] => Complete(c)'
        <4>1. /\ k + 1 \in DOMAIN battle_urls /\ k + 1 # 1 /\ l + 1 \in DOMAIN battle_urls
              /\ battle_urls'[k] = battle_urls[k + 1] /\ battle_urls'[l] = battle_urls[l + 1]
              /\ (k < l => k + 1 < l + 1) /\ (k <= l => k + 1 <= l + 1)
          BY <2>2, <2>3
        <4> QED
          BY <1>1, <2>6, <4>1, CompleteSame DEF Window, Going
      <3>4. (\A k, l \in DOMAIN battle_urls :
                /\ k < l => battle_urls[k] # battle_urls[l]
                /\ k <= l /\ battle_urls[k] \in battle_ids => Complete(battle_urls[l]))'
        BY <1>1, <3>3
      <3>5. Going' /\ pc' # "second"
        BY <1>4 DEF Going
      <3> QED
        BY <3>1, <3>2, <3>4, <3>5 DEF Window
    <2>7. Progress'
      BY <1>4 DEF Progress
    <2> QED
      BY <1>1, <2>6, <2>7 DEF PassInv
  <1> QED
    BY <1>3, <1>4 DEF Player

LEMMA InsertBattleKeeps ==
    ASSUME TypeInv, PassInv, InsertBattle
    PROVE  PassInv'
  <1>1. /\ pc = "insert" /\ pc' = "label" /\ battle_ids' = battle_ids \cup {battle}
        /\ UNCHANGED <<labels, samples, battle_urls, iplayer, uploaded, listed, disturbed>>
    BY DEF InsertBattle, locals
  <1>2. battle = battle_urls[1] /\ 1 \in DOMAIN battle_urls /\ battle' = battle
    BY <1>1, Current DEF TypeInv, battle
  <1>3. Urls' = Urls /\ battle \in Urls
    BY <1>1, <1>2 DEF Urls
  <1>4. Progress'
    BY <1>1, <1>2, CompleteSame DEF PassInv, Progress
  <1>5. ASSUME Window PROVE Window'
    <2>1. Going /\ Going'
      BY <1>1 DEF Going
    <2>2. /\ \A b \in battle_ids' : Reaches(b)'
          /\ \A b \in Urls' : Reaches(b)'
      BY <1>1, <1>3, <1>5, <2>1 DEF Window, Reaches, lowest
    <2>3. \A c \in listed' : Complete(c)' \/ c \in Urls'
      BY <1>1, <1>3, <1>5, CompleteSame DEF Window
    <2>4. ASSUME NEW k \in DOMAIN battle_urls, NEW l \in DOMAIN battle_urls
          PROVE  /\ k < l => battle_urls[k] # battle_urls[l]
                 /\ k <= l /\ battle_urls[k] \in battle_ids' /\ k # 1 =>
                       \A c : c = battle_urls[l] => Complete(c)'
      <3>1. k # 1 => battle_urls[k] # battle
        <4>1. battle_urls \in Seq(Battles)
          BY DEF TypeInv, TypeOK
        <4>2. k # 1 => 1 < k
          BY <4>1
        <4> QED
          BY <1>2, <1>5, <2>1, <4>2 DEF Window
      <3> QED
        BY <1>1, <1>5, <2>1, <3>1, CompleteSame DEF Window
    <2>5. (\A k, l \in DOMAIN battle_urls :
              /\ k < l => battle_urls[k] # battle_urls[l]
              /\ k <= l /\ battle_urls[k] \in battle_ids /\ k # 1 =>
                    Complete(battle_urls[l]))'
      BY <1>1, <2>4
    <2> QED
      BY <1>1, <2>1, <2>2, <2>3, <2>5 DEF Window
  <1> QED
    BY <1>1, <1>4, <1>5 DEF PassInv

LEMMA PassInsertLabel ==
    ASSUME TypeInv, PassInv, InsertLabel
    PROVE  PassInv'
  <1>1. /\ pc = "label" /\ pc' = "samples" /\ known' = 0
        /\ UNCHANGED <<battle_ids, samples, battle_urls, iplayer, uploaded, listed, disturbed>>
    BY DEF InsertLabel
  <1>2. /\ DOMAIN labels \subseteq DOMAIN labels'
        /\ \A i \in DOMAIN labels : labels'[i] = labels[i]
    <2>1. labels \in Seq(Label) /\ [battle |-> battle, player |-> iplayer] \in Label
      BY <1>1, Current DEF TypeInv, TypeOK
    <2> QED
      BY <2>1, AppendFacts DEF InsertLabel
  <1>3. /\ \A p \in Players : PlayerDone(battle, p) => \A b : b = battle => PlayerDone(b, p)'
        /\ \A b : Complete(b) => Complete(b)'
    BY <1>1, <1>2, DoneGrows
  <1>4. Progress'
    <2>1. battle' = battle
      BY <1>1 DEF battle
    <2> QED
      BY <1>1, <1>3, <2>1 DEF PassInv, Progress
  <1>5. Window => Window'
    BY <1>1, <1>3, SameList DEF Going
  <1> QED
    BY <1>1, <1>4, <1>5 DEF PassInv

LEMMA PassInsertSample ==
    ASSUME TypeInv, PassInv, InsertSample
    PROVE  PassInv'
  <1> DEFINE x == [label |-> rowid, known |-> known + 1]
  <1>1. /\ pc = "samples" /\ pc' = "samples" /\ known' = known + 1 /\ known \in Nat
        /\ samples' = Append(samples, x)
        /\ UNCHANGED <<battle_ids, labels, battle_urls, iplayer, rowid,
                       uploaded, listed, disturbed>>
    BY DEF InsertSample, TypeInv, TypeOK
  <1>2. /\ DOMAIN samples \subseteq DOMAIN samples'
        /\ \A i \in DOMAIN samples : samples'[i] = samples[i]
        /\ Len(samples) + 1 \in DOMAIN samples' /\ samples'[Len(samples) + 1] = x
    <2>1. samples \in Seq(Sample) /\ x \in Sample
      BY <1>1 DEF TypeInv, TypeOK, Sample
    <2> HIDE DEF x
    <2> QED
      BY <1>1, <2>1, AppendFacts
  <1>3. /\ \A r, k : SampleStored(r, k) => SampleStored(r, k)'
        /\ \A b, p : PlayerDone(b, p) => PlayerDone(b, p)'
        /\ \A b : Complete(b) => Complete(b)'
    BY <1>1, <1>2, DoneGrows
  <1>4. Progress'
    <2>1. \A k \in 1..known : SampleStored(rowid, k)
      BY <1>1 DEF PassInv, Progress
    <2>2. \A r, k : r = rowid /\ k = known + 1 => SampleStored(r, k)'
      BY <1>2 DEF SampleStored
    <2>3. \A k \in 1..(known + 1) : k \in 1..known \/ k = known + 1
      BY <1>1
    <2>4. \A k \in 1..(known + 1) : \A r : r = rowid => SampleStored(r, k)'
      BY <1>3, <2>1, <2>2, <2>3
    <2>5. battle' = battle
      BY <1>1 DEF battle
    <2> QED
      BY <1>1, <1>3, <2>4, <2>5 DEF PassInv, Progress
  <1>5. Window => Window'
    BY <1>1, <1>3, SameList DEF Going
  <1> QED
    BY <1>1, <1>4, <1>5 DEF PassInv

LEMMA InsertReturnKeeps ==
    ASSUME TypeInv, PassInv, InsertReturn
    PROVE  PassInv'
  <1>1. /\ pc = "samples" /\ pc' = "player" /\ iplayer' = iplayer + 1
        /\ known + 1 >= Size[battle][iplayer]
        /\ UNCHANGED <<battle_ids, labels, samples, battle_urls, uploaded, listed, disturbed>>
    BY DEF InsertReturn, store, rows
  <1>2. /\ iplayer \in Players /\ rowid \in DOMAIN labels /\ known \in Nat
        /\ labels[rowid] = [battle |-> battle, player |-> iplayer] /\ battle \in Battles
    BY <1>1, Current DEF TypeInv, TypeOK, Position
  <1>3. PlayerDone(battle, iplayer)
    <2>1. Size[battle][iplayer] \in Nat
      BY <1>2, ReplayAssumption
    <2>2. samplesOf(labels[rowid]) = 1..(Size[battle][iplayer] - 1)
      BY <1>2 DEF samplesOf
    <2>3. \A k \in samplesOf(labels[rowid]) : k \in 1..known
      BY <1>1, <1>2, <2>1, <2>2
    <2>4. \A k \in samplesOf(labels[rowid]) : SampleStored(rowid, k)
      BY <1>1, <2>3 DEF PassInv, Progress
    <2> QED
      BY <1>2, <2>4 DEF PlayerDone
  <1>4. Progress'
    <2>1. \A p \in Players : p < iplayer + 1 => p < iplayer \/ p = iplayer
      BY <1>2 DEF Players
    <2>2. \A p \in Players : p < iplayer + 1 => PlayerDone(battle, p)
      BY <1>1, <1>3, <2>1 DEF PassInv, Progress
    <2>3. battle' = battle
      BY <1>1 DEF battle
    <2> QED
      BY <1>1, <2>2, <2>3, CompleteSame DEF Progress
  <1>5. Window => Window'
    BY <1>1, SameList, CompleteSame DEF Going
  <1> QED
    BY <1>1, <1>4, <1>5 DEF PassInv

LEMMA UploadKeeps ==
    ASSUME TypeInv, PassInv, Upload
    PROVE  PassInv'
  <1>1. /\ uploaded' = uploaded + 1
        /\ ~disturbed' => ~disturbed /\ pc # "second"
        /\ UNCHANGED <<battle_ids, labels, samples, pc, battle_urls, iplayer, rowid, known, listed>>
    BY DEF Upload, store, rows, locals
  <1>2. Progress'
    BY <1>1, CompleteSame DEF PassInv, Progress, battle
  <1>3. ASSUME Window, pc # "second" PROVE Window'
    <2>1. uploaded \in Nat /\ PageSize \in Nat \ {0}
      BY ReplayAssumption DEF TypeInv, TypeOK
    <2>2. lowest \in Nat /\ lowest' \in Nat /\ lowest <= lowest'
      BY <1>1, <2>1 DEF lowest
    <2>3. \A b \in Battles : Reaches(b) => Reaches(b)'
      BY <1>1, <2>1, <2>2, ReplayAssumption DEF Reaches, Battles
    <2>4. battle_ids \subseteq Battles /\ Urls \subseteq Battles
      BY DEF TypeInv, TypeOK, Urls
    <2>5. Urls' = Urls /\ (Going' <=> Going)
      BY <1>1 DEF Urls, Going
    <2>6. (\A b \in battle_ids : Reaches(b))' /\ (Going => \A b \in Urls : Reaches(b))'
      BY <1>1, <1>3, <2>3, <2>4, <2>5 DEF Window
    <2> QED
      BY <1>1, <1>3, <2>5, <2>6, CompleteSame DEF Window
  <1> QED
    BY <1>1, <1>2, <1>3 DEF PassInv

LEMMA PassInvStep ==
    ASSUME TypeInv, Emptied, PassInv, [Next]_vars
    PROVE  PassInv'
  <1>1. CASE Crash
    BY <1>1 DEF Crash, PassInv, Progress
  <1>2. CASE Create
    <2>1. /\ battle_ids' = {} /\ listed' = {} /\ ~Going'
          /\ pc' \notin {"player", "insert", "label", "samples", "second"}
      BY <1>2 DEF Create, DropBattles, DropSamples, DropLabels, CreateBattles, CreateLabels,
                  CreateSamples, rows, Going, Emptied, CreateSteps, Remaking
    <2> QED
      BY <2>1 DEF PassInv, Progress, Window
  <1>3. CASE UNCHANGED vars
    <2>1. UNCHANGED <<battle_ids, labels, samples, pc, battle_urls, iplayer, rowid, known,
                      uploaded, listed, disturbed>>
      BY <1>3 DEF vars, store, rows, locals
    <2>2. Progress'
      BY <2>1, CompleteSame DEF PassInv, Progress, battle
    <2>3. page(1)' = page(1)
      BY <2>1 DEF page
    <2>4. Window => Window'
      BY <2>1, <2>3, CompleteSame DEF Window, Going, Urls, Reaches, lowest
    <2> QED
      BY <2>1, <2>2, <2>4 DEF PassInv
  <1> QED
    BY <1>1, <1>2, <1>3, FetchFirstKeeps, FetchSecondKeeps, FinishKeeps, FetchBattleKeeps,
       PlayerKeeps, InsertBattleKeeps, PassInsertLabel, PassInsertSample, InsertReturnKeeps,
       UploadKeeps
    DEF Next, Scrape

(* A scrape that stops at the first battle it has leaves nothing out, however *)
(* many battles, of whatever teams, went up before it and while it ran.       *)
THEOREM NeverLeftOut == Spec => []NothingLeftOut
  <1>1. Init => PassInv
    BY DEF Init, PassInv, Progress, Window, Going
  <1>2. PassInv => NothingLeftOut
    BY DEF PassInv, Window, Going, NothingLeftOut
  <1>3. Spec => []PassInv
    BY <1>1, PassInvStep, TypeInvAlways, EmptiedAlways, PTL DEF Spec
  <1> QED
    BY <1>2, <1>3, PTL
=============================================================================
