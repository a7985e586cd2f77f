----------------------------- MODULE MCTSProofs -----------------------------
(* Proofs about the search tree of MCTS, for any number of moves and          *)
(* iterations: its shape, and how the visits and wins of its nodes add up.    *)
EXTENDS MCTS, SequenceTheorems, FiniteSetTheorems, WellFoundedInduction, TLAPS

-----------------------------------------------------------------------------
(* Numbers and paths *)

(* Min picks the least number of a set. *)
LEMMA MinFacts ==
    ASSUME NEW S, S \subseteq Nat, S # {}
    PROVE  Min(S) \in S /\ \A y \in S : Min(S) <= y
  <1>1. \A a, b \in Nat : a < b => <<a, b>> \in OpToRel(<, Nat)
    BY DEF OpToRel
  <1>2. \E x \in S : \A y \in S : ~ (<<y, x>> \in OpToRel(<, Nat))
    BY NatLessThanWellFounded, WFMin
  <1>3. \E x \in S : \A y \in S : ~ (y < x)
    BY <1>1, <1>2
  <1>4. PICK x \in S : \A y \in S : x <= y
    BY <1>3
  <1> QED
    BY <1>4 DEF Min

(* The node a node was made under. *)
parent(n) == SubSeq(n, 1, Len(n) - 1)

LEMMA ChildFacts ==
    ASSUME NEW n \in Seq(Moves), NEW k \in Moves
    PROVE  /\ Append(n, k) \in Seq(Moves) /\ Append(n, k) # root
           /\ parent(Append(n, k)) = n
           /\ Append(n, k) # n
           /\ \A m \in Seq(Moves), j \in Moves : Append(m, j) = Append(n, k) => m = n /\ j = k
  <1>1. Append(n, k) \in Seq(Moves) /\ Len(Append(n, k)) = Len(n) + 1 /\ Len(n) \in Nat
    OBVIOUS
  <1>2. \A m \in Seq(Moves), j \in Moves : SubSeq(Append(m, j), 1, Len(m)) = m
    OBVIOUS
  <1>3. \A m \in Seq(Moves), j \in Moves : parent(Append(m, j)) = m
    BY <1>2 DEF parent
  <1>4. \A m \in Seq(Moves), j \in Moves : Append(m, j)[Len(m) + 1] = j
    OBVIOUS
  <1>5. Append(n, k) # root /\ Append(n, k) # n
    BY <1>1 DEF root
  <1>6. ASSUME NEW m \in Seq(Moves), NEW j \in Moves, Append(m, j) = Append(n, k)
        PROVE  m = n /\ j = k
    <2>1. m = n
      BY <1>3, <1>6
    <2> QED
      BY <1>4, <1>6, <2>1
  <1> QED
    BY <1>1, <1>3, <1>5, <1>6

LEMMA ParentFacts ==
    ASSUME NEW n \in Seq(Moves), n # root
    PROVE  /\ parent(n) \in Seq(Moves)
           /\ n[Len(n)] \in Moves
           /\ n = Append(parent(n), n[Len(n)])
  <1>1. Len(n) \in Nat /\ Len(n) > 0
    BY DEF root
  <1>2. parent(n) \in Seq(Moves) /\ Len(parent(n)) = Len(n) - 1
        /\ \A j \in 1..(Len(n) - 1) : parent(n)[j] = n[j]
    <2>1. \A j \in 1..(Len(n) - 1) : n[j] \in Moves
      <3>1. \A j \in 1..Len(n) : n[j] \in Moves
        BY ElementOfSeq
      <3>2. \A j \in 1..(Len(n) - 1) : j \in 1..Len(n)
        BY <1>1
      <3> QED
        BY <3>1, <3>2
    <2> DEFINE l == Len(n) - 1
    <2>2. l \in Nat /\ 1 \in Int /\ \A j \in 1..l : n[j] \in Moves
      BY <1>1, <2>1
    <2>3. parent(n) = SubSeq(n, 1, l)
      BY DEF parent
    <2> HIDE DEF l
    <2>4. /\ SubSeq(n, 1, l) \in Seq(Moves)
          /\ Len(SubSeq(n, 1, l)) = IF 1 <= l THEN l - 1 + 1 ELSE 0
          /\ \A j \in 1 .. l - 1 + 1 : SubSeq(n, 1, l)[j] = n[1 + j - 1]
      BY <2>2, SubSeqProperties
    <2>5. /\ Len(SubSeq(n, 1, l)) = l
          /\ \A j \in 1..l : SubSeq(n, 1, l)[j] = n[j]
      BY <2>2, <2>4
    <2> QED
      BY <2>3, <2>4, <2>5 DEF l
  <1>3. n[Len(n)] \in Moves
    BY <1>1
  <1>4. DOMAIN Append(parent(n), n[Len(n)]) = 1..Len(n)
    BY <1>1, <1>2, <1>3
  <1>5. \A j \in 1..Len(n) : Append(parent(n), n[Len(n)])[j] = n[j]
    BY <1>1, <1>2, <1>3
  <1> QED
    BY <1>1, <1>2, <1>3, <1>4, <1>5

-----------------------------------------------------------------------------
(* The tree *)

(* Every node but the root has its parent in the tree, and the search is in  *)
(* the tree and has an iteration left while it goes on.                      *)
TreeOK ==
    /\ tree = [n \in DOMAIN tree |-> tree[n]]
    /\ \A n \in DOMAIN tree : n \in Seq(Moves) /\ tree[n] \in MCTSNode
    /\ \A n \in DOMAIN tree : n # root => parent(n) \in DOMAIN tree
    /\ root \in DOMAIN tree /\ cur \in DOMAIN tree

CountersOK ==
    /\ i \in Nat /\ i <= NumIterations
    /\ pc \in {"select", "simulate", "backpropagate"} => i < NumIterations
    /\ indxBest \in Moves \cup {-1} /\ win \in {0, 1}
    /\ pc \in {"select", "simulate", "backpropagate", "choose", "done"}

IInv == TreeOK /\ CountersOK

(* A node visited, or given a win, is still a node. *)
LEMMA CountKeeps ==
    ASSUME TreeOK, NEW n \in DOMAIN tree, NEW x \in {0, 1}
    PROVE  LET t == [tree EXCEPT ![n].wins = @ + x]
               v == visit(tree, n)
           IN  /\ DOMAIN t = DOMAIN tree /\ t = [m \in DOMAIN t |-> t[m]]
               /\ DOMAIN v = DOMAIN tree /\ v = [m \in DOMAIN v |-> v[m]]
               /\ \A m \in DOMAIN tree : t[m] \in MCTSNode /\ v[m] \in MCTSNode
  <1>1. tree[n] \in MCTSNode
    BY DEF TreeOK
  <1>2. /\ [tree[n] EXCEPT !.wins = @ + x] \in MCTSNode
        /\ [tree[n] EXCEPT !.visited = @ + 1] \in MCTSNode
    BY <1>1 DEF MCTSNode
  <1> QED
    BY <1>2 DEF TreeOK, visit

LEMMA ExpandKeeps ==
    ASSUME IInv, Expand
    PROVE  /\ TreeOK' /\ indxBest' \in unvisited(tree, cur)
           /\ \A j \in unvisited(tree, cur) : indxBest' <= j
           /\ cur' = Append(cur, indxBest') /\ DOMAIN tree' = DOMAIN tree \cup {cur'}
  <1>1. unvisited(tree, cur) \subseteq Nat /\ unvisited(tree, cur) # {}
    BY SearchAssumption DEF Expand, unvisited, Moves
  <1>2. /\ indxBest' \in unvisited(tree, cur)
        /\ \A j \in unvisited(tree, cur) : indxBest' <= j
    BY <1>1, MinFacts DEF Expand
  <1>3. cur \in Seq(Moves) /\ cur \in DOMAIN tree /\ indxBest' \in Moves
    BY <1>2 DEF IInv, TreeOK, unvisited
  <1>4. /\ cur' = Append(cur, indxBest') /\ cur' \in Seq(Moves) /\ parent(cur') = cur
    BY <1>3, ChildFacts DEF Expand
  <1> DEFINE t == visit(tree, cur)
  <1>5. DOMAIN t = DOMAIN tree /\ \A m \in DOMAIN tree : t[m] \in MCTSNode
    BY <1>3, CountKeeps DEF IInv
  <1>6. tree' = add(t, cur')
    BY DEF Expand
  <1> HIDE DEF t
  <1>7. /\ DOMAIN tree' = DOMAIN tree \cup {cur'}
        /\ tree' = [m \in DOMAIN tree' |-> tree'[m]]
        /\ \A m \in DOMAIN tree' : tree'[m] \in MCTSNode
    BY <1>5, <1>6 DEF add, MCTSNode
  <1>8. TreeOK'
    BY <1>3, <1>4, <1>7 DEF IInv, TreeOK, parent
  <1> QED
    BY <1>2, <1>4, <1>7, <1>8

LEMMA DescendKeeps ==
    ASSUME IInv, Descend
    PROVE  /\ TreeOK' /\ indxBest' \in Moves
           /\ cur' = Append(cur, indxBest') /\ DOMAIN tree' = DOMAIN tree
           /\ unvisited(tree, cur) = {}
  <1>1. /\ unvisited(tree, cur) = {} /\ tree' = visit(tree, cur)
        /\ indxBest' \in Moves /\ cur' = Append(cur, indxBest')
    BY DEF Descend, bestUCB
  <1>2. cur' \in DOMAIN tree
    BY <1>1 DEF unvisited
  <1>3. cur \in DOMAIN tree /\ TreeOK
    BY DEF IInv, TreeOK
  <1> DEFINE t == visit(tree, cur)
  <1>4. /\ DOMAIN t = DOMAIN tree /\ t = [m \in DOMAIN t |-> t[m]]
        /\ \A m \in DOMAIN tree : t[m] \in MCTSNode
    BY <1>3, CountKeeps
  <1>5. tree' = t
    BY <1>1
  <1> HIDE DEF t
  <1>6. /\ DOMAIN tree' = DOMAIN tree /\ tree' = [m \in DOMAIN tree' |-> tree'[m]]
        /\ \A m \in DOMAIN tree : tree'[m] \in MCTSNode
    BY <1>4, <1>5
  <1> QED
    BY <1>1, <1>2, <1>6 DEF IInv, TreeOK, parent

LEMMA BackpropagateKeeps ==
    ASSUME IInv, Backpropagate
    PROVE  TreeOK' /\ DOMAIN tree' = DOMAIN tree
  <1>1. tree' = [tree EXCEPT ![cur].wins = @ + win] /\ cur' = parent(cur) /\ cur # root
    BY DEF Backpropagate, parent
  <1>2. cur \in DOMAIN tree /\ win \in {0, 1} /\ TreeOK /\ parent(cur) \in DOMAIN tree
    BY <1>1 DEF IInv, TreeOK, CountersOK
  <1> DEFINE t == [tree EXCEPT ![cur].wins = @ + win]
  <1>3. /\ DOMAIN t = DOMAIN tree /\ t = [m \in DOMAIN t |-> t[m]]
        /\ \A m \in DOMAIN tree : t[m] \in MCTSNode
    BY <1>2, CountKeeps
  <1>4. tree' = t
    BY <1>1
  <1> HIDE DEF t
  <1>5. /\ DOMAIN tree' = DOMAIN tree /\ tree' = [m \in DOMAIN tree' |-> tree'[m]]
        /\ \A m \in DOMAIN tree : tree'[m] \in MCTSNode
    BY <1>3, <1>4
  <1> QED
    BY <1>1, <1>2, <1>5 DEF IInv, TreeOK, parent

LEMMA IInvInit == Init => IInv
  <1> SUFFICES ASSUME Init PROVE IInv
    OBVIOUS
  <1>1. DOMAIN tree = {root} /\ tree[root] = [visited |-> 0, wins |-> 0] /\ cur = root
        /\ tree = [n \in DOMAIN tree |-> tree[n]]
    BY DEF Init
  <1>2. root \in Seq(Moves) /\ [visited |-> 0, wins |-> 0] \in MCTSNode
    BY DEF root, MCTSNode
  <1>3. TreeOK
    BY <1>1, <1>2 DEF TreeOK
  <1>4. CountersOK
    BY SearchAssumption DEF Init, CountersOK
  <1> QED
    BY <1>3, <1>4 DEF IInv

LEMMA IInvStep ==
    ASSUME IInv, [Next]_vars
    PROVE  IInv'
  <1>1. CASE Expand
    <2>1. indxBest' \in Moves
      BY <1>1, ExpandKeeps DEF unvisited
    <2> QED
      BY <1>1, <2>1, ExpandKeeps DEF Expand, IInv, CountersOK
  <1>2. CASE Descend
    BY <1>2, DescendKeeps DEF Descend, IInv, CountersOK
  <1>3. CASE Simulate
    BY <1>3 DEF Simulate, IInv, TreeOK, CountersOK, parent
  <1>4. CASE Backpropagate
    BY <1>4, BackpropagateKeeps DEF Backpropagate, IInv, CountersOK
  <1>5. CASE Iterate
    <2>1. CountersOK'
      BY <1>5, SearchAssumption DEF Iterate, IInv, CountersOK
    <2> QED
      BY <1>5, <2>1 DEF Iterate, IInv, TreeOK, parent
  <1>6. CASE Choose
    BY <1>6 DEF Choose, IInv, TreeOK, CountersOK, parent, bestUCB
  <1>7. CASE UNCHANGED vars
    BY <1>7 DEF vars, IInv, TreeOK, CountersOK, parent
  <1> QED
    BY <1>1, <1>2, <1>3, <1>4, <1>5, <1>6, <1>7 DEF Next, Done

LEMMA IInvAlways == Spec => []IInv
  BY IInvInit, IInvStep, PTL DEF Spec

(* The types of the search's variables. *)
THEOREM TypeCorrect == Spec => []TypeOK
  <1>1. IInv => TypeOK
    BY SearchAssumption DEF IInv, TreeOK, CountersOK, TypeOK
  <1> QED
    BY <1>1, IInvAlways, PTL

-----------------------------------------------------------------------------
(* The order in which moves are tried *)

(* Wherever the search stands, the siblings have all been tried. *)
Reached == pc = "select" /\ cur # root => unvisited(tree, parent(cur)) = {}

LEMMA FewerUnvisited ==
    ASSUME NEW n, DOMAIN tree \subseteq DOMAIN tree'
    PROVE  /\ unvisited(tree', n) \subseteq unvisited(tree, n)
           /\ unvisited(tree, n)' = unvisited(tree', n)
  BY DEF unvisited

LEMMA TriedSame ==
    ASSUME AllTriedFirst, DOMAIN tree' = DOMAIN tree
    PROVE  AllTriedFirst'
  BY DEF AllTriedFirst, unvisited

LEMMA TriedExpand ==
    ASSUME IInv, Reached, AllTriedFirst, Expand
    PROVE  AllTriedFirst'
  <1>1. /\ indxBest' \in unvisited(tree, cur)
        /\ \A j \in unvisited(tree, cur) : indxBest' <= j
        /\ cur' = Append(cur, indxBest') /\ DOMAIN tree' = DOMAIN tree \cup {cur'}
    BY ExpandKeeps
  <1>2. cur \in Seq(Moves) /\ cur \in DOMAIN tree /\ indxBest' \in Moves /\ cur' \notin DOMAIN tree
    BY <1>1 DEF IInv, TreeOK, unvisited
  <1>3. SUFFICES ASSUME NEW n \in DOMAIN tree', NEW k \in Moves, Append(n, k) \in DOMAIN tree'
                 PROVE  /\ \A j \in 0..(k - 1) : Append(n, j) \in DOMAIN tree'
                        /\ n # root => unvisited(tree', parent(n)) = {}
    BY DEF AllTriedFirst, parent
  <1>4. n \in Seq(Moves)
    <2>1. cur' \in Seq(Moves)
      BY <1>1, <1>2, ChildFacts
    <2>2. n \in DOMAIN tree \/ n = cur'
      BY <1>1
    <2> QED
      BY <2>1, <2>2 DEF IInv, TreeOK
  <1>5. CASE Append(n, k) \in DOMAIN tree
    <2>1. n \in DOMAIN tree
      <3>1. parent(Append(n, k)) = n /\ Append(n, k) # root
        BY <1>4, ChildFacts
      <3> QED
        BY <1>5, <3>1 DEF IInv, TreeOK
    <2>2. /\ \A j \in 0..(k - 1) : Append(n, j) \in DOMAIN tree
          /\ n # root => unvisited(tree, parent(n)) = {}
      BY <1>5, <2>1 DEF AllTriedFirst, parent
    <2> QED
      BY <1>1, <2>2, FewerUnvisited
  <1>6. CASE Append(n, k) = cur'
    <2>1. n = cur /\ k = indxBest'
      <3>1. Append(n, k) = Append(cur, indxBest')
        BY <1>1, <1>6
      <3>2. \A m \in Seq(Moves), j \in Moves :
                Append(m, j) = Append(cur, indxBest') => m = cur /\ j = indxBest'
        <4> DEFINE best == indxBest'
        <4>1. cur \in Seq(Moves) /\ best \in Moves
          BY <1>2
        <4> HIDE DEF best
        <4>2. \A m \in Seq(Moves), j \in Moves :
                Append(m, j) = Append(cur, best) => m = cur /\ j = best
          BY <4>1, ChildFacts
        <4> QED
          BY <4>2 DEF best
      <3> QED
        BY <1>4, <3>1, <3>2
    <2>2. \A j \in 0..(k - 1) : j \in Moves /\ ~ (k <= j)
      BY SearchAssumption DEF Moves
    <2>3. \A j \in 0..(k - 1) : Append(n, j) \in DOMAIN tree
      BY <1>1, <2>1, <2>2 DEF unvisited
    <2>4. n # root => unvisited(tree, parent(n)) = {}
      BY <2>1 DEF Reached, Expand
    <2> QED
      BY <1>1, <2>3, <2>4, FewerUnvisited
  <1> QED
    BY <1>1, <1>3, <1>5, <1>6

LEMMA ReachedStep ==
    ASSUME IInv, Reached, [Next]_vars
    PROVE  Reached'
  <1>1. CASE Expand \/ Simulate \/ Choose
    BY <1>1 DEF Expand, Simulate, Choose, Reached
  <1>2. CASE Descend
    <2>1. /\ cur' = Append(cur, indxBest') /\ DOMAIN tree' = DOMAIN tree
          /\ unvisited(tree, cur) = {} /\ cur \in Seq(Moves) /\ indxBest' \in Moves
      BY <1>2, DescendKeeps DEF IInv, TreeOK
    <2>2. parent(cur') = cur
      BY <2>1, ChildFacts
    <2>3. parent(cur)' = cur
      BY <2>2 DEF parent
    <2> QED
      BY <2>1, <2>3 DEF Reached, unvisited
  <1>3. CASE Backpropagate
    BY <1>3 DEF Backpropagate, Reached
  <1>4. CASE Iterate
    BY <1>4 DEF Iterate, Reached
  <1>5. CASE UNCHANGED vars
    BY <1>5 DEF vars, Reached, unvisited, parent
  <1> QED
    BY <1>1, <1>2, <1>3, <1>4, <1>5 DEF Next, Done

(* Every move is tried once before one is tried twice, at every node. *)
THEOREM AlwaysAllTriedFirst == Spec => []AllTriedFirst
  <1>1. Init => Reached /\ AllTriedFirst
    <2> SUFFICES ASSUME Init PROVE Reached /\ AllTriedFirst
      OBVIOUS
    <2>1. DOMAIN tree = {root} /\ cur = root
      BY DEF Init
    <2>2. \A k \in Moves : Append(root, k) # root
      BY DEF root
    <2> QED
      BY <2>1, <2>2 DEF Reached, AllTriedFirst
  <1>2. IInv /\ Reached /\ AllTriedFirst /\ [Next]_vars => Reached' /\ AllTriedFirst'
    <2> SUFFICES ASSUME IInv, Reached, AllTriedFirst, [Next]_vars PROVE AllTriedFirst'
      BY ReachedStep
    <2>1. CASE Expand
      BY <2>1, TriedExpand
    <2>2. CASE Descend
      BY <2>2, DescendKeeps, TriedSame
    <2>3. CASE Backpropagate
      BY <2>3, BackpropagateKeeps, TriedSame
    <2>4. CASE UNCHANGED tree
      BY <2>4, TriedSame
    <2> QED
      BY <2>1, <2>2, <2>3, <2>4 DEF Next, Simulate, Iterate, Choose, Done, vars
  <1> QED
    BY <1>1, <1>2, IInvAlways, PTL DEF Spec

-----------------------------------------------------------------------------
(* Sums over the children of a node *)

(* Induction over the natural numbers, for a set in place of a predicate.    *)
LEMMA SetInduction ==
    ASSUME NEW S, 0 \in S, \A n \in Nat : n \in S => n + 1 \in S
    PROVE  Nat \subseteq S
  <1> SUFFICES ASSUME Nat \ S # {} PROVE FALSE
    OBVIOUS
  <1> DEFINE R == OpToRel(<, Nat)
  <1>1. \A x, y \in Nat : x < y => <<x, y>> \in R
    BY DEF OpToRel
  <1> DEFINE T == Nat \ S
  <1>2. IsWellFoundedOn(R, Nat)
    BY NatLessThanWellFounded
  <1> HIDE DEF R
  <1>3. PICK m \in T : \A y \in T : ~(<<y, m>> \in R)
    BY <1>2, WFMin
  <1>4. m # 0 /\ m - 1 \in Nat /\ m - 1 < m
    OBVIOUS
  <1>5. m - 1 \in S
    BY <1>1, <1>3, <1>4
  <1> QED
    BY <1>4, <1>5

(* The element a sum over a set takes first, and the sums of v over the      *)
(* subsets of S: the recursion of MapThenSumSet.                             *)
pick(s) == CHOOSE x \in s : TRUE
IsSum(g, v, S) ==
    g = [s \in SUBSET S |-> IF s = {} THEN 0 ELSE v[pick(s)] + g[s \ {pick(s)}]]

LEMMA PickFacts ==
    ASSUME NEW S, IsFiniteSet(S), NEW s \in SUBSET S, s # {}
    PROVE  /\ pick(s) \in s /\ s \ {pick(s)} \in SUBSET S
           /\ Cardinality(s) \in Nat /\ Cardinality(s \ {pick(s)}) = Cardinality(s) - 1
           /\ Cardinality(s) # 0
  <1>1. pick(s) \in s
    BY DEF pick
  <1>2. IsFiniteSet(s)
    BY FS_Subset
  <1> QED
    BY <1>1, <1>2, FS_RemoveElement, FS_CardinalityType, FS_EmptySet

LEMMA SubsetCard ==
    ASSUME NEW S, IsFiniteSet(S), NEW s \in SUBSET S
    PROVE  /\ IsFiniteSet(s) /\ Cardinality(s) \in Nat /\ Cardinality(s) <= Cardinality(S)
           /\ Cardinality(S) \in Nat
           /\ Cardinality(s) = 0 <=> s = {}
  BY FS_Subset, FS_CardinalityType, FS_EmptySet

(* Such sums exist. *)
LEMMA SumExists ==
    ASSUME NEW S, IsFiniteSet(S), NEW v, \A x \in S : v[x] \in Nat
    PROVE  \E g \in [SUBSET S -> Nat] : IsSum(g, v, S)
  <1> DEFINE level(n) == {s \in SUBSET S : Cardinality(s) <= n}
             good(g, n) == /\ g \in [level(n) -> Nat]
                           /\ \A s \in level(n) :
                                g[s] = IF s = {} THEN 0 ELSE v[pick(s)] + g[s \ {pick(s)}]
             G == {n \in Nat : \E g : good(g, n)}
  <1>1. 0 \in G
    <2> DEFINE g == [s \in level(0) |-> 0]
    <2>1. \A s \in level(0) : s = {}
      BY SubsetCard
    <2>2. good(g, 0)
      BY <2>1
    <2> QED
      BY <2>2
  <1>2. ASSUME NEW n \in Nat, n \in G PROVE n + 1 \in G
    <2>1. PICK f : good(f, n)
      BY <1>2
    <2> DEFINE g == [s \in level(n + 1) |-> IF s = {} THEN 0 ELSE v[pick(s)] + f[s \ {pick(s)}]]
    <2>2. ASSUME NEW s \in level(n + 1), s # {}
          PROVE  /\ s \ {pick(s)} \in level(n) /\ s \ {pick(s)} \in level(n + 1)
                 /\ v[pick(s)] \in Nat
      BY <2>2, PickFacts
    <2>3. g \in [level(n + 1) -> Nat]
      <3>1. ASSUME NEW s \in level(n + 1)
            PROVE  (IF s = {} THEN 0 ELSE v[pick(s)] + f[s \ {pick(s)}]) \in Nat
        <4> SUFFICES ASSUME s # {} PROVE v[pick(s)] + f[s \ {pick(s)}] \in Nat
          OBVIOUS
        <4> DEFINE r == s \ {pick(s)}
        <4>1. r \in level(n) /\ v[pick(s)] \in Nat
          BY <2>2
        <4> HIDE DEF r, level
        <4>2. f[r] \in Nat
          BY <2>1, <4>1
        <4> QED
          BY <4>1, <4>2 DEF r
      <3> HIDE DEF level
      <3> QED
        BY <3>1
    <2>4. ASSUME NEW s \in level(n), s \in level(n + 1) PROVE g[s] = f[s]
      <3>1. f[s] = IF s = {} THEN 0 ELSE v[pick(s)] + f[s \ {pick(s)}]
        BY <2>1
      <3> QED
        BY <3>1, <2>4
    <2>5. ASSUME NEW s \in level(n + 1)
          PROVE  g[s] = IF s = {} THEN 0 ELSE v[pick(s)] + g[s \ {pick(s)}]
      <3>1. CASE s = {}
        BY <3>1
      <3>2. CASE s # {}
        <4>1. g[s \ {pick(s)}] = f[s \ {pick(s)}]
          BY <3>2, <2>2, <2>4
        <4> QED
          BY <3>2, <4>1
      <3> QED
        BY <3>1, <3>2
    <2>6. \E h : good(h, n + 1)
      <3>1. good(g, n + 1)
        BY <2>3, <2>5
      <3> HIDE DEF good, g
      <3> QED
        BY <3>1
    <2> HIDE DEF good
    <2> QED
      BY <2>6
  <1>3. Cardinality(S) \in Nat /\ S \in SUBSET S
    BY FS_CardinalityType
  <1>4. Cardinality(S) \in G
    <2> HIDE DEF G
    <2>1. Nat \subseteq G
      BY <1>1, <1>2, SetInduction
    <2> QED
      BY <1>3, <2>1
  <1>5. PICK g : good(g, Cardinality(S))
    BY <1>4
  <1>6. level(Cardinality(S)) = SUBSET S
    BY SubsetCard
  <1>7. g \in [SUBSET S -> Nat]
    BY <1>5, <1>6
  <1>8. \A s \in SUBSET S : g[s] = IF s = {} THEN 0 ELSE v[pick(s)] + g[s \ {pick(s)}]
    BY <1>5, <1>6
  <1>9. IsSum(g, v, S)
    BY <1>7, <1>8 DEF IsSum
  <1> QED
    BY <1>7, <1>9

(* Sums over the same numbers are the same, whatever sets they are part of.  *)
LEMMA SumUnique ==
    ASSUME NEW S, IsFiniteSet(S), NEW T, NEW v, NEW w, NEW g, NEW h,
           S \subseteq T, \A x \in S : v[x] = w[x],
           IsSum(g, v, S), IsSum(h, w, T)
    PROVE  \A s \in SUBSET S : g[s] = h[s]
  <1> DEFINE G == {n \in Nat : \A s \in SUBSET S : Cardinality(s) = n => g[s] = h[s]}
  <1>1. \A s \in SUBSET S : g[s] = IF s = {} THEN 0 ELSE v[pick(s)] + g[s \ {pick(s)}]
    BY DEF IsSum
  <1>2. \A s \in SUBSET S : h[s] = IF s = {} THEN 0 ELSE w[pick(s)] + h[s \ {pick(s)}]
    BY DEF IsSum
  <1>3. 0 \in G
    <2>1. \A s \in SUBSET S : Cardinality(s) = 0 => s = {}
      BY SubsetCard
    <2> QED
      BY <1>1, <1>2, <2>1
  <1>4. ASSUME NEW n \in Nat, n \in G PROVE n + 1 \in G
    <2> SUFFICES ASSUME NEW s \in SUBSET S, Cardinality(s) = n + 1 PROVE g[s] = h[s]
      OBVIOUS
    <2>1. s # {}
      BY SubsetCard
    <2>2. pick(s) \in S /\ s \ {pick(s)} \in SUBSET S /\ Cardinality(s \ {pick(s)}) = n
      BY <2>1, PickFacts
    <2>3. g[s \ {pick(s)}] = h[s \ {pick(s)}]
      BY <1>4, <2>2
    <2> QED
      BY <1>1, <1>2, <2>1, <2>2, <2>3
  <1>5. Nat \subseteq G
    <2> HIDE DEF G
    <2> QED
      BY <1>3, <1>4, SetInduction
  <1> QED
    BY <1>5, SubsetCard

(* The order in which a set is summed does not matter. *)
LEMMA SumAdds ==
    ASSUME NEW S, IsFiniteSet(S), NEW v, \A x \in S : v[x] \in Nat,
           NEW g \in [SUBSET S -> Nat], IsSum(g, v, S)
    PROVE  \A s \in SUBSET S, a \in S : a \in s => g[s] = v[a] + g[s \ {a}]
  <1> DEFINE G == {n \in Nat : \A s \in SUBSET S, a \in S :
                        Cardinality(s) = n /\ a \in s => g[s] = v[a] + g[s \ {a}]}
  <1>1. \A s \in SUBSET S : g[s] = IF s = {} THEN 0 ELSE v[pick(s)] + g[s \ {pick(s)}]
    BY DEF IsSum
  <1>2. 0 \in G
    BY SubsetCard
  <1>3. ASSUME NEW n \in Nat, n \in G PROVE n + 1 \in G
    <2> SUFFICES ASSUME NEW s \in SUBSET S, NEW a \in S, Cardinality(s) = n + 1, a \in s
                 PROVE  g[s] = v[a] + g[s \ {a}]
      OBVIOUS
    <2> DEFINE c == pick(s)
               u == (s \ {a}) \ {c}
    <2>0. \A r \in SUBSET S, b \in S :
             Cardinality(r) = n /\ b \in r => g[r] = v[b] + g[r \ {b}]
      BY <1>3
    <2> HIDE DEF G
    <2>1. c \in s /\ c \in S /\ s \ {c} \in SUBSET S /\ Cardinality(s \ {c}) = n
      BY PickFacts
    <2>2. g[s] = v[c] + g[s \ {c}]
      BY <1>1
    <2>3. CASE a = c
      BY <2>2, <2>3
    <2>4. CASE a # c
      <3>1. s \ {a} \in SUBSET S /\ Cardinality(s \ {a}) = n /\ c \in s \ {a}
        BY <2>1, <2>4, SubsetCard, FS_RemoveElement
      <3>2. a \in s \ {c} /\ (s \ {c}) \ {a} = u
        BY <2>4
      <3> HIDE DEF c
      <3>3. g[s \ {c}] = v[a] + g[u]
        <4>1. g[s \ {c}] = v[a] + g[(s \ {c}) \ {a}]
          BY <2>0, <2>1, <3>2
        <4> HIDE DEF u
        <4> QED
          BY <3>2, <4>1
      <3>4. g[s \ {a}] = v[c] + g[u]
        BY <2>0, <2>1, <3>1
      <3>5. v[a] \in Nat /\ v[c] \in Nat /\ u \in SUBSET S /\ g[u] \in Nat
        BY <2>1
      <3> QED
        BY <2>2, <3>3, <3>4, <3>5
    <2> QED
      BY <2>3, <2>4
  <1>4. Nat \subseteq G
    <2> HIDE DEF G
    <2> QED
      BY <1>2, <1>3, SetInduction
  <1> QED
    BY <1>4, SubsetCard

(* The sum of v over S. *)
SumOf(v, S) == (CHOOSE g : IsSum(g, v, S))[S]

LEMMA SumOfIs ==
    ASSUME NEW S, IsFiniteSet(S), NEW v, \A x \in S : v[x] \in Nat,
           NEW g, IsSum(g, v, S)
    PROVE  \A s \in SUBSET S : SumOf(v, s) = g[s] /\ g[s] \in Nat
  <1> SUFFICES ASSUME NEW s \in SUBSET S PROVE SumOf(v, s) = g[s] /\ g[s] \in Nat
    OBVIOUS
  <1>1. IsFiniteSet(s) /\ s \in SUBSET s /\ \A x \in s : v[x] \in Nat
    BY FS_Subset
  <1>2. PICK h \in [SUBSET s -> Nat] : IsSum(h, v, s)
    BY <1>1, SumExists
  <1> DEFINE c == CHOOSE h1 : IsSum(h1, v, s)
  <1>3. IsSum(c, v, s)
    BY <1>2
  <1>4. SumOf(v, s) = c[s]
    BY DEF SumOf
  <1> HIDE DEF c
  <1>5. c[s] = g[s]
    BY <1>1, <1>3, SumUnique
  <1>6. c[s] = h[s]
    BY <1>1, <1>2, <1>3, SumUnique
  <1>7. h[s] \in Nat
    BY <1>1, <1>2
  <1> QED
    BY <1>4, <1>5, <1>6, <1>7

LEMMA SumOfFacts ==
    ASSUME NEW S, IsFiniteSet(S), NEW v, \A x \in S : v[x] \in Nat
    PROVE  /\ SumOf(v, S) \in Nat
           /\ S = {} => SumOf(v, S) = 0
           /\ \A a \in S : SumOf(v, S \ {a}) \in Nat /\ SumOf(v, S) = v[a] + SumOf(v, S \ {a})
  <1>1. PICK g \in [SUBSET S -> Nat] : IsSum(g, v, S)
    BY SumExists
  <1>2. \A s \in SUBSET S : SumOf(v, s) = g[s] /\ g[s] \in Nat
    BY <1>1, SumOfIs
  <1>3. \A a \in S : g[S] = v[a] + g[S \ {a}]
    <2>1. S \in SUBSET S /\ IsSum(g, v, S)
      BY <1>1
    <2>2. \A s \in SUBSET S, a \in S : a \in s => g[s] = v[a] + g[s \ {a}]
      BY <2>1, SumAdds
    <2> QED
      BY <2>1, <2>2
  <1>4. S = {} => g[S] = 0
    BY <1>1 DEF IsSum
  <1> QED
    BY <1>2, <1>3, <1>4

LEMMA SumOfSame ==
    ASSUME NEW S, IsFiniteSet(S), NEW v, NEW w,
           \A x \in S : v[x] \in Nat /\ w[x] = v[x]
    PROVE  SumOf(v, S) = SumOf(w, S)
  <1>1. PICK g \in [SUBSET S -> Nat] : IsSum(g, v, S)
    BY SumExists
  <1>2. PICK h \in [SUBSET S -> Nat] : IsSum(h, w, S)
    BY SumExists
  <1>3. g[S] = h[S]
    BY <1>1, <1>2, SumUnique
  <1> QED
    BY <1>1, <1>2, <1>3, SumOfIs

(* The numbers of visits and of wins of the nodes of t. *)
visitsIn(t) == [n \in DOMAIN t |-> t[n].visited]
winsIn(t)   == [n \in DOMAIN t |-> t[n].wins]

LEMMA VisitsAreSums ==
    ASSUME NEW t, NEW S, S \subseteq DOMAIN t, IsFiniteSet(S), \A x \in S : t[x].visited \in Nat
    PROVE  MapThenSumSet(LAMBDA n : t[n].visited, S) = SumOf(visitsIn(t), S)
  <1> DEFINE v == visitsIn(t)
             P(g) == g = [s \in SUBSET S |->
                             IF s = {} THEN 0
                             ELSE t[CHOOSE x \in s : TRUE].visited + g[s \ {CHOOSE x \in s : TRUE}]]
             c == CHOOSE g : P(g)
  <1>1. MapThenSumSet(LAMBDA n : t[n].visited, S) = c[S]
    BY DEF MapThenSumSet, MapThenFoldSet
  <1>2. \A x \in S : v[x] = t[x].visited
    BY DEF visitsIn
  <1> HIDE DEF v
  <1>3. ASSUME NEW g PROVE P(g) <=> IsSum(g, v, S)
    <2>1. \A s \in SUBSET S : s # {} => v[pick(s)] = t[CHOOSE x \in s : TRUE].visited
      BY <1>2 DEF pick
    <2>2. [s \in SUBSET S |-> IF s = {} THEN 0
                             ELSE t[CHOOSE x \in s : TRUE].visited + g[s \ {CHOOSE x \in s : TRUE}]]
           = [s \in SUBSET S |-> IF s = {} THEN 0 ELSE v[pick(s)] + g[s \ {pick(s)}]]
      BY <2>1 DEF pick
    <2> QED
      BY <2>2 DEF IsSum
  <1>4. PICK g : IsSum(g, v, S)
    BY <1>2, SumExists
  <1>5. P(c)
    <2> HIDE DEF P
    <2> QED
      BY <1>3, <1>4
  <1>6. IsSum(c, v, S)
    BY <1>3, <1>5
  <1> HIDE DEF c
  <1> QED
    BY <1>1, <1>2, <1>6, SumOfIs DEF v
LEMMA WinsAreSums ==
    ASSUME NEW t, NEW S, S \subseteq DOMAIN t, IsFiniteSet(S), \A x \in S : t[x].wins \in Nat
    PROVE  MapThenSumSet(LAMBDA n : t[n].wins, S) = SumOf(winsIn(t), S)
  <1> DEFINE v == winsIn(t)
             P(g) == g = [s \in SUBSET S |->
                             IF s = {} THEN 0
                             ELSE t[CHOOSE x \in s : TRUE].wins + g[s \ {CHOOSE x \in s : TRUE}]]
             c == CHOOSE g : P(g)
  <1>1. MapThenSumSet(LAMBDA n : t[n].wins, S) = c[S]
    BY DEF MapThenSumSet, MapThenFoldSet
  <1>2. \A x \in S : v[x] = t[x].wins
    BY DEF winsIn
  <1> HIDE DEF v
  <1>3. ASSUME NEW g PROVE P(g) <=> IsSum(g, v, S)
    <2>1. \A s \in SUBSET S : s # {} => v[pick(s)] = t[CHOOSE x \in s : TRUE].wins
      BY <1>2 DEF pick
    <2>2. [s \in SUBSET S |-> IF s = {} THEN 0
                             ELSE t[CHOOSE x \in s : TRUE].wins + g[s \ {CHOOSE x \in s : TRUE}]]
           = [s \in SUBSET S |-> IF s = {} THEN 0 ELSE v[pick(s)] + g[s \ {pick(s)}]]
      BY <2>1 DEF pick
    <2> QED
      BY <2>2 DEF IsSum
  <1>4. PICK g : IsSum(g, v, S)
    BY <1>2, SumExists
  <1>5. P(c)
    <2> HIDE DEF P
    <2> QED
      BY <1>3, <1>4
  <1>6. IsSum(c, v, S)
    BY <1>3, <1>5
  <1> HIDE DEF c
  <1> QED
    BY <1>1, <1>2, <1>6, SumOfIs DEF v

LEMMA SumShift ==
    ASSUME NEW K, IsFiniteSet(K), NEW v, NEW w, NEW c, NEW d \in Nat,
           \A x \in K : v[x] \in Nat /\ w[x] = v[x] + (IF x = c THEN d ELSE 0)
    PROVE  /\ SumOf(v, K) \in Nat
           /\ SumOf(w, K) = SumOf(v, K) + (IF c \in K THEN d ELSE 0)
  <1>1. SumOf(v, K) \in Nat
    BY SumOfFacts
  <1>2. CASE c \notin K
    BY <1>1, <1>2, SumOfSame
  <1>3. CASE c \in K
    <2> DEFINE R == K \ {c}
    <2>1. IsFiniteSet(R) /\ \A x \in R : v[x] \in Nat /\ w[x] = v[x]
      BY FS_RemoveElement
    <2>2. SumOf(v, R) = SumOf(w, R)
      <3> HIDE DEF R
      <3> QED
        BY <2>1, SumOfSame
    <2>3. \A x \in K : w[x] \in Nat
      OBVIOUS
    <2>4. SumOf(v, R) \in Nat /\ SumOf(v, K) = v[c] + SumOf(v, R)
      BY <1>3, SumOfFacts
    <2>5. SumOf(w, K) = w[c] + SumOf(w, R)
      BY <1>3, <2>3, SumOfFacts
    <2> HIDE DEF R
    <2> QED
      BY <1>1, <1>3, <2>2, <2>4, <2>5
  <1> QED
    BY <1>2, <1>3, <1>1

LEMMA SumGrow ==
    ASSUME NEW K, IsFiniteSet(K), NEW v, NEW w, NEW c, c \notin K, w[c] \in Nat,
           \A x \in K : v[x] \in Nat /\ w[x] = v[x]
    PROVE  /\ SumOf(v, K) \in Nat
           /\ SumOf(w, K \cup {c}) = SumOf(v, K) + w[c]
  <1> DEFINE L == K \cup {c}
  <1>1. SumOf(v, K) \in Nat
    BY SumOfFacts
  <1>2. IsFiniteSet(L) /\ c \in L /\ L \ {c} = K /\ \A x \in L : w[x] \in Nat
    BY FS_AddElement
  <1> HIDE DEF L
  <1>3. SumOf(w, L) = w[c] + SumOf(w, K)
    BY <1>2, SumOfFacts
  <1>4. SumOf(w, K) = SumOf(v, K)
    BY SumOfSame
  <1> QED
    BY <1>1, <1>3, <1>4 DEF L

(* A tree: nodes with their counts, each but the root under a node.          *)
Tree(t) ==
    /\ \A n \in DOMAIN t : n \in Seq(Moves) /\ t[n] \in MCTSNode
    /\ \A n \in DOMAIN t : n # root => parent(n) \in DOMAIN t

kids(t, n) == {m \in DOMAIN t : \E k \in Moves : m = Append(n, k)}
visitsBelow(t, n) == SumOf(visitsIn(t), kids(t, n))
winsBelow(t, n)   == SumOf(winsIn(t), kids(t, n))

LEMMA KidsFacts ==
    ASSUME NEW t, Tree(t), NEW n \in Seq(Moves)
    PROVE  /\ kids(t, n) \subseteq DOMAIN t /\ IsFiniteSet(kids(t, n))
           /\ \A c \in DOMAIN t : c \in kids(t, n) <=> c # root /\ parent(c) = n
           /\ \A c \in kids(t, n) : visitsIn(t)[c] \in Nat /\ winsIn(t)[c] \in Nat
  <1>1. kids(t, n) \subseteq DOMAIN t
    BY DEF kids
  <1>2. IsFiniteSet(kids(t, n))
    <2> DEFINE f == [k \in Moves |-> Append(n, k)]
               T == {Append(n, k) : k \in Moves}
    <2>1. IsFiniteSet(Moves)
      BY SearchAssumption, FS_Interval DEF Moves
    <2>2. f \in Surjection(Moves, T)
      BY DEF Surjection
    <2>3. IsFiniteSet(T)
      <3> HIDE DEF f, T
      <3> QED
        BY <2>1, <2>2, FS_Surjection
    <2>4. kids(t, n) \in SUBSET T
      BY DEF kids
    <2> HIDE DEF T
    <2> QED
      BY <2>3, <2>4, FS_Subset
  <1>3. ASSUME NEW c \in DOMAIN t
        PROVE  c \in kids(t, n) <=> c # root /\ parent(c) = n
    <2>1. c \in Seq(Moves)
      BY DEF Tree
    <2>2. ASSUME c \in kids(t, n) PROVE c # root /\ parent(c) = n
      BY <2>2, ChildFacts DEF kids
    <2>3. ASSUME c # root, parent(c) = n PROVE c \in kids(t, n)
      BY <2>1, <2>3, ParentFacts DEF kids
    <2> QED
      BY <2>2, <2>3
  <1>4. \A c \in DOMAIN t : visitsIn(t)[c] \in Nat /\ winsIn(t)[c] \in Nat
    BY DEF visitsIn, winsIn, Tree, MCTSNode
  <1> QED
    BY <1>1, <1>2, <1>3, <1>4

(* A node counted once more counts once more below its parent.               *)
LEMMA CountedOnce ==
    ASSUME NEW t, Tree(t), NEW c \in DOMAIN t, NEW d \in Nat, NEW u, DOMAIN u = DOMAIN t,
           NEW n \in DOMAIN t
    PROVE  /\ (\A m \in DOMAIN t : u[m].visited = t[m].visited + (IF m = c THEN d ELSE 0))
                => visitsBelow(u, n) =
                     visitsBelow(t, n) + (IF c # root /\ parent(c) = n THEN d ELSE 0)
           /\ (\A m \in DOMAIN t : u[m].wins = t[m].wins + (IF m = c THEN d ELSE 0))
                => winsBelow(u, n) =
                     winsBelow(t, n) + (IF c # root /\ parent(c) = n THEN d ELSE 0)
           /\ visitsBelow(t, n) \in Nat /\ winsBelow(t, n) \in Nat
  <1> DEFINE K == kids(t, n)
  <1>1. n \in Seq(Moves)
    BY DEF Tree
  <1>2. /\ K \subseteq DOMAIN t /\ IsFiniteSet(K)
        /\ c \in K <=> c # root /\ parent(c) = n
        /\ \A x \in K : visitsIn(t)[x] \in Nat /\ winsIn(t)[x] \in Nat
    BY <1>1, KidsFacts
  <1>3. kids(u, n) = K
    BY DEF kids
  <1> HIDE DEF K
  <1>4. ASSUME \A m \in DOMAIN t : u[m].visited = t[m].visited + (IF m = c THEN d ELSE 0)
        PROVE  SumOf(visitsIn(u), K) = SumOf(visitsIn(t), K) + (IF c \in K THEN d ELSE 0)
    <2> DEFINE v == visitsIn(t)
               w == visitsIn(u)
    <2>1. \A x \in K : v[x] \in Nat /\ w[x] = v[x] + (IF x = c THEN d ELSE 0)
      BY <1>2, <1>4 DEF visitsIn
    <2> HIDE DEF v, w
    <2>2. SumOf(w, K) = SumOf(v, K) + (IF c \in K THEN d ELSE 0)
      BY <1>2, <2>1, SumShift
    <2> QED
      BY <2>2 DEF v, w
  <1>5. ASSUME \A m \in DOMAIN t : u[m].wins = t[m].wins + (IF m = c THEN d ELSE 0)
        PROVE  SumOf(winsIn(u), K) = SumOf(winsIn(t), K) + (IF c \in K THEN d ELSE 0)
    <2> DEFINE v == winsIn(t)
               w == winsIn(u)
    <2>1. \A x \in K : v[x] \in Nat /\ w[x] = v[x] + (IF x = c THEN d ELSE 0)
      BY <1>2, <1>5 DEF winsIn
    <2> HIDE DEF v, w
    <2>2. SumOf(w, K) = SumOf(v, K) + (IF c \in K THEN d ELSE 0)
      BY <1>2, <2>1, SumShift
    <2> QED
      BY <2>2 DEF v, w
  <1>6. SumOf(visitsIn(t), K) \in Nat /\ SumOf(winsIn(t), K) \in Nat
    BY <1>2, SumOfFacts
  <1> QED
    BY <1>2, <1>3, <1>4, <1>5, <1>6 DEF visitsBelow, winsBelow, K

(* A node added counts below its parent, and has nothing below it.           *)
LEMMA AddedBelow ==
    ASSUME NEW t, Tree(t), NEW p \in DOMAIN t, NEW k \in Moves,
           Append(p, k) \notin DOMAIN t,
           NEW n \in DOMAIN t
    PROVE  LET c == Append(p, k)
               u == add(t, c)
           IN  /\ visitsBelow(u, n) = visitsBelow(t, n) + (IF p = n THEN 1 ELSE 0)
               /\ winsBelow(u, n) = winsBelow(t, n)
               /\ visitsBelow(u, c) = 0 /\ winsBelow(u, c) = 0
  <1> DEFINE c == Append(p, k)
             u == add(t, c)
             K == kids(t, n)
  <1>1. n \in Seq(Moves) /\ p \in Seq(Moves)
    BY DEF Tree
  <1>2. /\ c \in Seq(Moves) /\ c # root /\ parent(c) = p
    BY <1>1, ChildFacts
  <1>3. /\ K \subseteq DOMAIN t /\ IsFiniteSet(K) /\ c \notin K
        /\ \A x \in K : visitsIn(t)[x] \in Nat /\ winsIn(t)[x] \in Nat
    BY <1>1, KidsFacts
  <1>4. /\ DOMAIN u = DOMAIN t \cup {c} /\ \A m \in DOMAIN t : u[m] = t[m]
        /\ u[c] = [visited |-> 1, wins |-> 0]
    BY DEF add
  <1>5. kids(u, c) = {}
    <2> SUFFICES ASSUME NEW j \in Moves, Append(c, j) \in DOMAIN u PROVE FALSE
      BY DEF kids
    <2>1. parent(Append(c, j)) = c /\ Append(c, j) # c /\ Append(c, j) # root
      BY <1>2, ChildFacts
    <2>2. Append(c, j) \in DOMAIN t
      BY <1>4, <2>1
    <2> QED
      BY <2>1, <2>2 DEF Tree
  <1>6. kids(u, n) = IF p = n THEN K \cup {c} ELSE K
    <2>1. (\E j \in Moves : c = Append(n, j)) <=> p = n
      BY <1>1, <1>2, ChildFacts
    <2> HIDE DEF c, u
    <2> QED
      BY <1>4, <2>1 DEF kids, K
  <1>7. /\ \A x \in DOMAIN t : visitsIn(u)[x] = visitsIn(t)[x] /\ winsIn(u)[x] = winsIn(t)[x]
        /\ visitsIn(u)[c] = 1 /\ winsIn(u)[c] = 0
    BY <1>4 DEF visitsIn, winsIn
  <1> HIDE DEF c, u, K
  <1>8. \A x \in K : visitsIn(u)[x] = visitsIn(t)[x] /\ winsIn(u)[x] = winsIn(t)[x]
    BY <1>3, <1>7
  <1>9. /\ SumOf(visitsIn(u), K) = SumOf(visitsIn(t), K)
        /\ SumOf(winsIn(u), K) = SumOf(winsIn(t), K)
        /\ SumOf(visitsIn(t), K) \in Nat /\ SumOf(winsIn(t), K) \in Nat
    BY <1>3, <1>8, SumOfSame, SumOfFacts
  <1>10. /\ SumOf(visitsIn(u), K \cup {c}) = SumOf(visitsIn(t), K) + 1
         /\ SumOf(winsIn(u), K \cup {c}) = SumOf(winsIn(t), K) + 0
    <2>1. SumOf(visitsIn(u), K \cup {c}) = SumOf(visitsIn(t), K) + visitsIn(u)[c]
      <3> DEFINE v == visitsIn(t)
                 w == visitsIn(u)
      <3>1. w[c] \in Nat /\ \A x \in K : v[x] \in Nat /\ w[x] = v[x]
        BY <1>3, <1>7, <1>8
      <3> HIDE DEF v, w
      <3>2. SumOf(w, K \cup {c}) = SumOf(v, K) + w[c]
        BY <1>3, <3>1, SumGrow
      <3> QED
        BY <3>2 DEF v, w
    <2>2. SumOf(winsIn(u), K \cup {c}) = SumOf(winsIn(t), K) + winsIn(u)[c]
      <3> DEFINE v == winsIn(t)
                 w == winsIn(u)
      <3>1. w[c] \in Nat /\ \A x \in K : v[x] \in Nat /\ w[x] = v[x]
        BY <1>3, <1>7, <1>8
      <3> HIDE DEF v, w
      <3>2. SumOf(w, K \cup {c}) = SumOf(v, K) + w[c]
        BY <1>3, <3>1, SumGrow
      <3> QED
        BY <3>2 DEF v, w
    <2> QED
      BY <1>7, <2>1, <2>2
  <1>11. /\ visitsBelow(u, n) = visitsBelow(t, n) + (IF p = n THEN 1 ELSE 0)
         /\ winsBelow(u, n) = winsBelow(t, n)
    BY <1>6, <1>9, <1>10 DEF visitsBelow, winsBelow, K
  <1>12. visitsBelow(u, c) = 0 /\ winsBelow(u, c) = 0
    BY <1>5, FS_EmptySet, SumOfFacts DEF visitsBelow, winsBelow
  <1> QED
    BY <1>11, <1>12 DEF c, u

-----------------------------------------------------------------------------
(* Visits and wins add up *)

(* On the way down the node last left has been visited once more than the    *)
(* nodes below it.                                                           *)
ahead(n) == IF pc = "select" /\ cur # root /\ n = parent(cur) THEN 1 ELSE 0
own(n)   == IF n = root THEN 0 ELSE 1

VisitsInv ==
    \A n \in DOMAIN tree : tree[n].visited = visitsBelow(tree, n) + own(n) + ahead(n)

(* On the way up the node the search stands at has yet to be given the win   *)
(* that the node below it was given.                                         *)
owed(n) == IF pc = "backpropagate" /\ n = cur THEN win ELSE 0

WinsInv ==
    /\ pc = "simulate" => cur # root /\ tree[cur].wins = 0 /\ winsBelow(tree, cur) = 0
    /\ \A n \in DOMAIN tree : n # root =>
            tree[n].wins + owed(n) - winsBelow(tree, n) \in {0, 1}

LEMMA IsTree == TreeOK => Tree(tree)
  BY DEF TreeOK, Tree

(* Entering a node.                                                          *)
LEMMA VisitCounts ==
    ASSUME IInv
    PROVE  LET t == visit(tree, cur)
           IN  /\ Tree(t) /\ DOMAIN t = DOMAIN tree
               /\ \A n \in DOMAIN tree :
                    /\ t[n].visited = tree[n].visited + (IF n = cur THEN 1 ELSE 0)
                    /\ t[n].wins = tree[n].wins
                    /\ visitsBelow(t, n) = visitsBelow(tree, n)
                          + (IF cur # root /\ n = parent(cur) THEN 1 ELSE 0)
                    /\ winsBelow(t, n) = winsBelow(tree, n)
                    /\ visitsBelow(tree, n) \in Nat /\ winsBelow(tree, n) \in Nat
  <1> DEFINE t == visit(tree, cur)
  <1>1. TreeOK /\ Tree(tree) /\ cur \in DOMAIN tree /\ tree[cur] \in MCTSNode
    BY IsTree DEF IInv, TreeOK
  <1>2. DOMAIN t = DOMAIN tree /\ \A m \in DOMAIN tree : t[m] \in MCTSNode
    BY <1>1, CountKeeps
  <1>3. \A n \in DOMAIN tree :
            /\ t[n].visited = tree[n].visited + (IF n = cur THEN 1 ELSE 0)
            /\ t[n].wins = tree[n].wins + (IF n = cur THEN 0 ELSE 0)
            /\ tree[n].visited \in Nat /\ tree[n].wins \in Nat
    BY <1>1 DEF visit, Tree, MCTSNode
  <1> HIDE DEF t
  <1>4. Tree(t)
    BY <1>1, <1>2 DEF Tree
  <1>5. ASSUME NEW n \in DOMAIN tree
        PROVE  /\ visitsBelow(t, n) = visitsBelow(tree, n)
                     + (IF cur # root /\ n = parent(cur) THEN 1 ELSE 0)
               /\ winsBelow(t, n) = winsBelow(tree, n)
               /\ visitsBelow(tree, n) \in Nat /\ winsBelow(tree, n) \in Nat
    <2>1. /\ visitsBelow(t, n) = visitsBelow(tree, n)
                + (IF cur # root /\ parent(cur) = n THEN 1 ELSE 0)
          /\ visitsBelow(tree, n) \in Nat /\ winsBelow(tree, n) \in Nat
      BY <1>1, <1>2, <1>3, CountedOnce
    <2>2. winsBelow(t, n) = winsBelow(tree, n)
                + (IF cur # root /\ parent(cur) = n THEN 0 ELSE 0)
      BY <1>1, <1>2, <1>3, CountedOnce
    <2> QED
      BY <2>1, <2>2
  <1>6. \A n \in DOMAIN tree : t[n].wins = tree[n].wins
    BY <1>3
  <1> QED
    BY <1>2, <1>3, <1>4, <1>5, <1>6 DEF t

LEMMA ExpandCounts ==
    ASSUME IInv, Expand
    PROVE  /\ \A n \in DOMAIN tree :
                 /\ tree'[n].visited = tree[n].visited + (IF n = cur THEN 1 ELSE 0)
                 /\ tree'[n].wins = tree[n].wins
                 /\ visitsBelow(tree', n) = visitsBelow(tree, n)
                       + (IF cur # root /\ n = parent(cur) THEN 1 ELSE 0)
                       + (IF n = cur THEN 1 ELSE 0)
                 /\ winsBelow(tree', n) = winsBelow(tree, n)
                 /\ visitsBelow(tree, n) \in Nat /\ winsBelow(tree, n) \in Nat
           /\ DOMAIN tree' = DOMAIN tree \cup {cur'}
           /\ cur' \notin DOMAIN tree /\ cur' # root
           /\ tree'[cur'] = [visited |-> 1, wins |-> 0]
           /\ visitsBelow(tree', cur') = 0 /\ winsBelow(tree', cur') = 0
  <1> DEFINE t == visit(tree, cur)
             k == indxBest'
             u == tree'
             c == cur'
  <1>1. k \in Moves /\ c = Append(cur, k) /\ c \notin DOMAIN tree /\ u = add(t, c)
        /\ cur \in DOMAIN tree /\ cur \in Seq(Moves) /\ DOMAIN u = DOMAIN tree \cup {c}
    <2>1. indxBest' \in unvisited(tree, cur) /\ cur' = Append(cur, indxBest')
          /\ DOMAIN tree' = DOMAIN tree \cup {cur'}
      BY ExpandKeeps
    <2>2. tree' = add(visit(tree, cur), cur')
      BY DEF Expand
    <2> QED
      BY <2>1, <2>2 DEF unvisited, IInv, TreeOK
  <1> HIDE DEF k, u, c
  <1>2. /\ Tree(t) /\ DOMAIN t = DOMAIN tree
        /\ \A n \in DOMAIN tree :
              /\ t[n].visited = tree[n].visited + (IF n = cur THEN 1 ELSE 0)
              /\ t[n].wins = tree[n].wins
              /\ visitsBelow(t, n) = visitsBelow(tree, n)
                    + (IF cur # root /\ n = parent(cur) THEN 1 ELSE 0)
              /\ winsBelow(t, n) = winsBelow(tree, n)
              /\ visitsBelow(tree, n) \in Nat /\ winsBelow(tree, n) \in Nat
    BY VisitCounts
  <1> HIDE DEF t
  <1>3. \A n \in DOMAIN t :
           /\ visitsBelow(u, n) = visitsBelow(t, n) + (IF cur = n THEN 1 ELSE 0)
           /\ winsBelow(u, n) = winsBelow(t, n)
           /\ visitsBelow(u, c) = 0 /\ winsBelow(u, c) = 0
    BY <1>1, <1>2, AddedBelow
  <1>4. /\ \A n \in DOMAIN tree : u[n] = t[n]
        /\ u[c] = [visited |-> 1, wins |-> 0]
    BY <1>1, <1>2 DEF add
  <1>5. c # root
    BY <1>1, ChildFacts
  <1>6. \A n \in DOMAIN tree :
           /\ u[n].visited = tree[n].visited + (IF n = cur THEN 1 ELSE 0)
           /\ u[n].wins = tree[n].wins
           /\ visitsBelow(u, n) = visitsBelow(tree, n)
                 + (IF cur # root /\ n = parent(cur) THEN 1 ELSE 0)
                 + (IF n = cur THEN 1 ELSE 0)
           /\ winsBelow(u, n) = winsBelow(tree, n)
           /\ visitsBelow(tree, n) \in Nat /\ winsBelow(tree, n) \in Nat
    BY <1>2, <1>3, <1>4
  <1>7. visitsBelow(u, c) = 0 /\ winsBelow(u, c) = 0
    BY <1>1, <1>2, <1>3
  <1> QED
    BY <1>1, <1>4, <1>5, <1>6, <1>7 DEF u, c

LEMMA BackpropagateCounts ==
    ASSUME IInv, Backpropagate
    PROVE  \A n \in DOMAIN tree :
              /\ tree'[n].visited = tree[n].visited
              /\ tree'[n].wins = tree[n].wins + (IF n = cur THEN win ELSE 0)
              /\ visitsBelow(tree', n) = visitsBelow(tree, n)
              /\ winsBelow(tree', n) = winsBelow(tree, n) + (IF n = parent(cur) THEN win ELSE 0)
              /\ winsBelow(tree, n) \in Nat
  <1> DEFINE u == tree'
  <1>1. /\ Tree(tree) /\ cur \in DOMAIN tree /\ tree[cur] \in MCTSNode /\ cur # root
        /\ win \in {0, 1} /\ win \in Nat
    BY IsTree DEF IInv, TreeOK, CountersOK, Backpropagate
  <1>2. u = [tree EXCEPT ![cur].wins = @ + win] /\ DOMAIN u = DOMAIN tree
    BY DEF Backpropagate
  <1>3. \A n \in DOMAIN tree :
           /\ u[n].visited = tree[n].visited + (IF n = cur THEN 0 ELSE 0)
           /\ u[n].wins = tree[n].wins + (IF n = cur THEN win ELSE 0)
           /\ u[n].visited = tree[n].visited
    <2> HIDE DEF u
    <2> QED
      BY <1>1, <1>2 DEF Tree, MCTSNode
  <1> HIDE DEF u
  <1>4. ASSUME NEW n \in DOMAIN tree
        PROVE  /\ visitsBelow(u, n) = visitsBelow(tree, n)
               /\ winsBelow(u, n) = winsBelow(tree, n) + (IF n = parent(cur) THEN win ELSE 0)
               /\ winsBelow(tree, n) \in Nat
    <2>1. /\ Tree(tree) /\ cur \in DOMAIN tree /\ win \in Nat /\ 0 \in Nat
          /\ DOMAIN u = DOMAIN tree
      BY <1>1, <1>2
    <2>2. \A m \in DOMAIN tree : u[m].wins = tree[m].wins + (IF m = cur THEN win ELSE 0)
      BY <1>3
    <2>3. \A m \in DOMAIN tree : u[m].visited = tree[m].visited + (IF m = cur THEN 0 ELSE 0)
      BY <1>3
    <2>4. /\ winsBelow(u, n) = winsBelow(tree, n)
                + (IF cur # root /\ parent(cur) = n THEN win ELSE 0)
          /\ visitsBelow(tree, n) \in Nat /\ winsBelow(tree, n) \in Nat
      BY <2>1, <2>2, CountedOnce
    <2>5. visitsBelow(u, n) = visitsBelow(tree, n)
                + (IF cur # root /\ parent(cur) = n THEN 0 ELSE 0)
      BY <2>1, <2>3, CountedOnce
    <2> QED
      BY <1>1, <2>4, <2>5
  <1> QED
    BY <1>3, <1>4 DEF u

LEMMA VisitsStep ==
    ASSUME IInv, VisitsInv, [Next]_vars
    PROVE  VisitsInv'
  <1>1. SUFFICES ASSUME NEW n \in DOMAIN tree'
                 PROVE  tree'[n].visited = visitsBelow(tree', n) + own(n) + ahead(n)'
    BY DEF VisitsInv, own
  <1>2. n \in DOMAIN tree =>
           /\ tree[n].visited = visitsBelow(tree, n) + own(n) + ahead(n)
           /\ own(n) \in Nat /\ ahead(n) \in Nat
    BY DEF VisitsInv, own, ahead
  <1>3. CASE Expand
    <2>1. ahead(n)' = 0
      BY <1>3 DEF Expand, ahead
    <2>2. CASE n \in DOMAIN tree
      <3>1. ahead(n) = IF cur # root /\ n = parent(cur) THEN 1 ELSE 0
        BY <1>3 DEF Expand, ahead
      <3>2. /\ tree'[n].visited = tree[n].visited + (IF n = cur THEN 1 ELSE 0)
            /\ visitsBelow(tree', n) = visitsBelow(tree, n)
                  + (IF cur # root /\ n = parent(cur) THEN 1 ELSE 0)
                  + (IF n = cur THEN 1 ELSE 0)
            /\ visitsBelow(tree, n) \in Nat
        BY <1>3, <2>2, ExpandCounts
      <3> QED
        BY <1>2, <2>1, <2>2, <3>1, <3>2
    <2>3. CASE n \notin DOMAIN tree
      <3>1. /\ n = cur' /\ n # root /\ tree'[n] = [visited |-> 1, wins |-> 0]
            /\ visitsBelow(tree', n) = 0
        BY <1>3, <2>3, ExpandCounts
      <3> QED
        BY <2>1, <3>1 DEF own
    <2> QED
      BY <2>2, <2>3
  <1>4. CASE Descend
    <2>1. /\ DOMAIN tree' = DOMAIN tree /\ tree' = visit(tree, cur)
          /\ cur' = Append(cur, indxBest') /\ indxBest' \in Moves /\ cur \in Seq(Moves)
          /\ pc = "select" /\ pc' = "select"
      BY <1>4, DescendKeeps DEF Descend, IInv, TreeOK
    <2>2. ahead(n)' = IF n = cur THEN 1 ELSE 0
      <3> DEFINE k == indxBest'
      <3>1. k \in Moves /\ cur' = Append(cur, k)
        BY <2>1
      <3> HIDE DEF k
      <3>2. cur' # root /\ parent(cur') = cur
        BY <2>1, <3>1, ChildFacts
      <3>3. parent(cur)' = cur
        BY <3>2 DEF parent
      <3> QED
        BY <2>1, <3>2, <3>3 DEF ahead, root
    <2>3. ahead(n) = IF cur # root /\ n = parent(cur) THEN 1 ELSE 0
      BY <2>1 DEF ahead
    <2>4. /\ tree'[n].visited = tree[n].visited + (IF n = cur THEN 1 ELSE 0)
          /\ visitsBelow(tree', n) = visitsBelow(tree, n)
                + (IF cur # root /\ n = parent(cur) THEN 1 ELSE 0)
          /\ visitsBelow(tree, n) \in Nat
      BY <2>1, VisitCounts
    <2> QED
      BY <1>2, <2>1, <2>2, <2>3, <2>4
  <1>5. CASE Backpropagate
    <2>1. DOMAIN tree' = DOMAIN tree /\ ahead(n)' = 0 /\ ahead(n) = 0
      BY <1>5, BackpropagateKeeps DEF Backpropagate, ahead
    <2>2. tree'[n].visited = tree[n].visited /\ visitsBelow(tree', n) = visitsBelow(tree, n)
      BY <1>5, <2>1, BackpropagateCounts
    <2> QED
      BY <1>2, <2>1, <2>2
  <1>6. CASE Simulate \/ Iterate \/ Choose
    <2>1. tree' = tree /\ ahead(n)' = 0 /\ ahead(n) = 0
      BY <1>6 DEF Simulate, Iterate, Choose, ahead
    <2> QED
      BY <1>2, <2>1
  <1>7. CASE UNCHANGED vars
    <2>1. tree' = tree /\ ahead(n)' = ahead(n)
      BY <1>7 DEF vars, ahead, parent
    <2> QED
      BY <1>2, <2>1
  <1> QED
    BY <1>3, <1>4, <1>5, <1>6, <1>7 DEF Next, Done

LEMMA WinsStep ==
    ASSUME IInv, WinsInv, [Next]_vars
    PROVE  WinsInv'
  <1>0. /\ \A n \in DOMAIN tree : tree[n].wins \in Nat
        /\ win \in {0, 1} /\ cur \in DOMAIN tree
    BY DEF IInv, TreeOK, CountersOK, MCTSNode
  <1>1. CASE Expand
    <2>1. /\ DOMAIN tree' = DOMAIN tree \cup {cur'} /\ cur' # root
          /\ tree'[cur'].wins = 0 /\ winsBelow(tree', cur') = 0
          /\ \A n \in DOMAIN tree : tree'[n].wins = tree[n].wins
                                    /\ winsBelow(tree', n) = winsBelow(tree, n)
      BY <1>1, ExpandCounts
    <2>2. \A n : owed(n) = 0 /\ owed(n)' = 0
      BY <1>1 DEF Expand, owed
    <2>3. ASSUME NEW n \in DOMAIN tree', n # root
          PROVE  tree'[n].wins + owed(n)' - winsBelow(tree', n) \in {0, 1}
      <3>1. CASE n = cur'
        BY <2>1, <2>2, <3>1
      <3>2. CASE n \in DOMAIN tree
        <4>1. tree[n].wins + owed(n) - winsBelow(tree, n) \in {0, 1}
          BY <2>3, <3>2 DEF WinsInv
        <4> QED
          BY <2>1, <2>2, <3>2, <4>1
      <3> QED
        BY <2>1, <3>1, <3>2
    <2> QED
      BY <2>1, <2>3 DEF WinsInv, root
  <1>2. CASE Descend
    <2>1. /\ DOMAIN tree' = DOMAIN tree /\ tree' = visit(tree, cur) /\ pc' = "select"
      BY <1>2, DescendKeeps DEF Descend
    <2>2. \A n \in DOMAIN tree : tree'[n].wins = tree[n].wins
                                 /\ winsBelow(tree', n) = winsBelow(tree, n)
      BY <2>1, VisitCounts
    <2>3. \A n : owed(n) = 0 /\ owed(n)' = 0
      BY <1>2 DEF Descend, owed
    <2> QED
      BY <2>1, <2>2, <2>3 DEF WinsInv, root
  <1>3. CASE Simulate
    <2>1. tree' = tree /\ cur' = cur /\ pc = "simulate" /\ pc' = "backpropagate" /\ win' \in {0, 1}
      BY <1>3 DEF Simulate
    <2>2. \A n : owed(n) = 0 /\ owed(n)' = IF n = cur THEN win' ELSE 0
      BY <2>1 DEF owed
    <2>3. ASSUME NEW n \in DOMAIN tree, n # root
          PROVE  tree[n].wins + owed(n)' - winsBelow(tree, n) \in {0, 1}
      <3>1. CASE n = cur
        BY <2>1, <2>2, <3>1 DEF WinsInv
      <3>2. CASE n # cur
        BY <2>2, <2>3, <3>2 DEF WinsInv
      <3> QED
        BY <3>1, <3>2
    <2> QED
      BY <2>1, <2>3 DEF WinsInv, root
  <1>4. CASE Backpropagate
    <2>1. /\ DOMAIN tree' = DOMAIN tree /\ cur # root /\ pc = "backpropagate"
          /\ pc' = "backpropagate" /\ win' = win /\ cur' = parent(cur)
      BY <1>4, BackpropagateKeeps DEF Backpropagate, parent
    <2>2. parent(cur) # cur
      <3>1. cur \in Seq(Moves)
        BY DEF IInv, TreeOK
      <3> QED
        BY <2>1, <3>1, ParentFacts, ChildFacts
    <2>3. ASSUME NEW n \in DOMAIN tree, n # root
          PROVE  tree'[n].wins + owed(n)' - winsBelow(tree', n) \in {0, 1}
      <3>1. /\ tree'[n].wins = tree[n].wins + (IF n = cur THEN win ELSE 0)
            /\ winsBelow(tree', n) = winsBelow(tree, n) + (IF n = parent(cur) THEN win ELSE 0)
            /\ winsBelow(tree, n) \in Nat
        BY <1>4, BackpropagateCounts
      <3>2. /\ owed(n) = IF n = cur THEN win ELSE 0
            /\ owed(n)' = IF n = parent(cur) THEN win ELSE 0
        BY <2>1 DEF owed
      <3>3. tree[n].wins + owed(n) - winsBelow(tree, n) \in {0, 1}
        BY <2>3 DEF WinsInv
      <3> QED
        BY <1>0, <2>2, <3>1, <3>2, <3>3
    <2> QED
      BY <2>1, <2>3 DEF WinsInv, root
  <1>5. CASE Iterate \/ Choose
    <2>1. tree' = tree /\ pc' # "simulate" /\ \A n : n # root => owed(n) = 0 /\ owed(n)' = 0
      BY <1>5 DEF Iterate, Choose, owed
    <2> QED
      BY <2>1 DEF WinsInv, root
  <1>6. CASE UNCHANGED vars
    BY <1>6 DEF vars, WinsInv, owed, root
  <1> QED
    BY <1>1, <1>2, <1>3, <1>4, <1>5, <1>6 DEF Next, Done

LEMMA SumsInit == Init => VisitsInv /\ WinsInv
  <1> SUFFICES ASSUME Init PROVE VisitsInv /\ WinsInv
    OBVIOUS
  <1>1. DOMAIN tree = {root} /\ tree[root] = [visited |-> 0, wins |-> 0]
    BY DEF Init
  <1>2. kids(tree, root) = {}
    BY <1>1 DEF kids, root
  <1>3. visitsBelow(tree, root) = 0
    BY <1>2, FS_EmptySet, SumOfFacts DEF visitsBelow
  <1> QED
    BY <1>1, <1>3 DEF Init, VisitsInv, WinsInv, own, ahead

(* What the properties sum is what the invariants sum. *)
LEMMA Below ==
    ASSUME IInv, NEW n \in DOMAIN tree
    PROVE  /\ visits(children(n)) = visitsBelow(tree, n)
           /\ wins(children(n)) = winsBelow(tree, n)
  <1> DEFINE K == kids(tree, n)
  <1>1. children(n) = K
    BY DEF children, kids
  <1>2. Tree(tree) /\ n \in Seq(Moves)
    BY IsTree DEF IInv, Tree
  <1>3. K \subseteq DOMAIN tree /\ IsFiniteSet(K)
    BY <1>2, KidsFacts
  <1>4. \A x \in K : tree[x].visited \in Nat /\ tree[x].wins \in Nat
    BY <1>2, <1>3 DEF Tree, MCTSNode
  <1> HIDE DEF K
  <1>5. visits(K) = SumOf(visitsIn(tree), K)
    BY <1>3, <1>4, VisitsAreSums DEF visits
  <1>6. wins(K) = SumOf(winsIn(tree), K)
    BY <1>3, <1>4, WinsAreSums DEF wins
  <1> QED
    BY <1>1, <1>5, <1>6 DEF visitsBelow, winsBelow, K

(* Between rollouts each node has been visited once, when it was made, and   *)
(* as often as the nodes below it.                                           *)
THEOREM VisitsAlwaysAddUp == Spec => []VisitsAddUp
  <1>1. IInv /\ VisitsInv => VisitsAddUp
    <2> SUFFICES ASSUME IInv, VisitsInv, betweenRollouts, NEW n \in DOMAIN tree
                 PROVE  tree[n].visited = visits(children(n)) + (IF n = root THEN 0 ELSE 1)
      BY DEF VisitsAddUp
    <2>1. ahead(n) = 0
      BY DEF betweenRollouts, ahead
    <2>2. visits(children(n)) = visitsBelow(tree, n) /\ visitsBelow(tree, n) \in Nat
      BY Below, VisitCounts
    <2> QED
      BY <2>1, <2>2 DEF VisitsInv, own
  <1>2. Init => VisitsInv
    BY SumsInit
  <1> QED
    BY <1>1, <1>2, VisitsStep, IInvAlways, PTL DEF Spec

(* Between rollouts the wins of each node but the root are those of the      *)
(* nodes below it and, at most, that of its own first rollout.               *)
THEOREM WinsAlwaysAddUp == Spec => []WinsAddUp
  <1>1. IInv /\ WinsInv => WinsAddUp
    <2> SUFFICES ASSUME IInv, WinsInv, betweenRollouts, NEW n \in DOMAIN tree, n # root
                 PROVE  tree[n].wins - wins(children(n)) \in {0, 1}
      BY DEF WinsAddUp
    <2>1. owed(n) = 0
      BY DEF betweenRollouts, owed
    <2>2. wins(children(n)) = winsBelow(tree, n) /\ winsBelow(tree, n) \in Nat
      BY Below, VisitCounts
    <2>3. tree[n].wins \in Nat
      BY DEF IInv, TreeOK, MCTSNode
    <2> QED
      BY <2>1, <2>2, <2>3 DEF WinsInv
  <1>2. Init => WinsInv
    BY SumsInit
  <1> QED
    BY <1>1, <1>2, WinsStep, IInvAlways, PTL DEF Spec
=============================================================================
