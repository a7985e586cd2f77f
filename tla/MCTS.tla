---------------------------------- MODULE MCTS ----------------------------------
(***************************************************************************)
(* The search of src/simulator/MoveFunctions.hpp: MCTS grows a tree of     *)
(* moves, one node and one rollout an iteration, and plays the best move of*)
(* the root.  A node is the sequence of moves that leads to it.            *)
(*                                                                         *)
(* Who wins a rollout is nondeterministic.  UCB is a sum of real functions;*)
(* all that is kept of it is that it grows with the ratio of wins and falls*)
(* with the visits, so that a child beaten on one and not ahead on the     *)
(* other is not chosen.                                                    *)
(***************************************************************************)
EXTENDS Integers, Sequences, FiniteSets, FiniteSetsExt

CONSTANTS
    NumMoves,      \* children of a node: 10 in the code
    NumIterations  \* NUM_MCTS_ITERATIONS: 2000 in the code

VARIABLES
    tree,      \* the nodes visited, with their visits and wins
    cur,       \* the local cur
    indxBest,  \* the local indxBest
    i,         \* iterations done
    win,       \* the result of the rollout
    pc         \* the next step of the search

vars == <<tree, cur, indxBest, i, win, pc>>

ASSUME SearchAssumption ==
    /\ NumMoves \in Nat \ {0}
    /\ NumIterations \in Nat /\ NumIterations >= NumMoves

Moves == 0..(NumMoves - 1)
root  == <<>>
MCTSNode == [visited : Nat, wins : Nat]

-----------------------------------------------------------------------------

visit(t, n) == [t EXCEPT ![n].visited = @ + 1]

(* Mutant: the child is entered without being counted as visited. *)
addUncounted(t, n) ==
    [m \in DOMAIN t \cup {n} |-> IF m = n THEN [visited |-> 0, wins |-> 0] ELSE t[m]]

(* A child that is initialised is visited at once. *)
add(t, n) ==
    [m \in DOMAIN t \cup {n} |-> IF m = n THEN [visited |-> 1, wins |-> 0] ELSE t[m]]

unvisited(t, n) == {k \in Moves : Append(n, k) \notin DOMAIN t}

(* UCB of child j comes before that of child k, whatever the parent's visits;*)
(* of equals the first is kept.                                              *)
betterUCB(t, n, j, k) ==
    LET a == t[Append(n, j)]
        b == t[Append(n, k)]
    IN /\ a.wins * b.visited >= b.wins * a.visited
       /\ a.visited <= b.visited
       /\ \/ a.wins * b.visited > b.wins * a.visited
          \/ a.visited < b.visited
          \/ j < k

bestUCB(t, n) == {k \in Moves : \A j \in Moves \ {k} : ~betterUCB(t, n, j, k)}

(* Mutant: the last unvisited child is taken. *)
ExpandLast ==
    /\ pc = "select" /\ unvisited(tree, cur) # {}
    /\ indxBest' = Max(unvisited(tree, cur))
    /\ cur' = Append(cur, indxBest')
    /\ tree' = add(visit(tree, cur), cur')
    /\ pc' = "simulate"
    /\ UNCHANGED <<i, win>>

(* The first child never visited is initialised, and simulated from.         *)
Expand ==
    /\ pc = "select" /\ unvisited(tree, cur) # {}
    /\ indxBest' = Min(unvisited(tree, cur))
    /\ cur' = Append(cur, indxBest')
    /\ tree' = add(visit(tree, cur), cur')
    /\ pc' = "simulate"
    /\ UNCHANGED <<i, win>>

(* With all children visited the search goes on at the one of best UCB.      *)
Descend ==
    /\ pc = "select" /\ unvisited(tree, cur) = {}
    /\ tree' = visit(tree, cur)
    /\ indxBest' \in bestUCB(tree', cur)
    /\ cur' = Append(cur, indxBest')
    /\ UNCHANGED <<i, win, pc>>

(* The rollout plays the move indxBest in a copy of the battle and then at   *)
(* random.                                                                   *)
Simulate ==
    /\ pc = "simulate"
    /\ win' \in {0, 1}
    /\ pc' = "backpropagate"
    /\ UNCHANGED <<tree, cur, indxBest, i>>

(* Mutant: the result is added to the leaf only. *)
BackpropagateLeaf ==
    /\ pc = "backpropagate" /\ cur # root
    /\ tree' = [tree EXCEPT ![cur].wins = @ + win]
    /\ cur' = root
    /\ UNCHANGED <<indxBest, i, win, pc>>

(* The result goes to every node of the path but the root.                   *)
Backpropagate ==
    /\ pc = "backpropagate" /\ cur # root
    /\ tree' = [tree EXCEPT ![cur].wins = @ + win]
    /\ cur' = SubSeq(cur, 1, Len(cur) - 1)
    /\ UNCHANGED <<indxBest, i, win, pc>>

(* Mutant: the bound of the loop is off by one. *)
IterateOnceMore ==
    /\ pc = "backpropagate" /\ cur = root
    /\ i' = i + 1
    /\ pc' = IF i' <= NumIterations THEN "select" ELSE "choose"
    /\ UNCHANGED <<tree, cur, indxBest, win>>

Iterate ==
    /\ pc = "backpropagate" /\ cur = root
    /\ i' = i + 1
    /\ pc' = IF i' < NumIterations THEN "select" ELSE "choose"
    /\ UNCHANGED <<tree, cur, indxBest, win>>

(* The move played is the root's child of best UCB.                          *)
Choose ==
    /\ pc = "choose"
    /\ indxBest' \in bestUCB(tree, root)
    /\ pc' = "done"
    /\ UNCHANGED <<tree, cur, i, win>>

Done == pc = "done" /\ UNCHANGED vars

Init ==
    /\ tree = [n \in {root} |-> [visited |-> 0, wins |-> 0]]
    /\ cur = root /\ indxBest = -1
    /\ i = 0 /\ win = 0
    /\ pc = "select"

Next == Expand \/ Descend \/ Simulate \/ Backpropagate \/ Iterate \/ Choose \/ Done

Spec == Init /\ [][Next]_vars

-----------------------------------------------------------------------------
(* Properties *)

(* Types *)
TypeOK ==
    /\ \A n \in DOMAIN tree : n \in Seq(Moves) /\ tree[n] \in MCTSNode
    /\ cur \in DOMAIN tree
    /\ indxBest \in Moves \cup {-1}
    /\ i \in 0..NumIterations
    /\ win \in {0, 1}
    /\ pc \in {"select", "simulate", "backpropagate", "choose", "done"}

children(n)   == {m \in DOMAIN tree : \E k \in Moves : m = Append(n, k)}
visits(S)     == MapThenSumSet(LAMBDA n : tree[n].visited, S)
wins(S)       == MapThenSumSet(LAMBDA n : tree[n].wins, S)
betweenRollouts == pc \in {"choose", "done"} \/ (pc = "select" /\ cur = root)

(* Between rollouts the visits of a node are the one that made it and those  *)
(* of its children; of the root, the iterations: UCB's exploration term      *)
(* compares a child's visits with its parent's.                              *)
VisitsAddUp ==
    betweenRollouts =>
        \A n \in DOMAIN tree :
            tree[n].visited = visits(children(n)) + (IF n = root THEN 0 ELSE 1)

(* Between rollouts the wins of a node are those of its children and that of *)
(* its own first rollout, so no ratio is above one.                          *)
WinsAddUp ==
    betweenRollouts =>
        \A n \in DOMAIN tree \ {root} :
            tree[n].wins - wins(children(n)) \in {0, 1}

(* Every move is tried before any is tried again: children are made in order,*)
(* and a node has children only when all its siblings have been tried.       *)
AllTriedFirst ==
    \A n \in DOMAIN tree : \A k \in Moves :
        Append(n, k) \in DOMAIN tree =>
            /\ \A j \in 0..(k - 1) : Append(n, j) \in DOMAIN tree
            /\ n # root => unvisited(tree, SubSeq(n, 1, Len(n) - 1)) = {}

(* "Nth node represents Nth move" (MoveFunctions.hpp:120): a rollout whose   *)
(* result goes to the root's Nth child began with the Nth move.              *)
NodeRepresentsMove ==
    pc = "backpropagate" /\ cur # root => cur[1] = indxBest
=============================================================================
