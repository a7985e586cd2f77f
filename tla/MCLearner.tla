------------------------------ MODULE MCLearner ------------------------------
(* The networks of build_td_learner and, with fewer inputs, build_test_net;  *)
(* teams of at most six Pokemon that are known to different extents, and two *)
(* with a list of more than four moves.                                      *)
EXTENDS Learner

MCShapes == {[inputs |-> 312, outputs |-> 9], [inputs |-> 1, outputs |-> 9]}
MCKinds  == {[size |-> 312, type |-> "tanh"], [size |-> 9, type |-> "linear"],
             [size |-> 9, type |-> "rectifier"]}
MCTeams  == [1..6 -> {4}] \cup [1..5 -> {4}] \cup {<<>>}
              \cup {<<4, 4, 4, 4, 4, 3>>, <<0, 4, 4>>}
              \cup {<<5, 4, 4, 4, 4, 3>>, <<6>>}
=============================================================================
