------------------------------- MODULE Learner -------------------------------
(***************************************************************************)
(* The networks of libs/Nemesis (MLP), the learner that holds one          *)
(* (TDLearner), and the length of the state vectors of Data.hpp it is meant*)
(* for.  The caller builds a network, hands a copy of it to a learner, which*)
(* trains, loads and saves it, and may catch what a call throws.           *)
(*                                                                         *)
(* Of a layer its shape is kept, whether a weight has stopped being a      *)
(* number, and its activation, of which a file holds the name alone.       *)
(***************************************************************************)
EXTENDS Integers, Sequences

CONSTANTS
    Shapes,     \* the arguments of MLP: [inputs, outputs]
    Kinds,      \* the layers a caller appends: [size, type]
    MaxLayers,  \* bound: the layers of a network
    Samples,    \* lengths of the samples given to a learner
    Teams,      \* teams as far as they are known: the known moves of each
                \* known Pokemon
    UintValues, \* the values of a uint: 2^32, of which TLC's integers fall short
    Null, Torn  \* no value, and a file that was not written to its end

VARIABLES
    net,         \* the network the caller builds
    q_estimator, \* the learner's network
    file,        \* what the file holds
    outcome      \* how the last call ended

vars == <<net, q_estimator, file, outcome>>

Shape == [inputs : Nat \ {0}, outputs : Nat \ {0}]
Types == {"linear", "tanh", "logistic", "softplus", "rectifier"}

(* weights is the number of weights of each neuron, 0 until finalize. *)
Layer == [size : Nat \ {0}, type : Types, weights : Nat, nan : BOOLEAN]

(* made is not in the program: the shape the layers were finalized for, Null *)
(* if the network has been changed since.                                    *)
MLP   == [shape : Shape, layers : Seq(Layer), made : Shape \cup {Null}]
Image == [layers : Seq(Layer), made : Shape \cup {Null}]

(* A team has at most six Pokemon.  Each has four moves, but every move it is *)
(* seen to use is listed (PSUser.hpp:366), so are Struggle and what Metronome *)
(* or Mimic calls; the list is no longer than a uint counts.                  *)
Counts == 0..UintValues
Team   == {t \in Seq(Counts) : Len(t) <= 6}

ASSUME LearnerAssumption ==
    /\ Shapes \subseteq Shape
    /\ Kinds \subseteq [size : Nat \ {0}, type : Types]
    /\ MaxLayers \in Nat
    /\ Samples \subseteq Nat
    /\ UintValues \in Nat /\ UintValues > 312
    /\ Teams \subseteq Team
    /\ Null \notin MLP \cup Image \cup Shape /\ Torn \notin Image /\ Torn # Null

newMLP(s) == [shape |-> s, layers |-> <<>>, made |-> Null]

-----------------------------------------------------------------------------
(* Shapes of layers *)

inputsOf(ls, i, n) == IF i = 1 THEN n ELSE ls[i - 1].size
outputsOf(ls)      == ls[Len(ls)].size

(* dot, add and multiply: as many weights as inputs, and at least one. *)
takes(l, n) == l.weights = n /\ n > 0

(* Mutant: dot pads the shorter vector. *)
propagatesAny(ls, n) == ls # <<>> /\ n > 0

(* propagate does not throw. *)
propagates(ls, n) ==
    /\ ls # <<>>
    /\ \A i \in DOMAIN ls : takes(ls[i], inputsOf(ls, i, n))

(* backpropagate on a sample of length n: the layers up to the first that    *)
(* does not take its inputs are updated.  One may diverge.                   *)
updated(ls, n, diverges) ==
    [i \in DOMAIN ls |->
        IF \A j \in 1..i : takes(ls[j], inputsOf(ls, j, n))
        THEN [ls[i] EXCEPT !.nan = @ \/ diverges] ELSE ls[i]]

(* Mutant: every layer is given the inputs of the network. *)
resizedFlat(m) ==
    [i \in DOMAIN m.layers |->
        [m.layers[i] EXCEPT !.weights = m.shape.inputs, !.nan = FALSE]]

resized(m) ==
    [i \in DOMAIN m.layers |->
        [m.layers[i] EXCEPT !.weights = inputsOf(m.layers, i, m.shape.inputs),
                            !.nan = FALSE]]

(* The rest of the conversion from a file: a rectifier's parameter was not   *)
(* written, and what is not a number was written as null.                    *)
reads(ls) == \A i \in DOMAIN ls : ls[i].type # "rectifier" /\ ~ls[i].nan

loads == file \notin {Null, Torn} /\ reads(file.layers)

-----------------------------------------------------------------------------
(* MLP, as the caller builds it *)

Construct ==
    /\ net' \in {newMLP(s) : s \in Shapes}
    /\ outcome' = "returned"
    /\ UNCHANGED <<q_estimator, file>>

append_layer ==
    /\ Len(net.layers) < MaxLayers
    /\ \E k \in Kinds :
          net' = [net EXCEPT !.made = Null, !.layers = Append(@,
                    [size |-> k.size, type |-> k.type, weights |-> 0, nan |-> FALSE])]
    /\ outcome' = "returned"
    /\ UNCHANGED <<q_estimator, file>>

pop_layer ==
    /\ net.layers # <<>>
    /\ net' = [net EXCEPT !.made = Null, !.layers = SubSeq(@, 1, Len(@) - 1)]
    /\ outcome' = "returned"
    /\ UNCHANGED <<q_estimator, file>>

(* Mutant: the sizes are compared once the weights are drawn. *)
finalizeFirst ==
    /\ net.layers # <<>>
    /\ LET fits == outputsOf(net.layers) = net.shape.outputs IN
       /\ net' = [net EXCEPT !.layers = resized(net),
                             !.made = IF fits THEN net.shape ELSE Null]
       /\ outcome' = IF fits THEN "returned" ELSE "threw"
    /\ UNCHANGED <<q_estimator, file>>

finalize ==
    /\ net.layers # <<>>
    /\ \/ /\ outputsOf(net.layers) # net.shape.outputs
          /\ outcome' = "threw"
          /\ UNCHANGED net
       \/ /\ outputsOf(net.layers) = net.shape.outputs
          /\ net' = [net EXCEPT !.layers = resized(net), !.made = net.shape]
          /\ outcome' = "returned"
    /\ UNCHANGED <<q_estimator, file>>

Build == Construct \/ append_layer \/ pop_layer \/ finalize

-----------------------------------------------------------------------------
(* TDLearner *)

setValueEstimator ==
    /\ q_estimator' = net
    /\ outcome' = "returned"
    /\ UNCHANGED <<net, file>>

get_value(n) ==
    /\ q_estimator # Null
    /\ outcome' = IF propagates(q_estimator.layers, n) THEN "returned" ELSE "threw"
    /\ UNCHANGED <<net, q_estimator, file>>

(* The target is the prediction with one value replaced: it has the length   *)
(* of the last layer.                                                        *)
update_values(n) ==
    /\ q_estimator # Null
    /\ \/ /\ ~propagates(q_estimator.layers, n)
          /\ outcome' = "threw"
          /\ UNCHANGED q_estimator
       \/ /\ propagates(q_estimator.layers, n)
          /\ \E diverges \in BOOLEAN :
                q_estimator' = [q_estimator EXCEPT !.layers = updated(@, n, diverges)]
          /\ outcome' = IF \A i \in DOMAIN q_estimator.layers :
                            takes(q_estimator.layers[i], inputsOf(q_estimator.layers, i, n))
                        THEN "returned" ELSE "threw"
    /\ UNCHANGED <<net, file>>

(* The stream is never asked whether it wrote, and the old content is gone   *)
(* before the new is there: the file may be cut short.                       *)
save ==
    /\ q_estimator # Null
    /\ file' \in {[layers |-> q_estimator.layers, made |-> q_estimator.made], Torn}
    /\ outcome' = "returned"
    /\ UNCHANGED <<net, q_estimator>>

(* Mutant: the old layers are dropped before the file is read. *)
loadInPlace ==
    /\ q_estimator # Null
    /\ \/ /\ file = Null
          /\ outcome' = "returned"
          /\ UNCHANGED q_estimator
       \/ /\ file # Null /\ ~loads
          /\ q_estimator' = [q_estimator EXCEPT !.layers = <<>>, !.made = Null]
          /\ outcome' = "threw"
       \/ /\ loads
          /\ q_estimator' = [q_estimator EXCEPT !.layers = file.layers, !.made = file.made]
          /\ outcome' = "returned"
    /\ UNCHANGED <<net, file>>

(* num_inputs and num_outputs stay what they were. *)
load ==
    /\ q_estimator # Null
    /\ \/ /\ file = Null
          /\ outcome' = "returned"
          /\ UNCHANGED q_estimator
       \/ /\ file # Null /\ ~loads
          /\ outcome' = "threw"
          /\ UNCHANGED q_estimator
       \/ /\ loads
          /\ q_estimator' = [q_estimator EXCEPT !.layers = file.layers, !.made = file.made]
          /\ outcome' = "returned"
    /\ UNCHANGED <<net, file>>

(* A learner without a network is asked through a null pointer. *)
NullPointer ==
    /\ q_estimator = Null
    /\ outcome' = "dead"
    /\ UNCHANGED <<net, q_estimator, file>>

Learn ==
    \/ setValueEstimator
    \/ \E n \in Samples : get_value(n) \/ update_values(n)
    \/ save \/ load \/ NullPointer

(* The process ends, also in the middle of a save, and is started anew. *)
Restart ==
    /\ net' \in {newMLP(s) : s \in Shapes}
    /\ q_estimator' = Null
    /\ file' \in {file} \cup IF q_estimator # Null THEN {Torn} ELSE {}
    /\ outcome' = "none"

Init ==
    /\ net \in {newMLP(s) : s \in Shapes}
    /\ q_estimator = Null /\ file = Null /\ outcome = "none"

Next == (outcome # "dead" /\ (Build \/ Learn)) \/ Restart

Spec == Init /\ [][Next]_vars

-----------------------------------------------------------------------------
(* State vectors *)

(* The passes of a loop with a uint to what is left of four: the comparison  *)
(* takes a number below zero for one near the largest.                       *)
unknownMoves(moves) == IF moves <= 4 THEN 4 - moves ELSE UintValues + 4 - moves

(* Mutant: a known move takes the place of an unknown one. *)
lengthOneEach(moves) == 6 + 2 + moves + unknownMoves(moves) + 5 + 5

(* asVector: six numbers, two types, two numbers for each of the moves known *)
(* and one for the rest of four, five boosts and five stats.                 *)
lengthOf(moves) == 6 + 2 + 2 * moves + unknownMoves(moves) + 5 + 5

(* stateAsVector: the Pokemon known of one team. *)
teamLength[t \in Team] ==
    IF t = <<>> THEN 0 ELSE lengthOf(Head(t)) + teamLength[Tail(t)]

AllKnown(t) == Len(t) = 6 /\ \A i \in DOMAIN t : t[i] = 4

-----------------------------------------------------------------------------
(* Properties *)

(* Types *)
TypeOK ==
    /\ net \in MLP
    /\ q_estimator \in MLP \cup {Null}
    /\ file \in Image \cup {Null, Torn}
    /\ outcome \in {"none", "returned", "threw", "dead"}

Fits(ls, s) == propagates(ls, s.inputs) /\ outputsOf(ls) = s.outputs

(* A network finalized for a shape still takes samples of that many numbers  *)
(* and gives that many values after it was copied, trained, saved, cut off   *)
(* in a save and loaded by another process, whatever that one has built: the *)
(* shape only ever comes from finalize (MultiLayerPerceptron.hpp:51).        *)
MadeFits ==
    /\ net.made # Null => Fits(net.layers, net.made)
    /\ q_estimator # Null /\ q_estimator.made # Null =>
            Fits(q_estimator.layers, q_estimator.made)
    /\ file \notin {Null, Torn} /\ file.made # Null => Fits(file.layers, file.made)

(* A call that throws leaves every network and the file as they were: no     *)
(* layer is trained before one that does not fit (:102-145), none redrawn    *)
(* before the sizes are compared (:52), none replaced before the file is read*)
(* to its end (:265).                                                        *)
FailuresChangeNothing ==
    [][outcome' = "threw" => UNCHANGED <<net, q_estimator, file>>]_vars

(* The learner of build_td_learner (MoveFunctions.hpp:28), of 312 inputs,    *)
(* takes the state vector of two teams only if they are twelve Pokemon with  *)
(* four moves each: neither do a Pokemon not seen yet and a move not known   *)
(* (Data.hpp:109) ever add up with a list of five moves to the right length. *)
WholeTeamsOnly ==
    q_estimator # Null /\ q_estimator.made # Null /\ q_estimator.made.inputs = 312 =>
        \A t, u \in Teams :
            propagates(q_estimator.layers, teamLength[t] + teamLength[u])
                <=> AllKnown(t) /\ AllKnown(u)

(* "Append opponent's Pokemon, filling in -1s for unknown information"       *)
(* (Data.hpp:178): what is unknown of the opponent makes no difference to the*)
(* length of the vector, so the learner takes it.                            *)
VectorsFit ==
    q_estimator # Null /\ q_estimator.made # Null /\ q_estimator.made.inputs = 312 =>
        \A t, u \in Teams :
            AllKnown(t) => propagates(q_estimator.layers, teamLength[t] + teamLength[u])
=============================================================================
