---------------------------- MODULE LearnerProofs ----------------------------
(* Proofs about Learner for networks of every shape and number of layers.    *)
EXTENDS Learner, WellFoundedInduction, TLAPS

-----------------------------------------------------------------------------
(* Layers *)

LEMMA LayersOf ==
    ASSUME NEW ls \in Seq(Layer)
    PROVE  /\ Len(ls) \in Nat /\ DOMAIN ls = 1..Len(ls)
           /\ \A i \in DOMAIN ls : /\ ls[i] \in Layer
                                   /\ ls[i].size \in Nat \ {0}
                                   /\ ls[i].weights \in Nat
           /\ ls # <<>> => Len(ls) \in DOMAIN ls /\ Len(ls) > 0
  <1>1. Len(ls) \in Nat /\ DOMAIN ls = 1..Len(ls) /\ (ls # <<>> => Len(ls) > 0)
    OBVIOUS
  <1>2. \A i \in DOMAIN ls : ls[i] \in Layer
    OBVIOUS
  <1>3. \A l \in Layer : l.size \in Nat \ {0} /\ l.weights \in Nat
    BY DEF Layer
  <1> QED
    BY <1>1, <1>2, <1>3

(* What fits a shape is decided by sizes and numbers of weights alone.       *)
LEMMA FitsBySizes ==
    ASSUME NEW ls \in Seq(Layer), NEW ms \in Seq(Layer), NEW s \in Shape,
           DOMAIN ms = DOMAIN ls,
           \A i \in DOMAIN ls : ms[i].size = ls[i].size /\ ms[i].weights = ls[i].weights,
           Fits(ls, s)
    PROVE  Fits(ms, s)
  <1>1. ls # <<>> /\ Len(ms) = Len(ls)
    BY LayersOf DEF Fits, propagates
  <1>2. ms # <<>> /\ outputsOf(ms) = outputsOf(ls)
    BY <1>1, LayersOf DEF outputsOf
  <1>3. \A i \in DOMAIN ms : takes(ms[i], inputsOf(ms, i, s.inputs))
    <2> TAKE i \in DOMAIN ms
    <2>1. takes(ls[i], inputsOf(ls, i, s.inputs))
      BY DEF Fits, propagates
    <2>2. inputsOf(ms, i, s.inputs) = inputsOf(ls, i, s.inputs)
      <3>1. i # 1 => i - 1 \in DOMAIN ls
        BY LayersOf
      <3> QED
        BY <3>1 DEF inputsOf
    <2> QED
      BY <2>1, <2>2 DEF takes
  <1> QED
    BY <1>2, <1>3 DEF Fits, propagates

(* An update leaves the shape alone.                                         *)
LEMMA UpdatedShape ==
    ASSUME NEW ls \in Seq(Layer), NEW n, NEW d \in BOOLEAN
    PROVE  /\ updated(ls, n, d) \in Seq(Layer)
           /\ DOMAIN updated(ls, n, d) = DOMAIN ls
           /\ \A i \in DOMAIN ls : /\ updated(ls, n, d)[i].size = ls[i].size
                                   /\ updated(ls, n, d)[i].weights = ls[i].weights
  <1> DEFINE us == updated(ls, n, d)
  <1>1. \A i \in DOMAIN ls : us[i] \in Layer /\ us[i].size = ls[i].size
                                             /\ us[i].weights = ls[i].weights
    BY LayersOf DEF updated, Layer
  <1>2. DOMAIN us = 1..Len(ls) /\ us = [i \in 1..Len(ls) |-> us[i]]
    BY LayersOf DEF updated
  <1> HIDE DEF us
  <1>3. us \in [1..Len(ls) -> Layer]
    BY <1>1, <1>2, LayersOf
  <1>4. us \in Seq(Layer)
    BY <1>3, LayersOf
  <1> QED
    BY <1>1, <1>2, <1>4, LayersOf DEF us

(* Layers that are finalized fit the network's shape.                        *)
LEMMA ResizedFits ==
    ASSUME NEW m \in MLP, m.layers # <<>>, outputsOf(m.layers) = m.shape.outputs
    PROVE  resized(m) \in Seq(Layer) /\ Fits(resized(m), m.shape)
  <1> DEFINE ls == m.layers
             n  == m.shape.inputs
             rs == resized(m)
  <1>1. ls \in Seq(Layer) /\ m.shape \in Shape /\ n \in Nat \ {0}
    BY DEF MLP, Shape
  <1>2. \A i \in DOMAIN ls : inputsOf(ls, i, n) \in Nat \ {0}
    <2> TAKE i \in DOMAIN ls
    <2>1. i # 1 => i - 1 \in DOMAIN ls
      BY <1>1, LayersOf
    <2> QED
      BY <1>1, <2>1, LayersOf DEF inputsOf
  <1>3. \A i \in DOMAIN ls : /\ rs[i] \in Layer
                             /\ rs[i].size = ls[i].size
                             /\ rs[i].weights = inputsOf(ls, i, n)
    <2> TAKE i \in DOMAIN ls
    <2> DEFINE w == inputsOf(ls, i, n)
    <2>1. rs[i] = [ls[i] EXCEPT !.weights = w, !.nan = FALSE]
      BY DEF resized
    <2>2. ls[i] \in Layer /\ w \in Nat
      BY <1>1, <1>2, LayersOf
    <2> HIDE DEF w, rs, ls
    <2>3. rs[i] = [size |-> ls[i].size, type |-> ls[i].type, weights |-> w, nan |-> FALSE]
      BY <2>1, <2>2 DEF Layer
    <2> QED
      BY <2>2, <2>3 DEF Layer, w
  <1>4. DOMAIN rs = 1..Len(ls) /\ rs = [i \in 1..Len(ls) |-> rs[i]]
    BY <1>1, LayersOf DEF resized
  <1> HIDE DEF rs
  <1>5. rs \in [1..Len(ls) -> Layer]
    BY <1>1, <1>3, <1>4, LayersOf
  <1>6. rs \in Seq(Layer) /\ Len(rs) = Len(ls) /\ rs # <<>>
    <2>1. Len(ls) \in Nat /\ Len(ls) > 0
      BY <1>1, LayersOf
    <2>2. rs \in Seq(Layer) /\ Len(rs) = Len(ls)
      BY <1>5, <2>1
    <2> QED
      BY <2>1, <2>2
  <1>7. outputsOf(rs) = m.shape.outputs
    BY <1>1, <1>3, <1>6, LayersOf DEF outputsOf
  <1>8. \A i \in DOMAIN rs : takes(rs[i], inputsOf(rs, i, n))
    <2> TAKE i \in DOMAIN rs
    <2>1. i \in DOMAIN ls /\ (i # 1 => i - 1 \in DOMAIN ls)
      BY <1>1, <1>4, LayersOf
    <2>2. inputsOf(rs, i, n) = inputsOf(ls, i, n)
      BY <1>3, <2>1 DEF inputsOf
    <2> QED
      BY <1>2, <1>3, <2>1, <2>2 DEF takes
  <1> QED
    BY <1>6, <1>7, <1>8 DEF rs, Fits, propagates

-----------------------------------------------------------------------------
(* Networks fit what they were made for *)

Fitting(m) == m.made # Null => Fits(m.layers, m.made)

(* An MLP is none of the other values a variable may have.                   *)
LEMMA Distinct ==
    /\ \A m \in MLP : m # Null
    /\ \A f \in Image : f # Null /\ f # Torn
    /\ \A s \in Shape : s # Null
    /\ Torn # Null
  BY LearnerAssumption

LEMMA NewMLP ==
    ASSUME NEW s \in Shapes
    PROVE  newMLP(s) \in MLP /\ Fitting(newMLP(s))
  BY LearnerAssumption DEF newMLP, MLP, Fitting

(* Types and MadeFits, for one network in every place one may be.            *)
NetOK  == net \in MLP /\ Fitting(net)
EstOK  == q_estimator # Null => q_estimator \in MLP /\ Fitting(q_estimator)
FileOK == file \notin {Null, Torn} => file \in Image /\ Fitting(file)
IInv   == NetOK /\ EstOK /\ FileOK /\ outcome \in {"none", "returned", "threw", "dead"}

LEMMA IInvInit == Init => IInv
  BY NewMLP DEF Init, IInv, NetOK, EstOK, FileOK

LEMMA BuildKeeps ==
    ASSUME IInv, Build
    PROVE  NetOK' /\ UNCHANGED <<q_estimator, file>> /\ outcome' \in {"returned", "threw"}
  <1>1. net \in MLP /\ net.layers \in Seq(Layer) /\ net.shape \in Shape
    BY DEF IInv, NetOK, MLP
  <1>2. CASE Construct
    BY <1>2, NewMLP DEF Construct, NetOK
  <1>3. CASE append_layer
    <2>1. PICK k \in Kinds :
            net' = [net EXCEPT !.made = Null, !.layers = Append(@,
                      [size |-> k.size, type |-> k.type, weights |-> 0, nan |-> FALSE])]
      BY <1>3 DEF append_layer
    <2> DEFINE l == [size |-> k.size, type |-> k.type, weights |-> 0, nan |-> FALSE]
    <2>2. l \in Layer
      BY LearnerAssumption DEF Layer
    <2> HIDE DEF l
    <2>3. Append(net.layers, l) \in Seq(Layer)
      BY <1>1, <2>2
    <2>4. net' = [shape |-> net.shape, layers |-> Append(net.layers, l), made |-> Null]
      BY <1>1, <2>1 DEF MLP, l
    <2> QED
      BY <1>1, <1>3, <2>3, <2>4 DEF NetOK, Fitting, MLP, append_layer
  <1>4. CASE pop_layer
    <2>1. SubSeq(net.layers, 1, Len(net.layers) - 1) \in Seq(Layer)
      BY <1>1, <1>4, LayersOf DEF pop_layer
    <2>2. net' = [shape |-> net.shape, made |-> Null,
                  layers |-> SubSeq(net.layers, 1, Len(net.layers) - 1)]
      BY <1>1, <1>4 DEF pop_layer, MLP
    <2> QED
      BY <1>1, <1>4, <2>1, <2>2 DEF NetOK, Fitting, MLP, pop_layer
  <1>5. CASE finalize
    <2>1. CASE UNCHANGED net
      BY <1>5, <2>1 DEF finalize, IInv, NetOK, Fitting
    <2>2. CASE net' = [net EXCEPT !.layers = resized(net), !.made = net.shape]
               /\ outputsOf(net.layers) = net.shape.outputs
      <3>1. resized(net) \in Seq(Layer) /\ Fits(resized(net), net.shape)
        BY <1>1, <1>5, <2>2, ResizedFits DEF finalize
      <3>2. net' = [shape |-> net.shape, layers |-> resized(net), made |-> net.shape]
        BY <1>1, <2>2 DEF MLP
      <3> QED
        BY <1>1, <1>5, <3>1, <3>2 DEF NetOK, Fitting, MLP, finalize
    <2> QED
      BY <1>5, <2>1, <2>2 DEF finalize
  <1> QED
    BY <1>2, <1>3, <1>4, <1>5 DEF Build

LEMMA UpdateKeeps ==
    ASSUME IInv, NEW n \in Samples, update_values(n)
    PROVE  EstOK' /\ UNCHANGED <<net, file>> /\ outcome' \in {"returned", "threw"}
  <1>1. q_estimator \in MLP /\ q_estimator.layers \in Seq(Layer)
        /\ q_estimator.shape \in Shape /\ q_estimator.made \in Shape \cup {Null}
        /\ Fitting(q_estimator)
    BY DEF IInv, EstOK, update_values, MLP
  <1>2. CASE UNCHANGED q_estimator
    BY <1>1, <1>2 DEF update_values, EstOK, Fitting
  <1>3. ASSUME NEW d \in BOOLEAN,
               q_estimator' = [q_estimator EXCEPT !.layers = updated(@, n, d)]
        PROVE  EstOK'
    <2> DEFINE us == updated(q_estimator.layers, n, d)
    <2>1. us \in Seq(Layer)
      BY <1>1, UpdatedShape
    <2>2. q_estimator' = [shape |-> q_estimator.shape, layers |-> us,
                          made |-> q_estimator.made]
      BY <1>1, <1>3 DEF MLP
    <2>3. q_estimator.made # Null => Fits(us, q_estimator.made)
      BY <1>1, <2>1, FitsBySizes, UpdatedShape DEF Fitting
    <2> HIDE DEF us
    <2> QED
      BY <1>1, <2>1, <2>2, <2>3 DEF EstOK, Fitting, MLP
  <1> QED
    BY <1>2, <1>3 DEF update_values

LEMMA LearnKeeps ==
    ASSUME IInv, Learn
    PROVE  IInv'
  <1>1. CASE setValueEstimator
    BY <1>1 DEF setValueEstimator, IInv, NetOK, EstOK, FileOK, Fitting
  <1>2. CASE (\E n \in Samples : get_value(n)) \/ NullPointer
    BY <1>2 DEF get_value, NullPointer, IInv, NetOK, EstOK, FileOK, Fitting
  <1>3. CASE \E n \in Samples : update_values(n)
    BY <1>3, UpdateKeeps DEF IInv, NetOK, FileOK, Fitting
  <1>4. CASE save
    <2>1. [layers |-> q_estimator.layers, made |-> q_estimator.made] \in Image
      BY <1>4 DEF save, IInv, EstOK, MLP, Image
    <2> QED
      BY <1>4, <2>1 DEF save, IInv, NetOK, EstOK, FileOK, Fitting
  <1>5. CASE load
    <2>1. CASE UNCHANGED q_estimator
      BY <1>5, <2>1 DEF load, IInv, NetOK, EstOK, FileOK, Fitting
    <2>2. CASE loads /\ q_estimator' = [q_estimator EXCEPT !.layers = file.layers,
                                                           !.made = file.made]
      <3>1. file \in Image /\ Fitting(file) /\ q_estimator \in MLP
        BY <1>5, <2>2 DEF load, loads, IInv, FileOK, EstOK
      <3>2. q_estimator' = [shape |-> q_estimator.shape, layers |-> file.layers,
                            made |-> file.made]
        BY <2>2, <3>1 DEF MLP
      <3>3. q_estimator' \in MLP /\ Fitting(q_estimator')
        BY <3>1, <3>2 DEF MLP, Image, Fitting
      <3> QED
        BY <1>5, <3>3 DEF load, IInv, NetOK, EstOK, FileOK, Fitting
    <2> QED
      BY <1>5, <2>1, <2>2 DEF load
  <1> QED
    BY <1>1, <1>2, <1>3, <1>4, <1>5 DEF Learn

LEMMA IInvAlways == Spec => []IInv
  <1>1. IInv /\ [Next]_vars => IInv'
    <2> SUFFICES ASSUME IInv, [Next]_vars PROVE IInv'
      OBVIOUS
    <2>1. CASE Build
      BY <2>1, BuildKeeps DEF IInv, EstOK, FileOK, Fitting
    <2>2. CASE Learn
      BY <2>2, LearnKeeps
    <2>3. CASE Restart
      BY <2>3, NewMLP DEF Restart, IInv, NetOK, EstOK, FileOK, Fitting
    <2>4. CASE UNCHANGED vars
      BY <2>4 DEF vars, IInv, NetOK, EstOK, FileOK, Fitting
    <2> QED
      BY <2>1, <2>2, <2>3, <2>4 DEF Next
  <1> QED
    BY <1>1, IInvInit, PTL DEF Spec

(* The types of Learner's variables. *)
THEOREM TypeCorrect == Spec => []TypeOK
  <1>1. IInv => TypeOK
    BY DEF IInv, NetOK, EstOK, FileOK, TypeOK
  <1> QED
    BY <1>1, IInvAlways, PTL

(* A network made for a shape fits it, wherever it has been since.           *)
THEOREM MadeFitsAlways == Spec => []MadeFits
  <1>1. IInv => MadeFits
    BY Distinct DEF IInv, NetOK, EstOK, FileOK, Fitting, MadeFits
  <1> QED
    BY <1>1, IInvAlways, PTL

-----------------------------------------------------------------------------
(* Failures *)

(* What throws changes nothing: a sample that passed propagate fits every    *)
(* layer that backpropagate goes on to update.                               *)
THEOREM FailuresHarmless == Spec => FailuresChangeNothing
  <1>1. Next => (outcome' = "threw" => UNCHANGED <<net, q_estimator, file>>)
    <2> SUFFICES ASSUME Next, outcome' = "threw" PROVE UNCHANGED <<net, q_estimator, file>>
      OBVIOUS
    <2>1. CASE Build
      BY <2>1 DEF Build, Construct, append_layer, pop_layer, finalize
    <2>2. ASSUME NEW n \in Samples, update_values(n)
          PROVE  UNCHANGED <<net, q_estimator, file>>
      BY <2>2 DEF update_values, propagates
    <2>3. CASE Learn
      BY <2>2, <2>3 DEF Learn, setValueEstimator, get_value, save, load, NullPointer
    <2>4. ~Restart
      BY DEF Restart
    <2> QED
      BY <2>1, <2>3, <2>4 DEF Next
  <1> QED
    BY <1>1, PTL DEF Spec, FailuresChangeNothing

-----------------------------------------------------------------------------
(* State vectors *)

(* Induction over the natural numbers, for a set in place of a predicate.    *)
LEMMA SetInduction ==
    ASSUME NEW S, 0 \in S, \A n \in Nat : n \in S => n + 1 \in S
    PROVE  Nat \subseteq S
  <1> SUFFICES ASSUME Nat \ S # {} PROVE FALSE
    OBVIOUS
  <1> DEFINE R == OpToRel(<, Nat)
  <1>1. \A x, y \in Nat : x < y => <<x, y>> \in R
    BY DEF OpToRel
  <1> DEFINE T == Nat \ S
  <1>2. IsWellFoundedOn(R, Nat)
    BY NatLessThanWellFounded
  <1> HIDE DEF R
  <1>3. PICK m \in T : \A y \in T : ~(<<y, m>> \in R)
    BY <1>2, WFMin
  <1>4. m # 0 /\ m - 1 \in Nat /\ m - 1 < m
    OBVIOUS
  <1>5. m - 1 \in S
    BY <1>1, <1>3, <1>4
  <1> QED
    BY <1>4, <1>5

LEMMA LengthFacts ==
    ASSUME NEW m \in Counts
    PROVE  /\ m \in Nat /\ lengthOf(m) \in Nat
           /\ m <= 4 => lengthOf(m) = 22 + m
           /\ m > 4 => lengthOf(m) > UintValues
  BY LearnerAssumption DEF Counts, lengthOf, unknownMoves

LEMMA TeamFacts ==
    ASSUME NEW t \in Team
    PROVE  /\ Len(t) \in 0..6 /\ DOMAIN t = 1..Len(t)
           /\ \A j \in 1..Len(t) : t[j] \in Counts
           /\ t = <<>> <=> Len(t) = 0
           /\ t # <<>> => /\ Head(t) = t[1] /\ Tail(t) \in Team
                          /\ Len(Tail(t)) = Len(t) - 1
                          /\ \A j \in 1..(Len(t) - 1) : Tail(t)[j] = t[j + 1]
  <1>1. t \in Seq(Counts) /\ Len(t) <= 6 /\ Len(t) \in Nat
    BY DEF Team
  <1>2. \A j \in 1..Len(t) : t[j] \in Counts
    BY <1>1
  <1>3. t = <<>> <=> Len(t) = 0
    BY <1>1
  <1>4. t # <<>> => /\ Head(t) = t[1] /\ Tail(t) \in Seq(Counts) /\ Len(Tail(t)) = Len(t) - 1
                    /\ \A j \in 1..(Len(t) - 1) : Tail(t)[j] = t[j + 1]
    BY <1>1
  <1>5. ASSUME t # <<>> PROVE Tail(t) \in Team
    <2>1. Len(Tail(t)) <= 6
      BY <1>1, <1>4, <1>5
    <2> QED
      BY <1>4, <1>5, <2>1 DEF Team
  <1>6. Len(t) \in 0..6 /\ DOMAIN t = 1..Len(t)
    <2>1. DOMAIN t = 1..Len(t)
      BY <1>1
    <2> DEFINE n == Len(t)
    <2>2. n \in Nat /\ n <= 6
      BY <1>1
    <2> HIDE DEF n
    <2>3. n \in 0..6
      BY <2>2
    <2> QED
      BY <2>1, <2>3 DEF n
  <1>7. t # <<>> => /\ Head(t) = t[1] /\ Tail(t) \in Team
                    /\ Len(Tail(t)) = Len(t) - 1
                    /\ \A j \in 1..(Len(t) - 1) : Tail(t)[j] = t[j + 1]
    BY <1>4, <1>5
  <1> QED
    BY <1>2, <1>3, <1>6, <1>7

(* teamLength is the function its definition describes.                      *)
LEMMA TeamLength ==
    /\ teamLength \in [Team -> Nat]
    /\ \A t \in Team : teamLength[t] =
          IF t = <<>> THEN 0 ELSE lengthOf(Head(t)) + teamLength[Tail(t)]
  <1> DEFINE level(n) == {t \in Team : Len(t) <= n}
             good(g, n) == /\ g \in [level(n) -> Nat]
                           /\ \A t \in level(n) : g[t] =
                                 IF t = <<>> THEN 0 ELSE lengthOf(Head(t)) + g[Tail(t)]
             G == {n \in Nat : \E g : good(g, n)}
  <1>1. 0 \in G
    <2> DEFINE g == [t \in level(0) |-> 0]
    <2>1. \A t \in level(0) : t = <<>>
      BY TeamFacts
    <2>2. good(g, 0)
      BY <2>1
    <2> QED
      BY <2>2
  <1>2. ASSUME NEW n \in Nat, n \in G PROVE n + 1 \in G
    <2>1. PICK f : good(f, n)
      BY <1>2
    <2> DEFINE g == [t \in level(n + 1) |-> IF t = <<>> THEN 0 ELSE lengthOf(Head(t)) + f[Tail(t)]]
    <2>2. ASSUME NEW t \in level(n + 1), t # <<>>
          PROVE  Tail(t) \in level(n) /\ Tail(t) \in level(n + 1) /\ lengthOf(Head(t)) \in Nat
      <3>1. t \in Team /\ Len(t) <= n + 1
        OBVIOUS
      <3>2. Head(t) \in Counts /\ Tail(t) \in Team /\ Len(Tail(t)) <= n /\ Len(Tail(t)) \in Nat
        BY <2>2, <3>1, TeamFacts
      <3> QED
        BY <3>2, LengthFacts
    <2>3. g \in [level(n + 1) -> Nat]
      <3>1. ASSUME NEW t \in level(n + 1)
            PROVE  (IF t = <<>> THEN 0 ELSE lengthOf(Head(t)) + f[Tail(t)]) \in Nat
        <4> SUFFICES ASSUME t # <<>> PROVE lengthOf(Head(t)) + f[Tail(t)] \in Nat
          OBVIOUS
        <4> DEFINE r == Tail(t)
        <4>1. r \in level(n) /\ lengthOf(Head(t)) \in Nat
          BY <2>2
        <4> HIDE DEF r, level
        <4>2. f[r] \in Nat
          BY <2>1, <4>1
        <4> QED
          BY <4>1, <4>2 DEF r
      <3> HIDE DEF level
      <3> QED
        BY <3>1
    <2>4. ASSUME NEW t \in level(n), t \in level(n + 1) PROVE g[t] = f[t]
      <3>1. f[t] = IF t = <<>> THEN 0 ELSE lengthOf(Head(t)) + f[Tail(t)]
        BY <2>1
      <3> QED
        BY <3>1, <2>4
    <2>5. ASSUME NEW t \in level(n + 1)
          PROVE  g[t] = IF t = <<>> THEN 0 ELSE lengthOf(Head(t)) + g[Tail(t)]
      <3>1. CASE t = <<>>
        BY <3>1
      <3>2. CASE t # <<>>
        <4>1. g[Tail(t)] = f[Tail(t)]
          BY <3>2, <2>2, <2>4
        <4> QED
          BY <3>2, <4>1
      <3> QED
        BY <3>1, <3>2
    <2>6. \E h : good(h, n + 1)
      <3>1. good(g, n + 1)
        BY <2>3, <2>5
      <3> HIDE DEF good, g
      <3> QED
        BY <3>1
    <2> HIDE DEF good
    <2> QED
      BY <2>6
  <1>3. 6 \in G
    <2> HIDE DEF G
    <2> QED
      BY <1>1, <1>2, SetInduction
  <1>4. PICK g : good(g, 6)
    BY <1>3
  <1>5. level(6) = Team
    BY TeamFacts
  <1>6. g \in [Team -> Nat] /\ \A t \in Team : g[t] =
            IF t = <<>> THEN 0 ELSE lengthOf(Head(t)) + g[Tail(t)]
    BY <1>4, <1>5
  <1> DEFINE Is(h) == h = [t \in Team |-> IF t = <<>> THEN 0 ELSE lengthOf(Head(t)) + h[Tail(t)]]
             c == CHOOSE h : Is(h)
  <1>7. Is(g)
    BY <1>6
  <1>8. Is(c)
    <2> HIDE DEF Is
    <2> QED
      BY <1>7
  <1>9. teamLength = c
    BY DEF teamLength
  <1> HIDE DEF c
  <1>10. \A t \in Team : c[t] = IF t = <<>> THEN 0 ELSE lengthOf(Head(t)) + c[Tail(t)]
    BY <1>8
  <1> DEFINE S == {n \in Nat : \A t \in Team : Len(t) = n => c[t] \in Nat}
  <1>11. 0 \in S
    BY <1>10, TeamFacts
  <1>12. ASSUME NEW n \in Nat, n \in S PROVE n + 1 \in S
    <2> SUFFICES ASSUME NEW t \in Team, Len(t) = n + 1 PROVE c[t] \in Nat
      OBVIOUS
    <2>1. t # <<>> /\ Tail(t) \in Team /\ Len(Tail(t)) = n /\ Head(t) \in Counts
      BY TeamFacts
    <2>2. \A r \in Team : Len(r) = n => c[r] \in Nat
      BY <1>12
    <2>3. c[Tail(t)] \in Nat
      BY <2>1, <2>2
    <2>4. lengthOf(Head(t)) \in Nat
      BY <2>1, LengthFacts
    <2>5. c[t] = lengthOf(Head(t)) + c[Tail(t)]
      BY <1>10, <2>1
    <2> QED
      BY <2>3, <2>4, <2>5
  <1>13. Nat \subseteq S
    <2> HIDE DEF S
    <2> QED
      BY <1>11, <1>12, SetInduction
  <1>14. \A t \in Team : c[t] \in Nat
    BY <1>13, TeamFacts
  <1>15. DOMAIN c = Team /\ c = [t \in Team |-> c[t]]
    BY <1>8
  <1>16. c \in [Team -> Nat]
    BY <1>14, <1>15
  <1> QED
    BY <1>9, <1>10, <1>16

(* The vector of a team whose Pokemon have at most four moves is no longer   *)
(* than that of as many Pokemon with four; any other is longer than a uint.  *)
LEMMA LongestTeam ==
    ASSUME NEW t \in Team
    PROVE  /\ teamLength[t] \in Nat
           /\ (\A j \in DOMAIN t : t[j] <= 4) =>
                 /\ teamLength[t] <= 26 * Len(t)
                 /\ teamLength[t] = 26 * Len(t) <=> \A j \in DOMAIN t : t[j] = 4
           /\ (\E j \in DOMAIN t : t[j] > 4) => teamLength[t] > UintValues
  <1> DEFINE full(s)  == \A j \in DOMAIN s : s[j] = 4
             small(s) == \A j \in DOMAIN s : s[j] <= 4
             P(s) == /\ teamLength[s] \in Nat
                     /\ small(s) => /\ teamLength[s] <= 26 * Len(s)
                                    /\ teamLength[s] = 26 * Len(s) <=> full(s)
                     /\ ~small(s) => teamLength[s] > UintValues
             S == {n \in Nat : \A s \in Team : Len(s) = n => P(s)}
  <1>1. 0 \in S
    <2> SUFFICES ASSUME NEW s \in Team, Len(s) = 0 PROVE P(s)
      OBVIOUS
    <2>1. s = <<>> /\ DOMAIN s = {}
      BY TeamFacts
    <2> QED
      BY <2>1, TeamLength
  <1>2. ASSUME NEW n \in Nat, n \in S PROVE n + 1 \in S
    <2> SUFFICES ASSUME NEW s \in Team, Len(s) = n + 1 PROVE P(s)
      OBVIOUS
    <2> DEFINE h == s[1]
               r == Tail(s)
    <2>1. /\ s # <<>> /\ r \in Team /\ Len(r) = n /\ h \in Counts /\ Head(s) = h
          /\ DOMAIN s = 1..(n + 1) /\ DOMAIN r = 1..n
          /\ \A j \in 1..n : r[j] = s[j + 1]
      BY TeamFacts
    <2> HIDE DEF r, h
    <2>2. P(r)
      BY <1>2, <2>1
    <2>3. teamLength[s] = lengthOf(h) + teamLength[r]
      BY <2>1, TeamLength DEF r
    <2>4. /\ h \in Nat /\ lengthOf(h) \in Nat
          /\ h <= 4 => lengthOf(h) = 22 + h
          /\ h > 4 => lengthOf(h) > UintValues
      BY <2>1, LengthFacts
    <2>5. \A j \in DOMAIN s : j = 1 \/ (j - 1 \in 1..n /\ r[j - 1] = s[j])
      <3> SUFFICES ASSUME NEW j \in DOMAIN s, j # 1
                   PROVE  j - 1 \in 1..n /\ r[j - 1] = s[j]
        OBVIOUS
      <3>1. j - 1 \in 1..n /\ (j - 1) + 1 = j
        BY <2>1
      <3> QED
        BY <2>1, <3>1
    <2>6. \A j \in 1..n : j + 1 \in DOMAIN s /\ r[j] = s[j + 1]
      BY <2>1
    <2>7. 1 \in DOMAIN s /\ s[1] = h
      BY <2>1 DEF h
    <2>8. full(s) <=> h = 4 /\ full(r)
      BY <2>1, <2>5, <2>6, <2>7
    <2>9. small(s) <=> h <= 4 /\ small(r)
      BY <2>1, <2>5, <2>6, <2>7
    <2>10. /\ teamLength[r] \in Nat
           /\ small(r) => /\ teamLength[r] <= 26 * n
                          /\ teamLength[r] = 26 * n <=> full(r)
           /\ ~small(r) => teamLength[r] > UintValues
      BY <2>1, <2>2
    <2> HIDE DEF full, small
    <2>11. teamLength[s] \in Nat
      BY <2>3, <2>4, <2>10
    <2>12. CASE small(s)
      <3>1. teamLength[s] = 22 + h + teamLength[r] /\ h <= 4
        BY <2>3, <2>4, <2>9, <2>12
      <3>2. teamLength[r] <= 26 * n /\ (teamLength[r] = 26 * n <=> full(r))
        BY <2>9, <2>10, <2>12
      <3> QED
        BY <2>4, <2>8, <2>10, <2>11, <2>12, <3>1, <3>2
    <2>13. CASE ~small(s)
      <3>1. lengthOf(h) > UintValues \/ teamLength[r] > UintValues
        BY <2>4, <2>9, <2>10, <2>13
      <3>2. teamLength[s] > UintValues
        BY <2>3, <2>4, <2>10, <3>1, LearnerAssumption
      <3> QED
        BY <2>11, <2>13, <3>2
    <2> QED
      BY <2>12, <2>13
  <1>3. Nat \subseteq S
    <2> HIDE DEF S
    <2> QED
      BY <1>1, <1>2, SetInduction
  <1>4. P(t)
    <2> HIDE DEF P
    <2> QED
      BY <1>3, TeamFacts
  <1>5. (\E j \in DOMAIN t : t[j] > 4) => ~small(t)
    <2>1. \A j \in DOMAIN t : t[j] \in Nat
      BY TeamFacts, LengthFacts
    <2> QED
      BY <2>1
  <1> QED
    BY <1>4, <1>5

(* The network of build_td_learner takes 312 numbers, and no other number.   *)
LEMMA TakesInputs ==
    ASSUME NEW ls \in Seq(Layer), NEW s \in Shape, Fits(ls, s), NEW n \in Nat
    PROVE  propagates(ls, n) <=> n = s.inputs
  <1>1. ls # <<>> /\ 1 \in DOMAIN ls /\ s.inputs \in Nat \ {0}
    BY LayersOf DEF Fits, propagates, Shape
  <1>2. ls[1].weights = s.inputs
    BY <1>1 DEF Fits, propagates, takes, inputsOf
  <1>3. propagates(ls, n) => n = s.inputs
    BY <1>1, <1>2 DEF propagates, takes, inputsOf
  <1> QED
    BY <1>3 DEF Fits

(* The learner takes the state vector of two teams if they are twelve Pokemon*)
(* with four moves each, and of no others, however wide a uint is            *)
(* (Data.hpp:103-111, :169-185).                                             *)
THEOREM WholeTeamsAlwaysOnly == Spec => []WholeTeamsOnly
  <1>1. IInv => WholeTeamsOnly
    <2> SUFFICES ASSUME IInv, q_estimator # Null, q_estimator.made # Null,
                        q_estimator.made.inputs = 312,
                        NEW t \in Teams, NEW u \in Teams
                 PROVE  propagates(q_estimator.layers, teamLength[t] + teamLength[u])
                            <=> AllKnown(t) /\ AllKnown(u)
      BY DEF WholeTeamsOnly
    <2>1. /\ q_estimator.layers \in Seq(Layer) /\ q_estimator.made \in Shape
          /\ Fits(q_estimator.layers, q_estimator.made)
      BY DEF IInv, EstOK, MLP, Fitting
    <2>2. t \in Team /\ u \in Team
      BY LearnerAssumption
    <2>3. \A s \in Team : /\ teamLength[s] \in Nat
                          /\ teamLength[s] <= 156 \/ teamLength[s] > 312
                          /\ teamLength[s] = 156 <=> AllKnown(s)
      <3> TAKE s \in Team
      <3>1. Len(s) \in 0..6 /\ \A j \in DOMAIN s : s[j] \in Nat
        BY TeamFacts, LengthFacts
      <3> DEFINE n == Len(s)
                 x == teamLength[s]
                 full == \A j \in DOMAIN s : s[j] = 4
      <3>2. x \in Nat /\ n \in 0..6 /\ (AllKnown(s) <=> n = 6 /\ full)
        BY <3>1, LongestTeam DEF AllKnown
      <3>3. CASE \A j \in DOMAIN s : s[j] <= 4
        <4>1. x <= 26 * n /\ (x = 26 * n <=> full)
          BY <3>3, LongestTeam
        <4> HIDE DEF n, x, full
        <4>2. x \in Nat /\ x <= 156 /\ (x = 156 <=> AllKnown(s))
          BY <3>2, <4>1
        <4> QED
          BY <4>2 DEF x
      <3>4. CASE \E j \in DOMAIN s : s[j] > 4
        <4>1. x > UintValues
          BY <3>4, LongestTeam
        <4>2. ~full
          BY <3>4
        <4> HIDE DEF n, x, full
        <4>3. x \in Nat /\ x > 312 /\ ~AllKnown(s)
          BY <3>2, <4>1, <4>2, LearnerAssumption
        <4> QED
          BY <4>3 DEF x
      <3> QED
        BY <3>1, <3>3, <3>4
    <2>4. propagates(q_estimator.layers, teamLength[t] + teamLength[u])
             <=> teamLength[t] + teamLength[u] = 312
      <3> DEFINE n == teamLength[t] + teamLength[u]
      <3>1. n \in Nat
        BY <2>2, <2>3
      <3> HIDE DEF n
      <3>2. propagates(q_estimator.layers, n) <=> n = 312
        BY <2>1, <3>1, TakesInputs
      <3> QED
        BY <3>2 DEF n
    <2> DEFINE x == teamLength[t]
               y == teamLength[u]
    <2>5. /\ x \in Nat /\ (x <= 156 \/ x > 312) /\ (x = 156 <=> AllKnown(t))
          /\ y \in Nat /\ (y <= 156 \/ y > 312) /\ (y = 156 <=> AllKnown(u))
      BY <2>2, <2>3
    <2> HIDE DEF x, y
    <2>6. x + y = 312 <=> x = 156 /\ y = 156
      BY <2>5
    <2> QED
      BY <2>4, <2>5, <2>6 DEF x, y
  <1> QED
    BY <1>1, IInvAlways, PTL
=============================================================================
