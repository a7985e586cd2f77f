SPECIFICATION Spec
CONSTANTS
    NumMoves = 2
    NumIterations = 4
INVARIANT NodeRepresentsMove
