SPECIFICATION Spec
CONSTANTS
    NumMoves = 2
    NumIterations = 7
INVARIANTS TypeOK VisitsAddUp WinsAddUp AllTriedFirst
