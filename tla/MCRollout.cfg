SPECIFICATION Spec
CONSTANTS
    Size = 3
    StartHP = 1
    Damages = {0, 1}
    Speed <- MCSpeed
    KnownMoves <- MCKnown
    TypeEntry = {TRUE, FALSE}
INVARIANTS OneOut SwitchSound
PROPERTY HitsOnlyWhoIsOut
