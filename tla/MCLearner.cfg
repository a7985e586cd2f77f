SPECIFICATION Spec
CONSTANTS
    Shapes <- MCShapes
    Kinds <- MCKinds
    MaxLayers = 2
    Samples = {1, 312}
    Teams <- MCTeams
    UintValues = 1024
    Null = Null
    Torn = Torn
INVARIANTS MadeFits WholeTeamsOnly
PROPERTY FailuresChangeNothing
