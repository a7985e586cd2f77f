SPECIFICATION FairSpec
CONSTANTS
    TeamSize = 3
    StartHP = 2
    Damages = {0, 1, 2}
    Speed <- MCSpeed
    MCTSTurn = 1
INVARIANTS TypeOK FaintSwitchPossible TurnStartsHealthy AttackerCountExact
PROPERTIES ImplementsDuel BattleEnds
