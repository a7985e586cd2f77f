SPECIFICATION BattleSpec
CONSTANTS
    r1 = r1  bot = bot  opp = opp
    muk = muk  jynx = jynx  nick = nick  psychic = psychic  rest = rest
    room = r1
    Opponent = opp
    Sides <- MCSides
    MaxHP <- MCOneHP
    MoveOf <- MCMoveOf
    Effects <- MCFatal
    Disableable = {1}
    LongFrames = TRUE
    Garbage <- MCGarbage
    Rooms = {r1}
    NoRoom = NoRoom
    Users = {bot, opp}
    NoUser = NoUser
    BotName = bot
    Pkmn = {muk, jynx}
    KnownPkmn = {muk, jynx}
    Moves = {psychic, rest}
    KnownMoves = {psychic, rest}
    BaseHP <- MCBaseHP
    Stats = {"atk"}
    Formats = {"gen1ou"}
    AcceptedFormats = {"gen1ou"}
    MaxSent = 1
INVARIANTS ChoicesListed
PROPERTIES AnswersOnlyRequests BotIsPSUser RequestsAnswered ReplacementsEnd
CHECK_DEADLOCK FALSE
