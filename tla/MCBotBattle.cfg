INIT BattleInit
NEXT BattleNext
CONSTANTS
    r1 = r1  bot = bot  opp = opp
    muk = muk  jynx = jynx  nick = nick  psychic = psychic  rest = rest
    room = r1
    Opponent = opp
    Sides <- MCNicknamed
    MaxHP <- MCMaxHP
    MoveOf <- MCMoveOf
    Effects <- MCLasting
    Disableable = {}
    LongFrames = FALSE
    Garbage = {}
    Rooms = {r1}
    NoRoom = NoRoom
    Users = {bot, opp}
    NoUser = NoUser
    BotName = bot
    Pkmn = {muk, jynx, nick}
    KnownPkmn = {muk, jynx}
    Moves = {psychic, rest}
    KnownMoves = {psychic, rest}
    BaseHP <- MCBaseHP
    Stats = {"atk"}
    Formats = {"gen1ou"}
    AcceptedFormats = {"gen1ou"}
    MaxSent = 1
INVARIANTS ChoicesListed ChoicesInformed OppKnowledge NeverCrashes
