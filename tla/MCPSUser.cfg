SPECIFICATION MCSpec
CONSTANTS
    r1 = r1  r2 = r2  bot = bot  opp = opp
    muk = muk  jynx = jynx  ditto = ditto
    psychic = psychic  rest = rest  hijumpkick = hijumpkick
    Rooms = {r1, r2}
    NoRoom = NoRoom
    Users = {bot, opp}
    NoUser = NoUser
    BotName = bot
    Pkmn = {muk, jynx, ditto}
    KnownPkmn = {muk, jynx}
    Moves = {psychic, rest, hijumpkick}
    KnownMoves = {psychic, rest}
    BaseHP <- MCBaseHP
    Stats = {"atk"}
    Formats = {"gen1ou", "gen1randombattle", "gen7ou"}
    AcceptedFormats = {"gen1ou", "gen1randombattle"}
    MaxSent = 0
INVARIANTS TypeOK OppTeamDistinct SwitchActionsMatchTeam SentInWireForm
PROPERTY OppKnowledgeNeverLost
CHECK_DEADLOCK FALSE
