SPECIFICATION FairSpec
CONSTANTS
    ann = ann  bob = bob  cid = cid
    BotName = "spaderbot"
    GuestName = "guest"
    Challengers = {ann, bob, cid}
    Format <- MCFormat
    AcceptedFormats = {"gen1ou", "gen1randombattle"}
    MaxChallenges = 1
    ConnectFails = TRUE
    Closes = TRUE
    TornReads = TRUE
    HoistsTest = TRUE
INVARIANTS TypeOK NeverSendsUnconnected CredentialsWhole NamesAgree TeamBeforeAccept
PROPERTIES LoginEnds ChallengesAnswered
CHECK_DEADLOCK FALSE
