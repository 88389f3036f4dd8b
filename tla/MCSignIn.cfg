\* One e-mail address, one Discord user, two codes, tokens, sessions, OAuth states and handlers.
SPECIFICATION SmallSpec
CONSTANTS
    EmailUsers = {e1}
    DiscordUsers = {d1}
    WelcomeBonus = 10
    InviteeBonus = 1
    InviterBonus = 3
    Nobody = Nobody
    CodeBound = 2
    TokenBound = 2
    SessionBound = 2
    UnlockBound = 1
    States = {x1, x2}
    MaxCodeAttempts = 1
    MaxFailed = 1
    MaxSessions = 1
    Handlers = {h1, h2}
SYMMETRY Symmetry
CHECK_DEADLOCK FALSE
INVARIANTS
    BonusesPaidOnce
    SecretsAdmitOnce
    GuessesBounded
    OlderSignInsEnd
