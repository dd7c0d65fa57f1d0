SPECIFICATION Spec
CONSTANTS
    a1 = a1
    a2 = a2
    b1 = b1
    b2 = b2
    h1 = h1
    u1 = u1
    u2 = u2
    j1 = j1
    j2 = j2
    i1 = i1
    i2 = i2
    r1 = r1
    r2 = r2
    None = None
    Gone = Gone
    Raw = Raw
    Deleted = Deleted
    Account <- Accounts
    Bot <- Bots
    Hook <- Hooks
    User <- Users
    Token <- Tokens
    Invite <- Invites
    Request <- Requests
    Call <- Requests
    MaxAccounts = 2
    MaxBots = 1
    MaxHooks = 1
    MaxKey = 2
    MaxPassword = 2
SYMMETRY Symmetric
INVARIANTS QuotaBound   AccessFollows HealthyBot
PROPERTIES BotRowsKept InvitesBind
CHECK_DEADLOCK FALSE
