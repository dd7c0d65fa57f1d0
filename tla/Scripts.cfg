SPECIFICATION Spec
CONSTANTS
    b1 = b1  b2 = b2  s1 = s1  s2 = s2  t1 = t1  t2 = t2  l1 = l1  l2 = l2  e1 = e1  e2 = e2
    NoRow = NoRow  NoBot = NoBot
    Bot <- Bots  Script <- Scripts  Trigger <- Triggers  Reload <- Reloads
    BotOf <- Owner  Cooldown <- Cooldowns
    HasInterval <- Intervals  IntervalTrigger = t1
    MaxTime = 2  MaxEdits = 2  MaxBus = 2
    Event <- Events  ScriptId <- Scripts  Program <- Programs  Budgeted <- WithBudget
    MaxSandboxWorkers = 1  MaxSteps = 2
    Patterns <- AllPatterns  WordLists <- SomeWords  TextLengths <- SomeLengths
    Numbers <- SomeNumbers  Drafts <- SomeDrafts
INVARIANTS RegistryAgrees SandboxSound 
PROPERTIES CooldownKept ScriptsFinish
CHECK_DEADLOCK FALSE
