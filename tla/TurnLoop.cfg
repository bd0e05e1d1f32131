SPECIFICATION Spec
CONSTANTS
    None = none
    Todo = todo
    Read = read
    Edit = edit
    Script = script
    Patch = patch
    Skill = skill
    m1 = m1
    m2 = m2
    m3 = m3
    m4 = m4
    Models <- MCModels
    Provider <- MCProvider
    Order <- MCOrder
    Batches <- MCPlans
    Pass = {m4}
    Shaky = {m1}
    Talking <- MCTalking
    MayFail = {edit}
    SkillRun = TRUE
    Levels = {1}
    OldMessages = 2
    Assigned = none
    MaxTurns = 4
    MaxRetry = 1
    RateTries = 1
    Medium = 1
    Highest = 1
    MaxSteers = 1
INVARIANTS RequestsPaired ProvidersOnce
PROPERTIES NothingLost ReadsFresh
