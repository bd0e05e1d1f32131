SPECIFICATION FairSpec
CONSTANTS
    r1 = r1  b1 = b1  p1 = p1  p2 = p2
    Nobody = Nobody
    OwnRuns = {r1}
    Resumed = {b1}
    Prompts = {p1, p2}
    Of <- MCOf
    Questions <- MCQuestions
    MaxEvents = 2
    MaxRestarts = 1
    MaxCancels = 1
    MaxMenus = 1
    MaxPastes = 1
INVARIANT NothingMislaid
CHECK_DEADLOCK FALSE
