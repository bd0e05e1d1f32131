SPECIFICATION FairSpec
CONSTANTS
    r1 = r1  b1 = b1  p1 = p1  p2 = p2
    Nobody = Nobody
    OwnRuns = {r1}
    Resumed = {b1}
    Prompts = {p2}
    Of <- MCOfResumed
    Questions <- MCTwice
    MaxEvents = 2
    MaxRestarts = 1
    MaxCancels = 1
    MaxMenus = 1
    MaxPastes = 0
PROPERTIES EveryPromptSettles RunsSettle
CHECK_DEADLOCK FALSE
