SPECIFICATION FairSpec
CONSTANTS
    None = None
    Skills = {k1}
    Sessions = {s1}
    Exprs = {x1}
    MaxTime = 1
    Editors = {e1, e2}
    TimerIds = {i1, i2}
    MaxEdits = 2
    MaxRestarts = 1
INVARIANT TimersMatchFile
PROPERTY TasksFireOrMissed
CHECK_DEADLOCK FALSE
