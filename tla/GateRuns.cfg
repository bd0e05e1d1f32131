SPECIFICATION FairSpec
CONSTANTS
    r1 = r1  r2 = r2  r3 = r3  s1 = s1  s2 = s2  m1 = m1  m2 = m2
    None = None
    Runs = {r1, r2, r3}
    Subagents = {r3}
    Sessions = {s1, s2}
    Temps = {s1, s2}
    OldTemps = {s1}
    SessionOf <- MCSessionOf
    MaxTasks = 1
    MaxTurns = 1
    Texts = {m1}
    SentTo <- MCSentTo
INVARIANTS SlotsAccounted InjectedOnce
PROPERTIES FoundIsIdle EveryRunAdmitted
CHECK_DEADLOCK FALSE
