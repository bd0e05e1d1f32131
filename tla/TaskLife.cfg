SPECIFICATION FairSpec
CONSTANTS
    r1 = r1  r2 = r2  r3 = r3  r4 = r4  a = a  b = b  u1 = u1
    None = None
    Runs = {r1, r2, r3}
    First = r1
    Legs = {a}
    Updates = {u1}
    MaxLegs = 1
    MaxEvents = 2
INVARIANTS OneRunPerClaim UnstoppedLegsAccounted EachResultCounts
PROPERTY ResultsReported
CHECK_DEADLOCK FALSE
