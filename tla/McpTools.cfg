SPECIFICATION FairSpec
CONSTANTS
    p = p  k1 = k1  n1 = n1  u1 = u1  u2 = u2  c1 = c1  c2 = c2  c3 = c3  x = x  y = y
    None = None
    Poller = p
    Callers = {k1}
    Notes = {n1}
    Users = {u1}
    Clients = {c1, c2, c3}
    Tools = {x, y}
    Catalogs <- MCCatalogs
    MaxFaults = 1
INVARIANTS RegistryMatches RemovedStaysGone
PROPERTIES RenewsItsOwn CatalogFollowed
CONSTRAINT Uncrossed
CHECK_DEADLOCK FALSE
