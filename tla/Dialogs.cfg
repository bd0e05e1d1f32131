SPECIFICATION DialogsSpec
CONSTANTS
    None = None
    MaxPrompts = 1
    Providers <- MCProviders
    Method <- MCMethod
    Names <- MCNames
    Catalog <- MCCatalog
    MaxLists = 2
    Servers = {"s"}
    MaxLogins = 2
    Plans <- MCPlans
INVARIANTS PageHasDraft WizardsKeep NewestToken
CHECK_DEADLOCK FALSE
