SPECIFICATION Spec
CONSTANTS
  a1 = a1
  b1 = b1
  tui = tui
  web = web
  bot_ = bot_
  None = None
  Models <- MCModels
  Provider <- MCProvider
  Tiers = {pass}
  Values = {v1}
  Tokens = {t1, t2}
  Writers <- MCWriters
  Tui = tui
  Bot = bot_
  MaxEdits = 2
  Mixes <- MCMixes
  RetryMax = 1
  Chains = {c1}
INVARIANTS OneConnection SettingsServed
CHECK_DEADLOCK FALSE
