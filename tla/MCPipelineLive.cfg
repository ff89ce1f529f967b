CONSTANTS
  s1 = s1
  s2 = s2
  a1 = a1
  a2 = a2
  NoSub = NoSub
  Subs = {s1, s2}
  Workers = {w1}
  Apps = {a1}
  AppOf <- OneApp
  Quotes <- OneQuote
  InitialApp <- TwoCredits
  InitialUser = 3
  Selected = {"assigned"}
  Retry = 1
  Limit = 1
  ResetTo = {}
  Capacity = 1
  MaxCrashes = 0
  MaxResets = 0
SPECIFICATION FairSpec
PROPERTIES EventuallyResolvedOrExhausted
CHECK_DEADLOCK FALSE
