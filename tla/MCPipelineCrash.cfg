CONSTANTS
  s1 = s1
  s2 = s2
  a1 = a1
  a2 = a2
  NoSub = NoSub
  Subs = {s1, s2}
  Workers = {w1}
  Apps = {a1}
  AppOf <- OneApp
  Quotes <- SplitQuotes
  InitialApp <- OneCredit
  InitialUser = 3
  Selected = {"both"}
  Retry = 1
  Limit = 1
  ResetTo = {}
  Capacity = 1
  MaxCrashes = 1
  MaxResets = 0
SPECIFICATION Spec
INVARIANTS TypeOK ChargedOnlyForPosts PreImageAvailable FallbackLedger
PROPERTIES ResolvedIsFinal
CHECK_DEADLOCK FALSE
