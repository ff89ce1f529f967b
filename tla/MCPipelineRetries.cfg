CONSTANTS
  s1 = s1
  s2 = s2
  a1 = a1
  a2 = a2
  NoSub = NoSub
  Subs = {s1}
  Workers = {w1, w2}
  Apps = {a1}
  AppOf <- OneApp
  Quotes <- SplitQuotes
  InitialApp <- OneCredit
  InitialUser = 3
  Selected = {"both"}
  Retry = 2
  Limit = 1
  ResetTo <- SomeCounts
  Capacity = 1
  MaxCrashes = 2
  MaxResets = 1
SPECIFICATION Spec
INVARIANTS PostsBounded RowsTellTheTruth
PROPERTIES KeepsPromise
CHECK_DEADLOCK FALSE
