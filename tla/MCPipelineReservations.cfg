CONSTANTS
  s1 = s1
  s2 = s2
  a1 = a1
  a2 = a2
  NoSub = NoSub
  Subs = {s1, s2}
  Workers = {w1}
  Apps = {a1, a2}
  AppOf <- TwoApps
  Quotes <- MovingQuote
  InitialApp <- OneCredit
  InitialUser = 3
  Selected = {"both"}
  Retry = 1
  Limit = 1
  ResetTo = {}
  Capacity = 2
  MaxCrashes = 0
  MaxResets = 0
SPECIFICATION Spec
INVARIANTS ReservationsCovered
CHECK_DEADLOCK FALSE
