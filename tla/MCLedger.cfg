CONSTANTS
  Apps = {a1}
  Reqs = {r1, r2, r3}
  Amounts <- MCAmounts
  Costs = {1, 2}
  Largest = 2
  Grants = {3}
  MaxGrants = 2
  MaxRequests = 5
SPECIFICATION Spec
INVARIANTS TypeOK UserLedger AppLedger OverdraftBounded
SYMMETRY Symmetric
CHECK_DEADLOCK FALSE
