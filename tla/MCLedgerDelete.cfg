CONSTANTS
  Apps = {a1}
  Reqs = {r1}
  Amounts <- MCAmounts
  Costs = {2}
  Largest = 2
  Grants = {2}
  MaxGrants = 2
  MaxRequests = 4
SPECIFICATION Spec
PROPERTIES DeleteUnlocksAllocation
CHECK_DEADLOCK FALSE
