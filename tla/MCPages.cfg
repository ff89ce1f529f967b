CONSTANTS
  Apps <- TwoApps
  Funded <- OnlyFirst
  Supply = 2
  Amounts = {1}
  MaxJobs = 2
  MaxOutside = 1
  TokensOf <- TwoChains
  MaxFlights = 2
  People = {"u", "w"}
  Fetchers = {1, 2}
  Users = {"u", "w"}
  Countries = {"allowed", "denied"}
  Denied = {"denied"}
  MaxOrphans = 1
SPECIFICATION PagesSpec
INVARIANTS TypeOK ViewsCatchUp NothingStranded FundedSelection BuyIsCovered EstimateMatches SpinnerHasRequest OwnRecord OneStarterApp OwnCountry GateHolds
CHECK_DEADLOCK FALSE
