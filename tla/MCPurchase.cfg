CONSTANTS
  MaxBuys = 2
  MaxMounts = 2
  Kind <- OneOfEach
  InblockDelay = 1
  FinalityDelay = 2
  CompletedDelay = 1
  CleanupDelay = 2
  ToastDelay = 1
  FirstPoll = 1
  PollEvery = 2
  SafetyStop = 3
  MaxPolls = 2
SPECIFICATION Spec
INVARIANTS TypeOK ButtonWaits ShownIsListed CompletedWasReported PollingIsBounded
PROPERTIES StatusOnlyAdvances
CHECK_DEADLOCK FALSE
