SPECIFICATION FairSpec
CONSTANTS
  Day = 4
  QueueCap = 2
  Prompts = {"resume"}
  Configs <- MCConfigs
  Rates = {0, 2}
  RetryAfters = {0, 3}
  DefaultRate = 1
  UnconfiguredWait = 2
  FirstBackoff = 1
  BackoffLimit = 2
  RetryAfterCap = 2
  SaverMultiplier = 2
  SaverMax = 3
  RtcMayFail = TRUE
INVARIANTS
  TypeOK
  TimerMatchesDeadline
  AlarmMatchesDeadline
PROPERTIES
  DeadlineIsFirstActive
  KeepsPromise
