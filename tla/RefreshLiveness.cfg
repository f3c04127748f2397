SPECIFICATION FairSpec
CONSTANTS
  Day = 1
  QueueCap = 1
  Prompts = {"resume"}
  Configs <- WakeConfigs
  Rates = {2}
  RetryAfters = {0}
  DefaultRate = 1
  UnconfiguredWait = 2
  FirstBackoff = 1
  BackoffLimit = 2
  RetryAfterCap = 2
  SaverMultiplier = 2
  SaverMax = 3
  RtcMayFail = FALSE
PROPERTIES
  FullQueueDrains
  KeepsRefreshing
