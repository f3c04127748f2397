SPECIFICATION Spec
CONSTANTS
  Levels = {1, 2}
  Slots <- MCSlots
  Configs <- MCConfigs
  Defaults <- MCDefaults
  Reporters = {refresh}
  SavesMayFail = FALSE
  MaxOrphans = 0
  Unset = 0
INVARIANT
  SlotsApplied
