SPECIFICATION Spec
CONSTANTS
  Defaults <- MCDefaults
  Stored <- MCStored
  PageDefaults <- MCDefaults
  WritesMayFail = TRUE
  Buffer = 2
  MaxActs = 4
  None = None
INVARIANTS
  TypeOK
  ChoicesKept
  InterfaceAgrees
