SPECIFICATION Spec
CONSTANTS
  Versions = {v1, v2}
  KeepApps = 1
  MaxSources = 2
  None = None
  Torn = Torn
SYMMETRY VersionSymmetry
INVARIANTS
  TypeOK
  FailureRestoresRuntime
  SuccessIsComplete
  WholeProjectKept
PROPERTIES
  AppNeverTorn
