SPECIFICATION FairLockSpec
CONSTANTS
  Pids = {1, 2, 3}
  MaxDeaths = 2
  Nobody = Nobody
INVARIANTS
  LockTypeOK
  OneBackend
  NoLockLeft
PROPERTY
  StaleLockYields
