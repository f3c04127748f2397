SPECIFICATION Spec
CONSTANTS
  Watcher = watcher
  Savers = {saver}
  Current <- MCCurrent
  Releases <- MCReleases
  Drafts = {}
  Period = 1
  Interval = 2
  Back = 1
INVARIANTS
  TypeOK
  CachedIsAnswer
  BannerIsNewest
PROPERTIES
  OneRequestPerInterval
  KeepsChecking
