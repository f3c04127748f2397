SPECIFICATION Spec
CONSTANTS
  MaxPercent = 1
  MaxSamples = 1
  MaxEvents = 1
  DiskFails = TRUE
  Recorders = {"sampler"}
INVARIANTS
  TypeOK
  EstimateIsADischarge
PROPERTIES
  KeepsRecord
