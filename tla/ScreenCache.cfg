SPECIFICATION Spec
CONSTANTS
  Names = {n1, n2, n3, n4}
  Urls = {u1, u2}
  Tags = {t1, t2}
  Keep = 2
  MaxKills = 1
  None = None
SYMMETRY NamesSymmetry
INVARIANTS
  TypeOK
  ConfirmedIsCurrent
  NoOrphans
PROPERTY
  KeepsLastScreen
