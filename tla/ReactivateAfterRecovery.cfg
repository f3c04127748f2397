SPECIFICATION Spec
CONSTANTS
  Hosts = {h1, h2}
  Keys = {k1, k2}
  Supported = {k1, k2}
  Tabs = {t1, t2}
  Installers = {i1, i2}
  Records <- MCRecords
  MaxActs = 4
  None = None
SYMMETRY Symmetry
INVARIANT
  ReactivateCanWork
