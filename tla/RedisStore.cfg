SPECIFICATION Spec
CONSTANTS
  Procs = {p}
  Keys = {k1, k2}
  small = small
  large = large
  Entries = {small, large}
  None = none
  Ttl = 2
  MaxUsage = 2
  SizeOf <- Weighing
  TrimEvery = 2
  Trims = {t}
  MaxTime = 3
  MaxLost = 1
SYMMETRY Interchangeable
INVARIANT TypeOK
PROPERTIES TrimReconciles ImplementsPromise
