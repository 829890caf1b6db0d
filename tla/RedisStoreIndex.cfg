SPECIFICATION Spec
CONSTANTS
  Procs = {p}
  Keys = {k1, k2}
  small = small
  large = large
  Entries = {small, large}
  None = none
  Ttl = 2
  MaxUsage = 2
  SizeOf <- Weighing
  TrimEvery = 2
  Trims = {t}
  MaxTime = 4
  MaxLost = 0
INVARIANT Accounted
