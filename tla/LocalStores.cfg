SPECIFICATION Spec
CONSTANTS
  Keys = {k1, k2, k3}
  small = small
  medium = medium
  large = large
  Entries = {small, medium, large}
  None = none
  Mangled = mangled
  Ttl = 2
  MaxUsage = 4
  SizeOf <- Weighing
  Cuts <- HeadOnly
  MaxTime = 3
  MaxFaults = 1
SYMMETRY Interchangeable
INVARIANTS TypeOK ListIsWhole NeverUndercounts WithinBudget
PROPERTIES EvictsOldest ImplementsPromise
