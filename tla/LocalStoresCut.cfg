SPECIFICATION Spec
CONSTANTS
  Keys = {k1}
  small = small
  medium = medium
  large = large
  Entries = {small, medium}
  None = none
  Mangled = mangled
  Ttl = 2
  MaxUsage = 3
  SizeOf <- Weighing
  Cuts <- Anywhere
  MaxTime = 1
  MaxFaults = 1
INVARIANT TruncatedIsMiss
