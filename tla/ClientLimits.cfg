SPECIFICATION Spec
CONSTANTS
  Clients = {a1, a2, a3}
  Rate = 2
  PerWindow = 2
  Window = 2
  Second = 2
  MaxRows = 1
  MaxTime = 4
SYMMETRY Interchangeable
INVARIANTS TypeOK HeldToRate QuietMayBurst ForgetsNothing HeldToQuota
