SPECIFICATION Spec
CONSTANTS
  Callers = {c1, c2, c3}
  Keys = {k1}
  Thrown = thrown
  None = none
  Entry = entry
  Failure = failure
  InlineProducers = TRUE
  Stores <- AllStores
INVARIANTS TypeOK StoredBurstProducesOnce WireIsOurs
