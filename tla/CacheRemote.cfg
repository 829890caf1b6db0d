SPECIFICATION Spec
CONSTANTS
  Callers = {c1, c2}
  Keys = {k1}
  Thrown = thrown
  None = none
  Entry = entry
  Failure = failure
  InlineProducers = FALSE
  Stores <- RemoteOnly
INVARIANT BurstProducesOnce
