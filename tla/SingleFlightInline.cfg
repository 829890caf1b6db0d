SPECIFICATION Spec
CONSTANTS
  Callers = {c1, c2, c3}
  Keys = {k1}
  Answers = {answer}
  Thrown = thrown
  None = none
  InlineProducers = TRUE
INVARIANT RestWaitOnTheHeir
