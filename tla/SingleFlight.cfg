SPECIFICATION FairSpec
CONSTANTS
  Callers = {c1, c2, c3}
  Keys = {k1, k2}
  Answers = {answer}
  Thrown = thrown
  None = none
  InlineProducers = TRUE
INVARIANTS TypeOK OneProducerPerKey NoLostWaiter AnswerIsFresh
PROPERTIES EveryCallReturns ImplementsDedup
