\* Three attempts: a first try, a retry and a last one.
SPECIFICATION Spec
CONSTANT Retries = 3
INVARIANTS
  TypeOK
  EffectsWithinBudget
  NetworkErrorSpendsBudget
  OkMeansDone
  SpuriousErrorIsHarmless
PROPERTIES
  EventuallyReturns
  AtLeastOnce
\* The call returns and nothing is left to do.
CHECK_DEADLOCK FALSE
