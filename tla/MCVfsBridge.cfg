SPECIFICATION FairSpec
CONSTANTS
  RingBytes = 3
  Window = 2
  MaxValue = 3
  MaxBytes = 4
INVARIANTS
  ExchangeOwned
  AnswerMatches
  IngressHolds
  CommitIsWhole
PROPERTIES
  EveryRequestAnswered
