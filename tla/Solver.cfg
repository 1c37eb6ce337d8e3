SPECIFICATION Spec
CONSTANTS
  NonceSpace = 4
  ExtraSpace = 2
  TimeSpace = 8
  Display = 2
  MaxTime = 2
  MaxLag = 2
  WinningSets <- MCWinningSets
  NoProof = NoProof
PROPERTIES NoAttemptTwice GivesUpOnlyInTime WinsAreDelivered SolveReturns
