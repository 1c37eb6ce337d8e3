SPECIFICATION Spec
CONSTANTS
  Foreign = Foreign
  Missing = Missing
  Source <- MCSource
  Contract <- MCContract
  MaxLookAhead = 2
  MaxGiven = 2
INVARIANTS TypeOK KeptContractsHaveKeys
PROPERTIES ImplementsKeyRing FoundWhenAskedAgain
