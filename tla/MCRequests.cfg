SPECIFICATION Spec
CONSTANTS
  MaxRetries = 3
INVARIANTS
  BatchesKeepApart
  DefiniteIsFinal
  RetriesConverge
PROPERTIES
  EveryRequestAnswered
  DecodedIsSound
