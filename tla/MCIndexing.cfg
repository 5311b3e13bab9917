SPECIFICATION Spec
CONSTANTS
  Worker = {w1, w2}
  RevisionTexts <- MCRevisionTexts
  Nonce = {1, 2}
  MaxCommands = 3
  MaxGeneration = 4
  Key = {1, 2}
  SourceContent = {1, 2, 3}
  Earlier = {1}
  Registered = {1, 2}
  Runner = {r}
  BatchSize = 1
  MaxChanges = 3
SYMMETRY Symmetry
INVARIANTS
  EditsAreLocal
  ReplaysResume
  MirrorIsCurrent
PROPERTIES
  DeltasSuffice
CHECK_DEADLOCK FALSE
