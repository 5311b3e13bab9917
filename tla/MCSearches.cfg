SPECIFICATION Spec
CONSTANTS
  d1 = d1
  d2 = d2
  Doc <- MCDoc
  Revision = {"A", "B", "C"}
  Inventory <- MCInventory
  Searcher = {s1}
  ChunkLimit = 2
  MaxChanges = 3
SYMMETRY Symmetry
INVARIANTS
  SearchesAreSound
  NoFalseAlarms
  PopulationIsComplete
  ResultsAreRelated
PROPERTIES
  HitsAreCurrent
  OrderIrrelevant
CHECK_DEADLOCK FALSE
