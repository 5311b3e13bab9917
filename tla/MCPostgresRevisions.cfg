SPECIFICATION FairSpec
CONSTANTS
  x = x
  y = y
  v1 = v1
  v2 = v2
  w1 = w1
  w2 = w2
  p1 = p1
  p2 = p2
  Worker = {w1, w2}
  Content = {x, y}
  Profile = {p1, p2}
  Version = {v1, v2}
  Revisions <- MCRevisions
  Manifests <- MCManifests
  MaxStarts = 4
CHECK_DEADLOCK FALSE
INVARIANTS
  RevisionIsWhole
PROPERTIES
  WritesArePlanned
  IndexingEnds
