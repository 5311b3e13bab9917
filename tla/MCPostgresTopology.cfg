SPECIFICATION MCSpec
CONSTANTS
  old = old
  new = new
  s1 = s1
  s2 = s2
  Doc <- MCDoc
  Definition <- MCDefinition
  Manifests <- MCManifests
  Session = {s1, s2}
  Writes <- MCWrites
  MaxWrites = 4
  MaxFailures = 1
INVARIANTS
  EdgesAreAnchored
  NodeWaitsEnd
PROPERTIES
  CommitsAreWhole
  OrphansAreCollected
