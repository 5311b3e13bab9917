SPECIFICATION MCSpec
CONSTANTS
  blue = blue
  green = green
  u1 = u1
  u2 = u2
  u3 = u3
  c1 = c1
  c2 = c2
  v1 = v1
  v2 = v2
  d1 = d1
  d2 = d2
  d3 = d3
  Partition = {blue, green}
  PublicationId = {u1, u2, u3}
  Client = {c1, c2}
  Retained = 1
  Intents <- MCIntents
SYMMETRY Symmetry
INVARIANTS
  LeasesFenced
  TablesAgree
  LockedTablesAgree
  WaitsEnd
PROPERTIES
  NoLostUpdate
  PayloadIsCommitted
  ImplementsRegister
  LockedImplementsRegister
