SPECIFICATION Spec
CONSTANTS
  here = here
  u1 = u1
  u2 = u2
  u3 = u3
  w1 = w1
  w2 = w2
  short = short
  long = long
  x = x
  y = y
  Partition = {here}
  Here = here
  PublicationId = {u1, u2, u3}
  Client = {w1, w2}
  Retained = 1
  Revision = {short, long}
  SlotCount <- MCSlotCount
  Vector = {x}
  MaxSlots = 2
  PlanRetries = 1
  MaxPrepared = 2
SYMMETRY Symmetry
INVARIANTS
  CommittedIsSearchable
  PendingIsResumable
PROPERTIES
  ProviderNeverRegresses
  ImplementsRegister
