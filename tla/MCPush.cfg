SPECIFICATION Spec
CONSTANTS
  None = None
  c1 = c1
  c2 = c2
  c3 = c3
  c4 = c4
  c5 = c5
  alice = alice
  bob = bob
  e1 = e1
  e2 = e2
  Calls = {c1, c2, c3, c4, c5}
  Users = {alice, bob}
  Endpoints = {e1, e2}
SYMMETRY Symmetry
INVARIANTS TypeOK UniqueEndpoint RemovedStaysRemoved
PROPERTIES SendDropsOnlyGone ImplementsDevices
CHECK_DEADLOCK FALSE
