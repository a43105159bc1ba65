SPECIFICATION Spec
CONSTANTS
  None = None
  c1 = c1
  c2 = c2
  c3 = c3
  alice = alice
  bob = bob
  e1 = e1
  Calls = {c1, c2, c3}
  Users = {alice, bob}
  Endpoints = {e1}
SYMMETRY Symmetry
INVARIANTS OwnerOnlyRemoval
CHECK_DEADLOCK FALSE
