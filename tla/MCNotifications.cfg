SPECIFICATION Spec
CONSTANTS
  None = None
  alice = alice
  bob = bob
  tab = tab
  all1 = all1
  all2 = all2
  MaxNotes = 3
  Users = {alice, bob}
  Clients = {tab}
  Markers = {all1, all2}
  UserOf <- MCUserOf
  Limit = 2
SYMMETRY Symmetry
CONSTRAINT Apart
INVARIANTS TypeOK NothingMissed PagesSkipNothing ModifiedOnce
CHECK_DEADLOCK FALSE
