SPECIFICATION Spec
CONSTANTS
  alice = alice  bob = bob  r1 = r1  r2 = r2
  Users = {alice, bob}
  NoUser = NoUser
  Readers = {r1, r2}
  Elsewhere = {}
  Patient = FALSE
  Faults = {}
  MaxRequests = 5
  Room = 3
INVARIANTS CurrentIsLoggedIn
CHECK_DEADLOCK FALSE
