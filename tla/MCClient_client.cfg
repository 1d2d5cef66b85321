SPECIFICATION FairSpec
CONSTANTS
  alice = alice  bob = bob  r1 = r1  r2 = r2
  Users = {alice, bob}
  NoUser = NoUser
  Readers = {r1, r2}
  Elsewhere = {alice}
  Patient = TRUE
  Faults = {"join", "split", "kill", "stale"}
  MaxRequests = 7
  Room = 3
INVARIANTS ClientInv Identity OneSession
PROPERTIES MainTakesItsOwn RequestsFit MainReturns ReaderEnds SessionEnds
CHECK_DEADLOCK FALSE
