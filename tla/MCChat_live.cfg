SPECIFICATION FairSpec
CONSTANTS
  s1 = s1  s2 = s2  alice = alice  bob = bob  carol = carol
  c1 = c1  c2 = c2  c3 = c3  m1 = m1  m2 = m2  g1 = g1
  NoUser = NoUser  NoConn = NoConn
  Servers = {s1, s2}
  Users = {alice, bob}
  Registered = {alice, bob}
  Conns = {c1, c3}
  Msgs = {m1, g1}
  OneMsgs = {m1}
  Home <- OneServer
  May <- MayAlice
  Pre <- PreBob
  Rcpt <- Receivers
  From <- FromBob
  MaxLogins = 2
  SingleClient = TRUE
  Faults = {"vanish"}
PROPERTIES HandlersReturn GoneIsOffline InboxDrained
CHECK_DEADLOCK FALSE
