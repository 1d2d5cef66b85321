SPECIFICATION Spec
CONSTANTS
  s1 = s1  s2 = s2  alice = alice  bob = bob  carol = carol
  c1 = c1  c2 = c2  c3 = c3  m1 = m1  m2 = m2  g1 = g1
  NoUser = NoUser  NoConn = NoConn
  Servers = {s1, s2}
  Users = {alice, bob}
  Registered = {alice, bob}
  Conns = {c1, c2, c3}
  Msgs = {m1, m2}
  OneMsgs = {m1, m2}
  Home <- TwoHomes
  May <- MayAlice
  Pre <- PreBob
  Rcpt <- ToAlice
  From <- FromBob
  MaxLogins = 1
  SingleClient = TRUE
  Faults = {}
PROPERTIES DeletedWereRead
CHECK_DEADLOCK FALSE
