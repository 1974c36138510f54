CONSTANTS
  c1 = c1
  c2 = c2
  s1 = s1
  s2 = s2
  Clients = {c1, c2}
  Services = {s1, s2}
  Peers <- NestedPeers
  Image <- OwnImages
  Mortal = {}
  Timeouts = {}
  MaxCalls = 3
  Releasing = {c1, s1}
  MaxReleases = 1
  MaxCrashes = 0
SPECIFICATION Spec
CHECK_DEADLOCK FALSE
INVARIANTS
  TypeOK
  SerialAgreement
PROPERTIES
  ImplementsRemoteCall
