CONSTANTS
  c1 = c1
  c2 = c2
  s1 = s1
  s2 = s2
  Clients = {c1, c2}
  Services = {}
  Peers <- MutualPeers
  Image <- OwnImages
  Mortal = {}
  Timeouts = {}
  MaxCalls = 2
  Releasing = {}
  MaxReleases = 0
  MaxCrashes = 0
SPECIFICATION Spec
CHECK_DEADLOCK FALSE
PROPERTIES
  EveryCallAnswered
