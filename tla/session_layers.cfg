CONSTANTS
  c1 = c1
  c2 = c2
  s1 = s1
  s2 = s2
  Clients = {c1, c2}
  Services = {s1, s2}
  Peers <- LayeredPeers
  Image <- OwnImages
  Mortal = {}
  Timeouts = {}
  MaxCalls = 4
  Releasing = {}
  MaxReleases = 0
  MaxCrashes = 0
SPECIFICATION Spec
CHECK_DEADLOCK FALSE
INVARIANTS
  OwnAnswer
