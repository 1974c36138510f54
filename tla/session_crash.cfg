CONSTANTS
  c1 = c1
  c2 = c2
  s1 = s1
  s2 = s2
  Clients = {c1, c2}
  Services = {s1}
  Peers <- StarPeers
  Image <- SharedImage
  Mortal = {c1, s1}
  Timeouts = {c1, c2}
  MaxCalls = 3
  Releasing = {}
  MaxReleases = 0
  MaxCrashes = 2
SPECIFICATION Spec
CHECK_DEADLOCK FALSE
INVARIANTS
  OwnAnswer
  RunsOnce
