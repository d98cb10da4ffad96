SPECIFICATION Spec
CONSTANTS
  f1 = f1
  f2 = f2
  r1 = r1
  r2 = r2
  q1 = q1
  None = None
  NoManifest = NoManifest
  Size = 2
  Advertised = 0
  Manifests <- RightOrLying
  Offers <- OneHonest
  Fetches = {f1, f2}
  Readers = {r1, r2}
  Peers = {}
  Events = {"evict", "crash"}
SYMMETRY RelaySymmetry
INVARIANTS
  CacheIsSound
  NoHolesRelayed
