SPECIFICATION FairSpec
CONSTANTS
  f1 = f1
  f2 = f2
  r1 = r1
  r2 = r2
  q1 = q1
  None = None
  NoManifest = NoManifest
  Size = 2
  Advertised = 2
  Manifests <- HonestManifest
  Offers <- HonestOffer
  Fetches = {f1}
  Readers = {r1, r2}
  Peers = {}
  Events = {"abandon", "disk"}
INVARIANTS
  RelaysAreExact
PROPERTIES
  AllEnd
