SPECIFICATION FairSpec
CONSTANTS
  a = a
  b = b
  Nodes = {a, b}
  MaxActs = 5
  MaxLost = 2
INVARIANTS
  TrustIsSound
PROPERTIES
  MeshNeverWithdraws
  Converges
CHECK_DEADLOCK FALSE
