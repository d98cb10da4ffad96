SPECIFICATION FairSpec
CONSTANTS
  a = a
  b = b
  c = c
  d = d
  Self = a
  Others <- MCOthers
  KeyOrder <- MCKeys
  Lists <- MCLists
  Marked <- MCMarked
  Start <- MCStart
  MaxOrigins = 3
  MaxBeats = 0
  MaxActs = 1
  Fading <- MCFading
  MaxReply = 1
INVARIANTS
  PerimeterIsSound
PROPERTIES
  RetentionSparesFriends
  GossipSettles
