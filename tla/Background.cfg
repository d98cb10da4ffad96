SPECIFICATION FairSpec
CONSTANTS
  h1 = h1
  h2 = h2
  p1 = p1
  p2 = p2
  s1 = s1
  s2 = s2
  Hashes = {h1, h2}
  Paths = {p1, p2}
  Sources = {s1, s2}
  Original <- MCOriginal
  Roots <- MCRoots
  None = None
  Albums = {a1, a2}
  Images = {i1, i2}
  Undecodable = {i2}
  Writers = {w1, w2}
  NoCover = NoCover
  MaxTries = 2
  MaxOps = 2
  MaxCrashes = 1
INVARIANTS
  FilesAreKept
  CoversAreKept
PROPERTIES
  
  AllSettles
CHECK_DEADLOCK FALSE
