SPECIFICATION HomeSpec
CONSTANTS
  h1 = h1
  h2 = h2
  h3 = h3
  Hashes <- MCHashes
  Keys = {"album", "nameless"}
  Nameless = "nameless"
  Audio <- MCAudio
  Quality <- MCQuality
  RecMax = 4
  FileMax = 3
  TagMax = 4
  UploadHashes = {h1, h3}
  AutoApprove = TRUE
  MaxOps = 4
  BatchMax = 2
  Blobs = {b1, b2}
  NoRow = NoRow
  Keepers = {k1, k2}
  Ceiling = 1
  MaxAge = 1
  MaxTick = 2
  MaxAsks = 2
  t1 = t1
  x1 = x1
  Users = {u1, u2}
  Tracks = {t1}
  Remotes = {x1}
  Becomes <- MCBecomes
  Clients = {c1, c2}
  Batches <- MCBatches
  MaxRequests = 3
  MaxStarts = 1

  
PROPERTIES
  OnlyPurgeDestroys
  
  CurationKeepsPlaying
  CacheIsTrue
  PlaylistsAreKept
SYMMETRY MCSymmetry
CHECK_DEADLOCK FALSE
