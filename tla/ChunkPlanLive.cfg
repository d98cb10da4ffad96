SPECIFICATION FairSpec
CONSTANTS
  h1 = h1
  h2 = h2
  w1 = w1
  w2 = w2
  None = None
  Timer = Timer
  Prefetch = Prefetch
  FirstHolder = h1
  ChunkBytes <- Ramp
  Holders = {h1, h2}
  Workers = {w1}
  NumChunks = 2
  FailureLimit = 2
  Answers <- OneGood
  Covers <- Whole
PROPERTIES
  FetchEnds
  
