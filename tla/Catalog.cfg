SPECIFICATION Spec
CONSTANTS
  Nodes = {1, 2, 3}
  Friends0 = {}
  Reached0 = {1, 2, 3}
  Refusing = {1}
  Dead = {2}
  Cycle = 3
  Window = 9
  Budget = 1
  Cap = 2
  MaxMoves = 1
  x = x
  y = y
  z = z
  Keys = {k1}
  Blobs = {x, y, z}
  Recording <- MCRecording
  Quality <- MCQuality
  Lies = {x}
  Traded = {z}
  Absent = Absent
  MaxEdits = 2
  Peers = {f, m}
  Vouching = {f}
  Tight = 2
  Wide = 3
  Guard = 2
  Throttle = 1
  Kick = 1
  NoOne = NoOne
INVARIANTS
  RotationIsFair
  
  AvailabilityIsTrue

  
  
CHECK_DEADLOCK FALSE
