SPECIFICATION Spec
CONSTANTS
  Serves = {s1, s2}
  Admins = {a1}
  Requesters = {r1, r2}
  Up = Up
  Class = Class
  None = None
  SweepThreshold = 1
  Order <- Edited
  Values <- Choices
  Config <- Shipped
  Stored <- Kept
  MaxEdits = 1
  MaxFaults = 1
SYMMETRY MemberSymmetry
INVARIANTS
  ServesAreCharged
  EditsBind
PROPERTIES
  EditsOpenNoGap
