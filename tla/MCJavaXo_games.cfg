CONSTANTS
  g = g
  gh = gh
  h = h
  Names = {g, gh, h}
  BadName = BadName
  Signers = {s1, s2}
  NoSigner = NoSigner
  Addresses = {"address"}
  Address <- MCAddress
  Begins <- MCBegins
  NoEntry = NoEntry
  Dimensions <- MCDimensions
SPECIFICATION Spec
SYMMETRY Symmetry
INVARIANTS
  TurnsFollowMarks
PROPERTIES
  PlayIsKept
CHECK_DEADLOCK FALSE
