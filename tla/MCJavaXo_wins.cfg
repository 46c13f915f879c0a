CONSTANTS
  g = g
  gh = gh
  h = h
  Names = {g}
  BadName = BadName
  Signers = {s1, s2}
  NoSigner = NoSigner
  Addresses = {"address"}
  Address <- MCAddress
  Begins <- MCBegins
  NoEntry = NoEntry
  Dimensions = {3}
SPECIFICATION Spec
INVARIANTS
  WinsAreSeen
CHECK_DEADLOCK FALSE
