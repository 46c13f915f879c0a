CONSTANTS
  g1 = g1
  g2 = g2
  a1 = a1
  Names = {g1, g2}
  BadName = BadName
  Signers = {s1, s2}
  NoSigner = NoSigner
  Addresses = {a1}
  Address <- OneAddress
  NoEntry = NoEntry
  MaxMarks = 9
SPECIFICATION Spec
SYMMETRY Symmetry
CONSTRAINT Bounded
INVARIANTS
  NeverFailsInternally
  EntriesAreReadable
  StateFollowsBoard
  RefusesOnlyFouls
PROPERTIES
  KeepsRules
