SPECIFICATION MessagesSpec
CONSTANTS
  Sessions = {s1, s2}
  Readers = {r1, r2}
  MaxMessages = 5
  MaxLegacy = 3
  None = None
  Vintages <- EarlierVersions
  Unbroken = {"003_thread"}
SYMMETRY Symmetry
INVARIANTS MessagesTypeOK StartsAgain SchemaComplete
PROPERTIES ImplementsLane
