SPECIFICATION MessagesSpec
CONSTANTS
  Sessions = {s1}
  Readers = {r1}
  MaxMessages = 1
  MaxLegacy = 0
  None = None
  Vintages <- EarlierVersions
  Unbroken = {}
INVARIANTS StartsAgain
