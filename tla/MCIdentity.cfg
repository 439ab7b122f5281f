SPECIFICATION IdentitySpec
CONSTANTS
  Slots = 3
  MaxIds = 3
  MaxSeeds = 2
  MaxLeaks = 2
INVARIANTS
  SlotsAccounted
  IdentityKept
