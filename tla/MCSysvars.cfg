SPECIFICATION Spec
CONSTANTS
  hash0 = hash0  hash1 = hash1
  MaxEntries = 3
  SlotsPerEpoch = 4
  DefaultHash = hash0
  UserHash = hash1
  UserLists <- MCUserLists
  Targets <- MCTargets
INVARIANTS
  HashesAreAWindow
  HashesSorted
PROPERTIES
  ForwardWarpFills
  ShortWarpKeepsHashes
