\* One block after the other, with room for the bound and with less.
CONSTANTS
  Calls <- MCCalls
  Rooms <- MCRooms
  Hash <- MCHash
  HashValues <- MCHashValues
  MaxDistance <- MCMaxDistance
  MaxInput <- MCMaxInput
SPECIFICATION FairSpec
INVARIANTS
  TypeOK
  BlockInv
  BordersWalked
  BlockRoundTrip
  WritesInside
  ParsingRestrictions
PROPERTY
  CallsReturn
