SPECIFICATION FairSpec
CONSTANTS
  r1 = r1
  r2 = r2
  f1 = f1
  f2 = f2
  None = None
  Rooms <- MCRooms
  Feed <- MCFeed
  Fetches <- MCFetches
  MaxFailures = 1
INVARIANT RoomAsSelected
PROPERTIES ForwardInTime StaysCurrent
