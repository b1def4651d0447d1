SPECIFICATION FairSpec
CONSTANTS
  MaxAsks = 3
  MaxNews = 2
  News = {"data", "storeCookie", "resourcePack"}
INVARIANTS JoinInv FramingAgrees JoinedTogether
PROPERTY JoinEnds
CHECK_DEADLOCK FALSE
