SPECIFICATION FairSpec
CONSTANTS
  Names = {a, b}
  Requests = {r}
  MaxTime = 2
INVARIANTS TableInv KnownShownTruly
PROPERTIES NeverBack EverybodySeen
