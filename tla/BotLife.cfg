SPECIFICATION FairLifeSpec
CONSTANTS
  FullSample = TRUE
  HasPort = TRUE
  MaxGrants = 2
  MaxCrashes = 1
INVARIANTS SessionInv KicksOnlyLateJoiner CacheInv HumanOnlyAfterMishap SavedLoginUsable
PROPERTIES CallEnds RecoversAlone
