SPECIFICATION FairSpec
CONSTANTS
  t1 = t1  t2 = t2  t3 = t3  v1 = v1  v2 = v2
  Threads <- MCThreads
  Values <- MCValues
  NotOk = NotOk
  Nobody = Nobody
  MaxItems = 2
INVARIANTS QueueInv NoLostWakeup NobodySleepsOnClosed
PROPERTIES ImplementsFifo SleeperServed ClosedPullReturns
CHECK_DEADLOCK FALSE
