SPECIFICATION FairSpec
CHECK_DEADLOCK FALSE
INVARIANT TypeOK
INVARIANT NilMeansDelivered
INVARIANT ClosedAfterSenders
PROPERTY CopyReturns
PROPERTY NoGoroutineLeft
