\* One destination, two callers that fill a channel of one unit, two
\* goroutines closing the pool while they offer, and a holder closing the
\* sender as well.
SPECIFICATION FairSpec
CONSTANTS
    Addr = {a1}
    Caller = {c1, c2}
    Depth = 1
    MaxBatch = 2
    MaxOffers = 2
    Closer = {p1, p2}
CHECK_DEADLOCK FALSE
INVARIANTS NoSendOnClosedChannel EveryUnitAccounted ClosedAfterDrain EverySenderIsOwned NilMeansDrained
PROPERTIES SenderIsQueue TeardownCompletes
