\* A job with more builds than the channel to the bidder holds.
SPECIFICATION Spec
CONSTANTS
    MaxBuilds = 4
    UpdateCapacity = 1
INVARIANTS
    TypeOK
    OwnOutcomeUnlessOverlapped
    EarlyEndNeedsSuperseded
PROPERTIES
    UpdatesAreSettled
    BidderStopsAfterJob
\* A job ends.
CHECK_DEADLOCK FALSE
