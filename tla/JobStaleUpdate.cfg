\* A second payload is built before the bidder has answered.
SPECIFICATION Spec
CONSTANTS
    MaxBuilds = 2
    UpdateCapacity = 1
INVARIANTS
    BidderServesJob
\* A job ends.
CHECK_DEADLOCK FALSE
