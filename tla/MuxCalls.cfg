\* Ties, worthless and forged bids; the clock forgets auctions while blocks are opened.
SPECIFICATION Spec
CONSTANTS
    Relays = {r1, r2}
    MaxSlot = 3
    Requests = {0}
    Bids <- MCBids
    Blocks <- MCBlocks
    Contents <- MCContents
    FetchTasks = {1}
    OpenTasks = {1}
    None = None
INVARIANTS
    TypeOK
    OpenableForLifetime
    PayloadMatchesBlock
PROPERTIES
    AsksRelaysWithTheBid
    BestBidServed
    SignedBidsAreGathered
SYMMETRY RelaySymmetry
\* The clock stops at MaxSlot.
CHECK_DEADLOCK FALSE
