\* Two relays that disagree about a proposal, and payloads at the end of its epoch.
SPECIFICATION Spec
CONSTANTS
    Relays = {r1, r2}
    MaxSlot = 2
    SLOTS_PER_EPOCH = 1
    Proposers <- MCProposers
    Entries <- MCEntries
    Attributes <- MCAttributes
    ClockCapacity = 2
    BidCapacity = 1
    EventCapacity = 1
SYMMETRY RelaySymmetry
INVARIANTS
    TypeOK
    NoAuctionOnAuction
    OnlyLatePayloadsPanic
    SubmissionsAreWanted
    ProposalsAreAuctioned
\* The clock stops at MaxSlot, and a panic ends the task.
CHECK_DEADLOCK FALSE
