\* A payload arrives after its epoch is over.
SPECIFICATION Spec
CONSTANTS
    Relays = {1, 2}
    MaxSlot = 2
    SLOTS_PER_EPOCH = 1
    Proposers <- MCProposers
    Entries <- MCEntries
    Attributes <- MCAttributes
    ClockCapacity = 2
    BidCapacity = 1
    EventCapacity = 1
INVARIANTS
    HasAuction
\* The clock stops at MaxSlot, and a panic ends the task.
CHECK_DEADLOCK FALSE
