\* Two calls of open_bid while bids arrive and clean-ups run.
SPECIFICATION Spec
CONSTANTS
    MaxSlot = 5
    Slots = {0, 1, 2, 3, 4, 5}
    SLOTS_PER_EPOCH = 1
    Hashes = {"g", "x", "y"}
    Proposers = {"p"}
    AcceptedBuilders = {"b1", "b2"}
    FeeRecipients = {"f1"}
    Submissions <- OpenSubmissions
    Announcements <- OneAuction
    Blocks <- OpenBlocks
    SubmitTasks = {1}
    FetchTasks = {}
    OpenTasks = {o1, o2}
    MaxReceipts = 2
    None = None
SYMMETRY OpenSymmetry
INVARIANTS
    LiveAuctionKeepsBid
    ReleasedWasPublished
    OneReleasePerProposal
    ReleasedIsRecorded
PROPERTIES
    DeliversPayloads
\* The clock stops at MaxSlot and clients may stop sending.
CHECK_DEADLOCK FALSE
