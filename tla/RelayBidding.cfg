\* Overlapping submissions, some of them flawed, and fetches, while the proposer registers again.
SPECIFICATION Spec
CONSTANTS
    MaxSlot = 0
    Slots = {0}
    SLOTS_PER_EPOCH = 2
    Hashes = {"g", "h", "x", "y", "z"}
    Proposers = {"p"}
    AcceptedBuilders = {"b1", "b2"}
    FeeRecipients = {"f1", "f2"}
    Submissions <- BidSubmissions
    Announcements <- TwoParents
    Blocks = {}
    SubmitTasks = {1, 2}
    FetchTasks = {1}
    OpenTasks = {}
    MaxReceipts = 3
    None = None
INVARIANTS
    TypeOK
    BestNotInOthers
    BestBidUnlessRaced
    StoredBidsAreValid
PROPERTIES
    SubmissionsStayListed
\* Clients may stop sending.
CHECK_DEADLOCK FALSE
