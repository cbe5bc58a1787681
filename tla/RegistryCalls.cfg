\* Two overlapping calls, a batch with duplicates, a validator coming and leaving.
SPECIFICATION Spec
CONSTANTS
    Keys = {"a"}
    Statuses = {"active_ongoing", "exited"}
    Batches <- MCBatches
    Calls = {1, 2}
    MaxTime = 0
    NANOS_PER_SECOND = 1000
    None = None
INVARIANTS
    TypeOK
    StoredIsAuthentic
PROPERTIES
    NewerUnlessRaced
    UpdatesReachRefresh
