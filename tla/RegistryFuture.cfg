\* A registration that is far ahead of the wall clock.
SPECIFICATION Spec
CONSTANTS
    Keys = {"a", "b"}
    Statuses = {"active_ongoing", "exited"}
    Batches <- MCEarly
    Calls = {1}
    MaxTime = 1
    NANOS_PER_SECOND = 1000
    None = None
INVARIANTS
    NotFromFuture
