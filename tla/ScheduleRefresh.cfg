\* Failing answers and registrations at any time.
SPECIFICATION Spec
CONSTANTS
    Proposers = {"a", "b"}
    SLOTS_PER_EPOCH = 2
    MaxEpoch = 2
    MaxVersion = 2
    Duty <- MCDuty
INVARIANTS
    ScheduleIsSound
    RefreshIsComplete
    NoOlderThanDuties
\* The clock stops at the last slot.
CHECK_DEADLOCK FALSE
