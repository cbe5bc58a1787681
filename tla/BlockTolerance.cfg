\* A block on a parent of the usual size, for a proposer that wants the same limit.
SPECIFICATION Spec
CONSTANTS
    Transactions <- MCTransactions
    Senders = {"a", "b", "c"}
    ParentGasLimits <- MCUsualGasLimits
    ProposerGasLimits <- MCUsualGasLimits
    Builders <- MCBuilders
    Recipients <- MCRecipients
    NoBid = NoBid
    BaseFee = 1
    BestFees <- MCBestFees
    MAX_DATA_GAS_PER_BLOCK = 3
    U64_MAX = 100000000
    U256_MAX = 2000000000
INVARIANTS
    FinalWithinTolerance
\* A build ends.
CHECK_DEADLOCK FALSE
