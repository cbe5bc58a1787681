\* Blocks on small parents: the gas for transactions ranges from none to most of them.
SPECIFICATION Spec
CONSTANTS
    Transactions <- MCTransactions
    Senders = {"a", "b", "c"}
    ParentGasLimits <- MCParentGasLimits
    ProposerGasLimits <- MCProposerGasLimits
    Builders <- MCBuilders
    Recipients <- MCRecipients
    NoBid = NoBid
    BaseFee = 1
    BestFees <- MCBestFees
    MAX_DATA_GAS_PER_BLOCK = 3
    U64_MAX = 1000000
    U256_MAX = 8000000
INVARIANTS
    TypeOK
    LimitIsNearest
    BlockFits
    ReservationCovers
    BlockIsMaximal
    WalletPaysSubsidyOnly
    PromisedIsPaid
\* A build ends.
CHECK_DEADLOCK FALSE
