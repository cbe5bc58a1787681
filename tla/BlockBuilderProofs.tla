------------------------- MODULE BlockBuilderProofs -------------------------
(* Proofs about BlockBuilder, for all pools, gas limits and fees. *)
EXTENDS BlockBuilder, TLAPS

(***************************************************************************)
(* compute_preferred_gas_limit.                                            *)
(***************************************************************************)

\* The tolerance of a parent with at least GAS_BOUND_DIVISOR gas is not empty.
LEMMA BoundFacts ==
    ASSUME NEW parent \in Nat, parent >= GAS_BOUND_DIVISOR
    PROVE  Bound(parent) \in Nat /\ Bound(parent) >= 1 /\ Bound(parent) <= parent
BY DEF Bound, GAS_BOUND_DIVISOR

\* compute_preferred_gas_limit returns a gas limit that verify_limits accepts.
LEMMA LimitIsVerified ==
    ASSUME NEW preferred \in Nat, NEW parent \in Nat, parent >= GAS_BOUND_DIVISOR
    PROVE  /\ ComputePreferredGasLimit(preferred, parent) \in Nat
           /\ VerifyLimits(ComputePreferredGasLimit(preferred, parent), parent)
BY BoundFacts DEF ComputePreferredGasLimit, VerifyLimits

\* No gas limit that verify_limits accepts is closer to the proposer's.
LEMMA LimitIsClosest ==
    ASSUME NEW preferred \in Nat, NEW parent \in Nat, parent >= GAS_BOUND_DIVISOR,
           NEW g \in Nat, VerifyLimits(g, parent)
    PROVE  Distance(ComputePreferredGasLimit(preferred, parent), preferred)
                <= Distance(g, preferred)
BY BoundFacts DEF ComputePreferredGasLimit, VerifyLimits, Distance

\* The gas limit of the environment and that of the block's header are natural numbers.
LEMMA EnvIsNat ==
    ASSUME TypeOK
    PROVE  CfgAndBlockEnv \in Nat /\ AsU64(CfgAndBlockEnv) \in Nat
<1>1. ComputePreferredGasLimit(proposer_gas_limit, parent_gas_limit) \in Nat
    BY LimitIsVerified, LimitAssumption DEF TypeOK
<1>2. CfgAndBlockEnv \in Nat
    <2>1. CASE proposal
        BY <1>1, <2>1, WidthAssumption
        DEF CfgAndBlockEnv, ReserveForPayment, WrappingSub, PAYMENT_TO_CONTRACT_GAS_LIMIT
    <2>2. CASE ~proposal
        BY <2>2, LimitAssumption DEF CfgAndBlockEnv, TypeOK
    <2> QED
        BY <2>1, <2>2
<1> QED
    BY <1>2, WidthAssumption DEF AsU64

\* U256 sums are natural numbers and never exceed the sum.
LEMMA SumFacts ==
    ASSUME NEW a \in Nat, NEW b \in Nat
    PROVE  WrappingAdd(a, b) \in Nat /\ WrappingAdd(a, b) <= a + b
BY WidthAssumption DEF WrappingAdd

----------------------------------------------------------------------------
(***************************************************************************)
(* compute_value: no bid exceeds the revenue and the subsidy.              *)
(***************************************************************************)

\* The percentage of the strategy is at most 100.
LEMMA PercentFacts ==
    ASSUME NEW fraction \in Int
    PROVE  BidPercent(fraction) \in 0..100
BY DEF BidPercent

\* The wrapped product is not above the product, and a hundredth of it not above the revenue.
LEMMA ShareIsBounded ==
    ASSUME NEW revenue \in Nat, NEW percent \in 0..100
    PROVE  LET share == ((revenue * percent) % (U256_MAX + 1)) \div 100 IN
           share \in Nat /\ share <= revenue
<1> DEFINE product == revenue * percent
<1>1. product \in Nat /\ product <= revenue * 100
    BY SMTT(30)
<1>2. product % (U256_MAX + 1) \in Nat /\ product % (U256_MAX + 1) <= product
    <2> HIDE DEF product
    <2> QED
        BY <1>1, WidthAssumption
<1> DEFINE wrapped == product % (U256_MAX + 1)
<1> HIDE DEF wrapped
<1>3. wrapped \in Nat /\ wrapped <= revenue * 100
    BY <1>1, <1>2 DEF wrapped
<1>4. wrapped \div 100 \in Nat /\ wrapped \div 100 <= revenue
    BY <1>3
<1> QED
    BY <1>4 DEF wrapped

LEMMA ValueIsBounded ==
    ASSUME NEW b \in Builders, NEW revenue \in Nat
    PROVE  ComputeValue(b, revenue) \in Nat /\ ComputeValue(b, revenue) <= revenue + b.subsidy_wei
<1> DEFINE percent == BidPercent(b.bid_fraction)
           share == ((revenue * percent) % (U256_MAX + 1)) \div 100
<1>1. percent \in 0..100
    BY PercentFacts, PaymentAssumption
<1>2. share \in Nat /\ share <= revenue
    BY <1>1, ShareIsBounded
<1>3. b.subsidy_wei \in Nat
    BY PaymentAssumption
<1>4. ComputeValue(b, revenue) = WrappingAdd(share, b.subsidy_wei)
    BY DEF ComputeValue
<1>5. WrappingAdd(share, b.subsidy_wei) \in Nat
      /\ WrappingAdd(share, b.subsidy_wei) <= share + b.subsidy_wei
    BY <1>2, <1>3, SumFacts
<1> HIDE DEF share
<1> QED
    BY <1>2, <1>3, <1>4, <1>5

----------------------------------------------------------------------------
(***************************************************************************)
(* Type correctness.                                                       *)
(***************************************************************************)

LEMMA InitTypeOK == Init => TypeOK
<1> SUFFICES ASSUME Init PROVE TypeOK
    OBVIOUS
<1>1. nonces \in [Senders -> Nat]
    BY DEF Init
<1>2. header \in [gas_limit : Nat, gas_used : Nat]
    BY DEF Init
<1>3. skip_blobs \in BOOLEAN
    BY DEF Init
<1> QED
    BY <1>1, <1>2, <1>3 DEF Init, TypeOK, Ended

LEMMA NextTypeOK == TypeOK /\ [Next]_vars => TypeOK'
<1> SUFFICES ASSUME TypeOK, [Next]_vars PROVE TypeOK'
    OBVIOUS
<1> USE DEF TypeOK, Ended, inputs, build, auction
<1>1. CASE TryBuild
    BY <1>1, EnvIsNat DEF TryBuild
<1>2. ASSUME NEW t \in Transactions, Consider(t) PROVE TypeOK'
    <2>1. CASE SkipsBlob(t)
        BY <2>1 DEF SkipsBlob, MarkInvalid
    <2>2. CASE DoesNotFit(t)
        BY <2>2 DEF DoesNotFit, MarkInvalid
    <2>3. CASE Cancelled(t)
        BY <2>3 DEF Cancelled
    <2>4. CASE NonceTooLow(t)
        BY <2>4 DEF NonceTooLow
    <2>5. CASE InvalidTransaction(t)
        BY <2>5 DEF InvalidTransaction, MarkInvalid
    <2>6. CASE Execute(t)
        <3>1. /\ t.sender \in Senders /\ t.nonce \in Nat /\ t.gas_used \in Nat
              /\ t.blob_gas \in Nat /\ t.fee \in Nat
            BY PoolAssumption
        <3>2. nonces' \in [Senders -> Nat] /\ skip_blobs' \in BOOLEAN
            BY <2>6, <3>1 DEF Execute
        <3>3. total_fees' \in Nat
            BY <2>6, <3>1, SumFacts DEF Execute
        <3>4. ASSUME NEW u \in executed_txs' PROVE u.nonce < nonces'[u.sender]
            <4>1. u \in Transactions /\ u.sender \in Senders /\ u.nonce \in Nat
                BY <2>6, <3>4, PoolAssumption DEF Execute
            <4>2. u = t \/ u.nonce < nonces[u.sender]
                BY <2>6, <3>4 DEF Execute
            <4>3. /\ nonces'[u.sender] = IF u.sender = t.sender THEN t.nonce + 1 ELSE nonces[u.sender]
                  /\ nonces[u.sender] \in Nat /\ t.nonce = nonces[t.sender]
                BY <2>6, <4>1 DEF Execute
            <4> QED
                BY <3>1, <4>1, <4>2, <4>3
        <3> QED
            BY <2>6, <3>1, <3>2, <3>3, <3>4 DEF Execute
    <2> QED
        BY <1>2, <2>1, <2>2, <2>3, <2>4, <2>5, <2>6 DEF Consider
<1>3. CASE BuildFails
    BY <1>3 DEF BuildFails
<1>4. CASE Seal
    BY <1>4 DEF Seal
<1>5. ASSUME NEW used \in Nat, NEW result \in {"success", "reverted"}, AppendPayment(used, result)
      PROVE  TypeOK'
    <2>1. (header.gas_limit + used) % (U64_MAX + 1) \in Nat /\ header.gas_used + used \in Nat
        BY WidthAssumption
    <2> QED
        BY <1>5, <2>1 DEF AppendPayment
<1>6. CASE BuildEmptyPayload
    BY <1>6, EnvIsNat DEF BuildEmptyPayload
<1>7. ASSUME NEW b \in Builders, NEW r \in Recipients, Bid(b, r) PROVE TypeOK'
    BY <1>7, ValueIsBounded DEF Bid
<1>8. CASE PaymentRefused
    BY <1>8 DEF PaymentRefused
<1>9. CASE FinalizePayload
    BY <1>5, <1>9, PaymentAssumption
    DEF FinalizePayload, PaymentGasLimit, BASE_TX_GAS_LIMIT, PAYMENT_TO_CONTRACT_GAS_LIMIT
<1>10. CASE FinalizeFails
    BY <1>10 DEF FinalizeFails
<1>11. CASE UNCHANGED vars
    BY <1>11 DEF vars
<1> QED
    BY <1>1, <1>2, <1>3, <1>4, <1>6, <1>7, <1>8, <1>9, <1>10, <1>11 DEF Next

\* The variables of a build keep their types: no gas sum and no gas limit becomes negative,
\* and no executed transaction is left in the iterator of the pool.
THEOREM TypeCorrect == Spec => []TypeOK
BY InitTypeOK, NextTypeOK, PTL DEF Spec

----------------------------------------------------------------------------
(***************************************************************************)
(* The gas limit.                                                          *)
(***************************************************************************)

\* compute_preferred_gas_limit returns the allowed gas limit closest to the proposer's.
THEOREM NearestLimit == Spec => []LimitIsNearest
<1>1. TypeOK => LimitIsNearest
    <2> SUFFICES ASSUME TypeOK PROVE LimitIsNearest
        OBVIOUS
    <2>1. /\ parent_gas_limit \in Nat /\ parent_gas_limit >= GAS_BOUND_DIVISOR
          /\ proposer_gas_limit \in Nat
        BY LimitAssumption DEF TypeOK
    <2>2. \A g \in ParentGasLimits \cup ProposerGasLimits : g \in Nat
        BY LimitAssumption
    <2> QED
        BY <2>1, <2>2, LimitIsVerified, LimitIsClosest DEF LimitIsNearest
<1> QED
    BY <1>1, TypeCorrect, PTL

----------------------------------------------------------------------------
(***************************************************************************)
(* The block fits, and the payment is covered by what was reserved for it. *)
(* Inductive: the header of a block that was built has the gas limit of    *)
(* the environment.                                                        *)
(***************************************************************************)
HeaderIsReserved ==
    /\ stage = "start" => cumulative_gas_used = 0
    /\ stage # "start" => block_gas_limit = AsU64(CfgAndBlockEnv)
    /\ stage \in {"building", "built", "bid"} => proposal
    /\ stage \in {"built", "bid"} => header.gas_limit = block_gas_limit

GasInv == TypeOK /\ BlockFits /\ HeaderIsReserved /\ ReservationCovers

LEMMA InitGasInv == Init => GasInv
BY InitTypeOK, WidthAssumption DEF Init, GasInv, BlockFits, HeaderIsReserved, ReservationCovers

\* A sum that exceeds the largest value by less than a whole turn.
LEMMA WrapsOnce ==
    ASSUME NEW m \in Nat, NEW d \in Nat, d >= 1, d - 1 <= m
    PROVE  (m + d) % (m + 1) = d - 1
OBVIOUS

\* A step that finalizes the block: what is added for the payment was reserved.
LEMMA PaymentIsReserved ==
    ASSUME GasInv, NEW used \in Nat, used >= 1, used <= PAYMENT_TO_CONTRACT_GAS_LIMIT,
           NEW result, AppendPayment(used, result)
    PROVE  BlockFits' /\ HeaderIsReserved' /\ ReservationCovers'
<1> DEFINE limit == ComputePreferredGasLimit(proposer_gas_limit, parent_gas_limit)
<1>1. limit \in Nat
    BY LimitIsVerified, LimitAssumption DEF GasInv, TypeOK
<1>2. /\ header.gas_limit = AsU64(ReserveForPayment(limit))
      /\ header.gas_limit \in Nat /\ header.gas_used \in Nat
    BY DEF GasInv, TypeOK, HeaderIsReserved, AppendPayment, CfgAndBlockEnv
<1>3. /\ UNCHANGED <<parent_gas_limit, proposer_gas_limit, proposal, block_gas_limit, cumulative_gas_used,
                     sum_blob_gas_used>>
      /\ stage' \in {"finalized", "abandoned"}
    BY DEF AppendPayment, inputs, build
<1>4. HeaderIsReserved' /\ (cumulative_gas_used <= block_gas_limit)'
      /\ (sum_blob_gas_used <= MAX_DATA_GAS_PER_BLOCK)'
    BY <1>3 DEF GasInv, HeaderIsReserved, BlockFits, CfgAndBlockEnv, AppendPayment
<1>5. CASE stage' = "abandoned"
    BY <1>4, <1>5 DEF GasInv, BlockFits, ReservationCovers, AppendPayment
<1>6. CASE stage' = "finalized"
    <2>1. /\ header' = [gas_limit |-> (header.gas_limit + used) % (U64_MAX + 1),
                        gas_used |-> header.gas_used + used]
          /\ header'.gas_used <= header'.gas_limit
        BY <1>6 DEF AppendPayment
    <2>2. header'.gas_limit <= limit
        <3>1. CASE limit >= PAYMENT_TO_CONTRACT_GAS_LIMIT
            <4>1. header.gas_limit + used <= limit /\ header.gas_limit + used \in Nat
                BY <1>1, <1>2, <3>1, WidthAssumption
                DEF ReserveForPayment, WrappingSub, AsU64, PAYMENT_TO_CONTRACT_GAS_LIMIT
            <4>2. (header.gas_limit + used) % (U64_MAX + 1) <= header.gas_limit + used
                BY <4>1, WidthAssumption
            <4>3. (header.gas_limit + used) % (U64_MAX + 1) \in Nat
                BY <4>1, WidthAssumption
            <4> QED
                BY <1>1, <2>1, <4>1, <4>2, <4>3
        <3>2. CASE ~(limit >= PAYMENT_TO_CONTRACT_GAS_LIMIT)
            <4>1. header.gas_limit = U64_MAX
                BY <1>1, <1>2, <3>2, WidthAssumption
                DEF ReserveForPayment, WrappingSub, AsU64, PAYMENT_TO_CONTRACT_GAS_LIMIT
            <4>2. used \in Nat /\ used >= 1 /\ used - 1 <= U64_MAX
                BY WidthAssumption DEF PAYMENT_TO_CONTRACT_GAS_LIMIT
            <4>3. (U64_MAX + used) % (U64_MAX + 1) = used - 1
                BY <4>2, WrapsOnce, WidthAssumption
            <4> QED
                BY <1>2, <2>1, <4>1, <4>2, <4>3
        <3> QED
            BY <3>1, <3>2
    <2> QED
        BY <1>3, <1>4, <2>1, <2>2 DEF BlockFits, ReservationCovers
<1> QED
    BY <1>3, <1>5, <1>6

LEMMA NextGasInv == GasInv /\ [Next]_vars => GasInv'
<1> SUFFICES ASSUME GasInv, [Next]_vars PROVE GasInv'
    OBVIOUS
<1>0. TypeOK'
    BY NextTypeOK DEF GasInv
<1> SUFFICES BlockFits' /\ HeaderIsReserved' /\ ReservationCovers'
    BY <1>0 DEF GasInv
<1> USE DEF BlockFits, HeaderIsReserved, ReservationCovers, inputs, build
<1>e. AsU64(CfgAndBlockEnv) \in Nat
    BY EnvIsNat DEF GasInv
<1>1. CASE TryBuild
    BY <1>e, <1>1 DEF TryBuild, CfgAndBlockEnv, GasInv, TypeOK
<1>2. ASSUME NEW t \in Transactions, Consider(t)
      PROVE  BlockFits' /\ HeaderIsReserved' /\ ReservationCovers'
    <2>1. CASE SkipsBlob(t)
        BY <2>1 DEF SkipsBlob, CfgAndBlockEnv, GasInv, TypeOK
    <2>2. CASE DoesNotFit(t)
        BY <2>2 DEF DoesNotFit, CfgAndBlockEnv, GasInv, TypeOK
    <2>3. CASE Cancelled(t)
        BY <2>3 DEF Cancelled, IsNext, CfgAndBlockEnv, GasInv, TypeOK
    <2>4. CASE NonceTooLow(t)
        BY <2>4 DEF NonceTooLow, CfgAndBlockEnv, GasInv, TypeOK
    <2>5. CASE InvalidTransaction(t)
        BY <2>5 DEF InvalidTransaction, CfgAndBlockEnv, GasInv, TypeOK
    <2>6. CASE Execute(t)
        <3>1. /\ t.gas_limit \in Nat /\ t.gas_used \in Nat /\ t.gas_used <= t.gas_limit
              /\ t.blob_gas \in Nat
            BY PoolAssumption
        <3>2. cumulative_gas_used' <= block_gas_limit'
            BY <2>6, <3>1 DEF Execute, Attempts, HasCapacity, GasInv, TypeOK
        <3>3. sum_blob_gas_used' <= MAX_DATA_GAS_PER_BLOCK
            BY <2>6, <3>1 DEF Execute, Attempts, HasBlobSpace, GasInv, TypeOK
        <3> QED
            BY <2>6, <3>2, <3>3 DEF Execute, Attempts, IsNext, CfgAndBlockEnv, GasInv, TypeOK
    <2> QED
        BY <1>2, <2>1, <2>2, <2>3, <2>4, <2>5, <2>6 DEF Consider
<1>3. CASE BuildFails
    BY <1>3 DEF BuildFails, CfgAndBlockEnv, GasInv, TypeOK
<1>4. CASE Seal
    BY <1>4 DEF Seal, CfgAndBlockEnv, GasInv, TypeOK
<1>5. CASE BuildEmptyPayload
    BY <1>e, <1>5 DEF BuildEmptyPayload, CfgAndBlockEnv, GasInv, TypeOK
<1>6. ASSUME NEW b \in Builders, NEW r \in Recipients, Bid(b, r)
      PROVE  BlockFits' /\ HeaderIsReserved' /\ ReservationCovers'
    BY <1>6 DEF Bid, CfgAndBlockEnv, GasInv, TypeOK
<1>7. CASE PaymentRefused
    BY <1>7 DEF PaymentRefused, CfgAndBlockEnv, GasInv, TypeOK
<1>8. CASE FinalizePayload
    <2>1. /\ PaymentGasLimit \in Nat /\ PaymentGasLimit >= 1
          /\ PaymentGasLimit <= PAYMENT_TO_CONTRACT_GAS_LIMIT
        BY DEF PaymentGasLimit, BASE_TX_GAS_LIMIT, PAYMENT_TO_CONTRACT_GAS_LIMIT
    <2>2. recipient.gas \in Nat /\ recipient.gas >= 1
        BY <1>8, PaymentAssumption DEF FinalizePayload, GasInv, TypeOK, BASE_TX_GAS_LIMIT
    <2>3. CASE recipient.gas <= PaymentGasLimit
        <3>1. recipient.gas <= PAYMENT_TO_CONTRACT_GAS_LIMIT
            BY <2>1, <2>2, <2>3 DEF PAYMENT_TO_CONTRACT_GAS_LIMIT
        <3>2. AppendPayment(recipient.gas, IF recipient.reverts THEN "reverted" ELSE "success")
            BY <1>8, <2>3 DEF FinalizePayload
        <3> QED
            BY <2>2, <3>1, <3>2, PaymentIsReserved
    <2>4. CASE ~(recipient.gas <= PaymentGasLimit)
        <3>1. AppendPayment(PaymentGasLimit, "reverted")
            BY <1>8, <2>4 DEF FinalizePayload
        <3> QED
            BY <2>1, <3>1, PaymentIsReserved
    <2> QED
        BY <2>3, <2>4
<1>9. CASE FinalizeFails
    BY <1>9 DEF FinalizeFails, CfgAndBlockEnv, GasInv, TypeOK
<1>10. CASE UNCHANGED vars
    BY <1>10 DEF vars, CfgAndBlockEnv, GasInv, TypeOK
<1> QED
    BY <1>1, <1>2, <1>3, <1>4, <1>5, <1>6, <1>7, <1>8, <1>9, <1>10 DEF Next

\* A block never uses more gas or blob space than it has, while it is built and after the
\* payment was appended.
THEOREM BlocksFit == Spec => []BlockFits
<1>1. GasInv => BlockFits
    BY DEF GasInv
<1> QED
    BY <1>1, InitGasInv, NextGasInv, PTL DEF Spec

\* The payment of the proposer never lifts the gas limit above the one computed for it.
THEOREM PaymentIsCovered == Spec => []ReservationCovers
<1>1. GasInv => ReservationCovers
    BY DEF GasInv
<1> QED
    BY <1>1, InitGasInv, NextGasInv, PTL DEF Spec

----------------------------------------------------------------------------
(***************************************************************************)
(* The bid and its payment.  Inductive: a refused payment was refused by   *)
(* one of the two checks, and the values they read do not change after.    *)
(***************************************************************************)
Bidding == {"bid", "finalized", "abandoned"}

RefusedForReason == payment = "refused" => ~HasBlockGas \/ ~HasFunds

BidInv ==
    /\ TypeOK
    /\ stage \in Bidding =>
        /\ builder \in Builders
        /\ recipient \in Recipients
        /\ proposal
        /\ bid <= total_fees + builder.subsidy_wei
    /\ stage \notin {"finalized", "abandoned"} => payment = "none"
    /\ stage \in {"building", "built"} => proposal
    /\ RefusedForReason
    /\ PromisedIsPaid

LEMMA InitBidInv == Init => BidInv
BY InitTypeOK DEF Init, BidInv, Bidding, RefusedForReason, PromisedIsPaid

LEMMA NextBidInv == BidInv /\ [Next]_vars => BidInv'
<1> SUFFICES ASSUME BidInv, [Next]_vars PROVE BidInv'
    OBVIOUS
<1>0. TypeOK'
    BY NextTypeOK DEF BidInv
<1> USE <1>0 DEF BidInv, Bidding, RefusedForReason, PromisedIsPaid, inputs, build, auction
<1>1. CASE TryBuild \/ BuildEmptyPayload
    BY <1>1 DEF TryBuild, BuildEmptyPayload
<1>2. ASSUME NEW t \in Transactions, Consider(t) PROVE BidInv'
    BY <1>2 DEF Consider, SkipsBlob, DoesNotFit, Cancelled, NonceTooLow, InvalidTransaction, Execute,
                Attempts, IsNext
<1>3. CASE BuildFails \/ Seal
    BY <1>3 DEF BuildFails, Seal
<1>4. ASSUME NEW b \in Builders, NEW r \in Recipients, Bid(b, r) PROVE BidInv'
    <2>1. bid' <= total_fees + b.subsidy_wei
        BY <1>4, ValueIsBounded DEF Bid, TypeOK
    <2> QED
        BY <1>4, <2>1 DEF Bid
<1>5. CASE PaymentRefused
    <2>1. (~HasBlockGas \/ ~HasFunds)'
        BY <1>5 DEF PaymentRefused, HasBlockGas, HasFunds, PaymentGasLimit, SignerBalance,
                    CfgAndBlockEnv
    <2> QED
        BY <1>5, <2>1 DEF PaymentRefused
<1>6. CASE FinalizePayload
    <2>1. /\ UNCHANGED <<builder, recipient, bid, proposal, total_fees>>
          /\ stage' \in {"finalized", "abandoned"}
          /\ payment' \in {"success", "reverted"}
        BY <1>6 DEF FinalizePayload, AppendPayment
    <2>2. payment' = "reverted" => recipient.reverts \/ ~(recipient.gas <= PaymentGasLimit)
        BY <1>6 DEF FinalizePayload, AppendPayment
    <2>3. recipient \in Recipients /\ stage = "bid"
        BY <1>6 DEF FinalizePayload
    <2>4. payment' = "reverted" =>
            recipient.code /\ (recipient.reverts \/ recipient.gas > PAYMENT_TO_CONTRACT_GAS_LIMIT)
        BY <2>2, <2>3, PaymentAssumption
        DEF PaymentGasLimit, BASE_TX_GAS_LIMIT, PAYMENT_TO_CONTRACT_GAS_LIMIT
    <2> QED
        BY <2>1, <2>3, <2>4
<1>7. CASE FinalizeFails
    BY <1>7 DEF FinalizeFails
<1>8. CASE UNCHANGED vars
    BY <1>8 DEF vars, HasBlockGas, HasFunds, PaymentGasLimit, SignerBalance, CfgAndBlockEnv
<1> QED
    BY <1>1, <1>2, <1>3, <1>4, <1>5, <1>6, <1>7, <1>8 DEF Next

\* A finalized payload whose payment did not succeed pays a contract that refuses the payment
\* or needs more gas than PAYMENT_TO_CONTRACT_GAS_LIMIT.
THEOREM PaidUnlessRefused == Spec => []PromisedIsPaid
<1>1. BidInv => PromisedIsPaid
    BY DEF BidInv
<1> QED
    BY <1>1, InitBidInv, NextBidInv, PTL DEF Spec

\* A gas limit of the environment that fits into u64, plus what the payment is allowed, does
\* not wrap around.
LEMMA NoWrapHasGas ==
    ASSUME TypeOK, CfgAndBlockEnv <= U64_MAX
    PROVE  HasBlockGas
<1>1. /\ PaymentGasLimit \in Nat
      /\ PaymentGasLimit <= PAYMENT_TO_CONTRACT_GAS_LIMIT
    BY DEF PaymentGasLimit, BASE_TX_GAS_LIMIT, PAYMENT_TO_CONTRACT_GAS_LIMIT
<1>2. CfgAndBlockEnv \in Nat
    BY EnvIsNat
<1>3. CfgAndBlockEnv + PaymentGasLimit <= U256_MAX
    BY <1>1, <1>2, WidthAssumption DEF PAYMENT_TO_CONTRACT_GAS_LIMIT
<1>4. (CfgAndBlockEnv + PaymentGasLimit) % (U256_MAX + 1) = CfgAndBlockEnv + PaymentGasLimit
    BY <1>1, <1>2, <1>3, WidthAssumption
<1> QED
    BY <1>1, <1>2, <1>4 DEF HasBlockGas, WrappingAdd

\* No bid is higher than the fees and the subsidy, and a signer that takes the fees is refused
\* only when its wallet lacks the subsidy and the gas of the payment, for every configuration.
THEOREM WalletIsSafe == Spec => []WalletPaysSubsidyOnly
<1>1. BidInv => WalletPaysSubsidyOnly
    <2> SUFFICES ASSUME BidInv, stage \in Bidding
                 PROVE  /\ bid <= total_fees + builder.subsidy_wei
                        /\ (payment = "refused" /\ builder.takes_fees /\ CfgAndBlockEnv <= U64_MAX
                            => builder.balance < builder.subsidy_wei + PaymentGasLimit * BaseFee)
        BY DEF WalletPaysSubsidyOnly, Bidding
    <2>1. bid <= total_fees + builder.subsidy_wei
        BY DEF BidInv
    <2>2. ASSUME payment = "refused", builder.takes_fees, CfgAndBlockEnv <= U64_MAX
          PROVE  builder.balance < builder.subsidy_wei + PaymentGasLimit * BaseFee
        <3>1. ~HasFunds
            BY <2>2, NoWrapHasGas DEF BidInv, RefusedForReason
        <3>2. /\ builder.balance \in Nat /\ builder.subsidy_wei \in Nat
              /\ total_fees \in Nat /\ bid \in Nat
            BY PaymentAssumption DEF BidInv, TypeOK
        <3>3. PaymentGasLimit * BaseFee \in Nat
            BY PaymentAssumption
            DEF PaymentGasLimit, BASE_TX_GAS_LIMIT, PAYMENT_TO_CONTRACT_GAS_LIMIT
        <3>4. ~(PaymentGasLimit * BaseFee + bid <= builder.balance + total_fees)
            BY <2>2, <3>1 DEF HasFunds, SignerBalance
        <3> DEFINE cost == PaymentGasLimit * BaseFee
        <3> HIDE DEF cost
        <3> QED
            BY <2>1, <3>2, <3>3, <3>4 DEF cost
    <2> QED
        BY <2>1, <2>2
<1> QED
    BY <1>1, InitBidInv, NextBidInv, PTL DEF Spec

----------------------------------------------------------------------------
(***************************************************************************)
(* The loop leaves no transaction out that the block has room for.         *)
(* Inductive: a transaction the iterator gave up is settled for a reason   *)
(* that stays a reason while the loop goes on.  Its nonce was used, it     *)
(* does not fit, it depends on one that does not fit, or it is stuck: it   *)
(* is invalid or ahead of its account, and nothing that is left of its     *)
(* sender can bring the account forward.                                   *)
(***************************************************************************)
Used(t) == t.nonce < nonces[t.sender]

DependsOnMisfit(t) ==
    \E u \in Transactions \ (executed_txs \cup best_txs) :
        u.sender = t.sender /\ u.nonce < t.nonce /\ ~Fits(u)

Stuck(t) ==
    /\ \A u \in best_txs : u.sender # t.sender
    /\ t.nonce > nonces[t.sender] \/ ~t.valid

Settled(t) == Used(t) \/ ~Fits(t) \/ DependsOnMisfit(t) \/ Stuck(t)

MaximalInv ==
    /\ TypeOK
    /\ stage = "start" => best_txs = Transactions
    /\ stage \in {"built", "bid", "finalized"} => best_txs = {}
    /\ skip_blobs => sum_blob_gas_used = MAX_DATA_GAS_PER_BLOCK
    /\ \A t \in Transactions \ best_txs : Settled(t)

LEMMA InitMaximalInv == Init => MaximalInv
BY InitTypeOK DEF Init, MaximalInv

\* What was settled stays settled: the sums and the accounts' nonces only grow, and only a
\* transaction that the iterator still has is executed.
LEMMA SettledStays ==
    ASSUME MaximalInv, NEW x \in Transactions, Consider(x), TypeOK',
           NEW t \in Transactions \ best_txs
    PROVE  Settled(t)'
<1> DEFINE Grows == /\ block_gas_limit' = block_gas_limit
                    /\ cumulative_gas_used' >= cumulative_gas_used
                    /\ sum_blob_gas_used' >= sum_blob_gas_used
                    /\ best_txs' \subseteq best_txs
                    /\ executed_txs' \subseteq executed_txs \cup best_txs
                    /\ \A s \in Senders : nonces'[s] >= nonces[s]
                    /\ \A s \in Senders : (\A u \in best_txs : u.sender # s) => nonces'[s] = nonces[s]
<1>t. \A u \in Transactions : /\ u.sender \in Senders /\ u.nonce \in Nat /\ u.gas_limit \in Nat
                              /\ u.blob_gas \in Nat /\ u.gas_used \in Nat
    BY PoolAssumption
<1>n. \A s \in Senders : nonces[s] \in Nat
    BY DEF MaximalInv, TypeOK
<1>1. Grows
    <2> USE DEF MaximalInv, TypeOK
    <2>1. CASE SkipsBlob(x) \/ DoesNotFit(x) \/ InvalidTransaction(x)
        BY <1>n, <2>1 DEF SkipsBlob, DoesNotFit, InvalidTransaction, MarkInvalid
    <2>2. CASE Cancelled(x) \/ NonceTooLow(x)
        BY <1>n, <2>2 DEF Cancelled, NonceTooLow, build
    <2>3. CASE Execute(x)
        <3>1. x \in best_txs /\ x.nonce = nonces[x.sender]
            BY <2>3 DEF Execute, Attempts, IsNext
        <3>2. \A s \in Senders : nonces'[s] = IF s = x.sender THEN nonces[s] + 1 ELSE nonces[s]
            BY <2>3, <3>1 DEF Execute
        <3>3. /\ \A s \in Senders : nonces'[s] >= nonces[s]
              /\ \A s \in Senders : (\A u \in best_txs : u.sender # s) => nonces'[s] = nonces[s]
            BY <1>n, <3>1, <3>2
        <3> QED
            BY <1>t, <2>3, <3>1, <3>3 DEF Execute
    <2> QED
        BY <2>1, <2>2, <2>3 DEF Consider
<1>2. \A u \in Transactions : ~Fits(u) => ~Fits(u)'
    BY <1>1, <1>t, WidthAssumption DEF Fits, HasCapacity, HasBlobSpace, MaximalInv, TypeOK
<1>3. t \in Transactions /\ Settled(t)
    BY DEF MaximalInv
<1>4. CASE Used(t)
    <2>1. nonces'[t.sender] \in Nat
        BY <1>t, <1>3 DEF TypeOK
    <2> QED
        BY <1>1, <1>t, <1>n, <1>3, <1>4, <2>1 DEF Settled, Used
<1>5. CASE ~Fits(t)
    BY <1>2, <1>3, <1>5 DEF Settled
<1>6. CASE DependsOnMisfit(t)
    <2>1. PICK u \in Transactions \ (executed_txs \cup best_txs) :
                u.sender = t.sender /\ u.nonce < t.nonce /\ ~Fits(u)
        BY <1>6 DEF DependsOnMisfit
    <2>2. u \in Transactions \ (executed_txs' \cup best_txs')
        BY <1>1, <2>1
    <2>3. ~Fits(u)'
        BY <1>2, <2>1
    <2> QED
        BY <2>1, <2>2, <2>3 DEF Settled, DependsOnMisfit
<1>7. CASE Stuck(t)
    <2>1. nonces'[t.sender] = nonces[t.sender]
        BY <1>1, <1>t, <1>3, <1>7 DEF Stuck
    <2> QED
        BY <1>1, <1>7, <2>1 DEF Settled, Stuck
<1> QED
    BY <1>3, <1>4, <1>5, <1>6, <1>7 DEF Settled

\* A transaction that does not fit settles itself and those that depend on it.
LEMMA MisfitSettles ==
    ASSUME MaximalInv, NEW x \in best_txs, ~Fits(x), best_txs' = MarkInvalid(x),
           UNCHANGED <<executed_txs, cumulative_gas_used, block_gas_limit, sum_blob_gas_used>>,
           NEW t \in best_txs \ best_txs'
    PROVE  Settled(t)'
<1>1. x \in Transactions /\ t \in Transactions /\ x \notin executed_txs
    BY DEF MaximalInv, TypeOK
<1>2. t.sender = x.sender /\ t.nonce >= x.nonce
    BY <1>1, PoolAssumption DEF MarkInvalid
<1>3. ~Fits(x)'
    BY DEF Fits, HasCapacity, HasBlobSpace
<1>4. x \notin best_txs'
    BY <1>1, PoolAssumption DEF MarkInvalid
<1>5. CASE t.nonce = x.nonce
    <2>1. t = x
        BY <1>1, <1>2, <1>5, PoolAssumption
    <2> QED
        BY <1>3, <2>1 DEF Settled
<1>6. CASE t.nonce # x.nonce
    <2>1. x.nonce < t.nonce
        BY <1>1, <1>2, <1>6, PoolAssumption
    <2> QED
        BY <1>1, <1>2, <1>3, <1>4, <2>1 DEF Settled, DependsOnMisfit
<1> QED
    BY <1>5, <1>6

\* A transaction that the iterator gives up in a step is settled by that step.
LEMMA GivenUpIsSettled ==
    ASSUME MaximalInv, NEW x \in Transactions, Consider(x), NEW t \in best_txs \ best_txs'
    PROVE  Settled(t)'
<1>t. /\ t \in Transactions /\ x.sender \in Senders /\ x.nonce \in Nat /\ t.nonce \in Nat
      /\ t.sender \in Senders /\ x.blob_gas \in Nat /\ nonces[x.sender] \in Nat
    BY PoolAssumption DEF MaximalInv, TypeOK
<1>1. CASE SkipsBlob(x)
    <2>1. ~HasBlobSpace(x)
        BY <1>1, <1>t, WidthAssumption DEF SkipsBlob, IsSkipped, HasBlobSpace, MaximalInv
    <2> QED
        BY <1>1, <2>1, MisfitSettles DEF SkipsBlob, IsNext, Fits
<1>2. CASE DoesNotFit(x)
    BY <1>2, MisfitSettles DEF DoesNotFit, IsNext, Fits
<1>3. CASE Cancelled(x)
    BY <1>3 DEF Cancelled, build
<1>4. CASE NonceTooLow(x)
    BY <1>4 DEF NonceTooLow, Settled, Used
<1>5. CASE InvalidTransaction(x)
    <2>1. t.sender = x.sender /\ t.nonce >= x.nonce
        BY <1>5, <1>t DEF InvalidTransaction, MarkInvalid
    <2>2. \A u \in best_txs' : u.sender # x.sender
        <3> SUFFICES ASSUME NEW u \in best_txs', u.sender = x.sender PROVE FALSE
            OBVIOUS
        <3>1. u \in best_txs /\ u.nonce < x.nonce
            BY <1>5 DEF InvalidTransaction, MarkInvalid
        <3>2. u.nonce >= x.nonce
            BY <1>5, <3>1 DEF InvalidTransaction, Attempts, IsNext
        <3>3. u.nonce \in Nat
            BY <3>1, PoolAssumption DEF MaximalInv, TypeOK
        <3> QED
            BY <1>t, <3>1, <3>2, <3>3
    <2>3. nonces' = nonces
        BY <1>5 DEF InvalidTransaction
    <2>4. t.nonce > nonces[t.sender] \/ ~t.valid
        <3>1. CASE t.nonce = x.nonce
            <4>1. t = x
                BY <1>t, <2>1, <3>1, PoolAssumption
            <4> QED
                BY <1>5, <4>1 DEF InvalidTransaction
        <3>2. CASE t.nonce # x.nonce
            BY <1>5, <1>t, <2>1, <3>2 DEF InvalidTransaction
        <3> QED
            BY <3>1, <3>2
    <2> QED
        BY <2>1, <2>2, <2>3, <2>4 DEF Settled, Stuck
<1>6. CASE Execute(x)
    <2>1. t = x
        BY <1>6 DEF Execute
    <2>2. x.nonce < nonces'[x.sender]
        BY <1>6, <1>t DEF Execute, MaximalInv, TypeOK
    <2> QED
        BY <2>1, <2>2 DEF Settled, Used
<1> QED
    BY <1>1, <1>2, <1>3, <1>4, <1>5, <1>6 DEF Consider

LEMMA NextMaximalInv == MaximalInv /\ [Next]_vars => MaximalInv'
<1> SUFFICES ASSUME MaximalInv, [Next]_vars PROVE MaximalInv'
    OBVIOUS
<1>0. TypeOK'
    BY NextTypeOK DEF MaximalInv
<1>1. ASSUME NEW x \in Transactions, Consider(x) PROVE MaximalInv'
    <2>1. \A t \in Transactions \ best_txs' : Settled(t)'
        BY <1>0, <1>1, SettledStays, GivenUpIsSettled
    <2>2. stage = "building" /\ stage' \in {"building", "cancelled"}
        BY <1>1 DEF Consider, SkipsBlob, DoesNotFit, Cancelled, NonceTooLow, InvalidTransaction,
                    Execute, Attempts, IsNext
    <2>3. skip_blobs' => sum_blob_gas_used' = MAX_DATA_GAS_PER_BLOCK
        <3>1. CASE Execute(x)
            <4>1. x.blob_gas \in Nat
                BY PoolAssumption
            <4>2. ~skip_blobs \/ x.blob_gas = 0
                BY <3>1, <4>1 DEF Execute, Attempts, IsSkipped
            <4> QED
                BY <3>1, <4>1, <4>2 DEF Execute, MaximalInv, TypeOK
        <3>2. CASE ~Execute(x)
            BY <1>1, <3>2 DEF Consider, SkipsBlob, DoesNotFit, Cancelled, NonceTooLow,
                              InvalidTransaction, build, MaximalInv
        <3> QED
            BY <3>1, <3>2
    <2> QED
        BY <1>0, <2>1, <2>2, <2>3 DEF MaximalInv
<1>2. ASSUME stage = "start", best_txs' = best_txs, UNCHANGED <<skip_blobs, sum_blob_gas_used>>,
             stage' \in {"building", "empty"}
      PROVE  MaximalInv'
    BY <1>0, <1>2 DEF MaximalInv
<1>3. CASE TryBuild \/ BuildEmptyPayload
    BY <1>2, <1>3 DEF TryBuild, BuildEmptyPayload
<1>4. ASSUME UNCHANGED build,
             stage' = "start" => stage = "start",
             stage' \in {"built", "bid", "finalized"} => best_txs = {}
      PROVE  MaximalInv'
    <2>1. \A t \in Transactions : Settled(t)' <=> Settled(t)
        BY <1>4 DEF build, Settled, Used, Fits, HasCapacity, HasBlobSpace, DependsOnMisfit, Stuck
    <2> QED
        BY <1>0, <1>4, <2>1 DEF MaximalInv, build
<1>5. CASE BuildFails \/ Seal \/ PaymentRefused \/ FinalizeFails
    BY <1>4, <1>5 DEF BuildFails, Seal, PaymentRefused, FinalizeFails
<1>6. ASSUME NEW b \in Builders, NEW r \in Recipients, Bid(b, r) PROVE MaximalInv'
    BY <1>4, <1>6 DEF Bid, MaximalInv
<1>7. CASE FinalizePayload
    BY <1>4, <1>7 DEF FinalizePayload, AppendPayment, MaximalInv
<1>8. CASE UNCHANGED vars
    BY <1>4, <1>8 DEF vars, MaximalInv
<1> QED
    BY <1>1, <1>3, <1>5, <1>6, <1>7, <1>8 DEF Next

\* The loop of default_ethereum_payload_builder fills the block: a valid transaction that is
\* the next of its sender and fits was lost only with an earlier one that does not fit.
THEOREM BlocksAreMaximal == Spec => []BlockIsMaximal
<1>1. MaximalInv => BlockIsMaximal
    <2> SUFFICES ASSUME MaximalInv, stage \in {"built", "finalized"},
                        NEW t \in Transactions, t.nonce = nonces[t.sender], t.valid, Fits(t)
                 PROVE  \E u \in Transactions \ executed_txs :
                            u.sender = t.sender /\ u.nonce < t.nonce /\ ~Fits(u)
        BY DEF BlockIsMaximal
    <2>1. Settled(t)
        BY DEF MaximalInv
    <2>2. DependsOnMisfit(t)
        BY <2>1, PoolAssumption DEF Settled, Used, Stuck
    <2> QED
        BY <2>2 DEF DependsOnMisfit
<1> QED
    BY <1>1, InitMaximalInv, NextMaximalInv, PTL DEF Spec

=============================================================================
