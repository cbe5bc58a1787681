---------------------------- MODULE BlockBuilder ----------------------------
(***************************************************************************)
(* How the builder makes one block (mev-build-rs/src/payload/builder.rs),  *)
(* how much gas the block may use (mev-rs/src/block_validation.rs) and     *)
(* what is bid for it (mev-build-rs/src/bidder/strategies/basic.rs).       *)
(* A build takes transactions from the pool until none is left, the block  *)
(* is kept when its fees improve on the best one, the bidder turns the     *)
(* fees into a bid, and the payment of the bid to the proposer is appended *)
(* to the block.                                                           *)
(*                                                                         *)
(* The pool and the EVM are external.  The pool hands out a sender's       *)
(* transactions in the order of their nonces, senders in any order.        *)
(***************************************************************************)
EXTENDS Integers, FiniteSets

CONSTANTS
    Transactions,       \* [sender, nonce, gas_limit, gas_used, blob_gas, fee, valid] in the pool
    Senders,            \* their senders
    ParentGasLimits,    \* gas limits the parent block may have
    ProposerGasLimits,  \* gas limits proposers may ask for
    Builders,           \* [bid_fraction, subsidy_wei, balance, takes_fees]: the builder's settings
                        \* (the fraction in thousandths) and the wallet of its signer
    Recipients,         \* [exists, code, gas, reverts]: accounts proposers are paid at
    NoBid,              \* the value of builder and recipient before the bid
    BaseFee,            \* base fee of the block
    BestFees,           \* fees of the best payload so far; -1 is no payload
    MAX_DATA_GAS_PER_BLOCK,
    U64_MAX,            \* largest u64 and
    U256_MAX            \* largest U256 (scaled down for TLC)

GAS_BOUND_DIVISOR == 1024

BASE_TX_GAS_LIMIT == 21000

PAYMENT_TO_CONTRACT_GAS_LIMIT == 100000

\* The pool keeps one transaction for a nonce of a sender.
ASSUME PoolAssumption ==
    /\ \A t \in Transactions :
        /\ t.sender \in Senders
        /\ t.nonce \in Nat
        /\ t.gas_limit \in Nat
        /\ t.gas_used \in 0..t.gas_limit
        /\ t.blob_gas \in Nat
        /\ t.fee \in Nat
    /\ \A t, u \in Transactions : t.sender = u.sender /\ t.nonce = u.nonce => t = u

ASSUME LimitAssumption ==
    /\ ParentGasLimits \subseteq Nat
    /\ \A g \in ParentGasLimits : g >= GAS_BOUND_DIVISOR
    /\ ProposerGasLimits \subseteq Nat

ASSUME WidthAssumption ==
    /\ BestFees \subseteq Int
    /\ MAX_DATA_GAS_PER_BLOCK \in Nat
    /\ U64_MAX \in Nat /\ U64_MAX >= PAYMENT_TO_CONTRACT_GAS_LIMIT
    /\ U256_MAX \in Nat /\ U256_MAX >= U64_MAX + PAYMENT_TO_CONTRACT_GAS_LIMIT

\* A transaction uses the base gas at least; one to an account without code uses no more.
ASSUME PaymentAssumption ==
    /\ BaseFee \in Nat
    /\ \A b \in Builders :
        /\ b.bid_fraction \in Int
        /\ b.subsidy_wei \in Nat
        /\ b.balance \in Nat
        /\ b.takes_fees \in BOOLEAN
    /\ \A r \in Recipients :
        /\ r.gas \in Nat /\ r.gas >= BASE_TX_GAS_LIMIT
        /\ r.exists \in BOOLEAN /\ r.code \in BOOLEAN /\ r.reverts \in BOOLEAN
        /\ ~r.code => r.gas = BASE_TX_GAS_LIMIT /\ ~r.reverts
        /\ r.code => r.exists

VARIABLES
    \* inputs of the build
    parent_gas_limit,
    proposer_gas_limit,
    proposal,               \* the attributes have a proposal
    best_fees,
    \* the build
    stage,
    block_gas_limit,        \* of block_env, as u64
    best_txs,               \* what the pool's iterator has left
    skip_blobs,             \* the iterator leaves blob transactions out
    nonces,                 \* sender -> nonce of its account
    cumulative_gas_used,
    sum_blob_gas_used,
    total_fees,
    executed_txs,
    \* the block
    header,                 \* [gas_limit, gas_used]
    \* the bid
    builder,
    recipient,
    bid,                    \* what the bidder answered, and the payload promises
    payment                 \* outcome of the payment transaction

inputs == <<parent_gas_limit, proposer_gas_limit, proposal, best_fees>>
build == <<block_gas_limit, best_txs, skip_blobs, nonces, cumulative_gas_used, sum_blob_gas_used,
           total_fees, executed_txs>>
auction == <<builder, recipient, bid, payment>>
vars == <<inputs, stage, build, header, auction>>

Ended == {"empty", "aborted", "cancelled", "failed", "finalized", "abandoned"}

\* Types, and: the state that the next transaction runs on has the nonces of the executed ones.
TypeOK ==
    /\ parent_gas_limit \in ParentGasLimits
    /\ proposer_gas_limit \in ProposerGasLimits
    /\ proposal \in BOOLEAN
    /\ best_fees \in BestFees
    /\ stage \in {"start", "building", "built", "bid"} \cup Ended
    /\ block_gas_limit \in Nat
    /\ best_txs \subseteq Transactions
    /\ skip_blobs \in BOOLEAN
    /\ nonces \in [Senders -> Nat]
    /\ cumulative_gas_used \in Nat
    /\ sum_blob_gas_used \in Nat
    /\ total_fees \in Nat
    /\ executed_txs \subseteq Transactions
    /\ executed_txs \cap best_txs = {}
    /\ \A t \in executed_txs : t.nonce < nonces[t.sender]
    /\ header \in [gas_limit : Nat, gas_used : Nat]
    /\ builder \in Builders \cup {NoBid}
    /\ recipient \in Recipients \cup {NoBid}
    /\ stage = "bid" => builder \in Builders /\ recipient \in Recipients
    /\ bid \in Nat
    /\ payment \in {"none", "refused", "success", "reverted"}

\* Accounts may be ahead of transactions that the pool still holds.
Init ==
    /\ parent_gas_limit \in ParentGasLimits
    /\ proposer_gas_limit \in ProposerGasLimits
    /\ proposal \in BOOLEAN
    /\ best_fees \in BestFees
    /\ stage = "start"
    /\ block_gas_limit = 0
    /\ best_txs = Transactions
    /\ skip_blobs = FALSE
    /\ nonces \in [Senders -> {0, 1}]
    /\ cumulative_gas_used = 0
    /\ sum_blob_gas_used = 0
    /\ total_fees = 0
    /\ executed_txs = {}
    /\ header = [gas_limit |-> 0, gas_used |-> 0]
    /\ builder = NoBid
    /\ recipient = NoBid
    /\ bid = 0
    /\ payment = "none"

----------------------------------------------------------------------------
(* The gas limit of the block *)

Bound(parent) == parent \div GAS_BOUND_DIVISOR

\* Mutant of ComputePreferredGasLimit: the bound itself counts as allowed.
ClampToBound(preferred, parent) ==
    IF preferred > parent + Bound(parent) THEN parent + Bound(parent)
    ELSE IF preferred < parent - Bound(parent) THEN parent - Bound(parent)
    ELSE preferred

ComputePreferredGasLimit(preferred, parent) ==
    LET highest == parent + Bound(parent) - 1
        lowest == parent - Bound(parent) + 1 IN
    IF preferred = parent THEN preferred
    ELSE IF preferred > parent THEN IF preferred < highest THEN preferred ELSE highest
    ELSE IF preferred > lowest THEN preferred ELSE lowest

\* The tolerance of the protocol (verify_limits of the tests).
VerifyLimits(gas_limit, parent) ==
    \/ gas_limit = parent
    \/ gas_limit > parent /\ gas_limit < parent + Bound(parent)
    \/ gas_limit < parent /\ gas_limit > parent - Bound(parent)

\* U256 differences and sums wrap around.
WrappingSub(a, b) == IF a >= b THEN a - b ELSE a + (U256_MAX + 1) - b
WrappingAdd(a, b) == (a + b) % (U256_MAX + 1)

\* Mutant of ReserveForPayment: only what a payment to an account needs is reserved.
ReserveBaseGas(gas_limit) == WrappingSub(gas_limit, BASE_TX_GAS_LIMIT)

ReserveForPayment(gas_limit) == WrappingSub(gas_limit, PAYMENT_TO_CONTRACT_GAS_LIMIT)

\* The U256 gas limit of block_env; without a proposal it is the parent's.
CfgAndBlockEnv ==
    IF proposal
    THEN ReserveForPayment(ComputePreferredGasLimit(proposer_gas_limit, parent_gas_limit))
    ELSE parent_gas_limit

\* block_env.gas_limit.try_into().unwrap_or(u64::MAX)
AsU64(n) == IF n <= U64_MAX THEN n ELSE U64_MAX

\* Without a proposal the job is over at once and only an empty payload may be asked for.
TryBuild ==
    /\ stage = "start"
    /\ proposal
    /\ stage' = "building"
    /\ block_gas_limit' = AsU64(CfgAndBlockEnv)
    /\ UNCHANGED <<inputs, best_txs, skip_blobs, nonces, cumulative_gas_used, sum_blob_gas_used,
                   total_fees, executed_txs, header, auction>>

\* The engine asks for a payload before one is built: a block without transactions, no bid.
BuildEmptyPayload ==
    /\ stage = "start"
    /\ stage' = "empty"
    /\ block_gas_limit' = AsU64(CfgAndBlockEnv)
    /\ header' = [gas_limit |-> AsU64(CfgAndBlockEnv), gas_used |-> 0]
    /\ UNCHANGED <<inputs, best_txs, skip_blobs, nonces, cumulative_gas_used, sum_blob_gas_used,
                   total_fees, executed_txs, auction>>

----------------------------------------------------------------------------
(* The pool's iterator *)

IsNext(t) ==
    /\ stage = "building"
    /\ t \in best_txs
    /\ \A u \in best_txs : u.sender = t.sender => u.nonce >= t.nonce

\* Without t and the transactions that depend on it.
MarkInvalid(t) == {u \in best_txs : u.sender # t.sender \/ u.nonce < t.nonce}

IsSkipped(t) == skip_blobs /\ t.blob_gas > 0

SkipsBlob(t) ==
    /\ IsNext(t)
    /\ IsSkipped(t)
    /\ best_txs' = MarkInvalid(t)
    /\ UNCHANGED <<inputs, stage, block_gas_limit, skip_blobs, nonces, cumulative_gas_used,
                   sum_blob_gas_used, total_fees, executed_txs, header, auction>>

----------------------------------------------------------------------------
(* The loop of default_ethereum_payload_builder *)

\* Mutant of HasCapacity: the transaction itself is not counted.
HasCapacityLeft(t) == cumulative_gas_used <= block_gas_limit

HasCapacity(t) == cumulative_gas_used + t.gas_limit <= block_gas_limit

HasBlobSpace(t) == t.blob_gas = 0 \/ sum_blob_gas_used + t.blob_gas <= MAX_DATA_GAS_PER_BLOCK

DoesNotFit(t) ==
    /\ IsNext(t)
    /\ ~IsSkipped(t)
    /\ ~HasCapacity(t) \/ ~HasBlobSpace(t)
    /\ best_txs' = MarkInvalid(t)
    /\ UNCHANGED <<inputs, stage, block_gas_limit, skip_blobs, nonces, cumulative_gas_used,
                   sum_blob_gas_used, total_fees, executed_txs, header, auction>>

\* The cancel signal is looked at for a transaction that has capacity.
Cancelled(t) ==
    /\ IsNext(t)
    /\ ~IsSkipped(t)
    /\ HasCapacity(t)
    /\ stage' = "cancelled"
    /\ UNCHANGED <<inputs, build, header, auction>>

Attempts(t) == IsNext(t) /\ ~IsSkipped(t) /\ HasCapacity(t) /\ HasBlobSpace(t)

\* Mutant of NonceTooLow: the transactions that depend on it are left out too.
NonceTooLowInvalid(t) ==
    /\ Attempts(t)
    /\ t.nonce < nonces[t.sender]
    /\ best_txs' = MarkInvalid(t)
    /\ UNCHANGED <<inputs, stage, block_gas_limit, skip_blobs, nonces, cumulative_gas_used,
                   sum_blob_gas_used, total_fees, executed_txs, header, auction>>

NonceTooLow(t) ==
    /\ Attempts(t)
    /\ t.nonce < nonces[t.sender]
    /\ best_txs' = best_txs \ {t}
    /\ UNCHANGED <<inputs, stage, block_gas_limit, skip_blobs, nonces, cumulative_gas_used,
                   sum_blob_gas_used, total_fees, executed_txs, header, auction>>

InvalidTransaction(t) ==
    /\ Attempts(t)
    /\ t.nonce > nonces[t.sender] \/ (t.nonce = nonces[t.sender] /\ ~t.valid)
    /\ best_txs' = MarkInvalid(t)
    /\ UNCHANGED <<inputs, stage, block_gas_limit, skip_blobs, nonces, cumulative_gas_used,
                   sum_blob_gas_used, total_fees, executed_txs, header, auction>>

\* Mutant of Execute: the changes of the state are not committed.
ExecuteUncommitted(t) ==
    /\ Attempts(t)
    /\ t.nonce = nonces[t.sender]
    /\ t.valid
    /\ best_txs' = best_txs \ {t}
    /\ cumulative_gas_used' = cumulative_gas_used + t.gas_used
    /\ sum_blob_gas_used' = sum_blob_gas_used + t.blob_gas
    /\ skip_blobs' = (skip_blobs \/ (t.blob_gas > 0 /\ sum_blob_gas_used' = MAX_DATA_GAS_PER_BLOCK))
    /\ total_fees' = WrappingAdd(total_fees, t.fee)
    /\ executed_txs' = executed_txs \cup {t}
    /\ UNCHANGED <<inputs, stage, block_gas_limit, nonces, header, auction>>

Execute(t) ==
    /\ Attempts(t)
    /\ t.nonce = nonces[t.sender]
    /\ t.valid
    /\ best_txs' = best_txs \ {t}
    /\ nonces' = [nonces EXCEPT ![t.sender] = t.nonce + 1]
    /\ cumulative_gas_used' = cumulative_gas_used + t.gas_used
    /\ sum_blob_gas_used' = sum_blob_gas_used + t.blob_gas
    /\ skip_blobs' = (skip_blobs \/ (t.blob_gas > 0 /\ sum_blob_gas_used' = MAX_DATA_GAS_PER_BLOCK))
    /\ total_fees' = WrappingAdd(total_fees, t.fee)
    /\ executed_txs' = executed_txs \cup {t}
    /\ UNCHANGED <<inputs, stage, block_gas_limit, header, auction>>

\* Fatal errors of the EVM, the state provider or the system calls.
BuildFails ==
    /\ stage = "building"
    /\ stage' = "failed"
    /\ UNCHANGED <<inputs, build, header, auction>>

\* is_better_payload
IsBetter == best_fees = -1 \/ total_fees > best_fees

Seal ==
    /\ stage = "building"
    /\ best_txs = {}
    /\ \/ /\ IsBetter
          /\ stage' = "built"
          /\ header' = [gas_limit |-> block_gas_limit, gas_used |-> cumulative_gas_used]
       \/ /\ ~IsBetter
          /\ stage' = "aborted"
          /\ UNCHANGED header
    /\ UNCHANGED <<inputs, build, auction>>

----------------------------------------------------------------------------
(* The bid *)

\* Mutant of BidPercent: the configured fraction is not clamped.
BidAnyPercent(fraction) == (fraction + 5) \div 10

\* The fraction, clamped to 0..1, as a whole percentage: conversion from f64 rounds.
BidPercent(fraction) ==
    LET clamped == IF fraction < 0 THEN 0 ELSE IF fraction > 1000 THEN 1000 ELSE fraction IN
    (clamped + 5) \div 10

ComputeValue(b, revenue) ==
    LET share == ((revenue * BidPercent(b.bid_fraction)) % (U256_MAX + 1)) \div 100 IN
    WrappingAdd(share, b.subsidy_wei)

\* The bidder answers the update of the job, for the builder b and the proposer's account r.
Bid(b, r) ==
    /\ stage = "built"
    /\ stage' = "bid"
    /\ builder' = b
    /\ recipient' = r
    /\ bid' = ComputeValue(b, total_fees)
    /\ UNCHANGED <<inputs, build, header, payment>>

----------------------------------------------------------------------------
(* append_payment *)

\* Mutant of PaymentGasLimit: the test is the wrong way round.
PaymentGasLimitSwapped ==
    IF recipient.exists /\ ~recipient.code THEN PAYMENT_TO_CONTRACT_GAS_LIMIT ELSE BASE_TX_GAS_LIMIT

\* An account that does not exist counts as a contract.
PaymentGasLimit ==
    IF recipient.exists /\ ~recipient.code THEN BASE_TX_GAS_LIMIT ELSE PAYMENT_TO_CONTRACT_GAS_LIMIT

\* The signer's balance after the block; it is the fee recipient unless another is configured.
SignerBalance == builder.balance + (IF builder.takes_fees THEN total_fees ELSE 0)

\* The checks of the EVM before it runs the payment: the block's gas limit, raised for the
\* payment, covers the transaction's, and the signer can pay for it.
HasBlockGas == PaymentGasLimit <= WrappingAdd(CfgAndBlockEnv, PaymentGasLimit)
HasFunds == PaymentGasLimit * BaseFee + bid <= SignerBalance

PaymentRefused ==
    /\ stage = "bid"
    /\ ~HasBlockGas \/ ~HasFunds
    /\ stage' = "abandoned"
    /\ payment' = "refused"
    /\ UNCHANGED <<inputs, build, header, builder, recipient, bid>>

\* The block with the payment.  Its sums of gas are u64 and wrap around as in a release build
\* (a debug build panics instead).
AppendPayment(used, result) ==
    LET gas_limit == (header.gas_limit + used) % (U64_MAX + 1)
        gas_used == header.gas_used + used IN
    /\ stage = "bid"
    /\ payment' = result
    /\ \/ /\ gas_used <= gas_limit
          /\ stage' = "finalized"
          /\ header' = [gas_limit |-> gas_limit, gas_used |-> gas_used]
       \/ /\ gas_used > gas_limit
          /\ stage' = "abandoned"
          /\ UNCHANGED header
    /\ UNCHANGED <<inputs, build, builder, recipient, bid>>

\* A call that needs more gas than it has uses all of it and fails.  The outcome is written
\* to the receipt and not looked at.
FinalizePayload ==
    /\ stage = "bid"
    /\ HasBlockGas
    /\ HasFunds
    /\ IF recipient.gas <= PaymentGasLimit
       THEN AppendPayment(recipient.gas, IF recipient.reverts THEN "reverted" ELSE "success")
       ELSE AppendPayment(PaymentGasLimit, "reverted")

\* The state cannot be read.
FinalizeFails ==
    /\ stage = "bid"
    /\ stage' = "abandoned"
    /\ UNCHANGED <<inputs, build, header, auction>>

----------------------------------------------------------------------------
Consider(t) ==
    \/ SkipsBlob(t)
    \/ DoesNotFit(t)
    \/ Cancelled(t)
    \/ NonceTooLow(t)
    \/ InvalidTransaction(t)
    \/ Execute(t)

Next ==
    \/ TryBuild
    \/ \E t \in Transactions : Consider(t)
    \/ BuildFails
    \/ Seal
    \/ BuildEmptyPayload
    \/ \E b \in Builders, r \in Recipients : Bid(b, r)
    \/ PaymentRefused
    \/ FinalizePayload
    \/ FinalizeFails

Spec == Init /\ [][Next]_vars

----------------------------------------------------------------------------
(* Properties *)

Distance(a, b) == IF a >= b THEN a - b ELSE b - a

\* compute_preferred_gas_limit gives the gas limit closest to the proposer's among those
\* that the protocol allows on top of the parent.
LimitIsNearest ==
    LET limit == ComputePreferredGasLimit(proposer_gas_limit, parent_gas_limit) IN
    /\ VerifyLimits(limit, parent_gas_limit)
    /\ \A g \in ParentGasLimits \cup ProposerGasLimits :
        VerifyLimits(g, parent_gas_limit) =>
            Distance(limit, proposer_gas_limit) <= Distance(g, proposer_gas_limit)

\* At every point of the build and after the payment, the block's gas and its blobs are
\* within their limits.
BlockFits ==
    /\ cumulative_gas_used <= block_gas_limit
    /\ sum_blob_gas_used <= MAX_DATA_GAS_PER_BLOCK
    /\ header.gas_used <= header.gas_limit

\* What is reserved for the payment covers it: a finalized block never has a higher gas limit
\* than the one computed for the proposer.
ReservationCovers ==
    stage = "finalized" =>
        header.gas_limit <= ComputePreferredGasLimit(proposer_gas_limit, parent_gas_limit)

\* The wallet pays for the subsidy and the payment's gas only.  No bid is higher than the fees
\* of the block and the subsidy, whatever the configured fraction and even when the product
\* wraps around; and where the signer takes the fees and the block has room for a payment, only
\* a wallet that lacks the subsidy and the gas is refused.
WalletPaysSubsidyOnly ==
    stage \in {"bid", "finalized", "abandoned"} =>
        /\ bid <= total_fees + builder.subsidy_wei
        /\ /\ payment = "refused"
           /\ builder.takes_fees
           /\ CfgAndBlockEnv <= U64_MAX
           => builder.balance < builder.subsidy_wei + PaymentGasLimit * BaseFee

\* A finalized payload promises the bid to the proposer, and its payment succeeded, unless the
\* proposer's contract refuses it or needs more gas than a payment to a contract gets.
PromisedIsPaid ==
    stage = "finalized" /\ payment # "success" =>
        recipient.code /\ (recipient.reverts \/ recipient.gas > PAYMENT_TO_CONTRACT_GAS_LIMIT)

Fits(t) == HasCapacity(t) /\ HasBlobSpace(t)

\* The block is full: the next transaction of every sender is invalid or does not fit, and it
\* was not lost with one that the loop only passed over.  (It is lost with a transaction of
\* its sender that is too old and too large: capacity is looked at before the nonce.)
BlockIsMaximal ==
    stage \in {"built", "finalized"} =>
        \A t \in Transactions : t.nonce = nonces[t.sender] /\ t.valid /\ Fits(t) =>
            \E u \in Transactions \ executed_txs :
                u.sender = t.sender /\ u.nonce < t.nonce /\ ~Fits(u)

\* The finalized block has a gas limit that the protocol allows on top of the parent.
FinalWithinTolerance ==
    stage = "finalized" => VerifyLimits(header.gas_limit, parent_gas_limit)

=============================================================================
