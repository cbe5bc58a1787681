--------------------------- MODULE MCBlockBuilder ---------------------------
(* Inputs of the model-checking runs of BlockBuilder. *)
EXTENDS BlockBuilder

Tx(sender, nonce, gas_limit, gas_used, blob_gas) ==
    [sender |-> sender, nonce |-> nonce, gas_limit |-> gas_limit, gas_used |-> gas_used,
     blob_gas |-> blob_gas, fee |-> gas_used, valid |-> TRUE]

\* Two senders that compete for gas and blob space; a blob transaction that fits exactly, one
\* that does not fit after it, and an invalid transaction with a successor.
MCTransactions ==
    {Tx("a", 0, 60000, 30000, 0), Tx("a", 1, 60000, 50000, 2), Tx("a", 2, 21000, 21000, 0),
     Tx("b", 0, 40000, 40000, 1), Tx("b", 1, 30000, 21000, 1), Tx("b", 2, 21000, 21000, 0),
     [Tx("c", 0, 21000, 21000, 0) EXCEPT !.valid = FALSE], Tx("c", 1, 21000, 21000, 0)}

\* Around the limits of the tolerance, and too small for a payment.
MCParentGasLimits == {5000, 102400, 204800}

MCProposerGasLimits ==
    {5000, 102300, 102301, 102400, 102499, 102500, 204600, 204601, 204800, 300000}

MCBestFees == {-1, 60000}

Account == [exists |-> TRUE, code |-> FALSE, gas |-> 21000, reverts |-> FALSE]
Contract(gas, reverts) == [exists |-> TRUE, code |-> TRUE, gas |-> gas, reverts |-> reverts]

\* Accounts that exist or not, contracts that take a payment, refuse it or need too much gas.
MCRecipients ==
    {Account, [Account EXCEPT !.exists = FALSE],
     Contract(50000, FALSE), Contract(50000, TRUE), Contract(100001, FALSE)}

MCBuilder(bid_fraction, subsidy_wei, balance, takes_fees) ==
    [bid_fraction |-> bid_fraction, subsidy_wei |-> subsidy_wei, balance |-> balance,
     takes_fees |-> takes_fees]

\* No more than the fees, a subsidy that the wallet just covers for an account (21000 gas), one
\* that it does not cover, a separate fee recipient, fractions outside 0..1, and an empty wallet
\* that gives away all fees or keeps some for the gas.
MCBuilders ==
    {MCBuilder(904, 0, 100000, TRUE), MCBuilder(1000, 7, 21007, TRUE),
     MCBuilder(1050, 7, 100006, TRUE), MCBuilder(500, 7, 120000, FALSE), MCBuilder(-1, 7, 21007, FALSE),
     MCBuilder(1000, 0, 0, TRUE), MCBuilder(500, 0, 0, TRUE)}

\* A parent of the usual size.
MCUsualGasLimits == {30000000}

=============================================================================
