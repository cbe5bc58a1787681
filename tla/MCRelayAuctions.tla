-------------------------- MODULE MCRelayAuctions --------------------------
(* Inputs of the model-checking runs of RelayAuctions. *)
EXTENDS RelayAuctions, TLC

Payload(parent, hash) ==
    [parent_hash |-> parent, block_hash |-> hash, gas_limit |-> 1, gas_used |-> 1]

\* A submission as an honest builder sends it.
Good(slot, proposer, parent, hash, value, builder, recipient) ==
    [slot |-> slot, parent_hash |-> parent, proposer_public_key |-> proposer,
     builder_public_key |-> builder, proposer_fee_recipient |-> recipient,
     block_hash |-> hash, gas_limit |-> 1, gas_used |-> 1, value |-> value,
     payload |-> Payload(parent, hash), signed |-> TRUE]

Block(slot, proposer, parent, hash, body, signed) ==
    [slot |-> slot, proposer_index |-> proposer, header |-> Payload(parent, hash),
     body |-> body, signed |-> signed]

Request(slot, proposer, parent) ==
    [slot |-> slot, parent_hash |-> parent, public_key |-> proposer]

OneAuction == {Request(0, "p", "g")}

TwoParents == {Request(0, "p", "g"), Request(0, "p", "h")}

\* Bidding: three values for one auction, and one flaw for each check of submit_bid.
Sound == Good(0, "p", "g", "x", 1, "b1", "f1")

BidSubmissions ==
    {Sound,
     Good(0, "p", "g", "y", 2, "b2", "f1"),
     Good(0, "p", "g", "z", 4, "b1", "f1"),
     [Sound EXCEPT !.proposer_fee_recipient = "f2"],
     [Sound EXCEPT !.builder_public_key = "outsider"],
     [Sound EXCEPT !.gas_limit = 2],
     [Sound EXCEPT !.gas_used = 2],
     [Sound EXCEPT !.parent_hash = "h"],
     [Sound EXCEPT !.block_hash = "y"],
     [Sound EXCEPT !.signed = FALSE]}

\* Opening: two payloads, one of them offered by both builders, blocks that agree with
\* them, differ in body, or are not signed by the proposer.
OpenSubmissions ==
    {Good(0, "p", "g", "x", 1, "b1", "f1"),
     Good(0, "p", "g", "x", 2, "b2", "f1"),
     Good(0, "p", "g", "y", 2, "b2", "f1")}

OpenBlocks ==
    {Block(0, "p", "g", "x", "u", TRUE),
     Block(0, "p", "g", "x", "v", TRUE),
     Block(0, "p", "g", "y", "u", TRUE),
     Block(0, "p", "g", "y", "u", FALSE)}

\* Calls of open_bid differ in nothing but their names.
OpenSymmetry == Permutations(OpenTasks)

=============================================================================
