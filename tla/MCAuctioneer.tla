---------------------------- MODULE MCAuctioneer ----------------------------
(* Inputs of the model-checking runs of Auctioneer. *)
EXTENDS Auctioneer, TLC

Proposer(key, recipient, gas_limit) ==
    [public_key |-> key, fee_recipient |-> recipient, gas_limit |-> gas_limit]

\* Two validators of one operator, and one of them with another fee recipient.
MCProposers == {Proposer("a", "f", 1), Proposer("b", "f", 1), Proposer("a", "g", 1)}

\* Relays disagree about slot 1.
MCEntries == {[slot |-> 1, proposer |-> p] : p \in MCProposers}

\* No relay is special: they are asked in any order and answer alike.
RelaySymmetry == Permutations(Relays)

MCAttributes == {[slot |-> 1, id |-> <<"x">>]}

=============================================================================
