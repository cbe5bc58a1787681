----------------------------- MODULE MCRelayMux -----------------------------
(* Inputs of the model-checking runs of RelayMux. *)
EXTENDS RelayMux, TLC

Bid(s, hash, fork, value, commitments) ==
    [slot |-> s, block_hash |-> hash, fork |-> fork, value |-> value,
     commitments |-> commitments, signature |-> <<hash, commitments, value>>]

\* A bid of value zero, a tie between two blocks, and a forged bid above all others, of the
\* three forks.
MCBids ==
    {Bid(0, "w", "bellatrix", 0, None), Bid(0, "x", "deneb", 2, "blobs"),
     Bid(0, "y", "capella", 2, None),
     [Bid(0, "z", "deneb", 5, "blobs") EXCEPT !.signature = None]}

Block(s, hash, commitments) == [slot |-> s, block_hash |-> hash, commitments |-> commitments]

MCBlocks == {Block(0, "w", None), Block(0, "x", "blobs")}

\* The contents of both blocks, and of one with other blobs.
MCContents ==
    {[block_hash |-> "w", fork |-> "bellatrix", commitments |-> None],
     [block_hash |-> "x", fork |-> "deneb", commitments |-> "blobs"],
     [block_hash |-> "x", fork |-> "deneb", commitments |-> "no_blobs"]}

RelaySymmetry == Permutations(Relays)

=============================================================================
