-------------------------- MODULE PayloadDelivery --------------------------
(***************************************************************************)
(* What a relay promises a proposer and the network about a proposal, with *)
(* nothing of how it is done: the proposer signs a block, the block is     *)
(* broadcast, its payload is handed over, and the delivery is on record    *)
(* until the record is old.  RelayAuctions implements it.                  *)
(*                                                                         *)
(* A block is known with its payload; two blocks are for one proposal when *)
(* they have the slot and the proposer in common.                          *)
(***************************************************************************)

CONSTANT Signed     \* the blocks that proposers have signed: [slot, proposer_index, payload, ...]

VARIABLES
    broadcast,      \* blocks the network has seen
    delivered,      \* blocks whose payload the proposer was given
    records         \* deliveries that the relay reports: [slot, proposer_index, payload]

vars == <<broadcast, delivered, records>>

SameProposal(a, b) == a.slot = b.slot /\ a.proposer_index = b.proposer_index

RecordOf(b) == [slot |-> b.slot, proposer_index |-> b.proposer_index, payload |-> b.payload]

Init ==
    /\ broadcast = {}
    /\ delivered = {}
    /\ records = {}

\* The first block of a proposal is broadcast; no other is after it.
Broadcast(b) ==
    /\ \A other \in broadcast : SameProposal(other, b) => other = b
    /\ broadcast' = broadcast \cup {b}
    /\ UNCHANGED <<delivered, records>>

\* The payload is handed over, possibly again, and this is recorded.
Deliver(b) ==
    /\ b \in broadcast
    /\ delivered' = delivered \cup {b}
    /\ records' = records \cup {RecordOf(b)}
    /\ UNCHANGED broadcast

\* Records become old.
Forget ==
    /\ records' \subseteq records
    /\ UNCHANGED <<broadcast, delivered>>

Next ==
    \/ \E b \in Signed : Broadcast(b) \/ Deliver(b)
    \/ Forget

Spec == Init /\ [][Next]_vars

=============================================================================
