------------------------------ MODULE RelayMux ------------------------------
(***************************************************************************)
(* The relay multiplexer of mev-boost (mev-boost-rs/src/relay_mux.rs).  A  *)
(* proposer's request for a bid is sent to every relay; the best answer is *)
(* returned and the relays that gave it are remembered under its block     *)
(* hash, so that the signed block can be sent to them.  The clock task     *)
(* forgets old auctions.  Calls run concurrently; relays answer in any     *)
(* order, wrongly, or not within the time allowed.  What they send is read *)
(* and sent on to the proposer as BuilderApi says.                         *)
(***************************************************************************)
EXTENDS Integers, Sequences, BuilderApi

CONSTANTS
    Relays,         \* configured relays
    MaxSlot,        \* bound: the last slot of the clock
    Requests,       \* the slots a proposer asks bids for
    Bids,           \* answers to fetch_best_bid as they are sent:
                    \* [slot, block_hash, fork, value, commitments, signature]
    Blocks,         \* signed blinded blocks: [slot, block_hash, commitments]
    Contents,       \* answers to open_bid as they are sent: [block_hash, fork, commitments]
    FetchTasks,     \* concurrent calls of fetch_best_bid
    OpenTasks       \* concurrent calls of open_bid

Slots == 0..MaxSlot

Hashes == {b.block_hash : b \in Bids}

(***************************************************************************)
(* The clean-up relies on what a block hash commits to: a payload is for   *)
(* one slot.  With no relay configured a call would not return, because    *)
(* buffer_unordered admits no request then.                                *)
(***************************************************************************)
ASSUME MuxAssumption ==
    /\ Relays # {}
    /\ MaxSlot \in Nat
    /\ Requests \subseteq Slots
    /\ \A b \in Bids : b.slot \in Slots /\ b.value \in Nat /\ b.fork \in Forks
    /\ \A b, c \in Bids : b.block_hash = c.block_hash => b.slot = c.slot
    /\ \A b \in Blocks : b.slot \in Slots
    /\ \A c \in Contents : c.fork \in Forks
    /\ None \notin [slot : Slots, relays : SUBSET Relays]

AUCTION_LIFETIME == 2

VARIABLES
    outstanding_bids,   \* block hash -> [slot, relays]
    slot,               \* slot the clock task processed last
    fetch,              \* local state of each fetch_best_bid call
    open,               \* local state of each open_bid call
    \* history, read by properties only
    served,             \* <<bid, version>> returned to the proposer
    returned            \* <<block, contents, version>> of every successful open_bid

vars == <<outstanding_bids, slot, fetch, open, served, returned>>

IdleFetch == [pc |-> "idle", slot |-> 0, pending |-> {}, bids |-> << >>]
IdleOpen == [pc |-> "idle", block |-> None, pending |-> {}, responses |-> << >>]

Answers == [relay : Relays, bid : Bids]

TypeOK ==
    /\ outstanding_bids \in [Hashes -> [slot : Slots, relays : SUBSET Relays] \cup {None}]
    /\ slot \in Slots
    /\ \A t \in FetchTasks :
        /\ fetch[t].pc \in {"idle", "gather"}
        /\ fetch[t].slot \in Slots
        /\ fetch[t].pending \subseteq Relays
        /\ fetch[t].bids \in Seq(Answers)
        /\ \A i \in DOMAIN fetch[t].bids : fetch[t].bids[i].relay \notin fetch[t].pending
    /\ \A t \in OpenTasks :
        /\ open[t].pc \in {"idle", "gather"}
        /\ open[t].block \in Blocks \cup {None}
        /\ open[t].pending \subseteq Relays
        /\ open[t].responses \in Seq(Contents)
    /\ served \subseteq Bids \X Forks
    /\ returned \subseteq Blocks \X Contents \X Forks

Init ==
    /\ outstanding_bids = [h \in Hashes |-> None]
    /\ slot \in Slots
    /\ fetch = [t \in FetchTasks |-> IdleFetch]
    /\ open = [t \in OpenTasks |-> IdleOpen]
    /\ served = {}
    /\ returned = {}

----------------------------------------------------------------------------
CheckedSub(a, b) == IF a >= b THEN a - b ELSE 0

RetainSlot(s) == CheckedSub(s, AUCTION_LIFETIME)

\* Mutant of OnSlot: the oldest slot that is still live is forgotten.
OnSlotEarly(s) ==
    /\ s > slot
    /\ slot' = s
    /\ outstanding_bids' = [h \in Hashes |->
            IF outstanding_bids[h] # None /\ outstanding_bids[h].slot > RetainSlot(s)
            THEN outstanding_bids[h] ELSE None]
    /\ UNCHANGED <<fetch, open, served, returned>>

\* The clock's slots increase; some are skipped when the task was held up.
OnSlot(s) ==
    /\ s > slot
    /\ slot' = s
    /\ outstanding_bids' = [h \in Hashes |->
            IF outstanding_bids[h] # None /\ outstanding_bids[h].slot >= RetainSlot(s)
            THEN outstanding_bids[h] ELSE None]
    /\ UNCHANGED <<fetch, open, served, returned>>

----------------------------------------------------------------------------
(* fetch_best_bid *)

FetchBestBid(t, s) ==
    /\ fetch[t].pc = "idle"
    /\ fetch' = [fetch EXCEPT ![t] =
            [pc |-> "gather", slot |-> s, pending |-> Relays, bids |-> << >>]]
    /\ UNCHANGED <<outstanding_bids, slot, open, served, returned>>

\* What a signature of a bid with the commitments is made over.
SigningRoot(bid, commitments) == <<bid.block_hash, commitments, bid.value>>

\* validate_bid: the bid as it was read names the relay's key and is signed with it.
ValidateBid(bid) == bid.signature = SigningRoot(bid, BlobKzgCommitments(bid))

\* Mutant of RelayAnswers: a relay that has answered is asked again.
RelayAnswersAgain(t, r, bid) ==
    /\ fetch[t].pc = "gather"
    /\ r \in fetch[t].pending
    /\ bid.slot = fetch[t].slot
    /\ ValidateBid(bid)
    /\ fetch' = [fetch EXCEPT ![t].bids = Append(@, [relay |-> r, bid |-> bid])]
    /\ UNCHANGED <<outstanding_bids, slot, open, served, returned>>

\* A relay answers in time; bids are collected in the order they arrive.
RelayAnswers(t, r, bid) ==
    /\ fetch[t].pc = "gather"
    /\ r \in fetch[t].pending
    /\ bid.slot = fetch[t].slot
    /\ fetch' = [fetch EXCEPT
            ![t].pending = @ \ {r},
            ![t].bids = IF ValidateBid(bid) THEN Append(@, [relay |-> r, bid |-> bid]) ELSE @]
    /\ UNCHANGED <<outstanding_bids, slot, open, served, returned>>

\* A relay has no bid, answers with an error, or does not answer within the time allowed.
RelayHasNoBid(t, r) ==
    /\ fetch[t].pc = "gather"
    /\ r \in fetch[t].pending
    /\ fetch' = [fetch EXCEPT ![t].pending = @ \ {r}]
    /\ UNCHANGED <<outstanding_bids, slot, open, served, returned>>

NoBest == [indices |-> {}, max |-> 0]

\* Mutant of KeepBest: a bid that equals the maximum is dropped.
KeepFirstBest(best, index, value) ==
    IF value > best.max THEN [indices |-> {index}, max |-> value] ELSE best

KeepBest(best, index, value) ==
    CASE value > best.max -> [indices |-> {index}, max |-> value]
      [] value = best.max -> [best EXCEPT !.indices = @ \cup {index}]
      [] OTHER -> best

\* select_best_bids: a fold that starts from the value zero, after n of the answers ...
BestUpTo(answers) ==
    LET Best[n \in 0..Len(answers)] ==
            IF n = 0 THEN NoBest ELSE KeepBest(Best[n - 1], n, answers[n].bid.value) IN
    Best

\* ... and after all of them.
SelectBestBids(answers) == BestUpTo(answers)[Len(answers)].indices

\* No relay had a valid bid: the call returns NoBidPrepared.
FetchWithoutBids(t) ==
    /\ fetch[t].pc = "gather"
    /\ fetch[t].pending = {}
    /\ fetch[t].bids = << >>
    /\ fetch' = [fetch EXCEPT ![t] = IdleFetch]
    /\ UNCHANGED <<outstanding_bids, slot, open, served, returned>>

\* Mutant of BestRelays: relays with another block of the same value are included.
RelaysWithBestValue(answers, hash) ==
    {r \in Relays : \E i \in SelectBestBids(answers) : answers[i].relay = r}

\* The relays whose best bid is for the block.
BestRelays(answers, hash) ==
    {r \in Relays : \E i \in SelectBestBids(answers) :
        answers[i].relay = r /\ answers[i].bid.block_hash = hash}

\* One of the best bids is picked at random; the relays with a best bid for the same block
\* are remembered, in place of those remembered before.
FetchReturnsBid(t, best) ==
    LET answers == fetch[t].bids
        bid == answers[best].bid IN
    /\ fetch[t].pc = "gather"
    /\ fetch[t].pending = {}
    /\ best \in SelectBestBids(answers)
    /\ outstanding_bids' = [outstanding_bids EXCEPT ![bid.block_hash] =
            [slot |-> fetch[t].slot, relays |-> BestRelays(answers, bid.block_hash)]]
    /\ served' = served \cup {<<bid, BidVersion(bid)>>}
    /\ fetch' = [fetch EXCEPT ![t] = IdleFetch]
    /\ UNCHANGED <<slot, open, returned>>

----------------------------------------------------------------------------
(* open_bid *)

\* The relays to ask are cloned under the lock: forgetting the auction later is harmless.
OpenBid(t, b) ==
    /\ open[t].pc = "idle"
    /\ b.block_hash \in Hashes
    /\ outstanding_bids[b.block_hash] # None
    /\ open' = [open EXCEPT ![t] =
            [pc |-> "gather", block |-> b, pending |-> outstanding_bids[b.block_hash].relays,
             responses |-> << >>]]
    /\ UNCHANGED <<outstanding_bids, slot, fetch, served, returned>>

RelayOpens(t, r, contents) ==
    /\ open[t].pc = "gather"
    /\ r \in open[t].pending
    /\ open' = [open EXCEPT ![t].pending = @ \ {r}, ![t].responses = Append(@, contents)]
    /\ UNCHANGED <<outstanding_bids, slot, fetch, served, returned>>

\* A relay answers with an error, or not within the time allowed.
RelayFailsToOpen(t, r) ==
    /\ open[t].pc = "gather"
    /\ r \in open[t].pending
    /\ open' = [open EXCEPT ![t].pending = @ \ {r}]
    /\ UNCHANGED <<outstanding_bids, slot, fetch, served, returned>>

\* Mutant of ValidatePayload: the blobs are not compared with the block's commitments.
ValidatePayloadHash(contents, block) == contents.block_hash = block.block_hash

\* validate_payload; commitments are None for a block without blobs.
ValidatePayload(contents, block) ==
    /\ contents.block_hash = block.block_hash
    /\ BlobsBundle(contents) = block.commitments

\* All relays have answered or timed out; the first valid payload is returned.
OpenReturns(t) ==
    LET responses == open[t].responses
        valid == {i \in DOMAIN responses : ValidatePayload(responses[i], open[t].block)} IN
    /\ open[t].pc = "gather"
    /\ open[t].pending = {}
    /\ \/ /\ valid = {}
          /\ UNCHANGED returned
       \/ \E i \in valid :
            /\ \A j \in valid : i <= j
            /\ returned' = returned \cup
                {<<open[t].block, responses[i], ContentsVersion(responses[i])>>}
    /\ open' = [open EXCEPT ![t] = IdleOpen]
    /\ UNCHANGED <<outstanding_bids, slot, fetch, served>>

----------------------------------------------------------------------------
FetchNext(t) ==
    \/ \E r \in Relays : RelayHasNoBid(t, r) \/ \E bid \in Bids : RelayAnswers(t, r, bid)
    \/ FetchWithoutBids(t)
    \/ \E best \in DOMAIN fetch[t].bids : FetchReturnsBid(t, best)

OpenNext(t) ==
    \/ \E r \in Relays :
        RelayFailsToOpen(t, r) \/ \E contents \in Contents : RelayOpens(t, r, contents)
    \/ OpenReturns(t)

Next ==
    \/ \E s \in Slots : OnSlot(s)
    \/ \E t \in FetchTasks : FetchNext(t) \/ \E s \in Requests : FetchBestBid(t, s)
    \/ \E t \in OpenTasks : OpenNext(t) \/ \E b \in Blocks : OpenBid(t, b)

Spec == Init /\ [][Next]_vars

----------------------------------------------------------------------------
(* Properties *)

\* The fork that a bid is announced under: a bid for Bellatrix counts as one for Capella,
\* whose fields are the same.
AnnouncedFork(bid) == IF bid.fork = "bellatrix" THEN "capella" ELSE bid.fork

\* A bid has blob commitments if its fork has blobs.
HasFieldsOfFork(bid) == bid.fork = "deneb" <=> bid.commitments # None

\* Once some relay had a valid bid there is one to return (`there is at least one bid'), also
\* when all of them are worth nothing; and the call returns a valid bid that no other beats,
\* announced under its fork, from which the proposer chooses how to read it, if the relay sent
\* the fields of that fork.
BestBidServed ==
    [][\A t \in FetchTasks :
        /\ fetch'[t].bids # << >> => SelectBestBids(fetch'[t].bids) # {}
        /\ fetch[t].bids # << >> /\ fetch'[t] = IdleFetch =>
            \E i \in DOMAIN fetch[t].bids :
                LET bid == fetch[t].bids[i].bid IN
                /\ ValidateBid(bid)
                /\ \A j \in DOMAIN fetch[t].bids : bid.value >= fetch[t].bids[j].bid.value
                /\ \E version \in Forks :
                    /\ <<bid, version>> \in served'
                    /\ HasFieldsOfFork(bid) => version = AnnouncedFork(bid)]_vars

\* A bid that its relay signed, with the blob commitments it has for its fork, is taken
\* into account: its signature holds for what is read of it.
SignedBidsAreGathered ==
    [][\A t \in FetchTasks, r \in Relays, bid \in Bids :
        RelayAnswers(t, r, bid) /\ bid.signature = SigningRoot(bid, bid.commitments) =>
            \E i \in DOMAIN fetch'[t].bids : fetch'[t].bids[i] = [relay |-> r, bid |-> bid]]_vars

\* A bid that was returned to the proposer can be opened for the lifetime of its auction,
\* whatever other calls and the clean-up do meanwhile.
OpenableForLifetime ==
    \A x \in served :
        x[1].slot >= RetainSlot(slot) => outstanding_bids[x[1].block_hash] # None

\* A block is opened with relays that returned a bid for it to the call that served the bid,
\* and with at least one.
AsksRelaysWithTheBid ==
    [][\A h \in Hashes : outstanding_bids'[h] \notin {None, outstanding_bids[h]} =>
        /\ outstanding_bids'[h].relays # {}
        /\ \E t \in FetchTasks : \A r \in outstanding_bids'[h].relays :
            \E i \in DOMAIN fetch[t].bids :
                fetch[t].bids[i].relay = r /\ fetch[t].bids[i].bid.block_hash = h]_vars

\* The proposer only gets contents that match the block it signed, payload and blobs, and is
\* told the fork of the payload, which mev-boost was not told itself.
PayloadMatchesBlock ==
    \A x \in returned :
        /\ x[2].block_hash = x[1].block_hash
        /\ x[2].commitments = x[1].commitments
        /\ x[3] = x[2].fork

=============================================================================
