--------------------------- MODULE RelayAuctions ---------------------------
(***************************************************************************)
(* The auction state of the relay (mev-relay-rs/src/relay.rs) and the      *)
(* handlers that share it: builders submit bids, proposers fetch the best  *)
(* bid and open it, the beacon node announces auctions, and the clock task *)
(* drops what is old.  Every handler runs concurrently with the others; it *)
(* is split here at the points where it takes a lock or awaits.            *)
(*                                                                         *)
(* The validator registry appears as the two facts the handlers read from  *)
(* it: which indices are known and which fee recipient a proposer          *)
(* registered.  ValidatorRegistry models how those facts come about.       *)
(***************************************************************************)
EXTENDS Integers, FiniteSets

CONSTANTS
    Slots,              \* slots that occur: 0..MaxSlot
    MaxSlot,            \* bound: the last slot of the clock
    SLOTS_PER_EPOCH,    \* context.slots_per_epoch
    Hashes,             \* execution block hashes
    Proposers,          \* validators; a validator's index and key are one value
    AcceptedBuilders,   \* builder_registry
    FeeRecipients,      \* execution addresses
    Submissions,        \* the signed submissions builders may send
    Announcements,      \* the auctions the beacon node may announce
    Blocks,             \* the signed blinded blocks proposers may send
    SubmitTasks,        \* concurrent calls of submit_bid
    FetchTasks,         \* concurrent calls of fetch_best_bid
    OpenTasks,          \* concurrent calls of open_bid
    MaxReceipts,        \* bound: submissions received in a behaviour
    None                \* an absent map entry, an empty local variable

(***************************************************************************)
(* Data.  A payload stands for the whole execution payload and for the     *)
(* header derived from it: to_header commits to every field, so headers    *)
(* are equal exactly when payloads are.  A blinded block carries a header  *)
(* and a body (randao, graffiti, attestations ...), which tells apart two  *)
(* blocks of one proposer with the same header.                            *)
(***************************************************************************)
AuctionRequests == [slot : Slots, parent_hash : Hashes, public_key : Proposers]

Payloads == [parent_hash : Hashes, block_hash : Hashes, gas_limit : Nat, gas_used : Nat]

RequestOfSubmission(s) ==
    [slot |-> s.slot, parent_hash |-> s.parent_hash, public_key |-> s.proposer_public_key]

RequestOfBlock(b) ==
    [slot |-> b.slot, parent_hash |-> b.header.parent_hash, public_key |-> b.proposer_index]

AuctionContexts == [submission : Submissions, receive_duration : 1..MaxReceipts]

RequestOf(context) == RequestOfSubmission(context.submission)

UnblindBlock(b, payload) ==
    [slot |-> b.slot, proposer_index |-> b.proposer_index, payload |-> payload, body |-> b.body]

ASSUME BoundsAssumption ==
    /\ MaxSlot \in Nat
    /\ Slots = 0..MaxSlot
    /\ SLOTS_PER_EPOCH \in Nat \ {0}
    /\ MaxReceipts \in Nat
    /\ Announcements \subseteq AuctionRequests

ASSUME SubmissionsAssumption ==
    \A s \in Submissions :
        /\ RequestOfSubmission(s) \in AuctionRequests
        /\ s.payload \in Payloads
        /\ s.value \in Nat
        /\ s.signed \in BOOLEAN

ASSUME BlocksAssumption ==
    \A b \in Blocks :
        /\ RequestOfBlock(b) \in AuctionRequests
        /\ b.header \in Payloads
        /\ b.signed \in BOOLEAN

ASSUME NoneAssumption ==
    /\ None \notin AuctionContexts
    /\ None \notin Submissions
    /\ None \notin Blocks
    /\ None \notin FeeRecipients

\* An auction may be used until this many slots after its proposal slot.
AUCTION_LIFETIME_SLOTS == 1

\* Mutant of HISTORY_LOOK_BEHIND_EPOCHS: no epoch is kept behind the current one.
NoLookBehind == 0

\* Bids and deliveries are kept for this many epochs.
HISTORY_LOOK_BEHIND_EPOCHS == 4

EpochOf(slot) == slot \div SLOTS_PER_EPOCH

VARIABLES
    \* struct State
    open_auctions,          \* auctions announced by the beacon node
    auctions,               \* request -> context of the current best bid
    other_submissions,      \* request -> contexts displaced by a better bid
    delivered_payloads,     \* request -> context handed to the proposer
    \* validator registry, as far as these handlers read it
    known,                  \* validators with an entry in pubkeys_by_index
    fee_recipient,          \* proposer -> registered fee recipient
    \* tasks
    clock,                  \* the clock task: what it does next, current slot and epoch
    submit,                 \* local state of each submit_bid call
    fetch,                  \* local state of each fetch_best_bid call
    open,                   \* local state of each open_bid call
    receipts,               \* submissions received: the source of receive_duration
    \* beacon node
    published,              \* blocks the beacon node has broadcast
    \* history, read by properties only
    registered,             \* proposer -> every fee recipient ever registered
    inserted,               \* every context that was made the best bid
    raced,                  \* auctions whose bid was replaced between lookup and insert
    released                \* <<block, context>> of every successful open_bid

state == <<open_auctions, auctions, other_submissions, delivered_payloads>>
registry == <<known, fee_recipient, registered>>
history == <<inserted, raced, released>>
vars == <<state, registry, clock, submit, fetch, open, receipts, published, history>>

IdleSubmit == [pc |-> "idle", submission |-> None, receive_duration |-> 0, seen |-> None]
IdleFetch == [pc |-> "idle", request |-> None, context |-> None]
IdleOpen == [pc |-> "idle", block |-> None, context |-> None]

StateTypeOK ==
    /\ open_auctions \subseteq AuctionRequests
    /\ auctions \in [AuctionRequests -> AuctionContexts \cup {None}]
    /\ other_submissions \in [AuctionRequests -> SUBSET AuctionContexts]
    /\ delivered_payloads \in [AuctionRequests -> AuctionContexts \cup {None}]

RegistryTypeOK ==
    /\ known \subseteq Proposers
    /\ fee_recipient \in [Proposers -> FeeRecipients \cup {None}]
    /\ registered \in [Proposers -> SUBSET FeeRecipients]

ClockTypeOK ==
    clock \in [pc : {"startup", "startup_prune", "idle", "on_epoch", "prune", "on_slot"},
               slot : Slots, epoch : Nat]

SubmitTypeOK ==
    /\ submit \in [SubmitTasks ->
            [pc : {"idle", "validate", "lookup", "compare", "insert"},
             submission : Submissions \cup {None},
             receive_duration : 0..MaxReceipts,
             seen : AuctionContexts \cup {None}]]
    /\ receipts \in 0..MaxReceipts

FetchTypeOK ==
    fetch \in [FetchTasks ->
            [pc : {"idle", "lookup", "serve"},
             request : AuctionRequests \cup {None},
             context : AuctionContexts \cup {None}]]

OpenTypeOK ==
    open \in [OpenTasks ->
            [pc : {"idle", "lookup", "validate", "post", "accepted"},
             block : Blocks \cup {None},
             context : AuctionContexts \cup {None}]]

HistoryTypeOK ==
    /\ published \subseteq {UnblindBlock(b, s.payload) : b \in Blocks, s \in Submissions}
    /\ inserted \subseteq AuctionContexts
    /\ raced \subseteq AuctionRequests
    /\ released \subseteq Blocks \X AuctionContexts

TypeOK ==
    /\ StateTypeOK
    /\ RegistryTypeOK
    /\ ClockTypeOK
    /\ SubmitTypeOK
    /\ FetchTypeOK
    /\ OpenTypeOK
    /\ HistoryTypeOK

Init ==
    /\ open_auctions = {}
    /\ auctions = [r \in AuctionRequests |-> None]
    /\ other_submissions = [r \in AuctionRequests |-> {}]
    /\ delivered_payloads = [r \in AuctionRequests |-> None]
    /\ known = {}
    /\ fee_recipient = [p \in Proposers |-> None]
    /\ \E s \in Slots : clock = [pc |-> "startup", slot |-> s, epoch |-> EpochOf(s)]
    /\ submit = [t \in SubmitTasks |-> IdleSubmit]
    /\ fetch = [t \in FetchTasks |-> IdleFetch]
    /\ open = [t \in OpenTasks |-> IdleOpen]
    /\ receipts = 0
    /\ published = {}
    /\ registered = [p \in Proposers |-> {}]
    /\ inserted = {}
    /\ raced = {}
    /\ released = {}

----------------------------------------------------------------------------
(***************************************************************************)
(* Clock task.  The first slot of the stream only runs on_epoch; later     *)
(* slots run on_epoch when the epoch changed, and then on_slot.  The       *)
(* stream is external: its slots increase, and slots are skipped when the  *)
(* task was held up.  The validator registry is updated inside on_epoch    *)
(* and the update may fail; the proposer schedule, which on_epoch and      *)
(* on_slot also refresh, touches nothing that is modelled here.            *)
(***************************************************************************)
Tick ==
    /\ clock.pc = "idle"
    /\ \E s \in Slots :
        /\ s > clock.slot
        /\ clock' = IF EpochOf(s) > clock.epoch
                    THEN [pc |-> "on_epoch", slot |-> s, epoch |-> EpochOf(s)]
                    ELSE [clock EXCEPT !.pc = "on_slot", !.slot = s]
    /\ UNCHANGED <<state, registry, submit, fetch, open, receipts, published, history>>

OnEpoch ==
    /\ clock.pc \in {"startup", "on_epoch"}
    /\ \E fetched \in SUBSET Proposers : known' = known \cup fetched
    /\ clock' = [clock EXCEPT !.pc = IF @ = "startup" THEN "startup_prune" ELSE "prune"]
    /\ UNCHANGED <<state, fee_recipient, registered, submit, fetch, open, receipts, published,
                   history>>

CheckedSub(a, b) == IF a >= b THEN a - b ELSE 0

RetainSlot(epoch) == CheckedSub(epoch, HISTORY_LOOK_BEHIND_EPOCHS) * SLOTS_PER_EPOCH

OnEpochPrune ==
    /\ clock.pc \in {"startup_prune", "prune"}
    /\ LET retain_slot == RetainSlot(clock.epoch) IN
        /\ auctions' =
            [r \in AuctionRequests |-> IF r.slot >= retain_slot THEN auctions[r] ELSE None]
        /\ other_submissions' =
            [r \in AuctionRequests |-> IF r.slot >= retain_slot THEN other_submissions[r] ELSE {}]
        /\ delivered_payloads' =
            [r \in AuctionRequests |->
                IF r.slot >= retain_slot THEN delivered_payloads[r] ELSE None]
    /\ clock' = [clock EXCEPT !.pc = IF @ = "startup_prune" THEN "idle" ELSE "on_slot"]
    /\ UNCHANGED <<open_auctions, registry, submit, fetch, open, receipts, published, history>>

OnSlot ==
    /\ clock.pc = "on_slot"
    /\ open_auctions' = {r \in open_auctions : r.slot + AUCTION_LIFETIME_SLOTS >= clock.slot}
    /\ clock' = [clock EXCEPT !.pc = "idle"]
    /\ UNCHANGED <<auctions, other_submissions, delivered_payloads, registry, submit, fetch, open,
                   receipts, published, history>>

(***************************************************************************)
(* The consensus task: a payload attributes event, for any proposal.       *)
(***************************************************************************)
OnPayloadAttributes(r) ==
    /\ r.public_key \in known
    /\ open_auctions' = open_auctions \cup {r}
    /\ UNCHANGED <<auctions, other_submissions, delivered_payloads, registry, clock, submit, fetch,
                   open, receipts, published, history>>

\* A validator registers, or changes its fee recipient (see ValidatorRegistry).
Register(p, f) ==
    /\ p \in known
    /\ fee_recipient' = [fee_recipient EXCEPT ![p] = f]
    /\ registered' = [registered EXCEPT ![p] = @ \cup {f}]
    /\ UNCHANGED <<state, known, clock, submit, fetch, open, receipts, published, history>>

----------------------------------------------------------------------------
(***************************************************************************)
(* submit_bid.  The receive time is taken first; two submissions never get *)
(* the same one (nanosecond resolution), which makes contexts distinct.    *)
(***************************************************************************)
ValidateAuctionRequest(r) == r \in open_auctions

\* Mutant of SubmitBid: the receive time is too coarse to tell submissions apart.
SubmitBidCoarseTime(t, s) ==
    /\ submit[t].pc = "idle"
    /\ receipts < MaxReceipts
    /\ s.builder_public_key \in AcceptedBuilders
    /\ ValidateAuctionRequest(RequestOfSubmission(s))
    /\ receipts' = receipts + 1
    /\ submit' = [submit EXCEPT ![t] =
            [IdleSubmit EXCEPT !.pc = "validate", !.submission = s, !.receive_duration = 1]]
    /\ UNCHANGED <<state, registry, clock, fetch, open, published, history>>

SubmitBid(t, s) ==
    /\ submit[t].pc = "idle"
    /\ receipts < MaxReceipts
    /\ s.builder_public_key \in AcceptedBuilders
    /\ ValidateAuctionRequest(RequestOfSubmission(s))
    /\ receipts' = receipts + 1
    /\ submit' = [submit EXCEPT ![t] =
            [pc |-> "validate", submission |-> s, receive_duration |-> receipts + 1,
             seen |-> None]]
    /\ UNCHANGED <<state, registry, clock, fetch, open, published, history>>

\* Mutant of ValidateBuilderSubmissionTrusted: the fee recipient is not compared.
ValidateTraceOnly(s) ==
    /\ fee_recipient[s.proposer_public_key] # None
    /\ s.gas_limit = s.payload.gas_limit
    /\ s.gas_used = s.payload.gas_used
    /\ s.parent_hash = s.payload.parent_hash
    /\ s.block_hash = s.payload.block_hash

\* The registration is read under the registry's lock, not the relay's.
ValidateBuilderSubmissionTrusted(s) ==
    /\ fee_recipient[s.proposer_public_key] # None
    /\ s.proposer_fee_recipient = fee_recipient[s.proposer_public_key]
    /\ s.gas_limit = s.payload.gas_limit
    /\ s.gas_used = s.payload.gas_used
    /\ s.parent_hash = s.payload.parent_hash
    /\ s.block_hash = s.payload.block_hash

SubmitReturn(t) == submit' = [submit EXCEPT ![t] = IdleSubmit]

SubmitValidate(t) ==
    /\ submit[t].pc = "validate"
    /\ IF /\ ValidateBuilderSubmissionTrusted(submit[t].submission)
          /\ submit[t].submission.signed
       THEN submit' = [submit EXCEPT ![t].pc = "lookup"]
       ELSE SubmitReturn(t)
    /\ UNCHANGED <<state, registry, clock, fetch, open, receipts, published, history>>

(***************************************************************************)
(* insert_bid_if_greater: the best bid is looked up under the lock and its *)
(* Arc kept for the comparison; the Arc is dropped, the context built, and *)
(* the lock taken again for the insert.  `seen' after the comparison is    *)
(* history: the code no longer has it.                                     *)
(***************************************************************************)
SubmitLookup(t) ==
    /\ submit[t].pc = "lookup"
    /\ submit' = [submit EXCEPT ![t].pc = "compare",
                                ![t].seen = auctions[RequestOfSubmission(submit[t].submission)]]
    /\ UNCHANGED <<state, registry, clock, fetch, open, receipts, published, history>>

Value(context) == context.submission.value

\* Mutant of IsLowerBid: a bid lower by one still replaces.
IsMuchLowerBid(s, seen) == seen # None /\ Value(seen) > s.value + 1

\* The stored bid is worth more: the submission is ignored.  Equal bids replace.
IsLowerBid(s, seen) == seen # None /\ Value(seen) > s.value

\* Building the context (header conversion, relay signature) may fail.
SubmitCompare(t) ==
    /\ submit[t].pc = "compare"
    /\ \/ /\ ~IsLowerBid(submit[t].submission, submit[t].seen)
          /\ submit' = [submit EXCEPT ![t].pc = "insert"]
       \/ SubmitReturn(t)
    /\ UNCHANGED <<state, registry, clock, fetch, open, receipts, published, history>>

\* Mutant of ContextOf: the receive time is lost.
ContextWithoutTime(t) == [submission |-> submit[t].submission, receive_duration |-> 0]

ContextOf(t) ==
    [submission |-> submit[t].submission, receive_duration |-> submit[t].receive_duration]

\* Another Arc to the context exists, so that Arc::into_inner yields nothing.
IsShared(context) ==
    \/ \E t \in SubmitTasks : submit[t].pc = "compare" /\ submit[t].seen = context
    \/ \E t \in FetchTasks : fetch[t].context = context
    \/ \E t \in OpenTasks : open[t].context = context
    \/ \E r \in AuctionRequests : delivered_payloads[r] = context

\* Mutant of SubmitInsert: the displaced bid is not saved.
InsertWithoutSaving(t) ==
    LET r == RequestOfSubmission(submit[t].submission)
        old_context == auctions[r] IN
    /\ submit[t].pc = "insert"
    /\ auctions' = [auctions EXCEPT ![r] = ContextOf(t)]
    /\ inserted' = inserted \cup {ContextOf(t)}
    /\ raced' = IF old_context = submit[t].seen THEN raced ELSE raced \cup {r}
    /\ SubmitReturn(t)
    /\ UNCHANGED <<open_auctions, other_submissions, delivered_payloads, registry, clock, fetch,
                   open, receipts, published, released>>

SubmitInsert(t) ==
    LET r == RequestOfSubmission(submit[t].submission)
        old_context == auctions[r] IN
    /\ submit[t].pc = "insert"
    /\ auctions' = [auctions EXCEPT ![r] = ContextOf(t)]
    /\ other_submissions' =
        IF old_context # None /\ ~IsShared(old_context)
        THEN [other_submissions EXCEPT ![r] = @ \cup {old_context}]
        ELSE other_submissions
    /\ inserted' = inserted \cup {ContextOf(t)}
    /\ raced' = IF old_context = submit[t].seen THEN raced ELSE raced \cup {r}
    /\ SubmitReturn(t)
    /\ UNCHANGED <<open_auctions, delivered_payloads, registry, clock, fetch, open, receipts,
                   published, released>>

----------------------------------------------------------------------------
(* fetch_best_bid *)

FetchBestBid(t, r) ==
    /\ fetch[t].pc = "idle"
    /\ ValidateAuctionRequest(r)
    /\ fetch' = [fetch EXCEPT ![t] = [IdleFetch EXCEPT !.pc = "lookup", !.request = r]]
    /\ UNCHANGED <<state, registry, clock, submit, open, receipts, published, history>>

FetchReturn(t) == fetch' = [fetch EXCEPT ![t] = IdleFetch]

FetchLookup(t) ==
    /\ fetch[t].pc = "lookup"
    /\ IF auctions[fetch[t].request] = None
       THEN FetchReturn(t)
       ELSE fetch' = [fetch EXCEPT ![t].pc = "serve", ![t].context = auctions[fetch[t].request]]
    /\ UNCHANGED <<state, registry, clock, submit, open, receipts, published, history>>

FetchServe(t) ==
    /\ fetch[t].pc = "serve"
    /\ FetchReturn(t)
    /\ UNCHANGED <<state, registry, clock, submit, open, receipts, published, history>>

----------------------------------------------------------------------------
(***************************************************************************)
(* open_bid.  The index lookup in the registry and the check of the        *)
(* auction are one step: registry entries are never removed.               *)
(***************************************************************************)
OpenBid(t, b) ==
    /\ open[t].pc = "idle"
    /\ b.proposer_index \in known
    /\ ValidateAuctionRequest(RequestOfBlock(b))
    /\ open' = [open EXCEPT ![t] = [IdleOpen EXCEPT !.pc = "lookup", !.block = b]]
    /\ UNCHANGED <<state, registry, clock, submit, fetch, receipts, published, history>>

OpenReturn(t) == open' = [open EXCEPT ![t] = IdleOpen]

\* Mutant of ValidateHeaderEquality: only the position in the chain is compared.
ValidateParentHash(payload, header) == payload.parent_hash = header.parent_hash

ValidateHeaderEquality(payload, header) == payload = header

\* The context is cloned under the lock; the checks and the unblinding use the clone.
OpenLookup(t) ==
    LET context == auctions[RequestOfBlock(open[t].block)] IN
    /\ open[t].pc = "lookup"
    /\ \/ /\ context # None
          /\ open' = [open EXCEPT ![t].pc = "validate", ![t].context = context]
       \/ /\ context = None
          /\ OpenReturn(t)
    /\ UNCHANGED <<state, registry, clock, submit, fetch, receipts, published, history>>

IsValidBlock(t) ==
    /\ ValidateHeaderEquality(open[t].context.submission.payload, open[t].block.header)
    /\ open[t].block.signed

OpenValidate(t) ==
    /\ open[t].pc = "validate"
    /\ \/ IsValidBlock(t) /\ open' = [open EXCEPT ![t].pc = "post"]
       \/ ~IsValidBlock(t) /\ OpenReturn(t)
    /\ UNCHANGED <<state, registry, clock, submit, fetch, receipts, published, history>>

UnblindedBlock(t) == UnblindBlock(open[t].block, open[t].context.submission.payload)

\* The beacon node has broadcast another block for the proposal.
Equivocates(block) ==
    \E other \in published :
        /\ other.slot = block.slot
        /\ other.proposer_index = block.proposer_index
        /\ other # block

(***************************************************************************)
(* The beacon node answers post_signed_beacon_block_v2 with broadcast      *)
(* validation `consensus_and_equivocation'.  It may turn down any block;   *)
(* it never accepts a block that equivocates.                              *)
(***************************************************************************)
BeaconAccept(t) ==
    /\ open[t].pc = "post"
    /\ ~Equivocates(UnblindedBlock(t))
    /\ published' = published \cup {UnblindedBlock(t)}
    /\ open' = [open EXCEPT ![t].pc = "accepted"]
    /\ UNCHANGED <<state, registry, clock, submit, fetch, receipts, history>>

\* The answer is an error: the block was turned down, or the answer was lost.
OpenPostFails(t) ==
    /\ open[t].pc \in {"post", "accepted"}
    /\ OpenReturn(t)
    /\ UNCHANGED <<state, registry, clock, submit, fetch, receipts, published, history>>

\* Mutant of StoreDeliveredPayload: the delivery is not recorded.
ForgetDeliveredPayload(r, context) == UNCHANGED delivered_payloads

StoreDeliveredPayload(r, context) ==
    IF delivered_payloads[r] \notin {None, context}
    THEN UNCHANGED delivered_payloads
    ELSE delivered_payloads' = [delivered_payloads EXCEPT ![r] = context]

\* Mutant of OpenDeliver: the payload is handed out without the beacon node's consent.
DeliverUnpublished(t) ==
    /\ open[t].pc \in {"post", "accepted"}
    /\ StoreDeliveredPayload(RequestOfBlock(open[t].block), open[t].context)
    /\ released' = released \cup {<<open[t].block, open[t].context>>}
    /\ OpenReturn(t)
    /\ UNCHANGED <<open_auctions, auctions, other_submissions, registry, clock, submit, fetch,
                   receipts, published, inserted, raced>>

OpenDeliver(t) ==
    /\ open[t].pc = "accepted"
    /\ StoreDeliveredPayload(RequestOfBlock(open[t].block), open[t].context)
    /\ released' = released \cup {<<open[t].block, open[t].context>>}
    /\ OpenReturn(t)
    /\ UNCHANGED <<open_auctions, auctions, other_submissions, registry, clock, submit, fetch,
                   receipts, published, inserted, raced>>

----------------------------------------------------------------------------
(* The data API: what get_delivered_payloads and get_block_submissions list for an auction. *)

DeliveredPayloads(r) == {delivered_payloads[r]} \ {None}

BlockSubmissions(r) == ({auctions[r]} \cup other_submissions[r]) \ {None}

----------------------------------------------------------------------------
ClockNext == Tick \/ OnEpoch \/ OnEpochPrune \/ OnSlot

SubmitNext(t) ==
    \/ SubmitValidate(t)
    \/ SubmitLookup(t)
    \/ SubmitCompare(t)
    \/ SubmitInsert(t)

FetchNext(t) == FetchLookup(t) \/ FetchServe(t)

OpenNext(t) ==
    \/ OpenLookup(t)
    \/ OpenValidate(t)
    \/ BeaconAccept(t)
    \/ OpenPostFails(t)
    \/ OpenDeliver(t)

Next ==
    \/ ClockNext
    \/ \E r \in Announcements : OnPayloadAttributes(r)
    \/ \E p \in Proposers, f \in FeeRecipients : Register(p, f)
    \/ \E t \in SubmitTasks : SubmitNext(t) \/ \E s \in Submissions : SubmitBid(t, s)
    \/ \E t \in FetchTasks : FetchNext(t) \/ \E r \in Announcements : FetchBestBid(t, r)
    \/ \E t \in OpenTasks : OpenNext(t) \/ \E b \in Blocks : OpenBid(t, b)

Spec == Init /\ [][Next]_vars

----------------------------------------------------------------------------
(***************************************************************************)
(* Properties                                                              *)
(***************************************************************************)

\* The data API lists `auctions' and `other_submissions' together, so a submission must
\* be in one of them only: the best bid of an auction is not among the other submissions.
BestNotInOthers == \A r \in AuctionRequests : auctions[r] \notin other_submissions[r]

StoredContexts(r) == BlockSubmissions(r) \cup DeliveredPayloads(r)

\* Every context the relay keeps is filed under its own request and passed every check of
\* submit_bid: an accepted builder signed it, its trace agrees with its payload, and it pays
\* an address that the proposer registered (not necessarily the latest one).
StoredBidsAreValid ==
    \A r \in AuctionRequests : \A c \in StoredContexts(r) :
        LET s == c.submission IN
        /\ RequestOf(c) = r
        /\ s.builder_public_key \in AcceptedBuilders
        /\ s.signed
        /\ s.proposer_fee_recipient \in registered[r.public_key]
        /\ s.parent_hash = s.payload.parent_hash
        /\ s.block_hash = s.payload.block_hash
        /\ s.gas_limit = s.payload.gas_limit
        /\ s.gas_used = s.payload.gas_used

Retained(r) == r.slot >= RetainSlot(clock.epoch)

\* insert_bid_if_greater keeps the best bid of every auction in the look-behind window, as
\* long as no two inserts for the auction overlapped.
BestBidUnlessRaced ==
    \A c \in inserted :
        Retained(RequestOf(c)) /\ RequestOf(c) \notin raced =>
            /\ auctions[RequestOf(c)] # None
            /\ Value(auctions[RequestOf(c)]) >= Value(c)

\* The two clean-ups agree: on_epoch never takes the bids of an auction that on_slot still
\* keeps open at the clock's slot.
LiveAuctionKeepsBid ==
    \A c \in inserted :
        RequestOf(c).slot + AUCTION_LIFETIME_SLOTS >= clock.slot => auctions[RequestOf(c)] # None

\* open_bid hands out a payload only for a block that its proposer signed over this very
\* payload and that the beacon node has broadcast, whatever happened to the auction while
\* the call was waiting.
ReleasedWasPublished ==
    \A rel \in released :
        LET b == rel[1]
            payload == rel[2].submission.payload IN
        /\ b.signed
        /\ b.header = payload
        /\ UnblindBlock(b, payload) \in published

\* A proposer gets the payload of at most one block for its slot: a second blinded block
\* (other header, other parent or other body) never yields a payload.
OneReleasePerProposal ==
    \A x, y \in released :
        x[1].slot = y[1].slot /\ x[1].proposer_index = y[1].proposer_index =>
            UnblindBlock(x[1], x[2].submission.payload) = UnblindBlock(y[1], y[2].submission.payload)

\* Every payload handed out in the look-behind window is on record for the data API, also
\* when the answer came after clean-ups or after other deliveries.
ReleasedIsRecorded ==
    \A rel \in released :
        LET r == RequestOfBlock(rel[1]) IN
        Retained(r) =>
            /\ delivered_payloads[r] # None
            /\ delivered_payloads[r].submission.payload = rel[2].submission.payload

\* insert_bid_if_greater saves the bid it displaces: a submission leaves the listing of the data
\* API only with its auction, at the end of the look-behind window, or because another call or
\* the record of a delivery still holds its Arc when it is displaced.
SubmissionsStayListed ==
    [][\A r \in AuctionRequests : \A c \in BlockSubmissions(r) :
        c \in BlockSubmissions(r)' \/ ~Retained(r) \/ IsShared(c)]_vars

(***************************************************************************)
(* The relay implements PayloadDelivery: a block counts as broadcast when  *)
(* the beacon node has accepted it, as delivered when open_bid has         *)
(* returned its payload, and its record is the entry of                    *)
(* `delivered_payloads'.                                                   *)
(***************************************************************************)
RecordOfContext(context) ==
    [slot |-> context.submission.slot, proposer_index |-> context.submission.proposer_public_key,
     payload |-> context.submission.payload]

Delivery == INSTANCE PayloadDelivery WITH
    Signed <- {UnblindBlock(b, b.header) : b \in {x \in Blocks : x.signed}},
    broadcast <- published,
    delivered <- {UnblindBlock(rel[1], rel[2].submission.payload) : rel \in released},
    records <- {RecordOfContext(delivered_payloads[r]) :
                    r \in {q \in AuctionRequests : delivered_payloads[q] # None}}

\* Whatever bids, calls and clean-ups do meanwhile, the relay behaves as PayloadDelivery: only
\* signed blocks are broadcast, one per proposal; only payloads of broadcast blocks are given
\* out; each of these is put on record in the same step, and a record only disappears.
DeliversPayloads == Delivery!Spec

=============================================================================
