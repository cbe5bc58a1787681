----------------------------- MODULE Auctioneer -----------------------------
(***************************************************************************)
(* The builder's auctioneer (mev-build-rs/src/auctioneer/service.rs and    *)
(* auction_schedule.rs).  One task takes turns between three inputs: the   *)
(* clock's messages, the payload service's events and the payloads that    *)
(* the payload jobs have finished.  It learns from the relays who proposes *)
(* when, opens an auction for each proposal when the attributes of its     *)
(* slot are announced, and submits finished payloads to the relays.        *)
(*                                                                         *)
(* The payload service of reth and the payload jobs are external here: a   *)
(* job that was started sends any number of payloads until its deadline.   *)
(***************************************************************************)
EXTENDS Integers, Sequences, FiniteSets, Functions

CONSTANTS
    Relays,             \* indices of the configured relays
    MaxSlot,            \* bound: the last slot of the clock
    SLOTS_PER_EPOCH,    \* context.slots_per_epoch
    Proposers,          \* [public_key, fee_recipient, gas_limit]
    Entries,            \* [slot, proposer] that relays may report
    Attributes,         \* [slot, id]: what the engine API may announce; an id is a sequence
    ClockCapacity,      \* DEFAULT_COMPONENT_CHANNEL_SIZE for the clock (scaled down for TLC)
    BidCapacity,        \* DEFAULT_COMPONENT_CHANNEL_SIZE for the payloads (scaled down for TLC)
    EventCapacity       \* capacity of reth's event channel (scaled down for TLC)

Slots == 0..MaxSlot

EpochOf(slot) == slot \div SLOTS_PER_EPOCH

FirstSlot(epoch) == epoch * SLOTS_PER_EPOCH

ASSUME AuctioneerAssumption ==
    /\ MaxSlot \in Nat
    /\ SLOTS_PER_EPOCH \in Nat \ {0}
    /\ ClockCapacity \in Nat \ {0, 1}
    /\ BidCapacity \in Nat \ {0}
    /\ EventCapacity \in Nat \ {0}
    /\ \A e \in Entries : e.slot \in Slots /\ e.proposer \in Proposers
    /\ \A a \in Attributes : a.slot \in Slots /\ a.id = <<a.id[1]>>
    \* payload_id hashes the timestamp, so that an id belongs to one slot
    /\ \A a, b \in Attributes : a.id = b.id => a.slot = b.slot

VARIABLES
    \* struct Service
    auction_schedule,               \* slot -> set of <<proposer, relay>>
    open_auctions,                  \* payload id -> auction
    processed_payload_attributes,   \* slot -> payload ids
    task,                           \* what the task is doing
    \* its inputs
    clock,          \* messages of the clock task, oldest first
    lagged,         \* the clock's channel overflowed and the task was not told yet
    events,         \* payload attributes announced by the payload service
    bids,           \* finished payloads
    \* external
    now,            \* slot of the wall clock
    jobs,           \* payload jobs that are running, or have a payload in a finalizer
    \* history, read by properties only
    reported,       \* <<slot, proposer, relay>> of every schedule a relay sent
    announced,      \* the first handling of each announcement: [slot, id, proposals], with
                    \* the proposals as <<proposer, relay>> that were known by then
    retain_slot,    \* first slot of the epoch that was processed last
    submitted       \* <<relay, submission>> sent for the payload submitted last

state == <<auction_schedule, open_auctions, processed_payload_attributes>>
inputs == <<clock, lagged, events, bids>>
history == <<reported, announced, retain_slot, submitted>>
vars == <<state, task, inputs, now, jobs, history>>

IdleTask == [pc |-> "idle", slot |-> 0, id |-> << >>, todo |-> {}]

NewSlot(slot) == [kind |-> "slot", at |-> slot]
NewEpoch(epoch) == [kind |-> "epoch", at |-> epoch]

AuctionsTypeOK ==
    \A id \in DOMAIN open_auctions :
        /\ open_auctions[id].slot \in Slots
        /\ open_auctions[id].id = id
        /\ open_auctions[id].proposer \in Proposers
        /\ open_auctions[id].relays \in (SUBSET Relays) \ {{}}

TypeOK ==
    /\ auction_schedule \in [Slots -> SUBSET (Proposers \X Relays)]
    /\ AuctionsTypeOK
    /\ DOMAIN processed_payload_attributes = Slots
    /\ task.pc \in {"startup", "idle", "opening", "panicked"}
    /\ task.slot \in Slots
    /\ task.todo \subseteq Proposers
    /\ clock \in Seq([kind : {"slot", "epoch"}, at : Slots]) /\ Len(clock) <= ClockCapacity
    /\ lagged \in BOOLEAN
    /\ Len(events) <= EventCapacity
    /\ Len(bids) <= BidCapacity
    /\ now \in Slots
    /\ \A j, k \in jobs : j.id = k.id => j = k
    /\ reported \subseteq Slots \X Proposers \X Relays
    /\ retain_slot \in Slots

Init ==
    /\ auction_schedule = [s \in Slots |-> {}]
    /\ open_auctions = << >>
    /\ processed_payload_attributes = [s \in Slots |-> {}]
    /\ task = [IdleTask EXCEPT !.pc = "startup"]
    /\ now \in Slots
    /\ clock = <<NewSlot(now), NewEpoch(EpochOf(now))>>
    /\ lagged = FALSE
    /\ events = << >>
    /\ bids = << >>
    /\ jobs = {}
    /\ reported = {}
    /\ announced = {}
    /\ retain_slot = 0
    /\ submitted = {}

----------------------------------------------------------------------------
(***************************************************************************)
(* A broadcast channel keeps the latest messages.  A receiver that missed  *)
(* some is told so once (RecvError::Lagged).                               *)
(***************************************************************************)
\* Mutant of Latest: nothing is dropped.
AllMessages(queue, capacity) == queue

Latest(queue, capacity) ==
    IF Len(queue) <= capacity THEN queue
    ELSE SubSeq(queue, Len(queue) - capacity + 1, Len(queue))

\* The clock task: each slot, and after it each new epoch.
Tick ==
    /\ \E s \in Slots :
        /\ s > now
        /\ now' = s
        /\ LET sent == IF EpochOf(s) > EpochOf(now)
                       THEN clock \o <<NewSlot(s), NewEpoch(EpochOf(s))>>
                       ELSE Append(clock, NewSlot(s)) IN
            /\ clock' = Latest(sent, ClockCapacity)
            /\ lagged' = (lagged \/ Len(sent) > ClockCapacity)
    /\ UNCHANGED <<state, task, events, bids, jobs, history>>

\* The engine API announces attributes for a proposal that is not over.  The task subscribes
\* at the end of its start-up and misses what was announced before.
Announce(a) ==
    /\ task.pc # "startup"
    /\ a.slot >= now
    /\ events' = Latest(Append(events, a), EventCapacity)
    /\ UNCHANGED <<state, task, clock, lagged, bids, now, jobs, history>>

\* A payload of a job is finalized and sent; the finalizer waits while the channel is full, for
\* as long as it takes.  It may outlive the job, which counts as running until then.
JobDelivers(j) ==
    /\ Len(bids) < BidCapacity
    /\ bids' = Append(bids, j)
    /\ UNCHANGED <<state, task, clock, lagged, events, now, jobs, history>>

JobEnds(j) ==
    /\ jobs' = jobs \ {j}
    /\ UNCHANGED <<state, task, inputs, now, history>>

----------------------------------------------------------------------------
(***************************************************************************)
(* fetch_proposer_schedules: the relays are asked one after the other; an  *)
(* error is logged.  A relay reports proposals of its current epoch and    *)
(* later ones, and may be a slot behind.                                   *)
(***************************************************************************)
ReportableEntries ==
    {e \in Entries : e.slot >= FirstSlot(EpochOf(IF now = 0 THEN 0 ELSE now - 1))}

FetchProposerSchedules ==
    \E answers \in SUBSET (ReportableEntries \X Relays) :
        /\ auction_schedule' = [s \in Slots |-> auction_schedule[s] \cup
                {<<x[1].proposer, x[2]>> : x \in {y \in answers : y[1].slot = s}}]
        /\ reported' = reported \cup {<<x[1].slot, x[1].proposer, x[2]>> : x \in answers}

Startup ==
    /\ task.pc = "startup"
    /\ FetchProposerSchedules
    /\ task' = IdleTask
    /\ UNCHANGED <<open_auctions, processed_payload_attributes, inputs, now, jobs, announced,
                   retain_slot, submitted>>

PROPOSAL_SCHEDULE_INTERVAL == 2

(***************************************************************************)
(* The branch of the clock.  A lag error disables the branch until another *)
(* branch has been taken.                                                  *)
(***************************************************************************)
ClockReceives(kind) ==
    /\ task.pc = "idle"
    /\ ~lagged
    /\ clock # << >>
    /\ Head(clock).kind = kind
    /\ clock' = Tail(clock)

OnSlot ==
    /\ ClockReceives("slot")
    /\ IF (Head(clock).at * PROPOSAL_SCHEDULE_INTERVAL) % SLOTS_PER_EPOCH = 0
       THEN FetchProposerSchedules
       ELSE UNCHANGED <<auction_schedule, reported>>
    /\ UNCHANGED <<open_auctions, processed_payload_attributes, task, lagged, events, bids, now,
                   jobs, announced, retain_slot, submitted>>

\* Mutant of OnEpoch: the first slot of the epoch is cleared too.
OnEpochEarly ==
    /\ ClockReceives("epoch")
    /\ retain_slot' = FirstSlot(Head(clock).at)
    /\ auction_schedule' = [s \in Slots |-> IF s > retain_slot' THEN auction_schedule[s] ELSE {}]
    /\ open_auctions' = Restrict(open_auctions,
            {id \in DOMAIN open_auctions : open_auctions[id].slot > retain_slot'})
    /\ processed_payload_attributes' = [s \in Slots |->
            IF s > retain_slot' THEN processed_payload_attributes[s] ELSE {}]
    /\ UNCHANGED <<task, lagged, events, bids, now, jobs, reported, announced, submitted>>

OnEpoch ==
    /\ ClockReceives("epoch")
    /\ retain_slot' = FirstSlot(Head(clock).at)
    /\ auction_schedule' = [s \in Slots |-> IF s >= retain_slot' THEN auction_schedule[s] ELSE {}]
    /\ open_auctions' = Restrict(open_auctions,
            {id \in DOMAIN open_auctions : open_auctions[id].slot >= retain_slot'})
    /\ processed_payload_attributes' = [s \in Slots |->
            IF s >= retain_slot' THEN processed_payload_attributes[s] ELSE {}]
    /\ UNCHANGED <<task, lagged, events, bids, now, jobs, reported, announced, submitted>>

\* Another branch is taken: the clock's branch may have been polled before, and told.
OtherBranch ==
    /\ task.pc = "idle"
    /\ \E told \in BOOLEAN : lagged' = (lagged /\ ~told)

----------------------------------------------------------------------------
(* on_payload_attributes and open_auction *)

GetProposals(slot) == {p \in Proposers : \E r \in Relays : <<p, r>> \in auction_schedule[slot]}

\* Mutant of RelaysOf: every relay with a proposal for the slot.
RelaysOfSlot(slot, p) == {r \in Relays : \E q \in Proposers : <<q, r>> \in auction_schedule[slot]}

RelaysOf(slot, p) == {r \in Relays : <<p, r>> \in auction_schedule[slot]}

IsNew(slot, id) == id \notin processed_payload_attributes[slot]

ObservePayloadId(slot, id) ==
    processed_payload_attributes' = [processed_payload_attributes EXCEPT ![slot] = @ \cup {id}]

OnPayloadAttributes ==
    LET a == Head(events)
        proposals == GetProposals(a.slot) IN
    /\ events # << >>
    /\ OtherBranch
    /\ events' = Tail(events)
    /\ ObservePayloadId(a.slot, a.id)
    /\ task' = IF IsNew(a.slot, a.id) /\ proposals # {}
               THEN [pc |-> "opening", slot |-> a.slot, id |-> a.id, todo |-> proposals]
               ELSE task
    /\ announced' = IF a \in Attributes /\ ~\E x \in announced : x.id = a.id
                    THEN announced \cup {[slot |-> a.slot, id |-> a.id,
                                          proposals |-> auction_schedule[a.slot]]}
                    ELSE announced
    /\ UNCHANGED <<auction_schedule, open_auctions, clock, bids, now, jobs, reported, retain_slot,
                   submitted>>

\* Mutant of MixProposalIntoPayloadId: the fee recipient is left out.
MixGasLimitIntoPayloadId(id, p) == Append(id, <<p.gas_limit>>)

\* The hash is taken to be injective; the proposer's key is not part of it.
MixProposalIntoPayloadId(id, p) == Append(id, <<p.gas_limit, p.fee_recipient>>)

\* store_auction keeps an auction that has the payload id already.
StoreAuction(auction) ==
    IF auction.id \in DOMAIN open_auctions THEN open_auctions
    ELSE [id \in DOMAIN open_auctions \cup {auction.id} |->
            IF id = auction.id THEN auction ELSE open_auctions[id]]

\* What the payload service gets to know of an auction.
JobOf(auction) ==
    [slot |-> auction.slot, id |-> auction.id, fee_recipient |-> auction.proposer.fee_recipient,
     gas_limit |-> auction.proposer.gas_limit]

IsRunning(id) == \E j \in jobs : j.id = id

\* new_payload starts a job and announces its attributes, unless the job is running already.
StartJob(auction) ==
    IF IsRunning(auction.id) THEN UNCHANGED <<jobs, events>>
    ELSE /\ jobs' = jobs \cup {JobOf(auction)}
         /\ events' = Latest(Append(events, [slot |-> auction.slot, id |-> auction.id]),
                             EventCapacity)

NextProposal(p) == IF task.todo = {p} THEN IdleTask ELSE [task EXCEPT !.todo = @ \ {p}]

\* Mutant of OpenAuction: the attributes of the new job are not recorded as processed.
OpenAuctionUnobserved(p) ==
    LET id == MixProposalIntoPayloadId(task.id, p) IN
    /\ task.pc = "opening"
    /\ p \in task.todo
    /\ open_auctions' = StoreAuction(
            [slot |-> task.slot, id |-> id, proposer |-> p, relays |-> RelaysOf(task.slot, p)])
    /\ StartJob(open_auctions'[id])
    /\ task' = NextProposal(p)
    /\ UNCHANGED <<auction_schedule, processed_payload_attributes, clock, lagged, bids, now,
                   history>>

\* One proposal; the payload service may refuse, and then nothing is observed.
OpenAuction(p) ==
    LET id == MixProposalIntoPayloadId(task.id, p) IN
    /\ task.pc = "opening"
    /\ p \in task.todo
    /\ open_auctions' = StoreAuction(
            [slot |-> task.slot, id |-> id, proposer |-> p, relays |-> RelaysOf(task.slot, p)])
    /\ \/ /\ StartJob(open_auctions'[id])
          /\ ObservePayloadId(task.slot, id)
       \/ /\ ~IsRunning(id)
          /\ UNCHANGED <<jobs, events, processed_payload_attributes>>
    /\ task' = NextProposal(p)
    /\ UNCHANGED <<auction_schedule, clock, lagged, bids, now, history>>

----------------------------------------------------------------------------
(***************************************************************************)
(* submit_payload.  The submission is signed for the auction's proposer    *)
(* and sent to its relays, whatever the others of them answer; preparing   *)
(* it fails for a fork that is not supported.  Without an auction the task *)
(* panics (`has auction').                                                 *)
(***************************************************************************)
\* The trace names slot and proposer of the auction; the rest of it is the payload's.
PrepareSubmission(payload, auction) ==
    [slot |-> auction.slot, proposer |-> auction.proposer, payload |-> payload]

SubmitPayload ==
    LET payload == Head(bids) IN
    /\ bids # << >>
    /\ OtherBranch
    /\ bids' = Tail(bids)
    /\ \/ /\ payload.id \in DOMAIN open_auctions
          /\ LET auction == open_auctions[payload.id] IN
                \/ submitted' = auction.relays \X {PrepareSubmission(payload, auction)}
                \/ UNCHANGED submitted
          /\ UNCHANGED task
       \/ /\ payload.id \notin DOMAIN open_auctions
          /\ task' = [IdleTask EXCEPT !.pc = "panicked", !.slot = payload.slot]
          /\ UNCHANGED submitted
    /\ UNCHANGED <<state, clock, events, now, jobs, reported, announced, retain_slot>>

----------------------------------------------------------------------------
Next ==
    \/ Tick
    \/ \E a \in Attributes : Announce(a)
    \/ \E j \in jobs : JobDelivers(j) \/ JobEnds(j)
    \/ Startup
    \/ OnSlot
    \/ OnEpoch
    \/ OnPayloadAttributes
    \/ \E p \in Proposers : OpenAuction(p)
    \/ SubmitPayload

Spec == Init /\ [][Next]_vars

----------------------------------------------------------------------------
(* Properties *)

\* new_payload announces the attributes of the auction's own job; these are recognised as
\* duplicates, so that no auction is opened on top of an auction, whatever was cleared or
\* lost between the two.
NoAuctionOnAuction == \A id \in DOMAIN open_auctions : Len(id) = 2

\* A relay only gets submissions for proposals it reported itself, and the payload was built
\* for the proposer named in the submission: its fee recipient and its gas limit.
SubmissionsAreWanted ==
    \A x \in submitted : LET s == x[2] IN
        /\ <<s.slot, s.proposer, x[1]>> \in reported
        /\ s.payload.slot = s.slot
        /\ s.payload.fee_recipient = s.proposer.fee_recipient
        /\ s.payload.gas_limit = s.proposer.gas_limit

\* When attributes are handled, every proposal that any relay has reported for their slot by
\* then gets an auction with its fee recipient and gas limit, which lasts until the epoch is
\* over and goes to this relay, unless another proposer with the same two owns it.  Reports
\* that come later add nothing, and take nothing away.
ProposalsAreAuctioned ==
    task.pc # "opening" =>
        \A a \in announced : a.slot >= retain_slot => \A x \in a.proposals :
            \E id \in DOMAIN open_auctions :
                LET auction == open_auctions[id] IN
                /\ auction.slot = a.slot
                /\ id[1] = a.id[1]
                /\ auction.proposer.fee_recipient = x[1].fee_recipient
                /\ auction.proposer.gas_limit = x[1].gas_limit
                /\ auction.proposer = x[1] => x[2] \in auction.relays
                /\ auction.proposer # x[1] =>
                    \E r \in auction.relays : <<auction.proposer, r>> \in a.proposals

\* submit_payload: a payload that arrives has an auction.
HasAuction == task.pc # "panicked"

\* The only payloads without an auction are late ones, for a slot of a past epoch.
OnlyLatePayloadsPanic == task.pc = "panicked" => task.slot < retain_slot

=============================================================================
