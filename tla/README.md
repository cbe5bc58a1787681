# A formal model of mev-rs

mev-rs implements the roles of proposer-builder separation for Ethereum: a
*relay* between builders and proposers (`mev-relay-rs`), a *multiplexer* that a
proposer runs in front of many relays (`mev-boost-rs`) and a *builder*
(`mev-build-rs`, on top of reth), with shared types and services in `mev-rs`.
This directory has TLA+ modules for the parts of these programs that keep state,
TLC configurations that check them on small instances, and theorems with proofs
checked by TLAPS. `PROJECT.json` maps every definition to the lines it models
and lists runs, mutants, findings, hazards and theorems.

## 1. The system

### Parts and how they interact

```
 proposer --- mev-boost (RelayMux) --- relay (Relay) --- builder (Auctioneer)
                                        |      |            |          |
                                  beacon node  clock     bidder   payload jobs --- reth
```

| Part | Source | State | Operations |
|------|--------|-------|------------|
| Relay auctions | `mev-relay-rs/src/relay.rs`, `auction_context.rs` | `open_auctions`, `auctions`, `other_submissions`, `delivered_payloads` behind one mutex | `submit_bid` (builders), `fetch_best_bid` and `open_bid` (proposers), `on_payload_attributes` (event stream of the beacon node), `on_slot`, `on_epoch` (clock task); the data API reads |
| Validator registry | `mev-rs/src/validator_registry.rs` | registrations and the beacon state's validators behind a read-write lock | `process_registrations`, `on_epoch`, lookups |
| Proposer scheduler | `mev-rs/src/proposer_scheduler.rs` | the schedule behind a mutex | `on_epoch`, `get_proposal_schedule` |
| Relay multiplexer | `mev-boost-rs/src/relay_mux.rs` | `outstanding_bids` behind a mutex | `register_validators`, `fetch_best_bid`, `open_bid`, `on_slot` |
| Auctioneer | `mev-build-rs/src/auctioneer/` | schedule, open auctions, processed payload ids; owned by one task with three input channels | `on_slot`, `on_epoch`, `on_payload_attributes`, `submit_payload` |
| Payload job and bidder | `mev-build-rs/src/payload/job.rs`, `job_generator.rs`, `bidder/` | best payload, pending build, pending bid update; stored execution outcomes | `poll`, `resolve`, `start_bid`, `finalize_payload` |
| Block building | `mev-build-rs/src/payload/builder.rs`, `mev-rs/src/block_validation.rs`, `bidder/strategies/basic.rs` | sums of gas, blob gas and fees of a build; the header; the signer's wallet | `try_build`, `build_empty_payload`, `compute_value`, `append_payment` |
| Payload attributes | `mev-build-rs/src/payload/attributes.rs` | none | `mix_proposal_into_payload_id` |
| Messages of the builder API | `mev-rs/src/types/`, `mev-rs/src/blinded_block_provider/` | none | reading a message, announcing its version |
| Routing, signatures, configuration | see `PROJECT.json` | none of their own | not modelled |

The relay's `register_validators` stores registrations in the registry, then
reports the updated keys to the relay's `outstanding_validator_updates`; the
clock task drains them at every slot and refreshes the scheduler, which reads the
registry again. Auctions exist for the proposals the beacon node announces; bids
are checked against the registry; an opened bid goes through the beacon node
before the payload is released. The builder's auctioneer asks its relays for
proposers, opens an auction and a payload job for each proposal it gets payload
attributes for, and the job, through its bidder and a finalizer, sends payloads
back to the auctioneer, which submits them to the relays.

### What is hard here

* **Interleavings.** Every HTTP request is a task of its own. The handlers of the
  relay and the registry check under one lock and change state under a later one;
  `open_bid` waits for the beacon node in between.
* **Messages.** Answers of the beacon node and of relays fail, are late or lost
  after they took effect. The builder's tasks are joined by bounded channels: one
  drops the oldest messages (clock), one blocks the sender (payloads), one refuses
  (revenue updates).
* **Time.** Three clean-ups (by slot in the relay and in mev-boost, by epoch in
  the relay and in the auctioneer) race requests that are under way.
* **Numbers.** Gas limits with strict bounds on both sides, a reservation that is
  subtracted and partly added back, a fraction rounded to a percentage, a bid paid
  from a wallet that may be empty, seconds against nanoseconds.
* **Versions.** Messages have a variant per fork and no tag that is read: what a
  message is follows from the order in which the variants are tried.

### What makes each part correct

* Relay: the best bid stays the best; a payload is released only for a signed and
  broadcast block, for one block per proposal; deliveries stay on record; only
  checked bids are stored, and stay listed; the clean-ups do not take what is still
  needed.
* Registry: stored registrations are authentic and only replaced by newer ones;
  no update is lost on its way to the schedule.
* Scheduler: the schedule is ordered, sound, complete and current after a refresh.
* Multiplexer: every signed bid counts; a best valid bid is served, stays openable
  for its lifetime at relays that have it; the contents returned belong to the signed
  block; the proposer is told the fork of what it gets.
* Auctioneer: every known proposal is auctioned once and only for relays that
  asked; finished payloads have an auction.
* Job and bidder: a payload is finalized on its own outcome; neither side waits
  for the other forever, and the bidder ends with its job.
* Builder: blocks fit into their limits and are full; the payment is covered
  and leaves the gas limit within the tolerance; the promised bid is paid, and costs
  the builder no more than it configured.

## 2. Modules

| Module | Models |
|--------|--------|
| `RelayAuctions` | the auction state of the relay, its handlers and what its data API lists |
| `PayloadDelivery` | abstract: what the relay promises about a proposal; `RelayAuctions` implements it |
| `ValidatorRegistry` | the registry, `register_validators`, draining of updates |
| `ProposerScheduler` | the scheduler and the clock task that refreshes it |
| `BuilderApi` | how messages of the builder API are read and announced (operators) |
| `RelayMux` | the multiplexer of mev-boost, with `BuilderApi` for the messages it passes on |
| `Auctioneer` | the auctioneer task, its channels, the jobs it starts (from outside) |
| `PayloadJob` | one job with its builds, its bidder and its finalizers |
| `BlockBuilder` | one build, the bid for it and the payment appended to it |
| `MC...` | the inputs of the runs of the module of that name |
| `RelayAuctionsProofs`, `RelayDeliveryProofs` | theorems about `RelayAuctions`; the second has its clean-ups, its checks and the refinement of `PayloadDelivery` |
| `ValidatorRegistryProofs`, `ProposerSchedulerProofs`, `RelayMuxProofs`, `AuctioneerProofs`, `PayloadJobProofs`, `BlockBuilderProofs` | theorems about the module of that name |

Variables keep the names of the fields they model. A handler is split into
actions where it takes or releases a lock or awaits; the local variables of a
call are a record per task (`submit[t]`, `fetch[t]`, `open[t]`, `calls[c]`) with a
`pc`. Variables that only properties read (`inserted`, `raced`, `released`, ...) are
grouped as history.

**RelayAuctions.** `SubmitBid` receives a submission and checks that its auction is
open, `SubmitValidate` does the other checks, `SubmitLookup` reads the current best
bid, `SubmitCompare` gives up or builds the context, `SubmitInsert` replaces the
best bid. The task holds a reference to the context it has looked up until
`SubmitCompare`; a displaced context is only moved to `other_submissions` when no
other reference exists (`Arc::into_inner`), which `IsShared` states in terms of the
tasks and of `delivered_payloads`. `OpenLookup` reads the best bid for `open_bid`, which
holds a reference to it from then on, also while `OpenValidate` refuses the block;
`BeaconAccept` is the beacon node broadcasting a block (external: with
`consensus_and_equivocation` it refuses a second block of a proposal),
`OpenPostFails` a refused block or a lost answer (before or after the broadcast),
`OpenDeliver` the successful end. The clock task does `on_epoch` before `on_slot`
and may skip slots. A payload and its header are one value: `to_header` commits to
every field. The registry appears as two variables that the handlers read.
`DeliveredPayloads` and `BlockSubmissions` are what the data API lists for an auction;
the order of the lists is left out (the code sorts by slot, parent, proposer and
millisecond, newest first, and ignores the filters of the request).

**PayloadDelivery.** Three sets: blocks that were broadcast, blocks whose payload was
handed over, records of deliveries. A block can be broadcast when no other block of its
proposal was, delivered when it was broadcast, and a delivery is recorded in the same
step. In `RelayAuctions` the instance `Delivery` maps `broadcast` to what the beacon
node accepted, `delivered` to what `open_bid` returned, unblinded with the payload, and
`records` to the entries of `delivered_payloads`; submissions, fetches, look-ups and lost
answers are stuttering steps, clean-ups are `Forget`.

**ValidatorRegistry.** The checks of a batch run in parallel (`par_iter`):
`ProcessRegistration` takes the registrations of a call in any order, each under
its own read lock; `StoreRegistrations` stores all accepted ones under the write
lock; `ExtendOutstanding` reports them under the relay's lock. `OnSlotDrain` and
`OnSlotRefresh` are the clock task, of which this module only has that a refresh runs and
what the registry holds by then; what a refresh makes of it (it reads the registrations of
missing duties only, and its requests may fail) is in `ProposerScheduler`. `TypeOK` also says
that only keys with a stored registration are reported.
`RegisterValidators` reads the wall clock, which may have advanced. Registrations
have seconds, the current time is passed in units of `1 / NANOS_PER_SECOND` seconds.

**ProposerScheduler.** A refresh consists of a check and a request for the duties of
the current epoch, the same for the next, and the storing of the schedules; each
request may fail. Registrations may change at every step; while the extension is
computed the registry is read once per duty. `Retain` is `Vec::retain`: what stays is
found by its rank among what stays, not by recursion, so that proofs can speak of it.
`refreshed` is history: what the latest
refresh had to work with, and the proposals passed over so far; `arrived` is the registration
the registry had for the proposer of a slot when the duty of the slot last arrived.

**RelayMux.** The answers of the relays come in any order, or not at all (the
time-out is one of the outcomes of `RelayHasNoBid` and `RelayFailsToOpen`). `BestUpTo` is
the fold of `select_best_bids` after each of the answers, `SelectBestBids` its result;
`FetchReturnsBid` picks any of the selected bids (the code
shuffles them). A relay is taken to answer for the slot it was asked for; the code does
not compare. `ValidatePayload` compares the block hash the payload states, as the code
does: the hash is not recomputed.

**BuilderApi.** A message is the record its fields make up. `BidVariant` and
`ContentsVariant` are the first variant, in the order `Deserialize` tries them, whose
fields are all there: a Deneb bid needs commitments, the others ignore them; Deneb
contents wrap the payload, the others are the payload. A signature covers the fields of
the variant that was read, so that a wrong variant makes a good signature invalid. The
header and the payload inside are enums of another crate and read by their own fields.

**Auctioneer.** The task takes one branch of `select!` at a time; a lagged clock
channel disables the clock branch until another branch has been taken, as the
pattern `Ok(message)` does. `SubmitPayload` prepares one submission, for the proposer of
the auction, and sends it to every relay of the auction. `OpenAuction` opens the auctions of one event one by one,
between them the other tasks run. A job sends at most a payload at a time. `jobs` has the
jobs that run or have a payload in a finalizer: a finalizer may outlive its job and wait in
`bids.send`, so a payload may come at any time after its job was started.

**PayloadJob.** `poll` is split into its four parts: deadline, pending bid, interval,
pending block. Builds, the sending of updates, the bidder and the finalizers are
tasks of their own. Payload `n` is the `n`-th better payload; `execution_outcomes` has
one entry, because all payloads of a job share the id.

**BlockBuilder.** The pool yields the transactions of a sender in the order of their
nonces and any sender next (external). Fees, gas and blob gas are numbers of the
transaction; the EVM decides nothing that is not in the transaction, apart from the
gas and the outcome of the payment to a contract. When the reservation is larger than
the gas limit, the difference wraps in 256 bits and becomes `U64_MAX` in the conversion
to `u64`; the addition after the payment wraps, as in a release build (a debug build
panics instead). `TypeOK` also says that the nonce of every transaction in the block is used
up: the state of an executed transaction is committed. `Bid` is the bidder's answer: fractions
are in thousandths, and the conversion of the percentage to an integer rounds to the
nearest (exact halves, which depend on the floating-point product, are not among the
inputs). `PaymentRefused` is the EVM's check of the signer's balance, which includes the
fees of the block when the signer is the fee recipient; the signer is taken to have no
transactions in the pool. `FinalizePayload` appends the payment whatever its outcome.

## 3. Runs

Each configuration asks one question. Sizes are distinct states with the bounds of
the file.

| Run | Properties | What it shows | States |
|-----|------------|---------------|--------|
| `RelayBidding` | `TypeOK`, `BestNotInOthers`, `BestBidUnlessRaced`, `StoredBidsAreValid`, `SubmissionsStayListed` | bids race, are flawed, and the proposer registers again: what is stored is valid, listed once, stays listed unless something else refers to it when it is displaced, and is the best unless two inserts overlapped | 851k |
| `RelayOpening` | `LiveAuctionKeepsBid`, `ReleasedWasPublished`, `OneReleasePerProposal`, `ReleasedIsRecorded`, `DeliversPayloads` | two calls of a proposer, lost answers, better bids and both clean-ups; the refinement of `PayloadDelivery` | 1.19M |
| `RegistryCalls` | `TypeOK`, `StoredIsAuthentic`, `NewerUnlessRaced`, `UpdatesReachRefresh` | overlapping batches while slots pass and validators come and go | 148k |
| `RegistryFuture` | `NotFromFuture` | violated, see section 5 | |
| `ScheduleRefresh` | `ScheduleIsSound`, `RefreshIsComplete`, `NoOlderThanDuties` | failing requests, late registrations and renewals at every step of a refresh | 3.16M |
| `MuxCalls` | `TypeOK`, `AsksRelaysWithTheBid`, `OpenableForLifetime`, `PayloadMatchesBlock`, `BestBidServed`, `SignedBidsAreGathered` | ties, worthless and forged bids, bids and contents of three forks, failing relays, the clock forgetting auctions | 687k |
| `AuctionCalls` | `TypeOK`, `NoAuctionOnAuction`, `OnlyLatePayloadsPanic`, `SubmissionsAreWanted`, `ProposalsAreAuctioned` | relays that disagree, payload ids that collide, full and lagging channels, ends of epochs | 700k |
| `AuctionLatePayload` | `HasAuction` | violated, see section 5 | |
| `JobBids` | `TypeOK`, `OwnOutcomeUnlessOverlapped`, `EarlyEndNeedsSuperseded`, `UpdatesAreSettled`, `BidderStopsAfterJob` | four builds, the bidder and the finalizers in every order | 106k |
| `JobStaleUpdate` | `BidderServesJob` | violated, see section 5 | |
| `BlockGas` | `TypeOK`, `LimitIsNearest`, `BlockFits`, `ReservationCovers`, `BlockIsMaximal`, `WalletPaysSubsidyOnly`, `PromisedIsPaid` | every order of eight transactions, gas limits at the edges of the tolerance, seven wallets and five kinds of recipients | 136k |
| `BlockTolerance` | `FinalWithinTolerance` | violated, see section 5 | |

Bounds, and why they are enough to see the cases that matter:

* `RelayBidding`: two calls of `submit_bid` at once, three receipts (a race, and a
  bid after it), three values, one submission for each way of failing a check, two
  fee recipients, two parents (for a trace that disagrees with its payload about the
  parent). A fetch holds a reference to a context while it is displaced. The clock
  stands still: no check of `submit_bid` after the first depends on it.
* `RelayOpening`: two calls of `open_bid` at once, so that two blocks of a proposer,
  or the same block twice, meet at the beacon node; blocks that differ in the header
  and in the body only. With one slot per epoch the auction of slot 0 is closed at
  slot 2 and its history dropped at slot 5, the last one; the beacon node may announce it
  again at any time. The two calls are interchangeable, and the run uses that symmetry: all
  its properties are about safety.
* `RegistryCalls`: one key, two calls, a batch with the key twice. Every property
  is about one key, and the calls share nothing else but the list of updates.
* `ScheduleRefresh`: three epochs of two slots, two validators that register and
  renew once, with proposals in both halves of an epoch.
* `MuxCalls`: two interchangeable relays (agreement, tie and disagreement), one fetch
  and one open at a time, bids for slot 0 and slots one past the lifetime of its auction.
  Calls share `outstanding_bids` only, in one locked step each, so that a second fetch
  after the first is as good as one at the same time.
* `AuctionCalls`: two interchangeable relays, three slots of one epoch each, one
  announcement and the ones its auctions cause, channels of the smallest size that can
  overflow.
* `JobBids`: four payloads and a channel of one: an update can be waiting to be
  sent, queued, being answered and pending.
* `BlockGas`: parents of 5000 (smaller than the reservation), 102400 and 204800, and
  proposers' limits on, next to and far from both ends of the tolerance. Gas numbers
  are the code's; `U64_MAX` and `U256_MAX` are scaled down, far enough that products of
  revenue and percentage wrap. Wallets that just cover subsidy and gas and that just do
  not, empty wallets that only have the fees of the block, fractions below 0 and above 1, a separate fee recipient; recipients that exist or
  not, and contracts that take the payment, refuse it or need too much gas.

In `PROJECT.json` every property has a mutant: a definition changed as a plausible bug
would change it (operators named `Mutant of ...` in the modules), with which TLC
finds the property violated.

**Deadlock** is checked in the runs of the registry. Elsewhere the model may stop,
because the clock ends at its bound, a job or a build ends, or the auctioneer has
panicked; those configurations say `CHECK_DEADLOCK FALSE`.

**Fairness.** Only what the runtime guarantees: a task that can run is polled again.
Hence weak fairness of the remaining steps of a `register_validators` call, of the
clock task's steps in the registry (`OnSlotDrain` and `OnSlotRefresh`, where slots keep
coming), and of the polls of a payload job, its bidder, its senders and finalizers. A
refresh ends when the beacon node's answers come or fail: the code sets no time-out of its
own, so `UpdatesReachRefresh` rests on the connection being answered or broken. No fairness
is assumed of clients, of registrations or of builds. `RelayAuctions`,
`ProposerScheduler`, `RelayMux`, `Auctioneer` and `BlockBuilder` state safety only.

## 4. Proofs

TLAPS checks the following for every value of the constants that satisfies the
assumptions of the modules; nothing in them limits the number of tasks, bids,
relays or transactions.

| Theorem | Statement |
|---------|-----------|
| `RelayAuctionsProofs!TypeCorrect` | `Spec => []TypeOK` |
| `RelayAuctionsProofs!PublishedBeforeReleased` | `Spec => []ReleasedWasPublished` |
| `RelayAuctionsProofs!NoEquivocatingRelease` | `Spec => []OneReleasePerProposal` |
| `RelayAuctionsProofs!BestListedOnce` | `Spec => []BestNotInOthers` |
| `RelayAuctionsProofs!BestBidKept` | `Spec => []BestBidUnlessRaced` |
| `RelayAuctionsProofs!ListingIsKept` | `Spec => SubmissionsStayListed` |
| `RelayDeliveryProofs!LiveBidKept` | `Spec => []LiveAuctionKeepsBid` |
| `RelayDeliveryProofs!StoredBidsValid` | `Spec => []StoredBidsAreValid` |
| `RelayDeliveryProofs!ReleasesRecorded` | `Spec => []ReleasedIsRecorded` |
| `RelayDeliveryProofs!ImplementsDelivery` | `Spec => DeliversPayloads` |
| `ValidatorRegistryProofs!TypeCorrect` | `Spec => []TypeOK` |
| `ValidatorRegistryProofs!StoredAuthentic` | `Spec => []StoredIsAuthentic` |
| `ValidatorRegistryProofs!ReplacedByNewer` | `Spec => NewerUnlessRaced` |
| `ProposerSchedulerProofs!SoundSchedules` | `Spec => []ScheduleIsSound` |
| `ProposerSchedulerProofs!CompleteRefresh` | `Spec => []RefreshIsComplete` |
| `ProposerSchedulerProofs!FreshSchedules` | `Spec => []NoOlderThanDuties` |
| `RelayMuxProofs!TypeCorrect` | `Spec => []TypeOK` |
| `RelayMuxProofs!ServedBidStaysOpenable` | `Spec => []OpenableForLifetime` |
| `RelayMuxProofs!ContentsMatch` | `Spec => []PayloadMatchesBlock` |
| `RelayMuxProofs!AskedRelaysHadTheBid` | `Spec => AsksRelaysWithTheBid` |
| `RelayMuxProofs!SignedGathered` | `Spec => SignedBidsAreGathered` |
| `RelayMuxProofs!BestServed` | `Spec => BestBidServed` |
| `AuctioneerProofs!TypeCorrect` | `Spec => []TypeOK` |
| `AuctioneerProofs!AuctionsAreFlat` | `Spec => []NoAuctionOnAuction` |
| `AuctioneerProofs!PanicsAreLate` | `Spec => []OnlyLatePayloadsPanic` |
| `AuctioneerProofs!SubmissionsWanted` | `Spec => []SubmissionsAreWanted` |
| `AuctioneerProofs!ProposalsAuctioned` | `Spec => []ProposalsAreAuctioned` |
| `PayloadJobProofs!TypeCorrect` | `Spec => []TypeOK` |
| `PayloadJobProofs!OwnOutcome` | `Spec => []OwnOutcomeUnlessOverlapped` |
| `PayloadJobProofs!EarlyEnd` | `Spec => []EarlyEndNeedsSuperseded` |
| `BlockBuilderProofs!TypeCorrect` | `Spec => []TypeOK` |
| `BlockBuilderProofs!NearestLimit` | `Spec => []LimitIsNearest` |
| `BlockBuilderProofs!BlocksFit` | `Spec => []BlockFits` |
| `BlockBuilderProofs!BlocksAreMaximal` | `Spec => []BlockIsMaximal` |
| `BlockBuilderProofs!PaymentIsCovered` | `Spec => []ReservationCovers` |
| `BlockBuilderProofs!PaidUnlessRefused` | `Spec => []PromisedIsPaid` |
| `BlockBuilderProofs!WalletIsSafe` | `Spec => []WalletPaysSubsidyOnly` |

Every safety property of the passing runs is proved: the invariants, the action
properties and the refinement.

**Assumptions.** `BoundsAssumption`, `SubmissionsAssumption`, `BlocksAssumption`,
`NoneAssumption` (relay): slots are `0..MaxSlot`, epochs are not empty, inputs have
their types, and `None` is no input. `RegistryAssumption`, `SchedulerAssumption`: inputs
have their types, an absent validator is none of the beacon node's statuses, epochs are
not empty, and the beacon node has a duty for every slot. `AuctioneerAssumption`: channels
have room for a message (the clock's for a slot and an epoch), and the id of payload
attributes belongs to one slot, since it hashes the timestamp. `JobAssumption`: the channel
to the bidder has room. `MuxAssumption`: there is a relay, inputs have
their types, and a block hash commits to its slot. `PoolAssumption`,
`PaymentAssumption`: a transaction uses at most its gas limit and a payment at least
the base gas, and no more when the recipient has no code; the pool has one transaction
per nonce of a sender (it replaces). `WidthAssumption`: the largest
integers are ordered as in the code. `LimitAssumption`: the parent's gas limit
is at least 1024, below which the tolerance is empty (the protocol has a minimum of
5000). TLC evaluates them in every run of the module.

**The relay.** `TypeOK` alone is not inductive: a call that is under way must have a
submission, a request, a block or a context, or the maps would be given `None` as a
key. `TypeInv` adds that per kind of task (`SubmitUnderWay`, `FetchUnderWay`,
`OpenUnderWay`).

`PublicationInv` = `HeldPayloadIsSigned` /\ `PublishedOnce` /\ `ReleasedWasPublished`. A
release follows from what an `accepted` call holds, so the invariant says it of the
call: the block is signed, its header is the payload held, and once accepted it is
broadcast. `auctions` may change meanwhile; the call's own context does not, which is
why nothing about `auctions` is needed. `PublishedOnce` is the beacon node's guarantee,
and with it `OneReleasePerProposal` is a consequence.

`ReceiptsInv` = `DistinctReceipts` /\ `RecordedReceipts` /\ `BestNotInOthers`. A context
inserted could be among the displaced ones already if receive times could repeat;
the invariant says that calls under way have receive times that differ from one
another and from those of all recorded contexts.

`BestBidInv` = `InsertsNotLower` /\ `BestBidUnlessRaced`. An insert replaces without
comparing; the comparison was with `seen`, so the invariant keeps its result until
the insert, and `raced` says whether the map still has `seen`. Clean-up by epoch needs
`RetainSlot` to be monotone, a lemma with a product of two variables.

`ListingIsKept` is about steps: the only action that can take a submission off the list
of a retained auction is the insert, and it does so only when `IsShared` holds.

`RelayDeliveryProofs` goes on from there. `LiveInv`: the clock task's epoch is that of its
slot, and the look-behind window of an epoch reaches past the slot before, for every number
of slots per epoch, so that `on_epoch` spares what `on_slot` keeps. `BidsInv` =
`FeeRecipientsRegistered` /\ `SubmitsChecked` /\ `HeldContextsFiled` /\ `StoredFiled`: a
submission is stored two locks after its checks, so the invariant says it of the calls in
between, and of the contexts that `open_bid` holds while the maps change; what was checked
stays true because `registered`, what a proposer ever registered, only grows. `RecordsInv`:
a record is of a release, and a release of a retained auction has a record; together with
`PublishedOnce` all releases of an auction are of one payload, so the record is of this one.
The refinement has one lemma per abstract action (`BeaconAccept` is a broadcast,
`OpenDeliver` a delivery with its record, or the repetition of one, `on_epoch` a `Forget`),
and every other step leaves the mapped variables alone.

**The registry.** `TypeInv` is the types, with one check per registration of a batch;
`UpdatesAreStored`, the other part of `TypeOK`, follows a key from the write lock to the
relay: what is reported was stored in the same step, and entries are replaced, never removed. `AuthenticInv` = `NewIsChecked` /\ `StoredIsAuthentic`: what a check found new
is signed, of a known validator, and newer than the entry the check read, and this stays so
until the write lock, since validators that were reported are never removed.
`ReplacedByNewer` is about steps: a key outside `raced` still has the entry the check read,
and the one that is stored is one of those found new.

**The scheduler.** `SoundInv` = `Types` /\ `ScheduleInv` /\ `RefreshInv`. That the schedule
increases needs that the duties under way come after everything current in it: an epoch is
only asked for when the schedule has nothing of it or later. `RetainFacts` says what `Retain`
gives, all that is kept in its order, from the cardinalities of initial segments. `CoverInv`
adds `KnownIsCovered`: if the schedule reaches into an epoch, every slot of that epoch is in
the schedule or passed over. It is what makes skipping the request of a later refresh
harmless, and it is why `passed_over` must be kept over refreshes. `FreshInv` says of the
schedule, and of the extension under way, that no entry is older than what `arrived` has for
its slot, and of `arrived` that the registry is no older: an entry is read after its duty
arrived, and duties arrive again only for slots that nothing is scheduled for.

**The multiplexer.** `LifetimeInv` adds to `OpenableForLifetime` that the bids gathered
are for the slot asked for, and that an auction is remembered under the slot its hash
commits to: otherwise a second fetch could replace an entry by one that the clock
task forgets earlier. `OpenInv` has what a call of `open_bid` waits for; `VariantRead`
computes which variant is read, so that the commitments of a bid and the blobs of contents
are read as sent (`CommitmentsRead`). `AnswersInv`: the bids gathered are valid and of
relays that are not asked any more.

`SelectFacts` says what `select_best_bids` computes, for any number of answers: the
indices of the answers that no other beats, at least one unless there are no answers.
It takes induction twice: that the recursive function `BestUpTo` exists (`FoldExists`,
`FoldIsDefined`), and that each step of it keeps the greatest value so far with the indices
that have it (`IsBest`, `KeepBestKeepsBest`). Both are put as a least counterexample
(`LeastNumber`, from the well-foundedness of the naturals), because the provers cannot
instantiate an induction rule. The fold starts from zero, so bids worth nothing tie with the
start and are kept: this is where `IsBest` needs the maximum to be zero before the first
answer.

**The auctioneer.** `ClockInv`: what the clock's channel holds is in an order
(`InOrder`), whatever a lagging receiver lost of it, so that the epoch processed last is never
ahead of the clock and never goes back. `ScheduleInv`: nothing is scheduled for a slot before
that epoch; a relay, at most a slot behind the clock, reports from its own epoch on, and the
clock has passed the epoch's first slot by then, so what was cleared does not come back. `OpeningInv`: every
auction comes from attributes of the engine API and a reported proposal, and the
announcement of an auction's own job finds its id processed or its slot cleared
(`OwnEventsProcessed`): this is all that keeps auctions from opening auctions. `PayloadsInv`: a
job and the payloads it has sent have an auction until their epoch is over, and the one
found under their id is for the same fee recipient and gas limit. `AnnouncedInv`: an
announcement is handled once, and its proposals are in auctions or still to be taken up by
the task (`TakenUp`), with the schedule it was read from unchanged meanwhile.

**The job.** `OutcomeInv`: two payloads that wait for their finalization are both marked as
overlapped, so one that is not marked waits alone and the stored outcome is its own; this
needs that a payload is finalized once. `FlightInv` follows an update through sender, channel and
bidder (`OnePlace`, `OpenInFlight`): while the job goes on and has replaced nothing it waits
for every update in flight (`Awaited`), so no answer is dropped and the bidder does not stop.

**The builder.** `GasInv` = `TypeOK` /\ `BlockFits` /\ `HeaderIsReserved` /\
`ReservationCovers`. `HeaderIsReserved` says that a sealed block has the computed limit
less the reservation, or, where the reservation is larger, the saturated value, in
which case the addition after the payment wraps (`WrapsOnce`) to less than the
payment: what is added back was reserved. `PaidUnlessRefused` is by what the payment's
gas limit is for each kind of recipient. `WalletIsSafe` needs that the bid is the
computed one from the answer on, that a percentage of at most 100 of the revenue is at
most the revenue even after a wrap-around, which only makes it smaller, and that a
refusal left builder, recipient and bid as they were. `NearestLimit` needs no induction;
`LimitIsVerified` and `LimitIsClosest` are the arithmetic. `MaximalInv` says why each
transaction the iterator gave up is out, with a reason that lasts (`Settled`): its nonce is
used, it does not fit, it depends on one that does not, or it is stuck behind a gap or
invalid with nothing left of its sender. Blobs are skipped only when blob gas is at its
maximum, so that skipping them is not a reason of its own.

**Only model-checked.** Liveness (`UpdatesReachRefresh`, `UpdatesAreSettled`,
`BidderStopsAfterJob`), which is out of the prover's reach, and the
four violated properties of section 5, which TLC refutes.

## 5. Where the code does something else than it says

Four runs state what a comment or an assertion says and are violated.

* `BlockTolerance`: the gas limit of a finalized block is the computed one less 100000
  plus what the payment used (`builder.rs:152`): with 21000 used, 79000 below the
  proposer's wish, which on a parent of 30M is outside `verify_limits`.
* `AuctionLatePayload`: `on_epoch` of the auctioneer drops all auctions of earlier
  epochs; a payload of the last slot of an epoch that arrives later makes
  `submit_payload` panic at `.expect("has auction")` (`auctioneer/service.rs:281`).
* `RegistryFuture`: `register_validators` passes nanoseconds (`relay.rs:504`) where
  the registry compares seconds, so that no registration is ever from the future.
* `JobStaleUpdate`: a better payload replaces a pending update and drops its receiver
  (`job.rs:245`); the bidder's answer fails, and the bidder leaves for good.

Others are exceptions that a property names, and TLC reaches them:

* two submissions that compare with the same best bid, the lower inserted last
  (`relay.rs:464`): `raced` in `BestBidUnlessRaced`;
* two overlapping registrations, the outdated one stored last
  (`validator_registry.rs:212`): `raced` in `NewerUnlessRaced`;
* duties that count as fetched because a later schedule exists, after a registration
  came too late or one of two requests failed (`proposer_scheduler.rs:46`):
  `passed_over` in `RefreshIsComplete`;
* an execution outcome overwritten by the next build before the payload is finalized
  (`builder.rs:345`): `overlapped` in `OwnOutcomeUnlessOverlapped`;
* a displaced bid that is dropped from the data API because something else refers to
  it, such as the record of its own delivery (`relay.rs:469`): `IsShared` in
  `SubmissionsStayListed`;
* a proposal reported after the attributes of its slot were handled, which gets no
  auction (`auctioneer/service.rs:269`): `ProposalsAreAuctioned` speaks of the proposals
  known at that time;
* a bidder all of whose updates were answered, which waits for good on a channel that
  does not close, since it holds a sender of it through its auction context
  (`bidder/service.rs:33`): the premise of `BidderStopsAfterJob`;
* a block whose payment failed is finalized and submitted (`builder.rs:162`): the
  exception in `PromisedIsPaid`, for contracts that refuse or need too much gas;
* a bid stored after its proposer has replaced the fee recipient it was checked against
  (`relay.rs:391`): `StoredBidsAreValid` speaks of the recipients ever registered;
* a bid for Bellatrix that is announced as one for Capella, because Capella is tried
  first and has the same fields (`builder_bid.rs:77`): `AnnouncedFork` in `BestBidServed`.

The book says of `subsidy_gwei` to "set this value to 0 if your execution layer address has
no ETH in it; otherwise, the blocks will be invalid" (`book/mev-build-rs.md:51`). A subsidy
of 0 is not always enough: the wallet also pays the gas of the payment, so that an empty
wallet that bids all the fees of its block cannot cover it and the payload is given up
(`PaymentRefused`); with a smaller fraction the fees may cover both. `WalletPaysSubsidyOnly`
allows both, and `BlockGas` has an empty wallet of each kind.

And these the model has, without a property: schedules keep the registration they
were built with (`proposer_scheduler.rs:95`); ties between bids are not broken by hash,
as the comment says (`relay_mux.rs:84`), but at random; a bid that was fetched cannot be
opened once a better one has arrived (`relay.rs:568`).

## 6. What is not modelled

Routing of HTTP requests and the clients' request lines; the field by field conversions
between reth's types and the consensus types (`compat.rs`) and the remaining types of the
APIs; signatures and hashing (a flag or the signed value says whether a signature is
valid, a hash is a value); configuration, command line and the start-up of the services,
which keep no state; the EVM, the state trie and reth's payload service, except for how
the code uses them; forwarding of registrations by mev-boost (no state, every relay gets
the same request); the order and the filters of the data API; caches of reads that are
never invalidated; metrics and logging. `PROJECT.json` gives the reason per component.

The parts are joined by HTTP and are modelled apart, each with an environment that may do
more than the part on the other side does: relays answer mev-boost with any of the bids
and contents, right or wrong; builders and proposers send the relay any of the
submissions and blocks; relays report any proposals to the auctioneer. The parts put
together do not meet anything that these environments, under the assumptions named in
section 4 and in the modules, leave out.

## 7. Plan

The order of the modules was: relay auctions (the part that holds other people's
value), registry and scheduler (its inputs), multiplexer, auctioneer, job, block, then
the abstract delivery and the messages. All of them exist, and so do the proofs of the
safety properties that the runs check. What is left are proofs of what liveness rests on:

1. that no update is lost between the registry's lock and the relay's: an accepted
   registration that no refresh has seen is with a call under way, outstanding or drained
   (the safety part of `UpdatesReachRefresh`);
2. that the tasks of a job never wait for one another in a circle (the safety part of
   `UpdatesAreSettled`): a pending update is in flight or answered.
