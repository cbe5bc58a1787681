------------------------ MODULE RelayDeliveryProofs ------------------------
(***************************************************************************)
(* What the relay stores and records, proved for every value of the        *)
(* constants: stored bids are valid, the two clean-ups agree, a payload    *)
(* handed out is on record, and the relay implements PayloadDelivery.      *)
(***************************************************************************)
EXTENDS RelayAuctionsProofs

----------------------------------------------------------------------------
(* Arithmetic of epochs *)

LEMMA DivMod ==
    ASSUME NEW a \in Nat, NEW n \in Nat \ {0}
    PROVE  /\ a \div n \in Nat
           /\ (a \div n) * n <= a
           /\ a < (a \div n) * n + n
OBVIOUS

LEMMA TimesMonotone ==
    ASSUME NEW a \in Nat, NEW b \in Nat, NEW n \in Nat, a <= b
    PROVE  a * n \in Nat /\ b * n \in Nat /\ a * n <= b * n
OBVIOUS

LEMMA EpochMonotone ==
    ASSUME NEW a \in Slots, NEW b \in Slots, a <= b
    PROVE  EpochOf(a) <= EpochOf(b)
<1> DEFINE n == SLOTS_PER_EPOCH
           x == EpochOf(a)
           y == EpochOf(b)
<1>1. a \in Nat /\ b \in Nat /\ n \in Nat \ {0}
  BY BoundsAssumption
<1>2. x \in Nat /\ y \in Nat /\ x * n <= a /\ b < y * n + n
  BY <1>1, DivMod DEF EpochOf
<1> HIDE DEF n, x, y
<1>3. ASSUME y < x PROVE FALSE
  <2>1. (y + 1) * n <= x * n /\ x * n \in Nat
    BY <1>1, <1>2, <1>3, TimesMonotone
  <2>2. (y + 1) * n = y * n + n
    BY <1>1, <1>2
  <2> QED
    BY <1>1, <1>2, <2>1, <2>2
<1>4. x <= y
  BY <1>2, <1>3
<1> QED
  BY <1>4 DEF x, y

\* The look-behind window reaches past the slot before the current one.
LEMMA LookBehindCoversLifetime ==
    ASSUME NEW s \in Slots
    PROVE  RetainSlot(EpochOf(s)) \in Nat
           /\ (RetainSlot(EpochOf(s)) = 0 \/ RetainSlot(EpochOf(s)) + AUCTION_LIFETIME_SLOTS <= s)
<1> DEFINE n == SLOTS_PER_EPOCH
           x == EpochOf(s)
<1>1. s \in Nat /\ n \in Nat /\ n >= 1
  BY BoundsAssumption
<1>2. x \in Nat /\ x * n <= s
  BY <1>1, DivMod DEF EpochOf
<1> HIDE DEF n, x
<1>3. CASE x < 4
  <2>1. CheckedSub(x, HISTORY_LOOK_BEHIND_EPOCHS) = 0
    BY <1>2, <1>3 DEF CheckedSub, HISTORY_LOOK_BEHIND_EPOCHS
  <2>2. RetainSlot(x) = 0
    BY <1>1, <2>1 DEF RetainSlot, n
  <2> QED
    BY <2>2 DEF x
<1>4. CASE x >= 4
  <2>1. CheckedSub(x, HISTORY_LOOK_BEHIND_EPOCHS) = x - 4
    BY <1>2, <1>4 DEF CheckedSub, HISTORY_LOOK_BEHIND_EPOCHS
  <2>2. RetainSlot(x) = (x - 4) * n
    BY <2>1 DEF RetainSlot, n
  <2>3. x - 4 \in Nat /\ x - 3 \in Nat /\ x - 3 <= x
    BY <1>2, <1>4
  <2>4. (x - 3) * n <= x * n /\ (x - 3) * n \in Nat /\ (x - 4) * n \in Nat
    BY <1>1, <1>2, <2>3, TimesMonotone
  <2>5. (x - 3) * n = (x - 4) * n + n
    BY <1>1, <1>2
  <2>6. x * n \in Nat
    BY <1>1, <1>2
  <2>7. (x - 4) * n + 1 <= s
    BY <1>1, <1>2, <2>4, <2>5, <2>6
  <2> QED
    BY <2>2, <2>4, <2>7 DEF x, AUCTION_LIFETIME_SLOTS
<1> QED
  BY <1>2, <1>3, <1>4

----------------------------------------------------------------------------
(* The two clean-ups agree *)

\* The clock task's epoch is the epoch of its slot.
ClockInv == clock.epoch = EpochOf(clock.slot)

LiveInv == ClockInv /\ LiveAuctionKeepsBid

LEMMA LiveInit == Init => LiveInv
BY DEF Init, LiveInv, ClockInv, LiveAuctionKeepsBid

LEMMA InsertedRequests ==
    ASSUME TypeInv
    PROVE  \A c \in inserted : RequestOf(c) \in AuctionRequests /\ RequestOf(c).slot \in Nat
BY SubmissionsAssumption, BoundsAssumption
DEF TypeInv, TypeOK, HistoryTypeOK, AuctionContexts, RequestOf, AuctionRequests

LEMMA LiveStep == TypeInv /\ LiveInv /\ [Next]_vars => LiveInv'
<1> SUFFICES ASSUME TypeInv, LiveInv, [Next]_vars PROVE LiveInv'
  OBVIOUS
<1> USE DEF TypeInv, TypeOK
<1>1. ASSUME UNCHANGED <<auctions, inserted>>, clock'.slot = clock.slot, clock'.epoch = clock.epoch
      PROVE  LiveInv'
  BY <1>1 DEF LiveInv, ClockInv, LiveAuctionKeepsBid
<1>2. CASE Tick
  <2>1. PICK s \in Slots :
          /\ s > clock.slot
          /\ clock' = IF EpochOf(s) > clock.epoch
                      THEN [pc |-> "on_epoch", slot |-> s, epoch |-> EpochOf(s)]
                      ELSE [clock EXCEPT !.pc = "on_slot", !.slot = s]
    BY <1>2 DEF Tick
  <2>2. clock.slot \in Slots /\ clock.slot \in Nat /\ s \in Nat
    BY BoundsAssumption DEF ClockTypeOK
  <2>3. clock'.slot = s /\ clock'.epoch = EpochOf(s)
    <3>1. EpochOf(clock.slot) <= EpochOf(s)
      BY <2>1, <2>2, EpochMonotone
    <3>2. EpochOf(s) \in Nat /\ EpochOf(clock.slot) \in Nat
      BY <2>2, EpochIsNat
    <3> QED
      BY <2>1, <3>1, <3>2 DEF LiveInv, ClockInv, ClockTypeOK
  <2>4. ClockInv'
    BY <2>3 DEF ClockInv
  <2>5. UNCHANGED <<auctions, inserted>>
    BY <1>2 DEF Tick, state, history
  <2>6. LiveAuctionKeepsBid'
    BY <2>1, <2>2, <2>3, <2>5, InsertedRequests
    DEF LiveInv, LiveAuctionKeepsBid, AUCTION_LIFETIME_SLOTS
  <2> QED
    BY <2>4, <2>6 DEF LiveInv
<1>3. CASE OnEpochPrune
  <2>1. clock'.slot = clock.slot /\ clock'.epoch = clock.epoch /\ UNCHANGED inserted
    BY <1>3 DEF OnEpochPrune, ClockTypeOK, history
  <2>2. clock.slot \in Slots /\ clock.slot \in Nat
    BY BoundsAssumption DEF ClockTypeOK
  <2>3. /\ RetainSlot(clock.epoch) \in Nat
        /\ RetainSlot(clock.epoch) = 0
           \/ RetainSlot(clock.epoch) + AUCTION_LIFETIME_SLOTS <= clock.slot
    BY <2>2, LookBehindCoversLifetime DEF LiveInv, ClockInv
  <2>4. ASSUME NEW c \in inserted, RequestOf(c).slot + AUCTION_LIFETIME_SLOTS >= clock.slot
        PROVE  auctions'[RequestOf(c)] # None
    <3>1. RequestOf(c).slot >= RetainSlot(clock.epoch)
      BY <2>2, <2>3, <2>4, InsertedRequests DEF AUCTION_LIFETIME_SLOTS
    <3>2. auctions'[RequestOf(c)] = auctions[RequestOf(c)]
      BY <1>3, <3>1, InsertedRequests DEF OnEpochPrune
    <3> QED
      BY <2>4, <3>2 DEF LiveInv, LiveAuctionKeepsBid
  <2> QED
    BY <2>1, <2>4 DEF LiveInv, ClockInv, LiveAuctionKeepsBid
<1>4. ASSUME NEW t \in SubmitTasks, SubmitInsert(t)
      PROVE  LiveInv'
  <2> DEFINE r == RequestOfSubmission(submit[t].submission)
  <2>1. /\ auctions' = [auctions EXCEPT ![r] = ContextOf(t)]
        /\ inserted' = inserted \cup {ContextOf(t)}
        /\ UNCHANGED clock
    BY <1>4 DEF SubmitInsert
  <2>2. ContextOf(t) \in AuctionContexts /\ RequestOf(ContextOf(t)) = r
    BY <1>4 DEF SubmitInsert, SubmitUnderWay, ContextOf, AuctionContexts, RequestOf
  <2>3. ContextOf(t) # None
    BY <2>2, NoneAssumption
  <2>4. r \in AuctionRequests
    BY <1>4, SubmissionsAssumption DEF SubmitInsert, SubmitUnderWay
  <2>5. \A q \in AuctionRequests : auctions'[q] = IF q = r THEN ContextOf(t) ELSE auctions[q]
    BY <2>1, <2>4 DEF StateTypeOK
  <2>6. ASSUME NEW c \in inserted', RequestOf(c).slot + AUCTION_LIFETIME_SLOTS >= clock.slot
        PROVE  auctions'[RequestOf(c)] # None
    BY <2>1, <2>2, <2>3, <2>4, <2>5, <2>6, InsertedRequests DEF LiveInv, LiveAuctionKeepsBid
  <2>7. LiveAuctionKeepsBid'
    BY <2>1, <2>6 DEF LiveAuctionKeepsBid
  <2> QED
    BY <2>1, <2>7 DEF LiveInv, ClockInv
<1>5. CASE OnEpoch \/ OnSlot
  BY <1>1, <1>5 DEF OnEpoch, OnSlot, ClockTypeOK, state, history
<1>6. CASE (\E r \in Announcements : OnPayloadAttributes(r))
           \/ (\E p \in Proposers, f \in FeeRecipients : Register(p, f))
  BY <1>1, <1>6 DEF OnPayloadAttributes, Register, state, history
<1>7. ASSUME NEW t \in SubmitTasks, SubmitNext(t) \/ \E s \in Submissions : SubmitBid(t, s)
      PROVE  LiveInv'
  BY <1>1, <1>4, <1>7
  DEF SubmitNext, SubmitBid, SubmitValidate, SubmitLookup, SubmitCompare, state, history
<1>8. ASSUME NEW t \in FetchTasks, FetchNext(t) \/ \E r \in Announcements : FetchBestBid(t, r)
      PROVE  LiveInv'
  BY <1>1, <1>8 DEF FetchNext, FetchBestBid, FetchLookup, FetchServe, state, history
<1>9. ASSUME NEW t \in OpenTasks, OpenNext(t) \/ \E b \in Blocks : OpenBid(t, b)
      PROVE  LiveInv'
  BY <1>1, <1>9
  DEF OpenNext, OpenBid, OpenLookup, OpenValidate, BeaconAccept, OpenPostFails,
      OpenDeliver, state, history
<1>10. CASE UNCHANGED vars
  BY <1>1, <1>10 DEF vars, state, history
<1> QED
  BY <1>2, <1>3, <1>5, <1>6, <1>7, <1>8, <1>9, <1>10 DEF Next, ClockNext

\* on_epoch never takes the best bid of an auction that on_slot still keeps open.
THEOREM LiveBidKept == Spec => []LiveAuctionKeepsBid
<1>1. Spec => []TypeInv
  BY InitTypes, NextTypes, PTL DEF Spec
<1>2. LiveInv => LiveAuctionKeepsBid
  BY DEF LiveInv
<1> QED
  BY <1>1, <1>2, LiveInit, LiveStep, PTL DEF Spec

----------------------------------------------------------------------------
(* Stored bids passed every check of submit_bid *)

\* What submit_bid has established about a submission when it returns from its checks; the
\* fee recipient may have been replaced since, but the proposer did register it.
Checked(s) ==
    /\ s.builder_public_key \in AcceptedBuilders
    /\ s.signed
    /\ s.proposer_fee_recipient \in registered[s.proposer_public_key]
    /\ s.parent_hash = s.payload.parent_hash
    /\ s.block_hash = s.payload.block_hash
    /\ s.gas_limit = s.payload.gas_limit
    /\ s.gas_used = s.payload.gas_used

FiledUnder(r, c) == RequestOf(c) = r /\ Checked(c.submission)

FeeRecipientsRegistered ==
    \A p \in Proposers : fee_recipient[p] # None => fee_recipient[p] \in registered[p]

\* A call of submit_bid under way comes from an accepted builder and, past the validation,
\* has a submission that passed every check.
SubmitsChecked ==
    \A t \in SubmitTasks :
        /\ submit[t].pc # "idle" => submit[t].submission.builder_public_key \in AcceptedBuilders
        /\ submit[t].pc \in {"lookup", "compare", "insert"} => Checked(submit[t].submission)

\* A call of open_bid past its lookup holds a context of its own auction.
HeldContextsFiled ==
    \A t \in OpenTasks :
        open[t].pc \in {"validate", "post", "accepted"} =>
            FiledUnder(RequestOfBlock(open[t].block), open[t].context)

StoredFiled ==
    \A r \in AuctionRequests : \A c \in StoredContexts(r) : FiledUnder(r, c)

BidsInv == FeeRecipientsRegistered /\ SubmitsChecked /\ HeldContextsFiled /\ StoredFiled

LEMMA StoredFiledIsValid == TypeInv /\ StoredFiled => StoredBidsAreValid
<1> SUFFICES ASSUME TypeInv, StoredFiled,
                    NEW r \in AuctionRequests, NEW c \in StoredContexts(r)
             PROVE  /\ FiledUnder(r, c)
                    /\ c.submission.proposer_public_key = r.public_key
  BY DEF StoredBidsAreValid, FiledUnder, Checked
<1>1. FiledUnder(r, c)
  BY DEF StoredFiled
<1> QED
  BY <1>1 DEF FiledUnder, RequestOf, RequestOfSubmission

LEMMA BidsInit == Init => BidsInv
BY DEF Init, IdleSubmit, IdleOpen, BidsInv, FeeRecipientsRegistered, SubmitsChecked,
       HeldContextsFiled, StoredFiled, StoredContexts, BlockSubmissions, DeliveredPayloads

\* Checked submissions stay checked while `registered' only grows.
LEMMA CheckedIsStable ==
    ASSUME \A p \in Proposers : registered[p] \subseteq registered'[p],
           NEW s \in Submissions, Checked(s)
    PROVE  Checked(s)'
<1>1. s.proposer_public_key \in Proposers
  BY SubmissionsAssumption DEF RequestOfSubmission, AuctionRequests
<1> QED
  BY <1>1 DEF Checked

LEMMA StoredAreContexts ==
    ASSUME TypeInv, NEW r \in AuctionRequests
    PROVE  StoredContexts(r) \subseteq AuctionContexts
BY DEF TypeInv, TypeOK, StateTypeOK, StoredContexts, BlockSubmissions, DeliveredPayloads

\* A step that adds nothing to the maps or the registry and starts no task.
LEMMA BidsFrame ==
    /\ UNCHANGED <<fee_recipient, registered>> /\ FeeRecipientsRegistered
         => FeeRecipientsRegistered'
    /\ UNCHANGED <<submit, registered>> /\ SubmitsChecked => SubmitsChecked'
    /\ UNCHANGED <<open, registered>> /\ HeldContextsFiled => HeldContextsFiled'
    /\ UNCHANGED <<auctions, other_submissions, delivered_payloads, registered>> /\ StoredFiled
         => StoredFiled'
<1>1. UNCHANGED <<fee_recipient, registered>> /\ FeeRecipientsRegistered
         => FeeRecipientsRegistered'
  BY DEF FeeRecipientsRegistered
<1>2. UNCHANGED <<submit, registered>> /\ SubmitsChecked => SubmitsChecked'
  BY DEF SubmitsChecked, Checked
<1>3. UNCHANGED <<open, registered>> /\ HeldContextsFiled => HeldContextsFiled'
  BY DEF HeldContextsFiled, FiledUnder, Checked
<1>4. UNCHANGED <<auctions, other_submissions, delivered_payloads, registered>> /\ StoredFiled
         => StoredFiled'
  BY DEF StoredFiled, StoredContexts, BlockSubmissions, DeliveredPayloads, FiledUnder, Checked
<1> QED
  BY <1>1, <1>2, <1>3, <1>4

LEMMA BidsRegister ==
    ASSUME TypeInv, BidsInv, NEW p \in Proposers, NEW f \in FeeRecipients, Register(p, f)
    PROVE  BidsInv'
<1> USE DEF TypeInv, TypeOK, BidsInv
<1>1. /\ fee_recipient' = [fee_recipient EXCEPT ![p] = f]
      /\ registered' = [registered EXCEPT ![p] = @ \cup {f}]
      /\ UNCHANGED <<auctions, other_submissions, delivered_payloads, submit, open>>
  BY DEF Register, state
<1>2. \A q \in Proposers : registered[q] \subseteq registered'[q]
  BY <1>1 DEF RegistryTypeOK
<1>3. FeeRecipientsRegistered'
  BY <1>1 DEF FeeRecipientsRegistered, RegistryTypeOK
<1>4. SubmitsChecked'
  <2>1. ASSUME NEW t \in SubmitTasks, submit[t].pc \in {"lookup", "compare", "insert"}
        PROVE  Checked(submit[t].submission)'
    <3> DEFINE s == submit[t].submission
    <3>1. s \in Submissions /\ Checked(s)
      BY <2>1 DEF SubmitUnderWay, SubmitsChecked
    <3>2. s.proposer_public_key \in Proposers
      BY <3>1, SubmissionsAssumption DEF RequestOfSubmission, AuctionRequests
    <3> QED
      BY <1>1, <1>2, <3>1, <3>2 DEF Checked
  <2> QED
    BY <1>1, <2>1 DEF SubmitsChecked
<1>5. ASSUME NEW r \in AuctionRequests, NEW c \in AuctionContexts, FiledUnder(r, c)
      PROVE  FiledUnder(r, c)'
  BY <1>2, <1>5, CheckedIsStable DEF FiledUnder, AuctionContexts
<1>6. HeldContextsFiled'
  <2>1. ASSUME NEW t \in OpenTasks, open[t].pc \in {"validate", "post", "accepted"}
        PROVE  FiledUnder(RequestOfBlock(open[t].block), open[t].context)'
    <3> DEFINE r == RequestOfBlock(open[t].block)
               c == open[t].context
    <3>1. r \in AuctionRequests /\ c \in AuctionContexts /\ FiledUnder(r, c)
      BY <2>1, BlocksAssumption DEF OpenUnderWay, HeldContextsFiled
    <3>2. c.submission \in Submissions
      BY <3>1 DEF AuctionContexts
    <3>3. c.submission.proposer_public_key \in Proposers
      BY <3>2, SubmissionsAssumption DEF RequestOfSubmission, AuctionRequests
    <3> QED
      BY <1>1, <1>2, <3>1, <3>3 DEF FiledUnder, Checked
  <2> QED
    BY <1>1, <2>1 DEF HeldContextsFiled
<1>7. StoredFiled'
  BY <1>1, <1>5, StoredAreContexts
  DEF StoredFiled, StoredContexts, BlockSubmissions, DeliveredPayloads
<1> QED
  BY <1>3, <1>4, <1>6, <1>7

LEMMA BidsSubmit ==
    ASSUME TypeInv, BidsInv, NEW t \in SubmitTasks,
           SubmitNext(t) \/ \E s \in Submissions : SubmitBid(t, s)
    PROVE  BidsInv'
<1> USE DEF TypeInv, TypeOK
<1>1. ASSUME UNCHANGED <<auctions, other_submissions, delivered_payloads, fee_recipient, registered,
                         open>>,
             \A u \in SubmitTasks :
                \/ submit'[u] = submit[u]
                \/ submit'[u].pc = "idle"
                \/ /\ submit'[u].pc = "validate"
                   /\ submit'[u].submission.builder_public_key \in AcceptedBuilders
                \/ /\ submit'[u].submission.builder_public_key \in AcceptedBuilders
                   /\ Checked(submit'[u].submission)
      PROVE  BidsInv'
  <2>1. SubmitsChecked'
    BY <1>1 DEF BidsInv, SubmitsChecked, Checked
  <2> QED
    BY <1>1, <2>1, BidsFrame DEF BidsInv
<1>2. ASSUME NEW s \in Submissions, SubmitBid(t, s)
      PROVE  BidsInv'
  <2>1. UNCHANGED <<auctions, other_submissions, delivered_payloads, fee_recipient, registered,
                    open>>
    BY <1>2 DEF SubmitBid, state, registry
  <2> QED
    BY <1>1, <1>2, <2>1 DEF SubmitBid, SubmitTypeOK
<1>3. CASE SubmitValidate(t)
  <2> DEFINE s == submit[t].submission
  <2>1. UNCHANGED <<auctions, other_submissions, delivered_payloads, fee_recipient, registered,
                    open>>
    BY <1>3 DEF SubmitValidate, state, registry
  <2>2. CASE SubmitReturn(t)
    BY <1>1, <2>1, <2>2 DEF SubmitReturn, IdleSubmit, SubmitTypeOK
  <2>3. CASE ~SubmitReturn(t)
    <3>1. s \in Submissions /\ s.builder_public_key \in AcceptedBuilders
      BY <1>3 DEF SubmitValidate, SubmitUnderWay, BidsInv, SubmitsChecked
    <3>2. s.proposer_public_key \in Proposers
      BY <3>1, SubmissionsAssumption DEF RequestOfSubmission, AuctionRequests
    <3>3. ValidateBuilderSubmissionTrusted(s) /\ s.signed
          /\ submit' = [submit EXCEPT ![t].pc = "lookup"]
      BY <1>3, <2>3 DEF SubmitValidate
    <3>4. Checked(s)
      BY <3>1, <3>2, <3>3
      DEF ValidateBuilderSubmissionTrusted, Checked, BidsInv, FeeRecipientsRegistered
    <3>5. \A u \in SubmitTasks :
              submit'[u] = IF u = t THEN [submit[t] EXCEPT !.pc = "lookup"] ELSE submit[u]
      BY <3>3 DEF SubmitTypeOK
    <3>6. submit'[t].submission = s
      BY <3>5 DEF SubmitTypeOK
    <3> QED
      BY <1>1, <2>1, <3>1, <3>4, <3>5, <3>6
  <2> QED
    BY <2>2, <2>3
<1>4. CASE SubmitLookup(t) \/ SubmitCompare(t)
  <2>1. UNCHANGED <<auctions, other_submissions, delivered_payloads, fee_recipient, registered,
                    open>>
    BY <1>4 DEF SubmitLookup, SubmitCompare, state, registry
  <2>2. Checked(submit[t].submission)
        /\ submit[t].submission.builder_public_key \in AcceptedBuilders
    BY <1>4 DEF SubmitLookup, SubmitCompare, BidsInv, SubmitsChecked
  <2>3. \A u \in SubmitTasks :
            \/ submit'[u] = submit[u]
            \/ submit'[u].pc = "idle"
            \/ u = t /\ submit'[u].submission = submit[t].submission
    BY <1>4 DEF SubmitLookup, SubmitCompare, SubmitReturn, IdleSubmit, SubmitTypeOK
  <2> QED
    BY <1>1, <2>1, <2>2, <2>3
<1>5. CASE SubmitInsert(t)
  <2> DEFINE r == RequestOfSubmission(submit[t].submission)
             new == ContextOf(t)
  <2>1. /\ auctions' = [auctions EXCEPT ![r] = new]
        /\ other_submissions' =
            IF auctions[r] # None /\ ~IsShared(auctions[r])
            THEN [other_submissions EXCEPT ![r] = @ \cup {auctions[r]}]
            ELSE other_submissions
        /\ UNCHANGED <<delivered_payloads, fee_recipient, registered, open>>
    BY <1>5 DEF SubmitInsert, registry
  <2>2. FiledUnder(r, new)
    BY <1>5
    DEF SubmitInsert, BidsInv, SubmitsChecked, FiledUnder, ContextOf, RequestOf
  <2>3. ASSUME NEW q \in AuctionRequests
        PROVE  StoredContexts(q)' \subseteq StoredContexts(q) \cup (IF q = r THEN {new} ELSE {})
    BY <2>1 DEF StoredContexts, BlockSubmissions, DeliveredPayloads, StateTypeOK
  <2>4. ASSUME NEW q \in AuctionRequests, NEW c \in StoredContexts(q)'
        PROVE  FiledUnder(q, c)
    BY <2>2, <2>3 DEF BidsInv, StoredFiled
  <2>5. StoredFiled'
    BY <2>1, <2>4 DEF StoredFiled, FiledUnder, Checked
  <2>6. SubmitsChecked'
    BY <1>5, <2>1
    DEF SubmitInsert, SubmitReturn, IdleSubmit, SubmitTypeOK, BidsInv, SubmitsChecked, Checked
  <2> QED
    BY <2>1, <2>5, <2>6, BidsFrame DEF BidsInv
<1> QED
  BY <1>2, <1>3, <1>4, <1>5 DEF SubmitNext

LEMMA BidsOpen ==
    ASSUME TypeInv, BidsInv, NEW t \in OpenTasks,
           OpenNext(t) \/ \E b \in Blocks : OpenBid(t, b)
    PROVE  BidsInv'
<1> USE DEF TypeInv, TypeOK
<1>1. UNCHANGED <<auctions, other_submissions, fee_recipient, registered, submit>>
  BY DEF OpenNext, OpenBid, OpenLookup, OpenValidate, BeaconAccept, OpenPostFails,
      OpenDeliver, state, registry
<1>2. OpenReturn(t) => HeldContextsFiled'
  BY <1>1 DEF OpenReturn, IdleOpen, OpenTypeOK, BidsInv, HeldContextsFiled, FiledUnder, Checked
<1>3. ASSUME NEW b \in Blocks, OpenBid(t, b)
      PROVE  HeldContextsFiled' /\ UNCHANGED delivered_payloads
  BY <1>1, <1>3
  DEF OpenBid, IdleOpen, OpenTypeOK, BidsInv, HeldContextsFiled, FiledUnder, Checked, state
<1>4. CASE OpenLookup(t)
  <2> DEFINE b == open[t].block
             r == RequestOfBlock(b)
             c == auctions[r]
  <2>1. UNCHANGED delivered_payloads
    BY <1>4 DEF OpenLookup, state
  <2>2. ASSUME ~OpenReturn(t)
        PROVE  HeldContextsFiled'
    <3>1. c # None /\ open' = [open EXCEPT ![t].pc = "validate", ![t].context = c]
      BY <1>4, <2>2 DEF OpenLookup
    <3>2. r \in AuctionRequests
      BY <1>4, BlocksAssumption DEF OpenLookup, OpenUnderWay
    <3>3. FiledUnder(r, c)
      BY <3>1, <3>2 DEF BidsInv, StoredFiled, StoredContexts, BlockSubmissions
    <3>4. \A u \in OpenTasks :
            IF u = t THEN open'[u].block = b /\ open'[u].context = c
                     ELSE open'[u] = open[u]
      BY <3>1 DEF OpenTypeOK
    <3> QED
      BY <1>1, <3>3, <3>4 DEF BidsInv, HeldContextsFiled, FiledUnder, Checked
  <2> QED
    BY <1>1, <1>2, <2>1, <2>2, BidsFrame DEF BidsInv
<1>v. CASE OpenValidate(t)
  <2>1. UNCHANGED delivered_payloads
    BY <1>v DEF OpenValidate, state
  <2>2. CASE open' = [open EXCEPT ![t].pc = "post"]
    <3>1. HeldContextsFiled'
      BY <1>1, <1>v, <2>2
      DEF OpenValidate, OpenTypeOK, BidsInv, HeldContextsFiled, FiledUnder, Checked
    <3> QED
      BY <1>1, <2>1, <3>1, BidsFrame DEF BidsInv
  <2> QED
    BY <1>1, <1>2, <1>v, <2>1, <2>2, BidsFrame DEF OpenValidate, BidsInv
<1>5. CASE BeaconAccept(t)
  <2>1. UNCHANGED delivered_payloads
    BY <1>5 DEF BeaconAccept, state
  <2>2. HeldContextsFiled'
    BY <1>1, <1>5
    DEF BeaconAccept, OpenTypeOK, BidsInv, HeldContextsFiled, FiledUnder, Checked
  <2> QED
    BY <1>1, <2>1, <2>2, BidsFrame DEF BidsInv
<1>6. CASE OpenPostFails(t)
  BY <1>1, <1>2, <1>6, BidsFrame DEF OpenPostFails, state, BidsInv
<1>7. CASE OpenDeliver(t)
  <2> DEFINE r == RequestOfBlock(open[t].block)
             c == open[t].context
  <2>1. \/ UNCHANGED delivered_payloads
        \/ delivered_payloads' = [delivered_payloads EXCEPT ![r] = c]
    BY <1>7 DEF OpenDeliver, StoreDeliveredPayload
  <2>2. FiledUnder(r, c)
    BY <1>7 DEF OpenDeliver, BidsInv, HeldContextsFiled
  <2>3. ASSUME NEW q \in AuctionRequests
        PROVE  StoredContexts(q)' \subseteq StoredContexts(q) \cup (IF q = r THEN {c} ELSE {})
    BY <1>1, <2>1 DEF StoredContexts, BlockSubmissions, DeliveredPayloads, StateTypeOK
  <2>4. ASSUME NEW q \in AuctionRequests, NEW d \in StoredContexts(q)'
        PROVE  FiledUnder(q, d)
    BY <2>2, <2>3 DEF BidsInv, StoredFiled
  <2>5. StoredFiled'
    BY <1>1, <2>4 DEF StoredFiled, FiledUnder, Checked
  <2> QED
    BY <1>1, <1>2, <1>7, <2>5, BidsFrame DEF OpenDeliver, BidsInv
<1> QED
  BY <1>1, <1>3, <1>4, <1>v, <1>5, <1>6, <1>7, BidsFrame DEF OpenNext, BidsInv

LEMMA BidsStep == TypeInv /\ BidsInv /\ [Next]_vars => BidsInv'
<1> SUFFICES ASSUME TypeInv, BidsInv, [Next]_vars PROVE BidsInv'
  OBVIOUS
<1>1. CASE OnEpochPrune
  <2>1. UNCHANGED <<fee_recipient, registered, submit, open>>
    BY <1>1 DEF OnEpochPrune, registry
  <2>2. ASSUME NEW r \in AuctionRequests
        PROVE  StoredContexts(r)' \subseteq StoredContexts(r)
    BY <1>1 DEF OnEpochPrune, StoredContexts, BlockSubmissions, DeliveredPayloads
  <2>3. StoredFiled'
    BY <2>1, <2>2 DEF BidsInv, StoredFiled, FiledUnder, Checked
  <2> QED
    BY <2>1, <2>3, BidsFrame DEF BidsInv
<1>2. ASSUME UNCHANGED <<auctions, other_submissions, delivered_payloads, fee_recipient, registered,
                         submit, open>>
      PROVE  BidsInv'
  BY <1>2, BidsFrame DEF BidsInv
<1>3. CASE Tick \/ OnEpoch \/ OnSlot
  BY <1>2, <1>3 DEF Tick, OnEpoch, OnSlot, state, registry
<1>4. CASE \E r \in Announcements : OnPayloadAttributes(r)
  BY <1>2, <1>4 DEF OnPayloadAttributes, registry
<1>5. ASSUME NEW t \in FetchTasks, FetchNext(t) \/ \E r \in Announcements : FetchBestBid(t, r)
      PROVE  BidsInv'
  BY <1>2, <1>5 DEF FetchNext, FetchBestBid, FetchLookup, FetchServe, state, registry
<1>6. CASE UNCHANGED vars
  BY <1>2, <1>6 DEF vars, state, registry
<1> QED
  BY <1>1, <1>3, <1>4, <1>5, <1>6, BidsRegister, BidsSubmit, BidsOpen DEF Next, ClockNext

LEMMA BidsHold == Spec => [](TypeInv /\ BidsInv)
<1>1. Spec => []TypeInv
  BY InitTypes, NextTypes, PTL DEF Spec
<1> QED
  BY <1>1, BidsInit, BidsStep, PTL DEF Spec

\* Every bid the relay keeps, serves or reports is filed under its own auction, was signed by
\* an accepted builder, agrees with its payload and pays an address its proposer registered.
THEOREM StoredBidsValid == Spec => []StoredBidsAreValid
<1>1. TypeInv /\ BidsInv => StoredBidsAreValid
  BY StoredFiledIsValid DEF BidsInv
<1> QED
  BY <1>1, BidsHold, PTL

----------------------------------------------------------------------------
(* Payloads handed out are on record *)

\* What a step can do to the variables that deliveries are about.
LEMMA DeliverySteps ==
    ASSUME [Next]_vars
    PROVE  \/ OnEpochPrune
           \/ \E t \in OpenTasks : BeaconAccept(t) \/ OpenDeliver(t)
           \/ UNCHANGED <<published, released, delivered_payloads>>
<1>1. CASE Tick \/ OnEpoch \/ OnSlot
  BY <1>1 DEF Tick, OnEpoch, OnSlot, state, history
<1>2. CASE (\E r \in Announcements : OnPayloadAttributes(r))
           \/ (\E p \in Proposers, f \in FeeRecipients : Register(p, f))
  BY <1>2 DEF OnPayloadAttributes, Register, state, history
<1>3. ASSUME NEW t \in SubmitTasks, SubmitNext(t) \/ \E s \in Submissions : SubmitBid(t, s)
      PROVE  UNCHANGED <<published, released, delivered_payloads>>
  BY <1>3 DEF SubmitNext, SubmitBid, SubmitValidate, SubmitLookup, SubmitCompare, SubmitInsert,
              state, history
<1>4. ASSUME NEW t \in FetchTasks, FetchNext(t) \/ \E r \in Announcements : FetchBestBid(t, r)
      PROVE  UNCHANGED <<published, released, delivered_payloads>>
  BY <1>4 DEF FetchNext, FetchBestBid, FetchLookup, FetchServe, state, history
<1>5. ASSUME NEW t \in OpenTasks,
             OpenLookup(t) \/ OpenValidate(t) \/ OpenPostFails(t) \/ \E b \in Blocks : OpenBid(t, b)
      PROVE  UNCHANGED <<published, released, delivered_payloads>>
  BY <1>5 DEF OpenLookup, OpenValidate, OpenPostFails, OpenBid, state, history
<1>6. CASE UNCHANGED vars
  BY <1>6 DEF vars, state, history
<1> QED
  BY <1>1, <1>2, <1>3, <1>4, <1>5, <1>6 DEF Next, ClockNext, OpenNext

\* The look-behind window only moves forward.
LEMMA RetainedBefore ==
    ASSUME TypeInv, [Next]_vars, NEW r \in AuctionRequests, Retained(r)'
    PROVE  Retained(r)
<1> USE DEF TypeInv, TypeOK
<1>1. clock.epoch \in Nat
  BY DEF ClockTypeOK
<1>2. clock'.epoch \in Nat /\ clock.epoch <= clock'.epoch
  <2>1. CASE Tick
    BY <1>1, <2>1, EpochIsNat DEF Tick, ClockTypeOK
  <2>2. CASE OnEpoch \/ OnEpochPrune \/ OnSlot
    BY <1>1, <2>2 DEF OnEpoch, OnEpochPrune, OnSlot, ClockTypeOK
  <2>3. CASE UNCHANGED clock
    BY <1>1, <2>3
  <2>4. \/ ClockNext
        \/ UNCHANGED clock
    BY DEF Next, vars, OnPayloadAttributes, Register, SubmitNext, SubmitBid, SubmitValidate,
           SubmitLookup, SubmitCompare, SubmitInsert, FetchNext, FetchBestBid, FetchLookup,
           FetchServe, OpenNext, OpenBid, OpenLookup, OpenValidate, BeaconAccept, OpenPostFails,
           OpenDeliver
  <2> QED
    BY <2>1, <2>2, <2>3, <2>4 DEF ClockNext
<1>3. RetainSlot(clock.epoch) \in Nat /\ RetainSlot(clock'.epoch) \in Nat
      /\ RetainSlot(clock.epoch) <= RetainSlot(clock'.epoch)
  BY <1>1, <1>2, RetainSlotMonotone
<1>4. r.slot \in Nat
  BY BoundsAssumption DEF AuctionRequests
<1> QED
  BY <1>3, <1>4 DEF Retained

\* The record of an auction is of a payload that was handed out for it ...
RecordWasReleased ==
    \A r \in AuctionRequests :
        delivered_payloads[r] # None =>
            \E rel \in released : RequestOfBlock(rel[1]) = r /\ rel[2] = delivered_payloads[r]

\* ... and an auction that a payload was handed out for has a record.
ReleaseHasRecord ==
    \A rel \in released :
        Retained(RequestOfBlock(rel[1])) => delivered_payloads[RequestOfBlock(rel[1])] # None

RecordsInv == RecordWasReleased /\ ReleaseHasRecord

LEMMA ReleasedRequests ==
    ASSUME TypeInv
    PROVE  \A rel \in released : /\ rel[1] \in Blocks /\ rel[2] \in AuctionContexts
                                 /\ RequestOfBlock(rel[1]) \in AuctionRequests
BY BlocksAssumption DEF TypeInv, TypeOK, HistoryTypeOK

LEMMA RecordsInit == Init => RecordsInv
BY DEF Init, RecordsInv, RecordWasReleased, ReleaseHasRecord

LEMMA RecordsStep == TypeInv /\ RecordsInv /\ [Next]_vars => RecordsInv'
<1> SUFFICES ASSUME TypeInv, RecordsInv, [Next]_vars PROVE RecordsInv'
  OBVIOUS
<1> USE DEF TypeInv, TypeOK
<1>1. CASE UNCHANGED <<published, released, delivered_payloads>>
  BY <1>1, RetainedBefore, ReleasedRequests
  DEF RecordsInv, RecordWasReleased, ReleaseHasRecord
<1>2. CASE OnEpochPrune
  <2>1. UNCHANGED released /\ clock'.epoch = clock.epoch
    BY <1>2 DEF OnEpochPrune, history, ClockTypeOK
  <2>2. \A r \in AuctionRequests :
            delivered_payloads'[r] = IF Retained(r) THEN delivered_payloads[r] ELSE None
    BY <1>2 DEF OnEpochPrune, Retained
  <2>3. RecordWasReleased'
    BY <2>1, <2>2 DEF RecordsInv, RecordWasReleased
  <2>4. ReleaseHasRecord'
    BY <2>1, <2>2, ReleasedRequests DEF RecordsInv, ReleaseHasRecord, Retained
  <2> QED
    BY <2>3, <2>4 DEF RecordsInv
<1>3. ASSUME NEW t \in OpenTasks, BeaconAccept(t)
      PROVE  RecordsInv'
  BY <1>3, RetainedBefore, ReleasedRequests
  DEF BeaconAccept, state, history, RecordsInv, RecordWasReleased, ReleaseHasRecord
<1>4. ASSUME NEW t \in OpenTasks, OpenDeliver(t)
      PROVE  RecordsInv'
  <2> DEFINE b == open[t].block
             r == RequestOfBlock(b)
             c == open[t].context
  <2>1. /\ released' = released \cup {<<b, c>>}
        /\ UNCHANGED clock
        /\ IF delivered_payloads[r] \notin {None, c}
           THEN UNCHANGED delivered_payloads
           ELSE delivered_payloads' = [delivered_payloads EXCEPT ![r] = c]
    BY <1>4 DEF OpenDeliver, StoreDeliveredPayload
  <2>2. b \in Blocks /\ r \in AuctionRequests /\ c \in AuctionContexts /\ c # None
    BY <1>4, BlocksAssumption, NoneAssumption DEF OpenDeliver, OpenUnderWay
  <2>3. \A q \in AuctionRequests :
            \/ delivered_payloads'[q] = delivered_payloads[q] /\ (q = r => delivered_payloads[q] # None)
            \/ q = r /\ delivered_payloads'[q] = c
    BY <2>1, <2>2 DEF StateTypeOK
  <2> HIDE DEF b, r, c
  <2>4. RecordWasReleased'
    <3> SUFFICES ASSUME NEW q \in AuctionRequests, delivered_payloads'[q] # None
                 PROVE  \E rel \in released' :
                            RequestOfBlock(rel[1]) = q /\ rel[2] = delivered_payloads'[q]
      BY DEF RecordWasReleased
    <3>1. CASE q = r /\ delivered_payloads'[q] = c
      <4>1. <<b, c>> \in released' /\ RequestOfBlock(<<b, c>>[1]) = q /\ <<b, c>>[2] = c
        BY <2>1, <3>1 DEF r
      <4> QED
        BY <3>1, <4>1
    <3>2. CASE delivered_payloads'[q] = delivered_payloads[q]
      <4>1. \E rel \in released : RequestOfBlock(rel[1]) = q /\ rel[2] = delivered_payloads[q]
        BY <3>2 DEF RecordsInv, RecordWasReleased
      <4> QED
        BY <2>1, <3>2, <4>1
    <3> QED
      BY <2>3, <3>1, <3>2
  <2>5. ReleaseHasRecord'
    <3> SUFFICES ASSUME NEW rel \in released', Retained(RequestOfBlock(rel[1]))
                 PROVE  delivered_payloads'[RequestOfBlock(rel[1])] # None
      BY <2>1 DEF ReleaseHasRecord, Retained
    <3>1. CASE rel \in released
      BY <2>2, <2>3, <3>1, ReleasedRequests DEF RecordsInv, ReleaseHasRecord
    <3>2. CASE rel = <<b, c>>
      <4>1. RequestOfBlock(rel[1]) = r
        BY <3>2 DEF r
      <4> QED
        BY <2>2, <2>3, <4>1
    <3> QED
      BY <2>1, <3>1, <3>2
  <2> QED
    BY <2>4, <2>5 DEF RecordsInv
<1> QED
  BY <1>1, <1>2, <1>3, <1>4, DeliverySteps

LEMMA RecordsHold == Spec => []RecordsInv
<1>1. Spec => []TypeInv
  BY InitTypes, NextTypes, PTL DEF Spec
<1> QED
  BY <1>1, RecordsInit, RecordsStep, PTL DEF Spec

\* What was handed out twice for one auction is one payload: the beacon node lets one block
\* of a proposal pass.
LEMMA OnePayloadPerRequest ==
    ASSUME PublicationInv, NEW x \in released, NEW y \in released,
           RequestOfBlock(x[1]) = RequestOfBlock(y[1])
    PROVE  x[2].submission.payload = y[2].submission.payload
<1> DEFINE bx == UnblindBlock(x[1], x[2].submission.payload)
           by == UnblindBlock(y[1], y[2].submission.payload)
<1>1. bx \in published /\ by \in published
  BY DEF PublicationInv, ReleasedWasPublished
<1>2. bx.slot = by.slot /\ bx.proposer_index = by.proposer_index
  BY DEF RequestOfBlock, UnblindBlock
<1>3. bx = by
  BY <1>1, <1>2 DEF PublicationInv, PublishedOnce
<1> QED
  BY <1>3 DEF UnblindBlock

\* Every payload that open_bid handed out is on record for as long as the data API looks back.
THEOREM ReleasesRecorded == Spec => []ReleasedIsRecorded
<1>1. TypeInv /\ PublicationInv /\ RecordsInv => ReleasedIsRecorded
  <2> SUFFICES ASSUME TypeInv, PublicationInv, RecordsInv, NEW rel \in released,
                      Retained(RequestOfBlock(rel[1]))
               PROVE  LET r == RequestOfBlock(rel[1]) IN
                      /\ delivered_payloads[r] # None
                      /\ delivered_payloads[r].submission.payload = rel[2].submission.payload
    BY DEF ReleasedIsRecorded
  <2> DEFINE r == RequestOfBlock(rel[1])
  <2>1. delivered_payloads[r] # None /\ r \in AuctionRequests
    BY ReleasedRequests DEF RecordsInv, ReleaseHasRecord
  <2>2. PICK other \in released : RequestOfBlock(other[1]) = r /\ other[2] = delivered_payloads[r]
    BY <2>1 DEF RecordsInv, RecordWasReleased
  <2> QED
    BY <2>1, <2>2, OnePayloadPerRequest
<1>2. Spec => []TypeInv
  BY InitTypes, NextTypes, PTL DEF Spec
<1> QED
  BY <1>1, <1>2, PublicationHolds, RecordsHold, PTL

----------------------------------------------------------------------------
(***************************************************************************)
(* The relay implements PayloadDelivery.  The three expressions of the     *)
(* refinement mapping, by name:                                            *)
(***************************************************************************)
SignedBlocks == {UnblindBlock(b, b.header) : b \in {x \in Blocks : x.signed}}

DeliveredBlocks == {UnblindBlock(rel[1], rel[2].submission.payload) : rel \in released}

Records ==
    {RecordOfContext(delivered_payloads[r]) :
        r \in {q \in AuctionRequests : delivered_payloads[q] # None}}

DeliveryInv == TypeInv /\ BidsInv /\ PublicationInv /\ RecordsInv

LEMMA DeliveryHolds == Spec => []DeliveryInv
BY BidsHold, PublicationHolds, RecordsHold, PTL DEF DeliveryInv

\* The beacon node accepts the block of a call: the block is broadcast.
LEMMA AcceptIsBroadcast ==
    ASSUME DeliveryInv, NEW t \in OpenTasks, BeaconAccept(t)
    PROVE  \E b \in SignedBlocks : Delivery!Broadcast(b)
<1> DEFINE b == UnblindedBlock(t)
<1>1. b \in SignedBlocks
  <2>1. /\ open[t].block \in Blocks
        /\ open[t].block.signed
        /\ open[t].block.header = open[t].context.submission.payload
    BY DEF BeaconAccept, DeliveryInv, TypeInv, OpenUnderWay, PublicationInv, HeldPayloadIsSigned
  <2> QED
    BY <2>1 DEF SignedBlocks, UnblindedBlock
<1>2. \A other \in published : Delivery!SameProposal(other, b) => other = b
  BY DEF BeaconAccept, Equivocates, Delivery!SameProposal
<1>3. published' = published \cup {b}
  BY DEF BeaconAccept
<1>4. UNCHANGED <<released, delivered_payloads>>
  BY DEF BeaconAccept, state, history
<1>5. UNCHANGED <<DeliveredBlocks, Records>>
  BY <1>4 DEF DeliveredBlocks, Records
<1> QED
  BY <1>1, <1>2, <1>3, <1>5 DEF Delivery!Broadcast, DeliveredBlocks, Records

\* open_bid returns the payload of an accepted block: it is delivered, and it is on record
\* when the call returns, whether the record is new or another call's.
LEMMA DeliverIsDeliver ==
    ASSUME DeliveryInv, NEW t \in OpenTasks, OpenDeliver(t)
    PROVE  \E b \in SignedBlocks : Delivery!Deliver(b)
<1> DEFINE b == UnblindedBlock(t)
           r == RequestOfBlock(open[t].block)
           c == open[t].context
<1>1. /\ open[t].block \in Blocks
      /\ open[t].block.signed
      /\ open[t].block.header = c.submission.payload
      /\ b \in published
      /\ FiledUnder(r, c)
      /\ c \in AuctionContexts
      /\ r \in AuctionRequests
  BY BlocksAssumption
  DEF OpenDeliver, DeliveryInv, TypeInv, OpenUnderWay, PublicationInv, HeldPayloadIsSigned,
      BidsInv, HeldContextsFiled
<1>2. b \in SignedBlocks
  BY <1>1 DEF SignedBlocks, UnblindedBlock
<1>3. released' = released \cup {<<open[t].block, c>>} /\ UNCHANGED published
  BY DEF OpenDeliver
<1>4. DeliveredBlocks' = DeliveredBlocks \cup {b}
  <2> DEFINE new == <<open[t].block, c>>
             F(rel) == UnblindBlock(rel[1], rel[2].submission.payload)
  <2>1. F(new) = b
    BY DEF UnblindedBlock
  <2>2. DeliveredBlocks = {F(rel) : rel \in released}
        /\ DeliveredBlocks' = {F(rel) : rel \in released \cup {new}}
    BY <1>3 DEF DeliveredBlocks
  <2> HIDE DEF F, new, b
  <2> QED
    BY <2>1, <2>2
<1>5. Delivery!RecordOf(b) = RecordOfContext(c)
  BY <1>1 DEF Delivery!RecordOf, RecordOfContext, UnblindedBlock, UnblindBlock, FiledUnder,
              RequestOf, RequestOfSubmission, RequestOfBlock
<1>6. Records' = Records \cup {RecordOfContext(c)}
  <2>1. CASE delivered_payloads[r] \notin {None, c}
    <3>1. UNCHANGED delivered_payloads
      BY <2>1 DEF OpenDeliver, StoreDeliveredPayload
    <3> DEFINE d == delivered_payloads[r]
    <3>2. FiledUnder(r, d)
      BY <1>1, <2>1 DEF DeliveryInv, BidsInv, StoredFiled, StoredContexts, DeliveredPayloads
    <3>3. d.submission.payload = c.submission.payload
      <4>1. PICK rel \in released : RequestOfBlock(rel[1]) = r /\ rel[2] = d
        BY <1>1, <2>1 DEF DeliveryInv, RecordsInv, RecordWasReleased
      <4> DEFINE other == UnblindBlock(rel[1], rel[2].submission.payload)
      <4>2. other \in published
        BY DEF DeliveryInv, PublicationInv, ReleasedWasPublished
      <4>3. other.slot = b.slot /\ other.proposer_index = b.proposer_index
        BY <4>1 DEF RequestOfBlock, UnblindBlock, UnblindedBlock
      <4>4. other = b
        BY <1>1, <4>2, <4>3 DEF DeliveryInv, PublicationInv, PublishedOnce
      <4> QED
        BY <4>1, <4>4 DEF UnblindBlock, UnblindedBlock
    <3>4. RecordOfContext(d) = RecordOfContext(c)
      BY <1>1, <3>2, <3>3 DEF RecordOfContext, FiledUnder, RequestOf, RequestOfSubmission
    <3>5. RecordOfContext(d) \in Records
      BY <1>1, <2>1 DEF Records
    <3> QED
      BY <3>1, <3>4, <3>5 DEF Records
  <2>2. CASE delivered_payloads[r] \in {None, c}
    <3>1. delivered_payloads' = [delivered_payloads EXCEPT ![r] = c]
      BY <2>2 DEF OpenDeliver, StoreDeliveredPayload
    <3>2. delivered_payloads \in [AuctionRequests -> AuctionContexts \cup {None}] /\ c # None
      BY <1>1, NoneAssumption DEF DeliveryInv, TypeInv, TypeOK, StateTypeOK
    <3> HIDE DEF r, c, b
    <3>3. \A q \in AuctionRequests :
            delivered_payloads'[q] = IF q = r THEN c ELSE delivered_payloads[q]
      BY <1>1, <3>1, <3>2
    <3>4. Records' \subseteq Records \cup {RecordOfContext(c)}
      BY <3>3 DEF Records
    <3>5. RecordOfContext(c) \in Records'
      BY <1>1, <3>2, <3>3 DEF Records
    <3>6. Records \subseteq Records' \cup {RecordOfContext(c)}
      BY <2>2, <3>2, <3>3 DEF Records
    <3> QED
      BY <3>4, <3>5, <3>6
  <2> QED
    BY <2>1, <2>2
<1> HIDE DEF b, c, r
<1> QED
  BY <1>1, <1>2, <1>3, <1>4, <1>5, <1>6 DEF Delivery!Deliver, DeliveredBlocks, Records

\* The clean-up of on_epoch: records become old.
LEMMA PruneIsForget ==
    ASSUME OnEpochPrune
    PROVE  Delivery!Forget
<1>1. UNCHANGED <<published, released>>
  BY DEF OnEpochPrune, history
<1>2. \A r \in AuctionRequests : delivered_payloads'[r] \in {delivered_payloads[r], None}
  BY DEF OnEpochPrune
<1>3. Records' \subseteq Records
  BY <1>2 DEF Records
<1>4. UNCHANGED DeliveredBlocks
  BY <1>1 DEF DeliveredBlocks
<1> QED
  BY <1>1, <1>3, <1>4 DEF Delivery!Forget, DeliveredBlocks, Records

\* The relay implements PayloadDelivery: each of its steps broadcasts a signed block of a
\* proposal that has none yet, hands out and records the payload of a broadcast block, forgets
\* records, or changes nothing that a proposer, the network or the data API can see.
THEOREM ImplementsDelivery == Spec => DeliversPayloads
<1>1. Init => Delivery!Init
  <2>1. ASSUME Init PROVE DeliveredBlocks = {} /\ Records = {}
    BY <2>1 DEF Init, DeliveredBlocks, Records
  <2> QED
    BY <2>1 DEF Init, Delivery!Init, DeliveredBlocks, Records
<1>2. DeliveryInv /\ [Next]_vars => [Delivery!Next]_Delivery!vars
  <2> SUFFICES ASSUME DeliveryInv, [Next]_vars
               PROVE  Delivery!Next \/ UNCHANGED Delivery!vars
    OBVIOUS
  <2>1. ASSUME \E b \in SignedBlocks : Delivery!Broadcast(b) \/ Delivery!Deliver(b)
        PROVE  Delivery!Next
    BY <2>1 DEF Delivery!Next, SignedBlocks
  <2>2. CASE \E t \in OpenTasks : BeaconAccept(t) \/ OpenDeliver(t)
    BY <2>1, <2>2, AcceptIsBroadcast, DeliverIsDeliver
  <2>3. CASE OnEpochPrune
    BY <2>3, PruneIsForget DEF Delivery!Next
  <2>4. CASE UNCHANGED <<published, released, delivered_payloads>>
    BY <2>4 DEF Delivery!vars
  <2> QED
    BY <2>2, <2>3, <2>4, DeliverySteps
<1> QED
  BY <1>1, <1>2, DeliveryHolds, PTL DEF Spec, DeliversPayloads, Delivery!Spec

=============================================================================
