------------------------ MODULE RelayAuctionsProofs ------------------------
(***************************************************************************)
(* What RelayAuctions guarantees for any number of slots, validators,      *)
(* submissions and concurrent calls.                                       *)
(***************************************************************************)
EXTENDS RelayAuctions, TLAPS

----------------------------------------------------------------------------
(* Types *)

\* A call of submit_bid that is under way has a submission and a receive time.
SubmitUnderWay ==
    \A t \in SubmitTasks : submit[t].pc # "idle" =>
        submit[t].submission \in Submissions /\ submit[t].receive_duration \in 1..MaxReceipts

\* A call of fetch_best_bid that is under way has a request.
FetchUnderWay ==
    \A t \in FetchTasks : fetch[t].pc # "idle" => fetch[t].request \in AuctionRequests

\* A call of open_bid that is under way has a block and, past the lookup, a context.
OpenUnderWay ==
    \A t \in OpenTasks :
        /\ open[t].pc # "idle" => open[t].block \in Blocks
        /\ open[t].pc \in {"validate", "post", "accepted"} => open[t].context \in AuctionContexts

TypeInv == TypeOK /\ SubmitUnderWay /\ FetchUnderWay /\ OpenUnderWay

LEMMA EpochIsNat == \A s \in Slots : EpochOf(s) \in Nat
BY BoundsAssumption DEF EpochOf

LEMMA InitTypes == Init => TypeInv
<1> SUFFICES ASSUME Init PROVE TypeInv
  OBVIOUS
<1>1. StateTypeOK /\ RegistryTypeOK
  BY DEF Init, StateTypeOK, RegistryTypeOK
<1>2. ClockTypeOK
  BY EpochIsNat DEF Init, ClockTypeOK
<1>3. SubmitTypeOK /\ FetchTypeOK /\ OpenTypeOK /\ HistoryTypeOK
  BY BoundsAssumption
  DEF Init, SubmitTypeOK, FetchTypeOK, OpenTypeOK, HistoryTypeOK, IdleSubmit, IdleFetch, IdleOpen
<1>4. SubmitUnderWay /\ FetchUnderWay /\ OpenUnderWay
  BY DEF Init, SubmitUnderWay, FetchUnderWay, OpenUnderWay, IdleSubmit, IdleFetch, IdleOpen
<1> QED
  BY <1>1, <1>2, <1>3, <1>4 DEF TypeInv, TypeOK

\* The parts of the state an action leaves alone keep their types.
LEMMA FrameTypes ==
    ASSUME TypeInv
    PROVE  /\ UNCHANGED state => StateTypeOK'
           /\ UNCHANGED registry => RegistryTypeOK'
           /\ UNCHANGED clock => ClockTypeOK'
           /\ UNCHANGED <<submit, receipts>> => SubmitTypeOK' /\ SubmitUnderWay'
           /\ UNCHANGED fetch => FetchTypeOK' /\ FetchUnderWay'
           /\ UNCHANGED open => OpenTypeOK' /\ OpenUnderWay'
           /\ UNCHANGED <<published, history>> => HistoryTypeOK'
<1> USE DEF TypeInv, TypeOK
<1>1. UNCHANGED state => StateTypeOK'
  BY DEF StateTypeOK, state
<1>2. UNCHANGED registry => RegistryTypeOK'
  BY DEF RegistryTypeOK, registry
<1>3. UNCHANGED clock => ClockTypeOK'
  BY DEF ClockTypeOK
<1>4. UNCHANGED <<submit, receipts>> => SubmitTypeOK' /\ SubmitUnderWay'
  BY DEF SubmitTypeOK, SubmitUnderWay
<1>5. UNCHANGED fetch => FetchTypeOK' /\ FetchUnderWay'
  BY DEF FetchTypeOK, FetchUnderWay
<1>6. UNCHANGED open => OpenTypeOK' /\ OpenUnderWay'
  BY DEF OpenTypeOK, OpenUnderWay
<1>7. UNCHANGED <<published, history>> => HistoryTypeOK'
  BY DEF HistoryTypeOK, history
<1> QED
  BY <1>1, <1>2, <1>3, <1>4, <1>5, <1>6, <1>7

\* Any step of the clock, of the beacon node's announcements or of a registration.
EnvironmentNext ==
    \/ ClockNext
    \/ \E r \in Announcements : OnPayloadAttributes(r)
    \/ \E p \in Proposers, f \in FeeRecipients : Register(p, f)

LEMMA EnvironmentTypes == TypeInv /\ EnvironmentNext => TypeInv'
<1> SUFFICES ASSUME TypeInv, EnvironmentNext PROVE TypeInv'
  OBVIOUS
<1> USE FrameTypes DEF TypeInv, TypeOK
<1>1. CASE Tick
  <2>1. PICK s \in Slots :
          clock' = IF EpochOf(s) > clock.epoch
                   THEN [pc |-> "on_epoch", slot |-> s, epoch |-> EpochOf(s)]
                   ELSE [clock EXCEPT !.pc = "on_slot", !.slot = s]
    BY <1>1 DEF Tick
  <2>2. EpochOf(s) \in Nat
    BY EpochIsNat
  <2>3. ClockTypeOK'
    BY <2>1, <2>2 DEF ClockTypeOK
  <2> QED
    BY <1>1, <2>3 DEF Tick
<1>2. CASE OnEpoch
  <2>1. ClockTypeOK' /\ RegistryTypeOK'
    BY <1>2 DEF OnEpoch, ClockTypeOK, RegistryTypeOK
  <2> QED
    BY <1>2, <2>1 DEF OnEpoch
<1>3. CASE OnEpochPrune
  <2>1. StateTypeOK'
    BY <1>3 DEF OnEpochPrune, StateTypeOK
  <2>2. ClockTypeOK'
    BY <1>3 DEF OnEpochPrune, ClockTypeOK
  <2> QED
    BY <1>3, <2>1, <2>2 DEF OnEpochPrune
<1>4. CASE OnSlot
  <2>1. StateTypeOK' /\ ClockTypeOK'
    BY <1>4 DEF OnSlot, StateTypeOK, ClockTypeOK
  <2> QED
    BY <1>4, <2>1 DEF OnSlot
<1>5. ASSUME NEW r \in Announcements, OnPayloadAttributes(r)
      PROVE  TypeInv'
  <2>1. StateTypeOK'
    BY <1>5, BoundsAssumption DEF OnPayloadAttributes, StateTypeOK
  <2> QED
    BY <1>5, <2>1 DEF OnPayloadAttributes
<1>6. ASSUME NEW p \in Proposers, NEW f \in FeeRecipients, Register(p, f)
      PROVE  TypeInv'
  <2>1. RegistryTypeOK'
    BY <1>6 DEF Register, RegistryTypeOK
  <2> QED
    BY <1>6, <2>1 DEF Register
<1> QED
  BY <1>1, <1>2, <1>3, <1>4, <1>5, <1>6 DEF EnvironmentNext, ClockNext

LEMMA SubmitTypes ==
    ASSUME TypeInv, NEW t \in SubmitTasks,
           SubmitNext(t) \/ \E s \in Submissions : SubmitBid(t, s)
    PROVE  TypeInv'
<1> USE FrameTypes DEF TypeInv, TypeOK
<1>1. ASSUME NEW s \in Submissions, SubmitBid(t, s)
      PROVE  TypeInv'
  <2>1. receipts \in 0..MaxReceipts
    BY DEF SubmitTypeOK
  <2>2. receipts + 1 \in 1..MaxReceipts
    <3>1. receipts < MaxReceipts
      BY <1>1 DEF SubmitBid
    <3>2. MaxReceipts \in Nat
      BY BoundsAssumption
    <3> QED
      BY <2>1, <3>1, <3>2
  <2>3. SubmitTypeOK' /\ SubmitUnderWay'
    <3>1. submit' = [submit EXCEPT ![t] =
            [pc |-> "validate", submission |-> s, receive_duration |-> receipts + 1,
             seen |-> None]]
      BY <1>1 DEF SubmitBid, IdleSubmit
    <3>2. receipts' = receipts + 1
      BY <1>1 DEF SubmitBid
    <3> QED
      BY <2>2, <3>1, <3>2, BoundsAssumption DEF SubmitTypeOK, SubmitUnderWay
  <2> QED
    BY <1>1, <2>3 DEF SubmitBid
<1>2. ASSUME SubmitReturn(t), UNCHANGED receipts
      PROVE  SubmitTypeOK' /\ SubmitUnderWay'
  BY <1>2, BoundsAssumption DEF SubmitReturn, IdleSubmit, SubmitTypeOK, SubmitUnderWay
<1>3. CASE SubmitValidate(t)
  <2>1. CASE submit' = [submit EXCEPT ![t].pc = "lookup"]
    <3>1. SubmitTypeOK' /\ SubmitUnderWay'
      BY <1>3, <2>1 DEF SubmitValidate, SubmitTypeOK, SubmitUnderWay
    <3> QED
      BY <1>3, <3>1 DEF SubmitValidate
  <2>2. CASE SubmitReturn(t)
    BY <1>2, <1>3, <2>2 DEF SubmitValidate
  <2> QED
    BY <1>3, <2>1, <2>2 DEF SubmitValidate
<1>4. CASE SubmitLookup(t)
  <2>1. submit[t].submission \in Submissions
    BY <1>4 DEF SubmitLookup, SubmitUnderWay
  <2>2. RequestOfSubmission(submit[t].submission) \in AuctionRequests
    BY <2>1, SubmissionsAssumption
  <2>3. auctions[RequestOfSubmission(submit[t].submission)] \in AuctionContexts \cup {None}
    BY <2>2 DEF StateTypeOK
  <2>4. SubmitTypeOK' /\ SubmitUnderWay'
    BY <1>4, <2>3 DEF SubmitLookup, SubmitTypeOK, SubmitUnderWay
  <2> QED
    BY <1>4, <2>4 DEF SubmitLookup
<1>5. CASE SubmitCompare(t)
  <2>1. CASE submit' = [submit EXCEPT ![t].pc = "insert"]
    <3>1. SubmitTypeOK' /\ SubmitUnderWay'
      BY <1>5, <2>1 DEF SubmitCompare, SubmitTypeOK, SubmitUnderWay
    <3> QED
      BY <1>5, <3>1 DEF SubmitCompare
  <2>2. CASE SubmitReturn(t)
    BY <1>2, <1>5, <2>2 DEF SubmitCompare
  <2> QED
    BY <1>5, <2>1, <2>2 DEF SubmitCompare
<1>6. CASE SubmitInsert(t)
  <2> DEFINE r == RequestOfSubmission(submit[t].submission)
  <2>1. ContextOf(t) \in AuctionContexts
    BY <1>6 DEF SubmitInsert, SubmitUnderWay, ContextOf, AuctionContexts
  <2>2. r \in AuctionRequests
    BY <1>6, SubmissionsAssumption DEF SubmitInsert, SubmitUnderWay
  <2>3. StateTypeOK'
    BY <1>6, <2>1, <2>2 DEF SubmitInsert, StateTypeOK
  <2>4. HistoryTypeOK'
    BY <1>6, <2>1, <2>2 DEF SubmitInsert, HistoryTypeOK
  <2> QED
    BY <1>2, <1>6, <2>3, <2>4 DEF SubmitInsert
<1> QED
  BY <1>1, <1>3, <1>4, <1>5, <1>6 DEF SubmitNext

LEMMA FetchTypes ==
    ASSUME TypeInv, NEW t \in FetchTasks,
           FetchNext(t) \/ \E r \in Announcements : FetchBestBid(t, r)
    PROVE  TypeInv'
<1> USE FrameTypes DEF TypeInv, TypeOK
<1>1. FetchReturn(t) => FetchTypeOK' /\ FetchUnderWay'
  BY DEF FetchReturn, IdleFetch, FetchTypeOK, FetchUnderWay
<1>2. ASSUME NEW r \in Announcements, FetchBestBid(t, r)
      PROVE  TypeInv'
  <2>1. r \in AuctionRequests
    BY BoundsAssumption
  <2>2. FetchTypeOK' /\ FetchUnderWay'
    BY <1>2, <2>1 DEF FetchBestBid, IdleFetch, FetchTypeOK, FetchUnderWay
  <2> QED
    BY <1>2, <2>2 DEF FetchBestBid
<1>3. CASE FetchLookup(t)
  <2>1. auctions[fetch[t].request] \in AuctionContexts \cup {None}
    BY <1>3 DEF FetchLookup, FetchUnderWay, StateTypeOK
  <2>2. FetchTypeOK' /\ FetchUnderWay'
    BY <1>1, <1>3, <2>1 DEF FetchLookup, FetchTypeOK, FetchUnderWay
  <2> QED
    BY <1>3, <2>2 DEF FetchLookup
<1>4. CASE FetchServe(t)
  BY <1>1, <1>4 DEF FetchServe
<1> QED
  BY <1>2, <1>3, <1>4 DEF FetchNext

LEMMA OpenTypes ==
    ASSUME TypeInv, NEW t \in OpenTasks,
           OpenNext(t) \/ \E b \in Blocks : OpenBid(t, b)
    PROVE  TypeInv'
<1> USE FrameTypes DEF TypeInv, TypeOK
<1>1. OpenReturn(t) => OpenTypeOK' /\ OpenUnderWay'
  BY DEF OpenReturn, IdleOpen, OpenTypeOK, OpenUnderWay
<1>2. ASSUME NEW b \in Blocks, OpenBid(t, b)
      PROVE  TypeInv'
  <2>1. OpenTypeOK' /\ OpenUnderWay'
    BY <1>2 DEF OpenBid, IdleOpen, OpenTypeOK, OpenUnderWay
  <2> QED
    BY <1>2, <2>1 DEF OpenBid
<1>3. CASE OpenLookup(t)
  <2>1. RequestOfBlock(open[t].block) \in AuctionRequests
    BY <1>3, BlocksAssumption DEF OpenLookup, OpenUnderWay
  <2>2. auctions[RequestOfBlock(open[t].block)] \in AuctionContexts \cup {None}
    BY <2>1 DEF StateTypeOK
  <2>3. OpenTypeOK' /\ OpenUnderWay'
    BY <1>1, <1>3, <2>2 DEF OpenLookup, OpenTypeOK, OpenUnderWay
  <2> QED
    BY <1>3, <2>3 DEF OpenLookup
<1>v. CASE OpenValidate(t)
  <2>1. OpenTypeOK' /\ OpenUnderWay'
    BY <1>1, <1>v DEF OpenValidate, OpenTypeOK, OpenUnderWay
  <2> QED
    BY <1>v, <2>1 DEF OpenValidate
<1>4. CASE BeaconAccept(t)
  <2>1. open[t].block \in Blocks /\ open[t].context \in AuctionContexts
    BY <1>4 DEF BeaconAccept, OpenUnderWay
  <2>2. open[t].context.submission \in Submissions
    BY <2>1 DEF AuctionContexts
  <2>3. HistoryTypeOK'
    BY <1>4, <2>1, <2>2 DEF BeaconAccept, HistoryTypeOK, UnblindedBlock, history
  <2>4. OpenTypeOK' /\ OpenUnderWay'
    BY <1>4 DEF BeaconAccept, OpenTypeOK, OpenUnderWay
  <2> QED
    BY <1>4, <2>3, <2>4 DEF BeaconAccept
<1>5. CASE OpenPostFails(t)
  BY <1>1, <1>5 DEF OpenPostFails
<1>6. CASE OpenDeliver(t)
  <2>1. open[t].block \in Blocks /\ open[t].context \in AuctionContexts
    BY <1>6 DEF OpenDeliver, OpenUnderWay
  <2>2. StateTypeOK'
    BY <1>6, <2>1 DEF OpenDeliver, StoreDeliveredPayload, StateTypeOK
  <2>3. HistoryTypeOK'
    BY <1>6, <2>1 DEF OpenDeliver, HistoryTypeOK
  <2> QED
    BY <1>1, <1>6, <2>2, <2>3 DEF OpenDeliver
<1> QED
  BY <1>2, <1>3, <1>v, <1>4, <1>5, <1>6 DEF OpenNext

LEMMA NextTypes == TypeInv /\ [Next]_vars => TypeInv'
<1> SUFFICES ASSUME TypeInv, [Next]_vars PROVE TypeInv'
  OBVIOUS
<1>1. CASE UNCHANGED vars
  BY <1>1, FrameTypes DEF vars, TypeInv, TypeOK
<1> QED
  BY <1>1, EnvironmentTypes, SubmitTypes, FetchTypes, OpenTypes DEF Next, EnvironmentNext

\* The relay's state keeps its shape: every entry of the three maps is a context that was
\* built from a submission, and every call under way has its inputs.
THEOREM TypeCorrect == Spec => []TypeOK
<1>1. Spec => []TypeInv
  BY InitTypes, NextTypes, PTL DEF Spec
<1>2. TypeInv => TypeOK
  BY DEF TypeInv
<1> QED
  BY <1>1, <1>2, PTL

----------------------------------------------------------------------------
(* Payloads are released only for published blocks, one block per proposal *)

\* A call waiting for the beacon node holds the payload that its block was signed over, and
\* once the beacon node accepted, the unblinded block is broadcast.
HeldPayloadIsSigned ==
    \A t \in OpenTasks :
        /\ open[t].pc \in {"post", "accepted"} =>
            open[t].block.signed /\ open[t].block.header = open[t].context.submission.payload
        /\ open[t].pc = "accepted" => UnblindedBlock(t) \in published

\* The beacon node broadcasts one block per proposal.
PublishedOnce ==
    \A x, y \in published :
        x.slot = y.slot /\ x.proposer_index = y.proposer_index => x = y

PublicationInv == HeldPayloadIsSigned /\ PublishedOnce /\ ReleasedWasPublished

LEMMA PublicationFrame ==
    PublicationInv /\ UNCHANGED <<open, published, released>> => PublicationInv'
BY DEF PublicationInv, HeldPayloadIsSigned, PublishedOnce, ReleasedWasPublished, UnblindedBlock

LEMMA PublicationStep == TypeInv /\ PublicationInv /\ [Next]_vars => PublicationInv'
<1> SUFFICES ASSUME TypeInv, PublicationInv, [Next]_vars PROVE PublicationInv'
  OBVIOUS
<1>1. ASSUME NEW t \in OpenTasks, NEW b \in Blocks, OpenBid(t, b)
      PROVE  PublicationInv'
  <2>1. HeldPayloadIsSigned'
    BY <1>1 DEF OpenBid, IdleOpen, PublicationInv, HeldPayloadIsSigned, UnblindedBlock,
                TypeInv, TypeOK, OpenTypeOK
  <2> QED
    BY <1>1, <2>1 DEF OpenBid, history, PublicationInv, PublishedOnce, ReleasedWasPublished
<1>2. ASSUME NEW t \in OpenTasks, OpenReturn(t)
      PROVE  UNCHANGED published => HeldPayloadIsSigned'
  BY <1>2 DEF OpenReturn, IdleOpen, PublicationInv, HeldPayloadIsSigned, UnblindedBlock,
              TypeInv, TypeOK, OpenTypeOK
<1>3. ASSUME NEW t \in OpenTasks, OpenLookup(t)
      PROVE  PublicationInv'
  <2>1. UNCHANGED <<published, released>>
    BY <1>3 DEF OpenLookup, history
  <2>2. HeldPayloadIsSigned'
    <3>1. CASE OpenReturn(t)
      BY <1>2, <2>1, <3>1
    <3>2. CASE ~OpenReturn(t)
      BY <1>3, <2>1, <3>2
      DEF OpenLookup, PublicationInv, HeldPayloadIsSigned, UnblindedBlock,
          TypeInv, TypeOK, OpenTypeOK
    <3> QED
      BY <3>1, <3>2
  <2> QED
    BY <2>1, <2>2 DEF PublicationInv, PublishedOnce, ReleasedWasPublished
<1>v. ASSUME NEW t \in OpenTasks, OpenValidate(t)
      PROVE  PublicationInv'
  <2>1. UNCHANGED <<published, released>>
    BY <1>v DEF OpenValidate, history
  <2>2. HeldPayloadIsSigned'
    <3>1. CASE OpenReturn(t)
      BY <1>2, <2>1, <3>1
    <3>2. CASE IsValidBlock(t) /\ open' = [open EXCEPT ![t].pc = "post"]
      BY <2>1, <3>2
      DEF IsValidBlock, ValidateHeaderEquality, PublicationInv, HeldPayloadIsSigned,
          UnblindedBlock, TypeInv, TypeOK, OpenTypeOK
    <3> QED
      BY <1>v, <3>1, <3>2 DEF OpenValidate
  <2> QED
    BY <2>1, <2>2 DEF PublicationInv, PublishedOnce, ReleasedWasPublished
<1>4. ASSUME NEW t \in OpenTasks, BeaconAccept(t)
      PROVE  PublicationInv'
  <2>1. published' = published \cup {UnblindedBlock(t)} /\ UNCHANGED released
    BY <1>4 DEF BeaconAccept, history
  <2>2. HeldPayloadIsSigned'
    BY <1>4, <2>1 DEF BeaconAccept, PublicationInv, HeldPayloadIsSigned, UnblindedBlock,
                      TypeInv, TypeOK, OpenTypeOK
  <2>3. PublishedOnce'
    BY <1>4, <2>1 DEF BeaconAccept, Equivocates, PublicationInv, PublishedOnce
  <2>4. ReleasedWasPublished'
    BY <2>1 DEF PublicationInv, ReleasedWasPublished
  <2> QED
    BY <2>2, <2>3, <2>4 DEF PublicationInv
<1>5. ASSUME NEW t \in OpenTasks, OpenPostFails(t)
      PROVE  PublicationInv'
  BY <1>2, <1>5 DEF OpenPostFails, history, PublicationInv, PublishedOnce, ReleasedWasPublished
<1>6. ASSUME NEW t \in OpenTasks, OpenDeliver(t)
      PROVE  PublicationInv'
  <2>1. ReleasedWasPublished'
    BY <1>6 DEF OpenDeliver, PublicationInv, HeldPayloadIsSigned, ReleasedWasPublished,
                UnblindedBlock
  <2> QED
    BY <1>2, <1>6, <2>1 DEF OpenDeliver, PublicationInv, PublishedOnce
<1>7. ASSUME NEW t \in SubmitTasks, SubmitNext(t) \/ \E s \in Submissions : SubmitBid(t, s)
      PROVE  UNCHANGED <<open, published, released>>
  BY <1>7 DEF SubmitNext, SubmitBid, SubmitValidate, SubmitLookup, SubmitCompare, SubmitInsert,
              history
<1>8. ASSUME NEW t \in FetchTasks, FetchNext(t) \/ \E r \in Announcements : FetchBestBid(t, r)
      PROVE  UNCHANGED <<open, published, released>>
  BY <1>8 DEF FetchNext, FetchBestBid, FetchLookup, FetchServe, history
<1>9. ASSUME EnvironmentNext
      PROVE  UNCHANGED <<open, published, released>>
  BY <1>9 DEF EnvironmentNext, ClockNext, Tick, OnEpoch, OnEpochPrune, OnSlot,
              OnPayloadAttributes, Register, history
<1>10. CASE UNCHANGED vars
  BY <1>10, PublicationFrame DEF vars, history
<1> QED
  BY <1>1, <1>3, <1>v, <1>4, <1>5, <1>6, <1>7, <1>8, <1>9, <1>10, PublicationFrame
  DEF Next, OpenNext, EnvironmentNext

LEMMA PublicationInit == Init => PublicationInv
BY DEF Init, IdleOpen, PublicationInv, HeldPayloadIsSigned, PublishedOnce, ReleasedWasPublished

LEMMA PublicationHolds == Spec => []PublicationInv
<1>1. Spec => []TypeInv
  BY InitTypes, NextTypes, PTL DEF Spec
<1> QED
  BY <1>1, PublicationInit, PublicationStep, PTL DEF Spec

\* open_bid releases a payload only for a block that the proposer signed over that payload
\* and that the beacon node has broadcast.
THEOREM PublishedBeforeReleased == Spec => []ReleasedWasPublished
<1>1. PublicationInv => ReleasedWasPublished
  BY DEF PublicationInv
<1> QED
  BY <1>1, PublicationHolds, PTL

\* open_bid never releases payloads for two different blocks of one proposal.
THEOREM NoEquivocatingRelease == Spec => []OneReleasePerProposal
<1>1. PublicationInv => OneReleasePerProposal
  BY DEF PublicationInv, PublishedOnce, ReleasedWasPublished, OneReleasePerProposal, UnblindBlock
<1> QED
  BY <1>1, PublicationHolds, PTL

----------------------------------------------------------------------------
(* The best bid is not listed twice *)

\* Calls under way have receive times of their own, none of them in the future.
DistinctReceipts ==
    /\ \A t \in SubmitTasks : submit[t].pc # "idle" => submit[t].receive_duration <= receipts
    /\ \A t, u \in SubmitTasks :
        t # u /\ submit[t].pc # "idle" /\ submit[u].pc # "idle" =>
            submit[t].receive_duration # submit[u].receive_duration

Recorded(r) == (other_submissions[r] \cup {auctions[r]}) \ {None}

\* No recorded context has the receive time of a call under way.
RecordedReceipts ==
    \A r \in AuctionRequests : \A c \in Recorded(r) :
        /\ c.receive_duration <= receipts
        /\ \A t \in SubmitTasks :
            submit[t].pc # "idle" => submit[t].receive_duration # c.receive_duration

ReceiptsInv == DistinctReceipts /\ RecordedReceipts /\ BestNotInOthers

LEMMA ReceiptsInit == Init => ReceiptsInv
BY DEF Init, IdleSubmit, ReceiptsInv, DistinctReceipts, RecordedReceipts, Recorded, BestNotInOthers

\* A step of a call that keeps or gives up its receive time.
LEMMA ReceiptsFrame ==
    ASSUME TypeInv, ReceiptsInv, UNCHANGED <<auctions, other_submissions, receipts>>,
           \A t \in SubmitTasks :
                submit'[t].pc = "idle" \/
                (submit[t].pc # "idle" /\ submit'[t].receive_duration = submit[t].receive_duration)
    PROVE  ReceiptsInv'
BY DEF ReceiptsInv, DistinctReceipts, RecordedReceipts, Recorded, BestNotInOthers

LEMMA ReceiptsStep == TypeInv /\ ReceiptsInv /\ [Next]_vars => ReceiptsInv'
<1> SUFFICES ASSUME TypeInv, ReceiptsInv, [Next]_vars PROVE ReceiptsInv'
  OBVIOUS
<1> USE DEF TypeInv, TypeOK
<1>1. ASSUME NEW t \in SubmitTasks, NEW s \in Submissions, SubmitBid(t, s)
      PROVE  ReceiptsInv'
  <2>1. /\ receipts' = receipts + 1
        /\ submit' = [submit EXCEPT ![t] =
                [pc |-> "validate", submission |-> s, receive_duration |-> receipts + 1,
                 seen |-> None]]
        /\ UNCHANGED <<auctions, other_submissions>>
    BY <1>1 DEF SubmitBid, state
  <2>2. receipts \in Nat
    BY BoundsAssumption DEF SubmitTypeOK
  <2>3. \A u \in SubmitTasks :
            submit'[u] = IF u = t THEN [pc |-> "validate", submission |-> s,
                                        receive_duration |-> receipts + 1, seen |-> None]
                         ELSE submit[u]
    BY <2>1 DEF SubmitTypeOK
  <2>4. \A u \in SubmitTasks : submit[u].receive_duration \in Nat
    BY BoundsAssumption DEF SubmitTypeOK
  <2>5. DistinctReceipts'
    BY <2>1, <2>2, <2>3, <2>4 DEF ReceiptsInv, DistinctReceipts
  <2>6. \A r \in AuctionRequests : Recorded(r) \subseteq AuctionContexts
    BY DEF Recorded, StateTypeOK
  <2>7. \A c \in AuctionContexts : c.receive_duration \in Nat
    BY BoundsAssumption DEF AuctionContexts
  <2>8. RecordedReceipts'
    <3> SUFFICES ASSUME NEW r \in AuctionRequests, NEW c \in Recorded(r)
                 PROVE  /\ c.receive_duration <= receipts + 1
                        /\ \A u \in SubmitTasks : submit'[u].pc # "idle" =>
                            submit'[u].receive_duration # c.receive_duration
      BY <2>1 DEF RecordedReceipts, Recorded
    <3>1. c.receive_duration \in Nat
      BY <2>6, <2>7
    <3>2. c.receive_duration <= receipts
      BY DEF ReceiptsInv, RecordedReceipts
    <3> QED
      BY <2>2, <2>3, <3>1, <3>2 DEF ReceiptsInv, RecordedReceipts
  <2>9. BestNotInOthers'
    BY <2>1 DEF ReceiptsInv, BestNotInOthers
  <2> QED
    BY <2>5, <2>8, <2>9 DEF ReceiptsInv
<1>2. ASSUME NEW t \in SubmitTasks, SubmitValidate(t) \/ SubmitLookup(t) \/ SubmitCompare(t)
      PROVE  ReceiptsInv'
  <2>1. UNCHANGED <<auctions, other_submissions, receipts>>
    BY <1>2 DEF SubmitValidate, SubmitLookup, SubmitCompare, state
  <2>2. \A u \in SubmitTasks :
            submit'[u].pc = "idle" \/
            (submit[u].pc # "idle" /\ submit'[u].receive_duration = submit[u].receive_duration)
            \/ submit'[u] = submit[u]
    BY <1>2 DEF SubmitValidate, SubmitLookup, SubmitCompare, SubmitReturn, IdleSubmit, SubmitTypeOK
  <2> QED
    BY <2>1, <2>2, ReceiptsFrame
<1>3. ASSUME NEW t \in SubmitTasks, SubmitInsert(t)
      PROVE  ReceiptsInv'
  <2> DEFINE r == RequestOfSubmission(submit[t].submission)
             new == ContextOf(t)
  <2>1. r \in AuctionRequests
    BY <1>3, SubmissionsAssumption DEF SubmitInsert, SubmitUnderWay
  <2>2. /\ auctions' = [auctions EXCEPT ![r] = new]
        /\ \A q \in AuctionRequests :
             other_submissions'[q] \subseteq other_submissions[q] \cup ({auctions[q]} \ {None})
        /\ \A q \in AuctionRequests : q # r => other_submissions'[q] = other_submissions[q]
    BY <1>3, <2>1 DEF SubmitInsert, StateTypeOK
  <2>3. /\ submit' = [submit EXCEPT ![t] = IdleSubmit]
        /\ receipts' = receipts
        /\ submit[t].pc # "idle"
    BY <1>3 DEF SubmitInsert, SubmitReturn
  <2>4. \A u \in SubmitTasks : submit'[u].pc # "idle" => u # t /\ submit'[u] = submit[u]
    BY <2>3 DEF IdleSubmit, SubmitTypeOK
  <2>5. new.receive_duration = submit[t].receive_duration
    BY DEF ContextOf
  <2>6. DistinctReceipts'
    BY <2>3, <2>4 DEF ReceiptsInv, DistinctReceipts
  <2>7. \A q \in AuctionRequests : Recorded(q)' \subseteq Recorded(q) \cup {new}
    BY <2>1, <2>2 DEF Recorded, StateTypeOK
  <2>8. RecordedReceipts'
    BY <2>3, <2>4, <2>5, <2>7 DEF ReceiptsInv, DistinctReceipts, RecordedReceipts
  <2>9. \A q \in AuctionRequests : new \notin Recorded(q)
    BY <2>3, <2>5 DEF ReceiptsInv, RecordedReceipts
  <2>10. new # None
    BY <1>3, NoneAssumption DEF SubmitInsert, SubmitUnderWay, ContextOf, AuctionContexts
  <2>11. BestNotInOthers'
    BY <2>1, <2>2, <2>9, <2>10 DEF ReceiptsInv, BestNotInOthers, Recorded, StateTypeOK
  <2> QED
    BY <2>6, <2>8, <2>11 DEF ReceiptsInv
<1>4. CASE OnEpochPrune
  <2>1. UNCHANGED <<submit, receipts>>
    BY <1>4 DEF OnEpochPrune
  <2>2. \A r \in AuctionRequests :
            \/ auctions'[r] = auctions[r] /\ other_submissions'[r] = other_submissions[r]
            \/ auctions'[r] = None /\ other_submissions'[r] = {}
    BY <1>4 DEF OnEpochPrune
  <2>3. \A r \in AuctionRequests : None \notin other_submissions[r]
    BY NoneAssumption DEF StateTypeOK
  <2> QED
    BY <2>1, <2>2, <2>3
    DEF ReceiptsInv, DistinctReceipts, RecordedReceipts, Recorded, BestNotInOthers
<1>5. ASSUME UNCHANGED <<auctions, other_submissions, receipts, submit>>
      PROVE  ReceiptsInv'
  BY <1>5 DEF ReceiptsInv, DistinctReceipts, RecordedReceipts, Recorded, BestNotInOthers
<1>6. CASE Tick \/ OnEpoch \/ OnSlot
  BY <1>5, <1>6 DEF Tick, OnEpoch, OnSlot, state
<1>7. CASE (\E r \in Announcements : OnPayloadAttributes(r))
           \/ (\E p \in Proposers, f \in FeeRecipients : Register(p, f))
  BY <1>5, <1>7 DEF OnPayloadAttributes, Register, state
<1>8. ASSUME NEW t \in FetchTasks, FetchNext(t) \/ \E r \in Announcements : FetchBestBid(t, r)
      PROVE  ReceiptsInv'
  BY <1>5, <1>8 DEF FetchNext, FetchBestBid, FetchLookup, FetchServe, state
<1>9. ASSUME NEW t \in OpenTasks, OpenNext(t) \/ \E b \in Blocks : OpenBid(t, b)
      PROVE  ReceiptsInv'
  BY <1>5, <1>9
  DEF OpenNext, OpenBid, OpenLookup, OpenValidate, BeaconAccept, OpenPostFails, OpenDeliver, state
<1>10. CASE UNCHANGED vars
  BY <1>5, <1>10 DEF vars, state
<1> QED
  BY <1>1, <1>2, <1>3, <1>4, <1>6, <1>7, <1>8, <1>9, <1>10 DEF Next, ClockNext, SubmitNext

\* The data API never lists the best bid a second time among the other submissions.
THEOREM BestListedOnce == Spec => []BestNotInOthers
<1>1. Spec => []TypeInv
  BY InitTypes, NextTypes, PTL DEF Spec
<1>2. ReceiptsInv => BestNotInOthers
  BY DEF ReceiptsInv
<1> QED
  BY <1>1, <1>2, ReceiptsInit, ReceiptsStep, PTL DEF Spec

----------------------------------------------------------------------------
(* Without overlapping inserts the best bid is kept *)

\* A call about to insert did not see a better bid.
InsertsNotLower ==
    \A t \in SubmitTasks :
        submit[t].pc = "insert" => ~IsLowerBid(submit[t].submission, submit[t].seen)

BestBidInv == InsertsNotLower /\ BestBidUnlessRaced

LEMMA BestBidInit == Init => BestBidInv
BY DEF Init, IdleSubmit, BestBidInv, InsertsNotLower, BestBidUnlessRaced

LEMMA RetainSlotMonotone ==
    ASSUME NEW d \in Nat, NEW e \in Nat, d <= e
    PROVE  RetainSlot(d) \in Nat /\ RetainSlot(e) \in Nat /\ RetainSlot(d) <= RetainSlot(e)
<1> DEFINE x == CheckedSub(d, HISTORY_LOOK_BEHIND_EPOCHS)
           y == CheckedSub(e, HISTORY_LOOK_BEHIND_EPOCHS)
<1>1. x \in Nat /\ y \in Nat /\ x <= y
  BY DEF CheckedSub, HISTORY_LOOK_BEHIND_EPOCHS
<1>2. SLOTS_PER_EPOCH \in Nat
  BY BoundsAssumption
<1>3. \A a, b, n \in Nat : a <= b => a * n \in Nat /\ b * n \in Nat /\ a * n <= b * n
  OBVIOUS
<1> HIDE DEF x, y
<1>4. x * SLOTS_PER_EPOCH <= y * SLOTS_PER_EPOCH
  BY <1>1, <1>2, <1>3
<1> QED
  BY <1>1, <1>2, <1>3, <1>4 DEF RetainSlot, x, y

LEMMA BestBidStep == TypeInv /\ BestBidInv /\ [Next]_vars => BestBidInv'
<1> SUFFICES ASSUME TypeInv, BestBidInv, [Next]_vars PROVE BestBidInv'
  OBVIOUS
<1> USE DEF TypeInv, TypeOK
<1>1. ASSUME UNCHANGED <<auctions, inserted, raced, clock>>
      PROVE  BestBidUnlessRaced'
  BY <1>1 DEF BestBidInv, BestBidUnlessRaced, Retained
<1>2. ASSUME NEW t \in SubmitTasks, NEW s \in Submissions, SubmitBid(t, s)
      PROVE  BestBidInv'
  <2>1. InsertsNotLower'
    BY <1>2 DEF SubmitBid, SubmitTypeOK, BestBidInv, InsertsNotLower, IsLowerBid
  <2> QED
    BY <1>1, <1>2, <2>1 DEF SubmitBid, state, history, BestBidInv
<1>3. ASSUME NEW t \in SubmitTasks, SubmitReturn(t)
      PROVE  InsertsNotLower'
  BY <1>3 DEF SubmitReturn, IdleSubmit, SubmitTypeOK, BestBidInv, InsertsNotLower, IsLowerBid
<1>4. ASSUME NEW t \in SubmitTasks, SubmitValidate(t) \/ SubmitLookup(t) \/ SubmitCompare(t)
      PROVE  BestBidInv'
  <2>1. CASE SubmitReturn(t)
    BY <1>1, <1>3, <1>4, <2>1
    DEF SubmitValidate, SubmitLookup, SubmitCompare, state, history, BestBidInv
  <2>2. CASE ~SubmitReturn(t)
    <3>1. InsertsNotLower'
      BY <1>4, <2>2 DEF SubmitValidate, SubmitLookup, SubmitCompare, SubmitTypeOK, BestBidInv,
                        InsertsNotLower, IsLowerBid
    <3> QED
      BY <1>1, <1>4, <3>1
      DEF SubmitValidate, SubmitLookup, SubmitCompare, state, history, BestBidInv
  <2> QED
    BY <2>1, <2>2
<1>5. ASSUME NEW t \in SubmitTasks, SubmitInsert(t)
      PROVE  BestBidInv'
  <2> DEFINE s == submit[t].submission
             r == RequestOfSubmission(s)
             new == ContextOf(t)
  <2>1. s \in Submissions /\ r \in AuctionRequests /\ s.value \in Nat
    BY <1>5, SubmissionsAssumption DEF SubmitInsert, SubmitUnderWay
  <2>2. /\ auctions' = [auctions EXCEPT ![r] = new]
        /\ inserted' = inserted \cup {new}
        /\ raced' = IF auctions[r] = submit[t].seen THEN raced ELSE raced \cup {r}
        /\ UNCHANGED clock
    BY <1>5 DEF SubmitInsert
  <2>3. new \in AuctionContexts /\ RequestOf(new) = r /\ Value(new) = s.value
    BY <1>5 DEF SubmitInsert, SubmitUnderWay, ContextOf, AuctionContexts, RequestOf, Value
  <2>4. new # None
    BY <2>3, NoneAssumption
  <2>5. \A c \in AuctionContexts : RequestOf(c) \in AuctionRequests /\ Value(c) \in Nat
    BY SubmissionsAssumption DEF AuctionContexts, RequestOf, Value
  <2>6. BestBidUnlessRaced'
    <3> SUFFICES ASSUME NEW c \in inserted', Retained(RequestOf(c)), RequestOf(c) \notin raced'
                 PROVE  auctions'[RequestOf(c)] # None
                        /\ Value(auctions'[RequestOf(c)]) >= Value(c)
      BY <2>2 DEF BestBidUnlessRaced, Retained
    <3>1. c \in AuctionContexts
      BY <2>2, <2>3 DEF HistoryTypeOK
    <3>2. CASE RequestOf(c) # r
      BY <2>1, <2>2, <2>3, <2>5, <3>1, <3>2 DEF BestBidInv, BestBidUnlessRaced, StateTypeOK
    <3>3. CASE c = new
      BY <2>1, <2>2, <2>3, <2>4, <2>5, <3>3 DEF StateTypeOK
    <3>4. CASE RequestOf(c) = r /\ c # new
      <4>1. c \in inserted /\ r \notin raced /\ auctions[r] = submit[t].seen
        BY <2>2, <3>4
      <4>2. auctions[r] # None /\ Value(auctions[r]) >= Value(c)
        BY <3>4, <4>1 DEF BestBidInv, BestBidUnlessRaced
      <4>3. ~(Value(auctions[r]) > s.value)
        BY <1>5, <4>1, <4>2 DEF SubmitInsert, BestBidInv, InsertsNotLower, IsLowerBid
      <4>4. Value(auctions[r]) \in Nat /\ Value(c) \in Nat
        BY <2>1, <2>5, <3>1, <4>2 DEF StateTypeOK
      <4>5. auctions'[r] = new
        BY <2>1, <2>2 DEF StateTypeOK
      <4> QED
        BY <2>1, <2>3, <2>4, <3>4, <4>2, <4>3, <4>4, <4>5
    <3> QED
      BY <3>2, <3>3, <3>4
  <2> QED
    BY <1>3, <1>5, <2>6 DEF SubmitInsert, BestBidInv
<1>6. ASSUME UNCHANGED submit
      PROVE  InsertsNotLower'
  BY <1>6 DEF BestBidInv, InsertsNotLower, IsLowerBid
<1>7. CASE OnEpochPrune
  <2>1. UNCHANGED <<inserted, raced, submit>> /\ clock'.epoch = clock.epoch
    BY <1>7 DEF OnEpochPrune, history, ClockTypeOK
  <2>2. \A r \in AuctionRequests : Retained(r) => auctions'[r] = auctions[r]
    BY <1>7 DEF OnEpochPrune, Retained
  <2>3. \A c \in inserted : RequestOf(c) \in AuctionRequests
    BY SubmissionsAssumption DEF HistoryTypeOK, AuctionContexts, RequestOf
  <2>4. BestBidUnlessRaced'
    BY <2>1, <2>2, <2>3 DEF BestBidInv, BestBidUnlessRaced, Retained
  <2> QED
    BY <1>6, <2>1, <2>4 DEF BestBidInv
<1>8. ASSUME UNCHANGED <<auctions, inserted, raced>>,
             clock.epoch <= clock'.epoch, clock'.epoch \in Nat
      PROVE  BestBidUnlessRaced'
  <2>1. clock.epoch \in Nat
    BY DEF ClockTypeOK
  <2>2. RetainSlot(clock.epoch) \in Nat /\ RetainSlot(clock'.epoch) \in Nat
        /\ RetainSlot(clock.epoch) <= RetainSlot(clock'.epoch)
    BY <1>8, <2>1, RetainSlotMonotone
  <2>3. \A c \in inserted : RequestOf(c).slot \in Nat
    BY SubmissionsAssumption, BoundsAssumption
    DEF HistoryTypeOK, AuctionContexts, RequestOf, AuctionRequests
  <2>4. \A c \in inserted : Retained(RequestOf(c))' => Retained(RequestOf(c))
    BY <2>2, <2>3 DEF Retained
  <2> QED
    BY <1>8, <2>4 DEF BestBidInv, BestBidUnlessRaced
<1>9. CASE Tick
  <2>1. clock.epoch <= clock'.epoch /\ clock'.epoch \in Nat
    BY <1>9, EpochIsNat DEF Tick, ClockTypeOK
  <2> QED
    BY <1>6, <1>8, <1>9, <2>1 DEF Tick, state, history, BestBidInv
<1>10. CASE OnEpoch \/ OnSlot
  <2>1. clock'.epoch = clock.epoch /\ clock.epoch \in Nat
    BY <1>10 DEF OnEpoch, OnSlot, ClockTypeOK
  <2> QED
    BY <1>6, <1>8, <1>10, <2>1 DEF OnEpoch, OnSlot, state, history, BestBidInv
<1>11. CASE (\E r \in Announcements : OnPayloadAttributes(r))
            \/ (\E p \in Proposers, f \in FeeRecipients : Register(p, f))
  BY <1>1, <1>6, <1>11 DEF OnPayloadAttributes, Register, state, history, BestBidInv
<1>12. ASSUME NEW t \in FetchTasks, FetchNext(t) \/ \E r \in Announcements : FetchBestBid(t, r)
       PROVE  BestBidInv'
  BY <1>1, <1>6, <1>12
  DEF FetchNext, FetchBestBid, FetchLookup, FetchServe, state, history, BestBidInv
<1>13. ASSUME NEW t \in OpenTasks, OpenNext(t) \/ \E b \in Blocks : OpenBid(t, b)
       PROVE  BestBidInv'
  BY <1>1, <1>6, <1>13
  DEF OpenNext, OpenBid, OpenLookup, OpenValidate, BeaconAccept, OpenPostFails, OpenDeliver, state,
      history,
      BestBidInv
<1>14. CASE UNCHANGED vars
  BY <1>1, <1>6, <1>14 DEF vars, state, history, BestBidInv
<1> QED
  BY <1>2, <1>4, <1>5, <1>7, <1>9, <1>10, <1>11, <1>12, <1>13, <1>14
  DEF Next, ClockNext, SubmitNext

\* insert_bid_if_greater keeps the best bid of an auction as long as no insert for the
\* auction came between the lookup and the insert of another call.
THEOREM BestBidKept == Spec => []BestBidUnlessRaced
<1>1. Spec => []TypeInv
  BY InitTypes, NextTypes, PTL DEF Spec
<1>2. BestBidInv => BestBidUnlessRaced
  BY DEF BestBidInv
<1> QED
  BY <1>1, <1>2, BestBidInit, BestBidStep, PTL DEF Spec

----------------------------------------------------------------------------
(***************************************************************************)
(* The data API's listing: only the insert and the clean-up of on_epoch    *)
(* write the two maps.                                                     *)
(***************************************************************************)
StaysListed ==
    \A r \in AuctionRequests : \A c \in BlockSubmissions(r) :
        c \in BlockSubmissions(r)' \/ ~Retained(r) \/ IsShared(c)

LEMMA ListingFrame == UNCHANGED <<auctions, other_submissions>> => StaysListed
BY DEF StaysListed, BlockSubmissions

LEMMA ListingStep == TypeInv /\ [Next]_vars => StaysListed
<1> SUFFICES ASSUME TypeInv, [Next]_vars PROVE StaysListed
  OBVIOUS
<1> USE DEF TypeInv, TypeOK
<1>1. ASSUME NEW t \in SubmitTasks, SubmitInsert(t)
      PROVE  StaysListed
  <2> DEFINE q == RequestOfSubmission(submit[t].submission)
             old == auctions[q]
  <2> SUFFICES ASSUME NEW r \in AuctionRequests, NEW c \in BlockSubmissions(r), ~IsShared(c)
               PROVE  c \in BlockSubmissions(r)'
    BY DEF StaysListed
  <2>1. auctions \in [AuctionRequests -> AuctionContexts \cup {None}]
        /\ other_submissions \in [AuctionRequests -> SUBSET AuctionContexts]
    BY DEF StateTypeOK
  <2>2. auctions' = [auctions EXCEPT ![q] = ContextOf(t)]
        /\ other_submissions' =
             IF old # None /\ ~IsShared(old)
             THEN [other_submissions EXCEPT ![q] = @ \cup {old}]
             ELSE other_submissions
    BY <1>1 DEF SubmitInsert
  <2>3. CASE c \in other_submissions[r]
    BY <2>1, <2>2, <2>3 DEF BlockSubmissions
  <2>4. CASE c = auctions[r] /\ r # q
    BY <2>1, <2>2, <2>4 DEF BlockSubmissions
  <2>5. CASE c = auctions[r] /\ r = q
    <3>1. c = old /\ c # None
      BY <2>5 DEF BlockSubmissions
    <3>2. other_submissions' = [other_submissions EXCEPT ![q] = @ \cup {old}]
      BY <2>2, <3>1
    <3> QED
      BY <2>1, <2>5, <3>1, <3>2 DEF BlockSubmissions
  <2> QED
    BY <2>3, <2>4, <2>5 DEF BlockSubmissions
<1>2. CASE OnEpochPrune
  BY <1>2 DEF OnEpochPrune, StaysListed, BlockSubmissions, Retained
<1>3. CASE Tick \/ OnEpoch \/ OnSlot
  BY <1>3, ListingFrame DEF Tick, OnEpoch, OnSlot, state
<1>4. CASE (\E r \in Announcements : OnPayloadAttributes(r))
            \/ (\E p \in Proposers, f \in FeeRecipients : Register(p, f))
  BY <1>4, ListingFrame DEF OnPayloadAttributes, Register, state
<1>5. ASSUME NEW t \in SubmitTasks, SubmitNext(t) \/ \E s \in Submissions : SubmitBid(t, s)
      PROVE  StaysListed
  BY <1>1, <1>5, ListingFrame
  DEF SubmitNext, SubmitBid, SubmitValidate, SubmitLookup, SubmitCompare, state
<1>6. ASSUME NEW t \in FetchTasks, FetchNext(t) \/ \E r \in Announcements : FetchBestBid(t, r)
      PROVE  StaysListed
  BY <1>6, ListingFrame DEF FetchNext, FetchBestBid, FetchLookup, FetchServe, state
<1>7. ASSUME NEW t \in OpenTasks, OpenNext(t) \/ \E b \in Blocks : OpenBid(t, b)
      PROVE  StaysListed
  BY <1>7, ListingFrame
  DEF OpenNext, OpenBid, OpenLookup, OpenValidate, BeaconAccept, OpenPostFails, OpenDeliver, state
<1>8. CASE UNCHANGED vars
  BY <1>8, ListingFrame DEF vars, state
<1> QED
  BY <1>2, <1>3, <1>4, <1>5, <1>6, <1>7, <1>8 DEF Next, ClockNext

\* A submission that the data API lists stays listed until its auction is pruned, unless its
\* context is shared when a better bid displaces it.
THEOREM ListingIsKept == Spec => SubmissionsStayListed
<1>1. Spec => []TypeInv
  BY InitTypes, NextTypes, PTL DEF Spec
<1>2. TypeInv /\ [Next]_vars => [StaysListed]_vars
  BY ListingStep
<1>3. SubmissionsStayListed <=> [][StaysListed]_vars
  BY DEF SubmissionsStayListed, StaysListed
<1> QED
  BY <1>1, <1>2, <1>3, PTL DEF Spec

=============================================================================
