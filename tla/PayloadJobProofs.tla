-------------------------- MODULE PayloadJobProofs --------------------------
(***************************************************************************)
(* What PayloadJob guarantees for any number of builds and any capacity of *)
(* the channel to the bidder.                                              *)
(***************************************************************************)
EXTENDS PayloadJob, TLAPS

----------------------------------------------------------------------------
(* The channel to the bidder *)

Queued(q, n) == \E i \in DOMAIN q : q[i] = n

\* No update is queued twice.
Distinct(q) == \A i, j \in DOMAIN q : i # j => q[i] # q[j]

LEMMA AppendQueue ==
    ASSUME NEW q \in Seq(Payloads), NEW n \in Payloads
    PROVE  /\ Append(q, n) \in Seq(Payloads)
           /\ Len(Append(q, n)) = Len(q) + 1
           /\ \A m : Queued(Append(q, n), m) <=> Queued(q, m) \/ m = n
           /\ Distinct(q) /\ ~Queued(q, n) => Distinct(Append(q, n))
<1>1. /\ Append(q, n) \in Seq(Payloads)
      /\ Len(q) \in Nat /\ DOMAIN q = 1..Len(q)
      /\ Len(Append(q, n)) = Len(q) + 1
      /\ DOMAIN Append(q, n) = 1..(Len(q) + 1)
      /\ \A i \in 1..Len(q) : Append(q, n)[i] = q[i]
      /\ Append(q, n)[Len(q) + 1] = n
  OBVIOUS
<1>2. ASSUME NEW m PROVE Queued(Append(q, n), m) <=> Queued(q, m) \/ m = n
  <2>1. ASSUME Queued(q, m) PROVE Queued(Append(q, n), m)
    BY <1>1, <2>1 DEF Queued
  <2>2. Queued(Append(q, n), n)
    BY <1>1 DEF Queued
  <2>3. ASSUME Queued(Append(q, n), m), m # n PROVE Queued(q, m)
    <3>1. PICK i \in 1..(Len(q) + 1) : Append(q, n)[i] = m
      BY <1>1, <2>3 DEF Queued
    <3>2. i \in 1..Len(q)
      BY <1>1, <2>3, <3>1
    <3> QED
      BY <1>1, <3>1, <3>2 DEF Queued
  <2> QED
    BY <2>1, <2>2, <2>3
<1>3. ASSUME Distinct(q), ~Queued(q, n),
             NEW i \in DOMAIN Append(q, n), NEW j \in DOMAIN Append(q, n), i # j
      PROVE  Append(q, n)[i] # Append(q, n)[j]
  BY <1>1, <1>3 DEF Distinct, Queued
<1> QED
  BY <1>1, <1>2, <1>3 DEF Distinct

LEMMA TailQueue ==
    ASSUME NEW q \in Seq(Payloads), q # << >>
    PROVE  /\ Head(q) \in Payloads
           /\ Tail(q) \in Seq(Payloads)
           /\ Len(Tail(q)) <= Len(q)
           /\ \A m : Queued(Tail(q), m) => Queued(q, m)
           /\ Queued(q, Head(q))
           /\ Distinct(q) => Distinct(Tail(q)) /\ ~Queued(Tail(q), Head(q))
<1>1. /\ Len(q) \in Nat \ {0} /\ DOMAIN q = 1..Len(q)
      /\ Head(q) = q[1] /\ q[1] \in Payloads
      /\ Tail(q) \in Seq(Payloads)
      /\ Len(Tail(q)) = Len(q) - 1
      /\ DOMAIN Tail(q) = 1..(Len(q) - 1)
      /\ \A i \in 1..(Len(q) - 1) : Tail(q)[i] = q[i + 1]
  OBVIOUS
<1>2. \A i \in DOMAIN Tail(q) : i + 1 \in DOMAIN q /\ i + 1 # 1 /\ Tail(q)[i] = q[i + 1]
  BY <1>1
<1>3. \A m : Queued(Tail(q), m) => Queued(q, m)
  BY <1>2 DEF Queued
<1>4. Queued(q, Head(q))
  BY <1>1 DEF Queued
<1>5. ASSUME Distinct(q) PROVE ~Queued(Tail(q), Head(q))
  BY <1>1, <1>2, <1>5 DEF Distinct, Queued
<1>6. ASSUME Distinct(q) PROVE Distinct(Tail(q))
  <2> SUFFICES ASSUME NEW i \in DOMAIN Tail(q), NEW j \in DOMAIN Tail(q), i # j
               PROVE  Tail(q)[i] # Tail(q)[j]
    BY DEF Distinct
  <2>1. i + 1 # j + 1 /\ i + 1 \in DOMAIN q /\ j + 1 \in DOMAIN q
    BY <1>1, <1>2
  <2> QED
    BY <1>2, <1>6, <2>1 DEF Distinct
<1> QED
  BY <1>1, <1>3, <1>4, <1>5, <1>6

LEMMA EmptyQueue == /\ << >> \in Seq(Payloads) /\ Len(<< >>) = 0
                    /\ Distinct(<< >>) /\ \A m : ~Queued(<< >>, m)
BY DEF Distinct, Queued

----------------------------------------------------------------------------
(* Types *)

\* There is room for the number of a payload that has been built, and a bidder that runs has
\* a payload's fees.
TypeInv ==
    /\ TypeOK
    /\ pending_block = "better" => best_payload < MaxBuilds
    /\ bidder.pc = "run" => bidder.payload \in Payloads

LEMMA InitTypes == Init => TypeInv
BY JobAssumption, EmptyQueue DEF Init, TypeInv, TypeOK, Payloads

LEMMA NextTypes == TypeInv /\ [Next]_vars => TypeInv'
<1> SUFFICES ASSUME TypeInv, [Next]_vars PROVE TypeInv'
  OBVIOUS
<1> USE JobAssumption DEF TypeInv, TypeOK
<1>1. CASE PollDeadline \/ Resolve
  BY <1>1 DEF PollDeadline, Resolve, EndJob
<1>2. CASE PollBid
  <2>1. CASE UNCHANGED <<pending_bid_update, finalizing, ended>> /\ job' = "interval"
    BY <1>2, <2>1 DEF PollBid
  <2>2. CASE /\ pending_bid_update # 0 /\ pending_bid_update' = 0
             /\ finalizing' = finalizing \cup {pending_bid_update}
             /\ UNCHANGED ended /\ job' = "interval"
    BY <1>2, <2>2 DEF PollBid, Payloads
  <2>3. CASE EndJob("bidder") /\ UNCHANGED finalizing
    BY <1>2, <2>3 DEF PollBid, EndJob
  <2> QED
    BY <1>2, <2>1, <2>2, <2>3 DEF PollBid
<1>3. CASE PollInterval
  BY <1>3 DEF PollInterval
<1>4. CASE PollBlock
  <2>1. CASE pending_block = "better"
    <3>1. best_payload + 1 \in 0..MaxBuilds /\ best_payload + 1 \in Payloads
      BY <2>1 DEF Payloads
    <3>2. ({pending_bid_update} \ {0}) \subseteq Payloads
      BY DEF Payloads
    <3> QED
      BY <1>4, <2>1, <3>1, <3>2 DEF PollBlock
  <2>2. CASE pending_block # "better"
    BY <1>4, <2>2 DEF PollBlock
  <2> QED
    BY <2>1, <2>2
<1>5. CASE BuildBetter
  <2>1. best_payload + 1 \in 0..MaxBuilds /\ best_payload + 1 \in Payloads
    BY <1>5 DEF BuildBetter, Payloads
  <2>2. Unfinalized \subseteq Payloads
    BY DEF Unfinalized, Payloads
  <2> QED
    BY <1>5, <2>1, <2>2 DEF BuildBetter
<1>6. CASE BuildEnds
  BY <1>6 DEF BuildEnds
<1>7. ASSUME NEW n \in Payloads, SendUpdate(n)
      PROVE  TypeInv'
  <2>1. Append(revenue_updates, n) \in Seq(Payloads)
        /\ Len(Append(revenue_updates, n)) = Len(revenue_updates) + 1
    BY AppendQueue
  <2>2. Len(revenue_updates) \in Nat
    OBVIOUS
  <2> QED
    BY <1>7, <2>1, <2>2 DEF SendUpdate
<1>8. CASE BidderReceives
  <2>1. Head(revenue_updates) \in Payloads /\ Tail(revenue_updates) \in Seq(Payloads)
        /\ Len(Tail(revenue_updates)) <= Len(revenue_updates)
    BY <1>8, TailQueue DEF BidderReceives
  <2>2. Len(revenue_updates) \in Nat /\ Len(Tail(revenue_updates)) \in Nat
    BY <2>1
  <2>3. Head(revenue_updates) \in 0..MaxBuilds
    BY <2>1 DEF Payloads
  <2> QED
    BY <1>8, <2>1, <2>2, <2>3 DEF BidderReceives
<1>9. CASE BidderAnswers
  <2>1. << >> \in Seq(Payloads) /\ Len(<< >>) = 0
    BY EmptyQueue
  <2>2. replies' \in [Payloads -> {"open", "value", "dropped"}]
    BY <1>9 DEF BidderAnswers
  <2>3. bidder' \in [pc : {"receive", "stopped"}, payload : 0..MaxBuilds]
    BY <1>9 DEF BidderAnswers
  <2>4. revenue_updates' \in Seq(Payloads) /\ Len(revenue_updates') <= UpdateCapacity
    <3>1. revenue_updates' = revenue_updates \/ revenue_updates' = << >>
      BY <1>9 DEF BidderAnswers
    <3>2. CASE revenue_updates' = revenue_updates
      BY <3>2
    <3>3. CASE revenue_updates' = << >>
      BY <2>1, <3>3, JobAssumption
    <3> QED
      BY <3>1, <3>2, <3>3
  <2>5. UNCHANGED <<job, best_payload, pending_block, pending_bid_update, execution_outcome, sending,
                    finalizing, finalized, overlapped, superseded, ended>>
    BY <1>9 DEF BidderAnswers
  <2>6. bidder'.pc # "run" /\ bidder' \in [pc : {"receive", "run", "stopped"}, payload : 0..MaxBuilds]
    BY <2>3
  <2> QED
    BY <2>2, <2>4, <2>5, <2>6
<1>10. ASSUME NEW n \in Payloads, Finalize(n)
       PROVE  TypeInv'
  BY <1>10 DEF Finalize
<1>11. CASE UNCHANGED vars
  BY <1>11 DEF vars
<1> QED
  BY <1>1, <1>2, <1>3, <1>4, <1>5, <1>6, <1>7, <1>8, <1>9, <1>10, <1>11 DEF Next, Poll, Bidder

LEMMA TypesHold == Spec => []TypeInv
BY InitTypes, NextTypes, PTL DEF Spec

\* The job's state keeps its shape: a pending update is the best payload's, and the channel
\* never holds more than its capacity.
THEOREM TypeCorrect == Spec => []TypeOK
<1>1. TypeInv => TypeOK
  BY DEF TypeInv
<1> QED
  BY <1>1, TypesHold, PTL

----------------------------------------------------------------------------
(* The payment goes on top of the payload's own outcome *)

\* Payloads that have been built: the last of them may still be on its way to the job.
Built == IF pending_block = "better" THEN best_payload + 1 ELSE best_payload

IsFinalized(n) == \E m \in 0..MaxBuilds : <<n, m>> \in finalized

\* A payload is finalized once, after the job has seen the bidder's answer for it.
FinalizedOnce ==
    /\ \A n \in finalizing : n <= best_payload /\ ~IsFinalized(n)
    /\ \A x \in finalized : x[1] <= best_payload
    /\ pending_bid_update # 0 =>
        pending_bid_update \notin finalizing /\ ~IsFinalized(pending_bid_update)

\* Two payloads that wait for their finalization have both been marked.
WaitingOverlap ==
    \A n, m \in 1..Built : n # m /\ ~IsFinalized(n) /\ ~IsFinalized(m) => n \in overlapped

\* The stored outcome is that of the one payload that waits alone.
OutcomeIsOwn ==
    \A n \in 1..Built : n \notin overlapped /\ ~IsFinalized(n) => execution_outcome = n

OutcomeInv == FinalizedOnce /\ WaitingOverlap /\ OutcomeIsOwn /\ OwnOutcomeUnlessOverlapped

LEMMA OutcomeInit == Init => OutcomeInv
BY JobAssumption
DEF Init, OutcomeInv, FinalizedOnce, WaitingOverlap, OutcomeIsOwn, OwnOutcomeUnlessOverlapped, Built

LEMMA OutcomeStep == TypeInv /\ OutcomeInv /\ [Next]_vars => OutcomeInv'
<1> SUFFICES ASSUME TypeInv, OutcomeInv, [Next]_vars PROVE OutcomeInv'
  OBVIOUS
<1>0. best_payload \in Nat /\ Built \in Nat /\ MaxBuilds \in Nat /\ pending_bid_update \in 0..MaxBuilds
      /\ best_payload <= Built /\ finalizing \subseteq Payloads
      /\ finalized \subseteq Payloads \X (0..MaxBuilds) /\ execution_outcome \in 0..MaxBuilds
  BY JobAssumption DEF TypeInv, TypeOK, Built
<1>1. ASSUME UNCHANGED <<best_payload, execution_outcome, finalizing, finalized, overlapped>>,
             pending_bid_update' \in {pending_bid_update, 0}, Built' = Built
      PROVE  OutcomeInv'
  BY <1>1
  DEF OutcomeInv, FinalizedOnce, WaitingOverlap, OutcomeIsOwn, OwnOutcomeUnlessOverlapped,
      IsFinalized
<1>2. CASE PollDeadline \/ Resolve
  BY <1>1, <1>2 DEF PollDeadline, Resolve, EndJob, Built
<1>3. CASE PollBid
  <2>1. UNCHANGED <<best_payload, pending_block, execution_outcome, finalized, overlapped>>
    BY <1>3 DEF PollBid
  <2>2. CASE UNCHANGED finalizing
    BY <1>1, <1>3, <2>1, <2>2 DEF PollBid, EndJob, Built
  <2>3. CASE /\ pending_bid_update # 0 /\ pending_bid_update' = 0
             /\ finalizing' = finalizing \cup {pending_bid_update}
    <3>1. pending_bid_update = best_payload
      BY <2>3 DEF TypeInv, TypeOK
    <3>2. FinalizedOnce'
      BY <1>0, <2>1, <2>3, <3>1 DEF OutcomeInv, FinalizedOnce, IsFinalized
    <3> QED
      BY <2>1, <3>2
      DEF OutcomeInv, WaitingOverlap, OutcomeIsOwn, OwnOutcomeUnlessOverlapped, IsFinalized, Built
  <2> QED
    BY <1>3, <2>2, <2>3 DEF PollBid
<1>4. CASE PollInterval \/ BuildEnds
  BY <1>1, <1>4 DEF PollInterval, BuildEnds, Built
<1>5. CASE PollBlock
  <2>1. CASE pending_block # "better"
    BY <1>1, <1>5, <2>1 DEF PollBlock, Built
  <2>2. CASE pending_block = "better"
    <3>1. /\ pending_block' = "none"
          /\ best_payload' = best_payload + 1
          /\ pending_bid_update' = best_payload + 1
          /\ UNCHANGED <<execution_outcome, finalizing, finalized, overlapped>>
      BY <1>5, <2>2 DEF PollBlock
    <3>2. Built' = Built
      BY <2>2, <3>1 DEF Built
    <3>3. best_payload + 1 \notin finalizing /\ ~IsFinalized(best_payload + 1)
      <4>1. \A n \in finalizing : n <= best_payload
        BY DEF OutcomeInv, FinalizedOnce
      <4>2. ASSUME NEW m, <<best_payload + 1, m>> \in finalized PROVE FALSE
        <5>1. \A x \in finalized : x[1] <= best_payload
          BY DEF OutcomeInv, FinalizedOnce
        <5>2. <<best_payload + 1, m>>[1] <= best_payload
          BY <4>2, <5>1
        <5> QED
          BY <1>0, <5>2
      <4>3. best_payload + 1 \notin finalizing
        BY <1>0, <4>1
      <4>4. ~IsFinalized(best_payload + 1)
        BY <4>2 DEF IsFinalized
      <4> QED
        BY <4>3, <4>4
    <3>4. FinalizedOnce'
      <4>1. \A n \in finalizing : n <= best_payload + 1 /\ ~IsFinalized(n)
        BY <1>0 DEF OutcomeInv, FinalizedOnce, Payloads
      <4>2. \A x \in finalized : x[1] <= best_payload + 1
        BY <1>0 DEF OutcomeInv, FinalizedOnce, Payloads
      <4> QED
        BY <3>1, <3>3, <4>1, <4>2 DEF FinalizedOnce, IsFinalized
    <3> QED
      BY <3>1, <3>2, <3>4
      DEF OutcomeInv, WaitingOverlap, OutcomeIsOwn, OwnOutcomeUnlessOverlapped, IsFinalized
  <2> QED
    BY <2>1, <2>2
<1>6. CASE BuildBetter
  <2> DEFINE new == best_payload + 1
  <2>1. /\ Built = best_payload
        /\ Built' = new
        /\ execution_outcome' = new
        /\ overlapped' = IF Unfinalized = {} THEN overlapped
                         ELSE overlapped \cup Unfinalized \cup {new}
        /\ UNCHANGED <<best_payload, pending_bid_update, finalizing, finalized>>
    BY <1>6 DEF BuildBetter, Built
  <2>2. FinalizedOnce'
    BY <2>1 DEF OutcomeInv, FinalizedOnce, IsFinalized
  <2>3. \A n \in 1..best_payload : ~IsFinalized(n) <=> n \in Unfinalized
    BY DEF Unfinalized, IsFinalized
  <2>4. \A n : IsFinalized(n)' <=> IsFinalized(n)
    BY <2>1 DEF IsFinalized
  <2>5. \A n \in 1..new : n \in 1..best_payload \/ n = new
    BY <1>0
  <2>6. WaitingOverlap'
    <3> SUFFICES ASSUME NEW n \in 1..new, NEW m \in 1..new, n # m, ~IsFinalized(n), ~IsFinalized(m)
                 PROVE  n \in overlapped'
      BY <2>1, <2>4 DEF WaitingOverlap
    <3>1. n \in Unfinalized \/ m \in Unfinalized
      BY <2>3, <2>5
    <3> QED
      BY <2>1, <2>3, <2>5, <3>1
  <2>7. OutcomeIsOwn'
    <3> SUFFICES ASSUME NEW n \in 1..new, n \notin overlapped', ~IsFinalized(n)
                 PROVE  n = new
      BY <2>1, <2>4 DEF OutcomeIsOwn
    <3> QED
      BY <2>1, <2>3, <2>5
  <2>8. OwnOutcomeUnlessOverlapped'
    BY <2>1 DEF OutcomeInv, OwnOutcomeUnlessOverlapped
  <2> QED
    BY <2>2, <2>6, <2>7, <2>8 DEF OutcomeInv
<1>7. ASSUME NEW n \in Payloads, SendUpdate(n)
      PROVE  OutcomeInv'
  BY <1>1, <1>7 DEF SendUpdate, Built
<1>8. CASE Bidder
  BY <1>1, <1>8 DEF Bidder, BidderReceives, BidderAnswers, Built
<1>9. ASSUME NEW n \in Payloads, Finalize(n)
      PROVE  OutcomeInv'
  <2>1. /\ n \in finalizing
        /\ finalizing' = finalizing \ {n}
        /\ finalized' = finalized \cup {<<n, execution_outcome>>}
        /\ execution_outcome' = 0
        /\ UNCHANGED <<best_payload, pending_block, pending_bid_update, overlapped>>
    BY <1>9 DEF Finalize
  <2>2. \A m : IsFinalized(m)' <=> IsFinalized(m) \/ m = n
    BY <1>0, <2>1 DEF IsFinalized
  <2>3. n \in 1..Built /\ ~IsFinalized(n) /\ n <= best_payload
    BY <1>0, <2>1 DEF OutcomeInv, FinalizedOnce, Payloads
  <2>4. FinalizedOnce'
    BY <2>1, <2>2, <2>3 DEF OutcomeInv, FinalizedOnce
  <2>5. Built' = Built
    BY <2>1 DEF Built
  <2>6. WaitingOverlap'
    BY <2>1, <2>2, <2>5 DEF OutcomeInv, WaitingOverlap
  <2>7. OutcomeIsOwn'
    BY <2>1, <2>2, <2>3, <2>5 DEF OutcomeInv, WaitingOverlap, OutcomeIsOwn
  <2>8. OwnOutcomeUnlessOverlapped'
    BY <2>1, <2>3 DEF OutcomeInv, OutcomeIsOwn, OwnOutcomeUnlessOverlapped
  <2> QED
    BY <2>4, <2>6, <2>7, <2>8 DEF OutcomeInv
<1>10. CASE UNCHANGED vars
  BY <1>1, <1>10 DEF vars, Built
<1> QED
  BY <1>2, <1>3, <1>4, <1>5, <1>6, <1>7, <1>8, <1>9, <1>10 DEF Next, Poll

\* A payload is finalized with its own execution outcome, however sends, bids and builds
\* interleave, unless another payload was built while it waited.
THEOREM OwnOutcome == Spec => []OwnOutcomeUnlessOverlapped
<1>1. OutcomeInv => OwnOutcomeUnlessOverlapped
  BY DEF OutcomeInv
<1> QED
  BY <1>1, TypesHold, OutcomeInit, OutcomeStep, PTL DEF Spec

----------------------------------------------------------------------------
(* A job that its bidder ends has replaced an update *)

InHand(n) == bidder.pc = "run" /\ bidder.payload = n

\* An update is in flight from its creation to its answer.
Flight(n) == n \in sending \/ Queued(revenue_updates, n) \/ InHand(n)

\* An update is in one place at a time.
OnePlace ==
    /\ Distinct(revenue_updates)
    /\ \A n \in sending : ~Queued(revenue_updates, n) /\ ~InHand(n)
    /\ \A n \in Payloads : ~(Queued(revenue_updates, n) /\ InHand(n))

\* Its oneshot channel is settled only when it has left the last of them.
OpenInFlight ==
    \A n \in Payloads : /\ Flight(n) => n <= best_payload /\ replies[n] = "open"
                        /\ n > best_payload => replies[n] = "open"

Excused == job = "done" \/ superseded # {}

\* While the job goes on and has replaced nothing, it waits for every update in flight.
Awaited == \A n \in Payloads : Flight(n) => n = pending_bid_update \/ Excused

\* So nothing else lets the bidder stop or an answer be dropped.
StopExcused ==
    /\ bidder.pc = "stopped" => Excused
    /\ \A n \in Payloads : replies[n] = "dropped" => Excused

FlightInv == OnePlace /\ OpenInFlight /\ Awaited /\ StopExcused /\ EarlyEndNeedsSuperseded

LEMMA FlightInit == Init => FlightInv
BY EmptyQueue
DEF Init, FlightInv, OnePlace, OpenInFlight, Awaited, StopExcused, EarlyEndNeedsSuperseded,
    Flight, InHand, Excused

LEMMA FlightStep == TypeInv /\ FlightInv /\ [Next]_vars => FlightInv'
<1> SUFFICES ASSUME TypeInv, FlightInv, [Next]_vars PROVE FlightInv'
  OBVIOUS
<1>0. /\ best_payload \in Nat /\ MaxBuilds \in Nat /\ sending \subseteq Payloads
      /\ revenue_updates \in Seq(Payloads)
      /\ replies \in [Payloads -> {"open", "value", "dropped"}]
      /\ pending_bid_update # 0 => pending_bid_update \in Payloads /\ pending_bid_update = best_payload
      /\ bidder.pc = "run" => bidder.payload \in Payloads
      /\ \A n \in Payloads : n \in Nat /\ n # 0
      /\ superseded \subseteq Payloads
  BY JobAssumption DEF TypeInv, TypeOK, Payloads
<1>1. ASSUME UNCHANGED <<best_payload, sending, revenue_updates, bidder, replies, superseded>>,
             \/ UNCHANGED <<job, pending_bid_update>>
             \/ job # "done" /\ job' # "done" /\ UNCHANGED pending_bid_update
             \/ job' = "done",
             ended' = "bidder" => superseded # {}
      PROVE  FlightInv'
  BY <1>1
  DEF FlightInv, OnePlace, OpenInFlight, Awaited, StopExcused, EarlyEndNeedsSuperseded,
      Flight, InHand, Excused, Queued, Distinct
<1>2. CASE PollDeadline \/ Resolve
  BY <1>1, <1>2 DEF PollDeadline, Resolve, EndJob, FlightInv, EarlyEndNeedsSuperseded
<1>3. CASE PollBid
  <2>1. UNCHANGED <<best_payload, sending, revenue_updates, bidder, replies, superseded>>
        /\ job = "bid"
    BY <1>3 DEF PollBid
  <2>2. CASE job' = "interval" /\ UNCHANGED <<pending_bid_update, ended>>
    BY <1>1, <2>1, <2>2 DEF FlightInv, EarlyEndNeedsSuperseded
  <2>3. CASE /\ pending_bid_update # 0 /\ replies[pending_bid_update] = "value"
             /\ job' = "interval" /\ pending_bid_update' = 0 /\ UNCHANGED ended
    <3>1. ~Flight(pending_bid_update)
      BY <1>0, <2>3 DEF FlightInv, OpenInFlight
    <3>2. \A n : Flight(n)' <=> Flight(n)
      BY <2>1 DEF Flight, InHand, Queued
    <3>3. Awaited'
      BY <2>1, <3>1, <3>2 DEF FlightInv, Awaited, Excused
    <3> QED
      BY <2>1, <2>3, <3>2, <3>3
      DEF FlightInv, OnePlace, OpenInFlight, StopExcused, EarlyEndNeedsSuperseded, InHand, Excused,
          Queued, Distinct
  <2>4. CASE /\ pending_bid_update # 0 /\ replies[pending_bid_update] = "dropped"
             /\ EndJob("bidder")
    <3>1. superseded # {}
      BY <1>0, <2>1, <2>4 DEF FlightInv, StopExcused, Excused
    <3> QED
      BY <1>1, <2>1, <2>4, <3>1 DEF EndJob
  <2> QED
    BY <1>3, <2>2, <2>3, <2>4 DEF PollBid
<1>4. CASE PollInterval \/ BuildEnds \/ BuildBetter
  BY <1>1, <1>4 DEF PollInterval, BuildEnds, BuildBetter, FlightInv, EarlyEndNeedsSuperseded
<1>5. CASE PollBlock
  <2>1. CASE pending_block # "better"
    BY <1>1, <1>5, <2>1 DEF PollBlock, FlightInv, EarlyEndNeedsSuperseded
  <2>2. CASE pending_block = "better"
    <3> DEFINE new == best_payload + 1
    <3>1. /\ best_payload' = new
          /\ sending' = sending \cup {new}
          /\ pending_bid_update' = new
          /\ superseded' = superseded \cup ({pending_bid_update} \ {0})
          /\ job = "block" /\ job' = "deadline"
          /\ UNCHANGED <<revenue_updates, bidder, replies, ended>>
      BY <1>5, <2>2 DEF PollBlock
    <3>2. new \in Payloads /\ new > best_payload /\ ~Flight(new)
      <4>1. new \in Payloads
        BY <2>2, JobAssumption DEF TypeInv, TypeOK, Payloads
      <4> QED
        BY <1>0, <4>1 DEF FlightInv, OpenInFlight
    <3>3. \A n : Flight(n)' <=> Flight(n) \/ n = new
      BY <3>1 DEF Flight, InHand, Queued
    <3> HIDE DEF new
    <3>4. OnePlace'
      BY <3>1, <3>2 DEF FlightInv, OnePlace, Flight, InHand, Queued, Distinct
    <3>5. OpenInFlight'
      <4>1. new \in Nat /\ best_payload < new /\ replies[new] = "open"
        BY <1>0, <3>2 DEF FlightInv, OpenInFlight, Payloads
      <4>2. \A n \in Payloads : n <= best_payload => n <= new
        BY <1>0, <4>1
      <4>3. \A n \in Payloads : n > new => n > best_payload
        BY <1>0, <4>1
      <4>4. new <= new
        BY <4>1
      <4> QED
        BY <3>1, <3>3, <4>1, <4>2, <4>3, <4>4 DEF FlightInv, OpenInFlight
    <3>6. Excused => Excused'
      BY <3>1 DEF Excused
    <3>7. Awaited'
      <4>1. pending_bid_update # 0 => Excused'
        BY <3>1 DEF Excused
      <4> QED
        BY <1>0, <3>1, <3>3, <3>6, <4>1 DEF FlightInv, Awaited
    <3>8. StopExcused' /\ EarlyEndNeedsSuperseded'
      BY <3>1, <3>6 DEF FlightInv, StopExcused, EarlyEndNeedsSuperseded
    <3> QED
      BY <3>4, <3>5, <3>7, <3>8 DEF FlightInv
  <2> QED
    BY <2>1, <2>2
<1>6. ASSUME NEW n \in Payloads, SendUpdate(n)
      PROVE  FlightInv'
  <2>1. /\ n \in sending /\ sending' = sending \ {n}
        /\ UNCHANGED <<job, best_payload, pending_bid_update, bidder, superseded, ended>>
    BY <1>6 DEF SendUpdate
  <2>2. (Excused' <=> Excused) /\ EarlyEndNeedsSuperseded' /\ (\A m : InHand(m)' <=> InHand(m))
    BY <2>1 DEF Excused, FlightInv, EarlyEndNeedsSuperseded, InHand
  <2>3. CASE /\ bidder.pc = "stopped" /\ UNCHANGED revenue_updates
             /\ replies' = [replies EXCEPT ![n] = "dropped"]
    <3>1. Excused
      BY <2>3 DEF FlightInv, StopExcused
    <3>2. \A m \in Payloads : (Flight(m)' => Flight(m) /\ m # n) /\ (m # n => replies'[m] = replies[m])
      BY <1>0, <2>1, <2>2, <2>3 DEF Flight, FlightInv, OnePlace, Queued
    <3>3. OnePlace'
      BY <2>1, <2>2, <2>3 DEF FlightInv, OnePlace, Queued, Distinct
    <3>4. Flight(n)
      BY <2>1 DEF Flight
    <3>5. OpenInFlight'
      <4>1. ~(n > best_payload)
        BY <1>0, <3>4 DEF FlightInv, OpenInFlight
      <4> QED
        BY <2>1, <3>2, <4>1 DEF FlightInv, OpenInFlight
    <3> QED
      BY <2>2, <3>1, <3>3, <3>5 DEF FlightInv, Awaited, StopExcused
  <2>4. CASE revenue_updates' = Append(revenue_updates, n) /\ UNCHANGED replies
    <3>1. /\ \A m : Queued(revenue_updates', m) <=> Queued(revenue_updates, m) \/ m = n
          /\ Distinct(revenue_updates) /\ ~Queued(revenue_updates, n) => Distinct(revenue_updates')
      BY <1>0, <2>4, AppendQueue
    <3>2. \A m : Flight(m)' <=> Flight(m)
      BY <2>1, <2>2, <3>1 DEF Flight
    <3>3. OnePlace'
      BY <2>1, <2>2, <3>1 DEF FlightInv, OnePlace
    <3> QED
      BY <2>1, <2>2, <2>4, <3>2, <3>3 DEF FlightInv, OpenInFlight, Awaited, StopExcused
  <2> QED
    BY <1>6, <2>3, <2>4 DEF SendUpdate
<1>7. CASE BidderReceives
  <2> DEFINE h == Head(revenue_updates)
  <2>1. /\ bidder.pc = "receive" /\ bidder' = [pc |-> "run", payload |-> h]
        /\ revenue_updates # << >> /\ revenue_updates' = Tail(revenue_updates)
        /\ UNCHANGED <<job, best_payload, pending_bid_update, sending, replies, superseded, ended>>
    BY <1>7 DEF BidderReceives
  <2>2. /\ \A m : Queued(revenue_updates', m) => Queued(revenue_updates, m)
        /\ Queued(revenue_updates, h)
        /\ Distinct(revenue_updates') /\ ~Queued(revenue_updates', h)
    BY <1>0, <2>1, TailQueue DEF FlightInv, OnePlace
  <2>3. (\A m : InHand(m)' <=> m = h) /\ bidder'.pc = "run"
    BY <2>1 DEF InHand
  <2> HIDE DEF h
  <2>4. \A m : Flight(m)' => Flight(m)
    BY <2>1, <2>2, <2>3 DEF Flight
  <2>5. OnePlace'
    BY <2>1, <2>2, <2>3 DEF FlightInv, OnePlace
  <2>6. (Excused' <=> Excused) /\ EarlyEndNeedsSuperseded'
    BY <2>1 DEF Excused, FlightInv, EarlyEndNeedsSuperseded
  <2> QED
    BY <2>1, <2>3, <2>4, <2>5, <2>6 DEF FlightInv, OpenInFlight, Awaited, StopExcused
<1>8. CASE BidderAnswers
  <2> DEFINE n == bidder.payload
  <2>1. /\ bidder.pc = "run" /\ n \in Payloads /\ Flight(n) /\ InHand(n)
        /\ UNCHANGED <<job, best_payload, pending_bid_update, sending, superseded, ended>>
    BY <1>0, <1>8 DEF BidderAnswers, Flight, InHand
  <2>2. (Excused' <=> Excused) /\ EarlyEndNeedsSuperseded'
    BY <2>1 DEF Excused, FlightInv, EarlyEndNeedsSuperseded
  <2>3. ~(n > best_payload) /\ n \notin sending /\ ~Queued(revenue_updates, n)
    BY <1>0, <2>1 DEF FlightInv, OpenInFlight, OnePlace
  <2>4. CASE /\ replies' = [replies EXCEPT ![n] = "value"]
             /\ bidder' = [pc |-> "receive", payload |-> 0]
             /\ UNCHANGED revenue_updates
    <3>1. (\A m : ~InHand(m)') /\ bidder'.pc # "stopped"
      BY <2>4 DEF InHand
    <3>2. \A m \in Payloads : (Flight(m)' => Flight(m) /\ m # n) /\ (m # n => replies'[m] = replies[m])
      BY <1>0, <2>1, <2>3, <2>4, <3>1 DEF Flight, Queued
    <3>3. OnePlace'
      BY <2>1, <2>4, <3>1 DEF FlightInv, OnePlace, Queued, Distinct
    <3>4. replies'[n] = "value"
      BY <1>0, <2>1, <2>4
    <3> HIDE DEF n
    <3>5. OpenInFlight'
      BY <2>1, <2>3, <3>2 DEF FlightInv, OpenInFlight
    <3> QED
      BY <2>1, <2>2, <3>1, <3>2, <3>3, <3>4, <3>5 DEF FlightInv, Awaited, StopExcused
  <2>5. CASE /\ pending_bid_update # n
             /\ replies' = [m \in Payloads |->
                   IF \E i \in DOMAIN revenue_updates : revenue_updates[i] = m
                   THEN "dropped" ELSE replies[m]]
             /\ bidder' = [pc |-> "stopped", payload |-> 0]
             /\ revenue_updates' = << >>
    <3>1. Excused
      BY <2>1, <2>5 DEF FlightInv, Awaited
    <3>2. \A m \in Payloads : replies'[m] = IF Queued(revenue_updates, m) THEN "dropped" ELSE replies[m]
      BY <2>5 DEF Queued
    <3>3. (\A m : ~InHand(m)') /\ (\A m : ~Queued(revenue_updates', m)) /\ Distinct(revenue_updates')
      BY <2>5, EmptyQueue DEF InHand
    <3>4. OnePlace'
      BY <2>1, <3>3 DEF OnePlace
    <3>5. \A m \in Payloads : Flight(m)' => Flight(m) /\ ~Queued(revenue_updates, m)
      BY <2>1, <3>3 DEF Flight, FlightInv, OnePlace
    <3>6. \A m \in Payloads : m > best_payload => ~Queued(revenue_updates, m)
      BY <1>0 DEF FlightInv, OpenInFlight, Flight
    <3>7. OpenInFlight'
      BY <2>1, <3>2, <3>5, <3>6 DEF FlightInv, OpenInFlight
    <3> QED
      BY <2>2, <3>1, <3>4, <3>7 DEF FlightInv, Awaited, StopExcused
  <2> QED
    BY <1>8, <2>4, <2>5 DEF BidderAnswers
<1>9. ASSUME NEW n \in Payloads, Finalize(n)
      PROVE  FlightInv'
  BY <1>1, <1>9 DEF Finalize, FlightInv, EarlyEndNeedsSuperseded
<1>10. CASE UNCHANGED vars
  BY <1>1, <1>10 DEF vars, FlightInv, EarlyEndNeedsSuperseded
<1> QED
  BY <1>2, <1>3, <1>4, <1>5, <1>6, <1>7, <1>8, <1>9, <1>10 DEF Next, Poll, Bidder

\* A job whose bidder is gone before the deadline has replaced an update it still waited
\* for: without a replacement the bidder's answer always finds the job waiting.
THEOREM EarlyEnd == Spec => []EarlyEndNeedsSuperseded
<1>1. FlightInv => EarlyEndNeedsSuperseded
  BY DEF FlightInv
<1> QED
  BY <1>1, TypesHold, FlightInit, FlightStep, PTL DEF Spec

=============================================================================
