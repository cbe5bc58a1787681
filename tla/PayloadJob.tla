----------------------------- MODULE PayloadJob -----------------------------
(***************************************************************************)
(* One payload job of the builder (mev-build-rs/src/payload/job.rs) with   *)
(* the bidder task of its auction (bidder/service.rs) and the builder's    *)
(* store of execution outcomes (payload/builder.rs).  The job is a future: *)
(* a poll looks at the deadline, the pending bid, the interval and the     *)
(* pending block, in this order.  Builds, sends to the bidder, the bidder  *)
(* and finalizations are tasks of their own and run meanwhile.             *)
(*                                                                         *)
(* Payloads are numbered in the order they are built; 0 is none.  All of   *)
(* them have the payload id of the job, under which the one execution      *)
(* outcome is stored.                                                      *)
(***************************************************************************)
EXTENDS Integers, Sequences, FiniteSets

CONSTANTS
    MaxBuilds,          \* bound: payloads that improve on the best one
    UpdateCapacity      \* DEFAULT_BUILDER_BIDDER_CHANNEL_SIZE (scaled down for TLC)

ASSUME JobAssumption == MaxBuilds \in Nat /\ UpdateCapacity \in Nat \ {0}

Payloads == 1..MaxBuilds

VARIABLES
    job,                \* stage of the poll under way or next, or "done"
    best_payload,       \* number of the best payload
    pending_block,      \* the build under way, or its result
    pending_bid_update, \* the payload whose value the job waits for
    execution_outcome,  \* entry of execution_outcomes: the payload it belongs to
    sending,            \* payloads whose fees are being sent to the bidder
    revenue_updates,    \* channel to the bidder
    bidder,             \* [pc, payload]
    replies,            \* payload -> state of the oneshot channel for its bid value
    finalizing,         \* payloads being finalized
    \* history, read by properties only
    finalized,          \* <<payload, payload of the outcome used>>
    overlapped,         \* payloads that were not finalized when another was built
    superseded,         \* updates that were replaced before the bidder's answer was seen
    ended               \* how the job ended

vars == <<job, best_payload, pending_block, pending_bid_update, execution_outcome, sending,
          revenue_updates, bidder, replies, finalizing, finalized, overlapped, superseded, ended>>

TypeOK ==
    /\ job \in {"deadline", "bid", "interval", "block", "done"}
    /\ best_payload \in 0..MaxBuilds
    /\ pending_block \in {"none", "building", "better", "aborted", "failed"}
    /\ pending_bid_update \in 0..MaxBuilds
    /\ pending_bid_update # 0 => pending_bid_update = best_payload
    /\ execution_outcome \in 0..MaxBuilds
    /\ sending \subseteq Payloads
    /\ revenue_updates \in Seq(Payloads) /\ Len(revenue_updates) <= UpdateCapacity
    /\ bidder \in [pc : {"receive", "run", "stopped"}, payload : 0..MaxBuilds]
    /\ replies \in [Payloads -> {"open", "value", "dropped"}]
    /\ finalizing \subseteq Payloads
    /\ finalized \subseteq Payloads \X (0..MaxBuilds)
    /\ overlapped \subseteq Payloads
    /\ superseded \subseteq Payloads
    /\ ended \in {"no", "deadline", "resolved", "bidder"}

Init ==
    /\ job = "deadline"
    /\ best_payload = 0
    /\ pending_block = "none"
    /\ pending_bid_update = 0
    /\ execution_outcome = 0
    /\ sending = {}
    /\ revenue_updates = << >>
    /\ bidder = [pc |-> "receive", payload |-> 0]
    /\ replies = [n \in Payloads |-> "open"]
    /\ finalizing = {}
    /\ finalized = {}
    /\ overlapped = {}
    /\ superseded = {}
    /\ ended = "no"

----------------------------------------------------------------------------
(***************************************************************************)
(* The poll.  When the job ends its receivers are dropped.                 *)
(***************************************************************************)
EndJob(how) ==
    /\ job' = "done"
    /\ ended' = how
    /\ pending_bid_update' = 0

PollDeadline ==
    /\ job = "deadline"
    /\ \/ EndJob("deadline")
       \/ job' = "bid" /\ UNCHANGED <<pending_bid_update, ended>>
    /\ UNCHANGED <<best_payload, pending_block, execution_outcome, sending, revenue_updates,
                   bidder, replies, finalizing, finalized, overlapped, superseded>>

\* The bidder's answer starts the finalization; a dropped channel ends the job.
PollBid ==
    LET n == pending_bid_update IN
    /\ job = "bid"
    /\ \/ /\ IF n = 0 THEN TRUE ELSE replies[n] = "open"
          /\ job' = "interval"
          /\ UNCHANGED <<pending_bid_update, finalizing, ended>>
       \/ /\ n # 0
          /\ replies[n] = "value"
          /\ job' = "interval"
          /\ pending_bid_update' = 0
          /\ finalizing' = finalizing \cup {n}
          /\ UNCHANGED ended
       \/ /\ n # 0
          /\ replies[n] = "dropped"
          /\ EndJob("bidder")
          /\ UNCHANGED finalizing
    /\ UNCHANGED <<best_payload, pending_block, execution_outcome, sending, revenue_updates,
                   bidder, replies, finalized, overlapped, superseded>>

\* When the interval has elapsed and no build is under way, one is started.
PollInterval ==
    /\ job = "interval"
    /\ job' = "block"
    /\ \/ pending_block = "none" /\ pending_block' = "building"
       \/ UNCHANGED pending_block
    /\ UNCHANGED <<best_payload, pending_bid_update, execution_outcome, sending, revenue_updates,
                   bidder, replies, finalizing, finalized, overlapped, superseded, ended>>

\* A better payload replaces the best one, and its update the pending update, if any.
PollBlock ==
    /\ job = "block"
    /\ job' = "deadline"
    /\ \/ /\ pending_block \in {"none", "building"}
          /\ UNCHANGED <<best_payload, pending_block, pending_bid_update, sending, superseded>>
       \/ /\ pending_block \in {"aborted", "failed"}
          /\ pending_block' = "none"
          /\ UNCHANGED <<best_payload, pending_bid_update, sending, superseded>>
       \/ /\ pending_block = "better"
          /\ pending_block' = "none"
          /\ best_payload' = best_payload + 1
          /\ sending' = sending \cup {best_payload + 1}
          /\ pending_bid_update' = best_payload + 1
          /\ superseded' = superseded \cup ({pending_bid_update} \ {0})
    /\ UNCHANGED <<execution_outcome, revenue_updates, bidder, replies, finalizing, finalized,
                   overlapped, ended>>

\* The engine API takes the best payload and the build under way; the job is not kept alive.
Resolve ==
    /\ job = "deadline"
    /\ EndJob("resolved")
    /\ UNCHANGED <<best_payload, pending_block, execution_outcome, sending, revenue_updates,
                   bidder, replies, finalizing, finalized, overlapped, superseded>>

----------------------------------------------------------------------------
(* A build: try_build stores the outcome of a better payload before it answers. *)

Unfinalized == {n \in 1..best_payload : ~\E m \in 0..MaxBuilds : <<n, m>> \in finalized}

\* Mutant of BuildBetter: the outcome is not stored.
BuildWithoutOutcome ==
    /\ pending_block = "building"
    /\ best_payload < MaxBuilds
    /\ pending_block' = "better"
    /\ UNCHANGED <<job, best_payload, pending_bid_update, execution_outcome, sending,
                   revenue_updates, bidder, replies, finalizing, finalized, overlapped, superseded,
                   ended>>

BuildBetter ==
    LET n == best_payload + 1 IN
    /\ pending_block = "building"
    /\ best_payload < MaxBuilds
    /\ pending_block' = "better"
    /\ execution_outcome' = n
    /\ overlapped' = IF Unfinalized = {} THEN overlapped ELSE overlapped \cup Unfinalized \cup {n}
    /\ UNCHANGED <<job, best_payload, pending_bid_update, sending, revenue_updates, bidder, replies,
                   finalizing, finalized, superseded, ended>>

BuildEnds ==
    /\ pending_block = "building"
    /\ pending_block' \in {"aborted", "failed"}
    /\ UNCHANGED <<job, best_payload, pending_bid_update, execution_outcome, sending,
                   revenue_updates, bidder, replies, finalizing, finalized, overlapped, superseded,
                   ended>>

----------------------------------------------------------------------------
(* Sending the fees of payload n, and the bidder *)

\* Mutant of SendUpdate: the task does not wait for room in the channel.
SendWithoutLimit(n) ==
    /\ n \in sending
    /\ sending' = sending \ {n}
    /\ revenue_updates' = Append(revenue_updates, n)
    /\ UNCHANGED <<job, best_payload, pending_block, pending_bid_update, execution_outcome, bidder,
                   replies, finalizing, finalized, overlapped, superseded, ended>>

\* Mutant of SendUpdate: a channel that is closed is waited on.
SendToOpenChannel(n) ==
    /\ n \in sending
    /\ bidder.pc # "stopped"
    /\ Len(revenue_updates) < UpdateCapacity
    /\ sending' = sending \ {n}
    /\ revenue_updates' = Append(revenue_updates, n)
    /\ UNCHANGED <<job, best_payload, pending_block, pending_bid_update, execution_outcome, bidder,
                   replies, finalizing, finalized, overlapped, superseded, ended>>

\* The task waits for room in the channel; a closed channel drops the oneshot sender.
SendUpdate(n) ==
    /\ n \in sending
    /\ sending' = sending \ {n}
    /\ \/ /\ bidder.pc = "stopped"
          /\ replies' = [replies EXCEPT ![n] = "dropped"]
          /\ UNCHANGED revenue_updates
       \/ /\ bidder.pc # "stopped"
          /\ Len(revenue_updates) < UpdateCapacity
          /\ revenue_updates' = Append(revenue_updates, n)
          /\ UNCHANGED replies
    /\ UNCHANGED <<job, best_payload, pending_block, pending_bid_update, execution_outcome, bidder,
                   finalizing, finalized, overlapped, superseded, ended>>

(***************************************************************************)
(* The bidder holds its auction, whose attributes hold a sender of the     *)
(* bidder's own channel: the channel is never closed by the senders, and   *)
(* recv does not return None.                                              *)
(***************************************************************************)
BidderReceives ==
    /\ bidder.pc = "receive"
    /\ revenue_updates # << >>
    /\ bidder' = [pc |-> "run", payload |-> Head(revenue_updates)]
    /\ revenue_updates' = Tail(revenue_updates)
    /\ UNCHANGED <<job, best_payload, pending_block, pending_bid_update, execution_outcome, sending,
                   replies, finalizing, finalized, overlapped, superseded, ended>>

\* Mutant of BidderAnswers: the bidder stops after a bid it could send.
BidderAnswersOnce ==
    /\ bidder.pc = "run"
    /\ replies' = [replies EXCEPT ![bidder.payload] = "value"]
    /\ bidder' = [pc |-> "stopped", payload |-> 0]
    /\ revenue_updates' = << >>
    /\ UNCHANGED <<job, best_payload, pending_block, pending_bid_update, execution_outcome, sending,
                   finalizing, finalized, overlapped, superseded, ended>>

\* Mutant of BidderAnswers: the bidder goes on when nobody waits for its answer.
BidderIgnoresFailedSend ==
    LET n == bidder.payload IN
    /\ bidder.pc = "run"
    /\ replies' = IF pending_bid_update = n THEN [replies EXCEPT ![n] = "value"] ELSE replies
    /\ bidder' = [pc |-> "receive", payload |-> 0]
    /\ UNCHANGED <<job, best_payload, pending_block, pending_bid_update, execution_outcome, sending,
                   revenue_updates, finalizing, finalized, overlapped, superseded, ended>>

\* The value is sent to the job; when the job no longer waits for it, the bidder stops and
\* the updates still queued are dropped.
BidderAnswers ==
    LET n == bidder.payload IN
    /\ bidder.pc = "run"
    /\ \/ /\ pending_bid_update = n
          /\ replies' = [replies EXCEPT ![n] = "value"]
          /\ bidder' = [pc |-> "receive", payload |-> 0]
          /\ UNCHANGED revenue_updates
       \/ /\ pending_bid_update # n
          /\ replies' = [m \in Payloads |->
                IF \E i \in DOMAIN revenue_updates : revenue_updates[i] = m
                THEN "dropped" ELSE replies[m]]
          /\ bidder' = [pc |-> "stopped", payload |-> 0]
          /\ revenue_updates' = << >>
    /\ UNCHANGED <<job, best_payload, pending_block, pending_bid_update, execution_outcome, sending,
                   finalizing, finalized, overlapped, superseded, ended>>

----------------------------------------------------------------------------
\* finalize_payload takes the outcome stored under the payload id, whichever it is; without
\* one the payload is given up (`missing build state for payload').
Finalize(n) ==
    /\ n \in finalizing
    /\ finalizing' = finalizing \ {n}
    /\ finalized' = finalized \cup {<<n, execution_outcome>>}
    /\ execution_outcome' = 0
    /\ UNCHANGED <<job, best_payload, pending_block, pending_bid_update, sending, revenue_updates,
                   bidder, replies, overlapped, superseded, ended>>

----------------------------------------------------------------------------
Poll == PollDeadline \/ PollBid \/ PollInterval \/ PollBlock

Bidder == BidderReceives \/ BidderAnswers

Next ==
    \/ Poll
    \/ Resolve
    \/ BuildBetter
    \/ BuildEnds
    \/ \E n \in Payloads : SendUpdate(n) \/ Finalize(n)
    \/ Bidder

\* The executor polls every task; the job's timers and channels wake it again and again.
Fairness ==
    /\ WF_vars(Poll)
    /\ WF_vars(Bidder)
    /\ \A n \in Payloads : WF_vars(SendUpdate(n)) /\ WF_vars(Finalize(n))

Spec == Init /\ [][Next]_vars /\ Fairness

----------------------------------------------------------------------------
(* Properties *)

\* Unless another payload was built between a payload's build and its finalization, the
\* payment is appended on top of the payload's own execution outcome.
OwnOutcomeUnlessOverlapped ==
    \A x \in finalized : x[1] \notin overlapped => x[2] = x[1]

\* A job that ends before its deadline, and not by resolve, has replaced a pending update.
EarlyEndNeedsSuperseded == ended = "bidder" => superseded # {}

\* The bidder serves the auction until the builder is done with it.
BidderServesJob == bidder.pc = "stopped" => job = "done"

\* The job does not wait forever for the bidder, whether the bidder runs or has stopped.
UpdatesAreSettled ==
    \A n \in Payloads : pending_bid_update = n ~> pending_bid_update # n

\* A job that ends with an update under way takes its bidder along: the bidder comes to the
\* update, finds nobody waiting for the answer and stops.  (When every update was answered
\* nothing stops the bidder, which holds a sender of its own channel.)
BidderStopsAfterJob ==
    job = "done" /\ (sending # {} \/ revenue_updates # << >> \/ bidder.pc = "run")
        ~> bidder.pc = "stopped"

=============================================================================
