------------------------- MODULE ProposerScheduler -------------------------
(***************************************************************************)
(* The proposer schedule (mev-rs/src/proposer_scheduler.rs) as the relay's *)
(* clock task maintains it: refreshed in on_epoch, and in on_slot when     *)
(* registrations came in since the last slot.  Registrations arrive at any *)
(* time from other tasks; the beacon node's answers may fail one by one.   *)
(*                                                                         *)
(* A registration is its version: 0 for none, higher for later.            *)
(***************************************************************************)
EXTENDS Integers, Sequences, FiniteSets

CONSTANTS
    Proposers,              \* validators; a validator's index and key are one value
    SLOTS_PER_EPOCH,        \* slots_per_epoch
    MaxEpoch,               \* bound: the last epoch of the clock
    MaxVersion,             \* bound: registrations per validator
    Duty                    \* slot -> proposer, for the epochs 0..MaxEpoch + 1

Slots == 0..((MaxEpoch + 1) * SLOTS_PER_EPOCH - 1)

FirstSlot(epoch) == epoch * SLOTS_PER_EPOCH

EpochOf(slot) == slot \div SLOTS_PER_EPOCH

SlotsOf(epoch) == FirstSlot(epoch)..(FirstSlot(epoch + 1) - 1)

ASSUME SchedulerAssumption ==
    /\ SLOTS_PER_EPOCH \in Nat \ {0}
    /\ MaxEpoch \in Nat
    /\ MaxVersion \in Nat \ {0}
    /\ Duty \in [0..((MaxEpoch + 2) * SLOTS_PER_EPOCH - 1) -> Proposers]

VARIABLES
    proposer_schedule,      \* sequence of [slot, validator_index, entry]
    registration,           \* validator registry: proposer -> latest version
    reporting,              \* keys stored in the registry, not yet reported to the relay
    outstanding,            \* outstanding_validator_updates of the relay
    clock,                  \* the clock task: what it does next, at which slot
    duties,                 \* duties fetched by the refresh under way
    extension,              \* schedules built by the refresh under way
    refreshed,              \* history: what the latest refresh had to work with, and the
                            \* proposals it or an earlier one passed over
    arrived                 \* history: slot -> version the registry had for its proposer when
                            \* the duty of the slot last arrived

vars == <<proposer_schedule, registration, reporting, outstanding, clock, duties, extension,
          refreshed, arrived>>

\* A schedule has the registration that was read when it was built.
Schedules == [slot : DOMAIN Duty, validator_index : Proposers, entry : 1..MaxVersion]

Init ==
    /\ proposer_schedule = << >>
    /\ registration = [p \in Proposers |-> 0]
    /\ reporting = {}
    /\ outstanding = {}
    /\ \E s \in Slots :
        /\ clock = [pc |-> "fetch", job |-> "startup", slot |-> s]
        /\ refreshed = [epoch |-> EpochOf(s), registration |-> registration,
                        passed_over |-> {}, done |-> FALSE]
    /\ duties = << >>
    /\ extension = << >>
    /\ arrived = [s \in DOMAIN Duty |-> 0]

----------------------------------------------------------------------------
(* Registrations, from the relay's register_validators *)

Register(p) ==
    /\ registration[p] < MaxVersion
    /\ registration' = [registration EXCEPT ![p] = @ + 1]
    /\ reporting' = reporting \cup {p}
    /\ UNCHANGED <<proposer_schedule, outstanding, clock, duties, extension, refreshed, arrived>>

Report(p) ==
    /\ p \in reporting
    /\ reporting' = reporting \ {p}
    /\ outstanding' = outstanding \cup {p}
    /\ UNCHANGED <<proposer_schedule, registration, clock, duties, extension, refreshed, arrived>>

----------------------------------------------------------------------------
(* The clock task *)

\* A refresh begins; what it has to work with is remembered.
BeginRefresh(slot) ==
    refreshed' = [epoch |-> EpochOf(slot), registration |-> registration,
                  passed_over |-> {s \in refreshed.passed_over : s >= FirstSlot(EpochOf(slot))},
                  done |-> FALSE]

\* Proposals without a schedule: their duties did not arrive, or found no registration.
PassOver(slots) == refreshed' = [refreshed EXCEPT !.passed_over = @ \cup slots]

Tick ==
    /\ clock.pc = "idle"
    /\ \E s \in Slots :
        /\ s > clock.slot
        /\ \/ /\ EpochOf(s) > EpochOf(clock.slot)
              /\ clock' = [pc |-> "fetch", job |-> "on_epoch", slot |-> s]
              /\ BeginRefresh(s)
           \/ /\ EpochOf(s) = EpochOf(clock.slot)
              /\ clock' = [pc |-> "drain", job |-> "on_slot", slot |-> s]
              /\ UNCHANGED refreshed
    /\ UNCHANGED <<proposer_schedule, registration, reporting, outstanding, duties, extension,
                   arrived>>

\* on_slot: the schedule is refreshed only when keys are outstanding.
OnSlotDrain ==
    /\ clock.pc = "drain"
    /\ outstanding' = {}
    /\ \/ /\ outstanding = {}
          /\ clock' = [clock EXCEPT !.pc = "idle"]
          /\ UNCHANGED refreshed
       \/ /\ outstanding # {}
          /\ clock' = [clock EXCEPT !.pc = "fetch"]
          /\ BeginRefresh(clock.slot)
    /\ UNCHANGED <<proposer_schedule, registration, reporting, duties, extension, arrived>>

\* Mutant of IsMissing: duties are only fetched for an empty schedule.
IsEmptySchedule(epoch) == proposer_schedule = << >>

\* No schedule is for the epoch or later.
IsMissing(epoch) ==
    ~\E i \in DOMAIN proposer_schedule : proposer_schedule[i].slot >= FirstSlot(epoch)

\* The beacon node's answer for an epoch, in the order of slots.
ProposerDuties(epoch) ==
    [i \in 1..SLOTS_PER_EPOCH |->
        LET slot == FirstSlot(epoch) + i - 1 IN [slot |-> slot, validator_index |-> Duty[slot]]]

\* What the registry has when the duties of an epoch arrive is remembered.
DutiesArrive(epoch) ==
    arrived' = [s \in DOMAIN Duty |->
                    IF s \in SlotsOf(epoch) THEN registration[Duty[s]] ELSE arrived[s]]

\* fetch_duties_if_missing; an error is logged and leaves the duties as they are.
FetchDutiesIfMissing(epoch) ==
    \/ /\ IsMissing(epoch)
       /\ duties' = duties \o ProposerDuties(epoch)
       /\ DutiesArrive(epoch)
       /\ UNCHANGED refreshed
    \/ /\ IsMissing(epoch)
       /\ PassOver(SlotsOf(epoch))
       /\ UNCHANGED <<duties, arrived>>
    \/ /\ ~IsMissing(epoch)
       /\ UNCHANGED <<duties, refreshed, arrived>>

FetchDuties ==
    /\ clock.pc = "fetch"
    /\ FetchDutiesIfMissing(EpochOf(clock.slot))
    /\ clock' = [clock EXCEPT !.pc = "fetch_next"]
    /\ UNCHANGED <<proposer_schedule, registration, reporting, outstanding, extension>>

FetchNextDuties ==
    /\ clock.pc = "fetch_next"
    /\ FetchDutiesIfMissing(EpochOf(clock.slot) + 1)
    /\ clock' = [clock EXCEPT !.pc = "extend"]
    /\ UNCHANGED <<proposer_schedule, registration, reporting, outstanding, extension>>

\* Mutant of ExtendWithDuty: the registrations are those of when the refresh began, read before
\* the beacon node was asked.
ExtendWithSnapshot ==
    LET duty == Head(duties)
        entry == refreshed.registration[duty.validator_index] IN
    /\ clock.pc = "extend"
    /\ duties # << >>
    /\ duties' = Tail(duties)
    /\ \/ /\ entry = 0
          /\ PassOver({duty.slot})
          /\ UNCHANGED extension
       \/ /\ entry # 0
          /\ extension' =
                Append(extension, [slot |-> duty.slot, validator_index |-> duty.validator_index,
                                   entry |-> entry])
          /\ UNCHANGED refreshed
    /\ UNCHANGED <<proposer_schedule, registration, reporting, outstanding, clock, arrived>>

\* The registration of each duty's proposer is read on its own; a duty without one is dropped.
ExtendWithDuty ==
    LET duty == Head(duties)
        entry == registration[duty.validator_index] IN
    /\ clock.pc = "extend"
    /\ duties # << >>
    /\ duties' = Tail(duties)
    /\ \/ /\ entry = 0
          /\ PassOver({duty.slot})
          /\ UNCHANGED extension
       \/ /\ entry # 0
          /\ extension' =
                Append(extension, [slot |-> duty.slot, validator_index |-> duty.validator_index,
                                   entry |-> entry])
          /\ UNCHANGED refreshed
    /\ UNCHANGED <<proposer_schedule, registration, reporting, outstanding, clock, arrived>>

\* Mutant of StoreSchedules: old schedules are not dropped.
AppendSchedules ==
    /\ clock.pc = "extend"
    /\ duties = << >>
    /\ proposer_schedule' = proposer_schedule \o extension
    /\ extension' = << >>
    /\ refreshed' = [refreshed EXCEPT !.done = TRUE]
    /\ clock' = [clock EXCEPT !.pc = IF clock.job = "on_epoch" THEN "drain" ELSE "idle",
                              !.job = "on_slot"]
    /\ UNCHANGED <<registration, reporting, outstanding, duties, arrived>>

\* Vec::retain: what is at the indices kept, in the order it had.  The k-th of it is at the
\* index that has k of them up to it.
Retain(seq, kept) ==
    LET Index(k) == CHOOSE i \in kept : Cardinality({j \in kept : j <= i}) = k IN
    [k \in 1..Cardinality(kept) |-> seq[Index(k)]]

\* Old schedules are dropped, the new ones follow; on_epoch is followed by on_slot.
StoreSchedules ==
    LET slot == FirstSlot(EpochOf(clock.slot))
        current == {i \in DOMAIN proposer_schedule : proposer_schedule[i].slot >= slot} IN
    /\ clock.pc = "extend"
    /\ duties = << >>
    /\ proposer_schedule' = Retain(proposer_schedule, current) \o extension
    /\ extension' = << >>
    /\ refreshed' = [refreshed EXCEPT !.done = TRUE]
    /\ clock' = [clock EXCEPT !.pc = IF clock.job = "on_epoch" THEN "drain" ELSE "idle",
                              !.job = "on_slot"]
    /\ UNCHANGED <<registration, reporting, outstanding, duties, arrived>>

----------------------------------------------------------------------------
ClockNext ==
    \/ OnSlotDrain
    \/ FetchDuties
    \/ FetchNextDuties
    \/ ExtendWithDuty
    \/ StoreSchedules

Next ==
    \/ Tick
    \/ ClockNext
    \/ \E p \in Proposers : Register(p) \/ Report(p)

Spec == Init /\ [][Next]_vars

----------------------------------------------------------------------------
(* Properties *)

\* Whichever answers failed and whenever registrations came in, schedules are strictly
\* increasing by slot (the comment on State); builders are only told of proposals that are due,
\* with a registration the proposer made; and once an epoch has been processed, none of an
\* earlier epoch is left.
ScheduleIsSound ==
    /\ proposer_schedule \in Seq(Schedules)
    /\ \A i, j \in DOMAIN proposer_schedule :
        i < j => proposer_schedule[i].slot < proposer_schedule[j].slot
    /\ \A i \in DOMAIN proposer_schedule :
        LET schedule == proposer_schedule[i] IN
        /\ schedule.validator_index = Duty[schedule.slot]
        /\ schedule.entry <= registration[schedule.validator_index]
        /\ clock.pc \in {"idle", "drain"} => schedule.slot >= FirstSlot(EpochOf(clock.slot))

\* A refresh leaves every proposal of its epoch and the next in the schedule whose proposer
\* was registered when the refresh began, except for those that were passed over when the
\* duties of their epoch were asked for: these are not looked at again while the schedule has
\* anything for their epoch or a later one.
RefreshIsComplete ==
    clock.pc \in {"idle", "drain"} /\ refreshed.done =>
        \A slot \in SlotsOf(refreshed.epoch) \cup SlotsOf(refreshed.epoch + 1) :
            refreshed.registration[Duty[slot]] > 0 =>
                \/ slot \in refreshed.passed_over
                \/ \E i \in DOMAIN proposer_schedule : proposer_schedule[i].slot = slot

\* Whenever registrations come in while the beacon node is asked and while the duties are gone
\* through, builders are told of a registration no older than the one the registry had when the
\* duty arrived: the registry is read after the requests, not before.
NoOlderThanDuties ==
    \A i \in DOMAIN proposer_schedule :
        proposer_schedule[i].entry >= arrived[proposer_schedule[i].slot]

=============================================================================
