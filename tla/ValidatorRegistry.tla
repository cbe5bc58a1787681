------------------------- MODULE ValidatorRegistry -------------------------
(***************************************************************************)
(* The registry of validators (mev-rs/src/validator_registry.rs) and the   *)
(* relay's handler register_validators, which feeds it and tells the clock *)
(* task which keys changed.  Several calls run at once: each registration  *)
(* of a batch is checked by a worker of its own under the read lock, and   *)
(* the accepted ones are stored together under the write lock, later.      *)
(*                                                                         *)
(* A validator's index and its key are one value, so that `validators'     *)
(* stands for pubkeys_by_index as well: on_epoch fills both together.      *)
(***************************************************************************)
EXTENDS Integers, Sequences, FiniteSets

CONSTANTS
    Keys,               \* BLS public keys of validators
    Statuses,           \* validator statuses of the beacon API
    Batches,            \* the sequences of signed registrations clients may send
    Calls,              \* concurrent calls of register_validators
    MaxTime,            \* bound: the last second of the wall clock
    NANOS_PER_SECOND,   \* nanoseconds in a second (scaled down for TLC)
    None                \* an absent map entry

Registrations == UNION {{b[i] : i \in DOMAIN b} : b \in Batches}

ASSUME RegistryAssumption ==
    /\ MaxTime \in Nat
    /\ NANOS_PER_SECOND \in Nat \ {0}
    /\ None \notin Statuses \cup {"pending", "active_ongoing"}
    /\ None \notin Registrations
    /\ \A b \in Batches : b \in Seq(Registrations)
    /\ \A r \in Registrations :
        r.public_key \in Keys /\ r.timestamp \in Nat /\ r.signed \in BOOLEAN

VARIABLES
    validators,         \* key -> status in the beacon state
    preferences,        \* key -> latest signed registration
    outstanding,        \* outstanding_validator_updates of the relay
    now,                \* wall clock, in seconds
    calls,              \* local state of each call
    refresh,            \* the clock task: waiting for a slot, or about to refresh
    \* history, read by properties only
    raced,              \* keys whose entry changed between a check and its store
    refreshed,          \* key -> the registration the last refresh could read
    accepted_at         \* key -> wall clock when the stored registration was received

vars == <<validators, preferences, outstanding, now, calls, refresh, raced, refreshed, accepted_at>>

(***************************************************************************)
(* A check ends in an error, finds the registration present already, or    *)
(* finds it new.  `seen' is history: the entry the check read.             *)
(***************************************************************************)
Unchecked == [verdict |-> "unchecked", seen |-> None]

IdleCall ==
    [pc |-> "idle", batch |-> << >>, time |-> 0, checks |-> << >>, updated |-> {}]

\* The keys of validator_preferences.
RegisteredKeys == {k \in Keys : preferences[k] # None}

\* Types, and: keys on the way to the clock task have a registration that it can read.
TypeOK ==
    /\ validators \in [Keys -> Statuses \cup {None}]
    /\ preferences \in [Keys -> Registrations \cup {None}]
    /\ outstanding \subseteq RegisteredKeys
    /\ now \in 0..MaxTime
    /\ \A c \in Calls :
        /\ calls[c].pc \in {"idle", "check", "extend"}
        /\ calls[c].batch \in Batches \cup {<< >>}
        /\ calls[c].time \in 0..MaxTime
        /\ DOMAIN calls[c].checks = DOMAIN calls[c].batch
        /\ \A i \in DOMAIN calls[c].checks :
            calls[c].checks[i] \in
                [verdict : {"unchecked", "error", "existing", "new"},
                 seen : Registrations \cup {None}]
        /\ calls[c].updated \subseteq RegisteredKeys
    /\ refresh \in {"idle", "refresh"}
    /\ raced \subseteq Keys
    /\ refreshed \in [Keys -> Registrations \cup {None}]
    /\ accepted_at \in [Keys -> 0..MaxTime]

Init ==
    /\ validators = [k \in Keys |-> None]
    /\ preferences = [k \in Keys |-> None]
    /\ outstanding = {}
    /\ now = 0
    /\ calls = [c \in Calls |-> IdleCall]
    /\ refresh = "idle"
    /\ raced = {}
    /\ refreshed = [k \in Keys |-> None]
    /\ accepted_at = [k \in Keys |-> 0]

----------------------------------------------------------------------------
(* Clock *)

\* on_epoch of the registry: what the beacon node reports is stored, and nothing is removed.
OnEpoch(summaries) ==
    /\ validators' = [k \in Keys |-> IF summaries[k] = None THEN validators[k] ELSE summaries[k]]
    /\ UNCHANGED <<preferences, outstanding, now, calls, refresh, raced, refreshed, accepted_at>>

\* on_slot of the relay takes the outstanding keys and, when there are any, refreshes the
\* proposer schedule.  What the refresh does with the registrations is ProposerScheduler's
\* matter: which duties it asks for, that a request may fail, and which registrations it then
\* reads.  Here it is the point from which on a refresh reads no older entry than the present one.
OnSlotDrain ==
    /\ refresh = "idle"
    /\ outstanding # {}
    /\ outstanding' = {}
    /\ refresh' = "refresh"
    /\ UNCHANGED <<validators, preferences, now, calls, raced, refreshed, accepted_at>>

\* The refresh gets to the registry: `refreshed' is what it can read there, not what it uses.
OnSlotRefresh ==
    /\ refresh = "refresh"
    /\ refreshed' = preferences
    /\ refresh' = "idle"
    /\ UNCHANGED <<validators, preferences, outstanding, now, calls, raced, accepted_at>>

----------------------------------------------------------------------------
(* register_validators *)

\* The call reads the wall clock, which may have advanced since the call before.
RegisterValidators(c, batch) ==
    /\ calls[c].pc = "idle"
    /\ now' \in now..MaxTime
    /\ calls' = [calls EXCEPT ![c] =
            [pc |-> "check", batch |-> batch, time |-> now',
             checks |-> [i \in DOMAIN batch |-> Unchecked], updated |-> {}]]
    /\ UNCHANGED <<validators, preferences, outstanding, refresh, raced, refreshed, accepted_at>>

FUTURE_TOLERANCE == 10

\* register_validators passes get_current_unix_time_in_nanos as the current timestamp.
CurrentTimestamp(seconds) == seconds * NANOS_PER_SECOND

IsNotFromFuture(r, seconds) == r.timestamp <= CurrentTimestamp(seconds) + FUTURE_TOLERANCE

IsOutdated(r, seen) == seen # None /\ r.timestamp < seen.timestamp

\* Mutant of IsNew: a registration with the stored one's timestamp counts as new.
IsNotOlder(r, seen) == seen = None \/ r.timestamp >= seen.timestamp

IsNew(r, seen) == seen = None \/ r.timestamp > seen.timestamp

\* Mutant of HasValidStatus: a key the beacon node did not report is let through.
HasNoInvalidStatus(k) == validators[k] = None \/ validators[k] \in {"pending", "active_ongoing"}

HasValidStatus(k) == validators[k] \in {"pending", "active_ongoing"}

\* process_registration
Verdict(r, seconds) ==
    LET seen == preferences[r.public_key] IN
    IF /\ IsNotFromFuture(r, seconds)
       /\ ~IsOutdated(r, seen)
       /\ HasValidStatus(r.public_key)
       /\ r.signed
    THEN IF IsNew(r, seen) THEN "new" ELSE "existing"
    ELSE "error"

ProcessRegistration(c, i) ==
    /\ calls[c].pc = "check"
    /\ calls[c].checks[i].verdict = "unchecked"
    /\ LET r == calls[c].batch[i] IN
        calls' = [calls EXCEPT ![c].checks[i] =
            [verdict |-> Verdict(r, calls[c].time), seen |-> preferences[r.public_key]]]
    /\ UNCHANGED <<validators, preferences, outstanding, now, refresh, raced, refreshed,
                   accepted_at>>

\* Positions of the registrations for key k that were found new.
NewFor(c, k) ==
    {i \in DOMAIN calls[c].batch :
        calls[c].batch[i].public_key = k /\ calls[c].checks[i].verdict = "new"}

LastOf(S) == CHOOSE i \in S : \A j \in S : j <= i

\* Mutant of StoreRegistrations: every key of the batch counts as updated, whatever its check
\* found.
StoreAndReportAll(c) ==
    LET updated == {k \in Keys : NewFor(c, k) # {}}
        reported == {calls[c].batch[i].public_key : i \in DOMAIN calls[c].batch} IN
    /\ calls[c].pc = "check"
    /\ \A i \in DOMAIN calls[c].batch : calls[c].checks[i].verdict # "unchecked"
    /\ preferences' =
        [k \in Keys |-> IF k \in updated THEN calls[c].batch[LastOf(NewFor(c, k))]
                        ELSE preferences[k]]
    /\ raced' = raced \cup {k \in updated :
            \/ Cardinality(NewFor(c, k)) > 1
            \/ \E i \in NewFor(c, k) : calls[c].checks[i].seen # preferences[k]}
    /\ accepted_at' = [k \in Keys |-> IF k \in updated THEN calls[c].time ELSE accepted_at[k]]
    /\ calls' = [calls EXCEPT ![c] = [IdleCall EXCEPT !.pc = "extend", !.updated = reported]]
    /\ UNCHANGED <<validators, outstanding, now, refresh, refreshed>>

\* process_registrations, second half: the updates are stored in the order of the batch, so
\* that the last one for a key stays.
StoreRegistrations(c) ==
    LET updated == {k \in Keys : NewFor(c, k) # {}} IN
    /\ calls[c].pc = "check"
    /\ \A i \in DOMAIN calls[c].batch : calls[c].checks[i].verdict # "unchecked"
    /\ preferences' =
        [k \in Keys |-> IF k \in updated THEN calls[c].batch[LastOf(NewFor(c, k))]
                        ELSE preferences[k]]
    /\ raced' = raced \cup {k \in updated :
            \/ Cardinality(NewFor(c, k)) > 1
            \/ \E i \in NewFor(c, k) : calls[c].checks[i].seen # preferences[k]}
    /\ accepted_at' = [k \in Keys |-> IF k \in updated THEN calls[c].time ELSE accepted_at[k]]
    /\ calls' = [calls EXCEPT ![c] = [IdleCall EXCEPT !.pc = "extend", !.updated = updated]]
    /\ UNCHANGED <<validators, outstanding, now, refresh, refreshed>>

\* Mutant of ExtendOutstanding: the new keys replace the outstanding ones.
ReplaceOutstanding(c) ==
    /\ calls[c].pc = "extend"
    /\ outstanding' = calls[c].updated
    /\ calls' = [calls EXCEPT ![c] = IdleCall]
    /\ UNCHANGED <<validators, preferences, now, refresh, raced, refreshed, accepted_at>>

\* The relay's own lock is taken after the registry's was released; then the call returns.
ExtendOutstanding(c) ==
    /\ calls[c].pc = "extend"
    /\ outstanding' = outstanding \cup calls[c].updated
    /\ calls' = [calls EXCEPT ![c] = IdleCall]
    /\ UNCHANGED <<validators, preferences, now, refresh, raced, refreshed, accepted_at>>

----------------------------------------------------------------------------
CallNext(c) ==
    \/ \E i \in DOMAIN calls[c].batch : ProcessRegistration(c, i)
    \/ StoreRegistrations(c)
    \/ ExtendOutstanding(c)

Next ==
    \/ \E summaries \in [Keys -> Statuses \cup {None}] : OnEpoch(summaries)
    \/ OnSlotDrain
    \/ OnSlotRefresh
    \/ \E c \in Calls : CallNext(c) \/ \E batch \in Batches : RegisterValidators(c, batch)

(***************************************************************************)
(* Calls are polled until they return, and the clock task comes to every   *)
(* slot.  Clients need not send anything.                                  *)
(***************************************************************************)
Fairness ==
    /\ \A c \in Calls : WF_vars(CallNext(c))
    /\ WF_vars(OnSlotDrain)
    /\ WF_vars(OnSlotRefresh)

Spec == Init /\ [][Next]_vars /\ Fairness

----------------------------------------------------------------------------
(* Properties *)

\* A stored registration is filed under its own key, was signed by it, and belongs to a
\* validator of the beacon state.
StoredIsAuthentic ==
    \A k \in Keys : preferences[k] # None =>
        /\ preferences[k].public_key = k
        /\ preferences[k].signed
        /\ validators[k] # None

\* A stored registration is only replaced by a later one, except for keys on which two
\* checks overlapped: in one batch, or in concurrent calls.
NewerUnlessRaced ==
    [][\A k \in Keys :
        preferences[k] # None /\ preferences'[k] # preferences[k] /\ k \notin raced' =>
            preferences'[k] # None /\ preferences'[k].timestamp > preferences[k].timestamp]_vars

\* FutureRegistration: a registration whose timestamp (in seconds) is ahead of the local
\* time by more than the tolerance is refused.
NotFromFuture ==
    \A k \in Keys : preferences[k] # None =>
        preferences[k].timestamp <= accepted_at[k] + FUTURE_TOLERANCE

\* Every update is followed by a refresh of the proposer schedule that can read it, or a
\* later registration takes its place.
UpdatesReachRefresh ==
    \A k \in Keys : preferences[k] # refreshed[k] ~> preferences[k] = refreshed[k]

=============================================================================
