---------------------- MODULE ValidatorRegistryProofs ----------------------
(***************************************************************************)
(* What ValidatorRegistry guarantees for any number of validators, batches *)
(* and concurrent calls of register_validators.                            *)
(***************************************************************************)
EXTENDS ValidatorRegistry, WellFoundedInduction, TLAPS

----------------------------------------------------------------------------
(* The last position of a batch *)

\* A set of positions has a last one.
LEMMA LastOfIsLast ==
    ASSUME NEW n \in Nat, NEW S, S \subseteq 1..n, S # {}
    PROVE  LastOf(S) \in S /\ \A j \in S : j <= LastOf(S)
<1> DEFINE T == {n - i : i \in S}
<1>1. T \subseteq Nat /\ T # {}
  <2>1. \A i \in S : n - i \in Nat
    OBVIOUS
  <2>2. PICK i \in S : TRUE
    OBVIOUS
  <2>3. n - i \in T
    OBVIOUS
  <2> QED
    BY <2>1, <2>3
<1>2. \E x \in T : \A y \in T : ~(<<y, x>> \in OpToRel(<, Nat))
  BY <1>1, NatLessThanWellFounded, WFMin
<1>3. PICK x \in T : \A y \in T : ~(y < x)
  BY <1>1, <1>2 DEF OpToRel
<1>4. PICK i \in S : x = n - i
  OBVIOUS
<1>5. \A j \in S : j <= i
  BY <1>3, <1>4
<1> QED
  BY <1>5 DEF LastOf

----------------------------------------------------------------------------
(* Types *)

Checks == [verdict : {"unchecked", "error", "existing", "new"}, seen : Registrations \cup {None}]

\* The local state of a call is a record, with one check per registration of its batch.
CallShape(c) ==
    \E b \in Batches \cup {<< >>} :
        calls[c] \in [pc : {"idle", "check", "extend"}, batch : {b}, time : 0..MaxTime,
                      checks : [DOMAIN b -> Checks], updated : SUBSET Keys]

CallsShape == DOMAIN calls = Calls /\ \A c \in Calls : CallShape(c)

\* The type invariant without the calls.
MapsTypeOK ==
    /\ validators \in [Keys -> Statuses \cup {None}]
    /\ preferences \in [Keys -> Registrations \cup {None}]
    /\ outstanding \subseteq Keys
    /\ now \in 0..MaxTime
    /\ refresh \in {"idle", "refresh"}
    /\ raced \subseteq Keys
    /\ refreshed \in [Keys -> Registrations \cup {None}]
    /\ accepted_at \in [Keys -> 0..MaxTime]

TypeInv == MapsTypeOK /\ CallsShape

\* The registrations of a batch name validators and sit at the positions 1, 2, ...
LEMMA BatchEntries ==
    ASSUME NEW b \in Batches \cup {<< >>}
    PROVE  /\ \E n \in Nat : DOMAIN b = 1..n
           /\ \A i \in DOMAIN b : b[i] \in Registrations /\ b[i].public_key \in Keys
<1>1. CASE b = << >>
  <2>1. DOMAIN b = 1..0
    BY <1>1
  <2> QED
    BY <2>1
<1>2. CASE b \in Batches
  <2>1. b \in Seq(Registrations)
    BY <1>2, RegistryAssumption
  <2>2. DOMAIN b = 1..Len(b) /\ Len(b) \in Nat
    BY <2>1
  <2>3. \A i \in DOMAIN b : b[i] \in Registrations
    BY <1>2 DEF Registrations
  <2>4. \A r \in Registrations : r.public_key \in Keys
    BY RegistryAssumption
  <2> QED
    BY <2>2, <2>3, <2>4
<1> QED
  BY <1>1, <1>2

LEMMA ShapeIsTyped ==
    ASSUME NEW c \in Calls, CallShape(c)
    PROVE  /\ calls[c].pc \in {"idle", "check", "extend"}
           /\ calls[c].batch \in Batches \cup {<< >>}
           /\ calls[c].time \in 0..MaxTime
           /\ calls[c].checks \in [DOMAIN calls[c].batch -> Checks]
           /\ calls[c].updated \subseteq Keys
BY DEF CallShape

LEMMA ShapesAreTyped ==
    ASSUME CallsShape
    PROVE  \A c \in Calls :
            /\ calls[c].pc \in {"idle", "check", "extend"}
            /\ calls[c].batch \in Batches \cup {<< >>}
            /\ calls[c].time \in 0..MaxTime
            /\ DOMAIN calls[c].checks = DOMAIN calls[c].batch
            /\ \A i \in DOMAIN calls[c].checks : calls[c].checks[i] \in Checks
            /\ calls[c].updated \subseteq Keys
BY ShapeIsTyped DEF CallsShape

LEMMA IdleShape ==
    ASSUME NEW c \in Calls, calls[c] = IdleCall
    PROVE  CallShape(c)
<1>1. << >> \in [DOMAIN << >> -> Checks]
  OBVIOUS
<1>2. 0 \in 0..MaxTime
  BY RegistryAssumption
<1> QED
  BY <1>1, <1>2 DEF CallShape, IdleCall

LEMMA InitTypes == Init => TypeInv
<1> SUFFICES ASSUME Init PROVE TypeInv
  OBVIOUS
<1>1. CallsShape
  BY IdleShape DEF Init, CallsShape
<1> QED
  BY <1>1, RegistryAssumption DEF Init, TypeInv, MapsTypeOK

\* The other calls keep their shape when one call moves.
LEMMA OneCallMoves ==
    ASSUME CallsShape, NEW c \in Calls, NEW record,
           calls' = [calls EXCEPT ![c] = record],
           \E b \in Batches \cup {<< >>} :
                record \in [pc : {"idle", "check", "extend"}, batch : {b}, time : 0..MaxTime,
                            checks : [DOMAIN b -> Checks], updated : SUBSET Keys]
    PROVE  CallsShape'
<1>1. DOMAIN calls' = Calls /\ \A d \in Calls : calls'[d] = IF d = c THEN record ELSE calls[d]
  BY DEF CallsShape
<1>2. ASSUME NEW d \in Calls PROVE CallShape(d)'
  BY <1>1 DEF CallsShape, CallShape
<1> QED
  BY <1>1, <1>2 DEF CallsShape

LEMMA RegisterTypes ==
    ASSUME TypeInv, NEW c \in Calls, NEW batch \in Batches, RegisterValidators(c, batch)
    PROVE  TypeInv'
<1> DEFINE record == [pc |-> "check", batch |-> batch, time |-> now',
                      checks |-> [i \in DOMAIN batch |-> Unchecked], updated |-> {}]
<1>1. MapsTypeOK'
  BY RegistryAssumption DEF RegisterValidators, MapsTypeOK, TypeInv
<1>2. [i \in DOMAIN batch |-> Unchecked] \in [DOMAIN batch -> Checks]
  BY DEF Unchecked, Checks
<1>3. calls' = [calls EXCEPT ![c] = record]
  BY DEF RegisterValidators
<1>4. record \in [pc : {"idle", "check", "extend"}, batch : {batch}, time : 0..MaxTime,
                  checks : [DOMAIN batch -> Checks], updated : SUBSET Keys]
  BY <1>1, <1>2 DEF MapsTypeOK
<1> HIDE DEF record
<1>5. CallsShape'
  BY <1>3, <1>4, OneCallMoves DEF TypeInv
<1> QED
  BY <1>1, <1>5 DEF TypeInv

LEMMA ProcessTypes ==
    ASSUME TypeInv, NEW c \in Calls, NEW i \in DOMAIN calls[c].batch, ProcessRegistration(c, i)
    PROVE  TypeInv'
<1> DEFINE b == calls[c].batch
           new == [verdict |-> Verdict(b[i], calls[c].time), seen |-> preferences[b[i].public_key]]
           checks == [calls[c].checks EXCEPT ![i] = new]
           record == [calls[c] EXCEPT !.checks = checks]
<1>1. MapsTypeOK'
  BY DEF ProcessRegistration, MapsTypeOK, TypeInv
<1>2. b \in Batches \cup {<< >>} /\ calls[c].checks \in [DOMAIN b -> Checks]
      /\ calls[c] \in [pc : {"idle", "check", "extend"}, batch : {b}, time : 0..MaxTime,
                       checks : [DOMAIN b -> Checks], updated : SUBSET Keys]
  BY DEF TypeInv, CallsShape, CallShape
<1>3. b[i].public_key \in Keys
  BY <1>2, BatchEntries
<1>4. new \in Checks
  <2>1. Verdict(b[i], calls[c].time) \in {"error", "existing", "new"}
    BY DEF Verdict
  <2>2. preferences[b[i].public_key] \in Registrations \cup {None}
    BY <1>3 DEF TypeInv, MapsTypeOK
  <2> QED
    BY <2>1, <2>2 DEF Checks
<1>5. calls' = [calls EXCEPT ![c] = record]
  BY DEF ProcessRegistration
<1> HIDE DEF new
<1>6. record \in [pc : {"idle", "check", "extend"}, batch : {b}, time : 0..MaxTime,
                  checks : [DOMAIN b -> Checks], updated : SUBSET Keys]
  BY <1>2, <1>4
<1> HIDE DEF record, b
<1>7. CallsShape'
  BY <1>2, <1>5, <1>6, OneCallMoves DEF TypeInv
<1> QED
  BY <1>1, <1>7 DEF TypeInv

\* The registration that is stored for an updated key is one of those found new for it.
LEMMA StoredIsNew ==
    ASSUME TypeInv, NEW c \in Calls, NEW k \in Keys, NewFor(c, k) # {}
    PROVE  /\ LastOf(NewFor(c, k)) \in NewFor(c, k)
           /\ LastOf(NewFor(c, k)) \in DOMAIN calls[c].batch
           /\ calls[c].batch[LastOf(NewFor(c, k))] \in Registrations
<1>1. calls[c].batch \in Batches \cup {<< >>}
  BY ShapesAreTyped DEF TypeInv
<1>2. PICK n \in Nat : DOMAIN calls[c].batch = 1..n
  BY <1>1, BatchEntries
<1>3. NewFor(c, k) \subseteq 1..n
  BY <1>2 DEF NewFor
<1>4. LastOf(NewFor(c, k)) \in NewFor(c, k)
  BY <1>3, LastOfIsLast
<1>5. LastOf(NewFor(c, k)) \in DOMAIN calls[c].batch
  BY <1>2, <1>3, <1>4
<1> QED
  BY <1>1, <1>4, <1>5, BatchEntries

LEMMA StoreTypes ==
    ASSUME TypeInv, NEW c \in Calls, StoreRegistrations(c)
    PROVE  TypeInv'
<1> DEFINE updated == {k \in Keys : NewFor(c, k) # {}}
           record == [IdleCall EXCEPT !.pc = "extend", !.updated = updated]
<1>1. preferences' \in [Keys -> Registrations \cup {None}]
  <2>1. preferences' = [k \in Keys |-> IF k \in updated THEN calls[c].batch[LastOf(NewFor(c, k))]
                                       ELSE preferences[k]]
    BY DEF StoreRegistrations
  <2>2. \A k \in Keys : k \in updated => calls[c].batch[LastOf(NewFor(c, k))] \in Registrations
    BY StoredIsNew
  <2> QED
    BY <2>1, <2>2 DEF TypeInv, MapsTypeOK
<1>2. MapsTypeOK'
  <2>1. UNCHANGED <<validators, outstanding, now, refresh, refreshed>>
    BY DEF StoreRegistrations
  <2>2. raced' \subseteq Keys
    BY DEF StoreRegistrations, TypeInv, MapsTypeOK
  <2>3. calls[c].time \in 0..MaxTime
    BY ShapesAreTyped DEF TypeInv
  <2>4. accepted_at' = [k \in Keys |-> IF k \in updated THEN calls[c].time ELSE accepted_at[k]]
    BY DEF StoreRegistrations
  <2>5. accepted_at' \in [Keys -> 0..MaxTime]
    BY <2>3, <2>4 DEF TypeInv, MapsTypeOK
  <2> QED
    BY <1>1, <2>1, <2>2, <2>5 DEF MapsTypeOK, TypeInv
<1>3. calls' = [calls EXCEPT ![c] = record]
  BY DEF StoreRegistrations
<1>4. record \in [pc : {"idle", "check", "extend"}, batch : {<< >>}, time : 0..MaxTime,
                  checks : [DOMAIN << >> -> Checks], updated : SUBSET Keys]
  <2>1. << >> \in [DOMAIN << >> -> Checks] /\ 0 \in 0..MaxTime /\ updated \subseteq Keys
    BY RegistryAssumption
  <2> HIDE DEF updated
  <2> QED
    BY <2>1 DEF IdleCall
<1> HIDE DEF record
<1>5. CallsShape'
  BY <1>3, <1>4, OneCallMoves DEF TypeInv
<1> QED
  BY <1>2, <1>5 DEF TypeInv

LEMMA ExtendTypes ==
    ASSUME TypeInv, NEW c \in Calls, ExtendOutstanding(c)
    PROVE  TypeInv'
<1>1. MapsTypeOK'
  BY ShapesAreTyped DEF ExtendOutstanding, MapsTypeOK, TypeInv
<1>2. calls' = [calls EXCEPT ![c] = IdleCall]
  BY DEF ExtendOutstanding
<1>3. IdleCall \in [pc : {"idle", "check", "extend"}, batch : {<< >>}, time : 0..MaxTime,
                    checks : [DOMAIN << >> -> Checks], updated : SUBSET Keys]
  <2>1. << >> \in [DOMAIN << >> -> Checks] /\ 0 \in 0..MaxTime
    BY RegistryAssumption
  <2> QED
    BY <2>1 DEF IdleCall
<1>4. CallsShape'
  BY <1>2, <1>3, OneCallMoves DEF TypeInv
<1> QED
  BY <1>1, <1>4 DEF TypeInv

\* The clock task leaves the calls alone.
EnvironmentNext ==
    \/ \E summaries \in [Keys -> Statuses \cup {None}] : OnEpoch(summaries)
    \/ OnSlotDrain
    \/ OnSlotRefresh

LEMMA NextTypes == TypeInv /\ [Next]_vars => TypeInv'
<1> SUFFICES ASSUME TypeInv, [Next]_vars PROVE TypeInv'
  OBVIOUS
<1>1. UNCHANGED calls => CallsShape'
  BY DEF TypeInv, CallsShape, CallShape
<1>2. CASE EnvironmentNext
  <2>1. UNCHANGED calls /\ MapsTypeOK'
    BY <1>2 DEF EnvironmentNext, OnEpoch, OnSlotDrain, OnSlotRefresh, MapsTypeOK, TypeInv
  <2> QED
    BY <1>1, <2>1 DEF TypeInv
<1>3. CASE UNCHANGED vars
  <2>1. MapsTypeOK' /\ UNCHANGED calls
    BY <1>3 DEF vars, MapsTypeOK, TypeInv
  <2> QED
    BY <1>1, <2>1 DEF TypeInv
<1> QED
  BY <1>2, <1>3, RegisterTypes, ProcessTypes, StoreTypes, ExtendTypes
  DEF Next, CallNext, EnvironmentNext

LEMMA TypesHold == Spec => []TypeInv
BY InitTypes, NextTypes, PTL DEF Spec

\* Keys on the way to the clock task have a stored registration, and keep one.
UpdatesAreStored ==
    /\ outstanding \subseteq RegisteredKeys
    /\ \A c \in Calls : calls[c].updated \subseteq RegisteredKeys

LEMMA StoredStep == TypeInv /\ UpdatesAreStored /\ [Next]_vars => UpdatesAreStored'
<1> SUFFICES ASSUME TypeInv, UpdatesAreStored, [Next]_vars PROVE UpdatesAreStored'
  OBVIOUS
<1>0. DOMAIN calls = Calls
  BY DEF TypeInv, CallsShape
<1>1. ASSUME UNCHANGED <<calls, preferences>>, outstanding' \in {outstanding, {}}
      PROVE  UpdatesAreStored'
  BY <1>1 DEF UpdatesAreStored, RegisteredKeys
<1>2. CASE EnvironmentNext
  BY <1>1, <1>2 DEF EnvironmentNext, OnEpoch, OnSlotDrain, OnSlotRefresh
<1>3. ASSUME NEW c \in Calls, NEW batch \in Batches, RegisterValidators(c, batch)
      PROVE  UpdatesAreStored'
  <2>1. UNCHANGED <<preferences, outstanding>>
        /\ \A d \in Calls : calls'[d].updated = IF d = c THEN {} ELSE calls[d].updated
    BY <1>0, <1>3 DEF RegisterValidators
  <2> QED
    BY <2>1 DEF UpdatesAreStored, RegisteredKeys
<1>4. ASSUME NEW c \in Calls, NEW i \in DOMAIN calls[c].batch, ProcessRegistration(c, i)
      PROVE  UpdatesAreStored'
  <2>1. PICK new : calls' = [calls EXCEPT ![c].checks[i] = new]
    BY <1>4 DEF ProcessRegistration
  <2>2. PICK b : calls[c] \in [pc : {"idle", "check", "extend"}, batch : {b}, time : 0..MaxTime,
                                checks : [DOMAIN b -> Checks], updated : SUBSET Keys]
    BY DEF TypeInv, CallsShape, CallShape
  <2>3. UNCHANGED <<preferences, outstanding>>
        /\ \A d \in Calls : calls'[d].updated = calls[d].updated
    BY <1>0, <1>4, <2>1, <2>2 DEF ProcessRegistration
  <2> QED
    BY <2>3 DEF UpdatesAreStored, RegisteredKeys
<1>5. ASSUME NEW c \in Calls, StoreRegistrations(c) PROVE UpdatesAreStored'
  <2> DEFINE updated == {k \in Keys : NewFor(c, k) # {}}
  <2>1. UNCHANGED outstanding
        /\ calls' = [calls EXCEPT ![c] = [IdleCall EXCEPT !.pc = "extend", !.updated = updated]]
        /\ preferences' = [k \in Keys |-> IF k \in updated
                                           THEN calls[c].batch[LastOf(NewFor(c, k))]
                                           ELSE preferences[k]]
    BY <1>5 DEF StoreRegistrations
  <2>2. \A k \in Keys : k \in updated => calls[c].batch[LastOf(NewFor(c, k))] \in Registrations
    BY StoredIsNew
  <2>3. updated \subseteq Keys
    OBVIOUS
  <2> HIDE DEF updated
  <2>4. \A d \in Calls : calls'[d].updated = IF d = c THEN updated ELSE calls[d].updated
    BY <1>0, <2>1 DEF IdleCall
  <2>5. updated \cup RegisteredKeys \subseteq RegisteredKeys'
    BY <2>1, <2>2, <2>3, RegistryAssumption DEF RegisteredKeys
  <2> QED
    BY <2>1, <2>4, <2>5 DEF UpdatesAreStored
<1>6. ASSUME NEW c \in Calls, ExtendOutstanding(c) PROVE UpdatesAreStored'
  <2>1. /\ UNCHANGED preferences /\ outstanding' = outstanding \cup calls[c].updated
        /\ \A d \in Calls : calls'[d].updated = IF d = c THEN {} ELSE calls[d].updated
    BY <1>0, <1>6 DEF ExtendOutstanding, IdleCall
  <2> QED
    BY <2>1 DEF UpdatesAreStored, RegisteredKeys
<1>7. CASE UNCHANGED vars
  BY <1>1, <1>7 DEF vars
<1> QED
  BY <1>2, <1>3, <1>4, <1>5, <1>6, <1>7 DEF Next, CallNext, EnvironmentNext

\* The registry keeps its shape: what is stored for a key is a registration that some batch
\* contained, every call has one check per registration of its batch, and whatever
\* register_validators reports to the clock task is stored by then and for good.
THEOREM TypeCorrect == Spec => []TypeOK
<1>1. Init => UpdatesAreStored
  BY DEF Init, IdleCall, UpdatesAreStored
<1>2. TypeInv /\ UpdatesAreStored => TypeOK
  BY ShapesAreTyped DEF TypeInv, MapsTypeOK, UpdatesAreStored, TypeOK, Checks
<1> QED
  BY <1>1, <1>2, TypesHold, StoredStep, PTL DEF Spec

----------------------------------------------------------------------------
(* Stored registrations are authentic, and replaced by later ones *)

\* A registration that a check found new was signed, belongs to a validator that the beacon
\* node has reported, and is later than the entry the check read.
NewIsChecked ==
    \A c \in Calls : \A i \in DOMAIN calls[c].batch :
        calls[c].checks[i].verdict = "new" =>
            /\ calls[c].batch[i].signed
            /\ validators[calls[c].batch[i].public_key] # None
            /\ IsNew(calls[c].batch[i], calls[c].checks[i].seen)

AuthenticInv == NewIsChecked /\ StoredIsAuthentic

LEMMA AuthenticInit == Init => AuthenticInv
<1> SUFFICES ASSUME Init PROVE AuthenticInv
  OBVIOUS
<1>1. \A c \in Calls : calls[c].batch = << >>
  BY DEF Init, IdleCall
<1>2. NewIsChecked
  BY <1>1 DEF NewIsChecked
<1> QED
  BY <1>2 DEF Init, AuthenticInv, StoredIsAuthentic

LEMMA AuthenticStep == TypeInv /\ AuthenticInv /\ [Next]_vars => AuthenticInv'
<1> SUFFICES ASSUME TypeInv, AuthenticInv, [Next]_vars PROVE AuthenticInv'
  OBVIOUS
<1>0. /\ DOMAIN calls = Calls
      /\ \A c \in Calls : /\ calls[c].batch \in Batches \cup {<< >>}
                          /\ calls[c].checks \in [DOMAIN calls[c].batch -> Checks]
  BY ShapeIsTyped DEF TypeInv, CallsShape
<1>1. ASSUME NEW summaries \in [Keys -> Statuses \cup {None}], OnEpoch(summaries)
      PROVE  AuthenticInv'
  <2>1. UNCHANGED <<calls, preferences>>
    BY <1>1 DEF OnEpoch
  <2>2. \A k \in Keys : validators[k] # None => validators'[k] # None
    BY <1>1 DEF OnEpoch
  <2>3. \A c \in Calls : \A i \in DOMAIN calls[c].batch : calls[c].batch[i].public_key \in Keys
    BY <1>0, BatchEntries
  <2>4. NewIsChecked'
    BY <2>1, <2>2, <2>3 DEF AuthenticInv, NewIsChecked
  <2> QED
    BY <2>1, <2>2, <2>4 DEF AuthenticInv, StoredIsAuthentic
<1>2. ASSUME UNCHANGED <<calls, preferences, validators>>
      PROVE  AuthenticInv'
  BY <1>2 DEF AuthenticInv, NewIsChecked, StoredIsAuthentic
<1>3. ASSUME NEW c \in Calls, NEW batch \in Batches, RegisterValidators(c, batch)
      PROVE  AuthenticInv'
  <2>1. UNCHANGED <<preferences, validators>>
    BY <1>3 DEF RegisterValidators
  <2>2. \A d \in Calls : d # c => calls'[d] = calls[d]
    BY <1>0, <1>3 DEF RegisterValidators
  <2>3. calls'[c].batch = batch /\ calls'[c].checks = [i \in DOMAIN batch |-> Unchecked]
    BY <1>0, <1>3 DEF RegisterValidators
  <2>4. \A i \in DOMAIN batch : calls'[c].checks[i].verdict = "unchecked"
    BY <2>3 DEF Unchecked
  <2>5. NewIsChecked'
    BY <2>1, <2>2, <2>3, <2>4 DEF AuthenticInv, NewIsChecked
  <2> QED
    BY <2>1, <2>5 DEF AuthenticInv, StoredIsAuthentic
<1>4. ASSUME NEW c \in Calls, NEW i \in DOMAIN calls[c].batch, ProcessRegistration(c, i)
      PROVE  AuthenticInv'
  <2> DEFINE b == calls[c].batch
             seen == preferences[b[i].public_key]
             new == [verdict |-> Verdict(b[i], calls[c].time), seen |-> seen]
  <2>1. UNCHANGED <<preferences, validators>>
    BY <1>4 DEF ProcessRegistration
  <2>2. calls' = [calls EXCEPT ![c].checks[i] = new]
    BY <1>4 DEF ProcessRegistration
  <2>3. \A d \in Calls : d # c => calls'[d] = calls[d]
    BY <1>0, <2>2
  <2>4. ASSUME Verdict(b[i], calls[c].time) = "new"
        PROVE  b[i].signed /\ validators[b[i].public_key] # None /\ IsNew(b[i], seen)
    BY <2>4, RegistryAssumption DEF Verdict, HasValidStatus
  <2> HIDE DEF new
  <2>5. calls[c] \in [pc : {"idle", "check", "extend"}, batch : {b}, time : 0..MaxTime,
                      checks : [DOMAIN b -> Checks], updated : SUBSET Keys]
    BY DEF TypeInv, CallsShape, CallShape
  <2>6. /\ calls'[c].batch = b
        /\ \A j \in DOMAIN b : calls'[c].checks[j] = IF j = i THEN new ELSE calls[c].checks[j]
    BY <1>0, <2>2, <2>5
  <2> HIDE DEF b
  <2>7. NewIsChecked'
    <3> SUFFICES ASSUME NEW d \in Calls, NEW j \in DOMAIN calls'[d].batch,
                        calls'[d].checks[j].verdict = "new"
                 PROVE  /\ calls'[d].batch[j].signed
                        /\ validators[calls'[d].batch[j].public_key] # None
                        /\ IsNew(calls'[d].batch[j], calls'[d].checks[j].seen)
      BY <2>1 DEF NewIsChecked, IsNew
    <3>1. CASE d # c
      BY <2>3, <3>1 DEF AuthenticInv, NewIsChecked
    <3>2. CASE d = c /\ j # i
      BY <2>6, <3>2 DEF AuthenticInv, NewIsChecked, b
    <3>3. CASE d = c /\ j = i
      BY <2>4, <2>6, <3>3 DEF new
    <3> QED
      BY <3>1, <3>2, <3>3
  <2> QED
    BY <2>1, <2>7 DEF AuthenticInv, StoredIsAuthentic
<1>5. ASSUME NEW c \in Calls, StoreRegistrations(c) \/ ExtendOutstanding(c)
      PROVE  NewIsChecked'
  <2>1. \A d \in Calls : d # c => calls'[d] = calls[d]
    BY <1>0, <1>5 DEF StoreRegistrations, ExtendOutstanding
  <2>2. calls'[c].batch = << >>
    <3>1. PICK u : calls' = [calls EXCEPT ![c] = [IdleCall EXCEPT !.pc = "extend", !.updated = u]]
                   \/ calls' = [calls EXCEPT ![c] = IdleCall]
      BY <1>5 DEF StoreRegistrations, ExtendOutstanding
    <3>2. calls'[c] \in {[IdleCall EXCEPT !.pc = "extend", !.updated = u], IdleCall}
      BY <1>0, <3>1
    <3>3. IdleCall.batch = << >> /\ [IdleCall EXCEPT !.pc = "extend", !.updated = u].batch = << >>
      BY DEF IdleCall
    <3> QED
      BY <3>2, <3>3
  <2>3. UNCHANGED validators
    BY <1>5 DEF StoreRegistrations, ExtendOutstanding
  <2> QED
    BY <2>1, <2>2, <2>3 DEF AuthenticInv, NewIsChecked
<1>6. ASSUME NEW c \in Calls, StoreRegistrations(c)
      PROVE  StoredIsAuthentic'
  <2> SUFFICES ASSUME NEW k \in Keys, preferences'[k] # None
               PROVE  /\ preferences'[k].public_key = k
                      /\ preferences'[k].signed
                      /\ validators'[k] # None
    BY DEF StoredIsAuthentic
  <2>1. UNCHANGED validators
    BY <1>6 DEF StoreRegistrations
  <2>2. preferences'[k] = IF NewFor(c, k) # {} THEN calls[c].batch[LastOf(NewFor(c, k))]
                          ELSE preferences[k]
    BY <1>6 DEF StoreRegistrations
  <2>3. CASE NewFor(c, k) # {}
    <3>1. LastOf(NewFor(c, k)) \in NewFor(c, k)
      BY <2>3, StoredIsNew
    <3> QED
      BY <2>1, <2>2, <2>3, <3>1 DEF NewFor, AuthenticInv, NewIsChecked
  <2>4. CASE NewFor(c, k) = {}
    BY <2>1, <2>2, <2>4 DEF AuthenticInv, StoredIsAuthentic
  <2> QED
    BY <2>3, <2>4
<1>7. ASSUME NEW c \in Calls, ExtendOutstanding(c)
      PROVE  AuthenticInv'
  BY <1>5, <1>7 DEF ExtendOutstanding, AuthenticInv, StoredIsAuthentic
<1>8. CASE OnSlotDrain \/ OnSlotRefresh \/ UNCHANGED vars
  BY <1>2, <1>8 DEF OnSlotDrain, OnSlotRefresh, vars
<1> QED
  BY <1>1, <1>3, <1>4, <1>5, <1>6, <1>7, <1>8 DEF Next, CallNext, AuthenticInv

LEMMA AuthenticHolds == Spec => []AuthenticInv
BY TypesHold, AuthenticInit, AuthenticStep, PTL DEF Spec

\* A stored registration was signed with the key it is filed under, and the key is a
\* validator's: whatever the calls, batches and reports of the beacon node that overlapped.
THEOREM StoredAuthentic == Spec => []StoredIsAuthentic
<1>1. AuthenticInv => StoredIsAuthentic
  BY DEF AuthenticInv
<1> QED
  BY <1>1, AuthenticHolds, PTL

\* What a step may do to the stored registrations.
ReplacesByNewer ==
    \A k \in Keys :
        preferences[k] # None /\ preferences'[k] # preferences[k] /\ k \notin raced' =>
            preferences'[k] # None /\ preferences'[k].timestamp > preferences[k].timestamp

LEMMA ReplaceStep == TypeInv /\ AuthenticInv /\ [Next]_vars => ReplacesByNewer
<1> SUFFICES ASSUME TypeInv, AuthenticInv, [Next]_vars PROVE ReplacesByNewer
  OBVIOUS
<1>1. ASSUME NEW c \in Calls, StoreRegistrations(c)
      PROVE  ReplacesByNewer
  <2> SUFFICES ASSUME NEW k \in Keys, preferences[k] # None, preferences'[k] # preferences[k],
                      k \notin raced'
               PROVE  preferences'[k] # None
                      /\ preferences'[k].timestamp > preferences[k].timestamp
    BY DEF ReplacesByNewer
  <2> DEFINE i == LastOf(NewFor(c, k))
  <2>1. NewFor(c, k) # {} /\ preferences'[k] = calls[c].batch[i]
    BY <1>1 DEF StoreRegistrations
  <2>2. i \in NewFor(c, k) /\ calls[c].batch[i] \in Registrations
    BY <2>1, StoredIsNew
  <2>3. calls[c].checks[i].seen = preferences[k]
    BY <1>1, <2>1, <2>2 DEF StoreRegistrations
  <2>4. IsNew(calls[c].batch[i], preferences[k])
    BY <2>2, <2>3 DEF NewFor, AuthenticInv, NewIsChecked
  <2>5. preferences'[k] # None
    BY <2>1, <2>2, RegistryAssumption
  <2> QED
    BY <2>1, <2>4, <2>5 DEF IsNew
<1>2. ASSUME UNCHANGED preferences
      PROVE  ReplacesByNewer
  BY <1>2 DEF ReplacesByNewer
<1>3. ASSUME NEW c \in Calls, NEW batch \in Batches, RegisterValidators(c, batch)
      PROVE  ReplacesByNewer
  BY <1>2, <1>3 DEF RegisterValidators
<1>4. ASSUME NEW c \in Calls, NEW i \in DOMAIN calls[c].batch, ProcessRegistration(c, i)
      PROVE  ReplacesByNewer
  BY <1>2, <1>4 DEF ProcessRegistration
<1>5. ASSUME NEW c \in Calls, ExtendOutstanding(c)
      PROVE  ReplacesByNewer
  BY <1>2, <1>5 DEF ExtendOutstanding
<1>6. CASE EnvironmentNext \/ UNCHANGED vars
  BY <1>2, <1>6 DEF EnvironmentNext, OnEpoch, OnSlotDrain, OnSlotRefresh, vars
<1> QED
  BY <1>1, <1>3, <1>4, <1>5, <1>6 DEF Next, CallNext, EnvironmentNext

\* A stored registration gives way to a later one only, unless two checks for its key
\* overlapped.
THEOREM ReplacedByNewer == Spec => NewerUnlessRaced
<1>1. NewerUnlessRaced <=> [][ReplacesByNewer]_vars
  BY DEF NewerUnlessRaced, ReplacesByNewer
<1>2. TypeInv /\ AuthenticInv /\ [Next]_vars => [ReplacesByNewer]_vars
  BY ReplaceStep
<1> QED
  BY <1>1, <1>2, TypesHold, AuthenticHolds, PTL DEF Spec

=============================================================================
