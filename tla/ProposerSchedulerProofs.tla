---------------------- MODULE ProposerSchedulerProofs ----------------------
(* Proofs about ProposerScheduler, for all lengths of an epoch, duties and bounds. *)
EXTENDS ProposerScheduler, FiniteSetTheorems, SequenceTheorems, TLAPS

(***************************************************************************)
(* Vec::retain.                                                            *)
(***************************************************************************)

UpTo(kept, i) == {j \in kept : j <= i}

\* The indices that are kept are counted without gaps.
LEMMA EveryRank ==
    ASSUME NEW n \in Nat, NEW kept \in SUBSET (1..n)
    PROVE  /\ Cardinality(kept) \in Nat
           /\ \A i \in kept : Cardinality(UpTo(kept, i)) \in 1..Cardinality(kept)
           /\ \A i, j \in kept : i < j => Cardinality(UpTo(kept, i)) < Cardinality(UpTo(kept, j))
           /\ \A k \in 1..Cardinality(kept) : \E i \in kept : Cardinality(UpTo(kept, i)) = k
<1> DEFINE size == Cardinality(kept)
           rank == [i \in kept |-> Cardinality(UpTo(kept, i))]
<1>1. IsFiniteSet(kept) /\ size \in Nat
    <2>1. IsFiniteSet(1..n)
        BY FS_Interval
    <2> QED
        BY <2>1, FS_Subset, FS_CardinalityType
<1>2. \A i \in kept : /\ IsFiniteSet(UpTo(kept, i))
                      /\ Cardinality(UpTo(kept, i)) \in Nat
                      /\ Cardinality(UpTo(kept, i)) <= size
    BY <1>1, FS_Subset, FS_CardinalityType DEF UpTo
<1>3. \A i \in kept : Cardinality(UpTo(kept, i)) # 0
    <2> SUFFICES ASSUME NEW i \in kept PROVE Cardinality(UpTo(kept, i)) # 0
        OBVIOUS
    <2>1. i \in UpTo(kept, i)
        BY DEF UpTo
    <2> QED
        BY <1>2, <2>1, FS_EmptySet
<1>4. \A i \in kept : Cardinality(UpTo(kept, i)) \in 1..size
    BY <1>1, <1>2, <1>3
<1>5. ASSUME NEW i \in kept, NEW j \in kept, i < j
      PROVE  Cardinality(UpTo(kept, i)) < Cardinality(UpTo(kept, j))
    <2>1. UpTo(kept, i) \in SUBSET UpTo(kept, j) /\ j \in UpTo(kept, j) /\ j \notin UpTo(kept, i)
        <3>1. i \in Nat /\ j \in Nat /\ \A x \in kept : x \in Nat
            OBVIOUS
        <3>2. \A x \in UpTo(kept, i) : x \in UpTo(kept, j)
            BY <1>5, <3>1 DEF UpTo
        <3>3. j \in UpTo(kept, j) /\ j \notin UpTo(kept, i)
            BY <1>5, <3>1 DEF UpTo
        <3> QED
            BY <3>2, <3>3
    <2>2. UpTo(kept, i) # UpTo(kept, j)
        BY <2>1
    <2>3. /\ Cardinality(UpTo(kept, i)) <= Cardinality(UpTo(kept, j))
          /\ Cardinality(UpTo(kept, j)) # Cardinality(UpTo(kept, i))
        BY <1>2, <2>1, <2>2, FS_Subset
    <2> QED
        BY <1>2, <2>3
<1>6. rank \in Injection(kept, 1..size)
    <2>1. rank \in [kept -> 1..size]
        BY <1>4
    <2>2. \A i, j \in kept : rank[i] = rank[j] => i = j
        <3> SUFFICES ASSUME NEW i \in kept, NEW j \in kept, i # j PROVE rank[i] # rank[j]
            OBVIOUS
        <3>1. i < j \/ j < i
            OBVIOUS
        <3> QED
            BY <1>2, <1>5, <3>1
    <2> QED
        BY <2>1, <2>2 DEF Injection, IsInjective
<1>7. Cardinality(1..size) = size /\ IsFiniteSet(1..size)
    BY <1>1, FS_Interval
<1>8. rank \in Surjection(kept, 1..size)
    BY <1>6, <1>7, FS_Injection
<1>9. \A k \in 1..size : \E i \in kept : rank[i] = k
    BY <1>8 DEF Surjection
<1> QED
    BY <1>1, <1>4, <1>5, <1>9

\* index is where the elements of result come from: all indices that are kept, in their order.
Enumerates(index, kept, seq, result) ==
    /\ Len(result) \in Nat
    /\ index \in [1..Len(result) -> kept]
    /\ \A k \in 1..Len(result) : result[k] = seq[index[k]]
    /\ \A k, l \in 1..Len(result) : k < l => index[k] < index[l]
    /\ \A i \in kept : \E k \in 1..Len(result) : index[k] = i

\* Retain gives what is at the indices kept, all of it and in the order it had.
LEMMA RetainFacts ==
    ASSUME NEW S, NEW seq \in Seq(S), NEW kept \in SUBSET DOMAIN seq
    PROVE  /\ Retain(seq, kept) \in Seq(S)
           /\ \E index : Enumerates(index, kept, seq, Retain(seq, kept))
<1> DEFINE size == Cardinality(kept)
           Rank(i) == Cardinality(UpTo(kept, i))
           Index(k) == CHOOSE i \in kept : Rank(i) = k
           index == [k \in 1..size |-> Index(k)]
<1>1. Len(seq) \in Nat /\ DOMAIN seq = 1..Len(seq) /\ \A i \in DOMAIN seq : seq[i] \in S
    BY LenProperties, ElementOfSeq
<1>2. /\ size \in Nat
      /\ \A i \in kept : Rank(i) \in 1..size
      /\ \A i, j \in kept : i < j => Rank(i) < Rank(j)
      /\ \A k \in 1..size : \E i \in kept : Rank(i) = k
    BY <1>1, EveryRank
<1> HIDE DEF Rank, size
<1>3. \A k \in 1..size : Index(k) \in kept /\ Rank(Index(k)) = k
    BY <1>2
<1> HIDE DEF Index
<1>4. \A i \in kept : i \in Nat
    BY <1>1
<1>5. \A k, l \in 1..size : k < l => Index(k) < Index(l)
    <2> SUFFICES ASSUME NEW k \in 1..size, NEW l \in 1..size, k < l, ~(Index(k) < Index(l))
                 PROVE  FALSE
        OBVIOUS
    <2>1. /\ Index(k) \in kept /\ Index(l) \in kept /\ Rank(Index(k)) = k /\ Rank(Index(l)) = l
          /\ Index(k) \in Nat /\ Index(l) \in Nat
        BY <1>3, <1>4
    <2>2. Index(l) < Index(k) \/ Index(l) = Index(k)
        BY <2>1
    <2>3. Index(l) < Index(k) => l < k
        BY <1>2, <2>1
    <2> QED
        BY <1>2, <2>1, <2>2, <2>3
<1>6. \A i \in kept : \E k \in 1..size : Index(k) = i
    <2> SUFFICES ASSUME NEW i \in kept PROVE Index(Rank(i)) = i
        BY <1>2
    <2>1. Index(Rank(i)) \in kept /\ Rank(Index(Rank(i))) = Rank(i)
        BY <1>2, <1>3
    <2>2. Index(Rank(i)) < i \/ i < Index(Rank(i)) \/ Index(Rank(i)) = i
        BY <1>4, <2>1
    <2>3. Rank(i) \in 1..size
        BY <1>2
    <2> QED
        BY <1>2, <2>1, <2>2, <2>3
<1>7. Retain(seq, kept) = [k \in 1..size |-> seq[Index(k)]]
    BY DEF Retain, Index, Rank, size, UpTo
<1>8. \A k \in 1..size : seq[Index(k)] \in S
    BY <1>1, <1>3
<1>9. Retain(seq, kept) \in Seq(S) /\ Len(Retain(seq, kept)) = size
    BY <1>2, <1>7, <1>8
<1>10. index \in [1..size -> kept]
    BY <1>3
<1>11. \A k \in 1..size : Retain(seq, kept)[k] = seq[index[k]] /\ index[k] = Index(k)
    BY <1>7
<1>12. Enumerates(index, kept, seq, Retain(seq, kept))
    <2> HIDE DEF index
    <2> QED
        BY <1>2, <1>5, <1>6, <1>9, <1>10, <1>11 DEF Enumerates
<1> QED
    BY <1>9, <1>12

----------------------------------------------------------------------------
(***************************************************************************)
(* Slots and epochs.                                                       *)
(***************************************************************************)

\* An epoch has SLOTS_PER_EPOCH slots, and epochs are in the order of their slots.
LEMMA EpochFacts ==
    /\ \A e \in Nat : FirstSlot(e) \in Nat /\ FirstSlot(e + 1) = FirstSlot(e) + SLOTS_PER_EPOCH
    /\ \A d, e \in Nat : d <= e => FirstSlot(d) <= FirstSlot(e)
    /\ SLOTS_PER_EPOCH \in Nat /\ SLOTS_PER_EPOCH >= 1
<1>1. SLOTS_PER_EPOCH \in Nat /\ SLOTS_PER_EPOCH >= 1
    BY SchedulerAssumption
<1>2. \A e \in Nat : e * SLOTS_PER_EPOCH \in Nat
    BY <1>1, SMTT(30)
<1>3. \A e \in Nat : (e + 1) * SLOTS_PER_EPOCH = e * SLOTS_PER_EPOCH + SLOTS_PER_EPOCH
    BY <1>1, SMTT(30)
<1>4. ASSUME NEW d \in Nat, NEW e \in Nat, d <= e
      PROVE  d * SLOTS_PER_EPOCH <= e * SLOTS_PER_EPOCH
    <2>1. (e - d) * SLOTS_PER_EPOCH \in Nat
        BY <1>2, <1>4
    <2>2. e * SLOTS_PER_EPOCH = d * SLOTS_PER_EPOCH + (e - d) * SLOTS_PER_EPOCH
        BY <1>1, <1>4, SMTT(30)
    <2> QED
        BY <1>2, <2>1, <2>2
<1> QED
    BY <1>1, <1>2, <1>3, <1>4 DEF FirstSlot

\* A slot is a slot of its epoch.
LEMMA EpochOfSlot ==
    ASSUME NEW s \in Nat
    PROVE  /\ EpochOf(s) \in Nat
           /\ FirstSlot(EpochOf(s)) <= s
           /\ s < FirstSlot(EpochOf(s) + 1)
<1>1. SLOTS_PER_EPOCH \in Nat /\ SLOTS_PER_EPOCH >= 1
    BY SchedulerAssumption
<1>2. s \div SLOTS_PER_EPOCH \in Nat
    BY <1>1, SMTT(30)
<1>3. /\ s = SLOTS_PER_EPOCH * (s \div SLOTS_PER_EPOCH) + (s % SLOTS_PER_EPOCH)
      /\ s % SLOTS_PER_EPOCH \in 0..(SLOTS_PER_EPOCH - 1)
    BY <1>1, SMTT(30)
<1>4. SLOTS_PER_EPOCH * (s \div SLOTS_PER_EPOCH) = FirstSlot(EpochOf(s))
    BY <1>1, <1>2, SMTT(30) DEF FirstSlot, EpochOf
<1>5. EpochOf(s) \in Nat
    BY <1>2 DEF EpochOf
<1>6. /\ FirstSlot(EpochOf(s)) \in Nat
      /\ FirstSlot(EpochOf(s) + 1) = FirstSlot(EpochOf(s)) + SLOTS_PER_EPOCH
    BY <1>5, EpochFacts
<1>7. s = FirstSlot(EpochOf(s)) + (s % SLOTS_PER_EPOCH)
    BY <1>3, <1>4
<1> DEFINE rest == s % SLOTS_PER_EPOCH
<1> HIDE DEF rest
<1>8. s = FirstSlot(EpochOf(s)) + rest /\ rest \in 0..(SLOTS_PER_EPOCH - 1)
    BY <1>3, <1>7 DEF rest
<1> QED
    BY <1>1, <1>5, <1>6, <1>8

\* The duties of a slot's epoch and of the next are known.
LEMMA DutiesKnown ==
    /\ DOMAIN Duty = 0..(FirstSlot(MaxEpoch + 2) - 1)
    /\ \A s \in DOMAIN Duty : Duty[s] \in Proposers
    /\ Slots \subseteq DOMAIN Duty
    /\ \A s \in Slots : s \in Nat /\ EpochOf(s) \in Nat /\ EpochOf(s) <= MaxEpoch
<1>1. MaxEpoch \in Nat
    BY SchedulerAssumption
<1>2. DOMAIN Duty = 0..(FirstSlot(MaxEpoch + 2) - 1) /\ \A s \in DOMAIN Duty : Duty[s] \in Proposers
    BY SchedulerAssumption DEF FirstSlot
<1>3. Slots = 0..(FirstSlot(MaxEpoch + 1) - 1)
    BY DEF Slots, FirstSlot
<1>4. FirstSlot(MaxEpoch + 1) <= FirstSlot(MaxEpoch + 2)
      /\ FirstSlot(MaxEpoch + 1) \in Nat /\ FirstSlot(MaxEpoch + 2) \in Nat
    BY <1>1, EpochFacts
<1>5. Slots \subseteq DOMAIN Duty
    BY <1>2, <1>3, <1>4
<1>6. ASSUME NEW s \in Slots PROVE s \in Nat /\ EpochOf(s) \in Nat /\ EpochOf(s) <= MaxEpoch
    <2>1. s \in Nat /\ s < FirstSlot(MaxEpoch + 1)
        BY <1>3, <1>4
    <2>2. EpochOf(s) \in Nat /\ FirstSlot(EpochOf(s)) <= s
        BY <2>1, EpochOfSlot
    <2>3. ASSUME ~(EpochOf(s) <= MaxEpoch) PROVE FALSE
        <3>1. MaxEpoch + 1 <= EpochOf(s)
            BY <1>1, <2>2, <2>3
        <3>2. FirstSlot(MaxEpoch + 1) <= FirstSlot(EpochOf(s)) /\ FirstSlot(EpochOf(s)) \in Nat
            BY <1>1, <2>2, <3>1, EpochFacts
        <3> QED
            BY <1>4, <2>1, <2>2, <3>2
    <2> QED
        BY <2>1, <2>2, <2>3
<1> QED
    BY <1>2, <1>5, <1>6

\* The beacon node's answer for an epoch has a duty for each slot of it, in their order.
ValidatorDuties == [slot : DOMAIN Duty, validator_index : Proposers]

LEMMA AnswerFacts ==
    ASSUME NEW e \in Nat, e <= MaxEpoch + 1
    PROVE  /\ ProposerDuties(e) \in Seq(ValidatorDuties)
           /\ Len(ProposerDuties(e)) = SLOTS_PER_EPOCH
           /\ \A i \in 1..SLOTS_PER_EPOCH :
                /\ ProposerDuties(e)[i].slot = FirstSlot(e) + i - 1
                /\ ProposerDuties(e)[i].slot \in SlotsOf(e)
                /\ ProposerDuties(e)[i].validator_index = Duty[ProposerDuties(e)[i].slot]
           /\ \A s \in SlotsOf(e) : \E i \in 1..SLOTS_PER_EPOCH : ProposerDuties(e)[i].slot = s
           /\ SlotsOf(e) \subseteq DOMAIN Duty
<1>1. /\ SLOTS_PER_EPOCH \in Nat /\ FirstSlot(e) \in Nat
      /\ FirstSlot(e + 1) = FirstSlot(e) + SLOTS_PER_EPOCH
    BY EpochFacts
<1>2. FirstSlot(e + 1) <= FirstSlot(MaxEpoch + 2) /\ FirstSlot(MaxEpoch + 2) \in Nat
    <2>1. MaxEpoch \in Nat
        BY SchedulerAssumption
    <2>2. e + 1 \in Nat /\ MaxEpoch + 2 \in Nat /\ e + 1 <= MaxEpoch + 2
        BY <2>1
    <2> QED
        BY <2>2, EpochFacts
<1>3. SlotsOf(e) \subseteq DOMAIN Duty
    BY <1>1, <1>2, DutiesKnown DEF SlotsOf
<1> DEFINE DutyOf(s) == [slot |-> s, validator_index |-> Duty[s]]
<1>4. \A s \in SlotsOf(e) : DutyOf(s) \in ValidatorDuties
    BY <1>3, DutiesKnown DEF ValidatorDuties
<1>5. ProposerDuties(e) = [i \in 1..SLOTS_PER_EPOCH |-> DutyOf(FirstSlot(e) + i - 1)]
    BY DEF ProposerDuties
<1>6. \A i \in 1..SLOTS_PER_EPOCH : FirstSlot(e) + i - 1 \in SlotsOf(e)
    BY <1>1 DEF SlotsOf
<1>7. \A s \in SlotsOf(e) : s - FirstSlot(e) + 1 \in 1..SLOTS_PER_EPOCH
                            /\ FirstSlot(e) + (s - FirstSlot(e) + 1) - 1 = s
    BY <1>1 DEF SlotsOf
<1>8. \A s : DutyOf(s).slot = s /\ DutyOf(s).validator_index = Duty[s]
    OBVIOUS
<1> HIDE DEF DutyOf
<1>9. ProposerDuties(e) \in Seq(ValidatorDuties) /\ Len(ProposerDuties(e)) = SLOTS_PER_EPOCH
    BY <1>1, <1>4, <1>5, <1>6
<1>10. \A i \in 1..SLOTS_PER_EPOCH :
                /\ ProposerDuties(e)[i].slot = FirstSlot(e) + i - 1
                /\ ProposerDuties(e)[i].slot \in SlotsOf(e)
                /\ ProposerDuties(e)[i].validator_index = Duty[ProposerDuties(e)[i].slot]
    BY <1>5, <1>6, <1>8
<1>11. \A s \in SlotsOf(e) : \E i \in 1..SLOTS_PER_EPOCH : ProposerDuties(e)[i].slot = s
    BY <1>7, <1>10
<1> QED
    BY <1>3, <1>9, <1>10, <1>11

----------------------------------------------------------------------------
(***************************************************************************)
(* Sequences of duties and schedules, in the order of their slots.         *)
(***************************************************************************)

Increasing(seq) == \A i, j \in DOMAIN seq : i < j => seq[i].slot < seq[j].slot

LEMMA EmptyFacts == Increasing(<< >>) /\ Range(<< >>) = {}
<1>1. DOMAIN << >> = {}
    OBVIOUS
<1> QED
    BY <1>1 DEF Increasing, Range

LEMMA ConcatFacts ==
    ASSUME NEW S, NEW s \in Seq(S), NEW t \in Seq(S), Increasing(s), Increasing(t),
           \A x \in Range(s), y \in Range(t) : x.slot < y.slot
    PROVE  s \o t \in Seq(S) /\ Increasing(s \o t) /\ Range(s \o t) = Range(s) \cup Range(t)
<1> DEFINE u == s \o t
<1>1. /\ u \in Seq(S) /\ Len(u) = Len(s) + Len(t)
      /\ \A i \in 1..(Len(s) + Len(t)) : u[i] = IF i <= Len(s) THEN s[i] ELSE t[i - Len(s)]
    BY ConcatProperties
<1>2. /\ Len(s) \in Nat /\ Len(t) \in Nat /\ DOMAIN s = 1..Len(s) /\ DOMAIN t = 1..Len(t)
      /\ DOMAIN u = 1..(Len(s) + Len(t))
    BY <1>1, LenProperties
<1> HIDE DEF u
<1>3. \A i \in 1..Len(s) : i \in DOMAIN u /\ u[i] = s[i]
    BY <1>1, <1>2
<1>4. \A i \in 1..Len(t) : Len(s) + i \in DOMAIN u /\ u[Len(s) + i] = t[i]
    <2> SUFFICES ASSUME NEW i \in 1..Len(t)
                 PROVE  Len(s) + i \in DOMAIN u /\ u[Len(s) + i] = t[i]
        OBVIOUS
    <2>1. Len(s) + i \in DOMAIN u /\ ~(Len(s) + i <= Len(s)) /\ Len(s) + i - Len(s) = i
        BY <1>2
    <2> QED
        BY <1>1, <1>2, <2>1
<1>5. \A i \in DOMAIN u : \/ i \in 1..Len(s) /\ u[i] = s[i]
                          \/ i - Len(s) \in 1..Len(t) /\ u[i] = t[i - Len(s)]
    BY <1>1, <1>2
<1>6. Range(u) = Range(s) \cup Range(t)
    BY RangeConcatenation DEF u
<1>7. Increasing(u)
    <2> SUFFICES ASSUME NEW i \in DOMAIN u, NEW j \in DOMAIN u, i < j PROVE u[i].slot < u[j].slot
        BY DEF Increasing
    <2>1. CASE i \in 1..Len(s) /\ j \in 1..Len(s)
        BY <1>2, <1>3, <2>1 DEF Increasing
    <2>2. CASE i \in 1..Len(s) /\ j \notin 1..Len(s)
        <3>1. s[i] \in Range(s) /\ u[i] = s[i]
            BY <1>2, <1>3, <2>2 DEF Range
        <3>2. t[j - Len(s)] \in Range(t) /\ u[j] = t[j - Len(s)]
            BY <1>2, <1>5, <2>2 DEF Range
        <3> QED
            BY <3>1, <3>2
    <2>3. CASE i \notin 1..Len(s)
        <3>1. j \notin 1..Len(s)
            BY <1>2, <2>3
        <3>2. /\ i - Len(s) \in DOMAIN t /\ j - Len(s) \in DOMAIN t
              /\ u[i] = t[i - Len(s)] /\ u[j] = t[j - Len(s)]
            BY <1>2, <1>5, <2>3, <3>1
        <3>3. i - Len(s) < j - Len(s)
            BY <1>2
        <3> QED
            BY <3>2, <3>3 DEF Increasing
    <2> QED
        BY <2>1, <2>2, <2>3
<1> QED
    BY <1>1, <1>6, <1>7 DEF u

LEMMA AppendFacts ==
    ASSUME NEW S, NEW s \in Seq(S), NEW x \in S, Increasing(s), \A y \in Range(s) : y.slot < x.slot
    PROVE  Append(s, x) \in Seq(S) /\ Increasing(Append(s, x)) /\ Range(Append(s, x)) = Range(s) \cup {x}
<1>1. Append(s, x) = s \o <<x>>
    BY AppendIsConcat
<1>2. <<x>> \in Seq(S) /\ DOMAIN <<x>> = {1} /\ <<x>>[1] = x
    OBVIOUS
<1>3. Range(<<x>>) = {x} /\ Increasing(<<x>>)
    BY <1>2 DEF Range, Increasing
<1> DEFINE one == <<x>>
<1>4. one \in Seq(S) /\ Increasing(one) /\ Range(one) = {x} /\ Append(s, x) = s \o one
    BY <1>1, <1>2, <1>3
<1> HIDE DEF one
<1>5. \A y \in Range(s), z \in Range(one) : y.slot < z.slot
    BY <1>4
<1>6. s \o one \in Seq(S) /\ Increasing(s \o one) /\ Range(s \o one) = Range(s) \cup Range(one)
    BY <1>4, <1>5, ConcatFacts
<1> QED
    BY <1>4, <1>6

LEMMA TailFacts ==
    ASSUME NEW S, NEW s \in Seq(S), s # << >>, Increasing(s)
    PROVE  /\ Head(s) \in S /\ Tail(s) \in Seq(S) /\ Increasing(Tail(s))
           /\ Range(s) = {Head(s)} \cup Range(Tail(s))
           /\ \A x \in Range(Tail(s)) : Head(s).slot < x.slot
<1>1. /\ Head(s) \in S /\ Tail(s) \in Seq(S) /\ Len(Tail(s)) = Len(s) - 1
      /\ \A i \in 1..Len(Tail(s)) : Tail(s)[i] = s[i + 1]
    BY HeadTailProperties
<1>2. /\ Len(s) \in Nat /\ DOMAIN s = 1..Len(s) /\ DOMAIN Tail(s) = 1..(Len(s) - 1)
      /\ Len(s) >= 1 /\ Head(s) = s[1]
    BY <1>1, LenProperties, EmptySeq
<1>3. \A i \in DOMAIN Tail(s) : i + 1 \in DOMAIN s /\ Tail(s)[i] = s[i + 1] /\ 1 < i + 1
    BY <1>1, <1>2
<1>4. \A i \in DOMAIN s : i = 1 \/ (i - 1 \in DOMAIN Tail(s) /\ Tail(s)[i - 1] = s[i])
    <2> SUFFICES ASSUME NEW i \in DOMAIN s, i # 1
                 PROVE  i - 1 \in DOMAIN Tail(s) /\ Tail(s)[i - 1] = s[i]
        OBVIOUS
    <2>1. i - 1 \in DOMAIN Tail(s) /\ (i - 1) + 1 = i
        BY <1>2
    <2> QED
        BY <1>3, <2>1
<1>5. 1 \in DOMAIN s
    BY <1>2
<1>6. Range(s) = {Head(s)} \cup Range(Tail(s))
    <2>1. \A x \in Range(s) : x = Head(s) \/ x \in Range(Tail(s))
        BY <1>2, <1>4 DEF Range
    <2>2. \A x \in Range(Tail(s)) : x \in Range(s)
        BY <1>3 DEF Range
    <2>3. Head(s) \in Range(s)
        BY <1>2, <1>5 DEF Range
    <2> QED
        BY <2>1, <2>2, <2>3
<1>7. \A x \in Range(Tail(s)) : Head(s).slot < x.slot
    BY <1>2, <1>3, <1>5 DEF Range, Increasing
<1>8. Increasing(Tail(s))
    <2> SUFFICES ASSUME NEW i \in DOMAIN Tail(s), NEW j \in DOMAIN Tail(s), i < j
                 PROVE  Tail(s)[i].slot < Tail(s)[j].slot
        BY DEF Increasing
    <2>1. i + 1 < j + 1
        BY <1>2
    <2> QED
        BY <1>3, <2>1 DEF Increasing
<1> QED
    BY <1>1, <1>6, <1>7, <1>8

\* What retain leaves of a sequence in the order of its slots.
Current(seq, slot) == {i \in DOMAIN seq : seq[i].slot >= slot}

LEMMA RetainedFacts ==
    ASSUME NEW S, NEW s \in Seq(S), NEW slot, Increasing(s)
    PROVE  /\ Retain(s, Current(s, slot)) \in Seq(S)
           /\ Increasing(Retain(s, Current(s, slot)))
           /\ Range(Retain(s, Current(s, slot))) = {x \in Range(s) : x.slot >= slot}
<1> DEFINE kept == Current(s, slot)
           r == Retain(s, kept)
           size == Len(r)
<1>1. kept \in SUBSET DOMAIN s
    BY DEF Current
<1> HIDE DEF kept
<1>2. r \in Seq(S)
    BY <1>1, RetainFacts
<1>i. PICK index : Enumerates(index, kept, s, r)
    BY <1>1, RetainFacts
<1>e. /\ size \in Nat
      /\ index \in [1..size -> kept]
      /\ \A k \in 1..size : r[k] = s[index[k]]
      /\ \A k, l \in 1..size : k < l => index[k] < index[l]
      /\ \A i \in kept : \E k \in 1..size : index[k] = i
    BY <1>i DEF Enumerates
<1>3. DOMAIN r = 1..size
    BY <1>2, LenProperties
<1> HIDE DEF r, size
<1>4. \A k \in 1..size : index[k] \in DOMAIN s /\ s[index[k]].slot >= slot
    BY <1>e DEF Current, kept
<1>5. Increasing(r)
    BY <1>e, <1>3, <1>4 DEF Increasing
<1>6. \A x \in Range(r) : x \in Range(s) /\ x.slot >= slot
    BY <1>e, <1>3, <1>4 DEF Range
<1>7. ASSUME NEW x \in Range(s), x.slot >= slot PROVE x \in Range(r)
    <2>1. PICK i \in DOMAIN s : x = s[i]
        BY DEF Range
    <2>2. i \in kept
        BY <1>7, <2>1 DEF Current, kept
    <2>3. PICK k \in 1..size : index[k] = i
        BY <1>e, <2>2
    <2> QED
        BY <1>e, <1>3, <2>1, <2>3 DEF Range
<1>8. Range(r) = {x \in Range(s) : x.slot >= slot}
    BY <1>6, <1>7
<1> QED
    BY <1>2, <1>5, <1>8 DEF r, kept

LEMMA AnswerRange ==
    ASSUME NEW e \in Nat, e <= MaxEpoch + 1
    PROVE  /\ ProposerDuties(e) \in Seq(ValidatorDuties)
           /\ Increasing(ProposerDuties(e))
           /\ \A d \in Range(ProposerDuties(e)) : /\ d.slot \in SlotsOf(e)
                                                  /\ d.validator_index = Duty[d.slot]
           /\ \A s \in SlotsOf(e) : \E d \in Range(ProposerDuties(e)) : d.slot = s
<1> DEFINE answer == ProposerDuties(e)
<1>1. DOMAIN answer = 1..SLOTS_PER_EPOCH /\ answer \in Seq(ValidatorDuties)
    BY AnswerFacts, LenProperties
<1>2. FirstSlot(e) \in Nat /\ SLOTS_PER_EPOCH \in Nat
    BY EpochFacts
<1>3. \A i \in 1..SLOTS_PER_EPOCH : /\ answer[i].slot = FirstSlot(e) + i - 1
                                    /\ answer[i].slot \in SlotsOf(e)
                                    /\ answer[i].validator_index = Duty[answer[i].slot]
    BY AnswerFacts
<1>4. \A s \in SlotsOf(e) : \E i \in 1..SLOTS_PER_EPOCH : answer[i].slot = s
    BY AnswerFacts
<1> HIDE DEF answer
<1>5. Increasing(answer)
    BY <1>1, <1>2, <1>3 DEF Increasing
<1> QED
    BY <1>1, <1>3, <1>4, <1>5 DEF Range, answer

----------------------------------------------------------------------------
(***************************************************************************)
(* The schedule is sound.  Inductive: what a refresh is working on is in   *)
(* order, belongs to the epoch of the clock or the next, and comes after   *)
(* everything of the schedule that the refresh will retain.                *)
(***************************************************************************)
Now == EpochOf(clock.slot)

Types ==
    /\ proposer_schedule \in Seq(Schedules)
    /\ registration \in [Proposers -> 0..MaxVersion]
    /\ clock \in [pc : {"idle", "drain", "fetch", "fetch_next", "extend"},
                  job : {"startup", "on_epoch", "on_slot"}, slot : Slots]
    /\ duties \in Seq(ValidatorDuties)
    /\ extension \in Seq(Schedules)

IsDue(d) == d.validator_index = Duty[d.slot]

IsRegistered(schedule) == schedule.entry <= registration[schedule.validator_index]

IsWorkedOn(d) == d.slot >= FirstSlot(Now) /\ d.slot < FirstSlot(Now + 2)

ScheduleInv ==
    /\ Increasing(proposer_schedule)
    /\ \A x \in Range(proposer_schedule) : IsDue(x) /\ IsRegistered(x)
    /\ clock.pc \in {"idle", "drain"} =>
        \A x \in Range(proposer_schedule) : x.slot >= FirstSlot(Now)

RefreshInv ==
    /\ clock.pc # "extend" => extension = << >>
    /\ clock.pc \notin {"fetch_next", "extend"} => duties = << >>
    /\ Increasing(duties) /\ Increasing(extension)
    /\ \A d \in Range(duties) : IsDue(d) /\ IsWorkedOn(d)
    /\ \A x \in Range(extension) : IsDue(x) /\ IsRegistered(x) /\ IsWorkedOn(x)
    /\ clock.pc = "fetch_next" => \A d \in Range(duties) : d.slot < FirstSlot(Now + 1)
    /\ \A x \in Range(extension), d \in Range(duties) : x.slot < d.slot
    /\ \A x \in Range(proposer_schedule) :
        x.slot >= FirstSlot(Now) =>
            /\ \A d \in Range(duties) : x.slot < d.slot
            /\ \A y \in Range(extension) : x.slot < y.slot

SoundInv == Types /\ ScheduleInv /\ RefreshInv

LEMMA InitSoundInv == Init => SoundInv
<1> SUFFICES ASSUME Init PROVE SoundInv
    OBVIOUS
<1>1. PICK s \in Slots : clock = [pc |-> "fetch", job |-> "startup", slot |-> s]
    BY DEF Init
<1>2. Types
    BY <1>1, SchedulerAssumption DEF Init, Types
<1>3. proposer_schedule = << >> /\ duties = << >> /\ extension = << >>
    BY DEF Init
<1>4. /\ Increasing(proposer_schedule) /\ Increasing(duties) /\ Increasing(extension)
      /\ Range(proposer_schedule) = {} /\ Range(duties) = {} /\ Range(extension) = {}
    BY <1>3, EmptyFacts
<1>5. clock.pc = "fetch"
    BY <1>1
<1> QED
    BY <1>2, <1>3, <1>4, <1>5 DEF SoundInv, ScheduleInv, RefreshInv

\* Facts about the epochs that a refresh works on.
LEMMA NowFacts ==
    ASSUME Types
    PROVE  /\ Now \in Nat /\ Now <= MaxEpoch /\ MaxEpoch \in Nat
           /\ FirstSlot(Now) \in Nat /\ FirstSlot(Now + 1) \in Nat /\ FirstSlot(Now + 2) \in Nat
           /\ FirstSlot(Now) < FirstSlot(Now + 1) /\ FirstSlot(Now + 1) < FirstSlot(Now + 2)
<1>1. clock.slot \in Slots
    BY DEF Types
<1>2. Now \in Nat /\ Now <= MaxEpoch /\ MaxEpoch \in Nat
    BY <1>1, DutiesKnown, SchedulerAssumption DEF Now
<1>3. Now + 1 \in Nat /\ (Now + 1) + 1 = Now + 2
    BY <1>2
<1>4. /\ FirstSlot(Now) \in Nat /\ FirstSlot(Now + 1) = FirstSlot(Now) + SLOTS_PER_EPOCH
      /\ FirstSlot(Now + 1) \in Nat
      /\ FirstSlot((Now + 1) + 1) = FirstSlot(Now + 1) + SLOTS_PER_EPOCH
      /\ SLOTS_PER_EPOCH \in Nat /\ SLOTS_PER_EPOCH >= 1
    BY <1>2, <1>3, EpochFacts
<1>5. FirstSlot(Now + 2) = FirstSlot(Now + 1) + SLOTS_PER_EPOCH
    BY <1>3, <1>4
<1> QED
    BY <1>2, <1>4, <1>5

\* The elements of the sequences, and their slots.
LEMMA ElementFacts ==
    ASSUME Types
    PROVE  /\ \A x \in Range(proposer_schedule) : x \in Schedules /\ x.slot \in Nat
           /\ \A x \in Range(extension) : x \in Schedules /\ x.slot \in Nat
           /\ \A d \in Range(duties) : d \in ValidatorDuties /\ d.slot \in Nat
<1>1. \A s \in DOMAIN Duty : s \in Nat
    BY DutiesKnown
<1>2. /\ \A x \in Schedules : x.slot \in Nat
      /\ \A x \in ValidatorDuties : x.slot \in Nat
    BY <1>1 DEF Schedules, ValidatorDuties
<1>3. \A S : \A seq \in Seq(S) : \A x \in Range(seq) : x \in S
    BY LenProperties, ElementOfSeq DEF Range
<1> QED
    BY <1>2, <1>3 DEF Types

\* A step that leaves the schedule and the clock's epoch alone while no refresh is under way.
LEMMA IdleStep ==
    ASSUME SoundInv, Types', UNCHANGED <<proposer_schedule, duties, extension, registration>>,
           clock.pc \in {"idle", "drain"}, clock'.pc \in {"idle", "drain", "fetch"},
           clock'.pc \in {"idle", "drain"} => Now' = Now
    PROVE  ScheduleInv' /\ RefreshInv'
<1>1. duties = << >> /\ extension = << >>
    BY DEF SoundInv, RefreshInv
<1>2. Range(duties) = {} /\ Range(extension) = {} /\ Increasing(duties) /\ Increasing(extension)
    BY <1>1, EmptyFacts
<1>3. ScheduleInv'
    BY DEF SoundInv, ScheduleInv, IsDue, IsRegistered
<1>4. RefreshInv'
    BY <1>1, <1>2 DEF RefreshInv
<1> QED
    BY <1>3, <1>4

\* The duties of one epoch more, asked for when the schedule has nothing for it or later.
LEMMA FetchStep ==
    ASSUME SoundInv, NEW e \in {Now, Now + 1}, FetchDutiesIfMissing(e),
           clock.pc = IF e = Now THEN "fetch" ELSE "fetch_next"
    PROVE  /\ duties' \in Seq(ValidatorDuties) /\ Increasing(duties')
           /\ \A d \in Range(duties') : IsDue(d) /\ IsWorkedOn(d)
           /\ e = Now => \A d \in Range(duties') : d.slot < FirstSlot(Now + 1)
           /\ \A x \in Range(proposer_schedule) :
                x.slot >= FirstSlot(Now) => \A d \in Range(duties') : x.slot < d.slot
<1> USE NowFacts, ElementFacts DEF SoundInv
<1>1. /\ duties \in Seq(ValidatorDuties) /\ Increasing(duties)
      /\ \A d \in Range(duties) : IsDue(d) /\ IsWorkedOn(d)
      /\ \A x \in Range(proposer_schedule) :
            x.slot >= FirstSlot(Now) => \A d \in Range(duties) : x.slot < d.slot
      /\ \A d \in Range(duties) : d.slot < FirstSlot(e)
      /\ e = Now => Range(duties) = {}
    <2>1. CASE e = Now
        <3>1. duties = << >>
            BY <2>1 DEF RefreshInv
        <3>2. Range(duties) = {}
            BY <3>1, EmptyFacts
        <3> QED
            BY <3>2 DEF RefreshInv, Types
    <2>2. CASE e # Now
        BY <2>2 DEF RefreshInv, Types
    <2> QED
        BY <2>1, <2>2
<1>2. CASE duties' = duties
    BY <1>1, <1>2
<1>3. CASE duties' # duties
    <2>1. IsMissing(e) /\ duties' = duties \o ProposerDuties(e)
        BY <1>3 DEF FetchDutiesIfMissing
    <2>2. e \in Nat /\ e <= MaxEpoch + 1
        OBVIOUS
    <2>3. /\ ProposerDuties(e) \in Seq(ValidatorDuties)
          /\ Increasing(ProposerDuties(e))
          /\ \A d \in Range(ProposerDuties(e)) : d.slot \in SlotsOf(e) /\ IsDue(d)
        BY <2>2, AnswerRange DEF IsDue
    <2>4. \A d \in Range(ProposerDuties(e)) :
            /\ d.slot \in Nat /\ d.slot >= FirstSlot(e) /\ d.slot < FirstSlot(e + 1)
        BY <2>3 DEF SlotsOf
    <2>5. \A x \in Range(proposer_schedule) : x.slot < FirstSlot(e)
        BY <2>1 DEF IsMissing, Range
    <2>6. \A d \in Range(duties), b \in Range(ProposerDuties(e)) : d.slot < b.slot
        BY <1>1, <2>4
    <2>7. /\ duties' \in Seq(ValidatorDuties) /\ Increasing(duties')
          /\ Range(duties') = Range(duties) \cup Range(ProposerDuties(e))
        BY <1>1, <2>1, <2>3, <2>6, ConcatFacts
    <2>8. \A d \in Range(ProposerDuties(e)) :
            /\ IsWorkedOn(d)
            /\ e = Now => d.slot < FirstSlot(Now + 1)
            /\ \A x \in Range(proposer_schedule) : x.slot < d.slot
        <3>1. CASE e = Now
            BY <2>4, <2>5, <3>1 DEF IsWorkedOn
        <3>2. CASE e = Now + 1
            <4>1. FirstSlot(e + 1) = FirstSlot(Now + 2)
                BY <3>2
            <4> QED
                BY <2>4, <2>5, <3>2, <4>1 DEF IsWorkedOn
        <3> QED
            BY <3>1, <3>2
    <2> QED
        BY <1>1, <2>1, <2>3, <2>7, <2>8
<1> QED
    BY <1>2, <1>3

LEMMA NextTypes == SoundInv /\ [Next]_vars => Types'
<1> SUFFICES ASSUME SoundInv, [Next]_vars PROVE Types'
    OBVIOUS
<1> USE DEF SoundInv, Types
<1>1. CASE Tick
    <2>1. PICK s \in Slots : \/ clock' = [pc |-> "fetch", job |-> "on_epoch", slot |-> s]
                             \/ clock' = [pc |-> "drain", job |-> "on_slot", slot |-> s]
        BY <1>1 DEF Tick
    <2> QED
        BY <1>1, <2>1 DEF Tick
<1>2. CASE OnSlotDrain
    BY <1>2 DEF OnSlotDrain
<1>3. CASE FetchDuties
    <2>1. duties' \in Seq(ValidatorDuties)
        BY <1>3, FetchStep DEF FetchDuties, Now
    <2> QED
        BY <1>3, <2>1 DEF FetchDuties
<1>4. CASE FetchNextDuties
    <2>1. clock.pc = "fetch_next" /\ Now + 1 # Now /\ FetchDutiesIfMissing(Now + 1)
        BY <1>4, NowFacts DEF FetchNextDuties, Now
    <2>2. duties' \in Seq(ValidatorDuties)
        BY <2>1, FetchStep
    <2> QED
        BY <1>4, <2>2 DEF FetchNextDuties
<1>5. CASE ExtendWithDuty
    <2> DEFINE duty == Head(duties)
               entry == registration[duty.validator_index]
               schedule == [slot |-> duty.slot, validator_index |-> duty.validator_index,
                            entry |-> entry]
    <2>1. duty \in ValidatorDuties /\ duties' \in Seq(ValidatorDuties)
        BY <1>5, HeadTailProperties DEF ExtendWithDuty
    <2>2. entry \in 0..MaxVersion
        BY <2>1 DEF ValidatorDuties
    <2>3. extension' \in Seq(Schedules)
        <3>1. CASE entry = 0
            BY <1>5, <3>1 DEF ExtendWithDuty
        <3>2. CASE entry # 0
            <4>1. schedule \in Schedules
                BY <2>1, <2>2, <3>2, SchedulerAssumption DEF Schedules, ValidatorDuties
            <4>2. extension' = Append(extension, schedule)
                BY <1>5, <3>2 DEF ExtendWithDuty
            <4> HIDE DEF schedule
            <4> QED
                BY <4>1, <4>2
        <3> QED
            BY <3>1, <3>2
    <2> QED
        BY <1>5, <2>1, <2>3 DEF ExtendWithDuty
<1>6. CASE StoreSchedules
    <2>1. Retain(proposer_schedule, Current(proposer_schedule, FirstSlot(Now))) \in Seq(Schedules)
        BY RetainedFacts DEF ScheduleInv
    <2>2. proposer_schedule' =
            Retain(proposer_schedule, Current(proposer_schedule, FirstSlot(Now))) \o extension
        BY <1>6 DEF StoreSchedules, Current, Now
    <2>3. proposer_schedule' \in Seq(Schedules)
        BY <2>1, <2>2, ConcatProperties
    <2>4. extension' \in Seq(Schedules) /\ UNCHANGED <<registration, duties>>
        BY <1>6 DEF StoreSchedules
    <2>5. clock' \in [pc : {"idle", "drain", "fetch", "fetch_next", "extend"},
                      job : {"startup", "on_epoch", "on_slot"}, slot : Slots]
        BY <1>6 DEF StoreSchedules
    <2> QED
        BY <2>3, <2>4, <2>5
<1>7. ASSUME NEW p \in Proposers, Register(p) PROVE Types'
    BY <1>7, SchedulerAssumption DEF Register
<1>8. ASSUME NEW p \in Proposers, Report(p) PROVE Types'
    BY <1>8 DEF Report
<1>9. CASE UNCHANGED vars
    BY <1>9 DEF vars
<1> QED
    BY <1>1, <1>2, <1>3, <1>4, <1>5, <1>6, <1>7, <1>8, <1>9 DEF Next, ClockNext

LEMMA NextSoundInv == SoundInv /\ [Next]_vars => SoundInv'
<1> SUFFICES ASSUME SoundInv, [Next]_vars PROVE SoundInv'
    OBVIOUS
<1>0. Types'
    BY NextTypes
<1> SUFFICES ScheduleInv' /\ RefreshInv'
    BY <1>0 DEF SoundInv
<1> USE DEF SoundInv
<1>1. CASE Tick
    <2>1. PICK s \in Slots :
            \/ clock' = [pc |-> "fetch", job |-> "on_epoch", slot |-> s]
            \/ /\ clock' = [pc |-> "drain", job |-> "on_slot", slot |-> s]
               /\ EpochOf(s) = EpochOf(clock.slot)
        BY <1>1 DEF Tick
    <2> QED
        BY <1>0, <1>1, <2>1, IdleStep DEF Tick, Now
<1>2. CASE OnSlotDrain
    <2>1. clock'.slot = clock.slot /\ clock'.pc \in {"idle", "fetch"}
        BY <1>2 DEF OnSlotDrain, Types
    <2> QED
        BY <1>0, <1>2, <2>1, IdleStep DEF OnSlotDrain, Now
<1>3. ASSUME clock.pc = "fetch", FetchDutiesIfMissing(Now), clock' = [clock EXCEPT !.pc = "fetch_next"],
             UNCHANGED <<proposer_schedule, registration, extension>>
      PROVE  ScheduleInv' /\ RefreshInv'
    <2>1. clock'.pc = "fetch_next" /\ Now' = Now
        BY <1>3 DEF Types, Now
    <2>2. ScheduleInv'
        BY <1>3, <2>1 DEF ScheduleInv, IsDue, IsRegistered
    <2>3. extension = << >> /\ Range(extension) = {} /\ Increasing(extension)
        BY <1>3, EmptyFacts DEF RefreshInv
    <2>4. /\ Increasing(duties')
          /\ \A d \in Range(duties') : IsDue(d) /\ IsWorkedOn(d)
          /\ \A d \in Range(duties') : d.slot < FirstSlot(Now + 1)
          /\ \A x \in Range(proposer_schedule) :
                x.slot >= FirstSlot(Now) => \A d \in Range(duties') : x.slot < d.slot
        BY <1>3, FetchStep
    <2>5. RefreshInv'
        BY <1>3, <2>1, <2>3, <2>4 DEF RefreshInv, IsDue, IsWorkedOn
    <2> QED
        BY <2>2, <2>5
<1>4. ASSUME clock.pc = "fetch_next", FetchDutiesIfMissing(Now + 1),
             clock' = [clock EXCEPT !.pc = "extend"],
             UNCHANGED <<proposer_schedule, registration, extension>>
      PROVE  ScheduleInv' /\ RefreshInv'
    <2>1. clock'.pc = "extend" /\ Now' = Now
        BY <1>4 DEF Types, Now
    <2>2. ScheduleInv'
        BY <1>4, <2>1 DEF ScheduleInv, IsDue, IsRegistered
    <2>3. extension = << >> /\ Range(extension) = {} /\ Increasing(extension)
        BY <1>4, EmptyFacts DEF RefreshInv
    <2>4. Now + 1 # Now
        BY NowFacts
    <2>5. /\ Increasing(duties')
          /\ \A d \in Range(duties') : IsDue(d) /\ IsWorkedOn(d)
          /\ \A x \in Range(proposer_schedule) :
                x.slot >= FirstSlot(Now) => \A d \in Range(duties') : x.slot < d.slot
        BY <1>4, <2>4, FetchStep
    <2>6. RefreshInv'
        BY <1>4, <2>1, <2>3, <2>5 DEF RefreshInv, IsDue, IsWorkedOn
    <2> QED
        BY <2>2, <2>6
<1>5. CASE FetchDuties
    BY <1>3, <1>5 DEF FetchDuties, Now
<1>6. CASE FetchNextDuties
    BY <1>4, <1>6 DEF FetchNextDuties, Now
<1>7. CASE ExtendWithDuty
    <2> DEFINE duty == Head(duties)
               entry == registration[duty.validator_index]
               schedule == [slot |-> duty.slot, validator_index |-> duty.validator_index,
                            entry |-> entry]
    <2>1. /\ clock.pc = "extend" /\ duties # << >> /\ duties' = Tail(duties)
          /\ UNCHANGED <<proposer_schedule, registration, clock>>
          /\ \/ extension' = extension
             \/ entry # 0 /\ extension' = Append(extension, schedule)
        BY <1>7 DEF ExtendWithDuty
    <2>2. /\ duty \in ValidatorDuties /\ Increasing(duties')
          /\ Range(duties) = {duty} \cup Range(duties')
          /\ \A d \in Range(duties') : duty.slot < d.slot
        BY <2>1, TailFacts DEF Types, RefreshInv
    <2>3. /\ schedule.slot = duty.slot /\ schedule.validator_index = duty.validator_index
          /\ schedule.entry = registration[schedule.validator_index]
        OBVIOUS
    <2>4. registration[schedule.validator_index] \in 0..MaxVersion
        BY <2>2, <2>3 DEF Types, ValidatorDuties
    <2>5. duty.slot \in DOMAIN Duty /\ duty.validator_index \in Proposers
        BY <2>2 DEF ValidatorDuties
    <2>6. entry # 0 => schedule \in Schedules
        BY <2>4, <2>5, SchedulerAssumption DEF Schedules
    <2>7. duty \in Range(duties)
        BY <2>2
    <2> HIDE DEF schedule, duty
    <2>8. IsDue(schedule) /\ IsRegistered(schedule) /\ IsWorkedOn(schedule)
        BY <2>3, <2>4, <2>7 DEF RefreshInv, IsDue, IsRegistered, IsWorkedOn
    <2>9. \A x \in Range(extension) : x.slot < schedule.slot
        BY <2>3, <2>7 DEF RefreshInv
    <2>10. /\ Increasing(extension')
           /\ Range(extension') \subseteq Range(extension) \cup {schedule}
        <3>1. CASE extension' = extension
            BY <3>1 DEF RefreshInv
        <3>2. CASE entry # 0 /\ extension' = Append(extension, schedule)
            BY <2>6, <2>9, <3>2, AppendFacts DEF RefreshInv, Types
        <3> QED
            BY <2>1, <3>1, <3>2
    <2>11. ScheduleInv'
        BY <2>1 DEF ScheduleInv, IsDue, IsRegistered, Now
    <2>12. \A x \in Range(extension') : IsDue(x) /\ IsRegistered(x) /\ IsWorkedOn(x)
        BY <2>8, <2>10 DEF RefreshInv
    <2>13. \A d \in Range(duties') : IsDue(d) /\ IsWorkedOn(d)
        BY <2>2 DEF RefreshInv
    <2>14. \A x \in Range(extension'), d \in Range(duties') : x.slot < d.slot
        BY <2>2, <2>3, <2>10 DEF RefreshInv
    <2>15. \A x \in Range(proposer_schedule) :
            x.slot >= FirstSlot(Now) =>
                /\ \A d \in Range(duties') : x.slot < d.slot
                /\ \A y \in Range(extension') : x.slot < y.slot
        BY <2>2, <2>3, <2>7, <2>10 DEF RefreshInv
    <2>16. RefreshInv'
        BY <2>1, <2>2, <2>10, <2>12, <2>13, <2>14, <2>15
        DEF RefreshInv, IsDue, IsRegistered, IsWorkedOn, Now
    <2> QED
        BY <2>11, <2>16
<1>8. CASE StoreSchedules
    <2> DEFINE retained == Retain(proposer_schedule, Current(proposer_schedule, FirstSlot(Now)))
    <2>1. /\ clock.pc = "extend" /\ duties = << >> /\ duties' = << >> /\ extension' = << >>
          /\ registration' = registration
          /\ proposer_schedule' = retained \o extension
        BY <1>8 DEF StoreSchedules, Current, Now
    <2>2. clock'.pc \in {"idle", "drain"} /\ Now' = Now
        BY <1>8 DEF StoreSchedules, Types, Now
    <2>3. /\ retained \in Seq(Schedules) /\ Increasing(retained)
          /\ Range(retained) = {x \in Range(proposer_schedule) : x.slot >= FirstSlot(Now)}
        BY RetainedFacts DEF Types, ScheduleInv
    <2> HIDE DEF retained
    <2>4. \A x \in Range(retained), y \in Range(extension) : x.slot < y.slot
        BY <2>3 DEF RefreshInv
    <2>5. /\ Increasing(proposer_schedule')
          /\ Range(proposer_schedule') = Range(retained) \cup Range(extension)
        BY <2>1, <2>3, <2>4, ConcatFacts DEF Types, RefreshInv
    <2>6. \A x \in Range(proposer_schedule') :
            IsDue(x) /\ IsRegistered(x) /\ x.slot >= FirstSlot(Now)
        BY <2>3, <2>5 DEF ScheduleInv, RefreshInv, IsWorkedOn
    <2>7. ScheduleInv'
        BY <2>1, <2>2, <2>5, <2>6 DEF ScheduleInv, IsDue, IsRegistered
    <2>8. /\ Range(duties') = {} /\ Range(extension') = {}
          /\ Increasing(duties') /\ Increasing(extension')
        BY <2>1, EmptyFacts
    <2>9. RefreshInv'
        BY <2>1, <2>2, <2>8 DEF RefreshInv
    <2> QED
        BY <2>7, <2>9
<1>9. ASSUME NEW p \in Proposers, Register(p) PROVE ScheduleInv' /\ RefreshInv'
    <2>1. UNCHANGED <<proposer_schedule, clock, duties, extension>>
        BY <1>9 DEF Register
    <2>2. \A q \in Proposers : registration'[q] >= registration[q] /\ registration[q] \in Nat
                               /\ registration'[q] \in Nat
        BY <1>9, SchedulerAssumption DEF Register, Types
    <2>3. \A x \in Schedules : IsRegistered(x) => IsRegistered(x)'
        BY <2>2, SchedulerAssumption DEF Schedules, IsRegistered
    <2> QED
        BY <2>1, <2>3, ElementFacts DEF ScheduleInv, RefreshInv, IsDue, IsWorkedOn, Now
<1>10. ASSUME UNCHANGED <<proposer_schedule, clock, duties, extension, registration>>
       PROVE  ScheduleInv' /\ RefreshInv'
    BY <1>10 DEF ScheduleInv, RefreshInv, IsDue, IsRegistered, IsWorkedOn, Now
<1>11. ASSUME NEW p \in Proposers, Report(p) PROVE ScheduleInv' /\ RefreshInv'
    BY <1>10, <1>11 DEF Report
<1>12. CASE UNCHANGED vars
    BY <1>10, <1>12 DEF vars
<1> QED
    BY <1>1, <1>2, <1>5, <1>6, <1>7, <1>8, <1>9, <1>11, <1>12 DEF Next, ClockNext

\* Whatever answers fail and whenever registrations come in, the schedules of on_epoch are
\* strictly increasing by slot, for duties of registered proposers, and none is of an epoch
\* before the clock's once the clock task is through with it.
THEOREM SoundSchedules == Spec => []ScheduleIsSound
<1>1. SoundInv => ScheduleIsSound
    <2> SUFFICES ASSUME SoundInv PROVE ScheduleIsSound
        OBVIOUS
    <2>1. \A i \in DOMAIN proposer_schedule : proposer_schedule[i] \in Range(proposer_schedule)
        BY DEF Range
    <2> QED
        BY <2>1 DEF SoundInv, Types, ScheduleInv, ScheduleIsSound, Increasing, IsDue, IsRegistered, Now
<1> QED
    BY <1>1, InitSoundInv, NextSoundInv, PTL DEF Spec

----------------------------------------------------------------------------
(***************************************************************************)
(* A refresh is complete.  Inductive: while the schedule has anything for  *)
(* an epoch or later, each slot of the epoch was scheduled or passed over, *)
(* so that nothing is missed when duties are not asked for again; and what *)
(* a refresh has fetched is scheduled, passed over or still in its hands.  *)
(***************************************************************************)
Covered(s) == s \in refreshed.passed_over \/ \E x \in Range(proposer_schedule) : x.slot = s

Has(seq, s) == \E d \in Range(seq) : d.slot = s

RefreshedTypes ==
    refreshed \in [epoch : Nat, registration : [Proposers -> 0..MaxVersion],
                   passed_over : SUBSET Nat, done : BOOLEAN]

KnownIsCovered ==
    \A x \in Range(proposer_schedule), e \in Nat :
        e >= Now /\ FirstSlot(e) <= x.slot => \A s \in SlotsOf(e) : Covered(s)

CoverInv ==
    /\ SoundInv
    /\ RefreshedTypes
    /\ refreshed.epoch = Now
    /\ KnownIsCovered
    /\ clock.pc = "fetch_next" => \A s \in SlotsOf(Now) : Covered(s) \/ Has(duties, s)
    /\ clock.pc = "extend" =>
        \A s \in SlotsOf(Now) \cup SlotsOf(Now + 1) :
            Covered(s) \/ Has(extension, s) \/ Has(duties, s)
    /\ clock.pc \in {"idle", "drain"} => \A s \in SlotsOf(Now) \cup SlotsOf(Now + 1) : Covered(s)

LEMMA InitCoverInv == Init => CoverInv
<1> SUFFICES ASSUME Init PROVE CoverInv
    OBVIOUS
<1>1. PICK s \in Slots :
        /\ clock = [pc |-> "fetch", job |-> "startup", slot |-> s]
        /\ refreshed = [epoch |-> EpochOf(s), registration |-> registration,
                        passed_over |-> {}, done |-> FALSE]
    BY DEF Init
<1>2. EpochOf(s) \in Nat /\ registration \in [Proposers -> 0..MaxVersion]
    BY DutiesKnown, SchedulerAssumption DEF Init
<1>3. RefreshedTypes /\ refreshed.epoch = Now /\ clock.pc = "fetch"
    BY <1>1, <1>2 DEF RefreshedTypes, Now
<1>4. Range(proposer_schedule) = {}
    BY EmptyFacts DEF Init
<1> QED
    BY <1>3, <1>4, InitSoundInv DEF CoverInv, KnownIsCovered

\* What was covered stays covered while only the slots that are passed over grow.
LEMMA CoverGrows ==
    ASSUME CoverInv, NEW slots \in SUBSET Nat, PassOver(slots) \/ UNCHANGED refreshed,
           UNCHANGED proposer_schedule, Now' = Now
    PROVE  /\ RefreshedTypes' /\ (refreshed.epoch = Now)' /\ KnownIsCovered'
           /\ \A s : Covered(s) => Covered(s)'
           /\ PassOver(slots) => \A s \in slots : Covered(s)'
<1>1. /\ RefreshedTypes' /\ refreshed'.epoch = refreshed.epoch
      /\ refreshed.passed_over \subseteq refreshed'.passed_over
      /\ PassOver(slots) => slots \subseteq refreshed'.passed_over
    BY DEF CoverInv, RefreshedTypes, PassOver
<1>2. \A s : Covered(s) => Covered(s)'
    BY <1>1 DEF Covered
<1>3. KnownIsCovered'
    BY <1>2 DEF CoverInv, KnownIsCovered
<1>4. PassOver(slots) => \A s \in slots : Covered(s)'
    BY <1>1 DEF Covered
<1> QED
    BY <1>1, <1>2, <1>3, <1>4 DEF CoverInv

\* A refresh begins at the clock's epoch or a later one: only slots before it are forgotten.
LEMMA BeginStep ==
    ASSUME CoverInv, SoundInv', NEW slot \in Slots, BeginRefresh(slot), EpochOf(slot) >= Now,
           clock'.slot = slot, clock'.pc = "fetch", UNCHANGED proposer_schedule
    PROVE  CoverInv'
<1> DEFINE epoch == EpochOf(slot)
<1>1. Now \in Nat /\ epoch \in Nat /\ Now' = epoch
    BY NowFacts, DutiesKnown DEF CoverInv, SoundInv, Now
<1>2. refreshed' = [epoch |-> epoch, registration |-> registration,
                    passed_over |-> {s \in refreshed.passed_over : s >= FirstSlot(epoch)},
                    done |-> FALSE]
    BY DEF BeginRefresh
<1>3. registration \in [Proposers -> 0..MaxVersion] /\ refreshed.passed_over \subseteq Nat
    BY DEF CoverInv, SoundInv, Types, RefreshedTypes
<1> HIDE DEF epoch
<1>4. RefreshedTypes' /\ refreshed'.epoch = epoch
    BY <1>1, <1>2, <1>3 DEF RefreshedTypes
<1>5. \A s : Covered(s) /\ s >= FirstSlot(epoch) => Covered(s)'
    BY <1>2 DEF Covered
<1>6. KnownIsCovered'
    <2> SUFFICES ASSUME NEW x \in Range(proposer_schedule), NEW e \in Nat,
                        e >= epoch, FirstSlot(e) <= x.slot, NEW s \in SlotsOf(e)
                 PROVE  Covered(s)'
        BY <1>1 DEF KnownIsCovered
    <2>1. e >= Now
        BY <1>1 DEF epoch
    <2>2. Covered(s)
        BY <2>1 DEF CoverInv, KnownIsCovered
    <2>3. /\ FirstSlot(epoch) \in Nat /\ FirstSlot(e) \in Nat /\ FirstSlot(e + 1) \in Nat
          /\ FirstSlot(epoch) <= FirstSlot(e)
        <3>1. e + 1 \in Nat /\ epoch <= e
            BY <1>1
        <3> QED
            BY <1>1, <3>1, EpochFacts
    <2>4. s >= FirstSlot(epoch)
        BY <2>3 DEF SlotsOf
    <2> QED
        BY <1>5, <2>2, <2>4
<1> QED
    BY <1>1, <1>4, <1>6 DEF CoverInv

\* After the duties of an epoch were asked for, or not, each of its slots is covered or among
\* the duties.
LEMMA AskedIsCovered ==
    ASSUME CoverInv, NEW e \in {Now, Now + 1}, FetchDutiesIfMissing(e),
           UNCHANGED proposer_schedule, Now' = Now
    PROVE  /\ RefreshedTypes' /\ (refreshed.epoch = Now)' /\ KnownIsCovered'
           /\ \A s : Covered(s) => Covered(s)'
           /\ \A s : Has(duties, s) => Has(duties', s)
           /\ \A s \in SlotsOf(e) : Covered(s)' \/ Has(duties', s)
<1>1. /\ Now \in Nat /\ Now <= MaxEpoch /\ MaxEpoch \in Nat
      /\ duties \in Seq(ValidatorDuties)
    BY NowFacts DEF CoverInv, SoundInv, Types
<1>2. e \in Nat /\ e <= MaxEpoch + 1
    BY <1>1
<1>3. FirstSlot(e) \in Nat /\ FirstSlot(e + 1) \in Nat
    BY <1>2, EpochFacts
<1>4. SlotsOf(e) \in SUBSET Nat
    BY <1>3 DEF SlotsOf
<1>5. PassOver(SlotsOf(e)) \/ UNCHANGED refreshed
    BY DEF FetchDutiesIfMissing
<1>6. /\ RefreshedTypes' /\ (refreshed.epoch = Now)' /\ KnownIsCovered'
      /\ \A s : Covered(s) => Covered(s)'
      /\ PassOver(SlotsOf(e)) => \A s \in SlotsOf(e) : Covered(s)'
    BY <1>4, <1>5, CoverGrows
<1>7. CASE duties' = duties \o ProposerDuties(e)
    <2>1. /\ ProposerDuties(e) \in Seq(ValidatorDuties)
          /\ \A s \in SlotsOf(e) : \E d \in Range(ProposerDuties(e)) : d.slot = s
        BY <1>2, AnswerRange
    <2>2. Range(duties') = Range(duties) \cup Range(ProposerDuties(e))
        BY <1>1, <1>7, <2>1, RangeConcatenation
    <2> QED
        BY <1>6, <2>1, <2>2 DEF Has
<1>8. CASE PassOver(SlotsOf(e)) /\ UNCHANGED duties
    BY <1>6, <1>8 DEF Has
<1>9. CASE ~IsMissing(e) /\ UNCHANGED duties
    <2>1. PICK x \in Range(proposer_schedule) : x.slot >= FirstSlot(e)
        BY <1>9 DEF IsMissing, Range
    <2>2. e >= Now
        BY <1>1
    <2>3. x.slot \in Nat
        BY ElementFacts DEF CoverInv, SoundInv
    <2>4. FirstSlot(e) <= x.slot
        BY <1>3, <2>1, <2>3
    <2>5. \A s \in SlotsOf(e) : Covered(s)
        BY <1>2, <2>2, <2>4 DEF CoverInv, KnownIsCovered
    <2> QED
        BY <1>6, <1>9, <2>5
<1> QED
    BY <1>7, <1>8, <1>9 DEF FetchDutiesIfMissing

\* A duty that is looked at is scheduled or passed over.
LEMMA ExtendStep ==
    ASSUME CoverInv, SoundInv', ExtendWithDuty
    PROVE  CoverInv'
<1> DEFINE duty == Head(duties)
           entry == registration[duty.validator_index]
           schedule == [slot |-> duty.slot, validator_index |-> duty.validator_index,
                        entry |-> entry]
<1>1. /\ clock.pc = "extend" /\ duties # << >> /\ duties' = Tail(duties)
      /\ UNCHANGED <<proposer_schedule, clock>>
      /\ \/ extension' = extension /\ PassOver({duty.slot})
         \/ entry # 0 /\ extension' = Append(extension, schedule) /\ UNCHANGED refreshed
    BY DEF ExtendWithDuty
<1>2. duty \in ValidatorDuties /\ Range(duties) = {duty} \cup Range(duties')
    BY <1>1, TailFacts DEF CoverInv, SoundInv, Types, RefreshInv
<1>3. duty.slot \in Nat /\ duty.slot \in DOMAIN Duty /\ duty.validator_index \in Proposers
    BY <1>2, DutiesKnown DEF ValidatorDuties
<1>s. PICK slot \in Nat : slot = duty.slot
    BY <1>3
<1>4. Now' = Now
    BY <1>1 DEF Now
<1>5. /\ RefreshedTypes' /\ (refreshed.epoch = Now)' /\ KnownIsCovered'
      /\ \A s : Covered(s) => Covered(s)'
      /\ PassOver({slot}) => Covered(slot)'
    <2>1. {slot} \in SUBSET Nat /\ (PassOver({slot}) \/ UNCHANGED refreshed)
        BY <1>1, <1>s
    <2>2. UNCHANGED proposer_schedule
        BY <1>1
    <2> HIDE DEF duty
    <2> QED
        BY <1>4, <2>1, <2>2, CoverGrows
<1>6. CASE extension' = extension /\ PassOver({duty.slot})
    <2>1. \A s : Has(duties, s) => Covered(s)' \/ Has(duties', s)
        <3> SUFFICES ASSUME NEW s, NEW d \in Range(duties), d.slot = s
                     PROVE  Covered(s)' \/ Has(duties', s)
            BY DEF Has
        <3> HIDE DEF duty
        <3>1. CASE d = duty
            BY <1>s, <1>5, <1>6, <3>1
        <3>2. CASE d \in Range(duties')
            BY <3>2 DEF Has
        <3> QED
            BY <1>2, <3>1, <3>2
    <2> QED
        BY <1>1, <1>4, <1>5, <1>6, <2>1 DEF CoverInv
<1>7. CASE entry # 0 /\ extension' = Append(extension, schedule)
    <2>1. schedule.slot = duty.slot
        OBVIOUS
    <2>2. entry \in 0..MaxVersion
        BY <1>3 DEF CoverInv, SoundInv, Types
    <2>3. schedule \in Schedules
        BY <1>3, <1>7, <2>2, SchedulerAssumption DEF Schedules
    <2>4. \A x \in Range(extension) : x.slot < duty.slot
        BY <1>2 DEF CoverInv, SoundInv, RefreshInv
    <2> HIDE DEF schedule, duty
    <2>5. Range(extension') = Range(extension) \cup {schedule}
        BY <1>7, <2>1, <2>3, <2>4, AppendFacts DEF CoverInv, SoundInv, Types, RefreshInv
    <2>6. /\ \A s : Has(extension, s) => Has(extension', s)
          /\ \A s : Has(duties, s) => Has(extension', s) \/ Has(duties', s)
        BY <1>2, <2>1, <2>5 DEF Has
    <2> QED
        BY <1>1, <1>4, <1>5, <2>6 DEF CoverInv
<1> QED
    BY <1>1, <1>6, <1>7

\* The refresh stores what it built: each slot of the two epochs is covered by the schedule.
LEMMA StoreStep ==
    ASSUME CoverInv, SoundInv', StoreSchedules
    PROVE  CoverInv'
<1> DEFINE retained == Retain(proposer_schedule, Current(proposer_schedule, FirstSlot(Now)))
<1>1. /\ clock.pc = "extend" /\ duties = << >>
      /\ proposer_schedule' = retained \o extension
      /\ refreshed' = [refreshed EXCEPT !.done = TRUE]
    BY DEF StoreSchedules, Current, Now
<1>2. clock'.pc \in {"idle", "drain"} /\ Now' = Now
    BY DEF StoreSchedules, CoverInv, SoundInv, Types, Now
<1>3. /\ retained \in Seq(Schedules)
      /\ Range(retained) = {x \in Range(proposer_schedule) : x.slot >= FirstSlot(Now)}
    BY RetainedFacts DEF CoverInv, SoundInv, Types, ScheduleInv
<1> HIDE DEF retained
<1>4. Range(proposer_schedule') = Range(retained) \cup Range(extension)
    BY <1>1, <1>3, RangeConcatenation DEF CoverInv, SoundInv, Types
<1>5. /\ RefreshedTypes' /\ refreshed'.epoch = Now
      /\ refreshed'.passed_over = refreshed.passed_over
    BY <1>1 DEF CoverInv, RefreshedTypes
<1>6. /\ Now \in Nat /\ FirstSlot(Now) \in Nat /\ FirstSlot(Now + 1) \in Nat
      /\ FirstSlot(Now + 2) \in Nat
      /\ FirstSlot(Now) < FirstSlot(Now + 1) /\ FirstSlot(Now + 1) < FirstSlot(Now + 2)
    BY NowFacts DEF CoverInv, SoundInv
<1>7. \A s : (Covered(s) /\ s >= FirstSlot(Now)) \/ Has(extension, s) => Covered(s)'
    BY <1>3, <1>4, <1>5 DEF Covered, Has
<1>8. \A e \in Nat : e >= Now => \A s \in SlotsOf(e) : s >= FirstSlot(Now)
    <2> SUFFICES ASSUME NEW e \in Nat, e >= Now, NEW s \in SlotsOf(e) PROVE s >= FirstSlot(Now)
        OBVIOUS
    <2>1. FirstSlot(e) \in Nat /\ FirstSlot(e + 1) \in Nat /\ FirstSlot(Now) <= FirstSlot(e)
        BY <1>6, EpochFacts
    <2> QED
        BY <1>6, <2>1 DEF SlotsOf
<1>9. \A s \in SlotsOf(Now) \cup SlotsOf(Now + 1) : Covered(s)'
    <2> SUFFICES ASSUME NEW s \in SlotsOf(Now) \cup SlotsOf(Now + 1) PROVE Covered(s)'
        OBVIOUS
    <2>1. s >= FirstSlot(Now)
        BY <1>6, <1>8
    <2>2. Covered(s) \/ Has(extension, s)
        BY <1>1, EmptyFacts DEF CoverInv, Has
    <2> QED
        BY <1>7, <2>1, <2>2
<1>10. KnownIsCovered'
    <2> SUFFICES ASSUME NEW x \in Range(proposer_schedule'), NEW e \in Nat,
                        e >= Now, FirstSlot(e) <= x.slot, NEW s \in SlotsOf(e)
                 PROVE  Covered(s)'
        BY <1>2 DEF KnownIsCovered
    <2>1. CASE x \in Range(retained)
        <3>1. Covered(s)
            BY <1>3, <2>1 DEF CoverInv, KnownIsCovered
        <3> QED
            BY <1>7, <1>8, <3>1
    <2>2. CASE x \in Range(extension)
        <3>1. x.slot \in Nat /\ x.slot < FirstSlot(Now + 2)
            BY <2>2, ElementFacts DEF CoverInv, SoundInv, RefreshInv, IsWorkedOn
        <3>2. FirstSlot(e) \in Nat /\ FirstSlot(e) < FirstSlot(Now + 2)
            <4>1. FirstSlot(e) \in Nat
                BY EpochFacts
            <4> QED
                BY <1>6, <3>1, <4>1
        <3>3. Now + 2 \in Nat /\ (Now + 2 <= e => FirstSlot(Now + 2) <= FirstSlot(e))
            BY <1>6, EpochFacts
        <3>4. e \in {Now, Now + 1}
            BY <1>6, <3>2, <3>3
        <3> QED
            BY <1>9, <3>4
    <2> QED
        BY <1>4, <2>1, <2>2
<1> QED
    BY <1>2, <1>5, <1>9, <1>10 DEF CoverInv

LEMMA NextCoverInv == CoverInv /\ [Next]_vars => CoverInv'
<1> SUFFICES ASSUME CoverInv, [Next]_vars PROVE CoverInv'
    OBVIOUS
<1>0. SoundInv'
    BY NextSoundInv DEF CoverInv
<1>1. ASSUME UNCHANGED <<proposer_schedule, duties, extension, refreshed>>, Now' = Now,
             clock'.pc = clock.pc \/ (clock.pc \in {"idle", "drain"} /\ clock'.pc \in {"idle", "drain"})
      PROVE  CoverInv'
    BY <1>0, <1>1 DEF CoverInv, RefreshedTypes, KnownIsCovered, Covered, Has
<1>2. CASE Tick
    <2>1. PICK s \in Slots :
            /\ s > clock.slot
            /\ \/ /\ EpochOf(s) > EpochOf(clock.slot)
                  /\ clock' = [pc |-> "fetch", job |-> "on_epoch", slot |-> s]
                  /\ BeginRefresh(s)
               \/ /\ EpochOf(s) = EpochOf(clock.slot)
                  /\ clock' = [pc |-> "drain", job |-> "on_slot", slot |-> s]
                  /\ UNCHANGED refreshed
        BY <1>2 DEF Tick
    <2>2. EpochOf(s) \in Nat /\ Now \in Nat
        BY DutiesKnown, NowFacts DEF CoverInv, SoundInv
    <2>3. CASE clock' = [pc |-> "fetch", job |-> "on_epoch", slot |-> s] /\ EpochOf(s) > Now
               /\ BeginRefresh(s)
        <3>1. EpochOf(s) >= Now
            BY <2>2, <2>3
        <3> QED
            BY <1>0, <1>2, <2>3, <3>1, BeginStep DEF Tick
    <2>4. CASE clock' = [pc |-> "drain", job |-> "on_slot", slot |-> s] /\ EpochOf(s) = Now
               /\ UNCHANGED refreshed
        BY <1>1, <1>2, <2>4 DEF Tick, Now
    <2> QED
        BY <2>1, <2>3, <2>4 DEF Now
<1>3. CASE OnSlotDrain
    <2>1. clock'.slot = clock.slot /\ clock.slot \in Slots
        BY <1>3 DEF OnSlotDrain, CoverInv, SoundInv, Types
    <2>2. CASE outstanding = {}
        <3>1. clock'.pc = "idle" /\ UNCHANGED refreshed
            BY <1>3, <2>2 DEF OnSlotDrain, CoverInv, SoundInv, Types
        <3> QED
            BY <1>1, <1>3, <2>1, <3>1 DEF OnSlotDrain, Now
    <2>3. CASE outstanding # {}
        <3>1. clock'.pc = "fetch" /\ BeginRefresh(clock.slot)
            BY <1>3, <2>3 DEF OnSlotDrain, CoverInv, SoundInv, Types
        <3>2. EpochOf(clock.slot) >= Now
            BY NowFacts DEF Now, CoverInv, SoundInv
        <3> QED
            BY <1>0, <1>3, <2>1, <3>1, <3>2, BeginStep DEF OnSlotDrain
    <2> QED
        BY <2>2, <2>3
<1>4. CASE FetchDuties
    <2>1. /\ FetchDutiesIfMissing(Now) /\ UNCHANGED proposer_schedule
          /\ clock'.pc = "fetch_next" /\ Now' = Now
        BY <1>4 DEF FetchDuties, Now, CoverInv, SoundInv, Types
    <2>2. /\ RefreshedTypes' /\ (refreshed.epoch = Now)' /\ KnownIsCovered'
          /\ \A s \in SlotsOf(Now) : Covered(s)' \/ Has(duties', s)
        BY <2>1, AskedIsCovered
    <2> QED
        BY <1>0, <2>1, <2>2 DEF CoverInv
<1>5. CASE FetchNextDuties
    <2>1. /\ FetchDutiesIfMissing(Now + 1) /\ UNCHANGED proposer_schedule /\ clock.pc = "fetch_next"
          /\ clock'.pc = "extend" /\ Now' = Now
        BY <1>5 DEF FetchNextDuties, Now, CoverInv, SoundInv, Types
    <2>2. /\ RefreshedTypes' /\ (refreshed.epoch = Now)' /\ KnownIsCovered'
          /\ \A s : Covered(s) => Covered(s)'
          /\ \A s : Has(duties, s) => Has(duties', s)
          /\ \A s \in SlotsOf(Now + 1) : Covered(s)' \/ Has(duties', s)
        BY <2>1, AskedIsCovered
    <2>3. \A s \in SlotsOf(Now) : Covered(s) \/ Has(duties, s)
        BY <2>1 DEF CoverInv
    <2> QED
        BY <1>0, <2>1, <2>2, <2>3 DEF CoverInv
<1>6. CASE ExtendWithDuty
    BY <1>0, <1>6, ExtendStep
<1>7. CASE StoreSchedules
    BY <1>0, <1>7, StoreStep
<1>8. ASSUME NEW p \in Proposers, Register(p) \/ Report(p) PROVE CoverInv'
    BY <1>1, <1>8 DEF Register, Report, Now
<1>9. CASE UNCHANGED vars
    BY <1>1, <1>9 DEF vars, Now
<1> QED
    BY <1>2, <1>3, <1>4, <1>5, <1>6, <1>7, <1>8, <1>9 DEF Next, ClockNext

\* Once a refresh is through, each proposal of its epoch and the next is in the schedule or was
\* passed over when the duties of its epoch were asked for, however often the beacon node
\* failed to answer and however slots were skipped.
THEOREM CompleteRefresh == Spec => []RefreshIsComplete
<1>1. CoverInv => RefreshIsComplete
    <2> SUFFICES ASSUME CoverInv, clock.pc \in {"idle", "drain"},
                        NEW slot \in SlotsOf(Now) \cup SlotsOf(Now + 1)
                 PROVE  \/ slot \in refreshed.passed_over
                        \/ \E i \in DOMAIN proposer_schedule : proposer_schedule[i].slot = slot
        BY DEF RefreshIsComplete, CoverInv
    <2> QED
        BY DEF CoverInv, Covered, Range
<1> QED
    BY <1>1, InitCoverInv, NextCoverInv, PTL DEF Spec

----------------------------------------------------------------------------
(***************************************************************************)
(* Schedules have registrations no older than their duties.  Inductive:    *)
(* the registry never goes back behind what it had when a duty arrived, so *)
(* what is read of it afterwards is no older; and duties arrive again only *)
(* for slots that neither the schedule nor the refresh has anything for.   *)
(***************************************************************************)
IsFresh(schedule) == schedule.entry >= arrived[schedule.slot]

FreshInv ==
    /\ SoundInv
    /\ arrived \in [DOMAIN Duty -> 0..MaxVersion]
    /\ \A s \in DOMAIN Duty : arrived[s] <= registration[Duty[s]]
    /\ \A x \in Range(proposer_schedule) : IsFresh(x)
    /\ \A x \in Range(extension) : IsFresh(x)

LEMMA InitFreshInv == Init => FreshInv
<1> SUFFICES ASSUME Init PROVE FreshInv
    OBVIOUS
<1>1. Range(proposer_schedule) = {} /\ Range(extension) = {}
    BY EmptyFacts DEF Init
<1>2. \A s \in DOMAIN Duty : arrived[s] = 0 /\ registration[Duty[s]] = 0
    BY DutiesKnown DEF Init
<1>3. arrived \in [DOMAIN Duty -> 0..MaxVersion]
    BY SchedulerAssumption DEF Init
<1> QED
    BY <1>1, <1>2, <1>3, InitSoundInv DEF FreshInv

\* Duties that arrive are for slots that no schedule has.
LEMMA FetchKeepsFresh ==
    ASSUME FreshInv, SoundInv', NEW e \in {Now, Now + 1}, FetchDutiesIfMissing(e),
           clock.pc # "extend", UNCHANGED <<proposer_schedule, registration, extension>>
    PROVE  FreshInv'
<1>1. extension = << >> /\ Range(extension) = {}
    BY EmptyFacts DEF FreshInv, SoundInv, RefreshInv
<1>2. CASE UNCHANGED arrived
    BY <1>2 DEF FreshInv, IsFresh
<1>3. CASE IsMissing(e) /\ DutiesArrive(e)
    <2>1. \A s \in DOMAIN Duty : /\ arrived'[s] = registration[Duty[s]] \/ arrived'[s] = arrived[s]
                                 /\ s \notin SlotsOf(e) => arrived'[s] = arrived[s]
        BY <1>3 DEF DutiesArrive
    <2>2. \A s \in DOMAIN Duty : /\ registration[Duty[s]] \in 0..MaxVersion
                                 /\ arrived[s] \in 0..MaxVersion
                                 /\ arrived[s] <= registration[Duty[s]]
        BY DutiesKnown DEF FreshInv, SoundInv, Types
    <2>3. arrived' \in [DOMAIN Duty -> 0..MaxVersion]
        BY <1>3, <2>2 DEF DutiesArrive
    <2>4. \A s \in DOMAIN Duty : arrived'[s] <= registration[Duty[s]]
        BY <2>1, <2>2, SchedulerAssumption
    <2>5. e \in Nat /\ FirstSlot(e) \in Nat /\ FirstSlot(e + 1) \in Nat
        BY NowFacts DEF FreshInv, SoundInv
    <2>6. ASSUME NEW x \in Range(proposer_schedule) PROVE IsFresh(x)'
        <3>1. x.slot \in DOMAIN Duty /\ x.slot \in Nat
            BY ElementFacts DEF FreshInv, SoundInv, Schedules
        <3>2. ~(x.slot >= FirstSlot(e))
            BY <1>3 DEF IsMissing, Range
        <3>3. x.slot \notin SlotsOf(e)
            BY <2>5, <3>1, <3>2 DEF SlotsOf
        <3> QED
            BY <2>1, <3>1, <3>3 DEF FreshInv, IsFresh
    <2> QED
        BY <1>1, <2>3, <2>4, <2>6 DEF FreshInv
<1> QED
    BY <1>2, <1>3 DEF FetchDutiesIfMissing

LEMMA NextFreshInv == FreshInv /\ [Next]_vars => FreshInv'
<1> SUFFICES ASSUME FreshInv, [Next]_vars PROVE FreshInv'
    OBVIOUS
<1>0. SoundInv'
    BY NextSoundInv DEF FreshInv
<1>1. ASSUME UNCHANGED <<proposer_schedule, registration, extension, arrived>> PROVE FreshInv'
    BY <1>0, <1>1 DEF FreshInv, IsFresh
<1>2. CASE Tick
    BY <1>1, <1>2 DEF Tick
<1>3. CASE OnSlotDrain
    BY <1>1, <1>3 DEF OnSlotDrain
<1>4. CASE FetchDuties
    BY <1>0, <1>4, FetchKeepsFresh DEF FetchDuties, Now
<1>5. CASE FetchNextDuties
    BY <1>0, <1>5, FetchKeepsFresh DEF FetchNextDuties, Now
<1>6. CASE ExtendWithDuty
    <2> DEFINE duty == Head(duties)
               entry == registration[duty.validator_index]
               schedule == [slot |-> duty.slot, validator_index |-> duty.validator_index,
                            entry |-> entry]
    <2>1. /\ duties # << >> /\ UNCHANGED <<proposer_schedule, registration, arrived>>
          /\ \/ extension' = extension
             \/ entry # 0 /\ extension' = Append(extension, schedule)
        BY <1>6 DEF ExtendWithDuty
    <2>2. duty \in ValidatorDuties /\ duty \in Range(duties)
        BY <2>1, TailFacts DEF FreshInv, SoundInv, Types, RefreshInv
    <2>3. /\ duty.slot \in DOMAIN Duty /\ duty.validator_index \in Proposers
          /\ duty.validator_index = Duty[duty.slot]
        BY <2>2 DEF ValidatorDuties, FreshInv, SoundInv, RefreshInv, IsDue
    <2>4. /\ entry \in 0..MaxVersion /\ arrived[duty.slot] \in 0..MaxVersion
          /\ arrived[duty.slot] <= entry
        BY <2>3 DEF FreshInv, SoundInv, Types
    <2>5. schedule.slot = duty.slot /\ schedule.entry = entry
        OBVIOUS
    <2>6. entry # 0 => schedule \in Schedules
        BY <2>3, <2>4, SchedulerAssumption DEF Schedules
    <2>7. \A x \in Range(extension) : x.slot < duty.slot
        BY <2>2 DEF FreshInv, SoundInv, RefreshInv
    <2> HIDE DEF schedule, duty, entry
    <2>8. IsFresh(schedule)
        BY <2>4, <2>5, SchedulerAssumption DEF IsFresh
    <2>9. Range(extension') \subseteq Range(extension) \cup {schedule}
        <3>1. CASE entry # 0 /\ extension' = Append(extension, schedule)
            BY <2>5, <2>6, <2>7, <3>1, AppendFacts DEF FreshInv, SoundInv, RefreshInv, Types
        <3> QED
            BY <2>1, <3>1
    <2> QED
        BY <1>0, <2>1, <2>8, <2>9 DEF FreshInv, IsFresh
<1>7. CASE StoreSchedules
    <2> DEFINE retained == Retain(proposer_schedule, Current(proposer_schedule, FirstSlot(Now)))
    <2>1. /\ proposer_schedule' = retained \o extension /\ extension' = << >>
          /\ UNCHANGED <<registration, arrived>>
        BY <1>7 DEF StoreSchedules, Current, Now
    <2>2. /\ retained \in Seq(Schedules)
          /\ Range(retained) = {x \in Range(proposer_schedule) : x.slot >= FirstSlot(Now)}
        BY RetainedFacts DEF FreshInv, SoundInv, Types, ScheduleInv
    <2> HIDE DEF retained
    <2>3. /\ Range(proposer_schedule') = Range(retained) \cup Range(extension)
          /\ Range(extension') = {}
        BY <2>1, <2>2, RangeConcatenation, EmptyFacts DEF FreshInv, SoundInv, Types
    <2> QED
        BY <1>0, <2>1, <2>2, <2>3 DEF FreshInv, IsFresh
<1>8. ASSUME NEW p \in Proposers, Register(p) PROVE FreshInv'
    <2>1. UNCHANGED <<proposer_schedule, extension, arrived>>
        BY <1>8 DEF Register
    <2>2. \A q \in Proposers : registration'[q] >= registration[q] /\ registration[q] \in Nat
                               /\ registration'[q] \in Nat
        BY <1>8, SchedulerAssumption DEF Register, FreshInv, SoundInv, Types
    <2>3. \A s \in DOMAIN Duty : arrived[s] <= registration'[Duty[s]]
        BY <2>2, DutiesKnown, SchedulerAssumption DEF FreshInv
    <2> QED
        BY <1>0, <2>1, <2>3 DEF FreshInv, IsFresh
<1>9. ASSUME NEW p \in Proposers, Report(p) PROVE FreshInv'
    BY <1>1, <1>9 DEF Report
<1>10. CASE UNCHANGED vars
    BY <1>1, <1>10 DEF vars
<1> QED
    BY <1>2, <1>3, <1>4, <1>5, <1>6, <1>7, <1>8, <1>9, <1>10 DEF Next, ClockNext

\* Whatever is registered while a refresh waits for the beacon node or goes through the duties,
\* what the schedule tells builders is at least as recent as the registration that the registry
\* had when the duty of the proposal arrived.
THEOREM FreshSchedules == Spec => []NoOlderThanDuties
<1>1. FreshInv => NoOlderThanDuties
    BY DEF FreshInv, IsFresh, NoOlderThanDuties, Range
<1> QED
    BY <1>1, InitFreshInv, NextFreshInv, PTL DEF Spec

=============================================================================
