-------------------------- MODULE AuctioneerProofs --------------------------
(***************************************************************************)
(* What Auctioneer guarantees for any number of relays, proposers and      *)
(* slots and any capacity of its channels.                                 *)
(***************************************************************************)
EXTENDS Auctioneer, SequenceTheorems, TLAPS

----------------------------------------------------------------------------
(* Channels *)

\* What a broadcast channel keeps is the end of what was sent.
LEMMA LatestMessages ==
    ASSUME NEW S, NEW q \in Seq(S), NEW capacity \in Nat \ {0}
    PROVE  /\ Latest(q, capacity) \in Seq(S)
           /\ Len(Latest(q, capacity)) <= capacity
           /\ \E d \in Nat : \A i \in 1..Len(Latest(q, capacity)) :
                i + d \in 1..Len(q) /\ Latest(q, capacity)[i] = q[i + d]
<1>1. CASE Len(q) <= capacity
  <2>1. Latest(q, capacity) = q
    BY <1>1 DEF Latest
  <2>2. \A i \in 1..Len(q) : i + 0 \in 1..Len(q) /\ q[i] = q[i + 0]
    OBVIOUS
  <2> QED
    BY <1>1, <2>1, <2>2
<1>2. CASE Len(q) > capacity
  <2> DEFINE d == Len(q) - capacity
  <2>1. /\ d \in Nat /\ Len(q) \in Nat /\ d + 1 \in 1..Len(q) + 1
        /\ Len(q) \in (d + 1) - 1..Len(q) /\ Len(q) - (d + 1) + 1 = capacity
        /\ d + 1 <= Len(q)
    BY <1>2
  <2>2. Latest(q, capacity) = SubSeq(q, d + 1, Len(q))
    BY <1>2 DEF Latest
  <2>3. /\ SubSeq(q, d + 1, Len(q)) \in Seq(S)
        /\ Len(SubSeq(q, d + 1, Len(q))) = capacity
        /\ \A i \in 1..capacity : SubSeq(q, d + 1, Len(q))[i] = q[(d + 1) + i - 1]
    BY <2>1, SubSeqProperties
  <2>4. \A i \in 1..capacity : i + d \in 1..Len(q) /\ (d + 1) + i - 1 = i + d
    BY <2>1
  <2> HIDE DEF d
  <2>5. /\ Len(Latest(q, capacity)) = capacity
        /\ \A i \in 1..capacity : i + d \in 1..Len(q) /\ Latest(q, capacity)[i] = q[i + d]
    BY <2>2, <2>3, <2>4
  <2>6. d \in Nat /\ Latest(q, capacity) \in Seq(S)
    BY <2>1, <2>2, <2>3
  <2>7. \A i \in 1..Len(Latest(q, capacity)) :
            i + d \in 1..Len(q) /\ Latest(q, capacity)[i] = q[i + d]
    BY <2>5
  <2>8. Len(Latest(q, capacity)) <= capacity
    BY <2>5
  <2> QED
    BY <2>6, <2>7, <2>8
<1> QED
  BY <1>1, <1>2

LEMMA LatestRange ==
    ASSUME NEW S, NEW q \in Seq(S), NEW capacity \in Nat \ {0}
    PROVE  Range(Latest(q, capacity)) \subseteq Range(q)
BY LatestMessages DEF Range

LEMMA AppendRange ==
    ASSUME NEW S, NEW q \in Seq(S), NEW x \in S
    PROVE  Append(q, x) \in Seq(S) /\ Range(Append(q, x)) = Range(q) \cup {x}
<1>1. /\ Append(q, x) \in Seq(S)
      /\ Len(q) \in Nat /\ DOMAIN q = 1..Len(q)
      /\ DOMAIN Append(q, x) = 1..(Len(q) + 1)
      /\ \A i \in 1..Len(q) : Append(q, x)[i] = q[i]
      /\ Append(q, x)[Len(q) + 1] = x
  OBVIOUS
<1>2. Range(Append(q, x)) \subseteq Range(q) \cup {x}
  BY <1>1 DEF Range
<1>3. Range(q) \subseteq Range(Append(q, x)) /\ x \in Range(Append(q, x))
  BY <1>1 DEF Range
<1> QED
  BY <1>1, <1>2, <1>3

LEMMA TailRange ==
    ASSUME NEW S, NEW q \in Seq(S), q # << >>
    PROVE  /\ Head(q) \in Range(q) /\ Head(q) \in S
           /\ Tail(q) \in Seq(S) /\ Range(Tail(q)) \subseteq Range(q)
           /\ Len(Tail(q)) <= Len(q)
<1>1. /\ Len(q) \in Nat \ {0} /\ DOMAIN q = 1..Len(q)
      /\ Head(q) = q[1] /\ q[1] \in S
      /\ Tail(q) \in Seq(S)
      /\ Len(Tail(q)) = Len(q) - 1
      /\ DOMAIN Tail(q) = 1..(Len(q) - 1)
      /\ \A i \in 1..(Len(q) - 1) : Tail(q)[i] = q[i + 1]
  OBVIOUS
<1>2. \A i \in DOMAIN Tail(q) : i + 1 \in DOMAIN q /\ Tail(q)[i] = q[i + 1]
  BY <1>1
<1> QED
  BY <1>1, <1>2 DEF Range

----------------------------------------------------------------------------
(* Slots and epochs *)

LEMMA DivMod ==
    ASSUME NEW a \in Nat, NEW n \in Nat \ {0}
    PROVE  /\ a \div n \in Nat
           /\ (a \div n) * n <= a
           /\ a < (a \div n) * n + n
OBVIOUS

LEMMA TimesMonotone ==
    ASSUME NEW a \in Nat, NEW b \in Nat, NEW n \in Nat, a <= b
    PROVE  a * n \in Nat /\ b * n \in Nat /\ a * n <= b * n
OBVIOUS

\* Epochs start in the order of their numbers.
LEMMA FirstSlotMonotone ==
    ASSUME NEW a \in Nat, NEW b \in Nat, a <= b
    PROVE  FirstSlot(a) \in Nat /\ FirstSlot(b) \in Nat /\ FirstSlot(a) <= FirstSlot(b)
BY TimesMonotone, AuctioneerAssumption DEF FirstSlot

\* A slot's epoch starts at the slot or before, and is the last one that does.
LEMMA EpochStart ==
    ASSUME NEW s \in Slots
    PROVE  /\ EpochOf(s) \in Nat /\ EpochOf(s) <= s
           /\ FirstSlot(EpochOf(s)) \in Nat /\ FirstSlot(EpochOf(s)) <= s
           /\ \A e \in Nat : FirstSlot(e) <= s => e <= EpochOf(s)
<1> DEFINE n == SLOTS_PER_EPOCH
           x == EpochOf(s)
<1>1. s \in Nat /\ n \in Nat \ {0}
  BY AuctioneerAssumption DEF Slots
<1>2. x \in Nat /\ x * n <= s /\ s < x * n + n
  BY <1>1, DivMod DEF EpochOf
<1>3. FirstSlot(EpochOf(s)) = x * n
  BY DEF FirstSlot
<1> HIDE DEF n, x
<1>4. x <= x * n /\ x * n \in Nat
  <2>1. x = x * 1 /\ 1 <= n
    BY <1>1, <1>2
  <2> QED
    BY <1>1, <1>2
<1>5. ASSUME NEW e \in Nat, FirstSlot(e) <= s PROVE e <= x
  <2>1. ASSUME x + 1 <= e PROVE FALSE
    <3>1. (x + 1) * n <= e * n /\ e * n \in Nat
      BY <1>1, <1>2, <2>1, TimesMonotone
    <3>2. (x + 1) * n = x * n + n
      BY <1>1, <1>2
    <3>3. e * n <= s
      BY <1>5 DEF FirstSlot, n
    <3> QED
      BY <1>1, <1>2, <1>4, <3>1, <3>2, <3>3
  <2> QED
    BY <1>2, <2>1
<1> QED
  BY <1>1, <1>2, <1>3, <1>4, <1>5 DEF x

----------------------------------------------------------------------------
(* The clock's messages *)

Messages == [kind : {"slot", "epoch"}, at : Slots]

\* Message m is not ahead of the clock, n, and not behind the epoch processed last, which
\* starts at r: its slot comes after r (the very first one apart).
Timely(m, r, n) ==
    IF m.kind = "slot" THEN m.at <= n /\ (r = 0 \/ m.at > r)
    ELSE m.at <= EpochOf(n) /\ r <= FirstSlot(m.at)

\* After the message of an epoch come only slots after its first one, and later epochs.
MayFollow(m, k) ==
    m.kind = "epoch" => IF k.kind = "slot" THEN k.at > FirstSlot(m.at) ELSE k.at >= m.at

InOrder(q, r, n) ==
    /\ q \in Seq(Messages)
    /\ \A i \in 1..Len(q) : Timely(q[i], r, n)
    /\ \A i, j \in 1..Len(q) : i < j => MayFollow(q[i], q[j])

LEMMA AppendInOrder ==
    ASSUME NEW q, NEW r, NEW n, NEW m \in Messages,
           InOrder(q, r, n), Timely(m, r, n), \A i \in 1..Len(q) : MayFollow(q[i], m)
    PROVE  InOrder(Append(q, m), r, n)
<1>1. /\ q \in Seq(Messages) /\ Append(q, m) \in Seq(Messages)
      /\ Len(q) \in Nat
      /\ Len(Append(q, m)) = Len(q) + 1
      /\ \A i \in 1..Len(q) : Append(q, m)[i] = q[i]
      /\ Append(q, m)[Len(q) + 1] = m
  BY DEF InOrder
<1>2. \A i \in 1..(Len(q) + 1) : i \in 1..Len(q) \/ i = Len(q) + 1
  BY <1>1
<1>3. \A i, j \in 1..(Len(q) + 1) : i < j => i \in 1..Len(q)
  BY <1>1
<1> QED
  BY <1>1, <1>2, <1>3 DEF InOrder

LEMMA LatestInOrder ==
    ASSUME NEW q, NEW r, NEW n, InOrder(q, r, n)
    PROVE  /\ InOrder(Latest(q, ClockCapacity), r, n)
           /\ Len(Latest(q, ClockCapacity)) <= ClockCapacity
<1> DEFINE l == Latest(q, ClockCapacity)
<1>1. ClockCapacity \in Nat \ {0} /\ q \in Seq(Messages)
  BY AuctioneerAssumption DEF InOrder
<1>2. l \in Seq(Messages) /\ Len(l) <= ClockCapacity
  BY <1>1, LatestMessages
<1>3. PICK d \in Nat : \A i \in 1..Len(l) : i + d \in 1..Len(q) /\ l[i] = q[i + d]
  BY <1>1, LatestMessages
<1> HIDE DEF l
<1>4. \A i \in 1..Len(l) : Timely(l[i], r, n)
  BY <1>3 DEF InOrder
<1>5. ASSUME NEW i \in 1..Len(l), NEW j \in 1..Len(l), i < j
      PROVE  MayFollow(l[i], l[j])
  <2>1. i + d < j + d
    BY <1>5
  <2> QED
    BY <1>3, <2>1 DEF InOrder
<1>6. InOrder(l, r, n)
  BY <1>2, <1>4, <1>5 DEF InOrder
<1> QED
  BY <1>2, <1>6 DEF l

LEMMA TailInOrder ==
    ASSUME NEW q, NEW r, NEW n, InOrder(q, r, n), q # << >>
    PROVE  /\ Head(q) \in Messages /\ Timely(Head(q), r, n)
           /\ Len(Tail(q)) <= Len(q)
           /\ InOrder(Tail(q), r, n)
           /\ Head(q).kind = "epoch" => InOrder(Tail(q), FirstSlot(Head(q).at), n)
<1>1. /\ q \in Seq(Messages) /\ Len(q) \in Nat \ {0}
      /\ Head(q) = q[1] /\ q[1] \in Messages
      /\ Tail(q) \in Seq(Messages)
      /\ Len(Tail(q)) = Len(q) - 1
      /\ \A i \in 1..(Len(q) - 1) : Tail(q)[i] = q[i + 1]
  BY DEF InOrder
<1>2. \A i \in 1..(Len(q) - 1) : i + 1 \in 1..Len(q) /\ 1 < i + 1 /\ 1 \in 1..Len(q)
  BY <1>1
<1>3. \A i, j \in 1..(Len(q) - 1) : i < j => i + 1 < j + 1
  BY <1>1
<1>4. InOrder(Tail(q), r, n)
  BY <1>1, <1>2, <1>3 DEF InOrder
<1>5. ASSUME Head(q).kind = "epoch", NEW i \in 1..(Len(q) - 1)
      PROVE  Timely(Tail(q)[i], FirstSlot(Head(q).at), n)
  <2> DEFINE m == Tail(q)[i]
             h == Head(q)
  <2>1. m \in Messages /\ h \in Messages
    BY <1>1
  <2>2. MayFollow(h, m) /\ Timely(m, r, n)
    BY <1>1, <1>2, <1>4, <1>5 DEF InOrder
  <2> HIDE DEF m, h
  <2>3. h.at \in Nat /\ m.at \in Nat /\ h.kind = "epoch"
    BY <1>5, <2>1 DEF Messages, Slots, h
  <2>4. CASE m.kind = "slot"
    BY <2>2, <2>3, <2>4 DEF MayFollow, Timely, h, m
  <2>5. CASE m.kind # "slot"
    <3>1. h.at <= m.at /\ m.at <= EpochOf(n)
      BY <2>2, <2>3, <2>5 DEF MayFollow, Timely
    <3>2. FirstSlot(h.at) <= FirstSlot(m.at)
      BY <2>3, <3>1, FirstSlotMonotone
    <3> QED
      BY <2>5, <3>1, <3>2 DEF Timely, h, m
  <2> QED
    BY <2>4, <2>5
<1>6. 1 \in 1..Len(q) /\ Len(q) - 1 <= Len(q)
  BY <1>1
<1> QED
  BY <1>1, <1>4, <1>5, <1>6 DEF InOrder

\* The clock and the epoch processed last, which started at retain_slot and not later than
\* the clock's epoch.
ClockInv ==
    /\ now \in Slots
    /\ lagged \in BOOLEAN
    /\ Len(clock) <= ClockCapacity
    /\ retain_slot \in Slots
    /\ \E e \in Nat : e <= EpochOf(now) /\ retain_slot = FirstSlot(e)
    /\ InOrder(clock, retain_slot, now)

LEMMA ClockInit == Init => ClockInv
<1> SUFFICES ASSUME Init PROVE ClockInv
  OBVIOUS
<1>1. /\ now \in Slots /\ lagged = FALSE /\ retain_slot = 0
      /\ clock = <<NewSlot(now), NewEpoch(EpochOf(now))>>
  BY DEF Init
<1>2. /\ EpochOf(now) \in Nat /\ EpochOf(now) <= now
      /\ ClockCapacity \in Nat \ {0, 1} /\ MaxSlot \in Nat /\ SLOTS_PER_EPOCH \in Nat
  BY <1>1, EpochStart, AuctioneerAssumption
<1>3. NewSlot(now) \in Messages /\ NewEpoch(EpochOf(now)) \in Messages
  BY <1>1, <1>2 DEF NewSlot, NewEpoch, Messages, Slots
<1>4. 0 \in Slots /\ FirstSlot(0) = 0 /\ FirstSlot(EpochOf(now)) \in Nat
  BY <1>1, <1>2, EpochStart DEF Slots, FirstSlot
<1>5. Timely(NewSlot(now), 0, now) /\ Timely(NewEpoch(EpochOf(now)), 0, now)
  BY <1>1, <1>2, <1>4 DEF Timely, NewSlot, NewEpoch, Slots
<1>6. MayFollow(NewSlot(now), NewEpoch(EpochOf(now)))
  BY DEF MayFollow, NewSlot
<1>7. InOrder(clock, 0, now) /\ Len(clock) <= ClockCapacity
  BY <1>1, <1>2, <1>3, <1>5, <1>6 DEF InOrder
<1>8. 0 \in Nat /\ 0 <= EpochOf(now) /\ retain_slot = FirstSlot(0)
  BY <1>1, <1>2, <1>4
<1> QED
  BY <1>1, <1>4, <1>7, <1>8 DEF ClockInv

LEMMA ClockStep == ClockInv /\ [Next]_vars => ClockInv'
<1> SUFFICES ASSUME ClockInv, [Next]_vars PROVE ClockInv'
  OBVIOUS
<1> USE DEF ClockInv
<1>1. ASSUME UNCHANGED <<clock, now, retain_slot>>, lagged' \in BOOLEAN
      PROVE  ClockInv'
  BY <1>1 DEF InOrder, Timely
<1>2. CASE Tick
  <2>1. PICK s \in Slots : Tick!1!(s)
    BY <1>2 DEF Tick
  <2> DEFINE sent == IF EpochOf(s) > EpochOf(now)
                     THEN clock \o <<NewSlot(s), NewEpoch(EpochOf(s))>>
                     ELSE Append(clock, NewSlot(s))
  <2>2. /\ s > now /\ now' = s
        /\ clock' = Latest(sent, ClockCapacity) /\ lagged' \in BOOLEAN
        /\ UNCHANGED retain_slot
    BY <1>2, <2>1 DEF Tick, history
  <2>3. /\ now \in Nat /\ s \in Nat
        /\ EpochOf(now) \in Nat /\ EpochOf(s) \in Nat /\ EpochOf(s) <= s
        /\ FirstSlot(EpochOf(now)) <= now /\ FirstSlot(EpochOf(now)) \in Nat
        /\ EpochOf(now) <= EpochOf(s)
    <3>1. /\ now \in Nat /\ s \in Nat
          /\ EpochOf(now) \in Nat /\ EpochOf(s) \in Nat /\ EpochOf(s) <= s
          /\ FirstSlot(EpochOf(now)) <= now /\ FirstSlot(EpochOf(now)) \in Nat
      BY EpochStart DEF Slots
    <3>2. FirstSlot(EpochOf(now)) <= s
      BY <2>2, <3>1
    <3> QED
      BY <3>1, <3>2, EpochStart
  <2>4. NewSlot(s) \in Messages /\ NewEpoch(EpochOf(s)) \in Messages
    <3>1. EpochOf(s) \in Slots
      BY <2>3, AuctioneerAssumption DEF Slots
    <3> QED
      BY <3>1 DEF NewSlot, NewEpoch, Messages
  <2>5. /\ clock \in Seq(Messages) /\ Len(clock) \in Nat
        /\ \A i \in 1..Len(clock) : clock[i] \in Messages /\ Timely(clock[i], retain_slot, now)
    BY DEF InOrder
  <2>6. ASSUME NEW m \in Messages, Timely(m, retain_slot, now)
        PROVE  Timely(m, retain_slot, s) /\ MayFollow(m, NewSlot(s)) /\ MayFollow(m, NewEpoch(EpochOf(s)))
    <3>1. m.at \in Nat
      BY DEF Messages, Slots
    <3>2. CASE m.kind = "slot"
      BY <2>2, <2>3, <2>6, <3>1, <3>2 DEF Timely, MayFollow
    <3>3. CASE m.kind # "slot"
      <4>1. m.at <= EpochOf(now) /\ retain_slot <= FirstSlot(m.at)
        BY <2>6, <3>3 DEF Timely
      <4>2. FirstSlot(m.at) <= FirstSlot(EpochOf(now)) /\ FirstSlot(m.at) \in Nat
        BY <2>3, <3>1, <4>1, FirstSlotMonotone
      <4>3. m.at <= EpochOf(s) /\ FirstSlot(m.at) < s
        BY <2>2, <2>3, <3>1, <4>1, <4>2
      <4> QED
        BY <2>3, <3>1, <3>3, <4>1, <4>3 DEF Timely, MayFollow, NewSlot, NewEpoch
    <3> QED
      BY <3>2, <3>3
  <2>7. PICK e \in Nat : e <= EpochOf(now) /\ retain_slot = FirstSlot(e)
    OBVIOUS
  <2>8. retain_slot <= now /\ retain_slot \in Nat
    BY <2>3, <2>7, FirstSlotMonotone
  <2>9. Timely(NewSlot(s), retain_slot, s)
    BY <2>2, <2>3, <2>8 DEF Timely, NewSlot
  <2>10. Timely(NewEpoch(EpochOf(s)), retain_slot, s)
    <3>1. e <= EpochOf(s)
      BY <2>3, <2>7
    <3>2. FirstSlot(e) <= FirstSlot(EpochOf(s))
      BY <2>3, <3>1, FirstSlotMonotone
    <3> QED
      BY <2>3, <2>7, <3>2 DEF Timely, NewEpoch
  <2>11. InOrder(clock, retain_slot, s)
    BY <2>5, <2>6 DEF InOrder
  <2>12. InOrder(Append(clock, NewSlot(s)), retain_slot, s)
    BY <2>4, <2>5, <2>6, <2>9, <2>11, AppendInOrder
  <2>13. InOrder(clock \o <<NewSlot(s), NewEpoch(EpochOf(s))>>, retain_slot, s)
    <3> DEFINE q == Append(clock, NewSlot(s))
    <3>1. /\ q \in Seq(Messages) /\ Len(q) = Len(clock) + 1
          /\ \A i \in 1..Len(clock) : q[i] = clock[i]
          /\ q[Len(clock) + 1] = NewSlot(s)
      BY <2>4, <2>5
    <3>2. MayFollow(NewSlot(s), NewEpoch(EpochOf(s)))
      BY DEF MayFollow, NewSlot
    <3>3. \A i \in 1..Len(q) : MayFollow(q[i], NewEpoch(EpochOf(s)))
      BY <2>5, <2>6, <3>1, <3>2
    <3>4. InOrder(Append(q, NewEpoch(EpochOf(s))), retain_slot, s)
      BY <2>4, <2>10, <2>12, <3>3, AppendInOrder
    <3>5. clock \o <<NewSlot(s), NewEpoch(EpochOf(s))>> = Append(q, NewEpoch(EpochOf(s)))
      BY <2>4, <2>5
    <3> QED
      BY <3>4, <3>5
  <2>14. InOrder(sent, retain_slot, s)
    BY <2>12, <2>13
  <2> HIDE DEF sent
  <2>15. InOrder(clock', retain_slot, s) /\ Len(clock') <= ClockCapacity
    BY <2>2, <2>14, LatestInOrder
  <2>16. e <= EpochOf(s)
    BY <2>3, <2>7
  <2> QED
    BY <2>2, <2>7, <2>15, <2>16
<1>3. CASE OnSlot
  <2>1. clock # << >> /\ clock' = Tail(clock) /\ UNCHANGED <<now, lagged, retain_slot>>
    BY <1>3 DEF OnSlot, ClockReceives
  <2>2. InOrder(Tail(clock), retain_slot, now) /\ Len(Tail(clock)) <= Len(clock)
    BY <2>1, TailInOrder
  <2>3. clock \in Seq(Messages) /\ Tail(clock) \in Seq(Messages)
    BY <2>2 DEF InOrder
  <2>4. Len(Tail(clock)) <= ClockCapacity
    BY <2>2, <2>3, AuctioneerAssumption
  <2> QED
    BY <2>1, <2>2, <2>4
<1>4. CASE OnEpoch
  <2> DEFINE e == Head(clock).at
  <2>1. /\ clock # << >> /\ clock' = Tail(clock) /\ Head(clock).kind = "epoch"
        /\ retain_slot' = FirstSlot(e) /\ UNCHANGED <<now, lagged>>
    BY <1>4 DEF OnEpoch, ClockReceives
  <2>2. InOrder(Tail(clock), FirstSlot(e), now) /\ Len(Tail(clock)) <= Len(clock)
        /\ Head(clock) \in Messages /\ Timely(Head(clock), retain_slot, now)
    BY <2>1, TailInOrder
  <2>3. clock \in Seq(Messages) /\ Tail(clock) \in Seq(Messages)
    BY <2>2 DEF InOrder
  <2>4. Len(Tail(clock)) <= ClockCapacity
    BY <2>2, <2>3, AuctioneerAssumption
  <2>5. e \in Nat /\ e <= EpochOf(now)
    BY <2>1, <2>2 DEF Timely, Messages, Slots
  <2>6. FirstSlot(e) \in Slots
    <3>1. FirstSlot(e) \in Nat /\ FirstSlot(e) <= FirstSlot(EpochOf(now))
      BY <2>5, EpochStart, FirstSlotMonotone
    <3> QED
      BY <3>1, EpochStart, AuctioneerAssumption DEF Slots
  <2> HIDE DEF e
  <2> QED
    BY <2>1, <2>2, <2>4, <2>5, <2>6
<1>5. CASE OnPayloadAttributes \/ SubmitPayload
  BY <1>1, <1>5 DEF OnPayloadAttributes, SubmitPayload, OtherBranch
<1>6. CASE Startup \/ (\E a \in Attributes : Announce(a))
           \/ (\E j \in jobs : JobDelivers(j) \/ JobEnds(j)) \/ (\E p \in Proposers : OpenAuction(p))
  BY <1>1, <1>6 DEF Startup, Announce, JobDelivers, JobEnds, OpenAuction, inputs, history
<1>7. CASE UNCHANGED vars
  BY <1>1, <1>7 DEF vars, inputs, history
<1> QED
  BY <1>2, <1>3, <1>4, <1>5, <1>6, <1>7 DEF Next

\* Between two steps, the start of the epoch processed last never goes back.
LEMMA RetainGrows == ClockInv /\ [Next]_vars => retain_slot' >= retain_slot
<1> SUFFICES ASSUME ClockInv, [Next]_vars PROVE retain_slot' >= retain_slot
  OBVIOUS
<1>1. retain_slot \in Nat
  BY DEF ClockInv, Slots
<1>2. CASE OnEpoch
  <2>1. clock # << >> /\ Head(clock).kind = "epoch" /\ retain_slot' = FirstSlot(Head(clock).at)
    BY <1>2 DEF OnEpoch, ClockReceives
  <2>2. Timely(Head(clock), retain_slot, now) /\ Head(clock) \in Messages
    BY <2>1, TailInOrder DEF ClockInv
  <2>3. FirstSlot(Head(clock).at) \in Nat
    BY <2>2, FirstSlotMonotone DEF Messages, Slots
  <2> QED
    BY <1>1, <2>1, <2>2, <2>3 DEF Timely
<1>3. CASE UNCHANGED retain_slot
  BY <1>1, <1>3
<1> QED
  BY <1>2, <1>3
  DEF Next, Tick, Announce, JobDelivers, JobEnds, Startup, OnSlot, OnPayloadAttributes, OpenAuction,
      SubmitPayload, vars, history

----------------------------------------------------------------------------
(* The schedule *)

\* The schedule holds what relays reported, and nothing for a slot before the epoch that was
\* processed last: what was cleared does not come back.
ScheduleInv ==
    /\ auction_schedule \in [Slots -> SUBSET (Proposers \X Relays)]
    /\ reported \subseteq Slots \X Proposers \X Relays
    /\ \A s \in Slots, p \in Proposers, r \in Relays :
        <<p, r>> \in auction_schedule[s] => <<s, p, r>> \in reported
    /\ \A s \in Slots : s < retain_slot => auction_schedule[s] = {}
    /\ task.pc = "startup" => retain_slot = 0

\* No relay reports a slot that was cleared: it is at most a slot behind the clock, and the
\* clock has passed the first slot of the epoch whose message was processed.
LEMMA ReportsAreTimely ==
    ASSUME ClockInv, retain_slot = 0 \/ now > retain_slot
    PROVE  \A e \in ReportableEntries : e \in Entries /\ e.slot >= retain_slot
<1>1. now \in Nat /\ retain_slot \in Nat /\ MaxSlot \in Nat /\ now <= MaxSlot
  BY AuctioneerAssumption DEF ClockInv, Slots
<1>2. \A e \in Entries : e.slot \in Nat
  BY AuctioneerAssumption DEF Slots
<1>3. CASE retain_slot = 0
  BY <1>2, <1>3 DEF ReportableEntries
<1>4. CASE now > retain_slot
  <2>1. now # 0 /\ now - 1 \in Slots /\ retain_slot <= now - 1
    BY <1>1, <1>4 DEF Slots
  <2>2. PICK e \in Nat : retain_slot = FirstSlot(e)
    BY DEF ClockInv
  <2>3. e <= EpochOf(now - 1) /\ EpochOf(now - 1) \in Nat
    BY <2>1, <2>2, EpochStart
  <2>4. retain_slot <= FirstSlot(EpochOf(now - 1)) /\ FirstSlot(EpochOf(now - 1)) \in Nat
    BY <2>2, <2>3, FirstSlotMonotone
  <2>5. ASSUME NEW x \in ReportableEntries PROVE x \in Entries /\ x.slot >= FirstSlot(EpochOf(now - 1))
    BY <2>1 DEF ReportableEntries
  <2> QED
    BY <1>1, <1>2, <2>4, <2>5
<1> QED
  BY <1>3, <1>4

LEMMA FetchStep ==
    ASSUME ClockInv, ScheduleInv, FetchProposerSchedules, UNCHANGED retain_slot,
           retain_slot = 0 \/ now > retain_slot, task'.pc # "startup"
    PROVE  ScheduleInv'
<1>1. PICK answers \in SUBSET (ReportableEntries \X Relays) :
        /\ auction_schedule' = [s \in Slots |-> auction_schedule[s] \cup
                {<<x[1].proposer, x[2]>> : x \in {y \in answers : y[1].slot = s}}]
        /\ reported' = reported \cup {<<x[1].slot, x[1].proposer, x[2]>> : x \in answers}
  BY DEF FetchProposerSchedules
<1>2. ASSUME NEW x \in answers
      PROVE  /\ x[1].slot \in Slots /\ x[1].proposer \in Proposers /\ x[2] \in Relays
             /\ x[1].slot >= retain_slot
  <2>1. x[1] \in ReportableEntries /\ x[2] \in Relays
    OBVIOUS
  <2>2. x[1] \in Entries /\ x[1].slot >= retain_slot
    BY <2>1, ReportsAreTimely
  <2> QED
    BY <2>1, <2>2, AuctioneerAssumption
<1>3. auction_schedule' \in [Slots -> SUBSET (Proposers \X Relays)]
  <2>1. ASSUME NEW s \in Slots
        PROVE  {<<x[1].proposer, x[2]>> : x \in {y \in answers : y[1].slot = s}}
                    \subseteq Proposers \X Relays
    BY <1>2
  <2>2. \A s \in Slots : auction_schedule[s] \subseteq Proposers \X Relays
    BY DEF ScheduleInv
  <2> QED
    BY <1>1, <2>1, <2>2
<1>4. reported' \subseteq Slots \X Proposers \X Relays
  BY <1>1, <1>2 DEF ScheduleInv
<1>5. ASSUME NEW s \in Slots, NEW p \in Proposers, NEW r \in Relays, <<p, r>> \in auction_schedule'[s]
      PROVE  <<s, p, r>> \in reported'
  <2>1. CASE <<p, r>> \in auction_schedule[s]
    BY <1>1, <2>1 DEF ScheduleInv
  <2>2. CASE <<p, r>> \in {<<x[1].proposer, x[2]>> : x \in {y \in answers : y[1].slot = s}}
    <3>1. PICK x \in answers : x[1].slot = s /\ <<p, r>> = <<x[1].proposer, x[2]>>
      BY <2>2
    <3>2. p = x[1].proposer /\ r = x[2]
      BY <3>1
    <3> QED
      BY <1>1, <3>1, <3>2
  <2> QED
    BY <1>1, <1>5, <2>1, <2>2
<1>6. ASSUME NEW s \in Slots, s < retain_slot
      PROVE  auction_schedule'[s] = {}
  <2>1. auction_schedule[s] = {}
    BY <1>6 DEF ScheduleInv
  <2>2. \A x \in answers : x[1].slot # s
    BY <1>2, <1>6 DEF ClockInv, Slots
  <2> QED
    BY <1>1, <2>1, <2>2
<1> QED
  BY <1>3, <1>4, <1>5, <1>6 DEF ScheduleInv

LEMMA ScheduleInit == Init => ScheduleInv
BY DEF Init, ScheduleInv

LEMMA ScheduleStep == ClockInv /\ ScheduleInv /\ [Next]_vars => ScheduleInv'
<1> SUFFICES ASSUME ClockInv, ScheduleInv, [Next]_vars PROVE ScheduleInv'
  OBVIOUS
<1>1. ASSUME UNCHANGED <<auction_schedule, reported, retain_slot>>,
             task'.pc = "startup" => task.pc = "startup"
      PROVE  ScheduleInv'
  BY <1>1 DEF ScheduleInv
<1>2. CASE Startup
  BY <1>2, FetchStep DEF Startup, IdleTask, ScheduleInv
<1>3. CASE OnSlot
  <2>1. /\ task.pc = "idle" /\ UNCHANGED <<task, retain_slot>>
        /\ clock # << >> /\ Head(clock).kind = "slot"
    BY <1>3 DEF OnSlot, ClockReceives
  <2>2. CASE UNCHANGED <<auction_schedule, reported>>
    BY <1>1, <2>1, <2>2
  <2>3. CASE FetchProposerSchedules
    <3>1. Timely(Head(clock), retain_slot, now) /\ Head(clock) \in Messages
      BY <2>1, TailInOrder DEF ClockInv
    <3>2. retain_slot = 0 \/ now > retain_slot
      BY <2>1, <3>1 DEF Timely, ClockInv, Messages, Slots
    <3> QED
      BY <2>1, <2>3, <3>2, FetchStep
  <2> QED
    BY <1>3, <2>2, <2>3 DEF OnSlot
<1>4. CASE OnEpoch
  <2>1. /\ auction_schedule' = [s \in Slots |-> IF s >= retain_slot' THEN auction_schedule[s] ELSE {}]
        /\ task.pc = "idle" /\ UNCHANGED <<task, reported>>
    BY <1>4 DEF OnEpoch, ClockReceives
  <2>2. retain_slot' \in Slots
    BY ClockStep DEF ClockInv
  <2>3. auction_schedule' \in [Slots -> SUBSET (Proposers \X Relays)]
    BY <2>1 DEF ScheduleInv
  <2>4. \A s \in Slots : auction_schedule'[s] \subseteq auction_schedule[s]
    BY <2>1
  <2>5. \A s \in Slots : s < retain_slot' => auction_schedule'[s] = {}
    BY <2>1, <2>2 DEF Slots
  <2> QED
    BY <2>1, <2>3, <2>4, <2>5 DEF ScheduleInv
<1>5. CASE Tick \/ (\E a \in Attributes : Announce(a)) \/ (\E j \in jobs : JobDelivers(j) \/ JobEnds(j))
  BY <1>1, <1>5 DEF Tick, Announce, JobDelivers, JobEnds, state, history
<1>6. CASE OnPayloadAttributes
  <2>1. UNCHANGED <<auction_schedule, reported, retain_slot>> /\ task'.pc # "startup"
    BY <1>6 DEF OnPayloadAttributes, OtherBranch
  <2> QED
    BY <1>1, <2>1
<1>7. ASSUME NEW p \in Proposers, OpenAuction(p)
      PROVE  ScheduleInv'
  <2>1. UNCHANGED <<auction_schedule, reported, retain_slot>> /\ task.pc = "opening"
        /\ task' = NextProposal(p)
    BY <1>7 DEF OpenAuction, history
  <2>2. task'.pc # "startup"
    BY <2>1 DEF NextProposal, IdleTask
  <2> QED
    BY <1>1, <2>1, <2>2
<1>8. CASE SubmitPayload
  <2>1. UNCHANGED <<auction_schedule, reported, retain_slot>> /\ task'.pc # "startup"
    BY <1>8 DEF SubmitPayload, OtherBranch, state, IdleTask
  <2> QED
    BY <1>1, <2>1
<1>9. CASE UNCHANGED vars
  BY <1>1, <1>9 DEF vars, state, history
<1> QED
  BY <1>2, <1>3, <1>4, <1>5, <1>6, <1>7, <1>8, <1>9 DEF Next

LEMMA ScheduleHolds == Spec => [](ClockInv /\ ScheduleInv)
BY ClockInit, ClockStep, ScheduleInit, ScheduleStep, PTL DEF Spec

----------------------------------------------------------------------------
(* Auctions and their payload ids *)

LEMMA IdShape ==
    ASSUME NEW a \in Attributes, NEW p \in Proposers
    PROVE  LET id == MixProposalIntoPayloadId(a.id, p) IN
           Len(id) = 2 /\ id[1] = a.id[1] /\ id[2] = <<p.gas_limit, p.fee_recipient>>
<1> DEFINE x == a.id[1]
           y == <<p.gas_limit, p.fee_recipient>>
<1>1. a.id = <<x>>
  BY AuctioneerAssumption
<1> HIDE DEF x, y
<1>2. Len(Append(<<x>>, y)) = 2 /\ Append(<<x>>, y)[1] = x /\ Append(<<x>>, y)[2] = y
  <2>1. <<x>> \in Seq({x, y}) /\ y \in {x, y} /\ Len(<<x>>) = 1 /\ <<x>>[1] = x
    OBVIOUS
  <2> QED
    BY <2>1
<1> QED
  BY <1>1, <1>2 DEF MixProposalIntoPayloadId, x, y

\* The id of an auction tells the attributes it was opened for, and the fee recipient and
\* the gas limit of its proposer.
LEMMA IdDetermines ==
    ASSUME NEW a \in Attributes, NEW p \in Proposers, NEW b \in Attributes, NEW q \in Proposers,
           MixProposalIntoPayloadId(a.id, p) = MixProposalIntoPayloadId(b.id, q)
    PROVE  /\ a.id = b.id /\ a.slot = b.slot
           /\ p.gas_limit = q.gas_limit /\ p.fee_recipient = q.fee_recipient
<1>1. a.id[1] = b.id[1] /\ <<p.gas_limit, p.fee_recipient>> = <<q.gas_limit, q.fee_recipient>>
  BY IdShape
<1>2. a.id = b.id
  BY <1>1, AuctioneerAssumption
<1>3. a.slot = b.slot
  BY <1>2, AuctioneerAssumption
<1> QED
  BY <1>1, <1>2, <1>3

\* What new_payload announces of the auctions' own jobs.
OwnEvents ==
    {[slot |-> a.slot, id |-> MixProposalIntoPayloadId(a.id, p)] : a \in Attributes, p \in Proposers}

JobFor(a, p) ==
    [slot |-> a.slot, id |-> MixProposalIntoPayloadId(a.id, p), fee_recipient |-> p.fee_recipient,
     gas_limit |-> p.gas_limit]

Jobs == {JobFor(a, p) : a \in Attributes, p \in Proposers}

\* An auction stands for a proposal that its relays reported, and for attributes that the
\* engine API announced, not for those of another auction's job.
WellFounded(auction, id) ==
    /\ auction.id = id
    /\ auction.slot \in Slots
    /\ auction.proposer \in Proposers
    /\ auction.relays \in (SUBSET Relays) \ {{}}
    /\ \E a \in Attributes :
        auction.slot = a.slot /\ id = MixProposalIntoPayloadId(a.id, auction.proposer)

AuctionsInv ==
    \A id \in DOMAIN open_auctions :
        /\ WellFounded(open_auctions[id], id)
        /\ open_auctions[id].slot >= retain_slot
        /\ \A r \in open_auctions[id].relays :
            <<open_auctions[id].slot, open_auctions[id].proposer, r>> \in reported

TaskInv ==
    /\ task.pc \in {"startup", "idle", "opening", "panicked"}
    /\ task.slot \in Slots
    /\ task.todo \subseteq Proposers
    /\ task.pc = "opening" =>
        /\ \E a \in Attributes : task.id = a.id /\ task.slot = a.slot
        /\ task.todo \subseteq GetProposals(task.slot)
        /\ task.todo # {}

ChannelsInv ==
    /\ events \in Seq(Attributes \cup OwnEvents) /\ Len(events) <= EventCapacity
    /\ bids \in Seq(Jobs) /\ Len(bids) <= BidCapacity
    /\ jobs \subseteq Jobs

\* The announcement of an auction's own job finds its id processed, or its slot cleared.
OwnEventsProcessed ==
    /\ DOMAIN processed_payload_attributes = Slots
    /\ \A e \in Range(events) : e \in OwnEvents =>
        e.slot < retain_slot \/ e.id \in processed_payload_attributes[e.slot]

OpeningInv == AuctionsInv /\ TaskInv /\ ChannelsInv /\ OwnEventsProcessed

LEMMA OwnIdsApart ==
    ASSUME NEW e \in OwnEvents
    PROVE  e.slot \in Slots /\ \A b \in Attributes : b.id # e.id
<1>1. PICK a \in Attributes, p \in Proposers :
        e = [slot |-> a.slot, id |-> MixProposalIntoPayloadId(a.id, p)]
  BY DEF OwnEvents
<1>2. Len(e.id) = 2 /\ e.slot \in Slots
  BY <1>1, IdShape, AuctioneerAssumption
<1>3. ASSUME NEW b \in Attributes PROVE Len(b.id) = 1
  <2> DEFINE x == b.id[1]
  <2>1. b.id = <<x>>
    BY AuctioneerAssumption
  <2> HIDE DEF x
  <2>2. Len(<<x>>) = 1
    OBVIOUS
  <2> QED
    BY <2>1, <2>2
<1> QED
  BY <1>2, <1>3

LEMMA OwnEventsApart ==
    ASSUME NEW e \in OwnEvents
    PROVE  e \notin Attributes /\ e.slot \in Slots
BY OwnIdsApart

\* The job of a well-founded auction is the one its id stands for.
LEMMA JobOfId ==
    ASSUME NEW auction, NEW a \in Attributes, NEW p \in Proposers,
           WellFounded(auction, MixProposalIntoPayloadId(a.id, p))
    PROVE  /\ auction.slot = a.slot
           /\ JobOf(auction) = JobFor(a, p)
           /\ JobOf(auction) \in Jobs
           /\ [slot |-> auction.slot, id |-> auction.id] \in OwnEvents
<1> DEFINE id == MixProposalIntoPayloadId(a.id, p)
<1>1. auction.id = id /\ auction.proposer \in Proposers
  BY DEF WellFounded
<1>2. PICK b \in Attributes :
        auction.slot = b.slot /\ id = MixProposalIntoPayloadId(b.id, auction.proposer)
  BY DEF WellFounded
<1>3. /\ b.slot = a.slot
      /\ auction.proposer.fee_recipient = p.fee_recipient
      /\ auction.proposer.gas_limit = p.gas_limit
  BY <1>1, <1>2, IdDetermines
<1>4. JobOf(auction) = JobFor(a, p)
  BY <1>1, <1>2, <1>3 DEF JobOf, JobFor
<1>5. JobOf(auction) \in Jobs
  BY <1>4 DEF Jobs
<1>6. [slot |-> auction.slot, id |-> auction.id] = [slot |-> a.slot, id |-> id]
  BY <1>1, <1>2, <1>3
<1>7. [slot |-> a.slot, id |-> id] \in OwnEvents
  BY DEF OwnEvents
<1> QED
  BY <1>2, <1>3, <1>4, <1>5, <1>6, <1>7

\* A proposal that is taken up has relays, and a slot that is not cleared.
LEMMA ProposalHasRelays ==
    ASSUME ClockInv, ScheduleInv, NEW s \in Slots, NEW p \in GetProposals(s)
    PROVE  p \in Proposers /\ RelaysOf(s, p) \in (SUBSET Relays) \ {{}} /\ s >= retain_slot
           /\ \A r \in RelaysOf(s, p) : <<s, p, r>> \in reported
<1>1. p \in Proposers /\ RelaysOf(s, p) \in (SUBSET Relays) \ {{}} /\ auction_schedule[s] # {}
  <2>1. p \in Proposers /\ \E r \in Relays : <<p, r>> \in auction_schedule[s]
    BY DEF GetProposals
  <2>2. RelaysOf(s, p) \subseteq Relays /\ RelaysOf(s, p) # {}
    BY <2>1 DEF RelaysOf
  <2> QED
    BY <2>1, <2>2
<1>2. s \in Nat /\ retain_slot \in Nat
  BY DEF ClockInv, Slots
<1> QED
  BY <1>1, <1>2 DEF ScheduleInv, RelaysOf

LEMMA OpeningInit == Init => OpeningInv
<1> SUFFICES ASSUME Init PROVE OpeningInv
  OBVIOUS
<1>1. AuctionsInv
  BY DEF Init, AuctionsInv
<1>2. TaskInv
  BY AuctioneerAssumption DEF Init, TaskInv, IdleTask, Slots
<1>3. ChannelsInv
  BY AuctioneerAssumption DEF Init, ChannelsInv
<1>4. OwnEventsProcessed
  BY DEF Init, OwnEventsProcessed, Range
<1> QED
  BY <1>1, <1>2, <1>3, <1>4 DEF OpeningInv

\* A channel of events takes another one.
LEMMA EventsStep ==
    ASSUME ChannelsInv, NEW e \in Attributes \cup OwnEvents
    PROVE  LET q == Latest(Append(events, e), EventCapacity) IN
           /\ q \in Seq(Attributes \cup OwnEvents) /\ Len(q) <= EventCapacity
           /\ Range(q) \subseteq Range(events) \cup {e}
<1> DEFINE q == Append(events, e)
<1>1. q \in Seq(Attributes \cup OwnEvents) /\ Range(q) = Range(events) \cup {e}
  BY AppendRange DEF ChannelsInv
<1>2. EventCapacity \in Nat \ {0}
  BY AuctioneerAssumption
<1> HIDE DEF q
<1>3. /\ Latest(q, EventCapacity) \in Seq(Attributes \cup OwnEvents)
      /\ Len(Latest(q, EventCapacity)) <= EventCapacity
      /\ Range(Latest(q, EventCapacity)) \subseteq Range(q)
  BY <1>1, <1>2, LatestMessages, LatestRange
<1> QED
  BY <1>1, <1>3 DEF q

\* What opening an auction for proposal p does to the auctions and to the job.
LEMMA OpenAuctionFacts ==
    ASSUME ClockInv, ScheduleInv, OpeningInv, NEW p \in Proposers, OpenAuction(p)
    PROVE  \E a \in Attributes :
            LET id == MixProposalIntoPayloadId(a.id, p)
                new == [slot |-> task.slot, id |-> id, proposer |-> p,
                        relays |-> RelaysOf(task.slot, p)] IN
            /\ task.id = a.id /\ task.slot = a.slot
            /\ p \in GetProposals(task.slot)
            /\ open_auctions' = StoreAuction(new)
            /\ WellFounded(new, id)
            /\ DOMAIN open_auctions' = DOMAIN open_auctions \cup {id}
            /\ \A x \in DOMAIN open_auctions : open_auctions'[x] = open_auctions[x]
            /\ id \notin DOMAIN open_auctions => open_auctions'[id] = new
            /\ WellFounded(open_auctions'[id], id)
            /\ JobOf(open_auctions'[id]) = JobFor(a, p)
<1>1. PICK a \in Attributes : task.id = a.id /\ task.slot = a.slot
  BY DEF OpeningInv, TaskInv, OpenAuction
<1> DEFINE id == MixProposalIntoPayloadId(a.id, p)
           new == [slot |-> task.slot, id |-> id, proposer |-> p, relays |-> RelaysOf(task.slot, p)]
<1>2. p \in GetProposals(task.slot) /\ task.slot \in Slots
  BY DEF OpeningInv, TaskInv, OpenAuction
<1>3. open_auctions' = StoreAuction(new)
  BY <1>1 DEF OpenAuction
<1>4. /\ new.slot = a.slot /\ new.slot \in Slots /\ new.id = id /\ new.proposer = p
      /\ new.relays = RelaysOf(task.slot, p)
  BY <1>1, <1>2
<1>5. WellFounded(new, id)
  BY <1>2, <1>4, ProposalHasRelays DEF WellFounded
<1> HIDE DEF id, new
<1>6. /\ DOMAIN open_auctions' = DOMAIN open_auctions \cup {id}
      /\ \A x \in DOMAIN open_auctions : open_auctions'[x] = open_auctions[x]
      /\ id \notin DOMAIN open_auctions => open_auctions'[id] = new
  BY <1>3, <1>4 DEF StoreAuction
<1>7. WellFounded(open_auctions'[id], id)
  BY <1>5, <1>6 DEF OpeningInv, AuctionsInv
<1>8. JobOf(open_auctions'[id]) = JobFor(a, p)
  BY <1>7, JobOfId DEF id
<1> QED
  BY <1>1, <1>2, <1>3, <1>5, <1>6, <1>7, <1>8 DEF id, new

LEMMA OpeningStep == ClockInv /\ ScheduleInv /\ OpeningInv /\ [Next]_vars => OpeningInv'
<1> SUFFICES ASSUME ClockInv, ScheduleInv, OpeningInv, [Next]_vars PROVE OpeningInv'
  OBVIOUS
<1>0. /\ AuctionsInv /\ TaskInv /\ ChannelsInv /\ OwnEventsProcessed
      /\ retain_slot' >= retain_slot /\ retain_slot \in Nat /\ retain_slot' \in Nat
  BY RetainGrows, ClockStep DEF OpeningInv, ClockInv, Slots
<1>1. ASSUME UNCHANGED <<open_auctions, retain_slot>>, reported \subseteq reported'
      PROVE  AuctionsInv'
  BY <1>0, <1>1 DEF AuctionsInv, WellFounded
<1>2. ASSUME UNCHANGED task, task.pc # "opening" \/ UNCHANGED auction_schedule
      PROVE  TaskInv'
  BY <1>0, <1>2 DEF TaskInv, GetProposals
<1>3. ASSUME UNCHANGED <<events, bids, jobs>>
      PROVE  ChannelsInv'
  BY <1>0, <1>3 DEF ChannelsInv
<1>4. ASSUME UNCHANGED <<processed_payload_attributes, events, retain_slot>>
      PROVE  OwnEventsProcessed'
  BY <1>0, <1>4 DEF OwnEventsProcessed, Range
<1>5. CASE Tick
  <2>1. UNCHANGED <<state, task, events, bids, jobs, history>>
    BY <1>5 DEF Tick
  <2> QED
    BY <1>1, <1>2, <1>3, <1>4, <2>1 DEF OpeningInv, state, history
<1>6. ASSUME NEW a \in Attributes, Announce(a)
      PROVE  OpeningInv'
  <2>1. events' = Latest(Append(events, a), EventCapacity) /\ UNCHANGED <<state, task, bids, jobs, history>>
    BY <1>6 DEF Announce
  <2>2. /\ events' \in Seq(Attributes \cup OwnEvents) /\ Len(events') <= EventCapacity
        /\ Range(events') \subseteq Range(events) \cup {a}
    BY <1>0, <2>1, EventsStep
  <2>3. ChannelsInv'
    BY <1>0, <2>1, <2>2 DEF ChannelsInv
  <2>4. OwnEventsProcessed'
    BY <1>0, <2>1, <2>2, OwnEventsApart DEF OwnEventsProcessed, state, history
  <2> QED
    BY <1>1, <1>2, <2>1, <2>3, <2>4 DEF OpeningInv, state, history
<1>7. ASSUME NEW j \in jobs, JobDelivers(j)
      PROVE  OpeningInv'
  <2>1. /\ Len(bids) < BidCapacity /\ bids' = Append(bids, j)
        /\ UNCHANGED <<state, task, events, jobs, history>>
    BY <1>7 DEF JobDelivers
  <2>2. j \in Jobs /\ bids \in Seq(Jobs)
    BY <1>0 DEF ChannelsInv
  <2>3. Append(bids, j) \in Seq(Jobs) /\ Len(Append(bids, j)) = Len(bids) + 1 /\ Len(bids) \in Nat
    BY <2>2
  <2>4. Len(Append(bids, j)) <= BidCapacity
    BY <2>1, <2>3, AuctioneerAssumption
  <2>5. ChannelsInv'
    BY <1>0, <2>1, <2>3, <2>4 DEF ChannelsInv
  <2> QED
    BY <1>1, <1>2, <1>4, <2>1, <2>5 DEF OpeningInv, state, history
<1>8. ASSUME NEW j \in jobs, JobEnds(j)
      PROVE  OpeningInv'
  <2>1. jobs' \subseteq jobs /\ UNCHANGED <<state, task, inputs, history>>
    BY <1>8 DEF JobEnds
  <2>2. ChannelsInv'
    BY <1>0, <2>1 DEF ChannelsInv, inputs
  <2> QED
    BY <1>1, <1>2, <1>4, <2>1, <2>2 DEF OpeningInv, state, inputs, history
<1>9. CASE Startup
  <2>1. /\ task' = IdleTask /\ reported \subseteq reported'
        /\ UNCHANGED <<open_auctions, processed_payload_attributes, inputs, jobs, retain_slot>>
    BY <1>9 DEF Startup, FetchProposerSchedules
  <2>2. TaskInv'
    BY <2>1, AuctioneerAssumption DEF TaskInv, IdleTask, Slots
  <2> QED
    BY <1>1, <1>3, <1>4, <2>1, <2>2 DEF OpeningInv, inputs
<1>10. CASE OnSlot
  <2>1. /\ task.pc = "idle" /\ reported \subseteq reported'
        /\ UNCHANGED <<open_auctions, processed_payload_attributes, task, events, bids, jobs, retain_slot>>
    BY <1>10 DEF OnSlot, ClockReceives, FetchProposerSchedules
  <2> QED
    BY <1>1, <1>2, <1>3, <1>4, <2>1 DEF OpeningInv
<1>11. CASE OnEpoch
  <2> DEFINE kept == {id \in DOMAIN open_auctions : open_auctions[id].slot >= retain_slot'}
  <2>1. /\ task.pc = "idle"
        /\ open_auctions' = Restrict(open_auctions, kept)
        /\ processed_payload_attributes' = [s \in Slots |->
                IF s >= retain_slot' THEN processed_payload_attributes[s] ELSE {}]
        /\ UNCHANGED <<task, events, bids, jobs, reported>>
    BY <1>11 DEF OnEpoch, ClockReceives
  <2>2. DOMAIN open_auctions' = kept /\ \A id \in kept : open_auctions'[id] = open_auctions[id]
    BY <2>1 DEF Restrict
  <2>3. AuctionsInv'
    <3>1. ASSUME NEW x \in kept
          PROVE  /\ WellFounded(open_auctions[x], x)
                 /\ open_auctions[x].slot >= retain_slot'
                 /\ \A r \in open_auctions[x].relays :
                        <<open_auctions[x].slot, open_auctions[x].proposer, r>> \in reported
      BY <1>0 DEF AuctionsInv
    <3> HIDE DEF kept
    <3> QED
      BY <2>1, <2>2, <3>1 DEF AuctionsInv, WellFounded
  <2>4. OwnEventsProcessed'
    <3>1. DOMAIN processed_payload_attributes' = Slots
      BY <2>1
    <3>2. ASSUME NEW e \in Range(events), e \in OwnEvents, ~(e.slot < retain_slot')
          PROVE  e.id \in processed_payload_attributes'[e.slot]
      <4>1. e.slot \in Slots /\ e.slot \in Nat
        BY <3>2, OwnEventsApart DEF Slots
      <4>2. e.slot >= retain_slot' /\ ~(e.slot < retain_slot)
        BY <1>0, <3>2, <4>1
      <4>3. e.id \in processed_payload_attributes[e.slot]
        BY <1>0, <3>2, <4>2 DEF OwnEventsProcessed
      <4> QED
        BY <2>1, <4>1, <4>2, <4>3
    <3> QED
      BY <2>1, <3>1, <3>2 DEF OwnEventsProcessed, Range
  <2> QED
    BY <1>2, <1>3, <2>1, <2>3, <2>4 DEF OpeningInv
<1>12. CASE OnPayloadAttributes
  <2> DEFINE e == Head(events)
  <2>1. /\ events # << >> /\ events' = Tail(events)
        /\ processed_payload_attributes' =
                [processed_payload_attributes EXCEPT ![e.slot] = @ \cup {e.id}]
        /\ task.pc = "idle"
        /\ task' = IF IsNew(e.slot, e.id) /\ GetProposals(e.slot) # {}
                   THEN [pc |-> "opening", slot |-> e.slot, id |-> e.id, todo |-> GetProposals(e.slot)]
                   ELSE task
        /\ UNCHANGED <<auction_schedule, open_auctions, bids, jobs, reported, retain_slot>>
    BY <1>12 DEF OnPayloadAttributes, OtherBranch, ObservePayloadId
  <2>2. /\ e \in Attributes \cup OwnEvents /\ e \in Range(events)
        /\ Tail(events) \in Seq(Attributes \cup OwnEvents)
        /\ Range(Tail(events)) \subseteq Range(events) /\ Len(Tail(events)) <= Len(events)
    BY <1>0, <2>1, TailRange DEF ChannelsInv
  <2> HIDE DEF e
  <2>3. e.slot \in Slots
    BY <2>2, OwnEventsApart, AuctioneerAssumption
  <2>4. ASSUME e \in OwnEvents PROVE ~(IsNew(e.slot, e.id) /\ GetProposals(e.slot) # {})
    <3>1. CASE e.slot < retain_slot
      <4>1. auction_schedule[e.slot] = {}
        BY <2>3, <3>1 DEF ScheduleInv
      <4> QED
        BY <4>1 DEF GetProposals
    <3>2. CASE e.id \in processed_payload_attributes[e.slot]
      BY <3>2 DEF IsNew
    <3> QED
      BY <1>0, <2>2, <2>4, <3>1, <3>2 DEF OwnEventsProcessed
  <2>5. TaskInv'
    <3>1. CASE task' = task
      BY <1>2, <2>1, <3>1
    <3>2. CASE /\ task' = [pc |-> "opening", slot |-> e.slot, id |-> e.id, todo |-> GetProposals(e.slot)]
               /\ e \in Attributes /\ GetProposals(e.slot) # {}
      <4>1. GetProposals(e.slot) \subseteq Proposers /\ UNCHANGED auction_schedule
        BY <2>1 DEF GetProposals
      <4>2. task'.pc = "opening" /\ task'.slot = e.slot /\ task'.id = e.id
            /\ task'.todo = GetProposals(e.slot)
        BY <3>2
      <4>3. task'.todo \subseteq GetProposals(task.slot)'
        BY <4>1, <4>2 DEF GetProposals
      <4> QED
        BY <2>3, <3>2, <4>1, <4>2, <4>3 DEF TaskInv
    <3> QED
      BY <2>1, <2>2, <2>4, <3>1, <3>2
  <2>6. ChannelsInv'
    <3>1. Len(events) \in Nat /\ Len(Tail(events)) \in Nat
      BY <1>0, <2>2 DEF ChannelsInv
    <3>2. Len(Tail(events)) <= EventCapacity
      BY <1>0, <2>2, <3>1, AuctioneerAssumption DEF ChannelsInv
    <3> QED
      BY <1>0, <2>1, <2>2, <3>2 DEF ChannelsInv
  <2>7. OwnEventsProcessed'
    <3>1. /\ DOMAIN processed_payload_attributes' = Slots
          /\ \A s \in Slots : processed_payload_attributes[s] \subseteq processed_payload_attributes'[s]
      BY <1>0, <2>1, <2>3 DEF OwnEventsProcessed
    <3> QED
      BY <1>0, <2>1, <2>2, <3>1, OwnEventsApart DEF OwnEventsProcessed
  <2> QED
    BY <1>1, <2>1, <2>5, <2>6, <2>7 DEF OpeningInv
<1>13. ASSUME NEW p \in Proposers, OpenAuction(p)
       PROVE  OpeningInv'
  <2>1. PICK a \in Attributes :
            LET id == MixProposalIntoPayloadId(a.id, p)
                new == [slot |-> task.slot, id |-> id, proposer |-> p,
                        relays |-> RelaysOf(task.slot, p)] IN
            /\ task.id = a.id /\ task.slot = a.slot
            /\ p \in GetProposals(task.slot)
            /\ open_auctions' = StoreAuction(new)
            /\ WellFounded(new, id)
            /\ DOMAIN open_auctions' = DOMAIN open_auctions \cup {id}
            /\ \A x \in DOMAIN open_auctions : open_auctions'[x] = open_auctions[x]
            /\ id \notin DOMAIN open_auctions => open_auctions'[id] = new
            /\ WellFounded(open_auctions'[id], id)
            /\ JobOf(open_auctions'[id]) = JobFor(a, p)
    BY <1>13, OpenAuctionFacts
  <2> DEFINE id == MixProposalIntoPayloadId(a.id, p)
             auction == open_auctions'[id]
  <2>2. /\ \/ StartJob(auction)
              /\ processed_payload_attributes' =
                    [processed_payload_attributes EXCEPT ![task.slot] = @ \cup {id}]
           \/ UNCHANGED <<jobs, events, processed_payload_attributes>>
        /\ task.pc = "opening" /\ p \in task.todo /\ task' = NextProposal(p)
        /\ UNCHANGED <<auction_schedule, bids, history>>
    BY <1>13, <2>1 DEF OpenAuction, ObservePayloadId
  <2>3. auction.slot = a.slot /\ JobOf(auction) \in Jobs
        /\ [slot |-> auction.slot, id |-> auction.id] \in OwnEvents /\ auction.id = id
    BY <2>1, JobOfId DEF WellFounded
  <2>4. task.slot \in Slots /\ task.slot = a.slot
    BY <1>0, <2>1 DEF TaskInv
  <2>5. AuctionsInv'
    <3>1. ASSUME id \notin DOMAIN open_auctions
          PROVE  auction.slot >= retain_slot /\ auction.proposer = p /\ auction.relays = RelaysOf(a.slot, p)
                 /\ \A r \in auction.relays : <<auction.slot, auction.proposer, r>> \in reported
      <4>1. auction.slot = a.slot /\ auction.proposer = p /\ auction.relays = RelaysOf(a.slot, p)
        BY <2>1, <2>4, <3>1
      <4> QED
        BY <2>1, <2>4, <4>1, ProposalHasRelays
    <3>2. UNCHANGED <<reported, retain_slot>>
      BY <2>2 DEF history
    <3>3. DOMAIN open_auctions' = DOMAIN open_auctions \cup {id}
          /\ WellFounded(auction, id)
          /\ \A x \in DOMAIN open_auctions : open_auctions'[x] = open_auctions[x]
      BY <2>1
    <3>4. ASSUME NEW x \in DOMAIN open_auctions'
          PROVE  /\ WellFounded(open_auctions'[x], x)
                 /\ open_auctions'[x].slot >= retain_slot
                 /\ \A r \in open_auctions'[x].relays :
                        <<open_auctions'[x].slot, open_auctions'[x].proposer, r>> \in reported
      <4>1. CASE x \in DOMAIN open_auctions
        BY <1>0, <3>3, <4>1 DEF AuctionsInv
      <4>2. CASE x = id /\ id \notin DOMAIN open_auctions
        BY <3>1, <3>3, <4>2
      <4> QED
        BY <3>3, <4>1, <4>2
    <3> QED
      BY <3>2, <3>4 DEF AuctionsInv, WellFounded
  <2>6. TaskInv'
    <3>1. CASE task.todo = {p}
      BY <2>2, <3>1, AuctioneerAssumption DEF NextProposal, TaskInv, IdleTask, Slots
    <3>2. CASE task.todo # {p}
      <4>1. /\ task'.pc = task.pc /\ task'.slot = task.slot /\ task'.id = task.id
            /\ task'.todo = task.todo \ {p}
        BY <1>0, <2>2, <3>2 DEF NextProposal, TaskInv
      <4>2. task.todo \ {p} # {}
        BY <2>2, <3>2
      <4> QED
        BY <1>0, <2>2, <4>1, <4>2 DEF TaskInv, GetProposals
    <3> QED
      BY <3>1, <3>2
  <2> DEFINE own == [slot |-> auction.slot, id |-> auction.id]
  <2>7. CASE UNCHANGED <<jobs, events, processed_payload_attributes>>
    BY <1>3, <1>4, <2>2, <2>5, <2>6, <2>7 DEF OpeningInv, history
  <2>8. CASE StartJob(auction) /\ processed_payload_attributes' =
                [processed_payload_attributes EXCEPT ![task.slot] = @ \cup {id}]
    <3>1. \/ UNCHANGED <<jobs, events>>
          \/ jobs' = jobs \cup {JobOf(auction)} /\ events' = Latest(Append(events, own), EventCapacity)
      BY <2>8 DEF StartJob
    <3>2. own \in OwnEvents /\ own.slot = task.slot /\ own.id = id
      BY <2>3, <2>4
    <3> HIDE DEF own, auction, id
    <3>3. /\ DOMAIN processed_payload_attributes' = Slots
          /\ \A s \in Slots : processed_payload_attributes[s] \subseteq processed_payload_attributes'[s]
          /\ id \in processed_payload_attributes'[task.slot]
      BY <1>0, <2>4, <2>8 DEF OwnEventsProcessed
    <3>4. ChannelsInv' /\ Range(events') \subseteq Range(events) \cup {own}
      <4>1. CASE UNCHANGED <<jobs, events>>
        BY <1>3, <2>2, <4>1
      <4>2. CASE jobs' = jobs \cup {JobOf(auction)} /\ events' = Latest(Append(events, own), EventCapacity)
        BY <1>0, <2>2, <2>3, <3>2, <4>2, EventsStep DEF ChannelsInv
      <4> QED
        BY <3>1, <4>1, <4>2
    <3>5. OwnEventsProcessed'
      BY <1>0, <2>2, <3>2, <3>3, <3>4, OwnEventsApart DEF OwnEventsProcessed, history
    <3> QED
      BY <2>5, <2>6, <3>4, <3>5 DEF OpeningInv
  <2> QED
    BY <2>2, <2>7, <2>8
<1>14. CASE SubmitPayload
  <2> DEFINE payload == Head(bids)
  <2>1. /\ bids # << >> /\ bids' = Tail(bids) /\ task.pc = "idle"
        /\ \/ UNCHANGED task
           \/ task' = [IdleTask EXCEPT !.pc = "panicked", !.slot = payload.slot]
        /\ UNCHANGED <<state, events, jobs, reported, retain_slot>>
    BY <1>14 DEF SubmitPayload, OtherBranch
  <2>2. payload \in Jobs /\ Tail(bids) \in Seq(Jobs) /\ Len(Tail(bids)) <= Len(bids)
    BY <1>0, <2>1, TailRange DEF ChannelsInv
  <2> HIDE DEF payload
  <2>3. payload.slot \in Slots
    BY <2>2, AuctioneerAssumption DEF Jobs, JobFor
  <2>4. TaskInv'
    <3>1. CASE task' = task
      BY <1>2, <2>1, <3>1
    <3>2. CASE task' = [IdleTask EXCEPT !.pc = "panicked", !.slot = payload.slot]
      <4>1. task'.pc = "panicked" /\ task'.slot = payload.slot /\ task'.todo = {}
        BY <3>2 DEF IdleTask
      <4> QED
        BY <2>3, <4>1 DEF TaskInv
    <3> QED
      BY <2>1, <3>1, <3>2
  <2>5. ChannelsInv'
    <3>1. Len(bids) \in Nat /\ Len(Tail(bids)) \in Nat
      BY <1>0, <2>2 DEF ChannelsInv
    <3>2. Len(Tail(bids)) <= BidCapacity
      BY <1>0, <2>2, <3>1, AuctioneerAssumption DEF ChannelsInv
    <3> QED
      BY <1>0, <2>1, <2>2, <3>2 DEF ChannelsInv
  <2> QED
    BY <1>1, <1>4, <2>1, <2>4, <2>5 DEF OpeningInv, state
<1>15. CASE UNCHANGED vars
  BY <1>1, <1>2, <1>3, <1>4, <1>15 DEF OpeningInv, vars, state, inputs, history
<1> QED
  BY <1>5, <1>6, <1>7, <1>8, <1>9, <1>10, <1>11, <1>12, <1>13, <1>14, <1>15 DEF Next

LEMMA OpeningHolds == Spec => [](ClockInv /\ ScheduleInv /\ OpeningInv)
BY ScheduleHolds, OpeningInit, OpeningStep, PTL DEF Spec

\* The task's state and its channels keep their shape: every auction is known under its own
\* id and has a relay to go to, and no channel holds more than its capacity.
THEOREM TypeCorrect == Spec => []TypeOK
<1>1. ClockInv /\ ScheduleInv /\ OpeningInv => TypeOK
  <2> SUFFICES ASSUME ClockInv, ScheduleInv, OpeningInv PROVE TypeOK
    OBVIOUS
  <2>1. AuctionsTypeOK
    BY DEF OpeningInv, AuctionsInv, WellFounded, AuctionsTypeOK
  <2>2. \A j, k \in jobs : j.id = k.id => j = k
    <3> SUFFICES ASSUME NEW j \in jobs, NEW k \in jobs, j.id = k.id PROVE j = k
      OBVIOUS
    <3>1. PICK a \in Attributes, p \in Proposers : j = JobFor(a, p)
      BY DEF OpeningInv, ChannelsInv, Jobs
    <3>2. PICK b \in Attributes, q \in Proposers : k = JobFor(b, q)
      BY DEF OpeningInv, ChannelsInv, Jobs
    <3>3. MixProposalIntoPayloadId(a.id, p) = MixProposalIntoPayloadId(b.id, q)
      BY <3>1, <3>2 DEF JobFor
    <3>4. a.slot = b.slot /\ p.fee_recipient = q.fee_recipient /\ p.gas_limit = q.gas_limit
      BY <3>3, IdDetermines
    <3> QED
      BY <3>1, <3>2, <3>3, <3>4 DEF JobFor
  <2>3. clock \in Seq([kind : {"slot", "epoch"}, at : Slots])
    BY DEF ClockInv, InOrder, Messages
  <2> QED
    BY <2>1, <2>2, <2>3
    DEF ClockInv, ScheduleInv, OpeningInv, TaskInv, ChannelsInv, OwnEventsProcessed, TypeOK
<1> QED
  BY <1>1, OpeningHolds, PTL

\* The announcements that new_payload makes for the auctions' own jobs never open another
\* auction: they are found processed, and where that was cleared with the epoch, so were the
\* slot's proposals, which no relay reports again.
THEOREM AuctionsAreFlat == Spec => []NoAuctionOnAuction
<1>1. OpeningInv => NoAuctionOnAuction
  BY IdShape DEF OpeningInv, AuctionsInv, WellFounded, NoAuctionOnAuction
<1> QED
  BY <1>1, OpeningHolds, PTL

----------------------------------------------------------------------------
(* Payloads find their auctions *)

\* A job, and a payload that it has sent, has its auction until the epoch of its slot is over.
JobsHaveAuctions ==
    \A j \in jobs \cup Range(bids) : j.slot < retain_slot \/ j.id \in DOMAIN open_auctions

PayloadsInv == JobsHaveAuctions /\ OnlyLatePayloadsPanic /\ SubmissionsAreWanted

\* The auction that is found under a payload's id is the one the payload was built for.
LEMMA AuctionOfJob ==
    ASSUME OpeningInv, NEW j \in Jobs, j.id \in DOMAIN open_auctions
    PROVE  LET auction == open_auctions[j.id] IN
           /\ auction.slot = j.slot
           /\ auction.proposer.fee_recipient = j.fee_recipient
           /\ auction.proposer.gas_limit = j.gas_limit
<1> DEFINE auction == open_auctions[j.id]
<1>1. PICK a \in Attributes, p \in Proposers : j = JobFor(a, p)
  BY DEF Jobs
<1>2. j.id = MixProposalIntoPayloadId(a.id, p)
  BY <1>1 DEF JobFor
<1>3. WellFounded(auction, j.id)
  BY DEF OpeningInv, AuctionsInv
<1> HIDE DEF auction
<1>4. JobOf(auction) = j
  <2>1. WellFounded(auction, MixProposalIntoPayloadId(a.id, p))
    BY <1>2, <1>3
  <2>2. JobOf(auction) = JobFor(a, p)
    BY <2>1, JobOfId
  <2> QED
    BY <1>1, <2>2
<1>5. /\ auction.slot = j.slot
      /\ auction.proposer.fee_recipient = j.fee_recipient
      /\ auction.proposer.gas_limit = j.gas_limit
  BY <1>4 DEF JobOf
<1> QED
  BY <1>5 DEF auction

LEMMA PayloadsInit == Init => PayloadsInv
BY DEF Init, PayloadsInv, JobsHaveAuctions, OnlyLatePayloadsPanic, SubmissionsAreWanted, IdleTask, Range

LEMMA PayloadsStep ==
    ClockInv /\ ScheduleInv /\ OpeningInv /\ PayloadsInv /\ [Next]_vars => PayloadsInv'
<1> SUFFICES ASSUME ClockInv, ScheduleInv, OpeningInv, PayloadsInv, [Next]_vars PROVE PayloadsInv'
  OBVIOUS
<1>0. /\ JobsHaveAuctions /\ OnlyLatePayloadsPanic /\ SubmissionsAreWanted
      /\ retain_slot' >= retain_slot /\ retain_slot \in Nat /\ retain_slot' \in Nat
      /\ jobs \subseteq Jobs /\ bids \in Seq(Jobs) /\ Range(bids) \subseteq Jobs
      /\ \A j \in Jobs : j.slot \in Nat
      /\ task.slot \in Nat
  <2>1. /\ JobsHaveAuctions /\ OnlyLatePayloadsPanic /\ SubmissionsAreWanted
        /\ jobs \subseteq Jobs /\ bids \in Seq(Jobs) /\ task.slot \in Slots
    BY DEF PayloadsInv, OpeningInv, ChannelsInv, TaskInv
  <2>2. retain_slot' >= retain_slot /\ retain_slot \in Slots /\ retain_slot' \in Slots
    BY RetainGrows, ClockStep DEF ClockInv
  <2>3. Range(bids) \subseteq Jobs
    BY <2>1 DEF Range
  <2>4. \A j \in Jobs : j.slot \in Slots
    BY AuctioneerAssumption DEF Jobs, JobFor
  <2> QED
    BY <2>1, <2>2, <2>3, <2>4 DEF Slots
<1>1. ASSUME jobs' \subseteq jobs, Range(bids') \subseteq Range(bids) \cup jobs,
             DOMAIN open_auctions \subseteq DOMAIN open_auctions', UNCHANGED retain_slot
      PROVE  JobsHaveAuctions'
  BY <1>0, <1>1 DEF JobsHaveAuctions
<1>2. ASSUME UNCHANGED task \/ task'.pc # "panicked"
      PROVE  OnlyLatePayloadsPanic'
  BY <1>0, <1>2 DEF OnlyLatePayloadsPanic
<1>3. ASSUME UNCHANGED submitted, reported \subseteq reported'
      PROVE  SubmissionsAreWanted'
  BY <1>0, <1>3 DEF SubmissionsAreWanted
<1>4. CASE Tick \/ (\E a \in Attributes : Announce(a)) \/ UNCHANGED vars
  <2>1. UNCHANGED <<open_auctions, task, bids, jobs, history>>
    BY <1>4 DEF Tick, Announce, vars, state, inputs, history
  <2> QED
    BY <1>1, <1>2, <1>3, <2>1 DEF PayloadsInv, history
<1>5. ASSUME NEW j \in jobs, JobDelivers(j)
      PROVE  PayloadsInv'
  <2>1. bids' = Append(bids, j) /\ UNCHANGED <<state, task, jobs, history>>
    BY <1>5 DEF JobDelivers
  <2>2. Range(bids') = Range(bids) \cup {j}
    BY <1>0, <2>1, AppendRange
  <2> QED
    BY <1>1, <1>2, <1>3, <2>1, <2>2 DEF PayloadsInv, state, history
<1>6. ASSUME NEW j \in jobs, JobEnds(j)
      PROVE  PayloadsInv'
  <2>1. jobs' \subseteq jobs /\ UNCHANGED <<state, task, inputs, history>>
    BY <1>6 DEF JobEnds
  <2> QED
    BY <1>1, <1>2, <1>3, <2>1 DEF PayloadsInv, state, inputs, history
<1>7. CASE Startup \/ OnSlot
  <2>1. /\ UNCHANGED task \/ task'.pc # "panicked"
        /\ reported \subseteq reported'
        /\ UNCHANGED <<open_auctions, bids, jobs, retain_slot, submitted>>
    BY <1>7 DEF Startup, OnSlot, FetchProposerSchedules, IdleTask, inputs
  <2> QED
    BY <1>1, <1>2, <1>3, <2>1 DEF PayloadsInv
<1>8. CASE OnEpoch
  <2>1. /\ open_auctions' = Restrict(open_auctions,
                {id \in DOMAIN open_auctions : open_auctions[id].slot >= retain_slot'})
        /\ UNCHANGED <<task, bids, jobs, reported, submitted>>
    BY <1>8 DEF OnEpoch
  <2>2. ASSUME NEW j \in jobs \cup Range(bids), ~(j.slot < retain_slot')
        PROVE  j.id \in DOMAIN open_auctions'
    <3>1. j \in Jobs /\ j.slot >= retain_slot' /\ ~(j.slot < retain_slot)
      BY <1>0, <2>2
    <3>2. j.id \in DOMAIN open_auctions
      BY <1>0, <3>1 DEF JobsHaveAuctions
    <3>3. open_auctions[j.id].slot = j.slot
      BY <3>1, <3>2, AuctionOfJob
    <3> QED
      BY <2>1, <3>1, <3>2, <3>3 DEF Restrict
  <2>3. JobsHaveAuctions'
    BY <2>1, <2>2 DEF JobsHaveAuctions, Range
  <2> QED
    BY <1>2, <1>3, <2>1, <2>3 DEF PayloadsInv
<1>9. CASE OnPayloadAttributes
  <2>1. /\ UNCHANGED task \/ task'.pc # "panicked"
        /\ UNCHANGED <<open_auctions, bids, jobs, reported, retain_slot, submitted>>
    BY <1>9 DEF OnPayloadAttributes
  <2> QED
    BY <1>1, <1>2, <1>3, <2>1 DEF PayloadsInv
<1>10. ASSUME NEW p \in Proposers, OpenAuction(p)
       PROVE  PayloadsInv'
  <2>1. PICK a \in Attributes : LET id == MixProposalIntoPayloadId(a.id, p) IN
            /\ task.id = a.id
            /\ DOMAIN open_auctions' = DOMAIN open_auctions \cup {id}
            /\ JobOf(open_auctions'[id]) = JobFor(a, p)
    BY <1>10, OpenAuctionFacts
  <2> DEFINE id == MixProposalIntoPayloadId(a.id, p)
  <2>2. /\ jobs' \subseteq jobs \cup {JobFor(a, p)}
        /\ task.pc = "opening" /\ task' = NextProposal(p)
        /\ UNCHANGED <<bids, history>>
    BY <1>10, <2>1 DEF OpenAuction, StartJob
  <2>3. JobFor(a, p).id = id
    BY DEF JobFor
  <2>4. JobsHaveAuctions'
    BY <1>0, <2>1, <2>2, <2>3 DEF JobsHaveAuctions, history
  <2>5. task'.pc # "panicked"
    BY <2>2 DEF NextProposal, IdleTask
  <2> QED
    BY <1>2, <1>3, <2>2, <2>4, <2>5 DEF PayloadsInv, history
<1>11. CASE SubmitPayload
  <2> DEFINE payload == Head(bids)
             auction == open_auctions[payload.id]
  <2>1. /\ bids # << >> /\ bids' = Tail(bids)
        /\ UNCHANGED <<open_auctions, jobs, reported, retain_slot>>
    BY <1>11 DEF SubmitPayload, state
  <2>2. payload \in Jobs /\ payload \in Range(bids) /\ Range(Tail(bids)) \subseteq Range(bids)
    BY <1>0, <2>1, TailRange
  <2>3. JobsHaveAuctions'
    BY <1>1, <2>1, <2>2
  <2>4. OnlyLatePayloadsPanic'
    <3>1. CASE task' = [IdleTask EXCEPT !.pc = "panicked", !.slot = payload.slot]
               /\ payload.id \notin DOMAIN open_auctions
      <4>1. payload.slot < retain_slot
        BY <1>0, <2>2, <3>1 DEF JobsHaveAuctions
      <4>2. task'.slot = payload.slot
        BY <3>1 DEF IdleTask
      <4> QED
        BY <2>1, <4>1, <4>2 DEF OnlyLatePayloadsPanic
    <3> QED
      BY <1>2, <1>11, <3>1 DEF SubmitPayload
  <2>5. SubmissionsAreWanted'
    <3>1. CASE /\ payload.id \in DOMAIN open_auctions
               /\ submitted' = auction.relays \X {PrepareSubmission(payload, auction)}
      <4>1. /\ auction.slot = payload.slot
            /\ auction.proposer.fee_recipient = payload.fee_recipient
            /\ auction.proposer.gas_limit = payload.gas_limit
            /\ \A r \in auction.relays : <<auction.slot, auction.proposer, r>> \in reported
        BY <2>2, <3>1, AuctionOfJob DEF OpeningInv, AuctionsInv
      <4> HIDE DEF auction, payload
      <4>2. \A x \in submitted' : x[1] \in auction.relays /\ x[2] = PrepareSubmission(payload, auction)
        BY <3>1
      <4>3. LET s == PrepareSubmission(payload, auction) IN
            s.slot = auction.slot /\ s.proposer = auction.proposer /\ s.payload = payload
        BY DEF PrepareSubmission
      <4> QED
        BY <2>1, <4>1, <4>2, <4>3 DEF SubmissionsAreWanted
    <3> QED
      BY <1>3, <1>11, <2>1, <3>1 DEF SubmitPayload
  <2> QED
    BY <2>3, <2>4, <2>5 DEF PayloadsInv
<1> QED
  BY <1>4, <1>5, <1>6, <1>7, <1>8, <1>9, <1>10, <1>11 DEF Next

LEMMA PayloadsHold == Spec => []PayloadsInv
BY OpeningHolds, PayloadsInit, PayloadsStep, PTL DEF Spec

\* submit_payload panics only for a payload that arrives after its epoch: no order of
\* clearing, opening and finishing loses the auction of a payload that is in time.
THEOREM PanicsAreLate == Spec => []OnlyLatePayloadsPanic
<1>1. PayloadsInv => OnlyLatePayloadsPanic
  BY DEF PayloadsInv
<1> QED
  BY <1>1, PayloadsHold, PTL

\* Whatever auctions share an id, a relay gets only submissions for proposals it reported
\* itself, with a payload for the fee recipient and the gas limit of the named proposer.
THEOREM SubmissionsWanted == Spec => []SubmissionsAreWanted
<1>1. PayloadsInv => SubmissionsAreWanted
  BY DEF PayloadsInv
<1> QED
  BY <1>1, PayloadsHold, PTL

----------------------------------------------------------------------------
(* Proposals get their auctions *)

\* An announcement is entered once, with what the schedule held for its slot.
AnnouncedOnce ==
    /\ \A a \in announced :
        /\ \E b \in Attributes : a.id = b.id /\ a.slot = b.slot
        /\ a.proposals \subseteq Proposers \X Relays
    /\ \A a, b \in announced : a.id = b.id => a = b

\* It is entered exactly when its id is processed, until the id is cleared.
AnnouncedProcessed ==
    /\ \A a \in announced : a.slot < retain_slot \/ a.id \in processed_payload_attributes[a.slot]
    /\ \A s \in Slots, b \in Attributes :
        b.id \in processed_payload_attributes[s] => \E a \in announced : a.id = b.id

RelaysIn(proposals, p) == {r \in Relays : <<p, r>> \in proposals}

\* The proposals of the announcement that is being handled do not change meanwhile.
OpeningAnnounced ==
    task.pc = "opening" =>
        \E a \in announced : /\ a.id = task.id /\ a.slot = task.slot
                             /\ a.proposals = auction_schedule[task.slot]

\* An auction was opened for an announcement, and goes to the relays that had reported it.
AuctionAnnounced(id) ==
    \E a \in announced :
        /\ open_auctions[id].slot = a.slot
        /\ id = MixProposalIntoPayloadId(a.id, open_auctions[id].proposer)
        /\ open_auctions[id].relays = RelaysIn(a.proposals, open_auctions[id].proposer)

\* Every proposal of an announcement has an auction, or is still to be taken up.
TakenUp ==
    \A a \in announced : a.slot >= retain_slot => \A p \in Proposers, r \in Relays :
        <<p, r>> \in a.proposals =>
            \/ MixProposalIntoPayloadId(a.id, p) \in DOMAIN open_auctions
            \/ task.pc = "opening" /\ task.id = a.id /\ p \in task.todo

AnnouncedInv ==
    /\ AnnouncedOnce /\ AnnouncedProcessed /\ OpeningAnnounced /\ TakenUp
    /\ \A id \in DOMAIN open_auctions : AuctionAnnounced(id)

\* The auction under the id of an announced proposal is one for this announcement.
LEMMA AuctionOfProposal ==
    ASSUME OpeningInv, AnnouncedInv, NEW a \in announced, NEW p \in Proposers,
           MixProposalIntoPayloadId(a.id, p) \in DOMAIN open_auctions
    PROVE  LET id == MixProposalIntoPayloadId(a.id, p)
               auction == open_auctions[id] IN
           /\ id[1] = a.id[1]
           /\ auction.slot = a.slot
           /\ auction.proposer.fee_recipient = p.fee_recipient
           /\ auction.proposer.gas_limit = p.gas_limit
           /\ auction.relays = RelaysIn(a.proposals, auction.proposer)
           /\ auction.relays \in (SUBSET Relays) \ {{}}
<1> DEFINE id == MixProposalIntoPayloadId(a.id, p)
           auction == open_auctions[id]
<1>1. PICK x \in Attributes : a.id = x.id /\ a.slot = x.slot
  BY DEF AnnouncedInv, AnnouncedOnce
<1>2. PICK b \in announced : /\ auction.slot = b.slot
                             /\ id = MixProposalIntoPayloadId(b.id, auction.proposer)
                             /\ auction.relays = RelaysIn(b.proposals, auction.proposer)
  BY DEF AnnouncedInv, AuctionAnnounced
<1>3. PICK y \in Attributes : b.id = y.id /\ b.slot = y.slot
  BY DEF AnnouncedInv, AnnouncedOnce
<1>4. auction.proposer \in Proposers /\ auction.relays \in (SUBSET Relays) \ {{}}
  BY DEF OpeningInv, AuctionsInv, WellFounded
<1>5. MixProposalIntoPayloadId(x.id, p) = MixProposalIntoPayloadId(y.id, auction.proposer)
  BY <1>1, <1>2, <1>3
<1>6. /\ x.id = y.id
      /\ auction.proposer.fee_recipient = p.fee_recipient
      /\ auction.proposer.gas_limit = p.gas_limit
  BY <1>4, <1>5, IdDetermines
<1>7. a = b
  BY <1>1, <1>3, <1>6 DEF AnnouncedInv, AnnouncedOnce
<1>8. id[1] = a.id[1]
  BY <1>1, IdShape
<1> QED
  BY <1>2, <1>4, <1>6, <1>7, <1>8

LEMMA AuctionedFollows == OpeningInv /\ AnnouncedInv => ProposalsAreAuctioned
<1> SUFFICES ASSUME OpeningInv, AnnouncedInv, task.pc # "opening",
                    NEW a \in announced, a.slot >= retain_slot, NEW x \in a.proposals
             PROVE  \E id \in DOMAIN open_auctions :
                        LET auction == open_auctions[id] IN
                        /\ auction.slot = a.slot
                        /\ id[1] = a.id[1]
                        /\ auction.proposer.fee_recipient = x[1].fee_recipient
                        /\ auction.proposer.gas_limit = x[1].gas_limit
                        /\ auction.proposer = x[1] => x[2] \in auction.relays
                        /\ auction.proposer # x[1] =>
                            \E r \in auction.relays : <<auction.proposer, r>> \in a.proposals
  BY DEF ProposalsAreAuctioned
<1>1. x[1] \in Proposers /\ x[2] \in Relays /\ x = <<x[1], x[2]>>
  BY DEF AnnouncedInv, AnnouncedOnce
<1> DEFINE id == MixProposalIntoPayloadId(a.id, x[1])
           auction == open_auctions[id]
<1>2. id \in DOMAIN open_auctions
  BY <1>1 DEF AnnouncedInv, TakenUp
<1>3. /\ id[1] = a.id[1]
      /\ auction.slot = a.slot
      /\ auction.proposer.fee_recipient = x[1].fee_recipient
      /\ auction.proposer.gas_limit = x[1].gas_limit
      /\ auction.relays = RelaysIn(a.proposals, auction.proposer)
      /\ auction.relays \in (SUBSET Relays) \ {{}}
  BY <1>1, <1>2, AuctionOfProposal
<1>4. auction.proposer = x[1] => x[2] \in auction.relays
  BY <1>1, <1>3 DEF RelaysIn
<1>5. \E r \in auction.relays : <<auction.proposer, r>> \in a.proposals
  BY <1>3 DEF RelaysIn
<1> HIDE DEF id
<1> QED
  BY <1>2, <1>3, <1>4, <1>5

LEMMA AnnouncedInit == Init => AnnouncedInv
BY DEF Init, AnnouncedInv, AnnouncedOnce, AnnouncedProcessed, OpeningAnnounced, TakenUp, IdleTask

LEMMA AnnouncedStep ==
    ClockInv /\ ScheduleInv /\ OpeningInv /\ AnnouncedInv /\ [Next]_vars => AnnouncedInv'
<1> SUFFICES ASSUME ClockInv, ScheduleInv, OpeningInv, AnnouncedInv, [Next]_vars
             PROVE  AnnouncedInv'
  OBVIOUS
<1>0. /\ AnnouncedOnce /\ AnnouncedProcessed /\ OpeningAnnounced /\ TakenUp
      /\ \A id \in DOMAIN open_auctions : AuctionAnnounced(id)
      /\ retain_slot' >= retain_slot /\ retain_slot \in Nat /\ retain_slot' \in Nat
      /\ DOMAIN processed_payload_attributes = Slots
      /\ \A b \in Attributes : b.slot \in Slots /\ b.slot \in Nat
  BY RetainGrows, ClockStep, AuctioneerAssumption
  DEF AnnouncedInv, OpeningInv, OwnEventsProcessed, ClockInv, Slots
<1>1. \A a \in announced : a.slot \in Slots /\ a.slot \in Nat
  BY <1>0 DEF AnnouncedOnce
<1>2. ASSUME UNCHANGED <<open_auctions, processed_payload_attributes, announced, retain_slot>>,
             \/ UNCHANGED <<task, auction_schedule>>
             \/ task.pc # "opening" /\ task'.pc # "opening"
      PROVE  AnnouncedInv'
  BY <1>0, <1>2
  DEF AnnouncedInv, AnnouncedOnce, AnnouncedProcessed, OpeningAnnounced, AuctionAnnounced, TakenUp
<1>3. CASE Tick \/ (\E a \in Attributes : Announce(a)) \/ (\E j \in jobs : JobDelivers(j) \/ JobEnds(j))
           \/ UNCHANGED vars
  <2>1. UNCHANGED <<state, task, history>>
    BY <1>3 DEF Tick, Announce, JobDelivers, JobEnds, vars
  <2> QED
    BY <1>2, <2>1 DEF state, history
<1>4. CASE Startup \/ OnSlot
  <2>1. UNCHANGED <<open_auctions, processed_payload_attributes, announced, retain_slot>>
    BY <1>4 DEF Startup, OnSlot
  <2>2. task.pc # "opening" /\ task'.pc # "opening"
    BY <1>4 DEF Startup, OnSlot, ClockReceives, IdleTask
  <2> QED
    BY <1>2, <2>1, <2>2
<1>5. CASE SubmitPayload
  <2>1. UNCHANGED <<state, announced, retain_slot>>
    BY <1>5 DEF SubmitPayload
  <2>2. task.pc # "opening" /\ task'.pc # "opening"
    BY <1>5 DEF SubmitPayload, OtherBranch, IdleTask
  <2> QED
    BY <1>2, <2>1, <2>2 DEF state
<1>6. CASE OnEpoch
  <2> DEFINE kept == {id \in DOMAIN open_auctions : open_auctions[id].slot >= retain_slot'}
  <2>1. /\ task.pc = "idle"
        /\ open_auctions' = Restrict(open_auctions, kept)
        /\ processed_payload_attributes' = [s \in Slots |->
                IF s >= retain_slot' THEN processed_payload_attributes[s] ELSE {}]
        /\ UNCHANGED <<task, announced>>
    BY <1>6 DEF OnEpoch, ClockReceives
  <2>2. DOMAIN open_auctions' = kept /\ \A id \in kept : open_auctions'[id] = open_auctions[id]
    BY <2>1 DEF Restrict
  <2>3. AnnouncedOnce'
    BY <1>0, <2>1 DEF AnnouncedOnce
  <2>4. AnnouncedProcessed'
    <3>1. \A s \in Slots : processed_payload_attributes'[s] \subseteq processed_payload_attributes[s]
      BY <2>1
    <3>2. ASSUME NEW a \in announced, ~(a.slot < retain_slot')
          PROVE  a.id \in processed_payload_attributes'[a.slot]
      <4>1. a.slot >= retain_slot' /\ ~(a.slot < retain_slot)
        BY <1>0, <1>1, <3>2
      <4> QED
        BY <1>0, <1>1, <2>1, <4>1 DEF AnnouncedProcessed
    <3> QED
      BY <1>0, <2>1, <3>1, <3>2 DEF AnnouncedProcessed
  <2>5. ASSUME NEW id \in kept PROVE AuctionAnnounced(id)'
    BY <1>0, <2>1, <2>2 DEF AuctionAnnounced
  <2>6. TakenUp'
    <3> SUFFICES ASSUME NEW a \in announced, a.slot >= retain_slot', NEW p \in Proposers,
                        NEW r \in Relays, <<p, r>> \in a.proposals
                 PROVE  MixProposalIntoPayloadId(a.id, p) \in kept
      BY <2>1, <2>2 DEF TakenUp
    <3>1. a.slot >= retain_slot
      BY <1>0, <1>1
    <3>2. MixProposalIntoPayloadId(a.id, p) \in DOMAIN open_auctions
      BY <1>0, <2>1, <3>1 DEF TakenUp
    <3>3. open_auctions[MixProposalIntoPayloadId(a.id, p)].slot = a.slot
      BY <3>2, AuctionOfProposal
    <3> QED
      BY <3>2, <3>3
  <2>7. OpeningAnnounced'
    BY <2>1 DEF OpeningAnnounced
  <2> QED
    BY <2>2, <2>3, <2>4, <2>5, <2>6, <2>7 DEF AnnouncedInv
<1>7. CASE OnPayloadAttributes
  <2> DEFINE e == Head(events)
             opening == [pc |-> "opening", slot |-> e.slot, id |-> e.id, todo |-> GetProposals(e.slot)]
             new == [slot |-> e.slot, id |-> e.id, proposals |-> auction_schedule[e.slot]]
  <2>1. /\ events # << >> /\ task.pc = "idle"
        /\ processed_payload_attributes' =
                [processed_payload_attributes EXCEPT ![e.slot] = @ \cup {e.id}]
        /\ task' = IF IsNew(e.slot, e.id) /\ GetProposals(e.slot) # {} THEN opening ELSE task
        /\ announced' = IF e \in Attributes /\ ~\E x \in announced : x.id = e.id
                        THEN announced \cup {new} ELSE announced
        /\ UNCHANGED <<auction_schedule, open_auctions, retain_slot>>
    BY <1>7 DEF OnPayloadAttributes, OtherBranch, ObservePayloadId
  <2>2. e \in Attributes \cup OwnEvents /\ e \in Range(events)
    BY <2>1, TailRange DEF OpeningInv, ChannelsInv
  <2>3. /\ opening.pc = "opening" /\ opening.id = e.id /\ opening.slot = e.slot
        /\ opening.todo = GetProposals(e.slot)
        /\ new.slot = e.slot /\ new.id = e.id /\ new.proposals = auction_schedule[e.slot]
    OBVIOUS
  <2>4. e.slot \in Slots
    BY <2>2, OwnEventsApart, AuctioneerAssumption
  <2> HIDE DEF e, opening, new
  <2>5. /\ \A s \in Slots : processed_payload_attributes[s] \subseteq processed_payload_attributes'[s]
        /\ \A s \in Slots : processed_payload_attributes'[s] \subseteq processed_payload_attributes[s] \cup {e.id}
        /\ e.id \in processed_payload_attributes'[e.slot]
    BY <1>0, <2>1, <2>4
  <2>6. ASSUME auction_schedule[e.slot] = {} PROVE GetProposals(e.slot) = {}
    BY <2>6 DEF GetProposals
  \* The announcement of an auction's own job: nothing but the processed ids changes.
  <2>7. ASSUME e \in OwnEvents PROVE AnnouncedInv'
    <3>1. ~(IsNew(e.slot, e.id) /\ GetProposals(e.slot) # {})
      <4>1. CASE e.slot < retain_slot
        BY <2>4, <2>6, <4>1 DEF ScheduleInv
      <4>2. CASE e.id \in processed_payload_attributes[e.slot]
        BY <4>2 DEF IsNew
      <4> QED
        BY <2>2, <2>7, <4>1, <4>2 DEF OpeningInv, OwnEventsProcessed
    <3>2. UNCHANGED <<task, announced>>
      BY <2>1, <2>7, <3>1, OwnEventsApart
    <3>3. \A b \in Attributes : b.id # e.id
      BY <2>7, OwnIdsApart
    <3>4. AnnouncedProcessed'
      BY <1>0, <1>1, <2>1, <2>5, <3>2, <3>3 DEF AnnouncedProcessed
    <3> QED
      BY <1>0, <2>1, <3>2, <3>4
      DEF AnnouncedInv, AnnouncedOnce, OpeningAnnounced, AuctionAnnounced, TakenUp
  \* An announcement that came before: it is processed, or its slot is cleared.
  <2>8. ASSUME NEW x \in announced, x.id = e.id, e \in Attributes PROVE AnnouncedInv'
    <3>1. x.slot = e.slot
      BY <1>0, <2>8, AuctioneerAssumption DEF AnnouncedOnce
    <3>2. ~(IsNew(e.slot, e.id) /\ GetProposals(e.slot) # {})
      <4>1. CASE e.slot < retain_slot
        BY <2>4, <2>6, <4>1 DEF ScheduleInv
      <4>2. CASE e.id \in processed_payload_attributes[e.slot]
        BY <4>2 DEF IsNew
      <4> QED
        BY <1>0, <2>8, <3>1, <4>1, <4>2 DEF AnnouncedProcessed
    <3>3. UNCHANGED <<task, announced>>
      BY <2>1, <2>8, <3>2
    <3>4. AnnouncedProcessed'
      BY <1>0, <1>1, <2>1, <2>5, <2>8, <3>3 DEF AnnouncedProcessed
    <3> QED
      BY <1>0, <2>1, <3>3, <3>4
      DEF AnnouncedInv, AnnouncedOnce, OpeningAnnounced, AuctionAnnounced, TakenUp
  \* A new announcement: its proposals are taken up, if there are any.
  <2>9. ASSUME e \in Attributes, \A x \in announced : x.id # e.id PROVE AnnouncedInv'
    <3>1. announced' = announced \cup {new}
      BY <2>1, <2>9
    <3>2. IsNew(e.slot, e.id)
      BY <1>0, <2>4, <2>9 DEF AnnouncedProcessed, IsNew
    <3>3. auction_schedule[e.slot] \subseteq Proposers \X Relays
      BY <2>4 DEF ScheduleInv
    <3>4. \A p \in Proposers, r \in Relays : <<p, r>> \in auction_schedule[e.slot] => p \in GetProposals(e.slot)
      BY DEF GetProposals
    <3>5. task' = opening \/ (task' = task /\ GetProposals(e.slot) = {})
      BY <2>1, <3>2
    <3>6. AnnouncedOnce'
      BY <1>0, <2>3, <2>9, <3>1, <3>3 DEF AnnouncedOnce
    <3>7. AnnouncedProcessed'
      <4>1. \A a \in announced' : a.slot < retain_slot \/ a.id \in processed_payload_attributes'[a.slot]
        BY <1>0, <1>1, <2>3, <2>5, <3>1 DEF AnnouncedProcessed
      <4>2. \A s \in Slots, b \in Attributes :
                b.id \in processed_payload_attributes'[s] => \E a \in announced' : a.id = b.id
        BY <1>0, <2>3, <2>5, <3>1 DEF AnnouncedProcessed
      <4> QED
        BY <2>1, <4>1, <4>2 DEF AnnouncedProcessed
    <3>8. OpeningAnnounced'
      BY <2>1, <2>3, <3>1, <3>5 DEF OpeningAnnounced
    <3>9. TakenUp'
      <4> SUFFICES ASSUME NEW a \in announced', a.slot >= retain_slot, NEW p \in Proposers,
                          NEW r \in Relays, <<p, r>> \in a.proposals
                   PROVE  \/ MixProposalIntoPayloadId(a.id, p) \in DOMAIN open_auctions
                          \/ task'.pc = "opening" /\ task'.id = a.id /\ p \in task'.todo
        BY <2>1 DEF TakenUp
      <4>1. CASE a \in announced
        BY <1>0, <2>1, <4>1 DEF TakenUp
      <4>2. CASE a = new
        BY <2>3, <3>4, <3>5, <4>2
      <4> QED
        BY <3>1, <4>1, <4>2
    <3>10. \A id \in DOMAIN open_auctions' : AuctionAnnounced(id)'
      BY <1>0, <2>1, <3>1 DEF AuctionAnnounced
    <3> QED
      BY <3>6, <3>7, <3>8, <3>9, <3>10 DEF AnnouncedInv
  <2> QED
    BY <2>2, <2>7, <2>8, <2>9
<1>8. ASSUME NEW p \in Proposers, OpenAuction(p)
      PROVE  AnnouncedInv'
  <2>1. PICK b \in Attributes :
            LET id == MixProposalIntoPayloadId(b.id, p)
                new == [slot |-> task.slot, id |-> id, proposer |-> p,
                        relays |-> RelaysOf(task.slot, p)] IN
            /\ task.id = b.id /\ task.slot = b.slot
            /\ DOMAIN open_auctions' = DOMAIN open_auctions \cup {id}
            /\ \A x \in DOMAIN open_auctions : open_auctions'[x] = open_auctions[x]
            /\ id \notin DOMAIN open_auctions => open_auctions'[id] = new
    BY <1>8, OpenAuctionFacts
  <2> DEFINE id == MixProposalIntoPayloadId(b.id, p)
             new == [slot |-> task.slot, id |-> id, proposer |-> p,
                     relays |-> RelaysOf(task.slot, p)]
  <2>2. /\ task.pc = "opening" /\ task' = NextProposal(p)
        /\ \/ processed_payload_attributes' =
                    [processed_payload_attributes EXCEPT ![task.slot] = @ \cup {id}]
           \/ UNCHANGED processed_payload_attributes
        /\ UNCHANGED <<auction_schedule, announced, retain_slot>>
    BY <1>8, <2>1 DEF OpenAuction, ObservePayloadId, history
  <2>3. PICK a \in announced : /\ a.id = task.id /\ a.slot = task.slot
                               /\ a.proposals = auction_schedule[task.slot]
    BY <1>0, <2>2 DEF OpeningAnnounced
  <2>4. /\ new.slot = task.slot /\ new.proposer = p /\ new.relays = RelaysIn(a.proposals, p)
        /\ task.slot \in Slots
    BY <2>3 DEF RelaysOf, RelaysIn, OpeningInv, TaskInv
  <2>5. [slot |-> b.slot, id |-> id] \in OwnEvents
    BY DEF OwnEvents
  <2>6. \A x \in Attributes : x.id # id
    BY <2>5, OwnIdsApart
  <2>7. /\ DOMAIN open_auctions' = DOMAIN open_auctions \cup {id}
        /\ \A x \in DOMAIN open_auctions : open_auctions'[x] = open_auctions[x]
        /\ id \notin DOMAIN open_auctions => open_auctions'[id] = new
        /\ id = MixProposalIntoPayloadId(a.id, p) /\ task.id = a.id
    BY <2>1, <2>3
  <2> HIDE DEF id, new
  <2>8. AnnouncedOnce'
    BY <1>0, <2>2 DEF AnnouncedOnce
  <2>9. AnnouncedProcessed'
    <3>1. /\ \A s \in Slots : processed_payload_attributes[s] \subseteq processed_payload_attributes'[s]
          /\ \A s \in Slots : processed_payload_attributes'[s] \subseteq processed_payload_attributes[s] \cup {id}
      BY <1>0, <2>2, <2>4
    <3> QED
      BY <1>0, <1>1, <2>2, <2>6, <3>1 DEF AnnouncedProcessed
  <2>10. ASSUME NEW x \in DOMAIN open_auctions' PROVE AuctionAnnounced(x)'
    <3>1. CASE x \in DOMAIN open_auctions
      BY <1>0, <2>2, <2>7, <3>1 DEF AuctionAnnounced
    <3>2. CASE x = id /\ id \notin DOMAIN open_auctions
      BY <2>2, <2>3, <2>4, <2>7, <3>2 DEF AuctionAnnounced
    <3> QED
      BY <2>7, <3>1, <3>2
  <2>11. CASE task.todo = {p}
    <3>1. task'.pc = "idle"
      BY <2>2, <2>11 DEF NextProposal, IdleTask
    <3>2. OpeningAnnounced'
      BY <3>1 DEF OpeningAnnounced
    <3>3. TakenUp'
      BY <1>0, <2>2, <2>7, <2>11 DEF TakenUp
    <3> QED
      BY <2>8, <2>9, <2>10, <3>2, <3>3 DEF AnnouncedInv
  <2>12. CASE task.todo # {p}
    <3>1. /\ task'.pc = "opening" /\ task'.slot = task.slot /\ task'.id = task.id
          /\ task'.todo = task.todo \ {p}
      BY <2>2, <2>12 DEF NextProposal, OpeningInv, TaskInv
    <3>2. OpeningAnnounced'
      BY <2>2, <2>3, <3>1 DEF OpeningAnnounced
    <3>3. TakenUp'
      BY <1>0, <2>2, <2>7, <3>1 DEF TakenUp
    <3> QED
      BY <2>8, <2>9, <2>10, <3>2, <3>3 DEF AnnouncedInv
  <2> QED
    BY <2>11, <2>12
<1> QED
  BY <1>3, <1>4, <1>5, <1>6, <1>7, <1>8 DEF Next

\* Every proposal that was known when its slot's attributes came gets an auction, for its
\* relay, that lasts to the end of the epoch, whatever is announced again, lost or cleared.
THEOREM ProposalsAuctioned == Spec => []ProposalsAreAuctioned
<1>1. Spec => [](OpeningInv /\ AnnouncedInv)
  BY OpeningHolds, AnnouncedInit, AnnouncedStep, PTL DEF Spec
<1> QED
  BY <1>1, AuctionedFollows, PTL

=============================================================================
