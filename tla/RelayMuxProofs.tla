--------------------------- MODULE RelayMuxProofs ---------------------------
(***************************************************************************)
(* What the multiplexer of mev-boost guarantees for any number of relays,  *)
(* bids, slots and concurrent calls.                                       *)
(***************************************************************************)
EXTENDS RelayMux, WellFoundedInduction, TLAPS

----------------------------------------------------------------------------
(***************************************************************************)
(* select_best_bids.  Both lemmas about the fold are by induction on the   *)
(* number of answers, in the form: a set of numbers at which a statement   *)
(* fails would have a least element.                                       *)
(***************************************************************************)

LEMMA LeastNumber ==
    ASSUME NEW T, T \subseteq Nat, T # {}
    PROVE  \E x \in T : \A y \in T : x <= y
<1>1. IsWellFoundedOn(OpToRel(<, Nat), Nat)
  BY NatLessThanWellFounded
<1>2. PICK x \in T : \A y \in T : ~(<<y, x>> \in OpToRel(<, Nat))
  BY <1>1, WFMin
<1>3. \A y \in T : ~(y < x)
  BY <1>2 DEF OpToRel
<1> QED
  BY <1>3

\* g is what the fold has after each of the first n answers.
Folds(g, answers, n) ==
    /\ g[0] = NoBest
    /\ \A i \in 1..n : g[i] = KeepBest(g[i - 1], i, answers[i].bid.value)

LEMMA FoldExists ==
    ASSUME NEW answers
    PROVE  \A n \in Nat : \E g : Folds(g, answers, n)
<1> DEFINE T == {n \in Nat : ~\E g : Folds(g, answers, n)}
<1> SUFFICES ASSUME T # {} PROVE FALSE
  OBVIOUS
<1>1. PICK m \in T : \A y \in T : m <= y
  BY LeastNumber
<1>2. CASE m = 0
  <2> DEFINE g == [i \in {0} |-> NoBest]
  <2>1. g[0] = NoBest /\ 1..0 = {}
    OBVIOUS
  <2> HIDE DEF g
  <2>2. Folds(g, answers, 0)
    BY <2>1 DEF Folds
  <2> QED
    BY <1>1, <1>2, <2>2
<1>3. CASE m # 0
  <2>1. m \in Nat /\ m - 1 \in Nat /\ m - 1 \notin T
    BY <1>1, <1>3
  <2>2. PICK g : Folds(g, answers, m - 1)
    BY <2>1
  <2> DEFINE last == KeepBest(g[m - 1], m, answers[m].bid.value)
             h == [i \in 0..m |-> IF i = m THEN last ELSE g[i]]
  <2>3. \A i \in 0..(m - 1) : h[i] = g[i]
    BY <2>1
  <2>4. h[m] = last
    BY <2>1
  <2> HIDE DEF h
  <2>5. h[0] = NoBest
    BY <2>1, <2>2, <2>3 DEF Folds
  <2>6. ASSUME NEW i \in 1..m PROVE h[i] = KeepBest(h[i - 1], i, answers[i].bid.value)
    <3>1. i - 1 \in 0..(m - 1) /\ h[i - 1] = g[i - 1]
      BY <2>1, <2>3
    <3>2. CASE i = m
      BY <2>4, <3>1, <3>2
    <3>3. CASE i # m
      <4>1. i \in 1..(m - 1)
        BY <2>1, <3>3
      <4>2. g[i] = KeepBest(g[i - 1], i, answers[i].bid.value) /\ h[i] = g[i]
        BY <2>1, <2>2, <2>3, <4>1 DEF Folds
      <4> QED
        BY <3>1, <4>2
    <3> QED
      BY <3>2, <3>3
  <2>7. Folds(h, answers, m)
    BY <2>5, <2>6 DEF Folds
  <2> QED
    BY <1>1, <2>7
<1> QED
  BY <1>2, <1>3

LEMMA FoldIsDefined ==
    ASSUME NEW answers, Len(answers) \in Nat
    PROVE  Folds(BestUpTo(answers), answers, Len(answers))
<1> DEFINE size == Len(answers)
           Defines(f) == f = [n \in 0..size |->
                IF n = 0 THEN NoBest ELSE KeepBest(f[n - 1], n, answers[n].bid.value)]
<1>1. PICK g : Folds(g, answers, size)
  BY FoldExists
<1> DEFINE f == [n \in 0..size |-> g[n]]
<1>2. Defines(f)
  <2>1. \A n \in 0..size : f[n] = IF n = 0 THEN NoBest ELSE KeepBest(f[n - 1], n, answers[n].bid.value)
    <3> SUFFICES ASSUME NEW n \in 0..size
                 PROVE  f[n] = IF n = 0 THEN NoBest ELSE KeepBest(f[n - 1], n, answers[n].bid.value)
      OBVIOUS
    <3>1. CASE n = 0
      BY <1>1, <3>1 DEF Folds
    <3>2. CASE n # 0
      <4>1. n \in 1..size /\ n - 1 \in 0..size
        BY <3>2
      <4>2. f[n] = g[n] /\ f[n - 1] = g[n - 1]
        BY <4>1
      <4>3. g[n] = KeepBest(g[n - 1], n, answers[n].bid.value)
        BY <1>1, <4>1 DEF Folds
      <4> QED
        BY <3>2, <4>2, <4>3
    <3> QED
      BY <3>1, <3>2
  <2> QED
    BY <2>1
<1>3. BestUpTo(answers) = CHOOSE b : Defines(b)
  BY DEF BestUpTo
<1> HIDE DEF Defines
<1>4. Defines(BestUpTo(answers))
  BY <1>2, <1>3
<1> QED
  BY <1>4 DEF Defines, Folds

\* What the fold has after n answers: the greatest value so far and the indices that have it.
IsBest(best, answers, n) ==
    /\ best \in [indices : SUBSET Nat, max : Nat]
    /\ best.indices = {i \in 1..n : answers[i].bid.value = best.max}
    /\ \A i \in 1..n : answers[i].bid.value <= best.max
    /\ IF n = 0 THEN best.max = 0 ELSE best.indices # {}

LEMMA KeepBestKeepsBest ==
    ASSUME NEW answers, NEW n \in Nat, n >= 1, \A i \in 1..n : answers[i].bid.value \in Nat,
           NEW best, IsBest(best, answers, n - 1)
    PROVE  IsBest(KeepBest(best, n, answers[n].bid.value), answers, n)
<1> DEFINE v(i) == answers[i].bid.value
<1>0. /\ \A i \in 1..n : v(i) \in Nat
      /\ best \in [indices : SUBSET Nat, max : Nat]
      /\ best.indices = {i \in 1..(n - 1) : v(i) = best.max}
      /\ \A i \in 1..(n - 1) : v(i) <= best.max
      /\ n - 1 = 0 => best.max = 0
      /\ n - 1 # 0 => best.indices # {}
  BY DEF IsBest
<1>1. /\ \A i \in 1..n : i = n \/ i \in 1..(n - 1)
      /\ \A i \in 1..(n - 1) : i \in 1..n /\ i # n
      /\ n \in 1..n
  OBVIOUS
<1>2. KeepBest(best, n, v(n)) = IF v(n) > best.max THEN [indices |-> {n}, max |-> v(n)]
                                ELSE IF v(n) = best.max THEN [best EXCEPT !.indices = @ \cup {n}]
                                ELSE best
  BY <1>0, <1>1 DEF KeepBest
<1> HIDE DEF v
<1> DEFINE kept == KeepBest(best, n, v(n))
<1> HIDE DEF kept
<1> SUFFICES /\ kept \in [indices : SUBSET Nat, max : Nat]
             /\ kept.indices = {i \in 1..n : v(i) = kept.max}
             /\ \A i \in 1..n : v(i) <= kept.max
             /\ kept.indices # {}
  BY DEF IsBest, kept, v
<1>3. CASE v(n) > best.max
  <2>1. kept = [indices |-> {n}, max |-> v(n)]
    BY <1>2, <1>3 DEF kept
  <2>2. kept.indices = {n} /\ kept.max = v(n) /\ kept \in [indices : SUBSET Nat, max : Nat]
    BY <1>0, <1>1, <2>1
  <2>3. \A i \in 1..(n - 1) : v(i) < v(n)
    BY <1>0, <1>1, <1>3
  <2>4. \A i \in 1..n : v(i) <= v(n) /\ (v(i) = v(n) <=> i = n)
    BY <1>0, <1>1, <2>3
  <2>5. kept.indices = {i \in 1..n : v(i) = kept.max}
    BY <1>1, <2>2, <2>4
  <2> QED
    BY <2>2, <2>4, <2>5
<1>4. CASE v(n) = best.max
  <2>1. kept = [best EXCEPT !.indices = @ \cup {n}]
    BY <1>0, <1>2, <1>4 DEF kept
  <2>2. /\ kept.indices = best.indices \cup {n} /\ kept.max = best.max
        /\ kept \in [indices : SUBSET Nat, max : Nat]
    BY <1>0, <2>1
  <2>3. kept.indices = {i \in 1..n : v(i) = kept.max}
    BY <1>0, <1>1, <1>4, <2>2
  <2> QED
    BY <1>0, <1>1, <1>4, <2>2, <2>3
<1>5. CASE v(n) < best.max
  <2>1. kept = best
    BY <1>0, <1>1, <1>2, <1>5 DEF kept
  <2>2. v(n) # best.max /\ v(n) <= best.max
    BY <1>0, <1>1, <1>5
  <2>3. kept.indices = {i \in 1..n : v(i) = kept.max}
    BY <1>0, <1>1, <2>1, <2>2
  <2>4. n - 1 # 0
    <3>1. v(n) \in Nat
      BY <1>0, <1>1
    <3> QED
      BY <1>0, <1>5, <3>1
  <2> QED
    BY <1>0, <1>1, <2>1, <2>2, <2>3, <2>4
<1> QED
  BY <1>0, <1>1, <1>3, <1>4, <1>5

\* What select_best_bids returns: the indices of the answers that no answer beats, and at least
\* one as soon as there is an answer.
LEMMA SelectFacts ==
    ASSUME NEW answers \in Seq(Answers)
    PROVE  /\ SelectBestBids(answers) = {i \in DOMAIN answers :
                \A j \in DOMAIN answers : answers[i].bid.value >= answers[j].bid.value}
           /\ answers # << >> => SelectBestBids(answers) # {}
<1> DEFINE size == Len(answers)
           best(n) == BestUpTo(answers)[n]
           v(i) == answers[i].bid.value
<1>1. size \in Nat /\ DOMAIN answers = 1..size
  OBVIOUS
<1>2. \A i \in 1..size : v(i) \in Nat
  <2> SUFFICES ASSUME NEW i \in 1..size PROVE v(i) \in Nat
    OBVIOUS
  <2>1. answers[i] \in Answers
    BY <1>1
  <2> QED
    BY <2>1, MuxAssumption DEF Answers
<1>3. Folds(BestUpTo(answers), answers, size)
  BY <1>1, FoldIsDefined
<1>4. best(0) = NoBest /\ \A i \in 1..size : best(i) = KeepBest(best(i - 1), i, v(i))
  BY <1>3 DEF Folds
<1> HIDE DEF best, size
<1>5. IsBest(best(size), answers, size)
  <2> DEFINE T == {n \in 0..size : ~IsBest(best(n), answers, n)}
  <2> SUFFICES ASSUME T # {} PROVE FALSE
    BY <1>1
  <2>1. T \subseteq Nat
    BY <1>1
  <2>2. PICK m \in T : \A y \in T : m <= y
    BY <2>1, LeastNumber
  <2>3. m # 0
    <3>1. 1..0 = {}
      OBVIOUS
    <3>2. IsBest(NoBest, answers, 0)
      BY <3>1 DEF IsBest, NoBest
    <3> QED
      BY <1>4, <2>2, <3>2
  <2>4. m \in 1..size /\ m - 1 \in 0..size /\ m - 1 \notin T
    BY <1>1, <2>1, <2>2, <2>3
  <2>5. IsBest(best(m - 1), answers, m - 1)
    BY <2>4
  <2>6. m \in Nat /\ m >= 1 /\ \A i \in 1..m : v(i) \in Nat
    BY <1>1, <1>2, <2>4
  <2>7. IsBest(KeepBest(best(m - 1), m, v(m)), answers, m)
    BY <2>5, <2>6, KeepBestKeepsBest
  <2> QED
    BY <1>4, <2>2, <2>4, <2>7
<1> DEFINE max == best(size).max
<1> HIDE DEF v
<1>6. /\ SelectBestBids(answers) = {i \in 1..size : v(i) = max}
      /\ max \in Nat
      /\ \A i \in 1..size : v(i) <= max
      /\ size # 0 => SelectBestBids(answers) # {}
  BY <1>5 DEF IsBest, SelectBestBids, best, size, v
<1> HIDE DEF max
<1>7. SelectBestBids(answers) = {i \in 1..size : \A j \in 1..size : v(i) >= v(j)}
  <2>1. ASSUME NEW i \in 1..size, v(i) = max
        PROVE  \A j \in 1..size : v(i) >= v(j)
    BY <1>2, <1>6, <2>1
  <2>2. ASSUME NEW i \in 1..size, \A j \in 1..size : v(i) >= v(j)
        PROVE  v(i) = max
    <3>1. size # 0
      BY <1>1
    <3>2. PICK j \in 1..size : v(j) = max
      BY <1>6, <3>1
    <3> QED
      BY <1>2, <1>6, <2>2, <3>2
  <2> QED
    BY <1>6, <2>1, <2>2
<1>8. answers # << >> => size # 0
  BY <1>1 DEF size
<1> QED
  BY <1>1, <1>6, <1>7, <1>8 DEF v

\* The calls of fetch_best_bid and the bids they have gathered, all for the slot asked for.
FetchInv ==
    /\ fetch \in [FetchTasks -> [pc : {"idle", "gather"}, slot : Slots, pending : SUBSET Relays,
                                 bids : Seq(Answers)]]
    /\ \A t \in FetchTasks : \A i \in DOMAIN fetch[t].bids :
        fetch[t].bids[i].bid.slot = fetch[t].slot

\* An auction is remembered with the slot its block hash commits to.
OutstandingInv ==
    /\ outstanding_bids \in [Hashes -> [slot : Slots, relays : SUBSET Relays] \cup {None}]
    /\ \A b \in Bids : outstanding_bids[b.block_hash] # None =>
        outstanding_bids[b.block_hash].slot = b.slot

LifetimeInv ==
    /\ FetchInv
    /\ OutstandingInv
    /\ slot \in Slots
    /\ \A x \in served : x[1] \in Bids
    /\ OpenableForLifetime

LEMMA HashOfBid == \A b \in Bids : b.block_hash \in Hashes
BY DEF Hashes

LEMMA LifetimeInit == Init => LifetimeInv
<1> SUFFICES ASSUME Init PROVE LifetimeInv
  OBVIOUS
<1>1. FetchInv
  <2>1. IdleFetch \in [pc : {"idle", "gather"}, slot : Slots, pending : SUBSET Relays,
                       bids : Seq(Answers)]
    BY MuxAssumption DEF IdleFetch, Slots
  <2> QED
    BY <2>1 DEF Init, FetchInv, IdleFetch
<1>2. OutstandingInv
  BY HashOfBid DEF Init, OutstandingInv
<1>3. slot \in Slots /\ (\A x \in served : x[1] \in Bids) /\ OpenableForLifetime
  BY DEF Init, OpenableForLifetime
<1> QED
  BY <1>1, <1>2, <1>3 DEF LifetimeInv

LEMMA RetainSlotMonotone ==
    ASSUME NEW s \in Slots, NEW u \in Slots, s < u
    PROVE  RetainSlot(s) \in Nat /\ RetainSlot(u) \in Nat /\ RetainSlot(s) <= RetainSlot(u)
BY MuxAssumption DEF Slots, RetainSlot, CheckedSub, AUCTION_LIFETIME

\* Forgetting auctions spares those that are within their lifetime at the new slot.
LEMMA OnSlotStep ==
    ASSUME LifetimeInv, NEW s \in Slots, OnSlot(s)
    PROVE  LifetimeInv'
<1> USE DEF LifetimeInv
<1>1. slot' = s /\ UNCHANGED <<fetch, served>>
  BY DEF OnSlot
<1>2. \A h \in Hashes : outstanding_bids'[h] =
        IF outstanding_bids[h] # None /\ outstanding_bids[h].slot >= RetainSlot(s)
        THEN outstanding_bids[h] ELSE None
  BY DEF OnSlot
<1>3. FetchInv'
  BY <1>1 DEF FetchInv
<1>4. OutstandingInv'
  BY <1>2, HashOfBid DEF OnSlot, OutstandingInv
<1>5. OpenableForLifetime'
  <2> SUFFICES ASSUME NEW x \in served, x[1].slot >= RetainSlot(s)
               PROVE  outstanding_bids'[x[1].block_hash] # None
    BY <1>1 DEF OpenableForLifetime
  <2> DEFINE b == x[1]
  <2>1. b \in Bids /\ b.slot \in Nat /\ b.block_hash \in Hashes
    BY MuxAssumption, HashOfBid DEF Slots
  <2>2. b.slot >= RetainSlot(slot)
    BY <2>1, RetainSlotMonotone DEF OnSlot
  <2>3. outstanding_bids[b.block_hash] # None /\ outstanding_bids[b.block_hash].slot = b.slot
    BY <2>1, <2>2 DEF OpenableForLifetime, OutstandingInv
  <2> QED
    BY <1>2, <2>1, <2>3
<1> QED
  BY <1>1, <1>3, <1>4, <1>5

\* A call of fetch_best_bid that starts, gathers an answer or ends without a bid.
LEMMA GatherStep ==
    ASSUME LifetimeInv, NEW t \in FetchTasks,
           \/ \E s \in Requests : FetchBestBid(t, s)
           \/ \E r \in Relays : RelayHasNoBid(t, r) \/ \E bid \in Bids : RelayAnswers(t, r, bid)
           \/ FetchWithoutBids(t)
    PROVE  LifetimeInv'
<1> USE DEF LifetimeInv
<1>1. UNCHANGED <<outstanding_bids, slot, served>>
  BY DEF FetchBestBid, RelayHasNoBid, RelayAnswers, FetchWithoutBids
<1>2. ASSUME NEW s \in Requests, FetchBestBid(t, s)
      PROVE  FetchInv'
  <2>1. s \in Slots
    BY MuxAssumption
  <2> QED
    BY <1>2, <2>1 DEF FetchBestBid, FetchInv
<1>3. ASSUME NEW r \in Relays, RelayHasNoBid(t, r)
      PROVE  FetchInv'
  BY <1>3 DEF RelayHasNoBid, FetchInv
<1>4. ASSUME NEW r \in Relays, NEW bid \in Bids, RelayAnswers(t, r, bid)
      PROVE  FetchInv'
  <2> DEFINE answer == [relay |-> r, bid |-> bid]
  <2>1. answer \in Answers
    BY DEF Answers
  <2>2. CASE ~ValidateBid(bid)
    BY <1>4, <2>2 DEF RelayAnswers, FetchInv
  <2>3. CASE ValidateBid(bid)
    <3>1. fetch' = [fetch EXCEPT ![t].pending = @ \ {r}, ![t].bids = Append(@, answer)]
      BY <1>4, <2>3 DEF RelayAnswers
    <3>2. fetch[t].bids \in Seq(Answers)
      BY DEF FetchInv
    <3>3. /\ Append(fetch[t].bids, answer) \in Seq(Answers)
          /\ \A i \in DOMAIN Append(fetch[t].bids, answer) :
                Append(fetch[t].bids, answer)[i] =
                    IF i \in DOMAIN fetch[t].bids THEN fetch[t].bids[i] ELSE answer
      BY <2>1, <3>2
    <3>4. bid.slot = fetch[t].slot
      BY <1>4 DEF RelayAnswers
    <3> HIDE DEF answer
    <3>5. answer.bid = bid
      BY DEF answer
    <3>6. fetch' \in [FetchTasks -> [pc : {"idle", "gather"}, slot : Slots,
                                      pending : SUBSET Relays, bids : Seq(Answers)]]
      BY <3>1, <3>3 DEF FetchInv
    <3>7. ASSUME NEW u \in FetchTasks, NEW i \in DOMAIN fetch'[u].bids
          PROVE  fetch'[u].bids[i].bid.slot = fetch'[u].slot
      <4>1. CASE u # t
        <5>1. fetch'[u] = fetch[u] /\ i \in DOMAIN fetch[u].bids
          BY <3>1, <3>7, <4>1 DEF FetchInv
        <5>2. fetch[u].bids[i].bid.slot = fetch[u].slot
          BY <5>1 DEF FetchInv
        <5> QED
          BY <5>1, <5>2
      <4>2. CASE u = t
        <5>1. fetch'[t].bids = Append(fetch[t].bids, answer) /\ fetch'[t].slot = fetch[t].slot
          BY <3>1 DEF FetchInv
        <5>2. \/ fetch'[t].bids[i] = fetch[t].bids[i] /\ i \in DOMAIN fetch[t].bids
              \/ fetch'[t].bids[i] = answer
          BY <3>3, <3>7, <4>2, <5>1
        <5> QED
          BY <3>4, <3>5, <4>2, <5>1, <5>2 DEF FetchInv
      <4> QED
        BY <4>1, <4>2
    <3> QED
      BY <3>6, <3>7 DEF FetchInv
  <2> QED
    BY <2>2, <2>3
<1>5. ASSUME FetchWithoutBids(t)
      PROVE  FetchInv'
  <2>1. IdleFetch \in [pc : {"idle", "gather"}, slot : Slots, pending : SUBSET Relays,
                       bids : Seq(Answers)] /\ IdleFetch.bids = << >>
    BY MuxAssumption DEF IdleFetch, Slots
  <2> QED
    BY <1>5, <2>1 DEF FetchWithoutBids, FetchInv
<1>6. FetchInv'
  BY <1>2, <1>3, <1>4, <1>5
<1> QED
  BY <1>1, <1>6 DEF OutstandingInv, OpenableForLifetime

\* The bid that a call returns is remembered, and takes no other auction's place.
LEMMA ReturnStep ==
    ASSUME LifetimeInv, NEW t \in FetchTasks, NEW best \in DOMAIN fetch[t].bids,
           FetchReturnsBid(t, best)
    PROVE  LifetimeInv'
<1> USE DEF LifetimeInv
<1> DEFINE bid == fetch[t].bids[best].bid
<1>1. fetch[t].bids \in Seq(Answers) /\ fetch[t].slot \in Slots
  BY DEF FetchInv
<1>2. bid \in Bids /\ bid.slot = fetch[t].slot
  <2>1. fetch[t].bids[best] \in Answers
    BY <1>1
  <2> QED
    BY <2>1 DEF FetchInv, Answers
<1>3. bid.block_hash \in Hashes
  BY <1>2, HashOfBid
<1>4. PICK relays \in SUBSET Relays :
        outstanding_bids' = [outstanding_bids EXCEPT ![bid.block_hash] =
            [slot |-> fetch[t].slot, relays |-> relays]]
  BY DEF FetchReturnsBid, BestRelays
<1>5. \A h \in Hashes : outstanding_bids'[h] =
        IF h = bid.block_hash THEN [slot |-> fetch[t].slot, relays |-> relays]
        ELSE outstanding_bids[h]
  BY <1>3, <1>4 DEF OutstandingInv
<1>6. served' = served \cup {<<bid, BidVersion(bid)>>} /\ UNCHANGED slot /\ fetch' = [fetch EXCEPT ![t] = IdleFetch]
  BY DEF FetchReturnsBid
<1>7. FetchInv'
  <2>1. IdleFetch \in [pc : {"idle", "gather"}, slot : Slots, pending : SUBSET Relays,
                       bids : Seq(Answers)] /\ IdleFetch.bids = << >>
    BY MuxAssumption DEF IdleFetch, Slots
  <2> QED
    BY <1>6, <2>1 DEF FetchInv
<1> HIDE DEF bid
<1>8. OutstandingInv'
  <2>1. outstanding_bids' \in [Hashes -> [slot : Slots, relays : SUBSET Relays] \cup {None}]
    BY <1>1, <1>4 DEF OutstandingInv
  <2>2. ASSUME NEW b \in Bids, outstanding_bids'[b.block_hash] # None
        PROVE  outstanding_bids'[b.block_hash].slot = b.slot
    <3>1. CASE b.block_hash = bid.block_hash
      BY <1>2, <1>5, <3>1, HashOfBid, MuxAssumption
    <3>2. CASE b.block_hash # bid.block_hash
      BY <1>5, <2>2, <3>2, HashOfBid DEF OutstandingInv
    <3> QED
      BY <3>1, <3>2
  <2> QED
    BY <2>1, <2>2 DEF OutstandingInv
<1>9. [slot |-> fetch[t].slot, relays |-> relays] # None
  BY <1>1, MuxAssumption
<1>10. OpenableForLifetime'
  <2> SUFFICES ASSUME NEW x \in served', x[1].slot >= RetainSlot(slot)
               PROVE  outstanding_bids'[x[1].block_hash] # None
    BY <1>6 DEF OpenableForLifetime
  <2>1. CASE x[1].block_hash = bid.block_hash
    BY <1>3, <1>5, <1>9, <2>1
  <2>2. CASE x[1].block_hash # bid.block_hash
    <3>1. x \in served
      BY <1>6, <2>2
    <3> QED
      BY <1>5, <2>2, <3>1, HashOfBid DEF OpenableForLifetime
  <2> QED
    BY <2>1, <2>2
<1>11. \A x \in served' : x[1] \in Bids
  BY <1>2, <1>6
<1> QED
  BY <1>6, <1>7, <1>8, <1>10, <1>11

LEMMA LifetimeStep == LifetimeInv /\ [Next]_vars => LifetimeInv'
<1> SUFFICES ASSUME LifetimeInv, [Next]_vars PROVE LifetimeInv'
  OBVIOUS
<1>1. ASSUME UNCHANGED <<outstanding_bids, slot, fetch, served>>
      PROVE  LifetimeInv'
  BY <1>1 DEF LifetimeInv, FetchInv, OutstandingInv, OpenableForLifetime
<1>2. ASSUME NEW t \in OpenTasks, OpenNext(t) \/ \E b \in Blocks : OpenBid(t, b)
      PROVE  LifetimeInv'
  BY <1>1, <1>2 DEF OpenNext, OpenBid, RelayOpens, RelayFailsToOpen, OpenReturns
<1>3. CASE UNCHANGED vars
  BY <1>1, <1>3 DEF vars
<1> QED
  BY <1>2, <1>3, OnSlotStep, GatherStep, ReturnStep DEF Next, FetchNext

\* A bid that fetch_best_bid returned stays in outstanding_bids, so that open_bid finds
\* relays to ask, until its slot is more than AUCTION_LIFETIME slots in the past.
THEOREM ServedBidStaysOpenable == Spec => []OpenableForLifetime
<1>1. LifetimeInv => OpenableForLifetime
  BY DEF LifetimeInv
<1> QED
  BY <1>1, LifetimeInit, LifetimeStep, PTL DEF Spec

----------------------------------------------------------------------------
(* Messages as they are read *)

LEMMA LeastOf ==
    ASSUME NEW S, NEW n \in S, n \in Int, \A y \in S : y \in Int /\ n <= y
    PROVE  Min(S) = n
<1>1. \E x \in S : \A y \in S : x =< y
  OBVIOUS
<1> DEFINE m == Min(S)
<1>2. m \in S /\ \A y \in S : m =< y
  BY <1>1 DEF Min
<1> HIDE DEF m
<1>3. m \in Int /\ n <= m /\ m <= n
  BY <1>2
<1>4. m = n
  BY <1>3
<1> QED
  BY <1>4 DEF m

\* The variant that a message is read as is Deneb's when it has commitments, and Capella's
\* when it has none: the oldest fork's variant is never reached.
LEMMA VariantRead ==
    ASSUME NEW json
    PROVE  /\ BidVariant(json) = IF json.commitments # None THEN "deneb" ELSE "capella"
           /\ ContentsVariant(json) = IF json.commitments # None THEN "deneb" ELSE "capella"
<1>1. /\ VariantOrder[1] = "deneb" /\ VariantOrder[2] = "capella" /\ VariantOrder[3] = "bellatrix"
      /\ Len(VariantOrder) = 3
  BY DEF VariantOrder
<1>2. 1..3 = {1, 2, 3}
  OBVIOUS
<1> DEFINE B == {i \in 1..Len(VariantOrder) : BidParses(VariantOrder[i], json)}
           C == {i \in 1..Len(VariantOrder) : ContentsParse(VariantOrder[i], json)}
<1>3. /\ BidVariant(json) = VariantOrder[IF B # {} THEN Min(B) ELSE 0]
      /\ ContentsVariant(json) = VariantOrder[IF C # {} THEN Min(C) ELSE 0]
  BY DEF BidVariant, ContentsVariant, SelectInSeq
<1>4. CASE json.commitments # None
  <2>1. 1 \in B /\ \A y \in B : y \in Int /\ 1 <= y
    BY <1>1, <1>2, <1>4 DEF BidParses
  <2>2. 1 \in C /\ \A y \in C : y \in Int /\ 1 <= y
    BY <1>1, <1>2, <1>4 DEF ContentsParse
  <2> HIDE DEF B, C
  <2>3. Min(B) = 1 /\ Min(C) = 1
    BY <2>1, <2>2, LeastOf
  <2> QED
    BY <1>1, <1>3, <1>4, <2>1, <2>2, <2>3
<1>5. CASE json.commitments = None
  <2>1. 2 \in B /\ \A y \in B : y \in Int /\ 2 <= y
    BY <1>1, <1>2, <1>5 DEF BidParses
  <2>2. 2 \in C /\ \A y \in C : y \in Int /\ 2 <= y
    BY <1>1, <1>2, <1>5 DEF ContentsParse
  <2> HIDE DEF B, C
  <2>3. Min(B) = 2 /\ Min(C) = 2
    BY <2>1, <2>2, LeastOf
  <2> QED
    BY <1>1, <1>3, <1>5, <2>1, <2>2, <2>3
<1> QED
  BY <1>4, <1>5

\* So the commitments of a bid, and the blobs of contents, are read as they were sent.
LEMMA CommitmentsRead ==
    ASSUME NEW json
    PROVE  BlobKzgCommitments(json) = json.commitments /\ BlobsBundle(json) = json.commitments
BY VariantRead DEF BlobKzgCommitments, BlobsBundle

----------------------------------------------------------------------------
(* The types of all calls *)

OpenCalls == [pc : {"idle", "gather"}, block : Blocks \cup {None}, pending : SUBSET Relays,
              responses : Seq(Contents)]

\* What is gathered is valid, and of relays that are not asked any more: each answers once.
AnsweredOnce ==
    \A t \in FetchTasks : \A i \in DOMAIN fetch[t].bids :
        fetch[t].bids[i].relay \notin fetch[t].pending /\ ValidateBid(fetch[t].bids[i].bid)

OpenInv ==
    /\ open \in [OpenTasks -> OpenCalls]
    /\ \A t \in OpenTasks : open[t].pc = "gather" => open[t].block \in Blocks
    /\ returned \subseteq Blocks \X Contents \X Forks
    /\ PayloadMatchesBlock

LEMMA OpenInit == Init => OpenInv
<1>1. IdleOpen \in OpenCalls /\ IdleOpen.pc = "idle"
  BY DEF IdleOpen, OpenCalls
<1> QED
  BY <1>1 DEF Init, OpenInv, PayloadMatchesBlock

LEMMA OpenStep == LifetimeInv /\ OpenInv /\ [Next]_vars => OpenInv'
<1> SUFFICES ASSUME LifetimeInv, OpenInv, [Next]_vars PROVE OpenInv'
  OBVIOUS
<1>0. /\ open \in [OpenTasks -> OpenCalls]
      /\ \A t \in OpenTasks : open[t].pc = "gather" => open[t].block \in Blocks
      /\ returned \subseteq Blocks \X Contents \X Forks
      /\ PayloadMatchesBlock
  BY DEF OpenInv
<1>1. ASSUME UNCHANGED <<open, returned>>
      PROVE  OpenInv'
  BY <1>1 DEF OpenInv, PayloadMatchesBlock
<1>2. ASSUME NEW t \in OpenTasks, NEW call \in OpenCalls, open' = [open EXCEPT ![t] = call],
             call.pc = "gather" => call.block \in Blocks, UNCHANGED returned
      PROVE  OpenInv'
  BY <1>0, <1>2 DEF OpenInv, PayloadMatchesBlock
<1>3. ASSUME NEW t \in OpenTasks, NEW b \in Blocks, OpenBid(t, b)
      PROVE  OpenInv'
  <2> DEFINE call == [pc |-> "gather", block |-> b, pending |-> outstanding_bids[b.block_hash].relays,
                      responses |-> << >>]
  <2>1. /\ b.block_hash \in Hashes /\ outstanding_bids[b.block_hash] # None
        /\ open' = [open EXCEPT ![t] = call] /\ UNCHANGED returned
    BY <1>3 DEF OpenBid
  <2>2. outstanding_bids[b.block_hash] \in [slot : Slots, relays : SUBSET Relays]
    BY <2>1 DEF LifetimeInv, OutstandingInv
  <2>3. call \in OpenCalls /\ call.block = b
    BY <2>2 DEF OpenCalls
  <2> HIDE DEF call
  <2> QED
    BY <1>2, <2>1, <2>3
<1>4. ASSUME NEW t \in OpenTasks, NEW r \in Relays, NEW contents \in Contents, RelayOpens(t, r, contents)
      PROVE  OpenInv'
  <2> DEFINE call == [open[t] EXCEPT !.pending = @ \ {r}, !.responses = Append(@, contents)]
  <2>1. open' = [open EXCEPT ![t] = call] /\ UNCHANGED returned
    BY <1>4 DEF RelayOpens
  <2>2. open[t] \in OpenCalls
    BY <1>0
  <2>3. Append(open[t].responses, contents) \in Seq(Contents)
    BY <2>2 DEF OpenCalls
  <2>4. call.responses = Append(open[t].responses, contents) /\ call.pending = open[t].pending \ {r}
        /\ call.pc = open[t].pc /\ call.block = open[t].block
    BY <2>2 DEF OpenCalls
  <2>5. call \in OpenCalls
    BY <2>2, <2>3 DEF OpenCalls
  <2> HIDE DEF call
  <2> QED
    BY <1>0, <1>2, <2>1, <2>4, <2>5
<1>5. ASSUME NEW t \in OpenTasks, NEW r \in Relays, RelayFailsToOpen(t, r)
      PROVE  OpenInv'
  <2> DEFINE call == [open[t] EXCEPT !.pending = @ \ {r}]
  <2>1. open' = [open EXCEPT ![t] = call] /\ UNCHANGED returned
    BY <1>5 DEF RelayFailsToOpen
  <2>2. call \in OpenCalls /\ call.pc = open[t].pc /\ call.block = open[t].block
    BY <1>0 DEF OpenCalls
  <2> HIDE DEF call
  <2> QED
    BY <1>0, <1>2, <2>1, <2>2
<1>6. ASSUME NEW t \in OpenTasks, OpenReturns(t)
      PROVE  OpenInv'
  <2> DEFINE block == open[t].block
             responses == open[t].responses
  <2>1. open[t].pc = "gather" /\ open' = [open EXCEPT ![t] = IdleOpen]
    BY <1>6 DEF OpenReturns
  <2>2. block \in Blocks /\ responses \in Seq(Contents)
    BY <1>0, <2>1 DEF OpenCalls
  <2>3. IdleOpen \in OpenCalls /\ IdleOpen.pc = "idle"
    BY DEF IdleOpen, OpenCalls
  <2>4. CASE UNCHANGED returned
    BY <1>2, <2>1, <2>3, <2>4
  <2>5. ASSUME NEW i \in DOMAIN responses, ValidatePayload(responses[i], block),
               returned' = returned \cup {<<block, responses[i], ContentsVersion(responses[i])>>}
        PROVE  OpenInv'
    <3> DEFINE c == responses[i]
               x == <<block, c, ContentsVersion(c)>>
    <3>1. c \in Contents /\ c.fork \in Forks
      BY <2>2, MuxAssumption
    <3>2. x \in Blocks \X Contents \X Forks
      BY <2>2, <3>1 DEF ContentsVersion
    <3>3. c.block_hash = block.block_hash /\ c.commitments = block.commitments
      BY <2>5, CommitmentsRead DEF ValidatePayload
    <3>4. x[1] = block /\ x[2] = c /\ x[3] = c.fork
      BY DEF ContentsVersion
    <3> HIDE DEF c, block, x
    <3>5. PayloadMatchesBlock'
      BY <1>0, <2>5, <3>3, <3>4 DEF PayloadMatchesBlock, x, c
    <3>6. returned' \subseteq Blocks \X Contents \X Forks
      BY <1>0, <2>5, <3>2 DEF x, c
    <3> QED
      BY <1>0, <2>1, <2>3, <3>5, <3>6 DEF OpenInv
  <2> QED
    BY <1>6, <2>4, <2>5 DEF OpenReturns
<1>7. CASE (\E s \in Slots : OnSlot(s))
           \/ (\E t \in FetchTasks : FetchNext(t) \/ \E s \in Requests : FetchBestBid(t, s))
           \/ UNCHANGED vars
  BY <1>1, <1>7
  DEF OnSlot, FetchNext, FetchBestBid, RelayHasNoBid, RelayAnswers, FetchWithoutBids, FetchReturnsBid, vars
<1> QED
  BY <1>3, <1>4, <1>5, <1>6, <1>7 DEF Next, OpenNext

\* The proposer only gets contents that match the block it signed, payload and blobs, under
\* the fork of the payload, although they are read without being told the fork.
THEOREM ContentsMatch == Spec => []PayloadMatchesBlock
<1>1. OpenInv => PayloadMatchesBlock
  BY DEF OpenInv
<1> QED
  BY <1>1, LifetimeInit, LifetimeStep, OpenInit, OpenStep, PTL DEF Spec

AnswersInv == AnsweredOnce /\ served \subseteq Bids \X Forks

LEMMA AnswersInit == Init => AnswersInv
BY DEF Init, AnswersInv, AnsweredOnce, IdleFetch

LEMMA AnswersStep == LifetimeInv /\ AnswersInv /\ [Next]_vars => AnswersInv'
<1> SUFFICES ASSUME LifetimeInv, AnswersInv, [Next]_vars PROVE AnswersInv'
  OBVIOUS
<1>0. /\ DOMAIN fetch = FetchTasks
      /\ \A t \in FetchTasks : fetch[t] \in [pc : {"idle", "gather"}, slot : Slots,
                                             pending : SUBSET Relays, bids : Seq(Answers)]
      /\ AnsweredOnce /\ served \subseteq Bids \X Forks
  BY DEF LifetimeInv, FetchInv, AnswersInv
\* One call changes; the others keep what they have gathered.
<1>1. ASSUME NEW t \in FetchTasks, NEW call, fetch' = [fetch EXCEPT ![t] = call],
             \A i \in DOMAIN call.bids :
                call.bids[i].relay \notin call.pending /\ ValidateBid(call.bids[i].bid)
      PROVE  AnsweredOnce'
  <2>1. \A u \in FetchTasks : fetch'[u] = IF u = t THEN call ELSE fetch[u]
    BY <1>0, <1>1
  <2> QED
    BY <1>0, <1>1, <2>1 DEF AnsweredOnce
<1>2. ASSUME NEW t \in FetchTasks, NEW call, fetch' = [fetch EXCEPT ![t] = call], call.bids = << >>
      PROVE  AnsweredOnce'
  <2>1. DOMAIN << >> = {}
    OBVIOUS
  <2>2. \A i \in DOMAIN call.bids :
            call.bids[i].relay \notin call.pending /\ ValidateBid(call.bids[i].bid)
    BY <1>2, <2>1
  <2> QED
    BY <1>1, <1>2, <2>2
<1>3. ASSUME NEW t \in FetchTasks, NEW s \in Requests, FetchBestBid(t, s)
      PROVE  AnswersInv'
  <2> DEFINE call == [pc |-> "gather", slot |-> s, pending |-> Relays, bids |-> << >>]
  <2>1. fetch' = [fetch EXCEPT ![t] = call] /\ UNCHANGED served
    BY <1>3 DEF FetchBestBid
  <2>2. call.bids = << >>
    OBVIOUS
  <2> HIDE DEF call
  <2> QED
    BY <1>0, <1>2, <2>1, <2>2 DEF AnswersInv
<1>4. ASSUME NEW t \in FetchTasks, NEW r \in Relays, RelayHasNoBid(t, r)
      PROVE  AnswersInv'
  <2> DEFINE call == [fetch[t] EXCEPT !.pending = @ \ {r}]
  <2>1. fetch' = [fetch EXCEPT ![t] = call] /\ UNCHANGED served
    BY <1>4 DEF RelayHasNoBid
  <2>2. call.bids = fetch[t].bids /\ call.pending = fetch[t].pending \ {r}
    BY <1>0
  <2> HIDE DEF call
  <2> QED
    BY <1>0, <1>1, <2>1, <2>2 DEF AnswersInv, AnsweredOnce
<1>5. ASSUME NEW t \in FetchTasks, NEW r \in Relays, NEW bid \in Bids, RelayAnswers(t, r, bid)
      PROVE  AnswersInv'
  <2> DEFINE answer == [relay |-> r, bid |-> bid]
             q == IF ValidateBid(bid) THEN Append(fetch[t].bids, answer) ELSE fetch[t].bids
             call == [fetch[t] EXCEPT !.pending = @ \ {r}, !.bids = q]
  <2>1. fetch' = [fetch EXCEPT ![t] = call] /\ UNCHANGED served
    BY <1>5 DEF RelayAnswers
  <2>2. call.bids = q /\ call.pending = fetch[t].pending \ {r}
    BY <1>0
  <2>3. answer \in Answers /\ answer.relay = r /\ answer.bid = bid /\ fetch[t].bids \in Seq(Answers)
    BY <1>0 DEF Answers
  <2> HIDE DEF answer, call
  <2>4. \A i \in DOMAIN q : \/ i \in DOMAIN fetch[t].bids /\ q[i] = fetch[t].bids[i]
                            \/ q[i] = answer /\ ValidateBid(bid)
    BY <2>3
  <2> HIDE DEF q
  <2>5. \A i \in DOMAIN call.bids :
            call.bids[i].relay \notin call.pending /\ ValidateBid(call.bids[i].bid)
    BY <1>0, <2>2, <2>3, <2>4 DEF AnsweredOnce
  <2> QED
    BY <1>0, <1>1, <2>1, <2>5 DEF AnswersInv
<1>6. ASSUME NEW t \in FetchTasks, FetchWithoutBids(t)
      PROVE  AnswersInv'
  <2>1. fetch' = [fetch EXCEPT ![t] = IdleFetch] /\ UNCHANGED served /\ IdleFetch.bids = << >>
    BY <1>6 DEF FetchWithoutBids, IdleFetch
  <2> QED
    BY <1>0, <1>2, <2>1 DEF AnswersInv
<1>7. ASSUME NEW t \in FetchTasks, NEW best \in DOMAIN fetch[t].bids, FetchReturnsBid(t, best)
      PROVE  AnswersInv'
  <2> DEFINE bid == fetch[t].bids[best].bid
  <2>1. fetch' = [fetch EXCEPT ![t] = IdleFetch] /\ served' = served \cup {<<bid, BidVersion(bid)>>}
    BY <1>7 DEF FetchReturnsBid
  <2>2. bid \in Bids
    <3>1. fetch[t].bids \in Seq(Answers)
      BY <1>0
    <3>2. fetch[t].bids[best] \in Answers
      BY <3>1
    <3> QED
      BY <3>2 DEF Answers
  <2>3. BidVersion(bid) \in Forks
    BY VariantRead DEF BidVersion, Forks
  <2> HIDE DEF bid
  <2> QED
    <3>1. IdleFetch.bids = << >>
      BY DEF IdleFetch
    <3>2. AnsweredOnce'
      BY <1>2, <2>1, <3>1
    <3> QED
      BY <1>0, <2>1, <2>2, <2>3, <3>2 DEF AnswersInv
<1>8. CASE (\E s \in Slots : OnSlot(s))
           \/ (\E t \in OpenTasks : OpenNext(t) \/ \E b \in Blocks : OpenBid(t, b))
           \/ UNCHANGED vars
  <2>1. UNCHANGED <<fetch, served>>
    BY <1>8 DEF OnSlot, OpenNext, OpenBid, RelayOpens, RelayFailsToOpen, OpenReturns, vars
  <2> QED
    BY <1>0, <2>1 DEF AnswersInv, AnsweredOnce
<1> QED
  BY <1>3, <1>4, <1>5, <1>6, <1>7, <1>8 DEF Next, FetchNext

LEMMA MuxHolds == Spec => [](LifetimeInv /\ OpenInv /\ AnswersInv)
BY LifetimeInit, LifetimeStep, OpenInit, OpenStep, AnswersInit, AnswersStep, PTL DEF Spec

\* The calls keep their shape; a relay whose bid was gathered is not waited for any more, and
\* what is served has a version.
THEOREM TypeCorrect == Spec => []TypeOK
<1>1. LifetimeInv /\ OpenInv /\ AnswersInv => TypeOK
  <2> SUFFICES ASSUME LifetimeInv, OpenInv, AnswersInv PROVE TypeOK
    OBVIOUS
  <2>1. outstanding_bids \in [Hashes -> [slot : Slots, relays : SUBSET Relays] \cup {None}]
        /\ slot \in Slots
    BY DEF LifetimeInv, OutstandingInv
  <2>2. ASSUME NEW t \in FetchTasks
        PROVE  /\ fetch[t].pc \in {"idle", "gather"}
               /\ fetch[t].slot \in Slots
               /\ fetch[t].pending \subseteq Relays
               /\ fetch[t].bids \in Seq(Answers)
               /\ \A i \in DOMAIN fetch[t].bids : fetch[t].bids[i].relay \notin fetch[t].pending
    BY DEF LifetimeInv, FetchInv, AnswersInv, AnsweredOnce
  <2>3. ASSUME NEW t \in OpenTasks
        PROVE  /\ open[t].pc \in {"idle", "gather"}
               /\ open[t].block \in Blocks \cup {None}
               /\ open[t].pending \subseteq Relays
               /\ open[t].responses \in Seq(Contents)
    BY DEF OpenInv, OpenCalls
  <2>4. served \subseteq Bids \X Forks /\ returned \subseteq Blocks \X Contents \X Forks
    BY DEF AnswersInv, OpenInv
  <2> QED
    BY <2>1, <2>2, <2>3, <2>4 DEF TypeOK
<1> QED
  BY <1>1, MuxHolds, PTL

----------------------------------------------------------------------------
(* What a step may do *)

\* A block is only ever opened with relays that returned a bid for it to the call that
\* served the bid, and with at least one; the clean-up and other calls add none.
THEOREM AskedRelaysHadTheBid == Spec => AsksRelaysWithTheBid
<1>1. ASSUME LifetimeInv, [Next]_vars,
             NEW h \in Hashes, outstanding_bids'[h] \notin {None, outstanding_bids[h]}
      PROVE  /\ outstanding_bids'[h].relays # {}
             /\ \E t \in FetchTasks : \A r \in outstanding_bids'[h].relays :
                    \E i \in DOMAIN fetch[t].bids :
                        fetch[t].bids[i].relay = r /\ fetch[t].bids[i].bid.block_hash = h
  <2>1. CASE UNCHANGED outstanding_bids
    BY <1>1, <2>1
  <2>2. ASSUME NEW s \in Slots, OnSlot(s) PROVE FALSE
    BY <1>1, <2>2 DEF OnSlot
  <2>3. ASSUME NEW t \in FetchTasks, NEW best \in DOMAIN fetch[t].bids, FetchReturnsBid(t, best)
        PROVE  /\ outstanding_bids'[h].relays # {}
               /\ \A r \in outstanding_bids'[h].relays : \E i \in DOMAIN fetch[t].bids :
                    fetch[t].bids[i].relay = r /\ fetch[t].bids[i].bid.block_hash = h
    <3> DEFINE answers == fetch[t].bids
               hash == answers[best].bid.block_hash
               entry == [slot |-> fetch[t].slot, relays |-> BestRelays(answers, hash)]
    <3>1. /\ outstanding_bids' = [outstanding_bids EXCEPT ![hash] = entry]
          /\ best \in SelectBestBids(answers)
      BY <2>3 DEF FetchReturnsBid
    <3>2. answers \in Seq(Answers) /\ outstanding_bids \in [Hashes -> [slot : Slots, relays : SUBSET Relays] \cup {None}]
      BY <1>1 DEF LifetimeInv, FetchInv, OutstandingInv
    <3>3. answers[best].relay \in Relays
      <4>1. answers[best] \in Answers
        BY <2>3, <3>2
      <4> QED
        BY <4>1 DEF Answers
    <3>4. h = hash /\ outstanding_bids'[h].relays = BestRelays(answers, h)
      BY <1>1, <3>1, <3>2
    <3>5. answers[best].relay \in BestRelays(answers, hash)
      BY <2>3, <3>1, <3>3 DEF BestRelays
    <3>6. \A r \in BestRelays(answers, h) : \E i \in DOMAIN answers :
            answers[i].relay = r /\ answers[i].bid.block_hash = h
      BY <3>2, SelectFacts DEF BestRelays
    <3> HIDE DEF answers, hash, entry
    <3>7. outstanding_bids'[h].relays # {}
      BY <3>4, <3>5
    <3>8. \A r \in outstanding_bids'[h].relays : \E i \in DOMAIN answers :
            answers[i].relay = r /\ answers[i].bid.block_hash = h
      BY <3>4, <3>6
    <3> QED
      BY <3>7, <3>8 DEF answers
  <2> QED
    BY <1>1, <2>1, <2>2, <2>3
    DEF Next, FetchNext, FetchBestBid, RelayHasNoBid, RelayAnswers, FetchWithoutBids, OpenNext,
        OpenBid, RelayOpens, RelayFailsToOpen, OpenReturns, vars
<1>2. LifetimeInv /\ [Next]_vars =>
        [\A h \in Hashes : outstanding_bids'[h] \notin {None, outstanding_bids[h]} =>
            /\ outstanding_bids'[h].relays # {}
            /\ \E t \in FetchTasks : \A r \in outstanding_bids'[h].relays :
                \E i \in DOMAIN fetch[t].bids :
                    fetch[t].bids[i].relay = r /\ fetch[t].bids[i].bid.block_hash = h]_vars
  BY <1>1
<1> QED
  BY <1>2, LifetimeInit, LifetimeStep, PTL DEF Spec, AsksRelaysWithTheBid

\* A bid that its relay signed is gathered, with blobs or without: what is read of it is what
\* was signed.
THEOREM SignedGathered == Spec => SignedBidsAreGathered
<1>1. ASSUME LifetimeInv, NEW t \in FetchTasks, NEW r \in Relays, NEW bid \in Bids,
             RelayAnswers(t, r, bid), bid.signature = SigningRoot(bid, bid.commitments)
      PROVE  \E i \in DOMAIN fetch'[t].bids : fetch'[t].bids[i] = [relay |-> r, bid |-> bid]
  <2> DEFINE answer == [relay |-> r, bid |-> bid]
             q == Append(fetch[t].bids, answer)
  <2>1. ValidateBid(bid)
    BY <1>1, CommitmentsRead DEF ValidateBid
  <2>2. fetch' = [fetch EXCEPT ![t].pending = @ \ {r}, ![t].bids = q]
    BY <1>1, <2>1 DEF RelayAnswers
  <2>3. answer \in Answers /\ fetch[t].bids \in Seq(Answers)
    BY <1>1 DEF LifetimeInv, FetchInv, Answers
  <2> HIDE DEF answer
  <2>4. Len(q) \in DOMAIN q /\ q[Len(q)] = answer
    BY <2>3
  <2> HIDE DEF q
  <2>5. fetch'[t].bids = q
    BY <1>1, <2>2 DEF LifetimeInv, FetchInv
  <2> QED
    BY <2>4, <2>5 DEF answer
<1>2. LifetimeInv /\ [Next]_vars =>
        [\A t \in FetchTasks, r \in Relays, bid \in Bids :
            RelayAnswers(t, r, bid) /\ bid.signature = SigningRoot(bid, bid.commitments) =>
                \E i \in DOMAIN fetch'[t].bids : fetch'[t].bids[i] = [relay |-> r, bid |-> bid]]_vars
  BY <1>1
<1> QED
  BY <1>2, LifetimeInit, LifetimeStep, PTL DEF Spec, SignedBidsAreGathered

\* Of the gathered bids, valid ones only, fetch_best_bid returns one that no other beats, under
\* the fork it was sent for; and it has one to return whenever a relay had one.
THEOREM BestServed == Spec => BestBidServed
<1>1. ASSUME LifetimeInv', NEW t \in FetchTasks, fetch'[t].bids # << >>
      PROVE  SelectBestBids(fetch'[t].bids) # {}
  <2>1. fetch'[t].bids \in Seq(Answers)
    BY <1>1 DEF LifetimeInv, FetchInv
  <2> QED
    BY <1>1, <2>1, SelectFacts
<1>2. ASSUME LifetimeInv, [Next]_vars,
             NEW t \in FetchTasks, fetch[t].bids # << >>, fetch'[t] = IdleFetch
      PROVE  \E best \in DOMAIN fetch[t].bids : FetchReturnsBid(t, best)
  <2>0. /\ DOMAIN fetch = FetchTasks
        /\ \A u \in FetchTasks : fetch[u] \in [pc : {"idle", "gather"}, slot : Slots,
                                               pending : SUBSET Relays, bids : Seq(Answers)]
    BY <1>2 DEF LifetimeInv, FetchInv
  <2>1. fetch'[t] # fetch[t] /\ IdleFetch.pc = "idle"
    BY <1>2 DEF IdleFetch
  <2>2. ASSUME NEW u \in FetchTasks, u # t, NEW call, fetch' = [fetch EXCEPT ![u] = call]
        PROVE  FALSE
    BY <2>0, <2>1, <2>2
  <2>3. ASSUME NEW u \in FetchTasks, NEW s \in Requests, FetchBestBid(u, s)
        PROVE  FALSE
    <3> DEFINE call == [pc |-> "gather", slot |-> s, pending |-> Relays, bids |-> << >>]
    <3>1. fetch' = [fetch EXCEPT ![u] = call]
      BY <2>3 DEF FetchBestBid
    <3>2. call.pc = "gather"
      OBVIOUS
    <3> HIDE DEF call
    <3> QED
      BY <1>2, <2>0, <2>1, <2>2, <3>1, <3>2
  <2>4. ASSUME NEW u \in FetchTasks, NEW r \in Relays,
               RelayHasNoBid(u, r) \/ \E bid \in Bids : RelayAnswers(u, r, bid)
        PROVE  FALSE
    <3>1. fetch[u].pc = "gather"
      BY <2>4 DEF RelayHasNoBid, RelayAnswers
    <3>2. PICK q : fetch' = [fetch EXCEPT ![u] = [fetch[u] EXCEPT !.pending = @ \ {r}, !.bids = q]]
      <4>1. CASE RelayHasNoBid(u, r)
        <5> DEFINE call == [fetch[u] EXCEPT !.pending = @ \ {r}]
        <5>1. fetch' = [fetch EXCEPT ![u] = call]
          BY <4>1 DEF RelayHasNoBid
        <5>2. call = [fetch[u] EXCEPT !.pending = @ \ {r}, !.bids = fetch[u].bids]
          BY <2>0
        <5> QED
          BY <5>1, <5>2
      <4>2. ASSUME NEW bid \in Bids, RelayAnswers(u, r, bid)
            PROVE  \E q : fetch' = [fetch EXCEPT
                                ![u] = [fetch[u] EXCEPT !.pending = @ \ {r}, !.bids = q]]
        BY <4>2 DEF RelayAnswers
      <4> QED
        BY <2>4, <4>1, <4>2
    <3> DEFINE call == [fetch[u] EXCEPT !.pending = @ \ {r}, !.bids = q]
    <3>3. call.pc = "gather"
      BY <2>0, <3>1
    <3> HIDE DEF call
    <3>4. fetch' = [fetch EXCEPT ![u] = call]
      BY <3>2 DEF call
    <3> QED
      BY <1>2, <2>0, <2>1, <2>2, <3>3, <3>4
  <2>5. ASSUME NEW u \in FetchTasks, FetchWithoutBids(u)
        PROVE  FALSE
    BY <1>2, <2>0, <2>1, <2>2, <2>5 DEF FetchWithoutBids
  <2>6. ASSUME NEW u \in FetchTasks, NEW best \in DOMAIN fetch[u].bids, FetchReturnsBid(u, best)
        PROVE  u = t
    <3>1. fetch' = [fetch EXCEPT ![u] = IdleFetch]
      BY <2>6 DEF FetchReturnsBid
    <3> QED
      BY <2>2, <3>1
  <2>7. CASE UNCHANGED fetch
    BY <2>1, <2>7
  <2> QED
    BY <1>2, <2>3, <2>4, <2>5, <2>6, <2>7
    DEF Next, FetchNext, OnSlot, OpenNext, OpenBid, RelayOpens, RelayFailsToOpen, OpenReturns, vars
<1>3. ASSUME LifetimeInv, AnswersInv, NEW t \in FetchTasks, NEW best \in DOMAIN fetch[t].bids,
             FetchReturnsBid(t, best), NEW bid, bid = fetch[t].bids[best].bid
      PROVE  /\ ValidateBid(bid)
             /\ \A j \in DOMAIN fetch[t].bids : bid.value >= fetch[t].bids[j].bid.value
             /\ \E version \in Forks :
                    /\ <<bid, version>> \in served'
                    /\ HasFieldsOfFork(bid) => version = AnnouncedFork(bid)
  <2> DEFINE answers == fetch[t].bids
  <2>1. /\ best \in SelectBestBids(answers)
        /\ <<bid, BidVersion(bid)>> \in served'
    BY <1>3 DEF FetchReturnsBid
  <2>2. answers \in Seq(Answers)
    BY <1>3 DEF LifetimeInv, FetchInv
  <2>3. bid \in Bids
    <3>1. answers[best] \in Answers
      BY <1>3, <2>2
    <3> QED
      BY <1>3, <3>1 DEF Answers
  <2>4. ValidateBid(bid)
    BY <1>3 DEF AnswersInv, AnsweredOnce
  <2>5. \A j \in DOMAIN answers : bid.value >= answers[j].bid.value
    BY <1>3, <2>1, <2>2, SelectFacts
  <2>6. BidVersion(bid) \in Forks
    BY VariantRead DEF BidVersion, Forks
  <2>7. HasFieldsOfFork(bid) => BidVersion(bid) = AnnouncedFork(bid)
    BY <2>3, VariantRead, MuxAssumption DEF BidVersion, HasFieldsOfFork, AnnouncedFork, Forks
  <2> QED
    BY <2>1, <2>4, <2>5, <2>6, <2>7
<1>4. ASSUME LifetimeInv, LifetimeInv', AnswersInv, [Next]_vars, NEW t \in FetchTasks
      PROVE  /\ fetch'[t].bids # << >> => SelectBestBids(fetch'[t].bids) # {}
             /\ fetch[t].bids # << >> /\ fetch'[t] = IdleFetch =>
                    \E i \in DOMAIN fetch[t].bids :
                        LET bid == fetch[t].bids[i].bid IN
                        /\ ValidateBid(bid)
                        /\ \A j \in DOMAIN fetch[t].bids : bid.value >= fetch[t].bids[j].bid.value
                        /\ \E version \in Forks :
                            /\ <<bid, version>> \in served'
                            /\ HasFieldsOfFork(bid) => version = AnnouncedFork(bid)
  BY <1>1, <1>2, <1>3, <1>4
<1>5. LifetimeInv /\ LifetimeInv' /\ AnswersInv /\ [Next]_vars =>
        [\A t \in FetchTasks :
            /\ fetch'[t].bids # << >> => SelectBestBids(fetch'[t].bids) # {}
            /\ fetch[t].bids # << >> /\ fetch'[t] = IdleFetch =>
                \E i \in DOMAIN fetch[t].bids :
                    LET bid == fetch[t].bids[i].bid IN
                    /\ ValidateBid(bid)
                    /\ \A j \in DOMAIN fetch[t].bids : bid.value >= fetch[t].bids[j].bid.value
                    /\ \E version \in Forks :
                        /\ <<bid, version>> \in served'
                        /\ HasFieldsOfFork(bid) => version = AnnouncedFork(bid)]_vars
  BY <1>4
<1> QED
  BY <1>5, MuxHolds, PTL DEF Spec, BestBidServed

=============================================================================
