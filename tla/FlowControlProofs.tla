------------------------- MODULE FlowControlProofs -------------------------
(***************************************************************************)
(* Proofs about FlowControl, for any budgets, intervals, profiles,         *)
(* lifetimes, limits and numbers of requests.                              *)
(***************************************************************************)
EXTENDS FlowControl, SelectionProofs, SequenceTheorems, TLAPS

Packets == [id : 1 .. MaxRequests, expiry : Int]

-----------------------------------------------------------------------------
(* Lemmas on numbers and extrema.                                          *)

LEMMA PairExtrema ==
  ASSUME NEW a \in Int, NEW b \in Int
  PROVE  /\ Max({a, b}) = IF a >= b THEN a ELSE b
         /\ Min({a, b}) = IF a <= b THEN a ELSE b
<1>1. \E x \in {a, b} : \A y \in {a, b} : x >= y
  OBVIOUS
<1>2. \E x \in {a, b} : \A y \in {a, b} : x <= y
  OBVIOUS
<1> QED
  BY <1>1, <1>2 DEF Max, Min

-----------------------------------------------------------------------------
(* What drop_expired() keeps of a queue.                                   *)

\* Increasing numbers: the packets are in the order of their requests.
Increasing(queue) ==
  \A i, j \in 1 .. Len(queue) : i < j => queue[i].id < queue[j].id

\* What matters of a queue that was left by drop_expired().
LeftOf(queue, kept) ==
  /\ kept \in Seq(Packets)
  /\ \A i \in 1 .. Len(kept) : /\ kept[i].expiry >= 0
                               /\ \E j \in 1 .. Len(queue) : kept[i] = queue[j]
  /\ Increasing(queue) => Increasing(kept)

LEMMA UnexpiredLeft ==
  ASSUME NEW queue \in Seq(Packets)
  PROVE  LeftOf(queue, Unexpired(queue))
<1> DEFINE kept == Unexpired(queue)
           I == {i \in DOMAIN queue : queue[i].expiry >= 0}
<1>1. PICK e : Places(Packets, queue, I, Len(queue), kept, e)
  BY SelectedPlaces DEF Unexpired
<1>2. /\ kept \in Seq(Packets)
      /\ \A i \in 1 .. Len(kept) : /\ e[i] \in 1 .. Len(queue) /\ kept[i] = queue[e[i]]
                                   /\ kept[i].expiry >= 0
      /\ \A i, j \in 1 .. Len(kept) : i < j => e[i] < e[j]
  BY <1>1 DEF Places
<1> HIDE DEF kept
<1>3. Increasing(queue) => Increasing(kept)
  BY <1>2 DEF Increasing
<1> QED
  BY <1>2, <1>3 DEF LeftOf, kept

-----------------------------------------------------------------------------
(* The budgets.                                                            *)

LEMMA MaxIntervalType == MaxInterval \in Nat
<1> DEFINE N == Len(OffTimes)
           Bounds(m) == {b \in Nat : \A i \in 1 .. m : OffTimes[i] <= b}
           Fails == {m \in 0 .. N : Bounds(m) = {}}
<1>1. N \in Nat \ {0} /\ DOMAIN OffTimes = 1 .. N /\ \A i \in 1 .. N : OffTimes[i] \in Nat
  BY BudgetAssumption, LenProperties, ElementOfSeq, EmptySeq
<1> HIDE DEF N
<1>2. ASSUME Fails # {} PROVE FALSE
  <2>1. Fails \subseteq Nat
    BY <1>1
  <2>2. PICK m \in Fails : \A k \in Fails : m <= k
    <3> HIDE DEF Fails
    <3> QED
      BY <1>2, <2>1, LeastNumber
  <2>3. m \in 0 .. N /\ m \in Nat /\ Bounds(m) = {}
    BY <2>1
  <2>4. m # 0
    <3>1. 0 \in Bounds(0)
      OBVIOUS
    <3> QED
      BY <2>3, <3>1
  <2>5. m \in 1 .. N /\ m - 1 \in 0 .. N /\ m - 1 \notin Fails
    <3> HIDE DEF Fails
    <3> QED
      BY <1>1, <2>2, <2>3, <2>4
  <2>6. PICK b \in Nat : \A i \in 1 .. m - 1 : OffTimes[i] <= b
    BY <2>5
  <2>7. b + OffTimes[m] \in Bounds(m)
    BY <1>1, <2>5, <2>6
  <2> QED
    BY <2>3, <2>7
<1>3. PICK b \in Nat : \A i \in 1 .. N : OffTimes[i] <= b
  <2>1. Fails = {} /\ N \in 0 .. N
    <3> HIDE DEF Fails
    <3> QED
      BY <1>1, <1>2
  <2> QED
    BY <2>1
<1> DEFINE Uppers == Bounds(N)
<1>4. PICK least \in Uppers : \A u \in Uppers : least <= u
  <2>1. Uppers \subseteq Nat /\ Uppers # {}
    BY <1>3
  <2> HIDE DEF Uppers
  <2> QED
    BY <2>1, LeastNumber
<1>5. \E i \in 1 .. N : OffTimes[i] = least
  <2> SUFFICES ASSUME \A i \in 1 .. N : OffTimes[i] # least PROVE FALSE
    OBVIOUS
  <2>1. least \in Nat /\ \A i \in 1 .. N : OffTimes[i] < least
    BY <1>1, <1>4
  <2>2. least # 0
    BY <1>1, <2>1
  <2>3. least - 1 \in Uppers
    BY <1>1, <2>1, <2>2
  <2> HIDE DEF Uppers
  <2> QED
    BY <1>4, <2>1, <2>3
<1> DEFINE Times == {OffTimes[i] : i \in DOMAIN OffTimes}
<1>6. least \in Times /\ \A t \in Times : least >= t
  BY <1>1, <1>4, <1>5
<1>7. Max(Times) \in Times
  <2> HIDE DEF Times
  <2> QED
    BY <1>6 DEF Max
<1> QED
  BY <1>1, <1>7 DEF MaxInterval

Ring == {b \in Budgets : Len(b.messages) <= Burst}

LEMMA NotifiedType ==
  ASSUME NEW b \in Ring, NEW p \in Profiles
  PROVE  Notified(b, p) \in Ring
<1> DEFINE m == b.messages
           kept == IF m # <<>> /\ m[1] > BurstPeriod THEN <<>> ELSE m
           room == IF Len(kept) = Burst THEN Tail(kept) ELSE kept
<1>1. m \in Seq(Nat) /\ Len(m) <= Burst /\ b.last_tx \in Nat \cup {Never} /\ Burst \in Nat \ {0}
  BY BudgetAssumption DEF Ring, Budgets
<1> HIDE DEF m
<1>2. kept \in Seq(Nat) /\ Len(kept) <= Burst /\ Len(kept) \in Nat
  BY <1>1, EmptySeq, LenProperties
<1> HIDE DEF kept
<1>3. room \in Seq(Nat) /\ Len(room) < Burst /\ Len(room) \in Nat
  BY <1>1, <1>2, HeadTailProperties, EmptySeq, LenProperties
<1> HIDE DEF room
<1>4. Append(room, 0) \in Seq(Nat) /\ Len(Append(room, 0)) <= Burst
  BY <1>1, <1>3, AppendProperties
<1>5. BurstNotify(m) = Append(room, 0)
  BY DEF BurstNotify, room, kept
<1> QED
  BY <1>1, <1>4, <1>5 DEF Notified, Ring, Budgets, m

LEMMA ElapsedType ==
  ASSUME NEW b \in Ring, NEW d \in Nat
  PROVE  Elapsed(b, d) \in Ring
<1> DEFINE m == b.messages
           aged == [i \in DOMAIN m |-> Aged(m[i], d, BurstPeriod)]
<1>1. m \in Seq(Nat) /\ Len(m) <= Burst /\ b.last_tx \in Nat \cup {Never} /\ Len(m) \in Nat
      /\ DOMAIN m = 1 .. Len(m) /\ \A i \in 1 .. Len(m) : m[i] \in Nat
  BY LenProperties, ElementOfSeq DEF Ring, Budgets
<1>2. \A age \in Nat, limit \in Nat : Aged(age, d, limit) \in Nat
  <2> SUFFICES ASSUME NEW age \in Nat, NEW limit \in Nat PROVE Aged(age, d, limit) \in Nat
    OBVIOUS
  <2>1. age + d \in Int /\ limit + 1 \in Int
    OBVIOUS
  <2>2. Aged(age, d, limit) \in {age + d, limit + 1}
    BY <2>1, PairExtrema DEF Aged
  <2> QED
    BY <2>2
<1> HIDE DEF m
<1>3. \A i \in 1 .. Len(m) : Aged(m[i], d, BurstPeriod) \in Nat
  BY <1>1, <1>2, BudgetAssumption
<1>4. aged \in [1 .. Len(m) -> Nat]
  BY <1>1, <1>3
<1> HIDE DEF aged
<1>5. aged \in Seq(Nat) /\ Len(aged) = Len(m)
  BY <1>1, <1>4
<1>6. b.last_tx # Never => Aged(b.last_tx, d, MaxInterval) \in Nat
  BY <1>1, <1>2, MaxIntervalType
<1> QED
  BY <1>1, <1>5, <1>6 DEF Elapsed, Ring, Budgets, aged, m

-----------------------------------------------------------------------------
(* The order of a queue.  The packets in it are newer than the last one    *)
(* sent, in the order of their requests.                                   *)

Ordered(queue, low, high) ==
  /\ queue \in Seq(Packets)
  /\ Increasing(queue)
  /\ \A i \in 1 .. Len(queue) : low < queue[i].id /\ queue[i].id <= high

LEMMA PacketFields ==
  ASSUME NEW queue \in Seq(Packets)
  PROVE  /\ Len(queue) \in Nat /\ DOMAIN queue = 1 .. Len(queue)
         /\ \A i \in 1 .. Len(queue) : /\ queue[i] \in Packets /\ queue[i].id \in 1 .. MaxRequests
                                       /\ queue[i].id \in Nat /\ queue[i].expiry \in Int
<1>1. Len(queue) \in Nat /\ DOMAIN queue = 1 .. Len(queue) /\ \A i \in 1 .. Len(queue) : queue[i] \in Packets
  BY LenProperties, ElementOfSeq
<1>2. \A x \in Packets : x.id \in 1 .. MaxRequests /\ x.id \in Nat /\ x.expiry \in Int
  BY FlowAssumption DEF Packets
<1> QED
  BY <1>1, <1>2

LEMMA OrderedEmpty ==
  ASSUME NEW low, NEW high
  PROVE  Ordered(<<>>, low, high)
BY EmptySeq DEF Ordered, Increasing

LEMMA OrderedUnexpired ==
  ASSUME NEW queue, NEW low, NEW high, Ordered(queue, low, high)
  PROVE  Ordered(Unexpired(queue), low, high)
<1>1. LeftOf(queue, Unexpired(queue))
  BY UnexpiredLeft DEF Ordered
<1> QED
  BY <1>1 DEF LeftOf, Ordered

\* Any stretch of an ordered queue, what MakeRoom() and Tail() leave.
LEMMA OrderedSubSeq ==
  ASSUME NEW queue, NEW low, NEW high, Ordered(queue, low, high), NEW m \in Nat \ {0}
  PROVE  /\ Ordered(SubSeq(queue, m, Len(queue)), low, high)
         /\ Len(SubSeq(queue, m, Len(queue))) = IF m <= Len(queue) THEN Len(queue) - m + 1 ELSE 0
<1> DEFINE r == SubSeq(queue, m, Len(queue))
<1>1. /\ Len(queue) \in Nat
      /\ \A i \in m .. Len(queue) : queue[i] \in Packets
  BY LenProperties, ElementOfSeq DEF Ordered
<1>2. /\ r \in Seq(Packets) /\ Len(r) = IF m <= Len(queue) THEN Len(queue) - m + 1 ELSE 0
      /\ \A i \in 1 .. Len(queue) - m + 1 : r[i] = queue[m + i - 1]
  BY <1>1, SubSeqProperties
<1> HIDE DEF r
<1>3. \A i \in 1 .. Len(r) : m + i - 1 \in 1 .. Len(queue) /\ r[i] = queue[m + i - 1]
  BY <1>1, <1>2
<1>4. Increasing(r)
  <2> SUFFICES ASSUME NEW i \in 1 .. Len(r), NEW j \in 1 .. Len(r), i < j
               PROVE  r[i].id < r[j].id
    BY DEF Increasing
  <2>1. m + i - 1 < m + j - 1
    BY <1>1, <1>2
  <2> QED
    BY <1>3, <2>1 DEF Ordered, Increasing
<1>5. \A i \in 1 .. Len(r) : low < r[i].id /\ r[i].id <= high
  BY <1>3 DEF Ordered
<1>6. Ordered(r, low, high)
  BY <1>2, <1>4, <1>5 DEF Ordered
<1> QED
  BY <1>2, <1>6 DEF r

LEMMA OrderedMakeRoom ==
  ASSUME m_queue_length \in Nat, NEW queue, NEW low, NEW high, Ordered(queue, low, high)
  PROVE  /\ Ordered(MakeRoom(queue), low, high)
         /\ m_queue_length > 0 => Len(MakeRoom(queue)) < m_queue_length
<1>1. Len(queue) \in Nat
  BY LenProperties DEF Ordered
<1>2. CASE m_queue_length > 0 /\ Len(queue) >= m_queue_length
  <2> DEFINE m == Len(queue) - m_queue_length + 2
  <2>1. m \in Nat \ {0} /\ (IF m <= Len(queue) THEN Len(queue) - m + 1 ELSE 0) < m_queue_length
    BY <1>1, <1>2
  <2>2. MakeRoom(queue) = SubSeq(queue, m, Len(queue))
    BY <1>2 DEF MakeRoom
  <2> HIDE DEF m
  <2> QED
    BY <2>1, <2>2, OrderedSubSeq
<1>3. CASE ~(m_queue_length > 0 /\ Len(queue) >= m_queue_length)
  BY <1>1, <1>3 DEF MakeRoom
<1> QED
  BY <1>2, <1>3

LEMMA OrderedAppend ==
  ASSUME NEW queue, NEW low \in Nat, NEW high \in Nat, Ordered(queue, low, high), low <= high,
         NEW x \in Packets, x.id = high + 1
  PROVE  Ordered(Append(queue, x), low, high + 1)
<1> DEFINE r == Append(queue, x)
<1>1. /\ Len(queue) \in Nat /\ queue \in Seq(Packets)
      /\ \A i \in 1 .. Len(queue) : queue[i] \in Packets /\ queue[i].id \in Int
  BY PacketFields DEF Ordered
<1>2. /\ r \in Seq(Packets) /\ Len(r) = Len(queue) + 1
      /\ \A i \in 1 .. Len(queue) : r[i] = queue[i]
      /\ r[Len(queue) + 1] = x
  BY <1>1, AppendProperties
<1> HIDE DEF r
<1>3. \A i \in 1 .. Len(r) : \/ i \in 1 .. Len(queue) /\ r[i] = queue[i]
                             \/ i = Len(queue) + 1 /\ r[i] = x
  BY <1>1, <1>2
<1>4. \A i \in 1 .. Len(r) : low < r[i].id /\ r[i].id <= high + 1
  BY <1>1, <1>3 DEF Ordered
<1>5. Increasing(r)
  <2> SUFFICES ASSUME NEW i \in 1 .. Len(r), NEW j \in 1 .. Len(r), i < j
               PROVE  r[i].id < r[j].id
    BY DEF Increasing
  <2>1. i \in 1 .. Len(queue) /\ r[i] = queue[i]
    BY <1>1, <1>2, <1>3
  <2>2. CASE j \in 1 .. Len(queue) /\ r[j] = queue[j]
    BY <2>1, <2>2 DEF Ordered, Increasing
  <2>3. CASE r[j] = x
    BY <1>1, <2>1, <2>3 DEF Ordered
  <2> QED
    BY <1>3, <2>2, <2>3
<1> QED
  BY <1>2, <1>4, <1>5 DEF Ordered, r

\* The queue d ticks later: only the expiry of a packet changes.
AgedQueue(queue, d) ==
  [i \in DOMAIN queue |-> Packet(queue[i].id, Max({-1, queue[i].expiry - d}))]

LEMMA OrderedAged ==
  ASSUME NEW queue, NEW low, NEW high, Ordered(queue, low, high), NEW d \in Nat
  PROVE  Ordered(AgedQueue(queue, d), low, high) /\ Len(AgedQueue(queue, d)) = Len(queue)
<1> DEFINE r == AgedQueue(queue, d)
<1>1. /\ Len(queue) \in Nat /\ DOMAIN queue = 1 .. Len(queue)
      /\ \A i \in 1 .. Len(queue) : queue[i].id \in 1 .. MaxRequests /\ queue[i].expiry \in Int
  BY PacketFields DEF Ordered
<1>2. \A i \in 1 .. Len(queue) : r[i] \in Packets /\ r[i].id = queue[i].id
  <2> SUFFICES ASSUME NEW i \in 1 .. Len(queue) PROVE r[i] \in Packets /\ r[i].id = queue[i].id
    OBVIOUS
  <2>1. queue[i].expiry - d \in Int /\ -1 \in Int
    BY <1>1
  <2>2. Max({-1, queue[i].expiry - d}) \in Int
    BY <2>1, PairExtrema
  <2> QED
    BY <1>1, <2>2 DEF Packet, Packets, AgedQueue
<1>3. r \in [1 .. Len(queue) -> Packets]
  BY <1>1, <1>2 DEF AgedQueue
<1> HIDE DEF r
<1>4. r \in Seq(Packets) /\ Len(r) = Len(queue)
  BY <1>1, <1>3
<1>5. Ordered(r, low, high)
  BY <1>2, <1>4 DEF Ordered, Increasing
<1> QED
  BY <1>4, <1>5 DEF r

-----------------------------------------------------------------------------
(* The inductive invariant: types, queues in order, and a call of          *)
(* trigger() ahead of every queued packet.                                 *)

StateType ==
  /\ budget \in Ring
  /\ m_current \in DOMAIN OffTimes
  /\ m_queue_length \in Limits \cup {0}
  /\ requested \in 0 .. MaxRequests
  /\ sent \in [Profiles -> 0 .. MaxRequests]
  /\ faults \subseteq {"early", "stale"}

QueuesOrdered ==
  /\ m_queues \in [Profiles -> Seq(Packets)]
  /\ \A p \in Profiles : Ordered(m_queues[p], sent[p], requested) /\ sent[p] <= requested

TriggerType == IsABag(triggers) /\ DOMAIN triggers \subseteq Int

FlowInv ==
  StateType /\ QueuesOrdered /\ TriggerType /\ TriggerIsComing /\ NothingStaleIsSent

LEMMA FlowInvTypeOK == FlowInv => TypeOK
BY DEF FlowInv, TypeOK, StateType, QueuesOrdered, TriggerType, Ring, Packets, BagToSet

LEMMA InitFlow == Init => FlowInv
<1> SUFFICES ASSUME Init PROVE FlowInv
  OBVIOUS
<1>1. budget \in Ring
  BY EmptySeq, BudgetAssumption DEF Init, RateInit, Ring, Budgets
<1>2. 1 \in DOMAIN OffTimes
  BY BudgetAssumption, LenProperties, EmptySeq
<1>3. StateType
  BY <1>1, <1>2, FlowAssumption DEF Init, RateInit, StateType
<1>4. QueuesOrdered
  BY OrderedEmpty, EmptySeq, FlowAssumption DEF Init, QueuesOrdered
<1>5. TriggerType
  BY DEF Init, TriggerType, EmptyBag, SetToBag, IsABag
<1>6. TriggerIsComing /\ NothingStaleIsSent
  BY DEF Init, TriggerIsComing, NothingStaleIsSent, Waiting
<1> QED
  BY <1>3, <1>4, <1>5, <1>6 DEF FlowInv

LEMMA DropExpiredQueues ==
  ASSUME FlowInv
  PROVE  /\ DropExpired(m_queues) \in [Profiles -> Seq(Packets)]
         /\ \A p \in Profiles : /\ Ordered(DropExpired(m_queues)[p], sent[p], requested)
                                /\ \A i \in 1 .. Len(DropExpired(m_queues)[p]) :
                                     DropExpired(m_queues)[p][i].expiry >= 0
         /\ Waiting(DropExpired(m_queues)) \subseteq Waiting(m_queues)
<1>1. ASSUME NEW p \in Profiles
      PROVE  /\ DropExpired(m_queues)[p] = Unexpired(m_queues[p])
             /\ Ordered(Unexpired(m_queues[p]), sent[p], requested)
             /\ LeftOf(m_queues[p], Unexpired(m_queues[p]))
             /\ Unexpired(m_queues[p]) \in Seq(Packets)
             /\ m_queues[p] \in Seq(Packets)
    <2>1. m_queues[p] \in Seq(Packets) /\ Ordered(m_queues[p], sent[p], requested)
      BY DEF FlowInv, QueuesOrdered
    <2> QED
      BY <2>1, UnexpiredLeft, OrderedUnexpired DEF DropExpired, LeftOf
<1>2. ASSUME NEW p \in Profiles, m_queues[p] = <<>>
      PROVE  Unexpired(m_queues[p]) = <<>>
  <2>1. PICK kept : kept = Unexpired(m_queues[p])
    OBVIOUS
  <2>2. /\ kept \in Seq(Packets) /\ Len(kept) \in Nat
        /\ \A i \in 1 .. Len(kept) : \E j \in 1 .. Len(m_queues[p]) : kept[i] = m_queues[p][j]
    BY <1>1, <2>1, LenProperties DEF LeftOf
  <2>3. 1 .. Len(m_queues[p]) = {}
    BY <1>2
  <2>4. 1 \notin 1 .. Len(kept)
    BY <2>2, <2>3
  <2>5. Len(kept) = 0
    BY <2>2, <2>4
  <2> QED
    BY <2>1, <2>2, <2>5, EmptySeq
<1> QED
  BY <1>1, <1>2 DEF LeftOf, Waiting, DropExpired

\* Bags of scheduled calls.
LEMMA DelayType ==
  ASSUME NEW b \in Ring, m_current \in DOMAIN OffTimes, NEW p \in Profiles
  PROVE  Delay(b, p) \in Nat
<1>1. /\ b.messages \in Seq(Nat) /\ b.last_tx \in Nat \cup {Never} /\ Interval \in Nat
  BY BudgetAssumption, LenProperties, ElementOfSeq DEF Ring, Budgets, Interval
<1>2. b.messages # <<>> => b.messages[1] \in Nat
  BY <1>1, EmptySeq, ElementOfSeq
<1>3. BurstDelay(b.messages) \in Nat
  BY <1>2, BudgetAssumption DEF BurstDelay
<1>4. IntervalDelay(b.last_tx) \in Nat
  BY <1>1, BudgetAssumption DEF IntervalDelay
<1> QED
  BY <1>3, <1>4 DEF Delay

LEMMA ScheduledBag ==
  ASSUME NEW B, IsABag(B), DOMAIN B \subseteq Int, NEW t \in Int
  PROVE  /\ IsABag(SetToBag({t})) /\ DOMAIN SetToBag({t}) = {t}
         /\ IsABag(B (+) SetToBag({t})) /\ DOMAIN (B (+) SetToBag({t})) = DOMAIN B \cup {t}
         /\ IsABag(B (-) SetToBag({t})) /\ DOMAIN (B (-) SetToBag({t})) \subseteq DOMAIN B
BY DEF IsABag, SetToBag, (+), (-), BagToSet

LEMMA NotEmptyBag ==
  ASSUME NEW B, NEW t, t \in DOMAIN B
  PROVE  B # EmptyBag
<1>1. DOMAIN EmptyBag = {}
  BY DEF EmptyBag, SetToBag
<1> QED
  BY <1>1

\* Sending a packet that has not expired.
LEMMA TransmitState ==
  ASSUME FlowInv, NEW p \in Profiles, NEW x \in Packets, x.expiry >= 0, Transmit(budget, p, x)
  PROVE  /\ budget' \in Ring
         /\ sent' \in [Profiles -> 0 .. MaxRequests] /\ sent' = [sent EXCEPT ![p] = x.id]
         /\ faults' \subseteq {"early", "stale"} /\ "stale" \notin faults'
<1>1. budget' \in Ring
  BY NotifiedType DEF Transmit, FlowInv, StateType
<1>2. x.id \in 0 .. MaxRequests /\ ~(x.expiry < 0)
  BY FlowAssumption DEF Packets
<1>3. sent' \in [Profiles -> 0 .. MaxRequests] /\ sent' = [sent EXCEPT ![p] = x.id]
  BY <1>2 DEF Transmit, FlowInv, StateType
<1>4. faults' \subseteq {"early", "stale"} /\ "stale" \notin faults'
  BY <1>2 DEF Transmit, FlowInv, StateType, NothingStaleIsSent
<1> QED
  BY <1>1, <1>3, <1>4

LEMMA RequestFlow ==
  ASSUME FlowInv, NEW p \in UsedProfiles, NEW lifetime \in Lifetimes, Request(p, lifetime)
  PROVE  FlowInv'
<1> DEFINE queues == DropExpired(m_queues)
           x == Packet(requested + 1, lifetime)
<1>1. /\ p \in Profiles /\ requested \in Nat /\ requested + 1 \in 1 .. MaxRequests
      /\ requested' = requested + 1 /\ UNCHANGED <<m_current, m_queue_length>>
      /\ m_queue_length \in Nat
  BY FlowAssumption DEF Request, FlowInv, StateType
<1>2. x \in Packets /\ x.id = requested + 1 /\ x.expiry \in Nat
  BY <1>1, FlowAssumption DEF Packet, Packets
<1>3. /\ queues \in [Profiles -> Seq(Packets)] /\ Waiting(queues) \subseteq Waiting(m_queues)
      /\ \A q \in Profiles : Ordered(queues[q], sent[q], requested)
  BY DropExpiredQueues
<1>4. \A q \in Profiles : sent[q] <= requested /\ sent[q] \in Nat
  BY DEF FlowInv, QueuesOrdered, StateType
<1>5. \/ /\ ~Contention(queues, p) /\ Transmit(budget, p, x)
         /\ m_queues' = queues /\ UNCHANGED triggers
      \/ Enqueue(queues, p, x)
  BY DEF Request
<1> HIDE DEF queues, x
<1>6. \A q \in Profiles : Ordered(queues[q], sent[q], requested + 1)
  <2> SUFFICES ASSUME NEW q \in Profiles PROVE Ordered(queues[q], sent[q], requested + 1)
    OBVIOUS
  <2>1. queues[q] \in Seq(Packets) /\ Ordered(queues[q], sent[q], requested)
    BY <1>3
  <2>2. \A i \in 1 .. Len(queues[q]) : queues[q][i].id \in Nat
    BY <2>1, PacketFields
  <2> QED
    BY <1>1, <2>1, <2>2 DEF Ordered
<1>7. CASE ~Contention(queues, p) /\ Transmit(budget, p, x) /\ m_queues' = queues /\ UNCHANGED triggers
  <2>1. /\ budget' \in Ring /\ sent' \in [Profiles -> 0 .. MaxRequests]
        /\ sent' = [sent EXCEPT ![p] = requested + 1]
        /\ faults' \subseteq {"early", "stale"} /\ "stale" \notin faults'
    BY <1>1, <1>2, <1>7, TransmitState
  <2>2. queues[p] = <<>>
    BY <1>1, <1>7 DEF Contention, Waiting, Profiles
  <2>3. \A q \in Profiles : Ordered(m_queues'[q], sent'[q], requested') /\ sent'[q] <= requested'
    <3> SUFFICES ASSUME NEW q \in Profiles
                 PROVE  Ordered(m_queues'[q], sent'[q], requested') /\ sent'[q] <= requested'
      OBVIOUS
    <3>1. CASE q = p
      <4>1. sent'[q] = requested + 1
        BY <1>1, <2>1, <3>1 DEF FlowInv, StateType
      <4> QED
        BY <1>1, <1>7, <2>2, <3>1, <4>1, OrderedEmpty
    <3>2. CASE q # p
      <4>1. sent'[q] = sent[q]
        BY <2>1, <3>2 DEF FlowInv, StateType
      <4> QED
        BY <1>1, <1>4, <1>6, <1>7, <4>1
    <3> QED
      BY <3>1, <3>2
  <2>4. StateType'
    BY <1>1, <2>1 DEF StateType, FlowInv
  <2>5. QueuesOrdered'
    BY <1>3, <1>7, <2>3 DEF QueuesOrdered
  <2>6. TriggerType' /\ TriggerIsComing' /\ NothingStaleIsSent'
    BY <1>3, <1>7, <2>1 DEF FlowInv, TriggerType, TriggerIsComing, NothingStaleIsSent
  <2> QED
    BY <2>4, <2>5, <2>6 DEF FlowInv
<1>8. CASE Enqueue(queues, p, x)
  <2> DEFINE queue == Append(MakeRoom(queues[p]), x)
  <2>1. /\ m_queues' = [queues EXCEPT ![p] = queue]
        /\ triggers' = IF Waiting(queues) = {} THEN triggers (+) Scheduled(budget, p) ELSE triggers
        /\ UNCHANGED <<budget, sent, faults>>
    BY <1>8 DEF Enqueue, history
  <2>2. Ordered(queue, sent[p], requested + 1)
    BY <1>1, <1>2, <1>3, <1>4, OrderedMakeRoom, OrderedAppend
  <2> HIDE DEF queue
  <2>3. StateType'
    BY <1>1, <2>1 DEF StateType, FlowInv
  <2>4. QueuesOrdered'
    <3>1. queue \in Seq(Packets)
      BY <2>2 DEF Ordered
    <3>2. /\ m_queues' \in [Profiles -> Seq(Packets)]
          /\ \A q \in Profiles : m_queues'[q] = IF q = p THEN queue ELSE queues[q]
      BY <1>1, <1>3, <2>1, <3>1
    <3>3. \A q \in Profiles : sent[q] <= requested + 1
      BY <1>1, <1>4
    <3> QED
      BY <1>1, <1>6, <2>1, <2>2, <3>2, <3>3 DEF QueuesOrdered
  <2>5. TriggerType' /\ TriggerIsComing'
    <3>1. CASE Waiting(queues) = {}
      <4>1. Delay(budget, p) \in Int
        BY <1>1, DelayType DEF FlowInv, StateType
      <4>2. IsABag(triggers') /\ DOMAIN triggers' = DOMAIN triggers \cup {Delay(budget, p)}
        BY <2>1, <3>1, <4>1, ScheduledBag DEF Scheduled, FlowInv, TriggerType
      <4>3. triggers' # EmptyBag
        BY <4>2, NotEmptyBag
      <4> QED
        BY <4>1, <4>2, <4>3 DEF TriggerType, TriggerIsComing, FlowInv
    <3>2. CASE Waiting(queues) # {}
      BY <1>3, <2>1, <3>2 DEF FlowInv, TriggerType, TriggerIsComing
    <3> QED
      BY <3>1, <3>2
  <2>6. NothingStaleIsSent'
    BY <2>1 DEF FlowInv, NothingStaleIsSent
  <2> QED
    BY <2>3, <2>4, <2>5, <2>6 DEF FlowInv
<1> QED
  BY <1>5, <1>7, <1>8

\* The end of trigger().
LEMMA ResumeFlow ==
  ASSUME FlowInv, NEW queues, NEW b \in Ring, NEW t \in Int, Resume(queues, b, Remaining(t))
  PROVE  /\ IsABag(triggers') /\ DOMAIN triggers' \subseteq Int
         /\ Waiting(queues) # {} => triggers' # EmptyBag
<1>1. IsABag(Remaining(t)) /\ DOMAIN Remaining(t) \subseteq Int
  BY ScheduledBag DEF Remaining, FlowInv, TriggerType
<1>2. CASE Waiting(queues) = {} /\ triggers' = Remaining(t)
  BY <1>1, <1>2
<1>3. CASE \E p \in Profiles : triggers' = Remaining(t) (+) Scheduled(b, p)
  <2>1. PICK p \in Profiles : triggers' = Remaining(t) (+) Scheduled(b, p)
    BY <1>3
  <2>2. Delay(b, p) \in Int
    BY DelayType DEF FlowInv, StateType
  <2>3. IsABag(triggers') /\ DOMAIN triggers' = DOMAIN Remaining(t) \cup {Delay(b, p)}
    BY <1>1, <2>1, <2>2, ScheduledBag DEF Scheduled
  <2> QED
    BY <1>1, <2>2, <2>3, NotEmptyBag
<1> QED
  BY <1>2, <1>3 DEF Resume

LEMMA TriggerFlow ==
  ASSUME FlowInv, Trigger
  PROVE  FlowInv'
<1> DEFINE queues == DropExpired(m_queues)
<1>1. PICK t \in Due :
        /\ \/ /\ Waiting(queues) = {}
              /\ m_queues' = queues
              /\ Resume(queues, budget, Remaining(t))
              /\ UNCHANGED <<budget, history>>
           \/ \E p \in Profiles :
                /\ IsNext(queues, budget, p)
                /\ m_queues' = [queues EXCEPT ![p] = Tail(@)]
                /\ Transmit(budget, p, Head(queues[p]))
                /\ Resume(m_queues', budget', Remaining(t))
        /\ UNCHANGED <<m_current, m_queue_length, requested>>
  BY DEF Trigger
<1>2. t \in Int
  BY DEF Due, BagToSet, FlowInv, TriggerType
<1>3. /\ queues \in [Profiles -> Seq(Packets)]
      /\ \A q \in Profiles : /\ Ordered(queues[q], sent[q], requested)
                             /\ \A i \in 1 .. Len(queues[q]) : queues[q][i].expiry >= 0
  BY DropExpiredQueues
<1> HIDE DEF queues
<1>4. CASE /\ Waiting(queues) = {} /\ m_queues' = queues
           /\ Resume(queues, budget, Remaining(t)) /\ UNCHANGED <<budget, history>>
  <2>1. StateType' /\ NothingStaleIsSent'
    BY <1>1, <1>4 DEF StateType, FlowInv, history, NothingStaleIsSent
  <2>2. QueuesOrdered'
    BY <1>1, <1>3, <1>4 DEF QueuesOrdered, FlowInv, history
  <2>3. TriggerType' /\ TriggerIsComing'
    BY <1>2, <1>4, ResumeFlow DEF FlowInv, StateType, TriggerType, TriggerIsComing
  <2> QED
    BY <2>1, <2>2, <2>3 DEF FlowInv
<1>5. CASE \E p \in Profiles :
             /\ IsNext(queues, budget, p)
             /\ m_queues' = [queues EXCEPT ![p] = Tail(@)]
             /\ Transmit(budget, p, Head(queues[p]))
             /\ Resume(m_queues', budget', Remaining(t))
  <2>1. PICK p \in Profiles :
             /\ IsNext(queues, budget, p)
             /\ m_queues' = [queues EXCEPT ![p] = Tail(@)]
             /\ Transmit(budget, p, Head(queues[p]))
             /\ Resume(m_queues', budget', Remaining(t))
    BY <1>5
  <2> DEFINE queue == queues[p]
             rest == SubSeq(queue, 2, Len(queue))
  <2>2. /\ queue \in Seq(Packets) /\ queue # <<>> /\ Ordered(queue, sent[p], requested)
        /\ \A i \in 1 .. Len(queue) : queue[i].expiry >= 0
    BY <1>3, <2>1 DEF IsNext, Waiting
  <2> HIDE DEF queue
  <2>3. /\ Len(queue) \in Nat \ {0} /\ Head(queue) = queue[1] /\ Head(queue) \in Packets
        /\ Tail(queue) = rest /\ Head(queue).id \in Nat
    BY <2>2, EmptySeq, HeadTailProperties, TailIsSubSeq, PacketFields
  <2>4. Head(queue).expiry >= 0 /\ sent[p] < Head(queue).id /\ Head(queue).id <= requested
    BY <2>2, <2>3 DEF Ordered
  <2>5. /\ budget' \in Ring /\ sent' \in [Profiles -> 0 .. MaxRequests]
        /\ sent' = [sent EXCEPT ![p] = Head(queue).id]
        /\ faults' \subseteq {"early", "stale"} /\ "stale" \notin faults'
    BY <2>1, <2>3, <2>4, TransmitState DEF queue
  <2>6. Ordered(rest, sent[p], requested) /\ Len(rest) = Len(queue) - 1 /\ rest \in Seq(Packets)
    <3>1. /\ Ordered(rest, sent[p], requested)
          /\ Len(rest) = IF 2 <= Len(queue) THEN Len(queue) - 2 + 1 ELSE 0
      BY <2>2, OrderedSubSeq
    <3> HIDE DEF rest
    <3>2. Len(queue) \in Nat \ {0}
      BY <2>3
    <3>3. Len(rest) = Len(queue) - 1
      BY <3>1, <3>2
    <3>4. rest \in Seq(Packets)
      BY <3>1 DEF Ordered
    <3> QED
      BY <3>1, <3>3, <3>4
  <2>7. \A i \in 1 .. Len(rest) : rest[i] = queue[i + 1] /\ i + 1 \in 1 .. Len(queue)
    <3>1. \A i \in 2 .. Len(queue) : queue[i] \in Packets
      BY <2>2, <2>3, ElementOfSeq
    <3> QED
      BY <2>3, <2>6, <3>1, SubSeqProperties
  <2> HIDE DEF rest
  <2>8. Ordered(rest, Head(queue).id, requested)
    <3>1. \A i \in 1 .. Len(rest) : queue[1].id < queue[i + 1].id
      BY <2>2, <2>3, <2>6, <2>7 DEF Ordered, Increasing
    <3> QED
      BY <2>3, <2>6, <2>7, <3>1 DEF Ordered
  <2>9. /\ m_queues' \in [Profiles -> Seq(Packets)]
        /\ \A q \in Profiles : m_queues'[q] = IF q = p THEN rest ELSE queues[q]
    BY <1>3, <2>1, <2>3, <2>6 DEF queue
  <2>10. \A q \in Profiles : sent'[q] = IF q = p THEN Head(queue).id ELSE sent[q]
    BY <2>5 DEF FlowInv, StateType
  <2>11. QueuesOrdered'
    <3>1. \A q \in Profiles : sent[q] <= requested
      BY DEF FlowInv, QueuesOrdered
    <3> QED
      BY <1>1, <1>3, <2>4, <2>8, <2>9, <2>10, <3>1 DEF QueuesOrdered
  <2>12. StateType' /\ NothingStaleIsSent'
    BY <1>1, <2>5 DEF StateType, FlowInv, NothingStaleIsSent
  <2>13. TriggerType' /\ TriggerIsComing'
    BY <1>2, <2>1, <2>5, ResumeFlow DEF TriggerType, TriggerIsComing
  <2> QED
    BY <2>11, <2>12, <2>13 DEF FlowInv
<1> QED
  BY <1>1, <1>4, <1>5

LEMMA RescheduleFlow ==
  ASSUME FlowInv, Reschedule
  PROVE  FlowInv'
<1>1. PICK p \in Profiles : triggers' = Scheduled(budget, p)
  BY DEF Reschedule
<1>2. UNCHANGED <<budget, m_current, m_queues, m_queue_length, requested, sent, faults>>
  BY DEF Reschedule, ratevars, history
<1>3. Delay(budget, p) \in Int
  BY DelayType DEF FlowInv, StateType
<1>4. IsABag(triggers') /\ DOMAIN triggers' = {Delay(budget, p)}
  BY <1>1, <1>3, ScheduledBag DEF Scheduled, FlowInv, TriggerType
<1>5. TriggerType' /\ TriggerIsComing'
  BY <1>3, <1>4, NotEmptyBag DEF TriggerType, TriggerIsComing
<1>6. StateType' /\ QueuesOrdered' /\ NothingStaleIsSent'
  BY <1>2 DEF FlowInv, StateType, QueuesOrdered, NothingStaleIsSent
<1> QED
  BY <1>5, <1>6 DEF FlowInv

LEMMA TickFlow ==
  ASSUME FlowInv, NEW d \in 1 .. MaxJump, Tick(d)
  PROVE  FlowInv'
<1>1. UNCHANGED <<m_current, m_queue_length, requested, sent, faults>> /\ d \in Nat
  BY FlowAssumption DEF Tick, history
<1>2. budget' \in Ring
  BY <1>1, ElapsedType DEF Tick, FlowInv, StateType
<1>3. ASSUME NEW p \in Profiles
      PROVE  /\ Ordered(m_queues'[p], sent[p], requested)
             /\ m_queues[p] \in Seq(Packets) /\ m_queues'[p] \in Seq(Packets)
             /\ m_queues[p] = <<>> => m_queues'[p] = <<>>
  <2>1. m_queues'[p] = AgedQueue(m_queues[p], d)
    BY DEF Tick, AgedQueue
  <2>2. Ordered(m_queues[p], sent[p], requested) /\ m_queues[p] \in Seq(Packets)
    BY DEF FlowInv, QueuesOrdered
  <2>3. Ordered(m_queues'[p], sent[p], requested) /\ Len(m_queues'[p]) = Len(m_queues[p])
    BY <1>1, <2>1, <2>2, OrderedAged
  <2>4. m_queues'[p] \in Seq(Packets)
    BY <2>3 DEF Ordered
  <2>5. ASSUME m_queues[p] = <<>> PROVE m_queues'[p] = <<>>
    <3>1. Len(m_queues'[p]) = 0
      BY <2>3, <2>5
    <3> QED
      BY <2>4, <3>1, EmptySeq
  <2> QED
    BY <2>1, <2>2, <2>3, <2>4, <2>5
<1>4. m_queues' \in [Profiles -> Seq(Packets)]
  <2>1. DOMAIN m_queues' = Profiles /\ m_queues' = [p \in Profiles |-> m_queues'[p]]
    BY DEF Tick
  <2> QED
    BY <1>3, <2>1
<1>5. QueuesOrdered'
  BY <1>1, <1>3, <1>4 DEF FlowInv, QueuesOrdered
<1>6. /\ DOMAIN triggers' = {u - d : u \in DOMAIN triggers}
      /\ \A t \in DOMAIN triggers' : triggers'[t] = triggers[t + d]
      /\ triggers' = [t \in DOMAIN triggers' |-> triggers[t + d]]
  BY DEF Tick, BagToSet
<1>7. /\ DOMAIN triggers' \subseteq Int
      /\ \A t \in DOMAIN triggers' : t + d \in DOMAIN triggers
  BY <1>1, <1>6 DEF FlowInv, TriggerType
<1>8. TriggerType'
  BY <1>6, <1>7 DEF FlowInv, TriggerType, IsABag
<1>9. TriggerIsComing'
  <2> SUFFICES ASSUME Waiting(m_queues') # {} PROVE triggers' # EmptyBag
    BY DEF TriggerIsComing
  <2>1. Waiting(m_queues) # {}
    BY <1>3 DEF Waiting
  <2>2. triggers # EmptyBag /\ IsABag(triggers)
    BY <2>1 DEF FlowInv, TriggerIsComing, TriggerType
  <2>3. DOMAIN triggers # {}
    BY <2>2 DEF EmptyBag, SetToBag, IsABag
  <2>4. PICK u \in DOMAIN triggers : TRUE
    BY <2>3
  <2>5. u - d \in DOMAIN triggers'
    BY <1>6
  <2> QED
    BY <2>5, NotEmptyBag
<1>10. StateType' /\ NothingStaleIsSent'
  BY <1>1, <1>2 DEF FlowInv, StateType, NothingStaleIsSent
<1> QED
  BY <1>5, <1>8, <1>9, <1>10 DEF FlowInv

LEMMA NextFlow == FlowInv /\ [Next]_vars => FlowInv'
<1> SUFFICES ASSUME FlowInv, [Next]_vars PROVE FlowInv'
  OBVIOUS
<1>1. CASE \E p \in UsedProfiles, lifetime \in Lifetimes : Request(p, lifetime)
  BY <1>1, RequestFlow
<1>2. CASE Trigger
  BY <1>2, TriggerFlow
<1>3. CASE Reschedule
  BY <1>3, RescheduleFlow
<1>4. CASE \E n \in Limits : QueueLength(n)
  BY <1>4 DEF QueueLength, ratevars, history, FlowInv, StateType, QueuesOrdered, TriggerType,
              TriggerIsComing, NothingStaleIsSent
<1>5. CASE ChannelLoad
  BY <1>5 DEF ChannelLoad, UpdateState, history, FlowInv, StateType, QueuesOrdered, TriggerType,
              TriggerIsComing, NothingStaleIsSent
<1>6. CASE \E d \in 1 .. MaxJump : Tick(d)
  BY <1>6, TickFlow
<1>7. CASE UNCHANGED vars
  BY <1>7 DEF vars, ratevars, history, FlowInv, StateType, QueuesOrdered, TriggerType,
              TriggerIsComing, NothingStaleIsSent
<1> QED
  BY <1>1, <1>2, <1>3, <1>4, <1>5, <1>6, <1>7 DEF Next

\* Every variable of the flow control keeps its type; in particular the ring
\* buffer of the burst budget never holds more than its capacity.
THEOREM FlowTypes == Spec => []TypeOK
BY FlowInvTypeOK, InitFlow, NextFlow, PTL DEF Spec

\* A queued packet always has a call of trigger() ahead: expiry, immediate
\* transmissions, limits, reschedules and late timers never leave one behind.
THEOREM QueuedPacketsAreTriggered == Spec => []TriggerIsComing
<1>1. FlowInv => TriggerIsComing
  BY DEF FlowInv
<1> QED
  BY <1>1, InitFlow, NextFlow, PTL DEF Spec

\* trigger() and request() never transmit a packet whose lifetime has expired,
\* however late the event loop runs the trigger.
THEOREM SentInTime == Spec => []NothingStaleIsSent
<1>1. FlowInv => NothingStaleIsSent
  BY DEF FlowInv
<1> QED
  BY <1>1, InitFlow, NextFlow, PTL DEF Spec

-----------------------------------------------------------------------------
(* What a step may never do.                                               *)

LEMMA SentGrows ==
  ASSUME FlowInv, [Next]_vars
  PROVE  \A p \in Profiles : sent[p] <= sent'[p]
<1>1. \A p \in Profiles : sent[p] \in Nat /\ sent[p] <= requested /\ requested \in Nat
  BY FlowAssumption DEF FlowInv, StateType, QueuesOrdered
<1>2. CASE UNCHANGED sent
  BY <1>1, <1>2
<1>3. CASE \E p \in Profiles : sent' = [sent EXCEPT ![p] = requested + 1]
  BY <1>1, <1>3 DEF FlowInv, StateType
<1>4. CASE Trigger /\ ~UNCHANGED sent
  <2> DEFINE queues == DropExpired(m_queues)
  <2>1. PICK p \in Profiles : IsNext(queues, budget, p) /\ Transmit(budget, p, Head(queues[p]))
    BY <1>4 DEF Trigger, history
  <2> DEFINE queue == queues[p]
  <2>2. queue \in Seq(Packets) /\ queue # <<>> /\ Ordered(queue, sent[p], requested)
    BY <2>1, DropExpiredQueues DEF IsNext, Waiting
  <2>3. sent' = [sent EXCEPT ![p] = Head(queue).id]
    BY <2>1 DEF Transmit
  <2> HIDE DEF queue
  <2>4. sent[p] < Head(queue).id /\ Head(queue).id \in Nat
    BY <2>2, EmptySeq, HeadTailProperties, PacketFields DEF Ordered
  <2> QED
    BY <1>1, <2>3, <2>4 DEF FlowInv, StateType
<1>5. CASE \E p \in UsedProfiles, lifetime \in Lifetimes : Request(p, lifetime)
  <2>1. PICK p \in UsedProfiles, lifetime \in Lifetimes : Request(p, lifetime)
    BY <1>5
  <2>2. \/ Transmit(budget, p, Packet(requested + 1, lifetime))
        \/ UNCHANGED sent
    BY <2>1 DEF Request, Enqueue, history
  <2>3. p \in Profiles
    BY FlowAssumption
  <2> QED
    BY <1>2, <1>3, <2>2, <2>3 DEF Transmit, Packet
<1>6. Reschedule \/ (\E n \in Limits : QueueLength(n)) \/ ChannelLoad
      \/ (\E d \in 1 .. MaxJump : Tick(d)) \/ UNCHANGED vars => UNCHANGED sent
  BY DEF Reschedule, QueueLength, ChannelLoad, Tick, vars, history
<1> QED
  BY <1>2, <1>4, <1>5, <1>6 DEF Next

\* Packets of the same profile are sent in the order of their requests: none
\* is transmitted immediately past a queued one, and no queue is reordered.
THEOREM PacketsKeepOrder == Spec => SentInOrder
BY InitFlow, NextFlow, SentGrows, PTL DEF Spec, SentInOrder

\* The last packet of a queue is new only when enqueue() has put it there.
LEMMA NewPacketHasRoom ==
  ASSUME FlowInv, [Next]_vars, NEW p \in Profiles, m_queues'[p] # <<>>, m_queue_length > 0,
         m_queues'[p][Len(m_queues'[p])].id > requested
  PROVE  Len(m_queues'[p]) <= m_queue_length
<1>1. FlowInv'
  BY NextFlow
<1>2. /\ m_queues'[p] \in Seq(Packets) /\ requested \in Nat /\ m_queue_length \in Nat
      /\ Ordered(m_queues'[p], sent'[p], requested')
  BY <1>1, FlowAssumption DEF FlowInv, QueuesOrdered, StateType
<1>3. CASE UNCHANGED requested
  <2>1. Len(m_queues'[p]) \in 1 .. Len(m_queues'[p])
    BY <1>2, EmptySeq
  <2>2. m_queues'[p][Len(m_queues'[p])].id <= requested
    BY <1>2, <1>3, <2>1 DEF Ordered
  <2>3. m_queues'[p][Len(m_queues'[p])].id \in Nat
    BY <1>2, <2>1, PacketFields
  <2> QED
    BY <1>2, <2>2, <2>3
<1>4. CASE \E q \in UsedProfiles, lifetime \in Lifetimes : Request(q, lifetime)
  <2>1. PICK q \in UsedProfiles, lifetime \in Lifetimes : Request(q, lifetime)
    BY <1>4
  <2> DEFINE queues == DropExpired(m_queues)
             x == Packet(requested + 1, lifetime)
  <2>2. /\ queues \in [Profiles -> Seq(Packets)] /\ Ordered(queues[p], sent[p], requested)
        /\ q \in Profiles
    BY DropExpiredQueues, FlowAssumption
  <2>3. m_queues' = queues \/ m_queues' = [queues EXCEPT ![q] = Append(MakeRoom(queues[q]), x)]
    BY <2>1 DEF Request, Enqueue
  <2>4. x \in Packets
    BY <2>1, FlowAssumption DEF Packet, Packets, Request, FlowInv, StateType
  <2> HIDE DEF queues, x
  <2>5. m_queues'[p] # queues[p]
    <3> SUFFICES ASSUME m_queues'[p] = queues[p] PROVE FALSE
      OBVIOUS
    <3>1. Len(queues[p]) \in 1 .. Len(queues[p])
      BY <1>2, EmptySeq
    <3>2. queues[p][Len(queues[p])].id <= requested
      BY <2>2, <3>1 DEF Ordered
    <3>3. queues[p][Len(queues[p])].id \in Nat
      BY <2>2, <3>1, PacketFields
    <3> QED
      BY <1>2, <3>2, <3>3
  <2>6. m_queues'[p] = Append(MakeRoom(queues[p]), x)
    BY <2>2, <2>3, <2>5
  <2>7. MakeRoom(queues[p]) \in Seq(Packets) /\ Len(MakeRoom(queues[p])) < m_queue_length
    BY <1>2, <2>2, OrderedMakeRoom DEF Ordered
  <2>8. Len(m_queues'[p]) = Len(MakeRoom(queues[p])) + 1
    BY <2>4, <2>6, <2>7, AppendProperties
  <2> QED
    BY <1>2, <2>7, <2>8, LenProperties
<1>5. Trigger \/ Reschedule \/ (\E n \in Limits : QueueLength(n)) \/ ChannelLoad
      \/ (\E d \in 1 .. MaxJump : Tick(d)) \/ UNCHANGED vars => UNCHANGED requested
  BY DEF Trigger, Reschedule, QueueLength, ChannelLoad, Tick, vars
<1> QED
  BY <1>3, <1>4, <1>5 DEF Next

\* enqueue() never lets a queue grow beyond the limit, also when the limit has
\* been lowered below what is queued already.
THEOREM QueuesKeepLimit == Spec => QueuesAreBounded
<1>1. FlowInv /\ [Next]_vars =>
        \A p \in Profiles :
          m_queues'[p] # <<>> /\ m_queue_length > 0
          /\ m_queues'[p][Len(m_queues'[p])].id > requested
            => Len(m_queues'[p]) <= m_queue_length
  BY NewPacketHasRoom
<1> QED
  BY <1>1, InitFlow, NextFlow, PTL DEF Spec, QueuesAreBounded
=============================================================================
