--------------------------- MODULE CbfPacketBuffer ---------------------------
(***************************************************************************)
(* Contention based forwarding of one GeoNetworking router: the packet     *)
(* buffer (geonet/cbf_packet_buffer.cpp), the duplicate counters           *)
(* (geonet/cbf_counter.cpp) and the forwarding algorithms that use them    *)
(* (area and non-area CBF and ADVANCED of geonet/router.cpp).              *)
(*                                                                         *)
(* Times are relative to now.  A tick is the resolution of the event loop; *)
(* a packet's lifetime can only be written to its header in multiples of   *)
(* Quantum ticks (see Lifetime).  Positions are abstracted to what the     *)
(* algorithms read off them: a timeout, progress or not, inside the sector *)
(* or not.                                                                 *)
(***************************************************************************)
EXTENDS Integers, FiniteSets, Sequences, FiniteSetsExt, Lifetime, Selection

CONSTANTS
  Ids,             \* packet identifiers: source address and sequence number
  Lengths,         \* packet lengths, in bytes
  Lifetimes,       \* lifetimes of received packets, in ticks
  Capacity,        \* m_capacity_bytes
  Timeouts,        \* what timeout_cbf() returns, in ticks
  MaxTime,         \* itsGnCbfMaxTime, in ticks
  Algorithm,       \* itsGnAreaForwardingAlgorithm: "CBF" or "ADVANCED"
  Inside,          \* may the station be inside the destination area, outside
  Fading,          \* vanetzaFadingCbfCounter
  CounterLifetime, \* vanetzaFadingCbfCounterLifetime, in ticks
  MaxCounter,      \* vanetzaCbfMaxCounter
  MaxJump,         \* bound: ticks the event loop may skip at once
  Off              \* no timer scheduled

ASSUME CbfAssumption ==
  /\ IsFiniteSet(Ids)
  /\ Lengths \subseteq Nat \ {0} /\ Lifetimes \subseteq Nat /\ Timeouts \subseteq Nat
  /\ Capacity \in Nat /\ MaxTime \in Nat \ {0}
  /\ Algorithm \in {"CBF", "ADVANCED"} /\ Fading \in BOOLEAN
  /\ Inside \subseteq BOOLEAN /\ Inside # {}
  /\ CounterLifetime \in Nat /\ MaxCounter \in Nat \ {0}
  /\ MaxJump \in Nat \ {0}
  /\ Off \notin Int

VARIABLES
  m_packets,      \* buffered packets in order of arrival
  m_timers,       \* identifier -> [expiry, queued]: ticks left and ticks since start
  m_stored_bytes,
  m_counters,     \* identifier -> [value, expiry]; expiry is used when Fading
  scheduled,      \* ticks until the runtime calls flush(); Off when it will not
  last_sent,      \* identifier -> ticks since its last broadcast (history, if Fading)
  excess          \* identifier -> lifetime gained by rounding while queued (history)

buffer == <<m_packets, m_timers, m_stored_bytes>>
history == <<last_sent, excess>>
vars == <<buffer, m_counters, scheduled, history>>

Update(f, k, v) == [x \in DOMAIN f \cup {k} |-> IF x = k THEN v ELSE f[x]]
Without(f, ks) == [x \in DOMAIN f \ ks |-> f[x]]

\* Is there lifetime left after waiting in the buffer?
StillValid(lifetime, queued) == queued < lifetime

-----------------------------------------------------------------------------
(* Duplicate counters: CbfCounterContending and CbfCounterFading.          *)

Expired(c) == Fading /\ c.expiry < 0

\* counter()
Counter(id) ==
  IF id \in DOMAIN m_counters /\ ~Expired(m_counters[id]) THEN m_counters[id].value ELSE 0

\* One more than before.  Nothing tells counters of MaxCounter and more apart.
OneMore(cs, id) == Min({MaxCounter, 1 + (IF id \in DOMAIN cs THEN cs[id].value ELSE 0)})

\* remove(): a fading counter stays
CounterRemove(cs, ids) == IF Fading THEN cs ELSE Without(cs, ids)

\* Deviation: the packet that is added is not counted itself.
CounterAdd_FromZero(cs, id) ==
  Update(cs, id, [value |-> IF id \in DOMAIN cs THEN cs[id].value ELSE 0,
                  expiry |-> CounterLifetime])
\* add(): a contending counter starts at 1, a fading one goes on, even when it
\* has expired but has not been dropped yet; then the expired ones are dropped
CounterAdd(cs, id) ==
  IF Fading
  THEN LET added == Update(cs, id, [value |-> OneMore(cs, id), expiry |-> CounterLifetime])
       IN  Without(added, {x \in DOMAIN added : Expired(added[x])})
  ELSE Update(cs, id, [value |-> 1, expiry |-> CounterLifetime])

\* increment(): only an expired or missing counter is given a new lifetime
CounterIncrement(cs, id) ==
  Update(cs, id, [value |-> OneMore(cs, id),
                  expiry |-> IF id \in DOMAIN cs /\ ~Expired(cs[id])
                             THEN cs[id].expiry ELSE CounterLifetime])

-----------------------------------------------------------------------------
(* The buffer.  Timers of equal expiry all count as the first one: the     *)
(* runtime's timer is set to the same instant whichever it is.             *)

Buffered(id) == id \in DOMAIN m_timers
Position(id) == CHOOSE i \in DOMAIN m_packets : m_packets[i].id = id
Earliest(timers) == Min({timers[x].expiry : x \in DOMAIN timers})
First(id, timers) ==
  /\ id \in DOMAIN timers
  /\ \A x \in DOMAIN timers : timers[id].expiry <= timers[x].expiry
Dropped(i) == SubSeq(m_packets, 1, i - 1) \o SubSeq(m_packets, i + 1, Len(m_packets))
Bytes(packets) ==
  LET sum[n \in 0 .. Len(packets)] ==
        IF n = 0 THEN 0 ELSE sum[n - 1] + packets[n].length
  IN  sum[Len(packets)]

\* Deviation: the bytes of the packet are not given back.
Remove_BytesKept(id) ==
  /\ m_packets' = Dropped(Position(id))
  /\ m_counters' = CounterRemove(m_counters, {id})
  /\ m_timers' = Without(m_timers, {id})
  /\ UNCHANGED <<m_stored_bytes, scheduled>>

\* remove() of a buffered packet, and remove_timer(): a new first timer is
\* scheduled, the last packet leaves the runtime's timer as it is
Remove(id) ==
  /\ m_packets' = Dropped(Position(id))
  /\ m_stored_bytes' = m_stored_bytes - m_packets[Position(id)].length
  /\ m_counters' = CounterRemove(m_counters, {id})
  /\ m_timers' = Without(m_timers, {id})
  /\ IF First(id, m_timers) /\ DOMAIN m_timers' # {}
     THEN scheduled' = Earliest(m_timers')
     ELSE UNCHANGED scheduled

FitsAfter(n, length) ==
  m_stored_bytes + length - Bytes(SubSeq(m_packets, 1, n)) <= Capacity

\* Head drop makes room for length bytes: the fewest packets from the front.
HeadDrop(length) ==
  CHOOSE n \in 0 .. Len(m_packets) :
    /\ FitsAfter(n, length) \/ n = Len(m_packets)
    /\ \A k \in 0 .. n - 1 : ~FitsAfter(k, length)

\* Deviation: only the first packet of an empty buffer sets the timer.
FirstChanged_Empty(id, gone, timers) == DOMAIN m_timers = {}

\* Does the first timer change when those in gone leave and id is added?
FirstChanged(id, gone, timers) ==
  \/ DOMAIN m_timers = {}
  \/ \E x \in gone : First(x, m_timers)
  \/ \A x \in DOMAIN timers \ {id} : timers[id].expiry < timers[x].expiry

\* add().  The iterator to the first timer is compared after head drop may
\* have erased its node: when the new node has taken its place in memory the
\* comparison finds no change (undefined behaviour, either outcome).
Add(p, timeout) ==
  IF timeout <= 0 THEN UNCHANGED <<buffer, m_counters, scheduled>>
  ELSE
  LET n == HeadDrop(p.length)
      gone == {m_packets[i].id : i \in 1 .. n}
      kept == SubSeq(m_packets, n + 1, Len(m_packets))
      timers == Without(m_timers, gone)
      known == p.id \in DOMAIN timers
      counters == CounterRemove(m_counters, gone)
  IN
  /\ m_packets' = IF known THEN kept ELSE Append(kept, p)
  /\ m_timers' = IF known THEN timers
                 ELSE Update(timers, p.id, [expiry |-> timeout, queued |-> 0])
  /\ m_stored_bytes' = m_stored_bytes - Bytes(SubSeq(m_packets, 1, n))
                       + (IF known THEN 0 ELSE p.length)
  /\ m_counters' = IF known THEN counters ELSE CounterAdd(counters, p.id)
  /\ \/ scheduled' = IF FirstChanged(p.id, gone, m_timers') THEN Earliest(m_timers')
                     ELSE scheduled
     \/ /\ \E x \in gone : First(x, m_timers)
        /\ ~known /\ First(p.id, m_timers')
        /\ UNCHANGED scheduled

\* Bound: lifetime gained or lost by rounding is only told up to this much.
MaxExcess == Quantum * MaxCounter
Bounded(x) == Max({-MaxExcess, Min({x, MaxExcess})})

\* What is left of a lifetime, without rounding.
Remaining(lifetime, queued) == Max({0, lifetime - queued})

\* update(): the packet's timer starts anew, the runtime's timer is not touched
UpdateTimer(id, timeout) ==
  LET i == Position(id)
      shortened == ReducedLifetime(m_packets[i].lifetime, m_timers[id].queued)
  IN
  /\ m_packets' = [m_packets EXCEPT ![i].lifetime = shortened]
  /\ m_timers' = [m_timers EXCEPT ![id] = [expiry |-> timeout, queued |-> 0]]
  /\ m_counters' = CounterIncrement(m_counters, id)
  /\ excess' = [excess EXCEPT ![id] =
                  Bounded(@ + shortened - Remaining(m_packets[i].lifetime, m_timers[id].queued))]
  /\ UNCHANGED <<m_stored_bytes, scheduled, last_sent>>

-----------------------------------------------------------------------------
(* Receiving a GBC packet: what forwarding_algorithm_selection() comes to  *)
(* when contention based forwarding is in use.  A buffered packet counts   *)
(* for the history from scratch.                                           *)

Packet(id, length, lifetime, silent) ==
  [id |-> id, length |-> length, lifetime |-> lifetime, silent |-> silent]

Contend(p, timeout) ==
  /\ Add(p, timeout)
  /\ excess' = IF Buffered(p.id) THEN excess ELSE [excess EXCEPT ![p.id] = 0]
  /\ UNCHANGED last_sent

Suppress(id) == Remove(id) /\ UNCHANGED history
Ignore == UNCHANGED vars

\* Deviation: the counter is not consulted.
AreaCbf_NoCounter(id, length, lifetime, timeout) ==
  \/ /\ Buffered(id)
     /\ Suppress(id)
  \/ /\ ~Buffered(id)
     /\ Contend(Packet(id, length, lifetime, FALSE), timeout)

\* area_contention_based_forwarding()
AreaCbf(id, length, lifetime, timeout) ==
  \/ /\ Buffered(id)
     /\ Suppress(id)
  \/ /\ ~Buffered(id)
     /\ Counter(id) >= MaxCounter
     /\ Ignore
  \/ /\ ~Buffered(id)
     /\ Counter(id) < MaxCounter
     /\ Contend(Packet(id, length, lifetime, FALSE), timeout)

\* non_area_contention_based_forwarding(): known tells whether the position
\* of the sender is known and accurate, progress whether we are closer
NonAreaCbf(id, length, lifetime, timeout, known, progress) ==
  \/ /\ Buffered(id)
     /\ Suppress(id)
  \/ /\ ~Buffered(id) /\ known /\ ~progress
     /\ Ignore
  \/ /\ ~Buffered(id) /\ known /\ progress
     /\ Contend(Packet(id, length, lifetime, FALSE), timeout)
  \/ /\ ~Buffered(id) /\ ~known
     /\ Contend(Packet(id, length, lifetime, FALSE), MaxTime)

\* Deviation: the counter is not consulted.
AreaAdvancedBuffered_NoCounter(id, timeout, outside) ==
  \/ ~outside /\ Suppress(id)
  \/ outside /\ UpdateTimer(id, timeout)

\* area_advanced_forwarding() of a packet already buffered; outside tells
\* whether we are outside the sectorial contention area
AreaAdvancedBuffered(id, timeout, outside) ==
  \/ /\ Counter(id) >= MaxCounter \/ ~outside
     /\ Suppress(id)
  \/ /\ Counter(id) < MaxCounter /\ outside
     /\ UpdateTimer(id, timeout)

\* area_advanced_forwarding() of a new packet; to_us: the link layer
\* destination is this station, which forwards greedily and contends as well;
\* after a greedy broadcast the contention goes on without sending
AreaAdvancedNew(id, length, lifetime, timeout, to_us, greedy_broadcast) ==
  \/ /\ to_us
     /\ Contend(Packet(id, length, lifetime, greedy_broadcast), MaxTime)
  \/ /\ ~to_us
     /\ Contend(Packet(id, length, lifetime, FALSE), timeout)

-----------------------------------------------------------------------------
Due == scheduled # Off /\ scheduled <= 0
Elapse(t, d) == IF t = Off THEN Off ELSE t - d

\* Bound: how long ago the last broadcast was is only told up to this age.
MaxAge == CounterLifetime + 2 * MaxTime + MaxJump

\* Time passes; fading counters run down.
Tick(d) ==
  /\ ~Due
  /\ scheduled' = Elapse(scheduled, d)
  /\ m_timers' = [x \in DOMAIN m_timers |->
                    [expiry |-> m_timers[x].expiry - d, queued |-> m_timers[x].queued + d]]
  /\ m_counters' = [x \in DOMAIN m_counters |->
                      [m_counters[x] EXCEPT !.expiry =
                         IF Fading /\ @ >= 0 THEN @ - d ELSE @]]
  /\ last_sent' = [x \in Ids |-> IF last_sent[x] \in Int
                                 THEN Min({last_sent[x] + d, MaxAge}) ELSE Off]
  /\ UNCHANGED <<m_packets, m_stored_bytes, excess>>

Ripe == {x \in DOMAIN m_timers : m_timers[x].expiry <= 0}

\* Deviation: packets that stay are forgotten.
NextFlush_Never(timers) == Off
\* The runtime's timer after flush().
NextFlush(timers) == IF DOMAIN timers # {} THEN Earliest(timers) ELSE Off

\* flush(): all packets whose timer has expired leave, those with lifetime
\* left are sent
Flush ==
  LET ripe == {i \in DOMAIN m_packets : m_packets[i].id \in Ripe}
      sends(p) == ~p.silent /\ StillValid(p.lifetime, m_timers[p.id].queued)
      sent == {m_packets[i].id : i \in {j \in ripe : sends(m_packets[j])}}
      timers == Without(m_timers, Ripe)
  IN
  /\ Due
  /\ m_packets' = Selected(m_packets, DOMAIN m_packets \ ripe)
  /\ m_timers' = timers
  /\ m_stored_bytes' = m_stored_bytes - Bytes(Selected(m_packets, ripe))
  /\ m_counters' = CounterRemove(m_counters, Ripe)
  /\ scheduled' = NextFlush(timers)
  /\ last_sent' = [x \in Ids |-> IF Fading /\ x \in sent THEN 0 ELSE last_sent[x]]
  /\ UNCHANGED excess

\* fetch(): the packet leaves the buffer with the caller
Fetch(id) ==
  /\ Buffered(id)
  /\ Remove(id)
  /\ UNCHANGED history

Init ==
  /\ m_packets = <<>> /\ m_stored_bytes = 0
  /\ m_timers = [x \in {} |-> 0] /\ m_counters = [x \in {} |-> 0]
  /\ scheduled = Off
  /\ last_sent = [x \in Ids |-> Off] /\ excess = [x \in Ids |-> 0]

\* The area algorithm applies inside the destination area, CBF outside of it,
\* unless the sender is known to be inside: then the packet is not forwarded.
Receive(id, length, lifetime, timeout) ==
  \/ /\ FALSE \in Inside
     /\ Ignore
  \/ /\ FALSE \in Inside
     /\ \E known, progress \in BOOLEAN :
          NonAreaCbf(id, length, lifetime, timeout, known, progress)
  \/ /\ TRUE \in Inside /\ Algorithm = "CBF"
     /\ AreaCbf(id, length, lifetime, timeout)
  \/ /\ TRUE \in Inside /\ Algorithm = "ADVANCED"
     /\ \/ /\ Buffered(id)
           /\ \E outside \in BOOLEAN : AreaAdvancedBuffered(id, timeout, outside)
        \/ /\ ~Buffered(id)
           /\ \E to_us, greedy_broadcast \in BOOLEAN :
                AreaAdvancedNew(id, length, lifetime, timeout, to_us, greedy_broadcast)

Next ==
  \/ \E id \in Ids, length \in Lengths, lifetime \in Lifetimes, timeout \in Timeouts :
       Receive(id, length, lifetime, timeout)
  \/ \E id \in Ids : Fetch(id)
  \/ \E d \in 1 .. MaxJump : Tick(d)
  \/ Flush

Spec == Init /\ [][Next]_vars

\* The event loop runs: time passes and due callbacks are called.
Fairness == WF_vars(\E d \in 1 .. MaxJump : Tick(d)) /\ WF_vars(Flush)
FairSpec == Spec /\ Fairness

-----------------------------------------------------------------------------
(* Properties.                                                             *)

PacketType == [id : Ids, length : Lengths, lifetime : Nat, silent : BOOLEAN]

\* Every variable has its type: a lifetime reduced while the packet waits never
\* falls below zero, and a counter that exists has counted the packet itself.
TypeOK ==
  /\ m_packets \in Seq(PacketType)
  /\ DOMAIN m_timers \subseteq Ids
  /\ \A x \in DOMAIN m_timers : m_timers[x] \in [expiry : Int, queued : Nat]
  /\ m_stored_bytes \in Nat
  /\ DOMAIN m_counters \subseteq Ids
  /\ \A x \in DOMAIN m_counters : m_counters[x] \in [value : 1 .. MaxCounter, expiry : Int]
  /\ scheduled \in Int \cup {Off}
  /\ last_sent \in [Ids -> (0 .. MaxAge) \cup {Off}]
  /\ excess \in [Ids -> Int]

\* The list, the timers and the byte count tell the same story after any mix
\* of adds, head drops, duplicates, suppressions and flushes: every packet has
\* exactly one timer (the assert of add() and remove()), the bytes add up, so
\* that head drop never starves the buffer, and head drop keeps them within the
\* capacity, except for a single packet that is larger by itself.
Consistent ==
  /\ {m_packets[i].id : i \in DOMAIN m_packets} = DOMAIN m_timers
  /\ \A i, j \in DOMAIN m_packets : m_packets[i].id = m_packets[j].id => i = j
  /\ m_stored_bytes = Bytes(m_packets)
  /\ m_stored_bytes <= Capacity \/ Len(m_packets) = 1

\* Whatever is buffered has a call of flush() ahead of it.
FlushIsComing == m_packets # <<>> => scheduled # Off

\* "Enqueue a packet and start an associated timer expiring after timeout":
\* once the event loop has run its due callbacks, no packet whose timer has
\* expired is left in the buffer.
NothingOverdue == ~Due => \A x \in DOMAIN m_timers : m_timers[x].expiry > 0

\* Fading counters stop a station from contending for the same packet over
\* and over: two broadcasts of it are a counter lifetime apart, less the time
\* the first one has spent in contention.
RepeatsAreApart ==
  [][\A x \in Ids :
       last_sent[x] \in Int /\ last_sent[x] > 0 /\ last_sent'[x] = 0
         => last_sent[x] > CounterLifetime - MaxTime - MaxJump]_vars

\* Each update of a packet's timer may round its lifetime up by half a step,
\* never more, and there are at most MaxCounter - 1 of them.
RoundingIsBounded ==
  \A i \in DOMAIN m_packets :
    2 * excess[m_packets[i].id] <= Quantum * (MaxCounter - 1)

\* Contention for a packet ends, however many duplicates are overheard: they
\* may restart its timer only until the counter reaches its limit.
ContentionEnds == \A id \in Ids : Buffered(id) ~> ~Buffered(id)
=============================================================================
