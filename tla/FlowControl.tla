---------------------------- MODULE FlowControl ----------------------------
(***************************************************************************)
(* DCC flow control (dcc/flow_control.cpp): the gatekeeper above the       *)
(* access layer, with one queue per access category, on top of the         *)
(* reactive rate control.  Packets are numbered in the order in which they *)
(* are requested.  A request may come at the instant a trigger is due and  *)
(* before it runs: other timers of the event loop make requests too.       *)
(***************************************************************************)
EXTENDS TransmitRateControl, Bags, Selection

CONSTANTS
  UsedProfiles, \* profiles of the requests
  Lifetimes,    \* lifetimes of the requests, in ticks
  Limits,       \* values given to queue_length(); 0 is unlimited
  MaxRequests,  \* bound: requests ever made
  MaxJump       \* bound: ticks the event loop may skip at once

ASSUME FlowAssumption ==
  /\ UsedProfiles \subseteq Profiles
  /\ Lifetimes \subseteq Nat /\ Limits \subseteq Nat
  /\ MaxRequests \in Nat /\ MaxJump \in Nat \ {0}

VARIABLES
  m_queues,       \* profile -> packets, with the ticks until they expire
  m_queue_length,
  triggers,       \* bag of scheduled calls of trigger(): ticks until due
  requested,      \* number of the last packet requested
  sent,           \* profile -> last packet sent (history)
  faults          \* what was wrong with a packet sent: "early", "stale" (history)

history == <<sent, faults>>
vars == <<ratevars, m_queues, m_queue_length, triggers, requested, history>>

Packet(id, expiry) == [id |-> id, expiry |-> expiry]
Waiting(queues) == {p \in Profiles : queues[p] # <<>>}

\* The packets of a queue that have not expired, in their order.
Unexpired(queue) == Selected(queue, {i \in DOMAIN queue : queue[i].expiry >= 0})

\* drop_expired()
DropExpired_None(queues) == queues \* Deviation: nothing is dropped.
DropExpired(queues) == [p \in Profiles |-> Unexpired(queues[p])]

\* next_queue(): the shortest delay, the highest access category among equals
IsNext(queues, b, p) ==
  /\ p \in Waiting(queues)
  /\ \A q \in Waiting(queues) :
       IF q < p THEN Delay(b, p) < Delay(b, q) ELSE Delay(b, p) <= Delay(b, q)

\* Deviation: a full interval ahead instead of what is left of it.
Scheduled_Interval(b, p) == SetToBag({IF p = 0 THEN BurstPeriod ELSE Interval})
\* schedule_trigger()
Scheduled(b, p) == SetToBag({Delay(b, p)})

\* notify() of the rate control and transmit()
Transmit(b, p, x) ==
  /\ budget' = Notified(b, p)
  /\ sent' = [sent EXCEPT ![p] = x.id]
  /\ faults' = faults \cup {f \in {"early", "stale"} :
                  IF f = "early" THEN Delay(b, p) > 0 ELSE x.expiry < 0}

\* Deviation: only queues of higher priority count.
Contention_Higher(queues, p) == \E q \in Waiting(queues) : q < p
\* transmit_immediately(): is a packet of equal or higher priority queued?
Contention(queues, p) == \E q \in Waiting(queues) : q <= p

\* Deviation: one packet is dropped at most.
MakeRoom_One(queue) ==
  IF m_queue_length > 0 /\ Len(queue) >= m_queue_length THEN Tail(queue) ELSE queue
\* The first elements are dropped until there is room for one more.
MakeRoom(queue) ==
  IF m_queue_length > 0 /\ Len(queue) >= m_queue_length
  THEN SubSeq(queue, Len(queue) - m_queue_length + 2, Len(queue))
  ELSE queue

\* enqueue()
Enqueue(queues, p, x) ==
  /\ m_queues' = [queues EXCEPT ![p] = Append(MakeRoom(queues[p]), x)]
  /\ triggers' = IF Waiting(queues) = {} THEN triggers (+) Scheduled(budget, p) ELSE triggers
  /\ UNCHANGED <<budget, history>>

\* request()
Request(p, lifetime) ==
  LET queues == DropExpired(m_queues)
      x == Packet(requested + 1, lifetime)
      immediately == ~Contention(queues, p) /\ Delay(budget, p) = 0
  IN
  /\ requested < MaxRequests
  /\ requested' = requested + 1
  /\ \/ /\ immediately
        /\ Transmit(budget, p, x)
        /\ m_queues' = queues
        /\ UNCHANGED triggers
     \/ /\ ~immediately
        /\ Enqueue(queues, p, x)
  /\ UNCHANGED <<m_current, m_queue_length>>

Due == {t \in BagToSet(triggers) : t <= 0}

\* The scheduled calls once the next due one has been taken out.
Remaining(t) == triggers (-) SetToBag({t})

\* Deviation: a packet is sent and the rest forgotten.
Resume_Never(queues, b, rest) == triggers' = rest
\* The end of trigger(): the next transmission is scheduled.
Resume(queues, b, rest) ==
  \/ /\ Waiting(queues) = {}
     /\ triggers' = rest
  \/ \E p \in Profiles :
       /\ IsNext(queues, b, p)
       /\ triggers' = rest (+) Scheduled(b, p)

\* trigger()
Trigger ==
  LET queues == DropExpired(m_queues) IN
  \E t \in Due :
    /\ \A u \in Due : t <= u
    /\ \/ /\ Waiting(queues) = {}
          /\ m_queues' = queues
          /\ Resume(queues, budget, Remaining(t))
          /\ UNCHANGED <<budget, history>>
       \/ \E p \in Profiles :
            /\ IsNext(queues, budget, p)
            /\ m_queues' = [queues EXCEPT ![p] = Tail(@)]
            /\ Transmit(budget, p, Head(queues[p]))
            /\ Resume(m_queues', budget', Remaining(t))
    /\ UNCHANGED <<m_current, m_queue_length, requested>>

\* reschedule()
Reschedule ==
  /\ \E p \in Profiles :
       /\ IsNext(m_queues, budget, p)
       /\ triggers' = Scheduled(budget, p)
  /\ UNCHANGED <<ratevars, m_queues, m_queue_length, requested, history>>

\* queue_length()
QueueLength(n) ==
  /\ m_queue_length' = n
  /\ UNCHANGED <<ratevars, m_queues, triggers, requested, history>>

\* The channel load changes the state of the state machine.
ChannelLoad ==
  /\ UpdateState
  /\ UNCHANGED <<budget, m_queues, m_queue_length, triggers, requested, history>>

\* Time passes.  An expired packet is expired, however long ago.
Tick(d) ==
  /\ Due = {}
  /\ budget' = Elapsed(budget, d)
  /\ m_queues' = [p \in Profiles |-> [i \in DOMAIN m_queues[p] |->
                    Packet(m_queues[p][i].id, Max({-1, m_queues[p][i].expiry - d}))]]
  /\ triggers' = [t \in {u - d : u \in BagToSet(triggers)} |-> triggers[t + d]]
  /\ UNCHANGED <<m_current, m_queue_length, requested, history>>

Init ==
  /\ RateInit
  /\ m_queues = [p \in Profiles |-> <<>>]
  /\ m_queue_length = 0
  /\ triggers = EmptyBag
  /\ requested = 0
  /\ sent = [p \in Profiles |-> 0] /\ faults = {}

Next ==
  \/ \E p \in UsedProfiles, lifetime \in Lifetimes : Request(p, lifetime)
  \/ Trigger
  \/ Reschedule
  \/ \E n \in Limits : QueueLength(n)
  \/ ChannelLoad
  \/ \E d \in 1 .. MaxJump : Tick(d)

Spec == Init /\ [][Next]_vars

\* The event loop runs: due triggers are called, and time passes however many
\* other events there are.
Fairness == SF_vars(\E d \in 1 .. MaxJump : Tick(d)) /\ WF_vars(Trigger)
FairSpec == Spec /\ Fairness

-----------------------------------------------------------------------------
(* Properties.                                                             *)

\* Every variable has its type, and the ring buffer of a burst never holds more
\* than its capacity.
TypeOK ==
  /\ budget \in Budgets /\ Len(budget.messages) <= Burst
  /\ m_current \in DOMAIN OffTimes
  /\ m_queues \in [Profiles -> Seq([id : 1 .. MaxRequests, expiry : Int])]
  /\ m_queue_length \in Limits \cup {0}
  /\ IsABag(triggers) /\ BagToSet(triggers) \subseteq Int
  /\ requested \in 0 .. MaxRequests
  /\ sent \in [Profiles -> 0 .. MaxRequests]
  /\ faults \subseteq {"early", "stale"}

\* A queued packet never waits without a call of trigger() ahead, whatever mix
\* of expiry, immediate transmissions, triggers and reschedules emptied and
\* filled the queues before.
TriggerIsComing == Waiting(m_queues) # {} => triggers # EmptyBag

\* "If a packet's lifetime expires before transmission it will be dropped",
\* however late the event loop runs the trigger.
NothingStaleIsSent == "stale" \notin faults

\* Packets of the same profile are sent in the order in which they were
\* requested: none is transmitted immediately past a queued one.
SentInOrder == [][\A p \in Profiles : sent[p] <= sent'[p]]_vars

\* A queue never grows beyond the limit, also after the limit was lowered.
QueuesAreBounded ==
  [][\A p \in Profiles :
       m_queues'[p] # <<>> /\ m_queue_length > 0
       /\ m_queues'[p][Len(m_queues'[p])].id > requested
         => Len(m_queues'[p]) <= m_queue_length]_vars

\* Every queued packet is sent or dropped in the end.
QueuedPacketLeaves ==
  \A id \in 1 .. MaxRequests :
    LET queued == \E p \in Profiles : \E i \in DOMAIN m_queues[p] : m_queues[p][i].id = id
    IN  queued ~> ~queued

(* What the documentation says and the code does not do.                   *)

\* transmit_rate_control.hpp: delay() is the "waiting time until next
\* transmission is allowed".  Nothing is sent while a wait is left.
RateRespected == "early" \notin faults
=============================================================================
