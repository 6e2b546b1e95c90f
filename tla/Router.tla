------------------------------- MODULE Router -------------------------------
(***************************************************************************)
(* The GeoNetworking router of one station (geonet/router.cpp) with its    *)
(* broadcast forwarding buffer (geonet/packet_buffer.cpp), location table  *)
(* (geonet/location_table.cpp, soft_state_map.hpp) and duplicate packet    *)
(* lists, and the hooks by which an identifier change reaches it           *)
(* (ports/esp_idf/src/stack.cpp).  Security is switched on.                *)
(*                                                                         *)
(* There is one destination area, small enough to be one place.  A         *)
(* position is its distance from it, 0 when inside or at the border.       *)
(* Times are relative to now.                                              *)
(* Processing a received packet takes several steps here, one for each     *)
(* packet of the forwarding buffer; nothing else happens in between.  The  *)
(* packet itself is only looked at, and chosen, at the end.                *)
(* Contention based forwarding is modelled in CbfPacketBuffer; here a      *)
(* contending packet may be sent or dropped at any time.                   *)
(***************************************************************************)
EXTENDS Integers, FiniteSets, Sequences, Selection, Lifetime

CONSTANTS
  Peers,           \* link-layer addresses of other stations
  Addresses,       \* addresses this station may be given
  Inputs,          \* packets received, see InputType
  Distances,       \* where the station may be
  Requests,        \* what is requested: [kind, scf, life]
  Algorithms,      \* [area, non_area]: forwarding algorithms configured
  LocTeLifetime,   \* itsGnLifetimeLocTE, in ticks
  NeighbourExpiry, \* vanetzaNeighbourFlagExpiry, in ticks; 0: never
  DplLength,       \* itsGnDPLLength
  BufferSize,      \* packets the forwarding buffer has room for
  Retransmit,      \* itsGnBeaconServiceRetransmitTimer, in ticks
  MaxJitter,       \* itsGnBeaconServiceMaxJitter, in ticks
  MaxRequests,     \* bound: GBC packets requested
  None             \* no packet, no entry, no position, no timer

ASSUME RouterAssumption ==
  /\ LocTeLifetime \in Nat /\ NeighbourExpiry \in Nat /\ Distances \subseteq Nat
  /\ DplLength \in Nat \ {0} /\ BufferSize \in Nat \ {0}
  /\ Retransmit \in Nat \ {0} /\ MaxJitter \in Nat /\ MaxRequests \in Nat
  /\ None \notin Nat

Positions == [dist : Nat, pai : BOOLEAN] \cup {None}
EntryType == [ttl : Int, nb : Nat, pos : Positions, dpl : Seq(Nat)]
InputType ==
  [kind : {"single", "gbc", "tsb", "malformed"}, src : Peers, from : Peers, sn : Nat,
   scf : BOOLEAN, life : Nat, pos : Positions, newer : BOOLEAN, stop : BOOLEAN]
RequestType == [kind : {"shb", "gbc"}, scf : BOOLEAN, life : Nat]
AlgorithmType == [area : {"SIMPLE", "CBF"}, non_area : {"GREEDY", "CBF"}]

ASSUME InputAssumption ==
  /\ Inputs \subseteq InputType
  /\ Requests \subseteq RequestType
  /\ Algorithms \subseteq AlgorithmType
  /\ None \notin Peers /\ None \notin EntryType

VARIABLES
  mib,       \* the algorithms configured
  addr,      \* m_local_position_vector.gn_addr
  here,      \* the station's position
  fix,       \* has there been a position fix?
  sn,        \* m_local_sequence_number
  table,     \* m_location_table: address -> [ttl, nb, pos, dpl] or None
  buffer,    \* m_bc_forward_buffer
  cbf,       \* packets in m_cbf_buffer
  beacon,    \* ticks until the beacon timer expires; None when not scheduled
  pending,   \* an identifier change is between PREPARE and COMMIT or ABORT
  flushing,  \* packets a running flush() has still to look at
  indicated, \* a received packet waits for the flush to end
  out,       \* the frame handed to the access layer in the last step, or None
  quiet,     \* ticks since the station last announced itself by SHB or
             \* beacon, or could not for want of a fix (history); None when
             \* beaconing has not begun or has stopped
  seen,      \* identifier -> times forwarded, up to 2 (history)
  forgotten  \* identifiers that have left a duplicate packet list (history)

air == <<out, quiet, seen>>
vars == <<mib, addr, here, fix, sn, table, buffer, cbf, beacon, pending, flushing, indicated,
          air, forgotten>>

\* Identifiers of the packets this station may be asked to forward
Ids == {<<p.src, p.sn>> : p \in {q \in Inputs : q.kind \in {"gbc", "tsb"} /\ ~q.stop}}
Id(p) == <<p.src, p.sn>>
Own(p) == p.from = None
Inside == here = 0
Idle == flushing = <<>> /\ ~indicated

-----------------------------------------------------------------------------
(* Location table.  An entry lives until ttl is below 0.                   *)

Live(t, s) == t[s] # None /\ t[s].ttl >= 0
IsNeighbour(t, s) == Live(t, s) /\ t[s].nb > 0
HasNeighbours(t) == \E s \in Peers : IsNeighbour(t, s)
Position(t, s) == IF Live(t, s) THEN t[s].pos ELSE None
DropExpired(t) == [s \in Peers |-> IF Live(t, s) THEN t[s] ELSE None]

NewEntry == [ttl |-> LocTeLifetime, nb |-> 0, pos |-> None, dpl |-> <<>>]
Entry(t, s) == IF Live(t, s) THEN t[s] ELSE NewEntry

\* update(): an entry without position is refreshed anyway, one with a
\* position only by a newer and valid one
UpdatePosition(e, pos, newer) ==
  IF e.pos = None THEN [e EXCEPT !.ttl = LocTeLifetime, !.pos = pos]
  ELSE IF newer /\ pos # None THEN [e EXCEPT !.ttl = LocTeLifetime, !.pos = pos]
  ELSE e

SetNeighbour(e) == [e EXCEPT !.nb = IF NeighbourExpiry = 0 THEN 1 ELSE NeighbourExpiry]

Duplicate(e, n) == \E i \in DOMAIN e.dpl : e.dpl[i] = n

\* DuplicatePacketList::check() of a new number: the oldest gives way
Remember(e, n) ==
  [e EXCEPT !.dpl = Append(IF Len(@) < DplLength THEN @ ELSE Tail(@), n)]

\* What is in the lists of t
Listed(t) == {id \in Ids : t[id[1]] # None /\ Duplicate(t[id[1]], id[2])}

-----------------------------------------------------------------------------
(* Forwarding buffer.  expires_at is buffered_since plus the lifetime, so a *)
(* packet is expired when it has been queued for longer than its lifetime.  *)

Expired(p) == p.queued > p.life

\* PacketBuffer::drop_expired()
Unexpired(b) == Selected(b, {i \in DOMAIN b : ~Expired(b[i])})

\* Deviation: nothing makes room.
Pushed_NoRoom(b, p) == Append(Unexpired(b), p)
\* PacketBuffer::push(): expired packets go, then the head if there is no room
Pushed(b, p) ==
  LET valid == Unexpired(b)
  IN  Append(IF Len(valid) < BufferSize THEN valid ELSE Tail(valid), p)

Store(p, stage) ==
  /\ buffer' = Pushed(buffer, [p EXCEPT !.stage = stage])
  /\ UNCHANGED <<cbf, beacon, quiet, seen>>
  /\ out' = None

\* PacketBuffer::flush() takes all packets out first: forwarding them may put
\* some back.
StartFlush == flushing' = buffer /\ buffer' = <<>>

-----------------------------------------------------------------------------
(* Transmission.                                                           *)

BeaconDelays == Retransmit .. Retransmit + MaxJitter

\* encapsulate_packet() refuses while a change is pending, and may refuse for
\* reasons of its own (no ticket, no permission)
MaySign(signed) == pending => ~signed

Frame(p, so) == [kind |-> p.kind, so |-> so, mac |-> addr, own |-> Own(p),
                 left |-> p.left]

\* Deviation: the position vector of the request is sent.
SourceOf_Requested(p) == p.src
\* The source position vector is updated before actual transmission.
SourceOf(p) == IF Own(p) THEN addr ELSE p.src

\* Deviation: an SHB packet does not restart the beacon timer.
ResetsBeacon_Never(p) == FALSE
\* Deviation: every packet restarts the beacon timer.
ResetsBeacon_Any(p) == TRUE
ResetsBeacon(p) == p.kind = "shb"

\* The transmit functions of request() and process_extended()
Transmit(p) ==
  /\ UNCHANGED <<buffer, cbf>>
  /\ \E signed \in BOOLEAN :
       /\ MaySign(signed)
       /\ IF Own(p) /\ ~signed
          THEN out' = None /\ UNCHANGED <<beacon, quiet, seen>>
          ELSE /\ out' = Frame(p, SourceOf(p))
               /\ IF ResetsBeacon(p)
                  THEN beacon' \in BeaconDelays
                  ELSE UNCHANGED beacon
               /\ quiet' = IF p.kind = "shb" THEN 0 ELSE quiet
               /\ seen' = IF Own(p) THEN seen
                          ELSE [seen EXCEPT ![Id(p)] = IF @ = 2 THEN 2 ELSE @ + 1]

Discard == UNCHANGED <<buffer, cbf, beacon, quiet, seen>> /\ out' = None

Contend(p) == cbf' = cbf \cup {p} /\ UNCHANGED <<buffer, beacon, quiet, seen>> /\ out' = None
Suppress(p) ==
  /\ cbf' = {q \in cbf : Id(q) # Id(p)}
  /\ UNCHANGED <<buffer, beacon, quiet, seen>> /\ out' = None
Contending(p) == \E q \in cbf : Id(q) = Id(p)

\* greedy_forwarding(): whether some neighbour is closer to the area
Progress(t) == \E s \in Peers : /\ IsNeighbour(t, s)
                                /\ t[s].pos # None
                                /\ t[s].pos.dist < here

Greedy(p, t) == IF ~Progress(t) /\ p.scf THEN Store(p, "greedy") ELSE Transmit(p)

\* area_contention_based_forwarding(); the counter of a packet that is not
\* contending is 0
AreaCbf(p) ==
  IF Own(p) THEN Transmit(p)
  ELSE IF Contending(p) THEN Suppress(p) ELSE Contend(p)

\* non_area_contention_based_forwarding()
NonAreaCbf(p, pos) ==
  IF Own(p) THEN Transmit(p)
  ELSE IF Contending(p) THEN Suppress(p)
  ELSE IF pos # None /\ pos.pai /\ pos.dist <= here THEN Discard ELSE Contend(p)

\* forwarding_algorithm_selection(): packets of senders known to be inside
\* the area are not meant for those outside
Forward(p, t) ==
  LET pos == IF Own(p) THEN None ELSE Position(t, p.from) IN
  IF Inside THEN IF mib.area = "SIMPLE" THEN Transmit(p) ELSE AreaCbf(p)
  ELSE IF pos # None /\ pos.pai /\ pos.dist = 0 THEN Discard
  ELSE IF mib.non_area = "GREEDY" THEN Greedy(p, t) ELSE NonAreaCbf(p, pos)

\* Deviation: a flush stores a packet again when there is still no neighbour.
Process_Again(p, t) ==
  IF p.scf /\ ~HasNeighbours(t) THEN Store(p, p.stage)
  ELSE IF p.stage = "forward" THEN Forward(p, t) ELSE Transmit(p)
\* What a packet waits for is what was left to do with it.
Process(p, t) ==
  CASE p.stage = "transmit" -> Transmit(p)
    [] p.stage = "forward"  -> Forward(p, t)
    [] p.stage = "greedy"   -> Greedy(p, t)

\* Step 10 of the forwarder, step 2 or 3 of the source: without neighbours a
\* packet that may wait is stored
StoreOrProcess(p, t) ==
  IF p.scf /\ ~HasNeighbours(t) THEN Store(p, p.stage) ELSE Process(p, t)

-----------------------------------------------------------------------------
(* Indications.                                                            *)

\* indicate_common(): the table is cleaned up and the buffer flushed before
\* the packet is looked at
Indicate ==
  /\ Idle
  /\ indicated' = TRUE
  /\ table' = DropExpired(table)
  /\ forgotten' = forgotten \cup (Listed(table) \ Listed(table'))
  /\ StartFlush
  /\ out' = None
  /\ UNCHANGED <<mib, addr, here, fix, sn, cbf, beacon, pending, quiet, seen>>

\* One turn of the loop in PacketBuffer::flush()
Flush ==
  /\ flushing # <<>>
  /\ flushing' = Tail(flushing)
  /\ LET p == Head(flushing) IN
     IF Expired(p) THEN Discard
     ELSE Process([p EXCEPT !.life = ReducedLifetime(p.life, p.queued), !.queued = 0], table)
  /\ UNCHANGED <<mib, addr, here, fix, sn, table, pending, indicated, forgotten>>

Received == indicated /\ flushing = <<>> /\ indicated' = FALSE

\* process_extended() of SHB and Beacon: the sender is a neighbour
IndicateSingleHop(rx) ==
  /\ Received /\ rx.kind = "single"
  /\ table' = [table EXCEPT ![rx.src] =
                 SetNeighbour(UpdatePosition(Entry(table, rx.src), rx.pos, rx.newer))]
  /\ Discard
  /\ UNCHANGED <<mib, addr, here, fix, sn, pending, flushing, forgotten>>

\* Deviation: duplicates are only looked for inside the area.
ChecksDuplicates_Inside(rx) == rx.kind = "tsb" \/ (Inside /\ mib.area = "SIMPLE")
\* Contention based forwarding needs duplicates; TSB and the other algorithms
\* drop them.
ChecksDuplicates(rx) ==
  \/ rx.kind = "tsb"
  \/ Inside /\ mib.area = "SIMPLE"
  \/ ~Inside /\ mib.non_area = "GREEDY"

Incoming(p) == [kind |-> p.kind, src |-> p.src, from |-> p.from, sn |-> p.sn,
                scf |-> p.scf, life |-> p.life, queued |-> 0, left |-> p.life,
                stage |-> IF p.kind = "gbc" THEN "forward" ELSE "transmit"]

\* process_extended() of GBC and TSB.  stop stands for an exhausted hop limit,
\* an oversized area or an excessive data rate.
IndicateMultiHop(rx) ==
  LET e == Entry(table, rx.src)
      known == ChecksDuplicates(rx) /\ Duplicate(e, rx.sn)
      listed == IF ChecksDuplicates(rx) THEN Remember(e, rx.sn) ELSE e
  IN
  /\ Received /\ rx.kind \in {"gbc", "tsb"}
  /\ IF known THEN Discard /\ UNCHANGED table
     ELSE /\ table' = [table EXCEPT ![rx.src] = UpdatePosition(listed, rx.pos, rx.newer)]
          /\ IF rx.stop THEN Discard ELSE StoreOrProcess(Incoming(rx), table')
  /\ forgotten' = forgotten \cup (Listed(table) \ Listed(table'))
  /\ UNCHANGED <<mib, addr, here, fix, sn, pending, flushing>>

\* A malformed extended header or payload is noticed after the flush.
IndicateMalformed(rx) ==
  /\ Received /\ rx.kind = "malformed"
  /\ Discard
  /\ UNCHANGED <<mib, addr, here, fix, sn, table, pending, flushing, forgotten>>

-----------------------------------------------------------------------------
(* Requests, timers, position and identifier.                              *)

\* Stack::request() and Router::request(): refused while a change is pending
\* and before the first position fix
Request(r) ==
  LET p == [kind |-> r.kind, src |-> addr, from |-> None, sn |-> sn, scf |-> r.scf,
            life |-> r.life, queued |-> 0, left |-> r.life,
            stage |-> IF r.kind = "gbc" THEN "forward" ELSE "transmit"]
  IN
  /\ Idle /\ fix /\ ~pending
  /\ IF r.kind = "gbc" THEN sn < MaxRequests /\ sn' = sn + 1 ELSE UNCHANGED sn
  /\ StoreOrProcess(p, table)
  /\ UNCHANGED <<mib, addr, here, fix, table, pending, flushing, indicated, forgotten>>

\* on_beacon_timer_expired().  A refused signature ends beaconing until the
\* next SHB packet is sent.
BeaconTimer ==
  /\ Idle /\ beacon = 0
  /\ \/ /\ ~fix
        /\ beacon' \in BeaconDelays
        /\ out' = None /\ quiet' = 0
     \/ /\ fix /\ MaySign(FALSE)
        /\ beacon' = None
        /\ out' = None /\ quiet' = None
     \/ /\ fix /\ MaySign(TRUE)
        /\ beacon' \in BeaconDelays
        /\ out' = [kind |-> "beacon", so |-> addr, mac |-> addr, own |-> TRUE, left |-> 0]
        /\ quiet' = 0
  /\ UNCHANGED <<mib, addr, here, fix, sn, table, buffer, cbf, pending, flushing, indicated,
                 seen, forgotten>>

\* The contention timer of a packet expires: it is sent if it has lifetime left.
CbfTimer(p) ==
  /\ Idle /\ p \in cbf
  /\ cbf' = cbf \ {p}
  /\ IF p.queued < p.life
     THEN /\ out' = Frame(p, p.src)
          /\ seen' = [seen EXCEPT ![Id(p)] = IF @ = 2 THEN 2 ELSE @ + 1]
     ELSE out' = None /\ UNCHANGED seen
  /\ UNCHANGED <<mib, addr, here, fix, sn, table, buffer, beacon, pending, flushing, indicated,
                 quiet, forgotten>>

\* The contention buffer drops a packet to make room.
CbfDrop(p) ==
  /\ Idle /\ p \in cbf
  /\ cbf' = cbf \ {p}
  /\ out' = None
  /\ UNCHANGED <<mib, addr, here, fix, sn, table, buffer, beacon, pending, flushing, indicated,
                 quiet, seen, forgotten>>

\* update_position()
PositionFix(d) ==
  /\ Idle
  /\ here' = d /\ fix' = TRUE
  /\ out' = None
  /\ UNCHANGED <<mib, addr, sn, table, buffer, cbf, beacon, pending, flushing, indicated,
                 quiet, seen, forgotten>>

\* on_id_change(): PREPARE flushes the buffers, signing is already refused
Prepare ==
  /\ Idle /\ ~pending
  /\ pending' = TRUE
  /\ StartFlush
  /\ out' = None
  /\ UNCHANGED <<mib, addr, here, fix, sn, table, cbf, beacon, indicated, quiet, seen, forgotten>>

\* COMMIT, ABORT and DEREG
EndChange ==
  /\ Idle /\ pending
  /\ pending' = FALSE
  /\ addr' \in Addresses
  /\ out' = None
  /\ UNCHANGED <<mib, here, fix, sn, table, buffer, cbf, beacon, flushing, indicated, quiet,
                 seen, forgotten>>

\* Bound: silence is only told up to this long.
MaxQuiet == Retransmit + MaxJitter + 1

\* Nothing tells apart how long a packet has been expired.
Aged(p) == [p EXCEPT !.queued = IF Expired(p) THEN @ ELSE @ + 1,
                     !.left = IF @ < 0 THEN @ ELSE @ - 1]
AgedEntry(e) == [e EXCEPT !.ttl = IF @ < 0 THEN @ ELSE @ - 1,
                          !.nb = IF NeighbourExpiry = 0 \/ @ = 0 THEN @ ELSE @ - 1]

\* Time passes; a due timer is called first
Tick ==
  /\ Idle /\ beacon # 0
  /\ beacon' = IF beacon = None THEN None ELSE beacon - 1
  /\ quiet' = IF quiet \in {MaxQuiet, None} THEN quiet ELSE quiet + 1
  /\ table' = [s \in Peers |-> IF table[s] = None THEN None ELSE AgedEntry(table[s])]
  /\ buffer' = [i \in DOMAIN buffer |-> Aged(buffer[i])]
  /\ cbf' = {Aged(p) : p \in cbf}
  /\ out' = None
  /\ UNCHANGED <<mib, addr, here, fix, sn, pending, flushing, indicated, seen, forgotten>>

Init ==
  /\ mib \in Algorithms /\ addr \in Addresses
  /\ here \in Distances /\ fix = FALSE /\ sn = 0
  /\ table = [s \in Peers |-> None]
  /\ buffer = <<>> /\ cbf = {}
  /\ beacon = 0 /\ pending = FALSE
  /\ flushing = <<>> /\ indicated = FALSE
  /\ out = None /\ quiet = None
  /\ seen = [id \in Ids |-> 0] /\ forgotten = {}

Next ==
  \/ Indicate
  \/ Flush
  \/ \E rx \in Inputs : IndicateSingleHop(rx)
  \/ \E rx \in Inputs : IndicateMultiHop(rx)
  \/ \E rx \in Inputs : IndicateMalformed(rx)
  \/ \E r \in Requests : Request(r)
  \/ BeaconTimer
  \/ \E p \in cbf : CbfTimer(p)
  \/ \E p \in cbf : CbfDrop(p)
  \/ \E d \in Distances : PositionFix(d)
  \/ Prepare
  \/ EndChange
  \/ Tick

Spec == Init /\ [][Next]_vars

-----------------------------------------------------------------------------
(* Properties.                                                             *)

PacketType ==
  [kind : {"shb", "gbc", "tsb"}, src : Peers \cup Addresses, from : Peers \cup {None},
   sn : Nat, scf : BOOLEAN, life : Nat, queued : Nat, left : Int,
   stage : {"transmit", "forward", "greedy"}]
FrameType == [kind : {"shb", "gbc", "tsb", "beacon"}, so : Peers \cup Addresses,
              mac : Addresses, own : BOOLEAN, left : Int]

\* Every variable has its type; a duplicate packet list never outgrows
\* itsGnDPLLength, nor the forwarding buffer its capacity, packets that a flush
\* has taken out and may put back included.
TypeOK ==
  /\ mib \in Algorithms /\ addr \in Addresses
  /\ here \in Distances /\ fix \in BOOLEAN /\ sn \in 0 .. MaxRequests
  /\ table \in [Peers -> EntryType \cup {None}]
  /\ \A s \in Peers : table[s] # None => Len(table[s].dpl) <= DplLength
  /\ buffer \in Seq(PacketType) /\ flushing \in Seq(PacketType)
  /\ Len(buffer) + Len(flushing) <= BufferSize
  /\ cbf \subseteq PacketType
  /\ beacon \in Nat \cup {None} /\ pending \in BOOLEAN
  /\ indicated \in BOOLEAN
  /\ out \in FrameType \cup {None}
  /\ quiet \in (0 .. MaxQuiet) \cup {None}
  /\ seen \in [Ids -> 0 .. 2] /\ forgotten \subseteq Ids

\* Duplicate packet detection: a station that does not use contention sends a
\* packet on at most once, although copies arrive from several neighbours,
\* wait in the forwarding buffer and are looked at again by every flush, and
\* although the station may cross the border of the area in between, unless
\* its duplicate packet list has lost the packet.
ForwardedOnce ==
  mib = [area |-> "SIMPLE", non_area |-> "GREEDY"]
    => \A id \in Ids : seen[id] = 2 => id \in forgotten

\* A station never sends a frame of its own under an identifier it no longer
\* uses, nor one while a change is pending: not even a packet requested, and
\* stored, before the change.
OwnFramesAreCurrent ==
  [][out' # None /\ out'.own => out'.so = addr' /\ out'.mac = addr' /\ ~pending]_vars

\* A flush leaves nothing behind but packets for which greedy forwarding
\* still knows no next hop.
FlushLeavesOnlyGreedy ==
  indicated /\ flushing = <<>>
    => \A i \in DOMAIN buffer : buffer[i].stage = "greedy" /\ ~Progress(table)

\* SHB packets stand in for beacons: a beacon is sent only when nothing else
\* has announced the station for a retransmit period.
BeaconsAreSpaced ==
  [][out' # None /\ out'.kind = "beacon" /\ quiet # None
       => quiet >= Retransmit]_vars

\* As long as the beacon timer is scheduled the station is never silent for
\* longer than the retransmit period and the jitter.
SilenceIsBounded ==
  beacon # None /\ quiet # None => quiet + beacon <= Retransmit + MaxJitter

(* What the documentation says and the code does not do.                   *)

\* packet_buffer.hpp: "Flush packets from buffer. Expired packets are
\* dropped."  A packet stored again by each flush has its lifetime rounded up
\* each time.
NothingExpiredIsSent == out # None => out.left >= 0
=============================================================================
