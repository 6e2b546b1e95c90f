---------------------------- MODULE RouterProofs ----------------------------
(***************************************************************************)
(* Proofs about Router, for any peers, packets received and requested,     *)
(* algorithms, timer settings, buffer sizes and list lengths.              *)
(***************************************************************************)
EXTENDS Router, SelectionProofs, SequenceTheorems, TLAPS

-----------------------------------------------------------------------------
(* The operators of the model.                                             *)

\* Dividing by a positive number a number that is not negative.
LEMMA QuotientType ==
  ASSUME NEW a \in Nat, NEW b \in Nat \ {0}
  PROVE  a \div b \in Nat
<1>1. /\ a \div b \in Int /\ a % b \in 0 .. b - 1
      /\ a = b * (a \div b) + (a % b)
  OBVIOUS
<1> QED
  BY <1>1

LEMMA EncodeType ==
  ASSUME NEW d \in Nat
  PROVE  Encode(d) \in Nat
<1> DEFINE steps == (2 * d + Quantum) \div (2 * Quantum)
<1>1. steps \in Nat /\ Quantum \in Nat
  BY QuantumAssumption, QuotientType
<1> HIDE DEF steps
<1>2. steps * Quantum \in Nat
  BY <1>1
<1> QED
  BY <1>2 DEF Encode, steps

LEMMA ReducedLifetimeType ==
  ASSUME NEW life \in Nat, NEW queued \in Nat
  PROVE  ReducedLifetime(life, queued) \in Nat
<1>1. queued < life => Encode(life - queued) \in Nat
  BY EncodeType
<1> QED
  BY <1>1 DEF ReducedLifetime

\* All but the last packet of r come from distinct places of b.
From(b, r, e) ==
  \A i \in 1 .. Len(r) - 1 : /\ e[i] \in 1 .. Len(b) /\ r[i] = b[e[i]]
                             /\ \A j \in 1 .. Len(r) - 1 : e[i] = e[j] => i = j

\* PacketBuffer::push(): the packets that stay are packets of before, in
\* distinct places, and the new one is at the end.
LEMMA PushedPlaces ==
  ASSUME NEW b \in Seq(PacketType), NEW p \in PacketType
  PROVE  LET r == Pushed(b, p) IN
         /\ r \in Seq(PacketType) /\ Len(r) \in Nat \ {0} /\ Len(r) <= Len(b) + 1
         /\ Len(b) <= BufferSize => Len(r) <= BufferSize
         /\ r[Len(r)] = p
         /\ \E e : From(b, r, e)
<1> DEFINE I == {i \in DOMAIN b : ~Expired(b[i])}
           valid == Unexpired(b)
           room == IF Len(valid) < BufferSize THEN valid ELSE Tail(valid)
           r == Append(room, p)
<1>1. PICK e : Places(PacketType, b, I, Len(b), valid, e)
  BY SelectedPlaces DEF Unexpired
<1>2. /\ valid \in Seq(PacketType) /\ Len(valid) \in Nat /\ Len(valid) <= Len(b) /\ Len(b) \in Nat
      /\ \A i \in 1 .. Len(valid) : e[i] \in 1 .. Len(b) /\ valid[i] = b[e[i]]
      /\ \A i, j \in 1 .. Len(valid) : i < j => e[i] < e[j]
  BY <1>1, LenProperties DEF Places
<1> HIDE DEF valid
<1>3. \A i, j \in 1 .. Len(valid) : e[i] = e[j] => i = j
  BY <1>2
<1> DEFINE shift == IF Len(valid) < BufferSize THEN 0 ELSE 1
           f == [i \in 1 .. Len(room) |-> e[i + shift]]
<1>4. /\ room \in Seq(PacketType) /\ Len(room) = Len(valid) - shift /\ Len(room) \in Nat
      /\ \A i \in 1 .. Len(room) : room[i] = valid[i + shift]
  <2>1. CASE Len(valid) < BufferSize
    BY <1>2, <2>1
  <2>2. CASE ~(Len(valid) < BufferSize)
    <3>1. valid # <<>>
      BY <1>2, <2>2, RouterAssumption, EmptySeq
    <3>2. /\ Tail(valid) \in Seq(PacketType) /\ Len(Tail(valid)) = Len(valid) - 1
          /\ \A i \in 1 .. Len(Tail(valid)) : Tail(valid)[i] = valid[i + 1]
      BY <1>2, <3>1, HeadTailProperties
    <3> QED
      BY <1>2, <2>2, <3>2, LenProperties
  <2> QED
    BY <2>1, <2>2
<1>5. Len(b) <= BufferSize => Len(room) < BufferSize
  BY <1>2, <1>4, RouterAssumption
<1>6. shift \in {0, 1}
  OBVIOUS
<1> HIDE DEF room, shift
<1>7. \A i \in 1 .. Len(room) : /\ i + shift \in 1 .. Len(valid) /\ f[i] = e[i + shift]
                                /\ room[i] = b[f[i]] /\ f[i] \in 1 .. Len(b)
  BY <1>2, <1>4, <1>6
<1> HIDE DEF f
<1>8. \A i, j \in 1 .. Len(room) : f[i] = f[j] => i = j
  BY <1>3, <1>4, <1>6, <1>7, SMTT(30)
<1>9. /\ r \in Seq(PacketType) /\ Len(r) = Len(room) + 1
      /\ \A i \in 1 .. Len(room) : r[i] = room[i]
      /\ r[Len(r)] = p
  BY <1>4, AppendProperties
<1>10. r = Pushed(b, p)
  BY DEF Pushed, room, valid
<1> HIDE DEF r
<1>11. Len(r) \in Nat \ {0} /\ Len(r) <= Len(b) + 1 /\ (Len(b) <= BufferSize => Len(r) <= BufferSize)
  BY <1>2, <1>4, <1>5, <1>6, <1>9, RouterAssumption
<1>12. From(b, r, f)
  <2>1. 1 .. Len(r) - 1 = 1 .. Len(room)
    BY <1>4, <1>9
  <2> QED
    BY <1>7, <1>8, <1>9, <2>1 DEF From
<1> QED
  BY <1>9, <1>10, <1>11, <1>12

-----------------------------------------------------------------------------
(* What may become of a packet.                                            *)

\* Neither algorithm lets packets contend.
Plain == [area |-> "SIMPLE", non_area |-> "GREEDY"]
Stages == {"transmit", "forward", "greedy"}

ForwardedByCbf(p) == ~Own(p) /\ mib # Plain /\ (Contend(p) \/ Suppress(p))

LEMMA ProcessOutcomes ==
  ASSUME NEW p \in PacketType, NEW t, Process(p, t)
  PROVE  Transmit(p) \/ Discard \/ (Store(p, "greedy") /\ ~Progress(t)) \/ ForwardedByCbf(p)
<1>1. p.stage \in Stages
  BY DEF PacketType, Stages
<1>2. ASSUME Greedy(p, t) PROVE Transmit(p) \/ (Store(p, "greedy") /\ ~Progress(t))
  BY <1>2 DEF Greedy
<1>3. ASSUME AreaCbf(p), mib # Plain PROVE Transmit(p) \/ ForwardedByCbf(p)
  BY <1>3 DEF AreaCbf, ForwardedByCbf
<1>4. ASSUME NEW pos, NonAreaCbf(p, pos), mib # Plain
      PROVE  Transmit(p) \/ Discard \/ ForwardedByCbf(p)
  BY <1>4 DEF NonAreaCbf, ForwardedByCbf
<1>5. (mib.area # "SIMPLE" \/ mib.non_area # "GREEDY") => mib # Plain
  BY DEF Plain
<1>6. ASSUME Forward(p, t)
      PROVE  Transmit(p) \/ Discard \/ (Store(p, "greedy") /\ ~Progress(t)) \/ ForwardedByCbf(p)
  <2>1. CASE Inside
    BY <1>3, <1>5, <1>6, <2>1 DEF Forward
  <2>2. CASE ~Inside
    BY <1>2, <1>4, <1>5, <1>6, <2>2 DEF Forward
  <2> QED
    BY <2>1, <2>2
<1>7. CASE p.stage = "transmit"
  BY <1>7 DEF Process
<1>8. CASE p.stage = "forward"
  BY <1>6, <1>8 DEF Process
<1>9. CASE p.stage = "greedy"
  BY <1>2, <1>9 DEF Process
<1> QED
  BY <1>1, <1>7, <1>8, <1>9 DEF Stages

Handled(p) ==
  Transmit(p) \/ Discard \/ (\E stage \in Stages : Store(p, stage)) \/ ForwardedByCbf(p)

LEMMA ProcessHandles ==
  ASSUME NEW p \in PacketType, NEW t, Process(p, t)
  PROVE  Handled(p)
BY ProcessOutcomes DEF Handled, Stages

LEMMA StoreOrProcessHandles ==
  ASSUME NEW p \in PacketType, NEW t, StoreOrProcess(p, t)
  PROVE  Handled(p)
<1>1. p.stage \in Stages
  BY DEF PacketType, Stages
<1> QED
  BY <1>1, ProcessHandles DEF StoreOrProcess, Handled

Upgraded(p, stage) == [p EXCEPT !.stage = stage]

LEMMA UpgradedType ==
  ASSUME NEW p \in PacketType, NEW stage \in Stages
  PROVE  /\ Upgraded(p, stage) \in PacketType /\ Upgraded(p, stage).stage = stage
         /\ Own(Upgraded(p, stage)) = Own(p) /\ Id(Upgraded(p, stage)) = Id(p)
BY DEF Upgraded, PacketType, Stages, Own, Id

-----------------------------------------------------------------------------
(* Types.                                                                  *)

BufferTypes ==
  /\ buffer \in Seq(PacketType) /\ flushing \in Seq(PacketType)
  /\ Len(buffer) + Len(flushing) <= BufferSize

AirTypes ==
  /\ cbf \subseteq PacketType
  /\ beacon \in Nat \cup {None}
  /\ out \in FrameType \cup {None}
  /\ quiet \in (0 .. MaxQuiet) \cup {None}
  /\ seen \in [Ids -> 0 .. 2]

TableTypes ==
  /\ table \in [Peers -> EntryType \cup {None}]
  /\ \A s \in Peers : table[s] # None => Len(table[s].dpl) <= DplLength

LEMMA FrameTypes ==
  ASSUME NEW p \in PacketType, addr \in Addresses
  PROVE  Frame(p, SourceOf(p)) \in FrameType /\ Frame(p, p.src) \in FrameType
<1>1. SourceOf(p) \in Peers \cup Addresses
  BY DEF SourceOf, PacketType
<1>2. /\ p.kind \in {"shb", "gbc", "tsb"} /\ p.src \in Peers \cup Addresses /\ p.left \in Int
      /\ Own(p) \in BOOLEAN
  BY DEF PacketType, Own
<1> QED
  BY <1>1, <1>2 DEF Frame, FrameType

LEMMA CountType ==
  ASSUME seen \in [Ids -> 0 .. 2], NEW id
  PROVE  [seen EXCEPT ![id] = IF @ = 2 THEN 2 ELSE @ + 1] \in [Ids -> 0 .. 2]
<1> DEFINE S == Ids
           new == IF seen[id] = 2 THEN 2 ELSE seen[id] + 1
<1>1. seen \in [S -> 0 .. 2]
  OBVIOUS
<1> HIDE DEF S
<1>2. id \in S => new \in 0 .. 2
  BY <1>1
<1> HIDE DEF new
<1>3. [seen EXCEPT ![id] = new] \in [S -> 0 .. 2]
  BY <1>1, <1>2
<1> QED
  BY <1>3 DEF S, new

LEMMA HandledTypes ==
  ASSUME TypeOK, NEW p \in PacketType, Handled(p)
  PROVE  /\ AirTypes'
         /\ buffer' \in Seq(PacketType)
         /\ Len(buffer') <= Len(buffer) + 1 /\ Len(buffer') <= BufferSize
<1>1. /\ buffer \in Seq(PacketType) /\ Len(buffer) \in Nat /\ Len(flushing) \in Nat
      /\ Len(buffer) <= BufferSize /\ BufferSize \in Nat
  BY LenProperties, RouterAssumption DEF TypeOK
<1>2. AirTypes /\ addr \in Addresses
  BY DEF TypeOK, AirTypes
<1>3. 0 \in 0 .. MaxQuiet /\ \A d \in BeaconDelays : d \in Nat
  BY RouterAssumption DEF MaxQuiet, BeaconDelays
<1>4. CASE Transmit(p)
  <2>1. UNCHANGED <<buffer, cbf>>
    BY <1>4 DEF Transmit
  <2>2. out' \in FrameType \cup {None}
    BY <1>2, <1>4, FrameTypes DEF Transmit
  <2>3. beacon' \in Nat \cup {None} /\ quiet' \in (0 .. MaxQuiet) \cup {None}
    BY <1>2, <1>3, <1>4 DEF Transmit, AirTypes
  <2>4. seen' \in [Ids -> 0 .. 2]
    BY <1>2, <1>4, CountType DEF Transmit, AirTypes
  <2>5. MaxQuiet' = MaxQuiet
    BY DEF MaxQuiet
  <2> QED
    BY <1>1, <1>2, <2>1, <2>2, <2>3, <2>4, <2>5 DEF AirTypes
<1>5. CASE Discard
  BY <1>1, <1>2, <1>5 DEF Discard, AirTypes, MaxQuiet
<1>6. ASSUME NEW stage \in Stages, Store(p, stage)
      PROVE  /\ AirTypes' /\ buffer' \in Seq(PacketType)
             /\ Len(buffer') <= Len(buffer) + 1 /\ Len(buffer') <= BufferSize
  <2>1. buffer' = Pushed(buffer, Upgraded(p, stage))
    BY <1>6 DEF Store, Upgraded
  <2>2. AirTypes'
    BY <1>2, <1>6 DEF Store, AirTypes, MaxQuiet
  <2> QED
    BY <1>1, <2>1, <2>2, PushedPlaces, UpgradedType
<1>7. CASE ForwardedByCbf(p)
  BY <1>1, <1>2, <1>7 DEF ForwardedByCbf, Contend, Suppress, AirTypes, MaxQuiet
<1> QED
  BY <1>4, <1>5, <1>6, <1>7 DEF Handled

-----------------------------------------------------------------------------
(* The location table.                                                     *)

Entries == {e \in EntryType : Len(e.dpl) <= DplLength}

LEMMA TableIsOfEntries ==
  /\ TableTypes <=> table \in [Peers -> Entries \cup {None}]
  /\ None \notin Entries
<1>1. None \notin EntryType
  BY InputAssumption
<1>2. \A e : e \in Entries <=> e \in EntryType /\ Len(e.dpl) <= DplLength
  BY DEF Entries
<1>3. ASSUME table \in [Peers -> EntryType \cup {None}]
      PROVE  TableTypes <=> table \in [Peers -> Entries \cup {None}]
  BY <1>1, <1>2, <1>3 DEF TableTypes
<1>4. table \in [Peers -> Entries \cup {None}] => table \in [Peers -> EntryType \cup {None}]
  BY <1>2
<1> QED
  BY <1>1, <1>2, <1>3, <1>4 DEF TableTypes

LEMMA EntryFields ==
  ASSUME NEW e \in Entries
  PROVE  /\ e \in EntryType
         /\ e.ttl \in Int /\ e.nb \in Nat /\ e.pos \in Positions
         /\ e.dpl \in Seq(Nat) /\ Len(e.dpl) \in Nat /\ Len(e.dpl) <= DplLength
BY LenProperties DEF Entries, EntryType

LEMMA UpdatedEntry ==
  ASSUME NEW e \in Entries, NEW pos \in Positions, NEW newer \in BOOLEAN
  PROVE  UpdatePosition(e, pos, newer) \in Entries /\ UpdatePosition(e, pos, newer).dpl = e.dpl
<1> DEFINE u == [e EXCEPT !.ttl = LocTeLifetime, !.pos = pos]
<1>1. u \in EntryType /\ u.dpl = e.dpl
  <2>1. e \in EntryType /\ LocTeLifetime \in Int
    BY EntryFields, RouterAssumption
  <2> QED
    BY <2>1 DEF EntryType
<1> HIDE DEF u
<1>2. u \in Entries
  BY <1>1, EntryFields DEF Entries
<1>3. UpdatePosition(e, pos, newer) \in {e, u}
  BY DEF UpdatePosition, u
<1> QED
  BY <1>1, <1>2, <1>3

LEMMA NeighbourEntry ==
  ASSUME NEW e \in Entries
  PROVE  SetNeighbour(e) \in Entries /\ SetNeighbour(e).dpl = e.dpl
<1>1. SetNeighbour(e) \in EntryType /\ SetNeighbour(e).dpl = e.dpl
  BY EntryFields, RouterAssumption DEF EntryType, SetNeighbour
<1> QED
  BY <1>1, EntryFields DEF Entries

LEMMA AgedEntryType ==
  ASSUME NEW e \in Entries
  PROVE  AgedEntry(e) \in Entries /\ AgedEntry(e).dpl = e.dpl
<1> DEFINE ttl == IF e.ttl < 0 THEN e.ttl ELSE e.ttl - 1
           nb == IF NeighbourExpiry = 0 \/ e.nb = 0 THEN e.nb ELSE e.nb - 1
<1>1. AgedEntry(e) \in EntryType /\ AgedEntry(e).dpl = e.dpl
  <2>1. e \in EntryType /\ ttl \in Int /\ nb \in Nat
    BY EntryFields
  <2>2. AgedEntry(e) = [e EXCEPT !.ttl = ttl, !.nb = nb]
    BY DEF AgedEntry
  <2> HIDE DEF ttl, nb
  <2> QED
    BY <2>1, <2>2 DEF EntryType
<1> QED
  BY <1>1, EntryFields DEF Entries

LEMMA RememberedEntry ==
  ASSUME NEW e \in Entries, NEW n \in Nat
  PROVE  Remember(e, n) \in Entries /\ Duplicate(Remember(e, n), n)
<1> DEFINE d == e.dpl
           room == IF Len(d) < DplLength THEN d ELSE Tail(d)
           dpl == Append(room, n)
<1>1. d \in Seq(Nat) /\ Len(d) \in Nat /\ Len(d) <= DplLength /\ DplLength \in Nat \ {0}
  BY EntryFields, RouterAssumption
<1> HIDE DEF d
<1>2. room \in Seq(Nat) /\ Len(room) \in Nat /\ Len(room) < DplLength
  BY <1>1, HeadTailProperties, EmptySeq
<1> HIDE DEF room
<1>3. /\ dpl \in Seq(Nat) /\ Len(dpl) = Len(room) + 1 /\ dpl[Len(room) + 1] = n
      /\ DOMAIN dpl = 1 .. Len(room) + 1
  BY <1>2, AppendProperties, LenProperties
<1> HIDE DEF dpl
<1>4. Remember(e, n) = [e EXCEPT !.dpl = dpl]
  BY DEF Remember, dpl, room, d
<1>5. [e EXCEPT !.dpl = dpl] \in EntryType /\ [e EXCEPT !.dpl = dpl].dpl = dpl
  BY <1>3, EntryFields DEF EntryType
<1>6. Len(dpl) <= DplLength /\ Len(room) + 1 \in 1 .. Len(room) + 1
  BY <1>1, <1>2, <1>3
<1> QED
  BY <1>3, <1>4, <1>5, <1>6 DEF Entries, Duplicate

LEMMA EntryIsEntry ==
  ASSUME TableTypes, NEW s \in Peers
  PROVE  Entry(table, s) \in Entries
<1>1. NewEntry \in EntryType /\ Len(NewEntry.dpl) <= DplLength
  BY EmptySeq, RouterAssumption DEF NewEntry, EntryType, Positions
<1>2. table[s] \in Entries \cup {None}
  BY TableIsOfEntries
<1> QED
  BY <1>1, <1>2 DEF Entries, Entry, Live

-----------------------------------------------------------------------------
(* Types, action by action.                                                *)

ControlTypes ==
  /\ mib \in Algorithms /\ addr \in Addresses
  /\ here \in Distances /\ fix \in BOOLEAN /\ sn \in 0 .. MaxRequests
  /\ pending \in BOOLEAN /\ indicated \in BOOLEAN
  /\ forgotten \subseteq Ids

LEMMA TypeParts == TypeOK <=> ControlTypes /\ TableTypes /\ BufferTypes /\ AirTypes
BY DEF TypeOK, ControlTypes, TableTypes, BufferTypes, AirTypes

LEMMA TypePartsNext == TypeOK' <=> ControlTypes' /\ TableTypes' /\ BufferTypes' /\ AirTypes'
BY DEF TypeOK, ControlTypes, TableTypes, BufferTypes, AirTypes

\* A packet that a flush looks at.
Resumed(p) == [p EXCEPT !.life = ReducedLifetime(p.life, p.queued), !.queued = 0]

LEMMA ResumedType ==
  ASSUME NEW p \in PacketType
  PROVE  /\ Resumed(p) \in PacketType
         /\ Own(Resumed(p)) = Own(p) /\ Id(Resumed(p)) = Id(p)
<1>1. p.life \in Nat /\ p.queued \in Nat
  BY DEF PacketType
<1>2. ReducedLifetime(p.life, p.queued) \in Nat
  BY <1>1, ReducedLifetimeType
<1> QED
  BY <1>2 DEF PacketType, Resumed, Own, Id

LEMMA IncomingType ==
  ASSUME NEW rx \in Inputs, rx.kind \in {"gbc", "tsb"}
  PROVE  /\ Incoming(rx) \in PacketType
         /\ ~Own(Incoming(rx)) /\ Id(Incoming(rx)) = <<rx.src, rx.sn>>
         /\ rx.src \in Peers /\ rx.sn \in Nat /\ rx.pos \in Positions /\ rx.newer \in BOOLEAN
<1>1. rx \in InputType
  BY InputAssumption
<1>2. /\ rx.src \in Peers /\ rx.from \in Peers /\ rx.sn \in Nat /\ rx.scf \in BOOLEAN
      /\ rx.life \in Nat /\ rx.pos \in Positions /\ rx.newer \in BOOLEAN /\ None \notin Peers
  BY <1>1, InputAssumption DEF InputType
<1> QED
  BY <1>2 DEF Incoming, PacketType, Own, Id

\* The packet a request makes.
Made(r) == [kind |-> r.kind, src |-> addr, from |-> None, sn |-> sn, scf |-> r.scf,
            life |-> r.life, queued |-> 0, left |-> r.life,
            stage |-> IF r.kind = "gbc" THEN "forward" ELSE "transmit"]

LEMMA MadeType ==
  ASSUME TypeOK, NEW r \in Requests
  PROVE  Made(r) \in PacketType /\ Own(Made(r))
<1>1. r \in RequestType
  BY InputAssumption
<1>2. r.kind \in {"shb", "gbc"} /\ r.scf \in BOOLEAN /\ r.life \in Nat
  BY <1>1 DEF RequestType
<1>3. addr \in Addresses /\ sn \in Nat
  BY RouterAssumption DEF TypeOK
<1> QED
  BY <1>2, <1>3 DEF Made, PacketType, Own

LEMMA AgedType ==
  ASSUME NEW p \in PacketType
  PROVE  /\ Aged(p) \in PacketType /\ Aged(p).stage = p.stage
         /\ Own(Aged(p)) = Own(p) /\ Id(Aged(p)) = Id(p)
<1> DEFINE queued == IF Expired(p) THEN p.queued ELSE p.queued + 1
           left == IF p.left < 0 THEN p.left ELSE p.left - 1
<1>1. queued \in Nat /\ left \in Int
  BY DEF PacketType
<1>2. Aged(p) = [p EXCEPT !.queued = queued, !.left = left]
  BY DEF Aged
<1> HIDE DEF queued, left
<1> QED
  BY <1>1, <1>2 DEF PacketType, Own, Id

LEMMA ListedType == Listed(table) \subseteq Ids
BY DEF Listed

LEMMA IndicateTypes ==
  ASSUME TypeOK, Indicate
  PROVE  TypeOK'
<1>1. AirTypes'
  BY TypeParts DEF AirTypes, Indicate, MaxQuiet
<1>2. BufferTypes'
  BY TypeParts, EmptySeq DEF BufferTypes, Indicate, StartFlush, Idle
<1>3. ControlTypes'
  BY TypeParts, ListedType DEF ControlTypes, Indicate
<1>4. TableTypes'
  BY TypeParts DEF TableTypes, Indicate, DropExpired
<1> QED
  BY <1>1, <1>2, <1>3, <1>4, TypePartsNext

LEMMA FlushTypes ==
  ASSUME TypeOK, Flush
  PROVE  TypeOK'
<1> DEFINE p == Head(flushing)
<1>1. /\ flushing \in Seq(PacketType) /\ flushing # <<>>
      /\ Len(flushing) \in Nat /\ Len(buffer) \in Nat /\ BufferSize \in Nat
      /\ Len(buffer) + Len(flushing) <= BufferSize
  BY LenProperties, RouterAssumption DEF TypeOK, Flush
<1>2. p \in PacketType /\ Tail(flushing) \in Seq(PacketType)
      /\ Len(Tail(flushing)) = Len(flushing) - 1
  BY <1>1, HeadTailProperties
<1>3. Handled(Resumed(p))
  <2>1. CASE Expired(p)
    BY <2>1 DEF Flush, Handled
  <2>2. CASE ~Expired(p)
    <3>1. Process(Resumed(p), table)
      BY <2>2 DEF Flush, Resumed
    <3> QED
      BY <1>2, <3>1, ProcessHandles, ResumedType
  <2> QED
    BY <2>1, <2>2
<1>4. /\ AirTypes' /\ buffer' \in Seq(PacketType)
      /\ Len(buffer') <= Len(buffer) + 1 /\ Len(buffer') <= BufferSize
  BY <1>2, <1>3, HandledTypes, ResumedType
<1>5. BufferTypes'
  <2>1. flushing' = Tail(flushing)
    BY DEF Flush
  <2> QED
    BY <1>1, <1>2, <1>4, <2>1, LenProperties DEF BufferTypes
<1>6. ControlTypes' /\ TableTypes'
  BY TypeParts DEF ControlTypes, TableTypes, Flush
<1> QED
  BY <1>4, <1>5, <1>6, TypePartsNext

\* Putting an entry back into the table.
LEMMA EntryPutBack ==
  ASSUME TableTypes, NEW s \in Peers, NEW e \in Entries,
         table' = [table EXCEPT ![s] = e]
  PROVE  TableTypes'
<1>1. table' \in [Peers -> Entries \cup {None}]
  BY TableIsOfEntries
<1> QED
  BY <1>1, TableIsOfEntries DEF TableTypes, Entries

LEMMA SingleHopTypes ==
  ASSUME TypeOK, NEW rx \in Inputs, IndicateSingleHop(rx)
  PROVE  TypeOK'
<1>1. AirTypes' /\ BufferTypes'
  BY TypeParts DEF AirTypes, BufferTypes, IndicateSingleHop, Discard, MaxQuiet
<1>2. ControlTypes'
  BY TypeParts DEF ControlTypes, IndicateSingleHop, Received
<1>3. rx.src \in Peers /\ rx.pos \in Positions /\ rx.newer \in BOOLEAN
  BY InputAssumption DEF InputType
<1> DEFINE e == SetNeighbour(UpdatePosition(Entry(table, rx.src), rx.pos, rx.newer))
<1>4. e \in Entries
  BY <1>3, TypeParts, EntryIsEntry, UpdatedEntry, NeighbourEntry
<1>5. table' = [table EXCEPT ![rx.src] = e]
  BY DEF IndicateSingleHop
<1>6. TableTypes'
  BY <1>3, <1>4, <1>5, TypeParts, EntryPutBack
<1> QED
  BY <1>1, <1>2, <1>6, TypePartsNext

\* What process_extended() remembers of a packet it has not seen.
Noted(rx) ==
  UpdatePosition(IF ChecksDuplicates(rx) THEN Remember(Entry(table, rx.src), rx.sn)
                 ELSE Entry(table, rx.src), rx.pos, rx.newer)

\* The two ways process_extended() may take.
LEMMA MultiHopCases ==
  ASSUME TypeOK, NEW rx \in Inputs, IndicateMultiHop(rx)
  PROVE  /\ rx.kind \in {"gbc", "tsb"} /\ flushing = <<>> /\ indicated /\ indicated' = FALSE
         /\ Noted(rx) \in Entries
         /\ \/ /\ ChecksDuplicates(rx) /\ Duplicate(Entry(table, rx.src), rx.sn)
               /\ Discard /\ UNCHANGED table
            \/ /\ ~(ChecksDuplicates(rx) /\ Duplicate(Entry(table, rx.src), rx.sn))
               /\ table' = [table EXCEPT ![rx.src] = Noted(rx)]
               /\ Discard \/ (~rx.stop /\ Handled(Incoming(rx)))
<1>1. rx.kind \in {"gbc", "tsb"} /\ flushing = <<>> /\ indicated /\ indicated' = FALSE
  BY DEF IndicateMultiHop, Received
<1>2. /\ Incoming(rx) \in PacketType
      /\ rx.src \in Peers /\ rx.sn \in Nat /\ rx.pos \in Positions /\ rx.newer \in BOOLEAN
  BY <1>1, IncomingType
<1>3. Noted(rx) \in Entries
  <2>1. Entry(table, rx.src) \in Entries
    BY <1>2, TypeParts, EntryIsEntry
  <2>2. Remember(Entry(table, rx.src), rx.sn) \in Entries
    BY <1>2, <2>1, RememberedEntry
  <2> QED
    BY <1>2, <2>1, <2>2, UpdatedEntry DEF Noted
<1>4. StoreOrProcess(Incoming(rx), table') => Handled(Incoming(rx))
  BY <1>2, StoreOrProcessHandles
<1>5. CASE ChecksDuplicates(rx) /\ Duplicate(Entry(table, rx.src), rx.sn)
  BY <1>1, <1>3, <1>5 DEF IndicateMultiHop
<1>6. CASE ~(ChecksDuplicates(rx) /\ Duplicate(Entry(table, rx.src), rx.sn))
  <2>1. /\ table' = [table EXCEPT ![rx.src] = Noted(rx)]
        /\ IF rx.stop THEN Discard ELSE StoreOrProcess(Incoming(rx), table')
    BY <1>6 DEF IndicateMultiHop, Noted
  <2> QED
    BY <1>1, <1>3, <1>4, <1>6, <2>1
<1> QED
  BY <1>5, <1>6

LEMMA MultiHopTypes ==
  ASSUME TypeOK, NEW rx \in Inputs, IndicateMultiHop(rx)
  PROVE  TypeOK'
<1>1. rx.src \in Peers /\ Incoming(rx) \in PacketType
  BY MultiHopCases, IncomingType
<1>2. TableTypes'
  <2>1. CASE UNCHANGED table
    BY <2>1, TypeParts DEF TableTypes
  <2>2. CASE table' = [table EXCEPT ![rx.src] = Noted(rx)]
    BY <1>1, <2>2, TypeParts, MultiHopCases, EntryPutBack
  <2> QED
    BY <2>1, <2>2, MultiHopCases
<1>3. flushing' = flushing /\ flushing = <<>>
  BY MultiHopCases DEF IndicateMultiHop
<1>4. ControlTypes'
  <2>1. indicated' = FALSE
    BY MultiHopCases
  <2>2. forgotten' \subseteq Ids
    BY TypeParts, ListedType DEF ControlTypes, IndicateMultiHop
  <2>3. UNCHANGED <<mib, addr, here, fix, sn, pending>>
    BY DEF IndicateMultiHop
  <2> QED
    BY <2>1, <2>2, <2>3, TypeParts DEF ControlTypes
<1>5. AirTypes' /\ BufferTypes'
  <2>1. CASE Discard
    BY <1>3, <2>1, TypeParts DEF AirTypes, BufferTypes, Discard, MaxQuiet
  <2>2. CASE Handled(Incoming(rx))
    <3>1. /\ AirTypes' /\ buffer' \in Seq(PacketType) /\ Len(buffer') <= BufferSize
      BY <1>1, <2>2, HandledTypes
    <3>2. flushing' \in Seq(PacketType) /\ Len(flushing') = 0 /\ Len(buffer') \in Nat
      BY <1>3, <3>1, EmptySeq, LenProperties
    <3>3. Len(buffer') + Len(flushing') <= BufferSize
      BY <3>1, <3>2, RouterAssumption
    <3> QED
      BY <3>1, <3>2, <3>3 DEF BufferTypes
  <2> QED
    BY <2>1, <2>2, MultiHopCases
<1> QED
  BY <1>2, <1>4, <1>5, TypePartsNext

LEMMA RequestTypes ==
  ASSUME TypeOK, NEW r \in Requests, Request(r)
  PROVE  TypeOK'
<1>1. Made(r) \in PacketType /\ StoreOrProcess(Made(r), table)
  BY MadeType DEF Request, Made
<1>2. /\ AirTypes' /\ buffer' \in Seq(PacketType) /\ Len(buffer') <= BufferSize
  BY <1>1, StoreOrProcessHandles, HandledTypes
<1>3. flushing' = <<>>
  BY DEF Request, Idle
<1>4. flushing' \in Seq(PacketType) /\ Len(flushing') = 0 /\ Len(buffer') \in Nat
  BY <1>2, <1>3, EmptySeq, LenProperties
<1>5. Len(buffer') + Len(flushing') <= BufferSize
  BY <1>2, <1>4, RouterAssumption
<1>6. sn' \in 0 .. MaxRequests
  BY RouterAssumption, TypeParts DEF Request, ControlTypes
<1>7. ControlTypes' /\ TableTypes'
  BY <1>6, TypeParts DEF ControlTypes, TableTypes, Request
<1> QED
  BY <1>2, <1>4, <1>5, <1>7, TypePartsNext DEF BufferTypes

LEMMA BeaconTypes ==
  ASSUME TypeOK, BeaconTimer
  PROVE  TypeOK'
<1>1. ControlTypes' /\ TableTypes' /\ BufferTypes'
  BY TypeParts DEF ControlTypes, TableTypes, BufferTypes, BeaconTimer
<1>2. 0 \in 0 .. MaxQuiet /\ \A d \in BeaconDelays : d \in Nat
  BY RouterAssumption DEF MaxQuiet, BeaconDelays
<1>3. [kind |-> "beacon", so |-> addr, mac |-> addr, own |-> TRUE, left |-> 0] \in FrameType
  BY TypeParts DEF ControlTypes, FrameType
<1>4. /\ beacon' \in Nat \cup {None} /\ quiet' \in (0 .. MaxQuiet) \cup {None}
      /\ out' \in FrameType \cup {None}
  BY <1>2, <1>3 DEF BeaconTimer
<1>5. AirTypes'
  BY <1>4, TypeParts DEF AirTypes, BeaconTimer, MaxQuiet
<1> QED
  BY <1>1, <1>5, TypePartsNext

LEMMA CbfTimerTypes ==
  ASSUME TypeOK, NEW p \in cbf, CbfTimer(p)
  PROVE  TypeOK'
<1>1. ControlTypes' /\ TableTypes' /\ BufferTypes'
  BY TypeParts DEF ControlTypes, TableTypes, BufferTypes, CbfTimer
<1>2. p \in PacketType /\ addr \in Addresses /\ seen \in [Ids -> 0 .. 2]
  BY DEF TypeOK
<1>3. out' \in FrameType \cup {None} /\ seen' \in [Ids -> 0 .. 2]
  BY <1>2, FrameTypes, CountType DEF CbfTimer
<1>4. AirTypes'
  BY <1>3, TypeParts DEF AirTypes, CbfTimer, MaxQuiet
<1> QED
  BY <1>1, <1>4, TypePartsNext

LEMMA TickTypes ==
  ASSUME TypeOK, Tick
  PROVE  TypeOK'
<1>1. ControlTypes'
  BY TypeParts DEF ControlTypes, Tick
<1>2. TableTypes'
  <2>1. table \in [Peers -> Entries \cup {None}]
    BY TypeParts, TableIsOfEntries
  <2>2. \A s \in Peers : (IF table[s] = None THEN None ELSE AgedEntry(table[s])) \in Entries \cup {None}
    BY <2>1, AgedEntryType
  <2>3. table' \in [Peers -> Entries \cup {None}]
    BY <2>2 DEF Tick
  <2> QED
    BY <2>3, TableIsOfEntries DEF TableTypes, Entries
<1>3. BufferTypes'
  <2>1. /\ buffer \in Seq(PacketType) /\ Len(buffer) \in Nat /\ DOMAIN buffer = 1 .. Len(buffer)
        /\ \A i \in 1 .. Len(buffer) : buffer[i] \in PacketType
    BY LenProperties, ElementOfSeq, TypeParts DEF BufferTypes
  <2>2. \A i \in 1 .. Len(buffer) : Aged(buffer[i]) \in PacketType
    BY <2>1, AgedType
  <2>3. buffer' = [i \in 1 .. Len(buffer) |-> Aged(buffer[i])]
    BY <2>1 DEF Tick
  <2>4. buffer' \in [1 .. Len(buffer) -> PacketType]
    BY <2>2, <2>3
  <2>5. buffer' \in Seq(PacketType) /\ Len(buffer') = Len(buffer)
    BY <2>1, <2>4
  <2> QED
    BY <2>5, TypeParts DEF BufferTypes, Tick
<1>4. AirTypes'
  <2>1. cbf' \subseteq PacketType
    BY TypeParts, AgedType DEF Tick, AirTypes
  <2>2. beacon' \in Nat \cup {None}
    BY TypeParts DEF Tick, AirTypes
  <2>3. quiet' \in (0 .. MaxQuiet) \cup {None}
    BY TypeParts, RouterAssumption DEF Tick, AirTypes, MaxQuiet
  <2> QED
    BY <2>1, <2>2, <2>3, TypeParts DEF AirTypes, Tick, MaxQuiet
<1> QED
  BY <1>1, <1>2, <1>3, <1>4, TypePartsNext

LEMMA InitTypes == Init => TypeOK
<1> SUFFICES ASSUME Init PROVE TypeOK
  OBVIOUS
<1>1. ControlTypes
  <2>1. sn \in 0 .. MaxRequests
    BY RouterAssumption DEF Init
  <2> QED
    BY <2>1, Zenon DEF Init, ControlTypes
<1>2. TableTypes
  BY DEF Init, TableTypes
<1>3. BufferTypes
  BY EmptySeq, RouterAssumption DEF Init, BufferTypes
<1>4. AirTypes
  BY DEF Init, AirTypes
<1> QED
  BY <1>1, <1>2, <1>3, <1>4, TypeParts

LEMMA NextTypes == TypeOK /\ [Next]_vars => TypeOK'
<1> SUFFICES ASSUME TypeOK, [Next]_vars PROVE TypeOK'
  OBVIOUS
<1>1. CASE Indicate
  BY <1>1, IndicateTypes
<1>2. CASE Flush
  BY <1>2, FlushTypes
<1>3. ASSUME NEW rx \in Inputs, IndicateSingleHop(rx) PROVE TypeOK'
  BY <1>3, SingleHopTypes
<1>4. ASSUME NEW rx \in Inputs, IndicateMultiHop(rx) PROVE TypeOK'
  BY <1>4, MultiHopTypes
<1>5. ASSUME NEW rx \in Inputs, IndicateMalformed(rx) PROVE TypeOK'
  BY <1>5 DEF TypeOK, IndicateMalformed, Received, Discard, MaxQuiet
<1>6. ASSUME NEW r \in Requests, Request(r) PROVE TypeOK'
  BY <1>6, RequestTypes
<1>7. CASE BeaconTimer
  BY <1>7, BeaconTypes
<1>8. ASSUME NEW p \in cbf, CbfTimer(p) PROVE TypeOK'
  BY <1>8, CbfTimerTypes
<1>9. ASSUME NEW p \in cbf, CbfDrop(p) PROVE TypeOK'
  BY <1>9 DEF TypeOK, CbfDrop, MaxQuiet
<1>10. ASSUME NEW d \in Distances, PositionFix(d) PROVE TypeOK'
  BY <1>10 DEF TypeOK, PositionFix, MaxQuiet
<1>11. CASE Prepare
  <2>1. BufferTypes'
    BY <1>11, TypeParts, EmptySeq DEF BufferTypes, Prepare, StartFlush, Idle
  <2>2. ControlTypes' /\ TableTypes' /\ AirTypes'
    BY <1>11, TypeParts DEF ControlTypes, TableTypes, AirTypes, Prepare, MaxQuiet
  <2> QED
    BY <2>1, <2>2, TypePartsNext
<1>12. CASE EndChange
  BY <1>12 DEF TypeOK, EndChange, MaxQuiet
<1>13. CASE Tick
  BY <1>13, TickTypes
<1>14. CASE UNCHANGED vars
  BY <1>14 DEF TypeOK, vars, air, MaxQuiet
<1> QED
  BY <1>1, <1>2, <1>3, <1>4, <1>5, <1>6, <1>7, <1>8, <1>9, <1>10, <1>11, <1>12, <1>13, <1>14
     DEF Next

\* Type correctness: duplicate packet lists stay within itsGnDPLLength, and
\* the forwarding buffer within its capacity although push() may be called
\* again for every packet a flush() has taken out.
THEOREM RouterTypes == Spec => []TypeOK
BY InitTypes, NextTypes, PTL DEF Spec

-----------------------------------------------------------------------------
(* Beacons.                                                                *)

\* While the timer is scheduled, the time since the last announcement and the
\* time left add up to a delay that set_beacon_timer_expiry() can have chosen;
\* when it is not, nothing is told of the silence.
BeaconInv ==
  /\ beacon # None /\ quiet # None => quiet + beacon \in BeaconDelays
  /\ beacon = None => quiet = None

LEMMA TransmitBeacon ==
  ASSUME TypeOK, BeaconInv, NEW p \in PacketType, Transmit(p)
  PROVE  BeaconInv'
<1>1. CASE UNCHANGED <<beacon, quiet>>
  BY <1>1 DEF BeaconInv, BeaconDelays
<1>2. CASE beacon' \in BeaconDelays /\ quiet' = 0
  <2> DEFINE b == beacon'
  <2>1. None \notin Nat /\ Retransmit \in Nat /\ MaxJitter \in Nat /\ b \in BeaconDelays
    BY <1>2, RouterAssumption
  <2> HIDE DEF b
  <2>2. b \in Nat /\ 0 + b \in Retransmit .. Retransmit + MaxJitter
    BY <2>1 DEF BeaconDelays
  <2> QED
    BY <1>2, <2>1, <2>2 DEF BeaconInv, BeaconDelays, b
<1> QED
  BY <1>1, <1>2 DEF Transmit, ResetsBeacon

LEMMA HandledBeacon ==
  ASSUME TypeOK, BeaconInv, NEW p \in PacketType, Handled(p)
  PROVE  BeaconInv'
<1>1. Transmit(p) \/ UNCHANGED <<beacon, quiet>>
  BY DEF Handled, Discard, Store, ForwardedByCbf, Contend, Suppress
<1>2. CASE UNCHANGED <<beacon, quiet>>
  BY <1>2 DEF BeaconInv, BeaconDelays
<1> QED
  BY <1>1, <1>2, TransmitBeacon

\* A flushed, received or requested packet is handled, or the step does
\* something else with frames and timers.
LEMMA StepKinds ==
  ASSUME TypeOK, [Next]_vars
  PROVE  \/ \E p \in PacketType : Handled(p) /\ UNCHANGED <<mib, addr, pending>>
         \/ BeaconTimer
         \/ Tick
         \/ \E p \in cbf : CbfTimer(p)
         \/ (out' = None \/ UNCHANGED vars) /\ UNCHANGED <<mib, beacon, quiet>> /\ cbf' \subseteq cbf
<1> DEFINE Goal == \/ \E p \in PacketType : Handled(p) /\ UNCHANGED <<mib, addr, pending>>
                   \/ BeaconTimer
                   \/ Tick
                   \/ \E p \in cbf : CbfTimer(p)
                   \/ (out' = None \/ UNCHANGED vars) /\ UNCHANGED <<mib, beacon, quiet>>
                      /\ cbf' \subseteq cbf
<1>1. CASE Indicate
  BY <1>1 DEF Indicate
<1>2. CASE Flush
  <2> DEFINE p == Head(flushing)
  <2>1. p \in PacketType
    BY <1>2, HeadTailProperties DEF TypeOK, Flush
  <2>2. CASE Expired(p)
    BY <1>2, <2>2 DEF Flush, Discard
  <2>3. CASE ~Expired(p)
    <3>1. Process(Resumed(p), table) /\ UNCHANGED <<mib, addr, pending>>
      BY <1>2, <2>3 DEF Flush, Resumed
    <3> QED
      BY <2>1, <3>1, ProcessHandles, ResumedType
  <2> QED
    BY <2>2, <2>3
<1>3. ASSUME NEW rx \in Inputs, IndicateSingleHop(rx) PROVE Goal
  BY <1>3 DEF IndicateSingleHop, Discard
<1>4. ASSUME NEW rx \in Inputs, IndicateMultiHop(rx) PROVE Goal
  <2>1. UNCHANGED <<mib, addr, pending>>
    BY <1>4 DEF IndicateMultiHop
  <2>2. CASE Discard
    BY <2>1, <2>2 DEF Discard
  <2>3. CASE Handled(Incoming(rx))
    <3>1. Incoming(rx) \in PacketType
      BY <1>4, MultiHopCases, IncomingType
    <3> QED
      BY <2>1, <2>3, <3>1
  <2> QED
    BY <1>4, <2>2, <2>3, MultiHopCases
<1>5. ASSUME NEW rx \in Inputs, IndicateMalformed(rx) PROVE Goal
  BY <1>5 DEF IndicateMalformed, Discard
<1>6. ASSUME NEW r \in Requests, Request(r) PROVE Goal
  <2>1. Made(r) \in PacketType /\ StoreOrProcess(Made(r), table) /\ UNCHANGED <<mib, addr, pending>>
    BY <1>6, MadeType DEF Request, Made
  <2> QED
    BY <2>1, StoreOrProcessHandles
<1>7. ASSUME NEW p \in cbf, CbfDrop(p) PROVE Goal
  BY <1>7 DEF CbfDrop
<1>8. ASSUME NEW d \in Distances, PositionFix(d) PROVE Goal
  BY <1>8 DEF PositionFix
<1>9. CASE Prepare
  BY <1>9 DEF Prepare
<1>10. CASE EndChange
  BY <1>10 DEF EndChange
<1>11. CASE UNCHANGED vars
  BY <1>11 DEF vars, air
<1> QED
  BY <1>1, <1>2, <1>3, <1>4, <1>5, <1>6, <1>7, <1>8, <1>9, <1>10, <1>11 DEF Next

LEMMA BeaconStep ==
  ASSUME TypeOK, BeaconInv, [Next]_vars
  PROVE  BeaconInv'
<1>1. ASSUME NEW p \in PacketType, Handled(p) PROVE BeaconInv'
  BY <1>1, HandledBeacon
<1>2. CASE BeaconTimer
  <2>1. CASE beacon' \in BeaconDelays /\ quiet' = 0
    <3> DEFINE b == beacon'
    <3>1. None \notin Nat /\ Retransmit \in Nat /\ MaxJitter \in Nat /\ b \in BeaconDelays
      BY <2>1, RouterAssumption
    <3> HIDE DEF b
    <3>2. b \in Nat /\ 0 + b \in Retransmit .. Retransmit + MaxJitter
      BY <3>1 DEF BeaconDelays
    <3> QED
      BY <2>1, <3>1, <3>2 DEF BeaconInv, BeaconDelays, b
  <2>2. CASE beacon' = None /\ quiet' = None
    BY <2>2 DEF BeaconInv
  <2> QED
    BY <1>2, <2>1, <2>2 DEF BeaconTimer
<1>3. CASE Tick
  <2>1. /\ beacon \in Nat \cup {None} /\ quiet \in (0 .. MaxQuiet) \cup {None} /\ None \notin Nat
        /\ Retransmit \in Nat /\ MaxJitter \in Nat
    BY RouterAssumption DEF TypeOK
  <2>2. CASE beacon = None \/ quiet = None
    <3>1. quiet = None /\ quiet' = None
      BY <1>3, <2>2 DEF Tick, BeaconInv
    <3> QED
      BY <3>1 DEF BeaconInv
  <2>3. CASE beacon # None /\ quiet # None
    <3>1. /\ beacon \in Nat /\ quiet \in Nat /\ beacon # 0
          /\ quiet + beacon >= Retransmit /\ quiet + beacon <= Retransmit + MaxJitter
      BY <1>3, <2>1, <2>3 DEF BeaconInv, BeaconDelays, MaxQuiet, Tick
    <3>2. quiet # MaxQuiet
      BY <2>1, <3>1 DEF MaxQuiet
    <3>3. beacon' = beacon - 1 /\ quiet' = quiet + 1
      BY <1>3, <2>3, <3>2 DEF Tick
    <3>4. beacon - 1 \in Nat /\ quiet + 1 \in Nat /\ quiet + 1 + (beacon - 1) = quiet + beacon
      BY <3>1
    <3> QED
      BY <2>1, <2>3, <3>3, <3>4 DEF BeaconInv, BeaconDelays
  <2> QED
    BY <2>2, <2>3
<1>4. ASSUME NEW p \in cbf, CbfTimer(p) PROVE BeaconInv'
  BY <1>4 DEF CbfTimer, BeaconInv, BeaconDelays
<1>5. CASE UNCHANGED <<beacon, quiet>>
  BY <1>5 DEF BeaconInv, BeaconDelays
<1> QED
  BY <1>1, <1>2, <1>3, <1>4, <1>5, StepKinds

\* Where frames come from.
LEMMA FrameStep ==
  ASSUME TypeOK, [Next]_vars, ~UNCHANGED vars, out' # None
  PROVE  \/ \E p \in PacketType : /\ out' = Frame(p, SourceOf(p)) /\ UNCHANGED addr
                                  /\ Own(p) => ~pending
         \/ BeaconTimer
         \/ \E p \in cbf : out' = Frame(p, p.src)
<1>1. ASSUME NEW p \in PacketType, Handled(p), UNCHANGED addr
      PROVE  out' = Frame(p, SourceOf(p)) /\ (Own(p) => ~pending)
  <2>1. Transmit(p)
    BY <1>1 DEF Handled, Discard, Store, ForwardedByCbf, Contend, Suppress
  <2>2. PICK signed \in BOOLEAN :
          /\ MaySign(signed) /\ ~(Own(p) /\ ~signed) /\ out' = Frame(p, SourceOf(p))
    BY <2>1 DEF Transmit
  <2> QED
    BY <2>2 DEF MaySign
<1>2. ~Tick
  BY DEF Tick
<1>3. ASSUME NEW p \in cbf, CbfTimer(p)
      PROVE  out' = Frame(p, p.src)
  BY <1>3 DEF CbfTimer
<1> QED
  BY <1>1, <1>2, <1>3, StepKinds

\* As long as the beacon timer is scheduled the station is never silent for
\* longer than the retransmit period and the jitter.
THEOREM SilenceBounded == Spec => []SilenceIsBounded
<1>1. Init => BeaconInv
  BY RouterAssumption DEF Init, BeaconInv
<1>2. TypeOK /\ BeaconInv => SilenceIsBounded
  BY RouterAssumption DEF TypeOK, BeaconInv, BeaconDelays, SilenceIsBounded, MaxQuiet
<1> QED
  BY <1>1, <1>2, RouterTypes, BeaconStep, NextTypes, PTL DEF Spec

\* on_beacon_timer_expired() sends a beacon only when nothing else has
\* announced the station for a retransmit period.
THEOREM BeaconsSpaced == Spec => BeaconsAreSpaced
<1>1. Init => BeaconInv
  BY RouterAssumption DEF Init, BeaconInv
<1>2. ASSUME TypeOK, BeaconInv, [Next]_vars,
             ~UNCHANGED vars, out' # None, out'.kind = "beacon", quiet # None
      PROVE  quiet >= Retransmit
  <2>1. CASE BeaconTimer
    <3>1. beacon = 0 /\ quiet \in Nat /\ Retransmit \in Nat
      BY <1>2, <2>1, RouterAssumption DEF BeaconTimer, TypeOK, MaxQuiet
    <3>2. quiet + 0 \in Retransmit .. Retransmit + MaxJitter
      BY <1>2, <3>1, RouterAssumption DEF BeaconInv, BeaconDelays
    <3> QED
      BY <3>1, <3>2
  <2>2. ASSUME NEW p \in PacketType, NEW so, out' = Frame(p, so) PROVE FALSE
    BY <1>2, <2>2 DEF Frame, PacketType
  <2>3. \/ \E p \in PacketType : /\ out' = Frame(p, SourceOf(p)) /\ UNCHANGED addr
                                 /\ Own(p) => ~pending
        \/ BeaconTimer
        \/ \E p \in cbf : out' = Frame(p, p.src)
    BY <1>2, FrameStep
  <2>4. \A p \in cbf : p \in PacketType
    BY <1>2 DEF TypeOK
  <2>5. CASE \E p \in PacketType : out' = Frame(p, SourceOf(p))
    BY <2>2, <2>5
  <2>6. CASE \E p \in cbf : out' = Frame(p, p.src)
    BY <2>2, <2>4, <2>6
  <2> QED
    BY <2>1, <2>3, <2>5, <2>6
<1> QED
  BY <1>1, <1>2, RouterTypes, BeaconStep, PTL DEF Spec, BeaconsAreSpaced

-----------------------------------------------------------------------------
(* Frames of the station's own.                                            *)

\* Packets of the station never contend.
NoOwnContention == \A p \in cbf : ~Own(p)

LEMMA OwnStep ==
  ASSUME TypeOK, NoOwnContention, [Next]_vars
  PROVE  NoOwnContention'
<1>1. ASSUME NEW p \in PacketType, Handled(p) PROVE NoOwnContention'
  <2>1. UNCHANGED cbf \/ ForwardedByCbf(p)
    BY <1>1 DEF Handled, Transmit, Discard, Store
  <2>2. CASE UNCHANGED cbf
    BY <2>2 DEF NoOwnContention, Own
  <2>3. CASE ForwardedByCbf(p)
    <3>1. ~Own(p) /\ cbf' \subseteq cbf \cup {p}
      BY <2>3 DEF ForwardedByCbf, Contend, Suppress
    <3> QED
      BY <3>1 DEF NoOwnContention, Own
  <2> QED
    BY <2>1, <2>2, <2>3
<1>2. CASE cbf' \subseteq cbf
  BY <1>2 DEF NoOwnContention, Own
<1>3. CASE Tick
  <2>1. \A p \in cbf : ~Own(Aged(p))
    BY AgedType DEF NoOwnContention, TypeOK
  <2>2. cbf' = {Aged(p) : p \in cbf}
    BY <1>3 DEF Tick
  <2> QED
    BY <2>1, <2>2 DEF NoOwnContention, Own
<1> QED
  BY <1>1, <1>2, <1>3, StepKinds DEF BeaconTimer, CbfTimer

\* A station never sends a frame of its own under an identifier it no longer
\* uses, nor one while a change is pending: whenever the packet was requested
\* and however long it has been stored, transmission takes the present source
\* position vector and needs a signature.
THEOREM OwnFramesCurrent == Spec => OwnFramesAreCurrent
<1>1. Init => NoOwnContention
  BY DEF Init, NoOwnContention
<1>2. ASSUME TypeOK, NoOwnContention, [Next]_vars, ~UNCHANGED vars, out' # None, out'.own
      PROVE  out'.so = addr' /\ out'.mac = addr' /\ ~pending
  <2>1. ASSUME NEW p \in PacketType, out' = Frame(p, SourceOf(p)), UNCHANGED addr,
               Own(p) => ~pending
        PROVE  out'.so = addr' /\ out'.mac = addr' /\ ~pending
    <3>1. Own(p) /\ SourceOf(p) = addr
      BY <1>2, <2>1 DEF Frame, SourceOf
    <3> QED
      BY <2>1, <3>1 DEF Frame
  <2>2. CASE BeaconTimer
    BY <1>2, <2>2 DEF BeaconTimer, MaySign
  <2>3. ASSUME NEW p \in cbf, out' = Frame(p, p.src) PROVE FALSE
    BY <1>2, <2>3 DEF Frame, NoOwnContention
  <2>4. \/ \E p \in PacketType : /\ out' = Frame(p, SourceOf(p)) /\ UNCHANGED addr
                                 /\ Own(p) => ~pending
        \/ BeaconTimer
        \/ \E p \in cbf : out' = Frame(p, p.src)
    BY <1>2, FrameStep
  <2>5. CASE \E p \in PacketType : /\ out' = Frame(p, SourceOf(p)) /\ UNCHANGED addr
                                   /\ Own(p) => ~pending
    BY <2>1, <2>5
  <2> QED
    BY <2>2, <2>3, <2>4, <2>5
<1> QED
  BY <1>1, <1>2, RouterTypes, OwnStep, PTL DEF Spec, OwnFramesAreCurrent

-----------------------------------------------------------------------------
(* What a flush leaves in the buffer.                                      *)

\* While a received packet waits for the flush to end, every packet that was
\* put back is one for which greedy forwarding knows no next hop.
OnlyGreedy ==
  indicated => \A i \in DOMAIN buffer : buffer[i].stage = "greedy" /\ ~Progress(table)

\* The packets in the buffer after a push() are the new one and some of before.
LEMMA PushedMembers ==
  ASSUME NEW b \in Seq(PacketType), NEW p \in PacketType, NEW i \in DOMAIN Pushed(b, p)
  PROVE  Pushed(b, p)[i] = p \/ \E j \in DOMAIN b : Pushed(b, p)[i] = b[j]
<1> DEFINE r == Pushed(b, p)
<1>1. /\ r \in Seq(PacketType) /\ Len(r) \in Nat /\ r[Len(r)] = p /\ \E e : From(b, r, e)
  BY PushedPlaces
<1>2. i \in 1 .. Len(r) /\ DOMAIN b = 1 .. Len(b)
  BY <1>1, LenProperties
<1> HIDE DEF r
<1>3. PICK e : From(b, r, e)
  BY <1>1
<1>4. CASE i = Len(r)
  BY <1>1, <1>4 DEF r
<1>5. CASE i # Len(r)
  <2>1. i \in 1 .. Len(r) - 1
    BY <1>1, <1>2, <1>5
  <2> QED
    BY <1>2, <1>3, <2>1 DEF From, r
<1> QED
  BY <1>4, <1>5

LEMMA FlushKeepsGreedy ==
  ASSUME TypeOK, OnlyGreedy, Flush
  PROVE  OnlyGreedy'
<1> DEFINE p == Head(flushing)
<1>1. UNCHANGED <<here, table, indicated>> /\ p \in PacketType /\ buffer \in Seq(PacketType)
  BY HeadTailProperties DEF Flush, TypeOK
<1>2. Progress(table)' = Progress(table)
  BY <1>1 DEF Progress, IsNeighbour, Live
<1>3. CASE UNCHANGED buffer
  BY <1>1, <1>2, <1>3 DEF OnlyGreedy
<1>4. CASE Store(Resumed(p), "greedy") /\ ~Progress(table)
  <2> DEFINE q == Upgraded(Resumed(p), "greedy")
  <2>1. q \in PacketType /\ q.stage = "greedy"
    BY <1>1, ResumedType, UpgradedType DEF Stages
  <2>2. buffer' = Pushed(buffer, q)
    BY <1>4 DEF Store, Upgraded
  <2> HIDE DEF q
  <2>3. \A i \in DOMAIN buffer' : buffer'[i] = q \/ \E j \in DOMAIN buffer : buffer'[i] = buffer[j]
    BY <1>1, <2>1, <2>2, PushedMembers
  <2> QED
    BY <1>1, <1>2, <1>4, <2>1, <2>3 DEF OnlyGreedy
<1>5. Expired(p) => UNCHANGED buffer
  BY DEF Flush, Discard
<1>6. ~Expired(p) => Process(Resumed(p), table)
  BY DEF Flush, Resumed
<1>7. Process(Resumed(p), table) => UNCHANGED buffer \/ (Store(Resumed(p), "greedy") /\ ~Progress(table))
  BY <1>1, ResumedType, ProcessOutcomes
     DEF Transmit, Discard, ForwardedByCbf, Contend, Suppress
<1> QED
  BY <1>3, <1>4, <1>5, <1>6, <1>7

LEMMA GreedyStep ==
  ASSUME TypeOK, OnlyGreedy, [Next]_vars
  PROVE  OnlyGreedy'
<1>1. CASE Indicate
  BY <1>1 DEF Indicate, StartFlush, OnlyGreedy
<1>2. CASE Flush
  BY <1>2, FlushKeepsGreedy
<1>3. ASSUME NEW rx \in Inputs,
             IndicateSingleHop(rx) \/ IndicateMultiHop(rx) \/ IndicateMalformed(rx)
      PROVE  OnlyGreedy'
  <2>1. Received
    BY <1>3 DEF IndicateSingleHop, IndicateMultiHop, IndicateMalformed
  <2> QED
    BY <2>1 DEF Received, OnlyGreedy
<1>4. CASE Idle /\ UNCHANGED indicated
  BY <1>4 DEF Idle, OnlyGreedy
<1>5. CASE UNCHANGED vars
  <2>1. Progress(table)' = Progress(table)
    BY <1>5 DEF vars, Progress, IsNeighbour, Live
  <2> QED
    BY <1>5, <2>1 DEF vars, OnlyGreedy
<1>6. ASSUME NEW r \in Requests, Request(r) PROVE Idle /\ UNCHANGED indicated
  BY <1>6 DEF Request
<1>7. ASSUME NEW p \in cbf, CbfTimer(p) \/ CbfDrop(p) PROVE Idle /\ UNCHANGED indicated
  BY <1>7 DEF CbfTimer, CbfDrop
<1>8. ASSUME NEW d \in Distances, PositionFix(d) PROVE Idle /\ UNCHANGED indicated
  BY <1>8 DEF PositionFix
<1>9. BeaconTimer \/ Prepare \/ EndChange \/ Tick => Idle /\ UNCHANGED indicated
  BY DEF BeaconTimer, Prepare, EndChange, Tick
<1> QED
  BY <1>1, <1>2, <1>3, <1>4, <1>5, <1>6, <1>7, <1>8, <1>9 DEF Next

\* A flush leaves nothing behind but packets for which greedy forwarding
\* still knows no next hop: none is stuck because the flush stored it again
\* for want of neighbours.
THEOREM FlushLeavesGreedy == Spec => []FlushLeavesOnlyGreedy
<1>1. Init => OnlyGreedy
  BY DEF Init, OnlyGreedy
<1>2. OnlyGreedy => FlushLeavesOnlyGreedy
  BY DEF OnlyGreedy, FlushLeavesOnlyGreedy
<1> QED
  BY <1>1, <1>2, RouterTypes, GreedyStep, PTL DEF Spec

-----------------------------------------------------------------------------
(* Duplicate packet detection.                                             *)

\* Packet p is the packet id of another station.
Copy(id, p) == ~Own(p) /\ Id(p) = id
Has(q, id) == \E i \in DOMAIN q : Copy(id, q[i])
Once(q, id) == \A i, j \in DOMAIN q : Copy(id, q[i]) /\ Copy(id, q[j]) => i = j

\* There is at most one copy of packet id in the station, none once it has
\* been forwarded, and none if the duplicate packet list does not know it.
SingleCopy(id) ==
  /\ Once(buffer, id) /\ Once(flushing, id)
  /\ ~(Has(buffer, id) /\ Has(flushing, id))
  /\ seen[id] # 0 => seen[id] = 1 /\ ~Has(buffer, id) /\ ~Has(flushing, id)
  /\ id \notin Listed(table) => seen[id] = 0 /\ ~Has(buffer, id) /\ ~Has(flushing, id)

\* While a received packet waits, indicate_common() has dropped the expired
\* entries, so that a duplicate packet list is not replaced by an empty one.
FreshTable == indicated => \A s \in Peers : table[s] # None => Live(table, s)

CopyInv ==
  mib = Plain => cbf = {} /\ FreshTable /\ \A id \in Ids \ forgotten : SingleCopy(id)

LEMMA NothingInEmpty ==
  ASSUME NEW id
  PROVE  ~Has(<<>>, id) /\ Once(<<>>, id)
BY DEF Has, Once

LEMMA CopiesPushed ==
  ASSUME NEW b \in Seq(PacketType), NEW p \in PacketType, NEW id
  PROVE  /\ Has(Pushed(b, p), id) => Has(b, id) \/ Copy(id, p)
         /\ Once(b, id) /\ ~(Has(b, id) /\ Copy(id, p)) => Once(Pushed(b, p), id)
<1> DEFINE r == Pushed(b, p)
<1>1. /\ r \in Seq(PacketType) /\ Len(r) \in Nat \ {0} /\ r[Len(r)] = p /\ \E e : From(b, r, e)
  BY PushedPlaces
<1>2. DOMAIN r = 1 .. Len(r) /\ DOMAIN b = 1 .. Len(b)
  BY <1>1, LenProperties
<1> HIDE DEF r
<1>3. PICK e : From(b, r, e)
  BY <1>1
<1>4. \A i \in DOMAIN r : i = Len(r) \/ i \in 1 .. Len(r) - 1
  BY <1>1, <1>2
<1>5. \A i \in 1 .. Len(r) - 1 : e[i] \in DOMAIN b /\ r[i] = b[e[i]]
  BY <1>2, <1>3 DEF From
<1>6. Has(r, id) => Has(b, id) \/ Copy(id, p)
  BY <1>1, <1>4, <1>5 DEF Has
<1>7. ASSUME Once(b, id), ~(Has(b, id) /\ Copy(id, p)),
             NEW i \in DOMAIN r, NEW j \in DOMAIN r, Copy(id, r[i]), Copy(id, r[j])
      PROVE  i = j
  <2>1. CASE i = Len(r)
    BY <1>1, <1>4, <1>5, <1>7, <2>1 DEF Has
  <2>2. CASE j = Len(r)
    BY <1>1, <1>4, <1>5, <1>7, <2>2 DEF Has
  <2>3. CASE i \in 1 .. Len(r) - 1 /\ j \in 1 .. Len(r) - 1
    <3>1. e[i] = e[j]
      BY <1>5, <1>7, <2>3 DEF Once
    <3> QED
      BY <1>3, <2>3, <3>1 DEF From
  <2> QED
    BY <1>4, <2>1, <2>2, <2>3
<1> QED
  BY <1>6, <1>7 DEF r, Once

LEMMA CopiesTail ==
  ASSUME NEW q \in Seq(PacketType), q # <<>>, NEW id
  PROVE  /\ Copy(id, Head(q)) => Has(q, id)
         /\ Has(Tail(q), id) => Has(q, id)
         /\ Once(q, id) => Once(Tail(q), id) /\ ~(Copy(id, Head(q)) /\ Has(Tail(q), id))
<1> DEFINE t == Tail(q)
<1>1. /\ t \in Seq(PacketType) /\ Len(t) = Len(q) - 1 /\ \A i \in 1 .. Len(t) : t[i] = q[i + 1]
      /\ Head(q) = q[1] /\ Len(q) \in Nat \ {0}
  BY HeadTailProperties, LenProperties, EmptySeq
<1>2. DOMAIN t = 1 .. Len(t) /\ DOMAIN q = 1 .. Len(q)
  BY <1>1, LenProperties
<1> HIDE DEF t
<1>3. \A i \in DOMAIN t : i + 1 \in DOMAIN q /\ t[i] = q[i + 1] /\ i + 1 # 1 /\ i \in Nat
  BY <1>1, <1>2
<1>4. 1 \in DOMAIN q
  BY <1>1, <1>2
<1>5. ASSUME Once(q, id), NEW i \in DOMAIN t, NEW j \in DOMAIN t, Copy(id, t[i]), Copy(id, t[j])
      PROVE  i = j
  <2>1. i + 1 = j + 1
    BY <1>3, <1>5 DEF Once
  <2> QED
    BY <1>3, <2>1
<1>6. Once(q, id) => ~(Copy(id, Head(q)) /\ Has(t, id))
  BY <1>1, <1>3, <1>4 DEF Once, Has
<1>7. (Copy(id, Head(q)) => Has(q, id)) /\ (Has(t, id) => Has(q, id))
  BY <1>1, <1>3, <1>4 DEF Has
<1> QED
  BY <1>5, <1>6, <1>7 DEF t, Once

\* What becomes of the copies of packet id when packet p is handled.
LEMMA HandledCopies ==
  ASSUME TypeOK, mib = Plain, NEW p \in PacketType, Handled(p), NEW id \in Ids
  PROVE  /\ UNCHANGED cbf
         /\ ~Copy(id, p) => /\ seen'[id] = seen[id]
                            /\ Has(buffer', id) => Has(buffer, id)
                            /\ Once(buffer, id) => Once(buffer', id)
         /\ Copy(id, p) /\ ~Has(buffer, id) /\ Once(buffer, id) /\ seen[id] = 0
              => /\ Once(buffer', id) /\ seen'[id] \in {0, 1}
                 /\ seen'[id] = 1 => ~Has(buffer', id)
<1>1. buffer \in Seq(PacketType) /\ seen \in [Ids -> 0 .. 2]
  BY DEF TypeOK
<1>2. CASE Discard
  BY <1>2 DEF Discard
<1>3. ASSUME NEW stage \in Stages, Store(p, stage)
      PROVE  /\ UNCHANGED <<cbf, seen>>
             /\ Has(buffer', id) => Has(buffer, id) \/ Copy(id, p)
             /\ Once(buffer, id) /\ ~(Has(buffer, id) /\ Copy(id, p)) => Once(buffer', id)
  <2> DEFINE q == Upgraded(p, stage)
  <2>1. q \in PacketType /\ Copy(id, q) = Copy(id, p)
    BY UpgradedType DEF Copy
  <2>2. buffer' = Pushed(buffer, q) /\ UNCHANGED <<cbf, seen>>
    BY <1>3 DEF Store, Upgraded
  <2> HIDE DEF q
  <2> QED
    BY <1>1, <2>1, <2>2, CopiesPushed
<1>4. CASE Transmit(p)
  <2>1. UNCHANGED <<buffer, cbf>>
    BY <1>4 DEF Transmit
  <2>2. \/ UNCHANGED seen
        \/ ~Own(p) /\ seen' = [seen EXCEPT ![Id(p)] = IF @ = 2 THEN 2 ELSE @ + 1]
    BY <1>4 DEF Transmit
  <2>3. ~Copy(id, p) => seen'[id] = seen[id]
    BY <1>1, <2>2 DEF Copy
  <2>4. Copy(id, p) /\ seen[id] = 0 => seen'[id] \in {0, 1}
    BY <1>1, <2>2 DEF Copy
  <2> QED
    BY <2>1, <2>3, <2>4
<1>5. ~ForwardedByCbf(p)
  BY DEF ForwardedByCbf
<1>6. CASE \E stage \in Stages : Store(p, stage)
  <2>1. /\ UNCHANGED <<cbf, seen>>
        /\ Has(buffer', id) => Has(buffer, id) \/ Copy(id, p)
        /\ Once(buffer, id) /\ ~(Has(buffer, id) /\ Copy(id, p)) => Once(buffer', id)
    BY <1>3, <1>6
  <2> QED
    BY <2>1
<1> QED
  BY <1>2, <1>4, <1>5, <1>6 DEF Handled

\* Nothing happens to the copies, and the lists lose nothing unnoticed.
LEMMA CopiesUntouched ==
  ASSUME NEW id, SingleCopy(id), UNCHANGED <<buffer, flushing, seen>>,
         id \in Listed(table) => id \in Listed(table')
  PROVE  SingleCopy(id)'
BY DEF SingleCopy

LEMMA FlushCopies ==
  ASSUME TypeOK, CopyInv, Flush
  PROVE  CopyInv'
<1> SUFFICES ASSUME mib' = Plain
             PROVE  cbf' = {} /\ FreshTable' /\ \A id \in Ids \ forgotten' : SingleCopy(id)'
  BY DEF CopyInv
<1> DEFINE p == Head(flushing)
<1>1. /\ UNCHANGED <<mib, table, indicated, forgotten>> /\ flushing' = Tail(flushing)
      /\ flushing # <<>>
  BY DEF Flush
<1>2. /\ mib = Plain /\ cbf = {} /\ FreshTable /\ \A id \in Ids \ forgotten : SingleCopy(id)
      /\ flushing \in Seq(PacketType) /\ seen \in [Ids -> 0 .. 2]
  BY <1>1 DEF CopyInv, TypeOK
<1>3. p \in PacketType /\ Resumed(p) \in PacketType
  BY <1>1, <1>2, HeadTailProperties, ResumedType
<1>4. FreshTable'
  BY <1>1, <1>2 DEF FreshTable
<1>5. Discard \/ Handled(Resumed(p))
  <2>1. CASE Expired(p)
    BY <2>1 DEF Flush
  <2>2. CASE ~Expired(p)
    <3>1. Process(Resumed(p), table)
      BY <2>2 DEF Flush, Resumed
    <3> QED
      BY <1>3, <3>1, ProcessHandles
  <2> QED
    BY <2>1, <2>2
<1>6. ASSUME NEW id \in Ids \ forgotten
      PROVE  SingleCopy(id)' /\ UNCHANGED cbf
  <2>1. SingleCopy(id) /\ id \in Ids
    BY <1>2
  <2>2. /\ Copy(id, p) => Has(flushing, id)
        /\ Has(flushing', id) => Has(flushing, id)
        /\ Once(flushing, id) => Once(flushing', id) /\ ~(Copy(id, p) /\ Has(flushing', id))
    BY <1>1, <1>2, CopiesTail
  <2>3. Copy(id, Resumed(p)) = Copy(id, p)
    BY <1>3, ResumedType DEF Copy
  <2>4. CASE Discard
    BY <1>1, <2>1, <2>2, <2>4 DEF Discard, SingleCopy
  <2>5. CASE Handled(Resumed(p)) /\ ~Copy(id, p)
    <3>1. /\ UNCHANGED cbf /\ seen'[id] = seen[id]
          /\ Has(buffer', id) => Has(buffer, id)
          /\ Once(buffer, id) => Once(buffer', id)
      BY <1>2, <1>3, <2>1, <2>3, <2>5, HandledCopies
    <3> QED
      BY <1>1, <2>1, <2>2, <3>1 DEF SingleCopy
  <2>6. CASE Handled(Resumed(p)) /\ Copy(id, p)
    <3>1. /\ Has(flushing, id) /\ ~Has(buffer, id) /\ seen[id] = 0 /\ id \in Listed(table)
          /\ Once(buffer, id) /\ ~Has(flushing', id) /\ Once(flushing', id)
      BY <2>1, <2>2, <2>6 DEF SingleCopy
    <3>2. /\ UNCHANGED cbf /\ Once(buffer', id) /\ seen'[id] \in {0, 1}
          /\ seen'[id] = 1 => ~Has(buffer', id)
      BY <1>2, <1>3, <2>1, <2>3, <2>6, <3>1, HandledCopies
    <3> QED
      BY <1>1, <3>1, <3>2 DEF SingleCopy
  <2> QED
    BY <1>5, <2>4, <2>5, <2>6
<1>7. UNCHANGED cbf
  BY <1>2, <1>3, <1>5, HandledCopies
     DEF Discard, Handled, Transmit, Store, ForwardedByCbf
<1> QED
  BY <1>1, <1>2, <1>4, <1>6, <1>7

LEMMA MultiHopCopies ==
  ASSUME TypeOK, CopyInv, NEW rx \in Inputs, IndicateMultiHop(rx)
  PROVE  CopyInv'
<1> SUFFICES ASSUME mib' = Plain
             PROVE  cbf' = {} /\ FreshTable' /\ \A id \in Ids \ forgotten' : SingleCopy(id)'
  BY DEF CopyInv
<1> DEFINE p == Incoming(rx)
           e == Entry(table, rx.src)
<1>1. /\ UNCHANGED <<mib, here, flushing>> /\ flushing = <<>> /\ indicated /\ indicated' = FALSE
      /\ rx.kind \in {"gbc", "tsb"}
      /\ forgotten' = forgotten \cup (Listed(table) \ Listed(table'))
  BY MultiHopCases DEF IndicateMultiHop
<1>2. /\ mib = Plain /\ cbf = {} /\ FreshTable /\ \A id \in Ids \ forgotten : SingleCopy(id)
      /\ table \in [Peers -> Entries \cup {None}] /\ None \notin Entries
  BY <1>1, TypeParts, TableIsOfEntries DEF CopyInv
<1>3. /\ p \in PacketType /\ ~Own(p) /\ Id(p) = <<rx.src, rx.sn>>
      /\ rx.src \in Peers /\ rx.sn \in Nat /\ rx.pos \in Positions /\ rx.newer \in BOOLEAN
  BY <1>1, IncomingType
<1>4. FreshTable'
  BY <1>1 DEF FreshTable
<1>5. ChecksDuplicates(rx)
  BY <1>2 DEF ChecksDuplicates, Plain
<1>6. \A id \in Ids \ forgotten' :
        id \in Ids /\ SingleCopy(id) /\ (id \in Listed(table) => id \in Listed(table'))
  BY <1>1, <1>2, ListedType
<1>7. CASE Discard
  BY <1>1, <1>2, <1>4, <1>6, <1>7, CopiesUntouched DEF Discard
<1>8. CASE ~Duplicate(e, rx.sn) /\ table' = [table EXCEPT ![rx.src] = Noted(rx)] /\ Handled(p)
  <2>1. UNCHANGED cbf
    BY <1>2, <1>8 DEF Handled, Discard, Transmit, Store, ForwardedByCbf
  <2>2. Id(p) \notin Listed(table)
    <3>1. SUFFICES ASSUME table[rx.src] # None, Duplicate(table[rx.src], rx.sn) PROVE FALSE
      BY <1>3 DEF Listed
    <3>2. Live(table, rx.src)
      BY <1>1, <1>2, <1>3, <3>1 DEF FreshTable
    <3> QED
      BY <1>8, <3>1, <3>2 DEF Entry
  <2>3. Id(p) \in Ids => Id(p) \in Listed(table')
    <3>1. e \in Entries
      BY <1>3, TypeParts, EntryIsEntry
    <3>2. Remember(e, rx.sn) \in Entries /\ Duplicate(Remember(e, rx.sn), rx.sn)
      BY <1>3, <3>1, RememberedEntry
    <3>3. Noted(rx) \in Entries /\ Noted(rx).dpl = Remember(e, rx.sn).dpl
      BY <1>3, <1>5, <3>2, UpdatedEntry DEF Noted
    <3>4. Duplicate(Noted(rx), rx.sn)
      BY <3>2, <3>3 DEF Duplicate
    <3>5. table'[rx.src] = Noted(rx)
      BY <1>2, <1>3, <1>8
    <3>6. table'[Id(p)[1]] # None /\ Duplicate(table'[Id(p)[1]], Id(p)[2])
      BY <1>2, <1>3, <3>3, <3>4, <3>5
    <3> QED
      BY <3>6 DEF Listed
  <2>4. ASSUME NEW id \in Ids \ forgotten'
        PROVE  SingleCopy(id)'
    <3>1. /\ SingleCopy(id) /\ id \in Ids /\ (id \in Listed(table) => id \in Listed(table'))
          /\ ~Has(flushing', id) /\ Once(flushing', id)
      BY <1>1, <1>6, NothingInEmpty
    <3>2. CASE ~Copy(id, p)
      <4>1. /\ seen'[id] = seen[id]
            /\ Has(buffer', id) => Has(buffer, id)
            /\ Once(buffer, id) => Once(buffer', id)
        BY <1>2, <1>3, <1>8, <3>1, <3>2, HandledCopies
      <4> QED
        BY <3>1, <4>1 DEF SingleCopy
    <3>3. CASE Copy(id, p)
      <4>1. id = Id(p) /\ id \in Listed(table') /\ id \notin Listed(table)
        BY <2>2, <2>3, <3>1, <3>3 DEF Copy
      <4>2. ~Has(buffer, id) /\ Once(buffer, id) /\ seen[id] = 0
        BY <3>1, <4>1 DEF SingleCopy
      <4>3. /\ Once(buffer', id) /\ seen'[id] \in {0, 1}
            /\ seen'[id] = 1 => ~Has(buffer', id)
        BY <1>2, <1>3, <1>8, <3>1, <3>3, <4>2, HandledCopies
      <4> QED
        BY <3>1, <4>1, <4>3 DEF SingleCopy
    <3> QED
      BY <3>2, <3>3
  <2> QED
    BY <1>2, <1>4, <2>1, <2>4
<1> QED
  BY <1>5, <1>7, <1>8, MultiHopCases

LEMMA SingleHopCopies ==
  ASSUME TypeOK, CopyInv, NEW rx \in Inputs, IndicateSingleHop(rx)
  PROVE  CopyInv'
<1> SUFFICES ASSUME mib' = Plain
             PROVE  cbf' = {} /\ FreshTable' /\ \A id \in Ids \ forgotten' : SingleCopy(id)'
  BY DEF CopyInv
<1> DEFINE e == Entry(table, rx.src)
           u == SetNeighbour(UpdatePosition(e, rx.pos, rx.newer))
<1>1. /\ UNCHANGED <<mib, cbf, buffer, flushing, seen, forgotten>>
      /\ indicated /\ indicated' = FALSE
      /\ table' = [table EXCEPT ![rx.src] = u]
  BY DEF IndicateSingleHop, Received, Discard
<1>2. /\ mib = Plain /\ cbf = {} /\ FreshTable /\ \A id \in Ids \ forgotten : SingleCopy(id)
      /\ table \in [Peers -> Entries \cup {None}] /\ None \notin Entries
  BY <1>1, TypeParts, TableIsOfEntries DEF CopyInv
<1>3. rx.src \in Peers /\ rx.pos \in Positions /\ rx.newer \in BOOLEAN
  BY InputAssumption DEF InputType
<1>4. u \in Entries /\ u.dpl = e.dpl
  BY <1>3, TypeParts, EntryIsEntry, UpdatedEntry, NeighbourEntry
<1> HIDE DEF u
<1>5. ASSUME NEW id \in Listed(table)
      PROVE  id \in Listed(table')
  <2>1. id \in Ids /\ table[id[1]] # None /\ Duplicate(table[id[1]], id[2])
    BY DEF Listed
  <2>2. CASE id[1] = rx.src
    <3>1. table[rx.src] # None /\ Duplicate(table[rx.src], id[2])
      BY <2>1, <2>2
    <3>2. e = table[rx.src]
      BY <1>1, <1>2, <1>3, <3>1 DEF FreshTable, Entry
    <3>3. table'[rx.src] = u /\ Duplicate(u, id[2]) /\ u # None
      BY <1>1, <1>2, <1>3, <1>4, <3>1, <3>2 DEF Duplicate
    <3> QED
      BY <2>1, <2>2, <3>3 DEF Listed
  <2>3. CASE id[1] # rx.src
    <3>1. table'[id[1]] = table[id[1]]
      BY <1>1, <1>2, <2>3
    <3> QED
      BY <2>1, <3>1 DEF Listed
  <2> QED
    BY <2>2, <2>3
<1>6. FreshTable'
  BY <1>1 DEF FreshTable
<1> QED
  BY <1>1, <1>2, <1>5, <1>6, CopiesUntouched

\* Taking all packets out of the buffer for a flush.
LEMMA CopiesTakenOut ==
  ASSUME NEW id, SingleCopy(id), flushing = <<>>, StartFlush, UNCHANGED seen,
         id \in Listed(table) => id \in Listed(table')
  PROVE  SingleCopy(id)'
BY NothingInEmpty DEF StartFlush, SingleCopy

LEMMA IndicateCopies ==
  ASSUME TypeOK, CopyInv, Indicate
  PROVE  CopyInv'
<1> SUFFICES ASSUME mib' = Plain
             PROVE  cbf' = {} /\ FreshTable' /\ \A id \in Ids \ forgotten' : SingleCopy(id)'
  BY DEF CopyInv
<1>1. /\ UNCHANGED <<mib, cbf, seen>> /\ flushing = <<>> /\ StartFlush
      /\ table' = DropExpired(table)
      /\ forgotten' = forgotten \cup (Listed(table) \ Listed(table'))
  BY DEF Indicate, Idle
<1>2. cbf = {} /\ \A id \in Ids \ forgotten : SingleCopy(id)
  BY <1>1 DEF CopyInv
<1>3. FreshTable'
  BY <1>1 DEF FreshTable, DropExpired, Live
<1>4. \A id \in Ids \ forgotten' :
        SingleCopy(id) /\ (id \in Listed(table) => id \in Listed(table'))
  BY <1>1, <1>2, ListedType
<1> QED
  BY <1>1, <1>2, <1>3, <1>4, CopiesTakenOut

LEMMA RequestCopies ==
  ASSUME TypeOK, CopyInv, NEW r \in Requests, Request(r)
  PROVE  CopyInv'
<1> SUFFICES ASSUME mib' = Plain
             PROVE  cbf' = {} /\ FreshTable' /\ \A id \in Ids \ forgotten' : SingleCopy(id)'
  BY DEF CopyInv
<1> DEFINE p == Made(r)
<1>1. /\ UNCHANGED <<mib, table, flushing, indicated, forgotten>> /\ ~indicated
      /\ StoreOrProcess(p, table)
  BY DEF Request, Made, Idle
<1>2. mib = Plain /\ cbf = {} /\ \A id \in Ids \ forgotten : SingleCopy(id)
  BY <1>1 DEF CopyInv
<1>3. p \in PacketType /\ Own(p) /\ Handled(p)
  BY <1>1, MadeType, StoreOrProcessHandles
<1>4. FreshTable'
  BY <1>1 DEF FreshTable
<1>5. UNCHANGED cbf
  BY <1>2, <1>3 DEF Handled, Discard, Transmit, Store, ForwardedByCbf
<1>6. ASSUME NEW id \in Ids \ forgotten
      PROVE  SingleCopy(id)'
  <2>1. SingleCopy(id) /\ ~Copy(id, p)
    BY <1>2, <1>3 DEF Copy
  <2>2. /\ seen'[id] = seen[id]
        /\ Has(buffer', id) => Has(buffer, id)
        /\ Once(buffer, id) => Once(buffer', id)
    BY <1>2, <1>3, <2>1, HandledCopies
  <2> QED
    BY <1>1, <2>1, <2>2 DEF SingleCopy
<1> QED
  BY <1>1, <1>2, <1>4, <1>5, <1>6

LEMMA TickCopies ==
  ASSUME TypeOK, CopyInv, Tick
  PROVE  CopyInv'
<1> SUFFICES ASSUME mib' = Plain
             PROVE  cbf' = {} /\ FreshTable' /\ \A id \in Ids \ forgotten' : SingleCopy(id)'
  BY DEF CopyInv
<1>1. /\ UNCHANGED <<mib, flushing, indicated, seen, forgotten>> /\ ~indicated
      /\ buffer' = [i \in DOMAIN buffer |-> Aged(buffer[i])]
      /\ table' = [s \in Peers |-> IF table[s] = None THEN None ELSE AgedEntry(table[s])]
      /\ cbf' = {Aged(p) : p \in cbf}
  BY DEF Tick, Idle
<1>2. /\ cbf = {} /\ \A id \in Ids \ forgotten : SingleCopy(id)
      /\ table \in [Peers -> Entries \cup {None}] /\ None \notin Entries
      /\ \A i \in DOMAIN buffer : buffer[i] \in PacketType
  BY <1>1, TypeParts, TableIsOfEntries, ElementOfSeq, LenProperties DEF CopyInv, BufferTypes
<1>3. FreshTable' /\ cbf' = {}
  BY <1>1, <1>2 DEF FreshTable
<1>4. ASSUME NEW id
      PROVE  Has(buffer', id) = Has(buffer, id) /\ Once(buffer', id) = Once(buffer, id)
  <2>1. DOMAIN buffer' = DOMAIN buffer
    BY <1>1
  <2>2. \A i \in DOMAIN buffer : Copy(id, buffer'[i]) = Copy(id, buffer[i])
    BY <1>1, <1>2, AgedType DEF Copy
  <2> QED
    BY <2>1, <2>2 DEF Has, Once
<1>5. ASSUME NEW id \in Listed(table)
      PROVE  id \in Listed(table')
  <2>1. id \in Ids /\ table[id[1]] # None /\ Duplicate(table[id[1]], id[2])
    BY DEF Listed
  <2>2. id[1] \in Peers
    <3>1. PICK q \in Inputs : id = <<q.src, q.sn>>
      BY <2>1 DEF Ids
    <3>2. q.src \in Peers
      BY InputAssumption DEF InputType
    <3> QED
      BY <3>1, <3>2
  <2> DEFINE s == id[1]
  <2>3. table[s] \in Entries
    BY <1>2, <2>1, <2>2
  <2>4. table'[s] = AgedEntry(table[s]) /\ AgedEntry(table[s]) \in Entries
        /\ AgedEntry(table[s]).dpl = table[s].dpl
    BY <1>1, <2>1, <2>2, <2>3, AgedEntryType
  <2>5. table'[s] # None /\ Duplicate(table'[s], id[2])
    BY <1>2, <2>1, <2>4 DEF Duplicate
  <2> QED
    BY <2>1, <2>5 DEF Listed
<1>6. ASSUME NEW id \in Ids \ forgotten
      PROVE  SingleCopy(id)'
  BY <1>1, <1>2, <1>4, <1>5 DEF SingleCopy
<1> QED
  BY <1>1, <1>3, <1>6

LEMMA CopyStep ==
  ASSUME TypeOK, CopyInv, [Next]_vars
  PROVE  CopyInv'
<1>1. CASE Indicate
  BY <1>1, IndicateCopies
<1>2. CASE Flush
  BY <1>2, FlushCopies
<1>3. ASSUME NEW rx \in Inputs, IndicateSingleHop(rx) PROVE CopyInv'
  BY <1>3, SingleHopCopies
<1>4. ASSUME NEW rx \in Inputs, IndicateMultiHop(rx) PROVE CopyInv'
  BY <1>4, MultiHopCopies
<1>5. CASE /\ UNCHANGED <<mib, cbf, table, buffer, flushing, seen, forgotten>>
           /\ indicated' => indicated
  BY <1>5, CopiesUntouched DEF CopyInv, FreshTable
<1>6. ASSUME NEW rx \in Inputs, IndicateMalformed(rx) PROVE CopyInv'
  BY <1>5, <1>6 DEF IndicateMalformed, Received, Discard
<1>7. ASSUME NEW r \in Requests, Request(r) PROVE CopyInv'
  BY <1>7, RequestCopies
<1>8. CASE BeaconTimer
  BY <1>5, <1>8 DEF BeaconTimer
<1>9. ASSUME NEW p \in cbf, CbfTimer(p) \/ CbfDrop(p) PROVE CopyInv'
  BY <1>9 DEF CbfTimer, CbfDrop, CopyInv
<1>10. ASSUME NEW d \in Distances, PositionFix(d) PROVE CopyInv'
  BY <1>5, <1>10 DEF PositionFix
<1>11. CASE Prepare
  <2>1. /\ UNCHANGED <<mib, cbf, table, indicated, seen, forgotten>>
        /\ flushing = <<>> /\ StartFlush
    BY <1>11 DEF Prepare, Idle
  <2> QED
    BY <2>1, CopiesTakenOut DEF CopyInv, FreshTable
<1>12. CASE EndChange
  BY <1>5, <1>12 DEF EndChange
<1>13. CASE Tick
  BY <1>13, TickCopies
<1>14. CASE UNCHANGED vars
  BY <1>5, <1>14 DEF vars, air
<1> QED
  BY <1>1, <1>2, <1>3, <1>4, <1>6, <1>7, <1>8, <1>9, <1>10, <1>11, <1>12, <1>13, <1>14
     DEF Next

\* Duplicate packet detection: without contention a station sends a packet on
\* at most once, however many copies arrive, however often they are stored
\* and flushed and wherever the station moves, unless its duplicate packet
\* list has lost the packet.
THEOREM ForwardsOnce == Spec => []ForwardedOnce
<1>1. Init => CopyInv
  <2> SUFFICES ASSUME Init PROVE CopyInv
    OBVIOUS
  <2>1. buffer = <<>> /\ flushing = <<>> /\ cbf = {} /\ ~indicated /\ \A id \in Ids : seen[id] = 0
    BY DEF Init
  <2>2. \A id \in Ids : SingleCopy(id)
    BY <2>1, NothingInEmpty DEF SingleCopy
  <2> QED
    BY <2>1, <2>2 DEF CopyInv, FreshTable
<1>2. CopyInv => ForwardedOnce
  BY DEF CopyInv, SingleCopy, ForwardedOnce, Plain
<1> QED
  BY <1>1, <1>2, RouterTypes, CopyStep, PTL DEF Spec
=============================================================================
