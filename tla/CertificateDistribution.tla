----------------------- MODULE CertificateDistribution -----------------------
(***************************************************************************)
(* Peer-to-peer certificate distribution between stations (TS 103 097      *)
(* clause 7.1.1): each station is a SecurityEntity                         *)
(* (ports/esp_idf/src/security.cpp) with its header policy, certificate    *)
(* cache and learned authorities.  A station signs a message, the radio    *)
(* delivers it to some of the others, and each of them verifies it, asks   *)
(* for what it cannot resolve and answers what it is asked.                *)
(*                                                                         *)
(* Verification is reduced to what distribution depends on: whether the    *)
(* signer's certificate and its issuer are known.  Authorities are issued  *)
(* by the root every station was provisioned with.                         *)
(***************************************************************************)
EXTENDS SignHeaderPolicy, FiniteSets, FiniteSetsExt

CONSTANTS
  Stations,
  Tickets,        \* authorization tickets
  Authorities,    \* certificates that issue them
  Owner,          \* ticket -> the station that has it in its pool
  Issuer,         \* ticket -> authority
  Provisioned,    \* station -> authorities of its TrustConfiguration
  Traffics,       \* what the stations send: functions from station to ITS-AIDs
  CacheLimit,     \* certificate_cache_limit
  LearnedLimit,   \* learned_authority_limit
  MaxDisruptions  \* bound: ticket changes, refusals, restarts and messages
                  \* that not everybody hears, in all

ASSUME DistributionAssumption ==
  /\ Owner \in [Tickets -> Stations] /\ Issuer \in [Tickets -> Authorities]
  /\ Provisioned \in [Stations -> SUBSET Authorities]
  /\ Traffics \subseteq [Stations -> SUBSET Aids]
  /\ CacheLimit \in Nat /\ LearnedLimit \in Nat
  /\ MaxDisruptions \in Nat

VARIABLES
  traffic,     \* one of Traffics, chosen at the start
  own,         \* station -> its current ticket
  entity,      \* station -> state of its SecurityEntity, see NewEntity
  disruptions,
  shown,       \* ticket -> age of the last message sent that carried it (history)
  spoilt       \* ticket -> age of the last message that would have carried it
               \* and was refused (history)

history == <<shown, spoilt>>
vars == <<traffic, own, entity, disruptions, history>>

\* The header policy, the certificates (m_storage) and the announced signers
\* (m_digests) of the cache, the authorities learned, oldest first.
NewEntity == [policy |-> NewPolicy, storage |-> {}, digests |-> {}, learned |-> <<>>]

Certificates == Tickets \cup Authorities
TicketsOf(s) == {t \in Tickets : Owner[t] = s}
Known(s, learned) == Provisioned[s] \cup Pending(learned)

-----------------------------------------------------------------------------
(* Reception of the message m by station s: SecurityEntity::Impl::verify() *)
(* on the state e of its entity.                                           *)

\* learn_authority()
LearnAuthority(s, e, m) ==
  IF m.requested = None \/ m.requested \in Known(s, e.learned) THEN e
  ELSE [e EXCEPT !.learned =
          Append(IF Len(@) >= LearnedLimit /\ @ # <<>> THEN Tail(@) ELSE @, m.requested)]

\* The signer is announced; a CAM may ask for certificates and bring one.
Announce(e, m) ==
  LET new == m.aid = "CAM" /\ m.at \notin e.digests IN
  [e EXCEPT !.digests = @ \cup {m.at},
            !.policy.cam_requested = @ \/ new]

\* The requests ids that a CAM carries, added one by one.
AddRequests(fifo, ids) ==
  LET added[n \in 0 .. Len(ids)] ==
        IF n = 0 THEN fifo ELSE add_request(added[n - 1], ids[n])
  IN  added[Len(ids)]

P2pRequests(e, m) ==
  IF m.aid # "CAM" THEN e ELSE
  [e EXCEPT !.policy.incoming = discard_request(AddRequests(@, m.inline), m.requested)]

\* Signer lookup and chain: what is missing is asked for, a certificate that
\* proved valid is stored.
Unresolved(e, m) == ~m.full /\ m.at \notin e.storage

\* Deviation: an unknown issuer is not asked for.
Resolve_NoIssuer(s, e, m) ==
  LET issuer == Issuer[m.at] IN
  IF Unresolved(e, m)
  THEN IF m.aid = "CAM"
       THEN [e EXCEPT !.policy = request_unrecognized_certificate(@, m.at)] ELSE e
  ELSE IF issuer \notin Known(s, e.learned) \/ m.at \in e.storage THEN e
  ELSE [e EXCEPT !.storage = @ \cup {m.at}, !.digests = @ \cup {m.at},
                 !.policy.cam_requested = @ \/ m.aid = "CAM"]
Resolve(s, e, m) ==
  LET issuer == Issuer[m.at] IN
  IF Unresolved(e, m)
  THEN IF m.aid = "CAM"
       THEN [e EXCEPT !.policy = request_unrecognized_certificate(@, m.at)] ELSE e
  ELSE IF issuer \notin Known(s, e.learned)
  THEN IF issuer \in e.digests THEN e
       ELSE [e EXCEPT !.policy = request_unrecognized_certificate(@, issuer)]
  ELSE IF m.at \in e.storage THEN e
  ELSE [e EXCEPT !.storage = @ \cup {m.at}, !.digests = @ \cup {m.at},
                 !.policy.cam_requested = @ \/ m.aid = "CAM"]

\* The cache is replaced by an empty one beyond its limit.
Bounded(e) ==
  IF Cardinality(e.storage) > CacheLimit THEN [e EXCEPT !.storage = {}, !.digests = {}] ELSE e

\* verify() of the message m at the stations of R, and the own policy p of
\* its sender s.
Deliver(s, p, m, R) ==
  \E learnt \in {[r \in R |-> Announce(LearnAuthority(r, entity[r], m), m)]} :
  \E worked \in {[r \in R |-> P2pRequests(learnt[r], m)]} :
  \E resolved \in {[r \in R |-> Resolve(r, worked[r], m)]} :
    entity' = [r \in Stations |-> IF r \in R THEN Bounded(resolved[r])
                                 ELSE IF r = s THEN [entity[s] EXCEPT !.policy = p]
                                 ELSE entity[r]]

-----------------------------------------------------------------------------
Disrupt == disruptions < MaxDisruptions /\ disruptions' = disruptions + 1

\* encapsulate_packet(): the header is prepared, the ticket found valid, the
\* message signed, sent and heard by the stations of R.
Send(s, aid, R, full) ==
  /\ aid \in traffic[s] /\ s \notin R
  /\ \/ R = Stations \ {s} /\ UNCHANGED disruptions
     \/ R # Stations \ {s} /\ Disrupt
  /\ UNCHANGED <<traffic, own, spoilt>>
  /\ shown' = [shown EXCEPT ![own[s]] = IF full THEN 0 ELSE @]
  /\ \E prepared \in {prepare_header(entity[s].policy, aid, own[s], Provisioned[s])} :
       /\ prepared.header.full = full
       /\ Deliver(s, prepared.policy, prepared.header, R)

\* encapsulate_packet() when valid_for_signing() refuses the ticket, or the
\* backend throws: the header has been prepared by then.
SignRefused(s, aid) ==
  /\ Disrupt
  /\ aid \in traffic[s]
  /\ \E prepared \in {prepare_header(entity[s].policy, aid, own[s], Provisioned[s])} :
       /\ entity' = [entity EXCEPT ![s].policy = prepared.policy]
       /\ spoilt' = [spoilt EXCEPT ![own[s]] = IF prepared.header.full THEN 0 ELSE @]
  /\ UNCHANGED <<traffic, own, shown>>

\* Another ticket becomes current: at COMMIT, with the policy reset by
\* on_committed(), or through the pool alone.
ChangeTicket(s, t, committed) ==
  /\ Disrupt
  /\ t \in TicketsOf(s) \ {own[s]}
  /\ own' = [own EXCEPT ![s] = t]
  /\ entity' = [entity EXCEPT ![s].policy =
                  IF committed THEN reset_after_identifier_change(@) ELSE @]
  /\ UNCHANGED <<traffic, history>>

\* report_new_cam_signer(), called by the application
NewCamSigner(s) ==
  /\ traffic[s] \cap Vams # {}
  /\ entity' = [entity EXCEPT ![s].policy = report_new_cam_signer(@)]
  /\ UNCHANGED <<traffic, own, disruptions, history>>

\* The station restarts: all but the provisioned credentials is lost.
Restart(s) ==
  /\ Disrupt
  /\ entity' = [entity EXCEPT ![s] = NewEntity]
  /\ UNCHANGED <<traffic, own, history>>

Tick ==
  /\ entity' = [s \in Stations |-> [entity[s] EXCEPT !.policy = Elapsed(@)]]
  /\ shown' = [t \in Tickets |-> Aged(shown[t])]
  /\ spoilt' = [t \in Tickets |-> Aged(spoilt[t])]
  /\ UNCHANGED <<traffic, own, disruptions>>

Init ==
  /\ traffic \in Traffics
  /\ own \in [Stations -> Tickets] /\ \A s \in Stations : Owner[own[s]] = s
  /\ entity = [s \in Stations |-> NewEntity]
  /\ disruptions = 0
  /\ shown = [t \in Tickets |-> OneSecond] /\ spoilt = [t \in Tickets |-> OneSecond]

Next ==
  \/ \E s \in Stations, aid \in Aids, R \in SUBSET Stations, full \in BOOLEAN :
       Send(s, aid, R, full)
  \/ \E s \in Stations, aid \in Aids : SignRefused(s, aid)
  \/ \E s \in Stations, t \in Tickets, committed \in BOOLEAN : ChangeTicket(s, t, committed)
  \/ \E s \in Stations : Restart(s) \/ NewCamSigner(s)
  \/ Tick

Spec == Init /\ [][Next]_vars

\* Stations keep sending CAMs that are heard, again and again within a second
\* of one with the certificate.
Fairness ==
  /\ WF_vars(Tick)
  /\ \A s \in Stations :
       /\ WF_vars(Send(s, "CAM", Stations \ {s}, TRUE))
       /\ SF_vars(Send(s, "CAM", Stations \ {s}, FALSE))
FairSpec == Spec /\ Fairness

-----------------------------------------------------------------------------
Ages == 0 .. OneSecond
Once(fifo) == \A i, j \in DOMAIN fifo : fifo[i] = fifo[j] => i = j
Requests == {fifo \in Seq(Certificates) : Len(fifo) <= RequestLimit /\ Once(fifo)}
Policies ==
  [cam_last : Ages, cam_requested : BOOLEAN, incoming : Requests, outgoing : Requests,
   vam_last : Ages, new_cam_signer : BOOLEAN, generic_last : [Generic -> Ages],
   signer : Tickets \cup {None}]

\* Type correctness of the station, its queues and caches within their limits:
\* no tracker holds an id twice (the assertion m_fifo.size() == m_lookup.size()
\* of peer_request_tracker.cpp), every stored certificate counts as announced.
TypeOK ==
  /\ traffic \in Traffics /\ own \in [Stations -> Tickets]
  /\ entity \in [Stations -> [policy : Policies, storage : SUBSET Tickets,
                              digests : SUBSET Tickets, learned : Seq(Authorities)]]
  /\ \A s \in Stations :
       /\ entity[s].storage \subseteq entity[s].digests
       /\ Cardinality(entity[s].storage) <= CacheLimit
       /\ Len(entity[s].learned) <= Max({1, LearnedLimit}) /\ Once(entity[s].learned)
  /\ disruptions \in 0 .. MaxDisruptions
  /\ shown \in [Tickets -> Ages] /\ spoilt \in [Tickets -> Ages]

\* The next message of station s on aid would name its ticket by the digest.
ByDigest(s, aid) ==
  ~prepare_header(entity[s].policy, aid, own[s], Provisioned[s]).header.full

\* Through ticket changes inside and outside the identifier-change service,
\* restarts and requests of the peers: a station names its current ticket by
\* the digest only when, less than a second ago, a message carried that ticket
\* in full, or one that would have carried it was refused
\* (Ts103097SignHeaderPolicy::prepare_header, reset_after_identifier_change).
DigestIsExplained ==
  \A s \in Stations : \A aid \in traffic[s] :
    ByDigest(s, aid) => shown[own[s]] < OneSecond \/ spoilt[own[s]] < OneSecond

Resolved(r, s) == own[s] \in entity[r].storage /\ Issuer[own[s]] \in Known(r, entity[r].learned)

\* Two stations that hear each other's CAMs come to hold, again and again, each
\* other's current ticket with a chain to the root, though they begin without
\* the other's authority, lose messages, restart, change tickets, empty their
\* caches and evict learned authorities: verify_signed() asks for what is
\* missing and cam() answers.
SignersGetResolved ==
  \A r, s \in Stations :
    (r # s /\ "CAM" \in traffic[r] \cap traffic[s]) => []<>Resolved(r, s)

(* What the documentation says and the code does not do.                   *)

\* prepare_header() restarts the timers "so the first message signed with it
\* carries the certificate.  Receivers cannot resolve the digest of a
\* certificate they have not seen": a station names its ticket by the digest
\* only when a message sent less than a second ago has carried it.  sign() asks
\* the policy before it asks whether the ticket is valid, so a message that is
\* refused takes the place of that first one.
FirstMessageCarriesTicket ==
  \A s \in Stations : \A aid \in traffic[s] :
    ByDigest(s, aid) => shown[own[s]] < OneSecond
=============================================================================
