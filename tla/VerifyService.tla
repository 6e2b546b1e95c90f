---------------------------- MODULE VerifyService ----------------------------
(***************************************************************************)
(* A receiving station: SecurityEntity::Impl::verify() with its chain      *)
(* validator, certificate cache, learned authorities and replay window     *)
(* (ports/esp_idf/src/security.cpp, vanetza/security/v3), while the         *)
(* station is provisioned, gets trust and revocation lists, changes its     *)
(* policy, restarts, and loses power in the middle of saving credentials.   *)
(*                                                                         *)
(* Signatures of certificates verify; the signature of a message verifies  *)
(* unless the message was damaged.  The position of the station is fixed.  *)
(* What verification asks of its peers is in CertificateDistribution.      *)
(***************************************************************************)
EXTENDS ChainConsistency, TrustConfiguration, FiniteSets

CONSTANTS
  Content,           \* certificate -> validity, app, issue, region, see below
  Second,            \* ticks of the clock in a second
  Year,              \* seconds in a year: 31556952
  CalendarYear,      \* seconds in a year of 365 days
  Time32,            \* number of values of a Time32, in seconds: 2^32
  Aids,              \* ITS-AIDs of the messages received
  Messages,          \* messages that may be received, see Message
  Here,              \* the place the station is at
  Bundles,           \* credentials the station may be given
  RevocationLists,   \* sets of certificates a root's CRL may name
  CacheLimit,        \* certificate_cache_limit
  ChainCapacity,     \* verified_chain_cache
  LearnedLimit,      \* learned_authority_limit
  ReplayWindow,      \* replay_window
  MaxAge, Tolerance, \* generation_time_max_age, .._future_tolerance
  None,
  MaxTime,           \* bound on the clock
  MaxEvents,         \* bound on lists, provisionings, policy changes, restarts
  MaxAccepted        \* bound on the messages accepted between two restarts

\* [start: in seconds; duration: a unit and a number of it, see Units; app: set
\* of psid and ssp; issue: set of groups; region; assurance: a level, or 0 for
\* none]
Tickets == DOMAIN Content \ Authorities

\* Microseconds and milliseconds are "ticks"; minutes, hours and sixty hours
\* are whole "seconds" to all who reckon with them.
Units == {"nothing", "ticks", "seconds", "years"}

ASSUME VerifyAssumption ==
  /\ Authorities \subseteq DOMAIN Content /\ Issuer \in [DOMAIN Content -> Authorities]
  /\ \A c \in DOMAIN Content :
       Content[c].start \in Nat /\ Content[c].duration \in [unit : Units, count : Nat]
  /\ {Second, CalendarYear, Year, Time32} \subseteq Nat \ {0} /\ CalendarYear <= Year
  /\ RevocationLists \subseteq SUBSET DOMAIN Content
  /\ {CacheLimit, ChainCapacity, LearnedLimit, ReplayWindow} \subseteq Nat \ {0}
  /\ {MaxTime, MaxEvents, MaxAccepted} \subseteq Nat
  /\ \A cr \in Bundles : {cr.roots, cr.authorities, cr.tickets} \subseteq Seq(DOMAIN Content)

VARIABLES
  now,
  holdings,   \* TrustConfiguration and pool
  entity,     \* the SecurityEntity, see NewEntity
  file,       \* the credential store
  events,
  accepted,   \* ticket and ITS-AID of the message just accepted, or None
  log,        \* signer and time of all accepted since the start (history)
  saved,      \* the credentials last given to save() (history)
  lax         \* tickets whose chain was found good under the permissive
              \* policy and remembered (history)

history == <<log, saved, lax>>
vars == <<now, holdings, entity, file, events, accepted, history>>

\* m_storage of the cache, verified_ of the chain validator, learned_, the
\* replay window, oldest first, and the policy for identified regions.
NewEntity ==
  [storage |-> {}, verified |-> {}, learned |-> <<>>, window |-> <<>>, permissive |-> TRUE]

Elements(s) == {s[i] : i \in DOMAIN s}
Known(e) == holdings.issuers \cup Elements(e.learned)

-----------------------------------------------------------------------------
(* Validity of a signing certificate *)

\* From a certificate up, as far as issuers are known, eight at most.
Chain(c, known) ==
  LET up[n \in 1 .. 8] ==
        IF n = 1 THEN <<c>>
        ELSE LET below == up[n - 1]
                 last == below[Len(below)]
             IN IF Self(last) \/ Issuer[last] \notin known THEN below
                ELSE Append(below, Issuer[last])
  IN up[8]

is_allowed_to_issue(c, aid) ==
  \E g \in Content[c].issue : g.all \/ \E k \in DOMAIN g.ranges : g.ranges[k].psid = aid
valid_for_application(c, aid) == \E a \in Content[c].app : a.psid = aid

\* The end of the validity period, in ticks and exact ...
Expiry(c) ==
  LET d == Content[c].duration IN
  Content[c].start * Second
    + CASE d.unit = "nothing" -> 0
        [] d.unit = "ticks" -> d.count
        [] d.unit = "seconds" -> d.count * Second
        [] d.unit = "years" -> d.count * (Year * Second)
valid_at_timepoint(c) == Content[c].start * Second <= now /\ now < Expiry(c)

\* ... and as get_start_and_end_validity() has it: whole seconds, years of 365
\* days, and modulo the width of a Time32, in which int overflows are lost too.
end_validity(c) ==
  LET d == Content[c].duration IN
  (Content[c].start
    + CASE d.unit = "nothing" -> 0
        [] d.unit = "ticks" -> d.count \div Second
        [] d.unit = "seconds" -> d.count
        [] d.unit = "years" -> d.count * CalendarYear) % Time32

valid_at_location(c, permissive) ==
  LET region == Content[c].region IN
  \/ region.kind = "none"
  \/ region.kind = "identified" /\ permissive  \* no country database
  \/ region.kind \notin {"none", "identified"} /\ Here \in region.covers

is_chain_anchored(chain) == chain[Len(chain)] \in holdings.roots

check_time_consistency(subject, issuer) ==
  /\ Content[issuer].start <= Content[subject].start
  /\ end_validity(issuer) >= end_validity(subject)

check_consistency(subject, issuer, aid) ==
  LET s == Content[subject] i == Content[issuer] IN
  /\ check_time_consistency(subject, issuer)
  /\ IF subject \in Authorities THEN is_allowed_to_issue(subject, aid)
     ELSE valid_for_application(subject, aid)
  /\ is_allowed_to_issue(issuer, aid)
  /\ s.assurance = 0 \/ (i.assurance # 0 /\ s.assurance <= i.assurance)

chain_is_consistent(chain, aid) ==
  \A k \in 1 .. Len(chain) - 1 : check_consistency(chain[k], chain[k + 1], aid)

chain_is_revoked(chain) ==
  \E k \in 1 .. Len(chain) - 1 : <<chain[k + 1], chain[k]>> \in holdings.revoked

\* DefaultCertificateValidator::valid_for_signing()
valid_for_signing(e, c, aid) ==
  LET chain == Chain(c, Known(e)) IN
  /\ valid_for_application(c, aid)
  /\ valid_at_timepoint(c)
  /\ is_chain_anchored(chain)
  /\ chain_is_consistent(chain, aid)
  /\ ~chain_is_revoked(chain)
  /\ IF Content[c].region.kind # "none" THEN valid_at_location(c, e.permissive)
     ELSE valid_at_location(Issuer[c], e.permissive)

\* The part of ChainValidator::valid_for_signing() whose result is remembered.
ChainVerifies(e, c) ==
  LET chain == Chain(c, Known(e))
      contents == [k \in DOMAIN chain |-> Content[chain[k]]]
  IN /\ Len(chain) <= 5
     /\ chain_consistent(contents)
     /\ \A k \in 1 .. Len(chain) - 1 :
          region_within(contents[k].region, contents[k + 1].region, e.permissive)

\* Deviation: a remembered ticket is taken without looking at it again.
ValidSigner_CacheFirst(e, c, aid) ==
  c \in e.verified \/ (valid_for_signing(e, c, aid) /\ ChainVerifies(e, c))
ValidSigner(e, c, aid) ==
  valid_for_signing(e, c, aid) /\ (c \in e.verified \/ ChainVerifies(e, c))

\* Deviation: the full set of verified tickets is not emptied.
Remember_All(e, c) == [e EXCEPT !.verified = @ \cup {c}]
Remember(e, c) ==
  [e EXCEPT !.verified = IF c \in @ THEN @
                         ELSE (IF Cardinality(@) >= ChainCapacity THEN {} ELSE @) \cup {c}]

-----------------------------------------------------------------------------
(* verify() of a message: the ticket that signs it, whether it is in the   *)
(* message (full), generation time, an authority sent along, and whether   *)
(* it arrived undamaged.                                                   *)

Message ==
  [at : Tickets, full : BOOLEAN, aid : Aids, time : Nat,
   requested : Authorities \cup {None}, intact : BOOLEAN]
ASSUME MessageAssumption == Messages \subseteq Message

\* check_profile(): a DENM carries the certificate.
check_profile(m) == m.aid = "DENM" => m.full

learn_authority(e, c) ==
  IF c = None \/ Self(c) \/ c \in Known(e) \/ Issuer[c] \notin Known(e) THEN e
  ELSE [e EXCEPT !.learned =
          Append(IF Len(@) >= LearnedLimit THEN Tail(@) ELSE @, c)]

Fresh(m) == m.time <= now + Tolerance /\ m.time + MaxAge >= now

\* Deviation: room is made in the window before it is searched.
Replayed_Room(e, m) ==
  <<m.at, m.time>> \in
    Elements(IF Len(e.window) >= ReplayWindow THEN Tail(e.window) ELSE e.window)
Replayed(e, m) == <<m.at, m.time>> \in Elements(e.window)

Admit(e, m) ==
  [e EXCEPT !.window = Append(IF Len(@) >= ReplayWindow THEN Tail(@) ELSE @, <<m.at, m.time>>)]

Bounded(e) == IF Cardinality(e.storage) > CacheLimit THEN [e EXCEPT !.storage = {}] ELSE e

\* The entity after the signature of m was checked: what was remembered and
\* stored stays even when the message is then found old or repeated.
Checked(e, m) ==
  LET signer == m.full \/ m.at \in e.storage
      valid == signer /\ ValidSigner(e, m.at, m.aid)
      known == IF valid THEN Remember(e, m.at) ELSE e
  IN [success |-> valid /\ m.intact,
      e |-> IF valid /\ m.intact /\ m.full THEN [known EXCEPT !.storage = @ \cup {m.at}] ELSE known]

Receive(m) ==
  /\ check_profile(m)
  /\ \E checked \in {Checked(learn_authority(entity, m.requested), m)} :
       LET good == checked.success /\ Fresh(m) /\ ~Replayed(checked.e, m) IN
       /\ good => Len(log) < MaxAccepted
       /\ entity' = Bounded(IF good THEN Admit(checked.e, m) ELSE checked.e)
       /\ accepted' = IF good THEN <<m.at, m.aid>> ELSE None
       /\ log' = IF good THEN Append(log, <<m.at, m.time>>) ELSE log
       /\ lax' = LET new == checked.e.verified \ entity.verified IN
                 IF entity.permissive THEN lax \cup new ELSE lax \ new
  /\ UNCHANGED <<now, holdings, file, events, saved>>

-----------------------------------------------------------------------------
Event == events < MaxEvents /\ events' = events + 1

\* pki::apply() of a trust list or a revocation list of a root
ApplyCtl(root, added) ==
  /\ Event /\ root \in holdings.roots
  /\ added # {} /\ \A c \in added : Issuer[c] = root /\ ~Self(c)
  /\ holdings' = apply_ctl(holdings, added)
  /\ accepted' = None
  /\ UNCHANGED <<now, entity, file, history>>

ApplyCrl(root, revoked) ==
  /\ Event /\ root \in holdings.roots
  /\ holdings' = apply_crl(holdings, root, revoked)
  /\ accepted' = None
  /\ UNCHANGED <<now, entity, file, history>>

\* Of the policy only what it says of identified regions changes at run time;
\* the limits and windows it also holds are CONSTANTS.
SetVerificationPolicy(permissive) ==
  /\ Event
  /\ entity' = [entity EXCEPT !.permissive = permissive]
  /\ accepted' = None
  /\ UNCHANGED <<now, holdings, file, history>>

\* Credentials arrive: they are kept in the store and applied at once.
Provision(cr) ==
  /\ Event
  /\ file' = [records |-> encode(cr), complete |-> TRUE]
  /\ saved' = cr
  /\ holdings' = apply(holdings, cr)
  /\ accepted' = None
  /\ UNCHANGED <<now, entity, log, lax>>

\* The station starts with what is in the store.
Boot(stored) ==
  /\ file' = stored
  /\ holdings' = IF decodes(stored) THEN apply(Nothing, decode(stored)) ELSE Nothing
  /\ entity' = NewEntity
  /\ accepted' = None /\ log' = <<>> /\ lax' = {}
  /\ UNCHANGED now

Restart == Event /\ Boot(file) /\ UNCHANGED saved

\* Power is lost while the store is being written.
PowerFails(cr) ==
  /\ Event
  /\ saved' = cr
  /\ \E stored \in Prefixes(encode(cr)) \cup {file} : Boot(stored)

Erase ==
  /\ Event
  /\ file' = [records |-> <<>>, complete |-> FALSE]
  /\ accepted' = None
  /\ UNCHANGED <<now, holdings, entity, history>>

Tick ==
  /\ now < MaxTime
  /\ now' = now + 1
  /\ accepted' = None
  /\ UNCHANGED <<holdings, entity, file, events, history>>

Init ==
  /\ now = 0 /\ events = 0
  /\ saved \in Bundles
  /\ file = [records |-> encode(saved), complete |-> TRUE]
  /\ holdings = apply(Nothing, saved)
  /\ entity = NewEntity
  /\ accepted = None /\ log = <<>> /\ lax = {}

Next ==
  \/ \E m \in Messages : Receive(m)
  \/ \E root \in Authorities, c \in SUBSET Authorities : ApplyCtl(root, c)
  \/ \E root \in Authorities, c \in RevocationLists : ApplyCrl(root, c)
  \/ \E permissive \in BOOLEAN : SetVerificationPolicy(permissive)
  \/ \E cr \in Bundles : Provision(cr) \/ PowerFails(cr)
  \/ Restart \/ Erase \/ Tick

Spec == Init /\ [][Next]_vars

-----------------------------------------------------------------------------
\* Type correctness, with the limits of the caches and the replay window.
TypeOK ==
  /\ now \in 0 .. MaxTime /\ events \in 0 .. MaxEvents
  /\ holdings.roots \subseteq holdings.issuers /\ holdings.issuers \subseteq Authorities
  /\ holdings.revoked \subseteq Authorities \X DOMAIN Content /\ holdings.pool \subseteq Tickets
  /\ entity.storage \subseteq Tickets /\ Cardinality(entity.storage) <= CacheLimit
  /\ entity.verified \subseteq Tickets /\ Cardinality(entity.verified) <= ChainCapacity
  /\ entity.learned \in Seq(Authorities) /\ Len(entity.learned) <= LearnedLimit
  /\ Elements(entity.learned) \cap holdings.roots = {}
  /\ entity.window \in Seq(Tickets \X Nat) /\ Len(entity.window) <= ReplayWindow
  /\ entity.permissive \in BOOLEAN /\ file.complete \in BOOLEAN
  /\ accepted = None \/ accepted \in Tickets \X Aids
  /\ saved \in Bundles /\ lax \subseteq Tickets /\ Len(log) <= MaxAccepted

\* The issuers of a certificate up to its root, whoever knows them.
Path(c) == Chain(c, Authorities)

\* By how much the end of a certificate, as its issuer is compared with it, is
\* before its end as it is enforced: nothing for a period in seconds or longer
\* units that ends before Time32 does, 5.8 hours for each year.
Shortfall(c) == Expiry(c) - end_validity(c) * Second

\* A message is accepted only while, at that moment, its ticket is in its
\* validity period, every certificate above it is known, has become valid and
\* has expired, if at all, for less than the shortfall of the ticket, none is on
\* the revocation lists as they stand, the root is an anchor of the station,
\* every issuer's permissions cover the ticket's, and the regions nest (under
\* the policy by which the chain was last looked at), whatever was cached,
\* learned, evicted, listed or provisioned before (verify_signed,
\* ChainValidator, check_time_consistency).
AcceptedIsAuthorised ==
  accepted # None =>
    LET at == accepted[1]
        path == Path(at)
        contents == [k \in DOMAIN path |-> Content[path[k]]]
    IN /\ path[Len(path)] \in holdings.roots
       /\ \A k \in 2 .. Len(path) : path[k] \in Known(entity)
       /\ valid_at_timepoint(at)
       /\ \A k \in DOMAIN path :
            Content[path[k]].start * Second <= now /\ now < Expiry(path[k]) + Shortfall(at)
       /\ \A k \in 1 .. Len(path) - 1 :
            /\ <<path[k + 1], path[k]>> \notin holdings.revoked
            /\ region_within(contents[k].region, contents[k + 1].region,
                             entity.permissive \/ at \in lax)
       /\ valid_for_application(at, accepted[2]) /\ chain_consistent(contents)

\* "a message whose (signer digest, generationTime) pair was already accepted is
\* DUPLICATE_MESSAGE" (security.hpp): between two acceptances of the same pair
\* the station has restarted or accepted a window full of others, through all
\* changes of its trust and with the cached certificates coming and going.
ReplaysAreApart ==
  \A i, j \in DOMAIN log : i < j /\ log[i] = log[j] => j - i > ReplayWindow

\* However provisioning was interrupted, a station that holds a ticket holds the
\* ticket's whole chain: records are written and applied roots first, up to the
\* first refusal, and of a torn bundle nothing is applied unless it was torn
\* between two records (FileCredentialStore::save and load, apply).
TicketsComeWithChain ==
  \A t \in holdings.pool : LET path == Path(t) IN
    /\ \A k \in 2 .. Len(path) : path[k] \in holdings.issuers
    /\ path[Len(path)] \in holdings.roots
=============================================================================
