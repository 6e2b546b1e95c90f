------------------------- MODULE TrustConfiguration -------------------------
(***************************************************************************)
(* What a station trusts and holds, and how it is provisioned: the         *)
(* TrustConfiguration and the tickets of the CertificatePool               *)
(* (ports/esp_idf/src/security.cpp), the credential bundle and its store   *)
(* (credentials.cpp), and the trust and revocation lists of a root         *)
(* (pki.cpp).  The holdings are a record, each operation a function of it. *)
(*                                                                         *)
(* Certificates are named; a certificate is its own digest.  The octets of *)
(* a bundle are its records in order, and whether the last one is complete. *)
(***************************************************************************)
EXTENDS Naturals, Sequences, Selection

CONSTANTS
  Authorities,  \* certificates with certIssuePermissions, the roots included
  Issuer        \* certificate -> its issuer, itself for a root

Self(c) == Issuer[c] = c

\* roots_, the issuers_ (the roots included), the revocations_ as pairs of
\* issuer and certificate, the tickets of the pool.
Nothing == [roots |-> {}, issuers |-> {}, revoked |-> {}, pool |-> {}]

-----------------------------------------------------------------------------
(* TrustConfiguration and CertificatePool *)

may_add_root(c) == Self(c) /\ c \in Authorities
add_root(h, c) == [h EXCEPT !.roots = @ \cup {c}, !.issuers = @ \cup {c}]

may_add_authority(h, c) == ~Self(c) /\ c \in Authorities /\ c \notin h.issuers
add_authority(h, c) == [h EXCEPT !.issuers = @ \cup {c}]

\* A second copy of a ticket is refused.
may_add_ticket(h, c) == c \notin Authorities /\ c \notin h.pool
add_ticket(h, c) == [h EXCEPT !.pool = @ \cup {c}]

-----------------------------------------------------------------------------
(* Lists signed by a root *)

\* apply(RcaTrustList): new authorities are added, known ones and the list's
\* deletions are passed over.
apply_ctl(h, added) ==
  [h EXCEPT !.issuers = @ \cup {c \in added : may_add_authority(h, c)}]

\* apply(RevocationList): the root's revocations are replaced, whatever the
\* age of the list.
apply_crl(h, root, revoked) ==
  [h EXCEPT !.revoked = {e \in @ : e[1] # root} \cup {<<root, c>> : c \in revoked}]

-----------------------------------------------------------------------------
(* The credential bundle *)

Record(type, c) == [type |-> type, of |-> c]
Records(type, certificates) == [n \in DOMAIN certificates |-> Record(type, certificates[n])]

\* Each ticket is followed by its key.
WithKeys(tickets) ==
  [n \in 1 .. 2 * Len(tickets) |->
     Record(IF n % 2 = 1 THEN "ticket" ELSE "key", tickets[(n + 1) \div 2])]

\* Deviation: the tickets are written first.
encode_TicketsFirst(cr) ==
  WithKeys(cr.tickets) \o Records("root", cr.roots) \o Records("authority", cr.authorities)
encode(cr) ==
  Records("root", cr.roots) \o Records("authority", cr.authorities) \o WithKeys(cr.tickets)

\* decode() succeeds: complete records, and a key after each ticket only.
decodes(file) ==
  /\ file.complete
  /\ \A n \in DOMAIN file.records :
       /\ file.records[n].type = "ticket" =>
            n < Len(file.records) /\ file.records[n + 1].type = "key"
       /\ file.records[n].type = "key" => n > 1 /\ file.records[n - 1].type = "ticket"

OfType(records, type) ==
  LET some == Selected(records, {n \in DOMAIN records : records[n].type = type})
  IN  [n \in DOMAIN some |-> some[n].of]
decode(file) ==
  [roots |-> OfType(file.records, "root"), authorities |-> OfType(file.records, "authority"),
   tickets |-> OfType(file.records, "ticket")]

\* What an interrupted save() leaves in a file that was truncated first: the
\* records up to some octet, the last of them complete or not.
Prefixes(records) ==
  {[records |-> SubSeq(records, 1, n), complete |-> whole] :
     n \in 0 .. Len(records) - 1, whole \in BOOLEAN}

\* apply(Credentials): roots, authorities and tickets one by one, up to the
\* first that is refused.
Items(cr) ==
  Records("root", cr.roots) \o Records("authority", cr.authorities) \o Records("ticket", cr.tickets)
accepts(h, item) ==
  \/ item.type = "root" /\ may_add_root(item.of)
  \/ item.type = "authority" /\ may_add_authority(h, item.of)
  \/ item.type = "ticket" /\ may_add_ticket(h, item.of)
add(h, item) ==
  CASE item.type = "root"      -> add_root(h, item.of)
    [] item.type = "authority" -> add_authority(h, item.of)
    [] item.type = "ticket"    -> add_ticket(h, item.of)
apply(h, cr) ==
  LET items == Items(cr)
      step[n \in 0 .. Len(items)] ==
        IF n = 0 THEN [h |-> h, go |-> TRUE]
        ELSE LET before == step[n - 1] IN
             IF before.go /\ accepts(before.h, items[n])
             THEN [h |-> add(before.h, items[n]), go |-> TRUE]
             ELSE [before EXCEPT !.go = FALSE]
  IN step[Len(items)].h
=============================================================================
