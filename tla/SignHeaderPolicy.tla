-------------------------- MODULE SignHeaderPolicy --------------------------
(***************************************************************************)
(* Ts103097SignHeaderPolicy (ports/esp_idf/src/sign_header_policy.cpp):    *)
(* which header and which signer identifier a message gets.  The state of  *)
(* one station's policy is a record and each operation a function of it.   *)
(*                                                                         *)
(* The time a certificate was last included is kept as its age, which      *)
(* stops at one second: no interval is longer.  A timer that was never     *)
(* started has that age, as elapsed() says.  Digests are the certificates  *)
(* they are taken of; truncate() is assumed to keep them apart.            *)
(***************************************************************************)
EXTENDS PeerRequestTracker

CONSTANTS
  HalfSecond,  \* in ticks
  Generic,     \* ITS-AIDs of the generic profile
  None         \* no certificate

ASSUME PolicyAssumption ==
  /\ HalfSecond \in Nat \ {0}
  /\ Generic \cap {"CAM", "DENM", "VAM", "clusterVAM"} = {}

OneSecond == 2 * HalfSecond

\* Aids: cooperative awareness, DENM, VAM of one road user and of a cluster.
Vams == {"VAM", "clusterVAM"}
Aids == {"CAM", "DENM"} \cup Vams \cup Generic

NewPolicy ==
  [cam_last |-> OneSecond, cam_requested |-> FALSE, incoming |-> <<>>, outgoing |-> <<>>,
   vam_last |-> OneSecond, new_cam_signer |-> FALSE,
   generic_last |-> [a \in Generic |-> OneSecond], signer |-> None]

\* The signer identifier and the header of a message signed with ticket at.
Header(aid, at, full) ==
  [aid |-> aid, at |-> at, full |-> full, inline |-> <<>>, requested |-> None]

-----------------------------------------------------------------------------
\* The trackers and new_cam_signer are left alone.
reset_after_identifier_change(p) ==
  [p EXCEPT !.cam_last = OneSecond, !.cam_requested = FALSE, !.vam_last = OneSecond,
            !.generic_last = [a \in Generic |-> OneSecond]]

request_unrecognized_certificate(p, id) == [p EXCEPT !.outgoing = add_request(@, id)]
request_certificate(p) == [p EXCEPT !.cam_requested = TRUE]
report_new_cam_signer(p) == [p EXCEPT !.new_cam_signer = TRUE]

\* cam(): the first authority a peer asked for that this station knows is
\* sent along, but never together with the own certificate.
cam(p, at, authorities) ==
  LET asked == is_pending(p.incoming, at)
      waiting == discard_request(p.incoming, at)
      full == p.cam_requested \/ asked \/ p.cam_last >= OneSecond
      stop == next_wanted(waiting, authorities)
      answer == IF full \/ stop > Len(waiting) THEN None ELSE waiting[stop]
  IN [policy |-> [p EXCEPT !.cam_last = IF full THEN 0 ELSE @,
                           !.cam_requested = FALSE,
                           !.outgoing = <<>>,
                           !.incoming = IF full THEN waiting
                                        ELSE SubSeq(waiting, stop + 1, Len(waiting))],
      header |-> [Header("CAM", at, full) EXCEPT !.inline = p.outgoing,
                                                 !.requested = answer]]

vam(p, aid, at) ==
  LET attach == IF aid = "clusterVAM" THEN p.vam_last >= HalfSecond
                ELSE p.new_cam_signer \/ p.vam_last >= OneSecond
  IN [policy |-> IF attach THEN [p EXCEPT !.vam_last = 0, !.new_cam_signer = FALSE] ELSE p,
      header |-> Header(aid, at, attach)]

generic(p, aid, at) ==
  LET full == p.generic_last[aid] >= OneSecond
  IN [policy |-> IF full THEN [p EXCEPT !.generic_last[aid] = 0] ELSE p,
      header |-> Header(aid, at, full)]

\* Deviation: a change of the own certificate goes unnoticed.
prepare_header_SameSigner(p, aid, at, authorities) ==
  CASE aid = "CAM"     -> cam(p, at, authorities)
    [] aid = "DENM"    -> [policy |-> p, header |-> Header(aid, at, TRUE)]
    [] aid \in Vams    -> vam(p, aid, at)
    [] aid \in Generic -> generic(p, aid, at)
prepare_header(p, aid, at, authorities) ==
  LET q == IF p.signer = at THEN p
           ELSE [reset_after_identifier_change(p) EXCEPT !.signer = at]
  IN CASE aid = "CAM"     -> cam(q, at, authorities)
       [] aid = "DENM"    -> [policy |-> q, header |-> Header(aid, at, TRUE)]
       [] aid \in Vams    -> vam(q, aid, at)
       [] aid \in Generic -> generic(q, aid, at)

\* Time passes: every age grows up to one second.
Aged(age) == IF age < OneSecond THEN age + 1 ELSE age
Elapsed(p) ==
  [p EXCEPT !.cam_last = Aged(@), !.vam_last = Aged(@),
            !.generic_last = [a \in Generic |-> Aged(@[a])]]
=============================================================================
