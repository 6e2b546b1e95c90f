------------------- MODULE CertificateDistributionProofs -------------------
(***************************************************************************)
(* Proofs about CertificateDistribution, for any stations, tickets,        *)
(* authorities, traffic and limits: types and limits of trackers and       *)
(* caches, and that a ticket named by its digest was shown before.         *)
(***************************************************************************)
EXTENDS CertificateDistribution, SelectionProofs, SequenceTheorems, FiniteSetTheorems, TLAPS

-----------------------------------------------------------------------------
(* Trackers of requests.                                                   *)

LEMMA AppendOnce ==
  ASSUME NEW S, NEW s \in Seq(S), NEW x \in S, Once(s), x \notin Pending(s)
  PROVE  Append(s, x) \in Seq(S) /\ Len(Append(s, x)) = Len(s) + 1 /\ Once(Append(s, x))
<1>1. /\ Append(s, x) \in Seq(S) /\ Len(Append(s, x)) = Len(s) + 1
      /\ \A i \in 1 .. Len(s) : Append(s, x)[i] = s[i]
      /\ Append(s, x)[Len(s) + 1] = x
  BY AppendProperties
<1>2. Len(s) \in Nat /\ DOMAIN s = 1 .. Len(s) /\ DOMAIN Append(s, x) = 1 .. Len(s) + 1
  BY <1>1, LenProperties
<1>3. ASSUME NEW i \in 1 .. Len(s) + 1, NEW j \in 1 .. Len(s) + 1, Append(s, x)[i] = Append(s, x)[j]
      PROVE  i = j
  <2>1. CASE i = Len(s) + 1 /\ j = Len(s) + 1
    BY <2>1
  <2>2. ASSUME NEW k \in 1 .. Len(s) PROVE Append(s, x)[k] # x
    BY <1>1, <1>2 DEF Pending
  <2>3. CASE i \in 1 .. Len(s) /\ j \in 1 .. Len(s)
    BY <1>1, <1>2, <1>3, <2>3 DEF Once
  <2> QED
    BY <1>1, <1>2, <1>3, <2>1, <2>2, <2>3
<1> QED
  BY <1>1, <1>2, <1>3 DEF Once

LEMMA TailOnce ==
  ASSUME NEW S, NEW s \in Seq(S), s # <<>>, Once(s)
  PROVE  /\ Tail(s) \in Seq(S) /\ Len(Tail(s)) = Len(s) - 1 /\ Once(Tail(s))
         /\ Pending(Tail(s)) \subseteq Pending(s)
<1>1. /\ Tail(s) \in Seq(S) /\ Len(Tail(s)) = Len(s) - 1
      /\ \A i \in 1 .. Len(Tail(s)) : Tail(s)[i] = s[i + 1]
  BY HeadTailProperties
<1>2. Len(s) \in Nat /\ DOMAIN s = 1 .. Len(s) /\ DOMAIN Tail(s) = 1 .. Len(s) - 1
  BY <1>1, LenProperties
<1>3. \A i \in 1 .. Len(s) - 1 : Tail(s)[i] = s[i + 1] /\ i + 1 \in 1 .. Len(s)
  BY <1>1, <1>2
<1>4. Once(Tail(s))
  BY <1>2, <1>3 DEF Once
<1>5. Pending(Tail(s)) \subseteq Pending(s)
  BY <1>2, <1>3 DEF Pending
<1> QED
  BY <1>1, <1>4, <1>5

LEMMA AddRequestKeeps ==
  ASSUME NEW f \in Requests, NEW id \in Certificates
  PROVE  add_request(f, id) \in Requests
<1>1. f \in Seq(Certificates) /\ Len(f) <= RequestLimit /\ Once(f) /\ Len(f) \in Nat /\ RequestLimit \in Nat \ {0}
  BY LenProperties, RequestLimitAssumption DEF Requests
<1>2. CASE id \in Pending(f)
  BY <1>2 DEF add_request, is_pending
<1>3. CASE id \notin Pending(f) /\ Len(f) >= RequestLimit
  <2>1. f # <<>>
    BY <1>1, <1>3, EmptySeq
  <2>2. /\ Tail(f) \in Seq(Certificates) /\ Len(Tail(f)) = Len(f) - 1 /\ Once(Tail(f))
        /\ id \notin Pending(Tail(f))
    BY <1>1, <1>3, <2>1, TailOnce
  <2>3. /\ Append(Tail(f), id) \in Seq(Certificates) /\ Len(Append(Tail(f), id)) = Len(Tail(f)) + 1
        /\ Once(Append(Tail(f), id))
    BY <2>2, AppendOnce
  <2> QED
    BY <1>1, <1>3, <2>2, <2>3 DEF add_request, is_pending, Requests
<1>4. CASE id \notin Pending(f) /\ ~(Len(f) >= RequestLimit)
  <2>1. /\ Append(f, id) \in Seq(Certificates) /\ Len(Append(f, id)) = Len(f) + 1 /\ Once(Append(f, id))
    BY <1>1, <1>4, AppendOnce
  <2> QED
    BY <1>1, <1>4, <2>1 DEF add_request, is_pending, Requests
<1> QED
  BY <1>2, <1>3, <1>4

LEMMA DiscardKeeps ==
  ASSUME NEW f \in Requests, NEW id
  PROVE  discard_request(f, id) \in Requests
<1>1. f \in Seq(Certificates) /\ Len(f) <= RequestLimit /\ Once(f) /\ Len(f) \in Nat /\ DOMAIN f = 1 .. Len(f)
  BY LenProperties DEF Requests
<1>2. PICK r : r = discard_request(f, id)
  OBVIOUS
<1>3. PICK I : I = {i \in DOMAIN f : f[i] # id}
  OBVIOUS
<1>4. r = Selected(f, I)
  BY <1>2, <1>3 DEF discard_request
<1>5. PICK e : Places(Certificates, f, I, Len(f), r, e)
  BY <1>1, <1>4, SelectedPlaces
<1>6. /\ r \in Seq(Certificates) /\ Len(r) <= Len(f) /\ Len(r) \in Nat /\ DOMAIN r = 1 .. Len(r)
      /\ \A i \in 1 .. Len(r) : e[i] \in 1 .. Len(f) /\ r[i] = f[e[i]]
      /\ \A i, j \in 1 .. Len(r) : i < j => e[i] < e[j]
  BY <1>5, LenProperties DEF Places
<1>7. ASSUME NEW i \in 1 .. Len(r), NEW j \in 1 .. Len(r), r[i] = r[j]
      PROVE  i = j
  <2>1. e[i] = e[j]
    BY <1>1, <1>6, <1>7 DEF Once
  <2>2. ~(i < j) /\ ~(j < i)
    BY <1>1, <1>6, <2>1
  <2> QED
    BY <1>6, <2>2
<1>8. Once(r)
  BY <1>6, <1>7 DEF Once
<1>9. Len(r) <= RequestLimit
  BY <1>1, <1>6, RequestLimitAssumption
<1> QED
  BY <1>2, <1>6, <1>8, <1>9 DEF Requests

\* next_one() until something wanted comes out ends, at the latest when the
\* queue is empty.
LEMMA NextWantedStops ==
  ASSUME NEW S, NEW f \in Seq(S), NEW wanted
  PROVE  /\ next_wanted(f, wanted) \in 1 .. Len(f) + 1
         /\ next_wanted(f, wanted) <= Len(f) => f[next_wanted(f, wanted)] \in wanted
<1> DEFINE T == {i \in 1 .. Len(f) + 1 : i <= Len(f) => f[i] \in wanted}
<1>1. Len(f) \in Nat
  BY LenProperties
<1>2. Len(f) + 1 \in T /\ T \subseteq Nat
  BY <1>1
<1>3. PICK i \in T : \A k \in T : i <= k
  BY <1>2, LeastNumber
<1>4. i \in 1 .. Len(f) + 1 /\ (i <= Len(f) => f[i] \in wanted)
  OBVIOUS
<1>5. ASSUME NEW j \in 1 .. i - 1 PROVE f[j] \notin wanted
  <2>1. j \in 1 .. Len(f) + 1 /\ ~(i <= j) /\ j <= Len(f)
    BY <1>1, <1>4
  <2>2. j \notin T
    BY <1>3, <2>1
  <2> QED
    BY <2>1, <2>2
<1> QED
  BY <1>4, <1>5 DEF next_wanted

LEMMA RestKeeps ==
  ASSUME NEW f \in Requests, NEW k \in 1 .. Len(f) + 1
  PROVE  SubSeq(f, k + 1, Len(f)) \in Requests
<1>1. f \in Seq(Certificates) /\ Len(f) <= RequestLimit /\ Once(f) /\ Len(f) \in Nat /\ DOMAIN f = 1 .. Len(f)
  BY LenProperties DEF Requests
<1>2. CASE k >= Len(f)
  <2>1. SubSeq(f, k + 1, Len(f)) = <<>>
    BY <1>1, <1>2, SubSeqEmpty
  <2> QED
    BY <2>1, EmptySeq, RequestLimitAssumption DEF Requests, Once
<1>3. CASE k < Len(f)
  <2>1. PICK r : r = SubSeq(f, k + 1, Len(f))
    OBVIOUS
  <2>2. /\ r \in Seq(Certificates) /\ Len(r) = Len(f) - k /\ DOMAIN r = 1 .. Len(r)
        /\ \A i \in 1 .. Len(r) : r[i] = f[k + i]
    <3>1. /\ r \in Seq(Certificates)
          /\ Len(r) = IF k + 1 <= Len(f) THEN Len(f) - (k + 1) + 1 ELSE 0
          /\ \A i \in 1 .. Len(f) - (k + 1) + 1 : r[i] = f[(k + 1) + i - 1]
      <4>1. \A i \in k + 1 .. Len(f) : f[i] \in Certificates
        BY <1>1, ElementOfSeq
      <4> QED
        BY <1>1, <2>1, <4>1, SubSeqProperties
    <3>2. Len(r) = Len(f) - k /\ Len(f) - (k + 1) + 1 = Len(f) - k
      <4>1. PICK n \in Nat : n = Len(f)
        BY <1>1
      <4>2. k \in Nat /\ k + 1 <= n /\ n - (k + 1) + 1 = n - k
        BY <1>3, <4>1
      <4> QED
        BY <3>1, <4>1, <4>2
    <3>3. \A i \in 1 .. Len(r) : (k + 1) + i - 1 = k + i
      BY <1>1, <3>2
    <3> QED
      BY <3>1, <3>2, <3>3, LenProperties
  <2>3. \A i \in 1 .. Len(r) : k + i \in 1 .. Len(f)
    BY <1>1, <1>3, <2>2
  <2>4. Once(r)
    <3>1. ASSUME NEW i \in 1 .. Len(r), NEW j \in 1 .. Len(r), r[i] = r[j]
          PROVE  i = j
      <4>1. f[k + i] = f[k + j]
        BY <2>2, <3>1
      <4>2. k + i = k + j
        BY <1>1, <2>3, <4>1 DEF Once
      <4> QED
        BY <1>1, <4>2
    <3> QED
      BY <2>2, <3>1 DEF Once
  <2>5. Len(r) <= RequestLimit
    BY <1>1, <2>2, RequestLimitAssumption
  <2> QED
    BY <2>1, <2>2, <2>4, <2>5 DEF Requests
<1> QED
  BY <1>1, <1>2, <1>3

\* What adding the first requests one by one gives.
AddedBy(f, ids, N, added) ==
  added = [n \in 0 .. N |-> IF n = 0 THEN f ELSE add_request(added[n - 1], ids[n])]

LEMMA AddedExists ==
  ASSUME NEW f, NEW ids, NEW L \in Nat
  PROVE  \E added : AddedBy(f, ids, L, added)
<1> DEFINE Fails == {N \in Nat : ~\E added : AddedBy(f, ids, N, added)}
<1>1. ASSUME Fails # {} PROVE FALSE
  <2>1. PICK N \in Fails : \A M \in Fails : N <= M
    BY <1>1, LeastNumber
  <2>2. AddedBy(f, ids, 0, [n \in 0 .. 0 |-> f])
    BY DEF AddedBy
  <2>3. N # 0
    BY <2>1, <2>2
  <2>4. N - 1 \in Nat /\ N - 1 \notin Fails
    <3>1. N \in Nat
      OBVIOUS
    <3> HIDE DEF Fails
    <3> QED
      BY <2>1, <2>3, <3>1
  <2>5. PICK g : AddedBy(f, ids, N - 1, g)
    BY <2>4
  <2> DEFINE h == [n \in 0 .. N |-> IF n = N THEN add_request(g[N - 1], ids[N]) ELSE g[n]]
  <2>6. ASSUME NEW n \in 0 .. N
        PROVE  h[n] = IF n = 0 THEN f ELSE add_request(h[n - 1], ids[n])
    <3>1. n # 0 => n - 1 \in 0 .. N /\ n - 1 # N /\ h[n - 1] = g[n - 1]
      BY <2>3
    <3>2. CASE n = N
      BY <2>3, <3>1, <3>2
    <3>3. CASE n # N
      <4>1. n \in 0 .. N - 1 /\ h[n] = g[n]
        BY <3>3
      <4> QED
        BY <2>5, <3>1, <4>1 DEF AddedBy
    <3> QED
      BY <3>2, <3>3
  <2>7. AddedBy(f, ids, N, h)
    BY <2>6 DEF AddedBy
  <2> QED
    BY <2>1, <2>7
<1> QED
  BY <1>1

LEMMA AddRequestsKeeps ==
  ASSUME NEW f \in Requests, NEW ids \in Seq(Certificates)
  PROVE  AddRequests(f, ids) \in Requests
<1> DEFINE added == CHOOSE a : AddedBy(f, ids, Len(ids), a)
           Fails == {n \in 0 .. Len(ids) : added[n] \notin Requests}
<1>1. AddedBy(f, ids, Len(ids), added) /\ Len(ids) \in Nat
  BY AddedExists, LenProperties
<1>2. AddRequests(f, ids) = added[Len(ids)]
  BY DEF AddRequests, AddedBy
<1> HIDE DEF added
<1>3. ASSUME Fails # {} PROVE FALSE
  <2>1. PICK n \in Fails : \A m \in Fails : n <= m
    <3>1. Fails \subseteq Nat
      BY <1>1
    <3> HIDE DEF Fails
    <3> QED
      BY <1>3, <3>1, LeastNumber
  <2>2. n \in 0 .. Len(ids) /\ added[n] \notin Requests
    OBVIOUS
  <2>3. n # 0
    BY <1>1, <2>2 DEF AddedBy
  <2>4. n \in 1 .. Len(ids) /\ n - 1 \in 0 .. Len(ids) /\ ids[n] \in Certificates
    BY <1>1, <2>2, <2>3, ElementOfSeq
  <2>5. n - 1 \notin Fails
    <3> HIDE DEF Fails
    <3> QED
      BY <1>1, <2>1, <2>4
  <2>6. added[n - 1] \in Requests
    BY <2>4, <2>5
  <2>7. added[n] = add_request(added[n - 1], ids[n])
    BY <1>1, <2>2, <2>3 DEF AddedBy
  <2> QED
    BY <2>2, <2>4, <2>6, <2>7, AddRequestKeeps
<1>4. Len(ids) \in 0 .. Len(ids) /\ Len(ids) \notin Fails
  BY <1>1, <1>3
<1> QED
  BY <1>2, <1>4

-----------------------------------------------------------------------------
(* The header policy.                                                      *)

HeaderType ==
  [aid : Aids, at : Tickets, full : BOOLEAN, inline : Requests,
   requested : Authorities \cup {None}]

\* Some inclusion timer has been started less than a second ago.
Recent(p) ==
  \/ p.cam_last < OneSecond \/ p.vam_last < OneSecond
  \/ \E a \in Generic : p.generic_last[a] < OneSecond

\* Timers are left alone or, with the certificate included, restarted.
Restarted(old, new, full) == new = old \/ (full /\ new = 0)
Moved(p, q, full) ==
  /\ q.signer = p.signer
  /\ Restarted(p.cam_last, q.cam_last, full) /\ Restarted(p.vam_last, q.vam_last, full)
  /\ \A a \in Generic : Restarted(p.generic_last[a], q.generic_last[a], full)

\* What preparing a header for ticket at makes of the policy p.
Prepared(p, at, r) ==
  /\ r.policy \in Policies /\ r.header \in HeaderType /\ r.header.at = at
  /\ Moved(p, r.policy, r.header.full)
  /\ ~r.header.full => Recent(p)

LEMMA SecondIsPositive ==
  HalfSecond \in Nat /\ OneSecond \in Nat /\ 0 < OneSecond /\ HalfSecond < OneSecond /\ 0 \in Ages
BY PolicyAssumption DEF OneSecond, Ages

LEMMA EmptyRequests == <<>> \in Requests
BY EmptySeq, RequestLimitAssumption DEF Requests, Once

LEMMA HeaderTyped ==
  ASSUME NEW aid \in Aids, NEW at \in Tickets, NEW b \in BOOLEAN
  PROVE  Header(aid, at, b) \in HeaderType /\ Header(aid, at, b).at = at /\ Header(aid, at, b).full = b
BY EmptyRequests DEF Header, HeaderType

LEMMA CamPrepares ==
  ASSUME NEW p \in Policies, NEW at \in Tickets, NEW A \in SUBSET Authorities
  PROVE  Prepared(p, at, cam(p, at, A))
<1> DEFINE asked == is_pending(p.incoming, at)
           waiting == discard_request(p.incoming, at)
           full == p.cam_requested \/ asked \/ p.cam_last >= OneSecond
           stop == next_wanted(waiting, A)
           answer == IF full \/ stop > Len(waiting) THEN None ELSE waiting[stop]
           incoming == IF full THEN waiting ELSE SubSeq(waiting, stop + 1, Len(waiting))
<1>1. p.incoming \in Requests /\ p.outgoing \in Requests /\ p.cam_requested \in BOOLEAN
      /\ p.cam_last \in Ages
  BY DEF Policies
<1>2. waiting \in Requests /\ waiting \in Seq(Certificates)
  BY <1>1, DiscardKeeps DEF Requests
<1>3. stop \in 1 .. Len(waiting) + 1 /\ (stop <= Len(waiting) => waiting[stop] \in A)
  BY <1>2, NextWantedStops
<1>4. incoming \in Requests
  BY <1>2, <1>3, RestKeeps
<1>5. answer \in Authorities \cup {None}
  <2>1. Len(waiting) \in Nat
    BY <1>2, LenProperties
  <2> HIDE DEF waiting, stop, full
  <2> QED
    BY <1>3, <2>1
<1>6. full \in BOOLEAN
  BY <1>1 DEF is_pending
<1>7. cam(p, at, A) =
        [policy |-> [p EXCEPT !.cam_last = IF full THEN 0 ELSE @, !.cam_requested = FALSE,
                              !.outgoing = <<>>, !.incoming = incoming],
         header |-> [Header("CAM", at, full) EXCEPT !.inline = p.outgoing, !.requested = answer]]
  BY DEF cam
<1>8. ~full => p.cam_last < OneSecond
  BY <1>1, SecondIsPositive DEF Ages
<1>9. PICK b \in BOOLEAN, i \in Requests, r \in Authorities \cup {None} :
         b = full /\ i = incoming /\ r = answer
  BY <1>4, <1>5, <1>6, Zenon
<1> DEFINE q == [p EXCEPT !.cam_last = IF b THEN 0 ELSE @, !.cam_requested = FALSE,
                          !.outgoing = <<>>, !.incoming = i]
           h == [Header("CAM", at, b) EXCEPT !.inline = p.outgoing, !.requested = r]
<1> HIDE DEF full, incoming, answer
<1>10. cam(p, at, A) = [policy |-> q, header |-> h]
  BY <1>7, <1>9, Zenon
<1>11. q \in Policies
  BY <1>1, EmptyRequests, SecondIsPositive DEF Policies
<1>12. h \in HeaderType /\ h.at = at /\ h.full = b
  <2>1. "CAM" \in Aids
    BY DEF Aids
  <2>2. PICK g : g = Header("CAM", at, b)
    OBVIOUS
  <2>3. g \in HeaderType /\ g.at = at /\ g.full = b
    BY <2>1, <2>2, HeaderTyped, Zenon
  <2> QED
    BY <1>1, <2>2, <2>3 DEF HeaderType
<1>13. Moved(p, q, b)
  BY DEF Policies, Moved, Restarted
<1>14. ~h.full => Recent(p)
  BY <1>8, <1>9, <1>12 DEF Recent
<1> HIDE DEF q, h
<1> QED
  BY <1>10, <1>11, <1>12, <1>13, <1>14 DEF Prepared

LEMMA VamPrepares ==
  ASSUME NEW p \in Policies, NEW at \in Tickets, NEW aid \in Vams
  PROVE  Prepared(p, at, vam(p, aid, at))
<1> DEFINE attach == IF aid = "clusterVAM" THEN p.vam_last >= HalfSecond
                     ELSE p.new_cam_signer \/ p.vam_last >= OneSecond
           q == IF attach THEN [p EXCEPT !.vam_last = 0, !.new_cam_signer = FALSE] ELSE p
<1>1. attach \in BOOLEAN /\ (~attach => p.vam_last < OneSecond)
  <2>1. p.vam_last \in Nat /\ p.new_cam_signer \in BOOLEAN
    BY SecondIsPositive DEF Policies, Ages
  <2>2. PICK v \in Nat, n \in BOOLEAN : v = p.vam_last /\ n = p.new_cam_signer
    BY <2>1
  <2>3. (v >= HalfSecond) \in BOOLEAN /\ (~(v >= HalfSecond) => v < OneSecond)
    BY SecondIsPositive
  <2>4. (n \/ v >= OneSecond) \in BOOLEAN /\ (~(n \/ v >= OneSecond) => v < OneSecond)
    BY SecondIsPositive
  <2> QED
    BY <2>2, <2>3, <2>4
<1>2. vam(p, aid, at) = [policy |-> q, header |-> Header(aid, at, attach)]
  BY DEF vam
<1> HIDE DEF attach
<1>3. q \in Policies /\ Moved(p, q, attach)
  BY <1>1, SecondIsPositive DEF Policies, Moved, Restarted
<1>4. Header(aid, at, attach) \in HeaderType /\ Header(aid, at, attach).at = at
      /\ Header(aid, at, attach).full = attach
  BY <1>1, HeaderTyped DEF Aids
<1> QED
  BY <1>1, <1>2, <1>3, <1>4 DEF Prepared, Recent

LEMMA GenericPrepares ==
  ASSUME NEW p \in Policies, NEW at \in Tickets, NEW aid \in Generic
  PROVE  Prepared(p, at, generic(p, aid, at))
<1> DEFINE full == p.generic_last[aid] >= OneSecond
           q == IF full THEN [p EXCEPT !.generic_last[aid] = 0] ELSE p
<1>1. full \in BOOLEAN /\ (~full => p.generic_last[aid] < OneSecond)
  BY SecondIsPositive DEF Policies, Ages
<1>2. generic(p, aid, at) = [policy |-> q, header |-> Header(aid, at, full)]
  BY DEF generic
<1> HIDE DEF full
<1>3. q \in Policies /\ Moved(p, q, full)
  BY <1>1, SecondIsPositive DEF Policies, Moved, Restarted
<1>4. Header(aid, at, full) \in HeaderType /\ Header(aid, at, full).at = at
      /\ Header(aid, at, full).full = full
  BY <1>1, HeaderTyped DEF Aids
<1> QED
  BY <1>1, <1>2, <1>3, <1>4 DEF Prepared, Recent

\* The policy that prepare_header() goes on with.
Renewed(p, at) ==
  IF p.signer = at THEN p ELSE [reset_after_identifier_change(p) EXCEPT !.signer = at]

LEMMA RenewedPolicy ==
  ASSUME NEW p \in Policies, NEW at \in Tickets
  PROVE  /\ Renewed(p, at) \in Policies /\ Renewed(p, at).signer = at
         /\ Recent(Renewed(p, at)) => Renewed(p, at) = p
<1>1. CASE p.signer = at
  BY <1>1 DEF Renewed
<1>2. CASE p.signer # at
  <2>1. OneSecond \in Ages
    BY SecondIsPositive DEF Ages
  <2>2. PICK q : q = reset_after_identifier_change(p)
    OBVIOUS
  <2>3. /\ q \in Policies /\ q.cam_last = OneSecond /\ q.vam_last = OneSecond
        /\ q.generic_last = [a \in Generic |-> OneSecond]
    BY <2>1, <2>2 DEF reset_after_identifier_change, Policies
  <2>4. PICK r : r = [q EXCEPT !.signer = at]
    OBVIOUS
  <2>5. r \in Policies /\ r.signer = at /\ r.cam_last = OneSecond /\ r.vam_last = OneSecond
        /\ r.generic_last = [a \in Generic |-> OneSecond]
    BY <2>3, <2>4 DEF Policies
  <2>6. ~Recent(r)
    BY <2>5, SecondIsPositive DEF Recent
  <2>7. r = Renewed(p, at)
    BY <1>2, <2>2, <2>4 DEF Renewed
  <2> QED
    BY <2>5, <2>6, <2>7
<1> QED
  BY <1>1, <1>2

\* prepare_header() for every kind of message.
LEMMA HeaderPrepared ==
  ASSUME NEW p \in Policies, NEW aid \in Aids, NEW at \in Tickets, NEW A \in SUBSET Authorities
  PROVE  Prepared(Renewed(p, at), at, prepare_header(p, aid, at, A))
<1>1. PICK q : q = Renewed(p, at)
  OBVIOUS
<1>2. q \in Policies
  BY <1>1, RenewedPolicy
<1>3. prepare_header(p, aid, at, A) =
        CASE aid = "CAM"     -> cam(q, at, A)
          [] aid = "DENM"    -> [policy |-> q, header |-> Header(aid, at, TRUE)]
          [] aid \in Vams    -> vam(q, aid, at)
          [] aid \in Generic -> generic(q, aid, at)
  BY <1>1 DEF prepare_header, Renewed
<1>4. CASE aid = "CAM"
  <2>1. prepare_header(p, aid, at, A) = cam(q, at, A)
    BY <1>3, <1>4, PolicyAssumption DEF Vams
  <2> QED
    BY <1>1, <1>2, <2>1, CamPrepares
<1>5. CASE aid = "DENM"
  <2>1. prepare_header(p, aid, at, A) = [policy |-> q, header |-> Header(aid, at, TRUE)]
    BY <1>3, <1>5, PolicyAssumption DEF Vams
  <2>2. PICK h : h = Header(aid, at, TRUE)
    OBVIOUS
  <2>3. h \in HeaderType /\ h.at = at /\ h.full = TRUE
    BY <2>2, HeaderTyped
  <2>4. Moved(q, q, h.full) /\ h.full
    BY <2>3 DEF Moved, Restarted
  <2>5. PICK r : r = prepare_header(p, aid, at, A)
    OBVIOUS
  <2>6. r.policy = q /\ r.header = h
    BY <2>1, <2>2, <2>5
  <2>7. Prepared(q, at, r)
    BY <1>2, <2>3, <2>4, <2>6 DEF Prepared
  <2> QED
    BY <1>1, <2>5, <2>7
<1>6. CASE aid \in Vams
  <2>1. prepare_header(p, aid, at, A) = vam(q, aid, at)
    BY <1>3, <1>6, PolicyAssumption DEF Vams
  <2> QED
    BY <1>1, <1>2, <1>6, <2>1, VamPrepares
<1>7. CASE aid \in Generic
  <2>1. prepare_header(p, aid, at, A) = generic(q, aid, at)
    BY <1>3, <1>7, PolicyAssumption DEF Vams
  <2> QED
    BY <1>1, <1>2, <1>7, <2>1, GenericPrepares
<1> QED
  BY <1>4, <1>5, <1>6, <1>7 DEF Aids, Vams

-----------------------------------------------------------------------------
(* Reception.  A message changes the requests of the receiver's policy and *)
(* its caches, never the inclusion timers.                                 *)

EntityType ==
  [policy : Policies, storage : SUBSET Tickets, digests : SUBSET Tickets,
   learned : Seq(Authorities)]

LearnedBound == Max({1, LearnedLimit})

\* Between the parts of verify(): the cache may be above its limit.
HalfEntity(e) ==
  /\ e \in EntityType /\ e.storage \subseteq e.digests /\ IsFiniteSet(e.storage)
  /\ Len(e.learned) <= LearnedBound /\ Once(e.learned)

GoodEntity(e) == HalfEntity(e) /\ Cardinality(e.storage) <= CacheLimit

SameTimers(p, q) ==
  /\ q.signer = p.signer /\ q.cam_last = p.cam_last /\ q.vam_last = p.vam_last
  /\ q.generic_last = p.generic_last

LEMMA LearnedBoundIs ==
  /\ LearnedBound \in Nat /\ LearnedBound >= 1 /\ LearnedBound >= LearnedLimit
  /\ LearnedBound = 1 \/ LearnedBound = LearnedLimit
<1>1. LearnedLimit \in Nat
  BY DistributionAssumption
<1>2. LearnedBound = IF LearnedLimit >= 1 THEN LearnedLimit ELSE 1
  BY <1>1 DEF LearnedBound, Max
<1> QED
  BY <1>1, <1>2

LEMMA NewEntityGood == GoodEntity(NewEntity)
<1>1. NewPolicy \in Policies
  BY EmptyRequests, SecondIsPositive DEF NewPolicy, Policies, Ages
<1>2. NewEntity \in EntityType
  BY <1>1, EmptySeq DEF NewEntity, EntityType
<1>3. NewEntity.storage = {} /\ NewEntity.digests = {} /\ NewEntity.learned = <<>>
  BY DEF NewEntity
<1>4. Len(<<>>) = 0 /\ Once(<<>>)
  BY DEF Once
<1> QED
  BY <1>2, <1>3, <1>4, LearnedBoundIs, FS_EmptySet, DistributionAssumption DEF HalfEntity, GoodEntity

LEMMA LearnKeeps ==
  ASSUME NEW s \in Stations, NEW e, HalfEntity(e), NEW m \in HeaderType
  PROVE  HalfEntity(LearnAuthority(s, e, m)) /\ LearnAuthority(s, e, m).policy = e.policy
<1>1. CASE m.requested = None \/ m.requested \in Known(s, e.learned)
  BY <1>1 DEF LearnAuthority
<1>2. CASE ~(m.requested = None \/ m.requested \in Known(s, e.learned))
  <2>1. PICK c, l : c = m.requested /\ l = e.learned
    OBVIOUS
  <2>2. /\ c \in Authorities /\ c \notin Pending(l)
        /\ l \in Seq(Authorities) /\ Len(l) \in Nat /\ Len(l) <= LearnedBound /\ Once(l)
    BY <1>2, <2>1, LenProperties DEF HeaderType, Known, HalfEntity, EntityType
  <2>3. PICK t : t = IF Len(l) >= LearnedLimit /\ l # <<>> THEN Tail(l) ELSE l
    OBVIOUS
  <2>4. t \in Seq(Authorities) /\ Once(t) /\ c \notin Pending(t) /\ Len(t) + 1 <= LearnedBound
    <3>1. CASE Len(l) >= LearnedLimit /\ l # <<>>
      <4>1. /\ Tail(l) \in Seq(Authorities) /\ Len(Tail(l)) = Len(l) - 1 /\ Once(Tail(l))
            /\ Pending(Tail(l)) \subseteq Pending(l)
        BY <2>2, <3>1, TailOnce
      <4> QED
        BY <2>2, <2>3, <3>1, <4>1, LearnedBoundIs
    <3>2. CASE Len(l) < LearnedLimit
      <4>1. t = l
        BY <2>2, <2>3, <3>2, DistributionAssumption
      <4> QED
        BY <2>2, <3>2, <4>1, LearnedBoundIs, DistributionAssumption
    <3>3. CASE l = <<>>
      <4>1. t = l /\ Len(l) = 0
        BY <2>3, <3>3
      <4> QED
        BY <2>2, <4>1, LearnedBoundIs
    <3> QED
      BY <2>2, <3>1, <3>2, <3>3, DistributionAssumption
  <2>5. PICK r : r = Append(t, c)
    OBVIOUS
  <2>6. r \in Seq(Authorities) /\ Len(r) <= LearnedBound /\ Once(r)
    BY <2>2, <2>4, <2>5, AppendOnce
  <2>7. LearnAuthority(s, e, m) = [e EXCEPT !.learned = r]
    BY <1>2, <2>1, <2>3, <2>5 DEF LearnAuthority
  <2> QED
    BY <2>6, <2>7 DEF HalfEntity, EntityType
<1> QED
  BY <1>1, <1>2

LEMMA AnnounceKeeps ==
  ASSUME NEW e, HalfEntity(e), NEW m \in HeaderType
  PROVE  HalfEntity(Announce(e, m)) /\ SameTimers(e.policy, Announce(e, m).policy)
<1>1. e.policy \in Policies /\ e.policy.cam_requested \in BOOLEAN /\ m.at \in Tickets
  BY DEF HalfEntity, EntityType, Policies, HeaderType
<1>2. PICK c \in BOOLEAN :
         c = (e.policy.cam_requested \/ (m.aid = "CAM" /\ m.at \notin e.digests))
  BY <1>1
<1>3. PICK q : q = [e.policy EXCEPT !.cam_requested = c]
  OBVIOUS
<1>4. q \in Policies /\ SameTimers(e.policy, q)
  BY <1>1, <1>3 DEF Policies, SameTimers
<1>5. PICK r : r = Announce(e, m)
  OBVIOUS
<1>6. r = [e EXCEPT !.digests = e.digests \cup {m.at}, !.policy = q]
  BY <1>2, <1>3, <1>5 DEF Announce, HalfEntity, EntityType
<1>7. /\ r \in EntityType /\ r.policy = q /\ r.storage = e.storage /\ r.learned = e.learned
      /\ r.digests = e.digests \cup {m.at}
  BY <1>1, <1>4, <1>6 DEF HalfEntity, EntityType
<1> QED
  BY <1>4, <1>5, <1>7 DEF HalfEntity

LEMMA RequestsKeep ==
  ASSUME NEW e, HalfEntity(e), NEW m \in HeaderType
  PROVE  HalfEntity(P2pRequests(e, m)) /\ SameTimers(e.policy, P2pRequests(e, m).policy)
<1>1. CASE m.aid # "CAM"
  BY <1>1 DEF P2pRequests, SameTimers
<1>2. CASE m.aid = "CAM"
  <2>1. PICK r : r = discard_request(AddRequests(e.policy.incoming, m.inline), m.requested)
    OBVIOUS
  <2>2. e.policy.incoming \in Requests /\ m.inline \in Seq(Certificates)
    BY DEF HalfEntity, EntityType, Policies, HeaderType, Requests
  <2>3. r \in Requests
    BY <2>1, <2>2, AddRequestsKeeps, DiscardKeeps
  <2>4. PICK q : q = [e.policy EXCEPT !.incoming = r]
    OBVIOUS
  <2>5. q \in Policies /\ SameTimers(e.policy, q)
    BY <2>3, <2>4 DEF HalfEntity, EntityType, Policies, SameTimers
  <2>6. PICK f : f = P2pRequests(e, m)
    OBVIOUS
  <2>7. f = [e EXCEPT !.policy = q] /\ e \in EntityType
    BY <1>2, <2>1, <2>4, <2>6 DEF P2pRequests, HalfEntity, EntityType
  <2>8. /\ f \in EntityType /\ f.policy = q /\ f.storage = e.storage
        /\ f.learned = e.learned /\ f.digests = e.digests
    BY <2>5, <2>7 DEF EntityType
  <2> QED
    BY <2>5, <2>6, <2>8 DEF HalfEntity
<1> QED
  BY <1>1, <1>2

LEMMA AskKeeps ==
  ASSUME NEW e, HalfEntity(e), NEW id \in Certificates, NEW r,
         r = [e EXCEPT !.policy = request_unrecognized_certificate(@, id)]
  PROVE  HalfEntity(r) /\ SameTimers(e.policy, r.policy)
<1>1. e.policy \in Policies /\ e.policy.outgoing \in Requests
  BY DEF HalfEntity, EntityType, Policies
<1>2. PICK q : q = request_unrecognized_certificate(e.policy, id)
  OBVIOUS
<1>3. PICK o : o = add_request(e.policy.outgoing, id)
  OBVIOUS
<1>4. o \in Requests
  BY <1>1, <1>3, AddRequestKeeps
<1>5. q \in Policies /\ SameTimers(e.policy, q)
  BY <1>1, <1>2, <1>3, <1>4 DEF request_unrecognized_certificate, Policies, SameTimers
<1>6. r = [e EXCEPT !.policy = q]
  BY <1>2 DEF HalfEntity, EntityType
<1>7. /\ r \in EntityType /\ r.policy = q /\ r.storage = e.storage /\ r.learned = e.learned
      /\ r.digests = e.digests
  BY <1>5, <1>6 DEF HalfEntity, EntityType
<1> QED
  BY <1>5, <1>7 DEF HalfEntity

\* A certificate that proved valid is stored, and counts as new when a CAM
\* brought it.
Stored(e, t, new) ==
  [e EXCEPT !.storage = @ \cup {t}, !.digests = @ \cup {t},
            !.policy.cam_requested = @ \/ new]

LEMMA StoreKeeps ==
  ASSUME NEW e, HalfEntity(e), NEW t \in Tickets, NEW new \in BOOLEAN, NEW r, r = Stored(e, t, new)
  PROVE  HalfEntity(r) /\ SameTimers(e.policy, r.policy)
<1>1. e.policy \in Policies /\ e.policy.cam_requested \in BOOLEAN
  BY DEF HalfEntity, EntityType, Policies
<1>2. PICK c \in BOOLEAN : c = (e.policy.cam_requested \/ new)
  BY <1>1
<1>3. PICK q : q = [e.policy EXCEPT !.cam_requested = c]
  OBVIOUS
<1>4. q \in Policies /\ SameTimers(e.policy, q)
  BY <1>1, <1>3 DEF Policies, SameTimers
<1>5. r = [e EXCEPT !.storage = e.storage \cup {t}, !.digests = e.digests \cup {t}, !.policy = q]
      /\ e \in EntityType
  BY <1>2, <1>3 DEF Stored, HalfEntity, EntityType
<1>6. /\ r \in EntityType /\ r.policy = q /\ r.storage = e.storage \cup {t}
      /\ r.learned = e.learned /\ r.digests = e.digests \cup {t}
  <2>1. PICK st \in SUBSET Tickets, di \in SUBSET Tickets :
           st = e.storage \cup {t} /\ di = e.digests \cup {t}
    BY <1>5 DEF EntityType
  <2>2. r = [e EXCEPT !.storage = st, !.digests = di, !.policy = q]
    BY <1>5, <2>1
  <2>3. /\ r \in EntityType /\ r.policy = q /\ r.storage = st /\ r.learned = e.learned
        /\ r.digests = di
    BY <1>4, <1>5, <2>2 DEF EntityType
  <2> QED
    BY <2>1, <2>3
<1>7. IsFiniteSet(e.storage \cup {t})
  BY FS_AddElement DEF HalfEntity
<1> QED
  BY <1>4, <1>6, <1>7 DEF HalfEntity

LEMMA ResolveKeeps ==
  ASSUME NEW s \in Stations, NEW e, HalfEntity(e), NEW m \in HeaderType
  PROVE  HalfEntity(Resolve(s, e, m)) /\ SameTimers(e.policy, Resolve(s, e, m).policy)
<1>1. m.at \in Tickets /\ m.at \in Certificates /\ Issuer[m.at] \in Certificates
  BY DistributionAssumption DEF HeaderType, Certificates
<1>2. PICK r : r = Resolve(s, e, m)
  OBVIOUS
<1>3. \/ r = e
      \/ r = [e EXCEPT !.policy = request_unrecognized_certificate(@, m.at)]
      \/ r = [e EXCEPT !.policy = request_unrecognized_certificate(@, Issuer[m.at])]
      \/ r = Stored(e, m.at, m.aid = "CAM")
  BY <1>2, Zenon DEF Resolve, Stored
<1>4. CASE r = e
  BY <1>2, <1>4 DEF SameTimers
<1>5. CASE r = [e EXCEPT !.policy = request_unrecognized_certificate(@, m.at)]
  BY <1>1, <1>2, <1>5, AskKeeps
<1>6. CASE r = [e EXCEPT !.policy = request_unrecognized_certificate(@, Issuer[m.at])]
  BY <1>1, <1>2, <1>6, AskKeeps
<1>7. CASE r = Stored(e, m.at, m.aid = "CAM")
  <2>1. PICK new \in BOOLEAN : new = (m.aid = "CAM")
    OBVIOUS
  <2>2. r = Stored(e, m.at, new)
    BY <1>7, <2>1, Zenon
  <2> QED
    BY <1>1, <1>2, <2>2, StoreKeeps
<1> QED
  BY <1>3, <1>4, <1>5, <1>6, <1>7

LEMMA BoundedKeeps ==
  ASSUME NEW e, HalfEntity(e)
  PROVE  GoodEntity(Bounded(e)) /\ Bounded(e).policy = e.policy
<1>1. Cardinality(e.storage) \in Nat /\ CacheLimit \in Nat
  BY FS_CardinalityType, DistributionAssumption DEF HalfEntity
<1>2. CASE Cardinality(e.storage) > CacheLimit
  <2>1. PICK r : r = [e EXCEPT !.storage = {}, !.digests = {}]
    OBVIOUS
  <2>2. /\ r \in EntityType /\ r.policy = e.policy /\ r.storage = {} /\ r.digests = {}
        /\ r.learned = e.learned
    BY <2>1 DEF HalfEntity, EntityType
  <2>3. GoodEntity(r)
    BY <1>1, <2>2, FS_EmptySet DEF GoodEntity, HalfEntity
  <2> QED
    BY <1>2, <2>1, <2>2, <2>3 DEF Bounded
<1>3. CASE ~(Cardinality(e.storage) > CacheLimit)
  BY <1>1, <1>3 DEF Bounded, GoodEntity
<1> QED
  BY <1>2, <1>3

\* verify() as a whole.
LEMMA VerifyKeeps ==
  ASSUME NEW s \in Stations, NEW e, GoodEntity(e), NEW m \in HeaderType, NEW r,
         r = Bounded(Resolve(s, P2pRequests(Announce(LearnAuthority(s, e, m), m), m), m))
  PROVE  GoodEntity(r) /\ SameTimers(e.policy, r.policy)
<1>1. PICK a : a = LearnAuthority(s, e, m)
  OBVIOUS
<1>2. PICK b : b = Announce(a, m)
  OBVIOUS
<1>3. PICK c : c = P2pRequests(b, m)
  OBVIOUS
<1>4. PICK d : d = Resolve(s, c, m)
  OBVIOUS
<1>5. HalfEntity(a) /\ a.policy = e.policy
  BY <1>1, LearnKeeps DEF GoodEntity
<1>6. HalfEntity(b) /\ SameTimers(a.policy, b.policy)
  BY <1>2, <1>5, AnnounceKeeps
<1>7. HalfEntity(c) /\ SameTimers(b.policy, c.policy)
  BY <1>3, <1>6, RequestsKeep
<1>8. HalfEntity(d) /\ SameTimers(c.policy, d.policy)
  BY <1>4, <1>7, ResolveKeeps
<1>9. r = Bounded(d)
  BY <1>1, <1>2, <1>3, <1>4
<1>10. GoodEntity(r) /\ r.policy = d.policy
  BY <1>8, <1>9, BoundedKeeps
<1> QED
  BY <1>5, <1>6, <1>7, <1>8, <1>10 DEF SameTimers

-----------------------------------------------------------------------------
(* The invariants: types and limits, and for every inclusion timer that    *)
(* runs a message of the signer it was started for.                        *)

Histories == [Tickets -> Ages]

TypeInv ==
  /\ traffic \in Traffics /\ own \in [Stations -> Tickets]
  /\ entity \in [Stations -> EntityType]
  /\ \A s \in Stations : GoodEntity(entity[s])
  /\ disruptions \in 0 .. MaxDisruptions
  /\ shown \in Histories /\ spoilt \in Histories

\* A timer of this age was started by a message that carried ticket t or would
\* have, sent or refused not before the last one in the histories.
Explained(t, age, sent, refused) ==
  age < OneSecond => t \in Tickets /\ (sent[t] <= age \/ refused[t] <= age)

TimersExplained(p, sent, refused) ==
  /\ Explained(p.signer, p.cam_last, sent, refused)
  /\ Explained(p.signer, p.vam_last, sent, refused)
  /\ \A a \in Generic : Explained(p.signer, p.generic_last[a], sent, refused)

TimerInv == \A s \in Stations : TimersExplained(entity[s].policy, shown, spoilt)

LEMMA TypeInvTypeOK == TypeInv => TypeOK
BY DEF TypeInv, TypeOK, GoodEntity, HalfEntity, EntityType, LearnedBound, Histories

\* Histories that only got younger.
Younger(g, h) == g \in Histories /\ h \in Histories /\ \A t \in Tickets : g[t] <= h[t]

LEMMA YoungerExplains ==
  ASSUME NEW t, NEW age \in Ages, NEW a, NEW b, NEW c, NEW d, Younger(c, a), Younger(d, b),
         Explained(t, age, a, b)
  PROVE  Explained(t, age, c, d)
<1>1. SUFFICES ASSUME age < OneSecond PROVE t \in Tickets /\ (c[t] <= age \/ d[t] <= age)
  BY DEF Explained
<1>2. t \in Tickets /\ (a[t] <= age \/ b[t] <= age)
  BY <1>1 DEF Explained
<1>3. a[t] \in Nat /\ b[t] \in Nat /\ c[t] \in Nat /\ d[t] \in Nat /\ c[t] <= a[t] /\ d[t] <= b[t]
  BY <1>2 DEF Younger, Histories, Ages
<1>4. age \in Nat
  BY DEF Ages
<1> QED
  BY <1>2, <1>3, <1>4

LEMMA SameTimersExplained ==
  ASSUME NEW p \in Policies, NEW q, SameTimers(p, q), NEW a, NEW b, NEW c, NEW d,
         Younger(c, a), Younger(d, b), TimersExplained(p, a, b)
  PROVE  TimersExplained(q, c, d)
<1>1. p.cam_last \in Ages /\ p.vam_last \in Ages /\ \A x \in Generic : p.generic_last[x] \in Ages
  BY DEF Policies
<1>2. TimersExplained(p, c, d)
  BY <1>1, YoungerExplains DEF TimersExplained
<1> QED
  BY <1>2 DEF TimersExplained, SameTimers

\* After prepare_header(), provided that a certificate it included is in one
\* of the histories as sent or refused just now.
LEMMA PreparedTimersExplained ==
  ASSUME NEW p \in Policies, NEW at \in Tickets, NEW r, Prepared(Renewed(p, at), at, r),
         NEW a, NEW b, NEW c, NEW d, Younger(c, a), Younger(d, b), TimersExplained(p, a, b),
         r.header.full => c[at] = 0 \/ d[at] = 0
  PROVE  TimersExplained(r.policy, c, d)
<1>1. PICK q : q = Renewed(p, at)
  OBVIOUS
<1>2. q \in Policies /\ q.signer = at /\ (Recent(q) => q = p)
  BY <1>1, RenewedPolicy
<1>3. TimersExplained(p, c, d)
  BY SameTimersExplained DEF SameTimers
<1>4. r.policy.signer = at /\ Moved(q, r.policy, r.header.full)
  BY <1>1, <1>2 DEF Prepared, Moved
<1>5. ASSUME NEW old, NEW new, Restarted(old, new, r.header.full),
             old < OneSecond => Explained(at, old, c, d)
      PROVE  Explained(at, new, c, d)
  <2>1. CASE new = old
    BY <1>5, <2>1 DEF Explained
  <2>2. CASE r.header.full /\ new = 0
    <3>1. c[at] = 0 \/ d[at] = 0
      BY <2>2
    <3> QED
      BY <2>2, <3>1 DEF Explained
  <2> QED
    BY <1>5, <2>1, <2>2 DEF Restarted
<1>6. q.cam_last < OneSecond => Explained(at, q.cam_last, c, d)
  BY <1>2, <1>3 DEF Recent, TimersExplained
<1>7. q.vam_last < OneSecond => Explained(at, q.vam_last, c, d)
  BY <1>2, <1>3 DEF Recent, TimersExplained
<1>8. \A x \in Generic : q.generic_last[x] < OneSecond => Explained(at, q.generic_last[x], c, d)
  BY <1>2, <1>3 DEF Recent, TimersExplained
<1>9. Explained(at, r.policy.cam_last, c, d)
  BY <1>4, <1>5, <1>6 DEF Moved
<1>10. Explained(at, r.policy.vam_last, c, d)
  BY <1>4, <1>5, <1>7 DEF Moved
<1>11. ASSUME NEW x \in Generic PROVE Explained(at, r.policy.generic_last[x], c, d)
  BY <1>4, <1>5, <1>8 DEF Moved
<1> QED
  BY <1>4, <1>9, <1>10, <1>11 DEF TimersExplained

-----------------------------------------------------------------------------
(* The actions.                                                            *)

LEMMA InitInv == Init => TypeInv /\ TimerInv
<1> SUFFICES ASSUME Init PROVE TypeInv /\ TimerInv
  OBVIOUS
<1>1. OneSecond \in Ages
  BY SecondIsPositive DEF Ages
<1>2. shown \in Histories /\ spoilt \in Histories
  BY <1>1 DEF Init, Histories
<1>3. NewEntity \in EntityType /\ GoodEntity(NewEntity)
  BY NewEntityGood DEF GoodEntity, HalfEntity
<1>4. TypeInv
  BY <1>2, <1>3, DistributionAssumption DEF Init, TypeInv
<1>5. TimersExplained(NewPolicy, shown, spoilt)
  BY SecondIsPositive DEF TimersExplained, Explained, NewPolicy
<1>6. NewEntity.policy = NewPolicy
  BY DEF NewEntity
<1> QED
  BY <1>4, <1>5, <1>6 DEF Init, TimerInv

LEMMA OwnPolicyReplaced ==
  ASSUME NEW e, GoodEntity(e), NEW q \in Policies, NEW r, r = [e EXCEPT !.policy = q]
  PROVE  GoodEntity(r) /\ r.policy = q
<1>1. /\ r \in EntityType /\ r.policy = q /\ r.storage = e.storage /\ r.digests = e.digests
      /\ r.learned = e.learned
  BY DEF GoodEntity, HalfEntity, EntityType
<1> QED
  BY <1>1 DEF GoodEntity, HalfEntity

LEMMA EntityParts ==
  ASSUME TypeInv, NEW s \in Stations
  PROVE  /\ GoodEntity(entity[s]) /\ entity[s] \in EntityType /\ entity[s].policy \in Policies
         /\ own[s] \in Tickets /\ Provisioned[s] \in SUBSET Authorities
BY DistributionAssumption DEF TypeInv, EntityType

LEMMA DisruptTypes ==
  ASSUME TypeInv, Disrupt \/ UNCHANGED disruptions
  PROVE  disruptions' \in 0 .. MaxDisruptions
BY DistributionAssumption DEF TypeInv, Disrupt

LEMMA SendInv ==
  ASSUME TypeInv, TimerInv, NEW s \in Stations, NEW aid \in Aids, NEW R \in SUBSET Stations,
         NEW full \in BOOLEAN, Send(s, aid, R, full)
  PROVE  TypeInv' /\ TimerInv'
<1>1. PICK x : /\ x = prepare_header(entity[s].policy, aid, own[s], Provisioned[s])
               /\ x.header.full = full
               /\ Deliver(s, x.policy, x.header, R)
  BY DEF Send
<1>2. Prepared(Renewed(entity[s].policy, own[s]), own[s], x)
  BY <1>1, EntityParts, HeaderPrepared
<1>3. PICK m, p : m = x.header /\ p = x.policy
  OBVIOUS
<1>4. m \in HeaderType /\ p \in Policies
  BY <1>2, <1>3 DEF Prepared
<1>5. entity' = [r \in Stations |->
         IF r \in R
         THEN Bounded(Resolve(r, P2pRequests(Announce(LearnAuthority(r, entity[r], m), m), m), m))
         ELSE IF r = s THEN [entity[s] EXCEPT !.policy = p] ELSE entity[r]]
  BY <1>1, <1>3 DEF Deliver
<1>6. /\ UNCHANGED <<traffic, own, spoilt>> /\ (Disrupt \/ UNCHANGED disruptions)
      /\ shown' = [shown EXCEPT ![own[s]] = IF full THEN 0 ELSE @]
      /\ s \notin R
  BY DEF Send
<1>7. ASSUME NEW r \in Stations, r \in R
      PROVE  GoodEntity(entity'[r]) /\ SameTimers(entity[r].policy, entity'[r].policy)
  <2>1. entity'[r] =
          Bounded(Resolve(r, P2pRequests(Announce(LearnAuthority(r, entity[r], m), m), m), m))
    BY <1>5, <1>7
  <2> QED
    BY <1>4, <2>1, EntityParts, VerifyKeeps
<1>8. GoodEntity(entity'[s]) /\ entity'[s].policy = p
  <2>1. entity'[s] = [entity[s] EXCEPT !.policy = p]
    BY <1>5, <1>6
  <2> QED
    BY <1>4, <2>1, EntityParts, OwnPolicyReplaced
<1>9. ASSUME NEW r \in Stations, r \notin R, r # s
      PROVE  GoodEntity(entity'[r]) /\ SameTimers(entity[r].policy, entity'[r].policy)
  <2>1. entity'[r] = entity[r]
    BY <1>5, <1>9
  <2> QED
    BY <2>1, EntityParts DEF SameTimers
<1>10. \A r \in Stations : GoodEntity(entity'[r])
  BY <1>7, <1>8, <1>9
<1>11. Younger(shown', shown) /\ Younger(spoilt', spoilt)
  BY <1>6, SecondIsPositive DEF TypeInv, Younger, Histories, Ages
<1>12. TypeInv'
  <2>1. entity' \in [Stations -> EntityType]
    BY <1>5, <1>10 DEF GoodEntity, HalfEntity
  <2> QED
    BY <1>6, <1>10, <1>11, <2>1, DisruptTypes DEF TypeInv, Younger
<1>13. TimersExplained(p, shown', spoilt')
  <2>1. x.header.full => shown'[own[s]] = 0 \/ spoilt'[own[s]] = 0
    BY <1>1, <1>6, EntityParts DEF TypeInv, Histories
  <2>2. TimersExplained(entity[s].policy, shown, spoilt)
    BY DEF TimerInv
  <2> QED
    BY <1>2, <1>3, <1>11, <2>1, <2>2, EntityParts, PreparedTimersExplained
<1>14. ASSUME NEW r \in Stations PROVE TimersExplained(entity'[r].policy, shown', spoilt')
  <2>1. CASE r = s
    BY <1>8, <1>13, <2>1
  <2>2. CASE r # s
    <3>1. SameTimers(entity[r].policy, entity'[r].policy)
      BY <1>7, <1>9, <2>2
    <3>2. TimersExplained(entity[r].policy, shown, spoilt)
      BY DEF TimerInv
    <3> QED
      BY <1>11, <3>1, <3>2, EntityParts, SameTimersExplained
  <2> QED
    BY <2>1, <2>2
<1> QED
  BY <1>12, <1>14 DEF TimerInv

\* A step in which the policy of one station becomes q, and that only.
LEMMA OnePolicyInv ==
  ASSUME TypeInv, TimerInv, NEW s \in Stations, NEW q \in Policies,
         entity' = [entity EXCEPT ![s].policy = q],
         traffic' = traffic, own' \in [Stations -> Tickets], Disrupt \/ UNCHANGED disruptions,
         Younger(shown', shown), Younger(spoilt', spoilt),
         TimersExplained(q, shown', spoilt')
  PROVE  TypeInv' /\ TimerInv'
<1>1. PICK f : f = [entity[s] EXCEPT !.policy = q]
  OBVIOUS
<1>2. GoodEntity(f) /\ f.policy = q /\ f \in EntityType
  BY <1>1, EntityParts, OwnPolicyReplaced DEF GoodEntity, HalfEntity
<1>3. entity' \in [Stations -> EntityType] /\ entity'[s] = f
      /\ \A r \in Stations \ {s} : entity'[r] = entity[r]
  BY <1>1, <1>2 DEF TypeInv
<1>4. TypeInv'
  BY <1>2, <1>3, DisruptTypes DEF TypeInv, Younger
<1>5. ASSUME NEW r \in Stations \ {s} PROVE TimersExplained(entity'[r].policy, shown', spoilt')
  <2>1. TimersExplained(entity[r].policy, shown, spoilt) /\ SameTimers(entity[r].policy, entity'[r].policy)
    BY <1>3 DEF TimerInv, SameTimers
  <2> QED
    BY <2>1, EntityParts, SameTimersExplained
<1> QED
  BY <1>2, <1>3, <1>4, <1>5 DEF TimerInv

LEMMA SameHistories ==
  ASSUME TypeInv, UNCHANGED history
  PROVE  Younger(shown', shown) /\ Younger(spoilt', spoilt)
<1>1. \A t \in Tickets : shown[t] \in Nat /\ spoilt[t] \in Nat
  BY DEF TypeInv, Histories, Ages
<1> QED
  BY <1>1 DEF TypeInv, Younger, history

LEMMA SignRefusedInv ==
  ASSUME TypeInv, TimerInv, NEW s \in Stations, NEW aid \in Aids, SignRefused(s, aid)
  PROVE  TypeInv' /\ TimerInv'
<1>1. PICK x : x = prepare_header(entity[s].policy, aid, own[s], Provisioned[s])
  OBVIOUS
<1>2. Prepared(Renewed(entity[s].policy, own[s]), own[s], x)
  BY <1>1, EntityParts, HeaderPrepared
<1>3. PICK q : q = x.policy
  OBVIOUS
<1>4. q \in Policies
  BY <1>2, <1>3 DEF Prepared
<1>5. /\ entity' = [entity EXCEPT ![s].policy = q] /\ Disrupt
      /\ traffic' = traffic /\ own' = own /\ shown' = shown
      /\ spoilt' = [spoilt EXCEPT ![own[s]] = IF x.header.full THEN 0 ELSE @]
  BY <1>1, <1>3 DEF SignRefused
<1>6. /\ Younger(shown', shown) /\ Younger(spoilt', spoilt)
      /\ x.header.full => spoilt'[own[s]] = 0
  BY <1>5, SecondIsPositive, EntityParts DEF TypeInv, Younger, Histories, Ages
<1>7. TimersExplained(entity[s].policy, shown, spoilt)
  BY DEF TimerInv
<1>8. TimersExplained(q, shown', spoilt')
  BY <1>2, <1>3, <1>6, <1>7, EntityParts, PreparedTimersExplained
<1>9. own' \in [Stations -> Tickets]
  BY <1>5 DEF TypeInv
<1> QED
  BY <1>4, <1>5, <1>6, <1>8, <1>9, OnePolicyInv

LEMMA ChangeTicketInv ==
  ASSUME TypeInv, TimerInv, NEW s \in Stations, NEW t \in Tickets, NEW committed \in BOOLEAN,
         ChangeTicket(s, t, committed)
  PROVE  TypeInv' /\ TimerInv'
<1>1. PICK p : p = entity[s].policy
  OBVIOUS
<1>2. p \in Policies /\ TimersExplained(p, shown, spoilt)
  BY <1>1, EntityParts DEF TimerInv
<1>3. PICK q : q = IF committed THEN reset_after_identifier_change(p) ELSE p
  OBVIOUS
<1>4. /\ entity' = [entity EXCEPT ![s].policy = q] /\ Disrupt
      /\ traffic' = traffic /\ own' \in [Stations -> Tickets] /\ UNCHANGED history
  BY <1>1, <1>3 DEF ChangeTicket, TypeInv, EntityType
<1>5. Younger(shown', shown) /\ Younger(spoilt', spoilt) /\ shown' = shown /\ spoilt' = spoilt
  BY <1>4, SameHistories DEF history
<1>6. q \in Policies /\ TimersExplained(q, shown', spoilt')
  <2>1. CASE committed
    <3>1. OneSecond \in Ages
      BY SecondIsPositive DEF Ages
    <3>2. /\ q \in Policies /\ q.cam_last = OneSecond /\ q.vam_last = OneSecond
          /\ q.generic_last = [a \in Generic |-> OneSecond]
      BY <1>2, <1>3, <2>1, <3>1 DEF reset_after_identifier_change, Policies
    <3> QED
      BY <3>2, SecondIsPositive DEF TimersExplained, Explained
  <2>2. CASE ~committed
    BY <1>2, <1>3, <1>5, <2>2
  <2> QED
    BY <2>1, <2>2
<1> QED
  BY <1>4, <1>5, <1>6, OnePolicyInv

LEMMA NewCamSignerInv ==
  ASSUME TypeInv, TimerInv, NEW s \in Stations, NewCamSigner(s)
  PROVE  TypeInv' /\ TimerInv'
<1>1. PICK p : p = entity[s].policy
  OBVIOUS
<1>2. p \in Policies /\ TimersExplained(p, shown, spoilt)
  BY <1>1, EntityParts DEF TimerInv
<1>3. PICK q : q = report_new_cam_signer(p)
  OBVIOUS
<1>4. q \in Policies /\ SameTimers(p, q)
  BY <1>2, <1>3 DEF report_new_cam_signer, Policies, SameTimers
<1>5. /\ entity' = [entity EXCEPT ![s].policy = q] /\ UNCHANGED disruptions
      /\ traffic' = traffic /\ own' = own /\ UNCHANGED history
  BY <1>1, <1>3 DEF NewCamSigner, TypeInv, EntityType
<1>6. Younger(shown', shown) /\ Younger(spoilt', spoilt)
  BY <1>5, SameHistories
<1>7. TimersExplained(q, shown', spoilt')
  BY <1>2, <1>4, <1>6, SameTimersExplained
<1>8. own' \in [Stations -> Tickets]
  BY <1>5 DEF TypeInv
<1> QED
  BY <1>4, <1>5, <1>6, <1>7, <1>8, OnePolicyInv

LEMMA RestartInv ==
  ASSUME TypeInv, TimerInv, NEW s \in Stations, Restart(s)
  PROVE  TypeInv' /\ TimerInv'
<1>1. /\ entity' = [entity EXCEPT ![s] = NewEntity] /\ Disrupt
      /\ traffic' = traffic /\ own' = own /\ UNCHANGED history
  BY DEF Restart
<1>2. NewEntity \in EntityType /\ GoodEntity(NewEntity) /\ NewEntity.policy = NewPolicy
  BY NewEntityGood DEF GoodEntity, HalfEntity, NewEntity
<1>3. shown' = shown /\ spoilt' = spoilt
  BY <1>1 DEF history
<1>4. entity'[s] = NewEntity /\ \A r \in Stations \ {s} : entity'[r] = entity[r]
  BY <1>1 DEF TypeInv
<1>5. TypeInv'
  BY <1>1, <1>2, <1>3, <1>4, DisruptTypes DEF TypeInv
<1>6. TimersExplained(NewPolicy, shown', spoilt')
  BY SecondIsPositive DEF TimersExplained, Explained, NewPolicy
<1> QED
  BY <1>2, <1>3, <1>4, <1>5, <1>6 DEF TimerInv

LEMMA AgedExplained ==
  ASSUME NEW t, NEW age \in Ages, NEW a \in Histories, NEW b \in Histories, Explained(t, age, a, b)
  PROVE  Explained(t, Aged(age), [u \in Tickets |-> Aged(a[u])], [u \in Tickets |-> Aged(b[u])])
<1>1. SUFFICES ASSUME Aged(age) < OneSecond
               PROVE  t \in Tickets /\ (Aged(a[t]) <= Aged(age) \/ Aged(b[t]) <= Aged(age))
  BY DEF Explained
<1>2. age \in Nat /\ age < OneSecond /\ Aged(age) = age + 1
  BY <1>1, SecondIsPositive DEF Ages, Aged
<1>3. t \in Tickets /\ (a[t] <= age \/ b[t] <= age)
  BY <1>2 DEF Explained
<1>4. a[t] \in Nat /\ b[t] \in Nat
  BY <1>3 DEF Histories, Ages
<1> QED
  BY <1>2, <1>3, <1>4, SecondIsPositive DEF Aged

LEMMA TickInv ==
  ASSUME TypeInv, TimerInv, Tick
  PROVE  TypeInv' /\ TimerInv'
<1>1. \A age \in Ages : Aged(age) \in Ages
  BY SecondIsPositive DEF Ages, Aged
<1>2. shown' \in Histories /\ spoilt' \in Histories
  BY <1>1 DEF Tick, TypeInv, Histories
<1>3. ASSUME NEW s \in Stations
      PROVE  /\ GoodEntity(entity'[s]) /\ entity'[s] \in EntityType
             /\ TimersExplained(entity'[s].policy, shown', spoilt')
  <2>1. PICK p : p = entity[s].policy
    OBVIOUS
  <2>2. p \in Policies /\ TimersExplained(p, shown, spoilt)
    BY <2>1, EntityParts DEF TimerInv
  <2>3. PICK q : q = Elapsed(p)
    OBVIOUS
  <2>4. /\ q \in Policies /\ q.signer = p.signer /\ q.cam_last = Aged(p.cam_last)
        /\ q.vam_last = Aged(p.vam_last)
        /\ \A a \in Generic : q.generic_last[a] = Aged(p.generic_last[a])
    BY <1>1, <2>2, <2>3 DEF Elapsed, Policies
  <2>5. entity'[s] = [entity[s] EXCEPT !.policy = q]
    BY <2>1, <2>3, EntityParts DEF Tick, EntityType
  <2>6. GoodEntity(entity'[s]) /\ entity'[s].policy = q
    BY <2>4, <2>5, EntityParts, OwnPolicyReplaced
  <2>7. p.cam_last \in Ages /\ p.vam_last \in Ages /\ \A a \in Generic : p.generic_last[a] \in Ages
    BY <2>2 DEF Policies
  <2>8. /\ shown' = [u \in Tickets |-> Aged(shown[u])] /\ spoilt' = [u \in Tickets |-> Aged(spoilt[u])]
        /\ shown \in Histories /\ spoilt \in Histories
    BY DEF Tick, TypeInv
  <2>9. TimersExplained(q, shown', spoilt')
    BY <2>2, <2>4, <2>7, <2>8, AgedExplained DEF TimersExplained
  <2> QED
    BY <2>6, <2>9 DEF GoodEntity, HalfEntity
<1>4. entity' \in [Stations -> EntityType]
  BY <1>3 DEF Tick
<1>5. TypeInv'
  BY <1>2, <1>3, <1>4 DEF Tick, TypeInv
<1> QED
  BY <1>3, <1>5 DEF TimerInv

LEMMA NextInv ==
  ASSUME TypeInv, TimerInv, [Next]_vars
  PROVE  TypeInv' /\ TimerInv'
<1>1. CASE UNCHANGED vars
  BY <1>1 DEF vars, history, TypeInv, TimerInv
<1> QED
  BY <1>1, SendInv, SignRefusedInv, ChangeTicketInv, NewCamSignerInv, RestartInv, TickInv DEF Next

\* Types and limits of the stations: trackers hold no id twice and keep their
\* limit, as do the certificate cache and the learned authorities, whatever
\* the peers send (the assertions of peer_request_tracker.cpp).
THEOREM DistributionTypes == Spec => []TypeOK
BY InitInv, NextInv, TypeInvTypeOK, PTL DEF Spec

\* A station names its ticket by the digest only when a message of the last
\* second carried that ticket in full or would have, had it not been refused
\* (Ts103097SignHeaderPolicy::prepare_header), through ticket changes,
\* restarts, requests and any traffic.
THEOREM DigestsAreExplained == Spec => []DigestIsExplained
<1>1. ASSUME TypeInv, TimerInv PROVE DigestIsExplained
  <2> SUFFICES ASSUME NEW s \in Stations, NEW aid \in traffic[s], ByDigest(s, aid)
               PROVE  shown[own[s]] < OneSecond \/ spoilt[own[s]] < OneSecond
    BY DEF DigestIsExplained
  <2>1. aid \in Aids
    BY <1>1, DistributionAssumption DEF TypeInv
  <2>2. PICK x : x = prepare_header(entity[s].policy, aid, own[s], Provisioned[s])
    OBVIOUS
  <2>3. Prepared(Renewed(entity[s].policy, own[s]), own[s], x)
    BY <1>1, <2>1, <2>2, EntityParts, HeaderPrepared
  <2>4. ~x.header.full
    BY <2>2 DEF ByDigest
  <2>5. Recent(Renewed(entity[s].policy, own[s]))
    BY <2>3, <2>4 DEF Prepared
  <2>6. PICK p : p = entity[s].policy
    OBVIOUS
  <2>7. p \in Policies /\ Recent(p) /\ p.signer = own[s] /\ TimersExplained(p, shown, spoilt)
    BY <1>1, <2>5, <2>6, EntityParts, RenewedPolicy DEF TimerInv
  <2>8. PICK age \in Ages : age < OneSecond /\ Explained(own[s], age, shown, spoilt)
    BY <2>7 DEF Recent, TimersExplained, Policies
  <2>9. shown[own[s]] \in Nat /\ spoilt[own[s]] \in Nat /\ age \in Nat /\ OneSecond \in Nat
    BY <1>1, EntityParts, SecondIsPositive DEF TypeInv, Histories, Ages
  <2> QED
    BY <2>8, <2>9 DEF Explained
<1> QED
  BY <1>1, InitInv, NextInv, PTL DEF Spec
=============================================================================
