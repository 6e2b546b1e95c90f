------------------------ MODULE VerifyServiceProofs ------------------------
(***************************************************************************)
(* Proofs about VerifyService, for any certificates, messages, bundles,    *)
(* lists, cache limits and replay windows.                                 *)
(***************************************************************************)
EXTENDS VerifyService, SelectionProofs, SequenceTheorems, FiniteSetTheorems, TLAPS

Certificates == DOMAIN Content

LEMMA Constants ==
  /\ Authorities \subseteq Certificates /\ Tickets \subseteq Certificates
  /\ \A c \in Certificates : Issuer[c] \in Authorities /\ Issuer[c] \in Certificates
  /\ \A c \in Certificates : c \in Authorities \/ c \in Tickets
  /\ CacheLimit \in Nat \ {0} /\ ChainCapacity \in Nat \ {0}
  /\ LearnedLimit \in Nat \ {0} /\ ReplayWindow \in Nat \ {0}
BY VerifyAssumption DEF Certificates, Tickets

\* A sequence that grows at its end and, when it is full, loses its head.
Shifted(s, limit, x) == Append(IF Len(s) >= limit THEN Tail(s) ELSE s, x)

LEMMA ShiftedProperties ==
  ASSUME NEW S, NEW s \in Seq(S), NEW x \in S, NEW limit \in Nat \ {0}, Len(s) <= limit
  PROVE  LET r == Shifted(s, limit, x)
             cut == IF Len(s) >= limit THEN 1 ELSE 0 IN
         /\ r \in Seq(S) /\ Len(r) = Len(s) + 1 - cut /\ Len(r) <= limit
         /\ r[Len(r)] = x
         /\ \A i \in 1 .. Len(r) - 1 : i + cut \in 1 .. Len(s) /\ r[i] = s[i + cut]
<1> DEFINE cut == IF Len(s) >= limit THEN 1 ELSE 0
           t == IF Len(s) >= limit THEN Tail(s) ELSE s
           r == Append(t, x)
<1>1. Len(s) \in Nat
  BY LenProperties
<1>2. /\ t \in Seq(S) /\ Len(t) = Len(s) - cut /\ Len(t) \in Nat /\ Len(t) < limit
      /\ \A i \in 1 .. Len(t) : i + cut \in 1 .. Len(s) /\ t[i] = s[i + cut]
  <2>1. CASE Len(s) >= limit
    <3>1. s # <<>>
      BY <1>1, <2>1, EmptySeq
    <3>2. /\ Tail(s) \in Seq(S) /\ Len(Tail(s)) = Len(s) - 1
          /\ \A i \in 1 .. Len(Tail(s)) : Tail(s)[i] = s[i + 1]
      BY <3>1, HeadTailProperties
    <3> QED
      BY <1>1, <2>1, <3>2
  <2>2. CASE ~(Len(s) >= limit)
    BY <1>1, <2>2
  <2> QED
    BY <2>1, <2>2
<1>3. cut \in {0, 1}
  OBVIOUS
<1> HIDE DEF t, cut
<1>4. /\ r \in Seq(S) /\ Len(r) = Len(t) + 1 /\ r[Len(r)] = x
      /\ \A i \in 1 .. Len(t) : r[i] = t[i]
  BY <1>2, AppendProperties
<1>5. r = Shifted(s, limit, x)
  BY DEF Shifted, t
<1> HIDE DEF r
<1>6. Len(r) = Len(s) + 1 - cut /\ Len(r) <= limit
  BY <1>1, <1>2, <1>3, <1>4
<1>7. 1 .. Len(r) - 1 = 1 .. Len(t)
  BY <1>2, <1>4
<1>8. \A i \in 1 .. Len(r) - 1 : i + cut \in 1 .. Len(s) /\ r[i] = s[i + cut]
  BY <1>2, <1>4, <1>7
<1> QED
  BY <1>4, <1>5, <1>6, <1>8 DEF cut

-----------------------------------------------------------------------------
(* Chains of issuers.                                                      *)

\* One more issuer, if it is known.
Climb(s, known) ==
  IF Self(s[Len(s)]) \/ Issuer[s[Len(s)]] \notin known THEN s
  ELSE Append(s, Issuer[s[Len(s)]])

ClimbedBy(c, known, N, up) ==
  up = [n \in 1 .. N |-> IF n = 1 THEN <<c>> ELSE Climb(up[n - 1], known)]

LEMMA ClimbExists ==
  ASSUME NEW c, NEW known, NEW L \in Nat
  PROVE  \E up : ClimbedBy(c, known, L, up)
<1> DEFINE Fails == {N \in Nat : ~\E up : ClimbedBy(c, known, N, up)}
<1>1. ASSUME Fails # {} PROVE FALSE
  <2>1. PICK N \in Fails : \A M \in Fails : N <= M
    BY <1>1, LeastNumber
  <2>2. ClimbedBy(c, known, 0, [n \in 1 .. 0 |-> <<c>>])
    BY DEF ClimbedBy
  <2>3. N # 0
    BY <2>1, <2>2
  <2>4. N - 1 \in Nat /\ N - 1 \notin Fails
    <3>1. N \in Nat
      OBVIOUS
    <3> HIDE DEF Fails
    <3> QED
      BY <2>1, <2>3, <3>1
  <2>5. PICK g : ClimbedBy(c, known, N - 1, g)
    BY <2>4
  <2> DEFINE last == IF N = 1 THEN <<c>> ELSE Climb(g[N - 1], known)
             f == [n \in 1 .. N |-> IF n = N THEN last ELSE g[n]]
  <2>6. ASSUME NEW n \in 1 .. N
        PROVE  f[n] = IF n = 1 THEN <<c>> ELSE Climb(f[n - 1], known)
    <3>1. n # 1 => n - 1 \in 1 .. N /\ n - 1 # N /\ f[n - 1] = g[n - 1]
      BY <2>3
    <3>2. CASE n = N
      BY <2>3, <3>1, <3>2
    <3>3. CASE n # N
      <4>1. n \in 1 .. N - 1 /\ f[n] = g[n]
        BY <3>3
      <4> QED
        BY <2>5, <3>1, <4>1 DEF ClimbedBy
    <3> QED
      BY <3>2, <3>3
  <2>7. ClimbedBy(c, known, N, f)
    BY <2>6 DEF ClimbedBy
  <2> QED
    BY <2>1, <2>7
<1> QED
  BY <1>1

\* The sequence of partial chains that ends in the chain.
Climbs(c, known) == CHOOSE up : ClimbedBy(c, known, 8, up)

LEMMA ClimbsToChain ==
  ASSUME NEW c, NEW known
  PROVE  /\ Chain(c, known) = Climbs(c, known)[8]
         /\ Climbs(c, known)[1] = <<c>>
         /\ \A n \in 2 .. 8 : Climbs(c, known)[n] = Climb(Climbs(c, known)[n - 1], known)
<1>1. ClimbedBy(c, known, 8, Climbs(c, known))
  BY ClimbExists DEF Climbs
<1>2. Chain(c, known) = Climbs(c, known)[8]
  BY DEF Chain, Climbs, ClimbedBy, Climb
<1> HIDE DEF Climbs
<1>3. \A n \in 1 .. 8 : Climbs(c, known)[n] = IF n = 1 THEN <<c>>
                                              ELSE Climb(Climbs(c, known)[n - 1], known)
  BY <1>1 DEF ClimbedBy
<1>4. \A n \in 2 .. 8 : n \in 1 .. 8 /\ n # 1
  OBVIOUS
<1> QED
  BY <1>2, <1>3, <1>4

LEMMA EightSteps ==
  ASSUME NEW T, 1 \in T, \A n \in 1 .. 7 : n \in T => n + 1 \in T
  PROVE  8 \in T
<1>1. 2 \in T /\ 3 \in T /\ 4 \in T /\ 5 \in T
  <2>1. 1 \in 1 .. 7 /\ 2 \in 1 .. 7 /\ 3 \in 1 .. 7 /\ 4 \in 1 .. 7
        /\ 1 + 1 = 2 /\ 2 + 1 = 3 /\ 3 + 1 = 4 /\ 4 + 1 = 5
    OBVIOUS
  <2> QED
    BY <2>1
<1>2. 5 \in 1 .. 7 /\ 6 \in 1 .. 7 /\ 7 \in 1 .. 7 /\ 5 + 1 = 6 /\ 6 + 1 = 7 /\ 7 + 1 = 8
  OBVIOUS
<1> QED
  BY <1>1, <1>2

\* A certificate with some of its issuers, each the issuer of the one before.
Linked(c, known, s) ==
  /\ s \in Seq(Certificates) /\ Len(s) \in Nat \ {0} /\ s[1] = c
  /\ \A k \in 1 .. Len(s) - 1 : s[k + 1] = Issuer[s[k]] /\ s[k + 1] \in known

LEMMA ClimbLinks ==
  ASSUME NEW c \in Certificates, NEW known, NEW s, Linked(c, known, s)
  PROVE  Linked(c, known, Climb(s, known))
<1> DEFINE last == s[Len(s)]
           r == Append(s, Issuer[last])
<1>1. /\ s \in Seq(Certificates) /\ Len(s) \in Nat \ {0} /\ s[1] = c
      /\ \A k \in 1 .. Len(s) - 1 : s[k + 1] = Issuer[s[k]] /\ s[k + 1] \in known
  BY DEF Linked
<1>2. last \in Certificates /\ Issuer[last] \in Certificates
  BY <1>1, ElementOfSeq, Constants
<1>3. CASE Issuer[last] \in known
  <2>1. /\ r \in Seq(Certificates) /\ Len(r) = Len(s) + 1
        /\ \A i \in 1 .. Len(s) : r[i] = s[i]
        /\ r[Len(s) + 1] = Issuer[last]
    BY <1>1, <1>2, AppendProperties
  <2> HIDE DEF r
  <2>2. r[1] = c /\ Len(r) \in Nat \ {0}
    BY <1>1, <2>1
  <2>3. ASSUME NEW k \in 1 .. Len(r) - 1
        PROVE  r[k + 1] = Issuer[r[k]] /\ r[k + 1] \in known
    <3>1. CASE k = Len(s)
      BY <1>1, <1>3, <2>1, <3>1
    <3>2. CASE k # Len(s)
      <4>1. k \in 1 .. Len(s) - 1 /\ k \in 1 .. Len(s) /\ k + 1 \in 1 .. Len(s)
        BY <1>1, <2>1, <3>2
      <4> QED
        BY <1>1, <2>1, <4>1
    <3> QED
      BY <3>1, <3>2
  <2>4. Linked(c, known, r)
    BY <2>1, <2>2, <2>3 DEF Linked
  <2> QED
    BY <2>4 DEF Climb, r
<1>4. CASE Issuer[last] \notin known
  BY <1>4 DEF Climb
<1> QED
  BY <1>3, <1>4

LEMMA ChainLinks ==
  ASSUME NEW c \in Certificates, NEW known
  PROVE  Linked(c, known, Chain(c, known))
<1> DEFINE up == Climbs(c, known)
           T == {n \in 1 .. 8 : Linked(c, known, up[n])}
<1>1. /\ Chain(c, known) = up[8] /\ up[1] = <<c>>
      /\ \A n \in 2 .. 8 : up[n] = Climb(up[n - 1], known)
  BY ClimbsToChain
<1> HIDE DEF up
<1>2. 1 \in T
  <2>1. <<c>> \in Seq(Certificates) /\ Len(<<c>>) = 1 /\ <<c>>[1] = c
    OBVIOUS
  <2>2. Linked(c, known, <<c>>)
    BY <2>1 DEF Linked
  <2> QED
    BY <1>1, <2>2
<1>3. ASSUME NEW n \in 1 .. 7, n \in T PROVE n + 1 \in T
  <2>1. n + 1 \in 2 .. 8 /\ n + 1 \in 1 .. 8 /\ n + 1 - 1 = n
    OBVIOUS
  <2>2. up[n + 1] = Climb(up[n], known)
    BY <1>1, <2>1
  <2>3. Linked(c, known, up[n])
    BY <1>3
  <2> QED
    BY <2>1, <2>2, <2>3, ClimbLinks
<1>4. 8 \in T
  <2> HIDE DEF T
  <2> QED
    BY <1>2, <1>3, EightSteps
<1> QED
  BY <1>1, <1>4

\* A chain that ends in a self-signed certificate is the path to the root,
\* whatever else is known.
LEMMA AnchoredChainIsPath ==
  ASSUME NEW c \in Certificates, NEW known, known \subseteq Authorities,
         Self(Chain(c, known)[Len(Chain(c, known))])
  PROVE  Chain(c, known) = Path(c)
<1> DEFINE up == Climbs(c, known)
           all == Climbs(c, Authorities)
           Ends(s) == ~Self(s[Len(s)]) /\ Issuer[s[Len(s)]] \notin known
           T == {n \in 1 .. 8 : up[n] = all[n] \/ Ends(up[n])}
<1>1. /\ Chain(c, known) = up[8] /\ up[1] = <<c>>
      /\ \A n \in 2 .. 8 : up[n] = Climb(up[n - 1], known)
  BY ClimbsToChain
<1>2. /\ Path(c) = all[8] /\ all[1] = <<c>>
      /\ \A n \in 2 .. 8 : all[n] = Climb(all[n - 1], Authorities)
  BY ClimbsToChain DEF Path
<1> HIDE DEF up, all
<1>3. 1 \in T
  BY <1>1, <1>2
<1>4. ASSUME NEW n \in 1 .. 7, n \in T PROVE n + 1 \in T
  <2>1. n + 1 \in 2 .. 8 /\ n + 1 \in 1 .. 8 /\ n + 1 - 1 = n
    OBVIOUS
  <2>2. up[n + 1] = Climb(up[n], known) /\ all[n + 1] = Climb(all[n], Authorities)
    BY <1>1, <1>2, <2>1
  <2>3. up[n] = all[n] \/ Ends(up[n])
    BY <1>4
  <2>4. CASE Ends(up[n])
    BY <2>1, <2>2, <2>4 DEF Climb
  <2>5. CASE up[n] = all[n] /\ ~Ends(up[n])
    <3>1. up[n + 1] = all[n + 1]
      BY <2>2, <2>5 DEF Climb
    <3> QED
      BY <2>1, <3>1
  <2> QED
    BY <2>3, <2>4, <2>5
<1>5. 8 \in T
  <2> HIDE DEF T
  <2> QED
    BY <1>3, <1>4, EightSteps
<1> QED
  BY <1>1, <1>2, <1>5

-----------------------------------------------------------------------------
(* The security entity.                                                    *)

EntityType ==
  [storage : SUBSET Tickets, verified : SUBSET Tickets, learned : Seq(Authorities),
   window : Seq(Tickets \X Nat), permissive : BOOLEAN]

\* All but the limit of the certificate cache, which is enforced last.
HalfEntity(e) ==
  /\ e \in EntityType
  /\ IsFiniteSet(e.storage)
  /\ IsFiniteSet(e.verified) /\ Cardinality(e.verified) <= ChainCapacity
  /\ Len(e.learned) <= LearnedLimit
  /\ \A i \in 1 .. Len(e.learned) : ~Self(e.learned[i])
  /\ Len(e.window) <= ReplayWindow

GoodEntity(e) == HalfEntity(e) /\ Cardinality(e.storage) <= CacheLimit

LEMMA NewEntityIsGood == GoodEntity(NewEntity)
<1>1. IsFiniteSet({}) /\ Cardinality({}) = 0
  BY FS_EmptySet
<1>2. <<>> \in Seq(Authorities) /\ <<>> \in Seq(Tickets \X Nat) /\ Len(<<>>) = 0
  OBVIOUS
<1> QED
  BY <1>1, <1>2, Constants DEF NewEntity, GoodEntity, HalfEntity, EntityType

LEMMA LearnKeeps ==
  ASSUME NEW e, GoodEntity(e), NEW c \in Authorities \cup {None}
  PROVE  LET r == learn_authority(e, c) IN
         /\ GoodEntity(r)
         /\ r.storage = e.storage /\ r.verified = e.verified
         /\ r.window = e.window /\ r.permissive = e.permissive
<1> DEFINE new == Shifted(e.learned, LearnedLimit, c)
           r == [e EXCEPT !.learned = new]
<1>1. e \in EntityType /\ e.learned \in Seq(Authorities) /\ Len(e.learned) <= LearnedLimit
  BY DEF GoodEntity, HalfEntity, EntityType
<1>2. CASE learn_authority(e, c) = e
  BY <1>2
<1>3. CASE learn_authority(e, c) # e
  <2>1. c \in Authorities /\ ~Self(c)
    BY <1>3 DEF learn_authority
  <2>2. learn_authority(e, c) = r
    BY <1>3 DEF learn_authority, Shifted
  <2>3. /\ new \in Seq(Authorities) /\ Len(new) <= LearnedLimit /\ new[Len(new)] = c
        /\ \A i \in 1 .. Len(new) - 1 : \E j \in 1 .. Len(e.learned) : new[i] = e.learned[j]
    <3> DEFINE cut == IF Len(e.learned) >= LearnedLimit THEN 1 ELSE 0
    <3>1. LearnedLimit \in Nat \ {0}
      BY Constants
    <3> HIDE DEF new
    <3>2. /\ new \in Seq(Authorities) /\ Len(new) <= LearnedLimit /\ new[Len(new)] = c
          /\ \A i \in 1 .. Len(new) - 1 :
               i + cut \in 1 .. Len(e.learned) /\ new[i] = e.learned[i + cut]
      BY <1>1, <2>1, <3>1, ShiftedProperties DEF new
    <3> HIDE DEF cut
    <3> QED
      BY <3>2
  <2> HIDE DEF new
  <2>4. ASSUME NEW i \in 1 .. Len(new) PROVE ~Self(new[i])
    <3>1. Len(new) \in Nat
      BY <2>3, LenProperties
    <3>2. i = Len(new) \/ i \in 1 .. Len(new) - 1
      BY <3>1
    <3>3. \A j \in 1 .. Len(e.learned) : ~Self(e.learned[j])
      BY DEF GoodEntity, HalfEntity
    <3> QED
      BY <2>1, <2>3, <3>2, <3>3
  <2>5. /\ r \in EntityType /\ r.learned = new /\ r.storage = e.storage
        /\ r.verified = e.verified /\ r.window = e.window /\ r.permissive = e.permissive
    BY <1>1, <2>3 DEF EntityType
  <2> HIDE DEF r
  <2>6. GoodEntity(r)
    BY <2>3, <2>4, <2>5 DEF GoodEntity, HalfEntity
  <2> QED
    BY <2>2, <2>5, <2>6
<1> QED
  BY <1>2, <1>3

LEMMA RememberKeeps ==
  ASSUME NEW e, HalfEntity(e), NEW c \in Tickets
  PROVE  LET r == Remember(e, c) IN
         /\ HalfEntity(r) /\ c \in r.verified /\ r.verified \subseteq e.verified \cup {c}
         /\ r.storage = e.storage /\ r.learned = e.learned
         /\ r.window = e.window /\ r.permissive = e.permissive
<1> DEFINE new == IF c \in e.verified THEN e.verified
                  ELSE (IF Cardinality(e.verified) >= ChainCapacity THEN {} ELSE e.verified) \cup {c}
           r == [e EXCEPT !.verified = new]
<1>1. e \in EntityType /\ IsFiniteSet(e.verified) /\ Cardinality(e.verified) <= ChainCapacity
  BY DEF HalfEntity
<1>2. Remember(e, c) = r
  BY DEF Remember
<1>3. Cardinality(e.verified) \in Nat
  BY <1>1, FS_CardinalityType
<1>4. /\ IsFiniteSet(new) /\ Cardinality(new) <= ChainCapacity
      /\ c \in new /\ new \subseteq e.verified \cup {c}
  <2>1. CASE c \in e.verified
    BY <1>1, <2>1
  <2>2. CASE c \notin e.verified /\ Cardinality(e.verified) >= ChainCapacity
    <3>1. /\ IsFiniteSet({} \cup {c}) /\ Cardinality({} \cup {c}) = 0 + 1
      BY FS_EmptySet, FS_AddElement
    <3>2. new = {} \cup {c}
      BY <2>2
    <3> QED
      BY <3>1, <3>2, Constants
  <2>3. CASE c \notin e.verified /\ ~(Cardinality(e.verified) >= ChainCapacity)
    <3>1. /\ IsFiniteSet(e.verified \cup {c})
          /\ Cardinality(e.verified \cup {c}) = Cardinality(e.verified) + 1
      BY <1>1, <2>3, FS_AddElement
    <3>2. new = e.verified \cup {c}
      BY <2>3
    <3> QED
      BY <1>3, <2>3, <3>1, <3>2, Constants
  <2> QED
    BY <2>1, <2>2, <2>3
<1>5. new \in SUBSET Tickets
  BY <1>1 DEF EntityType
<1> HIDE DEF new
<1>6. /\ r \in EntityType /\ r.verified = new /\ r.storage = e.storage
      /\ r.learned = e.learned /\ r.window = e.window /\ r.permissive = e.permissive
  BY <1>1, <1>5 DEF EntityType
<1> HIDE DEF r
<1>7. HalfEntity(r)
  BY <1>4, <1>6 DEF HalfEntity
<1> QED
  BY <1>2, <1>4, <1>6, <1>7

\* What checking the signature of a message does to the entity.
LEMMA CheckedKeeps ==
  ASSUME NEW e, HalfEntity(e), NEW m \in Message
  PROVE  LET c == Checked(e, m) IN
         /\ HalfEntity(c.e)
         /\ c.e.learned = e.learned /\ c.e.window = e.window /\ c.e.permissive = e.permissive
         /\ \/ c.e.verified = e.verified /\ ~c.success
            \/ /\ c.e.verified \subseteq e.verified \cup {m.at} /\ m.at \in c.e.verified
               /\ ValidSigner(e, m.at, m.aid)
<1> DEFINE valid == (m.full \/ m.at \in e.storage) /\ ValidSigner(e, m.at, m.aid)
           known == IF valid THEN Remember(e, m.at) ELSE e
           stored == IF valid /\ m.intact /\ m.full
                     THEN [known EXCEPT !.storage = @ \cup {m.at}] ELSE known
<1>1. Checked(e, m).success = (valid /\ m.intact) /\ Checked(e, m).e = stored
  BY DEF Checked
<1>2. m.at \in Tickets
  BY DEF Message
<1>3. /\ HalfEntity(known) /\ known.learned = e.learned /\ known.window = e.window
      /\ known.permissive = e.permissive
      /\ \/ known.verified = e.verified /\ ~valid
         \/ known.verified \subseteq e.verified \cup {m.at} /\ m.at \in known.verified /\ valid
  <2>1. CASE valid
    BY <1>2, <2>1, RememberKeeps
  <2>2. CASE ~valid
    BY <2>2
  <2> QED
    BY <2>1, <2>2
<1>4. valid => ValidSigner(e, m.at, m.aid)
  OBVIOUS
<1> HIDE DEF known, valid
<1>5. /\ HalfEntity(stored) /\ stored.learned = known.learned /\ stored.window = known.window
      /\ stored.permissive = known.permissive /\ stored.verified = known.verified
  <2>1. CASE stored = known
    BY <1>3, <2>1
  <2>2. CASE stored = [known EXCEPT !.storage = @ \cup {m.at}]
    <3>1. known \in EntityType /\ IsFiniteSet(known.storage)
      BY <1>3 DEF HalfEntity
    <3>2. IsFiniteSet(known.storage \cup {m.at})
      BY <3>1, FS_AddElement
    <3>3. /\ stored \in EntityType /\ stored.storage = known.storage \cup {m.at}
          /\ stored.learned = known.learned /\ stored.window = known.window
          /\ stored.permissive = known.permissive /\ stored.verified = known.verified
      BY <1>2, <2>2, <3>1 DEF EntityType
    <3> HIDE DEF stored
    <3> QED
      BY <1>3, <3>2, <3>3 DEF HalfEntity
  <2> QED
    BY <2>1, <2>2
<1> HIDE DEF stored
<1> QED
  BY <1>1, <1>3, <1>4, <1>5

LEMMA AdmitKeeps ==
  ASSUME NEW e, HalfEntity(e), NEW m \in Message
  PROVE  LET r == Admit(e, m) IN
         /\ HalfEntity(r) /\ r.window = Shifted(e.window, ReplayWindow, <<m.at, m.time>>)
         /\ r.storage = e.storage /\ r.learned = e.learned
         /\ r.verified = e.verified /\ r.permissive = e.permissive
<1> DEFINE new == Shifted(e.window, ReplayWindow, <<m.at, m.time>>)
           r == [e EXCEPT !.window = new]
<1>1. Admit(e, m) = r
  BY DEF Admit, Shifted
<1>2. e \in EntityType /\ e.window \in Seq(Tickets \X Nat) /\ Len(e.window) <= ReplayWindow
  BY DEF HalfEntity, EntityType
<1>3. <<m.at, m.time>> \in Tickets \X Nat
  BY DEF Message
<1>4. new \in Seq(Tickets \X Nat) /\ Len(new) <= ReplayWindow
  <2>1. PICK w, x : w = e.window /\ x = <<m.at, m.time>>
    OBVIOUS
  <2>2. w \in Seq(Tickets \X Nat) /\ x \in Tickets \X Nat /\ Len(w) <= ReplayWindow
    BY <1>2, <1>3, <2>1
  <2> HIDE DEF new
  <2>3. Shifted(w, ReplayWindow, x) \in Seq(Tickets \X Nat)
        /\ Len(Shifted(w, ReplayWindow, x)) <= ReplayWindow
    BY <2>2, Constants, ShiftedProperties, Zenon
  <2> QED
    BY <2>1, <2>3 DEF new
<1> HIDE DEF new
<1>5. /\ r \in EntityType /\ r.window = new /\ r.storage = e.storage
      /\ r.learned = e.learned /\ r.verified = e.verified /\ r.permissive = e.permissive
  BY <1>2, <1>4 DEF EntityType
<1> HIDE DEF r
<1>6. HalfEntity(r)
  BY <1>4, <1>5 DEF HalfEntity
<1> QED
  BY <1>1, <1>5, <1>6 DEF new

LEMMA BoundedKeeps ==
  ASSUME NEW e, HalfEntity(e)
  PROVE  /\ GoodEntity(Bounded(e))
         /\ Bounded(e).learned = e.learned /\ Bounded(e).window = e.window
         /\ Bounded(e).verified = e.verified /\ Bounded(e).permissive = e.permissive
<1>1. Cardinality(e.storage) \in Nat /\ e \in EntityType
  BY FS_CardinalityType DEF HalfEntity
<1>2. CASE Cardinality(e.storage) > CacheLimit
  <2> DEFINE r == [e EXCEPT !.storage = {}]
  <2>1. /\ r \in EntityType /\ r.window = e.window /\ r.storage = {}
        /\ r.learned = e.learned /\ r.verified = e.verified /\ r.permissive = e.permissive
    BY <1>1 DEF EntityType
  <2>2. Bounded(e) = r
    BY <1>2 DEF Bounded
  <2> HIDE DEF r
  <2>3. GoodEntity(r)
    BY <2>1, FS_EmptySet, Constants DEF GoodEntity, HalfEntity
  <2> QED
    BY <2>1, <2>2, <2>3
<1>3. CASE ~(Cardinality(e.storage) > CacheLimit)
  <2>1. Cardinality(e.storage) <= CacheLimit
    BY <1>1, <1>3, Constants
  <2> QED
    BY <1>3, <2>1 DEF Bounded, GoodEntity
<1> QED
  BY <1>2, <1>3

\* What receiving m does, e being the entity once it has learned the authority
\* that came with m.
Received(e, m) ==
  LET pair == <<m.at, m.time>>
      judged == /\ entity'.verified \subseteq entity.verified \cup {m.at}
                /\ m.at \in entity'.verified /\ ValidSigner(e, m.at, m.aid)
      new == entity'.verified \ entity.verified
  IN /\ GoodEntity(e) /\ e.verified = entity.verified /\ e.permissive = entity.permissive
     /\ GoodEntity(entity') /\ entity'.learned = e.learned
     /\ entity'.permissive = entity.permissive
     /\ lax' = IF entity.permissive THEN lax \cup new ELSE lax \ new
     /\ judged \/ entity'.verified = entity.verified
     /\ \/ accepted' = None /\ log' = log /\ entity'.window = entity.window
        \/ /\ judged /\ accepted' = <<m.at, m.aid>>
           /\ Len(log) < MaxAccepted /\ log' = Append(log, pair)
           /\ pair \notin Elements(entity.window)
           /\ entity'.window = Shifted(entity.window, ReplayWindow, pair)

LEMMA ReceiveEffect ==
  ASSUME GoodEntity(entity), NEW m \in Message, Receive(m)
  PROVE  Received(learn_authority(entity, m.requested), m)
<1> DEFINE e == learn_authority(entity, m.requested)
           c == Checked(e, m)
           good == c.success /\ Fresh(m) /\ ~Replayed(c.e, m)
           last == IF good THEN Admit(c.e, m) ELSE c.e
           pair == <<m.at, m.time>>
           judged == /\ c.e.verified \subseteq entity.verified \cup {m.at}
                     /\ m.at \in c.e.verified /\ ValidSigner(e, m.at, m.aid)
           new == c.e.verified \ entity.verified
<1>1. /\ GoodEntity(e) /\ e.verified = entity.verified
      /\ e.window = entity.window /\ e.permissive = entity.permissive
  <2>1. m.requested \in Authorities \cup {None}
    BY DEF Message
  <2> QED
    BY <2>1, LearnKeeps
<1>2. /\ good => Len(log) < MaxAccepted
      /\ entity' = Bounded(last)
      /\ accepted' = IF good THEN <<m.at, m.aid>> ELSE None
      /\ log' = IF good THEN Append(log, pair) ELSE log
      /\ lax' = IF entity.permissive THEN lax \cup new ELSE lax \ new
  BY DEF Receive
<1> HIDE DEF e
<1>3. /\ HalfEntity(c.e) /\ c.e.learned = e.learned /\ c.e.window = entity.window
      /\ c.e.permissive = entity.permissive
      /\ judged \/ (c.e.verified = entity.verified /\ ~c.success)
  BY <1>1, CheckedKeeps DEF GoodEntity
<1>4. good => judged /\ pair \notin Elements(entity.window)
  BY <1>3 DEF Replayed
<1>5. ~good => c.e = last
  OBVIOUS
<1> HIDE DEF c, good
<1>6. /\ HalfEntity(last) /\ last.learned = e.learned /\ last.verified = c.e.verified
      /\ last.permissive = entity.permissive
      /\ last.window = IF good THEN Shifted(entity.window, ReplayWindow, pair) ELSE entity.window
  <2>1. CASE good
    BY <1>3, <2>1, AdmitKeeps
  <2>2. CASE ~good
    BY <1>3, <2>2
  <2> QED
    BY <2>1, <2>2
<1> HIDE DEF last
<1>7. /\ GoodEntity(entity') /\ entity'.learned = e.learned /\ entity'.verified = c.e.verified
      /\ entity'.permissive = entity.permissive /\ entity'.window = last.window
  BY <1>2, <1>6, BoundedKeeps
<1>8. CASE good
  BY <1>1, <1>2, <1>3, <1>4, <1>6, <1>7, <1>8 DEF Received, e
<1>9. CASE ~good
  BY <1>1, <1>2, <1>3, <1>6, <1>7, <1>9 DEF Received, e
<1> QED
  BY <1>8, <1>9

-----------------------------------------------------------------------------
(* Credential bundles and what is written of them.                         *)

Types == {"root", "authority", "ticket", "key"}
RecordType == [type : Types, of : Certificates]

Credentials(cr) ==
  /\ cr.roots \in Seq(Certificates) /\ cr.authorities \in Seq(Certificates)
  /\ cr.tickets \in Seq(Certificates)

LEMMA RecordsOf ==
  ASSUME NEW s \in Seq(Certificates), NEW type \in Types
  PROVE  /\ Records(type, s) \in Seq(RecordType) /\ Len(Records(type, s)) = Len(s)
         /\ \A n \in 1 .. Len(s) : /\ Records(type, s)[n].type = type
                                   /\ Records(type, s)[n].of = s[n]
<1>1. Len(s) \in Nat /\ DOMAIN s = 1 .. Len(s) /\ \A n \in 1 .. Len(s) : s[n] \in Certificates
  BY LenProperties, ElementOfSeq
<1>2. Records(type, s) = [n \in 1 .. Len(s) |-> [type |-> type, of |-> s[n]]]
  BY <1>1 DEF Records, Record
<1>3. \A n \in 1 .. Len(s) : [type |-> type, of |-> s[n]] \in RecordType
  BY <1>1 DEF RecordType
<1> QED
  BY <1>1, <1>2, <1>3

LEMMA KeysOf ==
  ASSUME NEW s \in Seq(Certificates)
  PROVE  /\ WithKeys(s) \in Seq(RecordType) /\ Len(WithKeys(s)) = 2 * Len(s)
         /\ \A n \in 1 .. 2 * Len(s) : /\ WithKeys(s)[n].type \in {"ticket", "key"}
                                       /\ \E i \in 1 .. Len(s) : WithKeys(s)[n].of = s[i]
<1> DEFINE half(n) == (n + 1) \div 2
           type(n) == IF n % 2 = 1 THEN "ticket" ELSE "key"
<1>1. Len(s) \in Nat /\ \A n \in 1 .. Len(s) : s[n] \in Certificates
  BY LenProperties, ElementOfSeq
<1>2. ASSUME NEW n \in 1 .. 2 * Len(s) PROVE half(n) \in 1 .. Len(s)
  <2>1. 2 * Len(s) \in Nat /\ n \in Int /\ 1 <= n /\ n <= 2 * Len(s)
    BY <1>1
  <2> QED
    BY <1>1, <2>1
<1>3. \A n \in 1 .. 2 * Len(s) : type(n) \in {"ticket", "key"}
  OBVIOUS
<1>4. WithKeys(s) = [n \in 1 .. 2 * Len(s) |-> [type |-> type(n), of |-> s[half(n)]]]
  BY DEF WithKeys, Record
<1> HIDE DEF half, type
<1>5. \A n \in 1 .. 2 * Len(s) : [type |-> type(n), of |-> s[half(n)]] \in RecordType
  BY <1>1, <1>2, <1>3 DEF RecordType, Types
<1>6. 2 * Len(s) \in Nat
  BY <1>1
<1>7. /\ WithKeys(s) \in Seq(RecordType) /\ Len(WithKeys(s)) = 2 * Len(s)
  BY <1>4, <1>5, <1>6
<1>8. \A n \in 1 .. 2 * Len(s) : WithKeys(s)[n].type = type(n) /\ WithKeys(s)[n].of = s[half(n)]
  BY <1>4
<1> QED
  BY <1>2, <1>3, <1>7, <1>8

Joined(s, a, b, c) == s = a \o b \o c

LEMMA ThreeParts ==
  ASSUME NEW S, NEW a \in Seq(S), NEW b \in Seq(S), NEW c \in Seq(S), NEW s, Joined(s, a, b, c)
  PROVE  /\ s \in Seq(S) /\ Len(s) = Len(a) + Len(b) + Len(c)
         /\ \A i \in 1 .. Len(a) : s[i] = a[i]
         /\ \A i \in 1 .. Len(b) : s[Len(a) + i] = b[i]
         /\ \A i \in 1 .. Len(c) : s[Len(a) + Len(b) + i] = c[i]
<1>1. Len(a) \in Nat /\ Len(b) \in Nat /\ Len(c) \in Nat
  BY LenProperties
<1>2. /\ a \o b \in Seq(S) /\ Len(a \o b) = Len(a) + Len(b)
      /\ \A i \in 1 .. Len(a) + Len(b) :
           (a \o b)[i] = IF i <= Len(a) THEN a[i] ELSE b[i - Len(a)]
  BY ConcatProperties
<1>3. PICK ab \in Seq(S) :
        /\ ab = a \o b /\ Len(ab) = Len(a) + Len(b)
        /\ \A i \in 1 .. Len(a) + Len(b) : ab[i] = IF i <= Len(a) THEN a[i] ELSE b[i - Len(a)]
  BY <1>2, Zenon
<1>4. s = ab \o c
  BY <1>3, Zenon DEF Joined
<1>5. /\ s \in Seq(S) /\ Len(s) = Len(ab) + Len(c)
      /\ \A i \in 1 .. Len(ab) + Len(c) : s[i] = IF i <= Len(ab) THEN ab[i] ELSE c[i - Len(ab)]
  BY <1>4, ConcatProperties, Zenon
<1>6. Len(ab) = Len(a) + Len(b)
  BY <1>3
<1>7. ASSUME NEW i \in 1 .. Len(a) PROVE s[i] = a[i]
  <2>1. i \in 1 .. Len(a) + Len(b) /\ i \in 1 .. Len(ab) + Len(c) /\ i <= Len(ab) /\ i <= Len(a)
    BY <1>1, <1>6
  <2> QED
    BY <1>3, <1>5, <2>1
<1>8. ASSUME NEW i \in 1 .. Len(b) PROVE s[Len(a) + i] = b[i]
  <2>1. /\ Len(a) + i \in 1 .. Len(a) + Len(b) /\ Len(a) + i \in 1 .. Len(ab) + Len(c)
        /\ Len(a) + i <= Len(ab) /\ ~(Len(a) + i <= Len(a)) /\ Len(a) + i - Len(a) = i
    BY <1>1, <1>6
  <2> QED
    BY <1>3, <1>5, <2>1
<1>9. ASSUME NEW i \in 1 .. Len(c) PROVE s[Len(a) + Len(b) + i] = c[i]
  <2>1. /\ Len(a) + Len(b) + i \in 1 .. Len(ab) + Len(c)
        /\ ~(Len(a) + Len(b) + i <= Len(ab)) /\ Len(a) + Len(b) + i - Len(ab) = i
    BY <1>1, <1>6
  <2> QED
    BY <1>3, <1>5, <2>1
<1> QED
  BY <1>3, <1>5, <1>7, <1>8, <1>9

\* s holds the roots and authorities of cr first, then tickets of cr (and keys).
Layout(s, cr) ==
  LET first == Len(cr.roots) + Len(cr.authorities) IN
  /\ s \in Seq(RecordType) /\ first \in Nat /\ first <= Len(s)
  /\ \A n \in 1 .. Len(cr.roots) : s[n].type = "root" /\ s[n].of = cr.roots[n]
  /\ \A n \in 1 .. Len(cr.authorities) :
       /\ s[Len(cr.roots) + n].type = "authority"
       /\ s[Len(cr.roots) + n].of = cr.authorities[n]
  /\ \A n \in 1 .. first : s[n].type \in {"root", "authority"}
  /\ \A n \in 1 .. Len(s) : n > first =>
       /\ s[n].type \in {"ticket", "key"}
       /\ \E i \in 1 .. Len(cr.tickets) : s[n].of = cr.tickets[i]

TicketPart(s, cr) ==
  /\ s \in Seq(RecordType)
  /\ \A n \in 1 .. Len(s) : /\ s[n].type \in {"ticket", "key"}
                            /\ \E i \in 1 .. Len(cr.tickets) : s[n].of = cr.tickets[i]

LEMMA LaidOut ==
  ASSUME NEW cr, Credentials(cr), NEW t, TicketPart(t, cr),
         NEW s, Joined(s, Records("root", cr.roots), Records("authority", cr.authorities), t)
  PROVE  Layout(s, cr)
<1> DEFINE first == Len(cr.roots) + Len(cr.authorities)
<1>1. /\ cr.roots \in Seq(Certificates) /\ cr.authorities \in Seq(Certificates)
      /\ "root" \in Types /\ "authority" \in Types
  BY DEF Credentials, Types
<1>2. PICK a \in Seq(RecordType) :
        /\ a = Records("root", cr.roots) /\ Len(a) = Len(cr.roots)
        /\ \A n \in 1 .. Len(cr.roots) : a[n].type = "root" /\ a[n].of = cr.roots[n]
  BY <1>1, RecordsOf
<1>3. PICK b \in Seq(RecordType) :
        /\ b = Records("authority", cr.authorities) /\ Len(b) = Len(cr.authorities)
        /\ \A n \in 1 .. Len(cr.authorities) :
             b[n].type = "authority" /\ b[n].of = cr.authorities[n]
  BY <1>1, RecordsOf
<1>4. t \in Seq(RecordType)
  BY DEF TicketPart
<1>5. Len(cr.roots) \in Nat /\ Len(cr.authorities) \in Nat /\ Len(t) \in Nat
  BY <1>1, <1>4, LenProperties
<1>6. /\ s \in Seq(RecordType) /\ Len(s) = Len(a) + Len(b) + Len(t)
      /\ \A i \in 1 .. Len(a) : s[i] = a[i]
      /\ \A i \in 1 .. Len(b) : s[Len(a) + i] = b[i]
      /\ \A i \in 1 .. Len(t) : s[Len(a) + Len(b) + i] = t[i]
  <2>1. Joined(s, a, b, t)
    BY <1>2, <1>3, Zenon
  <2> QED
    BY <1>4, <2>1, ThreeParts
<1>7. PICK x \in Nat, y \in Nat, z \in Nat :
        /\ Len(cr.roots) = x /\ Len(a) = x /\ Len(cr.authorities) = y /\ Len(b) = y
        /\ Len(t) = z /\ Len(s) = x + y + z
  <2>1. Len(s) = Len(cr.roots) + Len(cr.authorities) + Len(t)
    BY <1>2, <1>3, <1>6, Zenon
  <2>2. WITNESS Len(cr.roots) \in Nat, Len(cr.authorities) \in Nat, Len(t) \in Nat
  <2> QED
    BY <1>2, <1>3, <2>1, Zenon
<1>8. first = x + y /\ first \in Nat /\ first <= Len(s)
  <2>1. first = x + y
    BY <1>7, Zenon
  <2>2. x + y \in Nat /\ x + y <= x + y + z
    OBVIOUS
  <2> QED
    BY <1>7, <2>1, <2>2, Zenon
<1> HIDE DEF first
<1>9. ASSUME NEW n \in 1 .. first PROVE s[n].type \in {"root", "authority"}
  <2>1. n \in 1 .. x + y
    BY <1>8
  <2>2. CASE n \in 1 .. x
    BY <1>2, <1>6, <1>7, <2>2
  <2>3. CASE n \notin 1 .. x
    <3>1. PICK k \in 1 .. y : x + k = n
      <4>1. n - x \in 1 .. y /\ x + (n - x) = n
        BY <2>1, <2>3
      <4> QED
        BY <4>1
    <3>2. s[n] = b[k] /\ b[k].type = "authority"
      BY <1>3, <1>6, <1>7, <3>1
    <3> QED
      BY <3>2
  <2> QED
    BY <2>2, <2>3
<1>10. ASSUME NEW n \in 1 .. Len(s), n > first
       PROVE  /\ s[n].type \in {"ticket", "key"}
              /\ \E i \in 1 .. Len(cr.tickets) : s[n].of = cr.tickets[i]
  <2>1. n \in 1 .. x + y + z /\ n > x + y
    BY <1>7, <1>10, <1>8
  <2>2. PICK i \in 1 .. z : x + y + i = n
    <3>1. n - (x + y) \in 1 .. z /\ x + y + (n - (x + y)) = n
      BY <2>1
    <3> QED
      BY <3>1
  <2>3. s[n] = t[i] /\ i \in 1 .. Len(t)
    BY <1>6, <1>7, <2>2
  <2> QED
    BY <2>3 DEF TicketPart
<1>11. Layout(s, cr)
  <2>1. \A n \in 1 .. Len(cr.roots) : s[n].type = "root" /\ s[n].of = cr.roots[n]
    BY <1>2, <1>6, <1>7
  <2>2. ASSUME NEW n \in 1 .. Len(cr.authorities)
        PROVE  /\ s[Len(cr.roots) + n].type = "authority"
               /\ s[Len(cr.roots) + n].of = cr.authorities[n]
    <3>1. s[Len(a) + n] = b[n]
      BY <1>3, <1>6, Zenon
    <3> QED
      BY <1>2, <1>3, <3>1, ZenonT(60)
  <2> QED
    BY <1>6, <1>9, <1>10, <1>8, <2>1, <2>2 DEF Layout, first
<1> QED
  BY <1>11

LEMMA BundlesAreLaidOut ==
  ASSUME NEW cr, Credentials(cr)
  PROVE  Layout(Items(cr), cr) /\ Layout(encode(cr), cr)
<1>1. cr.tickets \in Seq(Certificates) /\ "ticket" \in Types
  BY DEF Credentials, Types
<1>2. Len(cr.tickets) \in Nat
  BY <1>1, LenProperties
<1>3. TicketPart(Records("ticket", cr.tickets), cr)
  BY <1>1, RecordsOf DEF TicketPart
<1>4. Layout(Items(cr), cr)
  BY <1>3, LaidOut DEF Items, Joined
<1>5. TicketPart(WithKeys(cr.tickets), cr)
  BY <1>1, KeysOf DEF TicketPart
<1>6. Layout(encode(cr), cr)
  BY <1>5, LaidOut DEF encode, Joined
<1> QED
  BY <1>4, <1>6

-----------------------------------------------------------------------------
(* Applying a bundle.                                                      *)

\* One more item of a bundle.
ApplyItem(st, item) ==
  IF st.go /\ accepts(st.h, item) THEN [h |-> add(st.h, item), go |-> TRUE]
  ELSE [st EXCEPT !.go = FALSE]

AppliedBy(h, items, N, step) ==
  step = [n \in 0 .. N |-> IF n = 0 THEN [h |-> h, go |-> TRUE]
                           ELSE ApplyItem(step[n - 1], items[n])]

LEMMA ApplyExists ==
  ASSUME NEW h, NEW items, NEW L \in Nat
  PROVE  \E step : AppliedBy(h, items, L, step)
<1> DEFINE Fails == {N \in Nat : ~\E step : AppliedBy(h, items, N, step)}
<1>1. ASSUME Fails # {} PROVE FALSE
  <2>1. PICK N \in Fails : \A M \in Fails : N <= M
    BY <1>1, LeastNumber
  <2>2. AppliedBy(h, items, 0, [n \in 0 .. 0 |-> [h |-> h, go |-> TRUE]])
    BY DEF AppliedBy
  <2>3. N # 0
    BY <2>1, <2>2
  <2>4. N - 1 \in Nat /\ N - 1 \notin Fails
    <3>1. N \in Nat
      OBVIOUS
    <3> HIDE DEF Fails
    <3> QED
      BY <2>1, <2>3, <3>1
  <2>5. PICK g : AppliedBy(h, items, N - 1, g)
    BY <2>4
  <2> DEFINE last == ApplyItem(g[N - 1], items[N])
             f == [n \in 0 .. N |-> IF n = N THEN last ELSE g[n]]
  <2>6. ASSUME NEW n \in 0 .. N
        PROVE  f[n] = IF n = 0 THEN [h |-> h, go |-> TRUE] ELSE ApplyItem(f[n - 1], items[n])
    <3>1. n # 0 => n - 1 \in 0 .. N /\ n - 1 # N /\ f[n - 1] = g[n - 1]
      BY <2>3
    <3>2. CASE n = N
      BY <2>3, <3>1, <3>2
    <3>3. CASE n # N
      <4>1. n \in 0 .. N - 1 /\ f[n] = g[n]
        BY <3>3
      <4> QED
        BY <2>5, <3>1, <4>1 DEF AppliedBy
    <3> QED
      BY <3>2, <3>3
  <2>7. AppliedBy(h, items, N, f)
    BY <2>6 DEF AppliedBy
  <2> QED
    BY <2>1, <2>7
<1> QED
  BY <1>1

\* Induction along the items: T holds the states that may be met after so many.
LEMMA ApplyInduction ==
  ASSUME NEW h, NEW cr, Len(Items(cr)) \in Nat, NEW T,
         <<0, [h |-> h, go |-> TRUE]>> \in T,
         \A n \in 1 .. Len(Items(cr)) : \A st :
           <<n - 1, st>> \in T => <<n, ApplyItem(st, Items(cr)[n])>> \in T
  PROVE  \E st : <<Len(Items(cr)), st>> \in T /\ apply(h, cr) = st.h
<1> DEFINE N == Len(Items(cr))
           step == CHOOSE f : AppliedBy(h, Items(cr), N, f)
           Fails == {n \in 0 .. N : <<n, step[n]>> \notin T}
<1>1. AppliedBy(h, Items(cr), N, step)
  BY ApplyExists
<1>2. apply(h, cr) = step[N].h
  BY DEF apply, AppliedBy, ApplyItem
<1> HIDE DEF step, N
<1>3. \A n \in 0 .. N : step[n] = IF n = 0 THEN [h |-> h, go |-> TRUE]
                                  ELSE ApplyItem(step[n - 1], Items(cr)[n])
  BY <1>1 DEF AppliedBy
<1>4. N \in Nat
  BY DEF N
<1>5. ASSUME Fails # {} PROVE FALSE
  <2>1. Fails \subseteq Nat
    BY <1>4
  <2>2. PICK n \in Fails : \A m \in Fails : n <= m
    BY <1>5, <2>1, LeastNumber, Zenon
  <2>3. n \in 0 .. N /\ <<n, step[n]>> \notin T
    OBVIOUS
  <2>4. n # 0
    BY <1>3, <2>3
  <2>5. n - 1 \in 0 .. N /\ n - 1 \notin Fails /\ n \in 1 .. N
    <3> HIDE DEF Fails
    <3> QED
      BY <1>4, <2>2, <2>3, <2>4
  <2>6. <<n - 1, step[n - 1]>> \in T
    BY <2>5
  <2> QED
    BY <1>3, <2>3, <2>4, <2>5, <2>6 DEF N
<1>6. N \in 0 .. N
  BY <1>4
<1> QED
  BY <1>2, <1>5, <1>6 DEF N

-----------------------------------------------------------------------------

HoldingsType ==
  [roots : SUBSET Authorities, issuers : SUBSET Authorities,
   revoked : SUBSET (Authorities \X Certificates), pool : SUBSET Tickets]

GoodHoldings(h) ==
  /\ h \in HoldingsType /\ h.roots \subseteq h.issuers
  /\ \A c \in h.roots : Self(c)

Extends(h, g) ==
  h.roots \subseteq g.roots /\ h.issuers \subseteq g.issuers /\ h.revoked = g.revoked

Holds(g, item) ==
  /\ item.type = "root" => item.of \in g.roots
  /\ item.type \in {"root", "authority"} => item.of \in g.issuers

\* The roots and authorities of cr are held, item by item.
HoldsChains(g, cr) ==
  \A i \in 1 .. Len(cr.roots) + Len(cr.authorities) : Holds(g, Items(cr)[i])

\* A ticket that g has and h has not is of cr, and cr's authorities are held.
Backed(h, cr, g) ==
  \A t \in g.pool \ h.pool :
    HoldsChains(g, cr) /\ \E i \in 1 .. Len(cr.tickets) : t = cr.tickets[i]

StateType == [h : HoldingsType, go : BOOLEAN]

\* After the first n items of cr.
Progress(h, cr, n, st) ==
  /\ st \in StateType /\ GoodHoldings(st.h)
  /\ Extends(h, st.h) /\ Backed(h, cr, st.h)
  /\ st.go => \A i \in 1 .. n : Holds(st.h, Items(cr)[i])

LEMMA AddGrows ==
  ASSUME NEW h, GoodHoldings(h), NEW item \in RecordType, accepts(h, item)
  PROVE  LET g == add(h, item) IN
         /\ GoodHoldings(g) /\ Extends(h, g) /\ Holds(g, item)
         /\ g.pool = h.pool \/ (item.type = "ticket" /\ g.pool = h.pool \cup {item.of})
<1>1. h \in HoldingsType /\ item.of \in Certificates /\ item.type \in Types
  BY DEF GoodHoldings, RecordType
<1>2. CASE item.type = "root"
  <2> DEFINE g == [h EXCEPT !.roots = @ \cup {item.of}, !.issuers = @ \cup {item.of}]
  <2>1. add(h, item) = g
    BY <1>2 DEF add, add_root
  <2>2. Self(item.of) /\ item.of \in Authorities
    BY <1>2 DEF accepts, may_add_root
  <2>3. /\ g \in HoldingsType /\ g.roots = h.roots \cup {item.of}
        /\ g.issuers = h.issuers \cup {item.of} /\ g.pool = h.pool /\ g.revoked = h.revoked
    BY <1>1, <2>2 DEF HoldingsType
  <2> HIDE DEF g
  <2> QED
    BY <2>1, <2>2, <2>3 DEF GoodHoldings, Extends, Holds
<1>3. CASE item.type = "authority"
  <2> DEFINE g == [h EXCEPT !.issuers = @ \cup {item.of}]
  <2>1. add(h, item) = g
    BY <1>3 DEF add, add_authority
  <2>2. item.of \in Authorities
    BY <1>3 DEF accepts, may_add_authority
  <2>3. /\ g \in HoldingsType /\ g.roots = h.roots
        /\ g.issuers = h.issuers \cup {item.of} /\ g.pool = h.pool /\ g.revoked = h.revoked
    BY <1>1, <2>2 DEF HoldingsType
  <2> HIDE DEF g
  <2> QED
    BY <1>3, <2>1, <2>2, <2>3 DEF GoodHoldings, Extends, Holds
<1>4. CASE item.type = "ticket"
  <2> DEFINE g == [h EXCEPT !.pool = @ \cup {item.of}]
  <2>1. add(h, item) = g
    BY <1>4 DEF add, add_ticket
  <2>2. item.of \in Tickets
    BY <1>1, <1>4 DEF accepts, may_add_ticket, Tickets, Certificates
  <2>3. /\ g \in HoldingsType /\ g.roots = h.roots
        /\ g.issuers = h.issuers /\ g.pool = h.pool \cup {item.of} /\ g.revoked = h.revoked
    BY <1>1, <2>2 DEF HoldingsType
  <2> HIDE DEF g
  <2> QED
    BY <1>4, <2>1, <2>3 DEF GoodHoldings, Extends, Holds
<1> QED
  BY <1>2, <1>3, <1>4 DEF accepts

LEMMA HoldsGrows ==
  ASSUME NEW h, NEW g, Extends(h, g), NEW item, Holds(h, item)
  PROVE  Holds(g, item)
BY DEF Extends, Holds

LEMMA ProgressStep ==
  ASSUME NEW h, GoodHoldings(h), NEW cr, Credentials(cr), NEW n \in 1 .. Len(Items(cr)),
         NEW st, Progress(h, cr, n - 1, st)
  PROVE  Progress(h, cr, n, ApplyItem(st, Items(cr)[n]))
<1> DEFINE item == Items(cr)[n]
           first == Len(cr.roots) + Len(cr.authorities)
<1>1. Layout(Items(cr), cr)
  BY BundlesAreLaidOut
<1>2. /\ Items(cr) \in Seq(RecordType) /\ first \in Nat
      /\ \A k \in 1 .. first : Items(cr)[k].type \in {"root", "authority"}
      /\ n > first => \E i \in 1 .. Len(cr.tickets) : item.of = cr.tickets[i]
  BY <1>1 DEF Layout
<1>3. item \in RecordType
  BY <1>2, ElementOfSeq
<1>4. /\ st \in StateType /\ GoodHoldings(st.h)
      /\ Extends(h, st.h) /\ Backed(h, cr, st.h)
      /\ st.go => \A i \in 1 .. n - 1 : Holds(st.h, Items(cr)[i])
  BY DEF Progress
<1>5. Len(Items(cr)) \in Nat /\ n \in Nat
  BY <1>2, LenProperties
<1>6. CASE st.go /\ accepts(st.h, item)
  <2> DEFINE g == add(st.h, item)
  <2>1. ApplyItem(st, item) = [h |-> g, go |-> TRUE]
    BY <1>6 DEF ApplyItem
  <2>2. /\ GoodHoldings(g) /\ Extends(st.h, g) /\ Holds(g, item)
        /\ g.pool = st.h.pool \/ (item.type = "ticket" /\ g.pool = st.h.pool \cup {item.of})
    BY <1>3, <1>4, <1>6, AddGrows
  <2> HIDE DEF g
  <2>3. ASSUME NEW i \in 1 .. n PROVE Holds(g, Items(cr)[i])
    <3>1. CASE i = n
      BY <2>2, <3>1
    <3>2. CASE i # n
      <4>1. i \in 1 .. n - 1
        BY <1>5, <3>2
      <4>2. Holds(st.h, Items(cr)[i])
        BY <1>4, <1>6, <4>1
      <4> QED
        BY <2>2, <4>2, HoldsGrows
    <3> QED
      BY <3>1, <3>2
  <2>4. Extends(h, g)
    BY <1>4, <2>2 DEF Extends
  <2>5. ASSUME NEW t \in g.pool \ h.pool
        PROVE  HoldsChains(g, cr) /\ \E i \in 1 .. Len(cr.tickets) : t = cr.tickets[i]
    <3>1. CASE t \in st.h.pool
      <4>1. HoldsChains(st.h, cr) /\ \E i \in 1 .. Len(cr.tickets) : t = cr.tickets[i]
        BY <1>4, <2>5, <3>1 DEF Backed
      <4> QED
        BY <2>2, <4>1, HoldsGrows DEF HoldsChains
    <3>2. CASE t \notin st.h.pool
      <4>1. item.type = "ticket" /\ t = item.of
        BY <2>2, <2>5, <3>2
      <4>2. n \notin 1 .. first
        BY <1>2, <4>1, Zenon
      <4>3. first \in Nat /\ n \in Nat /\ n >= 1
        <5>1. n >= 1
          BY <1>5
        <5> QED
          BY <1>2, <1>5, <5>1, Zenon
      <4> HIDE DEF first
      <4>4. n > first /\ \A i \in 1 .. first : i \in 1 .. n
        BY <4>2, <4>3
      <4> QED
        BY <1>2, <2>3, <4>1, <4>4 DEF HoldsChains, first
    <3> QED
      BY <3>1, <3>2
  <2>6. Backed(h, cr, g)
    BY <2>5 DEF Backed
  <2>7. /\ ApplyItem(st, item) \in StateType /\ ApplyItem(st, item).h = g
    BY <2>1, <2>2 DEF StateType, GoodHoldings
  <2> QED
    BY <2>2, <2>3, <2>4, <2>6, <2>7 DEF Progress
<1>7. CASE ~(st.go /\ accepts(st.h, item))
  <2>1. ApplyItem(st, item) = [st EXCEPT !.go = FALSE]
    BY <1>7 DEF ApplyItem
  <2>2. /\ ApplyItem(st, item) \in StateType /\ ApplyItem(st, item).h = st.h
        /\ ~ApplyItem(st, item).go
    BY <1>4, <2>1 DEF StateType
  <2> QED
    BY <1>4, <2>2 DEF Progress
<1> QED
  BY <1>6, <1>7

LEMMA ApplyResult ==
  ASSUME NEW h, GoodHoldings(h), NEW cr, Credentials(cr)
  PROVE  /\ GoodHoldings(apply(h, cr)) /\ Extends(h, apply(h, cr))
         /\ Backed(h, cr, apply(h, cr))
<1> DEFINE start == [h |-> h, go |-> TRUE]
           T == {p \in Nat \X StateType : Progress(h, cr, p[1], p[2])}
<1>1. Len(Items(cr)) \in Nat
  BY BundlesAreLaidOut, LenProperties DEF Layout
<1>2. <<0, start>> \in T
  <2>1. start \in StateType /\ start.h = h
    BY DEF StateType, GoodHoldings
  <2>2. Progress(h, cr, 0, start)
    BY <2>1 DEF Progress, Extends, Backed
  <2> QED
    BY <2>1, <2>2
<1>3. ASSUME NEW n \in 1 .. Len(Items(cr)), NEW st, <<n - 1, st>> \in T
      PROVE  <<n, ApplyItem(st, Items(cr)[n])>> \in T
  <2>1. Progress(h, cr, n - 1, st)
    BY <1>3
  <2>2. Progress(h, cr, n, ApplyItem(st, Items(cr)[n]))
    BY <2>1, ProgressStep
  <2>3. ApplyItem(st, Items(cr)[n]) \in StateType /\ n \in Nat
    BY <1>1, <2>2 DEF Progress
  <2> QED
    BY <2>2, <2>3
<1> HIDE DEF T
<1>4. PICK st : <<Len(Items(cr)), st>> \in T /\ apply(h, cr) = st.h
  BY <1>1, <1>2, <1>3, ApplyInduction
<1>5. Progress(h, cr, Len(Items(cr)), st)
  BY <1>4 DEF T
<1> QED
  BY <1>4, <1>5 DEF Progress

-----------------------------------------------------------------------------
(* The credential store.                                                   *)

GoodFile(f) == f \in [records : Seq(RecordType), complete : BOOLEAN]

LEMMA OfTypeResult ==
  ASSUME NEW records \in Seq(RecordType), NEW type
  PROVE  LET s == OfType(records, type) IN
         /\ s \in Seq(Certificates)
         /\ \A i \in 1 .. Len(s) : \E n \in 1 .. Len(records) :
              records[n].type = type /\ records[n].of = s[i]
         /\ \A n \in 1 .. Len(records) :
              records[n].type = type => \E i \in 1 .. Len(s) : s[i] = records[n].of
<1> DEFINE I == {n \in DOMAIN records : records[n].type = type}
           some == Selected(records, I)
           s == [n \in DOMAIN some |-> some[n].of]
<1>1. PICK e : Places(RecordType, records, I, Len(records), some, e)
  BY SelectedPlaces
<1>2. DOMAIN records = 1 .. Len(records)
  BY LenProperties
<1>3. OfType(records, type) = s
  BY DEF OfType
<1>4. \A n \in 1 .. Len(records) : n \in I <=> records[n].type = type
  BY <1>2
<1> HIDE DEF I, some
<1>5. /\ some \in Seq(RecordType) /\ e \in [1 .. Len(some) -> 1 .. Len(records)]
      /\ \A i \in 1 .. Len(some) : e[i] \in I /\ some[i] = records[e[i]]
      /\ \A k \in 1 .. Len(records) : k \in I => \E i \in 1 .. Len(some) : e[i] = k
  BY <1>1 DEF Places
<1>6. Len(some) \in Nat /\ DOMAIN some = 1 .. Len(some)
  BY <1>5, LenProperties
<1>7. ASSUME NEW i \in 1 .. Len(some) PROVE some[i].of \in Certificates
  <2>1. some[i] \in RecordType
    BY <1>5, ElementOfSeq
  <2> QED
    BY <2>1, Zenon DEF RecordType
<1>8. /\ s \in Seq(Certificates) /\ Len(s) = Len(some)
      /\ \A i \in 1 .. Len(some) : s[i] = some[i].of
  <2>1. s = [n \in 1 .. Len(some) |-> some[n].of]
    BY <1>6
  <2> HIDE DEF s
  <2>2. s \in [1 .. Len(some) -> Certificates]
    BY <1>7, <2>1, Zenon
  <2> QED
    BY <1>6, <2>1, <2>2
<1> HIDE DEF s
<1>9. ASSUME NEW i \in 1 .. Len(s)
      PROVE  \E n \in 1 .. Len(records) : records[n].type = type /\ records[n].of = s[i]
  <2>1. i \in 1 .. Len(some)
    BY <1>8
  <2>2. e[i] \in 1 .. Len(records) /\ e[i] \in I /\ s[i] = records[e[i]].of
    BY <1>5, <1>8, <2>1
  <2> QED
    BY <1>4, <2>2
<1>10. ASSUME NEW n \in 1 .. Len(records), records[n].type = type
       PROVE  \E i \in 1 .. Len(s) : s[i] = records[n].of
  <2>1. PICK i \in 1 .. Len(some) : e[i] = n
    BY <1>4, <1>5, <1>10
  <2>2. i \in 1 .. Len(s) /\ s[i] = records[n].of
    BY <1>5, <1>8, <2>1
  <2> QED
    BY <2>2
<1> QED
  BY <1>3, <1>8, <1>9, <1>10

LEMMA DecodeTypes ==
  ASSUME NEW f, GoodFile(f)
  PROVE  Credentials(decode(f))
<1>1. f.records \in Seq(RecordType)
  BY DEF GoodFile
<1>2. /\ OfType(f.records, "root") \in Seq(Certificates)
      /\ OfType(f.records, "authority") \in Seq(Certificates)
      /\ OfType(f.records, "ticket") \in Seq(Certificates)
  BY <1>1, OfTypeResult
<1> QED
  BY <1>2 DEF decode, Credentials

LEMMA BundleTypes ==
  ASSUME NEW cr \in Bundles
  PROVE  Credentials(cr)
BY VerifyAssumption DEF Credentials, Certificates

\* What a save() may leave, when it ends or is interrupted.
Written(cr) == {[records |-> encode(cr), complete |-> TRUE]} \cup Prefixes(encode(cr))

LEMMA WrittenPrefix ==
  ASSUME NEW cr, Credentials(cr), NEW f \in Written(cr)
  PROVE  /\ GoodFile(f) /\ Len(f.records) <= Len(encode(cr))
         /\ \A n \in 1 .. Len(f.records) : f.records[n] = encode(cr)[n]
<1>1. encode(cr) \in Seq(RecordType)
  BY BundlesAreLaidOut DEF Layout
<1>2. Len(encode(cr)) \in Nat
  BY <1>1, LenProperties
<1>3. CASE f = [records |-> encode(cr), complete |-> TRUE]
  BY <1>1, <1>2, <1>3 DEF GoodFile
<1>4. CASE f \in Prefixes(encode(cr))
  <2>1. PICK n \in 0 .. Len(encode(cr)) - 1, whole \in BOOLEAN :
          f = [records |-> SubSeq(encode(cr), 1, n), complete |-> whole]
    BY <1>4 DEF Prefixes
  <2>2. n \in Int /\ n <= Len(encode(cr)) /\ 0 <= n
    BY <1>2
  <2>3. \A i \in 1 .. n : encode(cr)[i] \in RecordType
    BY <1>1, <1>2, <2>2, ElementOfSeq
  <2> DEFINE s == SubSeq(encode(cr), 1, n)
  <2>4. /\ s \in Seq(RecordType) /\ Len(s) = IF 1 <= n THEN n - 1 + 1 ELSE 0
        /\ \A i \in 1 .. n - 1 + 1 : s[i] = encode(cr)[1 + i - 1]
    BY <2>2, <2>3, SubSeqProperties
  <2> HIDE DEF s
  <2>5. Len(s) = n /\ \A i \in 1 .. n : s[i] = encode(cr)[i]
    BY <2>2, <2>4
  <2>6. f \in [records : Seq(RecordType), complete : BOOLEAN] /\ f.records = s
    BY <2>1, <2>4 DEF s
  <2> QED
    BY <2>2, <2>5, <2>6 DEF GoodFile
<1> QED
  BY <1>3, <1>4 DEF Written

-----------------------------------------------------------------------------
(* Type correctness.                                                       *)

TypeInv ==
  /\ now \in 0 .. MaxTime /\ events \in 0 .. MaxEvents
  /\ GoodHoldings(holdings) /\ GoodEntity(entity) /\ GoodFile(file)
  /\ accepted = None \/ accepted \in Tickets \X Aids
  /\ saved \in Bundles /\ lax \subseteq Tickets
  /\ log \in Seq(Tickets \X Nat) /\ Len(log) <= MaxAccepted

LEMMA NothingIsGood == GoodHoldings(Nothing)
BY DEF Nothing, GoodHoldings, HoldingsType

\* Every step receives a message, or (re)starts the entity, or leaves the
\* entity alone but for its policy.
Quiet ==
  /\ \E permissive \in BOOLEAN : entity' = [entity EXCEPT !.permissive = permissive]
  /\ accepted' = None /\ log' = log /\ lax' = lax
Starts == entity' = NewEntity /\ accepted' = None /\ log' = <<>> /\ lax' = {}

LEMMA EntitySteps ==
  ASSUME TypeInv, [Next]_vars
  PROVE  \/ \E m \in Messages : Receive(m)
         \/ Starts
         \/ Quiet
         \/ UNCHANGED vars
<1>1. entity = [entity EXCEPT !.permissive = entity.permissive] /\ entity.permissive \in BOOLEAN
  BY DEF TypeInv, GoodEntity, HalfEntity, EntityType
<1>2. ASSUME NEW root \in Authorities, NEW c \in SUBSET Authorities, ApplyCtl(root, c)
      PROVE  Quiet
  BY <1>1, <1>2 DEF ApplyCtl, Quiet, history
<1>3. ASSUME NEW root \in Authorities, NEW c \in RevocationLists, ApplyCrl(root, c)
      PROVE  Quiet
  BY <1>1, <1>3 DEF ApplyCrl, Quiet, history
<1>4. ASSUME NEW permissive \in BOOLEAN, SetVerificationPolicy(permissive)
      PROVE  Quiet
  BY <1>4 DEF SetVerificationPolicy, Quiet, history
<1>5. ASSUME NEW cr \in Bundles, Provision(cr)
      PROVE  Quiet
  BY <1>1, <1>5 DEF Provision, Quiet
<1>6. ASSUME NEW cr \in Bundles, PowerFails(cr)
      PROVE  Starts
  BY <1>6 DEF PowerFails, Boot, Starts
<1>7. CASE Restart
  BY <1>7 DEF Restart, Boot, Starts
<1>8. CASE Erase
  BY <1>1, <1>8 DEF Erase, Quiet, history
<1>9. CASE Tick
  BY <1>1, <1>9 DEF Tick, Quiet, history
<1> QED
  BY <1>2, <1>3, <1>4, <1>5, <1>6, <1>7, <1>8, <1>9 DEF Next

\* What each step does to the holdings and the store.
KeepsStore == holdings' = holdings /\ file' = file
ListApplied ==
  /\ file' = file
  /\ GoodHoldings(holdings') /\ holdings'.roots = holdings.roots
  /\ holdings.issuers \subseteq holdings'.issuers /\ holdings'.pool = holdings.pool
Provisioned ==
  \E cr \in Bundles : file' \in Written(cr) /\ holdings' = apply(holdings, cr)
Booted ==
  /\ file' = file \/ \E cr \in Bundles : file' \in Written(cr)
  /\ holdings' = IF decodes(file') THEN apply(Nothing, decode(file')) ELSE Nothing
Erased == holdings' = holdings /\ file' = [records |-> <<>>, complete |-> FALSE]

LEMMA ListsKeepHoldings ==
  ASSUME NEW h, GoodHoldings(h)
  PROVE  /\ \A added \in SUBSET Authorities : LET g == apply_ctl(h, added) IN
              /\ GoodHoldings(g) /\ g.roots = h.roots /\ g.pool = h.pool
              /\ h.issuers \subseteq g.issuers
         /\ \A root \in Authorities, revoked \in SUBSET Certificates :
              LET g == apply_crl(h, root, revoked) IN
              /\ GoodHoldings(g) /\ g.roots = h.roots /\ g.pool = h.pool
              /\ g.issuers = h.issuers
<1>1. h \in HoldingsType /\ h.roots \subseteq h.issuers /\ \A c \in h.roots : Self(c)
  BY DEF GoodHoldings
<1>2. ASSUME NEW added \in SUBSET Authorities
      PROVE  LET g == apply_ctl(h, added) IN
             /\ GoodHoldings(g) /\ g.roots = h.roots /\ g.pool = h.pool
             /\ h.issuers \subseteq g.issuers
  <2> DEFINE more == {c \in added : may_add_authority(h, c)}
             g == [h EXCEPT !.issuers = @ \cup more]
  <2>1. more \subseteq Authorities /\ apply_ctl(h, added) = g
    BY DEF apply_ctl
  <2> HIDE DEF more
  <2>2. /\ g \in HoldingsType /\ g.roots = h.roots /\ g.pool = h.pool
        /\ g.issuers = h.issuers \cup more
    BY <1>1, <2>1 DEF HoldingsType
  <2> HIDE DEF g
  <2> QED
    BY <1>1, <2>1, <2>2 DEF GoodHoldings
<1>3. ASSUME NEW root \in Authorities, NEW revoked \in SUBSET Certificates
      PROVE  LET g == apply_crl(h, root, revoked) IN
             /\ GoodHoldings(g) /\ g.roots = h.roots /\ g.pool = h.pool
             /\ g.issuers = h.issuers
  <2> DEFINE new == {e \in h.revoked : e[1] # root} \cup {<<root, c>> : c \in revoked}
             g == [h EXCEPT !.revoked = new]
  <2>1. new \subseteq Authorities \X Certificates /\ apply_crl(h, root, revoked) = g
    BY <1>1 DEF apply_crl, HoldingsType
  <2> HIDE DEF new
  <2>2. /\ g \in HoldingsType /\ g.roots = h.roots /\ g.pool = h.pool /\ g.issuers = h.issuers
    BY <1>1, <2>1 DEF HoldingsType
  <2> HIDE DEF g
  <2> QED
    BY <1>1, <2>1, <2>2 DEF GoodHoldings
<1> QED
  BY <1>2, <1>3

LEMMA StoreSteps ==
  ASSUME TypeInv, [Next]_vars
  PROVE  KeepsStore \/ ListApplied \/ Provisioned \/ Booted \/ Erased
<1>1. GoodHoldings(holdings)
  BY DEF TypeInv
<1>2. ASSUME NEW root \in Authorities, NEW c \in SUBSET Authorities, ApplyCtl(root, c)
      PROVE  ListApplied
  <2>1. holdings' = apply_ctl(holdings, c) /\ file' = file
    BY <1>2 DEF ApplyCtl
  <2> QED
    BY <1>1, <2>1, ListsKeepHoldings DEF ListApplied
<1>3. ASSUME NEW root \in Authorities, NEW c \in RevocationLists, ApplyCrl(root, c)
      PROVE  ListApplied
  <2>1. holdings' = apply_crl(holdings, root, c) /\ file' = file
    BY <1>3 DEF ApplyCrl
  <2>2. c \in SUBSET Certificates
    BY VerifyAssumption DEF Certificates
  <2> QED
    BY <1>1, <2>1, <2>2, ListsKeepHoldings DEF ListApplied
<1>4. ASSUME NEW cr \in Bundles, Provision(cr)
      PROVE  Provisioned
  BY <1>4 DEF Provision, Provisioned, Written
<1>5. ASSUME NEW cr \in Bundles, PowerFails(cr)
      PROVE  Booted
  <2>1. PICK stored \in Prefixes(encode(cr)) \cup {file} : Boot(stored)
    BY <1>5 DEF PowerFails
  <2>2. file' = stored /\ holdings' = IF decodes(stored) THEN apply(Nothing, decode(stored)) ELSE Nothing
    BY <2>1 DEF Boot
  <2> QED
    BY <2>2 DEF Booted, Written
<1>6. CASE Restart
  BY <1>6 DEF Restart, Boot, Booted
<1>7. CASE Erase
  BY <1>7 DEF Erase, Erased
<1>8. CASE Tick \/ (\E permissive \in BOOLEAN : SetVerificationPolicy(permissive))
           \/ (\E m \in Messages : Receive(m)) \/ UNCHANGED vars
  BY <1>8 DEF Tick, SetVerificationPolicy, Receive, vars, KeepsStore
<1> QED
  BY <1>2, <1>3, <1>4, <1>5, <1>6, <1>7, <1>8 DEF Next

LEMMA StoreTypes ==
  ASSUME TypeInv, [Next]_vars
  PROVE  GoodHoldings(holdings') /\ GoodFile(file')
<1>1. GoodHoldings(holdings) /\ GoodFile(file)
  BY DEF TypeInv
<1>2. CASE KeepsStore \/ ListApplied
  BY <1>1, <1>2 DEF KeepsStore, ListApplied
<1>3. CASE Provisioned
  <2>1. PICK cr \in Bundles : file' \in Written(cr) /\ holdings' = apply(holdings, cr)
    BY <1>3 DEF Provisioned
  <2> QED
    BY <1>1, <2>1, BundleTypes, WrittenPrefix, ApplyResult
<1>4. CASE Booted
  <2>1. GoodFile(file')
    BY <1>1, <1>4, BundleTypes, WrittenPrefix DEF Booted
  <2>2. GoodHoldings(apply(Nothing, decode(file')))
    BY <2>1, NothingIsGood, DecodeTypes, ApplyResult
  <2> QED
    BY <1>4, <2>1, <2>2, NothingIsGood DEF Booted
<1>5. CASE Erased
  <2>1. <<>> \in Seq(RecordType)
    OBVIOUS
  <2> QED
    BY <1>1, <1>5, <2>1 DEF Erased, GoodFile
<1> QED
  BY <1>2, <1>3, <1>4, <1>5, StoreSteps

EntityTyped ==
  /\ GoodEntity(entity)
  /\ accepted = None \/ accepted \in Tickets \X Aids
  /\ lax \subseteq Tickets
  /\ log \in Seq(Tickets \X Nat) /\ Len(log) <= MaxAccepted

LEMMA ReceiveTypes ==
  ASSUME TypeInv, NEW m \in Messages, Receive(m)
  PROVE  EntityTyped'
<1>1. m \in Message /\ m.at \in Tickets /\ m.aid \in Aids /\ m.time \in Nat
  BY MessageAssumption DEF Message
<1>2. PICK e : Received(e, m)
  BY <1>1, ReceiveEffect DEF TypeInv
<1>3. /\ GoodEntity(entity')
      /\ accepted' = None \/ accepted' \in Tickets \X Aids
  BY <1>1, <1>2 DEF Received
<1>4. lax' \subseteq Tickets
  <2>1. entity'.verified \subseteq Tickets
    BY <1>3 DEF GoodEntity, HalfEntity, EntityType
  <2> QED
    BY <1>2, <2>1 DEF Received, TypeInv
<1>5. log' \in Seq(Tickets \X Nat) /\ Len(log') <= MaxAccepted
  <2>1. CASE log' = log
    BY <2>1 DEF TypeInv
  <2>2. CASE log' = Append(log, <<m.at, m.time>>) /\ Len(log) < MaxAccepted
    <3>1. log \in Seq(Tickets \X Nat) /\ <<m.at, m.time>> \in Tickets \X Nat
      BY <1>1 DEF TypeInv
    <3>2. Len(log) \in Nat /\ MaxAccepted \in Nat
      BY <3>1, LenProperties, VerifyAssumption
    <3> QED
      BY <2>2, <3>1, <3>2, AppendProperties
  <2> QED
    BY <1>2, <2>1, <2>2 DEF Received
<1> QED
  BY <1>3, <1>4, <1>5 DEF EntityTyped

LEMMA QuietKeeps ==
  ASSUME GoodEntity(entity), Quiet
  PROVE  /\ GoodEntity(entity') /\ entity'.verified = entity.verified
         /\ entity'.window = entity.window /\ entity'.learned = entity.learned
<1>1. PICK permissive \in BOOLEAN : entity' = [entity EXCEPT !.permissive = permissive]
  BY DEF Quiet
<1>2. entity \in EntityType
  BY DEF GoodEntity, HalfEntity
<1>3. /\ entity' \in EntityType /\ entity'.verified = entity.verified
      /\ entity'.window = entity.window /\ entity'.learned = entity.learned
      /\ entity'.storage = entity.storage
  BY <1>1, <1>2 DEF EntityType
<1> QED
  BY <1>3 DEF GoodEntity, HalfEntity

LEMMA EntityTypes ==
  ASSUME TypeInv, [Next]_vars
  PROVE  EntityTyped'
<1>1. EntityTyped /\ GoodEntity(entity)
  BY DEF TypeInv, EntityTyped
<1>2. CASE \E m \in Messages : Receive(m)
  BY <1>2, ReceiveTypes
<1>3. CASE Starts
  <2>1. <<>> \in Seq(Tickets \X Nat) /\ Len(<<>>) = 0 /\ 0 <= MaxAccepted
    BY VerifyAssumption
  <2> QED
    BY <1>3, <2>1, NewEntityIsGood DEF Starts, EntityTyped
<1>4. CASE Quiet
  BY <1>1, <1>4, QuietKeeps DEF Quiet, EntityTyped
<1>5. CASE UNCHANGED vars
  BY <1>1, <1>5 DEF vars, history, EntityTyped
<1> QED
  BY <1>2, <1>3, <1>4, <1>5, EntitySteps

LEMMA CounterTypes ==
  ASSUME TypeInv, [Next]_vars
  PROVE  now' \in 0 .. MaxTime /\ events' \in 0 .. MaxEvents /\ saved' \in Bundles
<1>1. /\ now \in 0 .. MaxTime /\ events \in 0 .. MaxEvents /\ saved \in Bundles
      /\ MaxTime \in Nat /\ MaxEvents \in Nat
  BY VerifyAssumption DEF TypeInv
<1>2. Event => events' \in 0 .. MaxEvents
  BY <1>1 DEF Event
<1>3. CASE Tick
  BY <1>1, <1>3 DEF Tick, history
<1>4. CASE \E m \in Messages : Receive(m)
  BY <1>1, <1>4 DEF Receive
<1>5. CASE \E root \in Authorities, c \in SUBSET Authorities : ApplyCtl(root, c)
  BY <1>1, <1>2, <1>5 DEF ApplyCtl, history
<1>6. CASE \E root \in Authorities, c \in RevocationLists : ApplyCrl(root, c)
  BY <1>1, <1>2, <1>6 DEF ApplyCrl, history
<1>7. CASE \E permissive \in BOOLEAN : SetVerificationPolicy(permissive)
  BY <1>1, <1>2, <1>7 DEF SetVerificationPolicy, history
<1>8. CASE \E cr \in Bundles : Provision(cr) \/ PowerFails(cr)
  BY <1>1, <1>2, <1>8 DEF Provision, PowerFails, Boot
<1>9. CASE Restart
  BY <1>1, <1>2, <1>9 DEF Restart, Boot
<1>10. CASE Erase
  BY <1>1, <1>2, <1>10 DEF Erase, history
<1>11. CASE UNCHANGED vars
  BY <1>1, <1>11 DEF vars, history
<1> QED
  BY <1>3, <1>4, <1>5, <1>6, <1>7, <1>8, <1>9, <1>10, <1>11 DEF Next

LEMMA InitTypes == Init => TypeInv
<1> SUFFICES ASSUME Init PROVE TypeInv
  OBVIOUS
<1>1. saved \in Bundles /\ Credentials(saved)
  BY BundleTypes DEF Init
<1>2. GoodHoldings(holdings)
  BY <1>1, NothingIsGood, ApplyResult DEF Init
<1>3. GoodFile(file)
  BY <1>1, WrittenPrefix DEF Init, Written
<1>4. GoodEntity(entity)
  BY NewEntityIsGood DEF Init
<1>5. /\ now \in 0 .. MaxTime /\ events \in 0 .. MaxEvents
      /\ <<>> \in Seq(Tickets \X Nat) /\ Len(<<>>) = 0 /\ 0 <= MaxAccepted
  BY VerifyAssumption DEF Init
<1> QED
  BY <1>1, <1>2, <1>3, <1>4, <1>5 DEF Init, TypeInv

LEMMA TypeInvariant == Spec => []TypeInv
<1>1. Init => TypeInv
  BY InitTypes
<1>2. TypeInv /\ [Next]_vars => TypeInv'
  <2> SUFFICES ASSUME TypeInv, [Next]_vars PROVE TypeInv'
    OBVIOUS
  <2>1. /\ now' \in 0 .. MaxTime /\ events' \in 0 .. MaxEvents /\ saved' \in Bundles
        /\ GoodHoldings(holdings') /\ GoodFile(file') /\ EntityTyped'
    BY CounterTypes, StoreTypes, EntityTypes
  <2> QED
    BY <2>1 DEF TypeInv, EntityTyped
<1> QED
  BY <1>1, <1>2, PTL DEF Spec

\* Type correctness, and the limits of the certificate cache, the set of
\* verified tickets, the learned authorities and the replay window hold for
\* any messages, lists and bundles; no learned authority is ever an anchor.
THEOREM VerifyTypes == Spec => []TypeOK
<1>1. TypeInv => TypeOK
  <2> SUFFICES ASSUME TypeInv PROVE TypeOK
    OBVIOUS
  <2>1. /\ holdings \in HoldingsType /\ holdings.roots \subseteq holdings.issuers
        /\ \A c \in holdings.roots : Self(c)
    BY DEF TypeInv, GoodHoldings
  <2>2. /\ holdings.issuers \subseteq Authorities /\ holdings.pool \subseteq Tickets
        /\ holdings.revoked \subseteq Authorities \X DOMAIN Content
    BY <2>1 DEF HoldingsType, Certificates
  <2>3. HalfEntity(entity) /\ Cardinality(entity.storage) <= CacheLimit
    BY DEF TypeInv, GoodEntity
  <2>4. /\ entity.storage \subseteq Tickets /\ entity.verified \subseteq Tickets
        /\ entity.learned \in Seq(Authorities) /\ entity.window \in Seq(Tickets \X Nat)
        /\ entity.permissive \in BOOLEAN
    BY <2>3 DEF HalfEntity, EntityType
  <2>5. Elements(entity.learned) \cap holdings.roots = {}
    <3>1. DOMAIN entity.learned = 1 .. Len(entity.learned)
      BY <2>4, LenProperties
    <3> QED
      BY <2>1, <2>3, <3>1 DEF Elements, HalfEntity
  <2>6. file.complete \in BOOLEAN
    BY DEF TypeInv, GoodFile
  <2> QED
    BY <2>1, <2>2, <2>3, <2>4, <2>5, <2>6 DEF TypeInv, TypeOK, HalfEntity
<1> QED
  BY <1>1, TypeInvariant, PTL

-----------------------------------------------------------------------------
(* Replays.                                                                *)

\* The window w holds the last of the messages l accepted, all of them until
\* it is full.
Covers(w, l) ==
  /\ Len(w) <= Len(l) /\ (Len(w) < ReplayWindow => Len(w) = Len(l))
  /\ \A k \in 1 .. Len(w) : w[k] = l[Len(l) - Len(w) + k]
WindowInv == Covers(entity.window, log)

Apart(l) == \A i, j \in DOMAIN l : i < j /\ l[i] = l[j] => j - i > ReplayWindow

LEMMA WindowStep ==
  ASSUME NEW S, NEW pair \in S, NEW w \in Seq(S), NEW l \in Seq(S),
         Len(w) <= ReplayWindow, Covers(w, l), pair \notin Elements(w), Apart(l)
  PROVE  LET v == Shifted(w, ReplayWindow, pair)
             n == Append(l, pair) IN
         Covers(v, n) /\ Apart(n)
<1>1. PICK a \in Nat, b \in Nat : a = Len(w) /\ b = Len(l)
  BY LenProperties
<1>2. ReplayWindow \in Nat \ {0} /\ a <= ReplayWindow /\ a <= b /\ (a < ReplayWindow => a = b)
  BY <1>1, Constants DEF Covers
<1>3. PICK cut \in {0, 1} : cut = IF Len(w) >= ReplayWindow THEN 1 ELSE 0
  OBVIOUS
<1>4. (cut = 1 /\ a = ReplayWindow) \/ (cut = 0 /\ a < ReplayWindow)
  BY <1>1, <1>2, <1>3
<1>5. PICK v : /\ v = Shifted(w, ReplayWindow, pair) /\ v \in Seq(S)
               /\ Len(v) = a + 1 - cut /\ v[Len(v)] = pair
               /\ \A i \in 1 .. Len(v) - 1 : i + cut \in 1 .. a /\ v[i] = w[i + cut]
  BY <1>1, <1>2, <1>3, ShiftedProperties
<1>6. PICK n : /\ n = Append(l, pair) /\ Len(n) = b + 1 /\ DOMAIN n = 1 .. b + 1
               /\ n[b + 1] = pair /\ \A i \in 1 .. b : n[i] = l[i]
  <2>1. /\ Append(l, pair) \in Seq(S) /\ Len(Append(l, pair)) = b + 1
        /\ Append(l, pair)[b + 1] = pair /\ \A i \in 1 .. b : Append(l, pair)[i] = l[i]
    BY <1>1, AppendProperties
  <2> QED
    BY <2>1, LenProperties
<1>7. \A k \in 1 .. a : w[k] = l[b - a + k]
  BY <1>1 DEF Covers
<1>8. Len(v) <= Len(n) /\ (Len(v) < ReplayWindow => Len(v) = Len(n))
  <2>1. Len(v) = a + 1 - cut /\ Len(n) = b + 1
    BY <1>5, <1>6
  <2> QED
    BY <1>2, <1>4, <2>1
<1>9. ASSUME NEW k \in 1 .. Len(v) PROVE v[k] = n[Len(n) - Len(v) + k]
  <2>1. Len(v) = a + 1 - cut /\ Len(n) = b + 1 /\ v[a + 1 - cut] = pair
    BY <1>5, <1>6
  <2>2. CASE k = Len(v)
    <3>1. Len(n) - Len(v) + k = b + 1
      BY <1>4, <2>1, <2>2
    <3> QED
      BY <1>5, <1>6, <2>2, <3>1
  <2>3. CASE k # Len(v)
    <3>1. k \in 1 .. Len(v) - 1
      BY <1>4, <2>1, <2>3
    <3>2. k + cut \in 1 .. a /\ v[k] = w[k + cut]
      BY <1>5, <3>1
    <3>3. /\ Len(n) - Len(v) + k = b - a + (k + cut)
          /\ b - a + (k + cut) \in 1 .. b
      <4>1. b - a + (k + cut) \in 1 .. b
        BY <1>2, <3>2
      <4>2. k \in Int /\ cut \in Int
        BY <1>4, <2>1
      <4>3. b + 1 - (a + 1 - cut) + k = b - a + (k + cut)
        BY <4>2
      <4>4. Len(n) - Len(v) + k = b - a + (k + cut)
        BY <2>1, <4>3
      <4> QED
        BY <4>1, <4>4
    <3>4. w[k + cut] = l[b - a + (k + cut)]
      BY <1>7, <3>2
    <3> QED
      BY <1>6, <3>2, <3>3, <3>4
  <2> QED
    BY <2>2, <2>3
<1>10. ASSUME NEW i \in 1 .. b + 1, NEW j \in 1 .. b + 1, i < j, n[i] = n[j]
       PROVE  j - i > ReplayWindow
  <2>1. i \in 1 .. b /\ n[i] = l[i]
    BY <1>6, <1>10, SMTT(30)
  <2>2. CASE j \in 1 .. b
    <3>1. n[j] = l[j] /\ DOMAIN l = 1 .. b
      BY <1>1, <1>6, <2>2, LenProperties
    <3> QED
      BY <1>10, <2>1, <2>2, <3>1 DEF Apart
  <2>3. CASE j \notin 1 .. b
    <3>1. j = b + 1
      BY <2>3
    <3>2. j = b + 1 /\ l[i] = pair
      BY <1>6, <1>10, <2>1, <3>1, Zenon
    <3>3. ASSUME ~(j - i > ReplayWindow) PROVE FALSE
      <4>1. PICK k \in 1 .. a : b - a + k = i
        <5>1. i - (b - a) \in 1 .. a /\ b - a + (i - (b - a)) = i
          BY <1>2, <2>1, <3>2, <3>3
        <5> QED
          BY <5>1
      <4>2. w[k] = pair /\ DOMAIN w = 1 .. a
        BY <1>1, <1>7, <3>2, <4>1, LenProperties
      <4> QED
        BY <4>2 DEF Elements
    <3> QED
      BY <3>3
  <2> QED
    BY <2>2, <2>3
<1>11. Covers(v, n)
  BY <1>8, <1>9 DEF Covers
<1>12. Apart(n)
  BY <1>6, <1>10 DEF Apart
<1> QED
  BY <1>5, <1>6, <1>11, <1>12

LEMMA WindowInvariant == Spec => [](TypeInv /\ WindowInv /\ ReplaysAreApart)
<1>1. Init => WindowInv /\ ReplaysAreApart
  <2>1. ASSUME entity = NewEntity, log = <<>> PROVE WindowInv /\ ReplaysAreApart
    BY <2>1 DEF NewEntity, WindowInv, Covers, ReplaysAreApart
  <2> QED
    BY <2>1 DEF Init
<1>2. TypeInv /\ WindowInv /\ ReplaysAreApart /\ [Next]_vars => (WindowInv /\ ReplaysAreApart)'
  <2> SUFFICES ASSUME TypeInv, WindowInv, ReplaysAreApart, [Next]_vars
               PROVE  (WindowInv /\ ReplaysAreApart)'
    OBVIOUS
  <2>1. GoodEntity(entity)
    BY DEF TypeInv
  <2>2. CASE log' = log /\ entity'.window = entity.window
    BY <2>2 DEF WindowInv, ReplaysAreApart
  <2>3. ASSUME NEW m \in Messages, Receive(m) PROVE (WindowInv /\ ReplaysAreApart)'
    <3>1. m \in Message
      BY MessageAssumption
    <3>2. PICK e : Received(e, m)
      BY <2>1, <2>3, <3>1, ReceiveEffect
    <3> DEFINE pair == <<m.at, m.time>>
    <3>3. CASE /\ log' = Append(log, pair) /\ pair \notin Elements(entity.window)
               /\ entity'.window = Shifted(entity.window, ReplayWindow, pair)
      <4>1. pair \in Tickets \X Nat
        BY <3>1 DEF Message
      <4>2. /\ entity.window \in Seq(Tickets \X Nat) /\ log \in Seq(Tickets \X Nat)
            /\ Len(entity.window) <= ReplayWindow
        BY DEF TypeInv, GoodEntity, HalfEntity, EntityType
      <4> HIDE DEF pair
      <4>3. Covers(entity.window, log) /\ Apart(log)
        BY DEF WindowInv, ReplaysAreApart, Apart
      <4>4. /\ Covers(Shifted(entity.window, ReplayWindow, pair), Append(log, pair))
            /\ Apart(Append(log, pair))
        BY <3>3, <4>1, <4>2, <4>3, WindowStep
      <4>5. Covers(entity'.window, log') /\ Apart(log')
        BY <3>3, <4>4
      <4> QED
        BY <4>5 DEF WindowInv, ReplaysAreApart, Apart
    <3> QED
      BY <2>2, <3>2, <3>3 DEF Received
  <2>4. CASE Starts
    BY <2>4 DEF Starts, NewEntity, WindowInv, Covers, ReplaysAreApart
  <2>5. CASE Quiet
    BY <2>1, <2>2, <2>5, QuietKeeps DEF Quiet
  <2>6. CASE UNCHANGED vars
    BY <2>2, <2>6 DEF vars, history
  <2> QED
    BY <2>3, <2>4, <2>5, <2>6, EntitySteps
<1> QED
  BY <1>1, <1>2, TypeInvariant, PTL DEF Spec

\* Whatever the station receives, forgets, learns and is told, it accepts the
\* same pair of signer and generation time again only after a restart or a
\* window full of other messages.
THEOREM ReplaysStayApart == Spec => []ReplaysAreApart
BY WindowInvariant, PTL

-----------------------------------------------------------------------------
(* Whose messages are accepted.                                            *)

Contents(path) == [k \in DOMAIN path |-> Content[path[k]]]

\* The permissions and regions along the path of a ticket, which the chain
\* validator looks at once and remembers.
Sound(c, permissive) ==
  /\ chain_consistent(Contents(Path(c)))
  /\ \A k \in 1 .. Len(Path(c)) - 1 :
       region_within(Contents(Path(c))[k].region, Contents(Path(c))[k + 1].region, permissive)

LEMMA SoundWeakens ==
  ASSUME NEW c, NEW p \in BOOLEAN, NEW q \in BOOLEAN, p => q, Sound(c, p)
  PROVE  Sound(c, q)
BY DEF Sound, region_within

LEMMA Multiples ==
  /\ \A a, b \in Nat : a * b \in Nat
  /\ \A a, b, n \in Nat : a <= b => a * n <= b * n
OBVIOUS

LEMMA Parts ==
  ASSUME NEW a \in Nat, NEW n \in Nat \ {0}
  PROVE  a % n \in Nat /\ a % n <= a /\ a \div n \in Nat /\ (a \div n) * n <= a
<1>1. a % n \in Nat /\ a % n <= a
  OBVIOUS
<1>2. a \div n \in Nat /\ (a \div n) * n <= a
  OBVIOUS
<1> QED
  BY <1>1, <1>2

\* No certificate ends later to its issuer than it does to the clock: a year of
\* 365 days is not longer than a year, a remainder of a second is dropped, and
\* so is what Time32 cannot hold.
LEMMA Reckoning ==
  ASSUME NEW c \in Certificates
  PROVE  /\ Expiry(c) \in Nat /\ end_validity(c) \in Nat
         /\ end_validity(c) * Second <= Expiry(c)
<1> DEFINE start == Content[c].start
           n == Content[c].duration.count
           unit == Content[c].duration.unit
           exact == CASE unit = "nothing" -> 0
                      [] unit = "ticks" -> n
                      [] unit = "seconds" -> n * Second
                      [] unit = "years" -> n * (Year * Second)
           counted == CASE unit = "nothing" -> 0
                        [] unit = "ticks" -> n \div Second
                        [] unit = "seconds" -> n
                        [] unit = "years" -> n * CalendarYear
<1>1. /\ Second \in Nat \ {0} /\ Time32 \in Nat \ {0}
      /\ Year \in Nat /\ CalendarYear \in Nat /\ CalendarYear <= Year
  BY VerifyAssumption
<1>2. start \in Nat /\ n \in Nat /\ unit \in Units
  BY VerifyAssumption DEF Certificates
<1>3. Expiry(c) = start * Second + exact /\ end_validity(c) = (start + counted) % Time32
  BY DEF Expiry, end_validity
<1> HIDE DEF start, n, unit
<1>4. exact \in Nat /\ counted \in Nat /\ counted * Second <= exact
  <2>1. CASE unit = "nothing"
    BY <1>1, <2>1
  <2>2. CASE unit = "ticks"
    <3>1. exact = n /\ counted = n \div Second
      BY <2>2
    <3> QED
      BY <1>1, <1>2, <3>1, Parts
  <2>3. CASE unit = "seconds"
    <3>1. exact = n * Second /\ counted = n
      BY <2>3
    <3>2. n * Second \in Nat
      BY <1>1, <1>2, Multiples
    <3> HIDE DEF exact, counted
    <3> QED
      BY <1>2, <3>1, <3>2
  <2>4. CASE unit = "years"
    <3>1. exact = n * (Year * Second) /\ counted = n * CalendarYear
      BY <2>4
    <3>2. (n * CalendarYear) * Second = n * (CalendarYear * Second)
      BY <1>1, <1>2
    <3>3. CalendarYear * Second <= Year * Second
      BY <1>1, Multiples
    <3>4. CalendarYear * Second \in Nat /\ Year * Second \in Nat
      BY <1>1, Multiples
    <3>5. (CalendarYear * Second) * n <= (Year * Second) * n
      BY <1>2, <3>3, <3>4, Multiples
    <3>6. /\ (CalendarYear * Second) * n = n * (CalendarYear * Second)
          /\ (Year * Second) * n = n * (Year * Second)
      BY <1>2, <3>4
    <3>7. n * (Year * Second) \in Nat /\ n * CalendarYear \in Nat
      BY <1>1, <1>2, <3>4, Multiples
    <3> QED
      BY <3>1, <3>2, <3>5, <3>6, <3>7
  <2> QED
    BY <1>2, <2>1, <2>2, <2>3, <2>4 DEF Units
<1> HIDE DEF exact, counted
<1>5. end_validity(c) \in Nat /\ end_validity(c) <= start + counted
  BY <1>1, <1>2, <1>3, <1>4, Parts
<1>6. end_validity(c) * Second <= (start + counted) * Second
  BY <1>1, <1>2, <1>4, <1>5, Multiples
<1>7. (start + counted) * Second = start * Second + counted * Second
  BY <1>1, <1>2, <1>4
<1>8. start * Second \in Nat /\ end_validity(c) * Second \in Nat /\ counted * Second \in Nat
  BY <1>1, <1>2, <1>4, <1>5, Multiples
<1> QED
  BY <1>3, <1>4, <1>5, <1>6, <1>7, <1>8

\* In its validity period, or expired for no longer than the ticket's shortfall.
InPeriod(c, at) == Content[c].start * Second <= now /\ now < Expiry(c) + Shortfall(at)

\* The part of the judgement that is made anew for every message.
Current(path, known, aid) ==
  /\ path[Len(path)] \in holdings.roots
  /\ \A k \in 2 .. Len(path) : path[k] \in known
  /\ valid_at_timepoint(path[1])
  /\ \A k \in DOMAIN path : InPeriod(path[k], path[1])
  /\ \A k \in 1 .. Len(path) - 1 : <<path[k + 1], path[k]>> \notin holdings.revoked
  /\ valid_for_application(path[1], aid)

LEMMA KnownAuthorities ==
  ASSUME GoodHoldings(holdings), NEW e, GoodEntity(e)
  PROVE  Known(e) \subseteq Authorities
<1>1. holdings.issuers \subseteq Authorities /\ e.learned \in Seq(Authorities)
  BY DEF GoodHoldings, HoldingsType, GoodEntity, HalfEntity, EntityType
<1>2. Elements(e.learned) \subseteq Authorities
  BY <1>1, LenProperties, ElementOfSeq DEF Elements
<1> QED
  BY <1>1, <1>2 DEF Known

LEMMA SignerIsCurrent ==
  ASSUME GoodHoldings(holdings), now \in Nat, NEW e, GoodEntity(e),
         NEW c \in Tickets, NEW aid, valid_for_signing(e, c, aid)
  PROVE  /\ Chain(c, Known(e)) = Path(c) /\ Path(c)[1] = c /\ DOMAIN Path(c) = 1 .. Len(Path(c))
         /\ Current(Path(c), Known(e), aid)
<1> DEFINE chain == Chain(c, Known(e))
<1>1. /\ valid_for_application(c, aid) /\ valid_at_timepoint(c)
      /\ chain[Len(chain)] \in holdings.roots
      /\ chain_is_consistent(chain, aid) /\ ~chain_is_revoked(chain)
  BY DEF valid_for_signing, is_chain_anchored
<1>2. c \in Certificates /\ Known(e) \subseteq Authorities
  BY Constants, KnownAuthorities
<1>3. chain = Path(c)
  <2>1. Self(chain[Len(chain)])
    BY <1>1 DEF GoodHoldings
  <2> QED
    BY <1>2, <2>1, AnchoredChainIsPath
<1>4. Linked(c, Known(e), chain)
  BY <1>2, ChainLinks
<1> HIDE DEF chain
<1>5. /\ chain \in Seq(Certificates) /\ Len(chain) \in Nat \ {0} /\ chain[1] = c
      /\ \A k \in 1 .. Len(chain) - 1 : chain[k + 1] \in Known(e)
  BY <1>4 DEF Linked
<1>6. DOMAIN chain = 1 .. Len(chain) /\ \A k \in 1 .. Len(chain) : chain[k] \in Certificates
  BY <1>5, LenProperties, ElementOfSeq
<1>7. ASSUME NEW k \in 2 .. Len(chain) PROVE chain[k] \in Known(e)
  <2>1. k - 1 \in 1 .. Len(chain) - 1 /\ k - 1 + 1 = k
    BY <1>5
  <2> QED
    BY <1>5, <2>1
<1>8. ASSUME NEW k \in 1 .. Len(chain)
      PROVE  /\ Content[chain[k]].start <= Content[c].start
             /\ end_validity(chain[k]) >= end_validity(c)
  <2> DEFINE Nested(n) == /\ Content[chain[n]].start <= Content[c].start
                          /\ end_validity(chain[n]) >= end_validity(c)
             Fails == {n \in 1 .. Len(chain) : ~Nested(n)}
  <2>1. \A n \in 1 .. Len(chain) :
          Content[chain[n]].start \in Nat /\ end_validity(chain[n]) \in Nat
    BY <1>6, Reckoning, VerifyAssumption DEF Certificates
  <2>2. ASSUME Fails # {} PROVE FALSE
    <3>1. Fails \subseteq Nat
      BY <1>5
    <3>2. PICK n \in Fails : \A j \in Fails : n <= j
      BY <2>2, <3>1, LeastNumber, Zenon
    <3>3. n \in 1 .. Len(chain) /\ ~Nested(n)
      OBVIOUS
    <3>4. n # 1
      BY <1>5, <2>1, <3>3
    <3>5. n - 1 \in 1 .. Len(chain) /\ n - 1 \in 1 .. Len(chain) - 1 /\ n - 1 + 1 = n /\ ~(n <= n - 1)
      BY <1>5, <3>3, <3>4
    <3>6. Nested(n - 1)
      BY <3>2, <3>5
    <3>7. check_consistency(chain[n - 1], chain[n], aid)
      BY <1>1, <3>5 DEF chain_is_consistent
    <3>8. /\ Content[chain[n]].start <= Content[chain[n - 1]].start
          /\ end_validity(chain[n]) >= end_validity(chain[n - 1])
      BY <3>7 DEF check_consistency, check_time_consistency
    <3>9. 1 \in 1 .. Len(chain)
      BY <1>5
    <3>10. /\ Content[chain[n]].start \in Nat /\ Content[chain[n - 1]].start \in Nat
           /\ end_validity(chain[n]) \in Nat /\ end_validity(chain[n - 1]) \in Nat
           /\ Content[c].start \in Nat /\ end_validity(c) \in Nat
      BY <1>5, <2>1, <3>3, <3>5, <3>9
    <3>11. Nested(n)
      <4>1. PICK s1, s2, s3, v1, v2, v3 \in Nat :
            /\ s1 = Content[chain[n]].start /\ s2 = Content[chain[n - 1]].start
            /\ s3 = Content[c].start /\ v1 = end_validity(chain[n])
            /\ v2 = end_validity(chain[n - 1]) /\ v3 = end_validity(c)
        BY <3>10
      <4>2. s1 <= s2 /\ s2 <= s3 /\ v1 >= v2 /\ v2 >= v3
        BY <3>6, <3>8, <4>1
      <4>3. s1 <= s3 /\ v1 >= v3
        BY <4>2
      <4> QED
        BY <4>1, <4>3
    <3> QED
      BY <3>3, <3>11
  <2> QED
    BY <2>2
<1>9. ASSUME NEW k \in 1 .. Len(chain) PROVE InPeriod(chain[k], c)
  <2> DEFINE s == Content[chain[k]].start
             t == Content[c].start
             v == end_validity(chain[k])
             w == end_validity(c)
  <2>1. chain[k] \in Certificates /\ Second \in Nat
    BY <1>6, VerifyAssumption
  <2>2. s \in Nat /\ t \in Nat /\ v \in Nat /\ w \in Nat /\ s <= t /\ w <= v
    BY <1>2, <1>8, <2>1, Reckoning, VerifyAssumption DEF Certificates
  <2>3. /\ Expiry(chain[k]) \in Nat /\ Expiry(c) \in Nat
        /\ v * Second <= Expiry(chain[k])
    BY <1>2, <2>1, Reckoning
  <2>4. t * Second <= now /\ now < Expiry(c)
    BY <1>1 DEF valid_at_timepoint
  <2>5. Shortfall(c) = Expiry(c) - w * Second
    BY DEF Shortfall
  <2>6. InPeriod(chain[k], c) = (s * Second <= now /\ now < Expiry(chain[k]) + Shortfall(c))
    BY DEF InPeriod
  <2> HIDE DEF s, t, v, w
  <2>7. s * Second <= t * Second /\ w * Second <= v * Second
    BY <2>1, <2>2, Multiples
  <2>8. s * Second \in Nat /\ t * Second \in Nat /\ v * Second \in Nat /\ w * Second \in Nat
    BY <2>1, <2>2, Multiples
  <2>9. s * Second <= now /\ now < Expiry(chain[k]) + Shortfall(c)
    <3>1. PICK a, b, f, g, E, F \in Nat :
          /\ a = s * Second /\ b = t * Second /\ f = v * Second /\ g = w * Second
          /\ E = Expiry(chain[k]) /\ F = Expiry(c)
      BY <2>3, <2>8
    <3>2. a <= b /\ b <= now /\ g <= f /\ f <= E /\ now < F /\ Shortfall(c) = F - g
      BY <2>3, <2>4, <2>5, <2>7, <3>1
    <3>3. a <= now /\ now < E + (F - g)
      BY <3>2
    <3> QED
      BY <3>1, <3>2, <3>3
  <2> QED
    BY <2>6, <2>9
<1>10. Current(chain, Known(e), aid)
  BY <1>1, <1>5, <1>6, <1>7, <1>9 DEF Current, chain_is_revoked
<1> QED
  BY <1>3, <1>5, <1>6, <1>10 DEF chain

LEMMA VerifiedIsSound ==
  ASSUME NEW e, NEW c, Chain(c, Known(e)) = Path(c), ChainVerifies(e, c)
  PROVE  Sound(c, e.permissive)
BY DEF ChainVerifies, Sound, Contents

\* Remembered tickets were found sound, under the policy lax tells.
SoundInv == \A c \in entity.verified : Sound(c, c \in lax)

LEMMA ReceiveIsSound ==
  ASSUME TypeInv, SoundInv, NEW m \in Messages, Receive(m)
  PROVE  SoundInv' /\ AcceptedIsAuthorised'
<1>1. m \in Message /\ m.at \in Tickets
  BY MessageAssumption DEF Message
<1>2. /\ GoodEntity(entity) /\ GoodHoldings(holdings) /\ now \in Nat
      /\ entity.permissive \in BOOLEAN
  BY DEF TypeInv, GoodEntity, HalfEntity, EntityType
<1>3. PICK e : Received(e, m)
  BY <1>1, <1>2, ReceiveEffect
<1>4. /\ GoodEntity(e) /\ e.verified = entity.verified /\ e.permissive = entity.permissive
      /\ entity'.learned = e.learned /\ entity'.permissive = entity.permissive
      /\ lax' = IF entity.permissive THEN lax \cup (entity'.verified \ entity.verified)
                ELSE lax \ (entity'.verified \ entity.verified)
      /\ \/ entity'.verified = entity.verified
         \/ /\ entity'.verified \subseteq entity.verified \cup {m.at}
            /\ m.at \in entity'.verified /\ ValidSigner(e, m.at, m.aid)
      /\ \/ accepted' = None
         \/ /\ accepted' = <<m.at, m.aid>> /\ m.at \in entity'.verified
            /\ ValidSigner(e, m.at, m.aid)
  BY <1>3 DEF Received
<1>5. now' = now /\ holdings' = holdings
  BY DEF Receive
<1>6. ASSUME NEW c \in entity'.verified PROVE Sound(c, c \in lax')
  <2>1. CASE c \in entity.verified
    <3>1. (c \in lax') = (c \in lax)
      BY <1>4, <2>1
    <3> QED
      BY <2>1, <3>1 DEF SoundInv
  <2>2. CASE c \notin entity.verified
    <3>1. c = m.at /\ ValidSigner(e, m.at, m.aid)
      BY <1>4, <1>6, <2>2
    <3>2. valid_for_signing(e, c, m.aid) /\ ChainVerifies(e, c)
      BY <1>4, <2>2, <3>1 DEF ValidSigner
    <3>3. Chain(c, Known(e)) = Path(c)
      BY <1>1, <1>2, <1>4, <3>1, <3>2, SignerIsCurrent
    <3>4. Sound(c, entity.permissive)
      BY <1>4, <3>2, <3>3, VerifiedIsSound
    <3>5. entity.permissive => c \in lax'
      BY <1>4, <1>6, <2>2
    <3>6. (c \in lax') \in BOOLEAN
      OBVIOUS
    <3> QED
      BY <1>2, <3>4, <3>5, <3>6, SoundWeakens
  <2> QED
    BY <2>1, <2>2
<1>7. SoundInv'
  BY <1>6 DEF SoundInv, Sound
<1>8. ASSUME accepted' = <<m.at, m.aid>>, m.at \in entity'.verified,
             ValidSigner(e, m.at, m.aid)
      PROVE  AcceptedIsAuthorised'
  <2> DEFINE path == Path(m.at)
  <2>1. valid_for_signing(e, m.at, m.aid)
    BY <1>8 DEF ValidSigner
  <2>2. /\ path[1] = m.at /\ DOMAIN path = 1 .. Len(path) /\ Current(path, Known(e), m.aid)
    BY <1>1, <1>2, <1>4, <2>1, SignerIsCurrent
  <2>3. Sound(m.at, entity'.permissive \/ m.at \in lax')
    <3>1. Sound(m.at, m.at \in lax')
      BY <1>6, <1>8
    <3>2. /\ (m.at \in lax') \in BOOLEAN /\ (entity'.permissive \/ m.at \in lax') \in BOOLEAN
          /\ m.at \in lax' => (entity'.permissive \/ m.at \in lax')
      OBVIOUS
    <3> QED
      BY <3>1, <3>2, SoundWeakens, Zenon
  <2> QED
    BY <1>4, <1>5, <1>8, <2>2, <2>3
       DEF AcceptedIsAuthorised, Current, InPeriod, Sound, Contents, Known, valid_at_timepoint
<1>9. CASE accepted' = None
  BY <1>7, <1>9 DEF AcceptedIsAuthorised
<1> QED
  BY <1>4, <1>7, <1>8, <1>9

LEMMA SoundInvariant == Spec => [](TypeInv /\ SoundInv /\ AcceptedIsAuthorised)
<1>1. Init => SoundInv /\ AcceptedIsAuthorised
  BY DEF Init, NewEntity, SoundInv, AcceptedIsAuthorised
<1>2. TypeInv /\ SoundInv /\ AcceptedIsAuthorised /\ [Next]_vars
        => (SoundInv /\ AcceptedIsAuthorised)'
  <2> SUFFICES ASSUME TypeInv, SoundInv, AcceptedIsAuthorised, [Next]_vars
               PROVE  (SoundInv /\ AcceptedIsAuthorised)'
    OBVIOUS
  <2>1. CASE \E m \in Messages : Receive(m)
    BY <2>1, ReceiveIsSound
  <2>2. CASE Starts
    BY <2>2 DEF Starts, NewEntity, SoundInv, AcceptedIsAuthorised
  <2>3. CASE Quiet
    <3>1. entity'.verified = entity.verified /\ lax' = lax /\ accepted' = None
      BY <2>3, QuietKeeps DEF Quiet, TypeInv
    <3> QED
      BY <3>1 DEF SoundInv, Sound, AcceptedIsAuthorised
  <2>4. CASE UNCHANGED vars
    BY <2>4 DEF vars, history, SoundInv, Sound, AcceptedIsAuthorised, Known, valid_at_timepoint
  <2> QED
    BY <2>1, <2>2, <2>3, <2>4, EntitySteps
<1> QED
  BY <1>1, <1>2, TypeInvariant, PTL DEF Spec

\* Whatever was cached, learned, evicted, listed, revoked or provisioned before,
\* an accepted message was signed with a ticket in its validity period whose
\* whole chain is anchored, known, not on the revocation lists, consistent and
\* valid at that moment, but for issuers that have expired for less than the
\* time by which the end of the ticket was counted short.
THEOREM AcceptedAreAuthorised == Spec => []AcceptedIsAuthorised
BY SoundInvariant, PTL

-----------------------------------------------------------------------------
(* Tickets and their chains.                                               *)

HasChain(t, roots, issuers) ==
  /\ \A k \in 2 .. Len(Path(t)) : Path(t)[k] \in issuers
  /\ Path(t)[Len(Path(t))] \in roots

\* A bundle holds the chains of its tickets.
Complete(cr) ==
  \A i \in 1 .. Len(cr.tickets) :
    HasChain(cr.tickets[i], Elements(cr.roots), Elements(cr.roots) \cup Elements(cr.authorities))

\* The credentials that the station is given are complete.
BundlesHaveChains == \A cr \in Bundles : Complete(cr)

Chained(h) == \A t \in h.pool : HasChain(t, h.roots, h.issuers)

LEMMA ChainGrows ==
  ASSUME NEW t, NEW R, NEW A, NEW R2, NEW A2, R \subseteq R2, A \subseteq A2, HasChain(t, R, A)
  PROVE  HasChain(t, R2, A2)
BY DEF HasChain

LEMMA ApplyKeepsChains ==
  ASSUME NEW h, GoodHoldings(h), Chained(h), NEW cr, Credentials(cr), Complete(cr)
  PROVE  Chained(apply(h, cr))
<1> DEFINE g == apply(h, cr)
           items == Items(cr)
<1>1. Extends(h, g) /\ Backed(h, cr, g)
  BY ApplyResult
<1>2. Layout(items, cr)
  BY BundlesAreLaidOut
<1> HIDE DEF g, items
<1>3. ASSUME NEW t \in g.pool PROVE HasChain(t, g.roots, g.issuers)
  <2>1. CASE t \in h.pool
    <3>1. HasChain(t, h.roots, h.issuers)
      BY <2>1 DEF Chained
    <3> QED
      BY <1>1, <3>1, ChainGrows DEF Extends
  <2>2. CASE t \notin h.pool
    <3>1. HoldsChains(g, cr) /\ \E i \in 1 .. Len(cr.tickets) : t = cr.tickets[i]
      BY <1>1, <1>3, <2>2 DEF Backed
    <3>2. HasChain(t, Elements(cr.roots), Elements(cr.roots) \cup Elements(cr.authorities))
      BY <3>1 DEF Complete
    <3>3. /\ cr.roots \in Seq(Certificates) /\ cr.authorities \in Seq(Certificates)
      BY DEF Credentials
    <3>4. /\ DOMAIN cr.roots = 1 .. Len(cr.roots) /\ Len(cr.roots) \in Nat
          /\ DOMAIN cr.authorities = 1 .. Len(cr.authorities) /\ Len(cr.authorities) \in Nat
      BY <3>3, LenProperties
    <3>5. PICK x \in Nat, y \in Nat : x = Len(cr.roots) /\ y = Len(cr.authorities)
      BY <3>4
    <3>6. ASSUME NEW i \in DOMAIN cr.roots PROVE cr.roots[i] \in g.roots /\ cr.roots[i] \in g.issuers
      <4>1. i \in 1 .. x
        BY <3>4, <3>5
      <4>2. i \in 1 .. x + y
        BY <4>1
      <4>3. i \in 1 .. Len(cr.roots) + Len(cr.authorities)
        BY <3>5, <4>2
      <4>4. Holds(g, items[i])
        BY <3>1, <4>3 DEF HoldsChains, items
      <4>5. items[i].type = "root" /\ items[i].of = cr.roots[i]
        BY <1>2, <3>4 DEF Layout
      <4> QED
        BY <4>4, <4>5 DEF Holds
    <3>7. ASSUME NEW i \in DOMAIN cr.authorities PROVE cr.authorities[i] \in g.issuers
      <4>1. i \in 1 .. y
        BY <3>4, <3>5
      <4>2. x + i \in 1 .. x + y
        BY <4>1
      <4>3. Len(cr.roots) + i \in 1 .. Len(cr.roots) + Len(cr.authorities)
        BY <3>5, <4>2
      <4>4. Holds(g, items[Len(cr.roots) + i])
        BY <3>1, <4>3 DEF HoldsChains, items
      <4>5. /\ items[Len(cr.roots) + i].type = "authority"
            /\ items[Len(cr.roots) + i].of = cr.authorities[i]
        BY <1>2, <3>4 DEF Layout
      <4> QED
        BY <4>4, <4>5 DEF Holds
    <3>8. /\ Elements(cr.roots) \subseteq g.roots
          /\ Elements(cr.roots) \cup Elements(cr.authorities) \subseteq g.issuers
      BY <3>6, <3>7 DEF Elements
    <3> QED
      BY <3>2, <3>8, ChainGrows
  <2> QED
    BY <2>1, <2>2
<1> QED
  BY <1>3 DEF Chained, g

\* However much of a bundle was written, the tickets among it are written after
\* their chains.
LEMMA WrittenIsComplete ==
  ASSUME NEW cr, Credentials(cr), Complete(cr), NEW f \in Written(cr)
  PROVE  Complete(decode(f))
<1> DEFINE records == f.records
           full == encode(cr)
           got == decode(f)
           first == Len(cr.roots) + Len(cr.authorities)
<1>1. /\ GoodFile(f) /\ Len(records) <= Len(full)
      /\ \A n \in 1 .. Len(records) : records[n] = full[n]
  BY WrittenPrefix
<1>2. Layout(full, cr)
  BY BundlesAreLaidOut
<1>3. records \in Seq(RecordType)
  BY <1>1 DEF GoodFile
<1>4. /\ got.roots = OfType(records, "root") /\ got.authorities = OfType(records, "authority")
      /\ got.tickets = OfType(records, "ticket")
  BY DEF decode
<1>5. /\ cr.roots \in Seq(Certificates) /\ cr.authorities \in Seq(Certificates)
      /\ got.roots \in Seq(Certificates) /\ got.authorities \in Seq(Certificates)
  BY <1>1, DecodeTypes DEF Credentials
<1>6. /\ DOMAIN cr.roots = 1 .. Len(cr.roots) /\ Len(cr.roots) \in Nat
      /\ DOMAIN cr.authorities = 1 .. Len(cr.authorities) /\ Len(cr.authorities) \in Nat
      /\ DOMAIN got.roots = 1 .. Len(got.roots)
      /\ DOMAIN got.authorities = 1 .. Len(got.authorities)
      /\ Len(records) \in Nat /\ Len(full) \in Nat
  <2>1. full \in Seq(RecordType)
    BY <1>2 DEF Layout
  <2> QED
    BY <1>3, <1>5, <2>1, LenProperties
<1>7. /\ \A i \in 1 .. Len(got.tickets) : \E n \in 1 .. Len(records) :
           records[n].type = "ticket" /\ records[n].of = got.tickets[i]
      /\ \A n \in 1 .. Len(records) :
           /\ records[n].type = "root" =>
                \E i \in 1 .. Len(got.roots) : got.roots[i] = records[n].of
           /\ records[n].type = "authority" =>
                \E i \in 1 .. Len(got.authorities) : got.authorities[i] = records[n].of
  <2> HIDE DEF records, got
  <2>1. \A i \in 1 .. Len(got.tickets) : \E n \in 1 .. Len(records) :
          records[n].type = "ticket" /\ records[n].of = got.tickets[i]
    BY <1>3, <1>4, OfTypeResult
  <2>2. \A n \in 1 .. Len(records) : records[n].type = "root" =>
          \E i \in 1 .. Len(got.roots) : got.roots[i] = records[n].of
    <3>1. \A n \in 1 .. Len(records) : records[n].type = "root" =>
            \E i \in 1 .. Len(OfType(records, "root")) :
              OfType(records, "root")[i] = records[n].of
      BY <1>3, OfTypeResult
    <3> QED
      BY <1>4, <3>1, Zenon
  <2>3. \A n \in 1 .. Len(records) : records[n].type = "authority" =>
          \E i \in 1 .. Len(got.authorities) : got.authorities[i] = records[n].of
    <3>1. \A n \in 1 .. Len(records) : records[n].type = "authority" =>
            \E i \in 1 .. Len(OfType(records, "authority")) :
              OfType(records, "authority")[i] = records[n].of
      BY <1>3, OfTypeResult
    <3> QED
      BY <1>4, <3>1, Zenon
  <2> QED
    BY <2>1, <2>2, <2>3
<1> HIDE DEF records, full, got
<1>8. ASSUME NEW i \in 1 .. Len(got.tickets)
      PROVE  HasChain(got.tickets[i], Elements(got.roots),
                      Elements(got.roots) \cup Elements(got.authorities))
  <2>1. PICK n \in 1 .. Len(records) : records[n].type = "ticket" /\ records[n].of = got.tickets[i]
    BY <1>7
  <2>2. /\ n \in 1 .. Len(full) /\ full[n] = records[n]
    BY <1>1, <1>6
  <2>3. n \notin 1 .. first
    BY <1>2, <2>1, <2>2 DEF Layout
  <2>4. PICK x \in Nat, y \in Nat : x = Len(cr.roots) /\ y = Len(cr.authorities)
    BY <1>6
  <2>5. n > x + y /\ x + y = first
    <3>1. n \notin 1 .. x + y /\ x + y = first
      BY <2>3, <2>4
    <3> HIDE DEF first
    <3> QED
      BY <1>6, <3>1
  <2>6. PICK j \in 1 .. Len(cr.tickets) : got.tickets[i] = cr.tickets[j]
    <3>1. n > Len(cr.roots) + Len(cr.authorities)
      BY <2>5
    <3>2. \E j \in 1 .. Len(cr.tickets) : full[n].of = cr.tickets[j]
      BY <1>2, <2>2, <3>1 DEF Layout
    <3> QED
      BY <2>1, <2>2, <3>2
  <2>7. \A k \in 1 .. x : k \in 1 .. Len(records)
    BY <1>6, <2>5
  <2>8. \A k \in 1 .. y : x + k \in 1 .. Len(records)
    BY <1>6, <2>5
  <2>9. Elements(cr.roots) \subseteq Elements(got.roots)
    <3>1. ASSUME NEW k \in 1 .. x PROVE cr.roots[k] \in Elements(got.roots)
      <4>1. full[k].type = "root" /\ full[k].of = cr.roots[k]
        BY <1>2, <2>4 DEF Layout
      <4>2. records[k] = full[k] /\ k \in 1 .. Len(records)
        BY <1>1, <2>7
      <4>3. PICK l \in 1 .. Len(got.roots) : got.roots[l] = records[k].of
        BY <1>7, <4>1, <4>2
      <4>4. l \in DOMAIN got.roots /\ got.roots[l] = cr.roots[k]
        BY <1>6, <4>1, <4>2, <4>3, Zenon
      <4> QED
        BY <4>4, Zenon DEF Elements
    <3> QED
      BY <1>6, <2>4, <3>1 DEF Elements
  <2>10. Elements(cr.authorities) \subseteq Elements(got.authorities)
    <3>1. ASSUME NEW k \in 1 .. y PROVE cr.authorities[k] \in Elements(got.authorities)
      <4>1. full[x + k].type = "authority" /\ full[x + k].of = cr.authorities[k]
        BY <1>2, <2>4 DEF Layout
      <4>2. records[x + k] = full[x + k] /\ x + k \in 1 .. Len(records)
        BY <1>1, <2>8
      <4>3. PICK l \in 1 .. Len(got.authorities) : got.authorities[l] = records[x + k].of
        BY <1>7, <4>1, <4>2
      <4>4. l \in DOMAIN got.authorities /\ got.authorities[l] = cr.authorities[k]
        BY <1>6, <4>1, <4>2, <4>3, Zenon
      <4> QED
        BY <4>4, Zenon DEF Elements
    <3> QED
      BY <1>6, <2>4, <3>1 DEF Elements
  <2>11. HasChain(cr.tickets[j], Elements(cr.roots), Elements(cr.roots) \cup Elements(cr.authorities))
    BY DEF Complete
  <2> QED
    BY <2>6, <2>9, <2>10, <2>11, ChainGrows
<1> QED
  BY <1>8 DEF Complete, got

ChainInv == Chained(holdings) /\ Complete(decode(file))

LEMMA NothingIsChained == Chained(Nothing)
BY DEF Chained, Nothing

LEMMA EmptyIsComplete == Complete(decode([records |-> <<>>, complete |-> FALSE]))
<1> DEFINE f == [records |-> <<>>, complete |-> FALSE]
<1>1. <<>> \in Seq(RecordType) /\ Len(<<>>) = 0 /\ 1 .. 0 = {}
  OBVIOUS
<1>2. decode(f).tickets = OfType(<<>>, "ticket")
  BY DEF decode
<1>3. \A i \in 1 .. Len(OfType(<<>>, "ticket")) : FALSE
  BY <1>1, OfTypeResult
<1> QED
  BY <1>2, <1>3 DEF Complete

\* A station that is given bundles with the chains of their tickets holds the
\* chain of every ticket it holds, however saving was interrupted, whatever was
\* already trusted and whatever lists came in between.
THEOREM TicketsKeepChain ==
  ASSUME BundlesHaveChains
  PROVE  Spec => []TicketsComeWithChain
<1>1. Init => ChainInv
  <2> SUFFICES ASSUME Init PROVE ChainInv
    OBVIOUS
  <2>1. saved \in Bundles /\ Credentials(saved) /\ Complete(saved)
    BY BundleTypes DEF Init, BundlesHaveChains
  <2>2. Chained(apply(Nothing, saved))
    BY <2>1, NothingIsGood, NothingIsChained, ApplyKeepsChains
  <2>3. file \in Written(saved)
    BY DEF Init, Written
  <2>4. Complete(decode(file))
    BY <2>1, <2>3, WrittenIsComplete
  <2> QED
    BY <2>2, <2>4 DEF Init, ChainInv
<1>2. TypeInv /\ ChainInv /\ [Next]_vars => ChainInv'
  <2> SUFFICES ASSUME TypeInv, ChainInv, [Next]_vars PROVE ChainInv'
    OBVIOUS
  <2>1. GoodHoldings(holdings) /\ Chained(holdings) /\ Complete(decode(file))
    BY DEF TypeInv, ChainInv
  <2>2. ASSUME NEW cr \in Bundles, file' \in Written(cr)
        PROVE  Complete(decode(file'))
    BY <2>2, BundleTypes, WrittenIsComplete DEF BundlesHaveChains
  <2>3. CASE KeepsStore
    BY <2>1, <2>3 DEF KeepsStore, ChainInv
  <2>4. CASE ListApplied
    <3>1. Chained(holdings')
      BY <2>1, <2>4, ChainGrows DEF ListApplied, Chained
    <3> QED
      BY <2>1, <2>4, <3>1 DEF ListApplied, ChainInv
  <2>5. CASE Provisioned
    <3>1. PICK cr \in Bundles : file' \in Written(cr) /\ holdings' = apply(holdings, cr)
      BY <2>5 DEF Provisioned
    <3>2. Chained(holdings')
      BY <2>1, <3>1, BundleTypes, ApplyKeepsChains DEF BundlesHaveChains
    <3> QED
      BY <2>2, <3>1, <3>2 DEF ChainInv
  <2>6. CASE Booted
    <3>1. Complete(decode(file')) /\ GoodFile(file')
      BY <2>1, <2>2, <2>6, StoreTypes DEF Booted
    <3>2. Chained(apply(Nothing, decode(file')))
      BY <3>1, NothingIsGood, NothingIsChained, DecodeTypes, ApplyKeepsChains
    <3> QED
      BY <2>6, <3>1, <3>2, NothingIsChained DEF Booted, ChainInv
  <2>7. CASE Erased
    BY <2>1, <2>7, EmptyIsComplete DEF Erased, ChainInv
  <2> QED
    BY <2>3, <2>4, <2>5, <2>6, <2>7, StoreSteps
<1>3. ChainInv => TicketsComeWithChain
  BY DEF ChainInv, Chained, HasChain, TicketsComeWithChain
<1> QED
  BY <1>1, <1>2, <1>3, TypeInvariant, PTL DEF Spec
=============================================================================
