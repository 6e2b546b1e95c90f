-------------------------- MODULE SelectionProofs --------------------------
(***************************************************************************)
(* What Selected computes, for every sequence and every set of positions,  *)
(* and the induction on numbers that shows it.                             *)
(***************************************************************************)
EXTENDS Selection, SequenceTheorems, WellFoundedInduction, TLAPS

\* Induction: a statement that fails for some number fails for a least one.
LEMMA LeastNumber ==
  ASSUME NEW T, T \subseteq Nat, T # {}
  PROVE  \E n \in T : \A m \in T : n <= m
<1>1. PICK n \in T : \A m \in T : ~(<<m, n>> \in OpToRel(<, Nat))
  BY NatLessThanWellFounded, WFMin, Zenon
<1>2. \A m \in T : ~(m < n)
  BY <1>1 DEF OpToRel
<1> QED
  BY <1>2

-----------------------------------------------------------------------------

\* What has been taken of the first elements of s.
TakenBy(s, I, N, taken) ==
  taken = [n \in 0 .. N |->
             IF n = 0 THEN <<>>
             ELSE IF n \in I THEN Append(taken[n - 1], s[n]) ELSE taken[n - 1]]

LEMMA TakenExists ==
  ASSUME NEW s, NEW I, NEW L \in Nat
  PROVE  \E taken : TakenBy(s, I, L, taken)
<1> DEFINE Fails == {N \in Nat : ~\E taken : TakenBy(s, I, N, taken)}
<1>1. ASSUME Fails # {} PROVE FALSE
  <2>1. PICK N \in Fails : \A M \in Fails : N <= M
    BY <1>1, LeastNumber
  <2>2. TakenBy(s, I, 0, [n \in 0 .. 0 |-> <<>>])
    BY DEF TakenBy
  <2>3. N # 0
    BY <2>1, <2>2
  <2>4. N - 1 \in Nat /\ N - 1 \notin Fails
    <3>1. N \in Nat
      OBVIOUS
    <3> HIDE DEF Fails
    <3> QED
      BY <2>1, <2>3, <3>1
  <2>5. PICK g : TakenBy(s, I, N - 1, g)
    BY <2>4
  <2> DEFINE last == IF N \in I THEN Append(g[N - 1], s[N]) ELSE g[N - 1]
             f == [n \in 0 .. N |-> IF n = N THEN last ELSE g[n]]
  <2>6. ASSUME NEW n \in 0 .. N
        PROVE  f[n] = IF n = 0 THEN <<>>
                      ELSE IF n \in I THEN Append(f[n - 1], s[n]) ELSE f[n - 1]
    <3>1. n # 0 => n - 1 \in 0 .. N /\ n - 1 # N /\ f[n - 1] = g[n - 1]
      BY <2>3
    <3>2. CASE n = N
      BY <2>3, <3>1, <3>2
    <3>3. CASE n # N
      <4>1. n \in 0 .. N - 1 /\ f[n] = g[n]
        BY <3>3
      <4> QED
        BY <2>5, <3>1, <4>1 DEF TakenBy
    <3> QED
      BY <3>2, <3>3
  <2>7. TakenBy(s, I, N, f)
    BY <2>6 DEF TakenBy
  <2> QED
    BY <2>1, <2>7
<1> QED
  BY <1>1

-----------------------------------------------------------------------------

\* e tells where in the first N elements of s each element of r comes from:
\* from positions in I, all of them, in order.
Places(S, s, I, N, r, e) ==
  /\ r \in Seq(S) /\ Len(r) <= N
  /\ e \in [1 .. Len(r) -> 1 .. N]
  /\ \A i \in 1 .. Len(r) : e[i] \in I /\ r[i] = s[e[i]]
  /\ \A i, j \in 1 .. Len(r) : i < j => e[i] < e[j]
  /\ \A k \in 1 .. N : k \in I => \E i \in 1 .. Len(r) : e[i] = k

LEMMA OneMoreTaken ==
  ASSUME NEW S, NEW s \in Seq(S), NEW I, NEW n \in 1 .. Len(s), NEW r, NEW e,
         Places(S, s, I, n - 1, r, e)
  PROVE  \E f : Places(S, s, I, n, IF n \in I THEN Append(r, s[n]) ELSE r, f)
<1>1. s[n] \in S /\ n \in Nat
  BY ElementOfSeq, LenProperties
<1>2. /\ r \in Seq(S) /\ Len(r) \in Nat /\ Len(r) <= n - 1
      /\ \A i \in 1 .. Len(r) : e[i] \in 1 .. n - 1 /\ e[i] \in I /\ r[i] = s[e[i]]
      /\ \A i, j \in 1 .. Len(r) : i < j => e[i] < e[j]
      /\ \A k \in 1 .. n - 1 : k \in I => \E i \in 1 .. Len(r) : e[i] = k
  BY LenProperties DEF Places
<1>3. CASE n \notin I
  <2>1. e \in [1 .. Len(r) -> 1 .. n]
    BY <1>1, <1>2 DEF Places
  <2>2. \A k \in 1 .. n : k \in I => \E i \in 1 .. Len(r) : e[i] = k
    BY <1>1, <1>2, <1>3
  <2>3. Places(S, s, I, n, r, e)
    BY <1>1, <1>2, <2>1, <2>2 DEF Places
  <2> QED
    BY <1>3, <2>3
<1>4. CASE n \in I
  <2> DEFINE q == Append(r, s[n])
             f == [i \in 1 .. Len(r) + 1 |-> IF i = Len(r) + 1 THEN n ELSE e[i]]
  <2>1. /\ q \in Seq(S) /\ Len(q) = Len(r) + 1
        /\ \A i \in 1 .. Len(r) : q[i] = r[i]
        /\ q[Len(r) + 1] = s[n]
    BY <1>1, <1>2, AppendProperties
  <2>2. /\ \A i \in 1 .. Len(r) : f[i] = e[i] /\ i # Len(r) + 1 /\ i \in 1 .. Len(r) + 1
        /\ f[Len(r) + 1] = n /\ Len(r) + 1 \in 1 .. Len(r) + 1
        /\ \A i \in 1 .. Len(r) + 1 : i \in 1 .. Len(r) \/ i = Len(r) + 1
    BY <1>2
  <2>3. f \in [1 .. Len(q) -> 1 .. n]
    BY <1>1, <1>2, <2>1
  <2> HIDE DEF q, f
  <2>4. \A i \in 1 .. Len(q) : f[i] \in I /\ q[i] = s[f[i]]
    BY <1>2, <1>4, <2>1, <2>2
  <2>5. ASSUME NEW i \in 1 .. Len(q), NEW j \in 1 .. Len(q), i < j
        PROVE  f[i] < f[j]
    <3>1. i \in 1 .. Len(r) /\ f[i] = e[i]
      BY <1>2, <2>1, <2>2, <2>5
    <3>2. CASE j \in 1 .. Len(r)
      BY <1>2, <2>2, <2>5, <3>1, <3>2
    <3>3. CASE j = Len(r) + 1
      BY <1>1, <1>2, <2>2, <3>1, <3>3
    <3> QED
      BY <2>1, <2>2, <3>2, <3>3
  <2>6. ASSUME NEW k \in 1 .. n, k \in I
        PROVE  \E i \in 1 .. Len(q) : f[i] = k
    <3>1. CASE k = n
      BY <2>1, <2>2, <3>1
    <3>2. CASE k # n
      <4>1. PICK i \in 1 .. Len(r) : e[i] = k
        BY <1>1, <1>2, <2>6, <3>2
      <4> QED
        BY <2>1, <2>2, <4>1
    <3> QED
      BY <3>1, <3>2
  <2>7. Places(S, s, I, n, q, f)
    BY <1>1, <1>2, <2>1, <2>3, <2>4, <2>5, <2>6 DEF Places
  <2> QED
    BY <1>4, <2>7 DEF q
<1> QED
  BY <1>3, <1>4

\* Selected takes the elements at the positions I, all of them and in their
\* order, which is what the loops over a list in the code do.
LEMMA SelectedPlaces ==
  ASSUME NEW S, NEW s \in Seq(S), NEW I
  PROVE  \E e : Places(S, s, I, Len(s), Selected(s, I), e)
<1> DEFINE taken == CHOOSE t : TakenBy(s, I, Len(s), t)
           Fails == {n \in 0 .. Len(s) : ~\E e : Places(S, s, I, n, taken[n], e)}
<1>1. TakenBy(s, I, Len(s), taken) /\ Len(s) \in Nat
  BY TakenExists, LenProperties
<1>2. Selected(s, I) = taken[Len(s)]
  BY DEF Selected, TakenBy
<1> HIDE DEF taken
<1>3. ASSUME Fails # {} PROVE FALSE
  <2>1. PICK n \in Fails : \A m \in Fails : n <= m
    <3>1. Fails \subseteq Nat
      BY <1>1
    <3> HIDE DEF Fails
    <3> QED
      BY <1>3, <3>1, LeastNumber
  <2>2. n \in 0 .. Len(s) /\ ~\E e : Places(S, s, I, n, taken[n], e)
    OBVIOUS
  <2>3. n # 0
    <3>1. taken[0] = <<>>
      BY <1>1 DEF TakenBy
    <3>2. Places(S, s, I, 0, <<>>, [i \in 1 .. 0 |-> i])
      BY EmptySeq DEF Places
    <3> QED
      BY <2>2, <3>1, <3>2
  <2>4. n \in 1 .. Len(s) /\ n - 1 \in 0 .. Len(s)
    BY <1>1, <2>2, <2>3
  <2>5. n - 1 \notin Fails
    <3> HIDE DEF Fails
    <3> QED
      BY <1>1, <2>1, <2>4
  <2>6. PICK e : Places(S, s, I, n - 1, taken[n - 1], e)
    BY <2>4, <2>5
  <2>7. taken[n] = IF n \in I THEN Append(taken[n - 1], s[n]) ELSE taken[n - 1]
    BY <1>1, <2>2, <2>3 DEF TakenBy
  <2> QED
    BY <2>2, <2>4, <2>6, <2>7, OneMoreTaken
<1>4. Len(s) \notin Fails /\ Len(s) \in 0 .. Len(s)
  BY <1>1, <1>3
<1> QED
  BY <1>2, <1>4
=============================================================================
