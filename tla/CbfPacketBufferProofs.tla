------------------------ MODULE CbfPacketBufferProofs ------------------------
(***************************************************************************)
(* Proofs about CbfPacketBuffer for any set of packets, any capacity and   *)
(* any timeouts: its types, list, timers and byte count in step, a call of *)
(* flush() ahead of every packet; what rounding may add to a lifetime;     *)
(* when packets leave on time; how far broadcasts of a packet are apart.   *)
(***************************************************************************)
EXTENDS CbfPacketBuffer, SelectionProofs, SequenceTheorems, FiniteSetTheorems, TLAPS

-----------------------------------------------------------------------------
(* The bytes of a list of packets.                                         *)

\* f[n] is the number of bytes of the first n packets.
SumBy(packets, N, f) ==
  f = [n \in 0 .. N |-> IF n = 0 THEN 0 ELSE f[n - 1] + packets[n].length]

LEMMA SumExists ==
  ASSUME NEW packets, NEW L \in Nat
  PROVE  \E f : SumBy(packets, L, f)
<1> DEFINE Fails == {N \in Nat : ~\E f : SumBy(packets, N, f)}
<1>1. ASSUME Fails # {} PROVE FALSE
  <2>1. PICK N \in Fails : \A M \in Fails : N <= M
    BY <1>1, LeastNumber
  <2>2. SumBy(packets, 0, [n \in 0 .. 0 |-> 0])
    BY DEF SumBy
  <2>3. N # 0
    BY <2>1, <2>2
  <2>4. N - 1 \in Nat /\ N - 1 \notin Fails
    <3>1. N \in Nat
      OBVIOUS
    <3> HIDE DEF Fails
    <3> QED
      BY <2>1, <2>3, <3>1
  <2>5. PICK g : SumBy(packets, N - 1, g)
    BY <2>4
  <2> DEFINE last == g[N - 1] + packets[N].length
             f == [n \in 0 .. N |-> IF n = N THEN last ELSE g[n]]
  <2>6. ASSUME NEW n \in 0 .. N
        PROVE  f[n] = IF n = 0 THEN 0 ELSE f[n - 1] + packets[n].length
    <3>1. n # 0 => n - 1 \in 0 .. N /\ n - 1 # N /\ f[n - 1] = g[n - 1]
      BY <2>3
    <3>2. CASE n = N
      BY <2>3, <3>1, <3>2
    <3>3. CASE n # N
      <4>1. n \in 0 .. N - 1 /\ f[n] = g[n]
        BY <3>3
      <4> QED
        BY <2>5, <3>1, <4>1 DEF SumBy
    <3> QED
      BY <3>2, <3>3
  <2>7. SumBy(packets, N, f)
    BY <2>6 DEF SumBy
  <2> QED
    BY <2>1, <2>7
<1> QED
  BY <1>1

LEMMA Numbers ==
  /\ Lengths \subseteq Nat \ {0} /\ Lifetimes \subseteq Nat /\ Timeouts \subseteq Nat
  /\ Capacity \in Nat /\ MaxTime \in Nat \ {0}
  /\ CounterLifetime \in Nat /\ MaxCounter \in Nat \ {0}
  /\ MaxJump \in Nat \ {0} /\ Quantum \in Nat \ {0} /\ Off \notin Int
BY CbfAssumption, QuantumAssumption, Zenon

LEMMA Typed ==
  ASSUME NEW s \in Seq(PacketType), NEW i \in 1 .. Len(s)
  PROVE  /\ s[i] \in PacketType /\ s[i].length \in Nat /\ s[i].length > 0
         /\ s[i].id \in Ids /\ s[i].lifetime \in Nat
<1>1. s[i] \in PacketType
  BY ElementOfSeq
<1>2. /\ s[i].length \in Lengths
      /\ s[i].id \in Ids /\ s[i].lifetime \in Nat
  BY <1>1 DEF PacketType
<1>3. Lengths \subseteq Nat \ {0}
  BY Numbers
<1>4. s[i].length \in Nat /\ s[i].length # 0
  BY <1>2, <1>3, Zenon
<1> QED
  BY <1>1, <1>2, <1>4

\* A running sum of the lengths, from 0.
Sums(s, N, f) ==
  /\ f[0] = 0
  /\ \A n \in 1 .. N : f[n - 1] \in Nat => f[n] = f[n - 1] + s[n].length

\* The running sums of a list are the ones that Bytes computes.
LEMMA Determined ==
  ASSUME NEW s \in Seq(PacketType), NEW f, Sums(s, Len(s), f)
  PROVE  f[Len(s)] = Bytes(s) /\ \A n \in 0 .. Len(s) : f[n] \in Nat
<1> DEFINE g == CHOOSE h : SumBy(s, Len(s), h)
           Fails == {n \in 0 .. Len(s) : ~(f[n] \in Nat /\ f[n] = g[n])}
<1>1. SumBy(s, Len(s), g) /\ Len(s) \in Nat
  BY SumExists, LenProperties
<1>2. Bytes(s) = g[Len(s)]
  BY DEF Bytes, SumBy
<1> HIDE DEF g
<1>3. ASSUME Fails # {} PROVE FALSE
  <2>1. PICK n \in Fails : \A m \in Fails : n <= m
    <3>1. Fails \subseteq Nat
      BY <1>1
    <3> HIDE DEF Fails
    <3> QED
      BY <1>3, <3>1, LeastNumber
  <2>2. n \in 0 .. Len(s) /\ ~(f[n] \in Nat /\ f[n] = g[n])
    OBVIOUS
  <2>3. n # 0
    <3>1. g[0] = 0 /\ f[0] = 0
      BY <1>1 DEF SumBy, Sums
    <3> QED
      BY <2>2, <3>1
  <2>4. n \in 1 .. Len(s) /\ n - 1 \in 0 .. Len(s)
    BY <1>1, <2>2, <2>3
  <2>5. n - 1 \notin Fails
    <3> HIDE DEF Fails
    <3> QED
      BY <1>1, <2>1, <2>4
  <2>6. f[n - 1] \in Nat /\ f[n - 1] = g[n - 1]
    BY <2>4, <2>5
  <2>7. g[n] = g[n - 1] + s[n].length
    BY <1>1, <2>2, <2>3 DEF SumBy
  <2>8. f[n] = f[n - 1] + s[n].length
    BY <2>4, <2>6 DEF Sums
  <2>9. s[n].length \in Nat
    BY <2>4, Typed
  <2>10. f[n] \in Nat /\ f[n] = g[n]
    BY <2>6, <2>7, <2>8, <2>9
  <2> QED
    BY <2>2, <2>10
<1>4. Fails = {}
  BY <1>3
<1> QED
  BY <1>1, <1>2, <1>4

\* f tells the bytes of the first packets of s.
Running(s, f) ==
  /\ f[0] = 0 /\ f[Len(s)] = Bytes(s)
  /\ \A n \in 0 .. Len(s) : f[n] \in Nat
  /\ \A n \in 1 .. Len(s) : f[n] = f[n - 1] + s[n].length

LEMMA RunningExists ==
  ASSUME NEW s \in Seq(PacketType)
  PROVE  \E f : Running(s, f)
<1>1. Len(s) \in Nat
  BY LenProperties
<1>2. PICK f : SumBy(s, Len(s), f)
  BY <1>1, SumExists
<1>3. f[0] = 0 /\ \A n \in 1 .. Len(s) : f[n] = f[n - 1] + s[n].length
  BY <1>1, <1>2 DEF SumBy
<1>4. Sums(s, Len(s), f)
  BY <1>3 DEF Sums
<1> QED
  BY <1>3, <1>4, Determined DEF Running

LEMMA BytesType ==
  ASSUME NEW s \in Seq(PacketType)
  PROVE  Bytes(s) \in Nat /\ (Len(s) = 0 => Bytes(s) = 0)
<1>1. PICK f : Running(s, f)
  BY RunningExists
<1>2. Len(s) \in Nat
  BY LenProperties
<1> QED
  BY <1>1, <1>2 DEF Running

\* The bytes of a part of a list.
LEMMA PartBytes ==
  ASSUME NEW s \in Seq(PacketType), NEW f, Running(s, f),
         NEW m \in 0 .. Len(s), NEW n \in m .. Len(s)
  PROVE  /\ SubSeq(s, m + 1, n) \in Seq(PacketType)
         /\ Len(SubSeq(s, m + 1, n)) = n - m
         /\ \A i \in 1 .. n - m : SubSeq(s, m + 1, n)[i] = s[m + i]
         /\ Bytes(SubSeq(s, m + 1, n)) = f[n] - f[m]
<1>1. PICK L \in Nat : L = Len(s)
  BY LenProperties
<1>2. PICK t : t = SubSeq(s, m + 1, n)
  OBVIOUS
<1>3. /\ m \in Nat /\ n \in Nat /\ m <= n /\ n <= L /\ n - m \in Nat
      /\ \A i \in m + 1 .. n : i \in 1 .. L
  BY <1>1
<1>4. \A i \in m + 1 .. n : s[i] \in PacketType
  BY <1>1, <1>3, ElementOfSeq
<1>5. /\ t \in Seq(PacketType)
      /\ Len(t) = (IF m + 1 <= n THEN n - (m + 1) + 1 ELSE 0)
      /\ \A i \in 1 .. n - (m + 1) + 1 : t[i] = s[m + 1 + i - 1]
  BY <1>2, <1>3, <1>4, SubSeqProperties
<1>6. /\ Len(t) = n - m
      /\ \A i \in 1 .. n - m : t[i] = s[m + i]
  BY <1>3, <1>5
<1>7. PICK g : g = [i \in 0 .. n - m |-> f[m + i] - f[m]]
  OBVIOUS
<1>8. /\ \A i \in 0 .. L : f[i] \in Nat
      /\ \A i \in 1 .. L : f[i] = f[i - 1] + s[i].length
  BY <1>1 DEF Running
<1>9. g[0] = 0
  BY <1>3, <1>7, <1>8
<1>10. ASSUME NEW i \in 1 .. n - m
       PROVE  g[i] = g[i - 1] + t[i].length
  <2>1. /\ m + i \in 1 .. L /\ m + (i - 1) \in 0 .. L
        /\ i \in 0 .. n - m /\ i - 1 \in 0 .. n - m /\ m \in 0 .. L /\ m + i \in 0 .. L
    BY <1>3
  <2>2. /\ g[i] = f[m + i] - f[m] /\ g[i - 1] = f[m + (i - 1)] - f[m]
    BY <1>7, <2>1
  <2>3. f[m + i] = f[m + (i - 1)] + t[i].length
    <3>1. t[i] = s[m + i]
      BY <1>6
    <3>2. PICK j \in 1 .. L : j = m + i
      BY <2>1, Zenon
    <3>3. f[j] = f[j - 1] + s[j].length
      BY <1>8, Zenon
    <3>4. s[j].length = t[i].length
      BY <3>1, <3>2, Zenon
    <3>5. f[j] = f[j - 1] + t[i].length
      BY <3>3, <3>4, Zenon
    <3>6. j - 1 = m + (i - 1)
      BY <1>3, <3>2
    <3> QED
      BY <3>2, <3>5, <3>6, Zenon
  <2>4. f[m + i] \in Nat /\ f[m + (i - 1)] \in Nat /\ f[m] \in Nat /\ t[i].length \in Nat
    <3>1. s[m + i].length \in Nat
      BY <1>1, <2>1, Typed
    <3> QED
      BY <1>6, <1>8, <2>1, <3>1
  <2>5. PICK x \in Nat, y \in Nat, z \in Nat, l \in Nat :
          x = f[m + i] /\ y = f[m + (i - 1)] /\ z = f[m] /\ l = t[i].length
    BY <2>4, Zenon
  <2>6. x = y + l
    BY <2>3, <2>5, Zenon
  <2>7. x - z = (y - z) + l
    BY <2>6
  <2> QED
    BY <2>2, <2>5, <2>7, Zenon
<1>11. Sums(t, Len(t), g)
  BY <1>6, <1>9, <1>10 DEF Sums
<1>12. g[n - m] = Bytes(t)
  BY <1>5, <1>6, <1>11, Determined
<1>13. g[n - m] = f[n] - f[m]
  BY <1>3, <1>7
<1> QED
  BY <1>2, <1>5, <1>6, <1>12, <1>13

LEMMA ConcatBytes ==
  ASSUME NEW s \in Seq(PacketType), NEW t \in Seq(PacketType)
  PROVE  Bytes(s \o t) = Bytes(s) + Bytes(t)
<1>1. PICK M \in Nat : M = Len(s)
  BY LenProperties
<1>2. PICK N \in Nat : N = Len(t)
  BY LenProperties
<1>3. PICK q : q = s \o t
  OBVIOUS
<1>4. /\ q \in Seq(PacketType) /\ Len(q) = M + N
      /\ \A i \in 1 .. M + N : q[i] = IF i <= M THEN s[i] ELSE t[i - M]
  BY <1>1, <1>2, <1>3, ConcatProperties
<1>5. PICK g : Running(s, g)
  BY RunningExists
<1>6. PICK h : Running(t, h)
  BY RunningExists
<1>7. /\ g[0] = 0 /\ g[M] = Bytes(s)
      /\ \A i \in 0 .. M : g[i] \in Nat
      /\ \A i \in 1 .. M : g[i] = g[i - 1] + s[i].length
  BY <1>1, <1>5 DEF Running
<1>8. /\ h[0] = 0 /\ h[N] = Bytes(t)
      /\ \A i \in 0 .. N : h[i] \in Nat
      /\ \A i \in 1 .. N : h[i] = h[i - 1] + t[i].length
  BY <1>2, <1>6 DEF Running
<1>9. PICK k : k = [i \in 0 .. M + N |-> IF i <= M THEN g[i] ELSE g[M] + h[i - M]]
  OBVIOUS
<1>10. \A i \in 0 .. M : k[i] = g[i]
  BY <1>9
<1>11. \A i \in 0 .. N : k[M + i] = g[M] + h[i]
  <2> SUFFICES ASSUME NEW i \in 0 .. N
               PROVE  k[M + i] = g[M] + h[i]
    OBVIOUS
  <2>1. M + i \in 0 .. M + N /\ (M + i) - M = i /\ (M + i <= M => i = 0)
    OBVIOUS
  <2>2. CASE i = 0
    BY <1>7, <1>8, <1>10, <2>2
  <2>3. CASE i # 0
    BY <1>9, <2>1, <2>3
  <2> QED
    BY <2>2, <2>3
<1>12. ASSUME NEW i \in 1 .. M + N
       PROVE  k[i] = k[i - 1] + q[i].length
  <2>1. CASE i <= M
    <3>1. i \in 1 .. M /\ i \in 0 .. M /\ i - 1 \in 0 .. M
      BY <2>1
    <3>2. q[i] = s[i]
      BY <1>4, <2>1
    <3> QED
      BY <1>7, <1>10, <3>1, <3>2
  <2>2. CASE ~(i <= M)
    <3>1. PICK j \in Nat : j = i - M
      BY <2>2
    <3>2. /\ j \in 1 .. N /\ j \in 0 .. N /\ j - 1 \in 0 .. N
          /\ i = M + j /\ i - 1 = M + (j - 1)
      BY <2>2, <3>1
    <3>3. q[i] = t[j]
      BY <1>4, <2>2, <3>1
    <3>4. k[i] = g[M] + h[j] /\ k[i - 1] = g[M] + h[j - 1]
      BY <1>11, <3>2
    <3>5. h[j] = h[j - 1] + t[j].length /\ h[j - 1] \in Nat /\ g[M] \in Nat
      BY <1>7, <1>8, <3>2
    <3>6. t[j].length \in Nat
      BY <1>2, <3>2, Typed
    <3> QED
      BY <3>3, <3>4, <3>5, <3>6
  <2> QED
    BY <2>1, <2>2
<1>13. k[0] = 0
  BY <1>7, <1>10
<1>14. Sums(q, Len(q), k)
  BY <1>4, <1>12, <1>13 DEF Sums
<1>15. k[M + N] = Bytes(q)
  BY <1>4, <1>14, Determined
<1>16. k[M + N] = g[M] + h[N]
  BY <1>11
<1> QED
  BY <1>3, <1>7, <1>8, <1>15, <1>16

LEMMA AppendBytes ==
  ASSUME NEW s \in Seq(PacketType), NEW p \in PacketType
  PROVE  Bytes(Append(s, p)) = Bytes(s) + p.length
<1>1. PICK M \in Nat : M = Len(s)
  BY LenProperties
<1>2. PICK q : q = Append(s, p)
  OBVIOUS
<1>3. /\ q \in Seq(PacketType) /\ Len(q) = M + 1 /\ q[M + 1] = p
      /\ \A i \in 1 .. M : q[i] = s[i]
  BY <1>1, <1>2, AppendProperties
<1>4. PICK f : Running(q, f)
  BY <1>3, RunningExists
<1>5. /\ f[0] = 0 /\ f[M + 1] = Bytes(q)
      /\ \A n \in 1 .. M + 1 : f[n] = f[n - 1] + q[n].length
  BY <1>3, <1>4 DEF Running
<1>6. \A n \in 1 .. M : f[n] = f[n - 1] + s[n].length
  BY <1>3, <1>5
<1>7. Sums(s, Len(s), f)
  BY <1>1, <1>5, <1>6 DEF Sums
<1>8. f[M] = Bytes(s)
  BY <1>1, <1>7, Determined
<1>9. f[M + 1] = f[M] + q[M + 1].length
  BY <1>5
<1> QED
  BY <1>2, <1>3, <1>5, <1>8, <1>9

\* Packets of the same lengths have the same number of bytes.
LEMMA SameBytes ==
  ASSUME NEW s \in Seq(PacketType), NEW t \in Seq(PacketType), Len(t) = Len(s),
         \A i \in 1 .. Len(s) : t[i].length = s[i].length
  PROVE  Bytes(t) = Bytes(s)
<1>1. PICK f : Running(s, f)
  BY RunningExists
<1>2. Sums(t, Len(t), f)
  BY <1>1 DEF Running, Sums
<1> QED
  BY <1>1, <1>2, Determined DEF Running

\* The packets at the positions I and the others together have all the bytes.
LEMMA SelectedBytes ==
  ASSUME NEW s \in Seq(PacketType), NEW I, NEW J,
         \A n \in 1 .. Len(s) : n \in J <=> n \notin I
  PROVE  Bytes(Selected(s, I)) + Bytes(Selected(s, J)) = Bytes(s)
<1> DEFINE a == CHOOSE t : TakenBy(s, I, Len(s), t)
           b == CHOOSE t : TakenBy(s, J, Len(s), t)
<1>1. PICK L \in Nat : L = Len(s)
  BY LenProperties
<1>2. TakenBy(s, I, L, a) /\ TakenBy(s, J, L, b)
  BY <1>1, TakenExists
<1>3. Selected(s, I) = a[L] /\ Selected(s, J) = b[L]
  BY <1>1 DEF Selected, TakenBy
<1> HIDE DEF a, b
<1>4. PICK f : Running(s, f)
  BY RunningExists
<1>5. /\ f[0] = 0 /\ f[L] = Bytes(s)
      /\ \A n \in 1 .. L : f[n] = f[n - 1] + s[n].length
  BY <1>1, <1>4 DEF Running
<1> DEFINE Good(n) == /\ a[n] \in Seq(PacketType) /\ b[n] \in Seq(PacketType)
                      /\ Bytes(a[n]) + Bytes(b[n]) = f[n]
           Fails == {n \in 0 .. L : ~Good(n)}
<1>6. Good(0)
  <2>1. a[0] = <<>> /\ b[0] = <<>>
    BY <1>2 DEF TakenBy
  <2>2. <<>> \in Seq(PacketType) /\ Len(<<>>) = 0
    BY EmptySeq
  <2>3. Bytes(<<>>) = 0
    BY <2>2, BytesType, Zenon
  <2> QED
    BY <1>5, <2>1, <2>2, <2>3
<1>7. ASSUME NEW n \in 1 .. L, Good(n - 1)
      PROVE  Good(n)
  <2>1. /\ a[n] = IF n \in I THEN Append(a[n - 1], s[n]) ELSE a[n - 1]
        /\ b[n] = IF n \in J THEN Append(b[n - 1], s[n]) ELSE b[n - 1]
    <3>1. n \in 0 .. L /\ n # 0
      OBVIOUS
    <3> HIDE DEF Good
    <3> QED
      BY <1>2, <3>1 DEF TakenBy
  <2>2. s[n] \in PacketType /\ s[n].length \in Nat
    BY <1>1, Typed
  <2>3. PICK x : x = a[n - 1]
    OBVIOUS
  <2>4. PICK y : y = b[n - 1]
    OBVIOUS
  <2>5. x \in Seq(PacketType) /\ y \in Seq(PacketType) /\ Bytes(x) + Bytes(y) = f[n - 1]
    BY <1>7, <2>3, <2>4
  <2>6. Bytes(x) \in Nat /\ Bytes(y) \in Nat
    BY <2>5, BytesType
  <2>7. f[n] = f[n - 1] + s[n].length
    BY <1>5
  <2> HIDE DEF Good
  <2>8. CASE n \in I
    <3>1. a[n] = Append(x, s[n]) /\ b[n] = y
      BY <1>1, <2>1, <2>3, <2>4, <2>8
    <3>2. Append(x, s[n]) \in Seq(PacketType)
      BY <2>2, <2>5, AppendProperties
    <3>3. Bytes(Append(x, s[n])) = Bytes(x) + s[n].length
      BY <2>2, <2>5, AppendBytes
    <3>4. Bytes(a[n]) + Bytes(b[n]) = f[n]
      BY <2>2, <2>5, <2>6, <2>7, <3>1, <3>3
    <3> QED
      BY <2>5, <3>1, <3>2, <3>4 DEF Good
  <2>9. CASE n \notin I
    <3>1. a[n] = x /\ b[n] = Append(y, s[n])
      BY <1>1, <2>1, <2>3, <2>4, <2>9
    <3>2. Append(y, s[n]) \in Seq(PacketType)
      BY <2>2, <2>5, AppendProperties
    <3>3. Bytes(Append(y, s[n])) = Bytes(y) + s[n].length
      BY <2>2, <2>5, AppendBytes
    <3>4. Bytes(a[n]) + Bytes(b[n]) = f[n]
      BY <2>2, <2>5, <2>6, <2>7, <3>1, <3>3
    <3> QED
      BY <2>5, <3>1, <3>2, <3>4 DEF Good
  <2> QED
    BY <2>8, <2>9
<1> HIDE DEF Good
<1>8. ASSUME Fails # {} PROVE FALSE
  <2>1. PICK n \in Fails : \A m \in Fails : n <= m
    <3>1. Fails \subseteq Nat
      BY <1>1
    <3> HIDE DEF Fails
    <3> QED
      BY <1>8, <3>1, LeastNumber
  <2>2. n \in 0 .. L /\ ~Good(n)
    OBVIOUS
  <2>3. n # 0
    BY <1>6, <2>2
  <2>4. n \in 1 .. L /\ n - 1 \in 0 .. L
    BY <2>2, <2>3
  <2>5. n - 1 \notin Fails
    <3> HIDE DEF Fails
    <3> QED
      BY <2>1, <2>4
  <2>6. Good(n - 1)
    BY <2>4, <2>5
  <2> QED
    BY <1>7, <2>2, <2>4, <2>6
<1>9. Good(L)
  BY <1>8
<1> QED
  BY <1>3, <1>5, <1>9 DEF Good

-----------------------------------------------------------------------------
(* The first timer.                                                        *)

LEMMA PairExtrema ==
  ASSUME NEW a \in Int, NEW b \in Int
  PROVE  /\ Max({a, b}) = IF a >= b THEN a ELSE b
         /\ Min({a, b}) = IF a <= b THEN a ELSE b
<1>1. \E x \in {a, b} : \A y \in {a, b} : x >= y
  OBVIOUS
<1>2. \E x \in {a, b} : \A y \in {a, b} : x <= y
  OBVIOUS
<1>3. Max({a, b}) \in {a, b} /\ \A y \in {a, b} : Max({a, b}) >= y
  BY <1>1 DEF Max
<1>4. Min({a, b}) \in {a, b} /\ \A y \in {a, b} : Min({a, b}) <= y
  BY <1>2 DEF Min
<1> QED
  BY <1>3, <1>4

Timed(timers) ==
  /\ DOMAIN timers \subseteq Ids
  /\ \A x \in DOMAIN timers : timers[x] \in [expiry : Int, queued : Nat]

\* Some timer is the first one of S.
HasFirst(timers, S) == \E x \in S : \A y \in S : timers[x].expiry <= timers[y].expiry

LEMMA FirstOfSet ==
  ASSUME NEW timers, Timed(timers), NEW S \in SUBSET DOMAIN timers, S # {}
  PROVE  HasFirst(timers, S)
<1> DEFINE Sized(n) == {R \in SUBSET DOMAIN timers :
                          R # {} /\ Cardinality(R) = n /\ ~HasFirst(timers, R)}
           Fails == {n \in Nat : Sized(n) # {}}
<1>1. ASSUME NEW R \in SUBSET DOMAIN timers
      PROVE  IsFiniteSet(R) /\ Cardinality(R) \in Nat
  <2>1. IsFiniteSet(Ids) /\ R \subseteq Ids
    BY CbfAssumption DEF Timed
  <2>2. IsFiniteSet(R)
    BY <2>1, FS_Subset
  <2> QED
    BY <2>2, FS_CardinalityType
<1>2. ASSUME Fails # {} PROVE FALSE
  <2>1. PICK n \in Fails : \A m \in Fails : n <= m
    <3>1. Fails \subseteq Nat
      OBVIOUS
    <3> HIDE DEF Fails
    <3> QED
      BY <1>2, <3>1, LeastNumber
  <2>2. PICK R \in SUBSET DOMAIN timers :
          R # {} /\ Cardinality(R) = n /\ ~HasFirst(timers, R)
    OBVIOUS
  <2>3. PICK x \in R : TRUE
    BY <2>2
  <2>4. PICK Q : Q = R \ {x}
    OBVIOUS
  <2>5. IsFiniteSet(R) /\ Cardinality(R) = n /\ n \in Nat
    BY <1>1, <2>2
  <2>6. Cardinality(Q) = n - 1 /\ Cardinality(Q) \in Nat /\ Q \in SUBSET DOMAIN timers
    <3>1. Q \in SUBSET DOMAIN timers
      BY <2>4
    <3>2. Cardinality(Q) = n - 1
      BY <2>4, <2>5, FS_RemoveElement
    <3> QED
      BY <1>1, <3>1, <3>2
  <2>7. \A y \in R : timers[y].expiry \in Int
    BY DEF Timed
  <2>8. CASE Q = {}
    <3>1. \A y \in R : y = x
      BY <2>4, <2>8
    <3> QED
      BY <2>2, <2>7, <3>1 DEF HasFirst
  <2>9. CASE Q # {}
    <3>1. n - 1 \notin Fails
      <4> HIDE DEF Fails
      <4> QED
        BY <2>1, <2>5, <2>6
    <3>2. HasFirst(timers, Q)
      BY <2>6, <2>9, <3>1
    <3>3. PICK y \in Q : \A z \in Q : timers[y].expiry <= timers[z].expiry
      BY <3>2 DEF HasFirst
    <3>4. \A z \in R : z = x \/ z \in Q
      BY <2>4
    <3>5. timers[x].expiry \in Int /\ timers[y].expiry \in Int /\ y \in R
      BY <2>4, <2>7
    <3>6. CASE timers[x].expiry <= timers[y].expiry
      <4>1. \A z \in R : timers[x].expiry <= timers[z].expiry
        BY <2>7, <3>3, <3>4, <3>5, <3>6
      <4> QED
        BY <2>2, <4>1 DEF HasFirst
    <3>7. CASE timers[y].expiry <= timers[x].expiry
      <4>1. \A z \in R : timers[y].expiry <= timers[z].expiry
        BY <3>3, <3>4, <3>7
      <4> QED
        BY <2>2, <3>5, <4>1 DEF HasFirst
    <3> QED
      BY <3>5, <3>6, <3>7
  <2> QED
    BY <2>8, <2>9
<1>3. Cardinality(S) \in Nat
  BY <1>1
<1> QED
  BY <1>2, <1>3

LEMMA EarliestFirst ==
  ASSUME NEW timers, Timed(timers), DOMAIN timers # {}
  PROVE  /\ Earliest(timers) \in Int
         /\ \A x \in DOMAIN timers : Earliest(timers) <= timers[x].expiry
<1>1. PICK x \in DOMAIN timers : \A y \in DOMAIN timers : timers[x].expiry <= timers[y].expiry
  BY FirstOfSet DEF HasFirst
<1>2. PICK E : E = {timers[y].expiry : y \in DOMAIN timers}
  OBVIOUS
<1>3. timers[x].expiry \in E /\ \A e \in E : timers[x].expiry <= e
  BY <1>1, <1>2
<1>4. Min(E) \in E /\ \A e \in E : Min(E) <= e
  BY <1>3 DEF Min
<1>5. E \subseteq Int
  BY <1>2 DEF Timed
<1>6. Earliest(timers) = Min(E)
  BY <1>2 DEF Earliest
<1> QED
  BY <1>2, <1>4, <1>5, <1>6

-----------------------------------------------------------------------------
(* The list and the timers tell the same story.                            *)

Matched(packets, timers) ==
  /\ \A i \in 1 .. Len(packets) : packets[i].id \in DOMAIN timers
  /\ \A x \in DOMAIN timers : \E i \in 1 .. Len(packets) : packets[i].id = x
  /\ \A i, j \in 1 .. Len(packets) : packets[i].id = packets[j].id => i = j

Listed(packets, timers, stored) ==
  /\ packets \in Seq(PacketType)
  /\ Timed(timers)
  /\ Matched(packets, timers)
  /\ stored = Bytes(packets)

Fits(packets, stored) == stored <= Capacity \/ Len(packets) = 1

\* t has the packets at the positions I of s; e tells where they come from.
Drawn(s, I, t, e) ==
  /\ t \in Seq(PacketType) /\ I \subseteq 1 .. Len(s)
  /\ \A i \in 1 .. Len(t) : e[i] \in I /\ t[i] = s[e[i]]
  /\ \A i, j \in 1 .. Len(t) : e[i] = e[j] => i = j
  /\ \A k \in I : \E i \in 1 .. Len(t) : e[i] = k

LEMMA DrawnMatched ==
  ASSUME NEW s, NEW I, NEW t, NEW e, Drawn(s, I, t, e),
         NEW timers, Timed(timers), Matched(s, timers),
         NEW gone, \A i \in 1 .. Len(s) : s[i].id \in gone <=> i \notin I
  PROVE  Matched(t, Without(timers, gone)) /\ Timed(Without(timers, gone))
<1>1. PICK w : w = Without(timers, gone)
  OBVIOUS
<1>2. DOMAIN w = DOMAIN timers \ gone /\ \A x \in DOMAIN w : w[x] = timers[x]
  BY <1>1 DEF Without
<1>3. \A i \in 1 .. Len(t) : e[i] \in I /\ e[i] \in 1 .. Len(s) /\ t[i] = s[e[i]]
  BY DEF Drawn
<1>4. \A i \in 1 .. Len(t) : t[i].id \in DOMAIN w
  BY <1>2, <1>3 DEF Matched
<1>5. ASSUME NEW x \in DOMAIN w
      PROVE  \E i \in 1 .. Len(t) : t[i].id = x
  <2>1. PICK k \in 1 .. Len(s) : s[k].id = x
    BY <1>2 DEF Matched
  <2>2. k \in I
    BY <1>2, <2>1
  <2>3. PICK i \in 1 .. Len(t) : e[i] = k
    BY <2>2 DEF Drawn
  <2> QED
    BY <1>3, <2>1, <2>3
<1>6. ASSUME NEW i \in 1 .. Len(t), NEW j \in 1 .. Len(t), t[i].id = t[j].id
      PROVE  i = j
  <2>1. e[i] = e[j]
    <3>1. e[i] \in 1 .. Len(s) /\ e[j] \in 1 .. Len(s)
      BY <1>3
    <3>2. s[e[i]].id = s[e[j]].id
      BY <1>3, <1>6
    <3> QED
      BY <3>1, <3>2 DEF Matched
  <2> QED
    BY <2>1 DEF Drawn
<1>7. Matched(t, w)
  BY <1>4, <1>5, <1>6 DEF Matched
<1>8. Timed(w)
  BY <1>2 DEF Timed
<1> QED
  BY <1>1, <1>7, <1>8

-----------------------------------------------------------------------------
(* remove() and fetch().                                                   *)

\* A buffered packet is in the list, at one position.
LEMMA PositionOf ==
  ASSUME NEW id, m_packets \in Seq(PacketType), Matched(m_packets, m_timers),
         Buffered(id)
  PROVE  Position(id) \in 1 .. Len(m_packets) /\ m_packets[Position(id)].id = id
<1>1. DOMAIN m_packets = 1 .. Len(m_packets)
  BY LenProperties
<1>2. \E i \in DOMAIN m_packets : m_packets[i].id = id
  BY <1>1 DEF Matched, Buffered
<1> QED
  BY <1>1, <1>2 DEF Position

LEMMA DroppedDrawn ==
  ASSUME m_packets \in Seq(PacketType), NEW k \in 1 .. Len(m_packets)
  PROVE  /\ \E e : Drawn(m_packets, 1 .. Len(m_packets) \ {k}, Dropped(k), e)
         /\ Bytes(Dropped(k)) = Bytes(m_packets) - m_packets[k].length
         /\ Len(Dropped(k)) = Len(m_packets) - 1
<1>1. PICK L \in Nat : L = Len(m_packets)
  BY LenProperties
<1>2. PICK f : Running(m_packets, f)
  BY RunningExists
<1>3. PICK a : a = SubSeq(m_packets, 1, k - 1)
  OBVIOUS
<1>4. PICK b : b = SubSeq(m_packets, k + 1, Len(m_packets))
  OBVIOUS
<1>5. k \in Nat /\ 1 <= k /\ k <= L
  BY <1>1
<1>6. /\ a \in Seq(PacketType) /\ Len(a) = k - 1
      /\ \A i \in 1 .. k - 1 : a[i] = m_packets[i]
      /\ Bytes(a) = f[k - 1]
  <2>1. 0 \in 0 .. Len(m_packets) /\ k - 1 \in 0 .. Len(m_packets)
    BY <1>1, <1>5
  <2>2. PICK z \in 0 .. Len(m_packets) : z = 0
    BY <2>1
  <2>3. PICK m \in z .. Len(m_packets) : m = k - 1
    BY <2>1, <2>2
  <2>4. /\ SubSeq(m_packets, z + 1, m) \in Seq(PacketType)
        /\ Len(SubSeq(m_packets, z + 1, m)) = m - z
        /\ \A i \in 1 .. m - z : SubSeq(m_packets, z + 1, m)[i] = m_packets[z + i]
        /\ Bytes(SubSeq(m_packets, z + 1, m)) = f[m] - f[z]
    BY <1>2, PartBytes
  <2>5. z + 1 = 1 /\ m - z = k - 1 /\ \A i \in 1 .. k - 1 : z + i = i
    BY <1>5, <2>2, <2>3
  <2>6. f[z] = 0 /\ f[m] \in Nat
    <3>1. m \in 0 .. Len(m_packets)
      BY <2>1, <2>3
    <3> QED
      BY <1>2, <2>2, <3>1 DEF Running
  <2>7. a = SubSeq(m_packets, z + 1, m)
    BY <1>3, <2>3, <2>5
  <2>8. Bytes(a) = f[k - 1]
    BY <2>3, <2>4, <2>6, <2>7
  <2> QED
    BY <2>4, <2>5, <2>7, <2>8
<1>7. /\ b \in Seq(PacketType) /\ Len(b) = L - k
      /\ \A i \in 1 .. L - k : b[i] = m_packets[k + i]
      /\ Bytes(b) = f[L] - f[k]
  <2>1. k \in 0 .. Len(m_packets) /\ Len(m_packets) \in k .. Len(m_packets)
    BY <1>1, <1>5
  <2> QED
    BY <1>1, <1>2, <1>4, <2>1, PartBytes
<1>8. PICK t : t = Dropped(k)
  OBVIOUS
<1>9. t = a \o b
  BY <1>3, <1>4, <1>8 DEF Dropped
<1>10. /\ t \in Seq(PacketType) /\ Len(t) = L - 1
       /\ \A i \in 1 .. L - 1 : t[i] = IF i <= k - 1 THEN a[i] ELSE b[i - (k - 1)]
  <2>1. /\ t \in Seq(PacketType) /\ Len(t) = Len(a) + Len(b)
        /\ \A i \in 1 .. Len(a) + Len(b) : t[i] = IF i <= Len(a) THEN a[i] ELSE b[i - Len(a)]
    BY <1>6, <1>7, <1>9, ConcatProperties
  <2>2. Len(a) + Len(b) = L - 1
    BY <1>5, <1>6, <1>7
  <2> QED
    BY <1>6, <2>1, <2>2
<1>11. Bytes(t) = Bytes(m_packets) - m_packets[k].length
  <2>1. Bytes(t) = Bytes(a) + Bytes(b)
    BY <1>6, <1>7, <1>9, ConcatBytes
  <2>2. f[L] = Bytes(m_packets) /\ f[k] = f[k - 1] + m_packets[k].length
    BY <1>1, <1>2 DEF Running
  <2>3. f[L] \in Nat /\ f[k] \in Nat /\ f[k - 1] \in Nat
    <3>1. L \in 0 .. L /\ k \in 0 .. L /\ k - 1 \in 0 .. L
      BY <1>5
    <3> QED
      BY <1>1, <1>2, <3>1 DEF Running
  <2>4. m_packets[k].length \in Nat
    BY Typed
  <2>5. Bytes(t) = f[k - 1] + (f[L] - f[k])
    BY <1>6, <1>7, <2>1
  <2>6. f[k - 1] + (f[L] - f[k]) = f[L] - m_packets[k].length
    <3>1. PICK x \in Nat, y \in Nat, z \in Nat, l \in Nat :
            x = f[L] /\ y = f[k] /\ z = f[k - 1] /\ l = m_packets[k].length
      BY <2>3, <2>4, Zenon
    <3>2. y = z + l
      BY <2>2, <3>1, Zenon
    <3>3. z + (x - y) = x - l
      BY <3>2
    <3> QED
      BY <3>1, <3>3, Zenon
  <2> QED
    BY <2>2, <2>5, <2>6, Zenon
<1>12. PICK e : e = [i \in 1 .. L - 1 |-> IF i <= k - 1 THEN i ELSE i + 1]
  OBVIOUS
<1>13. ASSUME NEW i \in 1 .. L - 1
       PROVE  e[i] \in (1 .. L) \ {k} /\ t[i] = m_packets[e[i]]
  <2>1. CASE i <= k - 1
    <3>1. e[i] = i /\ t[i] = a[i] /\ i \in 1 .. k - 1
      BY <1>5, <1>10, <1>12, <2>1
    <3> QED
      BY <1>5, <1>6, <3>1
  <2>2. CASE ~(i <= k - 1)
    <3>1. e[i] = i + 1 /\ t[i] = b[i - (k - 1)]
      BY <1>5, <1>10, <1>12, <2>2
    <3>2. i - (k - 1) \in 1 .. L - k /\ k + (i - (k - 1)) = i + 1
      BY <1>5, <2>2
    <3>3. b[i - (k - 1)] = m_packets[i + 1]
      BY <1>7, <3>2
    <3> QED
      BY <1>5, <2>2, <3>1, <3>3
  <2> QED
    BY <2>1, <2>2
<1>14. ASSUME NEW i \in 1 .. L - 1, NEW j \in 1 .. L - 1, e[i] = e[j]
       PROVE  i = j
  BY <1>5, <1>12, <1>14
<1>15. ASSUME NEW n \in (1 .. L) \ {k}
       PROVE  \E i \in 1 .. L - 1 : e[i] = n
  <2>1. CASE n < k
    <3>1. n \in 1 .. L - 1 /\ n <= k - 1
      BY <1>5, <2>1
    <3> QED
      BY <1>12, <3>1
  <2>2. CASE n > k
    <3>1. n - 1 \in 1 .. L - 1 /\ ~(n - 1 <= k - 1) /\ (n - 1) + 1 = n
      BY <1>5, <2>2
    <3> QED
      BY <1>12, <3>1
  <2> QED
    BY <1>5, <2>1, <2>2
<1>16. Drawn(m_packets, 1 .. Len(m_packets) \ {k}, t, e)
  BY <1>1, <1>10, <1>13, <1>14, <1>15 DEF Drawn
<1> QED
  BY <1>1, <1>8, <1>10, <1>11, <1>16

\* remove() takes a packet out of the list and of the timers.
LEMMA RemoveListed ==
  ASSUME NEW id, Listed(m_packets, m_timers, m_stored_bytes),
         Fits(m_packets, m_stored_bytes), Buffered(id), Remove(id)
  PROVE  /\ Listed(m_packets', m_timers', m_stored_bytes')
         /\ Fits(m_packets', m_stored_bytes')
         /\ m_timers' = Without(m_timers, {id})
<1>1. /\ m_packets \in Seq(PacketType) /\ Matched(m_packets, m_timers) /\ Timed(m_timers)
      /\ m_stored_bytes = Bytes(m_packets)
  BY DEF Listed
<1>2. PICK k \in 1 .. Len(m_packets) : k = Position(id) /\ m_packets[k].id = id
  BY <1>1, PositionOf
<1>3. PICK t : t = Dropped(k)
  OBVIOUS
<1>4. PICK e : Drawn(m_packets, 1 .. Len(m_packets) \ {k}, t, e)
  BY <1>1, <1>3, DroppedDrawn
<1>5. Bytes(t) = Bytes(m_packets) - m_packets[k].length /\ Len(t) = Len(m_packets) - 1
  BY <1>1, <1>3, DroppedDrawn
<1>6. /\ m_packets' = t
      /\ m_stored_bytes' = m_stored_bytes - m_packets[k].length
      /\ m_timers' = Without(m_timers, {id})
  BY <1>2, <1>3 DEF Remove
<1>7. \A i \in 1 .. Len(m_packets) :
        m_packets[i].id \in {id} <=> i \notin 1 .. Len(m_packets) \ {k}
  BY <1>1, <1>2 DEF Matched
<1>8. Matched(t, Without(m_timers, {id})) /\ Timed(Without(m_timers, {id}))
  BY <1>1, <1>4, <1>7, DrawnMatched
<1>9. t \in Seq(PacketType)
  BY <1>4 DEF Drawn
<1>10. m_stored_bytes' = Bytes(t)
  BY <1>1, <1>5, <1>6
<1>11. Listed(m_packets', m_timers', m_stored_bytes')
  BY <1>6, <1>8, <1>9, <1>10 DEF Listed
<1>12. Fits(m_packets', m_stored_bytes')
  <2>1. CASE m_stored_bytes <= Capacity
    <3>1. m_packets[k].length \in Nat /\ Bytes(m_packets) \in Nat /\ Bytes(t) \in Nat
      BY <1>1, <1>9, Typed, BytesType
    <3>2. m_stored_bytes' <= Capacity
      BY <1>1, <1>5, <1>10, <2>1, <3>1, Numbers
    <3> QED
      BY <3>2 DEF Fits
  <2>2. CASE Len(m_packets) = 1
    <3>1. Len(t) = 0
      BY <1>5, <2>2
    <3>2. Bytes(t) = 0
      BY <1>9, <3>1, BytesType
    <3> QED
      BY <1>10, <3>2, Numbers DEF Fits
  <2> QED
    BY <2>1, <2>2 DEF Fits
<1> QED
  BY <1>6, <1>11, <1>12

-----------------------------------------------------------------------------
(* flush().                                                                *)

RipePlaces == {i \in DOMAIN m_packets : m_packets[i].id \in Ripe}

LEMMA FlushListed ==
  ASSUME Listed(m_packets, m_timers, m_stored_bytes),
         Fits(m_packets, m_stored_bytes), Flush
  PROVE  /\ Listed(m_packets', m_timers', m_stored_bytes')
         /\ Fits(m_packets', m_stored_bytes')
         /\ m_timers' = Without(m_timers, Ripe)
<1>1. /\ m_packets \in Seq(PacketType) /\ Matched(m_packets, m_timers) /\ Timed(m_timers)
      /\ m_stored_bytes = Bytes(m_packets)
  BY DEF Listed
<1>2. PICK L \in Nat : L = Len(m_packets) /\ DOMAIN m_packets = 1 .. L
  BY <1>1, LenProperties
<1>3. PICK I : I = RipePlaces
  OBVIOUS
<1>4. PICK J : J = DOMAIN m_packets \ RipePlaces
  OBVIOUS
<1>5. PICK t : t = Selected(m_packets, J)
  OBVIOUS
<1>6. PICK u : u = Selected(m_packets, I)
  OBVIOUS
<1>7. /\ m_packets' = t /\ m_timers' = Without(m_timers, Ripe)
      /\ m_stored_bytes' = m_stored_bytes - Bytes(u)
  BY <1>3, <1>4, <1>5, <1>6 DEF Flush, RipePlaces
<1>8. J \subseteq 1 .. L /\ \A i \in 1 .. L : i \in J <=> i \notin I
  BY <1>2, <1>3, <1>4 DEF RipePlaces
<1>9. PICK e : Places(PacketType, m_packets, J, L, t, e)
  BY <1>1, <1>2, <1>5, SelectedPlaces
<1>10. t \in Seq(PacketType) /\ Len(t) <= L
  BY <1>9 DEF Places
<1>11. u \in Seq(PacketType)
  <2>1. PICK f : Places(PacketType, m_packets, I, Len(m_packets), u, f)
    BY <1>1, <1>6, SelectedPlaces
  <2> QED
    BY <2>1 DEF Places
<1>12. Drawn(m_packets, J, t, e)
  <2>1. \A i \in 1 .. Len(t) : e[i] \in J /\ t[i] = m_packets[e[i]]
    BY <1>9 DEF Places
  <2>2. ASSUME NEW i \in 1 .. Len(t), NEW j \in 1 .. Len(t), e[i] = e[j]
        PROVE  i = j
    <3>1. /\ e[i] \in Nat /\ e[j] \in Nat
          /\ (i < j => e[i] < e[j]) /\ (j < i => e[j] < e[i])
      BY <1>9 DEF Places
    <3>2. Len(t) \in Nat
      BY <1>10, LenProperties
    <3> QED
      BY <2>2, <3>1, <3>2
  <2>3. \A k \in J : \E i \in 1 .. Len(t) : e[i] = k
    BY <1>8, <1>9 DEF Places
  <2> QED
    BY <1>2, <1>8, <1>10, <2>1, <2>2, <2>3 DEF Drawn
<1>13. \A i \in 1 .. Len(m_packets) : m_packets[i].id \in Ripe <=> i \notin J
  BY <1>2, <1>3, <1>8 DEF RipePlaces
<1>14. Matched(t, Without(m_timers, Ripe)) /\ Timed(Without(m_timers, Ripe))
  BY <1>1, <1>12, <1>13, DrawnMatched
<1>15. Bytes(u) + Bytes(t) = Bytes(m_packets)
  BY <1>1, <1>2, <1>5, <1>6, <1>8, SelectedBytes
<1>16. Bytes(u) \in Nat /\ Bytes(t) \in Nat /\ Bytes(m_packets) \in Nat
  BY <1>1, <1>10, <1>11, BytesType
<1>17. m_stored_bytes' = Bytes(t) /\ Bytes(t) <= m_stored_bytes
  BY <1>1, <1>7, <1>15, <1>16
<1>18. Listed(m_packets', m_timers', m_stored_bytes')
  BY <1>7, <1>10, <1>14, <1>17 DEF Listed
<1>19. Fits(m_packets', m_stored_bytes')
  <2>1. CASE m_stored_bytes <= Capacity
    <3>1. m_stored_bytes' <= Capacity
      BY <1>1, <1>16, <1>17, <2>1, Numbers
    <3> QED
      BY <3>1 DEF Fits
  <2>2. CASE Len(m_packets) = 1
    <3>1. PICK l \in Nat : l = Len(t)
      BY <1>10, LenProperties
    <3>2. l <= 1
      BY <1>2, <1>10, <2>2, <3>1
    <3>3. CASE Len(t) = 0
      <4>1. Bytes(t) = 0
        BY <1>10, <3>3, BytesType
      <4>2. Capacity \in Nat /\ m_stored_bytes' = 0
        BY <1>17, <4>1, Numbers
      <4> QED
        BY <4>2 DEF Fits
    <3>4. CASE Len(t) = 1
      BY <1>7, <3>4 DEF Fits
    <3>5. Len(t) = 0 \/ Len(t) = 1
      <4>1. l = 0 \/ l = 1
        BY <3>2
      <4> QED
        BY <3>1, <4>1
    <3> QED
      BY <3>3, <3>4, <3>5, Zenon
  <2> QED
    BY <2>1, <2>2 DEF Fits
<1> QED
  BY <1>7, <1>18, <1>19

-----------------------------------------------------------------------------
(* add().                                                                  *)

\* Head drop ends: when the new packet fits, or when nothing is left to drop.
LEMMA HeadDropEnds ==
  ASSUME m_packets \in Seq(PacketType), NEW length
  PROVE  /\ HeadDrop(length) \in 0 .. Len(m_packets)
         /\ FitsAfter(HeadDrop(length), length) \/ HeadDrop(length) = Len(m_packets)
<1> DEFINE T == {n \in 0 .. Len(m_packets) : FitsAfter(n, length) \/ n = Len(m_packets)}
<1>1. Len(m_packets) \in Nat
  BY LenProperties
<1>2. T \subseteq Nat /\ Len(m_packets) \in T
  BY <1>1
<1>3. PICK n \in T : \A m \in T : n <= m
  <2> HIDE DEF T
  <2> QED
    BY <1>2, LeastNumber
<1>4. n \in 0 .. Len(m_packets) /\ (FitsAfter(n, length) \/ n = Len(m_packets))
  OBVIOUS
<1>5. ASSUME NEW k \in 0 .. n - 1
      PROVE  ~FitsAfter(k, length)
  <2>1. k \in 0 .. Len(m_packets) /\ ~(n <= k)
    BY <1>1, <1>4
  <2>2. k \notin T
    <3> HIDE DEF T
    <3> QED
      BY <1>3, <2>1
  <2> QED
    BY <2>1, <2>2
<1>6. \E m \in 0 .. Len(m_packets) :
        /\ FitsAfter(m, length) \/ m = Len(m_packets)
        /\ \A k \in 0 .. m - 1 : ~FitsAfter(k, length)
  BY <1>4, <1>5
<1> QED
  BY <1>6 DEF HeadDrop

\* What add() does with the timers, the counters and the runtime's timer when
\* head drop takes the packets in gone.
Added(id, timeout, gone) ==
  /\ gone \subseteq DOMAIN m_timers
  /\ m_timers' = Update(Without(m_timers, gone), id, [expiry |-> timeout, queued |-> 0])
  /\ m_counters' = CounterAdd(CounterRemove(m_counters, gone), id)
  /\ \/ scheduled' = IF FirstChanged(id, gone, m_timers') THEN Earliest(m_timers')
                     ELSE scheduled
     \/ (\E x \in gone : First(x, m_timers)) /\ scheduled' = scheduled

\* Head drop leaves the end of the list.
LEMMA EndDrawn ==
  ASSUME m_packets \in Seq(PacketType), NEW n \in 0 .. Len(m_packets)
  PROVE  /\ \E e : Drawn(m_packets, n + 1 .. Len(m_packets),
                         SubSeq(m_packets, n + 1, Len(m_packets)), e)
         /\ Bytes(SubSeq(m_packets, 1, n)) \in Nat
         /\ Bytes(SubSeq(m_packets, n + 1, Len(m_packets)))
              = Bytes(m_packets) - Bytes(SubSeq(m_packets, 1, n))
         /\ Len(SubSeq(m_packets, n + 1, Len(m_packets))) = Len(m_packets) - n
<1>1. PICK L \in Nat : L = Len(m_packets)
  BY LenProperties
<1>2. PICK f : Running(m_packets, f)
  BY RunningExists
<1>3. PICK a : a = SubSeq(m_packets, 1, n)
  OBVIOUS
<1>4. PICK b : b = SubSeq(m_packets, n + 1, Len(m_packets))
  OBVIOUS
<1>5. n \in Nat /\ n <= L
  BY <1>1
<1>6. Bytes(a) = f[n] /\ f[n] \in Nat
  <2>1. 0 \in 0 .. Len(m_packets) /\ n \in 0 .. Len(m_packets)
    BY <1>1, <1>5
  <2>2. PICK z \in 0 .. Len(m_packets) : z = 0
    BY <2>1
  <2>3. n \in z .. Len(m_packets)
    BY <2>1, <2>2
  <2>4. Bytes(SubSeq(m_packets, z + 1, n)) = f[n] - f[z]
    BY <1>2, <2>3, PartBytes
  <2>5. z + 1 = 1 /\ f[z] = 0 /\ f[n] \in Nat
    BY <1>2, <2>2 DEF Running
  <2>6. a = SubSeq(m_packets, z + 1, n)
    BY <1>3, <2>5
  <2> QED
    BY <2>4, <2>5, <2>6
<1>7. /\ b \in Seq(PacketType) /\ Len(b) = L - n
      /\ \A i \in 1 .. L - n : b[i] = m_packets[n + i]
      /\ Bytes(b) = f[L] - f[n]
  <2>1. Len(m_packets) \in n .. Len(m_packets)
    BY <1>1, <1>5
  <2> QED
    BY <1>1, <1>2, <1>4, <2>1, PartBytes
<1>8. f[L] = Bytes(m_packets)
  BY <1>1, <1>2 DEF Running
<1>9. PICK e : e = [i \in 1 .. L - n |-> n + i]
  OBVIOUS
<1>10. /\ \A i \in 1 .. L - n : e[i] \in n + 1 .. L /\ b[i] = m_packets[e[i]]
       /\ \A i, j \in 1 .. L - n : e[i] = e[j] => i = j
  BY <1>5, <1>7, <1>9
<1>11. ASSUME NEW k \in n + 1 .. L
       PROVE  \E i \in 1 .. L - n : e[i] = k
  <2>1. k - n \in 1 .. L - n /\ n + (k - n) = k
    BY <1>5
  <2> QED
    BY <1>9, <2>1
<1>12. n + 1 .. L \subseteq 1 .. L
  BY <1>5
<1>13. Drawn(m_packets, n + 1 .. L, b, e)
  BY <1>1, <1>7, <1>10, <1>11, <1>12 DEF Drawn
<1> QED
  BY <1>1, <1>3, <1>4, <1>6, <1>7, <1>8, <1>13

\* A packet that is added to the end of the list and its timer.
LEMMA AppendMatched ==
  ASSUME NEW s \in Seq(PacketType), NEW timers, Timed(timers), Matched(s, timers),
         NEW p \in PacketType, p.id \notin DOMAIN timers,
         NEW r \in [expiry : Int, queued : Nat]
  PROVE  /\ Matched(Append(s, p), Update(timers, p.id, r))
         /\ Timed(Update(timers, p.id, r))
<1>1. PICK L \in Nat : L = Len(s)
  BY LenProperties
<1>2. PICK q : q = Append(s, p)
  OBVIOUS
<1>3. PICK w : w = Update(timers, p.id, r)
  OBVIOUS
<1>4. /\ q \in Seq(PacketType) /\ Len(q) = L + 1 /\ q[L + 1] = p
      /\ \A i \in 1 .. L : q[i] = s[i]
  BY <1>1, <1>2, AppendProperties
<1>5. /\ DOMAIN w = DOMAIN timers \cup {p.id} /\ w[p.id] = r
      /\ \A x \in DOMAIN timers : w[x] = timers[x]
  BY <1>3 DEF Update
<1>6. \A i \in 1 .. L + 1 : i = L + 1 \/ i \in 1 .. L
  OBVIOUS
<1>7. \A i \in 1 .. L : s[i].id \in DOMAIN timers
  BY <1>1 DEF Matched
<1>8. \A i \in 1 .. L + 1 : q[i].id \in DOMAIN w
  BY <1>4, <1>5, <1>6, <1>7
<1>9. ASSUME NEW x \in DOMAIN w
      PROVE  \E i \in 1 .. L + 1 : q[i].id = x
  <2>1. CASE x = p.id
    <3>1. L + 1 \in 1 .. L + 1
      OBVIOUS
    <3> QED
      BY <1>4, <2>1, <3>1
  <2>2. CASE x \in DOMAIN timers
    <3>1. PICK i \in 1 .. L : s[i].id = x
      BY <1>1, <2>2 DEF Matched
    <3>2. i \in 1 .. L + 1
      OBVIOUS
    <3> QED
      BY <1>4, <3>1, <3>2
  <2> QED
    BY <1>5, <2>1, <2>2
<1>10. ASSUME NEW i \in 1 .. L + 1, NEW j \in 1 .. L + 1, q[i].id = q[j].id
       PROVE  i = j
  <2>1. CASE i \in 1 .. L /\ j \in 1 .. L
    <3>1. s[i].id = s[j].id
      BY <1>4, <1>10, <2>1
    <3> QED
      BY <1>1, <2>1, <3>1 DEF Matched
  <2>2. CASE i = L + 1 /\ j \in 1 .. L
    BY <1>4, <1>7, <1>10, <2>2
  <2>3. CASE i \in 1 .. L /\ j = L + 1
    BY <1>4, <1>7, <1>10, <2>3
  <2> QED
    BY <1>6, <2>1, <2>2, <2>3
<1>11. Matched(q, w)
  BY <1>4, <1>8, <1>9, <1>10 DEF Matched
<1>12. Timed(w)
  <2>1. p.id \in Ids
    BY DEF PacketType
  <2> QED
    BY <1>5, <2>1 DEF Timed
<1> QED
  BY <1>2, <1>3, <1>11, <1>12

\* add() of a packet that is not buffered: list, timers and bytes stay in
\* step whatever head drop takes, and the capacity is kept.
LEMMA AddListed ==
  ASSUME NEW p \in PacketType, NEW timeout \in Nat, timeout > 0,
         Listed(m_packets, m_timers, m_stored_bytes), ~Buffered(p.id),
         Add(p, timeout)
  PROVE  /\ Listed(m_packets', m_timers', m_stored_bytes')
         /\ Fits(m_packets', m_stored_bytes')
         /\ \E gone : Added(p.id, timeout, gone)
<1>1. /\ m_packets \in Seq(PacketType) /\ Matched(m_packets, m_timers) /\ Timed(m_timers)
      /\ m_stored_bytes = Bytes(m_packets)
  BY DEF Listed
<1>2. PICK L \in Nat : L = Len(m_packets)
  BY <1>1, LenProperties
<1>3. PICK n \in 0 .. L : n = HeadDrop(p.length)
  BY <1>1, <1>2, HeadDropEnds
<1>4. FitsAfter(n, p.length) \/ n = L
  BY <1>1, <1>2, <1>3, HeadDropEnds
<1>5. PICK gone : gone = {m_packets[i].id : i \in 1 .. n}
  OBVIOUS
<1>6. PICK kept : kept = SubSeq(m_packets, n + 1, Len(m_packets))
  OBVIOUS
<1>7. PICK timers : timers = Without(m_timers, gone)
  OBVIOUS
<1>8. PICK b : b = Bytes(SubSeq(m_packets, 1, n))
  OBVIOUS
<1>9. /\ b \in Nat /\ Bytes(kept) = Bytes(m_packets) - b /\ Len(kept) = L - n
      /\ \E e : Drawn(m_packets, n + 1 .. Len(m_packets), kept, e)
  BY <1>1, <1>2, <1>6, <1>8, EndDrawn
<1>10. PICK e : Drawn(m_packets, n + 1 .. Len(m_packets), kept, e)
  BY <1>9
<1>11. n \in Nat /\ n <= L /\ 1 .. n \subseteq 1 .. L
  OBVIOUS
<1>12. ASSUME NEW i \in 1 .. Len(m_packets)
       PROVE  m_packets[i].id \in gone <=> i \notin n + 1 .. Len(m_packets)
  <2>1. m_packets[i].id \in gone => i \in 1 .. n
    <3>1. \A j \in 1 .. n : m_packets[j].id = m_packets[i].id => j = i
      BY <1>1, <1>2, <1>11 DEF Matched
    <3> QED
      BY <1>5, <3>1
  <2>2. i \in 1 .. n => m_packets[i].id \in gone
    BY <1>5
  <2>3. i \in 1 .. n <=> i \notin n + 1 .. L
    BY <1>2, <1>11
  <2> QED
    BY <1>2, <2>1, <2>2, <2>3
<1>13. Matched(kept, timers) /\ Timed(timers)
  BY <1>1, <1>7, <1>10, <1>12, DrawnMatched
<1>14. p.id \notin DOMAIN timers /\ DOMAIN timers = DOMAIN m_timers \ gone
  BY <1>7 DEF Without, Buffered
<1>15. gone \subseteq DOMAIN m_timers
  BY <1>1, <1>2, <1>5, <1>11 DEF Matched
<1>16. /\ m_packets' = Append(kept, p)
       /\ m_timers' = Update(timers, p.id, [expiry |-> timeout, queued |-> 0])
       /\ m_stored_bytes' = m_stored_bytes - b + p.length
       /\ m_counters' = CounterAdd(CounterRemove(m_counters, gone), p.id)
       /\ \/ scheduled' = IF FirstChanged(p.id, gone, m_timers') THEN Earliest(m_timers')
                          ELSE scheduled
          \/ (\E x \in gone : First(x, m_timers)) /\ scheduled' = scheduled
  BY <1>3, <1>5, <1>6, <1>7, <1>8, <1>14 DEF Add
<1>17. Added(p.id, timeout, gone)
  BY <1>7, <1>15, <1>16 DEF Added
<1>18. kept \in Seq(PacketType)
  BY <1>10 DEF Drawn
<1>19. Matched(m_packets', m_timers') /\ Timed(m_timers')
  <2>1. [expiry |-> timeout, queued |-> 0] \in [expiry : Int, queued : Nat]
    OBVIOUS
  <2> QED
    BY <1>13, <1>14, <1>16, <1>18, <2>1, AppendMatched
<1>20. /\ m_packets' \in Seq(PacketType) /\ Len(m_packets') = L - n + 1
       /\ m_stored_bytes' = Bytes(m_packets')
  <2>1. p.length \in Nat
    <3>1. p.length \in Lengths
      BY DEF PacketType
    <3> QED
      BY <3>1, Numbers
  <2>2. Bytes(m_packets') = Bytes(kept) + p.length
    BY <1>16, <1>18, AppendBytes
  <2>3. m_stored_bytes' = Bytes(m_packets')
    <3>1. Bytes(m_packets) \in Nat
      BY <1>1, BytesType
    <3> QED
      BY <1>1, <1>9, <1>16, <2>1, <2>2, <3>1
  <2>4. m_packets' \in Seq(PacketType) /\ Len(m_packets') = Len(kept) + 1
    BY <1>16, <1>18, AppendProperties
  <2> QED
    BY <1>9, <2>3, <2>4
<1>21. Listed(m_packets', m_timers', m_stored_bytes')
  BY <1>19, <1>20 DEF Listed
<1>22. Fits(m_packets', m_stored_bytes')
  <2>1. CASE FitsAfter(n, p.length)
    <3>1. m_stored_bytes + p.length - b <= Capacity
      BY <1>8, <2>1 DEF FitsAfter
    <3>2. m_stored_bytes \in Nat /\ p.length \in Int
      <4>1. p.length \in Lengths
        BY DEF PacketType
      <4>2. p.length \in Nat
        BY <4>1, Numbers
      <4>3. m_stored_bytes \in Nat
        BY <1>1, BytesType
      <4> QED
        BY <4>2, <4>3
    <3>3. m_stored_bytes' <= Capacity
      BY <1>9, <1>16, <3>1, <3>2
    <3> QED
      BY <3>3 DEF Fits
  <2>2. CASE n = L
    <3>1. Len(m_packets') = 1
      BY <1>20, <2>2
    <3> QED
      BY <3>1 DEF Fits
  <2> QED
    BY <1>4, <2>1, <2>2
<1> QED
  BY <1>17, <1>21, <1>22

-----------------------------------------------------------------------------
(* The kinds of steps.                                                     *)

\* A packet that is not buffered is given to the buffer.  Within the area CBF
\* does so only while the counter is below its limit.
Contends(p, timeout) ==
  /\ p \in PacketType /\ timeout \in Timeouts \cup {MaxTime}
  /\ ~Buffered(p.id) /\ Contend(p, timeout)
  /\ Algorithm = "CBF" /\ Inside = {TRUE} => Counter(p.id) < MaxCounter

\* A buffered packet leaves without being sent.
Leaves(id) == Buffered(id) /\ Remove(id) /\ UNCHANGED history

\* A duplicate restarts a timer.
Restarts(id, timeout) ==
  /\ Algorithm = "ADVANCED" /\ TRUE \in Inside
  /\ id \in Ids /\ timeout \in Timeouts
  /\ Buffered(id) /\ Counter(id) < MaxCounter /\ UpdateTimer(id, timeout)

Step ==
  \/ UNCHANGED vars
  \/ \E p, timeout : Contends(p, timeout)
  \/ \E id : Leaves(id)
  \/ \E id, timeout : Restarts(id, timeout)
  \/ \E d \in 1 .. MaxJump : Tick(d)
  \/ Flush

LEMMA PacketIn ==
  ASSUME NEW id \in Ids, NEW length \in Lengths, NEW lifetime \in Lifetimes,
         NEW silent \in BOOLEAN
  PROVE  Packet(id, length, lifetime, silent) \in PacketType
         /\ Packet(id, length, lifetime, silent).id = id
<1>1. lifetime \in Nat
  BY Numbers
<1> QED
  BY <1>1 DEF Packet, PacketType

LEMMA ReceiveSteps ==
  ASSUME NEW id \in Ids, NEW length \in Lengths, NEW lifetime \in Lifetimes,
         NEW timeout \in Timeouts, Receive(id, length, lifetime, timeout)
  PROVE  Step
<1> DEFINE packet(silent) == Packet(id, length, lifetime, silent)
<1>1. \A silent \in BOOLEAN : packet(silent) \in PacketType /\ packet(silent).id = id
  BY PacketIn
<1>2. timeout \in Timeouts \cup {MaxTime} /\ MaxTime \in Timeouts \cup {MaxTime}
  OBVIOUS
<1> HIDE DEF packet
<1>3. ASSUME NEW silent \in BOOLEAN, NEW t \in Timeouts \cup {MaxTime}, ~Buffered(id),
             Contend(packet(silent), t),
             Algorithm = "CBF" /\ Inside = {TRUE} => Counter(id) < MaxCounter
      PROVE  Step
  <2>1. Contends(packet(silent), t)
    BY <1>1, <1>3 DEF Contends
  <2> QED
    BY <2>1 DEF Step
<1>4. ASSUME Buffered(id), Suppress(id)
      PROVE  Step
  BY <1>4 DEF Step, Leaves, Suppress
<1>5. ASSUME Ignore
      PROVE  Step
  BY <1>5 DEF Step, Ignore
<1>6. CASE \E known, progress \in BOOLEAN :
             FALSE \in Inside /\ NonAreaCbf(id, length, lifetime, timeout, known, progress)
  <2>1. Inside # {TRUE}
    BY <1>6
  <2>2. \/ Buffered(id) /\ Suppress(id)
        \/ Ignore
        \/ ~Buffered(id) /\ Contend(packet(FALSE), timeout)
        \/ ~Buffered(id) /\ Contend(packet(FALSE), MaxTime)
    BY <1>6 DEF NonAreaCbf, packet
  <2> QED
    BY <1>2, <1>3, <1>4, <1>5, <2>1, <2>2
<1>7. CASE AreaCbf(id, length, lifetime, timeout)
  <2>1. \/ Buffered(id) /\ Suppress(id)
        \/ Ignore
        \/ ~Buffered(id) /\ Counter(id) < MaxCounter /\ Contend(packet(FALSE), timeout)
    BY <1>7 DEF AreaCbf, packet
  <2> QED
    BY <1>2, <1>3, <1>4, <1>5, <2>1
<1>8. CASE /\ Algorithm = "ADVANCED" /\ TRUE \in Inside /\ Buffered(id)
           /\ \E outside \in BOOLEAN : AreaAdvancedBuffered(id, timeout, outside)
  <2>1. \/ Suppress(id)
        \/ Counter(id) < MaxCounter /\ UpdateTimer(id, timeout)
    BY <1>8 DEF AreaAdvancedBuffered
  <2>2. CASE Suppress(id)
    BY <1>4, <1>8, <2>2
  <2>3. CASE Counter(id) < MaxCounter /\ UpdateTimer(id, timeout)
    <3>1. Restarts(id, timeout)
      BY <1>8, <2>3 DEF Restarts
    <3> QED
      BY <3>1 DEF Step
  <2> QED
    BY <2>1, <2>2, <2>3
<1>9. CASE /\ Algorithm = "ADVANCED" /\ ~Buffered(id)
           /\ \E to_us, greedy_broadcast \in BOOLEAN :
                AreaAdvancedNew(id, length, lifetime, timeout, to_us, greedy_broadcast)
  <2>1. Algorithm # "CBF"
    BY <1>9
  <2>2. \/ \E silent \in BOOLEAN : Contend(packet(silent), MaxTime)
        \/ Contend(packet(FALSE), timeout)
    BY <1>9 DEF AreaAdvancedNew, packet
  <2> QED
    BY <1>2, <1>3, <1>9, <2>1, <2>2
<1> QED
  BY <1>5, <1>6, <1>7, <1>8, <1>9 DEF Receive

LEMMA NextSteps ==
  ASSUME [Next]_vars
  PROVE  Step
<1>1. CASE UNCHANGED vars
  BY <1>1 DEF Step
<1>2. CASE \E id \in Ids, length \in Lengths, lifetime \in Lifetimes, timeout \in Timeouts :
             Receive(id, length, lifetime, timeout)
  BY <1>2, ReceiveSteps
<1>3. CASE \E id \in Ids : Fetch(id)
  BY <1>3 DEF Fetch, Step, Leaves
<1>4. CASE \E d \in 1 .. MaxJump : Tick(d)
  BY <1>4 DEF Step
<1>5. CASE Flush
  BY <1>5 DEF Step
<1> QED
  BY <1>1, <1>2, <1>3, <1>4, <1>5 DEF Next

-----------------------------------------------------------------------------
(* The duplicate counters.                                                 *)

CounterType == [value : 1 .. MaxCounter, expiry : Int]

Counted(cs) == DOMAIN cs \subseteq Ids /\ \A x \in DOMAIN cs : cs[x] \in CounterType

LEMMA WithoutCounted ==
  ASSUME NEW cs, Counted(cs), NEW ids
  PROVE  Counted(Without(cs, ids)) /\ Counted(CounterRemove(cs, ids))
BY DEF Counted, Without, CounterRemove

\* One more than before, up to the limit.
LEMMA OneMoreOf ==
  ASSUME NEW cs, Counted(cs), NEW id
  PROVE  /\ OneMore(cs, id) \in 1 .. MaxCounter
         /\ id \in DOMAIN cs /\ cs[id].value < MaxCounter => OneMore(cs, id) = cs[id].value + 1
<1>1. MaxCounter \in Nat /\ MaxCounter >= 1
  BY Numbers
<1>2. PICK v \in Nat : v = IF id \in DOMAIN cs THEN cs[id].value ELSE 0
  BY <1>1 DEF Counted, CounterType
<1>3. OneMore(cs, id) = IF MaxCounter <= 1 + v THEN MaxCounter ELSE 1 + v
  <2>1. OneMore(cs, id) = Min({MaxCounter, 1 + v})
    BY <1>2 DEF OneMore
  <2>2. MaxCounter \in Int /\ 1 + v \in Int
    BY <1>1
  <2>3. Min({MaxCounter, 1 + v}) = IF MaxCounter <= 1 + v THEN MaxCounter ELSE 1 + v
    BY <2>2, PairExtrema
  <2> QED
    BY <2>1, <2>3
<1>4. OneMore(cs, id) \in 1 .. MaxCounter
  BY <1>1, <1>3
<1>5. ASSUME id \in DOMAIN cs, cs[id].value < MaxCounter
      PROVE  OneMore(cs, id) = cs[id].value + 1
  <2>1. v < MaxCounter /\ cs[id].value = v
    BY <1>2, <1>5
  <2> QED
    BY <1>1, <1>3, <2>1
<1> QED
  BY <1>4, <1>5

LEMMA UpdateCounted ==
  ASSUME NEW cs, Counted(cs), NEW id \in Ids, NEW v \in 1 .. MaxCounter, NEW e \in Int
  PROVE  Counted(Update(cs, id, [value |-> v, expiry |-> e]))
<1>1. [value |-> v, expiry |-> e] \in CounterType
  BY DEF CounterType
<1> QED
  BY <1>1 DEF Counted, Update

LEMMA AddCounted ==
  ASSUME NEW cs, Counted(cs), NEW id \in Ids
  PROVE  Counted(CounterAdd(cs, id))
<1>1. CounterLifetime \in Int /\ 1 \in 1 .. MaxCounter
  BY Numbers
<1>2. OneMore(cs, id) \in 1 .. MaxCounter
  BY OneMoreOf
<1>3. CASE Fading
  <2>1. PICK a : a = Update(cs, id, [value |-> OneMore(cs, id), expiry |-> CounterLifetime])
    OBVIOUS
  <2>2. Counted(a)
    BY <1>1, <1>2, <2>1, UpdateCounted
  <2>3. CounterAdd(cs, id) = Without(a, {x \in DOMAIN a : Expired(a[x])})
    BY <1>3, <2>1 DEF CounterAdd
  <2> QED
    BY <2>2, <2>3, WithoutCounted
<1>4. CASE ~Fading
  <2>1. CounterAdd(cs, id) = Update(cs, id, [value |-> 1, expiry |-> CounterLifetime])
    BY <1>4 DEF CounterAdd
  <2> QED
    BY <1>1, <2>1, UpdateCounted
<1> QED
  BY <1>3, <1>4

LEMMA IncrementCounted ==
  ASSUME NEW cs, Counted(cs), NEW id \in Ids
  PROVE  Counted(CounterIncrement(cs, id))
<1>1. PICK e : e = IF id \in DOMAIN cs /\ ~Expired(cs[id]) THEN cs[id].expiry
                   ELSE CounterLifetime
  OBVIOUS
<1>2. e \in Int
  <2>1. CounterLifetime \in Int
    BY Numbers
  <2>2. id \in DOMAIN cs => cs[id].expiry \in Int
    BY DEF Counted, CounterType
  <2> QED
    BY <1>1, <2>1, <2>2
<1>3. OneMore(cs, id) \in 1 .. MaxCounter
  BY OneMoreOf
<1>4. CounterIncrement(cs, id) = Update(cs, id, [value |-> OneMore(cs, id), expiry |-> e])
  BY <1>1 DEF CounterIncrement
<1> QED
  BY <1>2, <1>3, <1>4, UpdateCounted

-----------------------------------------------------------------------------
(* The invariant of the buffer.                                            *)

\* While a packet is buffered, the runtime has a timer.
Awaited(timers, timer) ==
  /\ timer \in Int \cup {Off}
  /\ DOMAIN timers # {} => timer \in Int

Core ==
  /\ Listed(m_packets, m_timers, m_stored_bytes) /\ Fits(m_packets, m_stored_bytes)
  /\ Counted(m_counters)
  /\ Awaited(m_timers, scheduled)

LEMMA RemoveCore ==
  ASSUME Core, NEW id, Leaves(id)
  PROVE  Core'
<1>1. Buffered(id) /\ Remove(id)
  BY DEF Leaves
<1>2. /\ Listed(m_packets', m_timers', m_stored_bytes') /\ Fits(m_packets', m_stored_bytes')
      /\ m_timers' = Without(m_timers, {id})
  BY <1>1, RemoveListed DEF Core
<1>3. Counted(m_counters')
  <2>1. m_counters' = CounterRemove(m_counters, {id})
    BY <1>1 DEF Remove
  <2> QED
    BY <2>1, WithoutCounted DEF Core
<1>4. scheduled' \in Int
  <2>1. scheduled \in Int
    BY <1>1 DEF Core, Awaited, Buffered
  <2>2. CASE DOMAIN m_timers' # {} /\ scheduled' = Earliest(m_timers')
    <3>1. Timed(m_timers')
      BY <1>2 DEF Listed
    <3> QED
      BY <2>2, <3>1, EarliestFirst
  <2>3. CASE scheduled' = scheduled
    BY <2>1, <2>3
  <2> QED
    BY <1>1, <2>2, <2>3 DEF Remove
<1> QED
  BY <1>2, <1>3, <1>4 DEF Core, Awaited

LEMMA AddCore ==
  ASSUME Core, NEW p, NEW timeout, Contends(p, timeout)
  PROVE  Core'
<1>1. p \in PacketType /\ ~Buffered(p.id) /\ Add(p, timeout) /\ timeout \in Nat
  BY Numbers DEF Contends, Contend
<1>2. CASE timeout <= 0
  <2>1. UNCHANGED <<m_packets, m_timers, m_stored_bytes, m_counters, scheduled>>
    BY <1>1, <1>2 DEF Add, buffer
  <2> QED
    BY <2>1 DEF Core
<1>3. CASE ~(timeout <= 0)
  <2>1. timeout > 0
    BY <1>1, <1>3
  <2>2. /\ Listed(m_packets', m_timers', m_stored_bytes') /\ Fits(m_packets', m_stored_bytes')
        /\ \E gone : Added(p.id, timeout, gone)
    BY <1>1, <2>1, AddListed DEF Core
  <2>3. PICK gone : Added(p.id, timeout, gone)
    BY <2>2
  <2>4. p.id \in Ids
    BY <1>1 DEF PacketType
  <2>5. Counted(m_counters')
    <3>1. Counted(CounterRemove(m_counters, gone))
      BY WithoutCounted DEF Core
    <3>2. m_counters' = CounterAdd(CounterRemove(m_counters, gone), p.id)
      BY <2>3 DEF Added
    <3> QED
      BY <2>4, <3>1, <3>2, AddCounted
  <2>6. scheduled' \in Int
    <3>1. Timed(m_timers') /\ DOMAIN m_timers' # {}
      BY <2>2, <2>3 DEF Listed, Added, Update
    <3>2. CASE scheduled' = Earliest(m_timers')
      BY <3>1, <3>2, EarliestFirst
    <3>3. CASE scheduled' = scheduled /\ DOMAIN m_timers # {}
      BY <3>3 DEF Core, Awaited
    <3>4. \/ scheduled' = Earliest(m_timers')
          \/ scheduled' = scheduled /\ DOMAIN m_timers # {}
      BY <2>3 DEF Added, FirstChanged
    <3> QED
      BY <3>2, <3>3, <3>4
  <2> QED
    BY <2>2, <2>5, <2>6 DEF Core, Awaited
<1> QED
  BY <1>2, <1>3

LEMMA LifetimeIsNumber ==
  ASSUME NEW lifetime \in Nat, NEW queued \in Nat
  PROVE  ReducedLifetime(lifetime, queued) \in Nat
<1> DEFINE d == lifetime - queued
<1>1. Quantum \in Nat /\ Quantum > 0
  BY QuantumAssumption
<1>2. ASSUME queued < lifetime
      PROVE  Encode(d) \in Nat
  <2>1. 2 * d + Quantum \in Nat /\ 2 * Quantum \in Nat /\ 2 * Quantum > 0
    BY <1>1, <1>2
  <2> HIDE DEF d
  <2>2. PICK a \in Nat : a = 2 * d + Quantum
    BY <2>1
  <2>3. PICK b \in Nat : b = 2 * Quantum /\ b > 0
    BY <2>1
  <2>4. a \div b \in Nat
    BY <2>3
  <2>5. PICK k \in Nat : k = (2 * d + Quantum) \div (2 * Quantum)
    BY <2>2, <2>3, <2>4
  <2>6. k * Quantum \in Nat
    BY <1>1
  <2> QED
    BY <2>5, <2>6 DEF Encode
<1> HIDE DEF d
<1> QED
  BY <1>2 DEF ReducedLifetime, d

LEMMA RestartCore ==
  ASSUME Core, NEW id, NEW timeout, Restarts(id, timeout)
  PROVE  Core'
<1>1. /\ m_packets \in Seq(PacketType) /\ Matched(m_packets, m_timers) /\ Timed(m_timers)
      /\ m_stored_bytes = Bytes(m_packets) /\ Fits(m_packets, m_stored_bytes)
  BY DEF Core, Listed
<1>2. Buffered(id) /\ UpdateTimer(id, timeout) /\ id \in Ids /\ timeout \in Nat
  BY Numbers DEF Restarts
<1>3. PICK k \in 1 .. Len(m_packets) : k = Position(id) /\ m_packets[k].id = id
  BY <1>1, <1>2, PositionOf
<1>4. PICK n : n = ReducedLifetime(m_packets[k].lifetime, m_timers[id].queued)
  OBVIOUS
<1>5. n \in Nat
  <2>1. m_packets[k].lifetime \in Nat
    BY <1>1, Typed
  <2>2. m_timers[id].queued \in Nat
    BY <1>1, <1>2 DEF Timed, Buffered
  <2> QED
    BY <1>4, <2>1, <2>2, LifetimeIsNumber
<1>6. PICK q : q = [m_packets[k] EXCEPT !.lifetime = n]
  OBVIOUS
<1>7. q \in PacketType /\ q.id = m_packets[k].id /\ q.length = m_packets[k].length
  <2>1. m_packets[k] \in PacketType
    BY <1>1, Typed
  <2> QED
    BY <1>5, <1>6, <2>1 DEF PacketType
<1>8. PICK s : s = [m_packets EXCEPT ![k] = q]
  OBVIOUS
<1>9. /\ s \in Seq(PacketType) /\ Len(s) = Len(m_packets)
      /\ \A j \in 1 .. Len(m_packets) : s[j] = IF j = k THEN q ELSE m_packets[j]
  BY <1>1, <1>7, <1>8, ExceptSeq
<1>10. \A j \in 1 .. Len(m_packets) :
         s[j].id = m_packets[j].id /\ s[j].length = m_packets[j].length
  BY <1>7, <1>9
<1>11. /\ m_packets' = s
       /\ m_timers' = [m_timers EXCEPT ![id] = [expiry |-> timeout, queued |-> 0]]
       /\ m_counters' = CounterIncrement(m_counters, id)
       /\ UNCHANGED <<m_stored_bytes, scheduled>>
  BY <1>2, <1>3, <1>4, <1>6, <1>8 DEF UpdateTimer
<1>12. DOMAIN m_timers' = DOMAIN m_timers /\ Timed(m_timers')
  <2>1. [expiry |-> timeout, queued |-> 0] \in [expiry : Int, queued : Nat]
    BY <1>2
  <2> QED
    BY <1>1, <1>11, <2>1 DEF Timed
<1>13. Matched(m_packets', m_timers')
  <2>1. Len(s) = Len(m_packets) /\ \A j \in 1 .. Len(m_packets) : s[j].id = m_packets[j].id
    BY <1>9, <1>10
  <2>2. \A i \in 1 .. Len(s) : s[i].id \in DOMAIN m_timers
    BY <1>1, <2>1 DEF Matched
  <2>3. \A x \in DOMAIN m_timers : \E i \in 1 .. Len(s) : s[i].id = x
    BY <1>1, <2>1 DEF Matched
  <2>4. \A i, j \in 1 .. Len(s) : s[i].id = s[j].id => i = j
    <3>1. \A i, j \in 1 .. Len(m_packets) : m_packets[i].id = m_packets[j].id => i = j
      BY <1>1 DEF Matched
    <3> QED
      BY <2>1, <3>1
  <2> QED
    BY <1>11, <1>12, <2>2, <2>3, <2>4 DEF Matched
<1>14. Bytes(s) = Bytes(m_packets)
  BY <1>1, <1>9, <1>10, SameBytes
<1>15. Listed(m_packets', m_timers', m_stored_bytes') /\ Fits(m_packets', m_stored_bytes')
  BY <1>1, <1>9, <1>11, <1>12, <1>13, <1>14 DEF Listed, Fits
<1>16. Counted(m_counters')
  BY <1>2, <1>11, IncrementCounted DEF Core
<1>17. Awaited(m_timers', scheduled')
  BY <1>11, <1>12 DEF Core, Awaited
<1> QED
  BY <1>15, <1>16, <1>17 DEF Core

LEMMA TickCore ==
  ASSUME Core, NEW d \in 1 .. MaxJump, Tick(d)
  PROVE  Core'
<1>1. /\ m_packets' = m_packets /\ m_stored_bytes' = m_stored_bytes
      /\ scheduled' = Elapse(scheduled, d)
      /\ m_timers' = [x \in DOMAIN m_timers |->
                        [expiry |-> m_timers[x].expiry - d, queued |-> m_timers[x].queued + d]]
  BY DEF Tick
<1>2. d \in Nat
  OBVIOUS
<1>3. DOMAIN m_timers' = DOMAIN m_timers /\ Timed(m_timers')
  <2>1. Timed(m_timers)
    BY DEF Core, Listed
  <2> QED
    BY <1>1, <1>2, <2>1 DEF Timed
<1>4. Listed(m_packets', m_timers', m_stored_bytes') /\ Fits(m_packets', m_stored_bytes')
  BY <1>1, <1>3 DEF Core, Listed, Matched, Fits
<1>5. Counted(m_counters')
  <2>1. m_counters' = [x \in DOMAIN m_counters |->
                         [m_counters[x] EXCEPT !.expiry = IF Fading /\ @ >= 0 THEN @ - d ELSE @]]
    BY DEF Tick
  <2>2. \A x \in DOMAIN m_counters : m_counters[x] \in CounterType
    BY DEF Core, Counted
  <2>3. \A x \in DOMAIN m_counters : m_counters'[x] \in CounterType
    BY <1>2, <2>1, <2>2 DEF CounterType
  <2> QED
    BY <2>1, <2>3 DEF Core, Counted
<1>6. Awaited(m_timers', scheduled')
  BY <1>1, <1>2, <1>3, Numbers DEF Core, Awaited, Elapse
<1> QED
  BY <1>4, <1>5, <1>6 DEF Core

LEMMA FlushCore ==
  ASSUME Core, Flush
  PROVE  Core'
<1>1. /\ Listed(m_packets', m_timers', m_stored_bytes') /\ Fits(m_packets', m_stored_bytes')
      /\ m_timers' = Without(m_timers, Ripe)
  BY FlushListed DEF Core
<1>2. Counted(m_counters')
  <2>1. m_counters' = CounterRemove(m_counters, Ripe)
    BY DEF Flush
  <2> QED
    BY <2>1, WithoutCounted DEF Core
<1>3. scheduled' = NextFlush(m_timers')
  BY <1>1 DEF Flush
<1>4. DOMAIN m_timers' # {} => Earliest(m_timers') \in Int
  BY <1>1, EarliestFirst DEF Listed
<1>5. Awaited(m_timers', scheduled')
  BY <1>3, <1>4 DEF Awaited, NextFlush
<1> QED
  BY <1>1, <1>2, <1>5 DEF Core

\* The history variables keep their types.
Recorded == last_sent \in [Ids -> (0 .. MaxAge) \cup {Off}] /\ excess \in [Ids -> Int]

LEMMA BoundedIsNumber ==
  ASSUME NEW x \in Int
  PROVE  /\ Bounded(x) \in Int
         /\ Bounded(x) <= x \/ Bounded(x) = -MaxExcess
         /\ MaxExcess \in Nat
<1>1. MaxExcess \in Nat
  <2>1. Quantum \in Nat /\ MaxCounter \in Nat
    BY Numbers
  <2> QED
    BY <2>1 DEF MaxExcess
<1>2. PICK m \in Nat : m = MaxExcess
  BY <1>1
<1>3. PICK y : y = Min({x, m})
  OBVIOUS
<1>4. y = IF x <= m THEN x ELSE m
  BY <1>3, PairExtrema
<1>5. Max({-m, y}) = IF -m >= y THEN -m ELSE y
  <2>1. -m \in Int /\ y \in Int
    BY <1>4
  <2> QED
    BY <2>1, PairExtrema
<1>6. Bounded(x) = Max({-m, y})
  BY <1>2, <1>3 DEF Bounded
<1> QED
  BY <1>2, <1>4, <1>5, <1>6

LEMMA MaxAgeIsNumber ==
  MaxAge \in Nat /\ MaxAge = CounterLifetime + 2 * MaxTime + MaxJump /\ MaxAge >= 1
BY Numbers DEF MaxAge

LEMMA StepRecorded ==
  ASSUME Core, Recorded, Step
  PROVE  Recorded'
<1>1. CASE UNCHANGED vars
  BY <1>1 DEF Recorded, vars, history
<1>2. CASE \E p, timeout : Contends(p, timeout)
  <2>1. PICK p, timeout : Contends(p, timeout)
    BY <1>2
  <2>2. /\ last_sent' = last_sent
        /\ excess' = IF Buffered(p.id) THEN excess ELSE [excess EXCEPT ![p.id] = 0]
    BY <2>1 DEF Contends, Contend
  <2>3. PICK e : e = [excess EXCEPT ![p.id] = 0]
    OBVIOUS
  <2>4. e \in [Ids -> Int]
    <3>1. p.id \in Ids
      BY <2>1 DEF Contends, PacketType
    <3> QED
      BY <2>3, <3>1 DEF Recorded
  <2>5. excess' \in [Ids -> Int]
    <3>1. CASE Buffered(p.id)
      BY <2>2, <3>1 DEF Recorded
    <3>2. CASE ~Buffered(p.id)
      BY <2>2, <2>3, <2>4, <3>2
    <3> QED
      BY <3>1, <3>2
  <2> QED
    BY <2>2, <2>5 DEF Recorded
<1>3. CASE \E id : Leaves(id)
  BY <1>3 DEF Leaves, Recorded, history
<1>4. CASE \E id, timeout : Restarts(id, timeout)
  <2>1. PICK id, timeout : Restarts(id, timeout)
    BY <1>4
  <2>2. id \in Ids /\ Buffered(id) /\ UpdateTimer(id, timeout)
    BY <2>1 DEF Restarts
  <2>3. m_packets \in Seq(PacketType) /\ Matched(m_packets, m_timers) /\ Timed(m_timers)
    BY DEF Core, Listed
  <2>4. PICK k \in 1 .. Len(m_packets) : k = Position(id)
    BY <2>2, <2>3, PositionOf
  <2>5. PICK l \in Nat : l = m_packets[k].lifetime
    BY <2>3, Typed
  <2>6. PICK q \in Nat : q = m_timers[id].queued
    BY <2>2, <2>3 DEF Timed, Buffered
  <2>7. ReducedLifetime(l, q) \in Nat
    BY LifetimeIsNumber
  <2>8. Remaining(l, q) \in Int
    <3>1. 0 \in Int /\ l - q \in Int
      OBVIOUS
    <3> QED
      BY <3>1, PairExtrema DEF Remaining
  <2>9. excess[id] \in Int
    BY <2>2 DEF Recorded
  <2>10. PICK x \in Int : x = excess[id] + ReducedLifetime(l, q) - Remaining(l, q)
    BY <2>7, <2>8, <2>9
  <2>11. excess' = [excess EXCEPT ![id] = Bounded(x)] /\ last_sent' = last_sent
    BY <2>2, <2>4, <2>5, <2>6, <2>10 DEF UpdateTimer
  <2>12. Bounded(x) \in Int
    BY BoundedIsNumber
  <2> QED
    BY <2>11, <2>12 DEF Recorded
<1>5. CASE \E d \in 1 .. MaxJump : Tick(d)
  <2>1. PICK d \in 1 .. MaxJump : Tick(d)
    BY <1>5
  <2>2. /\ last_sent' = [x \in Ids |-> IF last_sent[x] \in Int
                                       THEN Min({last_sent[x] + d, MaxAge}) ELSE Off]
        /\ excess' = excess
    BY <2>1 DEF Tick
  <2>3. ASSUME NEW x \in Ids, last_sent[x] \in Int
        PROVE  Min({last_sent[x] + d, MaxAge}) \in 0 .. MaxAge
    <3>1. last_sent[x] \in 0 .. MaxAge
      BY <2>3, Numbers DEF Recorded
    <3>2. MaxAge \in Nat
      BY MaxAgeIsNumber
    <3>3. PICK a \in Nat : a = last_sent[x] + d
      BY <3>1, <3>2
    <3>4. Min({a, MaxAge}) = IF a <= MaxAge THEN a ELSE MaxAge
      BY <3>2, PairExtrema
    <3> QED
      BY <3>2, <3>3, <3>4
  <2> QED
    BY <2>2, <2>3 DEF Recorded
<1>6. CASE Flush
  <2>1. /\ \E sent : last_sent' = [x \in Ids |-> IF Fading /\ x \in sent THEN 0 ELSE last_sent[x]]
        /\ excess' = excess
    BY <1>6 DEF Flush
  <2>2. 0 \in 0 .. MaxAge
    BY MaxAgeIsNumber
  <2> QED
    BY <2>1, <2>2 DEF Recorded
<1> QED
  BY <1>1, <1>2, <1>3, <1>4, <1>5, <1>6 DEF Step

-----------------------------------------------------------------------------
(* Theorems about the buffer.                                              *)

\* What the conjuncts of the invariant say of the variables.
LEMMA CoreMeans ==
  ASSUME Core
  PROVE  Consistent /\ FlushIsComing /\ (Recorded => TypeOK)
<1>1. /\ m_packets \in Seq(PacketType) /\ Matched(m_packets, m_timers) /\ Timed(m_timers)
      /\ m_stored_bytes = Bytes(m_packets) /\ Fits(m_packets, m_stored_bytes)
      /\ Counted(m_counters) /\ Awaited(m_timers, scheduled)
  BY DEF Core, Listed
<1>2. DOMAIN m_packets = 1 .. Len(m_packets) /\ Len(m_packets) \in Nat
  BY <1>1, LenProperties
<1>3. {m_packets[i].id : i \in DOMAIN m_packets} = DOMAIN m_timers
  <2>1. \A i \in DOMAIN m_packets : m_packets[i].id \in DOMAIN m_timers
    BY <1>1, <1>2 DEF Matched
  <2>2. \A x \in DOMAIN m_timers : \E i \in DOMAIN m_packets : x = m_packets[i].id
    BY <1>1, <1>2 DEF Matched
  <2> QED
    BY <2>1, <2>2
<1>4. \A i, j \in DOMAIN m_packets : m_packets[i].id = m_packets[j].id => i = j
  BY <1>1, <1>2 DEF Matched
<1>5. Consistent
  BY <1>1, <1>3, <1>4 DEF Consistent, Fits
<1>6. FlushIsComing
  <2>1. ASSUME m_packets # <<>>
        PROVE  scheduled # Off
    <3>1. Len(m_packets) \in Nat \ {0}
      BY <1>1, <2>1, EmptySeq
    <3>2. 1 \in 1 .. Len(m_packets)
      BY <3>1
    <3>3. m_packets[1].id \in DOMAIN m_timers
      BY <1>1, <3>2 DEF Matched
    <3> QED
      BY <1>1, <3>3, Numbers DEF Awaited
  <2> QED
    BY <2>1 DEF FlushIsComing
<1>7. ASSUME Recorded
      PROVE  TypeOK
  <2>1. m_stored_bytes \in Nat
    BY <1>1, BytesType
  <2>2. DOMAIN m_timers \subseteq Ids
        /\ \A x \in DOMAIN m_timers : m_timers[x] \in [expiry : Int, queued : Nat]
    BY <1>1 DEF Timed
  <2>3. DOMAIN m_counters \subseteq Ids
        /\ \A x \in DOMAIN m_counters : m_counters[x] \in [value : 1 .. MaxCounter, expiry : Int]
    BY <1>1 DEF Counted, CounterType
  <2>4. scheduled \in Int \cup {Off}
    BY <1>1 DEF Awaited
  <2> QED
    BY <1>1, <1>7, <2>1, <2>2, <2>3, <2>4 DEF TypeOK, Recorded
<1> QED
  BY <1>5, <1>6, <1>7

LEMMA InitCore ==
  ASSUME Init
  PROVE  Core /\ Recorded
<1>1. /\ m_packets = <<>> /\ m_stored_bytes = 0 /\ scheduled = Off
      /\ m_timers = [x \in {} |-> 0] /\ m_counters = [x \in {} |-> 0]
  BY DEF Init
<1>2. DOMAIN m_timers = {} /\ DOMAIN m_counters = {}
  BY <1>1
<1>3. m_packets \in Seq(PacketType) /\ Len(m_packets) = 0
  BY <1>1, EmptySeq
<1>4. Bytes(m_packets) = 0
  BY <1>3, BytesType
<1>5. Matched(m_packets, m_timers) /\ Timed(m_timers) /\ Counted(m_counters)
  BY <1>2, <1>3 DEF Matched, Timed, Counted
<1>6. Fits(m_packets, m_stored_bytes)
  BY <1>1, Numbers DEF Fits
<1>7. Awaited(m_timers, scheduled)
  BY <1>1, <1>2 DEF Awaited
<1>8. Recorded
  <2>1. last_sent = [x \in Ids |-> Off] /\ excess = [x \in Ids |-> 0]
    BY DEF Init
  <2> QED
    BY <2>1 DEF Recorded
<1> QED
  BY <1>1, <1>3, <1>4, <1>5, <1>6, <1>7, <1>8 DEF Core, Listed

LEMMA StepCore ==
  ASSUME Core, Step
  PROVE  Core'
<1>1. CASE UNCHANGED vars
  <2>1. UNCHANGED <<m_packets, m_timers, m_stored_bytes, m_counters, scheduled>>
    BY <1>1 DEF vars, buffer
  <2> QED
    BY <2>1 DEF Core
<1> QED
  BY <1>1, AddCore, RemoveCore, RestartCore, TickCore, FlushCore DEF Step

\* Every variable keeps its type: a lifetime that is reduced while the packet
\* waits stays a number of ticks, and no counter is below 1 or above the limit.
THEOREM BufferTyped == Spec => []TypeOK
<1>1. Init => Core /\ Recorded
  BY InitCore
<1>2. Core /\ Recorded /\ [Next]_vars => (Core /\ Recorded)'
  <2> SUFFICES ASSUME Core, Recorded, [Next]_vars
               PROVE  Core' /\ Recorded'
    OBVIOUS
  <2> QED
    BY NextSteps, StepCore, StepRecorded
<1>3. Core /\ Recorded => TypeOK
  BY CoreMeans
<1> QED
  BY <1>1, <1>2, <1>3, PTL DEF Spec

\* add() with head drop, update(), remove(), fetch() and flush(), in any order,
\* keep list, timers and byte count in step (the asserts of add() and remove()),
\* and the bytes within the capacity, but for one packet larger than it.
THEOREM BufferConsistent == Spec => []Consistent
<1>1. Init => Core
  BY InitCore
<1>2. Core /\ [Next]_vars => Core'
  BY NextSteps, StepCore
<1>3. Core => Consistent
  BY CoreMeans
<1> QED
  BY <1>1, <1>2, <1>3, PTL DEF Spec

\* Whatever head drop, suppression and late timer updates do, a buffered packet
\* has a call of flush() ahead of it: also when the comparison with the erased
\* iterator goes wrong, and when update() leaves the runtime's timer behind.
THEOREM FlushAwaited == Spec => []FlushIsComing
<1>1. Init => Core
  BY InitCore
<1>2. Core /\ [Next]_vars => Core'
  BY NextSteps, StepCore
<1>3. Core => FlushIsComing
  BY CoreMeans
<1> QED
  BY <1>1, <1>2, <1>3, PTL DEF Spec

-----------------------------------------------------------------------------
(* Rounding of lifetimes.                                                  *)

LEMMA Quotient ==
  ASSUME NEW a \in Nat, NEW b \in Nat \ {0}
  PROVE  a \div b \in Nat /\ b * (a \div b) <= a /\ a < b * (a \div b) + b
<1>1. /\ a \div b \in Int /\ a % b \in 0 .. b - 1
      /\ a = b * (a \div b) + (a % b)
  OBVIOUS
<1>2. PICK k \in Int : k = a \div b
  BY <1>1
<1>3. PICK m \in Int : m = b * k
  BY <1>2
<1>4. m <= a /\ a < m + b
  BY <1>1, <1>2, <1>3
<1> QED
  BY <1>1, <1>2, <1>3, <1>4

\* Writing what is left of a lifetime to the header, as reduce_lifetime() does,
\* adds or takes at most half a step of the field.
THEOREM ReducedWithinHalfStep ==
  ASSUME NEW lifetime \in Nat, NEW queued \in Nat
  PROVE  /\ 2 * ReducedLifetime(lifetime, queued) <= 2 * Remaining(lifetime, queued) + Quantum
         /\ 2 * Remaining(lifetime, queued) <= 2 * ReducedLifetime(lifetime, queued) + Quantum
<1>1. Quantum \in Nat /\ Quantum > 0
  BY QuantumAssumption
<1>2. Remaining(lifetime, queued) = IF 0 >= lifetime - queued THEN 0 ELSE lifetime - queued
  <2>1. 0 \in Int /\ lifetime - queued \in Int
    OBVIOUS
  <2> QED
    BY <2>1, PairExtrema DEF Remaining
<1>3. CASE queued <= 0
  <2>1. queued = 0
    BY <1>3
  <2>2. ReducedLifetime(lifetime, queued) = lifetime
    BY <2>1 DEF ReducedLifetime
  <2>3. Remaining(lifetime, queued) = lifetime
    BY <1>2, <2>1
  <2> QED
    BY <1>1, <2>2, <2>3
<1>4. CASE ~(queued <= 0) /\ queued < lifetime
  <2>1. PICK d \in Nat : d = lifetime - queued
    BY <1>4
  <2>2. PICK a \in Nat : a = 2 * d + Quantum
    BY <1>1
  <2>3. PICK b \in Nat \ {0} : b = 2 * Quantum
    BY <1>1
  <2>4. PICK k \in Nat : k = a \div b /\ b * k <= a /\ a < b * k + b
    BY Quotient
  <2>5. PICK r \in Nat : r = k * Quantum
    BY <1>1
  <2>6. b * k = 2 * r
    BY <1>1, <2>3, <2>5
  <2>7. ReducedLifetime(lifetime, queued) = r
    BY <1>4, <2>1, <2>2, <2>3, <2>4, <2>5 DEF ReducedLifetime, Encode
  <2>8. Remaining(lifetime, queued) = d
    BY <1>2, <1>4, <2>1
  <2>9. 2 * r <= 2 * d + Quantum /\ 2 * d + Quantum < 2 * r + 2 * Quantum
    BY <2>2, <2>3, <2>4, <2>6
  <2> QED
    BY <1>1, <2>7, <2>8, <2>9
<1>5. CASE ~(queued <= 0) /\ ~(queued < lifetime)
  <2>1. ReducedLifetime(lifetime, queued) = 0
    BY <1>5 DEF ReducedLifetime
  <2>2. Remaining(lifetime, queued) = 0
    BY <1>2, <1>5
  <2> QED
    BY <1>1, <2>1, <2>2
<1> QED
  BY <1>3, <1>4, <1>5

\* A buffered packet has a contending counter, and every unit of it above the
\* first stands for half a step that its lifetime may have gained.
Gained(gain, counter) == 2 * gain <= Quantum * (counter.value - 1)

Gains ==
  \A x \in DOMAIN m_timers : x \in DOMAIN m_counters /\ Gained(excess[x], m_counters[x])

\* The packets that stay keep their counters and gains.
LEMMA FewerGains ==
  ASSUME Gains, NEW ids, m_timers' = Without(m_timers, ids),
         m_counters' = Without(m_counters, ids), excess' = excess
  PROVE  Gains'
BY DEF Gains, Without

LEMMA AddGains ==
  ASSUME Core, Recorded, Gains, ~Fading, NEW p, NEW timeout, Contends(p, timeout)
  PROVE  Gains'
<1>1. p \in PacketType /\ ~Buffered(p.id) /\ Add(p, timeout) /\ timeout \in Nat
  BY Numbers DEF Contends, Contend
<1>2. p.id \in Ids /\ p.id \notin DOMAIN m_timers
  BY <1>1 DEF PacketType, Buffered
<1>3. excess' = [excess EXCEPT ![p.id] = 0]
  BY <1>1 DEF Contends, Contend
<1>4. excess'[p.id] = 0 /\ \A x \in Ids : x # p.id => excess'[x] = excess[x]
  BY <1>2, <1>3 DEF Recorded
<1>5. DOMAIN m_timers \subseteq Ids
  BY DEF Core, Listed, Timed
<1>6. CASE timeout <= 0
  <2>1. UNCHANGED <<m_timers, m_counters>>
    BY <1>1, <1>6 DEF Add, buffer
  <2> QED
    BY <1>2, <1>4, <1>5, <2>1 DEF Gains
<1>7. CASE ~(timeout <= 0)
  <2>1. timeout > 0
    BY <1>1, <1>7
  <2>2. PICK gone : Added(p.id, timeout, gone)
    BY <1>1, <2>1, AddListed DEF Core
  <2>3. PICK c : c = [value |-> 1, expiry |-> CounterLifetime]
    OBVIOUS
  <2>4. /\ m_timers' = Update(Without(m_timers, gone), p.id, [expiry |-> timeout, queued |-> 0])
        /\ m_counters' = Update(Without(m_counters, gone), p.id, c)
    BY <2>2, <2>3 DEF Added, CounterAdd, CounterRemove
  <2>5. DOMAIN m_timers' = (DOMAIN m_timers \ gone) \cup {p.id}
    BY <2>4 DEF Update, Without
  <2>6. /\ DOMAIN m_counters' = (DOMAIN m_counters \ gone) \cup {p.id}
        /\ m_counters'[p.id] = c
        /\ \A x \in DOMAIN m_counters \ gone : x # p.id => m_counters'[x] = m_counters[x]
    BY <2>4 DEF Update, Without
  <2>7. Gained(0, c)
    <3>1. Quantum \in Nat /\ c.value = 1
      BY <2>3, QuantumAssumption
    <3> QED
      BY <3>1 DEF Gained
  <2>8. ASSUME NEW x \in DOMAIN m_timers'
        PROVE  x \in DOMAIN m_counters' /\ Gained(excess'[x], m_counters'[x])
    <3>1. CASE x = p.id
      BY <1>4, <2>6, <2>7, <3>1
    <3>2. CASE x # p.id
      <4>1. x \in DOMAIN m_timers /\ x \notin gone /\ x \in Ids
        BY <1>5, <2>5, <3>2
      <4>2. x \in DOMAIN m_counters /\ Gained(excess[x], m_counters[x])
        BY <4>1 DEF Gains
      <4> QED
        BY <1>4, <2>6, <3>2, <4>1, <4>2
    <3> QED
      BY <3>1, <3>2
  <2> QED
    BY <2>8 DEF Gains
<1> QED
  BY <1>6, <1>7

LEMMA RestartGains ==
  ASSUME Core, Recorded, Gains, ~Fading, NEW id, NEW timeout, Restarts(id, timeout)
  PROVE  Gains'
<1>1. m_packets \in Seq(PacketType) /\ Matched(m_packets, m_timers) /\ Timed(m_timers)
      /\ Counted(m_counters)
  BY DEF Core, Listed
<1>2. id \in Ids /\ Buffered(id) /\ Counter(id) < MaxCounter /\ UpdateTimer(id, timeout)
  BY DEF Restarts
<1>3. PICK k \in 1 .. Len(m_packets) : k = Position(id)
  BY <1>1, <1>2, PositionOf
<1>4. PICK l \in Nat : l = m_packets[k].lifetime
  BY <1>1, Typed
<1>5. PICK q \in Nat : q = m_timers[id].queued
  BY <1>1, <1>2 DEF Timed, Buffered
<1>6. PICK r \in Nat : r = ReducedLifetime(l, q)
  BY LifetimeIsNumber
<1>7. PICK m \in Int : m = Remaining(l, q)
  <2>1. 0 \in Int /\ l - q \in Int
    OBVIOUS
  <2> QED
    BY <2>1, PairExtrema DEF Remaining
<1>8. PICK e \in Int : e = excess[id]
  BY <1>2 DEF Recorded
<1>9. PICK x \in Int : x = e + r - m
  OBVIOUS
<1>10. excess' = [excess EXCEPT ![id] = Bounded(x)]
  BY <1>2, <1>3, <1>4, <1>5, <1>6, <1>7, <1>8, <1>9 DEF UpdateTimer
<1>11. PICK v \in Nat : /\ v = m_counters[id].value /\ v >= 1 /\ v < MaxCounter
                        /\ id \in DOMAIN m_counters
  <2>1. id \in DOMAIN m_counters
    BY <1>2 DEF Gains, Buffered
  <2>2. m_counters[id].value \in Nat /\ m_counters[id].value >= 1
    BY <1>1, <2>1, Numbers DEF Counted, CounterType
  <2>3. Counter(id) = m_counters[id].value
    BY <2>1 DEF Counter, Expired
  <2> QED
    BY <1>2, <2>1, <2>2, <2>3
<1>12. PICK c : c = m_counters'[id]
  OBVIOUS
<1>13. /\ c.value = v + 1 /\ DOMAIN m_counters' = DOMAIN m_counters
       /\ \A y \in DOMAIN m_counters : y # id => m_counters'[y] = m_counters[y]
  <2>1. m_counters' = CounterIncrement(m_counters, id)
    BY <1>2 DEF UpdateTimer
  <2>2. OneMore(m_counters, id) = v + 1
    BY <1>1, <1>11, OneMoreOf
  <2> QED
    BY <1>11, <1>12, <2>1, <2>2 DEF CounterIncrement, Update
<1>14. Gained(Bounded(x), c)
  <2>1. Quantum \in Nat
    BY QuantumAssumption
  <2>2. PICK g \in Int : g = Quantum * (v - 1)
    BY <2>1, <1>11
  <2>3. PICK h \in Nat : h = Quantum * v
    BY <2>1
  <2>4. g + Quantum = h
    BY <2>1, <2>2, <2>3
  <2>5. 2 * e <= g
    <3>1. Gained(e, m_counters[id])
      BY <1>2, <1>8 DEF Gains, Buffered
    <3> QED
      BY <1>11, <2>2, <3>1 DEF Gained
  <2>6. 2 * r <= 2 * m + Quantum
    BY <1>6, <1>7, ReducedWithinHalfStep
  <2>7. 2 * x <= h
    BY <1>9, <2>1, <2>4, <2>5, <2>6
  <2>8. PICK y \in Int : y = Bounded(x)
    BY BoundedIsNumber
  <2>9. y <= x \/ y = -MaxExcess
    BY <2>8, BoundedIsNumber
  <2>10. MaxExcess \in Nat
    BY BoundedIsNumber
  <2>11. 2 * y <= h
    BY <2>3, <2>7, <2>9, <2>10
  <2>12. Quantum * (c.value - 1) = h
    <3>1. c.value - 1 = v
      BY <1>13
    <3> QED
      BY <2>3, <3>1
  <2> QED
    BY <2>8, <2>11, <2>12 DEF Gained
<1>15. DOMAIN m_timers' = DOMAIN m_timers
  BY <1>2 DEF UpdateTimer
<1>16. ASSUME NEW y \in DOMAIN m_timers'
       PROVE  y \in DOMAIN m_counters' /\ Gained(excess'[y], m_counters'[y])
  <2>1. y \in Ids /\ y \in DOMAIN m_counters /\ Gained(excess[y], m_counters[y])
    BY <1>1, <1>15 DEF Gains, Timed
  <2>2. CASE y = id
    <3>1. excess'[y] = Bounded(x)
      BY <1>2, <1>10, <2>2 DEF Recorded
    <3> QED
      BY <1>12, <1>13, <1>14, <2>1, <2>2, <3>1
  <2>3. CASE y # id
    <3>1. excess'[y] = excess[y]
      BY <1>10, <2>1, <2>3 DEF Recorded
    <3> QED
      BY <1>13, <2>1, <2>3, <3>1
  <2> QED
    BY <2>2, <2>3
<1> QED
  BY <1>16 DEF Gains

LEMMA StepGains ==
  ASSUME Core, Recorded, Gains, ~Fading, Step
  PROVE  Gains'
<1>1. CASE UNCHANGED vars
  BY <1>1 DEF Gains, vars, buffer, history
<1>2. CASE \E p, timeout : Contends(p, timeout)
  BY <1>2, AddGains
<1>3. CASE \E id : Leaves(id)
  <2>1. PICK id : Leaves(id)
    BY <1>3
  <2>2. /\ m_timers' = Without(m_timers, {id}) /\ m_counters' = Without(m_counters, {id})
        /\ excess' = excess
    BY <2>1 DEF Leaves, Remove, CounterRemove, history
  <2> QED
    BY <2>2, FewerGains
<1>4. CASE \E id, timeout : Restarts(id, timeout)
  BY <1>4, RestartGains
<1>5. CASE \E d \in 1 .. MaxJump : Tick(d)
  <2>1. PICK d \in 1 .. MaxJump : Tick(d)
    BY <1>5
  <2>2. /\ DOMAIN m_timers' = DOMAIN m_timers /\ DOMAIN m_counters' = DOMAIN m_counters
        /\ excess' = excess
    BY <2>1 DEF Tick
  <2>3. \A x \in DOMAIN m_counters : m_counters'[x].value = m_counters[x].value
    <3>1. m_counters' = [x \in DOMAIN m_counters |->
                           [m_counters[x] EXCEPT !.expiry = IF Fading /\ @ >= 0 THEN @ - d ELSE @]]
      BY <2>1 DEF Tick
    <3>2. \A x \in DOMAIN m_counters : m_counters[x] \in CounterType
      BY DEF Core, Counted
    <3> QED
      BY <3>1, <3>2 DEF CounterType
  <2> QED
    BY <2>2, <2>3 DEF Gains, Gained
<1>6. CASE Flush
  <2>1. /\ m_timers' = Without(m_timers, Ripe) /\ m_counters' = Without(m_counters, Ripe)
        /\ excess' = excess
    BY <1>6 DEF Flush, CounterRemove
  <2> QED
    BY <2>1, FewerGains
<1> QED
  BY <1>1, <1>2, <1>3, <1>4, <1>5, <1>6 DEF Step

\* With contending counters, the default, rounding gives a buffered packet at
\* most half a step for each of the MaxCounter - 1 updates of its timer.
THEOREM RoundingBounded ==
  ASSUME ~Fading
  PROVE  Spec => []RoundingIsBounded
<1>1. Init => Core /\ Recorded /\ Gains
  <2>1. Init => Gains
    BY DEF Init, Gains
  <2> QED
    BY <2>1, InitCore
<1>2. Core /\ Recorded /\ Gains /\ [Next]_vars => (Core /\ Recorded /\ Gains)'
  <2> SUFFICES ASSUME Core, Recorded, Gains, [Next]_vars
               PROVE  Core' /\ Recorded' /\ Gains'
    OBVIOUS
  <2> QED
    BY NextSteps, StepCore, StepRecorded, StepGains
<1>3. Core /\ Recorded /\ Gains => RoundingIsBounded
  <2> SUFFICES ASSUME Core, Recorded, Gains, NEW i \in DOMAIN m_packets
               PROVE  2 * excess[m_packets[i].id] <= Quantum * (MaxCounter - 1)
    BY DEF RoundingIsBounded
  <2>1. PICK x : x = m_packets[i].id
    OBVIOUS
  <2>2. x \in DOMAIN m_timers /\ x \in Ids
    <3>1. DOMAIN m_packets = 1 .. Len(m_packets)
      BY LenProperties DEF Core, Listed
    <3> QED
      BY <2>1, <3>1 DEF Core, Listed, Matched, Timed
  <2>3. x \in DOMAIN m_counters /\ Gained(excess[x], m_counters[x])
    BY <2>2 DEF Gains
  <2>4. PICK v \in 1 .. MaxCounter : v = m_counters[x].value
    BY <2>3 DEF Core, Counted, CounterType
  <2>5. PICK e \in Int : e = excess[x]
    BY <2>2 DEF Recorded
  <2>6. 2 * e <= Quantum * (v - 1)
    BY <2>3, <2>4, <2>5 DEF Gained
  <2>7. Quantum * (v - 1) <= Quantum * (MaxCounter - 1)
    <3>1. Quantum \in Nat /\ MaxCounter \in Nat /\ v \in Nat /\ v <= MaxCounter
      BY Numbers
    <3>2. PICK n \in Nat : n = MaxCounter - v
      BY <3>1
    <3>3. PICK a \in Int : a = Quantum * (v - 1)
      BY <3>1
    <3>4. PICK b \in Nat : b = Quantum * n
      BY <3>1
    <3>5. Quantum * (MaxCounter - 1) = a + b
      <4>1. MaxCounter - 1 = (v - 1) + n
        BY <3>1, <3>2
      <4> QED
        BY <3>1, <3>3, <3>4, <4>1
    <3> QED
      BY <3>3, <3>4, <3>5
  <2>8. Quantum * (v - 1) \in Int /\ Quantum * (MaxCounter - 1) \in Int
    BY Numbers
  <2> QED
    BY <2>1, <2>5, <2>6, <2>7, <2>8
<1> QED
  BY <1>1, <1>2, <1>3, PTL DEF Spec

-----------------------------------------------------------------------------
(* Packets leave on time.                                                  *)

\* Timers are restarted only by the ADVANCED algorithm within the area.
NoRestarts == ~(Algorithm = "ADVANCED" /\ TRUE \in Inside)

\* Head drop erases the first timer while a packet is added: the comparison
\* with the erased iterator is undefined (cbf_packet_buffer.cpp:120).
ErasesFirst ==
  \E x, y \in Ids : /\ First(x, m_timers) /\ x \notin DOMAIN m_timers'
                    /\ y \in DOMAIN m_timers' \ DOMAIN m_timers

\* The runtime's timer is not later than any packet's.
OnTime == \A x \in DOMAIN m_timers : scheduled <= m_timers[x].expiry

LEMMA FewerOnTime ==
  ASSUME NEW ids, OnTime, m_timers' = Without(m_timers, ids), scheduled' = scheduled
  PROVE  OnTime'
BY DEF OnTime, Without

LEMMA EarliestOnTime ==
  ASSUME Core', scheduled' = Earliest(m_timers')
  PROVE  OnTime'
<1>1. Timed(m_timers')
  BY DEF Core, Listed
<1>2. CASE DOMAIN m_timers' # {}
  BY <1>1, <1>2, EarliestFirst DEF OnTime
<1>3. CASE DOMAIN m_timers' = {}
  BY <1>3 DEF OnTime
<1> QED
  BY <1>2, <1>3

LEMMA AddOnTime ==
  ASSUME Core, Core', OnTime, NEW p, NEW timeout, Contends(p, timeout), ~ErasesFirst
  PROVE  OnTime'
<1>1. p \in PacketType /\ ~Buffered(p.id) /\ Add(p, timeout) /\ timeout \in Nat
  BY Numbers DEF Contends, Contend
<1>2. CASE timeout <= 0
  <2>1. UNCHANGED <<m_timers, scheduled>>
    BY <1>1, <1>2 DEF Add, buffer
  <2> QED
    BY <2>1 DEF OnTime
<1>3. CASE ~(timeout <= 0)
  <2>1. timeout > 0
    BY <1>1, <1>3
  <2>2. PICK gone : Added(p.id, timeout, gone)
    BY <1>1, <2>1, AddListed DEF Core
  <2>3. p.id \in Ids /\ p.id \notin DOMAIN m_timers /\ DOMAIN m_timers \subseteq Ids
    BY <1>1 DEF PacketType, Buffered, Core, Listed, Timed
  <2>4. /\ DOMAIN m_timers' = (DOMAIN m_timers \ gone) \cup {p.id}
        /\ \A x \in DOMAIN m_timers \ gone : m_timers'[x] = m_timers[x]
    BY <2>2, <2>3 DEF Added, Update, Without
  <2>5. ~\E x \in gone : First(x, m_timers)
    BY <2>2, <2>3, <2>4 DEF ErasesFirst, Added
  <2>6. scheduled' = IF FirstChanged(p.id, gone, m_timers') THEN Earliest(m_timers') ELSE scheduled
    BY <2>2, <2>5 DEF Added
  <2>7. CASE FirstChanged(p.id, gone, m_timers')
    BY <2>6, <2>7, EarliestOnTime
  <2>8. CASE ~FirstChanged(p.id, gone, m_timers')
    <3>1. scheduled' = scheduled
      BY <2>6, <2>8
    <3>2. PICK z \in DOMAIN m_timers' \ {p.id} : ~(m_timers'[p.id].expiry < m_timers'[z].expiry)
      BY <2>8 DEF FirstChanged
    <3>3. z \in DOMAIN m_timers /\ z \notin gone
      BY <2>4, <3>2
    <3>4. scheduled \in Int
      BY <3>3 DEF Core, Awaited
    <3>5. \A x \in DOMAIN m_timers' : m_timers'[x].expiry \in Int
      BY DEF Core, Listed, Timed
    <3>6. scheduled <= m_timers'[z].expiry
      BY <2>4, <3>3 DEF OnTime
    <3>7. scheduled <= m_timers'[p.id].expiry
      BY <2>4, <3>2, <3>4, <3>5, <3>6
    <3>8. \A x \in DOMAIN m_timers' : scheduled <= m_timers'[x].expiry
      BY <2>4, <3>7 DEF OnTime
    <3> QED
      BY <3>1, <3>8 DEF OnTime
  <2> QED
    BY <2>7, <2>8
<1> QED
  BY <1>2, <1>3

LEMMA StepOnTime ==
  ASSUME NoRestarts, Core, OnTime, Step, ~ErasesFirst \/ UNCHANGED vars
  PROVE  OnTime'
<1>1. CASE UNCHANGED vars
  BY <1>1 DEF OnTime, vars, buffer
<1>2. Core'
  BY StepCore
<1>3. CASE ~ErasesFirst /\ \E p, timeout : Contends(p, timeout)
  BY <1>2, <1>3, AddOnTime
<1>4. CASE \E id : Leaves(id)
  <2>1. PICK id : Leaves(id)
    BY <1>4
  <2>2. /\ m_timers' = Without(m_timers, {id})
        /\ scheduled' = Earliest(m_timers') \/ scheduled' = scheduled
    BY <2>1 DEF Leaves, Remove
  <2> QED
    BY <1>2, <2>2, EarliestOnTime, FewerOnTime
<1>5. CASE \E d \in 1 .. MaxJump : Tick(d)
  <2>1. PICK d \in 1 .. MaxJump : Tick(d)
    BY <1>5
  <2>2. d \in Int
    OBVIOUS
  <2>3. /\ scheduled' = Elapse(scheduled, d) /\ DOMAIN m_timers' = DOMAIN m_timers
        /\ \A x \in DOMAIN m_timers : m_timers'[x].expiry = m_timers[x].expiry - d
    BY <2>1 DEF Tick
  <2>4. ASSUME NEW x \in DOMAIN m_timers
        PROVE  scheduled' <= m_timers'[x].expiry
    <3>1. scheduled \in Int /\ m_timers[x].expiry \in Int
      BY DEF Core, Listed, Timed, Awaited
    <3>2. scheduled' = scheduled - d
      BY <2>3, <3>1, Numbers DEF Elapse
    <3>3. scheduled <= m_timers[x].expiry
      BY DEF OnTime
    <3> QED
      BY <2>2, <2>3, <3>1, <3>2, <3>3
  <2> QED
    BY <2>3, <2>4 DEF OnTime
<1>6. CASE Flush
  <2>1. scheduled' = NextFlush(m_timers')
    BY <1>6 DEF Flush
  <2>2. CASE DOMAIN m_timers' = {}
    BY <2>2 DEF OnTime
  <2>3. CASE DOMAIN m_timers' # {}
    BY <1>2, <2>1, <2>3, EarliestOnTime DEF NextFlush
  <2> QED
    BY <2>2, <2>3
<1>7. ~\E id, timeout : Restarts(id, timeout)
  BY DEF NoRestarts, Restarts
<1> QED
  BY <1>1, <1>3, <1>4, <1>5, <1>6, <1>7 DEF Step

LEMMA OnTimeMeans ==
  ASSUME Core, OnTime
  PROVE  NothingOverdue
<1> SUFFICES ASSUME ~Due, NEW x \in DOMAIN m_timers
             PROVE  m_timers[x].expiry > 0
  BY DEF NothingOverdue
<1>1. scheduled \in Int /\ m_timers[x].expiry \in Int /\ scheduled <= m_timers[x].expiry
  BY DEF Core, Listed, Timed, Awaited, OnTime
<1>2. scheduled > 0
  BY <1>1, Numbers DEF Due
<1> QED
  BY <1>1, <1>2

\* With CBF a packet leaves the buffer when its timer expires, as long as head
\* drop never erases the first timer while it makes room for a packet.
THEOREM NothingLeftOverdue ==
  ASSUME NoRestarts
  PROVE  Spec /\ [][~ErasesFirst]_vars => []NothingOverdue
<1>1. Init => Core /\ OnTime
  <2>1. Init => OnTime
    BY DEF Init, OnTime
  <2> QED
    BY <2>1, InitCore
<1>2. Core /\ OnTime /\ [Next]_vars /\ [~ErasesFirst]_vars => (Core /\ OnTime)'
  <2> SUFFICES ASSUME Core, OnTime, [Next]_vars, [~ErasesFirst]_vars
               PROVE  Core' /\ OnTime'
    OBVIOUS
  <2>1. Step
    BY NextSteps
  <2> QED
    BY <2>1, StepCore, StepOnTime
<1>3. Core /\ OnTime => NothingOverdue
  BY OnTimeMeans
<1> QED
  BY <1>1, <1>2, <1>3, PTL DEF Spec

-----------------------------------------------------------------------------
(* Broadcasts of the same packet are apart.                                *)

\* CBF within the area, with fading counters and the default limit; no timeout
\* is longer than itsGnCbfMaxTime.
FadingCbf ==
  /\ Fading /\ MaxCounter = 1 /\ Algorithm = "CBF" /\ Inside = {TRUE}
  /\ \A t \in Timeouts : t <= MaxTime

\* A packet stays in the buffer for no longer than this.
Longest == MaxTime + MaxJump - 1

\* The counter of x was started at most t ago; if it is gone, it has lived
\* its lifetime.
Aged(cs, x, t) ==
  /\ x \in DOMAIN cs => CounterLifetime - cs[x].expiry <= t
  /\ x \notin DOMAIN cs => CounterLifetime < t

Past(x, t) == last_sent[x] \in Int => CounterLifetime < last_sent[x] + t

BufferedApart(x) ==
  /\ m_timers[x].expiry > -MaxJump
  /\ m_timers[x].expiry + m_timers[x].queued <= MaxTime
  /\ Aged(m_counters, x, m_timers[x].queued)
  /\ Past(x, Longest)

LeftApart(x) == last_sent[x] \in Int => Aged(m_counters, x, last_sent[x] + Longest)

Apart ==
  /\ \A x \in DOMAIN m_counters : m_counters[x].expiry >= -MaxJump
  /\ \A x \in DOMAIN m_timers : BufferedApart(x)
  /\ \A x \in Ids \ DOMAIN m_timers : LeftApart(x)

LEMMA LongestIsNumber ==
  /\ Longest \in Nat /\ Longest = MaxTime + MaxJump - 1 /\ Longest >= 1
  /\ CounterLifetime \in Nat /\ MaxTime \in Nat /\ MaxTime >= 1 /\ MaxJump \in Nat /\ MaxJump >= 1
BY Numbers DEF Longest

LEMMA AgedLonger ==
  ASSUME NEW cs, Counted(cs), NEW x, NEW t \in Int, NEW u \in Int, t <= u, Aged(cs, x, t)
  PROVE  Aged(cs, x, u)
<1>1. CounterLifetime \in Int
  BY Numbers
<1>2. CASE x \in DOMAIN cs
  <2>1. cs[x].expiry \in Int
    BY <1>2 DEF Counted, CounterType
  <2>2. CounterLifetime - cs[x].expiry <= t
    BY <1>2 DEF Aged
  <2> QED
    BY <1>1, <1>2, <2>1, <2>2 DEF Aged
<1>3. CASE x \notin DOMAIN cs
  BY <1>1, <1>3 DEF Aged
<1> QED
  BY <1>2, <1>3

\* A packet has not been in the buffer for longer than Longest.
LEMMA QueuedAtMost ==
  ASSUME Core, NEW x \in DOMAIN m_timers, BufferedApart(x)
  PROVE  /\ m_timers[x].queued \in Nat /\ m_timers[x].queued <= Longest
         /\ m_timers[x].expiry \in Int
<1>1. m_timers[x].queued \in Nat /\ m_timers[x].expiry \in Int
  BY DEF Core, Listed, Timed
<1> QED
  BY <1>1, LongestIsNumber DEF BufferedApart

LEMMA SentIsNumber ==
  ASSUME Recorded, NEW x \in Ids, last_sent[x] \in Int
  PROVE  last_sent[x] \in Nat /\ last_sent[x] <= MaxAge
<1>1. last_sent[x] \in 0 .. MaxAge
  BY Numbers DEF Recorded
<1> QED
  BY <1>1, MaxAgeIsNumber

\* A packet that leaves the buffer without being sent.
LEMMA LeavesApart ==
  ASSUME Core, Recorded, NEW x \in DOMAIN m_timers, BufferedApart(x)
  PROVE  LeftApart(x)
<1> SUFFICES ASSUME last_sent[x] \in Int
             PROVE  Aged(m_counters, x, last_sent[x] + Longest)
  BY DEF LeftApart
<1>1. x \in Ids
  BY DEF Core, Listed, Timed
<1>2. PICK s \in Nat : s = last_sent[x]
  BY <1>1, SentIsNumber
<1>3. PICK q \in Nat : q = m_timers[x].queued /\ q <= Longest
  BY QueuedAtMost
<1>4. q <= s + Longest /\ s + Longest \in Int /\ q \in Int
  BY <1>3, LongestIsNumber
<1>5. Aged(m_counters, x, q) /\ Counted(m_counters)
  BY <1>3 DEF BufferedApart, Core
<1> QED
  BY <1>2, <1>4, <1>5, AgedLonger

\* What CounterAdd does: the counter of id starts anew, those of others stay
\* unless they have expired.
LEMMA FadingAdd ==
  ASSUME Fading, NEW cs, Counted(cs), NEW id \in Ids
  PROVE  /\ id \in DOMAIN CounterAdd(cs, id)
         /\ CounterAdd(cs, id)[id].expiry = CounterLifetime
         /\ \A x \in DOMAIN CounterAdd(cs, id) :
              x # id => x \in DOMAIN cs /\ CounterAdd(cs, id)[x] = cs[x]
         /\ \A x \in DOMAIN cs : x \notin DOMAIN CounterAdd(cs, id) => cs[x].expiry < 0
<1>1. CounterLifetime \in Nat
  BY Numbers
<1>2. PICK c : c = [value |-> OneMore(cs, id), expiry |-> CounterLifetime]
  OBVIOUS
<1>3. PICK a : a = Update(cs, id, c)
  OBVIOUS
<1>4. /\ DOMAIN a = DOMAIN cs \cup {id} /\ a[id] = c /\ c.expiry = CounterLifetime
      /\ \A x \in DOMAIN cs : x # id => a[x] = cs[x]
  BY <1>2, <1>3 DEF Update
<1>5. PICK b : b = Without(a, {x \in DOMAIN a : a[x].expiry < 0})
  OBVIOUS
<1>6. CounterAdd(cs, id) = b
  BY <1>2, <1>3, <1>5 DEF CounterAdd, Expired
<1>7. /\ DOMAIN b = {x \in DOMAIN a : ~(a[x].expiry < 0)}
      /\ \A x \in DOMAIN b : b[x] = a[x]
  BY <1>5 DEF Without
<1>8. id \in DOMAIN b /\ b[id].expiry = CounterLifetime
  BY <1>1, <1>4, <1>7
<1>9. \A x \in DOMAIN b : x # id => x \in DOMAIN cs /\ b[x] = cs[x]
  BY <1>4, <1>7
<1>10. \A x \in DOMAIN cs : x \notin DOMAIN b => cs[x].expiry < 0
  BY <1>4, <1>7, <1>8
<1> QED
  BY <1>6, <1>8, <1>9, <1>10

LEMMA AgedAfterAdd ==
  ASSUME Fading, NEW cs, Counted(cs), NEW id \in Ids, NEW x, x # id, NEW t \in Int,
         Aged(cs, x, t)
  PROVE  Aged(CounterAdd(cs, id), x, t)
<1>1. PICK a : a = CounterAdd(cs, id)
  OBVIOUS
<1>2. /\ x \in DOMAIN a => x \in DOMAIN cs /\ a[x] = cs[x]
      /\ x \in DOMAIN cs /\ x \notin DOMAIN a => cs[x].expiry < 0
  BY <1>1, FadingAdd
<1>3. CASE x \in DOMAIN a
  BY <1>1, <1>2, <1>3 DEF Aged
<1>4. CASE x \notin DOMAIN a /\ x \in DOMAIN cs
  <2>1. cs[x].expiry \in Int /\ CounterLifetime \in Int
    BY <1>4, Numbers DEF Counted, CounterType
  <2>2. CounterLifetime - cs[x].expiry <= t /\ cs[x].expiry < 0
    BY <1>2, <1>4 DEF Aged
  <2>3. CounterLifetime < t
    BY <2>1, <2>2
  <2> QED
    BY <1>1, <1>4, <2>3 DEF Aged
<1>5. CASE x \notin DOMAIN a /\ x \notin DOMAIN cs
  BY <1>1, <1>5 DEF Aged
<1> QED
  BY <1>3, <1>4, <1>5

\* A packet is taken up again only when its counter has lived its lifetime.
LEMMA TakenUpLate ==
  ASSUME FadingCbf, Core, Recorded, Apart, NEW x \in Ids, ~Buffered(x),
         Counter(x) < MaxCounter
  PROVE  Past(x, Longest)
<1> SUFFICES ASSUME last_sent[x] \in Int
             PROVE  CounterLifetime < last_sent[x] + Longest
  BY DEF Past
<1>1. PICK t \in Int : t = last_sent[x] + Longest
  BY LongestIsNumber
<1>2. Aged(m_counters, x, t)
  BY <1>1 DEF Apart, LeftApart, Buffered
<1>3. CASE x \notin DOMAIN m_counters
  BY <1>1, <1>2, <1>3 DEF Aged
<1>4. CASE x \in DOMAIN m_counters
  <2>1. m_counters[x].value \in 1 .. MaxCounter /\ m_counters[x].expiry \in Int
    BY <1>4 DEF Core, Counted, CounterType
  <2>2. MaxCounter = 1 /\ Fading
    BY DEF FadingCbf
  <2>3. m_counters[x].value = 1
    BY <2>1, <2>2
  <2>4. m_counters[x].expiry < 0
    <3>1. ASSUME ~(m_counters[x].expiry < 0)
          PROVE  FALSE
      <4>1. Counter(x) = 1
        BY <1>4, <2>3, <3>1 DEF Counter, Expired
      <4> QED
        BY <2>2, <4>1
    <3> QED
      BY <3>1
  <2>5. CounterLifetime - m_counters[x].expiry <= t
    BY <1>2, <1>4 DEF Aged
  <2> QED
    BY <1>1, <2>1, <2>4, <2>5, LongestIsNumber
<1> QED
  BY <1>3, <1>4

LEMMA AddApart ==
  ASSUME FadingCbf, Core, Recorded, Apart, NEW p, NEW timeout, Contends(p, timeout)
  PROVE  Apart'
<1>1. /\ p \in PacketType /\ ~Buffered(p.id) /\ Add(p, timeout) /\ timeout \in Nat
      /\ last_sent' = last_sent /\ Counter(p.id) < MaxCounter /\ timeout <= MaxTime
  <2>1. timeout \in Timeouts \cup {MaxTime} /\ MaxTime \in Nat
    BY LongestIsNumber DEF Contends
  <2>2. timeout \in Nat /\ timeout <= MaxTime
    BY <2>1, Numbers DEF FadingCbf
  <2> QED
    BY <2>2 DEF Contends, Contend, FadingCbf
<1>2. CASE timeout <= 0
  <2>1. UNCHANGED <<m_timers, m_counters>>
    BY <1>1, <1>2 DEF Add, buffer
  <2> QED
    BY <1>1, <2>1 DEF Apart, BufferedApart, LeftApart, Past
<1>3. CASE ~(timeout <= 0)
  <2>1. timeout > 0
    BY <1>1, <1>3
  <2>2. PICK gone : Added(p.id, timeout, gone)
    BY <1>1, <2>1, AddListed DEF Core
  <2>3. /\ p.id \in Ids /\ p.id \notin DOMAIN m_timers /\ DOMAIN m_timers \subseteq Ids
        /\ gone \subseteq DOMAIN m_timers /\ Counted(m_counters) /\ Fading
    BY <1>1, <2>2 DEF PacketType, Buffered, Core, Listed, Timed, Added, FadingCbf
  <2>4. PICK r : r = [expiry |-> timeout, queued |-> 0]
    OBVIOUS
  <2>5. m_timers' = Update(Without(m_timers, gone), p.id, r)
    BY <2>2, <2>4 DEF Added
  <2>6. /\ DOMAIN m_timers' = (DOMAIN m_timers \ gone) \cup {p.id}
        /\ m_timers'[p.id] = r
        /\ \A x \in DOMAIN m_timers \ gone : m_timers'[x] = m_timers[x]
    BY <2>3, <2>5 DEF Update, Without
  <2>7. m_counters' = CounterAdd(m_counters, p.id)
    BY <2>2, <2>3 DEF Added, CounterRemove
  <2>8. /\ p.id \in DOMAIN m_counters' /\ m_counters'[p.id].expiry = CounterLifetime
        /\ \A x \in DOMAIN m_counters' :
             x # p.id => x \in DOMAIN m_counters /\ m_counters'[x] = m_counters[x]
    BY <2>3, <2>7, FadingAdd
  <2>9. ASSUME NEW x \in DOMAIN m_counters'
        PROVE  m_counters'[x].expiry >= -MaxJump
    BY <2>8, LongestIsNumber DEF Apart
  <2>10. BufferedApart(p.id)'
    <3>1. r.expiry > -MaxJump /\ r.expiry + r.queued <= MaxTime
      BY <1>1, <2>1, <2>4, LongestIsNumber
    <3>2. Aged(m_counters', p.id, r.queued)
      BY <2>4, <2>8, LongestIsNumber DEF Aged
    <3>3. Past(p.id, Longest)
      BY <1>1, <2>3, TakenUpLate
    <3>4. Past(p.id, Longest)'
      BY <1>1, <3>3 DEF Past, Longest
    <3> QED
      BY <2>6, <3>1, <3>2, <3>4 DEF BufferedApart
  <2>11. ASSUME NEW x \in DOMAIN m_timers \ gone
         PROVE  BufferedApart(x)'
    <3>1. BufferedApart(x)
      BY DEF Apart
    <3>2. x # p.id /\ m_timers'[x] = m_timers[x]
      BY <2>3, <2>6
    <3>3. m_timers[x].queued \in Int
      BY <3>1, QueuedAtMost
    <3>4. Aged(m_counters', x, m_timers[x].queued)
      BY <2>3, <2>7, <3>1, <3>2, <3>3, AgedAfterAdd DEF BufferedApart
    <3> QED
      BY <1>1, <3>1, <3>2, <3>4 DEF BufferedApart, Past, Longest
  <2>12. ASSUME NEW x \in Ids \ DOMAIN m_timers'
         PROVE  LeftApart(x)'
    <3>1. x # p.id /\ (x \in DOMAIN m_timers => x \in gone)
      BY <2>6
    <3>2. LeftApart(x)
      <4>1. CASE x \in DOMAIN m_timers
        BY <4>1, LeavesApart DEF Apart
      <4>2. CASE x \notin DOMAIN m_timers
        BY <4>2 DEF Apart
      <4> QED
        BY <4>1, <4>2
    <3>3. ASSUME last_sent[x] \in Int
          PROVE  Aged(m_counters', x, last_sent[x] + Longest)
      <4>1. last_sent[x] + Longest \in Int
        BY <3>3, LongestIsNumber
      <4> QED
        BY <2>3, <2>7, <3>1, <3>2, <3>3, <4>1, AgedAfterAdd DEF LeftApart
    <3> QED
      BY <1>1, <3>3 DEF LeftApart, Longest
  <2>13. \A x \in DOMAIN m_timers' : BufferedApart(x)'
    BY <2>6, <2>10, <2>11
  <2> QED
    BY <2>9, <2>12, <2>13 DEF Apart
<1> QED
  BY <1>2, <1>3

LEMMA RemoveApart ==
  ASSUME FadingCbf, Core, Recorded, Apart, NEW id, Leaves(id)
  PROVE  Apart'
<1>1. /\ m_timers' = Without(m_timers, {id}) /\ m_counters' = m_counters
      /\ last_sent' = last_sent
  BY DEF Leaves, Remove, CounterRemove, history, FadingCbf
<1>2. /\ DOMAIN m_timers' \subseteq DOMAIN m_timers
      /\ \A x \in DOMAIN m_timers' : m_timers'[x] = m_timers[x]
  BY <1>1 DEF Without
<1>3. ASSUME NEW x \in DOMAIN m_timers'
      PROVE  BufferedApart(x)'
  BY <1>1, <1>2 DEF Apart, BufferedApart, Past, Longest
<1>4. ASSUME NEW x \in Ids \ DOMAIN m_timers'
      PROVE  LeftApart(x)'
  <2>1. LeftApart(x)
    <3>1. CASE x \in DOMAIN m_timers
      BY <3>1, LeavesApart DEF Apart
    <3>2. CASE x \notin DOMAIN m_timers
      BY <3>2 DEF Apart
    <3> QED
      BY <3>1, <3>2
  <2> QED
    BY <1>1, <2>1 DEF LeftApart, Longest
<1>5. \A x \in DOMAIN m_counters' : m_counters'[x].expiry >= -MaxJump
  BY <1>1 DEF Apart
<1> QED
  BY <1>3, <1>4, <1>5 DEF Apart

\* How time passes for counters and for the last broadcast.
LEMMA TickCounters ==
  ASSUME FadingCbf, Core, NEW d \in 1 .. MaxJump, Tick(d),
         \A x \in DOMAIN m_counters : m_counters[x].expiry >= -MaxJump
  PROVE  /\ DOMAIN m_counters' = DOMAIN m_counters
         /\ \A x \in DOMAIN m_counters :
              /\ m_counters'[x].expiry \in Int /\ m_counters'[x].expiry >= -MaxJump
              /\ m_counters'[x].expiry >= m_counters[x].expiry - d
<1>1. m_counters' = [x \in DOMAIN m_counters |->
                       [m_counters[x] EXCEPT !.expiry = IF Fading /\ @ >= 0 THEN @ - d ELSE @]]
  BY DEF Tick
<1>2. DOMAIN m_counters' = DOMAIN m_counters
  BY <1>1
<1>3. ASSUME NEW x \in DOMAIN m_counters
      PROVE  /\ m_counters'[x].expiry \in Int /\ m_counters'[x].expiry >= -MaxJump
             /\ m_counters'[x].expiry >= m_counters[x].expiry - d
  <2>1. m_counters[x] \in CounterType
    BY DEF Core, Counted
  <2>2. PICK e \in Int : e = m_counters[x].expiry /\ e >= -MaxJump
    BY <2>1 DEF CounterType
  <2>3. m_counters'[x].expiry = IF e >= 0 THEN e - d ELSE e
    BY <1>1, <2>1, <2>2 DEF CounterType, FadingCbf
  <2>4. MaxJump \in Nat
    BY LongestIsNumber
  <2> QED
    BY <2>2, <2>3, <2>4
<1> QED
  BY <1>2, <1>3

LEMMA TickSent ==
  ASSUME Recorded, NEW d \in 1 .. MaxJump, Tick(d), NEW x \in Ids, last_sent'[x] \in Int
  PROVE  /\ last_sent[x] \in Nat
         /\ last_sent'[x] = (IF last_sent[x] + d <= MaxAge THEN last_sent[x] + d ELSE MaxAge)
         /\ last_sent'[x] > 0
<1>1. last_sent'[x] = IF last_sent[x] \in Int THEN Min({last_sent[x] + d, MaxAge}) ELSE Off
  BY DEF Tick
<1>2. last_sent[x] \in Int
  BY <1>1, Numbers
<1>3. PICK s \in Nat : s = last_sent[x]
  BY <1>2, SentIsNumber
<1>4. MaxAge \in Nat /\ MaxAge >= 1 /\ s + d \in Int
  BY MaxAgeIsNumber
<1>5. Min({s + d, MaxAge}) = IF s + d <= MaxAge THEN s + d ELSE MaxAge
  <2>1. PICK a \in Int : a = s + d
    BY <1>4
  <2>2. PICK b \in Int : b = MaxAge
    BY <1>4
  <2>3. Min({a, b}) = IF a <= b THEN a ELSE b
    BY PairExtrema
  <2> QED
    BY <2>1, <2>2, <2>3
<1>6. last_sent'[x] = IF s + d <= MaxAge THEN s + d ELSE MaxAge
  BY <1>1, <1>2, <1>3, <1>5
<1>7. last_sent'[x] > 0
  BY <1>4, <1>6
<1> QED
  BY <1>3, <1>6, <1>7

LEMMA TickAged ==
  ASSUME FadingCbf, Core, NEW d \in 1 .. MaxJump, Tick(d),
         \A x \in DOMAIN m_counters : m_counters[x].expiry >= -MaxJump,
         NEW x, NEW t \in Int, Aged(m_counters, x, t)
  PROVE  Aged(m_counters', x, t + d)
<1>1. CounterLifetime \in Int /\ d \in Nat
  BY Numbers
<1>2. CASE x \in DOMAIN m_counters
  <2>1. m_counters[x].expiry \in Int
    BY <1>2 DEF Core, Counted, CounterType
  <2>2. /\ DOMAIN m_counters' = DOMAIN m_counters /\ m_counters'[x].expiry \in Int
        /\ m_counters'[x].expiry >= m_counters[x].expiry - d
    BY <1>2, TickCounters
  <2>3. CounterLifetime - m_counters[x].expiry <= t
    BY <1>2 DEF Aged
  <2>4. CounterLifetime - m_counters'[x].expiry <= t + d
    BY <1>1, <2>1, <2>2, <2>3
  <2> QED
    BY <1>2, <2>2, <2>4 DEF Aged
<1>3. CASE x \notin DOMAIN m_counters
  <2>1. DOMAIN m_counters' = DOMAIN m_counters
    BY TickCounters
  <2>2. CounterLifetime < t + d
    BY <1>1, <1>3 DEF Aged
  <2> QED
    BY <1>3, <2>1, <2>2 DEF Aged
<1> QED
  BY <1>2, <1>3

LEMMA TickApart ==
  ASSUME FadingCbf, Core, Recorded, OnTime, Apart, NEW d \in 1 .. MaxJump, Tick(d)
  PROVE  Apart'
<1>1. \A x \in DOMAIN m_counters : m_counters[x].expiry >= -MaxJump
  BY DEF Apart
<1>2. /\ DOMAIN m_counters' = DOMAIN m_counters
      /\ \A x \in DOMAIN m_counters :
           m_counters'[x].expiry \in Int /\ m_counters'[x].expiry >= -MaxJump
  BY <1>1, TickCounters
<1>3. /\ DOMAIN m_timers' = DOMAIN m_timers
      /\ \A x \in DOMAIN m_timers : /\ m_timers'[x].expiry = m_timers[x].expiry - d
                                    /\ m_timers'[x].queued = m_timers[x].queued + d
  BY DEF Tick
<1>4. d \in Nat /\ d <= MaxJump /\ d >= 1 /\ DOMAIN m_timers \subseteq Ids
  BY LongestIsNumber DEF Core, Listed, Timed
<1>5. ASSUME NEW x \in DOMAIN m_timers
      PROVE  BufferedApart(x)'
  <2>1. BufferedApart(x)
    BY DEF Apart
  <2>2. PICK e \in Int : e = m_timers[x].expiry
    BY <2>1, QueuedAtMost
  <2>3. PICK q \in Nat : q = m_timers[x].queued
    BY <2>1, QueuedAtMost
  <2>4. e > 0
    <3>1. ~Due /\ NothingOverdue
      BY OnTimeMeans DEF Tick
    <3> QED
      BY <2>2, <3>1 DEF NothingOverdue
  <2>5. e - d > -MaxJump /\ (e - d) + (q + d) <= MaxTime
    <3>1. e + q <= MaxTime
      BY <2>1, <2>2, <2>3 DEF BufferedApart
    <3> QED
      BY <1>4, <2>4, <3>1, LongestIsNumber
  <2>6. Aged(m_counters', x, q + d)
    <3>1. Aged(m_counters, x, q) /\ q \in Int
      BY <2>1, <2>3 DEF BufferedApart
    <3> QED
      BY <1>1, <3>1, TickAged
  <2>7. Past(x, Longest)'
    <3> SUFFICES ASSUME last_sent'[x] \in Int
                 PROVE  CounterLifetime < last_sent'[x] + Longest
      BY DEF Past, Longest
    <3>1. /\ last_sent[x] \in Nat
          /\ last_sent'[x] = (IF last_sent[x] + d <= MaxAge THEN last_sent[x] + d ELSE MaxAge)
      BY <1>4, TickSent
    <3>2. CounterLifetime < last_sent[x] + Longest
      BY <2>1, <3>1 DEF BufferedApart, Past
    <3> QED
      BY <1>4, <3>1, <3>2, MaxAgeIsNumber, LongestIsNumber
  <2>8. m_timers'[x].expiry = e - d /\ m_timers'[x].queued = q + d
    BY <1>3, <2>2, <2>3
  <2> QED
    BY <2>5, <2>6, <2>7, <2>8 DEF BufferedApart
<1>6. ASSUME NEW x \in Ids \ DOMAIN m_timers
      PROVE  LeftApart(x)'
  <2> SUFFICES ASSUME last_sent'[x] \in Int
               PROVE  Aged(m_counters', x, last_sent'[x] + Longest)
    BY DEF LeftApart, Longest
  <2>1. /\ last_sent[x] \in Nat
        /\ last_sent'[x] = (IF last_sent[x] + d <= MaxAge THEN last_sent[x] + d ELSE MaxAge)
    BY TickSent
  <2>2. PICK s \in Nat : s = last_sent[x]
    BY <2>1
  <2>3. CASE s + d <= MaxAge
    <3>1. PICK t \in Int : t = s + Longest
      BY LongestIsNumber
    <3>2. Aged(m_counters, x, t)
      BY <2>1, <2>2, <3>1 DEF Apart, LeftApart
    <3>3. Aged(m_counters', x, t + d)
      BY <1>1, <3>2, TickAged
    <3>4. last_sent'[x] + Longest = t + d
      BY <1>4, <2>1, <2>2, <2>3, <3>1, LongestIsNumber
    <3> QED
      BY <3>3, <3>4
  <2>4. CASE ~(s + d <= MaxAge)
    <3>1. last_sent'[x] = MaxAge
      BY <2>1, <2>2, <2>4
    <3>2. CounterLifetime < MaxAge + Longest /\ CounterLifetime + MaxJump <= MaxAge + Longest
      BY MaxAgeIsNumber, LongestIsNumber
    <3>3. CASE x \in DOMAIN m_counters
      <4>1. m_counters'[x].expiry \in Int /\ m_counters'[x].expiry >= -MaxJump
        BY <1>2, <3>3
      <4>2. CounterLifetime - m_counters'[x].expiry <= MaxAge + Longest
        BY <3>2, <4>1, MaxAgeIsNumber, LongestIsNumber
      <4> QED
        BY <1>2, <3>1, <3>3, <4>2 DEF Aged
    <3>4. CASE x \notin DOMAIN m_counters
      BY <1>2, <3>1, <3>2, <3>4 DEF Aged
    <3> QED
      BY <3>3, <3>4
  <2> QED
    BY <2>3, <2>4
<1>7. \A x \in DOMAIN m_counters' : m_counters'[x].expiry >= -MaxJump
  BY <1>2
<1> QED
  BY <1>3, <1>5, <1>6, <1>7 DEF Apart

\* flush() sends only packets whose timer has expired.
LEMMA FlushSends ==
  ASSUME Fading, Flush, NEW x \in Ids
  PROVE  \/ last_sent'[x] = last_sent[x]
         \/ last_sent'[x] = 0 /\ x \in Ripe
<1> DEFINE sends(p) == ~p.silent /\ StillValid(p.lifetime, m_timers[p.id].queued)
           ripe == {i \in DOMAIN m_packets : m_packets[i].id \in Ripe}
           sent == {m_packets[i].id : i \in {j \in ripe : sends(m_packets[j])}}
<1>1. last_sent' = [y \in Ids |-> IF Fading /\ y \in sent THEN 0 ELSE last_sent[y]]
  BY DEF Flush
<1>2. sent \subseteq Ripe
  OBVIOUS
<1> HIDE DEF sent
<1> QED
  BY <1>1, <1>2

LEMMA FlushApart ==
  ASSUME FadingCbf, Core, Recorded, Apart, Flush
  PROVE  Apart'
<1>1. m_timers' = Without(m_timers, Ripe) /\ m_counters' = m_counters /\ Fading
  BY DEF Flush, CounterRemove, FadingCbf
<1>2. /\ DOMAIN m_timers' = DOMAIN m_timers \ Ripe
      /\ \A x \in DOMAIN m_timers' : m_timers'[x] = m_timers[x]
      /\ DOMAIN m_timers \subseteq Ids /\ Ripe \subseteq DOMAIN m_timers
  BY <1>1 DEF Without, Core, Listed, Timed, Ripe
<1>3. ASSUME NEW x \in DOMAIN m_timers'
      PROVE  BufferedApart(x)'
  <2>1. BufferedApart(x) /\ m_timers'[x] = m_timers[x]
    BY <1>2 DEF Apart
  <2>2. x \in Ids /\ x \notin Ripe
    BY <1>2
  <2>3. last_sent'[x] = last_sent[x]
    BY <1>1, <2>2, FlushSends
  <2> QED
    BY <1>1, <2>1, <2>3 DEF BufferedApart, Past, Longest
<1>4. ASSUME NEW x \in Ids \ DOMAIN m_timers'
      PROVE  LeftApart(x)'
  <2>1. CASE last_sent'[x] = last_sent[x]
    <3>1. LeftApart(x)
      <4>1. CASE x \in DOMAIN m_timers
        BY <4>1, LeavesApart DEF Apart
      <4>2. CASE x \notin DOMAIN m_timers
        BY <4>2 DEF Apart
      <4> QED
        BY <4>1, <4>2
    <3> QED
      BY <1>1, <2>1, <3>1 DEF LeftApart, Longest
  <2>2. CASE last_sent'[x] = 0 /\ x \in Ripe
    <3>1. x \in DOMAIN m_timers /\ BufferedApart(x)
      BY <1>2, <2>2 DEF Apart
    <3>2. PICK q \in Nat : q = m_timers[x].queued /\ q <= Longest
      BY <3>1, QueuedAtMost
    <3>3. PICK t \in Int : t = Longest
      BY LongestIsNumber
    <3>4. Aged(m_counters, x, q) /\ Counted(m_counters) /\ q \in Int
      BY <3>1, <3>2 DEF BufferedApart, Core
    <3>5. Aged(m_counters, x, t)
      BY <3>2, <3>3, <3>4, AgedLonger
    <3>6. last_sent'[x] + Longest = t
      BY <2>2, <3>3
    <3> QED
      BY <1>1, <3>5, <3>6 DEF LeftApart, Longest
  <2> QED
    BY <1>1, <2>1, <2>2, FlushSends
<1>5. \A x \in DOMAIN m_counters' : m_counters'[x].expiry >= -MaxJump
  BY <1>1 DEF Apart
<1> QED
  BY <1>3, <1>4, <1>5 DEF Apart

LEMMA StepApart ==
  ASSUME FadingCbf, Core, Recorded, OnTime, Apart, Step
  PROVE  Apart'
<1>1. CASE UNCHANGED vars
  BY <1>1 DEF Apart, BufferedApart, LeftApart, Past, Longest, vars, buffer, history
<1>2. ~\E id, timeout : Restarts(id, timeout)
  BY DEF FadingCbf, Restarts
<1> QED
  BY <1>1, <1>2, AddApart, RemoveApart, TickApart, FlushApart DEF Step

\* What one step may do to the time since the last broadcast of x.
LEMMA StepRepeats ==
  ASSUME FadingCbf, Core, Recorded, Apart, Step, NEW x \in Ids,
         last_sent[x] \in Int, last_sent[x] > 0, last_sent'[x] = 0
  PROVE  last_sent[x] > CounterLifetime - MaxTime - MaxJump
<1>1. Flush
  <2>1. ~(last_sent' = last_sent)
    OBVIOUS
  <2>2. ~UNCHANGED vars
    BY <2>1 DEF vars, history
  <2>3. ~\E p, timeout : Contends(p, timeout)
    BY <2>1 DEF Contends, Contend
  <2>4. ~\E id : Leaves(id)
    BY <2>1 DEF Leaves, history
  <2>5. ~\E id, timeout : Restarts(id, timeout)
    BY <2>1 DEF Restarts, UpdateTimer
  <2>6. ASSUME NEW d \in 1 .. MaxJump, Tick(d)
        PROVE  FALSE
    <3>1. last_sent'[x] \in Int
      OBVIOUS
    <3>2. last_sent'[x] > 0
      BY <2>6, <3>1, TickSent
    <3> QED
      BY <3>2
  <2> QED
    BY <2>2, <2>3, <2>4, <2>5, <2>6 DEF Step
<1>2. Fading
  BY DEF FadingCbf
<1>3. x \in Ripe
  <2>1. last_sent'[x] # last_sent[x]
    OBVIOUS
  <2> QED
    BY <1>1, <1>2, <2>1, FlushSends
<1>4. BufferedApart(x)
  BY <1>3 DEF Apart, Ripe
<1>5. CounterLifetime < last_sent[x] + Longest
  BY <1>4 DEF BufferedApart, Past
<1> QED
  BY <1>5, LongestIsNumber

\* With fading counters a station that forwards by CBF within the area does
\* not broadcast the same packet again within a counter lifetime, less the
\* time the first broadcast spent in contention.
THEOREM RepeatedApart ==
  ASSUME FadingCbf
  PROVE  Spec /\ [][~ErasesFirst]_vars => RepeatsAreApart
<1> DEFINE Inv == Core /\ Recorded /\ OnTime /\ Apart
           Repeats == \A x \in Ids :
                        last_sent[x] \in Int /\ last_sent[x] > 0 /\ last_sent'[x] = 0
                          => last_sent[x] > CounterLifetime - MaxTime - MaxJump
<1>1. Init => Inv
  <2> SUFFICES ASSUME Init
               PROVE  Inv
    OBVIOUS
  <2>1. DOMAIN m_timers = {} /\ DOMAIN m_counters = {} /\ last_sent = [x \in Ids |-> Off]
    BY DEF Init
  <2>2. OnTime
    BY <2>1 DEF OnTime
  <2>3. \A x \in Ids : last_sent[x] \notin Int
    BY <2>1, Numbers
  <2>4. Apart
    BY <2>1, <2>3 DEF Apart, LeftApart
  <2> QED
    BY <2>2, <2>4, InitCore
<1>2. NoRestarts
  BY DEF FadingCbf, NoRestarts
<1>3. Inv /\ [Next]_vars /\ [~ErasesFirst]_vars => Inv'
  <2> SUFFICES ASSUME Inv, [Next]_vars, [~ErasesFirst]_vars
               PROVE  Inv'
    OBVIOUS
  <2>1. Step
    BY NextSteps
  <2> QED
    BY <1>2, <2>1, StepCore, StepRecorded, StepOnTime, StepApart
<1>4. Inv /\ [Next]_vars => [Repeats]_vars
  <2> SUFFICES ASSUME Inv, [Next]_vars, NEW x \in Ids,
                      last_sent[x] \in Int, last_sent[x] > 0, last_sent'[x] = 0
               PROVE  last_sent[x] > CounterLifetime - MaxTime - MaxJump
    OBVIOUS
  <2>1. Step
    BY NextSteps
  <2> QED
    BY <2>1, StepRepeats
<1> HIDE DEF Inv
<1> QED
  BY <1>1, <1>3, <1>4, PTL DEF Spec, RepeatsAreApart
=============================================================================
