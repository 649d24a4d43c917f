---------------------------- MODULE BudgetProofs ----------------------------
(***************************************************************************)
(* The encoded budget of a record, proved for any fields, values, marker   *)
(* and budget: what is written fits, long fields go first, and the counter *)
(* of truncated events is exact.                                           *)
(***************************************************************************)
EXTENDS BudgetProps, SumTheorems, TLAPS

----------------------------------------------------------------------------
(* The bytes of a value and of its prefixes                                *)

(* The bytes of the first k runes. *)
Upto(v, k) == SumFunctionOnSet(v, 1..k)

(* A sum over the first k, one more at a time. *)
LEMMA UptoNext ==
  ASSUME NEW L \in Nat, NEW v, \A i \in 1..L : v[i] \in Int
  PROVE  /\ Upto(v, 0) = 0
         /\ \A k \in 0..L : Upto(v, k) \in Int
         /\ \A k \in Nat : k + 1 <= L => Upto(v, k + 1) = Upto(v, k) + v[k + 1]
<1>1. Upto(v, 0) = 0
  <2>1. 1..0 = {}
    OBVIOUS
  <2>. QED  BY <2>1, SumEmpty DEF Upto
<1>2. ASSUME NEW k \in 0..L PROVE Upto(v, k) \in Int
  <2>1. IsFiniteSet(1..k) /\ \A i \in 1..k : v[i] \in Int
    BY FS_Interval
  <2>. QED  BY <2>1, SumRemove DEF Upto
<1>3. ASSUME NEW k \in Nat, k + 1 <= L PROVE Upto(v, k + 1) = Upto(v, k) + v[k + 1]
  <2>1. 1..(k + 1) = (1..k) \cup {k + 1} /\ k + 1 \notin 1..k
    OBVIOUS
  <2>2. IsFiniteSet(1..k) /\ \A i \in (1..k) \cup {k + 1} : v[i] \in Int
    BY <1>3, FS_Interval
  <2> DEFINE K == 1..k
             c == k + 1
  <2>3. SumFunctionOnSet(v, K \cup {c}) = SumFunctionOnSet(v, K) + v[c]
    <3>1. IsFiniteSet(K) /\ c \notin K /\ \A i \in K \cup {c} : v[i] \in Int
      BY <2>1, <2>2
    <3> HIDE DEF K, c
    <3>. QED  BY <3>1, SumAdd
  <2>. QED  BY <2>1, <2>3 DEF Upto
<1>. QED  BY <1>1, <1>2, <1>3

(* Every rune has a byte at least, so that a longer prefix has more of them. *)
LEMMA UptoGrows ==
  ASSUME NEW v \in Seq(Widths)
  PROVE  /\ \A k \in 0..Len(v) : Upto(v, k) \in Nat
         /\ \A j, k \in 0..Len(v) : j <= k => Upto(v, j) <= Upto(v, k)
<1> DEFINE L == Len(v)
           S(k) == Upto(v, k)
<1>1. L \in Nat /\ \A i \in 1..L : v[i] \in Int /\ v[i] >= 1
  BY DEF Widths
<1>2. /\ S(0) = 0 /\ \A k \in 0..L : S(k) \in Int
      /\ \A k \in Nat : k + 1 <= L => S(k + 1) = S(k) + v[k + 1]
  BY <1>1, UptoNext
<1> HIDE DEF S, L
<1>3. ASSUME NEW j \in 0..L PROVE \A k \in 0..L : j <= k => S(j) <= S(k)
  <2> DEFINE Bad == {k \in 0..L : j <= k /\ ~(S(j) <= S(k))}
  <2>1. SUFFICES ASSUME Bad # {} PROVE FALSE
    OBVIOUS
  <2>2. Bad \in SUBSET Nat
    BY <1>1
  <2>3. PICK k \in Bad : \A m \in Bad : k <= m
    BY <2>1, <2>2, LeastNumber
  <2>4. k # j
    BY <1>2, <2>3
  <2>5. k - 1 \in 0..L /\ j <= k - 1 /\ k - 1 \in Nat /\ (k - 1) + 1 = k /\ k <= L /\ k \in 1..L
    BY <1>1, <2>3, <2>4
  <2>6. S(j) <= S(k - 1)
    BY <2>3, <2>5
  <2>7. S(k) = S(k - 1) + v[k]
    <3>1. S((k - 1) + 1) = S(k - 1) + v[(k - 1) + 1]
      BY <1>2, <2>5
    <3>. QED  BY <2>5, <3>1
  <2>8. S(j) \in Int /\ S(k) \in Int /\ S(k - 1) \in Int /\ v[k] \in Int /\ v[k] >= 1
    BY <1>1, <1>2, <2>3, <2>5
  <2>9. S(j) <= S(k)
    BY <2>6, <2>7, <2>8
  <2>. QED  BY <2>3, <2>9
<1>4. ASSUME NEW k \in 0..L PROVE S(k) \in Nat
  <2>1. S(0) <= S(k)
    BY <1>1, <1>3
  <2>. QED  BY <1>2, <2>1
<1>. QED  BY <1>3, <1>4 DEF S, L

(* The bytes of a value, and of its first k runes. *)
LEMMA BytesUpto ==
  ASSUME NEW v \in Seq(Widths)
  PROVE  /\ Bytes(v) = Upto(v, Len(v)) /\ Bytes(v) \in Nat
         /\ \A k \in 0..Len(v) : /\ SubSeq(v, 1, k) \in Seq(Widths)
                                 /\ Bytes(SubSeq(v, 1, k)) = Upto(v, k)
<1>1. DOMAIN v = 1..Len(v) /\ Len(v) \in Nat
  OBVIOUS
<1>2. Bytes(v) = Upto(v, Len(v))
  BY <1>1 DEF Bytes, SumFunction, Upto
<1>3. Bytes(v) \in Nat
  BY <1>1, <1>2, UptoGrows
<1>4. ASSUME NEW k \in 0..Len(v)
      PROVE  SubSeq(v, 1, k) \in Seq(Widths) /\ Bytes(SubSeq(v, 1, k)) = Upto(v, k)
  <2> DEFINE p == SubSeq(v, 1, k)
  <2>1. /\ p \in Seq(Widths) /\ DOMAIN p = 1..k
        /\ \A i \in 1..k : p[i] = v[i] /\ p[i] \in Int
    BY DEF Widths
  <2> HIDE DEF p
  <2>2. SumFunctionOnSet(p, 1..k) = SumFunctionOnSet(v, 1..k)
    <3>1. IsFiniteSet(1..k)
      BY FS_Interval
    <3>. QED  BY <2>1, <3>1, SumAgrees
  <2>3. Bytes(p) = Upto(v, k)
    BY <2>1, <2>2 DEF Bytes, SumFunction, Upto
  <2>. QED  BY <2>1, <2>3 DEF p
<1>. QED  BY <1>2, <1>3, <1>4

(* The bytes of a concatenation. *)
LEMMA BytesConcat ==
  ASSUME NEW s \in Seq(Widths), NEW r \in Seq(Widths)
  PROVE  s \o r \in Seq(Widths) /\ Bytes(s \o r) = Bytes(s) + Bytes(r)
<1> DEFINE q == s \o r
           L == Len(s)
           M == Len(r)
           Q(k) == Upto(q, k)
           R(k) == Upto(r, k)
           Bad == {k \in 0..M : Q(L + k) # Bytes(s) + R(k)}
<1>1. /\ q \in Seq(Widths) /\ Len(q) = L + M /\ L \in Nat /\ M \in Nat
      /\ \A i \in 1..L : q[i] = s[i] /\ s[i] \in Int
      /\ \A i \in 1..M : q[L + i] = r[i] /\ r[i] \in Int
  BY DEF Widths
<1>2. \A i \in 1..(L + M) : q[i] \in Int
  BY <1>1 DEF Widths
<1> HIDE DEF q, L, M
<1>3. /\ \A k \in 0..(L + M) : Q(k) \in Int
      /\ \A k \in Nat : k + 1 <= L + M => Q(k + 1) = Q(k) + q[k + 1]
  <2>1. L + M \in Nat
    BY <1>1
  <2>. QED  BY <1>2, <2>1, UptoNext
<1>4. /\ R(0) = 0 /\ \A k \in 0..M : R(k) \in Int
      /\ \A k \in Nat : k + 1 <= M => R(k + 1) = R(k) + r[k + 1]
  BY <1>1, UptoNext
<1>5. Bytes(s) \in Nat /\ Bytes(s) = Upto(s, L) /\ Bytes(r) = R(M) /\ Bytes(q) = Q(L + M)
  BY <1>1, BytesUpto DEF L, M
<1>6. Q(L) = Bytes(s)
  <2>1. IsFiniteSet(1..L)
    BY <1>1, FS_Interval
  <2>2. SumFunctionOnSet(q, 1..L) = SumFunctionOnSet(s, 1..L)
    BY <1>1, <2>1, SumAgrees
  <2>. QED  BY <1>5, <2>2 DEF Upto
<1> HIDE DEF Q, R
<1>7. Bad = {}
  <2>1. SUFFICES ASSUME Bad # {} PROVE FALSE
    OBVIOUS
  <2>2. Bad \in SUBSET Nat
    BY <1>1
  <2>3. PICK k \in Bad : \A m \in Bad : k <= m
    BY <2>1, <2>2, LeastNumber
  <2>4. k # 0
    BY <1>1, <1>4, <1>5, <1>6, <2>3
  <2>5. PICK m \in Nat : k = m + 1 /\ m \in 0..M /\ m + 1 <= M /\ L + m \in Nat /\ m + 1 \in 1..M
    <3>1. k - 1 \in Nat /\ k = (k - 1) + 1 /\ k - 1 \in 0..M /\ (k - 1) + 1 <= M
          /\ L + (k - 1) \in Nat /\ (k - 1) + 1 \in 1..M
      BY <1>1, <2>3, <2>4
    <3>. QED  BY <3>1
  <2>6. Q(L + m) = Bytes(s) + R(m)
    BY <2>3, <2>5
  <2>7. Q((L + m) + 1) = Q(L + m) + q[(L + m) + 1] /\ (L + m) + 1 = L + (m + 1)
    BY <1>1, <1>3, <2>5
  <2>8. q[L + (m + 1)] = r[m + 1] /\ r[m + 1] \in Int /\ R(m + 1) = R(m) + r[m + 1]
    BY <1>1, <1>4, <2>5
  <2>9. Q(L + k) = Bytes(s) + R(k)
    BY <1>4, <1>5, <2>5, <2>6, <2>7, <2>8
  <2>. QED  BY <2>3, <2>9
<1>8. Q(L + M) = Bytes(s) + R(M)
  <2>1. M \in 0..M
    BY <1>1
  <2>2. M \notin Bad
    BY <1>7, Zenon
  <2>. QED  BY <2>1, <2>2
<1>. QED  BY <1>1, <1>5, <1>8 DEF q

----------------------------------------------------------------------------
(* Cuts                                                                    *)

(* A prefix has no more bytes than it may, nor any but whole runes. *)
LEMMA PrefixFits ==
  ASSUME NEW v \in Seq(Widths), NEW n \in Nat
  PROVE  Prefix(v, n) \in Seq(Widths) /\ Bytes(Prefix(v, n)) <= n
<1> DEFINE L == Len(v)
           K == {k \in DOMAIN v : Bytes(SubSeq(v, 1, k)) <= n}
           Beyond == {m \in Nat : m + 1 \notin K}
<1>1. L \in Nat /\ DOMAIN v = 1..L
  OBVIOUS
<1>2. \A k \in 1..L : k \in K <=> Upto(v, k) <= n
  BY <1>1, BytesUpto
<1>3. \A k \in K : k \in 1..L /\ Upto(v, k) <= n
  BY <1>1, <1>2
<1>4. K \subseteq 1..L
  BY <1>1
<1>5. L + 1 \notin K
  BY <1>1, <1>4
<1> HIDE DEF K
<1>6. Beyond \in SUBSET Nat /\ Beyond # {}
  BY <1>1, <1>5
<1>7. PICK m \in Beyond : \A j \in Beyond : m <= j
  BY <1>6, LeastNumber
<1>8. m \in Nat /\ m + 1 \notin K /\ \A j \in Nat : j < m => j + 1 \in K
  BY <1>7
<1>9. \A k \in 1..m : k \in K
  <2>1. ASSUME NEW k \in 1..m PROVE k \in K
    <3>1. k - 1 \in Nat /\ k - 1 < m /\ (k - 1) + 1 = k
      BY <1>8
    <3>. QED  BY <1>8, <3>1
  <2>. QED  BY <2>1
<1>10. ASSUME NEW k \in K PROVE k \in 1..m
  <2>1. SUFFICES ASSUME k > m PROVE FALSE
    BY <1>3, <1>8
  <2>2. m + 1 \in 1..L /\ m + 1 <= k /\ k \in 0..L /\ m + 1 \in 0..L
    BY <1>1, <1>3, <1>8, <2>1
  <2>3. Upto(v, m + 1) <= Upto(v, k) /\ Upto(v, m + 1) \in Nat /\ Upto(v, k) \in Nat
    BY <2>2, UptoGrows DEF L
  <2>4. Upto(v, m + 1) <= n
    BY <1>3, <2>3
  <2>. QED  BY <1>2, <1>8, <2>2, <2>4
<1>11. K = 1..m
  BY <1>9, <1>10
<1>12. Cardinality(K) = m
  BY <1>8, <1>11, FS_Interval
<1>13. Prefix(v, n) = SubSeq(v, 1, m)
  BY <1>12 DEF Prefix, K
<1>14. m \in 0..L
  BY <1>1, <1>4, <1>8, <1>11
<1>15. SubSeq(v, 1, m) \in Seq(Widths) /\ Bytes(SubSeq(v, 1, m)) = Upto(v, m)
  BY <1>14, BytesUpto DEF L
<1>16. Upto(v, m) <= n
  <2>1. CASE m = 0
    <3>1. 1..m = {}
      BY <2>1
    <3>. QED  BY <3>1, SumEmpty DEF Upto
  <2>2. CASE m # 0
    <3>1. m \in K
      BY <1>8, <1>9, <2>2
    <3>. QED  BY <1>3, <3>1
  <2>. QED  BY <2>1, <2>2
<1>. QED  BY <1>13, <1>15, <1>16

(* truncateField leaves at most maxFieldBytes; what it cuts is shorter than before. *)
LEMMA TruncateFits ==
  ASSUME NEW v \in Seq(Widths)
  PROVE  /\ TruncateField(v) \in Seq(Widths)
         /\ Bytes(TruncateField(v)) <= Bytes(v)
         /\ TruncateField(v) # v <=> Bytes(v) > MaxField
<1> DEFINE n == MaxField - Bytes(Marker)
<1>1. Marker \in Seq(Widths) /\ MaxField \in Nat /\ Bytes(Marker) < MaxField
  BY BudgetAssumption
<1>2. Bytes(Marker) \in Nat /\ Bytes(v) \in Nat /\ n \in Nat
  BY <1>1, BytesUpto
<1>3. CASE Bytes(v) <= MaxField
  BY <1>1, <1>2, <1>3 DEF TruncateField
<1>4. CASE ~(Bytes(v) <= MaxField)
  <2>1. Prefix(v, n) \in Seq(Widths) /\ Bytes(Prefix(v, n)) <= n
    BY <1>2, PrefixFits
  <2>2. Bytes(Prefix(v, n)) \in Nat
    BY <2>1, BytesUpto
  <2>3. TruncateField(v) = Prefix(v, n) \o Marker
    BY <1>4 DEF TruncateField
  <2>4. /\ TruncateField(v) \in Seq(Widths)
        /\ Bytes(TruncateField(v)) = Bytes(Prefix(v, n)) + Bytes(Marker)
    BY <1>1, <2>1, <2>3, BytesConcat
  <2>5. Bytes(TruncateField(v)) < Bytes(v)
    BY <1>1, <1>2, <1>4, <2>1, <2>2, <2>4
  <2>6. TruncateField(v) # v
    BY <1>2, <2>5
  <2>7. Bytes(TruncateField(v)) <= Bytes(v) /\ Bytes(v) > MaxField
    BY <1>1, <1>2, <1>4, <2>2, <2>4, <2>5
  <2>. QED  BY <2>4, <2>6, <2>7
<1>. QED  BY <1>3, <1>4

(* A value that cannot be shortened is one of at most two markers. *)
LEMMA HalvedFits ==
  ASSUME NEW v \in Seq(Widths)
  PROVE  Halved(v) \in Seq(Widths) /\ (~Reclaims(v) => Bytes(v) <= 2 * Bytes(Marker))
<1> DEFINE n == Bytes(v) \div 2
<1>1. Marker \in Seq(Widths) /\ Bytes(Marker) \in Nat /\ Bytes(v) \in Nat
  BY BudgetAssumption, BytesUpto
<1>2. n \in Nat /\ Bytes(v) - n >= n
  BY <1>1
<1>3. Prefix(v, n) \in Seq(Widths) /\ Bytes(Prefix(v, n)) <= n
  BY <1>2, PrefixFits
<1>4. Bytes(Prefix(v, n)) \in Nat
  BY <1>3, BytesUpto
<1>5. Halved(v) \in Seq(Widths) /\ Bytes(Halved(v)) = Bytes(Prefix(v, n)) + Bytes(Marker)
  BY <1>1, <1>3, BytesConcat DEF Halved
<1>6. CASE Bytes(v) <= Bytes(Marker)
  BY <1>1, <1>5, <1>6
<1>7. CASE Bytes(v) <= Bytes(Halved(v))
  BY <1>1, <1>2, <1>3, <1>4, <1>5, <1>7
<1>8. ~Reclaims(v) => Bytes(v) <= Bytes(Marker) \/ Bytes(v) <= Bytes(Halved(v))
  BY <1>1, <1>4, <1>5 DEF Reclaims
<1>. QED  BY <1>5, <1>6, <1>7, <1>8

----------------------------------------------------------------------------
(* The encoding                                                            *)

(* What encodedLen counts is what go-evtx writes, and at most two bytes of it for
   one of the value's own. *)
LEMMA EncodedIsWire ==
  ASSUME NEW v \in Seq(Widths)
  PROVE  /\ EncodedLen(v) = WireBytes(v) /\ EncodedLen(v) \in Nat
         /\ EncodedLen(v) <= 4 + 2 * Bytes(v)
<1> DEFINE L == Len(v)
           u == [i \in DOMAIN v |-> IF v[i] = 4 THEN 4 ELSE 2]
           Wide(k) == {i \in 1..k : v[i] = 4}
           C(k) == Cardinality(Wide(k))
           U(k) == Upto(u, k)
           B(k) == Upto(v, k)
           Bad == {k \in 0..L : ~(U(k) = 2 * (k + C(k)) /\ U(k) <= 2 * B(k))}
<1>1. /\ L \in Nat /\ DOMAIN v = 1..L /\ DOMAIN u = 1..L
      /\ \A i \in 1..L : v[i] \in 1..4 /\ u[i] = IF v[i] = 4 THEN 4 ELSE 2
  BY DEF Widths
<1>2. \A i \in 1..L : v[i] \in Int /\ u[i] \in Int
  BY <1>1
<1> HIDE DEF u
<1>3. /\ U(0) = 0 /\ \A k \in 0..L : U(k) \in Int
      /\ \A k \in Nat : k + 1 <= L => U(k + 1) = U(k) + u[k + 1]
  BY <1>1, <1>2, UptoNext
<1>4. /\ B(0) = 0 /\ \A k \in 0..L : B(k) \in Int
      /\ \A k \in Nat : k + 1 <= L => B(k + 1) = B(k) + v[k + 1]
  BY <1>1, <1>2, UptoNext
<1>5. \A k \in Nat : IsFiniteSet(Wide(k)) /\ C(k) \in Nat
  <2>1. ASSUME NEW k \in Nat PROVE IsFiniteSet(Wide(k)) /\ C(k) \in Nat
    <3>1. IsFiniteSet(1..k) /\ Wide(k) \in SUBSET (1..k)
      BY FS_Interval
    <3>2. IsFiniteSet(Wide(k))
      BY <3>1, FS_Subset
    <3>. QED  BY <3>2, FS_CardinalityType
  <2>. QED  BY <2>1
<1>6. C(0) = 0
  <2>1. Wide(0) = {}
    OBVIOUS
  <2>. QED  BY <2>1, FS_EmptySet
<1>7. ASSUME NEW k \in Nat PROVE C(k + 1) = IF v[k + 1] = 4 THEN C(k) + 1 ELSE C(k)
  <2>1. CASE v[k + 1] = 4
    <3>1. Wide(k + 1) = Wide(k) \cup {k + 1} /\ k + 1 \notin Wide(k)
      BY <2>1
    <3>2. IsFiniteSet(Wide(k))
      BY <1>5
    <3>3. Cardinality(Wide(k) \cup {k + 1}) = Cardinality(Wide(k)) + 1
      <4> HIDE DEF Wide
      <4>. QED  BY <3>1, <3>2, FS_AddElement
    <3>. QED  BY <2>1, <3>1, <3>3
  <2>2. CASE v[k + 1] # 4
    <3>1. Wide(k + 1) = Wide(k)
      BY <2>2
    <3>. QED  BY <2>2, <3>1
  <2>. QED  BY <2>1, <2>2
<1> HIDE DEF C, U, B
<1>8. Bad = {}
  <2>1. SUFFICES ASSUME Bad # {} PROVE FALSE
    OBVIOUS
  <2>2. Bad \in SUBSET Nat
    BY <1>1
  <2>3. PICK k \in Bad : \A m \in Bad : k <= m
    BY <2>1, <2>2, LeastNumber
  <2>4. k # 0
    BY <1>1, <1>3, <1>4, <1>6, <2>3
  <2>5. PICK m \in Nat : k = m + 1 /\ m \in 0..L /\ m + 1 <= L /\ m + 1 \in 1..L
    <3>1. k - 1 \in Nat /\ k = (k - 1) + 1 /\ k - 1 \in 0..L /\ (k - 1) + 1 <= L
          /\ (k - 1) + 1 \in 1..L
      BY <1>1, <2>3, <2>4
    <3>. QED  BY <3>1
  <2>6. U(m) = 2 * (m + C(m)) /\ U(m) <= 2 * B(m)
    BY <2>3, <2>5
  <2>7. /\ U(m + 1) = U(m) + u[m + 1] /\ B(m + 1) = B(m) + v[m + 1]
        /\ C(m + 1) = IF v[m + 1] = 4 THEN C(m) + 1 ELSE C(m)
        /\ v[m + 1] \in 1..4 /\ u[m + 1] = IF v[m + 1] = 4 THEN 4 ELSE 2
        /\ U(m) \in Int /\ B(m) \in Int /\ C(m) \in Nat
    BY <1>1, <1>3, <1>4, <1>5, <1>7, <2>5
  <2>8. U(m + 1) = 2 * ((m + 1) + C(m + 1)) /\ U(m + 1) <= 2 * B(m + 1)
    <3>1. CASE v[m + 1] = 4
      <4>1. U(m + 1) = U(m) + 4 /\ B(m + 1) = B(m) + 4 /\ C(m + 1) = C(m) + 1
        BY <2>7, <3>1
      <4>. QED  BY <2>6, <2>7, <4>1
    <3>2. CASE v[m + 1] # 4
      <4>1. U(m + 1) = U(m) + 2 /\ B(m + 1) >= B(m) + 1 /\ C(m + 1) = C(m) /\ B(m + 1) \in Int
        BY <2>7, <3>2
      <4>2. U(m) \in Int /\ B(m) \in Int /\ C(m) \in Nat
        BY <2>7
      <4>3. U(m + 1) <= 2 * B(m + 1)
        BY <2>6, <4>1, <4>2
      <4>4. U(m + 1) = 2 * ((m + 1) + C(m + 1))
        BY <2>6, <4>1, <4>2
      <4>. QED  BY <4>3, <4>4
    <3>. QED  BY <3>1, <3>2
  <2>. QED  BY <2>3, <2>5, <2>8
<1>9. U(L) = 2 * (L + C(L)) /\ U(L) <= 2 * B(L)
  <2>1. L \in 0..L
    BY <1>1
  <2>2. L \notin Bad
    BY <1>8, Zenon
  <2>. QED  BY <2>1, <2>2
<1>10. EncodedLen(v) = 4 + 2 * (L + C(L))
  BY <1>1 DEF EncodedLen, C
<1>11. WireBytes(v) = 4 + U(L)
  BY <1>1 DEF WireBytes, SumFunction, Upto, U, u
<1>12. Bytes(v) = B(L)
  BY BytesUpto DEF B
<1>13. C(L) \in Nat
  BY <1>1, <1>5
<1> HIDE DEF L
<1>14. EncodedLen(v) = WireBytes(v)
  BY <1>9, <1>10, <1>11
<1>15. EncodedLen(v) \in Nat
  BY <1>1, <1>10, <1>13
<1>16. EncodedLen(v) <= 4 + 2 * Bytes(v)
  <2>1. U(L) \in Int /\ B(L) \in Int
    BY <1>1, <1>3, <1>4
  <2>. QED  BY <1>9, <1>10, <1>12, <2>1
<1>. QED  BY <1>14, <1>15, <1>16

----------------------------------------------------------------------------
(* The invariant of the two passes                                         *)

(* A field as the first pass leaves it. *)
Clipped(f) == TruncateField(event[f])

BudgetTypes ==
  /\ budget \in Nat /\ truncated \in BOOLEAN /\ pc \in {"clip", "enforce", "done"}
  /\ event \in [Fields -> Seq(Widths)] /\ fields \in [Fields -> Seq(Widths)]

(* The corrected total is the sum. *)
TotalIsExact == total = TotalOf(fields)

(* The second pass only shortens ... *)
OnlyShorter == \A f \in Fields : Bytes(fields[f]) <= Bytes(Clipped(f))

(* ... and no field before a longer one. *)
LongestFirst ==
  \A f, g \in Fields : fields[f] # Clipped(f) /\ fields[g] = Clipped(g)
                         => Bytes(fields[g]) <= Bytes(Clipped(f))

BudgetInv ==
  /\ BudgetTypes
  /\ pc = "clip" => fields = event
  /\ pc # "clip" => TotalIsExact /\ OnlyShorter /\ LongestFirst
  /\ pc = "enforce" => (truncated <=> fields # event)
  /\ pc = "done" /\ Roomy => total <= budget /\ (truncated <=> fields # event)

(* Cost of the fields, one for each. *)
Costs(fs) == [f \in Fields |-> EncodedLen(fs[f])]

(* The total of the fields, and of the fields with one of them changed. *)
LEMMA TotalTypes ==
  ASSUME NEW fs \in [Fields -> Seq(Widths)]
  PROVE  /\ TotalOf(fs) = SumFunctionOnSet(Costs(fs), Fields)
         /\ \A f \in Fields : Costs(fs)[f] = EncodedLen(fs[f]) /\ Costs(fs)[f] \in Int
         /\ TotalOf(fs) \in Int
<1>1. DOMAIN fs = Fields /\ DOMAIN Costs(fs) = Fields
  BY DEF Costs
<1>2. TotalOf(fs) = SumFunctionOnSet(Costs(fs), Fields)
  BY <1>1 DEF TotalOf, SumFunction, Costs
<1>3. \A f \in Fields : Costs(fs)[f] = EncodedLen(fs[f]) /\ Costs(fs)[f] \in Int
  <2>1. ASSUME NEW f \in Fields PROVE EncodedLen(fs[f]) \in Int
    BY EncodedIsWire
  <2>. QED  BY <2>1 DEF Costs
<1>4. SumFunctionOnSet(Costs(fs), Fields) \in Int
  BY <1>3, SumRemove, BudgetAssumption
<1>. QED  BY <1>2, <1>3, <1>4

(* The first pass. *)
LEMMA ClipKeeps ==
  ASSUME BudgetInv, Clip
  PROVE  BudgetInv'
<1>1. /\ pc = "clip" /\ fields' = [f \in Fields |-> TruncateField(event[f])]
      /\ truncated' = (\E f \in Fields : Bytes(event[f]) > MaxField)
      /\ total' = TotalOf(fields') /\ pc' = "enforce" /\ budget' = budget /\ event' = event
  BY DEF Clip
<1>2. BudgetTypes
  BY DEF BudgetInv
<1>3. \A f \in Fields :
        /\ event[f] \in Seq(Widths) /\ fields'[f] = TruncateField(event[f])
        /\ TruncateField(event[f]) \in Seq(Widths)
        /\ TruncateField(event[f]) # event[f] <=> Bytes(event[f]) > MaxField
  BY <1>1, <1>2, TruncateFits DEF BudgetTypes
<1>4. BudgetTypes'
  <2>1. fields' \in [Fields -> Seq(Widths)]
    BY <1>1, <1>3
  <2>2. truncated' \in BOOLEAN
    BY <1>1
  <2>. QED  BY <1>1, <1>2, <2>1, <2>2 DEF BudgetTypes
<1>5. \A f \in Fields : fields'[f] = Clipped(f)' /\ Bytes(Clipped(f)') \in Nat
  BY <1>1, <1>3, BytesUpto DEF Clipped
<1>6. TotalIsExact' /\ OnlyShorter' /\ LongestFirst'
  BY <1>1, <1>5 DEF TotalIsExact, OnlyShorter, LongestFirst
<1>7. truncated' <=> fields' # event'
  <2>1. fields' # event' <=> \E f \in Fields : fields'[f] # event[f]
    BY <1>1, <1>2 DEF BudgetTypes
  <2>2. (\E f \in Fields : fields'[f] # event[f]) <=> (\E f \in Fields : Bytes(event[f]) > MaxField)
    BY <1>3
  <2>. QED  BY <1>1, <2>1, <2>2
<1>. QED  BY <1>1, <1>4, <1>6, <1>7 DEF BudgetInv

(* One turn of the second pass. *)
LEMMA ShrinkKeeps ==
  ASSUME BudgetInv, NEW c \in Fields, Shrink(c)
  PROVE  BudgetInv'
<1>1. /\ pc = "enforce" /\ Longest(c) /\ Reclaims(fields[c])
      /\ fields' = [fields EXCEPT ![c] = Halved(fields[c])]
      /\ total' = total + EncodedLen(Halved(fields[c])) - EncodedLen(fields[c])
      /\ truncated' = TRUE /\ budget' = budget /\ event' = event /\ pc' = pc
  BY DEF Shrink
<1>2. BudgetTypes /\ TotalIsExact /\ OnlyShorter /\ LongestFirst
  BY <1>1 DEF BudgetInv
<1>3. \A f \in Fields : /\ fields[f] \in Seq(Widths) /\ event[f] \in Seq(Widths)
                         /\ Clipped(f) \in Seq(Widths) /\ Bytes(Clipped(f)) <= Bytes(event[f])
  BY <1>2, TruncateFits DEF BudgetTypes, Clipped
<1>4. \A f \in Fields : /\ Bytes(fields[f]) \in Nat /\ Bytes(event[f]) \in Nat
                         /\ Bytes(Clipped(f)) \in Nat /\ Bytes(fields[f]) <= Bytes(Clipped(f))
                         /\ Bytes(fields[f]) <= Bytes(fields[c])
  BY <1>1, <1>2, <1>3, BytesUpto DEF OnlyShorter, Longest
<1>5. Halved(fields[c]) \in Seq(Widths) /\ Bytes(Halved(fields[c])) < Bytes(fields[c])
  BY <1>1, <1>3, HalvedFits DEF Reclaims
<1>6. Bytes(Halved(fields[c])) \in Nat
  BY <1>5, BytesUpto
<1>7. /\ fields' \in [Fields -> Seq(Widths)] /\ fields'[c] = Halved(fields[c])
      /\ \A f \in Fields \ {c} : fields'[f] = fields[f]
  BY <1>1, <1>2, <1>5 DEF BudgetTypes
<1>8. BudgetTypes'
  BY <1>1, <1>2, <1>7 DEF BudgetTypes
<1>9. TotalIsExact'
  <2> DEFINE old == Costs(fields)
             new == Costs(fields')
  <2>1. /\ TotalOf(fields) = SumFunctionOnSet(old, Fields)
        /\ \A f \in Fields : old[f] = EncodedLen(fields[f]) /\ old[f] \in Int
    BY <1>2, TotalTypes DEF BudgetTypes
  <2>2. /\ TotalOf(fields') = SumFunctionOnSet(new, Fields)
        /\ \A f \in Fields : new[f] = EncodedLen(fields'[f]) /\ new[f] \in Int
    BY <1>7, TotalTypes
  <2> HIDE DEF old, new
  <2>3. \A f \in Fields \ {c} : new[f] = old[f]
    BY <1>7, <2>1, <2>2
  <2>4. SumFunctionOnSet(new, Fields) = SumFunctionOnSet(old, Fields) + new[c] - old[c]
    BY <2>1, <2>2, <2>3, SumUpdate, BudgetAssumption
  <2>5. new[c] = EncodedLen(Halved(fields[c])) /\ old[c] = EncodedLen(fields[c])
    BY <1>7, <2>1, <2>2
  <2>6. total = SumFunctionOnSet(old, Fields)
    BY <1>2, <2>1 DEF TotalIsExact
  <2>7. total' = SumFunctionOnSet(new, Fields)
    BY <1>1, <2>4, <2>5, <2>6
  <2>. QED  BY <2>2, <2>7 DEF TotalIsExact
<1>10. \A f \in Fields : Clipped(f)' = Clipped(f)
  BY <1>1 DEF Clipped
<1>11. Bytes(fields'[c]) < Bytes(Clipped(c)) /\ Bytes(fields'[c]) < Bytes(event[c])
  BY <1>3, <1>4, <1>5, <1>6, <1>7
<1>12. OnlyShorter'
  <2>1. ASSUME NEW f \in Fields PROVE Bytes(fields'[f]) <= Bytes(Clipped(f))
    <3>1. CASE f = c
      BY <1>4, <1>6, <1>7, <1>11, <3>1
    <3>2. CASE f # c
      BY <1>4, <1>7, <3>2
    <3>. QED  BY <3>1, <3>2
  <2>. QED  BY <1>10, <2>1 DEF OnlyShorter
<1>13. LongestFirst'
  <2>1. ASSUME NEW f \in Fields, NEW g \in Fields,
               fields'[f] # Clipped(f), fields'[g] = Clipped(g)
        PROVE  Bytes(fields'[g]) <= Bytes(Clipped(f))
    <3>1. g # c
      BY <1>4, <1>11, <2>1
    <3>2. fields'[g] = fields[g]
      BY <1>7, <3>1
    <3>3. CASE f = c
      <4>1. /\ Bytes(fields[g]) <= Bytes(fields[c]) /\ Bytes(fields[c]) <= Bytes(Clipped(c))
            /\ Bytes(fields[g]) \in Nat /\ Bytes(fields[c]) \in Nat /\ Bytes(Clipped(c)) \in Nat
        BY <1>4
      <4>. QED  BY <3>2, <3>3, <4>1
    <3>4. CASE f # c
      <4>1. fields[f] # Clipped(f) /\ fields[g] = Clipped(g)
        BY <1>7, <2>1, <3>2, <3>4
      <4>. QED  BY <1>2, <3>2, <4>1 DEF LongestFirst
    <3>. QED  BY <3>3, <3>4
  <2>. QED  BY <1>10, <2>1 DEF LongestFirst
<1>14. fields' # event'
  BY <1>1, <1>4, <1>6, <1>7, <1>11
<1>. QED  BY <1>1, <1>8, <1>9, <1>12, <1>13, <1>14 DEF BudgetInv

(* When nothing can be reclaimed, the fields are as short as a roomy budget allows. *)
LEMMA NothingLeftFits ==
  ASSUME BudgetTypes, TotalIsExact, NEW c \in Fields, Longest(c), ~Reclaims(fields[c]), Roomy
  PROVE  total <= budget
<1> DEFINE M == Bytes(Marker)
           hi == 4 + 4 * M
           costs == Costs(fields)
<1>1. M \in Nat /\ hi \in Int
  BY BudgetAssumption, BytesUpto
<1>2. \A f \in Fields : fields[f] \in Seq(Widths)
  BY DEF BudgetTypes
<1>3. Bytes(fields[c]) <= 2 * M /\ Bytes(fields[c]) \in Nat
  BY <1>2, HalvedFits, BytesUpto
<1>4. /\ TotalOf(fields) = SumFunctionOnSet(costs, Fields)
      /\ \A f \in Fields : costs[f] = EncodedLen(fields[f]) /\ costs[f] \in Int
      /\ TotalOf(fields) \in Int
  BY TotalTypes DEF BudgetTypes
<1> HIDE DEF costs
<1>5. ASSUME NEW f \in Fields PROVE 0 <= costs[f] /\ costs[f] <= hi
  <2>1. Bytes(fields[f]) <= Bytes(fields[c]) /\ Bytes(fields[f]) \in Nat
    BY <1>2, BytesUpto DEF Longest
  <2>2. EncodedLen(fields[f]) \in Nat /\ EncodedLen(fields[f]) <= 4 + 2 * Bytes(fields[f])
    BY <1>2, EncodedIsWire
  <2>. QED  BY <1>1, <1>3, <1>4, <2>1, <2>2
<1>6. SumFunctionOnSet(costs, Fields) <= hi * Cardinality(Fields)
  <2> HIDE DEF hi
  <2>1. \A f \in Fields : costs[f] \in Int /\ 0 <= costs[f] /\ costs[f] <= hi
    BY <1>4, <1>5
  <2>2. IsFiniteSet(Fields) /\ 0 \in Int /\ hi \in Int
    BY <1>1, BudgetAssumption
  <2>. QED  BY <2>1, <2>2, SumBounds, Zenon
<1>7. Cardinality(Fields) \in Nat
  BY BudgetAssumption, FS_CardinalityType
<1>8. Cardinality(Fields) * hi <= budget
  BY DEF Roomy
<1>9. hi * Cardinality(Fields) = Cardinality(Fields) * hi /\ hi * Cardinality(Fields) \in Int
  <2> HIDE DEF hi
  <2>. QED  BY <1>1, <1>7
<1>10. budget \in Nat /\ total = SumFunctionOnSet(costs, Fields) /\ total \in Int
  BY <1>4 DEF BudgetTypes, TotalIsExact
<1> HIDE DEF hi
<1>. QED  BY <1>6, <1>8, <1>9, <1>10

(* The end of the second pass. *)
LEMMA FinishKeeps ==
  ASSUME BudgetInv, Finish
  PROVE  BudgetInv'
<1>1. /\ pc = "enforce" /\ pc' = "done" /\ UNCHANGED <<budget, event, fields, total>>
      /\ total <= budget \/ \E f \in Fields : Longest(f) /\ ~Reclaims(fields[f])
      /\ truncated' = (truncated \/ total > budget)
  BY DEF Finish
<1>2. BudgetTypes /\ TotalIsExact /\ OnlyShorter /\ LongestFirst /\ (truncated <=> fields # event)
  BY <1>1 DEF BudgetInv
<1>3. BudgetTypes'
  BY <1>1, <1>2 DEF BudgetTypes
<1>4. TotalIsExact' /\ OnlyShorter' /\ LongestFirst' /\ Roomy' = Roomy
  BY <1>1, <1>2 DEF TotalIsExact, OnlyShorter, LongestFirst, Clipped, Roomy
<1>5. ASSUME Roomy PROVE total <= budget /\ (truncated' <=> fields # event)
  <2>1. total <= budget
    BY <1>1, <1>2, <1>5, NothingLeftFits
  <2>2. total \in Int /\ budget \in Int
    BY <1>2, TotalTypes DEF BudgetTypes, TotalIsExact
  <2>3. ~(total > budget)
    BY <2>1, <2>2
  <2>. QED  BY <1>1, <1>2, <2>1, <2>3
<1>. QED  BY <1>1, <1>3, <1>4, <1>5 DEF BudgetInv

(* The invariant holds throughout. *)
LEMMA AlwaysBudgetInv == Spec => []BudgetInv
<1>1. Init => BudgetInv
  <2> SUFFICES ASSUME Init PROVE BudgetInv
    OBVIOUS
  <2>1. event \in [Fields -> Seq(Widths)] /\ budget \in Nat
    BY BudgetAssumption DEF Init
  <2>. QED  BY <2>1 DEF Init, BudgetInv, BudgetTypes
<1>2. BudgetInv /\ [Next]_vars => BudgetInv'
  <2> SUFFICES ASSUME BudgetInv, [Next]_vars PROVE BudgetInv'
    OBVIOUS
  <2>1. CASE UNCHANGED vars
    <3>1. UNCHANGED <<budget, event, fields, total, truncated, pc>>
      BY <2>1 DEF vars
    <3>2. BudgetTypes' = BudgetTypes /\ Roomy' = Roomy
      BY <3>1 DEF BudgetTypes, Roomy
    <3>3. TotalIsExact' = TotalIsExact /\ OnlyShorter' = OnlyShorter /\ LongestFirst' = LongestFirst
      BY <3>1 DEF TotalIsExact, OnlyShorter, LongestFirst, Clipped
    <3>. QED  BY <3>1, <3>2, <3>3 DEF BudgetInv
  <2>. QED  BY <2>1, ClipKeeps, ShrinkKeeps, FinishKeeps DEF Next
<1>. QED  BY <1>1, <1>2, PTL DEF Spec

----------------------------------------------------------------------------
(* What go-evtx is given                                                   *)

(* Whatever an event holds, the fields that enforceEncodedBudget lets through are of
   whole runes, and what they cost on the wire is within any budget that has room
   for the shortest they can become. *)
THEOREM FieldsFitTheRecord == Spec => []RecordFits
<1>1. BudgetInv => RecordFits
  <2> SUFFICES ASSUME BudgetInv, pc = "done" PROVE RecordFits
    BY DEF RecordFits
  <2>1. BudgetTypes /\ TotalIsExact /\ (Roomy => total <= budget)
    BY DEF BudgetInv
  <2>2. \A f \in Fields : fields[f] \in Seq(Widths)
    BY <2>1 DEF BudgetTypes
  <2>3. \A f \in Fields : Range(fields[f]) \subseteq Widths
    BY <2>2 DEF Range
  <2>4. [f \in Fields |-> WireBytes(fields[f])] = Costs(fields)
    BY <2>2, EncodedIsWire DEF Costs
  <2>5. SumFunction(Costs(fields)) = total
    <3>1. total = SumFunctionOnSet(Costs(fields), Fields)
      BY <2>1, TotalTypes DEF TotalIsExact, BudgetTypes
    <3>2. DOMAIN Costs(fields) = Fields
      BY DEF Costs
    <3>. QED  BY <3>1, <3>2 DEF SumFunction
  <2>. QED  BY <2>1, <2>3, <2>4, <2>5 DEF RecordFits
<1>. QED  BY <1>1, AlwaysBudgetInv, PTL

(* The second pass shortens no field while a longer one is left as it was: small
   fields that identify the event outlast a long path. *)
THEOREM LongFieldsAreCutFirst == Spec => []LongFieldsGoFirst
<1>1. BudgetInv => LongFieldsGoFirst
  BY DEF BudgetInv, LongestFirst, Clipped, LongFieldsGoFirst
<1>. QED  BY <1>1, AlwaysBudgetInv, PTL

(* With such a budget an event is counted as truncated if and only if what is
   written differs from what arrived. *)
THEOREM TruncationsAreCounted == Spec => []TruncationIsReported
<1>1. BudgetInv => TruncationIsReported
  BY DEF BudgetInv, TruncationIsReported
<1>. QED  BY <1>1, AlwaysBudgetInv, PTL
=============================================================================
